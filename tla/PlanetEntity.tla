----------------------------- MODULE PlanetEntity ----------------------------
(***************************************************************************)
(* The life of one planet on the wall: built by PlanetEntity and the       *)
(* stages wrapped around it, textured, given its surface when the maps     *)
(* arrive from the worker, dressed for the theme in every frame, disposed. *)
(* Beside its looks the model follows the GPU resources: what the renderer *)
(* uploaded, what was freed, and what is still in use.                     *)
(***************************************************************************)
EXTENDS Integers, Sequences, PlanetParts

CONSTANTS
    Drawing,            \* the drawings looked at, see DrawingAssumption
    Theme,              \* the themes of the galaxy
    MaxMade             \* bound: objects made when the theme changes

ASSUME DrawingAssumption ==
    /\ Drawing \subseteq
         [style : {"classic", "ringed", "cratered", "spiky"},
          companions : Seq({"moon", "stars", "satellite", "astronaut"}),
          rendering : {"classic", "front-view"},
          valid : BOOLEAN,      \* validManifest: the worker may be asked
          variant : 1..3,       \* which astronaut its id hashes to
          even : BOOLEAN]       \* does its id hash to an even bunny seed?
    /\ MaxMade \in Nat
    /\ "default" \in Theme          \* a planet is built in its looks

VARIABLES
    drawing,        \* what this planet is made from
    texture,        \* the archival picture: "loading", "applied" or "failed"
    surface,        \* the manifest surface: "none", "asked", "on", "absent" or "lost"
    geometry,       \* mesh.geometry
    material,       \* mesh.material
    twists,         \* how often the polar sweep deformed the geometry
    sculpted,       \* do the accent shells wear the simplified artwork?
    shells,         \* are the accent shells visible?
    meshVisible,    \* mesh.visible
    casts,          \* mesh.castShadow
    companions,     \* the record of every companion: its type, and its object
    trees,          \* the serial number of the christmas trees, 0 without
    visualTheme,    \* _kidsGalaxyVisualTheme
    made,           \* objects made so far when the theme changed
    retired,        \* retiredResources
    gone,           \* disposed
    gpu,            \* what is on the GPU for this planet
    freed           \* history: what was disposed

bodyVars  == <<geometry, material, twists, sculpted, shells, meshVisible, casts>>
themeVars == <<companions, trees, visualTheme, made>>
entityVars == <<drawing, texture, surface, bodyVars, themeVars, retired, gone, gpu, freed>>

\* A thing is named, and numbered where there may be several; a resource belongs
\* to the s-th object made for a thing.
Body   == <<"body", 0>>
AccentShells == <<"shells", 0>>
Res(thing, s, what, part, worn, n) == <<thing, s, what, part, worn, n>>
Geometries(thing, s, M) == {Res(thing, s, "geometry", m.part, m.worn, m.nth) : m \in M}
Materials(thing, s, M)  == {Res(thing, s, "material", "", m.worn, m.copy) : m \in M}
Both(thing, s, M)       == Geometries(thing, s, M) \cup Materials(thing, s, M)

\* The environment map all planets share.
Studio == Res(<<"studio", 0>>, 0, "texture", "envMap", "", 0)

BodyGeometry(g) == Res(Body, 0, "geometry", g, "", 0)

\* disposeMaterial: a material and its textures, but not the environment map.
BodyMaterial(m) ==
    {Res(Body, 0, "material", "", m, 0)} \cup
    IF m = "manifest"
    THEN {Res(Body, 0, "texture", t, m, 0) : t \in {"map", "roughnessMap", "aoMap"}}
    ELSE {}

\* applySculptedArtwork: the two shells share the relief map.
ShellTextures ==
    {Res(AccentShells, 0, "texture", t, "", 0) :
        t \in {"edgeColour", "edgeMask", "relief", "colour", "topMask"}}
Shells == Both(AccentShells, 0, Own({"edge", "accent"}, {1}))
              \cup IF sculpted THEN ShellTextures ELSE {}

\* createCompanion, and what the themes put in the place of an astronaut.
CompanionMeshes(kind, variant) ==
    CASE kind = "moon"      -> Moon
      [] kind = "stars"     -> Stars
      [] kind = "satellite" -> Satellite
      [] kind = "astronaut" -> Astronaut(variant)
      [] kind = "witch"     -> Witch
      [] kind = "bunny"     -> WhiteBunny

Companion(i, kind, s) == Both(<<"companion", i>>, s, CompanionMeshes(kind, drawing.variant))
Companions == UNION {Companion(i, companions[i].kind, companions[i].serial) : i \in DOMAIN companions}

TreeResources == IF trees = 0 THEN {} ELSE Both(<<"trees", 0>>, trees, ChristmasTrees)

Terrain == CASE drawing.style = "cratered" -> Both(<<"craters", 0>>, 0, CraterDetails)
             [] drawing.style = "spiky"    -> Both(<<"ranges", 0>>, 0, MountainRanges)
             [] OTHER                      -> {}

\* createInstancedLayer: the matrix and the hue of each chunk, buffers of the mesh
\* itself, of which disposeObject, who frees geometries and materials, knows nothing.
InstanceBuffers ==
    IF drawing.style = "ringed"
    THEN {Res(<<"ring", 0>>, 0, "instances", l.part, l.worn, l.nth) :
            l \in {r \in PlanetRing : r.form = "instanced"}}
    ELSE {}

Decorations == IF drawing.style = "ringed" THEN Both(<<"ring", 0>>, 0, PlanetRing) ELSE {}
OrbitRing   == Both(<<"orbit", 0>>, 0, Own({"guide"}, {1}))

\* Everything below the planet's mesh, and what flies beside it.
MeshTree == {BodyGeometry(geometry)} \cup BodyMaterial(material) \cup Shells
                \cup Terrain \cup TreeResources
Beside   == Decorations \cup Companions \cup OrbitRing

\* What a frame has to draw: nothing below a mesh that is hidden.
Drawn ==
    Beside \cup InstanceBuffers \cup
    IF meshVisible THEN (MeshTree \ IF shells THEN {} ELSE Shells) \cup
                    IF material = "manifest" THEN {Studio} ELSE {}
               ELSE {}
------------------------------------------------------------------------------
EntityTypeOK ==
    /\ drawing \in Drawing
    /\ texture \in {"loading", "applied", "failed"}
    /\ surface \in {"none", "asked", "on", "absent", "lost"}
    /\ geometry \in {"sphere", "relief"} /\ material \in {"polished", "manifest"}
    /\ twists \in 0..1
    /\ {sculpted, shells, meshVisible, casts, gone} \subseteq BOOLEAN
    /\ DOMAIN companions = DOMAIN drawing.companions
    /\ \A i \in DOMAIN companions :
          /\ companions[i].type = drawing.companions[i]
          /\ companions[i].serial \in 0..made
    /\ trees \in 0..made
    /\ visualTheme \in Theme

\* The constructor, with addPlanetRing, addCraterDetails, addMountainRanges and
\* createAstronaut as the stages left them.
EntityInit ==
    /\ drawing \in Drawing
    /\ texture = "loading" /\ surface = "none"
    /\ geometry = "sphere" /\ material = "polished" /\ twists = 0
    /\ sculpted = FALSE /\ shells = FALSE /\ meshVisible = TRUE /\ casts = FALSE
    /\ companions = [i \in DOMAIN drawing.companions |->
          [type |-> drawing.companions[i], kind |-> drawing.companions[i], serial |-> 0]]
    /\ trees = 0 /\ visualTheme = "default" /\ made = 0
    /\ retired = {} /\ gone = FALSE
    /\ gpu = {} /\ freed = {}

Free(R) == gpu' = gpu \ R /\ freed' = freed \cup R

\* The picture loads: applySculptedArtwork may find nothing it can use; then the
\* shadows of highQualityTexture, then manifestStrokeTexture asks for the maps of
\* a valid manifest and hides the planet until they are here.
TextureLoads ==
    /\ texture = "loading" /\ ~gone
    /\ texture' = "applied"
    /\ \E painted, accents \in BOOLEAN :
          sculpted' = painted /\ shells' = (painted /\ accents)
    /\ casts' = TRUE
    /\ surface' = IF drawing.valid THEN "asked" ELSE "absent"
    /\ meshVisible' = ~drawing.valid
    /\ UNCHANGED <<drawing, geometry, material, twists, themeVars, retired, gone, gpu, freed>>

\* A planet that left the wall meanwhile has its picture disposed at once.
TextureLoadsTooLate ==
    /\ texture = "loading" /\ gone
    /\ texture' = "failed"
    /\ UNCHANGED <<drawing, surface, bodyVars, themeVars, retired, gone, gpu, freed>>

TextureFails ==
    /\ texture = "loading"
    /\ texture' = "failed"
    /\ UNCHANGED <<drawing, surface, bodyVars, themeVars, retired, gone, gpu, freed>>

\* attachReliefGeometry frees a geometry it built before; the sphere is retired.
AttachRelief ==
    /\ geometry' = "relief"
    /\ Free(IF geometry = "relief" THEN {BodyGeometry("relief")} ELSE {})

\* Mutant of ApplySurface: the replaced material is forgotten.
ApplySurfaceForgets ==
    /\ AttachRelief
    /\ material' = "manifest"
    /\ retired' = retired \cup {BodyGeometry("sphere")}
    /\ shells' = FALSE
    /\ casts' = (drawing.style = "ringed")
    /\ twists' = IF drawing.rendering = "classic" THEN 1 ELSE 0

\* applyManifestSurface, then the polar sweep, which leaves front views alone.
ApplySurface ==
    /\ AttachRelief
    /\ material' = "manifest"
    /\ retired' = retired \cup {BodyGeometry("sphere")} \cup BodyMaterial(material)
    /\ shells' = FALSE
    /\ casts' = (drawing.style = "ringed")
    /\ twists' = IF drawing.rendering = "classic" THEN twists + 1 ELSE twists

\* The maps arrive.
MapsArrive ==
    /\ surface = "asked" /\ ~gone
    /\ surface' = "on"
    /\ ApplySurface
    /\ meshVisible' = TRUE
    /\ UNCHANGED <<drawing, texture, sculpted, themeVars, gone>>

\* Mutant of MapsFail: only a planet with a surface is revealed.
MapsFailHidden ==
    /\ surface = "asked" /\ ~gone
    /\ surface' = "absent"
    /\ UNCHANGED <<drawing, texture, bodyVars, themeVars, retired, gone, gpu, freed>>

\* There are none, or the build fails: before the body was touched, or between
\* its geometry and its material.  The planet is revealed all the same.
MapsFail ==
    /\ surface = "asked" /\ ~gone
    /\ surface' = "absent"
    /\ \/ UNCHANGED <<geometry, retired, gpu, freed>>
       \/ AttachRelief /\ retired' = retired \cup {BodyGeometry("sphere")}
    /\ meshVisible' = TRUE
    /\ UNCHANGED <<drawing, texture, material, twists, sculpted, shells, casts, themeVars, gone>>

\* The maps came and could not be put on canvases: the planet is never told, and stays
\* hidden (SurfaceWorker, "lost").
MapsLost ==
    /\ surface = "asked"
    /\ surface' = "lost"
    /\ UNCHANGED <<drawing, texture, bodyVars, themeVars, retired, gone, gpu, freed>>

\* The answer is for a planet that left the wall.
MapsTooLate ==
    /\ surface = "asked" /\ gone
    /\ surface' = "absent"
    /\ UNCHANGED <<drawing, texture, bodyVars, themeVars, retired, gone, gpu, freed>>
------------------------------------------------------------------------------
Astronauts == {i \in DOMAIN companions : companions[i].type = "astronaut"}

\* syncThemeVisuals of the high-fidelity stage, on a change of theme: half of the
\* astronauts become bunnies at easter.
SeasonalKind(th) ==
    CASE th = "halloween"                 -> "witch"
      [] th = "easter" /\ drawing.even    -> "bunny"
      [] OTHER                            -> "astronaut"

\* syncEasterBunnies of the reference stage, which comes after it in every frame:
\* at easter the others become bunnies, and no bunny outlives easter.
ReferenceKind(th, kind) ==
    CASE th = "easter"                    -> "bunny"
      [] th # "easter" /\ kind = "bunny"  -> "astronaut"
      [] OTHER                            -> kind

\* Mutant of Dressed: the reference stage is not installed.
DressedOnce(i, th) ==
    LET first == IF th # visualTheme THEN SeasonalKind(th) ELSE companions[i].kind
    IN  <<companions[i].kind, first, first>>

\* What an astronaut becomes in a frame: as the first stage leaves it, then as the
\* second does.
Dressed(i, th) ==
    LET first == IF th # visualTheme THEN SeasonalKind(th) ELSE companions[i].kind
    IN  <<companions[i].kind, first, ReferenceKind(th, first)>>

\* Every change makes a new object.
Swaps(kinds) == (IF kinds[1] # kinds[2] THEN 1 ELSE 0) + (IF kinds[2] # kinds[3] THEN 1 ELSE 0)

\* The objects the swaps replace: the one that was there, and the one a second
\* swap replaces before any frame showed it.
Replaced(th) ==
    UNION {LET k == Dressed(i, th) IN
             (IF Swaps(k) > 0 THEN Companion(i, k[1], companions[i].serial) ELSE {}) \cup
             (IF Swaps(k) = 2 THEN Companion(i, k[2], made + 1) ELSE {}) : i \in Astronauts}

SwapCompanions(th) ==
    companions' = [i \in DOMAIN companions |->
        IF i \in Astronauts /\ Swaps(Dressed(i, th)) > 0
        THEN [companions[i] EXCEPT !.kind = Dressed(i, th)[3],
                                   !.serial = made + Swaps(Dressed(i, th))]
        ELSE companions[i]]

\* The trees go with the theme; mountains are never taken away.
WantsTrees(th) == drawing.style = "spiky" /\ th = "christmas"

\* A frame: update dresses the planet for the theme, then the scene is rendered.
Frame(th) ==
    /\ ~gone
    /\ made < MaxMade \/ th = visualTheme
    /\ SwapCompanions(th)
    /\ trees' = IF th = visualTheme THEN trees ELSE IF WantsTrees(th) THEN made + 1 ELSE 0
    /\ visualTheme' = th
    /\ made' = IF th = visualTheme THEN made ELSE made + 2
    /\ UNCHANGED <<drawing, texture, surface, bodyVars, retired, gone>>
    /\ LET out == Replaced(th) \cup IF th = visualTheme THEN {} ELSE TreeResources
       IN  freed' = freed \cup out /\ gpu' = (gpu \ out) \cup Drawn'

\* The planet is evicted, taken down, cleared or rebuilt.
Dispose ==
    /\ ~gone
    /\ gone' = TRUE
    /\ Free(MeshTree \cup retired \cup Beside)
    /\ retired' = {}
    /\ UNCHANGED <<drawing, texture, surface, bodyVars, themeVars>>

EntityNext ==
    \/ TextureLoads \/ TextureLoadsTooLate \/ TextureFails
    \/ MapsArrive \/ MapsFail \/ MapsLost \/ MapsTooLate
    \/ \E th \in Theme : Frame(th)
    \/ Dispose

EntitySpec == EntityInit /\ [][EntityNext]_entityVars
------------------------------------------------------------------------------
\* UNRELEASED.md: once all planets are gone the renderer holds the geometries, textures
\* and materials it held at the start: whatever was swapped, retired or answered too
\* late, nothing of a planet that left the wall stays on the GPU but the environment all
\* planets share, and the instance buffers of its ring, which only a dispose of the
\* mesh would free, that nobody calls.
NothingLeaks == gone => gpu \subseteq {Studio} \cup InstanceBuffers

\* No resource is used after it was freed: three.js would upload it again, and
\* nobody would free it a second time.  The shared environment is never freed.
NothingFreedIsShown ==
    /\ Studio \notin freed
    /\ ~gone => (MeshTree \cup Beside) \cap freed = {}

\* After any number of changes of theme, two stages that each swap companions and
\* do not know of one another agree on what every astronaut is, and trees stand
\* on a spiky planet exactly at christmas.
DressedForTheme ==
    /\ \A i \in Astronauts : companions[i].kind =
          CASE visualTheme = "halloween" -> "witch"
            [] visualTheme = "easter"    -> "bunny"
            [] OTHER               -> "astronaut"
    /\ (trees # 0) = WantsTrees(visualTheme)

\* The sun draws every caster six more times: once the surface is on, a body casts
\* a shadow only on its own ring, and no layer of a ring casts any, whichever
\* stages turned shadows on and off before.  Every layer, the clones of the
\* finishing stage too, has the hue chosen on the tablet.
ShadowsAndHues ==
    /\ surface = "on" => (casts => drawing.style = "ringed")
    /\ \A l \in PlanetRing : ~l.casts /\ l.hue = "chosen"

\* The polar sweep, a hook of its own, meets each finished classic surface once,
\* and never a front view or a planet whose surface failed.
TwistedOnce == twists = IF surface = "on" /\ drawing.rendering = "classic" THEN 1 ELSE 0

\* Through any order of texture, surface, frames, themes and removal, whatever is freed
\* is freed after the last frame drawn with it, and when the planet is gone all is freed
\* but the instance buffers of a ring.
ResourcesBalance == EntityTypeOK /\ NothingLeaks /\ NothingFreedIsShown

\* The stages that wrap one another agree on the planet they have finished.
StagesAgree == DressedForTheme /\ ShadowsAndHues /\ TwistedOnce

\* A planet hidden while its surface is built is revealed, whether the surface comes,
\* fails half-way or is not there: unless its maps are lost on the way (MapsLost).
IsRevealed == ~meshVisible ~> meshVisible \/ gone \/ surface = "lost"
==============================================================================
