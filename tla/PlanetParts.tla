----------------------------- MODULE PlanetParts -----------------------------
(***************************************************************************)
(* What a planet on the wall is made of: the meshes each builder adds, the *)
(* material each of them wears, and what the stages of the render pipeline *)
(* (galaxy.js) make of a ringed planet's ring.  Positions and sizes are    *)
(* left out; of the looks, only what the stages could disagree on is kept: *)
(* who casts a shadow, and whose hue a layer of the ring has.              *)
(***************************************************************************)
EXTENDS Naturals

CONSTANTS
    Crater,             \* the craters of a cratered planet
    MountainRange               \* the mountain ranges of a spiky planet

ASSUME PartsAssumption == Crater \subseteq Nat /\ MountainRange \subseteq Nat

\* The n-th mesh of a part has a geometry of its own.  It wears a material of
\* its own, too, or shares the one called m with other meshes (copy 0).
Mesh(p, n, m, c) ==
    [part |-> p, nth |-> n, worn |-> m, copy |-> c, form |-> "mesh", casts |-> FALSE]

Own(Names, Nth) == {Mesh(p, n, p, n) : p \in Names, n \in Nth}
Worn(p, m, n)   == {Mesh(p, i, m, 0) : i \in 1..n}

\* enableShadows: for meshes, instanced ones included, and not for points.
EnableShadows(thing) ==
    {[m EXCEPT !.casts = (m.casts \/ m.form # "points")] : m \in thing}

\* deepCraterDetails: a bowl and a rim per crater.
CraterDetails == EnableShadows(Own({"bowl", "rim"}, Crater))

\* addMountainRanges, and the shadows of trackedMountainRanges.
MountainRanges == EnableShadows(Own({"range"}, MountainRange))

\* addChristmasTrees: a cluster on each range, of which one tree is kept here.
\* createChristmasTree clones its foliage for the tiers, its gold for the baubles.
ChristmasTrees ==
    EnableShadows(Own({"trunk", "low tier", "middle tier", "top tier", "star",
                       "left bauble", "right bauble", "back bauble"}, MountainRange))

Moon      == Own({"moon"}, {1})
Stars     == Own({"star"}, 1..4)
Satellite == Own({"body", "left panel", "right panel"}, {1})

Witch == EnableShadows(
    Own({"dress", "head", "brim", "crown", "handle", "bristles", "hand"}, {1}))

WhiteBunny == EnableShadows(
    Own({"body", "head", "tail", "nose", "egg"}, {1})
    \cup Own({"ear", "inner ear", "eye", "paw"}, {1, 2}))

\* The pixel astronauts: the blocks of all limbs share seven materials.
Helmet(accented) ==
    Worn("helmet", "outline", 4) \cup Worn("helmet", "visor", 1) \cup Worn("helmet", "white", 4)
    \cup Worn("helmet", "suit", IF accented THEN 1 ELSE 4)
    \cup Worn("helmet", "accent", IF accented THEN 3 ELSE 0)

Torso(accent) ==
    Worn("torso", "outline", 2) \cup Worn("torso", "suit", 1) \cup Worn("torso", "shadow", 1)
    \cup Worn("torso", "panel", 2) \cup Worn("torso", "accent", IF accent = "none" THEN 1 ELSE 3)

ArmsAndLegs(accent) ==
    UNION {Worn(limb, "outline", 4) \cup Worn(limb, "suit", 2) \cup Worn(limb, "shadow", 2) :
             limb \in {"arms", "legs"}}
    \cup Worn("arms", "accent", 2) \cup Worn("legs", "accent", IF accent = "none" THEN 0 ELSE 2)

Backpack(flame) ==
    Worn("pack", "outline", 1) \cup Worn("pack", "shadow", 1) \cup Worn("pack", "accent", 1)
    \cup IF flame THEN Worn("pack", "orange", 1) \cup Worn("pack", "yellow", 2) ELSE {}

\* createAstronautVariant: explorer, scout or jetpack jumper.
Astronaut(variant) ==
    LET accent == <<"none", "orange", "blue">>[variant] IN
    EnableShadows(Helmet(variant = 2) \cup Torso(accent) \cup ArmsAndLegs(accent)
                  \cup Backpack(variant = 3))
------------------------------------------------------------------------------
\* saturnAddPlanetRing: layers of points and of instanced chunks.
Layer(p, form, role) ==
    [part |-> p, nth |-> 0, worn |-> p, copy |-> 0, form |-> form, casts |-> FALSE,
     role |-> role, hue |-> "natural"]

SaturnRing ==
    {Layer("fine dust", "points", "dust"), Layer("micro dust", "points", "dust"),
     Layer("inner ice", "instanced", "ice"), Layer("middle ice", "instanced", "ice"),
     Layer("outer rock", "instanced", "rock"), Layer("haze", "points", "sparkle")}

\* ReferenceSurfaceTuning
DisableShadows(ring) == {[l EXCEPT !.casts = FALSE] : l \in ring}

\* ReferenceFinish: the chunks lose their shadows, and two clones of every dust
\* layer, in the colours it has by then, thicken the bands.
FinishRing(ring) ==
    {[l EXCEPT !.casts = (l.casts /\ l.form # "instanced")] : l \in ring}
    \cup UNION {{[l EXCEPT !.nth = n, !.copy = n] : n \in {1, 2}} :
                    l \in {d \in ring : d.role = "dust"}}

\* RingColorFidelity: every layer of points or instances takes the chosen hue.
RecolorRing(ring) == {[l EXCEPT !.hue = "chosen"] : l \in ring}

\* addPlanetRing, wrapped by the stages in the order galaxy.js installs them.
PlanetRing == RecolorRing(FinishRing(DisableShadows(EnableShadows(SaturnRing))))
==============================================================================
