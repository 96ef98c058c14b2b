------------------------------ MODULE GalaxySky ------------------------------
(***************************************************************************)
(* What fills the wall's sky beside the planets: GalaxyScene's lights,     *)
(* stars and seasonal particles, after DesktopVisualUpgrade, and the       *)
(* asteroid belt, comets and fly-bys of GalaxyEnvironment, dressed by      *)
(* ThemedGalaxyEnvironment.  A behaviour of the manager may arrive at any  *)
(* moment, in the middle of a flight too.                                  *)
(***************************************************************************)
EXTENDS Integers, SequencesExt

CONSTANTS
    SkyTheme,           \* themes of the registry; "default" is one of them
    Mix(_),             \* asteroidMix: sequence of <<style, weight in 1/100>>
    Particles(_),       \* does the theme have seasonal particles?
    Stemmed,            \* the styles with a stem
    BeltBodies,         \* BELT_BODY_COUNT
    FlybyBodies,        \* how many bodies a fly-by may have
    Frequency,          \* of comets and of fly-bys
    Behavior,           \* the effective behaviours that may arrive
    Interval(_, _),     \* kind, frequency: the times to the next flight
    WarmUp(_),          \* kind: the times to the first after a change of it
    ThemeWarmUp,        \* to the first fly-by of a new theme
    Lifetime(_),        \* kind: how long a flight may last
    MaxBehaviors        \* bound: behaviours that arrive

Kinds == {"comet", "flyby"}

\* A flight is over before the next of its kind is due by the regular rhythm: comets
\* fly 13-18 s and come every 18 s at the soonest, fly-bys 9-13 s and every 14 s.
ASSUME SkyAssumption ==
    /\ "default" \in SkyTheme /\ "normal" \in Frequency
    /\ Behavior \subseteq
          [theme : SkyTheme, asteroidBelt : BOOLEAN, ambient : BOOLEAN,
           enabled : [Kinds -> BOOLEAN], frequency : [Kinds -> Frequency]]
    /\ \A t \in SkyTheme : Len(Mix(t)) > 0
    /\ ThemeWarmUp \subseteq Nat
    /\ \A k \in Kinds :
          /\ WarmUp(k) \subseteq Nat /\ Lifetime(k) \subseteq Nat \ {0}
          /\ \A f \in Frequency :
                /\ Interval(k, f) \subseteq Nat
                /\ \A i \in Interval(k, f), life \in Lifetime(k) : life <= i

VARIABLES
    settings,       \* with the theme
    belt,           \* asteroidBelt, or None
    flights,        \* comets and fly-bys: kind -> the groups under way
    next,           \* nextCometAt, nextFlybyAt, counted from the last frame
    scene,          \* the groups the scene draws; out of it, they are disposed
    particles,      \* seasonalParticles, or None
    lights,         \* whose colours, and how often pulled towards the studio's
    starSpeed,      \* whose rotation, or at rest
    behaviors       \* how many arrived

skyVars == <<settings, belt, flights, next, scene, particles, lights, starSpeed, behaviors>>

None  == [kind |-> "none"]
Never == -1                                         \* Infinity

-----------------------------------------------------------------------------
\* The first style whose added weight exceeds the unit (in 1/100), or the last.
PickAsteroidStyle(theme, unit) ==
    LET mix == Mix(theme)
        Upto(i) == FoldLeft(LAMBDA sum, part : sum + part[2], 0, SubSeq(mix, 1, i))
        fits == {i \in 1..Len(mix) : unit < Upto(i)}
    IN  mix[IF fits = {} THEN Len(mix) ELSE Min(fits)][1]

\* styleForIndex: the golden ratio spreads the styles over the bodies.
StyleForIndex(theme, index) ==
    PickAsteroidStyle(theme, ((173 + index * 618) % 1000) \div 10)

\* createInstancedBodies: one mesh per style and one of stems where it has them.
InstancedBodies ==
    [theme \in SkyTheme |-> [count \in {BeltBodies} \cup FlybyBodies |->
        LET Style == [i \in 1..count |-> StyleForIndex(theme, i - 1)]
            Meshes(kind, styles) ==
                {[style |-> s, mesh |-> kind, count |-> Cardinality({i \in 1..count : Style[i] = s})]
                    : s \in styles}
        IN  Meshes("bodies", Range(Style)) \cup Meshes("stems", Range(Style) \cap Stemmed)]]

\* themedBelt; theme is that of the settings.
CreateAsteroidBelt(theme) ==
    [kind |-> "belt", theme |-> theme, bodies |-> InstancedBodies[theme][BeltBodies]]

\* A group is told apart from others of its kind by a number.
FreeNo(k) == Min(1..(Cardinality(flights[k]) + 1) \ {f.no : f \in flights[k]})

\* spawnComet
CreateComet(life) ==
    [kind |-> "comet", no |-> FreeNo("comet"), age |-> 0, life |-> life,
     theme |-> "default", bodies |-> {}]

\* themedFlyby
CreateFlyby(life, bodies) ==
    [kind |-> "flyby", no |-> FreeNo("flyby"), age |-> 0, life |-> life,
     theme |-> settings.theme, bodies |-> InstancedBodies[settings.theme][bodies]]

CreateFlight(k, life, bodies) ==
    IF k = "comet" THEN CreateComet(life) ELSE CreateFlyby(life, bodies)

\* In the scene a group is known by its kind, and number or theme.
Group(g) ==
    CASE g.kind = "belt"      -> <<"belt", g.theme>>
      [] g.kind = "particles" -> <<"particles", g.theme>>
      [] OTHER                -> <<g.kind, g.no>>
-----------------------------------------------------------------------------
\* The colours a theme sets, and preserveStudioFill, which pulls the lights' colours,
\* whatever they are, and keeps a floor of the intensities that no theme reaches.
PreserveStudioFill(colours) == [colours EXCEPT !.pulls = @ + 1]
ColoursOf(theme) == [of |-> theme, pulls |-> 0]

\* The constructor, after applyDesktopVisualUpgrade: the stars are replaced by a
\* denser field and the lights pulled once.
SkyInit ==
    /\ settings = [theme |-> "default", asteroidBelt |-> FALSE, ambient |-> TRUE,
                   enabled |-> [k \in Kinds |-> FALSE],
                   frequency |-> [k \in Kinds |-> "normal"]]
    /\ belt = None /\ particles = None
    /\ flights = [k \in Kinds |-> {}]
    /\ next = [k \in Kinds |-> Never]
    /\ scene = {<<"stars", 7200>>}
    /\ lights = PreserveStudioFill(ColoursOf("default"))
    /\ starSpeed = "default"
    /\ behaviors = 0

\* GalaxyScene.applyBehavior: the colours are set from the theme, and particles made
\* anew if it has some.
SceneApplyBehavior(b) ==
    LET on == b.ambient /\ Particles(b.theme)
    IN  /\ lights' = PreserveStudioFill(ColoursOf(b.theme))
        /\ starSpeed' = IF b.ambient THEN b.theme ELSE "rest"
        /\ particles' = IF on THEN [kind |-> "particles", theme |-> b.theme] ELSE None

\* The belt after both applyBehaviors: made or disposed as the original says, and
\* made anew when it was there before a change of theme.
BeltAfter(b) ==
    IF b.asteroidBelt /\ (belt = None \/ b.theme # settings.theme)
    THEN CreateAsteroidBelt(b.theme)
    ELSE IF b.asteroidBelt THEN belt ELSE None

Changed(k, b) ==
    b.enabled[k] # settings.enabled[k] \/ b.frequency[k] # settings.frequency[k]
ThemeChanges(b) == b.theme # settings.theme

\* clearComets, clearFlybys: when switched off, and the fly-bys of an old theme.
Cleared(k, b) ==
    ~b.enabled[k] \/ (k = "flyby" /\ ThemeChanges(b) /\ flights[k] # {})

\* When the next flight of a kind is due after a behaviour: the original sets it
\* on a change, the themed one for the fly-bys of a new theme.
NextAfter(k, b) ==
    IF ~b.enabled[k] THEN {Never}
    ELSE IF k = "flyby" /\ ThemeChanges(b) THEN ThemeWarmUp
    ELSE IF Changed(k, b) THEN WarmUp(k) ELSE {next[k]}

\* Mutant of InScene: the scene keeps the groups that are cleared.
InSceneWithOld(b) ==
    scene \cup {Group(g) : g \in ({BeltAfter(b)} \cup {particles'}) \ {None}}

\* The scene after a behaviour: disposed groups are out of it, new ones in it.
InScene(b) ==
    {<<"stars", 7200>>}
    \cup {Group(g) : g \in {BeltAfter(b), particles'} \ {None}}
    \cup UNION {{Group(f) : f \in flights[k]} : k \in {h \in Kinds : ~Cleared(h, b)}}

\* applyBehavior of the scene and of the environment.
ApplySky(b) ==
    /\ behaviors < MaxBehaviors /\ behaviors' = behaviors + 1
    /\ SceneApplyBehavior(b)
    /\ belt' = BeltAfter(b)
    /\ flights' = [k \in Kinds |-> IF Cleared(k, b) THEN {} ELSE flights[k]]
    /\ \E c \in NextAfter("comet", b), f \in NextAfter("flyby", b) :
          next' = [k \in Kinds |-> IF k = "comet" THEN c ELSE f]
    /\ settings' = b
    /\ scene' = InScene(b)
-----------------------------------------------------------------------------
Later(n) == IF n = Never THEN Never ELSE Max({n - 1, 0})

\* Is a flight due when this frame is drawn?
Due(k) == settings.enabled[k] /\ Later(next[k]) = 0

\* scheduleNext after a flight has begun.
Times(k) == IF Due(k) THEN Interval(k, settings.frequency[k]) ELSE {Later(next[k])}

Arrived(f) == f.age >= f.life

\* A frame: due flights begin, all move on, and those at their end are disposed.
SkyFrame ==
    /\ \E begun \in {b \in [Kinds -> Lifetime("comet") \cup Lifetime("flyby")] :
                        \A k \in Kinds : b[k] \in Lifetime(k)},
          bodies \in FlybyBodies, c \in Times("comet"), f \in Times("flyby") :
          LET Older(k) == {[g EXCEPT !.age = @ + 1] : g \in flights[k]}
              New(k)   == IF Due(k) THEN {CreateFlight(k, begun[k], bodies)} ELSE {}
          IN  /\ flights' = [k \in Kinds |-> {g \in Older(k) \cup New(k) : ~Arrived(g)}]
              /\ scene' = (scene \cup {Group(g) : g \in New("comet") \cup New("flyby")})
                          \ {Group(g) : g \in {h \in Older("comet") \cup Older("flyby") :
                                                 Arrived(h)}}
              /\ next' = [k \in Kinds |-> IF k = "comet" THEN c ELSE f]
    /\ UNCHANGED <<settings, belt, particles, lights, starSpeed, behaviors>>

SkyNext == SkyFrame \/ \E b \in Behavior : ApplySky(b)

\* The sky by itself; the page composes SkyNext with its other parts.
SkySpec == SkyInit /\ [][SkyNext]_skyVars
-----------------------------------------------------------------------------
Flying == flights["comet"] \cup flights["flyby"]

\* The sky's state is well formed.
SkyTypeOK ==
    /\ settings.theme \in SkyTheme /\ settings.frequency \in [Kinds -> Frequency]
    /\ \A k \in Kinds :
          /\ next[k] \in Nat \cup {Never}
          /\ \A f, g \in flights[k] : f.kind = k /\ (f.no = g.no => f = g) /\ f.age < f.life
    /\ lights.of \in SkyTheme /\ starSpeed \in SkyTheme \cup {"rest"}

\* The scene draws exactly what the environment knows of: whatever is cleared, has
\* flown by or is replaced is out of the scene and disposed, and nothing is left in
\* it that nobody would ever remove.
SceneIsTracked ==
    scene = {<<"stars", 7200>>} \cup {Group(g) : g \in (Flying \cup {belt, particles}) \ {None}}

\* What the manager switched off is gone from the sky and does not come; what is
\* switched on has a time at which it comes, in whatever order behaviours arrive.
SkyFollowsSettings ==
    /\ (belt # None) <=> settings.asteroidBelt
    /\ \A k \in Kinds : IF settings.enabled[k] THEN next[k] # Never
                        ELSE flights[k] = {} /\ next[k] = Never

\* Belt, fly-bys and particles wear the theme of the last behaviour; the belt shows
\* every style of the theme, and each pumpkin of a group its stem.
SkyWearsTheme ==
    LET Styles(g) == {m.style : m \in g.bodies}
    IN  /\ \A g \in (flights["flyby"] \cup {belt, particles}) \ {None} : g.theme = settings.theme
        /\ belt # None => Styles(belt) = {Mix(settings.theme)[i][1] :
                                             i \in 1..Len(Mix(settings.theme))}
        /\ \A g \in flights["flyby"] \cup ({belt} \ {None}) :
              \A m \in g.bodies : m.style \in Stemmed =>
                  \A mesh \in {"bodies", "stems"} :
                      [style |-> m.style, mesh |-> mesh, count |-> m.count] \in g.bodies

\* The sky stays calm: flights of the regular rhythm never overlap, and each change
\* of the settings adds at most one to those under way.
SkyIsCalm ==
    \A k \in Kinds : Cardinality(flights[k]) <= 1 + behaviors

\* The lights have the theme's colours pulled towards the studio exactly once:
\* behaviours that arrive again and again do not wash them out.
LightsKeepTheme == lights = [of |-> settings.theme, pulls |-> 1]

\* Whatever the sky looked like before, it is the sky of the last behaviour.
SkyIsInStep ==
    SkyTypeOK /\ SceneIsTracked /\ SkyFollowsSettings /\ SkyWearsTheme /\ SkyIsCalm /\ LightsKeepTheme

\* The flights that are switched on come again and again.
FlightsReturn ==
    \A k \in Kinds : <>[](settings.enabled[k]) => []<>(flights[k] # {})
==============================================================================
