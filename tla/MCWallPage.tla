------------------------------ MODULE MCWallPage ------------------------------
(* What the wall's page is made of: a planet, the sky around it, the words,   *)
(* the pointer, and the code it runs.  They share nothing but the behaviours  *)
(* of the manager, so a behaviour of the model is of one of the five.         *)
EXTENDS PlanetEntity, GalaxySky, CelebrationEffect, ShuttlePointer, BuildWatcher

VARIABLE part

\* Who stands beside whom.
pageVars == <<wordVars, shuttleVars, buildVars>>
vars == <<entityVars, skyVars, pageVars, part>>

\* A drawing of each style, with and without companions that the themes swap.
D(style, friends, rendering, valid, variant, even) ==
    [style |-> style, companions |-> friends, rendering |-> rendering,
     valid |-> valid, variant |-> variant, even |-> even]

MCDrawing ==
    {D("classic", << >>, "classic", TRUE, 1, TRUE)}
    \cup {D("classic", <<"moon", "astronaut">>, "classic", v, 1, FALSE) : v \in BOOLEAN}
    \cup {D("ringed", <<"astronaut">>, r, TRUE, 2, TRUE) : r \in {"classic", "front-view"}}
    \cup {D("cratered", <<"stars", "satellite">>, "front-view", TRUE, 1, FALSE),
          D("spiky", <<"astronaut", "astronaut">>, "classic", TRUE, 3, FALSE)}

MCMix(t) == CASE t = "default"   -> <<<<"rock", 100>>>>
              [] t = "halloween" -> <<<<"rock", 55>>, <<"pumpkin", 30>>, <<"jack-o-lantern", 15>>>>
              [] OTHER           -> <<<<"rock", 100>>>>
MCParticles(t) == t # "default"
MCInterval(k, f) ==
    CASE f = "normal" -> IF k = "comet" THEN {7, 10} ELSE {5, 8}
      [] OTHER        -> IF k = "comet" THEN {3, 5} ELSE {3, 4}
MCWarmUp(k) == IF k = "comet" THEN {1, 2} ELSE {2, 3}
MCLifetime(k) == IF k = "comet" THEN {2, 3} ELSE {2}
B(t, rocks, ambient, comets, flybys, often) ==
    [theme |-> t, asteroidBelt |-> rocks, ambient |-> ambient,
     enabled |-> [k \in Kinds |-> IF k = "comet" THEN comets ELSE flybys],
     frequency |-> [k \in Kinds |-> often]]
MCBehavior ==
    {B("default", FALSE, TRUE, TRUE, TRUE, "normal"),
     B("default", TRUE, FALSE, FALSE, TRUE, "frequent"),
     B("halloween", TRUE, TRUE, TRUE, TRUE, "frequent"),
     B("halloween", TRUE, FALSE, FALSE, TRUE, "normal"),
     B("halloween", FALSE, TRUE, TRUE, FALSE, "normal"),
     B("remembrance-day", TRUE, TRUE, TRUE, TRUE, "frequent"),
     B("default", FALSE, FALSE, FALSE, FALSE, "normal")}

MCHeading == {-90, 0, 90, 180}
MCCelebrates(t) == t # "remembrance-day"

Init ==
    /\ EntityInit /\ SkyInit /\ WordsInit /\ ShuttleInit /\ BuildInit
    /\ part \in {"planet", "sky", "words", "pointer", "build"}
    /\ part # "planet" => drawing = D("classic", << >>, "classic", TRUE, 1, TRUE)
    /\ part # "build" => stored /\ pageBuild = "b1"

Planet(A)  == part = "planet" /\ A /\ UNCHANGED <<skyVars, pageVars, part>>
Sky(A)     == part = "sky" /\ A /\ UNCHANGED <<entityVars, pageVars, part>>
Words(A)   == part = "words" /\ A /\ UNCHANGED <<entityVars, skyVars, shuttleVars, buildVars, part>>
Pointer(A) == part = "pointer" /\ A /\ UNCHANGED <<entityVars, skyVars, wordVars, buildVars, part>>
Code(A)    == part = "build" /\ A /\ UNCHANGED <<entityVars, skyVars, wordVars, shuttleVars, part>>

Next ==
    \/ Planet(EntityNext) \/ Sky(SkyNext)
    \/ Words(WordsNext) \/ Pointer(ShuttleNext) \/ Code(BuildNext)

\* A request for maps is answered, or its answer is lost (SurfaceWorker), and frames are
\* drawn for ever.
\* A page that is to read the gallery does, or fails; the browser carries out a
\* reload, and an answer is read.
Fairness ==
    /\ WF_vars(Planet(MapsArrive \/ MapsFail \/ MapsLost \/ MapsTooLate))
    /\ WF_vars(Sky(SkyFrame))
    /\ WF_vars(Code(Ask)) /\ WF_vars(Code(\E b \in Build : Reload(b)))
    /\ \A b \in Build : WF_vars(Code(Observe(b)))

Spec == Init /\ [][Next]_vars /\ Fairness

\* Nothing of the page stays away: a hidden planet is revealed, flights return, and an
\* update of the code reaches the screen.
PageComesAlive == IsRevealed /\ FlightsReturn /\ UpdateReachesWall
===============================================================================
