--------------------------- MODULE ShuttlePointer ----------------------------
(***************************************************************************)
(* The shuttle that stands in for the wall's mouse pointer: it follows the *)
(* mouse, turns towards where it goes and fades when the mouse rests or    *)
(* leaves.                                                                 *)
(***************************************************************************)
EXTENDS Integers

CONSTANTS
    Heading,            \* directions a move may have, in whole degrees
    IdleTime,           \* IDLE_HIDE_MS, in units
    ThrustTime,         \* THRUST_MS
    MaxMoves            \* bound: pointer events

ASSUME ShuttleAssumption ==
    /\ Heading \subseteq -180..180 /\ MaxMoves \in Nat
    /\ IdleTime \in Nat \ {0} /\ ThrustTime \in 1..IdleTime

VARIABLES
    visible, thrusting, hasPosition, heading,
    idleTimer, thrustTimer,     \* time left, or NoAlarm
    moves                       \* pointer events so far

shuttleVars == <<visible, thrusting, hasPosition, heading, idleTimer, thrustTimer, moves>>

NoAlarm == -1
RestingHeading == -25

ShuttleInit ==
    /\ visible = FALSE /\ thrusting = FALSE /\ hasPosition = FALSE
    /\ heading = RestingHeading
    /\ idleTimer = NoAlarm /\ thrustTimer = NoAlarm /\ moves = 0

\* JavaScript's %, which has the sign of its left side.
Rem(a, b) == IF a >= 0 THEN a % b ELSE -((-a) % b)

\* turnToward: the way from one heading to another, the short way round.
Delta(current, target) == Rem(Rem(target - current, 360) + 540, 360) - 180

\* Of which it turns 0.35.
TurnToward(current, target) ==
    LET d == 7 * Delta(current, target)
    IN  current + (IF d >= 0 THEN d \div 20 ELSE -((-d) \div 20))

\* Mutant of Hide: the flame is left to its timer.
HideKeepsFlame ==
    /\ visible' = FALSE /\ idleTimer' = NoAlarm
    /\ UNCHANGED <<thrusting, thrustTimer>>

\* hide: the mouse rests, leaves the window or gives way to a finger.
Hide ==
    /\ visible' = FALSE /\ thrusting' = FALSE
    /\ idleTimer' = NoAlarm /\ thrustTimer' = NoAlarm

\* move, of a mouse or a pen; far is a distance of MIN_TRAVEL_PX or more.
Move(h, far) ==
    /\ moves < MaxMoves /\ moves' = moves + 1
    /\ visible' = TRUE /\ hasPosition' = TRUE
    /\ idleTimer' = IdleTime
    /\ IF hasPosition /\ far
       THEN /\ heading' = TurnToward(heading, h)
            /\ thrusting' = TRUE /\ thrustTimer' = ThrustTime
       ELSE UNCHANGED <<heading, thrusting, thrustTimer>>

\* A touch, a blur, or a mouse that leaves the window.
Leave ==
    /\ moves < MaxMoves /\ moves' = moves + 1
    /\ Hide
    /\ UNCHANGED <<hasPosition, heading>>

\* Time passes; the timers that run out do their work.
ShuttleTick ==
    /\ {idleTimer, thrustTimer} # {NoAlarm}
    /\ IF idleTimer = 1 THEN Hide
       ELSE /\ idleTimer' = IF idleTimer = NoAlarm THEN NoAlarm ELSE idleTimer - 1
            /\ thrustTimer' = IF thrustTimer \in {NoAlarm, 1} THEN NoAlarm ELSE thrustTimer - 1
            /\ thrusting' = (thrusting /\ thrustTimer # 1)
            /\ UNCHANGED visible
    /\ UNCHANGED <<hasPosition, heading, moves>>

ShuttleNext == Leave \/ ShuttleTick \/ \E h \in Heading, far \in BOOLEAN : Move(h, far)
ShuttleSpec == ShuttleInit /\ [][ShuttleNext]_shuttleVars
-----------------------------------------------------------------------------
\* No shuttle is stuck on the wall: while it is seen its end is set, and while its
\* engine burns that is, on a shuttle that is seen.
ShuttleFades ==
    /\ moves \in 0..MaxMoves /\ heading \in Int
    /\ visible <=> idleTimer # NoAlarm
    /\ thrusting <=> thrustTimer # NoAlarm
    /\ thrusting => visible

\* The shuttle turns the short way round: by no more than 0.35 of half a turn, even
\* when its heading has left -180..180 on the way.
TurnsShortWay == [][heading' - heading \in -63..63]_shuttleVars
==============================================================================
