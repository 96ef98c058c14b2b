------------------------------ MODULE MCTablets ------------------------------
(* What the tablets meet: a child's session of drawing and sending, the        *)
(* cooldown between the drawings, the console of the manager with its two      *)
(* halves, the calendar that follows the manager's choices, and the folder     *)
(* that uploads go into, with a few faults.  They share no state, so a         *)
(* behaviour of the model is of one of them.  Three children's tablets in a    *)
(* map of two: the third upload has to drop an entry.                          *)
EXTENDS DrawingSession, RateLimiter, ManagerConsole, SeasonalTheme, PlanetStore, TLC

VARIABLE part

\* Who stands beside whom.
childVars == <<sessionVars, limiterVars>>
vars == <<childVars, consoleVars, calendarVars, storeVars, part>>

Init ==
    /\ SessionInit /\ LimiterInit /\ ConsoleInit /\ CalendarInit /\ StoreInit
    /\ part \in {"session", "cooldown", "planets", "settings", "calendar", "folder"}
    /\ part # "session" => galaxy = (CHOOSE g \in Galaxy : TRUE) /\ held = "portrait"
    /\ part # "planets" => /\ stored = [p \in Planet |-> "unborn"]
                           /\ listCalls[CHOOSE s \in ListSlot : TRUE].state = "asked"
    /\ part # "settings" => settings = [f \in Setting |-> FALSE]
    /\ part # "calendar" => region = "ca-qc"

Session(A)  == /\ part = "session" /\ A
               /\ UNCHANGED <<limiterVars, consoleVars, calendarVars, storeVars, part>>
Cooling(A)  == /\ part = "cooldown" /\ A
               /\ UNCHANGED <<sessionVars, consoleVars, calendarVars, storeVars, part>>
Planets(A)  == /\ part = "planets" /\ A
               /\ UNCHANGED <<childVars, lookVars, calendarVars, storeVars, part>>
Look(A)     == /\ part = "settings" /\ A
               /\ UNCHANGED <<childVars, listVars, calendarVars, storeVars, part>>
Calendar(A) == part = "calendar" /\ A /\ UNCHANGED <<childVars, consoleVars, storeVars, part>>
Folder(A)   == part = "folder" /\ A /\ UNCHANGED <<childVars, consoleVars, calendarVars, part>>

Next ==
    \/ Session(SessionNext) \/ Cooling(LimiterNext)
    \/ Planets(ListNext) \/ Look(LookNext) \/ Calendar(CalendarNext)
    \/ Folder(StoreNext)

Spec == Init /\ [][Next]_vars

\* The slots of open calls are alike; the others are few, and fewer than the orders
\* in which they could be exchanged.
TabletSymmetry == Permutations(LookSlot)
------------------------------------------------------------------------------
\* SeasonIsRight, where the calendar moves: the other parts stay in one year.
CalendarIsRight == part = "calendar" => SeasonIsRight
==============================================================================
