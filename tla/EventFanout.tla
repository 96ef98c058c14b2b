----------------------------- MODULE EventFanout -----------------------------
(***************************************************************************)
(* What the galaxy server promises a page that listens on /api/events,     *)
(* with no queue in it.  Events are numbered in the order they are         *)
(* published.  A listener is shown some of the events published after it   *)
(* joined, each at most once and in publication order, and after a         *)
(* shutdown request every listener is let go.  Which events a slow         *)
(* listener misses is left open here; EventPublisher settles it.           *)
(***************************************************************************)
EXTENDS Integers

CONSTANT Stream     \* the event streams a page may hold open

VARIABLES
    published,      \* how many events have been published
    closing,        \* has a shutdown been requested?
    open,           \* the streams that are open
    seen            \* per stream, the last event shown (at first: the last one missed)

vars == <<published, closing, open, seen>>

Init ==
    /\ published = 0
    /\ closing = FALSE
    /\ open = {}
    /\ seen = [s \in Stream |-> 0]

Publish ==
    /\ published' = published + 1
    /\ UNCHANGED <<closing, open, seen>>

Join(s) ==
    /\ s \notin open
    /\ open' = open \cup {s}
    /\ seen' = [seen EXCEPT ![s] = published]
    /\ UNCHANGED <<published, closing>>

Show(s) ==
    /\ s \in open
    /\ \E n \in (seen[s] + 1)..published : seen' = [seen EXCEPT ![s] = n]
    /\ UNCHANGED <<published, closing, open>>

Leave(s) ==
    /\ s \in open
    /\ open' = open \ {s}
    /\ UNCHANGED <<published, closing, seen>>

Shutdown ==
    /\ closing' = TRUE
    /\ UNCHANGED <<published, open, seen>>

Next ==
    \/ Publish
    \/ Shutdown
    \/ \E s \in Stream : Join(s) \/ Show(s) \/ Leave(s)

SafeSpec == Init /\ [][Next]_vars

\* A listener may stay for ever, but not past a shutdown.
LetGo(s) == closing /\ Leave(s)

Spec == SafeSpec /\ \A s \in Stream : WF_vars(LetGo(s))
==============================================================================
