---------------------------- MODULE MCLiveUpdates ----------------------------
(* The wall's one connection, and the look that comes over it.  Only the      *)
(* standing of the connection is common to both, and each has its own view of *)
(* it, so a behaviour of the model is of one of them.  The real delays, in    *)
(* ticks of half a second; two sockets and three timer handles leave room for *)
(* the leak the invariants look for.  Three changes of look, two frames under *)
(* way and three refreshes: of an earlier outage, a poll, a new stream.       *)
EXTENDS LiveUpdates, BehaviorSync, TLC

VARIABLE part

vars == <<linkVars, syncVars, part>>

Init == LinkInit /\ SyncInit /\ part \in {"connection", "look"}

Connection(A) == part = "connection" /\ A /\ UNCHANGED <<syncVars, part>>
Look(A)       == part = "look" /\ A /\ UNCHANGED <<linkVars, part>>

Next == Connection(LinkNext) \/ Look(SyncNext)

Spec == Init /\ [][Next]_vars

HandleSymmetry == Permutations(Socket) \cup Permutations(Timer)
==============================================================================
