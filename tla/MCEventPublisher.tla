--------------------------- MODULE MCEventPublisher ---------------------------
(* Two pages on one publisher, a queue of two, four events: enough for a    *)
(* full queue, a drop, and a stop signal that has to push an event out.     *)
EXTENDS EventPublisher
==============================================================================
