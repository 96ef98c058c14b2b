---------------------------- MODULE SurfaceWorker ----------------------------
(***************************************************************************)
(* Who builds the surface maps of a planet: ManifestMapsClient asks a      *)
(* module worker (ManifestMapsWorker) and falls back to the page.          *)
(***************************************************************************)
EXTENDS WallEntities

CONSTANTS
    Built(_)            \* what buildSurfaceMaps makes of its manifest

ASSUME BuiltAssumption == \A e \in Entity : Built(e) \in {"maps", "null", "failed"}

VARIABLES
    worker,         \* the module's worker: is there one?
    workerBroken,   \* latched by the first failure
    nextId,         \* of a request
    requests,       \* the module's map "pending": request id -> who waits
    inbox,          \* requests posted to the worker, in order
    outbox,         \* its replies on their way to the page
    onPage,         \* who waits for a build on the page (setTimeout 0)
    answer          \* what each was told: who it was built for, and what

workerVars == <<worker, workerBroken, nextId, requests, inbox, outbox, onPage, answer>>

\* "lost": its promise is neither resolved nor rejected, ever.
Told == {"maps", "null", "failed"}
Answers == {"none", "asked", "lost"} \cup Told
Waiting == {e \in Entity : answer[e].what = "asked"}

WorkerTypeOK ==
    /\ worker \in BOOLEAN /\ workerBroken \in BOOLEAN
    /\ nextId \in Nat
    /\ DOMAIN requests \subseteq Nat /\ requests \in [DOMAIN requests -> Entity]
    /\ inbox \in Seq([id : Nat, of : Entity])
    /\ outbox \in Seq([id : Nat, of : Entity, says : Told])
    /\ onPage \subseteq Entity
    /\ answer \in [Entity -> [what : Answers, of : Entity]]

\* workerSupported: where there is no Worker it is as if it were broken.
WorkerInit ==
    /\ worker = FALSE /\ workerBroken \in BOOLEAN
    /\ nextId = 0 /\ requests = << >>
    /\ inbox = << >> /\ outbox = << >> /\ onPage = {}
    /\ answer = [e \in Entity |-> [what |-> "none", of |-> e]]

Tell(e, w, of) == answer' = [answer EXCEPT ![e] = [what |-> w, of |-> of]]

FreshId(e) == nextId + 1

\* buildOnPage: because there is no worker, because it cannot be constructed, or
\* because the message cannot be posted.
AskOnPage(e) ==
    /\ onPage' = onPage \cup {e}
    /\ Tell(e, "asked", e)
    /\ UNCHANGED <<requests, inbox, outbox>>
    /\ \/ /\ ~worker
          /\ workerBroken' = TRUE
          /\ UNCHANGED <<worker, nextId>>
       \/ /\ worker \/ ~workerBroken
          /\ worker' = TRUE
          /\ nextId' = nextId + 1
          /\ UNCHANGED workerBroken

\* requestSurfaceMaps, the worker started by the first request.
AskWorker(e) ==
    /\ worker \/ ~workerBroken
    /\ worker' = TRUE
    /\ nextId' = nextId + 1
    /\ requests' = Put(requests, FreshId(e), e)
    /\ inbox' = Append(inbox, [id |-> FreshId(e), of |-> e])
    /\ Tell(e, "asked", e)
    /\ UNCHANGED <<workerBroken, outbox, onPage>>

RequestSurfaceMaps(e) == answer[e].what = "none" /\ (AskWorker(e) \/ AskOnPage(e))

\* The worker's message handler: what it throws it replies, too, and it may throw
\* where the page would not.
WorkerBuilds ==
    /\ inbox # << >>
    /\ \E says \in {Built(Head(inbox).of), "failed"} :
          outbox' = Append(outbox, [id |-> Head(inbox).id, of |-> Head(inbox).of, says |-> says])
    /\ inbox' = Tail(inbox)
    /\ UNCHANGED <<worker, workerBroken, nextId, requests, onPage, answer>>

\* What a request gets of its reply.  Maps are put on canvases once the request is
\* struck off, and nothing guards that: where it throws, nobody is told.
Resolve(e, reply) ==
    IF reply.says = "failed"
    THEN onPage' = onPage \cup {e} /\ UNCHANGED answer
    ELSE /\ \/ Tell(e, reply.says, reply.of)
            \/ reply.says = "maps" /\ Tell(e, "lost", reply.of)
         /\ UNCHANGED onPage

\* The client's message handler: a reply nobody waits for is ignored, one bad
\* reply rejects its own request only, which then goes to the page.
ReplyArrives ==
    /\ outbox # << >>
    /\ outbox' = Tail(outbox)
    /\ LET reply == Head(outbox) IN
         IF reply.id \notin DOMAIN requests
         THEN UNCHANGED <<requests, onPage, answer>>
         ELSE /\ requests' = Without(requests, reply.id)
              /\ Resolve(requests[reply.id], reply)
    /\ UNCHANGED <<worker, workerBroken, nextId, inbox>>

\* Mutant of FailAll: the last request is the only one rejected.
FailAllLast ==
    /\ workerBroken' = TRUE /\ worker' = FALSE
    /\ requests' = << >>
    /\ onPage' = onPage \cup {requests[i] : i \in {i \in DOMAIN requests : i = nextId}}
    /\ UNCHANGED <<nextId, outbox, answer>>

\* failAll: everybody who waits goes to the page, and no worker is started again.
FailAll ==
    /\ workerBroken' = TRUE /\ worker' = FALSE
    /\ requests' = << >>
    /\ onPage' = onPage \cup Range(requests)
    /\ UNCHANGED <<nextId, outbox, answer>>

\* The worker's script does not load, or it dies: its replies may be under way.
WorkerFails == worker /\ inbox' = << >> /\ FailAll

\* buildOnPage's macrotask, which rejects what the build throws.
PageBuilds(e) ==
    /\ e \in onPage
    /\ onPage' = onPage \ {e}
    /\ Tell(e, Built(e), e)
    /\ UNCHANGED <<worker, workerBroken, nextId, requests, inbox, outbox>>

WorkerStep ==
    \/ WorkerBuilds \/ ReplyArrives \/ WorkerFails
    \/ \E e \in Entity : PageBuilds(e)

\* Whoever started a build on the page ends it; the worker answers or dies (a
\* worker that hangs without an error event is outside the code's care, too).
WorkerFairness ==
    /\ WF_workerVars(WorkerBuilds) /\ WF_workerVars(ReplyArrives)
    /\ \A e \in Entity : WF_workerVars(PageBuilds(e))
------------------------------------------------------------------------------
\* Every planet that waits is waited for at exactly one place, on the page, or as a
\* request the worker was sent or has replied to: through a worker that dies or never
\* loads, messages that cannot be posted, and builds that fail.  (The one exception is
\* "lost": a reply whose maps cannot be put on canvases, after its request is gone.)
NobodyIsForgotten ==
    /\ Waiting = onPage \cup Range(requests)
    /\ onPage \cap Range(requests) = {}
    /\ \A id \in DOMAIN requests :
          \E m \in Range(inbox) \cup Range(outbox) : m.id = id /\ m.of = requests[id]

\* ManifestMapsClient.js:11-14: where the worker throws "the same code runs on the page
\* instead, so a planet is never lost to the optimisation".  Whoever asks is told.
NobodyIsLost ==
    \A e \in Entity : answer[e].what = "asked" ~> answer[e].what \in Told

\* Nobody is shown the surface of another child's drawing, however the replies
\* and a rebuild of the wall are interleaved.
RightMaps == \A e \in Entity : answer[e].what \in {"maps", "null"} => answer[e].of = e

\* Everybody who waits for a surface is waited for at one place, and who is answered
\* gets the own one.
AnswersAreRight == WorkerTypeOK /\ NobodyIsForgotten /\ RightMaps
==============================================================================
