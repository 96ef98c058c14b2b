------------------------- MODULE PlanetMaking_proof --------------------------
(***************************************************************************)
(* What holds of a planet between its drawing and its hero frame, for any  *)
(* set of entities, any number of requests, any surfaces and any reach of  *)
(* their parts: every planet that waits for its surface is waited for at   *)
(* exactly one place and is given its own.  And what holds of the surface  *)
(* itself: for any picture the shapes molded from it are tidy, and for any *)
(* drawing and any sizes paint keeps its owner, free sky stays free, and   *)
(* the meshes are smooth.                                                  *)
(***************************************************************************)
EXTENDS PlanetIntake, PlanetMesh, AccentShapes, DataInduction, FiniteSetTheorems

(* The surface worker.                                                      *)

Request == [id : Nat, of : Entity]
Reply   == [id : Nat, of : Entity, says : Told]

Messages == Range(inbox) \cup Range(outbox)

\* No id is used twice, and a message that somebody waits for is about the one who
\* waits: replies to the requests of a former worker are no longer waited for.
Numbered ==
    /\ \A id \in DOMAIN requests : id <= nextId
    /\ \A m \in Messages : m.id <= nextId
    /\ \A m \in Messages : m.id \in DOMAIN requests => m.of = requests[m.id]

\* Nobody waits for two requests.
AskedOnce == \A i, j \in DOMAIN requests : requests[i] = requests[j] => i = j

WorkerInv == AnswersAreRight /\ Numbered /\ AskedOnce
------------------------------------------------------------------------------
\* What a queue of messages holds after a message is posted.
LEMMA Posted ==
    ASSUME NEW U, NEW q \in Seq(U), NEW m \in U
    PROVE  Append(q, m) \in Seq(U) /\ Range(Append(q, m)) = Range(q) \cup {m}
<1>1. \A x \in Range(q) : x \in Range(Append(q, m))
  BY DEF Range
<1>2. Append(q, m)[Len(q) + 1] = m /\ Len(q) + 1 \in DOMAIN Append(q, m)
  OBVIOUS
<1>3. \A x \in Range(Append(q, m)) : x \in Range(q) \/ x = m
  BY DEF Range
<1> QED BY <1>1, <1>2, <1>3 DEF Range

\* What it holds after one is taken.
LEMMA Taken ==
    ASSUME NEW U, NEW q \in Seq(U), q # << >>
    PROVE  /\ Head(q) \in U /\ Tail(q) \in Seq(U)
           /\ Range(q) = Range(Tail(q)) \cup {Head(q)}
<1>1. Head(q) \in Range(q) /\ Tail(q) \in Seq(U) /\ Head(q) \in U
  BY DEF Range
<1>2. \A i \in DOMAIN Tail(q) : Tail(q)[i] = q[i + 1] /\ i + 1 \in DOMAIN q
  OBVIOUS
<1>3. \A i \in DOMAIN q : i = 1 \/ (i - 1 \in DOMAIN Tail(q) /\ q[i] = Tail(q)[i - 1])
  OBVIOUS
<1>4. q[1] = Head(q)
  OBVIOUS
<1>5. \A x \in Range(q) : x \in Range(Tail(q)) \cup {Head(q)}
  BY <1>3, <1>4 DEF Range
<1>6. \A x \in Range(Tail(q)) : x \in Range(q)
  BY <1>2 DEF Range
<1> QED BY <1>1, <1>5, <1>6

LEMMA NoMessages == Range(<< >>) = {}
  BY DEF Range

LEMMA MessageIds ==
    ASSUME WorkerTypeOK
    PROVE  \A m \in Messages : m.id \in Nat
<1>0. inbox \in Seq(Request) /\ outbox \in Seq(Reply)
  BY DEF WorkerTypeOK, Request, Reply
<1>1. \A i \in DOMAIN inbox : inbox[i].id \in Nat
  <2>1. \A i \in DOMAIN inbox : inbox[i] \in Request
    BY <1>0
  <2> QED BY <2>1 DEF Request
<1>2. \A i \in DOMAIN outbox : outbox[i].id \in Nat
  <2>1. \A i \in DOMAIN outbox : outbox[i] \in Reply
    BY <1>0
  <2> QED BY <2>1 DEF Reply
<1> QED BY <1>1, <1>2 DEF Messages, Range
------------------------------------------------------------------------------
LEMMA WorkerStarts == WorkerInit => WorkerInv
<1> SUFFICES ASSUME WorkerInit PROVE WorkerInv
  OBVIOUS
<1>1. requests \in [DOMAIN requests -> Entity] /\ DOMAIN requests = {}
  BY DEF WorkerInit
<1>2. WorkerTypeOK
  <2>1. worker \in BOOLEAN /\ workerBroken \in BOOLEAN /\ nextId \in Nat /\ onPage \subseteq Entity
    BY DEF WorkerInit
  <2>2. inbox \in Seq(Request) /\ outbox \in Seq(Reply)
    BY DEF WorkerInit
  <2>3. answer \in [Entity -> [what : Answers, of : Entity]]
    BY DEF WorkerInit, Answers
  <2> QED BY <1>1, <2>1, <2>2, <2>3 DEF WorkerTypeOK, Request, Reply
<1>3. Range(requests) = {} /\ Messages = {} /\ Waiting = {} /\ onPage = {}
  BY NoMessages DEF WorkerInit, Messages, Waiting
<1>4. NobodyIsForgotten /\ RightMaps
  BY <1>1, <1>3 DEF NobodyIsForgotten, RightMaps, WorkerInit
<1>5. Numbered /\ AskedOnce
  BY <1>1, <1>3 DEF Numbered, AskedOnce
<1> QED BY <1>2, <1>4, <1>5 DEF WorkerInv, AnswersAreRight

\* Everybody is asked at most once, for the worker or for the page.
LEMMA RequestKeeps ==
    ASSUME WorkerInv, NEW e \in Entity, RequestSurfaceMaps(e)
    PROVE  WorkerInv'
<1> USE DEF WorkerInv, AnswersAreRight
<1>a. answer[e].what = "none" /\ answer' = [answer EXCEPT ![e] = [what |-> "asked", of |-> e]]
  BY DEF RequestSurfaceMaps, AskWorker, AskOnPage, Tell
<1>0. /\ e \notin Waiting /\ Waiting' = Waiting \cup {e}
      /\ answer' \in [Entity -> [what : Answers, of : Entity]]
  BY <1>a DEF Waiting, WorkerTypeOK, Answers
<1>1. RightMaps'
  BY <1>a DEF RightMaps, WorkerTypeOK
<1>2. CASE AskOnPage(e)
  <2>1. WorkerTypeOK'
    <3>1. worker' \in BOOLEAN /\ workerBroken' \in BOOLEAN /\ nextId' \in Nat
      <4>1. CASE workerBroken' = TRUE /\ UNCHANGED <<worker, nextId>>
        BY <4>1 DEF WorkerTypeOK
      <4>2. CASE worker' = TRUE /\ nextId' = nextId + 1 /\ UNCHANGED workerBroken
        BY <4>2 DEF WorkerTypeOK
      <4> QED BY <1>2, <4>1, <4>2, Zenon DEF AskOnPage
    <3>2. UNCHANGED <<requests, inbox, outbox>> /\ onPage' = onPage \cup {e}
      BY <1>2 DEF AskOnPage
    <3> QED BY <1>0, <3>1, <3>2 DEF WorkerTypeOK
  <2>2. Messages' = Messages /\ requests' = requests /\ nextId <= nextId'
    BY <1>2 DEF AskOnPage, Messages, WorkerTypeOK
  <2>3. NobodyIsForgotten'
    BY <1>0, <1>2, <2>2 DEF AskOnPage, NobodyIsForgotten, Messages
  <2>4. Numbered' /\ AskedOnce'
    <3>1. \A i \in DOMAIN requests : i <= nextId'
      BY <2>1, <2>2 DEF Numbered, WorkerTypeOK
    <3>2. \A m \in Messages : m.id <= nextId'
      BY <2>1, <2>2, MessageIds DEF Numbered, WorkerTypeOK
    <3> QED BY <2>2, <3>1, <3>2 DEF Numbered, AskedOnce
  <2> QED BY <1>1, <2>1, <2>3, <2>4
<1>3. CASE AskWorker(e)
  <2> DEFINE n == nextId + 1
             m == [id |-> n, of |-> e]
  <2>1. n \notin DOMAIN requests /\ n \in Nat /\ m \in Request
    BY DEF Numbered, WorkerTypeOK, Request
  <2>2. /\ DOMAIN requests' = DOMAIN requests \cup {n} /\ requests'[n] = e
        /\ \A i \in DOMAIN requests : requests'[i] = requests[i]
        /\ requests' \in [DOMAIN requests' -> Entity]
    BY <1>3, <2>1 DEF AskWorker, Put, FreshId, WorkerTypeOK
  <2>3. Range(requests') = Range(requests) \cup {e}
    BY <2>1, <2>2 DEF Range
  <2>4. inbox' \in Seq(Request) /\ Range(inbox') = Range(inbox) \cup {m} /\ outbox' = outbox
    <3>1. inbox \in Seq(Request) /\ inbox' = Append(inbox, m) /\ outbox' = outbox
      BY <1>3 DEF AskWorker, FreshId, WorkerTypeOK, Request
    <3> QED BY <3>1, <2>1, Posted
  <2>5. Messages' = Messages \cup {m}
    BY <2>4 DEF Messages
  <2>6. WorkerTypeOK'
    BY <1>0, <1>3, <2>1, <2>2, <2>4 DEF AskWorker, WorkerTypeOK, Request
  <2>7. NobodyIsForgotten'
    <3>1. onPage' = onPage /\ e \notin onPage /\ e \notin Range(requests)
      BY <1>0, <1>3 DEF AskWorker, NobodyIsForgotten
    <3>2. \A id \in DOMAIN requests' : \E x \in Messages' : x.id = id /\ x.of = requests'[id]
      <4>1. \A id \in DOMAIN requests : \E x \in Messages : x.id = id /\ x.of = requests[id]
        BY DEF NobodyIsForgotten, Messages
      <4>2. m \in Messages' /\ m.id = n /\ m.of = e
        BY <2>5
      <4> QED BY <2>2, <2>5, <4>1, <4>2
    <3> QED BY <1>0, <2>3, <3>1, <3>2 DEF NobodyIsForgotten, Messages
  <2>8. Numbered'
    <3>1. nextId' = n /\ nextId \in Nat
      BY <1>3 DEF AskWorker, WorkerTypeOK
    <3>2. \A x \in Messages : x.id \in Nat /\ x.id <= nextId
      BY MessageIds DEF Numbered
    <3>3. \A i \in DOMAIN requests : i \in Nat /\ i <= nextId
      BY DEF Numbered, WorkerTypeOK
    <3>4. \A x \in Messages : x.id \in DOMAIN requests' => x.id \in DOMAIN requests
      BY <2>2, <3>1, <3>2
    <3>5. \A i \in DOMAIN requests' : i <= nextId'
      BY <2>2, <3>1, <3>3
    <3>6. \A x \in Messages' : x.id <= nextId'
      BY <2>5, <3>1, <3>2
    <3>7. \A x \in Messages' : x.id \in DOMAIN requests' => x.of = requests'[x.id]
      BY <2>2, <2>5, <3>4 DEF Numbered
    <3> QED BY <3>5, <3>6, <3>7 DEF Numbered
  <2>9. AskedOnce'
    <3>1. \A i \in DOMAIN requests : requests[i] # e
      BY <1>0 DEF NobodyIsForgotten, Range
    <3> QED BY <2>2, <3>1 DEF AskedOnce
  <2> QED BY <1>1, <2>6, <2>7, <2>8, <2>9
<1> QED BY <1>2, <1>3 DEF RequestSurfaceMaps

\* The worker turns a request into a reply: the messages are of the same ids.
LEMMA BuildKeeps ==
    ASSUME WorkerInv, WorkerBuilds
    PROVE  WorkerInv'
<1> USE DEF WorkerInv, AnswersAreRight
<1> DEFINE h == Head(inbox)
<1>1. PICK r \in Reply : outbox' = Append(outbox, r) /\ r.id = h.id /\ r.of = h.of
  <2>1. h \in Request
    BY Taken DEF WorkerBuilds, WorkerTypeOK, Request
  <2>2. PICK says \in {Built(h.of), "failed"} :
            outbox' = Append(outbox, [id |-> h.id, of |-> h.of, says |-> says])
    BY DEF WorkerBuilds
  <2>3. says \in Told
    BY <2>1, <2>2, BuiltAssumption DEF Request, Told
  <2> QED BY <2>1, <2>2, <2>3 DEF Request, Reply
<1>2. inbox \in Seq(Request) /\ outbox \in Seq(Reply) /\ inbox # << >> /\ inbox' = Tail(inbox)
  BY DEF WorkerBuilds, WorkerTypeOK, Request, Reply
<1>3. /\ inbox' \in Seq(Request) /\ h \in Request /\ Range(inbox) = Range(inbox') \cup {h}
      /\ outbox' \in Seq(Reply) /\ Range(outbox') = Range(outbox) \cup {r}
  BY <1>1, <1>2, Posted, Taken
<1>4. UNCHANGED <<worker, workerBroken, nextId, requests, onPage, answer>>
  BY DEF WorkerBuilds
<1>5. WorkerTypeOK'
  BY <1>3, <1>4 DEF WorkerTypeOK, Request, Reply
<1>6. \A m \in Messages : \E x \in Messages' : x.id = m.id /\ x.of = m.of
  BY <1>1, <1>3 DEF Messages
<1>7. \A x \in Messages' : \E m \in Messages : x.id = m.id /\ x.of = m.of
  BY <1>1, <1>3 DEF Messages
<1>8. NobodyIsForgotten'
  BY <1>4, <1>6 DEF NobodyIsForgotten, Waiting, Messages
<1>9. RightMaps' /\ Numbered' /\ AskedOnce'
  BY <1>4, <1>7 DEF RightMaps, Numbered, AskedOnce
<1> QED BY <1>5, <1>8, <1>9

\* A reply answers the one who waits for it, or sends it to the page.
LEMMA ReplyKeeps ==
    ASSUME WorkerInv, ReplyArrives
    PROVE  WorkerInv'
<1> USE DEF WorkerInv, AnswersAreRight
<1> DEFINE r == Head(outbox)
<1>1. outbox \in Seq(Reply) /\ outbox # << >> /\ outbox' = Tail(outbox)
  BY DEF ReplyArrives, WorkerTypeOK, Reply
<1>2. r \in Reply /\ outbox' \in Seq(Reply) /\ Range(outbox) = Range(outbox') \cup {r}
  BY <1>1, Taken
<1>3. UNCHANGED <<worker, workerBroken, nextId, inbox>>
  BY DEF ReplyArrives
<1>4. Messages = Messages' \cup {r}
  BY <1>2, <1>3 DEF Messages
<1>5. CASE r.id \notin DOMAIN requests
  <2>1. UNCHANGED <<requests, onPage, answer>>
    BY <1>5 DEF ReplyArrives
  <2>2. WorkerTypeOK'
    BY <1>2, <1>3, <2>1 DEF WorkerTypeOK, Reply
  <2>3. NobodyIsForgotten'
    BY <1>4, <1>5, <2>1 DEF NobodyIsForgotten, Waiting, Messages
  <2>4. RightMaps' /\ Numbered' /\ AskedOnce'
    BY <1>3, <1>4, <2>1 DEF RightMaps, Numbered, AskedOnce
  <2> QED BY <2>2, <2>3, <2>4
<1>6. CASE r.id \in DOMAIN requests
  <2> DEFINE e == requests[r.id]
  <2>1. e \in Entity /\ r.of = e /\ r.id \in Nat
    BY <1>2, <1>4, <1>6 DEF Numbered, WorkerTypeOK, Reply
  <2>2. /\ DOMAIN requests' = DOMAIN requests \ {r.id}
        /\ \A i \in DOMAIN requests' : requests'[i] = requests[i]
        /\ requests' \in [DOMAIN requests' -> Entity]
    BY <1>6 DEF ReplyArrives, Without, Restrict, WorkerTypeOK
  <2>3. Range(requests) = Range(requests') \cup {e} /\ e \notin Range(requests')
    BY <1>6, <2>2 DEF Range, AskedOnce
  <2>4. Numbered' /\ AskedOnce'
    BY <1>3, <1>4, <2>2 DEF Numbered, AskedOnce
  <2>5. \A id \in DOMAIN requests' : \E m \in Messages' : m.id = id /\ m.of = requests'[id]
    BY <1>4, <2>2 DEF NobodyIsForgotten, Messages
  <2>6. e \in Waiting /\ e \notin onPage
    BY <2>3 DEF NobodyIsForgotten
  <2>7. CASE r.says = "failed"
    <3>1. onPage' = onPage \cup {e} /\ answer' = answer
      BY <1>6, <2>7 DEF ReplyArrives, Resolve
    <3>2. WorkerTypeOK'
      BY <1>2, <1>3, <2>1, <2>2, <3>1 DEF WorkerTypeOK, Reply
    <3>3. NobodyIsForgotten'
      BY <2>3, <2>5, <2>6, <3>1 DEF NobodyIsForgotten, Waiting, Messages
    <3>4. RightMaps'
      BY <3>1 DEF RightMaps
    <3> QED BY <2>4, <3>2, <3>3, <3>4
  <2>8. CASE r.says # "failed"
    <3>0. r.says \in {"maps", "null"}
      BY <1>2, <2>8 DEF Reply, Told
    <3>1. PICK w \in {r.says, "lost"} :
              onPage' = onPage /\ answer' = [answer EXCEPT ![e] = [what |-> w, of |-> r.of]]
      BY <1>6, <2>8 DEF ReplyArrives, Resolve, Tell
    <3>2. w \in {"maps", "null", "lost"}
      BY <3>0, <3>1
    <3>3. WorkerTypeOK'
      BY <1>2, <1>3, <2>1, <2>2, <3>1, <3>2 DEF WorkerTypeOK, Reply, Answers, Told
    <3>4. Waiting' = Waiting \ {e}
      BY <2>1, <3>1, <3>2 DEF Waiting, WorkerTypeOK
    <3>5. NobodyIsForgotten'
      BY <2>3, <2>5, <2>6, <3>1, <3>4 DEF NobodyIsForgotten, Messages
    <3>6. RightMaps'
      BY <2>1, <3>1 DEF RightMaps, WorkerTypeOK
    <3> QED BY <2>4, <3>3, <3>5, <3>6
  <2> QED BY <2>7, <2>8
<1> QED BY <1>5, <1>6

\* When the worker fails, all that waited for it wait for the page.
LEMMA FailureKeeps ==
    ASSUME WorkerInv, WorkerFails
    PROVE  WorkerInv'
<1> USE DEF WorkerInv, AnswersAreRight
<1>1. /\ workerBroken' = TRUE /\ worker' = FALSE /\ requests' = << >> /\ inbox' = << >>
      /\ onPage' = onPage \cup Range(requests) /\ UNCHANGED <<nextId, outbox, answer>>
  BY DEF WorkerFails, FailAll
<1>2. requests' \in [DOMAIN requests' -> Entity] /\ DOMAIN requests' = {}
  BY <1>1
<1>3. Range(requests') = {} /\ Range(inbox') = {} /\ Messages' \subseteq Messages
  BY <1>1, NoMessages DEF Messages
<1>4. Range(requests) \subseteq Entity
  BY DEF Range, WorkerTypeOK
<1>5. WorkerTypeOK'
  <2>1. inbox' \in Seq(Request) /\ outbox' = outbox
    BY <1>1
  <2> QED BY <1>1, <1>2, <1>4, <2>1 DEF WorkerTypeOK, Request
<1>6. NobodyIsForgotten'
  BY <1>1, <1>2, <1>3 DEF NobodyIsForgotten, Waiting
<1>7. RightMaps' /\ Numbered' /\ AskedOnce'
  BY <1>1, <1>2, <1>3 DEF RightMaps, Numbered, AskedOnce
<1> QED BY <1>5, <1>6, <1>7

LEMMA PageKeeps ==
    ASSUME WorkerInv, NEW e \in Entity, PageBuilds(e)
    PROVE  WorkerInv'
<1> USE DEF WorkerInv, AnswersAreRight
<1>1. /\ e \in onPage /\ onPage' = onPage \ {e}
      /\ answer' = [answer EXCEPT ![e] = [what |-> Built(e), of |-> e]]
      /\ UNCHANGED <<worker, workerBroken, nextId, requests, inbox, outbox>>
  BY DEF PageBuilds, Tell
<1>2. Built(e) \in Told
  BY BuiltAssumption DEF Told
<1>3. WorkerTypeOK'
  BY <1>1, <1>2 DEF WorkerTypeOK, Answers
<1>4. Waiting' = Waiting \ {e}
  BY <1>1, <1>2 DEF Waiting, WorkerTypeOK, Told
<1>5. NobodyIsForgotten'
  BY <1>1, <1>4 DEF NobodyIsForgotten
<1>6. RightMaps' /\ Numbered' /\ AskedOnce'
  BY <1>1 DEF RightMaps, Numbered, AskedOnce, Messages, WorkerTypeOK
<1> QED BY <1>3, <1>5, <1>6

LEMMA WorkerKeeps ==
    ASSUME WorkerInv, WorkerStep \/ UNCHANGED workerVars
    PROVE  WorkerInv'
<1>1. CASE UNCHANGED workerVars
  BY <1>1 DEF workerVars, WorkerInv, AnswersAreRight, WorkerTypeOK, NobodyIsForgotten, RightMaps,
              Numbered, AskedOnce, Messages, Waiting
<1> QED BY <1>1, BuildKeeps, ReplyKeeps, FailureKeeps, PageKeeps DEF WorkerStep

------------------------------------------------------------------------------
(* The intake.                                                              *)

Queue    == ToSet(captureQueue)
Deferred == DOMAIN deferred

\* Only an entity that was made asks for a surface, is ready or leaves the wall, and
\* no planet is on the wall twice.
OnTheWall ==
    /\ born \subseteq Entity /\ disposed \subseteq born /\ ready \subseteq born
    /\ \A e \in Entity : answer[e].what # "none" => e \in born
    /\ \A e, f \in Wall : Id(e) = Id(f) => e = f

\* A snapshot that was scheduled is in one of four stages, or its timer was cleared.
OneStage ==
    /\ Deferred \cup timers \cup Queue \cup settled \subseteq ready
    /\ Deferred \cap (timers \cup Queue \cup settled) = {}
    /\ timers \cap (Queue \cup settled) = {}
    /\ Queue \cap settled = {}

\* The map "pending" names the timer that runs, and no frame is to overwrite it.
TimersAreNamed ==
    /\ \A e \in timers : Id(e) \in DOMAIN pending /\ pending[Id(e)] = e
    /\ \A e \in timers, f \in Deferred \ disposed : Id(e) # Id(f)

\* Where they are of whom whenIdle has known: none can fall behind it.
Dealt == settled \cup disposed

KnownAreTracked ==
    /\ idle.known \subseteq ready
    /\ idle.at = "two frames" => idle.known \subseteq Deferred \cup timers \cup Queue \cup Dealt
    /\ idle.at = "one frame" =>
          /\ idle.known \subseteq Deferred \cup timers \cup Queue \cup Dealt
          /\ \A e \in idle.known \cap Deferred : deferred[e] = 1
    /\ idle.at \in {"settling", "polling"} => idle.known \subseteq timers \cup Queue \cup Dealt
    /\ idle.at = "draining" =>
          /\ idle.known \subseteq idle.drain \cup Dealt
          /\ idle.drain \subseteq Queue \cup settled

Flow == OneStage /\ TimersAreNamed /\ KnownAreTracked /\ IdleMeansDone

SomebodyIsUnderWay == step # "queued" => captureQueue # << >>

IntakeInv == WorkerInv /\ OnTheWall /\ CaptureIsClean /\ SomebodyIsUnderWay /\ Flow
------------------------------------------------------------------------------
(* The queue of captures. *)

LEMMA Queued ==
    ASSUME NEW q \in Seq(Entity), IsInjective(q), NEW e \in Entity, e \notin ToSet(q)
    PROVE  /\ Append(q, e) \in Seq(Entity) /\ IsInjective(Append(q, e)) /\ Append(q, e) # << >>
           /\ ToSet(Append(q, e)) = ToSet(q) \cup {e}
<1>1. \A x \in ToSet(q) : x \in ToSet(Append(q, e))
  BY DEF ToSet
<1>2. Append(q, e)[Len(q) + 1] = e /\ Len(q) + 1 \in DOMAIN Append(q, e)
  OBVIOUS
<1>3. \A x \in ToSet(Append(q, e)) : x \in ToSet(q) \/ x = e
  BY DEF ToSet
<1>4. IsInjective(Append(q, e))
  BY DEF IsInjective, ToSet
<1> QED BY <1>1, <1>2, <1>3, <1>4 DEF ToSet

LEMMA Dequeued ==
    ASSUME NEW q \in Seq(Entity), IsInjective(q), q # << >>
    PROVE  /\ Head(q) \in Entity /\ Head(q) \in ToSet(q)
           /\ Tail(q) \in Seq(Entity) /\ IsInjective(Tail(q))
           /\ ToSet(Tail(q)) = ToSet(q) \ {Head(q)}
<1>1. Head(q) \in ToSet(q) /\ Tail(q) \in Seq(Entity) /\ Head(q) \in Entity
  BY DEF ToSet
<1>2. \A i \in DOMAIN Tail(q) : Tail(q)[i] = q[i + 1] /\ i + 1 \in DOMAIN q /\ i + 1 # 1
  OBVIOUS
<1>3. \A i \in DOMAIN q : i = 1 \/ (i - 1 \in DOMAIN Tail(q) /\ q[i] = Tail(q)[i - 1])
  OBVIOUS
<1>4. q[1] = Head(q) /\ 1 \in DOMAIN q
  OBVIOUS
<1>5. \A x \in ToSet(q) : x \in ToSet(Tail(q)) \cup {Head(q)}
  <2> SUFFICES ASSUME NEW i \in DOMAIN q PROVE q[i] \in ToSet(Tail(q)) \cup {Head(q)}
    BY DEF ToSet
  <2> QED BY <1>3, <1>4 DEF ToSet
<1>6. \A x \in ToSet(Tail(q)) : x \in ToSet(q) /\ x # Head(q)
  BY <1>2, <1>4 DEF ToSet, IsInjective
<1>7. IsInjective(Tail(q))
  BY DEF IsInjective
<1> QED BY <1>1, <1>5, <1>6, <1>7
------------------------------------------------------------------------------
(* The framing of a hero. *)

\* The first framing holds whatever stays within its bounds, for 3 and a half times
\* the radius is farther away than 3 times the reach.
LEMMA FirstFits ==
    ASSUME NEW e \in Entity, Reach(e) <= Radius(e)
    PROVE  ~TouchesMargin(e, 1)
<1> DEFINE r == Radius(e)
           U == {74, (35 * r) \div 10}
<1>1. r \in Nat /\ Reach(e) \in Nat /\ (35 * r) \div 10 \in Int /\ (35 * r) \div 10 >= 3 * r
  BY FramingAssumption
<1>2. PICK x \in U : \A y \in U : x >= y
  BY <1>1
<1>3. Max(U) \in U /\ \A y \in U : Max(U) >= y
  BY <1>2 DEF Max
<1>4. Max(U) \in Int /\ Max(U) >= 3 * r
  BY <1>1, <1>3
<1>5. FrameScale[1] = 100
  BY DEF FrameScale
<1>6. \A k \in Int : (k * 100) \div 100 = k
  OBVIOUS
<1>7. Distance(e, 1) = Max(U)
  BY <1>4, <1>5, <1>6 DEF Distance
<1> QED BY <1>1, <1>4, <1>7 DEF TouchesMargin

LEMMA FramingIsWhole ==
    ASSUME NEW e \in Entity
    PROVE  /\ Framing(e) \in [attempts : 1..MAX_FRAME_ATTEMPTS, touches : BOOLEAN]
           /\ Reach(e) <= Radius(e) => Framing(e) = [attempts |-> 1, touches |-> FALSE]
           /\ Framing(e).touches => Framing(e).attempts = MAX_FRAME_ATTEMPTS
<1> DEFINE Good(n) == /\ n = MAX_FRAME_ATTEMPTS \/ ~TouchesMargin(e, n)
                      /\ \A m \in 1..(n - 1) : TouchesMargin(e, m)
           n == CHOOSE n \in 1..MAX_FRAME_ATTEMPTS : Good(n)
<1>1. \A k \in 1..MAX_FRAME_ATTEMPTS : TouchesMargin(e, k) \in BOOLEAN
  BY DEF TouchesMargin
<1>2. \E k \in 1..MAX_FRAME_ATTEMPTS : Good(k)
  <2>1. CASE ~TouchesMargin(e, 1)
    BY <2>1 DEF MAX_FRAME_ATTEMPTS
  <2>2. CASE TouchesMargin(e, 1) /\ ~TouchesMargin(e, 2)
    <3>1. Good(2)
      BY <2>2
    <3> QED BY <3>1 DEF MAX_FRAME_ATTEMPTS
  <2>3. CASE TouchesMargin(e, 1) /\ TouchesMargin(e, 2)
    <3>1. \A m \in 1..2 : m = 1 \/ m = 2
      OBVIOUS
    <3>2. Good(3)
      BY <2>3, <3>1 DEF MAX_FRAME_ATTEMPTS
    <3> QED BY <3>2 DEF MAX_FRAME_ATTEMPTS
  <2> QED BY <2>1, <2>2, <2>3
<1>3. n \in 1..MAX_FRAME_ATTEMPTS /\ Good(n)
  BY <1>2
<1>4. Framing(e) = [attempts |-> n, touches |-> TouchesMargin(e, n)]
  BY DEF Framing
<1>5. TouchesMargin(e, n) => n = MAX_FRAME_ATTEMPTS
  BY <1>3
<1>6. ASSUME Reach(e) <= Radius(e) PROVE n = 1 /\ ~TouchesMargin(e, n)
  <2>1. ~TouchesMargin(e, 1)
    BY <1>6, FirstFits
  <2>2. n = 1
    BY <1>3, <2>1 DEF MAX_FRAME_ATTEMPTS
  <2> QED BY <2>1, <2>2
<1>7. TouchesMargin(e, n) = TRUE \/ TouchesMargin(e, n) = FALSE
  BY <1>1, <1>3
<1> HIDE DEF n
<1>8. Framing(e) \in [attempts : 1..MAX_FRAME_ATTEMPTS, touches : BOOLEAN]
  <2>1. \A t \in BOOLEAN :
          [attempts |-> n, touches |-> t] \in [attempts : 1..MAX_FRAME_ATTEMPTS, touches : BOOLEAN]
    BY <1>3
  <2> QED BY <1>4, <1>7, <2>1
<1>9. Reach(e) <= Radius(e) => Framing(e) = [attempts |-> 1, touches |-> FALSE]
  BY <1>4, <1>6, <1>7
<1>10. Framing(e).touches => Framing(e).attempts = MAX_FRAME_ATTEMPTS
  BY <1>4, <1>5
<1> QED BY <1>8, <1>9, <1>10
------------------------------------------------------------------------------
(* What becomes of a planet: the steps of its snapshot, as the stages see them. *)

LEMMA FlowStarts == Init => OnTheWall /\ CaptureIsClean /\ SomebodyIsUnderWay /\ Flow
<1> SUFFICES ASSUME Init PROVE OnTheWall /\ CaptureIsClean /\ SomebodyIsUnderWay /\ Flow
  OBVIOUS
<1> USE DEF Init, SnapshotInit, WorkerInit
<1>1. /\ Deferred = {} /\ Queue = {} /\ DOMAIN pending = {} /\ DOMAIN framed = {}
      /\ captureQueue \in Seq(Entity) /\ IsInjective(captureQueue)
  BY DEF Deferred, Queue, ToSet, IsInjective
<1>2. OnTheWall
  BY DEF OnTheWall, Wall
<1>3. CaptureIsClean
  <2>1. borrowed \in BOOLEAN /\ exports \subseteq {"target", "sun's shadow map"}
    OBVIOUS
  <2>2. attempt \in 0..MAX_UPLOAD_ATTEMPTS
    BY DEF MAX_UPLOAD_ATTEMPTS
  <2>3. SnapshotTypeOK
    BY <1>1, <2>1, <2>2 DEF SnapshotTypeOK, Deferred
  <2> QED BY <1>1, <2>3 DEF CaptureIsClean, RendererIsLive, HeroIsWhole
<1>4. Flow
  BY <1>1 DEF Flow, OneStage, TimersAreNamed, KnownAreTracked, IdleMeansDone, Dealt
<1> QED BY <1>2, <1>3, <1>4 DEF SomebodyIsUnderWay

LEMMA DeferredType ==
    ASSUME CaptureIsClean
    PROVE  \A e \in Deferred : e \in Entity /\ deferred[e] \in {1, 2}
<1>1. SnapshotTypeOK
  BY DEF CaptureIsClean
<1>2. \A e \in DOMAIN deferred : e \in Entity /\ deferred[e] \in 1..2
  BY <1>1 DEF SnapshotTypeOK
<1>3. 1..2 = {1, 2}
  OBVIOUS
<1> QED BY <1>2, <1>3 DEF Deferred

\* surfaceReady is settled: the snapshot of an entity that never had one is deferred,
\* and the timer of the one that showed its planet before is cleared.
LEMMA ScheduleFlows ==
    ASSUME IntakeInv, NEW e \in Entity, SurfaceReady(e)
    PROVE  OnTheWall' /\ CaptureIsClean' /\ SomebodyIsUnderWay' /\ Flow'
<1> USE DEF IntakeInv, Flow
<1>1. e \in born /\ e \notin ready /\ ready' = ready \cup {e} /\ UNCHANGED <<workerVars, born>>
  BY DEF Told, SurfaceReady, OnTheWall
<1>2. CASE e \in disposed
  <2>1. UNCHANGED snapVars
    BY <1>2 DEF SurfaceReady
  <2> QED BY <1>1, <2>1 DEF snapVars, workerVars, OnTheWall, Wall, CaptureIsClean, SnapshotTypeOK,
             RendererIsLive, HeroIsWhole, SomebodyIsUnderWay, OneStage, TimersAreNamed,
             KnownAreTracked, IdleMeansDone, Dealt, Deferred, Queue
<1>3. CASE e \notin disposed
  <2>1. Schedule(e)
    BY <1>3 DEF SurfaceReady
  <2>2. UNCHANGED <<disposed, pending, captureQueue, step, attempt, borrowed, exports,
                    framed, settled, idle>>
    BY <2>1 DEF Schedule
  <2>3. /\ Deferred' = Deferred \cup {e} /\ deferred'[e] = 2
        /\ \A f \in Deferred : f # e => deferred'[f] = deferred[f]
    BY <2>1 DEF Schedule, Put, Deferred
  <2>4. timers' \subseteq timers /\ \A f \in timers \ timers' : Id(f) = Id(e) /\ f \in born
    <3>1. \A f \in timers \ timers' : Id(e) \in DOMAIN pending /\ f = pending[Id(e)]
      BY <2>1 DEF Schedule
    <3>2. \A f \in timers : f \in born
      BY DEF OneStage, OnTheWall
    <3> QED BY <2>1, <3>1, <3>2 DEF Schedule, CaptureIsClean, SnapshotTypeOK
  <2>5. \A f \in timers' : Id(f) # Id(e)
    BY <2>1 DEF Schedule, TimersAreNamed
  <2>6. e \in Wall /\ e \notin Deferred \cup timers \cup Queue \cup settled \cup idle.known
    BY <1>1, <1>3 DEF Wall, OneStage, KnownAreTracked
  <2>7. timers \ timers' \subseteq disposed
    BY <2>4, <2>6 DEF OnTheWall, Wall, OneStage
  <2>8. OnTheWall' /\ SomebodyIsUnderWay'
    BY <1>1, <2>2 DEF OnTheWall, Wall, workerVars, SomebodyIsUnderWay
  <2>9. CaptureIsClean'
    <3>1. \A f \in DOMAIN deferred' : f \in Entity /\ deferred'[f] \in 1..2
      BY <2>3, DeferredType DEF Deferred
    <3> QED BY <2>2, <2>4, <3>1 DEF CaptureIsClean, SnapshotTypeOK, RendererIsLive, HeroIsWhole
  <2>10. OneStage'
    BY <1>1, <2>2, <2>3, <2>4, <2>6 DEF OneStage, Queue
  <2>11. TimersAreNamed'
    BY <2>2, <2>3, <2>4, <2>5 DEF TimersAreNamed
  <2>12. KnownAreTracked' /\ IdleMeansDone'
    BY <1>1, <2>2, <2>3, <2>4, <2>6, <2>7 DEF KnownAreTracked, IdleMeansDone, Dealt, Queue
  <2> QED BY <2>8, <2>9, <2>10, <2>11, <2>12
<1> QED BY <1>2, <1>3

\* A frame: what was deferred for one frame gets its timer, unless it left the wall.
LEMMA FrameFlows ==
    ASSUME IntakeInv, Frame, UNCHANGED <<born, ready, answer>>
    PROVE  OnTheWall' /\ CaptureIsClean' /\ SomebodyIsUnderWay' /\ Flow'
<1> USE DEF IntakeInv, Flow
<1> DEFINE armed == {e \in DOMAIN deferred : deferred[e] = 1} \ disposed
<1>1. UNCHANGED <<disposed, captureQueue, step, attempt, borrowed, exports, framed, settled>>
  BY DEF Frame
<1>2. /\ timers' = timers \cup armed
      /\ pending' = [p \in DOMAIN pending \cup {Id(e) : e \in armed} |->
                       IF \E e \in armed : Id(e) = p
                       THEN CHOOSE e \in armed : Id(e) = p ELSE pending[p]]
  BY DEF Frame
<1>3. /\ Deferred' = {e \in Deferred : deferred[e] = 2}
      /\ \A e \in Deferred' : deferred'[e] = 1
  BY DEF Frame, Deferred
<1>4. \A e \in Deferred : e \in Entity /\ deferred[e] \in {1, 2}
  BY DeferredType
<1>5. armed \subseteq Deferred /\ armed \subseteq Wall /\ \A e \in armed : deferred[e] = 1
  BY DEF Deferred, OneStage, OnTheWall, Wall
<1>6. \A e, f \in armed : Id(e) = Id(f) => e = f
  BY <1>5 DEF OnTheWall
<1>7. \A e \in armed : Id(e) \in DOMAIN pending' /\ pending'[Id(e)] = e
  BY <1>2, <1>6
<1>8. \A e \in timers : Id(e) \in DOMAIN pending' /\ pending'[Id(e)] = e
  <2>1. \A e \in timers : Id(e) \in DOMAIN pending /\ pending[Id(e)] = e
    BY DEF TimersAreNamed
  <2>2. \A e \in timers, f \in armed : Id(e) # Id(f)
    BY <1>5 DEF TimersAreNamed, Wall
  <2> QED BY <1>2, <2>1, <2>2
<1>9. idle' = [idle EXCEPT !.at = CASE idle.at = "two frames" -> "one frame"
                                    [] idle.at = "one frame"  -> "settling"
                                    [] OTHER                  -> idle.at]
  BY DEF Frame
<1>10. /\ idle'.known = idle.known /\ idle'.drain = idle.drain
       /\ idle.at = "two frames" => idle'.at = "one frame"
       /\ idle.at = "one frame" => idle'.at = "settling"
       /\ idle.at \notin {"two frames", "one frame"} => idle'.at = idle.at
       /\ idle' \in [at : {"unasked", "two frames", "one frame", "settling", "polling",
                           "draining", "yes", "no"},
                     known : SUBSET Entity, drain : SUBSET Entity]
  BY <1>9 DEF CaptureIsClean, SnapshotTypeOK
<1>11. OnTheWall' /\ SomebodyIsUnderWay'
  BY <1>1 DEF OnTheWall, Wall, SomebodyIsUnderWay
<1>12. CaptureIsClean'
  <2>1. \A e \in DOMAIN deferred' : e \in Entity /\ deferred'[e] \in 1..2
    BY <1>3, <1>4 DEF Deferred
  <2>2. timers' \subseteq Entity
    BY <1>2, <1>4, <1>5 DEF CaptureIsClean, SnapshotTypeOK
  <2>3. \A p \in DOMAIN pending' : pending'[p] \in Entity /\ Id(pending'[p]) = p
    BY <1>2, <1>4, <1>5 DEF CaptureIsClean, SnapshotTypeOK
  <2> QED BY <1>1, <1>10, <2>1, <2>2, <2>3
       DEF CaptureIsClean, SnapshotTypeOK, RendererIsLive, HeroIsWhole
<1>13. OneStage'
  BY <1>1, <1>2, <1>3, <1>5 DEF OneStage, Queue
<1>14. TimersAreNamed'
  <2>1. \A e \in timers', f \in Deferred' \ disposed' : Id(e) # Id(f)
    <3> SUFFICES ASSUME NEW e \in timers', NEW f \in Deferred' \ disposed' PROVE Id(e) # Id(f)
      OBVIOUS
    <3>1. CASE e \in timers
      BY <1>1, <1>3, <3>1 DEF TimersAreNamed
    <3>2. CASE e \in armed
      <4>1. f \in Wall /\ f # e
        BY <1>1, <1>3, <1>5, <3>2 DEF OneStage, OnTheWall, Wall
      <4> QED BY <1>5, <3>2, <4>1 DEF OnTheWall
    <3> QED BY <1>2, <3>1, <3>2
  <2> QED BY <1>2, <1>7, <1>8, <2>1 DEF TimersAreNamed
<1>15. \A e \in Deferred : e \in Deferred' \/ e \in timers' \/ e \in disposed'
  BY <1>1, <1>2, <1>3, <1>4 DEF Deferred
<1>16. KnownAreTracked' /\ IdleMeansDone'
  <2>1. idle.known \subseteq ready' /\ Queue' = Queue /\ Dealt' = Dealt /\ timers \subseteq timers'
    BY <1>1, <1>2 DEF KnownAreTracked, Queue, Dealt
  <2>2. CASE idle.at = "two frames"
    BY <1>1, <1>3, <1>10, <1>15, <2>1, <2>2 DEF KnownAreTracked, IdleMeansDone, Dealt
  <2>3. CASE idle.at = "one frame"
    <3>1. idle.known \cap Deferred' = {}
      <4>1. \A e \in idle.known \cap Deferred : deferred[e] = 1
        BY <2>3 DEF KnownAreTracked
      <4>2. \A e \in Deferred' : e \in Deferred /\ deferred[e] = 2
        BY <1>3
      <4> QED BY <4>1, <4>2
    <3> QED BY <1>1, <1>10, <1>15, <2>1, <2>3, <3>1 DEF KnownAreTracked, IdleMeansDone, Dealt
  <2>4. CASE idle.at \notin {"two frames", "one frame"}
    BY <1>1, <1>10, <2>1, <2>4 DEF KnownAreTracked, IdleMeansDone, Dealt
  <2> QED BY <2>2, <2>3, <2>4
<1> QED BY <1>11, <1>12, <1>13, <1>14, <1>16

\* A timer fires: the capture is enqueued in the same turn in which the name goes.
LEMMA TimerFlows ==
    ASSUME IntakeInv, NEW e \in Entity, TimerFires(e), UNCHANGED <<born, ready, answer>>
    PROVE  OnTheWall' /\ CaptureIsClean' /\ SomebodyIsUnderWay' /\ Flow'
<1> USE DEF IntakeInv, Flow
<1>1. UNCHANGED <<disposed, deferred, step, attempt, borrowed, exports, framed, settled, idle>>
  BY DEF TimerFires
<1>2. e \in timers /\ timers' = timers \ {e} /\ captureQueue' = Append(captureQueue, e)
  BY DEF TimerFires
<1>3. /\ DOMAIN pending' = DOMAIN pending \ {Id(e)}
      /\ \A p \in DOMAIN pending' : pending'[p] = pending[p]
  BY DEF TimerFires, Without, Restrict
<1>4. captureQueue \in Seq(Entity) /\ IsInjective(captureQueue) /\ e \notin Queue
  BY <1>2 DEF CaptureIsClean, SnapshotTypeOK, OneStage
<1>5. /\ captureQueue' \in Seq(Entity) /\ IsInjective(captureQueue') /\ captureQueue' # << >>
      /\ Queue' = Queue \cup {e}
  BY <1>2, <1>4, Queued DEF Queue
<1>6. OnTheWall' /\ SomebodyIsUnderWay'
  BY <1>1, <1>5 DEF OnTheWall, Wall, SomebodyIsUnderWay
<1>7. CaptureIsClean'
  <2>1. \A p \in DOMAIN pending' : pending'[p] \in Entity /\ Id(pending'[p]) = p
    BY <1>3 DEF CaptureIsClean, SnapshotTypeOK
  <2> QED BY <1>1, <1>2, <1>5, <2>1 DEF CaptureIsClean, SnapshotTypeOK, RendererIsLive, HeroIsWhole
<1>8. OneStage'
  BY <1>1, <1>2, <1>5 DEF OneStage, Deferred
<1>9. TimersAreNamed'
  <2>1. \A f \in timers' : Id(f) # Id(e)
    BY <1>2 DEF TimersAreNamed
  <2> QED BY <1>1, <1>2, <1>3, <2>1 DEF TimersAreNamed, Deferred
<1>10. KnownAreTracked' /\ IdleMeansDone'
  BY <1>1, <1>2, <1>5 DEF KnownAreTracked, IdleMeansDone, Dealt, Deferred
<1> QED BY <1>6, <1>7, <1>8, <1>9, <1>10

\* A step of the first capture: it stays the first, or it is settled.
LEMMA CaptureFlows ==
    ASSUME IntakeInv, Capture \/ Encoded \/ Uploaded \/ BackoffOver,
           UNCHANGED <<born, ready, answer>>
    PROVE  OnTheWall' /\ CaptureIsClean' /\ SomebodyIsUnderWay' /\ Flow'
<1> USE DEF IntakeInv, Flow
<1> DEFINE h == Head(captureQueue)
<1>1. UNCHANGED <<disposed, deferred, timers, pending, idle>>
  BY DEF Capture, Encoded, Uploaded, BackoffOver
<1>2. captureQueue \in Seq(Entity) /\ IsInjective(captureQueue) /\ captureQueue # << >>
  BY DEF Capture, Encoded, Uploaded, BackoffOver, SomebodyIsUnderWay, CaptureIsClean, SnapshotTypeOK
<1>3. /\ h \in Entity /\ h \in Queue /\ Tail(captureQueue) \in Seq(Entity)
      /\ IsInjective(Tail(captureQueue)) /\ ToSet(Tail(captureQueue)) = Queue \ {h}
  BY <1>2, Dequeued DEF Queue
<1>4. attempt \in 0..3 /\ MAX_UPLOAD_ATTEMPTS = 3
  BY DEF CaptureIsClean, SnapshotTypeOK, MAX_UPLOAD_ATTEMPTS
<1>5. Leave \/ \E s \in {"encoding", "uploading", "backoff"}, a \in 0..3 : GoesOn(s, a)
  <2>1. CASE Capture
    BY <2>1 DEF Capture, Fail
  <2>2. CASE Encoded
    BY <2>2 DEF Encoded, Fail
  <2>3. CASE Uploaded
    BY <1>4, <2>3 DEF Uploaded
  <2>4. CASE BackoffOver
    <3>1. Retry
      BY <2>4 DEF BackoffOver
    <3>2. CASE attempt = 3
      BY <1>4, <3>1, <3>2 DEF Retry, Fail
    <3>3. CASE attempt # 3
      <4>1. attempt < 3 /\ attempt + 1 \in 0..3
        BY <1>4, <3>3
      <4>2. Leave \/ GoesOn("uploading", attempt + 1)
        BY <1>4, <3>1, <3>3, <4>1 DEF Retry, Fail
      <4> QED BY <4>1, <4>2
    <3> QED BY <3>2, <3>3
  <2> QED BY <2>1, <2>2, <2>3, <2>4
<1>6. \/ /\ captureQueue' = Tail(captureQueue) /\ settled' = settled \cup {h}
         /\ step' = "queued" /\ attempt' = 0
      \/ /\ UNCHANGED <<captureQueue, settled>>
         /\ step' \in {"encoding", "uploading", "backoff"} /\ attempt' \in 0..3
  BY <1>5 DEF Leave, GoesOn
<1>7. \/ UNCHANGED <<captureQueue, settled, Queue>>
      \/ Queue' = Queue \ {h} /\ settled' = settled \cup {h}
  BY <1>3, <1>6 DEF Queue
<1>8. OnTheWall' /\ SomebodyIsUnderWay'
  BY <1>1, <1>2, <1>6 DEF OnTheWall, Wall, SomebodyIsUnderWay
<1>9. CaptureIsClean'
  <2>1. \/ UNCHANGED <<borrowed, exports>>
        \/ borrowed' = FALSE /\ exports' = exports \ ExportScene
    BY DEF Capture, Encoded, Uploaded, BackoffOver, GiveBack
  <2>2. ~borrowed /\ exports = {} /\ SnapshotTypeOK /\ HeroIsWhole
    BY DEF CaptureIsClean, RendererIsLive
  <2>3. borrowed' = FALSE /\ exports' = {}
    BY <2>1, <2>2 DEF SnapshotTypeOK
  <2>4. framed' = framed \/ framed' = Put(framed, h, Framing(h))
    BY DEF Capture, Encoded, Uploaded, BackoffOver
  <2>5. \A e \in DOMAIN framed' :
           \/ e \in DOMAIN framed /\ framed'[e] = framed[e]
           \/ e = h /\ framed'[e] = Framing(h)
    BY <2>4 DEF Put
  <2>6. \A e \in DOMAIN framed' :
           /\ e \in Entity
           /\ framed'[e] \in [attempts : 1..MAX_FRAME_ATTEMPTS, touches : BOOLEAN]
    BY <1>3, <2>2, <2>5, FramingIsWhole DEF SnapshotTypeOK
  <2>7. HeroIsWhole'
    BY <1>3, <2>2, <2>5, FramingIsWhole DEF HeroIsWhole
  <2>8. captureQueue' \in Seq(Entity) /\ IsInjective(captureQueue')
    BY <1>2, <1>3, <1>6
  <2>9. settled' \subseteq Entity
    BY <1>3, <1>7, <2>2 DEF SnapshotTypeOK
  <2>10. /\ step' \in {"queued", "encoding", "uploading", "backoff"}
         /\ attempt' \in 0..MAX_UPLOAD_ATTEMPTS
    BY <1>4, <1>6
  <2>11. SnapshotTypeOK'
    BY <1>1, <2>2, <2>3, <2>6, <2>8, <2>9, <2>10 DEF SnapshotTypeOK
  <2> QED BY <2>3, <2>7, <2>11 DEF CaptureIsClean, RendererIsLive
<1>10. OneStage'
  BY <1>1, <1>3, <1>7 DEF OneStage, Deferred
<1>11. TimersAreNamed'
  BY <1>1 DEF TimersAreNamed, Deferred
<1>12. KnownAreTracked' /\ IdleMeansDone'
  BY <1>1, <1>7 DEF KnownAreTracked, IdleMeansDone, Dealt, Deferred
<1> QED BY <1>8, <1>9, <1>10, <1>11, <1>12

\* whenIdle looks at the timers once the frames have passed, then at the queue.
LEMMA IdleFlows ==
    ASSUME IntakeInv, WhenIdle \/ WhenIdleStep, UNCHANGED <<born, ready, answer>>
    PROVE  OnTheWall' /\ CaptureIsClean' /\ SomebodyIsUnderWay' /\ Flow'
<1> USE DEF IntakeInv, Flow
<1>1. UNCHANGED <<disposed, deferred, timers, pending, captureQueue, step, attempt,
                  borrowed, exports, framed, settled>>
  BY DEF WhenIdle, WhenIdleStep
<1>2. OnTheWall' /\ SomebodyIsUnderWay' /\ OneStage' /\ TimersAreNamed'
  BY <1>1 DEF OnTheWall, Wall, SomebodyIsUnderWay, OneStage, TimersAreNamed, Deferred, Queue
<1>3. idle \in [at : {"unasked", "two frames", "one frame", "settling", "polling",
                      "draining", "yes", "no"},
                known : SUBSET Entity, drain : SUBSET Entity]
  BY DEF CaptureIsClean, SnapshotTypeOK
<1>4. Deferred \subseteq Entity /\ timers \subseteq Entity /\ Queue \subseteq Entity
  BY DEF OneStage, OnTheWall
<1> DEFINE IdleType == idle \in [at : {"unasked", "two frames", "one frame", "settling",
                                       "polling", "draining", "yes", "no"},
                                 known : SUBSET Entity, drain : SUBSET Entity]
<1>5. IdleType' => CaptureIsClean'
  BY <1>1 DEF CaptureIsClean, SnapshotTypeOK, RendererIsLive, HeroIsWhole
<1>6. IdleType' /\ KnownAreTracked' /\ IdleMeansDone'
  <2>1. CASE WhenIdle
    <3>1. idle' = [at |-> "two frames", known |-> Deferred \cup timers \cup Queue, drain |-> {}]
      BY <2>1 DEF WhenIdle, Scheduled, Deferred, Queue
    <3> QED BY <1>1, <1>4, <3>1 DEF KnownAreTracked, IdleMeansDone, Dealt, Deferred, Queue, OneStage
  <2>2. CASE idle.at = "settling" /\ IdleGoes("polling")
    BY <1>1, <1>3, <2>2 DEF IdleGoes, KnownAreTracked, IdleMeansDone, Dealt, Deferred, Queue
  <2>3. CASE IdlePolls
    <3>1. timers = {}
      BY <2>3 DEF IdlePolls, TimersAreNamed
    <3>2. idle.at = "polling" /\ idle' = [idle EXCEPT !.at = "draining", !.drain = Queue]
      BY <2>3 DEF IdlePolls, Queue
    <3>3. idle'.known = idle.known /\ idle'.at = "draining" /\ idle'.drain = Queue /\ IdleType'
      BY <1>3, <1>4, <3>2
    <3> QED BY <1>1, <3>1, <3>2, <3>3 DEF KnownAreTracked, IdleMeansDone, Dealt, Deferred, Queue
  <2>4. CASE idle.at = "draining" /\ idle.drain \cap Queue = {} /\ IdleGoes("yes")
    <3>1. idle'.known = idle.known /\ idle'.at = "yes" /\ IdleType'
      BY <1>3, <2>4 DEF IdleGoes
    <3>2. idle.known \subseteq settled \cup disposed
      BY <2>4 DEF KnownAreTracked, Dealt
    <3> QED BY <1>1, <3>1, <3>2 DEF KnownAreTracked, IdleMeansDone, Dealt
  <2>5. CASE idle.at \in {"polling", "draining"} /\ IdleGoes("no")
    <3>1. idle'.known = idle.known /\ idle'.at = "no" /\ IdleType'
      BY <1>3, <2>5 DEF IdleGoes
    <3> QED BY <1>1, <3>1 DEF KnownAreTracked, IdleMeansDone
  <2> QED BY <2>1, <2>2, <2>3, <2>4, <2>5 DEF WhenIdleStep, Queue
<1> QED BY <1>2, <1>5, <1>6
------------------------------------------------------------------------------
(* What becomes of the wall. *)

\* Planets leave the wall and others are put on it, none that is there already.
LEMMA WallFlows ==
    ASSUME IntakeInv,
           NEW Gone \in SUBSET Wall, NEW Made \in SUBSET (Entity \ born),
           Dispose(Gone), born' = born \cup Made, UNCHANGED <<ready, answer>>,
           \A e \in Made, f \in (Wall \ Gone) \cup Made : Id(e) = Id(f) => e = f
    PROVE  OnTheWall' /\ CaptureIsClean' /\ SomebodyIsUnderWay' /\ Flow'
<1> USE DEF IntakeInv, Flow
<1>1. /\ disposed' = disposed \cup Gone
      /\ UNCHANGED <<deferred, timers, pending, captureQueue, step, attempt, borrowed,
                     exports, framed, settled, idle>>
  BY DEF Dispose
<1>2. Wall' = (Wall \ Gone) \cup Made
  BY <1>1 DEF Wall, OnTheWall
<1>3. OnTheWall'
  <2>1. \A e, f \in Wall' : Id(e) = Id(f) => e = f
    BY <1>2 DEF OnTheWall
  <2> QED BY <1>1, <2>1 DEF OnTheWall, Wall
<1>4. CaptureIsClean' /\ SomebodyIsUnderWay'
  <2>1. disposed' \subseteq Entity
    BY <1>1 DEF OnTheWall, Wall
  <2> QED BY <1>1, <2>1 DEF CaptureIsClean, SnapshotTypeOK, RendererIsLive, HeroIsWhole,
                            SomebodyIsUnderWay
<1>5. Flow'
  BY <1>1 DEF OneStage, TimersAreNamed, KnownAreTracked, IdleMeansDone, Dealt, Deferred, Queue
<1> QED BY <1>3, <1>4, <1>5

\* A planet that is new has an entity of its own.
LEMMA NewIsUnborn ==
    ASSUME NEW p, Unborn(p) # {}
    PROVE  New(p) \in Entity \ born /\ Id(New(p)) = p
BY DEF New, Unborn

\* Of the planets nothing changes while the worker builds, and who was not asked for
\* is not told.
LEMMA WorkerFlows ==
    ASSUME IntakeInv, UNCHANGED <<snapVars, born, ready>>,
           \A e \in Entity : answer'[e].what # "none" => answer[e].what # "none" \/ e \in born
    PROVE  OnTheWall' /\ CaptureIsClean' /\ SomebodyIsUnderWay' /\ Flow'
<1> USE DEF IntakeInv, Flow
<1>1. OnTheWall'
  BY DEF OnTheWall, Wall, snapVars
<1> QED BY <1>1 DEF snapVars, CaptureIsClean, SnapshotTypeOK, RendererIsLive, HeroIsWhole,
            SomebodyIsUnderWay, OneStage, TimersAreNamed, KnownAreTracked, IdleMeansDone, Dealt,
            Deferred, Queue

LEMMA OnlyTheAskedAreTold ==
    ASSUME WorkerInv, WorkerStep
    PROVE  \A e \in Entity : answer'[e].what # "none" => answer[e].what # "none"
<1> SUFFICES ASSUME NEW e \in Entity, answer[e].what = "none" PROVE answer'[e] = answer[e]
  OBVIOUS
<1>1. e \notin onPage /\ \A i \in DOMAIN requests : requests[i] # e
  <2>1. e \notin Waiting
    BY DEF Waiting
  <2> QED BY <2>1 DEF WorkerInv, AnswersAreRight, NobodyIsForgotten, Range
<1>2. answer \in [Entity -> [what : Answers, of : Entity]]
  BY DEF WorkerInv, AnswersAreRight, WorkerTypeOK
<1>3. CASE WorkerBuilds \/ WorkerFails
  BY <1>3 DEF WorkerBuilds, WorkerFails, FailAll
<1>4. CASE ReplyArrives
  BY <1>1, <1>2, <1>4 DEF ReplyArrives, Resolve, Tell
<1>5. CASE \E f \in Entity : PageBuilds(f)
  BY <1>1, <1>2, <1>5 DEF PageBuilds, Tell
<1> QED BY <1>3, <1>4, <1>5 DEF WorkerStep
------------------------------------------------------------------------------
LEMMA IntakeKeeps ==
    ASSUME IntakeInv, [Next]_vars
    PROVE  IntakeInv'
<1> DEFINE Rest == OnTheWall /\ CaptureIsClean /\ SomebodyIsUnderWay /\ Flow
<1> SUFFICES WorkerInv' /\ Rest'
  BY DEF IntakeInv
<1>0. WorkerInv /\ OnTheWall
  BY DEF IntakeInv
<1>a. ASSUME UNCHANGED workerVars PROVE WorkerInv' /\ UNCHANGED answer
  BY <1>a, <1>0, WorkerKeeps DEF workerVars
<1>1. ASSUME NEW e \in Entity, Add(Id(e)) PROVE WorkerInv' /\ Rest'
  <2> DEFINE n == New(Id(e))
  <2>1. n \in Entity \ born /\ Id(n) = Id(e) /\ \A f \in Wall : Id(f) # Id(n)
    BY <1>1, NewIsUnborn DEF Add
  <2>2. Dispose({}) /\ born' = born \cup {n} /\ UNCHANGED <<ready, workerVars>>
    BY <1>1 DEF Add, Dispose, snapVars
  <2> HIDE DEF n
  <2>3. /\ {} \in SUBSET Wall /\ {n} \in SUBSET (Entity \ born)
        /\ \A m \in {n}, f \in (Wall \ {}) \cup {n} : Id(m) = Id(f) => m = f
    BY <2>1
  <2>4. Rest'
    BY <2>2, <2>3, <1>a, WallFlows
  <2> QED BY <2>2, <2>4, <1>a
<1>2. ASSUME NEW e \in Entity, TakeDown(e) PROVE WorkerInv' /\ Rest'
  <2>1. e \in Wall /\ Dispose({e}) /\ born' = born \cup {} /\ UNCHANGED <<ready, workerVars>>
    BY <1>2 DEF TakeDown
  <2>2. /\ {e} \in SUBSET Wall /\ {} \in SUBSET (Entity \ born)
        /\ \A m \in {}, f \in (Wall \ {e}) \cup {} : Id(m) = Id(f) => m = f
    BY <2>1
  <2> QED BY <2>1, <2>2, <1>a, WallFlows
<1>3. ASSUME RebuildAll PROVE WorkerInv' /\ Rest'
  <2> DEFINE made == {New(Id(f)) : f \in Wall}
  <2>1. Dispose(Wall) /\ born' = born \cup made /\ UNCHANGED <<ready, workerVars>>
    BY <1>3 DEF RebuildAll
  <2>2. \A f \in Wall : New(Id(f)) \in Entity \ born /\ Id(New(Id(f))) = Id(f)
    BY <1>3, NewIsUnborn DEF RebuildAll
  <2>3. \A n \in made, m \in made : Id(n) = Id(m) => n = m
    <3> SUFFICES ASSUME NEW f \in Wall, NEW g \in Wall, Id(New(Id(f))) = Id(New(Id(g)))
                 PROVE  New(Id(f)) = New(Id(g))
      OBVIOUS
    <3> QED BY <2>2
  <2>4. made \in SUBSET (Entity \ born)
    BY <2>2
  <2> HIDE DEF made
  <2>5. Rest'
    BY <2>1, <2>3, <2>4, <1>a, WallFlows
  <2> QED BY <2>1, <2>5, <1>a
<1>4. ASSUME NEW e \in Entity, TextureLoads(e) PROVE WorkerInv' /\ Rest'
  <2>1. e \in born /\ RequestSurfaceMaps(e) /\ UNCHANGED <<snapVars, born, ready>>
    BY <1>4 DEF TextureLoads, Wall
  <2>2. answer \in [Entity -> [what : Answers, of : Entity]]
    BY <1>0 DEF WorkerInv, AnswersAreRight, WorkerTypeOK
  <2>3. answer' = [answer EXCEPT ![e] = [what |-> "asked", of |-> e]]
    BY <2>1 DEF RequestSurfaceMaps, AskWorker, AskOnPage, Tell
  <2>4. \A f \in Entity : answer'[f].what # "none" => answer[f].what # "none" \/ f \in born
    BY <2>1, <2>2, <2>3
  <2> QED BY <2>1, <2>4, <1>0, RequestKeeps, WorkerFlows
<1>5. ASSUME NEW e \in Entity, SurfaceReady(e) PROVE WorkerInv' /\ Rest'
  <2>1. UNCHANGED workerVars
    BY <1>5 DEF SurfaceReady
  <2> QED BY <2>1, <1>5, <1>a, ScheduleFlows
<1>6. ASSUME WorkerStep, UNCHANGED <<snapVars, born, ready>> PROVE WorkerInv' /\ Rest'
  BY <1>6, <1>0, WorkerKeeps, OnlyTheAskedAreTold, WorkerFlows
<1>7. ASSUME SnapshotStep, UNCHANGED <<workerVars, born, ready>> PROVE WorkerInv' /\ Rest'
  BY <1>7, <1>a, FrameFlows, TimerFlows, CaptureFlows, IdleFlows DEF SnapshotStep
<1>8. ASSUME UNCHANGED vars PROVE WorkerInv' /\ Rest'
  <2>1. UNCHANGED workerVars /\ UNCHANGED <<snapVars, born, ready>>
    BY <1>8 DEF vars
  <2> QED BY <2>1, <1>a, WorkerFlows
<1> QED BY <1>1, <1>2, <1>3, <1>4, <1>5, <1>6, <1>7, <1>8 DEF Next

LEMMA IntakeAlways == Spec => []IntakeInv
<1>1. Init => IntakeInv
  BY WorkerStarts, FlowStarts DEF Init, IntakeInv
<1>2. IntakeInv /\ [Next]_vars => IntakeInv'
  BY IntakeKeeps
<1> QED BY <1>1, <1>2, PTL DEF Spec
------------------------------------------------------------------------------
\* ManifestMapsClient: whatever the worker does, everybody who waits for a surface is
\* waited for at one place, and nobody is given the surface of another drawing.  (Whose
\* maps came and could not be put on canvases waits no more: that one is lost.)
THEOREM EverybodyIsAnswered == Spec => []AnswersAreRight
<1>1. IntakeInv => AnswersAreRight
  BY DEF IntakeInv, WorkerInv
<1> QED BY <1>1, IntakeAlways, PTL

\* ProjectorSnapshotPublisher: between two steps of the page the renderer is the
\* wall's, and a hero frame is whole or was tried three times, whatever its planet's
\* radius and the reach of its parts.
THEOREM CapturesAreClean == Spec => []CaptureIsClean
<1>1. IntakeInv => CaptureIsClean
  BY DEF IntakeInv
<1> QED BY <1>1, IntakeAlways, PTL

\* whenIdle does not answer yes while a planet it knew of is still in one of the two
\* deferrals or in the queue, whatever is taken down, rebuilt or scheduled meanwhile.
THEOREM IdleIsDone == Spec => []IdleMeansDone
<1>1. IntakeInv => IdleMeansDone
  BY DEF IntakeInv, Flow
<1> QED BY <1>1, IntakeAlways, PTL

\* putSnapshot: before each of the three attempts the planet is still on the wall.
THEOREM GoneAreNotUploaded == Spec => NoUploadForTheGone
<1> DEFINE Begins == step' = "uploading" /\ <<step, attempt>>' # <<step, attempt>>
<1>1. IntakeInv /\ [Next]_vars => [Begins => Head(captureQueue) \notin disposed]_snapVars
  <2> SUFFICES ASSUME IntakeInv, [Next]_vars, Begins PROVE Head(captureQueue) \notin disposed
    OBVIOUS
  <2>1. Capture \/ Encoded \/ Uploaded \/ BackoffOver
    <3>1. step' # step \/ attempt' # attempt
      OBVIOUS
    <3>2. ~UNCHANGED snapVars
      BY <3>1 DEF snapVars
    <3>3. ASSUME NEW E, Dispose(E) PROVE FALSE
      BY <3>1, <3>3 DEF Dispose
    <3>4. ASSUME NEW e, Schedule(e) PROVE FALSE
      BY <3>1, <3>4 DEF Schedule
    <3>5. SnapshotStep
      BY <3>2, <3>3, <3>4 DEF Next, vars, Add, TakeDown, RebuildAll, TextureLoads, SurfaceReady
    <3> QED BY <3>1, <3>5 DEF SnapshotStep, Frame, TimerFires, WhenIdle, WhenIdleStep
  <2>2. attempt \in 0..3 /\ MAX_UPLOAD_ATTEMPTS = 3
    BY DEF IntakeInv, CaptureIsClean, SnapshotTypeOK, MAX_UPLOAD_ATTEMPTS
  <2>3. ~Leave /\ ~GoesOn("encoding", 0) /\ ~GoesOn("backoff", attempt)
    BY DEF Leave, GoesOn
  <2>4. CASE Encoded
    BY <2>3, <2>4 DEF Encoded, Fail
  <2>5. CASE BackoffOver
    <3>1. Retry
      BY <2>5 DEF BackoffOver
    <3>2. attempt # 3
      <4>1. ASSUME attempt = 3 PROVE Leave
        BY <2>2, <3>1, <4>1 DEF Retry, Fail
      <4> QED BY <2>3, <4>1
    <3>3. attempt < 3
      BY <2>2, <3>2
    <3> QED BY <2>2, <2>3, <3>1, <3>2, <3>3 DEF Retry
  <2>6. ~Capture /\ ~Uploaded
    BY <2>3 DEF Capture, Uploaded, Fail
  <2> QED BY <2>1, <2>4, <2>5, <2>6
<1> QED BY <1>1, IntakeAlways, PTL DEF Spec, NoUploadForTheGone

------------------------------------------------------------------------------
(* The accents of a picture.                                                *)

\* The sizes of the grid.
LEMMA GridNumbers == /\ GW \in Nat \ {0} /\ GH \in Nat \ {0}
                     /\ CellPixels \in Nat \ {0} /\ Palette \in Nat \ {0} /\ Palette < 30
  BY PictureAssumption

LEMMA GridIsFinite == IsFiniteSet(Cell) /\ Cardinality(Cell) = GW * GH
<1>1. GW \in Nat \ {0} /\ GH \in Nat \ {0}
  BY GridNumbers
<1>2. /\ IsFiniteSet(0..(GW - 1)) /\ Cardinality(0..(GW - 1)) = GW
      /\ IsFiniteSet(0..(GH - 1)) /\ Cardinality(0..(GH - 1)) = GH
  BY <1>1, FS_Interval
<1>. DEFINE A == 0..(GW - 1)
            B == 0..(GH - 1)
<1>3. Cell = A \X B /\ IsFiniteSet(A) /\ IsFiniteSet(B) /\ Cardinality(A) = GW /\ Cardinality(B) = GH
  BY <1>2 DEF Cell
<1>. HIDE DEF A, B
<1>4. IsFiniteSet(A \X B) /\ Cardinality(A \X B) = Cardinality(A) * Cardinality(B)
  BY <1>3, FS_Product
<1>. QED
  BY <1>3, <1>4

\* Columns wrap.
LEMMA Wraps ==
  ASSUME NEW x \in Int
  PROVE  /\ (x + GW) % GW \in 0..(GW - 1)
         /\ x \in 0..(GW - 1) => (x + GW) % GW = x
         /\ x = -1 => (x + GW) % GW = GW - 1
         /\ x = GW => (x + GW) % GW = 0
<1>. DEFINE g == GW
<1>1. g \in Nat \ {0}
  BY GridNumbers
<1>. HIDE DEF g
<1>2. (x + g) % g \in 0..(g - 1)
  BY <1>1
<1>3. x \in 0..(g - 1) => (x + g) % g = x
  BY <1>1
<1>4. (-1 + g) % g = g - 1
  BY <1>1
<1>5. (g + g) % g = 0
  <2>1. 2 * g + 0 = g + g
    BY <1>1
  <2>2. (2 * g + 0) % g = 0
    BY <1>1
  <2>. QED
    BY <2>1, <2>2
<1>. QED
  BY <1>2, <1>3, <1>4, <1>5 DEF g

\* A cell and one beside it.
LEMMA BesideIsMutual ==
  ASSUME NEW c \in Cell, NEW d \in Cell, d \in Box(c, 1, 1)
  PROVE  c \in Box(d, 1, 1)
<1>1. PICK dx \in -1..1, dy \in -1..1 : d = <<(c[1] + dx + GW) % GW, c[2] + dy>>
  BY DEF Box
<1>2. c = <<c[1], c[2]>> /\ c[1] \in 0..(GW - 1) /\ c[2] \in Int /\ GW \in Nat \ {0}
  BY GridNumbers DEF Cell
<1>3. d[1] = (c[1] + dx + GW) % GW /\ d[2] = c[2] + dy
  BY <1>1
<1>4. c[1] + dx \in 0..(GW - 1) \/ c[1] + dx = -1 \/ c[1] + dx = GW
  BY <1>2
<1>5. \E ex \in -1..1 : (d[1] + ex + GW) % GW = c[1]
  <2>1. CASE c[1] + dx \in 0..(GW - 1)
    <3>1. d[1] = c[1] + dx
      BY <1>2, <1>3, <2>1, Wraps
    <3>2. (d[1] + (-dx) + GW) % GW = c[1]
      <4>1. d[1] + (-dx) = c[1]
        BY <1>2, <3>1
      <4>. QED
        BY <1>2, <4>1, Wraps
    <3>. QED
      BY <3>2
  <2>2. CASE c[1] + dx = -1
    <3>1. d[1] = GW - 1 /\ c[1] = 0
      BY <1>2, <1>3, <2>2, Wraps
    <3>2. (d[1] + 1 + GW) % GW = 0
      <4>1. d[1] + 1 = GW
        BY <1>2, <3>1
      <4>. QED
        BY <1>2, <4>1, Wraps
    <3>. QED
      BY <3>1, <3>2
  <2>3. CASE c[1] + dx = GW
    <3>1. d[1] = 0 /\ c[1] = GW - 1
      BY <1>2, <1>3, <2>3, Wraps
    <3>2. (d[1] + (-1) + GW) % GW = GW - 1
      <4>1. d[1] + (-1) = -1
        BY <3>1
      <4>. QED
        BY <1>2, <4>1, Wraps
    <3>. QED
      BY <3>1, <3>2
  <2>. QED
    BY <1>4, <2>1, <2>2, <2>3
<1>6. PICK ex \in -1..1 : (d[1] + ex + GW) % GW = c[1]
  BY <1>5
<1>7. c[2] = d[2] + (-dy) /\ -dy \in -1..1
  BY <1>2, <1>3
<1>8. c = <<(d[1] + ex + GW) % GW, d[2] + (-dy)>>
  BY <1>2, <1>6, <1>7
<1>. QED
  BY <1>7, <1>8 DEF Box

\* A box holds its cell, and a smaller box.
LEMMA BoxHolds ==
  ASSUME NEW c \in Cell, NEW rx \in Nat, NEW ry \in Nat
  PROVE  /\ c \in Box(c, rx, ry)
         /\ \A sx \in 0..rx, sy \in 0..ry : Box(c, sx, sy) \subseteq Box(c, rx, ry)
         /\ \A d \in Box(c, rx, ry) : d[1] \in 0..(GW - 1) /\ d = <<d[1], d[2]>> /\ d[2] \in (c[2] - ry)..(c[2] + ry)
<1>1. c = <<c[1], c[2]>> /\ c[1] \in 0..(GW - 1) /\ c[2] \in Int /\ GW \in Nat \ {0}
  BY GridNumbers DEF Cell
<1>2. c \in Box(c, rx, ry)
  <2>1. c = <<(c[1] + 0 + GW) % GW, c[2] + 0>>
    <3>1. c[1] + 0 = c[1] /\ c[2] + 0 = c[2]
      BY <1>1
    <3>. QED
      BY <1>1, <3>1, Wraps
  <2>2. 0 \in -rx..rx /\ 0 \in -ry..ry
    OBVIOUS
  <2>. QED
    BY <2>1, <2>2 DEF Box
<1>3. ASSUME NEW sx \in 0..rx, NEW sy \in 0..ry PROVE Box(c, sx, sy) \subseteq Box(c, rx, ry)
  <2>1. -sx..sx \subseteq -rx..rx /\ -sy..sy \subseteq -ry..ry
    OBVIOUS
  <2>. QED
    BY <2>1 DEF Box
<1>4. ASSUME NEW d \in Box(c, rx, ry)
      PROVE  d[1] \in 0..(GW - 1) /\ d = <<d[1], d[2]>> /\ d[2] \in (c[2] - ry)..(c[2] + ry)
  <2>1. PICK dx \in -rx..rx, dy \in -ry..ry : d = <<(c[1] + dx + GW) % GW, c[2] + dy>>
    BY DEF Box
  <2>2. (c[1] + dx + GW) % GW \in 0..(GW - 1)
    BY <1>1, Wraps
  <2>3. c[2] + dy \in (c[2] - ry)..(c[2] + ry)
    BY <1>1
  <2>. QED
    BY <2>1, <2>2, <2>3
<1>. QED
  BY <1>2, <1>3, <1>4

\* Dilation grows a mask, erosion shrinks it, and dilation keeps what is part of what.
LEMMA MasksStayMasks ==
  ASSUME NEW mask, NEW rx \in Nat, NEW ry \in Nat
  PROVE  /\ Dilate(mask, rx, ry) \subseteq Cell
         /\ Erode(mask, rx, ry) \subseteq mask
         /\ mask \subseteq Cell => mask \subseteq Dilate(mask, rx, ry)
         /\ \A part \in SUBSET mask : Dilate(part, rx, ry) \subseteq Dilate(mask, rx, ry)
<1>1. ASSUME mask \subseteq Cell, NEW c \in mask PROVE c \in Dilate(mask, rx, ry)
  <2>1. c \in Cell /\ c \in Box(c, rx, ry)
    BY <1>1, BoxHolds
  <2>. QED
    BY <2>1 DEF Dilate
<1>. QED
  BY <1>1 DEF Dilate, Erode

\* Closing keeps all ink but that of the rows at the poles.
LEMMA ClosedKeepsInk ==
  ASSUME NEW mask \in SUBSET Cell, NEW c \in mask, c[2] \in 1..(GH - 2)
  PROVE  c \in Closed(mask)
<1>. DEFINE wide == Dilate(mask, 2, 1)
<1>1. c \in Cell
  OBVIOUS
<1>2. Box(c, 1, 1) \subseteq Box(c, 2, 1)
  <2>1. \A sx \in 0..2, sy \in 0..1 : Box(c, sx, sy) \subseteq Box(c, 2, 1)
    BY <1>1, BoxHolds
  <2>. QED
    BY <2>1
<1>3. Box(c, 1, 1) \subseteq Cell
  <2>1. ASSUME NEW d \in Box(c, 1, 1) PROVE d \in Cell
    <3>1. d[1] \in 0..(GW - 1) /\ d = <<d[1], d[2]>> /\ d[2] \in (c[2] - 1)..(c[2] + 1)
      BY <1>1, BoxHolds
    <3>2. d[2] \in 0..(GH - 1)
      BY <3>1, GridNumbers
    <3>. QED
      BY <3>1, <3>2 DEF Cell
  <2>. QED
    BY <2>1
<1>4. Box(c, 1, 1) \subseteq wide
  BY <1>2, <1>3 DEF Dilate
<1>5. c \in wide
  BY <1>1, <1>4, BoxHolds
<1>6. c \in Erode(wide, 1, 1)
  BY <1>4, <1>5 DEF Erode
<1>7. Erode(wide, 1, 1) \subseteq Cell
  BY DEF Dilate, Erode
<1>. QED
  BY <1>6, <1>7, MasksStayMasks DEF Closed
------------------------------------------------------------------------------
(* The shapes of a mask. *)

\* No cell of the mask beside a closed part is outside it.
More(mask, part) == mask \cap UNION {Neighbours(c) : c \in part}
Whole(mask) == {q \in SUBSET mask : More(mask, q) = q}
Closure(mask, part) == {c \in mask : \A q \in Whole(mask) : part \subseteq q => c \in q}

LEMMA MoreGrows ==
  ASSUME NEW mask \in SUBSET Cell, NEW part \in SUBSET mask
  PROVE  /\ part \subseteq More(mask, part) /\ More(mask, part) \subseteq mask
         /\ \A q \in SUBSET mask : part \subseteq q => More(mask, part) \subseteq More(mask, q)
<1>1. \A c \in part : c \in Neighbours(c)
  BY BoxHolds DEF Neighbours
<1>. QED
  BY <1>1 DEF More

\* The closure is whole, and the least part that is.
LEMMA ClosureIsWhole ==
  ASSUME NEW mask \in SUBSET Cell, NEW part \in SUBSET mask
  PROVE  /\ Closure(mask, part) \in Whole(mask) /\ part \subseteq Closure(mask, part)
         /\ \A q \in Whole(mask) : part \subseteq q => Closure(mask, part) \subseteq q
         /\ Closure(mask, More(mask, part)) = Closure(mask, part)
         /\ More(mask, part) = part => Closure(mask, part) = part
<1>. DEFINE cl == Closure(mask, part)
<1>1. cl \in SUBSET mask /\ part \subseteq cl
  BY DEF Closure
<1>2. \A q \in Whole(mask) : part \subseteq q => cl \subseteq q
  BY DEF Closure
<1>3. More(mask, cl) \subseteq cl
  <2>1. ASSUME NEW c \in More(mask, cl), NEW q \in Whole(mask), part \subseteq q
        PROVE  c \in q
    <3>1. cl \subseteq q /\ q \in SUBSET mask /\ More(mask, q) = q
      BY <1>2, <2>1 DEF Whole
    <3>. HIDE DEF cl
    <3>2. More(mask, cl) \subseteq More(mask, q)
      BY <1>1, <3>1, MoreGrows
    <3>. QED
      BY <2>1, <3>1, <3>2
  <2>2. More(mask, cl) \subseteq mask
    BY DEF More
  <2>. QED
    BY <2>1, <2>2 DEF Closure
<1>4. cl \in Whole(mask)
  <2>. HIDE DEF cl
  <2>1. cl \subseteq More(mask, cl)
    BY <1>1, MoreGrows
  <2>. QED
    BY <1>1, <1>3, <2>1 DEF Whole
<1>5. \A q \in Whole(mask) : part \subseteq q <=> More(mask, part) \subseteq q
  <2>1. ASSUME NEW q \in Whole(mask) PROVE part \subseteq q <=> More(mask, part) \subseteq q
    <3>1. q \in SUBSET mask /\ More(mask, q) = q
      BY DEF Whole
    <3>. QED
      BY <3>1, MoreGrows
  <2>. QED
    BY <2>1
<1>6. Closure(mask, More(mask, part)) = cl
  BY <1>5 DEF Closure
<1>7. More(mask, part) = part => cl \subseteq part
  <2>1. More(mask, part) = part => part \in Whole(mask)
    BY DEF Whole
  <2>. QED
    BY <1>2, <2>1
<1>. QED
  BY <1>1, <1>2, <1>4, <1>6, <1>7

\* What is left of a mask by a whole part is whole.
LEMMA RestIsWhole ==
  ASSUME NEW mask \in SUBSET Cell, NEW q \in Whole(mask)
  PROVE  mask \ q \in Whole(mask)
<1>. DEFINE rest == mask \ q
<1>1. q \in SUBSET mask /\ More(mask, q) = q
  BY DEF Whole
<1>2. rest \in SUBSET mask
  OBVIOUS
<1>3. rest \subseteq More(mask, rest)
  BY <1>2, MoreGrows
<1>4. ASSUME NEW d \in More(mask, rest) PROVE d \notin q
  <2>1. PICK c \in rest : d \in Neighbours(c)
    BY DEF More
  <2>2. d \in Cell /\ c \in Cell /\ c \in mask /\ d \in Box(c, 1, 1)
    BY <2>1 DEF Neighbours
  <2>3. c \in Neighbours(d)
    BY <2>2, BesideIsMutual DEF Neighbours
  <2>4. d \in q => c \in More(mask, q)
    BY <2>2, <2>3 DEF More
  <2>. QED
    BY <1>1, <2>1, <2>4
<1>5. More(mask, rest) \subseteq mask
  BY DEF More
<1>. QED
  BY <1>2, <1>3, <1>4, <1>5 DEF Whole

\* Parts of one mask that grew from one cell each are the same, or apart.
LEMMA PartsAreApart ==
  ASSUME NEW mask \in SUBSET Cell, NEW c \in mask, NEW d \in mask
  PROVE  /\ d \in Closure(mask, {c}) => Closure(mask, {d}) = Closure(mask, {c})
         /\ Closure(mask, {c}) # Closure(mask, {d}) => Closure(mask, {c}) \cap Closure(mask, {d}) = {}
<1>. DEFINE cl(x) == Closure(mask, {x})
<1>1. ASSUME NEW x \in mask
      PROVE  cl(x) \in Whole(mask) /\ x \in cl(x) /\ \A q \in Whole(mask) : x \in q => cl(x) \subseteq q
  <2>1. {x} \in SUBSET mask
    OBVIOUS
  <2>2. /\ Closure(mask, {x}) \in Whole(mask) /\ {x} \subseteq Closure(mask, {x})
        /\ \A q \in Whole(mask) : {x} \subseteq q => Closure(mask, {x}) \subseteq q
    BY <2>1, ClosureIsWhole
  <2>. QED
    BY <2>2
<1>2. \A q \in Whole(mask) : mask \ q \in Whole(mask)
  BY RestIsWhole
<1>3. \A q \in Whole(mask) : q \subseteq mask
  BY DEF Whole
<1>. HIDE DEF cl
<1>4. ASSUME NEW x \in mask, NEW y \in cl(x) PROVE cl(y) = cl(x)
  <2>1. y \in mask /\ cl(y) \subseteq cl(x) /\ y \in cl(y)
    BY <1>1, <1>3
  <2>2. CASE x \notin cl(y)
    <3>1. mask \ cl(y) \in Whole(mask) /\ x \in mask \ cl(y)
      BY <1>1, <1>2, <2>1, <2>2
    <3>2. cl(x) \subseteq mask \ cl(y)
      BY <1>1, <3>1
    <3>. QED
      BY <1>4, <2>1, <3>2
  <2>3. CASE x \in cl(y)
    BY <1>1, <2>1, <2>3
  <2>. QED
    BY <2>2, <2>3
<1>5. ASSUME NEW e \in cl(c) \cap cl(d) PROVE cl(c) = cl(d)
  BY <1>4
<1>. QED
  BY <1>4, <1>5 DEF cl

\* The function grow, by its equation and in one go.
GrowEq(mask, g) ==
    g = [part \in SUBSET mask |-> IF More(mask, part) = part THEN part ELSE g[More(mask, part)]]
SplitEq(mask, g, s) ==
    s = [rest \in SUBSET mask |->
            IF rest = {} THEN {}
            ELSE {g[{CHOOSE c \in rest : TRUE}]} \cup s[rest \ g[{CHOOSE c \in rest : TRUE}]]]
Grown(mask) == [part \in SUBSET mask |-> Closure(mask, part)]
Parts(mask, rest) == {Closure(mask, {c}) : c \in rest}

LEMMA GrowExists ==
  ASSUME NEW mask \in SUBSET Cell
  PROVE  GrowEq(mask, Grown(mask))
<1>1. ASSUME NEW part \in SUBSET mask
      PROVE  Closure(mask, part) = IF More(mask, part) = part THEN part ELSE Grown(mask)[More(mask, part)]
  <2>1. More(mask, part) \in SUBSET mask
    BY MoreGrows
  <2>2. Grown(mask)[More(mask, part)] = Closure(mask, part)
    BY <2>1, ClosureIsWhole DEF Grown
  <2>. QED
    BY <2>2, ClosureIsWhole
<1>. QED
  BY <1>1 DEF GrowEq, Grown

LEMMA GrowIsUnique ==
  ASSUME NEW mask \in SUBSET Cell, NEW g, GrowEq(mask, g)
  PROVE  g = Grown(mask)
<1>1. /\ g = [part \in SUBSET mask |-> g[part]]
      /\ \A part \in SUBSET mask : g[part] = IF More(mask, part) = part THEN part ELSE g[More(mask, part)]
  BY DEF GrowEq
<1>2. \A part \in SUBSET mask : IsFiniteSet(mask \ part) /\ Cardinality(mask \ part) \in Nat
  <2>1. IsFiniteSet(mask)
    BY GridIsFinite, FS_Subset
  <2>2. \A part \in SUBSET mask : IsFiniteSet(mask \ part)
    BY <2>1, FS_Subset
  <2>. QED
    BY <2>2, FS_CardinalityType
<1>. DEFINE T == {n \in Nat : \A part \in SUBSET mask :
                                Cardinality(mask \ part) <= n => g[part] = Closure(mask, part)}
<1>3. ASSUME NEW part \in SUBSET mask, More(mask, part) = part
      PROVE  g[part] = Closure(mask, part)
  BY <1>1, <1>3, ClosureIsWhole
<1>4. ASSUME NEW part \in SUBSET mask, More(mask, part) # part
      PROVE  /\ More(mask, part) \in SUBSET mask
             /\ Cardinality(mask \ More(mask, part)) < Cardinality(mask \ part)
             /\ g[part] = g[More(mask, part)]
             /\ Closure(mask, part) = Closure(mask, More(mask, part))
  <2>. DEFINE more == More(mask, part)
  <2>1. more \in SUBSET mask /\ part \subseteq more /\ more # part
    BY <1>4, MoreGrows
  <2>2. g[part] = g[more] /\ Closure(mask, part) = Closure(mask, more)
    BY <1>1, <1>4, ClosureIsWhole
  <2>. HIDE DEF more
  <2>3. PICK c \in more : c \notin part
    BY <2>1
  <2>4. mask \ more \in SUBSET ((mask \ part) \ {c}) /\ c \in mask \ part
    BY <2>1, <2>3
  <2>. DEFINE out == mask \ part
              less == mask \ more
  <2>5. IsFiniteSet(out) /\ Cardinality(out) \in Nat /\ Cardinality(less) \in Nat
    BY <1>2, <2>1
  <2>. HIDE DEF out, less
  <2>6. IsFiniteSet(out \ {c}) /\ Cardinality(out \ {c}) = Cardinality(out) - 1
    <3>1. c \in out
      BY <2>4 DEF out
    <3>. QED
      BY <2>5, <3>1, FS_RemoveElement
  <2>7. Cardinality(less) <= Cardinality(out \ {c})
    BY <2>4, <2>6, FS_Subset DEF out, less
  <2>8. Cardinality(less) < Cardinality(out)
    BY <2>5, <2>6, <2>7
  <2>. QED
    BY <2>1, <2>2, <2>8 DEF more, out, less
<1>5. 0 \in T
  <2>1. ASSUME NEW part \in SUBSET mask, Cardinality(mask \ part) <= 0
        PROVE  g[part] = Closure(mask, part)
    <3>1. CASE More(mask, part) # part
      <4>1. More(mask, part) \in SUBSET mask /\ Cardinality(mask \ More(mask, part)) < Cardinality(mask \ part)
        BY <1>4, <3>1
      <4>2. Cardinality(mask \ More(mask, part)) \in Nat /\ Cardinality(mask \ part) \in Nat
        BY <1>2, <4>1
      <4>. QED
        BY <2>1, <4>1, <4>2
    <3>. QED
      BY <1>3, <3>1
  <2>. QED
    BY <2>1
<1>6. ASSUME NEW n \in Nat, n \in T PROVE n + 1 \in T
  <2>1. ASSUME NEW part \in SUBSET mask, Cardinality(mask \ part) <= n + 1
        PROVE  g[part] = Closure(mask, part)
    <3>1. CASE More(mask, part) = part
      BY <1>3, <3>1
    <3>2. CASE More(mask, part) # part
      <4>. DEFINE a == Cardinality(mask \ More(mask, part))
                  b == Cardinality(mask \ part)
      <4>0. a < b /\ More(mask, part) \in SUBSET mask
        BY <1>4, <3>2
      <4>a. a \in Nat /\ b \in Nat /\ b <= n + 1
        BY <1>2, <2>1, <4>0
      <4>1. a <= n
        <5>. HIDE DEF a, b
        <5>. QED
          BY <4>0, <4>a
      <4>2. g[More(mask, part)] = Closure(mask, More(mask, part))
        BY <1>4, <1>6, <3>2, <4>1
      <4>. QED
        BY <1>4, <3>2, <4>2
    <3>. QED
      BY <3>1, <3>2
  <2>2. \A part \in SUBSET mask : Cardinality(mask \ part) <= n + 1 => g[part] = Closure(mask, part)
    BY <2>1
  <2>3. n + 1 \in Nat
    OBVIOUS
  <2>. QED
    BY <2>2, <2>3, Zenon
<1>. HIDE DEF T
<1>7. Nat \subseteq T
  BY <1>5, <1>6, SetInduction
<1>8. ASSUME NEW part \in SUBSET mask PROVE g[part] = Closure(mask, part)
  <2>1. Cardinality(mask \ part) \in T
    BY <1>2, <1>7
  <2>. QED
    BY <1>2, <2>1 DEF T
<1>. QED
  BY <1>1, <1>8 DEF Grown

LEMMA SplitExists ==
  ASSUME NEW mask \in SUBSET Cell
  PROVE  SplitEq(mask, Grown(mask), [rest \in SUBSET mask |-> Parts(mask, rest)])
<1>. DEFINE s == [rest \in SUBSET mask |-> Parts(mask, rest)]
<1>1. ASSUME NEW rest \in SUBSET mask, rest # {}, NEW c \in rest
      PROVE  Parts(mask, rest) = {Grown(mask)[{c}]} \cup s[rest \ Grown(mask)[{c}]]
  <2>1. Grown(mask)[{c}] = Closure(mask, {c})
    BY DEF Grown
  <2>2. \A d \in rest : d \in Closure(mask, {c}) => Closure(mask, {d}) = Closure(mask, {c})
    BY PartsAreApart
  <2>3. Parts(mask, rest) = {Closure(mask, {c})} \cup Parts(mask, rest \ Closure(mask, {c}))
    BY <2>2 DEF Parts
  <2>4. rest \ Closure(mask, {c}) \in SUBSET mask
    OBVIOUS
  <2>. QED
    BY <2>1, <2>3, <2>4
<1>2. \A rest \in SUBSET mask : rest # {} => (CHOOSE c \in rest : TRUE) \in rest
  OBVIOUS
<1>3. Parts(mask, {}) = {}
  BY DEF Parts
<1>4. ASSUME NEW rest \in SUBSET mask
      PROVE  s[rest] = IF rest = {} THEN {}
                       ELSE {Grown(mask)[{CHOOSE c \in rest : TRUE}]}
                                \cup s[rest \ Grown(mask)[{CHOOSE c \in rest : TRUE}]]
  BY <1>1, <1>2, <1>3
<1>. QED
  BY <1>4, Zenon DEF SplitEq

LEMMA SplitIsUnique ==
  ASSUME NEW mask \in SUBSET Cell, NEW s, SplitEq(mask, Grown(mask), s)
  PROVE  s[mask] = Parts(mask, mask)
<1>. DEFINE first(rest) == CHOOSE c \in rest : TRUE
            rem(rest) == rest \ Closure(mask, {first(rest)})
<1>1. ASSUME NEW rest \in SUBSET mask, rest # {}
      PROVE  /\ first(rest) \in rest /\ rem(rest) \in SUBSET mask /\ first(rest) \notin rem(rest)
             /\ s[rest] = {Closure(mask, {first(rest)})} \cup s[rem(rest)]
             /\ Parts(mask, rest) = {Closure(mask, {first(rest)})} \cup Parts(mask, rem(rest))
  <2>1. first(rest) \in rest
    BY <1>1
  <2>2. {first(rest)} \in SUBSET mask
    BY <2>1
  <2>3. Grown(mask)[{first(rest)}] = Closure(mask, {first(rest)})
    BY <2>2 DEF Grown
  <2>4. s[rest] = {Closure(mask, {first(rest)})} \cup s[rem(rest)]
    <3>1. s[rest] = IF rest = {} THEN {}
                    ELSE {Grown(mask)[{first(rest)}]} \cup s[rest \ Grown(mask)[{first(rest)}]]
      BY DEF SplitEq
    <3>. QED
      BY <1>1, <2>3, <3>1
  <2>5. first(rest) \in Closure(mask, {first(rest)})
    BY <2>2, ClosureIsWhole
  <2>6. \A d \in rest : d \in Closure(mask, {first(rest)}) => Closure(mask, {d}) = Closure(mask, {first(rest)})
    BY <2>1, PartsAreApart
  <2>7. Parts(mask, rest) = {Closure(mask, {first(rest)})} \cup Parts(mask, rem(rest))
    <3>. DEFINE c == first(rest)
    <3>. HIDE DEF first
    <3>. QED
      BY <2>1, <2>6 DEF Parts
  <2>. QED
    BY <2>1, <2>4, <2>5, <2>7
<1>. HIDE DEF first, rem
<1>2. s[{}] = {} /\ Parts(mask, {}) = {}
  BY DEF SplitEq, Parts
<1>3. \A rest \in SUBSET mask : IsFiniteSet(rest) /\ Cardinality(rest) \in Nat
  BY GridIsFinite, FS_Subset, FS_CardinalityType
<1>. DEFINE T == {n \in Nat : \A rest \in SUBSET mask : Cardinality(rest) <= n => s[rest] = Parts(mask, rest)}
<1>4. ASSUME NEW rest \in SUBSET mask, rest # {} PROVE Cardinality(rem(rest)) < Cardinality(rest)
  <2>1. rem(rest) \in SUBSET (rest \ {first(rest)}) /\ first(rest) \in rest
    <3>1. first(rest) \in rest /\ first(rest) \notin rem(rest)
      BY <1>1, <1>4
    <3>2. rem(rest) \subseteq rest
      BY DEF rem
    <3>. QED
      BY <3>1, <3>2
  <2>2. IsFiniteSet(rest \ {first(rest)}) /\ Cardinality(rest \ {first(rest)}) = Cardinality(rest) - 1
    BY <1>3, <2>1, FS_RemoveElement
  <2>3. Cardinality(rem(rest)) <= Cardinality(rest \ {first(rest)}) /\ Cardinality(rem(rest)) \in Nat
    BY <1>3, <1>1, <1>4, <2>1, <2>2, FS_Subset
  <2>. QED
    BY <1>3, <2>2, <2>3
<1>5. 0 \in T
  <2>1. ASSUME NEW rest \in SUBSET mask, Cardinality(rest) <= 0 PROVE s[rest] = Parts(mask, rest)
    <3>1. rest = {}
      <4>1. Cardinality(rest) = 0
        BY <1>3, <2>1
      <4>. QED
        BY <1>3, <4>1, FS_EmptySet
    <3>. QED
      BY <1>2, <3>1
  <2>. QED
    BY <2>1
<1>6. ASSUME NEW n \in Nat, n \in T PROVE n + 1 \in T
  <2>1. ASSUME NEW rest \in SUBSET mask, Cardinality(rest) <= n + 1 PROVE s[rest] = Parts(mask, rest)
    <3>1. CASE rest = {}
      BY <1>2, <3>1
    <3>2. CASE rest # {}
      <4>0. rem(rest) \in SUBSET mask /\ Cardinality(rem(rest)) < Cardinality(rest)
        BY <1>1, <1>4, <3>2
      <4>1. Cardinality(rem(rest)) <= n /\ rem(rest) \in SUBSET mask
        <5>1. Cardinality(rem(rest)) \in Nat /\ Cardinality(rest) \in Nat
          BY <1>3, <4>0
        <5>. QED
          BY <2>1, <4>0, <5>1
      <4>2. s[rem(rest)] = Parts(mask, rem(rest))
        BY <1>6, <4>1
      <4>3. s[rest] = {Closure(mask, {first(rest)})} \cup s[rem(rest)]
        BY <1>1, <3>2
      <4>4. Parts(mask, rest) = {Closure(mask, {first(rest)})} \cup Parts(mask, rem(rest))
        BY <1>1, <3>2
      <4>. QED
        BY <4>2, <4>3, <4>4
    <3>. QED
      BY <3>1, <3>2
  <2>. QED
    BY <2>1
<1>. HIDE DEF T
<1>7. Nat \subseteq T
  BY <1>5, <1>6, SetInduction
<1>8. Cardinality(mask) \in T /\ Cardinality(mask) \in Nat
  BY <1>3, <1>7
<1>. QED
  BY <1>8 DEF T

\* The shapes of a mask are what its cells grow to.
LEMMA ComponentsAre ==
  ASSUME NEW mask \in SUBSET Cell
  PROVE  ComponentsFor(mask) = Parts(mask, mask)
<1>. DEFINE g == CHOOSE f : GrowEq(mask, f)
            s == CHOOSE f : SplitEq(mask, g, f)
<1>1. GrowEq(mask, g)
  BY GrowExists
<1>2. g = Grown(mask)
  BY <1>1, GrowIsUnique
<1>. HIDE DEF g
<1>3. SplitEq(mask, g, s)
  BY <1>2, SplitExists
<1>4. s[mask] = Parts(mask, mask)
  <2>. HIDE DEF s
  <2>. QED
    BY <1>2, <1>3, SplitIsUnique
<1>5. ComponentsFor(mask) = s[mask]
  BY DEF ComponentsFor, SplitEq, GrowEq, More, g
<1>. QED
  BY <1>4, <1>5

\* A strict total order of a set, as a set of pairs.
Orders(R, U) ==
    /\ \A x \in U : <<x, x>> \notin R
    /\ \A x, y, z \in U : <<x, y>> \in R /\ <<y, z>> \in R => <<x, z>> \in R
    /\ \A x, y \in U : x # y => <<x, y>> \in R \/ <<y, x>> \in R

\* The list of a finite set in an order of it has every element once, in that order.
LEMMA ListedRanks ==
  ASSUME NEW U, IsFiniteSet(U), NEW R, Orders(R, U)
  PROVE  LET s == Listed(U, R) IN
         /\ s \in Seq(U) /\ Len(s) = Cardinality(U) /\ DOMAIN s = 1..Cardinality(U)
         /\ \A i, j \in 1..Cardinality(U) : i < j => <<s[i], s[j]>> \in R
         /\ \A i, j \in 1..Cardinality(U) : s[i] = s[j] => i = j
         /\ \A x \in U : \E i \in 1..Cardinality(U) : s[i] = x
<1>. DEFINE n == Cardinality(U)
            Less(x) == {y \in U : <<y, x>> \in R}
            rank == [x \in U |-> Cardinality(Less(x))]
            s == Listed(U, R)
<1>1. n \in Nat
  BY FS_CardinalityType
<1>2. ASSUME NEW x \in U PROVE IsFiniteSet(Less(x)) /\ Cardinality(Less(x)) \in Nat /\ x \notin Less(x)
  <2>1. Less(x) \in SUBSET U
    OBVIOUS
  <2>2. IsFiniteSet(Less(x))
    BY <2>1, FS_Subset
  <2>. QED
    BY <2>2, FS_CardinalityType DEF Orders
<1>3. ASSUME NEW x \in U, NEW y \in U, <<x, y>> \in R PROVE rank[x] < rank[y]
  <2>1. Less(x) \in SUBSET (Less(y) \ {x}) /\ x \in Less(y)
    BY <1>3 DEF Orders
  <2>. DEFINE a == Less(x)
              b == Less(y)
  <2>2. IsFiniteSet(b) /\ Cardinality(b) \in Nat /\ Cardinality(a) \in Nat /\ a \in SUBSET (b \ {x}) /\ x \in b
    BY <1>2, <2>1
  <2>. HIDE DEF a, b
  <2>3. IsFiniteSet(b \ {x}) /\ Cardinality(b \ {x}) = Cardinality(b) - 1
    BY <2>2, FS_RemoveElement
  <2>4. Cardinality(a) <= Cardinality(b \ {x})
    BY <2>2, <2>3, FS_Subset
  <2>5. Cardinality(a) < Cardinality(b)
    BY <2>2, <2>3, <2>4
  <2>. QED
    BY <2>5 DEF a, b
<1>4. ASSUME NEW x \in U PROVE rank[x] \in 0..(n - 1)
  <2>. DEFINE a == Less(x)
  <2>1. a \in SUBSET (U \ {x}) /\ Cardinality(a) \in Nat
    BY <1>2
  <2>. HIDE DEF a
  <2>2. IsFiniteSet(U \ {x}) /\ Cardinality(U \ {x}) = n - 1
    BY FS_RemoveElement
  <2>3. Cardinality(a) <= n - 1
    BY <2>1, <2>2, FS_Subset
  <2>4. Cardinality(a) \in 0..(n - 1)
    BY <1>1, <2>1, <2>3
  <2>. QED
    BY <2>4 DEF a
<1>. HIDE DEF Less
<1>5. ASSUME NEW x \in U, NEW y \in U, rank[x] = rank[y] PROVE x = y
  <2>1. <<x, y>> \in R \/ <<y, x>> \in R \/ x = y
    BY DEF Orders
  <2>2. rank[x] \in Int /\ rank[y] \in Int
    BY <1>4
  <2>. HIDE DEF rank
  <2>. QED
    BY <1>3, <1>5, <2>1, <2>2
<1>6. \A k \in 0..(n - 1) : \E x \in U : rank[x] = k
  <2>1. rank \in Injection(U, 0..(n - 1))
    <3>1. rank \in [U -> 0..(n - 1)]
      <4>1. \A x \in U : rank[x] \in 0..(n - 1)
        BY <1>4
      <4>. QED
        BY <4>1
    <3>. HIDE DEF rank
    <3>. QED
      BY <1>5, <3>1 DEF Injection, IsInjective
  <2>2. IsFiniteSet(0..(n - 1)) /\ Cardinality(0..(n - 1)) = n
    BY <1>1, FS_Interval
  <2>. HIDE DEF rank, n
  <2>3. rank \in Surjection(U, 0..(n - 1))
    BY <2>1, <2>2, FS_Injection DEF n
  <2>. QED
    BY <2>3 DEF Surjection
<1>7. \A i \in 1..n : s[i] = CHOOSE x \in U : rank[x] = i - 1
  <2>1. ASSUME NEW i \in 1..n PROVE s[i] = CHOOSE x \in U : rank[x] = i - 1
    <3>1. s[i] = CHOOSE x \in U : Cardinality(Less(x)) = i - 1
      BY Zenon DEF Listed, Less
    <3>2. \A x \in U : rank[x] = Cardinality(Less(x))
      OBVIOUS
    <3>. HIDE DEF s, rank
    <3>. QED
      BY <3>1, <3>2
  <2>. QED
    BY <2>1
<1>72. s = [i \in 1..n |-> s[i]]
  <2>. DEFINE E(i) == CHOOSE x \in U : Cardinality(Less(x)) = i - 1
  <2>1. s = [i \in 1..n |-> E(i)]
    BY Zenon DEF Listed, Less
  <2>. HIDE DEF s, E
  <2>. QED
    BY <2>1
<1>8. ASSUME NEW i \in 1..n PROVE s[i] \in U /\ rank[s[i]] = i - 1
  <2>1. i - 1 \in 0..(n - 1)
    BY <1>1
  <2>2. \E x \in U : rank[x] = i - 1
    BY <1>6, <2>1
  <2>3. s[i] = CHOOSE x \in U : rank[x] = i - 1
    BY <1>7
  <2>. HIDE DEF s, rank
  <2>. QED
    BY <2>2, <2>3
<1>. HIDE DEF s, rank
<1>9. s \in Seq(U) /\ Len(s) = n /\ DOMAIN s = 1..n
  <2>1. s \in [1..n -> U]
    BY <1>8, <1>72
  <2>. QED
    BY <1>1, <2>1
<1>10. ASSUME NEW i \in 1..n, NEW j \in 1..n, i < j PROVE <<s[i], s[j]>> \in R
  <2>1. s[i] \in U /\ s[j] \in U /\ rank[s[i]] = i - 1 /\ rank[s[j]] = j - 1
    BY <1>8
  <2>2. s[i] # s[j]
    BY <1>1, <1>10, <2>1
  <2>3. ~(<<s[j], s[i]>> \in R)
    BY <1>1, <1>3, <1>10, <2>1
  <2>. QED
    BY <2>1, <2>2, <2>3 DEF Orders
<1>11. ASSUME NEW i \in 1..n, NEW j \in 1..n, s[i] = s[j] PROVE i = j
  <2>1. i - 1 = j - 1
    BY <1>8, <1>11
  <2>. QED
    BY <1>1, <2>1
<1>12. ASSUME NEW x \in U PROVE \E i \in 1..n : s[i] = x
  <2>1. rank[x] \in 0..(n - 1)
    BY <1>4
  <2>. DEFINE k == rank[x] + 1
  <2>3. k \in 1..n /\ k - 1 = rank[x]
    BY <1>1, <2>1
  <2>. HIDE DEF k
  <2>4. s[k] \in U /\ rank[s[k]] = k - 1
    BY <1>8, <2>3, Zenon
  <2>. QED
    BY <1>5, <2>3, <2>4
<1>. QED
  BY <1>9, <1>10, <1>11, <1>12 DEF s, n

LEMMA SumsExist ==
  ASSUME NEW n \in Nat, NEW stride \in [1..n -> [Nat -> Nat]]
  PROVE  \E h \in [0..n -> Nat] : h[0] = 0 /\ \A i \in 1..n : h[i] = stride[i][h[i - 1]]
<1>. DEFINE D == Nat
            base == 0
            st == stride
            m == n
<1>1. m \in Nat /\ base \in D /\ st \in [1..m -> [D -> D]]
  OBVIOUS
<1>. HIDE DEF D, base, st, m
<1>2. \E h \in [0..m -> D] : h[0] = base /\ \A i \in 1..m : h[i] = st[i][h[i - 1]]
  BY <1>1, RecursionExists, SMTT(60)
<1>. QED
  BY <1>2, Zenon DEF D, base, st, m

\* A sum goes through its list once.
LEMMA TotalWalks ==
  ASSUME NEW n \in Nat, NEW f \in [1..n -> Nat]
  PROVE  \E u \in [0..n -> Nat] :
            Total(f) = u[n] /\ u[0] = 0 /\ \A i \in 1..n : u[i] = u[i - 1] + f[i]
<1>. DEFINE stride == [i \in 1..n |-> [x \in Nat |-> x + f[i]]]
            F(u) == [i \in 0..Len(f) |-> IF i = 0 THEN 0 ELSE u[i - 1] + f[i]]
            u == CHOOSE v : v = F(v)
<1>1. Len(f) = n
  OBVIOUS
<1>2. stride \in [1..n -> [Nat -> Nat]]
  OBVIOUS
<1>. HIDE DEF stride
<1>3. PICK h \in [0..n -> Nat] : h[0] = 0 /\ \A i \in 1..n : h[i] = stride[i][h[i - 1]]
  BY <1>2, SumsExist
<1>4. \A i \in 1..n : h[i] = h[i - 1] + f[i]
  <2>1. ASSUME NEW i \in 1..n PROVE h[i] = h[i - 1] + f[i]
    <3>1. h[i - 1] \in Nat
      OBVIOUS
    <3>. QED
      BY <1>3, <3>1 DEF stride
  <2>. QED
    BY <2>1
<1>5. h = F(h)
  <2>1. ASSUME NEW i \in 0..n PROVE h[i] = IF i = 0 THEN 0 ELSE h[i - 1] + f[i]
    <3>1. i = 0 \/ i \in 1..n
      OBVIOUS
    <3>. QED
      BY <1>3, <1>4, <3>1
  <2>. QED
    BY <1>1, <2>1
<1>6. u = F(u)
  BY <1>5
<1>7. Total(f) = u[n]
  BY <1>1, Zenon DEF Total
<1>. HIDE DEF u
<1>8. u[0] = 0 /\ \A i \in 1..n : u[i] = u[i - 1] + f[i]
  BY <1>1, <1>6
<1>. DEFINE T == {i \in Nat : i <= n => u[i] \in Nat}
<1>9. 0 \in T
  BY <1>8
<1>10. ASSUME NEW i \in Nat, i \in T PROVE i + 1 \in T
  <2>. SUFFICES ASSUME i + 1 <= n PROVE u[i + 1] \in Nat
    OBVIOUS
  <2>1. i + 1 \in 1..n /\ (i + 1) - 1 = i /\ u[i] \in Nat
    BY <1>10
  <2>. QED
    BY <1>8, <2>1
<1>11. \A i \in 0..n : u[i] \in Nat
  <2>. HIDE DEF T
  <2>1. Nat \subseteq T
    BY <1>9, <1>10, SetInduction
  <2>. QED
    BY <2>1 DEF T
<1>12. u \in [0..n -> Nat]
  BY <1>1, <1>6, <1>11
<1>. QED
  BY <1>7, <1>8, <1>12

\* No sum exceeds what its largest element would come to.
LEMMA TotalIsBounded ==
  ASSUME NEW n \in Nat, NEW f \in [1..n -> Nat], NEW m \in Nat, \A i \in 1..n : f[i] <= m
  PROVE  Total(f) \in Nat /\ Total(f) <= n * m
<1>1. PICK u \in [0..n -> Nat] : Total(f) = u[n] /\ u[0] = 0 /\ \A i \in 1..n : u[i] = u[i - 1] + f[i]
  BY TotalWalks
<1>. DEFINE T == {i \in Nat : i <= n => u[i] <= i * m}
<1>2. 0 \in T
  BY <1>1
<1>3. ASSUME NEW i \in Nat, i \in T PROVE i + 1 \in T
  <2>. SUFFICES ASSUME i + 1 <= n PROVE u[i + 1] <= (i + 1) * m
    OBVIOUS
  <2>1. i + 1 \in 1..n /\ (i + 1) - 1 = i /\ u[i] <= i * m /\ u[i] \in Nat
    BY <1>3
  <2>2. u[i + 1] = u[i] + f[i + 1] /\ f[i + 1] <= m /\ f[i + 1] \in Nat
    BY <1>1, <2>1
  <2>3. (i + 1) * m = i * m + m
    OBVIOUS
  <2>. QED
    BY <2>1, <2>2, <2>3
<1>4. Nat \subseteq T
  <2>. HIDE DEF T
  <2>. QED
    BY <1>2, <1>3, SetInduction
<1>. QED
  BY <1>1, <1>4

\* What is the least or the greatest of a few numbers.
LEMMA SmallerOf ==
  ASSUME NEW a \in Int, NEW b \in Int
  PROVE  Min({a, b}) = IF a <= b THEN a ELSE b
<1>. DEFINE m == IF a <= b THEN a ELSE b
<1>1. m \in {a, b} /\ \A y \in {a, b} : m <= y
  OBVIOUS
<1>2. \A x \in {a, b} : (\A y \in {a, b} : x <= y) => x = m
  OBVIOUS
<1>. HIDE DEF m
<1>3. Min({a, b}) \in {a, b} /\ \A y \in {a, b} : Min({a, b}) <= y
  BY <1>1 DEF Min
<1>. QED
  BY <1>2, <1>3 DEF m

\* A sum of products: each factor once, so it never exceeds pixels times cells.
LEMMA CountIsBounded ==
  ASSUME picture \in Picture, NEW colour \in 1..Palette
  PROVE  Count(colour) \in 0..Pixels
<1>. DEFINE A(n) == {c \in Cell : <<colour, n>> \in Range(picture[c])}
            B(n) == {c \in Cell : \E i \in 1..n : <<colour, i>> \in Range(picture[c])}
            f == [n \in 1..CellPixels |-> n * Cardinality(A(n))]
            a(n) == Cardinality(A(n))
            b(n) == Cardinality(B(n))
<1>1. CellPixels \in Nat \ {0} /\ IsFiniteSet(Cell) /\ Cardinality(Cell) = GW * GH /\ GW * GH \in Nat
  BY GridNumbers, GridIsFinite
<1>2. \A n : IsFiniteSet(A(n)) /\ IsFiniteSet(B(n)) /\ a(n) \in Nat /\ b(n) \in Nat /\ b(n) <= GW * GH
  <2>1. ASSUME NEW n PROVE IsFiniteSet(A(n)) /\ IsFiniteSet(B(n)) /\ a(n) \in Nat /\ b(n) \in Nat /\ b(n) <= GW * GH
    <3>. DEFINE U == A(n)
                T == B(n)
    <3>1. U \in SUBSET Cell /\ T \in SUBSET Cell
      OBVIOUS
    <3>. HIDE DEF U, T
    <3>2. IsFiniteSet(U) /\ IsFiniteSet(T) /\ Cardinality(T) <= Cardinality(Cell)
      BY <1>1, <3>1, FS_Subset
    <3>3. Cardinality(U) \in Nat /\ Cardinality(T) \in Nat
      BY <3>2, FS_CardinalityType
    <3>. QED
      BY <1>1, <3>2, <3>3 DEF U, T
  <2>. QED
    BY <2>1
<1>3. \A c \in Cell : \A m, n : <<colour, m>> \in Range(picture[c]) /\ <<colour, n>> \in Range(picture[c]) => m = n
  <2>1. ASSUME NEW c \in Cell, NEW m, NEW n,
               <<colour, m>> \in Range(picture[c]), <<colour, n>> \in Range(picture[c])
        PROVE  m = n
    <3>1. PICK i \in DOMAIN picture[c] : picture[c][i] = <<colour, m>>
      BY <2>1 DEF Range
    <3>2. PICK j \in DOMAIN picture[c] : picture[c][j] = <<colour, n>>
      BY <2>1 DEF Range
    <3>3. i = j
      BY <3>1, <3>2, PictureAssumption
    <3>. QED
      BY <3>1, <3>2, <3>3
  <2>. QED
    BY <2>1
<1>4. ASSUME NEW n \in Nat PROVE b(n + 1) = b(n) + a(n + 1)
  <2>. DEFINE U == A(n + 1)
              T == B(n)
              R == B(n + 1)
  <2>1. R = T \cup U
    <3>1. \A i : i \in 1..(n + 1) <=> i \in 1..n \/ i = n + 1
      OBVIOUS
    <3>. QED
      BY <3>1
  <2>2. T \cap U = {}
    <3>1. \A i \in 1..n : i # n + 1
      OBVIOUS
    <3>. QED
      BY <1>3, <3>1
  <2>3. IsFiniteSet(U) /\ IsFiniteSet(T)
    BY <1>2
  <2>. HIDE DEF U, T, R
  <2>4. Cardinality(T \cup U) = Cardinality(T) + Cardinality(U) - Cardinality(T \cap U)
    BY <2>3, FS_Union
  <2>5. Cardinality(T \cap U) = 0
    BY <2>2, FS_EmptySet
  <2>6. Cardinality(T) \in Nat /\ Cardinality(U) \in Nat
    BY <2>3, FS_CardinalityType
  <2>7. Cardinality(R) = Cardinality(T) + Cardinality(U)
    BY <2>1, <2>4, <2>5, <2>6
  <2>. QED
    BY <2>7, Zenon DEF R, U, T
<1>5. b(0) = 0
  <2>1. B(0) = {}
    OBVIOUS
  <2>. QED
    BY <2>1, FS_EmptySet
<1>6. \A n \in 1..CellPixels : f[n] = n * a(n)
  OBVIOUS
<1>7. f \in [1..CellPixels -> Nat]
  <2>1. \A n : a(n) \in Nat
    BY <1>2
  <2>. HIDE DEF a
  <2>2. \A n \in 1..CellPixels : n * a(n) \in Nat
    BY <2>1
  <2>3. f = [n \in 1..CellPixels |-> n * a(n)]
    BY Zenon DEF a
  <2>. HIDE DEF f
  <2>. QED
    BY <2>2, <2>3
<1>8. Count(colour) = Total(f)
  BY Zenon DEF Count
<1>. HIDE DEF f, a, b, A, B
<1>9. PICK u \in [0..CellPixels -> Nat] :
          Total(f) = u[CellPixels] /\ u[0] = 0 /\ \A i \in 1..CellPixels : u[i] = u[i - 1] + f[i]
  BY <1>1, <1>7, TotalWalks
<1>. DEFINE T == {i \in Nat : i <= CellPixels => u[i] <= CellPixels * b(i)}
<1>10. 0 \in T
  BY <1>1, <1>5, <1>9
<1>11. ASSUME NEW i \in Nat, i \in T PROVE i + 1 \in T
  <2>. SUFFICES ASSUME i + 1 <= CellPixels PROVE u[i + 1] <= CellPixels * b(i + 1)
    OBVIOUS
  <2>. DEFINE P == CellPixels
  <2>1. P \in Nat /\ i + 1 \in 1..P /\ (i + 1) - 1 = i /\ u[i] <= P * b(i) /\ u[i] \in Nat /\ u[i + 1] \in Nat
    BY <1>1, <1>11
  <2>2. u[i + 1] = u[i] + (i + 1) * a(i + 1)
    BY <1>6, <1>9, <2>1
  <2>3. b(i + 1) = b(i) + a(i + 1)
    BY <1>4
  <2>4. a(i + 1) \in Nat /\ b(i) \in Nat
    BY <1>2
  <2>. DEFINE x == a(i + 1)
              y == b(i)
              k == i + 1
  <2>5. k \in Nat /\ k <= P /\ x \in Nat /\ y \in Nat
    BY <2>1, <2>4
  <2>. HIDE DEF x, y, k, P
  <2>6. k * x <= P * x
    <3>1. (P - k) * x \in Nat /\ (P - k) * x = P * x - k * x
      BY <2>1, <2>5
    <3>. QED
      BY <2>1, <2>5, <3>1
  <2>7. P * (y + x) = P * y + P * x
    BY <2>1, <2>5
  <2>8. u[i] + k * x <= P * y + P * x
    <3>1. u[i] \in Nat /\ u[i] <= P * y
      BY <2>1 DEF y
    <3>2. P * y \in Nat /\ P * x \in Nat /\ k * x \in Nat
      BY <2>1, <2>5
    <3>. QED
      BY <2>6, <3>1, <3>2
  <2>. QED
    BY <2>2, <2>3, <2>7, <2>8 DEF x, y, k, P
<1>12. Nat \subseteq T
  <2>. HIDE DEF T
  <2>. QED
    BY <1>10, <1>11, SetInduction
<1>13. u[CellPixels] <= CellPixels * b(CellPixels) /\ u[CellPixels] \in Nat
  BY <1>1, <1>12
<1>14. CellPixels * b(CellPixels) <= CellPixels * (GW * GH)
  <2>. DEFINE y == b(CellPixels)
              z == GW * GH
              P == CellPixels
  <2>1. y \in Nat /\ z \in Nat /\ y <= z /\ P \in Nat
    BY <1>1, <1>2
  <2>. HIDE DEF y, z, P
  <2>2. P * (z - y) \in Nat /\ P * (z - y) = P * z - P * y
    BY <2>1
  <2>3. P * y <= P * z
    BY <2>1, <2>2
  <2>. QED
    BY <2>3 DEF y, z, P
<1>15. Pixels = CellPixels * (GW * GH) /\ Pixels \in Nat
  <2>1. CellPixels \in Nat /\ GW \in Nat /\ GH \in Nat
    BY GridNumbers
  <2>. QED
    BY <2>1 DEF Pixels
<1>16. CellPixels * b(CellPixels) \in Nat
  BY <1>1, <1>2
<1>. QED
  BY <1>8, <1>9, <1>13, <1>14, <1>15, <1>16

CountsOK == counts \in [1..Palette -> 0..Pixels]

LEMMA PixelsArePositive == Pixels \in Nat \ {0}
<1>. DEFINE a == CellPixels
            b == GW
            c == GH
<1>1. a \in Nat \ {0} /\ b \in Nat \ {0} /\ c \in Nat \ {0}
  BY GridNumbers
<1>. HIDE DEF a, b, c
<1>2. a * b \in Nat \ {0}
  BY <1>1
<1>3. a * b * c \in Nat \ {0}
  BY <1>1, <1>2
<1>. QED
  BY <1>3 DEF Pixels, a, b, c

LEMMA DominantIsMost ==
  ASSUME CountsOK
  PROVE  Dominant \in 1..Palette /\ \A b \in 1..Palette : counts[b] <= counts[Dominant]
<1>. DEFINE U == {counts[a] : a \in 1..Palette}
            Best(a) == \A b \in 1..Palette :
                          counts[a] > counts[b] \/ (counts[a] = counts[b] /\ a <= b)
<1>1. Pixels \in Nat /\ Palette \in Nat \ {0}
  BY PixelsArePositive, GridNumbers
<1>2. U \in SUBSET (0..Pixels) /\ U # {}
  <2>1. 1 \in 1..Palette
    BY <1>1
  <2>. QED
    BY <2>1 DEF CountsOK
<1>3. PICK m \in U : \A k \in U : m >= k
  <2>. HIDE DEF U
  <2>. QED
    BY <1>1, <1>2, GreatestNatural
<1>. DEFINE T == {a \in 1..Palette : counts[a] = m}
<1>4. T \in SUBSET Nat /\ T # {}
  OBVIOUS
<1>5. PICK a \in T : \A k \in T : a <= k
  <2>. HIDE DEF T
  <2>. QED
    BY <1>4, LeastNatural
<1>6. a \in 1..Palette /\ Best(a)
  <2>1. ASSUME NEW b \in 1..Palette
        PROVE  counts[a] > counts[b] \/ (counts[a] = counts[b] /\ a <= b)
    <3>1. counts[a] = m /\ counts[b] <= m /\ counts[b] \in Int /\ m \in Int
      BY <1>3, <1>5 DEF CountsOK
    <3>2. counts[b] = m => a <= b
      BY <1>5
    <3>. QED
      BY <3>1, <3>2
  <2>. QED
    BY <1>5, <2>1
<1>7. Dominant \in 1..Palette /\ Best(Dominant)
  <2>1. Dominant = CHOOSE x \in 1..Palette : Best(x)
    BY Zenon DEF Dominant
  <2>. HIDE DEF Best
  <2>. QED
    BY <1>6, <2>1, Zenon
<1>8. ASSUME NEW b \in 1..Palette PROVE counts[b] <= counts[Dominant]
  <2>1. counts[b] \in Int /\ counts[Dominant] \in Int
    BY <1>7 DEF CountsOK
  <2>2. counts[Dominant] > counts[b] \/ counts[Dominant] = counts[b]
    BY <1>7, Zenon
  <2>. QED
    BY <2>1, <2>2
<1>. QED
  BY <1>7, <1>8

\* The accents are at most two different meaningful colours, none the body's, and there
\* are some if there is such a colour.
LEMMA AccentsAre ==
  ASSUME CountsOK
  PROVE  /\ Accents \in Seq(1..Palette) /\ Len(Accents) <= 2 /\ DOMAIN Accents = 1..Len(Accents)
         /\ \A i \in DOMAIN Accents : UseDominantAsBody => Accents[i] # Dominant
         /\ \A i, j \in DOMAIN Accents : Accents[i] = Accents[j] => i = j
         /\ Accents = << >> => \A x \in Meaningful : UseDominantAsBody /\ x = Dominant
<1>. DEFINE others == {a \in Meaningful : UseDominantAsBody => a # Dominant}
            before == {p \in others \X others :
                     \/ counts[p[1]] > counts[p[2]]
                     \/ counts[p[1]] = counts[p[2]] /\ p[1] < p[2]}
            ranked == Listed(others, before)
            n == Cardinality(others)
            m == Min({2, Len(ranked)})
<1>1. Palette \in Nat /\ others \in SUBSET (1..Palette)
  BY GridNumbers DEF Meaningful
<1>2. IsFiniteSet(others) /\ n \in Nat
  <2>1. IsFiniteSet(1..Palette)
    BY <1>1, FS_Interval
  <2>. DEFINE o == others
  <2>2. o \in SUBSET (1..Palette)
    BY <1>1
  <2>. HIDE DEF o
  <2>3. IsFiniteSet(o) /\ Cardinality(o) \in Nat
    BY <2>1, <2>2, FS_Subset, FS_CardinalityType
  <2>. QED
    BY <2>3 DEF o
<1>3. \A x \in others : x \in Int /\ counts[x] \in Int
  BY <1>1 DEF CountsOK
<1>. HIDE DEF others
<1>4. Orders(before, others)
  <2>1. \A x, y \in others : <<x, y>> \in before <=>
            counts[x] > counts[y] \/ (counts[x] = counts[y] /\ x < y)
    OBVIOUS
  <2>. HIDE DEF before
  <2>. QED
    BY <1>3, <2>1 DEF Orders
<1>. HIDE DEF before
<1>5. /\ ranked \in Seq(others) /\ Len(ranked) = n /\ DOMAIN ranked = 1..n
      /\ \A i, j \in 1..n : ranked[i] = ranked[j] => i = j
      /\ \A x \in others : \E i \in 1..n : ranked[i] = x
  <2>. QED
    BY <1>2, <1>4, ListedRanks
<1>6. Accents = SubSeq(ranked, 1, m)
  BY Zenon DEF Accents, others, before
<1>. HIDE DEF ranked, n
<1>7. m = IF 2 <= n THEN 2 ELSE n
  BY <1>2, <1>5, SmallerOf
<1>. HIDE DEF m
<1>8. m \in 0..2 /\ m <= n /\ (m = 0 => n = 0)
  BY <1>2, <1>7
<1>9. /\ Accents \in Seq(others) /\ Len(Accents) = m /\ DOMAIN Accents = 1..m
      /\ \A i \in 1..m : Accents[i] = ranked[i] /\ i \in 1..n
  BY <1>2, <1>5, <1>6, <1>8
<1>10. \A i \in 1..m : Accents[i] \in others
  BY <1>9
<1>11. \A x \in others : UseDominantAsBody => x # Dominant
  BY DEF others
<1>12. \A x \in Meaningful : x \notin others => UseDominantAsBody /\ x = Dominant
  BY Zenon DEF others
<1>13. Accents = << >> => others = {}
  <2>. SUFFICES ASSUME Accents = << >> PROVE others = {}
    OBVIOUS
  <2>1. m = 0
    BY <1>9
  <2>. QED
    BY <1>2, <1>5, <1>8, <2>1
<1>14. Accents \in Seq(1..Palette)
  <2>1. \A i \in 1..m : Accents[i] \in 1..Palette
    BY <1>1, <1>10
  <2>2. Accents = [i \in 1..m |-> Accents[i]] /\ m \in Nat
    BY <1>8, <1>9
  <2>3. Accents \in [1..m -> 1..Palette]
    BY <2>1, <2>2
  <2>. QED
    BY <2>2, <2>3
<1>15. Len(Accents) <= 2
  BY <1>8, <1>9
<1>16. \A i, j \in DOMAIN Accents : Accents[i] = Accents[j] => i = j
  BY <1>5, <1>9
<1>17. \A i \in DOMAIN Accents : UseDominantAsBody => Accents[i] # Dominant
  BY <1>9, <1>10, <1>11
<1>18. Accents = << >> => \A x \in Meaningful : UseDominantAsBody /\ x = Dominant
  BY <1>12, <1>13
<1>. QED
  BY <1>9, <1>14, <1>15, <1>16, <1>17, <1>18

LEMMA SelectedAre ==
  ASSUME CountsOK
  PROVE  /\ SelectedColours \in Seq(1..Palette) /\ Len(SelectedColours) <= 2
         /\ DOMAIN SelectedColours = 1..Len(SelectedColours)
         /\ \A i, j \in DOMAIN SelectedColours : SelectedColours[i] = SelectedColours[j] => i = j
         /\ \A i \in DOMAIN SelectedColours :
               UseDominantAsBody /\ SelectedColours[i] = Dominant => SelfAccent
<1>1. CASE SelfAccent
  <2>1. SelectedColours = <<Dominant>> /\ Dominant \in 1..Palette
    BY <1>1, DominantIsMost DEF SelectedColours
  <2>. QED
    BY <1>1, <2>1
<1>2. CASE ~SelfAccent
  <2>1. SelectedColours = Accents
    BY <1>2 DEF SelectedColours
  <2>. QED
    BY <2>1, AccentsAre
<1>. QED
  BY <1>1, <1>2

\* When the only colour is its own accent, it is the only one that counts.
LEMMA SelfAccentIsAlone ==
  ASSUME CountsOK, SelfAccent
  PROVE  Cardinality(Meaningful) = 1 /\ 100 * Painted < 42 * Pixels
<1>1. Accents = << >> /\ UseDominantAsBody /\ 100 * Painted < 42 * Pixels
  BY DEF SelfAccent
<1>2. \A x \in Meaningful : x = Dominant
  BY <1>1, AccentsAre
<1>3. Dominant \in 1..Palette /\ \A b \in 1..Palette : counts[b] <= counts[Dominant]
  BY DominantIsMost
<1>. DEFINE p == Painted
            d == counts[Dominant]
            x == Pixels
            k == Palette
<1>4. k \in Nat /\ k < 30 /\ x \in Nat \ {0} /\ d \in Nat
  BY GridNumbers, PixelsArePositive, <1>3 DEF CountsOK
<1>5. p \in Nat /\ p <= k * d
  <2>1. counts \in [1..k -> Nat] /\ \A b \in 1..k : counts[b] <= d
    BY <1>3, <1>4 DEF CountsOK
  <2>. HIDE DEF d, k
  <2>2. Total(counts) \in Nat /\ Total(counts) <= k * d
    BY <1>4, <2>1, TotalIsBounded
  <2>. QED
    BY <2>2 DEF Painted
<1>6. Meaningful = {} \/ Meaningful = {Dominant}
  BY <1>2
<1>7. 100 * p >= 12 * x
  <2>1. Cardinality(Meaningful) = 0 \/ Cardinality(Meaningful) = 1
    BY <1>6, FS_EmptySet, FS_Singleton
  <2>. QED
    BY <1>1, <2>1 DEF UseDominantAsBody
<1>8. 250 * d > x
  <2>. HIDE DEF p, d, x, k
  <2>1. (30 - k) * d \in Nat /\ (30 - k) * d = 30 * d - k * d
    BY <1>4
  <2>2. k * d \in Nat
    BY <1>4
  <2>3. p <= 29 * d
    <3>1. (29 - k) * d \in Nat /\ (29 - k) * d = 29 * d - k * d
      BY <1>4
    <3>. QED
      BY <1>4, <1>5, <2>2, <3>1
  <2>. QED
    BY <1>4, <1>5, <1>7, <2>3
<1>9. Dominant \in Meaningful
  BY <1>3, <1>8 DEF Meaningful
<1>. QED
  BY <1>1, <1>6, <1>9, FS_Singleton

Index(c) == c[2] * GW + c[1]

LEMMA IndexIsUnique ==
  ASSUME NEW c \in Cell, NEW d \in Cell, Index(c) = Index(d)
  PROVE  c = d
<1>. DEFINE g == GW
            x == c[1]
            y == c[2]
            v == d[1]
            w == d[2]
<1>1. /\ g \in Nat \ {0} /\ x \in 0..(g - 1) /\ v \in 0..(g - 1) /\ y \in Int /\ w \in Int
      /\ c = <<x, y>> /\ d = <<v, w>> /\ y * g + x = w * g + v
  BY GridNumbers DEF Cell, Index
<1>. HIDE DEF g, x, y, v, w
<1>2. (y * g + x) % g = x /\ (w * g + v) % g = v
  BY <1>1
<1>3. x = v
  BY <1>1, <1>2
<1>4. y * g = w * g
  <2>1. y * g \in Int /\ w * g \in Int
    BY <1>1
  <2>. QED
    BY <1>1, <1>3, <2>1
<1>5. y = w
  BY <1>1, <1>4
<1>. QED
  BY <1>1, <1>3, <1>5

LEMMA ScanIs ==
  ASSUME NEW part \in SUBSET Cell, part # {}
  PROVE  Scan(part) \in Nat /\ \E c \in part : Scan(part) = Index(c)
<1>. DEFINE T == {c[2] * GW + c[1] : c \in part}
<1>1. T \in SUBSET Nat /\ T # {}
  <2>1. \A c \in part : c[2] * GW + c[1] \in Nat
    <3>1. ASSUME NEW c \in part PROVE c[2] * GW + c[1] \in Nat
      <4>. DEFINE x == c[1]
                  y == c[2]
                  g == GW
      <4>1. x \in Nat /\ y \in Nat /\ g \in Nat
        BY GridNumbers DEF Cell
      <4>. HIDE DEF x, y, g
      <4>2. y * g \in Nat
        BY <4>1
      <4>3. y * g + x \in Nat
        BY <4>1, <4>2
      <4>. QED
        BY <4>3 DEF x, y, g
    <3>. QED
      BY <3>1
  <2>. QED
    BY <2>1
<1>2. Scan(part) = Min(T)
  BY Zenon DEF Scan
<1>3. \A t \in T : \E c \in part : t = Index(c)
  BY DEF Index
<1>. HIDE DEF T
<1>4. \E m \in T : \A k \in T : m <= k
  BY <1>1, LeastNatural
<1>5. Min(T) \in T
  BY <1>4, Zenon DEF Min
<1>. QED
  BY <1>1, <1>2, <1>3, <1>5

\* The cells of the colours chosen.
VotedOK ==
    /\ voted \in Seq([colour : 1..Palette, cells : SUBSET Cell]) /\ Len(voted) <= 2
    /\ \A i, j \in 1..Len(voted) : voted[i].colour = voted[j].colour => i = j

Area(s) == Closed(voted[s.rank].cells)

LEMMA CandidatesAre ==
  ASSUME VotedOK
  PROVE  /\ IsFiniteSet(Candidates) /\ Cardinality(Candidates) \in Nat
         /\ \A s \in Candidates :
               /\ s.rank \in 1..Len(voted) /\ s.colour = voted[s.rank].colour /\ s.colour \in 1..Palette
               /\ s = [colour |-> s.colour, rank |-> s.rank, found |-> s.found]
               /\ Area(s) \in SUBSET Cell /\ s.found \in Parts(Area(s), Area(s))
               /\ s.found \in SUBSET Area(s) /\ s.found # {} /\ s.found \in Whole(Area(s))
               /\ s.found \in SUBSET Cell
<1>1. DOMAIN voted = 1..Len(voted) /\ Len(voted) \in Nat
  BY DEF VotedOK
<1>2. ASSUME NEW i \in 1..Len(voted)
      PROVE  /\ voted[i].cells \in SUBSET Cell /\ voted[i].colour \in 1..Palette
             /\ Closed(voted[i].cells) \in SUBSET Cell
  <2>1. voted[i].cells \in SUBSET Cell /\ voted[i].colour \in 1..Palette
    <3>1. voted[i] \in [colour : 1..Palette, cells : SUBSET Cell]
      <4>. DEFINE E == [colour : 1..Palette, cells : SUBSET Cell]
      <4>1. voted \in Seq(E)
        BY DEF VotedOK
      <4>. HIDE DEF E
      <4>2. voted[i] \in E
        BY <4>1
      <4>. QED
        BY <4>2 DEF E
    <3>. QED
      BY <3>1
  <2>2. Closed(voted[i].cells) \in SUBSET Cell
    BY DEF Closed, Dilate
  <2>. QED
    BY <2>1, <2>2
<1>3. ASSUME NEW mask \in SUBSET Cell, NEW part \in Parts(mask, mask)
      PROVE  part \in SUBSET mask /\ part # {} /\ part \in Whole(mask)
  <2>1. PICK c \in mask : part = Closure(mask, {c})
    BY DEF Parts
  <2>2. {c} \in SUBSET mask
    OBVIOUS
  <2>3. Closure(mask, {c}) \in Whole(mask) /\ {c} \subseteq Closure(mask, {c})
    BY <2>2, ClosureIsWhole
  <2>. QED
    BY <2>1, <2>3 DEF Whole
<1>4. ASSUME NEW s \in Candidates
      PROVE  /\ s.rank \in 1..Len(voted) /\ s.colour = voted[s.rank].colour /\ s.colour \in 1..Palette
             /\ s = [colour |-> s.colour, rank |-> s.rank, found |-> s.found]
             /\ Area(s) \in SUBSET Cell /\ s.found \in Parts(Area(s), Area(s))
             /\ s.found \in SUBSET Area(s) /\ s.found # {} /\ s.found \in Whole(Area(s))
             /\ s.found \in SUBSET Cell
  <2>1. PICK i \in 1..Len(voted) : s \in {[colour |-> voted[i].colour, rank |-> i, found |-> m] :
                m \in {n \in ComponentsFor(Closed(voted[i].cells)) :
                            Cardinality(n) >= MinComponentCells}}
    BY <1>1, Zenon DEF Candidates
  <2>2. PICK m \in ComponentsFor(Closed(voted[i].cells)) :
            s = [colour |-> voted[i].colour, rank |-> i, found |-> m]
    BY <2>1
  <2>. DEFINE area == Closed(voted[i].cells)
  <2>3. s.rank = i /\ s.colour = voted[i].colour /\ s.found = m /\ Area(s) = area
    BY <2>2 DEF Area
  <2>4. area \in SUBSET Cell /\ voted[i].colour \in 1..Palette
    BY <1>2
  <2>. HIDE DEF area
  <2>5. m \in Parts(area, area)
    BY <2>2, <2>4, ComponentsAre DEF area
  <2>6. m \in SUBSET area /\ m # {} /\ m \in Whole(area)
    BY <1>3, <2>4, <2>5
  <2>7. s = [colour |-> s.colour, rank |-> s.rank, found |-> s.found]
    BY <2>2, <2>3
  <2>. QED
    BY <2>3, <2>4, <2>5, <2>6, <2>7
<1>5. IsFiniteSet(Candidates) /\ Cardinality(Candidates) \in Nat
  <2>. DEFINE D == (1..Len(voted)) \X (SUBSET Cell)
              C == Candidates
              g == [s \in C |-> <<s.rank, s.found>>]
  <2>1. IsFiniteSet(D)
    <3>. DEFINE I == 1..Len(voted)
                J == SUBSET Cell
    <3>1. IsFiniteSet(I)
      BY <1>1, FS_Interval
    <3>2. IsFiniteSet(J)
      BY GridIsFinite, FS_SUBSET
    <3>. HIDE DEF I, J
    <3>3. IsFiniteSet(I \X J)
      BY <3>1, <3>2, FS_Product
    <3>. QED
      BY <3>3 DEF I, J
  <2>2. \A s \in C : <<s.rank, s.found>> \in D
    BY <1>4
  <2>3. \A s, t \in C : <<s.rank, s.found>> = <<t.rank, t.found>> => s = t
    <3>1. ASSUME NEW s \in C, NEW t \in C, <<s.rank, s.found>> = <<t.rank, t.found>>
          PROVE  s = t
      <4>1. s.rank = t.rank /\ s.found = t.found
        BY <3>1
      <4>2. s.colour = t.colour
        BY <1>4, <4>1
      <4>. QED
        BY <1>4, <4>1, <4>2
    <3>. QED
      BY <3>1
  <2>. HIDE DEF C, D
  <2>4. g \in Injection(C, D)
    BY <2>2, <2>3 DEF Injection, IsInjective
  <2>. HIDE DEF g
  <2>5. IsFiniteSet(C)
    BY <2>1, <2>4, FS_Injection
  <2>6. Cardinality(C) \in Nat
    BY <2>5, FS_CardinalityType
  <2>. QED
    BY <2>5, <2>6 DEF C
<1>. QED
  BY <1>4, <1>5

\* The larger of two candidates: the three keys one after the other.
LEMMA LargerIs ==
  ASSUME VotedOK, NEW a \in Candidates, NEW b \in Candidates
  PROVE  /\ Cardinality(a.found) \in Nat /\ a.rank \in Nat /\ Scan(a.found) \in Nat
         /\ Larger(a, b) <=>
               \/ Cardinality(a.found) > Cardinality(b.found)
               \/ /\ Cardinality(a.found) = Cardinality(b.found)
                  /\ a.rank < b.rank \/ (a.rank = b.rank /\ Scan(a.found) < Scan(b.found))
<1>1. ASSUME NEW x \in Candidates
      PROVE  Cardinality(x.found) \in Nat /\ x.rank \in Nat /\ Scan(x.found) \in Nat
  <2>1. x.rank \in 1..Len(voted) /\ x.found \in SUBSET Cell /\ x.found # {}
    BY CandidatesAre
  <2>2. Cardinality(x.found) \in Nat
    BY <2>1, GridIsFinite, FS_Subset, FS_CardinalityType
  <2>3. Scan(x.found) \in Nat
    BY <2>1, ScanIs
  <2>. QED
    BY <2>1, <2>2, <2>3
<1>. DEFINE p == Cardinality(a.found)
            q == Cardinality(b.found)
            c == -p
            d == -q
            u == Scan(a.found)
            v == Scan(b.found)
            key == <<c, a.rank, u>>
            lock == <<d, b.rank, v>>
<1>2. Larger(a, b) <=> \E i \in 1..3 : key[i] < lock[i] /\ \A j \in 1..(i - 1) : key[j] = lock[j]
  BY Zenon DEF Larger
<1>3. p \in Nat /\ q \in Nat /\ c \in Int /\ d \in Int /\ (c < d <=> p > q) /\ (c = d <=> p = q)
  BY <1>1
<1>. HIDE DEF c, d, u, v
<1>4. key[1] = c /\ key[2] = a.rank /\ key[3] = u /\ lock[1] = d /\ lock[2] = b.rank /\ lock[3] = v
  OBVIOUS
<1>. HIDE DEF key, lock
<1>5. Larger(a, b) <=> c < d \/ (c = d /\ (a.rank < b.rank \/ (a.rank = b.rank /\ u < v)))
  <2>1. /\ \A j : j \notin 1..(1 - 1)
        /\ \A j : j \in 1..(2 - 1) <=> j = 1
        /\ \A j : j \in 1..(3 - 1) <=> j = 1 \/ j = 2
    OBVIOUS
  <2>2. (\E i \in 1..3 : key[i] < lock[i] /\ \A j \in 1..(i - 1) : key[j] = lock[j])
          <=> \/ key[1] < lock[1]
              \/ key[2] < lock[2] /\ key[1] = lock[1]
              \/ key[3] < lock[3] /\ key[1] = lock[1] /\ key[2] = lock[2]
    <3>1. \A i : i \in 1..3 <=> i = 1 \/ i = 2 \/ i = 3
      OBVIOUS
    <3>. QED
      BY <2>1, <3>1, ZenonT(60)
  <2>. QED
    BY <1>2, <1>4, <2>2
<1>. QED
  BY <1>1, <1>3, <1>5, Zenon DEF u, v

LEMMA CandidatesAreOrdered ==
  ASSUME VotedOK
  PROVE  Orders({p \in Candidates \X Candidates : Larger(p[1], p[2])}, Candidates)
<1>. DEFINE C == Candidates
            R == {p \in C \X C : Larger(p[1], p[2])}
            n(x) == Cardinality(x.found)
            u(x) == Scan(x.found)
            r(x) == x.rank
<1>1. \A x, y \in C : <<x, y>> \in R <=> Larger(x, y)
  OBVIOUS
<1>2. \A x \in C : n(x) \in Nat /\ r(x) \in Nat /\ u(x) \in Nat
  BY LargerIs
<1>3. \A x, y \in C : Larger(x, y) <=>
          n(x) > n(y) \/ (n(x) = n(y) /\ (r(x) < r(y) \/ (r(x) = r(y) /\ u(x) < u(y))))
  BY LargerIs
<1>4. ASSUME NEW x \in C, NEW y \in C, r(x) = r(y), u(x) = u(y) PROVE x = y
  <2>1. x.rank = y.rank /\ Scan(x.found) = Scan(y.found)
    BY <1>4
  <2>. DEFINE area == Area(x)
  <2>2. /\ area \in SUBSET Cell /\ x.found \in Parts(area, area) /\ y.found \in Parts(area, area)
        /\ x.found \in SUBSET area /\ y.found \in SUBSET area
    BY <2>1, CandidatesAre DEF Area
  <2>. HIDE DEF area
  <2>3. x.found \in SUBSET Cell /\ x.found # {} /\ y.found \in SUBSET Cell /\ y.found # {}
    BY CandidatesAre
  <2>4. PICK c \in x.found : Scan(x.found) = Index(c)
    BY <2>3, ScanIs
  <2>5. PICK d \in y.found : Scan(y.found) = Index(d)
    BY <2>3, ScanIs
  <2>6. c = d
    BY <2>1, <2>3, <2>4, <2>5, IndexIsUnique
  <2>7. PICK e \in area : x.found = Closure(area, {e})
    BY <2>2 DEF Parts
  <2>8. PICK f \in area : y.found = Closure(area, {f})
    BY <2>2 DEF Parts
  <2>9. x.found = y.found
    <3>1. c \in Closure(area, {e}) /\ c \in Closure(area, {f}) /\ c \in area
      BY <2>2, <2>6, <2>7, <2>8
    <3>2. Closure(area, {c}) = Closure(area, {e})
      BY <2>2, <2>7, <3>1, PartsAreApart
    <3>3. Closure(area, {c}) = Closure(area, {f})
      BY <2>2, <2>8, <3>1, PartsAreApart
    <3>. QED
      BY <2>7, <2>8, <3>2, <3>3
  <2>10. x.colour = y.colour
    BY <2>1, CandidatesAre
  <2>. QED
    BY <2>1, <2>9, <2>10, CandidatesAre
<1>. HIDE DEF C, R, n, u, r
<1>5. Orders(R, C)
  <2>1. \A x \in C : <<x, x>> \notin R
    BY <1>1, <1>2, <1>3
  <2>2. \A x, y, z \in C : <<x, y>> \in R /\ <<y, z>> \in R => <<x, z>> \in R
    BY <1>1, <1>2, <1>3
  <2>3. \A x, y \in C : x # y => <<x, y>> \in R \/ <<y, x>> \in R
    BY <1>1, <1>2, <1>3, <1>4
  <2>. QED
    BY <2>1, <2>2, <2>3 DEF Orders
<1>. QED
  BY <1>5 DEF C, R

LEMMA VotesAreRight ==
  ASSUME CountsOK, voted = Votes(SelectedColours)
  PROVE  /\ VotedOK /\ DOMAIN voted = DOMAIN SelectedColours
         /\ \A i \in DOMAIN voted : voted[i].colour = SelectedColours[i]
<1>. DEFINE s == SelectedColours
            k == Len(s)
            Cells(i) == {c \in Cell : Wins(c, s[i], Range(s))}
<1>1. s \in Seq(1..Palette) /\ k <= 2 /\ DOMAIN s = 1..k /\ \A i, j \in 1..k : s[i] = s[j] => i = j
  BY SelectedAre
<1>2. voted = [i \in 1..k |-> [colour |-> s[i], cells |-> Cells(i)]]
  BY <1>1, Zenon DEF Votes
<1>3. \A i \in 1..k : Cells(i) \in SUBSET Cell
  OBVIOUS
<1>4. k \in Nat /\ \A i \in 1..k : s[i] \in 1..Palette
  <2>. DEFINE E == 1..Palette
  <2>1. s \in Seq(E) /\ DOMAIN s = 1..k
    BY <1>1
  <2>. HIDE DEF E
  <2>2. k \in Nat /\ \A i \in 1..k : s[i] \in E
    BY <2>1
  <2>. QED
    BY <2>2 DEF E
<1>. HIDE DEF s, k, Cells
<1>5. DOMAIN voted = 1..k /\ \A i \in 1..k : voted[i] = [colour |-> s[i], cells |-> Cells(i)]
  BY <1>2
<1>. DEFINE E == [colour : 1..Palette, cells : SUBSET Cell]
<1>6. \A i \in 1..k : voted[i] \in E
  BY <1>3, <1>4, <1>5
<1>. HIDE DEF E
<1>7. voted \in [1..k -> E]
  BY <1>2, <1>5, <1>6
<1>8. voted \in Seq(E) /\ Len(voted) = k
  BY <1>4, <1>7
<1>9. \A i \in 1..k : voted[i].colour = s[i]
  BY <1>5
<1>. QED
  BY <1>1, <1>5, <1>8, <1>9 DEF VotedOK, E, s, k

LEMMA StylizedIsOnGrid ==
  ASSUME NEW component
  PROVE  Stylized(component) \in SUBSET Cell
<1>1. Kind(component) \in {"ribbon", "column", "blob"}
  BY DEF Kind
<1>2. \A m, rx, ry : Erode(Dilate(m, rx, ry), 1, 1) \in SUBSET Cell
  BY DEF Erode, Dilate
<1>. QED
  BY <1>1, <1>2 DEF Stylized

Shape == [colour : 1..Palette, found : SUBSET Cell, mask : SUBSET Cell]

\* The shapes retained are different candidates, and none left out is larger.
Retained(list) ==
    /\ list \in Seq(Shape) /\ Len(list) <= 4
    /\ \A i \in 1..Len(list) :
          \E s \in Candidates : list[i].colour = s.colour /\ list[i].found = s.found
    /\ \A i, j \in 1..Len(list) :
          list[i].colour = list[j].colour /\ list[i].found = list[j].found => i = j
    /\ \A s \in Candidates :
          \/ \E i \in 1..Len(list) : list[i].found = s.found
          \/ Len(list) = 4 /\ \A i \in 1..Len(list) :
                                    Cardinality(list[i].found) >= Cardinality(s.found)

LEMMA FoundAreRetained ==
  ASSUME VotedOK, FindShapes
  PROVE  /\ Retained(shapes')
         /\ \A i \in 1..Len(shapes') : shapes'[i].mask = Stylized(shapes'[i].found)
<1>. DEFINE C == Candidates
            R == {p \in C \X C : Larger(p[1], p[2])}
            found == Listed(C, R)
            n == Cardinality(C)
            m == Min({4, Len(found)})
            kept == SubSeq(found, 1, m)
            Sh(s) == [colour |-> s.colour, found |-> s.found, mask |-> Stylized(s.found)]
<1>1. shapes' = [i \in DOMAIN kept |-> Sh(kept[i])]
  BY Zenon DEF FindShapes
<1>2. IsFiniteSet(C) /\ n \in Nat
  BY CandidatesAre
<1>3. Orders(R, C)
  BY CandidatesAreOrdered
<1>4. \A s \in C : s.colour \in 1..Palette /\ s.found \in SUBSET Cell
  BY CandidatesAre
<1>5. \A s, t \in C : s.colour = t.colour /\ s.found = t.found => s = t
  <2>1. ASSUME NEW s \in C, NEW t \in C, s.colour = t.colour, s.found = t.found PROVE s = t
    <3>1. /\ s.rank \in 1..Len(voted) /\ t.rank \in 1..Len(voted)
          /\ s.colour = voted[s.rank].colour /\ t.colour = voted[t.rank].colour
          /\ s = [colour |-> s.colour, rank |-> s.rank, found |-> s.found]
          /\ t = [colour |-> t.colour, rank |-> t.rank, found |-> t.found]
      BY CandidatesAre
    <3>2. s.rank = t.rank
      BY <2>1, <3>1 DEF VotedOK
    <3>. QED
      BY <2>1, <3>1, <3>2
  <2>. QED
    BY <2>1
<1>6. \A s, t \in C : <<s, t>> \in R => Cardinality(s.found) >= Cardinality(t.found)
  <2>1. ASSUME NEW s \in C, NEW t \in C, <<s, t>> \in R
        PROVE  Cardinality(s.found) >= Cardinality(t.found)
    <3>1. Larger(s, t)
      BY <2>1
    <3>2. Cardinality(s.found) \in Nat /\ Cardinality(t.found) \in Nat
      BY LargerIs
    <3>3. Cardinality(s.found) > Cardinality(t.found) \/ Cardinality(s.found) = Cardinality(t.found)
      BY <3>1, LargerIs
    <3>. QED
      BY <3>2, <3>3
  <2>. QED
    BY <2>1
<1>. HIDE DEF C, R
<1>7. /\ found \in Seq(C) /\ Len(found) = n /\ DOMAIN found = 1..n
      /\ \A i, j \in 1..n : i < j => <<found[i], found[j]>> \in R
      /\ \A i, j \in 1..n : found[i] = found[j] => i = j
      /\ \A x \in C : \E i \in 1..n : found[i] = x
  BY <1>2, <1>3, ListedRanks
<1>. HIDE DEF found, n
<1>8. m = IF 4 <= n THEN 4 ELSE n
  BY <1>2, <1>7, SmallerOf
<1>. HIDE DEF m
<1>9. m \in 0..4 /\ m <= n /\ m \in Nat /\ (m = 4 \/ m = n) /\ n \in Nat
  BY <1>2, <1>8
<1>10. \A i \in 1..n : found[i] \in C
  BY <1>7
<1>11. DOMAIN kept = 1..m /\ \A i \in 1..m : kept[i] = found[i] /\ kept[i] \in C /\ i \in 1..n
  BY <1>7, <1>9, <1>10
<1>. HIDE DEF kept
<1>. DEFINE list == shapes'
<1>12. DOMAIN list = 1..m /\ list = [i \in 1..m |-> list[i]]
  BY <1>1, <1>11, Zenon
<1>13. \A i \in 1..m : list[i] = Sh(kept[i])
  BY <1>1, <1>11, Zenon
<1>14. \A i \in 1..m : /\ list[i].colour = found[i].colour /\ list[i].found = found[i].found
                       /\ list[i].mask = Stylized(list[i].found)
  <2>1. ASSUME NEW i \in 1..m
        PROVE  /\ list[i].colour = found[i].colour /\ list[i].found = found[i].found
               /\ list[i].mask = Stylized(list[i].found)
    <3>. DEFINE x == Stylized(kept[i].found)
    <3>1. list[i] = [colour |-> kept[i].colour, found |-> kept[i].found, mask |-> x]
      BY <1>13, Zenon
    <3>2. kept[i] = found[i]
      BY <1>11
    <3>. HIDE DEF x, list
    <3>3. list[i].colour = kept[i].colour /\ list[i].found = kept[i].found /\ list[i].mask = x
      BY <3>1
    <3>. QED
      BY <3>2, <3>3 DEF x
  <2>. QED
    BY <2>1
<1>15. \A i \in 1..m : list[i] \in Shape
  <2>1. ASSUME NEW i \in 1..m PROVE list[i] \in Shape
    <3>1. kept[i].colour \in 1..Palette /\ kept[i].found \in SUBSET Cell /\ Stylized(kept[i].found) \in SUBSET Cell
      BY <1>4, <1>11, StylizedIsOnGrid
    <3>. QED
      <4>. DEFINE x == Stylized(kept[i].found)
      <4>1. list[i] = [colour |-> kept[i].colour, found |-> kept[i].found, mask |-> x]
        BY <1>13, Zenon
      <4>2. x \in SUBSET Cell
        BY <3>1
      <4>. HIDE DEF x, list
      <4>. QED
        BY <3>1, <4>1, <4>2 DEF Shape
  <2>. QED
    BY <2>1
<1>. HIDE DEF list
<1>16. list \in Seq(Shape) /\ Len(list) = m
  <2>1. list \in [1..m -> Shape]
    BY <1>12, <1>15
  <2>. QED
    BY <1>9, <2>1
<1>17. \A i \in 1..m : \E s \in C : list[i].colour = s.colour /\ list[i].found = s.found
  BY <1>10, <1>11, <1>14
<1>18. \A i, j \in 1..m : list[i].colour = list[j].colour /\ list[i].found = list[j].found => i = j
  <2>1. ASSUME NEW i \in 1..m, NEW j \in 1..m,
               list[i].colour = list[j].colour, list[i].found = list[j].found
        PROVE  i = j
    <3>1. found[i] = found[j]
      BY <1>5, <1>10, <1>11, <1>14, <2>1
    <3>. QED
      BY <1>7, <1>11, <3>1
  <2>. QED
    BY <2>1
<1>19. ASSUME NEW s \in C
       PROVE  \/ \E i \in 1..m : list[i].found = s.found
              \/ m = 4 /\ \A i \in 1..m : Cardinality(list[i].found) >= Cardinality(s.found)
  <2>1. PICK k \in 1..n : found[k] = s
    BY <1>7
  <2>2. CASE k <= m
    <3>1. k \in 1..m
      BY <1>9, <2>2
    <3>. QED
      BY <1>14, <2>1, <3>1
  <2>3. CASE k > m
    <3>1. m = 4
      BY <1>9, <2>3
    <3>2. ASSUME NEW i \in 1..m PROVE Cardinality(list[i].found) >= Cardinality(s.found)
      <4>1. i < k /\ i \in 1..n
        BY <1>9, <2>3
      <4>2. <<found[i], s>> \in R
        BY <1>7, <2>1, <4>1
      <4>. QED
        BY <1>6, <1>10, <1>14, <4>1, <4>2
    <3>. QED
      BY <3>1, <3>2
  <2>. QED
    BY <1>9, <2>2, <2>3
<1>20. \A i \in 1..m : list[i].mask = Stylized(list[i].found)
  BY <1>14 DEF list
<1>21. Retained(list)
  BY <1>9, <1>16, <1>17, <1>18, <1>19 DEF Retained, C
<1>. QED
  BY <1>16, <1>20, <1>21 DEF list

\* Shapes that change nothing but their masks are retained as they were.
LEMMA StillRetained ==
  ASSUME Retained(shapes), NEW new \in Seq(Shape), Len(new) = Len(shapes),
         \A i \in 1..Len(shapes) : /\ new[i].found = shapes[i].found
                                  /\ new[i].colour = shapes[i].colour
  PROVE  Retained(new)
<1>. DEFINE n == Len(shapes)
            C == Candidates
<1>1. /\ \A i \in 1..n : \E s \in C : shapes[i].colour = s.colour /\ shapes[i].found = s.found
      /\ \A i, j \in 1..n :
            shapes[i].colour = shapes[j].colour /\ shapes[i].found = shapes[j].found => i = j
      /\ \A s \in C :
            \/ \E i \in 1..n : shapes[i].found = s.found
            \/ n = 4 /\ \A i \in 1..n : Cardinality(shapes[i].found) >= Cardinality(s.found)
      /\ n <= 4
  BY Zenon DEF Retained
<1>2. \A i \in 1..n : new[i].found = shapes[i].found /\ new[i].colour = shapes[i].colour
  OBVIOUS
<1>3. Len(new) = n
  OBVIOUS
<1>. HIDE DEF C, n
<1>4. ASSUME NEW i \in 1..n PROVE \E s \in C : new[i].colour = s.colour /\ new[i].found = s.found
  BY <1>1, <1>2
<1>5. ASSUME NEW i \in 1..n, NEW j \in 1..n,
             new[i].colour = new[j].colour, new[i].found = new[j].found
      PROVE  i = j
  <2>1. shapes[i].colour = shapes[j].colour /\ shapes[i].found = shapes[j].found
    BY <1>2, <1>5
  <2>. QED
    BY <1>1, <2>1, Zenon
<1>6. ASSUME NEW s \in C
      PROVE  \/ \E i \in 1..n : new[i].found = s.found
             \/ n = 4 /\ \A i \in 1..n : Cardinality(new[i].found) >= Cardinality(s.found)
  <2>1. CASE \E i \in 1..n : shapes[i].found = s.found
    BY <1>2, <2>1
  <2>2. CASE n = 4 /\ \A i \in 1..n : Cardinality(shapes[i].found) >= Cardinality(s.found)
    <3>1. ASSUME NEW i \in 1..n PROVE Cardinality(new[i].found) >= Cardinality(s.found)
      <4>1. new[i].found = shapes[i].found
        BY <1>2
      <4>2. Cardinality(shapes[i].found) >= Cardinality(s.found)
        BY <2>2
      <4>. QED
        BY <4>1, <4>2
    <3>. QED
      BY <2>2, <3>1
  <2>. QED
    BY <1>1, <2>1, <2>2, Zenon
<1>. QED
  BY <1>1, <1>3, <1>4, <1>5, <1>6 DEF Retained, C

Masked(K) == [i \in 1..Len(shapes) |-> [shapes[i] EXCEPT !.mask = K[i]]]

LEMMA MaskedAre ==
  ASSUME Retained(shapes), NEW K \in [1..Len(shapes) -> SUBSET Cell]
  PROVE  /\ Retained(Masked(K)) /\ Len(Masked(K)) = Len(shapes)
         /\ \A i \in 1..Len(shapes) : /\ Masked(K)[i].found = shapes[i].found
                                      /\ Masked(K)[i].mask = K[i]
<1>. DEFINE n == Len(shapes)
            e == Masked(K)
<1>1. shapes \in Seq(Shape)
  BY DEF Retained
<1>2. n \in Nat /\ \A i \in 1..n : shapes[i] \in Shape
  BY <1>1
<1>. HIDE DEF n
<1>3. e = [i \in 1..n |-> [shapes[i] EXCEPT !.mask = K[i]]] /\ K \in [1..n -> SUBSET Cell]
  BY DEF n, Masked
<1>. HIDE DEF e
<1>4. ASSUME NEW i \in 1..n
      PROVE  /\ e[i] \in Shape /\ e[i].colour = shapes[i].colour
             /\ e[i].found = shapes[i].found /\ e[i].mask = K[i]
  <2>. DEFINE x == shapes[i]
              y == e[i]
              k == K[i]
  <2>1. x \in Shape /\ y = [x EXCEPT !.mask = k] /\ k \in SUBSET Cell
    BY <1>2, <1>3
  <2>. HIDE DEF x, y, k
  <2>2. y \in Shape /\ y.found = x.found /\ y.colour = x.colour /\ y.mask = k
    BY <2>1 DEF Shape
  <2>. QED
    BY <2>2 DEF x, y, k
<1>5. e \in Seq(Shape) /\ Len(e) = n
  <2>1. DOMAIN e = 1..n /\ e = [i \in 1..n |-> e[i]]
    BY <1>3
  <2>2. e \in [1..n -> Shape]
    BY <1>4, <2>1
  <2>. QED
    BY <1>2, <2>2
<1>6. Retained(e)
  BY <1>4, <1>5, StillRetained DEF n
<1>. QED
  BY <1>4, <1>5, <1>6 DEF n, e

\* Eroding and expanding change the masks only.
LEMMA ErodedAndExpanded ==
  ASSUME Retained(shapes)
  PROVE  /\ Retained(Erosion) /\ Len(Erosion) = Len(shapes)
         /\ \A i \in 1..Len(shapes) : /\ Erosion[i].found = shapes[i].found
                                      /\ Erosion[i].mask = Erode(shapes[i].mask, 1, 1)
         /\ Retained(Expansion) /\ Len(Expansion) = Len(shapes)
         /\ \A i \in 1..Len(shapes) : /\ Expansion[i].found = shapes[i].found
                                      /\ Expansion[i].mask = Dilate(shapes[i].mask, 1, 1)
<1>. DEFINE n == Len(shapes)
            K == [i \in 1..n |-> Erode(shapes[i].mask, 1, 1)]
            M == [i \in 1..n |-> Dilate(shapes[i].mask, 1, 1)]
<1>1. shapes \in Seq(Shape)
  BY DEF Retained
<1>2. DOMAIN shapes = 1..n /\ \A i \in 1..n : shapes[i].mask \in SUBSET Cell
  <2>1. DOMAIN shapes = 1..n /\ \A i \in 1..n : shapes[i] \in Shape
    BY <1>1
  <2>. QED
    BY <2>1 DEF Shape
<1>3. K \in [1..n -> SUBSET Cell] /\ M \in [1..n -> SUBSET Cell]
  BY <1>2 DEF Erode, Dilate
<1>4. /\ Erosion = [i \in 1..n |-> [shapes[i] EXCEPT !.mask = Erode(@, 1, 1)]]
      /\ Expansion = [i \in 1..n |-> [shapes[i] EXCEPT !.mask = Dilate(@, 1, 1)]]
  BY <1>2, Zenon DEF Erosion, Expansion
<1>5. Erosion = Masked(K)
  BY <1>4 DEF Masked
<1>6. Expansion = Masked(M)
  BY <1>4 DEF Masked
<1>7. \A i \in 1..n : K[i] = Erode(shapes[i].mask, 1, 1) /\ M[i] = Dilate(shapes[i].mask, 1, 1)
  OBVIOUS
<1>. HIDE DEF K, M
<1>8. /\ Retained(Erosion) /\ Len(Erosion) = n
      /\ \A i \in 1..n : Erosion[i].found = shapes[i].found /\ Erosion[i].mask = K[i]
  BY <1>3, <1>5, MaskedAre
<1>9. /\ Retained(Expansion) /\ Len(Expansion) = n
      /\ \A i \in 1..n : Expansion[i].found = shapes[i].found /\ Expansion[i].mask = M[i]
  BY <1>3, <1>6, MaskedAre
<1>. QED
  BY <1>7, <1>8, <1>9

Shaped == sculpting \in {"fitting", "molded"}

AccentsInv ==
    /\ picture \in Picture \cup {<< >>} /\ (picture = << >> => sculpting = "none")
    /\ sculpting \in {"none", "reading", "grouping", "finding", "fitting", "molded"}
    /\ CountsOK /\ passes \in 0..5
    /\ sculpting \in {"none", "reading", "grouping"} => voted = << >>
    /\ sculpting \in {"finding", "fitting", "molded"} => voted = Votes(SelectedColours)
    /\ ~Shaped => shapes = << >>
    /\ Shaped => Retained(shapes)
    /\ sculpting = "fitting" =>
          \A i \in 1..Len(shapes) : shapes[i].mask \subseteq Stylized(shapes[i].found)
    /\ sculpting = "molded" =>
          /\ \A i \in 1..Len(shapes) : shapes[i].mask \subseteq Dilate(Stylized(shapes[i].found), 1, 1)
          /\ ~TooMuch(shapes) \/ passes = 5

LEMMA AccentsInvHolds == AccentsInv => AccentsAreTidy
<1>. SUFFICES ASSUME AccentsInv PROVE AccentsAreTidy
  OBVIOUS
<1>1. CountsOK
  BY DEF AccentsInv
<1>2. VotedOK /\ (voted # << >> => /\ DOMAIN voted = DOMAIN SelectedColours
                                  /\ \A i \in DOMAIN voted : voted[i].colour = SelectedColours[i])
  <2>1. CASE voted = << >>
    BY <2>1 DEF VotedOK
  <2>2. CASE voted = Votes(SelectedColours)
    BY <1>1, <2>2, VotesAreRight
  <2>. QED
    BY <2>1, <2>2 DEF AccentsInv
<1>3. /\ Len(voted) \in 0..2 /\ DOMAIN voted = 1..Len(voted)
      /\ \A i \in DOMAIN voted : voted[i].colour \in 1..Palette /\ voted[i].cells \in SUBSET Cell
  <2>. DEFINE E == [colour : 1..Palette, cells : SUBSET Cell]
  <2>1. voted \in Seq(E) /\ Len(voted) <= 2
    BY <1>2 DEF VotedOK
  <2>. HIDE DEF E
  <2>2. Len(voted) \in Nat /\ DOMAIN voted = 1..Len(voted) /\ \A i \in DOMAIN voted : voted[i] \in E
    BY <2>1
  <2>3. Len(voted) \in 0..2
    BY <2>1, <2>2
  <2>. QED
    BY <2>2, <2>3 DEF E
<1>4. /\ Len(shapes) \in 0..4 /\ DOMAIN shapes = 1..Len(shapes)
      /\ \A i \in DOMAIN shapes :
            shapes[i].colour \in 1..Palette /\ shapes[i].found \in SUBSET Cell /\ shapes[i].mask \in SUBSET Cell
  <2>1. CASE ~Shaped
    BY <2>1 DEF AccentsInv
  <2>2. CASE Shaped
    <3>1. shapes \in Seq(Shape) /\ Len(shapes) <= 4
      BY <2>2 DEF AccentsInv, Retained
    <3>2. Len(shapes) \in Nat /\ DOMAIN shapes = 1..Len(shapes) /\ \A i \in DOMAIN shapes : shapes[i] \in Shape
      BY <3>1
    <3>3. Len(shapes) \in 0..4
      BY <3>1, <3>2
    <3>. QED
      BY <3>2, <3>3 DEF Shape
  <2>. QED
    BY <2>1, <2>2
<1>5. AccentTypeOK
  <2>1. picture \in Picture \cup {<< >>} /\ passes \in 0..5
    BY DEF AccentsInv
  <2>3. Len(voted) <= 2 /\ Len(shapes) <= 4
    <3>. DEFINE a == Len(voted)
                b == Len(shapes)
    <3>1. a \in 0..2 /\ b \in 0..4
      BY <1>3, <1>4
    <3>. HIDE DEF a, b
    <3>2. a <= 2 /\ b <= 4
      BY <3>1
    <3>. QED
      BY <3>2 DEF a, b
  <2>2. sculpting \in {"none", "reading", "grouping", "finding", "fitting", "molded"}
    BY DEF AccentsInv
  <2>. QED
    BY <1>1, <1>3, <1>4, <2>1, <2>2, <2>3 DEF AccentTypeOK, CountsOK
<1>6. ShapesAreApart
  <2>. SUFFICES ASSUME NEW i \in DOMAIN shapes, NEW j \in DOMAIN shapes,
                       i # j, shapes[i].colour = shapes[j].colour
                PROVE  shapes[i].found \cap Dilate(shapes[j].found, 1, 1) = {}
    BY DEF ShapesAreApart
  <2>1. Retained(shapes)
    <3>1. shapes # << >>
      OBVIOUS
    <3>. QED
      BY <3>1 DEF AccentsInv
  <2>2. i \in 1..Len(shapes) /\ j \in 1..Len(shapes)
    BY <1>4
  <2>3. PICK s \in Candidates : shapes[i].colour = s.colour /\ shapes[i].found = s.found
    BY <2>1, <2>2, Zenon DEF Retained
  <2>4. PICK t \in Candidates : shapes[j].colour = t.colour /\ shapes[j].found = t.found
    BY <2>1, <2>2, Zenon DEF Retained
  <2>5. shapes[i].found # shapes[j].found
    BY <2>1, <2>2, Zenon DEF Retained
  <2>. DEFINE p == s.found
              q == t.found
              area == Area(s)
  <2>6. s.rank = t.rank
    <3>1. /\ s.rank \in 1..Len(voted) /\ s.colour = voted[s.rank].colour
          /\ t.rank \in 1..Len(voted) /\ t.colour = voted[t.rank].colour
      BY <1>2, CandidatesAre
    <3>. QED
      BY <1>2, <2>3, <2>4, <3>1, ZenonT(60) DEF VotedOK
  <2>7. /\ area \in SUBSET Cell /\ p \in Parts(area, area) /\ p \in SUBSET area /\ p \in Whole(area)
        /\ q \in Parts(area, area) /\ q \in SUBSET area /\ q \in Whole(area)
    <3>1. Area(t) = area
      BY <2>6 DEF Area
    <3>2. Area(s) \in SUBSET Cell /\ p \in Parts(Area(s), Area(s)) /\ p \in SUBSET Area(s) /\ p \in Whole(Area(s))
      BY <1>2, CandidatesAre
    <3>3. q \in Parts(Area(t), Area(t)) /\ q \in SUBSET Area(t) /\ q \in Whole(Area(t))
      BY <1>2, CandidatesAre
    <3>. QED
      BY <3>1, <3>2, <3>3
  <2>8. p # q
    BY <2>3, <2>4, <2>5
  <2>. HIDE DEF p, q, area
  <2>9. p \cap q = {}
    <3>1. PICK c \in area : p = Closure(area, {c})
      BY <2>7 DEF Parts
    <3>2. PICK d \in area : q = Closure(area, {d})
      BY <2>7 DEF Parts
    <3>. QED
      BY <2>7, <2>8, <3>1, <3>2, PartsAreApart
  <2>10. p \cap Dilate(q, 1, 1) \subseteq q
    <3>1. More(area, q) = q
      BY <2>7 DEF Whole
    <3>2. p \cap Dilate(q, 1, 1) \subseteq More(area, q)
      BY <2>7 DEF More, Dilate, Neighbours
    <3>. QED
      BY <3>1, <3>2
  <2>11. p \cap Dilate(q, 1, 1) = {}
    BY <2>9, <2>10
  <2>. QED
    BY <2>3, <2>4, <2>11 DEF p, q
<1>7. InkIsKept
  <2>. SUFFICES ASSUME NEW i \in DOMAIN voted, NEW c \in voted[i].cells, c[2] \in 1..(GH - 2)
                PROVE  c \in Closed(voted[i].cells)
    BY DEF InkIsKept
  <2>1. voted[i].cells \in SUBSET Cell
    BY <1>3
  <2>. QED
    BY <2>1, ClosedKeepsInk
<1>8. BodyIsClean
  <2>. SUFFICES ASSUME sculpting = "molded", UseDominantAsBody, Dominant \in Range(Labels(shapes))
                PROVE  Cardinality(Meaningful) = 1 /\ 100 * Painted < 42 * Pixels
    BY DEF BodyIsClean
  <2>. DEFINE on(c) == {i \in DOMAIN shapes : c \in shapes[i].mask}
              label(c) == IF on(c) = {} THEN 0 ELSE shapes[Min(on(c))].colour
              l == Labels(shapes)
  <2>1. l = [c \in Cell |-> label(c)]
    BY Zenon DEF Labels
  <2>2. PICK c \in Cell : Dominant = label(c)
    <3>1. DOMAIN l = Cell /\ \A c \in Cell : l[c] = label(c)
      BY <2>1
    <3>. HIDE DEF l, label
    <3>2. PICK c \in DOMAIN l : Dominant = l[c]
      BY DEF Range, l
    <3>. QED
      BY <3>1, <3>2
  <2>3. Dominant \in 1..Palette
    BY <1>1, DominantIsMost
  <2>4. on(c) # {} /\ Dominant = shapes[Min(on(c))].colour
    BY <2>2, <2>3
  <2>5. on(c) \in SUBSET Nat /\ \A k \in on(c) : k \in DOMAIN shapes
    BY <1>4
  <2>6. PICK i \in DOMAIN shapes : Dominant = shapes[i].colour
    <3>. DEFINE T == on(c)
    <3>1. T \in SUBSET Nat /\ T # {} /\ Dominant = shapes[Min(T)].colour /\ \A k \in T : k \in DOMAIN shapes
      BY <2>4, <2>5
    <3>. HIDE DEF T
    <3>2. \E m \in T : \A k \in T : m <= k
      BY <3>1, LeastNatural
    <3>3. Min(T) \in T
      BY <3>2, Zenon DEF Min
    <3>. QED
      BY <3>1, <3>3
  <2>7. Retained(shapes) /\ voted = Votes(SelectedColours)
    BY DEF AccentsInv, Shaped
  <2>8. PICK s \in Candidates : shapes[i].colour = s.colour
    BY <1>4, <2>7, Zenon DEF Retained
  <2>9. s.rank \in DOMAIN voted /\ s.colour = voted[s.rank].colour
    BY <1>2, <1>3, CandidatesAre
  <2>10. s.rank \in DOMAIN SelectedColours /\ SelectedColours[s.rank] = Dominant
    BY <1>1, <2>6, <2>7, <2>8, <2>9, VotesAreRight
  <2>11. SelfAccent
    BY <1>1, <2>10, SelectedAre
  <2>. QED
    BY <1>1, <2>11, SelfAccentIsAlone
<1>9. StrongGesturesSurvive
  <2>. SUFFICES ASSUME sculpting = "molded"
                PROVE  /\ \A s \in Candidates :
                              \/ \E i \in DOMAIN shapes : shapes[i].found = s.found
                              \/ Len(shapes) = 4 /\ \A i \in DOMAIN shapes :
                                        Cardinality(shapes[i].found) >= Cardinality(s.found)
                       /\ \A i \in DOMAIN shapes :
                              shapes[i].mask \subseteq Dilate(Stylized(shapes[i].found), 1, 1)
    BY Zenon DEF StrongGesturesSurvive
  <2>1. Retained(shapes) /\ DOMAIN shapes = 1..Len(shapes)
    BY <1>4 DEF AccentsInv, Shaped
  <2>2. \A i \in 1..Len(shapes) : shapes[i].mask \subseteq Dilate(Stylized(shapes[i].found), 1, 1)
    BY DEF AccentsInv
  <2>. QED
    BY <2>1, <2>2, Zenon DEF Retained
<1>10. AccentsFit
  BY DEF AccentsInv, AccentsFit
<1>. QED
  BY <1>5, <1>6, <1>7, <1>8, <1>9, <1>10 DEF AccentsAreTidy

\* What the operators read of the state.
LEMMA Reads ==
  /\ counts' = counts /\ picture' = picture =>
        /\ SelectedColours' = SelectedColours
        /\ Votes(SelectedColours)' = Votes(SelectedColours)
  /\ voted' = voted => Candidates' = Candidates
<1>1. counts' = counts => SelectedColours' = SelectedColours
  BY DEF SelectedColours, SelfAccent, Accents, Dominant, UseDominantAsBody, Meaningful, Painted
<1>2. counts' = counts /\ picture' = picture => Votes(SelectedColours)' = Votes(SelectedColours)
  BY <1>1 DEF Votes, Wins
<1>3. voted' = voted => Candidates' = Candidates
  BY DEF Candidates
<1>. QED
  BY <1>1, <1>2, <1>3

LEMMA AccentsBegin == AccentsInit \/ NoPicture => AccentsInv
<1>. SUFFICES ASSUME AccentsInit \/ NoPicture PROVE AccentsInv
  OBVIOUS
<1>1. CountsOK
  BY PixelsArePositive DEF AccentsInit, NoPicture, CountsOK
<1>2. picture \in Picture => picture # << >>
  <2>. SUFFICES ASSUME picture \in Picture, picture = << >> PROVE FALSE
    OBVIOUS
  <2>1. DOMAIN picture = Cell
    BY PictureAssumption
  <2>2. <<0, 0>> \in Cell
    BY GridNumbers DEF Cell
  <2>3. DOMAIN << >> = {}
    OBVIOUS
  <2>. QED
    BY <2>1, <2>2, <2>3
<1>. QED
  BY <1>1, <1>2 DEF AccentsInit, NoPicture, AccentsInv, Shaped

LEMMA AccentsGoOn == AccentsInv /\ [AccentStep]_accentVars => AccentsInv'
<1>. SUFFICES ASSUME AccentsInv, [AccentStep]_accentVars PROVE AccentsInv'
  OBVIOUS
<1>1. CASE ReadPicture
  <2>1. \A a \in 1..Palette : Count(a) \in 0..Pixels
    <3>1. picture \in Picture
      BY <1>1 DEF ReadPicture, AccentsInv
    <3>. QED
      BY <3>1, CountIsBounded
  <2>2. CountsOK'
    BY <1>1, <2>1 DEF ReadPicture, CountsOK, Pixels
  <2>. QED
    BY <1>1, <2>2 DEF ReadPicture, AccentsInv, Shaped
<1>2. CASE GroupCells
  <2>1. Votes(SelectedColours)' = Votes(SelectedColours)
    BY <1>2, Reads DEF GroupCells
  <2>2. CountsOK'
    BY <1>2 DEF GroupCells, AccentsInv, CountsOK, Pixels
  <2>. QED
    BY <1>2, <2>1, <2>2 DEF GroupCells, AccentsInv, Shaped
<1>. DEFINE Kept == UNCHANGED <<picture, counts, voted>>
<1>3. Kept => /\ Votes(SelectedColours)' = Votes(SelectedColours) /\ Candidates' = Candidates
              /\ (CountsOK => CountsOK')
  BY Reads DEF CountsOK, Pixels
<1>4. ASSUME Kept, NEW list, list = shapes', Retained(list) PROVE Retained(shapes)'
  BY <1>3, <1>4 DEF Retained, Shape
<1>5. CASE FindShapes
  <2>1. Kept /\ sculpting = "finding" /\ sculpting' = "fitting" /\ UNCHANGED passes
    BY <1>5 DEF FindShapes
  <2>2. VotedOK
    BY <2>1, VotesAreRight DEF AccentsInv
  <2>3. Retained(shapes') /\ \A i \in 1..Len(shapes') : shapes'[i].mask = Stylized(shapes'[i].found)
    BY <1>5, <2>2, FoundAreRetained
  <2>4. Retained(shapes)'
    BY <1>4, <2>1, <2>3
  <2>. QED
    BY <1>3, <2>1, <2>3, <2>4 DEF AccentsInv, Shaped
<1>6. CASE ErodeShapes
  <2>1. Kept /\ sculpting = "fitting" /\ UNCHANGED sculpting /\ shapes' = Erosion
    BY <1>6 DEF ErodeShapes
  <2>2. passes' \in 0..5
    BY <1>6 DEF ErodeShapes, AccentsInv
  <2>3. Retained(shapes)
    BY <2>1 DEF AccentsInv, Shaped
  <2>4. /\ Retained(shapes') /\ Len(shapes') = Len(shapes)
        /\ \A i \in 1..Len(shapes) : /\ shapes'[i].found = shapes[i].found
                                     /\ shapes'[i].mask = Erode(shapes[i].mask, 1, 1)
    BY <2>1, <2>3, ErodedAndExpanded
  <2>5. Retained(shapes)'
    BY <1>4, <2>1, <2>4
  <2>6. \A i \in 1..Len(shapes') : shapes'[i].mask \subseteq Stylized(shapes'[i].found)
    <3>1. ASSUME NEW i \in 1..Len(shapes) PROVE shapes'[i].mask \subseteq Stylized(shapes'[i].found)
      <4>1. shapes[i].mask \subseteq Stylized(shapes[i].found)
        BY <2>1 DEF AccentsInv
      <4>2. Erode(shapes[i].mask, 1, 1) \subseteq shapes[i].mask
        BY DEF Erode
      <4>. QED
        BY <2>4, <4>1, <4>2
    <3>. QED
      BY <2>4, <3>1
  <2>. QED
    BY <1>3, <2>1, <2>2, <2>5, <2>6 DEF AccentsInv, Shaped
<1>7. CASE MoldShapes
  <2>1. /\ Kept /\ sculpting = "fitting" /\ sculpting' = "molded" /\ UNCHANGED passes
        /\ shapes' = shapes \/ (shapes' = Expansion /\ ~TooMuch(Expansion))
    BY <1>7 DEF MoldShapes
  <2>2. Retained(shapes)
    BY <2>1 DEF AccentsInv, Shaped
  <2>3. /\ Retained(shapes') /\ Len(shapes') = Len(shapes)
        /\ \A i \in 1..Len(shapes) : /\ shapes'[i].found = shapes[i].found
                                     /\ \/ shapes'[i].mask = shapes[i].mask
                                        \/ shapes'[i].mask = Dilate(shapes[i].mask, 1, 1)
    BY <2>1, <2>2, ErodedAndExpanded
  <2>4. Retained(shapes)'
    BY <1>4, <2>1, <2>3
  <2>5. \A i \in 1..Len(shapes') : shapes'[i].mask \subseteq Dilate(Stylized(shapes'[i].found), 1, 1)
    <3>1. ASSUME NEW i \in 1..Len(shapes) PROVE shapes'[i].mask \subseteq Dilate(Stylized(shapes'[i].found), 1, 1)
      <4>. DEFINE style == Stylized(shapes[i].found)
                  m == shapes[i].mask
      <4>1. m \in SUBSET style /\ style \in SUBSET Cell
        BY <2>1, StylizedIsOnGrid DEF AccentsInv
      <4>. HIDE DEF style, m
      <4>2. m \subseteq Dilate(style, 1, 1) /\ Dilate(m, 1, 1) \subseteq Dilate(style, 1, 1)
        BY <4>1, MasksStayMasks
      <4>. QED
        BY <2>3, <4>2 DEF style, m
    <3>. QED
      BY <2>3, <3>1
  <2>6. ~TooMuch(shapes') \/ passes = 5
    <3>1. passes < 5 \/ passes = 5
      BY DEF AccentsInv
    <3>2. ~TooMuch(shapes) \/ ~(passes < 5)
      BY <1>7 DEF MoldShapes
    <3>3. CASE shapes' = Expansion /\ ~TooMuch(Expansion)
      BY <3>3
    <3>4. CASE shapes' = shapes
      BY <3>1, <3>2, <3>4
    <3>. QED
      BY <1>7, <3>3, <3>4 DEF MoldShapes
  <2>7. TooMuch(shapes)' <=> TooMuch(shapes')
    BY DEF TooMuch, CoveredCells
  <2>. QED
    BY <1>3, <2>1, <2>4, <2>5, <2>6, <2>7 DEF AccentsInv, Shaped
<1>8. CASE UNCHANGED accentVars
  <2>1. Kept /\ UNCHANGED <<sculpting, shapes, passes>>
    BY <1>8 DEF accentVars
  <2>2. Retained(shapes) => Retained(shapes)'
    BY <1>4, <2>1
  <2>3. TooMuch(shapes)' <=> TooMuch(shapes)
    BY <2>1 DEF TooMuch, CoveredCells
  <2>. QED
    BY <1>3, <2>1, <2>2, <2>3 DEF AccentsInv, Shaped
<1>. QED
  BY <1>1, <1>2, <1>5, <1>6, <1>7, <1>8 DEF AccentStep

\* The shapes found in a picture are whole and apart, with all the ink of their colours,
\* and what is molded of them are the strongest gestures that fit, beside a clean body.
THEOREM AccentsAreTidyAlways == AccentSpec => []AccentsAreTidy
<1>1. AccentsInit \/ NoPicture => AccentsInv
  BY AccentsBegin
<1>2. AccentsInv /\ [AccentStep]_accentVars => AccentsInv'
  BY AccentsGoOn
<1>3. AccentsInv => AccentsAreTidy
  BY AccentsInvHolds
<1>. QED
  BY <1>1, <1>2, <1>3, PTL DEF AccentSpec

------------------------------------------------------------------------------
(* The strokes of a drawing on a canvas.                                    *)

\* The largest and the smallest of the numbers in an interval.
LEMMA BoundedMax ==
  ASSUME NEW a, NEW b, NEW T, a \in Int /\ b \in Int, T \in SUBSET (a..b), T # {}
  PROVE  Max(T) \in T /\ Max(T) \in a..b /\ \A y \in T : y <= Max(T)
<1>. DEFINE Q == {y - a : y \in T}
<1>1. a <= b /\ b - a \in Nat
  <2>1. PICK y \in T : TRUE
    OBVIOUS
  <2>2. y \in a..b
    BY <2>1
  <2>. QED
    BY <2>2
<1>2. Q \in SUBSET (0..(b - a)) /\ Q # {}
  <2>1. ASSUME NEW y \in T PROVE y - a \in 0..(b - a)
    <3>1. y \in a..b
      BY <2>1
    <3>. QED
      BY <3>1
  <2>. QED
    BY <2>1, Zenon
<1>3. PICK q \in Q : \A k \in Q : q >= k
  <2>. DEFINE n == b - a
  <2>1. n \in Nat /\ Q \in SUBSET (0..n)
    BY <1>1, <1>2
  <2>. HIDE DEF n, Q
  <2>. QED
    BY <1>2, <2>1, GreatestNatural
<1>4. PICK m \in T : q = m - a
  OBVIOUS
<1>5. \A y \in T : m >= y
  <2>1. ASSUME NEW y \in T PROVE m >= y
    <3>1. y - a \in Q
      OBVIOUS
    <3>2. q >= y - a
      BY <1>3, <3>1
    <3>. QED
      BY <1>4, <3>2
  <2>. QED
    BY <2>1
<1>6. Max(T) = CHOOSE x \in T : \A y \in T : x >= y
  BY Zenon DEF Max
<1>7. Max(T) \in T /\ \A y \in T : Max(T) >= y
  BY <1>4, <1>5, <1>6, Zenon
<1>. QED
  BY <1>7

LEMMA BoundedMin ==
  ASSUME NEW a, NEW b, NEW T, a \in Int /\ b \in Int, T \in SUBSET (a..b), T # {}
  PROVE  Min(T) \in T /\ Min(T) \in a..b /\ \A y \in T : y >= Min(T)
<1>. DEFINE Q == {b - y : y \in T}
<1>1. a <= b /\ b - a \in Nat
  <2>1. PICK y \in T : TRUE
    OBVIOUS
  <2>2. y \in a..b
    BY <2>1
  <2>. QED
    BY <2>2
<1>2. Q \in SUBSET (0..(b - a)) /\ Q # {}
  <2>1. ASSUME NEW y \in T PROVE b - y \in 0..(b - a)
    <3>1. y \in a..b
      BY <2>1
    <3>. QED
      BY <3>1
  <2>. QED
    BY <2>1, Zenon
<1>3. PICK q \in Q : \A k \in Q : q >= k
  <2>. DEFINE n == b - a
  <2>1. n \in Nat /\ Q \in SUBSET (0..n)
    BY <1>1, <1>2
  <2>. HIDE DEF n, Q
  <2>. QED
    BY <1>2, <2>1, GreatestNatural
<1>4. PICK m \in T : q = b - m
  OBVIOUS
<1>5. \A y \in T : m <= y
  <2>1. ASSUME NEW y \in T PROVE m <= y
    <3>1. b - y \in Q
      OBVIOUS
    <3>2. q >= b - y
      BY <1>3, <3>1
    <3>. QED
      BY <1>4, <3>2
  <2>. QED
    BY <2>1
<1>6. Min(T) = CHOOSE x \in T : \A y \in T : x <= y
  BY Zenon DEF Min
<1>7. Min(T) \in T /\ \A y \in T : Min(T) <= y
  BY <1>4, <1>5, <1>6, Zenon
<1>. QED
  BY <1>7

\* The larger and the smaller of two.
LEMMA LargerOfTwo ==
  ASSUME NEW x, NEW y, x \in Int /\ y \in Int
  PROVE  Max({x, y}) = IF x <= y THEN y ELSE x
<1>. DEFINE m == IF x <= y THEN y ELSE x
<1>1. m \in {x, y} /\ \A z \in {x, y} : m >= z
  OBVIOUS
<1>2. \A n \in {x, y} : (\A z \in {x, y} : n >= z) => n = m
  OBVIOUS
<1>. HIDE DEF m
<1>3. Max({x, y}) = m
  BY <1>1, <1>2, Zenon DEF Max
<1>. QED
  BY <1>3 DEF m

LEMMA LesserOfTwo ==
  ASSUME NEW x, NEW y, x \in Int /\ y \in Int
  PROVE  Min({x, y}) = IF x <= y THEN x ELSE y
<1>. DEFINE m == IF x <= y THEN x ELSE y
<1>1. m \in {x, y} /\ \A z \in {x, y} : m <= z
  OBVIOUS
<1>2. \A n \in {x, y} : (\A z \in {x, y} : n <= z) => n = m
  OBVIOUS
<1>. HIDE DEF m
<1>3. Min({x, y}) = m
  BY <1>1, <1>2, Zenon DEF Min
<1>. QED
  BY <1>3 DEF m

LEMMA ClampIs ==
  ASSUME NEW x, NEW lo, NEW hi, x \in Int /\ lo \in Int /\ hi \in Int, lo <= hi
  PROVE  /\ Clamp(x, lo, hi) = IF x < lo THEN lo ELSE IF x > hi THEN hi ELSE x
         /\ Clamp(x, lo, hi) \in lo..hi
<1>. DEFINE m == Min({x, hi})
<1>1. m = IF x <= hi THEN x ELSE hi
  BY LesserOfTwo
<1>2. m \in Int
  BY <1>1
<1>3. Clamp(x, lo, hi) = Max({lo, m})
  BY Zenon DEF Clamp
<1>. HIDE DEF m
<1>4. Max({lo, m}) = IF lo <= m THEN m ELSE lo
  BY <1>2, LargerOfTwo
<1>. QED
  BY <1>1, <1>2, <1>3, <1>4

\* How far x is outside of an interval.
LEMMA OffIs ==
  ASSUME NEW x, NEW a, NEW b, x \in Int /\ a \in Int /\ b \in Int
  PROVE  Off(x, a, b) \in Nat /\ Off(x, a, b) >= a - x /\ Off(x, a, b) >= x - b
<1>. DEFINE T == {0, a - x, x - b}
            m == IF a - x >= 0 /\ a - x >= x - b THEN a - x ELSE IF x - b >= 0 THEN x - b ELSE 0
<1>1. m \in T /\ \A z \in T : m >= z
  OBVIOUS
<1>2. \A n \in T : (\A z \in T : n >= z) => n = m
  OBVIOUS
<1>3. Off(x, a, b) = Max(T)
  BY Zenon DEF Off
<1>4. Max(T) = CHOOSE n \in T : \A z \in T : n >= z
  BY Zenon DEF Max
<1>. HIDE DEF m, T
<1>5. Off(x, a, b) = m
  BY <1>1, <1>2, <1>3, <1>4, Zenon
<1>. QED
  BY <1>5 DEF m

\* What a drawing can be.
Drawn == strokes \in Seq([points : Seq(Seq(Int)), width : Nat, jitter : 0..100, order : Nat])

LEMMA SizesAre == /\ W \in Nat \ {0} /\ H \in Nat \ {0} /\ S \in Nat \ {0}
                  /\ H <= 1000
  BY DrawingAssumption

\* Each stroke of a drawing.
LEMMA StrokesAre ==
  ASSUME Drawn
  PROVE  /\ Len(strokes) \in Nat /\ DOMAIN strokes = 1..Len(strokes)
         /\ \A k \in DOMAIN strokes :
               /\ strokes[k].points \in Seq(Seq(Int)) /\ strokes[k].width \in Nat
               /\ strokes[k].jitter \in 0..100 /\ strokes[k].order \in Nat
<1>. DEFINE P == Seq(Seq(Int))
            J == 0..100
            R == [points : P, width : Nat, jitter : J, order : Nat]
<1>1. strokes \in Seq(R)
  BY DEF Drawn
<1>2. \A r \in R : r.points \in P /\ r.width \in Nat /\ r.jitter \in J /\ r.order \in Nat
  <2>. HIDE DEF P, J
  <2>. QED
    OBVIOUS
<1>. HIDE DEF R, P, J
<1>3. Len(strokes) \in Nat /\ DOMAIN strokes = 1..Len(strokes) /\ \A k \in DOMAIN strokes : strokes[k] \in R
  BY <1>1
<1>. QED
  BY <1>2, <1>3 DEF P, J

\* Thousandths of the canvas.
Permil == 0..1000

LEMMA ClampPermil ==
  ASSUME NEW x, x \in Int
  PROVE  Clamp(x, 0, 1000) \in Permil
<1>. DEFINE lo == 0 hi == 1000
<1>1. lo \in Int /\ hi \in Int /\ lo <= hi
  OBVIOUS
<1>. HIDE DEF lo, hi
<1>2. Clamp(x, lo, hi) \in lo..hi
  BY <1>1, ClampIs
<1>. QED
  BY <1>2 DEF lo, hi, Permil

LEMMA Permils == \A x \in Permil : x \in Int /\ 0 <= x /\ x <= 1000
  BY DEF Permil

\* A line whose points lie on the canvas.
Line(pts, n) ==
    /\ n \in Nat /\ DOMAIN pts = 1..n /\ Len(pts) = n
    /\ \A i \in 1..n : pts[i][1] \in Permil /\ pts[i][2] \in Permil

LEMMA LinesAre ==
  ASSUME NEW n, n \in Nat, NEW pts, DOMAIN pts = 1..n,
         \E f, g : /\ pts = [i \in 1..n |-> <<f[i], g[i]>>]
                  /\ \A i \in 1..n : f[i] \in Permil /\ g[i] \in Permil
  PROVE  Line(pts, n)
<1>. DEFINE C == Permil E == C \X C
<1>1. PICK f, g : /\ pts = [i \in 1..n |-> <<f[i], g[i]>>]
                  /\ \A i \in 1..n : f[i] \in C /\ g[i] \in C
  OBVIOUS
<1>2. \A i \in 1..n : pts[i] \in E /\ pts[i][1] \in C /\ pts[i][2] \in C
  <2>. HIDE DEF C
  <2>. QED
    BY <1>1
<1>. HIDE DEF E
<1>3. pts \in [1..n -> E]
  BY <1>1, <1>2
<1>4. pts \in Seq(E) /\ Len(pts) = n
  <2>. DEFINE m == n
  <2>1. pts \in [1..m -> E] /\ m \in Nat
    BY <1>3
  <2>. HIDE DEF m
  <2>2. pts \in Seq(E) /\ Len(pts) = m
    BY <2>1
  <2>. QED
    BY <2>2 DEF m
<1>. QED
  BY <1>2, <1>4 DEF Line

\* The points of a stroke lie on the canvas.
LEMMA PointsAre ==
  ASSUME Drawn, NEW k, k \in DOMAIN strokes
  PROVE  Line(Points(k), Len(Points(k)))
<1>. DEFINE s == strokes[k].points
            E == Seq(Int)
            T == Int \X Int
            pairs == Only(s, T)
<1>1. s \in Seq(E)
  BY StrokesAre
<1>2. pairs \in Seq(E) /\ PartOf(pairs, s, Len(s), T)
  <2>. HIDE DEF E, s, T
  <2>. QED
    BY <1>1, OnlyIsPart
<1>3. \A j \in 1..Len(pairs) : pairs[j] \in T
  BY <1>2, Zenon DEF PartOf
<1>. HIDE DEF pairs
<1>4. Len(pairs) \in Nat /\ DOMAIN pairs = 1..Len(pairs)
  BY <1>2
<1>5. Points(k) = [i \in DOMAIN pairs |-> <<Clamp(pairs[i][1], 0, 1000), Clamp(pairs[i][2], 0, 1000)>>]
  BY Zenon DEF Points, pairs, s, T
<1>. DEFINE n == Len(pairs)
            f == [i \in 1..n |-> Clamp(pairs[i][1], 0, 1000)]
            g == [i \in 1..n |-> Clamp(pairs[i][2], 0, 1000)]
            pts == Points(k)
<1>6. \A i \in 1..n : f[i] \in Permil /\ g[i] \in Permil
  <2>1. ASSUME NEW i \in 1..n
        PROVE  Clamp(pairs[i][1], 0, 1000) \in Permil /\ Clamp(pairs[i][2], 0, 1000) \in Permil
    <3>. DEFINE a == pairs[i][1] b == pairs[i][2]
    <3>1. a \in Int /\ b \in Int
      BY <1>3
    <3>. HIDE DEF a, b
    <3>2. Clamp(a, 0, 1000) \in Permil /\ Clamp(b, 0, 1000) \in Permil
      BY <3>1, ClampPermil
    <3>. QED
      BY <3>2 DEF a, b
  <2>. HIDE DEF n
  <2>. QED
    BY <2>1
<1>7. pts = [i \in 1..n |-> <<f[i], g[i]>>]
  BY <1>4, <1>5
<1>. HIDE DEF n, f, g, pts
<1>8. DOMAIN pts = 1..n /\ n \in Nat
  BY <1>4, <1>7 DEF n
<1>9. Line(pts, n)
  BY <1>6, <1>7, <1>8, LinesAre
<1>10. Len(pts) = n
  BY <1>9 DEF Line
<1>. QED
  BY <1>9, <1>10 DEF pts

\* A stroke that is projected has at least two points; its frame and its width.
LEMMA ProjectedAre ==
  ASSUME Drawn, NEW k, k \in Projected
  PROVE  /\ k \in DOMAIN strokes /\ k \in 1..Len(strokes) /\ Len(Points(k)) >= 2
         /\ X(k) \in SUBSET Permil /\ Min(X(k)) \in X(k) /\ Max(X(k)) \in X(k)
         /\ Y(k) \in SUBSET Permil /\ Min(Y(k)) \in Y(k) /\ Max(Y(k)) \in Y(k)
         /\ \A i \in 1..Len(Points(k)) :
               /\ Min(X(k)) <= Points(k)[i][1] /\ Points(k)[i][1] <= Max(X(k))
               /\ Min(Y(k)) <= Points(k)[i][2] /\ Points(k)[i][2] <= Max(Y(k))
<1>. DEFINE pts == Points(k)
            n == Len(pts)
<1>1. k \in DOMAIN strokes /\ n >= 2
  BY DEF Projected
<1>2. k \in 1..Len(strokes)
  BY <1>1, StrokesAre
<1>3. /\ DOMAIN pts = 1..n /\ n \in Nat
      /\ \A i \in 1..n : pts[i][1] \in Permil /\ pts[i][2] \in Permil
  BY <1>1, PointsAre DEF Line
<1>4. X(k) = {p[1] : p \in {pts[i] : i \in 1..n}} /\ Y(k) = {p[2] : p \in {pts[i] : i \in 1..n}}
  BY <1>3 DEF X, Y, Range
<1>. HIDE DEF n, pts
<1>5. \A i \in 1..n : pts[i][1] \in X(k) /\ pts[i][2] \in Y(k)
  BY <1>4
<1>55. (\A x \in X(k) : \E i \in 1..n : x = pts[i][1]) /\ (\A y \in Y(k) : \E i \in 1..n : y = pts[i][2])
  BY <1>4
<1>6. X(k) \subseteq Permil /\ Y(k) \subseteq Permil
  <2>1. ASSUME NEW x \in X(k) PROVE x \in Permil
    BY <1>3, <1>55
  <2>2. ASSUME NEW y \in Y(k) PROVE y \in Permil
    BY <1>3, <1>55
  <2>. QED
    BY <2>1, <2>2
<1>7. X(k) # {} /\ Y(k) # {}
  BY <1>1, <1>3, <1>5
<1>8. Min(X(k)) \in X(k) /\ Max(X(k)) \in X(k)
      /\ \A x \in X(k) : Min(X(k)) <= x /\ x <= Max(X(k))
  <2>. DEFINE T == X(k) a == 0 b == 1000
  <2>1. T \in SUBSET (a..b) /\ T # {} /\ a \in Int /\ b \in Int
    BY <1>6, <1>7 DEF Permil
  <2>. HIDE DEF T, a, b
  <2>2. Max(T) \in T /\ \A y \in T : y <= Max(T)
    BY <2>1, BoundedMax
  <2>3. Min(T) \in T /\ \A y \in T : y >= Min(T)
    BY <2>1, BoundedMin
  <2>4. \A y \in T : y \in Int
    BY <2>1
  <2>. QED
    BY <2>2, <2>3, <2>4 DEF T
<1>9. Min(Y(k)) \in Y(k) /\ Max(Y(k)) \in Y(k)
      /\ \A y \in Y(k) : Min(Y(k)) <= y /\ y <= Max(Y(k))
  <2>. DEFINE T == Y(k) a == 0 b == 1000
  <2>1. T \in SUBSET (a..b) /\ T # {} /\ a \in Int /\ b \in Int
    BY <1>6, <1>7 DEF Permil
  <2>. HIDE DEF T, a, b
  <2>2. Max(T) \in T /\ \A y \in T : y <= Max(T)
    BY <2>1, BoundedMax
  <2>3. Min(T) \in T /\ \A y \in T : y >= Min(T)
    BY <2>1, BoundedMin
  <2>4. \A y \in T : y \in Int
    BY <2>1
  <2>. QED
    BY <2>2, <2>3, <2>4 DEF T
<1>. QED
  BY <1>1, <1>2, <1>5, <1>6, <1>8, <1>9 DEF n, pts

\* How wide or high a stroke can be, in hundredths of a percent of the canvas.
Spans == 1..10000

\* The span of what a stroke covers, its width and its band of latitude.
LEMMA BandsAre ==
  ASSUME Drawn, NEW k, k \in Projected
  PROVE  /\ Span(X(k)) \in Spans /\ Span(Y(k)) \in Spans
         /\ Span(X(k)) >= 10 * (Max(X(k)) - Min(X(k)))
         /\ WidthNormalized(k) \in 3..350
         /\ BandFrom(k) \in 0..1000 /\ BandTo(k) \in 0..1000
         /\ BandFrom(k) > 0 => BandFrom(k) <= Min(Y(k)) - (WidthNormalized(k) \div 2)
         /\ BandTo(k) < 1000 => BandTo(k) >= Max(Y(k)) + (WidthNormalized(k) \div 2)
<1>. DEFINE x0 == Min(X(k)) x1 == Max(X(k)) y0 == Min(Y(k)) y1 == Max(Y(k))
            w == WidthNormalized(k)
            v == strokes[k].width
<1>0. /\ X(k) \subseteq Permil /\ x0 \in X(k) /\ x1 \in X(k)
      /\ Y(k) \subseteq Permil /\ y0 \in Y(k) /\ y1 \in Y(k)
      /\ Len(Points(k)) >= 2
      /\ x0 <= Points(k)[1][1] /\ Points(k)[1][1] <= x1
      /\ y0 <= Points(k)[1][2] /\ Points(k)[1][2] <= y1
      /\ Points(k)[1][1] \in Permil /\ Points(k)[1][2] \in Permil
  <2>1. /\ X(k) \subseteq Permil /\ x0 \in X(k) /\ x1 \in X(k)
        /\ Y(k) \subseteq Permil /\ y0 \in Y(k) /\ y1 \in Y(k)
        /\ Len(Points(k)) >= 2 /\ k \in DOMAIN strokes
    BY ProjectedAre
  <2>2. Len(Points(k)) \in Nat
    BY <2>1, PointsAre DEF Line
  <2>3. 1 \in 1..Len(Points(k))
    BY <2>1, <2>2
  <2>4. /\ x0 <= Points(k)[1][1] /\ Points(k)[1][1] <= x1
        /\ y0 <= Points(k)[1][2] /\ Points(k)[1][2] <= y1
    BY <2>3, ProjectedAre
  <2>5. Points(k)[1][1] \in Permil /\ Points(k)[1][2] \in Permil
    BY <2>1, <2>3, PointsAre DEF Line
  <2>. QED
    BY <2>1, <2>4, <2>5
<1>1. x0 \in 0..1000 /\ x1 \in 0..1000 /\ y0 \in 0..1000 /\ y1 \in 0..1000
  BY <1>0 DEF Permil
<1>2. x0 <= x1 /\ y0 <= y1
  <2>. DEFINE px == Points(k)[1][1] py == Points(k)[1][2]
  <2>1. px \in Int /\ py \in Int /\ x0 <= px /\ px <= x1 /\ y0 <= py /\ py <= y1
    BY <1>0, Permils
  <2>. HIDE DEF px, py, x0, x1, y0, y1
  <2>. QED
    BY <1>1, <2>1
<1>3. v \in Nat
  BY ProjectedAre, StrokesAre
<1>. HIDE DEF x0, x1, y0, y1, v
<1>4. Clamp(v, 3, 350) \in 3..350
  BY <1>3, ClampIs
<1>5. w \in 3..350
  BY <1>4 DEF WidthNormalized, v
<1>6. Span(X(k)) = Max({1, 10 * (x1 - x0)}) /\ Span(Y(k)) = Max({1, 10 * (y1 - y0)})
  BY DEF Span, x0, x1, y0, y1
<1>. DEFINE dx == 10 * (x1 - x0) dy == 10 * (y1 - y0)
<1>61. dx \in 0..10000 /\ dy \in 0..10000 /\ 1 \in Int
  BY <1>1, <1>2
<1>. HIDE DEF dx, dy
<1>7. /\ Max({1, dx}) = IF 1 <= dx THEN dx ELSE 1
      /\ Max({1, dy}) = IF 1 <= dy THEN dy ELSE 1
  BY <1>61, LargerOfTwo
<1>. HIDE DEF w
<1>8. BandFrom(k) = Clamp(y0 - (w \div 2), 0, 1000) /\ BandTo(k) = Clamp(y1 + (w \div 2), 0, 1000)
  BY DEF BandFrom, BandTo, y0, y1, w
<1>. DEFINE a == y0 - (w \div 2) b == y1 + (w \div 2)
<1>9. a \in Int /\ b \in Int
  BY <1>1, <1>5
<1>. HIDE DEF a, b
<1>10. /\ Clamp(a, 0, 1000) = IF a < 0 THEN 0 ELSE IF a > 1000 THEN 1000 ELSE a
       /\ Clamp(b, 0, 1000) = IF b < 0 THEN 0 ELSE IF b > 1000 THEN 1000 ELSE b
  BY <1>9, ClampIs
<1>11. a <= 1000 /\ b >= 0
  BY <1>1, <1>5 DEF a, b
<1>12. /\ BandFrom(k) \in 0..1000 /\ BandTo(k) \in 0..1000
       /\ BandFrom(k) > 0 => BandFrom(k) <= a
       /\ BandTo(k) < 1000 => BandTo(k) >= b
  BY <1>8, <1>9, <1>10, <1>11 DEF a, b
<1>13. /\ Span(X(k)) \in Spans /\ Span(Y(k)) \in Spans
       /\ Span(X(k)) >= 10 * (x1 - x0)
  <2>1. Span(X(k)) = Max({1, dx}) /\ Span(Y(k)) = Max({1, dy})
    BY <1>6 DEF dx, dy
  <2>2. Span(X(k)) \in Spans /\ Span(Y(k)) \in Spans /\ Span(X(k)) >= dx
    <3>. DEFINE sx == Span(X(k)) sy == Span(Y(k))
    <3>1. sx = (IF 1 <= dx THEN dx ELSE 1) /\ sy = (IF 1 <= dy THEN dy ELSE 1)
      BY <1>7, <2>1
    <3>. HIDE DEF sx, sy
    <3>2. sx \in Spans /\ sy \in Spans /\ sx >= dx
      BY <1>61, <3>1 DEF Spans
    <3>. QED
      BY <3>2 DEF sx, sy
  <2>. QED
    BY <2>2 DEF dx
<1>. QED
  BY <1>5, <1>12, <1>13 DEF a, b, w, x0, x1, y0, y1

\* A product grows with its factor.
LEMMA ProductGrows ==
  ASSUME NEW a, NEW b, NEW c, a \in Int /\ b \in Int /\ c \in Nat, a <= b
  PROVE  a * c <= b * c
<1>1. b - a \in Nat
  OBVIOUS
<1>2. (b - a) * c \in Nat
  <2>. DEFINE d == b - a
  <2>. HIDE DEF d
  <2>1. d \in Nat
    BY <1>1 DEF d
  <2>2. d * c \in Nat
    BY <2>1
  <2>. QED
    BY <2>2 DEF d
<1>. QED
  BY <1>2

LEMMA BlendIsBetween ==
  ASSUME NEW p, NEW q, NEW s, NEW lo, NEW hi,
         p \in Int /\ q \in Int /\ lo \in Int /\ hi \in Int, s \in 0..100,
         lo <= p /\ p <= hi, lo <= q /\ q <= hi
  PROVE  LET m == (p * s + q * (100 - s)) \div 100 IN m \in Int /\ lo <= m /\ m <= hi
<1>. DEFINE t == 100 - s
<1>1. s \in Nat /\ t \in Nat /\ s + t = 100
  OBVIOUS
<1>. HIDE DEF t
<1>2. lo * s <= p * s /\ p * s <= hi * s /\ lo * t <= q * t /\ q * t <= hi * t
  BY <1>1, ProductGrows
<1>3. lo * s + lo * t = lo * 100 /\ hi * s + hi * t = hi * 100
  BY <1>1
<1>. DEFINE ps == p * s qt == q * t ls == lo * s lt == lo * t hs == hi * s ht == hi * t
<1>4. ps \in Int /\ qt \in Int /\ ls \in Int /\ lt \in Int /\ hs \in Int /\ ht \in Int
  BY <1>1
<1>5. /\ ls <= ps /\ ps <= hs /\ lt <= qt /\ qt <= ht
      /\ ls + lt = lo * 100 /\ hs + ht = hi * 100
  BY <1>2, <1>3
<1>. HIDE DEF ps, qt, ls, lt, hs, ht
<1>6. LET m == (ps + qt) \div 100 IN m \in Int /\ lo <= m /\ m <= hi
  BY <1>4, <1>5
<1>. QED
  BY <1>6 DEF ps, qt, t

LEMMA SmoothIs ==
  ASSUME NEW t, t \in 0..100
  PROVE  Smoothstep(t) \in 0..100
<1>. DEFINE u == 100 - t
            a == t * t * (300 - 2 * t)
            b == u * u * (2 * t + 100)
<1>1. a \in Nat
  <2>. DEFINE x == t * t y == 300 - 2 * t
  <2>1. x \in Nat /\ y \in Nat
    OBVIOUS
  <2>. HIDE DEF x, y
  <2>2. x * y \in Nat
    BY <2>1
  <2>. QED
    BY <2>2 DEF x, y
<1>2. b \in Nat
  <2>. DEFINE x == u * u y == 2 * t + 100
  <2>1. x \in Nat /\ y \in Nat
    OBVIOUS
  <2>. HIDE DEF x, y
  <2>2. x * y \in Nat
    BY <2>1
  <2>. QED
    BY <2>2 DEF x, y
<1>3. a + b = 1000000
  OBVIOUS
<1>. HIDE DEF a, b, u
<1>4. a \div 10000 \in 0..100
  BY <1>1, <1>2, <1>3
<1>. QED
  BY <1>4 DEF a, Smoothstep

\* A line of at least two points between two latitudes.
Path(pts, n, lo, hi) ==
    /\ n \in Nat /\ n >= 2 /\ DOMAIN pts = 1..n /\ Len(pts) = n
    /\ \A i \in 1..n : pts[i][1] \in Int /\ pts[i][2] \in Int /\ lo <= pts[i][2] /\ pts[i][2] <= hi

LEMMA PathsAre ==
  ASSUME NEW n, n \in Nat, n >= 2, NEW lo, NEW hi, NEW f, NEW g, NEW pts,
         pts = [i \in 1..n |-> <<f[i], g[i]>>],
         \A i \in 1..n : f[i] \in Int /\ g[i] \in Int /\ lo <= g[i] /\ g[i] <= hi
  PROVE  Path(pts, n, lo, hi)
<1>. DEFINE E == Int \X Int m == n
<1>1. \A i \in 1..n : pts[i] \in E /\ pts[i][1] = f[i] /\ pts[i][2] = g[i]
  OBVIOUS
<1>. HIDE DEF E
<1>2. pts \in [1..m -> E] /\ m \in Nat
  BY <1>1
<1>. HIDE DEF m
<1>3. pts \in Seq(E) /\ Len(pts) = m
  BY <1>2
<1>. QED
  BY <1>1, <1>3 DEF Path, m

\* Bending a line to meet itself at the seam leaves its latitudes.
LEMMA PeriodicIs ==
  ASSUME NEW pts, NEW n, NEW lo, NEW hi, lo \in Int /\ hi \in Int, Path(pts, n, lo, hi)
  PROVE  Path(MakePeriodic(pts), n, lo, hi)
<1>. DEFINE seamY == (pts[1][2] + pts[n][2]) \div 2
            near(p) == Clamp((Min({p[1], 1000 - p[1]}) * 100) \div 140, 0, 100)
            bent(p) == (p[2] * Smoothstep(near(p)) + seamY * (100 - Smoothstep(near(p)))) \div 100
            f == [i \in 1..n |-> IF i = 1 THEN 0 ELSE IF i = n THEN 1000 ELSE pts[i][1]]
            g == [i \in 1..n |-> IF i = 1 \/ i = n THEN seamY ELSE bent(pts[i])]
            new == MakePeriodic(pts)
<1>1. n \in Nat /\ n >= 2 /\ Len(pts) = n /\ 1 \in 1..n /\ n \in 1..n
  BY DEF Path
<1>2. seamY \in Int /\ lo <= seamY /\ seamY <= hi
  BY <1>1 DEF Path
<1>3. ASSUME NEW i \in 1..n
      PROVE  bent(pts[i]) \in Int /\ lo <= bent(pts[i]) /\ bent(pts[i]) <= hi
  <2>. DEFINE x == pts[i][1] y == pts[i][2]
              h == (Min({x, 1000 - x}) * 100) \div 140
              s == Smoothstep(Clamp(h, 0, 100))
  <2>1. x \in Int /\ y \in Int /\ lo <= y /\ y <= hi
    BY DEF Path
  <2>2. h \in Int
    <3>1. Min({x, 1000 - x}) = IF x <= 1000 - x THEN x ELSE 1000 - x
      <4>. DEFINE z == 1000 - x
      <4>1. z \in Int
        BY <2>1
      <4>. HIDE DEF x, z
      <4>2. Min({x, z}) = IF x <= z THEN x ELSE z
        BY <2>1, <4>1, LesserOfTwo
      <4>. QED
        BY <4>2 DEF z
    <3>. DEFINE v == Min({x, 1000 - x})
    <3>2. v \in Int
      BY <2>1, <3>1
    <3>. HIDE DEF v
    <3>. QED
      BY <3>2 DEF v
  <2>. HIDE DEF h
  <2>3. Clamp(h, 0, 100) \in 0..100
    <3>. DEFINE a == 0 b == 100
    <3>1. a \in Int /\ b \in Int /\ a <= b
      OBVIOUS
    <3>. HIDE DEF a, b
    <3>2. Clamp(h, a, b) \in a..b
      BY <2>2, <3>1, ClampIs
    <3>. QED
      BY <3>2 DEF a, b
  <2>4. s \in 0..100
    BY <2>3, SmoothIs
  <2>. HIDE DEF x, y, s, seamY
  <2>5. LET m == (y * s + seamY * (100 - s)) \div 100 IN m \in Int /\ lo <= m /\ m <= hi
    BY <1>2, <2>1, <2>4, BlendIsBetween
  <2>6. bent(pts[i]) = (y * s + seamY * (100 - s)) \div 100
    BY Zenon DEF x, y, s, h
  <2>. QED
    BY <2>5, <2>6
<1>4. new = [i \in 1..n |-> <<f[i], g[i]>>]
  <2>1. new = [i \in 1..n |-> CASE i = 1 -> <<0, seamY>> [] i = n -> <<1000, seamY>>
                                [] OTHER -> <<pts[i][1], bent(pts[i])>>]
    BY <1>1 DEF MakePeriodic
  <2>. HIDE DEF bent, seamY
  <2>. QED
    BY <1>1, <2>1
<1>5. \A i \in 1..n : pts[i][1] \in Int
  BY DEF Path
<1>6. \A i \in 1..n : f[i] \in Int /\ g[i] \in Int /\ lo <= g[i] /\ g[i] <= hi
  <2>. HIDE DEF bent, seamY
  <2>. QED
    BY <1>2, <1>3, <1>5
<1>. HIDE DEF f, g, new
<1>7. Path(new, n, lo, hi)
  BY <1>1, <1>4, <1>6, PathsAre
<1>. QED
  BY <1>7 DEF new

\* What is painted of a stroke lies between its northernmost and its southernmost point.
LEMMA ProjectedPointsAre ==
  ASSUME Drawn, NEW k, k \in Projected
  PROVE  /\ Path(Points(k), Len(Points(k)), Min(Y(k)), Max(Y(k)))
         /\ Path(ProjectedPoints(k), Len(Points(k)), Min(Y(k)), Max(Y(k)))
<1>. DEFINE pts == Points(k) n == Len(pts) lo == Min(Y(k)) hi == Max(Y(k))
            x0 == Min(X(k)) s == Span(X(k))
            f == [i \in 1..n |-> ((pts[i][1] - x0) * 10000) \div s]
            g == [i \in 1..n |-> pts[i][2]]
            wide == [i \in DOMAIN pts |-> <<((pts[i][1] - x0) * 10000) \div s, pts[i][2]>>]
<1>1. k \in DOMAIN strokes /\ n >= 2
  BY ProjectedAre
<1>2. Line(pts, n)
  BY <1>1, PointsAre
<1>3. n \in Nat /\ DOMAIN pts = 1..n /\ \A i \in 1..n : pts[i][1] \in Int /\ pts[i][2] \in Int
  BY <1>2, Permils DEF Line
<1>4. \A i \in 1..n : lo <= pts[i][2] /\ pts[i][2] <= hi
  BY ProjectedAre
<1>5. lo \in Int /\ hi \in Int /\ x0 \in Int
  BY ProjectedAre, Permils
<1>6. s \in 1..10000
  BY BandsAre DEF Spans
<1>7. Path(pts, n, lo, hi)
  BY <1>1, <1>2, <1>3, <1>4 DEF Path, Line
<1>. HIDE DEF x0, s, pts, n, lo, hi
<1>8. Path(wide, n, lo, hi)
  <2>1. \A i \in 1..n : f[i] \in Int /\ g[i] \in Int /\ lo <= g[i] /\ g[i] <= hi
    <3>1. ASSUME NEW i \in 1..n PROVE ((pts[i][1] - x0) * 10000) \div s \in Int
      <4>. DEFINE z == (pts[i][1] - x0) * 10000
      <4>1. z \in Int
        BY <1>3, <1>5
      <4>. HIDE DEF z
      <4>2. z \div s \in Int
        BY <1>6, <4>1
      <4>. QED
        BY <4>2 DEF z
    <3>. QED
      BY <1>3, <1>4, <3>1
  <2>2. wide = [i \in 1..n |-> <<f[i], g[i]>>]
    BY <1>3
  <2>. HIDE DEF f, g, wide
  <2>3. n >= 2
    BY <1>1 DEF n, pts
  <2>. QED
    BY <1>3, <2>1, <2>2, <2>3, PathsAre
<1>. HIDE DEF wide
<1>9. Path(MakePeriodic(wide), n, lo, hi)
  BY <1>5, <1>8, PeriodicIs
<1>10. ProjectedPoints(k) = IF WrapsLongitude(k) THEN MakePeriodic(wide) ELSE pts
  BY Zenon DEF ProjectedPoints, wide, pts, x0, s
<1>11. Path(ProjectedPoints(k), n, lo, hi)
  BY <1>7, <1>9, <1>10
<1>. QED
  BY <1>7, <1>11 DEF pts, n, lo, hi

LEMMA QuotientIsBetween ==
  ASSUME NEW z, NEW d, NEW p, NEW q, z \in Int /\ p \in Int /\ q \in Int, d \in Nat \ {0},
         p * d <= z, z <= q * d
  PROVE  z \div d \in Int /\ p <= z \div d /\ z \div d <= q
<1>. DEFINE f == z \div d
<1>1. f \in Int /\ d \in Nat /\ d > 0
  OBVIOUS
<1>2. f * d <= z /\ z < f * d + d
  OBVIOUS
<1>. HIDE DEF f
<1>3. p <= f
  <2>1. SUFFICES ASSUME f + 1 <= p PROVE FALSE
    BY <1>1
  <2>. DEFINE g == f + 1
  <2>2. g \in Int /\ g <= p /\ g * d = f * d + d
    BY <1>1, <2>1
  <2>. HIDE DEF g
  <2>3. g * d <= p * d
    BY <1>1, <2>2, ProductGrows
  <2>. DEFINE gd == g * d pd == p * d fd == f * d
  <2>4. gd \in Int /\ pd \in Int /\ fd \in Int
    BY <1>1, <2>2
  <2>5. gd <= pd /\ gd = fd + d /\ z < fd + d /\ pd <= z
    BY <1>2, <2>2, <2>3
  <2>. HIDE DEF gd, pd, fd
  <2>. QED
    BY <1>1, <2>4, <2>5
<1>4. f <= q
  <2>1. SUFFICES ASSUME q + 1 <= f PROVE FALSE
    BY <1>1
  <2>. DEFINE g == q + 1
  <2>2. g \in Int /\ g <= f /\ g * d = q * d + d
    BY <1>1, <2>1
  <2>. HIDE DEF g
  <2>3. g * d <= f * d
    BY <1>1, <2>2, ProductGrows
  <2>. DEFINE gd == g * d qd == q * d fd == f * d
  <2>4. gd \in Int /\ qd \in Int /\ fd \in Int
    BY <1>1, <2>2
  <2>5. gd <= fd /\ gd = qd + d /\ fd <= z /\ z <= qd
    BY <1>2, <2>2, <2>3
  <2>. HIDE DEF gd, qd, fd
  <2>. QED
    BY <1>1, <2>4, <2>5
<1>. QED
  BY <1>1, <1>3, <1>4 DEF f

\* A straight line from u to v over d columns is between them after e of them.
LEMMA LineIsBetween ==
  ASSUME NEW u, NEW v, NEW d, NEW e, NEW lo, NEW hi,
         u \in Int /\ v \in Int /\ lo \in Int /\ hi \in Int, d \in Nat \ {0}, e \in 0..d,
         lo <= u /\ u <= hi /\ lo <= v /\ v <= hi
  PROVE  LET at == u + ((v - u) * e) \div d IN at \in Int /\ lo <= at /\ at <= hi
<1>. DEFINE w == v - u z == w * e
<1>1. w \in Int /\ e \in Nat /\ d \in Nat /\ e <= d
  OBVIOUS
<1>. HIDE DEF w
<1>2. z \in Int
  BY <1>1
<1>3. CASE w >= 0
  <2>0. w \in Nat
    BY <1>1, <1>3
  <2>1. e * w <= d * w /\ 0 * w <= e * w
    BY <1>1, <2>0, ProductGrows
  <2>2. 0 * d <= z /\ z <= w * d
    BY <1>1, <2>0, <2>1
  <2>. HIDE DEF z
  <2>. DEFINE o == 0
  <2>3. o * d <= z /\ o \in Int
    BY <2>2
  <2>. HIDE DEF o
  <2>4. z \div d \in Int /\ o <= z \div d /\ z \div d <= w
    BY <1>1, <1>2, <2>2, <2>3, QuotientIsBetween
  <2>. QED
    BY <2>4 DEF o, z, w
<1>4. CASE w < 0
  <2>. DEFINE n == -w
  <2>0. n \in Nat
    BY <1>1, <1>4
  <2>. HIDE DEF n
  <2>1. e * n <= d * n /\ 0 * n <= e * n
    BY <1>1, <2>0, ProductGrows
  <2>2. e * n = -(w * e) /\ d * n = -(w * d) /\ 0 * n = 0
    BY <1>1, <2>0 DEF n
  <2>3. w * d <= z /\ z <= 0
    <3>. DEFINE en == e * n dn == d * n we == w * e wd == w * d
    <3>1. en \in Int /\ dn \in Int /\ we \in Int /\ wd \in Int
      BY <1>1, <2>0
    <3>2. en <= dn /\ 0 <= en /\ en = -we /\ dn = -wd
      BY <2>1, <2>2
    <3>. HIDE DEF en, dn, we, wd
    <3>3. wd <= we /\ we <= 0
      BY <3>1, <3>2
    <3>. QED
      BY <3>3 DEF we, wd
  <2>. HIDE DEF z
  <2>. DEFINE o == 0
  <2>4. z <= o * d /\ o \in Int
    BY <2>3
  <2>. HIDE DEF o
  <2>5. z \div d \in Int /\ w <= z \div d /\ z \div d <= o
    BY <1>1, <1>2, <2>3, <2>4, QuotientIsBetween
  <2>. QED
    BY <2>5 DEF o, z, w
<1>. QED
  BY <1>1, <1>3, <1>4

\* What a segment covers of a texel is a share, and less than half outside of its band.
LEMMA CoversAre ==
  ASSUME NEW a, NEW b, NEW half, NEW x, NEW y, NEW lo, NEW hi,
         a[1] \in Int /\ a[2] \in Int /\ b[1] \in Int /\ b[2] \in Int,
         half \in Int /\ x \in Int /\ y \in Int /\ lo \in Int /\ hi \in Int,
         lo <= a[2] /\ a[2] <= hi /\ lo <= b[2] /\ b[2] <= hi
  PROVE  /\ SegmentCovers(a, b, half, x, y) \in 0..100
         /\ y + half < lo \/ y - half > hi => SegmentCovers(a, b, half, x, y) < 50
<1>. DEFINE l == IF a[1] <= b[1] THEN a ELSE b
            r == IF a[1] <= b[1] THEN b ELSE a
            c == Clamp(x, l[1], r[1])
            at == l[2] + ((r[2] - l[2]) * (c - l[1])) \div (r[1] - l[1])
            dy == IF l[1] = r[1] THEN Off(y, Min({a[2], b[2]}), Max({a[2], b[2]})) ELSE Off(y, at, at)
            ox == Off(x, l[1], r[1])
            out == Max({dy, ox})
            arg == 50 + half - out
            cov == SegmentCovers(a, b, half, x, y)
<1>0. cov = Clamp(arg, 0, 100)
  BY Zenon DEF SegmentCovers
<1>1. /\ l[1] \in Int /\ l[2] \in Int /\ r[1] \in Int /\ r[2] \in Int /\ l[1] <= r[1]
      /\ lo <= l[2] /\ l[2] <= hi /\ lo <= r[2] /\ r[2] <= hi
  OBVIOUS
<1>. DEFINE l1 == l[1] l2 == l[2] r1 == r[1] r2 == r[2]
<1>. HIDE DEF l, r
<1>2. dy \in Nat /\ dy >= lo - y /\ dy >= y - hi
  <2>1. CASE l1 = r1
    <3>. DEFINE p == a[2] q == b[2] mn == Min({p, q}) mx == Max({p, q})
    <3>1. p \in Int /\ q \in Int /\ lo <= p /\ p <= hi /\ lo <= q /\ q <= hi
      OBVIOUS
    <3>. HIDE DEF p, q
    <3>2. mn = (IF p <= q THEN p ELSE q) /\ mx = (IF p <= q THEN q ELSE p)
      BY <3>1, LesserOfTwo, LargerOfTwo
    <3>. HIDE DEF mn, mx
    <3>3. mn \in Int /\ mx \in Int /\ lo <= mn /\ mx <= hi
      BY <3>1, <3>2
    <3>4. Off(y, mn, mx) \in Nat /\ Off(y, mn, mx) >= mn - y /\ Off(y, mn, mx) >= y - mx
      BY <3>3, OffIs
    <3>5. dy = Off(y, mn, mx)
      BY <2>1 DEF mn, mx, p, q
    <3>. DEFINE o == Off(y, mn, mx)
    <3>6. o \in Nat /\ o >= mn - y /\ o >= y - mx
      BY <3>4
    <3>. HIDE DEF o
    <3>7. o >= lo - y /\ o >= y - hi
      BY <3>1, <3>3, <3>6
    <3>. QED
      BY <3>5, <3>6, <3>7 DEF o
  <2>2. CASE l1 # r1
    <3>. DEFINE d == r1 - l1 e == c - l1
    <3>1. l1 \in Int /\ r1 \in Int /\ l2 \in Int /\ r2 \in Int /\ l1 < r1
      BY <1>1, <2>2
    <3>. HIDE DEF l1, r1, l2, r2
    <3>2. Clamp(x, l1, r1) \in l1..r1
      BY <3>1, ClampIs
    <3>3. c = Clamp(x, l1, r1)
      BY Zenon DEF l1, r1
    <3>. HIDE DEF c
    <3>4. d \in Nat \ {0} /\ e \in 0..d
      BY <3>1, <3>2, <3>3
    <3>. HIDE DEF d, e
    <3>5. LET v == l2 + ((r2 - l2) * e) \div d IN v \in Int /\ lo <= v /\ v <= hi
      <4>1. lo <= l2 /\ l2 <= hi /\ lo <= r2 /\ r2 <= hi
        BY <1>1 DEF l2, r2
      <4>. QED
        BY <3>1, <3>4, <4>1, LineIsBetween
    <3>6. at \in Int /\ lo <= at /\ at <= hi
      BY <3>5, Zenon DEF l1, l2, r1, r2, d, e
    <3>. HIDE DEF at
    <3>7. Off(y, at, at) \in Nat /\ Off(y, at, at) >= at - y /\ Off(y, at, at) >= y - at
      BY <3>6, OffIs
    <3>8. dy = Off(y, at, at)
      BY <2>2, Zenon DEF l1, r1
    <3>. DEFINE o == Off(y, at, at)
    <3>9. o \in Nat /\ o >= at - y /\ o >= y - at
      BY <3>7
    <3>. HIDE DEF o
    <3>10. o >= lo - y /\ o >= y - hi
      BY <3>6, <3>9
    <3>. QED
      BY <3>8, <3>9, <3>10 DEF o
  <2>. QED
    BY <2>1, <2>2
<1>3. ox \in Nat
  <2>. HIDE DEF l1, r1
  <2>1. l1 \in Int /\ r1 \in Int
    BY <1>1 DEF l1, r1
  <2>2. Off(x, l1, r1) \in Nat
    BY <2>1, OffIs
  <2>. QED
    BY <2>2 DEF l1, r1
<1>. HIDE DEF dy, ox
<1>35. dy \in Int /\ ox \in Int
  BY <1>2, <1>3
<1>4. out = IF dy <= ox THEN ox ELSE dy
  BY <1>35, LargerOfTwo
<1>. HIDE DEF out
<1>5. out \in Nat /\ out >= dy
  BY <1>2, <1>3, <1>4
<1>6. arg \in Int
  BY <1>5
<1>. DEFINE zero == 0 all == 100
<1>7. zero \in Int /\ all \in Int /\ zero <= all
  OBVIOUS
<1>8. y + half < lo \/ y - half > hi => arg < 50
  BY <1>2, <1>5
<1>. HIDE DEF arg, zero, all
<1>9. /\ Clamp(arg, zero, all) = IF arg < zero THEN zero ELSE IF arg > all THEN all ELSE arg
      /\ Clamp(arg, zero, all) \in zero..all
  BY <1>6, <1>7, ClampIs
<1>10. cov \in 0..100 /\ (arg < 50 => cov < 50)
  BY <1>0, <1>6, <1>9 DEF zero, all
<1>. QED
  BY <1>8, <1>10

Share == 0..100

LEMMA CanvasIs ==
  ASSUME NEW pts, NEW n, NEW lo, NEW hi, NEW half, NEW rows, NEW cols, NEW shifts,
         Path(pts, n, lo, hi), lo \in Int /\ hi \in Int /\ half \in Int,
         shifts \subseteq Int, shifts # {},
         NEW t, t \in (0..(rows - 1)) \X (0..(cols - 1))
  PROVE  /\ Canvas(pts, half, rows, cols, shifts)[t] \in Share
         /\ 100 * t[1] + 50 + half < lo \/ 100 * t[1] + 50 - half > hi
              => Canvas(pts, half, rows, cols, shifts)[t] < 50
<1>. DEFINE y == 100 * t[1] + 50
            x(s) == 100 * t[2] + 50 + s
            c(i, s) == SegmentCovers(pts[i], pts[i + 1], half, x(s), y)
            I == 1..(Len(pts) - 1)
            T == {c(i, s) : i \in I, s \in shifts}
            low == y + half < lo \/ y - half > hi
            alpha == Canvas(pts, half, rows, cols, shifts)[t]
<1>1. alpha = Max(T)
  BY DEF Canvas
<1>2. n \in Nat /\ n >= 2 /\ Len(pts) = n
  BY DEF Path
<1>3. y \in Int /\ \A s \in shifts : x(s) \in Int
  OBVIOUS
<1>4. ASSUME NEW i \in 1..(n - 1), NEW s \in shifts
      PROVE  c(i, s) \in Share /\ (low => c(i, s) < 50)
  <2>. DEFINE a == pts[i] b == pts[i + 1] xs == x(s)
  <2>1. i \in 1..n /\ i + 1 \in 1..n
    BY <1>2
  <2>2. /\ a[1] \in Int /\ a[2] \in Int /\ lo <= a[2] /\ a[2] <= hi
        /\ b[1] \in Int /\ b[2] \in Int /\ lo <= b[2] /\ b[2] <= hi
    BY <2>1 DEF Path
  <2>3. xs \in Int
    BY <1>3
  <2>. HIDE DEF a, b, xs, y
  <2>4. /\ SegmentCovers(a, b, half, xs, y) \in 0..100
        /\ y + half < lo \/ y - half > hi => SegmentCovers(a, b, half, xs, y) < 50
    BY <1>3, <2>2, <2>3, CoversAre
  <2>. QED
    BY <2>4, Zenon DEF a, b, xs, Share
<1>. HIDE DEF c, low, y, x
<1>5. 1 \in I /\ I = 1..(n - 1)
  BY <1>2
<1>a. \A i \in I, s \in shifts : c(i, s) \in Share /\ (low => c(i, s) < 50)
  BY <1>4, <1>5, Zenon
<1>. HIDE DEF I
<1>b. T # {}
  <2>1. PICK s : s \in shifts
    OBVIOUS
  <2>2. c(1, s) \in T
    BY <1>5, <2>1
  <2>. HIDE DEF T
  <2>. QED
    BY <2>2, Zenon
<1>6. \A v \in T : v \in Share /\ (low => v < 50)
  <2>1. ASSUME NEW v \in T PROVE v \in Share /\ (low => v < 50)
    <3>1. PICK i \in I, s \in shifts : v = c(i, s)
      OBVIOUS
    <3>2. c(i, s) \in Share /\ (low => c(i, s) < 50)
      BY <1>a
    <3>. QED
      BY <3>1, <3>2
  <2>. QED
    BY <2>1
<1>. DEFINE zero == 0 all == 100
<1>. HIDE DEF T
<1>7. zero \in Int /\ all \in Int /\ T \in SUBSET (zero..all)
  <2>1. T \subseteq Share
    BY <1>6
  <2>. QED
    BY <2>1 DEF Share
<1>. HIDE DEF zero, all
<1>8. Max(T) \in T
  BY <1>b, <1>7, BoundedMax
<1>9. alpha \in Share /\ (low => alpha < 50)
  BY <1>1, <1>6, <1>8, Zenon
<1>. HIDE DEF alpha
<1>. QED
  BY <1>9 DEF low, y, alpha

\* Half the width of a brush, in hundredths of a texel.
LEMMA HalfIs ==
  ASSUME NEW w, w \in 3..350, NEW z, z \in Nat, NEW d, d \in Nat \ {0}
  PROVE  LET h == Max({100, (w * z) \div d})
         IN  h \in Nat /\ (h = 100 \/ h * d <= w * z)
<1>. DEFINE p == w * z
<1>1. p \in Nat
  BY DEF p
<1>. HIDE DEF p
<1>. DEFINE q == p \div d
<1>2. q \in Int /\ q >= 0 /\ q * d <= p
  BY <1>1
<1>. HIDE DEF q
<1>. DEFINE c == 100
<1>3. c \in Int
  OBVIOUS
<1>. HIDE DEF c
<1>4. Max({c, q}) = IF c <= q THEN q ELSE c
  BY <1>2, <1>3, LargerOfTwo
<1>5. Max({c, q}) \in Nat /\ (Max({c, q}) = 100 \/ Max({c, q}) * d <= p)
  BY <1>2, <1>4 DEF c
<1>. QED
  BY <1>5 DEF c, p, q

\* A stroke covers of each texel a share, less than half of those it does not reach.
LEMMA StrokeIs ==
  ASSUME Drawn, NEW k, k \in Projected
  PROVE  /\ DOMAIN DrawProjectedStroke(k) = Texel
         /\ \A t \in Texel :
               /\ DrawProjectedStroke(k)[t] \in Share
               /\ t[1] \notin Reaches(k) => DrawProjectedStroke(k)[t] < 50
<1>. DEFINE pts == ProjectedPoints(k) n == Len(Points(k)) lo == Min(Y(k)) hi == Max(Y(k))
            w == WidthNormalized(k)
            half == Max({100, (w * H) \div 20})
            f == [i \in 1..n |-> (pts[i][1] * W) \div 10]
            g == [i \in 1..n |-> (pts[i][2] * (H - 1)) \div 10]
            new == [i \in DOMAIN pts |-> <<(pts[i][1] * W) \div 10, (pts[i][2] * (H - 1)) \div 10>>]
            lo1 == (lo * (H - 1)) \div 10
            hi1 == (hi * (H - 1)) \div 10
            shifts == {-100 * W, 0, 100 * W}
            alpha == DrawProjectedStroke(k)
            from == BandFrom(k) to == BandTo(k)
<1>1. alpha = Canvas(new, half, H, W, shifts)
  BY Zenon DEF DrawProjectedStroke
<1>2. /\ W \in Nat /\ H \in Nat /\ H >= 1 /\ H <= 1000
  BY SizesAre
<1>3. /\ lo \in 0..1000 /\ hi \in 0..1000
      /\ w \in 3..350 /\ from \in 0..1000 /\ to \in 0..1000
      /\ from > 0 => from <= lo - (w \div 2)
      /\ to < 1000 => to >= hi + (w \div 2)
  <2>1. Min(Y(k)) \in Permil /\ Max(Y(k)) \in Permil
    BY ProjectedAre
  <2>2. lo \in 0..1000 /\ hi \in 0..1000
    BY <2>1 DEF Permil
  <2>. QED
    BY <2>2, BandsAre
<1>4. Path(pts, n, lo, hi)
  BY ProjectedPointsAre
<1>5. half \in Nat /\ (half = 100 \/ half * 20 <= w * H)
  <2>. DEFINE d == 20
  <2>1. d \in Nat \ {0}
    OBVIOUS
  <2>. HIDE DEF w, d
  <2>2. LET h == Max({100, (w * H) \div d}) IN h \in Nat /\ (h = 100 \/ h * d <= w * H)
    <3>1. w \in 3..350 /\ H \in Nat /\ d \in Nat \ {0}
      BY <1>2, <1>3, <2>1
    <3>. QED
      BY <3>1, HalfIs
  <2>. QED
    BY <2>2 DEF d
<1>. DEFINE h1 == H - 1
<1>6. h1 \in Nat /\ h1 <= 999
  BY <1>2
<1>7. lo1 \in Int /\ hi1 \in Int
  <2>. HIDE DEF h1, lo, hi
  <2>1. lo * h1 \in Int /\ hi * h1 \in Int
    BY <1>3, <1>6
  <2>. DEFINE a == lo * h1 b == hi * h1
  <2>. HIDE DEF a, b
  <2>2. a \div 10 \in Int /\ b \div 10 \in Int
    BY <2>1 DEF a, b
  <2>. QED
    BY <2>2 DEF a, b, h1
<1>8. Path(new, n, lo1, hi1)
  <2>. HIDE DEF lo, hi
  <2>1. n \in Nat /\ n >= 2 /\ DOMAIN pts = 1..n
    BY <1>4 DEF Path
  <2>2. ASSUME NEW i \in 1..n
        PROVE  f[i] \in Int /\ g[i] \in Int /\ lo1 <= g[i] /\ g[i] <= hi1
    <3>. DEFINE x == pts[i][1] y == pts[i][2]
    <3>1. x \in Int /\ y \in Int /\ lo <= y /\ y <= hi
      BY <1>4 DEF Path
    <3>. HIDE DEF x, y, h1
    <3>2. x * W \in Int /\ y * h1 \in Int /\ lo * h1 \in Int /\ hi * h1 \in Int
      BY <1>2, <1>3, <1>6, <3>1
    <3>3. lo * h1 <= y * h1 /\ y * h1 <= hi * h1
      BY <1>3, <1>6, <3>1, ProductGrows
    <3>. DEFINE xw == x * W yh == y * h1 a == lo * h1 b == hi * h1
    <3>. HIDE DEF xw, yh, a, b
    <3>4. xw \div 10 \in Int /\ yh \div 10 \in Int /\ a \div 10 <= yh \div 10 /\ yh \div 10 <= b \div 10
      BY <3>2, <3>3 DEF xw, yh, a, b
    <3>. QED
      BY <3>4 DEF xw, yh, a, b, h1, x, y
  <2>3. new = [i \in 1..n |-> <<f[i], g[i]>>]
    BY <2>1
  <2>. HIDE DEF f, g, new, lo1, hi1, n
  <2>. QED
    BY <2>1, <2>2, <2>3, PathsAre
<1>9. shifts \subseteq Int /\ shifts # {}
  BY <1>2
<1>. HIDE DEF new, lo1, hi1, half, shifts, n, alpha, lo, hi, w, from, to
<1>10. ASSUME NEW t \in Texel
       PROVE  /\ alpha[t] \in Share
              /\ 100 * t[1] + 50 + half < lo1 \/ 100 * t[1] + 50 - half > hi1 => alpha[t] < 50
  <2>1. t \in (0..(H - 1)) \X (0..(W - 1))
    BY DEF Texel
  <2>2. half \in Int
    BY <1>5
  <2>. QED
    BY <1>1, <1>7, <1>8, <1>9, <2>1, <2>2, CanvasIs
<1>11. ASSUME NEW t \in Texel, t[1] \notin Reaches(k)
       PROVE  100 * t[1] + 50 + half < lo1 \/ 100 * t[1] + 50 - half > hi1
  <2>. DEFINE v == t[1]
              fh == from * h1 th == to * h1 lh == lo * h1 hh == hi * h1
              wh == w * H c == w \div 2 ch == c * h1
  <2>1. v \in 0..h1
    BY DEF Texel
  <2>. HIDE DEF v, h1
  <2>2. v \notin ((fh \div 1000) - 2)..((th \div 1000) + 2)
    BY <1>11, ZenonT(60) DEF Reaches, v, h1, from, to
  <2>3. fh \in Nat /\ th \in Nat /\ lh \in Nat /\ hh \in Nat /\ wh \in Nat /\ c \in 0..175 /\ ch \in Nat
    BY <1>2, <1>3, <1>6
  <2>4. lo1 = lh \div 10 /\ hi1 = hh \div 10
    BY DEF lo1, hi1, h1
  <2>5. wh <= 2 * ch + 2 * c + h1 + 1
    <3>1. w <= 2 * c + 1
      BY <1>3
    <3>. HIDE DEF c
    <3>. DEFINE z == 2 * c + 1
    <3>2. z \in Int /\ H \in Nat /\ w \in Int
      BY <1>2, <1>3, <2>3
    <3>3. w <= z
      BY <3>1
    <3>. HIDE DEF z
    <3>4. w * H <= z * H
      BY <3>2, <3>3, ProductGrows
    <3>5. z * H = 2 * ch + 2 * c + h1 + 1
      <4>1. H = h1 + 1
        BY <1>2 DEF h1
      <4>2. z * (h1 + 1) = 2 * (c * h1) + 2 * c + h1 + 1
        BY <1>6, <2>3 DEF z
      <4>. QED
        BY <4>1, <4>2
    <3>. QED
      BY <3>4, <3>5
  <2>6. half * 20 <= 2 * ch + 3350
    <3>. HIDE DEF ch, wh, c
    <3>1. half * 20 <= 2000 \/ half * 20 <= wh
      BY <1>5 DEF wh
    <3>. QED
      BY <1>5, <1>6, <2>3, <2>5, <3>1
  <2>7. CASE v < (fh \div 1000) - 2
    <3>1. from > 0
      <4>1. SUFFICES ASSUME from = 0 PROVE FALSE
        BY <1>3
      <4>2. fh = 0
        BY <1>6, <4>1
      <4>. QED
        BY <2>1, <2>7, <4>2, <1>6
    <3>2. fh <= lh - ch
      <4>1. from <= lo - c
        BY <1>3, <3>1
      <4>. HIDE DEF c
      <4>. DEFINE z == lo - c
      <4>2. z \in Int /\ from \in Int /\ h1 \in Nat
        BY <1>3, <1>6, <2>3
      <4>3. from <= z
        BY <4>1
      <4>. HIDE DEF z
      <4>4. from * h1 <= z * h1
        BY <4>2, <4>3, ProductGrows
      <4>5. z * h1 = lh - ch
        BY <1>3, <1>6, <2>3 DEF z
      <4>. QED
        BY <4>4, <4>5
    <3>. HIDE DEF fh, th, lh, hh, wh, c, ch
    <3>3. 1000 * (v + 3) <= fh
      BY <2>1, <2>3, <2>7, <1>6
    <3>4. 100 * v + 50 + half < lo1
      BY <1>5, <1>7, <1>6, <2>1, <2>3, <2>4, <2>6, <3>2, <3>3
    <3>. QED
      BY <3>4 DEF v
  <2>8. CASE v > (th \div 1000) + 2
    <3>1. to < 1000
      <4>1. SUFFICES ASSUME to = 1000 PROVE FALSE
        BY <1>3
      <4>2. th = 1000 * h1
        BY <1>6, <4>1
      <4>. HIDE DEF th
      <4>. QED
        BY <2>1, <2>8, <4>2, <1>6
    <3>2. th >= hh + ch
      <4>1. to >= hi + c
        BY <1>3, <3>1
      <4>. HIDE DEF c
      <4>. DEFINE z == hi + c
      <4>2. z \in Int /\ to \in Int /\ h1 \in Nat
        BY <1>3, <1>6, <2>3
      <4>3. z <= to
        BY <4>1
      <4>. HIDE DEF z
      <4>4. z * h1 <= to * h1
        BY <4>2, <4>3, ProductGrows
      <4>5. z * h1 = hh + ch
        BY <1>3, <1>6, <2>3 DEF z
      <4>. QED
        BY <4>4, <4>5
    <3>. HIDE DEF fh, th, lh, hh, wh, c, ch
    <3>3. 1000 * (v - 2) > th
      BY <2>1, <2>3, <2>8, <1>6
    <3>4. 100 * v + 50 - half > hi1
      BY <1>5, <1>7, <1>6, <2>1, <2>3, <2>4, <2>6, <3>2, <3>3
    <3>. QED
      BY <3>4 DEF v
  <2>. DEFINE s0 == (fh \div 1000) - 2 s1 == (th \div 1000) + 2
  <2>9. s0 \in Int /\ s1 \in Int /\ v \in Int
    BY <2>1, <2>3
  <2>10. v < s0 \/ v > s1
    <3>1. v \notin s0..s1
      BY <2>2
    <3>. HIDE DEF s0, s1
    <3>. QED
      BY <2>9, <3>1
  <2>. QED
    BY <2>7, <2>8, <2>10
<1>12. DOMAIN alpha = Texel
  <2>1. DOMAIN Canvas(new, half, H, W, shifts) = (0..(H - 1)) \X (0..(W - 1))
    BY DEF Canvas
  <2>. QED
    BY <1>1, <2>1, Zenon DEF Texel
<1>. QED
  BY <1>10, <1>11, <1>12 DEF alpha

\* A stroke covers of each texel of the disc a share.
LEMMA DiscStrokeIs ==
  ASSUME Drawn, NEW k, k \in Projected
  PROVE  /\ DOMAIN DrawDiscStroke(k) = DiscTexel
         /\ \A t \in DiscTexel : DrawDiscStroke(k)[t] \in Share
<1>. DEFINE pts == Points(k) n == Len(Points(k))
            pixel(m) == 50 * S + ((m - 500) * 50 * S) \div 420
            new == [i \in DOMAIN pts |-> <<pixel(pts[i][1]), pixel(pts[i][2])>>]
            half == Max({100, (WidthNormalized(k) * 50 * S) \div 840})
            drawn == Canvas(new, half, S, S, {0})
            r(t) == (100 * t[1] + 50 - 50 * S) * (100 * t[1] + 50 - 50 * S)
                      + (100 * t[2] + 50 - 50 * S) * (100 * t[2] + 50 - 50 * S)
            most == 2652 * S * S
            lo == 50 * S - 60 * S hi == 50 * S + 60 * S
            f == [i \in 1..n |-> pixel(pts[i][1])]
            g == [i \in 1..n |-> pixel(pts[i][2])]
            zero == {0}
<1>1. DrawDiscStroke(k) = [t \in DiscTexel |-> IF r(t) <= most THEN drawn[t] ELSE 0]
  BY Zenon DEF DrawDiscStroke
<1>2. S \in Nat /\ S >= 1
  BY SizesAre
<1>3. half \in Int
  <2>. DEFINE w == WidthNormalized(k) c == 100
  <2>1. w \in 3..350
    BY BandsAre
  <2>. HIDE DEF w
  <2>2. (w * 50 * S) \div 840 \in Int
    <3>1. w * 50 * S \in Int
      BY <1>2, <2>1
    <3>. DEFINE p == w * 50 * S
    <3>. HIDE DEF p
    <3>2. p \div 840 \in Int
      BY <3>1 DEF p
    <3>. QED
      BY <3>2 DEF p
  <2>. DEFINE q == (w * 50 * S) \div 840
  <2>. HIDE DEF q, c
  <2>3. Max({c, q}) \in Int
    <3>1. c \in Int /\ q \in Int
      BY <2>2 DEF c, q
    <3>2. Max({c, q}) = IF c <= q THEN q ELSE c
      BY <3>1, LargerOfTwo
    <3>. QED
      BY <3>1, <3>2
  <2>. QED
    BY <2>3 DEF c, q, w
<1>4. Line(pts, n)
  <2>1. k \in DOMAIN strokes
    BY DEF Projected
  <2>. QED
    BY <2>1, PointsAre
<1>5. n >= 2
  BY DEF Projected
<1>6. ASSUME NEW m, m \in Permil
      PROVE  pixel(m) \in Int /\ lo <= pixel(m) /\ pixel(m) <= hi
  <2>1. m \in Int /\ 0 <= m /\ m <= 1000
    BY <1>6, Permils
  <2>. DEFINE e == (m - 500) * 50 a == 0 - 25000 b == 25000
  <2>2. e \in Int /\ a <= e /\ e <= b /\ a \in Int /\ b \in Int
    BY <2>1
  <2>. HIDE DEF e, a, b
  <2>3. a * S <= e * S /\ e * S <= b * S
    BY <1>2, <2>2, ProductGrows
  <2>. DEFINE p == e * S
  <2>4. p \in Int
    BY <1>2, <2>2
  <2>. HIDE DEF p
  <2>5. /\ p \div 420 \in Int /\ (0 - 60) * S <= p \div 420 /\ p \div 420 <= 60 * S
    <3>1. (0 - 25000) * S <= p /\ p <= 25000 * S
      BY <2>3 DEF a, b, p
    <3>. QED
      BY <1>2, <2>4, <3>1
  <2>6. pixel(m) = 50 * S + p \div 420
    BY DEF p, e
  <2>. QED
    BY <1>2, <2>5, <2>6
<1>. HIDE DEF pixel, lo, hi, half, r, most
<1>7. Path(new, n, lo, hi)
  <2>1. n \in Nat /\ DOMAIN pts = 1..n
    BY <1>4 DEF Line
  <2>2. ASSUME NEW i \in 1..n
        PROVE  f[i] \in Int /\ g[i] \in Int /\ lo <= g[i] /\ g[i] <= hi
    <3>1. pts[i][1] \in Permil /\ pts[i][2] \in Permil
      BY <1>4 DEF Line
    <3>. HIDE DEF pts
    <3>2. f[i] = pixel(pts[i][1]) /\ g[i] = pixel(pts[i][2])
      OBVIOUS
    <3>3. pixel(pts[i][1]) \in Int
      BY <1>6, <3>1
    <3>4. pixel(pts[i][2]) \in Int /\ lo <= pixel(pts[i][2]) /\ pixel(pts[i][2]) <= hi
      BY <1>6, <3>1
    <3>. QED
      BY <3>2, <3>3, <3>4
  <2>3. new = [i \in 1..n |-> <<f[i], g[i]>>]
    BY <2>1
  <2>. HIDE DEF f, g, new, n
  <2>. QED
    BY <1>5, <2>1, <2>2, <2>3, PathsAre
<1>8. lo \in Int /\ hi \in Int
  BY <1>2 DEF lo, hi
<1>9. zero \subseteq Int /\ zero # {}
  OBVIOUS
<1>. DEFINE d == Canvas(new, half, S, S, zero)
<1>10. drawn = d
  OBVIOUS
<1>. HIDE DEF new, n, zero
<1>11. ASSUME NEW t \in DiscTexel
       PROVE  d[t] \in Share
  <2>1. t \in (0..(S - 1)) \X (0..(S - 1))
    BY DEF DiscTexel
  <2>. QED
    BY <1>3, <1>7, <1>8, <1>9, <2>1, CanvasIs
<1>. HIDE DEF d, drawn
<1>12. 0 \in Share
  BY DEF Share
<1>. QED
  BY <1>1, <1>10, <1>11, <1>12

LEMMA SquareIs ==
  ASSUME NEW z, NEW m, z \in Int /\ m \in Nat, -m <= z /\ z <= m
  PROVE  z * z \in Int /\ 0 <= z * z /\ z * z <= m * m
<1>1. PICK w : w \in Nat /\ w <= m /\ z * z = w * w
  <2>1. CASE z >= 0
    <3>1. z \in Nat /\ z <= m
      BY <2>1
    <3>. QED
      BY <3>1
  <2>2. CASE z < 0
    <3>. DEFINE w == -z
    <3>1. w \in Nat /\ w <= m /\ z * z = w * w
      BY <2>2
    <3>. QED
      BY <3>1
  <2>. QED
    BY <2>1, <2>2
<1>2. w * w <= m * w
  BY <1>1, ProductGrows
<1>3. w * m <= m * m
  BY <1>1, ProductGrows
<1>4. w * w \in Nat /\ w * m = m * w /\ w * m \in Nat /\ m * m \in Nat
  BY <1>1
<1>. DEFINE a == w * w b == w * m c == m * m d == m * w e == z * z
<1>. HIDE DEF a, b, c, d, e
<1>5. a <= d /\ b <= c /\ b = d /\ e = a /\ a \in Nat /\ b \in Nat /\ c \in Nat
  BY <1>1, <1>2, <1>3, <1>4 DEF a, b, c, d, e
<1>6. e \in Int /\ 0 <= e /\ e <= c
  BY <1>5
<1>. QED
  BY <1>6 DEF c, e

Root == 0..1500
Squares == {x \in Nat : x <= 1500 * 1500}

\* The root of what two sides of a canvas can make up.
LEMMA IsqrtIs ==
  ASSUME NEW x, x \in Squares
  PROVE  /\ Isqrt(x) \in Root /\ Isqrt(x) * Isqrt(x) <= x
         /\ (Isqrt(x) + 1) * (Isqrt(x) + 1) > x
<1>. DEFINE top == 1500 sq(m) == m * m R == 0..top T == {m \in R : sq(m) <= x}
<1>a. x \in Nat /\ x <= 1500 * 1500
  BY DEF Squares
<1>1. top \in Nat /\ R = Root /\ sq(0) = 0
  BY DEF Root
<1>b. sq(1501) > x
  BY <1>a
<1>2. \A m \in R : sq(m) \in Int /\ sq(m + 1) \in Int
  OBVIOUS
<1>3. \A m \in R : m \in Int /\ 0 <= m /\ m <= 1500 /\ (m < 1500 => m + 1 \in R)
  OBVIOUS
<1>4. 0 \in R
  OBVIOUS
<1>. HIDE DEF sq
<1>5. T \in SUBSET (0..top) /\ 0 \in T
  BY <1>1, <1>4, <1>a
<1>. HIDE DEF top, R
<1>6. PICK m \in T : \A j \in T : m >= j
  <2>1. T # {}
    BY <1>5
  <2>. HIDE DEF T
  <2>2. \E m \in T : \A j \in T : m >= j
    BY <1>1, <1>5, <2>1, GreatestNatural
  <2>. QED
    BY <2>2
<1>7. m \in R /\ sq(m) <= x
  OBVIOUS
<1>8. sq(m + 1) > x
  <2>1. CASE m = 1500
    <3>1. m + 1 = 1501
      BY <2>1
    <3>. QED
      BY <1>b, <3>1
  <2>2. CASE m < 1500
    <3>1. m + 1 \in R /\ m + 1 \notin T
      BY <1>3, <1>6, <1>7, <2>2
    <3>2. ~(sq(m + 1) <= x) /\ sq(m + 1) \in Int
      BY <1>2, <1>7, <3>1
    <3>. QED
      BY <1>a, <3>2
  <2>. QED
    BY <1>3, <1>7, <2>1, <2>2
<1>9. \E n \in Root : n * n <= x /\ (n + 1) * (n + 1) > x
  BY <1>1, <1>7, <1>8 DEF sq
<1>. HIDE DEF sq
<1>10. Isqrt(x) = CHOOSE n \in Root : n * n <= x /\ (n + 1) * (n + 1) > x
  BY DEF Isqrt, Root
<1>. QED
  BY <1>9, <1>10, Zenon

\* Every texel of the sphere is sampled from a texel of the disc.
LEMMA DiscSourceIs ==
  ASSUME NEW t, t \in Texel
  PROVE  DiscSource(t) \in DiscTexel
<1>. DEFINE u == t[2] + 1 v == t[1] + 1
            cu == CosU[u] sv == SinV[v] cv == CosV[v]
            x == (-cu * sv) \div 100 y == cv
            q == x * x + y * y
            r == Clamp(Isqrt(q), 1, 100)
            rho == (70 * r + 30 * Asin[1 + r \div 10]) \div 100
            at(z) == Clamp(((z + 100) * S) \div 200, 0, S - 1)
            dx == (x * rho) \div r dy == (-y * rho) \div r
<1>1. DiscPoint(t) = <<dx, dy>>
  BY Zenon DEF DiscPoint
<1>2. DiscSource(t) = <<at(DiscPoint(t)[2]), at(DiscPoint(t)[1])>>
  BY Zenon DEF DiscSource
<1>3. u \in 1..W /\ v \in 1..H
  BY SizesAre DEF Texel
<1>4. cu \in -100..100 /\ sv \in 0..100 /\ cv \in -100..100
  <2>. DEFINE one == -100..100 two == 0..100
  <2>. HIDE DEF u, v
  <2>1. /\ {CosU[i] : i \in 1..W} \cup {CosV[i] : i \in 1..H} \subseteq one
        /\ {SinV[i] : i \in 1..H} \subseteq two
    BY DrawingAssumption
  <2>. HIDE DEF one, two
  <2>2. cu \in one /\ cv \in one /\ sv \in two
    BY <1>3, <2>1
  <2>. QED
    BY <2>2 DEF one, two
<1>. HIDE DEF cu, sv, cv
<1>5. x \in -100..100
  <2>. DEFINE a == 0 - 100 b == 100 e == -cu
  <2>1. e \in Int /\ a <= e /\ e <= b /\ a \in Int /\ b \in Int /\ sv \in Nat /\ sv <= 100
    BY <1>4
  <2>. HIDE DEF a, b, e
  <2>2. a * sv <= e * sv /\ e * sv <= b * sv
    BY <2>1, ProductGrows
  <2>. DEFINE p == e * sv
  <2>3. p \in Int
    BY <2>1
  <2>. HIDE DEF p
  <2>4. (0 - 100) * 100 <= p /\ p <= 100 * 100
    <3>1. (0 - 100) * sv <= p /\ p <= 100 * sv
      BY <2>2 DEF p, a, b
    <3>. QED
      BY <2>1, <2>3, <3>1
  <2>5. p \div 100 \in -100..100
    BY <2>3, <2>4
  <2>6. -cu * sv = p
    BY <1>4 DEF p, e
  <2>. QED
    BY <2>5, <2>6
<1>6. y \in -100..100
  BY <1>4
<1>. HIDE DEF x, y
<1>7. q \in Squares
  <2>1. /\ x * x \in Int /\ 0 <= x * x /\ x * x <= 100 * 100
        /\ y * y \in Int /\ 0 <= y * y /\ y * y <= 100 * 100
    BY <1>5, <1>6, SquareIs
  <2>. DEFINE a == x * x b == y * y
  <2>. HIDE DEF a, b
  <2>2. /\ a \in Int /\ 0 <= a /\ a <= 100 * 100
        /\ b \in Int /\ 0 <= b /\ b <= 100 * 100
    BY <2>1 DEF a, b
  <2>3. a + b \in Squares
    BY <2>2 DEF Squares
  <2>. QED
    BY <2>3 DEF a, b
<1>. HIDE DEF q
<1>8. r \in 1..100
  <2>. DEFINE i == Isqrt(q) lo == 1 hi == 100
  <2>1. i \in Int
    <3>1. i \in Root
      BY <1>7, IsqrtIs
    <3>. QED
      BY <3>1 DEF Root
  <2>2. lo \in Int /\ hi \in Int /\ lo <= hi
    OBVIOUS
  <2>. HIDE DEF i, lo, hi
  <2>3. Clamp(i, lo, hi) \in lo..hi
    BY <2>1, <2>2, ClampIs
  <2>. QED
    BY <2>3 DEF i, lo, hi
<1>. HIDE DEF r
<1>9. rho \in Int
  <2>1. 1 + r \div 10 \in 1..11
    BY <1>8
  <2>. DEFINE j == 1 + r \div 10
  <2>. HIDE DEF j
  <2>2. Asin[j] \in Int
    BY <2>1 DEF j, Asin
  <2>. DEFINE a == Asin[j]
  <2>. HIDE DEF a
  <2>3. (70 * r + 30 * a) \div 100 \in Int
    BY <1>8, <2>2 DEF a
  <2>. QED
    BY <2>3 DEF a, j
<1>. HIDE DEF rho
<1>10. dx \in Int /\ dy \in Int
  <2>. DEFINE a == x * rho b == -y * rho
  <2>1. a \in Int /\ b \in Int
    BY <1>5, <1>6, <1>9
  <2>. HIDE DEF a, b
  <2>2. a \div r \in Int /\ b \div r \in Int
    BY <1>8, <2>1
  <2>. QED
    BY <2>2 DEF a, b
<1>. HIDE DEF dx, dy
<1>11. ASSUME NEW z, z \in Int PROVE at(z) \in 0..(S - 1)
  <2>. DEFINE a == (z + 100) * S b == S - 1 c == 0
  <2>1. a \in Int /\ b \in Int /\ c \in Int /\ c <= b
    BY <1>11, SizesAre
  <2>. DEFINE e == a \div 200
  <2>2. e \in Int
    <3>. HIDE DEF a
    <3>. QED
      BY <2>1
  <2>. HIDE DEF a, b, c, e
  <2>3. Clamp(e, c, b) \in c..b
    BY <2>1, <2>2, ClampIs
  <2>. QED
    BY <2>3 DEF a, b, c, e
<1>. HIDE DEF at
<1>12. at(dx) \in 0..(S - 1) /\ at(dy) \in 0..(S - 1)
  BY <1>10, <1>11
<1>. QED
  BY <1>1, <1>2, <1>12 DEF DiscTexel

------------------------------------------------------------------------------
(* The distances of the relief.                                             *)

\* The walks of a recursion over D, as a set.
Steps(n, D) == [1..n -> [D -> D]]
Walks(D, base, n, stp) ==
    {h \in [0..n -> D] : h[0] = base /\ \A i \in 1..n : h[i] = stp[i][h[i - 1]]}

LEMMA WalksExist ==
  ASSUME NEW D, NEW base, NEW n, NEW stp, base \in D, n \in Nat, stp \in Steps(n, D)
  PROVE  \E h : h \in Walks(D, base, n, stp)
<1>1. stp \in [1..n -> [D -> D]]
  BY DEF Steps
<1>2. \E h \in [0..n -> D] : h[0] = base /\ \A i \in 1..n : h[i] = stp[i][h[i - 1]]
  BY <1>1, RecursionExists, SMTT(60)
<1>. QED
  BY <1>2, Zenon DEF Walks

\* What a sweep is made of.
Nth(i, n, dir) == IF dir = 1 THEN i - 1 ELSE n - i
Before(dir) == {<<-dir, 0>>, <<-dir, -1>>, <<-dir, 1>>, <<0, -dir>>}
Via(f, near, t, dir) == {f[To(t, d)] + Cost(d) : d \in {b \in Before(dir) : To(t, b) \in near[t]}}
RelaxAt(f, near, t, dir) == [f EXCEPT ![t] = Min({@} \cup Via(f, near, t, dir))]
RowOf(f, near, v, dir) ==
    LET upTo[i \in 0..W] == IF i = 0 THEN f ELSE RelaxAt(upTo[i - 1], near, <<v, Nth(i, W, dir)>>, dir)
    IN  upTo[W]
SweepOf(f, near, dir) ==
    LET upTo[i \in 0..H] == IF i = 0 THEN f ELSE RowOf(upTo[i - 1], near, Nth(i, H, dir), dir)
    IN  upTo[H]

LEMMA RelaxedSweeps ==
  ASSUME NEW field, NEW near
  PROVE  Relaxed(field, near) =
            LET after[i \in 0..Len(Sweeps)] ==
                    IF i = 0 THEN {field} ELSE {SweepOf(f, near, Sweeps[i]) : f \in after[i - 1]}
            IN  CHOOSE f \in after[Len(Sweeps)] : TRUE
BY Zenon DEF Relaxed, SweepOf, RowOf, RelaxAt, Via, Before, Nth

\* Where distances come from are texels.
Inside(near) == \A t \in Texel : near[t] \subseteq Texel
Latitude == 0..(H - 1)

\* The fields with values between lo and hi.
Field(lo, hi) == [Texel -> lo..hi]

LEMMA RelaxAtIs ==
  ASSUME NEW lo, NEW hi, lo \in Int /\ hi \in Int, NEW near, Inside(near),
         NEW f, f \in Field(lo, hi), NEW t, t \in Texel, NEW dir
  PROVE  RelaxAt(f, near, t, dir) \in Field(lo, hi)
<1>. DEFINE I == lo..hi V == Via(f, near, t, dir) T == {f[t]} \cup V a == hi + 1414
<1>1. f \in [Texel -> I]
  BY DEF Field
<1>2. \A i \in I : i \in Int /\ lo <= i /\ i <= hi
  OBVIOUS
<1>3. ASSUME NEW x \in V PROVE x \in Int /\ lo <= x /\ x <= a
  <2>1. PICK d \in Before(dir) : To(t, d) \in near[t] /\ x = f[To(t, d)] + Cost(d)
    BY DEF Via
  <2>. HIDE DEF I
  <2>2. f[To(t, d)] \in I
    BY <1>1, <2>1 DEF Inside
  <2>3. Cost(d) \in {1000, 1414}
    BY DEF Cost
  <2>. QED
    BY <1>2, <2>1, <2>2, <2>3
<1>4. f[t] \in I
  <2>. HIDE DEF I
  <2>. QED
    BY <1>1
<1>. HIDE DEF I, V
<1>5. T \in SUBSET (lo..a) /\ T # {} /\ a \in Int
  BY <1>2, <1>3, <1>4
<1>6. f[t] \in T
  OBVIOUS
<1>. HIDE DEF T, a
<1>7. Min(T) \in T /\ \A y \in T : y >= Min(T)
  BY <1>5, BoundedMin
<1>8. Min(T) \in I
  <2>1. Min(T) \in Int /\ lo <= Min(T)
    <3>1. Min(T) \in lo..a
      BY <1>5, <1>7, Zenon
    <3>. QED
      BY <1>5, <3>1
  <2>2. f[t] >= Min(T) /\ f[t] \in Int /\ f[t] <= hi
    BY <1>2, <1>4, <1>6, <1>7
  <2>. QED
    BY <2>1, <2>2 DEF I
<1>9. RelaxAt(f, near, t, dir) = [f EXCEPT ![t] = Min(T)]
  BY DEF RelaxAt, T, V
<1>10. [f EXCEPT ![t] = Min(T)] \in [Texel -> I]
  BY <1>1, <1>8
<1>. QED
  BY <1>9, <1>10 DEF Field, I

LEMMA RowIs ==
  ASSUME NEW lo, NEW hi, lo \in Int /\ hi \in Int, NEW near, Inside(near),
         NEW field, field \in Field(lo, hi), NEW v, v \in Latitude, NEW dir
  PROVE  RowOf(field, near, v, dir) \in Field(lo, hi)
<1>. DEFINE n == W
            D == Field(lo, hi)
            Next1(f, i) == RelaxAt(f, near, <<v, Nth(i, W, dir)>>, dir)
            IsUp(h) == h = [i \in 0..n |-> IF i = 0 THEN field ELSE Next1(h[i - 1], i)]
            stp == [i \in 1..n |-> [f \in D |-> Next1(f, i)]]
<1>1. n \in Nat
  BY SizesAre
<1>2. ASSUME NEW i \in 1..n, NEW f \in D PROVE Next1(f, i) \in D
  <2>1. <<v, Nth(i, W, dir)>> \in Texel
    BY <1>1 DEF Texel, Nth, Latitude
  <2>. QED
    BY <2>1, RelaxAtIs
<1>3. RowOf(field, near, v, dir) = (CHOOSE k : IsUp(k))[n]
  BY DEF RowOf
<1>4. field \in D
  OBVIOUS
<1>. HIDE DEF D, Next1, n
<1>5. stp \in [1..n -> [D -> D]]
  BY <1>2
<1>6. \A i \in 1..n : \A f \in D : Next1(f, i) = stp[i][f]
  OBVIOUS
<1>. HIDE DEF stp
<1>7. PICK h \in [0..n -> D] : h[0] = field /\ \A i \in 1..n : h[i] = stp[i][h[i - 1]]
  <2>1. stp \in Steps(n, D)
    BY <1>5, Zenon DEF Steps
  <2>2. PICK h : h \in Walks(D, field, n, stp)
    BY <1>1, <1>4, <2>1, WalksExist, Zenon
  <2>. QED
    BY <2>2, Zenon DEF Walks
<1>8. \A i \in 1..n : h[i] = Next1(h[i - 1], i)
  <2>1. \A i \in 1..n : h[i - 1] \in D
    BY <1>1
  <2>. QED
    BY <1>6, <1>7, <2>1
<1>9. IsUp(h)
  <2>1. \A i \in 0..n : h[i] = IF i = 0 THEN field ELSE Next1(h[i - 1], i)
    BY <1>1, <1>7, <1>8
  <2>. QED
    BY <2>1
<1>. DEFINE g == CHOOSE k : IsUp(k)
<1>10. IsUp(g)
  BY <1>9
<1>11. RowOf(field, near, v, dir) = g[n]
  BY <1>3
<1>. HIDE DEF g
<1>12. g[0] = field /\ \A i \in 1..n : g[i] = Next1(g[i - 1], i)
  <2>1. \A i \in 0..n : g[i] = IF i = 0 THEN field ELSE Next1(g[i - 1], i)
    BY <1>10, Zenon
  <2>2. 0 \in 0..n /\ \A i \in 1..n : i \in 0..n /\ i # 0
    BY <1>1
  <2>. QED
    BY <2>1, <2>2
<1>. DEFINE R == {i \in Nat : i <= n => g[i] \in D}
<1>13. 0 \in R
  BY <1>4, <1>12
<1>14. ASSUME NEW i \in Nat, i \in R PROVE i + 1 \in R
  <2>. SUFFICES ASSUME i + 1 <= n PROVE g[i + 1] \in D
    OBVIOUS
  <2>1. g[i] \in D /\ i + 1 \in 1..n /\ i + 1 - 1 = i
    BY <1>1, <1>14
  <2>. QED
    BY <1>2, <1>12, <2>1
<1>15. g[n] \in D
  <2>. HIDE DEF R
  <2>1. Nat \subseteq R
    BY <1>13, <1>14, SetInduction
  <2>. QED
    BY <1>1, <2>1 DEF R
<1>. QED
  BY <1>11, <1>15 DEF D

LEMMA SweepIs ==
  ASSUME NEW lo, NEW hi, lo \in Int /\ hi \in Int, NEW near, Inside(near),
         NEW field, field \in Field(lo, hi), NEW dir
  PROVE  SweepOf(field, near, dir) \in Field(lo, hi)
<1>. DEFINE n == H
            D == Field(lo, hi)
            Next1(f, i) == RowOf(f, near, Nth(i, H, dir), dir)
            IsUp(h) == h = [i \in 0..n |-> IF i = 0 THEN field ELSE Next1(h[i - 1], i)]
            stp == [i \in 1..n |-> [f \in D |-> Next1(f, i)]]
<1>1. n \in Nat
  BY SizesAre
<1>2. ASSUME NEW i \in 1..n, NEW f \in D PROVE Next1(f, i) \in D
  <2>1. Nth(i, H, dir) \in Latitude
    BY <1>1 DEF Nth, Latitude
  <2>. QED
    BY <2>1, RowIs
<1>3. SweepOf(field, near, dir) = (CHOOSE k : IsUp(k))[n]
  BY DEF SweepOf
<1>4. field \in D
  OBVIOUS
<1>. HIDE DEF D, Next1, n
<1>5. stp \in [1..n -> [D -> D]]
  BY <1>2
<1>6. \A i \in 1..n : \A f \in D : Next1(f, i) = stp[i][f]
  OBVIOUS
<1>. HIDE DEF stp
<1>7. PICK h \in [0..n -> D] : h[0] = field /\ \A i \in 1..n : h[i] = stp[i][h[i - 1]]
  <2>1. stp \in Steps(n, D)
    BY <1>5, Zenon DEF Steps
  <2>2. PICK h : h \in Walks(D, field, n, stp)
    BY <1>1, <1>4, <2>1, WalksExist, Zenon
  <2>. QED
    BY <2>2, Zenon DEF Walks
<1>8. \A i \in 1..n : h[i] = Next1(h[i - 1], i)
  <2>1. \A i \in 1..n : h[i - 1] \in D
    BY <1>1
  <2>. QED
    BY <1>6, <1>7, <2>1
<1>9. IsUp(h)
  <2>1. \A i \in 0..n : h[i] = IF i = 0 THEN field ELSE Next1(h[i - 1], i)
    BY <1>1, <1>7, <1>8
  <2>. QED
    BY <2>1
<1>. DEFINE g == CHOOSE k : IsUp(k)
<1>10. IsUp(g)
  BY <1>9
<1>11. SweepOf(field, near, dir) = g[n]
  BY <1>3
<1>. HIDE DEF g
<1>12. g[0] = field /\ \A i \in 1..n : g[i] = Next1(g[i - 1], i)
  <2>1. \A i \in 0..n : g[i] = IF i = 0 THEN field ELSE Next1(g[i - 1], i)
    BY <1>10, Zenon
  <2>2. 0 \in 0..n /\ \A i \in 1..n : i \in 0..n /\ i # 0
    BY <1>1
  <2>. QED
    BY <2>1, <2>2
<1>. DEFINE R == {i \in Nat : i <= n => g[i] \in D}
<1>13. 0 \in R
  BY <1>4, <1>12
<1>14. ASSUME NEW i \in Nat, i \in R PROVE i + 1 \in R
  <2>. SUFFICES ASSUME i + 1 <= n PROVE g[i + 1] \in D
    OBVIOUS
  <2>1. g[i] \in D /\ i + 1 \in 1..n /\ i + 1 - 1 = i
    BY <1>1, <1>14
  <2>. QED
    BY <1>2, <1>12, <2>1
<1>15. g[n] \in D
  <2>. HIDE DEF R
  <2>1. Nat \subseteq R
    BY <1>13, <1>14, SetInduction
  <2>. QED
    BY <1>1, <2>1 DEF R
<1>. QED
  BY <1>11, <1>15 DEF D

\* Sweeping keeps a field between the bounds it starts in.
LEMMA RelaxedIs ==
  ASSUME NEW lo, NEW hi, lo \in Int /\ hi \in Int, NEW near, Inside(near),
         NEW field, field \in Field(lo, hi)
  PROVE  Relaxed(field, near) \in Field(lo, hi)
<1>. DEFINE n == Len(Sweeps)
            D == {F \in SUBSET Field(lo, hi) : F # {}}
            base == {field}
            Next1(F, i) == {SweepOf(f, near, Sweeps[i]) : f \in F}
            IsUp(h) == h = [i \in 0..n |-> IF i = 0 THEN base ELSE Next1(h[i - 1], i)]
            stp == [i \in 1..n |-> [f \in D |-> Next1(f, i)]]
<1>1. n \in Nat
  BY DEF Sweeps
<1>2. ASSUME NEW i \in 1..n, NEW F \in D PROVE Next1(F, i) \in D
  <2>. DEFINE E == Field(lo, hi)
  <2>1. \A f \in E : SweepOf(f, near, Sweeps[i]) \in E
    BY SweepIs
  <2>. HIDE DEF E, n
  <2>2. PICK f : f \in F
    OBVIOUS
  <2>3. SweepOf(f, near, Sweeps[i]) \in Next1(F, i)
    BY <2>2
  <2>4. F \subseteq E
    BY DEF E
  <2>5. Next1(F, i) \subseteq E
    BY <2>1, <2>4
  <2>. HIDE DEF Next1
  <2>. QED
    BY <2>3, <2>5 DEF E
<1>3. Relaxed(field, near) = CHOOSE f \in (CHOOSE k : IsUp(k))[n] : TRUE
  BY RelaxedSweeps
<1>4. base \in D
  OBVIOUS
<1>. HIDE DEF D, Next1, n, base
<1>5. stp \in [1..n -> [D -> D]]
  BY <1>2
<1>6. \A i \in 1..n : \A f \in D : Next1(f, i) = stp[i][f]
  OBVIOUS
<1>. HIDE DEF stp
<1>7. PICK h \in [0..n -> D] : h[0] = base /\ \A i \in 1..n : h[i] = stp[i][h[i - 1]]
  <2>1. stp \in Steps(n, D)
    BY <1>5, Zenon DEF Steps
  <2>2. PICK h : h \in Walks(D, base, n, stp)
    BY <1>1, <1>4, <2>1, WalksExist, Zenon
  <2>. QED
    BY <2>2, Zenon DEF Walks
<1>8. \A i \in 1..n : h[i] = Next1(h[i - 1], i)
  <2>1. \A i \in 1..n : h[i - 1] \in D
    BY <1>1
  <2>. QED
    BY <1>6, <1>7, <2>1
<1>9. IsUp(h)
  <2>1. \A i \in 0..n : h[i] = IF i = 0 THEN base ELSE Next1(h[i - 1], i)
    BY <1>1, <1>7, <1>8
  <2>. QED
    BY <2>1
<1>. DEFINE g == CHOOSE k : IsUp(k)
<1>10. IsUp(g)
  BY <1>9
<1>11. Relaxed(field, near) = CHOOSE f \in g[n] : TRUE
  BY <1>3
<1>. HIDE DEF g
<1>12. g[0] = base /\ \A i \in 1..n : g[i] = Next1(g[i - 1], i)
  <2>1. \A i \in 0..n : g[i] = IF i = 0 THEN base ELSE Next1(g[i - 1], i)
    BY <1>10, Zenon
  <2>2. 0 \in 0..n /\ \A i \in 1..n : i \in 0..n /\ i # 0
    BY <1>1
  <2>. QED
    BY <2>1, <2>2
<1>. DEFINE R == {i \in Nat : i <= n => g[i] \in D}
<1>13. 0 \in R
  BY <1>4, <1>12
<1>14. ASSUME NEW i \in Nat, i \in R PROVE i + 1 \in R
  <2>. SUFFICES ASSUME i + 1 <= n PROVE g[i + 1] \in D
    OBVIOUS
  <2>1. g[i] \in D /\ i + 1 \in 1..n /\ i + 1 - 1 = i
    BY <1>1, <1>14
  <2>. QED
    BY <1>2, <1>12, <2>1
<1>15. g[n] \in D
  <2>. HIDE DEF R
  <2>1. Nat \subseteq R
    BY <1>13, <1>14, SetInduction
  <2>. QED
    BY <1>1, <2>1 DEF R
<1>16. g[n] # {} /\ g[n] \subseteq Field(lo, hi)
  BY <1>15 DEF D
<1>. QED
  BY <1>11, <1>16, Zenon

------------------------------------------------------------------------------
(* The paint.                                                               *)

\* What is read off the drawing does not change with the painting of it.
LEMMA DrawingStays ==
  ASSUME strokes' = strokes, rendering' = rendering
  PROVE  /\ Projected' = Projected
         /\ NorthPole' = NorthPole /\ SouthPole' = SouthPole
         /\ \A k : Points(k)' = Points(k) /\ Reaches(k)' = Reaches(k)
<1>1. ASSUME NEW k PROVE Points(k)' = Points(k)
  <2>. DEFINE A == Only(strokes[k].points, Int \X Int)
              f(s) == [i \in DOMAIN s |-> <<Clamp(s[i][1], 0, 1000), Clamp(s[i][2], 0, 1000)>>]
  <2>1. Points(k) = f(A)
    BY Zenon DEF Points
  <2>2. Points(k)' = f(A')
    BY Zenon DEF Points
  <2>3. A' = A
    BY Zenon
  <2>. HIDE DEF A, f
  <2>. QED
    BY <2>1, <2>2, <2>3, Zenon
<1>2. Projected' = Projected
  <2>. DEFINE P(k) == Len(Points(k)) >= 2
  <2>1. \A k : P(k)' <=> P(k)
    BY <1>1
  <2>2. Projected = {k \in DOMAIN strokes : P(k)} /\ Projected' = {k \in DOMAIN strokes' : P(k)'}
    BY DEF Projected
  <2>. HIDE DEF P
  <2>. QED
    BY <2>1, <2>2
<1>3. ASSUME NEW k PROVE X(k)' = X(k) /\ Y(k)' = Y(k)
  <2>1. Range(Points(k))' = Range(Points(k))
    BY <1>1
  <2>. QED
    BY <2>1 DEF X, Y
<1>4. ASSUME NEW k PROVE SumY(k)' = SumY(k) /\ CenterY(k)' = CenterY(k)
  <2>. DEFINE g(p) == Total([i \in 1..Len(p) |-> p[i][2]])
  <2>1. SumY(k) = g(Points(k)) /\ SumY(k)' = g(Points(k)')
    BY Zenon DEF SumY
  <2>. HIDE DEF g
  <2>2. SumY(k)' = SumY(k)
    BY <1>1, <2>1, Zenon
  <2>. QED
    BY <1>1, <2>2, Zenon DEF CenterY
<1>5. ASSUME NEW k
      PROVE  /\ Span(X(k))' = Span(X(k)) /\ Span(Y(k))' = Span(Y(k))
             /\ NearVertical(k)' = NearVertical(k)
             /\ HorizontalPoleCandidate(k)' = HorizontalPoleCandidate(k)
  <2>1. Span(X(k))' = Span(X(k)) /\ Span(Y(k))' = Span(Y(k))
    BY <1>3, Zenon
  <2>2. NearVertical(k)' = NearVertical(k)
    BY <2>1, Zenon DEF NearVertical
  <2>. QED
    BY <2>1, <2>2, Zenon DEF HorizontalPoleCandidate
<1>6. ASSUME NEW k PROVE BandFrom(k)' = BandFrom(k) /\ BandTo(k)' = BandTo(k)
  <2>1. WidthNormalized(k)' = WidthNormalized(k)
    BY Zenon DEF WidthNormalized
  <2>. QED
    BY <1>3, <2>1 DEF BandFrom, BandTo
<1>7. ASSUME NEW k PROVE Reaches(k)' = Reaches(k)
  BY <1>6 DEF Reaches
<1>8. North' = North /\ South' = South
  <2>. DEFINE P(k) == HorizontalPoleCandidate(k) /\ SumY(k) <= 220 * Len(Points(k))
              Q(k) == HorizontalPoleCandidate(k) /\ SumY(k) >= 780 * Len(Points(k))
  <2>1. \A k : (P(k)' <=> P(k)) /\ (Q(k)' <=> Q(k))
    BY <1>1, <1>4, <1>5
  <2>2. /\ North = {k \in Projected : P(k)} /\ North' = {k \in Projected' : P(k)'}
        /\ South = {k \in Projected : Q(k)} /\ South' = {k \in Projected' : Q(k)'}
    BY DEF North, South
  <2>. HIDE DEF P, Q
  <2>. QED
    BY <1>2, <2>1, <2>2
<1>9. NorthPole' = NorthPole /\ SouthPole' = SouthPole
  <2>. DEFINE f == [k \in North |-> CenterY(k)] g == [k \in South |-> -CenterY(k)]
  <2>1. f' = f /\ g' = g
    BY <1>4, <1>8
  <2>2. NorthPole = Foremost(f) /\ NorthPole' = Foremost(f') /\ SouthPole = Foremost(g) /\ SouthPole' = Foremost(g')
    BY Zenon DEF NorthPole, SouthPole
  <2>. HIDE DEF f, g
  <2>. QED
    BY <2>1, <2>2, Zenon
<1>. QED
  BY <1>1, <1>2, <1>7, <1>9

Upto(n) == 0..n

LEMMA UptoIs ==
  ASSUME NEW n \in Nat
  PROVE  /\ 0 \in Upto(n) /\ n + 1 \in Upto(n + 1)
         /\ \A x : x \in Upto(n) => x \in Upto(n + 1)
BY DEF Upto

\* A raster in step: over the texels T, of n strokes painted, those of P for real.
InStep(own, col, cov, T, n, P) ==
    /\ DOMAIN own = T /\ DOMAIN col = T /\ DOMAIN cov = T
    /\ \A t \in T :
          /\ own[t] \in Upto(n) /\ col[t] \subseteq Upto(n) /\ cov[t] \in Share
          /\ own[t] \in col[t] /\ (own[t] = 0 \/ own[t] \in P)

Raster == IF rendering = "front-view" /\ stage = "painting" THEN DiscTexel ELSE Texel

\* Rows of free sky.
IsSky(a, b) ==
    /\ 100 * (b - a + 1) > 22 * H
    /\ \A k \in Projected : a..b \cap Reaches(k) = {}
    /\ NorthPole # 0 => Min(Reaches(NorthPole)) < a
    /\ SouthPole # 0 => Max(Reaches(SouthPole)) > b
SkyIsFree ==
    rendering = "classic" =>
        \A a, b \in 0..(H - 1) :
            IsSky(a, b) => \A t \in Texel : t[1] \in a..b => owner[t] = 0

\* What the maps need to be inductive: nobody owns a texel but a stroke that made a
\* line, in a colour of it that is its own, and what no stroke comes near is the
\* body's, gaps filled or not.
MapsInv ==
    /\ strokes \in Drawing \cup {<< >>} /\ rendering \in {"classic", "front-view"}
    /\ stage \in {"none", "painting", "laid", "raised"} /\ painted \in 0..Len(strokes)
    /\ InStep(owner, tint, coverage, Raster, painted, Projected)
    /\ SkyIsFree
    /\ stage = "raised" => {DOMAIN distance, DOMAIN outside} = {Texel}

\* What the painter reads off the invariant.
LEMMA MapsInvHolds == MapsInv => PaintIsKept
<1>. SUFFICES ASSUME MapsInv PROVE PaintIsKept
  OBVIOUS
<1>1. MapsTypeOK
  BY Zenon DEF MapsInv, InStep, MapsTypeOK, Raster, Upto, Share
<1>2. stage \in {"laid", "raised"} => Raster = Texel
  BY DEF Raster
<1>3. ColourIsOwners
  BY <1>2 DEF MapsInv, InStep, ColourIsOwners
<1>4. SkyIsKept
  BY Zenon DEF MapsInv, SkyIsKept, SkyIsFree, IsSky
<1>. QED
  BY <1>1, <1>3, <1>4 DEF PaintIsKept

\* A drawing, or none.
LEMMA DrawingIs == MapsInv => Drawn
<1>. DEFINE R == [points : Seq(Seq(Int)), width : Nat, jitter : 0..100, order : Nat]
<1>1. Drawing \subseteq Seq(R)
  BY DrawingAssumption
<1>. HIDE DEF R
<1>2. << >> \in Seq(R)
  OBVIOUS
<1>3. MapsInv => strokes \in Seq(R)
  BY <1>1, <1>2, Zenon DEF MapsInv
<1>. QED
  BY <1>3, Zenon DEF Drawn, R

\* Nothing is painted yet.
LEMMA BlankIs ==
  ASSUME NEW T, NEW P
  PROVE  InStep([t \in T |-> 0], [t \in T |-> {0}], [t \in T |-> 0], T, 0, P)
<1>1. 0 \in Upto(0) /\ 0 \in Share
  BY DEF Upto, Share
<1>. QED
  BY <1>1 DEF InStep

LEMMA MapsBegin == MapsInit \/ NoMaps => MapsInv
<1>1. ASSUME MapsInit PROVE MapsInv
  <2>1. Len(strokes) \in Nat
    <3>. DEFINE R == [points : Seq(Seq(Int)), width : Nat, jitter : 0..100, order : Nat]
    <3>1. Drawing \subseteq Seq(R)
      BY DrawingAssumption
    <3>. HIDE DEF R
    <3>2. strokes \in Seq(R)
      BY <1>1, <3>1 DEF MapsInit
    <3>. QED
      BY <3>2
  <2>2. InStep(owner, tint, coverage, Raster, painted, Projected)
    <3>1. CASE rendering = "classic"
      <4>1. /\ owner = [t \in Texel |-> 0] /\ tint = [t \in Texel |-> {0}]
            /\ coverage = [t \in Texel |-> 0] /\ painted = 0 /\ Raster = Texel
        BY <1>1, <3>1 DEF MapsInit, Raster
      <4>. QED
        BY <4>1, BlankIs, Zenon
    <3>2. CASE rendering = "front-view"
      <4>1. /\ owner = [t \in DiscTexel |-> 0] /\ tint = [t \in DiscTexel |-> {0}]
            /\ coverage = [t \in DiscTexel |-> 0] /\ painted = 0 /\ Raster = DiscTexel
        BY <1>1, <3>2 DEF MapsInit, Raster
      <4>. QED
        BY <4>1, BlankIs, Zenon
    <3>. QED
      BY <1>1, <3>1, <3>2 DEF MapsInit
  <2>3. SkyIsFree
    <3>1. rendering = "classic" => owner = [t \in Texel |-> 0]
      BY <1>1 DEF MapsInit
    <3>. QED
      BY <3>1 DEF SkyIsFree
  <2>. QED
    BY <1>1, <2>1, <2>2, <2>3 DEF MapsInv, MapsInit
<1>2. ASSUME NoMaps PROVE MapsInv
  <2>1. /\ owner = [t \in Texel |-> 0] /\ tint = [t \in Texel |-> {0}]
        /\ coverage = [t \in Texel |-> 0] /\ painted = 0 /\ Raster = Texel
    BY <1>2 DEF NoMaps, Raster
  <2>2. InStep(owner, tint, coverage, Raster, painted, Projected)
    BY <2>1, BlankIs, Zenon
  <2>3. SkyIsFree
    BY <2>1 DEF SkyIsFree
  <2>. QED
    BY <1>2, <2>1, <2>2, <2>3 DEF MapsInv, NoMaps
<1>. QED
  BY <1>1, <1>2

\* A stroke over a raster, a cap of rows with it.
OwnsCapped(alpha, cap, k, own) ==
    [t \in DOMAIN Owns(alpha, k, own) |-> IF t[1] \in cap THEN k ELSE Owns(alpha, k, own)[t]]
MixesCapped(alpha, cap, k, own, col) ==
    [t \in DOMAIN Owns(alpha, k, own) |-> IF t[1] \in cap THEN {k} ELSE Mixes(alpha, k, col)[t]]
Leaves(new, own, alpha, cap, T) == \A t \in T : t[1] \notin cap /\ alpha[t] < 50 => new[t] = own[t]
Shares(alpha, T) == \A t \in T : alpha[t] \in Share

LEMMA PaintedIs ==
  ASSUME NEW own, NEW col, NEW cov, NEW T, NEW n, n \in Nat, NEW P, InStep(own, col, cov, T, n, P),
         NEW k, k = n + 1, k \in P, NEW alpha, Shares(alpha, T), NEW cap
  PROVE  /\ InStep(OwnsCapped(alpha, cap, k, own), MixesCapped(alpha, cap, k, own, col),
                   Covers(alpha, cov), T, k, P)
         /\ Leaves(OwnsCapped(alpha, cap, k, own), own, alpha, cap, T)
<1>. DEFINE o == Owns(alpha, k, own) m == Mixes(alpha, k, col) c == Covers(alpha, cov)
            own2 == OwnsCapped(alpha, cap, k, own) col2 == MixesCapped(alpha, cap, k, own, col)
<1>1. DOMAIN own = T /\ DOMAIN col = T /\ DOMAIN cov = T
  BY DEF InStep
<1>2. DOMAIN o = T /\ \A t \in T : o[t] = IF alpha[t] >= 50 THEN k ELSE own[t]
  BY <1>1 DEF Owns
<1>3. DOMAIN m = T /\ \A t \in T :
          m[t] = CASE alpha[t] >= 50 -> {k} [] alpha[t] > 1 /\ alpha[t] < 50 -> col[t] \cup {k}
                   [] OTHER -> col[t]
  BY <1>1, Zenon DEF Mixes
<1>4. DOMAIN c = T /\ \A t \in T : c[t] = IF alpha[t] > 1 THEN Max({alpha[t], cov[t]}) ELSE cov[t]
  BY <1>1, Zenon DEF Covers
<1>5. DOMAIN own2 = T /\ \A t \in T : own2[t] = IF t[1] \in cap THEN k ELSE o[t]
  BY <1>2 DEF OwnsCapped
<1>6. DOMAIN col2 = T /\ \A t \in T : col2[t] = IF t[1] \in cap THEN {k} ELSE m[t]
  BY <1>2 DEF MixesCapped
<1>7. k \in P /\ k \in Upto(k) /\ \A x : x \in Upto(n) => x \in Upto(k)
  BY UptoIs
<1>. HIDE DEF o, m, c, own2, col2
<1>8. ASSUME NEW t \in T
      PROVE  /\ own2[t] \in Upto(k) /\ col2[t] \subseteq Upto(k) /\ c[t] \in Share
             /\ own2[t] \in col2[t] /\ (own2[t] = 0 \/ own2[t] \in P)
             /\ t[1] \notin cap /\ alpha[t] < 50 => own2[t] = own[t]
  <2>1. /\ own[t] \in Upto(n) /\ col[t] \subseteq Upto(n) /\ cov[t] \in Share
        /\ own[t] \in col[t] /\ (own[t] = 0 \/ own[t] \in P)
    BY DEF InStep
  <2>2. alpha[t] \in Int /\ cov[t] \in Int
    BY <2>1 DEF Share, Shares
  <2>3. c[t] \in Share
    <3>. DEFINE x == alpha[t] y == cov[t]
    <3>1. x \in Share /\ y \in Share
      BY <2>1 DEF Shares
    <3>. HIDE DEF x, y
    <3>2. Max({x, y}) = IF x <= y THEN y ELSE x
      <4>1. x \in Int /\ y \in Int
        BY <2>2 DEF x, y
      <4>. QED
        BY <4>1, LargerOfTwo
    <3>3. c[t] = x \/ c[t] = y
      BY <1>4, <3>2, Zenon DEF x, y
    <3>. QED
      BY <3>1, <3>3, Zenon
  <2>4. CASE t[1] \in cap
    <3>1. own2[t] = k /\ col2[t] = {k}
      BY <1>5, <1>6, <2>4
    <3>. QED
      BY <1>7, <2>3, <2>4, <3>1
  <2>5. CASE t[1] \notin cap /\ alpha[t] >= 50
    <3>1. own2[t] = k
      BY <1>2, <1>5, <2>5
    <3>2. col2[t] = m[t]
      BY <1>6, <2>5
    <3>3. m[t] = {k}
      BY <1>3, <2>2, <2>5
    <3>4. ~(alpha[t] < 50)
      BY <2>2, <2>5
    <3>. QED
      BY <1>7, <2>3, <3>1, <3>2, <3>3, <3>4
  <2>6. CASE t[1] \notin cap /\ ~(alpha[t] >= 50)
    <3>1. own2[t] = own[t]
      BY <1>2, <1>5, <2>6
    <3>2. col2[t] = m[t]
      BY <1>6, <2>6
    <3>3. m[t] = col[t] \cup {k} \/ m[t] = col[t]
      BY <1>3, <2>2, <2>6
    <3>. QED
      BY <1>7, <2>1, <2>3, <3>1, <3>2, <3>3
  <2>. QED
    BY <2>4, <2>5, <2>6
<1>9. InStep(own2, col2, c, T, k, P)
  BY <1>4, <1>5, <1>6, <1>8 DEF InStep
<1>10. Leaves(own2, own, alpha, cap, T)
  BY <1>8, Zenon DEF Leaves
<1>. QED
  BY <1>9, <1>10, Zenon DEF c, own2, col2

\* The caps lie where the stroke that owns the pole reaches, and toward the pole.
LEMMA CapsAreClear ==
  ASSUME Drawn, NEW k, k \in Projected, NEW a, NEW b, a \in 0..(H - 1), b \in 0..(H - 1), IsSky(a, b),
         NEW v, v \in a..b
  PROVE  v \notin CapRows(k) /\ v \notin Reaches(k)
<1>. DEFINE from == BandFrom(k) to == BandTo(k) h == H - 1 fh == from * h th == to * h
            lo == fh \div 1000 - 2 hi == th \div 1000 + 2 R == lo..hi
<1>1. H \in Nat /\ H >= 1
  BY SizesAre
<1>2. a \in Int /\ b \in Int /\ v \in Int /\ a <= v /\ v <= b
  <2>1. a \in Int /\ b \in Int
    BY <1>1
  <2>. QED
    BY <2>1
<1>3. from \in 0..1000 /\ to \in 0..1000 /\ from <= to
  <2>. DEFINE y0 == Min(Y(k)) y1 == Max(Y(k)) w == WidthNormalized(k)
  <2>1. /\ w \in 3..350 /\ from \in 0..1000 /\ to \in 0..1000
        /\ from > 0 => from <= y0 - (w \div 2)
        /\ to < 1000 => to >= y1 + (w \div 2)
    BY BandsAre
  <2>2. y0 \in Permil /\ y1 \in Permil /\ y0 <= y1
    <3>1. y0 \in Permil /\ y1 \in Permil
      BY ProjectedAre
    <3>2. 1 \in 1..Len(Points(k))
      <4>1. Len(Points(k)) >= 2 /\ Len(Points(k)) \in Nat
        <5>1. k \in DOMAIN strokes /\ Len(Points(k)) >= 2
          BY DEF Projected
        <5>2. Line(Points(k), Len(Points(k)))
          BY <5>1, PointsAre
        <5>. QED
          BY <5>1, <5>2 DEF Line
      <4>. QED
        BY <4>1
    <3>3. y0 <= Points(k)[1][2] /\ Points(k)[1][2] <= y1
      BY <3>2, ProjectedAre
    <3>4. Points(k)[1][2] \in Permil
      <4>1. Line(Points(k), Len(Points(k)))
        BY PointsAre DEF Projected
      <4>. QED
        BY <3>2, <4>1 DEF Line
    <3>. HIDE DEF y0, y1
    <3>. DEFINE y == Points(k)[1][2]
    <3>5. y \in Permil /\ y0 <= y /\ y <= y1
      BY <3>3, <3>4
    <3>. HIDE DEF y
    <3>6. y \in Int /\ y0 \in Int /\ y1 \in Int
      BY <3>1, <3>5, Permils
    <3>. QED
      BY <3>1, <3>5, <3>6
  <2>. HIDE DEF y0, y1, w, from, to
  <2>3. y0 \in Int /\ y1 \in Int /\ 0 <= y0 /\ y1 <= 1000
    BY <2>2, Permils
  <2>. QED
    BY <2>1, <2>2, <2>3
<1>4. Reaches(k) = R
  BY Zenon DEF Reaches
<1>5. fh \in Nat /\ th \in Nat /\ fh <= th
  <2>. HIDE DEF from, to, h
  <2>1. from \in Int /\ to \in Int /\ from >= 0 /\ to >= 0 /\ h \in Nat
    BY <1>1, <1>3 DEF h
  <2>2. from * h <= to * h
    BY <1>3, <2>1, ProductGrows
  <2>. QED
    BY <2>1, <2>2
<1>. HIDE DEF fh, th
<1>6. lo \in Int /\ hi \in Int /\ lo <= hi
  BY <1>5
<1>7. a..b \cap R = {}
  <2>1. a..b \cap Reaches(k) = {}
    BY Zenon DEF IsSky
  <2>. HIDE DEF R
  <2>. QED
    BY <1>4, <2>1
<1>8. v \notin Reaches(k)
  BY <1>4, <1>7
<1>a. k # 0
  <2>1. k \in 1..Len(strokes) /\ Len(strokes) \in Nat
    BY ProjectedAre, StrokesAre
  <2>. QED
    BY <2>1
<1>b. R # {} /\ R \in SUBSET (lo..hi) /\ lo \in R /\ hi \in R
  BY <1>6
<1>c. \A w : w \in R <=> (w \in Int /\ lo <= w /\ w <= hi)
  BY <1>6
<1>d. a \in a..b /\ b \in a..b
  BY <1>2
<1>. HIDE DEF lo, hi, R
<1>9. ASSUME k = NorthPole PROVE hi < a
  <2>1. Min(R) < a
    BY <1>4, <1>9, <1>a DEF IsSky
  <2>2. Min(R) \in R /\ \A y \in R : y >= Min(R)
    BY <1>6, <1>b, BoundedMin
  <2>3. Min(R) = lo
    BY <1>6, <1>b, <1>c, <2>2
  <2>4. SUFFICES ASSUME hi >= a PROVE FALSE
    BY <1>2, <1>6
  <2>5. a \in R
    BY <1>2, <1>c, <2>1, <2>3, <2>4, <1>6
  <2>. QED
    BY <1>7, <1>d, <2>5
<1>10. ASSUME k = SouthPole PROVE b < lo
  <2>1. Max(R) > b
    BY <1>4, <1>10, <1>a DEF IsSky
  <2>2. Max(R) \in R /\ \A y \in R : y <= Max(R)
    BY <1>6, <1>b, BoundedMax
  <2>3. Max(R) = hi
    BY <1>6, <1>b, <1>c, <2>2
  <2>4. SUFFICES ASSUME lo <= b PROVE FALSE
    BY <1>2, <1>6
  <2>5. b \in R
    BY <1>2, <1>c, <2>1, <2>3, <2>4, <1>6
  <2>. QED
    BY <1>7, <1>d, <2>5
<1>11. CapRows(k) = (IF k = NorthPole THEN 0..((th + 999) \div 1000) ELSE {})
                      \cup (IF k = SouthPole THEN (fh \div 1000)..h ELSE {})
  BY Zenon DEF CapRows, fh, th
<1>12. ASSUME k = NorthPole PROVE v \notin 0..((th + 999) \div 1000)
  <2>1. (th + 999) \div 1000 < hi /\ (th + 999) \div 1000 \in Int
    BY <1>5 DEF hi
  <2>2. v > (th + 999) \div 1000
    BY <1>2, <1>6, <1>9, <1>12, <2>1
  <2>. QED
    BY <1>2, <2>1, <2>2
<1>13. ASSUME k = SouthPole PROVE v \notin (fh \div 1000)..h
  <2>1. fh \div 1000 > lo /\ fh \div 1000 \in Int
    BY <1>5 DEF lo
  <2>2. v < fh \div 1000
    BY <1>2, <1>6, <1>10, <1>13, <2>1
  <2>3. h \in Int
    BY <1>1
  <2>. QED
    BY <1>2, <2>1, <2>2, <2>3
<1>. DEFINE A == 0..((th + 999) \div 1000) B == (fh \div 1000)..h
<1>14. /\ CapRows(k) = (IF k = NorthPole THEN A ELSE {}) \cup (IF k = SouthPole THEN B ELSE {})
       /\ k = NorthPole => v \notin A
       /\ k = SouthPole => v \notin B
  BY <1>11, <1>12, <1>13
<1>. HIDE DEF A, B
<1>15. v \notin CapRows(k)
  BY <1>14
<1>. QED
  BY <1>8, <1>15

LEMMA PaintStrokeKeeps ==
  ASSUME MapsInv, PaintStroke
  PROVE  MapsInv'
<1>. DEFINE k == painted + 1 T == Raster P == Projected
            alpha == IF rendering = "classic" THEN DrawProjectedStroke(k) ELSE DrawDiscStroke(k)
            own == Owns(alpha, k, owner) cols == Mixes(alpha, k, tint) cap == CapRows(k)
<1>1. /\ strokes \in Drawing \cup {<< >>} /\ rendering \in {"classic", "front-view"}
      /\ InStep(owner, tint, coverage, T, painted, P) /\ SkyIsFree /\ Drawn
  BY DrawingIs DEF MapsInv
<1>2. /\ stage = "painting" /\ painted < Len(strokes) /\ painted' = k
      /\ strokes' = strokes /\ rendering' = rendering /\ stage' = stage
      /\ distance' = distance /\ outside' = outside
  BY DEF PaintStroke
<1>3. IF k \in P
      THEN /\ owner' = [t \in DOMAIN own |-> IF t[1] \in cap THEN k ELSE own[t]]
           /\ tint' = [t \in DOMAIN own |-> IF t[1] \in cap THEN {k} ELSE cols[t]]
           /\ coverage' = Covers(alpha, coverage)
      ELSE owner' = owner /\ tint' = tint /\ coverage' = coverage
  BY Zenon DEF PaintStroke
<1>4. Len(strokes) \in Nat /\ painted \in Nat /\ k \in 0..Len(strokes)
  <2>1. Len(strokes) \in Nat /\ painted \in 0..Len(strokes)
    BY <1>1, StrokesAre DEF MapsInv
  <2>. QED
    BY <1>2, <2>1
<1>5. T' = T
  BY <1>2 DEF Raster
<1>6. /\ P' = P /\ NorthPole' = NorthPole /\ SouthPole' = SouthPole
      /\ \A j : Reaches(j)' = Reaches(j)
  BY <1>2, DrawingStays
<1>7. rendering = "classic" => T = Texel
  BY DEF Raster
<1>8. rendering # "classic" => T = DiscTexel
  BY <1>1, <1>2 DEF Raster
<1>9. ASSUME k \in P PROVE \A t \in T : alpha[t] \in Share
  <2>1. CASE rendering = "classic"
    <3>1. \A t \in Texel : DrawProjectedStroke(k)[t] \in Share
      BY <1>1, <1>9, StrokeIs
    <3>. QED
      BY <1>7, <2>1, <3>1, Zenon
  <2>2. CASE rendering # "classic"
    <3>1. \A t \in DiscTexel : DrawDiscStroke(k)[t] \in Share
      BY <1>1, <1>9, DiscStrokeIs
    <3>. QED
      BY <1>8, <2>2, <3>1, Zenon
  <2>. QED
    BY <2>1, <2>2
<1>10. /\ InStep(owner', tint', coverage', T, k, P)
       /\ k \in P => \A t \in T : t[1] \notin cap /\ alpha[t] < 50 => owner'[t] = owner[t]
       /\ k \notin P => owner' = owner
  <2>1. CASE k \in P
    <3>. DEFINE n == painted
    <3>1. InStep(owner, tint, coverage, T, n, P) /\ n \in Nat /\ k = n + 1
      BY <1>1, <1>4
    <3>2. owner' = OwnsCapped(alpha, cap, k, owner)
      BY <1>3, <2>1, Zenon DEF OwnsCapped
    <3>3. tint' = MixesCapped(alpha, cap, k, owner, tint)
      BY <1>3, <2>1, Zenon DEF MixesCapped
    <3>4. coverage' = Covers(alpha, coverage)
      BY <1>3, <2>1
    <3>5. Shares(alpha, T)
      BY <1>9, <2>1, Zenon DEF Shares
    <3>. HIDE DEF alpha, cap, T, P, n, k
    <3>6. /\ InStep(OwnsCapped(alpha, cap, k, owner), MixesCapped(alpha, cap, k, owner, tint),
                    Covers(alpha, coverage), T, k, P)
          /\ Leaves(OwnsCapped(alpha, cap, k, owner), owner, alpha, cap, T)
      BY <2>1, <3>1, <3>5, PaintedIs, Zenon
    <3>. QED
      BY <2>1, <3>2, <3>3, <3>4, <3>6, Zenon DEF Leaves
  <2>2. CASE k \notin P
    <3>1. owner' = owner /\ tint' = tint /\ coverage' = coverage
      BY <1>3, <2>2
    <3>2. \A x : x \in Upto(painted) => x \in Upto(k)
      BY <1>4, UptoIs
    <3>. HIDE DEF k, T, P
    <3>. QED
      BY <1>1, <2>2, <3>1, <3>2 DEF InStep
  <2>. QED
    BY <2>1, <2>2
<1>. HIDE DEF k, alpha, cap, own, cols
<1>11. SkyIsFree'
  <2>. SUFFICES ASSUME rendering = "classic", NEW a \in 0..(H - 1), NEW b \in 0..(H - 1), IsSky(a, b),
                       NEW t \in Texel, t[1] \in a..b
                PROVE  owner'[t] = 0
    <3>1. \A a, b : IsSky(a, b)' <=> IsSky(a, b)
      BY <1>6, Zenon DEF IsSky
    <3>. QED
      BY <1>2, <3>1, Zenon DEF SkyIsFree
  <2>1. owner[t] = 0
    BY <1>1, Zenon DEF SkyIsFree
  <2>2. CASE k \in P
    <3>1. t[1] \notin cap /\ t[1] \notin Reaches(k)
      BY <1>1, <2>2, CapsAreClear DEF cap
    <3>2. alpha[t] < 50
      <4>1. DrawProjectedStroke(k)[t] < 50
        BY <1>1, <2>2, <3>1, StrokeIs
      <4>. QED
        BY <4>1, Zenon DEF alpha
    <3>. QED
      BY <1>7, <1>10, <2>1, <2>2, <3>1, <3>2
  <2>. QED
    BY <1>10, <2>1, <2>2
<1>12. InStep(owner', tint', coverage', T', painted', P')
  BY <1>2, <1>5, <1>6, <1>10, Zenon
<1>. QED
  BY <1>1, <1>2, <1>4, <1>11, <1>12 DEF MapsInv

\* The run of background a texel lies in, and where a texel takes its colour from.
LEMMA RunIs ==
  ASSUME NEW own, NEW v, NEW u, v \in 0..(H - 1), own[<<v, u>>] = 0
  PROVE  LET start == RunStart(own, v, u) end == RunEnd(own, v, u) IN
         /\ start \in 0..v /\ end \in v..(H - 1)
         /\ \A a \in 0..v : (\A q \in a..v : own[<<q, u>>] = 0) => start <= a
         /\ \A b \in v..(H - 1) : (\A q \in v..b : own[<<q, u>>] = 0) => end >= b
<1>. DEFINE zero == 0 h == H - 1
            A == {r \in zero..v : \A q \in r..v : own[<<q, u>>] = 0}
            B == {r \in v..h : \A q \in v..r : own[<<q, u>>] = 0}
<1>1. H \in Nat /\ H >= 1
  BY SizesAre
<1>2. v \in Int /\ h \in Int /\ zero \in Int /\ zero <= v /\ v <= h
  BY <1>1
<1>3. RunStart(own, v, u) = Min(A) /\ RunEnd(own, v, u) = Max(B)
  BY Zenon DEF RunStart, RunEnd
<1>. HIDE DEF zero, h
<1>4. v \in A /\ v \in B
  BY <1>2
<1>5. A \in SUBSET (zero..v) /\ A # {} /\ B \in SUBSET (v..h) /\ B # {}
  BY <1>4
<1>6. /\ \A a \in zero..v : (\A q \in a..v : own[<<q, u>>] = 0) => a \in A
      /\ \A b \in v..h : (\A q \in v..b : own[<<q, u>>] = 0) => b \in B
  OBVIOUS
<1>. HIDE DEF A, B
<1>7. Min(A) \in A /\ \A y \in A : y >= Min(A)
  BY <1>2, <1>5, BoundedMin
<1>8. Max(B) \in B /\ \A y \in B : y <= Max(B)
  BY <1>2, <1>5, BoundedMax
<1>9. Min(A) \in zero..v /\ Max(B) \in v..h
  BY <1>5, <1>7, <1>8, Zenon
<1>10. \A a \in zero..v : (\A q \in a..v : own[<<q, u>>] = 0) => Min(A) <= a
  <2>1. ASSUME NEW a \in zero..v, \A q \in a..v : own[<<q, u>>] = 0 PROVE Min(A) <= a
    <3>1. a >= Min(A)
      BY <1>6, <1>7, <2>1, Zenon
    <3>. QED
      BY <1>2, <1>9, <3>1
  <2>. QED
    BY <2>1
<1>11. \A b \in v..h : (\A q \in v..b : own[<<q, u>>] = 0) => Max(B) >= b
  <2>1. ASSUME NEW b \in v..h, \A q \in v..b : own[<<q, u>>] = 0 PROVE Max(B) >= b
    <3>1. b <= Max(B)
      BY <1>6, <1>8, <2>1, Zenon
    <3>. QED
      BY <1>2, <1>9, <3>1
  <2>. QED
    BY <2>1
<1>. QED
  BY <1>3, <1>9, <1>10, <1>11, Zenon DEF zero, h

LEMMA FillSourceIs ==
  ASSUME NEW own, NEW v, NEW u, v \in 0..(H - 1), u \in 0..(W - 1)
  PROVE  /\ FillSource(own, v, u) \in Texel
         /\ \A a, b \in 0..(H - 1) :
               100 * (b - a + 1) > 22 * H /\ v \in a..b /\ (\A q \in a..b : own[<<q, u>>] = 0)
               => FillSource(own, v, u) = <<v, u>>
<1>. DEFINE start == RunStart(own, v, u) end == RunEnd(own, v, u) f == FillSource(own, v, u)
<1>1. H \in Nat /\ H >= 1 /\ v \in Int /\ 0 <= v /\ v <= H - 1
  BY SizesAre
<1>2. <<v, u>> \in Texel
  BY DEF Texel
<1>3. own[<<v, u>>] # 0 \/ ~IsTrench(start, end) => f = <<v, u>>
  BY Zenon DEF FillSource
<1>4. own[<<v, u>>] = 0 /\ IsTrench(start, end)
      => f = IF v - start <= end - v THEN <<start - 1, u>> ELSE <<end + 1, u>>
  BY Zenon DEF FillSource
<1>5. CASE own[<<v, u>>] # 0
  BY <1>2, <1>3, <1>5, <1>1
<1>6. CASE own[<<v, u>>] = 0
  <2>1. /\ start \in 0..v /\ end \in v..(H - 1)
        /\ \A a \in 0..v : (\A q \in a..v : own[<<q, u>>] = 0) => start <= a
        /\ \A b \in v..(H - 1) : (\A q \in v..b : own[<<q, u>>] = 0) => end >= b
    BY <1>6, RunIs, Zenon
  <2>. HIDE DEF start, end, f
  <2>2. start \in Int /\ end \in Int /\ 0 <= start /\ start <= v /\ v <= end /\ end <= H - 1
    BY <1>1, <2>1
  <2>3. f \in Texel
    <3>1. CASE IsTrench(start, end)
      <4>1. start > 0 /\ end < H - 1
        BY <3>1 DEF IsTrench
      <4>2. start - 1 \in 0..(H - 1) /\ end + 1 \in 0..(H - 1)
        BY <1>1, <2>2, <4>1
      <4>3. <<start - 1, u>> \in Texel /\ <<end + 1, u>> \in Texel
        BY <4>2 DEF Texel
      <4>. QED
        BY <1>4, <1>6, <3>1, <4>3
    <3>. QED
      BY <1>2, <1>3, <3>1
  <2>4. ASSUME NEW a \in 0..(H - 1), NEW b \in 0..(H - 1),
               100 * (b - a + 1) > 22 * H, v \in a..b, \A q \in a..b : own[<<q, u>>] = 0
        PROVE  f = <<v, u>>
    <3>1. a \in Int /\ b \in Int /\ 0 <= a /\ a <= v /\ v <= b /\ b <= H - 1
      BY <1>1, <2>4
    <3>2. start <= a
      <4>1. a \in 0..v /\ \A q \in a..v : q \in a..b
        BY <1>1, <3>1
      <4>. QED
        BY <2>1, <2>4, <4>1, Zenon
    <3>3. end >= b
      <4>1. b \in v..(H - 1) /\ \A q \in v..b : q \in a..b
        BY <1>1, <3>1
      <4>. QED
        BY <2>1, <2>4, <4>1, Zenon
    <3>4. ~(100 * (end - start + 1) <= 22 * H)
      BY <1>1, <2>2, <2>4, <3>1, <3>2, <3>3
    <3>5. ~IsTrench(start, end)
      BY <3>4, ZenonT(60) DEF IsTrench
    <3>. QED
      BY <1>3, <3>5
  <2>. QED
    BY <2>3, <2>4 DEF f
<1>. QED
  BY <1>5, <1>6

\* A raster taken from another, texel by texel.
TakenFrom(own, from, T) == [t \in T |-> own[from[t]]]

LEMMA TakenIs ==
  ASSUME NEW own, NEW col, NEW cov, NEW T0, NEW n, NEW P, InStep(own, col, cov, T0, n, P),
         NEW T, NEW from, \A t \in T : from[t] \in T0,
         NEW cov2, DOMAIN cov2 = T, Shares(cov2, T)
  PROVE  InStep(TakenFrom(own, from, T), TakenFrom(col, from, T), cov2, T, n, P)
BY DEF InStep, TakenFrom, Shares

LEMMA FillKeeps ==
  ASSUME MapsInv, FillInternalBandGaps
  PROVE  MapsInv'
<1>. DEFINE from == [t \in Texel |-> FillSource(owner, t[1], t[2])]
            cov == [t \in Texel |-> IF from[t] = t THEN coverage[t] ELSE 100]
            P == Projected
<1>1. /\ strokes \in Drawing \cup {<< >>} /\ painted \in 0..Len(strokes)
      /\ InStep(owner, tint, coverage, Raster, painted, P) /\ SkyIsFree /\ Drawn
  BY DrawingIs DEF MapsInv
<1>2. /\ rendering = "classic" /\ stage = "painting" /\ stage' = "laid"
      /\ strokes' = strokes /\ rendering' = rendering /\ painted' = painted
      /\ owner' = TakenFrom(owner, from, Texel) /\ tint' = TakenFrom(tint, from, Texel)
      /\ coverage' = cov
  BY Zenon DEF FillInternalBandGaps, TakenFrom
<1>3. Raster = Texel /\ Raster' = Texel
  BY <1>2 DEF Raster
<1>4. /\ P' = P /\ NorthPole' = NorthPole /\ SouthPole' = SouthPole
      /\ \A j : Reaches(j)' = Reaches(j)
  BY <1>2, DrawingStays
<1>5. ASSUME NEW t \in Texel
      PROVE  /\ t[1] \in 0..(H - 1) /\ t[2] \in 0..(W - 1) /\ t = <<t[1], t[2]>>
             /\ from[t] = FillSource(owner, t[1], t[2]) /\ from[t] \in Texel
  <2>1. t[1] \in 0..(H - 1) /\ t[2] \in 0..(W - 1) /\ t = <<t[1], t[2]>>
    BY DEF Texel
  <2>2. FillSource(owner, t[1], t[2]) \in Texel
    BY <2>1, FillSourceIs
  <2>. QED
    BY <2>1, <2>2
<1>6. DOMAIN cov = Texel /\ Shares(cov, Texel)
  <2>1. 100 \in Share
    BY DEF Share
  <2>2. \A t \in Texel : coverage[t] \in Share
    BY <1>1, <1>3 DEF InStep
  <2>3. ASSUME NEW t \in Texel PROVE cov[t] \in Share
    <3>. HIDE DEF from
    <3>1. cov[t] = IF from[t] = t THEN coverage[t] ELSE 100
      BY Zenon
    <3>. HIDE DEF cov
    <3>. QED
      BY <2>1, <2>2, <3>1
  <2>. QED
    BY <2>3, Zenon DEF Shares
<1>. HIDE DEF from, cov
<1>7. InStep(owner', tint', coverage', Raster', painted', P')
  <2>. DEFINE n == painted
  <2>1. InStep(owner, tint, coverage, Texel, n, P) /\ \A t \in Texel : from[t] \in Texel
    BY <1>1, <1>3, <1>5
  <2>. HIDE DEF n, P
  <2>2. InStep(TakenFrom(owner, from, Texel), TakenFrom(tint, from, Texel), cov, Texel, n, P)
    BY <1>6, <2>1, TakenIs, Zenon
  <2>. QED
    BY <1>2, <1>3, <1>4, <2>2, Zenon DEF n
<1>8. SkyIsFree'
  <2>. SUFFICES ASSUME NEW a \in 0..(H - 1), NEW b \in 0..(H - 1), IsSky(a, b),
                       NEW t \in Texel, t[1] \in a..b
                PROVE  owner'[t] = 0
    <3>1. \A a, b : IsSky(a, b)' <=> IsSky(a, b)
      BY <1>4, Zenon DEF IsSky
    <3>. QED
      BY <1>2, <3>1, Zenon DEF SkyIsFree
  <2>1. \A s \in Texel : s[1] \in a..b => owner[s] = 0
    BY <1>1, <1>2, Zenon DEF SkyIsFree
  <2>2. \A q \in a..b : owner[<<q, t[2]>>] = 0
    <3>1. ASSUME NEW q \in a..b PROVE owner[<<q, t[2]>>] = 0
      <4>1. <<q, t[2]>> \in Texel /\ <<q, t[2]>>[1] = q
        <5>1. H \in Nat
          BY SizesAre
        <5>2. q \in 0..(H - 1)
          BY <5>1
        <5>. QED
          BY <1>5, <5>2 DEF Texel
      <4>. QED
        BY <2>1, <4>1
    <3>. QED
      BY <3>1
  <2>3. 100 * (b - a + 1) > 22 * H
    BY DEF IsSky
  <2>4. FillSource(owner, t[1], t[2]) = <<t[1], t[2]>>
    <3>. DEFINE v == t[1] u == t[2]
    <3>1. v \in 0..(H - 1) /\ u \in 0..(W - 1) /\ v \in a..b /\ \A q \in a..b : owner[<<q, u>>] = 0
      BY <1>5, <2>2
    <3>. HIDE DEF v, u
    <3>2. FillSource(owner, v, u) = <<v, u>>
      BY <2>3, <3>1, FillSourceIs
    <3>. QED
      BY <3>2 DEF v, u
  <2>5. from[t] = t
    BY <1>5, <2>4
  <2>6. owner'[t] = owner[from[t]]
    BY <1>2 DEF TakenFrom
  <2>. QED
    BY <2>1, <2>5, <2>6
<1>. QED
  BY <1>1, <1>2, <1>7, <1>8 DEF MapsInv

LEMMA SampleKeeps ==
  ASSUME MapsInv, SampleDiscOntoSphere
  PROVE  MapsInv'
<1>. DEFINE from == [t \in Texel |-> DiscSource(t)] P == Projected n == painted
<1>1. /\ strokes \in Drawing \cup {<< >>} /\ painted \in 0..Len(strokes)
      /\ InStep(owner, tint, coverage, Raster, n, P)
  BY DEF MapsInv
<1>2. /\ rendering = "front-view" /\ stage = "painting" /\ stage' = "laid"
      /\ strokes' = strokes /\ rendering' = rendering /\ painted' = painted
      /\ owner' = TakenFrom(owner, from, Texel) /\ tint' = TakenFrom(tint, from, Texel)
      /\ coverage' = TakenFrom(coverage, from, Texel)
  BY Zenon DEF SampleDiscOntoSphere, TakenFrom
<1>3. Raster = DiscTexel /\ Raster' = Texel
  BY <1>2 DEF Raster
<1>4. P' = P
  BY <1>2, DrawingStays
<1>5. \A t \in Texel : from[t] \in DiscTexel
  BY DiscSourceIs
<1>. HIDE DEF from, n, P
<1>6. DOMAIN TakenFrom(coverage, from, Texel) = Texel /\ Shares(TakenFrom(coverage, from, Texel), Texel)
  <2>1. \A t \in DiscTexel : coverage[t] \in Share
    BY <1>1, <1>3 DEF InStep
  <2>. QED
    BY <1>5, <2>1 DEF TakenFrom, Shares
<1>7. InStep(owner, tint, coverage, DiscTexel, n, P)
  BY <1>1, <1>3
<1>8. InStep(TakenFrom(owner, from, Texel), TakenFrom(tint, from, Texel),
             TakenFrom(coverage, from, Texel), Texel, n, P)
  BY <1>5, <1>6, <1>7, TakenIs, Zenon
<1>9. InStep(owner', tint', coverage', Raster', painted', P')
  BY <1>2, <1>3, <1>4, <1>8, Zenon DEF n
<1>10. SkyIsFree'
  BY <1>2, Zenon DEF SkyIsFree
<1>. QED
  BY <1>1, <1>2, <1>9, <1>10 DEF MapsInv, P

\* The distances the sweeps can come to.
Depths == Field(-500, Far + 1000)

\* The relief is there on every texel, and so is the crease shading.
LEMMA ReliefIs ==
  ASSUME NEW own, NEW cov, NEW n, NEW P, NEW col, InStep(own, col, cov, Texel, n, P)
  PROVE  /\ RoundedRelief(own, cov) \in Depths
         /\ ChamferDistance(own) \in Depths
<1>. DEFINE lo == -500 hi == Far + 1000 I == lo..hi
            seed == Seed(own, cov) paint == [t \in Texel |-> IF own[t] # 0 THEN 0 ELSE Far]
            same == [t \in Texel |-> SameOwner(own, t)]
            all == [t \in Texel |-> {To(t, d) : d \in Step} \cap Texel]
<1>1. Far \in Int /\ Far >= 2000
  BY SizesAre DEF Far
<1>2. lo \in Int /\ hi \in Int
  BY <1>1
<1>3. Far \in I /\ 0 \in I /\ EdgeSeedDistance(0) \in I
  BY <1>1 DEF EdgeSeedDistance
<1>4. ASSUME NEW t \in Texel PROVE EdgeSeedDistance(cov[t]) \in I
  <2>. DEFINE c == cov[t]
  <2>1. c \in Share
    BY DEF InStep
  <2>. HIDE DEF c
  <2>2. c \in Int /\ 0 <= c /\ c <= 100
    BY <2>1 DEF Share
  <2>3. EdgeSeedDistance(c) \in I
    BY <1>1, <2>2 DEF EdgeSeedDistance
  <2>. QED
    BY <2>3 DEF c
<1>. HIDE DEF I
<1>5. seed \in [Texel -> I]
  <2>1. ASSUME NEW t \in Texel PROVE seed[t] \in I
    <3>1. seed[t] = CASE own[t] = 0                     -> EdgeSeedDistance(0)
                      [] own[t] # 0 /\ AtEdge(own, t)   -> EdgeSeedDistance(cov[t])
                      [] own[t] # 0 /\ ~AtEdge(own, t)  -> Far
      BY Zenon DEF Seed
    <3>2. AtEdge(own, t) \/ ~AtEdge(own, t)
      OBVIOUS
    <3>. HIDE DEF seed
    <3>. QED
      BY <1>3, <1>4, <3>1, <3>2, Zenon
  <2>2. seed = [t \in Texel |-> seed[t]]
    BY Zenon DEF Seed
  <2>. HIDE DEF seed
  <2>. QED
    BY <2>1, <2>2
<1>6. paint \in [Texel -> I]
  BY <1>3
<1>7. Inside(same)
  <2>1. ASSUME NEW t \in Texel PROVE same[t] \subseteq Texel
    <3>1. same[t] = SameOwner(own, t)
      OBVIOUS
    <3>2. SameOwner(own, t) \subseteq Texel
      BY DEF SameOwner
    <3>. QED
      BY <3>1, <3>2
  <2>. QED
    BY <2>1, Zenon DEF Inside
<1>8. Inside(all)
  BY DEF Inside
<1>9. seed \in Field(lo, hi) /\ paint \in Field(lo, hi)
  BY <1>5, <1>6, ZenonT(60) DEF Field, I
<1>. HIDE DEF seed, paint, same, all, lo, hi
<1>10. Relaxed(seed, same) \in Field(lo, hi) /\ Relaxed(paint, all) \in Field(lo, hi)
  BY <1>2, <1>7, <1>8, <1>9, RelaxedIs
<1>. QED
  BY <1>10, Zenon DEF RoundedRelief, ChamferDistance, seed, paint, same, all, lo, hi, Depths

LEMMA FinishKeeps ==
  ASSUME MapsInv, FinishManifestMaps
  PROVE  MapsInv' /\ distance' \in Depths
<1>1. /\ strokes \in Drawing \cup {<< >>} /\ painted \in 0..Len(strokes)
      /\ InStep(owner, tint, coverage, Raster, painted, Projected) /\ SkyIsFree
      /\ rendering \in {"classic", "front-view"}
  BY DEF MapsInv
<1>2. /\ stage = "laid" /\ stage' = "raised"
      /\ strokes' = strokes /\ rendering' = rendering /\ painted' = painted
      /\ owner' = owner /\ tint' = tint /\ coverage' = coverage
      /\ distance' = RoundedRelief(owner, coverage)
      /\ outside' = ChamferDistance(owner) \/ outside' = [t \in Texel |-> Far]
  BY Zenon DEF FinishManifestMaps
<1>3. Raster = Texel /\ Raster' = Texel
  BY <1>2 DEF Raster
<1>4. /\ Projected' = Projected /\ NorthPole' = NorthPole /\ SouthPole' = SouthPole
      /\ \A j : Reaches(j)' = Reaches(j)
  BY <1>2, DrawingStays
<1>5. InStep(owner', tint', coverage', Raster', painted', Projected')
  BY <1>1, <1>2, <1>3, <1>4, Zenon
<1>6. SkyIsFree'
  <2>1. \A a, b : IsSky(a, b)' <=> IsSky(a, b)
    BY <1>4, Zenon DEF IsSky
  <2>. QED
    BY <1>1, <1>2, <2>1, Zenon DEF SkyIsFree
<1>7. distance' \in Depths
  <2>1. InStep(owner, tint, coverage, Texel, painted, Projected)
    BY <1>1, <1>3
  <2>. QED
    BY <1>2, <2>1, ReliefIs, Zenon
<1>8. DOMAIN distance' = Texel
  BY <1>7 DEF Field, Depths
<1>9. DOMAIN outside' = Texel
  <2>1. InStep(owner, tint, coverage, Texel, painted, Projected)
    BY <1>1, <1>3
  <2>2. ChamferDistance(owner) \in Depths
    BY <2>1, ReliefIs, Zenon
  <2>3. DOMAIN ChamferDistance(owner) = Texel
    BY <2>2 DEF Field, Depths
  <2>. QED
    BY <1>2, <2>3
<1>. QED
  BY <1>1, <1>2, <1>5, <1>6, <1>7, <1>8, <1>9 DEF MapsInv

LEMMA MapsGoOn == MapsInv /\ [MapsStep]_mapVars => MapsInv'
<1>. SUFFICES ASSUME MapsInv, [MapsStep]_mapVars PROVE MapsInv'
  OBVIOUS
<1>1. CASE PaintStroke
  BY <1>1, PaintStrokeKeeps
<1>2. CASE FillInternalBandGaps
  BY <1>2, FillKeeps
<1>3. CASE SampleDiscOntoSphere
  BY <1>3, SampleKeeps
<1>4. CASE FinishManifestMaps
  BY <1>4, FinishKeeps
<1>5. CASE UNCHANGED mapVars
  <2>1. /\ strokes' = strokes /\ rendering' = rendering /\ stage' = stage /\ painted' = painted
        /\ owner' = owner /\ tint' = tint /\ coverage' = coverage
        /\ distance' = distance /\ outside' = outside
    BY <1>5 DEF mapVars
  <2>2. /\ Projected' = Projected /\ NorthPole' = NorthPole /\ SouthPole' = SouthPole
        /\ \A j : Reaches(j)' = Reaches(j)
    BY <2>1, DrawingStays
  <2>3. Raster' = Raster
    BY <2>1 DEF Raster
  <2>4. \A a, b : IsSky(a, b)' <=> IsSky(a, b)
    BY <2>2, Zenon DEF IsSky
  <2>5. SkyIsFree'
    BY <2>1, <2>4, Zenon DEF SkyIsFree, MapsInv
  <2>6. InStep(owner', tint', coverage', Raster', painted', Projected')
    BY <2>1, <2>2, <2>3, Zenon DEF MapsInv
  <2>. QED
    BY <2>1, <2>5, <2>6 DEF MapsInv
<1>. QED
  BY <1>1, <1>2, <1>3, <1>4, <1>5 DEF MapsStep

\* buildManifestMaps, fillInternalBandGaps, sampleDiscOntoSphere: paint keeps the
\* colour of its owner and free sky stays free, whatever strokes are drawn, in
\* whatever order, and however large the rasters are.
THEOREM PaintIsAlwaysKept == MapsSpec => []PaintIsKept
<1>1. MapsInit \/ NoMaps => MapsInv
  BY MapsBegin
<1>2. MapsInv /\ [MapsStep]_mapVars => MapsInv'
  BY MapsGoOn
<1>3. MapsInv => PaintIsKept
  BY MapsInvHolds
<1>. QED
  BY <1>1, <1>2, <1>3, PTL DEF MapsSpec

\* A texel and its mirror image are sampled from one place.
LEMMA MirrorIs ==
  ASSUME NEW t, t \in Texel
  PROVE  <<t[1], W - 1 - t[2]>> \in Texel /\ DiscSource(<<t[1], W - 1 - t[2]>>) = DiscSource(t)
<1>. DEFINE b == <<t[1], W - 1 - t[2]>>
<1>1. t[1] \in 0..(H - 1) /\ t[2] \in 0..(W - 1) /\ W \in Nat /\ b[1] = t[1] /\ b[2] = W - 1 - t[2]
  BY SizesAre DEF Texel
<1>2. b \in Texel
  BY <1>1 DEF Texel
<1>3. b[2] + 1 = W + 1 - (t[2] + 1) /\ t[2] + 1 \in 1..W
  BY <1>1
<1>4. CosU[b[2] + 1] = CosU[t[2] + 1]
  <2>1. \A i \in 1..W : CosU[W + 1 - i] = CosU[i]
    BY DrawingAssumption
  <2>. HIDE DEF b
  <2>. QED
    BY <1>3, <2>1
<1>. HIDE DEF b
<1>5. DiscPoint(b) = DiscPoint(t)
  BY <1>1, <1>4, ZenonT(60) DEF DiscPoint
<1>6. DiscSource(b) = DiscSource(t)
  BY <1>5, Zenon DEF DiscSource
<1>. QED
  BY <1>2, <1>6 DEF b

Mirrored(f) == \A t \in Texel : f[t] = f[<<t[1], W - 1 - t[2]>>]

\* sampleDiscOntoSphere, foldToFrontHemisphere: the back of a front-view planet is
\* the mirror image of its front, whatever the drawing and the sizes of the rasters.
THEOREM BackAlwaysMirrorsFront == MapsSpec => []BackMirrorsFront
<1>1. BackMirrorsFront <=> (rendering = "front-view" /\ stage \in {"laid", "raised"}
                              => Mirrored(owner) /\ Mirrored(tint))
  BY Zenon DEF BackMirrorsFront, Mirrored
<1>2. MapsInit \/ NoMaps => BackMirrorsFront
  BY DEF MapsInit, NoMaps, BackMirrorsFront
<1>3. BackMirrorsFront /\ [MapsStep]_mapVars => BackMirrorsFront'
  <2>. SUFFICES ASSUME BackMirrorsFront, [MapsStep]_mapVars,
                       rendering' = "front-view", stage' \in {"laid", "raised"}
                PROVE  Mirrored(owner') /\ Mirrored(tint')
    BY Zenon DEF BackMirrorsFront, Mirrored
  <2>1. CASE PaintStroke
    BY <2>1 DEF PaintStroke
  <2>2. CASE FillInternalBandGaps
    BY <2>2 DEF FillInternalBandGaps
  <2>3. CASE SampleDiscOntoSphere
    <3>. DEFINE from == [t \in Texel |-> DiscSource(t)]
    <3>1. owner' = [t \in Texel |-> owner[from[t]]] /\ tint' = [t \in Texel |-> tint[from[t]]]
      BY <2>3, Zenon DEF SampleDiscOntoSphere
    <3>2. ASSUME NEW t \in Texel
          PROVE  <<t[1], W - 1 - t[2]>> \in Texel /\ from[<<t[1], W - 1 - t[2]>>] = from[t]
      <4>1. <<t[1], W - 1 - t[2]>> \in Texel /\ DiscSource(<<t[1], W - 1 - t[2]>>) = DiscSource(t)
        BY MirrorIs
      <4>. QED
        BY <4>1
    <3>. HIDE DEF from
    <3>. QED
      BY <3>1, <3>2 DEF Mirrored
  <2>4. CASE FinishManifestMaps
    <3>1. rendering' = rendering /\ stage = "laid" /\ owner' = owner /\ tint' = tint
      BY <2>4, Zenon DEF FinishManifestMaps
    <3>2. Mirrored(owner) /\ Mirrored(tint)
      BY <1>1, <3>1
    <3>. QED
      BY <3>1, <3>2
  <2>5. CASE UNCHANGED mapVars
    <3>1. rendering' = rendering /\ stage' = stage /\ owner' = owner /\ tint' = tint
      BY <2>5 DEF mapVars
    <3>2. Mirrored(owner) /\ Mirrored(tint)
      BY <1>1, <3>1
    <3>. QED
      BY <3>1, <3>2
  <2>. QED
    BY <2>1, <2>2, <2>3, <2>4, <2>5 DEF MapsStep
<1>. QED
  BY <1>2, <1>3, PTL DEF MapsSpec

------------------------------------------------------------------------------
(* The heights of the relief.                                               *)

LEMMA SharesAre ==
  ASSUME NEW x
  PROVE  x \in Share <=> x \in Int /\ 0 <= x /\ x <= 100
BY DEF Share

\* A score is a share of the range of its metric.
LEMMA ScoreIs ==
  ASSUME NEW metric, NEW T, NEW lo, NEW hi, lo \in Int /\ hi \in Int, DOMAIN metric = T,
         \A j \in T : metric[j] \in Int /\ lo <= metric[j] /\ metric[j] <= hi, NEW k, k \in T
  PROVE  Score(metric, k) \in Share
<1>. DEFINE R == Range(metric) low == Min(R) high == Max(R) m == metric[k]
<1>1. R = {metric[j] : j \in T}
  BY DEF Range
<1>2. R \in SUBSET (lo..hi) /\ R # {} /\ m \in R
  BY <1>1
<1>. HIDE DEF R
<1>3. low \in R /\ high \in R /\ (\A y \in R : y >= low) /\ (\A y \in R : y <= high)
  BY <1>2, BoundedMin, BoundedMax
<1>5. low <= m /\ m <= high
  BY <1>2, <1>3, Zenon
<1>6. Score(metric, k) = IF high = low THEN 50 ELSE (100 * (m - low)) \div (high - low)
  BY Zenon DEF Score, R
<1>. HIDE DEF low, high, m
<1>3a. low \in lo..hi /\ high \in lo..hi /\ m \in lo..hi
  BY <1>2, <1>3, Zenon
<1>4. low \in Int /\ high \in Int /\ m \in Int
  BY <1>3a
<1>7. CASE high = low
  BY <1>6, <1>7, SharesAre
<1>8. CASE high # low
  <2>. DEFINE d == high - low z == 100 * (m - low) p == 0 q == 100
  <2>1. d \in Nat \ {0} /\ z \in Int /\ p \in Int /\ q \in Int /\ p * d <= z /\ z <= q * d
    BY <1>4, <1>5, <1>8
  <2>2. Score(metric, k) = z \div d
    BY <1>6, <1>8
  <2>. HIDE DEF d, z, p, q
  <2>3. z \div d \in Int /\ p <= z \div d /\ z \div d <= q
    BY <2>1, QuotientIsBetween
  <2>4. z \div d \in Share
    BY <2>3, SharesAre DEF p, q
  <2>. QED
    BY <2>2, <2>4
<1>. QED
  BY <1>7, <1>8

LEMMA OrdersEnd ==
  ASSUME Drawn
  PROVE  \E b \in Nat : \A k \in 1..Len(strokes) : strokes[k].order <= b
<1>. DEFINE n == Len(strokes)
            R == {i \in Nat : i <= n => \E b \in Nat : \A k \in 1..i : strokes[k].order <= b}
<1>1. n \in Nat /\ \A k \in 1..n : strokes[k].order \in Nat
  BY StrokesAre
<1>. HIDE DEF n
<1>2. 0 \in R
  OBVIOUS
<1>3. ASSUME NEW i \in Nat, i \in R PROVE i + 1 \in R
  <2>. SUFFICES ASSUME i + 1 <= n PROVE \E b \in Nat : \A k \in 1..(i + 1) : strokes[k].order <= b
    OBVIOUS
  <2>1. PICK b \in Nat : \A k \in 1..i : strokes[k].order <= b
    BY <1>1, <1>3
  <2>2. strokes[i + 1].order \in Nat
    BY <1>1
  <2>. DEFINE o == strokes[i + 1].order c == b + o
  <2>3. c \in Nat
    BY <2>2
  <2>4. ASSUME NEW k \in 1..(i + 1) PROVE strokes[k].order <= c
    <3>1. k \in 1..n
      BY <1>1
    <3>2. strokes[k].order \in Nat
      BY <1>1, <3>1
    <3>3. CASE k = i + 1
      BY <2>2, <3>3
    <3>4. CASE k # i + 1
      <4>1. k \in 1..i
        BY <3>4
      <4>2. strokes[k].order <= b
        BY <2>1, <4>1
      <4>. QED
        BY <2>2, <3>2, <4>2
    <3>. QED
      BY <3>3, <3>4
  <2>. QED
    BY <2>3, <2>4
<1>4. n \in R
  <2>. HIDE DEF R
  <2>1. Nat \subseteq R
    BY <1>2, <1>3, SetInduction
  <2>. QED
    BY <1>1, <2>1
<1>. QED
  BY <1>1, <1>4 DEF n

\* The length of a line on the canvas.
LEMMA PathLengthIs ==
  ASSUME Drawn, NEW k, k \in Projected
  PROVE  PathLength(k) \in Nat
<1>. DEFINE p == Points(k) n == Len(p)
            f == [i \in 1..(n - 1) |->
                    LET dx == p[i + 1][1] - p[i][1] dy == p[i + 1][2] - p[i][2]
                    IN  Isqrt(dx * dx + dy * dy)]
            m == n - 1
<1>1. PathLength(k) = Total(f)
  BY Zenon DEF PathLength
<1>2. n \in Nat /\ n >= 2 /\ \A i \in 1..n : p[i][1] \in Permil /\ p[i][2] \in Permil
  <2>1. k \in DOMAIN strokes /\ n >= 2
    BY DEF Projected
  <2>2. Line(p, n)
    BY <2>1, PointsAre
  <2>. QED
    BY <2>1, <2>2 DEF Line
<1>. HIDE DEF p, n
<1>3. ASSUME NEW i \in 1..m PROVE f[i] \in Nat
  <2>. DEFINE dx == p[i + 1][1] - p[i][1] dy == p[i + 1][2] - p[i][2] q == dx * dx + dy * dy
  <2>1. f[i] = Isqrt(q)
    BY <1>2
  <2>2. /\ p[i][1] \in Permil /\ p[i][2] \in Permil
        /\ p[i + 1][1] \in Permil /\ p[i + 1][2] \in Permil
    BY <1>2
  <2>3. dx \in Int /\ -1000 <= dx /\ dx <= 1000 /\ dy \in Int /\ -1000 <= dy /\ dy <= 1000
    BY <2>2, Permils
  <2>. HIDE DEF dx, dy
  <2>4. /\ dx * dx \in Int /\ 0 <= dx * dx /\ dx * dx <= 1000 * 1000
        /\ dy * dy \in Int /\ 0 <= dy * dy /\ dy * dy <= 1000 * 1000
    BY <2>3, SquareIs
  <2>. DEFINE a == dx * dx b == dy * dy
  <2>. HIDE DEF a, b
  <2>5. /\ a \in Int /\ 0 <= a /\ a <= 1000 * 1000 /\ b \in Int /\ 0 <= b /\ b <= 1000 * 1000
    BY <2>4 DEF a, b
  <2>6. a + b \in Squares
    BY <2>5 DEF Squares
  <2>7. q \in Squares
    BY <2>6 DEF a, b
  <2>. HIDE DEF q, f
  <2>8. Isqrt(q) \in Root
    BY <2>7, IsqrtIs
  <2>. QED
    BY <2>1, <2>8 DEF Root
<1>4. m \in Nat
  BY <1>2
<1>5. f \in [1..m -> Nat]
  <2>1. f = [i \in 1..m |-> f[i]]
    OBVIOUS
  <2>. HIDE DEF f, m
  <2>. QED
    BY <1>3, <2>1
<1>. HIDE DEF f, m
<1>6. PICK u \in [0..m -> Nat] : Total(f) = u[m]
  <2>1. \E u \in [0..m -> Nat] : Total(f) = u[m] /\ u[0] = 0 /\ \A i \in 1..m : u[i] = u[i - 1] + f[i]
    BY <1>4, <1>5, TotalWalks
  <2>. QED
    BY <2>1
<1>7. u[m] \in Nat
  BY <1>4
<1>. QED
  BY <1>1, <1>6, <1>7

LEMMA CoverageMetricIs ==
  ASSUME Drawn, NEW k, k \in Projected
  PROVE  CoverageMetric(k) \in Permil
<1>. DEFINE x == Span(X(k)) y == Span(Y(k)) p == PathLength(k) all == 1000
            q == (55 * x + 25 * y + 200 * Min({all, p})) \div 1000
<1>1. x \in Int /\ y \in Int
  <2>1. x \in Spans /\ y \in Spans
    BY BandsAre
  <2>. HIDE DEF x, y
  <2>. QED
    BY <2>1 DEF Spans
<1>2. p \in Int
  <2>1. p \in Nat
    BY PathLengthIs
  <2>. HIDE DEF p
  <2>. QED
    BY <2>1
<1>3. CoverageMetric(k) = Clamp(q, 0, 1000)
  BY DEF CoverageMetric
<1>. HIDE DEF x, y, p
<1>4. q \in Int
  <2>1. all \in Int
    OBVIOUS
  <2>. HIDE DEF all
  <2>. DEFINE m == Min({all, p})
  <2>2. m \in Int
    <3>1. m = IF all <= p THEN all ELSE p
      BY <1>2, <2>1, LesserOfTwo
    <3>. HIDE DEF m
    <3>. QED
      BY <1>2, <2>1, <3>1
  <2>. HIDE DEF m
  <2>3. (55 * x + 25 * y + 200 * m) \div 1000 \in Int
    BY <1>1, <2>2
  <2>. QED
    BY <2>3 DEF m
<1>. HIDE DEF q
<1>. QED
  BY <1>3, <1>4, ClampPermil

\* A stroke's scores, and so its level and its shoulder.
LEMMA ScoresAre ==
  ASSUME Drawn, NEW k, k \in Projected
  PROVE  OrderScore(k) \in Share /\ WidthScore(k) \in Share /\ CoverageScore(k) \in Share
<1>. DEFINE T == Projected
            o == [j \in T |-> strokes[j].order]
            w == [j \in T |-> WidthNormalized(j)]
            c == [j \in T |-> CoverageMetric(j)]
<1>1. OrderScore(k) = Score(o, k) /\ WidthScore(k) = Score(w, k) /\ CoverageScore(k) = Score(c, k)
  BY Zenon DEF OrderScore, WidthScore, CoverageScore
<1>2. Score(o, k) \in Share
  <2>1. PICK b \in Nat : \A j \in 1..Len(strokes) : strokes[j].order <= b
    BY OrdersEnd
  <2>. DEFINE lo == 0
  <2>2. ASSUME NEW j \in T PROVE o[j] \in Int /\ lo <= o[j] /\ o[j] <= b
    <3>1. j \in 1..Len(strokes)
      BY ProjectedAre
    <3>2. strokes[j].order \in Nat
      BY <3>1, StrokesAre
    <3>3. o[j] = strokes[j].order
      OBVIOUS
    <3>4. strokes[j].order <= b
      BY <2>1, <3>1
    <3>. HIDE DEF o
    <3>. QED
      BY <3>2, <3>3, <3>4
  <2>3. DOMAIN o = T /\ lo \in Int /\ b \in Int
    OBVIOUS
  <2>. HIDE DEF o, lo, T
  <2>. QED
    BY <2>2, <2>3, ScoreIs DEF T
<1>3. Score(w, k) \in Share
  <2>. DEFINE lo == 3 hi == 350
  <2>1. ASSUME NEW j \in T PROVE w[j] \in Int /\ lo <= w[j] /\ w[j] <= hi
    <3>1. WidthNormalized(j) \in 3..350
      BY BandsAre
    <3>2. w[j] = WidthNormalized(j)
      OBVIOUS
    <3>. HIDE DEF w
    <3>. QED
      BY <3>1, <3>2
  <2>2. DOMAIN w = T /\ lo \in Int /\ hi \in Int
    OBVIOUS
  <2>. HIDE DEF w, lo, hi, T
  <2>. QED
    BY <2>1, <2>2, ScoreIs DEF T
<1>4. ASSUME NEW j \in T PROVE CoverageMetric(j) \in Permil
  BY <1>4, CoverageMetricIs
<1>5. Score(c, k) \in Share
  <2>. DEFINE lo == 0 hi == 1000
  <2>1. ASSUME NEW j \in T PROVE c[j] \in Int /\ lo <= c[j] /\ c[j] <= hi
    <3>1. CoverageMetric(j) \in Permil
      BY <1>4
    <3>2. c[j] = CoverageMetric(j)
      OBVIOUS
    <3>. HIDE DEF c
    <3>. QED
      BY <3>1, <3>2, Permils
  <2>2. DOMAIN c = T /\ lo \in Int /\ hi \in Int
    OBVIOUS
  <2>. HIDE DEF c, lo, hi, T
  <2>. QED
    BY <2>1, <2>2, ScoreIs DEF T
<1>. QED
  BY <1>1, <1>2, <1>3, <1>5

\* A share of shares.
LEMMA LayersAre ==
  ASSUME Drawn, NEW k, k \in Projected
  PROVE  Level(k) \in Share /\ ShoulderTexels(k) \in Nat \ {0}
<1>. DEFINE o == OrderScore(k) w == WidthScore(k) c == CoverageScore(k) p == Pole(k)
            j == strokes[k].jitter l == LayerScore(k)
<1>1. o \in Share /\ w \in Share /\ c \in Share
  BY ScoresAre
<1>2. p \in Share
  <2>1. p = 100 \/ p = 50 \/ p = 0
    BY Zenon DEF Pole
  <2>. HIDE DEF p
  <2>. QED
    BY <2>1, SharesAre
<1>3. j \in Share
  <2>1. k \in 1..Len(strokes)
    BY ProjectedAre
  <2>2. strokes[k].jitter \in 0..100
    BY <2>1, StrokesAre
  <2>. QED
    BY <2>2, Zenon DEF Share
<1>4. l = (35 * o + 25 * w + 20 * c + 10 * p + 10 * j) \div 100
  BY DEF LayerScore
<1>5. Level(k) = 42 + (58 * l) \div 100
  BY DEF Level
<1>6. ShoulderTexels(k) = 300 + 4 * ((65 * w + 25 * c + 10 * j) \div 100)
  BY DEF ShoulderTexels
<1>. HIDE DEF o, w, c, p, j, l
<1>7. /\ o \in Int /\ 0 <= o /\ o <= 100 /\ w \in Int /\ 0 <= w /\ w <= 100
      /\ c \in Int /\ 0 <= c /\ c <= 100 /\ p \in Int /\ 0 <= p /\ p <= 100
      /\ j \in Int /\ 0 <= j /\ j <= 100
  BY <1>1, <1>2, <1>3, SharesAre
<1>8. l \in Int /\ 0 <= l /\ l <= 100
  BY <1>4, <1>7
<1>9. Level(k) \in Share
  <2>. DEFINE v == 42 + (58 * l) \div 100
  <2>1. v \in Int /\ 0 <= v /\ v <= 100
    BY <1>8
  <2>. HIDE DEF v
  <2>2. v \in Share
    BY <2>1, SharesAre
  <2>. QED
    BY <1>5, <2>2 DEF v
<1>10. ShoulderTexels(k) \in Nat \ {0}
  BY <1>6, <1>7
<1>. QED
  BY <1>9, <1>10

LEMMA BevelIs ==
  ASSUME NEW dist, dist \in Int, NEW shoulder, shoulder \in Nat \ {0}
  PROVE  BevelProfile(dist, shoulder) \in Share
<1>. DEFINE all == 100 q == (10 * dist) \div shoulder t == Min({all, q}) u == 100 - t
            s == 10000 - u * u r == Isqrt(s)
<1>1. BevelProfile(dist, shoulder) = IF dist <= 0 THEN 0 ELSE 45 + (55 * r) \div 100
  BY DEF BevelProfile
<1>2. CASE dist <= 0
  BY <1>1, <1>2, SharesAre
<1>3. CASE dist > 0
  <2>1. q \in Int /\ q >= 0
    <3>. DEFINE z == 10 * dist p == 0 top == z
    <3>1. z \in Int /\ p \in Int /\ p * shoulder <= z /\ z >= 0
      BY <1>3
    <3>2. z <= top * shoulder
      <4>1. z \in Nat /\ shoulder \in Nat /\ 1 <= shoulder
        BY <3>1
      <4>. DEFINE one == 1
      <4>. HIDE DEF z
      <4>2. one * z <= shoulder * z
        <5>1. one \in Int /\ shoulder \in Int /\ one <= shoulder
          BY <4>1
        <5>. HIDE DEF one
        <5>. QED
          BY <4>1, <5>1, ProductGrows
      <4>3. one * z = z /\ shoulder * z = z * shoulder
        BY <4>1
      <4>. QED
        BY <4>2, <4>3
    <3>. HIDE DEF z, p
    <3>3. z \div shoulder \in Int /\ p <= z \div shoulder
      BY <3>1, <3>2, QuotientIsBetween
    <3>. QED
      BY <3>3 DEF z, p
  <2>. HIDE DEF q
  <2>2. t \in Int /\ 0 <= t /\ t <= 100
    <3>1. all \in Int /\ all = 100
      OBVIOUS
    <3>. HIDE DEF all
    <3>2. Min({all, q}) = IF all <= q THEN all ELSE q
      BY <2>1, <3>1, LesserOfTwo
    <3>. QED
      BY <2>1, <3>1, <3>2
  <2>. HIDE DEF t
  <2>3. u * u \in Int /\ 0 <= u * u /\ u * u <= 100 * 100
    <3>. DEFINE m == 100
    <3>1. u \in Int /\ -m <= u /\ u <= m /\ m \in Nat
      BY <2>2
    <3>. HIDE DEF u, m
    <3>2. u * u \in Int /\ 0 <= u * u /\ u * u <= m * m
      BY <3>1, SquareIs
    <3>. QED
      BY <3>2 DEF m
  <2>. DEFINE e == u * u
  <2>. HIDE DEF e
  <2>4. s \in Nat /\ s <= 100 * 100
    BY <2>3 DEF e
  <2>. HIDE DEF s
  <2>5. s \in Squares
    BY <2>4 DEF Squares
  <2>6. r \in Root /\ r * r <= s
    BY <2>5, IsqrtIs
  <2>7. r \in Int /\ 0 <= r
    BY <2>6 DEF Root
  <2>. HIDE DEF r
  <2>8. r <= 100
    <3>1. SUFFICES ASSUME r >= 101 PROVE FALSE
      BY <2>7
    <3>. DEFINE a == 101
    <3>2. a \in Int /\ r \in Nat /\ a <= r
      BY <2>7, <3>1
    <3>. HIDE DEF a
    <3>3. a * r <= r * r
      BY <3>2, ProductGrows
    <3>4. 101 * r <= r * r
      BY <3>3 DEF a
    <3>. DEFINE g == r * r
    <3>5. g \in Int
      BY <2>7
    <3>. HIDE DEF g
    <3>6. g <= s /\ 101 * r <= g
      BY <2>6, <3>4 DEF g
    <3>. QED
      BY <2>4, <2>7, <3>1, <3>5, <3>6
  <2>. DEFINE v == 45 + (55 * r) \div 100
  <2>9. v \in Int /\ 0 <= v /\ v <= 100
    BY <2>7, <2>8
  <2>10. BevelProfile(dist, shoulder) = v
    BY <1>1, <1>3
  <2>. HIDE DEF v
  <2>. QED
    BY <2>9, <2>10, SharesAre
<1>. QED
  BY <1>2, <1>3

\* The relief of a raster in step with its drawing.
LEMMA HeightsAre ==
  ASSUME Drawn, NEW n, InStep(owner, tint, coverage, Texel, n, Projected), distance \in Depths
  PROVE  DOMAIN Relief = Texel /\ \A t \in Texel : Relief[t] \in Share
<1>. DEFINE level == [k \in Projected |-> Level(k)] shoulder == [k \in Projected |-> ShoulderTexels(k)]
<1>1. Relief = [t \in Texel |-> IF owner[t] = 0 THEN 0
                 ELSE (level[owner[t]] * BevelProfile(distance[t], shoulder[owner[t]])) \div 100]
  BY Zenon DEF Relief
<1>2. ASSUME NEW t \in Texel PROVE distance[t] \in Int
  <2>. DEFINE lo == -500 hi == Far + 1000
  <2>1. distance \in [Texel -> lo..hi]
    BY Zenon DEF Depths, Field
  <2>2. lo \in Int /\ hi \in Int
    BY SizesAre DEF Far
  <2>. HIDE DEF lo, hi
  <2>3. distance[t] \in lo..hi
    BY <2>1, Zenon
  <2>. QED
    BY <2>2, <2>3
<1>3. ASSUME NEW t \in Texel PROVE Relief[t] \in Share
  <2>1. CASE owner[t] = 0
    <3>1. Relief[t] = 0
      BY <1>1, <2>1
    <3>. QED
      BY <3>1, SharesAre
  <2>2. CASE owner[t] # 0
    <3>. DEFINE k == owner[t] d == distance[t] s == ShoulderTexels(k) l == Level(k) e == BevelProfile(d, s)
    <3>1. k \in Projected
      BY <2>2 DEF InStep
    <3>2. Relief[t] = (l * e) \div 100
      BY <1>1, <2>2, <3>1
    <3>3. d \in Int
      BY <1>2
    <3>. HIDE DEF k, d
    <3>4. l \in Share /\ s \in Nat \ {0}
      BY <3>1, LayersAre
    <3>. HIDE DEF l, s
    <3>5. e \in Share
      BY <3>3, <3>4, BevelIs
    <3>. HIDE DEF e
    <3>6. l \in Int /\ 0 <= l /\ l <= 100 /\ e \in Int /\ 0 <= e /\ e <= 100
      BY <3>4, <3>5, SharesAre
    <3>7. 0 <= l * e /\ l * e <= 100 * e /\ l * e \in Int
      <4>. DEFINE z == 0 h == 100
      <4>1. z \in Int /\ h \in Int /\ e \in Nat /\ z <= l /\ l <= h
        BY <3>6
      <4>. HIDE DEF z, h
      <4>2. z * e <= l * e /\ l * e <= h * e
        BY <3>6, <4>1, ProductGrows
      <4>3. l * e \in Int
        BY <3>6
      <4>. DEFINE g == l * e
      <4>. HIDE DEF g
      <4>4. z * e <= g /\ g <= h * e /\ g \in Int
        BY <4>2, <4>3 DEF g
      <4>5. 0 <= g /\ g <= 100 * e
        BY <3>6, <4>4 DEF z, h
      <4>. QED
        BY <4>4, <4>5 DEF g
    <3>. DEFINE g == l * e v == g \div 100
    <3>. HIDE DEF g
    <3>8. v \in Int /\ 0 <= v /\ v <= 100
      BY <3>6, <3>7 DEF g
    <3>9. Relief[t] = v
      BY <3>2 DEF g
    <3>. HIDE DEF v
    <3>. QED
      BY <3>8, <3>9, SharesAre
  <2>. QED
    BY <2>1, <2>2
<1>. QED
  BY <1>1, <1>3

------------------------------------------------------------------------------
(* The seam and the poles of the sphere.                                    *)

\* The four texels of a sample, and how they are mixed.
Mix(a, b, f) == a * (100 - f) + b * f
At(field, i, j) == field[<<Clamp(i, 0, H - 1), j % W>>]
Blend(field, p, f, y) ==
    Mix(Mix(At(field, y \div 100 + 0, p + 0), At(field, y \div 100 + 0, p + 1), f),
        Mix(At(field, y \div 100 + 1, p + 0), At(field, y \div 100 + 1, p + 1), f),
        y % 100) \div 10000
SampleOf(field, x, y) == Blend(field, x \div 100, x % 100, y)
AlongRow(v) == (100 * W * (2 * v[2] + (CASE v[1] = 0 -> 1 [] v[1] = SegmentsH -> -1 [] OTHER -> 0)))
                  \div (2 * SegmentsW) - 50
DownColumn(v) == (100 * v[1] * (H - 1)) \div SegmentsH

LEMMA SampledIs ==
  ASSUME NEW field, NEW v
  PROVE  SampleRelief(field, v) = SampleOf(field, AlongRow(v), DownColumn(v))
BY Zenon DEF SampleRelief, SampleOf, Blend, Mix, At, AlongRow, DownColumn

LEMMA MixIs ==
  ASSUME NEW a, NEW b, NEW f, NEW m, m \in Nat, a \in 0..m, b \in 0..m, f \in 0..100
  PROVE  Mix(a, b, f) \in 0..(100 * m)
<1>. DEFINE e == 100 - f
<1>1. a \in Int /\ b \in Int /\ m \in Int /\ f \in Nat /\ e \in Nat /\ 0 \in Int
      /\ 0 <= a /\ a <= m /\ 0 <= b /\ b <= m
  OBVIOUS
<1>2. m * e + m * f = 100 * m
  OBVIOUS
<1>3. Mix(a, b, f) = a * e + b * f
  BY DEF Mix
<1>. HIDE DEF e
<1>4. 0 * e <= a * e /\ a * e <= m * e /\ 0 * f <= b * f /\ b * f <= m * f
  BY <1>1, ProductGrows
<1>. DEFINE p == a * e q == b * f g == m * e h == m * f
<1>5. p \in Int /\ q \in Int /\ g \in Int /\ h \in Int /\ 0 * e = 0 /\ 0 * f = 0
  BY <1>1
<1>6. 0 <= p /\ p <= g /\ 0 <= q /\ q <= h /\ g + h = 100 * m /\ Mix(a, b, f) = p + q
  BY <1>2, <1>3, <1>4, <1>5
<1>. HIDE DEF p, q, g, h
<1>. QED
  BY <1>1, <1>5, <1>6

\* A sample of shares is a share.
LEMMA SampleIs ==
  ASSUME NEW field, \A t \in Texel : field[t] \in Share, NEW v, v \in Vertex
  PROVE  SampleRelief(field, v) \in Share
<1>. DEFINE x == AlongRow(v) y == DownColumn(v) m == 100 * 100
<1>1. v[1] \in Int /\ v[2] \in Int /\ W \in Nat \ {0} /\ H \in Nat \ {0}
      /\ SegmentsW \in Nat \ {0} /\ SegmentsH \in Nat \ {0}
  BY MeshAssumption, SizesAre DEF Vertex
<1>2. x \in Int
  <2>. DEFINE off == CASE v[1] = 0 -> 1 [] v[1] = SegmentsH -> -1 [] OTHER -> 0
              k == W * (2 * v[2] + off) d == 2 * SegmentsW
  <2>1. off \in Int
    OBVIOUS
  <2>2. d \in Nat \ {0}
    BY <1>1
  <2>3. x = (100 * W * (2 * v[2] + off)) \div d - 50
    BY Zenon DEF AlongRow
  <2>. HIDE DEF off, d
  <2>4. 2 * v[2] + off \in Int
    BY <1>1, <2>1
  <2>. DEFINE o == 2 * v[2] + off z == 100 * W * o
  <2>. HIDE DEF o
  <2>5. z \in Int
    BY <1>1, <2>4 DEF o
  <2>6. x = z \div d - 50
    BY <2>3 DEF o
  <2>. HIDE DEF z
  <2>. QED
    BY <2>2, <2>5, <2>6
<1>3. y \in Int
  <2>. DEFINE z == 100 * v[1] * (H - 1)
  <2>1. z \in Int
    BY <1>1
  <2>2. y = z \div SegmentsH
    BY Zenon DEF DownColumn
  <2>. HIDE DEF z
  <2>. QED
    BY <1>1, <2>1, <2>2
<1>. HIDE DEF x, y
<1>4. ASSUME NEW i, NEW j, i \in Int, j \in Int PROVE At(field, i, j) \in Share
  <2>1. Clamp(i, 0, H - 1) \in 0..(H - 1)
    <3>. DEFINE h == H - 1 zero == 0
    <3>1. h \in Int /\ zero \in Int /\ zero <= h
      BY <1>1
    <3>. HIDE DEF h, zero
    <3>2. Clamp(i, zero, h) \in zero..h
      BY <1>4, <3>1, ClampIs
    <3>. QED
      BY <3>2 DEF h, zero
  <2>2. j % W \in 0..(W - 1)
    BY <1>1, <1>4
  <2>. DEFINE c == Clamp(i, 0, H - 1) r == j % W
  <2>. HIDE DEF c, r
  <2>3. <<c, r>> \in Texel
    BY <2>1, <2>2 DEF c, r, Texel
  <2>4. field[<<c, r>>] \in Share
    BY <2>3
  <2>. QED
    BY <2>4, Zenon DEF At, c, r
<1>. DEFINE a == At(field, y \div 100 + 0, x \div 100 + 0) b == At(field, y \div 100 + 0, x \div 100 + 1)
            c == At(field, y \div 100 + 1, x \div 100 + 0) d == At(field, y \div 100 + 1, x \div 100 + 1)
            f == x % 100 g == y % 100
            top == Mix(a, b, f) low == Mix(c, d, f) all == Mix(top, low, g)
<1>5. /\ y \div 100 + 0 \in Int /\ y \div 100 + 1 \in Int /\ x \div 100 + 0 \in Int
      /\ x \div 100 + 1 \in Int /\ f \in 0..100 /\ g \in 0..100
  BY <1>2, <1>3
<1>6. a \in Share /\ b \in Share /\ c \in Share /\ d \in Share
  BY <1>4, <1>5
<1>7. SampleRelief(field, v) = all \div 10000
  BY SampledIs, Zenon DEF SampleOf, Blend, x, y
<1>. HIDE DEF a, b, c, d, f, g
<1>. DEFINE n == 100 zero == 0
<1>8. m \in Nat \ {0} /\ m = 10000 /\ n \in Nat /\ n = 100 /\ zero = 0
  OBVIOUS
<1>8a. m = 100 * n /\ n = 100 /\ zero = 0
  OBVIOUS
<1>8b. 0..(100 * n) = zero..m /\ 0..(100 * m) = zero..(n * m)
  BY <1>8a
<1>9. a \in zero..n /\ b \in zero..n /\ c \in zero..n /\ d \in zero..n
  BY <1>6 DEF Share
<1>. HIDE DEF m, n, zero
<1>10. top \in zero..m /\ low \in zero..m
  <2>1. n \in Nat /\ a \in 0..n /\ b \in 0..n /\ c \in 0..n /\ d \in 0..n /\ f \in 0..100
    BY <1>5, <1>8, <1>9
  <2>2. top \in 0..(100 * n) /\ low \in 0..(100 * n)
    BY <2>1, MixIs
  <2>. HIDE DEF top, low
  <2>. QED
    BY <1>8b, <2>2, Zenon
<1>. HIDE DEF top, low
<1>. DEFINE big == n * m
<1>11. all \in zero..big
  <2>1. m \in Nat /\ top \in 0..m /\ low \in 0..m /\ g \in 0..100
    BY <1>5, <1>8, <1>10
  <2>2. all \in 0..(100 * m)
    BY <2>1, MixIs
  <2>. HIDE DEF all
  <2>. QED
    BY <1>8b, <2>2, Zenon
<1>. HIDE DEF all
<1>12. all \div m \in zero..n
  <2>1. zero \in Int /\ n \in Int /\ big \in Int /\ zero * m = zero
    BY <1>8
  <2>2. n * m = big
    OBVIOUS
  <2>. HIDE DEF big
  <2>3. all \in Int /\ zero <= all /\ all <= big
    BY <1>11, <2>1
  <2>4. zero * m <= all /\ all <= n * m
    BY <2>1, <2>2, <2>3, Zenon
  <2>5. all \div m \in Int /\ zero <= all \div m /\ all \div m <= n
    BY <1>8, <2>1, <2>3, <2>4, QuotientIsBetween
  <2>. QED
    BY <2>1, <2>5
<1>13. all \div 10000 = all \div m
  BY <1>8
<1>. QED
  BY <1>7, <1>8, <1>12, <1>13 DEF Share

\* The two ends of a row are sampled a texture's width apart.
LEMMA RowsAre ==
  ASSUME NEW a, NEW b, a \in Vertex, b \in Vertex,
         a[1] = b[1], a[1] \notin {0, SegmentsH}, a[2] = 0, b[2] = SegmentsW
  PROVE  AlongRow(a) = -50 /\ AlongRow(b) = 100 * W - 50
<1>1. W \in Nat \ {0} /\ SegmentsW \in Nat \ {0}
  BY MeshAssumption, SizesAre
<1>2. AlongRow(a) = (100 * W * (2 * 0 + 0)) \div (2 * SegmentsW) - 50
      /\ AlongRow(b) = (100 * W * (2 * SegmentsW + 0)) \div (2 * SegmentsW) - 50
  BY Zenon DEF AlongRow
<1>. DEFINE d == 2 * SegmentsW w == 100 * W
<1>3. d \in Nat \ {0} /\ w \in Nat
  BY <1>1
<1>4. AlongRow(a) = (w * 0) \div d - 50 /\ AlongRow(b) = (w * d) \div d - 50
  BY <1>1, <1>2
<1>. HIDE DEF d
<1>5. (w * 0) \div d = 0 /\ (w * d) \div d = w
  <2>. HIDE DEF w
  <2>. DEFINE zero == 0
  <2>1. w * 0 = zero * d /\ zero \in Int /\ w \in Int /\ d \in Nat \ {0} /\ zero * d \in Int /\ w * d \in Int
    BY <1>3
  <2>. HIDE DEF zero
  <2>2. ASSUME NEW q, q \in Int PROVE (q * d) \div d = q
    <3>. DEFINE z == q * d
    <3>1. z \in Int /\ q * d <= z /\ z <= q * d
      BY <1>3, <2>2
    <3>. HIDE DEF z
    <3>2. z \div d \in Int /\ q <= z \div d /\ z \div d <= q
      BY <1>3, <2>2, <3>1, QuotientIsBetween
    <3>3. z \div d = q
      BY <2>2, <3>2
    <3>. QED
      BY <3>3 DEF z
  <2>. QED
    BY <2>1, <2>2 DEF zero
<1>. QED
  BY <1>3, <1>4, <1>5

\* The texture repeats itself after its width.
LEMMA TextureRepeats ==
  ASSUME NEW field, NEW y
  PROVE  SampleOf(field, 100 * W - 50, y) = SampleOf(field, -50, y)
<1>1. W \in Nat \ {0}
  BY SizesAre
<1>. DEFINE l == 100 * W - 50 r == -50 q == W - 1 m == -1
<1>2. l % 100 = 50 /\ l \div 100 = q /\ r % 100 = 50 /\ r \div 100 = m
  <2>1. q \in Int /\ l = 100 * q + 50 /\ m \in Int /\ r = 100 * m + 50
    BY <1>1
  <2>2. ASSUME NEW z, NEW c, c \in Int, z = 100 * c + 50 PROVE z % 100 = 50 /\ z \div 100 = c
    BY <2>2
  <2>. HIDE DEF l, q, r, m
  <2>. QED
    BY <2>1, <2>2
<1>3. (q + 0) % W = (m + 0) % W /\ (q + 1) % W = (m + 1) % W
  <2>1. CASE W = 1
    BY <2>1
  <2>2. CASE W > 1
    <3>1. q + 0 = W - 1 /\ m + 0 = -1 /\ q + 1 = W /\ m + 1 = 0
      BY <1>1
    <3>2. (W - 1) % W = W - 1 /\ W % W = 0 /\ 0 % W = 0
      BY <1>1, <2>2
    <3>3. (-1) % W = W - 1
      BY <1>1, <2>2
    <3>. QED
      BY <3>1, <3>2, <3>3
  <2>. QED
    BY <1>1, <2>1, <2>2
<1>. HIDE DEF l, r
<1>4. /\ SampleOf(field, l, y) = Blend(field, l \div 100, l % 100, y)
      /\ SampleOf(field, r, y) = Blend(field, r \div 100, r % 100, y)
  BY Zenon DEF SampleOf
<1>. HIDE DEF q, m
<1>5. \A i : At(field, i, q + 0) = At(field, i, m + 0) /\ At(field, i, q + 1) = At(field, i, m + 1)
  BY <1>3, Zenon DEF At
<1>6. Blend(field, q, 50, y) = Blend(field, m, 50, y)
  <2>. DEFINE up == y \div 100 + 0 down == y \div 100 + 1
  <2>1. /\ At(field, up, q + 0) = At(field, up, m + 0) /\ At(field, up, q + 1) = At(field, up, m + 1)
        /\ At(field, down, q + 0) = At(field, down, m + 0) /\ At(field, down, q + 1) = At(field, down, m + 1)
    BY <1>5, Zenon
  <2>. QED
    BY <2>1, SMT DEF Blend
<1>7. SampleOf(field, l, y) = SampleOf(field, r, y)
  BY <1>2, <1>4, <1>6, Zenon
<1>. QED
  BY <1>7 DEF l, r

LEMMA VerticesAre ==
  ASSUME NEW a, NEW b, a \in Vertex, b \in Vertex
  PROVE  /\ a = <<a[1], a[2]>> /\ a[1] \in 0..SegmentsH /\ a[2] \in 0..SegmentsW
         /\ a[1] = b[1] /\ a[2] = b[2] => a = b
BY DEF Vertex

LEMMA RemainderIs ==
  ASSUME NEW z, NEW d, z \in Int, d \in Nat \ {0}, z % d = 0
  PROVE  z \div d \in Int /\ z = (z \div d) * d
OBVIOUS

\* Vertices that meet off the poles are one, or the two ends of a row.
LEMMA MeetingIs ==
  ASSUME NEW a, NEW b, a \in Vertex, b \in Vertex, Coincide(a, b), a[1] \notin {0, SegmentsH}
  PROVE  /\ a[1] = b[1]
         /\ \/ a = b
            \/ a[2] = 0 /\ b[2] = SegmentsW
            \/ a[2] = SegmentsW /\ b[2] = 0
<1>1. a[1] = b[1] /\ (a[2] - b[2]) % SegmentsW = 0
  BY DEF Coincide
<1>2. a[2] \in 0..SegmentsW /\ b[2] \in 0..SegmentsW /\ (a[2] = b[2] => a = b)
  BY <1>1, VerticesAre
<1>3. SegmentsW \in Nat \ {0}
  BY MeshAssumption
<1>4. a[2] = b[2] \/ (a[2] = 0 /\ b[2] = SegmentsW) \/ (a[2] = SegmentsW /\ b[2] = 0)
  <2>. DEFINE x == a[2] y == b[2] n == SegmentsW d == x - y q == d \div n
  <2>1. x \in 0..n /\ y \in 0..n /\ n \in Nat \ {0} /\ d \in Int
    BY <1>2, <1>3
  <2>2. d % n = 0 /\ d = x - y
    BY <1>1
  <2>. HIDE DEF x, y, n, d
  <2>3. q \in Int /\ d = q * n
    BY <2>1, <2>2, RemainderIs
  <2>4. x - y = q * n
    BY <2>2, <2>3
  <2>. HIDE DEF q
  <2>5. q >= 2 \/ q = 1 \/ q = 0 \/ q = -1 \/ q <= -2
    BY <2>3
  <2>6. q < 2
    <3>. SUFFICES ASSUME q >= 2 PROVE FALSE
      BY <2>3
    <3>1. 2 * n <= q * n
      BY <2>1, <2>3, ProductGrows
    <3>. QED
      BY <2>1, <2>4, <3>1
  <2>7. q > -2
    <3>. DEFINE k == -2
    <3>. SUFFICES ASSUME q <= k PROVE FALSE
      BY <2>3
    <3>1. k \in Int /\ k * n = -2 * n
      BY <2>1
    <3>. HIDE DEF k
    <3>2. q * n <= k * n
      BY <2>1, <2>3, <3>1, ProductGrows
    <3>. QED
      BY <2>1, <2>4, <3>1, <3>2
  <2>8. CASE q = 1
    BY <2>1, <2>4, <2>8 DEF x, y, n
  <2>9. CASE q = 0
    BY <2>1, <2>4, <2>9 DEF x, y, n
  <2>10. CASE q = -1
    BY <2>1, <2>4, <2>10 DEF x, y, n
  <2>. QED
    BY <2>5, <2>6, <2>7, <2>8, <2>9, <2>10, <2>3
<1>. QED
  BY <1>1, <1>2, <1>4

\* Where vertices meet off the poles, the sphere has one height.
LEMMA HeightsMeet ==
  ASSUME NEW field, NEW a, NEW b, a \in Vertex, b \in Vertex, Coincide(a, b), a[1] \notin {0, SegmentsH}
  PROVE  SampleRelief(field, a) = SampleRelief(field, b)
<1>1. ASSUME NEW u, NEW v, u \in Vertex, v \in Vertex, u[1] = v[1], u[1] \notin {0, SegmentsH},
             u[2] = 0, v[2] = SegmentsW
      PROVE  SampleRelief(field, u) = SampleRelief(field, v)
  <2>1. DownColumn(u) = DownColumn(v)
    BY <1>1, Zenon DEF DownColumn
  <2>2. AlongRow(u) = -50 /\ AlongRow(v) = 100 * W - 50
    BY <1>1, RowsAre
  <2>. DEFINE y == DownColumn(u) l == 100 * W - 50 r == -50
  <2>3. SampleOf(field, l, y) = SampleOf(field, r, y)
    BY TextureRepeats
  <2>. HIDE DEF y, l, r
  <2>4. AlongRow(u) = r /\ AlongRow(v) = l /\ DownColumn(u) = y /\ DownColumn(v) = y
    BY <2>1, <2>2 DEF l, r, y
  <2>. QED
    BY <2>3, <2>4, SampledIs, Zenon
<1>2. CASE a = b
  BY <1>2
<1>3. CASE a[1] = b[1] /\ a[2] = 0 /\ b[2] = SegmentsW
  BY <1>1, <1>3
<1>4. CASE a[1] = b[1] /\ a[2] = SegmentsW /\ b[2] = 0
  BY <1>1, <1>4
<1>. QED
  BY <1>2, <1>3, <1>4, MeetingIs

\* Welding the normals of a sphere: those of vertices that meet are one.
LEMMA WeldIs ==
  ASSUME NEW n, \A v \in Vertex : n[v] \subseteq SphereFaces
  PROVE  LET w == WeldSeamAndPoleNormals(n) IN
         /\ DOMAIN w = Vertex
         /\ \A v \in Vertex : w[v] \subseteq SphereFaces
         /\ \A a, b \in Vertex : Coincide(a, b) => w[a] = w[b]
<1>. DEFINE seam == [v \in Vertex |-> n[v] \cup (IF v[2] \in {0, SegmentsW}
                                             THEN n[<<v[1], SegmentsW - v[2]>>] ELSE {})]
            w == WeldSeamAndPoleNormals(n)
<1>1. w = [v \in Vertex |-> IF v[1] \in {0, SegmentsH}
                          THEN UNION {seam[<<v[1], c>>] : c \in 0..SegmentsW} ELSE seam[v]]
  BY Zenon DEF WeldSeamAndPoleNormals
<1>2. SegmentsW \in Nat \ {0} /\ SegmentsH \in Nat \ {0}
  BY MeshAssumption
<1>3. ASSUME NEW v \in Vertex PROVE seam[v] \subseteq SphereFaces
  <2>1. v[1] \in 0..SegmentsH /\ v[2] \in 0..SegmentsW
    BY VerticesAre
  <2>2. v[2] \in {0, SegmentsW} => <<v[1], SegmentsW - v[2]>> \in Vertex
    BY <1>2, <2>1 DEF Vertex
  <2>. QED
    BY <2>2, Zenon
<1>4. ASSUME NEW a, NEW b, a \in Vertex, b \in Vertex, a[1] = b[1], a[2] = 0, b[2] = SegmentsW
      PROVE  seam[a] = seam[b]
  <2>1. a = <<a[1], 0>> /\ b = <<a[1], SegmentsW>>
    BY <1>4, VerticesAre
  <2>2. SegmentsW - 0 = SegmentsW /\ SegmentsW - SegmentsW = 0
    BY <1>2
  <2>3. seam[a] = n[a] \cup n[b] /\ seam[b] = n[b] \cup n[a]
    BY <1>4, <2>1, <2>2
  <2>. QED
    BY <2>3
<1>. HIDE DEF seam
<1>5. DOMAIN w = Vertex
  BY <1>1
<1>6. ASSUME NEW v \in Vertex PROVE w[v] \subseteq SphereFaces
  <2>1. \A c \in 0..SegmentsW : <<v[1], c>> \in Vertex
    BY VerticesAre DEF Vertex
  <2>2. CASE v[1] \in {0, SegmentsH}
    <3>1. w[v] = UNION {seam[<<v[1], c>>] : c \in 0..SegmentsW}
      BY <1>1, <2>2
    <3>. QED
      BY <1>3, <2>1, <3>1
  <2>3. CASE v[1] \notin {0, SegmentsH}
    BY <1>1, <1>3, <2>3
  <2>. QED
    BY <2>2, <2>3
<1>7. ASSUME NEW a \in Vertex, NEW b \in Vertex, Coincide(a, b) PROVE w[a] = w[b]
  <2>1. a[1] = b[1]
    BY <1>7 DEF Coincide
  <2>2. CASE a[1] \in {0, SegmentsH}
    <3>1. /\ w[a] = UNION {seam[<<a[1], c>>] : c \in 0..SegmentsW}
          /\ w[b] = UNION {seam[<<b[1], c>>] : c \in 0..SegmentsW}
      BY <1>1, <2>1, <2>2
    <3>. HIDE DEF w
    <3>. QED
      BY <2>1, <3>1
  <2>3. CASE a[1] \notin {0, SegmentsH}
    <3>1. seam[a] = seam[b]
      <4>1. \/ a = b
            \/ a[2] = 0 /\ b[2] = SegmentsW
            \/ a[2] = SegmentsW /\ b[2] = 0
        BY <1>7, <2>3, MeetingIs
      <4>. QED
        BY <1>4, <2>1, <4>1
    <3>. QED
      BY <1>1, <2>1, <2>3, <3>1, Zenon
  <2>. QED
    BY <2>2, <2>3
<1>. HIDE DEF w
<1>. QED
  BY <1>5, <1>6, <1>7 DEF w

LEMMA VertexNormalsAre == \A v \in Vertex : VertexNormals[v] \subseteq SphereFaces
BY DEF VertexNormals

------------------------------------------------------------------------------
(* Features that are sheets.                                                *)

\* FeatureIsSheet, of any feature.
Sheet(f) ==
    /\ UNION {Range(t) : t \in f.triangles} = f.vertices
    /\ \A t \in f.triangles : Cardinality(Range(t)) = 3
    /\ \A s, t \in f.triangles : s # t => Edges(s) \cap Edges(t) = {}
    /\ LET all == UNION {Edges(t) : t \in f.triangles}
           open == {e \in all : <<e[2], e[1]>> \notin all}
       IN  /\ \A e \in open : {e[1], e[2]} \subseteq f.rim
           /\ \A v \in f.rim : Cardinality({e \in open : e[1] = v}) = 1

LEMMA ThreeAre ==
  ASSUME NEW a, NEW b, NEW c, a # b, b # c, c # a
  PROVE  Range(<<a, b, c>>) = {a, b, c} /\ Cardinality(Range(<<a, b, c>>)) = 3
<1>1. Range(<<a, b, c>>) = {a, b, c}
  <2>. DEFINE t == <<a, b, c>>
  <2>1. DOMAIN t = {1, 2, 3} /\ t[1] = a /\ t[2] = b /\ t[3] = c
    OBVIOUS
  <2>2. Range(t) = {t[i] : i \in DOMAIN t}
    BY DEF Range
  <2>. HIDE DEF t
  <2>3. Range(t) = {a, b, c}
    BY <2>1, <2>2
  <2>. QED
    BY <2>3 DEF t
<1>2. IsFiniteSet({a}) /\ Cardinality({a}) = 1
  BY FS_Singleton
<1>3. IsFiniteSet({a, b}) /\ Cardinality({a, b}) = 2
  <2>1. {a, b} = {a} \cup {b}
    OBVIOUS
  <2>. QED
    BY <1>2, <2>1, FS_AddElement
<1>4. Cardinality({a, b, c}) = 3
  <2>1. {a, b, c} = {a, b} \cup {c}
    OBVIOUS
  <2>. QED
    BY <1>3, <2>1, FS_AddElement
<1>. QED
  BY <1>1, <1>4

LEMMA EdgesAre ==
  ASSUME NEW a, NEW b, NEW c
  PROVE  Edges(<<a, b, c>>) = {<<a, b>>, <<b, c>>, <<c, a>>}
BY DEF Edges

\* Every number is a row and a place in it.
LEMMA DividedIs ==
  ASSUME NEW w, NEW z, w \in Nat \ {0}, z \in Int, NEW r, r = z % w
  PROVE  z = (z \div w) * w + r
<1>1. r \in Int
  OBVIOUS
<1>. QED
  BY <1>1

LEMMA PlacesAre ==
  ASSUME NEW w, NEW z, w \in Nat \ {0}, z \in Int
  PROVE  z = (z \div w) * w + (z % w) /\ z \div w \in Int /\ z % w \in 0..(w - 1)
<1>. DEFINE r == z % w
<1>1. z \div w \in Int /\ r \in 0..(w - 1)
  OBVIOUS
<1>2. r = z % w
  OBVIOUS
<1>. HIDE DEF r
<1>3. z = (z \div w) * w + r
  BY <1>2, DividedIs
<1>4. z = (z \div w) * w + (z % w)
  BY <1>2, <1>3, Zenon
<1>5. z % w \in 0..(w - 1)
  OBVIOUS
<1>. QED
  BY <1>1, <1>4, <1>5, Zenon

\* The row of a number and its place in it are the ones it was made of.
LEMMA PlaceIs ==
  ASSUME NEW w, NEW q, NEW s, w \in Nat \ {0}, q \in Int, s \in 0..(w - 1)
  PROVE  (q * w + s) \div w = q /\ (q * w + s) % w = s
<1>. DEFINE z == q * w + s f == z \div w
<1>1. w \in Nat /\ w > 0 /\ q * w \in Int /\ s \in Int /\ 0 <= s /\ s < w
  OBVIOUS
<1>2. z \in Int /\ f \in Int
  BY <1>1
<1>3. z = q * w + s
  OBVIOUS
<1>4. f * w <= z /\ z < f * w + w /\ z = f * w + (z % w)
  <2>. HIDE DEF z
  <2>1. z = f * w + (z % w) /\ z % w \in 0..(w - 1)
    BY <1>2, PlacesAre
  <2>. DEFINE r == z % w p == f * w
  <2>2. p \in Int /\ z = p + r /\ r \in 0..(w - 1)
    BY <1>1, <1>2, <2>1
  <2>. HIDE DEF r, p
  <2>3. p <= z /\ z < p + w
    BY <1>1, <2>2
  <2>. QED
    BY <2>1, <2>3 DEF p
<1>. HIDE DEF z, f
<1>5. q <= f
  <2>. SUFFICES ASSUME f + 1 <= q PROVE FALSE
    BY <1>2
  <2>. DEFINE g == f + 1
  <2>1. g \in Int /\ g <= q /\ g * w = f * w + w
    BY <1>1, <1>2
  <2>. HIDE DEF g
  <2>2. g * w <= q * w
    BY <1>1, <2>1, ProductGrows
  <2>. QED
    BY <1>1, <1>2, <1>3, <1>4, <2>1, <2>2
<1>6. f <= q
  <2>. SUFFICES ASSUME q + 1 <= f PROVE FALSE
    BY <1>2
  <2>. DEFINE g == q + 1
  <2>1. g \in Int /\ g <= f /\ g * w = q * w + w
    BY <1>1, <1>2
  <2>. HIDE DEF g
  <2>2. g * w <= f * w
    BY <1>1, <1>2, <2>1, ProductGrows
  <2>. QED
    BY <1>1, <1>2, <1>3, <1>4, <2>1, <2>2
<1>7. f = q
  BY <1>2, <1>5, <1>6
<1>8. z % w = s
  BY <1>1, <1>2, <1>3, <1>4, <1>7
<1>. QED
  BY <1>7, <1>8 DEF z, f


\* An edge that another triangle of T has the other way.
Twinned(e, T) == \E t \in T : <<e[2], e[1]>> \in Edges(t)

\* A triangle of three vertices of V, and a triangle that an edge begins in at x.
HasCorners(t, V) ==
    \E a, b, c : /\ t = <<a, b, c>> /\ a # b /\ b # c /\ c # a
                /\ a \in V /\ b \in V /\ c \in V
Begins(T, x) == \E t \in T : \E e \in Edges(t) : e[1] = x
HasEdge(T, e) == \E t \in T : e \in Edges(t)

\* What makes a sheet of a feature with the border B.
Sewn(f, B) ==
    /\ \A t \in f.triangles : HasCorners(t, f.vertices)
    /\ \A v \in f.vertices : Begins(f.triangles, v)
    /\ \A s, t \in f.triangles : \A e : e \in Edges(s) /\ e \in Edges(t) => s = t
    /\ \A t \in f.triangles : \A e \in Edges(t) : Twinned(e, f.triangles) \/ e \in B
    /\ \A e \in B : /\ HasEdge(f.triangles, e)
                    /\ ~Twinned(e, f.triangles)
                    /\ e[1] \in f.rim /\ e[2] \in f.rim
    /\ \A v \in f.rim : \E e \in B : e[1] = v
    /\ \A d, e \in B : d[1] = e[1] => d = e

LEMMA SheetIs ==
  ASSUME NEW f, NEW B, Sewn(f, B)
  PROVE  Sheet(f)
<1>0. /\ \A t \in f.triangles : \E a, b, c : /\ t = <<a, b, c>> /\ a # b /\ b # c /\ c # a
                                             /\ a \in f.vertices /\ b \in f.vertices /\ c \in f.vertices
      /\ \A v \in f.vertices : \E t \in f.triangles : \E e \in Edges(t) : e[1] = v
      /\ \A s, t \in f.triangles : \A e : e \in Edges(s) /\ e \in Edges(t) => s = t
      /\ \A t \in f.triangles : \A e \in Edges(t) : Twinned(e, f.triangles) \/ e \in B
      /\ \A e \in B : /\ \E t \in f.triangles : e \in Edges(t)
                      /\ ~Twinned(e, f.triangles)
                      /\ e[1] \in f.rim /\ e[2] \in f.rim
      /\ \A v \in f.rim : \E e \in B : e[1] = v
      /\ \A d, e \in B : d[1] = e[1] => d = e
  BY Zenon DEF Sewn, HasCorners, Begins, HasEdge
<1>. DEFINE T == f.triangles
            all == UNION {Edges(t) : t \in T}
            open == {e \in all : <<e[2], e[1]>> \notin all}
<1>1. UNION {Range(t) : t \in T} = f.vertices
  <2>1. ASSUME NEW t \in T, NEW v \in Range(t) PROVE v \in f.vertices
    <3>1. PICK a, b, c : /\ t = <<a, b, c>> /\ a # b /\ b # c /\ c # a
                         /\ a \in f.vertices /\ b \in f.vertices /\ c \in f.vertices
      BY <1>0
    <3>2. Range(t) = {a, b, c}
      BY <3>1, ThreeAre
    <3>. QED
      BY <2>1, <3>1, <3>2
  <2>2. ASSUME NEW v \in f.vertices PROVE \E t \in T : v \in Range(t)
    <3>1. PICK t \in T : \E e \in Edges(t) : e[1] = v
      BY <1>0
    <3>2. PICK a, b, c : t = <<a, b, c>> /\ a # b /\ b # c /\ c # a
      BY <1>0, <3>1
    <3>3. Range(<<a, b, c>>) = {a, b, c}
      BY <3>2, ThreeAre
    <3>4. Edges(<<a, b, c>>) = {<<a, b>>, <<b, c>>, <<c, a>>}
      BY EdgesAre
    <3>5. v \in {a, b, c}
      <4>1. PICK e \in Edges(<<a, b, c>>) : e[1] = v
        BY <3>1, <3>2, Zenon
      <4>2. e = <<a, b>> \/ e = <<b, c>> \/ e = <<c, a>>
        BY <3>4, <4>1, Zenon
      <4>. QED
        BY <4>1, <4>2
    <3>. QED
      BY <3>2, <3>3, <3>5
  <2>. HIDE DEF T
  <2>. QED
    BY <2>1, <2>2
<1>2. ASSUME NEW t \in T PROVE Cardinality(Range(t)) = 3
  <2>1. PICK a, b, c : t = <<a, b, c>> /\ a # b /\ b # c /\ c # a
    BY <1>0
  <2>. QED
    BY <2>1, ThreeAre
<1>3. \A s, t \in T : s # t => Edges(s) \cap Edges(t) = {}
  BY <1>0
<1>4. \A e : e \in all <=> \E t \in T : e \in Edges(t)
  <2>. HIDE DEF T
  <2>. QED
    OBVIOUS
<1>5. \A e : <<e[2], e[1]>> \in all <=> Twinned(e, T)
  <2>. HIDE DEF all
  <2>. QED
    BY <1>4, Zenon DEF Twinned
<1>6. open = B
  <2>. HIDE DEF all
  <2>1. \A e : e \in open => e \in B
    BY <1>0, <1>4, <1>5
  <2>2. \A e : e \in B => e \in open
    BY <1>0, <1>4, <1>5
  <2>. HIDE DEF open
  <2>. QED
    BY <2>1, <2>2
<1>7. \A e \in open : {e[1], e[2]} \subseteq f.rim
  <2>. HIDE DEF open
  <2>. QED
    BY <1>0, <1>6
<1>8. ASSUME NEW v \in f.rim PROVE Cardinality({e \in open : e[1] = v}) = 1
  <2>. HIDE DEF open
  <2>1. PICK d \in B : d[1] = v
    BY <1>0, <1>8
  <2>2. {e \in open : e[1] = v} = {d}
    BY <1>0, <1>6, <2>1
  <2>. QED
    BY <2>2, FS_Singleton
<1>. HIDE DEF T
<1>9. /\ UNION {Range(t) : t \in f.triangles} = f.vertices
      /\ \A t \in f.triangles : Cardinality(Range(t)) = 3
      /\ \A s, t \in f.triangles : s # t => Edges(s) \cap Edges(t) = {}
  BY <1>1, <1>2, <1>3, Zenon DEF T
<1>. QED
  BY <1>7, <1>8, <1>9, Zenon DEF Sheet, T

------------------------------------------------------------------------------
(* Bowls.                                                                   *)

\* The vertices of a bowl of n segments: of a ring q, and after and before a place.
Knot(n, q, s) == 1 + (q - 1) * n + s
After(n, s) == (s + 1) % n
Ahead(n, s) == IF s = 0 THEN n - 1 ELSE s - 1
RingOf(n, x) == IF x = 0 THEN 0 ELSE 1 + (x - 1) \div n
PlaceOf(n, x) == (x - 1) % n
Places(n) == 0..(n - 1)
Rings(n) == 1..n

\* Its triangles: at the centre, and two from each ring to the next.
Fan(n, s) == <<0, Knot(n, 1, After(n, s)), Knot(n, 1, s)>>
Outer(n, q, s) == <<Knot(n, q, s), Knot(n, q + 1, After(n, s)), Knot(n, q + 1, s)>>
Inner(n, q, s) == <<Knot(n, q, s), Knot(n, q, After(n, s)), Knot(n, q + 1, After(n, s))>>
Fans(n) == {Fan(n, s) : s \in Places(n)}
Outers(m, n) == {Outer(n, q, s) : q \in Rings(m - 1), s \in Places(n)}
Inners(m, n) == {Inner(n, q, s) : q \in Rings(m - 1), s \in Places(n)}

\* Going round.
LEMMA AfterIs ==
  ASSUME NEW n, n \in Nat, n > 2, NEW s, s \in Places(n)
  PROVE  /\ After(n, s) \in Places(n) /\ Ahead(n, s) \in Places(n)
         /\ After(n, Ahead(n, s)) = s /\ Ahead(n, After(n, s)) = s
         /\ After(n, s) # s /\ After(n, After(n, s)) # s
<1>1. s \in Int /\ 0 <= s /\ s < n /\ n \in Nat \ {0}
  BY DEF Places
<1>2. ASSUME NEW u, u \in Int, 0 <= u, u < n PROVE After(n, u) = IF u = n - 1 THEN 0 ELSE u + 1
  <2>1. CASE u = n - 1
    <3>1. n % n = 0
      BY <1>1
    <3>2. u + 1 = n
      BY <1>1, <2>1
    <3>. QED
      BY <2>1, <3>1, <3>2 DEF After
  <2>2. CASE u # n - 1
    <3>1. u + 1 \in 0..(n - 1)
      BY <1>1, <1>2, <2>2
    <3>. DEFINE k == u + 1
    <3>2. k % n = k
      BY <1>1, <3>1
    <3>. QED
      BY <2>2, <3>2 DEF After
  <2>. QED
    BY <2>1, <2>2
<1>3. After(n, s) = IF s = n - 1 THEN 0 ELSE s + 1
  BY <1>1, <1>2
<1>. DEFINE a == After(n, s) b == Ahead(n, s)
<1>4. a \in Int /\ 0 <= a /\ a < n /\ b \in Int /\ 0 <= b /\ b < n
  BY <1>1, <1>3 DEF Ahead
<1>5. After(n, a) = (IF a = n - 1 THEN 0 ELSE a + 1) /\ After(n, b) = (IF b = n - 1 THEN 0 ELSE b + 1)
  BY <1>2, <1>4
<1>6. b = (IF s = 0 THEN n - 1 ELSE s - 1) /\ Ahead(n, a) = (IF a = 0 THEN n - 1 ELSE a - 1)
  BY DEF Ahead
<1>7. a \in Places(n) /\ b \in Places(n)
  BY <1>1, <1>4 DEF Places
<1>. HIDE DEF a, b
<1>8. a = IF s = n - 1 THEN 0 ELSE s + 1
  BY <1>3 DEF a
<1>9. After(n, b) = s /\ Ahead(n, a) = s /\ a # s /\ After(n, a) # s
  BY <1>1, <1>4, <1>5, <1>6, <1>8
<1>. QED
  BY <1>7, <1>9 DEF a, b

\* Ring and place of a vertex are the ones it was made of.
LEMMA KnotIs ==
  ASSUME NEW n, n \in Nat, n > 2, NEW q, q \in Nat \ {0}, NEW s, s \in Places(n)
  PROVE  /\ Knot(n, q, s) \in Nat \ {0} /\ Knot(n, q, s) <= q * n
         /\ q * n - n < Knot(n, q, s)
         /\ RingOf(n, Knot(n, q, s)) = q /\ PlaceOf(n, Knot(n, q, s)) = s
<1>. DEFINE p == q - 1 z == p * n + s k == Knot(n, q, s)
<1>1. n \in Nat \ {0} /\ p \in Nat /\ s \in 0..(n - 1) /\ s \in Nat
  BY DEF Places
<1>2. p * n \in Nat /\ p * n = q * n - n /\ q * n \in Nat
  <2>1. p * n \in Nat /\ q * n \in Nat
    BY <1>1
  <2>2. p * n = q * n - n
    BY <1>1
  <2>. QED
    BY <2>1, <2>2
<1>3. k = 1 + p * n + s
  BY DEF Knot
<1>4. z \div n = p /\ z % n = s
  <2>1. p \in Int
    BY <1>1
  <2>. HIDE DEF p
  <2>. QED
    BY <1>1, <2>1, PlaceIs
<1>5. z \in Nat /\ k = z + 1 /\ k - 1 = z
  BY <1>1, <1>2, <1>3
<1>6. k \in Nat \ {0} /\ k <= q * n /\ q * n - n < k
  BY <1>1, <1>2, <1>3
<1>. HIDE DEF k, z
<1>7. RingOf(n, k) = 1 + z \div n /\ PlaceOf(n, k) = z % n
  BY <1>5, <1>6 DEF RingOf, PlaceOf
<1>8. 1 + p = q
  OBVIOUS
<1>9. RingOf(n, k) = q /\ PlaceOf(n, k) = s
  BY <1>4, <1>7, <1>8
<1>. QED
  BY <1>6, <1>9 DEF k

\* Each vertex but the centre is one.
IsKnot(m, n, x) == \E q \in Rings(m), s \in Places(n) : x = Knot(n, q, s)

LEMMA KnotsAre ==
  ASSUME NEW n, n \in Nat, n > 2, NEW m, m \in Nat \ {0}, NEW x, x \in 0..(m * n), x # 0
  PROVE  IsKnot(m, n, x)
<1>. DEFINE z == x - 1 q == z \div n s == z % n
<1>1. n \in Nat \ {0} /\ m * n \in Nat /\ z \in Nat /\ z < m * n
  BY DEF Places
<1>2. z = q * n + s /\ q \in Int /\ s \in 0..(n - 1)
  BY <1>1, PlacesAre
<1>. HIDE DEF q, s
<1>3. q >= 0
  <2>. SUFFICES ASSUME q + 1 <= 0 PROVE FALSE
    BY <1>2
  <2>. DEFINE g == q + 1 zero == 0
  <2>1. g \in Int /\ zero \in Int /\ g <= zero /\ n \in Nat /\ g * n = q * n + n /\ zero * n = 0
    BY <1>1, <1>2
  <2>. HIDE DEF g, zero
  <2>2. g * n <= zero * n
    BY <2>1, ProductGrows
  <2>. QED
    BY <1>1, <1>2, <2>1, <2>2
<1>4. q < m
  <2>. SUFFICES ASSUME m <= q PROVE FALSE
    BY <1>2
  <2>1. m * n <= q * n
    BY <1>1, <1>2, ProductGrows
  <2>. QED
    BY <1>1, <1>2, <2>1
<1>5. q + 1 \in Rings(m) /\ s \in Places(n)
  BY <1>2, <1>3, <1>4 DEF Rings, Places
<1>6. x = Knot(n, q + 1, s)
  <2>1. (q + 1) - 1 = q /\ x = 1 + q * n + s
    BY <1>1, <1>2
  <2>. QED
    BY <2>1 DEF Knot
<1>. QED
  BY <1>5, <1>6 DEF IsKnot

\* The bowl in these words.
LEMMA BowlHas ==
  ASSUME NEW m, NEW n, n \in Nat, n > 2
  PROVE  /\ Bowl(m, n).triangles = Fans(n) \cup Outers(m, n) \cup Inners(m, n)
         /\ Bowl(m, n).vertices = 0..(m * n)
         /\ Bowl(m, n).rim = {Knot(n, m, s) : s \in Places(n)}
<1>. DEFINE fans == {<<0, 1 + After(n, s), 1 + s>> : s \in 0..(n - 1)}
            quads == UNION {Quad(Knot(n, r, s), Knot(n, r, After(n, s)), Knot(n, r + 1, s), Knot(n, r + 1, After(n, s))) :
                              r \in 1..(m - 1), s \in 0..(n - 1)}
            rim == {Knot(n, m, s) : s \in 0..(n - 1)}
            all == fans \cup quads
<1>1. Bowl(m, n) = [triangles |-> all, vertices |-> 0..(m * n), rim |-> rim]
  BY DEF Bowl, Knot, After
<1>2. fans = Fans(n)
  <2>1. ASSUME NEW s \in Places(n) PROVE Knot(n, 1, s) = 1 + s /\ Knot(n, 1, After(n, s)) = 1 + After(n, s)
    <3>1. ASSUME NEW u, u \in Places(n) PROVE Knot(n, 1, u) = 1 + u
      <4>1. u \in Int /\ (1 - 1) * n = 0
        BY <3>1 DEF Places
      <4>. QED
        BY <4>1 DEF Knot
    <3>. QED
      BY <3>1, AfterIs
  <2>. QED
    BY <2>1 DEF Fans, Fan, Places
<1>3. quads = Outers(m, n) \cup Inners(m, n)
  <2>. DEFINE pair(r, s) == {Outer(n, r, s), Inner(n, r, s)}
              pairs == {pair(r, s) : r \in Rings(m - 1), s \in Places(n)}
  <2>1. quads = UNION pairs
    BY DEF Quad, Outer, Inner, Rings, Places
  <2>2. \A y : y \in pairs <=> \E r \in Rings(m - 1), s \in Places(n) : y = pair(r, s)
    OBVIOUS
  <2>3. \A x : x \in quads <=> \E y \in pairs : x \in y
    <3>. HIDE DEF pairs, quads
    <3>. QED
      BY <2>1
  <2>. HIDE DEF quads, pairs
  <2>4. \A x : x \in quads <=> \E r \in Rings(m - 1), s \in Places(n) : x \in pair(r, s)
    <3>1. ASSUME NEW x, x \in quads PROVE \E r \in Rings(m - 1), s \in Places(n) : x \in pair(r, s)
      <4>1. PICK y \in pairs : x \in y
        BY <2>3, <3>1
      <4>2. PICK r \in Rings(m - 1), s \in Places(n) : y = pair(r, s)
        BY <2>2, <4>1
      <4>3. x \in pair(r, s)
        BY <4>1, <4>2
      <4>. QED
        BY <4>3
    <3>2. ASSUME NEW x, NEW r \in Rings(m - 1), NEW s \in Places(n), x \in pair(r, s) PROVE x \in quads
      <4>1. pair(r, s) \in pairs
        BY <2>2
      <4>. QED
        BY <2>3, <3>2, <4>1
    <3>. QED
      BY <3>1, <3>2
  <2>. QED
    BY <2>4 DEF Outers, Inners
<1>4. rim = {Knot(n, m, s) : s \in Places(n)}
  BY DEF Places
<1>. HIDE DEF fans, quads, rim
<1>. QED
  BY <1>1, <1>2, <1>3, <1>4

\* The triangle that has the edge from a to b.
Holder(n, a, b) ==
    IF RingOf(n, a) = 0 THEN Fan(n, Ahead(n, PlaceOf(n, b)))
    ELSE IF RingOf(n, b) = 0 THEN Fan(n, PlaceOf(n, a))
    ELSE IF RingOf(n, a) = RingOf(n, b)
         THEN IF PlaceOf(n, b) = After(n, PlaceOf(n, a)) THEN Inner(n, RingOf(n, a), PlaceOf(n, a))
              ELSE IF RingOf(n, a) = 1 THEN Fan(n, PlaceOf(n, b))
              ELSE Outer(n, RingOf(n, a) - 1, PlaceOf(n, b))
    ELSE IF RingOf(n, a) < RingOf(n, b)
         THEN IF PlaceOf(n, a) = PlaceOf(n, b) THEN Inner(n, RingOf(n, a), Ahead(n, PlaceOf(n, a)))
              ELSE Outer(n, RingOf(n, a), PlaceOf(n, a))
    ELSE IF PlaceOf(n, a) = PlaceOf(n, b) THEN Outer(n, RingOf(n, b), PlaceOf(n, b))
         ELSE Inner(n, RingOf(n, b), PlaceOf(n, b))

\* A triangle that is made of three vertices and holds its edges.
Held(n, t) ==
    /\ \E a, b, c : t = <<a, b, c>> /\ a # b /\ b # c /\ c # a
    /\ \A e \in Edges(t) : Holder(n, e[1], e[2]) = t

LEMMA HeldIs ==
  ASSUME NEW n, NEW a, NEW b, NEW c, a # b, b # c, c # a,
         Holder(n, a, b) = <<a, b, c>>, Holder(n, b, c) = <<a, b, c>>, Holder(n, c, a) = <<a, b, c>>
  PROVE  Held(n, <<a, b, c>>)
<1>. DEFINE t == <<a, b, c>>
<1>1. \A e \in Edges(t) : Holder(n, e[1], e[2]) = t
  <2>1. Edges(t) = {<<a, b>>, <<b, c>>, <<c, a>>}
    BY EdgesAre
  <2>2. ASSUME NEW e \in Edges(t) PROVE Holder(n, e[1], e[2]) = t
    <3>1. (e[1] = a /\ e[2] = b) \/ (e[1] = b /\ e[2] = c) \/ (e[1] = c /\ e[2] = a)
      BY <2>1
    <3>. QED
      BY <3>1, Zenon
  <2>. QED
    BY <2>2
<1>. QED
  BY <1>1, Zenon DEF Held

LEMMA CentreIs == ASSUME NEW n PROVE RingOf(n, 0) = 0
BY DEF RingOf

LEMMA FansAreHeld ==
  ASSUME NEW n, n \in Nat, n > 2, NEW s, s \in Places(n)
  PROVE  Held(n, Fan(n, s))
<1>. DEFINE one == 1 u == After(n, s) a == Knot(n, one, u) b == Knot(n, one, s)
<1>1. u \in Places(n) /\ Ahead(n, u) = s /\ u # s /\ After(n, u) # s
  BY AfterIs
<1>2. a # 0 /\ RingOf(n, a) = 1 /\ PlaceOf(n, a) = u /\ b # 0 /\ RingOf(n, b) = 1 /\ PlaceOf(n, b) = s
  <2>1. one = 1 /\ one \in Nat \ {0}
    OBVIOUS
  <2>. HIDE DEF one
  <2>2. a \in Nat \ {0} /\ RingOf(n, a) = one /\ PlaceOf(n, a) = u
    BY <1>1, <2>1, KnotIs
  <2>3. b \in Nat \ {0} /\ RingOf(n, b) = one /\ PlaceOf(n, b) = s
    BY <2>1, KnotIs
  <2>. QED
    BY <2>1, <2>2, <2>3
<1>3. Fan(n, s) = <<0, a, b>>
  BY Zenon DEF Fan
<1>. HIDE DEF a, b, u
<1>4. Holder(n, 0, a) = Fan(n, s)
  BY <1>1, <1>2, CentreIs, Zenon DEF Holder
<1>5. Holder(n, a, b) = Fan(n, s)
  BY <1>1, <1>2, SMT DEF Holder, u
<1>6. Holder(n, b, 0) = Fan(n, s)
  BY <1>2, CentreIs, SMT DEF Holder
<1>7. a # b
  BY <1>1, <1>2
<1>. QED
  BY <1>2, <1>3, <1>4, <1>5, <1>6, <1>7, HeldIs

LEMMA OutersAreHeld ==
  ASSUME NEW n, n \in Nat, n > 2, NEW s, s \in Places(n), NEW q, q \in Nat \ {0}
  PROVE  Held(n, Outer(n, q, s))
<1>. DEFINE u == After(n, s) p == q + 1 a == Knot(n, q, s) b == Knot(n, p, u) c == Knot(n, p, s)
<1>1. u \in Places(n) /\ Ahead(n, u) = s /\ u # s /\ After(n, u) # s
  BY AfterIs
<1>2. p \in Nat \ {0} /\ p # q /\ q < p /\ ~(p < q) /\ p - 1 = q /\ p # 1 /\ q # 0 /\ p # 0
  OBVIOUS
<1>. HIDE DEF p
<1>3. /\ RingOf(n, a) = q /\ PlaceOf(n, a) = s /\ RingOf(n, b) = p /\ PlaceOf(n, b) = u
      /\ RingOf(n, c) = p /\ PlaceOf(n, c) = s
  BY <1>1, <1>2, KnotIs, ZenonT(60)
<1>4. Outer(n, q, s) = <<a, b, c>>
  BY Zenon DEF Outer, p
<1>. HIDE DEF a, b, c
<1>5. Holder(n, a, b) = Outer(n, q, s)
  BY <1>1, <1>2, <1>3, SMT DEF Holder
<1>6. Holder(n, b, c) = Outer(n, q, s)
  BY <1>1, <1>2, <1>3, SMT DEF Holder
<1>7. Holder(n, c, a) = Outer(n, q, s)
  BY <1>1, <1>2, <1>3, SMT DEF Holder
<1>8. a # b /\ b # c /\ c # a
  BY <1>1, <1>2, <1>3
<1>. QED
  BY <1>4, <1>5, <1>6, <1>7, <1>8, HeldIs

LEMMA InnersAreHeld ==
  ASSUME NEW n, n \in Nat, n > 2, NEW s, s \in Places(n), NEW q, q \in Nat \ {0}
  PROVE  Held(n, Inner(n, q, s))
<1>. DEFINE u == After(n, s) p == q + 1 a == Knot(n, q, s) b == Knot(n, q, u) c == Knot(n, p, u)
<1>1. u \in Places(n) /\ Ahead(n, u) = s /\ u # s /\ After(n, u) # s
  BY AfterIs
<1>2. p \in Nat \ {0} /\ p # q /\ q < p /\ ~(p < q) /\ p - 1 = q /\ p # 1 /\ q # 0 /\ p # 0
  OBVIOUS
<1>. HIDE DEF p
<1>3. /\ RingOf(n, a) = q /\ PlaceOf(n, a) = s /\ RingOf(n, b) = q /\ PlaceOf(n, b) = u
      /\ RingOf(n, c) = p /\ PlaceOf(n, c) = u
  BY <1>1, <1>2, KnotIs, ZenonT(60)
<1>4. Inner(n, q, s) = <<a, b, c>>
  BY Zenon DEF Inner, p
<1>. HIDE DEF a, b, c
<1>5. Holder(n, a, b) = Inner(n, q, s)
  BY <1>1, <1>2, <1>3, SMT DEF Holder
<1>6. Holder(n, b, c) = Inner(n, q, s)
  BY <1>1, <1>2, <1>3, SMT DEF Holder
<1>7. Holder(n, c, a) = Inner(n, q, s)
  BY <1>1, <1>2, <1>3, SMT DEF Holder
<1>8. a # b /\ b # c /\ c # a
  BY <1>1, <1>2, <1>3
<1>. QED
  BY <1>4, <1>5, <1>6, <1>7, <1>8, HeldIs

\* The edges of the three kinds of triangles.
LEMMA BowlEdges ==
  ASSUME NEW n, NEW q, NEW s, NEW u, u = After(n, s)
  PROVE  /\ \A e : e \in Edges(Fan(n, s)) <=>
                \/ e = <<0, Knot(n, 1, u)>>
                \/ e = <<Knot(n, 1, u), Knot(n, 1, s)>>
                \/ e = <<Knot(n, 1, s), 0>>
         /\ \A e : e \in Edges(Outer(n, q, s)) <=>
                \/ e = <<Knot(n, q, s), Knot(n, q + 1, u)>>
                \/ e = <<Knot(n, q + 1, u), Knot(n, q + 1, s)>>
                \/ e = <<Knot(n, q + 1, s), Knot(n, q, s)>>
         /\ \A e : e \in Edges(Inner(n, q, s)) <=>
                \/ e = <<Knot(n, q, s), Knot(n, q, u)>>
                \/ e = <<Knot(n, q, u), Knot(n, q + 1, u)>>
                \/ e = <<Knot(n, q + 1, u), Knot(n, q, s)>>
<1>1. \A a, b, c, e : e \in Edges(<<a, b, c>>) <=> e = <<a, b>> \/ e = <<b, c>> \/ e = <<c, a>>
  <2>1. ASSUME NEW a, NEW b, NEW c, NEW e
        PROVE  e \in Edges(<<a, b, c>>) <=> e = <<a, b>> \/ e = <<b, c>> \/ e = <<c, a>>
    <3>1. Edges(<<a, b, c>>) = {<<a, b>>, <<b, c>>, <<c, a>>}
      BY EdgesAre
    <3>. QED
      BY <3>1, Zenon
  <2>. QED
    BY <2>1, Zenon
<1>2. /\ Fan(n, s) = <<0, Knot(n, 1, u), Knot(n, 1, s)>>
      /\ Outer(n, q, s) = <<Knot(n, q, s), Knot(n, q + 1, u), Knot(n, q + 1, s)>>
      /\ Inner(n, q, s) = <<Knot(n, q, s), Knot(n, q, u), Knot(n, q + 1, u)>>
  BY Zenon DEF Fan, Outer, Inner
<1>. QED
  BY <1>1, <1>2

\* What a bowl of m rings is made of.
LEMMA BowlKinds ==
  ASSUME NEW m, m \in Nat \ {0}, NEW n, n \in Nat, n > 2, NEW T, T = Bowl(m, n).triangles
  PROVE  /\ \A s \in Places(n) : Fan(n, s) \in T
         /\ \A q \in Rings(m - 1), s \in Places(n) : Outer(n, q, s) \in T /\ Inner(n, q, s) \in T
<1>1. T = Fans(n) \cup Outers(m, n) \cup Inners(m, n)
  BY BowlHas
<1>. QED
  BY <1>1 DEF Fans, Outers, Inners

LEMMA RingsAre ==
  ASSUME NEW m, m \in Nat \ {0}
  PROVE  /\ 1 \in Rings(m) /\ m \in Rings(m)
         /\ \A q \in Rings(m) : q \in Nat \ {0} /\ q <= m
         /\ \A q \in Rings(m - 1) : q \in Nat \ {0} /\ q \in Rings(m) /\ q + 1 \in Rings(m)
         /\ \A q \in Rings(m) : q = 1 \/ q - 1 \in Rings(m - 1)
         /\ \A q \in Rings(m) : q = m \/ q \in Rings(m - 1)
         /\ \A q \in Rings(m) : (q - 1) + 1 = q
BY DEF Rings

\* The vertices of a bowl of m rings.
LEMMA KnotsIn ==
  ASSUME NEW m, m \in Nat \ {0}, NEW n, n \in Nat, n > 2
  PROVE  \A q \in Rings(m), s \in Places(n) : Knot(n, q, s) \in 0..(m * n) /\ Knot(n, q, s) # 0
<1>1. ASSUME NEW q \in Rings(m), NEW s \in Places(n) PROVE Knot(n, q, s) \in 0..(m * n) /\ Knot(n, q, s) # 0
  <2>1. q \in Nat \ {0} /\ q <= m
    BY RingsAre
  <2>2. Knot(n, q, s) \in Nat \ {0} /\ Knot(n, q, s) <= q * n
    BY <2>1, KnotIs
  <2>3. q * n <= m * n
    BY <2>1, ProductGrows
  <2>4. q * n \in Nat /\ m * n \in Nat
    BY <2>1
  <2>. QED
    BY <2>2, <2>3, <2>4
<1>. QED
  BY <1>1

\* A triangle of a bowl holds its edges, and lies between vertices of it.
IsTriangle(m, n, t) ==
    \/ \E s \in Places(n) : t = Fan(n, s)
    \/ \E q \in Rings(m - 1), s \in Places(n) : t = Outer(n, q, s) \/ t = Inner(n, q, s)

LEMMA TrianglesAre ==
  ASSUME NEW m, m \in Nat \ {0}, NEW n, n \in Nat, n > 2, NEW t, t \in Bowl(m, n).triangles
  PROVE  IsTriangle(m, n, t)
<1>1. t \in Fans(n) \cup Outers(m, n) \cup Inners(m, n)
  BY BowlHas
<1>. QED
  BY <1>1 DEF Fans, Outers, Inners, IsTriangle

LEMMA BowlHolds ==
  ASSUME NEW m, m \in Nat \ {0}, NEW n, n \in Nat, n > 2, NEW t, t \in Bowl(m, n).triangles
  PROVE  /\ Held(n, t)
         /\ HasCorners(t, 0..(m * n))
<1>. DEFINE T == Bowl(m, n).triangles V == 0..(m * n)
<1>1. \/ \E s \in Places(n) : t = Fan(n, s)
      \/ \E q \in Rings(m - 1), s \in Places(n) : t = Outer(n, q, s) \/ t = Inner(n, q, s)
  BY TrianglesAre DEF IsTriangle
<1>2. Held(n, t)
  <2>1. \A q \in Rings(m - 1) : q \in Nat \ {0}
    BY RingsAre
  <2>2. ASSUME NEW s \in Places(n), t = Fan(n, s) PROVE Held(n, t)
    BY <2>2, FansAreHeld
  <2>3. ASSUME NEW q \in Rings(m - 1), NEW s \in Places(n), t = Outer(n, q, s) \/ t = Inner(n, q, s)
        PROVE  Held(n, t)
    BY <2>1, <2>3, OutersAreHeld, InnersAreHeld
  <2>. QED
    BY <1>1, <2>2, <2>3
<1>3. PICK a, b, c : t = <<a, b, c>> /\ a # b /\ b # c /\ c # a
  BY <1>2 DEF Held
<1>4. 0 \in V
  <2>1. m * n \in Nat
    OBVIOUS
  <2>. QED
    BY <2>1
<1>. HIDE DEF V
<1>5. \A q \in Rings(m), s \in Places(n) : Knot(n, q, s) \in V
  BY KnotsIn, Zenon DEF V
<1>6. a \in V /\ b \in V /\ c \in V
  <2>1. ASSUME NEW s \in Places(n), t = Fan(n, s) PROVE a \in V /\ b \in V /\ c \in V
    <3>1. t = <<0, Knot(n, 1, After(n, s)), Knot(n, 1, s)>>
      BY <2>1, Zenon DEF Fan
    <3>2. After(n, s) \in Places(n) /\ 1 \in Rings(m)
      BY AfterIs, RingsAre
    <3>3. Knot(n, 1, After(n, s)) \in V /\ Knot(n, 1, s) \in V
      BY <1>5, <3>2
    <3>. QED
      BY <1>3, <1>4, <3>1, <3>3
  <2>2. ASSUME NEW q \in Rings(m - 1), NEW s \in Places(n), t = Outer(n, q, s) \/ t = Inner(n, q, s)
        PROVE  a \in V /\ b \in V /\ c \in V
    <3>1. \/ t = <<Knot(n, q, s), Knot(n, q + 1, After(n, s)), Knot(n, q + 1, s)>>
          \/ t = <<Knot(n, q, s), Knot(n, q, After(n, s)), Knot(n, q + 1, After(n, s))>>
      BY <2>2, Zenon DEF Outer, Inner
    <3>2. After(n, s) \in Places(n) /\ q \in Rings(m) /\ q + 1 \in Rings(m)
      BY AfterIs, RingsAre
    <3>3. /\ Knot(n, q, s) \in V /\ Knot(n, q, After(n, s)) \in V
          /\ Knot(n, q + 1, s) \in V /\ Knot(n, q + 1, After(n, s)) \in V
      BY <1>5, <3>2, Zenon
    <3>. QED
      BY <1>3, <3>1, <3>3
  <2>. QED
    BY <1>1, <2>1, <2>2
<1>. QED
  BY <1>2, <1>3, <1>6, Zenon DEF V, HasCorners

\* Each vertex of a bowl begins an edge.
LEMMA BowlReaches ==
  ASSUME NEW m, m \in Nat \ {0}, NEW n, n \in Nat, n > 2, NEW x, x \in 0..(m * n)
  PROVE  Begins(Bowl(m, n).triangles, x)
<1>. DEFINE T == Bowl(m, n).triangles
<1>1. /\ \A s \in Places(n) : Fan(n, s) \in T
      /\ \A q \in Rings(m - 1), s \in Places(n) : Outer(n, q, s) \in T
  BY BowlKinds
<1>. HIDE DEF T
<1>2. CASE x = 0
  <2>1. 0 \in Places(n)
    BY DEF Places
  <2>2. <<0, Knot(n, 1, After(n, 0))>> \in Edges(Fan(n, 0))
    BY BowlEdges
  <2>. QED
    BY <1>1, <1>2, <2>1, <2>2 DEF T, Begins
<1>3. CASE x # 0
  <2>1. PICK q \in Rings(m), s \in Places(n) : x = Knot(n, q, s)
    <3>1. IsKnot(m, n, x)
      BY <1>3, KnotsAre
    <3>. QED
      BY <3>1, Zenon DEF IsKnot
  <2>2. CASE q = 1
    <3>1. <<x, 0>> \in Edges(Fan(n, s))
      BY <2>1, <2>2, BowlEdges
    <3>. QED
      BY <1>1, <3>1 DEF T, Begins
  <2>3. CASE q # 1
    <3>. DEFINE p == q - 1
    <3>1. p \in Rings(m - 1) /\ p + 1 = q
      BY <2>3, RingsAre
    <3>. HIDE DEF p
    <3>2. <<x, Knot(n, p, s)>> \in Edges(Outer(n, p, s))
      BY <2>1, <3>1, BowlEdges
    <3>. QED
      BY <1>1, <3>1, <3>2 DEF T, Begins
  <2>. QED
    BY <2>2, <2>3
<1>. QED
  BY <1>2, <1>3

\* The border of a bowl.
Border(m, n) == {<<Knot(n, m, After(n, s)), Knot(n, m, s)>> : s \in Places(n)}

\* Each edge has its twin or is of the border.
LEMMA BowlIsClosed ==
  ASSUME NEW m, m \in Nat \ {0}, NEW n, n \in Nat, n > 2, NEW T, T = Bowl(m, n).triangles,
         NEW t \in T, NEW e \in Edges(t)
  PROVE  Twinned(e, T) \/ e \in Border(m, n)
<1>1. /\ \A s \in Places(n) : Fan(n, s) \in T
      /\ \A q \in Rings(m - 1), s \in Places(n) : Outer(n, q, s) \in T /\ Inner(n, q, s) \in T
      /\ \/ \E s \in Places(n) : t = Fan(n, s)
         \/ \E q \in Rings(m - 1), s \in Places(n) : t = Outer(n, q, s) \/ t = Inner(n, q, s)
  <2>1. /\ \A s \in Places(n) : Fan(n, s) \in T
        /\ \A q \in Rings(m - 1), s \in Places(n) : Outer(n, q, s) \in T /\ Inner(n, q, s) \in T
    BY BowlKinds
  <2>. QED
    <3>1. t \in Bowl(m, n).triangles
      OBVIOUS
    <3>2. IsTriangle(m, n, t)
      BY <3>1, TrianglesAre
    <3>. QED
      BY <2>1, <3>2 DEF IsTriangle
\* forward and back along a ring, up and down, and across
<1>2. ASSUME NEW q \in Rings(m), NEW s \in Places(n), e = <<Knot(n, q, After(n, s)), Knot(n, q, s)>>
      PROVE  Twinned(e, T) \/ e \in Border(m, n)
  <2>1. CASE q = m
    BY <1>2, <2>1, Zenon DEF Border
  <2>2. CASE q # m
    <3>1. q \in Rings(m - 1)
      BY <2>2, RingsAre
    <3>2. <<Knot(n, q, s), Knot(n, q, After(n, s))>> \in Edges(Inner(n, q, s))
      BY BowlEdges
    <3>. QED
      BY <1>1, <1>2, <3>1, <3>2 DEF Twinned
  <2>. QED
    BY <2>1, <2>2
<1>3. ASSUME NEW q \in Rings(m - 1), NEW s \in Places(n), e = <<Knot(n, q, s), Knot(n, q, After(n, s))>>
      PROVE  Twinned(e, T)
  <2>1. CASE q = 1
    <3>1. <<Knot(n, q, After(n, s)), Knot(n, q, s)>> \in Edges(Fan(n, s))
      BY <2>1, BowlEdges
    <3>. QED
      BY <1>1, <1>3, <3>1 DEF Twinned
  <2>2. CASE q # 1
    <3>. DEFINE p == q - 1
    <3>1. p \in Rings(m - 1) /\ p + 1 = q
      BY <2>2 DEF Rings
    <3>. HIDE DEF p
    <3>2. <<Knot(n, q, After(n, s)), Knot(n, q, s)>> \in Edges(Outer(n, p, s))
      BY <3>1, BowlEdges
    <3>. QED
      BY <1>1, <1>3, <3>1, <3>2 DEF Twinned
  <2>. QED
    BY <2>1, <2>2
<1>4. ASSUME NEW s \in Places(n), e = <<0, Knot(n, 1, After(n, s))>> \/ e = <<Knot(n, 1, s), 0>>
      PROVE  Twinned(e, T)
  <2>1. CASE e = <<0, Knot(n, 1, After(n, s))>>
    <3>1. After(n, s) \in Places(n)
      BY AfterIs
    <3>2. <<Knot(n, 1, After(n, s)), 0>> \in Edges(Fan(n, After(n, s)))
      BY BowlEdges
    <3>. QED
      BY <1>1, <2>1, <3>1, <3>2 DEF Twinned
  <2>2. CASE e = <<Knot(n, 1, s), 0>>
    <3>1. Ahead(n, s) \in Places(n) /\ After(n, Ahead(n, s)) = s
      BY AfterIs
    <3>2. <<0, Knot(n, 1, s)>> \in Edges(Fan(n, Ahead(n, s)))
      BY <3>1, BowlEdges
    <3>. QED
      BY <1>1, <2>2, <3>1, <3>2 DEF Twinned
  <2>. QED
    BY <1>4, <2>1, <2>2
<1>5. ASSUME NEW q \in Rings(m - 1), NEW s \in Places(n),
             \/ e = <<Knot(n, q, s), Knot(n, q + 1, After(n, s))>>
             \/ e = <<Knot(n, q + 1, After(n, s)), Knot(n, q, s)>>
      PROVE  Twinned(e, T)
  <2>1. /\ <<Knot(n, q, s), Knot(n, q + 1, After(n, s))>> \in Edges(Outer(n, q, s))
        /\ <<Knot(n, q + 1, After(n, s)), Knot(n, q, s)>> \in Edges(Inner(n, q, s))
    BY BowlEdges
  <2>. QED
    BY <1>1, <1>5, <2>1 DEF Twinned
<1>6. ASSUME NEW q \in Rings(m - 1), NEW s \in Places(n),
             e = <<Knot(n, q + 1, s), Knot(n, q, s)>> \/ e = <<Knot(n, q, s), Knot(n, q + 1, s)>>
      PROVE  Twinned(e, T)
  <2>1. Ahead(n, s) \in Places(n) /\ After(n, Ahead(n, s)) = s
    BY AfterIs
  <2>2. /\ <<Knot(n, q, s), Knot(n, q + 1, s)>> \in Edges(Inner(n, q, Ahead(n, s)))
        /\ <<Knot(n, q + 1, s), Knot(n, q, s)>> \in Edges(Outer(n, q, s))
    BY <2>1, BowlEdges
  <2>. QED
    BY <1>1, <1>6, <2>1, <2>2 DEF Twinned
<1>7. ASSUME NEW s \in Places(n), t = Fan(n, s) PROVE Twinned(e, T) \/ e \in Border(m, n)
  <2>1. \/ e = <<0, Knot(n, 1, After(n, s))>>
        \/ e = <<Knot(n, 1, After(n, s)), Knot(n, 1, s)>>
        \/ e = <<Knot(n, 1, s), 0>>
    BY <1>7, BowlEdges
  <2>2. 1 \in Rings(m)
    BY RingsAre
  <2>. QED
    BY <1>2, <1>4, <2>1, <2>2
<1>8. ASSUME NEW q \in Rings(m - 1), NEW s \in Places(n), t = Outer(n, q, s)
      PROVE  Twinned(e, T) \/ e \in Border(m, n)
  <2>1. \/ e = <<Knot(n, q, s), Knot(n, q + 1, After(n, s))>>
        \/ e = <<Knot(n, q + 1, After(n, s)), Knot(n, q + 1, s)>>
        \/ e = <<Knot(n, q + 1, s), Knot(n, q, s)>>
    BY <1>8, BowlEdges
  <2>2. q + 1 \in Rings(m)
    BY RingsAre
  <2>. QED
    BY <1>2, <1>5, <1>6, <2>1, <2>2
<1>9. ASSUME NEW q \in Rings(m - 1), NEW s \in Places(n), t = Inner(n, q, s) PROVE Twinned(e, T)
  <2>1. \/ e = <<Knot(n, q, s), Knot(n, q, After(n, s))>>
        \/ e = <<Knot(n, q, After(n, s)), Knot(n, q + 1, After(n, s))>>
        \/ e = <<Knot(n, q + 1, After(n, s)), Knot(n, q, s)>>
    BY <1>9, BowlEdges
  <2>2. After(n, s) \in Places(n)
    BY AfterIs
  <2>. QED
    BY <1>3, <1>5, <1>6, <2>1, <2>2
<1>. QED
  BY <1>1, <1>7, <1>8, <1>9

LEMMA BorderIs ==
  ASSUME NEW m, m \in Nat \ {0}, NEW n, n \in Nat, n > 2, NEW T, T = Bowl(m, n).triangles,
         NEW s, s \in Places(n), NEW e, e = <<Knot(n, m, After(n, s)), Knot(n, m, s)>>
  PROVE  HasEdge(T, e) /\ ~Twinned(e, T)
<1>1. HasEdge(T, e)
  <2>1. /\ \A u \in Places(n) : Fan(n, u) \in T
        /\ \A q \in Rings(m - 1), u \in Places(n) : Outer(n, q, u) \in T
    BY BowlKinds
  <2>2. CASE m = 1
    <3>1. e \in Edges(Fan(n, s))
      BY <2>2, BowlEdges
    <3>. QED
      BY <2>1, <3>1 DEF HasEdge
  <2>3. CASE m # 1
    <3>. DEFINE p == m - 1
    <3>1. p \in Rings(m - 1) /\ p + 1 = m
      BY <2>3 DEF Rings
    <3>. HIDE DEF p
    <3>2. e \in Edges(Outer(n, p, s))
      BY <3>1, BowlEdges
    <3>. QED
      BY <2>1, <3>1, <3>2 DEF HasEdge
  <2>. QED
    BY <2>2, <2>3
<1>2. ASSUME NEW t \in T, <<e[2], e[1]>> \in Edges(t) PROVE FALSE
  <2>. DEFINE a == Knot(n, m, s) b == Knot(n, m, After(n, s)) p == m + 1 c == Knot(n, p, After(n, s))
  <2>0. After(n, s) \in Places(n) /\ p \in Nat \ {0}
    BY AfterIs
  <2>1. RingOf(n, a) = m /\ RingOf(n, b) = m /\ PlaceOf(n, a) = s /\ PlaceOf(n, b) = After(n, s)
    BY <2>0, KnotIs
  <2>2. p * n - n < c /\ c \in Nat
    <3>. HIDE DEF p
    <3>. QED
      BY <2>0, KnotIs
  <2>3. p * n - n = m * n /\ m * n \in Nat
    BY <2>0
  <2>4. Inner(n, m, s) = <<a, b, c>>
    BY Zenon DEF Inner
  <2>. HIDE DEF a, b, c, p
  <2>5. Holder(n, a, b) = Inner(n, m, s)
    BY <2>1, SMT DEF Holder
  <2>6. e[1] = b /\ e[2] = a
    BY DEF a, b
  <2>7. /\ Held(n, t)
        /\ \E x, y, z : t = <<x, y, z>> /\ z \in 0..(m * n)
    <3>1. t \in Bowl(m, n).triangles
      OBVIOUS
    <3>2. Held(n, t) /\ HasCorners(t, 0..(m * n))
        BY <3>1, BowlHolds
      <3>. QED
        BY <3>2, Zenon DEF HasCorners
  <2>8. t = Inner(n, m, s)
    <3>1. <<a, b>> \in Edges(t)
      BY <1>2, <2>6
    <3>2. Holder(n, a, b) = t
      BY <2>7, <3>1 DEF Held
    <3>. QED
      BY <2>5, <3>2
  <2>9. PICK x, y, z : t = <<x, y, z>> /\ z \in 0..(m * n)
    BY <2>7
  <2>10. z = c
    BY <2>4, <2>8, <2>9
  <2>11. c > m * n
    BY <2>0, <2>2, <2>3
  <2>. DEFINE top == m * n
  <2>. QED
    BY <2>2, <2>3, <2>9, <2>10, <2>11
<1>. QED
  BY <1>1, <1>2, Zenon DEF Twinned

\* createCraterBowlGeometry
LEMMA BowlIsSheet ==
  ASSUME NEW m, m \in Nat \ {0}, NEW n, n \in Nat, n > 2
  PROVE  Sheet(Bowl(m, n))
<1>. DEFINE f == Bowl(m, n) B == Border(m, n)
<1>1. f.vertices = 0..(m * n) /\ f.rim = {Knot(n, m, s) : s \in Places(n)}
  BY BowlHas
<1>2. \A t \in f.triangles : HasCorners(t, f.vertices) /\ Held(n, t)
  <2>1. ASSUME NEW t, t \in f.triangles PROVE HasCorners(t, 0..(m * n)) /\ Held(n, t)
    BY <2>1, BowlHolds
  <2>. HIDE DEF f
  <2>. QED
    BY <1>1, <2>1
<1>3. \A v \in f.vertices : Begins(f.triangles, v)
  BY <1>1, BowlReaches, Zenon
<1>4. \A s, t \in f.triangles : \A e : e \in Edges(s) /\ e \in Edges(t) => s = t
  <2>1. \A t \in f.triangles : \A e \in Edges(t) : Holder(n, e[1], e[2]) = t
    BY <1>2, Zenon DEF Held
  <2>. QED
    BY <2>1, Zenon
<1>5. \A t \in f.triangles : \A e \in Edges(t) : Twinned(e, f.triangles) \/ e \in B
  BY BowlIsClosed, Zenon
<1>6. ASSUME NEW e \in B
      PROVE  /\ HasEdge(f.triangles, e)
             /\ ~Twinned(e, f.triangles)
             /\ e[1] \in f.rim /\ e[2] \in f.rim
  <2>1. PICK s \in Places(n) : e = <<Knot(n, m, After(n, s)), Knot(n, m, s)>>
    BY DEF Border
  <2>2. After(n, s) \in Places(n)
    BY AfterIs
  <2>3. e[1] \in f.rim /\ e[2] \in f.rim
    BY <1>1, <2>1, <2>2
  <2>. HIDE DEF f
  <2>4. HasEdge(f.triangles, e) /\ ~Twinned(e, f.triangles)
    BY <2>1, BorderIs, Zenon DEF f
  <2>. QED
    BY <2>3, <2>4
<1>7. ASSUME NEW v \in f.rim PROVE \E e \in B : e[1] = v
  <2>1. PICK u \in Places(n) : v = Knot(n, m, u)
    BY <1>1
  <2>2. Ahead(n, u) \in Places(n) /\ After(n, Ahead(n, u)) = u
    BY AfterIs
  <2>3. <<Knot(n, m, u), Knot(n, m, Ahead(n, u))>> \in B
    BY <2>2 DEF Border
  <2>. QED
    BY <2>1, <2>3
<1>8. ASSUME NEW d \in B, NEW e \in B, d[1] = e[1] PROVE d = e
  <2>1. PICK s \in Places(n) : d = <<Knot(n, m, After(n, s)), Knot(n, m, s)>>
    BY DEF Border
  <2>2. PICK u \in Places(n) : e = <<Knot(n, m, After(n, u)), Knot(n, m, u)>>
    BY DEF Border
  <2>3. Knot(n, m, After(n, s)) = Knot(n, m, After(n, u))
    BY <1>8, <2>1, <2>2
  <2>4. /\ After(n, s) \in Places(n) /\ After(n, u) \in Places(n)
        /\ Ahead(n, After(n, s)) = s /\ Ahead(n, After(n, u)) = u
    BY AfterIs
  <2>5. After(n, s) = After(n, u)
    <3>1. PlaceOf(n, Knot(n, m, After(n, s))) = After(n, s) /\ PlaceOf(n, Knot(n, m, After(n, u))) = After(n, u)
      BY <2>4, KnotIs
    <3>. QED
      BY <2>3, <3>1, Zenon
  <2>. QED
    BY <2>1, <2>2, <2>4, <2>5, Zenon
<1>. HIDE DEF f, B
<1>9. Sewn(f, B)
  BY <1>2, <1>3, <1>4, <1>5, <1>6, <1>7, <1>8, Zenon DEF Sewn
<1>. QED
  BY <1>9, SheetIs, Zenon DEF f

------------------------------------------------------------------------------
(* Ridges.                                                                  *)

\* The vertices of a ridge in rows of w, and its triangles, two to a cell.
Peak(w, z, x) == z * w + x
Rank(w, v) == v \div w
File(w, v) == v % w
Lower(w, z, x) == <<Peak(w, z, x), Peak(w, z + 1, x), Peak(w, z, x + 1)>>
Upper(w, z, x) == <<Peak(w, z, x + 1), Peak(w, z + 1, x), Peak(w, z + 1, x + 1)>>

IsCell(m, n, t) == \E z \in Places(n), x \in Places(m) : t = Lower(m + 1, z, x) \/ t = Upper(m + 1, z, x)

\* The triangle that has the edge from a to b.
Keeper(w, a, b) ==
    IF Rank(w, a) = Rank(w, b)
    THEN IF File(w, b) = File(w, a) + 1 THEN Upper(w, Rank(w, a) - 1, File(w, a))
         ELSE Lower(w, Rank(w, a), File(w, b))
    ELSE IF File(w, a) = File(w, b)
    THEN IF Rank(w, a) < Rank(w, b) THEN Lower(w, Rank(w, a), File(w, a))
         ELSE Upper(w, Rank(w, b), File(w, a) - 1)
    ELSE IF Rank(w, a) < Rank(w, b) THEN Upper(w, Rank(w, a), File(w, b))
         ELSE Lower(w, Rank(w, b), File(w, a))
Kept(w, t) == \A e \in Edges(t) : Keeper(w, e[1], e[2]) = t

\* Row and column of a vertex are the ones it was made of.
LEMMA PeakIs ==
  ASSUME NEW w, w \in Nat \ {0}, NEW z, z \in Nat, NEW x, x \in Places(w)
  PROVE  Rank(w, Peak(w, z, x)) = z /\ File(w, Peak(w, z, x)) = x /\ Peak(w, z, x) \in Nat
<1>1. x \in 0..(w - 1) /\ z \in Int
  BY DEF Places
<1>2. (z * w + x) \div w = z /\ (z * w + x) % w = x
  BY <1>1, PlaceIs
<1>3. z * w \in Nat
  OBVIOUS
<1>4. z * w + x \in Nat
  BY <1>1, <1>3
<1>. QED
  BY <1>2, <1>4, Zenon DEF Rank, File, Peak

\* The corners of a cell.
CornersOf(m, w, z, x, q, r) ==
    /\ w \in Nat \ {0} /\ x \in Nat /\ r \in Nat \ {0} /\ x < m /\ r <= m
    /\ x \in Places(w) /\ r \in Places(w) /\ q \in Nat \ {0}
    /\ Rank(w, Peak(w, z, x)) = z /\ File(w, Peak(w, z, x)) = x
    /\ Rank(w, Peak(w, z, r)) = z /\ File(w, Peak(w, z, r)) = r
    /\ Rank(w, Peak(w, q, x)) = q /\ File(w, Peak(w, q, x)) = x
    /\ Rank(w, Peak(w, q, r)) = q /\ File(w, Peak(w, q, r)) = r

LEMMA CellIs ==
  ASSUME NEW m, m \in Nat \ {0}, NEW x, x \in Places(m), NEW w, w = m + 1, NEW z, z \in Nat,
         NEW r, r = x + 1, NEW q, q = z + 1
  PROVE  CornersOf(m, w, z, x, q, r)
<1>1. w \in Nat \ {0} /\ x \in Nat /\ r \in Nat \ {0} /\ x < m /\ r <= m
      /\ x \in Places(w) /\ r \in Places(w) /\ q \in Nat \ {0}
  BY DEF Places
<1>2. /\ Rank(w, Peak(w, z, x)) = z /\ File(w, Peak(w, z, x)) = x
      /\ Rank(w, Peak(w, z, r)) = z /\ File(w, Peak(w, z, r)) = r
      /\ Rank(w, Peak(w, q, x)) = q /\ File(w, Peak(w, q, x)) = x
      /\ Rank(w, Peak(w, q, r)) = q /\ File(w, Peak(w, q, r)) = r
  BY <1>1, PeakIs
<1>. QED
  BY <1>1, <1>2 DEF CornersOf

LEMMA EdgeOf ==
  ASSUME NEW a, NEW b, NEW c, NEW e
  PROVE  e \in Edges(<<a, b, c>>) <=> e = <<a, b>> \/ e = <<b, c>> \/ e = <<c, a>>
<1>1. Edges(<<a, b, c>>) = {<<a, b>>, <<b, c>>, <<c, a>>}
  BY EdgesAre
<1>. QED
  BY <1>1, Zenon

LEMMA CellEdges ==
  ASSUME NEW w, NEW z, NEW x, NEW r, r = x + 1, NEW q, q = z + 1
  PROVE  /\ \A e : e \in Edges(Lower(w, z, x)) <=>
                \/ e = <<Peak(w, z, x), Peak(w, q, x)>>
                \/ e = <<Peak(w, q, x), Peak(w, z, r)>>
                \/ e = <<Peak(w, z, r), Peak(w, z, x)>>
         /\ \A e : e \in Edges(Upper(w, z, x)) <=>
                \/ e = <<Peak(w, z, r), Peak(w, q, x)>>
                \/ e = <<Peak(w, q, x), Peak(w, q, r)>>
                \/ e = <<Peak(w, q, r), Peak(w, z, r)>>
<1>1. Lower(w, z, x) = <<Peak(w, z, x), Peak(w, q, x), Peak(w, z, r)>>
  BY Zenon DEF Lower
<1>2. Upper(w, z, x) = <<Peak(w, z, r), Peak(w, q, x), Peak(w, q, r)>>
  BY Zenon DEF Upper
<1>. QED
  BY <1>1, <1>2, EdgeOf

LEMMA CellsAreKept ==
  ASSUME NEW m, m \in Nat \ {0}, NEW x, x \in Places(m), NEW w, w = m + 1, NEW z, z \in Nat,
         NEW r, r = x + 1, NEW q, q = z + 1
  PROVE  Kept(w, Lower(w, z, x)) /\ Kept(w, Upper(w, z, x))
<1>. DEFINE a == Peak(w, z, x) b == Peak(w, q, x) c == Peak(w, z, r) d == Peak(w, q, r)
<1>1. /\ x \in Nat /\ z \in Nat
      /\ Rank(w, a) = z /\ File(w, a) = x /\ Rank(w, b) = q /\ File(w, b) = x
      /\ Rank(w, c) = z /\ File(w, c) = r /\ Rank(w, d) = q /\ File(w, d) = r
  <2>1. CornersOf(m, w, z, x, q, r)
    BY CellIs
  <2>. QED
    BY <2>1 DEF CornersOf
<1>2. q # z /\ z < q /\ ~(q < z) /\ r # x /\ x # r + 1 /\ r - 1 = x /\ q - 1 = z /\ r = x + 1
  BY <1>1
<1>3. /\ \A e : e \in Edges(Lower(w, z, x)) <=> e = <<a, b>> \/ e = <<b, c>> \/ e = <<c, a>>
      /\ \A e : e \in Edges(Upper(w, z, x)) <=> e = <<c, b>> \/ e = <<b, d>> \/ e = <<d, c>>
  BY CellEdges
<1>. HIDE DEF a, b, c, d
<1>4. Keeper(w, a, b) = Lower(w, z, x) /\ Keeper(w, b, c) = Lower(w, z, x) /\ Keeper(w, c, a) = Lower(w, z, x)
  <2>1. Keeper(w, a, b) = Lower(w, z, x)
    BY <1>1, <1>2, SMT DEF Keeper
  <2>2. Keeper(w, b, c) = Lower(w, z, x)
    BY <1>1, <1>2, SMT DEF Keeper
  <2>3. Keeper(w, c, a) = Lower(w, z, x)
    BY <1>1, <1>2, SMT DEF Keeper
  <2>. QED
    BY <2>1, <2>2, <2>3
<1>5. Keeper(w, c, b) = Upper(w, z, x) /\ Keeper(w, b, d) = Upper(w, z, x) /\ Keeper(w, d, c) = Upper(w, z, x)
  <2>1. Keeper(w, c, b) = Upper(w, z, x)
    BY <1>1, <1>2, SMT DEF Keeper
  <2>2. Keeper(w, b, d) = Upper(w, z, x)
    BY <1>1, <1>2, SMT DEF Keeper
  <2>3. Keeper(w, d, c) = Upper(w, z, x)
    BY <1>1, <1>2, SMT DEF Keeper
  <2>. QED
    BY <2>1, <2>2, <2>3
<1>. QED
  BY <1>3, <1>4, <1>5 DEF Kept

OnRim(m, n, w, v) ==
    \/ \E x \in {0, m}, z \in 0..n : v = Peak(w, z, x)
    \/ \E x \in 0..m, z \in {0, n} : v = Peak(w, z, x)
AtPeak(m, n, w, v) == \E z \in 0..n, x \in 0..m : v = Peak(w, z, x)

\* The ridge in these words.
LEMMA RidgeHas ==
  ASSUME NEW m, m \in Nat \ {0}, NEW n, n \in Nat \ {0}, NEW w, w = m + 1
  PROVE  /\ \A z \in Places(n), x \in Places(m) :
              Lower(w, z, x) \in Ridge(m, n).triangles /\ Upper(w, z, x) \in Ridge(m, n).triangles
         /\ \A t \in Ridge(m, n).triangles : IsCell(m, n, t)
         /\ Ridge(m, n).vertices = 0..(w * (n + 1) - 1)
         /\ \A v : v \in Ridge(m, n).rim <=> OnRim(m, n, w, v)
<1>. DEFINE cell(z, x) == {<<z * w + x, (z * w + x) + w, (z * w + x) + 1>>,
                           <<(z * w + x) + 1, (z * w + x) + w, (z * w + x) + w + 1>>}
            tri == UNION {cell(z, x) : x \in 0..(m - 1), z \in 0..(n - 1)}
            rim == {z * w + x : x \in {0, m}, z \in 0..n} \cup {z * w + x : x \in 0..m, z \in {0, n}}
            pair(z, x) == {Lower(w, z, x), Upper(w, z, x)}
            pairs == {pair(z, x) : x \in Places(m), z \in Places(n)}
<1>1. Ridge(m, n) = [triangles |-> tri, vertices |-> 0..(w * (n + 1) - 1), rim |-> rim]
  BY DEF Ridge
<1>2. ASSUME NEW z \in Places(n), NEW x \in Places(m) PROVE cell(z, x) = pair(z, x)
  <2>1. z \in Int /\ x \in Int /\ w \in Int
    BY DEF Places
  <2>. DEFINE a == z * w
  <2>2. a \in Int /\ (z + 1) * w = a + w
    BY <2>1
  <2>. HIDE DEF a
  <2>3. /\ Peak(w, z, x) = a + x /\ Peak(w, z, x + 1) = (a + x) + 1
        /\ Peak(w, z + 1, x) = (a + x) + w /\ Peak(w, z + 1, x + 1) = (a + x) + w + 1
    BY <2>1, <2>2 DEF Peak, a
  <2>4. cell(z, x) = {<<a + x, (a + x) + w, (a + x) + 1>>, <<(a + x) + 1, (a + x) + w, (a + x) + w + 1>>}
    BY Zenon DEF a
  <2>. QED
    BY <2>3, <2>4, Zenon DEF Lower, Upper
<1>3. tri = UNION pairs
  <2>. DEFINE cells == {cell(z, x) : x \in 0..(m - 1), z \in 0..(n - 1)}
  <2>1. tri = UNION cells
    OBVIOUS
  <2>. HIDE DEF cell, pair, tri
  <2>2. \A y : y \in cells <=> \E z \in Places(n), x \in Places(m) : y = cell(z, x)
    BY DEF Places
  <2>3. \A y : y \in pairs <=> \E z \in Places(n), x \in Places(m) : y = pair(z, x)
    OBVIOUS
  <2>. HIDE DEF cells, pairs
  <2>4. ASSUME NEW y, y \in cells PROVE y \in pairs
    <3>1. PICK z \in Places(n), x \in Places(m) : y = cell(z, x)
      BY <2>2, <2>4
    <3>2. y = pair(z, x)
      BY <1>2, <3>1
    <3>. QED
      BY <2>3, <3>2
  <2>5. ASSUME NEW y, y \in pairs PROVE y \in cells
    <3>1. PICK z \in Places(n), x \in Places(m) : y = pair(z, x)
      BY <2>3, <2>5
    <3>2. y = cell(z, x)
      BY <1>2, <3>1
    <3>. QED
      BY <2>2, <3>2
  <2>6. cells = pairs
    BY <2>4, <2>5
  <2>. QED
    BY <2>1, <2>6
<1>4. \A y : y \in pairs <=> \E z \in Places(n), x \in Places(m) : y = pair(z, x)
  OBVIOUS
<1>5. \A t : t \in tri <=> \E y \in pairs : t \in y
  <2>. HIDE DEF pairs, tri
  <2>. QED
    BY <1>3
<1>. HIDE DEF tri, pairs
<1>6. ASSUME NEW z \in Places(n), NEW x \in Places(m) PROVE Lower(w, z, x) \in tri /\ Upper(w, z, x) \in tri
  <2>1. pair(z, x) \in pairs
    BY <1>4
  <2>. QED
    BY <1>5, <2>1
<1>7. ASSUME NEW t \in tri PROVE IsCell(m, n, t)
  <2>1. PICK y \in pairs : t \in y
    BY <1>5
  <2>2. PICK z \in Places(n), x \in Places(m) : y = pair(z, x)
    BY <1>4, <2>1
  <2>3. t = Lower(w, z, x) \/ t = Upper(w, z, x)
    BY <2>1, <2>2
  <2>. QED
    BY <2>3 DEF IsCell
<1>8. \A v : v \in rim <=> OnRim(m, n, w, v)
  BY DEF Peak, OnRim
<1>. HIDE DEF rim
<1>9. /\ Ridge(m, n).triangles = tri /\ Ridge(m, n).vertices = 0..(w * (n + 1) - 1)
      /\ Ridge(m, n).rim = rim
  BY <1>1
<1>. QED
  BY <1>6, <1>7, <1>8, <1>9

\* The vertices of a ridge of m by n cells.
LEMMA PeaksAre ==
  ASSUME NEW m, m \in Nat \ {0}, NEW n, n \in Nat \ {0}, NEW w, w = m + 1,
         NEW V, V = 0..(w * (n + 1) - 1)
  PROVE  /\ \A z \in 0..n, x \in 0..m : Peak(w, z, x) \in V
         /\ \A v \in V : AtPeak(m, n, w, v)
<1>1. w \in Nat \ {0} /\ w * (n + 1) = n * w + w /\ n * w \in Nat
  <2>1. w \in Nat \ {0} /\ n * w \in Nat
    OBVIOUS
  <2>2. w * (n + 1) = n * w + w
    BY <2>1
  <2>. QED
    BY <2>1, <2>2
<1>2. ASSUME NEW z \in 0..n, NEW x \in 0..m PROVE Peak(w, z, x) \in 0..(w * (n + 1) - 1)
  <2>1. z * w <= n * w /\ z * w \in Nat
    <3>1. z \in Int /\ n \in Int /\ w \in Nat /\ z <= n
      BY <1>1
    <3>2. z * w <= n * w
      BY <3>1, ProductGrows
    <3>3. z * w \in Nat
      BY <1>1
    <3>. QED
      BY <3>2, <3>3
  <2>. DEFINE a == z * w b == n * w
  <2>2. a \in Nat /\ b \in Nat /\ a <= b /\ w * (n + 1) = b + w /\ Peak(w, z, x) = a + x
    BY <1>1, <2>1 DEF Peak
  <2>. HIDE DEF a, b
  <2>. QED
    BY <2>2
<1>3. ASSUME NEW v \in 0..(w * (n + 1) - 1) PROVE \E z \in 0..n, x \in 0..m : v = Peak(w, z, x)
  <2>. DEFINE z == v \div w x == v % w b == n * w
  <2>1. v \in Int /\ 0 <= v /\ v < b + w /\ b \in Nat
    BY <1>1
  <2>2. v = z * w + x /\ z \in Int /\ x \in 0..(w - 1)
    BY <1>1, <2>1, PlacesAre
  <2>. HIDE DEF z, x
  <2>3. z >= 0
    <3>. SUFFICES ASSUME z + 1 <= 0 PROVE FALSE
      BY <2>2
    <3>. DEFINE g == z + 1 zero == 0
    <3>1. g \in Int /\ zero \in Int /\ g <= zero /\ w \in Nat /\ g * w = z * w + w /\ zero * w = 0
      BY <1>1, <2>2
    <3>. HIDE DEF g, zero
    <3>2. g * w <= zero * w
      BY <3>1, ProductGrows
    <3>. QED
      BY <1>1, <2>1, <2>2, <3>1, <3>2
  <2>4. z <= n
    <3>. SUFFICES ASSUME n + 1 <= z PROVE FALSE
      BY <2>2
    <3>. DEFINE g == n + 1
    <3>1. g \in Int /\ g <= z /\ w \in Nat /\ g * w = b + w
      BY <1>1, <2>2
    <3>. HIDE DEF g, b
    <3>2. g * w <= z * w
      BY <2>2, <3>1, ProductGrows
    <3>. QED
      BY <1>1, <2>1, <2>2, <3>1, <3>2
  <2>5. z \in 0..n /\ x \in 0..m
    BY <2>2, <2>3, <2>4
  <2>6. v = Peak(w, z, x)
    BY <2>2 DEF Peak
  <2>. QED
    BY <2>5, <2>6
<1>. QED
  BY <1>2, <1>3 DEF AtPeak

\* The border of a ridge: down its first column, back along its first row, on along
\* its last row, up its last column.
Foot(m, n) ==
    LET w == m + 1 IN
    {<<Peak(w, z, 0), Peak(w, z + 1, 0)>> : z \in Places(n)}
    \cup {<<Peak(w, 0, x + 1), Peak(w, 0, x)>> : x \in Places(m)}
    \cup {<<Peak(w, n, x), Peak(w, n, x + 1)>> : x \in Places(m)}
    \cup {<<Peak(w, z + 1, m), Peak(w, z, m)>> : z \in Places(n)}

LEMMA FootIs ==
  ASSUME NEW m, NEW n, NEW w, w = m + 1, NEW e
  PROVE  e \in Foot(m, n) <=>
            \/ \E z \in Places(n) : e = <<Peak(w, z, 0), Peak(w, z + 1, 0)>>
            \/ \E x \in Places(m) : e = <<Peak(w, 0, x + 1), Peak(w, 0, x)>>
            \/ \E x \in Places(m) : e = <<Peak(w, n, x), Peak(w, n, x + 1)>>
            \/ \E z \in Places(n) : e = <<Peak(w, z + 1, m), Peak(w, z, m)>>
BY DEF Foot

\* Where an edge of a ridge has its triangle.
Stays(m, n, w, e) ==
    LET a == e[1] b == e[2] IN
    /\ File(w, a) = File(w, b) /\ Rank(w, b) < Rank(w, a) => File(w, a) > 0
    /\ File(w, a) = File(w, b) /\ Rank(w, a) < Rank(w, b) => File(w, a) < m
    /\ Rank(w, a) = Rank(w, b) /\ File(w, a) < File(w, b) => Rank(w, a) > 0
    /\ Rank(w, a) = Rank(w, b) /\ File(w, b) < File(w, a) => Rank(w, a) < n

LEMMA EdgesStay ==
  ASSUME NEW m, m \in Nat \ {0}, NEW n, n \in Nat \ {0}, NEW w, w = m + 1,
         NEW t, IsCell(m, n, t), NEW e, e \in Edges(t)
  PROVE  Stays(m, n, w, e)
<1>1. PICK z \in Places(n), x \in Places(m) : t = Lower(w, z, x) \/ t = Upper(w, z, x)
  BY DEF IsCell
<1>. DEFINE r == x + 1 q == z + 1 a == Peak(w, z, x) b == Peak(w, q, x) c == Peak(w, z, r) d == Peak(w, q, r)
<1>2. z \in Nat /\ z < n /\ r = x + 1 /\ q = z + 1 /\ x \in Nat
  BY DEF Places
<1>. HIDE DEF r, q
<1>3. CornersOf(m, w, z, x, q, r)
  BY <1>2, CellIs
<1>4. \/ e = <<a, b>> \/ e = <<b, c>> \/ e = <<c, a>>
      \/ e = <<c, b>> \/ e = <<b, d>> \/ e = <<d, c>>
  BY <1>1, <1>2, CellEdges
<1>5. /\ Rank(w, a) = z /\ File(w, a) = x /\ Rank(w, b) = q /\ File(w, b) = x
      /\ Rank(w, c) = z /\ File(w, c) = r /\ Rank(w, d) = q /\ File(w, d) = r
      /\ x < m /\ r <= m
  BY <1>3 DEF CornersOf
<1>. HIDE DEF a, b, c, d
<1>6. CASE e = <<a, b>>
  BY <1>2, <1>5, <1>6 DEF Stays
<1>7. CASE e = <<b, c>> \/ e = <<c, b>>
  BY <1>2, <1>5, <1>7 DEF Stays
<1>8. CASE e = <<c, a>>
  BY <1>2, <1>5, <1>8 DEF Stays
<1>9. CASE e = <<b, d>>
  BY <1>2, <1>5, <1>9 DEF Stays
<1>10. CASE e = <<d, c>>
  BY <1>2, <1>5, <1>10 DEF Stays
<1>. QED
  BY <1>4, <1>6, <1>7, <1>8, <1>9, <1>10

\* Each edge has its twin or is of the border.
LEMMA RidgeIsClosed ==
  ASSUME NEW m, m \in Nat \ {0}, NEW n, n \in Nat \ {0}, NEW w, w = m + 1, NEW T,
         \A z \in Places(n), x \in Places(m) : Lower(w, z, x) \in T /\ Upper(w, z, x) \in T,
         NEW t, IsCell(m, n, t), NEW e, e \in Edges(t)
  PROVE  Twinned(e, T) \/ e \in Foot(m, n)
<1>1. PICK z \in Places(n), x \in Places(m) : t = Lower(w, z, x) \/ t = Upper(w, z, x)
  BY DEF IsCell
<1>. DEFINE r == x + 1 q == z + 1 a == Peak(w, z, x) b == Peak(w, q, x) c == Peak(w, z, r) d == Peak(w, q, r)
<1>2. r = x + 1 /\ q = z + 1 /\ z \in Nat /\ x \in Nat /\ z < n /\ x < m
  BY DEF Places
<1>. HIDE DEF r, q
<1>3. \/ e = <<a, b>> \/ e = <<b, c>> \/ e = <<c, a>>
      \/ e = <<c, b>> \/ e = <<b, d>> \/ e = <<d, c>>
  BY <1>1, <1>2, CellEdges
<1>4. /\ <<b, c>> \in Edges(Lower(w, z, x)) /\ <<c, b>> \in Edges(Upper(w, z, x))
  BY <1>2, CellEdges
<1>5. CASE e = <<b, c>> \/ e = <<c, b>>
  BY <1>4, <1>5 DEF Twinned
<1>6. CASE e = <<a, b>>
  <2>1. CASE x = 0
    BY <1>2, <1>6, <2>1, FootIs
  <2>2. CASE x # 0
    <3>. DEFINE y == x - 1
    <3>1. y \in Places(m) /\ x = y + 1
      BY <1>2, <2>2 DEF Places
    <3>. HIDE DEF y
    <3>2. <<b, a>> \in Edges(Upper(w, z, y))
      BY <1>2, <3>1, CellEdges
    <3>. QED
      BY <1>6, <3>1, <3>2 DEF Twinned
  <2>. QED
    BY <2>1, <2>2
<1>7. CASE e = <<c, a>>
  <2>1. CASE z = 0
    BY <1>2, <1>7, <2>1, FootIs
  <2>2. CASE z # 0
    <3>. DEFINE y == z - 1
    <3>1. y \in Places(n) /\ z = y + 1
      BY <1>2, <2>2 DEF Places
    <3>. HIDE DEF y
    <3>2. <<a, c>> \in Edges(Upper(w, y, x))
      BY <1>2, <3>1, CellEdges
    <3>. QED
      BY <1>7, <3>1, <3>2 DEF Twinned
  <2>. QED
    BY <2>1, <2>2
<1>8. CASE e = <<b, d>>
  <2>1. CASE q = n
    BY <1>2, <1>8, <2>1, FootIs
  <2>2. CASE q # n
    <3>1. q \in Places(n)
      BY <1>2, <2>2 DEF Places
    <3>2. <<d, b>> \in Edges(Lower(w, q, x))
      <4>. DEFINE k == q + 1
      <4>1. k = q + 1
        OBVIOUS
      <4>. HIDE DEF k
      <4>. QED
        BY <1>2, <4>1, CellEdges
    <3>. QED
      BY <1>8, <3>1, <3>2 DEF Twinned
  <2>. QED
    BY <2>1, <2>2
<1>9. CASE e = <<d, c>>
  <2>1. CASE r = m
    BY <1>2, <1>9, <2>1, FootIs
  <2>2. CASE r # m
    <3>1. r \in Places(m)
      BY <1>2, <2>2 DEF Places
    <3>2. <<c, d>> \in Edges(Lower(w, z, r))
      <4>. DEFINE k == r + 1
      <4>1. k = r + 1
        OBVIOUS
      <4>. HIDE DEF k
      <4>. QED
        BY <1>2, <4>1, CellEdges
    <3>. QED
      BY <1>9, <3>1, <3>2 DEF Twinned
  <2>. QED
    BY <2>1, <2>2
<1>. QED
  BY <1>3, <1>5, <1>6, <1>7, <1>8, <1>9

\* A cell's triangles lie between vertices of the ridge and hold their edges.
LEMMA RidgeHolds ==
  ASSUME NEW m, m \in Nat \ {0}, NEW n, n \in Nat \ {0}, NEW w, w = m + 1, NEW V, NEW t, IsCell(m, n, t),
         \A z \in 0..n, x \in 0..m : Peak(w, z, x) \in V
  PROVE  HasCorners(t, V) /\ Kept(w, t)
<1>1. PICK z \in Places(n), x \in Places(m) : t = Lower(w, z, x) \/ t = Upper(w, z, x)
  BY DEF IsCell
<1>. DEFINE r == x + 1 q == z + 1 a == Peak(w, z, x) b == Peak(w, q, x) c == Peak(w, z, r) d == Peak(w, q, r)
<1>2. r = x + 1 /\ q = z + 1 /\ z \in Nat /\ x \in Nat /\ z \in 0..n /\ q \in 0..n /\ x \in 0..m /\ r \in 0..m
  BY DEF Places
<1>3. Lower(w, z, x) = <<a, b, c>> /\ Upper(w, z, x) = <<c, b, d>>
  BY Zenon DEF Lower, Upper
<1>. HIDE DEF r, q
<1>4. CornersOf(m, w, z, x, q, r)
  BY <1>2, CellIs
<1>5. /\ Rank(w, a) = z /\ File(w, a) = x /\ Rank(w, b) = q /\ File(w, b) = x
      /\ Rank(w, c) = z /\ File(w, c) = r /\ Rank(w, d) = q /\ File(w, d) = r
  BY <1>4 DEF CornersOf
<1>6. a # b /\ b # c /\ c # a /\ b # d /\ d # c
  BY <1>2, <1>5
<1>7. a \in V /\ b \in V /\ c \in V /\ d \in V
  BY <1>2
<1>. HIDE DEF a, b, c, d
<1>8. HasCorners(t, V)
  <2>1. t = <<a, b, c>> \/ t = <<c, b, d>>
    BY <1>1, <1>3
  <2>. QED
    BY <1>6, <1>7, <2>1, Zenon DEF HasCorners
<1>9. Kept(w, t)
  BY <1>1, <1>2, CellsAreKept
<1>. QED
  BY <1>8, <1>9

\* Each vertex of a ridge begins an edge.
LEMMA RidgeReaches ==
  ASSUME NEW m, m \in Nat \ {0}, NEW n, n \in Nat \ {0}, NEW w, w = m + 1, NEW T,
         \A z \in Places(n), x \in Places(m) : Lower(w, z, x) \in T /\ Upper(w, z, x) \in T,
         NEW z, NEW x, z \in 0..n, x \in 0..m
  PROVE  Begins(T, Peak(w, z, x))
<1>1. CASE z # n /\ x # m
  <2>1. z \in Places(n) /\ x \in Places(m)
    BY <1>1 DEF Places
  <2>2. <<Peak(w, z, x), Peak(w, z + 1, x)>> \in Edges(Lower(w, z, x))
    BY CellEdges
  <2>. QED
    BY <2>1, <2>2 DEF Begins
<1>2. CASE z = n /\ x # m
  <2>. DEFINE y == z - 1
  <2>1. y \in Places(n) /\ x \in Places(m) /\ z = y + 1
    BY <1>2 DEF Places
  <2>. HIDE DEF y
  <2>2. <<Peak(w, z, x), Peak(w, y, x + 1)>> \in Edges(Lower(w, y, x))
    BY <2>1, CellEdges
  <2>. QED
    BY <2>1, <2>2 DEF Begins
<1>3. CASE z # n /\ x = m
  <2>. DEFINE y == x - 1
  <2>1. z \in Places(n) /\ y \in Places(m) /\ x = y + 1
    BY <1>3 DEF Places
  <2>. HIDE DEF y
  <2>2. <<Peak(w, z, x), Peak(w, z, y)>> \in Edges(Lower(w, z, y))
    BY <2>1, CellEdges
  <2>. QED
    BY <2>1, <2>2 DEF Begins
<1>4. CASE z = n /\ x = m
  <2>. DEFINE y == x - 1 u == z - 1
  <2>1. u \in Places(n) /\ y \in Places(m) /\ x = y + 1 /\ z = u + 1
    BY <1>4 DEF Places
  <2>. HIDE DEF y, u
  <2>2. <<Peak(w, z, x), Peak(w, u, x)>> \in Edges(Upper(w, u, y))
    BY <2>1, CellEdges
  <2>. QED
    BY <2>1, <2>2 DEF Begins
<1>. QED
  BY <1>1, <1>2, <1>3, <1>4

\* The edges of the border are edges, and go one way.
LEMMA FootStands ==
  ASSUME NEW m, m \in Nat \ {0}, NEW n, n \in Nat \ {0}, NEW w, w = m + 1, NEW T,
         \A z \in Places(n), x \in Places(m) : Lower(w, z, x) \in T /\ Upper(w, z, x) \in T,
         \A t \in T : IsCell(m, n, t), NEW e, e \in Foot(m, n)
  PROVE  HasEdge(T, e) /\ ~Twinned(e, T)
<1>0. ASSUME ~Stays(m, n, w, <<e[2], e[1]>>) PROVE ~Twinned(e, T)
  BY <1>0, EdgesStay, Zenon DEF Twinned
<1>1. 0 \in Places(m) /\ 0 \in Places(n) /\ w \in Nat \ {0} /\ 0 \in Places(w) /\ m \in Places(w) /\ 0 \in Nat
      /\ 0 # m /\ 0 # n
  BY DEF Places
<1>2. CASE \E z \in Places(n) : e = <<Peak(w, z, 0), Peak(w, z + 1, 0)>>
  <2>1. PICK z \in Places(n) : e = <<Peak(w, z, 0), Peak(w, z + 1, 0)>>
    BY <1>2
  <2>. DEFINE q == z + 1 zero == 0
  <2>2. q = z + 1 /\ z \in Nat /\ q \in Nat /\ zero \in Places(w) /\ zero = 0
    BY <1>1 DEF Places
  <2>. HIDE DEF q, zero
  <2>3. e = <<Peak(w, z, zero), Peak(w, q, zero)>>
    BY <2>1, <2>2
  <2>4. e \in Edges(Lower(w, z, 0))
    BY <2>1, CellEdges
  <2>5. /\ Rank(w, Peak(w, z, zero)) = z /\ File(w, Peak(w, z, zero)) = zero
        /\ Rank(w, Peak(w, q, zero)) = q /\ File(w, Peak(w, q, zero)) = zero
    BY <1>1, <2>2, PeakIs
  <2>6. ~Stays(m, n, w, <<e[2], e[1]>>)
    BY <2>2, <2>3, <2>5 DEF Stays
  <2>. QED
    BY <1>0, <1>1, <2>4, <2>6 DEF HasEdge
<1>3. CASE \E x \in Places(m) : e = <<Peak(w, 0, x + 1), Peak(w, 0, x)>>
  <2>1. PICK x \in Places(m) : e = <<Peak(w, 0, x + 1), Peak(w, 0, x)>>
    BY <1>3
  <2>. DEFINE r == x + 1 zero == 0
  <2>2. r = x + 1 /\ x \in Nat /\ r \in Nat /\ x \in Places(w) /\ r \in Places(w) /\ zero = 0 /\ zero \in Nat
    BY DEF Places
  <2>. HIDE DEF r, zero
  <2>3. e = <<Peak(w, zero, r), Peak(w, zero, x)>>
    BY <2>1, <2>2
  <2>4. e \in Edges(Lower(w, 0, x))
    BY <2>1, CellEdges
  <2>5. /\ Rank(w, Peak(w, zero, r)) = zero /\ File(w, Peak(w, zero, r)) = r
        /\ Rank(w, Peak(w, zero, x)) = zero /\ File(w, Peak(w, zero, x)) = x
    BY <1>1, <2>2, PeakIs
  <2>6. ~Stays(m, n, w, <<e[2], e[1]>>)
    BY <2>2, <2>3, <2>5 DEF Stays
  <2>. QED
    BY <1>0, <1>1, <2>4, <2>6 DEF HasEdge
<1>4. CASE \E x \in Places(m) : e = <<Peak(w, n, x), Peak(w, n, x + 1)>>
  <2>1. PICK x \in Places(m) : e = <<Peak(w, n, x), Peak(w, n, x + 1)>>
    BY <1>4
  <2>. DEFINE r == x + 1 y == n - 1
  <2>2. r = x + 1 /\ x \in Nat /\ r \in Nat /\ x \in Places(w) /\ r \in Places(w) /\ n = y + 1 /\ y \in Places(n)
    BY DEF Places
  <2>. HIDE DEF r, y
  <2>3. e = <<Peak(w, n, x), Peak(w, n, r)>>
    BY <2>1, <2>2
  <2>4. e \in Edges(Upper(w, y, x))
    BY <2>2, <2>3, CellEdges
  <2>5. /\ Rank(w, Peak(w, n, r)) = n /\ File(w, Peak(w, n, r)) = r
        /\ Rank(w, Peak(w, n, x)) = n /\ File(w, Peak(w, n, x)) = x
    BY <1>1, <2>2, PeakIs
  <2>6. ~Stays(m, n, w, <<e[2], e[1]>>)
    BY <2>2, <2>3, <2>5 DEF Stays
  <2>. QED
    BY <1>0, <1>1, <2>2, <2>4, <2>6 DEF HasEdge
<1>5. CASE \E z \in Places(n) : e = <<Peak(w, z + 1, m), Peak(w, z, m)>>
  <2>1. PICK z \in Places(n) : e = <<Peak(w, z + 1, m), Peak(w, z, m)>>
    BY <1>5
  <2>. DEFINE q == z + 1 y == m - 1
  <2>2. q = z + 1 /\ z \in Nat /\ q \in Nat /\ m = y + 1 /\ y \in Places(m)
    BY DEF Places
  <2>. HIDE DEF q, y
  <2>3. e = <<Peak(w, q, m), Peak(w, z, m)>>
    BY <2>1, <2>2
  <2>4. e \in Edges(Upper(w, z, y))
    BY <2>2, <2>3, CellEdges
  <2>5. /\ Rank(w, Peak(w, z, m)) = z /\ File(w, Peak(w, z, m)) = m
        /\ Rank(w, Peak(w, q, m)) = q /\ File(w, Peak(w, q, m)) = m
    <3>1. w \in Nat \ {0} /\ m \in Places(w) /\ z \in Nat /\ q \in Nat
      BY <1>1, <2>2
    <3>. QED
      BY <3>1, PeakIs
  <2>6. ~Stays(m, n, w, <<e[2], e[1]>>)
    BY <2>2, <2>3, <2>5 DEF Stays
  <2>. QED
    BY <1>0, <1>1, <2>2, <2>4, <2>6 DEF HasEdge
<1>. QED
  BY <1>2, <1>3, <1>4, <1>5, FootIs

\* Where the border goes on from a vertex.
Onward(m, n, w, v) ==
    IF File(w, v) = 0 /\ Rank(w, v) < n THEN Peak(w, Rank(w, v) + 1, 0)
    ELSE IF Rank(w, v) = 0 THEN Peak(w, 0, File(w, v) - 1)
    ELSE IF File(w, v) = m THEN Peak(w, Rank(w, v) - 1, m)
    ELSE Peak(w, n, File(w, v) + 1)

LEMMA FootGoesOn ==
  ASSUME NEW m, m \in Nat \ {0}, NEW n, n \in Nat \ {0}, NEW w, w = m + 1, NEW e, e \in Foot(m, n)
  PROVE  e = <<e[1], Onward(m, n, w, e[1])>>
<1>. DEFINE zero == 0
<1>1. w \in Nat \ {0} /\ zero \in Places(w) /\ m \in Places(w) /\ zero \in Nat /\ zero = 0
  BY DEF Places
<1>. HIDE DEF zero
<1>2. CASE \E z \in Places(n) : e = <<Peak(w, z, 0), Peak(w, z + 1, 0)>>
  <2>1. PICK z \in Places(n) : e = <<Peak(w, z, 0), Peak(w, z + 1, 0)>>
    BY <1>2
  <2>2. z \in Nat /\ z < n
    BY DEF Places
  <2>3. Rank(w, Peak(w, z, zero)) = z /\ File(w, Peak(w, z, zero)) = zero
    <3>1. w \in Nat \ {0} /\ zero \in Places(w) /\ z \in Nat
      BY <1>1, <2>2
    <3>. QED
      BY <3>1, PeakIs
  <2>4. Rank(w, e[1]) = z /\ File(w, e[1]) = 0
    BY <1>1, <2>1, <2>3
  <2>5. Onward(m, n, w, e[1]) = Peak(w, z + 1, 0)
    BY <2>2, <2>4, SMT DEF Onward
  <2>. QED
    BY <2>1, <2>5
<1>3. CASE \E x \in Places(m) : e = <<Peak(w, 0, x + 1), Peak(w, 0, x)>>
  <2>1. PICK x \in Places(m) : e = <<Peak(w, 0, x + 1), Peak(w, 0, x)>>
    BY <1>3
  <2>. DEFINE r == x + 1
  <2>2. x \in Nat /\ r = x + 1 /\ r \in Places(w) /\ r - 1 = x /\ r # 0
    BY DEF Places
  <2>. HIDE DEF r
  <2>3. Rank(w, Peak(w, zero, r)) = zero /\ File(w, Peak(w, zero, r)) = r
    <3>1. w \in Nat \ {0} /\ r \in Places(w) /\ zero \in Nat
      BY <1>1, <2>2
    <3>. QED
      BY <3>1, PeakIs
  <2>4. Rank(w, e[1]) = 0 /\ File(w, e[1]) = r
    BY <1>1, <2>1, <2>2, <2>3
  <2>5. Onward(m, n, w, e[1]) = Peak(w, 0, x)
    BY <2>2, <2>4, SMT DEF Onward
  <2>. QED
    BY <2>1, <2>5
<1>4. CASE \E x \in Places(m) : e = <<Peak(w, n, x), Peak(w, n, x + 1)>>
  <2>1. PICK x \in Places(m) : e = <<Peak(w, n, x), Peak(w, n, x + 1)>>
    BY <1>4
  <2>2. x \in Nat /\ x # m /\ x \in Places(w) /\ n \in Nat /\ n # 0
    BY DEF Places
  <2>3. Rank(w, Peak(w, n, x)) = n /\ File(w, Peak(w, n, x)) = x
    BY <1>1, <2>2, PeakIs
  <2>4. Rank(w, e[1]) = n /\ File(w, e[1]) = x
    BY <2>1, <2>3
  <2>5. Onward(m, n, w, e[1]) = Peak(w, n, x + 1)
    BY <2>2, <2>4, SMT DEF Onward
  <2>. QED
    BY <2>1, <2>5
<1>5. CASE \E z \in Places(n) : e = <<Peak(w, z + 1, m), Peak(w, z, m)>>
  <2>1. PICK z \in Places(n) : e = <<Peak(w, z + 1, m), Peak(w, z, m)>>
    BY <1>5
  <2>. DEFINE q == z + 1
  <2>2. z \in Nat /\ q = z + 1 /\ q \in Nat /\ q - 1 = z /\ q # 0 /\ m # 0
    BY DEF Places
  <2>. HIDE DEF q
  <2>3. Rank(w, Peak(w, q, m)) = q /\ File(w, Peak(w, q, m)) = m
    <3>1. w \in Nat \ {0} /\ m \in Places(w) /\ q \in Nat
      BY <1>1, <2>2
    <3>. QED
      BY <3>1, PeakIs
  <2>4. Rank(w, e[1]) = q /\ File(w, e[1]) = m
    BY <2>1, <2>2, <2>3
  <2>5. Onward(m, n, w, e[1]) = Peak(w, z, m)
    BY <2>2, <2>4, SMT DEF Onward
  <2>. QED
    BY <2>1, <2>5
<1>. QED
  BY <1>2, <1>3, <1>4, <1>5, FootIs

\* The border sets out from a vertex.
Passed(m, n, v) == \E e \in Foot(m, n) : e[1] = v

\* The border begins and ends at the rim, and passes every vertex of it.
LEMMA FootIsRim ==
  ASSUME NEW m, m \in Nat \ {0}, NEW n, n \in Nat \ {0}, NEW w, w = m + 1
  PROVE  /\ \A e \in Foot(m, n) : OnRim(m, n, w, e[1]) /\ OnRim(m, n, w, e[2])
         /\ \A v : OnRim(m, n, w, v) => Passed(m, n, v)
<1>1. \A z \in Places(n) : z \in 0..n /\ z + 1 \in 0..n
  BY DEF Places
<1>2. \A x \in Places(m) : x \in 0..m /\ x + 1 \in 0..m
  BY DEF Places
<1>3. ASSUME NEW e \in Foot(m, n) PROVE OnRim(m, n, w, e[1]) /\ OnRim(m, n, w, e[2])
  <2>1. CASE \E z \in Places(n) : e = <<Peak(w, z, 0), Peak(w, z + 1, 0)>>
    BY <1>1, <2>1 DEF OnRim
  <2>2. CASE \E x \in Places(m) : e = <<Peak(w, 0, x + 1), Peak(w, 0, x)>>
    BY <1>2, <2>2 DEF OnRim
  <2>3. CASE \E x \in Places(m) : e = <<Peak(w, n, x), Peak(w, n, x + 1)>>
    BY <1>2, <2>3 DEF OnRim
  <2>4. CASE \E z \in Places(n) : e = <<Peak(w, z + 1, m), Peak(w, z, m)>>
    BY <1>1, <2>4 DEF OnRim
  <2>. QED
    BY <2>1, <2>2, <2>3, <2>4, FootIs
<1>4. ASSUME NEW v, OnRim(m, n, w, v) PROVE \E e \in Foot(m, n) : e[1] = v
  <2>1. ASSUME NEW z \in Places(n), v = Peak(w, z, 0) PROVE \E e \in Foot(m, n) : e[1] = v
    <3>1. <<Peak(w, z, 0), Peak(w, z + 1, 0)>> \in Foot(m, n)
      BY FootIs
    <3>. QED
      BY <2>1, <3>1
  <2>2. ASSUME NEW x \in 0..m, x # 0, v = Peak(w, 0, x) PROVE \E e \in Foot(m, n) : e[1] = v
    <3>. DEFINE y == x - 1
    <3>1. y \in Places(m) /\ x = y + 1
      BY <2>2 DEF Places
    <3>. HIDE DEF y
    <3>2. <<Peak(w, 0, x), Peak(w, 0, y)>> \in Foot(m, n)
      BY <3>1, FootIs
    <3>. QED
      BY <2>2, <3>2
  <2>3. ASSUME NEW x \in Places(m), v = Peak(w, n, x) PROVE \E e \in Foot(m, n) : e[1] = v
    <3>1. <<Peak(w, n, x), Peak(w, n, x + 1)>> \in Foot(m, n)
      BY FootIs
    <3>. QED
      BY <2>3, <3>1
  <2>4. ASSUME NEW z \in 0..n, z # 0, v = Peak(w, z, m) PROVE \E e \in Foot(m, n) : e[1] = v
    <3>. DEFINE y == z - 1
    <3>1. y \in Places(n) /\ z = y + 1
      BY <2>4 DEF Places
    <3>. HIDE DEF y
    <3>2. <<Peak(w, z, m), Peak(w, y, m)>> \in Foot(m, n)
      BY <3>1, FootIs
    <3>. QED
      BY <2>4, <3>2
  <2>5. (\A z \in 0..n : z = n \/ z \in Places(n)) /\ (\A x \in 0..m : x = m \/ x \in Places(m))
        /\ 0 \in Places(n) /\ 0 \in Places(m) /\ m \in 0..m /\ n \in 0..n /\ m # 0 /\ n # 0
    BY DEF Places
  <2>6. ASSUME NEW z \in 0..n, v = Peak(w, z, 0) PROVE \E e \in Foot(m, n) : e[1] = v
    BY <2>1, <2>3, <2>5, <2>6
  <2>7. ASSUME NEW z \in 0..n, v = Peak(w, z, m) PROVE \E e \in Foot(m, n) : e[1] = v
    BY <2>2, <2>4, <2>5, <2>7
  <2>8. ASSUME NEW x \in 0..m, v = Peak(w, 0, x) PROVE \E e \in Foot(m, n) : e[1] = v
    BY <2>1, <2>2, <2>5, <2>8
  <2>9. ASSUME NEW x \in 0..m, v = Peak(w, n, x) PROVE \E e \in Foot(m, n) : e[1] = v
    BY <2>3, <2>4, <2>5, <2>9
  <2>. QED
    BY <1>4, <2>6, <2>7, <2>8, <2>9 DEF OnRim
<1>. QED
  BY <1>3, <1>4 DEF Passed

\* createMountainRangeGeometry
LEMMA RidgeIsSheet ==
  ASSUME NEW m, m \in Nat \ {0}, NEW n, n \in Nat \ {0}
  PROVE  Sheet(Ridge(m, n))
<1>. DEFINE f == Ridge(m, n) B == Foot(m, n) w == m + 1 V == f.vertices T == f.triangles
<1>0. w = m + 1
  OBVIOUS
<1>. HIDE DEF w
<1>1. /\ \A z \in Places(n), x \in Places(m) : Lower(w, z, x) \in T /\ Upper(w, z, x) \in T
      /\ \A t \in T : IsCell(m, n, t)
      /\ V = 0..(w * (n + 1) - 1)
  BY <1>0, RidgeHas
<1>2. \A v : v \in f.rim <=> OnRim(m, n, w, v)
  BY <1>0, RidgeHas
<1>. HIDE DEF V
<1>3. (\A z \in 0..n, x \in 0..m : Peak(w, z, x) \in V) /\ (\A v \in V : AtPeak(m, n, w, v))
  BY <1>0, <1>1, PeaksAre
<1>. HIDE DEF T, B
<1>4. ASSUME NEW t, t \in T PROVE HasCorners(t, V) /\ Kept(w, t)
  <2>1. IsCell(m, n, t)
    BY <1>1, <1>4
  <2>. QED
    BY <1>0, <1>3, <2>1, RidgeHolds
<1>5. ASSUME NEW v, v \in V PROVE Begins(T, v)
  <2>1. PICK z \in 0..n, x \in 0..m : v = Peak(w, z, x)
    BY <1>3, <1>5 DEF AtPeak
  <2>2. Begins(T, Peak(w, z, x))
    BY <1>0, <1>1, RidgeReaches
  <2>. QED
    BY <2>1, <2>2, Zenon
<1>6. \A s, t \in T : \A e : e \in Edges(s) /\ e \in Edges(t) => s = t
  BY <1>4, Zenon DEF Kept
<1>7. ASSUME NEW t, t \in T, NEW e, e \in Edges(t) PROVE Twinned(e, T) \/ e \in B
  <2>1. IsCell(m, n, t)
    BY <1>1, <1>7
  <2>. QED
    BY <1>0, <1>1, <1>7, <2>1, RidgeIsClosed DEF B
<1>8. ASSUME NEW e, e \in B PROVE HasEdge(T, e) /\ ~Twinned(e, T) /\ e[1] \in f.rim /\ e[2] \in f.rim
  <2>1. e \in Foot(m, n)
    BY <1>8 DEF B
  <2>2. HasEdge(T, e) /\ ~Twinned(e, T)
    BY <1>0, <1>1, <2>1, FootStands
  <2>3. OnRim(m, n, w, e[1]) /\ OnRim(m, n, w, e[2])
    BY <1>0, <2>1, FootIsRim
  <2>. HIDE DEF f
  <2>. QED
    BY <1>2, <2>2, <2>3
<1>9. ASSUME NEW v, v \in f.rim PROVE \E e \in B : e[1] = v
  <2>. HIDE DEF f
  <2>1. OnRim(m, n, w, v)
    BY <1>2, <1>9
  <2>2. Passed(m, n, v)
    BY <1>0, <2>1, FootIsRim
  <2>. QED
    BY <2>2, Zenon DEF B, Passed
<1>10. ASSUME NEW d, NEW e, d \in B, e \in B, d[1] = e[1] PROVE d = e
  <2>1. d = <<d[1], Onward(m, n, w, d[1])>> /\ e = <<e[1], Onward(m, n, w, e[1])>>
    BY <1>0, <1>10, FootGoesOn DEF B
  <2>. QED
    BY <1>10, <2>1, Zenon
<1>. HIDE DEF f
<1>11. Sewn(f, B)
  BY <1>4, <1>5, <1>6, <1>7, <1>8, <1>9, <1>10, Zenon DEF Sewn, V, T
<1>. QED
  BY <1>11, SheetIs, Zenon DEF f

------------------------------------------------------------------------------
(* The geometry.                                                            *)

\* What the geometry needs to be inductive: the paint in step, the depths of a
\* finished relief bounded, and the last feature a sheet of numbered vertices.
BodyInv ==
    /\ MapsInv
    /\ stage = "raised" => distance \in Depths
    /\ MeshTypeOK /\ SeamIsSmooth
    /\ Sheet(feature)

LEMMA SheetOfFeature == FeatureIsSheet <=> Sheet(feature)
BY Zenon DEF FeatureIsSheet, Sheet

LEMMA BlankIsSheet == Sheet(NoFeature) /\ \A t \in NoFeature.triangles : Range(t) \subseteq Nat
<1>1. NoFeature.triangles = {} /\ NoFeature.vertices = {} /\ NoFeature.rim = {}
  BY DEF NoFeature
<1>. QED
  BY <1>1, Zenon DEF Sheet

\* The corners of a sheet are its vertices.
LEMMA CornersAreNumbers ==
  ASSUME NEW f, Sheet(f), f.vertices \subseteq Nat
  PROVE  \A t \in f.triangles : Range(t) \subseteq Nat
BY Zenon DEF Sheet

\* What the geometry is when it is bare of features: of the sphere alone.
SphereIs(b, h, n) ==
    /\ b \in {"plain", "built", "twisted"}
    /\ b # "plain" =>
          /\ DOMAIN h = Vertex /\ DOMAIN n = Vertex
          /\ \A v \in Vertex : h[v] \in Share /\ n[v] \subseteq SphereFaces
          /\ \A a, c \in Vertex : Coincide(a, c) =>
                /\ n[a] = n[c]
                /\ a[1] \notin {0, SegmentsH} => h[a] = h[c]

LEMMA SphereOfBody ==
  MeshTypeOK /\ SeamIsSmooth <=>
    SphereIs(body, height, normal) /\ \A t \in feature.triangles : Range(t) \subseteq Nat
BY Zenon DEF MeshTypeOK, SeamIsSmooth, SphereIs, Share

\* The stages a finished relief comes from.
LEMMA DepthsStay ==
  ASSUME MapsInv, stage = "raised" => distance \in Depths, [MapsStep]_mapVars
  PROVE  stage' = "raised" => distance' \in Depths
<1>. SUFFICES ASSUME stage' = "raised" PROVE distance' \in Depths
  OBVIOUS
<1>1. CASE PaintStroke
  BY <1>1 DEF PaintStroke
<1>2. CASE FillInternalBandGaps
  BY <1>2 DEF FillInternalBandGaps
<1>3. CASE SampleDiscOntoSphere
  BY <1>3 DEF SampleDiscOntoSphere
<1>4. CASE FinishManifestMaps
  BY <1>4, FinishKeeps
<1>5. CASE UNCHANGED mapVars
  <2>1. stage' = stage /\ distance' = distance
    BY <1>5 DEF mapVars
  <2>. QED
    BY <2>1, Zenon
<1>. QED
  BY <1>1, <1>2, <1>3, <1>4, <1>5 DEF MapsStep

\* buildBeveledReliefGeometry
LEMMA BuildIsSmooth ==
  ASSUME BodyInv, BuildRelief
  PROVE  SphereIs(body', height', normal')
<1>1. MapsInv /\ stage = "raised" /\ distance \in Depths /\ painted \in Nat
  BY DEF BodyInv, BuildRelief, MapsInv
<1>2. body' = "built"
      /\ normal' = WeldSeamAndPoleNormals(VertexNormals)
  BY DEF BuildRelief
<1>. DEFINE field == Relief n == WeldSeamAndPoleNormals(VertexNormals)
<1>3. height' = [v \in Vertex |-> SampleRelief(field, v)]
  BY Zenon DEF BuildRelief
<1>4. \A t \in Texel : field[t] \in Share
  <2>1. Drawn
    BY <1>1, DrawingIs
  <2>2. InStep(owner, tint, coverage, Texel, painted, Projected)
    BY <1>1 DEF MapsInv, Raster
  <2>. QED
    BY <1>1, <2>1, <2>2, HeightsAre
<1>. HIDE DEF field
<1>5. \A v \in Vertex : height'[v] \in Share
  BY <1>3, <1>4, SampleIs
<1>6. \A a, c \in Vertex : Coincide(a, c) /\ a[1] \notin {0, SegmentsH} => height'[a] = height'[c]
  BY <1>3, HeightsMeet
<1>7. /\ DOMAIN n = Vertex
      /\ \A v \in Vertex : n[v] \subseteq SphereFaces
      /\ \A a, c \in Vertex : Coincide(a, c) => n[a] = n[c]
  BY VertexNormalsAre, WeldIs
<1>8. normal' = n
  BY <1>2
<1>9. DOMAIN height' = Vertex
  BY <1>3
<1>. HIDE DEF n
<1>. QED
  BY <1>2, <1>5, <1>6, <1>7, <1>8, <1>9, ZenonT(60) DEF SphereIs

\* twistGeometryAroundPolarAxis
LEMMA TwistIsSmooth ==
  ASSUME BodyInv, Twist
  PROVE  SphereIs(body', height', normal')
<1>1. body # "plain" /\ body' = "twisted" /\ height' = height
      /\ normal' = WeldSeamAndPoleNormals(VertexNormals)
  BY DEF Twist
<1>. DEFINE n == WeldSeamAndPoleNormals(VertexNormals)
<1>2. SphereIs(body, height, normal)
  BY SphereOfBody DEF BodyInv
<1>3. /\ DOMAIN n = Vertex
      /\ \A v \in Vertex : n[v] \subseteq SphereFaces
      /\ \A a, c \in Vertex : Coincide(a, c) => n[a] = n[c]
  BY VertexNormalsAre, WeldIs
<1>4. normal' = n
  BY <1>1
<1>5. body' = "twisted" /\ body' # "plain" /\ height' = height
  BY <1>1
<1>6. /\ DOMAIN height = Vertex
      /\ \A v \in Vertex : height[v] \in Share
      /\ \A a, c \in Vertex : Coincide(a, c) /\ a[1] \notin {0, SegmentsH} => height[a] = height[c]
  BY <1>1, <1>2, Zenon DEF SphereIs
<1>. HIDE DEF n
<1>. QED
  BY <1>3, <1>4, <1>5, <1>6, Zenon DEF SphereIs

\* createCraterBowlGeometry, createMountainRangeGeometry: of any size.
LEMMA FeatureIsSewn ==
  ASSUME AddBowl \/ AddRidge
  PROVE  Sheet(feature') /\ \A t \in feature'.triangles : Range(t) \subseteq Nat
<1>1. CASE AddBowl
  <2>1. PICK b \in Bowls : feature' = Bowl(b[1], b[2])
    BY <1>1 DEF AddBowl
  <2>. DEFINE m == b[1] n == b[2]
  <2>2. m \in Nat \ {0} /\ n \in Nat /\ n > 2
    BY MeshAssumption
  <2>3. feature' = Bowl(m, n)
    BY <2>1
  <2>. HIDE DEF m, n
  <2>4. Sheet(Bowl(m, n))
    BY <2>2, BowlIsSheet
  <2>5. Bowl(m, n).vertices \subseteq Nat
    BY <2>2 DEF Bowl
  <2>. QED
    BY <2>3, <2>4, <2>5, CornersAreNumbers
<1>2. CASE AddRidge
  <2>1. PICK r \in Ridges : feature' = Ridge(r[1], r[2])
    BY <1>2 DEF AddRidge
  <2>. DEFINE m == r[1] n == r[2]
  <2>2. m \in Nat \ {0} /\ n \in Nat \ {0}
    BY MeshAssumption
  <2>3. feature' = Ridge(m, n)
    BY <2>1
  <2>. HIDE DEF m, n
  <2>4. Sheet(Ridge(m, n))
    BY <2>2, RidgeIsSheet
  <2>5. Ridge(m, n).vertices \subseteq Nat
    BY <2>2 DEF Ridge
  <2>. QED
    BY <2>3, <2>4, <2>5, CornersAreNumbers
<1>. QED
  BY <1>1, <1>2

LEMMA BodyBegins == (MapsInit \/ NoMaps) /\ MeshInit => BodyInv
<1>. SUFFICES ASSUME MapsInit \/ NoMaps, MeshInit PROVE BodyInv
  OBVIOUS
<1>1. MapsInv
  BY MapsBegin
<1>2. stage # "raised"
  BY DEF MapsInit, NoMaps
<1>3. body = "plain" /\ feature = NoFeature
  BY DEF MeshInit
<1>4. SphereIs(body, height, normal)
  BY <1>3 DEF SphereIs
<1>. QED
  BY <1>1, <1>2, <1>3, <1>4, SphereOfBody, BlankIsSheet DEF BodyInv

LEMMA BodyGoesOn ==
  ASSUME BodyInv,
         [(MapsStep /\ UNCHANGED meshVars) \/ MeshStep]_<<mapVars, meshVars>>
  PROVE  BodyInv'
<1>. DEFINE Cornered(f) == \A t \in f.triangles : Range(t) \subseteq Nat
<1>0. /\ MapsInv /\ (stage = "raised" => distance \in Depths) /\ Sheet(feature)
      /\ SphereIs(body, height, normal) /\ Cornered(feature)
  BY SphereOfBody DEF BodyInv
<1>1. \/ [MapsStep]_mapVars /\ UNCHANGED meshVars
      \/ BuildRelief \/ Twist \/ AddBowl \/ AddRidge
  BY DEF MeshStep
<1>2. [MapsStep]_mapVars
  <2>1. CASE UNCHANGED mapVars
    BY <2>1
  <2>2. BuildRelief \/ Twist \/ AddBowl \/ AddRidge => UNCHANGED mapVars
    BY Zenon DEF BuildRelief, Twist, AddBowl, AddRidge
  <2>. QED
    BY <1>1, <2>1, <2>2
<1>3. MapsInv' /\ (stage' = "raised" => distance' \in Depths)
  BY <1>0, <1>2, MapsGoOn, DepthsStay
<1>4. SphereIs(body', height', normal') /\ Sheet(feature') /\ Cornered(feature')
  <2>1. CASE UNCHANGED meshVars
    <3>1. body' = body /\ height' = height /\ normal' = normal /\ feature' = feature
      BY <2>1 DEF meshVars
    <3>. QED
      BY <1>0, <3>1
  <2>2. CASE BuildRelief
    <3>1. feature' = feature
      BY <2>2, Zenon DEF BuildRelief
    <3>. QED
      BY <1>0, <2>2, <3>1, BuildIsSmooth
  <2>3. CASE Twist
    <3>1. feature' = feature
      BY <2>3, Zenon DEF Twist
    <3>. QED
      BY <1>0, <2>3, <3>1, TwistIsSmooth
  <2>4. CASE AddBowl \/ AddRidge
    <3>1. body' = body /\ height' = height /\ normal' = normal
      BY <2>4, Zenon DEF AddBowl, AddRidge
    <3>. QED
      BY <1>0, <2>4, <3>1, FeatureIsSewn
  <2>. QED
    BY <1>1, <2>1, <2>2, <2>3, <2>4
<1>5. MeshTypeOK' /\ SeamIsSmooth'
  BY <1>4, Zenon DEF MeshTypeOK, SeamIsSmooth, SphereIs, Share
<1>6. Depths' = Depths
  OBVIOUS
<1>. QED
  BY <1>3, <1>4, <1>5, <1>6 DEF BodyInv

\* buildBeveledReliefGeometry, weldSeamAndPoleNormals, twistGeometryAroundPolarAxis,
\* createCraterBowlGeometry, createMountainRangeGeometry: whatever the drawing, the
\* rasters and the segments, vertices that meet in space have one normal, twisted or
\* not, and at the seam one height; and a bowl or a ridge of any size is one sheet.
THEOREM MeshIsAlwaysSmooth == BodySpec => []MeshIsSmooth
<1>1. (MapsInit \/ NoMaps) /\ MeshInit => BodyInv
  BY BodyBegins
<1>2. BodyInv /\ [(MapsStep /\ UNCHANGED meshVars) \/ MeshStep]_<<mapVars, meshVars>> => BodyInv'
  BY BodyGoesOn
<1>3. BodyInv => MeshIsSmooth
  BY SheetOfFeature DEF BodyInv, MeshIsSmooth
<1>. QED
  BY <1>1, <1>2, <1>3, PTL DEF BodySpec
==============================================================================
