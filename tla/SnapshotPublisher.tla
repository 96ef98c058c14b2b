-------------------------- MODULE SnapshotPublisher --------------------------
(***************************************************************************)
(* The hero frame of every planet: scheduled once the planet is finished,  *)
(* captured with the live renderer, encoded and uploaded, one planet at a  *)
(* time (ProjectorSnapshotPublisher), and whenIdle, which tells outsiders  *)
(* that everything they know of has been published.                        *)
(***************************************************************************)
EXTENDS WallEntities

CONSTANTS
    Radius(_),          \* how far its vertices reach, in tenths of a unit, and
    Reach(_)            \* how far its pixels do

ASSUME FramingAssumption == \A e \in Entity : Radius(e) \in Nat /\ Reach(e) \in Nat

VARIABLES
    disposed,       \* the entities that left the wall
    deferred,       \* entity -> animation frames until its timer is armed
    timers,         \* entities whose 60 ms timer runs
    pending,        \* the map "pending": planet -> the entity whose timer it is
    captureQueue,   \* entities whose capture was enqueued, the first under way
    step,           \* of the first: "queued", "encoding", "uploading", "backoff"
    attempt,        \* of its uploads
    borrowed,       \* is the live renderer bound to an off-screen target?
    exports,        \* what export scenes hold on the GPU
    framed,         \* entity -> its frame attempts, and does it touch the margin?
    settled,        \* entities whose hero frame is stored, refused or given up
    idle            \* one call of whenIdle: where it is, and for whom it waits

snapVars == <<disposed, deferred, timers, pending, captureQueue, step, attempt,
              borrowed, exports, framed, settled, idle>>

MAX_UPLOAD_ATTEMPTS == 3
MAX_FRAME_ATTEMPTS  == 3

SnapshotTypeOK ==
    /\ disposed \subseteq Entity /\ timers \subseteq Entity /\ settled \subseteq Entity
    /\ \A e \in DOMAIN deferred : e \in Entity /\ deferred[e] \in 1..2
    /\ \A p \in DOMAIN pending : pending[p] \in Entity /\ Id(pending[p]) = p
    /\ captureQueue \in Seq(Entity) /\ IsInjective(captureQueue)
    /\ step \in {"queued", "encoding", "uploading", "backoff"}
    /\ attempt \in 0..MAX_UPLOAD_ATTEMPTS
    /\ borrowed \in BOOLEAN /\ exports \subseteq {"target", "sun's shadow map"}
    /\ \A e \in DOMAIN framed :
          /\ e \in Entity
          /\ framed[e] \in [attempts : 1..MAX_FRAME_ATTEMPTS, touches : BOOLEAN]
    /\ idle \in [at : {"unasked", "two frames", "one frame", "settling", "polling",
                      "draining", "yes", "no"},
                known : SUBSET Entity, drain : SUBSET Entity]

SnapshotInit ==
    /\ disposed = {} /\ deferred = << >> /\ timers = {} /\ pending = << >>
    /\ captureQueue = << >> /\ step = "queued" /\ attempt = 0
    /\ borrowed = FALSE /\ exports = {} /\ framed = << >> /\ settled = {}
    /\ idle = [at |-> "unasked", known |-> {}, drain |-> {}]

Scheduled == DOMAIN deferred \cup timers \cup ToSet(captureQueue)
------------------------------------------------------------------------------
\* schedule: the timer of the entity that showed this planet before is cleared,
\* its entry stays until it is overwritten.
Schedule(e) ==
    /\ timers' = timers \ IF Id(e) \in DOMAIN pending THEN {pending[Id(e)]} ELSE {}
    /\ deferred' = Put(deferred, e, 2)
    /\ UNCHANGED <<disposed, pending, captureQueue, step, attempt, borrowed, exports,
                   framed, settled, idle>>

\* An animation frame runs the callbacks registered before it.
Frame ==
    /\ deferred # << >> \/ idle.at \in {"two frames", "one frame"}
    /\ LET armed == {e \in DOMAIN deferred : deferred[e] = 1} \ disposed
       IN  /\ timers' = timers \cup armed
           /\ pending' = [p \in DOMAIN pending \cup {Id(e) : e \in armed} |->
                            IF \E e \in armed : Id(e) = p
                            THEN CHOOSE e \in armed : Id(e) = p ELSE pending[p]]
    /\ deferred' = [e \in {e \in DOMAIN deferred : deferred[e] = 2} |-> 1]
    /\ idle' = [idle EXCEPT !.at = CASE @ = "two frames" -> "one frame"
                                     [] @ = "one frame"  -> "settling"
                                     [] OTHER            -> @]
    /\ UNCHANGED <<disposed, captureQueue, step, attempt, borrowed, exports, framed, settled>>

TimerFires(e) ==
    /\ e \in timers
    /\ timers' = timers \ {e}
    /\ pending' = Without(pending, Id(e))
    /\ captureQueue' = Append(captureQueue, e)
    /\ UNCHANGED <<disposed, deferred, step, attempt, borrowed, exports, framed, settled, idle>>
------------------------------------------------------------------------------
\* createExportCamera: the first fit keeps the hero scale, each retry is farther
\* away.  In tenths; 35 / 10 stands for the padding over the sine of half the
\* field of view.
FrameScale == <<100, 122, 149>>

Distance(e, n) == (Max({74, (35 * Radius(e)) \div 10}) * FrameScale[n]) \div 100

\* pixelsTouchSafeMargin: pixels this far out land within 32 of the edge.
TouchesMargin(e, n) == 3 * Reach(e) > Distance(e, n)

\* The frames capture renders: the first that is clear of the margin, or three.
Framing(e) ==
    LET n == CHOOSE n \in 1..MAX_FRAME_ATTEMPTS :
                /\ n = MAX_FRAME_ATTEMPTS \/ ~TouchesMargin(e, n)
                /\ \A m \in 1..(n - 1) : TouchesMargin(e, m)
    IN  [attempts |-> n, touches |-> TouchesMargin(e, n)]

\* createExportScene shares geometry and materials with the planet; it holds the
\* target, and a light's shadow map if that light casts: the sun's clone does not.
ExportScene == {"target"}

\* The queue goes on with the next planet, whatever became of this one.
Leave ==
    /\ captureQueue' = Tail(captureQueue)
    /\ settled' = settled \cup {Head(captureQueue)}
    /\ step' = "queued" /\ attempt' = 0

\* Mutant of Fail: a failure is passed on to all who wait behind it.
FailPoisons ==
    /\ captureQueue' = << >>
    /\ settled' = settled \cup {Head(captureQueue)}
    /\ step' = "queued" /\ attempt' = 0

\* captureQueue = run.catch(...)
Fail == Leave

GoesOn(s, a) == step' = s /\ attempt' = a /\ UNCHANGED <<captureQueue, settled>>

\* Mutant of GiveBack: the renderer is given back when the PNG is encoded.
GiveBackEncoded ==
    borrowed' = (step' = "encoding") /\ exports' = IF step' = "encoding" THEN ExportScene ELSE {}

\* The finally of capture, before any asynchronous encoding.
GiveBack == borrowed' = FALSE /\ exports' = exports \ ExportScene

\* The first in the queue is captured, all frames in one go; rendering, reading
\* the pixels or creating the canvas may throw.
Capture ==
    /\ captureQueue # << >> /\ step = "queued"
    /\ IF Head(captureQueue) \in disposed
       THEN Leave /\ UNCHANGED <<borrowed, exports, framed>>
       ELSE LET e == Head(captureQueue) IN
            /\ \/ GoesOn("encoding", 0) /\ framed' = Put(framed, e, Framing(e))
               \/ Fail /\ UNCHANGED framed
            /\ GiveBack
    /\ UNCHANGED <<disposed, deferred, timers, pending, idle>>

\* toBlob calls back, with or without a PNG.
Encoded ==
    /\ step = "encoding"
    /\ \/ Head(captureQueue) \in disposed /\ Leave
       \/ Head(captureQueue) \notin disposed /\ GoesOn("uploading", 1)
       \/ Fail
    /\ GiveBack
    /\ UNCHANGED <<disposed, deferred, timers, pending, framed, idle>>

\* The PUT is answered: stored, unknown planet, or an error (its answer lost, too).
Uploaded ==
    /\ step = "uploading"
    /\ Leave \/ GoesOn("backoff", attempt)
    /\ UNCHANGED <<disposed, deferred, timers, pending, borrowed, exports, framed, idle>>

\* Mutant of Retry: whether the planet is still there is asked only once.
RetryBlindly == IF attempt = MAX_UPLOAD_ATTEMPTS THEN Fail ELSE GoesOn("uploading", attempt + 1)

Retry ==
    CASE attempt = MAX_UPLOAD_ATTEMPTS     -> Fail
      [] attempt < MAX_UPLOAD_ATTEMPTS
           /\ Head(captureQueue) \in disposed    -> Leave
      [] attempt < MAX_UPLOAD_ATTEMPTS
           /\ Head(captureQueue) \notin disposed -> GoesOn("uploading", attempt + 1)

BackoffOver ==
    /\ step = "backoff"
    /\ Retry
    /\ UNCHANGED <<disposed, deferred, timers, pending, borrowed, exports, framed, idle>>
------------------------------------------------------------------------------
IdleGoes(at) == idle' = [idle EXCEPT !.at = at]

\* whenIdle is called: two frames and 100 ms of its own, to let the deferrals of
\* schedule pass, then the timers, then the captures enqueued by then.
WhenIdle ==
    /\ idle.at = "unasked"
    /\ idle' = [at |-> "two frames", known |-> Scheduled, drain |-> {}]
    /\ UNCHANGED <<disposed, deferred, timers, pending, captureQueue, step, attempt,
                   borrowed, exports, framed, settled>>

\* Mutant of IdlePolls: only the queue is looked at.
IdlePollsQueue ==
    /\ idle.at = "polling"
    /\ idle' = [idle EXCEPT !.at = "draining", !.drain = ToSet(captureQueue)]

IdlePolls ==
    /\ idle.at = "polling" /\ pending = << >>
    /\ idle' = [idle EXCEPT !.at = "draining", !.drain = ToSet(captureQueue)]

WhenIdleStep ==
    /\ \/ idle.at = "settling" /\ IdleGoes("polling")
       \/ IdlePolls
       \/ idle.at = "draining" /\ idle.drain \cap ToSet(captureQueue) = {} /\ IdleGoes("yes")
       \/ idle.at \in {"polling", "draining"} /\ IdleGoes("no")      \* the deadline
    /\ UNCHANGED <<disposed, deferred, timers, pending, captureQueue, step, attempt,
                   borrowed, exports, framed, settled>>

Dispose(E) ==
    /\ disposed' = disposed \cup E
    /\ UNCHANGED <<deferred, timers, pending, captureQueue, step, attempt, borrowed,
                   exports, framed, settled, idle>>

SnapshotStep ==
    \/ Frame \/ \E e \in Entity : TimerFires(e)
    \/ Capture \/ Encoded \/ Uploaded \/ BackoffOver
    \/ WhenIdle \/ WhenIdleStep

\* Frames, timers, the queue and the network go on.
SnapshotFairness ==
    /\ WF_snapVars(Frame) /\ \A e \in Entity : WF_snapVars(TimerFires(e))
    /\ WF_snapVars(Capture \/ Encoded \/ Uploaded \/ BackoffOver)
------------------------------------------------------------------------------
\* Every capture borrows the renderer the wall is drawn with.  Between any two
\* steps of the page, and so in every frame, the renderer draws to the screen and
\* nothing of an export is left on the GPU, however slow the encoding is and
\* whichever step of the capture threw.
RendererIsLive == ~borrowed /\ exports = {}

\* "Ordinary and ringed planets stay large while spiky or unexpectedly deformed
\* planets cannot be clipped silently": who stays within the bounds of its vertices
\* is shot at the first fit; who is clipped was tried three times and is marked.
HeroIsWhole ==
    \A e \in DOMAIN framed :
        /\ Reach(e) <= Radius(e) => framed[e] = [attempts |-> 1, touches |-> FALSE]
        /\ framed[e].touches => framed[e].attempts = MAX_FRAME_ATTEMPTS

\* whenIdle answers yes only when every planet that was scheduled when it was
\* called, in whichever of the two deferrals or in the queue, has been dealt with
\* or has left the wall.
IdleMeansDone ==
    idle.at = "yes" => idle.known \subseteq settled \cup disposed

\* No upload, first or repeated, is begun for a planet that has left the wall.
NoUploadForTheGone ==
    [][step' = "uploading" /\ <<step, attempt>>' # <<step, attempt>>
         => Head(captureQueue) \notin disposed]_snapVars

\* A capture leaves the wall as it was, and its frame is whole.
CaptureIsClean == SnapshotTypeOK /\ RendererIsLive /\ HeroIsWhole
==============================================================================
