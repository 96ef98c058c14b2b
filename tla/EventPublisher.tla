---------------------------- MODULE EventPublisher ----------------------------
(***************************************************************************)
(* The in-process publisher behind /api/events (InMemoryEventPublisher)    *)
(* and the generator that serves one stream from it (event_stream in       *)
(* sse.py).  Everything runs on one asyncio loop: an action is the code    *)
(* between two awaits.  An event is its number in publication order, so a  *)
(* queue shows at once what was lost, repeated or reordered.               *)
(***************************************************************************)
EXTENDS Integers, Sequences, SequencesExt

CONSTANTS
    Stream,         \* requests to /api/events; a stream that ended may be asked for again
    QueueSize,      \* the pending events kept per subscriber (8 in the code)
    MaxEvents       \* bound of the model: events published in a behaviour

ASSUME ConstantsAssumption ==
    /\ QueueSize \in Nat \ {0}
    /\ MaxEvents \in Nat

Stop  == 0                      \* the None that tells a stream to end
Event == 1..MaxEvents

VARIABLES
    published,      \* the number of events published so far
    closing,        \* _closing: request_disconnect was called
    subscribers,    \* _subscribers
    queue,          \* the asyncio.Queue of each subscriber
    stage,          \* where the stream's generator stands
    connected,      \* is the page still at the other end of the stream?
    joined,         \* history: events published before the stream subscribed
    sent,           \* history: the events framed and sent down the stream
    dropped         \* history: the events this stream will never see

vars == <<published, closing, subscribers, queue, stage, connected,
          joined, sent, dropped>>

Stage == {"closed", "subscribed", "streaming"}

TypeOK ==
    /\ published \in 0..MaxEvents
    /\ closing \in BOOLEAN
    /\ subscribers \subseteq Stream
    /\ queue \in [Stream -> Seq(Event \cup {Stop})]
    /\ stage \in [Stream -> Stage]
    /\ connected \in [Stream -> BOOLEAN]
    /\ joined \in [Stream -> 0..MaxEvents]
    /\ sent \in [Stream -> Seq(Event)]
    /\ dropped \in [Stream -> SUBSET Event]

Init ==
    /\ published = 0
    /\ closing = FALSE
    /\ subscribers = {}
    /\ queue = [s \in Stream |-> <<>>]
    /\ stage = [s \in Stream |-> "closed"]
    /\ connected = [s \in Stream |-> FALSE]
    /\ joined = [s \in Stream |-> 0]
    /\ sent = [s \in Stream |-> <<>>]
    /\ dropped = [s \in Stream |-> {}]
------------------------------------------------------------------------------
IsFull(q) == Len(q) >= QueueSize

\* put_nowait under suppress(QueueFull): a full queue keeps what it has.
Offer(q, e) == IF IsFull(q) THEN q ELSE Append(q, e)

\* Mutant of OfferStop: the stop signal waits its turn like any event.
OfferStopPolitely(q) == Offer(q, Stop)

\* _offer_stop: the stop signal always gets in, at the price of the oldest entry.
OfferStop(q) == Append(IF IsFull(q) THEN Tail(q) ELSE q, Stop)

\* What OfferStop throws away (the stop signal of an earlier call is no event).
PushedOut(q) == IF IsFull(q) THEN {Head(q)} \ {Stop} ELSE {}

\* publish(event), called by a use case of another request.
Publish ==
    LET e == published + 1 IN
    /\ published < MaxEvents
    /\ published' = e
    /\ queue' = [s \in Stream |-> IF s \in subscribers THEN Offer(queue[s], e) ELSE queue[s]]
    /\ dropped' = [s \in Stream |-> IF s \in subscribers /\ IsFull(queue[s])
                                    THEN dropped[s] \cup {e} ELSE dropped[s]]
    /\ UNCHANGED <<closing, subscribers, stage, connected, joined, sent>>

\* request_disconnect(), from the SIGTERM or SIGINT handler; both may arrive.
RequestDisconnect ==
    /\ closing' = TRUE
    /\ queue' = [s \in Stream |-> IF s \in subscribers THEN OfferStop(queue[s]) ELSE queue[s]]
    /\ dropped' = [s \in Stream |-> IF s \in subscribers
                                    THEN dropped[s] \cup PushedOut(queue[s]) ELSE dropped[s]]
    /\ UNCHANGED <<published, subscribers, stage, connected, joined, sent>>

\* A page opens a stream: subscribe(), then the retry frame.
Subscribe(s) ==
    /\ stage[s] = "closed"
    /\ stage' = [stage EXCEPT ![s] = "subscribed"]
    /\ connected' = [connected EXCEPT ![s] = TRUE]
    /\ subscribers' = subscribers \cup {s}
    /\ queue' = [queue EXCEPT ![s] = IF closing THEN OfferStop(<<>>) ELSE <<>>]
    /\ joined' = [joined EXCEPT ![s] = published]
    /\ sent' = [sent EXCEPT ![s] = <<>>]
    /\ dropped' = [dropped EXCEPT ![s] = {}]
    /\ UNCHANGED <<published, closing>>

\* Mutant of Prime: the stream takes a new queue after its first frame.
PrimeAfresh(s) ==
    /\ stage[s] = "subscribed"
    /\ stage' = [stage EXCEPT ![s] = "streaming"]
    /\ queue' = [queue EXCEPT ![s] = SelectSeq(@, LAMBDA e : e = Stop)]
    /\ UNCHANGED <<published, closing, subscribers, connected, joined, sent, dropped>>

\* The first planet frame, read from the repository and not from the queue.
Prime(s) ==
    /\ stage[s] = "subscribed"
    /\ stage' = [stage EXCEPT ![s] = "streaming"]
    /\ UNCHANGED <<published, closing, subscribers, queue, connected, joined, sent, dropped>>

\* Mutant of Release: the queue is emptied and stays registered.
ReleaseHalfway(s) ==
    /\ stage' = [stage EXCEPT ![s] = "closed"]
    /\ queue' = [queue EXCEPT ![s] = <<>>]
    /\ UNCHANGED <<published, closing, subscribers, connected, joined, dropped>>

\* Leaving the async-with block, whichever way: the subscriber is discarded.
Release(s) ==
    /\ stage' = [stage EXCEPT ![s] = "closed"]
    /\ subscribers' = subscribers \ {s}
    /\ queue' = [queue EXCEPT ![s] = <<>>]
    /\ UNCHANGED <<published, closing, connected, joined, dropped>>

\* Mutant of Forward: the event is read and not taken.
ForwardPeeking(s) ==
    /\ stage[s] = "streaming"
    /\ queue[s] # <<>>
    /\ Head(queue[s]) # Stop
    /\ Len(sent[s]) < MaxEvents
    /\ sent' = [sent EXCEPT ![s] = Append(@, Head(queue[s]))]
    /\ UNCHANGED <<published, closing, subscribers, queue, stage, connected, joined, dropped>>

\* One turn of the loop that finds an event: frame it and send it.
Forward(s) ==
    /\ stage[s] = "streaming"
    /\ queue[s] # <<>>
    /\ Head(queue[s]) # Stop
    /\ sent' = [sent EXCEPT ![s] = Append(@, Head(queue[s]))]
    /\ queue' = [queue EXCEPT ![s] = Tail(@)]
    /\ UNCHANGED <<published, closing, subscribers, stage, connected, joined, dropped>>

\* One turn of the loop that finds the stop signal: the response ends.
TakeStop(s) ==
    /\ stage[s] = "streaming"
    /\ queue[s] # <<>>
    /\ Head(queue[s]) = Stop
    /\ Release(s)
    /\ UNCHANGED sent

\* The page goes away; nothing tells the publisher.
HangUp(s) ==
    /\ connected[s]
    /\ connected' = [connected EXCEPT ![s] = FALSE]
    /\ UNCHANGED <<published, closing, subscribers, queue, stage, joined, sent, dropped>>

\* request.is_disconnected() at the top of the loop, or the server cancelling
\* the response of a page that went away before the loop was reached.
NoticeHangUp(s) ==
    /\ stage[s] # "closed"
    /\ ~connected[s]
    /\ Release(s)
    /\ UNCHANGED sent

Next ==
    \/ Publish
    \/ RequestDisconnect
    \/ \E s \in Stream :
          \/ Subscribe(s) \/ Prime(s) \/ Forward(s) \/ TakeStop(s)
          \/ HangUp(s) \/ NoticeHangUp(s)

SafeSpec == Init /\ [][Next]_vars

\* The loop of a stream runs: a frame is accepted by the socket or the page is
\* gone, and a queue that has something in it is read.
StreamRuns(s) == Prime(s) \/ Forward(s) \/ TakeStop(s)

Fairness == \A s \in Stream : WF_vars(StreamRuns(s)) /\ WF_vars(NoticeHangUp(s))

Spec == SafeSpec /\ Fairness
------------------------------------------------------------------------------
\* A subscriber never holds more than QueueSize events: a stalled page costs
\* the server a bounded backlog (publish drops, and the stop signal makes room).
BacklogBounded == \A s \in Stream : Len(queue[s]) <= QueueSize

\* Once a graceful stop was requested, every stream still open has the stop
\* signal in its queue - even one whose queue was full and one that subscribed
\* after the request.  Otherwise the stop waits for it until it is killed.
StopIsPending == closing => \A s \in subscribers : Stop \in ToSet(queue[s])

\* What a stream sent, followed by what is pending for it, is in publication
\* order, without repetition, and after the events that preceded the stream.
Ordered(pending, out, from, last) ==
    /\ from <= last
    /\ \A i \in DOMAIN out : from < out[i] /\ out[i] <= last
    /\ \A i, j \in DOMAIN out : i < j => out[i] < out[j]
    /\ \A i \in DOMAIN pending :
          pending[i] # Stop =>
             /\ from < pending[i] /\ pending[i] <= last
             /\ \A j \in DOMAIN out : out[j] < pending[i]
    /\ \A i, j \in DOMAIN pending :
          i < j /\ pending[i] # Stop /\ pending[j] # Stop => pending[i] < pending[j]

InOrder == \A s \in subscribers : Ordered(queue[s], sent[s], joined[s], published)

\* Every event published since a stream subscribed was sent, is pending, or was
\* given up because the queue was full: subscribing before the first frame is
\* read leaves no gap for an event to fall through.
NothingSlipsBy ==
    \A s \in subscribers :
        (joined[s] + 1)..published \subseteq ToSet(sent[s]) \cup ToSet(queue[s]) \cup dropped[s]

\* An open stream ends once a graceful stop was requested, whatever is queued, and
\* a page that went away gives its queue back.
StreamsEnd ==
    \A s \in Stream :
        /\ (closing /\ stage[s] # "closed") ~> stage[s] = "closed"
        /\ ~connected[s] ~> (s \notin subscribers \/ connected[s])
------------------------------------------------------------------------------
\* The publisher implements the queue-free promise: a stream has seen the last
\* event it was sent, or, before that, everything published when it joined.
SeenBy(s) == IF sent[s] = <<>> THEN joined[s] ELSE sent[s][Len(sent[s])]

Fanout == INSTANCE EventFanout
              WITH open <- subscribers, seen <- [s \in Stream |-> SeenBy(s)]

\* Every behaviour of the publisher and its streams is one EventFanout allows.
ImplementsFanout == Fanout!Spec
==============================================================================
