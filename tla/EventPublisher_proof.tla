------------------------- MODULE EventPublisher_proof -------------------------
(* Proofs about EventPublisher, for any streams, queue size and events.     *)
EXTENDS EventPublisher, TLAPS

\* A subscriber is a generator that has not left the async-with block.
SubscribersRun == subscribers = {s \in Stream : stage[s] # "closed"}

\* What the five safety properties need to be inductive together.
IndInv ==
    /\ TypeOK
    /\ SubscribersRun
    /\ BacklogBounded
    /\ StopIsPending
    /\ InOrder
    /\ NothingSlipsBy

\* Offering an event to a full queue changes nothing; otherwise it comes last.
LEMMA OfferType ==
    ASSUME NEW q \in Seq(Event \cup {Stop}), NEW e \in Event \cup {Stop}
    PROVE  /\ Offer(q, e) \in Seq(Event \cup {Stop})
           /\ Len(q) <= QueueSize => Len(Offer(q, e)) <= QueueSize
BY ConstantsAssumption DEF Offer, IsFull, Event, Stop

\* The stop signal is always the last entry of a queue it was offered to, and
\* room is made for it when there is none.
LEMMA OfferStopType ==
    ASSUME NEW q \in Seq(Event \cup {Stop})
    PROVE  /\ OfferStop(q) \in Seq(Event \cup {Stop})
           /\ Len(q) <= QueueSize => Len(OfferStop(q)) <= QueueSize
           /\ OfferStop(q)[Len(OfferStop(q))] = Stop
           /\ Len(OfferStop(q)) \in DOMAIN OfferStop(q)
<1>1. CASE IsFull(q)
  <2>1. q # <<>> /\ Tail(q) \in Seq(Event \cup {Stop}) /\ Len(Tail(q)) = Len(q) - 1
    BY <1>1, ConstantsAssumption DEF IsFull
  <2>2. OfferStop(q) = Append(Tail(q), Stop)
    BY <1>1 DEF OfferStop
  <2>. QED
    BY <2>1, <2>2 DEF Stop
<1>2. CASE ~IsFull(q)
  <2>1. OfferStop(q) = Append(q, Stop)
    BY <1>2 DEF OfferStop
  <2>. QED
    BY <1>2, <2>1, ConstantsAssumption DEF IsFull, Stop
<1>. QED
  BY <1>1, <1>2

\* An entry of a queue other than the first is one place further up in its tail.
LEMMA TailEntry ==
    ASSUME NEW q \in Seq(Event \cup {Stop}), q # <<>>, NEW k \in 1..Len(q), k # 1
    PROVE  k - 1 \in DOMAIN Tail(q) /\ Tail(q)[k - 1] = q[k]
OBVIOUS

\* The publisher starts with no subscriber and no queue, so IndInv holds.
LEMMA InitIndInv == Init => IndInv
<1>. SUFFICES ASSUME Init PROVE IndInv
  OBVIOUS
<1>. USE DEF Init
<1>1. TypeOK
  <2>1. queue \in [Stream -> Seq(Event \cup {Stop})] /\ sent \in [Stream -> Seq(Event)]
    OBVIOUS
  <2>2. published \in 0..MaxEvents /\ joined \in [Stream -> 0..MaxEvents]
    BY ConstantsAssumption
  <2>. QED
    BY <2>1, <2>2 DEF TypeOK, Stage
<1>2. SubscribersRun
  BY DEF SubscribersRun
<1>3. BacklogBounded
  BY ConstantsAssumption DEF BacklogBounded
<1>4. StopIsPending /\ InOrder /\ NothingSlipsBy
  BY DEF StopIsPending, InOrder, NothingSlipsBy
<1>. QED
  BY <1>1, <1>2, <1>3, <1>4 DEF IndInv

\* No operation of the publisher or of a stream breaks the types.
LEMMA TypeStep == IndInv /\ [Next]_vars => TypeOK'
<1>. SUFFICES ASSUME TypeOK, [Next]_vars PROVE TypeOK'
  BY DEF IndInv
<1>. USE DEF TypeOK
<1>1. CASE Publish
  <2>1. published + 1 \in Event /\ published' \in 0..MaxEvents
    BY <1>1, ConstantsAssumption DEF Publish, Event
  <2>2. queue' \in [Stream -> Seq(Event \cup {Stop})]
    BY <1>1, <2>1, OfferType DEF Publish
  <2>3. dropped' \in [Stream -> SUBSET Event]
    BY <1>1, <2>1 DEF Publish
  <2>. QED
    BY <1>1, <2>1, <2>2, <2>3 DEF Publish
<1>2. CASE RequestDisconnect
  <2>1. \A s \in Stream : PushedOut(queue[s]) \subseteq Event
    <3>. TAKE s \in Stream
    <3>1. CASE IsFull(queue[s])
      <4>1. queue[s] # <<>>
        BY <3>1, ConstantsAssumption DEF IsFull
      <4>2. Head(queue[s]) \in Event \cup {Stop}
        BY <4>1
      <4>. QED
        BY <3>1, <4>2 DEF PushedOut
    <3>. QED
      BY <3>1 DEF PushedOut
  <2>2. queue' \in [Stream -> Seq(Event \cup {Stop})]
    BY <1>2, OfferStopType DEF RequestDisconnect
  <2>3. dropped' \in [Stream -> SUBSET Event]
    BY <1>2, <2>1 DEF RequestDisconnect
  <2>. QED
    BY <1>2, <2>2, <2>3 DEF RequestDisconnect
<1>3. ASSUME NEW s \in Stream, Subscribe(s) PROVE TypeOK'
  <2>. DEFINE first == IF closing THEN OfferStop(<<>>) ELSE <<>>
  <2>1. <<>> \in Seq(Event) /\ first \in Seq(Event \cup {Stop})
    <3>1. <<>> \in Seq(Event \cup {Stop}) /\ <<>> \in Seq(Event)
      OBVIOUS
    <3>2. OfferStop(<<>>) \in Seq(Event \cup {Stop})
      BY <3>1, OfferStopType
    <3>. QED
      BY <3>1, <3>2
  <2>2. queue' \in [Stream -> Seq(Event \cup {Stop})]
    <3>. HIDE DEF first
    <3>1. queue' = [queue EXCEPT ![s] = first]
      BY <1>3 DEF Subscribe, first
    <3>. QED
      BY <3>1, <2>1
  <2>3. sent' \in [Stream -> Seq(Event)]
    BY <1>3, <2>1 DEF Subscribe
  <2>. QED
    BY <1>3, <2>2, <2>3 DEF Subscribe, Stage
<1>4. ASSUME NEW s \in Stream, Prime(s) PROVE TypeOK'
  BY <1>4 DEF Prime, Stage
<1>5. ASSUME NEW s \in Stream, Forward(s) PROVE TypeOK'
  <2>1. Head(queue[s]) \in Event /\ Tail(queue[s]) \in Seq(Event \cup {Stop})
    BY <1>5 DEF Forward
  <2>. QED
    BY <1>5, <2>1 DEF Forward
<1>6. ASSUME NEW s \in Stream, TakeStop(s) PROVE TypeOK'
  BY <1>6 DEF TakeStop, Release, Stage
<1>7. ASSUME NEW s \in Stream, HangUp(s) PROVE TypeOK'
  BY <1>7 DEF HangUp
<1>8. ASSUME NEW s \in Stream, NoticeHangUp(s) PROVE TypeOK'
  BY <1>8 DEF NoticeHangUp, Release, Stage
<1>9. CASE UNCHANGED vars
  BY <1>9 DEF vars
<1>. QED
  BY <1>1, <1>2, <1>3, <1>4, <1>5, <1>6, <1>7, <1>8, <1>9 DEF Next

\* Subscribing and leaving the async-with block keep _subscribers and the running
\* generators the same set.
LEMMA SubscribersStep == IndInv /\ [Next]_vars => SubscribersRun'
<1>. SUFFICES ASSUME TypeOK, SubscribersRun, [Next]_vars PROVE SubscribersRun'
  BY DEF IndInv
<1>. USE DEF TypeOK, SubscribersRun
<1>1. ASSUME NEW s \in Stream, Subscribe(s) PROVE SubscribersRun'
  BY <1>1 DEF Subscribe
<1>2. ASSUME NEW s \in Stream, Prime(s) PROVE SubscribersRun'
  BY <1>2 DEF Prime
<1>3. ASSUME NEW s \in Stream, TakeStop(s) \/ NoticeHangUp(s) PROVE SubscribersRun'
  BY <1>3 DEF TakeStop, NoticeHangUp, Release
<1>. QED
  BY <1>1, <1>2, <1>3 DEF Next, vars, Publish, RequestDisconnect, Forward, HangUp

\* Offering keeps what is queued where it is.
LEMMA OfferKeeps ==
    ASSUME NEW q \in Seq(Event \cup {Stop}), NEW e \in Event
    PROVE  /\ \A i \in DOMAIN q : i \in DOMAIN Offer(q, e) /\ Offer(q, e)[i] = q[i]
           /\ \A i \in DOMAIN Offer(q, e) : i \in DOMAIN q \/ (i = Len(q) + 1 /\ Offer(q, e)[i] = e)
           /\ ~IsFull(q) => Len(q) + 1 \in DOMAIN Offer(q, e) /\ Offer(q, e)[Len(q) + 1] = e
BY DEF Offer

\* Before the stop signal stands what was queued, but for the entry pushed out.
LEMMA OfferStopKeeps ==
    ASSUME NEW q \in Seq(Event \cup {Stop})
    PROVE  \E d \in {0, 1} :
              /\ Len(OfferStop(q)) + d = Len(q) + 1
              /\ \A i \in DOMAIN OfferStop(q) : i < Len(OfferStop(q)) =>
                    i + d \in DOMAIN q /\ OfferStop(q)[i] = q[i + d]
              /\ d = 1 => q # <<>> /\ PushedOut(q) = {q[1]} \ {Stop}
<1>1. CASE IsFull(q)
  <2>1. q # <<>> /\ Len(q) >= 1
    BY <1>1, ConstantsAssumption DEF IsFull
  <2>2. OfferStop(q) = Append(Tail(q), Stop) /\ PushedOut(q) = {q[1]} \ {Stop}
    BY <1>1, <2>1 DEF OfferStop, PushedOut
  <2>3. /\ Tail(q) \in Seq(Event \cup {Stop}) /\ Len(Tail(q)) = Len(q) - 1
        /\ \A i \in 1..Len(Tail(q)) : Tail(q)[i] = q[i + 1]
    BY <2>1
  <2>. WITNESS 1 \in {0, 1}
  <2>. QED
    BY <2>1, <2>2, <2>3 DEF Stop
<1>2. CASE ~IsFull(q)
  <2>1. OfferStop(q) = Append(q, Stop)
    BY <1>2 DEF OfferStop
  <2>. WITNESS 0 \in {0, 1}
  <2>. QED
    BY <2>1 DEF Stop
<1>. QED
  BY <1>1, <1>2

\* Every put_nowait is guarded by QueueFull, so no queue outgrows its size.
LEMMA BacklogStep == IndInv /\ [Next]_vars => BacklogBounded'
<1>. SUFFICES ASSUME TypeOK, BacklogBounded, [Next]_vars PROVE BacklogBounded'
  BY DEF IndInv
<1>. USE DEF TypeOK, BacklogBounded
<1>1. CASE Publish
  <2>1. published + 1 \in Event
    BY <1>1, ConstantsAssumption DEF Publish, Event
  <2>. QED
    BY <1>1, <2>1, OfferType DEF Publish
<1>2. CASE RequestDisconnect
  BY <1>2, OfferStopType DEF RequestDisconnect
<1>3. ASSUME NEW s \in Stream, Subscribe(s) PROVE BacklogBounded'
  <2>1. <<>> \in Seq(Event \cup {Stop}) /\ Len(<<>>) <= QueueSize
    BY ConstantsAssumption
  <2>2. Len(OfferStop(<<>>)) <= QueueSize
    BY <2>1, OfferStopType
  <2>3. Len(queue'[s]) <= QueueSize
    BY <1>3, <2>1, <2>2 DEF Subscribe
  <2>. QED
    BY <1>3, <2>3 DEF Subscribe
<1>4. ASSUME NEW s \in Stream, Forward(s) PROVE BacklogBounded'
  <2>1. Len(Tail(queue[s])) <= Len(queue[s])
    BY <1>4 DEF Forward
  <2>. QED
    BY <1>4, <2>1, ConstantsAssumption DEF Forward
<1>5. ASSUME NEW s \in Stream, TakeStop(s) \/ NoticeHangUp(s) PROVE BacklogBounded'
  BY <1>5, ConstantsAssumption DEF TakeStop, NoticeHangUp, Release
<1>. QED
  BY <1>1, <1>2, <1>3, <1>4, <1>5 DEF Next, vars, Prime, HangUp

\* Only the stream itself takes the stop signal, and it then leaves; publish never
\* pushes it out, and a later request_disconnect puts another one in.
LEMMA StopStep == IndInv /\ [Next]_vars => StopIsPending'
<1>. SUFFICES ASSUME TypeOK, StopIsPending, [Next]_vars, closing',
                     NEW r \in subscribers'
              PROVE  \E i \in DOMAIN queue'[r] : queue'[r][i] = Stop
  BY DEF IndInv, StopIsPending, ToSet
<1>. USE DEF TypeOK
<1>0. closing /\ r \in subscribers => \E i \in DOMAIN queue[r] : queue[r][i] = Stop
  BY DEF StopIsPending, ToSet
<1>1. CASE Publish
  <2>. DEFINE e == published + 1
  <2>1. e \in Event /\ r \in Stream /\ queue[r] \in Seq(Event \cup {Stop})
    BY <1>1, ConstantsAssumption DEF Publish, Event
  <2>2. PICK i \in DOMAIN queue[r] : queue[r][i] = Stop
    BY <1>0, <1>1 DEF Publish
  <2>3. queue'[r] = Offer(queue[r], e)
    BY <1>1, <2>1 DEF Publish
  <2>. HIDE DEF e
  <2>4. \A k \in DOMAIN queue[r] :
           k \in DOMAIN Offer(queue[r], e) /\ Offer(queue[r], e)[k] = queue[r][k]
    BY <2>1, OfferKeeps
  <2>. QED
    BY <2>2, <2>3, <2>4
<1>2. CASE RequestDisconnect
  <2>1. r \in Stream /\ r \in subscribers
    BY <1>2 DEF RequestDisconnect
  <2>2. queue'[r] = OfferStop(queue[r]) /\ queue[r] \in Seq(Event \cup {Stop})
    BY <1>2, <2>1 DEF RequestDisconnect
  <2>. QED
    BY <2>2, OfferStopType
<1>3. ASSUME NEW s \in Stream, Subscribe(s)
      PROVE  \E i \in DOMAIN queue'[r] : queue'[r][i] = Stop
  <2>1. CASE r = s
    <3>1. queue'[r] = OfferStop(<<>>)
      BY <1>3, <2>1 DEF Subscribe
    <3>2. <<>> \in Seq(Event \cup {Stop})
      OBVIOUS
    <3>. QED
      BY <3>1, <3>2, OfferStopType
  <2>2. CASE r # s
    BY <1>0, <1>3, <2>2 DEF Subscribe
  <2>. QED
    BY <2>1, <2>2
<1>4. ASSUME NEW s \in Stream, Forward(s)
      PROVE  \E i \in DOMAIN queue'[r] : queue'[r][i] = Stop
  <2>1. PICK i \in DOMAIN queue[r] : queue[r][i] = Stop
    BY <1>0, <1>4 DEF Forward
  <2>2. CASE r = s
    <3>1. /\ i # 1 /\ queue'[r] = Tail(queue[r])
          /\ queue[r] # <<>> /\ queue[r] \in Seq(Event \cup {Stop})
      BY <1>4, <2>1, <2>2 DEF Forward
    <3>2. i \in 1..Len(queue[r])
      BY <2>1, <3>1
    <3>3. i - 1 \in DOMAIN Tail(queue[r]) /\ Tail(queue[r])[i - 1] = Stop
      BY <2>1, <3>1, <3>2, TailEntry
    <3>. QED
      BY <3>1, <3>3
  <2>3. CASE r # s
    BY <1>4, <2>1, <2>3 DEF Forward
  <2>. QED
    BY <2>2, <2>3
<1>5. ASSUME NEW s \in Stream, TakeStop(s) \/ NoticeHangUp(s)
      PROVE  \E i \in DOMAIN queue'[r] : queue'[r][i] = Stop
  BY <1>0, <1>5 DEF TakeStop, NoticeHangUp, Release
<1>. QED
  BY <1>0, <1>1, <1>2, <1>3, <1>4, <1>5 DEF Next, vars, Prime, HangUp

\* The three ways a stream's queue and its output change keep them in order.
LEMMA OrderedOffer ==
    ASSUME NEW q \in Seq(Event \cup {Stop}), NEW out \in Seq(Event),
           NEW from \in Nat, NEW last \in Nat, last + 1 \in Event,
           Ordered(q, out, from, last)
    PROVE  Ordered(Offer(q, last + 1), out, from, last + 1)
<1>1. \A i \in DOMAIN q : q[i] \in Int
  <2>1. \A i \in DOMAIN q : q[i] \in Event \cup {Stop}
    OBVIOUS
  <2>. QED
    BY <2>1, ConstantsAssumption DEF Event, Stop
<1>2. \A i \in DOMAIN out : out[i] \in Int
  <2>1. \A i \in DOMAIN out : out[i] \in Event
    OBVIOUS
  <2>. QED
    BY <2>1, ConstantsAssumption DEF Event
<1>3. /\ from <= last + 1
      /\ \A i \in DOMAIN out : from < out[i] /\ out[i] < last + 1
      /\ \A i, j \in DOMAIN out : i < j => out[i] < out[j]
  BY <1>2 DEF Ordered
<1>4. /\ \A i \in DOMAIN q : q[i] # Stop => from < q[i] /\ q[i] < last + 1
      /\ \A i \in DOMAIN q, j \in DOMAIN out : q[i] # Stop => out[j] < q[i]
      /\ \A i, j \in DOMAIN q : i < j /\ q[i] # Stop /\ q[j] # Stop => q[i] < q[j]
  BY <1>1 DEF Ordered
<1>5. from < last + 1 /\ last + 1 \in Int
  BY DEF Ordered
<1>. DEFINE nq == Offer(q, last + 1)
<1>6. /\ \A i \in DOMAIN nq : i \in DOMAIN q \/ (i = Len(q) + 1 /\ nq[i] = last + 1)
      /\ \A i \in DOMAIN q : nq[i] = q[i]
  BY OfferKeeps
<1>7. \A i \in DOMAIN q : i < Len(q) + 1 /\ ~(Len(q) + 1 < i)
  OBVIOUS
<1>. HIDE DEF nq
<1>8. \A i \in DOMAIN nq : nq[i] # Stop =>
         /\ from < nq[i] /\ nq[i] <= last + 1
         /\ \A j \in DOMAIN out : out[j] < nq[i]
  <2>. SUFFICES ASSUME NEW i \in DOMAIN nq, nq[i] # Stop
                PROVE  /\ from < nq[i] /\ nq[i] <= last + 1
                       /\ \A j \in DOMAIN out : out[j] < nq[i]
    OBVIOUS
  <2>1. CASE i \in DOMAIN q
    <3>1. nq[i] = q[i] /\ q[i] \in Int
      BY <1>1, <1>6, <2>1
    <3>. QED
      BY <1>4, <2>1, <3>1
  <2>2. CASE nq[i] = last + 1
    BY <1>3, <1>5, <2>2
  <2>. QED
    BY <1>6, <2>1, <2>2
<1>9. \A i, j \in DOMAIN nq : i < j /\ nq[i] # Stop /\ nq[j] # Stop => nq[i] < nq[j]
  <2>. SUFFICES ASSUME NEW i \in DOMAIN nq, NEW j \in DOMAIN nq,
                       i < j, nq[i] # Stop, nq[j] # Stop
                PROVE  nq[i] < nq[j]
    OBVIOUS
  <2>1. CASE i \in DOMAIN q /\ j \in DOMAIN q
    BY <1>4, <1>6, <2>1
  <2>2. CASE i \in DOMAIN q /\ nq[j] = last + 1
    BY <1>4, <1>6, <2>2
  <2>3. CASE i = Len(q) + 1 /\ j \in DOMAIN q
    BY <1>7, <2>3
  <2>4. CASE i = Len(q) + 1 /\ j = Len(q) + 1
    BY <2>4
  <2>. QED
    BY <1>6, <2>1, <2>2, <2>3, <2>4
<1>10. Ordered(nq, out, from, last + 1)
  <2>1. \A i \in DOMAIN out : from < out[i] /\ out[i] <= last + 1
    BY <1>2, <1>3, <1>5
  <2>. QED
    BY <1>3, <1>8, <1>9, <2>1 DEF Ordered
<1>. QED
  BY <1>10 DEF nq

\* The stop signal comes last and pushes out the oldest entry at most.
LEMMA OrderedOfferStop ==
    ASSUME NEW q \in Seq(Event \cup {Stop}), NEW out \in Seq(Event),
           NEW from \in Nat, NEW last \in Nat,
           Ordered(q, out, from, last)
    PROVE  Ordered(OfferStop(q), out, from, last)
<1>. DEFINE nq == OfferStop(q)
<1>1. nq \in Seq(Event \cup {Stop}) /\ nq[Len(nq)] = Stop
  BY OfferStopType
<1>2. PICK d \in {0, 1} : \A i \in DOMAIN nq : i < Len(nq) => i + d \in DOMAIN q /\ nq[i] = q[i + d]
  BY OfferStopKeeps
<1>3. DOMAIN nq = 1..Len(nq) /\ Len(nq) \in Nat /\ d \in Int
  BY <1>1
<1>. HIDE DEF nq
<1>4. \A i \in DOMAIN nq : nq[i] # Stop => i + d \in DOMAIN q /\ nq[i] = q[i + d]
  BY <1>1, <1>2, <1>3
<1>5. \A i, j \in DOMAIN nq : i < j => i + d < j + d
  BY <1>3
<1>6. Ordered(nq, out, from, last)
  BY <1>4, <1>5 DEF Ordered
<1>. QED
  BY <1>6 DEF nq

\* The event taken from the head is newer than all that was sent before.
LEMMA OrderedForward ==
    ASSUME NEW q \in Seq(Event \cup {Stop}), NEW out \in Seq(Event),
           NEW from \in Nat, NEW last \in Nat,
           Ordered(q, out, from, last), q # <<>>, Head(q) # Stop
    PROVE  Ordered(Tail(q), Append(out, Head(q)), from, last)
<1>. DEFINE nq == Tail(q)
            no == Append(out, Head(q))
<1>1. 1 \in DOMAIN q /\ Head(q) = q[1] /\ q[1] \in Event
  OBVIOUS
<1>2. \A i \in DOMAIN nq : i \in Int /\ i + 1 \in DOMAIN q /\ 1 < i + 1 /\ nq[i] = q[i + 1]
  OBVIOUS
<1>3. /\ DOMAIN no = 1..(Len(out) + 1) /\ DOMAIN out = 1..Len(out) /\ Len(out) \in Nat
      /\ \A i \in 1..Len(out) : no[i] = out[i]
      /\ no[Len(out) + 1] = q[1]
  BY <1>1
<1>. HIDE DEF nq, no
<1>4. /\ from < q[1] /\ q[1] <= last
      /\ \A j \in DOMAIN out : out[j] < q[1]
      /\ \A i \in DOMAIN nq : nq[i] # Stop => q[1] < nq[i]
  BY <1>1, <1>2 DEF Ordered
<1>5. Ordered(nq, no, from, last)
  <2>1. \A i \in DOMAIN no : from < no[i] /\ no[i] <= last
    BY <1>3, <1>4 DEF Ordered
  <2>2. \A i, j \in DOMAIN no : i < j => no[i] < no[j]
    BY <1>3, <1>4 DEF Ordered
  <2>3. \A i \in DOMAIN nq : nq[i] # Stop =>
           /\ from < nq[i] /\ nq[i] <= last
           /\ \A j \in DOMAIN no : no[j] < nq[i]
    BY <1>2, <1>3, <1>4 DEF Ordered
  <2>4. \A i, j \in DOMAIN nq : i < j /\ nq[i] # Stop /\ nq[j] # Stop => nq[i] < nq[j]
    BY <1>2 DEF Ordered
  <2>. QED
    BY <2>1, <2>2, <2>3, <2>4 DEF Ordered
<1>. QED
  BY <1>5 DEF nq, no

\* Every operation keeps what a stream sent and has pending in publication order.
LEMMA InOrderStep == IndInv /\ [Next]_vars => InOrder'
<1>. SUFFICES ASSUME TypeOK, InOrder, [Next]_vars, NEW r \in subscribers'
              PROVE  Ordered(queue'[r], sent'[r], joined'[r], published')
  BY DEF IndInv, InOrder
<1>. USE DEF TypeOK
<1>0. r \in Stream
  BY DEF Next, vars, Publish, RequestDisconnect, Subscribe, Prime, Forward, TakeStop,
         HangUp, NoticeHangUp, Release
<1>q. queue[r] \in Seq(Event \cup {Stop}) /\ sent[r] \in Seq(Event)
      /\ joined[r] \in Nat /\ published \in Nat
  BY <1>0, ConstantsAssumption
<1>1. CASE Publish
  <2>1. published + 1 \in Event /\ Ordered(queue[r], sent[r], joined[r], published)
    BY <1>1, <1>0, ConstantsAssumption DEF Publish, Event, InOrder
  <2>2. /\ queue'[r] = Offer(queue[r], published + 1) /\ sent'[r] = sent[r]
        /\ joined'[r] = joined[r] /\ published' = published + 1
    BY <1>1, <1>0 DEF Publish
  <2>. QED
    BY <1>q, <2>1, <2>2, OrderedOffer
<1>2. CASE RequestDisconnect
  <2>1. Ordered(queue[r], sent[r], joined[r], published)
    BY <1>2 DEF RequestDisconnect, InOrder
  <2>2. /\ queue'[r] = OfferStop(queue[r]) /\ sent'[r] = sent[r] /\ joined'[r] = joined[r]
        /\ published' = published
    BY <1>2, <1>0 DEF RequestDisconnect
  <2>. QED
    BY <1>q, <2>1, <2>2, OrderedOfferStop
<1>3. ASSUME NEW s \in Stream, Subscribe(s)
      PROVE  Ordered(queue'[r], sent'[r], joined'[r], published')
  <2>1. CASE r = s
    <3>1. OfferStop(<<>>) = <<Stop>>
      BY ConstantsAssumption DEF OfferStop, IsFull
    <3>2. /\ queue'[r] = <<>> \/ queue'[r] = <<Stop>>
          /\ sent'[r] = <<>> /\ joined'[r] = published /\ published' = published
      BY <1>3, <2>1, <3>1 DEF Subscribe
    <3>. QED
      BY <1>q, <3>2 DEF Ordered
  <2>2. CASE r # s
    BY <1>0, <1>3, <2>2 DEF Subscribe, InOrder
  <2>. QED
    BY <2>1, <2>2
<1>4. ASSUME NEW s \in Stream, Forward(s)
      PROVE  Ordered(queue'[r], sent'[r], joined'[r], published')
  <2>1. Ordered(queue[r], sent[r], joined[r], published)
    BY <1>4 DEF Forward, InOrder
  <2>2. CASE r = s
    <3>1. /\ queue[r] # <<>> /\ Head(queue[r]) # Stop /\ queue'[r] = Tail(queue[r])
          /\ sent'[r] = Append(sent[r], Head(queue[r]))
          /\ joined'[r] = joined[r] /\ published' = published
      BY <1>0, <1>4, <2>2 DEF Forward
    <3>. QED
      BY <1>q, <2>1, <3>1, OrderedForward
  <2>3. CASE r # s
    BY <1>0, <1>4, <2>1, <2>3 DEF Forward
  <2>. QED
    BY <2>2, <2>3
<1>5. ASSUME NEW s \in Stream, TakeStop(s) \/ NoticeHangUp(s)
      PROVE  Ordered(queue'[r], sent'[r], joined'[r], published')
  BY <1>0, <1>5 DEF TakeStop, NoticeHangUp, Release, InOrder
<1>6. ASSUME NEW s \in Stream, Prime(s) \/ HangUp(s)
      PROVE  Ordered(queue'[r], sent'[r], joined'[r], published')
  BY <1>0, <1>6 DEF Prime, HangUp, InOrder
<1>7. CASE UNCHANGED vars
  BY <1>0, <1>7 DEF vars, InOrder
<1>. QED
  BY <1>1, <1>2, <1>3, <1>4, <1>5, <1>6, <1>7 DEF Next

\* What a stream sent last is the last entry of what it sent.
LEMMA LastOfAppend ==
    ASSUME NEW q \in Seq(Event), NEW e \in Event
    PROVE  Append(q, e) # <<>> /\ Append(q, e)[Len(Append(q, e))] = e
OBVIOUS

\* An event leaves the queue only to be sent, or counted as dropped.
LEMMA NothingSlipsByStep == IndInv /\ [Next]_vars => NothingSlipsBy'
<1>. SUFFICES ASSUME TypeOK, NothingSlipsBy, [Next]_vars, NEW r \in subscribers',
                     NEW n \in (joined'[r] + 1)..published'
              PROVE  \/ \E i \in DOMAIN sent'[r] : sent'[r][i] = n
                     \/ \E i \in DOMAIN queue'[r] : queue'[r][i] = n
                     \/ n \in dropped'[r]
  BY DEF IndInv, NothingSlipsBy, ToSet
<1>. USE DEF TypeOK
<1>. DEFINE Kept == \/ \E i \in DOMAIN sent'[r] : sent'[r][i] = n
                    \/ \E i \in DOMAIN queue'[r] : queue'[r][i] = n
                    \/ n \in dropped'[r]
<1>0. r \in Stream
  BY DEF Next, vars, Publish, RequestDisconnect, Subscribe, Prime, Forward, TakeStop,
         HangUp, NoticeHangUp, Release
<1>q. /\ queue[r] \in Seq(Event \cup {Stop}) /\ sent[r] \in Seq(Event)
      /\ joined[r] \in Nat /\ published \in Nat
  BY <1>0, ConstantsAssumption
<1>h. r \in subscribers /\ n \in (joined[r] + 1)..published =>
         \/ \E i \in DOMAIN sent[r] : sent[r][i] = n
         \/ \E i \in DOMAIN queue[r] : queue[r][i] = n
         \/ n \in dropped[r]
  BY DEF NothingSlipsBy, ToSet
<1>1. CASE Publish
  <2>. DEFINE e == published + 1
  <2>1. /\ e \in Event /\ r \in subscribers
        /\ n \in (joined[r] + 1)..published \/ n = e
    BY <1>1, <1>q, ConstantsAssumption DEF Publish, Event
  <2>2. /\ queue'[r] = Offer(queue[r], e) /\ sent'[r] = sent[r]
        /\ dropped[r] \subseteq dropped'[r]
        /\ IsFull(queue[r]) => e \in dropped'[r]
    BY <1>0, <1>1, <2>1 DEF Publish
  <2>. HIDE DEF e
  <2>3. /\ \A i \in DOMAIN queue[r] : i \in DOMAIN Offer(queue[r], e)
                                      /\ Offer(queue[r], e)[i] = queue[r][i]
        /\ ~IsFull(queue[r]) => Len(queue[r]) + 1 \in DOMAIN Offer(queue[r], e)
                                /\ Offer(queue[r], e)[Len(queue[r]) + 1] = e
    BY <1>q, <2>1, OfferKeeps
  <2>4. CASE n = e
    BY <2>2, <2>3, <2>4
  <2>5. CASE n \in (joined[r] + 1)..published
    BY <1>h, <2>1, <2>2, <2>3, <2>5
  <2>. QED
    BY <2>1, <2>4, <2>5
<1>2. CASE RequestDisconnect
  <2>1. /\ r \in subscribers /\ n \in (joined[r] + 1)..published /\ n # Stop
        /\ sent'[r] = sent[r] /\ queue'[r] = OfferStop(queue[r])
        /\ dropped'[r] = dropped[r] \cup PushedOut(queue[r])
    BY <1>0, <1>2, <1>q DEF RequestDisconnect, Stop
  <2>2. ASSUME NEW k \in DOMAIN queue[r], queue[r][k] = n
        PROVE  Kept
    <3>. DEFINE q == queue[r]
                nq == OfferStop(q)
    <3>1. nq \in Seq(Event \cup {Stop})
      BY <1>q, OfferStopType
    <3>2. PICK d \in {0, 1} :
              /\ Len(nq) + d = Len(q) + 1
              /\ \A i \in DOMAIN nq : i < Len(nq) => i + d \in DOMAIN q /\ nq[i] = q[i + d]
              /\ d = 1 => q # <<>> /\ PushedOut(q) = {q[1]} \ {Stop}
      BY <1>q, OfferStopKeeps
    <3>3. /\ DOMAIN nq = 1..Len(nq) /\ Len(nq) \in Nat /\ k \in 1..Len(q)
          /\ Len(q) \in Nat
      BY <1>q, <3>1
    <3>. HIDE DEF q, nq
    <3>4. CASE k = 1 /\ d = 1
      BY <2>1, <2>2, <3>2, <3>4 DEF q
    <3>5. CASE ~(k = 1 /\ d = 1)
      <4>1. k - d \in DOMAIN nq /\ k - d < Len(nq) /\ (k - d) + d = k
        BY <3>2, <3>3, <3>5
      <4>2. nq[k - d] = n
        BY <2>2, <3>2, <4>1 DEF q
      <4>. QED
        BY <2>1, <4>1, <4>2 DEF nq, q
    <3>. QED
      BY <3>4, <3>5
  <2>. QED
    BY <1>h, <2>1, <2>2
<1>3. ASSUME NEW s \in Stream, Subscribe(s) PROVE Kept
  <2>1. r # s
    BY <1>0, <1>3, <1>q DEF Subscribe
  <2>. QED
    BY <1>0, <1>3, <1>h, <2>1 DEF Subscribe
<1>4. ASSUME NEW s \in Stream, Forward(s) PROVE Kept
  <2>1. /\ r \in subscribers /\ n \in (joined[r] + 1)..published
        /\ dropped'[r] = dropped[r]
    BY <1>4 DEF Forward
  <2>2. CASE r = s
    <3>1. /\ queue[r] # <<>> /\ queue'[r] = Tail(queue[r])
          /\ sent'[r] = Append(sent[r], Head(queue[r])) /\ Head(queue[r]) \in Event
      BY <1>0, <1>4, <1>q, <2>2 DEF Forward
    <3>2. ASSUME NEW i \in DOMAIN sent[r], sent[r][i] = n PROVE Kept
      <4>1. i \in DOMAIN sent'[r] /\ sent'[r][i] = n
        BY <1>q, <3>1, <3>2
      <4>. QED
        BY <4>1
    <3>3. ASSUME NEW k \in DOMAIN queue[r], queue[r][k] = n PROVE Kept
      <4>1. CASE k = 1
        <5>1. Len(sent[r]) + 1 \in DOMAIN sent'[r] /\ sent'[r][Len(sent[r]) + 1] = n
          BY <1>q, <3>1, <3>3, <4>1
        <5>. QED
          BY <5>1
      <4>2. CASE k # 1
        <5>0. k \in 1..Len(queue[r]) /\ Len(queue[r]) \in Nat
          BY <1>q
        <5>1. /\ k - 1 \in DOMAIN Tail(queue[r])
              /\ Tail(queue[r])[k - 1] = queue[r][k]
          BY <1>q, <3>1, <4>2, <5>0, TailEntry
        <5>. QED
          BY <3>1, <3>3, <5>1
      <4>. QED
        BY <4>1, <4>2
    <3>. QED
      BY <1>h, <2>1, <3>2, <3>3
  <2>3. CASE r # s
    BY <1>0, <1>4, <1>h, <2>1, <2>3 DEF Forward
  <2>. QED
    BY <2>2, <2>3
<1>5. ASSUME NEW s \in Stream, TakeStop(s) \/ NoticeHangUp(s) PROVE Kept
  BY <1>0, <1>5, <1>h DEF TakeStop, NoticeHangUp, Release
<1>6. ASSUME NEW s \in Stream, Prime(s) \/ HangUp(s) PROVE Kept
  BY <1>0, <1>6, <1>h DEF Prime, HangUp
<1>7. CASE UNCHANGED vars
  BY <1>0, <1>7, <1>h DEF vars
<1>. QED
  BY <1>1, <1>2, <1>3, <1>4, <1>5, <1>6, <1>7 DEF Next

\* IndInv is inductive, so every reachable state of the publisher satisfies it.
THEOREM Invariance == SafeSpec => []IndInv
<1>1. IndInv /\ [Next]_vars => IndInv'
  BY TypeStep, SubscribersStep, BacklogStep, StopStep, InOrderStep, NothingSlipsByStep DEF IndInv
<1>. QED
  BY InitIndInv, <1>1, PTL DEF SafeSpec

\* Every variable keeps its type: an event on its way is a published one.
THEOREM TypeCorrect == SafeSpec => []TypeOK
<1>. QED
  BY Invariance, PTL DEF IndInv

\* publish and request_disconnect never let a queue grow beyond QueueSize.
THEOREM BacklogIsBounded == SafeSpec => []BacklogBounded
<1>. QED
  BY Invariance, PTL DEF IndInv

\* The stop signal reaches full queues and late subscribers alike.
THEOREM StopAlwaysPending == SafeSpec => []StopIsPending
<1>. QED
  BY Invariance, PTL DEF IndInv

\* A stream's events come in publication order, once each.
THEOREM AlwaysInOrder == SafeSpec => []InOrder
<1>. QED
  BY Invariance, PTL DEF IndInv

\* No event falls between the subscription and the queue.
THEOREM NothingEverSlipsBy == SafeSpec => []NothingSlipsBy
<1>. QED
  BY Invariance, PTL DEF IndInv

\* The publisher with its queues is an EventFanout: the initial state maps to
\* its initial state and every step to one of its steps or to a stutter.
THEOREM RefinesFanout == SafeSpec => Fanout!SafeSpec
<1>. DEFINE Seen == [s \in Stream |-> SeenBy(s)]
<1>1. Init => Fanout!Init
  BY DEF Init, Fanout!Init, SeenBy
<1>2. IndInv /\ [Next]_vars => [Fanout!Next]_(Fanout!vars)
  <2>. SUFFICES ASSUME TypeOK, SubscribersRun, InOrder, [Next]_vars
                PROVE  [Fanout!Next]_(Fanout!vars)
    BY DEF IndInv
  <2>. USE DEF TypeOK
  <2>1. CASE Publish
    <3>1. Fanout!Publish
      BY <2>1 DEF Publish, Fanout!Publish, SeenBy
    <3>. QED
      BY <3>1 DEF Fanout!Next
  <2>2. CASE RequestDisconnect
    <3>1. Fanout!Shutdown
      BY <2>2 DEF RequestDisconnect, Fanout!Shutdown, SeenBy
    <3>. QED
      BY <3>1 DEF Fanout!Next
  <2>3. ASSUME NEW s \in Stream, Subscribe(s) PROVE Fanout!Join(s)
    <3>1. s \notin subscribers
      BY <2>3 DEF Subscribe, SubscribersRun
    <3>2. sent'[s] = <<>> /\ joined'[s] = published
      BY <2>3 DEF Subscribe
    <3>3. \A t \in Stream : t # s => sent'[t] = sent[t] /\ joined'[t] = joined[t]
      BY <2>3 DEF Subscribe
    <3>4. Seen' = [Seen EXCEPT ![s] = published]
      BY <3>2, <3>3 DEF SeenBy
    <3>. QED
      BY <2>3, <3>1, <3>4 DEF Subscribe, Fanout!Join
  <2>4. ASSUME NEW s \in Stream, Forward(s) PROVE Fanout!Show(s)
    <3>. DEFINE e == Head(queue[s])
    <3>1. /\ s \in subscribers
          /\ queue[s] \in Seq(Event \cup {Stop}) /\ sent[s] \in Seq(Event)
          /\ queue[s] # <<>> /\ 1 \in DOMAIN queue[s] /\ e = queue[s][1] /\ e # Stop
          /\ e \in Event
      BY <2>4 DEF Forward, SubscribersRun
    <3>2. Ordered(queue[s], sent[s], joined[s], published)
      BY <3>1 DEF InOrder
    <3>3. joined[s] < e /\ e <= published /\ \A j \in DOMAIN sent[s] : sent[s][j] < e
      BY <3>1, <3>2 DEF Ordered
    <3>4. SeenBy(s) < e /\ SeenBy(s) \in Int
      <4>1. CASE sent[s] = <<>>
        BY <3>3, <4>1, ConstantsAssumption DEF SeenBy
      <4>2. CASE sent[s] # <<>>
        <5>1. Len(sent[s]) \in DOMAIN sent[s] /\ sent[s][Len(sent[s])] \in Event
          BY <3>1, <4>2
        <5>. QED
          BY <3>3, <4>2, <5>1, ConstantsAssumption DEF SeenBy, Event
      <4>. QED
        BY <4>1, <4>2
    <3>5. e \in (SeenBy(s) + 1)..published
      BY <3>1, <3>3, <3>4, ConstantsAssumption DEF Event
    <3>6. SeenBy(s)' = e
      <4>1. sent'[s] = Append(sent[s], e)
        BY <2>4, <3>1 DEF Forward
      <4>. HIDE DEF e
      <4>2. sent[s] \in Seq(Event) /\ e \in Event
        BY <3>1
      <4>3. /\ Append(sent[s], e) # <<>>
            /\ Append(sent[s], e)[Len(Append(sent[s], e))] = e
        BY <4>2, LastOfAppend
      <4>. QED
        BY <4>1, <4>3 DEF SeenBy
    <3>7. \A t \in Stream : t # s => SeenBy(t)' = SeenBy(t)
      BY <2>4 DEF Forward, SeenBy
    <3>. HIDE DEF e
    <3>8. Seen' = [Seen EXCEPT ![s] = e]
      BY <3>6, <3>7
    <3>9. /\ UNCHANGED <<published, closing, subscribers>>
          /\ e \in (Seen[s] + 1)..published
      BY <2>4, <3>5 DEF Forward
    <3>. QED
      BY <3>1, <3>8, <3>9 DEF Fanout!Show
  <2>5. ASSUME NEW s \in Stream, TakeStop(s) \/ NoticeHangUp(s) PROVE Fanout!Leave(s)
    <3>1. s \in subscribers
      BY <2>5 DEF TakeStop, NoticeHangUp, SubscribersRun
    <3>2. Seen' = Seen
      BY <2>5 DEF TakeStop, NoticeHangUp, Release, SeenBy
    <3>. QED
      BY <2>5, <3>1, <3>2 DEF TakeStop, NoticeHangUp, Release, Fanout!Leave
  <2>6. ASSUME NEW s \in Stream, Prime(s) \/ HangUp(s) PROVE UNCHANGED Fanout!vars
    BY <2>6 DEF Prime, HangUp, SeenBy, Fanout!vars
  <2>7. CASE UNCHANGED vars
    BY <2>7 DEF vars, SeenBy, Fanout!vars
  <2>. QED
    BY <2>1, <2>2, <2>3, <2>4, <2>5, <2>6, <2>7 DEF Next, Fanout!Next
<1>. QED
  BY Invariance, <1>1, <1>2, PTL DEF SafeSpec, Fanout!SafeSpec
==============================================================================
