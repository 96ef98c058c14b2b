-------------------------- MODULE LiveUpdates_proof --------------------------
(***************************************************************************)
(* The wall's one connection, for any sockets, any timer handles and any   *)
(* delays that the assumption on the constants allows; and the look that   *)
(* the wall follows over it, for any number of changes, frames and         *)
(* refreshes (BehaviorSync).                                               *)
(***************************************************************************)
EXTENDS LiveUpdates, BehaviorSync, FiniteSetTheorems, TLAPS

Fields ==
    /\ source \in Socket \cup {None}
    /\ retryTimer \in Timer \cup {None} /\ watchdog \in Timer \cup {None}
    /\ live \in BOOLEAN /\ stopped \in BOOLEAN /\ failing \in BOOLEAN
    /\ polling \in BOOLEAN /\ healthy \in BOOLEAN

Numbers ==
    /\ attempt \in 0..MaxStep
    /\ calm \in 0..(RecoveryTime + 1)
    /\ silence \in 0..(HeartbeatTimeout + 1)

Flags == Fields /\ Numbers

\* The clock of recovery runs for a client that runs while the server is healthy; a
\* live wall does not poll.
Counts ==
    /\ stopped \/ ~healthy => calm = 0
    /\ live => ~polling

\* A client that gave its socket up holds the one timer of its retry, and polls.
Waiting(n) ==
    /\ failing /\ polling /\ source = None /\ sockets = {}
    /\ retryTimer \in Timer
    /\ n \in 0..RetryMax
    /\ timers = {Timeout(retryTimer, "retry", n)}
    /\ healthy => calm + n <= HeartbeatTimeout + RetryMax

\* A client with a socket holds the one watchdog of that socket.  Heartbeats come
\* before the watchdog does, and the first one while there is time.  A socket that
\* an unhealthy server dropped lasts no longer than its watchdog.
Watched(d, n) ==
    /\ ~failing /\ source \in Socket /\ watchdog \in Timer
    /\ d \in {Mute} \cup 0..HeartbeatEvery
    /\ n \in 0..HeartbeatTimeout
    /\ sockets = {[id |-> source, due |-> d]}
    /\ timers = {Timeout(watchdog, "watchdog", n)}
    /\ ~polling => silence + n <= HeartbeatTimeout
    /\ d # Mute => healthy /\ d < n /\ (live \/ calm + d <= RecoveryTime)
    /\ d = Mute /\ healthy => calm + n <= HeartbeatTimeout

Connected == \E d \in Int, n \in Nat : Watched(d, n)
Retrying  == \E n \in Nat : Waiting(n)

Stopped == source = None /\ sockets = {} /\ timers = {}

\* What a client hangs by.
Lifeline ==
    IF stopped THEN Stopped ELSE Retrying \/ Connected

IndInv == Flags /\ Counts /\ Lifeline

------------------------------------------------------------------------------
LEMMA ConstantsAreNumbers ==
    /\ HeartbeatTimeout \in Nat /\ HeartbeatEvery \in Nat /\ RetryMax \in Nat
    /\ HeartbeatEvery > 0 /\ HeartbeatEvery < HeartbeatTimeout
    /\ RecoveryTime \in Nat /\ RecoveryTime = HeartbeatTimeout + RetryMax + HeartbeatEvery
  BY ConstantsAssumption DEF RecoveryTime

\* The delay of a retry is a number, and never above the ceiling.
LEMMA DelayIsBounded ==
  ASSUME NEW n \in 0..MaxStep
  PROVE  nextReconnectDelay(n) \in 0..RetryMax
<1>1. Smaller(n, MaxStep) = n
  BY DEF Smaller, MaxStep
<1>2. 2^n \in Nat
  <2>1. /\ 2^0 \in Nat /\ 2^1 \in Nat /\ 2^2 \in Nat /\ 2^3 \in Nat /\ 2^4 \in Nat
        /\ 2^5 \in Nat /\ 2^6 \in Nat /\ 2^7 \in Nat /\ 2^8 \in Nat /\ 2^9 \in Nat
        /\ 2^10 \in Nat
    OBVIOUS
  <2>2. \/ n = 0 \/ n = 1 \/ n = 2 \/ n = 3 \/ n = 4 \/ n = 5
        \/ n = 6 \/ n = 7 \/ n = 8 \/ n = 9 \/ n = 10
    BY DEF MaxStep
  <2>. QED
    BY <2>1, <2>2, Zenon
<1>. DEFINE p == 2^n
<1>3. p \in Nat
  BY <1>2
<1>. HIDE DEF p
<1>4. RetryBase * p \in Nat
  BY <1>3, ConstantsAssumption
<1>. DEFINE q == RetryBase * p
<1>5. q \in Nat
  BY <1>4
<1>6. nextReconnectDelay(n) = Smaller(RetryMax, q)
  BY <1>1 DEF nextReconnectDelay, p
<1>. HIDE DEF q
<1>. QED
  BY <1>5, <1>6, ConstantsAssumption DEF Smaller

\* Counting failures stops at MaxStep.
LEMMA AttemptsAreCounted ==
  ASSUME NEW n \in 0..MaxStep
  PROVE  Smaller(n + 1, MaxStep) \in 0..MaxStep
  BY DEF Smaller, MaxStep

\* Giving up leaves one retry timer and nothing else.
LEMMA GiveUpWaits ==
  ASSUME Flags, NEW ts, NEW n \in 0..MaxStep, GiveUp(ts, n),
         \A c \in sockets : c.id = source,
         \A t \in ts : t.handle = watchdog,
         calm' \in Nat, healthy' => calm' <= HeartbeatTimeout
  PROVE  /\ Retrying'
         /\ source' = None /\ retryTimer' \in Timer /\ watchdog' = None
         /\ attempt' \in 0..MaxStep /\ failing' = TRUE
         /\ live' = FALSE /\ polling' = TRUE
<1>1. PICK h \in Unused :
          /\ failing' = TRUE /\ live' = FALSE /\ source' = None /\ watchdog' = None
          /\ sockets' = Closed(source) /\ polling' = TRUE /\ retryTimer' = h
          /\ timers' = Without(ts, watchdog) \cup {Timeout(h, "retry", nextReconnectDelay(n))}
          /\ attempt' = Smaller(n + 1, MaxStep)
  BY DEF GiveUp
<1>2. h \in Timer
  BY DEF Unused
<1>3. sockets' = {}
  BY <1>1 DEF Closed
<1>4. timers' = {Timeout(retryTimer', "retry", nextReconnectDelay(n))}
  BY <1>1 DEF Without
<1>5. nextReconnectDelay(n) \in 0..RetryMax
  BY DelayIsBounded
<1>6. Waiting(nextReconnectDelay(n))'
  BY <1>1, <1>2, <1>3, <1>4, <1>5, ConstantsAreNumbers DEF Waiting
<1>7. nextReconnectDelay(n) \in Nat
  BY <1>5, ConstantsAreNumbers
<1>. QED
  BY <1>1, <1>2, <1>6, <1>7, AttemptsAreCounted DEF Retrying

\* A new socket comes with its watchdog and nothing else.
LEMMA OpenWatches ==
  ASSUME Flags, NEW ts, NEW n \in 0..MaxStep, Open(ts, n), healthy' = healthy,
         \A c \in sockets : c.id = source,
         \A t \in ts : t.handle = watchdog,
         polling \/ silence' = 0,
         calm' \in Nat, healthy' => calm' <= HeartbeatTimeout + RetryMax
  PROVE  /\ Connected'
         /\ source' \in Socket /\ watchdog' \in Timer /\ retryTimer' = retryTimer
         /\ attempt' \in 0..MaxStep /\ failing' = FALSE
         /\ live' \in BOOLEAN /\ (live' => live) /\ polling' = polling
<1>1. PICK k \in Socket \ {c.id : c \in sockets}, h \in Unused :
          /\ source' = k
          /\ sockets' = Closed(source) \cup {[id |-> k, due |-> NextBeat]}
          /\ watchdog' = h
          /\ timers' = Without(ts, watchdog) \cup {Timeout(h, "watchdog", HeartbeatTimeout)}
          /\ failing' = FALSE
          /\ live' = IF stopped THEN FALSE ELSE live
          /\ attempt' = n
          /\ UNCHANGED <<retryTimer, polling>>
  BY DEF Open
<1>2. h \in Timer
  BY DEF Unused
<1>3. PICK d \in {Mute, HeartbeatEvery} :
          /\ sockets' = {[id |-> source', due |-> d]}
          /\ d # Mute => d = HeartbeatEvery /\ healthy
          /\ d = Mute => ~healthy
  <2>1. sockets' = {[id |-> source', due |-> NextBeat]}
    BY <1>1 DEF Closed
  <2>2. HeartbeatEvery # Mute
    BY ConstantsAreNumbers DEF Mute
  <2>. QED
    BY <2>1, <2>2 DEF NextBeat
<1>4. timers' = {Timeout(watchdog', "watchdog", HeartbeatTimeout)}
  BY <1>1 DEF Without
<1>5. /\ d # Mute => healthy' /\ d < HeartbeatTimeout /\ (live' \/ calm' + d <= RecoveryTime)
      /\ d = Mute /\ healthy' => calm' + HeartbeatTimeout <= HeartbeatTimeout
      /\ ~polling' => silence' + HeartbeatTimeout <= HeartbeatTimeout
  <2>1. polling' = polling
    BY <1>1
  <2>2. ASSUME d # Mute
        PROVE  healthy' /\ d < HeartbeatTimeout /\ calm' + d <= RecoveryTime
    <3>1. healthy' /\ d = HeartbeatEvery
      BY <1>3, <2>2
    <3>2. PICK c \in Nat : c = calm'
      OBVIOUS
    <3>3. c <= HeartbeatTimeout + RetryMax
      BY <3>1, <3>2, Zenon
    <3>4. c + d <= RecoveryTime /\ d < HeartbeatTimeout
      BY <3>1, <3>3, ConstantsAreNumbers
    <3>. QED
      BY <3>1, <3>2, <3>4, Zenon
  <2>3. d = Mute /\ healthy' => calm' + HeartbeatTimeout <= HeartbeatTimeout
    BY <1>3
  <2>4. ~polling' => silence' + HeartbeatTimeout <= HeartbeatTimeout
    BY <2>1, ConstantsAreNumbers
  <2>. QED
    BY <2>2, <2>3, <2>4
<1>6. d \in Int /\ d \in {Mute} \cup 0..HeartbeatEvery
  BY ConstantsAreNumbers DEF Mute
<1>7. Watched(d, HeartbeatTimeout)'
  <2>1. ~failing' /\ source' \in Socket /\ watchdog' \in Timer
    BY <1>1, <1>2
  <2>2. sockets' = {[id |-> source', due |-> d]}
    BY <1>3
  <2>3. HeartbeatTimeout \in 0..HeartbeatTimeout
    BY ConstantsAreNumbers
  <2>. QED
    BY <2>1, <2>2, <2>3, <1>4, <1>5, <1>6, Zenon DEF Watched
<1>8. Connected'
  BY <1>6, <1>7, ConstantsAreNumbers DEF Connected
<1>. QED
  BY <1>1, <1>2, <1>8 DEF Flags, Fields, Numbers

------------------------------------------------------------------------------
\* The client starts stopped, with nothing.
LEMMA InitIndInv == LinkInit => IndInv
<1>. SUFFICES ASSUME LinkInit PROVE IndInv
  OBVIOUS
<1>1. Flags
  <2>1. Fields
    BY DEF LinkInit, Fields
  <2>2. Numbers
    BY ConstantsAreNumbers DEF LinkInit, MaxStep, Numbers
  <2>. QED
    BY <2>1, <2>2 DEF Flags
<1>2. Counts /\ Lifeline
  BY DEF LinkInit, Counts, Lifeline, Stopped
<1>. QED
  BY <1>1, <1>2 DEF IndInv

\* A socket is the one in use, of a client that runs, and a timer is the one of its job.
LEMMA SocketIsWatched ==
  ASSUME IndInv, NEW c \in sockets
  PROVE  ~stopped /\ c.id = source /\ \E n \in Nat : c.due \in Int /\ Watched(c.due, n)
<1>1. ~stopped /\ ~Retrying
  BY DEF IndInv, Lifeline, Stopped, Retrying, Waiting
<1>2. PICK d \in Int, n \in Nat : Watched(d, n)
  BY <1>1 DEF IndInv, Lifeline, Connected
<1>3. c = [id |-> source, due |-> d]
  BY <1>2 DEF Watched
<1>. QED
  BY <1>1, <1>2, <1>3

LEMMA TimerIsOfItsJob ==
  ASSUME IndInv, NEW t \in timers
  PROVE  /\ ~stopped /\ timers = {t}
         /\ t.job = "watchdog" => \E d \in Int : Watched(d, t.left)
         /\ t.job = "retry" => Waiting(t.left)
         /\ t.handle = IF t.job = "retry" THEN retryTimer ELSE watchdog
<1>1. ~stopped
  BY DEF IndInv, Lifeline, Stopped
<1>2. CASE Retrying
  <2>1. PICK n \in Nat : Waiting(n)
    BY <1>2 DEF Retrying
  <2>2. timers = {t} /\ t = Timeout(retryTimer, "retry", n)
    BY <2>1 DEF Waiting
  <2>. QED
    BY <1>1, <2>1, <2>2 DEF Timeout
<1>3. CASE Connected
  <2>1. PICK d \in Int, n \in Nat : Watched(d, n)
    BY <1>3 DEF Connected
  <2>2. timers = {t} /\ t = Timeout(watchdog, "watchdog", n)
    BY <2>1 DEF Watched
  <2>. QED
    BY <1>1, <2>1, <2>2 DEF Timeout
<1>. QED
  BY <1>1, <1>2, <1>3 DEF IndInv, Lifeline

\* start() on a stopped client, and the retry callback, connect or give up again.
LEMMA StartKeeps == IndInv /\ Start => IndInv'
<1>. SUFFICES ASSUME IndInv, Start PROVE IndInv'
  OBVIOUS
<1>1. stopped /\ Stopped /\ Flags /\ Counts
  BY DEF Start, IndInv, Lifeline
<1>2. /\ stopped' = FALSE /\ calm' = 0 /\ silence' = 0 /\ healthy' = healthy
      /\ connect(timers, 0)
  BY DEF Start
<1>3. sockets = {} /\ timers = {}
  BY <1>1 DEF Stopped
<1>4. 0 \in 0..MaxStep
  BY DEF MaxStep
<1>5. CASE Open(timers, 0)
  <2>1. live' = FALSE
    BY <1>1, <1>5 DEF Open
  <2>2. /\ Connected'
        /\ source' \in Socket /\ watchdog' \in Timer /\ retryTimer' = retryTimer
        /\ attempt' \in 0..MaxStep /\ failing' = FALSE /\ polling' = polling
    <3>1. /\ \A c \in sockets : c.id = source
          /\ \A t \in timers : t.handle = watchdog
      BY <1>3
    <3>2. calm' \in Nat /\ calm' <= HeartbeatTimeout + RetryMax
      BY <1>2, ConstantsAreNumbers
    <3>. QED
      BY <1>1, <1>2, <1>4, <1>5, <3>1, <3>2, OpenWatches
  <2>3. Flags'
    <3>1. Fields'
      BY <1>1, <1>2, <2>1, <2>2 DEF Flags, Fields
    <3>2. Numbers'
      BY <1>1, <1>2, <2>1, <2>2, ConstantsAreNumbers DEF MaxStep, Flags, Numbers
    <3>. QED
      BY <3>1, <3>2 DEF Flags
  <2>. QED
    BY <1>2, <2>1, <2>2, <2>3 DEF IndInv, Counts, Lifeline
<1>6. CASE GiveUp(timers, 0)
  <2>1. /\ Retrying'
        /\ source' = None /\ retryTimer' \in Timer /\ watchdog' = None
        /\ attempt' \in 0..MaxStep /\ failing' = TRUE /\ live' = FALSE /\ polling' = TRUE
    <3>1. /\ \A c \in sockets : c.id = source
          /\ \A t \in timers : t.handle = watchdog
      BY <1>3
    <3>2. calm' \in Nat /\ calm' <= HeartbeatTimeout
      BY <1>2, ConstantsAreNumbers
    <3>. QED
      BY <1>1, <1>4, <1>6, <3>1, <3>2, GiveUpWaits
  <2>2. Flags'
    <3>1. Fields'
      BY <1>1, <1>2, <2>1 DEF Flags, Fields
    <3>2. Numbers'
      BY <1>1, <1>2, <2>1, ConstantsAreNumbers DEF MaxStep, Flags, Numbers
    <3>. QED
      BY <3>1, <3>2 DEF Flags
  <2>. QED
    BY <1>2, <2>1, <2>2 DEF IndInv, Counts, Lifeline
<1>. QED
  BY <1>2, <1>5, <1>6 DEF connect

LEMMA RetryKeeps == \A t \in timers : IndInv /\ RetryFires(t) => IndInv'
<1>. SUFFICES ASSUME NEW t \in timers, IndInv, RetryFires(t) PROVE IndInv'
  OBVIOUS
<1>1. /\ ~stopped /\ timers = {t} /\ Waiting(0) /\ Flags /\ Counts
  BY TimerIsOfItsJob DEF RetryFires, IndInv
<1>2. UNCHANGED <<stopped, healthy, calm, silence>>
  BY DEF RetryFires
<1>. DEFINE none == timers \ {t}
<1>8. none = {}
  BY <1>1
<1>9. connect(none, attempt)
  BY <1>1 DEF RetryFires
<1>. HIDE DEF none
<1>3. /\ sockets = {} /\ polling /\ ~live /\ attempt \in 0..MaxStep /\ calm \in Nat
      /\ healthy => calm <= HeartbeatTimeout + RetryMax
  BY <1>1, ConstantsAreNumbers DEF Waiting, Counts, Flags, Fields, Numbers
<1>4. CASE Open(none, attempt)
  <2>1. /\ Connected'
        /\ source' \in Socket /\ watchdog' \in Timer /\ retryTimer' = retryTimer
        /\ attempt' \in 0..MaxStep /\ failing' = FALSE
        /\ live' \in BOOLEAN /\ (live' => live) /\ polling' = polling
    <3>1. /\ \A c \in sockets : c.id = source
          /\ \A x \in none : x.handle = watchdog
      BY <1>3, <1>8
    <3>2. healthy' = healthy /\ calm' \in Nat /\ (healthy' => calm' <= HeartbeatTimeout + RetryMax)
      BY <1>2, <1>3
    <3>. QED
      BY <1>1, <1>3, <1>4, <3>1, <3>2, OpenWatches
  <2>2. Flags'
    <3>1. Fields'
      BY <1>1, <1>2, <2>1 DEF Flags, Fields
    <3>2. Numbers'
      BY <1>1, <1>2, <2>1, ConstantsAreNumbers DEF MaxStep, Flags, Numbers
    <3>. QED
      BY <3>1, <3>2 DEF Flags
  <2>. QED
    BY <1>1, <1>2, <1>3, <2>1, <2>2 DEF IndInv, Counts, Lifeline
<1>5. CASE ~healthy /\ GiveUp(none, attempt)
  <2>1. /\ Retrying'
        /\ source' = None /\ retryTimer' \in Timer /\ watchdog' = None
        /\ attempt' \in 0..MaxStep /\ failing' = TRUE /\ live' = FALSE /\ polling' = TRUE
    <3>1. /\ \A c \in sockets : c.id = source
          /\ \A x \in none : x.handle = watchdog
      BY <1>3, <1>8
    <3>2. calm' \in Nat /\ ~healthy'
      BY <1>2, <1>3, <1>5
    <3>. QED
      BY <1>1, <1>3, <1>5, <3>1, <3>2, GiveUpWaits
  <2>2. Flags'
    <3>1. Fields'
      BY <1>1, <1>2, <2>1 DEF Flags, Fields
    <3>2. Numbers'
      BY <1>1, <1>2, <2>1, ConstantsAreNumbers DEF MaxStep, Flags, Numbers
    <3>. QED
      BY <3>1, <3>2 DEF Flags
  <2>. QED
    BY <1>1, <1>2, <2>1, <2>2 DEF IndInv, Counts, Lifeline
<1>. QED
  BY <1>4, <1>5, <1>9 DEF connect

\* A client that holds a dropped socket gives it up when it hears of the error, or
\* when the watchdog fires; a socket that gets its heartbeats is never given up.
LEMMA FailKeeps ==
  ASSUME IndInv, NEW ts, ts \subseteq timers, fail(ts),
         NEW n \in Nat, ~stopped, Watched(Mute, n)
  PROVE  IndInv'
<1>1. /\ UNCHANGED <<stopped, healthy, calm, silence>>
      /\ GiveUp(ts, attempt)
  BY DEF fail, Watched
<1>2. /\ Flags /\ Counts /\ attempt \in 0..MaxStep /\ calm \in Nat
      /\ \A c \in sockets : c.id = source
      /\ \A t \in ts : t.handle = watchdog
      /\ healthy => calm <= HeartbeatTimeout
  BY ConstantsAreNumbers DEF IndInv, Flags, Fields, Numbers, Watched, Timeout
<1>3. /\ Retrying'
      /\ source' = None /\ retryTimer' \in Timer /\ watchdog' = None
      /\ attempt' \in 0..MaxStep /\ failing' = TRUE /\ live' = FALSE /\ polling' = TRUE
  BY <1>1, <1>2, GiveUpWaits
<1>4. Flags'
  <2>1. Fields'
    BY <1>1, <1>2, <1>3 DEF Flags, Fields
  <2>2. Numbers'
    BY <1>1, <1>2, <1>3, ConstantsAreNumbers DEF MaxStep, Flags, Numbers
  <2>. QED
    BY <2>1, <2>2 DEF Flags
<1>. QED
  BY <1>1, <1>2, <1>3, <1>4 DEF IndInv, Counts, Lifeline

LEMMA SocketErrorKeeps == \A c \in sockets : IndInv /\ SocketError(c) => IndInv'
<1>. SUFFICES ASSUME NEW c \in sockets, IndInv, SocketError(c) PROVE IndInv'
  OBVIOUS
<1>1. ~stopped /\ \E n \in Nat : Watched(c.due, n)
  BY SocketIsWatched
<1>. QED
  BY <1>1, FailKeeps DEF SocketError

LEMMA WatchdogKeeps == \A t \in timers : IndInv /\ WatchdogFires(t) => IndInv'
<1>. SUFFICES ASSUME NEW t \in timers, IndInv, WatchdogFires(t) PROVE IndInv'
  OBVIOUS
<1>1. ~stopped /\ t.left = 0 /\ fail(timers \ {t})
  BY TimerIsOfItsJob DEF WatchdogFires
<1>2. PICK d \in Int : Watched(d, 0)
  BY <1>1, TimerIsOfItsJob DEF WatchdogFires
<1>3. d = Mute
  BY <1>2, ConstantsAreNumbers DEF Watched
<1>. QED
  BY <1>1, <1>2, <1>3, FailKeeps

LEMMA StopKeeps == IndInv /\ Stop => IndInv'
<1>. SUFFICES ASSUME IndInv, Stop PROVE IndInv'
  OBVIOUS
<1>1. sockets' = {}
  BY SocketIsWatched DEF Stop, Closed
<1>2. timers' = {}
  BY TimerIsOfItsJob DEF Stop, Without
<1>3. Flags'
  <2>1. Fields'
    BY DEF IndInv, Stop, Flags, Fields
  <2>2. Numbers'
    BY ConstantsAreNumbers DEF IndInv, Stop, MaxStep, Flags, Numbers
  <2>. QED
    BY <2>1, <2>2 DEF Flags
<1>. QED
  BY <1>1, <1>2, <1>3 DEF IndInv, Counts, Lifeline, Stopped, Stop

LEMMA FrameKeeps == \A c \in sockets : IndInv /\ Frame(c) => IndInv'
<1>. SUFFICES ASSUME NEW c \in sockets, IndInv, Frame(c) PROVE IndInv'
  OBVIOUS
<1>1. PICK n \in Nat : ~stopped /\ c.id = source /\ Watched(c.due, n)
  BY SocketIsWatched
<1>2. PICK h \in Unused :
          /\ watchdog' = h
          /\ timers' = Without(timers, watchdog) \cup {Timeout(h, "watchdog", HeartbeatTimeout)}
  BY DEF Frame
<1>3. h \in Timer
  BY DEF Unused
<1>4. timers' = {Timeout(watchdog', "watchdog", HeartbeatTimeout)}
  BY <1>1, <1>2 DEF Without, Watched, Timeout
<1>5. sockets' = {[id |-> source', due |-> HeartbeatEvery]}
  <2>1. c = [id |-> source, due |-> c.due] /\ sockets = {c}
    BY <1>1 DEF Watched
  <2>2. [c EXCEPT !.due = HeartbeatEvery] = [id |-> source, due |-> HeartbeatEvery]
    BY <2>1
  <2>. QED
    BY <2>1, <2>2 DEF Frame
<1>6. /\ healthy' = healthy /\ healthy /\ stopped' = stopped /\ failing' = failing
      /\ source' = source /\ live' = TRUE /\ polling' = FALSE /\ silence' = 0 /\ calm' = calm
      /\ retryTimer' = retryTimer /\ attempt' = 0
  BY <1>1 DEF Frame, Watched, IndInv, Counts, Flags, Fields, Numbers
<1>7. Flags'
  <2>1. Fields'
    BY <1>2, <1>3, <1>6 DEF IndInv, MaxStep, Flags, Fields
  <2>2. Numbers'
    BY <1>2, <1>3, <1>6, ConstantsAreNumbers DEF IndInv, MaxStep, Flags, Numbers
  <2>. QED
    BY <2>1, <2>2 DEF Flags
<1>8. Watched(HeartbeatEvery, HeartbeatTimeout)'
  <2>1. ~failing' /\ source' \in Socket /\ watchdog' \in Timer
    BY <1>1, <1>2, <1>3, <1>6 DEF Watched
  <2>. QED
    BY <1>4, <1>5, <1>6, <2>1, ConstantsAreNumbers DEF Watched, Mute
<1>9. Connected'
  BY <1>8, ConstantsAreNumbers DEF Connected
<1>. QED
  BY <1>1, <1>6, <1>7, <1>9 DEF IndInv, Counts, Lifeline

\* When the server falls silent, so does the socket; when it is back, the clock of
\* recovery begins.
LEMMA GoSilentKeeps == IndInv /\ GoSilent => IndInv'
<1>. SUFFICES ASSUME IndInv, GoSilent PROVE IndInv'
  OBVIOUS
<1>1. Flags' /\ Counts'
  <2>1. Fields' /\ Counts'
    BY DEF IndInv, Flags, Fields, Counts, GoSilent, client
  <2>2. Numbers'
    BY ConstantsAreNumbers DEF IndInv, Flags, Numbers, GoSilent, client
  <2>. QED
    BY <2>1, <2>2 DEF Flags
<1>2. CASE stopped
  BY <1>1, <1>2 DEF IndInv, Lifeline, Stopped, GoSilent, client
<1>3. ASSUME ~stopped, NEW n \in Nat, Waiting(n) PROVE Lifeline'
  <2>1. Waiting(n)'
    BY <1>3, ConstantsAreNumbers DEF Waiting, GoSilent, client
  <2>. QED
    BY <1>3, <2>1 DEF Lifeline, Retrying, GoSilent, client
<1>4. ASSUME ~stopped, NEW d \in Int, NEW n \in Nat, Watched(d, n) PROVE Lifeline'
  <2>1. sockets' = {[id |-> source', due |-> Mute]}
    BY <1>4 DEF Watched, GoSilent, client
  <2>2. Watched(Mute, n)'
    BY <1>4, <2>1 DEF Watched, GoSilent, client
  <2>3. Mute \in Int
    BY DEF Mute
  <2>. QED
    BY <1>4, <2>2, <2>3 DEF Lifeline, Connected, GoSilent, client
<1>. QED
  BY <1>1, <1>2, <1>3, <1>4 DEF IndInv, Lifeline, Retrying, Connected

LEMMA GoHealthyKeeps == IndInv /\ GoHealthy => IndInv'
<1>. SUFFICES ASSUME IndInv, GoHealthy PROVE IndInv'
  OBVIOUS
<1>0. calm = 0
  BY DEF IndInv, Counts, GoHealthy
<1>1. Flags' /\ Counts'
  BY <1>0 DEF IndInv, Flags, Fields, Numbers, Counts, GoHealthy, client
<1>2. CASE stopped
  BY <1>1, <1>2 DEF IndInv, Lifeline, Stopped, GoHealthy, client, world
<1>3. ASSUME ~stopped, NEW n \in Nat, Waiting(n) PROVE Lifeline'
  <2>1. Waiting(n)'
    BY <1>0, <1>3, ConstantsAreNumbers DEF Waiting, GoHealthy, client, world
  <2>. QED
    BY <1>3, <2>1 DEF Lifeline, Retrying, GoHealthy, client
<1>4. ASSUME ~stopped, NEW d \in Int, NEW n \in Nat, Watched(d, n) PROVE Lifeline'
  <2>1. Watched(d, n)'
    BY <1>0, <1>4, ConstantsAreNumbers DEF Watched, GoHealthy, client, world
  <2>. QED
    BY <1>4, <2>1 DEF Lifeline, Connected, GoHealthy, client
<1>. QED
  BY <1>1, <1>2, <1>3, <1>4 DEF IndInv, Lifeline, Retrying, Connected

\* No timer and no heartbeat that is due is passed over.
LEMMA OneTickLater ==
  ASSUME NEW a \in Nat, NEW b \in Nat, NEW n \in Nat, NEW m \in Nat, a + n <= m, b <= a + 1
  PROVE  b + (n - 1) <= m
  OBVIOUS

LEMMA TickKeeps == IndInv /\ Tick => IndInv'
<1>. SUFFICES ASSUME IndInv, Tick PROVE IndInv'
  OBVIOUS
<1>1. /\ calm' \in 0..(RecoveryTime + 1) /\ calm' <= calm + 1
      /\ (stopped \/ ~healthy) => calm' = 0
      /\ silence' \in 0..(HeartbeatTimeout + 1) /\ silence' <= silence + 1
  BY ConstantsAreNumbers DEF IndInv, Flags, Fields, Numbers, Tick, Smaller
<1>2. /\ UNCHANGED <<source, retryTimer, watchdog, attempt, live, stopped, failing, polling, healthy>>
  BY DEF Tick, client
<1>3. Flags' /\ Counts'
  BY <1>1, <1>2 DEF IndInv, Flags, Fields, Numbers, Counts
<1>4. CASE stopped
  BY <1>2, <1>3, <1>4 DEF IndInv, Lifeline, Stopped, Tick
<1>5. ASSUME ~stopped, NEW n \in Nat, Waiting(n) PROVE Lifeline'
  <2>1. n > 0
    BY <1>5 DEF Waiting, Tick, Timeout
  <2>2. sockets' = {} /\ timers' = {Timeout(retryTimer, "retry", n - 1)}
    BY <1>5 DEF Waiting, Tick, Timeout
  <2>3. calm \in Nat /\ calm' \in Nat
    BY <1>1, ConstantsAreNumbers DEF IndInv, Flags, Numbers
  <2>4. healthy' => calm' + (n - 1) <= HeartbeatTimeout + RetryMax
    <3>1. healthy' => calm + n <= HeartbeatTimeout + RetryMax
      BY <1>2, <1>5 DEF Waiting
    <3>2. calm' <= calm + 1
      BY <1>1
    <3>3. HeartbeatTimeout + RetryMax \in Nat
      BY ConstantsAreNumbers
    <3>. SUFFICES ASSUME healthy' PROVE calm' + (n - 1) <= HeartbeatTimeout + RetryMax
      OBVIOUS
    <3>4. calm + n <= HeartbeatTimeout + RetryMax
      BY <3>1
    <3>. QED
      BY <2>3, <3>2, <3>3, <3>4, OneTickLater
  <2>5. n - 1 \in 0..RetryMax
    BY <1>5, <2>1, ConstantsAreNumbers DEF Waiting
  <2>6. Waiting(n - 1)'
    BY <1>2, <1>5, <2>2, <2>4, <2>5 DEF Waiting
  <2>. QED
    BY <1>2, <1>5, <2>1, <2>6 DEF Lifeline, Retrying
<1>6. ASSUME ~stopped, NEW d \in Int, NEW n \in Nat, Watched(d, n) PROVE Lifeline'
  <2>1. n > 0 /\ d # 0
    BY <1>6 DEF Watched, Tick, Timeout
  <2>. DEFINE e == IF d = Mute THEN Mute ELSE d - 1
  <2>2. timers' = {Timeout(watchdog, "watchdog", n - 1)}
    BY <1>6 DEF Watched, Tick, Timeout
  <2>3. sockets' = {[id |-> source, due |-> e]}
    BY <1>6 DEF Watched, Tick
  <2>4. /\ e \in Int /\ e \in {Mute} \cup 0..HeartbeatEvery
        /\ e = Mute <=> d = Mute
        /\ e # Mute => e = d - 1
    BY <1>6, <2>1, ConstantsAreNumbers DEF Watched, Mute
  <2>. HIDE DEF e
  <2>5. /\ e # Mute => healthy' /\ e < n - 1 /\ (live' \/ calm' + e <= RecoveryTime)
        /\ e = Mute /\ healthy' => calm' + (n - 1) <= HeartbeatTimeout
        /\ ~polling' => silence' + (n - 1) <= HeartbeatTimeout
    <3>1. calm \in Nat /\ calm' \in Nat /\ silence \in Nat /\ silence' \in Nat
      BY <1>1, ConstantsAreNumbers DEF IndInv, Flags, Numbers
    <3>5. calm' <= calm + 1 /\ silence' <= silence + 1
      BY <1>1
    <3>2. e # Mute => healthy' /\ e < n - 1 /\ (live' \/ calm' + e <= RecoveryTime)
      <4>1. d # Mute => healthy' /\ d < n /\ (live' \/ calm + d <= RecoveryTime)
        BY <1>2, <1>6 DEF Watched
      <4>. SUFFICES ASSUME e # Mute
                    PROVE  healthy' /\ e < n - 1 /\ (live' \/ calm' + e <= RecoveryTime)
        OBVIOUS
      <4>2. d # Mute /\ e = d - 1 /\ d \in Nat
        BY <1>6, <2>4 DEF Watched
      <4>3. d < n
        BY <4>1, <4>2
      <4>4. e < n - 1
        BY <4>2, <4>3
      <4>5. ASSUME ~live' PROVE calm' + e <= RecoveryTime
        <5>1. calm + d <= RecoveryTime
          BY <4>1, <4>2, <4>5
        <5>. QED
          BY <3>1, <3>5, <4>2, <5>1, ConstantsAreNumbers, OneTickLater
      <4>. QED
        BY <4>1, <4>2, <4>4, <4>5
    <3>3. e = Mute /\ healthy' => calm' + (n - 1) <= HeartbeatTimeout
      <4>1. d = Mute /\ healthy' => calm + n <= HeartbeatTimeout
        BY <1>2, <1>6 DEF Watched
      <4>. SUFFICES ASSUME e = Mute, healthy' PROVE calm' + (n - 1) <= HeartbeatTimeout
        OBVIOUS
      <4>2. calm + n <= HeartbeatTimeout
        BY <2>4, <4>1
      <4>. QED
        BY <3>1, <3>5, <4>2, ConstantsAreNumbers, OneTickLater
    <3>4. ~polling' => silence' + (n - 1) <= HeartbeatTimeout
      <4>1. ~polling' => silence + n <= HeartbeatTimeout
        BY <1>2, <1>6 DEF Watched
      <4>. SUFFICES ASSUME ~polling' PROVE silence' + (n - 1) <= HeartbeatTimeout
        OBVIOUS
      <4>2. silence + n <= HeartbeatTimeout
        BY <4>1
      <4>. QED
        BY <3>1, <3>5, <4>2, ConstantsAreNumbers, OneTickLater
    <3>. QED
      BY <3>2, <3>3, <3>4
  <2>6. Watched(e, n - 1)'
    BY <1>2, <1>6, <2>1, <2>2, <2>3, <2>4, <2>5, ConstantsAreNumbers DEF Watched
  <2>. QED
    BY <1>2, <1>6, <2>1, <2>4, <2>6 DEF Lifeline, Connected
<1>. QED
  BY <1>3, <1>4, <1>5, <1>6 DEF IndInv, Lifeline, Retrying, Connected

LEMMA Stutter == IndInv /\ UNCHANGED linkVars => IndInv'
  BY DEF IndInv, Flags, Fields, Numbers, Counts, Lifeline, Retrying, Connected, Waiting, Watched,
         Stopped, linkVars, client, world

\* IndInv is an inductive invariant.
LEMMA AlwaysIndInv == LinkSpec => []IndInv
<1>1. IndInv /\ [LinkNext]_linkVars => IndInv'
  BY StartKeeps, StopKeeps, GoSilentKeeps, GoHealthyKeeps, TickKeeps, FrameKeeps,
     SocketErrorKeeps, WatchdogKeeps, RetryKeeps, Stutter DEF LinkNext
<1>. QED
  BY InitIndInv, <1>1, PTL DEF LinkSpec

------------------------------------------------------------------------------
LEMMA LifelineIsOne == IndInv => OneLifeline
<1>. SUFFICES ASSUME IndInv PROVE OneLifeline
  OBVIOUS
<1>1. Fields /\ Numbers
  BY DEF IndInv, Flags
<1>2. \A c \in sockets : c.id = source /\ ~stopped
  BY SocketIsWatched
<1>3. \A t \in timers : ~stopped /\ t.handle = IF t.job = "retry" THEN retryTimer ELSE watchdog
  BY TimerIsOfItsJob
<1>4. sockets \subseteq [id : Socket, due : {Mute} \cup 0..HeartbeatEvery]
  <2>1. ASSUME NEW c \in sockets PROVE c \in [id : Socket, due : {Mute} \cup 0..HeartbeatEvery]
    <3>1. PICK n \in Nat : Watched(c.due, n)
      BY SocketIsWatched
    <3>2. c = [id |-> source, due |-> c.due]
      BY <3>1 DEF Watched
    <3>. QED
      BY <3>1, <3>2 DEF Watched
  <2>. QED
    BY <2>1
<1>5. timers \subseteq [handle : Timer, job : {"retry", "watchdog"}, left : Nat]
  <2>1. CASE stopped
    BY <1>3, <2>1
  <2>2. ASSUME NEW n \in Nat, Waiting(n) PROVE timers \subseteq [handle : Timer, job : {"retry", "watchdog"}, left : Nat]
    BY <2>2 DEF Waiting, Timeout
  <2>3. ASSUME NEW n \in Nat, NEW d \in Int, Watched(d, n)
        PROVE  timers \subseteq [handle : Timer, job : {"retry", "watchdog"}, left : Nat]
    BY <2>3 DEF Watched, Timeout
  <2>. QED
    BY <2>1, <2>2, <2>3 DEF IndInv, Lifeline, Retrying, Connected
<1>6. TypeOK
  BY <1>1, <1>4, <1>5 DEF Fields, Numbers, TypeOK
<1>7. NothingLeaks
  BY <1>2, <1>3 DEF NothingLeaks
<1>8. NeverStuck
  <2>. SUFFICES ASSUME ~stopped
                PROVE  /\ Cardinality(timers) = 1
                       /\ (source # None) <=> \E t \in timers : t.job = "watchdog"
                       /\ failing <=> \E t \in timers : t.job = "retry"
    BY DEF NeverStuck
  <2>1. ASSUME NEW n \in Nat, Waiting(n)
        PROVE  /\ Cardinality(timers) = 1
               /\ (source # None) <=> \E t \in timers : t.job = "watchdog"
               /\ failing <=> \E t \in timers : t.job = "retry"
    <3>. DEFINE r == [handle |-> retryTimer, job |-> "retry", left |-> n]
    <3>1. failing /\ source = None /\ timers = {r} /\ r.job = "retry"
      BY <2>1 DEF Waiting, Timeout
    <3>. HIDE DEF r
    <3>. QED
      BY <3>1, FS_Singleton
  <2>2. ASSUME NEW n \in Nat, NEW d \in Int, Watched(d, n)
        PROVE  /\ Cardinality(timers) = 1
               /\ (source # None) <=> \E t \in timers : t.job = "watchdog"
               /\ failing <=> \E t \in timers : t.job = "retry"
    <3>. DEFINE w == [handle |-> watchdog, job |-> "watchdog", left |-> n]
    <3>1. ~failing /\ source # None /\ timers = {w} /\ w.job = "watchdog"
      BY <2>2, ConstantsAssumption DEF Watched, Timeout
    <3>. HIDE DEF w
    <3>. QED
      BY <3>1, FS_Singleton
  <2>. QED
    BY <2>1, <2>2 DEF IndInv, Lifeline, Retrying, Connected
<1>. QED
  BY <1>6, <1>7, <1>8 DEF OneLifeline

\* Always, at most one socket and one timer, each remembered by its field, and a
\* client that runs has exactly one of a watched socket and a retry.
THEOREM LifelineHolds == LinkSpec => []OneLifeline
  BY AlwaysIndInv, LifelineIsOne, PTL

\* Always, a client that runs polls once nothing came for HeartbeatTimeout, and
\* while a retry is awaited, and never while it is live.
THEOREM WallIsNeverBlind == LinkSpec => []NeverBlind
<1>1. IndInv => NeverBlind
  <2>. SUFFICES ASSUME IndInv, ~stopped
                PROVE  /\ silence > HeartbeatTimeout => polling
                       /\ failing => polling
                       /\ live => ~polling
    BY DEF NeverBlind
  <2>1. live => ~polling
    BY DEF IndInv, Counts
  <2>2. CASE Retrying
    BY <2>1, <2>2 DEF Retrying, Waiting
  <2>3. ASSUME NEW n \in Nat, NEW d \in Int, Watched(d, n)
        PROVE  (silence > HeartbeatTimeout => polling) /\ (failing => polling)
    <3>1. silence \in Nat
      BY ConstantsAreNumbers DEF IndInv, Flags, Numbers
    <3>2. ASSUME ~polling PROVE ~(silence > HeartbeatTimeout)
      <4>1. silence + n <= HeartbeatTimeout
        BY <2>3, <3>2 DEF Watched
      <4>. QED
        BY <3>1, <4>1, ConstantsAreNumbers
    <3>. QED
      BY <2>3, <3>2 DEF Watched
  <2>. QED
    BY <2>1, <2>2, <2>3 DEF IndInv, Lifeline, Connected
<1>. QED
  BY <1>1, AlwaysIndInv, PTL

\* Always, once the server has been healthy for RecoveryTime the wall is live,
\* whatever the outage left behind: HeartbeatTimeout for a socket that is dead but
\* looks open, RetryMax for the longest delay, HeartbeatEvery for the first frame.
THEOREM WallRecoversInTime == LinkSpec => []RecoversInTime
<1>1. IndInv => RecoversInTime
  <2>. SUFFICES ASSUME IndInv, calm > RecoveryTime PROVE live
    BY DEF RecoversInTime
  <2>1. calm \in Nat
    BY ConstantsAreNumbers DEF IndInv, Flags, Numbers
  <2>2. ~stopped /\ healthy
    <3>1. calm # 0
      BY <2>1, ConstantsAreNumbers
    <3>. QED
      BY <3>1 DEF IndInv, Flags, Fields, Counts
  <2>3. ASSUME NEW n \in Nat, Waiting(n) PROVE FALSE
    <3>1. calm + n <= HeartbeatTimeout + RetryMax
      BY <2>2, <2>3 DEF Waiting
    <3>. QED
      BY <2>1, <3>1, ConstantsAreNumbers
  <2>4. ASSUME NEW n \in Nat, NEW d \in Int, Watched(d, n) PROVE live
    <3>1. CASE d = Mute
      <4>1. calm + n <= HeartbeatTimeout
        BY <2>2, <2>4, <3>1 DEF Watched
      <4>. QED
        BY <2>1, <4>1, ConstantsAreNumbers
    <3>2. CASE d # Mute
      <4>. SUFFICES ASSUME ~live PROVE FALSE
        OBVIOUS
      <4>1. calm + d <= RecoveryTime /\ d \in Nat
        BY <2>4, <3>2 DEF Watched
      <4>. QED
        BY <2>1, <4>1, ConstantsAreNumbers
    <3>. QED
      BY <3>1, <3>2
  <2>. QED
    BY <2>2, <2>3, <2>4 DEF IndInv, Lifeline, Retrying, Connected
<1>. QED
  BY <1>1, AlwaysIndInv, PTL

\* A step never closes a socket that still gets its heartbeats, unless the client is
\* stopped or the server falls silent.
THEOREM HealthyStreamStays == LinkSpec => HealthyStreamIsKept
<1>. DEFINE Kept == \A c \in sockets : c.due # Mute /\ healthy' /\ ~stopped' =>
                       \E d \in sockets' : d.id = c.id
<1>1. IndInv /\ LinkNext => Kept
  <2>. SUFFICES ASSUME IndInv, LinkNext, NEW c \in sockets, c.due # Mute, healthy', ~stopped'
                PROVE  \E d \in sockets' : d.id = c.id
    OBVIOUS
  <2>1. PICK n \in Nat : ~stopped /\ c.id = source /\ c.due \in Int /\ Watched(c.due, n)
    BY SocketIsWatched
  <2>2. /\ sockets = {c} /\ healthy /\ ~failing
        /\ n > 0
        /\ timers = {Timeout(watchdog, "watchdog", n)}
        /\ c = [id |-> source, due |-> c.due]
    BY <2>1, ConstantsAreNumbers DEF Watched, Mute
  <2>3. ~Start /\ ~Stop /\ ~GoSilent /\ ~GoHealthy
    BY <2>1, <2>2 DEF Start, Stop, GoSilent, GoHealthy
  <2>4. \A t \in timers : ~WatchdogFires(t) /\ ~RetryFires(t)
    BY <2>2 DEF WatchdogFires, RetryFires, Timeout
  <2>5. CASE Tick
    <3>. DEFINE d == [c EXCEPT !.due = IF @ = Mute THEN Mute ELSE @ - 1]
    <3>1. d \in sockets'
      BY <2>5 DEF Tick
    <3>2. d.id = c.id
      BY <2>2
    <3>. QED
      BY <3>1, <3>2
  <2>6. ASSUME NEW x \in sockets, Frame(x) PROVE \E d \in sockets' : d.id = c.id
    <3>. DEFINE d == [x EXCEPT !.due = HeartbeatEvery]
    <3>1. d \in sockets'
      BY <2>6 DEF Frame
    <3>2. d.id = c.id
      BY <2>2
    <3>. QED
      BY <3>1, <3>2
  <2>7. \A x \in sockets : ~SocketError(x)
    BY <2>2 DEF SocketError
  <2>. QED
    BY <2>3, <2>4, <2>5, <2>6, <2>7 DEF LinkNext
<1>. QED
  BY <1>1, AlwaysIndInv, PTL DEF LinkSpec, HealthyStreamIsKept
------------------------------------------------------------------------------
(* The wall's look.                                                          *)

\* Frames tell of behaviours that came into force, so none is ahead of the server.
NothingAhead ==
    /\ heard <= version
    /\ \A k \in DOMAIN channel : channel[k] <= version

\* With nothing on its way, a look v is the one in force; else the last frame on
\* its way tells of it.
Agrees(v) ==
    /\ channel = <<>> => v = version
    /\ channel # <<>> => channel[Len(channel)] = version

\* A wall that misses nothing has an open stream and a look that agrees.
ScreenAgrees == gap = "none" => stream = "open" /\ Agrees(screen)

\* An answer that would still be applied is no older than the last frame, and agrees
\* if it is fresh.
Usable(f) ==
    ~f.late => /\ f.answer # NoLook => f.answer >= heard
               /\ f.fresh => stream = "open" /\ Agrees(f.answer)

\* The refresh of bootstrap is the only one of its kind, and ends before the stream.
BootFirst ==
    /\ \A i, j \in DOMAIN flights :
          flights[i].why = "boot" /\ flights[j].why = "boot" => i = j
    /\ \A i \in DOMAIN flights : flights[i].why = "boot" => link = "boot"
    /\ link \in {"boot", "down"} => stream = "none"

\* What the two safety properties need to be inductive together.
SyncInv ==
    /\ SyncTypeOK
    /\ NothingAhead
    /\ NeverUndone
    /\ ScreenAgrees
    /\ \A i \in DOMAIN flights : Usable(flights[i])
    /\ BootFirst

\* RemoveAt takes one entry out and leaves the others as they are.
LEMMA RemoveAtEntries ==
    ASSUME NEW s \in Seq(Flight), NEW i \in DOMAIN s
    PROVE  /\ RemoveAt(s, i) \in Seq(Flight)
           /\ Len(RemoveAt(s, i)) = Len(s) - 1
           /\ \A k \in DOMAIN RemoveAt(s, i) :
                 RemoveAt(s, i)[k] = IF k < i THEN s[k] ELSE s[k + 1]
<1>. DEFINE a == SubSeq(s, 1, i - 1)
            b == SubSeq(s, i + 1, Len(s))
<1>1. /\ a \in Seq(Flight) /\ Len(a) = i - 1
      /\ \A k \in 1..(i - 1) : a[k] = s[k]
  OBVIOUS
<1>2. /\ b \in Seq(Flight) /\ Len(b) = Len(s) - i
      /\ \A k \in 1..(Len(s) - i) : b[k] = s[i + k]
  OBVIOUS
<1>3. RemoveAt(s, i) = a \o b
  BY DEF RemoveAt
<1>. HIDE DEF a, b
<1>. QED
  BY <1>1, <1>2, <1>3

\* The page has asked for the look and shows none.
LEMMA SyncStarts == SyncInit => SyncInv
<1>. SUFFICES ASSUME SyncInit PROVE SyncInv
  OBVIOUS
<1>1. /\ Asked("boot") \in Flight
      /\ flights = <<Asked("boot")>>
  BY DEF SyncInit, Asked, Flight
<1>2. SyncTypeOK
  <2>1. flights \in Seq(Flight) /\ Len(flights) = 1 /\ 1 <= MaxFlights
    BY <1>1, SyncAssumption
  <2>2. version \in Version /\ channel \in Seq(Version)
    BY SyncAssumption DEF SyncInit, Version
  <2>. QED
    BY <2>1, <2>2 DEF SyncInit, SyncTypeOK
<1>3. NothingAhead /\ NeverUndone /\ ScreenAgrees
  BY DEF SyncInit, NothingAhead, NeverUndone, ScreenAgrees, NoLook
<1>4. \A i \in DOMAIN flights : Usable(flights[i])
  BY <1>1 DEF Asked, Usable, NoLook
<1>5. BootFirst
  BY <1>1 DEF SyncInit, BootFirst
<1>. QED
  BY <1>2, <1>3, <1>4, <1>5 DEF SyncInv

\* What the provers need to know of the values.
LEMMA Ranges ==
    ASSUME SyncTypeOK
    PROVE  /\ version \in Int /\ screen \in Int /\ heard \in Int
           /\ \A k \in DOMAIN channel : channel[k] \in Int
           /\ \A i \in DOMAIN flights : flights[i] \in Flight /\ flights[i].answer \in Int
           /\ Version \subseteq Int /\ NoLook \in Int
<1>1. Version \subseteq Int /\ NoLook \in Int
  BY SyncAssumption DEF Version, NoLook
<1>2. version \in Int /\ screen \in Int /\ heard \in Int
  BY <1>1 DEF SyncTypeOK
<1>3. \A k \in DOMAIN channel : channel[k] \in Int
  <2>1. channel \in Seq(Version)
    BY DEF SyncTypeOK
  <2>2. \A k \in DOMAIN channel : channel[k] \in Version
    BY <2>1
  <2>. QED
    BY <1>1, <2>2
<1>4. \A i \in DOMAIN flights : flights[i] \in Flight
  BY DEF SyncTypeOK
<1>5. \A f \in Flight : f.answer \in Int
  BY <1>1 DEF Flight
<1>. QED
  BY <1>1, <1>2, <1>3, <1>4, <1>5

\* Stale leaves everything of a refresh but its freshness.
LEMMA StaleEntries ==
    ASSUME NEW fs \in Seq(Flight)
    PROVE  /\ Stale(fs) \in Seq(Flight) /\ Len(Stale(fs)) = Len(fs)
           /\ DOMAIN Stale(fs) = DOMAIN fs
           /\ \A i \in DOMAIN fs : /\ Stale(fs)[i].why = fs[i].why
                                   /\ Stale(fs)[i].late = fs[i].late
                                   /\ Stale(fs)[i].answer = fs[i].answer
                                   /\ Stale(fs)[i].fresh = FALSE
<1>0. \A i \in DOMAIN fs : fs[i] \in Flight
  OBVIOUS
<1>1. \A f \in Flight : [f EXCEPT !.fresh = FALSE] \in Flight
  BY DEF Flight
<1>2. Stale(fs) = [i \in 1..Len(fs) |-> [fs[i] EXCEPT !.fresh = FALSE]]
  BY DEF Stale
<1>3. Stale(fs) \in Seq(Flight) /\ Len(Stale(fs)) = Len(fs)
  BY <1>0, <1>1, <1>2
<1>4. \A f \in Flight : /\ [f EXCEPT !.fresh = FALSE].why = f.why
                        /\ [f EXCEPT !.fresh = FALSE].late = f.late
                        /\ [f EXCEPT !.fresh = FALSE].answer = f.answer
                        /\ [f EXCEPT !.fresh = FALSE].fresh = FALSE
  BY DEF Flight
<1>. QED
  BY <1>0, <1>2, <1>3, <1>4

\* A change that the wall is not told of leaves nothing fresh.
LEMMA FallBehindStep ==
    ASSUME SyncInv, NEW why \in {"calendar", "lost"}, FallBehind(why),
           version' \in Version, version' >= version,
           UNCHANGED <<channel, link, pollTimer, screen, heard>>,
           up' \in BOOLEAN, stream' \in {"none", "asked", "open", "cut"},
           stream = "none" => stream' = "none"
    PROVE  SyncInv'
<1>. USE DEF SyncInv
<1>0. flights \in Seq(Flight) /\ gap \in {"none", "calendar", "lost"}
  BY DEF SyncTypeOK
<1>1. flights' = Stale(flights) /\ gap' \in {"calendar", "lost"}
  BY <1>0 DEF FallBehind
<1>2. SyncTypeOK'
  BY <1>0, <1>1, StaleEntries DEF SyncTypeOK
<1>3. NothingAhead' /\ NeverUndone'
  BY <1>2, Ranges DEF NothingAhead, NeverUndone
<1>4. ScreenAgrees'
  BY <1>1 DEF ScreenAgrees
<1>a. /\ DOMAIN flights' = DOMAIN flights
      /\ \A i \in DOMAIN flights : /\ flights'[i].why = flights[i].why
                                   /\ flights'[i].late = flights[i].late
                                   /\ flights'[i].answer = flights[i].answer
                                   /\ flights'[i].fresh = FALSE
  BY <1>0, <1>1, StaleEntries
<1>5. \A i \in DOMAIN flights' : Usable(flights[i])'
  BY <1>a DEF Usable
<1>6. BootFirst'
  BY <1>a DEF BootFirst
<1>. QED
  BY <1>2, <1>3, <1>4, <1>5, <1>6

\* A change of look is put behind the frames under way, or leaves nothing fresh.
LEMMA ChangeStep ==
    ASSUME SyncInv, ChangeBehavior
    PROVE  SyncInv'
<1>. USE DEF SyncInv
<1>0. /\ version \in Int /\ version' = version + 1 /\ version' \in Version
      /\ UNCHANGED <<up, stream, link, pollTimer, screen, heard>>
      /\ channel \in Seq(Version)
  BY Ranges, SyncAssumption DEF SyncTypeOK, ChangeBehavior, Version
<1>1. CASE FallBehind("lost") /\ UNCHANGED channel
  BY <1>0, <1>1, FallBehindStep DEF SyncTypeOK
<1>2. CASE stream = "open" /\ channel' = Append(channel, version')
           /\ UNCHANGED <<gap, flights>>
  <2>. DEFINE v == version'
  <2>1. v \in Version /\ channel' = Append(channel, v)
    BY <1>0, <1>2
  <2>. HIDE DEF v
  <2>2. /\ channel' \in Seq(Version) /\ Len(channel') = Len(channel) + 1
        /\ channel' # <<>> /\ channel'[Len(channel')] = v
        /\ \A k \in DOMAIN channel' : \/ k \in DOMAIN channel /\ channel'[k] = channel[k]
                                      \/ channel'[k] = v
    BY <1>0, <2>1
  <2>. USE DEF v
  <2>3. SyncTypeOK'
    BY <1>0, <1>2, <2>2 DEF SyncTypeOK
  <2>4. NothingAhead' /\ NeverUndone'
    BY <1>0, <2>2, Ranges DEF NothingAhead, NeverUndone
  <2>5. \A x : Agrees(x)'
    BY <2>2 DEF Agrees
  <2>6. ScreenAgrees'
    BY <1>0, <1>2, <2>5 DEF ScreenAgrees
  <2>7. \A i \in DOMAIN flights' : Usable(flights[i])'
    BY <1>0, <1>2, <2>2 DEF Usable, Agrees
  <2>8. BootFirst'
    BY <1>0, <1>2 DEF BootFirst
  <2>. QED
    BY <2>3, <2>4, <2>6, <2>7, <2>8
<1>. QED
  BY <1>1, <1>2 DEF ChangeBehavior

\* Steps that leave the look, the frames and the refreshes alone: the server comes
\* back or takes the stream, or the page asks for it once more.
LEMMA LinkStep ==
    ASSUME SyncInv, GoUp \/ AcceptStream \/ Retry
    PROVE  SyncInv'
<1>. USE DEF SyncInv
<1>1. /\ UNCHANGED <<version, channel, pollTimer, flights, screen, heard, gap>>
      /\ up' \in BOOLEAN
      /\ link' \in {"boot", "opening", "live", "down"}
      /\ stream' \in {"none", "asked", "open", "cut"}
      /\ stream = "open" => stream' = "open"
      /\ link = "boot" => link' = "boot"
      /\ link' \in {"boot", "down"} => stream' = "none"
  BY DEF GoUp, AcceptStream, Retry, Connect, SyncTypeOK, BootFirst, serverVars, streamVars
<1>2. SyncTypeOK'
  BY <1>1 DEF SyncTypeOK
<1>3. NothingAhead' /\ NeverUndone' /\ ScreenAgrees'
  BY <1>1 DEF NothingAhead, NeverUndone, ScreenAgrees, Agrees
<1>4. \A i \in DOMAIN flights' : Usable(flights[i])'
  BY <1>1 DEF Usable, Agrees
<1>5. BootFirst'
  BY <1>1 DEF BootFirst
<1>. QED
  BY <1>2, <1>3, <1>4, <1>5

\* A refresh that was just asked has no answer that could be too old.
LEMMA AskStep ==
    ASSUME SyncInv, NEW why \in {"poll", "live"},
           \/ UNCHANGED flights
           \/ Len(flights) < MaxFlights /\ flights' = Append(flights, Asked(why)),
           UNCHANGED <<version, up, screen, heard, gap>>, pollTimer' \in BOOLEAN,
           \/ UNCHANGED <<stream, channel>>
           \/ stream = "cut" /\ stream' = "none" /\ channel' = <<>>,
           link' \in {"boot", "opening", "live", "down"}, link = "boot" => link' = "boot",
           link' \in {"boot", "down"} => stream' = "none"
    PROVE  SyncInv'
<1>. USE DEF SyncInv
<1>0. flights \in Seq(Flight) /\ channel \in Seq(Version) /\ Len(flights) <= MaxFlights
  BY DEF SyncTypeOK
<1>. DEFINE new == Asked(why)
<1>1. new \in Flight /\ ~new.fresh /\ new.answer = NoLook /\ new.why # "boot"
  BY DEF Asked, Flight
<1>2. \/ flights' = flights
      \/ Len(flights) < MaxFlights /\ flights' = Append(flights, new)
  OBVIOUS
<1>. HIDE DEF new
<1>3. /\ flights' \in Seq(Flight) /\ Len(flights') <= MaxFlights
      /\ \A i \in DOMAIN flights' : \/ i \in DOMAIN flights /\ flights'[i] = flights[i]
                                    \/ flights'[i] = new
  <2>1. CASE flights' = flights
    BY <1>0, <2>1
  <2>2. CASE Len(flights) < MaxFlights /\ flights' = Append(flights, new)
    <3>1. flights' \in Seq(Flight) /\ Len(flights') = Len(flights) + 1
      BY <1>0, <1>1, <2>2
    <3>2. \A i \in DOMAIN flights' : \/ i \in DOMAIN flights /\ flights'[i] = flights[i]
                                     \/ flights'[i] = new
      BY <1>0, <1>1, <2>2
    <3>3. Len(flights) \in Nat /\ MaxFlights \in Nat
      BY <1>0, SyncAssumption
    <3>. QED
      BY <2>2, <3>1, <3>2, <3>3
  <2>. QED
    BY <1>2, <2>1, <2>2
<1>4. SyncTypeOK'
  <2>1. channel' \in Seq(Version) /\ stream' \in {"none", "asked", "open", "cut"}
    <3>1. CASE UNCHANGED <<stream, channel>>
      BY <1>0, <3>1 DEF SyncTypeOK
    <3>2. CASE stream = "cut" /\ stream' = "none" /\ channel' = <<>>
      BY <3>2
    <3>. QED
      BY <3>1, <3>2
  <2>. QED
    BY <1>3, <2>1 DEF SyncTypeOK
<1>5. NothingAhead' /\ NeverUndone'
  BY DEF NothingAhead, NeverUndone
<1>6. ScreenAgrees'
  BY DEF ScreenAgrees, Agrees
<1>7. \A i \in DOMAIN flights' : Usable(flights[i])'
  <2>. SUFFICES ASSUME NEW i \in DOMAIN flights' PROVE Usable(flights[i])'
    OBVIOUS
  <2>1. CASE i \in DOMAIN flights /\ flights'[i] = flights[i]
    BY <2>1 DEF Usable, Agrees
  <2>2. CASE flights'[i] = new
    BY <1>1, <2>2 DEF Usable
  <2>. QED
    BY <1>3, <2>1, <2>2
<1>8. BootFirst'
  <2>1. \A i \in DOMAIN flights' : flights'[i].why = "boot" =>
            i \in DOMAIN flights /\ flights[i].why = "boot"
    BY <1>1, <1>3
  <2>. QED
    BY <2>1 DEF BootFirst
<1>. QED
  BY <1>4, <1>5, <1>6, <1>7, <1>8

\* The page asks when it goes live, when it polls and when its stream fails.
LEMMA PageStep ==
    ASSUME SyncInv, GoLive \/ PollTick \/ LinkFails
    PROVE  SyncInv'
<1>1. CASE GoLive
  <2>1. link' = "live" /\ link # "boot" /\ pollTimer' \in BOOLEAN
        /\ Len(flights) < MaxFlights /\ flights' = Append(flights, Asked("live"))
        /\ UNCHANGED <<version, up, stream, channel, screen, heard, gap>>
    BY <1>1 DEF GoLive, serverVars
  <2>. QED
    BY <2>1, AskStep
<1>2. CASE PollTick
  <2>1. /\ \/ UNCHANGED flights
           \/ Len(flights) < MaxFlights /\ flights' = Append(flights, Asked("poll"))
        /\ UNCHANGED <<version, up, stream, channel, link, pollTimer, screen, heard, gap>>
    BY <1>2 DEF PollTick, TickPoll, serverVars, streamVars
  <2>2. /\ pollTimer \in BOOLEAN /\ link \in {"boot", "opening", "live", "down"}
        /\ link \in {"boot", "down"} => stream = "none"
    BY DEF SyncInv, SyncTypeOK, BootFirst
  <2>. QED
    BY <2>1, <2>2, AskStep
<1>3. CASE LinkFails
  <2>1. /\ \/ UNCHANGED flights
           \/ Len(flights) < MaxFlights /\ flights' = Append(flights, Asked("poll"))
        /\ UNCHANGED <<version, up, screen, heard, gap>>
        /\ stream = "cut" /\ stream' = "none" /\ channel' = <<>>
        /\ pollTimer' \in BOOLEAN /\ link # "boot" /\ link' = "down"
    BY <1>3 DEF LinkFails, TickPoll, serverVars
  <2>. QED
    BY <2>1, AskStep
<1>. QED
  BY <1>1, <1>2, <1>3

\* Only a sequence of one has an empty tail.
LEMMA TailOfOne ==
    ASSUME NEW q \in Seq(Version), q # <<>>
    PROVE  Tail(q) = <<>> => Len(q) = 1
<1>. DEFINE rest == Tail(q)
<1>1. Len(rest) = Len(q) - 1 /\ Len(q) \in Nat
  OBVIOUS
<1>2. Len(<<>>) = 0
  OBVIOUS
<1>. HIDE DEF rest
<1>3. rest = <<>> => Len(rest) = 0
  BY <1>2, Zenon
<1>4. Len(rest) = 0 => Len(q) = 1
  BY <1>1
<1>5. rest = <<>> => Len(q) = 1
  BY <1>3, <1>4, Zenon
<1>. QED
  BY <1>5, Zenon DEF rest

\* A refresh marked as late is another only if it was not late before.
LEMMA MarkEntry ==
    ASSUME NEW f \in Flight, NEW a \in Int, NEW b \in Int
    PROVE  LET m == [f EXCEPT !.late = @ \/ a < b] IN
           m \in Flight /\ m.why = f.why /\ (~m.late => m = f)
BY DEF Flight

\* A frame becomes the look, and no refresh under way can still be applied.
LEMMA FrameStep ==
    ASSUME SyncInv, TakeFrame
    PROVE  SyncInv'
<1>. USE DEF SyncInv
<1>. DEFINE late(f) == [f EXCEPT !.late = TRUE]
<1>0. /\ flights \in Seq(Flight) /\ channel \in Seq(Version) /\ channel # <<>>
      /\ UNCHANGED <<version, up, stream, link, pollTimer, gap>>
      /\ link = "live"
      /\ screen' = Head(channel) /\ heard' = Head(channel) /\ channel' = Tail(channel)
      /\ flights' = [i \in DOMAIN flights |-> late(flights[i])]
  BY DEF SyncTypeOK, TakeFrame, serverVars
<1>1. \A f \in Flight : late(f) \in Flight /\ late(f).late /\ late(f).why = f.why
  BY DEF Flight
<1>. HIDE DEF late
<1>2. /\ flights' \in Seq(Flight) /\ Len(flights') = Len(flights)
      /\ \A i \in DOMAIN flights' :
            /\ i \in DOMAIN flights
            /\ flights'[i].late /\ flights'[i].why = flights[i].why
  <2>1. \A i \in 1..Len(flights) : flights[i] \in Flight
    BY <1>0
  <2>2. /\ flights' = [i \in 1..Len(flights) |-> late(flights[i])]
        /\ Len(flights) \in Nat /\ DOMAIN flights = 1..Len(flights)
    BY <1>0
  <2>3. flights' \in Seq(Flight) /\ Len(flights') = Len(flights)
    BY <1>1, <2>1, <2>2
  <2>4. DOMAIN flights' = 1..Len(flights)
    BY <2>2
  <2>5. \A i \in 1..Len(flights) : flights'[i] = late(flights[i])
    BY <2>2
  <2>. QED
    BY <1>1, <2>1, <2>2, <2>3, <2>4, <2>5
<1>3. /\ Head(channel) \in Version /\ Tail(channel) \in Seq(Version)
      /\ Head(channel) = channel[1] /\ 1 \in DOMAIN channel
      /\ \A k \in DOMAIN Tail(channel) : k + 1 \in DOMAIN channel
                                        /\ Tail(channel)[k] = channel[k + 1]
  BY <1>0
<1>4. SyncTypeOK'
  BY <1>0, <1>2, <1>3 DEF SyncTypeOK
<1>5. NothingAhead'
  BY <1>0, <1>3 DEF NothingAhead
<1>6. NeverUndone'
  <2>1. Head(channel) \in Int
    BY <1>3, Ranges
  <2>. QED
    BY <1>0, <2>1 DEF NeverUndone
<1>7. ScreenAgrees'
  <2>. SUFFICES ASSUME gap = "none" PROVE Agrees(screen)'
    BY <1>0 DEF ScreenAgrees
  <2>1. channel[Len(channel)] = version
    BY <1>0 DEF ScreenAgrees, Agrees
  <2>2. Tail(channel) = <<>> => Len(channel) = 1
    BY <1>0, TailOfOne
  <2>3. Tail(channel) # <<>> => Tail(channel)[Len(Tail(channel))] = channel[Len(channel)]
    <3>1. Len(Tail(channel)) = Len(channel) - 1 /\ Len(channel) \in Nat
      BY <1>0
    <3>2. Tail(channel) # <<>> => Len(Tail(channel)) \in DOMAIN Tail(channel)
      BY <1>3
    <3>. QED
      BY <1>3, <3>1, <3>2
  <2>. QED
    BY <1>0, <1>3, <2>1, <2>2, <2>3 DEF Agrees
<1>8. \A i \in DOMAIN flights' : Usable(flights[i])'
  BY <1>2 DEF Usable
<1>9. BootFirst'
  <2>1. \A i \in DOMAIN flights' : flights'[i].why # "boot"
    <3>1. \A i \in DOMAIN flights : flights[i].why # "boot"
      BY <1>0 DEF BootFirst
    <3>. QED
      BY <1>2, <3>1
  <2>. QED
    BY <1>0, <2>1 DEF BootFirst
<1>. QED
  BY <1>4, <1>5, <1>6, <1>7, <1>8, <1>9

\* The server answers a refresh with what is in force.
LEMMA RespondStep ==
    ASSUME SyncInv, NEW i \in DOMAIN flights, Respond(i)
    PROVE  SyncInv'
<1>. USE DEF SyncInv
<1>. DEFINE answered(f) == [f EXCEPT !.answer = version, !.fresh = ToldAll]
<1>0. /\ flights \in Seq(Flight) /\ channel \in Seq(Version) /\ version \in Version
      /\ UNCHANGED <<version, up, stream, channel, link, pollTimer, screen, heard, gap>>
  BY DEF SyncTypeOK, Respond, serverVars, streamVars
<1>1. ToldAll \in BOOLEAN /\ (ToldAll => stream = "open" /\ Agrees(version))
  BY DEF ToldAll, Agrees, Last
<1>2. \A f \in Flight : /\ answered(f) \in Flight
                        /\ answered(f).late = f.late /\ answered(f).why = f.why
                        /\ answered(f).answer = version /\ answered(f).fresh = ToldAll
  BY <1>0, <1>1 DEF Flight
<1>3. flights' = [flights EXCEPT ![i] = answered(flights[i])]
  BY <1>0 DEF Respond
<1>. HIDE DEF answered
<1>4. /\ flights' \in Seq(Flight) /\ Len(flights') = Len(flights)
      /\ DOMAIN flights' = DOMAIN flights
      /\ \A j \in DOMAIN flights : flights'[j] = IF j = i THEN answered(flights[i])
                                                 ELSE flights[j]
      /\ flights[i] \in Flight
  BY <1>0, <1>2, <1>3
<1>5. SyncTypeOK'
  BY <1>0, <1>4 DEF SyncTypeOK
<1>6. NothingAhead' /\ NeverUndone' /\ ScreenAgrees'
  BY <1>0 DEF NothingAhead, NeverUndone, ScreenAgrees, Agrees
<1>7. \A j \in DOMAIN flights' : Usable(flights[j])'
  <2>. SUFFICES ASSUME NEW j \in DOMAIN flights' PROVE Usable(flights[j])'
    OBVIOUS
  <2>1. CASE j = i
    <3>1. version >= heard
      BY Ranges DEF NothingAhead
    <3>. QED
      BY <1>0, <1>1, <1>2, <1>4, <2>1, <3>1 DEF Usable, Agrees
  <2>2. CASE j # i
    BY <1>0, <1>4, <2>2 DEF Usable, Agrees
  <2>. QED
    BY <2>1, <2>2
<1>8. BootFirst'
  <2>1. \A j \in DOMAIN flights : flights'[j].why = flights[j].why
    BY <1>2, <1>4
  <2>. QED
    BY <1>0, <1>4, <2>1 DEF BootFirst
<1>. QED
  BY <1>5, <1>6, <1>7, <1>8

\* A refresh that is over, applied or not, leaves the others, of which some may have
\* become late.
LEMMA EndStep ==
    ASSUME SyncInv, NEW i \in DOMAIN flights, NEW rest \in Seq(Flight),
           Len(rest) = Len(flights),
           \A j \in DOMAIN rest : /\ rest[j].why = flights[j].why
                                  /\ ~rest[j].late => rest[j] = flights[j],
           flights' = RemoveAt(rest, i), AfterFlight(i),
           UNCHANGED <<version, up>>,
           \/ UNCHANGED <<screen, gap>>
           \/ /\ ~flights[i].late /\ flights[i].answer # NoLook
              /\ screen' = flights[i].answer
              /\ gap' = IF flights[i].fresh THEN "none" ELSE "lost"
    PROVE  SyncInv'
<1>. USE DEF SyncInv
<1>0. /\ flights \in Seq(Flight) /\ Len(flights) <= MaxFlights /\ Len(flights) \in Nat
      /\ flights[i] \in Flight /\ i \in DOMAIN rest /\ DOMAIN rest = DOMAIN flights
      /\ MaxFlights \in Nat
      /\ UNCHANGED <<version, up, channel, pollTimer, heard>>
  BY SyncAssumption DEF SyncTypeOK, AfterFlight, serverVars
<1>1. /\ flights' \in Seq(Flight) /\ Len(flights') = Len(flights) - 1
      /\ \A k \in DOMAIN flights' : flights'[k] = IF k < i THEN rest[k] ELSE rest[k + 1]
  BY <1>0, RemoveAtEntries
<1>. DEFINE old(k) == IF k < i THEN k ELSE k + 1
<1>2. \A k \in DOMAIN flights' :
          old(k) \in DOMAIN flights /\ old(k) # i /\ flights'[k] = rest[old(k)]
  <2>1. /\ DOMAIN flights' = 1..(Len(flights) - 1) /\ DOMAIN rest = 1..Len(flights)
        /\ i \in 1..Len(flights)
    BY <1>0, <1>1
  <2>. SUFFICES ASSUME NEW k \in 1..(Len(flights) - 1)
                PROVE  old(k) \in 1..Len(flights) /\ old(k) # i /\ flights'[k] = rest[old(k)]
    BY <1>0, <2>1
  <2>2. old(k) \in 1..Len(flights) /\ old(k) # i
    BY <1>0, <2>1
  <2>3. flights'[k] = rest[old(k)]
    BY <1>1, <2>1
  <2>. QED
    BY <2>2, <2>3
<1>3. \/ flights[i].why = "boot" /\ Connect
      \/ flights[i].why # "boot" /\ UNCHANGED <<link, stream>>
  BY DEF AfterFlight
<1>4. flights[i].why = "boot" => link = "boot" /\ stream = "none"
  BY DEF BootFirst
<1>5. stream = "open" => stream' = "open"
  BY <1>3, <1>4
<1>6. SyncTypeOK'
  <2>1. stream' \in {"none", "asked", "open", "cut"}
        /\ link' \in {"boot", "opening", "live", "down"}
    BY <1>3 DEF SyncTypeOK, Connect
  <2>2. screen' \in Version \cup {NoLook} /\ gap' \in {"none", "calendar", "lost"}
    BY <1>0 DEF SyncTypeOK, Flight
  <2>3. Len(flights') <= MaxFlights
    BY <1>0, <1>1
  <2>. QED
    BY <1>0, <1>1, <2>1, <2>2, <2>3 DEF SyncTypeOK
<1>7. NothingAhead'
  BY <1>0 DEF NothingAhead
<1>8. NeverUndone'
  BY <1>0 DEF NeverUndone, Usable
<1>9. ScreenAgrees'
  BY <1>0, <1>5 DEF ScreenAgrees, Usable, Agrees
<1>10. \A k \in DOMAIN flights' : Usable(flights[k])'
  <2>. SUFFICES ASSUME NEW k \in DOMAIN flights', ~flights'[k].late
                PROVE  Usable(flights[k])'
    BY DEF Usable
  <2>1. PICK j \in DOMAIN flights : flights'[k] = rest[j]
    BY <1>2
  <2>2. ~rest[j].late
    BY <2>1
  <2>3. rest[j] = flights[j]
    BY <1>0, <2>2
  <2>. QED
    BY <1>0, <1>5, <2>1, <2>3 DEF Usable, Agrees
<1>11. BootFirst'
  <2>1. \A k \in DOMAIN flights' :
            /\ old(k) \in DOMAIN flights /\ old(k) # i
            /\ flights'[k].why = flights[old(k)].why
    BY <1>0, <1>2
  <2>2. \A k, l \in DOMAIN flights' : old(k) = old(l) => k = l
    <3>1. \A k \in DOMAIN flights' : k \in Int
      BY <1>1
    <3>. QED
      BY <1>0, <3>1
  <2>. HIDE DEF old
  <2>3. \A k, l \in DOMAIN flights' :
            flights'[k].why = "boot" /\ flights'[l].why = "boot" => k = l
    BY <2>1, <2>2 DEF BootFirst
  <2>4. \A k \in DOMAIN flights' : flights'[k].why = "boot" =>
            link = "boot" /\ flights[i].why # "boot"
    BY <2>1 DEF BootFirst
  <2>5. \A k \in DOMAIN flights' : flights'[k].why = "boot" => link' = "boot"
    BY <1>3, <2>4
  <2>6. link' \in {"boot", "down"} => stream' = "none"
    BY <1>3 DEF BootFirst, Connect
  <2>. QED
    BY <2>3, <2>5, <2>6 DEF BootFirst
<1>. QED
  BY <1>6, <1>7, <1>8, <1>9, <1>10, <1>11

\* A refresh ends: its answer is applied or dropped, or it failed.
LEMMA FlightStep ==
    ASSUME SyncInv, NEW i \in DOMAIN flights, Land(i) \/ FlightFails(i)
    PROVE  SyncInv'
<1>0. flights \in Seq(Flight)
  BY DEF SyncInv, SyncTypeOK
<1>1. AfterFlight(i) /\ UNCHANGED <<version, up>>
  BY DEF Land, FlightFails, AfterFlight, serverVars
<1>2. CASE FlightFails(i) \/ (Land(i) /\ flights[i].late)
  <2>1. flights' = RemoveAt(flights, i) /\ UNCHANGED <<screen, gap>>
    BY <1>2 DEF FlightFails, Land
  <2>. QED
    BY <1>0, <1>1, <2>1, EndStep
<1>3. CASE Land(i) /\ ~flights[i].late
  <2>. DEFINE rest == [j \in DOMAIN flights |-> [flights[j] EXCEPT !.late = @ \/ j < i]]
  <2>1. /\ flights' = RemoveAt(rest, i)
        /\ flights[i].answer # NoLook
        /\ screen' = flights[i].answer
        /\ gap' = IF flights[i].fresh THEN "none" ELSE "lost"
    BY <1>3 DEF Land
  <2>2. \A j \in DOMAIN flights : /\ rest[j] \in Flight
                                  /\ rest[j].why = flights[j].why
                                  /\ ~rest[j].late => rest[j] = flights[j]
    <3>. SUFFICES ASSUME NEW j \in DOMAIN flights
                  PROVE  /\ rest[j] \in Flight
                         /\ rest[j].why = flights[j].why
                         /\ ~rest[j].late => rest[j] = flights[j]
      OBVIOUS
    <3>1. flights[j] \in Flight /\ j \in Int /\ i \in Int
      BY <1>0
    <3>. QED
      BY <3>1, MarkEntry
  <2>3. DOMAIN rest = 1..Len(flights) /\ DOMAIN flights = 1..Len(flights)
        /\ Len(flights) \in Nat /\ rest = [j \in 1..Len(flights) |-> rest[j]]
    BY <1>0
  <2>. HIDE DEF rest
  <2>4. rest \in Seq(Flight) /\ Len(rest) = Len(flights) /\ DOMAIN rest = DOMAIN flights
    BY <2>2, <2>3
  <2>. HIDE DEF rest
  <2>. QED
    BY <1>1, <1>3, <2>1, <2>2, <2>4, EndStep
<1>. QED
  BY <1>2, <1>3

\* The invariant holds for ever.
THEOREM SyncInvariance == SyncSpec => []SyncInv
<1>1. SyncInv /\ [SyncNext]_syncVars => SyncInv'
  <2>. SUFFICES ASSUME SyncInv, [SyncNext]_syncVars PROVE SyncInv'
    OBVIOUS
  <2>0. /\ version \in Int /\ up \in BOOLEAN /\ version \in Version
        /\ stream \in {"none", "asked", "open", "cut"}
    BY Ranges DEF SyncInv, SyncTypeOK
  <2>1. CASE DayRolls
    <3>1. /\ FallBehind("calendar") /\ version' \in Version /\ version' >= version
          /\ UNCHANGED <<up, stream, channel, link, pollTimer, screen, heard>>
      BY <2>0, <2>1, SyncAssumption DEF DayRolls, streamVars, Version
    <3>. QED
      BY <2>0, <3>1, FallBehindStep
  <2>2. CASE GoDown
    <3>1. /\ FallBehind("lost") /\ version' = version /\ up' = FALSE
          /\ UNCHANGED <<channel, link, pollTimer, screen, heard>>
          /\ stream' = IF stream = "none" THEN "none" ELSE "cut"
      BY <2>2 DEF GoDown
    <3>2. stream' \in {"none", "asked", "open", "cut"} /\ (stream = "none" => stream' = "none")
      BY <3>1
    <3>3. version' >= version /\ version' \in Version
      <4>1. version' = version
        BY <3>1
      <4>. QED
        BY <2>0, <4>1
    <3>4. up' \in BOOLEAN
      BY <3>1
    <3>. QED
      BY <3>1, <3>2, <3>3, <3>4, FallBehindStep
  <2>3. CASE UNCHANGED syncVars
    BY <2>3 DEF SyncInv, syncVars, serverVars, streamVars, SyncTypeOK, NothingAhead, NeverUndone,
                ScreenAgrees, Usable, Agrees, BootFirst
  <2>. QED
    BY <2>1, <2>2, <2>3, ChangeStep, LinkStep, PageStep, FrameStep, RespondStep, FlightStep
       DEF SyncNext
<1>. QED
  BY <1>1, SyncStarts, PTL DEF SyncSpec

\* The state of the wall's look and of the server's stays well typed.
THEOREM SyncTypeCorrect == SyncSpec => []SyncTypeOK
BY SyncInvariance, PTL DEF SyncInv

\* A refresh that was under way when a frame arrived never puts an older look back
\* (apply and handleEvent of ProjectorBehaviorController).
THEOREM LookIsNeverUndone == SyncSpec => []NeverUndone
BY SyncInvariance, PTL DEF SyncInv

\* A wall that missed nothing and waits for nothing shows the behaviour in force.
THEOREM WallStaysInStep == SyncSpec => []InStepConverges
<1>1. SyncInv => InStepConverges
  BY DEF SyncInv, ScreenAgrees, Agrees, InStepConverges, Quiet
<1>. QED
  BY <1>1, SyncInvariance, PTL
==============================================================================
