------------------------------ MODULE LiveUpdates ------------------------------
(***************************************************************************)
(* The wall's live stream (LiveUpdates.js) and the polling that stands in  *)
(* for it (onLive and onOffline in PlanetLoader.js).  Time is discrete:    *)
(* Tick passes only when no timer and no heartbeat is due, so a timer runs *)
(* when its delay is over.  A server that stops may say so (an error       *)
(* event) or just fall silent on a socket that still looks open.           *)
(***************************************************************************)
EXTENDS Integers, FiniteSets

CONSTANTS
    Socket,             \* EventSource objects
    Timer,              \* handles that setTimeout returns
    None,               \* null
    HeartbeatTimeout,   \* HEARTBEAT_TIMEOUT_MS, in ticks
    HeartbeatEvery,     \* SSE_HEARTBEAT_SECONDS, in ticks
    RetryBase,          \* RECONNECT_BASE_MS, in ticks
    RetryMax            \* RECONNECT_MAX_MS, in ticks

ASSUME ConstantsAssumption ==
    /\ None \notin Socket
    /\ None \notin Timer
    /\ RetryBase \in Nat \ {0}
    /\ RetryMax \in Nat
    /\ RetryBase <= RetryMax
    /\ HeartbeatEvery \in Nat \ {0}
    /\ HeartbeatTimeout \in Nat
    /\ HeartbeatEvery < HeartbeatTimeout

VARIABLES
    source,         \* the socket in use
    retryTimer,     \* the handle kept of the last retry timer
    watchdog,       \* the handle kept of the watchdog timer
    attempt,        \* failures since the last frame; only its first MaxStep count
    live,
    stopped,
    failing,
    polling,        \* pollTimer # null in PlanetLoader
    sockets,        \* the sockets nobody closed, each with its next heartbeat
    timers,         \* the timers neither fired nor cleared
    healthy,        \* is the server up and within reach?
    calm,           \* ticks for which the client was started and the server healthy
    silence         \* ticks since the last frame, or since the start

client   == <<source, retryTimer, watchdog, attempt, live, stopped, failing, polling>>
world    == <<sockets, timers>>
linkVars == <<client, world, healthy, calm, silence>>

MaxStep == 10
Mute    == -1       \* no heartbeat is to come on this socket

\* The longest the client takes to be live again: the dead socket it may hold,
\* the longest retry delay, and the first heartbeat of the new socket.
RecoveryTime == HeartbeatTimeout + RetryMax + HeartbeatEvery

Smaller(a, b) == IF a < b THEN a ELSE b

\* Mutant of nextReconnectDelay: no ceiling.
nextReconnectDelayUncapped(n) == RetryBase * 2^Smaller(n, MaxStep)

\* nextReconnectDelayMs
nextReconnectDelay(n) == Smaller(RetryMax, RetryBase * 2^Smaller(n, MaxStep))

TypeOK ==
    /\ source \in Socket \cup {None}
    /\ retryTimer \in Timer \cup {None}
    /\ watchdog \in Timer \cup {None}
    /\ attempt \in 0..MaxStep
    /\ live \in BOOLEAN /\ stopped \in BOOLEAN
    /\ failing \in BOOLEAN /\ polling \in BOOLEAN
    /\ sockets \subseteq [id : Socket, due : {Mute} \cup 0..HeartbeatEvery]
    /\ timers \subseteq [handle : Timer, job : {"retry", "watchdog"}, left : Nat]
    /\ healthy \in BOOLEAN
    /\ calm \in 0..(RecoveryTime + 1)
    /\ silence \in 0..(HeartbeatTimeout + 1)

LinkInit ==
    /\ source = None /\ retryTimer = None /\ watchdog = None
    /\ attempt = 0
    /\ live = FALSE /\ stopped = TRUE /\ failing = FALSE /\ polling = FALSE
    /\ sockets = {} /\ timers = {}
    /\ healthy \in BOOLEAN
    /\ calm = 0 /\ silence = 0
------------------------------------------------------------------------------
\* setTimeout returns a handle that was never used before: here, one that no
\* pending timer has and no field remembers.
Unused == Timer \ ({t.handle : t \in timers} \cup {retryTimer, watchdog})

Without(ts, h) == {t \in ts : t.handle # h}                         \* clearTimeout
\* Mutant of Closed: the socket is let go of and not closed.
Unclosed(k)    == sockets

Closed(k)      == {c \in sockets : c.id # k}                        \* close()
Timeout(h, job, n) == [handle |-> h, job |-> job, left |-> n]           \* setTimeout

\* A page gets heartbeats on a socket that a healthy server accepted.
NextBeat == IF healthy THEN HeartbeatEvery ELSE Mute

\* Mutant of GiveUp: the loader is not told, so it does not poll.
GiveUpQuietly(ts, n) ==
    \E h \in Unused :
        /\ failing' = TRUE
        /\ live' = FALSE
        /\ source' = None
        /\ watchdog' = None
        /\ sockets' = Closed(source)
        /\ retryTimer' = h
        /\ timers' = Without(ts, watchdog) \cup {Timeout(h, "retry", nextReconnectDelay(n))}
        /\ attempt' = Smaller(n + 1, MaxStep)
        /\ UNCHANGED polling

\* fail(), once past its guard: closeSource, onOffline, schedule the retry after
\* n failures.  ts are the pending timers, less the one whose callback this is.
GiveUp(ts, n) ==
    \E h \in Unused :
        /\ failing' = TRUE
        /\ live' = FALSE
        /\ source' = None
        /\ watchdog' = None
        /\ sockets' = Closed(source)
        /\ polling' = TRUE
        /\ retryTimer' = h
        /\ timers' = Without(ts, watchdog) \cup {Timeout(h, "retry", nextReconnectDelay(n))}
        /\ attempt' = Smaller(n + 1, MaxStep)

fail(ts) ==
    /\ IF stopped \/ failing
       THEN timers' = ts /\ UNCHANGED <<source, retryTimer, watchdog, attempt, live,
                                        failing, polling, sockets>>
       ELSE GiveUp(ts, attempt)
    /\ UNCHANGED <<stopped, healthy, calm, silence>>

\* connect(), when the constructor returns a socket: the watchdog is armed at once.
Open(ts, n) ==
    \E k \in Socket \ {c.id : c \in sockets}, h \in Unused :
        /\ source' = k
        /\ sockets' = Closed(source) \cup {[id |-> k, due |-> NextBeat]}
        /\ watchdog' = h
        /\ timers' = Without(ts, watchdog) \cup {Timeout(h, "watchdog", HeartbeatTimeout)}
        /\ failing' = FALSE
        /\ live' = IF stopped THEN FALSE ELSE live      \* start() resets it
        /\ attempt' = n
        /\ UNCHANGED <<retryTimer, polling>>

\* connect(), run by start() and by the retry callback, after n failures.  The
\* constructor may throw, but not when all is well.
connect(ts, n) ==
    \/ Open(ts, n)
    \/ ~healthy /\ GiveUp(ts, n)

\* start(), a no-op on a client that runs.
Start ==
    /\ stopped
    /\ stopped' = FALSE
    /\ calm' = 0
    /\ silence' = 0
    /\ connect(timers, 0)
    /\ UNCHANGED healthy

Stop ==
    /\ stopped' = TRUE
    /\ failing' = TRUE
    /\ source' = None
    /\ retryTimer' = None
    /\ watchdog' = None
    /\ timers' = Without(Without(timers, retryTimer), watchdog)
    /\ sockets' = Closed(source)
    /\ calm' = 0
    /\ UNCHANGED <<attempt, live, polling, healthy, silence>>

\* Mutant of Frame: the watchdog is not rearmed.
FrameUnnoticed(c) ==
    /\ c \in sockets
    /\ c.due # Mute
    /\ sockets' = (sockets \ {c}) \cup {[c EXCEPT !.due = HeartbeatEvery]}
    /\ attempt' = 0
    /\ live' = TRUE
    /\ polling' = IF live THEN polling ELSE FALSE
    /\ silence' = 0
    /\ UNCHANGED <<source, retryTimer, watchdog, timers, stopped, failing, healthy, calm>>

\* A frame of any kind reaches the page: noteActivity().
Frame(c) ==
    /\ c \in sockets
    /\ c.due # Mute
    /\ sockets' = (sockets \ {c}) \cup {[c EXCEPT !.due = HeartbeatEvery]}
    /\ attempt' = 0
    /\ live' = TRUE
    /\ polling' = IF live THEN polling ELSE FALSE
    /\ silence' = 0
    /\ \E h \in Unused :
          /\ watchdog' = h
          /\ timers' = Without(timers, watchdog) \cup {Timeout(h, "watchdog", HeartbeatTimeout)}
    /\ UNCHANGED <<source, retryTimer, stopped, failing, healthy, calm>>

\* The error event of a socket that was refused, reset or ended.
SocketError(c) ==
    /\ c \in sockets
    /\ c.due = Mute
    /\ fail(timers)

WatchdogFires(t) ==
    /\ t \in timers /\ t.job = "watchdog" /\ t.left = 0
    /\ fail(timers \ {t})

\* The retry callback: failing = false, then connect(), which returns at once on
\* a client that was stopped.
RetryFires(t) ==
    /\ t \in timers /\ t.job = "retry" /\ t.left = 0
    /\ IF stopped
       THEN /\ timers' = timers \ {t}
            /\ failing' = FALSE
            /\ UNCHANGED <<source, retryTimer, watchdog, attempt, live, polling, sockets>>
       ELSE connect(timers \ {t}, attempt)
    /\ UNCHANGED <<stopped, healthy, calm, silence>>

\* The server stops, hangs or is cut off; the sockets it served fall silent.
GoSilent ==
    /\ healthy
    /\ healthy' = FALSE
    /\ sockets' = {[c EXCEPT !.due = Mute] : c \in sockets}
    /\ calm' = 0
    /\ UNCHANGED <<client, timers, silence>>

\* It is back: for the sockets to come, never for those it dropped.
GoHealthy ==
    /\ ~healthy
    /\ healthy' = TRUE
    /\ UNCHANGED <<client, world, calm, silence>>

Tick ==
    /\ \A t \in timers : t.left > 0
    /\ \A c \in sockets : c.due # 0
    /\ timers' = {[t EXCEPT !.left = @ - 1] : t \in timers}
    /\ sockets' = {[c EXCEPT !.due = IF @ = Mute THEN Mute ELSE @ - 1] : c \in sockets}
    /\ calm' = IF healthy /\ ~stopped THEN Smaller(calm + 1, RecoveryTime + 1) ELSE 0
    /\ silence' = Smaller(silence + 1, HeartbeatTimeout + 1)
    /\ UNCHANGED <<client, healthy>>

LinkNext ==
    \/ Start \/ Stop \/ GoSilent \/ GoHealthy \/ Tick
    \/ \E c \in sockets : Frame(c) \/ SocketError(c)
    \/ \E t \in timers : WatchdogFires(t) \/ RetryFires(t)

LinkSpec == LinkInit /\ [][LinkNext]_linkVars
------------------------------------------------------------------------------
\* No connection and no timer outlives its field: every socket still open is
\* the one in use (a browser allows six per host, and a leaked one would feed
\* the wall twice), every pending timer can be cleared, and a stopped client
\* holds none.
NothingLeaks ==
    /\ \A c \in sockets : c.id = source
    /\ \A t \in timers : t.handle = IF t.job = "retry" THEN retryTimer ELSE watchdog
    /\ stopped => sockets = {} /\ timers = {}

\* A client that runs is never stuck: it holds a watched socket or it has a
\* retry under way, and never both, which would make a second connection.
NeverStuck ==
    ~stopped =>
        /\ Cardinality(timers) = 1
        /\ (source # None) <=> \E t \in timers : t.job = "watchdog"
        /\ failing <=> \E t \in timers : t.job = "retry"

\* The wall is never left without news: it polls as soon as nothing came for
\* HeartbeatTimeout, however open the socket looks, and stops when it is live.
NeverBlind ==
    ~stopped =>
        /\ silence > HeartbeatTimeout => polling
        /\ failing => polling
        /\ live => ~polling

\* Once the server is healthy the wall is live within RecoveryTime, whatever
\* state the outage left it in, and it stays so.
RecoversInTime == calm > RecoveryTime => live

\* A socket that gets its heartbeats is not given up: every frame of whatever
\* kind postpones the watchdog.
HealthyStreamIsKept ==
    [][\A c \in sockets : c.due # Mute /\ healthy' /\ ~stopped' =>
          \E d \in sockets' : d.id = c.id]_linkVars

\* The client hangs by one lifeline: nothing leaks, and it is never stuck.
OneLifeline == TypeOK /\ NothingLeaks /\ NeverStuck
==============================================================================
