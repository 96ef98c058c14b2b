----------------------------- MODULE BehaviorSync -----------------------------
(***************************************************************************)
(* The wall's look (ProjectorBehaviorController.js) against the server's:  *)
(* effective behaviours are numbered in the order they come into force, by *)
(* a manager's change, which is published, or by the calendar, which is    *)
(* not.  They reach the wall as frames of the stream and as answers to     *)
(* refreshes, and tickets decide which answers come too late.              *)
(*                                                                         *)
(* A ticket says no more than which request came first and whether a later *)
(* one was applied.  So the refreshes under way are kept in the order of   *)
(* their tickets, and "ticket < appliedTicket" is the field late.          *)
(***************************************************************************)
EXTENDS Integers, Sequences, SequencesExt

CONSTANTS
    MaxChanges,     \* bound: behaviours that come into force after the first
    Capacity,       \* events between publisher and page, QueueSize among them
    MaxFlights      \* bound: refreshes under way at once

ASSUME SyncAssumption ==
    /\ MaxChanges \in Nat
    /\ Capacity \in Nat \ {0}
    /\ MaxFlights \in Nat \ {0}

Version == 0..MaxChanges
NoLook == -1               \* current = null, and an answer that did not come yet

VARIABLES
    version,        \* the behaviour in force on the server
    up,             \* is the server up and within the wall's reach?
    stream,         \* where the wall's request to /api/events stands
    channel,        \* the events on their way to the page, as versions
    link,           \* where the page stands
    pollTimer,
    flights,        \* the refreshes under way, in the order they were asked
    screen,         \* current
    heard,          \* history: the latest version a frame brought to this page
    gap             \* history: "none" if screen was read since the stream subscribed
                    \* and all that came after is on its way; else what is missing

serverVars == <<version, up>>
streamVars == <<stream, channel, link, pollTimer>>
syncVars == <<serverVars, streamVars, flights, screen, heard, gap>>

Flight == [why : {"boot", "poll", "live"}, answer : Version \cup {NoLook},
           late : BOOLEAN, fresh : BOOLEAN]

SyncTypeOK ==
    /\ version \in Version
    /\ stream \in {"none", "asked", "open", "cut"}
    /\ up \in BOOLEAN /\ pollTimer \in BOOLEAN
    /\ channel \in Seq(Version)
    /\ link \in {"boot", "opening", "live", "down"}
    /\ flights \in Seq(Flight) /\ Len(flights) <= MaxFlights
    /\ screen \in Version \cup {NoLook} /\ heard \in Version \cup {NoLook}
    /\ gap \in {"none", "calendar", "lost"}

\* refresh() takes its ticket when it asks.
Asked(why) == [why |-> why, answer |-> NoLook, late |-> FALSE, fresh |-> FALSE]

SyncInit ==
    /\ version = 0 /\ up = TRUE
    /\ stream = "none" /\ channel = <<>> /\ link = "boot" /\ pollTimer = FALSE
    /\ flights = <<Asked("boot")>>
    /\ screen = NoLook /\ heard = NoLook /\ gap = "lost"
------------------------------------------------------------------------------
Stale(fs) == [i \in DOMAIN fs |-> [fs[i] EXCEPT !.fresh = FALSE]]

\* The wall will not be told of something: what it has and what it has asked for
\* no longer add up.
FallBehind(why) ==
    /\ gap' = IF gap = "lost" THEN "lost" ELSE why
    /\ flights' = Stale(flights)

\* UpdateGalaxyBehavior: save, resolve, publish.
ChangeBehavior ==
    /\ version < MaxChanges
    /\ version' = version + 1
    /\ IF stream = "open" /\ Len(channel) < Capacity
       THEN channel' = Append(channel, version') /\ UNCHANGED <<gap, flights>>
       ELSE FallBehind("lost") /\ UNCHANGED channel
    /\ UNCHANGED <<up, stream, link, pollTimer, screen, heard>>

\* Midnight: the resolver gives another theme, and no one publishes it.
DayRolls ==
    /\ version < MaxChanges
    /\ version' = version + 1
    /\ FallBehind("calendar")
    /\ UNCHANGED <<up, streamVars, screen, heard>>

GoDown ==
    /\ up
    /\ up' = FALSE
    /\ stream' = IF stream = "none" THEN "none" ELSE "cut"
    /\ FallBehind("lost")
    /\ UNCHANGED <<version, channel, link, pollTimer, screen, heard>>

GoUp ==
    /\ ~up
    /\ up' = TRUE
    /\ UNCHANGED <<version, streamVars, flights, screen, heard, gap>>

\* The server takes the stream of a page that waits for one.
AcceptStream ==
    /\ up /\ stream = "asked"
    /\ stream' = "open"
    /\ UNCHANGED <<serverVars, channel, link, pollTimer, flights, screen, heard, gap>>

\* The first frame (the prime, of a planet) makes the wall live: onLive refreshes.
GoLive ==
    /\ link = "opening" /\ stream = "open"
    /\ Len(flights) < MaxFlights
    /\ link' = "live"
    /\ pollTimer' = FALSE
    /\ flights' = Append(flights, Asked("live"))
    /\ UNCHANGED <<serverVars, stream, channel, screen, heard, gap>>

\* Mutant of TakeFrame: a frame takes no ticket, so nothing becomes late.
TakeFrameUnticketed ==
    /\ link = "live"
    /\ channel # <<>>
    /\ screen' = Head(channel)
    /\ heard' = Head(channel)
    /\ channel' = Tail(channel)
    /\ UNCHANGED <<serverVars, stream, link, pollTimer, flights, gap>>

\* handleEvent: a frame takes the next ticket, so it is never late, and every
\* refresh asked before it is.
TakeFrame ==
    /\ link = "live"
    /\ channel # <<>>
    /\ screen' = Head(channel)
    /\ heard' = Head(channel)
    /\ channel' = Tail(channel)
    /\ flights' = [i \in DOMAIN flights |-> [flights[i] EXCEPT !.late = TRUE]]
    /\ UNCHANGED <<serverVars, stream, link, pollTimer, gap>>

\* tick(): one poll at a time.
TickPoll(fs) ==
    IF \E i \in DOMAIN fs : fs[i].why = "poll" THEN fs ELSE Append(fs, Asked("poll"))

PollTick ==
    /\ pollTimer
    /\ Len(flights) < MaxFlights
    /\ flights' = TickPoll(flights)
    /\ UNCHANGED <<serverVars, streamVars, screen, heard, gap>>

LinkFails ==
    /\ link \in {"opening", "live"} /\ stream = "cut"
    /\ Len(flights) < MaxFlights
    /\ link' = "down"
    /\ stream' = "none" /\ channel' = <<>>
    /\ pollTimer' = TRUE
    /\ flights' = IF pollTimer THEN flights ELSE TickPoll(flights)
    /\ UNCHANGED <<serverVars, screen, heard, gap>>

\* LiveUpdates.connect(): a request the server cannot be given goes nowhere.
Connect ==
    /\ link' = "opening"
    /\ stream' = IF up THEN "asked" ELSE "cut"

Retry ==
    /\ link = "down"
    /\ Connect
    /\ UNCHANGED <<serverVars, channel, pollTimer, flights, screen, heard, gap>>

\* Does the last event under way, if any, tell of the behaviour in force?
ToldAll == stream = "open" /\ (channel = <<>> \/ Last(channel) = version)

\* GetGalaxyBehavior answers with what is in force.
Respond(i) ==
    /\ up
    /\ flights[i].answer = NoLook
    /\ flights' = [flights EXCEPT ![i].answer = version, ![i].fresh = ToldAll]
    /\ UNCHANGED <<serverVars, streamVars, screen, heard, gap>>

\* bootstrap opens the stream once its refresh is over, however it ended.
AfterFlight(i) ==
    /\ IF flights[i].why = "boot" THEN Connect ELSE UNCHANGED <<link, stream>>
    /\ UNCHANGED <<serverVars, channel, pollTimer, heard>>

\* Mutant of Land: an answer is applied however late it comes.
LandAnyway(i) ==
    /\ flights[i].answer # NoLook
    /\ screen' = flights[i].answer
    /\ gap' = IF flights[i].fresh THEN "none" ELSE "lost"
    /\ flights' = RemoveAt(flights, i)
    /\ AfterFlight(i)

\* apply(): a refresh older than the one on screen is dropped; one that is
\* applied makes those asked before it late.
Land(i) ==
    /\ flights[i].answer # NoLook
    /\ IF flights[i].late
       THEN /\ flights' = RemoveAt(flights, i)
            /\ UNCHANGED <<screen, gap>>
       ELSE /\ screen' = flights[i].answer
            /\ gap' = IF flights[i].fresh THEN "none" ELSE "lost"
            /\ flights' = RemoveAt([j \in DOMAIN flights |->
                              [flights[j] EXCEPT !.late = @ \/ j < i]], i)
    /\ AfterFlight(i)

\* Not ok, refused, or aborted after four seconds.
FlightFails(i) ==
    /\ flights' = RemoveAt(flights, i)
    /\ AfterFlight(i)
    /\ UNCHANGED <<screen, gap>>

SyncNext ==
    \/ ChangeBehavior \/ DayRolls \/ GoDown \/ GoUp
    \/ AcceptStream \/ GoLive \/ TakeFrame \/ PollTick \/ LinkFails \/ Retry
    \/ \E i \in DOMAIN flights : Respond(i) \/ Land(i) \/ FlightFails(i)

SyncSpec == SyncInit /\ [][SyncNext]_syncVars
------------------------------------------------------------------------------
Quiet == up /\ link = "live" /\ stream = "open" /\ channel = <<>> /\ flights = <<>>

\* A refresh that was under way when a frame arrived cannot put an older look
\* back: the wall never shows less than the last frame brought.
NeverUndone == screen >= heard

\* Frames, refreshes and late answers together leave a wall in step with the
\* behaviour in force, once nothing is under way.
InStepConverges == Quiet /\ gap = "none" => screen = version
==============================================================================
