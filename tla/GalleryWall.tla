----------------------------- MODULE GalleryWall -----------------------------
(***************************************************************************)
(* The wall's planets (PlanetLoader.js) against the server's gallery: the  *)
(* repository, the event stream, the gallery fetches that overtake it, and *)
(* the drawing-manifest loads that decide whether a planet may stay.       *)
(* Planets are numbered in upload order.  LiveUpdates models the stream's  *)
(* timers and EventPublisher its queues; here a stream opens, delivers and *)
(* is cut.                                                                 *)
(***************************************************************************)
EXTENDS Integers, FiniteSets, Sequences, SequencesExt, Filters

CONSTANTS
    GallerySize,        \* GALLERY_SIZE of the wall, and the limit it asks for
    Retention,          \* planets the repository keeps (prune)
    QueueSize,          \* pending events per stream
    Browser,            \* "boot" has EventSource, "bare" does not
    LiveSlot,           \* bound: gallery fetches started by onLive, at once
    MaxUploads,         \* bound: planets uploaded in a behaviour
    MaxLiveUploads,     \* bound: the same where the browser has EventSource
    MaxWire             \* bound: frames on their way to the page

ASSUME ConstantsAssumption ==
    /\ GallerySize \in Nat \ {0}
    /\ Retention \in Nat /\ Retention >= GallerySize
    /\ QueueSize \in Nat \ {0}
    /\ Browser # {} /\ Browser \subseteq {"boot", "bare"}
    /\ MaxUploads \in Nat /\ MaxLiveUploads \in 0..MaxUploads
    /\ MaxWire \in Nat \ {0}
    /\ LiveSlot \cap {"boot", "poll"} = {}

Planet == 1..MaxUploads
Slot   == {"boot", "poll"} \cup LiveSlot

VARIABLES
    uploaded,       \* how many planets were ever uploaded
    store,          \* the planets in the repository
    up,             \* is the server up and within the wall's reach?
    stream,         \* where the wall's request to /api/events stands
    queue,          \* the events pending for it on the server
    wire,           \* the frames on their way to the page
    link,           \* where the page stands: bootstrap, then LiveUpdates, which
                    \* a browser without EventSource ("bare") has not ("absent")
    polling,        \* pollTimer # null
    fetch,          \* the gallery requests under way
    wall,           \* kidPlanets, in arrival order
    inStep,         \* history: the wall took an answer read since this stream
                    \* subscribed, and the stream lost no event since
    steady          \* history: uploads sent to a live wall while no fetch was
                    \* out, but for those whose manifest could not be read

serverVars  == <<uploaded, store>>
streamVars  == <<stream, queue, wire, link>>
historyVars == <<inStep, steady>>
vars == <<serverVars, up, streamVars, polling, fetch, wall, historyVars>>

Event == [kind : {"planet", "removed"}, id : Planet] \cup {[kind |-> "cleared"]}
Frame == Event \cup {[kind |-> "no planet"]}       \* has_planet: false, no id

\* A fetch, with the list it was answered, and (history) whether every change
\* made after that answer is on its way to the wall as an event.
Idle  == [stage |-> "idle", list |-> {}, fresh |-> FALSE]
Asked == [stage |-> "asked", list |-> {}, fresh |-> FALSE]
Answer(S, b) == [stage |-> "answered", list |-> S, fresh |-> b]

TypeOK ==
    /\ uploaded \in 0..MaxUploads
    /\ store \subseteq 1..uploaded
    /\ up \in BOOLEAN
    /\ stream \in {"none", "asked", "subscribed", "streaming", "cut"}
    /\ queue \in Seq(Event)
    /\ wire \in Seq(Frame)
    /\ link \in {"boot", "bare", "opening", "live", "down", "absent"}
    /\ polling \in BOOLEAN
    /\ fetch \in [Slot -> {Idle, Asked} \cup 
                           {Answer(S, b) : S \in SUBSET Planet, b \in BOOLEAN}]
    /\ wall \in Seq([id : Planet, loaded : BOOLEAN])
    /\ inStep \in BOOLEAN
    /\ steady \subseteq Planet

\* The page begins with bootstrap, which asks for the gallery.
Booting == [f \in Slot |-> IF f = "boot" THEN Asked ELSE Idle]

Init ==
    /\ uploaded = 0 /\ store = {} /\ up = TRUE
    /\ stream = "none" /\ queue = <<>> /\ wire = <<>> /\ link \in Browser
    /\ polling = FALSE
    /\ fetch = Booting
    /\ wall = <<>>
    /\ inStep = FALSE /\ steady = {}
------------------------------------------------------------------------------
\* What /api/planets?limit=GallerySize lists: the newest planets.
Newest(S, n) == {p \in S : Cardinality({q \in S : q > p}) < n}
Gallery      == Newest(store, GallerySize)

OnWall(w) == {w[i].id : i \in DOMAIN w}

\* Mutant of MakeRoomForOne: the comparison is one off.
MakeRoomLate(w) ==
    IF Len(w) > GallerySize THEN SubSeq(w, Len(w) - GallerySize + 2, Len(w)) ELSE w

\* Mutant of MakeRoomForOne: the latest arrival leaves.
MakeRoomLastIn(w) ==
    IF Len(w) >= GallerySize THEN SubSeq(w, 1, GallerySize - 1) ELSE w

\* makeRoomForOne: planets leave in the order they came.
MakeRoomForOne(w) ==
    IF Len(w) >= GallerySize THEN SubSeq(w, Len(w) - GallerySize + 2, Len(w)) ELSE w

\* add(payload): a planet the wall has is ignored, its manifest load is begun.
Add(w, p) ==
    IF p \in OnWall(w) THEN w ELSE Append(MakeRoomForOne(w), [id |-> p, loaded |-> FALSE])

\* The entries of w whose planets are in S, in their order.
Keep(w, S) == Only(w, [id : S, loaded : BOOLEAN])

TakeDown(w, p) == Keep(w, Planet \ {p})

\* The planets of list are added, the oldest first.
AddAll(w, list) ==
    LET after[p \in 0..MaxUploads] ==
            IF p = 0 THEN w
            ELSE IF p \in list THEN Add(after[p - 1], p) ELSE after[p - 1]
    IN  after[MaxUploads]

\* Mutant of Sync: planets that are no longer listed stay.
SyncAddsOnly(w, list) == AddAll(w, list)

\* The body of syncGallery: add what is listed, then take down what is not.
Sync(w, list) == Keep(AddAll(w, list), list)

\* handlePlanetEvent
Handle(w, e) ==
    CASE e.kind = "planet"    -> Add(w, e.id)
      [] e.kind = "removed"   -> TakeDown(w, e.id)
      [] e.kind = "cleared"   -> <<>>
      [] e.kind = "no planet" -> w

Listening == stream \in {"subscribed", "streaming"}

HasRoom   == Len(queue) < QueueSize
NoFetch   == \A f \in Slot : fetch[f] = Idle

\* An event was lost: the answers on their way are no longer the full story.
FallBehind ==
    /\ inStep' = FALSE
    /\ fetch' = [f \in Slot |-> [fetch[f] EXCEPT !.fresh = FALSE]]

\* A use case publishes: the wall's queue takes the event unless it is full.
Publish(e) ==
    /\ queue' = IF Listening /\ HasRoom THEN Append(queue, e) ELSE queue
    /\ IF Listening /\ ~HasRoom THEN FallBehind ELSE UNCHANGED <<inStep, fetch>>
    /\ UNCHANGED <<up, stream, wire, link, polling, wall>>

MayUpload == uploaded < IF link \in {"bare", "absent"} THEN MaxUploads ELSE MaxLiveUploads

\* SubmitPlanet: save, prune, publish.  A server the wall cannot reach may still
\* take drawings from the tablets.
Upload ==
    LET p == uploaded + 1 IN
    /\ MayUpload
    /\ uploaded' = p
    /\ store' = Newest(store \cup {p}, Retention)
    /\ steady' = IF link = "live" /\ Listening /\ HasRoom /\ NoFetch
                 THEN steady \cup {p} ELSE steady
    /\ Publish([kind |-> "planet", id |-> p])

Delete(p) ==
    /\ p \in store
    /\ store' = store \ {p}
    /\ Publish([kind |-> "removed", id |-> p])
    /\ UNCHANGED <<uploaded, steady>>

\* ClearPlanets announces itself even when there was nothing to clear.
Clear ==
    /\ store' = {}
    /\ Publish([kind |-> "cleared"])
    /\ UNCHANGED <<uploaded, steady>>

\* The server stops, crashes or is cut off, and comes back.
GoDown ==
    /\ up
    /\ up' = FALSE
    /\ stream' = IF stream = "none" THEN "none" ELSE "cut"
    /\ queue' = <<>>
    /\ FallBehind
    /\ UNCHANGED <<serverVars, wire, link, polling, wall, steady>>

GoUp ==
    /\ ~up
    /\ up' = TRUE
    /\ UNCHANGED <<serverVars, streamVars, polling, fetch, wall, historyVars>>

\* event_stream: subscribe, prime with the current planet, then forward events.
Accept ==
    /\ up /\ stream = "asked"
    /\ stream' = "subscribed"
    /\ UNCHANGED <<serverVars, up, queue, wire, link, polling, fetch, wall, historyVars>>

Prime ==
    /\ stream = "subscribed"
    /\ stream' = "streaming"
    /\ wire' = Append(wire, IF store = {} THEN [kind |-> "no planet"]
                            ELSE [kind |-> "planet", id |-> Max(store)])
    /\ UNCHANGED <<serverVars, up, queue, link, polling, fetch, wall, historyVars>>

Forward ==
    /\ stream = "streaming"
    /\ queue # <<>> /\ Len(wire) < MaxWire
    /\ wire' = Append(wire, Head(queue))
    /\ queue' = Tail(queue)
    /\ UNCHANGED <<serverVars, up, stream, link, polling, fetch, wall, historyVars>>

\* LiveUpdates.connect(): a request the server cannot be given goes nowhere.
Connect ==
    /\ link' = "opening"
    /\ stream' = IF up THEN "asked" ELSE "cut"
    /\ queue' = <<>> /\ wire' = <<>>
    /\ steady' = {}

Ask(f) == fetch' = [fetch EXCEPT ![f] = Asked]

\* A frame reaches the page.  The first one makes the wall live: polling stops
\* and the gallery is read again.  Then the planet event is handled.
TakeFrame ==
    /\ link \in {"opening", "live"}
    /\ wire # <<>>
    /\ wire' = Tail(wire)
    /\ link' = "live"
    /\ polling' = FALSE
    /\ \/ link = "live" /\ UNCHANGED <<fetch, steady>>
       \/ /\ link = "opening"
          /\ \E f \in LiveSlot : fetch[f] = Idle /\ Ask(f)
          /\ steady' = {}
    /\ wall' = Handle(wall, Head(wire))
    /\ UNCHANGED <<serverVars, up, stream, queue, inStep>>

\* tick(): one poll at a time.
PollTick ==
    /\ polling
    /\ fetch["poll"] = Idle
    /\ Ask("poll")
    /\ UNCHANGED <<serverVars, up, streamVars, polling, wall, historyVars>>

\* startPolling ticks at once.
StartPolling ==
    /\ polling' = TRUE
    /\ IF ~polling /\ fetch["poll"] = Idle THEN Ask("poll") ELSE UNCHANGED fetch

\* The stream fails: an error event, or the watchdog.
LinkFails ==
    /\ link \in {"opening", "live"}
    /\ stream = "cut"
    /\ link' = "down"
    /\ stream' = "none" /\ wire' = <<>>
    /\ StartPolling
    /\ steady' = {}
    /\ UNCHANGED <<serverVars, up, queue, wall, inStep>>

Retry ==
    /\ link = "down"
    /\ Connect
    /\ UNCHANGED <<serverVars, up, polling, fetch, wall, inStep>>

\* The server reads the repository and answers; the answer travels on its own.
Respond(f) ==
    /\ up
    /\ fetch[f] = Asked
    /\ fetch' = [fetch EXCEPT ![f] = Answer(Gallery, Listening)]
    /\ UNCHANGED <<serverVars, up, streamVars, polling, wall, historyVars>>

\* What follows a fetch: bootstrap connects, or polls where there are no streams.
AfterFetch(f) ==
    \/ /\ f # "boot"
       /\ fetch' = [fetch EXCEPT ![f] = Idle]
       /\ UNCHANGED <<streamVars, polling, steady>>
    \/ /\ f = "boot" /\ link = "boot"
       /\ fetch' = [fetch EXCEPT ![f] = Idle]
       /\ Connect
       /\ UNCHANGED polling
    \/ /\ f = "boot" /\ link = "bare"
       /\ fetch' = [fetch EXCEPT ![f] = Idle, !["poll"] = Asked]
       /\ link' = "absent"
       /\ polling' = TRUE
       /\ UNCHANGED <<stream, queue, wire, steady>>

\* The answer is applied, however old it has become.
Apply(f) ==
    /\ fetch[f].stage = "answered"
    /\ wall' = Sync(wall, fetch[f].list)
    /\ inStep' = (inStep \/ fetch[f].fresh)
    /\ AfterFetch(f)
    /\ UNCHANGED <<serverVars, up>>

\* Mutant of FetchFails: bootstrap goes on only when the gallery was read.
FetchFailsForGood(f) ==
    /\ fetch[f] # Idle
    /\ fetch' = [fetch EXCEPT ![f] = Idle]
    /\ UNCHANGED <<serverVars, up, streamVars, polling, wall, historyVars>>

\* Refused, not ok, or aborted after four seconds: the wall stays as it is, and
\* nobody asks again for the sake of this fetch.
FetchFails(f) ==
    /\ fetch[f] # Idle
    /\ AfterFetch(f)
    /\ UNCHANGED <<serverVars, up, wall, inStep>>

\* loadDrawingManifest of the i-th planet on the wall: it fails for a planet that
\* is gone, and for any while the server is out of reach (ManifestFails).
ManifestLoads(i) ==
    /\ up /\ ~wall[i].loaded /\ wall[i].id \in store
    /\ wall' = [wall EXCEPT ![i].loaded = TRUE]
    /\ UNCHANGED <<serverVars, up, streamVars, polling, fetch, historyVars>>

\* Mutant of ManifestFails: a planet without a manifest is shown all the same.
ManifestOptional(i) ==
    /\ ~wall[i].loaded
    /\ ~up \/ wall[i].id \notin store
    /\ wall' = [wall EXCEPT ![i].loaded = TRUE]
    /\ UNCHANGED <<serverVars, up, streamVars, polling, fetch, historyVars>>

ManifestFails(i) ==
    /\ ~wall[i].loaded
    /\ ~up \/ wall[i].id \notin store
    /\ wall' = TakeDown(wall, wall[i].id)
    /\ UNCHANGED <<serverVars, up, streamVars, polling, fetch, historyVars>>

\* It may also fail for one planet alone: the request is lost, or what it reads is
\* not a manifest.  The planet is taken down, and nobody asks for it again.
ManifestBreaks(i) ==
    /\ up /\ ~wall[i].loaded /\ wall[i].id \in store
    /\ wall' = TakeDown(wall, wall[i].id)
    /\ steady' = steady \ {wall[i].id}
    /\ UNCHANGED <<serverVars, up, streamVars, polling, fetch, inStep>>

\* The build watcher or someone at the kiosk reloads the page.
Reload ==
    /\ stream' = "none" /\ queue' = <<>> /\ wire' = <<>>
    /\ link' = IF link \in {"bare", "absent"} THEN "bare" ELSE "boot"
    /\ polling' = FALSE
    /\ fetch' = Booting
    /\ wall' = <<>>
    /\ inStep' = FALSE /\ steady' = {}
    /\ UNCHANGED <<serverVars, up>>

Next ==
    \/ Upload \/ Clear \/ \E p \in Planet : Delete(p)
    \/ GoDown \/ GoUp \/ Reload
    \/ Accept \/ Prime \/ Forward
    \/ TakeFrame \/ PollTick \/ LinkFails \/ Retry
    \/ \E f \in Slot : Respond(f) \/ Apply(f) \/ FetchFails(f)
    \/ \E i \in DOMAIN wall : ManifestLoads(i) \/ ManifestFails(i)
    \/ \E i \in DOMAIN wall : ManifestBreaks(i)

\* Every manifest that is there for the reading is read.
NoneBreaks == \A i \in DOMAIN wall : ~ManifestBreaks(i)

SafeSpec == Init /\ [][Next]_vars

\* The server and the page make progress, and timers, fetches and manifest loads
\* end.  A server that stays within reach answers some of the polls in time.
Fairness ==
    /\ WF_vars(Accept) /\ WF_vars(Prime) /\ WF_vars(Forward) /\ WF_vars(TakeFrame)
    /\ WF_vars(LinkFails) /\ WF_vars(Retry) /\ WF_vars(PollTick)
    /\ \A f \in Slot : WF_vars(Respond(f) \/ Apply(f) \/ FetchFails(f))
    /\ SF_vars(Respond("poll")) /\ SF_vars(Apply("poll"))
    /\ WF_vars(\E i \in DOMAIN wall : ManifestLoads(i) \/ ManifestFails(i))

Spec == SafeSpec /\ Fairness

\* The same wall where no manifest load breaks.
WholeSpec == Init /\ [][Next /\ NoneBreaks]_vars
------------------------------------------------------------------------------
Shown == OnWall(wall)

\* Nothing is under way: what the wall shows now, it shows until something happens.
Quiet ==
    /\ up /\ link = "live" /\ stream = "streaming"
    /\ queue = <<>> /\ wire = <<>>
    /\ NoFetch
    /\ \A i \in DOMAIN wall : wall[i].loaded

\* The wall never holds more than GallerySize planets, nor one of them twice,
\* whatever frames and answers are mixed.
WallFits == TypeOK /\ Len(wall) <= GallerySize /\ Cardinality(Shown) = Len(wall)

\* On a wall in step no planet stays that staff took down: an old answer may
\* bring it back, but its manifest is gone by then.  (Planets older than the last
\* Retention are pruned, and no event tells the wall.)
NoGhosts ==
    Quiet /\ inStep => \A p \in Shown : p \in store \/ p <= uploaded - Retention

\* A drawing sent to a live wall that is reading no gallery is shown, until
\* GallerySize newer ones have come or staff took it down, unless the wall could
\* not read its manifest: the code does not ask a second time.
LiveUploadsShow ==
    Quiet => \A p \in steady \cap store : p > uploaded - GallerySize => p \in Shown

\* The server stays within reach, and nobody goes on reloading or clearing.
Undisturbed == <>[]up /\ <>[][~Reload /\ ~Clear]_vars

\* Where the browser has no EventSource, polling brings the wall to the gallery:
\* an answer that makes the wall drop a listed planet is mended by the next one,
\* and so is a manifest that could not be read, unless that goes on for ever.
PollingConverges ==
    Undisturbed /\ <>[][NoneBreaks]_vars /\ <>[](link = "absent") => <>[](Shown = Gallery)

\* Every other undisturbed wall gets its stream back and comes to rest.
WallSettles == Undisturbed => <>[](Quiet \/ link = "absent")

\* docs/user/en/quick-start.md:129: "After an update, or a stop and a start, send
\* one planet. You should see it on the wall within about 15 seconds."  Under
\* WholeSpec: not even where every manifest can be read.
SentPlanetIsSeen ==
    Quiet /\ inStep /\ uploaded \in store => uploaded \in Shown
==============================================================================
