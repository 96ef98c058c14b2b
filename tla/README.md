# Kids Galaxy: a TLA+ model of the projector system

Children draw planets on a tablet; a galaxy server stores them and shows them on
a projected wall; staff take planets down, clear names and choose the look from a
second tablet. This directory holds TLA+ modules for the parts of that system
whose correctness depends on *order, failure or time*, the TLC configurations that
check them, and proofs, for every value of their constants, of their safety
properties: of the event publisher, the wall's live connection, gallery and look, the
upload folder and the cooldown, both tablets and the calendar of the galaxy's themes, a
planet's way from its picture to its hero frame, its resources, the sky, the words, the
pointer and the build watcher, and of the algorithms that turn a drawing into the
surface of a planet. Source
paths are relative to the repository root; `projector/` stands for `src/pi-server/static/projector/`.

Contents: 1 the system · 2 modules and code · 3 runs, bounds and what they show ·
4 fairness and time · 5 proofs · 6 where the code and its texts disagree ·
7 what is not modelled · 8 plan · 9 running it.

## 1. The system

### Components, their state and how they talk

| Component | State it keeps | Operations | Talks to |
|---|---|---|---|
| Kid tablet (`android/app`) | a drawing per galaxy, one send in flight, the step of the screen | draw, fill, undo, send, start anew, turn, change galaxy | `POST /api/planets` |
| Manager tablet (`android/manager`) | the listed gallery, the chosen behaviour | refresh, delete, clear, clear names, set behaviour | manager routes |
| Planet use cases (`use_cases.py`, `routes.py`) | none | submit, delete, clear, clear names, list | repository, limiter, publisher |
| Upload cooldown (`rate_limiter.py`) | map client → wall-clock reading | `check`, `record`, `_evict_stale` | called by SubmitPlanet |
| Planet repository (`filesystem_repository.py`, `planet_privacy.py`) | a folder: per planet an image, metadata, a drawing manifest | `save`, `delete`, `clear`, `prune`, `clear_names`, listings | the file system |
| Behaviour use cases (`behavior_use_cases.py`, `behavior.py`, `behavior_repository.py`) | one JSON file | get, update; the seasonal resolver | repository, publisher |
| Event publisher (`event_publisher.py`) and stream (`sse.py`) | one bounded queue per stream, a closing flag | `publish`, `subscribe`, `request_disconnect`, the stream generator | every open page |
| Wall live client (`LiveUpdates.js`) | socket, retry timer, watchdog, flags | `start`, `stop`, `connect`, `fail`, `noteActivity` | the stream; calls onLive/onOffline |
| Wall gallery (`PlanetLoader.js`) | the planets on screen, poll timer | bootstrap, `add`, `remove`, `clear`, `syncGallery`, polling | gallery and manifest requests, the scene |
| Wall behaviour (`ProjectorBehaviorController.js`) | current look, two ticket counters | `refresh`, `handleEvent`, `apply` | behaviour requests, the scene |
| Build watcher (`ProjectorBuildWatcher.js`) | the build of the page, a guard in sessionStorage | `observe` | the build header of gallery answers; reloads the page |
| Manifest maps client (`ManifestMapsClient.js`) and worker | requests by number, a broken flag | request, reply, failure, build on the page | a worker |
| Snapshot publisher (`ProjectorSnapshotPublisher.js`) | timers, a chain of captures, pending names | `schedule`, capture, upload with retries, `whenIdle` | the renderer, the server |
| Planet entity (`PlanetEntity.js`) and the stages of `galaxy.js` that wrap it | meshes, materials, textures, companions | construct, apply texture and surface, update, dispose | three.js |
| Stroke maps, relief, accents (`ManifestMaps.js`, `ReliefFields.js`, `FrontViewProjection.js`, `BeveledPatchRelief.js`, `PolarMagnetSweep3D.js`, `PlanetSurface.js`) | none | from strokes or pixels to colours, heights, normals | the entity |
| Sky (`GalaxyScene.js`, `GalaxyEnvironment.js`, `ThemedGalaxyEnvironment.js`, …) | belt, comets, fly-bys, particles, lights | apply a behaviour, frame | the scene |
| Words (`CelebrationEffect.js`) | title, status, card, their timers | arrival, theme, language, clear, failure | the page |
| Shuttle pointer (`ShuttlePointer.js`) | heading, two timers | move, leave | the page |
| Exports, validation, configuration, scripts | none that others read back | | |

A drawing travels like this. The tablet posts it; SubmitPlanet asks the limiter,
validates, saves three files, prunes the folder to its retention, records the
upload and publishes `planet`. The publisher offers the event to a queue per open
stream; each stream's generator frames what its queue gives. On the wall the first
frame makes the stream "live": polling stops and the gallery is read once more
(`syncGallery`), because events published while there was no stream were never
sent. Every planet then loads its drawing manifest, and one whose manifest cannot
be had is taken down. Deletes and clears travel as events too; pruning and name
clearing publish nothing.

On the page the planet's picture is loaded, its surface maps are asked of a worker
(or built on the page where there is none or it has failed), the relief mesh is
raised from them, and when the surface is done or has failed a hero frame is
captured with the wall's own renderer and sent to the server. Meanwhile behaviours
change the theme: companions are swapped, the sky is cleared and made again, and
the words change their language.

### What is hard here

* **Two channels that overtake each other.** Gallery and behaviour answers travel
  beside the event stream. An answer is a snapshot of the past by the time it is
  applied.
* **Bounded queues.** A slow page loses events, and a graceful stop must still get
  its signal into a full queue.
* **A server that goes silent without an error**, timers that race error events,
  `stop()` and `start()` around pending retries.
* **Silent changes**: prune, name clearing and midnight alter what the wall ought
  to show, without an event.
* **Three files per planet, no transaction**: any operation can fail, the process
  can die between any two, and name clearing copies before it unlinks.
* **A wall clock that is set** while cooldowns run.
* **A worker that dies, or answers a planet that is gone**, and captures that queue
  for one borrowed renderer while planets leave.
* **Stages that wrap one another** (`galaxy.js` installs eight, and two around them), several of which
  swap the same companions, meshes and shadows; GPU resources are freed by hand.
* **Grids that wrap in longitude and end at the poles**, in every algorithm of the
  surface: what is painted, measured, raised, welded and twisted must close.
* **A page that reloads itself** while caches and rollbacks hand it old code.
* **A tablet whose calls overlap**: listings, deletions and changes of settings whose
  answers come late, in another order than they were asked, or never.

`PROJECT.json` lists the hazards one by one, each at its line, with the properties
that would catch it.

### What makes each part correct

* Publisher: bounded backlog; the stop always reaches every stream; what a page
  gets is in order, and only a full queue explains a gap.
* Live client: never two sockets, never two retries, never neither; never blind
  without polling; live again in bounded time.
* Gallery: bounded and without duplicates; no planet staff took down; live uploads
  shown; polling converges; the wall always gets back to a live stream.
* Behaviour: a late answer never undoes a newer frame; a wall in step shows what is
  in force.
* Cooldown: holds for its whole time, ends, and needs bounded memory.
* Repository: accepted uploads are whole; a removed planet leaves nothing; cleared
  names are gone; name clearing loses no drawing; retention holds.
* Planet intake: whoever waits for a surface gets the own one or an error (the code
  breaks this in one place, section 6); the live renderer is always given back; every
  planet that stays and was answered is shot, none that is gone
  is uploaded.
* Entity: every resource freed once and none before its last use; the stages agree
  on costumes, shadows and the sweep.
* Surface: what the child left empty stays empty; ribbons close; the mesh has no
  visible seam; accents are the child's strongest gestures.
* Sky and words: what is seen and said is of the last behaviour, and nothing that
  was cleared stays; cards and the shuttle go when their time is over.
* Build watcher: an update arrives, and no page reloads in a loop.
* Kid's tablet: nothing the server does not have is cleared away under a success, and
  a planet is stored twice only if an answer was lost or the child asked for it.
* Manager's tablet: no button stays disabled; no planet that is gone and no cleared
  name stays on the screen once the answers are in; a tap changes what was tapped.
* Seasons: every holiday a region keeps is worn on its day, a season is one run of
  days, and a disabled theme is never worn.

## 2. Modules and code

```
EventFanout   <--refines--  EventPublisher  <--  EventPublisher_proof
LiveUpdates, BehaviorSync  <--  MCLiveUpdates, LiveUpdates_proof
Filters  <--  PlanetStore  <--  MCPlanetStore, PlanetStore_proof
Filters  <--  GalleryWall  <--  GalleryWall_proof
              (wall gallery composed with repository, stream and fetches)

WallEntities  <--  SurfaceWorker, SnapshotPublisher  <--  PlanetIntake
                                   <--  MCPlanetIntake     (PlanetMaking_proof)
Filters, Lists  <--  StrokeMaps  <--  PlanetMesh  \
         Lists  <--  AccentShapes                 /  MCPaintedBody
                                              (PlanetMaking_proof)
PlanetParts  <--  PlanetEntity  \
   GalaxySky, CelebrationEffect  }  MCWallPage
   ShuttlePointer, BuildWatcher /       (WallPage_proof)
Filters  <--  DrawingSession  \
   RateLimiter, ManagerConsole  }  MCTablets
   SeasonalTheme, PlanetStore  /        (Tablets_proof)

Filters  <--  DataInduction   (what the proofs of GalleryWall, PlanetStore, Tablets and
                               PlanetMaking say of recursion, induction and filters)
```

Each `MC*.tla` instantiates for TLC the modules it extends; MCLiveUpdates,
MCPaintedBody, MCWallPage and MCTablets put several side by side, one of which moves in
a behaviour: `part` names it.
Operators whose comment begins with "Mutant" are deliberate bugs kept beside the
definition they replace; they are used nowhere else and show that a property is able
to fail.

**Filters** holds the one filter of lists (`Only`) that gallery, folder and drawings
share, as a recursive function, so that it can be proved about. **Lists** has, in the
same form, the sum of a list (`Total`) and the list of a set in a given order (`Listed`).

**EventFanout** is the abstract promise: numbered events, streams that join, see
later events in order and each at most once, leave, and are let go after a
shutdown. There are no queues in it.

**EventPublisher** models `InMemoryEventPublisher` and `event_stream`. All of it
runs on one asyncio loop, so an action is the code between two awaits. An event is
its publication number. `Publish` is `publish` (`put_nowait` under
`suppress(QueueFull)`), `RequestDisconnect`/`OfferStop` are `request_disconnect`
and `_offer_stop`, `Subscribe`, `Prime`, `Forward`, `TakeStop`, `NoticeHangUp` are
the turns of the generator, `Release` is leaving the `async with` block. `joined`,
`sent` and `dropped` are history.

**LiveUpdates** models `LiveUpdates.js` field by field, with the browser's timers
and sockets, the polling flag that `onOffline`/`onLive` toggle in `PlanetLoader.js`,
and a server that is healthy or silent. Handles of timers and sockets are values,
so a timer the code forgot to clear stays in `timers` and is seen. `fail`,
`connect`, `Start`, `Stop`, `Frame` (`noteActivity`), `WatchdogFires`, `RetryFires`
bear the names of what they model.

**GalleryWall** composes the wall's gallery with the server's: upload, delete,
clear and prune on the repository; the bounded stream queue and the frames on the
wire; bootstrap, `syncGallery`, polling, `onLive`, `onOffline`; a fetch in three
stages (asked, answered, applied) so that an answer can age; manifest loads, which
fail for planets that are gone, for all while the server is out of reach
(`ManifestFails`), or for one planet alone (`ManifestBreaks`); reloads. Planets are numbered by upload. `Add`, `MakeRoomForOne`, `Sync`, `Handle`
are the pure bodies of `add`, `makeRoomForOne`, `syncGallery`,
`handlePlanetEvent`. The stream's timers are abstracted to "the client notices a
cut stream, and retries"; LiveUpdates shows that this takes bounded time.
`inStep` and `steady` are history.

**BehaviorSync** models the tickets of `ProjectorBehaviorController.js` against the
get and update use cases, with midnight as an unpublished change. The two counters
matter only through "was a later ticket applied", so the refreshes under way are
kept in ticket order and carry that as a flag `late`; the model is finite without
cutting the counters off.

**RateLimiter** models `check`, `record` and `_evict_stale` with the clock set
forward and back. Ties in `sorted(...)` are left open, since they depend on
insertion order.

**PlanetStore** models the folder. A handler is a list of blocks of file
operations; `Step` does the next one, `Fail` raises `OSError` instead and follows
the handler's own rule (log and skip, or give up), `Crash` ends the process. Opening
a file to write truncates it, so a write that is interrupted, by either, did nothing
or left the file torn (`Interrupted`). Reading may fail as well: an image or a drawing
that cannot be read ends `clear_names` before it writes, metadata that cannot be read
counts as empty (`Unreadable`), which no caller hears of. `Submit`, `Delete`,
`ClearPlanets` and `ClearNames`/`ClearGroup` build the lists. The order in which a
directory lists the files of one group is open. The handlers are async functions
that do not await between file operations, so one runs at a time.

**SurfaceWorker** models `ManifestMapsClient.js` with the worker behind it: numbered
requests, two message queues, a worker that dies at any moment with an error event,
a `postMessage` that throws, and the build on the page these failures fall back to.
One failure does not: maps that came back and cannot be put on canvases (`Resolve`)
throw after their request was struck off, and who asked is "lost", told nothing ever.
**SnapshotPublisher** models `ProjectorSnapshotPublisher.js`: the two deferrals and
the timer before a capture, the chain of captures, up to three framings at growing
distances, the renderer that is borrowed and given back whatever throws, the slow
encoding, uploads with retries, and `whenIdle` with its deadline. A planet is its
radius and how far its parts reach beyond it. **PlanetIntake** composes both with
`loadTexture`, `remove` and `rebuildAll` of `PlanetLoader.js`; **WallEntities** holds
what they share: entities, the planet each shows, and which are disposed.

**StrokeMaps** models `ManifestMaps.js`, `ReliefFields.js` and
`FrontViewProjection.js`: `strokeProjection`, `makePeriodic`, painting in order,
`choosePoleOwners` and the caps, `fillInternalBandGaps`, the disc of a front view and
its mirrored back, `relaxDistanceField` with its four sweeps, and the level of each
layer. Grids are small and integers stand for fractions (thousandths of the drawing,
hundredths of an opacity); the colour of a texel is the set of strokes that went into
it, which is what bridging, blending and capping can get wrong. **PlanetMesh** models
`BeveledPatchRelief.js` and `PolarMagnetSweep3D.js` (vertices, heights, the faces a
normal is averaged from, welding before and after the sweep) and the index arithmetic
of bowls and mountain ranges in `PlanetEntity.js`; the normal of a vertex is the set
of faces it is summed from, so two vertices look alike exactly when the sets are the
same. **AccentShapes** models the part of `PlanetSurface.js` that decides what is
molded on a planet without a manifest: votes per cell, the dominant colour, closing,
components, scoring, the four that are kept, styling, and the erosions that make them
fit. The crease at 0.38 and 0.42 of coverage is taken over the cells as the code has
it.

**PlanetEntity** models `PlanetEntity.js` together with the stages that `galaxy.js`
wraps around it, in the order of installation, as one machine of GPU resources: what
is allocated, what hangs in the planet's mesh or beside it, what `retire` keeps for
later and what `dispose` frees. `dispose` walks geometries and materials; the instance
buffers of a ring belong to its meshes, and stay (`InstanceBuffers`). A resource is a record of where it belongs, so
freeing it twice or using it afterwards can be seen. **PlanetParts** lists the parts
of each style, with the shadows and hues the stages set in turn. **GalaxySky** models
the scene, the environment and the themed stage over it: behaviours, the belt, the
timers of comets and fly-bys, particles, lights. **CelebrationEffect** models the
words and the timers, each text as what it says and in which language.
**ShuttlePointer** models the pointer in whole degrees, and **BuildWatcher** the
reload on a new build, against a server that is updated and rolled back, caches that
return old pages, and a browser that may refuse storage. All five meet only in the
behaviours a manager sends.

**DrawingSession** models the kid's tablet: `Drawing.kt` (background, strokes, `undo`,
`clear`, `withCanvasSize`), `DrawingViewModel.kt` with one state per galaxy, and of
`PlanetDrawerScreen.kt` the three steps and the dialogs that say what may be tapped
when. A call is asked, stored or refused, and then answered or lost; okhttp may send it
again after a broken connection (`ResendSend`). `Turn` makes the activity anew and lays
the canvas out in another size; `ProcessDies` ends the app, which saves the step and
the galaxy but not the drawings. A stroke remembers the surface it was drawn on, and
`reach` is the view model that the gestures of the canvas go to: the screen keys neither
`pointerInput` nor the flag for the measurement by galaxy. `due`, `left` and `landed` are
history: copies the server may still be given, whether the galaxy was changed around a
send, and the drawing a success is about.

**ManagerConsole** models `ManagerViewModel.kt` and the routes it calls. Its two
halves, the planets and the settings, share no state. A coroutine of the view model
is a call with its stages: asked, answered (the server has done it, the answer is on
its way), taken. It may be refused; the connection may break or time out before the
server has seen it or after, and then the server may still do it (`abandoned`).
`deletePlanet`, `clearAll`, `clearPlanetNames`, `refresh`, `refreshBehavior` and
`updateBehavior` (behind every setter) start the calls with the guards of the code;
`Answered`, `Reenabled` and `Reset` are what `_uiState.update` makes of an answer, a
refusal or an exception. `Wrong` is what a screen shows that is no longer so;
`excused` and `doubt` are history: what an answer that was lost or overtaken may leave
wrong. **SeasonalTheme** models `SeasonalThemeResolver` over ordinals of days:
`nth_weekday`, `easter_sunday` and `resolve` line by line, `Effective` with the
enabled themes, and `datetime.date` as external. Its references are written
independently of the code: Easter by golden number and epact instead of the
Meeus formula, the Mondays of a month by counting.

## 3. Runs, bounds and what they show

| Run | Checks | Bounds | Distinct states |
|---|---|---|---|
| `publisher` | StopIsPending, NothingSlipsBy; StreamsEnd, ImplementsFanout | 2 streams, queue of 2, 4 events | 117 516 |
| `live_updates` | OneLifeline, NeverBlind, RecoversInTime, NeverUndone, InStepConverges; HealthyStreamIsKept | 2 sockets, 3 timer handles, the real delays in half-second ticks; 3 changes of look, 2 frames and 3 refreshes under way | 594 175 |
| `wall_safety` | WallFits, NoGhosts, LiveUploadsShow | wall of 2, repository of 4, 3 uploads, queue 1, wire 1 | 1.4 million |
| `wall_live` | PollingConverges, WallSettles | wall of 2, repository of 2, queue 1, wire 1; 3 uploads without EventSource, 2 with | 136 380 |
| `tablets` | DrawingIsSafe, CooldownIsFair, ConsoleIsTrue, CalendarIsRight, NamesAreGone, DrawingsStay, PlanetsAreWhole, RetentionHolds | 2 galaxies, 2 surfaces, 1 colour, 1 stroke; 3 clients, a map of 2, cooldown 3, 6 ticks, drift 2 each way; 2 planets, 2 settings, 2 and 3 open calls; 7 regions in 2000 to 2120; in the folder 2 uploads, one of them without a name, retention 1, 3 faults | 1.2 million |
| `planet_intake` | AnswersAreRight, CaptureIsClean, IdleMeansDone; NoUploadForTheGone, EveryPlanetIsShot | 3 entities of 2 planets, 2 of them made | 518 698 |
| `surface` | PaintIsKept, ReliefFollowsPaint, SurfaceCloses, MeshIsSmooth, AccentsAreTidy | 12 strokes, alone and in pairs with 5 bands, two renderings; 243 pictures | 1 933 |
| `page` | ResourcesBalance, StagesAgree, SkyIsInStep, WordsAreInStep, ShuttleFades, NoReloadLoop, PageComesAlive | drawings of every style, 3 behaviours, 5 words, 5 moves, 3 builds | 56 079 |
| `wall_seen`, `planet_lost`, `planet_store_again`, `tablet_turned` | one property each, found violated | small, see the configurations | see section 6 |

Why the bounds are enough to meet the interesting cases:

* **publisher.** A queue of two and four events fill a queue, drop from it, drain
  it and fill it again; the stop pushes an event out, comes twice, and meets a
  stream that subscribes late. Two streams show that one stalled page does not
  cost the other. The proofs of section 5 drop the bounds for the safety part.
* **live_updates.** Ticks are half a second, so 12, 4, 1 and 10 are the code's 6 s
  watchdog, 2 s heartbeat, 0.5 s first and 5 s last retry delay. Two sockets and
  three handles are one more than the client ever ought to hold. `attempt` stops
  counting at `MaxStep`, where the code's own cap stops its effect.
  `RecoversInTime` gives 26 ticks, 13 s: a dead socket just opened (6 s), the
  longest delay (5 s) and the first heartbeat (2 s). It is tight: 25 ticks fail.
  Of the look, three refreshes are the most the wall has: one of a former
  outage, one poll, the one of `onLive`.
* **wall_safety, wall_live.** Three uploads on a wall of two force an eviction while
  old answers are in flight. A repository of four keeps pruning out of
  `wall_safety`; `wall_live` has two places on both sides, so that the third upload
  prunes, in browsers with EventSource and without (three uploads without, two
  with).  `NoGhosts` is checked without pruning: with two places on both sides a
  pruned planet may stay on a wall that primes out of order, because prune publishes
  nothing; the shipped configuration keeps 30 planets and shows 12, and
  `PollingConverges` shows that a poll takes it down. One frame on the wire and one
  in the queue let two events be under way and lose the third.
* **tablets.** Two galaxies let one send while the other is drawn in, and two surfaces
  are one turn; strokes are alike, so one stands beside the bucket's fill for all. (Two
  strokes were checked once, with 3.3 million states.) Three clients and a map of two: the third upload forces out an
  entry, stale or not; time is bounded, so this part may stop. Two open calls about
  planets overtake each other in every order, and a free slot takes the next, so that
  behaviours of any length are met; three about settings are a change under way, one
  the tablet gave up that is still to happen, and a read. Two planets tell "this row"
  from "all rows", two settings the one that was tapped from the others. Every
  value of Easter's moon occurs within nineteen years and its days of the week within
  a few cycles; 2100 is the century that is not a leap year, 2000 the one that is.
* **tablets, the folder.** Of two uploads one is stored under the neutral name and one is
  renamed; with a retention of one the second prunes the first. Three faults are a
  crash between the unlinks, one in the write of the run that repairs it, and one in
  the run after that, which is what it takes to lose an image (section 6); a reading that
  fails is a fault as well, and one more in the write that follows is a second. Three
  uploads, a retention of two and two faults were checked once, with 2.5 million
  states.
* **planet_intake.** Two planets, or one that is taken down and comes back or is
  rebuilt: two is the least for a queue, two of one planet the least for a rebuild.
  One reaches so far beyond its bounds that no framing holds it,
  one needs the second framing, one fits at once; one build answers, one finds
  nothing, one throws. Everything may fail at any moment.
* **surface.** A texture of 8 by 14 texels has a seam, two pole rows and bands wide
  enough for a trench and for free sky. Twelve strokes (bands, a stroke from pole to
  pole, one from right to left, a dot, junk, one point) are painted alone and in
  pairs with five bands, in both renderings, and raised on a sphere of 6 by 4
  segments; the 243 pictures on a grid of 24 by 12 cells are every choice of a ground
  and two gestures. The cells and textures are smaller than the code's (96 by 48 and
  512 by 256), and thresholds are kept as fractions.
* **page.** Drawings of every style, with companions the themes swap and without,
  valid and broken, even and odd; five themes for the planet, three for the sky with
  seven behaviours that switch everything on and off; a unit is six seconds in the
  sky, about one in the words. Three behaviours in a row, five words, five moves,
  three builds, three updates and two stale pages are enough for everything to be
  undone once and done again.

Five runs switch deadlock detection off, `tablets`, `planet_intake`, `planet_lost`,
`surface` and `page`: their inputs are bounded and come to an end. (The folder, which
has no such end, was checked alone with detection on.)
A property of a run is often the conjunction of named parts (`SkyIsInStep` has six);
the parts are stated one by one above it in its module, each with the behaviour of
the code it is about.

Symmetry is used where nothing orders the values (sockets, timer handles, open calls,
planet ids of equal kind), and in no run that checks liveness.

## 4. Fairness and time

* **Publisher**: weak fairness per stream of its loop (`Prime`, `Forward`,
  `TakeStop`) and of noticing a page that hung up. The loop waits on the queue with
  a heartbeat timeout, so it always comes round; the server's event loop is fair.
  Pages need not subscribe, hang up, or read; nobody need publish or stop.
* **GalleryWall**: weak fairness of the stream's steps, of the client's reaction to
  a cut stream and its retries (timers run), and of every fetch ending one way or
  another (it is aborted after four seconds). Strong fairness of answering and of
  applying a poll, which is repeated: a server that stays in reach does not fail
  *every* poll for ever. Of the manifests under way one after the other loads or
  fails, weakly fair as a whole. The liveness
  properties assume in addition, as their antecedent, that the server stays within
  reach and nobody goes on reloading or clearing; `PollingConverges` also that not for
  ever some manifest that is there breaks (a poll mends each that does). `up` stands for "up and within
  the wall's reach"; uploads go on while it is false.
* **LiveUpdates** has no fairness. Recovery is a *bounded-time* safety property:
  `Tick` cannot pass a timer or a heartbeat that is due, so timers fire when they
  should. The model assumes exact timers and no delay on the wire; a browser that
  throttles timers adds its throttling. An `EventSource` constructor may throw only
  while the server is not healthy.
* **PlanetIntake**: the worker answers or dies, the page gets its messages and builds
  what it is to build, timers of a snapshot fire, a capture goes on to its end, an
  upload ends one way or another. A worker that hangs without an error event is
  outside: the code never times it out (section 6).
* **MCWallPage**: maps that were asked for come, fail, come too late or are lost on the
  way (`MapsLost`, after which `PageComesAlive` promises the planet nothing), frames are drawn, a page that is to read the gallery does or fails, and a
  reload that was begun is carried out. The server need not be updated, and no page
  need come back old. `FlightsReturn` speaks of flights that stay switched on.

## 5. Proofs

`EventPublisher_proof` proves, for any set of streams, any positive queue size and
any number of events, from `ConstantsAssumption` alone:

| Theorem | Statement |
|---|---|
| `TypeCorrect` | `SafeSpec => []TypeOK` |
| `BacklogIsBounded` | `SafeSpec => []BacklogBounded` |
| `StopAlwaysPending` | `SafeSpec => []StopIsPending` |
| `AlwaysInOrder` | `SafeSpec => []InOrder` |
| `NothingEverSlipsBy` | `SafeSpec => []NothingSlipsBy` |
| `RefinesFanout` | `SafeSpec => Fanout!SafeSpec` |

The inductive invariant `IndInv` is the conjunction of the five properties and
`SubscribersRun`: the subscriber set is exactly the set of generators that have not
left their `async with` block. None is inductive without it or without
the others. `StopIsPending` needs `SubscribersRun` because `TakeStop`, the only
step that removes a stop signal, also ends the stream. It needs
`BacklogBounded` because `OfferStop` frees one place and no more. `InOrder` speaks
of sent and pending events together, or `Forward` could not keep it. `NothingSlipsBy`
accounts for each event as sent, pending or dropped, and the steps move events from
one of these to the next. One lemma per conjunct shows
that it survives each action; small lemmas (`OfferType`, `OfferStopKeeps`,
`OrderedOffer`, …) say what the queue helpers do. `RefinesFanout` maps each step to
one of EventFanout, or to a stutter, with `seen` being the last event a stream sent
(or what had been published when it joined), and rests on `InOrder`: a forwarded
event is later than the last one.

`LiveUpdates_proof` proves the four properties of the live client, for any sockets,
timer handles and delays that `ConstantsAssumption` allows (a heartbeat comes sooner
than the watchdog, retries start at most at their ceiling):

| Theorem | Statement |
|---|---|
| `LifelineHolds` | `LinkSpec => []OneLifeline` |
| `WallIsNeverBlind` | `LinkSpec => []NeverBlind` |
| `WallRecoversInTime` | `LinkSpec => []RecoversInTime` |
| `HealthyStreamStays` | `LinkSpec => HealthyStreamIsKept` |

One invariant carries all four. A started client hangs by one thing (`Lifeline`): the
one timer of its retry (`Waiting(n)`, n ticks left), or one socket with its one
watchdog (`Watched(d, n)`, the next heartbeat in d ticks, the watchdog in n). The
bounds are in these two: time since the server became well and what a timer has left
never exceed a watchdog and the longest delay together, and a socket that has
heartbeats to come gets the next one before its watchdog fires. `Tick` is the hard
step; the others set what `Tick` counts.

It also proves, for any number of changes, of frames and of refreshes under way,
`LookIsNeverUndone` (`SyncSpec => []NeverUndone`) and `WallStaysInStep`
(`SyncSpec => []InStepConverges`), with `SyncTypeCorrect`. The invariant `SyncInv` says of every
refresh that is not late that its answer is no older than the last frame, and that
a fresh one agrees with the server as the screen does: with no frame on its way it
is the behaviour in force, else the last frame on its way is (`Agrees`).
`BootFirst` is needed because the end of bootstrap opens the stream: nothing can be
fresh while its refresh is under way.

`GalleryWall_proof` proves, for any number of uploads, sizes of the wall, the
repository, the queue and the wire, and any set of fetches, from `ConstantsAssumption`
(the repository keeps at least as many planets as the wall shows):

| Theorem | Statement |
|---|---|
| `WallAlwaysFits` | `SafeSpec => []WallFits` |
| `WallShowsNoGhosts` | `SafeSpec => []NoGhosts` |
| `LiveUploadsAreShown` | `SafeSpec => []LiveUploadsShow` |

`Sound` types the state and says that the wall fits: `Add`, `Sync` and the rest are
shown to keep any wall that fits, whatever list they are given, by induction along
that list. `Links` says how the ends of the stream go together. For `NoGhosts`,
`NewsComes` says that while a wall is in step every planet on it whose
manifest was loaded, and which is gone, has its removal coming (queued, or on the
wire), and likewise for those an answer lists that was read while the stream listened. Planets
that were pruned are excepted in NoGhosts (`p <= uploaded - Retention`), since no
event tells of them; the bound is the one the proof needs, as the
newest `Retention` uploads are never pruned. For `LiveUploadsShow`, `SteadyIdle` says that an upload counts only while
nothing is being read (one whose manifest breaks counts no longer), and `SteadyStays` follows one such planet (`Follows`): its news is on
its way with nothing behind it that would take it down, or it is on
the wall with only newer planets after it.

`PlanetStore_proof` proves, for any ids, any retention and any number of faults:

| Theorem | Statement |
|---|---|
| `FolderIsTyped` | `StoreSpec => []StoreTypeOK` |
| `NamesAreAlwaysGone` | `StoreSpec => []NamesAreGone` |
| `DrawingsAlwaysStay` | `StoreSpec => []DrawingsStay` |
| `RetentionAlwaysHolds` | `StoreSpec => []RetentionHolds` |
| `PlanetsAreAlwaysWhole` | `StoreSpec => []PlanetsAreWhole` |

Each property speaks of the moment a handler is done, so the invariant says of every
moment what the rest of its plan will still do. `Sound` and `Lists` fix the shape of
plans. `NamesGo`: every typed name that is left is in a group not yet looked at or is
about to go, unless the handler has failed. `Pictures` and `Kept`, of the planets in safety but for those exposed by a failed reading:
a good image bears the typed name, and goes only once a good copy is written; or its copy is good and
nothing will write it again. Groups may be looked at in any order, so this has to
know what earlier interrupted runs can have left: a copy never stands without its
metadata, which clear_names writes first (`ImagesAreMarked`), and of an image that was
never written whole there is no copy that looks whole (`CopiesAreTrue`). `Stored`: an upload stands s files before its end
(`Plan`, `Saved`), and the images there are and are to come, less those that are to be
removed, keep to the retention (`Room`). `Whole`, for a folder without faults: every
planet but the one under way is whole (`RestIsWhole`), a removal leaves nothing of its
planet (`Swept`), and a planet has one group, which holds all its files
(`GroupsAreWhole`).

`Tablets_proof` proves four things. Of the upload cooldown: `MapIsBounded`,
`CooldownAlwaysHolds`, `LockoutAlwaysEnds`
and the two together as `CooldownIsAlwaysFair`, with `LimiterIsTyped`, for any clients,
cooldown, ceiling and
clock changes. Neither half is inductive: `Bracketed` says that a
tracked reading is off by no more than what the clock was set by, and `Aged` that a
client which is neither tracked nor dropped for want of room has outlived its
cooldown, which is what makes eviction by age harmless.

Of the manager's console: `ConsoleStaysTrue` (`ConsoleSpec => []ConsoleIsTrue`),
for any planets, any settings and any number of open calls. Each half has its
invariant. Of the settings: one change is sent at a time and its button knows
(`OnePut`); without a doubt the screen is the server's, unless a change was stored
whose answer is on its way (`InStep`); and a change that was made without a doubt is
the only one that can still be stored (`SureIsAlone`), so what it will change is the
setting that was tapped (`ChangesOne`). Of the planets: one clear and one clear-names
is open at a time and every disabled button has its call (`OneOfEach`), calls are
about what they are for (`CallsAreApt`), and each row that is wrong has the answer
that will mend it on its way, or is excused (`WrongIsMended`). A row stays mended
because a planet that is gone never comes back.

Of the kid's session: `DrawingIsAlwaysSafe` (`SessionSpec => []DrawingIsSafe`) and
`SessionIsTyped`, for any galaxies, sizes of a canvas, paints and number of strokes.
Two facts make it inductive. Every drawing is `Laid`: the bucket's stroke, if there
has to be one, followed by the child's, in the colour the drawing says. And every
galaxy is `Paired` with its calls: it has one open exactly while it says so, the server
is due a copy (`due`) until one is stored, and again once an answer was lost or the
child begins anew, and while a send or its success is on the screen of a galaxy that was not
left, the drawing there is the one that was sent.

Of the calendar: `CalendarStaysRight` (`Spec => []CalendarIsRight`, MCTablets), for every
year of the common era the clock may start in and however long it runs, and any choice
of regions. The invariant is short (`CalendarInv`: a year of the era, a region on offer);
the work is in what the formulas give. `EasterIsTheChurchs`: the arithmetic of
`easter_sunday` gives the Sunday after the full moon of the golden number and the epact,
in *every* year, by division with remainder, where the run compares 121 years. The other
holidays are weekdays counted from a first of the month, and `resolve` wears a theme on
one run of days round its holiday because the runs of a region's themes meet in no year
(`SeasonsAreRight`).

`WallPage_proof` proves what one page keeps.
`ReloadsAreApart` (`BuildSpec => NoReloadLoop`), for any
builds, updates, rollbacks and old pages: where the browser stores the guard, a
reload to a build follows an earlier one to it only after the guard's time. Its
invariant says of each build the page was reloaded to lately that the guard still
names it, or that nobody will hear of it before the next update (`LatelyIsGuarded`),
which needs that answers read after a reload are of the server (`AnswersAreNew`).
`ShuttleAlwaysFades` and `ShuttleTurnsShort`, for any
times, any heading in whole degrees and however often the pointer has gone round: no
move turns the shuttle by more than 63 degrees, though the heading leaves -180..180.
That the remainder of a quotient lies within its bounds is a lemma of its own; no
finite run could show it for a heading that grows without end, so this one is proved
and in no run.
`WordsStayInStep` (`WordsSpec => []WordsAreInStep`), for any names, themes and times,
rests on facts nobody states in the code: one timer at most is to hide the card
(`WordsTyped`), a card is shown exactly as long as it runs (`CardIsTimed`), and a card
that was not orphaned by a clear has a name to be about (`CardIsNamed`). A fourth is
about languages: a last name is in none, or it is the words for none, which are excepted
(`NamesLast`).
`ResourcesStayBalanced` and `StagesAlwaysAgree`
(`EntitySpec => []ResourcesBalance`, `EntitySpec => []StagesAgree`), for any drawings
and themes. Until its surface is finished a body is as the constructor left it
(`Untouched`); whatever the renderer holds a removal would find, in the planet's mesh,
beside it or retired, or is of what it leaves behind, the environment all planets share
and the instance buffers of a ring (`Tracked`, `Left`); and before the removal only what was replaced is
freed (`FreedIsSuperseded`). The books cannot be kept without the second property:
what a theme's costumes and trees are made of is known only because the stages agree
on them.
`SkyStaysInStep` (`BeltShowsItsMix => (SkySpec => []SkyIsInStep)`), for any themes,
intervals, lifetimes and behaviours that come in any order at any moment. Its
hypothesis speaks of constants alone: the belt has bodies enough for every style of
its theme's mix, as the run finds for the mixes it is given. The invariant `SkyInv`
types the groups of each kind (`Aloft`): their numbers differ, since a new one gets a
number that is free, which is a counting argument (`NumberIsFree`). Hence a group can
be taken from the scene without another one (`SceneIsTracked`). What was made at a
change of theme is of the theme (`InAttire`). That flights do not pile up is not
inductive: the warm-up after a change of settings may be shorter than the flight
under way. `Rhythm` counts, of each kind, the flights that will outlast the
beginning of the next; each of them was passed by a behaviour, so there are no
more than behaviours that arrived, and one more while the next begins.

`PlanetMaking_proof` proves, for any set of entities, any radii and reaches of their
parts, whatever a build finds and however many are made, all of PlanetIntake's
properties but the liveness one, from `EntityAssumption`, `BuiltAssumption` and
`FramingAssumption`:

| Theorem | Statement |
|---|---|
| `EverybodyIsAnswered` | `Spec => []AnswersAreRight` |
| `CapturesAreClean` | `Spec => []CaptureIsClean` |
| `IdleIsDone` | `Spec => []IdleMeansDone` |
| `GoneAreNotUploaded` | `Spec => NoUploadForTheGone` |

The worker's half of the invariant, `WorkerInv`, adds to the
property that ids are used once and that a message somebody waits for is about the
one who waits (`Numbered`): a reply that was under way when its worker died meets no
request, not even a later one. It promises nothing to a planet that is lost (section 6),
which waits nowhere. The other half follows a snapshot through its stages
(`OneStage`). `IdleMeansDone` is the last of a chain, `KnownAreTracked`: nothing that
was scheduled when `whenIdle` was called can be in a deferral after two frames, behind
a timer once the map `pending` is empty, or in the queue once the captures of that
moment are done. For the middle link an empty map has to mean that no timer runs,
which holds because timers of one name replace each other (`TimersAreNamed`), and that
in turn because a wall never shows a planet twice (`OnTheWall`). That a hero that stays
within its bounds is shot at the first fit is arithmetic (`FirstFits`).

It proves also what holds of the surface, whatever was drawn and however fine the grids
are:

| Theorem | Statement |
|---|---|
| `AccentsAreTidyAlways` | `AccentSpec => []AccentsAreTidy` |
| `PaintIsAlwaysKept` | `MapsSpec => []PaintIsKept` |
| `BackAlwaysMirrorsFront` | `MapsSpec => []BackMirrorsFront` |
| `MeshIsAlwaysSmooth` | `BodySpec => []MeshIsSmooth` |

*Accents*, from `PictureAssumption`: each colour has one number in a cell, and there are
fewer than 30 colours, where the tablet has eight; a body is taken from 12 percent of paint
on, so that the colour painted most is then more than the trace of 0.4 percent that counts
as none. The invariant `AccentsInv` says what each stage hands to the next: the votes are
those of the chosen colours, the shapes are the largest of what was found (`Retained`), and
each mask lies within the style of the shape it was found as, or one cell about it. The
lemmas are about the operators: what a flood fill grows to is the least part of its colour
that has no neighbour left out (`ClosureIsWhole`), so that two of them meet nowhere, the
seam included; and the list of a set in a strict order has each element of it once.

*Paint*, from `DrawingAssumption`: the texture has an even width and at most 1000 rows
(the code's has 512 by 256), the cosines of its columns are symmetric, and points are
lists of whatever numbers. `PaintIsKept` is not inductive, since it speaks of
finished maps: it does not exclude that a texel being painted has a colour its owner has
no part in, or that free sky is covered before gaps are filled. `MapsInv` adds that
owners are strokes that made a line, in a colour that is their own, at every moment
(`InStep`), and that free sky is free *before* gaps are filled too (`SkyIsFree`). Painting keeps the latter because a line, widened by its half
width and bent to the seam or not, stays within its band (`ProjectedPointsAre`, `CanvasIs`);
caps keep it because they end in the band of the stroke that owns the pole
(`CapsAreClear`); and filling keeps it because a run of background
that holds a wide band is itself too wide for a trench. The mirror is the symmetry of the
cosines: a texel and its image are sampled from one place, so they cannot differ by
rounding.

*Mesh*, from the same and `MeshAssumption` (more than two segments round and more than
one from pole to pole, bowls of a ring and three segments or more, ridges of a cell or
more). `BodyInv` adds to the property `MapsInv` and the bounds of the relief's distances,
from which heights are shares of the highest: four sweeps over a grid are followed texel
by texel (`RelaxedIs`), and a blend of four shares is one (`SampleIs`). At the seam the two
columns look up the same four texels, a whole turn apart (`TextureRepeats`). Welding gives
vertices that meet one set of faces, since off the poles only the two ends of a row meet
(`MeetingIs`). That a bowl or a ridge is a sheet is shown from how it is sewn (`Sewn`,
`SheetIs`): no two triangles share an edge in one direction, every inner edge has its
opposite, and the edges left over set out once from each vertex of the rim. Corners are
told apart by the quotient and the remainder of their index (`KnotIs`, `PeakIs`), so the
argument holds for every number of rings, segments, columns and rows.

`DataInduction` holds what the proofs of lists rest on. The library's induction
theorems take an operator as a parameter, which the installed provers cannot
instantiate, so induction is stated here for a *set* of naturals (`LeastNatural`,
`SetInduction`) and recursion for a sequence of *functions* (`RecursionExists`); with
these a recursive function can be followed step by step. `OnlyIsPart` and `OnlyRest`
say what `Only` leaves of a list: some of its elements, in their order, and all that
are in the set.

Assumptions on constants that only the proofs need, and the code that justifies them:
`MaxStrokes` is a number (it bounds the model), the registry of themes has the
`default` a page starts with (`ThemeRegistry.js`), the word for no name is no
child's name, `normal` is one of the frequencies (a page starts with it), and a flight
is over before the next of its kind is due by the regular rhythm: comets fly for 13 to
18 s and come every 18 s at the soonest, fly-bys for 9 to 13 s and come every 14 s at
the soonest (`GalaxyEnvironment.js:6-17`, `:220`, `:290`).

Proved and in no run either, because another property of the run or a theorem makes
it superfluous: `TypeOK`, `BacklogBounded` and `InOrder` of EventPublisher, `SyncTypeOK`
of BehaviorSync, `TypeOK` and `MapBounded` of RateLimiter.

Model-checked and not proved:

* all liveness (fairness and ENABLED are beyond the prover), hence the fairness part
  of the refinement: StreamsEnd, PollingConverges, WallSettles, EveryPlanetIsShot and
  PageComesAlive;
* ReliefFollowsPaint. Each turn of a shortest path takes another sweep; that four are
  enough is shown for the drawings of the run, and whether they are for every picture
  and all shares of coverage is open (that distances stay within bounds is proved).
  That of strokes alike the later lies higher is lost to the model's whole percents
  once there are so many strokes that two of them get one score;
* of SurfaceCloses the ribbons (the mirror is proved): whether a line as thin as the
  code allows covers half a texel in every column depends on the raster and the slope.

## 6. Where the code and its texts disagree

Each of these four has a run in which TLC shows how the code comes to contradict the
quoted text:

* `wall_seen` / `SentPlanetIsSeen`. `syncGallery` takes down what its answer does
  not list, however old the answer is (`PlanetLoader.js:217`). An upload between
  the reading and the applying of an answer appears and then vanishes; a live wall
  does not ask again. `docs/user/en/quick-start.md:129` promises the planet within
  about 15 seconds.
* `planet_store_again` / `AgainIsSafe`. If the unlinks of an old stem stop after
  its metadata is gone, running `clear_names` again starts from an empty payload
  and overwrites the cleared metadata (`planet_privacy.py:104`), although
  `filesystem_repository.py:281` says "Safe to call twice."
* `planet_lost` / `NobodyIsLost`. The client of the worker strikes a request off and then
  puts its maps on canvases (`ManifestMapsClient.js:51-52`, `ManifestMaps.js:802-815`).
  Nothing guards that: where a canvas, its context or its image data cannot be had, the
  promise stays open for ever, nothing builds on the page, the planet stays hidden
  (`ManifestStrokeSurface.js:180`) and is never shot. `ManifestMapsClient.js:11-14` says
  that where the worker throws "the same code runs on the page instead, so a planet is
  never lost to the optimisation." `AnswersAreRight`, `EveryPlanetIsShot` and
  `PageComesAlive` except such a planet.
* `tablet_turned` / `RotationKeepsDrawing`. When the tablet is turned, `withCanvasSize`
  (`Drawing.kt:63`) gives the drawing the size of the new surface and leaves its strokes
  in the pixels of the old one; it is sent as if it had been drawn on the new one, so
  the strokes move and what lies beyond is clipped. `AndroidManifest.xml:23-24` says "so
  a rotation keeps the child's drawing", `ANDROID_STUDIO.md:320` "Rotating mid-drawing
  must **keep the drawing**", and `Drawing.kt:44-45` that a drawing has "the size of the
  surface it was drawn on".

Seen while modelling, and left inside the model as the code has it:

* `quick-start.md:129` says "An automatic reconnect is not here yet."; the wall
  reconnects, as LiveUpdates shows.
* `makeRoomForOne` evicts by arrival. After an outage the prime frame brings the
  newest planet first, so the newest can be the first to leave, while
  `check_projector.py:620` speaks of the oldest planet.
* A frame's ticket is its time of receipt. A frame that waited in the queue can
  replace a newer refresh until the next frame follows it
  (`ProjectorBehaviorController.js:16`).
* A full limiter map drops clients still in their cooldown (`rate_limiter.py:75`);
  `CooldownHolds` excepts exactly these.
* A failed unlink leaves an orphan sidecar that no later delete looks for; after an
  interrupted `clear_names`, `delete` removes the newer of two copies of a planet.
  `WholePlanets` therefore speaks of a folder without faults.
* "Drawings stay.", says `filesystem_repository.py:281`. A planet that is stored as
  "Planet" and not known to be cleared is rewritten in place, so one failed write costs
  its only image. Uploads without a name are such planets, and three interruptions make
  one of any other: a crash between the unlinks leaves the typed metadata without its
  image; the next run dies writing the neutral metadata, which is torn from then on; and
  the run after it takes the neutral image for one that has still to be cleared.
  `DrawingsStay` therefore speaks of images under a typed name and of those known to
  be cleared (`InSafety`). A reading may fail, too: `_load_object` makes of an `OSError`
  that there is no metadata (`planet_privacy.py:204`). A planet that was cleared then looks
  as if it were not, is rewritten in place with its style and colours gone, and loses its
  only image if that write fails as well: `DrawingsStay` excepts it (`Exposed`), and
  `AgainIsSafe` does not speak of it. The property spoke of all images under a typed name *or* stored as one
  before, which held only as long as there were no more than two faults.
* The reconcile adds before it removes (`PlanetLoader.js:210`), so on a full wall it
  evicts planets that the answer lists. The next poll mends it (`PollingConverges`);
  a live wall does not poll.
* A planet whose manifest could not be read, for whatever reason, is taken down and not
  asked for again (`PlanetLoader.js:169-171`) until a poll or a reconnect lists it;
  `LiveUploadsShow` excepts it, and the `wall_seen` run leaves such failures out
  (`WholeSpec`), so that what it shows is not their doing.
* Nothing is published when the date rolls over (`behavior_use_cases.py:52`), so a
  wall with a healthy stream keeps yesterday's season until its next refresh;
  `InStepConverges` excepts the calendar.

Of the wall's page:

* A worker that hangs without an error event is never timed out, and the planet stays
  hidden until the page is reloaded.
* A name whose planet was disposed before its timer stays `pending` in the snapshot
  publisher, so that `whenIdle` answers no at its deadline; a snapshot is scheduled
  also when the surface has failed.
* A rollback within five minutes of a reload to the same build is held back by the
  guard, and a wall whose first gallery answer after a reconnect failed keeps old code
  while its stream is healthy; `UpdateReachesWall`, a part of PageComesAlive, excepts
  the two.
* `InstancedMesh.dispose` is never called, neither for the belt and the fly-bys nor for
  the three layers of a ring: three.js frees the buffers of their matrices and hues
  (`SaturnPlanetRings.js:99-148`) on the dispose event of the mesh alone
  (`three.module.js:4765-4777`), while `disposeObject` (`PlanetEntity.js:629-639`) frees
  geometries and materials. `NothingLeaks`, a part of ResourcesBalance, excepts
  them by name. `UNRELEASED.md:41-44` speaks of textures and geometry, which do go back
  to their starting counts. A placeholder
  casts shadows if its surface fails; the companions that one stage makes for easter
  are replaced by those of another.
* After a texture has failed on a wall without planets the title keeps the words of
  waiting in the language of before. The words for a planet without a name are kept
  like a name, so they stay in the language of its arrival, in the title and in the card
  that is told again (`CelebrationEffect.js:68-82`). `OneLanguage`, a part of
  WordsAreInStep, excepts both by name (`Stays`), and the orphaned card. `setPlanetName` leaves the status line as it was;
  the card of a galaxy that was cleared under it keeps its language.
* The triangles of crater bowls are wound clockwise as seen from outside, and the
  material shows front sides only.
* `componentStats` does not know that the grid wraps (`PlanetSurface.js:263`), so a
  shape over the seam has a width of the whole planet; the bound on the accents'
  coverage is not reached when five erosions do not do; paint in a pole row alone is
  lost by closing.
* `makePeriodic` pins the first and the last point of a stroke that goes round,
  whichever way it was drawn, and a dot of two equal points wraps the planet; texels
  painted by `closePole` keep a coverage of 0; vertices of a pole row look up different
  columns of the texture, although the comment on welding says that they coincide.
* `amplifyKidArtwork` and `detailedAstronaut` of `VisualRefinement.js` have no effect on
  the wall: one looks for a group nobody makes, the other is replaced by the stage after.

Of the kid's tablet:

* After a change of galaxy on the drawing step, strokes go on to the drawing of the
  galaxy before, and the new one stays unmeasured (`reach`); leaving the step and coming
  back mends both.
* After a change of galaxy during a send the child may edit, on the drawing step of the
  other galaxy, what is being sent; the success that follows clears the edited drawing.
  `NothingUnsentIsCleared` excepts a galaxy that was left (`left`).

Of the manager's tablet:

* A change sends all settings as the screen shows them (`ManagerViewModel.kt:244`). If
  the first read fails, the screen has the defaults, the buttons are enabled, and the
  next tap stores the defaults of everything else; the same happens with the choices
  of a read that was overtaken by a change. `SettingsAreTrue` excepts both (`Sure`).
* A listing that was overtaken by a deletion, or clear-names whose second call is lost,
  leaves rows on the screen that are gone or under names that were cleared, until the
  next listing; `ListIsTrue` excepts exactly those (`excused`).

## 7. What is not modelled

* **Data.** Names, response bodies, authorisation, validation and configuration:
  pure functions of one request. Roughness and occlusion shades of a surface, the
  canvases and textures of accents, sizes, positions, orbits and colours of parts, the
  sun and the camera: nothing reads them back.
* **Exports** (preview, PNG, PDF, STL): pure functions of one stored planet.
* **The behaviour file** (`behavior_repository.py`): one atomic replace; its fallbacks
  for unknown values are data.
* **Of the kid's tablet**: style, companions, brushes, colours and name, which change
  nothing else; finding a galaxy, the adult gate, previews and the drawing manifest's
  rendering. The race of a new planet with a send under way cannot be had from its
  screen: "start anew" is reached only through the dialog that follows a send.
* **The manager's export screen, galaxy picker and texts.**
* **Two server processes on one folder**: the server runs one worker.
* **Heartbeat frames of a stream** change no publisher state; LiveUpdates has them.
* `planet_privacy.py`'s redaction of backups, and the scripts around Docker.

## 8. Plan

Done, in this order: publisher and its refinement with proofs, live client, gallery
wall, behaviour, cooldown, store; planet intake with worker and snapshots, the surface
and its mesh, accents, the planet's resources and stages, sky, words, pointer and
build watcher; the manager's tablet, the seasons and the kid's tablet. To come:
*PlanetIntake with PlanetStore*, that is `rebuildAll` after a rename (the URLs a rebuild
uses may be gone), and a clear that fails halfway and still announces `cleared`.

Theorems worth proving next: how fine a raster must be for a ribbon to close, and the
composition named above, once it is modelled. All modules with a theorem avoid RECURSIVE,
and state their invariants as named conjuncts.

## 9. Running it

```
tlc -config MCEventPublisher.cfg MCEventPublisher     # likewise the others
tlapm EventPublisher_proof.tla
```

A configuration names its specification, bounds and properties; `PROJECT.json`
lists the runs, the source lines behind every definition, the mutants and the
theorems.
