---------------------------- MODULE BuildWatcher -----------------------------
(***************************************************************************)
(* ProjectorBuildWatcher: the wall reloads itself once when the server     *)
(* serves another projector, guarded against a loop when the page comes    *)
(* back announcing the old build, as a cache may make it.                  *)
(***************************************************************************)
EXTENDS Integers, FiniteSets

CONSTANTS
    Build,              \* fingerprints a server may have
    GuardTime,          \* RELOAD_GUARD_MS, in units
    MaxUpdates,         \* bound: updates of the server
    MaxStale            \* bound: pages that come back old

ASSUME BuildAssumption ==
    /\ Build # {} /\ GuardTime \in Nat \ {0}
    /\ MaxUpdates \in Nat /\ MaxStale \in Nat

VARIABLES
    server,         \* the build the server serves
    pageBuild,      \* the build of the page, or NoBuild: an older server's
    reloading,      \* latched by observe
    guard,          \* in sessionStorage: of which build, and its age
    stored,         \* does the browser allow sessionStorage?
    toAsk,          \* the page is to read the gallery
    answers,        \* builds announced by gallery answers still under way
    missed,         \* the last reading failed
    since,          \* time since the last reload to a build, or since the update
    updates, stale  \* counts of the bounds

buildVars == <<server, pageBuild, reloading, guard, stored, toAsk, answers, missed, since,
               updates, stale>>

NoBuild == "no build"
Old(b)  == [b EXCEPT !.age = IF @ < GuardTime THEN @ + 1 ELSE @]
Fresh   == [b \in Build |-> GuardTime]

BuildInit ==
    /\ server \in Build /\ pageBuild \in {server, NoBuild} /\ stored \in BOOLEAN
    /\ reloading = FALSE /\ guard = [build |-> NoBuild, age |-> GuardTime]
    /\ toAsk = TRUE /\ answers = {} /\ missed = FALSE
    /\ since = Fresh /\ updates = 0 /\ stale = 0

\* The program is updated, or rolled back.  The stream drops and the page reads the
\* gallery when it reconnects; answers of before may still be under way.
Update(b) ==
    /\ updates < MaxUpdates /\ b # server
    /\ server' = b /\ updates' = updates + 1 /\ since' = Fresh /\ toAsk' = TRUE
    /\ UNCHANGED <<pageBuild, reloading, guard, stored, answers, missed, stale>>

\* syncGallery asks; the answer carries the header of the server that gives it.
Ask ==
    /\ toAsk /\ toAsk' = FALSE /\ missed' = FALSE
    /\ answers' = answers \cup {server}
    /\ UNCHANGED <<server, pageBuild, reloading, guard, stored, since, updates, stale>>

\* The answer is lost or not ok: nobody asks again while the stream is healthy.
AskFails ==
    /\ toAsk /\ toAsk' = FALSE /\ missed' = TRUE
    /\ UNCHANGED <<server, pageBuild, reloading, guard, stored, answers, since, updates, stale>>

\* Mutant of Guarded: there is no guard.
GuardedNever(b) == FALSE

\* readGuard: a reload to this build was tried less than RELOAD_GUARD_MS ago.
Guarded(b) == guard.build = b /\ guard.age < GuardTime

\* observe, whose writeGuard may fail.
Observe(b) ==
    /\ b \in answers /\ answers' = answers \ {b}
    /\ IF ~reloading /\ pageBuild # NoBuild /\ b # pageBuild /\ ~Guarded(b)
       THEN /\ guard' = IF stored THEN [build |-> b, age |-> 0] ELSE guard
            /\ reloading' = TRUE
            /\ since' = [since EXCEPT ![b] = 0]
       ELSE UNCHANGED <<guard, reloading, since>>
    /\ UNCHANGED <<server, pageBuild, stored, toAsk, missed, updates, stale>>

\* The browser reloads: the new page has the server's build, unless it is old.
Reload(b) ==
    /\ reloading /\ reloading' = FALSE
    /\ \/ b = server /\ UNCHANGED stale
       \/ b = pageBuild /\ b # server /\ stale < MaxStale /\ stale' = stale + 1
    /\ pageBuild' = b /\ answers' = {} /\ toAsk' = TRUE
    /\ UNCHANGED <<server, guard, stored, missed, since, updates>>

BuildTick ==
    /\ guard.age < GuardTime \/ \E b \in Build : since[b] < GuardTime
    /\ guard' = Old(guard)
    /\ since' = [b \in Build |-> IF since[b] < GuardTime THEN since[b] + 1 ELSE since[b]]
    /\ UNCHANGED <<server, pageBuild, reloading, stored, toAsk, answers, missed, updates, stale>>

BuildNext ==
    \/ Ask \/ AskFails \/ BuildTick
    \/ \E b \in Build : Update(b) \/ Observe(b) \/ Reload(b)

BuildSpec == BuildInit /\ [][BuildNext]_buildVars
-----------------------------------------------------------------------------
\* A page that comes back old does not reload in a loop: where the browser keeps
\* the guard, reloads to the build the server serves are RELOAD_GUARD_MS apart.
NoReloadLoop ==
    [][~reloading /\ reloading' /\ stored => since[guard'.build] = GuardTime]_buildVars

\* An update reaches the screen: in the end the page is of the server's build,
\* unless its reading of the gallery failed or it was reloaded to that very build.
UpdateReachesWall ==
    <>[](pageBuild \in {server, NoBuild} \/ missed \/ guard.build = server)
==============================================================================
