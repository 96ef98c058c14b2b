----------------------------- MODULE PlanetIntake -----------------------------
(***************************************************************************)
(* From the picture of a planet to its hero frame: PlanetLoader hands the  *)
(* picture to the planet, the planet asks for its surface maps             *)
(* (SurfaceWorker), and its snapshot is scheduled when the surface is done *)
(* or has failed (SnapshotPublisher), while planets are taken down and     *)
(* rebuilt under the same name.                                            *)
(***************************************************************************)
EXTENDS SurfaceWorker, SnapshotPublisher

CONSTANTS
    MaxBorn             \* bound: entities made, for new planets and rebuilds

VARIABLES
    born,           \* the entities made so far
    ready           \* those whose surfaceReady was acted upon

vars == <<workerVars, snapVars, born, ready>>

Wall == born \ disposed

Init == WorkerInit /\ SnapshotInit /\ born = {} /\ ready = {}

\* A new entity that shows p, if one may still be made.
Unborn(p) == {e \in Entity \ born : Id(e) = p}
New(p) == CHOOSE e \in Unborn(p) : TRUE

\* add: a planet that is not on the wall.
Add(p) ==
    /\ Unborn(p) # {} /\ Cardinality(born) < MaxBorn /\ \A e \in Wall : Id(e) # p
    /\ born' = born \cup {New(p)}
    /\ UNCHANGED <<workerVars, snapVars, ready>>

\* remove: a planet is evicted or taken down.
TakeDown(e) ==
    /\ e \in Wall
    /\ Dispose({e})
    /\ UNCHANGED <<workerVars, born, ready>>

\* rebuildAll: every planet is replaced.
RebuildAll ==
    /\ Wall # {} /\ \A e \in Wall : Unborn(Id(e)) # {}
    /\ Cardinality(born) + Cardinality(Wall) <= MaxBorn
    /\ Dispose(Wall)
    /\ born' = born \cup {New(Id(e)) : e \in Wall}
    /\ UNCHANGED <<workerVars, ready>>

\* loadTexture's callback: for a planet that is still the one on the wall.
TextureLoads(e) ==
    /\ e \in Wall
    /\ RequestSurfaceMaps(e)
    /\ UNCHANGED <<snapVars, born, ready>>

\* surfaceReady is settled.
SurfaceReady(e) ==
    /\ answer[e].what \in Told /\ e \notin ready
    /\ ready' = ready \cup {e}
    /\ IF e \in disposed THEN UNCHANGED snapVars ELSE Schedule(e)
    /\ UNCHANGED <<workerVars, born>>

Next ==
    \/ \E e \in Entity : Add(Id(e)) \/ TakeDown(e) \/ TextureLoads(e) \/ SurfaceReady(e)
    \/ RebuildAll
    \/ WorkerStep /\ UNCHANGED <<snapVars, born, ready>>
    \/ SnapshotStep /\ UNCHANGED <<workerVars, born, ready>>

Spec == Init /\ [][Next]_vars /\ WorkerFairness /\ SnapshotFairness
             /\ \A e \in Entity : WF_vars(SurfaceReady(e))
------------------------------------------------------------------------------
\* Every planet that asked for its surface and stays on the wall gets its hero
\* frame tried to the end: through a worker that dies, builds that fail, and other
\* planets whose capture or upload fails before it.  All but the one whose maps came and
\* could not be put on canvases: its surface is never done, and nothing is scheduled.
EveryPlanetIsShot ==
    \A e \in Entity :
        answer[e].what = "asked" ~> e \in settled \cup disposed \/ answer[e].what = "lost"
==============================================================================
