----------------------------- MODULE PlanetStore -----------------------------
(***************************************************************************)
(* The upload folder (FileSystemPlanetRepository) under SubmitPlanet,      *)
(* DeletePlanet, ClearPlanets and ClearPlanetNames.  A planet is up to     *)
(* three files of one stem; the handlers touch them one at a time, each    *)
(* touch may fail, and the process may die at any of them.  The handlers   *)
(* are async functions that never await in these parts, so one runs at a   *)
(* time and what it plans from a listing stays true while it runs.         *)
(***************************************************************************)
EXTENDS Filters, SequencesExt, FiniteSets

CONSTANTS
    Id,             \* planet ids, one per accepted upload (uuid4)
    Plain,          \* those whose child typed nothing, or "Planet"
    Retention,      \* DEFAULT_RETENTION
    MaxFaults       \* bound: failed file operations and crashes in a behaviour

ASSUME StoreAssumption ==
    /\ Plain \subseteq Id
    /\ Retention \in Nat \ {0}
    /\ MaxFaults \in Nat

\* "<id>_<name>", where clear_names puts the neutral name for the typed one.
Stem == {"typed", "Planet"}
Kind == {"png", "json", "drawing"}
File == [id : Id, stem : Stem, kind : Kind]

\* "torn" is a file opened for writing, which truncates it, and not written; "named" and "cleared" are
\* the metadata before and after clear_names, "bare" cleared metadata that holds
\* nothing else (the style and the colours are gone).
Content == {"intact", "torn", "named", "cleared", "bare"}

VARIABLES
    disk,           \* the files there are, and what each holds
    newest,         \* the images by modification time, newest first
    todo,           \* the rest of the running handler: blocks of file operations
    groups,         \* the stems clear_names has still to look at
    job,            \* the handler that runs, or ran last
    outcome,        \* how it stands
    used,           \* ids given out
    faults          \* failures and crashes so far

storeVars == <<disk, newest, todo, groups, job, outcome, used, faults>>

\* One file operation: leave path with this content ("gone": unlink it).
Op == [path : File, content : Content \cup {"gone"}]

\* Operations that an OSError ends together, and what the handler does then.
Block == [ops : Seq(Op), otherwise : {"skip", "abort"}]
Group == [id : Id, stem : Stem, paths : SUBSET File]

\* ids: the planet it is about, of submit and delete.  History of the moment it began:
\* the planets whose image was in safety, and those whose name was already cleared,
\* less those of which the reading failed since (Unreadable).
Job == [op : {"none", "submit", "delete", "clear", "clear_names"},
        ids : SUBSET Id, drawn : SUBSET Id, already : SUBSET Id]

Listed == Range(newest)
Images == {p \in DOMAIN disk : p.kind = "png"}
AtRest == todo = << >> /\ groups = {}

StoreTypeOK ==
    /\ DOMAIN disk \subseteq File
    /\ disk \in [DOMAIN disk -> Content]
    /\ newest \in Seq(File) /\ IsInjective(newest) /\ Listed = Images
    /\ todo \in Seq(Block)
    /\ groups \subseteq Group
    /\ job \in Job
    /\ outcome \in {"none", "running", "ok", "failed", "crashed"}
    /\ outcome = "running" <=> ~AtRest
    /\ used \subseteq Id /\ {p.id : p \in DOMAIN disk} \subseteq used
    /\ faults \in 0..MaxFaults

StoreInit ==
    /\ disk = << >> /\ newest = << >>
    /\ todo = << >> /\ groups = {}
    /\ job = [op |-> "none", ids |-> {}, drawn |-> {}, already |-> {}]
    /\ outcome = "none"
    /\ used = {} /\ faults = 0
------------------------------------------------------------------------------
Of(p, kind) == [p EXCEPT !.kind = kind]
StoredImage(i) ==
    [id |-> i, stem |-> IF i \in Plain THEN "Planet" ELSE "typed", kind |-> "png"]
ClearedMetadata(i) == [id |-> i, stem |-> "Planet", kind |-> "json"]

Write(p, content) == [path |-> p, content |-> content]
Unlink(p) == [path |-> p, content |-> "gone"]

\* The image goes first, then its sidecars.
Removal(image) ==
    <<Unlink(image), Unlink(Of(image, "json")), Unlink(Of(image, "drawing"))>>

Removals(images) ==
    [i \in DOMAIN images |-> [ops |-> Removal(images[i]), otherwise |-> "skip"]]

Already == {i \in Id : ClearedMetadata(i) \in DOMAIN disk
                       /\ disk[ClearedMetadata(i)] = "cleared"}

IsDrawn(p) == p \in DOMAIN disk /\ disk[p] = "intact"
HasDrawing(i) == \E p \in Images : p.id = i /\ IsDrawn(p)

\* A good image under the typed name, or one whose name is known to be cleared.
InSafety(i) ==
    \E p \in Images :
        /\ p.id = i /\ IsDrawn(p)
        /\ p.stem = "Planet" => /\ ClearedMetadata(i) \in DOMAIN disk
                                /\ disk[ClearedMetadata(i)] \in {"cleared", "bare"}

Begin(op, ids, blocks, stems) ==
    /\ AtRest
    /\ job' = [op |-> op, ids |-> ids,
               drawn |-> {i \in Id : InSafety(i)}, already |-> Already]
    /\ todo' = blocks /\ groups' = stems
    /\ outcome' = IF blocks = << >> /\ stems = {} THEN "ok" ELSE "running"
    /\ UNCHANGED <<disk, newest, faults>>
------------------------------------------------------------------------------
\* Mutant: prune counts before the new image is in the listing.
StaleBefore(p) == SubSeq(newest, Retention + 1, Len(newest))

\* What the newest Retention images leave over, once image p is stored.
Stale(p) == SubSeq(<<p>> \o newest, Retention + 1, Len(newest) + 1)

\* Mutant: a drawing that cannot be written costs a warning, as metadata does.
SubmitLenient(i) ==
    LET image == StoredImage(i) IN
    /\ i \notin used
    /\ used' = used \cup {i}
    /\ Begin("submit", {i},
             <<[ops |-> <<Write(image, "intact")>>, otherwise |-> "abort"],
               [ops |-> <<Write(Of(image, "json"), "named")>>, otherwise |-> "skip"],
               [ops |-> <<Write(Of(image, "drawing"), "intact")>>, otherwise |-> "skip"]>>
             \o Removals(Stale(image)),
             {})

\* An upload that passed its checks: save the three files, then prune.  Metadata
\* that cannot be written costs a warning, an image or a drawing the upload.
Submit(i) ==
    LET image == StoredImage(i) IN
    /\ i \notin used
    /\ used' = used \cup {i}
    /\ Begin("submit", {i},
             <<[ops |-> <<Write(image, "intact")>>, otherwise |-> "abort"],
               [ops |-> <<Write(Of(image, "json"), "named")>>, otherwise |-> "skip"],
               [ops |-> <<Write(Of(image, "drawing"), "intact")>>, otherwise |-> "abort"]>>
             \o Removals(Stale(image)),
             {})

\* Delete the newest image of this id.  The manager is told of the failure as of
\* a planet that does not exist, and no event is published.
Delete(i) ==
    LET mine == Only(newest, {p \in Listed : p.id = i}) IN
    /\ mine # << >>
    /\ Begin("delete", {i}, <<[ops |-> Removal(Head(mine)), otherwise |-> "abort"]>>, {})
    /\ UNCHANGED used

ClearPlanets == Begin("clear", {}, Removals(newest), {}) /\ UNCHANGED used

\* The files by stem, listed once, before the first of them is touched.
ClearNames ==
    /\ Begin("clear_names", {}, << >>,
             {[id |-> p.id, stem |-> p.stem,
               paths |-> {q \in DOMAIN disk : q.id = p.id /\ q.stem = p.stem}] :
              p \in DOMAIN disk})
    /\ UNCHANGED used

\* Metadata that is missing or cannot be parsed counts as empty.
Scrubbed(metadata) == IF metadata \in {"named", "cleared"} THEN "cleared" ELSE "bare"

Renamed(p) == [p EXCEPT !.stem = "Planet"]

Copies(order) ==
    LET files == Only(order, {p \in File : p.kind # "json"}) IN
    [n \in DOMAIN files |-> Write(Renamed(files[n]), disk[files[n]])]

Leftovers(order) ==
    LET old == Only(order, {p \in File : p.stem # "Planet"}) IN
    [n \in DOMAIN old |-> Unlink(old[n])]

\* Mutant: a group that was cleared once is skipped under its old stem too.
SkippedById(g, metadata) ==
    /\ ClearedMetadata(g.id) \in DOMAIN disk
    /\ disk[ClearedMetadata(g.id)] \in {"cleared", "bare"}

Skipped(g, metadata) == metadata \in {"cleared", "bare"} /\ g.stem = "Planet"

\* Mutant: the old files go before the copies are there.
MovedGroup(g, metadata, order) ==
    <<Write(ClearedMetadata(g.id), Scrubbed(metadata))>> \o Leftovers(order) \o Copies(order)

\* The cleared metadata, copies of the other files under the neutral stem, and
\* only then the old files go.
ClearedGroup(g, metadata, order) ==
    <<Write(ClearedMetadata(g.id), Scrubbed(metadata))>> \o Copies(order) \o Leftovers(order)

\* What _load_object makes of the metadata of a group.
MetadataOf(g) ==
    LET json == [id |-> g.id, stem |-> g.stem, kind |-> "json"] IN
    IF json \in g.paths THEN disk[json] ELSE "torn"

\* A planet whose only good image may be the one that a group rewrites in place.
Exposed(g) ==
    IF g.stem = "Planet" /\ ~IsDrawn([id |-> g.id, stem |-> "typed", kind |-> "png"])
    THEN {g.id} ELSE {}

\* Metadata that is there and whose reading raises OSError counts as empty, too: what
\* was known of the planet is not known in this run.
Unreadable(g) ==
    /\ faults < MaxFaults /\ faults' = faults + 1
    /\ \E p \in g.paths : p.kind = "json"
    /\ job' = [job EXCEPT !.drawn = @ \ Exposed(g), !.already = @ \ {g.id}]

\* The plan of a group, once its metadata was read; an image or a drawing that cannot
\* be read fails it before the first write.
PlanGroup(g, metadata) ==
    IF Skipped(g, metadata)
    THEN todo' = << >>
    ELSE \E order \in SetToSeqs(g.paths) :
             todo' = <<[ops |-> ClearedGroup(g, metadata, order), otherwise |-> "abort"]>>

\* _clear_group, for any group left and any order the directory lists its files in.
ClearGroup(g) ==
    /\ todo = << >> /\ g \in groups
    /\ groups' = groups \ {g}
    /\ \/ PlanGroup(g, MetadataOf(g)) /\ UNCHANGED <<job, faults>>
       \/ PlanGroup(g, "torn") /\ Unreadable(g)
    /\ outcome' = IF todo' = << >> /\ groups' = {} THEN "ok" ELSE outcome
    /\ UNCHANGED <<disk, newest, used>>
------------------------------------------------------------------------------
Apply(op) ==
    LET others == Only(newest, Listed \ {op.path})
        kept == DOMAIN disk \ {op.path}
    IN
    /\ disk' = [p \in kept \cup (IF op.content = "gone" THEN {} ELSE {op.path}) |->
                    IF p = op.path THEN op.content ELSE disk[p]]
    /\ newest' = IF op.path.kind # "png" THEN newest
                 ELSE IF op.content = "gone" THEN others ELSE <<op.path>> \o others

\* The next file operation of the running handler, done.
Step ==
    /\ todo # << >>
    /\ Apply(Head(Head(todo).ops))
    /\ todo' = IF Len(Head(todo).ops) = 1 THEN Tail(todo)
               ELSE [todo EXCEPT ![1].ops = Tail(@)]
    /\ outcome' = IF todo' = << >> /\ groups = {} THEN "ok" ELSE outcome
    /\ UNCHANGED <<groups, job, used, faults>>

\* An operation that is not completed: nothing was done, or a file was truncated
\* and not written.
Interrupted(op) ==
    \/ UNCHANGED <<disk, newest>>
    \/ op.content # "gone" /\ Apply(Write(op.path, "torn"))

\* It raises OSError instead.  A file that is already gone is no error to unlink.
Fail ==
    LET op == Head(Head(todo).ops) IN
    /\ faults < MaxFaults /\ faults' = faults + 1
    /\ todo # << >>
    /\ op.content = "gone" => op.path \in DOMAIN disk
    /\ Interrupted(op)
    /\ IF Head(todo).otherwise = "skip"
       THEN /\ todo' = Tail(todo)
            /\ outcome' = IF todo' = << >> THEN "ok" ELSE outcome
            /\ UNCHANGED groups
       ELSE todo' = << >> /\ groups' = {} /\ outcome' = "failed"
    /\ UNCHANGED <<job, used>>

\* The process dies; the next one finds the folder as it is.
Crash ==
    /\ faults < MaxFaults /\ faults' = faults + 1
    /\ ~AtRest
    /\ IF todo # << >> THEN Interrupted(Head(Head(todo).ops)) ELSE UNCHANGED <<disk, newest>>
    /\ todo' = << >> /\ groups' = {} /\ outcome' = "crashed"
    /\ UNCHANGED <<job, used>>

StoreNext ==
    \/ \E i \in Id : Submit(i) \/ Delete(i)
    \/ ClearPlanets
    \/ ClearNames
    \/ \E g \in groups : ClearGroup(g)
    \/ Step
    \/ Fail
    \/ Crash

StoreSpec == StoreInit /\ [][StoreNext]_storeVars
------------------------------------------------------------------------------
\* Once clear_names has answered, no file carries a typed name, in its stem or in
\* its metadata, whatever an earlier crash or failure left behind.
NamesAreGone ==
    job.op = "clear_names" /\ outcome = "ok" =>
        \A p \in DOMAIN disk : p.stem = "Planet" /\ disk[p] # "named"

\* clear_names keeps the drawings: whether it answers, fails or dies, and however often
\* it was cut short before, a planet whose good image bears the typed name, or is known
\* to be cleared, still has a good image, because the old image goes after the new one
\* is written.  (Any other image under "Planet" is rewritten in place and may be lost; so
\* may a cleared one whose metadata the run could not read, which then is not known to be
\* cleared, if its write fails as well.)
DrawingsStay ==
    job.op = "clear_names" /\ AtRest => \A i \in job.drawn : HasDrawing(i)

\* An upload that was answered with success has its image and its drawing, both
\* whole, and is the newest of the gallery.
AcceptedIsWhole ==
    job.op = "submit" /\ outcome = "ok" =>
        \A image \in {StoredImage(i) : i \in job.ids} :
        /\ Of(image, "drawing") \in DOMAIN disk
        /\ disk[Of(image, "drawing")] = "intact"
        /\ newest # << >> /\ Head(newest) = image /\ disk[image] = "intact"

\* As long as nothing failed the folder holds whole planets and nothing else: no
\* image without its sidecars, no sidecar without its image, no planet twice.
WholePlanets ==
    AtRest /\ faults = 0 =>
        \A p \in DOMAIN disk :
            /\ {Of(p, k) : k \in Kind} \subseteq DOMAIN disk
            /\ \A q \in DOMAIN disk : q.id = p.id => q.stem = p.stem

\* Planets are stored whole, and whole they stay while nothing fails.
PlanetsAreWhole == StoreTypeOK /\ AcceptedIsWhole /\ WholePlanets

\* An accepted upload leaves no more images than the retention, whatever earlier
\* crashes duplicated; each removal that failed leaves one more.
RetentionHolds ==
    job.op = "submit" /\ outcome = "ok" => Len(newest) <= Retention + faults

\* filesystem_repository.py:281 says of clear_names: "Safe to call twice."  What was
\* cleared when it began, and was read without an error, is left as it was.
AgainIsSafe ==
    job.op = "clear_names" /\ outcome = "ok" => job.already \subseteq Already
==============================================================================
