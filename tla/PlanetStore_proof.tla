-------------------------- MODULE PlanetStore_proof --------------------------
(***************************************************************************)
(* What holds of the upload folder whatever the number of planets and of   *)
(* faults: the names that clear_names promised to remove are gone          *)
(* (NamesAreGone), the drawings stay (DrawingsStay), an accepted upload    *)
(* keeps to the retention (RetentionHolds) and planets are stored and      *)
(* removed whole (PlanetsAreWhole).                                        *)
(***************************************************************************)
EXTENDS PlanetStore, DataInduction, FiniteSetTheorems


(* Lists without repetition.                                                 *)

\* A list without repetition is as long as it has members.
LEMMA ListSize ==
  ASSUME NEW E, NEW s \in Seq(E), IsInjective(s)
  PROVE  IsFiniteSet(Range(s)) /\ Cardinality(Range(s)) = Len(s)
<1>1. s \in Surjection(1..Len(s), Range(s)) /\ s \in Injection(1..Len(s), Range(s))
  BY DEF Surjection, Injection, Range
<1>2. IsFiniteSet(1..Len(s)) /\ Cardinality(1..Len(s)) = Len(s)
  <2>1. Len(s) \in Int /\ 1 \in Int /\ Len(s) >= 0
    OBVIOUS
  <2>2. IsFiniteSet(1..Len(s)) /\ Cardinality(1..Len(s)) = IF 1 > Len(s) THEN 0 ELSE Len(s) - 1 + 1
    BY <2>1, FS_Interval
  <2>. QED
    BY <2>1, <2>2
<1>. QED
  BY <1>1, <1>2, FS_Surjection

\* What Only leaves of a list without repetition.
LEMMA OnlyOfDistinct ==
  ASSUME NEW E, NEW s \in Seq(E), IsInjective(s), NEW T
  PROVE  /\ Only(s, T) \in Seq(E) /\ IsInjective(Only(s, T))
         /\ Range(Only(s, T)) = Range(s) \cap T
         /\ s # << >> /\ s[1] \in T => Only(s, T) # << >> /\ Only(s, T)[1] = s[1]
<1>. DEFINE k == Only(s, T)
<1>1. /\ k \in Seq(E) /\ PartOf(k, s, Len(s), T)
  BY OnlyIsPart
<1>. HIDE DEF k
<1>2. /\ Len(k) \in Nat /\ Len(k) <= Len(s)
      /\ \A j \in 1..Len(k) : k[j] \in T /\ \E i \in 1..Len(s) : k[j] = s[i]
      /\ \A j1, j2 \in 1..Len(k) : j1 < j2 =>
            \E i1, i2 \in 1..Len(s) : i1 < i2 /\ k[j1] = s[i1] /\ k[j2] = s[i2]
      /\ \A i \in 1..Len(s) : s[i] \in T => \E j \in 1..Len(k) : k[j] = s[i]
  BY <1>1 DEF PartOf
<1>3. \A a, b \in 1..Len(s) : s[a] = s[b] => a = b
  BY DEF IsInjective
<1>4. \A a, b \in 1..Len(k) : a < b => k[a] # k[b]
  <2>. SUFFICES ASSUME NEW a \in 1..Len(k), NEW b \in 1..Len(k), a < b, k[a] = k[b] PROVE FALSE
    OBVIOUS
  <2>1. PICK i1 \in 1..Len(s), i2 \in 1..Len(s) : i1 < i2 /\ k[a] = s[i1] /\ k[b] = s[i2]
    BY <1>2
  <2>2. i1 = i2
    BY <2>1, <1>3
  <2>. QED
    BY <2>1, <2>2
<1>5. IsInjective(k)
  <2>. SUFFICES ASSUME NEW a \in DOMAIN k, NEW b \in DOMAIN k, k[a] = k[b] PROVE a = b
    BY DEF IsInjective
  <2>1. a \in 1..Len(k) /\ b \in 1..Len(k)
    BY <1>1
  <2>. QED
    BY <2>1, <1>4
<1>6. DOMAIN k = 1..Len(k) /\ DOMAIN s = 1..Len(s)
  BY <1>1
<1>7. Range(k) = Range(s) \cap T
  <2>1. ASSUME NEW x \in Range(k) PROVE x \in Range(s) \cap T
    <3>1. PICK j \in 1..Len(k) : x = k[j]
      BY <1>6 DEF Range
    <3>. QED
      BY <3>1, <1>2, <1>6 DEF Range
  <2>2. ASSUME NEW x \in Range(s) \cap T PROVE x \in Range(k)
    <3>1. PICK i \in 1..Len(s) : x = s[i]
      BY <1>6 DEF Range
    <3>2. PICK j \in 1..Len(k) : k[j] = s[i]
      BY <3>1, <1>2
    <3>. QED
      BY <3>1, <3>2, <1>6 DEF Range
  <2>. QED
    BY <2>1, <2>2
<1>8. ASSUME s # << >>, s[1] \in T PROVE k # << >> /\ k[1] = s[1]
  <2>1. 1 \in 1..Len(s)
    BY <1>8
  <2>2. PICK j \in 1..Len(k) : k[j] = s[1]
    BY <1>8, <1>2, <2>1
  <2>3. k # << >>
    BY <2>2
  <2>4. j = 1
    <3>. SUFFICES ASSUME 1 < j PROVE FALSE
      BY <2>2
    <3>1. 1 \in 1..Len(k)
      BY <2>2
    <3>2. PICK i1 \in 1..Len(s), i2 \in 1..Len(s) : i1 < i2 /\ k[1] = s[i1] /\ k[j] = s[i2]
      BY <1>2, <3>1
    <3>3. i2 = 1
      BY <3>2, <2>2, <2>1, <1>3
    <3>. QED
      BY <3>2, <3>3
  <2>. QED
    BY <2>2, <2>3, <2>4
<1>. QED
  BY <1>1, <1>5, <1>7, <1>8 DEF k

(* File operations.                                                          *)

\* What a file operation does to the folder, and to the listing of its images.
Touched(op) ==
    /\ DOMAIN disk' \subseteq File /\ disk' \in [DOMAIN disk' -> Content]
    /\ IsFiniteSet(DOMAIN disk) => IsFiniteSet(DOMAIN disk')
    /\ \A p \in File : p # op.path =>
        /\ p \in DOMAIN disk' <=> p \in DOMAIN disk
        /\ p \in DOMAIN disk => disk'[p] = disk[p]
    /\ op.path \in DOMAIN disk' <=> op.content # "gone"
    /\ op.content # "gone" => disk'[op.path] = op.content

Relisted(op) ==
    /\ newest' \in Seq(File) /\ IsInjective(newest') /\ Listed' = Images'
    /\ op.path.kind # "png" => newest' = newest
    /\ op.path.kind = "png" /\ op.content # "gone" => newest' # << >> /\ newest'[1] = op.path
    /\ op.path.kind = "png" /\ op.content = "gone" /\ newest # << >> /\ newest[1] # op.path =>
            newest' # << >> /\ newest'[1] = newest[1]
    /\ op.path.kind = "png" /\ op.content # "gone" =>
            Len(newest') = IF op.path \in Listed THEN Len(newest) ELSE Len(newest) + 1
    /\ op.path.kind = "png" /\ op.content = "gone" =>
            Len(newest') = IF op.path \in Listed THEN Len(newest) - 1 ELSE Len(newest)

FolderOK ==
    /\ DOMAIN disk \subseteq File
    /\ disk \in [DOMAIN disk -> Content]
    /\ newest \in Seq(File) /\ IsInjective(newest) /\ Listed = Images

\* A file operation touches its file and no other.
LEMMA ApplyTouches ==
  ASSUME FolderOK, NEW op \in Op, Apply(op)
  PROVE  Touched(op)
<1>1. /\ op.path \in File /\ op.content \in Content \cup {"gone"}
  BY DEF Op
<1>. DEFINE kept == DOMAIN disk \ {op.path}
            new == IF op.content = "gone" THEN {} ELSE {op.path}
<1>2. disk' = [p \in kept \cup new |-> IF p = op.path THEN op.content ELSE disk[p]]
  BY DEF Apply
<1>3. DOMAIN disk' = kept \cup new
  BY <1>2
<1>4. \A p \in kept \cup new : disk'[p] = IF p = op.path THEN op.content ELSE disk[p]
  BY <1>2
<1>5. \A p \in kept \cup new : disk'[p] \in Content
  BY <1>4, <1>1 DEF FolderOK
<1>6. disk' \in [DOMAIN disk' -> Content]
  BY <1>2, <1>3, <1>5
<1>7. IsFiniteSet(DOMAIN disk) => IsFiniteSet(DOMAIN disk')
  <2>. SUFFICES ASSUME IsFiniteSet(DOMAIN disk) PROVE IsFiniteSet(kept \cup new)
    BY <1>3
  <2>1. IsFiniteSet(kept)
    BY FS_RemoveElement
  <2>2. CASE op.content = "gone"
    BY <2>1, <2>2
  <2>3. CASE op.content # "gone"
    BY <2>1, <2>3, FS_AddElement
  <2>. QED
    BY <2>2, <2>3
<1>8. DOMAIN disk' \subseteq File
  BY <1>3, <1>1 DEF FolderOK
<1>. QED
  BY <1>1, <1>3, <1>4, <1>6, <1>7, <1>8 DEF Touched, FolderOK

\* What it does to the listing: an image that is written is the newest, one that is
\* unlinked is gone.
LEMMA ApplyLists ==
  ASSUME FolderOK, NEW op \in Op, Apply(op)
  PROVE  Relisted(op)
<1>1. /\ op.path \in File /\ op.content \in Content \cup {"gone"}
  BY DEF Op
<1>2. Touched(op)
  BY ApplyTouches
<1>. DEFINE others == Only(newest, Listed \ {op.path})
<1>3. newest \in Seq(File) /\ IsInjective(newest)
  BY DEF FolderOK
<1>4. /\ others \in Seq(File) /\ IsInjective(others)
      /\ Range(others) = Listed \ {op.path}
      /\ newest # << >> /\ newest[1] \in Listed \ {op.path} =>
            others # << >> /\ others[1] = newest[1]
  <2>1. Listed = Range(newest)
    BY DEF Listed
  <2>. DEFINE T == Listed \ {op.path}
  <2>. HIDE DEF T
  <2>2. /\ Only(newest, T) \in Seq(File) /\ IsInjective(Only(newest, T))
        /\ Range(Only(newest, T)) = Range(newest) \cap T
        /\ newest # << >> /\ newest[1] \in T =>
              Only(newest, T) # << >> /\ Only(newest, T)[1] = newest[1]
    BY <1>3, OnlyOfDistinct
  <2>. QED
    BY <2>1, <2>2 DEF T
<1>5. newest' = IF op.path.kind # "png" THEN newest
                ELSE IF op.content = "gone" THEN others ELSE <<op.path>> \o others
  BY DEF Apply
<1>6. /\ IsFiniteSet(Listed) /\ Cardinality(Listed) = Len(newest)
      /\ Cardinality(Range(others)) = Len(others)
  BY <1>3, <1>4, ListSize DEF Listed
<1>7. Len(others) = IF op.path \in Listed THEN Len(newest) - 1 ELSE Len(newest)
  BY <1>4, <1>6, FS_RemoveElement
<1>. HIDE DEF others
<1>8. CASE op.path.kind # "png"
  <2>1. newest' = newest
    BY <1>5, <1>8
  <2>2. Images' = Images
    BY <1>2, <1>8 DEF Images, Touched, FolderOK
  <2>3. Listed' = Listed
    BY <2>1 DEF Listed
  <2>. QED
    BY <2>1, <2>2, <2>3, <1>8 DEF Relisted, FolderOK
<1>9. CASE op.path.kind = "png" /\ op.content = "gone"
  <2>1. newest' = others
    BY <1>5, <1>9
  <2>2. Images' = Images \ {op.path}
    BY <1>2, <1>9 DEF Images, Touched, FolderOK
  <2>3. Listed' = Listed \ {op.path}
    BY <2>1, <1>4 DEF Listed
  <2>4. Listed' = Images'
    BY <2>2, <2>3 DEF FolderOK
  <2>5. newest # << >> => newest[1] \in Listed
    BY <1>3 DEF Listed, Range
  <2>. QED
    BY <2>1, <2>4, <2>5, <1>4, <1>7, <1>9 DEF Relisted
<1>10. CASE op.path.kind = "png" /\ op.content # "gone"
  <2>1. newest' = <<op.path>> \o others
    BY <1>5, <1>10
  <2>2. Images' = Images \cup {op.path}
    BY <1>1, <1>2, <1>10 DEF Images, Touched, FolderOK
  <2>3. /\ newest' \in Seq(File) /\ Len(newest') = Len(others) + 1 /\ newest' # << >>
        /\ newest'[1] = op.path
        /\ \A n \in 1..Len(others) : newest'[n + 1] = others[n]
    BY <2>1, <1>1, <1>4
  <2>4. \A n \in 2..Len(newest') : n - 1 \in 1..Len(others) /\ newest'[n] = others[n - 1]
    <3>. TAKE n \in 2..Len(newest')
    <3>1. n - 1 \in 1..Len(others) /\ (n - 1) + 1 = n
      BY <2>3, <1>4
    <3>. QED
      BY <3>1, <2>3
  <2>5. \A n \in 1..Len(others) : others[n] \in Range(others) /\ others[n] # op.path
    <3>1. \A n \in 1..Len(others) : others[n] \in Range(others)
      BY <1>4 DEF Range
    <3>2. op.path \notin Range(others)
      BY <1>4
    <3>. QED
      BY <3>1, <3>2
  <2>6. \A x \in Range(others) : \E n \in 1..Len(others) : x = others[n]
    BY <1>4 DEF Range
  <2>7. Listed' = Listed \cup {op.path}
    <3>1. ASSUME NEW x \in Range(newest') PROVE x \in Listed \cup {op.path}
      <4>1. PICK n \in 1..Len(newest') : x = newest'[n]
        BY <2>3 DEF Range
      <4>2. CASE n = 1
        BY <4>1, <4>2, <2>3
      <4>3. CASE n # 1
        <5>1. n \in 2..Len(newest')
          BY <4>3
        <5>. QED
          BY <5>1, <4>1, <2>4, <2>5, <1>4
      <4>. QED
        BY <4>2, <4>3
    <3>2. ASSUME NEW x \in Listed \cup {op.path} PROVE x \in Range(newest')
      <4>1. CASE x = op.path
        <5>1. 1 \in DOMAIN newest'
          BY <2>3
        <5>. QED
          BY <5>1, <4>1, <2>3 DEF Range
      <4>2. CASE x # op.path
        <5>1. x \in Range(others)
          BY <4>2, <1>4
        <5>2. PICK n \in 1..Len(others) : x = others[n]
          BY <5>1, <2>6
        <5>3. n + 1 \in DOMAIN newest'
          BY <2>3, <1>4
        <5>. QED
          BY <5>2, <5>3, <2>3 DEF Range
      <4>. QED
        BY <4>1, <4>2
    <3>. QED
      BY <3>1, <3>2 DEF Listed
  <2>8. IsInjective(newest')
    <3>. SUFFICES ASSUME NEW a \in DOMAIN newest', NEW b \in DOMAIN newest', newest'[a] = newest'[b]
                  PROVE  a = b
      BY DEF IsInjective
    <3>1. a \in 1..Len(newest') /\ b \in 1..Len(newest')
      BY <2>3
    <3>2. \A c, d \in 1..Len(others) : others[c] = others[d] => c = d
      BY <1>4 DEF IsInjective
    <3>3. CASE a = 1 /\ b # 1
      <4>1. b \in 2..Len(newest')
        BY <3>1, <3>3
      <4>. QED
        BY <4>1, <3>3, <2>3, <2>4, <2>5
    <3>4. CASE a # 1 /\ b = 1
      <4>1. a \in 2..Len(newest')
        BY <3>1, <3>4
      <4>. QED
        BY <4>1, <3>4, <2>3, <2>4, <2>5
    <3>5. CASE a # 1 /\ b # 1
      <4>1. a \in 2..Len(newest') /\ b \in 2..Len(newest')
        BY <3>1, <3>5
      <4>2. others[a - 1] = others[b - 1] /\ a - 1 \in 1..Len(others) /\ b - 1 \in 1..Len(others)
        BY <4>1, <2>4
      <4>3. a - 1 = b - 1
        BY <4>2, <3>2
      <4>. QED
        BY <4>3, <3>1
    <3>. QED
      BY <3>3, <3>4, <3>5
  <2>9. Listed' = Images'
    BY <2>2, <2>7 DEF FolderOK
  <2>10. Len(newest') = IF op.path \in Listed THEN Len(newest) ELSE Len(newest) + 1
    BY <2>3, <1>7, <1>3
  <2>. QED
    BY <2>3, <2>8, <2>9, <2>10, <1>10 DEF Relisted
<1>. QED
  BY <1>8, <1>9, <1>10

(* What is planned.                                                          *)

Typed(i, k) == [id |-> i, stem |-> "typed", kind |-> k]
Neutral(i, k) == [id |-> i, stem |-> "Planet", kind |-> k]

\* What is left of the block under way.
Now == IF todo = << >> THEN << >> ELSE Head(todo).ops

\* A file operation that may be planned: metadata is written to metadata files only,
\* about planets that were stored, and only under the name they have.
OpIsSound(op, known) ==
    /\ op \in Op /\ op.path.id \in known
    /\ op.content \in {"named", "cleared", "bare"} => op.path.kind = "json"
    /\ op.content # "gone" /\ op.path.stem = "typed" => op.path.id \notin Plain

\* A block is about one planet.
BlockIsSound(b, known) ==
    /\ b.ops # << >>
    /\ \A n \in DOMAIN b.ops : OpIsSound(b.ops[n], known) /\ b.ops[n].path.id = b.ops[1].path.id

FilesAreSound ==
    \A p \in DOMAIN disk :
        /\ disk[p] \in {"named", "cleared", "bare"} => p.kind = "json"
        /\ p.stem = "typed" => p.id \notin Plain

JobIsSound ==
    /\ groups # {} => job.op = "clear_names"
    /\ job.op = "clear_names" =>
        Len(todo) <= 1 /\ \A k \in DOMAIN todo : todo[k].otherwise = "abort"
    /\ \A g \in groups : g.id \in used

BlocksAreSound == todo \in Seq(Block) /\ \A k \in DOMAIN todo : BlockIsSound(todo[k], used)

FolderIsSound ==
    /\ FolderOK /\ IsFiniteSet(DOMAIN disk) /\ FilesAreSound
    /\ \A p \in DOMAIN disk : p.id \in used

Registers ==
    /\ groups \subseteq Group /\ job \in Job
    /\ outcome \in {"none", "running", "ok", "failed", "crashed"}
    /\ outcome = "running" <=> ~AtRest
    /\ used \subseteq Id /\ faults \in 0..MaxFaults

Sound == FolderIsSound /\ BlocksAreSound /\ JobIsSound /\ Registers

\* A sound state is typed.
LEMMA SoundIsTyped == Sound => StoreTypeOK
<1>1. {p.id : p \in DOMAIN disk} \subseteq used <=> \A p \in DOMAIN disk : p.id \in used
  OBVIOUS
<1>. QED
  BY <1>1 DEF Sound, Registers, StoreTypeOK, FolderIsSound, FolderOK, BlocksAreSound

\* The operations of one group: first its metadata, then the copies, then the old
\* files go; nothing is done twice.
GroupOps ==
    /\ \A n \in DOMAIN Now :
        /\ Now[n].content = "gone" <=> Now[n].path.stem = "typed"
        /\ Now[n].content # "named"
        /\ Now[n].content # "gone" /\ Now[n].path.kind = "json" =>
               n = 1 /\ Now[n].content \in {"cleared", "bare"}
    /\ \A m, n \in DOMAIN Now :
        /\ Now[m].path = Now[n].path => m = n
        /\ Now[m].content = "gone" /\ Now[n].content # "gone" => n < m

\* The groups that are left are as they were listed, and none is there twice.
GroupsAreLists ==
    /\ \A g \in groups :
        /\ g.paths \subseteq DOMAIN disk /\ g.paths # {}
        /\ \A p \in g.paths : p.id = g.id /\ p.stem = g.stem
        /\ \A n \in DOMAIN Now :
            Now[n].content = "gone" => Now[n].path.id # g.id \/ g.stem # "typed"
    /\ \A g, h \in groups : g.id = h.id /\ g.stem = h.stem => g = h

Lists == job.op = "clear_names" => GroupOps /\ GroupsAreLists

\* The block under way has one operation less, or makes way for the next.
Advances ==
    /\ todo # << >> /\ Now \in Seq(Op) /\ Now # << >>
    /\ todo' \in Seq(Block)
    /\ Len(Now) = 1 => todo' = Tail(todo)
    /\ Len(Now) # 1 =>
        /\ Len(todo') = Len(todo)
        /\ todo'[1].ops = Tail(Now) /\ todo'[1].otherwise = todo[1].otherwise
        /\ \A k \in 2..Len(todo) : todo'[k] = todo[k]

\* The operations under way are those of the first block.
LEMMA NowIsFirst ==
  ASSUME BlocksAreSound, todo # << >>
  PROVE  /\ todo[1] \in Block /\ Head(todo) = todo[1] /\ 1 \in DOMAIN todo
         /\ Now = todo[1].ops /\ Now \in Seq(Op) /\ Now # << >> /\ 1 \in DOMAIN Now
         /\ Head(Head(todo).ops) = Now[1] /\ OpIsSound(Now[1], used) /\ Now[1] \in Op
<1>1. todo[1] \in Block /\ Head(todo) = todo[1] /\ 1 \in DOMAIN todo
  BY DEF BlocksAreSound
<1>2. BlockIsSound(todo[1], used)
  BY <1>1 DEF BlocksAreSound
<1>3. Now = todo[1].ops
  BY <1>1 DEF Now
<1>4. Now \in Seq(Op)
  BY <1>1, <1>3 DEF Block
<1>5. Now # << >>
  BY <1>2, <1>3 DEF BlockIsSound
<1>6. 1 \in DOMAIN Now
  BY <1>4, <1>5
<1>7. OpIsSound(Now[1], used)
  BY <1>2, <1>3, <1>6 DEF BlockIsSound
<1>8. Head(Now) = Now[1] /\ Head(Head(todo).ops) = Now[1]
  BY <1>1, <1>3, <1>4, <1>5
<1>. QED
  BY <1>1, <1>3, <1>4, <1>5, <1>6, <1>7, <1>8 DEF OpIsSound

\* A step does the first operation under way and takes it off the plan.
LEMMA StepAdvances ==
  ASSUME Sound, Step
  PROVE  Advances /\ Touched(Now[1]) /\ Relisted(Now[1])
<1>1. todo # << >> /\ BlocksAreSound /\ FolderOK
  BY DEF Step, Sound, FolderIsSound
<1>2. /\ todo[1] \in Block /\ Head(todo) = todo[1] /\ 1 \in DOMAIN todo
      /\ Now = todo[1].ops /\ Now \in Seq(Op) /\ Now # << >> /\ Now[1] \in Op
      /\ Head(Head(todo).ops) = Now[1]
  BY <1>1, NowIsFirst
<1>3. Apply(Now[1])
  BY <1>2 DEF Step
<1>4. Touched(Now[1]) /\ Relisted(Now[1])
  BY <1>1, <1>2, <1>3, ApplyTouches, ApplyLists
<1>5. todo' = IF Len(Now) = 1 THEN Tail(todo) ELSE [todo EXCEPT ![1].ops = Tail(@)]
  BY <1>2 DEF Step
<1>6. todo \in Seq(Block)
  BY <1>1 DEF BlocksAreSound
<1>7. CASE Len(Now) = 1
  BY <1>1, <1>2, <1>4, <1>5, <1>6, <1>7 DEF Advances
<1>8. CASE Len(Now) # 1
  <2>1. todo' = [todo EXCEPT ![1] = [todo[1] EXCEPT !.ops = Tail(todo[1].ops)]]
    BY <1>5, <1>8
  <2>. DEFINE b == [todo[1] EXCEPT !.ops = Tail(todo[1].ops)]
  <2>2. Tail(todo[1].ops) \in Seq(Op)
    BY <1>2
  <2>3. b \in Block /\ b.ops = Tail(Now) /\ b.otherwise = todo[1].otherwise
    BY <1>2, <2>2 DEF Block
  <2>. HIDE DEF b
  <2>4. todo' = [todo EXCEPT ![1] = b]
    BY <2>1 DEF b
  <2>5. todo' \in Seq(Block) /\ Len(todo') = Len(todo) /\ todo'[1] = b
        /\ \A k \in 2..Len(todo) : todo'[k] = todo[k]
    BY <2>3, <2>4, <1>2, <1>6
  <2>. QED
    BY <1>1, <1>2, <1>4, <2>3, <2>5, <1>8 DEF Advances
<1>. QED
  BY <1>7, <1>8

\* Each block that is left was there, or is the first with an operation less.
LEMMA BlocksLeft ==
  ASSUME BlocksAreSound, Advances, NEW k \in DOMAIN todo'
  PROVE  \/ \E l \in DOMAIN todo : todo'[k] = todo[l]
         \/ k = 1 /\ Len(Now) # 1 /\ todo'[1].ops = Tail(Now) /\ todo'[1].otherwise = todo[1].otherwise
<1>1. todo \in Seq(Block) /\ todo # << >> /\ todo' \in Seq(Block)
  BY DEF BlocksAreSound, Advances
<1>2. CASE Len(Now) = 1
  <2>1. todo' = Tail(todo)
    BY <1>2 DEF Advances
  <2>2. k + 1 \in DOMAIN todo /\ todo'[k] = todo[k + 1]
    BY <1>1, <2>1
  <2>. QED
    BY <2>2
<1>3. CASE Len(Now) # 1
  <2>1. /\ Len(todo') = Len(todo)
        /\ todo'[1].ops = Tail(Now) /\ todo'[1].otherwise = todo[1].otherwise
        /\ \A l \in 2..Len(todo) : todo'[l] = todo[l]
    BY <1>3 DEF Advances
  <2>2. CASE k = 1
    BY <2>1, <2>2, <1>3
  <2>3. CASE k # 1
    <3>1. k \in 2..Len(todo) /\ k \in DOMAIN todo
      BY <1>1, <2>1, <2>3
    <3>. QED
      BY <3>1, <2>1
  <2>. QED
    BY <2>2, <2>3
<1>. QED
  BY <1>2, <1>3

\* The elements of a concatenation.
LEMMA ConcatHas ==
  ASSUME NEW E, NEW s \in Seq(E), NEW t \in Seq(E)
  PROVE  /\ s \o t \in Seq(E) /\ Len(s \o t) = Len(s) + Len(t)
         /\ \A n \in 1..Len(s) : (s \o t)[n] = s[n]
         /\ \A n \in 1..Len(t) : (s \o t)[Len(s) + n] = t[n]
  OBVIOUS

\* A list is not empty when it has a first element.
LEMMA NotEmpty ==
  ASSUME NEW E, NEW s \in Seq(E)
  PROVE  s # << >> <=> 1 \in DOMAIN s
  OBVIOUS

\* The elements of a tail.
LEMMA TailHas ==
  ASSUME NEW E, NEW s \in Seq(E), s # << >>
  PROVE  /\ Tail(s) \in Seq(E) /\ Len(Tail(s)) = Len(s) - 1
         /\ \A n \in DOMAIN Tail(s) : n + 1 \in DOMAIN s /\ Tail(s)[n] = s[n + 1]
         /\ \A n \in DOMAIN s : n # 1 => n - 1 \in DOMAIN Tail(s) /\ Tail(s)[n - 1] = s[n]
  OBVIOUS

\* Of a job that has one block at a time, the operations left are the tail.
LEMMA NowLeft ==
  ASSUME BlocksAreSound, Advances, Len(todo) <= 1
  PROVE  /\ Len(todo') <= 1
         /\ Now \in Seq(Op) /\ Now # << >>
         /\ todo' = << >> <=> Len(Now) = 1
         /\ Now' \in Seq(Op) /\ Len(Now') = Len(Now) - 1
         /\ \A n \in DOMAIN Now' : n + 1 \in DOMAIN Now /\ Now'[n] = Now[n + 1]
         /\ \A n \in DOMAIN Now : n # 1 => n - 1 \in DOMAIN Now' /\ Now'[n - 1] = Now[n]
<1>1. todo \in Seq(Block) /\ todo # << >> /\ todo' \in Seq(Block) /\ Now \in Seq(Op) /\ Now # << >>
  BY DEF BlocksAreSound, Advances
<1>2. Len(todo) = 1
  <2>1. 1 \in DOMAIN todo
    BY <1>1
  <2>2. Len(todo) \in Nat /\ DOMAIN todo = 1..Len(todo)
    BY <1>1
  <2>. QED
    BY <2>1, <2>2
<1>3. CASE Len(Now) = 1
  <2>1. todo' = Tail(todo)
    BY <1>3 DEF Advances
  <2>2. todo' = << >> /\ Len(todo') = 0
    BY <1>1, <1>2, <2>1
  <2>3. Now' = << >>
    BY <2>2 DEF Now
  <2>4. \A n \in DOMAIN Now : n = 1
    BY <1>1, <1>3
  <2>. QED
    BY <1>1, <1>3, <2>2, <2>3, <2>4
<1>4. CASE Len(Now) # 1
  <2>1. Len(todo') = 1 /\ todo'[1].ops = Tail(Now) /\ todo' # << >>
    BY <1>1, <1>2, <1>4 DEF Advances
  <2>2. Head(todo') = todo'[1]
    BY <1>1, <2>1
  <2>3. Now' = Tail(Now)
    BY <2>1, <2>2 DEF Now
  <2>. QED
    BY <1>1, <1>4, <2>1, <2>3, TailHas
<1>. QED
  BY <1>3, <1>4

\* The operations and the files that the handlers name.
LEMMA OpTypes ==
  ASSUME NEW p \in File
  PROVE  /\ \A c \in Content : Write(p, c) \in Op /\ Write(p, c).path = p /\ Write(p, c).content = c
         /\ Unlink(p) \in Op /\ Unlink(p).path = p /\ Unlink(p).content = "gone"
         /\ \A k \in Kind : Of(p, k) \in File /\ Of(p, k).id = p.id /\ Of(p, k).stem = p.stem
                              /\ Of(p, k).kind = k
         /\ Renamed(p) \in File /\ Renamed(p).id = p.id /\ Renamed(p).stem = "Planet"
         /\ Renamed(p).kind = p.kind
  BY DEF File, Op, Write, Unlink, Of, Renamed, Stem

\* A file is known by its planet, its stem and its kind.
LEMMA SameFile ==
  ASSUME NEW p \in File, NEW q \in File, p.id = q.id, p.stem = q.stem, p.kind = q.kind
  PROVE  p = q
  BY DEF File

\* An operation is a write or an unlink.
LEMMA OpIs ==
  ASSUME NEW op \in Op
  PROVE  /\ op = Write(op.path, op.content)
         /\ op.content = "gone" => op = Unlink(op.path)
  BY DEF Op, Write, Unlink

\* The typed and the neutral file of a planet and a kind.
LEMMA PathsOf ==
  ASSUME NEW i \in Id, NEW k \in Kind
  PROVE  /\ Typed(i, k) \in File /\ Typed(i, k).id = i /\ Typed(i, k).stem = "typed"
         /\ Typed(i, k).kind = k
         /\ Neutral(i, k) \in File /\ Neutral(i, k).id = i /\ Neutral(i, k).stem = "Planet"
         /\ Neutral(i, k).kind = k
         /\ \A p \in File : p.id = i /\ p.kind = k /\ p.stem = "typed" => p = Typed(i, k)
         /\ \A p \in File : p.id = i /\ p.kind = k /\ p.stem = "Planet" => p = Neutral(i, k)
         /\ ClearedMetadata(i) = Neutral(i, "json")
  BY DEF Typed, Neutral, ClearedMetadata, File, Stem

\* The removal of one planet.
LEMMA RemovalIsSound ==
  ASSUME NEW known, NEW p \in File, p.id \in known, NEW otherwise \in {"skip", "abort"}
  PROVE  /\ [ops |-> Removal(p), otherwise |-> otherwise] \in Block
         /\ BlockIsSound([ops |-> Removal(p), otherwise |-> otherwise], known)
         /\ Removal(p) \in Seq(Op) /\ Len(Removal(p)) = 3
         /\ \A n \in 1..3 : Removal(p)[n].content = "gone" /\ Removal(p)[n].path.id = p.id
<1>1. /\ Of(p, "json") \in File /\ Of(p, "drawing") \in File
      /\ Of(p, "json").id = p.id /\ Of(p, "drawing").id = p.id
  BY OpTypes DEF Kind
<1>2. \A q \in {p, Of(p, "json"), Of(p, "drawing")} :
        Unlink(q) \in Op /\ OpIsSound(Unlink(q), known) /\ Unlink(q).path.id = p.id
        /\ Unlink(q).content = "gone"
  <2>. TAKE q \in {p, Of(p, "json"), Of(p, "drawing")}
  <2>1. q \in File /\ q.id = p.id
    BY <1>1
  <2>2. Unlink(q) \in Op /\ Unlink(q).path = q /\ Unlink(q).content = "gone"
    BY <2>1, OpTypes
  <2>. QED
    BY <2>1, <2>2 DEF OpIsSound
<1>. DEFINE r == Removal(p)
<1>3. /\ r \in Seq(Op) /\ Len(r) = 3 /\ r # << >> /\ DOMAIN r = 1..3
      /\ r[1] = Unlink(p) /\ r[2] = Unlink(Of(p, "json")) /\ r[3] = Unlink(Of(p, "drawing"))
  BY <1>2 DEF Removal
<1>4. \A n \in 1..3 : OpIsSound(r[n], known) /\ r[n].content = "gone" /\ r[n].path.id = p.id
  <2>. TAKE n \in 1..3
  <2>1. n = 1 \/ n = 2 \/ n = 3
    OBVIOUS
  <2>. QED
    BY <2>1, <1>2, <1>3
<1>. HIDE DEF r
<1>. DEFINE b == [ops |-> r, otherwise |-> otherwise]
<1>5. b.ops = r
  OBVIOUS
<1>6. b \in Block
  BY <1>3 DEF Block
<1>. HIDE DEF b
<1>7. BlockIsSound(b, known)
  BY <1>3, <1>4, <1>5 DEF BlockIsSound
<1>. QED
  BY <1>3, <1>4, <1>6, <1>7 DEF r, b

\* The removals of a list of images, one block each.
LEMMA RemovalsList ==
  ASSUME NEW known, NEW images \in Seq(File), \A k \in DOMAIN images : images[k].id \in known
  PROVE  /\ Removals(images) \in Seq(Block) /\ Len(Removals(images)) = Len(images)
         /\ \A k \in DOMAIN images :
              /\ Removals(images)[k] = [ops |-> Removal(images[k]), otherwise |-> "skip"]
              /\ BlockIsSound(Removals(images)[k], known)
<1>1. \A k \in DOMAIN images : images[k] \in File
  OBVIOUS
<1>2. \A k \in DOMAIN images :
        [ops |-> Removal(images[k]), otherwise |-> "skip"] \in Block
        /\ BlockIsSound([ops |-> Removal(images[k]), otherwise |-> "skip"], known)
  BY <1>1, RemovalIsSound
<1>3. DOMAIN images = 1..Len(images) /\ Len(images) \in Nat
  OBVIOUS
<1>4. Removals(images) = [k \in 1..Len(images) |-> [ops |-> Removal(images[k]), otherwise |-> "skip"]]
  BY <1>3 DEF Removals
<1>5. Removals(images) \in [1..Len(images) -> Block]
  BY <1>2, <1>3, <1>4
<1>6. \A k \in DOMAIN images : Removals(images)[k] = [ops |-> Removal(images[k]), otherwise |-> "skip"]
  BY <1>3, <1>4
<1>7. Removals(images) \in Seq(Block) /\ Len(Removals(images)) = Len(images)
  BY <1>3, <1>5
<1>. QED
  BY <1>2, <1>6, <1>7

\* The operations planned for a group.
Planned(g, metadata, ops) ==
    /\ ops \in Seq(Op) /\ ops # << >>
    /\ ops[1] = Write(ClearedMetadata(g.id), Scrubbed(metadata))
    /\ \A n \in DOMAIN ops : n # 1 =>
        \/ \E p \in g.paths : p.kind # "json" /\ ops[n] = Write(Renamed(p), disk[p])
        \/ \E p \in g.paths : p.stem # "Planet" /\ ops[n] = Unlink(p)
    /\ \A p \in g.paths : p.kind # "json" =>
        \E n \in DOMAIN ops : ops[n] = Write(Renamed(p), disk[p])
    /\ \A p \in g.paths : p.stem # "Planet" => \E n \in DOMAIN ops : ops[n] = Unlink(p)
    /\ \A m, n \in DOMAIN ops : ops[m].path = ops[n].path => m = n
    /\ \A m, n \in DOMAIN ops : ops[m].content = "gone" /\ ops[n].content # "gone" => n < m

\* Any order of a finite set lists it, and nothing twice.
LEMMA OrderLists ==
  ASSUME NEW S, IsFiniteSet(S), NEW order \in SetToSeqs(S)
  PROVE  order \in Seq(S) /\ IsInjective(order) /\ Range(order) = S
<1>1. order \in [1..Cardinality(S) -> S] /\ \A i, j \in 1..Cardinality(S) : i # j => order[i] # order[j]
  BY DEF SetToSeqs
<1>2. Cardinality(S) \in Nat
  BY FS_CardinalityType
<1>3. order \in Seq(S) /\ IsInjective(order)
  BY <1>1, <1>2 DEF IsInjective
<1>4. IsFiniteSet(1..Cardinality(S)) /\ Cardinality(1..Cardinality(S)) = Cardinality(S)
  <2>1. 1 \in Int /\ Cardinality(S) \in Int
    BY <1>2
  <2>2. /\ IsFiniteSet(1..Cardinality(S))
        /\ Cardinality(1..Cardinality(S)) = IF 1 > Cardinality(S) THEN 0 ELSE Cardinality(S) - 1 + 1
    BY <2>1, FS_Interval
  <2>. QED
    BY <2>2, <1>2
<1>5. order \in Injection(1..Cardinality(S), S)
  BY <1>1, <1>3 DEF Injection
<1>6. order \in Surjection(1..Cardinality(S), S)
  BY <1>4, <1>5, FS_Injection
<1>7. Range(order) = S
  BY <1>1, <1>6 DEF Surjection, Range
<1>. QED
  BY <1>3, <1>7

\* What _clear_group plans for a group: metadata first, copies, and then the old files.
LEMMA GroupIsPlanned ==
  ASSUME FolderOK, NEW g \in Group, IsFiniteSet(g.paths), g.paths \subseteq DOMAIN disk,
         \A p \in g.paths : p.id = g.id /\ p.stem = g.stem,
         NEW metadata \in Content, NEW order \in SetToSeqs(g.paths)
  PROVE  Planned(g, metadata, ClearedGroup(g, metadata, order))
<1>1. g.id \in Id /\ g.stem \in Stem /\ g.paths \subseteq File
  BY DEF Group
<1>2. order \in Seq(g.paths) /\ order \in Seq(File) /\ IsInjective(order) /\ Range(order) = g.paths
  <2>1. order \in Seq(g.paths) /\ IsInjective(order) /\ Range(order) = g.paths
    BY OrderLists
  <2>. QED
    BY <2>1, <1>1
<1>. DEFINE others == {p \in File : p.kind # "json"}
            typed == {p \in File : p.stem # "Planet"}
            files == Only(order, others)
            old == Only(order, typed)
            C == Copies(order)
            L == Leftovers(order)
            w == Write(ClearedMetadata(g.id), Scrubbed(metadata))
            ops == <<w>> \o C \o L
<1>3. C = [n \in DOMAIN files |-> Write(Renamed(files[n]), disk[files[n]])]
  BY DEF Copies
<1>4. L = [n \in DOMAIN old |-> Unlink(old[n])]
  BY DEF Leftovers
<1>5. ClearedGroup(g, metadata, order) = ops
  BY DEF ClearedGroup
<1>6. w \in Op /\ w.path = ClearedMetadata(g.id) /\ w.content # "gone"
      /\ w.path.kind = "json" /\ w.path.stem = "Planet"
  <2>1. ClearedMetadata(g.id) \in File /\ ClearedMetadata(g.id).kind = "json"
        /\ ClearedMetadata(g.id).stem = "Planet"
    BY <1>1 DEF ClearedMetadata, File, Stem, Kind
  <2>2. Scrubbed(metadata) \in Content /\ Scrubbed(metadata) # "gone"
    BY DEF Scrubbed, Content
  <2>. QED
    BY <2>1, <2>2, OpTypes
<1>7. /\ files \in Seq(File) /\ IsInjective(files) /\ Range(files) = g.paths \cap others
      /\ old \in Seq(File) /\ IsInjective(old) /\ Range(old) = g.paths \cap typed
  <2>. HIDE DEF others, typed
  <2>. QED
    BY <1>2, OnlyOfDistinct
<1>. HIDE DEF C, L, w, files, old
<1>8. /\ DOMAIN files = 1..Len(files) /\ Len(files) \in Nat
      /\ DOMAIN old = 1..Len(old) /\ Len(old) \in Nat
      /\ \A n \in 1..Len(files) : files[n] \in g.paths /\ files[n] \in File /\ files[n].kind # "json"
      /\ \A n \in 1..Len(old) : old[n] \in g.paths /\ old[n] \in File /\ old[n].stem # "Planet"
      /\ \A p \in g.paths : p.kind # "json" => \E n \in 1..Len(files) : files[n] = p
      /\ \A p \in g.paths : p.stem # "Planet" => \E n \in 1..Len(old) : old[n] = p
  <2>1. /\ DOMAIN files = 1..Len(files) /\ Len(files) \in Nat
        /\ DOMAIN old = 1..Len(old) /\ Len(old) \in Nat
    BY <1>7
  <2>2. \A n \in 1..Len(files) : files[n] \in g.paths /\ files[n] \in File /\ files[n].kind # "json"
    BY <1>7, <2>1 DEF Range
  <2>3. \A n \in 1..Len(old) : old[n] \in g.paths /\ old[n] \in File /\ old[n].stem # "Planet"
    BY <1>7, <2>1 DEF Range
  <2>4. \A p \in g.paths : p.kind # "json" => \E n \in 1..Len(files) : files[n] = p
    BY <1>1, <1>7, <2>1 DEF Range
  <2>5. \A p \in g.paths : p.stem # "Planet" => \E n \in 1..Len(old) : old[n] = p
    BY <1>1, <1>7, <2>1 DEF Range
  <2>. QED
    BY <2>1, <2>2, <2>3, <2>4, <2>5
<1>9. /\ C \in Seq(Op) /\ Len(C) = Len(files)
      /\ \A n \in 1..Len(files) :
            /\ C[n] = Write(Renamed(files[n]), disk[files[n]])
            /\ C[n].path = Renamed(files[n]) /\ C[n].content # "gone" /\ C[n] \in Op
  <2>1. \A n \in 1..Len(files) : C[n] = Write(Renamed(files[n]), disk[files[n]])
    BY <1>3, <1>8
  <2>2. \A n \in 1..Len(files) : disk[files[n]] \in Content /\ Renamed(files[n]) \in File
    BY <1>8, OpTypes DEF FolderOK
  <2>3. "gone" \notin Content
    BY DEF Content
  <2>4. \A n \in 1..Len(files) :
            C[n].path = Renamed(files[n]) /\ C[n].content # "gone" /\ C[n] \in Op
    <3>. TAKE n \in 1..Len(files)
    <3>. DEFINE p == Renamed(files[n])
                d == disk[files[n]]
    <3>1. p \in File /\ d \in Content /\ C[n] = Write(p, d)
      BY <2>1, <2>2
    <3>. HIDE DEF p, d
    <3>2. C[n] \in Op /\ C[n].path = p /\ C[n].content = d
      BY <3>1, OpTypes
    <3>. QED
      BY <3>1, <3>2, <2>3 DEF p
  <2>5. C \in [1..Len(files) -> Op]
    BY <1>3, <1>8, <2>4
  <2>6. C \in Seq(Op) /\ Len(C) = Len(files)
    BY <2>5, <1>8
  <2>. QED
    BY <2>1, <2>4, <2>6
<1>10. /\ L \in Seq(Op) /\ Len(L) = Len(old)
       /\ \A n \in 1..Len(old) :
            L[n] = Unlink(old[n]) /\ L[n].path = old[n] /\ L[n].content = "gone" /\ L[n] \in Op
  <2>1. \A n \in 1..Len(old) :
            L[n] = Unlink(old[n]) /\ L[n].path = old[n] /\ L[n].content = "gone" /\ L[n] \in Op
    BY <1>4, <1>8, OpTypes
  <2>2. L \in [1..Len(old) -> Op]
    BY <1>4, <1>8, <2>1
  <2>3. L \in Seq(Op) /\ Len(L) = Len(old)
    BY <2>2, <1>8
  <2>. QED
    BY <2>1, <2>3
<1>. DEFINE c == Len(files)
            l == Len(old)
<1>11. /\ ops \in Seq(Op) /\ Len(ops) = 1 + c + l /\ ops # << >> /\ DOMAIN ops = 1..(1 + c + l)
       /\ ops[1] = w
       /\ \A n \in 1..c : ops[n + 1] = C[n]
       /\ \A n \in 1..l : ops[n + 1 + c] = L[n]
  <2>. DEFINE M == <<w>> \o C
  <2>1. /\ M \in Seq(Op) /\ Len(M) = 1 + c /\ M[1] = w
        /\ \A n \in 1..c : M[n + 1] = C[n]
    BY <1>6, <1>8, <1>9
  <2>. HIDE DEF M
  <2>2. /\ M \o L \in Seq(Op) /\ Len(M \o L) = 1 + c + l
        /\ \A n \in 1..(1 + c) : (M \o L)[n] = M[n]
        /\ \A n \in 1..l : (M \o L)[n + 1 + c] = L[n]
    <3>1. Len(M) = 1 + c /\ Len(L) = l /\ M \in Seq(Op) /\ L \in Seq(Op) /\ c \in Nat /\ l \in Nat
      BY <2>1, <1>8, <1>10
    <3>2. \A n \in 1..l : Len(M) + n = n + 1 + c
      BY <3>1
    <3>. HIDE DEF c, l
    <3>3. /\ M \o L \in Seq(Op) /\ Len(M \o L) = Len(M) + Len(L)
          /\ \A n \in 1..Len(M) : (M \o L)[n] = M[n]
          /\ \A n \in 1..Len(L) : (M \o L)[Len(M) + n] = L[n]
      <4>1. M \in Seq(Op) /\ L \in Seq(Op)
        BY <3>1
      <4>. QED
        BY ONLY <4>1, ConcatHas
    <3>. QED
      BY <3>1, <3>2, <3>3
  <2>3. ops = M \o L
    BY DEF M
  <2>4. /\ 1 \in 1..(1 + c) /\ \A n \in 1..c : n + 1 \in 1..(1 + c)
    BY <1>8
  <2>5. c \in Nat /\ l \in Nat
    BY <1>8
  <2>. HIDE DEF c, l, ops
  <2>6. ops \in Seq(Op) /\ Len(ops) = 1 + c + l /\ DOMAIN ops = 1..(1 + c + l) /\ ops # << >>
    BY <2>2, <2>3, <2>5
  <2>7. ops[1] = w /\ \A n \in 1..c : ops[n + 1] = C[n]
    BY <2>1, <2>2, <2>3, <2>4
  <2>. QED
    BY <2>2, <2>3, <2>6, <2>7
<1>. HIDE DEF ops
<1>12. \A n \in DOMAIN ops :
        \/ n = 1
        \/ n - 1 \in 1..c /\ ops[n] = C[n - 1]
        \/ n - 1 - c \in 1..l /\ ops[n] = L[n - 1 - c]
  <2>. TAKE n \in DOMAIN ops
  <2>1. CASE n - 1 \in 1..c
    BY <2>1, <1>11, <1>8
  <2>2. CASE n - 1 - c \in 1..l
    BY <2>2, <1>11, <1>8
  <2>. QED
    BY <2>1, <2>2, <1>11, <1>8
<1>13. \A n \in DOMAIN ops : n # 1 =>
        \/ \E p \in g.paths : p.kind # "json" /\ ops[n] = Write(Renamed(p), disk[p])
        \/ \E p \in g.paths : p.stem # "Planet" /\ ops[n] = Unlink(p)
  BY <1>8, <1>9, <1>10, <1>12
<1>14. \A p \in g.paths : p.kind # "json" =>
        \E n \in DOMAIN ops : ops[n] = Write(Renamed(p), disk[p])
  <2>. TAKE p \in g.paths
  <2>. HAVE p.kind # "json"
  <2>1. PICK n \in 1..c : files[n] = p
    BY <1>8
  <2>2. n + 1 \in DOMAIN ops /\ ops[n + 1] = C[n]
    BY <1>8, <1>11
  <2>. QED
    BY <2>1, <2>2, <1>9
<1>15. \A p \in g.paths : p.stem # "Planet" => \E n \in DOMAIN ops : ops[n] = Unlink(p)
  <2>. TAKE p \in g.paths
  <2>. HAVE p.stem # "Planet"
  <2>1. PICK n \in 1..l : old[n] = p
    BY <1>8
  <2>2. n + 1 + c \in DOMAIN ops /\ ops[n + 1 + c] = L[n]
    BY <1>8, <1>11
  <2>. QED
    BY <2>1, <2>2, <1>10
<1>16. \A n \in 1..c : C[n].path.kind # "json" /\ C[n].path.stem = "Planet"
  BY <1>8, <1>9, OpTypes
<1>17. \A n \in 1..l : L[n].path.stem # "Planet"
  BY <1>8, <1>10
<1>18. \A m, n \in 1..c : C[m].path = C[n].path => m = n
  <2>. SUFFICES ASSUME NEW m \in 1..c, NEW n \in 1..c, C[m].path = C[n].path PROVE m = n
    OBVIOUS
  <2>1. files[m] \in g.paths /\ files[n] \in g.paths /\ files[m] \in File /\ files[n] \in File
    BY <1>8
  <2>2. files[m].kind = files[n].kind
    BY <2>1, <1>9, OpTypes
  <2>3. files[m] = files[n]
    BY <2>1, <2>2, SameFile
  <2>. QED
    BY <2>3, <1>7, <1>8 DEF IsInjective
<1>19. \A m, n \in 1..l : L[m].path = L[n].path => m = n
  <2>. SUFFICES ASSUME NEW m \in 1..l, NEW n \in 1..l, L[m].path = L[n].path PROVE m = n
    OBVIOUS
  <2>1. old[m] = old[n] /\ m \in DOMAIN old /\ n \in DOMAIN old
    BY <1>8, <1>10
  <2>. QED
    BY <2>1, <1>7 DEF IsInjective
<1>20. \A m, n \in DOMAIN ops : ops[m].path = ops[n].path => m = n
  <2>. SUFFICES ASSUME NEW m \in DOMAIN ops, NEW n \in DOMAIN ops, ops[m].path = ops[n].path, m < n
                PROVE FALSE
    BY <1>11, <1>8
  <2>1. n # 1
    BY <1>11, <1>8
  <2>2. CASE m = 1
    BY <2>1, <2>2, <1>6, <1>11, <1>12, <1>16, <1>17
  <2>3. CASE m - 1 \in 1..c /\ ops[m] = C[m - 1] /\ n - 1 \in 1..c /\ ops[n] = C[n - 1]
    <3>1. m - 1 = n - 1
      BY <2>3, <1>18
    <3>. QED
      BY <3>1, <1>11, <1>8
  <2>4. CASE m - 1 - c \in 1..l /\ ops[m] = L[m - 1 - c] /\ n - 1 - c \in 1..l /\ ops[n] = L[n - 1 - c]
    <3>1. m - 1 - c = n - 1 - c
      BY <2>4, <1>19
    <3>. QED
      BY <3>1, <1>11, <1>8
  <2>5. CASE m - 1 \in 1..c /\ ops[m] = C[m - 1] /\ n - 1 - c \in 1..l /\ ops[n] = L[n - 1 - c]
    BY <2>5, <1>16, <1>17
  <2>6. CASE m - 1 - c \in 1..l /\ ops[m] = L[m - 1 - c] /\ n - 1 \in 1..c /\ ops[n] = C[n - 1]
    BY <2>6, <1>16, <1>17
  <2>. QED
    BY <2>1, <2>2, <2>3, <2>4, <2>5, <2>6, <1>12
<1>21. \A m, n \in DOMAIN ops : ops[m].content = "gone" /\ ops[n].content # "gone" => n < m
  <2>. SUFFICES ASSUME NEW m \in DOMAIN ops, NEW n \in DOMAIN ops,
                       ops[m].content = "gone", ops[n].content # "gone"
                PROVE  n < m
    OBVIOUS
  <2>1. m - 1 - c \in 1..l
    BY <1>6, <1>9, <1>11, <1>12
  <2>2. n = 1 \/ n - 1 \in 1..c
    BY <1>10, <1>12
  <2>. QED
    BY <2>1, <2>2, <1>8, <1>11
<1>22. ops[1] = Write(ClearedMetadata(g.id), Scrubbed(metadata))
  BY <1>11 DEF w
<1>23. Planned(g, metadata, ops)
  BY <1>11, <1>13, <1>14, <1>15, <1>20, <1>21, <1>22 DEF Planned
<1>. QED
  BY <1>5, <1>23

(* The folder and the plans stay sound.                                      *)

\* A sound operation leaves a sound folder.
LEMMA TouchIsSound ==
  ASSUME FolderIsSound, NEW op, OpIsSound(op, used), Touched(op), Relisted(op), used' = used
  PROVE  FolderIsSound'
<1>1. op \in Op /\ op.path \in File /\ op.path.id \in used
  BY DEF OpIsSound, Op
<1>2. FolderOK'
  BY DEF Touched, Relisted, FolderOK
<1>3. IsFiniteSet(DOMAIN disk')
  BY DEF Touched, FolderIsSound
<1>4. ASSUME NEW p \in DOMAIN disk'
      PROVE  /\ p.id \in used
             /\ disk'[p] \in {"named", "cleared", "bare"} => p.kind = "json"
             /\ p.stem = "typed" => p.id \notin Plain
  <2>1. p \in File
    BY DEF Touched
  <2>2. CASE p # op.path
    <3>1. p \in DOMAIN disk /\ disk'[p] = disk[p]
      BY <2>1, <2>2 DEF Touched
    <3>. QED
      BY <3>1 DEF FolderIsSound, FilesAreSound
  <2>3. CASE p = op.path
    <3>1. op.content # "gone" /\ disk'[p] = op.content
      BY <2>3 DEF Touched
    <3>. QED
      BY <2>3, <3>1, <1>1 DEF OpIsSound
  <2>. QED
    BY <2>2, <2>3
<1>. QED
  BY <1>2, <1>3, <1>4 DEF FolderIsSound, FilesAreSound

\* The empty folder is sound.
LEMMA SoundStarts == StoreInit => Sound /\ Lists
<1>. SUFFICES ASSUME StoreInit PROVE Sound /\ Lists
  OBVIOUS
<1>1. /\ disk = << >> /\ newest = << >> /\ todo = << >> /\ groups = {}
      /\ job = [op |-> "none", ids |-> {}, drawn |-> {}, already |-> {}]
      /\ outcome = "none" /\ used = {} /\ faults = 0
  BY DEF StoreInit
<1>2. DOMAIN disk = {} /\ DOMAIN newest = {}
  BY <1>1
<1>3. IsFiniteSet(DOMAIN disk)
  BY <1>2, FS_EmptySet
<1>4. Listed = {} /\ Images = {} /\ IsInjective(newest)
  BY <1>2 DEF Listed, Images, Range, IsInjective
<1>5. newest \in Seq(File) /\ disk \in [DOMAIN disk -> Content]
  BY <1>1, <1>2
<1>6. FolderIsSound
  BY <1>2, <1>3, <1>4, <1>5 DEF FolderIsSound, FolderOK, FilesAreSound
<1>7. BlocksAreSound
  BY <1>1 DEF BlocksAreSound
<1>8. JobIsSound /\ Lists
  BY <1>1 DEF JobIsSound, Lists
<1>9. job \in Job
  BY <1>1 DEF Job
<1>10. outcome = "running" <=> ~AtRest
  BY <1>1 DEF AtRest
<1>11. faults \in 0..MaxFaults
  BY <1>1, StoreAssumption
<1>. QED
  BY <1>1, <1>6, <1>7, <1>8, <1>9, <1>10, <1>11 DEF Sound, Registers

\* A handler begins on an untouched folder.
LEMMA BeginIsSound ==
  ASSUME Sound, NEW op \in {"submit", "delete", "clear", "clear_names"}, NEW ids \in SUBSET Id,
         NEW blocks \in Seq(Block), NEW stems \in SUBSET Group, Begin(op, ids, blocks, stems),
         used \subseteq used', used' \subseteq Id,
         \A k \in DOMAIN blocks : BlockIsSound(blocks[k], used'),
         stems # {} => op = "clear_names",
         op = "clear_names" => blocks = << >>,
         \A g \in stems : g.id \in used
  PROVE  Sound'
<1>1. /\ AtRest /\ todo' = blocks /\ groups' = stems
      /\ job' = [op |-> op, ids |-> ids, drawn |-> {i \in Id : InSafety(i)}, already |-> Already]
      /\ outcome' = IF blocks = << >> /\ stems = {} THEN "ok" ELSE "running"
      /\ disk' = disk /\ newest' = newest /\ faults' = faults
  BY DEF Begin
<1>2. FolderIsSound'
  BY <1>1 DEF Sound, FolderIsSound, FolderOK, FilesAreSound, Listed, Images
<1>3. BlocksAreSound'
  BY <1>1 DEF BlocksAreSound
<1>4. job' \in Job /\ job'.op = op
  <2>1. Already \subseteq Id
    BY DEF Already
  <2>. QED
    BY <1>1, <2>1 DEF Job
<1>5. JobIsSound'
  BY <1>1, <1>4 DEF JobIsSound
<1>6. outcome' = "running" <=> ~AtRest'
  BY <1>1 DEF AtRest
<1>. QED
  BY <1>1, <1>2, <1>3, <1>4, <1>5, <1>6 DEF Sound, Registers

\* The parts of Sound that the proofs name.
LEMMA RunningMeans ==
  ASSUME Sound
  PROVE  /\ BlocksAreSound /\ FolderOK /\ FolderIsSound /\ JobIsSound
         /\ todo \in Seq(Block) /\ newest \in Seq(File)
  BY DEF Sound, BlocksAreSound, FolderIsSound, FolderOK

\* What prune removes after an upload: images that were there.
LEMMA StaleLists ==
  ASSUME Sound, NEW i \in Id
  PROVE  /\ Stale(StoredImage(i)) \in Seq(File)
         /\ Len(Stale(StoredImage(i))) =
                IF Len(newest) + 1 > Retention THEN Len(newest) + 1 - Retention ELSE 0
         /\ \A k \in DOMAIN Stale(StoredImage(i)) :
                /\ k - 1 + Retention \in DOMAIN newest
                /\ Stale(StoredImage(i))[k] = newest[k - 1 + Retention]
                /\ Stale(StoredImage(i))[k] \in Listed
<1>1. StoredImage(i) \in File
  BY DEF StoredImage, File, Stem, Kind
<1>2. newest \in Seq(File) /\ Retention \in Nat /\ Retention >= 1
  BY RunningMeans, StoreAssumption
<1>. DEFINE p == StoredImage(i)
            all == <<p>> \o newest
            st == SubSeq(all, Retention + 1, Len(newest) + 1)
<1>3. /\ all \in Seq(File) /\ Len(all) = Len(newest) + 1
      /\ \A n \in 1..Len(newest) : all[n + 1] = newest[n]
  <2>. HIDE DEF p
  <2>. QED
    BY <1>1, <1>2 DEF p
<1>4. Stale(StoredImage(i)) = st
  BY DEF Stale
<1>. HIDE DEF p, all
<1>5. /\ st \in Seq(File)
      /\ Len(st) = IF Len(newest) + 1 > Retention THEN Len(newest) + 1 - Retention ELSE 0
      /\ \A k \in 1..Len(st) : st[k] = all[k + Retention]
  BY <1>2, <1>3
<1>6. ASSUME NEW k \in DOMAIN st
      PROVE  /\ k - 1 + Retention \in DOMAIN newest
             /\ st[k] = newest[k - 1 + Retention]
             /\ st[k] \in Listed
  <2>1. k \in 1..Len(st) /\ Len(st) \in Nat
    BY <1>5
  <2>2. k - 1 + Retention \in 1..Len(newest) /\ (k - 1 + Retention) + 1 = k + Retention
    BY <2>1, <1>5, <1>2
  <2>3. st[k] = newest[k - 1 + Retention]
    BY <2>1, <2>2, <1>3, <1>5
  <2>4. k - 1 + Retention \in DOMAIN newest
    BY <2>2, <1>2
  <2>. QED
    BY <2>3, <2>4 DEF Listed, Range
<1>. QED
  BY <1>4, <1>5, <1>6

\* A block stays sound as planets are added.
LEMMA BlockKeeps ==
  ASSUME NEW known, NEW later, known \subseteq later, NEW b, BlockIsSound(b, known)
  PROVE  BlockIsSound(b, later)
  BY DEF BlockIsSound, OpIsSound

\* The blocks of an upload that write its files.
Saves(i) ==
    LET image == StoredImage(i) IN
    <<[ops |-> <<Write(image, "intact")>>, otherwise |-> "abort"],
      [ops |-> <<Write(Of(image, "json"), "named")>>, otherwise |-> "skip"],
      [ops |-> <<Write(Of(image, "drawing"), "intact")>>, otherwise |-> "abort"]>>

\* A block of one sound operation.
LEMMA OneOpBlock ==
  ASSUME NEW known, NEW op, OpIsSound(op, known), NEW otherwise \in {"skip", "abort"}
  PROVE  /\ [ops |-> <<op>>, otherwise |-> otherwise] \in Block
         /\ BlockIsSound([ops |-> <<op>>, otherwise |-> otherwise], known)
<1>1. op \in Op
  BY DEF OpIsSound
<1>. DEFINE b == [ops |-> <<op>>, otherwise |-> otherwise]
<1>2. b \in Block
  BY <1>1 DEF Block
<1>3. b.ops = <<op>>
  OBVIOUS
<1>. HIDE DEF b
<1>4. b.ops # << >> /\ b.ops[1] = op /\ \A n \in DOMAIN b.ops : b.ops[n] = op
  BY <1>3
<1>5. BlockIsSound(b, known)
  BY <1>4 DEF BlockIsSound
<1>. QED
  BY <1>2, <1>5 DEF b

\* The image of an upload has its child's name.
LEMMA StoredImageHas ==
  ASSUME NEW i \in Id
  PROVE  /\ StoredImage(i) \in File /\ StoredImage(i).id = i /\ StoredImage(i).kind = "png"
         /\ StoredImage(i).stem = "typed" => i \notin Plain
         /\ i \notin Plain => StoredImage(i).stem = "typed"
  BY DEF StoredImage, File, Stem, Kind

\* The three saves of an upload are sound.
LEMMA SavesAreSound ==
  ASSUME NEW known, NEW i \in Id, i \in known
  PROVE  /\ Saves(i) \in Seq(Block) /\ Len(Saves(i)) = 3 /\ DOMAIN Saves(i) = 1..3
         /\ \A k \in 1..3 : BlockIsSound(Saves(i)[k], known)
<1>. DEFINE image == StoredImage(i)
<1>1. /\ image \in File /\ image.id = i /\ image.kind = "png"
      /\ image.stem = "typed" => i \notin Plain
  BY StoredImageHas
<1>. HIDE DEF image
<1>2. \A k \in Kind : Of(image, k) \in File /\ Of(image, k).id = i /\ Of(image, k).kind = k
                       /\ Of(image, k).stem = image.stem
  BY <1>1, OpTypes
<1>. DEFINE w1 == Write(image, "intact")
            w2 == Write(Of(image, "json"), "named")
            w3 == Write(Of(image, "drawing"), "intact")
            b1 == [ops |-> <<w1>>, otherwise |-> "abort"]
            b2 == [ops |-> <<w2>>, otherwise |-> "skip"]
            b3 == [ops |-> <<w3>>, otherwise |-> "abort"]
<1>3. OpIsSound(w1, known)
  <2>1. w1 \in Op /\ w1.path = image /\ w1.content = "intact"
    BY <1>1, OpTypes DEF Content
  <2>. HIDE DEF w1
  <2>. QED
    BY <2>1, <1>1 DEF OpIsSound
<1>4. OpIsSound(w2, known)
  <2>1. Of(image, "json") \in File /\ Of(image, "json").id = i /\ Of(image, "json").kind = "json"
        /\ Of(image, "json").stem = image.stem
    BY <1>2 DEF Kind
  <2>2. w2 \in Op /\ w2.path = Of(image, "json") /\ w2.content = "named"
    BY <2>1, OpTypes DEF Content
  <2>. HIDE DEF w2
  <2>. QED
    BY <2>1, <2>2, <1>1 DEF OpIsSound
<1>5. OpIsSound(w3, known)
  <2>1. Of(image, "drawing") \in File /\ Of(image, "drawing").id = i /\ Of(image, "drawing").kind = "drawing"
        /\ Of(image, "drawing").stem = image.stem
    BY <1>2 DEF Kind
  <2>2. w3 \in Op /\ w3.path = Of(image, "drawing") /\ w3.content = "intact"
    BY <2>1, OpTypes DEF Content
  <2>. HIDE DEF w3
  <2>. QED
    BY <2>1, <2>2, <1>1 DEF OpIsSound
<1>. HIDE DEF w1, w2, w3
<1>6. /\ b1 \in Block /\ BlockIsSound(b1, known) /\ b2 \in Block /\ BlockIsSound(b2, known)
      /\ b3 \in Block /\ BlockIsSound(b3, known)
  BY <1>3, <1>4, <1>5, OneOpBlock
<1>7. Saves(i) = <<b1, b2, b3>>
  BY DEF Saves, w1, w2, w3, image
<1>. HIDE DEF b1, b2, b3
<1>8. /\ Saves(i) \in Seq(Block) /\ Len(Saves(i)) = 3 /\ DOMAIN Saves(i) = 1..3
      /\ Saves(i)[1] = b1 /\ Saves(i)[2] = b2 /\ Saves(i)[3] = b3
  BY <1>6, <1>7
<1>9. \A k \in 1..3 : k = 1 \/ k = 2 \/ k = 3
  OBVIOUS
<1>. QED
  BY <1>6, <1>8, <1>9

\* An upload plans three saves and the removal of what is over the retention.
LEMMA SubmitPlans ==
  ASSUME Sound, NEW i \in Id, Submit(i)
  PROVE  /\ i \notin used /\ used' = used \cup {i}
         /\ Begin("submit", {i}, Saves(i) \o Removals(Stale(StoredImage(i))), {})
  BY DEF Submit, Saves

\* Each handler begins with a sound plan.
LEMMA SubmitIsSound ==
  ASSUME Sound, NEW i \in Id, Submit(i)
  PROVE  Sound'
<1>. DEFINE st == Stale(StoredImage(i))
            blocks == Saves(i) \o Removals(st)
<1>1. /\ i \notin used /\ used' = used \cup {i} /\ Begin("submit", {i}, blocks, {})
  BY SubmitPlans
<1>2. /\ Saves(i) \in Seq(Block) /\ Len(Saves(i)) = 3
      /\ \A k \in 1..3 : BlockIsSound(Saves(i)[k], used')
  BY <1>1, SavesAreSound
<1>3. /\ Removals(st) \in Seq(Block)
      /\ \A k \in DOMAIN Removals(st) : BlockIsSound(Removals(st)[k], used')
  <2>1. st \in Seq(File) /\ \A k \in DOMAIN st : st[k] \in Listed
    BY StaleLists
  <2>2. \A p \in Listed : p.id \in used
    BY DEF Sound, FolderIsSound, FolderOK, Images
  <2>3. /\ Removals(st) \in Seq(Block) /\ Len(Removals(st)) = Len(st)
        /\ \A k \in DOMAIN st : BlockIsSound(Removals(st)[k], used)
    BY <2>1, <2>2, RemovalsList
  <2>4. DOMAIN Removals(st) = DOMAIN st
    BY <2>1, <2>3
  <2>. QED
    BY <2>3, <2>4, <1>1, BlockKeeps
<1>. HIDE DEF st
<1>4. blocks \in Seq(Block) /\ \A k \in DOMAIN blocks : BlockIsSound(blocks[k], used')
  <2>1. /\ blocks \in Seq(Block) /\ Len(blocks) = 3 + Len(Removals(st))
        /\ \A k \in 1..3 : blocks[k] = Saves(i)[k]
        /\ \A k \in 1..Len(Removals(st)) : blocks[3 + k] = Removals(st)[k]
    <3>1. Saves(i) \in Seq(Block) /\ Removals(st) \in Seq(Block)
      BY <1>2, <1>3
    <3>2. /\ blocks \in Seq(Block) /\ Len(blocks) = Len(Saves(i)) + Len(Removals(st))
          /\ \A k \in 1..Len(Saves(i)) : blocks[k] = Saves(i)[k]
          /\ \A k \in 1..Len(Removals(st)) : blocks[Len(Saves(i)) + k] = Removals(st)[k]
      BY ONLY <3>1, ConcatHas
    <3>. QED
      BY <1>2, <3>2
  <2>. HIDE DEF blocks
  <2>2. \A k \in DOMAIN blocks : k \in 1..3 \/ (k - 3 \in 1..Len(Removals(st)) /\ k = 3 + (k - 3))
    BY <2>1, <1>3
  <2>3. \A k \in 1..Len(Removals(st)) : BlockIsSound(Removals(st)[k], used')
    BY <1>3
  <2>. QED
    BY <2>1, <2>2, <2>3, <1>2
<1>. HIDE DEF blocks
<1>5. used' \subseteq Id /\ used \subseteq used'
  BY <1>1 DEF Sound, Registers
<1>6. {i} \in SUBSET Id /\ {} \in SUBSET Group
  OBVIOUS
<1>. QED
  BY <1>1, <1>4, <1>5, <1>6, BeginIsSound

\* A delete plans the removal of a listed image of its planet.
LEMMA DeletePlans ==
  ASSUME Sound, NEW i \in Id, Delete(i)
  PROVE  \E p \in Listed :
            /\ p.id = i /\ used' = used
            /\ Begin("delete", {i}, <<[ops |-> Removal(p), otherwise |-> "abort"]>>, {})
<1>. DEFINE T == {p \in Listed : p.id = i}
            mine == Only(newest, T)
            p == Head(mine)
<1>1. /\ mine # << >> /\ used' = used
      /\ Begin("delete", {i}, <<[ops |-> Removal(p), otherwise |-> "abort"]>>, {})
  BY DEF Delete
<1>2. newest \in Seq(File) /\ IsInjective(newest)
  BY DEF Sound, FolderIsSound, FolderOK
<1>3. mine \in Seq(File) /\ Range(mine) = Range(newest) \cap T
  <2>. HIDE DEF T
  <2>. QED
    BY <1>2, OnlyOfDistinct
<1>. HIDE DEF mine
<1>4. p \in Range(mine)
  BY <1>1, <1>3 DEF Range
<1>5. p \in Listed /\ p.id = i
  BY <1>3, <1>4
<1>. QED
  BY <1>1, <1>5

\* A delete begins with a sound plan.
LEMMA DeleteIsSound ==
  ASSUME Sound, NEW i \in Id, Delete(i)
  PROVE  Sound'
<1>1. PICK p \in Listed :
            /\ p.id = i /\ used' = used
            /\ Begin("delete", {i}, <<[ops |-> Removal(p), otherwise |-> "abort"]>>, {})
  BY DeletePlans
<1>2. p \in File /\ p.id \in used
  BY DEF Sound, FolderIsSound, FolderOK, Images
<1>. DEFINE b == [ops |-> Removal(p), otherwise |-> "abort"]
<1>3. b \in Block /\ BlockIsSound(b, used)
  BY <1>2, RemovalIsSound
<1>4. BlockIsSound(b, used')
  BY <1>1, <1>3, BlockKeeps
<1>. HIDE DEF b
<1>5. <<b>> \in Seq(Block) /\ \A k \in DOMAIN <<b>> : BlockIsSound(<<b>>[k], used')
  BY <1>3, <1>4
<1>6. Begin("delete", {i}, <<b>>, {})
  BY <1>1 DEF b
<1>7. used' \subseteq Id /\ used \subseteq used'
  BY <1>1 DEF Sound, Registers
<1>8. {i} \in SUBSET Id /\ {} \in SUBSET Group
  OBVIOUS
<1>. QED
  BY <1>5, <1>6, <1>7, <1>8, BeginIsSound

\* So does a clear.
LEMMA ClearIsSound ==
  ASSUME Sound, ClearPlanets
  PROVE  Sound'
<1>1. Begin("clear", {}, Removals(newest), {}) /\ used' = used
  BY DEF ClearPlanets
<1>2. newest \in Seq(File) /\ \A k \in DOMAIN newest : newest[k].id \in used
  <2>1. newest \in Seq(File)
    BY DEF Sound, FolderIsSound, FolderOK
  <2>2. \A k \in DOMAIN newest : newest[k] \in Images
    BY DEF Sound, FolderIsSound, FolderOK, Listed, Range
  <2>. QED
    BY <2>1, <2>2 DEF Sound, FolderIsSound, Images
<1>3. /\ Removals(newest) \in Seq(Block) /\ Len(Removals(newest)) = Len(newest)
      /\ \A k \in DOMAIN newest : BlockIsSound(Removals(newest)[k], used)
  BY <1>2, RemovalsList
<1>4. DOMAIN Removals(newest) = DOMAIN newest
  BY <1>2, <1>3
<1>. DEFINE blocks == Removals(newest)
<1>5. \A k \in DOMAIN blocks : BlockIsSound(blocks[k], used')
  BY <1>1, <1>3, <1>4, BlockKeeps
<1>6. blocks \in Seq(Block)
  BY <1>3
<1>. HIDE DEF blocks
<1>7. Begin("clear", {}, blocks, {})
  BY <1>1 DEF blocks
<1>8. used' \subseteq Id /\ used \subseteq used'
  BY <1>1 DEF Sound, Registers
<1>. QED
  BY <1>5, <1>6, <1>7, <1>8, BeginIsSound

\* The groups that clear_names finds in the folder.
GroupsFound ==
    {[id |-> p.id, stem |-> p.stem, paths |-> {q \in DOMAIN disk : q.id = p.id /\ q.stem = p.stem}] :
        p \in DOMAIN disk}

\* The groups that clear_names finds are the files by stem, each in one of them.
LEMMA GroupsFoundAre ==
  ASSUME Sound
  PROVE  /\ GroupsFound \subseteq Group
         /\ \A g \in GroupsFound :
              /\ g.id \in used
              /\ g.paths = {q \in DOMAIN disk : q.id = g.id /\ q.stem = g.stem}
              /\ \E p \in DOMAIN disk : g.id = p.id /\ g.stem = p.stem
         /\ \A p \in DOMAIN disk : \E g \in GroupsFound : g.id = p.id /\ g.stem = p.stem
<1>1. DOMAIN disk \subseteq File /\ \A p \in DOMAIN disk : p.id \in used
  BY DEF Sound, FolderIsSound, FolderOK
<1>. DEFINE G(p) == [id |-> p.id, stem |-> p.stem,
                     paths |-> {q \in DOMAIN disk : q.id = p.id /\ q.stem = p.stem}]
<1>2. \A p \in DOMAIN disk :
        /\ G(p) \in Group /\ G(p).id = p.id /\ G(p).stem = p.stem
        /\ G(p).paths = {q \in DOMAIN disk : q.id = p.id /\ q.stem = p.stem}
  BY <1>1 DEF Group, File
<1>3. GroupsFound = {G(p) : p \in DOMAIN disk}
  BY DEF GroupsFound
<1>. HIDE DEF G
<1>4. \A g \in GroupsFound : \E p \in DOMAIN disk : g = G(p)
  BY <1>3
<1>5. \A p \in DOMAIN disk : G(p) \in GroupsFound
  BY <1>3
<1>6. GroupsFound \subseteq Group
  BY <1>2, <1>4
<1>7. ASSUME NEW g \in GroupsFound
      PROVE  /\ g.id \in used
             /\ g.paths = {q \in DOMAIN disk : q.id = g.id /\ q.stem = g.stem}
             /\ \E p \in DOMAIN disk : g.id = p.id /\ g.stem = p.stem
  <2>1. PICK p \in DOMAIN disk : g = G(p)
    BY <1>4
  <2>. QED
    BY <2>1, <1>1, <1>2
<1>. QED
  BY <1>2, <1>5, <1>6, <1>7

\* clear_names begins with those groups and no plan.
LEMMA ClearNamesPlans ==
  ASSUME ClearNames
  PROVE  Begin("clear_names", {}, << >>, GroupsFound) /\ used' = used
  BY DEF ClearNames, GroupsFound

\* clear_names begins soundly.
LEMMA ClearNamesIsSound ==
  ASSUME Sound, ClearNames
  PROVE  Sound' /\ Lists'
<1>1. Begin("clear_names", {}, << >>, GroupsFound) /\ used' = used
  BY ClearNamesPlans
<1>. DEFINE stems == GroupsFound
<1>2. /\ stems \subseteq Group /\ \A g \in stems : g.id \in used
  BY GroupsFoundAre
<1>3. used' \subseteq Id /\ used \subseteq used'
  BY <1>1 DEF Sound, Registers
<1>4. Sound'
  <2>. HIDE DEF stems
  <2>1. Begin("clear_names", {}, << >>, stems)
    BY <1>1 DEF stems
  <2>. QED
    <3>1. << >> \in Seq(Block) /\ \A k \in DOMAIN << >> : BlockIsSound(<< >>[k], used')
      OBVIOUS
    <3>2. {} \in SUBSET Id /\ stems \in SUBSET Group
      BY <1>2
    <3>. QED
      BY <2>1, <3>1, <3>2, <1>2, <1>3, BeginIsSound
<1>5. disk' = disk /\ todo' = << >> /\ groups' = GroupsFound
  BY <1>1 DEF Begin
<1>6. Now' = << >>
  BY <1>5 DEF Now
<1>7. GroupOps'
  BY <1>6 DEF GroupOps
<1>8. GroupsAreLists'
  <2>1. ASSUME NEW g \in GroupsFound
        PROVE  /\ g.paths \subseteq DOMAIN disk /\ g.paths # {}
               /\ \A p \in g.paths : p.id = g.id /\ p.stem = g.stem
    BY GroupsFoundAre
  <2>2. ASSUME NEW g \in GroupsFound, NEW h \in GroupsFound, g.id = h.id, g.stem = h.stem
        PROVE  g = h
    <3>1. g \in Group /\ h \in Group /\ g.paths = h.paths
      BY <2>2, GroupsFoundAre
    <3>. QED
      BY <2>2, <3>1 DEF Group
  <2>. QED
    BY <2>1, <2>2, <1>5, <1>6 DEF GroupsAreLists
<1>. QED
  BY <1>4, <1>7, <1>8 DEF Lists

\* What _clear_group takes for the metadata of a group: what is there, or nothing when
\* the reading fails.
Reads(g, metadata) ==
    \/ metadata = MetadataOf(g) /\ job' = job /\ faults' = faults
    \/ metadata = "torn" /\ Unreadable(g)

\* A group is skipped, or planned as _clear_group does.
LEMMA ClearGroupPlans ==
  ASSUME Sound, Lists, NEW g \in groups, ClearGroup(g)
  PROVE  /\ g \in Group /\ g.id \in used /\ job.op = "clear_names" /\ todo = << >> /\ Now = << >>
         /\ \A p \in g.paths : p \in File /\ p \in DOMAIN disk /\ p.id = g.id /\ p.stem = g.stem
         /\ groups' = groups \ {g} /\ disk' = disk /\ newest' = newest /\ used' = used
         /\ job' \in Job /\ job'.op = job.op /\ job'.drawn \subseteq job.drawn
         /\ faults' \in 0..MaxFaults
         /\ outcome' = IF todo' = << >> /\ groups' = {} THEN "ok" ELSE outcome
         /\ \E metadata \in Content :
              /\ Reads(g, metadata)
              /\ \/ Skipped(g, metadata) /\ todo' = << >> /\ Now' = << >>
                 \/ /\ ~Skipped(g, metadata)
                    /\ todo' = <<[ops |-> Now', otherwise |-> "abort"]>>
                    /\ Planned(g, metadata, Now')
<1>1. g \in Group /\ g.id \in used /\ job.op = "clear_names"
  BY DEF Sound, Registers, JobIsSound
<1>2. GroupOps /\ GroupsAreLists
  BY <1>1 DEF Lists
<1>3. /\ todo = << >> /\ groups' = groups \ {g} /\ disk' = disk /\ newest' = newest
      /\ used' = used
      /\ outcome' = IF todo' = << >> /\ groups' = {} THEN "ok" ELSE outcome
  BY DEF ClearGroup
<1>4. Now = << >>
  BY <1>3 DEF Now
<1>5. FolderOK /\ IsFiniteSet(DOMAIN disk)
  BY DEF Sound, FolderIsSound
<1>6. g.paths \subseteq DOMAIN disk /\ \A p \in g.paths : p.id = g.id /\ p.stem = g.stem
  BY <1>2 DEF GroupsAreLists
<1>7. IsFiniteSet(g.paths)
  BY <1>5, <1>6, FS_Subset
<1>8. \A p \in g.paths : p \in File /\ p \in DOMAIN disk /\ p.id = g.id /\ p.stem = g.stem
  BY <1>1, <1>6 DEF Group
<1>9. MetadataOf(g) \in Content /\ "torn" \in Content
  BY <1>5, <1>6 DEF MetadataOf, FolderOK, Content
<1>10. PICK metadata \in Content : Reads(g, metadata) /\ PlanGroup(g, metadata)
  <2>1. CASE PlanGroup(g, MetadataOf(g)) /\ UNCHANGED <<job, faults>>
    BY <2>1, <1>9 DEF Reads
  <2>2. CASE PlanGroup(g, "torn") /\ Unreadable(g)
    BY <2>2, <1>9 DEF Reads
  <2>. QED
    BY <2>1, <2>2 DEF ClearGroup
<1>11. job' \in Job /\ job'.op = job.op /\ job'.drawn \subseteq job.drawn /\ faults' \in 0..MaxFaults
  <2>1. job \in Job /\ faults \in 0..MaxFaults
    BY DEF Sound, Registers
  <2>2. CASE job' = job /\ faults' = faults
    BY <2>1, <2>2
  <2>3. CASE Unreadable(g)
    <3>1. /\ job' = [job EXCEPT !.drawn = @ \ Exposed(g), !.already = @ \ {g.id}]
          /\ faults < MaxFaults /\ faults' = faults + 1
      BY <2>3 DEF Unreadable
    <3>2. /\ job'.op = job.op /\ job'.drawn = job.drawn \ Exposed(g)
          /\ job' \in Job
      BY <3>1, <2>1 DEF Job
    <3>. QED
      BY <3>1, <3>2, <2>1, StoreAssumption
  <2>. QED
    BY <2>2, <2>3, <1>10 DEF Reads
<1>12. CASE Skipped(g, metadata)
  <2>1. todo' = << >>
    BY <1>10, <1>12 DEF PlanGroup
  <2>2. Now' = << >>
    BY <2>1 DEF Now
  <2>. QED
    BY <2>1, <2>2, <1>1, <1>3, <1>4, <1>8, <1>10, <1>11, <1>12
<1>13. CASE ~Skipped(g, metadata)
  <2>1. PICK order \in SetToSeqs(g.paths) :
            todo' = <<[ops |-> ClearedGroup(g, metadata, order), otherwise |-> "abort"]>>
    BY <1>10, <1>13 DEF PlanGroup
  <2>. DEFINE ops == ClearedGroup(g, metadata, order)
  <2>2. Planned(g, metadata, ops)
    BY <1>1, <1>5, <1>6, <1>7, GroupIsPlanned
  <2>. HIDE DEF ops
  <2>3. todo' = <<[ops |-> ops, otherwise |-> "abort"]>>
    BY <2>1 DEF ops
  <2>4. todo' # << >> /\ Head(todo').ops = ops
    BY <2>3
  <2>5. Now' = ops
    BY <2>4 DEF Now
  <2>. QED
    BY <2>2, <2>3, <2>5, <1>1, <1>3, <1>4, <1>8, <1>10, <1>11, <1>13
<1>. QED
  BY <1>12, <1>13

\* What the operations of a group are like.
LEMMA PlannedAre ==
  ASSUME Sound, NEW g \in Group, g.id \in used, NEW metadata, NEW ops, Planned(g, metadata, ops),
         \A p \in g.paths : p \in File /\ p \in DOMAIN disk /\ p.id = g.id /\ p.stem = g.stem,
         NEW n \in DOMAIN ops
  PROVE  /\ OpIsSound(ops[n], used) /\ ops[n].path.id = g.id
         /\ ops[n].content = "gone" <=> ops[n].path.stem = "typed"
         /\ ops[n].content # "named"
         /\ ops[n].content # "gone" /\ ops[n].path.kind = "json" =>
                n = 1 /\ ops[n].content \in {"cleared", "bare"}
         /\ ops[n].content = "gone" => g.stem = "typed" /\ ops[n].path \in g.paths
         /\ ops[n].content # "gone" /\ ops[n].path.kind # "json" =>
                \E p \in g.paths : p.kind # "json" /\ ops[n].path = Renamed(p) /\ ops[n].content = disk[p]
<1>1. ops[n] \in Op
  BY DEF Planned
<1>2. CASE n = 1
  <2>1. ops[1] = Write(ClearedMetadata(g.id), Scrubbed(metadata))
    BY DEF Planned
  <2>2. /\ ops[1].path = ClearedMetadata(g.id) /\ ops[1].content = Scrubbed(metadata)
    BY <2>1 DEF Write
  <2>3. Scrubbed(metadata) \in {"cleared", "bare"}
    BY DEF Scrubbed
  <2>4. ClearedMetadata(g.id).id = g.id /\ ClearedMetadata(g.id).stem = "Planet"
        /\ ClearedMetadata(g.id).kind = "json"
    BY DEF ClearedMetadata
  <2>5. ops[1] \in Op
    BY <1>1, <1>2
  <2>6. OpIsSound(ops[1], used)
    BY <2>2, <2>3, <2>4, <2>5 DEF OpIsSound
  <2>. QED
    BY <1>2, <2>2, <2>3, <2>4, <2>6
<1>3. CASE \E p \in g.paths : p.kind # "json" /\ ops[n] = Write(Renamed(p), disk[p])
  <2>1. PICK p \in g.paths : p.kind # "json" /\ ops[n] = Write(Renamed(p), disk[p])
    BY <1>3
  <2>2. p \in File /\ p \in DOMAIN disk /\ p.id = g.id
    OBVIOUS
  <2>3. ops[n].path = Renamed(p) /\ ops[n].content = disk[p]
    BY <2>1 DEF Write
  <2>4. /\ Renamed(p).id = g.id /\ Renamed(p).stem = "Planet" /\ Renamed(p).kind = p.kind
    BY <2>2, OpTypes
  <2>5. disk[p] \in Content /\ disk[p] \notin {"named", "cleared", "bare"}
    BY <2>1, <2>2 DEF Sound, FolderIsSound, FilesAreSound, FolderOK
  <2>6. disk[p] # "gone"
    BY <2>5 DEF Content
  <2>7. OpIsSound(ops[n], used)
    BY <1>1, <2>3, <2>4, <2>5 DEF OpIsSound
  <2>. QED
    BY <2>1, <2>3, <2>4, <2>5, <2>6, <2>7
<1>4. CASE \E p \in g.paths : p.stem # "Planet" /\ ops[n] = Unlink(p)
  <2>1. PICK p \in g.paths : p.stem # "Planet" /\ ops[n] = Unlink(p)
    BY <1>4
  <2>2. p \in File /\ p.id = g.id /\ p.stem = g.stem
    OBVIOUS
  <2>3. p.stem = "typed"
    BY <2>1, <2>2 DEF File, Stem
  <2>4. ops[n].path = p /\ ops[n].content = "gone"
    BY <2>1 DEF Unlink
  <2>5. OpIsSound(ops[n], used)
    BY <1>1, <2>2, <2>4 DEF OpIsSound
  <2>. QED
    BY <2>2, <2>3, <2>4, <2>5
<1>. QED
  BY <1>2, <1>3, <1>4 DEF Planned

\* The plan of a group is sound.
LEMMA ClearGroupIsSound ==
  ASSUME Sound, Lists, NEW g \in groups, ClearGroup(g)
  PROVE  Sound' /\ Lists'
<1>1. /\ g \in Group /\ g.id \in used /\ job.op = "clear_names" /\ todo = << >> /\ Now = << >>
      /\ \A p \in g.paths : p \in File /\ p \in DOMAIN disk /\ p.id = g.id /\ p.stem = g.stem
      /\ groups' = groups \ {g} /\ disk' = disk /\ newest' = newest /\ used' = used
      /\ job' \in Job /\ job'.op = job.op /\ faults' \in 0..MaxFaults
      /\ outcome' = IF todo' = << >> /\ groups' = {} THEN "ok" ELSE outcome
  BY ClearGroupPlans
<1>2. PICK metadata \in Content :
        \/ todo' = << >> /\ Now' = << >>
        \/ /\ todo' = <<[ops |-> Now', otherwise |-> "abort"]>>
           /\ Planned(g, metadata, Now')
  BY ClearGroupPlans
<1>3. FolderIsSound'
  BY <1>1 DEF Sound, FolderIsSound, FolderOK, FilesAreSound, Listed, Images
<1>4. outcome = "running"
  BY <1>1 DEF Sound, Registers, AtRest
<1>5. (outcome' = "running" <=> ~AtRest') /\ outcome' \in {"running", "ok"}
  BY <1>1, <1>4 DEF AtRest
<1>6. Registers'
  BY <1>1, <1>5 DEF Sound, Registers
<1>7. GroupsAreLists
  BY <1>1 DEF Lists
<1>8. CASE todo' = << >> /\ Now' = << >>
  <2>1. BlocksAreSound' /\ JobIsSound'
    BY <1>1, <1>8 DEF Sound, BlocksAreSound, JobIsSound
  <2>2. GroupOps' /\ GroupsAreLists'
    BY <1>1, <1>7, <1>8 DEF GroupOps, GroupsAreLists
  <2>. QED
    BY <1>3, <1>6, <2>1, <2>2 DEF Sound, Lists
<1>9. CASE /\ todo' = <<[ops |-> Now', otherwise |-> "abort"]>>
           /\ Planned(g, metadata, Now')
  <2>. DEFINE ops == Now'
              b == [ops |-> ops, otherwise |-> "abort"]
  <2>1. todo' = <<b>> /\ Planned(g, metadata, ops)
    BY <1>9
  <2>. HIDE DEF ops
  <2>2. ASSUME NEW n \in DOMAIN ops
        PROVE  /\ OpIsSound(ops[n], used) /\ ops[n].path.id = g.id
               /\ ops[n].content = "gone" <=> ops[n].path.stem = "typed"
               /\ ops[n].content # "named"
               /\ ops[n].content # "gone" /\ ops[n].path.kind = "json" =>
                    n = 1 /\ ops[n].content \in {"cleared", "bare"}
               /\ ops[n].content = "gone" => g.stem = "typed" /\ ops[n].path \in g.paths
    BY <1>1, <2>1, PlannedAre
  <2>3. ops \in Seq(Op) /\ ops # << >>
    BY <2>1 DEF Planned
  <2>4. b \in Block /\ b.ops = ops /\ b.otherwise = "abort"
    BY <2>3 DEF Block
  <2>. HIDE DEF b
  <2>5. 1 \in DOMAIN ops
    BY <2>3
  <2>6. BlockIsSound(b, used)
    BY <2>2, <2>3, <2>4, <2>5 DEF BlockIsSound
  <2>7. BlocksAreSound' /\ JobIsSound'
    <3>1. todo' \in Seq(Block) /\ Len(todo') = 1 /\ \A k \in DOMAIN todo' : todo'[k] = b
      BY <2>1, <2>4
    <3>2. BlocksAreSound'
      BY <3>1, <2>6, <1>1 DEF BlocksAreSound
    <3>3. JobIsSound'
      BY <3>1, <2>4, <1>1 DEF Sound, JobIsSound
    <3>. QED
      BY <3>2, <3>3
  <2>8. GroupOps'
    <3>1. \A m, n \in DOMAIN ops :
            /\ ops[m].path = ops[n].path => m = n
            /\ ops[m].content = "gone" /\ ops[n].content # "gone" => n < m
      BY <2>1 DEF Planned
    <3>. QED
      BY <2>2, <3>1 DEF GroupOps, ops
  <2>9. GroupsAreLists'
    <3>1. ASSUME NEW h \in groups', NEW n \in DOMAIN ops, ops[n].content = "gone"
          PROVE  ops[n].path.id # h.id \/ h.stem # "typed"
      <4>1. h \in groups /\ h # g
        BY <1>1
      <4>2. ops[n].path.id = g.id /\ g.stem = "typed"
        BY <2>2, <3>1
      <4>. QED
        BY <4>1, <4>2, <1>7 DEF GroupsAreLists
    <3>. QED
      BY <3>1, <1>1, <1>7 DEF GroupsAreLists, ops
  <2>. QED
    BY <1>3, <1>6, <2>7, <2>8, <2>9 DEF Sound, Lists
<1>. QED
  BY <1>2, <1>8, <1>9

\* What a step leaves of a sound plan is sound.
LEMMA TailIsSound ==
  ASSUME BlocksAreSound, Advances
  PROVE  /\ todo' \in Seq(Block)
         /\ \A k \in DOMAIN todo' : BlockIsSound(todo'[k], used)
<1>1. todo' \in Seq(Block)
  BY DEF Advances
<1>2. ASSUME NEW k \in DOMAIN todo' PROVE BlockIsSound(todo'[k], used)
  <2>1. CASE \E l \in DOMAIN todo : todo'[k] = todo[l]
    BY <2>1 DEF BlocksAreSound
  <2>2. CASE k = 1 /\ Len(Now) # 1 /\ todo'[1].ops = Tail(Now)
    <3>1. todo # << >>
      BY DEF Advances
    <3>2. todo[1].ops = Now /\ Now \in Seq(Op) /\ Now # << >> /\ 1 \in DOMAIN todo
      BY <3>1, NowIsFirst
    <3>3. BlockIsSound(todo[1], used)
      BY <3>2 DEF BlocksAreSound
    <3>4. \A n \in DOMAIN Now : OpIsSound(Now[n], used) /\ Now[n].path.id = Now[1].path.id
      BY <3>2, <3>3 DEF BlockIsSound
    <3>5. /\ Tail(Now) \in Seq(Op) /\ Len(Tail(Now)) = Len(Now) - 1
          /\ \A n \in DOMAIN Tail(Now) : n + 1 \in DOMAIN Now /\ Tail(Now)[n] = Now[n + 1]
      BY ONLY <3>2, TailHas
    <3>6. Tail(Now) # << >> /\ 1 \in DOMAIN Tail(Now)
      <4>1. Len(Now) \in Nat /\ Len(Now) >= 1
        BY <3>2
      <4>2. Len(Tail(Now)) >= 1 /\ Len(Tail(Now)) \in Nat
        BY <4>1, <3>5, <2>2
      <4>3. DOMAIN Tail(Now) = 1..Len(Tail(Now))
        BY ONLY <3>5
      <4>4. 1 \in DOMAIN Tail(Now)
        BY ONLY <4>2, <4>3
      <4>5. Tail(Now) # << >>
        BY ONLY <3>5, <4>4, NotEmpty
      <4>. QED
        BY ONLY <4>4, <4>5
    <3>7. \A n \in DOMAIN Tail(Now) : OpIsSound(Tail(Now)[n], used)
                                     /\ Tail(Now)[n].path.id = Tail(Now)[1].path.id
      BY <3>4, <3>5, <3>6
    <3>. QED
      BY <2>2, <3>6, <3>7 DEF BlockIsSound
  <2>. QED
    BY <2>1, <2>2, BlocksLeft
<1>. QED
  BY <1>1, <1>2

\* A step keeps a sound state.
LEMMA StepIsSound ==
  ASSUME Sound, Lists, Step
  PROVE  Sound' /\ Lists'
<1>1. Advances /\ Touched(Now[1]) /\ Relisted(Now[1])
  BY StepAdvances
<1>2. /\ groups' = groups /\ job' = job /\ used' = used /\ faults' = faults
      /\ outcome' = IF todo' = << >> /\ groups = {} THEN "ok" ELSE outcome
      /\ todo # << >>
  BY DEF Step
<1>3. /\ OpIsSound(Now[1], used) /\ 1 \in DOMAIN Now /\ BlocksAreSound
      /\ todo[1] \in Block /\ 1 \in DOMAIN todo
  BY <1>2, NowIsFirst DEF Sound
<1>4. FolderIsSound'
  BY <1>1, <1>2, <1>3, TouchIsSound DEF Sound
<1>5. BlocksAreSound'
  BY <1>1, <1>2, <1>3, TailIsSound DEF BlocksAreSound
<1>6. outcome = "running"
  BY <1>2 DEF Sound, Registers, AtRest
<1>7. (outcome' = "running" <=> ~AtRest') /\ outcome' \in {"running", "ok"}
  BY <1>2, <1>6 DEF AtRest
<1>8. Registers'
  BY <1>2, <1>7 DEF Sound, Registers
<1>9. job.op = "clear_names" =>
        Len(todo') <= 1 /\ \A k \in DOMAIN todo' : todo'[k].otherwise = "abort"
  <2>. SUFFICES ASSUME job.op = "clear_names"
                PROVE  Len(todo') <= 1 /\ \A k \in DOMAIN todo' : todo'[k].otherwise = "abort"
    OBVIOUS
  <2>1. Len(todo) <= 1 /\ \A k \in DOMAIN todo : todo[k].otherwise = "abort"
    BY DEF Sound, JobIsSound
  <2>2. Len(todo') <= 1
    BY <2>1, <1>1, <1>3, NowLeft
  <2>3. \A k \in DOMAIN todo' : todo'[k].otherwise = "abort"
    BY <2>1, <1>1, <1>3, BlocksLeft
  <2>. QED
    BY <2>2, <2>3
<1>10. JobIsSound'
  BY <1>2, <1>9 DEF Sound, JobIsSound
<1>11. ASSUME job.op = "clear_names" PROVE GroupOps' /\ GroupsAreLists'
  <2>1. GroupOps /\ GroupsAreLists /\ Len(todo) <= 1
    BY <1>11 DEF Lists, Sound, JobIsSound
  <2>2. /\ Now \in Seq(Op) /\ Now' \in Seq(Op)
        /\ \A n \in DOMAIN Now' : n + 1 \in DOMAIN Now /\ Now'[n] = Now[n + 1]
    BY <2>1, <1>1, <1>3, NowLeft
  <2>3. \A n \in DOMAIN Now' : n \in Nat \ {0}
    BY <2>2
  <2>4. GroupOps'
    <3>1. ASSUME NEW n \in DOMAIN Now'
          PROVE  /\ Now'[n].content = "gone" <=> Now'[n].path.stem = "typed"
                 /\ Now'[n].content # "named"
                 /\ ~(Now'[n].content # "gone" /\ Now'[n].path.kind = "json")
      <4>1. n + 1 \in DOMAIN Now /\ Now'[n] = Now[n + 1] /\ n + 1 # 1
        BY <2>2, <2>3
      <4>. QED
        BY <4>1, <2>1 DEF GroupOps
    <3>2. ASSUME NEW m \in DOMAIN Now', NEW n \in DOMAIN Now'
          PROVE  /\ Now'[m].path = Now'[n].path => m = n
                 /\ Now'[m].content = "gone" /\ Now'[n].content # "gone" => n < m
      <4>1. /\ m + 1 \in DOMAIN Now /\ Now'[m] = Now[m + 1]
            /\ n + 1 \in DOMAIN Now /\ Now'[n] = Now[n + 1]
        BY <2>2
      <4>2. /\ Now[m + 1].path = Now[n + 1].path => m + 1 = n + 1
            /\ Now[m + 1].content = "gone" /\ Now[n + 1].content # "gone" => n + 1 < m + 1
        BY <4>1, <2>1 DEF GroupOps
      <4>3. m + 1 = n + 1 => m = n
        BY <2>3
      <4>4. n + 1 < m + 1 => n < m
        BY <2>3
      <4>. QED
        BY <4>1, <4>2, <4>3, <4>4
    <3>. QED
      BY <3>1, <3>2 DEF GroupOps
  <2>5. ASSUME NEW g \in groups PROVE g.paths \subseteq DOMAIN disk'
    <3>. SUFFICES ASSUME NEW p \in g.paths PROVE p \in DOMAIN disk'
      OBVIOUS
    <3>1. p \in DOMAIN disk /\ p.id = g.id /\ p.stem = g.stem /\ p \in File
      BY <2>1 DEF GroupsAreLists, Sound, FolderIsSound, FolderOK
    <3>2. CASE p # Now[1].path
      BY <3>1, <3>2, <1>1 DEF Touched
    <3>3. CASE p = Now[1].path /\ Now[1].content # "gone"
      BY <3>3, <1>1 DEF Touched
    <3>4. CASE p = Now[1].path /\ Now[1].content = "gone"
      <4>1. Now[1].path.stem = "typed"
        BY <3>4, <2>1, <1>3 DEF GroupOps
      <4>. QED
        BY <4>1, <3>1, <3>4, <2>1, <1>3 DEF GroupsAreLists
    <3>. QED
      BY <3>2, <3>3, <3>4
  <2>6. GroupsAreLists'
    <3>1. ASSUME NEW g \in groups, NEW n \in DOMAIN Now', Now'[n].content = "gone"
          PROVE  Now'[n].path.id # g.id \/ g.stem # "typed"
      <4>1. n + 1 \in DOMAIN Now /\ Now'[n] = Now[n + 1]
        BY <2>2
      <4>. QED
        BY <3>1, <4>1, <2>1 DEF GroupsAreLists
    <3>. QED
      BY <3>1, <2>1, <2>5, <1>2 DEF GroupsAreLists
  <2>. QED
    BY <2>4, <2>6
<1>. QED
  BY <1>2, <1>4, <1>5, <1>8, <1>10, <1>11 DEF Sound, Lists

\* An interrupted operation did nothing, or tore the file that it was to write.
LEMMA InterruptTouches ==
  ASSUME FolderOK, NEW op, OpIsSound(op, used), Interrupted(op)
  PROVE  \/ disk' = disk /\ newest' = newest
         \/ /\ op.content # "gone" /\ OpIsSound(Write(op.path, "torn"), used)
            /\ Touched(Write(op.path, "torn")) /\ Relisted(Write(op.path, "torn"))
<1>1. op \in Op /\ op.path \in File
  BY DEF OpIsSound, Op
<1>2. Write(op.path, "torn") \in Op /\ Write(op.path, "torn").path = op.path
      /\ Write(op.path, "torn").content = "torn"
  BY <1>1, OpTypes DEF Content
<1>3. op.content # "gone" => OpIsSound(Write(op.path, "torn"), used)
  BY <1>2 DEF OpIsSound
<1>. QED
  BY <1>2, <1>3, ApplyTouches, ApplyLists DEF Interrupted

\* An interrupted operation leaves a sound folder.
LEMMA CutIsSound ==
  ASSUME FolderIsSound, NEW op, OpIsSound(op, used), Interrupted(op), used' = used
  PROVE  FolderIsSound'
<1>1. CASE disk' = disk /\ newest' = newest
  BY <1>1 DEF FolderIsSound, FolderOK, FilesAreSound, Listed, Images
<1>2. CASE /\ OpIsSound(Write(op.path, "torn"), used)
           /\ Touched(Write(op.path, "torn")) /\ Relisted(Write(op.path, "torn"))
  BY <1>2, TouchIsSound
<1>. QED
  BY <1>1, <1>2, InterruptTouches DEF FolderIsSound

\* What a failure leaves of the plan.
LEMMA FailLeaves ==
  ASSUME Sound, Fail
  PROVE  /\ todo # << >> /\ OpIsSound(Now[1], used) /\ Interrupted(Now[1]) /\ 1 \in DOMAIN todo
         /\ job' = job /\ used' = used /\ faults' = faults + 1 /\ faults < MaxFaults
         /\ outcome = "running"
         /\ \/ /\ todo[1].otherwise = "skip" /\ todo' = Tail(todo) /\ groups' = groups
               /\ job.op # "clear_names" /\ groups = {}
               /\ outcome' = IF todo' = << >> THEN "ok" ELSE outcome
            \/ /\ todo[1].otherwise # "skip"
               /\ todo' = << >> /\ groups' = {} /\ outcome' = "failed"
<1>1. todo # << >> /\ job' = job /\ used' = used /\ faults' = faults + 1 /\ faults < MaxFaults
  BY DEF Fail
<1>2. /\ todo[1] \in Block /\ Head(todo) = todo[1] /\ 1 \in DOMAIN todo
      /\ OpIsSound(Now[1], used) /\ Head(Head(todo).ops) = Now[1]
  BY <1>1, NowIsFirst DEF Sound
<1>3. Interrupted(Now[1])
  BY <1>2 DEF Fail
<1>4. outcome = "running"
  BY <1>1 DEF Sound, Registers, AtRest
<1>5. CASE todo[1].otherwise = "skip"
  <2>1. job.op # "clear_names"
    BY <1>2, <1>5 DEF Sound, JobIsSound
  <2>2. groups = {}
    BY <2>1 DEF Sound, JobIsSound
  <2>3. todo' = Tail(todo) /\ groups' = groups /\ outcome' = IF todo' = << >> THEN "ok" ELSE outcome
    BY <1>2, <1>5 DEF Fail
  <2>. QED
    BY <1>1, <1>2, <1>3, <1>4, <1>5, <2>1, <2>2, <2>3
<1>6. CASE todo[1].otherwise # "skip"
  <2>1. todo' = << >> /\ groups' = {} /\ outcome' = "failed"
    BY <1>2, <1>6 DEF Fail
  <2>. QED
    BY <1>1, <1>2, <1>3, <1>4, <1>6, <2>1
<1>. QED
  BY <1>5, <1>6

\* One more fault is within the bound.
LEMMA FaultIsCounted ==
  ASSUME faults \in 0..MaxFaults, faults < MaxFaults
  PROVE  faults + 1 \in 0..MaxFaults
  BY StoreAssumption

\* A failed operation keeps a sound state.
LEMMA FailIsSound ==
  ASSUME Sound, Lists, Fail
  PROVE  Sound' /\ Lists'
<1>1. /\ todo # << >> /\ OpIsSound(Now[1], used) /\ Interrupted(Now[1]) /\ 1 \in DOMAIN todo
      /\ job' = job /\ used' = used /\ faults' = faults + 1 /\ faults < MaxFaults
      /\ outcome = "running"
  BY FailLeaves
<1>2. FolderIsSound'
  BY <1>1, CutIsSound DEF Sound
<1>3. faults' \in 0..MaxFaults
  BY <1>1, FaultIsCounted DEF Sound, Registers
<1>4. todo \in Seq(Block) /\ \A k \in DOMAIN todo : BlockIsSound(todo[k], used)
  BY DEF Sound, BlocksAreSound
<1>5. CASE /\ todo' = Tail(todo) /\ groups' = groups /\ groups = {} /\ job.op # "clear_names"
           /\ outcome' = IF todo' = << >> THEN "ok" ELSE outcome
  <2>1. BlocksAreSound'
    <3>1. /\ Tail(todo) \in Seq(Block)
          /\ \A k \in DOMAIN Tail(todo) : k + 1 \in DOMAIN todo /\ Tail(todo)[k] = todo[k + 1]
      BY <1>1, <1>4, TailHas
    <3>. QED
      BY <3>1, <1>1, <1>4, <1>5 DEF BlocksAreSound
  <2>2. JobIsSound' /\ Lists'
    BY <1>1, <1>5 DEF JobIsSound, Lists
  <2>3. (outcome' = "running" <=> ~AtRest') /\ outcome' \in {"running", "ok"}
    BY <1>1, <1>5 DEF AtRest
  <2>4. Registers'
    BY <2>3, <1>1, <1>3, <1>5 DEF Sound, Registers
  <2>. QED
    BY <1>2, <2>1, <2>2, <2>4 DEF Sound
<1>6. CASE todo' = << >> /\ groups' = {} /\ outcome' = "failed"
  <2>1. BlocksAreSound' /\ JobIsSound'
    BY <1>1, <1>6 DEF BlocksAreSound, JobIsSound
  <2>2. Now' = << >>
    BY <1>6 DEF Now
  <2>3. Lists'
    BY <1>6, <2>2 DEF Lists, GroupOps, GroupsAreLists
  <2>4. Registers'
    BY <1>1, <1>3, <1>6 DEF Sound, Registers, AtRest
  <2>. QED
    BY <1>2, <2>1, <2>3, <2>4 DEF Sound
<1>. QED
  BY <1>5, <1>6, FailLeaves

\* A crash leaves no plan, and the file of the operation under way done or torn.
LEMMA CrashLeaves ==
  ASSUME Sound, Crash
  PROVE  /\ todo' = << >> /\ groups' = {} /\ outcome' = "crashed" /\ outcome = "running"
         /\ job' = job /\ used' = used /\ faults' = faults + 1 /\ faults < MaxFaults
         /\ \/ disk' = disk /\ newest' = newest
            \/ todo # << >> /\ OpIsSound(Now[1], used) /\ Interrupted(Now[1])
<1>1. /\ todo' = << >> /\ groups' = {} /\ outcome' = "crashed" /\ ~AtRest
      /\ job' = job /\ used' = used /\ faults' = faults + 1 /\ faults < MaxFaults
  BY DEF Crash
<1>2. outcome = "running"
  BY <1>1 DEF Sound, Registers
<1>3. CASE todo = << >>
  BY <1>1, <1>2, <1>3 DEF Crash
<1>4. CASE todo # << >>
  <2>1. OpIsSound(Now[1], used) /\ Head(Head(todo).ops) = Now[1]
    BY <1>4, NowIsFirst DEF Sound
  <2>. QED
    BY <1>1, <1>2, <1>4, <2>1 DEF Crash
<1>. QED
  BY <1>3, <1>4

\* A crash keeps a sound state.
LEMMA CrashIsSound ==
  ASSUME Sound, Lists, Crash
  PROVE  Sound' /\ Lists'
<1>1. /\ todo' = << >> /\ groups' = {} /\ outcome' = "crashed"
      /\ job' = job /\ used' = used /\ faults' = faults + 1 /\ faults < MaxFaults
  BY CrashLeaves
<1>2. FolderIsSound'
  <2>1. CASE disk' = disk /\ newest' = newest
    BY <1>1, <2>1 DEF Sound, FolderIsSound, FolderOK, FilesAreSound, Listed, Images
  <2>2. CASE OpIsSound(Now[1], used) /\ Interrupted(Now[1])
    BY <1>1, <2>2, CutIsSound DEF Sound
  <2>. QED
    BY <2>1, <2>2, CrashLeaves
<1>3. faults' \in 0..MaxFaults
  BY <1>1, FaultIsCounted DEF Sound, Registers
<1>4. BlocksAreSound' /\ JobIsSound'
  BY <1>1 DEF BlocksAreSound, JobIsSound
<1>5. Now' = << >>
  BY <1>1 DEF Now
<1>6. Lists'
  BY <1>1, <1>5 DEF Lists, GroupOps, GroupsAreLists
<1>7. Registers'
  BY <1>1, <1>3 DEF Sound, Registers, AtRest
<1>. QED
  BY <1>2, <1>4, <1>6, <1>7 DEF Sound
------------------------------------------------------------------------------

\* A change of nothing, and a handler that is not clear_names.
LEMMA BeginMeans ==
  ASSUME NEW op, NEW ids, NEW blocks, NEW stems, Begin(op, ids, blocks, stems)
  PROVE  /\ AtRest /\ todo = << >> /\ groups = {}
         /\ todo' = blocks /\ groups' = stems
         /\ job' = [op |-> op, ids |-> ids, drawn |-> {i \in Id : InSafety(i)}, already |-> Already]
         /\ job'.op = op /\ job'.ids = ids /\ job'.drawn = {i \in Id : InSafety(i)}
         /\ outcome' = IF blocks = << >> /\ stems = {} THEN "ok" ELSE "running"
         /\ disk' = disk /\ newest' = newest /\ faults' = faults
  BY DEF Begin, AtRest

\* The handlers that do not clear names say so.
LEMMA OtherHandlers ==
  ASSUME Sound, \/ \E i \in Id : Submit(i) \/ Delete(i)
                \/ ClearPlanets
  PROVE  job'.op \in {"submit", "delete", "clear"}
<1>1. ASSUME NEW i \in Id, Submit(i) PROVE job'.op = "submit"
  BY <1>1, SubmitPlans, BeginMeans
<1>2. ASSUME NEW i \in Id, Delete(i) PROVE job'.op = "delete"
  BY <1>2, DeletePlans, BeginMeans
<1>3. ASSUME ClearPlanets PROVE job'.op = "clear"
  BY <1>3, BeginMeans DEF ClearPlanets
<1>. QED
  BY <1>1, <1>2, <1>3

\* Every step keeps a sound state.
LEMMA SoundSteps == Sound /\ Lists /\ [StoreNext]_storeVars => Sound' /\ Lists'
<1>. SUFFICES ASSUME Sound, Lists, [StoreNext]_storeVars PROVE Sound' /\ Lists'
  OBVIOUS
<1>1. ASSUME NEW i \in Id, Submit(i) PROVE Sound' /\ Lists'
  BY <1>1, SubmitIsSound, OtherHandlers DEF Lists
<1>2. ASSUME NEW i \in Id, Delete(i) PROVE Sound' /\ Lists'
  BY <1>2, DeleteIsSound, OtherHandlers DEF Lists
<1>3. CASE ClearPlanets
  BY <1>3, ClearIsSound, OtherHandlers DEF Lists
<1>4. CASE ClearNames
  BY <1>4, ClearNamesIsSound
<1>5. ASSUME NEW g \in groups, ClearGroup(g) PROVE Sound' /\ Lists'
  BY <1>5, ClearGroupIsSound
<1>6. CASE Step
  BY <1>6, StepIsSound
<1>7. CASE Fail
  BY <1>7, FailIsSound
<1>8. CASE Crash
  BY <1>8, CrashIsSound
<1>9. CASE UNCHANGED storeVars
  <2>1. UNCHANGED <<disk, newest, todo, groups, job, outcome, used, faults>>
    BY <1>9 DEF storeVars
  <2>2. FolderIsSound' /\ BlocksAreSound'
    BY <2>1 DEF Sound, FolderIsSound, FolderOK, FilesAreSound, Listed, Images, BlocksAreSound
  <2>3. JobIsSound' /\ Registers'
    BY <2>1 DEF Sound, JobIsSound, Registers, AtRest
  <2>4. Now' = Now
    BY <2>1 DEF Now
  <2>5. Lists'
    BY <2>1, <2>4 DEF Lists, GroupOps, GroupsAreLists
  <2>. QED
    BY <2>2, <2>3, <2>5 DEF Sound
<1>. QED
  BY <1>1, <1>2, <1>3, <1>4, <1>5, <1>6, <1>7, <1>8, <1>9 DEF StoreNext

\* The folder keeps its shape: every file is of a planet that was stored, the listing
\* holds each image once, and what the handlers plan can be carried out.
THEOREM FolderIsTyped == StoreSpec => []StoreTypeOK
<1>1. StoreInit => Sound /\ Lists
  BY SoundStarts
<1>2. Sound /\ Lists /\ [StoreNext]_storeVars => Sound' /\ Lists'
  BY SoundSteps
<1>3. Sound => StoreTypeOK
  BY SoundIsTyped
<1>. QED
  BY <1>1, <1>2, <1>3, PTL DEF StoreSpec

(* Names go.                                                                 *)

Goes(p) == \E n \in DOMAIN Now : Now[n] = Unlink(p)
Comes(p) == \E n \in DOMAIN Now : Now[n].path = p /\ Now[n].content # "gone"
Listing(p) == \E g \in groups : p \in g.paths

\* While clear_names runs, each name it has not cleared yet is in a group that is
\* left, or an operation that clears it is planned.
NamesGo ==
    \A p \in DOMAIN disk :
        /\ p.stem = "typed" => Listing(p) \/ Goes(p)
        /\ p.stem = "Planet" /\ disk[p] = "named" => Listing(p) \/ Comes(p)

Named == job.op = "clear_names" /\ outcome \in {"running", "ok"} => NamesGo

\* When clear_names begins every typed name is in a group.
LEMMA ClearNamesNames ==
  ASSUME Sound, ClearNames
  PROVE  NamesGo'
<1>1. disk' = disk /\ groups' = GroupsFound
  BY ClearNamesPlans, BeginMeans
<1>2. ASSUME NEW p \in DOMAIN disk PROVE Listing(p)'
  <2>1. PICK g \in GroupsFound : g.id = p.id /\ g.stem = p.stem
    BY GroupsFoundAre
  <2>2. p \in g.paths
    BY <2>1, GroupsFoundAre
  <2>. QED
    BY <1>1, <2>2 DEF Listing
<1>. QED
  BY <1>1, <1>2 DEF NamesGo

\* A group that is planned unlinks its typed names and clears its metadata.
LEMMA ClearGroupNames ==
  ASSUME Sound, Lists, NamesGo, NEW g \in groups, ClearGroup(g)
  PROVE  NamesGo'
<1>1. /\ Now = << >> /\ groups' = groups \ {g} /\ disk' = disk
      /\ \A p \in g.paths : p \in File /\ p \in DOMAIN disk /\ p.id = g.id /\ p.stem = g.stem
  BY ClearGroupPlans
<1>2. PICK metadata \in Content :
        /\ metadata \in {MetadataOf(g), "torn"}
        /\ Skipped(g, metadata) \/ Planned(g, metadata, Now')
  BY ClearGroupPlans DEF Reads
<1>3. ASSUME NEW p \in DOMAIN disk, Listing(p), p \notin g.paths PROVE Listing(p)'
  BY <1>3, <1>1 DEF Listing
<1>4. \A p : ~Goes(p) /\ ~Comes(p)
  BY <1>1 DEF Goes, Comes
<1>5. ASSUME NEW p \in g.paths, p.stem = "typed" PROVE Goes(p)'
  <2>1. ~Skipped(g, metadata)
    BY <1>1, <1>5 DEF Skipped
  <2>2. \E n \in DOMAIN Now' : Now'[n] = Unlink(p)
    BY <2>1, <1>2, <1>5 DEF Planned
  <2>. QED
    BY <2>2 DEF Goes
<1>6. ASSUME NEW p \in g.paths, p.stem = "Planet", disk[p] = "named" PROVE Comes(p)'
  <2>1. p \in File /\ p \in DOMAIN disk /\ p.id = g.id /\ p.stem = g.stem /\ p.kind = "json"
    BY <1>1, <1>6 DEF Sound, FolderIsSound, FilesAreSound
  <2>2. p = [id |-> g.id, stem |-> g.stem, kind |-> "json"]
    BY <2>1 DEF File
  <2>3. metadata \in {"named", "torn"}
    BY <2>2, <1>2, <1>6 DEF MetadataOf
  <2>4. Planned(g, metadata, Now')
    BY <1>2, <2>3 DEF Skipped
  <2>5. /\ Now' \in Seq(Op) /\ Now' # << >>
        /\ Now'[1] = Write(ClearedMetadata(g.id), Scrubbed(metadata))
    BY <2>4 DEF Planned
  <2>6. 1 \in DOMAIN Now'
    BY <2>5, NotEmpty
  <2>7. Now'[1].path = ClearedMetadata(g.id) /\ Now'[1].content # "gone"
    BY <2>5 DEF Write, Scrubbed
  <2>8. p = ClearedMetadata(g.id)
    BY <2>1, <2>2, <1>6 DEF ClearedMetadata
  <2>. QED
    BY <2>6, <2>7, <2>8 DEF Comes
<1>. QED
  BY <1>1, <1>3, <1>4, <1>5, <1>6 DEF NamesGo

\* A step of the plan loses no typed name from sight.
LEMMA StepNames ==
  ASSUME Sound, Lists, job.op = "clear_names", NamesGo, Step
  PROVE  NamesGo'
<1>1. Advances /\ Touched(Now[1])
  BY StepAdvances
<1>2. groups' = groups /\ BlocksAreSound /\ Len(todo) <= 1 /\ todo # << >>
  BY DEF Step, Sound, JobIsSound
<1>3. \A n \in DOMAIN Now : n # 1 => n - 1 \in DOMAIN Now' /\ Now'[n - 1] = Now[n]
  BY <1>1, <1>2, NowLeft
<1>4. GroupOps /\ 1 \in DOMAIN Now
  BY <1>2, NowIsFirst DEF Lists
<1>5. ASSUME NEW p \in DOMAIN disk', p # Now[1].path
      PROVE  /\ p \in DOMAIN disk /\ disk'[p] = disk[p]
             /\ Listing(p) => Listing(p)'
             /\ Goes(p) => Goes(p)'
             /\ Comes(p) => Comes(p)'
  <2>1. p \in File
    BY <1>1 DEF Touched
  <2>2. p \in DOMAIN disk /\ disk'[p] = disk[p]
    BY <2>1, <1>1, <1>5 DEF Touched
  <2>3. Listing(p) => Listing(p)'
    BY <1>2 DEF Listing
  <2>4. Goes(p) => Goes(p)'
    <3>. SUFFICES ASSUME NEW n \in DOMAIN Now, Now[n] = Unlink(p) PROVE Goes(p)'
      BY DEF Goes
    <3>1. n # 1
      BY <1>5 DEF Unlink
    <3>. QED
      BY <3>1, <1>3 DEF Goes
  <2>5. Comes(p) => Comes(p)'
    <3>. SUFFICES ASSUME NEW n \in DOMAIN Now, Now[n].path = p, Now[n].content # "gone" PROVE Comes(p)'
      BY DEF Comes
    <3>1. n # 1
      BY <1>5
    <3>. QED
      BY <3>1, <1>3 DEF Comes
  <2>. QED
    BY <2>2, <2>3, <2>4, <2>5
<1>6. ASSUME NEW p \in DOMAIN disk', p = Now[1].path
      PROVE  p.stem # "typed" /\ disk'[p] # "named"
  BY <1>6, <1>1, <1>4 DEF Touched, GroupOps
<1>. QED
  BY <1>5, <1>6 DEF NamesGo

\* As long as clear_names runs, every typed name that is left is going to go.
LEMMA NamedSteps == Sound /\ Lists /\ Named /\ [StoreNext]_storeVars => Named'
<1>. SUFFICES ASSUME Sound, Lists, Named, [StoreNext]_storeVars PROVE Named'
  OBVIOUS
<1>1. CASE (\E i \in Id : Submit(i) \/ Delete(i)) \/ ClearPlanets
  BY <1>1, OtherHandlers DEF Named
<1>2. CASE ClearNames
  BY <1>2, ClearNamesNames DEF Named
<1>3. ASSUME NEW g \in groups, ClearGroup(g) PROVE Named'
  <2>1. job.op = "clear_names"
    BY <1>3, ClearGroupPlans
  <2>2. outcome = "running"
    BY DEF Sound, Registers, AtRest
  <2>. QED
    BY <2>1, <2>2, <1>3, ClearGroupNames DEF Named
<1>4. CASE Step
  <2>1. job' = job /\ outcome = "running"
    BY <1>4 DEF Step, Sound, Registers, AtRest
  <2>. QED
    BY <2>1, <1>4, StepNames DEF Named
<1>5. CASE Fail
  <2>1. job' = job /\ (job.op = "clear_names" => outcome' = "failed")
    BY <1>5, FailLeaves
  <2>. QED
    BY <2>1 DEF Named
<1>6. CASE Crash
  BY <1>6, CrashLeaves DEF Named
<1>7. CASE UNCHANGED storeVars
  <2>1. UNCHANGED <<disk, todo, groups, job, outcome>>
    BY <1>7 DEF storeVars
  <2>2. Now' = Now
    BY <2>1 DEF Now
  <2>. QED
    BY <2>1, <2>2 DEF Named, NamesGo, Listing, Goes, Comes
<1>. QED
  BY <1>1, <1>2, <1>3, <1>4, <1>5, <1>6, <1>7 DEF StoreNext

\* Once clear_names has answered, no file carries a typed name, whatever an earlier
\* crash or failure left behind (_clear_group, filesystem_repository.py).
THEOREM NamesAreAlwaysGone == StoreSpec => []NamesAreGone
<1>1. StoreInit => Sound /\ Lists /\ Named
  BY SoundStarts DEF StoreInit, Named
<1>2. Sound /\ Lists /\ [StoreNext]_storeVars => Sound' /\ Lists'
  BY SoundSteps
<1>3. Sound /\ Lists /\ Named /\ [StoreNext]_storeVars => Named'
  BY NamedSteps
<1>4. Sound /\ Named => NamesAreGone
  <2>. SUFFICES ASSUME Sound, Named, job.op = "clear_names", outcome = "ok", NEW p \in DOMAIN disk
                PROVE  p.stem = "Planet" /\ disk[p] # "named"
    BY DEF NamesAreGone
  <2>1. todo = << >> /\ groups = {}
    BY DEF Sound, Registers, AtRest
  <2>2. Now = << >>
    BY <2>1 DEF Now
  <2>3. ~Listing(p) /\ ~Goes(p) /\ ~Comes(p)
    BY <2>1, <2>2 DEF Listing, Goes, Comes
  <2>4. p.stem \in Stem
    BY DEF Sound, FolderIsSound, FolderOK, File
  <2>. QED
    BY <2>3, <2>4 DEF Named, NamesGo, Stem
<1>. QED
  BY <1>1, <1>2, <1>3, <1>4, PTL DEF StoreSpec
------------------------------------------------------------------------------

(* Drawings stay.                                                            *)

\* An image under the neutral name that was not stored so has its metadata.
ImagesAreMarked ==
    \A i \in Id \ Plain : Neutral(i, "png") \in DOMAIN disk => Neutral(i, "json") \in DOMAIN disk

Spoilt(i) == Typed(i, "png") \in DOMAIN disk /\ disk[Typed(i, "png")] # "intact"

\* An image that was never written whole has no good copy.
CopiesAreTrue == \A i \in Id \ Plain : Spoilt(i) => ~IsDrawn(Neutral(i, "png"))

\* Only an upload writes besides clear_names, and under its planet's own name; and a
\* removal takes the image before it takes the metadata.
OthersOwn ==
    \A k \in DOMAIN todo : \A n \in DOMAIN todo[k].ops :
        /\ todo[k].ops[n].content # "gone" =>
            /\ job.op = "submit" /\ todo[k].ops[n].path.id \in job.ids
            /\ todo[k].ops[n].path.stem = StoredImage(todo[k].ops[n].path.id).stem
        /\ \A i \in Id \ Plain : todo[k].ops[n] = Unlink(Neutral(i, "json")) =>
            \/ Neutral(i, "png") \notin DOMAIN disk
            \/ \E m \in DOMAIN todo[k].ops : m < n /\ todo[k].ops[m] = Unlink(Neutral(i, "png"))

FreshIds ==
    job.op = "submit" /\ outcome = "running" =>
        \A p \in DOMAIN disk : p.id \in job.ids => p.stem = StoredImage(p.id).stem

GroupsAreMarked ==
    /\ \A i \in Id \ Plain :
        Comes(Neutral(i, "png")) => Neutral(i, "json") \in DOMAIN disk \/ Comes(Neutral(i, "json"))
    /\ \A g \in groups : \A i \in Id \ Plain :
        Neutral(i, "png") \in g.paths => Neutral(i, "json") \in g.paths
    /\ \A i \in Id \ Plain : Spoilt(i) =>
        \A n \in DOMAIN Now : Now[n] # Write(Neutral(i, "png"), "intact")

\* The metadata of the neutral name is cleared, or about to be.
Marked(i) ==
    \/ /\ Neutral(i, "json") \in DOMAIN disk
       /\ disk[Neutral(i, "json")] \in {"cleared", "bare"}
    \/ Comes(Neutral(i, "json"))

\* The group of the neutral name, if it is still to come, will leave the image alone.
Calm(i) ==
    \A g \in groups : Neutral(i, "png") \in g.paths =>
        Neutral(i, "json") \in g.paths /\ Marked(i)

\* A good image bears the typed name, and goes only once a good copy is there; or the
\* copy is good and nothing will write it again.
Kept(i) ==
    \/ /\ IsDrawn(Typed(i, "png"))
       /\ Goes(Typed(i, "png")) =>
            /\ IsDrawn(Neutral(i, "png")) \/ Comes(Neutral(i, "png"))
            /\ \A n \in DOMAIN Now : Now[n].path = Neutral(i, "png") => Now[n].content = "intact"
            /\ Calm(i)
    \/ /\ IsDrawn(Neutral(i, "png"))
       /\ ~Comes(Neutral(i, "png")) /\ Calm(i)

Pictures ==
    /\ ImagesAreMarked /\ CopiesAreTrue /\ FreshIds
    /\ job.op # "clear_names" => OthersOwn
    /\ job.op = "clear_names" => GroupsAreMarked

Keeping == job.op = "clear_names" /\ outcome \in {"running", "ok"} => \A i \in job.drawn : Kept(i)

\* A planet that is kept has a good image.
LEMMA DrawnIsHeld ==
  ASSUME NEW i \in Id, Kept(i)'
  PROVE  HasDrawing(i)'
<1>1. "png" \in Kind
  BY DEF Kind
<1>2. PICK p \in {Typed(i, "png"), Neutral(i, "png")} : IsDrawn(p)'
  BY DEF Kept
<1>3. p \in DOMAIN disk' /\ p.id = i /\ p.kind = "png"
  BY <1>1, <1>2, PathsOf DEF IsDrawn
<1>4. p \in Images'
  BY <1>3 DEF Images
<1>. QED
  BY <1>2, <1>3, <1>4 DEF HasDrawing

\* What an operation under way may do to the folder: it is done, or it is cut short.
CanTouch(op) ==
    /\ op \in Op /\ op.path = Now[1].path
    /\ op.content = Now[1].content \/ op.content = "torn"
    /\ op.content = "gone" <=> Now[1].content = "gone"

\* What an interruption may touch.
LEMMA CutTouches ==
  ASSUME Sound, todo # << >>, Interrupted(Now[1])
  PROVE  \/ disk' = disk
         \/ \E op : CanTouch(op) /\ op.content = "torn" /\ Touched(op)
<1>1. OpIsSound(Now[1], used) /\ FolderOK
  BY NowIsFirst DEF Sound, FolderIsSound
<1>. DEFINE op == Write(Now[1].path, "torn")
<1>2. CASE Now[1].content # "gone" /\ OpIsSound(op, used) /\ Touched(op)
  <2>1. op \in Op /\ op.path = Now[1].path /\ op.content = "torn"
    BY <1>2 DEF OpIsSound, Write
  <2>2. CanTouch(op)
    BY <1>2, <2>1 DEF CanTouch
  <2>. QED
    BY <1>2, <2>1, <2>2
<1>. QED
  BY <1>1, <1>2, InterruptTouches

\* A handler that clears no names keeps what is known of the images.
LEMMA OtherDisk ==
  ASSUME Sound, Pictures, job.op # "clear_names", todo # << >>, NEW op, CanTouch(op), Touched(op),
         job' = job
  PROVE  /\ ImagesAreMarked' /\ CopiesAreTrue' /\ FreshIds'
         /\ \A i \in Id \ Plain : Neutral(i, "png") \in DOMAIN disk' => Neutral(i, "png") \in DOMAIN disk
<1>1. /\ 1 \in DOMAIN todo /\ Now = todo[1].ops /\ 1 \in DOMAIN Now /\ Now[1] \in Op
  BY NowIsFirst DEF Sound
<1>2. /\ op \in Op /\ op.path \in File /\ op.path = Now[1].path
      /\ op.content = "gone" <=> Now[1].content = "gone"
  BY DEF CanTouch, Op
<1>3. op.content # "gone" =>
        /\ job.op = "submit" /\ op.path.id \in job.ids
        /\ op.path.stem = StoredImage(op.path.id).stem
  BY <1>1, <1>2 DEF Pictures, OthersOwn
<1>4. outcome = "running"
  BY DEF Sound, Registers, AtRest
<1>5. "png" \in Kind /\ "json" \in Kind
  BY DEF Kind
<1>6. ASSUME NEW p \in File, p \in DOMAIN disk', p # op.path
      PROVE  p \in DOMAIN disk /\ disk'[p] = disk[p]
  BY <1>6 DEF Touched
<1>7. ASSUME NEW i \in Id \ Plain, Neutral(i, "png") \in DOMAIN disk'
      PROVE  /\ Neutral(i, "png") # op.path /\ Neutral(i, "png") \in DOMAIN disk
             /\ disk'[Neutral(i, "png")] = disk[Neutral(i, "png")]
  <2>1. Neutral(i, "png") \in File /\ Neutral(i, "png").id = i /\ Neutral(i, "png").stem = "Planet"
    BY <1>5, PathsOf
  <2>2. StoredImage(i).stem = "typed"
    BY StoredImageHas
  <2>3. Neutral(i, "png") # op.path
    <3>. SUFFICES ASSUME Neutral(i, "png") = op.path PROVE FALSE
      OBVIOUS
    <3>1. op.content # "gone"
      BY <1>7 DEF Touched
    <3>. QED
      BY <3>1, <2>1, <2>2, <1>3
  <2>. QED
    BY <2>1, <2>3, <1>6, <1>7
<1>8. ImagesAreMarked'
  <2>. SUFFICES ASSUME NEW i \in Id \ Plain, Neutral(i, "png") \in DOMAIN disk'
                PROVE  Neutral(i, "json") \in DOMAIN disk'
    BY DEF ImagesAreMarked
  <2>1. Neutral(i, "png") \in DOMAIN disk /\ Neutral(i, "json") \in DOMAIN disk
    BY <1>7 DEF Pictures, ImagesAreMarked
  <2>2. Neutral(i, "json") \in File
    BY <1>5, PathsOf
  <2>3. CASE Neutral(i, "json") = op.path /\ op.content = "gone"
    <3>1. Now[1] = Unlink(Neutral(i, "json"))
      BY <1>1, <1>2, <2>3, OpIs
    <3>2. PICK m \in DOMAIN Now : m < 1
      BY <3>1, <2>1, <1>1 DEF Pictures, OthersOwn
    <3>3. m \in Nat \ {0}
      <4>1. Now \in Seq(Op)
        BY NowIsFirst DEF Sound
      <4>. QED
        BY <4>1
    <3>. QED
      BY <3>2, <3>3
  <2>4. CASE Neutral(i, "json") # op.path \/ op.content # "gone"
    BY <2>1, <2>2, <2>4 DEF Touched
  <2>. QED
    BY <2>3, <2>4
<1>9. FreshIds'
  <2>. SUFFICES ASSUME job.op = "submit", NEW p \in DOMAIN disk', p.id \in job.ids
                PROVE  p.stem = StoredImage(p.id).stem
    BY DEF FreshIds, StoredImage
  <2>1. p \in File
    BY DEF Touched
  <2>2. CASE p = op.path
    <3>1. op.content # "gone"
      BY <2>2 DEF Touched
    <3>. QED
      BY <3>1, <2>2, <1>3
  <2>3. CASE p # op.path
    BY <2>1, <2>3, <1>4, <1>6 DEF Pictures, FreshIds
  <2>. QED
    BY <2>2, <2>3
<1>10. CopiesAreTrue'
  <2>. SUFFICES ASSUME NEW i \in Id \ Plain, Typed(i, "png") \in DOMAIN disk',
                       disk'[Typed(i, "png")] # "intact",
                       Neutral(i, "png") \in DOMAIN disk', disk'[Neutral(i, "png")] = "intact"
                PROVE  FALSE
    BY DEF CopiesAreTrue, Spoilt, IsDrawn
  <2>1. Neutral(i, "png") \in DOMAIN disk /\ disk[Neutral(i, "png")] = "intact"
    BY <1>7
  <2>2. Typed(i, "png") \in File /\ Typed(i, "png").id = i
        /\ Neutral(i, "png").id = i /\ Neutral(i, "png").stem = "Planet"
    BY <1>5, PathsOf
  <2>3. CASE Typed(i, "png") # op.path
    <3>1. Spoilt(i)
      BY <2>2, <2>3, <1>6 DEF Spoilt
    <3>. QED
      BY <3>1, <2>1 DEF Pictures, CopiesAreTrue, IsDrawn
  <2>4. CASE Typed(i, "png") = op.path
    <3>1. op.content # "gone"
      BY <2>4 DEF Touched
    <3>2. job.op = "submit" /\ i \in job.ids
      BY <3>1, <2>2, <2>4, <1>3
    <3>3. Neutral(i, "png").stem = StoredImage(i).stem
      BY <3>2, <2>1, <2>2, <1>4 DEF Pictures, FreshIds
    <3>. QED
      BY <3>3, <2>2, StoredImageHas
  <2>. QED
    BY <2>3, <2>4
<1>. QED
  BY <1>7, <1>8, <1>9, <1>10

\* The blocks that are left, when their order is kept, still remove images first.
OtherBlock(ops) ==
    \A n \in DOMAIN ops :
        /\ ops[n].content # "gone" =>
            /\ job.op = "submit" /\ ops[n].path.id \in job.ids
            /\ ops[n].path.stem = StoredImage(ops[n].path.id).stem
        /\ \A i \in Id \ Plain : ops[n] = Unlink(Neutral(i, "json")) =>
            \/ Neutral(i, "png") \notin DOMAIN disk
            \/ \E m \in DOMAIN ops : m < n /\ ops[m] = Unlink(Neutral(i, "png"))

\* What is left of a block of such a handler.
LEMMA OtherBlockStays ==
  ASSUME job' = job, NEW ops, OtherBlock(ops),
         \A i \in Id \ Plain : Neutral(i, "png") \in DOMAIN disk' => Neutral(i, "png") \in DOMAIN disk
  PROVE  /\ \A n \in DOMAIN ops :
            /\ ops[n].content # "gone" =>
                /\ job'.op = "submit" /\ ops[n].path.id \in job'.ids
                /\ ops[n].path.stem = StoredImage(ops[n].path.id).stem
            /\ \A i \in Id \ Plain : ops[n] = Unlink(Neutral(i, "json")) =>
                \/ Neutral(i, "png") \notin DOMAIN disk'
                \/ \E m \in DOMAIN ops : m < n /\ ops[m] = Unlink(Neutral(i, "png"))
  BY DEF OtherBlock

\* Its plan stays one of its own as it advances.
LEMMA OthersTail ==
  ASSUME Sound, Pictures, job.op # "clear_names", Step
  PROVE  OthersOwn'
<1>1. Advances /\ Touched(Now[1]) /\ job' = job /\ todo # << >>
  BY StepAdvances DEF Step
<1>2. /\ BlocksAreSound /\ Now = todo[1].ops /\ Now \in Seq(Op) /\ Now # << >> /\ 1 \in DOMAIN todo
      /\ 1 \in DOMAIN Now /\ Now[1] \in Op
  BY <1>1, NowIsFirst DEF Sound
<1>3. CanTouch(Now[1])
  BY <1>2 DEF CanTouch
<1>4. \A i \in Id \ Plain : Neutral(i, "png") \in DOMAIN disk' => Neutral(i, "png") \in DOMAIN disk
  BY <1>1, <1>3, OtherDisk
<1>5. \A k \in DOMAIN todo : OtherBlock(todo[k].ops)
  BY DEF Pictures, OthersOwn, OtherBlock
<1>6. ASSUME NEW k \in DOMAIN todo', NEW n \in DOMAIN todo'[k].ops
      PROVE  /\ todo'[k].ops[n].content # "gone" =>
                /\ job'.op = "submit" /\ todo'[k].ops[n].path.id \in job'.ids
                /\ todo'[k].ops[n].path.stem = StoredImage(todo'[k].ops[n].path.id).stem
             /\ \A i \in Id \ Plain : todo'[k].ops[n] = Unlink(Neutral(i, "json")) =>
                \/ Neutral(i, "png") \notin DOMAIN disk'
                \/ \E m \in DOMAIN todo'[k].ops : m < n /\ todo'[k].ops[m] = Unlink(Neutral(i, "png"))
  <2>1. CASE \E l \in DOMAIN todo : todo'[k] = todo[l]
    <3>1. PICK l \in DOMAIN todo : todo'[k] = todo[l]
      BY <2>1
    <3>2. OtherBlock(todo'[k].ops)
      BY <3>1, <1>5
    <3>. QED
      BY <3>2, <1>1, <1>4, OtherBlockStays
  <2>2. CASE k = 1 /\ todo'[1].ops = Tail(Now)
    <3>. DEFINE ops == Tail(Now)
    <3>1. todo'[k].ops = ops
      BY <2>2
    <3>2. n \in DOMAIN ops
      BY <3>1
    <3>3. /\ \A m \in DOMAIN ops : m + 1 \in DOMAIN Now /\ ops[m] = Now[m + 1] /\ m \in Nat
          /\ \A m \in DOMAIN Now : m # 1 => m - 1 \in DOMAIN ops /\ ops[m - 1] = Now[m]
      <4>1. Now \in Seq(Op) /\ Now # << >>
        BY <1>2
      <4>2. /\ Tail(Now) \in Seq(Op)
            /\ \A m \in DOMAIN Tail(Now) : m + 1 \in DOMAIN Now /\ Tail(Now)[m] = Now[m + 1]
            /\ \A m \in DOMAIN Now : m # 1 => m - 1 \in DOMAIN Tail(Now) /\ Tail(Now)[m - 1] = Now[m]
        BY ONLY <4>1, TailHas
      <4>. HIDE DEF ops
      <4>3. ops \in Seq(Op)
        BY <4>2 DEF ops
      <4>. QED
        BY <4>2, <4>3 DEF ops
    <3>. HIDE DEF ops
    <3>4. OtherBlock(Now)
      BY <1>2, <1>5
    <3>5. n + 1 \in DOMAIN Now /\ ops[n] = Now[n + 1]
      BY <3>2, <3>3
    <3>6. ops[n].content # "gone" =>
                /\ job'.op = "submit" /\ ops[n].path.id \in job'.ids
                /\ ops[n].path.stem = StoredImage(ops[n].path.id).stem
      BY <3>4, <3>5, <1>1 DEF OtherBlock
    <3>7. ASSUME NEW i \in Id \ Plain, ops[n] = Unlink(Neutral(i, "json")),
                 Neutral(i, "png") \in DOMAIN disk'
          PROVE  \E m \in DOMAIN ops : m < n /\ ops[m] = Unlink(Neutral(i, "png"))
      <4>1. PICK m \in DOMAIN Now : m < n + 1 /\ Now[m] = Unlink(Neutral(i, "png"))
        BY <3>4, <3>5, <3>7, <1>4 DEF OtherBlock
      <4>2. m # 1
        BY <4>1, <3>7, <1>1 DEF Touched, Unlink
      <4>3. m - 1 \in DOMAIN ops /\ ops[m - 1] = Now[m]
        BY <4>2, <3>3
      <4>4. m - 1 < n
        <5>1. m - 1 \in Nat /\ n \in Nat /\ m \in Nat
          BY <4>3, <3>2, <3>3, <1>2
        <5>. QED
          BY <5>1, <4>1
      <4>. QED
        BY <4>1, <4>3, <4>4
    <3>. QED
      BY <3>1, <3>6, <3>7
  <2>. QED
    BY <2>1, <2>2, <1>1, <1>2, BlocksLeft
<1>. QED
  BY <1>6 DEF OthersOwn

\* An interruption of it keeps what is known of the images.
LEMMA OthersCut ==
  ASSUME Sound, Pictures, job.op # "clear_names", Fail \/ Crash
  PROVE  Pictures'
<1>1. job' = job /\ outcome = "running"
  BY FailLeaves, CrashLeaves
<1>2. \/ disk' = disk
      \/ todo # << >> /\ \E op : CanTouch(op) /\ Touched(op)
  <2>1. CASE Fail
    BY <2>1, FailLeaves, CutTouches
  <2>2. CASE Crash
    BY <2>2, CrashLeaves, CutTouches
  <2>. QED
    BY <2>1, <2>2
<1>3. /\ ImagesAreMarked' /\ CopiesAreTrue' /\ FreshIds'
      /\ \A i \in Id \ Plain : Neutral(i, "png") \in DOMAIN disk' => Neutral(i, "png") \in DOMAIN disk
  <2>1. CASE disk' = disk
    BY <2>1, <1>1 DEF Pictures, ImagesAreMarked, CopiesAreTrue, FreshIds, Spoilt, IsDrawn
  <2>2. CASE todo # << >> /\ \E op : CanTouch(op) /\ Touched(op)
    BY <2>2, <1>1, OtherDisk
  <2>. QED
    BY <2>1, <2>2, <1>2
<1>4. \A k \in DOMAIN todo : OtherBlock(todo[k].ops)
  BY DEF Pictures, OthersOwn, OtherBlock
<1>5. todo' = << >> \/ (todo # << >> /\ todo' = Tail(todo))
  BY FailLeaves, CrashLeaves
<1>6. ASSUME NEW k \in DOMAIN todo'
      PROVE  \E l \in DOMAIN todo : todo'[k] = todo[l]
  <2>1. todo # << >> /\ todo' = Tail(todo) /\ todo \in Seq(Block)
    BY <1>5, <1>6 DEF Sound, BlocksAreSound
  <2>2. k + 1 \in DOMAIN todo /\ todo'[k] = todo[k + 1]
    BY <2>1, TailHas
  <2>. QED
    BY <2>2
<1>7. OthersOwn'
  <2>1. ASSUME NEW k \in DOMAIN todo', NEW n \in DOMAIN todo'[k].ops
        PROVE  /\ todo'[k].ops[n].content # "gone" =>
                /\ job'.op = "submit" /\ todo'[k].ops[n].path.id \in job'.ids
                /\ todo'[k].ops[n].path.stem = StoredImage(todo'[k].ops[n].path.id).stem
             /\ \A i \in Id \ Plain : todo'[k].ops[n] = Unlink(Neutral(i, "json")) =>
                \/ Neutral(i, "png") \notin DOMAIN disk'
                \/ \E m \in DOMAIN todo'[k].ops : m < n /\ todo'[k].ops[m] = Unlink(Neutral(i, "png"))
    <3>1. PICK l \in DOMAIN todo : todo'[k] = todo[l]
      BY <1>6
    <3>2. OtherBlock(todo'[k].ops)
      BY <3>1, <1>4
    <3>. QED
      BY <3>2, <1>1, <1>3, OtherBlockStays
  <2>. QED
    BY <2>1 DEF OthersOwn
<1>. QED
  BY <1>1, <1>3, <1>7 DEF Pictures

\* So does a step of it.
LEMMA OthersStep ==
  ASSUME Sound, Pictures, job.op # "clear_names", Step
  PROVE  Pictures'
<1>1. Touched(Now[1]) /\ job' = job /\ todo # << >>
  BY StepAdvances DEF Step
<1>2. CanTouch(Now[1])
  BY <1>1, NowIsFirst DEF Sound, CanTouch
<1>3. ImagesAreMarked' /\ CopiesAreTrue' /\ FreshIds'
  BY <1>1, <1>2, OtherDisk
<1>. QED
  BY <1>1, <1>3, OthersTail DEF Pictures

\* Removals of an image before its metadata.
Removes(ops) ==
    \A n \in DOMAIN ops :
        /\ ops[n].content = "gone"
        /\ \A i \in Id \ Plain : ops[n] = Unlink(Neutral(i, "json")) =>
            \E m \in DOMAIN ops : m < n /\ ops[m] = Unlink(Neutral(i, "png"))

\* A removal unlinks the image before its metadata.
LEMMA RemovalRemoves ==
  ASSUME NEW p \in File, p.kind = "png"
  PROVE  Removes(Removal(p))
<1>. DEFINE r == Removal(p)
            json == Of(p, "json")
            drawing == Of(p, "drawing")
<1>1. json \in File /\ drawing \in File /\ json.kind = "json" /\ drawing.kind = "drawing"
      /\ json.id = p.id /\ json.stem = p.stem
  BY OpTypes DEF Kind
<1>2. r[1] = Unlink(p) /\ r[2] = Unlink(json) /\ r[3] = Unlink(drawing) /\ DOMAIN r = 1..3
  BY DEF Removal
<1>. HIDE DEF r, json, drawing
<1>3. \A q \in File : Unlink(q).content = "gone" /\ Unlink(q).path = q
  BY OpTypes
<1>4. \A n \in 1..3 : n = 1 \/ n = 2 \/ n = 3
  OBVIOUS
<1>5. \A n \in DOMAIN r : r[n].content = "gone"
  BY <1>1, <1>2, <1>3, <1>4
<1>6. ASSUME NEW n \in DOMAIN r, NEW i \in Id \ Plain, r[n] = Unlink(Neutral(i, "json"))
      PROVE  \E m \in DOMAIN r : m < n /\ r[m] = Unlink(Neutral(i, "png"))
  <2>1. "json" \in Kind /\ "png" \in Kind
    BY DEF Kind
  <2>2. Neutral(i, "json") \in File /\ Neutral(i, "json").kind = "json"
        /\ Neutral(i, "json").id = i /\ Neutral(i, "json").stem = "Planet"
    BY <2>1, PathsOf
  <2>3. r[n].path = Neutral(i, "json")
    BY <1>6, <2>2, <1>3
  <2>4. n = 2
    <3>1. r[1].path = p /\ r[2].path = json /\ r[3].path = drawing
      BY <1>1, <1>2, <1>3
    <3>2. r[1].path.kind = "png" /\ r[3].path.kind = "drawing"
      BY <3>1, <1>1
    <3>3. n # 1 /\ n # 3
      BY <3>2, <2>2, <2>3
    <3>. QED
      BY <3>3, <1>2, <1>4
  <2>5. json = Neutral(i, "json")
    BY <2>3, <2>4, <1>1, <1>2, <1>3
  <2>6. p.id = i /\ p.stem = "Planet"
    BY <2>5, <2>2, <1>1
  <2>7. p = Neutral(i, "png")
    BY <2>6, <2>1, PathsOf
  <2>8. 1 \in DOMAIN r /\ 1 < 2
    BY <1>2
  <2>. QED
    BY <2>4, <2>7, <2>8, <1>2
<1>. QED
  BY <1>5, <1>6 DEF Removes, r

\* So does each removal of a list.
LEMMA RemovalsRemove ==
  ASSUME NEW images \in Seq(File), \A k \in DOMAIN images : images[k].kind = "png",
         NEW k \in DOMAIN Removals(images)
  PROVE  Removes(Removals(images)[k].ops)
<1>1. DOMAIN Removals(images) = DOMAIN images
  BY DEF Removals
<1>2. Removals(images)[k].ops = Removal(images[k])
  BY <1>1 DEF Removals
<1>3. images[k] \in File /\ images[k].kind = "png"
  BY <1>1
<1>. QED
  BY <1>2, <1>3, RemovalRemoves

\* A handler other than clear_names begins.
LEMMA OthersBegin ==
  ASSUME Sound, Pictures, NEW op \in {"submit", "delete", "clear"}, NEW ids \in SUBSET Id, NEW blocks,
         Begin(op, ids, blocks, {}),
         \A k \in DOMAIN blocks :
            \/ Removes(blocks[k].ops)
            \/ /\ op = "submit"
               /\ \A n \in DOMAIN blocks[k].ops :
                    /\ blocks[k].ops[n].content # "gone"
                    /\ blocks[k].ops[n].path.id \in ids
                    /\ blocks[k].ops[n].path.stem = StoredImage(blocks[k].ops[n].path.id).stem,
         op = "submit" => \A p \in DOMAIN disk : p.id \notin ids
  PROVE  Pictures'
<1>1. todo' = blocks /\ job'.op = op /\ job'.ids = ids /\ disk' = disk
  BY BeginMeans
<1>2. ImagesAreMarked' /\ CopiesAreTrue' /\ FreshIds'
  BY <1>1 DEF Pictures, ImagesAreMarked, CopiesAreTrue, Spoilt, IsDrawn, FreshIds
<1>3. ASSUME NEW k \in DOMAIN blocks, NEW n \in DOMAIN blocks[k].ops
      PROVE  /\ blocks[k].ops[n].content # "gone" =>
                /\ op = "submit" /\ blocks[k].ops[n].path.id \in ids
                /\ blocks[k].ops[n].path.stem = StoredImage(blocks[k].ops[n].path.id).stem
             /\ \A i \in Id \ Plain : blocks[k].ops[n] = Unlink(Neutral(i, "json")) =>
                \/ Neutral(i, "png") \notin DOMAIN disk
                \/ \E m \in DOMAIN blocks[k].ops : m < n /\ blocks[k].ops[m] = Unlink(Neutral(i, "png"))
  <2>1. CASE Removes(blocks[k].ops)
    BY <2>1 DEF Removes
  <2>2. CASE ~Removes(blocks[k].ops)
    BY <2>2 DEF Unlink
  <2>. QED
    BY <2>1, <2>2
<1>4. OthersOwn'
  BY <1>1, <1>3 DEF OthersOwn
<1>. QED
  BY <1>1, <1>2, <1>4 DEF Pictures

\* A clear begins with removals only.
LEMMA ClearPictures ==
  ASSUME Sound, Pictures, ClearPlanets
  PROVE  Pictures'
<1>1. Begin("clear", {}, Removals(newest), {})
  BY DEF ClearPlanets
<1>2. newest \in Seq(File) /\ \A k \in DOMAIN newest : newest[k].kind = "png"
  <2>1. newest \in Seq(File) /\ Listed = Images
    BY DEF Sound, FolderIsSound, FolderOK
  <2>. QED
    BY <2>1 DEF Listed, Range, Images
<1>. DEFINE blocks == Removals(newest)
<1>3. \A k \in DOMAIN blocks : Removes(blocks[k].ops)
  BY <1>2, RemovalsRemove
<1>. HIDE DEF blocks
<1>5. Begin("clear", {}, blocks, {})
  BY <1>1 DEF blocks
<1>6. {} \in SUBSET Id
  OBVIOUS
<1>. QED
  BY <1>3, <1>5, <1>6, OthersBegin

\* So does a delete.
LEMMA DeletePictures ==
  ASSUME Sound, Pictures, NEW i \in Id, Delete(i)
  PROVE  Pictures'
<1>1. PICK p \in Listed : Begin("delete", {i}, <<[ops |-> Removal(p), otherwise |-> "abort"]>>, {})
  BY DeletePlans
<1>2. p \in File /\ p.kind = "png" /\ p.id \in {p.id}
  BY DEF Sound, FolderIsSound, FolderOK, Images
<1>. DEFINE blocks == <<[ops |-> Removal(p), otherwise |-> "abort"]>>
<1>3. \A k \in DOMAIN blocks : blocks[k].ops = Removal(p)
  OBVIOUS
<1>4. Removes(Removal(p))
  BY <1>2, RemovalRemoves
<1>. HIDE DEF blocks
<1>7. Begin("delete", {i}, blocks, {})
  BY <1>1 DEF blocks
<1>8. {i} \in SUBSET Id
  OBVIOUS
<1>. QED
  BY <1>3, <1>4, <1>7, <1>8, OthersBegin

\* The files an upload writes.
LEMMA SavesWrite ==
  ASSUME NEW i \in Id
  PROVE  /\ Saves(i) \in Seq(Block) /\ Len(Saves(i)) = 3
         /\ \A k \in 1..3 :
            /\ Len(Saves(i)[k].ops) = 1 /\ Saves(i)[k].ops \in Seq(Op)
            /\ Saves(i)[k].ops[1].content # "gone"
            /\ Saves(i)[k].ops[1].path.id = i
            /\ Saves(i)[k].ops[1].path.stem = StoredImage(i).stem
         /\ Saves(i)[1].ops[1] = Write(StoredImage(i), "intact")
         /\ Saves(i)[2].ops[1] = Write(Of(StoredImage(i), "json"), "named")
         /\ Saves(i)[3].ops[1] = Write(Of(StoredImage(i), "drawing"), "intact")
         /\ Saves(i)[1].otherwise = "abort" /\ Saves(i)[2].otherwise = "skip"
         /\ Saves(i)[3].otherwise = "abort"
<1>1. Saves(i) \in Seq(Block) /\ Len(Saves(i)) = 3
  <2>1. i \in {i}
    OBVIOUS
  <2>. QED
    BY <2>1, SavesAreSound
<1>. DEFINE image == StoredImage(i)
            json == Of(image, "json")
            drawing == Of(image, "drawing")
            w1 == Write(image, "intact")
            w2 == Write(json, "named")
            w3 == Write(drawing, "intact")
<1>2. image \in File /\ image.id = i
  BY StoredImageHas
<1>3. json \in File /\ drawing \in File /\ json.id = i /\ drawing.id = i
      /\ json.stem = image.stem /\ drawing.stem = image.stem
  <2>. HIDE DEF image
  <2>. QED
    BY <1>2, OpTypes DEF Kind
<1>4. Saves(i) = <<[ops |-> <<w1>>, otherwise |-> "abort"], [ops |-> <<w2>>, otherwise |-> "skip"],
                   [ops |-> <<w3>>, otherwise |-> "abort"]>>
  BY DEF Saves
<1>. HIDE DEF image, json, drawing
<1>5. /\ w1 \in Op /\ w1.path = image /\ w1.content # "gone"
      /\ w2 \in Op /\ w2.path = json /\ w2.content # "gone"
      /\ w3 \in Op /\ w3.path = drawing /\ w3.content # "gone"
  BY <1>2, <1>3 DEF Write, Op, Content
<1>. HIDE DEF w1, w2, w3
<1>6. /\ Saves(i)[1].ops = <<w1>> /\ Saves(i)[2].ops = <<w2>> /\ Saves(i)[3].ops = <<w3>>
      /\ Saves(i)[1].otherwise = "abort" /\ Saves(i)[2].otherwise = "skip"
      /\ Saves(i)[3].otherwise = "abort"
  BY <1>4
<1>7. \A k \in 1..3 : k = 1 \/ k = 2 \/ k = 3
  OBVIOUS
<1>8. \A k \in 1..3 :
            /\ Len(Saves(i)[k].ops) = 1 /\ Saves(i)[k].ops \in Seq(Op)
            /\ Saves(i)[k].ops[1].content # "gone"
            /\ Saves(i)[k].ops[1].path.id = i
            /\ Saves(i)[k].ops[1].path.stem = image.stem
  <2>. TAKE k \in 1..3
  <2>1. PICK w \in {w1, w2, w3} : Saves(i)[k].ops = <<w>>
    BY <1>6, <1>7
  <2>2. w \in Op /\ w.content # "gone" /\ w.path.id = i /\ w.path.stem = image.stem
    BY <1>2, <1>3, <1>5
  <2>3. Len(<<w>>) = 1 /\ <<w>> \in Seq(Op) /\ <<w>>[1] = w
    BY <2>2
  <2>. QED
    BY <2>1, <2>2, <2>3
<1>9. Saves(i)[1].ops[1] = w1 /\ Saves(i)[2].ops[1] = w2 /\ Saves(i)[3].ops[1] = w3
  BY <1>6
<1>. QED
  BY <1>1, <1>6, <1>8, <1>9 DEF image, json, drawing, w1, w2, w3

\* The plan of an upload: its three files, then the removals of what is too old.
LEMMA SubmitBlocks ==
  ASSUME Sound, NEW i \in Id, Submit(i)
  PROVE  /\ todo' \in Seq(Block) /\ Len(todo') = 3 + Len(Stale(StoredImage(i)))
         /\ \A k \in 1..3 : todo'[k] = Saves(i)[k]
         /\ \A k \in DOMAIN todo' : k \notin 1..3 =>
                /\ k - 3 \in DOMAIN Stale(StoredImage(i))
                /\ todo'[k] = [ops |-> Removal(Stale(StoredImage(i))[k - 3]), otherwise |-> "skip"]
         /\ i \notin used /\ used' = used \cup {i}
         /\ Begin("submit", {i}, todo', {})
<1>. DEFINE st == Stale(StoredImage(i))
<1>1. /\ i \notin used /\ used' = used \cup {i}
      /\ Begin("submit", {i}, Saves(i) \o Removals(st), {})
  BY SubmitPlans
<1>2. st \in Seq(File)
  BY StaleLists
<1>. HIDE DEF st
<1>3. Saves(i) \in Seq(Block) /\ Len(Saves(i)) = 3
  BY SavesWrite
<1>4. /\ Removals(st) \in Seq(Block) /\ Len(Removals(st)) = Len(st)
      /\ \A k \in DOMAIN st : Removals(st)[k] = [ops |-> Removal(st[k]), otherwise |-> "skip"]
  <2>. DEFINE known == {st[k].id : k \in DOMAIN st}
  <2>1. \A k \in DOMAIN st : st[k].id \in known
    OBVIOUS
  <2>. HIDE DEF known
  <2>. QED
    BY <1>2, <2>1, RemovalsList
<1>5. todo' = Saves(i) \o Removals(st)
  BY <1>1, BeginMeans
<1>. DEFINE r == Removals(st)
<1>6. /\ todo' \in Seq(Block) /\ Len(todo') = Len(Saves(i)) + Len(r)
      /\ \A k \in 1..Len(Saves(i)) : todo'[k] = Saves(i)[k]
      /\ \A k \in 1..Len(r) : todo'[Len(Saves(i)) + k] = r[k]
  <2>1. Saves(i) \in Seq(Block) /\ r \in Seq(Block) /\ todo' = Saves(i) \o r
    BY <1>3, <1>4, <1>5
  <2>. HIDE DEF r
  <2>. QED
    BY ONLY <2>1, ConcatHas
<1>. HIDE DEF r
<1>7. Len(r) = Len(st) /\ Len(st) \in Nat /\ DOMAIN st = 1..Len(st)
  BY <1>2, <1>4 DEF r
<1>8. \A k \in DOMAIN todo' : k \notin 1..3 => k - 3 \in 1..Len(st) /\ 3 + (k - 3) = k
  BY <1>3, <1>6, <1>7
<1>9. ASSUME NEW k \in DOMAIN todo', k \notin 1..3
      PROVE  /\ k - 3 \in DOMAIN st
             /\ todo'[k] = [ops |-> Removal(st[k - 3]), otherwise |-> "skip"]
  <2>1. k - 3 \in 1..Len(st) /\ 3 + (k - 3) = k
    BY <1>8, <1>9
  <2>2. todo'[k] = r[k - 3]
    BY <2>1, <1>3, <1>6, <1>7
  <2>. QED
    BY <2>1, <2>2, <1>4, <1>7 DEF r
<1>. QED
  BY <1>1, <1>3, <1>5, <1>6, <1>7, <1>9 DEF st

\* An upload begins with files of a new planet and removals.
LEMMA SubmitPictures ==
  ASSUME Sound, Pictures, NEW i \in Id, Submit(i)
  PROVE  Pictures'
<1>. DEFINE blocks == todo'
            st == Stale(StoredImage(i))
<1>1. /\ blocks \in Seq(Block)
      /\ \A k \in 1..3 : blocks[k] = Saves(i)[k]
      /\ \A k \in DOMAIN blocks : k \notin 1..3 =>
                k - 3 \in DOMAIN st /\ blocks[k] = [ops |-> Removal(st[k - 3]), otherwise |-> "skip"]
      /\ i \notin used /\ Begin("submit", {i}, blocks, {})
  BY SubmitBlocks
<1>2. st \in Seq(File) /\ \A k \in DOMAIN st : st[k] \in File /\ st[k].kind = "png"
  <2>1. st \in Seq(File) /\ \A k \in DOMAIN st : st[k] \in Listed
    BY StaleLists
  <2>. QED
    BY <2>1 DEF Sound, FolderIsSound, FolderOK, Images
<1>. HIDE DEF blocks, st
<1>3. ASSUME NEW k \in DOMAIN blocks, k \in 1..3, NEW n \in DOMAIN blocks[k].ops
      PROVE  /\ blocks[k].ops[n].content # "gone"
             /\ blocks[k].ops[n].path.id \in {i}
             /\ blocks[k].ops[n].path.stem = StoredImage(blocks[k].ops[n].path.id).stem
  <2>1. blocks[k] = Saves(i)[k]
    BY <1>1, <1>3
  <2>2. /\ Len(blocks[k].ops) = 1 /\ blocks[k].ops \in Seq(Op)
        /\ blocks[k].ops[1].content # "gone"
        /\ blocks[k].ops[1].path.id = i /\ blocks[k].ops[1].path.stem = StoredImage(i).stem
    BY <1>3, <2>1, SavesWrite
  <2>3. n = 1
    BY <2>2
  <2>. QED
    BY <2>2, <2>3
<1>4. ASSUME NEW k \in DOMAIN blocks, k \notin 1..3
      PROVE  Removes(blocks[k].ops)
  <2>1. k - 3 \in DOMAIN st /\ blocks[k] = [ops |-> Removal(st[k - 3]), otherwise |-> "skip"]
    BY <1>1, <1>4
  <2>. DEFINE p == st[k - 3]
  <2>2. p \in File /\ p.kind = "png" /\ p.id \in {p.id}
    BY <2>1, <1>2
  <2>. HIDE DEF p
  <2>3. blocks[k].ops = Removal(p)
    BY <2>1 DEF p
  <2>. QED
    BY <2>2, <2>3, RemovalRemoves
<1>5. \A p \in DOMAIN disk : p.id \notin {i}
  BY <1>1 DEF Sound, FolderIsSound
<1>6. {i} \in SUBSET Id
  OBVIOUS
<1>. QED
  BY <1>1, <1>3, <1>4, <1>5, <1>6, OthersBegin

\* When clear_names begins every image in safety is kept.
LEMMA ClearNamesPictures ==
  ASSUME Sound, Pictures, ClearNames
  PROVE  Pictures' /\ Keeping'
<1>1. /\ disk' = disk /\ groups' = GroupsFound /\ todo' = << >> /\ job'.op = "clear_names"
      /\ job'.drawn = {i \in Id : InSafety(i)}
  BY ClearNamesPlans, BeginMeans
<1>2. Now' = << >>
  BY <1>1 DEF Now
<1>3. /\ \A g \in GroupsFound : g.paths = {q \in DOMAIN disk : q.id = g.id /\ q.stem = g.stem}
      /\ \A p \in DOMAIN disk : \E g \in GroupsFound : g.id = p.id /\ g.stem = p.stem
  BY GroupsFoundAre
<1>4. "png" \in Kind /\ "json" \in Kind
  BY DEF Kind
<1>5. ASSUME NEW i \in Id, NEW g \in GroupsFound, Neutral(i, "png") \in g.paths,
             Neutral(i, "json") \in DOMAIN disk
      PROVE  Neutral(i, "json") \in g.paths
  BY <1>3, <1>4, <1>5, PathsOf
<1>6. GroupsAreMarked'
  <2>1. ASSUME NEW g \in GroupsFound, NEW i \in Id \ Plain, Neutral(i, "png") \in g.paths
        PROVE  Neutral(i, "json") \in g.paths
    <3>1. Neutral(i, "png") \in DOMAIN disk
      BY <2>1, <1>3
    <3>. QED
      BY <2>1, <3>1, <1>5 DEF Pictures, ImagesAreMarked
  <2>. QED
    BY <2>1, <1>1, <1>2 DEF GroupsAreMarked, Comes
<1>7. Pictures'
  BY <1>1, <1>6 DEF Pictures, ImagesAreMarked, CopiesAreTrue, Spoilt, IsDrawn, FreshIds
<1>8. ASSUME NEW i \in Id, InSafety(i) PROVE Kept(i)'
  <2>1. PICK p \in Images :
        /\ p.id = i /\ IsDrawn(p)
        /\ p.stem = "Planet" => /\ ClearedMetadata(i) \in DOMAIN disk
                                /\ disk[ClearedMetadata(i)] \in {"cleared", "bare"}
    BY <1>8 DEF InSafety
  <2>2. p \in File /\ p.kind = "png" /\ (p.stem = "typed" \/ p.stem = "Planet")
    BY DEF Images, Sound, FolderIsSound, FolderOK, File, Stem
  <2>3. \A q : ~Goes(q)' /\ ~Comes(q)'
    BY <1>2 DEF Goes, Comes
  <2>4. CASE p.stem = "typed"
    <3>1. p = Typed(i, "png")
      BY <2>1, <2>2, <2>4, <1>4, PathsOf
    <3>2. IsDrawn(Typed(i, "png"))'
      BY <3>1, <2>1, <1>1 DEF IsDrawn
    <3>. QED
      BY <3>2, <2>3 DEF Kept
  <2>5. CASE p.stem = "Planet"
    <3>1. p = Neutral(i, "png") /\ ClearedMetadata(i) = Neutral(i, "json")
      BY <2>1, <2>2, <2>5, <1>4, PathsOf
    <3>2. IsDrawn(Neutral(i, "png"))'
      BY <3>1, <2>1, <1>1 DEF IsDrawn
    <3>3. Neutral(i, "json") \in DOMAIN disk /\ disk[Neutral(i, "json")] \in {"cleared", "bare"}
      BY <3>1, <2>1, <2>5
    <3>4. Marked(i)'
      BY <3>3, <1>1 DEF Marked
    <3>5. Calm(i)'
      BY <3>3, <3>4, <1>1, <1>5 DEF Calm
    <3>. QED
      BY <3>2, <3>5, <2>3 DEF Kept
  <2>. QED
    BY <2>2, <2>4, <2>5
<1>9. Keeping'
  BY <1>1, <1>8 DEF Keeping
<1>. QED
  BY <1>7, <1>9

\* What the operations of a group are, in terms of its two images.
LEMMA GroupWrites ==
  ASSUME Sound, Lists, NEW g \in groups, ClearGroup(g), NEW i \in Id
  PROVE  /\ Goes(Typed(i, "png"))' =>
                /\ Typed(i, "png") \in g.paths /\ Comes(Neutral(i, "json"))'
                /\ IsDrawn(Typed(i, "png")) =>
                    /\ Comes(Neutral(i, "png"))'
                    /\ \A n \in DOMAIN Now' : Now'[n].path = Neutral(i, "png") => Now'[n].content = "intact"
         /\ \A n \in DOMAIN Now' : Now'[n].path = Neutral(i, "png") /\ Now'[n].content # "gone" =>
                /\ \E metadata : Reads(g, metadata) /\ ~Skipped(g, metadata)
                /\ Comes(Neutral(i, "json"))'
                /\ \/ Neutral(i, "png") \in g.paths /\ Now'[n].content = disk[Neutral(i, "png")]
                   \/ Typed(i, "png") \in g.paths /\ Now'[n].content = disk[Typed(i, "png")]
<1>1. /\ g \in Group /\ g.id \in used
      /\ \A p \in g.paths : p \in File /\ p \in DOMAIN disk /\ p.id = g.id /\ p.stem = g.stem
  BY ClearGroupPlans
<1>2. \/ Now' = << >>
      \/ \E metadata : Reads(g, metadata) /\ ~Skipped(g, metadata) /\ Planned(g, metadata, Now')
  BY ClearGroupPlans
<1>. SUFFICES ASSUME NEW metadata, Reads(g, metadata), ~Skipped(g, metadata),
                     Planned(g, metadata, Now')
              PROVE  /\ Goes(Typed(i, "png"))' =>
                        /\ Typed(i, "png") \in g.paths /\ Comes(Neutral(i, "json"))'
                        /\ IsDrawn(Typed(i, "png")) =>
                            /\ Comes(Neutral(i, "png"))'
                            /\ \A n \in DOMAIN Now' :
                                Now'[n].path = Neutral(i, "png") => Now'[n].content = "intact"
                     /\ \A n \in DOMAIN Now' : Now'[n].path = Neutral(i, "png") /\ Now'[n].content # "gone" =>
                        /\ Comes(Neutral(i, "json"))'
                        /\ \/ Neutral(i, "png") \in g.paths /\ Now'[n].content = disk[Neutral(i, "png")]
                           \/ Typed(i, "png") \in g.paths /\ Now'[n].content = disk[Typed(i, "png")]
  BY <1>2 DEF Goes
<1>. DEFINE ops == Now'
<1>3. Planned(g, metadata, ops)
  OBVIOUS
<1>4. "png" \in Kind /\ "json" \in Kind
  BY DEF Kind
<1>5. ASSUME NEW n \in DOMAIN ops
      PROVE  /\ ops[n].path.id = g.id
             /\ ops[n].content = "gone" => g.stem = "typed" /\ ops[n].path \in g.paths
             /\ ops[n].content # "gone" /\ ops[n].path.kind # "json" =>
                \E p \in g.paths : p.kind # "json" /\ ops[n].path = Renamed(p) /\ ops[n].content = disk[p]
  <2>. HIDE DEF ops
  <2>. QED
    BY <1>1, <1>3, PlannedAre
<1>6. ops \in Seq(Op) /\ ops # << >> /\ ops[1] = Write(ClearedMetadata(g.id), Scrubbed(metadata))
      /\ 1 \in DOMAIN ops
  <2>. HIDE DEF ops
  <2>. QED
    BY <1>3, NotEmpty DEF Planned
<1>7. g.id = i => Comes(Neutral(i, "json"))'
  <2>. HAVE g.id = i
  <2>1. ops[1].path = Neutral(i, "json") /\ ops[1].content = Scrubbed(metadata)
    BY <1>4, <1>6, PathsOf DEF Write
  <2>2. ops[1].content # "gone"
    BY <2>1 DEF Scrubbed
  <2>. QED
    BY <2>1, <2>2, <1>6 DEF Comes
<1>8. Typed(i, "png") \in File /\ Typed(i, "png").id = i /\ Typed(i, "png").stem = "typed"
      /\ Typed(i, "png").kind = "png"
      /\ Neutral(i, "png") \in File /\ Neutral(i, "png").id = i /\ Neutral(i, "png").stem = "Planet"
      /\ Neutral(i, "png").kind = "png"
  BY <1>4, PathsOf
<1>9. ASSUME NEW n \in DOMAIN ops, ops[n].path = Neutral(i, "png"), ops[n].content # "gone"
      PROVE  /\ g.id = i
             /\ \/ Neutral(i, "png") \in g.paths /\ ops[n].content = disk[Neutral(i, "png")]
                \/ Typed(i, "png") \in g.paths /\ ops[n].content = disk[Typed(i, "png")]
  <2>1. PICK p \in g.paths : p.kind # "json" /\ ops[n].path = Renamed(p) /\ ops[n].content = disk[p]
    BY <1>5, <1>8, <1>9
  <2>2. p \in File /\ p.id = g.id
    BY <1>1
  <2>3. p.id = i /\ p.kind = "png"
    <3>1. Renamed(p).id = p.id /\ Renamed(p).kind = p.kind
      BY <2>2, OpTypes
    <3>2. Renamed(p) = Neutral(i, "png")
      BY <2>1, <1>9
    <3>. QED
      BY <3>1, <3>2, <1>8
  <2>4. p.stem = "typed" \/ p.stem = "Planet"
    BY <2>2 DEF File, Stem
  <2>5. p = Typed(i, "png") \/ p = Neutral(i, "png")
    BY <2>2, <2>3, <2>4, <1>4, PathsOf
  <2>. QED
    BY <2>1, <2>2, <2>3, <2>5
<1>10. ASSUME Goes(Typed(i, "png"))'
       PROVE  /\ Typed(i, "png") \in g.paths /\ Comes(Neutral(i, "json"))'
              /\ IsDrawn(Typed(i, "png")) =>
                    /\ Comes(Neutral(i, "png"))'
                    /\ \A n \in DOMAIN ops : ops[n].path = Neutral(i, "png") => ops[n].content = "intact"
  <2>1. PICK n \in DOMAIN ops : ops[n] = Unlink(Typed(i, "png"))
    BY <1>10 DEF Goes
  <2>2. ops[n].path = Typed(i, "png") /\ ops[n].content = "gone"
    BY <2>1 DEF Unlink
  <2>3. Typed(i, "png") \in g.paths /\ g.stem = "typed" /\ g.id = i
    BY <2>2, <1>1, <1>5, <1>8
  <2>4. ASSUME IsDrawn(Typed(i, "png"))
        PROVE  /\ Comes(Neutral(i, "png"))'
               /\ \A m \in DOMAIN ops : ops[m].path = Neutral(i, "png") => ops[m].content = "intact"
    <3>1. disk[Typed(i, "png")] = "intact"
      BY <2>4 DEF IsDrawn
    <3>2. PICK m \in DOMAIN ops : ops[m] = Write(Renamed(Typed(i, "png")), disk[Typed(i, "png")])
      <4>. HIDE DEF ops
      <4>. QED
        BY <2>3, <1>3, <1>8 DEF Planned
    <3>3. Renamed(Typed(i, "png")) = Neutral(i, "png")
      <4>1. /\ Renamed(Typed(i, "png")) \in File /\ Renamed(Typed(i, "png")).id = i
            /\ Renamed(Typed(i, "png")).stem = "Planet" /\ Renamed(Typed(i, "png")).kind = "png"
        BY <1>8, OpTypes
      <4>. QED
        BY <4>1, <1>4, PathsOf
    <3>4. ops[m].path = Neutral(i, "png") /\ ops[m].content = "intact"
      BY <3>1, <3>2, <3>3 DEF Write
    <3>5. Comes(Neutral(i, "png"))'
      BY <3>4 DEF Comes
    <3>6. \A l \in DOMAIN ops : ops[l].path = Neutral(i, "png") => l = m
      <4>. HIDE DEF ops
      <4>. QED
        BY <3>4, <1>3 DEF Planned
    <3>. QED
      BY <3>4, <3>5, <3>6
  <2>. QED
    BY <2>3, <2>4, <1>7
<1>. QED
  BY <1>7, <1>9, <1>10

\* The plan of a group marks the images that it copies.
LEMMA ClearGroupPictures ==
  ASSUME Sound, Lists, Pictures, NEW g \in groups, ClearGroup(g)
  PROVE  Pictures'
<1>1. /\ job.op = "clear_names" /\ Now = << >> /\ groups' = groups \ {g} /\ disk' = disk
      /\ job'.op = job.op /\ \A p \in g.paths : p \in DOMAIN disk
  BY ClearGroupPlans
<1>2. GroupsAreMarked
  BY <1>1 DEF Pictures
<1>3. ASSUME NEW i \in Id \ Plain, Comes(Neutral(i, "png"))' PROVE Comes(Neutral(i, "json"))'
  <2>1. PICK n \in DOMAIN Now' : Now'[n].path = Neutral(i, "png") /\ Now'[n].content # "gone"
    BY <1>3 DEF Comes
  <2>. QED
    BY <2>1, GroupWrites
<1>4. ASSUME NEW i \in Id \ Plain, Spoilt(i), NEW n \in DOMAIN Now',
             Now'[n] = Write(Neutral(i, "png"), "intact")
      PROVE  FALSE
  <2>1. Now'[n].path = Neutral(i, "png") /\ Now'[n].content = "intact"
    BY <1>4 DEF Write
  <2>2. \/ Neutral(i, "png") \in g.paths /\ disk[Neutral(i, "png")] = "intact"
        \/ Typed(i, "png") \in g.paths /\ disk[Typed(i, "png")] = "intact"
    BY <2>1, GroupWrites
  <2>3. ~IsDrawn(Neutral(i, "png"))
    BY <1>4 DEF Pictures, CopiesAreTrue
  <2>. QED
    BY <2>2, <2>3, <1>1, <1>4 DEF IsDrawn, Spoilt
<1>5. GroupsAreMarked'
  BY <1>1, <1>2, <1>3, <1>4 DEF GroupsAreMarked, Spoilt
<1>. QED
  BY <1>1, <1>5 DEF Pictures, ImagesAreMarked, CopiesAreTrue, Spoilt, IsDrawn, FreshIds

\* It keeps the images that are kept.
LEMMA ClearGroupKeeps ==
  ASSUME Sound, Lists, Pictures, NEW g \in groups, ClearGroup(g), NEW i \in Id, Kept(i),
         i \in job'.drawn
  PROVE  Kept(i)'
<1>1. /\ job.op = "clear_names" /\ Now = << >> /\ groups' = groups \ {g} /\ disk' = disk
      /\ \A p \in g.paths : p \in File /\ p \in DOMAIN disk /\ p.id = g.id /\ p.stem = g.stem
  BY ClearGroupPlans
<1>2. GroupsAreMarked
  BY <1>1 DEF Pictures
<1>3. \A q : ~Comes(q) /\ ~Goes(q)
  BY <1>1 DEF Comes, Goes
<1>4. \A q : IsDrawn(q)' <=> IsDrawn(q)
  BY <1>1 DEF IsDrawn
<1>5. "png" \in Kind /\ "json" \in Kind
  BY DEF Kind
<1>6. Typed(i, "png") \in File /\ Typed(i, "png").id = i /\ Typed(i, "png").stem = "typed"
  BY <1>5, PathsOf
<1>7. CASE IsDrawn(Typed(i, "png"))
  <2>1. i \notin Plain
    BY <1>6, <1>7 DEF IsDrawn, Sound, FolderIsSound, FilesAreSound
  <2>2. ASSUME Goes(Typed(i, "png"))'
        PROVE  /\ Comes(Neutral(i, "png"))'
               /\ \A n \in DOMAIN Now' : Now'[n].path = Neutral(i, "png") => Now'[n].content = "intact"
               /\ Calm(i)'
    <3>1. /\ Comes(Neutral(i, "json"))' /\ Comes(Neutral(i, "png"))'
          /\ \A n \in DOMAIN Now' : Now'[n].path = Neutral(i, "png") => Now'[n].content = "intact"
      BY <2>2, <1>7, GroupWrites
    <3>2. Marked(i)'
      BY <3>1 DEF Marked
    <3>3. Calm(i)'
      BY <3>2, <2>1, <1>1, <1>2 DEF Calm, GroupsAreMarked
    <3>. QED
      BY <3>1, <3>3
  <2>. QED
    BY <2>2, <1>4, <1>7 DEF Kept
<1>8. CASE ~IsDrawn(Typed(i, "png")) /\ IsDrawn(Neutral(i, "png")) /\ Calm(i)
  <2>1. Calm(i)'
    BY <1>1, <1>3, <1>8 DEF Calm, Marked
  <2>2. ~Comes(Neutral(i, "png"))'
    <3>. SUFFICES ASSUME NEW n \in DOMAIN Now', Now'[n].path = Neutral(i, "png"), Now'[n].content # "gone"
                  PROVE  FALSE
      BY DEF Comes
    <3>1. /\ \E metadata : Reads(g, metadata) /\ ~Skipped(g, metadata)
          /\ Neutral(i, "png") \in g.paths \/ Typed(i, "png") \in g.paths
      BY GroupWrites
    <3>2. CASE Neutral(i, "png") \in g.paths
      <4>1. /\ Neutral(i, "json") \in g.paths /\ Neutral(i, "json") \in DOMAIN disk
            /\ disk[Neutral(i, "json")] \in {"cleared", "bare"}
        BY <3>2, <1>3, <1>8 DEF Calm, Marked
      <4>2. Neutral(i, "png").id = i /\ Neutral(i, "png").stem = "Planet"
        BY <1>5, PathsOf
      <4>3. g.id = i /\ g.stem = "Planet"
        BY <3>2, <4>2, <1>1
      <4>4. Neutral(i, "json") = [id |-> g.id, stem |-> g.stem, kind |-> "json"]
        BY <4>3 DEF Neutral
      <4>5. MetadataOf(g) \in {"cleared", "bare"}
        BY <4>1, <4>4 DEF MetadataOf
      <4>6. ~Unreadable(g)
        <5>. SUFFICES ASSUME Unreadable(g) PROVE FALSE
          OBVIOUS
        <5>1. i \in Exposed(g)
          BY <4>3, <1>8 DEF Exposed, Typed
        <5>2. job \in Job /\ job' = [job EXCEPT !.drawn = @ \ Exposed(g), !.already = @ \ {g.id}]
          BY DEF Unreadable, Sound, Registers
        <5>3. job'.drawn = job.drawn \ Exposed(g)
          BY <5>2 DEF Job
        <5>. QED
          BY <5>1, <5>3
      <4>. QED
        BY <3>1, <4>3, <4>5, <4>6 DEF Skipped, Reads
    <3>3. CASE Typed(i, "png") \in g.paths
      <4>1. Typed(i, "png") \in DOMAIN disk
        BY <3>3, <1>1
      <4>2. i \notin Plain
        BY <4>1, <1>6 DEF Sound, FolderIsSound, FilesAreSound
      <4>3. Spoilt(i)
        BY <4>1, <1>8 DEF Spoilt, IsDrawn
      <4>. QED
        BY <4>2, <4>3, <1>8 DEF Pictures, CopiesAreTrue
    <3>. QED
      BY <3>1, <3>2, <3>3
  <2>. QED
    BY <2>1, <2>2, <1>4, <1>8 DEF Kept
<1>. QED
  BY <1>7, <1>8 DEF Kept

\* The folder, when an operation of a group is done or cut short.
LEMMA GroupDisk ==
  ASSUME Sound, Lists, Pictures, job.op = "clear_names", todo # << >>, NEW op, CanTouch(op), Touched(op),
         job' = job
  PROVE  /\ ImagesAreMarked' /\ CopiesAreTrue' /\ FreshIds'
         /\ \A i \in Id : Spoilt(i)' => Spoilt(i)
<1>1. Now \in Seq(Op) /\ 1 \in DOMAIN Now /\ Now[1] \in Op
  BY NowIsFirst DEF Sound
<1>2. /\ op \in Op /\ op.path = Now[1].path
      /\ op.content = Now[1].content \/ op.content = "torn"
      /\ op.content = "gone" <=> Now[1].content = "gone"
  BY DEF CanTouch
<1>3. GroupOps /\ GroupsAreMarked
  BY DEF Lists, Pictures
<1>4. op.content = "gone" <=> op.path.stem = "typed"
  BY <1>1, <1>2, <1>3 DEF GroupOps
<1>5. ASSUME NEW p \in File, p.stem # "typed"
      PROVE  p \in DOMAIN disk => p \in DOMAIN disk'
  BY <1>4, <1>5 DEF Touched
<1>6. ASSUME NEW p \in File, p.stem = "typed", p \in DOMAIN disk'
      PROVE  p \in DOMAIN disk /\ disk'[p] = disk[p]
  BY <1>4, <1>6 DEF Touched
<1>7. "png" \in Kind /\ "json" \in Kind
  BY DEF Kind
<1>8. ASSUME NEW i \in Id
      PROVE  /\ Typed(i, "png") \in File /\ Typed(i, "png").stem = "typed"
             /\ Neutral(i, "png") \in File /\ Neutral(i, "png").stem = "Planet" /\ Neutral(i, "png").kind = "png"
             /\ Neutral(i, "json") \in File /\ Neutral(i, "json").stem = "Planet"
             /\ Neutral(i, "json").kind = "json"
  BY <1>7, PathsOf
<1>9. ASSUME NEW i \in Id, Spoilt(i)' PROVE Spoilt(i)
  BY <1>6, <1>8, <1>9 DEF Spoilt
<1>10. ImagesAreMarked'
  <2>. SUFFICES ASSUME NEW i \in Id \ Plain, Neutral(i, "png") \in DOMAIN disk'
                PROVE  Neutral(i, "json") \in DOMAIN disk'
    BY DEF ImagesAreMarked
  <2>1. CASE Neutral(i, "png") \in DOMAIN disk
    BY <2>1, <1>5, <1>8 DEF Pictures, ImagesAreMarked
  <2>2. CASE Neutral(i, "png") \notin DOMAIN disk
    <3>1. op.path = Neutral(i, "png") /\ op.content # "gone"
      BY <2>2, <1>8 DEF Touched
    <3>2. Comes(Neutral(i, "png"))
      BY <3>1, <1>1, <1>2 DEF Comes
    <3>3. ~Comes(Neutral(i, "json"))
      <4>. SUFFICES ASSUME NEW n \in DOMAIN Now, Now[n].path = Neutral(i, "json"), Now[n].content # "gone"
                    PROVE  FALSE
        BY DEF Comes
      <4>1. n = 1
        BY <1>3, <1>8 DEF GroupOps
      <4>. QED
        BY <4>1, <3>1, <1>2, <1>8
    <3>. QED
      BY <3>2, <3>3, <1>3, <1>5, <1>8 DEF GroupsAreMarked
  <2>. QED
    BY <2>1, <2>2
<1>11. CopiesAreTrue'
  <2>. SUFFICES ASSUME NEW i \in Id \ Plain, Spoilt(i)', IsDrawn(Neutral(i, "png"))' PROVE FALSE
    BY DEF CopiesAreTrue
  <2>1. Spoilt(i)
    BY <1>9
  <2>2. ~IsDrawn(Neutral(i, "png"))
    BY <2>1 DEF Pictures, CopiesAreTrue
  <2>3. op.path = Neutral(i, "png") /\ op.content = "intact"
    BY <2>2, <1>8 DEF Touched, IsDrawn
  <2>4. Now[1].path = Neutral(i, "png") /\ Now[1].content = "intact"
    BY <2>3, <1>2
  <2>5. Now[1] = Write(Neutral(i, "png"), "intact")
    BY <2>4, <1>1, OpIs
  <2>. QED
    BY <2>1, <2>5, <1>1, <1>3 DEF GroupsAreMarked
<1>12. FreshIds'
  BY DEF FreshIds
<1>. QED
  BY <1>9, <1>10, <1>11, <1>12

\* A step of it keeps what is known of the images.
LEMMA GroupStepPictures ==
  ASSUME Sound, Lists, Pictures, job.op = "clear_names", Step
  PROVE  Pictures'
<1>1. Advances /\ Touched(Now[1]) /\ job' = job /\ todo # << >> /\ groups' = groups
  BY StepAdvances DEF Step
<1>2. /\ Now \in Seq(Op) /\ 1 \in DOMAIN Now /\ Now[1] \in Op /\ CanTouch(Now[1]) /\ Len(todo) <= 1
  BY <1>1, NowIsFirst DEF Sound, CanTouch, JobIsSound
<1>3. /\ ImagesAreMarked' /\ CopiesAreTrue' /\ FreshIds'
      /\ \A i \in Id : Spoilt(i)' => Spoilt(i)
  BY <1>1, <1>2, GroupDisk
<1>4. /\ \A n \in DOMAIN Now' : n + 1 \in DOMAIN Now /\ Now'[n] = Now[n + 1]
      /\ \A n \in DOMAIN Now : n # 1 => n - 1 \in DOMAIN Now' /\ Now'[n - 1] = Now[n]
  BY <1>1, <1>2, NowLeft DEF Sound
<1>5. GroupOps /\ GroupsAreMarked
  BY DEF Lists, Pictures
<1>6. "png" \in Kind /\ "json" \in Kind
  BY DEF Kind
<1>7. ASSUME NEW i \in Id, Neutral(i, "json") \in DOMAIN disk \/ Comes(Neutral(i, "json"))
      PROVE  Neutral(i, "json") \in DOMAIN disk' \/ Comes(Neutral(i, "json"))'
  <2>1. Neutral(i, "json") \in File /\ Neutral(i, "json").stem = "Planet"
    BY <1>6, PathsOf
  <2>2. CASE Now[1].path = Neutral(i, "json")
    <3>1. Now[1].content # "gone"
      BY <2>1, <2>2, <1>2, <1>5 DEF GroupOps
    <3>. QED
      BY <3>1, <2>2, <1>1 DEF Touched
  <2>3. CASE Now[1].path # Neutral(i, "json") /\ Neutral(i, "json") \in DOMAIN disk
    BY <2>1, <2>3, <1>1 DEF Touched
  <2>4. CASE Now[1].path # Neutral(i, "json") /\ Comes(Neutral(i, "json"))
    <3>1. PICK n \in DOMAIN Now : Now[n].path = Neutral(i, "json") /\ Now[n].content # "gone"
      BY <2>4 DEF Comes
    <3>2. n # 1
      BY <3>1, <2>4
    <3>. QED
      BY <3>1, <3>2, <1>4 DEF Comes
  <2>. QED
    BY <2>2, <2>3, <2>4, <1>7
<1>8. ASSUME NEW p, Comes(p)' PROVE Comes(p)
  BY <1>4, <1>8 DEF Comes
<1>9. ASSUME NEW i \in Id \ Plain, Spoilt(i)', NEW n \in DOMAIN Now',
             Now'[n] = Write(Neutral(i, "png"), "intact")
      PROVE  FALSE
  BY <1>3, <1>4, <1>5, <1>9 DEF GroupsAreMarked
<1>10. GroupsAreMarked'
  <2>1. ASSUME NEW i \in Id \ Plain, Comes(Neutral(i, "png"))'
        PROVE  Neutral(i, "json") \in DOMAIN disk' \/ Comes(Neutral(i, "json"))'
    BY <2>1, <1>5, <1>7, <1>8 DEF GroupsAreMarked
  <2>2. \A g \in groups' : \A i \in Id \ Plain :
            Neutral(i, "png") \in g.paths => Neutral(i, "json") \in g.paths
    BY <1>1, <1>5 DEF GroupsAreMarked
  <2>. QED
    BY <2>1, <2>2, <1>9 DEF GroupsAreMarked
<1>. QED
  BY <1>1, <1>3, <1>10 DEF Pictures

\* An interruption of it does too, and an image that was kept is still there.
LEMMA GroupCut ==
  ASSUME Sound, Lists, Pictures, job.op = "clear_names", Fail \/ Crash
  PROVE  /\ Pictures'
         /\ \A i \in Id : Kept(i) => HasDrawing(i)'
<1>1. job' = job /\ todo' = << >> /\ groups' = {}
  BY FailLeaves, CrashLeaves
<1>2. \/ disk' = disk
      \/ todo # << >> /\ \E op : CanTouch(op) /\ op.content = "torn" /\ Touched(op)
  <2>1. CASE Fail
    BY <2>1, FailLeaves, CutTouches
  <2>2. CASE Crash
    BY <2>2, CrashLeaves, CutTouches
  <2>. QED
    BY <2>1, <2>2
<1>3. Now' = << >>
  BY <1>1 DEF Now
<1>4. Sound'
  BY FailIsSound, CrashIsSound
<1>5. /\ ImagesAreMarked' /\ CopiesAreTrue' /\ FreshIds'
  <2>1. CASE disk' = disk
    BY <2>1, <1>1 DEF Pictures, ImagesAreMarked, CopiesAreTrue, FreshIds, Spoilt, IsDrawn
  <2>2. CASE todo # << >> /\ \E op : CanTouch(op) /\ Touched(op)
    BY <2>2, <1>1, GroupDisk
  <2>. QED
    BY <2>1, <2>2, <1>2
<1>6. GroupsAreMarked'
  BY <1>1, <1>3 DEF GroupsAreMarked, Comes
<1>7. Pictures'
  BY <1>1, <1>5, <1>6 DEF Pictures
<1>8. ASSUME NEW i \in Id, Kept(i) PROVE HasDrawing(i)'
  <2>1. "png" \in Kind
    BY DEF Kind
  <2>2. /\ Typed(i, "png") \in File /\ Typed(i, "png").stem = "typed"
        /\ Neutral(i, "png") \in File /\ Neutral(i, "png").stem = "Planet"
        /\ Typed(i, "png").id = i /\ Neutral(i, "png").id = i
        /\ Typed(i, "png").kind = "png" /\ Neutral(i, "png").kind = "png"
    BY <2>1, PathsOf
  <2>. DEFINE T == Typed(i, "png")
              N == Neutral(i, "png")
  <2>3. IsDrawn(T) \/ (IsDrawn(N) /\ ~Comes(N))
    BY <1>8 DEF Kept
  <2>4. IsDrawn(T)' \/ IsDrawn(N)'
    <3>1. CASE disk' = disk
      BY <3>1, <2>3 DEF IsDrawn
    <3>2. CASE todo # << >> /\ \E op : CanTouch(op) /\ op.content = "torn" /\ Touched(op)
      <4>1. PICK op : CanTouch(op) /\ op.content = "torn" /\ Touched(op)
        BY <3>2
      <4>2. 1 \in DOMAIN Now /\ GroupOps
        BY <3>2, NowIsFirst DEF Sound, Lists
      <4>3. /\ op.path = Now[1].path /\ (op.content = "gone" <=> Now[1].content = "gone")
            /\ op.content = "gone" <=> op.path.stem = "typed"
        BY <4>1, <4>2 DEF CanTouch, GroupOps
      <4>4. op.path # T
        BY <4>1, <4>3, <2>2
      <4>5. CASE op.path # N /\ IsDrawn(N)
        BY <4>1, <4>5, <2>2 DEF Touched, IsDrawn
      <4>6. CASE op.path = N /\ ~IsDrawn(T)
        <5>1. Now[1].content # "gone"
          BY <4>3, <4>6, <2>2
        <5>2. Comes(N)
          BY <5>1, <4>2, <4>3, <4>6 DEF Comes
        <5>. QED
          BY <5>2, <4>6, <2>3
      <4>7. CASE IsDrawn(T)
        BY <4>1, <4>4, <4>7, <2>2 DEF Touched, IsDrawn
      <4>. QED
        BY <4>5, <4>6, <4>7, <2>3
    <3>. QED
      BY <3>1, <3>2, <1>2
  <2>5. T \in File /\ N \in File /\ T.id = i /\ N.id = i /\ T.kind = "png" /\ N.kind = "png"
    BY <2>2
  <2>. HIDE DEF T, N
  <2>. QED
    BY <2>4, <2>5 DEF HasDrawing, Images, IsDrawn
<1>. QED
  BY <1>7, <1>8

\* A step of it leaves alone the groups that are to be left alone.
LEMMA CalmStays ==
  ASSUME Sound, Lists, job.op = "clear_names", Step, NEW i \in Id, Calm(i)
  PROVE  Calm(i)'
<1>1. Advances /\ Touched(Now[1]) /\ todo # << >> /\ groups' = groups
  BY StepAdvances DEF Step
<1>2. 1 \in DOMAIN Now /\ Len(todo) <= 1 /\ GroupOps
  BY <1>1, NowIsFirst DEF Sound, JobIsSound, Lists
<1>3. \A n \in DOMAIN Now : n # 1 => n - 1 \in DOMAIN Now' /\ Now'[n - 1] = Now[n]
  BY <1>1, <1>2, NowLeft DEF Sound
<1>. DEFINE J == Neutral(i, "json")
<1>4. J \in File /\ J.stem = "Planet" /\ J.kind = "json"
  <2>1. "json" \in Kind
    BY DEF Kind
  <2>. QED
    BY <2>1, PathsOf
<1>5. ASSUME Marked(i) PROVE Marked(i)'
  <2>1. CASE Now[1].path = J
    <3>1. Now[1].content \in {"cleared", "bare"} /\ Now[1].content # "gone"
      BY <2>1, <1>2, <1>4 DEF GroupOps
    <3>2. J \in DOMAIN disk' /\ disk'[J] = Now[1].content
      BY <2>1, <3>1, <1>1 DEF Touched
    <3>. QED
      BY <3>1, <3>2 DEF Marked
  <2>2. CASE Now[1].path # J /\ J \in DOMAIN disk /\ disk[J] \in {"cleared", "bare"}
    <3>1. J \in DOMAIN disk' /\ disk'[J] = disk[J]
      BY <2>2, <1>1, <1>4 DEF Touched
    <3>. QED
      BY <2>2, <3>1 DEF Marked
  <2>3. CASE Now[1].path # J /\ Comes(J)
    <3>1. PICK n \in DOMAIN Now : Now[n].path = J /\ Now[n].content # "gone"
      BY <2>3 DEF Comes
    <3>2. n # 1
      BY <3>1, <2>3
    <3>3. Comes(J)'
      BY <3>1, <3>2, <1>3 DEF Comes
    <3>. QED
      BY <3>3 DEF Marked
  <2>. QED
    BY <2>1, <2>2, <2>3, <1>5 DEF Marked
<1>. QED
  BY <1>1, <1>5 DEF Calm

\* A step of it keeps the images that are kept.
LEMMA StepKeeps ==
  ASSUME Sound, Lists, job.op = "clear_names", Step, NEW i \in Id, Kept(i)
  PROVE  Kept(i)'
<1>1. Advances /\ Touched(Now[1]) /\ todo # << >>
  BY StepAdvances DEF Step
<1>2. Now \in Seq(Op) /\ 1 \in DOMAIN Now /\ Now[1] \in Op /\ Len(todo) <= 1 /\ GroupOps
  BY <1>1, NowIsFirst DEF Sound, JobIsSound, Lists
<1>3. /\ \A n \in DOMAIN Now' : n + 1 \in DOMAIN Now /\ Now'[n] = Now[n + 1]
      /\ \A n \in DOMAIN Now : n # 1 => n - 1 \in DOMAIN Now' /\ Now'[n - 1] = Now[n]
  BY <1>1, <1>2, NowLeft DEF Sound
<1>4. "png" \in Kind
  BY DEF Kind
<1>. DEFINE T == Typed(i, "png")
            N == Neutral(i, "png")
<1>5. T \in File /\ T.stem = "typed" /\ N \in File /\ N.stem = "Planet" /\ T # N
  <2>1. T \in File /\ T.stem = "typed" /\ N \in File /\ N.stem = "Planet"
    BY <1>4, PathsOf
  <2>. QED
    BY <2>1
<1>6. Calm(i) => Calm(i)'
  BY CalmStays
<1>7. \A n \in DOMAIN Now : n \in Nat \ {0}
  BY <1>2
<1>8. Now[1].content = "gone" <=> Now[1].path.stem = "typed"
  BY <1>2 DEF GroupOps
<1>9. \A p : Comes(p)' => Comes(p)
  BY <1>3 DEF Comes
<1>10. ASSUME NEW p, Now[1].path # p, Comes(p) PROVE Comes(p)'
  <2>1. PICK n \in DOMAIN Now : Now[n].path = p /\ Now[n].content # "gone"
    BY <1>10 DEF Comes
  <2>2. n # 1
    BY <2>1, <1>10
  <2>. QED
    BY <2>1, <2>2, <1>3 DEF Comes
<1>11. Goes(T)' => Goes(T)
  BY <1>3 DEF Goes
<1>12. Now[1].path # T /\ IsDrawn(T) => IsDrawn(T)'
  BY <1>1, <1>5 DEF Touched, IsDrawn
<1>13. Now[1].path # N /\ IsDrawn(N) => IsDrawn(N)'
  BY <1>1, <1>5 DEF Touched, IsDrawn
<1>. DEFINE Copied == /\ IsDrawn(N) \/ Comes(N)
                      /\ \A n \in DOMAIN Now : Now[n].path = N => Now[n].content = "intact"
                      /\ Calm(i)
<1>14. CASE IsDrawn(T) /\ Now[1].path = T /\ (Goes(T) => Copied)
  <2>1. Now[1].content = "gone"
    BY <1>5, <1>8, <1>14
  <2>2. Now[1] = Unlink(T)
    BY <2>1, <1>2, <1>14, OpIs
  <2>3. Goes(T)
    BY <2>2, <1>2 DEF Goes
  <2>4. ~Comes(N)
    <3>. SUFFICES ASSUME NEW n \in DOMAIN Now, Now[n].content # "gone" PROVE FALSE
      BY DEF Comes
    <3>1. n < 1
      BY <2>1, <1>2 DEF GroupOps
    <3>. QED
      BY <3>1, <1>7
  <2>5. IsDrawn(N)' /\ ~Comes(N)'
    BY <2>3, <2>4, <1>5, <1>9, <1>13, <1>14
  <2>. QED
    BY <2>3, <2>5, <1>6, <1>14 DEF Kept
<1>15. CASE IsDrawn(T) /\ Now[1].path # T /\ (Goes(T) => Copied)
  <2>1. ASSUME Goes(T)'
        PROVE  /\ IsDrawn(N)' \/ Comes(N)'
               /\ \A n \in DOMAIN Now' : Now'[n].path = N => Now'[n].content = "intact"
               /\ Calm(i)'
    <3>1. Copied
      BY <2>1, <1>11, <1>15
    <3>2. \A n \in DOMAIN Now' : Now'[n].path = N => Now'[n].content = "intact"
      BY <3>1, <1>3
    <3>3. CASE Now[1].path = N
      <4>1. Now[1].content = "intact"
        BY <3>1, <3>3, <1>2
      <4>2. IsDrawn(N)'
        BY <4>1, <3>3, <1>1 DEF Touched, IsDrawn
      <4>. QED
        BY <4>2, <3>1, <3>2, <1>6
    <3>4. CASE Now[1].path # N
      BY <3>1, <3>2, <3>4, <1>6, <1>10, <1>13
    <3>. QED
      BY <3>3, <3>4
  <2>. QED
    BY <2>1, <1>12, <1>15 DEF Kept
<1>16. CASE IsDrawn(N) /\ ~Comes(N) /\ Calm(i)
  <2>1. Now[1].path # N
    <3>. SUFFICES ASSUME Now[1].path = N PROVE FALSE
      OBVIOUS
    <3>1. Now[1].content # "gone"
      BY <1>5, <1>8
    <3>. QED
      BY <3>1, <1>2, <1>16 DEF Comes
  <2>. QED
    BY <2>1, <1>6, <1>9, <1>13, <1>16 DEF Kept
<1>. QED
  BY <1>14, <1>15, <1>16 DEF Kept

\* Every step keeps the images.
LEMMA PicturesStep ==
  ASSUME Sound, Lists, Pictures, Keeping, DrawingsStay, [StoreNext]_storeVars
  PROVE  Pictures' /\ Keeping' /\ DrawingsStay'
<1>1. job.drawn \subseteq Id
  BY DEF Sound, Registers, Job
<1>2. ASSUME \A i \in job'.drawn : Kept(i)', job'.drawn \subseteq Id
      PROVE  Keeping' /\ DrawingsStay'
  BY <1>2, DrawnIsHeld DEF Keeping, DrawingsStay
<1>3. ASSUME (\E i \in Id : Submit(i) \/ Delete(i)) \/ ClearPlanets
      PROVE  Pictures' /\ Keeping' /\ DrawingsStay'
  <2>1. Pictures'
    BY <1>3, SubmitPictures, DeletePictures, ClearPictures
  <2>2. job'.op # "clear_names"
    BY <1>3, OtherHandlers
  <2>. QED
    BY <2>1, <2>2 DEF Keeping, DrawingsStay
<1>4. CASE ClearNames
  <2>1. Pictures' /\ Keeping'
    BY <1>4, ClearNamesPictures
  <2>2. /\ job'.op = "clear_names" /\ outcome' \in {"running", "ok"}
        /\ job'.drawn = {i \in Id : InSafety(i)}
    BY <1>4, ClearNamesPlans, BeginMeans
  <2>3. \A i \in job'.drawn : Kept(i)'
    BY <2>1, <2>2 DEF Keeping
  <2>. QED
    BY <2>1, <2>2, <2>3, <1>2
<1>5. ASSUME NEW g \in groups, ClearGroup(g) PROVE Pictures' /\ Keeping' /\ DrawingsStay'
  <2>1. job.op = "clear_names" /\ job'.drawn \subseteq job.drawn
    BY <1>5, ClearGroupPlans
  <2>2. outcome = "running"
    BY DEF Sound, Registers, AtRest
  <2>3. \A i \in job'.drawn : Kept(i)'
    BY <2>1, <2>2, <1>1, <1>5, ClearGroupKeeps DEF Keeping
  <2>. QED
    BY <2>1, <2>3, <1>1, <1>2, <1>5, ClearGroupPictures
<1>6. CASE Step
  <2>1. job' = job /\ outcome = "running"
    BY <1>6 DEF Step, Sound, Registers, AtRest
  <2>2. Pictures'
    BY <1>6, OthersStep, GroupStepPictures
  <2>3. CASE job.op = "clear_names"
    <3>1. \A i \in job.drawn : Kept(i)'
      BY <2>1, <2>3, <1>1, <1>6, StepKeeps DEF Keeping
    <3>. QED
      BY <2>1, <2>2, <3>1, <1>1, <1>2
  <2>4. CASE job.op # "clear_names"
    BY <2>1, <2>2, <2>4 DEF Keeping, DrawingsStay
  <2>. QED
    BY <2>3, <2>4
<1>7. CASE Fail \/ Crash
  <2>1. job' = job /\ outcome = "running"
    BY <1>7, FailLeaves, CrashLeaves
  <2>2. CASE job.op = "clear_names"
    <3>1. outcome' \notin {"running", "ok"}
      BY <2>2, <1>7, FailLeaves, CrashLeaves
    <3>2. Pictures' /\ \A i \in job.drawn : HasDrawing(i)'
      BY <2>1, <2>2, <1>1, <1>7, GroupCut DEF Keeping
    <3>. QED
      BY <2>1, <3>1, <3>2 DEF Keeping, DrawingsStay
  <2>3. CASE job.op # "clear_names"
    BY <2>1, <2>3, <1>7, OthersCut DEF Keeping, DrawingsStay
  <2>. QED
    BY <2>2, <2>3
<1>8. CASE UNCHANGED storeVars
  <2>1. UNCHANGED <<disk, todo, groups, job, outcome>>
    BY <1>8 DEF storeVars
  <2>2. Now' = Now
    BY <2>1 DEF Now
  <2>3. /\ \A p : (IsDrawn(p)' <=> IsDrawn(p)) /\ (Comes(p)' <=> Comes(p)) /\ (Goes(p)' <=> Goes(p))
        /\ \A i : Spoilt(i)' <=> Spoilt(i)
    BY <2>1, <2>2 DEF IsDrawn, Comes, Goes, Spoilt
  <2>4. Pictures'
    BY <2>1, <2>2, <2>3
       DEF Pictures, ImagesAreMarked, CopiesAreTrue, FreshIds, OthersOwn, GroupsAreMarked
  <2>5. Keeping'
    <3>1. \A i : Calm(i) => Calm(i)'
      BY <2>1, <2>3 DEF Calm, Marked
    <3>2. \A i : Kept(i) => Kept(i)'
      BY <2>2, <2>3, <3>1 DEF Kept
    <3>. QED
      BY <2>1, <3>2 DEF Keeping
  <2>6. DrawingsStay'
    BY <2>1, <2>3 DEF DrawingsStay, HasDrawing, Images, AtRest
  <2>. QED
    BY <2>4, <2>5, <2>6
<1>. QED
  BY <1>3, <1>4, <1>5, <1>6, <1>7, <1>8 DEF StoreNext

\* The empty folder has none to lose.
LEMMA PicturesStart == StoreInit => Pictures /\ Keeping /\ DrawingsStay
<1>. SUFFICES ASSUME StoreInit PROVE Pictures /\ Keeping /\ DrawingsStay
  OBVIOUS
<1>1. DOMAIN disk = {} /\ todo = << >> /\ job.op = "none"
  BY DEF StoreInit
<1>. QED
  BY <1>1 DEF Pictures, Keeping, DrawingsStay, ImagesAreMarked, CopiesAreTrue, Spoilt, FreshIds, OthersOwn

\* clear_names keeps the drawings, whether it answers, fails or dies, and however often
\* it was cut short before (_clear_group copies before it unlinks): each one that has a
\* good image under a typed name, or that this run knows to be cleared.
THEOREM DrawingsAlwaysStay == StoreSpec => []DrawingsStay
<1>1. StoreInit => Sound /\ Lists /\ Pictures /\ Keeping /\ DrawingsStay
  BY SoundStarts, PicturesStart
<1>2. Sound /\ Lists /\ [StoreNext]_storeVars => Sound' /\ Lists'
  BY SoundSteps
<1>3. Sound /\ Lists /\ Pictures /\ Keeping /\ DrawingsStay /\ [StoreNext]_storeVars
        => Pictures' /\ Keeping' /\ DrawingsStay'
  BY PicturesStep
<1>. QED
  BY <1>1, <1>2, <1>3, PTL DEF StoreSpec
------------------------------------------------------------------------------

(* Uploads are stored whole, and leave no more than the retention.           *)

RemovalOf(image) == [ops |-> Removal(image), otherwise |-> "skip"]

\* A removal that is no planet i's, or what is left of one.
Rest(i, b) ==
    /\ b.otherwise = "skip"
    /\ \A n \in DOMAIN b.ops : b.ops[n].content = "gone" /\ b.ops[n].path.id # i

\* The plan of an upload of planet i, when s of its files are still to be written: h = 1
\* if a removal has lost its image, and the rest are removals of listed images that have not begun.
Plan(i, s, h, blocks, listed) ==
    /\ s + h <= Len(blocks) /\ (h = 1 => s = 0)
    /\ h = 1 => \A n \in DOMAIN blocks[1].ops : blocks[1].ops[n].path.kind # "png"
    /\ \A k \in 1..Len(blocks) : k <= s => blocks[k] = Saves(i)[k + 3 - s]
    /\ \A k \in 1..Len(blocks) : k > s => Rest(i, blocks[k])
    /\ \A k \in 1..Len(blocks) : k > s + h => \E image \in listed : blocks[k] = RemovalOf(image)
    /\ \A k, l \in 1..Len(blocks) :
        k > s + h /\ l > s + h /\ blocks[k].ops[1].path = blocks[l].ops[1].path => k = l

\* What is stored of it by then.
Saved(i, s) ==
    /\ s = 3 => \A p \in DOMAIN disk : p.id # i
    /\ s < 3 => newest # << >> /\ newest[1] = StoredImage(i) /\ IsDrawn(StoredImage(i))
    /\ s < 2 /\ faults = 0 => Of(StoredImage(i), "json") \in DOMAIN disk
    /\ s < 1 => IsDrawn(Of(StoredImage(i), "drawing"))

\* The images there are, those to be written and those to be removed keep to the retention.
Room(s, h) ==
    Len(newest) + (IF s = 3 THEN 1 ELSE 0) <= Retention + faults + (Len(todo) - s - h)

SubmitAt(i, s, h) == job.ids = {i} /\ Plan(i, s, h, todo, Listed) /\ Saved(i, s) /\ Room(s, h)

Stored ==
    job.op = "submit" /\ outcome \in {"running", "ok"} =>
        \E i \in Id, s \in 0..3, h \in 0..1 : SubmitAt(i, s, h)

\* The plan of an upload without its first block.
LEMMA PlanTail ==
  ASSUME NEW i \in Id, NEW s \in 0..3, NEW h \in 0..1, NEW blocks \in Seq(Block), blocks # << >>,
         NEW listed, Plan(i, s, h, blocks, listed)
  PROVE  Plan(i, IF s = 0 THEN 0 ELSE s - 1, 0, Tail(blocks), listed)
<1>. DEFINE t == Tail(blocks)
            s2 == IF s = 0 THEN 0 ELSE s - 1
<1>1. t \in Seq(Block) /\ Len(t) = Len(blocks) - 1 /\ Len(blocks) \in Nat
      /\ \A k \in 1..Len(t) : k + 1 \in 1..Len(blocks) /\ t[k] = blocks[k + 1]
  BY TailHas
<1>. HIDE DEF t
<1>2. s2 \in 0..3 /\ (s > 0 => h = 0 /\ s2 + 1 = s) /\ (s = 0 => s2 = 0)
  BY DEF Plan
<1>. HIDE DEF s2
<1>3. s2 + 0 <= Len(t)
  <2>1. 1 \in 1..Len(blocks)
    BY NotEmpty
  <2>2. s + h <= Len(blocks)
    BY DEF Plan
  <2>. QED
    BY <2>1, <2>2, <1>1, <1>2
<1>4. \A k \in 1..Len(t) : k <= s2 => t[k] = Saves(i)[k + 3 - s2]
  <2>. SUFFICES ASSUME NEW k \in 1..Len(t), k <= s2 PROVE t[k] = Saves(i)[k + 3 - s2]
    OBVIOUS
  <2>1. k + 1 <= s /\ (k + 1) + 3 - s = k + 3 - s2
    BY <1>1, <1>2
  <2>2. k + 1 \in 1..Len(blocks) /\ t[k] = blocks[k + 1]
    BY <1>1
  <2>3. blocks[k + 1] = Saves(i)[(k + 1) + 3 - s]
    BY <2>1, <2>2 DEF Plan
  <2>. QED
    BY <2>1, <2>2, <2>3
<1>5. \A k \in 1..Len(t) : k > s2 => k + 1 > s
  BY <1>1, <1>2
<1>6. \A k \in 1..Len(t) : k > s2 + 0 => k + 1 > s + h
  BY <1>1, <1>2
<1>7. \A k \in 1..Len(t) : k > s2 => Rest(i, t[k])
  BY <1>1, <1>5 DEF Plan
<1>8. \A k \in 1..Len(t) : k > s2 + 0 => \E image \in listed : t[k] = RemovalOf(image)
  BY <1>1, <1>6 DEF Plan
<1>9. \A k, l \in 1..Len(t) :
        k > s2 + 0 /\ l > s2 + 0 /\ t[k].ops[1].path = t[l].ops[1].path => k = l
  <2>. SUFFICES ASSUME NEW k \in 1..Len(t), NEW l \in 1..Len(t), k > s2 + 0, l > s2 + 0,
                       t[k].ops[1].path = t[l].ops[1].path
                PROVE  k = l
    OBVIOUS
  <2>1. /\ k + 1 \in 1..Len(blocks) /\ t[k] = blocks[k + 1] /\ k + 1 > s + h
        /\ l + 1 \in 1..Len(blocks) /\ t[l] = blocks[l + 1] /\ l + 1 > s + h
    BY <1>1, <1>6
  <2>2. k + 1 = l + 1
    BY <2>1 DEF Plan
  <2>. QED
    BY <2>2
<1>. QED
  BY <1>3, <1>4, <1>7, <1>8, <1>9 DEF Plan, t, s2

\* The plan of an upload as images are added to the listing.
LEMMA PlanKeeps ==
  ASSUME NEW i \in Id, NEW s \in 0..3, NEW h \in 0..1, NEW blocks, NEW listed, NEW later,
         Plan(i, s, h, blocks, listed), listed \subseteq later
  PROVE  Plan(i, s, h, blocks, later)
  BY DEF Plan

\* The removal under way has an operation less; if it was about to begin, its image
\* is not listed any more.
LEMMA PlanLess ==
  ASSUME NEW i \in Id, NEW h \in 0..1, NEW blocks \in Seq(Block), blocks # << >>,
         NEW listed \in SUBSET File, Plan(i, 0, h, blocks, listed), NEW later, NEW next \in Seq(Block),
         Len(next) = Len(blocks), next[1].ops = Tail(blocks[1].ops),
         next[1].otherwise = blocks[1].otherwise, blocks[1].ops # << >>,
         \A k \in 2..Len(blocks) : next[k] = blocks[k],
         \A image \in listed : image # blocks[1].ops[1].path => image \in later,
         h = 1 => listed \subseteq later
  PROVE  Plan(i, 0, 1, next, later)
<1>1. Len(blocks) \in Nat /\ 1 \in 1..Len(blocks) /\ Len(blocks) >= 1
  BY NotEmpty
<1>2. blocks[1].ops \in Seq(Op)
  <2>1. blocks[1] \in Block
    BY <1>1
  <2>. QED
    BY <2>1 DEF Block
<1>3. Rest(i, blocks[1])
  BY <1>1 DEF Plan
<1>4. Rest(i, next[1])
  <2>1. \A n \in DOMAIN Tail(blocks[1].ops) :
            n + 1 \in DOMAIN blocks[1].ops /\ Tail(blocks[1].ops)[n] = blocks[1].ops[n + 1]
    <3>1. blocks[1].ops \in Seq(Op) /\ blocks[1].ops # << >>
      BY <1>2
    <3>. QED
      BY ONLY <3>1, TailHas
  <2>. QED
    BY <2>1, <1>3 DEF Rest
<1>11. \A n \in DOMAIN next[1].ops : next[1].ops[n].path.kind # "png"
  <2>1. \A n \in DOMAIN Tail(blocks[1].ops) :
            n + 1 \in DOMAIN blocks[1].ops /\ Tail(blocks[1].ops)[n] = blocks[1].ops[n + 1]
            /\ n \in Nat \ {0}
    <3>1. blocks[1].ops \in Seq(Op) /\ blocks[1].ops # << >>
      BY <1>2
    <3>2. /\ Tail(blocks[1].ops) \in Seq(Op)
          /\ \A n \in DOMAIN Tail(blocks[1].ops) :
                n + 1 \in DOMAIN blocks[1].ops /\ Tail(blocks[1].ops)[n] = blocks[1].ops[n + 1]
      BY ONLY <3>1, TailHas
    <3>. QED
      BY <3>2
  <2>2. CASE h = 1
    BY <2>1, <2>2 DEF Plan
  <2>3. CASE h = 0
    <3>1. PICK image \in listed : blocks[1] = RemovalOf(image)
      <4>1. 1 > 0 + h
        BY <2>3
      <4>. QED
        BY <4>1, <1>1 DEF Plan
    <3>2. /\ DOMAIN blocks[1].ops = 1..3
          /\ blocks[1].ops[2].path = Of(image, "json") /\ blocks[1].ops[3].path = Of(image, "drawing")
      BY <3>1 DEF RemovalOf, Removal, Unlink
    <3>3. blocks[1].ops[2] \in Op /\ blocks[1].ops[3] \in Op
      BY <3>2, <1>2
    <3>4. blocks[1].ops[2].path.kind # "png" /\ blocks[1].ops[3].path.kind # "png"
      <4>1. image \in File
        BY <3>1
      <4>. QED
        BY <4>1, <3>2, OpTypes DEF Kind
    <3>5. \A n \in DOMAIN Tail(blocks[1].ops) : n + 1 = 2 \/ n + 1 = 3
      BY <2>1, <3>2
    <3>. QED
      BY <2>1, <3>4, <3>5
  <2>. QED
    BY <2>2, <2>3
<1>5. \A k \in 1..Len(next) : k > 1 => k \in 2..Len(blocks) /\ k \in 1..Len(blocks) /\ k > 0 + h /\ k > 0
  BY <1>1
<1>6. \A k \in 1..Len(next) : k = 1 \/ k > 1
  BY <1>1
<1>7. \A k \in 1..Len(next) : k > 0 => Rest(i, next[k])
  BY <1>4, <1>5, <1>6 DEF Plan
<1>8. ASSUME NEW k \in 1..Len(next), k > 0 + 1
      PROVE  \E image \in later : next[k] = RemovalOf(image)
  <2>1. k \in 1..Len(blocks) /\ k > 0 + h /\ next[k] = blocks[k] /\ k # 1
    BY <1>5, <1>8
  <2>2. PICK image \in listed : blocks[k] = RemovalOf(image)
    BY <2>1 DEF Plan
  <2>3. h = 0 => blocks[k].ops[1].path # blocks[1].ops[1].path
    BY <2>1, <1>1 DEF Plan
  <2>4. blocks[k].ops[1].path = image
    BY <2>2 DEF RemovalOf, Removal, Unlink
  <2>. QED
    BY <2>1, <2>2, <2>3, <2>4
<1>9. \A k, l \in 1..Len(next) :
        k > 0 + 1 /\ l > 0 + 1 /\ next[k].ops[1].path = next[l].ops[1].path => k = l
  BY <1>5 DEF Plan
<1>10. \A k \in 1..Len(next) : ~(k <= 0)
  BY <1>1
<1>. QED
  BY <1>1, <1>7, <1>8, <1>9, <1>10, <1>11 DEF Plan

\* An upload begins with room for what it will store.
LEMMA SubmitStores ==
  ASSUME Sound, NEW i \in Id, Submit(i)
  PROVE  Stored'
<1>. DEFINE st == Stale(StoredImage(i))
<1>1. /\ todo' \in Seq(Block) /\ Len(todo') = 3 + Len(st)
      /\ \A k \in 1..3 : todo'[k] = Saves(i)[k]
      /\ \A k \in DOMAIN todo' : k \notin 1..3 => k - 3 \in DOMAIN st /\ todo'[k] = RemovalOf(st[k - 3])
      /\ i \notin used /\ Begin("submit", {i}, todo', {})
  BY SubmitBlocks DEF RemovalOf
<1>2. /\ st \in Seq(File)
      /\ Len(st) = IF Len(newest) + 1 > Retention THEN Len(newest) + 1 - Retention ELSE 0
      /\ \A k \in DOMAIN st : k - 1 + Retention \in DOMAIN newest /\ st[k] = newest[k - 1 + Retention]
                              /\ st[k] \in Listed
  BY StaleLists
<1>. HIDE DEF st
<1>3. /\ job'.ids = {i} /\ disk' = disk /\ newest' = newest /\ faults' = faults
  BY <1>1, BeginMeans
<1>4. Listed' = Listed
  BY <1>3 DEF Listed
<1>5. /\ newest \in Seq(File) /\ \A a, b \in DOMAIN newest : newest[a] = newest[b] => a = b
      /\ \A p \in Listed : p \in File /\ p.id \in used
      /\ \A p \in DOMAIN disk : p.id \in used
  BY DEF Sound, FolderIsSound, FolderOK, IsInjective, Images
<1>6. Retention \in Nat /\ Len(newest) \in Nat /\ Len(st) \in Nat /\ faults \in Nat
      /\ DOMAIN st = 1..Len(st) /\ DOMAIN todo' = 1..Len(todo')
  <2>1. Retention \in Nat /\ faults \in Nat
    BY StoreAssumption DEF Sound, Registers
  <2>2. Len(newest) \in Nat /\ Len(st) \in Nat /\ DOMAIN st = 1..Len(st)
    BY <1>2, <1>5
  <2>3. DOMAIN todo' = 1..Len(todo')
    BY <1>1
  <2>. QED
    BY <2>1, <2>2, <2>3
<1>7. ASSUME NEW k \in 1..Len(todo'), k > 3
      PROVE  /\ k - 3 \in DOMAIN st /\ st[k - 3] \in Listed /\ todo'[k] = RemovalOf(st[k - 3])
             /\ todo'[k].ops[1].path = st[k - 3]
             /\ Rest(i, todo'[k])
  <2>1. k - 3 \in DOMAIN st /\ st[k - 3] \in Listed /\ todo'[k] = RemovalOf(st[k - 3])
    <3>1. k \in DOMAIN todo' /\ k \notin 1..3
      BY <1>6, <1>7
    <3>. QED
      BY <3>1, <1>1, <1>2
  <2>. DEFINE p == st[k - 3]
  <2>2. p \in File /\ p.id \in used /\ p.id # i
    BY <2>1, <1>1, <1>5
  <2>. HIDE DEF p
  <2>3. /\ Removal(p) \in Seq(Op) /\ Len(Removal(p)) = 3
        /\ \A n \in 1..3 : Removal(p)[n].content = "gone" /\ Removal(p)[n].path.id = p.id
    BY <2>2, RemovalIsSound
  <2>4. todo'[k].ops = Removal(p) /\ todo'[k].otherwise = "skip"
    BY <2>1 DEF p, RemovalOf
  <2>5. Rest(i, todo'[k])
    BY <2>2, <2>3, <2>4 DEF Rest
  <2>6. Removal(p)[1].path = p
    BY DEF Removal, Unlink
  <2>. QED
    BY <2>1, <2>4, <2>5, <2>6 DEF p
<1>8. ASSUME NEW k \in 1..Len(todo'), NEW l \in 1..Len(todo'), k > 3, l > 3,
             todo'[k].ops[1].path = todo'[l].ops[1].path
      PROVE  k = l
  <2>1. k - 3 \in DOMAIN st /\ l - 3 \in DOMAIN st /\ st[k - 3] = st[l - 3]
    BY <1>7, <1>8
  <2>2. (k - 3) - 1 + Retention = (l - 3) - 1 + Retention
    BY <2>1, <1>2, <1>5
  <2>. QED
    BY <2>2, <1>6
<1>9. Plan(i, 3, 0, todo', Listed')
  <2>1. 3 + 0 <= Len(todo')
    BY <1>1, <1>6
  <2>2. \A k \in 1..Len(todo') : k <= 3 => todo'[k] = Saves(i)[k + 3 - 3]
    <3>. SUFFICES ASSUME NEW k \in 1..Len(todo'), k <= 3 PROVE todo'[k] = Saves(i)[k + 3 - 3]
      OBVIOUS
    <3>1. k \in 1..3 /\ k + 3 - 3 = k
      OBVIOUS
    <3>. QED
      BY <3>1, <1>1
  <2>3. \A k \in 1..Len(todo') : k > 3 + 0 => \E image \in Listed' : todo'[k] = RemovalOf(image)
    BY <1>4, <1>7
  <2>4. \A k, l \in 1..Len(todo') :
            k > 3 + 0 /\ l > 3 + 0 /\ todo'[k].ops[1].path = todo'[l].ops[1].path => k = l
    BY <1>8
  <2>5. \A k \in 1..Len(todo') : k > 3 => Rest(i, todo'[k])
    BY <1>7
  <2>. QED
    BY <2>1, <2>2, <2>3, <2>4, <2>5 DEF Plan
<1>10. Saved(i, 3)'
  <2>1. \A p \in DOMAIN disk' : p.id # i
    BY <1>1, <1>3, <1>5
  <2>. QED
    BY <2>1 DEF Saved
<1>11. Room(3, 0)'
  <2>1. Len(newest) + 1 <= Retention + faults + Len(st)
    <3>. DEFINE m == Len(newest)
                l == Len(st)
    <3>1. m \in Nat /\ l \in Nat /\ l = IF m + 1 > Retention THEN m + 1 - Retention ELSE 0
      BY <1>2, <1>6
    <3>. HIDE DEF m, l
    <3>2. m + 1 <= Retention + faults + l
      BY <3>1, <1>6
    <3>. QED
      BY <3>2 DEF m, l
  <2>2. Len(todo') - 3 - 0 = Len(st)
    BY <1>1, <1>6
  <2>3. Len(newest') = Len(newest) /\ faults' = faults
    BY <1>3
  <2>. QED
    BY <2>1, <2>2, <2>3 DEF Room
<1>12. SubmitAt(i, 3, 0)'
  BY <1>3, <1>9, <1>10, <1>11 DEF SubmitAt
<1>. QED
  BY <1>12 DEF Stored

\* The listing loses an image only when it is removed.
LEMMA ListedStays ==
  ASSUME Sound, NEW op, Touched(op), Relisted(op)
  PROVE  /\ Listed \subseteq File
         /\ \A p \in Listed : p # op.path => p \in Listed'
         /\ op.content # "gone" \/ op.path.kind # "png" => Listed \subseteq Listed'
         /\ Len(newest') <= Len(newest) + (IF op.content = "gone" THEN 0 ELSE 1)
         /\ Len(newest') \in Nat /\ Len(newest) \in Nat
<1>1. Listed = Images /\ Listed' = Images' /\ DOMAIN disk \subseteq File
  BY DEF Sound, FolderIsSound, FolderOK, Relisted
<1>2. \A p \in File : p # op.path => (p \in DOMAIN disk' <=> p \in DOMAIN disk)
  BY DEF Touched
<1>3. op.path \in DOMAIN disk' <=> op.content # "gone"
  BY DEF Touched
<1>4. Listed \subseteq File
  BY <1>1 DEF Images
<1>5. \A p \in Listed : p # op.path => p \in Listed'
  BY <1>1, <1>2 DEF Images
<1>6. op.content # "gone" \/ op.path.kind # "png" => Listed \subseteq Listed'
  BY <1>1, <1>2, <1>3 DEF Images
<1>7. Len(newest') \in Nat /\ Len(newest) \in Nat
  <2>1. newest' \in Seq(File) /\ newest \in Seq(File)
    BY DEF Relisted, Sound, FolderIsSound, FolderOK
  <2>. QED
    BY <2>1
<1>8. Len(newest') <= Len(newest) + (IF op.content = "gone" THEN 0 ELSE 1)
  <2>1. CASE op.path.kind # "png"
    <3>1. newest' = newest
      BY <2>1 DEF Relisted
    <3>. QED
      BY <3>1, <1>7
  <2>2. CASE op.path.kind = "png" /\ op.content # "gone"
    <3>1. Len(newest') = IF op.path \in Listed THEN Len(newest) ELSE Len(newest) + 1
      BY <2>2 DEF Relisted
    <3>. QED
      BY <3>1, <1>7, <2>2
  <2>3. CASE op.path.kind = "png" /\ op.content = "gone"
    <3>1. Len(newest') = IF op.path \in Listed THEN Len(newest) - 1 ELSE Len(newest)
      BY <2>3 DEF Relisted
    <3>. QED
      BY <3>1, <1>7, <2>3
  <2>. QED
    BY <2>1, <2>2, <2>3
<1>. QED
  BY <1>4, <1>5, <1>6, <1>7, <1>8

\* What is stored of planet i stays as it is while other files are touched.
LEMMA StoredStays ==
  ASSUME Sound, NEW i \in Id, NEW op, Touched(op),
         op.path # StoredImage(i), op.path # Of(StoredImage(i), "json"),
         op.path # Of(StoredImage(i), "drawing")
  PROVE  /\ IsDrawn(StoredImage(i)) => IsDrawn(StoredImage(i))'
         /\ Of(StoredImage(i), "json") \in DOMAIN disk => Of(StoredImage(i), "json") \in DOMAIN disk'
         /\ IsDrawn(Of(StoredImage(i), "drawing")) => IsDrawn(Of(StoredImage(i), "drawing"))'
<1>. DEFINE image == StoredImage(i)
            json == Of(image, "json")
            drawing == Of(image, "drawing")
<1>1. image \in File
  BY StoredImageHas
<1>. HIDE DEF image
<1>2. json \in File /\ drawing \in File
  BY <1>1, OpTypes DEF Kind
<1>3. op.path # image /\ op.path # json /\ op.path # drawing
  BY DEF image
<1>. HIDE DEF json, drawing
<1>4. /\ IsDrawn(image) => IsDrawn(image)'
      /\ json \in DOMAIN disk => json \in DOMAIN disk'
      /\ IsDrawn(drawing) => IsDrawn(drawing)'
  BY <1>1, <1>2, <1>3 DEF Touched, IsDrawn
<1>. QED
  BY <1>4 DEF image, json, drawing

\* The three files of an upload.
LEMMA StoredFiles ==
  ASSUME NEW i \in Id
  PROVE  /\ StoredImage(i) \in File /\ Of(StoredImage(i), "json") \in File
         /\ Of(StoredImage(i), "drawing") \in File
         /\ StoredImage(i).id = i /\ Of(StoredImage(i), "json").id = i
         /\ Of(StoredImage(i), "drawing").id = i
         /\ StoredImage(i).kind = "png" /\ Of(StoredImage(i), "json").kind = "json"
         /\ Of(StoredImage(i), "drawing").kind = "drawing"
         /\ Of(StoredImage(i), "json").stem = StoredImage(i).stem
         /\ Of(StoredImage(i), "drawing").stem = StoredImage(i).stem
<1>1. StoredImage(i) \in File /\ StoredImage(i).id = i /\ StoredImage(i).kind = "png"
  BY StoredImageHas
<1>. QED
  BY <1>1, OpTypes DEF Kind

\* A file of the upload is written.
LEMMA SaveSteps ==
  ASSUME Sound, NEW i \in Id, NEW s \in 1..3, NEW h \in 0..1, SubmitAt(i, s, h), Step
  PROVE  SubmitAt(i, s - 1, 0)'
<1>1. /\ Advances /\ Touched(Now[1]) /\ Relisted(Now[1]) /\ todo # << >> /\ job' = job
      /\ faults' = faults
  BY StepAdvances DEF Step
<1>2. /\ todo \in Seq(Block) /\ Now = todo[1].ops /\ Len(todo) \in Nat /\ 1 \in 1..Len(todo)
  BY <1>1, NowIsFirst DEF Sound, BlocksAreSound
<1>3. h = 0 /\ 1 <= s /\ s # 0 /\ s \in 0..3
  BY DEF SubmitAt, Plan
<1>4. todo[1] = Saves(i)[1 + 3 - s]
  BY <1>2, <1>3 DEF SubmitAt, Plan
<1>5. 4 - s \in 1..3 /\ 1 + 3 - s = 4 - s
  OBVIOUS
<1>6. Len(Now) = 1 /\ Now[1] = Saves(i)[4 - s].ops[1] /\ Now[1].content # "gone" /\ Now[1].path.id = i
  BY <1>2, <1>4, <1>5, SavesWrite
<1>7. todo' = Tail(todo) /\ Len(todo') = Len(todo) - 1
  BY <1>1, <1>2, <1>6, TailHas DEF Advances
<1>8. Plan(i, s - 1, 0, todo', Listed')
  <2>1. Plan(i, IF s = 0 THEN 0 ELSE s - 1, 0, todo', Listed)
    <3>1. Plan(i, s, h, todo, Listed)
      BY DEF SubmitAt
    <3>. QED
      BY <3>1, <1>1, <1>2, <1>3, <1>7, PlanTail
  <2>2. Plan(i, s - 1, 0, todo', Listed)
    BY <2>1, <1>3
  <2>3. Listed \subseteq Listed'
    BY <1>1, <1>6, ListedStays
  <2>4. s - 1 \in 0..3 /\ 0 \in 0..1
    OBVIOUS
  <2>. QED
    BY <2>2, <2>3, <2>4, PlanKeeps
<1>. DEFINE image == StoredImage(i)
            json == Of(image, "json")
            drawing == Of(image, "drawing")
<1>9. /\ image.kind = "png" /\ json.kind = "json" /\ drawing.kind = "drawing"
      /\ image # json /\ image # drawing /\ json # drawing
  <2>1. image.kind = "png" /\ json.kind = "json" /\ drawing.kind = "drawing"
    BY StoredFiles
  <2>. QED
    BY <2>1
<1>10. CASE s = 3
  <2>1. Now[1] = Write(image, "intact")
    BY <1>6, <1>10, SavesWrite
  <2>2. Now[1].path = image /\ Now[1].content = "intact"
    BY <2>1 DEF Write
  <2>. HIDE DEF image
  <2>3. newest' # << >> /\ newest'[1] = image
    BY <2>2, <1>1, <1>9 DEF Relisted
  <2>4. IsDrawn(image)'
    BY <2>2, <1>1 DEF Touched, IsDrawn
  <2>5. Saved(i, 2)'
    BY <2>3, <2>4 DEF Saved, image
  <2>6. Room(2, 0)'
    <3>1. Len(newest) + 1 <= Retention + faults + (Len(todo) - 3 - 0)
      BY <1>3, <1>10 DEF SubmitAt, Room
    <3>2. Len(newest') <= Len(newest) + 1 /\ Len(newest') \in Nat /\ Len(newest) \in Nat
      BY <1>1, <1>6, ListedStays
    <3>3. Retention + faults + (Len(todo) - 3 - 0) = Retention + faults + (Len(todo') - 2 - 0)
      BY <1>2, <1>7
    <3>4. Retention + faults + (Len(todo) - 3 - 0) \in Int
      BY <1>2, StoreAssumption DEF Sound, Registers
    <3>5. Len(newest') + 0 <= Retention + faults' + (Len(todo') - 2 - 0)
      BY <3>1, <3>2, <3>3, <3>4, <1>1
    <3>. QED
      BY <3>5 DEF Room
  <2>7. job'.ids = {i}
    BY <1>1 DEF SubmitAt
  <2>. QED
    BY <2>5, <2>6, <2>7, <1>8, <1>10 DEF SubmitAt
<1>11. CASE s # 3
  <2>1. s = 2 \/ s = 1
    BY <1>11
  <2>2. Now[1].path \in {json, drawing} /\ Now[1].path # image /\ Now[1].path.kind # "png"
    <3>1. /\ s = 2 => Now[1] = Write(json, "named")
          /\ s = 1 => Now[1] = Write(drawing, "intact")
      BY <1>6, SavesWrite
    <3>2. /\ s = 2 => Now[1].path = json
          /\ s = 1 => Now[1].path = drawing
      BY <3>1 DEF Write
    <3>. HIDE DEF image, json, drawing
    <3>. QED
      BY <2>1, <3>2, <1>9
  <2>3. /\ newest # << >> /\ newest[1] = image /\ IsDrawn(image)
        /\ s = 1 /\ faults = 0 => json \in DOMAIN disk
    BY <2>1 DEF SubmitAt, Saved
  <2>4. newest' = newest
    BY <2>2, <1>1 DEF Relisted
  <2>5. image \in File /\ json \in File
    BY StoredFiles
  <2>. HIDE DEF image, json, drawing
  <2>6. IsDrawn(image)'
    BY <2>2, <2>3, <2>5, <1>1 DEF Touched, IsDrawn
  <2>7. ASSUME s = 2 PROVE Saved(i, s - 1)'
    <3>1. Now[1] = Write(json, "named")
      BY <1>6, <2>7, SavesWrite DEF json, image
    <3>2. json \in DOMAIN disk'
      <4>1. Now[1].path = json
        BY <3>1 DEF Write
      <4>. QED
        BY <4>1, <1>1, <1>6 DEF Touched
    <3>3. Saved(i, 1)'
      BY <2>3, <2>4, <2>6, <3>2 DEF Saved, image, json
    <3>. QED
      BY <3>3, <2>7
  <2>8. ASSUME s = 1 PROVE Saved(i, s - 1)'
    <3>1. Now[1] = Write(drawing, "intact")
      BY <1>6, <2>8, SavesWrite DEF drawing, image
    <3>2. Now[1].path = drawing /\ Now[1].content = "intact"
      BY <3>1 DEF Write
    <3>3. IsDrawn(drawing)'
      BY <3>2, <1>1 DEF Touched, IsDrawn
    <3>4. json \in DOMAIN disk => json \in DOMAIN disk'
      BY <2>5, <3>2, <1>1, <1>9 DEF Touched
    <3>5. faults' = 0 => json \in DOMAIN disk'
      BY <2>3, <2>8, <3>4, <1>1
    <3>6. Saved(i, 0)'
      BY <2>3, <2>4, <2>6, <3>3, <3>5 DEF Saved, image, json, drawing
    <3>. QED
      BY <3>6, <2>8
  <2>9. Room(s - 1, 0)'
    <3>1. Len(newest) + 0 <= Retention + faults + (Len(todo) - s - 0)
      BY <1>3, <1>11 DEF SubmitAt, Room
    <3>2. Len(todo) - s - 0 = Len(todo') - (s - 1) - 0
      BY <1>2, <1>7
    <3>3. s - 1 # 3
      OBVIOUS
    <3>. QED
      BY <3>1, <3>2, <3>3, <2>4, <1>1 DEF Room
  <2>10. job'.ids = {i}
    BY <1>1 DEF SubmitAt
  <2>. QED
    BY <2>1, <2>7, <2>8, <2>9, <2>10, <1>8 DEF SubmitAt
<1>. QED
  BY <1>10, <1>11

\* The operation under way of a removal, and what its planet is not.
LEMMA RestIsAway ==
  ASSUME Sound, NEW i \in Id, NEW h \in 0..1, SubmitAt(i, 0, h), todo # << >>
  PROVE  /\ Now[1].content = "gone" /\ Now[1].path.id # i /\ todo[1].otherwise = "skip"
         /\ h = 0 => \E image \in Listed : todo[1] = RemovalOf(image)
         /\ h = 1 => Now[1].path.kind # "png"
<1>1. /\ todo \in Seq(Block) /\ Now = todo[1].ops /\ 1 \in 1..Len(todo) /\ 1 \in DOMAIN Now
  BY NowIsFirst DEF Sound, BlocksAreSound
<1>2. Plan(i, 0, h, todo, Listed)
  BY DEF SubmitAt
<1>3. Rest(i, todo[1])
  BY <1>1, <1>2 DEF Plan
<1>4. ASSUME h = 0 PROVE \E image \in Listed : todo[1] = RemovalOf(image)
  <2>1. 1 > 0 + h
    BY <1>4
  <2>. QED
    BY <2>1, <1>1, <1>2 DEF Plan
<1>5. ASSUME h = 1 PROVE Now[1].path.kind # "png"
  BY <1>1, <1>2, <1>5 DEF Plan
<1>. QED
  BY <1>1, <1>3, <1>4, <1>5 DEF Rest

\* A file of another planet is removed.
LEMMA RestSteps ==
  ASSUME Sound, NEW i \in Id, NEW h \in 0..1, SubmitAt(i, 0, h), Step
  PROVE  \E g \in 0..1 : SubmitAt(i, 0, g)'
<1>1. /\ Advances /\ Touched(Now[1]) /\ Relisted(Now[1]) /\ todo # << >> /\ job' = job
      /\ faults' = faults
  BY StepAdvances DEF Step
<1>2. /\ todo \in Seq(Block) /\ Now = todo[1].ops /\ Len(todo) \in Nat /\ 1 \in 1..Len(todo)
      /\ Now # << >> /\ Now \in Seq(Op) /\ todo' \in Seq(Block)
  BY <1>1, NowIsFirst DEF Sound, BlocksAreSound, Advances
<1>3. /\ Now[1].content = "gone" /\ Now[1].path.id # i /\ todo[1].otherwise = "skip"
      /\ h = 0 => \E image \in Listed : todo[1] = RemovalOf(image)
      /\ h = 1 => Now[1].path.kind # "png"
  BY <1>1, RestIsAway
<1>4. /\ Listed \subseteq File
      /\ \A p \in Listed : p # Now[1].path => p \in Listed'
      /\ h = 1 => Listed \subseteq Listed'
      /\ Len(newest') <= Len(newest) + 0 /\ Len(newest') \in Nat /\ Len(newest) \in Nat
  BY <1>1, <1>3, ListedStays
<1>5. Plan(i, 0, h, todo, Listed) /\ Saved(i, 0) /\ Room(0, h) /\ job.ids = {i}
  BY DEF SubmitAt
<1>6. Saved(i, 0)'
  <2>1. /\ newest # << >> /\ newest[1] = StoredImage(i) /\ IsDrawn(StoredImage(i))
        /\ faults = 0 => Of(StoredImage(i), "json") \in DOMAIN disk
        /\ IsDrawn(Of(StoredImage(i), "drawing"))
    BY <1>5 DEF Saved
  <2>2. /\ Now[1].path # StoredImage(i) /\ Now[1].path # Of(StoredImage(i), "json")
        /\ Now[1].path # Of(StoredImage(i), "drawing")
    BY <1>3, StoredFiles
  <2>3. newest' # << >> /\ newest'[1] = StoredImage(i)
    BY <2>1, <2>2, <1>1, <1>3 DEF Relisted
  <2>4. /\ IsDrawn(StoredImage(i))'
        /\ faults' = 0 => Of(StoredImage(i), "json") \in DOMAIN disk'
        /\ IsDrawn(Of(StoredImage(i), "drawing"))'
    BY <2>1, <2>2, <1>1, StoredStays
  <2>. QED
    BY <2>3, <2>4 DEF Saved
<1>7. Retention + faults + (Len(todo) - 0 - h) \in Int
  BY <1>2, StoreAssumption DEF Sound, Registers
<1>8. Len(newest) <= Retention + faults + (Len(todo) - 0 - h)
  BY <1>5 DEF Room
<1>9. CASE h = 0
  <2>1. PICK image \in Listed : todo[1] = RemovalOf(image)
    BY <1>3, <1>9
  <2>2. Now[1].path = image /\ Len(Now) = 3
    BY <2>1, <1>2 DEF RemovalOf, Removal, Unlink
  <2>3. /\ Len(todo') = Len(todo) /\ todo'[1].ops = Tail(todo[1].ops)
        /\ todo'[1].otherwise = todo[1].otherwise
        /\ \A k \in 2..Len(todo) : todo'[k] = todo[k]
    BY <2>2, <1>1, <1>2 DEF Advances
  <2>4. Plan(i, 0, 1, todo', Listed')
    BY <2>3, <1>1, <1>2, <1>4, <1>5, PlanLess
  <2>5. image.kind = "png" /\ image \in File
    BY <2>1 DEF Sound, FolderIsSound, FolderOK, Images
  <2>6. Len(newest') = Len(newest) - 1
    BY <2>1, <2>2, <2>5, <1>1, <1>3 DEF Relisted
  <2>7. Len(newest') + 0 <= Retention + faults' + (Len(todo') - 0 - 1)
    <3>. DEFINE l == Len(newest)
                n == Len(todo)
    <3>1. l \in Nat /\ n \in Nat /\ Len(newest') = l - 1 /\ Len(todo') = n /\ faults' = faults
          /\ Retention \in Nat /\ faults \in Nat /\ l <= Retention + faults + (n - 0 - h)
      BY <1>1, <1>2, <1>4, <1>8, <2>3, <2>6, StoreAssumption DEF Sound, Registers
    <3>. HIDE DEF l, n
    <3>2. (l - 1) + 0 <= Retention + faults + (n - 0 - 1)
      BY <3>1, <1>9
    <3>. QED
      BY <3>1, <3>2
  <2>8. Room(0, 1)'
    BY <2>7 DEF Room
  <2>9. SubmitAt(i, 0, 1)'
    BY <2>4, <2>8, <1>1, <1>5, <1>6 DEF SubmitAt
  <2>. QED
    BY <2>9
<1>10. CASE h = 1 /\ Len(Now) # 1
  <2>1. /\ Len(todo') = Len(todo) /\ todo'[1].ops = Tail(todo[1].ops)
        /\ todo'[1].otherwise = todo[1].otherwise
        /\ \A k \in 2..Len(todo) : todo'[k] = todo[k]
    BY <1>1, <1>2, <1>10 DEF Advances
  <2>2. Plan(i, 0, 1, todo', Listed')
    BY <2>1, <1>1, <1>2, <1>4, <1>5, PlanLess
  <2>3. Len(newest') + 0 <= Retention + faults' + (Len(todo') - 0 - 1)
    BY <2>1, <1>1, <1>4, <1>7, <1>8, <1>10
  <2>4. Room(0, 1)'
    BY <2>3 DEF Room
  <2>5. SubmitAt(i, 0, 1)'
    BY <2>2, <2>4, <1>1, <1>5, <1>6 DEF SubmitAt
  <2>. QED
    BY <2>5
<1>11. CASE h = 1 /\ Len(Now) = 1
  <2>1. todo' = Tail(todo) /\ Len(todo') = Len(todo) - 1
    BY <1>1, <1>2, <1>11, TailHas DEF Advances
  <2>2. Plan(i, 0, 0, todo', Listed)
    <3>1. 0 \in 0..3 /\ Plan(i, IF 0 = 0 THEN 0 ELSE 0 - 1, 0, Tail(todo), Listed)
      BY <1>1, <1>2, <1>5, PlanTail
    <3>. QED
      BY <3>1, <2>1
  <2>3. Plan(i, 0, 0, todo', Listed')
    <3>1. Listed \subseteq Listed' /\ 0 \in 0..3 /\ 0 \in 0..1
      BY <1>4, <1>11
    <3>. QED
      BY <3>1, <2>2, PlanKeeps
  <2>4. Len(newest') + 0 <= Retention + faults' + (Len(todo') - 0 - 0)
    <3>1. Retention + faults + (Len(todo) - 0 - h) = Retention + faults' + (Len(todo') - 0 - 0)
      BY <2>1, <1>1, <1>2, <1>11
    <3>. QED
      BY <3>1, <1>4, <1>7, <1>8
  <2>5. Room(0, 0)'
    BY <2>4 DEF Room
  <2>6. SubmitAt(i, 0, 0)'
    BY <2>3, <2>5, <1>1, <1>5, <1>6 DEF SubmitAt
  <2>. QED
    BY <2>6
<1>. QED
  BY <1>9, <1>10, <1>11

\* Metadata that cannot be written, or a planet that cannot be removed, is left behind.
LEMMA StoredFails ==
  ASSUME Sound, Stored, job.op = "submit", Fail
  PROVE  Stored'
<1>1. /\ todo # << >> /\ OpIsSound(Now[1], used) /\ Interrupted(Now[1]) /\ 1 \in DOMAIN todo
      /\ job' = job /\ faults' = faults + 1 /\ outcome = "running"
      /\ \/ todo[1].otherwise = "skip" /\ todo' = Tail(todo)
         \/ outcome' = "failed"
  BY FailLeaves
<1>. SUFFICES ASSUME todo[1].otherwise = "skip", todo' = Tail(todo) PROVE Stored'
  BY <1>1 DEF Stored
<1>2. PICK i \in Id, s \in 0..3, h \in 0..1 : SubmitAt(i, s, h)
  BY <1>1 DEF Stored
<1>3. Plan(i, s, h, todo, Listed) /\ Saved(i, s) /\ Room(s, h) /\ job.ids = {i}
  BY <1>2 DEF SubmitAt
<1>4. /\ todo \in Seq(Block) /\ Now = todo[1].ops /\ Len(todo) \in Nat /\ 1 \in 1..Len(todo)
      /\ Len(todo') = Len(todo) - 1
  BY <1>1, NowIsFirst, TailHas DEF Sound, BlocksAreSound
<1>5. faults \in Nat /\ faults' = faults + 1 /\ faults' # 0 /\ Retention \in Nat
  BY <1>1, StoreAssumption DEF Sound, Registers
<1>6. Plan(i, IF s = 0 THEN 0 ELSE s - 1, 0, todo', Listed)
  BY <1>1, <1>3, <1>4, PlanTail
<1>7. CASE s # 0
  <2>1. s \in 1..3 /\ h = 0
    BY <1>3, <1>7 DEF Plan
  <2>2. todo[1] = Saves(i)[1 + 3 - s] /\ 4 - s \in 1..3 /\ 1 + 3 - s = 4 - s
    BY <2>1, <1>3, <1>4 DEF Plan
  <2>3. s = 2
    <3>1. Saves(i)[1].otherwise = "abort" /\ Saves(i)[3].otherwise = "abort"
      BY SavesWrite
    <3>2. s = 1 \/ s = 2 \/ s = 3
      BY <2>1
    <3>3. s = 1 => 1 + 3 - s = 3
      OBVIOUS
    <3>4. s = 3 => 1 + 3 - s = 1
      OBVIOUS
    <3>. QED
      BY <3>1, <3>2, <3>3, <3>4, <2>2
  <2>. DEFINE image == StoredImage(i)
              json == Of(image, "json")
  <2>4. Now[1] = Write(json, "named")
    <3>1. 1 + 3 - s = 2
      BY <2>3
    <3>. QED
      BY <3>1, <2>2, <1>4, SavesWrite
  <2>5. json.kind = "json" /\ image.kind = "png" /\ image \in File
    BY StoredFiles
  <2>6. newest # << >> /\ newest[1] = image /\ IsDrawn(image)
    BY <2>3, <1>3 DEF Saved
  <2>. HIDE DEF image, json
  <2>7. Now[1].path = json /\ json # image
    BY <2>4, <2>5 DEF Write
  <2>8. newest' = newest /\ IsDrawn(image)' /\ Listed \subseteq Listed'
    <3>1. CASE disk' = disk /\ newest' = newest
      BY <3>1, <2>6 DEF IsDrawn, Listed
    <3>2. CASE Touched(Write(Now[1].path, "torn")) /\ Relisted(Write(Now[1].path, "torn"))
      <4>. DEFINE op == Write(Now[1].path, "torn")
      <4>1. op.path = json /\ op.content = "torn" /\ Touched(op) /\ Relisted(op)
        BY <3>2, <2>7 DEF Write
      <4>. HIDE DEF op
      <4>2. newest' = newest
        BY <4>1, <2>5 DEF Relisted
      <4>3. IsDrawn(image)'
        BY <4>1, <2>5, <2>6, <2>7 DEF Touched, IsDrawn
      <4>. QED
        BY <4>2, <4>3 DEF Listed
    <3>. QED
      BY <3>1, <3>2, <1>1, InterruptTouches DEF Sound, FolderIsSound
  <2>9. Saved(i, 1)'
    BY <2>6, <2>8, <1>5 DEF Saved, image
  <2>10. Plan(i, 1, 0, todo', Listed')
    <3>1. Plan(i, 1, 0, todo', Listed) /\ 1 \in 0..3 /\ 0 \in 0..1
      BY <2>3, <1>6
    <3>. QED
      BY <3>1, <2>8, PlanKeeps
  <2>11. Len(newest) + 0 <= Retention + faults + (Len(todo) - 2 - 0)
    BY <2>1, <2>3, <1>3 DEF Room
  <2>12. Len(newest) \in Nat
    BY RunningMeans
  <2>13. Len(newest') + 0 <= Retention + faults' + (Len(todo') - 1 - 0)
    <3>. DEFINE n == Len(todo)
                l == Len(newest)
    <3>1. l + 0 <= Retention + faults + (n - 2 - 0) /\ n \in Nat /\ l \in Nat
          /\ Len(todo') = n - 1 /\ Len(newest') = l
      BY <2>8, <2>11, <2>12, <1>4
    <3>. HIDE DEF n, l
    <3>2. l + 0 <= Retention + (faults + 1) + ((n - 1) - 1 - 0)
      BY <3>1, <1>5
    <3>. QED
      BY <3>1, <3>2, <1>5
  <2>14. Room(1, 0)'
    BY <2>13 DEF Room
  <2>15. SubmitAt(i, 1, 0)'
    BY <2>9, <2>10, <2>14, <1>1, <1>3 DEF SubmitAt
  <2>. QED
    BY <2>15 DEF Stored
<1>8. CASE s = 0
  <2>1. Now[1].content = "gone"
    BY <1>1, <1>2, <1>8, RestIsAway
  <2>2. disk' = disk /\ newest' = newest
    BY <2>1, <1>1 DEF Interrupted
  <2>3. Listed' = Listed
    BY <2>2 DEF Listed
  <2>4. Saved(i, 0)'
    BY <2>2, <1>3, <1>5, <1>8 DEF Saved, IsDrawn
  <2>5. Plan(i, 0, 0, todo', Listed')
    BY <2>3, <1>6, <1>8
  <2>6. Len(newest) + 0 <= Retention + faults + (Len(todo) - 0 - h)
    BY <1>3, <1>8 DEF Room
  <2>7. Len(newest) \in Nat
    BY RunningMeans
  <2>8. Len(newest') + 0 <= Retention + faults' + (Len(todo') - 0 - 0)
    <3>. DEFINE n == Len(todo)
                l == Len(newest)
    <3>1. l + 0 <= Retention + faults + (n - 0 - h) /\ n \in Nat /\ l \in Nat
          /\ Len(todo') = n - 1 /\ Len(newest') = l
      BY <2>2, <2>6, <2>7, <1>4
    <3>. HIDE DEF n, l
    <3>2. l + 0 <= Retention + (faults + 1) + ((n - 1) - 0 - 0)
      BY <3>1, <1>5
    <3>. QED
      BY <3>1, <3>2, <1>5
  <2>9. Room(0, 0)'
    BY <2>8 DEF Room
  <2>10. SubmitAt(i, 0, 0)'
    BY <2>4, <2>5, <2>9, <1>1, <1>3 DEF SubmitAt
  <2>. QED
    BY <2>10 DEF Stored
<1>. QED
  BY <1>7, <1>8

\* Every step keeps an upload on its way to be whole and within the retention.
LEMMA StoredSteps == Sound /\ Lists /\ Stored /\ [StoreNext]_storeVars => Stored'
<1>. SUFFICES ASSUME Sound, Lists, Stored, [StoreNext]_storeVars PROVE Stored'
  OBVIOUS
<1>1. ASSUME NEW i \in Id, Submit(i) PROVE Stored'
  BY <1>1, SubmitStores
<1>2. ASSUME job'.op # "submit" PROVE Stored'
  BY <1>2 DEF Stored
<1>3. ASSUME NEW i \in Id, Delete(i) PROVE job'.op # "submit"
  <2>1. PICK p \in Listed :
            Begin("delete", {i}, <<[ops |-> Removal(p), otherwise |-> "abort"]>>, {})
    BY <1>3, DeletePlans
  <2>. DEFINE blocks == <<[ops |-> Removal(p), otherwise |-> "abort"]>>
  <2>2. Begin("delete", {i}, blocks, {})
    BY <2>1
  <2>. HIDE DEF blocks
  <2>. QED
    BY <2>2, BeginMeans
<1>4. CASE ClearPlanets
  BY <1>2, <1>4, BeginMeans DEF ClearPlanets
<1>5. CASE ClearNames
  BY <1>2, <1>5, ClearNamesPlans, BeginMeans
<1>6. ASSUME NEW g \in groups, ClearGroup(g) PROVE Stored'
  <2>1. job.op = "clear_names" /\ job'.op = job.op
    BY <1>6, ClearGroupPlans
  <2>. QED
    BY <2>1, <1>2
<1>7. CASE Step
  <2>1. job' = job /\ outcome = "running"
    BY <1>7 DEF Step, Sound, Registers, AtRest
  <2>2. CASE job.op = "submit"
    <3>1. PICK i \in Id, s \in 0..3, h \in 0..1 : SubmitAt(i, s, h)
      BY <2>1, <2>2 DEF Stored
    <3>2. CASE s = 0
      BY <3>1, <3>2, <1>7, RestSteps DEF Stored
    <3>3. CASE s # 0
      <4>1. s \in 1..3 /\ s - 1 \in 0..3
        BY <3>3
      <4>2. SubmitAt(i, s - 1, 0)'
        BY <4>1, <3>1, <1>7, SaveSteps
      <4>. QED
        BY <4>1, <4>2 DEF Stored
    <3>. QED
      BY <3>2, <3>3
  <2>. QED
    BY <2>1, <2>2, <1>2
<1>8. CASE Fail
  <2>1. job' = job
    BY <1>8, FailLeaves
  <2>. QED
    BY <2>1, <1>2, <1>8, StoredFails
<1>9. CASE Crash
  BY <1>9, CrashLeaves DEF Stored
<1>10. CASE UNCHANGED storeVars
  <2>1. UNCHANGED <<disk, newest, todo, job, outcome, faults>>
    BY <1>10 DEF storeVars
  <2>2. Listed' = Listed /\ \A p : IsDrawn(p)' <=> IsDrawn(p)
    BY <2>1 DEF Listed, IsDrawn
  <2>3. \A i \in Id, s \in 0..3, h \in 0..1 : SubmitAt(i, s, h) => SubmitAt(i, s, h)'
    BY <2>1, <2>2 DEF SubmitAt, Saved, Room
  <2>. QED
    BY <2>1, <2>3 DEF Stored
<1>. QED
  BY <1>1, <1>2, <1>3, <1>4, <1>5, <1>6, <1>7, <1>8, <1>9, <1>10 DEF StoreNext

\* An accepted upload leaves no more images than the retention, whatever earlier crashes
\* duplicated; each removal that failed leaves one more (_prune).
THEOREM RetentionAlwaysHolds == StoreSpec => []RetentionHolds
<1>1. StoreInit => Sound /\ Lists /\ Stored
  BY SoundStarts DEF StoreInit, Stored
<1>2. Sound /\ Lists /\ [StoreNext]_storeVars => Sound' /\ Lists'
  BY SoundSteps
<1>3. Sound /\ Lists /\ Stored /\ [StoreNext]_storeVars => Stored'
  BY StoredSteps
<1>4. Sound /\ Stored => RetentionHolds
  <2>. SUFFICES ASSUME Sound, Stored, job.op = "submit", outcome = "ok"
                PROVE  Len(newest) <= Retention + faults
    BY DEF RetentionHolds
  <2>1. todo = << >>
    BY DEF Sound, Registers, AtRest
  <2>2. PICK i \in Id, s \in 0..3, h \in 0..1 : SubmitAt(i, s, h)
    BY DEF Stored
  <2>3. Len(todo) = 0
    BY <2>1
  <2>4. s = 0 /\ h = 0
    BY <2>2, <2>3 DEF SubmitAt, Plan
  <2>5. Len(newest) + 0 <= Retention + faults + (0 - 0 - 0)
    BY <2>2, <2>3, <2>4 DEF SubmitAt, Room
  <2>6. Len(newest) \in Nat
    BY RunningMeans
  <2>. QED
    BY <2>5, <2>6, StoreAssumption DEF Sound, Registers
<1>. QED
  BY <1>1, <1>2, <1>3, <1>4, PTL DEF StoreSpec
------------------------------------------------------------------------------

(* While nothing fails the folder holds whole planets, but for the one that  *)
(* the running block is about.                                               *)

WholeAt(p) ==
    /\ \A k \in Kind : Of(p, k) \in DOMAIN disk
    /\ \A q \in DOMAIN disk : q.id = p.id => q.stem = p.stem

Busy(i) == todo # << >> /\ Now[1].path.id = i

RestIsWhole == \A p \in DOMAIN disk : Busy(p.id) \/ WholeAt(p)

\* Of these files a block of removals leaves none of its planet.
Swept(b, files) ==
    b.ops[1].content = "gone" =>
        \A p \in files : p.id = b.ops[1].path.id => \E n \in DOMAIN b.ops : b.ops[n] = Unlink(p)

RemovalsAreWhole == \A k \in DOMAIN todo : Swept(todo[k], DOMAIN disk)

\* A planet has one group; the group under way is of another planet, and leaves it whole.
GroupsAreWhole ==
    /\ \A g, h \in groups : g.id = h.id => g = h
    /\ \A g \in groups : \A p \in DOMAIN disk : p.id = g.id => p \in g.paths
    /\ \A i \in Id : Busy(i) =>
        /\ \A g \in groups : g.id # i
        /\ \A k \in Kind : Neutral(i, k) \in DOMAIN disk \/ Comes(Neutral(i, k))

Whole ==
    faults = 0 =>
        /\ RestIsWhole
        /\ job.op # "clear_names" => RemovalsAreWhole
        /\ job.op = "clear_names" => GroupsAreWhole

\* When no plan is left every planet is whole.
LEMMA AllIsWhole ==
  ASSUME RestIsWhole, todo = << >>, NEW p \in DOMAIN disk
  PROVE  WholeAt(p)
  BY DEF RestIsWhole, Busy

\* An operation on another planet leaves a whole planet whole.
LEMMA WholeElsewhere ==
  ASSUME Sound, NEW op, op \in Op, Touched(op), NEW p \in DOMAIN disk, WholeAt(p), p.id # op.path.id
  PROVE  WholeAt(p)'
<1>1. p \in File /\ DOMAIN disk \subseteq File /\ DOMAIN disk' \subseteq File
  BY DEF Sound, FolderIsSound, FolderOK, Touched
<1>2. ASSUME NEW k \in Kind PROVE Of(p, k) \in DOMAIN disk'
  <2>1. Of(p, k) \in File /\ Of(p, k).id = p.id /\ Of(p, k) \in DOMAIN disk
    BY <1>1, OpTypes DEF WholeAt
  <2>2. Of(p, k) # op.path
    BY <2>1
  <2>. QED
    BY <2>1, <2>2 DEF Touched
<1>3. ASSUME NEW q \in DOMAIN disk', q.id = p.id PROVE q.stem = p.stem
  <2>1. q \in File /\ q # op.path
    BY <1>1, <1>3
  <2>2. q \in DOMAIN disk
    BY <2>1 DEF Touched
  <2>. QED
    BY <2>2, <1>3 DEF WholeAt
<1>. QED
  BY <1>2, <1>3 DEF WholeAt

\* A removal leaves nothing of a whole planet.
LEMMA RemovalSweeps ==
  ASSUME Sound, NEW image \in DOMAIN disk, image.kind = "png", WholeAt(image), NEW otherwise
  PROVE  Swept([ops |-> Removal(image), otherwise |-> otherwise], DOMAIN disk)
<1>1. image \in File /\ DOMAIN disk \subseteq File
  BY DEF Sound, FolderIsSound, FolderOK
<1>. DEFINE ops == Removal(image)
<1>2. /\ DOMAIN ops = 1..3
      /\ ops[1] = Unlink(image) /\ ops[2] = Unlink(Of(image, "json")) /\ ops[3] = Unlink(Of(image, "drawing"))
  BY DEF Removal
<1>3. ops[1].path = image
  BY <1>2 DEF Unlink
<1>. HIDE DEF ops
<1>4. ASSUME NEW p \in DOMAIN disk, p.id = image.id PROVE \E n \in DOMAIN ops : ops[n] = Unlink(p)
  <2>1. p \in File /\ p.stem = image.stem /\ p.kind \in {"png", "json", "drawing"}
    BY <1>1, <1>4 DEF WholeAt, File, Kind
  <2>2. p = Of(image, p.kind)
    <3>1. p.kind \in Kind
      BY <2>1 DEF Kind
    <3>2. Of(image, p.kind) \in File /\ Of(image, p.kind).id = image.id /\ Of(image, p.kind).stem = image.stem
          /\ Of(image, p.kind).kind = p.kind
      BY <3>1, <1>1, OpTypes
    <3>. QED
      BY <3>2, <2>1, <1>4, SameFile
  <2>3. CASE p.kind = "png"
    <3>1. p = image
      BY <2>1, <2>3, <1>1, <1>4, SameFile
    <3>. QED
      BY <3>1, <1>2
  <2>4. CASE p.kind = "json"
    BY <2>2, <2>4, <1>2
  <2>5. CASE p.kind = "drawing"
    BY <2>2, <2>5, <1>2
  <2>. QED
    BY <2>1, <2>3, <2>4, <2>5
<1>. QED
  BY <1>3, <1>4 DEF Swept, ops

\* A handler that clears no names begins with whole planets, and its removals leave nothing
\* of theirs.
LEMMA BeginWhole ==
  ASSUME Sound, Whole, NEW op, NEW ids, NEW blocks, NEW stems, Begin(op, ids, blocks, stems),
         op # "clear_names",
         \A k \in DOMAIN blocks :
            \/ blocks[k].ops[1].content # "gone"
            \/ \E image \in Listed, otherwise \in {"skip", "abort"} :
                blocks[k] = [ops |-> Removal(image), otherwise |-> otherwise]
  PROVE  Whole'
<1>. SUFFICES ASSUME faults' = 0 PROVE RestIsWhole' /\ RemovalsAreWhole'
  BY BeginMeans DEF Whole
<1>1. todo = << >> /\ todo' = blocks /\ disk' = disk /\ faults' = faults
  BY BeginMeans
<1>2. RestIsWhole
  BY <1>1 DEF Whole
<1>3. \A p \in DOMAIN disk : WholeAt(p)
  BY <1>1, <1>2, AllIsWhole
<1>4. RestIsWhole'
  BY <1>1, <1>3 DEF RestIsWhole, WholeAt
<1>5. ASSUME NEW k \in DOMAIN blocks PROVE Swept(blocks[k], DOMAIN disk)
  <2>1. CASE blocks[k].ops[1].content # "gone"
    BY <2>1 DEF Swept
  <2>2. ASSUME NEW image \in Listed, NEW otherwise \in {"skip", "abort"},
               blocks[k] = [ops |-> Removal(image), otherwise |-> otherwise]
        PROVE  Swept(blocks[k], DOMAIN disk)
    <3>1. image \in DOMAIN disk /\ image.kind = "png"
      BY DEF Sound, FolderIsSound, FolderOK, Images
    <3>. QED
      BY <3>1, <2>2, <1>3, RemovalSweeps
  <2>. QED
    BY <2>1, <2>2
<1>6. RemovalsAreWhole'
  BY <1>1, <1>5 DEF RemovalsAreWhole, Swept
<1>. QED
  BY <1>4, <1>6

\* An upload begins so.
LEMMA SubmitWhole ==
  ASSUME Sound, Whole, NEW i \in Id, Submit(i)
  PROVE  Whole'
<1>. DEFINE blocks == todo'
<1>1. /\ \A k \in 1..3 : todo'[k] = Saves(i)[k]
      /\ \A k \in DOMAIN todo' : k \notin 1..3 =>
            /\ k - 3 \in DOMAIN Stale(StoredImage(i))
            /\ todo'[k] = [ops |-> Removal(Stale(StoredImage(i))[k - 3]), otherwise |-> "skip"]
      /\ Begin("submit", {i}, todo', {})
  BY SubmitBlocks
<1>2. ASSUME NEW k \in DOMAIN blocks
      PROVE  \/ blocks[k].ops[1].content # "gone"
             \/ \E image \in Listed, otherwise \in {"skip", "abort"} :
                 blocks[k] = [ops |-> Removal(image), otherwise |-> otherwise]
  <2>1. CASE k \in 1..3
    BY <2>1, <1>1, SavesWrite
  <2>2. CASE k \notin 1..3
    <3>1. Stale(StoredImage(i))[k - 3] \in Listed
      BY <2>2, <1>1, StaleLists
    <3>. QED
      BY <3>1, <2>2, <1>1
  <2>. QED
    BY <2>1, <2>2
<1>. QED
  BY <1>1, <1>2, BeginWhole

\* A delete begins so.
LEMMA DeleteWhole ==
  ASSUME Sound, Whole, NEW i \in Id, Delete(i)
  PROVE  Whole'
<1>1. PICK p \in Listed :
            Begin("delete", {i}, <<[ops |-> Removal(p), otherwise |-> "abort"]>>, {})
  BY DeletePlans
<1>. DEFINE blocks == <<[ops |-> Removal(p), otherwise |-> "abort"]>>
<1>2. \A k \in DOMAIN blocks : blocks[k] = [ops |-> Removal(p), otherwise |-> "abort"]
  OBVIOUS
<1>3. Begin("delete", {i}, blocks, {})
  BY <1>1
<1>. HIDE DEF blocks
<1>. QED
  BY <1>2, <1>3, BeginWhole

\* A clear begins so.
LEMMA ClearWhole ==
  ASSUME Sound, Whole, ClearPlanets
  PROVE  Whole'
<1>1. Begin("clear", {}, Removals(newest), {})
  BY DEF ClearPlanets
<1>2. newest \in Seq(File) /\ \A k \in DOMAIN newest : newest[k] \in Listed
  BY DEF Sound, FolderIsSound, FolderOK, Range, Listed
<1>3. \A k \in DOMAIN Removals(newest) : k \in DOMAIN newest /\
        Removals(newest)[k] = [ops |-> Removal(newest[k]), otherwise |-> "skip"]
  BY DEF Removals
<1>. QED
  BY <1>1, <1>2, <1>3, BeginWhole

\* clear_names begins with one group for each planet, that has all its files.
LEMMA ClearNamesWhole ==
  ASSUME Sound, Whole, ClearNames
  PROVE  Whole'
<1>. SUFFICES ASSUME faults' = 0 PROVE RestIsWhole' /\ GroupsAreWhole'
  BY ClearNamesPlans, BeginMeans DEF Whole
<1>1. todo = << >> /\ todo' = << >> /\ disk' = disk /\ faults' = faults /\ groups' = GroupsFound
  BY ClearNamesPlans, BeginMeans
<1>2. RestIsWhole
  BY <1>1 DEF Whole
<1>3. \A p \in DOMAIN disk : WholeAt(p)
  BY <1>1, <1>2, AllIsWhole
<1>4. RestIsWhole'
  BY <1>1, <1>3 DEF RestIsWhole, WholeAt
<1>5. \A g \in GroupsFound :
            /\ g \in Group
            /\ g.paths = {q \in DOMAIN disk : q.id = g.id /\ q.stem = g.stem}
            /\ \E p \in DOMAIN disk : g.id = p.id /\ g.stem = p.stem
  BY GroupsFoundAre
<1>6. \A g \in GroupsFound : \A p \in DOMAIN disk : p.id = g.id => p.stem = g.stem
  BY <1>3, <1>5 DEF WholeAt
<1>7. \A g \in GroupsFound : \A p \in DOMAIN disk : p.id = g.id => p \in g.paths
  BY <1>5, <1>6
<1>8. ASSUME NEW g \in GroupsFound, NEW h \in GroupsFound, g.id = h.id PROVE g = h
  <2>1. g.stem = h.stem
    BY <1>5, <1>6, <1>8
  <2>2. g.paths = h.paths
    <3>1. \A q : q \in g.paths <=> q \in DOMAIN disk /\ q.id = g.id /\ q.stem = g.stem
      BY <1>5
    <3>2. \A q : q \in h.paths <=> q \in DOMAIN disk /\ q.id = h.id /\ q.stem = h.stem
      BY <1>5
    <3>. QED
      BY <3>1, <3>2, <2>1, <1>8
  <2>. QED
    BY <2>1, <2>2, <1>5, <1>8 DEF Group
<1>9. GroupsAreWhole'
  BY <1>1, <1>7, <1>8 DEF GroupsAreWhole, Busy
<1>. QED
  BY <1>4, <1>9

\* The plan of a group brings all the files of its planet under the neutral name.
LEMMA ClearGroupWhole ==
  ASSUME Sound, Lists, Whole, NEW g \in groups, ClearGroup(g)
  PROVE  Whole'
<1>1. /\ g \in Group /\ job.op = "clear_names" /\ todo = << >>
      /\ \A p \in g.paths : p \in File /\ p \in DOMAIN disk /\ p.id = g.id /\ p.stem = g.stem
      /\ groups' = groups \ {g} /\ disk' = disk /\ job'.op = job.op
  BY ClearGroupPlans
<1>. SUFFICES ASSUME faults' = 0 PROVE RestIsWhole' /\ GroupsAreWhole'
  BY <1>1 DEF Whole
<1>0. PICK metadata \in Content :
        /\ Reads(g, metadata)
        /\ \/ todo' = << >>
           \/ /\ todo' = <<[ops |-> Now', otherwise |-> "abort"]>>
              /\ Planned(g, metadata, Now')
  BY ClearGroupPlans
<1>10. faults = 0
  <2>1. faults \in Nat /\ (faults' = faults \/ faults' = faults + 1)
    BY <1>0, StoreAssumption DEF Reads, Unreadable, Sound, Registers
  <2>. QED
    BY <2>1
<1>2. RestIsWhole /\ GroupsAreWhole
  BY <1>1, <1>10 DEF Whole
<1>3. \A p \in DOMAIN disk : WholeAt(p)
  BY <1>1, <1>2, AllIsWhole
<1>4. RestIsWhole'
  BY <1>1, <1>3 DEF RestIsWhole, WholeAt
<1>5. /\ \A g1, h1 \in groups' : g1.id = h1.id => g1 = h1
      /\ \A g1 \in groups' : \A p \in DOMAIN disk' : p.id = g1.id => p \in g1.paths
      /\ \A g1 \in groups' : g1.id # g.id
  BY <1>1, <1>2 DEF GroupsAreWhole
<1>6. CASE todo' = << >>
  <2>1. \A i : ~Busy(i)'
    BY <1>6 DEF Busy
  <2>. QED
    BY <1>4, <1>5, <2>1 DEF GroupsAreWhole
<1>7. CASE Planned(g, metadata, Now') /\ todo' # << >>
  <2>1. /\ 1 \in DOMAIN Now' /\ Now'[1] = Write(ClearedMetadata(g.id), Scrubbed(metadata))
        /\ \A p \in g.paths : p.kind # "json" => \E n \in DOMAIN Now' : Now'[n] = Write(Renamed(p), disk[p])
    <3>1. Now' \in Seq(Op) /\ Now' # << >>
      BY <1>7 DEF Planned
    <3>2. 1 \in DOMAIN Now'
      BY ONLY <3>1, NotEmpty
    <3>. QED
      BY <3>2, <1>7 DEF Planned
  <2>2. g.id \in Id /\ Scrubbed(metadata) # "gone"
    BY <1>1 DEF Group, Scrubbed
  <2>3. Now'[1].path = Neutral(g.id, "json") /\ Now'[1].content # "gone" /\ Now'[1].path.id = g.id
    <3>1. ClearedMetadata(g.id) = Neutral(g.id, "json") /\ Neutral(g.id, "json").id = g.id
      BY <2>2 DEF ClearedMetadata, Neutral
    <3>2. /\ Now'[1].path = ClearedMetadata(g.id)
          /\ Now'[1].content = Scrubbed(metadata)
      BY <2>1 DEF Write
    <3>. QED
      BY <3>1, <3>2, <2>2
  <2>4. PICK q \in g.paths : TRUE
    BY <1>1 DEF Lists, GroupsAreLists
  <2>5. ASSUME NEW k \in Kind PROVE Comes(Neutral(g.id, k))'
    <3>1. CASE k = "json"
      BY <3>1, <2>1, <2>3 DEF Comes
    <3>2. CASE k # "json"
      <4>1. Of(q, k) \in DOMAIN disk /\ Of(q, k) \in File /\ Of(q, k).id = g.id /\ Of(q, k).kind = k
        <5>1. q \in File /\ q \in DOMAIN disk /\ q.id = g.id
          BY <1>1
        <5>2. Of(q, k) \in DOMAIN disk
          BY <5>1, <1>3 DEF WholeAt
        <5>. QED
          BY <5>1, <5>2, OpTypes
      <4>2. Of(q, k) \in g.paths
        BY <4>1, <1>2 DEF GroupsAreWhole
      <4>3. PICK n \in DOMAIN Now' : Now'[n] = Write(Renamed(Of(q, k)), disk[Of(q, k)])
        BY <4>1, <4>2, <3>2, <2>1
      <4>4. Renamed(Of(q, k)) = Neutral(g.id, k)
        BY <4>1, <2>2, OpTypes, PathsOf
      <4>5. disk[Of(q, k)] # "gone"
        BY <4>1 DEF Sound, FolderIsSound, FolderOK, Content
      <4>6. Now'[n].path = Neutral(g.id, k) /\ Now'[n].content # "gone"
        BY <4>3, <4>4, <4>5 DEF Write
      <4>. QED
        BY <4>6 DEF Comes
    <3>. QED
      BY <3>1, <3>2
  <2>6. \A i \in Id : Busy(i)' => i = g.id
    BY <2>3 DEF Busy
  <2>. QED
    BY <1>4, <1>5, <2>5, <2>6 DEF GroupsAreWhole
<1>. QED
  BY <1>0, <1>4, <1>6, <1>7

\* A step of it leaves the planet whole when it is the last one.
LEMMA GroupStepWhole ==
  ASSUME Sound, Lists, Whole, job.op = "clear_names", Step, NamesGo'
  PROVE  Whole'
<1>1. /\ todo # << >> /\ Advances /\ Touched(Now[1]) /\ Len(todo) <= 1
      /\ BlocksAreSound /\ 1 \in DOMAIN Now /\ Now[1] \in Op
      /\ \A n \in DOMAIN Now : Now[n].path.id = Now[1].path.id
      /\ groups' = groups /\ job' = job /\ faults' = faults
  <2>1. BlocksAreSound /\ todo # << >> /\ Len(todo) <= 1 /\ Advances /\ Touched(Now[1])
    BY StepAdvances DEF Step, Sound, JobIsSound
  <2>2. /\ Now = todo[1].ops /\ 1 \in DOMAIN todo /\ 1 \in DOMAIN Now /\ Now[1] \in Op
    BY <2>1, NowIsFirst
  <2>3. \A n \in DOMAIN Now : Now[n].path.id = Now[1].path.id
    BY <2>1, <2>2 DEF BlocksAreSound, BlockIsSound
  <2>. QED
    BY <2>1, <2>2, <2>3 DEF Step
<1>. SUFFICES ASSUME faults' = 0 PROVE RestIsWhole' /\ GroupsAreWhole'
  BY <1>1 DEF Whole
<1>2. RestIsWhole /\ GroupsAreWhole
  BY <1>1 DEF Whole
<1>0. PICK i \in Id : Now[1].path.id = i
  BY <1>1 DEF Op, File
<1>3. i \in Id /\ Busy(i) /\ Now[1].path.id = i /\ Now[1].path \in File
  BY <1>1, <1>0 DEF Busy, Op, File
<1>4. \A p \in DOMAIN disk : p.id # i => WholeAt(p)
  BY <1>2, <1>3 DEF RestIsWhole, Busy
<1>5. /\ \A g, h \in groups : g.id = h.id => g = h
      /\ \A g \in groups : \A p \in DOMAIN disk : p.id = g.id => p \in g.paths
      /\ \A g \in groups : g.id # i
      /\ \A k \in Kind : Neutral(i, k) \in DOMAIN disk \/ Comes(Neutral(i, k))
  BY <1>2, <1>3 DEF GroupsAreWhole
<1>6. \A n \in DOMAIN Now : Now[n].path.id = i
  BY <1>1, <1>3
<1>7. DOMAIN disk' \subseteq File /\ DOMAIN disk \subseteq File
  BY <1>1 DEF Touched, Sound, FolderIsSound, FolderOK
<1>8. \A p \in DOMAIN disk' : p.id # i => p \in DOMAIN disk
  BY <1>1, <1>3, <1>7 DEF Touched
<1>9. \A p \in DOMAIN disk' : p.id # i => WholeAt(p)'
  BY <1>1, <1>3, <1>4, <1>8, WholeElsewhere
<1>10. \A g \in groups : \A p \in DOMAIN disk' : p.id = g.id => p \in g.paths
  BY <1>5, <1>8
<1>11. /\ Now \in Seq(Op) /\ Now # << >>
       /\ todo' = << >> <=> Len(Now) = 1
       /\ Now' \in Seq(Op) /\ Len(Now') = Len(Now) - 1
       /\ \A n \in DOMAIN Now' : n + 1 \in DOMAIN Now /\ Now'[n] = Now[n + 1]
       /\ \A n \in DOMAIN Now : n # 1 => n - 1 \in DOMAIN Now' /\ Now'[n - 1] = Now[n]
  BY <1>1, NowLeft
<1>12. ASSUME NEW k \in Kind PROVE Neutral(i, k) \in DOMAIN disk' \/ Comes(Neutral(i, k))'
  <2>1. Neutral(i, k) \in File /\ Neutral(i, k).stem = "Planet"
    BY <1>3, PathsOf
  <2>2. Now[1].content = "gone" => Now[1].path.stem = "typed"
    BY <1>1 DEF Lists, GroupOps
  <2>3. CASE Neutral(i, k) \in DOMAIN disk
    <3>1. CASE Now[1].path = Neutral(i, k)
      BY <2>1, <2>2, <3>1, <1>1 DEF Touched
    <3>2. CASE Now[1].path # Neutral(i, k)
      BY <2>1, <2>3, <3>2, <1>1 DEF Touched
    <3>. QED
      BY <3>1, <3>2
  <2>4. CASE Comes(Neutral(i, k))
    <3>1. PICK n \in DOMAIN Now : Now[n].path = Neutral(i, k) /\ Now[n].content # "gone"
      BY <2>4 DEF Comes
    <3>2. CASE n = 1
      BY <3>1, <3>2, <1>1 DEF Touched
    <3>3. CASE n # 1
      <4>1. n - 1 \in DOMAIN Now' /\ Now'[n - 1] = Now[n]
        BY <3>3, <1>11
      <4>2. Now'[n - 1].path = Neutral(i, k) /\ Now'[n - 1].content # "gone"
        BY <4>1, <3>1
      <4>3. \E m \in DOMAIN Now' : Now'[m].path = Neutral(i, k) /\ Now'[m].content # "gone"
        BY <4>1, <4>2
      <4>. QED
        BY <4>3 DEF Comes
    <3>. QED
      BY <3>2, <3>3
  <2>. QED
    BY <2>3, <2>4, <1>5
<1>13. CASE Len(Now) # 1
  <2>1. todo' # << >>
    BY <1>11, <1>13
  <2>2. Now'[1].path.id = i /\ 1 \in DOMAIN Now'
    <3>1. Len(Now) \in Nat /\ Len(Now) >= 1 /\ DOMAIN Now' = 1..Len(Now')
      BY <1>1, <1>11
    <3>2. 1 \in DOMAIN Now'
      BY <3>1, <1>11, <1>13
    <3>. QED
      BY <3>2, <1>6, <1>11
  <2>3. \A j : Busy(j)' <=> j = i
    BY <2>1, <2>2 DEF Busy
  <2>4. RestIsWhole'
    BY <2>3, <1>9 DEF RestIsWhole
  <2>5. /\ \A g, h \in groups' : g.id = h.id => g = h
        /\ \A g \in groups' : \A p \in DOMAIN disk' : p.id = g.id => p \in g.paths
        /\ \A g \in groups' : g.id # i
    BY <1>1, <1>5, <1>10
  <2>6. \A j \in Id : Busy(j)' =>
            /\ \A g \in groups' : g.id # j
            /\ \A k \in Kind : Neutral(j, k) \in DOMAIN disk' \/ Comes(Neutral(j, k))'
    BY <2>3, <2>5, <1>12
  <2>. QED
    BY <2>4, <2>5, <2>6 DEF GroupsAreWhole
<1>14. CASE Len(Now) = 1
  <2>1. todo' = << >> /\ Now' = << >>
    BY <1>11, <1>14 DEF Now
  <2>2. \A j : ~Busy(j)'
    BY <2>1 DEF Busy
  <2>3. \A p : ~Goes(p)' /\ ~Comes(p)'
    BY <2>1 DEF Goes, Comes
  <2>4. ASSUME NEW p \in DOMAIN disk', p.id = i PROVE p.stem = "Planet"
    <3>1. p \in File /\ p.stem \in Stem
      BY <1>7 DEF File
    <3>2. ASSUME p.stem = "typed" PROVE FALSE
      <4>1. Listing(p)'
        BY <2>3, <3>2 DEF NamesGo
      <4>2. PICK g \in groups : p \in g.paths
        BY <4>1, <1>1 DEF Listing
      <4>3. p.id = g.id
        BY <4>2, <1>1 DEF Lists, GroupsAreLists
      <4>. QED
        BY <4>3, <2>4, <1>5
    <3>. QED
      BY <3>1, <3>2 DEF Stem
  <2>5. ASSUME NEW p \in DOMAIN disk', p.id = i PROVE WholeAt(p)'
    <3>1. p \in File /\ p.stem = "Planet"
      BY <2>4, <2>5, <1>7
    <3>2. ASSUME NEW k \in Kind PROVE Of(p, k) \in DOMAIN disk'
      <4>1. Of(p, k) = Neutral(i, k)
        <5>1. /\ Of(p, k) \in File /\ Of(p, k).id = i /\ Of(p, k).stem = "Planet"
              /\ Of(p, k).kind = k
          BY <3>1, <3>2, <2>5, OpTypes
        <5>. QED
          BY <5>1, <1>3, PathsOf
      <4>. QED
        BY <4>1, <2>3, <1>12
    <3>3. \A q \in DOMAIN disk' : q.id = p.id => q.stem = p.stem
      BY <2>4, <2>5
    <3>. QED
      BY <3>2, <3>3 DEF WholeAt
  <2>6. RestIsWhole'
    BY <2>5, <1>9 DEF RestIsWhole
  <2>. QED
    BY <2>2, <2>6, <1>1, <1>5, <1>10 DEF GroupsAreWhole
<1>. QED
  BY <1>13, <1>14

\* A removal under way: what it has not unlinked yet of its planet it still will.
LEMMA RemovalStepWhole ==
  ASSUME Sound, Whole, job.op # "clear_names", Step, Now[1].content = "gone"
  PROVE  Whole'
<1>1. /\ todo # << >> /\ Advances /\ Touched(Now[1]) /\ BlocksAreSound
      /\ Now = todo[1].ops /\ 1 \in DOMAIN todo /\ 1 \in DOMAIN Now /\ Now[1] \in Op
      /\ \A n \in DOMAIN Now : Now[n].path.id = Now[1].path.id
      /\ job' = job /\ faults' = faults
  <2>1. BlocksAreSound /\ todo # << >> /\ Advances /\ Touched(Now[1])
    BY StepAdvances DEF Step, Sound
  <2>2. Now = todo[1].ops /\ 1 \in DOMAIN todo /\ 1 \in DOMAIN Now /\ Now[1] \in Op
    BY <2>1, NowIsFirst
  <2>3. \A n \in DOMAIN Now : Now[n].path.id = Now[1].path.id
    BY <2>1, <2>2 DEF BlocksAreSound, BlockIsSound
  <2>. QED
    BY <2>1, <2>2, <2>3 DEF Step
<1>. SUFFICES ASSUME faults' = 0 PROVE RestIsWhole' /\ RemovalsAreWhole'
  BY <1>1 DEF Whole
<1>2. RestIsWhole /\ RemovalsAreWhole
  BY <1>1 DEF Whole
<1>0. PICK i \in Id : Now[1].path.id = i
  BY <1>1 DEF Op, File
<1>3. Now[1].path.id = i /\ Now[1].path \in File
  BY <1>1, <1>0 DEF Op
<1>4. \A p \in DOMAIN disk : p.id # i => WholeAt(p)
  BY <1>2, <1>3 DEF RestIsWhole, Busy
<1>5. \A p \in DOMAIN disk : p.id = i => \E n \in DOMAIN Now : Now[n] = Unlink(p)
  <2>1. Swept(todo[1], DOMAIN disk)
    BY <1>1, <1>2 DEF RemovalsAreWhole
  <2>. QED
    BY <2>1, <1>1, <1>3 DEF Swept
<1>6. \A n \in DOMAIN Now : Now[n].path.id = i
  BY <1>1, <1>3
<1>7. DOMAIN disk' \subseteq File /\ DOMAIN disk \subseteq File
  BY <1>1 DEF Touched, Sound, FolderIsSound, FolderOK
<1>8. \A p \in DOMAIN disk' : p \in DOMAIN disk /\ p # Now[1].path
  BY <1>1, <1>3, <1>7 DEF Touched
<1>9. \A p \in DOMAIN disk' : p.id # i => WholeAt(p)'
  BY <1>1, <1>3, <1>4, <1>8, WholeElsewhere
<1>10. ASSUME NEW b, Swept(b, DOMAIN disk) PROVE Swept(b, DOMAIN disk')
  BY <1>8, <1>10 DEF Swept
<1>11. \A p \in DOMAIN disk' : p.id = i => \E n \in DOMAIN Now : n # 1 /\ Now[n] = Unlink(p)
  <2>. SUFFICES ASSUME NEW p \in DOMAIN disk', p.id = i PROVE \E n \in DOMAIN Now : n # 1 /\ Now[n] = Unlink(p)
    OBVIOUS
  <2>1. PICK n \in DOMAIN Now : Now[n] = Unlink(p)
    BY <1>5, <1>8
  <2>2. n # 1
    BY <2>1, <1>8 DEF Unlink
  <2>. QED
    BY <2>1, <2>2
<1>12. CASE Len(Now) = 1
  <2>1. todo' = Tail(todo)
    BY <1>1, <1>12 DEF Advances
  <2>2. \A p \in DOMAIN disk' : p.id # i
    BY <1>1, <1>11, <1>12 DEF Advances
  <2>3. RestIsWhole'
    BY <2>2, <1>9 DEF RestIsWhole
  <2>4. ASSUME NEW k \in DOMAIN todo' PROVE Swept(todo'[k], DOMAIN disk)
    BY <2>1, <1>1, <1>2, TailHas DEF RemovalsAreWhole, BlocksAreSound
  <2>5. RemovalsAreWhole'
    BY <2>4, <1>10 DEF RemovalsAreWhole
  <2>. QED
    BY <2>3, <2>5
<1>13. CASE Len(Now) # 1
  <2>1. /\ todo' \in Seq(Block) /\ Len(todo') = Len(todo) /\ todo'[1].ops = Tail(Now)
        /\ \A k \in 2..Len(todo) : todo'[k] = todo[k]
        /\ Now \in Seq(Op) /\ Now # << >> /\ Len(Now) \in Nat /\ Len(todo) \in Nat
        /\ DOMAIN todo' = 1..Len(todo) /\ DOMAIN todo = 1..Len(todo)
    BY <1>1, <1>13 DEF Advances, BlocksAreSound
  <2>2. /\ \A n \in DOMAIN Tail(Now) : n + 1 \in DOMAIN Now /\ Tail(Now)[n] = Now[n + 1]
        /\ \A n \in DOMAIN Now : n # 1 => n - 1 \in DOMAIN Tail(Now) /\ Tail(Now)[n - 1] = Now[n]
        /\ Tail(Now) \in Seq(Op) /\ Len(Tail(Now)) = Len(Now) - 1
    BY <2>1, TailHas
  <2>3. 1 \in DOMAIN Tail(Now) /\ Tail(Now)[1].path.id = i
    <3>1. Len(Now) >= 1 /\ Len(Now) # 1 /\ DOMAIN Tail(Now) = 1..Len(Tail(Now))
      BY <2>1, <2>2, <1>1, <1>13
    <3>2. 1 \in DOMAIN Tail(Now)
      BY <3>1, <2>1, <2>2
    <3>. QED
      BY <3>2, <2>2, <1>6
  <2>4. todo' # << >> /\ Now' = Tail(Now)
    <3>1. todo' # << >>
      BY <2>1, <1>1
    <3>. QED
      BY <3>1, <2>1 DEF Now
  <2>5. \A j : Busy(j)' <=> j = i
    BY <2>3, <2>4 DEF Busy
  <2>6. RestIsWhole'
    BY <2>5, <1>9 DEF RestIsWhole
  <2>7. Swept(todo'[1], DOMAIN disk')
    <3>1. ASSUME NEW p \in DOMAIN disk', p.id = i
          PROVE  \E n \in DOMAIN Tail(Now) : Tail(Now)[n] = Unlink(p)
      <4>1. PICK n \in DOMAIN Now : n # 1 /\ Now[n] = Unlink(p)
        BY <1>11, <3>1
      <4>2. n - 1 \in DOMAIN Tail(Now) /\ Tail(Now)[n - 1] = Now[n]
        BY <4>1, <2>2
      <4>. QED
        BY <4>1, <4>2
    <3>. QED
      BY <3>1, <2>1, <2>3 DEF Swept
  <2>8. ASSUME NEW k \in DOMAIN todo', k # 1 PROVE Swept(todo[k], DOMAIN disk) /\ todo'[k] = todo[k]
    BY <2>1, <2>8, <1>2 DEF RemovalsAreWhole
  <2>9. \A k \in DOMAIN todo' : Swept(todo'[k], DOMAIN disk')
    BY <2>7, <2>8, <1>10
  <2>10. RemovalsAreWhole'
    BY <2>9 DEF RemovalsAreWhole
  <2>. QED
    BY <2>6, <2>10
<1>. QED
  BY <1>12, <1>13

\* A file of an upload is written: nothing else of that planet was there.
LEMMA SaveStepWhole ==
  ASSUME Sound, Pictures, Stored, Whole, job.op # "clear_names", Step, Now[1].content # "gone"
  PROVE  Whole'
<1>1. /\ todo # << >> /\ Touched(Now[1]) /\ BlocksAreSound
      /\ Now = todo[1].ops /\ 1 \in DOMAIN todo /\ 1 \in DOMAIN Now /\ Now[1] \in Op
      /\ job' = job /\ faults' = faults /\ outcome = "running"
      /\ DOMAIN todo = 1..Len(todo) /\ Len(todo) \in Nat
  <2>1. BlocksAreSound /\ todo # << >> /\ Touched(Now[1]) /\ outcome = "running"
    BY StepAdvances DEF Step, Sound, Registers, AtRest
  <2>2. Now = todo[1].ops /\ 1 \in DOMAIN todo /\ 1 \in DOMAIN Now /\ Now[1] \in Op
    BY <2>1, NowIsFirst
  <2>. QED
    BY <2>1, <2>2 DEF Step, BlocksAreSound
<1>2. job.op = "submit"
  BY <1>1 DEF Pictures, OthersOwn
<1>3. PICK i \in Id, s \in 0..3, h \in 0..1 : SubmitAt(i, s, h)
  BY <1>1, <1>2 DEF Stored
<1>4. s # 0
  BY <1>1, <1>3, RestIsAway
<1>5. s \in 1..3 /\ 1 + 3 - s = 4 - s /\ 4 - s \in 1..3 /\ 1 <= s
  BY <1>4
<1>6. /\ job.ids = {i}
      /\ \A k \in 1..Len(todo) : k <= s => todo[k] = Saves(i)[k + 3 - s]
      /\ \A k \in 1..Len(todo) : k > s => Rest(i, todo[k])
  BY <1>3 DEF SubmitAt, Plan
<1>7. todo[1] = Saves(i)[4 - s]
  BY <1>1, <1>5, <1>6
<1>8. Len(Now) = 1 /\ Now[1].path.id = i /\ Now[1].path.stem = StoredImage(i).stem
  <2>1. /\ Len(Saves(i)[4 - s].ops) = 1 /\ Saves(i)[4 - s].ops[1].path.id = i
        /\ Saves(i)[4 - s].ops[1].path.stem = StoredImage(i).stem
    BY <1>5, SavesWrite
  <2>. QED
    BY <2>1, <1>1, <1>7
<1>9. todo' = Tail(todo)
  BY <1>1, <1>8, StepAdvances DEF Advances
<1>10. SubmitAt(i, s - 1, 0)'
  BY <1>3, <1>5, SaveSteps
<1>. SUFFICES ASSUME faults' = 0 PROVE RestIsWhole' /\ RemovalsAreWhole'
  BY <1>1 DEF Whole
<1>11. RestIsWhole /\ RemovalsAreWhole
  BY <1>1 DEF Whole
<1>12. \A p \in DOMAIN disk : p.id # i => WholeAt(p)
  BY <1>8, <1>11 DEF RestIsWhole, Busy
<1>13. DOMAIN disk' \subseteq File /\ DOMAIN disk \subseteq File
  BY <1>1 DEF Touched, Sound, FolderIsSound, FolderOK
<1>14. \A p \in DOMAIN disk' : p \in DOMAIN disk \/ p = Now[1].path
  BY <1>1, <1>13 DEF Touched
<1>15. \A p \in DOMAIN disk' : p.id # i => p \in DOMAIN disk /\ WholeAt(p)'
  BY <1>1, <1>8, <1>12, <1>14, WholeElsewhere
<1>16. \A k \in DOMAIN todo' : k + 1 \in DOMAIN todo /\ todo'[k] = todo[k + 1] /\ k \in Nat \ {0}
  BY <1>1, <1>9, TailHas DEF BlocksAreSound
<1>17. RemovalsAreWhole'
  <2>. SUFFICES ASSUME NEW k \in DOMAIN todo', todo'[k].ops[1].content = "gone"
                PROVE  Swept(todo'[k], DOMAIN disk')
    BY DEF RemovalsAreWhole, Swept
  <2>1. k + 1 \in 1..Len(todo) /\ todo'[k] = todo[k + 1]
    BY <1>1, <1>16
  <2>2. k + 1 > s
    <3>. SUFFICES ASSUME k + 1 <= s PROVE FALSE
      BY <2>1, <1>5
    <3>1. todo[k + 1] = Saves(i)[(k + 1) + 3 - s] /\ (k + 1) + 3 - s \in 1..3
      BY <2>1, <1>5, <1>6, <1>16
    <3>. QED
      BY <3>1, <2>1, SavesWrite
  <2>3. Rest(i, todo[k + 1])
    BY <2>1, <2>2, <1>6
  <2>4. 1 \in DOMAIN todo[k + 1].ops
    <3>1. todo[k + 1] \in Block /\ todo[k + 1].ops # << >>
      BY <2>1, <1>1 DEF BlocksAreSound, BlockIsSound
    <3>2. todo[k + 1].ops \in Seq(Op)
      BY <3>1 DEF Block
    <3>. QED
      BY ONLY <3>1, <3>2, NotEmpty
  <2>5. todo[k + 1].ops[1].path.id # i
    BY <2>3, <2>4 DEF Rest
  <2>6. Swept(todo[k + 1], DOMAIN disk)
    BY <2>1, <1>1, <1>11 DEF RemovalsAreWhole
  <2>. QED
    BY <2>1, <2>5, <2>6, <1>15 DEF Swept
<1>18. CASE s # 1
  <2>1. s - 1 \in 1..3 /\ s - 1 <= Len(todo') /\ 1 <= s - 1 /\ 1 + 3 - (s - 1) \in 1..3
    BY <1>5, <1>10, <1>18 DEF SubmitAt, Plan
  <2>2. 1 \in 1..Len(todo') /\ todo' # << >>
    <3>1. todo' \in Seq(Block)
      BY <1>1, <1>9, TailHas DEF BlocksAreSound
    <3>. QED
      BY <3>1, <2>1
  <2>3. todo'[1] = Saves(i)[1 + 3 - (s - 1)]
    BY <2>1, <2>2, <1>10 DEF SubmitAt, Plan
  <2>4. Now'[1].path.id = i
    BY <2>1, <2>2, <2>3, SavesWrite DEF Now
  <2>5. RestIsWhole'
    BY <2>2, <2>4, <1>15 DEF RestIsWhole, Busy
  <2>. QED
    BY <2>5, <1>17
<1>19. CASE s = 1
  <2>1. Saved(i, 0)'
    BY <1>10, <1>19 DEF SubmitAt
  <2>2. /\ StoredImage(i) \in DOMAIN disk' /\ Of(StoredImage(i), "json") \in DOMAIN disk'
        /\ Of(StoredImage(i), "drawing") \in DOMAIN disk'
    BY <2>1 DEF Saved, IsDrawn
  <2>3. \A p \in DOMAIN disk' : p.id = i => p.stem = StoredImage(i).stem
    BY <1>1, <1>2, <1>6, <1>8, <1>14 DEF Pictures, FreshIds
  <2>4. ASSUME NEW p \in DOMAIN disk', p.id = i PROVE WholeAt(p)'
    <3>1. p \in File /\ p.stem = StoredImage(i).stem
      BY <2>3, <2>4, <1>13
    <3>2. ASSUME NEW k \in Kind PROVE Of(p, k) \in DOMAIN disk'
      <4>1. Of(p, k) \in File /\ Of(p, k).id = i /\ Of(p, k).stem = StoredImage(i).stem /\ Of(p, k).kind = k
        BY <3>1, <3>2, <2>4, OpTypes
      <4>2. k = "png" \/ k = "json" \/ k = "drawing"
        BY DEF Kind
      <4>3. Of(p, k) = StoredImage(i) \/ Of(p, k) = Of(StoredImage(i), "json")
            \/ Of(p, k) = Of(StoredImage(i), "drawing")
        BY <4>1, <4>2, StoredFiles, SameFile
      <4>. QED
        BY <4>3, <2>2
    <3>. QED
      BY <3>1, <3>2, <2>3, <2>4 DEF WholeAt
  <2>5. RestIsWhole'
    BY <2>4, <1>15 DEF RestIsWhole
  <2>. QED
    BY <2>5, <1>17
<1>. QED
  BY <1>18, <1>19

\* Every step keeps whole planets whole while nothing fails.
LEMMA WholeSteps ==
  ASSUME Sound, Lists, Named, Pictures, Stored, Whole, [StoreNext]_storeVars
  PROVE  Whole'
<1>1. ASSUME NEW i \in Id, Submit(i) PROVE Whole'
  BY <1>1, SubmitWhole
<1>2. ASSUME NEW i \in Id, Delete(i) PROVE Whole'
  BY <1>2, DeleteWhole
<1>3. CASE ClearPlanets
  BY <1>3, ClearWhole
<1>4. CASE ClearNames
  BY <1>4, ClearNamesWhole
<1>5. ASSUME NEW g \in groups, ClearGroup(g) PROVE Whole'
  BY <1>5, ClearGroupWhole
<1>6. CASE Step
  <2>1. CASE job.op = "clear_names"
    <3>1. Named'
      BY NamedSteps
    <3>2. job' = job /\ outcome = "running" /\ outcome' \in {"ok", outcome}
      BY <1>6 DEF Step, Sound, Registers, AtRest
    <3>3. NamesGo'
      BY <3>1, <3>2, <2>1 DEF Named
    <3>. QED
      BY <3>3, <2>1, <1>6, GroupStepWhole
  <2>2. CASE job.op # "clear_names" /\ Now[1].content = "gone"
    BY <2>2, <1>6, RemovalStepWhole
  <2>3. CASE job.op # "clear_names" /\ Now[1].content # "gone"
    BY <2>3, <1>6, SaveStepWhole
  <2>. QED
    BY <2>1, <2>2, <2>3
<1>7. ASSUME faults' = faults + 1, faults \in Nat PROVE Whole'
  <2>1. faults' # 0
    BY <1>7
  <2>. QED
    BY <2>1 DEF Whole
<1>8. faults \in Nat
  BY StoreAssumption DEF Sound, Registers
<1>9. CASE Fail
  BY <1>7, <1>8, <1>9, FailLeaves
<1>10. CASE Crash
  BY <1>7, <1>8, <1>10, CrashLeaves
<1>11. CASE UNCHANGED storeVars
  <2>1. UNCHANGED <<disk, newest, todo, groups, job, faults>>
    BY <1>11 DEF storeVars
  <2>. QED
    BY <2>1 DEF Whole, RestIsWhole, RemovalsAreWhole, GroupsAreWhole, WholeAt, Busy, Now, Comes
<1>. QED
  BY <1>1, <1>2, <1>3, <1>4, <1>5, <1>6, <1>9, <1>10, <1>11 DEF StoreNext

\* Planets are stored whole, and whole they stay while nothing fails: an upload that was
\* answered with success has its image and its drawing and is the newest (SubmitPlanet,
\* FileSystemPlanetRepository.save), and no handler leaves a part of a planet behind.
THEOREM PlanetsAreAlwaysWhole == StoreSpec => []PlanetsAreWhole
<1>. DEFINE Inv == Sound /\ Lists /\ Named /\ Pictures /\ Keeping /\ DrawingsStay /\ Stored /\ Whole
<1>1. StoreInit => Inv
  <2>. SUFFICES ASSUME StoreInit PROVE Inv
    OBVIOUS
  <2>1. todo = << >> /\ groups = {} /\ job.op = "none" /\ DOMAIN disk = {}
    BY DEF StoreInit
  <2>2. Whole
    BY <2>1 DEF Whole, RestIsWhole, RemovalsAreWhole
  <2>3. Stored /\ Named
    BY <2>1 DEF Stored, Named
  <2>. QED
    BY <2>2, <2>3, SoundStarts, PicturesStart
<1>2. Inv /\ [StoreNext]_storeVars => Inv'
  <2>. SUFFICES ASSUME Inv, [StoreNext]_storeVars PROVE Inv'
    OBVIOUS
  <2>1. Sound' /\ Lists'
    BY SoundSteps
  <2>2. Named' /\ Stored'
    BY NamedSteps, StoredSteps
  <2>3. Pictures' /\ Keeping' /\ DrawingsStay'
    BY PicturesStep
  <2>4. Whole'
    BY WholeSteps
  <2>. QED
    BY <2>1, <2>2, <2>3, <2>4
<1>3. Inv => PlanetsAreWhole
  <2>. SUFFICES ASSUME Inv PROVE PlanetsAreWhole
    OBVIOUS
  <2>1. StoreTypeOK
    BY SoundIsTyped
  <2>2. ASSUME job.op = "submit", outcome = "ok"
        PROVE  \A image \in {StoredImage(i) : i \in job.ids} :
                /\ Of(image, "drawing") \in DOMAIN disk
                /\ disk[Of(image, "drawing")] = "intact"
                /\ newest # << >> /\ Head(newest) = image /\ disk[image] = "intact"
    <3>1. todo = << >>
      BY <2>2 DEF Sound, Registers, AtRest
    <3>2. PICK i \in Id, s \in 0..3, h \in 0..1 : SubmitAt(i, s, h)
      BY <2>2 DEF Stored
    <3>3. Len(todo) = 0
      BY <3>1
    <3>4. s = 0 /\ job.ids = {i} /\ Saved(i, s)
      BY <3>2, <3>3 DEF SubmitAt, Plan
    <3>5. /\ newest # << >> /\ newest[1] = StoredImage(i) /\ IsDrawn(StoredImage(i))
          /\ IsDrawn(Of(StoredImage(i), "drawing"))
      BY <3>4 DEF Saved
    <3>6. Head(newest) = newest[1]
      BY <3>5 DEF Sound, FolderIsSound, FolderOK
    <3>. QED
      BY <3>4, <3>5, <3>6 DEF IsDrawn
  <2>3. ASSUME AtRest, faults = 0
        PROVE  \A p \in DOMAIN disk :
                /\ {Of(p, k) : k \in Kind} \subseteq DOMAIN disk
                /\ \A q \in DOMAIN disk : q.id = p.id => q.stem = p.stem
    <3>1. \A p \in DOMAIN disk : WholeAt(p)
      BY <2>3, AllIsWhole DEF Whole, AtRest
    <3>. QED
      BY <3>1 DEF WholeAt
  <2>4. AcceptedIsWhole /\ WholePlanets
    BY <2>2, <2>3 DEF AcceptedIsWhole, WholePlanets
  <2>. QED
    BY <2>1, <2>4 DEF PlanetsAreWhole
<1>. QED
  BY <1>1, <1>2, <1>3, PTL DEF StoreSpec
==============================================================================
