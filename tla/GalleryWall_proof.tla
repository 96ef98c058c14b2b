-------------------------- MODULE GalleryWall_proof --------------------------
EXTENDS GalleryWall, DataInduction, FiniteSetTheorems

Entry == [id : Planet, loaded : BOOLEAN]

------------------------------------------------------------------------------
\* What the entries of w that Keep(w, S) leaves are: some of those of w, in their
\* order, and all whose planets are in S.
KeptOf(k, w, n, S) ==
    /\ k \in Seq(Entry) /\ Len(k) <= n
    /\ \A j \in 1..Len(k) : k[j].id \in S /\ \E i \in 1..n : k[j] = w[i]
    /\ \A j1, j2 \in 1..Len(k) : j1 < j2 =>
          \E i1, i2 \in 1..n : i1 < i2 /\ k[j1] = w[i1] /\ k[j2] = w[i2]
    /\ \A i \in 1..n : w[i].id \in S => \E j \in 1..Len(k) : k[j] = w[i]

LEMMA KeepFacts ==
  ASSUME NEW w \in Seq(Entry), NEW S
  PROVE  KeptOf(Keep(w, S), w, Len(w), S)
<1>. DEFINE T == [id : S, loaded : BOOLEAN]
            k == Keep(w, S)
<1>1. \A i \in 1..Len(w) : w[i] \in T <=> w[i].id \in S
  <2>1. \A e \in Entry : e \in T <=> e.id \in S
    BY DEF Entry
  <2>2. \A i \in 1..Len(w) : w[i] \in Entry
    OBVIOUS
  <2>. QED
    BY <2>1, <2>2
<1>2. k \in Seq(Entry) /\ PartOf(k, w, Len(w), T)
  BY OnlyIsPart DEF Keep
<1>. HIDE DEF k, T
<1>3. /\ Len(k) <= Len(w)
      /\ \A j \in 1..Len(k) : k[j] \in T /\ \E i \in 1..Len(w) : k[j] = w[i]
      /\ \A j1, j2 \in 1..Len(k) : j1 < j2 =>
            \E i1, i2 \in 1..Len(w) : i1 < i2 /\ k[j1] = w[i1] /\ k[j2] = w[i2]
      /\ \A i \in 1..Len(w) : w[i] \in T => \E j \in 1..Len(k) : k[j] = w[i]
  BY <1>2 DEF PartOf
<1>4. ASSUME NEW j \in 1..Len(k) PROVE k[j].id \in S /\ \E i \in 1..Len(w) : k[j] = w[i]
  <2>1. PICK i \in 1..Len(w) : k[j] = w[i]
    BY <1>3
  <2>. QED
    BY <1>1, <1>3, <2>1
<1>5. \A i \in 1..Len(w) : w[i].id \in S => \E j \in 1..Len(k) : k[j] = w[i]
  BY <1>1, <1>3
<1>6. KeptOf(k, w, Len(w), S)
  BY <1>2, <1>3, <1>4, <1>5 DEF KeptOf
<1>. QED
  BY <1>6 DEF k

------------------------------------------------------------------------------
\* A wall that holds what it may: at most GallerySize planets, each once, all of
\* them among the first u uploads.
Fits(w, u) ==
    /\ w \in Seq(Entry) /\ Len(w) <= GallerySize
    /\ \A i, j \in 1..Len(w) : w[i].id = w[j].id => i = j
    /\ \A i \in 1..Len(w) : w[i].id <= u

\* Whatever is loaded in v was in w: new entries wait for their manifests.
LoadedFrom(v, w) == \A j \in 1..Len(v) : v[j].loaded => \E i \in 1..Len(w) : v[j] = w[i]

\* Making room takes the oldest arrival off a full wall, and nothing else.
LEMMA RoomFacts ==
  ASSUME NEW w \in Seq(Entry), Len(w) <= GallerySize
  PROVE  \E d \in 0..1 :
            /\ MakeRoomForOne(w) \in Seq(Entry)
            /\ Len(MakeRoomForOne(w)) = Len(w) - d /\ Len(w) - d < GallerySize
            /\ \A j \in 1..(Len(w) - d) : MakeRoomForOne(w)[j] = w[j + d]
            /\ d = 1 => Len(w) = GallerySize
<1>1. GallerySize \in Nat \ {0} /\ Len(w) \in Nat
  BY ConstantsAssumption
<1>2. CASE Len(w) < GallerySize
  <2>1. MakeRoomForOne(w) = w
    BY <1>1, <1>2 DEF MakeRoomForOne
  <2>. QED
    BY <1>1, <1>2, <2>1
<1>3. CASE Len(w) = GallerySize
  <2>. DEFINE v == SubSeq(w, 2, Len(w))
  <2>1. MakeRoomForOne(w) = v
    BY <1>1, <1>3 DEF MakeRoomForOne
  <2>2. v \in Seq(Entry) /\ Len(v) = Len(w) - 1 /\ \A j \in 1..(Len(w) - 1) : v[j] = w[j + 1]
    BY <1>1, <1>3
  <2>. QED
    BY <1>1, <1>3, <2>1, <2>2
<1>. QED
  BY <1>1, <1>2, <1>3

\* v is w after the arrival of p, when the oldest d entries (none or one) had left.
Arrival(v, w, p, d) ==
    /\ v \in Seq(Entry) /\ Len(v) = Len(w) - d + 1 /\ Len(v) <= GallerySize
    /\ \A j \in 1..(Len(w) - d) : v[j] = w[j + d]
    /\ v[Len(v)] = [id |-> p, loaded |-> FALSE]
    /\ d = 1 => Len(w) = GallerySize

LEMMA AddFacts ==
  ASSUME NEW w \in Seq(Entry), Len(w) <= GallerySize, NEW p \in Planet, p \notin OnWall(w)
  PROVE  \E d \in 0..1 : Arrival(Add(w, p), w, p, d)
<1>. DEFINE room == MakeRoomForOne(w)
            e == [id |-> p, loaded |-> FALSE]
            v == Append(room, e)
<1>1. PICK d \in 0..1 :
            /\ room \in Seq(Entry)
            /\ Len(room) = Len(w) - d /\ Len(w) - d < GallerySize
            /\ \A j \in 1..(Len(w) - d) : room[j] = w[j + d]
            /\ d = 1 => Len(w) = GallerySize
  BY RoomFacts
<1>2. e \in Entry /\ Add(w, p) = v
  BY DEF Entry, Add
<1>. HIDE DEF room, e
<1>3. /\ v \in Seq(Entry) /\ Len(v) = Len(room) + 1 /\ v[Len(v)] = e
      /\ \A j \in 1..Len(room) : v[j] = room[j]
  BY <1>1, <1>2
<1>4. Len(v) <= GallerySize
  BY <1>1, <1>3, ConstantsAssumption
<1>5. Arrival(v, w, p, d)
  BY <1>1, <1>3, <1>4 DEF Arrival, e
<1>. QED
  BY <1>2, <1>5

LEMMA AddFits ==
  ASSUME NEW u \in Nat, NEW w, Fits(w, u), NEW p \in Planet, p <= u
  PROVE  Fits(Add(w, p), u) /\ LoadedFrom(Add(w, p), w)
<1>. DEFINE v == Add(w, p)
<1>1. /\ w \in Seq(Entry) /\ Len(w) \in Nat /\ Len(w) <= GallerySize
      /\ \A i, j \in 1..Len(w) : w[i].id = w[j].id => i = j
      /\ \A i \in 1..Len(w) : w[i].id <= u
  BY DEF Fits
<1>2. CASE p \in OnWall(w)
  BY <1>2 DEF Add, LoadedFrom
<1>3. CASE p \notin OnWall(w)
  <2>1. PICK d \in 0..1 : Arrival(v, w, p, d)
    BY <1>1, <1>3, AddFacts
  <2>2. /\ v \in Seq(Entry) /\ Len(v) = Len(w) - d + 1 /\ Len(v) <= GallerySize
        /\ \A j \in 1..(Len(w) - d) : v[j] = w[j + d]
        /\ v[Len(v)].id = p /\ v[Len(v)].loaded = FALSE
    BY <2>1 DEF Arrival
  <2>3. \A i \in 1..Len(w) : w[i].id # p
    BY <1>3 DEF OnWall
  <2>. HIDE DEF v
  <2>4. \A j \in 1..Len(v) : j = Len(v) \/ (j \in 1..(Len(w) - d) /\ j + d \in 1..Len(w))
    BY <1>1, <2>2
  <2>5. ASSUME NEW i \in 1..Len(v), NEW j \in 1..Len(v), v[i].id = v[j].id PROVE i = j
    <3>1. CASE i = Len(v)
      <4>1. v[j].id = p
        BY <2>2, <2>5, <3>1
      <4>2. j \notin 1..(Len(w) - d)
        BY <2>2, <2>3, <2>4, <4>1
      <4>. QED
        BY <2>4, <3>1, <4>2
    <3>2. CASE j = Len(v)
      <4>1. v[i].id = p
        BY <2>2, <2>5, <3>2
      <4>2. i \notin 1..(Len(w) - d)
        BY <2>2, <2>3, <2>4, <4>1
      <4>. QED
        BY <2>4, <3>2, <4>2
    <3>3. CASE i \in 1..(Len(w) - d) /\ j \in 1..(Len(w) - d)
      <4>1. w[i + d].id = w[j + d].id /\ i + d \in 1..Len(w) /\ j + d \in 1..Len(w)
        BY <2>2, <2>4, <2>5, <3>3
      <4>2. i + d = j + d
        BY <1>1, <4>1
      <4>. QED
        BY <4>2
    <3>. QED
      BY <2>4, <3>1, <3>2, <3>3
  <2>6. \A i \in 1..Len(v) : v[i].id <= u
    BY <1>1, <2>2, <2>4
  <2>7. LoadedFrom(v, w)
    BY <2>2, <2>4 DEF LoadedFrom
  <2>. QED
    BY <2>2, <2>5, <2>6, <2>7 DEF Fits, v
<1>. QED
  BY <1>2, <1>3

LEMMA KeepFits ==
  ASSUME NEW u \in Nat, NEW w, Fits(w, u), NEW S
  PROVE  /\ Fits(Keep(w, S), u) /\ LoadedFrom(Keep(w, S), w)
         /\ \A j \in 1..Len(Keep(w, S)) : Keep(w, S)[j].id \in S
<1>. DEFINE k == Keep(w, S)
<1>1. /\ w \in Seq(Entry) /\ Len(w) \in Nat /\ Len(w) <= GallerySize
      /\ \A i, j \in 1..Len(w) : w[i].id = w[j].id => i = j
      /\ \A i \in 1..Len(w) : w[i].id <= u
  BY DEF Fits
<1>2. KeptOf(k, w, Len(w), S)
  BY <1>1, KeepFacts
<1>. HIDE DEF k
<1>3. k \in Seq(Entry) /\ Len(k) \in Nat /\ Len(k) <= GallerySize
  BY <1>1, <1>2, ConstantsAssumption DEF KeptOf
<1>4. \A j \in 1..Len(k) : k[j].id \in S /\ \E i \in 1..Len(w) : k[j] = w[i]
  BY <1>2 DEF KeptOf
<1>5. ASSUME NEW j1 \in 1..Len(k), NEW j2 \in 1..Len(k), j1 < j2 PROVE k[j1].id # k[j2].id
  <2>1. PICK i1 \in 1..Len(w), i2 \in 1..Len(w) : i1 < i2 /\ k[j1] = w[i1] /\ k[j2] = w[i2]
    BY <1>2, <1>5 DEF KeptOf
  <2>. QED
    BY <1>1, <2>1
<1>6. \A i, j \in 1..Len(k) : k[i].id = k[j].id => i = j
  BY <1>3, <1>5
<1>7. \A j \in 1..Len(k) : k[j].id <= u
  BY <1>1, <1>4
<1>. QED
  BY <1>3, <1>4, <1>6, <1>7 DEF Fits, LoadedFrom, k

LEMMA LoadedFromIsTransitive ==
  ASSUME NEW v, NEW w, NEW x, LoadedFrom(v, w), LoadedFrom(w, x)
  PROVE  LoadedFrom(v, x)
  BY DEF LoadedFrom

\* The walk over the list adds nothing but listed planets that wait for their
\* manifests.
LEMMA AddAllFits ==
  ASSUME NEW u \in Nat, NEW w, Fits(w, u), NEW list, list \subseteq 1..u
  PROVE  Fits(AddAll(w, list), u) /\ LoadedFrom(AddAll(w, list), w)
<1>. DEFINE D == {v \in Seq(Entry) : Fits(v, u) /\ LoadedFrom(v, w)}
            n == MaxUploads
            Step(v, p) == IF p \in list THEN Add(v, p) ELSE v
            IsWalk(g) == g = [p \in 0..n |-> IF p = 0 THEN w ELSE Step(g[p - 1], p)]
<1>1. n \in Nat /\ Planet = 1..n
  BY ConstantsAssumption DEF Planet
<1>2. w \in D
  BY DEF Fits, LoadedFrom
<1>3. ASSUME NEW v \in D, NEW p \in 1..n PROVE Step(v, p) \in D
  <2>1. CASE p \in list
    <3>1. p \in Planet /\ p <= u
      BY <1>1, <2>1
    <3>2. Fits(Add(v, p), u) /\ LoadedFrom(Add(v, p), v)
      BY <1>3, <3>1, AddFits
    <3>3. LoadedFrom(Add(v, p), w)
      BY <1>3, <3>2, LoadedFromIsTransitive
    <3>4. Add(v, p) \in Seq(Entry)
      BY <3>2 DEF Fits
    <3>. QED
      BY <2>1, <3>2, <3>3, <3>4
  <2>. QED
    BY <1>3, <2>1
<1>. DEFINE step == [p \in 1..n |-> [v \in D |-> Step(v, p)]]
<1>4. step \in [1..n -> [D -> D]]
  <2>. HIDE DEF D, n, Step
  <2>. QED
    BY <1>3
<1>. HIDE DEF D, n, Step
<1>5. PICK h \in [0..n -> D] : h[0] = w /\ \A p \in 1..n : h[p] = step[p][h[p - 1]]
  <2>. HIDE DEF step
  <2>1. \E h \in [0..n -> D] : h[0] = w /\ \A p \in 1..n : h[p] = step[p][h[p - 1]]
    <3>1. n \in Nat
      BY <1>1
    <3>2. \A b \in D : \E h \in [0..n -> D] : h[0] = b /\ \A p \in 1..n : h[p] = step[p][h[p - 1]]
      BY <1>4, <3>1, RecursionExists
    <3>. QED
      BY <1>2, <3>2
  <2>. QED
    BY <2>1
<1>6. ASSUME NEW p \in 1..n PROVE h[p] = Step(h[p - 1], p)
  <2>1. h[p - 1] \in D
    BY <1>1
  <2>2. step[p][h[p - 1]] = Step(h[p - 1], p)
    BY <2>1
  <2>. QED
    BY <1>5, <2>2
<1>. HIDE DEF step
<1>7. \A p \in 0..n : h[p] = IF p = 0 THEN w ELSE Step(h[p - 1], p)
  BY <1>1, <1>5, <1>6
<1>8. \E g : IsWalk(g)
  BY <1>7
<1>. DEFINE after == CHOOSE g : IsWalk(g)
<1>9. IsWalk(after) /\ AddAll(w, list) = after[n]
  BY <1>8 DEF AddAll, Step, n
<1>. HIDE DEF after
<1>10. after[0] = w /\ \A p \in 1..n : after[p] = Step(after[p - 1], p)
  <2>1. after = [p \in 0..n |-> IF p = 0 THEN w ELSE Step(after[p - 1], p)]
    BY <1>9
  <2>2. \A p \in 0..n : after[p] = IF p = 0 THEN w ELSE Step(after[p - 1], p)
    BY <2>1, Zenon
  <2>3. 0 \in 0..n /\ \A p \in 1..n : p \in 0..n /\ p # 0
    BY <1>1
  <2>. QED
    BY <2>2, <2>3
<1>. DEFINE T == {p \in Nat : p <= n => after[p] \in D}
<1>11. 0 \in T
  BY <1>2, <1>10
<1>12. ASSUME NEW p \in Nat, p \in T PROVE p + 1 \in T
  <2>1. CASE p + 1 <= n
    <3>1. after[p] \in D /\ p + 1 \in 1..n
      BY <1>1, <1>12, <2>1
    <3>2. after[p + 1] = Step(after[p], p + 1)
      BY <1>10, <3>1
    <3>. QED
      BY <1>3, <3>1, <3>2
  <2>. QED
    BY <2>1
<1>. HIDE DEF T
<1>13. n \in T
  BY <1>1, <1>11, <1>12, SetInduction
<1>14. after[n] \in D
  BY <1>1, <1>13 DEF T
<1>. QED
  BY <1>9, <1>14 DEF D

LEMMA SyncFits ==
  ASSUME NEW u \in Nat, NEW w, Fits(w, u), NEW list, list \subseteq 1..u
  PROVE  /\ Fits(Sync(w, list), u) /\ LoadedFrom(Sync(w, list), w)
         /\ \A j \in 1..Len(Sync(w, list)) : Sync(w, list)[j].id \in list
<1>. DEFINE a == AddAll(w, list)
<1>1. Fits(a, u) /\ LoadedFrom(a, w)
  BY AddAllFits
<1>. HIDE DEF a
<1>2. /\ Fits(Keep(a, list), u) /\ LoadedFrom(Keep(a, list), a)
      /\ \A j \in 1..Len(Keep(a, list)) : Keep(a, list)[j].id \in list
  BY <1>1, KeepFits
<1>3. Sync(w, list) = Keep(a, list)
  BY DEF Sync, a
<1>. QED
  BY <1>1, <1>2, <1>3, LoadedFromIsTransitive

\* The frames that take p off the wall.
TakesDown(e, p) == e.kind = "cleared" \/ (e.kind = "removed" /\ e.id = p)

LEMMA FrameKinds ==
  ASSUME NEW e \in Frame
  PROVE  /\ e.kind \in {"planet", "removed", "cleared", "no planet"}
         /\ e.kind \in {"planet", "removed"} => e.id \in Planet
<1>1. CASE e \in [kind : {"planet", "removed"}, id : Planet]
  BY <1>1
<1>2. CASE e = [kind |-> "cleared"]
  BY <1>2
<1>3. CASE e = [kind |-> "no planet"]
  BY <1>3
<1>. QED
  BY <1>1, <1>2, <1>3 DEF Frame, Event

LEMMA HandleFits ==
  ASSUME NEW u \in Nat, NEW w, Fits(w, u), NEW e \in Frame, e.kind = "planet" => e.id <= u
  PROVE  /\ Fits(Handle(w, e), u) /\ LoadedFrom(Handle(w, e), w)
         /\ \A j \in 1..Len(Handle(w, e)) : ~TakesDown(e, Handle(w, e)[j].id)
<1>1. CASE e.kind = "planet"
  <2>1. Handle(w, e) = Add(w, e.id) /\ e.id \in Planet
    BY <1>1, FrameKinds DEF Handle
  <2>2. \A p : ~TakesDown(e, p)
    BY <1>1 DEF TakesDown
  <2>. QED
    BY <1>1, <2>1, <2>2, AddFits
<1>2. CASE e.kind = "removed"
  <2>1. Handle(w, e) = Keep(w, Planet \ {e.id})
    BY <1>2 DEF Handle, TakeDown
  <2>2. \A p : p \in Planet \ {e.id} => ~TakesDown(e, p)
    BY <1>2 DEF TakesDown
  <2>. QED
    BY <2>1, <2>2, KeepFits
<1>3. CASE e.kind = "cleared"
  <2>1. Handle(w, e) = << >>
    BY <1>3 DEF Handle
  <2>. QED
    BY <2>1, ConstantsAssumption DEF Fits, LoadedFrom
<1>4. CASE e.kind = "no planet"
  <2>1. Handle(w, e) = w
    BY <1>4 DEF Handle
  <2>2. \A p : ~TakesDown(e, p)
    BY <1>4 DEF TakesDown
  <2>. QED
    BY <2>1, <2>2 DEF LoadedFrom
<1>5. e.kind \in {"planet", "removed", "cleared", "no planet"}
  BY FrameKinds
<1>. QED
  BY <1>1, <1>2, <1>3, <1>4, <1>5

\* Whatever is not among the newest r of the planets up to n is that old.
LEMMA PrunedAreOld ==
  ASSUME NEW n \in Nat, NEW r \in Nat, NEW S, S \subseteq 1..n,
         NEW q \in S, q \notin Newest(S, r)
  PROVE  q <= n - r
<1>. DEFINE later == {x \in S : x > q}
<1>1. later \subseteq (q + 1)..n /\ q \in 1..n
  <2>1. q \in 1..n
    OBVIOUS
  <2>2. ASSUME NEW x \in later PROVE x \in (q + 1)..n
    <3>1. x \in 1..n /\ x > q
      OBVIOUS
    <3>. QED
      BY <2>1, <3>1
  <2>. QED
    BY <2>1, <2>2
<1>2. IsFiniteSet((q + 1)..n) /\ Cardinality((q + 1)..n) = n - q
  <2>1. q + 1 \in Int /\ n \in Int
    BY <1>1
  <2>2. /\ IsFiniteSet((q + 1)..n)
        /\ Cardinality((q + 1)..n) = IF q + 1 > n THEN 0 ELSE n - (q + 1) + 1
    BY <2>1, FS_Interval
  <2>. QED
    BY <1>1, <2>2
<1>3. Cardinality(later) \in Nat /\ Cardinality(later) <= n - q
  BY <1>1, <1>2, FS_Subset, FS_CardinalityType
<1>4. ~(Cardinality(later) < r)
  BY DEF Newest
<1>. QED
  BY <1>1, <1>3, <1>4

LEMMA NewestIsPart == ASSUME NEW S, NEW n PROVE Newest(S, n) \subseteq S
  BY DEF Newest

\* The newest of some planets is one of them.
LEMMA MaxIsMember ==
  ASSUME NEW n \in Nat, NEW S, S \subseteq 1..n, S # {}
  PROVE  Max(S) \in S
<1>1. S \in SUBSET (0..n)
  OBVIOUS
<1>2. \E m \in S : \A k \in S : m >= k
  BY <1>1, GreatestNatural
<1>. QED
  BY <1>2 DEF Max

\* The shapes of a fetch.
Fetches == {Idle, Asked} \cup {Answer(S, b) : S \in SUBSET Planet, b \in BOOLEAN}

LEMMA Stale ==
  ASSUME NEW x, NEW a, NEW S, NEW b, x = [stage |-> a, list |-> S, fresh |-> b]
  PROVE  [x EXCEPT !.fresh = FALSE] = [stage |-> a, list |-> S, fresh |-> FALSE]
<1>1. \A d : [[stage |-> a, list |-> S, fresh |-> b] EXCEPT !.fresh = d]
                = [stage |-> a, list |-> S, fresh |-> d]
  OBVIOUS
<1>. QED
  BY <1>1, Zenon

LEMMA AnswerIsFetch ==
  ASSUME NEW S \in SUBSET Planet, NEW b \in BOOLEAN
  PROVE  Answer(S, b) \in Fetches
  BY DEF Fetches

LEMMA FetchShape ==
  ASSUME NEW x \in Fetches
  PROVE  /\ x.list \subseteq Planet /\ x.fresh \in BOOLEAN
         /\ x = Idle <=> x.stage = "idle"
         /\ x.stage # "answered" => x.list = {} /\ ~x.fresh
         /\ [x EXCEPT !.fresh = FALSE] \in Fetches
         /\ [x EXCEPT !.fresh = FALSE].list = x.list
         /\ ~[x EXCEPT !.fresh = FALSE].fresh
         /\ [x EXCEPT !.fresh = FALSE] = Idle <=> x = Idle
<1>1. CASE x = Idle \/ x = Asked
  <2>1. [x EXCEPT !.fresh = FALSE] = x
    BY <1>1, Stale DEF Idle, Asked
  <2>2. /\ Idle.list = {} /\ Idle.fresh = FALSE /\ Idle.stage = "idle"
        /\ Asked.list = {} /\ Asked.fresh = FALSE /\ Asked.stage = "asked"
    BY DEF Idle, Asked
  <2>. QED
    BY <1>1, <2>1, <2>2
<1>2. ASSUME NEW S \in SUBSET Planet, NEW b \in BOOLEAN, x = Answer(S, b)
      PROVE  /\ x.list \subseteq Planet /\ x.fresh \in BOOLEAN
             /\ x = Idle <=> x.stage = "idle"
             /\ x.stage # "answered" => x.list = {} /\ ~x.fresh
             /\ [x EXCEPT !.fresh = FALSE] \in Fetches
             /\ [x EXCEPT !.fresh = FALSE].list = x.list
             /\ ~[x EXCEPT !.fresh = FALSE].fresh
             /\ [x EXCEPT !.fresh = FALSE] = Idle <=> x = Idle
  <2>1. [x EXCEPT !.fresh = FALSE] = Answer(S, FALSE)
    BY <1>2, Stale DEF Answer
  <2>2. Answer(S, FALSE) \in Fetches
    BY AnswerIsFetch
  <2>3. /\ x.stage = "answered" /\ x.list = S /\ x.fresh = b
        /\ Answer(S, FALSE).list = S /\ Answer(S, FALSE).stage = "answered"
        /\ Answer(S, FALSE).fresh = FALSE /\ Idle.stage = "idle"
    BY <1>2 DEF Answer, Idle
  <2>. QED
    BY <2>1, <2>2, <2>3
<1>3. x = Idle \/ x = Asked \/ \E S \in SUBSET Planet, b \in BOOLEAN : x = Answer(S, b)
  BY DEF Fetches
<1>. QED
  BY <1>1, <1>2, <1>3

\* An answer that is no longer the full story is still the same answer.
LEMMA FellBehind ==
  ASSUME fetch \in [Slot -> Fetches], FallBehind
  PROVE  /\ inStep' = FALSE
         /\ fetch' \in [Slot -> Fetches]
         /\ \A f \in Slot : fetch'[f].list = fetch[f].list /\ ~fetch'[f].fresh
         /\ \A f \in Slot : fetch'[f] = Idle <=> fetch[f] = Idle
  BY FetchShape DEF FallBehind

------------------------------------------------------------------------------
\* What is always so of each part of the state.
Server == uploaded \in 0..MaxUploads /\ store \subseteq 1..uploaded /\ up \in BOOLEAN

Fields ==
    /\ stream \in {"none", "asked", "subscribed", "streaming", "cut"}
    /\ link \in {"boot", "bare", "opening", "live", "down", "absent"}
    /\ polling \in BOOLEAN /\ inStep \in BOOLEAN
    /\ steady \subseteq 1..uploaded

\* Nothing that is on its way is about a planet that was never uploaded.
Past(s) == \A i \in 1..Len(s) : s[i].kind = "planet" => s[i].id <= uploaded
Lines   == queue \in Seq(Event) /\ wire \in Seq(Frame) /\ Past(queue) /\ Past(wire)

Answers == fetch \in [Slot -> Fetches] /\ \A f \in Slot : fetch[f].list \subseteq 1..uploaded

Sound == Server /\ Fields /\ Lines /\ Answers /\ Fits(wall, uploaded)

LEMMA NumberFacts ==
    /\ GallerySize \in Nat /\ GallerySize > 0 /\ Retention \in Nat /\ GallerySize <= Retention
    /\ QueueSize \in Nat /\ MaxUploads \in Nat /\ MaxLiveUploads \in Nat
    /\ MaxLiveUploads <= MaxUploads /\ Planet = 1..MaxUploads
  BY ConstantsAssumption DEF Planet

LEMMA SoundStarts == Init => Sound
<1>. SUFFICES ASSUME Init PROVE Sound
  OBVIOUS
<1>1. Server
  BY NumberFacts DEF Init, Server
<1>2. Fields
  BY ConstantsAssumption DEF Init, Fields
<1>3. Lines
  BY DEF Init, Lines, Past
<1>4. Answers
  <2>1. Idle \in Fetches /\ Asked \in Fetches
    BY DEF Fetches
  <2>2. Idle.list = {} /\ Asked.list = {}
    BY DEF Idle, Asked
  <2>. QED
    BY <2>1, <2>2 DEF Init, Answers, Booting
<1>5. Fits(wall, uploaded)
  BY NumberFacts DEF Init, Fits
<1>. QED
  BY <1>1, <1>2, <1>3, <1>4, <1>5 DEF Sound

\* The repository changes by an upload, a removal or a clearing only, and the
\* number of uploads never falls.
LEMMA ServerMoves ==
  ASSUME Next
  PROVE  Upload \/ Clear \/ (\E p \in Planet : Delete(p)) \/ UNCHANGED serverVars
  BY DEF Next, GoDown, GoUp, Reload, Accept, Prime, Forward, TakeFrame, PollTick, LinkFails,
         Retry, Respond, Apply, FetchFails, ManifestLoads, ManifestFails, ManifestBreaks

LEMMA ServerKept ==
  ASSUME Server, Next
  PROVE  /\ uploaded' \in 0..MaxUploads /\ store' \subseteq 1..uploaded'
         /\ uploaded \in Nat /\ uploaded' \in Nat /\ uploaded <= uploaded'
<1>0. uploaded \in Nat
  BY NumberFacts DEF Server
<1>1. CASE Upload
  <2>1. uploaded' = uploaded + 1 /\ uploaded < MaxUploads
    BY <1>1, NumberFacts DEF Server, Upload, MayUpload
  <2>2. store' \subseteq store \cup {uploaded + 1}
    BY <1>1, NewestIsPart DEF Upload
  <2>. QED
    BY <1>0, <2>1, <2>2, NumberFacts DEF Server
<1>2. CASE Clear
  BY <1>0, <1>2 DEF Clear, Server
<1>3. CASE \E p \in Planet : Delete(p)
  BY <1>0, <1>3 DEF Delete, Server
<1>4. CASE UNCHANGED serverVars
  BY <1>0, <1>4 DEF serverVars, Server
<1>. QED
  BY <1>1, <1>2, <1>3, <1>4, ServerMoves

LEMMA UpKept == Server /\ Next => up' \in BOOLEAN
  BY DEF Server, Next, Upload, Clear, Delete, Publish, GoDown, GoUp, Reload, Accept, Prime,
         Forward, TakeFrame, PollTick, LinkFails, Retry, Respond, Apply, FetchFails,
         ManifestLoads, ManifestFails, ManifestBreaks

LEMMA EventFacts ==
    /\ \A p \in Planet : [kind |-> "planet", id |-> p] \in Event
    /\ \A p \in Planet : [kind |-> "removed", id |-> p] \in Event
    /\ [kind |-> "cleared"] \in Event
    /\ Event \subseteq Frame /\ [kind |-> "no planet"] \in Frame
  BY DEF Event, Frame

\* What a use case publishes is about a planet that is known, and waits in the
\* queue or is lost.
LEMMA PublishKept ==
  ASSUME Lines, NEW e \in Event, Publish(e), uploaded \in Nat, uploaded' \in Nat,
         uploaded <= uploaded', e.kind = "planet" => e.id <= uploaded'
  PROVE  Lines'
<1>1. /\ queue \in Seq(Event) /\ wire \in Seq(Frame) /\ Past(queue) /\ Past(wire)
      /\ Event \subseteq Frame
  BY EventFacts DEF Lines
<1>2. ASSUME NEW s \in Seq(Frame), Past(s), NEW i \in 1..Len(s), s[i].kind = "planet"
      PROVE  s[i].id <= uploaded'
  <2>1. s[i].id \in Planet /\ s[i].id <= uploaded
    <3>1. s[i] \in Frame
      BY <1>2
    <3>. QED
      BY <1>2, <3>1, FrameKinds DEF Past
  <2>. QED
    BY <2>1, NumberFacts
<1>3. wire' = wire /\ (queue' = queue \/ queue' = Append(queue, e))
  BY DEF Publish
<1>4. wire' \in Seq(Frame) /\ Past(wire)'
  BY <1>1, <1>2, <1>3 DEF Past
<1>5. queue \in Seq(Frame)
  BY <1>1
<1>6. CASE queue' = queue
  BY <1>1, <1>2, <1>4, <1>5, <1>6 DEF Past, Lines
<1>7. CASE queue' = Append(queue, e)
  <2>1. /\ queue' \in Seq(Event) /\ Len(queue') = Len(queue) + 1
        /\ \A i \in 1..Len(queue) : queue'[i] = queue[i]
        /\ queue'[Len(queue) + 1] = e
    BY <1>1, <1>7
  <2>2. ASSUME NEW i \in 1..Len(queue'), queue'[i].kind = "planet" PROVE queue'[i].id <= uploaded'
    <3>1. CASE i \in 1..Len(queue)
      BY <1>1, <1>2, <1>5, <2>1, <2>2, <3>1
    <3>2. CASE i = Len(queue) + 1
      BY <2>1, <2>2, <3>2
    <3>. QED
      BY <1>1, <2>1, <3>1, <3>2
  <2>. QED
    BY <1>4, <2>1, <2>2 DEF Past, Lines
<1>. QED
  BY <1>3, <1>6, <1>7

\* The first pending event goes out as the last frame.
LEMMA ForwardKept ==
  ASSUME Lines, Forward, uploaded \in Nat
  PROVE  Lines'
<1>1. /\ queue \in Seq(Event) /\ wire \in Seq(Frame) /\ Past(queue) /\ Past(wire)
      /\ Event \subseteq Frame
  BY EventFacts DEF Lines
<1>2. /\ queue # << >> /\ wire' = Append(wire, Head(queue)) /\ queue' = Tail(queue)
      /\ uploaded' = uploaded
  BY DEF Forward, serverVars
<1>3. /\ Len(queue) \in Nat /\ Len(queue) > 0 /\ Head(queue) = queue[1] /\ queue[1] \in Event
  BY <1>1, <1>2
<1>4. /\ queue' \in Seq(Event) /\ Len(queue') = Len(queue) - 1
      /\ \A i \in 1..Len(queue') : queue'[i] = queue[i + 1] /\ i + 1 \in 1..Len(queue)
  BY <1>1, <1>2, <1>3
<1>5. Past(queue)'
  BY <1>1, <1>2, <1>4 DEF Past
<1>6. /\ wire' \in Seq(Frame) /\ Len(wire') = Len(wire) + 1
      /\ \A i \in 1..Len(wire) : wire'[i] = wire[i]
      /\ wire'[Len(wire) + 1] = queue[1]
  BY <1>1, <1>2, <1>3
<1>7. ASSUME NEW i \in 1..Len(wire'), wire'[i].kind = "planet" PROVE wire'[i].id <= uploaded
  <2>1. CASE i \in 1..Len(wire)
    BY <1>1, <1>6, <1>7, <2>1 DEF Past
  <2>2. CASE i = Len(wire) + 1
    BY <1>1, <1>3, <1>6, <1>7, <2>2 DEF Past
  <2>. QED
    BY <1>1, <1>6, <2>1, <2>2
<1>. QED
  BY <1>2, <1>4, <1>5, <1>6, <1>7 DEF Past, Lines

\* The stream is primed with the newest planet there is, or with the news that
\* there is none.
LEMMA PrimeKept ==
  ASSUME Server, Lines, Prime, uploaded \in Nat
  PROVE  Lines'
<1>. DEFINE e == IF store = {} THEN [kind |-> "no planet"] ELSE [kind |-> "planet", id |-> Max(store)]
<1>1. wire' = Append(wire, e) /\ queue' = queue /\ uploaded' = uploaded
  BY DEF Prime, serverVars
<1>2. e \in Frame /\ (e.kind = "planet" => e.id <= uploaded)
  <2>1. CASE store = {}
    BY <2>1, EventFacts
  <2>2. CASE store # {}
    <3>1. Max(store) \in 1..uploaded
      BY <2>2, MaxIsMember DEF Server
    <3>2. Max(store) \in Planet /\ Max(store) <= uploaded
      BY <3>1, NumberFacts DEF Server
    <3>3. e = [kind |-> "planet", id |-> Max(store)]
      BY <2>2
    <3>. HIDE DEF e
    <3>. QED
      BY <3>2, <3>3, EventFacts
  <2>. QED
    BY <2>1, <2>2
<1>. HIDE DEF e
<1>3. wire \in Seq(Frame) /\ Past(wire) /\ queue \in Seq(Event) /\ Past(queue)
  BY DEF Lines
<1>4. /\ wire' \in Seq(Frame) /\ Len(wire') = Len(wire) + 1
      /\ \A i \in 1..Len(wire) : wire'[i] = wire[i]
      /\ wire'[Len(wire) + 1] = e
  BY <1>1, <1>2, <1>3
<1>5. ASSUME NEW i \in 1..Len(wire'), wire'[i].kind = "planet" PROVE wire'[i].id <= uploaded
  <2>1. CASE i \in 1..Len(wire)
    BY <1>3, <1>4, <1>5, <2>1 DEF Past
  <2>2. CASE i = Len(wire) + 1
    BY <1>2, <1>4, <1>5, <2>2 DEF Past
  <2>. QED
    BY <1>3, <1>4, <2>1, <2>2
<1>. QED
  BY <1>1, <1>3, <1>4, <1>5 DEF Past, Lines

LEMMA TakenKept ==
  ASSUME Lines, TakeFrame
  PROVE  Lines'
<1>1. wire \in Seq(Frame) /\ wire # << >> /\ Past(wire) /\ queue \in Seq(Event) /\ Past(queue)
  BY DEF Lines, TakeFrame
<1>2. wire' = Tail(wire) /\ queue' = queue /\ uploaded' = uploaded
  BY DEF TakeFrame, serverVars
<1>3. /\ wire' \in Seq(Frame) /\ Len(wire') = Len(wire) - 1
      /\ \A i \in 1..Len(wire') : wire'[i] = wire[i + 1] /\ i + 1 \in 1..Len(wire)
  BY <1>1, <1>2
<1>. QED
  BY <1>1, <1>2, <1>3 DEF Past, Lines

\* Frames and events are only added by what is above; they are kept or dropped as
\* a whole by everything else.
LEMMA LinesKept ==
  ASSUME Server, Lines, Next
  PROVE  Lines'
<1>1. uploaded \in Nat /\ uploaded' \in Nat /\ uploaded' \in 0..MaxUploads /\ uploaded <= uploaded'
  BY ServerKept
<1>2. CASE Upload
  <2>1. uploaded' \in Planet /\ uploaded' = uploaded + 1
    BY <1>1, <1>2, NumberFacts DEF Upload
  <2>2. PICK e \in Event : e.kind = "planet" /\ e.id = uploaded' /\ Publish(e)
    BY <1>2, <2>1, EventFacts DEF Upload
  <2>3. e.id <= uploaded'
    BY <1>1, <2>2
  <2>. QED
    BY <1>1, <2>2, <2>3, PublishKept
<1>3. CASE Clear
  BY <1>1, <1>3, PublishKept, EventFacts DEF Clear
<1>4. ASSUME NEW p \in Planet, Delete(p) PROVE Lines'
  BY <1>1, <1>4, PublishKept, EventFacts DEF Delete
<1>5. << >> \in Seq(Event) /\ << >> \in Seq(Frame) /\ Past(<< >>)'
  BY DEF Past
<1>6. CASE GoDown
  BY <1>5, <1>6 DEF GoDown, Lines, Past, serverVars
<1>7. CASE Retry \/ Reload
  BY <1>5, <1>7 DEF Retry, Reload, Connect, Lines
<1>8. CASE LinkFails
  BY <1>5, <1>8 DEF LinkFails, Lines, Past, serverVars
<1>9. ASSUME NEW f \in Slot, Apply(f) \/ FetchFails(f) PROVE Lines'
  <2>1. \/ queue' = queue /\ wire' = wire
        \/ queue' = << >> /\ wire' = << >>
    <3>1. AfterFetch(f)
      BY <1>9 DEF Apply, FetchFails
    <3>2. CASE UNCHANGED <<streamVars, polling, steady>>
      BY <3>2 DEF streamVars
    <3>3. CASE Connect
      BY <3>3 DEF Connect
    <3>4. CASE UNCHANGED <<stream, queue, wire, steady>>
      BY <3>4
    <3>. QED
      BY <3>1, <3>2, <3>3, <3>4 DEF AfterFetch
  <2>2. uploaded' = uploaded
    BY <1>9 DEF Apply, FetchFails, serverVars
  <2>. QED
    BY <1>5, <2>1, <2>2 DEF Lines, Past
<1>10. CASE UNCHANGED <<uploaded, queue, wire>>
  BY <1>10 DEF Lines, Past
<1>11. GoUp \/ Accept \/ PollTick => UNCHANGED <<uploaded, queue, wire>>
  BY DEF GoUp, Accept, PollTick, serverVars, streamVars
<1>12. ASSUME NEW f \in Slot, Respond(f) PROVE UNCHANGED <<uploaded, queue, wire>>
  BY <1>12 DEF Respond, serverVars, streamVars
<1>13. ASSUME NEW i \in DOMAIN wall, ManifestLoads(i) \/ ManifestFails(i) \/ ManifestBreaks(i)
       PROVE  UNCHANGED <<uploaded, queue, wire>>
  BY <1>13 DEF ManifestLoads, ManifestFails, ManifestBreaks, serverVars, streamVars
<1>. QED
  BY <1>1, <1>2, <1>3, <1>4, <1>6, <1>7, <1>8, <1>9, <1>10, <1>11, <1>12, <1>13,
     ForwardKept, PrimeKept, TakenKept DEF Next

LEMMA SteadyKept ==
  ASSUME Server, Fields, Next
  PROVE  steady' \subseteq 1..uploaded'
<1>1. uploaded \in Nat /\ uploaded' \in Nat /\ uploaded <= uploaded'
  BY ServerKept
<1>2. \A p \in steady : p \in 1..uploaded'
  BY <1>1 DEF Fields
<1>3. CASE Upload
  <2>1. uploaded' = uploaded + 1 /\ steady' \subseteq steady \cup {uploaded + 1}
    BY <1>3 DEF Upload
  <2>. QED
    BY <1>1, <1>2, <2>1
<1>4. ASSUME NEW f \in Slot, AfterFetch(f) PROVE steady' \subseteq steady
  <2>1. CASE UNCHANGED <<streamVars, polling, steady>>
    BY <2>1
  <2>2. CASE Connect
    BY <2>2 DEF Connect
  <2>3. CASE UNCHANGED <<stream, queue, wire, steady>>
    BY <2>3
  <2>. QED
    BY <1>4, <2>1, <2>2, <2>3 DEF AfterFetch
<1>5. Upload \/ steady' \subseteq steady
  BY <1>4 DEF Next, Clear, Delete, GoDown, GoUp, Reload, Accept, Prime, Forward, TakeFrame,
     PollTick, LinkFails, Retry, Connect, Respond, Apply, FetchFails, ManifestLoads,
     ManifestFails, ManifestBreaks, historyVars
<1>. QED
  BY <1>2, <1>3, <1>5

LEMMA AfterFetchFields ==
  ASSUME NEW f \in Slot, AfterFetch(f), Fields
  PROVE  /\ stream' \in {"none", "asked", "subscribed", "streaming", "cut"}
         /\ link' \in {"boot", "bare", "opening", "live", "down", "absent"}
         /\ polling' \in BOOLEAN
<1>1. CASE UNCHANGED <<streamVars, polling, steady>>
  BY <1>1 DEF Fields, streamVars
<1>2. CASE Connect /\ UNCHANGED polling
  BY <1>2 DEF Fields, Connect
<1>3. CASE link' = "absent" /\ polling' = TRUE /\ UNCHANGED <<stream, queue, wire, steady>>
  BY <1>3 DEF Fields
<1>. QED
  BY <1>1, <1>2, <1>3 DEF AfterFetch

LEMMA FieldsKept ==
  ASSUME Server, Fields, Answers, Next
  PROVE  Fields'
<1>. DEFINE Typed == /\ stream \in {"none", "asked", "subscribed", "streaming", "cut"}
                     /\ link \in {"boot", "bare", "opening", "live", "down", "absent"}
                     /\ polling \in BOOLEAN /\ inStep \in BOOLEAN
<1>0. Typed
  BY DEF Fields
<1>1. ASSUME NEW e, Publish(e) PROVE Typed'
  BY <1>0, <1>1 DEF Publish, FallBehind
<1>2. Upload \/ Clear \/ (\E p \in Planet : Delete(p)) => Typed'
  BY <1>1 DEF Upload, Clear, Delete
<1>3. GoDown \/ GoUp \/ Reload \/ Accept \/ Prime \/ Forward => Typed'
  BY <1>0 DEF GoDown, GoUp, Reload, Accept, Prime, Forward, FallBehind, streamVars, historyVars
<1>4. TakeFrame \/ PollTick \/ LinkFails \/ Retry => Typed'
  BY <1>0 DEF TakeFrame, PollTick, LinkFails, Retry, Connect, StartPolling, streamVars, historyVars
<1>5. ASSUME NEW f \in Slot, Apply(f) \/ FetchFails(f) PROVE Typed'
  <2>1. AfterFetch(f)
    BY <1>5 DEF Apply, FetchFails
  <2>2. inStep' \in BOOLEAN
    <3>1. fetch[f].fresh \in BOOLEAN
      BY FetchShape DEF Answers
    <3>. QED
      BY <1>0, <1>5, <3>1 DEF Apply, FetchFails
  <2>. QED
    BY <2>1, <2>2, AfterFetchFields
<1>6. ASSUME NEW f \in Slot, Respond(f) PROVE Typed'
  BY <1>0, <1>6 DEF Respond, streamVars, historyVars
<1>7. ASSUME NEW i \in DOMAIN wall, ManifestLoads(i) \/ ManifestFails(i) \/ ManifestBreaks(i) PROVE Typed'
  BY <1>0, <1>7 DEF ManifestLoads, ManifestFails, ManifestBreaks, streamVars, historyVars
<1>8. Typed'
  BY <1>2, <1>3, <1>4, <1>5, <1>6, <1>7 DEF Next
<1>. QED
  BY <1>8, SteadyKept DEF Fields

\* Where the page stands, a fetch is what it was, older, or one that names known
\* planets only.
LEMMA FetchesChange ==
  ASSUME Answers, fetch' \in [Slot -> Fetches], uploaded \in Nat, uploaded' \in Nat,
         uploaded <= uploaded',
         \A f \in Slot : fetch'[f].list = fetch[f].list \/ fetch'[f].list \subseteq 1..uploaded
  PROVE  Answers'
<1>1. ASSUME NEW f \in Slot PROVE fetch'[f].list \subseteq 1..uploaded'
  <2>1. fetch'[f].list \subseteq 1..uploaded
    BY DEF Answers
  <2>2. \A p \in 1..uploaded : p \in 1..uploaded'
    OBVIOUS
  <2>. QED
    BY <2>1, <2>2
<1>. QED
  BY <1>1 DEF Answers

LEMMA AnswersKept ==
  ASSUME Server, Answers, Next
  PROVE  Answers'
<1>1. uploaded \in Nat /\ uploaded' \in Nat /\ uploaded <= uploaded'
  BY ServerKept
<1>2. fetch \in [Slot -> Fetches]
  BY DEF Answers
<1>3. /\ Idle \in Fetches /\ Asked \in Fetches
      /\ Idle.list \subseteq 1..uploaded /\ Asked.list \subseteq 1..uploaded
  BY DEF Fetches, Idle, Asked
<1>4. FallBehind => Answers'
  <2>. SUFFICES ASSUME FallBehind PROVE Answers'
    OBVIOUS
  <2>1. fetch' \in [Slot -> Fetches] /\ \A f \in Slot : fetch'[f].list = fetch[f].list
    BY <1>2, FellBehind
  <2>. QED
    BY <1>1, <2>1, FetchesChange
<1>5. fetch' = fetch => Answers'
  BY <1>1, <1>2, FetchesChange
<1>6. ASSUME NEW f \in Slot, Ask(f) PROVE Answers'
  BY <1>1, <1>2, <1>3, <1>6, FetchesChange DEF Ask
<1>7. ASSUME NEW f \in Slot, AfterFetch(f) PROVE Answers'
  <2>1. CASE fetch' = [fetch EXCEPT ![f] = Idle]
    BY <1>1, <1>2, <1>3, <2>1, FetchesChange
  <2>2. CASE fetch' = [fetch EXCEPT ![f] = Idle, !["poll"] = Asked]
    BY <1>1, <1>2, <1>3, <2>2, FetchesChange
  <2>. QED
    BY <1>7, <2>1, <2>2 DEF AfterFetch
<1>8. ASSUME NEW e, Publish(e) PROVE Answers'
  BY <1>4, <1>5, <1>8 DEF Publish
<1>9. Upload \/ Clear \/ (\E p \in Planet : Delete(p)) => Answers'
  BY <1>8 DEF Upload, Clear, Delete
<1>10. GoDown \/ GoUp \/ Accept \/ Prime \/ Forward => Answers'
  BY <1>4, <1>5 DEF GoDown, GoUp, Accept, Prime, Forward
<1>11. Reload => Answers'
  <2>1. ASSUME Reload PROVE fetch' = Booting
    BY <2>1 DEF Reload
  <2>2. Booting \in [Slot -> Fetches] /\ \A f \in Slot : Booting[f].list \subseteq 1..uploaded
    BY <1>3 DEF Booting
  <2>. QED
    BY <1>1, <2>1, <2>2, FetchesChange
<1>12. "poll" \in Slot /\ LiveSlot \subseteq Slot
  BY DEF Slot
<1>13. TakeFrame \/ PollTick \/ LinkFails \/ Retry => Answers'
  BY <1>5, <1>6, <1>12 DEF TakeFrame, PollTick, LinkFails, Retry, StartPolling
<1>14. ASSUME NEW f \in Slot, Respond(f) PROVE Answers'
  <2>. DEFINE b == Listening
  <2>1. PICK S \in SUBSET Planet, c \in BOOLEAN :
            fetch' = [fetch EXCEPT ![f] = Answer(S, c)] /\ S \subseteq 1..uploaded
    <3>1. Gallery \subseteq 1..uploaded
      BY NewestIsPart DEF Gallery, Server
    <3>2. Gallery \in SUBSET Planet
      BY <3>1, NumberFacts DEF Server
    <3>3. Listening \in BOOLEAN
      BY DEF Listening
    <3>. QED
      BY <1>14, <3>1, <3>2, <3>3 DEF Respond
  <2>2. Answer(S, c) \in Fetches /\ Answer(S, c).list = S
    BY AnswerIsFetch DEF Answer
  <2>. QED
    BY <1>1, <1>2, <2>1, <2>2, FetchesChange
<1>15. ASSUME NEW f \in Slot, Apply(f) \/ FetchFails(f) PROVE Answers'
  BY <1>7, <1>15 DEF Apply, FetchFails
<1>16. ASSUME NEW i \in DOMAIN wall, ManifestLoads(i) \/ ManifestFails(i) \/ ManifestBreaks(i) PROVE Answers'
  BY <1>5, <1>16 DEF ManifestLoads, ManifestFails, ManifestBreaks
<1>. QED
  BY <1>9, <1>10, <1>11, <1>13, <1>14, <1>15, <1>16 DEF Next

\* A manifest that loads changes the entry of its planet and nothing else.
LEMMA LoadFits ==
  ASSUME NEW u \in Nat, NEW w, Fits(w, u), NEW i \in 1..Len(w)
  PROVE  LET v == [w EXCEPT ![i].loaded = TRUE]
         IN  /\ Fits(v, u) /\ Len(v) = Len(w)
             /\ \A j \in 1..Len(w) : v[j].id = w[j].id /\ (j # i => v[j] = w[j])
<1>. DEFINE v == [w EXCEPT ![i].loaded = TRUE]
<1>1. /\ w \in Seq(Entry) /\ Len(w) \in Nat /\ DOMAIN w = 1..Len(w)
      /\ \A j \in 1..Len(w) : w[j] \in Entry
  BY DEF Fits
<1>2. /\ [w[i] EXCEPT !.loaded = TRUE] \in Entry
      /\ [w[i] EXCEPT !.loaded = TRUE].id = w[i].id
  BY <1>1 DEF Entry
<1>3. v = [w EXCEPT ![i] = [w[i] EXCEPT !.loaded = TRUE]]
  OBVIOUS
<1>. DEFINE e == [w[i] EXCEPT !.loaded = TRUE]
<1>. HIDE DEF v, e
<1>4. v \in Seq(Entry) /\ Len(v) = Len(w)
  BY <1>1, <1>2, <1>3 DEF e
<1>5. \A j \in 1..Len(w) : v[j] = IF j = i THEN e ELSE w[j]
  BY <1>1, <1>3 DEF e
<1>6. \A j \in 1..Len(w) : v[j].id = w[j].id /\ (j # i => v[j] = w[j])
  BY <1>2, <1>5 DEF e
<1>7. Fits(v, u)
  BY <1>4, <1>6 DEF Fits
<1>. QED
  BY <1>4, <1>6, <1>7 DEF v

LEMMA WallKept ==
  ASSUME Server, Lines, Answers, Fits(wall, uploaded), Next
  PROVE  Fits(wall, uploaded)'
<1>1. uploaded \in Nat /\ uploaded' \in Nat /\ uploaded <= uploaded'
  BY ServerKept
<1>2. CASE UNCHANGED wall
  <2>1. \A i \in 1..Len(wall) : wall[i].id <= uploaded /\ wall[i].id \in Nat
    <3>1. \A i \in 1..Len(wall) : wall[i] \in Entry /\ wall[i].id <= uploaded
      BY DEF Fits
    <3>2. \A e \in Entry : e.id \in Nat
      BY NumberFacts DEF Entry
    <3>. QED
      BY <3>1, <3>2
  <2>2. \A i \in 1..Len(wall) : wall[i].id <= uploaded'
    BY <1>1, <2>1
  <2>. QED
    BY <1>2, <2>2 DEF Fits
<1>3. CASE TakeFrame
  <2>1. wall' = Handle(wall, Head(wire)) /\ uploaded' = uploaded /\ wire # << >>
    BY <1>3 DEF TakeFrame, serverVars
  <2>2. Head(wire) \in Frame /\ (Head(wire).kind = "planet" => Head(wire).id <= uploaded)
    BY <2>1 DEF Lines, Past
  <2>. QED
    BY <1>1, <2>1, <2>2, HandleFits
<1>4. ASSUME NEW f \in Slot, Apply(f) PROVE Fits(wall, uploaded)'
  <2>1. wall' = Sync(wall, fetch[f].list) /\ uploaded' = uploaded /\ fetch[f].list \subseteq 1..uploaded
    BY <1>4 DEF Apply, Answers, serverVars
  <2>. QED
    BY <1>1, <2>1, SyncFits
<1>5. ASSUME NEW i \in DOMAIN wall, ManifestLoads(i) PROVE Fits(wall, uploaded)'
  <2>1. i \in 1..Len(wall) /\ wall' = [wall EXCEPT ![i].loaded = TRUE] /\ uploaded' = uploaded
    BY <1>5 DEF ManifestLoads, Fits, serverVars
  <2>. QED
    BY <1>1, <2>1, LoadFits
<1>6. ASSUME NEW i \in DOMAIN wall, ManifestFails(i) \/ ManifestBreaks(i)
      PROVE  Fits(wall, uploaded)'
  <2>1. wall' = Keep(wall, Planet \ {wall[i].id}) /\ uploaded' = uploaded
    BY <1>6 DEF ManifestFails, ManifestBreaks, TakeDown, serverVars
  <2>. QED
    BY <1>1, <2>1, KeepFits
<1>7. CASE Reload
  <2>1. wall' = << >> /\ uploaded' = uploaded
    BY <1>7 DEF Reload, serverVars
  <2>. QED
    BY <2>1, NumberFacts DEF Fits
<1>8. Upload \/ Clear \/ (\E p \in Planet : Delete(p)) => UNCHANGED wall
  BY DEF Upload, Clear, Delete, Publish
<1>9. GoDown \/ GoUp \/ Accept \/ Prime \/ Forward \/ PollTick \/ LinkFails \/ Retry => UNCHANGED wall
  BY DEF GoDown, GoUp, Accept, Prime, Forward, PollTick, LinkFails, Retry
<1>10. ASSUME NEW f \in Slot, Respond(f) \/ FetchFails(f) PROVE UNCHANGED wall
  BY <1>10 DEF Respond, FetchFails
<1>. QED
  BY <1>2, <1>3, <1>4, <1>5, <1>6, <1>7, <1>8, <1>9, <1>10 DEF Next

LEMMA SoundStutters == Sound /\ UNCHANGED vars => Sound'
  BY DEF Sound, Server, Fields, Lines, Past, Answers, Fits, vars, serverVars, streamVars, historyVars

LEMMA AlwaysSound == SafeSpec => []Sound
<1>1. ASSUME Sound, Next PROVE Sound'
  <2>1. Server'
    BY <1>1, ServerKept, UpKept DEF Sound, Server
  <2>. QED
    BY <1>1, <2>1, FieldsKept, LinesKept, AnswersKept, WallKept DEF Sound
<1>. QED
  BY SoundStarts, <1>1, SoundStutters, PTL DEF SafeSpec

------------------------------------------------------------------------------
LEMMA SoundIsTyped == Sound => TypeOK
<1>. SUFFICES ASSUME Sound PROVE TypeOK
  OBVIOUS
<1>1. 1..uploaded \subseteq Planet
  BY NumberFacts DEF Sound, Server
<1>. QED
  BY <1>1 DEF Sound, Server, Fields, Lines, Answers, Fetches, Fits, Entry, TypeOK

LEMMA EachOnce ==
  ASSUME NEW u \in Nat, NEW w, Fits(w, u)
  PROVE  IsFiniteSet(OnWall(w)) /\ Cardinality(OnWall(w)) = Len(w)
<1>. DEFINE n == Len(w)
            at == [i \in 1..n |-> w[i].id]
<1>1. /\ w \in Seq(Entry) /\ n \in Nat /\ DOMAIN w = 1..n
      /\ \A i, j \in 1..n : w[i].id = w[j].id => i = j
  BY DEF Fits
<1>2. OnWall(w) = {w[i].id : i \in 1..n}
  BY <1>1 DEF OnWall
<1>. HIDE DEF n
<1>3. at \in Bijection(1..n, OnWall(w))
  BY <1>1, <1>2 DEF Bijection, Injection, Surjection, IsInjective
<1>4. ExistsBijection(1..n, OnWall(w))
  BY <1>3 DEF ExistsBijection
<1>. QED
  BY <1>1, <1>4, FS_CountingElements, FS_NatBijection DEF n

\* Always, whatever frames and answers are mixed, in whatever order: the wall holds
\* at most GallerySize planets, and none of them twice.
THEOREM WallAlwaysFits == SafeSpec => []WallFits
<1>1. ASSUME Sound PROVE WallFits
  <2>1. uploaded \in Nat /\ Fits(wall, uploaded)
    BY <1>1, NumberFacts DEF Sound, Server
  <2>. QED
    BY <1>1, <2>1, EachOnce, SoundIsTyped DEF WallFits, Shown, Fits
<1>. QED
  BY <1>1, AlwaysSound, PTL
------------------------------------------------------------------------------
\* How the ends of the stream go together: a page that has none open is told
\* nothing, and a live one had a frame of this stream and polls no more.
Links ==
    /\ link \in {"boot", "bare", "down", "absent"} => stream = "none"
    /\ link = "live" => stream \in {"streaming", "cut"} /\ ~polling
    /\ stream \in {"none", "asked", "cut"} => queue = << >>
    /\ stream \in {"none", "asked", "subscribed"} => wire = << >>
    /\ stream \in {"asked", "subscribed", "streaming"} => up

\* Uploads count as steady while the page is live and reads no gallery.
SteadyIdle == steady # {} => link = "live" /\ NoFetch

LEMMA LinksStart == Init => Links /\ SteadyIdle
  BY ConstantsAssumption DEF Init, Links, SteadyIdle

LEMMA LinksKept ==
  ASSUME Fields, Links, Next
  PROVE  Links'
<1>1. ASSUME NEW e, Publish(e) PROVE Links'
  BY <1>1 DEF Links, Publish, Listening
<1>2. Upload \/ Clear \/ (\E p \in Planet : Delete(p)) => Links'
  BY <1>1 DEF Upload, Clear, Delete
<1>3. GoDown => Links'
  BY DEF GoDown, Fields, Links
<1>4. GoUp \/ Accept => Links'
  BY DEF GoUp, Accept, Fields, Links, streamVars
<1>12. Prime \/ Forward => Links'
  <2>1. ASSUME Prime PROVE /\ stream = "subscribed" /\ stream' = "streaming"
                           /\ up' = up /\ link' = link /\ polling' = polling
    BY <2>1 DEF Prime
  <2>2. ASSUME Forward PROVE /\ stream = "streaming" /\ stream' = "streaming"
                             /\ up' = up /\ link' = link /\ polling' = polling
    BY <2>2 DEF Forward
  <2>. QED
    BY <2>1, <2>2 DEF Links
<1>5. Reload \/ Retry => Links'
  BY DEF Reload, Retry, Connect, Fields, Links
<1>6. TakeFrame => Links'
  BY DEF TakeFrame, Fields, Links
<1>7. LinkFails => Links'
  BY DEF LinkFails, StartPolling, Fields, Links
<1>8. PollTick => Links'
  BY DEF PollTick, Links, streamVars
<1>9. ASSUME NEW f \in Slot, Apply(f) \/ FetchFails(f) PROVE Links'
  <2>1. AfterFetch(f) /\ up' = up
    BY <1>9 DEF Apply, FetchFails
  <2>2. CASE UNCHANGED <<streamVars, polling, steady>>
    BY <2>1, <2>2 DEF Links, streamVars
  <2>3. CASE Connect
    BY <2>1, <2>3 DEF Connect, Links
  <2>4. CASE link = "bare" /\ link' = "absent" /\ UNCHANGED <<stream, queue, wire, steady>>
    BY <2>1, <2>4 DEF Links
  <2>. QED
    BY <2>1, <2>2, <2>3, <2>4 DEF AfterFetch
<1>10. ASSUME NEW f \in Slot, Respond(f) PROVE Links'
  BY <1>10 DEF Respond, Links, streamVars
<1>11. ASSUME NEW i \in DOMAIN wall, ManifestLoads(i) \/ ManifestFails(i) \/ ManifestBreaks(i) PROVE Links'
  BY <1>11 DEF ManifestLoads, ManifestFails, ManifestBreaks, Links, streamVars
<1>. QED
  BY <1>2, <1>3, <1>4, <1>5, <1>6, <1>7, <1>8, <1>9, <1>10, <1>11, <1>12 DEF Next

LEMMA SteadyIdleKept ==
  ASSUME Answers, Links, SteadyIdle, Next
  PROVE  SteadyIdle'
<1>0. fetch \in [Slot -> Fetches]
  BY DEF Answers
<1>1. FallBehind /\ NoFetch => NoFetch'
  BY <1>0, FellBehind DEF NoFetch
<1>2. ASSUME NEW e, Publish(e), NoFetch PROVE link' = link /\ NoFetch'
  BY <1>1, <1>2 DEF Publish, NoFetch
<1>3. CASE Upload
  <2>1. link' = link /\ (NoFetch => NoFetch')
    BY <1>2, <1>3 DEF Upload, Publish
  <2>2. steady' = steady \/ (link = "live" /\ NoFetch)
    BY <1>3 DEF Upload
  <2>. QED
    BY <2>1, <2>2 DEF SteadyIdle
<1>4. Clear \/ (\E p \in Planet : Delete(p)) => SteadyIdle'
  BY <1>2 DEF Clear, Delete, SteadyIdle
<1>5. GoDown => SteadyIdle'
  BY <1>1 DEF GoDown, SteadyIdle
<1>6. GoUp \/ Accept \/ Prime \/ Forward => SteadyIdle'
  BY DEF GoUp, Accept, Prime, Forward, SteadyIdle, NoFetch, streamVars, historyVars
<1>7. Reload \/ Retry \/ LinkFails => SteadyIdle'
  BY DEF Reload, Retry, LinkFails, Connect, SteadyIdle
<1>8. TakeFrame => SteadyIdle'
  BY DEF TakeFrame, SteadyIdle, NoFetch
<1>9. PollTick => SteadyIdle'
  BY DEF PollTick, Links, SteadyIdle, historyVars
<1>10. ASSUME NEW f \in Slot, Respond(f) \/ Apply(f) \/ FetchFails(f) PROVE SteadyIdle'
  <2>1. fetch[f] # Idle
    BY <1>10 DEF Respond, Apply, FetchFails, Idle, Asked
  <2>2. steady = {}
    BY <2>1 DEF SteadyIdle, NoFetch
  <2>3. CASE Respond(f)
    BY <2>2, <2>3 DEF Respond, SteadyIdle, historyVars
  <2>4. CASE Apply(f) \/ FetchFails(f)
    <3>1. AfterFetch(f)
      BY <2>4 DEF Apply, FetchFails
    <3>2. steady' = {}
      <4>1. CASE UNCHANGED <<streamVars, polling, steady>>
        BY <2>2, <4>1
      <4>2. CASE Connect
        BY <4>2 DEF Connect
      <4>3. CASE UNCHANGED <<stream, queue, wire, steady>>
        BY <2>2, <4>3
      <4>. QED
        BY <3>1, <4>1, <4>2, <4>3 DEF AfterFetch
    <3>. QED
      BY <3>2 DEF SteadyIdle
  <2>. QED
    BY <1>10, <2>3, <2>4
<1>11. ASSUME NEW i \in DOMAIN wall, ManifestLoads(i) \/ ManifestFails(i) \/ ManifestBreaks(i) PROVE SteadyIdle'
  BY <1>11 DEF ManifestLoads, ManifestFails, ManifestBreaks, SteadyIdle, NoFetch, streamVars, historyVars
<1>. QED
  BY <1>3, <1>4, <1>5, <1>6, <1>7, <1>8, <1>9, <1>10, <1>11 DEF Next

LEMMA AlwaysLinked == SafeSpec => [](Links /\ SteadyIdle)
<1>1. Sound /\ Links /\ SteadyIdle /\ Next => (Links /\ SteadyIdle)'
  BY LinksKept, SteadyIdleKept DEF Sound
<1>2. Links /\ SteadyIdle /\ UNCHANGED vars => (Links /\ SteadyIdle)'
  BY DEF Links, SteadyIdle, NoFetch, vars, streamVars, historyVars
<1>. QED
  BY LinksStart, <1>1, <1>2, AlwaysSound, PTL DEF SafeSpec

------------------------------------------------------------------------------
\* A planet that staff took down, rather than one that grew too old.
Gone(p) == p \notin store /\ p > uploaded - Retention

\* Its removal is on the way to the wall.
RemovalComing(p) ==
    \/ \E i \in 1..Len(wire) : TakesDown(wire[i], p)
    \/ \E i \in 1..Len(queue) : TakesDown(queue[i], p)

\* The wall shows it, and not only waits for its manifest.
Loaded(p) == \E i \in 1..Len(wall) : wall[i].id = p /\ wall[i].loaded

\* What the wall shows of the planets in L is true, or about to be put right.
Trusted(L) == \A p \in L : Loaded(p) /\ Gone(p) => RemovalComing(p)

\* A wall in step, and one that takes an answer read while its stream listened,
\* hears of every planet that is taken down.
NewsComes ==
    /\ inStep => Listening /\ Trusted(Planet)
    /\ \A f \in Slot : fetch[f].fresh => Listening /\ Trusted(fetch[f].list)

\* Who does not listen does not rely on the stream.
LEMMA DeafIsNotInStep ==
  ASSUME NewsComes, ~Listening
  PROVE  ~inStep /\ \A f \in Slot : ~fetch[f].fresh
  BY DEF NewsComes

LEMMA NoReliance ==
  ASSUME ~inStep', \A f \in Slot : ~fetch'[f].fresh
  PROVE  NewsComes'
  BY DEF NewsComes

\* No answer becomes fresh by growing old.
Older == \A f \in Slot : fetch'[f].fresh => fetch[f].fresh /\ fetch'[f].list = fetch[f].list

LEMMA AnswersGrowOld ==
  ASSUME fetch \in [Slot -> Fetches]
  PROVE  /\ fetch' = fetch => Older
         /\ \A f \in Slot : Ask(f) => Older
         /\ \A f \in Slot : AfterFetch(f) => Older /\ ~fetch'[f].fresh
         /\ FallBehind => Older
<1>1. ~Idle.fresh /\ ~Asked.fresh
  BY DEF Idle, Asked
<1>2. ASSUME NEW f \in Slot, Ask(f) PROVE Older
  BY <1>1, <1>2 DEF Ask, Older
<1>3. ASSUME NEW f \in Slot, AfterFetch(f) PROVE Older /\ ~fetch'[f].fresh
  <2>1. CASE fetch' = [fetch EXCEPT ![f] = Idle]
    BY <1>1, <2>1 DEF Older
  <2>2. CASE fetch' = [fetch EXCEPT ![f] = Idle, !["poll"] = Asked]
    BY <1>1, <2>2 DEF Older
  <2>. QED
    BY <1>3, <2>1, <2>2 DEF AfterFetch
<1>4. FallBehind => Older
  BY FellBehind DEF Older
<1>. QED
  BY <1>2, <1>3, <1>4 DEF Older

\* The argument that most steps share.
LEMMA NewsStillComes ==
  ASSUME NewsComes, Answers, Listening => Listening', inStep' => inStep, Older,
         \A p \in Planet : Loaded(p)' => Loaded(p),
         \A p \in Planet : Loaded(p)' /\ Gone(p)' => Gone(p) \/ RemovalComing(p)',
         \A p \in Planet : Loaded(p)' /\ RemovalComing(p) => RemovalComing(p)'
  PROVE  NewsComes'
<1>1. ASSUME NEW L, L \subseteq Planet, Trusted(L) PROVE Trusted(L)'
  <2>. SUFFICES ASSUME NEW p \in L, Loaded(p)', Gone(p)' PROVE RemovalComing(p)'
    BY DEF Trusted
  <2>1. p \in Planet
    BY <1>1
  <2>. QED
    BY <1>1, <2>1 DEF Trusted
<1>2. inStep' => Listening' /\ Trusted(Planet)'
  BY <1>1 DEF NewsComes
<1>3. ASSUME NEW f \in Slot, fetch'[f].fresh
      PROVE  Listening' /\ \A p \in fetch'[f].list : Loaded(p)' /\ Gone(p)' => RemovalComing(p)'
  <2>1. fetch[f].fresh /\ fetch'[f].list = fetch[f].list
    BY <1>3 DEF Older
  <2>2. Listening /\ Trusted(fetch[f].list) /\ fetch[f].list \subseteq Planet
    BY <2>1, FetchShape DEF NewsComes, Answers
  <2>. QED
    BY <2>1, <2>2 DEF Trusted
<1>4. \A f \in Slot : fetch'[f].fresh => Listening' /\ Trusted(fetch[f].list)'
  BY <1>3 DEF Trusted
<1>. QED
  BY <1>2, <1>4 DEF NewsComes

\* An event that found room is on its way; so is all that was.
LEMMA PublishComes ==
  ASSUME Lines, NEW e \in Event, Publish(e), NEW p
  PROVE  /\ RemovalComing(p) => RemovalComing(p)'
         /\ Listening /\ HasRoom /\ TakesDown(e, p) => RemovalComing(p)'
<1>1. wire' = wire /\ queue \in Seq(Event)
  BY DEF Publish, Lines
<1>2. CASE queue' = queue /\ ~(Listening /\ HasRoom)
  BY <1>1, <1>2 DEF RemovalComing
<1>3. CASE queue' = Append(queue, e)
  <2>1. /\ Len(queue') = Len(queue) + 1 /\ queue'[Len(queue) + 1] = e
        /\ \A i \in 1..Len(queue) : queue'[i] = queue[i] /\ i \in 1..Len(queue')
        /\ Len(queue) + 1 \in 1..Len(queue')
    BY <1>1, <1>3
  <2>. QED
    BY <1>1, <2>1 DEF RemovalComing
<1>. QED
  BY <1>2, <1>3 DEF Publish

LEMMA PublishNews ==
  ASSUME Sound, NewsComes, NEW e \in Event, Publish(e),
         \A p \in Planet : Loaded(p) /\ Gone(p)' => Gone(p) \/ TakesDown(e, p)
  PROVE  NewsComes'
<1>1. fetch \in [Slot -> Fetches] /\ Answers /\ Lines
  BY DEF Sound, Answers
<1>2. CASE Listening /\ ~HasRoom
  BY <1>1, <1>2, FellBehind, NoReliance DEF Publish
<1>3. CASE ~Listening
  BY <1>3, DeafIsNotInStep, NoReliance DEF Publish
<1>4. CASE Listening /\ HasRoom
  <2>1. UNCHANGED <<stream, wall, inStep, fetch>>
    BY <1>4 DEF Publish
  <2>2. Listening' = Listening /\ Older
    BY <1>1, <2>1, AnswersGrowOld DEF Listening
  <2>3. \A p \in Planet : Loaded(p)' = Loaded(p)
    BY <2>1 DEF Loaded
  <2>4. \A p \in Planet : /\ RemovalComing(p) => RemovalComing(p)'
                          /\ TakesDown(e, p) => RemovalComing(p)'
    BY <1>1, <1>4, PublishComes
  <2>. QED
    BY <1>1, <2>1, <2>2, <2>3, <2>4, NewsStillComes
<1>. QED
  BY <1>2, <1>3, <1>4

\* An upload takes no planet away that is not too old by then.
LEMMA UploadNews ==
  ASSUME Sound, NewsComes, Upload
  PROVE  NewsComes'
<1>1. uploaded \in Nat /\ uploaded' = uploaded + 1 /\ uploaded' \in Planet
  BY NumberFacts DEF Sound, Server, Upload, MayUpload
<1>2. PICK e \in Event : Publish(e)
  BY <1>1, EventFacts DEF Upload
<1>3. ASSUME NEW p \in Planet, Loaded(p), Gone(p)' PROVE Gone(p)
  <2>1. p \notin store' /\ p > uploaded' - Retention /\ p \in Nat
    BY <1>3, NumberFacts DEF Gone
  <2>2. p \notin store
    <3>. DEFINE S == store \cup {uploaded'}
    <3>1. S \subseteq 1..uploaded'
      BY <1>1 DEF Sound, Server
    <3>2. store' = Newest(S, Retention)
      BY <1>1 DEF Upload
    <3>. HIDE DEF S
    <3>3. p \notin S
      <4>1. PICK n \in Nat : n = uploaded'
        BY <1>1
      <4>2. p \in S => p <= n - Retention
        BY <2>1, <3>1, <3>2, <4>1, PrunedAreOld, NumberFacts
      <4>3. p > n - Retention
        BY <2>1, <4>1, Zenon
      <4>. QED
        BY <2>1, <4>2, <4>3, NumberFacts
    <3>. QED
      BY <3>3 DEF S
  <2>. QED
    BY <1>1, <2>1, <2>2, NumberFacts DEF Gone
<1>. QED
  BY <1>2, <1>3, PublishNews

LEMMA TakeDownNews ==
  ASSUME Sound, NewsComes, Clear \/ \E p \in Planet : Delete(p)
  PROVE  NewsComes'
<1>1. CASE Clear
  <2>1. PICK e \in Event : e.kind = "cleared" /\ Publish(e)
    BY <1>1, EventFacts DEF Clear
  <2>. QED
    BY <2>1, PublishNews DEF TakesDown
<1>2. ASSUME NEW p \in Planet, Delete(p) PROVE NewsComes'
  <2>1. PICK e \in Event : e.kind = "removed" /\ e.id = p /\ Publish(e)
    BY <1>2, EventFacts DEF Delete
  <2>2. store' = store \ {p} /\ uploaded' = uploaded
    BY <1>2 DEF Delete
  <2>3. \A q \in Planet : Gone(q)' => Gone(q) \/ TakesDown(e, q)
    BY <2>1, <2>2 DEF Gone, TakesDown
  <2>. QED
    BY <2>1, <2>3, PublishNews
<1>. QED
  BY <1>1, <1>2

\* A frame that goes out, and an event that is forwarded, are still to come.
LEMMA SendingNews ==
  ASSUME Sound, NewsComes, Prime \/ Forward
  PROVE  NewsComes'
<1>1. fetch \in [Slot -> Fetches] /\ Answers /\ wire \in Seq(Frame) /\ queue \in Seq(Event)
  BY DEF Sound, Answers, Lines
<1>2. /\ Listening' /\ UNCHANGED <<uploaded, store, wall, inStep, fetch>>
  BY DEF Prime, Forward, Listening, serverVars, historyVars
<1>3. \A p \in Planet : RemovalComing(p) => RemovalComing(p)'
  <2>1. ASSUME NEW e \in Frame, wire' = Append(wire, e), NEW i \in 1..Len(wire)
        PROVE  i \in 1..Len(wire') /\ wire'[i] = wire[i]
    BY <1>1, <2>1
  <2>2. CASE Prime
    <3>. DEFINE e == IF store = {} THEN [kind |-> "no planet"] ELSE [kind |-> "planet", id |-> Max(store)]
    <3>1. wire' = Append(wire, e) /\ queue' = queue
      BY <2>2 DEF Prime
    <3>. HIDE DEF e
    <3>2. \A i \in 1..Len(wire) : i \in 1..Len(wire') /\ wire'[i] = wire[i]
      BY <1>1, <3>1
    <3>. QED
      BY <3>1, <3>2 DEF RemovalComing
  <2>3. CASE Forward
    <3>1. wire' = Append(wire, Head(queue)) /\ queue' = Tail(queue) /\ queue # << >>
      BY <2>3 DEF Forward
    <3>2. \A i \in 1..Len(wire) : i \in 1..Len(wire') /\ wire'[i] = wire[i]
      BY <1>1, <3>1
    <3>3. Len(wire) + 1 \in 1..Len(wire') /\ wire'[Len(wire) + 1] = queue[1]
      BY <1>1, <3>1
    <3>4. \A i \in 1..Len(queue) : i = 1 \/ (i - 1 \in 1..Len(queue') /\ queue'[i - 1] = queue[i])
      BY <1>1, <3>1
    <3>. QED
      BY <3>2, <3>3, <3>4 DEF RemovalComing
  <2>. QED
    BY <2>2, <2>3
<1>4. Older /\ \A p \in Planet : Loaded(p)' = Loaded(p) /\ Gone(p)' = Gone(p)
  BY <1>1, <1>2, AnswersGrowOld DEF Loaded, Gone
<1>. QED
  BY <1>1, <1>2, <1>3, <1>4, NewsStillComes

\* A frame that is taken has its effect; what is added waits for its manifest.
LEMMA TakenNews ==
  ASSUME Sound, Links, NewsComes, TakeFrame
  PROVE  NewsComes'
<1>. DEFINE e == Head(wire)
<1>1. /\ fetch \in [Slot -> Fetches] /\ Answers /\ wire \in Seq(Frame) /\ queue \in Seq(Event)
      /\ Fits(wall, uploaded) /\ uploaded \in Nat
  BY NumberFacts DEF Sound, Server, Answers, Lines
<1>2. /\ wire # << >> /\ wire' = Tail(wire) /\ wall' = Handle(wall, e)
      /\ UNCHANGED <<uploaded, store, stream, queue, inStep>>
  BY DEF TakeFrame, serverVars
<1>3. e \in Frame /\ e = wire[1] /\ (e.kind = "planet" => e.id <= uploaded)
  BY <1>1, <1>2 DEF Sound, Lines, Past
<1>. HIDE DEF e
<1>4. /\ Fits(wall', uploaded) /\ LoadedFrom(wall', wall)
      /\ \A j \in 1..Len(wall') : ~TakesDown(e, wall'[j].id)
  BY <1>1, <1>2, <1>3, HandleFits
<1>5. Older
  <2>1. CASE UNCHANGED <<fetch, steady>>
    BY <1>1, <2>1, AnswersGrowOld
  <2>2. CASE \E f \in LiveSlot : fetch[f] = Idle /\ Ask(f)
    BY <1>1, <2>2, AnswersGrowOld DEF Slot
  <2>. QED
    BY <2>1, <2>2 DEF TakeFrame
<1>6. ASSUME NEW p \in Planet, Loaded(p)', RemovalComing(p) PROVE RemovalComing(p)'
  <2>1. ~TakesDown(wire[1], p)
    BY <1>3, <1>4, <1>6 DEF Loaded
  <2>2. \A i \in 1..Len(wire) : i = 1 \/ (i - 1 \in 1..Len(wire') /\ wire'[i - 1] = wire[i])
    BY <1>1, <1>2
  <2>. QED
    BY <1>2, <1>6, <2>1, <2>2 DEF RemovalComing
<1>7. \A p \in Planet : (Loaded(p)' => Loaded(p)) /\ Gone(p)' = Gone(p)
  BY <1>2, <1>4 DEF Loaded, LoadedFrom, Gone
<1>8. Listening' = Listening
  BY <1>2 DEF Listening
<1>. QED
  BY <1>1, <1>2, <1>5, <1>6, <1>7, <1>8, NewsStillComes

\* An answer that is read now names no planet that is gone.
LEMMA RespondNews ==
  ASSUME Sound, NewsComes, NEW f \in Slot, Respond(f)
  PROVE  NewsComes'
<1>1. fetch \in [Slot -> Fetches] /\ Answers
  BY DEF Sound, Answers
<1>2. /\ fetch' = [fetch EXCEPT ![f] = Answer(Gallery, Listening)]
      /\ UNCHANGED <<uploaded, store, stream, queue, wire, wall, inStep>>
  BY DEF Respond, serverVars, streamVars, historyVars
<1>3. /\ \A p : Loaded(p)' = Loaded(p) /\ Gone(p)' = Gone(p) /\ RemovalComing(p)' = RemovalComing(p)
      /\ Listening' = Listening
  BY <1>2 DEF Loaded, Gone, RemovalComing, Listening
<1>4. inStep' => Listening' /\ Trusted(Planet)'
  BY <1>2, <1>3 DEF NewsComes, Trusted
<1>5. ASSUME NEW g \in Slot, fetch'[g].fresh
      PROVE  Listening' /\ \A p \in fetch'[g].list : Loaded(p)' /\ Gone(p)' => RemovalComing(p)'
  <2>1. CASE g = f
    <3>1. fetch'[g] = Answer(Gallery, Listening)
      BY <1>1, <1>2, <2>1
    <3>2. fetch'[g].list = Gallery /\ fetch'[g].fresh = Listening
      BY <3>1 DEF Answer
    <3>3. \A p \in Gallery : ~Gone(p)
      BY NewestIsPart DEF Gallery, Gone
    <3>. QED
      BY <1>3, <1>5, <3>2, <3>3
  <2>2. CASE g # f
    <3>1. fetch'[g] = fetch[g]
      BY <1>1, <1>2, <2>2
    <3>. QED
      BY <1>3, <1>5, <3>1 DEF NewsComes, Trusted
  <2>. QED
    BY <2>1, <2>2
<1>6. \A g \in Slot : fetch'[g].fresh => Listening' /\ Trusted(fetch[g].list)'
  BY <1>5 DEF Trusted
<1>. QED
  BY <1>4, <1>6 DEF NewsComes

\* After a fetch the stream is what it was, or there was none and a new one begins.
LEMMA AfterFetchStream ==
  ASSUME Links, NEW f \in Slot, AfterFetch(f)
  PROVE  UNCHANGED <<stream, queue, wire>> \/ ~Listening
<1>1. CASE UNCHANGED <<streamVars, polling, steady>>
  BY <1>1 DEF streamVars
<1>2. CASE link = "boot"
  BY <1>2 DEF Links, Listening
<1>3. CASE UNCHANGED <<stream, queue, wire, steady>>
  BY <1>3
<1>. QED
  BY <1>1, <1>2, <1>3 DEF AfterFetch

LEMMA ApplyNews ==
  ASSUME Sound, Links, NewsComes, NEW f \in Slot, Apply(f)
  PROVE  NewsComes'
<1>1. /\ fetch \in [Slot -> Fetches] /\ Answers /\ Fits(wall, uploaded) /\ uploaded \in Nat
      /\ fetch[f].list \subseteq 1..uploaded /\ fetch[f].list \subseteq Planet
  BY NumberFacts, FetchShape DEF Sound, Server, Answers
<1>2. /\ wall' = Sync(wall, fetch[f].list) /\ inStep' = (inStep \/ fetch[f].fresh)
      /\ AfterFetch(f) /\ UNCHANGED <<uploaded, store>>
  BY DEF Apply, serverVars
<1>3. Older /\ ~fetch'[f].fresh
  BY <1>1, <1>2, AnswersGrowOld
<1>4. CASE ~Listening
  <2>1. ~inStep' /\ \A g \in Slot : ~fetch'[g].fresh
    BY <1>2, <1>3, <1>4, DeafIsNotInStep DEF Older
  <2>. QED
    BY <2>1, NoReliance
<1>5. CASE UNCHANGED <<stream, queue, wire>> /\ Listening
  <2>1. /\ LoadedFrom(wall', wall)
        /\ \A j \in 1..Len(wall') : wall'[j].id \in fetch[f].list
    BY <1>1, <1>2, SyncFits
  <2>2. /\ \A p : Gone(p)' = Gone(p) /\ RemovalComing(p)' = RemovalComing(p)
        /\ \A p : Loaded(p)' => Loaded(p) /\ p \in fetch[f].list
        /\ Listening'
    BY <1>2, <1>5, <2>1 DEF Loaded, LoadedFrom, Gone, RemovalComing, Listening
  <2>3. ASSUME NEW L, Trusted(L) PROVE Trusted(L)'
    BY <2>2, <2>3 DEF Trusted
  <2>4. ASSUME inStep' PROVE Trusted(Planet)'
    <3>1. CASE inStep
      BY <2>3, <3>1 DEF NewsComes
    <3>2. CASE fetch[f].fresh
      BY <2>2, <3>2 DEF NewsComes, Trusted
    <3>. QED
      BY <1>2, <2>4, <3>1, <3>2
  <2>5. ASSUME NEW g \in Slot, fetch'[g].fresh
        PROVE  \A p \in fetch'[g].list : Loaded(p)' /\ Gone(p)' => RemovalComing(p)'
    <3>1. fetch[g].fresh /\ fetch'[g].list = fetch[g].list
      BY <1>3, <2>5 DEF Older
    <3>. QED
      BY <2>2, <3>1 DEF NewsComes, Trusted
  <2>6. \A g \in Slot : fetch'[g].fresh => Listening' /\ Trusted(fetch[g].list)'
    BY <2>2, <2>5 DEF Trusted
  <2>. QED
    BY <2>2, <2>4, <2>6 DEF NewsComes
<1>. QED
  BY <1>2, <1>4, <1>5, AfterFetchStream

LEMMA FetchFailsNews ==
  ASSUME Sound, Links, NewsComes, NEW f \in Slot, FetchFails(f)
  PROVE  NewsComes'
<1>1. fetch \in [Slot -> Fetches] /\ Answers
  BY DEF Sound, Answers
<1>2. AfterFetch(f) /\ UNCHANGED <<uploaded, store, wall, inStep>>
  BY DEF FetchFails, serverVars
<1>3. Older
  BY <1>1, <1>2, AnswersGrowOld
<1>4. CASE ~Listening
  BY <1>2, <1>3, <1>4, DeafIsNotInStep, NoReliance DEF Older
<1>5. CASE UNCHANGED <<stream, queue, wire>> /\ Listening
  <2>1. /\ Listening' = Listening
        /\ \A p : /\ Gone(p)' = Gone(p) /\ RemovalComing(p)' = RemovalComing(p)
                  /\ Loaded(p)' = Loaded(p)
    BY <1>2, <1>5 DEF Loaded, Gone, RemovalComing, Listening
  <2>. QED
    BY <1>1, <1>2, <1>3, <2>1, NewsStillComes
<1>. QED
  BY <1>2, <1>4, <1>5, AfterFetchStream

\* A manifest loads for a planet that is there; one that fails takes down only the
\* planet it was for.
LEMMA ManifestNews ==
  ASSUME Sound, NewsComes, NEW i \in DOMAIN wall, ManifestLoads(i) \/ ManifestFails(i) \/ ManifestBreaks(i)
  PROVE  NewsComes'
<1>1. /\ fetch \in [Slot -> Fetches] /\ Answers /\ Fits(wall, uploaded) /\ uploaded \in Nat
      /\ i \in 1..Len(wall)
  BY NumberFacts DEF Sound, Server, Answers, Fits
<1>2. UNCHANGED <<uploaded, store, stream, queue, wire, fetch, inStep>>
  BY DEF ManifestLoads, ManifestFails, ManifestBreaks, serverVars, streamVars, historyVars
<1>3. Older
  BY <1>1, <1>2, AnswersGrowOld
<1>4. /\ Listening' = Listening
      /\ \A p : Gone(p)' = Gone(p) /\ RemovalComing(p)' = RemovalComing(p)
  BY <1>2 DEF Gone, RemovalComing, Listening
<1>5. CASE ManifestFails(i) \/ ManifestBreaks(i)
  <2>1. wall' = Keep(wall, Planet \ {wall[i].id})
    BY <1>5 DEF ManifestFails, ManifestBreaks, TakeDown
  <2>2. LoadedFrom(wall', wall)
    BY <1>1, <2>1, KeepFits
  <2>3. \A p : Loaded(p)' => Loaded(p)
    BY <2>2 DEF Loaded, LoadedFrom
  <2>. QED
    BY <1>1, <1>2, <1>3, <1>4, <2>3, NewsStillComes
<1>6. CASE ManifestLoads(i)
  <2>1. /\ wall' = [wall EXCEPT ![i].loaded = TRUE] /\ wall[i].id \in store
    BY <1>6 DEF ManifestLoads
  <2>2. /\ Len(wall') = Len(wall)
        /\ \A j \in 1..Len(wall) : wall'[j].id = wall[j].id /\ (j # i => wall'[j] = wall[j])
    BY <1>1, <2>1, LoadFits
  <2>3. \A p : Loaded(p)' /\ Gone(p) => Loaded(p)
    BY <2>1, <2>2 DEF Loaded, Gone
  <2>4. ASSUME NEW L, Trusted(L) PROVE Trusted(L)'
    BY <1>4, <2>3, <2>4 DEF Trusted
  <2>. QED
    BY <1>2, <1>4, <2>4 DEF NewsComes
<1>. QED
  BY <1>5, <1>6

LEMMA NewsKept ==
  ASSUME Sound, Links, NewsComes, Next
  PROVE  NewsComes'
<1>1. fetch \in [Slot -> Fetches]
  BY DEF Sound, Answers
<1>2. CASE GoDown
  BY <1>1, <1>2, FellBehind, NoReliance DEF GoDown
<1>3. CASE Reload
  <2>1. ~inStep' /\ fetch' = Booting
    BY <1>3 DEF Reload
  <2>2. \A f \in Slot : ~Booting[f].fresh
    BY DEF Booting, Idle, Asked
  <2>. QED
    BY <2>1, <2>2, NoReliance
<1>4. ASSUME Older, inStep' = inStep, ~Listening PROVE NewsComes'
  BY <1>4, DeafIsNotInStep, NoReliance DEF Older
<1>5. CASE Accept
  BY <1>1, <1>4, <1>5, AnswersGrowOld DEF Accept, Listening, historyVars
<1>6. CASE Retry
  BY <1>1, <1>4, <1>6, AnswersGrowOld DEF Retry, Listening, Links
<1>7. CASE LinkFails
  <2>1. Older
    BY <1>1, <1>7, AnswersGrowOld DEF LinkFails, StartPolling, Slot
  <2>. QED
    BY <1>4, <1>7, <2>1 DEF LinkFails, Listening
<1>8. CASE GoUp \/ PollTick
  <2>1. Older
    BY <1>1, <1>8, AnswersGrowOld DEF GoUp, PollTick, Slot
  <2>2. UNCHANGED <<uploaded, store, stream, queue, wire, wall, inStep>>
    BY <1>8 DEF GoUp, PollTick, serverVars, streamVars, historyVars
  <2>3. /\ Listening' = Listening
        /\ \A p : /\ Gone(p)' = Gone(p) /\ RemovalComing(p)' = RemovalComing(p)
                  /\ Loaded(p)' = Loaded(p)
    BY <2>2 DEF Loaded, Gone, RemovalComing, Listening
  <2>. QED
    BY <2>1, <2>2, <2>3, NewsStillComes DEF Sound
<1>. QED
  BY <1>2, <1>3, <1>5, <1>6, <1>7, <1>8, UploadNews, TakeDownNews, SendingNews, TakenNews,
     RespondNews, ApplyNews, FetchFailsNews, ManifestNews DEF Next

LEMMA NewsStarts == Init => NewsComes
<1>1. \A f \in Slot : ~Booting[f].fresh
  BY DEF Booting, Idle, Asked
<1>. QED
  BY <1>1 DEF Init, NewsComes

LEMMA NewsAlwaysComes == SafeSpec => []NewsComes
<1>1. Sound /\ Links /\ SteadyIdle /\ NewsComes /\ Next => NewsComes'
  BY NewsKept
<1>2. NewsComes /\ UNCHANGED vars => NewsComes'
  BY DEF NewsComes, Trusted, Loaded, Gone, RemovalComing, Listening, vars, serverVars,
         streamVars, historyVars
<1>. QED
  BY NewsStarts, <1>1, <1>2, AlwaysSound, AlwaysLinked, PTL DEF SafeSpec

\* Always, when nothing is under way on a wall in step: every planet it shows is in
\* the repository, unless it is older than the last Retention uploads.
THEOREM WallShowsNoGhosts == SafeSpec => []NoGhosts
<1>1. ASSUME Sound, NewsComes PROVE NoGhosts
  <2>. SUFFICES ASSUME Quiet, inStep, NEW p \in Shown PROVE p \in store \/ p <= uploaded - Retention
    BY DEF NoGhosts
  <2>1. PICK i \in DOMAIN wall : p = wall[i].id
    BY DEF Shown, OnWall
  <2>2. i \in 1..Len(wall) /\ wall[i].loaded /\ p \in Planet /\ p \in Nat
    <3>1. wall \in Seq(Entry) /\ i \in 1..Len(wall)
      BY <1>1 DEF Sound, Fits
    <3>2. wall[i] \in Entry
      BY <3>1
    <3>3. p \in Planet
      BY <2>1, <3>2 DEF Entry
    <3>. QED
      BY <3>1, <3>3, NumberFacts DEF Quiet
  <2>3. ~RemovalComing(p)
    BY DEF Quiet, RemovalComing
  <2>4. ~Gone(p)
    BY <1>1, <2>1, <2>2, <2>3 DEF NewsComes, Trusted, Loaded
  <2>. QED
    BY <1>1, <2>2, <2>4, NumberFacts DEF Gone, Sound, Server
<1>. QED
  BY <1>1, AlwaysSound, NewsAlwaysComes, PTL

------------------------------------------------------------------------------
\* Where an upload stands, as told from a wall w and what is pending, s.  An event
\* that passes p leaves it where it is, if there is room for later ones.
IsNews(e, p) == e.kind = "planet" /\ e.id = p
Passes(e, p) == \/ e.kind = "planet" /\ e.id > p
                \/ e.kind = "removed" /\ e.id # p

OnTheWay(w, s, p) ==
    /\ \A i \in 1..Len(w) : w[i].id # p
    /\ \E k \in 1..Len(s) :
          /\ IsNews(s[k], p)
          /\ \A j \in 1..Len(s) : j < k => ~IsNews(s[j], p)
          /\ \A j \in 1..Len(s) : j > k => Passes(s[j], p)

Arrived(w, s, p) ==
    /\ \E i \in 1..Len(w) : w[i].id = p /\ \A j \in 1..Len(w) : j > i => w[j].id > p
    /\ \A j \in 1..Len(s) : Passes(s[j], p)

Follows(w, s, p) == OnTheWay(w, s, p) \/ Arrived(w, s, p)

\* A later event behind the others changes nothing.
LEMMA LaterFollows ==
  ASSUME NEW w, NEW s \in Seq(Frame), NEW p, NEW e \in Frame, Passes(e, p), Follows(w, s, p)
  PROVE  Follows(w, Append(s, e), p)
<1>. DEFINE t == Append(s, e)
<1>1. /\ Len(s) \in Nat /\ Len(t) = Len(s) + 1 /\ t[Len(s) + 1] = e
      /\ \A j \in 1..Len(s) : t[j] = s[j] /\ j \in 1..Len(t)
      /\ \A j \in 1..Len(t) : j \in 1..Len(s) \/ j = Len(s) + 1
  OBVIOUS
<1>. HIDE DEF t
<1>2. CASE OnTheWay(w, s, p)
  <2>1. PICK k \in 1..Len(s) :
          /\ IsNews(s[k], p)
          /\ \A j \in 1..Len(s) : j < k => ~IsNews(s[j], p)
          /\ \A j \in 1..Len(s) : j > k => Passes(s[j], p)
    BY <1>2 DEF OnTheWay
  <2>2. k \in 1..Len(t) /\ IsNews(t[k], p)
    BY <1>1, <2>1
  <2>3. ASSUME NEW j \in 1..Len(t), j < k PROVE ~IsNews(t[j], p)
    BY <1>1, <2>1, <2>3
  <2>4. ASSUME NEW j \in 1..Len(t), j > k PROVE Passes(t[j], p)
    BY <1>1, <2>1, <2>4
  <2>. QED
    BY <1>2, <2>2, <2>3, <2>4 DEF OnTheWay, Follows, t
<1>3. CASE Arrived(w, s, p)
  <2>1. \A j \in 1..Len(t) : Passes(t[j], p)
    BY <1>1, <1>3 DEF Arrived
  <2>. QED
    BY <1>3, <2>1 DEF Arrived, Follows, t
<1>. QED
  BY <1>2, <1>3 DEF Follows

\* The newest upload is on its way as soon as its event is in the queue.
LEMMA NewestFollows ==
  ASSUME NEW u \in Nat, NEW w, Fits(w, u), NEW s \in Seq(Frame), NEW e \in Frame,
         \A j \in 1..Len(s) : s[j].kind = "planet" => s[j].id <= u,
         IsNews(e, u + 1)
  PROVE  Follows(w, Append(s, e), u + 1)
<1>. DEFINE t == Append(s, e)
<1>1. /\ Len(s) \in Nat /\ Len(t) = Len(s) + 1 /\ t[Len(s) + 1] = e
      /\ \A j \in 1..Len(s) : t[j] = s[j]
  OBVIOUS
<1>. HIDE DEF t
<1>2. \A i \in 1..Len(w) : w[i].id # u + 1
  BY DEF Fits
<1>3. ASSUME NEW j \in 1..Len(t), j < Len(s) + 1 PROVE ~IsNews(t[j], u + 1)
  <2>1. j \in 1..Len(s) /\ t[j] = s[j]
    BY <1>1, <1>3
  <2>. QED
    BY <2>1 DEF IsNews
<1>4. /\ Len(s) + 1 \in 1..Len(t) /\ IsNews(t[Len(s) + 1], u + 1)
      /\ \A j \in 1..Len(t) : ~(j > Len(s) + 1)
  BY <1>1
<1>. QED
  BY <1>2, <1>3, <1>4 DEF OnTheWay, Follows, t

\* What depends on the ids alone is kept when a manifest loads.
LEMMA SameIdsFollow ==
  ASSUME NEW w, NEW v, Len(v) = Len(w), \A j \in 1..Len(w) : v[j].id = w[j].id,
         NEW s, NEW p, Follows(w, s, p)
  PROVE  Follows(v, s, p)
  BY DEF Follows, OnTheWay, Arrived

\* Taking down another planet leaves it in its place among the rest.
LEMMA KeepFollows ==
  ASSUME NEW u \in Nat, NEW w, Fits(w, u), NEW s, NEW S, NEW p \in S, Follows(w, s, p)
  PROVE  Follows(Keep(w, S), s, p)
<1>. DEFINE k == Keep(w, S)
<1>1. /\ w \in Seq(Entry) /\ Len(w) \in Nat
      /\ \A i, j \in 1..Len(w) : w[i].id = w[j].id => i = j
  BY DEF Fits
<1>2. KeptOf(k, w, Len(w), S)
  BY <1>1, KeepFacts
<1>. HIDE DEF k
<1>3. CASE OnTheWay(w, s, p)
  <2>1. \A j \in 1..Len(k) : k[j].id # p
    BY <1>2, <1>3 DEF KeptOf, OnTheWay
  <2>. QED
    BY <1>3, <2>1 DEF OnTheWay, Follows, k
<1>4. CASE Arrived(w, s, p)
  <2>1. PICK i \in 1..Len(w) : w[i].id = p /\ \A j \in 1..Len(w) : j > i => w[j].id > p
    BY <1>4 DEF Arrived
  <2>2. PICK m \in 1..Len(k) : k[m] = w[i]
    BY <1>2, <2>1 DEF KeptOf
  <2>3. ASSUME NEW j \in 1..Len(k), j > m PROVE k[j].id > p
    <3>1. PICK i1 \in 1..Len(w), i2 \in 1..Len(w) : i1 < i2 /\ k[m] = w[i1] /\ k[j] = w[i2]
      BY <1>2, <2>3 DEF KeptOf
    <3>2. i1 = i
      BY <1>1, <2>2, <3>1
    <3>. QED
      BY <2>1, <3>1, <3>2
  <2>4. k[m].id = p
    BY <2>1, <2>2
  <2>. QED
    BY <1>4, <2>3, <2>4 DEF Arrived, Follows, k
<1>. QED
  BY <1>3, <1>4 DEF Follows

\* Where p stands among the entries of w: those after it are of later uploads.
LastOf(w, p) == \E i \in 1..Len(w) : w[i].id = p /\ \A j \in 1..Len(w) : j > i => w[j].id > p

\* A planet is not pushed off the wall by the arrival of a later one, while it is
\* among the newest GallerySize uploads: there are not enough later ones.
LEMMA AddKeepsLast ==
  ASSUME NEW u \in Nat, NEW w, Fits(w, u), NEW q \in Planet, q <= u, NEW p \in Planet, q > p,
         p > u - GallerySize, LastOf(w, p)
  PROVE  LastOf(Add(w, q), p)
<1>. DEFINE v == Add(w, q)
<1>1. /\ w \in Seq(Entry) /\ Len(w) \in Nat /\ Len(w) <= GallerySize /\ DOMAIN w = 1..Len(w)
      /\ \A i \in 1..Len(w) : w[i].id <= u
  BY DEF Fits
<1>2. p \in Nat /\ q \in Nat /\ GallerySize \in Nat
  BY NumberFacts
<1>3. CASE q \in OnWall(w)
  BY <1>3 DEF Add
<1>4. CASE q \notin OnWall(w)
  <2>1. PICK d \in 0..1 : Arrival(v, w, q, d)
    BY <1>1, <1>4, AddFacts
  <2>2. /\ v \in Seq(Entry) /\ Len(v) = Len(w) - d + 1
        /\ \A j \in 1..(Len(w) - d) : v[j] = w[j + d]
        /\ v[Len(v)].id = q
        /\ d = 1 => Len(w) = GallerySize
    BY <2>1 DEF Arrival
  <2>. HIDE DEF v
  <2>3. PICK i \in 1..Len(w) : w[i].id = p /\ \A j \in 1..Len(w) : j > i => w[j].id > p
    BY DEF LastOf
  <2>4. i > d
    <3>. SUFFICES ASSUME d = 1, i = 1 PROVE FALSE
      BY <1>1, <2>1
    <3>. DEFINE S == OnWall(w) \cup {q}
    <3>1. \A j \in 1..Len(w) : w[j].id \in Nat
      <4>1. \A j \in 1..Len(w) : w[j] \in Entry
        BY <1>1
      <4>2. \A e \in Entry : e.id \in Nat
        BY NumberFacts DEF Entry
      <4>. QED
        BY <4>1, <4>2
    <3>2. \A j \in 1..Len(w) : w[j].id \in p..u
      <4>1. \A j \in 1..Len(w) : j = 1 \/ j > i
        BY <1>1
      <4>2. \A j \in 1..Len(w) : w[j].id >= p
        BY <1>2, <2>3, <3>1, <4>1
      <4>. QED
        BY <1>1, <1>2, <3>1, <4>2
    <3>3. S \subseteq p..u
      BY <1>1, <1>2, <3>2 DEF OnWall
    <3>4. IsFiniteSet(OnWall(w)) /\ Cardinality(OnWall(w)) = GallerySize
      BY <2>2, EachOnce
    <3>5. Cardinality(S) = GallerySize + 1
      BY <1>4, <3>4, FS_AddElement
    <3>. HIDE DEF S
    <3>6. IsFiniteSet(p..u) /\ Cardinality(p..u) = IF p > u THEN 0 ELSE u - p + 1
      BY <1>2, FS_Interval
    <3>7. Cardinality(S) <= Cardinality(p..u)
      BY <3>3, <3>6, FS_Subset
    <3>. QED
      BY <1>2, <3>5, <3>6, <3>7
  <2>5. i - d \in 1..Len(v) /\ i - d \in 1..(Len(w) - d) /\ v[i - d].id = p
    BY <1>1, <2>2, <2>3, <2>4
  <2>6. ASSUME NEW j \in 1..Len(v), j > i - d PROVE v[j].id > p
    <3>1. CASE j = Len(v)
      BY <2>2, <3>1
    <3>2. CASE j \in 1..(Len(w) - d)
      <4>1. v[j] = w[j + d] /\ j + d \in 1..Len(w) /\ j + d > i
        BY <1>1, <2>2, <2>6, <3>2
      <4>. QED
        BY <2>3, <4>1
    <3>. QED
      BY <1>1, <2>2, <3>1, <3>2
  <2>. QED
    BY <2>5, <2>6 DEF LastOf, v
<1>. QED
  BY <1>3, <1>4

\* A planet that arrives when the wall has it not is the last of all.
LEMMA AddedIsLast ==
  ASSUME NEW w \in Seq(Entry), Len(w) <= GallerySize, NEW p \in Planet,
         \A i \in 1..Len(w) : w[i].id # p
  PROVE  LastOf(Add(w, p), p)
<1>1. p \notin OnWall(w)
  BY DEF OnWall
<1>2. PICK d \in 0..1 : Arrival(Add(w, p), w, p, d)
  BY <1>1, AddFacts
<1>. DEFINE v == Add(w, p)
<1>. HIDE DEF v
<1>3. /\ Len(w) \in Nat /\ Len(v) = Len(w) - d + 1 /\ v[Len(v)].id = p
      /\ d = 1 => Len(w) = GallerySize
  BY <1>2 DEF Arrival, v
<1>4. Len(v) \in 1..Len(v) /\ \A j \in 1..Len(v) : ~(j > Len(v))
  BY <1>3, NumberFacts
<1>. QED
  BY <1>3, <1>4 DEF LastOf, v

\* Only the news of a planet brings it.
LEMMA OthersBringItNot ==
  ASSUME NEW w \in Seq(Entry), Len(w) <= GallerySize, NEW e \in Frame, NEW p,
         \A i \in 1..Len(w) : w[i].id # p, ~IsNews(e, p)
  PROVE  \A i \in 1..Len(Handle(w, e)) : Handle(w, e)[i].id # p
<1>. DEFINE v == Handle(w, e)
<1>1. CASE e.kind = "planet"
  <2>1. v = Add(w, e.id) /\ e.id \in Planet /\ e.id # p
    BY <1>1, FrameKinds DEF Handle, IsNews
  <2>2. CASE e.id \in OnWall(w)
    BY <2>1, <2>2 DEF Add
  <2>3. CASE e.id \notin OnWall(w)
    <3>1. PICK d \in 0..1 : Arrival(v, w, e.id, d)
      BY <2>1, <2>3, AddFacts
    <3>. HIDE DEF v
    <3>2. /\ Len(w) \in Nat /\ Len(v) = Len(w) - d + 1
          /\ \A j \in 1..(Len(w) - d) : v[j] = w[j + d] /\ j + d \in 1..Len(w)
          /\ v[Len(v)].id = e.id
      BY <3>1 DEF Arrival
    <3>3. \A j \in 1..Len(v) : j = Len(v) \/ j \in 1..(Len(w) - d)
      BY <3>2
    <3>. QED
      BY <2>1, <3>2, <3>3 DEF v
  <2>. QED
    BY <2>2, <2>3
<1>2. CASE e.kind = "removed"
  <2>1. v = Keep(w, Planet \ {e.id})
    BY <1>2 DEF Handle, TakeDown
  <2>. HIDE DEF v
  <2>2. KeptOf(v, w, Len(w), Planet \ {e.id})
    BY <2>1, KeepFacts
  <2>. QED
    BY <2>2 DEF KeptOf, v
<1>3. CASE e.kind = "cleared"
  BY <1>3 DEF Handle
<1>4. CASE e.kind = "no planet"
  BY <1>4 DEF Handle
<1>. QED
  BY <1>1, <1>2, <1>3, <1>4, FrameKinds

\* A frame that is handled brings the upload a step on.
LEMMA TakenFollows ==
  ASSUME NEW u \in Nat, NEW w, Fits(w, u), NEW s \in Seq(Frame), s # << >>,
         Head(s).kind = "planet" => Head(s).id <= u,
         NEW p \in Planet, p > u - GallerySize, Follows(w, s, p)
  PROVE  Follows(Handle(w, Head(s)), Tail(s), p)
<1>. DEFINE e == Head(s)
            t == Tail(s)
            v == Handle(w, e)
<1>1. /\ Len(s) \in Nat /\ Len(t) = Len(s) - 1 /\ e = s[1] /\ e \in Frame /\ 1 \in 1..Len(s)
      /\ \A j \in 1..Len(t) : t[j] = s[j + 1] /\ j + 1 \in 1..Len(s)
  OBVIOUS
<1>. HIDE DEF e, t
<1>2. w \in Seq(Entry) /\ Len(w) \in Nat /\ Len(w) <= GallerySize
  BY DEF Fits
<1>3. CASE OnTheWay(w, s, p)
  <2>1. \A i \in 1..Len(w) : w[i].id # p
    BY <1>3 DEF OnTheWay
  <2>2. PICK k \in 1..Len(s) :
          /\ IsNews(s[k], p)
          /\ \A j \in 1..Len(s) : j < k => ~IsNews(s[j], p)
          /\ \A j \in 1..Len(s) : j > k => Passes(s[j], p)
    BY <1>3 DEF OnTheWay
  <2>3. CASE k = 1
    <3>1. v = Add(w, p)
      BY <1>1, <2>2, <2>3 DEF IsNews, Handle
    <3>2. LastOf(v, p)
      BY <1>2, <2>1, <3>1, AddedIsLast
    <3>3. \A j \in 1..Len(t) : Passes(t[j], p)
      BY <1>1, <2>2, <2>3
    <3>. QED
      BY <3>2, <3>3 DEF LastOf, Arrived, Follows, e, t
  <2>4. CASE k > 1
    <3>1. ~IsNews(e, p)
      BY <1>1, <2>2, <2>4
    <3>2. \A i \in 1..Len(v) : v[i].id # p
      BY <1>1, <1>2, <2>1, <3>1, OthersBringItNot
    <3>3. k - 1 \in 1..Len(t) /\ IsNews(t[k - 1], p)
      BY <1>1, <2>2, <2>4
    <3>4. \A j \in 1..Len(t) : (j < k - 1 => ~IsNews(t[j], p)) /\ (j > k - 1 => Passes(t[j], p))
      BY <1>1, <2>2
    <3>. QED
      BY <3>2, <3>3, <3>4 DEF OnTheWay, Follows, e, t
  <2>. QED
    BY <1>1, <2>3, <2>4
<1>4. CASE Arrived(w, s, p)
  <2>1. LastOf(w, p) /\ Passes(e, p) /\ \A j \in 1..Len(t) : Passes(t[j], p)
    BY <1>1, <1>4 DEF Arrived, LastOf
  <2>2. CASE e.kind = "planet" /\ e.id > p
    <3>1. v = Add(w, e.id) /\ e.id \in Planet /\ e.id <= u
      BY <1>1, <2>2, FrameKinds DEF Handle, e
    <3>2. LastOf(v, p)
      BY <2>1, <2>2, <3>1, AddKeepsLast
    <3>. QED
      BY <2>1, <3>2 DEF LastOf, Arrived, Follows, e, t
  <2>3. CASE e.kind = "removed" /\ e.id # p
    <3>1. v = Keep(w, Planet \ {e.id}) /\ p \in Planet \ {e.id}
      BY <2>3 DEF Handle, TakeDown
    <3>2. Follows(w, t, p)
      BY <2>1 DEF LastOf, Arrived, Follows
    <3>3. Follows(v, t, p)
      BY <3>1, <3>2, KeepFollows
    <3>. QED
      BY <3>3 DEF e, t
  <2>. QED
    BY <2>1, <2>2, <2>3 DEF Passes
<1>. QED
  BY <1>3, <1>4 DEF Follows

\* What the wall is still to be told, in the order it will be.
Pending == wire \o queue

\* Every steady upload that is still there and among the newest GallerySize follows.
SteadyStays ==
    stream = "streaming" =>
        \A p \in steady \cap store : p > uploaded - GallerySize => Follows(wall, Pending, p)

LEMMA PendingFacts ==
  ASSUME NEW s \in Seq(Frame), NEW q \in Seq(Event)
  PROVE  /\ s \o q \in Seq(Frame)
         /\ \A e \in Event : s \o Append(q, e) = Append(s \o q, e)
         /\ q # << >> => Append(s, Head(q)) \o Tail(q) = s \o q
         /\ s # << >> => s \o q # << >> /\ Head(s \o q) = Head(s) /\ Tail(s \o q) = Tail(s) \o q
<1>1. Event \subseteq Frame
  BY EventFacts
<1>2. q \in Seq(Frame)
  BY <1>1
<1>3. s \o q \in Seq(Frame)
  BY <1>2
<1>4. ASSUME NEW e \in Event PROVE s \o Append(q, e) = Append(s \o q, e)
  <2>1. e \in Frame
    BY <1>1
  <2>. QED
    BY <1>2, <2>1
<1>5. ASSUME q # << >> PROVE Append(s, Head(q)) \o Tail(q) = s \o q
  <2>1. Head(q) \in Frame /\ Tail(q) \in Seq(Frame)
    BY <1>2, <1>5
  <2>. QED
    BY <1>2, <1>5, <2>1
<1>6. ASSUME s # << >>
      PROVE  s \o q # << >> /\ Head(s \o q) = Head(s) /\ Tail(s \o q) = Tail(s) \o q
  BY <1>2, <1>6
<1>. QED
  BY <1>3, <1>4, <1>5, <1>6

LEMMA PendingIsPast ==
  ASSUME Lines
  PROVE  Pending \in Seq(Frame) /\ Past(Pending)
<1>1. /\ wire \in Seq(Frame) /\ queue \in Seq(Event) /\ Past(wire) /\ Past(queue)
      /\ Pending \in Seq(Frame)
  BY PendingFacts DEF Lines, Pending
<1>2. /\ Len(Pending) = Len(wire) + Len(queue)
      /\ \A j \in 1..Len(wire) : Pending[j] = wire[j]
      /\ \A j \in 1..Len(queue) : Pending[Len(wire) + j] = queue[j]
  <2>1. Event \subseteq Frame
    BY EventFacts
  <2>2. queue \in Seq(Frame)
    BY <1>1, <2>1
  <2>. QED
    BY <1>1, <2>2 DEF Pending
<1>3. ASSUME NEW j \in 1..Len(Pending), Pending[j].kind = "planet" PROVE Pending[j].id <= uploaded
  <2>1. CASE j \in 1..Len(wire)
    BY <1>1, <1>2, <1>3, <2>1 DEF Past
  <2>2. CASE j > Len(wire)
    <3>1. PICK m \in 1..Len(queue) : j = Len(wire) + m
      <4>1. j - Len(wire) \in 1..Len(queue) /\ j = Len(wire) + (j - Len(wire))
        BY <1>1, <1>2, <2>2
      <4>. QED
        BY <4>1
    <3>2. Pending[j] = queue[m]
      BY <1>2, <3>1
    <3>. QED
      BY <1>1, <1>3, <3>2 DEF Past
  <2>. QED
    BY <1>1, <2>1, <2>2
<1>. QED
  BY <1>1, <1>3 DEF Past

\* The argument that the steps share that neither send nor deliver.
LEMMA StaysInPlace ==
  ASSUME SteadyStays, stream' = "streaming" => stream = "streaming",
         UNCHANGED <<uploaded, queue, wire>>, steady' \subseteq steady, store' \subseteq store,
         \A s : \A p \in store : Follows(wall, s, p) => Follows(wall', s, p)
  PROVE  SteadyStays'
<1>1. Pending' = Pending
  BY DEF Pending
<1>. SUFFICES ASSUME stream' = "streaming", NEW p \in steady' \cap store', p > uploaded' - GallerySize
              PROVE  Follows(wall', Pending', p)
  BY DEF SteadyStays
<1>2. p \in steady \cap store /\ p > uploaded - GallerySize
  OBVIOUS
<1>3. Follows(wall, Pending, p)
  BY <1>2 DEF SteadyStays
<1>. QED
  BY <1>1, <1>2, <1>3

\* A wall that is reading the gallery has no steady uploads.
LEMMA ReadingIsUnsteady ==
  ASSUME SteadyIdle, NEW f \in Slot, fetch[f] # Idle, AfterFetch(f)
  PROVE  steady' = {}
<1>1. steady = {}
  BY DEF SteadyIdle, NoFetch
<1>2. CASE UNCHANGED <<streamVars, polling, steady>>
  BY <1>1, <1>2
<1>3. CASE Connect
  BY <1>3 DEF Connect
<1>4. CASE UNCHANGED <<stream, queue, wire, steady>>
  BY <1>1, <1>4
<1>. QED
  BY <1>2, <1>3, <1>4 DEF AfterFetch

LEMMA UploadStays ==
  ASSUME Sound, SteadyStays, Upload
  PROVE  SteadyStays'
<1>1. /\ uploaded \in Nat /\ uploaded' = uploaded + 1 /\ uploaded' \in Planet
      /\ Fits(wall, uploaded) /\ wire \in Seq(Frame) /\ queue \in Seq(Event)
      /\ Pending \in Seq(Frame) /\ Past(Pending) /\ steady \subseteq 1..uploaded
  BY NumberFacts, PendingIsPast DEF Sound, Server, Fields, Lines, Upload, MayUpload
<1>. SUFFICES ASSUME stream' = "streaming", NEW p \in steady' \cap store', p > uploaded' - GallerySize
              PROVE  Follows(wall', Pending', p)
  BY DEF SteadyStays
<1>2. PICK e \in Event : e.kind = "planet" /\ e.id = uploaded' /\ Publish(e)
  BY <1>1, EventFacts DEF Upload
<1>3. wall' = wall /\ wire' = wire /\ stream = "streaming" /\ Listening
  BY <1>2 DEF Publish, Listening
<1>4. PICK n \in Nat : n = uploaded'
  BY <1>1
<1>5. n = uploaded + 1 /\ p > n - GallerySize
  BY <1>1, <1>4, Zenon
<1>6. store' \subseteq store \cup {n}
  BY <1>1, <1>4, NewestIsPart DEF Upload
<1>7. ASSUME p # n PROVE Follows(wall, Pending, p) /\ p < n
  <2>1. p \in store
    BY <1>6, <1>7
  <2>2. p \in steady
    BY <1>1, <1>4, <1>7 DEF Upload
  <2>3. p > uploaded - GallerySize /\ p < n
    BY <1>1, <1>5, <2>2, NumberFacts
  <2>. QED
    BY <1>3, <2>1, <2>2, <2>3 DEF SteadyStays
<1>8. CASE HasRoom
  <2>1. Pending' = Append(Pending, e) /\ e \in Frame
    <3>1. queue' = Append(queue, e) /\ e \in Frame
      BY <1>2, <1>3, <1>8, EventFacts DEF Publish
    <3>. QED
      BY <1>1, <1>3, <3>1, PendingFacts DEF Pending
  <2>2. CASE p = n
    <3>1. IsNews(e, uploaded + 1) /\ p = uploaded + 1
      BY <1>2, <1>4, <1>5, <2>2 DEF IsNews
    <3>2. Follows(wall, Append(Pending, e), p)
      BY <1>1, <2>1, <3>1, NewestFollows DEF Past
    <3>. QED
      BY <1>3, <2>1, <3>2
  <2>3. CASE p # n
    <3>1. Passes(e, p)
      <4>1. e.id = n
        BY <1>2, <1>4
      <4>. QED
        BY <1>2, <1>7, <2>3, <4>1, <1>1 DEF Passes
    <3>2. Follows(wall, Append(Pending, e), p)
      BY <1>1, <1>7, <2>1, <2>3, <3>1, LaterFollows
    <3>. QED
      BY <1>3, <2>1, <3>2
  <2>. QED
    BY <2>2, <2>3
<1>9. CASE ~HasRoom
  <2>1. Pending' = Pending
    BY <1>2, <1>3, <1>9 DEF Publish, Pending
  <2>2. p \in steady
    BY <1>9 DEF Upload
  <2>3. p # n
    BY <1>1, <1>5, <2>2
  <2>. QED
    BY <1>3, <1>7, <2>1, <2>3
<1>. QED
  BY <1>8, <1>9

LEMMA TakeDownStays ==
  ASSUME Sound, SteadyStays, Clear \/ \E q \in Planet : Delete(q)
  PROVE  SteadyStays'
<1>1. CASE Clear
  BY <1>1 DEF Clear, SteadyStays
<1>2. ASSUME NEW q \in Planet, Delete(q) PROVE SteadyStays'
  <2>1. PICK e \in Event : e.kind = "removed" /\ e.id = q /\ Publish(e)
    BY <1>2, EventFacts DEF Delete
  <2>2. /\ store' = store \ {q} /\ uploaded' = uploaded /\ steady' = steady
        /\ wall' = wall /\ wire' = wire /\ stream' = stream
    BY <1>2 DEF Delete, Publish
  <2>3. Pending \in Seq(Frame) /\ wire \in Seq(Frame) /\ queue \in Seq(Event)
    BY PendingIsPast DEF Sound, Lines
  <2>. SUFFICES ASSUME stream' = "streaming", NEW p \in steady' \cap store', p > uploaded' - GallerySize
                PROVE  Follows(wall', Pending', p)
    BY DEF SteadyStays
  <2>4. Follows(wall, Pending, p) /\ Passes(e, p)
    <3>1. p \in steady \cap store /\ p > uploaded - GallerySize /\ p # q
      BY <2>2
    <3>. QED
      BY <2>1, <2>2, <3>1 DEF SteadyStays, Passes
  <2>5. CASE queue' = queue
    <3>1. Pending' = Pending
      BY <2>2, <2>5 DEF Pending
    <3>. QED
      BY <2>2, <2>4, <3>1
  <2>6. CASE queue' = Append(queue, e)
    <3>1. Pending' = Append(Pending, e) /\ e \in Frame
      BY <2>2, <2>3, <2>6, PendingFacts, EventFacts DEF Pending
    <3>2. Follows(wall, Append(Pending, e), p)
      BY <2>3, <2>4, <3>1, LaterFollows
    <3>. QED
      BY <2>2, <3>1, <3>2
  <2>. QED
    BY <2>1, <2>5, <2>6 DEF Publish
<1>. QED
  BY <1>1, <1>2

\* Forwarding an event changes what is on the wire, not what is pending.
LEMMA ForwardStays ==
  ASSUME Sound, SteadyStays, Forward
  PROVE  SteadyStays'
<1>1. wire \in Seq(Frame) /\ queue \in Seq(Event)
  BY DEF Sound, Lines
<1>2. Pending' = Pending
  BY <1>1, PendingFacts DEF Forward, Pending
<1>3. UNCHANGED <<uploaded, store, steady, wall>> /\ stream = "streaming"
  BY DEF Forward, serverVars, historyVars
<1>. QED
  BY <1>2, <1>3 DEF SteadyStays

LEMMA TakenStays ==
  ASSUME Sound, SteadyStays, TakeFrame
  PROVE  SteadyStays'
<1>1. /\ uploaded \in Nat /\ Fits(wall, uploaded) /\ wire \in Seq(Frame) /\ queue \in Seq(Event)
      /\ Past(wire) /\ wire # << >> /\ Pending \in Seq(Frame) /\ store \subseteq Planet
  <2>1. store \subseteq Planet
    BY NumberFacts DEF Sound, Server
  <2>. QED
    BY <2>1, NumberFacts, PendingIsPast DEF Sound, Server, Lines, TakeFrame
<1>2. /\ wire' = Tail(wire) /\ wall' = Handle(wall, Head(wire))
      /\ UNCHANGED <<uploaded, store, stream, queue>> /\ (steady' = steady \/ steady' = {})
  BY DEF TakeFrame, serverVars
<1>3. Pending # << >> /\ Head(Pending) = Head(wire) /\ Pending' = Tail(Pending)
  BY <1>1, <1>2, PendingFacts DEF Pending
<1>4. Head(wire).kind = "planet" => Head(wire).id <= uploaded
  BY <1>1 DEF Past
<1>. SUFFICES ASSUME stream' = "streaming", NEW p \in steady' \cap store', p > uploaded' - GallerySize
              PROVE  Follows(wall', Pending', p)
  BY DEF SteadyStays
<1>5. p \in steady \cap store /\ p > uploaded - GallerySize /\ p \in Planet
  BY <1>1, <1>2
<1>6. Follows(wall, Pending, p)
  BY <1>2, <1>5 DEF SteadyStays
<1>7. Follows(Handle(wall, Head(Pending)), Tail(Pending), p)
  BY <1>1, <1>3, <1>4, <1>5, <1>6, TakenFollows
<1>. QED
  BY <1>2, <1>3, <1>7

\* A manifest that is missing while the server is up is one of a planet that is gone.
LEMMA ManifestStays ==
  ASSUME Sound, Links, SteadyStays, NEW i \in DOMAIN wall, ManifestLoads(i) \/ ManifestFails(i)
  PROVE  SteadyStays'
<1>1. Fits(wall, uploaded) /\ uploaded \in Nat /\ i \in 1..Len(wall) /\ store \subseteq Planet
  <2>1. store \subseteq Planet
    BY NumberFacts DEF Sound, Server
  <2>. QED
    BY <2>1, NumberFacts DEF Sound, Server, Fits
<1>2. UNCHANGED <<uploaded, store, steady, stream, queue, wire, up>>
  BY DEF ManifestLoads, ManifestFails, serverVars, streamVars, historyVars
<1>3. CASE stream # "streaming"
  BY <1>2, <1>3 DEF SteadyStays
<1>4. CASE stream = "streaming" /\ ManifestFails(i)
  <2>1. up /\ wall[i].id \notin store /\ wall' = Keep(wall, Planet \ {wall[i].id})
    BY <1>4 DEF ManifestFails, TakeDown, Links
  <2>2. ASSUME NEW p \in store, NEW s, Follows(wall, s, p) PROVE Follows(wall', s, p)
    <3>1. p \in Planet \ {wall[i].id}
      BY <1>1, <2>1
    <3>. QED
      BY <1>1, <2>1, <2>2, <3>1, KeepFollows
  <2>. QED
    BY <1>2, <2>2, StaysInPlace
<1>5. CASE ManifestLoads(i)
  <2>1. wall' = [wall EXCEPT ![i].loaded = TRUE]
    BY <1>5 DEF ManifestLoads
  <2>2. Len(wall') = Len(wall) /\ \A j \in 1..Len(wall) : wall'[j].id = wall[j].id
    BY <1>1, <2>1, LoadFits
  <2>3. \A s : \A p \in store : Follows(wall, s, p) => Follows(wall', s, p)
    BY <2>2, SameIdsFollow
  <2>. QED
    BY <1>2, <2>3, StaysInPlace
<1>. QED
  BY <1>3, <1>4, <1>5

\* A manifest that could not be read is no longer one the wall is steady about.
LEMMA BreakStays ==
  ASSUME Sound, SteadyStays, NEW i \in DOMAIN wall, ManifestBreaks(i)
  PROVE  SteadyStays'
<1>1. Fits(wall, uploaded) /\ uploaded \in Nat /\ i \in 1..Len(wall) /\ store \subseteq Planet
  <2>1. store \subseteq Planet
    BY NumberFacts DEF Sound, Server
  <2>. QED
    BY <2>1, NumberFacts DEF Sound, Server, Fits
<1>2. /\ UNCHANGED <<uploaded, store, stream, queue, wire>>
      /\ wall' = Keep(wall, Planet \ {wall[i].id}) /\ steady' = steady \ {wall[i].id}
  BY DEF ManifestBreaks, TakeDown, serverVars, streamVars
<1>3. Pending' = Pending
  BY <1>2 DEF Pending
<1>. SUFFICES ASSUME stream' = "streaming", NEW p \in steady' \cap store', p > uploaded' - GallerySize
              PROVE  Follows(wall', Pending', p)
  BY DEF SteadyStays
<1>4. Follows(wall, Pending, p) /\ p \in Planet \ {wall[i].id}
  BY <1>1, <1>2 DEF SteadyStays
<1>. QED
  BY <1>1, <1>2, <1>3, <1>4, KeepFollows

LEMMA SteadyStaysKept ==
  ASSUME Sound, Links, SteadyIdle, SteadyStays, Next
  PROVE  SteadyStays'
<1>1. stream' # "streaming" => SteadyStays'
  BY DEF SteadyStays
<1>2. steady' = {} => SteadyStays'
  BY DEF SteadyStays
<1>3. CASE GoDown \/ Accept \/ LinkFails \/ Retry \/ Reload
  BY <1>1, <1>3 DEF GoDown, Accept, LinkFails, Retry, Connect, Reload
<1>4. CASE Prime
  BY <1>2, <1>4 DEF Prime, Links, SteadyIdle, historyVars
<1>5. CASE GoUp \/ PollTick
  <2>1. UNCHANGED <<uploaded, store, steady, stream, queue, wire, wall>>
    BY <1>5 DEF GoUp, PollTick, serverVars, streamVars, historyVars
  <2>. QED
    BY <2>1, StaysInPlace
<1>6. ASSUME NEW f \in Slot, Respond(f) PROVE SteadyStays'
  <2>1. UNCHANGED <<uploaded, store, steady, stream, queue, wire, wall>>
    BY <1>6 DEF Respond, serverVars, streamVars, historyVars
  <2>. QED
    BY <2>1, StaysInPlace
<1>7. ASSUME NEW f \in Slot, Apply(f) \/ FetchFails(f) PROVE SteadyStays'
  <2>1. fetch[f] # Idle /\ AfterFetch(f)
    BY <1>7 DEF Apply, FetchFails, Idle
  <2>. QED
    BY <1>2, <2>1, ReadingIsUnsteady
<1>. QED
  BY <1>3, <1>4, <1>5, <1>6, <1>7, UploadStays, TakeDownStays, ForwardStays, TakenStays,
     ManifestStays, BreakStays DEF Next

LEMMA SteadyAlwaysStays == SafeSpec => []SteadyStays
<1>1. Init => SteadyStays
  BY DEF Init, SteadyStays
<1>2. Sound /\ Links /\ SteadyIdle /\ SteadyStays /\ Next => SteadyStays'
  BY SteadyStaysKept
<1>3. SteadyStays /\ UNCHANGED vars => SteadyStays'
  BY DEF SteadyStays, Pending, vars, serverVars, streamVars, historyVars
<1>. QED
  BY <1>1, <1>2, <1>3, AlwaysSound, AlwaysLinked, PTL DEF SafeSpec

\* Always, when nothing is under way: every drawing that was sent while the wall was
\* live and read no gallery is shown, unless staff took it down, GallerySize newer
\* ones have come or its manifest could not be read.
THEOREM LiveUploadsAreShown == SafeSpec => []LiveUploadsShow
<1>1. ASSUME Sound, SteadyStays PROVE LiveUploadsShow
  <2>. SUFFICES ASSUME Quiet, NEW p \in steady \cap store, p > uploaded - GallerySize
                PROVE  p \in Shown
    BY DEF LiveUploadsShow
  <2>1. Pending = << >> /\ DOMAIN wall = 1..Len(wall)
    BY <1>1 DEF Quiet, Pending, Sound, Fits
  <2>2. Follows(wall, Pending, p)
    BY <1>1 DEF SteadyStays, Quiet
  <2>3. ~OnTheWay(wall, Pending, p)
    BY <2>1 DEF OnTheWay
  <2>4. PICK i \in 1..Len(wall) : wall[i].id = p
    BY <2>2, <2>3 DEF Follows, Arrived
  <2>. QED
    BY <2>1, <2>4 DEF Shown, OnWall
<1>. QED
  BY <1>1, AlwaysSound, SteadyAlwaysStays, PTL
==============================================================================
