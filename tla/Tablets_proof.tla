---------------------------- MODULE Tablets_proof ----------------------------
(***************************************************************************)
(* What the server and the two tablet apps keep to: the upload cooldown is *)
(* fair for any clients, cooldown, ceiling and drift; the manager's        *)
(* console is true to the server, for any planets, settings and open       *)
(* calls; a child's drawing session is safe, for any galaxies, sizes of a  *)
(* canvas, paints and number of strokes; and the calendar behind the       *)
(* seasonal theme is right on every day of every year.                     *)
(***************************************************************************)
EXTENDS MCTablets, DataInduction, FiniteSetTheorems

(* The upload cooldown.                                                     *)

\* A tracked reading is off from the time of the upload by what the clock was set
\* by since the start, at most.
Bracketed ==
    \A c \in DOMAIN lastUpload :
        /\ accepted[c] - back <= lastUpload[c]
        /\ lastUpload[c] <= accepted[c] + forward

\* A client that is not tracked and was not dropped for want of room has outlived
\* its cooldown.
Aged ==
    \A c \in DOMAIN accepted \ (DOMAIN lastUpload \cup forgotten) :
        time - accepted[c] + forward >= Cooldown

\* What the three safety properties need to be inductive together.
LimiterInv == TypeOK /\ Bracketed /\ Aged /\ MapBounded

\* The server starts with an empty map.
LEMMA LimiterStarts == LimiterInit => LimiterInv
<1>. SUFFICES ASSUME LimiterInit PROVE LimiterInv
  OBVIOUS
<1>1. DOMAIN lastUpload = {} /\ DOMAIN accepted = {}
  BY DEF LimiterInit
<1>2. TypeOK
  BY <1>1, ConstantsAssumption DEF LimiterInit, TypeOK
<1>3. Bracketed /\ Aged
  BY <1>1 DEF Bracketed, Aged
<1>4. MapBounded
  BY <1>1, FS_EmptySet, ConstantsAssumption DEF MapBounded
<1>. QED
  BY <1>2, <1>3, <1>4 DEF LimiterInv

\* _evict_stale keeps entries of the map, no more than the ceiling allows, and of
\* those it drops it drops the stale ones, or it drops down to the ceiling.
LEMMA KeptEntries ==
    ASSUME NEW f, f \in [DOMAIN f -> Int], now \in Int, NEW K \in Kept(f)
    PROVE  /\ K \subseteq DOMAIN f
           /\ Cardinality(K) <= MaxEntries
           /\ \A d \in DOMAIN f \ K :
                 Cardinality(K) = MaxEntries \/ f[d] <= now - Cooldown
<1>. DEFINE active == {c \in DOMAIN f : f[c] > now - Cooldown}
<1>1. CASE Cardinality(DOMAIN f) <= MaxEntries
  BY <1>1 DEF Kept
<1>2. CASE ~(Cardinality(DOMAIN f) <= MaxEntries) /\ Cardinality(active) <= MaxEntries
  <2>1. K = active
    BY <1>2 DEF Kept
  <2>. QED
    BY <1>2, <2>1, ConstantsAssumption
<1>3. CASE ~(Cardinality(DOMAIN f) <= MaxEntries) /\ ~(Cardinality(active) <= MaxEntries)
  <2>1. K \in NewestEntries(Restrict(f, active), MaxEntries)
    BY <1>3 DEF Kept
  <2>2. K \subseteq active /\ Cardinality(K) = MaxEntries
    BY <2>1 DEF NewestEntries, Restrict
  <2>. QED
    BY <2>2, ConstantsAssumption
<1>. QED
  BY <1>1, <1>2, <1>3

\* Time and the clock widen what a reading may be off by; they age every client.
LEMMA ClockStep ==
    ASSUME LimiterInv, Tick \/ SetForward \/ SetBack
    PROVE  LimiterInv'
<1>. USE DEF LimiterInv
<1>0. /\ time \in Nat /\ forward \in Nat /\ back \in Nat
      /\ time' \in Nat /\ forward' \in Nat /\ back' \in Nat
      /\ time <= time' /\ forward <= forward' /\ back <= back'
      /\ UNCHANGED <<lastUpload, accepted, forgotten>>
  BY ConstantsAssumption DEF TypeOK, Tick, SetForward, SetBack
<1>1. TypeOK'
  <2>1. time' \in 0..MaxTime /\ forward' \in 0..MaxDrift /\ back' \in 0..MaxDrift
    BY ConstantsAssumption DEF TypeOK, Tick, SetForward, SetBack
  <2>2. accepted' \in [DOMAIN accepted' -> 0..time']
    BY <1>0 DEF TypeOK
  <2>. QED
    BY <1>0, <2>1, <2>2 DEF TypeOK
<1>2. \A c \in DOMAIN accepted : accepted[c] \in Int
  BY <1>0 DEF TypeOK
<1>3. \A c \in DOMAIN lastUpload : lastUpload[c] \in Int /\ c \in DOMAIN accepted
  BY DEF TypeOK
<1>4. Bracketed'
  BY <1>0, <1>2, <1>3 DEF Bracketed
<1>5. Aged'
  BY <1>0, <1>2, ConstantsAssumption DEF Aged
<1>6. MapBounded'
  BY <1>0 DEF MapBounded
<1>. QED
  BY <1>1, <1>4, <1>5, <1>6

\* An accepted upload enters the map, and may push others out of it.
LEMMA AcceptStep ==
    ASSUME LimiterInv, NEW c \in Client, Accept(c)
    PROVE  LimiterInv'
<1>. USE DEF LimiterInv
<1>. DEFINE entries == Put(lastUpload, c, now)
<1>0. /\ time \in Nat /\ forward \in Nat /\ back \in Nat /\ now \in Int
      /\ now = time + forward - back
      /\ UNCHANGED <<time, forward, back>>
  BY ConstantsAssumption DEF TypeOK, Accept, now
<1>1. /\ DOMAIN entries = DOMAIN lastUpload \cup {c}
      /\ entries[c] = now
      /\ \A d \in DOMAIN lastUpload : d # c => entries[d] = lastUpload[d]
  BY DEF Put
<1>2. /\ DOMAIN accepted' = DOMAIN accepted \cup {c}
      /\ accepted'[c] = time
      /\ \A d \in DOMAIN accepted : d # c => accepted'[d] = accepted[d]
  BY DEF Accept, Put
<1>3. \A d \in DOMAIN accepted' : accepted'[d] \in 0..time
  BY <1>0, <1>2 DEF TypeOK
<1>4. \A d \in DOMAIN entries : d \in DOMAIN accepted' /\ entries[d] \in Int
  BY <1>0, <1>1, <1>2 DEF TypeOK
<1>5. entries \in [DOMAIN entries -> Int]
  BY <1>4 DEF Put
<1>6. PICK K \in Kept(entries) :
          /\ lastUpload' = Restrict(entries, K)
          /\ forgotten' = (forgotten \ {c}) \cup
                {d \in DOMAIN entries \ K : Cardinality(K) = MaxEntries
                                            /\ now - entries[d] < Cooldown}
  BY DEF Accept
<1>7. \A d \in DOMAIN entries :
          /\ accepted'[d] - back <= entries[d]
          /\ entries[d] <= accepted'[d] + forward
  BY <1>0, <1>1, <1>2, <1>4 DEF Bracketed, TypeOK
<1>. HIDE DEF entries
<1>8. /\ K \subseteq DOMAIN entries
      /\ Cardinality(K) <= MaxEntries
      /\ \A d \in DOMAIN entries \ K :
            Cardinality(K) = MaxEntries \/ entries[d] <= now - Cooldown
  BY <1>0, <1>5, <1>6, KeptEntries
<1>9. DOMAIN lastUpload' = K /\ \A d \in K : lastUpload'[d] = entries[d]
  BY <1>6 DEF Restrict
<1>10. TypeOK'
  <2>1. lastUpload' \in [DOMAIN lastUpload' -> Int]
    BY <1>4, <1>6, <1>8, <1>9 DEF Restrict
  <2>2. accepted' \in [DOMAIN accepted' -> 0..time']
    BY <1>0, <1>3 DEF Accept, Put
  <2>3. DOMAIN lastUpload' \subseteq DOMAIN accepted' /\ DOMAIN accepted' \subseteq Client
    BY <1>2, <1>4, <1>8, <1>9 DEF TypeOK
  <2>4. forgotten' \subseteq DOMAIN accepted'
    BY <1>2, <1>4, <1>6 DEF TypeOK
  <2>. QED
    BY <1>0, <2>1, <2>2, <2>3, <2>4 DEF TypeOK
<1>11. Bracketed'
  BY <1>0, <1>7, <1>8, <1>9 DEF Bracketed
<1>12. Aged'
  <2>. SUFFICES ASSUME NEW d \in DOMAIN accepted', d \notin K, d \notin forgotten'
                PROVE  time - accepted'[d] + forward >= Cooldown
    BY <1>0, <1>9 DEF Aged
  <2>1. CASE d \in DOMAIN entries
    <3>1. entries[d] <= now - Cooldown
      BY <1>0, <1>4, <1>6, <1>8, <2>1, ConstantsAssumption
    <3>. QED
      BY <1>0, <1>3, <1>4, <1>7, <2>1, <3>1, ConstantsAssumption
  <2>2. CASE d \notin DOMAIN entries
    <3>1. d # c /\ d \in DOMAIN accepted /\ d \notin DOMAIN lastUpload /\ d \notin forgotten
      BY <1>1, <1>2, <1>6, <2>2 DEF entries
    <3>. QED
      BY <1>2, <3>1 DEF Aged
  <2>. QED
    BY <2>1, <2>2
<1>13. MapBounded'
  BY <1>8, <1>9 DEF MapBounded
<1>. QED
  BY <1>10, <1>11, <1>12, <1>13

\* The invariant holds for ever.
THEOREM LimiterAlways == LimiterSpec => []LimiterInv
<1>1. LimiterInv /\ [LimiterNext]_limiterVars => LimiterInv'
  <2>1. LimiterInv /\ LimiterNext => LimiterInv'
    BY ClockStep, AcceptStep DEF LimiterNext
  <2>2. LimiterInv /\ UNCHANGED limiterVars => LimiterInv'
    BY DEF LimiterInv, limiterVars, TypeOK, Bracketed, Aged, MapBounded, now
  <2>. QED
    BY <2>1, <2>2
<1>. QED
  BY <1>1, LimiterStarts, PTL DEF LimiterSpec

\* The limiter's state stays well typed.
THEOREM LimiterIsTyped == LimiterSpec => []TypeOK
BY LimiterAlways, PTL DEF LimiterInv

\* However many tablets come, the map (_last_upload) stays within its ceiling.
THEOREM MapIsBounded == LimiterSpec => []MapBounded
BY LimiterAlways, PTL DEF LimiterInv

\* A client whose entry was not dropped for want of room is refused for the whole
\* of its cooldown, however the clock is set back.
THEOREM CooldownAlwaysHolds == LimiterSpec => []CooldownHolds
<1>1. LimiterInv => CooldownHolds
  <2>. SUFFICES ASSUME LimiterInv, NEW c \in DOMAIN accepted \ forgotten,
                       time - accepted[c] + forward < Cooldown
                PROVE  Refused(c)
    BY DEF CooldownHolds
  <2>0. /\ time \in Int /\ forward \in Int /\ back \in Int /\ accepted[c] \in Int
        /\ Cooldown \in Int
    BY ConstantsAssumption DEF LimiterInv, TypeOK
  <2>1. c \in DOMAIN lastUpload
    BY <2>0 DEF LimiterInv, Aged
  <2>2. lastUpload[c] \in Int /\ accepted[c] - back <= lastUpload[c]
    BY <2>1 DEF LimiterInv, Bracketed, TypeOK
  <2>. QED
    BY <2>0, <2>1, <2>2 DEF Refused, now
<1>. QED
  BY <1>1, LimiterAlways, PTL

\* No entry refuses its client for longer than the cooldown and what the clock was
\* set back by.
THEOREM LockoutAlwaysEnds == LimiterSpec => []LockoutEnds
<1>1. LimiterInv => LockoutEnds
  <2>. SUFFICES ASSUME LimiterInv, NEW c \in DOMAIN lastUpload, Refused(c)
                PROVE  time - accepted[c] < Cooldown + back
    BY DEF LockoutEnds
  <2>1. /\ time \in Int /\ forward \in Int /\ back \in Int /\ accepted[c] \in Int
        /\ Cooldown \in Int /\ lastUpload[c] \in Int
    BY ConstantsAssumption DEF LimiterInv, TypeOK
  <2>2. lastUpload[c] <= accepted[c] + forward
    BY DEF LimiterInv, Bracketed
  <2>. QED
    BY <2>1, <2>2 DEF Refused, now
<1>. QED
  BY <1>1, LimiterAlways, PTL

\* Both at once: the cooldown lasts as long as it should, and locks no tablet out.
THEOREM CooldownIsAlwaysFair == LimiterSpec => []CooldownIsFair
BY CooldownAlwaysHolds, LockoutAlwaysEnds, PTL DEF CooldownIsFair

------------------------------------------------------------------------------
(* The manager's console.                                                   *)

(* The settings.                                                            *)

LookTyped ==
    /\ settings \in Settings
    /\ look \in [behaviorSettings : Settings, isBehaviorLoading : BOOLEAN,
                 isUpdatingBehavior : BOOLEAN]
    /\ lookCalls \in [LookSlot -> LookCall]
    /\ doubt \in BOOLEAN

Open(calls, s) == calls[s].state \in {"asked", "answered"}
Putting(s) == Open(lookCalls, s) /\ lookCalls[s].op = "put"

\* One choice is sent at a time, and its button knows.
OnePut ==
    /\ \A s, t \in LookSlot : Putting(s) /\ Putting(t) => s = t
    /\ look.isUpdatingBehavior <=> \E s \in LookSlot : Putting(s)
    /\ look.isBehaviorLoading => \E s \in LookSlot : Open(lookCalls, s) /\ lookCalls[s].op = "get"

\* Without a doubt the screen is the server's, until a choice was stored whose answer
\* is on its way.
InStep ==
    ~doubt /\ (\A s \in LookSlot : ~(Putting(s) /\ lookCalls[s].state = "answered" /\ lookCalls[s].ok))
        => look.behaviorSettings = settings

\* A choice that was made without a doubt is the only one that may still be stored.
SureIsAlone ==
    \A s, t \in LookSlot :
        lookCalls[s].op = "put" /\ lookCalls[s].state = "asked" /\ lookCalls[s].sure =>
            ~(lookCalls[t].op = "put" /\ lookCalls[t].state = "abandoned")

ChangesOne ==
    \A s \in LookSlot :
        lookCalls[s].op = "put" /\ lookCalls[s].state = "asked" /\ lookCalls[s].sure =>
            {f \in Setting : lookCalls[s].body[f] # settings[f]} = lookCalls[s].field

LookInv == LookTyped /\ OnePut /\ InStep /\ SureIsAlone /\ ChangesOne

LEMMA FreeLookTyped ==
    FreeLook \in LookCall /\ [FreeLook EXCEPT !.state = "asked"] \in LookCall
BY DEF FreeLook, LookCall, Progress, Settings

LEMMA LookStarts == LookInit => LookInv
<1> SUFFICES ASSUME LookInit PROVE LookInv
  OBVIOUS
<1> USE FreeLookTyped
<1>1. PICK s \in LookSlot : lookCalls = [c \in LookSlot |->
          IF c = s THEN [FreeLook EXCEPT !.state = "asked"] ELSE FreeLook]
  BY DEF LookInit
<1>2. LookTyped
  BY <1>1 DEF LookInit, LookTyped, Settings
<1>3. \A t \in LookSlot : lookCalls[t].op = "get"
  BY <1>1 DEF FreeLook
<1>4. lookCalls[s].state = "asked"
  BY <1>1 DEF FreeLook
<1> QED BY <1>2, <1>3, <1>4 DEF LookInit, LookInv, OnePut, InStep, SureIsAlone, ChangesOne, Putting, Open

LEMMA RefreshBehaviorStep == LookInv /\ refreshBehavior => LookInv'
<1> SUFFICES ASSUME LookInv, refreshBehavior PROVE LookInv'
  OBVIOUS
<1> DEFINE call == [FreeLook EXCEPT !.state = "asked"]
<1>1. PICK s \in LookSlot : lookCalls[s].state = "free" /\ lookCalls' = [lookCalls EXCEPT ![s] = call]
  BY DEF refreshBehavior, AskLook
<1>2. call \in LookCall /\ call.op = "get" /\ call.state = "asked"
  BY FreeLookTyped DEF FreeLook
<1> HIDE DEF call
<1>3. UNCHANGED <<settings, doubt>> /\ look' = [look EXCEPT !.isBehaviorLoading = TRUE]
  BY DEF refreshBehavior, AskLook
<1>4. LookTyped'
  BY <1>1, <1>2, <1>3 DEF LookInv, LookTyped
<1>5. lookCalls'[s] = call /\ \A t \in LookSlot \ {s} : lookCalls'[t] = lookCalls[t]
  BY <1>1 DEF LookInv, LookTyped
<1>6. OnePut'
  BY <1>1, <1>2, <1>3, <1>5 DEF LookInv, LookTyped, OnePut, Putting, Open
<1>7. InStep' /\ SureIsAlone' /\ ChangesOne'
  BY <1>1, <1>2, <1>3, <1>5 DEF LookInv, LookTyped, InStep, SureIsAlone, ChangesOne, Putting, Open
<1> QED BY <1>4, <1>6, <1>7 DEF LookInv

LEMMA UpdateStep ==
    ASSUME NEW f \in Setting, NEW v \in BOOLEAN, LookInv, updateBehavior(f, v)
    PROVE  LookInv'
<1> DEFINE updated == [look.behaviorSettings EXCEPT ![f] = v]
           call == [op |-> "put", field |-> {f}, sure |-> Sure, state |-> "asked", ok |-> FALSE,
                    body |-> updated]
<1>1. PICK s \in LookSlot : lookCalls[s].state = "free" /\ lookCalls' = [lookCalls EXCEPT ![s] = call]
  BY DEF updateBehavior, PutSettings, AskLook
<1>2. /\ UNCHANGED <<settings, doubt>> /\ look' = [look EXCEPT !.isUpdatingBehavior = TRUE]
      /\ ~look.isUpdatingBehavior /\ ~look.isBehaviorLoading
      /\ updated # look.behaviorSettings
  BY DEF updateBehavior, PutSettings, AskLook
<1>3. updated \in Settings /\ look.behaviorSettings \in Settings
  BY DEF LookInv, LookTyped, Settings
<1>4. Sure \in BOOLEAN
  BY DEF Sure
<1>5. call \in LookCall
  BY <1>3, <1>4 DEF LookCall, Progress
<1>6. LookTyped'
  BY <1>1, <1>2, <1>5 DEF LookInv, LookTyped
<1>7. lookCalls'[s] = call /\ \A t \in LookSlot \ {s} : lookCalls'[t] = lookCalls[t]
  BY <1>1 DEF LookInv, LookTyped
<1>8. \A t \in LookSlot : ~Putting(t)
  BY <1>2 DEF LookInv, OnePut
<1>9. Sure => {g \in Setting : updated[g] # settings[g]} = {f}
  <2> SUFFICES ASSUME Sure PROVE {g \in Setting : updated[g] # settings[g]} = {f}
    OBVIOUS
  <2>1. look.behaviorSettings = settings
    BY <1>8 DEF Sure, LookInv, InStep
  <2>2. \A g \in Setting \ {f} : updated[g] = settings[g]
    BY <2>1, <1>3 DEF Settings
  <2>3. updated[f] # settings[f]
    BY <2>1, <1>2, <1>3 DEF Settings
  <2> QED BY <2>2, <2>3
<1>a. call.op = "put" /\ call.state = "asked" /\ call.sure = Sure /\ call.field = {f} /\ call.body = updated /\ ~call.ok
  OBVIOUS
<1> HIDE DEF call
<1>b. OnePut'
  BY <1>1, <1>2, <1>7, <1>8, <1>a DEF LookInv, LookTyped, OnePut, Putting, Open
<1>c. InStep'
  BY <1>1, <1>2, <1>7, <1>8, <1>a DEF LookInv, LookTyped, InStep, Putting, Open
<1>d. ASSUME NEW t \in LookSlot, lookCalls'[t].op = "put", lookCalls'[t].state = "asked",
             lookCalls'[t].sure
      PROVE  t = s /\ Sure
  <2>1. t = s
    BY <1>7, <1>8, <1>d DEF Putting, Open
  <2> QED BY <1>7, <1>a, <1>d, <2>1
<1>e. SureIsAlone'
  <2>1. ASSUME NEW u \in LookSlot, Sure
        PROVE  ~(lookCalls'[u].op = "put" /\ lookCalls'[u].state = "abandoned")
    <3>1. CASE u = s
      BY <1>7, <1>a, <3>1
    <3>2. CASE u # s
      BY <1>7, <2>1, <3>2 DEF Sure
    <3> QED BY <3>1, <3>2
  <2> QED BY <1>d, <2>1 DEF SureIsAlone
<1>f. ChangesOne'
  <2>1. settings' = settings
    BY <1>2
  <2>2. ASSUME NEW t \in LookSlot, lookCalls'[t].op = "put", lookCalls'[t].state = "asked",
               lookCalls'[t].sure
        PROVE  {g \in Setting : lookCalls'[t].body[g] # settings'[g]} = lookCalls'[t].field
    <3>1. lookCalls'[t] = call /\ Sure
      BY <1>7, <1>d, <2>2
    <3>2. call.body = updated /\ call.field = {f}
      BY <1>a
    <3> HIDE DEF updated
    <3> QED BY <1>9, <2>1, <3>1, <3>2
  <2> QED BY <2>2 DEF ChangesOne
<1> QED BY <1>6, <1>b, <1>c, <1>e, <1>f DEF LookInv

LEMMA ServeLookStep ==
    ASSUME NEW s \in LookSlot, LookInv, ServeLook(s)
    PROVE  LookInv'
<1> DEFINE c == lookCalls[s]
<1>0. c \in LookCall
  BY DEF LookInv, LookTyped
<1>1. PICK ok \in BOOLEAN :
        /\ settings' = IF ok /\ c.op = "put" THEN c.body ELSE settings
        /\ lookCalls' = [lookCalls EXCEPT ![s] =
              IF c.state = "abandoned" THEN FreeLook
              ELSE [c EXCEPT !.state = "answered", !.ok = ok, !.body = IF ok THEN settings' ELSE @]]
  BY DEF ServeLook
<1>2. /\ c.state \in {"asked", "abandoned"} /\ UNCHANGED look
      /\ doubt' = (doubt \/ (c.state = "abandoned" /\ settings' # settings))
  BY DEF ServeLook
<1>3. settings' \in Settings /\ doubt' \in BOOLEAN
  BY <1>0, <1>1, <1>2 DEF LookInv, LookTyped, LookCall
<1> DEFINE answer == [c EXCEPT !.state = "answered", !.ok = ok, !.body = IF ok THEN settings' ELSE @]
<1>4. /\ answer \in LookCall /\ answer.op = c.op /\ answer.state = "answered"
      /\ answer.ok = ok /\ answer.body = IF ok THEN settings' ELSE c.body
  BY <1>0, <1>3 DEF LookCall, Progress
<1>5. /\ c.state = "asked" => lookCalls'[s] = answer
      /\ c.state = "abandoned" => lookCalls'[s] = FreeLook
      /\ \A t \in LookSlot \ {s} : lookCalls'[t] = lookCalls[t]
  BY <1>1, <1>2 DEF LookInv, LookTyped
<1>6. LookTyped'
  <2>1. (IF c.state = "abandoned" THEN FreeLook ELSE answer) \in LookCall
    BY <1>4, FreeLookTyped
  <2> QED BY <2>1, <1>1, <1>2, <1>3 DEF LookInv, LookTyped
<1>7. FreeLook.op = "get" /\ FreeLook.state = "free"
  BY DEF FreeLook
<1> HIDE DEF answer
<1>8. OnePut'
  BY <1>2, <1>4, <1>5, <1>7 DEF LookInv, OnePut, Putting, Open
<1>9. SureIsAlone'
  BY <1>2, <1>4, <1>5, <1>7 DEF LookInv, SureIsAlone
<1>10. InStep'
  <2>1. CASE settings' = settings
    BY <2>1, <1>1, <1>2, <1>4, <1>5, <1>7 DEF LookInv, InStep, Putting, Open
  <2>2. CASE settings' # settings /\ c.state = "asked"
    <3>1. ok /\ c.op = "put"
      BY <2>2, <1>1
    <3> QED BY <3>1, <2>2, <1>4, <1>5 DEF InStep, Putting, Open
  <2>3. CASE settings' # settings /\ c.state = "abandoned"
    BY <2>3, <1>2 DEF InStep
  <2> QED BY <2>1, <2>2, <2>3, <1>2
<1>11. ChangesOne'
  <2> SUFFICES ASSUME NEW t \in LookSlot, lookCalls'[t].op = "put",
                      lookCalls'[t].state = "asked", lookCalls'[t].sure
               PROVE  {f \in Setting : lookCalls'[t].body[f] # settings'[f]} = lookCalls'[t].field
    BY DEF ChangesOne
  <2>1. t # s /\ lookCalls'[t] = lookCalls[t]
    BY <1>2, <1>4, <1>5, <1>7
  <2>2. settings' = settings
    <3>1. ~(c.op = "put" /\ c.state = "asked")
      BY <2>1 DEF LookInv, OnePut, Putting, Open
    <3>2. ~(c.op = "put" /\ c.state = "abandoned")
      BY <2>1 DEF LookInv, SureIsAlone
    <3> QED BY <3>1, <3>2, <1>1, <1>2
  <2> QED BY <2>1, <2>2 DEF LookInv, ChangesOne
<1> QED BY <1>6, <1>8, <1>9, <1>10, <1>11 DEF LookInv

\* What a call that ends leaves behind, whether it was answered or lost.
LEMMA ButtonsFollow ==
    ASSUME NEW s \in LookSlot, LookInv, LookTyped', Open(lookCalls, s),
           ~Open(lookCalls', s),
           \A t \in LookSlot \ {s} : lookCalls'[t] = lookCalls[t],
           lookCalls[s].op = "get" =>
               /\ look'.isUpdatingBehavior = look.isUpdatingBehavior
               /\ look'.isBehaviorLoading = FALSE,
           lookCalls[s].op # "get" =>
               /\ look'.isBehaviorLoading = look.isBehaviorLoading
               /\ look'.isUpdatingBehavior = FALSE
    PROVE  OnePut'
BY DEF LookInv, LookTyped, LookCall, OnePut, Putting, Open

LEMMA AnswerLookStep ==
    ASSUME NEW s \in LookSlot, LookInv, AnswerLook(s)
    PROVE  LookInv'
<1> DEFINE c == lookCalls[s]
<1>0. c \in LookCall
  BY DEF LookInv, LookTyped
<1>1. /\ c.state = "answered" /\ UNCHANGED settings
      /\ lookCalls' = [lookCalls EXCEPT ![s] = FreeLook]
      /\ doubt' = IF c.ok THEN c.body # settings ELSE doubt
      /\ look' = Reset(c, IF c.ok THEN [look EXCEPT !.behaviorSettings = c.body] ELSE look)
  BY DEF AnswerLook
<1>2. LookTyped'
  BY <1>0, <1>1, FreeLookTyped DEF LookInv, LookTyped, LookCall, Reset
<1>3. lookCalls'[s] = FreeLook /\ \A t \in LookSlot \ {s} : lookCalls'[t] = lookCalls[t]
  BY <1>1 DEF LookInv, LookTyped
<1>4. FreeLook.op = "get" /\ FreeLook.state = "free"
  BY DEF FreeLook
<1>5. /\ look'.behaviorSettings = IF c.ok THEN c.body ELSE look.behaviorSettings
      /\ c.op = "get" => /\ look'.isUpdatingBehavior = look.isUpdatingBehavior
                         /\ look'.isBehaviorLoading = FALSE
      /\ c.op # "get" => /\ look'.isBehaviorLoading = look.isBehaviorLoading
                         /\ look'.isUpdatingBehavior = FALSE
  BY <1>0, <1>1 DEF LookInv, LookTyped, Reset
<1>6. OnePut'
  BY <1>1, <1>2, <1>3, <1>4, <1>5, ButtonsFollow DEF Open
<1>7. InStep'
  BY <1>1, <1>3, <1>4, <1>5 DEF LookInv, InStep, Putting, Open
<1>8. SureIsAlone' /\ ChangesOne'
  BY <1>1, <1>3, <1>4 DEF LookInv, SureIsAlone, ChangesOne
<1> QED BY <1>2, <1>6, <1>7, <1>8 DEF LookInv

LEMMA LoseLookStep ==
    ASSUME NEW s \in LookSlot, LookInv, LoseLook(s)
    PROVE  LookInv'
<1> DEFINE c == lookCalls[s]
           late == [c EXCEPT !.state = "abandoned"]
<1>0. c \in LookCall
  BY DEF LookInv, LookTyped
<1>1. /\ c.state \in {"asked", "answered"} /\ UNCHANGED settings
      /\ lookCalls' = [lookCalls EXCEPT ![s] = IF c.state = "asked" THEN late ELSE FreeLook]
      /\ doubt' = (doubt \/ (c.op = "put" /\ look.behaviorSettings # settings))
      /\ look' = Reset(c, look)
  BY DEF LoseLook
<1>2. late \in LookCall /\ late.op = c.op /\ late.state = "abandoned"
  BY <1>0 DEF LookCall, Progress
<1> HIDE DEF late
<1>3. LookTyped'
  BY <1>1, <1>2, FreeLookTyped DEF LookInv, LookTyped, Reset
<1>4. /\ c.state = "asked" => lookCalls'[s] = late
      /\ c.state # "asked" => lookCalls'[s] = FreeLook
      /\ \A t \in LookSlot \ {s} : lookCalls'[t] = lookCalls[t]
  BY <1>1 DEF LookInv, LookTyped
<1>5. FreeLook.op = "get" /\ FreeLook.state = "free"
  BY DEF FreeLook
<1>6. /\ look'.behaviorSettings = look.behaviorSettings
      /\ c.op = "get" => /\ look'.isUpdatingBehavior = look.isUpdatingBehavior
                         /\ look'.isBehaviorLoading = FALSE
      /\ c.op # "get" => /\ look'.isBehaviorLoading = look.isBehaviorLoading
                         /\ look'.isUpdatingBehavior = FALSE
  BY <1>1 DEF LookInv, LookTyped, Reset
<1>7. OnePut'
  BY <1>1, <1>2, <1>3, <1>4, <1>5, <1>6, ButtonsFollow DEF Open
<1>8. InStep'
  BY <1>1, <1>2, <1>4, <1>5, <1>6 DEF LookInv, InStep, Putting, Open
<1>9. SureIsAlone' /\ ChangesOne'
  <2> SUFFICES ASSUME NEW t \in LookSlot, lookCalls'[t].op = "put",
                      lookCalls'[t].state = "asked", lookCalls'[t].sure
               PROVE  /\ \A u \in LookSlot : ~(lookCalls'[u].op = "put" /\ lookCalls'[u].state = "abandoned")
                      /\ {f \in Setting : lookCalls'[t].body[f] # settings'[f]} = lookCalls'[t].field
    BY DEF SureIsAlone, ChangesOne
  <2>1. t # s /\ lookCalls'[t] = lookCalls[t]
    BY <1>1, <1>2, <1>4, <1>5
  <2>2. c.op # "put"
    BY <2>1, <1>1 DEF LookInv, OnePut, Putting, Open
  <2> QED BY <2>1, <2>2, <1>1, <1>2, <1>4, <1>5 DEF LookInv, SureIsAlone, ChangesOne
<1> QED BY <1>3, <1>7, <1>8, <1>9 DEF LookInv

LEMMA LookIsKept == LookInv /\ [LookNext]_lookVars => LookInv'
<1>1. LookInv /\ LookNext => LookInv'
  BY RefreshBehaviorStep, UpdateStep, ServeLookStep, AnswerLookStep, LoseLookStep DEF LookNext
<1>2. LookInv /\ UNCHANGED lookVars => LookInv'
  BY DEF lookVars, LookInv, LookTyped, OnePut, InStep, SureIsAlone, ChangesOne, Putting, Open
<1> QED BY <1>1, <1>2

LEMMA LookIsTrue == LookInv => SettingsAreTrue
<1> SUFFICES ASSUME LookInv PROVE SettingsAreTrue
  OBVIOUS
<1>1. Sure /\ Awaited(lookCalls, {"put"}) = {} => look.behaviorSettings = settings
  BY DEF LookInv, LookTyped, InStep, Sure, Awaited, Putting, Open
<1> QED BY <1>1 DEF LookInv, ChangesOne, SettingsAreTrue
------------------------------------------------------------------------------
(* The planets.                                                             *)

ListTyped ==
    /\ stored \in [Planet -> {"unborn", "named", "plain", "gone"}]
    /\ list \in [planets : Shown, isLoading : BOOLEAN, deletingIds : SUBSET Planet,
                 isClearing : BOOLEAN, isClearingNames : BOOLEAN]
    /\ listCalls \in [ListSlot -> ListCall]
    /\ excused \subseteq Planet

Clearing(s) == Open(listCalls, s) /\ listCalls[s].op = "clear"
Naming(s) == Open(listCalls, s) /\ listCalls[s].op \in {"names", "relist"}

\* One clear and one clear-names at a time, and every button knows.
OneOfEach ==
    /\ \A s, t \in ListSlot : Clearing(s) /\ Clearing(t) => s = t
    /\ \A s, t \in ListSlot : Naming(s) /\ Naming(t) => s = t
    /\ list.isClearing <=> \E s \in ListSlot : Clearing(s)
    /\ list.isClearingNames <=> \E s \in ListSlot : Naming(s)
    /\ list.isLoading => \E s \in ListSlot : Open(listCalls, s) /\ listCalls[s].op = "list"
    /\ \A p \in list.deletingIds : \E s \in ListSlot :
          Open(listCalls, s) /\ listCalls[s].op = "delete" /\ p \in listCalls[s].about

\* What a call is about, and that good news is news.
CallsAreApt ==
    \A s \in ListSlot :
        /\ listCalls[s].op \in {"clear", "names", "relist"} => listCalls[s].about = Planet
        /\ listCalls[s].op = "list" => listCalls[s].about = {}
        /\ listCalls[s].state = "asked" => ~listCalls[s].ok

\* Of a planet that is gone the answer to its removal is on its way, of a name that
\* was cleared the listing that follows.
TakesAway(s, p) ==
    /\ Open(listCalls, s) /\ p \in listCalls[s].about
    /\ \/ stored[p] = "gone" /\ listCalls[s].op \in {"delete", "clear"} /\ listCalls[s].ok
       \/ stored[p] = "plain" /\ listCalls[s].op = "names" /\ listCalls[s].ok
       \/ stored[p] = "plain" /\ listCalls[s].op = "relist"

WrongIsMended ==
    \A p \in Wrong(list.planets, stored) \ excused : \E s \in ListSlot : TakesAway(s, p)

ListInv == ListTyped /\ OneOfEach /\ CallsAreApt /\ WrongIsMended

\* What the screen may show.
LEMMA ShownFacts ==
    /\ Nothing \in Shown /\ DOMAIN Nothing = {}
    /\ \A l \in Shown : DOMAIN l \subseteq Planet
    /\ \A l \in Shown, P \in SUBSET Planet :
          /\ Without(l, P) \in Shown /\ DOMAIN Without(l, P) = DOMAIN l \ P
          /\ \A p \in DOMAIN l \ P : Without(l, P)[p] = l[p]
    /\ \A l \in Shown :
          /\ Blanked(l) \in Shown /\ DOMAIN Blanked(l) = DOMAIN l
          /\ \A p \in DOMAIN l : Blanked(l)[p] = "plain"
<1>0. \A l : l \in Shown <=> \E P \in SUBSET Planet : l \in [P -> {"named", "plain"}]
  BY DEF Shown
<1>1. Nothing \in [{} -> {"named", "plain"}]
  BY DEF Nothing
<1>2. ASSUME NEW l \in Shown, NEW P \in SUBSET Planet
      PROVE  /\ Without(l, P) \in [DOMAIN l \ P -> {"named", "plain"}] /\ DOMAIN l \in SUBSET Planet
             /\ \A p \in DOMAIN l \ P : Without(l, P)[p] = l[p]
  BY <1>0 DEF Without, Restrict
<1>3. ASSUME NEW l \in Shown
      PROVE  /\ Blanked(l) \in [DOMAIN l -> {"named", "plain"}] /\ DOMAIN l \in SUBSET Planet
             /\ \A p \in DOMAIN l : Blanked(l)[p] = "plain"
  BY <1>0 DEF Blanked
<1>4. Nothing \in Shown /\ DOMAIN Nothing = {}
  BY <1>0, <1>1
<1>5. ASSUME NEW l \in Shown, NEW P \in SUBSET Planet
      PROVE  Without(l, P) \in Shown /\ DOMAIN Without(l, P) = DOMAIN l \ P
  <2>1. DOMAIN l \ P \in SUBSET Planet
    BY <1>2
  <2> QED BY <1>0, <1>2, <2>1
<1>6. ASSUME NEW l \in Shown
      PROVE  Blanked(l) \in Shown /\ DOMAIN Blanked(l) = DOMAIN l
  BY <1>0, <1>3
<1> QED BY <1>2, <1>3, <1>4, <1>5, <1>6

LEMMA WithoutFacts ==
    ASSUME NEW l \in Shown, NEW P \in SUBSET Planet
    PROVE  /\ DOMAIN Without(l, P) = DOMAIN l \ P
           /\ \A p \in DOMAIN l \ P : Without(l, P)[p] = l[p]
BY ShownFacts

LEMMA ListingIsShown == ListTyped => Listing \in Shown
<1> SUFFICES ASSUME ListTyped PROVE Listing \in Shown
  OBVIOUS
<1> DEFINE P == {q \in Planet : stored[q] \in {"named", "plain"}}
<1>1. Listing \in [P -> {"named", "plain"}]
  BY DEF Listing
<1> QED BY <1>1 DEF Shown

LEMMA FreeListTyped ==
    /\ FreeList \in ListCall /\ FreeList.state = "free" /\ ~FreeList.ok
    /\ FreeList.op = "list" /\ FreeList.about = {}
BY ShownFacts DEF FreeList, ListCall, Progress

LEMMA ListStarts == ListInit => ListInv
<1> SUFFICES ASSUME ListInit PROVE ListInv
  OBVIOUS
<1>1. PICK s \in ListSlot : listCalls = [c \in ListSlot |->
          IF c = s THEN [FreeList EXCEPT !.state = "asked"] ELSE FreeList]
  BY DEF ListInit
<1>2. /\ [FreeList EXCEPT !.state = "asked"] \in ListCall
      /\ [FreeList EXCEPT !.state = "asked"].op = "list"
      /\ [FreeList EXCEPT !.state = "asked"].about = {}
      /\ [FreeList EXCEPT !.state = "asked"].state = "asked"
      /\ ~[FreeList EXCEPT !.state = "asked"].ok
  BY FreeListTyped DEF FreeList, ListCall, Progress
<1>3. ListTyped
  <2>1. listCalls \in [ListSlot -> ListCall]
    BY <1>1, <1>2, FreeListTyped
  <2>2. list \in [planets : Shown, isLoading : BOOLEAN, deletingIds : SUBSET Planet,
                  isClearing : BOOLEAN, isClearingNames : BOOLEAN]
    BY ShownFacts DEF ListInit
  <2> QED BY <2>1, <2>2 DEF ListInit, ListTyped
<1>4. \A t \in ListSlot : listCalls[t].op = "list" /\ listCalls[t].about = {}
  BY <1>1, <1>2, FreeListTyped
<1>5. listCalls[s].state = "asked" /\ \A t \in ListSlot : listCalls[t].state = "asked" => ~listCalls[t].ok
  BY <1>1, <1>2, FreeListTyped
<1>6. OneOfEach /\ CallsAreApt
  BY <1>4, <1>5 DEF ListInit, OneOfEach, CallsAreApt, Clearing, Naming, Open
<1>7. WrongIsMended
  BY ShownFacts DEF ListInit, WrongIsMended, Wrong
<1> QED BY <1>3, <1>6, <1>7 DEF ListInv

\* A tap changes no planet that is shown and opens one call more.
LEMMA Tapped ==
    ASSUME NEW op \in {"list", "delete", "clear", "names"}, NEW about \in SUBSET Planet,
           ListInv, AskList(op, about),
           op \in {"clear", "names"} => about = Planet, op = "list" => about = {},
           op = "clear" => ~list.isClearing, op = "names" => ~list.isClearingNames,
           list' \in [planets : Shown, isLoading : BOOLEAN, deletingIds : SUBSET Planet,
                      isClearing : BOOLEAN, isClearingNames : BOOLEAN],
           list'.planets = list.planets,
           list'.isLoading => list.isLoading \/ op = "list",
           list'.deletingIds \subseteq list.deletingIds \cup (IF op = "delete" THEN about ELSE {}),
           list'.isClearing <=> list.isClearing \/ op = "clear",
           list'.isClearingNames <=> list.isClearingNames \/ op = "names"
    PROVE  ListInv'
<1> DEFINE call == [FreeList EXCEPT !.op = op, !.about = about, !.state = "asked"]
<1>1. PICK s \in ListSlot : listCalls[s].state = "free" /\ listCalls' = [listCalls EXCEPT ![s] = call]
  BY DEF AskList
<1>2. call \in ListCall /\ call.op = op /\ call.about = about /\ call.state = "asked" /\ ~call.ok
  BY ShownFacts DEF FreeList, ListCall, Progress
<1> HIDE DEF call
<1>3. UNCHANGED <<stored, excused>>
  BY DEF AskList
<1>4. listCalls'[s] = call /\ \A t \in ListSlot \ {s} : listCalls'[t] = listCalls[t]
  BY <1>1 DEF ListInv, ListTyped
<1>5. ListTyped'
  BY <1>1, <1>2, <1>3 DEF ListInv, ListTyped
<1>6. OneOfEach'
  BY <1>1, <1>2, <1>4 DEF ListInv, OneOfEach, Clearing, Naming, Open
<1>7. CallsAreApt'
  BY <1>1, <1>2, <1>4 DEF ListInv, CallsAreApt
<1>8. WrongIsMended'
  BY <1>1, <1>3, <1>4 DEF ListInv, WrongIsMended, TakesAway, Wrong, Open
<1> QED BY <1>5, <1>6, <1>7, <1>8 DEF ListInv
LEMMA TapStep ==
    ListInv /\ (refresh \/ clearAll \/ clearPlanetNames \/ \E p \in Planet : deletePlanet(p)) => ListInv'
<1> SUFFICES ASSUME ListInv PROVE
      /\ refresh => ListInv'
      /\ clearAll => ListInv'
      /\ clearPlanetNames => ListInv'
      /\ \A p \in Planet : deletePlanet(p) => ListInv'
  OBVIOUS
<1>1. ASSUME refresh PROVE ListInv'
  BY <1>1, Tapped DEF refresh, ListInv, ListTyped
<1>2. ASSUME clearAll PROVE ListInv'
  BY <1>2, Tapped DEF clearAll, ListInv, ListTyped
<1>3. ASSUME clearPlanetNames PROVE ListInv'
  BY <1>3, Tapped DEF clearPlanetNames, ListInv, ListTyped
<1>4. ASSUME NEW p \in Planet, deletePlanet(p) PROVE ListInv'
  <2>1. {p} \in SUBSET Planet /\ AskList("delete", {p})
    BY <1>4 DEF deletePlanet
  <2>2. list' = [list EXCEPT !.deletingIds = @ \cup {p}]
    BY <1>4 DEF deletePlanet
  <2> QED BY <2>1, <2>2, Tapped DEF ListInv, ListTyped
<1> QED BY <1>1, <1>2, <1>3, <1>4

LEMMA UploadStep ==
    ASSUME NEW p \in Planet, ListInv, Upload(p)
    PROVE  ListInv'
<1>1. /\ stored[p] = "unborn" /\ stored' = [stored EXCEPT ![p] = "named"]
      /\ UNCHANGED <<list, listCalls, excused>>
  BY DEF Upload
<1>2. ListTyped'
  BY <1>1 DEF ListInv, ListTyped
<1>3. OneOfEach' /\ CallsAreApt'
  BY <1>1 DEF ListInv, OneOfEach, CallsAreApt, Clearing, Naming, Open
<1>4. \A q \in Planet : q # p => stored'[q] = stored[q]
  BY <1>1 DEF ListInv, ListTyped
<1>5. stored'[p] = "named"
  BY <1>1 DEF ListInv, ListTyped
<1>6. DOMAIN list.planets \subseteq Planet
  BY ShownFacts DEF ListInv, ListTyped
<1>7. WrongIsMended'
  BY <1>1, <1>4, <1>5, <1>6 DEF ListInv, WrongIsMended, Wrong, TakesAway, Open
<1> QED BY <1>2, <1>3, <1>7 DEF ListInv

LEMMA ServeListStep ==
    ASSUME NEW s \in ListSlot, ListInv, ServeList(s)
    PROVE  ListInv'
<1> DEFINE c == listCalls[s]
<1>0. c \in ListCall
  BY DEF ListInv, ListTyped
<1>1. PICK ok \in BOOLEAN :
        /\ stored' = IF ok THEN Served(c) ELSE stored
        /\ listCalls' = [listCalls EXCEPT ![s] =
              IF c.state = "abandoned" THEN FreeList
              ELSE [c EXCEPT !.state = "answered", !.ok = ok,
                             !.body = IF ok /\ c.op \in {"list", "relist"} THEN Listing ELSE Nothing]]
  BY DEF ServeList
<1>2. /\ c.state \in {"asked", "abandoned"} /\ UNCHANGED list
      /\ excused' = IF c.state = "abandoned"
                     THEN excused \cup (c.about \cap Wrong(list.planets, stored')) ELSE excused
  BY DEF ServeList
<1> DEFINE told == IF ok /\ c.op \in {"list", "relist"} THEN Listing ELSE Nothing
           answer == [c EXCEPT !.state = "answered", !.ok = ok, !.body = told]
<1>3. told \in Shown
  BY ListingIsShown, ShownFacts DEF ListInv
<1> HIDE DEF told
<1>4. /\ answer \in ListCall /\ answer.op = c.op /\ answer.about = c.about
      /\ answer.state = "answered" /\ answer.ok = ok
  BY <1>0, <1>3 DEF ListCall, Progress
<1>5. /\ c.state = "asked" => listCalls'[s] = answer
      /\ c.state = "abandoned" => listCalls'[s] = FreeList
      /\ \A t \in ListSlot \ {s} : listCalls'[t] = listCalls[t]
  BY <1>1, <1>2 DEF told, ListInv, ListTyped
<1>6. listCalls' \in [ListSlot -> ListCall]
  <2>1. (IF c.state = "abandoned" THEN FreeList ELSE answer) \in ListCall
    BY <1>4, FreeListTyped
  <2> QED BY <2>1, <1>1 DEF told, ListInv, ListTyped
<1>7. DOMAIN list.planets \subseteq Planet
  BY ShownFacts DEF ListInv, ListTyped
<1>8. /\ stored' \in [Planet -> {"unborn", "named", "plain", "gone"}]
      /\ \A p \in Planet : stored'[p] # stored[p] =>
            /\ ok
            /\ \/ stored'[p] = "gone" /\ p \in c.about /\ c.op \in {"delete", "clear"}
               \/ stored'[p] = "plain" /\ stored[p] = "named" /\ c.op = "names"
  BY <1>1 DEF Served, ListInv, ListTyped
<1>9. ListTyped'
  BY <1>2, <1>6, <1>7, <1>8 DEF ListInv, ListTyped, Wrong
<1> HIDE DEF answer
<1>10. OneOfEach'
  BY <1>2, <1>4, <1>5, FreeListTyped DEF ListInv, OneOfEach, Clearing, Naming, Open
<1>11. CallsAreApt'
  BY <1>2, <1>4, <1>5, FreeListTyped DEF ListInv, CallsAreApt
<1>12. WrongIsMended'
  <2> SUFFICES ASSUME NEW p \in Wrong(list.planets, stored'), p \notin excused'
               PROVE  \E t \in ListSlot : TakesAway(t, p)'
    BY <1>2 DEF WrongIsMended
  <2>0. p \in Planet
    BY <1>7 DEF Wrong
  <2>1. CASE stored'[p] # stored[p]
    <3>1. p \in c.about
      BY <2>0, <2>1, <1>8 DEF ListInv, CallsAreApt
    <3>2. c.state = "asked"
      BY <3>1, <1>2
    <3>3. TakesAway(s, p)'
      BY <2>0, <2>1, <3>1, <3>2, <1>4, <1>5, <1>8 DEF TakesAway, Open
    <3> QED BY <3>3
  <2>2. CASE stored'[p] = stored[p]
    <3>1. p \in Wrong(list.planets, stored) \ excused
      BY <2>0, <2>2, <1>2 DEF Wrong
    <3>2. PICK t \in ListSlot : TakesAway(t, p)
      BY <3>1 DEF ListInv, WrongIsMended
    <3>3. CASE t # s
      BY <3>2, <3>3, <2>2, <1>5 DEF TakesAway, Open
    <3>4. CASE t = s
      <4>1. c.state = "asked" /\ c.op = "relist"
        BY <3>2, <3>4, <1>2 DEF TakesAway, Open, ListInv, CallsAreApt
      <4> QED BY <4>1, <3>2, <3>4, <2>2, <1>4, <1>5 DEF TakesAway, Open
    <3> QED BY <3>3, <3>4
  <2> QED BY <2>1, <2>2
<1> QED BY <1>9, <1>10, <1>11, <1>12 DEF ListInv
\* What a call that ends leaves of the buttons, whether it was answered or lost.
LEMMA ListButtonsFollow ==
    ASSUME NEW s \in ListSlot, ListInv, ListTyped', Open(listCalls, s),
           ~Open(listCalls', s),
           \A t \in ListSlot \ {s} : listCalls'[t] = listCalls[t],
           list'.isLoading <=> list.isLoading /\ listCalls[s].op # "list",
           list'.isClearing <=> list.isClearing /\ listCalls[s].op # "clear",
           list'.isClearingNames <=> list.isClearingNames /\ listCalls[s].op \notin {"names", "relist"},
           list'.deletingIds \subseteq list.deletingIds,
           listCalls[s].op = "delete" => list'.deletingIds \cap listCalls[s].about = {}
    PROVE  OneOfEach'
BY DEF ListInv, OneOfEach, Clearing, Naming, Open

LEMMA ReenabledFacts ==
    ASSUME NEW c \in ListCall,
           NEW l \in [planets : Shown, isLoading : BOOLEAN, deletingIds : SUBSET Planet,
                      isClearing : BOOLEAN, isClearingNames : BOOLEAN]
    PROVE  LET r == Reenabled(c, l) IN
           /\ r \in [planets : Shown, isLoading : BOOLEAN, deletingIds : SUBSET Planet,
                     isClearing : BOOLEAN, isClearingNames : BOOLEAN]
           /\ r.planets = l.planets
           /\ r.isLoading <=> l.isLoading /\ c.op # "list"
           /\ r.isClearing <=> l.isClearing /\ c.op # "clear"
           /\ r.isClearingNames <=> l.isClearingNames /\ c.op \notin {"names", "relist"}
           /\ r.deletingIds \subseteq l.deletingIds
           /\ c.op = "delete" => r.deletingIds \cap c.about = {}
BY DEF Reenabled, ListCall

\* An answer leaves the buttons to Reenabled, and of the planets that are shown none
\* but those the answer lists are new.
LEMMA AnsweredFacts ==
    ASSUME NEW c \in ListCall,
           list \in [planets : Shown, isLoading : BOOLEAN, deletingIds : SUBSET Planet,
                     isClearing : BOOLEAN, isClearingNames : BOOLEAN]
    PROVE  LET a == Answered(c) IN
           /\ a \in [planets : Shown, isLoading : BOOLEAN, deletingIds : SUBSET Planet,
                     isClearing : BOOLEAN, isClearingNames : BOOLEAN]
           /\ a.isLoading = list.isLoading /\ a.isClearing = list.isClearing
           /\ a.isClearingNames = list.isClearingNames /\ a.deletingIds \subseteq list.deletingIds
           /\ a.planets =
                CASE c.op \in {"list", "relist"} /\ c.ok -> c.body
                  [] c.op = "relist" /\ ~c.ok -> Blanked(list.planets)
                  [] c.op = "delete" /\ c.ok -> Without(list.planets, c.about)
                  [] c.op = "clear" /\ c.ok -> Nothing
                  [] OTHER -> list.planets
<1>1. c.body \in Shown /\ Blanked(list.planets) \in Shown /\ Without(list.planets, c.about) \in Shown
      /\ Nothing \in Shown
  BY ShownFacts DEF ListCall
<1>2. CASE c.op \in {"list", "relist"} /\ c.ok
  BY <1>1, <1>2 DEF Answered
<1>3. CASE c.op = "relist" /\ ~c.ok
  BY <1>1, <1>3 DEF Answered
<1>4. CASE c.op = "delete" /\ c.ok
  BY <1>1, <1>4 DEF Answered
<1>5. CASE c.op = "clear" /\ c.ok
  BY <1>1, <1>5 DEF Answered
<1>6. CASE c.op = "names" \/ (c.op \in {"list", "delete", "clear"} /\ ~c.ok)
  BY <1>6 DEF Answered
<1> QED BY <1>2, <1>3, <1>4, <1>5, <1>6 DEF ListCall

LEMMA AnswerListStep ==
    ASSUME NEW s \in ListSlot, ListInv, AnswerList(s)
    PROVE  ListInv'
<1> DEFINE c == listCalls[s]
           next == [FreeList EXCEPT !.op = "relist", !.about = Planet, !.state = "asked"]
<1>0. c \in ListCall
  BY DEF ListInv, ListTyped
<1>1. /\ c.state = "answered" /\ UNCHANGED stored
      /\ IF c.op = "names" /\ c.ok
         THEN listCalls' = [listCalls EXCEPT ![s] = next] /\ UNCHANGED list
         ELSE listCalls' = [listCalls EXCEPT ![s] = FreeList] /\ list' = Reenabled(c, Answered(c))
      /\ excused' = IF c.op \in {"list", "relist"} /\ c.ok THEN Wrong(c.body, stored)
                    ELSE excused \cap DOMAIN list'.planets
  BY DEF AnswerList
<1>2. /\ next \in ListCall /\ next.op = "relist" /\ next.about = Planet /\ next.state = "asked"
      /\ ~next.ok
  BY ShownFacts DEF FreeList, ListCall, Progress
<1> HIDE DEF next
<1>3. CASE c.op = "names" /\ c.ok
  <2>1. listCalls'[s] = next /\ \A t \in ListSlot \ {s} : listCalls'[t] = listCalls[t]
    BY <1>1, <1>3 DEF ListInv, ListTyped
  <2>2. list' = list /\ stored' = stored /\ excused' = excused \cap DOMAIN list.planets
    BY <1>0, <1>1, <1>3
  <2>3. ListTyped'
    BY <1>1, <1>2, <1>3, <2>2 DEF ListInv, ListTyped
  <2>4. OneOfEach'
    BY <1>1, <1>2, <1>3, <2>1, <2>2 DEF ListInv, OneOfEach, Clearing, Naming, Open
  <2>5. CallsAreApt'
    BY <1>2, <2>1 DEF ListInv, CallsAreApt
  <2>6. WrongIsMended'
    <3> SUFFICES ASSUME NEW p \in Wrong(list.planets, stored), p \notin excused
                 PROVE  \E t \in ListSlot : TakesAway(t, p)'
      BY <2>2 DEF WrongIsMended, Wrong
    <3>1. PICK t \in ListSlot : TakesAway(t, p)
      BY DEF ListInv, WrongIsMended
    <3>2. CASE t # s
      BY <3>1, <3>2, <2>1, <2>2 DEF TakesAway, Open
    <3>3. CASE t = s
      <4>1. p \in c.about /\ stored[p] = "plain" /\ p \in Planet
        BY <3>1, <3>3, <1>0, <1>3 DEF TakesAway, ListCall
      <4>2. TakesAway(s, p)'
        BY <4>1, <2>1, <2>2, <1>2 DEF TakesAway, Open
      <4> QED BY <4>2
    <3> QED BY <3>2, <3>3
  <2> QED BY <2>3, <2>4, <2>5, <2>6 DEF ListInv
<1>4. CASE ~(c.op = "names" /\ c.ok)
  <2>1. listCalls'[s] = FreeList /\ \A t \in ListSlot \ {s} : listCalls'[t] = listCalls[t]
    BY <1>1, <1>4 DEF ListInv, ListTyped
  <2>2. list' = Reenabled(c, Answered(c))
    BY <1>1, <1>4
  <2>3. list \in [planets : Shown, isLoading : BOOLEAN, deletingIds : SUBSET Planet,
                  isClearing : BOOLEAN, isClearingNames : BOOLEAN]
    BY DEF ListInv, ListTyped
  <2> DEFINE a == Answered(c)
  <2>4. /\ a \in [planets : Shown, isLoading : BOOLEAN, deletingIds : SUBSET Planet,
                  isClearing : BOOLEAN, isClearingNames : BOOLEAN]
        /\ a.isLoading = list.isLoading /\ a.isClearing = list.isClearing
        /\ a.isClearingNames = list.isClearingNames /\ a.deletingIds \subseteq list.deletingIds
    BY <1>0, <2>3, AnsweredFacts
  <2>5. a.planets = CASE c.op \in {"list", "relist"} /\ c.ok -> c.body
                      [] c.op = "relist" /\ ~c.ok -> Blanked(list.planets)
                      [] c.op = "delete" /\ c.ok -> Without(list.planets, c.about)
                      [] c.op = "clear" /\ c.ok -> Nothing
                      [] OTHER -> list.planets
    BY <1>0, <2>3, AnsweredFacts
  <2> HIDE DEF a
  <2>6. /\ list' \in [planets : Shown, isLoading : BOOLEAN, deletingIds : SUBSET Planet,
                      isClearing : BOOLEAN, isClearingNames : BOOLEAN]
        /\ list'.planets = a.planets
        /\ list'.isLoading <=> a.isLoading /\ c.op # "list"
        /\ list'.isClearing <=> a.isClearing /\ c.op # "clear"
        /\ list'.isClearingNames <=> a.isClearingNames /\ c.op \notin {"names", "relist"}
        /\ list'.deletingIds \subseteq a.deletingIds
        /\ c.op = "delete" => list'.deletingIds \cap c.about = {}
    <3>1. list' = Reenabled(c, a)
      BY <2>2 DEF a
    <3> QED BY <3>1, <1>0, <2>4, ReenabledFacts
  <2>7. c.body \in Shown /\ DOMAIN c.body \subseteq Planet
    BY <1>0, ShownFacts DEF ListCall
  <2>8. ListTyped'
    BY <1>1, <1>4, <2>6, <2>7, FreeListTyped DEF ListInv, ListTyped, Wrong
  <2>9. OneOfEach'
    <3>1. Open(listCalls, s) /\ ~Open(listCalls', s)
      BY <1>1, <2>1, FreeListTyped DEF Open
    <3> QED BY <3>1, <2>1, <2>4, <2>6, <2>8, ListButtonsFollow
  <2>10. CallsAreApt'
    BY <2>1, FreeListTyped DEF ListInv, CallsAreApt
  <2>11. WrongIsMended'
    <3> SUFFICES ASSUME NEW p \in Wrong(list'.planets, stored), p \notin excused'
                 PROVE  \E t \in ListSlot : TakesAway(t, p)'
      BY <1>1 DEF WrongIsMended
    <3>1. ~(c.op \in {"list", "relist"} /\ c.ok)
      BY <1>1, <2>5, <2>6
    <3>2. p \notin excused
      BY <1>1, <3>1 DEF Wrong
    <3>3. /\ p \in Wrong(list.planets, stored)
          /\ ~(c.op = "clear" /\ c.ok)
          /\ c.op = "delete" /\ c.ok => p \notin c.about
          /\ c.op = "relist" => stored[p] # "plain"
      <4>1. CASE c.op = "relist"
        <5>1. list'.planets = Blanked(list.planets)
          BY <4>1, <3>1, <2>5, <2>6
        <5> QED BY <5>1, <4>1, <2>3, ShownFacts DEF Wrong
      <4>2. CASE c.op = "delete" /\ c.ok
        <5>1. list'.planets = Without(list.planets, c.about) /\ c.about \in SUBSET Planet
          BY <4>2, <2>5, <2>6, <1>0 DEF ListCall
        <5>2. list.planets \in Shown
          BY <2>3
        <5> DEFINE rest == Without(list.planets, c.about)
        <5>a. /\ DOMAIN rest = DOMAIN list.planets \ c.about
              /\ \A q \in DOMAIN list.planets \ c.about : rest[q] = list.planets[q]
          BY <5>1, <5>2, WithoutFacts
        <5>b. list'.planets = rest
          BY <5>1
        <5> HIDE DEF rest
        <5>3. /\ DOMAIN list'.planets = DOMAIN list.planets \ c.about
              /\ \A q \in DOMAIN list.planets \ c.about : list'.planets[q] = list.planets[q]
          BY <5>a, <5>b
        <5> QED BY <5>3, <4>2 DEF Wrong
      <4>3. CASE c.op = "clear" /\ c.ok
        <5>1. list'.planets = Nothing
          BY <4>3, <2>5, <2>6
        <5> QED BY <5>1, ShownFacts DEF Wrong
      <4>4. CASE c.op # "relist" /\ ~(c.op \in {"delete", "clear"} /\ c.ok)
        <5>1. list'.planets = list.planets
          BY <4>4, <3>1, <2>5, <2>6
        <5> QED BY <5>1, <4>4
      <4> QED BY <4>1, <4>2, <4>3, <4>4
    <3>4. PICK t \in ListSlot : TakesAway(t, p)
      BY <3>2, <3>3 DEF ListInv, WrongIsMended
    <3>5. t # s
      BY <3>3, <3>4, <1>4 DEF TakesAway
    <3> QED BY <3>4, <3>5, <2>1, <1>1 DEF TakesAway, Open
  <2> QED BY <2>8, <2>9, <2>10, <2>11 DEF ListInv
<1> QED BY <1>3, <1>4

LEMMA LoseListStep ==
    ASSUME NEW s \in ListSlot, ListInv, LoseList(s)
    PROVE  ListInv'
<1> DEFINE c == listCalls[s]
           late == [c EXCEPT !.state = "abandoned"]
<1>0. c \in ListCall
  BY DEF ListInv, ListTyped
<1>1. /\ c.state \in {"asked", "answered"} /\ UNCHANGED stored
      /\ listCalls' = [listCalls EXCEPT ![s] = IF c.state = "asked" THEN late ELSE FreeList]
      /\ list' = Reenabled(c, list)
      /\ excused' = excused \cup (c.about \cap Wrong(list.planets, stored))
  BY DEF LoseList
<1>2. late \in ListCall /\ late.op = c.op /\ late.about = c.about /\ late.state = "abandoned"
  BY <1>0 DEF ListCall, Progress
<1> HIDE DEF late
<1>3. /\ c.state = "asked" => listCalls'[s] = late
      /\ c.state # "asked" => listCalls'[s] = FreeList
      /\ \A t \in ListSlot \ {s} : listCalls'[t] = listCalls[t]
  BY <1>1 DEF ListInv, ListTyped
<1>4. list \in [planets : Shown, isLoading : BOOLEAN, deletingIds : SUBSET Planet,
                isClearing : BOOLEAN, isClearingNames : BOOLEAN]
  BY DEF ListInv, ListTyped
<1>5. /\ list' \in [planets : Shown, isLoading : BOOLEAN, deletingIds : SUBSET Planet,
                    isClearing : BOOLEAN, isClearingNames : BOOLEAN]
      /\ list'.planets = list.planets
      /\ list'.isLoading <=> list.isLoading /\ c.op # "list"
      /\ list'.isClearing <=> list.isClearing /\ c.op # "clear"
      /\ list'.isClearingNames <=> list.isClearingNames /\ c.op \notin {"names", "relist"}
      /\ list'.deletingIds \subseteq list.deletingIds
      /\ c.op = "delete" => list'.deletingIds \cap c.about = {}
  BY <1>0, <1>1, <1>4, ReenabledFacts
<1>6. ListTyped'
  <2>1. (IF c.state = "asked" THEN late ELSE FreeList) \in ListCall
    BY <1>2, FreeListTyped
  <2>2. c.about \subseteq Planet
    BY <1>0 DEF ListCall
  <2> QED BY <1>1, <1>5, <2>1, <2>2 DEF ListInv, ListTyped
<1>7. OneOfEach'
  <2>1. Open(listCalls, s) /\ ~Open(listCalls', s)
    BY <1>1, <1>2, <1>3, FreeListTyped DEF Open
  <2> QED BY <2>1, <1>3, <1>5, <1>6, ListButtonsFollow
<1>8. CallsAreApt'
  BY <1>1, <1>2, <1>3, FreeListTyped DEF ListInv, CallsAreApt
<1>9. WrongIsMended'
  <2> SUFFICES ASSUME NEW p \in Wrong(list.planets, stored), p \notin excused'
               PROVE  \E t \in ListSlot : TakesAway(t, p)'
    BY <1>1, <1>5 DEF WrongIsMended
  <2>1. p \notin excused /\ p \notin c.about
    BY <1>1
  <2>2. PICK t \in ListSlot : TakesAway(t, p)
    BY <2>1 DEF ListInv, WrongIsMended
  <2>3. t # s
    BY <2>1, <2>2 DEF TakesAway
  <2> QED BY <2>2, <2>3, <1>1, <1>3 DEF TakesAway, Open
<1> QED BY <1>6, <1>7, <1>8, <1>9 DEF ListInv

LEMMA ListIsKept == ListInv /\ [ListNext]_listVars => ListInv'
<1>1. ListInv /\ ListNext => ListInv'
  BY TapStep, UploadStep, ServeListStep, AnswerListStep, LoseListStep DEF ListNext
<1>2. ListInv /\ UNCHANGED listVars => ListInv'
  BY DEF listVars, ListInv, ListTyped, OneOfEach, CallsAreApt, WrongIsMended, TakesAway, Clearing, Naming, Open
<1> QED BY <1>1, <1>2

LEMMA ListShowsTruth == ListInv => ListIsTrue
<1> SUFFICES ASSUME ListInv, NEW p \in Wrong(list.planets, stored) \ excused
             PROVE  \E s \in Awaited(listCalls, {"delete", "clear", "names", "relist"}) :
                      /\ p \in listCalls[s].about
                      /\ listCalls[s].op # "relist" => listCalls[s].ok
  BY DEF ListIsTrue
<1>1. PICK s \in ListSlot : TakesAway(s, p)
  BY DEF ListInv, WrongIsMended
<1>2. s \in Awaited(listCalls, {"delete", "clear", "names", "relist"})
  BY <1>1 DEF TakesAway, Open, Awaited, ListInv, ListTyped
<1> QED BY <1>1, <1>2 DEF TakesAway

LEMMA ButtonsAreTrue == ListInv /\ LookInv => NoButtonStuck
<1> SUFFICES ASSUME ListInv, LookInv PROVE NoButtonStuck
  OBVIOUS
<1>1. DOMAIN listCalls = ListSlot /\ DOMAIN lookCalls = LookSlot
  BY DEF ListInv, ListTyped, LookInv, LookTyped
<1>2. /\ list.isLoading => Awaited(listCalls, {"list"}) # {}
      /\ list.isClearing <=> Awaited(listCalls, {"clear"}) # {}
      /\ list.isClearingNames <=> Awaited(listCalls, {"names", "relist"}) # {}
  BY <1>1 DEF ListInv, OneOfEach, Clearing, Naming, Open, Awaited
<1>3. \A p \in list.deletingIds : \E s \in Awaited(listCalls, {"delete"}) : p \in listCalls[s].about
  BY <1>1 DEF ListInv, OneOfEach, Open, Awaited
<1>4. list.deletingIds \subseteq UNION {listCalls[s].about : s \in Awaited(listCalls, {"delete"})}
  BY <1>3
<1>5. /\ look.isBehaviorLoading => Awaited(lookCalls, {"get"}) # {}
      /\ look.isUpdatingBehavior <=> Awaited(lookCalls, {"put"}) # {}
  BY <1>1 DEF LookInv, OnePut, Putting, Open, Awaited
<1> QED BY <1>2, <1>4, <1>5 DEF NoButtonStuck
------------------------------------------------------------------------------
\* The manager's tablet: no button stays disabled, what it shows is the server's as
\* far as answers came in time, and a tap changes what was tapped and nothing else.
THEOREM ConsoleStaysTrue == ConsoleSpec => []ConsoleIsTrue
<1>1. ConsoleInit => ListInv /\ LookInv
  BY ListStarts, LookStarts DEF ConsoleInit
<1>2. ListInv /\ LookInv /\ [ConsoleNext]_consoleVars => (ListInv /\ LookInv)'
  <2>1. [ConsoleNext]_consoleVars => [ListNext]_listVars /\ [LookNext]_lookVars
    BY DEF ConsoleNext, consoleVars
  <2> QED BY <2>1, ListIsKept, LookIsKept
<1>3. ListInv /\ LookInv => ConsoleIsTrue
  BY ListShowsTruth, LookIsTrue, ButtonsAreTrue DEF ConsoleIsTrue
<1> QED BY <1>1, <1>2, <1>3, PTL DEF ConsoleSpec
------------------------------------------------------------------------------
(* A child's session.                                                       *)

\* What the child draws, the bucket aside.
ByHand == {s \in Stroke : IsAuthored(s)}

\* The bucket's paint, as it lies under the strokes of the child.
Under(d) == IF d.explicit /\ d.canvasSize # Unmeasured THEN <<BackgroundStroke(d)>> ELSE << >>

\* What a drawing's fields say of each other.
Laid(d) ==
    /\ Authored(d) \in Seq(ByHand)
    /\ Len(Authored(d)) <= MaxStrokes
    /\ d.strokes = Under(d) \o Authored(d)
    /\ d.background \in IF d.explicit THEN Paint ELSE {White}

\* The drawings whose fields agree.
Laying == {d \in Drawing : Laid(d)}

\* A drawing but for its strokes.
Frame(d) ==
    /\ d \in [strokes : {d.strokes}, canvasSize : Size \cup {Unmeasured},
              background : Paint \cup {White}, explicit : BOOLEAN]
    /\ d.background \in IF d.explicit THEN Paint ELSE {White}

\* The bucket's paint is one stroke at most.
LEMMA UnderIsShort ==
    ASSUME NEW d
    PROVE  Under(d) \in Seq({BackgroundStroke(d)}) /\ Len(Under(d)) <= 1
<1>1. CASE d.explicit /\ d.canvasSize # Unmeasured
  <2>. DEFINE x == BackgroundStroke(d)
  <2>1. <<x>> \in Seq({x}) /\ Len(<<x>>) = 1
    OBVIOUS
  <2>. QED
    BY <1>1, <2>1 DEF Under
<1>2. CASE ~(d.explicit /\ d.canvasSize # Unmeasured)
  BY <1>2 DEF Under
<1>. QED
  BY <1>1, <1>2

\* A list over a set is a list over a larger one.
LEMMA SeqMonotonic ==
    ASSUME NEW S, NEW T, S \subseteq T, NEW s \in Seq(S)
    PROVE  s \in Seq(T)
OBVIOUS

\* Of a list with at most one stroke of the bucket under the child's, the filter keeps
\* the child's.
LEMMA HandIsKept ==
    ASSUME NEW x, ~IsAuthored(x), NEW u \in {<< >>, <<x>>}, NEW a \in Seq(ByHand)
    PROVE  Only(u \o a, ByHand) = a
<1>. DEFINE E == ByHand \cup {x}
            s == u \o a
<1>1. s \in Seq(E)
  <2>1. u \in Seq(E) /\ a \in Seq(E)
    <3>1. << >> \in Seq(E) /\ <<x>> \in Seq(E)
      OBVIOUS
    <3>2. a \in Seq(E)
      BY SeqMonotonic
    <3>. QED
      BY <3>1, <3>2
  <2>. HIDE DEF E
  <2>. QED
    BY <2>1
<1>2. x \notin ByHand
  BY DEF ByHand
<1>3. CASE u = << >>
  <2>1. s = a
    BY <1>3
  <2>2. \A i \in (0 + 1)..Len(a) : a[i] \in ByHand
    OBVIOUS
  <2>3. Only(a, ByHand) = SubSeq(a, 0 + 1, Len(a))
    BY <2>2, OnlyRest
  <2>. QED
    BY <2>1, <2>3
<1>4. CASE u = <<x>>
  <2>1. Len(s) = Len(a) + 1 /\ s[1] = x /\ \A i \in 1..Len(a) : s[i + 1] = a[i]
    BY <1>4
  <2>2. \A i \in (1 + 1)..Len(s) : s[i] \in ByHand
    <3>1. ASSUME NEW i \in (1 + 1)..Len(s) PROVE s[i] \in ByHand
      <4>1. i - 1 \in 1..Len(a) /\ i = (i - 1) + 1
        BY <2>1
      <4>2. s[i] = a[i - 1]
        BY <2>1, <4>1
      <4>. QED
        BY <4>1, <4>2
    <3>. QED
      BY <3>1
  <2>3. SubSeq(s, 1 + 1, Len(s)) = a
    BY <1>4
  <2>. HIDE DEF s, E
  <2>4. 1 \in 0..1 /\ 1 <= Len(s)
    BY <2>1
  <2>5. Only(s, ByHand) = SubSeq(s, 1 + 1, Len(s))
    BY <1>1, <1>2, <2>1, <2>2, <2>4, OnlyRest
  <2>. QED
    BY <2>3, <2>5 DEF s
<1>. QED
  BY <1>3, <1>4

\* The bound of the strokes is the bound of the child's, and the bucket's one.
LEMMA StrokesAreBounded ==
    ASSUME NEW s \in Seq(Stroke), Len(s) <= MaxStrokes + 1
    PROVE  s \in BoundedSeq(Stroke, MaxStrokes + 1)
<1>1. Len(s) \in 0..(MaxStrokes + 1) /\ s \in [1..Len(s) -> Stroke]
  BY MaxStrokesAssumption
<1>. QED
  BY <1>1 DEF BoundedSeq, SeqOf

\* A drawing made of its bucket's paint and strokes of the child is laid as it should be.
LEMMA MadeOf ==
    ASSUME NEW d, Frame(d), NEW a \in Seq(ByHand), Len(a) <= MaxStrokes, d.strokes = Under(d) \o a
    PROVE  d \in Laying /\ Authored(d) = a
<1>1. ~IsAuthored(BackgroundStroke(d))
  BY DEF IsAuthored, BackgroundStroke
<1>2. Under(d) \in {<< >>, <<BackgroundStroke(d)>>}
  BY DEF Under
<1>3. Authored(d) = a
  BY <1>1, <1>2, HandIsKept DEF Authored, ByHand
<1>4. /\ d.canvasSize \in Size \cup {Unmeasured}
      /\ d.explicit \in BOOLEAN
      /\ d.background \in IF d.explicit THEN Paint ELSE {White}
  BY DEF Frame
<1>5. Under(d) \in Seq(Stroke) /\ Len(Under(d)) <= 1
  <2>1. CASE d.explicit /\ d.canvasSize # Unmeasured
    <3>1. BackgroundStroke(d) \in Stroke
      BY <1>4, <2>1 DEF BackgroundStroke, Stroke
    <3>. QED
      BY <2>1, <3>1 DEF Under
  <2>2. CASE ~(d.explicit /\ d.canvasSize # Unmeasured)
    BY <2>2 DEF Under
  <2>. QED
    BY <2>1, <2>2
<1>6. a \in Seq(Stroke)
  BY DEF ByHand
<1>7. Under(d) \o a \in Seq(Stroke) /\ Len(Under(d) \o a) <= MaxStrokes + 1
  BY <1>5, <1>6, MaxStrokesAssumption
<1>8. d.strokes \in BoundedSeq(Stroke, MaxStrokes + 1)
  BY <1>7, StrokesAreBounded
<1>9. d \in Drawing
  <2>1. d.background \in Paint \cup {White}
    BY <1>4
  <2>. QED
    BY <1>4, <1>8, <2>1 DEF Drawing, Frame
<1>. QED
  BY <1>3, <1>4, <1>9 DEF Laying, Laid

\* What a drawing laid so is made of.
LEMMA LaidFrame ==
    ASSUME NEW d \in Laying
    PROVE  /\ Frame(d)
           /\ Authored(d) \in Seq(ByHand) /\ Len(Authored(d)) <= MaxStrokes
           /\ d.strokes = Under(d) \o Authored(d)
           /\ d = [strokes |-> d.strokes, canvasSize |-> d.canvasSize,
                   background |-> d.background, explicit |-> d.explicit]
<1>1. d \in Drawing /\ Laid(d)
  BY DEF Laying
<1>2. d = [strokes |-> d.strokes, canvasSize |-> d.canvasSize,
           background |-> d.background, explicit |-> d.explicit]
  BY <1>1 DEF Drawing
<1>3. Frame(d)
  BY <1>1, <1>2 DEF Drawing, Laid, Frame
<1>. QED
  BY <1>1, <1>2, <1>3 DEF Laid

\* A blank drawing, measured or not.
LEMMA BlankIsLaid ==
    ASSUME NEW size \in Size
    PROVE  Blank \in Laying /\ [Blank EXCEPT !.canvasSize = size] \in Laying
<1>. DEFINE d == [Blank EXCEPT !.canvasSize = size]
<1>1. Frame(Blank) /\ Frame(d)
  BY DEF Blank, Frame
<1>2. Blank.strokes = Under(Blank) \o << >> /\ d.strokes = Under(d) \o << >>
  BY DEF Blank, Under
<1>3. << >> \in Seq(ByHand) /\ Len(<< >>) <= MaxStrokes
  BY MaxStrokesAssumption
<1>. HIDE DEF d
<1>. QED
  BY <1>1, <1>2, <1>3, MadeOf DEF d

\* withBackgroundStroke lays the bucket's paint under what the child drew.
LEMMA BackgroundIsLaid ==
    ASSUME NEW d, Frame(d), d.explicit, Authored(d) \in Seq(ByHand), Len(Authored(d)) <= MaxStrokes
    PROVE  withBackgroundStroke(d) \in Laying
<1>. DEFINE e == withBackgroundStroke(d)
<1>1. /\ e.canvasSize = d.canvasSize /\ e.background = d.background /\ e.explicit = d.explicit
      /\ Frame(e)
  BY DEF withBackgroundStroke, Frame
<1>2. e.strokes = Under(d) \o Authored(d)
  BY DEF withBackgroundStroke, Frame, Under
<1>3. Under(e) = Under(d)
  BY <1>1 DEF Under, BackgroundStroke
<1>. HIDE DEF e
<1>. QED
  BY <1>1, <1>2, <1>3, MadeOf DEF e

\* withCanvasSize: the paint is laid anew in the new size.
LEMMA MeasuredIsLaid ==
    ASSUME NEW d \in Laying, NEW size \in Size
    PROVE  withCanvasSize(d, size) \in Laying
<1>. DEFINE e == [d EXCEPT !.canvasSize = size]
<1>1. /\ Frame(d)
      /\ Authored(d) \in Seq(ByHand) /\ Len(Authored(d)) <= MaxStrokes
      /\ d.strokes = Under(d) \o Authored(d)
      /\ d = [strokes |-> d.strokes, canvasSize |-> d.canvasSize,
              background |-> d.background, explicit |-> d.explicit]
  BY LaidFrame
<1>2. /\ e.strokes = d.strokes /\ e.canvasSize = size
      /\ e.background = d.background /\ e.explicit = d.explicit
  BY <1>1
<1>3. Frame(e)
  BY <1>1 DEF Frame
<1>4. Authored(e) = Authored(d)
  BY <1>2 DEF Authored
<1>5. withCanvasSize(d, size) = IF size = d.canvasSize THEN d
                                ELSE IF d.explicit THEN withBackgroundStroke(e) ELSE e
  BY DEF withCanvasSize
<1>. HIDE DEF e
<1>6. CASE size = d.canvasSize
  BY <1>5, <1>6
<1>7. CASE size # d.canvasSize /\ d.explicit
  <2>1. withBackgroundStroke(e) \in Laying
    BY <1>1, <1>2, <1>3, <1>4, <1>7, BackgroundIsLaid
  <2>. QED
    BY <1>5, <1>7, <2>1
<1>8. CASE size # d.canvasSize /\ ~d.explicit
  <2>1. Under(e) = << >> /\ Under(d) = << >>
    BY <1>2, <1>8 DEF Under
  <2>2. e \in Laying
    BY <1>1, <1>2, <1>3, <2>1, MadeOf
  <2>. QED
    BY <1>5, <1>8, <2>2
<1>. QED
  BY <1>6, <1>7, <1>8

\* addStroke: on top.
LEMMA StrokeIsLaid ==
    ASSUME NEW d \in Laying, NEW on \in Size, Len(Authored(d)) < MaxStrokes
    PROVE  addStroke(d, on) \in Laying
<1>. DEFINE e == addStroke(d, on)
            x == [fill |-> FALSE, on |-> on, color |-> "brush"]
            a == Authored(d)
            b == Append(a, x)
<1>1. /\ Frame(d) /\ a \in Seq(ByHand) /\ d.strokes = Under(d) \o a
      /\ d = [strokes |-> d.strokes, canvasSize |-> d.canvasSize,
              background |-> d.background, explicit |-> d.explicit]
  BY LaidFrame
<1>2. /\ e.strokes = Append(d.strokes, x) /\ e.canvasSize = d.canvasSize
      /\ e.background = d.background /\ e.explicit = d.explicit
  BY <1>1 DEF addStroke
<1>3. Frame(e)
  BY <1>1 DEF Frame, addStroke
<1>4. x \in ByHand
  BY DEF ByHand, Stroke, IsAuthored
<1>5. Under(e) = Under(d) /\ Under(d) \in Seq({BackgroundStroke(d)})
  <2>1. BackgroundStroke(e) = BackgroundStroke(d)
    BY <1>2 DEF BackgroundStroke
  <2>2. Under(e) = Under(d)
    BY <1>2, <2>1 DEF Under
  <2>. QED
    BY <2>2, UnderIsShort
<1>. HIDE DEF e, x, a
<1>6. b \in Seq(ByHand) /\ Len(b) <= MaxStrokes
  BY <1>1, <1>4, MaxStrokesAssumption DEF a
<1>7. Append(Under(d) \o a, x) = Under(d) \o b
  <2>. DEFINE E == ByHand \cup {BackgroundStroke(d)}
  <2>1. Under(d) \in Seq(E) /\ a \in Seq(E) /\ x \in E
    BY <1>1, <1>4, <1>5, SeqMonotonic
  <2>. HIDE DEF E
  <2>. QED
    BY <2>1
<1>. HIDE DEF b
<1>8. e.strokes = Under(e) \o b
  BY <1>1, <1>2, <1>5, <1>7
<1>. QED
  BY <1>3, <1>6, <1>8, MadeOf DEF e

\* fillBackground: one paint takes the place of another.
LEMMA FillIsLaid ==
    ASSUME NEW d \in Laying, NEW c \in Paint
    PROVE  fillBackground(d, c) \in Laying
<1>. DEFINE e == [d EXCEPT !.background = c, !.explicit = TRUE]
<1>1. /\ Frame(d)
      /\ Authored(d) \in Seq(ByHand) /\ Len(Authored(d)) <= MaxStrokes
      /\ d = [strokes |-> d.strokes, canvasSize |-> d.canvasSize,
              background |-> d.background, explicit |-> d.explicit]
  BY LaidFrame
<1>2. e.strokes = d.strokes /\ e.explicit
  BY <1>1
<1>3. Frame(e)
  BY <1>1 DEF Frame
<1>4. Authored(e) = Authored(d)
  BY <1>2 DEF Authored
<1>. HIDE DEF e
<1>5. withBackgroundStroke(e) \in Laying
  BY <1>1, <1>2, <1>3, <1>4, BackgroundIsLaid
<1>. QED
  BY <1>5 DEF fillBackground, e

\* clear: no paint is left over.
LEMMA ClearIsLaid ==
    ASSUME NEW d \in Laying
    PROVE  clear(d) \in Laying
<1>. DEFINE e == clear(d)
<1>1. /\ Frame(d)
      /\ d = [strokes |-> d.strokes, canvasSize |-> d.canvasSize,
              background |-> d.background, explicit |-> d.explicit]
  BY LaidFrame
<1>2. Frame(e) /\ e.strokes = << >> /\ ~e.explicit
  BY <1>1 DEF clear, Frame
<1>3. << >> \in Seq(ByHand) /\ Len(<< >>) <= MaxStrokes
  BY MaxStrokesAssumption
<1>. HIDE DEF e
<1>4. e.strokes = Under(e) \o << >>
  BY <1>2 DEF Under
<1>. QED
  BY <1>2, <1>3, <1>4, MadeOf DEF e

\* undo: the last stroke of the list is the child's last, if the child drew any.
LEMMA UndoIsLaid ==
    ASSUME NEW d \in Laying
    PROVE  undo(d) \in Laying
<1>. DEFINE e == undo(d)
            a == Authored(d)
            n == Len(d.strokes)
            b == SubSeq(a, 1, Len(a) - 1)
            I == {i \in 1..n : IsAuthored(d.strokes[i])}
<1>1. /\ Frame(d) /\ a \in Seq(ByHand) /\ Len(a) <= MaxStrokes /\ d.strokes = Under(d) \o a
      /\ d = [strokes |-> d.strokes, canvasSize |-> d.canvasSize,
              background |-> d.background, explicit |-> d.explicit]
  BY LaidFrame
<1>2. Under(d) \in Seq({BackgroundStroke(d)})
  BY UnderIsShort
<1>3. CASE a = << >>
  <2>1. e = clear(d)
    BY <1>3 DEF undo, clear
  <2>. QED
    BY <2>1, ClearIsLaid
<1>4. CASE a # << >>
  <2>1. Len(a) \in Nat /\ Len(a) >= 1 /\ n = Len(Under(d)) + Len(a) /\ n \in Nat /\ n >= 1
    BY <1>1, <1>2, <1>4
  <2>2. d.strokes[n] \in ByHand
    <3>1. (Under(d) \o a)[Len(Under(d)) + Len(a)] = a[Len(a)]
      BY <1>1, <1>2, <2>1
    <3>. QED
      BY <1>1, <2>1, <3>1
  <2>3. n \in I /\ I \subseteq 1..n
    BY <2>1, <2>2 DEF ByHand
  <2>4. SelectLastInSeq(d.strokes, IsAuthored) = n
    <3>. DEFINE top(x) == x \in I /\ \A y \in I : x >= y
    <3>1. top(n)
      BY <2>1, <2>3
    <3>2. \A x : top(x) => x = n
      BY <2>1, <2>3
    <3>3. SelectLastInSeq(d.strokes, IsAuthored) = CHOOSE x \in I : \A y \in I : x >= y
      BY <2>3 DEF SelectLastInSeq, Max
    <3>. QED
      BY <3>1, <3>2, <3>3
  <2>. HIDE DEF I
  <2>5. RemoveAt(d.strokes, n) = Under(d) \o b
    <3>1. RemoveAt(d.strokes, n) = SubSeq(d.strokes, 1, n - 1) \o SubSeq(d.strokes, n + 1, n)
      BY DEF RemoveAt
    <3>2. SubSeq(d.strokes, n + 1, n) = << >>
      BY <2>1
    <3>3. SubSeq(Under(d) \o a, 1, n - 1) = Under(d) \o b
      BY <1>1, <1>2, <2>1
    <3>4. b \in Seq(ByHand)
      BY <1>1, <2>1
    <3>. QED
      BY <1>1, <1>2, <3>1, <3>2, <3>3, <3>4
  <2>6. e = [d EXCEPT !.strokes = RemoveAt(d.strokes, n)]
    BY <1>4, <2>4 DEF undo
  <2>7. Frame(e) /\ Under(e) = Under(d) /\ e.strokes = Under(d) \o b
    BY <1>1, <2>5, <2>6 DEF Frame, Under, BackgroundStroke
  <2>8. b \in Seq(ByHand) /\ Len(b) <= MaxStrokes
    BY <1>1, <2>1, MaxStrokesAssumption
  <2>. HIDE DEF e, b
  <2>. QED
    BY <2>7, <2>8, MadeOf DEF e
<1>. QED
  BY <1>3, <1>4

------------------------------------------------------------------------------
\* An open call, and a view model's state with a drawing laid as it should be.
Call == [drawing : Drawing, state : {"asked", "stored", "refused"}]
Screen == [drawing : Laying, isSending : BOOLEAN, oops : BOOLEAN, showSuccess : BOOLEAN]

\* A galaxy with the screen's state u, the calls s and the history p, while the screen
\* shows step st of galaxy at.
Paired(h, u, s, p, at, st) ==
    /\ IF u.isSending THEN Len(s) = 1 /\ ~u.showSuccess ELSE s = << >>
    /\ p.due = IF u.showSuccess \/ (u.isSending /\ s[1].state = "stored") THEN 0 ELSE 1
    /\ (u.isSending \/ u.showSuccess) /\ ~p.left =>
          /\ at = h /\ st = "friends"
          /\ u.drawing = IF u.showSuccess THEN p.landed ELSE s[1].drawing

\* What DrawingIsSafe needs to be inductive.
SessionInv ==
    /\ galaxy \in Galaxy /\ reach \in Galaxy /\ held \in Size
    /\ step \in {"style", "draw", "friends"}
    /\ session \in [Galaxy -> Screen]
    /\ sends \in [Galaxy -> Seq(Call)]
    /\ past \in [Galaxy -> Past]
    /\ \A h \in Galaxy : Paired(h, session[h], sends[h], past[h], galaxy, step)

\* A step of one galaxy.
LEMMA OneGalaxy ==
    ASSUME SessionInv, NEW g \in Galaxy, NEW u \in Screen, NEW s \in Seq(Call), NEW p \in Past,
           session' = [session EXCEPT ![g] = u],
           sends' = [sends EXCEPT ![g] = s],
           past' = [past EXCEPT ![g] = p],
           galaxy' = galaxy, reach' \in Galaxy, held' \in Size,
           step' \in {"style", "draw", "friends"}, step' # step => g = galaxy,
           Paired(g, u, s, p, galaxy, step')
    PROVE  SessionInv'
<1>1. /\ session' \in [Galaxy -> Screen]
      /\ sends' \in [Galaxy -> Seq(Call)]
      /\ past' \in [Galaxy -> Past]
  BY DEF SessionInv
<1>2. ASSUME NEW h \in Galaxy
      PROVE  Paired(h, session'[h], sends'[h], past'[h], galaxy', step')
  <2>1. CASE h = g
    <3>1. session'[h] = u /\ sends'[h] = s /\ past'[h] = p
      BY <2>1 DEF SessionInv
    <3>. QED
      BY <2>1, <3>1
  <2>2. CASE h # g
    <3>1. session'[h] = session[h] /\ sends'[h] = sends[h] /\ past'[h] = past[h]
      BY <2>2 DEF SessionInv
    <3>2. Paired(h, session[h], sends[h], past[h], galaxy, step)
      BY DEF SessionInv
    <3>3. CASE step' = step
      BY <3>1, <3>2, <3>3
    <3>4. CASE step' # step
      <4>1. h # galaxy
        BY <2>2, <3>4
      <4>2. Paired(h, session[h], sends[h], past[h], galaxy, step')
        BY <3>2, <4>1, Zenon DEF Paired
      <4>. QED
        BY <3>1, <4>2
    <3>. QED
      BY <3>3, <3>4
  <2>. QED
    BY <2>1, <2>2
<1>3. galaxy' \in Galaxy
  BY DEF SessionInv
<1>. QED
  BY <1>1, <1>2, <1>3 DEF SessionInv

\* Nothing of a galaxy is on its way or celebrated, or an adult has left it since.
Idle(g) == past[g].left \/ ~(session[g].isSending \/ session[g].showSuccess)

\* Only the drawing of a galaxy changes, which nothing is sent from.
LEMMA OneDrawing ==
    ASSUME SessionInv, NEW g \in Galaxy, NEW d \in Laying,
           NEW u, u = [session[g] EXCEPT !.drawing = d],
           session' = [session EXCEPT ![g] = u], UNCHANGED <<sends, past, galaxy>>,
           reach' \in Galaxy, held' \in Size,
           step' \in {"style", "draw", "friends"}, step' # step => g = galaxy,
           Idle(g)
    PROVE  SessionInv'
<1>1. session[g] \in Screen /\ sends[g] \in Seq(Call) /\ past[g] \in Past
  BY DEF SessionInv
<1>2. u \in Screen /\ u.isSending = session[g].isSending /\ u.showSuccess = session[g].showSuccess
  BY <1>1 DEF Screen
<1>3. sends' = [sends EXCEPT ![g] = sends[g]] /\ past' = [past EXCEPT ![g] = past[g]]
  BY DEF SessionInv
<1>4. Paired(g, session[g], sends[g], past[g], galaxy, step)
  BY DEF SessionInv
<1>5. Paired(g, u, sends[g], past[g], galaxy, step')
  BY <1>2, <1>4 DEF Paired, Idle
<1>6. galaxy' = galaxy
  OBVIOUS
<1>. QED
  BY <1>1, <1>2, <1>3, <1>5, <1>6, OneGalaxy

\* Only the screen moves.
LEMMA NoDrawing ==
    ASSUME SessionInv, UNCHANGED <<session, sends, past, galaxy>>, reach' \in Galaxy, held' \in Size,
           step' \in {"style", "draw", "friends"},
           step' # step => Idle(galaxy)
    PROVE  SessionInv'
<1>1. ASSUME NEW h \in Galaxy
      PROVE  Paired(h, session[h], sends[h], past[h], galaxy, step')
  <2>1. Paired(h, session[h], sends[h], past[h], galaxy, step)
    BY DEF SessionInv
  <2>2. CASE step' = step
    BY <2>1, <2>2
  <2>3. CASE step' # step
    BY <2>1, <2>3 DEF Paired, Idle
  <2>. QED
    BY <2>2, <2>3
<1>. QED
  BY <1>1 DEF SessionInv

\* The app starts with blank drawings and no calls.
LEMMA SessionStarts == SessionInit => SessionInv
<1>. SUFFICES ASSUME SessionInit PROVE SessionInv
  OBVIOUS
<1>1. galaxy \in Galaxy /\ reach \in Galaxy /\ held \in Size /\ step = "style"
  BY DEF SessionInit
<1>2. Blank \in Laying
  BY <1>1, BlankIsLaid
<1>3. Blank \in Drawing
  BY <1>2 DEF Laying
<1>4. Started \in Screen /\ Unsent \in Past
  BY <1>2, <1>3 DEF Started, Screen, Unsent, Past
<1>5. \A h \in Galaxy : session[h] = Started /\ sends[h] = << >> /\ past[h] = Unsent
  BY DEF SessionInit
<1>6. \A h \in Galaxy : Paired(h, Started, << >>, Unsent, galaxy, step)
  BY DEF Paired, Started, Unsent
<1>7. /\ session \in [Galaxy -> Screen]
      /\ sends \in [Galaxy -> Seq(Call)]
      /\ past \in [Galaxy -> Past]
  BY <1>4 DEF SessionInit
<1>8. \A h \in Galaxy : Paired(h, session[h], sends[h], past[h], galaxy, step)
  BY <1>5, <1>6
<1>. QED
  BY <1>1, <1>7, <1>8 DEF SessionInv

\* What the invariant says of one galaxy, in the fields' own terms.
LEMMA OfGalaxy ==
    ASSUME SessionInv, NEW g \in Galaxy
    PROVE  /\ session[g] \in Screen /\ sends[g] \in Seq(Call) /\ past[g] \in Past
           /\ session[g].drawing \in Laying
           /\ session[g].isSending \in BOOLEAN /\ session[g].showSuccess \in BOOLEAN
           /\ session[g].oops \in BOOLEAN
           /\ past[g].left \in BOOLEAN
           /\ Paired(g, session[g], sends[g], past[g], galaxy, step)
           /\ step # "friends" \/ galaxy # g => Idle(g)
<1>1. /\ session[g] \in Screen /\ sends[g] \in Seq(Call) /\ past[g] \in Past
      /\ Paired(g, session[g], sends[g], past[g], galaxy, step)
  BY DEF SessionInv
<1>2. /\ session[g].drawing \in Laying
      /\ session[g].isSending \in BOOLEAN /\ session[g].showSuccess \in BOOLEAN
      /\ session[g].oops \in BOOLEAN
      /\ past[g].left \in BOOLEAN
  BY <1>1 DEF Screen, Past
<1>3. step # "friends" \/ galaxy # g => Idle(g)
  BY <1>1, Zenon DEF Paired, Idle
<1>. QED
  BY <1>1, <1>2, <1>3

\* The steps of the screen.
LEMMA StepMoves ==
    ASSUME SessionInv, StyleToDraw \/ DrawToStyle \/ DrawToFriends \/ FriendsToDraw
    PROVE  SessionInv'
<1>1. galaxy \in Galaxy /\ held \in Size /\ reach \in Galaxy
  BY DEF SessionInv
<1>2. Idle(galaxy)
  <2>1. step # "friends" => Idle(galaxy)
    BY <1>1, OfGalaxy
  <2>2. FriendsToDraw => Idle(galaxy)
    BY DEF FriendsToDraw, ToStep, Uncovered, Idle
  <2>3. StyleToDraw \/ DrawToStyle \/ DrawToFriends => step # "friends"
    BY DEF StyleToDraw, DrawToStyle, DrawToFriends
  <2>. QED
    BY <2>1, <2>2, <2>3
<1>3. ASSUME ToStep("draw") PROVE SessionInv'
  <2>. DEFINE d == withCanvasSize(session[galaxy].drawing, held)
  <2>1. /\ session' = [session EXCEPT ![galaxy] = [session[galaxy] EXCEPT !.drawing = d]]
        /\ reach' = galaxy /\ step' = "draw"
        /\ UNCHANGED <<galaxy, held, sends, past>>
    BY <1>3 DEF ToStep, Canvas
  <2>2. d \in Laying
    BY <1>1, OfGalaxy, MeasuredIsLaid
  <2>. HIDE DEF d
  <2>. QED
    BY <1>1, <1>2, <2>1, <2>2, OneDrawing
<1>4. ASSUME ToStep("style") \/ ToStep("friends") PROVE SessionInv'
  <2>1. /\ UNCHANGED <<session, galaxy, held, sends, past>> /\ reach' = galaxy
        /\ step' \in {"style", "friends"}
    BY <1>4 DEF ToStep
  <2>. QED
    BY <1>1, <1>2, <2>1, NoDrawing
<1>. QED
  BY <1>3, <1>4 DEF StyleToDraw, DrawToStyle, DrawToFriends, FriendsToDraw

\* The tablet is turned.
LEMMA TurnKeeps ==
    ASSUME SessionInv, NEW size \in Size, Turn(size)
    PROVE  SessionInv'
<1>1. galaxy \in Galaxy /\ held' \in Size /\ reach \in Galaxy /\ step \in {"style", "draw", "friends"}
  BY DEF SessionInv, Turn
<1>2. UNCHANGED <<galaxy, step, sends, past>>
  BY DEF Turn
<1>3. CASE step = "draw"
  <2>. DEFINE d == withCanvasSize(session[galaxy].drawing, size)
  <2>1. session' = [session EXCEPT ![galaxy] = [session[galaxy] EXCEPT !.drawing = d]] /\ reach' = galaxy
    BY <1>3 DEF Turn, Canvas
  <2>2. d \in Laying
    BY <1>1, OfGalaxy, MeasuredIsLaid
  <2>. HIDE DEF d
  <2>3. Idle(galaxy)
    BY <1>1, <1>3, OfGalaxy
  <2>. QED
    BY <1>1, <1>2, <2>1, <2>2, <2>3, OneDrawing
<1>4. CASE step # "draw"
  <2>1. UNCHANGED <<reach, session>>
    BY <1>4 DEF Turn
  <2>. QED
    BY <1>1, <1>2, <2>1, NoDrawing
<1>. QED
  BY <1>3, <1>4

\* A drawing is only worked on while nothing is sent from it, or was left.
LEMMA EditKeeps ==
    ASSUME SessionInv, NEW g \in Galaxy, NEW d \in Laying, Edit(g, d)
    PROVE  SessionInv'
<1>1. /\ session' = [session EXCEPT ![g] = [session[g] EXCEPT !.drawing = d]] /\ step = "draw"
      /\ UNCHANGED <<galaxy, step, held, reach, sends, past>>
  BY DEF Edit
<1>2. reach \in Galaxy /\ held \in Size
  BY DEF SessionInv
<1>3. Idle(g)
  BY <1>1, OfGalaxy
<1>. QED
  BY <1>1, <1>2, <1>3, OneDrawing

\* Drawing, the bucket, undo and clear.
LEMMA EditsKeep ==
    ASSUME SessionInv, DrawStroke \/ Undo \/ Clear \/ \E c \in Paint : Fill(c)
    PROVE  SessionInv'
<1>1. galaxy \in Galaxy /\ held \in Size /\ reach \in Galaxy
  BY DEF SessionInv
<1>2. session[galaxy].drawing \in Laying /\ session[reach].drawing \in Laying
  BY <1>1, OfGalaxy
<1>3. CASE DrawStroke
  <2>1. addStroke(session[reach].drawing, held) \in Laying
    BY <1>1, <1>2, <1>3, StrokeIsLaid DEF DrawStroke
  <2>. QED
    BY <1>1, <1>3, <2>1, EditKeeps DEF DrawStroke
<1>4. CASE Undo
  BY <1>1, <1>2, <1>4, UndoIsLaid, EditKeeps DEF Undo
<1>5. CASE Clear
  BY <1>1, <1>2, <1>5, ClearIsLaid, EditKeeps DEF Clear
<1>6. ASSUME NEW c \in Paint, Fill(c) PROVE SessionInv'
  BY <1>1, <1>2, <1>6, FillIsLaid, EditKeeps DEF Fill
<1>. QED
  BY <1>3, <1>4, <1>5, <1>6

\* A launch opens the one call, of the drawing on the screen.
LEMMA LaunchKeeps ==
    ASSUME SessionInv, Launch
    PROVE  SessionInv'
<1>. DEFINE u == session[galaxy]
            v == [session[galaxy] EXCEPT !.isSending = TRUE, !.oops = FALSE]
            c == [drawing |-> session[galaxy].drawing, state |-> "asked"]
            s == Append(sends[galaxy], c)
            p == past[galaxy]
<1>1. galaxy \in Galaxy /\ held \in Size /\ reach \in Galaxy /\ step \in {"style", "draw", "friends"}
  BY DEF SessionInv
<1>2. u \in Screen /\ sends[galaxy] \in Seq(Call) /\ p \in Past /\ u.drawing \in Laying
      /\ Paired(galaxy, u, sends[galaxy], p, galaxy, step)
  BY <1>1, OfGalaxy
<1>3. step = "friends" /\ ~u.isSending /\ ~u.showSuccess
      /\ UNCHANGED <<galaxy, step, held, reach, past>>
  BY DEF Launch, canLaunch, Uncovered
<1>4. sends[galaxy] = << >> /\ p.due = 1
  BY <1>2, <1>3 DEF Paired
<1>5. c \in Call /\ c.state = "asked" /\ c.drawing = u.drawing
  BY <1>2 DEF Call, Laying
<1>6. s \in Seq(Call) /\ Len(s) = 1 /\ s[1] = c
  <2>. HIDE DEF c
  <2>. QED
    BY <1>4, <1>5
<1>7. v \in Screen /\ v.isSending /\ ~v.showSuccess /\ v.drawing = u.drawing
  BY <1>2, <1>3 DEF Screen
<1>8. /\ session' = [session EXCEPT ![galaxy] = v]
      /\ sends' = [sends EXCEPT ![galaxy] = s]
      /\ past' = [past EXCEPT ![galaxy] = p]
  BY <1>3 DEF Launch, SessionInv
<1>. HIDE DEF v, s, c, u, p
<1>9. Paired(galaxy, v, s, p, galaxy, step)
  BY <1>3, <1>4, <1>5, <1>6, <1>7 DEF Paired
<1>. QED
  BY <1>1, <1>2, <1>3, <1>6, <1>7, <1>8, <1>9, OneGalaxy

\* The dialog of a failure goes away.
LEMMA ErrorClears ==
    ASSUME SessionInv, clearError
    PROVE  SessionInv'
<1>. DEFINE u == session[galaxy]
            v == [session[galaxy] EXCEPT !.oops = FALSE]
            s == sends[galaxy]
            p == past[galaxy]
<1>1. galaxy \in Galaxy /\ held \in Size /\ reach \in Galaxy /\ step \in {"style", "draw", "friends"}
  BY DEF SessionInv
<1>2. u \in Screen /\ s \in Seq(Call) /\ p \in Past /\ Paired(galaxy, u, s, p, galaxy, step)
  BY <1>1, OfGalaxy
<1>3. UNCHANGED <<galaxy, step, held, reach, sends, past>>
  BY DEF clearError
<1>4. /\ v \in Screen /\ v.isSending = u.isSending /\ v.showSuccess = u.showSuccess
      /\ v.drawing = u.drawing
  BY <1>2 DEF Screen
<1>5. /\ session' = [session EXCEPT ![galaxy] = v]
      /\ sends' = [sends EXCEPT ![galaxy] = s]
      /\ past' = [past EXCEPT ![galaxy] = p]
  BY <1>3 DEF clearError, SessionInv
<1>. HIDE DEF v, s, u, p
<1>6. Paired(galaxy, v, s, p, galaxy, step)
  BY <1>2, <1>4 DEF Paired
<1>. QED
  BY <1>1, <1>2, <1>3, <1>4, <1>5, <1>6, OneGalaxy

\* The dialog of a success goes away: the child stays with the drawing, or begins anew.
LEMMA SuccessEnds ==
    ASSUME SessionInv, dismissSuccess \/ startNewPlanet
    PROVE  SessionInv'
<1>. DEFINE u == session[galaxy]
            s == sends[galaxy]
            p == past[galaxy]
<1>1. galaxy \in Galaxy /\ held \in Size /\ reach \in Galaxy /\ step \in {"style", "draw", "friends"}
  BY DEF SessionInv
<1>2. u \in Screen /\ s \in Seq(Call) /\ p \in Past /\ Paired(galaxy, u, s, p, galaxy, step)
      /\ u.drawing \in Laying
  BY <1>1, OfGalaxy
<1>3. u.showSuccess
  BY DEF dismissSuccess, startNewPlanet
<1>4. s = << >> /\ ~u.isSending /\ p.due = 0
  BY <1>2, <1>3 DEF Paired
<1>5. Unsent \in Past
  <2>1. Blank \in Drawing
    BY <1>1, BlankIsLaid DEF Laying
  <2>. QED
    BY <2>1 DEF Unsent, Past
<1>6. sends' = [sends EXCEPT ![galaxy] = s] /\ galaxy' = galaxy
  BY DEF SessionInv, dismissSuccess, startNewPlanet
<1>7. CASE dismissSuccess
  <2>. DEFINE v == [session[galaxy] EXCEPT !.showSuccess = FALSE]
              q == [Unsent EXCEPT !.due = past[galaxy].due + 1]
  <2>1. v \in Screen /\ ~v.isSending /\ ~v.showSuccess
    BY <1>2, <1>4 DEF Screen
  <2>2. q \in Past /\ q.due = 1
    <3>1. past[galaxy].due + 1 = 1
      BY <1>4
    <3>2. q = [Unsent EXCEPT !.due = 1]
      BY <3>1
    <3>. QED
      BY <1>5, <3>2 DEF Past
  <2>3. /\ session' = [session EXCEPT ![galaxy] = v]
        /\ past' = [past EXCEPT ![galaxy] = q]
        /\ UNCHANGED <<step, held, reach>>
    BY <1>7 DEF dismissSuccess, SessionInv
  <2>. HIDE DEF v, s, u, p, q
  <2>4. Paired(galaxy, v, s, q, galaxy, step)
    BY <1>4, <2>1, <2>2 DEF Paired
  <2>. QED
    BY <1>1, <1>2, <1>6, <2>1, <2>2, <2>3, <2>4, OneGalaxy
<1>8. CASE startNewPlanet
  <2>. DEFINE v == [Started EXCEPT !.drawing = clear(session[galaxy].drawing)]
  <2>1. clear(session[galaxy].drawing) \in Laying
    BY <1>2, ClearIsLaid
  <2>2. v \in Screen /\ ~v.isSending /\ ~v.showSuccess
    BY <2>1 DEF Screen, Started
  <2>3. Unsent.due = 1
    BY DEF Unsent
  <2>4. /\ session' = [session EXCEPT ![galaxy] = v]
        /\ past' = [past EXCEPT ![galaxy] = Unsent]
        /\ held' = held /\ reach' = galaxy /\ step' = "style"
    BY <1>8 DEF startNewPlanet
  <2>. HIDE DEF v, s, u, p
  <2>5. Paired(galaxy, v, s, Unsent, galaxy, "style")
    BY <1>4, <2>2, <2>3 DEF Paired
  <2>. QED
    BY <1>1, <1>2, <1>5, <1>6, <2>2, <2>4, <2>5, OneGalaxy
<1>. QED
  BY <1>7, <1>8

\* The history of the galaxy that is left says so, of an open call or a success.
LEMMA SelectKeeps ==
    ASSUME SessionInv, NEW g \in Galaxy, SelectGalaxy(g)
    PROVE  SessionInv'
<1>. DEFINE q == [past[galaxy] EXCEPT !.left =
                     past[galaxy].left \/ sends[galaxy] # << >> \/ session[galaxy].showSuccess]
<1>1. /\ galaxy \in Galaxy /\ held \in Size /\ reach \in Galaxy
      /\ step \in {"style", "draw", "friends"} /\ past \in [Galaxy -> Past]
  BY DEF SessionInv
<1>2. /\ g # galaxy /\ galaxy' = g /\ UNCHANGED <<step, held, session, sends>>
      /\ past' = [past EXCEPT ![galaxy] = q]
      /\ reach' \in Galaxy
  BY <1>1 DEF SelectGalaxy
<1>3. past[galaxy] \in Past
  BY <1>1
<1>4. /\ q \in Past /\ q.due = past[galaxy].due
      /\ q.left <=> past[galaxy].left \/ sends[galaxy] # << >> \/ session[galaxy].showSuccess
  BY <1>3 DEF Past
<1>. HIDE DEF q
<1>5. past' \in [Galaxy -> Past] /\ past'[galaxy] = q
      /\ \A h \in Galaxy \ {galaxy} : past'[h] = past[h]
  BY <1>1, <1>2, <1>4
<1>6. ASSUME NEW h \in Galaxy
      PROVE  Paired(h, session[h], sends[h], past'[h], g, step)
  <2>1. Paired(h, session[h], sends[h], past[h], galaxy, step)
    BY DEF SessionInv
  <2>2. CASE h = galaxy
    <3>1. sends[h] # << >> <=> session[h].isSending
      BY <2>1 DEF Paired
    <3>2. q.left \/ ~(session[h].isSending \/ session[h].showSuccess)
      BY <1>4, <2>2, <3>1, Zenon
    <3>3. Paired(h, session[h], sends[h], q, g, step)
      BY <1>4, <2>1, <2>2, <3>2, Zenon DEF Paired
    <3>. QED
      BY <1>5, <2>2, <3>3
  <2>3. CASE h # galaxy
    <3>1. Paired(h, session[h], sends[h], past[h], g, step)
      BY <2>1, <2>3, Zenon DEF Paired
    <3>. QED
      BY <1>5, <2>3, <3>1
  <2>. QED
    BY <2>2, <2>3
<1>. QED
  BY <1>1, <1>2, <1>5, <1>6 DEF SessionInv

\* The app starts again where it was, without its drawings.
LEMMA DeathKeeps ==
    ASSUME SessionInv, ProcessDies
    PROVE  SessionInv'
<1>1. /\ galaxy \in Galaxy /\ held \in Size /\ step \in {"style", "draw", "friends"}
      /\ UNCHANGED <<galaxy, step, held>> /\ reach' = galaxy
      /\ sends' = [h \in Galaxy |-> << >>] /\ past' = [h \in Galaxy |-> Unsent]
  BY DEF SessionInv, ProcessDies
<1>. DEFINE again == [Started EXCEPT !.drawing.canvasSize = held]
<1>2. Blank \in Laying /\ [Blank EXCEPT !.canvasSize = held] \in Laying
  BY <1>1, BlankIsLaid
<1>3. Blank \in Drawing
  BY <1>2 DEF Laying
<1>4. Unsent \in Past /\ Unsent.due = 1
  BY <1>3 DEF Unsent, Past
<1>5. Started \in Screen /\ ~Started.isSending /\ ~Started.showSuccess
  BY <1>2 DEF Started, Screen
<1>6. again \in Screen /\ ~again.isSending /\ ~again.showSuccess
  <2>1. again = [Started EXCEPT !.drawing = [Blank EXCEPT !.canvasSize = held]]
    BY DEF Started
  <2>. QED
    BY <1>2, <1>5, <2>1 DEF Screen
<1>7. session' \in [Galaxy -> {Started, again}]
  BY DEF ProcessDies
<1>. HIDE DEF again
<1>8. ASSUME NEW h \in Galaxy
      PROVE  Paired(h, session'[h], sends'[h], past'[h], galaxy, step)
  <2>1. sends'[h] = << >> /\ past'[h] = Unsent /\ session'[h] \in {Started, again}
    BY <1>1, <1>7
  <2>2. ~session'[h].isSending /\ ~session'[h].showSuccess
    BY <1>5, <1>6, <2>1
  <2>. QED
    BY <1>4, <2>1, <2>2 DEF Paired
<1>9. /\ session' \in [Galaxy -> Screen]
      /\ sends' \in [Galaxy -> Seq(Call)]
      /\ past' \in [Galaxy -> Past]
  BY <1>1, <1>4, <1>5, <1>6, <1>7
<1>. QED
  BY <1>1, <1>8, <1>9 DEF SessionInv

\* The open call of a galaxy is its only one.
LEMMA OnlyCall ==
    ASSUME SessionInv, NEW g \in Galaxy, NEW i \in DOMAIN sends[g]
    PROVE  /\ i = 1 /\ Len(sends[g]) = 1 /\ sends[g][1] \in Call
           /\ sends[g] = <<sends[g][1]>>
           /\ session[g].isSending /\ ~session[g].showSuccess
           /\ past[g].due = IF sends[g][1].state = "stored" THEN 0 ELSE 1
           /\ RemoveAt(sends[g], i) = << >>
<1>. DEFINE u == session[g]
            s == sends[g]
            p == past[g]
<1>0. Paired(g, u, s, p, galaxy, step)
  BY OfGalaxy
<1>1. s \in Seq(Call)
  BY OfGalaxy
<1>2. i \in 1..Len(s) /\ Len(s) \in Nat
  BY <1>1
<1>3. s # << >>
  BY <1>2
<1>4. u.isSending /\ ~u.showSuccess /\ Len(s) = 1
      /\ p.due = IF s[1].state = "stored" THEN 0 ELSE 1
  BY <1>0, <1>3 DEF Paired
<1>. HIDE DEF s
<1>5. i = 1 /\ s[1] \in Call /\ s = <<s[1]>>
  <2>1. Len(s) = 1
    BY <1>4
  <2>2. i = 1 /\ s[1] \in Call
    BY <1>1, <1>2, <2>1
  <2>3. s = <<s[1]>>
    BY <1>1, <2>1
  <2>. QED
    BY <2>2, <2>3
<1>6. RemoveAt(s, i) = << >>
  BY <1>1, <1>4, <1>5 DEF RemoveAt
<1>. QED
  BY <1>4, <1>5, <1>6 DEF s

\* The server stores the planet, refuses it, or is asked again.
LEMMA ServerKeeps ==
    ASSUME SessionInv, NEW g \in Galaxy, NEW i \in DOMAIN sends[g],
           ServeSend(g, i) \/ ResendSend(g, i)
    PROVE  SessionInv'
<1>. DEFINE u == session[g]
            c == sends[g][1]
            p == past[g]
<1>1. /\ galaxy \in Galaxy /\ held \in Size /\ reach \in Galaxy
      /\ step \in {"style", "draw", "friends"} /\ sends \in [Galaxy -> Seq(Call)]
      /\ past \in [Galaxy -> Past] /\ session \in [Galaxy -> Screen]
  BY DEF SessionInv
<1>2. UNCHANGED <<galaxy, step, held, reach, session>>
  BY DEF ServeSend, ResendSend
<1>3. /\ i = 1 /\ sends[g] = <<c>> /\ c \in Call
      /\ u.isSending /\ ~u.showSuccess
      /\ p.due = IF c.state = "stored" THEN 0 ELSE 1
  BY OnlyCall
<1>4. u \in Screen /\ p \in Past /\ Paired(g, u, <<c>>, p, galaxy, step)
  BY <1>3, OfGalaxy
<1>5. PICK st \in {"asked", "stored", "refused"} :
         /\ Advance(g, i, st)
         /\ \/ st = "refused" /\ c.state = "asked" /\ past' = past
            \/ st = "stored" /\ c.state = "asked" /\ past' = [past EXCEPT ![g].due = @ - 1]
            \/ st = "asked" /\ c.state = "stored" /\ past' = [past EXCEPT ![g].due = @ + 1]
  BY <1>3 DEF ServeSend, ResendSend
<1>. DEFINE e == [c EXCEPT !.state = st]
            q == [p EXCEPT !.due = IF st = "stored" THEN 0 ELSE 1]
<1>6. e \in Call /\ e.state = st /\ e.drawing = c.drawing
  BY <1>3 DEF Call
<1>7. q \in Past /\ q.due = (IF st = "stored" THEN 0 ELSE 1) /\ q.left = p.left
  BY <1>4 DEF Past
<1>8. sends' = [sends EXCEPT ![g] = <<e>>]
  <2>1. sends' = [sends EXCEPT ![g] = [sends[g] EXCEPT ![1] = [sends[g][1] EXCEPT !.state = st]]]
    BY <1>1, <1>3, <1>5 DEF Advance
  <2>2. [<<c>> EXCEPT ![1] = e] = <<e>>
    <3>. HIDE DEF c, e
    <3>. QED
      OBVIOUS
  <2>. QED
    BY <1>3, <2>1, <2>2
<1>9. past' = [past EXCEPT ![g] = q]
  <2>1. CASE st = "refused"
    <3>1. q = p
      BY <1>3, <1>4, <1>5, <2>1 DEF Past
    <3>. QED
      BY <1>1, <1>5, <2>1, <3>1
  <2>2. CASE st = "stored"
    <3>1. past' = [past EXCEPT ![g].due = 0]
      BY <1>3, <1>5, <2>2
    <3>. QED
      BY <2>2, <3>1
  <2>3. CASE st = "asked"
    <3>1. past' = [past EXCEPT ![g].due = 1]
      BY <1>3, <1>5, <2>3
    <3>. QED
      BY <2>3, <3>1
  <2>. QED
    BY <2>1, <2>2, <2>3
<1>10. session' = [session EXCEPT ![g] = u]
  BY <1>1, <1>2
<1>. HIDE DEF u, c, p, e, q
<1>11. Paired(g, u, <<e>>, q, galaxy, step)
  <2>1. Len(<<e>>) = 1 /\ <<e>>[1] = e /\ <<c>>[1] = c
    OBVIOUS
  <2>. QED
    BY <1>3, <1>4, <1>6, <1>7, <2>1 DEF Paired
<1>12. <<e>> \in Seq(Call)
  BY <1>6
<1>. QED
  BY <1>1, <1>2, <1>4, <1>7, <1>8, <1>9, <1>10, <1>11, <1>12, OneGalaxy

\* An answer comes, or none does.
LEMMA EndKeeps ==
    ASSUME SessionInv, NEW g \in Galaxy, NEW i \in DOMAIN sends[g],
           AnswerSend(g, i) \/ LoseSend(g, i)
    PROVE  SessionInv'
<1>. DEFINE u == session[g]
            c == sends[g][1]
            p == past[g]
            none == << >>
<1>1. /\ galaxy \in Galaxy /\ held \in Size /\ reach \in Galaxy
      /\ step \in {"style", "draw", "friends"} /\ sends \in [Galaxy -> Seq(Call)]
      /\ past \in [Galaxy -> Past] /\ session \in [Galaxy -> Screen]
  BY DEF SessionInv
<1>2. UNCHANGED <<galaxy, step, held, reach>>
  BY DEF AnswerSend, LoseSend
<1>3. /\ i = 1 /\ sends[g] = <<c>> /\ c \in Call
      /\ u.isSending /\ ~u.showSuccess
      /\ p.due = (IF c.state = "stored" THEN 0 ELSE 1)
      /\ sends' = [sends EXCEPT ![g] = none]
  BY OnlyCall DEF AnswerSend, LoseSend
<1>4. u \in Screen /\ p \in Past /\ Paired(g, u, <<c>>, p, galaxy, step)
  BY <1>3, OfGalaxy
<1>5. none \in Seq(Call)
  OBVIOUS
<1>6. ~p.left => galaxy = g /\ step = "friends" /\ u.drawing = c.drawing
  <2>1. <<c>>[1] = c
    OBVIOUS
  <2>. QED
    BY <1>3, <1>4, <2>1 DEF Paired
<1>7. CASE AnswerSend(g, i) /\ c.state = "stored"
  <2>. DEFINE v == [u EXCEPT !.isSending = FALSE, !.oops = FALSE, !.showSuccess = TRUE]
              q == [p EXCEPT !.landed = c.drawing]
  <2>1. v \in Screen /\ ~v.isSending /\ v.showSuccess /\ v.drawing = u.drawing
    BY <1>4 DEF Screen
  <2>2. q \in Past /\ q.due = p.due /\ q.left = p.left /\ q.landed = c.drawing
    BY <1>3, <1>4 DEF Past, Call
  <2>3. session' = [session EXCEPT ![g] = v] /\ past' = [past EXCEPT ![g] = q]
    BY <1>1, <1>3, <1>7 DEF AnswerSend
  <2>. HIDE DEF u, c, p, none, v, q
  <2>4. Paired(g, v, none, q, galaxy, step)
    BY <1>3, <1>6, <1>7, <2>1, <2>2 DEF Paired, none
  <2>. QED
    BY <1>1, <1>2, <1>3, <1>5, <2>1, <2>2, <2>3, <2>4, OneGalaxy
<1>8. CASE LoseSend(g, i) \/ c.state # "stored"
  <2>. DEFINE v == [u EXCEPT !.isSending = FALSE, !.oops = TRUE]
              q == [p EXCEPT !.left = FALSE, !.due = 1]
  <2>1. v \in Screen /\ ~v.isSending /\ ~v.showSuccess
    BY <1>3, <1>4 DEF Screen
  <2>2. q \in Past /\ q.due = 1
    <3>. DEFINE r == [p EXCEPT !.left = FALSE]
    <3>1. r \in Past
      BY <1>4 DEF Past
    <3>2. q = [r EXCEPT !.due = 1]
      BY <1>4 DEF Past
    <3>. HIDE DEF r, q
    <3>. QED
      BY <3>1, <3>2 DEF Past
  <2>3. session' = [session EXCEPT ![g] = v] /\ past' = [past EXCEPT ![g] = q]
    <3>1. CASE LoseSend(g, i)
      <4>1. session' = [session EXCEPT ![g] = v]
        BY <1>1, <3>1 DEF LoseSend
      <4>2. past' = [past EXCEPT ![g] = [p EXCEPT !.left = FALSE,
                                          !.due = IF c.state = "stored" THEN p.due + 1 ELSE p.due]]
        BY <1>1, <1>3, <3>1 DEF LoseSend
      <4>3. (IF c.state = "stored" THEN p.due + 1 ELSE p.due) = 1
        BY <1>3
      <4>. QED
        BY <4>1, <4>2, <4>3
    <3>2. CASE AnswerSend(g, i) /\ c.state # "stored"
      <4>1. session' = [session EXCEPT ![g] = v]
        <5>1. session' = [session EXCEPT ![g] = [u EXCEPT !.isSending = FALSE, !.oops = TRUE,
                                                 !.showSuccess = u.showSuccess \/ FALSE]]
          BY <1>1, <1>3, <3>2 DEF AnswerSend
        <5>2. u = [u EXCEPT !.showSuccess = FALSE]
          BY <1>3, <1>4 DEF Screen
        <5>. QED
          BY <1>3, <1>4, <5>1, <5>2 DEF Screen
      <4>2. past' = [past EXCEPT ![g] = [p EXCEPT !.left = FALSE]]
        BY <1>1, <1>3, <3>2 DEF AnswerSend
      <4>3. p.due = 1
        BY <1>3, <3>2
      <4>4. [p EXCEPT !.left = FALSE] = q
        BY <1>4, <4>3 DEF Past
      <4>. QED
        BY <4>1, <4>2, <4>4
    <3>. QED
      BY <1>8, <3>1, <3>2
  <2>. HIDE DEF u, c, p, none, v, q
  <2>4. Paired(g, v, none, q, galaxy, step)
    BY <2>1, <2>2 DEF Paired, none
  <2>. QED
    BY <1>1, <1>2, <1>3, <1>5, <2>1, <2>2, <2>3, <2>4, OneGalaxy
<1>. QED
  BY <1>7, <1>8

\* Every step of the session keeps the invariant.
LEMMA SessionSteps == SessionInv /\ [SessionNext]_sessionVars => SessionInv'
<1>. SUFFICES ASSUME SessionInv, [SessionNext]_sessionVars PROVE SessionInv'
  OBVIOUS
<1>1. CASE UNCHANGED sessionVars
  BY <1>1 DEF SessionInv, sessionVars
<1>2. CASE SessionNext
  BY <1>2, StepMoves, TurnKeeps, EditsKeep, LaunchKeeps, ErrorClears, SuccessEnds, SelectKeeps,
     DeathKeeps, ServerKeeps, EndKeeps, Zenon DEF SessionNext
<1>. QED
  BY <1>1, <1>2

\* What is laid as it should be is what the checked properties say of it.
LEMMA SessionInvMeans == SessionInv => SessionTypeOK /\ DrawingIsSafe
<1>. SUFFICES ASSUME SessionInv PROVE SessionTypeOK /\ DrawingIsSafe
  OBVIOUS
<1>1. SessionTypeOK
  <2>1. session \in [Galaxy -> UiState]
    BY DEF SessionInv, Screen, UiState, Laying
  <2>2. ASSUME NEW g \in Galaxy, NEW i \in DOMAIN sends[g]
        PROVE  sends[g][i] \in [drawing : Drawing, state : {"asked", "stored", "refused"}]
    <3>1. sends[g][1] \in Call /\ i = 1
      BY OnlyCall
    <3>. QED
      BY <3>1 DEF Call
  <2>. QED
    BY <2>1, <2>2 DEF SessionTypeOK, SessionInv
<1>2. BackgroundFits
  <2>1. ASSUME NEW g \in Galaxy, NEW d, d = session[g].drawing
        PROVE  /\ d.strokes = (IF d.explicit /\ d.canvasSize # Unmeasured
                               THEN <<BackgroundStroke(d)>> ELSE << >>) \o Authored(d)
               /\ isEmpty(d) => clear(d) = d
    <3>1. d \in Laying
      BY <2>1, OfGalaxy
    <3>2. /\ d.strokes = Under(d) \o Authored(d)
          /\ d = [strokes |-> d.strokes, canvasSize |-> d.canvasSize,
                  background |-> d.background, explicit |-> d.explicit]
          /\ Frame(d)
      BY <3>1, LaidFrame
    <3>3. ASSUME isEmpty(d) PROVE clear(d) = d
      <4>1. Authored(d) = << >> /\ Under(d) = << >> /\ ~d.explicit
        BY <3>3 DEF isEmpty, Under
      <4>2. d.strokes = << >> /\ d.background = White /\ d.explicit = FALSE
        BY <3>2, <4>1 DEF Frame
      <4>. QED
        BY <3>2, <4>2 DEF clear
    <3>. QED
      BY <3>2, <3>3 DEF Under
  <2>. QED
    BY <2>1 DEF BackgroundFits
<1>3. ASSUME NEW g \in Galaxy
      PROVE  /\ Len(sends[g]) <= 1
             /\ session[g].isSending <=> sends[g] # << >>
             /\ session[g].showSuccess => ~session[g].isSending
             /\ session[g].showSuccess /\ ~past[g].left => session[g].drawing = past[g].landed
             /\ past[g].due >= 0
  <2>1. Paired(g, session[g], sends[g], past[g], galaxy, step)
    BY OfGalaxy
  <2>2. CASE session[g].isSending
    <3>1. Len(sends[g]) = 1 /\ ~session[g].showSuccess
      BY <2>1, <2>2 DEF Paired
    <3>2. sends[g] # << >> /\ Len(sends[g]) <= 1
      BY <3>1
    <3>3. past[g].due \in {0, 1}
      BY <2>1, Zenon DEF Paired
    <3>4. past[g].due >= 0
      BY <3>3
    <3>. QED
      BY <2>2, <3>1, <3>2, <3>4
  <2>3. CASE ~session[g].isSending
    <3>1. sends[g] = << >>
      BY <2>1, <2>3 DEF Paired
    <3>2. Len(sends[g]) <= 1
      BY <3>1
    <3>3. past[g].due \in {0, 1}
      BY <2>1, Zenon DEF Paired
    <3>4. past[g].due >= 0
      BY <3>3
    <3>5. session[g].showSuccess /\ ~past[g].left => session[g].drawing = past[g].landed
      BY <2>1, Zenon DEF Paired
    <3>. QED
      BY <2>3, <3>1, <3>2, <3>4, <3>5
  <2>. QED
    BY <2>2, <2>3
<1>4. OneSend /\ NothingUnsentIsCleared /\ StoredOnce
  BY <1>3 DEF OneSend, NothingUnsentIsCleared, StoredOnce
<1>. QED
  BY <1>1, <1>2, <1>4 DEF DrawingIsSafe

\* A tablet's session has its type: steps, drawings with a bounded number of strokes,
\* calls and histories.
THEOREM SessionIsTyped == SessionSpec => []SessionTypeOK
<1>. QED
  BY SessionStarts, SessionSteps, SessionInvMeans, PTL DEF SessionSpec

\* The tablet's session is safe, for any galaxies, sizes, paints and number of strokes:
\* the background is one stroke under all others, one send is open at a time, a success
\* that no adult walked away from is about the drawing that it will clear, and nothing
\* is stored twice unasked (Drawing.kt, DrawingViewModel.kt, PlanetDrawerScreen.kt).
THEOREM DrawingIsAlwaysSafe == SessionSpec => []DrawingIsSafe
<1>. QED
  BY SessionStarts, SessionSteps, SessionInvMeans, PTL DEF SessionSpec

(* The calendar.                                                            *)

Base(y) == Date(y, 1, 1) - 1
LeapDay(y) == IF Leap(y) THEN 1 ELSE 0

\* The days of a year, counted from its first.
LEMMA DateIs ==
  ASSUME NEW y \in Nat \ {0}
  PROVE  /\ Base(y) \in Int /\ LeapDay(y) \in 0..1
         /\ \A d \in Int :
              /\ Date(y, 1, d) = Base(y) + d
              /\ Date(y, 2, d) = Base(y) + 31 + d
              /\ Date(y, 3, d) = Base(y) + 59 + LeapDay(y) + d
              /\ Date(y, 4, d) = Base(y) + 90 + LeapDay(y) + d
              /\ Date(y, 5, d) = Base(y) + 120 + LeapDay(y) + d
              /\ Date(y, 6, d) = Base(y) + 151 + LeapDay(y) + d
              /\ Date(y, 7, d) = Base(y) + 181 + LeapDay(y) + d
              /\ Date(y, 8, d) = Base(y) + 212 + LeapDay(y) + d
              /\ Date(y, 9, d) = Base(y) + 243 + LeapDay(y) + d
              /\ Date(y, 10, d) = Base(y) + 273 + LeapDay(y) + d
              /\ Date(y, 11, d) = Base(y) + 304 + LeapDay(y) + d
              /\ Date(y, 12, d) = Base(y) + 334 + LeapDay(y) + d
         /\ MonthDays(y) = <<31, 28 + LeapDay(y), 31, 30, 31, 30, 31, 31, 30, 31, 30, 31>>
<1>. DEFINE p == 365 * (y - 1) + (y - 1) \div 4 - (y - 1) \div 100 + (y - 1) \div 400
            l == LeapDay(y)
<1>1. p \in Int /\ l \in 0..1
  BY DEF LeapDay
<1>2. \A m, d : Date(y, m, d) = p + Before[m] + (IF m > 2 /\ Leap(y) THEN 1 ELSE 0) + d
  BY Zenon DEF Date
<1>3. Leap(y) => l = 1
  BY DEF LeapDay
<1>4. ~Leap(y) => l = 0
  BY DEF LeapDay
<1>. HIDE DEF p, l
<1>5. \A d \in Int : Date(y, 1, d) = p + d /\ Date(y, 2, d) = p + 31 + d
  BY <1>1, <1>2 DEF Before
<1>6. \A d \in Int :
        /\ Date(y, 3, d) = p + 59 + l + d
        /\ Date(y, 4, d) = p + 90 + l + d
        /\ Date(y, 5, d) = p + 120 + l + d
        /\ Date(y, 6, d) = p + 151 + l + d
        /\ Date(y, 7, d) = p + 181 + l + d
        /\ Date(y, 8, d) = p + 212 + l + d
        /\ Date(y, 9, d) = p + 243 + l + d
        /\ Date(y, 10, d) = p + 273 + l + d
        /\ Date(y, 11, d) = p + 304 + l + d
        /\ Date(y, 12, d) = p + 334 + l + d
  BY <1>1, <1>2, <1>3, <1>4 DEF Before
<1>7. Base(y) = p
  BY <1>1, <1>5 DEF Base
<1>8. MonthDays(y) = <<31, 28 + l, 31, 30, 31, 30, 31, 31, 30, 31, 30, 31>>
  BY <1>3, <1>4 DEF MonthDays
<1>. QED
  BY <1>1, <1>5, <1>6, <1>7, <1>8, SMTT(60) DEF l

\* 1 March in terms of the century and the year in it.
LEMMA MarchIs ==
  ASSUME NEW y \in Nat \ {0}
  PROVE  LET b == y \div 100
             c == y % 100
         IN  /\ b \in Nat /\ c \in 0..99
             /\ Date(y, 3, 1) \in Int
             /\ (Date(y, 3, 1) + 32 + 2 * (b % 4) + 2 * (c \div 4) - (c % 4)) % 7 = 0
<1>. DEFINE b == y \div 100
            c == y % 100
            spent == y - 1
            l == LeapDay(y)
<1>1. b \in Nat /\ c \in 0..99 /\ y = 100 * b + c
  OBVIOUS
<1>2. PICK B \in Nat, beta \in 0..3 : b = 4 * B + beta /\ b % 4 = beta
  <2>1. b \div 4 \in Nat /\ b % 4 \in 0..3 /\ b = 4 * (b \div 4) + (b % 4)
    BY <1>1
  <2>. QED
    BY <2>1
<1>3. PICK C \in 0..24, gamma \in 0..3 : c = 4 * C + gamma /\ c % 4 = gamma /\ c \div 4 = C
  <2>1. c \div 4 \in 0..24 /\ c % 4 \in 0..3 /\ c = 4 * (c \div 4) + (c % 4)
    BY <1>1
  <2>. QED
    BY <2>1
<1>4. y = 400 * B + 100 * beta + 4 * C + gamma
  BY <1>1, <1>2, <1>3
<1>5. Date(y, 3, 1) = 365 * spent + spent \div 4 - spent \div 100 + spent \div 400 + 60 + l
  <2>1. Before[3] = 59 /\ 3 > 2
    BY DEF Before
  <2>2. spent \in Nat
    OBVIOUS
  <2>. HIDE DEF spent
  <2>. QED
    BY <2>1, <2>2 DEF Date, LeapDay, spent
<1>6. spent \div 4 - spent \div 100 + spent \div 400 + l = 25 * b + C - b + B
  <2>. HIDE DEF b, c
  <2>1. CASE gamma # 0
    <3>1. spent \div 4 = 25 * b + C
      BY <1>2, <1>3, <1>4, <2>1
    <3>2. spent \div 100 = b
      BY <1>2, <1>3, <1>4, <2>1
    <3>3. spent \div 400 = B
      BY <1>2, <1>3, <1>4, <2>1
    <3>4. y % 4 = gamma
      BY <1>4
    <3>5. l = 0
      BY <2>1, <3>4 DEF LeapDay, Leap
    <3>. QED
      BY <1>1, <1>2, <3>1, <3>2, <3>3, <3>5
  <2>2. CASE gamma = 0 /\ C # 0
    <3>1. spent \div 4 = 25 * b + C - 1
      BY <1>2, <1>3, <1>4, <2>2
    <3>2. spent \div 100 = b
      BY <1>2, <1>3, <1>4, <2>2
    <3>3. spent \div 400 = B
      BY <1>2, <1>3, <1>4, <2>2
    <3>4. y % 4 = 0
      BY <1>4, <2>2
    <3>5. y % 100 # 0
      BY <1>3, <1>4, <2>2
    <3>6. l = 1
      BY <3>4, <3>5 DEF LeapDay, Leap
    <3>. QED
      BY <1>1, <1>2, <3>1, <3>2, <3>3, <3>6
  <2>3. CASE gamma = 0 /\ C = 0 /\ beta # 0
    <3>1. spent \div 4 = 25 * b - 1
      BY <1>2, <1>4, <2>3
    <3>2. spent \div 100 = b - 1
      BY <1>2, <1>4, <2>3
    <3>3. spent \div 400 = B
      BY <1>2, <1>4, <2>3
    <3>4. y % 100 = 0
      BY <1>4, <2>3
    <3>5. y % 400 # 0
      BY <1>4, <2>3
    <3>6. l = 0
      BY <3>4, <3>5 DEF LeapDay, Leap
    <3>. QED
      BY <1>1, <1>2, <2>3, <3>1, <3>2, <3>3, <3>6
  <2>4. CASE gamma = 0 /\ C = 0 /\ beta = 0
    <3>1. spent \div 4 = 25 * b - 1
      BY <1>2, <1>4, <2>4
    <3>2. spent \div 100 = b - 1
      BY <1>2, <1>4, <2>4
    <3>3. spent \div 400 = B - 1
      BY <1>2, <1>4, <2>4
    <3>4. y % 400 = 0 /\ y % 4 = 0
      BY <1>4, <2>4
    <3>5. l = 1
      BY <3>4 DEF LeapDay, Leap
    <3>. QED
      BY <1>1, <1>2, <2>4, <3>1, <3>2, <3>3, <3>5
  <2>. QED
    BY <2>1, <2>2, <2>3, <2>4
<1>7. Date(y, 3, 1) = 365 * (y - 1) + 25 * b + C - b + B + 60
  <2>. DEFINE u == spent \div 4
              v == spent \div 100
              w == spent \div 400
              d == Date(y, 3, 1)
              x == 365 * spent
  <2>1. u \in Int /\ v \in Int /\ w \in Int /\ x \in Int /\ l \in Int
    BY DEF LeapDay
  <2>. HIDE DEF u, v, w, x, d, l, b
  <2>2. d = x + u - v + w + 60 + l /\ u - v + w + l = 25 * b + C - b + B
    BY <1>5, <1>6 DEF u, v, w, d, x
  <2>3. d = x + 25 * b + C - b + B + 60
    BY <1>1, <1>2, <1>3, <2>1, <2>2
  <2>. QED
    BY <2>3 DEF d, x
<1>8. Date(y, 3, 1) + 32 + 2 * beta + 2 * C - gamma = 7 * (20871 * B + 5218 * beta + 209 * C + 52 * gamma - 39)
  BY <1>2, <1>3, <1>4, <1>7
<1>9. Date(y, 3, 1) \in Int
  BY <1>2, <1>3, <1>7
<1>. DEFINE k == 20871 * B + 5218 * beta + 209 * C + 52 * gamma - 39
<1>10. k \in Int /\ (7 * k) % 7 = 0
  OBVIOUS
<1>. QED
  BY <1>1, <1>2, <1>3, <1>8, <1>9, <1>10

\* The solar and lunar corrections of the church are those of the computation.
LEMMA CorrectionsAgree ==
  ASSUME NEW b \in Nat
  PROVE  /\ (3 * (b + 1)) \div 4 - 12 = b - b \div 4 - 12
         /\ (8 * (b + 1) + 5) \div 25 = (b - (b + 8) \div 25 + 1) \div 3
<1>1. (3 * (b + 1)) \div 4 = b - b \div 4
  OBVIOUS
<1>2. PICK q \in Nat, r \in 0..24 : b = 25 * q + r
  <2>1. b \div 25 \in Nat /\ b % 25 \in 0..24 /\ b = 25 * (b \div 25) + (b % 25)
    OBVIOUS
  <2>. QED
    BY <2>1
<1>3. (8 * (b + 1) + 5) \div 25 = 8 * q + (8 * r + 13) \div 25
  BY <1>2
<1>4. CASE r < 17
  <2>1. (b + 8) \div 25 = q
    BY <1>2, <1>4
  <2>2. (b - q + 1) \div 3 = 8 * q + (r + 1) \div 3
    BY <1>2
  <2>3. (r + 1) \div 3 = (8 * r + 13) \div 25
    BY <1>4
  <2>. QED
    BY <1>1, <1>3, <2>1, <2>2, <2>3
<1>5. CASE r >= 17
  <2>1. (b + 8) \div 25 = q + 1
    BY <1>2, <1>5
  <2>2. (b - (q + 1) + 1) \div 3 = 8 * q + r \div 3
    BY <1>2
  <2>3. r \div 3 = (8 * r + 13) \div 25
    BY <1>5
  <2>. QED
    BY <1>1, <1>3, <2>1, <2>2, <2>3
<1>. QED
  BY <1>4, <1>5

\* Of seven days one is a Sunday.
LEMMA OneSunday ==
  ASSUME NEW k \in Int, NEW n \in (k + 1)..(k + 7), Weekday(n) = 6
  PROVE  (CHOOSE x \in (k + 1)..(k + 7) : Weekday(x) = 6) = n
<1>1. \A x \in (k + 1)..(k + 7) : Weekday(x) = 6 => x = n
  BY DEF Weekday
<1>. HIDE DEF Weekday
<1>. QED
  BY <1>1

\* The computation of easter_sunday is the rule of the church, in every year.
LEMMA EasterIs ==
  ASSUME NEW y \in Nat \ {0}
  PROVE  /\ easter_sunday(y) = Easter(y)
         /\ easter_sunday(y) \in Date(y, 3, 22)..Date(y, 4, 25)
<1>. DEFINE a == y % 19
            b == y \div 100
            c == y % 100
            g == (b - (b + 8) \div 25 + 1) \div 3
            h == (19 * a + b - b \div 4 - g + 15) % 30
            offset == (32 + 2 * (b % 4) + 2 * (c \div 4) - h - (c % 4)) % 7
            m == (a + 11 * h + 22 * offset) \div 451
            n == h + offset - 7 * m + 114
            easter == easter_sunday(y)
            epact == (11 * (a + 1) + 20 + ((8 * (b + 1) + 5) \div 25 - 5) - ((3 * (b + 1)) \div 4 - 12)) % 30
            corrected == IF epact = 24 \/ (epact = 25 /\ a + 1 > 11) THEN epact + 1 ELSE epact
            moon == PaschalMoon(y)
            march == Date(y, 3, 1)
            s == 32 + 2 * (b % 4) + 2 * (c \div 4) - (c % 4)
<1>1. easter = Date(y, n \div 31, (n % 31) + 1)
  BY Zenon DEF easter_sunday
<1>2. moon = march + (IF corrected <= 23 THEN 43 ELSE 73) - corrected
  BY Zenon DEF PaschalMoon
<1>3. a \in 0..18 /\ b \in Nat /\ c \in 0..99 /\ march \in Int /\ (march + s) % 7 = 0 /\ s \in Int
  <2>1. march \in Int /\ (march + 32 + 2 * (b % 4) + 2 * (c \div 4) - (c % 4)) % 7 = 0
    BY MarchIs
  <2>2. b \in Nat /\ c \in 0..99 /\ a \in 0..18
    OBVIOUS
  <2>. HIDE DEF b, c, march
  <2>3. s \in Int /\ march + 32 + 2 * (b % 4) + 2 * (c \div 4) - (c % 4) = march + s
    BY <2>1, <2>2
  <2>. QED
    BY <2>1, <2>2, <2>3
<1>4. /\ march = Base(y) + 60 + LeapDay(y) /\ Date(y, 4, 1) = march + 31
      /\ \A d \in Int : Date(y, 3, d) = march + d - 1 /\ Date(y, 4, d) = march + 30 + d
  <2>. DEFINE p == Base(y)
              l == LeapDay(y)
  <2>1. /\ p \in Int /\ l \in Int
        /\ \A d \in Int : Date(y, 3, d) = p + 59 + l + d /\ Date(y, 4, d) = p + 90 + l + d
    BY DateIs
  <2>2. march = p + 60 + l
    BY <2>1
  <2>. HIDE DEF p, l, march
  <2>3. \A d \in Int : Date(y, 3, d) = march + d - 1 /\ Date(y, 4, d) = march + 30 + d
    BY <2>1, <2>2
  <2>. QED
    BY <2>1, <2>2, <2>3 DEF p, l
<1>5. g \in Int /\ epact = (11 * a + 38 + g - b + b \div 4) % 30
  <2>. HIDE DEF a, b
  <2>1. (8 * (b + 1) + 5) \div 25 = g /\ (3 * (b + 1)) \div 4 - 12 = b - b \div 4 - 12 /\ g \in Int
    BY <1>3, CorrectionsAgree
  <2>2. epact = (11 * (a + 1) + 20 + (g - 5) - (b - b \div 4 - 12)) % 30
    BY <2>1
  <2>. HIDE DEF g, epact
  <2>3. 11 * (a + 1) + 20 + (g - 5) - (b - b \div 4 - 12) = 11 * a + 38 + g - b + b \div 4
    BY <1>3, <2>1
  <2>. QED
    BY <2>1, <2>2, <2>3
<1>. DEFINE q == b \div 4
<1>6. q \in Int /\ offset = (s - h) % 7 /\ h = (19 * a + b - q - g + 15) % 30 /\ epact = (11 * a + 38 + g - b + q) % 30
  <2>1. q \in Int /\ h \in Int
    BY <1>3, <1>5
  <2>2. h = (19 * a + b - q - g + 15) % 30 /\ epact = (11 * a + 38 + g - b + q) % 30
    BY <1>5
  <2>. HIDE DEF h, q, epact, g
  <2>3. s - h = 32 + 2 * (b % 4) + 2 * (c \div 4) - h - (c % 4)
    BY <1>3, <2>1
  <2>. QED
    BY <2>1, <2>2, <2>3
<1>. HIDE DEF a, b, c, g, q, h, s, epact, march, moon, easter, offset
<1>7. h \in 0..29 /\ epact \in 0..29 /\ (epact <= 23 => h = 23 - epact) /\ (epact > 23 => h = 53 - epact)
  BY <1>3, <1>5, <1>6
<1>8. offset \in 0..6 /\ (march + h + offset) % 7 = 0
  BY <1>3, <1>6, <1>7
<1>9. m \in 0..1 /\ (m = 1 <=> offset = 6 /\ (h = 29 \/ (h = 28 /\ a >= 11)))
  BY <1>3, <1>7, <1>8
<1>. HIDE DEF m
<1>10. easter = march + 21 + h + offset - 7 * m /\ easter \in (march + 21)..(march + 55)
  <2>1. n \in 114..148
    <3>1. m = 0 \/ m = 1
      BY <1>9
    <3>2. m = 0 => h + offset <= 34
      BY <1>7, <1>8, <1>9
    <3>. QED
      BY <1>7, <1>8, <1>9, <3>1, <3>2
  <2>. HIDE DEF n
  <2>2. CASE n < 124
    <3>1. n \div 31 = 3 /\ (n % 31) + 1 = n - 92
      BY <2>1, <2>2
    <3>2. easter = march + n - 93
      BY <1>1, <1>4, <2>1, <3>1
    <3>. QED
      BY <1>3, <1>7, <1>8, <1>9, <2>1, <3>2 DEF n
  <2>3. CASE n >= 124
    <3>1. n \div 31 = 4 /\ (n % 31) + 1 = n - 123
      BY <2>1, <2>3
    <3>2. easter = Date(y, 4, n - 123) /\ n - 123 \in Int
      BY <1>1, <2>1, <3>1
    <3>3. Date(y, 4, n - 123) = march + 30 + (n - 123)
      BY <1>4, <3>2
    <3>4. easter = march + n - 93
      BY <1>3, <2>1, <3>2, <3>3
    <3>. QED
      BY <1>3, <1>7, <1>8, <1>9, <2>1, <3>4 DEF n
  <2>. QED
    BY <2>1, <2>2, <2>3
<1>11. corrected \in Int /\ moon = march + 20 + h - (IF h = 29 \/ (h = 28 /\ a >= 11) THEN 1 ELSE 0)
  BY <1>2, <1>3, <1>7
<1>. HIDE DEF corrected
<1>12. moon \in Int /\ easter \in (moon + 1)..(moon + 7)
  BY <1>3, <1>7, <1>8, <1>9, <1>10, <1>11
<1>13. Weekday(easter) = 6
  BY <1>3, <1>7, <1>8, <1>9, <1>10 DEF Weekday
<1>14. Easter(y) = easter
  BY <1>12, <1>13, OneSunday DEF Easter, moon
<1>15. Date(y, 3, 22) = march + 21 /\ Date(y, 4, 25) = march + 55
  <2>1. Date(y, 3, 22) = march + 22 - 1
    BY <1>4
  <2>2. Date(y, 4, 25) = march + 30 + 25
    BY <1>4
  <2>. QED
    BY <1>3, <2>1, <2>2
<1>. QED
  BY <1>10, <1>14, <1>15 DEF easter

\* The first four Mondays of a month, one by one.
LEMMA MondaysAre ==
  ASSUME NEW f \in Int, NEW t \in f..(f + 6), Weekday(t) = 0
  PROVE  /\ Cardinality({j \in f..t : Weekday(j) = 0}) = 1
         /\ Cardinality({j \in f..(t + 7) : Weekday(j) = 0}) = 2
         /\ Cardinality({j \in f..(t + 14) : Weekday(j) = 0}) = 3
         /\ Cardinality({j \in f..(t + 21) : Weekday(j) = 0}) = 4
         /\ \A n \in f..(f + 27) : Weekday(n) = 0 => n \in {t, t + 7, t + 14, t + 21}
<1>. DEFINE S(n) == {j \in f..n : Weekday(j) = 0}
<1>1. \A j \in Int : Weekday(j) = 0 /\ j >= f /\ j <= t + 21 => j \in {t, t + 7, t + 14, t + 21}
  BY DEF Weekday
<1>2. Weekday(t + 7) = 0 /\ Weekday(t + 14) = 0 /\ Weekday(t + 21) = 0
  BY DEF Weekday
<1>3. \A n \in f..(f + 27) : Weekday(n) = 0 => n \in {t, t + 7, t + 14, t + 21}
  BY DEF Weekday
<1>. HIDE DEF Weekday
<1>4. S(t) = {t}
  BY <1>1
<1>5. S(t + 7) = {t} \cup {t + 7}
  BY <1>1, <1>2
<1>6. S(t + 14) = ({t} \cup {t + 7}) \cup {t + 14}
  BY <1>1, <1>2
<1>7. S(t + 21) = (({t} \cup {t + 7}) \cup {t + 14}) \cup {t + 21}
  BY <1>1, <1>2
<1>. DEFINE A == {t}
            B == A \cup {t + 7}
            C == B \cup {t + 14}
            D == C \cup {t + 21}
<1>8. t + 7 \notin A /\ t + 14 \notin B /\ t + 21 \notin C
  OBVIOUS
<1>9. IsFiniteSet(A) /\ Cardinality(A) = 1
  BY FS_Singleton
<1>. HIDE DEF A
<1>10. IsFiniteSet(B) /\ Cardinality(B) = 2
  BY <1>8, <1>9, FS_AddElement
<1>. HIDE DEF B
<1>11. IsFiniteSet(C) /\ Cardinality(C) = 3
  BY <1>8, <1>10, FS_AddElement
<1>. HIDE DEF C
<1>12. IsFiniteSet(D) /\ Cardinality(D) = 4
  BY <1>8, <1>11, FS_AddElement
<1>13. S(t) = A /\ S(t + 7) = B /\ S(t + 14) = C /\ S(t + 21) = D
  BY <1>4, <1>5, <1>6, <1>7 DEF A, B, C
<1>. HIDE DEF D
<1>. QED
  BY <1>3, <1>9, <1>10, <1>11, <1>12, <1>13

\* The offset of nth_weekday counts Mondays.
LEMMA MondayIs ==
  ASSUME NEW y \in Nat \ {0}, NEW m \in {2, 10}, NEW k \in {2, 3}
  PROVE  /\ nth_weekday(y, m, 0, k) = MondayOf(y, m, k)
         /\ nth_weekday(y, m, 0, k) \in (Date(y, m, 1) + 7 * (k - 1))..(Date(y, m, 1) + 7 * (k - 1) + 6)
<1>. DEFINE f == Date(y, m, 1)
            t == f + ((0 - Weekday(f)) % 7)
            w == t + 7 * (k - 1)
            Is(n) == Weekday(n) = 0 /\ Cardinality({j \in f..n : Weekday(j) = 0}) = k
<1>1. f \in Int /\ Date(y, m, 28) = f + 27
  <2>1. CASE m = 2
    <3>1. /\ Base(y) \in Int /\ \A d \in Int : Date(y, 2, d) = Base(y) + 31 + d
      BY DateIs
    <3>2. Date(y, 2, 1) = Base(y) + 31 + 1 /\ Date(y, 2, 28) = Base(y) + 31 + 28
      BY <3>1
    <3>. QED
      BY <2>1, <3>1, <3>2
  <2>2. CASE m = 10
    <3>1. /\ Base(y) \in Int /\ LeapDay(y) \in Int
          /\ \A d \in Int : Date(y, 10, d) = Base(y) + 273 + LeapDay(y) + d
      BY DateIs
    <3>2. /\ Date(y, 10, 1) = Base(y) + 273 + LeapDay(y) + 1
          /\ Date(y, 10, 28) = Base(y) + 273 + LeapDay(y) + 28
      BY <3>1
    <3>. QED
      BY <2>2, <3>1, <3>2
  <2>. QED
    BY <2>1, <2>2
<1>2. nth_weekday(y, m, 0, k) = f + ((0 - Weekday(f)) % 7) + (k - 1) * 7
  BY Zenon DEF nth_weekday
<1>3. MondayOf(y, m, k) = CHOOSE n \in f..(f + 27) : Is(n)
  BY <1>1 DEF MondayOf
<1>. HIDE DEF f
<1>4. t \in f..(f + 6) /\ Weekday(t) = 0 /\ Weekday(f) \in Int
  BY <1>1 DEF Weekday
<1>5. nth_weekday(y, m, 0, k) = w
  <2>. DEFINE z == (0 - Weekday(f)) % 7
  <2>1. z \in Int
    BY <1>4
  <2>. HIDE DEF z
  <2>. QED
    BY <1>1, <1>2, <2>1 DEF z
<1>. HIDE DEF t
<1>6. /\ Cardinality({j \in f..t : Weekday(j) = 0}) = 1
      /\ Cardinality({j \in f..(t + 7) : Weekday(j) = 0}) = 2
      /\ Cardinality({j \in f..(t + 14) : Weekday(j) = 0}) = 3
      /\ Cardinality({j \in f..(t + 21) : Weekday(j) = 0}) = 4
      /\ \A n \in f..(f + 27) : Weekday(n) = 0 => n \in {t, t + 7, t + 14, t + 21}
  BY <1>1, <1>4, MondaysAre
<1>7. w \in f..(f + 27) /\ Weekday(w) = 0 /\ w \in (f + 7 * (k - 1))..(f + 7 * (k - 1) + 6)
  BY <1>1, <1>4 DEF Weekday
<1>8. k = 2 \/ k = 3
  OBVIOUS
<1>9. (k = 2 => w = t + 7) /\ (k = 3 => w = t + 14)
  BY <1>1, <1>4
<1>. HIDE DEF w
<1>10. \A n \in f..(f + 27) : Is(n) <=> n = w
  <2>1. ASSUME NEW n \in f..(f + 27), Is(n) PROVE n = w
    <3>1. n \in {t, t + 7, t + 14, t + 21}
      BY <1>6, <2>1
    <3>2. n # t /\ n # t + 21
      BY <1>6, <1>8, <2>1
    <3>3. (k = 2 => n # t + 14) /\ (k = 3 => n # t + 7)
      BY <1>6, <2>1
    <3>. QED
      BY <1>8, <1>9, <3>1, <3>2, <3>3
  <2>2. Is(w)
    BY <1>6, <1>7, <1>8, <1>9
  <2>. QED
    BY <2>1, <2>2
<1>. HIDE DEF Is
<1>11. MondayOf(y, m, k) = w
  BY <1>3, <1>7, <1>10
<1>. QED
  BY <1>5, <1>7, <1>11 DEF f

\* Where a day is in its year: l is the leap day, k the number of the day.
IsDay(m, d, k, l) ==
    \/ (m = 1 /\ d \in 1..31 /\ k = d)
    \/ (m = 2 /\ d \in 1..(28 + l) /\ k = 31 + d)
    \/ (m = 3 /\ d \in 1..31 /\ k = 59 + l + d)
    \/ (m = 4 /\ d \in 1..30 /\ k = 90 + l + d)
    \/ (m = 5 /\ d \in 1..31 /\ k = 120 + l + d)
    \/ (m = 6 /\ d \in 1..30 /\ k = 151 + l + d)
    \/ (m = 7 /\ d \in 1..31 /\ k = 181 + l + d)
    \/ (m = 8 /\ d \in 1..31 /\ k = 212 + l + d)
    \/ (m = 9 /\ d \in 1..30 /\ k = 243 + l + d)
    \/ (m = 10 /\ d \in 1..31 /\ k = 273 + l + d)
    \/ (m = 11 /\ d \in 1..30 /\ k = 304 + l + d)
    \/ (m = 12 /\ d \in 1..31 /\ k = 334 + l + d)

\* Every day of the year is one day of one month.
LEMMA MonthIs ==
  ASSUME NEW y \in Nat \ {0}, NEW n \in Date(y, 1, 1)..Date(y, 12, 31)
  PROVE  /\ Month(y, n) \in 1..12
         /\ IsDay(Month(y, n), n - Date(y, Month(y, n), 1) + 1, n - Base(y), LeapDay(y))
         /\ n - Base(y) \in 1..(365 + LeapDay(y))
<1>. DEFINE p == Base(y)
            l == LeapDay(y)
            first(m) == Date(y, m, 1)
            last(m) == Date(y, m, 1) + MonthDays(y)[m] - 1
            In(m) == n \in first(m)..last(m)
<1>1. p \in Int /\ l \in 0..1
  BY DateIs
<1>2. first(1) = p + 1 /\ last(1) = p + 31
  <2>1. /\ Date(y, 1, 1) = p + 1
        /\ MonthDays(y)[1] = 31
    BY DateIs
  <2>. HIDE DEF p, l
  <2>. QED
    BY <1>1, <2>1
<1>3. first(2) = p + 32 /\ last(2) = p + 59 + l
  <2>1. /\ Date(y, 2, 1) = p + 31 + 1
        /\ MonthDays(y)[2] = 28 + l
    BY DateIs
  <2>. HIDE DEF p, l
  <2>. QED
    BY <1>1, <2>1
<1>4. first(3) = p + 60 + l /\ last(3) = p + 90 + l
  <2>1. /\ Date(y, 3, 1) = p + 59 + l + 1
        /\ MonthDays(y)[3] = 31
    BY DateIs
  <2>. HIDE DEF p, l
  <2>. QED
    BY <1>1, <2>1
<1>5. first(4) = p + 91 + l /\ last(4) = p + 120 + l
  <2>1. /\ Date(y, 4, 1) = p + 90 + l + 1
        /\ MonthDays(y)[4] = 30
    BY DateIs
  <2>. HIDE DEF p, l
  <2>. QED
    BY <1>1, <2>1
<1>6. first(5) = p + 121 + l /\ last(5) = p + 151 + l
  <2>1. /\ Date(y, 5, 1) = p + 120 + l + 1
        /\ MonthDays(y)[5] = 31
    BY DateIs
  <2>. HIDE DEF p, l
  <2>. QED
    BY <1>1, <2>1
<1>7. first(6) = p + 152 + l /\ last(6) = p + 181 + l
  <2>1. /\ Date(y, 6, 1) = p + 151 + l + 1
        /\ MonthDays(y)[6] = 30
    BY DateIs
  <2>. HIDE DEF p, l
  <2>. QED
    BY <1>1, <2>1
<1>8. first(7) = p + 182 + l /\ last(7) = p + 212 + l
  <2>1. /\ Date(y, 7, 1) = p + 181 + l + 1
        /\ MonthDays(y)[7] = 31
    BY DateIs
  <2>. HIDE DEF p, l
  <2>. QED
    BY <1>1, <2>1
<1>9. first(8) = p + 213 + l /\ last(8) = p + 243 + l
  <2>1. /\ Date(y, 8, 1) = p + 212 + l + 1
        /\ MonthDays(y)[8] = 31
    BY DateIs
  <2>. HIDE DEF p, l
  <2>. QED
    BY <1>1, <2>1
<1>10. first(9) = p + 244 + l /\ last(9) = p + 273 + l
  <2>1. /\ Date(y, 9, 1) = p + 243 + l + 1
        /\ MonthDays(y)[9] = 30
    BY DateIs
  <2>. HIDE DEF p, l
  <2>. QED
    BY <1>1, <2>1
<1>11. first(10) = p + 274 + l /\ last(10) = p + 304 + l
  <2>1. /\ Date(y, 10, 1) = p + 273 + l + 1
        /\ MonthDays(y)[10] = 31
    BY DateIs
  <2>. HIDE DEF p, l
  <2>. QED
    BY <1>1, <2>1
<1>12. first(11) = p + 305 + l /\ last(11) = p + 334 + l
  <2>1. /\ Date(y, 11, 1) = p + 304 + l + 1
        /\ MonthDays(y)[11] = 30
    BY DateIs
  <2>. HIDE DEF p, l
  <2>. QED
    BY <1>1, <2>1
<1>13. first(12) = p + 335 + l /\ last(12) = p + 365 + l
  <2>1. /\ Date(y, 12, 1) = p + 334 + l + 1
        /\ MonthDays(y)[12] = 31
    BY DateIs
  <2>. HIDE DEF p, l
  <2>. QED
    BY <1>1, <2>1
<1>14. n \in (p + 1)..(p + 365 + l)
  <2>1. Date(y, 1, 1) = p + 1 /\ Date(y, 12, 31) = p + 334 + l + 31
    BY DateIs
  <2>. HIDE DEF p, l
  <2>. QED
    BY <1>1, <2>1
<1>15. Month(y, n) = CHOOSE m \in 1..12 : In(m)
  BY Zenon DEF Month
<1>. HIDE DEF p, l, first, last
<1>16. \A m \in 1..12 : m \in {1, 2, 3, 4, 5, 6, 7, 8, 9, 10, 11, 12}
  OBVIOUS
<1>17. \E m \in 1..12 : In(m)
  BY <1>1, <1>2, <1>3, <1>4, <1>5, <1>6, <1>7, <1>8, <1>9, <1>10, <1>11, <1>12, <1>13, <1>14
<1>18. Month(y, n) \in 1..12 /\ In(Month(y, n))
  <2>. HIDE DEF In
  <2>. QED
    BY <1>15, <1>17
<1>. DEFINE m == Month(y, n)
<1>19. n - p \in 1..(365 + l)
  BY <1>1, <1>14
<1>20. IsDay(m, n - first(m) + 1, n - p, l)
  <2>. HIDE DEF m
  <2>0. m \in {1, 2, 3, 4, 5, 6, 7, 8, 9, 10, 11, 12} /\ In(m)
    BY <1>16, <1>18 DEF m
  <2>1. CASE m = 1
    BY <1>1, <1>14, <1>2, <2>0, <2>1 DEF IsDay
  <2>2. CASE m = 2
    BY <1>1, <1>14, <1>3, <2>0, <2>2 DEF IsDay
  <2>3. CASE m = 3
    BY <1>1, <1>14, <1>4, <2>0, <2>3 DEF IsDay
  <2>4. CASE m = 4
    BY <1>1, <1>14, <1>5, <2>0, <2>4 DEF IsDay
  <2>5. CASE m = 5
    BY <1>1, <1>14, <1>6, <2>0, <2>5 DEF IsDay
  <2>6. CASE m = 6
    BY <1>1, <1>14, <1>7, <2>0, <2>6 DEF IsDay
  <2>7. CASE m = 7
    BY <1>1, <1>14, <1>8, <2>0, <2>7 DEF IsDay
  <2>8. CASE m = 8
    BY <1>1, <1>14, <1>9, <2>0, <2>8 DEF IsDay
  <2>9. CASE m = 9
    BY <1>1, <1>14, <1>10, <2>0, <2>9 DEF IsDay
  <2>10. CASE m = 10
    BY <1>1, <1>14, <1>11, <2>0, <2>10 DEF IsDay
  <2>11. CASE m = 11
    BY <1>1, <1>14, <1>12, <2>0, <2>11 DEF IsDay
  <2>12. CASE m = 12
    BY <1>1, <1>14, <1>13, <2>0, <2>12 DEF IsDay
  <2>. QED
    BY <2>0, <2>1, <2>2, <2>3, <2>4, <2>5, <2>6, <2>7, <2>8, <2>9, <2>10, <2>11, <2>12
<1>. QED
  BY <1>18, <1>19, <1>20 DEF p, l, first

Theme(y, n, r) == LET m == Month(y, n) IN resolve(y, m, n - Date(y, m, 1) + 1, r)

\* The seasons as days of the year k, l being the leap day; e, t and f are the days
\* that move.
Worn(k, l, e, t, f, r) ==
    IF k = 1 \/ k = 365 + l THEN "new-year"
    ELSE IF k \in (354 + l)..(364 + l) \/ k \in 2..6 THEN "christmas"
    ELSE IF k = 315 + l THEN "remembrance-day"
    ELSE IF k \in (298 + l)..(305 + l) THEN "halloween"
    ELSE IF k \in (t - 2)..t THEN "thanksgiving"
    ELSE IF k \in (181 + l)..(183 + l) THEN "canada-day"
    ELSE IF r = "ca-qc" /\ k \in (174 + l)..(175 + l) THEN "fete-nationale"
    ELSE IF r \in FamilyDayRegions /\ k \in (f - 2)..f THEN "family-day"
    ELSE IF k \in (e - 2)..(e + 1) THEN "easter"
    ELSE "default"

EasterDay(y) == Easter(y) - Base(y)
Thanksgiving(y) == MondayOf(y, 10, 2) - Base(y)
FamilyDay(y) == MondayOf(y, 2, 3) - Base(y)

\* When the days that move can be.
LEMMA MovingDays ==
  ASSUME NEW y \in Nat \ {0}
  PROVE  /\ EasterDay(y) \in (81 + LeapDay(y))..(115 + LeapDay(y))
         /\ Thanksgiving(y) \in (281 + LeapDay(y))..(287 + LeapDay(y))
         /\ FamilyDay(y) \in 46..52
         /\ Easter(y) = Base(y) + EasterDay(y)
         /\ MondayOf(y, 10, 2) = Base(y) + Thanksgiving(y)
         /\ MondayOf(y, 2, 3) = Base(y) + FamilyDay(y)
<1>. DEFINE p == Base(y)
            l == LeapDay(y)
            e == Easter(y)
            t == MondayOf(y, 10, 2)
            f == MondayOf(y, 2, 3)
<1>1. p \in Int /\ l \in 0..1
  BY DateIs
<1>2. /\ Date(y, 2, 1) = p + 31 + 1 /\ Date(y, 3, 22) = p + 59 + l + 22
      /\ Date(y, 4, 25) = p + 90 + l + 25 /\ Date(y, 10, 1) = p + 273 + l + 1
  <2>1. Date(y, 2, 1) = p + 31 + 1
    BY DateIs
  <2>2. Date(y, 3, 22) = p + 59 + l + 22
    BY DateIs
  <2>3. Date(y, 4, 25) = p + 90 + l + 25
    BY DateIs
  <2>4. Date(y, 10, 1) = p + 273 + l + 1
    BY DateIs
  <2>. QED
    BY <2>1, <2>2, <2>3, <2>4
<1>3. e \in Date(y, 3, 22)..Date(y, 4, 25)
  BY EasterIs
<1>4. /\ t \in (Date(y, 10, 1) + 7 * (2 - 1))..(Date(y, 10, 1) + 7 * (2 - 1) + 6)
      /\ f \in (Date(y, 2, 1) + 7 * (3 - 1))..(Date(y, 2, 1) + 7 * (3 - 1) + 6)
  BY MondayIs
<1>. HIDE DEF p, l, e, t, f
<1>5. e \in (p + 81 + l)..(p + 115 + l)
  BY <1>1, <1>2, <1>3
<1>6. t \in (p + 281 + l)..(p + 287 + l)
  BY <1>1, <1>2, <1>4
<1>7. f \in (p + 46)..(p + 52)
  BY <1>1, <1>2, <1>4
<1>8. /\ e - p \in (81 + l)..(115 + l) /\ t - p \in (281 + l)..(287 + l) /\ f - p \in 46..52
      /\ e = p + (e - p) /\ t = p + (t - p) /\ f = p + (f - p)
  BY <1>1, <1>5, <1>6, <1>7
<1>. QED
  BY <1>8 DEF p, l, e, t, f, EasterDay, Thanksgiving, FamilyDay

LEMMA ThemeIs ==
  ASSUME NEW y \in Nat \ {0}, NEW r, NEW n \in Date(y, 1, 1)..Date(y, 12, 31)
  PROVE  Theme(y, n, r) =
            Worn(n - Base(y), LeapDay(y), EasterDay(y), Thanksgiving(y), FamilyDay(y), r)
<1>. DEFINE p == Base(y)
            l == LeapDay(y)
            m == Month(y, n)
            d == n - Date(y, m, 1) + 1
            k == n - Base(y)
            day == Date(y, m, d)
            thanksgiving == nth_weekday(y, 10, 0, 2)
            familyDay == nth_weekday(y, 2, 0, 3)
            easter == easter_sunday(y)
            e == EasterDay(y)
            t == Thanksgiving(y)
            f == FamilyDay(y)
            a1 == <<m, d>> \in {<<12, 31>>, <<1, 1>>}
            a2 == (m = 12 /\ d \in 20..30) \/ (m = 1 /\ d \in 2..6)
            a3 == <<m, d>> = <<11, 11>>
            a4 == (m = 10 /\ d >= 25) \/ (m = 11 /\ d <= 1)
            a5 == day \in (thanksgiving - 2)..thanksgiving
            a6 == <<m, d>> = <<6, 30>> \/ (m = 7 /\ d <= 2)
            a7 == r = "ca-qc" /\ m = 6 /\ d \in {23, 24}
            a8 == r \in FamilyDayRegions /\ day \in (familyDay - 2)..familyDay
            a9 == day \in (easter - 2)..(easter + 1)
            b1 == k = 1 \/ k = 365 + l
            b2 == k \in (354 + l)..(364 + l) \/ k \in 2..6
            b3 == k = 315 + l
            b4 == k \in (298 + l)..(305 + l)
            b5 == k \in (t - 2)..t
            b6 == k \in (181 + l)..(183 + l)
            b7 == r = "ca-qc" /\ k \in (174 + l)..(175 + l)
            b8 == r \in FamilyDayRegions /\ k \in (f - 2)..f
            b9 == k \in (e - 2)..(e + 1)
            Which(c1, c2, c3, c4, c5, c6, c7, c8, c9) ==
                IF c1 THEN "new-year" ELSE IF c2 THEN "christmas" ELSE IF c3 THEN "remembrance-day"
                ELSE IF c4 THEN "halloween" ELSE IF c5 THEN "thanksgiving" ELSE IF c6 THEN "canada-day"
                ELSE IF c7 THEN "fete-nationale" ELSE IF c8 THEN "family-day"
                ELSE IF c9 THEN "easter" ELSE "default"
<1>1. p \in Int /\ l \in 0..1
  BY DateIs
<1>2. m \in 1..12 /\ IsDay(m, d, k, l) /\ k \in 1..(365 + l)
  BY MonthIs
<1>3. n \in Int
  <2>1. Date(y, 1, 1) = p + 1 /\ Date(y, 12, 31) = p + 334 + l + 31
    BY DateIs
  <2>. HIDE DEF p, l
  <2>. QED
    BY <1>1, <2>1
<1>4. n = p + k
  BY <1>1, <1>3
<1>5. day = n
  <2>1. \A q, x \in Int : Date(y, m, x) = Date(y, m, 1) + (x - 1) /\ Date(y, m, 1) \in Int
    <3>1. ASSUME NEW x \in Int PROVE Date(y, m, x) = Date(y, m, 1) + (x - 1) /\ Date(y, m, 1) \in Int
      <4>. DEFINE j == m
      <4>1. j \in {1, 2, 3, 4, 5, 6, 7, 8, 9, 10, 11, 12}
        BY <1>2
      <4>. HIDE DEF j, p, l
      <4>2. Date(y, j, x) = Date(y, j, 1) + (x - 1) /\ Date(y, j, 1) \in Int
        <5>0. Base(y) \in Int /\ LeapDay(y) \in Int
          BY DateIs
        <5>1. CASE j = 1
          <6>1. Date(y, 1, x) = Base(y) + x
            BY DateIs
          <6>2. Date(y, 1, 1) = Base(y) + 1
            BY DateIs
          <6>. QED
            BY <5>0, <5>1, <6>1, <6>2
        <5>2. CASE j = 2
          <6>1. Date(y, 2, x) = Base(y) + 31 + x
            BY DateIs
          <6>2. Date(y, 2, 1) = Base(y) + 31 + 1
            BY DateIs
          <6>. QED
            BY <5>0, <5>2, <6>1, <6>2
        <5>3. CASE j = 3
          <6>1. Date(y, 3, x) = Base(y) + 59 + LeapDay(y) + x
            BY DateIs
          <6>2. Date(y, 3, 1) = Base(y) + 59 + LeapDay(y) + 1
            BY DateIs
          <6>. QED
            BY <5>0, <5>3, <6>1, <6>2
        <5>4. CASE j = 4
          <6>1. Date(y, 4, x) = Base(y) + 90 + LeapDay(y) + x
            BY DateIs
          <6>2. Date(y, 4, 1) = Base(y) + 90 + LeapDay(y) + 1
            BY DateIs
          <6>. QED
            BY <5>0, <5>4, <6>1, <6>2
        <5>5. CASE j = 5
          <6>1. Date(y, 5, x) = Base(y) + 120 + LeapDay(y) + x
            BY DateIs
          <6>2. Date(y, 5, 1) = Base(y) + 120 + LeapDay(y) + 1
            BY DateIs
          <6>. QED
            BY <5>0, <5>5, <6>1, <6>2
        <5>6. CASE j = 6
          <6>1. Date(y, 6, x) = Base(y) + 151 + LeapDay(y) + x
            BY DateIs
          <6>2. Date(y, 6, 1) = Base(y) + 151 + LeapDay(y) + 1
            BY DateIs
          <6>. QED
            BY <5>0, <5>6, <6>1, <6>2
        <5>7. CASE j = 7
          <6>1. Date(y, 7, x) = Base(y) + 181 + LeapDay(y) + x
            BY DateIs
          <6>2. Date(y, 7, 1) = Base(y) + 181 + LeapDay(y) + 1
            BY DateIs
          <6>. QED
            BY <5>0, <5>7, <6>1, <6>2
        <5>8. CASE j = 8
          <6>1. Date(y, 8, x) = Base(y) + 212 + LeapDay(y) + x
            BY DateIs
          <6>2. Date(y, 8, 1) = Base(y) + 212 + LeapDay(y) + 1
            BY DateIs
          <6>. QED
            BY <5>0, <5>8, <6>1, <6>2
        <5>9. CASE j = 9
          <6>1. Date(y, 9, x) = Base(y) + 243 + LeapDay(y) + x
            BY DateIs
          <6>2. Date(y, 9, 1) = Base(y) + 243 + LeapDay(y) + 1
            BY DateIs
          <6>. QED
            BY <5>0, <5>9, <6>1, <6>2
        <5>10. CASE j = 10
          <6>1. Date(y, 10, x) = Base(y) + 273 + LeapDay(y) + x
            BY DateIs
          <6>2. Date(y, 10, 1) = Base(y) + 273 + LeapDay(y) + 1
            BY DateIs
          <6>. QED
            BY <5>0, <5>10, <6>1, <6>2
        <5>11. CASE j = 11
          <6>1. Date(y, 11, x) = Base(y) + 304 + LeapDay(y) + x
            BY DateIs
          <6>2. Date(y, 11, 1) = Base(y) + 304 + LeapDay(y) + 1
            BY DateIs
          <6>. QED
            BY <5>0, <5>11, <6>1, <6>2
        <5>12. CASE j = 12
          <6>1. Date(y, 12, x) = Base(y) + 334 + LeapDay(y) + x
            BY DateIs
          <6>2. Date(y, 12, 1) = Base(y) + 334 + LeapDay(y) + 1
            BY DateIs
          <6>. QED
            BY <5>0, <5>12, <6>1, <6>2
        <5>. QED
          BY <4>1, <5>1, <5>2, <5>3, <5>4, <5>5, <5>6, <5>7, <5>8, <5>9, <5>10, <5>11, <5>12
      <4>. QED
        BY <4>2 DEF j
    <3>. QED
      BY <3>1
  <2>. DEFINE s == Date(y, m, 1)
  <2>2. s \in Int
    BY <2>1
  <2>3. d \in Int /\ d - 1 = n - s
    BY <1>3, <2>2
  <2>4. day = s + (d - 1)
    BY <2>1, <2>3
  <2>. HIDE DEF s, d, day
  <2>. QED
    BY <1>3, <2>2, <2>3, <2>4
<1>6. /\ e \in (81 + l)..(115 + l) /\ t \in (281 + l)..(287 + l) /\ f \in 46..52
      /\ easter = p + e /\ thanksgiving = p + t /\ familyDay = p + f
  BY MovingDays, MondayIs, EasterIs
<1>7. Theme(y, n, r) = Which(a1, a2, a3, a4, a5, a6, a7, a8, a9)
  BY Zenon DEF Theme, resolve
<1>71. Worn(k, l, e, t, f, r) = Which(b1, b2, b3, b4, b5, b6, b7, b8, b9)
  BY Zenon DEF Worn
<1>. HIDE DEF p, l, m, d, k, day, thanksgiving, familyDay, easter, e, t, f
<1>8. /\ day \in (thanksgiving - 2)..thanksgiving <=> k \in (t - 2)..t
      /\ day \in (familyDay - 2)..familyDay <=> k \in (f - 2)..f
      /\ day \in (easter - 2)..(easter + 1) <=> k \in (e - 2)..(e + 1)
  BY <1>1, <1>2, <1>4, <1>5, <1>6
<1>9. <<m, d>> \in {<<12, 31>>, <<1, 1>>} <=> k = 1 \/ k = 365 + l
  BY <1>1, <1>2 DEF IsDay
<1>10. (m = 12 /\ d \in 20..30) \/ (m = 1 /\ d \in 2..6) <=> k \in (354 + l)..(364 + l) \/ k \in 2..6
  BY <1>1, <1>2 DEF IsDay
<1>11. <<m, d>> = <<11, 11>> <=> k = 315 + l
  BY <1>1, <1>2 DEF IsDay
<1>12. (m = 10 /\ d >= 25) \/ (m = 11 /\ d <= 1) <=> k \in (298 + l)..(305 + l)
  BY <1>1, <1>2 DEF IsDay
<1>13. <<m, d>> = <<6, 30>> \/ (m = 7 /\ d <= 2) <=> k \in (181 + l)..(183 + l)
  BY <1>1, <1>2 DEF IsDay
<1>14. m = 6 /\ d \in {23, 24} <=> k \in (174 + l)..(175 + l)
  BY <1>1, <1>2 DEF IsDay
<1>15. /\ (a1 <=> b1) /\ (a2 <=> b2) /\ (a3 <=> b3) /\ (a4 <=> b4) /\ (a5 <=> b5)
       /\ (a6 <=> b6) /\ (a7 <=> b7) /\ (a8 <=> b8) /\ (a9 <=> b9)
  BY <1>8, <1>9, <1>10, <1>11, <1>12, <1>13, <1>14, Zenon
<1>. HIDE DEF a1, a2, a3, a4, a5, a6, a7, a8, a9, b1, b2, b3, b4, b5, b6, b7, b8, b9
<1>16. Which(a1, a2, a3, a4, a5, a6, a7, a8, a9) = Which(b1, b2, b3, b4, b5, b6, b7, b8, b9)
  BY <1>15
<1>. HIDE DEF Which
<1>17. Theme(y, n, r) = Worn(k, l, e, t, f, r)
  BY <1>7, <1>71, <1>16, Zenon
<1>. QED
  BY <1>17, Zenon DEF k, l, e, t, f

\* Which day of the year k wears which season.
Seasons(k, l, e, t, f, r) ==
    LET w == Worn(k, l, e, t, f, r)
    IN  /\ w = "remembrance-day" <=> k \in (315 + l)..(315 + l)
        /\ w = "halloween" <=> k \in (298 + l)..(305 + l)
        /\ w = "thanksgiving" <=> k \in (t - 2)..t
        /\ w = "canada-day" <=> k \in (181 + l)..(183 + l)
        /\ w = "fete-nationale" <=> r = "ca-qc" /\ k \in (174 + l)..(175 + l)
        /\ w = "family-day" <=> r \in FamilyDayRegions /\ k \in (f - 2)..f
        /\ w = "easter" <=> k \in (e - 2)..(e + 1)
        /\ k \in {1, 365 + l} => w = "new-year"
        /\ k = 359 + l => w = "christmas"

\* No season meets another, whenever the days that move are.
LEMMA WornIs ==
  ASSUME NEW k, NEW l, NEW e, NEW t, NEW f, NEW r, l \in 0..1,
         e \in (81 + l)..(115 + l) /\ t \in (281 + l)..(287 + l) /\ f \in 46..52,
         k \in 1..(365 + l)
  PROVE  Seasons(k, l, e, t, f, r)
<1>. DEFINE b1 == k = 1 \/ k = 365 + l
            b2 == k \in (354 + l)..(364 + l) \/ k \in 2..6
            b3 == k = 315 + l
            b4 == k \in (298 + l)..(305 + l)
            b5 == k \in (t - 2)..t
            b6 == k \in (181 + l)..(183 + l)
            b7 == r = "ca-qc" /\ k \in (174 + l)..(175 + l)
            b8 == r \in FamilyDayRegions /\ k \in (f - 2)..f
            b9 == k \in (e - 2)..(e + 1)
            w == Worn(k, l, e, t, f, r)
<1>1. w = IF b1 THEN "new-year" ELSE IF b2 THEN "christmas" ELSE IF b3 THEN "remembrance-day"
          ELSE IF b4 THEN "halloween" ELSE IF b5 THEN "thanksgiving" ELSE IF b6 THEN "canada-day"
          ELSE IF b7 THEN "fete-nationale" ELSE IF b8 THEN "family-day"
          ELSE IF b9 THEN "easter" ELSE "default"
  BY Zenon DEF Worn
<1>2. /\ b9 => ~(b1 \/ b2 \/ b3 \/ b4 \/ b5 \/ b6 \/ b7 \/ b8)
      /\ b8 => ~(b1 \/ b2 \/ b3 \/ b4 \/ b5 \/ b6 \/ b7)
      /\ b7 => ~(b1 \/ b2 \/ b3 \/ b4 \/ b5 \/ b6)
      /\ b6 => ~(b1 \/ b2 \/ b3 \/ b4 \/ b5)
      /\ b5 => ~(b1 \/ b2 \/ b3 \/ b4)
      /\ b4 => ~(b1 \/ b2 \/ b3)
      /\ b3 => ~(b1 \/ b2)
  OBVIOUS
<1>3. /\ b3 <=> k \in (315 + l)..(315 + l)
      /\ k \in {1, 365 + l} => b1
      /\ k = 359 + l => b2 /\ ~b1
  OBVIOUS
<1>. DEFINE c3 == k \in (315 + l)..(315 + l)
            c1 == k \in {1, 365 + l}
            c2 == k = 359 + l
<1>. HIDE DEF b1, b2, b3, b4, b5, b6, b7, b8, b9, c1, c2, c3, w
<1>4. /\ w = "remembrance-day" <=> c3
      /\ w = "halloween" <=> b4
      /\ w = "thanksgiving" <=> b5
      /\ w = "canada-day" <=> b6
      /\ w = "fete-nationale" <=> b7
      /\ w = "family-day" <=> b8
      /\ w = "easter" <=> b9
      /\ c1 => w = "new-year"
      /\ c2 => w = "christmas"
  BY <1>1, <1>2, <1>3 DEF c1, c2, c3
<1>. QED
  BY <1>4, Zenon DEF Seasons, w, b4, b5, b6, b7, b8, b9, c1, c2, c3

\* Every holiday is worn, a season is one run of days and has its holiday.
LEMMA SeasonsAreRight ==
  ASSUME year \in Nat \ {0}, region \in CanadianRegion
  PROVE  SeasonIsRight
<1>. DEFINE y == year
            r == region
            p == Base(y)
            l == LeapDay(y)
            e == EasterDay(y)
            t == Thanksgiving(y)
            f == FamilyDay(y)
            theme(n) == LET m == Month(y, n) IN resolve(y, m, n - Date(y, m, 1) + 1, r)
            days == Date(y, 1, 1)..Date(y, 12, 31)
            worn == {<<n, theme(n)>> : n \in days}
            season(x) == {q[1] : q \in {v \in worn : v[2] = x}}
            kept == Holidays(y, r)
            W(k) == Worn(k, l, e, t, f, r)
            Named == GalaxyTheme \ {"default", "christmas", "new-year"}
<1>1. /\ p \in Int /\ l \in 0..1 /\ e \in (81 + l)..(115 + l) /\ t \in (281 + l)..(287 + l) /\ f \in 46..52
      /\ Easter(y) = p + e /\ MondayOf(y, 10, 2) = p + t /\ MondayOf(y, 2, 3) = p + f
  BY DateIs, MovingDays
<1>2. \A n \in days : theme(n) = W(n - p)
  BY ThemeIs DEF Theme
<1>. HIDE DEF theme
<1>3. days = (p + 1)..(p + 365 + l)
  <2>1. Date(y, 1, 1) = p + 1
    BY DateIs
  <2>2. Date(y, 12, 31) = p + 334 + l + 31
    BY DateIs
  <2>. DEFINE a == Date(y, 1, 1)
              b == Date(y, 12, 31)
  <2>. HIDE DEF p, l, a, b
  <2>3. a = p + 1 /\ b = p + 365 + l
    BY <1>1, <2>1, <2>2 DEF a, b
  <2>. QED
    BY <2>3 DEF a, b
<1>. HIDE DEF days
<1>4. \A x : season(x) = {n \in days : theme(n) = x}
  <2>1. ASSUME NEW x, NEW n PROVE n \in season(x) <=> n \in days /\ theme(n) = x
    <3>1. ASSUME n \in season(x) PROVE n \in days /\ theme(n) = x
      <4>1. PICK q \in worn : q[2] = x /\ n = q[1]
        BY <3>1
      <4>2. PICK k \in days : q = <<k, theme(k)>>
        BY <4>1
      <4>. QED
        BY <4>1, <4>2
    <3>2. ASSUME n \in days, theme(n) = x PROVE n \in season(x)
      <4>1. <<n, theme(n)>> \in worn
        BY <3>2
      <4>2. <<n, theme(n)>>[1] = n /\ <<n, theme(n)>>[2] = x
        BY <3>2
      <4>. HIDE DEF worn
      <4>. QED
        BY <4>1, <4>2
    <3>. QED
      BY <3>1, <3>2
  <2>. HIDE DEF season
  <2>. QED
    BY <2>1
<1>. HIDE DEF p, l, e, t, f, W
<1>5. \A k \in 1..(365 + l) :
          /\ W(k) = "remembrance-day" <=> k \in (315 + l)..(315 + l)
          /\ W(k) = "halloween" <=> k \in (298 + l)..(305 + l)
          /\ W(k) = "thanksgiving" <=> k \in (t - 2)..t
          /\ W(k) = "canada-day" <=> k \in (181 + l)..(183 + l)
          /\ W(k) = "fete-nationale" <=> r = "ca-qc" /\ k \in (174 + l)..(175 + l)
          /\ W(k) = "family-day" <=> r \in FamilyDayRegions /\ k \in (f - 2)..f
          /\ W(k) = "easter" <=> k \in (e - 2)..(e + 1)
          /\ k \in {1, 365 + l} => W(k) = "new-year"
          /\ k = 359 + l => W(k) = "christmas"
  <2>1. /\ l \in 0..1
        /\ e \in (81 + l)..(115 + l) /\ t \in (281 + l)..(287 + l) /\ f \in 46..52
    BY <1>1
  <2>2. \A k : k \in 1..(365 + l) => Seasons(k, l, e, t, f, r)
    BY <2>1, WornIs
  <2>. QED
    BY <2>2 DEF W, Seasons
<1>6. \A n : n \in days <=> n \in Int /\ n - p \in 1..(365 + l)
  BY <1>1, <1>3
<1>. DEFINE On(h) == h[1] \in days /\ W(h[1] - p) = h[2] /\ h = <<h[1], h[2]>>
<1>7. \A h : On(h) => h \in worn
  BY <1>2
<1>8. ASSUME NEW k \in 1..(365 + l), NEW x, W(k) = x PROVE On(<<p + k, x>>)
  BY <1>1, <1>6, <1>8
<1>. DEFINE Fixed == {<<p + 1, "new-year">>, <<p + 365 + l, "new-year">>,
                      <<p + 359 + l, "christmas">>, <<p + 315 + l, "remembrance-day">>,
                      <<p + 304 + l, "halloween">>, <<p + t, "thanksgiving">>,
                      <<p + 182 + l, "canada-day">>}
            Paschal == {<<n, "easter">> : n \in (p + e - 2)..(p + e + 1)}
            Quebec == IF r = "ca-qc" THEN {<<p + 175 + l, "fete-nationale">>} ELSE {}
            Family == IF r \in FamilyDayRegions THEN {<<p + f, "family-day">>} ELSE {}
<1>9. kept = Fixed \cup Paschal \cup Quebec \cup Family
  <2>1. Date(y, 1, 1) = p + 1
    BY DateIs DEF p
  <2>2. Date(y, 12, 31) = p + 365 + l
    <3>1. Date(y, 12, 31) = p + 334 + l + 31
      BY DateIs DEF p, l
    <3>. QED
      BY <1>1, <3>1
  <2>3. Date(y, 12, 25) = p + 359 + l
    <3>1. Date(y, 12, 25) = p + 334 + l + 25
      BY DateIs DEF p, l
    <3>. QED
      BY <1>1, <3>1
  <2>4. Date(y, 11, 11) = p + 315 + l
    <3>1. Date(y, 11, 11) = p + 304 + l + 11
      BY DateIs DEF p, l
    <3>. QED
      BY <1>1, <3>1
  <2>5. Date(y, 10, 31) = p + 304 + l
    <3>1. Date(y, 10, 31) = p + 273 + l + 31
      BY DateIs DEF p, l
    <3>. QED
      BY <1>1, <3>1
  <2>6. Date(y, 7, 1) = p + 182 + l
    <3>1. Date(y, 7, 1) = p + 181 + l + 1
      BY DateIs DEF p, l
    <3>. QED
      BY <1>1, <3>1
  <2>7. Date(y, 6, 24) = p + 175 + l
    <3>1. Date(y, 6, 24) = p + 151 + l + 24
      BY DateIs DEF p, l
    <3>. QED
      BY <1>1, <3>1
  <2>. QED
    BY <1>1, <2>1, <2>2, <2>3, <2>4, <2>5, <2>6, <2>7 DEF Holidays
<1>10. \A h \in kept : On(h)
  <2>1. ASSUME NEW h \in Fixed PROVE On(h)
    <3>. HIDE DEF On
    <3>1. /\ W(1) = "new-year" /\ W(365 + l) = "new-year" /\ W(359 + l) = "christmas"
          /\ W(315 + l) = "remembrance-day" /\ W(304 + l) = "halloween"
          /\ W(t) = "thanksgiving" /\ W(182 + l) = "canada-day"
      BY <1>1, <1>5
    <3>2. /\ 1 \in 1..(365 + l) /\ 365 + l \in 1..(365 + l) /\ 359 + l \in 1..(365 + l)
          /\ 315 + l \in 1..(365 + l) /\ 304 + l \in 1..(365 + l) /\ t \in 1..(365 + l)
          /\ 182 + l \in 1..(365 + l)
      BY <1>1
    <3>3. /\ On(<<p + 1, "new-year">>) /\ On(<<p + (365 + l), "new-year">>)
          /\ On(<<p + (359 + l), "christmas">>) /\ On(<<p + (315 + l), "remembrance-day">>)
          /\ On(<<p + (304 + l), "halloween">>) /\ On(<<p + t, "thanksgiving">>)
          /\ On(<<p + (182 + l), "canada-day">>)
      BY <1>8, <3>1, <3>2
    <3>4. /\ p + (365 + l) = p + 365 + l /\ p + (359 + l) = p + 359 + l /\ p + (315 + l) = p + 315 + l
          /\ p + (304 + l) = p + 304 + l /\ p + (182 + l) = p + 182 + l
      BY <1>1
    <3>. QED
      BY <3>3, <3>4
  <2>2. ASSUME NEW h \in Paschal PROVE On(h)
    <3>1. PICK n \in (p + e - 2)..(p + e + 1) : h = <<n, "easter">>
      OBVIOUS
    <3>. DEFINE k == n - p
    <3>2. k \in (e - 2)..(e + 1) /\ k \in 1..(365 + l) /\ n = p + k
      BY <1>1
    <3>. HIDE DEF k, On
    <3>3. W(k) = "easter"
      BY <1>5, <3>2
    <3>4. On(<<p + k, "easter">>)
      BY <1>8, <3>2, <3>3
    <3>. QED
      BY <3>1, <3>2, <3>4
  <2>3. ASSUME NEW h \in Quebec PROVE On(h)
    <3>1. r = "ca-qc" /\ h = <<p + 175 + l, "fete-nationale">>
      OBVIOUS
    <3>. DEFINE k == 175 + l
    <3>2. k \in (174 + l)..(175 + l) /\ k \in 1..(365 + l) /\ p + 175 + l = p + k
      BY <1>1
    <3>. HIDE DEF k, On
    <3>3. W(k) = "fete-nationale"
      BY <1>5, <3>1, <3>2
    <3>4. On(<<p + k, "fete-nationale">>)
      BY <1>8, <3>2, <3>3
    <3>. QED
      BY <3>1, <3>2, <3>4
  <2>4. ASSUME NEW h \in Family PROVE On(h)
    <3>1. r \in FamilyDayRegions /\ h = <<p + f, "family-day">>
      OBVIOUS
    <3>2. f \in (f - 2)..f /\ f \in 1..(365 + l)
      BY <1>1
    <3>. HIDE DEF On
    <3>3. W(f) = "family-day"
      BY <1>5, <3>1, <3>2
    <3>4. On(<<p + f, "family-day">>)
      BY <1>8, <3>2, <3>3
    <3>. QED
      BY <3>1, <3>4
  <2>. HIDE DEF On, Fixed, Paschal, Quebec, Family
  <2>. QED
    BY <1>9, <2>1, <2>2, <2>3, <2>4
<1>11. kept \subseteq worn
  <2>. HIDE DEF On, kept, worn
  <2>. QED
    BY <1>7, <1>10
<1>12. ASSUME NEW x \in Named, NEW n \in season(x), NEW k \in season(x)
       PROVE  n..k \subseteq season(x)
  <2>1. n \in days /\ k \in days /\ W(n - p) = x /\ W(k - p) = x
    BY <1>2, <1>4
  <2>2. ASSUME NEW i \in n..k PROVE i \in days /\ W(i - p) = x
    <3>. DEFINE a == n - p
                b == k - p
                c == i - p
    <3>1. a \in 1..(365 + l) /\ b \in 1..(365 + l) /\ c \in a..b /\ c \in 1..(365 + l) /\ i \in Int
      BY <1>1, <1>6, <2>1
    <3>2. W(a) = x /\ W(b) = x
      BY <2>1
    <3>3. x \in {"halloween", "easter", "remembrance-day", "canada-day", "fete-nationale",
                 "thanksgiving", "family-day"}
      BY DEF GalaxyTheme
    <3>. HIDE DEF a, b, c
    <3>4. W(c) = x
      <4>1. CASE x = "halloween"
        BY <1>1, <1>5, <3>1, <3>2, <4>1
      <4>2. CASE x = "easter"
        BY <1>1, <1>5, <3>1, <3>2, <4>2
      <4>3. CASE x = "remembrance-day"
        BY <1>1, <1>5, <3>1, <3>2, <4>3
      <4>4. CASE x = "canada-day"
        BY <1>1, <1>5, <3>1, <3>2, <4>4
      <4>5. CASE x = "fete-nationale"
        BY <1>1, <1>5, <3>1, <3>2, <4>5
      <4>6. CASE x = "thanksgiving"
        BY <1>1, <1>5, <3>1, <3>2, <4>6
      <4>7. CASE x = "family-day"
        BY <1>1, <1>5, <3>1, <3>2, <4>7
      <4>. QED
        BY <3>3, <4>1, <4>2, <4>3, <4>4, <4>5, <4>6, <4>7
    <3>5. i \in days
      BY <1>6, <3>1 DEF c
    <3>. QED
      BY <3>4, <3>5 DEF c
  <2>3. \A i \in n..k : i \in season(x)
    <3>. HIDE DEF season
    <3>. QED
      BY <1>2, <1>4, <2>2
  <2>. QED
    BY <2>3
<1>13. ASSUME NEW x \in Named, season(x) # {}
       PROVE  \E h \in kept : h[2] = x
  <2>1. x \in {"halloween", "easter", "remembrance-day", "canada-day", "fete-nationale",
               "thanksgiving", "family-day"}
    BY DEF GalaxyTheme
  <2>2. CASE x \in {"halloween", "remembrance-day", "canada-day", "thanksgiving"}
    <3>1. \E h \in Fixed : h[2] = x
      BY <2>2
    <3>. HIDE DEF Fixed, Paschal, Quebec, Family, kept
    <3>. QED
      BY <1>9, <3>1
  <2>3. CASE x = "easter"
    <3>1. <<p + e, "easter">> \in Paschal
      BY <1>1
    <3>. HIDE DEF Fixed, Paschal, Quebec, Family, kept
    <3>. QED
      BY <1>9, <2>3, <3>1
  <2>4. CASE x \in {"fete-nationale", "family-day"}
    <3>1. PICK n \in days : W(n - p) = x
      BY <1>2, <1>4, <1>13
    <3>2. n - p \in 1..(365 + l)
      BY <1>6
    <3>3. (x = "fete-nationale" => r = "ca-qc") /\ (x = "family-day" => r \in FamilyDayRegions)
      BY <1>5, <3>1, <3>2
    <3>4. \E h \in Quebec \cup Family : h[2] = x
      <4>1. CASE x = "fete-nationale"
        <5>1. <<p + 175 + l, "fete-nationale">> \in Quebec
          BY <3>3, <4>1
        <5>. HIDE DEF Quebec, Family
        <5>. QED
          BY <4>1, <5>1
      <4>2. CASE x = "family-day"
        <5>1. <<p + f, "family-day">> \in Family
          BY <3>3, <4>2
        <5>. HIDE DEF Quebec, Family
        <5>. QED
          BY <4>2, <5>1
      <4>. QED
        BY <2>4, <4>1, <4>2
    <3>. HIDE DEF Fixed, Paschal, Quebec, Family, kept
    <3>. QED
      BY <1>9, <3>4
  <2>. QED
    BY <2>1, <2>2, <2>3, <2>4
<1>14. \A x, candidate \in GalaxyTheme :
          /\ Effective(candidate, GalaxyTheme \ {x}) \in (GalaxyTheme \ {x}) \cup {"default"}
          /\ candidate # x => Effective(candidate, GalaxyTheme \ {x}) = candidate
  BY DEF Effective, Enabled
<1>15. SeasonIsRight <=>
          /\ kept \subseteq worn
          /\ \A x \in Named :
                /\ season(x) # {} => \E h \in kept : h[2] = x
                /\ \A n, k \in season(x) : n..k \subseteq season(x)
          /\ \A x, candidate \in GalaxyTheme :
                /\ Effective(candidate, GalaxyTheme \ {x}) \in (GalaxyTheme \ {x}) \cup {"default"}
                /\ candidate # x => Effective(candidate, GalaxyTheme \ {x}) = candidate
  BY Zenon DEF SeasonIsRight, theme, days
<1>. HIDE DEF kept, worn, season, Named
<1>. QED
  BY <1>11, <1>12, <1>13, <1>14, <1>15

\* The clock reads a year of the common era and the operator has chosen a region of
\* Canada: all that the calendar needs to be right.
CalendarInv == year \in Nat \ {0} /\ region \in CanadianRegion

\* The year only grows and the region stays one of those on offer.
LEMMA CalendarInvHolds == CalendarSpec => []CalendarInv
<1>. USE CalendarAssumption DEF CalendarInv
<1>1. CalendarInit => CalendarInv
  BY DEF CalendarInit
<1>2. CalendarInv /\ [CalendarNext]_calendarVars => CalendarInv'
  <2>. SUFFICES ASSUME CalendarInv, [CalendarNext]_calendarVars PROVE CalendarInv'
    OBVIOUS
  <2>1. CASE NewYear
    BY <2>1 DEF NewYear
  <2>2. ASSUME NEW r \in Region, SetRegion(r) PROVE CalendarInv'
    BY <2>2 DEF SetRegion
  <2>3. CASE UNCHANGED calendarVars
    BY <2>3 DEF calendarVars
  <2>. QED
    BY <2>1, <2>2, <2>3 DEF CalendarNext
<1>. QED
  BY <1>1, <1>2, PTL DEF CalendarSpec

\* easter_sunday's arithmetic gives the church's Easter in every year of the common
\* era: the Sunday after the full moon of the golden number and the epact.
THEOREM EasterIsTheChurchs ==
  ASSUME NEW y \in Nat \ {0}
  PROVE  easter_sunday(y) = Easter(y)
BY EasterIs

\* Whatever year the clock starts in and however far it runs, in every region: each
\* holiday the region keeps is worn on its own day by resolve(), a season is one run
\* of days about its holiday, and a disabled theme is worn never.
THEOREM SeasonIsAlwaysRight == CalendarSpec => []SeasonIsRight
<1>1. CalendarInv => SeasonIsRight
  BY SeasonsAreRight DEF CalendarInv
<1>. QED
  BY <1>1, CalendarInvHolds, PTL

\* The calendar runs beside the tablets, the cooldown and the folder, none of which
\* moves it.
THEOREM CalendarStaysRight == Spec => []CalendarIsRight
<1>1. Spec => CalendarSpec
  <2>1. Init => CalendarInit
    BY DEF Init
  <2>2. [Next]_vars => [CalendarNext]_calendarVars
    <3>. SUFFICES ASSUME [Next]_vars PROVE CalendarNext \/ UNCHANGED calendarVars
      OBVIOUS
    <3>1. CASE Session(SessionNext)
      BY <3>1 DEF Session
    <3>2. CASE Cooling(LimiterNext)
      BY <3>2 DEF Cooling
    <3>3. CASE Planets(ListNext)
      BY <3>3 DEF Planets
    <3>4. CASE Look(LookNext)
      BY <3>4 DEF Look
    <3>5. CASE Calendar(CalendarNext)
      BY <3>5 DEF Calendar
    <3>6. CASE Folder(StoreNext)
      BY <3>6 DEF Folder
    <3>7. CASE UNCHANGED vars
      BY <3>7 DEF vars
    <3>. QED
      BY <3>1, <3>2, <3>3, <3>4, <3>5, <3>6, <3>7 DEF Next
  <2>. QED
    BY <2>1, <2>2, PTL DEF Spec, CalendarSpec
<1>2. SeasonIsRight => CalendarIsRight
  BY DEF CalendarIsRight
<1>. QED
  BY <1>1, <1>2, SeasonIsAlwaysRight, PTL

==============================================================================
