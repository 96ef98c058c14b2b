----------------------------- MODULE RateLimiter -----------------------------
(***************************************************************************)
(* The upload cooldown (InMemoryRateLimiter), as SubmitPlanet uses it:     *)
(* check before the work, record after it, and nothing of another request  *)
(* between the two.  The limiter reads the wall clock, which may be set    *)
(* forward or back while the server runs; time is what really passed.      *)
(***************************************************************************)
EXTENDS Integers, FiniteSets, Functions

CONSTANTS
    Client,         \* client keys
    Cooldown,       \* seconds, in ticks
    MaxEntries,     \* the ceiling on tracked clients
    MaxTime,        \* bound: ticks in a behaviour
    MaxDrift        \* bound: ticks by which the clock is set forward, and back

ASSUME ConstantsAssumption ==
    /\ Cooldown \in Nat
    /\ MaxEntries \in Nat
    /\ MaxTime \in Nat
    /\ MaxDrift \in Nat

VARIABLES
    time,           \* what really passed since the server started
    forward,        \* the ticks the clock was set forward, in all
    back,           \* the ticks the clock was set back, in all
    lastUpload,     \* _last_upload: a clock reading per tracked client
    accepted,       \* history: when each client's last upload was really accepted
    forgotten       \* history: clients dropped from a full map within their cooldown

limiterVars == <<time, forward, back, lastUpload, accepted, forgotten>>

now == time + forward - back

TypeOK ==
    /\ time \in 0..MaxTime
    /\ forward \in 0..MaxDrift /\ back \in 0..MaxDrift
    /\ DOMAIN lastUpload \subseteq DOMAIN accepted
    /\ DOMAIN accepted \subseteq Client
    /\ lastUpload \in [DOMAIN lastUpload -> Int]
    /\ accepted \in [DOMAIN accepted -> 0..time]
    /\ forgotten \subseteq DOMAIN accepted

LimiterInit ==
    /\ time = 0 /\ forward = 0 /\ back = 0
    /\ lastUpload = << >> /\ accepted = << >>
    /\ forgotten = {}
------------------------------------------------------------------------------
\* Mutant: the cooldown's last instant still refuses.
RefusedInclusive(c) == c \in DOMAIN lastUpload /\ now - lastUpload[c] <= Cooldown

\* check(key) raises.
Refused(c) == c \in DOMAIN lastUpload /\ now - lastUpload[c] < Cooldown

Put(f, c, t) == [d \in DOMAIN f \cup {c} |-> IF d = c THEN t ELSE f[d]]

\* The entries that sorted() may put first, n of them: as new as any left out.
\* Which of several with the same reading it is depends on their order of entry.
NewestEntries(f, n) ==
    {K \in SUBSET DOMAIN f :
        /\ Cardinality(K) = n
        /\ \A k \in K, d \in DOMAIN f \ K : f[k] >= f[d]}

\* Mutant: a cutoff one tick late.
KeptLate(f) ==
    LET active == {c \in DOMAIN f : f[c] > now - Cooldown + 1} IN
    IF Cardinality(DOMAIN f) <= MaxEntries THEN {DOMAIN f}
    ELSE IF Cardinality(active) <= MaxEntries THEN {active}
    ELSE NewestEntries(Restrict(f, active), MaxEntries)

\* The entries _evict_stale may leave.
Kept(f) ==
    LET active == {c \in DOMAIN f : f[c] > now - Cooldown} IN
    IF Cardinality(DOMAIN f) <= MaxEntries THEN {DOMAIN f}
    ELSE IF Cardinality(active) <= MaxEntries THEN {active}
    ELSE NewestEntries(Restrict(f, active), MaxEntries)

\* An upload goes through: check passed, every validation too, and record ran.
Accept(c) ==
    LET entries == Put(lastUpload, c, now) IN
    /\ ~Refused(c)
    /\ accepted' = Put(accepted, c, time)
    /\ \E K \in Kept(entries) :
          /\ lastUpload' = Restrict(entries, K)
          /\ forgotten' = (forgotten \ {c}) \cup
                {d \in DOMAIN entries \ K : Cardinality(K) = MaxEntries
                                            /\ now - entries[d] < Cooldown}
    /\ UNCHANGED <<time, forward, back>>

Tick ==
    /\ time < MaxTime
    /\ time' = time + 1
    /\ UNCHANGED <<forward, back, lastUpload, accepted, forgotten>>

SetForward ==
    /\ forward < MaxDrift
    /\ forward' = forward + 1
    /\ UNCHANGED <<time, back, lastUpload, accepted, forgotten>>

SetBack ==
    /\ back < MaxDrift
    /\ back' = back + 1
    /\ UNCHANGED <<time, forward, lastUpload, accepted, forgotten>>

LimiterNext == Tick \/ SetForward \/ SetBack \/ \E c \in Client : Accept(c)

LimiterSpec == LimiterInit /\ [][LimiterNext]_limiterVars
------------------------------------------------------------------------------
\* The map never tracks more clients than its ceiling once record is over.
MapBounded == Cardinality(DOMAIN lastUpload) <= MaxEntries

\* A client is refused for the whole of its cooldown, unless its entry was
\* dropped for want of room.  Only a clock that was set forward shortens it.
CooldownHolds ==
    \A c \in DOMAIN accepted \ forgotten :
        time - accepted[c] + forward < Cooldown => Refused(c)

\* No client is refused for longer than its cooldown and what the clock was set
\* back: an entry never locks a tablet out for good.
LockoutEnds ==
    \A c \in DOMAIN lastUpload : Refused(c) => time - accepted[c] < Cooldown + back

\* However the clock is set, the cooldown of a tracked tablet lasts as long as it
\* should, and locks no tablet out.
CooldownIsFair == CooldownHolds /\ LockoutEnds
==============================================================================
