--------------------------- MODULE WallPage_proof ----------------------------
(***************************************************************************)
(* The machines of the wall's page.  A planet's resources balance and its  *)
(* stages agree; the sky, and the words, are those of the last behaviour;  *)
(* shuttle fades and turns the short way; and the page is reloaded in no   *)
(* loop: whatever the drawings, themes, names, times, headings and builds, *)
(* and the numbers of events.                                              *)
(***************************************************************************)
EXTENDS PlanetEntity, GalaxySky, CelebrationEffect, ShuttlePointer, BuildWatcher,
        DataInduction, FiniteSetTheorems

(* The build watcher.                                                       *)

WatcherTyped ==
    /\ reloading \in BOOLEAN /\ stored \in BOOLEAN /\ toAsk \in BOOLEAN
    /\ server \in Build /\ answers \subseteq Build
    /\ guard \in [build : Build \cup {NoBuild}, age : 0..GuardTime]
    /\ since \in [Build -> 0..GuardTime]

\* A reload that was asked for since the update, not RELOAD_GUARD_MS ago.
Lately(b) == since[b] < GuardTime

\* Once a reload was carried out, what is on its way says what the server is.
AnswersAreNew ==
    ~reloading /\ (\E b \in Build : Lately(b)) => answers \subseteq {server}

\* A build the page was reloaded to lately is under guard, or nobody will hear of
\* it again before the next update: then the guard may go to another build.
LatelyIsGuarded ==
    stored => \A b \in Build : Lately(b) =>
        \/ guard.build = b /\ guard.age <= since[b]
        \/ b # server /\ b \notin answers

WatcherInv == WatcherTyped /\ AnswersAreNew /\ LatelyIsGuarded

\* The invariant holds of a page that was just opened.
LEMMA WatcherStarts == BuildInit => WatcherInv
  <1> SUFFICES ASSUME BuildInit
               PROVE  WatcherInv
    OBVIOUS
  <1>1. GuardTime \in 0..GuardTime
    BY BuildAssumption
  <1>2. Fresh \in [Build -> 0..GuardTime]
    BY <1>1 DEF Fresh
  <1>3. guard \in [build : Build \cup {NoBuild}, age : 0..GuardTime]
    BY <1>1 DEF BuildInit
  <1>4. WatcherTyped
    BY <1>2, <1>3 DEF BuildInit, WatcherTyped
  <1>5. \A b \in Build : ~Lately(b)
    BY BuildAssumption DEF BuildInit, Lately, Fresh
  <1> QED
    BY <1>4, <1>5 DEF WatcherInv, AnswersAreNew, LatelyIsGuarded

\* What is observed of a build the page was reloaded to lately changes nothing.
LEMMA LatelyIsQuiet ==
  ASSUME WatcherInv, NEW b \in Build, Observe(b), stored, Lately(b)
  PROVE  UNCHANGED <<guard, reloading, since>>
  <1>1. b \in answers
    BY DEF Observe
  <1>2. guard.build = b /\ guard.age <= since[b]
    BY <1>1 DEF WatcherInv, LatelyIsGuarded
  <1>3. guard.age \in 0..GuardTime /\ since[b] \in 0..GuardTime
    BY DEF WatcherInv, WatcherTyped
  <1>4. Guarded(b)
    BY <1>2, <1>3, BuildAssumption DEF Guarded, Lately
  <1> QED
    BY <1>4 DEF Observe

\* An observation preserves the invariant.
LEMMA ObserveKeeps ==
  ASSUME WatcherInv, NEW b \in Build, Observe(b)
  PROVE  WatcherInv'
  <1> USE DEF WatcherInv, WatcherTyped
  <1>0. /\ answers' = answers \ {b} /\ server' = server /\ stored' = stored
        /\ b \in answers /\ toAsk' = toAsk
    BY DEF Observe
  <1>1. CASE UNCHANGED <<guard, reloading, since>>
    <2>1. WatcherTyped'
      BY <1>0, <1>1
    <2>2. AnswersAreNew'
      BY <1>0, <1>1 DEF AnswersAreNew, Lately
    <2>3. LatelyIsGuarded'
      BY <1>0, <1>1 DEF LatelyIsGuarded, Lately
    <2> QED
      BY <2>1, <2>2, <2>3
  <1>2. CASE ~UNCHANGED <<guard, reloading, since>>
    <2>1. /\ ~reloading /\ reloading' = TRUE
          /\ since' = [since EXCEPT ![b] = 0]
          /\ guard' = IF stored THEN [build |-> b, age |-> 0] ELSE guard
      BY <1>2 DEF Observe
    <2>2. WatcherTyped'
      BY <1>0, <2>1, BuildAssumption
    <2>3. AnswersAreNew'
      BY <2>1 DEF AnswersAreNew
    <2>4. LatelyIsGuarded'
      <3> SUFFICES ASSUME stored', NEW c \in Build, Lately(c)'
                   PROVE  \/ guard'.build = c /\ guard'.age <= since'[c]
                          \/ c # server' /\ c \notin answers'
        BY DEF LatelyIsGuarded
      <3>1. CASE c = b
        BY <1>0, <2>1, <3>1
      <3>2. CASE c # b
        <4>1. since'[c] = since[c]
          BY <2>1, <3>2
        <4>2. Lately(c)
          BY <4>1 DEF Lately
        <4>3. answers \subseteq {server}
          BY <2>1, <4>2 DEF AnswersAreNew
        <4>4. server = b
          BY <1>0, <4>3
        <4> QED
          BY <1>0, <3>2, <4>3, <4>4
      <3> QED
        BY <3>1, <3>2
    <2> QED
      BY <2>2, <2>3, <2>4
  <1> QED
    BY <1>1, <1>2

\* Every step preserves the invariant.
LEMMA WatcherKeeps == WatcherInv /\ [BuildNext]_buildVars => WatcherInv'
  <1> SUFFICES ASSUME WatcherInv, [BuildNext]_buildVars
               PROVE  WatcherInv'
    OBVIOUS
  <1> USE DEF WatcherInv
  <1>1. CASE Ask
    <2>1. /\ answers' = answers \cup {server}
          /\ UNCHANGED <<server, reloading, guard, stored, since>> /\ toAsk' = FALSE
      BY <1>1 DEF Ask
    <2>2. WatcherTyped'
      BY <2>1 DEF WatcherTyped
    <2>3. AnswersAreNew' /\ LatelyIsGuarded'
      BY <2>1 DEF AnswersAreNew, LatelyIsGuarded, Lately
    <2> QED
      BY <2>2, <2>3
  <1>2. CASE AskFails
    BY <1>2 DEF AskFails, WatcherTyped, AnswersAreNew, LatelyIsGuarded, Lately
  <1>3. CASE BuildTick
    <2>1. /\ guard' = Old(guard)
          /\ since' = [b \in Build |-> IF since[b] < GuardTime THEN since[b] + 1 ELSE since[b]]
          /\ UNCHANGED <<server, reloading, stored, toAsk, answers>>
      BY <1>3 DEF BuildTick
    <2>2. /\ guard'.build = guard.build
          /\ guard'.age = IF guard.age < GuardTime THEN guard.age + 1 ELSE guard.age
          /\ guard' \in [build : Build \cup {NoBuild}, age : 0..GuardTime]
      BY <2>1, BuildAssumption DEF Old, WatcherTyped
    <2>3. WatcherTyped'
      BY <2>1, <2>2, BuildAssumption DEF WatcherTyped
    <2>4. \A b \in Build : Lately(b)' => Lately(b) /\ since'[b] = since[b] + 1
      BY <2>1, BuildAssumption DEF Lately, WatcherTyped
    <2>5. AnswersAreNew'
      BY <2>1, <2>4 DEF AnswersAreNew
    <2>6. LatelyIsGuarded'
      <3> SUFFICES ASSUME stored', NEW c \in Build, Lately(c)'
                   PROVE  \/ guard'.build = c /\ guard'.age <= since'[c]
                          \/ c # server' /\ c \notin answers'
        BY DEF LatelyIsGuarded
      <3>1. Lately(c) /\ since'[c] = since[c] + 1
        BY <2>4
      <3>2. \/ guard.build = c /\ guard.age <= since[c]
            \/ c # server /\ c \notin answers
        BY <2>1, <3>1 DEF LatelyIsGuarded
      <3>3. guard.age \in 0..GuardTime /\ since[c] \in 0..GuardTime
        BY DEF WatcherTyped
      <3> QED
        BY <2>1, <2>2, <3>1, <3>2, <3>3, BuildAssumption
    <2> QED
      BY <2>3, <2>5, <2>6
  <1>4. ASSUME NEW b \in Build, Update(b)
        PROVE  WatcherInv'
    <2>1. /\ server' = b /\ since' = Fresh /\ toAsk' = TRUE
          /\ UNCHANGED <<reloading, guard, stored, answers>>
      BY <1>4 DEF Update
    <2>2. \A c \in Build : ~Lately(c)'
      BY <2>1, BuildAssumption DEF Lately, Fresh
    <2>3. WatcherTyped'
      BY <2>1, BuildAssumption DEF WatcherTyped, Fresh
    <2> QED
      BY <2>2, <2>3 DEF AnswersAreNew, LatelyIsGuarded
  <1>5. ASSUME NEW b \in Build, Observe(b)
        PROVE  WatcherInv'
    BY <1>5, ObserveKeeps
  <1>6. ASSUME NEW b \in Build, Reload(b)
        PROVE  WatcherInv'
    BY <1>6 DEF Reload, WatcherTyped, AnswersAreNew, LatelyIsGuarded, Lately
  <1>7. CASE UNCHANGED buildVars
    BY <1>7 DEF buildVars, WatcherTyped, AnswersAreNew, LatelyIsGuarded, Lately
  <1> QED
    BY <1>1, <1>2, <1>3, <1>4, <1>5, <1>6, <1>7 DEF BuildNext

\* Where the browser keeps the guard, the page is reloaded to the build the server
\* serves at most once in RELOAD_GUARD_MS: observe, for all builds and all orders
\* of updates, late answers and pages that come back old.
THEOREM ReloadsAreApart == BuildSpec => NoReloadLoop
  <1>1. ASSUME WatcherInv, [BuildNext]_buildVars
        PROVE  [~reloading /\ reloading' /\ stored => since[guard'.build] = GuardTime]_buildVars
    <2> SUFFICES ASSUME ~reloading, reloading', stored
                 PROVE  since[guard'.build] = GuardTime
      OBVIOUS
    <2>1. PICK b \in Build : Observe(b)
      BY <1>1 DEF BuildNext, Ask, AskFails, BuildTick, Update, Reload, buildVars
    <2>2. guard'.build = b
      <3>1. guard' = IF stored THEN [build |-> b, age |-> 0] ELSE guard
        BY <2>1 DEF Observe
      <3> QED
        BY <3>1
    <2>3. ~Lately(b)
      BY <1>1, <2>1, LatelyIsQuiet
    <2> QED
      BY <1>1, <2>2, <2>3, BuildAssumption DEF Lately, WatcherInv, WatcherTyped
  <1> QED
    BY <1>1, WatcherStarts, WatcherKeeps, PTL DEF BuildSpec, NoReloadLoop

------------------------------------------------------------------------------
(* The shuttle pointer.                                                     *)

\* A timer that is set has time left.
Timers ==
    /\ idleTimer \in {NoAlarm} \cup 1..IdleTime
    /\ thrustTimer \in {NoAlarm} \cup 1..ThrustTime

\* The engine never outlives the idle timer, which each move sets anew.
FlameEndsFirst == thrustTimer # NoAlarm => idleTimer # NoAlarm /\ thrustTimer <= idleTimer

Flags ==
    /\ visible \in BOOLEAN /\ thrusting \in BOOLEAN
    /\ visible <=> idleTimer # NoAlarm
    /\ thrusting <=> thrustTimer # NoAlarm

Counts == moves \in 0..MaxMoves /\ heading \in Int

PointerInv == Timers /\ FlameEndsFirst /\ Flags /\ Counts

\* JavaScript's remainder by 360 stays on its side of a full turn.
LEMMA RemIsSmall ==
  ASSUME NEW a \in Int
  PROVE  Rem(a, 360) \in -359..359
  <1>1. CASE a >= 0
    BY <1>1, SMT DEF Rem
  <1>2. CASE ~(a >= 0)
    <2>1. -a \in Nat
      BY <1>2
    <2>2. (-a) % 360 \in 0..359
      BY <2>1, SMT
    <2> QED
      BY <1>2, <2>2 DEF Rem
  <1> QED
    BY <1>1, <1>2

\* The way to turn is at most half a turn, whatever the heading was.
LEMMA DeltaIsShort ==
  ASSUME NEW c \in Int, NEW t \in Int
  PROVE  Delta(c, t) \in -180..179
  <1> DEFINE r == Rem(t - c, 360)
  <1>1. r \in -359..359
    <2>1. t - c \in Int
      OBVIOUS
    <2> QED
      BY <2>1, RemIsSmall
  <1>2. r + 540 \in Nat
    BY <1>1
  <1> HIDE DEF r
  <1>3. Rem(r + 540, 360) \in 0..359
    BY <1>2, SMT DEF Rem
  <1>4. Delta(c, t) = Rem(r + 540, 360) - 180
    BY DEF Delta, r
  <1> QED
    BY <1>3, <1>4

\* Of which 0.35 is turned.
LEMMA TurnIsShort ==
  ASSUME NEW c \in Int, NEW t \in Int
  PROVE  /\ TurnToward(c, t) \in Int
         /\ TurnToward(c, t) - c \in -63..63
  <1> DEFINE d == 7 * Delta(c, t)
             e == IF d >= 0 THEN d \div 20 ELSE -((-d) \div 20)
  <1>1. d \in -1260..1253
    <2> DEFINE delta == Delta(c, t)
    <2>1. delta \in -180..179
      BY DeltaIsShort
    <2> HIDE DEF delta
    <2>2. 7 * delta \in -1260..1253
      BY <2>1, SMT
    <2> QED
      BY <2>2 DEF delta
  <1>2. TurnToward(c, t) = c + e
    BY DEF TurnToward
  <1> HIDE DEF d
  <1>3. e \in -63..63
    <2>1. CASE d >= 0
      BY <1>1, <2>1, SMT
    <2>2. CASE ~(d >= 0)
      <3>1. -d \in 1..1260
        BY <1>1, <2>2
      <3>2. (-d) \div 20 \in 0..63
        BY <3>1, SMT
      <3> QED
        BY <2>2, <3>2
    <2> QED
      BY <2>1, <2>2
  <1> HIDE DEF e
  <1> QED
    BY <1>2, <1>3

LEMMA PointerStarts == ShuttleInit => PointerInv
  <1> SUFFICES ASSUME ShuttleInit
               PROVE  PointerInv
    OBVIOUS
  <1>1. Flags
    BY Zenon DEF ShuttleInit, Flags
  <1>2. Counts
    BY ShuttleAssumption DEF ShuttleInit, Counts, RestingHeading
  <1> QED
    BY <1>1, <1>2 DEF ShuttleInit, PointerInv, Timers, FlameEndsFirst

\* A move sets the idle timer, and perhaps the engine's, which is no longer.
LEMMA MoveKeeps ==
  ASSUME PointerInv, NEW h \in Heading, NEW far \in BOOLEAN, Move(h, far)
  PROVE  PointerInv'
  <1> USE DEF PointerInv, NoAlarm
  <1>1. /\ moves < MaxMoves /\ moves' = moves + 1
        /\ visible' = TRUE /\ idleTimer' = IdleTime
    BY DEF Move
  <1>2. /\ ThrustTime \in 1..IdleTime /\ IdleTime \in Nat \ {0} /\ MaxMoves \in Nat
        /\ h \in Int
    BY ShuttleAssumption
  <1>3. CASE hasPosition /\ far
    <2>1. /\ heading' = TurnToward(heading, h)
          /\ thrusting' = TRUE /\ thrustTimer' = ThrustTime
      BY <1>3 DEF Move
    <2>2. Counts'
      BY <1>1, <1>2, <2>1, TurnIsShort DEF Counts
    <2>3. Timers' /\ FlameEndsFirst' /\ Flags'
      BY <1>1, <1>2, <2>1 DEF Timers, FlameEndsFirst, Flags
    <2> QED
      BY <2>2, <2>3
  <1>4. CASE ~(hasPosition /\ far)
    <2>1. UNCHANGED <<heading, thrusting, thrustTimer>>
      BY <1>4 DEF Move
    <2> QED
      BY <1>1, <1>2, <2>1 DEF Timers, FlameEndsFirst, Flags, Counts
  <1> QED
    BY <1>3, <1>4

\* Time passes: hide ends the engine with the shuttle.
LEMMA TickKeeps ==
  ASSUME PointerInv, ShuttleTick
  PROVE  PointerInv'
  <1> USE DEF PointerInv, NoAlarm
  <1>0. UNCHANGED <<heading, moves>>
    BY DEF ShuttleTick
  <1>1. CASE idleTimer = 1
    BY <1>0, <1>1 DEF ShuttleTick, Hide, Timers, FlameEndsFirst, Flags, Counts
  <1>2. CASE idleTimer # 1
    <2>1. /\ idleTimer' = IF idleTimer = NoAlarm THEN NoAlarm ELSE idleTimer - 1
          /\ thrustTimer' = IF thrustTimer \in {NoAlarm, 1} THEN NoAlarm ELSE thrustTimer - 1
          /\ thrusting' = (thrusting /\ thrustTimer # 1)
          /\ visible' = visible
      BY <1>2 DEF ShuttleTick
    <2>2. Timers'
      BY <1>2, <2>1, ShuttleAssumption DEF Timers
    <2>3. FlameEndsFirst'
      BY <1>2, <2>1, ShuttleAssumption DEF Timers, FlameEndsFirst
    <2>4. idleTimer' = NoAlarm <=> idleTimer = NoAlarm
      BY <1>2, <2>1 DEF Timers
    <2>5. thrustTimer' = NoAlarm <=> thrustTimer = NoAlarm \/ thrustTimer = 1
      BY <2>1 DEF Timers
    <2>6. Flags'
      BY <2>1, <2>4, <2>5 DEF Flags
    <2> QED
      BY <1>0, <2>2, <2>3, <2>6 DEF Counts
  <1> QED
    BY <1>1, <1>2

\* Every step preserves the invariant.
LEMMA PointerKeeps == PointerInv /\ [ShuttleNext]_shuttleVars => PointerInv'
  <1> SUFFICES ASSUME PointerInv, [ShuttleNext]_shuttleVars
               PROVE  PointerInv'
    OBVIOUS
  <1>1. CASE Leave
    <2>1. /\ visible' = FALSE /\ thrusting' = FALSE /\ heading' = heading
          /\ idleTimer' = NoAlarm /\ thrustTimer' = NoAlarm
          /\ moves < MaxMoves /\ moves' = moves + 1
      BY <1>1 DEF Leave, Hide
    <2>2. Flags'
      BY <2>1, Zenon DEF Flags
    <2>3. Counts'
      BY <2>1, ShuttleAssumption DEF PointerInv, Counts
    <2> QED
      BY <2>1, <2>2, <2>3 DEF PointerInv, Timers, FlameEndsFirst
  <1>2. CASE ShuttleTick
    BY <1>2, TickKeeps
  <1>3. ASSUME NEW h \in Heading, NEW far \in BOOLEAN, Move(h, far)
        PROVE  PointerInv'
    BY <1>3, MoveKeeps
  <1>4. CASE UNCHANGED shuttleVars
    BY <1>4 DEF shuttleVars, PointerInv, Timers, FlameEndsFirst, Flags, Counts
  <1> QED
    BY <1>1, <1>2, <1>3, <1>4 DEF ShuttleNext

\* No shuttle is stuck on the wall and no engine burns on a hidden one: move, hide
\* and their timers, for all times and moves.
THEOREM ShuttleAlwaysFades == ShuttleSpec => []ShuttleFades
  <1>1. PointerInv => ShuttleFades
    BY DEF PointerInv, Flags, Counts, FlameEndsFirst, ShuttleFades
  <1> QED
    BY <1>1, PointerStarts, PointerKeeps, PTL DEF ShuttleSpec

\* turnToward turns by at most 0.35 of half a turn, from headings that have left
\* -180..180 too: for all moves.
THEOREM ShuttleTurnsShort == ShuttleSpec => TurnsShortWay
  <1>1. ASSUME PointerInv, [ShuttleNext]_shuttleVars
        PROVE  [heading' - heading \in -63..63]_shuttleVars
    <2>1. heading \in Int
      BY <1>1 DEF PointerInv, Counts
    <2>2. CASE heading' = heading
      BY <2>1, <2>2
    <2>3. CASE heading' # heading
      <3>1. PICK h \in Heading, far \in BOOLEAN : Move(h, far)
        BY <1>1, <2>3 DEF ShuttleNext, Leave, ShuttleTick, shuttleVars
      <3>2. heading' = TurnToward(heading, h)
        BY <2>3, <3>1 DEF Move
      <3>3. h \in Int
        BY ShuttleAssumption
      <3> QED
        BY <2>1, <3>2, <3>3, TurnIsShort
    <2> QED
      BY <2>2, <2>3
  <1> QED
    BY <1>1, PointerStarts, PointerKeeps, PTL DEF ShuttleSpec, TurnsShortWay
------------------------------------------------------------------------------
(* The words.                                                               *)

\* What is written in the title and on the card.
Text == [what : Name \cup {"null", "newPlanet", "waiting"}, lang : Languages \cup {NoLanguage}]

\* The variables' types, and that one timer at most is to hide the card.
WordsTyped ==
    /\ language \in Languages /\ chrome \in Languages /\ theme \in WordTheme
    /\ state \in {"waiting", "planet", "texture-failed"}
    /\ lastName \in Text
    /\ title \in [text : Text, celebrate : BOOLEAN]
    /\ status \in [what : {"drawHint", "textureFailed"}, lang : Languages]
    /\ card \in [shown : BOOLEAN, of : Text, lang : Languages, orphan : BOOLEAN]
    /\ timers \subseteq 1..CardTime
    /\ \A n, m \in timers : n = m
    /\ sparkles \subseteq [theme : WordTheme, left : 1..SparkleTime]
    /\ galleryReady \in BOOLEAN

\* A card is about the last name, unless the galaxy was cleared under it.
CardIsNamed == card.shown /\ ~card.orphan => lastName # NoName

\* A name is in no language, and the words for a planet without one stay as they are.
Lasts(text) == text.lang = NoLanguage \/ text.what = "newPlanet"

\* What is called a planet is a name, and so is what a card is about.
NamesLast ==
    /\ Lasts(lastName) /\ Lasts(card.of)
    /\ state = "planet" => lastName # NoName

\* A card is shown as long as its timer runs.
CardIsTimed == card.shown <=> timers # {}

\* What WordsAreInStep needs to be inductive.
WordsInv ==
    /\ WordsTyped /\ CardIsTimed /\ CardIsNamed /\ NamesLast
    /\ QuietThemesAreQuiet /\ OneLanguage /\ NameIsLast

\* The page starts with the words of waiting.
LEMMA WordsStart == WordsInit => WordsInv
<1>. SUFFICES ASSUME WordsInit PROVE WordsInv
  OBVIOUS
<1>. USE DEF WordsInit, Copy, NoName, NoLanguage, Languages
<1>1. WordsTyped
  BY WordAssumption DEF WordsTyped, Text
<1>2. CardIsTimed /\ CardIsNamed /\ NamesLast /\ QuietThemesAreQuiet
  BY DEF CardIsTimed, CardIsNamed, NamesLast, Lasts, QuietThemesAreQuiet
<1>3. OneLanguage /\ NameIsLast
  BY DEF OneLanguage, NameIsLast, Speaks
<1>. QED
  BY <1>1, <1>2, <1>3 DEF WordsInv

\* What a planet is called is never null.
LEMMA NamesAreTexts ==
    ASSUME language \in Languages, NEW n \in DisplayNames
    PROVE  n \in Text /\ n # NoName /\ Lasts(n)
BY WordAssumption DEF DisplayNames, Text, NoName, Copy, Lasts

\* A behaviour of the manager: theme and language, and the end of what a quiet theme
\* does not celebrate.
LEMMA ApplyStep ==
    ASSUME WordsInv, NEW t \in WordTheme, NEW l \in Languages, ApplyWords(t, l)
    PROVE  WordsInv'
<1>. DEFINE quiet == [card EXCEPT !.shown = card.shown /\ ~Ends(t)]
<1>1. /\ theme' = t /\ language' = l /\ chrome' = l /\ card' = Retold(quiet, l)
      /\ timers' = (IF Ends(t) THEN {} ELSE timers)
      /\ sparkles' = (IF Ends(t) THEN {} ELSE sparkles)
      /\ title' = [text |-> IF state = "waiting" THEN Copy("waiting", l) ELSE title.text,
                   celebrate |-> title.celebrate /\ ~Ends(t)]
      /\ status' = Copy(IF state = "texture-failed" THEN "textureFailed" ELSE "drawHint", l)
      /\ UNCHANGED <<state, lastName, galleryReady>>
  BY DEF ApplyWords
<1>2. WordsTyped /\ CardIsTimed /\ CardIsNamed /\ NamesLast
      /\ QuietThemesAreQuiet /\ OneLanguage /\ NameIsLast
  BY DEF WordsInv
<1>3. /\ quiet \in [shown : BOOLEAN, of : Text, lang : Languages, orphan : BOOLEAN]
      /\ quiet.shown <=> card.shown /\ ~Ends(t)
      /\ quiet.orphan = card.orphan /\ quiet.of = card.of
  BY <1>2 DEF WordsTyped
<1>. HIDE DEF quiet
<1>4. /\ card' \in [shown : BOOLEAN, of : Text, lang : Languages, orphan : BOOLEAN]
      /\ card'.shown <=> quiet.shown
      /\ card'.orphan = card.orphan
      /\ card'.shown /\ lastName # NoName => card'.lang = l
      /\ card'.of \in {card.of, lastName}
  BY <1>1, <1>2, <1>3 DEF Retold, WordsTyped
<1>5. /\ title'.text = (IF state = "waiting" THEN Copy("waiting", l) ELSE title.text)
      /\ title'.celebrate <=> title.celebrate /\ ~Ends(t)
  BY <1>1
<1>6. WordsTyped'
  <2>1. Copy("waiting", l) \in Text
    BY DEF Copy, Text
  <2>2. title' \in [text : Text, celebrate : BOOLEAN]
    BY <1>1, <1>2, <2>1 DEF WordsTyped
  <2>3. status' \in [what : {"drawHint", "textureFailed"}, lang : Languages]
    BY <1>1 DEF Copy
  <2>. QED
    BY <1>1, <1>2, <1>4, <2>2, <2>3 DEF WordsTyped
<1>7. CardIsTimed'
  BY <1>1, <1>2, <1>3, <1>4 DEF CardIsTimed
<1>8. CardIsNamed' /\ NamesLast'
  BY <1>1, <1>2, <1>3, <1>4 DEF CardIsNamed, NamesLast, Lasts
<1>9. QuietThemesAreQuiet'
  <2>. SUFFICES ASSUME ~Celebrates(t) PROVE ~card'.shown /\ sparkles' = {} /\ ~title'.celebrate
    BY <1>1 DEF QuietThemesAreQuiet
  <2>1. Ends(t)
    BY DEF Ends
  <2>. QED
    BY <1>1, <1>3, <1>4, <1>5, <2>1
<1>10. OneLanguage'
  <2>1. status'.lang = l
    BY <1>1 DEF Copy
  <2>2. Speaks(title.text)' \/ Stays(title.text)'
    <3>1. CASE state = "waiting"
      BY <1>1, <1>5, <3>1 DEF Copy, Speaks
    <3>2. CASE state # "waiting" /\ lastName = NoName
      <4>1. state = "texture-failed" /\ title.text.what = "waiting"
        BY <1>2, <3>2 DEF WordsTyped, NamesLast, NameIsLast
      <4>. QED
        BY <1>1, <1>5, <4>1 DEF Stays
    <3>3. CASE state # "waiting" /\ lastName # NoName
      BY <1>1, <1>2, <1>5, <3>3 DEF NameIsLast, NamesLast, Lasts, Speaks, Stays
    <3>. QED
      BY <3>1, <3>2, <3>3
  <2>3. card'.shown /\ ~card'.orphan => card'.lang = l
    BY <1>2, <1>3, <1>4 DEF CardIsNamed
  <2>4. Speaks(card.of)' \/ Stays(card.of)'
    BY <1>8 DEF NamesLast, Lasts, Speaks, Stays
  <2>. QED
    BY <1>1, <2>1, <2>2, <2>3, <2>4 DEF OneLanguage
<1>11. NameIsLast'
  <2>1. IF lastName = NoName THEN title'.text.what = "waiting" ELSE title'.text = lastName
    BY <1>2, <1>5 DEF NameIsLast, Copy
  <2>2. state' = "texture-failed" => status'.what = "textureFailed"
    BY <1>1 DEF Copy
  <2>. QED
    BY <1>1, <1>2, <2>1, <2>2 DEF NameIsLast
<1>. QED
  BY <1>6, <1>7, <1>8, <1>9, <1>10, <1>11 DEF WordsInv

\* The name of a planet, with or without a celebration.
LEMMA SayStep ==
    ASSUME WordsInv, NEW n \in DisplayNames, SetPlanetName(n) \/ Show(n)
    PROVE  WordsInv'
<1>1. WordsTyped /\ CardIsTimed /\ CardIsNamed /\ NamesLast
      /\ QuietThemesAreQuiet /\ OneLanguage /\ NameIsLast
  BY DEF WordsInv
<1>2. n \in Text /\ n # NoName /\ Lasts(n)
  BY <1>1, NamesAreTexts DEF WordsTyped
<1>3. /\ state' = "planet" /\ lastName' = n
      /\ UNCHANGED <<language, theme, status, chrome, galleryReady>>
  BY DEF SetPlanetName, Show, Named
<1>4. /\ title'.text = n /\ title' \in [text : Text, celebrate : BOOLEAN]
      /\ title'.celebrate => title.celebrate \/ Celebrates(theme)
  <2>1. PICK b \in {FALSE, Celebrates(theme)} :
           title' = [text |-> n, celebrate |-> title.celebrate \/ b]
    BY DEF SetPlanetName, Show, Named
  <2>2. title'.text = n /\ (title'.celebrate <=> title.celebrate \/ b)
    BY <2>1
  <2>3. title' \in [text : Text, celebrate : BOOLEAN]
    BY <1>2, <2>1
  <2>. QED
    BY <2>1, <2>2, <2>3
<1>5. \/ UNCHANGED <<card, timers, sparkles>>
      \/ /\ Celebrates(theme)
         /\ card' = [shown |-> TRUE, of |-> n, lang |-> language, orphan |-> FALSE]
         /\ timers' = {CardTime}
         /\ sparkles' = sparkles \cup {[theme |-> theme, left |-> SparkleTime]}
  BY DEF SetPlanetName, Show, HideLater
<1>6. WordsTyped'
  <2>1. CASE UNCHANGED <<card, timers, sparkles>>
    BY <1>1, <1>2, <1>3, <1>4, <2>1 DEF WordsTyped
  <2>2. CASE /\ card' = [shown |-> TRUE, of |-> n, lang |-> language, orphan |-> FALSE]
             /\ timers' = {CardTime}
             /\ sparkles' = sparkles \cup {[theme |-> theme, left |-> SparkleTime]}
    <3>1. card' \in [shown : BOOLEAN, of : Text, lang : Languages, orphan : BOOLEAN]
      BY <1>1, <1>2, <2>2 DEF WordsTyped
    <3>2. timers' \subseteq 1..CardTime /\ \A x, y \in timers' : x = y
      BY <2>2, WordAssumption
    <3>3. sparkles' \subseteq [theme : WordTheme, left : 1..SparkleTime]
      BY <1>1, <2>2, WordAssumption DEF WordsTyped
    <3>. QED
      BY <1>1, <1>2, <1>3, <1>4, <3>1, <3>2, <3>3 DEF WordsTyped
  <2>. QED
    BY <1>5, <2>1, <2>2
<1>7. CardIsTimed'
  BY <1>1, <1>5 DEF CardIsTimed
<1>8. CardIsNamed' /\ NamesLast'
  BY <1>1, <1>2, <1>3, <1>5 DEF CardIsNamed, NamesLast, Lasts
<1>9. QuietThemesAreQuiet'
  BY <1>1, <1>3, <1>4, <1>5 DEF QuietThemesAreQuiet
<1>10. OneLanguage'
  <2>1. /\ Speaks(title.text)' \/ Stays(title.text)'
        /\ Speaks(card.of)' \/ Stays(card.of)'
    BY <1>2, <1>4, <1>8 DEF NamesLast, Lasts, Speaks, Stays
  <2>. QED
    BY <1>1, <1>3, <1>5, <2>1 DEF OneLanguage
<1>11. NameIsLast'
  BY <1>1, <1>2, <1>3, <1>4 DEF NameIsLast
<1>. QED
  BY <1>6, <1>7, <1>8, <1>9, <1>10, <1>11 DEF WordsInv

\* The galaxy is cleared under a card that stays its time.
LEMMA ResetStep ==
    ASSUME WordsInv, ResetWaiting
    PROVE  WordsInv'
<1>1. WordsTyped /\ CardIsTimed /\ CardIsNamed /\ NamesLast
      /\ QuietThemesAreQuiet /\ OneLanguage /\ NameIsLast
  BY DEF WordsInv
<1>2. /\ state' = "waiting" /\ lastName' = NoName
      /\ title' = [text |-> Copy("waiting", language), celebrate |-> FALSE]
      /\ status' = Copy("drawHint", language)
      /\ card' = [card EXCEPT !.orphan = TRUE]
      /\ UNCHANGED <<language, theme, chrome, timers, sparkles, galleryReady>>
  BY DEF ResetWaiting
<1>3. /\ card' \in [shown : BOOLEAN, of : Text, lang : Languages, orphan : BOOLEAN]
      /\ card'.shown = card.shown /\ card'.orphan /\ card'.of = card.of
  BY <1>1, <1>2 DEF WordsTyped
<1>4. NoName \in Text /\ Copy("waiting", language) \in Text
  BY <1>1 DEF NoName, Copy, Text, WordsTyped
<1>5. title' \in [text : Text, celebrate : BOOLEAN]
  BY <1>2, <1>4
<1>6. status' \in [what : {"drawHint", "textureFailed"}, lang : Languages]
  BY <1>1, <1>2 DEF Copy, WordsTyped
<1>7. WordsTyped'
  BY <1>1, <1>2, <1>3, <1>4, <1>5, <1>6 DEF WordsTyped
<1>8. CardIsTimed' /\ CardIsNamed' /\ NamesLast' /\ QuietThemesAreQuiet'
  <2>1. NoName.lang = NoLanguage
    BY DEF NoName, Copy
  <2>. QED
    BY <1>1, <1>2, <1>3, <2>1 DEF CardIsTimed, CardIsNamed, NamesLast, Lasts, QuietThemesAreQuiet
<1>9. OneLanguage' /\ NameIsLast'
  BY <1>1, <1>2, <1>3 DEF OneLanguage, NameIsLast, Copy, Speaks
<1>. QED
  BY <1>7, <1>8, <1>9 DEF WordsInv

\* A texture fails, or the first gallery is complete.
LEMMA FailStep ==
    ASSUME WordsInv, TextureLoadFailed \/ GalleryReady
    PROVE  WordsInv'
<1>1. WordsTyped /\ CardIsTimed /\ CardIsNamed /\ NamesLast
      /\ QuietThemesAreQuiet /\ OneLanguage /\ NameIsLast
  BY DEF WordsInv
<1>2. /\ UNCHANGED <<language, theme, lastName, title, chrome, card, timers, sparkles>>
      /\ galleryReady' \in BOOLEAN
      /\ \/ state' = "texture-failed" /\ status' = Copy("textureFailed", language)
         \/ state' = state /\ status' = status
  BY <1>1 DEF TextureLoadFailed, GalleryReady, WordsTyped
<1>3. status' \in [what : {"drawHint", "textureFailed"}, lang : Languages]
  BY <1>1, <1>2 DEF Copy, WordsTyped
<1>4. WordsTyped'
  BY <1>1, <1>2, <1>3 DEF WordsTyped
<1>5. CardIsTimed' /\ CardIsNamed' /\ NamesLast' /\ QuietThemesAreQuiet'
  BY <1>1, <1>2 DEF CardIsTimed, CardIsNamed, NamesLast, Lasts, QuietThemesAreQuiet
<1>6. OneLanguage' /\ NameIsLast'
  BY <1>1, <1>2 DEF OneLanguage, NameIsLast, Copy, Speaks, Stays
<1>. QED
  BY <1>4, <1>5, <1>6 DEF WordsInv

\* The one timer of the card and those of the sparkles run.
LEMMA TickStep ==
    ASSUME WordsInv, WordsTick
    PROVE  WordsInv'
<1>1. WordsTyped /\ CardIsTimed /\ CardIsNamed /\ NamesLast
      /\ QuietThemesAreQuiet /\ OneLanguage /\ NameIsLast
  BY DEF WordsInv
<1>2. /\ timers' = {n - 1 : n \in timers \ {1}}
      /\ card' = [card EXCEPT !.shown = card.shown /\ 1 \notin timers]
      /\ sparkles' = {[s EXCEPT !.left = s.left - 1] : s \in {p \in sparkles : p.left > 1}}
      /\ UNCHANGED <<language, theme, state, lastName, title, status, chrome, galleryReady>>
  BY DEF WordsTick
<1>3. /\ card' \in [shown : BOOLEAN, of : Text, lang : Languages, orphan : BOOLEAN]
      /\ card'.shown <=> card.shown /\ 1 \notin timers
      /\ card'.orphan = card.orphan /\ card'.lang = card.lang /\ card'.of = card.of
  BY <1>1, <1>2 DEF WordsTyped
<1>4. timers \subseteq 1..CardTime /\ \A n, m \in timers : n = m
  BY <1>1 DEF WordsTyped
<1>5. timers' \subseteq 1..CardTime /\ \A n, m \in timers' : n = m
  BY <1>2, <1>4, WordAssumption
<1>6. sparkles' \subseteq [theme : WordTheme, left : 1..SparkleTime]
  <2>1. ASSUME NEW p \in sparkles, p.left > 1
        PROVE  [p EXCEPT !.left = p.left - 1] \in [theme : WordTheme, left : 1..SparkleTime]
    <3>1. p \in [theme : WordTheme, left : 1..SparkleTime]
      BY <1>1 DEF WordsTyped
    <3>2. p.left - 1 \in 1..SparkleTime
      BY <2>1, <3>1, WordAssumption
    <3>. QED
      BY <3>1, <3>2
  <2>. QED
    BY <1>2, <2>1
<1>7. WordsTyped'
  BY <1>1, <1>2, <1>3, <1>5, <1>6 DEF WordsTyped
<1>8. CardIsTimed'
  <2>1. timers' # {} <=> timers # {} /\ 1 \notin timers
    BY <1>2, <1>4
  <2>. QED
    BY <1>1, <1>3, <2>1 DEF CardIsTimed
<1>9. CardIsNamed' /\ NamesLast'
  BY <1>1, <1>2, <1>3 DEF CardIsNamed, NamesLast, Lasts
<1>10. QuietThemesAreQuiet'
  <2>1. sparkles = {} => sparkles' = {}
    BY <1>2
  <2>. QED
    BY <1>1, <1>2, <1>3, <2>1 DEF QuietThemesAreQuiet
<1>11. OneLanguage' /\ NameIsLast'
  BY <1>1, <1>2, <1>3 DEF OneLanguage, NameIsLast, Speaks, Stays
<1>. QED
  BY <1>7, <1>8, <1>9, <1>10, <1>11 DEF WordsInv

\* Every step keeps the words in step.
LEMMA WordsStep == WordsInv /\ [WordsNext]_wordVars => WordsInv'
<1>. SUFFICES ASSUME WordsInv, [WordsNext]_wordVars PROVE WordsInv'
  OBVIOUS
<1>1. CASE UNCHANGED wordVars
  BY <1>1 DEF wordVars, WordsInv, WordsTyped, CardIsTimed, CardIsNamed, NamesLast, Lasts,
              QuietThemesAreQuiet, OneLanguage, NameIsLast, Speaks, Stays
<1>2. CASE WordsNext
  BY <1>2, ApplyStep, SayStep, ResetStep, FailStep, TickStep, Zenon DEF WordsNext
<1>. QED
  BY <1>1, <1>2

\* The invariant says what the runs check.
LEMMA WordsInvMeans == WordsInv => WordsAreInStep
<1>. SUFFICES ASSUME WordsInv PROVE WordsTypeOK
  BY DEF WordsInv, WordsAreInStep
<1>. QED
  BY DEF WordsInv, WordsTyped, WordsTypeOK, CardIsTimed

\* What the wall says is well formed, quiet where the theme is, in the last language but
\* for the words that setLanguage leaves (OneLanguage), and about the last planet
\* (CelebrationEffect), for all names, themes, times and calls.
THEOREM WordsStayInStep == WordsSpec => []WordsAreInStep
<1>. QED
  BY WordsStart, WordsStep, WordsInvMeans, PTL DEF WordsSpec
------------------------------------------------------------------------------
(* A planet's life.                                                         *)

\* What is made once for a planet and freed with it.
Lasting == {Body, AccentShells, <<"craters", 0>>, <<"ranges", 0>>, <<"ring", 0>>, <<"orbit", 0>>}

\* A companion, or trees, that another object has taken the place of.
Superseded(r) ==
    \/ \E i \in DOMAIN companions :
          r[1] = <<"companion", i>> /\ r[2] \in 0..made /\ r[2] # companions[i].serial
    \/ r[1] = <<"trees", 0>> /\ r[2] \in 1..made /\ r[2] # trees

\* What companions are, and what the themes make of astronauts.
CompanionKinds == {"moon", "stars", "satellite", "astronaut", "witch", "bunny"}

\* The variables' types.
EntityTyped ==
    /\ drawing \in Drawing
    /\ texture \in {"loading", "applied", "failed"}
    /\ surface \in {"none", "asked", "on", "absent", "lost"}
    /\ geometry \in {"sphere", "relief"} /\ material \in {"polished", "manifest"}
    /\ twists \in 0..1
    /\ sculpted \in BOOLEAN /\ shells \in BOOLEAN /\ meshVisible \in BOOLEAN
    /\ casts \in BOOLEAN /\ gone \in BOOLEAN
    /\ companions \in [DOMAIN drawing.companions -> [type : CompanionKinds, kind : CompanionKinds, serial : 0..made]]
    /\ \A i \in DOMAIN companions : companions[i].type = drawing.companions[i]
    /\ made \in Nat /\ trees \in 0..made
    /\ visualTheme \in Theme

\* A body that waits for its picture or its surface is as the constructor left it.
Untouched ==
    /\ texture = "loading" => surface = "none" /\ sculpted = FALSE
    /\ surface \in {"none", "asked", "lost"} =>
          geometry = "sphere" /\ material = "polished" /\ twists = 0 /\ retired = {}

\* What a removal does not free: the shared environment, and a ring's buffers.
Left == {Studio} \cup InstanceBuffers

\* The renderer holds nothing else that a removal would not find.
Tracked ==
    /\ \A r \in retired : r[1] = Body
    /\ ~gone => gpu \subseteq MeshTree \cup retired \cup Beside \cup Left
    /\ gone => gpu \subseteq Left

\* Before the removal only what was replaced is freed.
FreedIsSuperseded == Studio \notin freed /\ (~gone => \A r \in freed : Superseded(r))

\* What ResourcesBalance and StagesAgree need to be inductive.
EntityInv == EntityTyped /\ Untouched /\ Tracked /\ FreedIsSuperseded /\ StagesAgree

\* A resource says which thing it belongs to, and which object made for it.
LEMMA ThingOf ==
    ASSUME NEW thing, NEW s, NEW M, NEW r \in Both(thing, s, M)
    PROVE  r[1] = thing /\ r[2] = s
<1>1. CASE r \in Geometries(thing, s, M)
  <2>1. PICK m \in M : r = <<thing, s, "geometry", m.part, m.worn, m.nth>>
    BY <1>1 DEF Geometries, Res
  <2>. QED
    BY <2>1
<1>2. CASE r \in Materials(thing, s, M)
  <2>1. PICK m \in M : r = <<thing, s, "material", "", m.worn, m.copy>>
    BY <1>2 DEF Materials, Res
  <2>. QED
    BY <2>1
<1>. QED
  BY <1>1, <1>2 DEF Both

\* Things are told apart by their names, companions by their numbers.
LEMMA ThingsDiffer ==
    /\ \A t \in Lasting : t # <<"trees", 0>> /\ t # <<"studio", 0>> /\ \A i : t # <<"companion", i>>
    /\ \A i, j : <<"companion", i>> = <<"companion", j>> => i = j
    /\ \A i : <<"companion", i>> # <<"trees", 0>> /\ <<"companion", i>> # <<"studio", 0>>
    /\ <<"trees", 0>> # <<"studio", 0>>
    /\ Studio[1] = <<"studio", 0>>
BY DEF Lasting, Body, AccentShells, Studio, Res

\* What belongs to the body.
LEMMA BodyThings ==
    /\ \A g : BodyGeometry(g)[1] = Body
    /\ \A m : \A r \in BodyMaterial(m) : r[1] = Body
<1>1. \A g : BodyGeometry(g)[1] = Body
  BY DEF BodyGeometry, Res
<1>2. ASSUME NEW m, NEW r \in BodyMaterial(m)
      PROVE  r[1] = Body
  <2>1. CASE r = <<Body, 0, "material", "", m, 0>>
    BY <2>1
  <2>2. ASSUME NEW t \in {"map", "roughnessMap", "aoMap"}, r = <<Body, 0, "texture", t, m, 0>>
        PROVE  r[1] = Body
    BY <2>2
  <2>. QED
    BY <2>1, <2>2 DEF BodyMaterial, Res
<1>. QED
  BY <1>1, <1>2

\* What hangs below the mesh lasts, or is of the trees that stand.
LEMMA MeshTreeThings ==
    ASSUME NEW r \in MeshTree
    PROVE  r[1] \in Lasting \/ (r[1] = <<"trees", 0>> /\ trees # 0 /\ r[2] = trees)
<1>1. CASE r \in {BodyGeometry(geometry)} \cup BodyMaterial(material)
  BY <1>1, BodyThings DEF Lasting
<1>2. CASE r \in Shells
  <2>1. ASSUME NEW q \in ShellTextures PROVE q[1] = AccentShells
    <3>1. PICK t \in {"edgeColour", "edgeMask", "relief", "colour", "topMask"} :
             q = <<AccentShells, 0, "texture", t, "", 0>>
      BY DEF ShellTextures, Res
    <3>. QED
      BY <3>1
  <2>. QED
    BY <1>2, <2>1, ThingOf DEF Shells, Lasting
<1>3. CASE r \in Terrain
  <2>1. r[1] \in {<<"craters", 0>>, <<"ranges", 0>>}
    <3>1. CASE drawing.style = "cratered"
      BY <1>3, <3>1, ThingOf DEF Terrain
    <3>2. CASE drawing.style = "spiky"
      BY <1>3, <3>2, ThingOf DEF Terrain
    <3>3. CASE drawing.style # "cratered" /\ drawing.style # "spiky"
      BY <1>3, <3>3 DEF Terrain
    <3>. QED
      BY <3>1, <3>2, <3>3
  <2>. QED
    BY <2>1 DEF Lasting
<1>4. CASE r \in TreeResources
  <2>1. trees # 0
    BY <1>4 DEF TreeResources
  <2>. QED
    BY <1>4, <2>1, ThingOf DEF TreeResources
<1>. QED
  BY <1>1, <1>2, <1>3, <1>4 DEF MeshTree

\* What belongs to a companion.
LEMMA CompanionThings ==
    ASSUME NEW i, NEW k, NEW s, NEW r \in Companion(i, k, s)
    PROVE  r[1] = <<"companion", i>> /\ r[2] = s
BY ThingOf DEF Companion

\* What flies beside the mesh lasts, or is of a companion that is there.
LEMMA BesideThings ==
    ASSUME NEW r \in Beside
    PROVE  \/ r[1] \in Lasting
           \/ \E i \in DOMAIN companions : r[1] = <<"companion", i>> /\ r[2] = companions[i].serial
<1>1. CASE r \in Decorations
  BY <1>1, ThingOf DEF Decorations, Lasting
<1>2. CASE r \in Companions
  BY <1>2, CompanionThings DEF Companions
<1>3. CASE r \in OrbitRing
  BY <1>3, ThingOf DEF OrbitRing, Lasting
<1>. QED
  BY <1>1, <1>2, <1>3 DEF Beside

\* What was replaced is no part of the planet any more.
LEMMA SupersededIsAway ==
    ASSUME NEW r, Superseded(r)
    PROVE  r \notin MeshTree \cup Beside
<1>1. CASE r \in MeshTree
  BY <1>1, MeshTreeThings, ThingsDiffer DEF Superseded
<1>2. CASE r \in Beside
  <2>1. PICK i \in DOMAIN companions : r[1] = <<"companion", i>> /\ r[2] = companions[i].serial
    BY <1>2, BesideThings, ThingsDiffer DEF Superseded
  <2>. QED
    BY <2>1, ThingsDiffer DEF Superseded
<1>. QED
  BY <1>1, <1>2

\* The environment all planets share is no planet's own.
LEMMA StudioIsShared == Studio \notin MeshTree \cup Beside
BY MeshTreeThings, BesideThings, ThingsDiffer

\* It stays what it is as long as the drawing does.
LEMMA LeftIsFixed == drawing' = drawing => Studio' = Studio /\ Left' = Left
BY DEF Left, InstanceBuffers, Studio, Res

\* The five stages that make a ring: no layer of it casts a shadow, and every layer has
\* the chosen hue.
LEMMA RingsAreQuiet == \A l \in PlanetRing : ~l.casts /\ l.hue = "chosen"
<1>. DEFINE P == {"fine dust", "micro dust", "inner ice", "middle ice", "outer rock", "haze"}
            F == {"points", "instanced"}
            G == {"dust", "ice", "rock", "sparkle"}
            L(C, H) == [part : P, nth : 0..2, worn : P, copy : 0..2, form : F,
                        casts : C, role : G, hue : H]
<1>1. SaturnRing \subseteq L({FALSE}, {"natural"})
  <2>. HIDE DEF P, F, G
  <2>1. \A p \in P, f \in F, r \in G : Layer(p, f, r) \in L({FALSE}, {"natural"})
    BY DEF Layer
  <2>. HIDE DEF L
  <2>2. ASSUME NEW l \in SaturnRing
        PROVE  \E p \in P, f \in F, r \in G : l = Layer(p, f, r)
    BY DEF SaturnRing, P, F, G
  <2>. QED
    BY <2>1, <2>2
<1>. HIDE DEF P, G
<1>2. EnableShadows(SaturnRing) \subseteq L(BOOLEAN, {"natural"})
  <2>1. ASSUME NEW l \in L({FALSE}, {"natural"})
        PROVE  [l EXCEPT !.casts = (l.casts \/ l.form # "points")] \in L(BOOLEAN, {"natural"})
    <3>1. (l.casts \/ l.form # "points") \in BOOLEAN
      OBVIOUS
    <3>. DEFINE c == l.casts \/ l.form # "points"
    <3>. HIDE DEF c
    <3>2. c \in BOOLEAN
      BY <3>1 DEF c
    <3>3. [l EXCEPT !.casts = c] \in L(BOOLEAN, {"natural"})
      BY <3>2
    <3>. QED
      BY <3>3 DEF c
  <2>. HIDE DEF L
  <2>. QED
    BY <1>1, <2>1 DEF EnableShadows
<1>3. DisableShadows(EnableShadows(SaturnRing)) \subseteq L({FALSE}, {"natural"})
  <2>1. ASSUME NEW l \in L(BOOLEAN, {"natural"})
        PROVE  [l EXCEPT !.casts = FALSE] \in L({FALSE}, {"natural"})
    OBVIOUS
  <2>. HIDE DEF L
  <2>. QED
    BY <1>2, <2>1 DEF DisableShadows
<1>4. FinishRing(DisableShadows(EnableShadows(SaturnRing))) \subseteq L({FALSE}, {"natural"})
  <2>1. ASSUME NEW l \in L({FALSE}, {"natural"})
        PROVE  /\ [l EXCEPT !.casts = (l.casts /\ l.form # "instanced")] \in L({FALSE}, {"natural"})
               /\ \A n \in {1, 2} : [l EXCEPT !.nth = n, !.copy = n] \in L({FALSE}, {"natural"})
    <3>1. (l.casts /\ l.form # "instanced") = FALSE
      OBVIOUS
    <3>2. [l EXCEPT !.casts = FALSE] \in L({FALSE}, {"natural"})
      OBVIOUS
    <3>3. ASSUME NEW n \in {1, 2}
          PROVE  [l EXCEPT !.nth = n, !.copy = n] \in L({FALSE}, {"natural"})
      <4>1. n \in 0..2
        OBVIOUS
      <4>2. [l EXCEPT !.nth = n] \in L({FALSE}, {"natural"})
        BY <4>1
      <4>. QED
        BY <4>1, <4>2
    <3>. QED
      BY <3>1, <3>2, <3>3
  <2>. DEFINE R == DisableShadows(EnableShadows(SaturnRing))
  <2>2. R \subseteq L({FALSE}, {"natural"})
    BY <1>3
  <2>. HIDE DEF L, R
  <2>3. FinishRing(R) \subseteq L({FALSE}, {"natural"})
    <3>1. ASSUME NEW k \in FinishRing(R) PROVE k \in L({FALSE}, {"natural"})
      <4>1. CASE \E l \in R : k = [l EXCEPT !.casts = (l.casts /\ l.form # "instanced")]
        BY <2>1, <2>2, <4>1
      <4>2. CASE \E l \in R : \E n \in {1, 2} : k = [l EXCEPT !.nth = n, !.copy = n]
        BY <2>1, <2>2, <4>2
      <4>. QED
        <5>1. \/ k \in {[l EXCEPT !.casts = (l.casts /\ l.form # "instanced")] : l \in R}
              \/ k \in UNION {{[l EXCEPT !.nth = n, !.copy = n] : n \in {1, 2}} :
                              l \in {d \in R : d.role = "dust"}}
          BY DEF FinishRing
        <5>2. k \in {[l EXCEPT !.casts = (l.casts /\ l.form # "instanced")] : l \in R}
              => \E l \in R : k = [l EXCEPT !.casts = (l.casts /\ l.form # "instanced")]
          OBVIOUS
        <5>3. k \in UNION {{[l EXCEPT !.nth = n, !.copy = n] : n \in {1, 2}} :
                              l \in {d \in R : d.role = "dust"}}
              => \E l \in R : \E n \in {1, 2} : k = [l EXCEPT !.nth = n, !.copy = n]
          OBVIOUS
        <5>. QED
          BY <4>1, <4>2, <5>1, <5>2, <5>3, Zenon
    <3>. QED
      BY <3>1
  <2>. QED
    BY <2>3 DEF R
<1>5. PlanetRing \subseteq L({FALSE}, {"chosen"})
  <2>1. ASSUME NEW l \in L({FALSE}, {"natural"})
        PROVE  [l EXCEPT !.hue = "chosen"] \in L({FALSE}, {"chosen"})
    OBVIOUS
  <2>. HIDE DEF L
  <2>. QED
    BY <1>4, <2>1 DEF PlanetRing, RecolorRing
<1>. QED
  BY <1>5

\* The constructor.
LEMMA EntityStarts == EntityInit => EntityInv
<1>. SUFFICES ASSUME EntityInit PROVE EntityInv
  OBVIOUS
<1>1. /\ drawing \in Drawing /\ texture = "loading" /\ surface = "none"
      /\ geometry = "sphere" /\ material = "polished" /\ twists = 0
      /\ sculpted = FALSE /\ shells = FALSE /\ meshVisible = TRUE /\ casts = FALSE
      /\ companions = [i \in DOMAIN drawing.companions |->
            [type |-> drawing.companions[i], kind |-> drawing.companions[i], serial |-> 0]]
      /\ trees = 0 /\ visualTheme = "default" /\ made = 0
      /\ retired = {} /\ gone = FALSE /\ gpu = {} /\ freed = {}
  BY DEF EntityInit
<1>2. \A i \in DOMAIN drawing.companions : drawing.companions[i] \in CompanionKinds
  <2>. DEFINE c == drawing.companions
              K == {"moon", "stars", "satellite", "astronaut"}
  <2>1. c \in Seq(K)
    BY <1>1, DrawingAssumption
  <2>0. K \subseteq CompanionKinds
    BY DEF CompanionKinds
  <2>. HIDE DEF c, K
  <2>2. c \in [1..Len(c) -> K] /\ K \subseteq CompanionKinds
    BY <2>0, <2>1
  <2>3. \A i \in DOMAIN c : c[i] \in CompanionKinds
    BY <2>2
  <2>. QED
    BY <2>3 DEF c
<1>3. EntityTyped
  <2>1. companions \in [DOMAIN drawing.companions ->
                          [type : CompanionKinds, kind : CompanionKinds, serial : 0..made]]
    <3>1. \A i \in DOMAIN drawing.companions :
             [type |-> drawing.companions[i], kind |-> drawing.companions[i], serial |-> 0]
                \in [type : CompanionKinds, kind : CompanionKinds, serial : 0..0]
      BY <1>2
    <3>. QED
      BY <1>1, <3>1
  <2>2. \A i \in DOMAIN companions : companions[i].type = drawing.companions[i]
    BY <1>1
  <2>3. made \in Nat /\ trees \in 0..made /\ visualTheme \in Theme /\ twists \in 0..1
    BY <1>1, DrawingAssumption
  <2>. QED
    BY <1>1, <2>1, <2>2, <2>3 DEF EntityTyped
<1>4. Untouched /\ Tracked /\ FreedIsSuperseded
  BY <1>1 DEF Untouched, Tracked, FreedIsSuperseded
<1>5. DressedForTheme
  BY <1>1 DEF DressedForTheme, Astronauts, WantsTrees
<1>6. ShadowsAndHues /\ TwistedOnce
  BY <1>1, RingsAreQuiet DEF ShadowsAndHues, TwistedOnce
<1>. QED
  BY <1>3, <1>4, <1>5, <1>6 DEF EntityInv, StagesAgree

\* A step of the body alone, which loses track of nothing.
LEMMA BodySteps ==
    ASSUME EntityInv, UNCHANGED <<drawing, themeVars, gone, gpu, freed>>,
           EntityTyped', Untouched', ShadowsAndHues', TwistedOnce',
           \A r \in retired' : r[1] = Body,
           ~gone => MeshTree \cup retired \subseteq (MeshTree \cup retired)'
    PROVE  EntityInv'
<1>1. /\ drawing' = drawing /\ gone' = gone /\ gpu' = gpu /\ freed' = freed
      /\ companions' = companions /\ trees' = trees /\ visualTheme' = visualTheme /\ made' = made
  BY DEF themeVars
<1>2. Beside' = Beside
  BY <1>1 DEF Beside, Decorations, Companions, Companion, OrbitRing
<1>3. Studio' = Studio /\ Left' = Left
  BY <1>1, LeftIsFixed
<1>4. Tracked'
  BY <1>1, <1>2, <1>3 DEF EntityInv, Tracked
<1>5. FreedIsSuperseded'
  BY <1>1, <1>3 DEF EntityInv, FreedIsSuperseded, Superseded
<1>6. DressedForTheme'
  BY <1>1 DEF EntityInv, StagesAgree, DressedForTheme, Astronauts, WantsTrees
<1>. QED
  BY <1>4, <1>5, <1>6 DEF EntityInv, StagesAgree

\* The picture loads.
LEMMA TextureStep ==
    ASSUME EntityInv, TextureLoads
    PROVE  EntityInv'
<1>1. /\ texture = "loading" /\ ~gone /\ texture' = "applied"
      /\ sculpted' \in BOOLEAN /\ shells' \in BOOLEAN /\ casts' = TRUE
      /\ surface' = (IF drawing.valid THEN "asked" ELSE "absent")
      /\ meshVisible' = ~drawing.valid
      /\ UNCHANGED <<drawing, geometry, material, twists, themeVars, retired, gone, gpu, freed>>
  BY DEF TextureLoads
<1>2. EntityTyped /\ Untouched /\ TwistedOnce /\ ShadowsAndHues
  BY DEF EntityInv, StagesAgree
<1>3. surface = "none" /\ sculpted = FALSE /\ geometry = "sphere" /\ material = "polished"
      /\ twists = 0 /\ retired = {}
  BY <1>1, <1>2 DEF Untouched
<1>4. surface' \in {"asked", "absent"} /\ meshVisible' \in BOOLEAN
  BY <1>1
<1>5. EntityTyped'
  BY <1>1, <1>2, <1>4 DEF EntityTyped, themeVars
<1>6. Untouched'
  BY <1>1, <1>3 DEF Untouched
<1>7. ShadowsAndHues' /\ TwistedOnce'
  BY <1>1, <1>3, <1>4, RingsAreQuiet DEF ShadowsAndHues, TwistedOnce
<1>8. MeshTree \subseteq MeshTree'
  <2>1. /\ BodyGeometry(geometry)' = BodyGeometry(geometry)
        /\ BodyMaterial(material)' = BodyMaterial(material)
    BY <1>1 DEF BodyGeometry, BodyMaterial
  <2>2. Shells \subseteq Shells'
    BY <1>3 DEF Shells
  <2>3. Terrain' = Terrain /\ TreeResources' = TreeResources
    BY <1>1 DEF Terrain, TreeResources, themeVars
  <2>. QED
    BY <2>1, <2>2, <2>3 DEF MeshTree
<1>. QED
  BY <1>1, <1>3, <1>5, <1>6, <1>7, <1>8, BodySteps

\* The picture fails, comes too late, or the maps do, or are lost.
LEMMA NothingStep ==
    ASSUME EntityInv, TextureLoadsTooLate \/ TextureFails \/ MapsLost \/ MapsTooLate
    PROVE  EntityInv'
<1>1. /\ UNCHANGED <<drawing, bodyVars, themeVars, retired, gone, gpu, freed>>
      /\ \/ texture = "loading" /\ texture' = "failed" /\ surface' = surface
         \/ surface = "asked" /\ texture' = texture /\ surface' \in {"absent", "lost"}
  BY DEF TextureLoadsTooLate, TextureFails, MapsLost, MapsTooLate
<1>2. EntityTyped /\ Untouched /\ TwistedOnce /\ ShadowsAndHues
      /\ \A r \in retired : r[1] = Body
  BY DEF EntityInv, StagesAgree, Tracked
<1>3. EntityTyped'
  BY <1>1, <1>2 DEF EntityTyped, themeVars, bodyVars
<1>4. Untouched'
  BY <1>1, <1>2 DEF Untouched, bodyVars
<1>5. ShadowsAndHues' /\ TwistedOnce'
  BY <1>1, <1>2, RingsAreQuiet DEF ShadowsAndHues, TwistedOnce, bodyVars
<1>6. MeshTree' = MeshTree /\ retired' = retired
  BY <1>1 DEF MeshTree, BodyGeometry, BodyMaterial, Shells, Terrain, TreeResources, themeVars, bodyVars
<1>. QED
  BY <1>1, <1>2, <1>3, <1>4, <1>5, <1>6, BodySteps

\* A body that waits for its surface has no relief yet to free.
LEMMA ReliefFreesNothing ==
    ASSUME geometry = "sphere", AttachRelief
    PROVE  geometry' = "relief" /\ UNCHANGED <<gpu, freed>>
BY DEF AttachRelief, Free

\* The maps arrive, or the surface fails before or after its geometry.
LEMMA MapsStep ==
    ASSUME EntityInv, MapsArrive \/ MapsFail
    PROVE  EntityInv'
<1>1. EntityTyped /\ Untouched /\ TwistedOnce /\ ShadowsAndHues
  BY DEF EntityInv, StagesAgree
<1>2. /\ surface = "asked" /\ ~gone /\ UNCHANGED <<drawing, texture, themeVars, gone, sculpted>>
      /\ meshVisible' = TRUE
  BY DEF MapsArrive, MapsFail
<1>3. /\ geometry = "sphere" /\ material = "polished" /\ twists = 0 /\ retired = {}
      /\ texture # "loading"
  BY <1>1, <1>2 DEF Untouched
<1>4. /\ UNCHANGED <<gpu, freed>>
      /\ \/ /\ surface' = "on" /\ geometry' = "relief" /\ material' = "manifest"
            /\ retired' = {BodyGeometry("sphere")} \cup BodyMaterial("polished")
            /\ shells' = FALSE /\ casts' = (drawing.style = "ringed")
            /\ twists' = IF drawing.rendering = "classic" THEN 1 ELSE 0
         \/ /\ surface' = "absent" /\ UNCHANGED <<material, shells, casts, twists>>
            /\ \/ UNCHANGED <<geometry, retired>>
               \/ geometry' = "relief" /\ retired' = {BodyGeometry("sphere")}
  <2>1. CASE MapsArrive
    <3>1. AttachRelief /\ geometry' = "relief" /\ UNCHANGED <<gpu, freed>>
      BY <1>3, <2>1, ReliefFreesNothing DEF MapsArrive, ApplySurface
    <3>. QED
      BY <1>3, <2>1, <3>1 DEF MapsArrive, ApplySurface
  <2>2. CASE MapsFail
    <3>1. surface' = "absent" /\ UNCHANGED <<material, shells, casts, twists>>
      BY <2>2 DEF MapsFail
    <3>2. CASE UNCHANGED <<geometry, retired, gpu, freed>>
      BY <3>1, <3>2
    <3>3. CASE AttachRelief /\ retired' = retired \cup {BodyGeometry("sphere")}
      <4>1. geometry' = "relief" /\ UNCHANGED <<gpu, freed>>
        BY <1>3, <3>3, ReliefFreesNothing
      <4>. QED
        BY <1>3, <3>1, <3>3, <4>1
    <3>. QED
      BY <2>2, <3>2, <3>3 DEF MapsFail
  <2>. QED
    BY <2>1, <2>2
<1>5. /\ geometry' \in {"sphere", "relief"} /\ material' \in {"polished", "manifest"}
      /\ twists' \in 0..1 /\ shells' \in BOOLEAN /\ casts' \in BOOLEAN
      /\ surface' \in {"on", "absent"}
  <2>1. (drawing.style = "ringed") \in BOOLEAN
    OBVIOUS
  <2>2. /\ geometry \in {"sphere", "relief"} /\ material \in {"polished", "manifest"}
        /\ twists \in 0..1 /\ shells \in BOOLEAN /\ casts \in BOOLEAN
    BY <1>1 DEF EntityTyped
  <2>3. geometry' \in {"sphere", "relief"} /\ material' \in {"polished", "manifest"}
        /\ surface' \in {"on", "absent"}
    BY <1>4, <2>2
  <2>4. twists' \in 0..1
    <3>1. 0 \in 0..1 /\ 1 \in 0..1
      OBVIOUS
    <3>. QED
      BY <1>4, <2>2, <3>1, Zenon
  <2>5. shells' \in BOOLEAN /\ casts' \in BOOLEAN
    BY <1>4, <2>1, <2>2, Zenon
  <2>. QED
    BY <2>3, <2>4, <2>5
<1>6. EntityTyped'
  BY <1>1, <1>2, <1>5 DEF EntityTyped, themeVars
<1>7. Untouched'
  BY <1>2, <1>3, <1>5 DEF Untouched
<1>8. ShadowsAndHues'
  BY <1>2, <1>4, RingsAreQuiet DEF ShadowsAndHues
<1>9. TwistedOnce'
  BY <1>2, <1>3, <1>4 DEF TwistedOnce
<1>10. \A r \in retired' : r[1] = Body
  BY <1>3, <1>4, BodyThings
<1>11. MeshTree \cup retired \subseteq (MeshTree \cup retired)'
  <2>1. Shells' = Shells /\ Terrain' = Terrain /\ TreeResources' = TreeResources
    BY <1>2 DEF Shells, Terrain, TreeResources, themeVars
  <2>2. {BodyGeometry("sphere")} \cup BodyMaterial("polished")
            \subseteq {BodyGeometry(geometry')} \cup BodyMaterial(material') \cup retired'
    BY <1>3, <1>4
  <2>3. /\ BodyGeometry(geometry)' = BodyGeometry(geometry')
        /\ BodyMaterial(material)' = BodyMaterial(material')
    BY DEF BodyGeometry, BodyMaterial, Res, Body
  <2>4. MeshTree = {BodyGeometry("sphere")} \cup BodyMaterial("polished") \cup Shells
                      \cup Terrain \cup TreeResources
    BY <1>3 DEF MeshTree
  <2>5. MeshTree' = {BodyGeometry(geometry')} \cup BodyMaterial(material') \cup Shells
                      \cup Terrain \cup TreeResources
    BY <2>1, <2>3 DEF MeshTree
  <2>. QED
    BY <1>3, <2>2, <2>4, <2>5
<1>12. UNCHANGED <<drawing, themeVars, gone, gpu, freed>>
  BY <1>2, <1>4
<1>. QED
  BY <1>6, <1>7, <1>8, <1>9, <1>10, <1>11, <1>12, BodySteps

\* The planet leaves the wall.
LEMMA DisposeStep ==
    ASSUME EntityInv, Dispose
    PROVE  EntityInv'
<1>1. /\ ~gone /\ gone' = TRUE /\ retired' = {}
      /\ gpu' = gpu \ (MeshTree \cup retired \cup Beside)
      /\ freed' = freed \cup (MeshTree \cup retired \cup Beside)
      /\ UNCHANGED <<drawing, texture, surface, bodyVars, themeVars>>
  BY DEF Dispose, Free
<1>2. EntityTyped /\ Untouched /\ Tracked /\ FreedIsSuperseded /\ StagesAgree
  BY DEF EntityInv
<1>3. EntityTyped' /\ Untouched'
  BY <1>1, <1>2 DEF EntityTyped, Untouched, bodyVars, themeVars
<1>4. Studio' = Studio /\ Left' = Left
  BY <1>1, LeftIsFixed
<1>5. Tracked'
  BY <1>1, <1>2, <1>4 DEF Tracked
<1>6. Studio \notin MeshTree \cup retired \cup Beside
  BY <1>2, StudioIsShared, ThingsDiffer DEF Tracked, Lasting
<1>7. FreedIsSuperseded'
  BY <1>1, <1>2, <1>4, <1>6 DEF FreedIsSuperseded
<1>8. StagesAgree'
  BY <1>1, <1>2 DEF StagesAgree, DressedForTheme, Astronauts, WantsTrees, ShadowsAndHues, TwistedOnce,
                    bodyVars, themeVars
<1>. QED
  BY <1>3, <1>5, <1>7, <1>8 DEF EntityInv

\* What an astronaut is in a theme.
Costume(th) == CASE th = "halloween" -> "witch" [] th = "easter" -> "bunny" [] OTHER -> "astronaut"

\* The two stages agree: an astronaut ends in its costume, and is not swapped again
\* while the theme stays.
LEMMA Dressing ==
    ASSUME EntityInv, NEW th \in Theme, NEW i \in Astronauts
    PROVE  /\ Dressed(i, th)[1] = companions[i].kind
           /\ Dressed(i, th)[3] = Costume(th)
           /\ Swaps(Dressed(i, th)) \in 0..2
           /\ Swaps(Dressed(i, th)) = 0 => companions[i].kind = Costume(th)
           /\ th = visualTheme => Swaps(Dressed(i, th)) = 0
<1>1. companions[i].kind = Costume(visualTheme)
  BY DEF EntityInv, StagesAgree, DressedForTheme, Costume
<1>. DEFINE k == companions[i].kind
            first == IF th # visualTheme THEN SeasonalKind(th) ELSE k
            last == ReferenceKind(th, first)
            K == Dressed(i, th)
<1>2. K[1] = k /\ K[2] = first /\ K[3] = last
  BY DEF Dressed
<1>3. last = Costume(th)
  <2>1. CASE th # visualTheme
    BY <2>1 DEF ReferenceKind, SeasonalKind, Costume
  <2>2. CASE th = visualTheme
    BY <1>1, <2>2 DEF ReferenceKind, Costume
  <2>. QED
    BY <2>1, <2>2
<1>4. th = visualTheme => first = k /\ last = k
  BY <1>1, <1>3
<1>. HIDE DEF first, last, K, k
<1>5. Swaps(K) = (IF k # first THEN 1 ELSE 0) + (IF first # last THEN 1 ELSE 0)
  BY <1>2 DEF Swaps
<1>6. Swaps(K) \in 0..2 /\ (Swaps(K) = 0 => k = last)
  BY <1>5
<1>7. th = visualTheme => Swaps(K) = 0
  BY <1>4, <1>5
<1>. QED
  BY <1>2, <1>3, <1>6, <1>7 DEF K, k

\* The record of a companion after a frame.
LEMMA Swapping ==
    ASSUME EntityInv, NEW th \in Theme, Frame(th), NEW i \in DOMAIN companions
    PROVE  /\ companions' = [j \in DOMAIN companions |-> companions'[j]]
           /\ DOMAIN companions' = DOMAIN companions
           /\ companions'[i].type = companions[i].type
           /\ companions'[i] \in [type : CompanionKinds, kind : CompanionKinds, serial : Nat]
           /\ i \in Astronauts => companions'[i].kind = Costume(th)
           /\ \/ companions'[i] = companions[i]
                 /\ (i \in Astronauts => Swaps(Dressed(i, th)) = 0)
              \/ /\ i \in Astronauts /\ th # visualTheme /\ made' = made + 2
                 /\ Swaps(Dressed(i, th)) \in {1, 2}
                 /\ companions'[i].serial = made + Swaps(Dressed(i, th))
<1>. DEFINE n == Swaps(Dressed(i, th))
            c == companions[i]
<1>1. companions' = [j \in DOMAIN companions |->
        IF j \in Astronauts /\ Swaps(Dressed(j, th)) > 0
        THEN [companions[j] EXCEPT !.kind = Dressed(j, th)[3],
                                   !.serial = made + Swaps(Dressed(j, th))]
        ELSE companions[j]]
  BY DEF Frame, SwapCompanions
<1>2. c \in [type : CompanionKinds, kind : CompanionKinds, serial : 0..made] /\ made \in Nat
  BY DEF EntityInv, EntityTyped
<1>3. c \in [type : CompanionKinds, kind : CompanionKinds, serial : Nat]
  BY <1>2
<1>4. Costume(th) \in CompanionKinds
  BY DEF Costume, CompanionKinds
<1>5. i \in Astronauts =>
         /\ Dressed(i, th)[3] = Costume(th) /\ n \in 0..2
         /\ n = 0 => c.kind = Costume(th)
         /\ th = visualTheme => n = 0
  BY Dressing
<1>6. th # visualTheme => made' = made + 2
  BY DEF Frame
<1>7. CASE i \in Astronauts /\ n > 0
  <2>1. companions'[i] = [c EXCEPT !.kind = Costume(th), !.serial = made + n]
    BY <1>1, <1>5, <1>7
  <2>2. n \in {1, 2} /\ made + n \in Nat /\ th # visualTheme
    BY <1>2, <1>5, <1>7
  <2>. HIDE DEF n, c
  <2>3. /\ companions'[i].type = c.type /\ companions'[i].kind = Costume(th)
        /\ companions'[i].serial = made + n
        /\ companions'[i] \in [type : CompanionKinds, kind : CompanionKinds, serial : Nat]
    BY <1>3, <1>4, <2>1, <2>2
  <2>. QED
    BY <1>1, <1>6, <1>7, <2>2, <2>3 DEF n, c
<1>8. CASE ~(i \in Astronauts /\ n > 0)
  <2>1. companions'[i] = c
    BY <1>1, <1>8
  <2>2. i \in Astronauts => n = 0
    BY <1>5, <1>8
  <2>. HIDE DEF n, c
  <2>. QED
    BY <1>1, <1>3, <1>5, <2>1, <2>2 DEF n, c
<1>. QED
  BY <1>7, <1>8

\* What the frame's swaps replace.
LEMMA ReplacedThings ==
    ASSUME NEW th, NEW r \in Replaced(th)
    PROVE  \E i \in Astronauts :
              /\ r[1] = <<"companion", i>>
              /\ \/ Swaps(Dressed(i, th)) > 0 /\ r[2] = companions[i].serial
                 \/ Swaps(Dressed(i, th)) = 2 /\ r[2] = made + 1
<1>1. PICK i \in Astronauts :
         \/ Swaps(Dressed(i, th)) > 0 /\ r \in Companion(i, Dressed(i, th)[1], companions[i].serial)
         \/ Swaps(Dressed(i, th)) = 2 /\ r \in Companion(i, Dressed(i, th)[2], made + 1)
  BY DEF Replaced
<1>. QED
  BY <1>1, CompanionThings

\* A frame: what is swapped away is freed, and all that is left is found again.
LEMMA FrameStep ==
    ASSUME EntityInv, NEW th \in Theme, Frame(th)
    PROVE  EntityInv'
<1>. DEFINE same == th = visualTheme
            gone1 == IF same THEN {} ELSE TreeResources
            out == Replaced(th) \cup gone1
<1>1. /\ ~gone
      /\ trees' = (IF same THEN trees ELSE IF WantsTrees(th) THEN made + 1 ELSE 0)
      /\ visualTheme' = th
      /\ made' = (IF same THEN made ELSE made + 2)
      /\ UNCHANGED <<drawing, texture, surface, bodyVars, retired, gone>>
      /\ freed' = freed \cup out /\ gpu' = (gpu \ out) \cup Drawn'
  BY DEF Frame
<1>2. EntityTyped /\ Untouched /\ Tracked /\ FreedIsSuperseded /\ DressedForTheme
      /\ ShadowsAndHues /\ TwistedOnce
  BY DEF EntityInv, StagesAgree
<1>3. made \in Nat /\ trees \in 0..made /\ made' \in Nat /\ made <= made'
  BY <1>1, <1>2 DEF EntityTyped
<1>4. trees' \in 0..made'
  BY <1>1, <1>3
<1>5. DOMAIN companions = DOMAIN drawing.companions /\ DOMAIN companions' = DOMAIN companions
  <2>1. DOMAIN companions = DOMAIN drawing.companions
    BY <1>2 DEF EntityTyped
  <2>2. DOMAIN companions' = DOMAIN companions
    BY DEF Frame, SwapCompanions
  <2>. QED
    BY <2>1, <2>2
<1>6. ASSUME NEW i \in DOMAIN companions
      PROVE  companions'[i] \in [type : CompanionKinds, kind : CompanionKinds, serial : 0..made']
  <2>1. companions'[i] \in [type : CompanionKinds, kind : CompanionKinds, serial : Nat]
    BY Swapping
  <2>2. companions'[i].serial \in 0..made'
    <3>1. CASE companions'[i] = companions[i]
      <4>1. companions[i].serial \in 0..made
        BY <1>2 DEF EntityTyped
      <4>. QED
        BY <1>3, <3>1, <4>1
    <3>2. CASE companions'[i] # companions[i]
      <4>1. \E n \in {1, 2} : made' = made + 2 /\ companions'[i].serial = made + n
        BY <3>2, Swapping
      <4>. QED
        BY <1>3, <4>1
    <3>. QED
      BY <3>1, <3>2
  <2>. QED
    BY <2>1, <2>2
<1>7. EntityTyped'
  <2>1. companions' \in [DOMAIN drawing'.companions ->
                           [type : CompanionKinds, kind : CompanionKinds, serial : 0..made']]
    <3>1. companions' = [j \in DOMAIN companions' |-> companions'[j]]
      BY DEF Frame, SwapCompanions
    <3>2. drawing' = drawing
      BY <1>1
    <3>. QED
      BY <1>5, <1>6, <3>1, <3>2
  <2>2. \A i \in DOMAIN companions' : companions'[i].type = drawing'.companions[i]
    BY <1>1, <1>2, <1>5, Swapping DEF EntityTyped
  <2>. HIDE DEF out
  <2>. QED
    BY <1>1, <1>2, <1>3, <1>4, <2>1, <2>2 DEF EntityTyped, bodyVars
<1>8. Untouched'
  BY <1>1, <1>2 DEF Untouched, bodyVars
<1>9. Astronauts' = Astronauts
  BY <1>5, Swapping DEF Astronauts
<1>10. DressedForTheme'
  <2>1. \A i \in Astronauts' : companions'[i].kind = Costume(th)
    BY <1>9, Swapping DEF Astronauts
  <2>2. (trees' # 0) = WantsTrees(th)
    <3>1. CASE same
      BY <1>1, <1>2, <3>1 DEF DressedForTheme
    <3>2. CASE ~same
      BY <1>1, <1>3, <3>2 DEF WantsTrees
    <3>. QED
      BY <3>1, <3>2
  <2>3. WantsTrees(visualTheme)' = WantsTrees(th)
    BY <1>1 DEF WantsTrees
  <2>. QED
    BY <1>1, <2>1, <2>2, <2>3 DEF DressedForTheme, Costume
<1>11. StagesAgree'
  BY <1>1, <1>2, <1>10 DEF StagesAgree, ShadowsAndHues, TwistedOnce, bodyVars
<1>12. Studio' = Studio
  BY DEF Studio, Res
<1>13. Studio \notin out
  <2>1. Studio \notin Replaced(th)
    BY ReplacedThings, ThingsDiffer
  <2>2. Studio \notin TreeResources
    BY ThingOf, ThingsDiffer DEF TreeResources
  <2>. QED
    BY <2>1, <2>2
<1>14. ASSUME NEW r \in freed
       PROVE  Superseded(r)'
  <2>1. Superseded(r)
    BY <1>1, <1>2 DEF FreedIsSuperseded
  <2>2. ASSUME NEW i \in DOMAIN companions, r[1] = <<"companion", i>>, r[2] \in 0..made,
               r[2] # companions[i].serial
        PROVE  r[2] \in 0..made' /\ r[2] # companions'[i].serial
    <3>1. CASE companions'[i] = companions[i]
      BY <1>3, <2>2, <3>1
    <3>2. CASE companions'[i] # companions[i]
      <4>1. \E n \in {1, 2} : made' = made + 2 /\ companions'[i].serial = made + n
        BY <3>2, Swapping
      <4>. QED
        BY <1>3, <2>2, <4>1
    <3>. QED
      BY <3>1, <3>2
  <2>3. ASSUME r[1] = <<"trees", 0>>, r[2] \in 1..made, r[2] # trees
        PROVE  r[2] \in 1..made' /\ r[2] # trees'
    BY <1>1, <1>3, <2>3
  <2>. QED
    BY <1>5, <2>1, <2>2, <2>3 DEF Superseded
<1>15. ASSUME NEW r \in out
       PROVE  Superseded(r)'
  <2>1. CASE r \in Replaced(th)
    <3>1. PICK i \in Astronauts :
              /\ r[1] = <<"companion", i>>
              /\ \/ Swaps(Dressed(i, th)) > 0 /\ r[2] = companions[i].serial
                 \/ Swaps(Dressed(i, th)) = 2 /\ r[2] = made + 1
      BY <2>1, ReplacedThings
    <3>2. i \in DOMAIN companions
      BY DEF Astronauts
    <3>3. companions[i].serial \in 0..made
      BY <1>2, <3>2 DEF EntityTyped
    <3>. DEFINE n == Swaps(Dressed(i, th))
    <3>4. n \in {1, 2} /\ made' = made + 2 /\ companions'[i].serial = made + n
      <4>1. n # 0
        BY <3>1
      <4>. QED
        BY <3>2, <4>1, Swapping
    <3>. HIDE DEF n
    <3>5. \/ r[2] = companions[i].serial
          \/ n = 2 /\ r[2] = made + 1
      BY <3>1 DEF n
    <3>6. r[2] \in 0..made' /\ r[2] # companions'[i].serial
      BY <1>3, <3>3, <3>4, <3>5
    <3>. QED
      BY <1>5, <3>1, <3>2, <3>6 DEF Superseded
  <2>2. CASE r \in TreeResources /\ ~same
    <3>1. r[1] = <<"trees", 0>> /\ r[2] = trees /\ trees # 0
      BY <2>2, ThingOf DEF TreeResources
    <3>2. r[2] \in 1..made' /\ r[2] # trees'
      BY <1>1, <1>3, <2>2, <3>1
    <3>. QED
      BY <3>1, <3>2 DEF Superseded
  <2>. QED
    BY <2>1, <2>2
<1>16. FreedIsSuperseded'
  <2>1. Studio \notin freed
    BY <1>2 DEF FreedIsSuperseded
  <2>. HIDE DEF out
  <2>. QED
    BY <1>1, <1>12, <1>13, <1>14, <1>15, <2>1 DEF FreedIsSuperseded
<1>17. ASSUME NEW r \in Companions
       PROVE  r \in out \/ r \in Companions'
  <2>1. PICK i \in DOMAIN companions : r \in Companion(i, companions[i].kind, companions[i].serial)
    BY DEF Companions
  <2>2. CASE companions'[i] = companions[i]
    <3>1. r \in Companion(i, companions'[i].kind, companions'[i].serial)
      BY <2>1, <2>2
    <3>2. r \in Companion(i, companions[i].kind, companions[i].serial)'
      BY <1>1, <3>1 DEF Companion
    <3>. QED
      BY <1>5, <3>2 DEF Companions
  <2>3. CASE companions'[i] # companions[i]
    <3>1. i \in Astronauts /\ Swaps(Dressed(i, th)) > 0
      BY <2>3, Swapping
    <3>2. Dressed(i, th)[1] = companions[i].kind
      BY <3>1, Dressing
    <3>3. r \in Replaced(th)
      BY <2>1, <3>1, <3>2 DEF Replaced
    <3>. QED
      BY <3>3
  <2>. QED
    BY <2>2, <2>3
<1>18. ASSUME NEW r \in MeshTree \cup Beside
       PROVE  r \in out \/ r \in (MeshTree \cup Beside)'
  <2>1. /\ ({BodyGeometry(geometry)} \cup BodyMaterial(material) \cup Shells \cup Terrain)'
             = {BodyGeometry(geometry)} \cup BodyMaterial(material) \cup Shells \cup Terrain
        /\ Decorations' = Decorations /\ OrbitRing' = OrbitRing
    BY <1>1 DEF BodyGeometry, BodyMaterial, Shells, Terrain, Decorations, OrbitRing, bodyVars
  <2>2. CASE r \in TreeResources
    <3>1. CASE same
      <4>1. TreeResources' = TreeResources
        BY <1>1, <3>1 DEF TreeResources
      <4>. QED
        BY <2>2, <4>1 DEF MeshTree
    <3>2. CASE ~same
      BY <2>2, <3>2
    <3>. QED
      BY <3>1, <3>2
  <2>3. CASE r \in Companions
    BY <1>17, <2>3 DEF Beside
  <2>4. CASE r \in {BodyGeometry(geometry)} \cup BodyMaterial(material) \cup Shells \cup Terrain
    BY <2>1, <2>4 DEF MeshTree
  <2>5. CASE r \in Decorations \cup OrbitRing
    BY <2>1, <2>5 DEF Beside
  <2>. QED
    BY <2>2, <2>3, <2>4, <2>5 DEF MeshTree, Beside
<1>19. /\ Drawn' \subseteq (MeshTree \cup Beside \cup Left)'
       /\ Left' = Left
  <2>2. Left' = Left
    BY <1>1, LeftIsFixed
  <2>3. Drawn' \subseteq (MeshTree \cup Beside \cup Left)'
    BY DEF Drawn, Left
  <2>. QED
    BY <2>2, <2>3
<1>20. Tracked'
  <2>1. gpu \subseteq MeshTree \cup retired \cup Beside \cup Left
    BY <1>1, <1>2 DEF Tracked
  <2>2. \A r \in retired' : r[1] = Body
    BY <1>1, <1>2 DEF Tracked
  <2>. HIDE DEF out
  <2>3. gpu' \subseteq (MeshTree \cup Beside)' \cup retired' \cup Left
    BY <1>1, <1>12, <1>18, <1>19, <2>1
  <2>. QED
    BY <1>1, <1>12, <1>19, <2>2, <2>3 DEF Tracked
<1>. QED
  BY <1>7, <1>8, <1>11, <1>16, <1>20 DEF EntityInv

\* Every step keeps the books.
LEMMA EntitySteps == EntityInv /\ [EntityNext]_entityVars => EntityInv'
<1>. SUFFICES ASSUME EntityInv, [EntityNext]_entityVars PROVE EntityInv'
  OBVIOUS
<1>1. CASE UNCHANGED entityVars
  <2>1. /\ UNCHANGED <<drawing, texture, surface, bodyVars, themeVars, retired, gone, gpu, freed>>
        /\ Studio' = Studio
    BY <1>1 DEF entityVars, Studio, Res
  <2>2. EntityTyped' /\ Untouched' /\ ShadowsAndHues' /\ TwistedOnce'
    BY <2>1 DEF EntityInv, StagesAgree, EntityTyped, Untouched, ShadowsAndHues, TwistedOnce, bodyVars, themeVars
  <2>3. MeshTree' = MeshTree /\ retired' = retired
    BY <2>1 DEF MeshTree, BodyGeometry, BodyMaterial, Shells, Terrain, TreeResources, themeVars, bodyVars
  <2>4. \A r \in retired' : r[1] = Body
    BY <2>3 DEF EntityInv, Tracked
  <2>. QED
    BY <2>1, <2>2, <2>3, <2>4, BodySteps
<1>2. CASE EntityNext
  BY <1>2, TextureStep, NothingStep, MapsStep, FrameStep, DisposeStep, Zenon DEF EntityNext
<1>. QED
  BY <1>1, <1>2

\* The invariant says what the runs check.
LEMMA EntityInvMeans == EntityInv => ResourcesBalance /\ StagesAgree
<1>. SUFFICES ASSUME EntityInv PROVE ResourcesBalance
  BY DEF EntityInv
<1>1. EntityTypeOK
  <2>1. \A i \in DOMAIN companions : companions[i].serial \in 0..made
    BY DEF EntityInv, EntityTyped
  <2>2. DOMAIN companions = DOMAIN drawing.companions
    BY DEF EntityInv, EntityTyped
  <2>. QED
    BY <2>1, <2>2 DEF EntityInv, EntityTyped, EntityTypeOK
<1>2. NothingLeaks
  BY DEF EntityInv, Tracked, NothingLeaks, Left
<1>3. NothingFreedIsShown
  BY SupersededIsAway DEF EntityInv, FreedIsSuperseded, NothingFreedIsShown
<1>. QED
  BY <1>1, <1>2, <1>3 DEF ResourcesBalance

\* A planet's GPU resources balance, for any drawings, craters, ranges, themes and
\* numbers of frames: nothing of a planet that left the wall stays on the GPU but the
\* instance buffers of a ring, which the code does not free, and nothing is drawn after it
\* was freed (PlanetEntity.dispose and the stages around it).
THEOREM ResourcesStayBalanced == EntitySpec => []ResourcesBalance
<1>. QED
  BY EntityStarts, EntitySteps, EntityInvMeans, PTL DEF EntitySpec

\* Two stages that dress astronauts and do not know of one another agree in every theme,
\* rings and surfaces cast no shadow they should not, and the sweep comes once.
THEOREM StagesAlwaysAgree == EntitySpec => []StagesAgree
<1>. QED
  BY EntityStarts, EntitySteps, EntityInvMeans, PTL DEF EntitySpec
------------------------------------------------------------------------------
(* The sky.                                                                 *)

\* The belt is large enough to show every style of its theme's mix.
BeltShowsItsMix ==
    \A t \in SkyTheme :
        {StyleForIndex(t, i - 1) : i \in 1..BeltBodies} = {Mix(t)[i][1] : i \in 1..Len(Mix(t))}

Settings == [theme : SkyTheme, asteroidBelt : BOOLEAN, ambient : BOOLEAN,
             enabled : [Kinds -> BOOLEAN], frequency : [Kinds -> Frequency]]

\* What a comet consists of, or the bodies of a fly-by.
Bodies == {{}} \cup UNION {{InstancedBodies[t][n] : n \in {BeltBodies} \cup FlybyBodies} : t \in SkyTheme}

Flight(k) == [kind : {k}, no : Nat \ {0}, age : Nat, life : Lifetime(k), theme : SkyTheme, bodies : Bodies]

\* The groups of one kind that are under way.
Aloft(k, s) ==
    /\ s \subseteq Flight(k) /\ IsFiniteSet(s)
    /\ \A f, g \in s : f.no = g.no => f = g
    /\ \A f \in s : f.age < f.life

\* The variables' types.
SkyTyped ==
    /\ settings \in Settings
    /\ belt \in {None} \cup {CreateAsteroidBelt(t) : t \in SkyTheme}
    /\ particles \in {None} \cup [kind : {"particles"}, theme : SkyTheme]
    /\ flights = [k \in Kinds |-> flights[k]]
    /\ \A k \in Kinds : Aloft(k, flights[k])
    /\ next \in [Kinds -> Nat \cup {Never}]
    /\ starSpeed \in SkyTheme \cup {"rest"}
    /\ behaviors \in Nat

\* Of the groups under way those that will outlast the beginning of the next came
\* from a change of the settings.
Outlasting(s, n) == {f \in s : f.life - f.age > n}
Rhythm(k) == settings.enabled[k] => Cardinality(Outlasting(flights[k], next[k])) <= behaviors

\* What was made when the theme changed is of the theme.
InAttire ==
    /\ \A f \in flights["flyby"] : f.theme = settings.theme
    /\ belt # None => belt.theme = settings.theme
    /\ particles # None => particles.theme = settings.theme

\* What SkyIsInStep needs to be inductive.
SkyInv ==
    /\ SkyTyped /\ SceneIsTracked /\ SkyFollowsSettings /\ InAttire /\ SkyIsCalm /\ LightsKeepTheme
    /\ \A k \in Kinds : Rhythm(k)

\* The assumption on the constants of the sky, fact by fact.
LEMMA SkyNumbers ==
    /\ "default" \in SkyTheme /\ "normal" \in Frequency
    /\ Behavior \subseteq Settings
    /\ ThemeWarmUp \subseteq Nat
    /\ \A k \in Kinds : WarmUp(k) \subseteq Nat /\ Lifetime(k) \subseteq Nat \ {0}
    /\ \A k \in Kinds, f \in Frequency : Interval(k, f) \subseteq Nat
    /\ \A k \in Kinds, f \in Frequency : \A i \in Interval(k, f), life \in Lifetime(k) : life <= i
  BY SkyAssumption DEF Settings

\* A picture of a finite set is no larger.
LEMMA PictureIsNoLarger ==
  ASSUME NEW s, IsFiniteSet(s), NEW F, DOMAIN F = s
  PROVE  /\ IsFiniteSet({F[x] : x \in s})
         /\ Cardinality({F[x] : x \in s}) <= Cardinality(s)
<1>. DEFINE t == {F[x] : x \in s}
            G == [x \in s |-> F[x]]
<1>1. G \in Surjection(s, t)
  BY DEF Surjection
<1>. QED
  BY <1>1, FS_Surjection

\* The number a new group gets is of none under way.
LEMMA NumberIsFree ==
  ASSUME SkyTyped, NEW k \in Kinds
  PROVE  FreeNo(k) \in Nat \ {0} /\ \A f \in flights[k] : f.no # FreeNo(k)
<1>. DEFINE s == flights[k]
            c == Cardinality(s)
            nos == {f.no : f \in s}
            free == 1..(c + 1) \ nos
<1>1. Aloft(k, s)
  BY DEF SkyTyped
<1>2. IsFiniteSet(s) /\ c \in Nat
  BY <1>1, FS_CardinalityType DEF Aloft
<1>3. IsFiniteSet(nos) /\ Cardinality(nos) <= c
  <2>. DEFINE F == [f \in s |-> f.no]
  <2>1. nos = {F[f] : f \in s}
    OBVIOUS
  <2>2. DOMAIN F = s
    OBVIOUS
  <2>. HIDE DEF F
  <2>. QED
    BY <1>2, <2>1, <2>2, PictureIsNoLarger
<1>4. Cardinality(nos) \in Nat
  BY <1>3, FS_CardinalityType
<1>5. free # {}
  <2>1. SUFFICES ASSUME 1..(c + 1) \subseteq nos PROVE FALSE
    OBVIOUS
  <2>2. Cardinality(1..(c + 1)) <= Cardinality(nos)
    BY <1>3, <2>1, FS_Subset
  <2>3. 1 \in Int /\ c + 1 \in Int /\ ~(1 > c + 1) /\ c + 1 - 1 + 1 = c + 1
    BY <1>2
  <2>4. Cardinality(1..(c + 1)) = c + 1
    BY <2>3, FS_Interval
  <2>. QED
    BY <1>2, <1>3, <1>4, <2>2, <2>4
<1>. HIDE DEF free
<1>6. free \subseteq Nat
  BY <1>2 DEF free
<1>7. \E m \in free : \A n \in free : m <= n
  BY <1>5, <1>6, LeastNatural
<1>8. FreeNo(k) \in free
  <2>1. FreeNo(k) = Min(free)
    BY DEF FreeNo, free
  <2>. QED
    BY <1>7, <2>1 DEF Min
<1>. QED
  BY <1>2, <1>8 DEF free

\* A new group, whose number is free, is well formed.
LEMMA CreatedIsFlight ==
  ASSUME SkyTyped, NEW k \in Kinds, NEW life \in Lifetime(k), NEW n \in FlybyBodies
  PROVE  LET c == CreateFlight(k, life, n) IN
         /\ c \in Flight(k) /\ c.no = FreeNo(k) /\ c.age = 0 /\ c.life = life
         /\ k = "flyby" => c.theme = settings.theme
<1>. FreeNo(k) \in Nat \ {0} /\ settings.theme \in SkyTheme /\ "default" \in SkyTheme
  BY NumberIsFree, SkyNumbers DEF SkyTyped, Settings
<1>1. CASE k = "comet"
  <2>1. {} \in Bodies
    BY DEF Bodies
  <2>. QED
    BY <1>1, <2>1 DEF CreateFlight, CreateComet, Flight
<1>2. CASE k = "flyby"
  <2>1. InstancedBodies[settings.theme][n] \in Bodies
    <3>1. settings.theme \in SkyTheme /\ n \in {BeltBodies} \cup FlybyBodies
      OBVIOUS
    <3>. QED
      BY <3>1 DEF Bodies
  <2>2. CreateFlight(k, life, n) =
            [kind |-> "flyby", no |-> FreeNo("flyby"), age |-> 0, life |-> life,
             theme |-> settings.theme, bodies |-> InstancedBodies[settings.theme][n]]
    BY <1>2 DEF CreateFlight, CreateFlyby
  <2>3. PICK bodies \in Bodies : bodies = InstancedBodies[settings.theme][n]
    BY <2>1
  <2>4. CreateFlight(k, life, n) =
            [kind |-> "flyby", no |-> FreeNo(k), age |-> 0, life |-> life,
             theme |-> settings.theme, bodies |-> bodies]
    BY <1>2, <2>2, <2>3
  <2>. QED
    BY <1>2, <2>4 DEF Flight
<1>. QED
  BY <1>1, <1>2 DEF Kinds

\* A frame later.
Moved(s) == {[g EXCEPT !.age = @ + 1] : g \in s}

\* Nothing begins, or one group whose number is free.
Begins(k, s, new) ==
    \/ new = {}
    \/ \E c \in Flight(k) : new = {c} /\ c.age = 0 /\ \A f \in s : f.no # c.no

\* What is under way moves on, and keeps its number.
LEMMA MovedGroups ==
  ASSUME NEW k \in Kinds, NEW s, Aloft(k, s)
  PROVE  /\ \A f \in s : LET m == [f EXCEPT !.age = @ + 1] IN
               m \in Flight(k) /\ m.no = f.no /\ m.life = f.life /\ m.age = f.age + 1 /\ m.theme = f.theme
         /\ \A m \in Moved(s) : m \in Flight(k) /\ \E f \in s :
               m = [f EXCEPT !.age = @ + 1] /\ m.no = f.no /\ m.life = f.life /\ m.age = f.age + 1 /\ m.theme = f.theme
         /\ \A f, g \in Moved(s) : f.no = g.no => f = g
         /\ IsFiniteSet(Moved(s))
<1>1. ASSUME NEW f \in s
      PROVE  LET m == [f EXCEPT !.age = @ + 1] IN
               m \in Flight(k) /\ m.no = f.no /\ m.life = f.life /\ m.age = f.age + 1 /\ m.theme = f.theme
  <2>1. f \in Flight(k)
    BY DEF Aloft
  <2>. QED
    BY <2>1 DEF Flight
<1>2. \A m \in Moved(s) : m \in Flight(k) /\ \E f \in s :
               m = [f EXCEPT !.age = @ + 1] /\ m.no = f.no /\ m.life = f.life /\ m.age = f.age + 1 /\ m.theme = f.theme
  BY <1>1 DEF Moved
<1>3. \A f, g \in Moved(s) : f.no = g.no => f = g
  BY <1>2 DEF Aloft
<1>4. IsFiniteSet(Moved(s))
  <2>. DEFINE F == [f \in s |-> [f EXCEPT !.age = @ + 1]]
  <2>1. Moved(s) = {F[f] : f \in s} /\ DOMAIN F = s
    BY DEF Moved
  <2>. HIDE DEF F
  <2>. QED
    BY <2>1, PictureIsNoLarger DEF Aloft
<1>. QED
  BY <1>1, <1>2, <1>3, <1>4

\* A frame leaves the groups of a kind well formed: those that have arrived are gone.
LEMMA GroupsStayAloft ==
  ASSUME NEW k \in Kinds, NEW s, Aloft(k, s), NEW new, Begins(k, s, new)
  PROVE  Aloft(k, {g \in Moved(s) \cup new : ~Arrived(g)})
<1>. DEFINE all == Moved(s) \cup new
            kept == {g \in all : ~Arrived(g)}
<1>1. all \subseteq Flight(k)
  BY MovedGroups DEF Begins
<1>2. IsFiniteSet(all)
  <2>1. IsFiniteSet(Moved(s))
    BY MovedGroups
  <2>2. CASE new = {}
    BY <2>1, <2>2
  <2>3. CASE \E c \in Flight(k) : new = {c}
    BY <2>1, <2>3, FS_AddElement
  <2>. QED
    BY <2>2, <2>3 DEF Begins
<1>3. ASSUME NEW f \in all, NEW g \in all, f.no = g.no PROVE f = g
  <2>1. CASE f \in Moved(s) /\ g \in Moved(s)
    BY <1>3, <2>1, MovedGroups
  <2>2. \A m \in Moved(s) : \A c \in new : m.no # c.no
    BY MovedGroups DEF Begins
  <2>3. \A c, d \in new : c = d
    BY DEF Begins
  <2>. QED
    BY <1>3, <2>1, <2>2, <2>3
<1>4. IsFiniteSet(kept)
  BY <1>2, FS_Subset
<1>5. ASSUME NEW g \in kept PROVE g.age < g.life
  <2>1. g \in Flight(k) /\ ~(g.age >= g.life)
    BY <1>1 DEF Arrived
  <2>2. g.age \in Nat /\ g.life \in Nat
    BY <2>1, SkyNumbers DEF Flight
  <2>. QED
    BY <2>1, <2>2
<1>6. kept \subseteq Flight(k) /\ \A f, g \in kept : f.no = g.no => f = g
  BY <1>1, <1>3
<1>. HIDE DEF kept
<1>7. Aloft(k, kept)
  BY <1>4, <1>5, <1>6 DEF Aloft
<1>. QED
  BY <1>7 DEF kept
------------------------------------------------------------------------------
\* What is seen of groups of one kind, and of the rest of the sky.
Sighted(k, s) == {<<k, f.no>> : f \in s}
Backdrop ==
    {<<"stars", 7200>>}
    \cup (IF belt = None THEN {} ELSE {<<"belt", belt.theme>>})
    \cup (IF particles = None THEN {} ELSE {<<"particles", particles.theme>>})

\* How the scene knows a group; and no group is None.
LEMMA GroupsOf ==
  ASSUME SkyTyped
  PROVE  /\ \A k \in Kinds : \A f \in Flight(k) : Group(f) = <<k, f.no>> /\ f # None
         /\ belt # None => Group(belt) = <<"belt", belt.theme>>
         /\ particles # None => Group(particles) = <<"particles", particles.theme>>
<1>1. ASSUME NEW k \in Kinds, NEW f \in Flight(k) PROVE Group(f) = <<k, f.no>> /\ f # None
  <2>1. f.kind = k
    BY DEF Flight
  <2>2. None.kind = "none"
    BY DEF None
  <2>. QED
    BY <2>1, <2>2 DEF Group, Kinds
<1>2. ASSUME belt # None PROVE Group(belt) = <<"belt", belt.theme>>
  <2>1. PICK t \in SkyTheme : belt = CreateAsteroidBelt(t)
    BY <1>2 DEF SkyTyped
  <2>2. belt.kind = "belt"
    BY <2>1 DEF CreateAsteroidBelt
  <2>. QED
    BY <2>2 DEF Group
<1>3. ASSUME particles # None PROVE Group(particles) = <<"particles", particles.theme>>
  <2>1. particles.kind = "particles"
    BY <1>3 DEF SkyTyped
  <2>. QED
    BY <2>1 DEF Group
<1>. QED
  BY <1>1, <1>2, <1>3

\* The scene is tracked if it holds the backdrop and the two kinds of flights.
LEMMA SceneSeen ==
  ASSUME SkyTyped
  PROVE  SceneIsTracked <=>
            scene = Backdrop \cup Sighted("comet", flights["comet"]) \cup Sighted("flyby", flights["flyby"])
<1>. DEFINE seen == {Group(g) : g \in (Flying \cup {belt, particles}) \ {None}}
            rest == {Group(g) : g \in {belt, particles} \ {None}}
<1>1. \A k \in Kinds : flights[k] \subseteq Flight(k)
  BY DEF SkyTyped, Aloft
<1>2. \A k \in Kinds : {Group(f) : f \in flights[k] \ {None}} = Sighted(k, flights[k])
  BY <1>1, GroupsOf DEF Sighted
<1>3. {<<"stars", 7200>>} \cup rest = Backdrop
  BY GroupsOf DEF Backdrop
<1>4. seen = {Group(f) : f \in flights["comet"] \ {None}} \cup {Group(f) : f \in flights["flyby"] \ {None}} \cup rest
  BY DEF Flying
<1>5. "comet" \in Kinds /\ "flyby" \in Kinds
  BY DEF Kinds
<1>. HIDE DEF rest, seen
<1>6. {<<"stars", 7200>>} \cup seen = Backdrop \cup Sighted("comet", flights["comet"]) \cup Sighted("flyby", flights["flyby"])
  BY <1>2, <1>3, <1>4, <1>5
<1>. QED
  BY <1>6 DEF SceneIsTracked, seen

\* The scene of a kind after a frame.
LEMMA DrawnMoves ==
  ASSUME NEW k \in Kinds, NEW s, Aloft(k, s), NEW new, Begins(k, s, new)
  PROVE  LET landed == {g \in Moved(s) : Arrived(g)} IN
         /\ Sighted(k, {g \in Moved(s) \cup new : ~Arrived(g)})
              = (Sighted(k, s) \cup Sighted(k, new)) \ Sighted(k, landed)
<1>. DEFINE landed == {g \in Moved(s) : Arrived(g)}
            kept == {g \in Moved(s) \cup new : ~Arrived(g)}
<1>1. Sighted(k, Moved(s)) = Sighted(k, s)
  <2>1. ASSUME NEW f \in s PROVE <<k, f.no>> \in Sighted(k, Moved(s))
    <3>. DEFINE m == [f EXCEPT !.age = @ + 1]
    <3>1. m \in Moved(s)
      BY DEF Moved
    <3>2. m.no = f.no
      BY MovedGroups
    <3>. QED
      BY <3>1, <3>2 DEF Sighted
  <2>2. ASSUME NEW m \in Moved(s) PROVE <<k, m.no>> \in Sighted(k, s)
    BY MovedGroups DEF Sighted
  <2>. QED
    BY <2>1, <2>2 DEF Sighted
<1>2. \A c \in new : ~Arrived(c)
  <2>1. \A c \in new : c \in Flight(k) /\ c.age = 0
    BY DEF Begins
  <2>2. \A c \in new : c.life \in Nat \ {0}
    BY <2>1, SkyNumbers DEF Flight
  <2>. QED
    BY <2>1, <2>2 DEF Arrived
<1>3. \A f, g \in Moved(s) \cup new : f.no = g.no => f = g
  <2>1. \A f, g \in Moved(s) : f.no = g.no => f = g
    BY MovedGroups
  <2>2. \A m \in Moved(s) : \A c \in new : m.no # c.no
    BY MovedGroups DEF Begins
  <2>3. \A c, d \in new : c = d
    BY DEF Begins
  <2>. QED
    BY <2>1, <2>2, <2>3
<1>4. \A f, g : <<k, f.no>> = <<k, g.no>> <=> f.no = g.no
  OBVIOUS
<1>5. Sighted(k, kept) = Sighted(k, Moved(s) \cup new) \ Sighted(k, landed)
  <2>1. kept \subseteq Moved(s) \cup new /\ landed \subseteq Moved(s) \cup new
    OBVIOUS
  <2>2. \A f \in Moved(s) \cup new : f \in kept <=> f \notin landed
    BY <1>2
  <2>. HIDE DEF kept, landed
  <2>3. ASSUME NEW x \in Sighted(k, kept) PROVE x \in Sighted(k, Moved(s) \cup new) \ Sighted(k, landed)
    BY <1>3, <1>4, <2>1, <2>2 DEF Sighted
  <2>4. ASSUME NEW x \in Sighted(k, Moved(s) \cup new) \ Sighted(k, landed) PROVE x \in Sighted(k, kept)
    BY <2>1, <2>2 DEF Sighted
  <2>. QED
    BY <2>3, <2>4
<1>6. Sighted(k, Moved(s) \cup new) = Sighted(k, Moved(s)) \cup Sighted(k, new)
  BY DEF Sighted
<1>. QED
  BY <1>1, <1>5, <1>6
------------------------------------------------------------------------------
\* A frame is one unit of time for what is due.
LEMMA LaterIs ==
  ASSUME NEW n \in Nat
  PROVE  Later(n) = IF n = 0 THEN 0 ELSE n - 1
<1>1. n # Never
  BY DEF Never
<1>2. n - 1 \in Int
  OBVIOUS
<1>3. ASSUME NEW m \in {n - 1, 0}, \A y \in {n - 1, 0} : m >= y PROVE Max({n - 1, 0}) = m
  <2>1. \A x \in {n - 1, 0} : (\A y \in {n - 1, 0} : x >= y) => x = m
    BY <1>3, <1>2
  <2>2. \E x \in {n - 1, 0} : \A y \in {n - 1, 0} : x >= y
    BY <1>3
  <2>. QED
    BY <2>1, <2>2 DEF Max
<1>4. CASE n = 0
  BY <1>1, <1>3, <1>4 DEF Later
<1>5. CASE n # 0
  <2>1. Max({n - 1, 0}) = n - 1
    BY <1>3, <1>5
  <2>. QED
    BY <1>1, <1>5, <2>1 DEF Later
<1>. QED
  BY <1>4, <1>5

\* As much outlasts a time after a frame as outlasted the next unit before it.
LEMMA OutlastingMoves ==
  ASSUME NEW k \in Kinds, NEW s, Aloft(k, s), NEW n \in Nat, NEW part \in SUBSET Outlasting(Moved(s), n)
  PROVE  /\ IsFiniteSet(part) /\ Cardinality(part) \in Nat
         /\ Cardinality(part) <= Cardinality(Outlasting(s, n + 1))
<1>. DEFINE old == Outlasting(s, n + 1)
            F == [f \in old |-> [f EXCEPT !.age = @ + 1]]
            image == {F[f] : f \in old}
<1>1. IsFiniteSet(old)
  BY FS_Subset DEF Outlasting, Aloft
<1>2. IsFiniteSet(image) /\ Cardinality(image) <= Cardinality(old)
  <2>1. DOMAIN F = old
    OBVIOUS
  <2>. HIDE DEF F, old
  <2>. QED
    BY <1>1, <2>1, PictureIsNoLarger
<1>3. part \subseteq image
  <2>1. SUFFICES ASSUME NEW m \in part PROVE m \in image
    OBVIOUS
  <2>2. m \in Moved(s) /\ m.life - m.age > n
    BY DEF Outlasting
  <2>3. PICK f \in s : m = [f EXCEPT !.age = @ + 1] /\ m.life = f.life /\ m.age = f.age + 1
    BY <2>2, MovedGroups
  <2>4. f.life \in Nat /\ f.age \in Nat
    BY SkyNumbers DEF Aloft, Flight
  <2>5. f \in old
    BY <2>2, <2>3, <2>4 DEF Outlasting
  <2>. QED
    BY <2>3, <2>5
<1>4. IsFiniteSet(part) /\ Cardinality(part) <= Cardinality(image)
  BY <1>2, <1>3, FS_Subset
<1>5. Cardinality(part) \in Nat /\ Cardinality(image) \in Nat /\ Cardinality(old) \in Nat
  BY <1>1, <1>2, <1>4, FS_CardinalityType
<1>. QED
  BY <1>2, <1>4, <1>5

\* After a frame one kind of flight keeps to its rhythm, and its settings.
LEMMA FrameOfKind ==
  ASSUME SkyInv, NEW k \in Kinds, NEW new, Begins(k, flights[k], new), Due(k) \/ new = {},
         NEW n \in Times(k)
  PROVE  LET kept == {g \in Moved(flights[k]) \cup new : ~Arrived(g)} IN
         /\ n \in Nat \cup {Never}
         /\ IF settings.enabled[k] THEN n # Never ELSE kept = {} /\ n = Never
         /\ Cardinality(kept) <= 1 + behaviors
         /\ settings.enabled[k] => Cardinality(Outlasting(kept, n)) <= behaviors
<1>. DEFINE s == flights[k]
            kept == {g \in Moved(s) \cup new : ~Arrived(g)}
            survivors == {g \in Moved(s) : ~Arrived(g)}
<1>1. /\ Aloft(k, s) /\ Aloft(k, kept) /\ behaviors \in Nat
      /\ next[k] \in Nat \cup {Never} /\ settings.enabled[k] \in BOOLEAN
      /\ settings.frequency[k] \in Frequency
  BY GroupsStayAloft DEF SkyInv, SkyTyped, Settings
<1>2. /\ \A f \in kept : f.age \in Nat /\ f.life \in Lifetime(k) /\ f.life \in Nat
      /\ \A f \in s : f.age \in Nat /\ f.life \in Nat
      /\ \A f \in Moved(s) : f.age \in Nat /\ f.life \in Nat
  BY <1>1, MovedGroups, SkyNumbers DEF Aloft, Flight
<1>3. Cardinality(s) <= 1 + behaviors /\ Cardinality(s) \in Nat
  BY <1>1, FS_CardinalityType DEF SkyInv, SkyIsCalm, Aloft
<1>4. survivors \subseteq Outlasting(Moved(s), 0)
  BY <1>2 DEF Arrived, Outlasting
<1>5. IsFiniteSet(survivors) /\ Cardinality(survivors) \in Nat
      /\ Cardinality(survivors) <= Cardinality(Outlasting(s, 1))
  BY <1>1, <1>4, OutlastingMoves
<1>6. \A i \in Nat : /\ Outlasting(s, i) \subseteq s
                     /\ Cardinality(Outlasting(s, i)) \in Nat
                     /\ Cardinality(Outlasting(s, i)) <= Cardinality(s)
  <2>1. SUFFICES ASSUME NEW i \in Nat
                 PROVE  /\ Outlasting(s, i) \subseteq s
                        /\ Cardinality(Outlasting(s, i)) \in Nat
                        /\ Cardinality(Outlasting(s, i)) <= Cardinality(s)
    OBVIOUS
  <2>2. Outlasting(s, i) \subseteq s
    BY DEF Outlasting
  <2>. QED
    BY <1>1, <2>2, FS_Subset, FS_CardinalityType DEF Aloft
<1>7. CASE ~settings.enabled[k]
  <2>1. s = {} /\ next[k] = Never /\ new = {}
    BY <1>7 DEF SkyInv, SkyFollowsSettings, Due
  <2>2. kept = {}
    BY <2>1 DEF Moved
  <2>3. n = Never
    BY <1>7, <2>1 DEF Times, Due, Later
  <2>4. Cardinality(kept) = 0
    BY <2>2, FS_EmptySet
  <2>. QED
    BY <1>1, <1>7, <2>2, <2>3, <2>4
<1>8. CASE settings.enabled[k] /\ Due(k)
  <2>1. next[k] \in {0, 1}
    <3>1. next[k] \in Nat
      BY <1>1, <1>8 DEF SkyInv, SkyFollowsSettings
    <3>2. Later(next[k]) = 0
      BY <1>8 DEF Due
    <3>. QED
      BY <3>1, <3>2, LaterIs
  <2>2. n \in Nat /\ \A life \in Lifetime(k) : life <= n
    BY <1>1, <1>8, SkyNumbers DEF Times
  <2>3. Outlasting(kept, n) = {}
    BY <1>2, <2>2 DEF Outlasting
  <2>4. Cardinality(Outlasting(kept, n)) = 0
    BY <2>3, FS_EmptySet
  <2>5. Outlasting(s, 1) \subseteq Outlasting(s, next[k])
    BY <1>2, <2>1 DEF Outlasting
  <2>6. Cardinality(Outlasting(s, 1)) <= Cardinality(Outlasting(s, next[k]))
    <3>1. IsFiniteSet(Outlasting(s, next[k]))
      BY <1>1, FS_Subset DEF Outlasting, Aloft
    <3>. QED
      BY <2>5, <3>1, FS_Subset
  <2>7. Cardinality(Outlasting(s, next[k])) <= behaviors
    BY <1>8 DEF SkyInv, Rhythm
  <2>8. Cardinality(survivors) <= behaviors
    <3>1. Cardinality(Outlasting(s, 1)) \in Nat /\ Cardinality(Outlasting(s, next[k])) \in Nat
      BY <1>6, <2>1
    <3>. QED
      BY <1>1, <1>5, <2>6, <2>7, <3>1
  <2>9. Cardinality(kept) <= 1 + behaviors
    <3>1. CASE new = {}
      <4>1. kept = survivors
        BY <3>1
      <4>. HIDE DEF kept, survivors
      <4>. QED
        BY <1>1, <1>5, <2>8, <4>1
    <3>2. ASSUME NEW c \in Flight(k), new = {c} PROVE Cardinality(kept) <= 1 + behaviors
      <4>1. kept \subseteq survivors \cup {c}
        BY <3>2
      <4>2. IsFiniteSet(survivors \cup {c}) /\ Cardinality(survivors \cup {c}) <= Cardinality(survivors) + 1
            /\ Cardinality(survivors \cup {c}) \in Nat
        BY <1>5, FS_AddElement, FS_CardinalityType
      <4>3. Cardinality(kept) <= Cardinality(survivors \cup {c}) /\ Cardinality(kept) \in Nat
        <5>. HIDE DEF kept, survivors
        <5>. QED
          BY <4>1, <4>2, FS_Subset, FS_CardinalityType
      <4>. HIDE DEF kept, survivors
      <4>. QED
        BY <1>1, <1>5, <2>8, <4>2, <4>3
    <3>. QED
      BY <3>1, <3>2 DEF Begins
  <2>. HIDE DEF kept
  <2>10. n # Never
    BY <2>2 DEF Never
  <2>. QED
    BY <1>1, <1>8, <2>2, <2>4, <2>9, <2>10 DEF kept
<1>9. CASE settings.enabled[k] /\ ~Due(k)
  <2>1. next[k] \in Nat /\ next[k] # 0 /\ next[k] # 1
    <3>1. next[k] \in Nat
      BY <1>1, <1>9 DEF SkyInv, SkyFollowsSettings
    <3>2. Later(next[k]) # 0
      BY <1>9 DEF Due
    <3>. QED
      BY <3>1, <3>2, LaterIs
  <2>2. n = next[k] - 1 /\ n \in Nat
    BY <1>9, <2>1, LaterIs DEF Times
  <2>3. kept = survivors
    BY <1>9
  <2>4. Outlasting(kept, n) \subseteq Outlasting(Moved(s), n)
    <3>1. kept \subseteq Moved(s)
      BY <2>3
    <3>. HIDE DEF kept
    <3>. QED
      BY <3>1 DEF Outlasting
  <2>5. /\ Cardinality(Outlasting(kept, n)) \in Nat
        /\ Cardinality(Outlasting(kept, n)) <= Cardinality(Outlasting(s, next[k]))
    <3>1. n + 1 = next[k]
      BY <2>1, <2>2
    <3>. HIDE DEF kept, s
    <3>. QED
      BY <1>1, <2>2, <2>4, <3>1, OutlastingMoves
  <2>6. Cardinality(Outlasting(s, next[k])) <= behaviors
    BY <1>9 DEF SkyInv, Rhythm
  <2>7. Cardinality(Outlasting(s, next[k])) \in Nat /\ Cardinality(Outlasting(s, 1)) \in Nat
        /\ Cardinality(Outlasting(s, 1)) <= Cardinality(s)
    BY <1>6, <2>1
  <2>. HIDE DEF kept, survivors
  <2>8. Cardinality(kept) <= 1 + behaviors
    BY <1>1, <1>3, <1>5, <2>3, <2>7
  <2>9. n # Never
    BY <2>2 DEF Never
  <2>. QED
    BY <1>1, <1>9, <2>2, <2>5, <2>6, <2>7, <2>8, <2>9 DEF kept
<1>. QED
  BY <1>1, <1>7, <1>8, <1>9
------------------------------------------------------------------------------
\* The sky begins empty and with every flight switched off.
LEMMA SkyStarts == SkyInit => SkyInv
<1>. SUFFICES ASSUME SkyInit PROVE SkyInv
  OBVIOUS
<1>1. /\ settings \in Settings /\ settings.theme = "default" /\ settings.asteroidBelt = FALSE
      /\ \A k \in Kinds : settings.enabled[k] = FALSE
  BY SkyNumbers DEF SkyInit, Settings
<1>2. \A k \in Kinds : flights[k] = {} /\ next[k] = Never
  BY DEF SkyInit
<1>3. \A k \in Kinds : Aloft(k, flights[k]) /\ Cardinality(flights[k]) = 0
  BY <1>2, FS_EmptySet DEF Aloft
<1>4. SkyTyped
  BY <1>1, <1>3, SkyNumbers DEF SkyInit, SkyTyped
<1>5. "comet" \in Kinds /\ "flyby" \in Kinds
  BY DEF Kinds
<1>6. SceneIsTracked
  BY <1>2, <1>4, <1>5, SceneSeen DEF SkyInit, Backdrop, Sighted
<1>7. SkyFollowsSettings
  BY <1>1, <1>2 DEF SkyInit, SkyFollowsSettings
<1>8. InAttire
  BY <1>2, <1>5 DEF SkyInit, InAttire
<1>9. SkyIsCalm
  BY <1>3 DEF SkyInit, SkyIsCalm
<1>10. LightsKeepTheme
  BY <1>1 DEF SkyInit, LightsKeepTheme, PreserveStudioFill, ColoursOf
<1>11. \A k \in Kinds : Rhythm(k)
  BY <1>1 DEF Rhythm
<1>. QED
  BY <1>4, <1>6, <1>7, <1>8, <1>9, <1>10, <1>11 DEF SkyInv

\* A frame keeps the invariant: what begins has a free number, and what is taken out of
\* the scene is nothing that stays.
LEMMA SkyFrameKeeps ==
  ASSUME SkyInv, SkyFrame
  PROVE  SkyInv'
<1>. DEFINE New(k, life, n) == IF Due(k) THEN {CreateFlight(k, life, n)} ELSE {}
            Kept(k, new) == {g \in Moved(flights[k]) \cup new : ~Arrived(g)}
            Gone(k) == {g \in Moved(flights[k]) : Arrived(g)}
<1>1. "comet" \in Kinds /\ "flyby" \in Kinds /\ Kinds = {"comet", "flyby"}
  BY DEF Kinds
<1>2. PICK begun \in {b \in [Kinds -> Lifetime("comet") \cup Lifetime("flyby")] :
                         \A k \in Kinds : b[k] \in Lifetime(k)},
           n \in FlybyBodies, c \in Times("comet"), f \in Times("flyby") :
         /\ flights' = [k \in Kinds |-> Kept(k, New(k, begun[k], n))]
         /\ scene' = (scene \cup {Group(g) : g \in New("comet", begun["comet"], n)
                                                     \cup New("flyby", begun["flyby"], n)})
                     \ {Group(g) : g \in {h \in Moved(flights["comet"]) \cup Moved(flights["flyby"]) : Arrived(h)}}
         /\ next' = [k \in Kinds |-> IF k = "comet" THEN c ELSE f]
  BY Zenon DEF SkyFrame, Moved
<1>3. UNCHANGED <<settings, belt, particles, lights, starSpeed, behaviors>>
  BY DEF SkyFrame
<1>. DEFINE new(k) == New(k, begun[k], n)
<1>4. ASSUME NEW k \in Kinds PROVE Begins(k, flights[k], new(k)) /\ (Due(k) \/ new(k) = {})
                                   /\ (k = "flyby" => \A g \in new(k) : g.theme = settings.theme)
  <2>1. SkyTyped /\ begun[k] \in Lifetime(k)
    BY <1>2 DEF SkyInv
  <2>. DEFINE e == CreateFlight(k, begun[k], n)
  <2>2. e \in Flight(k) /\ e.no = FreeNo(k) /\ e.age = 0 /\ (k = "flyby" => e.theme = settings.theme)
    BY <2>1, CreatedIsFlight
  <2>3. \A g \in flights[k] : g.no # FreeNo(k)
    BY <2>1, NumberIsFree
  <2>. HIDE DEF e
  <2>4. new(k) = {} \/ (Due(k) /\ new(k) = {e})
    BY DEF e
  <2>. HIDE DEF new
  <2>. QED
    BY <2>2, <2>3, <2>4 DEF Begins
<1>. HIDE DEF New
<1>5. \A k \in Kinds : next'[k] \in Times(k) /\ flights'[k] = Kept(k, new(k))
  BY <1>1, <1>2
<1>6. ASSUME NEW k \in Kinds PROVE Aloft(k, flights'[k])
  <2>1. Aloft(k, flights[k])
    BY DEF SkyInv, SkyTyped
  <2>. HIDE DEF new
  <2>. QED
    BY <1>4, <1>5, <2>1, GroupsStayAloft
<1>7. ASSUME NEW k \in Kinds
      PROVE  /\ next'[k] \in Nat \cup {Never}
             /\ IF settings.enabled[k] THEN next'[k] # Never ELSE flights'[k] = {} /\ next'[k] = Never
             /\ Cardinality(flights'[k]) <= 1 + behaviors
             /\ settings.enabled[k] => Cardinality(Outlasting(flights'[k], next'[k])) <= behaviors
  <2>. HIDE DEF new
  <2>. QED
    BY <1>4, <1>5, FrameOfKind
<1>8. SkyTyped'
  <2>1. DOMAIN flights' = Kinds /\ flights' = [k \in Kinds |-> flights'[k]]
    BY <1>2
  <2>2. next' \in [Kinds -> Nat \cup {Never}]
    BY <1>2, <1>7
  <2>. QED
    BY <1>3, <1>6, <2>1, <2>2 DEF SkyInv, SkyTyped
<1>9. SceneIsTracked'
  <2>. HIDE DEF new
  <2>1. ASSUME NEW k \in Kinds
        PROVE  Sighted(k, flights'[k]) = (Sighted(k, flights[k]) \cup Sighted(k, new(k))) \ Sighted(k, Gone(k))
    <3>1. Aloft(k, flights[k])
      BY DEF SkyInv, SkyTyped
    <3>. QED
      BY <1>4, <1>5, <3>1, DrawnMoves
  <2>2. ASSUME NEW k \in Kinds
        PROVE  new(k) \subseteq Flight(k) /\ Moved(flights[k]) \subseteq Flight(k)
    <3>1. Aloft(k, flights[k])
      BY DEF SkyInv, SkyTyped
    <3>. QED
      BY <1>4, <3>1, MovedGroups DEF Begins
  <2>3. \A k \in Kinds : \A g \in Flight(k) : Group(g) = <<k, g.no>>
    BY GroupsOf DEF SkyInv
  <2>4. {Group(g) : g \in new("comet") \cup new("flyby")} = Sighted("comet", new("comet")) \cup Sighted("flyby", new("flyby"))
    BY <1>1, <2>2, <2>3 DEF Sighted
  <2>5. {Group(g) : g \in {h \in Moved(flights["comet"]) \cup Moved(flights["flyby"]) : Arrived(h)}}
            = Sighted("comet", Gone("comet")) \cup Sighted("flyby", Gone("flyby"))
    <3>1. {h \in Moved(flights["comet"]) \cup Moved(flights["flyby"]) : Arrived(h)} = Gone("comet") \cup Gone("flyby")
      OBVIOUS
    <3>2. Gone("comet") \subseteq Flight("comet") /\ Gone("flyby") \subseteq Flight("flyby")
      BY <1>1, <2>2
    <3>. HIDE DEF Gone
    <3>. QED
      BY <1>1, <2>3, <3>1, <3>2 DEF Sighted
  <2>6. scene = Backdrop \cup Sighted("comet", flights["comet"]) \cup Sighted("flyby", flights["flyby"])
    BY SceneSeen DEF SkyInv
  <2>7. Backdrop' = Backdrop
    BY <1>3 DEF Backdrop
  <2>8. scene' = (scene \cup (Sighted("comet", new("comet")) \cup Sighted("flyby", new("flyby"))))
                    \ (Sighted("comet", Gone("comet")) \cup Sighted("flyby", Gone("flyby")))
    BY <1>2, <2>4, <2>5 DEF new
  <2>9. /\ \A s, t : Sighted("comet", s) \cap Sighted("flyby", t) = {}
        /\ \A s : Sighted("comet", s) \cap Backdrop = {} /\ Sighted("flyby", s) \cap Backdrop = {}
    BY DEF Sighted, Backdrop
  <2>10. scene' = Backdrop \cup Sighted("comet", flights'["comet"]) \cup Sighted("flyby", flights'["flyby"])
    <3>. HIDE DEF Gone
    <3>1. Sighted("comet", flights'["comet"]) = (Sighted("comet", flights["comet"]) \cup Sighted("comet", new("comet"))) \ Sighted("comet", Gone("comet"))
      BY <1>1, <2>1
    <3>2. Sighted("flyby", flights'["flyby"]) = (Sighted("flyby", flights["flyby"]) \cup Sighted("flyby", new("flyby"))) \ Sighted("flyby", Gone("flyby"))
      BY <1>1, <2>1
    <3>. QED
      BY <2>6, <2>8, <2>9, <3>1, <3>2
  <2>11. (scene = Backdrop \cup Sighted("comet", flights["comet"]) \cup Sighted("flyby", flights["flyby"]))'
    BY <2>7, <2>10 DEF Sighted
  <2>12. SkyTyped' => (SceneIsTracked' <=>
            (scene = Backdrop \cup Sighted("comet", flights["comet"]) \cup Sighted("flyby", flights["flyby"]))')
    BY SceneSeen, PTL
  <2>. QED
    BY <1>8, <2>11, <2>12
<1>10. SkyFollowsSettings'
  BY <1>3, <1>7 DEF SkyInv, SkyFollowsSettings
<1>11. InAttire'
  <2>1. \A g \in flights'["flyby"] : g.theme = settings.theme
    <3>1. Aloft("flyby", flights["flyby"]) /\ \A g \in flights["flyby"] : g.theme = settings.theme
      BY <1>1 DEF SkyInv, SkyTyped, InAttire
    <3>2. \A g \in Moved(flights["flyby"]) : g.theme = settings.theme
      BY <1>1, <3>1, MovedGroups
    <3>3. \A g \in new("flyby") : g.theme = settings.theme
      BY <1>1, <1>4
    <3>. HIDE DEF new
    <3>. QED
      BY <1>1, <1>5, <3>2, <3>3
  <2>. QED
    BY <1>3, <2>1 DEF SkyInv, InAttire
<1>12. SkyIsCalm'
  BY <1>3, <1>7 DEF SkyIsCalm
<1>13. LightsKeepTheme'
  BY <1>3 DEF SkyInv, LightsKeepTheme
<1>14. ASSUME NEW k \in Kinds PROVE Rhythm(k)'
  BY <1>3, <1>7 DEF Rhythm, Outlasting
<1>. QED
  BY <1>8, <1>9, <1>10, <1>11, <1>12, <1>13, <1>14 DEF SkyInv

\* A behaviour keeps the invariant: flights are cleared as the settings say, and the next
\* flight of either kind is due, or not, as they say.
LEMMA ApplySkyKeeps ==
  ASSUME SkyInv, NEW b \in Behavior, ApplySky(b)
  PROVE  SkyInv'
<1>1. b \in Settings /\ settings \in Settings /\ settings' = b
  BY SkyNumbers DEF SkyInv, SkyTyped, ApplySky
<1>2. "comet" \in Kinds /\ "flyby" \in Kinds /\ Kinds = {"comet", "flyby"}
  BY DEF Kinds
<1>3. \A k \in Kinds : flights'[k] = IF Cleared(k, b) THEN {} ELSE flights[k]
  BY DEF ApplySky
<1>4. \A k \in Kinds : next'[k] \in NextAfter(k, b)
  BY <1>2 DEF ApplySky
<1>5. /\ behaviors \in Nat /\ behaviors' = behaviors + 1
      /\ \A k \in Kinds : Aloft(k, flights[k]) /\ next[k] \in Nat \cup {Never}
  BY DEF SkyInv, SkyTyped, ApplySky
<1>6. \A k \in Kinds : Aloft(k, flights'[k])
  BY <1>3, <1>5, FS_EmptySet DEF Aloft
<1>7. ASSUME NEW k \in Kinds
      PROVE  /\ next'[k] \in Nat \cup {Never}
             /\ IF b.enabled[k] THEN next'[k] # Never ELSE flights'[k] = {} /\ next'[k] = Never
  <2>1. WarmUp(k) \subseteq Nat /\ ThemeWarmUp \subseteq Nat
    BY SkyNumbers
  <2>2. CASE ~b.enabled[k]
    BY <1>3, <1>4, <2>2 DEF NextAfter, Cleared
  <2>3. CASE b.enabled[k]
    <3>1. next'[k] \in Nat \/ (next'[k] = next[k] /\ ~Changed(k, b))
      BY <1>4, <2>1, <2>3 DEF NextAfter
    <3>2. ~Changed(k, b) => settings.enabled[k]
      BY <1>1, <2>3 DEF Changed, Settings
    <3>3. settings.enabled[k] => next[k] # Never
      BY DEF SkyInv, SkyFollowsSettings
    <3>. QED
      BY <1>5, <2>3, <3>1, <3>2, <3>3 DEF Never
  <2>. QED
    BY <2>2, <2>3
<1>8. ASSUME NEW k \in Kinds PROVE /\ flights'[k] \subseteq flights[k] /\ IsFiniteSet(flights'[k])
                                   /\ Cardinality(flights'[k]) \in Nat
                                   /\ Cardinality(flights'[k]) <= behaviors + 1
  <2>1. flights'[k] \subseteq flights[k] /\ IsFiniteSet(flights[k])
    BY <1>3, <1>5 DEF Aloft
  <2>2. IsFiniteSet(flights'[k]) /\ Cardinality(flights'[k]) <= Cardinality(flights[k])
    BY <2>1, FS_Subset
  <2>3. Cardinality(flights'[k]) \in Nat /\ Cardinality(flights[k]) \in Nat
    BY <2>1, <2>2, FS_CardinalityType
  <2>4. Cardinality(flights[k]) <= 1 + behaviors
    BY DEF SkyInv, SkyIsCalm
  <2>. QED
    BY <1>5, <2>1, <2>2, <2>3, <2>4
<1>9. /\ belt' \in {None} \cup {CreateAsteroidBelt(t) : t \in SkyTheme}
      /\ belt' # None <=> b.asteroidBelt
      /\ belt' # None => belt'.theme = b.theme
  <2>1. b.theme \in SkyTheme /\ b.asteroidBelt \in BOOLEAN
    BY <1>1 DEF Settings
  <2>2. \A t : CreateAsteroidBelt(t).kind = "belt" /\ CreateAsteroidBelt(t).theme = t
    BY DEF CreateAsteroidBelt
  <2>3. \A t : CreateAsteroidBelt(t) # None
    BY <2>2 DEF None
  <2>4. /\ belt \in {None} \cup {CreateAsteroidBelt(t) : t \in SkyTheme}
        /\ belt # None => belt.theme = settings.theme
    BY DEF SkyInv, SkyTyped, InAttire
  <2>5. belt' = BeltAfter(b)
    BY DEF ApplySky
  <2>6. CASE b.asteroidBelt /\ (belt = None \/ b.theme # settings.theme)
    <3>1. belt' = CreateAsteroidBelt(b.theme)
      BY <2>5, <2>6 DEF BeltAfter
    <3>. QED
      BY <2>1, <2>2, <2>3, <2>6, <3>1
  <2>7. CASE b.asteroidBelt /\ ~(belt = None \/ b.theme # settings.theme)
    <3>1. belt' = belt
      BY <2>5, <2>7 DEF BeltAfter
    <3>. QED
      BY <2>4, <2>7, <3>1
  <2>8. CASE ~b.asteroidBelt
    <3>1. belt' = None
      BY <2>5, <2>8 DEF BeltAfter
    <3>. QED
      BY <2>8, <3>1
  <2>. QED
    BY <2>1, <2>6, <2>7, <2>8
<1>10. /\ particles' \in {None} \cup [kind : {"particles"}, theme : SkyTheme]
       /\ particles' # None => particles'.theme = b.theme
       /\ starSpeed' \in SkyTheme \cup {"rest"}
       /\ lights' = [of |-> b.theme, pulls |-> 1]
  <2>1. b.theme \in SkyTheme
    BY <1>1 DEF Settings
  <2>2. SceneApplyBehavior(b)
    BY DEF ApplySky
  <2>3. lights' = [of |-> b.theme, pulls |-> 1]
    BY <2>2 DEF SceneApplyBehavior, PreserveStudioFill, ColoursOf
  <2>. QED
    BY <2>1, <2>2, <2>3 DEF SceneApplyBehavior
<1>11. SkyTyped'
  <2>1. flights' = [k \in Kinds |-> flights'[k]] /\ DOMAIN flights' = Kinds
    BY DEF ApplySky
  <2>2. next' \in [Kinds -> Nat \cup {Never}]
    <3>1. next' = [k \in Kinds |-> next'[k]]
      BY DEF ApplySky
    <3>. QED
      BY <1>7, <3>1
  <2>. QED
    BY <1>1, <1>5, <1>6, <1>9, <1>10, <2>1, <2>2 DEF SkyTyped
<1>12. SceneIsTracked'
  <2>1. scene' = {<<"stars", 7200>>}
                   \cup {Group(g) : g \in {belt', particles'} \ {None}}
                   \cup UNION {{Group(f) : f \in flights[k]} : k \in {h \in Kinds : ~Cleared(h, b)}}
    BY DEF ApplySky, InScene
  <2>2. UNION {{Group(f) : f \in flights[k]} : k \in {h \in Kinds : ~Cleared(h, b)}}
            = {Group(f) : f \in Flying'}
    <3>1. Flying' = flights'["comet"] \cup flights'["flyby"]
      BY DEF Flying
    <3>2. ASSUME NEW x \in UNION {{Group(f) : f \in flights[k]} : k \in {h \in Kinds : ~Cleared(h, b)}}
          PROVE  x \in {Group(f) : f \in Flying'}
      <4>1. PICK k \in Kinds : ~Cleared(k, b) /\ x \in {Group(f) : f \in flights[k]}
        BY <3>2
      <4>2. flights'[k] = flights[k]
        BY <1>3, <4>1
      <4>. QED
        BY <1>2, <3>1, <4>1, <4>2
    <3>3. ASSUME NEW f \in Flying'
          PROVE  Group(f) \in UNION {{Group(g) : g \in flights[k]} : k \in {h \in Kinds : ~Cleared(h, b)}}
      <4>1. PICK k \in Kinds : f \in flights'[k]
        BY <1>2, <3>1
      <4>2. ~Cleared(k, b) /\ f \in flights[k]
        BY <1>3, <4>1
      <4>. QED
        BY <4>2
    <3>. QED
      BY <3>2, <3>3
  <2>3. \A f \in Flying' : f # None
    <3>1. \A k \in Kinds : \A f \in Flight(k) : f # None
      BY GroupsOf DEF SkyInv
    <3>2. \A k \in Kinds : flights'[k] \subseteq Flight(k)
      BY <1>6 DEF Aloft
    <3>. QED
      BY <1>2, <3>1, <3>2 DEF Flying
  <2>4. {Group(g) : g \in (Flying' \cup {belt', particles'}) \ {None}}
            = {Group(f) : f \in Flying'} \cup {Group(g) : g \in {belt', particles'} \ {None}}
    BY <2>3
  <2>5. scene' = {<<"stars", 7200>>} \cup {Group(g) : g \in (Flying' \cup {belt', particles'}) \ {None}}
    BY <2>1, <2>2, <2>4
  <2>. QED
    BY <2>5 DEF SceneIsTracked, Group
<1>13. SkyFollowsSettings'
  BY <1>1, <1>7, <1>9 DEF SkyFollowsSettings
<1>14. InAttire'
  <2>1. ASSUME NEW f \in flights'["flyby"] PROVE f.theme = b.theme
    <3>1. f \in flights["flyby"] /\ ~Cleared("flyby", b)
      BY <1>2, <1>3
    <3>2. f.theme = settings.theme
      BY <3>1 DEF SkyInv, InAttire
    <3>. QED
      BY <3>1, <3>2 DEF Cleared, ThemeChanges
  <2>. QED
    BY <1>1, <1>9, <1>10, <2>1 DEF InAttire
<1>15. SkyIsCalm'
  BY <1>5, <1>8 DEF SkyIsCalm
<1>16. LightsKeepTheme'
  BY <1>1, <1>10 DEF LightsKeepTheme
<1>17. ASSUME NEW k \in Kinds PROVE Rhythm(k)'
  <2>. DEFINE out == Outlasting(flights'[k], next'[k])
  <2>1. out \subseteq flights'[k]
    BY DEF Outlasting
  <2>. HIDE DEF out
  <2>2. Cardinality(out) <= Cardinality(flights'[k]) /\ IsFiniteSet(out)
    BY <1>8, <2>1, FS_Subset
  <2>3. Cardinality(out) \in Nat
    BY <2>2, FS_CardinalityType
  <2>4. Cardinality(out) <= behaviors'
    BY <1>5, <1>8, <2>2, <2>3
  <2>. QED
    BY <2>4 DEF Rhythm, Outlasting, out
<1>. QED
  BY <1>11, <1>12, <1>13, <1>14, <1>15, <1>16, <1>17 DEF SkyInv
------------------------------------------------------------------------------
\* In a group each style has its bodies, and each style with a stem as many stems.
LEMMA StemsFit ==
  ASSUME NEW t \in SkyTheme, NEW n \in {BeltBodies} \cup FlybyBodies
  PROVE  LET bodies == InstancedBodies[t][n] IN
         /\ {m.style : m \in bodies} = {StyleForIndex(t, i - 1) : i \in 1..n}
         /\ \A m \in bodies : m.style \in Stemmed =>
               \A mesh \in {"bodies", "stems"} : [style |-> m.style, mesh |-> mesh, count |-> m.count] \in bodies
<1>. DEFINE Style == [i \in 1..n |-> StyleForIndex(t, i - 1)]
            count(s) == Cardinality({i \in 1..n : Style[i] = s})
            Meshes(kind, styles) == {[style |-> s, mesh |-> kind, count |-> count(s)] : s \in styles}
            bodies == Meshes("bodies", Range(Style)) \cup Meshes("stems", Range(Style) \cap Stemmed)
<1>1. InstancedBodies[t][n] = bodies
  BY DEF InstancedBodies
<1>2. Range(Style) = {StyleForIndex(t, i - 1) : i \in 1..n}
  BY DEF Range
<1>. HIDE DEF Style, count
<1>3. {m.style : m \in bodies} = Range(Style)
  <2>1. ASSUME NEW m \in bodies PROVE m.style \in Range(Style)
    OBVIOUS
  <2>2. ASSUME NEW s \in Range(Style) PROVE \E m \in bodies : m.style = s
    <3>. DEFINE m == [style |-> s, mesh |-> "bodies", count |-> count(s)]
    <3>1. m \in bodies /\ m.style = s
      OBVIOUS
    <3>. QED
      BY <3>1
  <2>. HIDE DEF bodies
  <2>. QED
    BY <2>1, <2>2
<1>4. ASSUME NEW m \in bodies, m.style \in Stemmed, NEW mesh \in {"bodies", "stems"}
      PROVE  [style |-> m.style, mesh |-> mesh, count |-> m.count] \in bodies
  <2>1. m.style \in Range(Style) /\ m.count = count(m.style)
    OBVIOUS
  <2>2. mesh = "bodies" => [style |-> m.style, mesh |-> mesh, count |-> count(m.style)] \in Meshes("bodies", Range(Style))
    BY <2>1
  <2>3. mesh = "stems" => [style |-> m.style, mesh |-> mesh, count |-> count(m.style)] \in Meshes("stems", Range(Style) \cap Stemmed)
    BY <1>4, <2>1
  <2>. QED
    BY <1>4, <2>1, <2>2, <2>3
<1>. QED
  BY <1>1, <1>2, <1>3, <1>4

\* What is asked for follows from the invariant.
LEMMA SkyInvMeans ==
  ASSUME SkyInv, BeltShowsItsMix
  PROVE  SkyIsInStep
<1>1. SkyTypeOK
  <2>1. settings.theme \in SkyTheme /\ settings.frequency \in [Kinds -> Frequency]
    BY DEF SkyInv, SkyTyped, Settings
  <2>2. ASSUME NEW k \in Kinds
        PROVE  /\ next[k] \in Nat \cup {Never}
               /\ \A f, g \in flights[k] : f.kind = k /\ (f.no = g.no => f = g) /\ f.age < f.life
    BY DEF SkyInv, SkyTyped, Aloft, Flight
  <2>3. lights.of \in SkyTheme /\ starSpeed \in SkyTheme \cup {"rest"}
    BY <2>1 DEF SkyInv, SkyTyped, LightsKeepTheme
  <2>. QED
    BY <2>1, <2>2, <2>3 DEF SkyTypeOK
<1>2. SkyWearsTheme
  <2>1. \A g \in (flights["flyby"] \cup {belt, particles}) \ {None} : g.theme = settings.theme
    BY DEF SkyInv, InAttire
  <2>2. ASSUME belt # None
        PROVE  /\ belt = CreateAsteroidBelt(settings.theme) /\ settings.theme \in SkyTheme
               /\ belt.bodies = InstancedBodies[settings.theme][BeltBodies]
    <3>1. PICK t \in SkyTheme : belt = CreateAsteroidBelt(t)
      BY <2>2 DEF SkyInv, SkyTyped
    <3>2. belt.theme = t /\ belt.bodies = InstancedBodies[t][BeltBodies]
      BY <3>1 DEF CreateAsteroidBelt
    <3>3. t = settings.theme
      BY <2>2, <3>2 DEF SkyInv, InAttire
    <3>. QED
      BY <3>1, <3>2, <3>3
  <2>3. ASSUME belt # None
        PROVE  {m.style : m \in belt.bodies} = {Mix(settings.theme)[i][1] : i \in 1..Len(Mix(settings.theme))}
    BY <2>2, <2>3, StemsFit DEF BeltShowsItsMix
  <2>4. ASSUME NEW g \in flights["flyby"] \cup ({belt} \ {None}), NEW m \in g.bodies, m.style \in Stemmed,
               NEW mesh \in {"bodies", "stems"}
        PROVE  [style |-> m.style, mesh |-> mesh, count |-> m.count] \in g.bodies
    <3>1. CASE g \in flights["flyby"]
      <4>1. g.bodies \in Bodies
        BY <3>1 DEF SkyInv, SkyTyped, Aloft, Flight, Kinds
      <4>2. PICK t \in SkyTheme, n \in {BeltBodies} \cup FlybyBodies : g.bodies = InstancedBodies[t][n]
        BY <2>4, <4>1 DEF Bodies
      <4>. QED
        BY <2>4, <4>2, StemsFit
    <3>2. CASE g \in {belt} \ {None}
      BY <2>2, <2>4, <3>2, StemsFit
    <3>. QED
      BY <3>1, <3>2
  <2>. QED
    BY <2>1, <2>3, <2>4 DEF SkyWearsTheme
<1>. QED
  BY <1>1, <1>2 DEF SkyInv, SkyIsInStep

\* Any number of behaviours, in any order and at any moment, leave the sky of the last
\* one: the scene draws exactly what the environment knows of, what was switched off is
\* gone and what is on is due, colours are pulled once and flights do not pile up.  That
\* the belt shows each style of its theme needs a mix that it has bodies enough for.
THEOREM SkyStaysInStep == BeltShowsItsMix => (SkySpec => []SkyIsInStep)
<1>. SUFFICES ASSUME BeltShowsItsMix PROVE SkySpec => []SkyIsInStep
  OBVIOUS
<1>1. SkyInv /\ UNCHANGED skyVars => SkyInv'
  <2>. SUFFICES ASSUME SkyInv, UNCHANGED skyVars PROVE SkyInv'
    OBVIOUS
  <2>. USE DEF skyVars
  <2>1. SkyTyped'
    BY DEF SkyInv, SkyTyped
  <2>2. SceneIsTracked'
    BY DEF SkyInv, SceneIsTracked, Flying, Group
  <2>3. SkyFollowsSettings' /\ InAttire' /\ SkyIsCalm' /\ LightsKeepTheme'
    BY DEF SkyInv, SkyFollowsSettings, InAttire, SkyIsCalm, LightsKeepTheme
  <2>4. \A k \in Kinds : Rhythm(k)'
    BY DEF SkyInv, Rhythm, Outlasting
  <2>. QED
    BY <2>1, <2>2, <2>3, <2>4 DEF SkyInv
<1>2. SkyInv /\ SkyNext => SkyInv'
  BY SkyFrameKeeps, ApplySkyKeeps DEF SkyNext
<1>3. SkyInv => SkyIsInStep
  BY SkyInvMeans
<1>. QED
  BY SkyStarts, <1>1, <1>2, <1>3, PTL DEF SkySpec
==============================================================================
