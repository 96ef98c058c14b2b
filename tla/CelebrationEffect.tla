-------------------------- MODULE CelebrationEffect --------------------------
(***************************************************************************)
(* What the wall says: the name of a planet, the status line, and the card *)
(* and sparkles of an arrival, each with a timer of its own, while the     *)
(* manager changes theme and language.                                     *)
(***************************************************************************)
EXTENDS Integers, FiniteSets

CONSTANTS
    Name,               \* planets' own names
    WordTheme,          \* themes of the registry
    Celebrates(_),      \* arrivalEffect().celebrate
    CardTime,           \* 2800 ms, in units
    SparkleTime,        \* 1900 ms
    MaxWords            \* bound: calls from outside

\* The registry has the theme the page starts with, and null is no name.
ASSUME WordAssumption ==
    /\ CardTime \in Nat \ {0} /\ SparkleTime \in Nat \ {0}
    /\ "default" \in WordTheme /\ "null" \notin Name

VARIABLES
    language, theme, state, lastName,
    title,          \* #planet-name: its text, and is it celebrated?
    status,         \* #status
    chrome,         \* the language of document, title, badge and hint
    card,           \* #celebration: is it shown, about whom, in which language;
                    \* and (history) was the galaxy cleared under it?
    timers,         \* time left to each timer that hides the card
    sparkles,       \* what bursts: of which theme, and the time left
    galleryReady,   \* PlanetLoader's: the first gallery is shown
    words           \* calls so far

wordVars == <<language, theme, state, lastName, title, status, chrome, card, timers,
              sparkles, galleryReady, words>>

Languages == {"en", "fr"}
NoLanguage == "own"                                  \* a name is in no language
Copy(what, lang) == [what |-> what, lang |-> lang]
NoName    == Copy("null", NoLanguage)

\* displayName: a planet without a name gets the copy's words for one.
DisplayNames == {Copy(n, NoLanguage) : n \in Name} \cup {Copy("newPlanet", language)}

\* The constructor; it ends in setLanguage.
WordsInit ==
    /\ language = "en" /\ theme = "default"
    /\ state = "waiting" /\ lastName = NoName
    /\ title = [text |-> Copy("waiting", "en"), celebrate |-> FALSE]
    /\ status = Copy("drawHint", "en") /\ chrome = "en"
    /\ card = [shown |-> FALSE, of |-> NoName, lang |-> "en", orphan |-> FALSE]
    /\ timers = {} /\ sparkles = {}
    /\ galleryReady = FALSE /\ words = 0

Called == words < MaxWords /\ words' = words + 1
-----------------------------------------------------------------------------
\* Mutant of Ends: what is celebrated runs out by itself.
EndsLater(t) == FALSE

\* setTheme: does the theme end what is celebrated?
Ends(t) == ~Celebrates(t)

\* setLanguage: a card that is shown says the last name in the new language.
Retold(c, l) == IF c.shown /\ lastName # NoName THEN [c EXCEPT !.of = lastName, !.lang = l] ELSE c

\* ProjectorBehaviorController.apply: setTheme, clearCelebration, setLanguage.
ApplyWords(t, l) ==
    /\ Called
    /\ theme' = t /\ language' = l /\ chrome' = l
    /\ card' = Retold([card EXCEPT !.shown = @ /\ ~Ends(t)], l)
    /\ timers' = IF Ends(t) THEN {} ELSE timers
    /\ sparkles' = IF Ends(t) THEN {} ELSE sparkles
    /\ title' = [text |-> IF state = "waiting" THEN Copy("waiting", l) ELSE title.text,
                 celebrate |-> title.celebrate /\ ~Ends(t)]
    /\ status' = Copy(IF state = "texture-failed" THEN "textureFailed" ELSE "drawHint", l)
    /\ UNCHANGED <<state, lastName, galleryReady>>

Named(name, celebrate) ==
    /\ state' = "planet" /\ lastName' = name
    /\ title' = [text |-> name, celebrate |-> title.celebrate \/ celebrate]

\* setPlanetName: of the newest planet, until the first gallery is complete.
SetPlanetName(name) ==
    /\ Called /\ ~galleryReady
    /\ Named(name, FALSE)
    /\ UNCHANGED <<language, theme, status, chrome, card, timers, sparkles, galleryReady>>

GalleryReady ==
    /\ ~galleryReady /\ galleryReady' = TRUE
    /\ UNCHANGED <<language, theme, state, lastName, title, status, chrome, card, timers,
                   sparkles, words>>

\* The timer of the card before is cleared.
HideLater == timers' = {CardTime}

\* show: an arrival is named, and celebrated where the theme does.
Show(name) ==
    /\ Called
    /\ Named(name, Celebrates(theme))
    /\ IF Celebrates(theme)
       THEN /\ card' = [shown |-> TRUE, of |-> name, lang |-> language, orphan |-> FALSE]
            /\ HideLater
            /\ sparkles' = sparkles \cup {[theme |-> theme, left |-> SparkleTime]}
       ELSE UNCHANGED <<card, timers, sparkles>>
    /\ UNCHANGED <<language, theme, status, chrome, galleryReady>>

\* resetWaiting: the galaxy is cleared; a card that is shown stays its time.
ResetWaiting ==
    /\ Called
    /\ state' = "waiting" /\ lastName' = NoName
    /\ title' = [text |-> Copy("waiting", language), celebrate |-> FALSE]
    /\ status' = Copy("drawHint", language)
    /\ card' = [card EXCEPT !.orphan = TRUE]
    /\ UNCHANGED <<language, theme, chrome, timers, sparkles, galleryReady>>

\* textureLoadFailed
TextureLoadFailed ==
    /\ Called
    /\ state' = "texture-failed"
    /\ status' = Copy("textureFailed", language)
    /\ UNCHANGED <<language, theme, lastName, title, chrome, card, timers, sparkles, galleryReady>>

\* Time passes for the card and for every sparkle; at its end each goes.
WordsTick ==
    /\ timers # {} \/ sparkles # {}
    /\ timers' = {n - 1 : n \in timers \ {1}}
    /\ card' = [card EXCEPT !.shown = @ /\ 1 \notin timers]
    /\ sparkles' = {[s EXCEPT !.left = @ - 1] : s \in {p \in sparkles : p.left > 1}}
    /\ UNCHANGED <<language, theme, state, lastName, title, status, chrome, galleryReady, words>>

WordsNext ==
    \/ \E t \in WordTheme, l \in Languages : ApplyWords(t, l)
    \/ \E n \in DisplayNames : SetPlanetName(n) \/ Show(n)
    \/ GalleryReady \/ ResetWaiting \/ TextureLoadFailed \/ WordsTick

WordsSpec == WordsInit /\ [][WordsNext]_wordVars
-----------------------------------------------------------------------------
\* What is said is well formed, and a card is shown exactly while a timer
\* runs: a second arrival's card is not cut short by the timer of the first.
WordsTypeOK ==
    /\ {language, chrome} \subseteq Languages /\ theme \in WordTheme
    /\ state \in {"waiting", "planet", "texture-failed"}
    /\ timers \subseteq 1..CardTime
    /\ card.shown <=> timers # {}
    /\ \A s \in sparkles : s.left \in 1..SparkleTime

\* A theme that does not celebrate shows no card, no sparkles and no name that
\* dances, those of an arrival just before it included.
QuietThemesAreQuiet ==
    ~Celebrates(theme) => ~card.shown /\ sparkles = {} /\ ~title.celebrate

Speaks(text) == text.lang \in {language, NoLanguage}

\* Words that setLanguage does not say again: those for a planet without a name, which
\* are kept like a name, and the title of a wall that waits once a texture failed.
Stays(text) ==
    \/ text.what = "newPlanet"
    \/ text.what = "waiting" /\ state = "texture-failed"

\* What is on the page is in the language of the last behaviour, whatever was said
\* before it: the chrome, the status, the title and the sentence on the card with the
\* name in it.  Excepted are the words that stay, and the card of a galaxy cleared
\* under it, whose planet is not the last one any more.
OneLanguage ==
    /\ chrome = language /\ status.lang = language
    /\ Speaks(title.text) \/ Stays(title.text)
    /\ card.shown /\ ~card.orphan =>
          card.lang = language /\ (Speaks(card.of) \/ Stays(card.of))

\* The name on the wall is the last name, or the words of waiting when there is
\* none; a name that was cleared is not said again.
NameIsLast ==
    /\ IF lastName = NoName THEN title.text.what = "waiting" ELSE title.text = lastName
    /\ state = "waiting" => lastName = NoName
    /\ state = "texture-failed" => status.what = "textureFailed"

\* Whatever was said before, the words are those of the last behaviour and arrival.
WordsAreInStep == WordsTypeOK /\ QuietThemesAreQuiet /\ OneLanguage /\ NameIsLast
==============================================================================
