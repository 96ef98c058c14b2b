--------------------------- MODULE ManagerConsole ---------------------------
(***************************************************************************)
(* The manager's tablet (ManagerViewModel) and the routes it calls.  A tap *)
(* starts a coroutine that asks the server and waits; coroutines overlap,  *)
(* the server serves their calls in any order, and an answer may be late,  *)
(* a refusal, or lost.  The list of planets and the behaviour settings are *)
(* two halves that share no state.  A call that the tablet has given up    *)
(* may still be served.  A route does its work or changes nothing: what it *)
(* leaves half done is PlanetStore's.  Error and status texts are left out.*)
(***************************************************************************)
EXTENDS FiniteSets, Functions

CONSTANTS
    Planet,         \* planet ids
    Setting,        \* the fields of BehaviorSettingsDto, each on or off
    ListSlot,       \* bound: the calls about planets that may be open at once
    LookSlot        \* bound: the calls about settings that may be open at once

VARIABLES
    stored,         \* the server's planets
    list,           \* the half of ManagerUiState the planets screen shows
    listCalls,      \* the calls that are open, planets' half
    excused,        \* history: planets shown wrongly for want of a timely answer
    settings,       \* the server's settings (galaxy_behavior.json)
    look,           \* the half of ManagerUiState the galaxy screen shows
    lookCalls,      \* the calls that are open, settings' half
    doubt           \* history: the settings shown may not be the server's

listVars == <<stored, list, listCalls, excused>>
lookVars == <<settings, look, lookCalls, doubt>>

Shown == UNION {[P -> {"named", "plain"}] : P \in SUBSET Planet}
Nothing == [p \in {} |-> "plain"]
Settings == [Setting -> BOOLEAN]

\* What a route is asked for (relist: the listing that follows clear-names), the
\* planets the call is to change, how it stands and what its answer is.
Progress == {"free", "asked", "answered", "abandoned"}
ListCall == [op : {"list", "delete", "clear", "names", "relist"}, about : SUBSET Planet,
             state : Progress, ok : BOOLEAN, body : Shown]
LookCall == [op : {"get", "put"}, field : SUBSET Setting, sure : BOOLEAN,
             state : Progress, ok : BOOLEAN, body : Settings]

FreeList == [op |-> "list", about |-> {}, state |-> "free", ok |-> FALSE, body |-> Nothing]
FreeLook == [op |-> "get", field |-> {}, sure |-> FALSE, state |-> "free", ok |-> FALSE,
             body |-> [f \in Setting |-> FALSE]]

\* The calls of a half that the tablet waits for.
Awaited(calls, ops) ==
    {s \in DOMAIN calls : calls[s].state \in {"asked", "answered"} /\ calls[s].op \in ops}

ConsoleTypeOK ==
    /\ stored \in [Planet -> {"unborn", "named", "plain", "gone"}]
    /\ list \in [planets : Shown, isLoading : BOOLEAN, deletingIds : SUBSET Planet,
                 isClearing : BOOLEAN, isClearingNames : BOOLEAN]
    /\ listCalls \in [ListSlot -> ListCall]
    /\ excused \subseteq Planet
    /\ settings \in Settings
    /\ look \in [behaviorSettings : Settings, isBehaviorLoading : BOOLEAN,
                 isUpdatingBehavior : BOOLEAN]
    /\ lookCalls \in [LookSlot -> LookCall]
    /\ doubt \in BOOLEAN

\* The view model refreshes both halves when it is made.
ListInit ==
    /\ stored \in [Planet -> {"unborn", "named", "plain"}]
    /\ list = [planets |-> Nothing, isLoading |-> TRUE, deletingIds |-> {},
               isClearing |-> FALSE, isClearingNames |-> FALSE]
    /\ \E s \in ListSlot : listCalls = [c \in ListSlot |->
            IF c = s THEN [FreeList EXCEPT !.state = "asked"] ELSE FreeList]
    /\ excused = {}

LookInit ==
    /\ settings \in Settings
    /\ look = [behaviorSettings |-> [f \in Setting |-> FALSE], isBehaviorLoading |-> TRUE,
               isUpdatingBehavior |-> FALSE]
    /\ \E s \in LookSlot : lookCalls = [c \in LookSlot |->
            IF c = s THEN [FreeLook EXCEPT !.state = "asked"] ELSE FreeLook]
    /\ doubt = TRUE
------------------------------------------------------------------------------
(* The planets.                                                             *)

AskList(op, about) ==
    /\ \E s \in ListSlot :
          /\ listCalls[s].state = "free"
          /\ listCalls' = [listCalls EXCEPT ![s] =
                [FreeList EXCEPT !.op = op, !.about = about, !.state = "asked"]]
    /\ UNCHANGED <<stored, excused>>

refresh ==
    /\ list' = [list EXCEPT !.isLoading = TRUE]
    /\ AskList("list", {})

\* The dialog that confirms it may outlive the planet's row.
deletePlanet(p) ==
    /\ p \notin list.deletingIds
    /\ stored[p] # "unborn"
    /\ list' = [list EXCEPT !.deletingIds = @ \cup {p}]
    /\ AskList("delete", {p})

clearAll ==
    /\ ~list.isClearing
    /\ list' = [list EXCEPT !.isClearing = TRUE]
    /\ AskList("clear", Planet)

clearPlanetNames ==
    /\ ~list.isClearingNames
    /\ list' = [list EXCEPT !.isClearingNames = TRUE]
    /\ AskList("names", Planet)

\* A child's tablet sends a drawing.
Upload(p) ==
    /\ stored[p] = "unborn"
    /\ stored' = [stored EXCEPT ![p] = "named"]
    /\ UNCHANGED <<list, listCalls, excused>>

\* GET /api/planets, fewer than its limit.
Listing == [p \in {q \in Planet : stored[q] \in {"named", "plain"}} |-> stored[p]]

\* What the routes do to the planets.
Served(c) ==
    [p \in Planet |->
        CASE c.op \in {"delete", "clear"} /\ p \in c.about /\ stored[p] # "unborn" -> "gone"
          [] c.op = "names" /\ stored[p] = "named" -> "plain"
          [] OTHER -> stored[p]]

\* The planets a screen shows that are gone, or under a name that was cleared.
Wrong(planets, now) == {p \in DOMAIN planets : now[p] = "gone" \/ (now[p] = "plain" /\ planets[p] = "named")}

\* The server serves a call, or refuses it.  There is nothing to delete twice.
ServeList(s) ==
    LET c == listCalls[s]
        there == c.op = "delete" => \E p \in c.about : stored[p] \in {"named", "plain"}
    IN
    /\ c.state \in {"asked", "abandoned"}
    /\ \E ok \in BOOLEAN :
          /\ ok => there
          /\ stored' = IF ok THEN Served(c) ELSE stored
          /\ listCalls' = [listCalls EXCEPT ![s] =
                IF c.state = "abandoned" THEN FreeList
                ELSE [c EXCEPT !.state = "answered", !.ok = ok,
                               !.body = IF ok /\ c.op \in {"list", "relist"} THEN Listing ELSE Nothing]]
    /\ excused' = IF c.state = "abandoned"
                  THEN excused \cup (c.about \cap Wrong(list.planets, stored')) ELSE excused
    /\ UNCHANGED list

\* The button of a call that came to its end is enabled again.
Reenabled(c, l) ==
    CASE c.op = "list"   -> [l EXCEPT !.isLoading = FALSE]
      [] c.op = "delete" -> [l EXCEPT !.deletingIds = @ \ c.about]
      [] c.op = "clear"  -> [l EXCEPT !.isClearing = FALSE]
      [] OTHER           -> [l EXCEPT !.isClearingNames = FALSE]

Without(planets, P) == Restrict(planets, DOMAIN planets \ P)
Blanked(planets) == [p \in DOMAIN planets |-> "plain"]

\* Mutant: names stay on the screen when the listing after clear-names is refused.
AnsweredUnblanked(c) ==
    CASE c.op \in {"list", "relist"} /\ c.ok -> [list EXCEPT !.planets = c.body]
      [] c.op = "delete" /\ c.ok  -> [list EXCEPT !.planets = Without(@, c.about)]
      [] c.op = "clear" /\ c.ok   -> [list EXCEPT !.planets = Nothing, !.deletingIds = {}]
      [] OTHER                    -> list

\* What an answer makes of the planets shown.
Answered(c) ==
    CASE c.op \in {"list", "relist"} /\ c.ok -> [list EXCEPT !.planets = c.body]
      [] c.op = "relist" /\ ~c.ok -> [list EXCEPT !.planets = Blanked(@)]
      [] c.op = "delete" /\ c.ok  -> [list EXCEPT !.planets = Without(@, c.about)]
      [] c.op = "clear" /\ c.ok   -> [list EXCEPT !.planets = Nothing, !.deletingIds = {}]
      [] OTHER                    -> list

\* An answer arrives.  After clear-names the planets are listed again, before its
\* button is enabled.
AnswerList(s) ==
    LET c == listCalls[s] IN
    /\ c.state = "answered"
    /\ IF c.op = "names" /\ c.ok
       THEN /\ listCalls' = [listCalls EXCEPT ![s] =
                    [FreeList EXCEPT !.op = "relist", !.about = Planet, !.state = "asked"]]
            /\ UNCHANGED list
       ELSE /\ listCalls' = [listCalls EXCEPT ![s] = FreeList]
            /\ list' = Reenabled(c, Answered(c))
    /\ excused' = IF c.op \in {"list", "relist"} /\ c.ok THEN Wrong(c.body, stored)
                  ELSE excused \cap DOMAIN list'.planets
    /\ UNCHANGED stored

\* The connection breaks or times out, before the call is served or after.
LoseList(s) ==
    LET c == listCalls[s] IN
    /\ c.state \in {"asked", "answered"}
    /\ listCalls' = [listCalls EXCEPT ![s] =
            IF c.state = "asked" THEN [c EXCEPT !.state = "abandoned"] ELSE FreeList]
    /\ list' = Reenabled(c, list)
    /\ excused' = excused \cup (c.about \cap Wrong(list.planets, stored))
    /\ UNCHANGED stored

ListNext ==
    \/ refresh \/ clearAll \/ clearPlanetNames
    \/ \E p \in Planet : deletePlanet(p) \/ Upload(p)
    \/ \E s \in ListSlot : ServeList(s) \/ AnswerList(s) \/ LoseList(s)
------------------------------------------------------------------------------
(* The behaviour settings.                                                  *)

\* The screen shows the server's settings for sure: the last answer was in time, and
\* no change that the tablet gave up can still happen.
Sure == ~doubt /\ \A s \in LookSlot : ~(lookCalls[s].state = "abandoned" /\ lookCalls[s].op = "put")

AskLook(call) ==
    /\ \E s \in LookSlot :
          /\ lookCalls[s].state = "free"
          /\ lookCalls' = [lookCalls EXCEPT ![s] = call]
    /\ UNCHANGED <<settings, doubt>>

refreshBehavior ==
    /\ look' = [look EXCEPT !.isBehaviorLoading = TRUE]
    /\ AskLook([FreeLook EXCEPT !.state = "asked"])

\* A setter of one field: the tablet puts all of them.
PutSettings(f, updated) ==
    /\ updated # look.behaviorSettings
    /\ look' = [look EXCEPT !.isUpdatingBehavior = TRUE]
    /\ AskLook([op |-> "put", field |-> {f}, sure |-> Sure, state |-> "asked", ok |-> FALSE,
                body |-> updated])

updateBehavior(f, v) ==
    /\ ~(look.isBehaviorLoading \/ look.isUpdatingBehavior)
    /\ PutSettings(f, [look.behaviorSettings EXCEPT ![f] = v])

\* The file is replaced as a whole, or the request is refused.
ServeLook(s) ==
    LET c == lookCalls[s] IN
    /\ c.state \in {"asked", "abandoned"}
    /\ \E ok \in BOOLEAN :
          /\ settings' = IF ok /\ c.op = "put" THEN c.body ELSE settings
          /\ lookCalls' = [lookCalls EXCEPT ![s] =
                IF c.state = "abandoned" THEN FreeLook
                ELSE [c EXCEPT !.state = "answered", !.ok = ok,
                               !.body = IF ok THEN settings' ELSE @]]
    /\ doubt' = (doubt \/ (c.state = "abandoned" /\ settings' # settings))
    /\ UNCHANGED look

Reset(c, l) ==
    IF c.op = "get" THEN [l EXCEPT !.isBehaviorLoading = FALSE]
    ELSE [l EXCEPT !.isUpdatingBehavior = FALSE]

AnswerLook(s) ==
    LET c == lookCalls[s] IN
    /\ c.state = "answered"
    /\ lookCalls' = [lookCalls EXCEPT ![s] = FreeLook]
    /\ look' = Reset(c, IF c.ok THEN [look EXCEPT !.behaviorSettings = c.body] ELSE look)
    /\ doubt' = IF c.ok THEN c.body # settings ELSE doubt
    /\ UNCHANGED settings

LoseLook(s) ==
    LET c == lookCalls[s] IN
    /\ c.state \in {"asked", "answered"}
    /\ lookCalls' = [lookCalls EXCEPT ![s] =
            IF c.state = "asked" THEN [c EXCEPT !.state = "abandoned"] ELSE FreeLook]
    /\ look' = Reset(c, look)
    /\ doubt' = (doubt \/ (c.op = "put" /\ look.behaviorSettings # settings))
    /\ UNCHANGED settings

LookNext ==
    \/ refreshBehavior
    \/ \E f \in Setting, v \in BOOLEAN : updateBehavior(f, v)
    \/ \E s \in LookSlot : ServeLook(s) \/ AnswerLook(s) \/ LoseLook(s)

consoleVars == <<listVars, lookVars>>
ConsoleInit == ListInit /\ LookInit
ConsoleNext == (ListNext /\ UNCHANGED lookVars) \/ (LookNext /\ UNCHANGED listVars)
ConsoleSpec == ConsoleInit /\ [][ConsoleNext]_consoleVars
------------------------------------------------------------------------------
\* A button is disabled only while a call that will enable it again is open.
NoButtonStuck ==
    /\ list.isLoading => Awaited(listCalls, {"list"}) # {}
    /\ list.isClearing <=> Awaited(listCalls, {"clear"}) # {}
    /\ list.isClearingNames <=> Awaited(listCalls, {"names", "relist"}) # {}
    /\ list.deletingIds \subseteq UNION {listCalls[s].about : s \in Awaited(listCalls, {"delete"})}
    /\ look.isBehaviorLoading => Awaited(lookCalls, {"get"}) # {}
    /\ look.isUpdatingBehavior <=> Awaited(lookCalls, {"put"}) # {}

\* The screen shows no planet that is gone and no name that was cleared, but while
\* the answer that tells of it is on its way, or after an answer was lost or overtaken.
ListIsTrue ==
    \A p \in Wrong(list.planets, stored) \ excused :
        \E s \in Awaited(listCalls, {"delete", "clear", "names", "relist"}) :
            /\ p \in listCalls[s].about
            /\ listCalls[s].op # "relist" => listCalls[s].ok

\* The screen shows the server's settings whenever it is sure of them, and what it
\* sends then changes the one setting that was tapped and no other.
SettingsAreTrue ==
    /\ Sure /\ Awaited(lookCalls, {"put"}) = {} => look.behaviorSettings = settings
    /\ \A s \in LookSlot :
          LET c == lookCalls[s] IN
          c.op = "put" /\ c.state = "asked" /\ c.sure =>
              {f \in Setting : c.body[f] # settings[f]} = c.field

\* The manager's tablet: no button stays disabled, the planets and the settings
\* it shows are the server's as far as answers came in time, and a tap changes what was
\* tapped.
ConsoleIsTrue == NoButtonStuck /\ ListIsTrue /\ SettingsAreTrue
==============================================================================
