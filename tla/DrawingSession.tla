--------------------------- MODULE DrawingSession ---------------------------
(***************************************************************************)
(* A child's tablet: the drawing (Drawing.kt), the view model that keeps   *)
(* and sends it (DrawingViewModel.kt), the three steps of the screen that  *)
(* say what may be tapped when (PlanetDrawerScreen.kt), and an adult who   *)
(* changes the galaxy.  There is one view model per galaxy, and one screen *)
(* that shows one of them.  A drag is one step; points are left out, but   *)
(* every stroke remembers the surface it was drawn on.  Style, companions, *)
(* brushes and the name change nothing else.                               *)
(***************************************************************************)
EXTENDS Integers, Sequences, SequencesExt, Filters

CONSTANTS
    Galaxy,         \* the galaxies within the tablet's reach
    Size,           \* the sizes a canvas is laid out in, one per turn of the tablet
    Paint,          \* the colours of the bucket
    MaxStrokes      \* bound: strokes of a drawing

ASSUME MaxStrokesAssumption == MaxStrokes \in Nat

VARIABLES
    galaxy,         \* selectedGalaxy
    step,           \* the step of the screen, saved with the activity
    held,           \* the size a canvas is laid out in now
    reach,          \* the galaxy whose view model the canvas' gestures go to
    session,        \* DrawingUiState of every galaxy
    sends,          \* the calls of every galaxy that are open
    past            \* history, see Past

sessionVars == <<galaxy, step, held, reach, session, sends, past>>

Unmeasured == "unmeasured"
White == "white"

\* isBackgroundFill; the surface's size; a fill's colour.
Stroke == [fill : BOOLEAN, on : Size, color : Paint \cup {"brush"}]
Drawing == [strokes : BoundedSeq(Stroke, MaxStrokes + 1), canvasSize : Size \cup {Unmeasured},
            background : Paint \cup {White}, explicit : BOOLEAN]
UiState == [drawing : Drawing, isSending : BOOLEAN, oops : BOOLEAN, showSuccess : BOOLEAN]

\* due: the copies of this planet that the server has yet to get, as far as the
\* tablet and the child can know.  left: the galaxy was changed between the last
\* launch and the end of its celebration.  landed: the drawing that the last success is about.
Past == [due : -1..1, left : BOOLEAN, landed : Drawing]
------------------------------------------------------------------------------
(* The drawing.                                                             *)

Blank == [strokes |-> << >>, canvasSize |-> Unmeasured, background |-> White, explicit |-> FALSE]

IsAuthored(s) == ~s.fill
Authored(d) == Only(d.strokes, {s \in Stroke : IsAuthored(s)})

isEmpty(d) == Authored(d) = << >> /\ ~d.explicit

BackgroundStroke(d) == [fill |-> TRUE, on |-> d.canvasSize, color |-> d.background]

withBackgroundStroke(d) ==
    [d EXCEPT !.strokes =
        (IF d.canvasSize = Unmeasured THEN << >> ELSE <<BackgroundStroke(d)>>) \o Authored(d)]

withCanvasSize(d, size) ==
    LET resized == [d EXCEPT !.canvasSize = size] IN
    IF size = d.canvasSize THEN d
    ELSE IF d.explicit THEN withBackgroundStroke(resized) ELSE resized

addStroke(d, on) == [d EXCEPT !.strokes = Append(@, [fill |-> FALSE, on |-> on, color |-> "brush"])]

fillBackground(d, c) == withBackgroundStroke([d EXCEPT !.background = c, !.explicit = TRUE])

\* The child's last stroke goes first, the bucket last.
undo(d) ==
    IF Authored(d) # << >>
    THEN [d EXCEPT !.strokes = RemoveAt(@, SelectLastInSeq(@, IsAuthored))]
    ELSE [d EXCEPT !.strokes = << >>, !.background = White, !.explicit = FALSE]

clear(d) == [d EXCEPT !.strokes = << >>, !.background = White, !.explicit = FALSE]
------------------------------------------------------------------------------
(* The screen.                                                              *)

Started == [drawing |-> Blank, isSending |-> FALSE, oops |-> FALSE, showSuccess |-> FALSE]
Unsent == [due |-> 1, left |-> FALSE, landed |-> Blank]

SessionInit ==
    /\ galaxy \in Galaxy /\ step = "style" /\ held \in Size
    /\ reach = galaxy
    /\ session = [g \in Galaxy |-> Started]
    /\ sends = [g \in Galaxy |-> << >>]
    /\ past = [g \in Galaxy |-> Unsent]

canLaunch == ~isEmpty(session[galaxy].drawing) /\ ~session[galaxy].isSending

\* No dialog covers the screen.
Uncovered == ~session[galaxy].oops /\ ~session[galaxy].showSuccess

\* A canvas that enters the screen is measured, and its gestures go to the view model
\* it was made with (pointerInput(Unit), remember { measured }) until it leaves.
Canvas(size) ==
    /\ reach' = galaxy
    /\ session' = [session EXCEPT ![galaxy].drawing = withCanvasSize(@, size)]

ToStep(s) ==
    /\ Uncovered
    /\ step' = s
    /\ IF s = "draw" THEN Canvas(held) ELSE reach' = galaxy /\ UNCHANGED session
    /\ UNCHANGED <<galaxy, held, sends, past>>

StyleToDraw == step = "style" /\ ToStep("draw")
DrawToStyle == step = "draw" /\ ToStep("style")
DrawToFriends == step = "draw" /\ canLaunch /\ ToStep("friends")

\* Mutant: "back to paint" is enabled during a send.
FriendsToDrawAnyTime == step = "friends" /\ ToStep("draw")

FriendsToDraw == step = "friends" /\ ~session[galaxy].isSending /\ ToStep("draw")

\* The activity is made anew: the view models stay, and the step is saved.
Turn(size) ==
    /\ size # held
    /\ held' = size
    /\ IF step = "draw" THEN Canvas(size) ELSE UNCHANGED <<reach, session>>
    /\ UNCHANGED <<galaxy, step, sends, past>>

\* Tapped or drawn on the drawing step, to the view model of a galaxy.
Edit(g, d) ==
    /\ step = "draw" /\ Uncovered
    /\ session' = [session EXCEPT ![g].drawing = d]
    /\ UNCHANGED <<galaxy, step, held, reach, sends, past>>

\* startStroke, continueStroke, endStroke.
DrawStroke ==
    /\ Len(Authored(session[reach].drawing)) < MaxStrokes
    /\ Edit(reach, addStroke(session[reach].drawing, held))
Fill(c) == Edit(galaxy, fillBackground(session[galaxy].drawing, c))
Undo == ~isEmpty(session[galaxy].drawing) /\ Edit(galaxy, undo(session[galaxy].drawing))
Clear == ~isEmpty(session[galaxy].drawing) /\ Edit(galaxy, clear(session[galaxy].drawing))

\* sendPlanet.  The button asks for canLaunch, so the answer NothingDrawn never comes.
Launch ==
    /\ step = "friends" /\ Uncovered /\ canLaunch
    /\ session' = [session EXCEPT ![galaxy].isSending = TRUE, ![galaxy].oops = FALSE]
    /\ sends' = [sends EXCEPT ![galaxy] = Append(@, [drawing |-> session[galaxy].drawing, state |-> "asked"])]
    /\ UNCHANGED <<galaxy, step, held, reach, past>>

clearError ==
    /\ session[galaxy].oops
    /\ session' = [session EXCEPT ![galaxy].oops = FALSE]
    /\ UNCHANGED <<galaxy, step, held, reach, sends, past>>

\* A tap beside the dialog: the child may send the same drawing again.
dismissSuccess ==
    /\ session[galaxy].showSuccess
    /\ session' = [session EXCEPT ![galaxy].showSuccess = FALSE]
    /\ past' = [past EXCEPT ![galaxy] = [Unsent EXCEPT !.due = past[galaxy].due + 1]]
    /\ UNCHANGED <<galaxy, step, held, reach, sends>>

startNewPlanet ==
    /\ session[galaxy].showSuccess
    /\ session' = [session EXCEPT ![galaxy] = [Started EXCEPT !.drawing = clear(session[galaxy].drawing)]]
    /\ step' = "style" /\ reach' = galaxy
    /\ past' = [past EXCEPT ![galaxy] = Unsent]
    /\ UNCHANGED <<galaxy, held, sends>>

\* An adult chooses another galaxy.  A canvas on the screen stays, with its gestures.
SelectGalaxy(g) ==
    /\ g # galaxy
    /\ galaxy' = g
    /\ reach' = IF step = "draw" THEN reach ELSE g
    /\ past' = [past EXCEPT ![galaxy].left = @ \/ sends[galaxy] # << >> \/ session[galaxy].showSuccess]
    /\ UNCHANGED <<step, held, session, sends>>

\* The system ends the app and brings it back: the step and the galaxy are saved,
\* drawings are not.  What was sent may have arrived.
ProcessDies ==
    /\ reach' = galaxy
    /\ session' = IF step = "draw"
                  THEN [g \in Galaxy |-> IF g # galaxy THEN Started
                           ELSE [Started EXCEPT !.drawing.canvasSize = held]]
                  ELSE [g \in Galaxy |-> Started]
    /\ sends' = [g \in Galaxy |-> << >>]
    /\ past' = [g \in Galaxy |-> Unsent]
    /\ UNCHANGED <<galaxy, step, held>>
------------------------------------------------------------------------------
(* A send.                                                                  *)

Advance(g, i, state) == sends' = [sends EXCEPT ![g][i].state = state]

\* The server stores the planet, or refuses it (the cooldown, a failure).
ServeSend(g, i) ==
    /\ sends[g][i].state = "asked"
    /\ \/ Advance(g, i, "stored") /\ past' = [past EXCEPT ![g].due = @ - 1]
       \/ Advance(g, i, "refused") /\ UNCHANGED past
    /\ UNCHANGED <<galaxy, step, held, reach, session>>

\* retryOnConnectionFailure: the connection broke, and the call is sent once more.
ResendSend(g, i) ==
    /\ sends[g][i].state = "stored"
    /\ Advance(g, i, "asked")
    /\ past' = [past EXCEPT ![g].due = @ + 1]
    /\ UNCHANGED <<galaxy, step, held, reach, session>>

AnswerSend(g, i) ==
    LET stored == sends[g][i].state = "stored" IN
    /\ sends[g][i].state # "asked"
    /\ session' = [session EXCEPT ![g].isSending = FALSE, ![g].oops = ~stored,
                                  ![g].showSuccess = @ \/ stored]
    /\ sends' = [sends EXCEPT ![g] = RemoveAt(@, i)]
    /\ past' = IF stored THEN [past EXCEPT ![g].landed = sends[g][i].drawing]
               ELSE [past EXCEPT ![g].left = FALSE]
    /\ UNCHANGED <<galaxy, step, held, reach>>

\* Timed out or unreachable, whether the server has stored the planet, still will, or
\* will not: the tablet cannot know.
LoseSend(g, i) ==
    /\ session' = [session EXCEPT ![g].isSending = FALSE, ![g].oops = TRUE]
    /\ sends' = [sends EXCEPT ![g] = RemoveAt(@, i)]
    /\ past' = [past EXCEPT ![g].left = FALSE,
                            ![g].due = IF sends[g][i].state = "stored" THEN @ + 1 ELSE @]
    /\ UNCHANGED <<galaxy, step, held, reach>>

SessionNext ==
    \/ StyleToDraw \/ DrawToStyle \/ DrawToFriends \/ FriendsToDraw
    \/ DrawStroke \/ Undo \/ Clear \/ Launch
    \/ clearError \/ dismissSuccess \/ startNewPlanet \/ ProcessDies
    \/ \E c \in Paint : Fill(c)
    \/ \E size \in Size : Turn(size)
    \/ \E g \in Galaxy : SelectGalaxy(g)
    \/ \E g \in Galaxy : \E i \in DOMAIN sends[g] :
          ServeSend(g, i) \/ ResendSend(g, i) \/ AnswerSend(g, i) \/ LoseSend(g, i)

SessionSpec == SessionInit /\ [][SessionNext]_sessionVars
------------------------------------------------------------------------------
SessionTypeOK ==
    /\ galaxy \in Galaxy /\ reach \in Galaxy /\ held \in Size
    /\ step \in {"style", "draw", "friends"}
    /\ session \in [Galaxy -> UiState]
    /\ \A g \in Galaxy : \A i \in DOMAIN sends[g] :
          sends[g][i] \in [drawing : Drawing, state : {"asked", "stored", "refused"}]
    /\ past \in [Galaxy -> Past]

\* The bucket's paint is one stroke, under all others, of the size and colour the
\* drawing has; none is left over when it was undone, cleared or never measured.
BackgroundFits ==
    \A g \in Galaxy :
        LET d == session[g].drawing IN
        /\ d.strokes = (IF d.explicit /\ d.canvasSize # Unmeasured THEN <<BackgroundStroke(d)>>
                        ELSE << >>) \o Authored(d)
        /\ isEmpty(d) => clear(d) = d

\* One call at a time, and the button is disabled for as long as it is open.
OneSend ==
    \A g \in Galaxy :
        /\ Len(sends[g]) <= 1
        /\ session[g].isSending <=> sends[g] # << >>
        /\ session[g].showSuccess => ~session[g].isSending

\* The drawing that is about to be cleared away under a success is the one that the
\* server stored, if no adult changed the galaxy since it was launched.
NothingUnsentIsCleared ==
    \A g \in Galaxy : session[g].showSuccess /\ ~past[g].left => session[g].drawing = past[g].landed

\* A planet is stored once, and again only after an answer was lost on the way or the
\* child closed the celebration and stayed with the drawing.
StoredOnce == \A g \in Galaxy : past[g].due >= 0

\* The tablet's session: the background follows the drawing, one send at a time, a
\* success is about the drawing on the screen, and nothing is stored twice unasked.
DrawingIsSafe == BackgroundFits /\ OneSend /\ NothingUnsentIsCleared /\ StoredOnce

\* "a rotation keeps the child's drawing": strokes go out in the pixels of the surface
\* they were drawn on, so its size must be the one that goes with them.
RotationKeepsDrawing ==
    \A g \in Galaxy : LET d == session[g].drawing IN
        \A i \in DOMAIN d.strokes : d.strokes[i].on = d.canvasSize
==============================================================================
