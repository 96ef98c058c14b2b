---------------------------- MODULE MCPaintedBody ----------------------------
(* How a planet comes by its surface: from the strokes of its drawing and on   *)
(* to the relief mesh, from its picture alone, or, for a bowl or a ridge on    *)
(* it, from numbers.  They share nothing but the planet, so a behaviour is one *)
(* of the three.                                                               *)
EXTENDS PlanetMesh, AccentShapes

MCCosU == <<92, 38, -38, -92, -92, -38, 38, 92>>
MCCosV == <<99, 94, 85, 71, 53, 33, 11, -11, -33, -53, -71, -85, -94, -99>>
MCSinV == <<11, 33, 53, 71, 85, 94, 99, 99, 94, 85, 71, 53, 33, 11>>

Stroke(pts, width, order) == [points |-> pts, width |-> width, jitter |-> 30, order |-> order]
Across(y) == <<<<100, y>>, <<500, y>>, <<900, y>>>>
Bands == {
    <<Across(100), 60>>, <<Across(420), 90>>, <<Across(700), 90>>,
    <<<<<<50, 500>>, <<950, 500>>>>, 120>>,                                \* across the disc
    <<<<<<100, 250>>, <<300, 450>>, <<600, 400>>, <<900, 750>>>>, 0>> }    \* aslant
Marks == Bands \cup {
    <<Across(250), 60>>, <<Across(920), 60>>,
    <<<<<<800, 560>>, <<500, 500>>, <<300, 640>>>>, 80>>,                  \* from right to left
    <<<<<<400, 200>>, <<430, 800>>>>, 60>>,                                \* from pole to pole
    <<<<<<600, 600>>, <<600, 600>>>>, 350>>,                               \* a dot
    <<<<<<300, 400>>, <<700>>, <<1200, 400>>, <<700, -90>>>>, 30>>,        \* junk in it
    <<<<<<500, 500>>>>, 60>> }                                             \* one point
MCDrawing ==
    {<< >>} \cup {<<Stroke(m[1], m[2], 0)>> : m \in Marks}
    \cup {<<Stroke(m[1], m[2], 0), Stroke(n[1], n[2], 1)>> : m \in Marks, n \in Bands}

\* Painted rectangles; columns may run over the seam.
Blob(colour, x0, x1, y0, y1, votes) ==
    [colour |-> colour, cells |-> {<<x % GW, y>> : x \in x0..x1, y \in y0..y1}, votes |-> votes]
\* What is painted last hides what it covers.
On(blobs) ==
    [c \in Cell |->
        LET mine == SelectSeq(blobs, LAMBDA b : c \in b.cells)
            top == mine[Len(mine)] under == mine[Len(mine) - 1]
        IN  CASE Len(mine) = 0 -> << >>
              [] Len(mine) = 1 \/ top.votes = CellPixels \/ under.colour = top.colour
                   -> <<<<top.colour, top.votes>>>>
              [] OTHER -> <<<<under.colour, Min({under.votes, CellPixels - top.votes})>>,
                            <<top.colour, top.votes>>>>]
Ground == {<< >>, <<Blob(1, 0, GW - 1, 0, GH - 1, 20)>>, <<Blob(1, 0, GW - 1, 3, 8, 12)>>}
Gesture == {
    << >>,
    <<Blob(2, 3, 6, 3, 6, 12)>>,                                       \* a spot
    <<Blob(2, GW - 2, GW + 1, 4, 7, 12)>>,                             \* over the seam
    <<Blob(2, 1, 14, 5, 5, 2)>>,                                       \* too faint
    <<Blob(2, 0, GW - 1, 0, 0, 12)>>,                                  \* at the pole
    <<Blob(2, 2, 3, 2, 9, 12), Blob(3, 8, 18, 6, 7, 12)>>,             \* a column, a ribbon
    <<Blob(2, 0, 11, 0, GH - 1, 28), Blob(3, 12, GW - 1, 2, GH - 1, 25)>>,  \* everything
    <<Blob(2, 0, GW - 1, 1, 1, 12), Blob(2, 6, 6, 10, 10, 12)>>,       \* a ring, a dot
    <<Blob(2, 2, 2, 2, 2, 12), Blob(2, 10, 10, 2, 2, 12), Blob(2, 18, 19, 2, 2, 12),
      Blob(2, 2, 2, 9, 9, 12), Blob(2, 10, 12, 9, 9, 12), Blob(2, 19, 19, 9, 9, 12)>> }
MCPicture == {On(g \o a \o b) : g \in Ground, a \in Gesture, b \in Gesture}

MCBowls == {<<1, 3>>, <<2, 4>>, <<3, 5>>}
MCRidges == {<<1, 1>>, <<3, 2>>, <<2, 4>>}

bodyVars == <<mapVars, accentVars, meshVars>>

Init ==
    /\ MeshInit
    /\ \/ MapsInit /\ NoPicture
       \/ NoMaps /\ AccentsInit
       \/ NoMaps /\ NoPicture

Next ==
    \/ MapsStep /\ UNCHANGED <<accentVars, meshVars>>
    \/ AccentStep /\ UNCHANGED <<mapVars, meshVars>>
    \/ sculpting = "none" /\ MeshStep /\ UNCHANGED accentVars

Spec == Init /\ [][Next]_bodyVars
==============================================================================
