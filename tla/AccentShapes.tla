----------------------------- MODULE AccentShapes -----------------------------
(***************************************************************************)
(* The planet of a drawing that came without strokes: PlanetSurface reads  *)
(* the picture as art direction.  The colour painted most becomes the body *)
(* and a few strong shapes of other colours its accents.  A picture is, for *)
(* each cell of the grid, how many of its pixels nearestPaletteIndex takes  *)
(* for which colour, in the order the cell is scanned.  The code lets       *)
(* slightly fainter pixels vote than it counts; here they are the same.     *)
(***************************************************************************)
EXTENDS Integers, Sequences, FiniteSets, SequencesExt, Lists

CONSTANTS
    GW, GH,         \* the grid
    CellPixels,     \* pixels of one cell
    Palette,        \* the number of colours of the tablet
    Picture         \* see PictureAssumption

Cell == (0..(GW - 1)) \X (0..(GH - 1))

\* Each colour has one number in a cell; the tablet has eight colours.
ASSUME PictureAssumption ==
    /\ {GW, GH, CellPixels, Palette} \subseteq Nat \ {0} /\ Palette < 30
    /\ \A p \in Picture :
          /\ p \in [Cell -> Seq((1..Palette) \X (1..CellPixels))]
          /\ \A c \in Cell : \A i, j \in DOMAIN p[c] : p[c][i][1] = p[c][j][1] => i = j

VARIABLES
    picture,
    sculpting,      \* "reading" the picture, "grouping" its cells, "finding" and
                    \* "fitting" shapes, "molded"; "none" without a picture
    counts,         \* pixels painted in each colour
    voted,          \* for each accent [colour, cells that voted for it]
    shapes,         \* retained: sequence of [colour, found, mask]
    passes          \* erosions so far

accentVars == <<picture, sculpting, counts, voted, shapes, passes>>
------------------------------------------------------------------------------
\* gridIndex, wrappedX: longitude wraps, above and below the grid there is nothing.
Box(c, rx, ry) ==
    {<<(c[1] + dx + GW) % GW, c[2] + dy>> : dx \in -rx..rx, dy \in -ry..ry}
Dilate(mask, rx, ry) == Cell \cap UNION {Box(c, rx, ry) : c \in mask}
Erode(mask, rx, ry)  == {c \in mask : Box(c, rx, ry) \subseteq mask}

Neighbours(c) == Cell \cap Box(c, 1, 1)

\* componentsFor, the fragments it drops included.
ComponentsFor(mask) ==
    LET grow[part \in SUBSET mask] ==
            LET more == mask \cap UNION {Neighbours(c) : c \in part}
            IN  IF more = part THEN part ELSE grow[more]
        split[rest \in SUBSET mask] ==
            IF rest = {} THEN {}
            ELSE LET part == grow[{CHOOSE c \in rest : TRUE}] IN {part} \cup split[rest \ part]
    IN  split[mask]
MinComponentCells == 6
------------------------------------------------------------------------------
Pixels == CellPixels * GW * GH
Count(colour) ==
    Total([n \in 1..CellPixels |->
        n * Cardinality({c \in Cell : <<colour, n>> \in Range(picture[c])})])
Painted == Total(counts)

\* What prepareArtwork makes of the counts: the first of the most painted colours,
\* whether it is the body, and the accents, at most two, the most painted first.
Dominant ==
    CHOOSE a \in 1..Palette : \A b \in 1..Palette :
        counts[a] > counts[b] \/ (counts[a] = counts[b] /\ a <= b)
Meaningful == {a \in 1..Palette : 250 * counts[a] > Pixels}
UseDominantAsBody ==
    /\ 50 * Painted > Pixels
    /\ 100 * Painted >= 12 * Pixels \/ Cardinality(Meaningful) >= 2

Accents ==
    LET others == {a \in Meaningful : UseDominantAsBody => a # Dominant}
        before == {p \in others \X others :
                     \/ counts[p[1]] > counts[p[2]]
                     \/ counts[p[1]] = counts[p[2]] /\ p[1] < p[2]}
        ranked == Listed(others, before)
    IN  SubSeq(ranked, 1, Min({2, Len(ranked)}))

SelfAccent ==
    /\ Accents = << >> /\ UseDominantAsBody
    /\ 1000 * Painted >= 35 * Pixels /\ 100 * Painted < 42 * Pixels

SelectedColours == IF SelfAccent THEN <<Dominant>> ELSE Accents
------------------------------------------------------------------------------
\* simplifyAccents: the first colour with most votes gets the cell, from three on.
Wins(c, colour, selected) ==
    LET votes == picture[c]
    IN  \E i \in DOMAIN votes :
          /\ votes[i][1] = colour /\ votes[i][2] >= 3
          /\ \A j \in DOMAIN votes : votes[j][1] \in selected =>
                votes[j][2] < votes[i][2] \/ (votes[j][2] = votes[i][2] /\ i <= j)
Votes(selected) ==
    [i \in DOMAIN selected |-> [colour |-> selected[i],
                                cells |-> {c \in Cell : Wins(c, selected[i], Range(selected))}]]

\* Mutant of Closed: erodes as far as it dilated, and a little more.
ClosedTight(mask) == Dilate(Erode(Dilate(mask, 2, 1), 2, 2), 1, 1)

\* "Close small holes and fuse nearby brush marks before finding shapes."
Closed(mask) == Dilate(Erode(Dilate(mask, 2, 1), 1, 1), 1, 1)

\* componentStats, stylizeComponent
Extent(coordinates) == Max(coordinates) - Min(coordinates) + 1
Aspect(component) ==    \* in percent
    (100 * Extent({c[1] : c \in component})) \div Extent({c[2] : c \in component})
Kind(component) ==
    CASE Aspect(component) >= 165 -> "ribbon"
      [] Aspect(component) <= 65  -> "column"
      [] OTHER                    -> "blob"
Stylized(component) ==
    CASE Kind(component) = "ribbon" -> Erode(Dilate(Dilate(component, 4, 1), 1, 1), 1, 1)
      [] Kind(component) = "column" -> Erode(Dilate(Dilate(component, 2, 2), 1, 2), 1, 1)
      [] Kind(component) = "blob"   -> Erode(Dilate(Dilate(component, 2, 2), 1, 1), 1, 1)

\* The candidates of all colours, the largest first; of equals, by colour and scan.
Candidates ==
    UNION {{[colour |-> voted[i].colour, rank |-> i, found |-> m] :
                m \in {n \in ComponentsFor(Closed(voted[i].cells)) :
                            Cardinality(n) >= MinComponentCells}} : i \in DOMAIN voted}
Scan(component) == Min({c[2] * GW + c[1] : c \in component})
Larger(a, b) ==
    LET key(s) == <<-Cardinality(s.found), s.rank, Scan(s.found)>>
    IN  \E i \in 1..3 : key(a)[i] < key(b)[i] /\ \A j \in 1..(i - 1) : key(a)[j] = key(b)[j]

\* rebuildLabels: the earlier shape keeps the cell; 0 is the body.
Labels(list) ==
    [c \in Cell |-> LET on == {i \in DOMAIN list : c \in list[i].mask}
                    IN  IF on = {} THEN 0 ELSE list[Min(on)].colour]
CoveredCells(list) == Cardinality(UNION {list[i].mask : i \in DOMAIN list})
TooMuch(list)   == 100 * CoveredCells(list) > 34 * GW * GH
TooLittle(list) == list # << >> /\ 100 * CoveredCells(list) < 14 * GW * GH
------------------------------------------------------------------------------
AccentTypeOK ==
    /\ picture \in Picture \cup {<< >>}
    /\ sculpting \in {"none", "reading", "grouping", "finding", "fitting", "molded"}
    /\ counts \in [1..Palette -> 0..Pixels] /\ Len(voted) <= 2
    /\ \A i \in DOMAIN voted : voted[i].colour \in 1..Palette /\ voted[i].cells \subseteq Cell
    /\ passes \in 0..5 /\ Len(shapes) <= 4
    /\ \A i \in DOMAIN shapes : shapes[i].colour \in 1..Palette /\ shapes[i].mask \subseteq Cell

AccentsInit ==
    /\ picture \in Picture /\ sculpting = "reading" /\ counts = [a \in 1..Palette |-> 0]
    /\ voted = << >> /\ shapes = << >> /\ passes = 0

NoPicture ==
    /\ picture = << >> /\ sculpting = "none" /\ counts = [a \in 1..Palette |-> 0]
    /\ voted = << >> /\ shapes = << >> /\ passes = 0

\* The first half of prepareArtwork counts the pixels, ...
ReadPicture ==
    /\ sculpting = "reading" /\ sculpting' = "grouping"
    /\ counts' = [colour \in 1..Palette |-> Count(colour)]
    /\ UNCHANGED <<picture, voted, shapes, passes>>

\* ... the accents are chosen from them, and every cell goes to one of them.
GroupCells ==
    /\ sculpting = "grouping" /\ sculpting' = "finding"
    /\ voted' = Votes(SelectedColours)
    /\ UNCHANGED <<picture, counts, shapes, passes>>

\* prepareArtwork and simplifyAccents, up to the shapes that are retained.
FindShapes ==
    /\ sculpting = "finding" /\ sculpting' = "fitting"
    /\ LET all == Candidates
           found == Listed(all, {p \in all \X all : Larger(p[1], p[2])})
           kept == SubSeq(found, 1, Min({4, Len(found)}))
       IN  shapes' = [i \in DOMAIN kept |->
                [colour |-> kept[i].colour, found |-> kept[i].found, mask |-> Stylized(kept[i].found)]]
    /\ UNCHANGED <<picture, counts, voted, passes>>

Erosion   == [i \in DOMAIN shapes |-> [shapes[i] EXCEPT !.mask = Erode(@, 1, 1)]]
Expansion == [i \in DOMAIN shapes |-> [shapes[i] EXCEPT !.mask = Dilate(@, 1, 1)]]

ErodeShapes ==
    /\ sculpting = "fitting" /\ TooMuch(shapes) /\ passes < 5
    /\ passes' = passes + 1 /\ shapes' = Erosion
    /\ UNCHANGED <<picture, counts, voted, sculpting>>

MoldShapes ==
    /\ sculpting = "fitting" /\ ~(TooMuch(shapes) /\ passes < 5)
    /\ sculpting' = "molded"
    /\ shapes' = IF TooLittle(shapes) /\ ~TooMuch(Expansion) THEN Expansion ELSE shapes
    /\ UNCHANGED <<picture, counts, voted, passes>>

AccentStep == ReadPicture \/ GroupCells \/ FindShapes \/ ErodeShapes \/ MoldShapes

AccentSpec == (AccentsInit \/ NoPicture) /\ [][AccentStep]_accentVars
------------------------------------------------------------------------------
\* The shapes of one colour are whole and apart: two of them never touch, at the
\* seam either, where one shape has cells on both sides of the grid.
ShapesAreApart ==
    \A i, j \in DOMAIN shapes :
        i # j /\ shapes[i].colour = shapes[j].colour =>
            shapes[i].found \cap Dilate(shapes[j].found, 1, 1) = {}

\* What was clearly painted in an accent's colour is part of a shape before shapes
\* are weighed, whatever closing the holes took off again; only the two rows at the
\* poles may lose paint.
InkIsKept ==
    sculpting = "finding" =>
        \A i \in DOMAIN voted :
            {c \in voted[i].cells : c[2] \in 1..(GH - 2)} \subseteq Closed(voted[i].cells)

\* "a fully painted one-colour canvas correctly becomes a clean solid body", and
\* next to other colours the colour of the body is never an accent on it.
BodyIsClean ==
    sculpting = "molded" /\ UseDominantAsBody /\ Dominant \in Range(Labels(shapes)) =>
        Cardinality(Meaningful) = 1 /\ 100 * Painted < 42 * Pixels

\* The strong gestures survive: no shape left out was larger than one retained, and
\* however often the shapes are eroded and expanded, none lies further than one cell
\* outside its style.
StrongGesturesSurvive ==
    sculpting = "molded" =>
        /\ \A s \in Candidates :
              \/ \E i \in DOMAIN shapes : shapes[i].found = s.found
              \/ Len(shapes) = 4 /\ \A i \in DOMAIN shapes :
                                        Cardinality(shapes[i].found) >= Cardinality(s.found)
        /\ \A i \in DOMAIN shapes :
              shapes[i].mask \subseteq Dilate(Stylized(shapes[i].found), 1, 1)

\* The accents never swallow the planet: they fit, or five erosions did not do.
AccentsFit == sculpting = "molded" => ~TooMuch(shapes) \/ passes = 5

\* The shapes found are the painted areas, apart from one another and with all their
\* ink; what is molded of them in the end are the strongest gestures that fit, beside a
\* clean body.
AccentsAreTidy ==
    /\ AccentTypeOK
    /\ ShapesAreApart /\ InkIsKept
    /\ BodyIsClean /\ StrongGesturesSurvive /\ AccentsFit
==============================================================================
