------------------------------ MODULE StrokeMaps ------------------------------
(***************************************************************************)
(* From the strokes of a drawing to who owns, colours and raises each      *)
(* texel of the planet: ManifestMaps, with the distance fields of          *)
(* ReliefFields and the mirrored look-up of FrontViewProjection.  Strokes  *)
(* are in thousandths of the canvas, rasters in hundredths of a texel,     *)
(* distances in thousandths of a texel, shares in percent.                 *)
(***************************************************************************)
EXTENDS Integers, Sequences, SequencesExt, Filters, Lists

CONSTANTS
    W, H,               \* the texture
    S,                  \* the raster of the disc
    CosU, CosV, SinV,   \* of the texel centres, in percent
    Drawing             \* sequences of strokes, see DrawingAssumption

ASSUME DrawingAssumption ==
    /\ {W, H, S} \subseteq Nat \ {0} /\ W % 2 = 0 /\ H <= 1000
    /\ {CosU[i] : i \in 1..W} \cup {CosV[i] : i \in 1..H} \subseteq -100..100
    /\ {SinV[i] : i \in 1..H} \subseteq 0..100
    /\ \A i \in 1..W : CosU[W + 1 - i] = CosU[i]
    /\ Drawing \subseteq Seq([points : Seq(Seq(Int)),      \* pairs, or junk
                              width : Nat, jitter : 0..100, order : Nat])

VARIABLES
    strokes,        \* the drawing, in the order it was painted
    rendering,      \* "classic" or "front-view"
    stage,          \* "painting", "laid" on the sphere, "raised"; "none" without strokes
    painted,        \* strokes painted so far
    owner,          \* the stroke that owns a texel, 0 for the body
    tint,           \* the strokes (0 the body) whose colours are mixed in it
    coverage,       \* how much of it is covered, in percent
    distance,       \* from the edge of its owner's region, inside it
    outside         \* of the texels of the body from the paint

mapVars == <<strokes, rendering, stage, painted, owner, tint, coverage, distance, outside>>

Texel == (0..(H - 1)) \X (0..(W - 1))
Clamp(x, lo, hi) == Max({lo, Min({x, hi})})
Isqrt(x) == CHOOSE n \in 0..1500 : n * n <= x /\ (n + 1) * (n + 1) > x
------------------------------------------------------------------------------
\* normalizedPoints: what is not a pair is dropped, the others are clamped.
Points(k) ==
    LET pairs == Only(strokes[k].points, Int \X Int)
    IN  [i \in DOMAIN pairs |-> <<Clamp(pairs[i][1], 0, 1000), Clamp(pairs[i][2], 0, 1000)>>]

\* strokeProjection makes nothing of fewer than two points.
Projected == {k \in DOMAIN strokes : Len(Points(k)) >= 2}

X(k) == {p[1] : p \in Range(Points(k))}
Y(k) == {p[2] : p \in Range(Points(k))}
Span(D) == Max({1, 10 * (Max(D) - Min(D))})
SumY(k) == Total([i \in 1..Len(Points(k)) |-> Points(k)[i][2]])
CenterY(k) == SumY(k) \div Len(Points(k))

NearVertical(k)   == 100 * Span(Y(k)) >= 155 * Span(X(k))
WrapsLongitude(k) == ~NearVertical(k) /\ 100 * Span(X(k)) >= 72 * Span(Y(k))
HorizontalPoleCandidate(k) ==
    rendering = "classic" /\ ~NearVertical(k) /\ 100 * Span(X(k)) >= 110 * Span(Y(k))

WidthNormalized(k) == IF strokes[k].width = 0 THEN 20 ELSE Clamp(strokes[k].width, 3, 350)
BandFrom(k) == Clamp(Min(Y(k)) - WidthNormalized(k) \div 2, 0, 1000)
BandTo(k)   == Clamp(Max(Y(k)) + WidthNormalized(k) \div 2, 0, 1000)

\* Mutant of MakePeriodic: each end meets the seam at its own height.
MakePeriodicOpen(pts) ==
    [i \in DOMAIN pts |-> CASE i = 1 -> <<0, pts[1][2]>> [] i = Len(pts) -> <<1000, pts[i][2]>>
                            [] OTHER -> pts[i]]

\* makePeriodic: toward the seam, a ribbon bends to where its two ends meet.
Smoothstep(t) == (t * t * (300 - 2 * t)) \div 10000
MakePeriodic(pts) ==
    LET n     == Len(pts)
        seamY == (pts[1][2] + pts[n][2]) \div 2
        bend(p) ==
            LET near == Clamp((Min({p[1], 1000 - p[1]}) * 100) \div 140, 0, 100)
            IN  <<p[1], (p[2] * Smoothstep(near) + seamY * (100 - Smoothstep(near))) \div 100>>
    IN  [i \in 1..n |-> CASE i = 1 -> <<0, seamY>> [] i = n -> <<1000, seamY>>
                          [] OTHER -> bend(pts[i])]

ProjectedPoints(k) ==
    IF WrapsLongitude(k)
    THEN MakePeriodic([i \in DOMAIN Points(k) |->
            <<((Points(k)[i][1] - Min(X(k))) * 10000) \div Span(X(k)), Points(k)[i][2]>>])
    ELSE Points(k)

\* The 2D canvas: how much of each texel a round-capped line covers.
Off(x, a, b) == Max({0, a - x, x - b})
SegmentCovers(a, b, half, x, y) ==
    LET l == IF a[1] <= b[1] THEN a ELSE b      \* from left to right
        r == IF a[1] <= b[1] THEN b ELSE a
        at == l[2] + ((r[2] - l[2]) * (Clamp(x, l[1], r[1]) - l[1])) \div (r[1] - l[1])
        dy == IF l[1] = r[1] THEN Off(y, Min({a[2], b[2]}), Max({a[2], b[2]})) ELSE Off(y, at, at)
    IN  Clamp(50 + half - Max({dy, Off(x, l[1], r[1])}), 0, 100)

Canvas(pts, half, rows, cols, shifts) ==
    [t \in (0..(rows - 1)) \X (0..(cols - 1)) |->
        Max({SegmentCovers(pts[i], pts[i + 1], half, 100 * t[2] + 50 + s, 100 * t[1] + 50) :
                i \in 1..(Len(pts) - 1), s \in shifts})]

\* drawProjectedStroke: thrice, so that what leaves on one side comes in on the other.
DrawProjectedStroke(k) ==
    LET pts == ProjectedPoints(k)
    IN  Canvas([i \in DOMAIN pts |-> <<(pts[i][1] * W) \div 10, (pts[i][2] * (H - 1)) \div 10>>],
               Max({100, (WidthNormalized(k) * H) \div 20}), H, W, {-100 * W, 0, 100 * W})
------------------------------------------------------------------------------
\* choosePoleOwners: of the strokes whose middle is near a pole, the nearest, and
\* of equals the first.
North == {k \in Projected : HorizontalPoleCandidate(k) /\ SumY(k) <= 220 * Len(Points(k))}
South == {k \in Projected : HorizontalPoleCandidate(k) /\ SumY(k) >= 780 * Len(Points(k))}
Foremost(key) ==
    IF DOMAIN key = {} THEN 0
    ELSE Min({k \in DOMAIN key : key[k] = Min(Range(key))})
NorthPole == Foremost([k \in North |-> CenterY(k)])
SouthPole == Foremost([k \in South |-> -CenterY(k)])

\* closePole, paintRows
CapRows(k) ==
    (IF k = NorthPole THEN 0..((BandTo(k) * (H - 1) + 999) \div 1000) ELSE {})
    \cup (IF k = SouthPole THEN ((BandFrom(k) * (H - 1)) \div 1000)..(H - 1) ELSE {})

\* What a stroke that covers alpha of each texel does to a raster: from half on it
\* owns the texel, below that its colour is mixed in.
Owns(alpha, k, own)  == [t \in DOMAIN own |-> IF alpha[t] >= 50 THEN k ELSE own[t]]
Mixes(alpha, k, col) == [t \in DOMAIN col |-> CASE alpha[t] >= 50 -> {k}
                                                [] alpha[t] > 1 /\ alpha[t] < 50 -> col[t] \cup {k}
                                                [] OTHER -> col[t]]

Covers(alpha, cov) == [t \in DOMAIN cov |-> IF alpha[t] > 1 THEN Max({alpha[t], cov[t]}) ELSE cov[t]]
------------------------------------------------------------------------------
\* fillInternalBandGaps: the run of background a texel lies in, down its column.
RunStart(own, v, u) == Min({r \in 0..v : \A q \in r..v : own[<<q, u>>] = 0})
RunEnd(own, v, u)   == Max({r \in v..(H - 1) : \A q \in v..r : own[<<q, u>>] = 0})
BandCentres == {CenterY(k) : k \in {j \in Projected : WrapsLongitude(j)}}

\* Mutant of IsTrench: however wide it is.
IsTrenchWide(start, end) ==
    /\ start > 0 /\ end < H - 1
    /\ \E above, below \in BandCentres :
          /\ 2 * (H - 1) * above < 1000 * (start + end)
          /\ 2 * (H - 1) * below > 1000 * (start + end)

IsTrench(start, end) ==
    /\ start > 0 /\ end < H - 1
    /\ \E above, below \in BandCentres :
          /\ 2 * (H - 1) * above < 1000 * (start + end)
          /\ 2 * (H - 1) * below > 1000 * (start + end)
    /\ 100 * (end - start + 1) <= 22 * H

\* Where a texel takes ownership and colour from: the nearer bank of a trench.
FillSource(own, v, u) ==
    LET start == RunStart(own, v, u) end == RunEnd(own, v, u)
    IN  CASE own[<<v, u>>] # 0 \/ ~IsTrench(start, end) -> <<v, u>>
          [] own[<<v, u>>] = 0 /\ IsTrench(start, end)
               -> IF v - start <= end - v THEN <<start - 1, u>> ELSE <<end + 1, u>>
------------------------------------------------------------------------------
\* Longitude wraps, latitude ends at the poles.
Step == {<<dv, du>> : dv \in -1..1, du \in -1..1} \ {<<0, 0>>}
Cost(d) == IF d[1] # 0 /\ d[2] # 0 THEN 1414 ELSE 1000
To(t, d) == <<t[1] + d[1], (t[2] + d[2] + W) % W>>

\* Mutant of Sweeps: one sweep each way.
SweepsOnce == <<1, -1>>

\* Two sweeps each way.
Sweeps == <<1, -1, 1, -1>>

\* relax, in raster order or against it; a texel looks at those before it.  near[t]
\* are the texels a distance may pass to t from.
Relaxed(field, near) ==
    LET nth(i, n, dir) == IF dir = 1 THEN i - 1 ELSE n - i
        before(dir) == {<<-dir, 0>>, <<-dir, -1>>, <<-dir, 1>>, <<0, -dir>>}
        relax(f, t, dir) ==
            [f EXCEPT ![t] = Min({@} \cup
                {f[To(t, d)] + Cost(d) : d \in {b \in before(dir) : To(t, b) \in near[t]}})]
        row(f, v, dir) ==
            LET upTo[i \in 0..W] == IF i = 0 THEN f ELSE relax(upTo[i - 1], <<v, nth(i, W, dir)>>, dir)
            IN  upTo[W]
        sweep(f, dir) ==
            LET upTo[i \in 0..H] == IF i = 0 THEN f ELSE row(upTo[i - 1], nth(i, H, dir), dir)
            IN  upTo[H]
        \* a set of one field, so that TLC evaluates a sweep before the next
        after[i \in 0..Len(Sweeps)] ==
            IF i = 0 THEN {field} ELSE {sweep(f, Sweeps[i]) : f \in after[i - 1]}
    IN  CHOOSE f \in after[Len(Sweeps)] : TRUE

Far == 1000 * (W + H)
EdgeSeedDistance(cov) == 10 * cov - 500

\* roundedRelief: seeds where the region of an owner ends, relaxed inside it.
AtEdge(own, t) ==
    \E d \in {<<-1, 0>>, <<1, 0>>, <<0, -1>>, <<0, 1>>} :
        To(t, d) \in Texel /\ own[To(t, d)] # own[t]
Seed(own, cov) ==
    [t \in Texel |-> CASE own[t] = 0                     -> EdgeSeedDistance(0)
                       [] own[t] # 0 /\ AtEdge(own, t)   -> EdgeSeedDistance(cov[t])
                       [] own[t] # 0 /\ ~AtEdge(own, t)  -> Far]
SameOwner(own, t) ==
    IF own[t] = 0 THEN {} ELSE {n \in {To(t, d) : d \in Step} \cap Texel : own[n] = own[t]}
RoundedRelief(own, cov) ==
    Relaxed(Seed(own, cov), [t \in Texel |-> SameOwner(own, t)])

\* chamferDistance, for the crease shading: from the paint, everywhere.
ChamferDistance(own) ==
    Relaxed([t \in Texel |-> IF own[t] # 0 THEN 0 ELSE Far],
            [t \in Texel |-> {To(t, d) : d \in Step} \cap Texel])
------------------------------------------------------------------------------
\* strokeProfiles: the level of a stroke's layer, 42 to 100 percent, from how late
\* it was painted, its width, the area it spans, its claim on a pole and its name.
Score(metric, k) ==
    LET low == Min(Range(metric)) high == Max(Range(metric))
    IN  IF high = low THEN 50 ELSE (100 * (metric[k] - low)) \div (high - low)

PathLength(k) ==
    Total([i \in 1..(Len(Points(k)) - 1) |->
        LET dx == Points(k)[i + 1][1] - Points(k)[i][1]
            dy == Points(k)[i + 1][2] - Points(k)[i][2]
        IN  Isqrt(dx * dx + dy * dy)])
CoverageMetric(k) ==
    Clamp((55 * Span(X(k)) + 25 * Span(Y(k)) + 200 * Min({1000, PathLength(k)})) \div 1000, 0, 1000)

Pole(k) ==
    CASE k \in {NorthPole, SouthPole} -> 100
      [] k \notin {NorthPole, SouthPole} /\ HorizontalPoleCandidate(k)
           /\ (BandFrom(k) <= 297 \/ BandTo(k) >= 703) -> 50
      [] OTHER -> 0

OrderScore(k) == Score([j \in Projected |-> strokes[j].order], k)
WidthScore(k) == Score([j \in Projected |-> WidthNormalized(j)], k)
CoverageScore(k) == Score([j \in Projected |-> CoverageMetric(j)], k)

LayerScore(k) ==
    (35 * OrderScore(k) + 25 * WidthScore(k) + 20 * CoverageScore(k)
        + 10 * Pole(k) + 10 * strokes[k].jitter) \div 100

Level(k) == 42 + (58 * LayerScore(k)) \div 100
------------------------------------------------------------------------------
\* rasteriseDisc: the strokes as they were drawn, clipped a little outside the disc.
DiscTexel == (0..(S - 1)) \X (0..(S - 1))
DrawDiscStroke(k) ==
    LET pixel(n) == 50 * S + ((n - 500) * 50 * S) \div 420
        pts == [i \in DOMAIN Points(k) |-> <<pixel(Points(k)[i][1]), pixel(Points(k)[i][2])>>]
        drawn == Canvas(pts, Max({100, (WidthNormalized(k) * 50 * S) \div 840}), S, S, {0})
        r(t) == (100 * t[1] + 50 - 50 * S) * (100 * t[1] + 50 - 50 * S)
                    + (100 * t[2] + 50 - 50 * S) * (100 * t[2] + 50 - 50 * S)
    IN  [t \in DiscTexel |-> IF r(t) <= 2652 * S * S THEN drawn[t] ELSE 0]

\* discPointForTexel: from the distance to the view axis, eased toward the rim.
Asin == <<0, 6, 13, 19, 26, 33, 41, 49, 59, 71, 100>>
DiscPoint(t) ==
    LET x == (-CosU[t[2] + 1] * SinV[t[1] + 1]) \div 100
        y == CosV[t[1] + 1]
        r == Clamp(Isqrt(x * x + y * y), 1, 100)
        rho == (70 * r + 30 * Asin[1 + r \div 10]) \div 100
    IN  <<(x * rho) \div r, (-y * rho) \div r>>

\* sampleDiscOntoSphere: owner, colour and coverage from one and the same texel.
DiscSource(t) ==
    LET at(x) == Clamp(((x + 100) * S) \div 200, 0, S - 1)
    IN  <<at(DiscPoint(t)[2]), at(DiscPoint(t)[1])>>
------------------------------------------------------------------------------
MapsTypeOK ==
    /\ strokes \in Drawing \cup {<< >>} /\ rendering \in {"classic", "front-view"}
    /\ stage \in {"none", "painting", "laid", "raised"} /\ painted \in 0..Len(strokes)
    /\ DOMAIN owner = IF rendering = "front-view" /\ stage = "painting" THEN DiscTexel ELSE Texel
    /\ DOMAIN tint = DOMAIN owner /\ DOMAIN coverage = DOMAIN owner
    /\ \A t \in DOMAIN owner :
          owner[t] \in 0..painted /\ tint[t] \subseteq 0..painted /\ coverage[t] \in 0..100
    /\ stage = "raised" => {DOMAIN distance, DOMAIN outside} = {Texel}

\* buildManifestMaps and rasteriseDisc start from the colour of the body.
MapsInit ==
    /\ strokes \in Drawing /\ rendering \in {"classic", "front-view"}
    /\ stage = "painting" /\ painted = 0
    /\ LET raster == IF rendering = "classic" THEN Texel ELSE DiscTexel IN
         /\ owner = [t \in raster |-> 0]
         /\ tint = [t \in raster |-> {0}]
         /\ coverage = [t \in raster |-> 0]
    /\ distance = << >> /\ outside = << >>

NoMaps ==
    /\ strokes = << >> /\ rendering = "classic" /\ stage = "none" /\ painted = 0
    /\ owner = [t \in Texel |-> 0] /\ tint = [t \in Texel |-> {0}]
    /\ coverage = [t \in Texel |-> 0] /\ distance = << >> /\ outside = << >>

\* One stroke over all before it and, where it owns a pole, its cap.
PaintStroke ==
    /\ stage = "painting" /\ painted < Len(strokes)
    /\ painted' = painted + 1
    /\ LET k     == painted + 1
           alpha == IF rendering = "classic" THEN DrawProjectedStroke(k) ELSE DrawDiscStroke(k)
           own   == Owns(alpha, k, owner)
           cols  == Mixes(alpha, k, tint)
           cap   == CapRows(k)
       IN  IF k \in Projected
           THEN /\ owner' = [t \in DOMAIN own |-> IF t[1] \in cap THEN k ELSE own[t]]
                /\ tint' = [t \in DOMAIN own |-> IF t[1] \in cap THEN {k} ELSE cols[t]]
                /\ coverage' = Covers(alpha, coverage)
           ELSE UNCHANGED <<owner, tint, coverage>>
    /\ UNCHANGED <<strokes, rendering, stage, distance, outside>>

FillInternalBandGaps ==
    /\ rendering = "classic" /\ stage = "painting" /\ painted = Len(strokes)
    /\ LET from == [t \in Texel |-> FillSource(owner, t[1], t[2])] IN
         /\ owner' = [t \in Texel |-> owner[from[t]]]
         /\ tint' = [t \in Texel |-> tint[from[t]]]
         /\ coverage' = [t \in Texel |-> IF from[t] = t THEN coverage[t] ELSE 100]
    /\ stage' = "laid"
    /\ UNCHANGED <<strokes, rendering, painted, distance, outside>>

\* buildFrontViewMaps: no caps, no gaps to fill.
SampleDiscOntoSphere ==
    /\ rendering = "front-view" /\ stage = "painting" /\ painted = Len(strokes)
    /\ LET from == [t \in Texel |-> DiscSource(t)] IN
         /\ owner' = [t \in Texel |-> owner[from[t]]]
         /\ tint' = [t \in Texel |-> tint[from[t]]]
         /\ coverage' = [t \in Texel |-> coverage[from[t]]]
    /\ stage' = "laid"
    /\ UNCHANGED <<strokes, rendering, painted, distance, outside>>

\* finishManifestMaps, for both; nothing is shaded when nothing or all is painted.
FinishManifestMaps ==
    /\ stage = "laid"
    /\ stage' = "raised"
    /\ distance' = RoundedRelief(owner, coverage)
    /\ outside' = IF Range(owner) \cap {0} # {} /\ Range(owner) # {0}
                  THEN ChamferDistance(owner) ELSE [t \in Texel |-> Far]
    /\ UNCHANGED <<strokes, rendering, painted, owner, tint, coverage>>

MapsStep == PaintStroke \/ FillInternalBandGaps \/ SampleDiscOntoSphere \/ FinishManifestMaps

MapsSpec == (MapsInit \/ NoMaps) /\ [][MapsStep]_mapVars
------------------------------------------------------------------------------
\* "Treating deliberate background as a trench": whatever caps are closed and gaps
\* filled, background that no stroke comes near, wider than 22 percent of the
\* latitude and not between a pole and the stroke that owns it, stays the body's.
Reaches(k) == ((BandFrom(k) * (H - 1)) \div 1000 - 2)..((BandTo(k) * (H - 1)) \div 1000 + 2)
SkyIsKept ==
    rendering = "classic" /\ stage \in {"laid", "raised"} =>
        \A a, b \in 0..(H - 1) :
            /\ 100 * (b - a + 1) > 22 * H
            /\ \A k \in Projected : a..b \cap Reaches(k) = {}
            /\ NorthPole # 0 => Min(Reaches(NorthPole)) < a
            /\ SouthPole # 0 => Max(Reaches(SouthPole)) > b
            => \A t \in Texel : t[1] \in a..b => owner[t] = 0

\* The colour of every texel, bridged, capped, blended or mirrored, has its
\* owner's colour in it, and the relief is raised from the same owner.
ColourIsOwners == stage \in {"laid", "raised"} => \A t \in Texel : owner[t] \in tint[t]

\* The two distance fields are the shortest paths, around the seam too: no texel
\* can be improved by a neighbour, and every one has its seed's value or comes from
\* a neighbour.  Two sweeps each way are enough.
Settled(field, seed, Near(_)) ==
    \A t \in Texel :
        LET via == {field[To(t, d)] + Cost(d) : d \in {s \in Step : To(t, s) \in Near(t)}}
        IN  field[t] = Min(via \cup {seed[t]})
ReliefIsSettled ==
    stage = "raised" =>
        LET same(t) == SameOwner(owner, t)
            all(t)  == {To(t, d) : d \in Step} \cap Texel
        IN  /\ Settled(distance, Seed(owner, coverage), same)
            /\ Range(outside) # {Far} =>
                  Settled(outside, [t \in Texel |-> IF owner[t] # 0 THEN 0 ELSE Far], all)

\* Of strokes alike in everything else, the one painted later lies higher.
LayersFollowOrder ==
    \A j, k \in Projected :
        /\ strokes[j].points = strokes[k].points /\ strokes[j].width = strokes[k].width
        /\ strokes[j].jitter = strokes[k].jitter /\ Pole(j) = Pole(k)
        /\ strokes[j].order < strokes[k].order
        => Level(j) < Level(k)

\* A ribbon goes right round: the stroke on top owns a texel at every longitude and
\* at the seam its two ends are one, whichever way and however aslant it was drawn;
\* and with the front view, so does a straight stripe across the whole disc.
GoesRound(k) ==
    LET at(u) == {v \in 0..(H - 1) : owner[<<v, u>>] = k}
    IN  /\ \A u \in 0..(W - 1) : at(u) # {}
        /\ \A u \in {0, W - 1} : \A v, w \in at(u) : v..w \subseteq at(u)
AcrossTheDisc(k) == Min(X(k)) <= 80 /\ Max(X(k)) >= 920 /\ Min(Y(k)) = Max(Y(k))
RibbonsClose ==
    LET k == Len(strokes) IN
    /\ stage \in {"laid", "raised"} /\ k \in Projected
    /\ IF rendering = "classic" THEN WrapsLongitude(k) ELSE AcrossTheDisc(k)
    => GoesRound(k)

\* The back of a front-view planet is the mirror image of its front, though the
\* disc is sampled texel by texel.
BackMirrorsFront ==
    rendering = "front-view" /\ stage \in {"laid", "raised"} =>
        \A t \in Texel : LET back == <<t[1], W - 1 - t[2]>>
                          IN  owner[t] = owner[back] /\ tint[t] = tint[back]

\* Free sky stays free and paint keeps its colour: gaps are bridged and caps closed,
\* never over what the child left empty, never in another stroke's colour.
PaintIsKept == MapsTypeOK /\ SkyIsKept /\ ColourIsOwners

\* The relief is that of the painting: distances are settled around the seam too,
\* and what was painted later lies higher.
ReliefFollowsPaint == ReliefIsSettled /\ LayersFollowOrder

\* The drawing closes round the body: ribbons meet, and the back mirrors the front.
SurfaceCloses == RibbonsClose /\ BackMirrorsFront
==============================================================================
