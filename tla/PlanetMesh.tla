------------------------------ MODULE PlanetMesh ------------------------------
(***************************************************************************)
(* The geometry a painted planet is made of: the sphere whose vertices are  *)
(* raised by the relief (BeveledPatchRelief), twisted for the classic       *)
(* rendering (PolarMagnetSweep3D), and the bowls and ridges put on it.      *)
(* Heights are in percent of the highest relief.  The normal of a vertex is *)
(* the set of the faces whose orientation is averaged in it.                *)
(***************************************************************************)
EXTENDS StrokeMaps, FiniteSets

CONSTANTS
    SegmentsW, SegmentsH,   \* of the sphere
    Bowls, Ridges           \* pairs: rings and segments, columns and rows of cells

ASSUME MeshAssumption ==
    /\ SegmentsW \in Nat /\ SegmentsW > 2 /\ SegmentsH \in Nat /\ SegmentsH > 1
    /\ Bowls \subseteq (Nat \ {0}) \X (Nat \ 0..2)
    /\ Ridges \subseteq (Nat \ {0}) \X (Nat \ {0})

VARIABLES
    body,           \* "plain", "built" from the relief, "twisted"
    height,         \* of the vertices
    normal,         \* of the vertices
    feature         \* the last bowl or ridge made: its triangles, vertices and edge

meshVars == <<body, height, normal, feature>>
------------------------------------------------------------------------------
\* SphereGeometry: a row has a column too many, and both poles are rows.
Vertex == (0..SegmentsH) \X (0..SegmentsW)
Coincide(a, b) ==
    a[1] = b[1] /\ (a[1] \in {0, SegmentsH} \/ (a[2] - b[2]) % SegmentsW = 0)
SphereFaces ==
    {<<<<r, c + 1>>, <<r, c>>, <<r + 1, c + 1>>>> : r \in 1..(SegmentsH - 1), c \in 0..(SegmentsW - 1)}
    \cup {<<<<r, c>>, <<r + 1, c>>, <<r + 1, c + 1>>>> :
            r \in 0..(SegmentsH - 2), c \in 0..(SegmentsW - 1)}

\* roundedRelief: the level of the layer, on the quarter circle of bevelProfile.
ShoulderTexels(k) ==
    300 + 4 * ((65 * WidthScore(k) + 25 * CoverageScore(k)
                + 10 * strokes[k].jitter) \div 100)
BevelProfile(dist, shoulder) ==
    LET t == Min({100, (10 * dist) \div shoulder})
    IN  IF dist <= 0 THEN 0 ELSE 45 + (55 * Isqrt(10000 - (100 - t) * (100 - t))) \div 100
Relief ==
    LET level == [k \in Projected |-> Level(k)] shoulder == [k \in Projected |-> ShoulderTexels(k)]
    IN  [t \in Texel |-> IF owner[t] = 0 THEN 0
                         ELSE (level[owner[t]] * BevelProfile(distance[t], shoulder[owner[t]])) \div 100]

\* sampleRelief: between four texels, longitude wraps and latitude clamps.  The
\* columns of a pole row stand half a segment off.
SampleRelief(field, v) ==
    LET off == CASE v[1] = 0 -> 1 [] v[1] = SegmentsH -> -1 [] OTHER -> 0
        x == (100 * W * (2 * v[2] + off)) \div (2 * SegmentsW) - 50
        y == (100 * v[1] * (H - 1)) \div SegmentsH
        at(dy, dx) == field[<<Clamp(y \div 100 + dy, 0, H - 1), (x \div 100 + dx) % W>>]
        mix(a, b, f) == a * (100 - f) + b * f
    IN  mix(mix(at(0, 0), at(0, 1), x % 100), mix(at(1, 0), at(1, 1), x % 100), y % 100) \div 10000

\* computeVertexNormals: of the faces that share the vertex, not of those that meet.
VertexNormals == [v \in Vertex |-> {f \in SphereFaces : v \in Range(f)}]

\* weldSeamAndPoleNormals: first the two ends of each row, then each pole row.
WeldSeamAndPoleNormals(n) ==
    LET seam == [v \in Vertex |-> n[v] \cup (IF v[2] \in {0, SegmentsW}
                                             THEN n[<<v[1], SegmentsW - v[2]>>] ELSE {})]
    IN  [v \in Vertex |-> IF v[1] \in {0, SegmentsH}
                          THEN UNION {seam[<<v[1], c>>] : c \in 0..SegmentsW} ELSE seam[v]]
------------------------------------------------------------------------------
\* createCraterBowlGeometry, craterBowlGeometry: a fan around vertex 0, then rings.
Quad(inner, innerNext, outer, outerNext) ==
    {<<inner, outerNext, outer>>, <<inner, innerNext, outerNext>>}
Bowl(rings, segments) ==
    LET next(s) == (s + 1) % segments
        v(ring, s) == 1 + (ring - 1) * segments + s
    IN  [triangles |->
            {<<0, 1 + next(s), 1 + s>> : s \in 0..(segments - 1)} \cup
            UNION {Quad(v(r, s), v(r, next(s)), v(r + 1, s), v(r + 1, next(s))) :
                        r \in 1..(rings - 1), s \in 0..(segments - 1)},
         vertices |-> 0..(rings * segments),
         rim |-> {v(rings, s) : s \in 0..(segments - 1)}]

\* createMountainRangeGeometry
Ridge(xs, zs) ==
    LET row == xs + 1
        cell(z, x) == LET a == z * row + x IN {<<a, a + row, a + 1>>, <<a + 1, a + row, a + row + 1>>}
    IN  [triangles |-> UNION {cell(z, x) : x \in 0..(xs - 1), z \in 0..(zs - 1)},
         vertices |-> 0..(row * (zs + 1) - 1),
         rim |-> {z * row + x : x \in {0, xs}, z \in 0..zs} \cup {z * row + x : x \in 0..xs, z \in {0, zs}}]
------------------------------------------------------------------------------
NoFeature == [triangles |-> {}, vertices |-> {}, rim |-> {}]
MeshTypeOK ==
    /\ body \in {"plain", "built", "twisted"}
    /\ body # "plain" => DOMAIN height = Vertex /\ DOMAIN normal = Vertex
    /\ body # "plain" => \A v \in Vertex : height[v] \in 0..100 /\ normal[v] \subseteq SphereFaces
    /\ \A t \in feature.triangles : Range(t) \subseteq Nat

MeshInit == body = "plain" /\ height = << >> /\ normal = << >> /\ feature = NoFeature

\* buildBeveledReliefGeometry
BuildRelief ==
    /\ stage = "raised" /\ body = "plain"
    /\ body' = "built"
    /\ LET field == Relief IN height' = [v \in Vertex |-> SampleRelief(field, v)]
    /\ normal' = WeldSeamAndPoleNormals(VertexNormals)
    /\ UNCHANGED <<mapVars, feature>>

\* Mutant of Twist: the normals are computed again and not welded again.
TwistUnwelded ==
    /\ body = "built" /\ rendering = "classic"
    /\ body' = "twisted" /\ normal' = VertexNormals
    /\ UNCHANGED <<mapVars, height, feature>>

\* twistGeometryAroundPolarAxis: by latitude alone, so that vertices that coincide
\* go on doing so; it has the normals computed again.
Twist ==
    /\ body = "built" /\ rendering = "classic"
    /\ body' = "twisted" /\ normal' = WeldSeamAndPoleNormals(VertexNormals)
    /\ UNCHANGED <<mapVars, height, feature>>

AddBowl ==
    /\ stage = "none" /\ feature = NoFeature
    /\ \E b \in Bowls : feature' = Bowl(b[1], b[2])
    /\ UNCHANGED <<mapVars, body, height, normal>>

AddRidge ==
    /\ stage = "none" /\ feature = NoFeature
    /\ \E r \in Ridges : feature' = Ridge(r[1], r[2])
    /\ UNCHANGED <<mapVars, body, height, normal>>

MeshStep == BuildRelief \/ Twist \/ AddBowl \/ AddRidge

BodySpec ==
    /\ (MapsInit \/ NoMaps) /\ MeshInit
    /\ [][(MapsStep /\ UNCHANGED meshVars) \/ MeshStep]_<<mapVars, meshVars>>
------------------------------------------------------------------------------
\* "a lit seam running pole to pole and a pinwheel at each cap": vertices that meet
\* in space have one normal, twisted or not, and at the seam one height.
SeamIsSmooth ==
    body # "plain" =>
        \A a, b \in Vertex : Coincide(a, b) =>
            /\ normal[a] = normal[b]
            /\ a[1] \notin {0, SegmentsH} => height[a] = height[b]

\* A bowl or a ridge is one smooth sheet: every edge that is not of its rim lies
\* between two triangles that face the same way, every edge of the rim at one, and
\* no vertex is left out or made up.
Edges(t) == {<<t[1], t[2]>>, <<t[2], t[3]>>, <<t[3], t[1]>>}
FeatureIsSheet ==
    /\ UNION {Range(t) : t \in feature.triangles} = feature.vertices
    /\ \A t \in feature.triangles : Cardinality(Range(t)) = 3
    /\ \A s, t \in feature.triangles : s # t => Edges(s) \cap Edges(t) = {}
    /\ LET all == UNION {Edges(t) : t \in feature.triangles}
           open == {e \in all : <<e[2], e[1]>> \notin all}
       IN  /\ \A e \in open : {e[1], e[2]} \subseteq feature.rim
           /\ \A v \in feature.rim : Cardinality({e \in open : e[1] = v}) = 1

\* No mesh shows where it was stitched, the sphere at its seam and caps, a bowl or a
\* ridge at any edge within it.
MeshIsSmooth == MeshTypeOK /\ SeamIsSmooth /\ FeatureIsSheet
==============================================================================
