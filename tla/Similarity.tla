----------------------------- MODULE Similarity -----------------------------
(***************************************************************************)
(* Distance kernels of src/edge-rust/src/similarity.rs.                    *)
(*                                                                         *)
(* Vectors are abstracted to small integer vectors, so that every kernel   *)
(* can be evaluated exactly (f32 rounding is not modelled).  A stored      *)
(* vector is a record [v |-> w, n |-> m] standing for w / sqrt(m): raw     *)
(* vectors have m = 1, and normalize(w) yields [v |-> w, n |-> |w|^2].     *)
(* A score is a record [sgn, num, den] standing for sgn * sqrt(num / den); *)
(* every value the kernels produce (a clamped square root, a dot product,  *)
(* a dot product with a normalised vector) has this form exactly.          *)
(***************************************************************************)
EXTENDS Integers, SequencesExt

\* The stored form of a raw input vector.
RawVec(w) == [v |-> w, n |-> 1]

LOCAL Sign(x) == IF x > 0 THEN 1 ELSE IF x < 0 THEN -1 ELSE 0

\* A fold over the pairs Iterator::zip yields: as many as the shorter has.
Dot(a, b) == FoldLeft(LAMBDA acc, p : acc + p[1] * p[2], 0, Zip(a, b))

Mag2(w) == Dot(w, w)

\* A non-negative integer x as the score sqrt(x).
SqrtScore(x) == [sgn |-> Sign(x), num |-> x, den |-> 1]

\* The score d / sqrt(n).
RatioScore(d, n) == [sgn |-> Sign(d), num |-> d * d, den |-> n]

\* The total order of OrderedFloat on the scores the kernels produce.
ScoreLess(s, t) ==
    \/ s.sgn < t.sgn
    \/ /\ s.sgn = t.sgn
       /\ \/ s.sgn = 1  /\ s.num * t.den < t.num * s.den
          \/ s.sgn = -1 /\ s.num * t.den > t.num * s.den

\* get_cache_attr: 0 for DotProduct and Euclidean, |q| for Cosine.
get_cache_attr(metric, q) ==
    IF metric = "Cosine" THEN SqrtScore(Mag2(q)) ELSE 0

\* euclidean_distance(a, b, a_sum_squares): the kernel adds the cached
\* a_sum_squares and b's squares, never a's own squares.  Only called on
\* raw vectors (a.n = 1), as Euclidean collections are never normalised.
euclidean_distance(a, b, a_sum_squares) ==
    LET cross_terms   == Dot(a.v, b)
        b_sum_squares == FoldLeft(LAMBDA acc, p : acc + p[2] * p[2], 0, Zip(a.v, b))
        inner         == (2 * (-cross_terms)) + (a_sum_squares + b_sum_squares)
    IN  SqrtScore(IF inner > 0 THEN inner ELSE 0)

\* dot_product(a, b, _): the cache argument is ignored.
dot_product(a, b, cache) == RatioScore(Dot(a.v, b), a.n)

\* get_distance_fn applied: Cosine and DotProduct share dot_product.
get_distance_fn(metric, a, b, cache) ==
    IF metric = "Euclidean" THEN euclidean_distance(a, b, cache)
                            ELSE dot_product(a, b, cache)

\* normalize: divide by the magnitude when it exceeds f32::EPSILON, else
\* copy.  On integer vectors the magnitude exceeds EPSILON iff it is not 0.
normalize(w) == IF Mag2(w) > 0 THEN [v |-> w, n |-> Mag2(w)] ELSE RawVec(w)

-----------------------------------------------------------------------------
(* Reference similarity of the specification (section 4.2), used by the   *)
(* properties only: the true Euclidean distance |a - q|, and the dot       *)
(* product for DotProduct and Cosine.                                      *)
TrueEuclidean(a, q) == SqrtScore(Mag2(a.v) + Mag2(q) - 2 * Dot(a.v, q))

\* "a is strictly more similar to q than b" under the specification.
SpecMoreSimilar(metric, a, b, q) ==
    IF metric = "Euclidean"
    THEN ScoreLess(TrueEuclidean(a, q), TrueEuclidean(b, q))
    ELSE ScoreLess(dot_product(b, q, 0), dot_product(a, q, 0))

=============================================================================
