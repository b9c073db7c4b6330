---------------------------- MODULE CorpusSignals ----------------------------
(***************************************************************************)
(* The corpus diagnostics (ml/data/alignment_signal.py, dialect_signal.py), *)
(* as operators on values: how well real sentence pairs separate from       *)
(* shuffled ones, and the split of the sentences into two dialect clusters. *)
(* Similarities and n-gram vectors come from outside (a sentence encoder, a *)
(* counter); here they are integers, the vectors of dimension one.          *)
(***************************************************************************)
EXTENDS Texts

\* numpy.argsort(values, kind="stable"): equal values keep their order.
Argsort(values) ==
    SortedBy(DOMAIN values, LAMBDA i, j :
        values[i] < values[j] \/ (values[i] = values[j] /\ i < j))

\* Mutant: a tie is ranked in the order of the argsort.
Unshared_AverageRanks(values) ==
    LET order == Argsort(values)
    IN  [i \in DOMAIN values |-> 2 * (CHOOSE p \in DOMAIN order : order[p] = i)]

\* Twice the rank of each value, the values of a tie sharing their mean rank.
AverageRanks(values) ==
    LET order == Argsort(values)
        Tied(v) == { p \in DOMAIN order : values[order[p]] = v }
    IN  [i \in DOMAIN values |-> Min(Tied(values[i])) + Max(Tied(values[i]))]

\* The Mann-Whitney statistic from the rank sum: << numerator, denominator >>.
AucSeparation(positive, negative) ==
    LET ranks == AverageRanks(positive \o negative)
        n == Len(positive)
        Add(sum, i) == sum + ranks[i]
    IN  << FoldLeftDomain(Add, 0, positive) - n * (n + 1), 2 * n * Len(negative) >>

\* The permutations build_shuffled_control_indices may return.
ShuffledControlIndices(n) ==
    { p \in [1 .. n -> 1 .. n] : IsInjective(p) /\ \A i \in 1 .. n : p[i] # i }

-----------------------------------------------------------------------------
\* A centroid is << sum, count >>; Nearer1(v, c) holds when v is strictly nearer
\* to the second of the two centroids c.
Nearer1(v, c) ==
    LET Scaled(a, b) == (v * a[2] - a[1]) * (v * a[2] - a[1]) * b[2] * b[2]
    IN  Scaled(c[2], c[1]) < Scaled(c[1], c[2])

Labels(points, centroids) ==
    [i \in DOMAIN points |-> IF Nearer1(points[i], centroids) THEN 1 ELSE 0]

\* The mean of each cluster; one without members keeps its centroid.
Centroids(points, labels, centroids) ==
    LET Members(cluster) == { i \in DOMAIN points : labels[i] = cluster }
        Mean(cluster) ==
            IF Members(cluster) = {} THEN centroids[cluster + 1]
            ELSE << MapThenSumSet(LAMBDA i : points[i], Members(cluster)),
                    Cardinality(Members(cluster)) >>
    IN  << Mean(0), Mean(1) >>

\* The first point, and the first of the points farthest from it.
SeedCentroids(points) ==
    LET Far(i) == (points[i] - points[1]) * (points[i] - points[1])
        farthest == Min({ i \in DOMAIN points : \A k \in DOMAIN points : Far(k) =< Far(i) })
    IN  << << points[1], 1 >>, << points[farthest], 1 >> >>

\* Mutant: the loop gives up after its first round.
OneRound_KmeansTwoClusters(points, maxIterations) == Labels(points, SeedCentroids(points))

\* Assign and move until an assignment repeats, maxIterations times at most.
KmeansTwoClusters(points, maxIterations) ==
    LET Round(state, k) ==
            LET labels == Labels(points, state.centroids)
            IN  IF state.settled \/ labels = state.labels
                THEN [state EXCEPT !.settled = TRUE]
                ELSE [settled |-> FALSE, labels |-> labels,
                      centroids |-> Centroids(points, labels, state.centroids)]
        start == [settled |-> FALSE, labels |-> << >>, centroids |-> SeedCentroids(points)]
    IN  IF Len(points) < 2 THEN [i \in DOMAIN points |-> 0]
        ELSE FoldLeft(Round, start, [k \in 1 .. maxIterations |-> k]).labels
=============================================================================
