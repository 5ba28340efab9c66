------------------------------ MODULE TopKLoop ------------------------------
(***************************************************************************)
(* The selection loop of Collection::get_similarity and                    *)
(* get_similarity_hybrid (src/edge-rust/src/db.rs) run step by step over   *)
(* the std BinaryHeap of module BinaryHeap: one iteration per scored       *)
(* candidate, then into_sorted_vec.  The scores the parallel scan          *)
(* collected are small integers, compared as OrderedFloat compares them;   *)
(* their order is all the loop looks at.  It is checked against the        *)
(* set-valued heap of module Collection, which the database model uses.    *)
(***************************************************************************)
EXTENDS Integers, SequencesExt, HeapSelect

CONSTANTS
    ScoreValues,    \* the scores a candidate may have
    MaxCandidates,  \* bound: candidates the scan collects
    Ks,             \* k of the search
    NoMeta

C == INSTANCE Collection

VARIABLES
    scores,  \* the collected Vec: position -> score
    k,
    i,       \* the next candidate of the loop
    heap,    \* the heap's backing Vec of [pos, score]
    status,  \* "running", "panic" or "returned"
    out      \* the result of into_sorted_vec

vars == <<scores, k, i, heap, status, out>>

Init ==
    /\ scores \in BoundedSeq(ScoreValues, MaxCandidates)
    /\ k \in Ks
    /\ i = 1
    /\ heap = <<>>
    /\ status = "running"
    /\ out = <<>>

\* One iteration of the loop (HeapSelect's select_step) on candidate i.
LoopStep ==
    LET st == select_step(Running(heap), [pos |-> i, score |-> scores[i]], k)
    IN  /\ status = "running"
        /\ i <= Len(scores)
        /\ heap' = st.heap
        /\ status' = IF st.panicked THEN "panic" ELSE "running"
        /\ i' = i + 1
        /\ UNCHANGED <<scores, k, out>>

\* heap.into_sorted_vec() once every candidate is seen.
Finish ==
    /\ status = "running"
    /\ i > Len(scores)
    /\ status' = "returned"
    /\ out' = into_sorted_vec(heap)
    /\ UNCHANGED <<scores, k, i, heap>>

\* The search has returned (or panicked): nothing more happens.
Returned == status # "running" /\ UNCHANGED vars

Next == LoopStep \/ Finish \/ Returned

Spec == Init /\ [][Next]_vars

-----------------------------------------------------------------------------
(* Properties.                                                             *)

\* Types, and the bound of the heap: never more than k elements between
\* iterations.
TypeOK ==
    /\ Len(heap) <= k
    /\ scores \in BoundedSeq(ScoreValues, MaxCandidates)
    /\ k \in Ks
    /\ i \in 1..(MaxCandidates + 1)
    /\ heap \in Seq([pos : 1..MaxCandidates, score : ScoreValues])
    /\ status \in {"running", "panic", "returned"}
    /\ out \in Seq([pos : 1..MaxCandidates, score : ScoreValues])

Finished == status = "returned"

\* The candidates as module Collection scores them.
AsScored == [j \in DOMAIN scores |-> [pos |-> j, score |-> C!SqrtScore(scores[j])]]

\* The set-valued heap of Collection is a sound abstraction of std's: the
\* loop over the real BinaryHeap panics exactly when that model may, and
\* otherwise keeps a set of positions that is one of its outcomes, in a
\* Vec sorted by ascending score.  The database model's properties rest
\* on this.
RefinesHeapTopK ==
    status # "running" =>
        LET outcomes == C!HeapTopK(AsScored, k)
        IN  IF status = "panic"
            THEN [panicked |-> TRUE, res |-> {}] \in outcomes
            ELSE /\ [panicked |-> FALSE, res |-> {r.pos : r \in Range(out)}] \in outcomes
                 /\ Len(out) = Cardinality({r.pos : r \in Range(out)})
                 /\ IsSorted(out, Le)

\* Spec 4.4: equal scores tie-break by insertion order: when the loop keeps
\* a candidate and drops another with the same score, the kept one came
\* first.  (The order of equal scores within the result is left open by
\* spec 4.4, so it is not part of this property.)
TieBreakStable ==
    Finished =>
        \A r \in Range(out), j \in DOMAIN scores :
            (scores[j] = r.score /\ j \notin {x.pos : x \in Range(out)})
                => r.pos < j

=============================================================================
