----------------------------- MODULE Collection -----------------------------
(***************************************************************************)
(* The three top-k searches of impl Collection in src/edge-rust/src/db.rs. *)
(*                                                                         *)
(* The parallel map over the embeddings keeps storage order (collect on an *)
(* indexed parallel iterator), so it is a sequence of [pos, score] records *)
(* in storage order; pos is the embedding's index.  The selection loop     *)
(* runs over std::collections::BinaryHeap, a max-heap ordered by score     *)
(* only.  Which of several equal maxima pop() removes is decided by the    *)
(* heap's internal layout; the model leaves that choice open, so a search  *)
(* yields a set of possible outcomes.  An outcome is the set of positions  *)
(* left in the heap, or a panic when peek().unwrap() meets an empty heap.  *)
(* into_sorted_vec only orders the outcome and is not modelled.            *)
(***************************************************************************)
EXTENDS Similarity, Bitmap, FiniteSets

\* The scored candidates at positions ps, in the order of ps.
Scored(coll, query, ps) ==
    LET memo_attr == get_cache_attr(coll.distance, query)
    IN  [j \in DOMAIN ps |->
           [pos   |-> ps[j],
            score |-> get_distance_fn(coll.distance,
                                      coll.embeddings[ps[j]].vector,
                                      query, memo_attr)]]

AllPositions(coll) == [i \in 1..Len(coll.embeddings) |-> i]

\* par_iter().filter(bitmap_matches): the matching positions in order.
MatchingPositions(coll, filter_bitmap) ==
    SelectSeq(AllPositions(coll),
              LAMBDA i : bitmap_matches(coll.embeddings[i].bitmap, filter_bitmap))

\* The state of the selection loop: the heap's contents, or a panic.
Heap(h) == [panicked |-> FALSE, heap |-> h]
HeapPanic == [panicked |-> TRUE, heap |-> {}]

\* The elements a max-heap may report from peek() and remove with pop().
HeapMaxima(heap) ==
    {m \in heap : \A o \in heap : ~ScoreLess(m.score, o.score)}

HeapPeekScore(heap) == (CHOOSE m \in HeapMaxima(heap) : TRUE).score

\* heap.push(res); if heap.len() > k { heap.pop(); }
PushThenTrim(heap, res, k) ==
    LET pushed == heap \cup {res}
    IN  IF Cardinality(pushed) > k
        THEN {Heap(pushed \ {m}) : m \in HeapMaxima(pushed)}
        ELSE {Heap(pushed)}

\* Mutant: the comparison with the heap's top is reversed.
heap_step_reversed(st, res, k) ==
    CASE st.panicked                    -> {st}
      [] Cardinality(st.heap) < k       -> PushThenTrim(st.heap, res, k)
      [] st.heap = {}                   -> {HeapPanic}
      [] ScoreLess(HeapPeekScore(st.heap), res.score) ->
                                           PushThenTrim(st.heap, res, k)
      [] OTHER                          -> {st}

\* One iteration of the selection loop.  `||` short-circuits, so peek() is
\* reached only when heap.len() >= k; on an empty heap (k = 0) the unwrap
\* panics.
heap_step(st, res, k) ==
    CASE st.panicked                    -> {st}
      [] Cardinality(st.heap) < k       -> PushThenTrim(st.heap, res, k)
      [] st.heap = {}                   -> {HeapPanic}
      [] ScoreLess(res.score, HeapPeekScore(st.heap)) ->
                                           PushThenTrim(st.heap, res, k)
      [] OTHER                          -> {st}

\* The possible outcomes of the loop over all scored candidates: a record
\* whose res is the set of positions kept, or a panic.
HeapTopK(scores, k) ==
    LET finals ==
          FoldLeft(LAMBDA sts, res : UNION {heap_step(st, res, k) : st \in sts},
                   {Heap({})}, scores)
    IN  {[panicked |-> st.panicked, res |-> {r.pos : r \in st.heap}] : st \in finals}

\* get_similarity: score every embedding, keep k in the heap.
get_similarity(coll, query, k) ==
    HeapTopK(Scored(coll, query, AllPositions(coll)), k)

\* get_similarity_filters: the first k matching embeddings, score 0.
get_similarity_filters(coll, filter_bitmap, k) ==
    LET m == MatchingPositions(coll, filter_bitmap)
    IN  [panicked |-> FALSE, res |-> SubSeq(m, 1, IF k < Len(m) THEN k ELSE Len(m))]

\* get_similarity_hybrid: score the matching embeddings, keep k in the heap.
get_similarity_hybrid(coll, query, filter_bitmap, k) ==
    HeapTopK(Scored(coll, query, MatchingPositions(coll, filter_bitmap)), k)

=============================================================================
