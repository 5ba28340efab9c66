----------------------------- MODULE HeapSelect -----------------------------
(***************************************************************************)
(* The selection loop of Collection::get_similarity and                    *)
(* get_similarity_hybrid (src/edge-rust/src/db.rs) over std's BinaryHeap   *)
(* (module BinaryHeap):                                                    *)
(*                                                                         *)
(*   for res in scores {                                                   *)
(*       if heap.len() < k || res.score < heap.peek().unwrap().score {     *)
(*           heap.push(res); if heap.len() > k { heap.pop(); } } }         *)
(*                                                                         *)
(* A loop state is the heap's backing Vec, or a panic: the `||` reaches    *)
(* peek().unwrap() only when heap.len() >= k, and with k = 0 the heap is   *)
(* empty there.                                                            *)
(***************************************************************************)
EXTENDS Integers, SequencesExt, BinaryHeap

Running(h) == [panicked |-> FALSE, heap |-> h]
Panicked   == [panicked |-> TRUE, heap |-> <<>>]

\* Mutant: the heap is trimmed only once it exceeds k + 1.
select_step_trim_late(st, res, k) ==
    CASE st.panicked -> st
      [] Len(st.heap) < k \/ (st.heap # <<>> /\ res.score < peek(st.heap).score) ->
            LET pushed == push(st.heap, res)
            IN  Running(IF Len(pushed) > k + 1 THEN pop(pushed) ELSE pushed)
      [] st.heap = <<>> -> Panicked
      [] OTHER -> st

\* One iteration of the loop, on candidate res.
select_step(st, res, k) ==
    CASE st.panicked -> st
      [] Len(st.heap) < k \/ (st.heap # <<>> /\ res.score < peek(st.heap).score) ->
            LET pushed == push(st.heap, res)
            IN  Running(IF Len(pushed) > k THEN pop(pushed) ELSE pushed)
      [] st.heap = <<>> -> Panicked
      [] OTHER -> st

\* The whole loop over the collected candidates, from an empty heap.
select_top_k(scores, k) ==
    FoldLeft(LAMBDA st, res : select_step(st, res, k), Running(<<>>), scores)

=============================================================================
