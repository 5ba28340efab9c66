----------------------------- MODULE BinaryHeap -----------------------------
(***************************************************************************)
(* std::collections::BinaryHeap as the selection loops of                  *)
(* Collection::get_similarity and get_similarity_hybrid                    *)
(* (src/edge-rust/src/db.rs) use it: push, pop, peek and into_sorted_vec   *)
(* over its backing Vec, with sift_up, sift_down_to_bottom and             *)
(* sift_down_range as the standard library writes them.  The heap is a     *)
(* sequence of elements with a field score; elements compare by score      *)
(* only (impl Ord for SimilarityResult), through the operator Le.  Index   *)
(* arithmetic is the library's, 0-based: element i of the Vec is h[i + 1]. *)
(* A hole move is a swap of the hole's element with the one it moves to.   *)
(***************************************************************************)
EXTENDS Integers, SequencesExt

At(h, i) == h[i + 1]

\* impl Ord for SimilarityResult: by score only.
Le(a, b) == a.score <= b.score

SwapAt(h, i, j) == [h EXCEPT ![i + 1] = h[j + 1], ![j + 1] = h[i + 1]]

\* sift_up(start, pos): move the element up while it is greater than its
\* parent; an element equal to its parent stops.
RECURSIVE sift_up(_, _, _)
sift_up(h, start, pos) ==
    IF pos > start /\ ~Le(At(h, pos), At(h, (pos - 1) \div 2))
    THEN sift_up(SwapAt(h, pos, (pos - 1) \div 2), start, (pos - 1) \div 2)
    ELSE h

\* sift_down_to_bottom(pos): move the hole down to a leaf, always to the
\* greater child (the right one on a tie), then sift the element up.
sift_down_to_bottom(h, pos) ==
    LET end == Len(h)
        lastPair == IF end >= 2 THEN end - 2 ELSE 0  \* end.saturating_sub(2)
        RECURSIVE Down(_, _)
        Down(g, p) ==
            IF 2 * p + 1 <= lastPair
            THEN LET c == IF Le(At(g, 2 * p + 1), At(g, 2 * p + 2))
                          THEN 2 * p + 2 ELSE 2 * p + 1
                 IN  Down(SwapAt(g, p, c), c)
            ELSE IF 2 * p + 1 = end - 1
                 THEN <<SwapAt(g, p, 2 * p + 1), 2 * p + 1>>
                 ELSE <<g, p>>
        bottom == Down(h, pos)
    IN  sift_up(bottom[1], pos, bottom[2])

\* sift_down_range(pos, end): move the element down, to the greater child
\* (the right one on a tie), while it is smaller than that child.
RECURSIVE sift_down_range(_, _, _)
sift_down_range(h, pos, end) ==
    LET lastPair == IF end >= 2 THEN end - 2 ELSE 0
        c == IF Le(At(h, 2 * pos + 1), At(h, 2 * pos + 2))
             THEN 2 * pos + 2 ELSE 2 * pos + 1
    IN  IF 2 * pos + 1 <= lastPair
        THEN IF Le(At(h, c), At(h, pos)) THEN h
             ELSE sift_down_range(SwapAt(h, pos, c), c, end)
        ELSE IF 2 * pos + 1 = end - 1
                /\ ~Le(At(h, 2 * pos + 1), At(h, pos))
             THEN SwapAt(h, pos, 2 * pos + 1)
             ELSE h

\* push: Vec::push, then sift_up(0, old_len).
push(h, x) == sift_up(Append(h, x), 0, Len(h))

\* Mutant: pop removes the Vec's last element instead of the root.
pop_last(h) == Front(h)

\* pop on a non-empty heap: Vec::pop, and unless the heap is then empty,
\* the popped last element replaces the root, which is returned, and the
\* new root goes down to the bottom and back up.
pop(h) ==
    IF Len(h) = 1 THEN <<>>
    ELSE sift_down_to_bottom([Front(h) EXCEPT ![1] = Last(h)], 0)

\* peek().unwrap().score on a non-empty heap.
peek(h) == At(h, 0)

\* into_sorted_vec: swap the root with the last unsorted slot, restore the
\* heap on the slots before it, repeat; the Vec ends in ascending order.
into_sorted_vec(h) ==
    LET RECURSIVE Sort(_, _)
        Sort(g, end) ==
            IF end > 1
            THEN Sort(sift_down_range(SwapAt(g, 0, end - 1), 0, end - 1),
                      end - 1)
            ELSE g
    IN  Sort(h, Len(h))

=============================================================================
