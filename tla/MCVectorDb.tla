----------------------------- MODULE MCVectorDb -----------------------------
(* Instantiation of VectorDb for TLC: small inputs, chosen so that every   *)
(* error path, ties between scores, a wrong-length vector and a filter on  *)
(* a field that is not declared all occur.                                 *)
EXTENDS VectorDb

CONSTANTS a, b   \* two metadata field names (model values)

\* One- and two-field schemas; a and b are model values (field names).
MCFieldLists == {<<>>, <<a>>, <<a, b>>}

\* Dimension 1, plus a vector of the wrong length.
MCVecs1 == {<<0>>, <<1>>, <<2>>, <<-1>>, <<1, 1>>}
MCQueries1 == {<<1>>, <<-1>>}

\* Dimension 2, for the metric runs: ties, negative scores, zero vector.
MCVecs2 == {<<0, 0>>, <<1, 0>>, <<2, 2>>, <<1, -1>>, <<1>>}
MCQueries2 == {<<1, 1>>, <<-1, 2>>, <<1>>}
MCQueries2Ok == {<<1, 1>>, <<-1, 2>>}

MCMetas == {NoMeta, {}, {a}, {a, b}}
MCMetasNoKeys == {NoMeta, {}}
MCFilters == {{}, {a}, {b}}

\* Inputs of the id run: no metadata, a vector and a wrong-length one.
MCFieldLists0 == {<<>>}
MCVecsIds == {<<1>>, <<1, 1>>}
MCMetasNone == {NoMeta}
MCFiltersNone == {{}}

\* Inputs of the filter run: the vector does not matter, metadata does.
MCVecsFilters == {<<1>>, <<1, 1>>}

\* Schema, metadata and filters of the metric runs: one field.
MCFieldListsA == {<<a>>}
MCMetasA == {NoMeta, {a}}
MCFiltersA == {{}, {a}}

\* Inputs of the lifecycle runs.
MCVecsLife == {<<2, 2>>, <<0, 1>>, <<1>>}
MCQueriesLife == {<<1, 0>>}
MCMetasLife == {NoMeta, {}, {a}}
=============================================================================
