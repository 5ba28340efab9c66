\* One process lifetime, one collection of each metric in turn: vector and
\* hybrid searches over up to three two-dimensional embeddings, with ties,
\* negative scores, the zero vector and a query of the wrong length.
CONSTANTS
    Names = {c1}
    Keys = {a, b}
    a = a
    b = b
    NoMeta = NoMeta
    NoFile = NoFile
    Corrupt = Corrupt
    Dims = {2}
    DistanceInputs = {"Euclidean", "Cosine", "DotProduct"}
    FieldLists <- MCFieldListsA
    VecInputs <- MCVecs2
    Metas <- MCMetasA
    Queries <- MCQueries2
    Filters <- MCFiltersA
    Ks = {0, 1, 2}
    MaxEmb = 3
    MaxId = 3
    MaxRestarts = 0
    SaveMayFail = FALSE
SPECIFICATION Spec
INVARIANT TypeOK
INVARIANT HeapKeepsLowestScores
