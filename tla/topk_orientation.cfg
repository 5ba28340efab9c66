\* Vector and hybrid searches in a DotProduct and a Cosine collection,
\* where a higher score is more similar, against the specification's
\* ranking (section 4.4).
CONSTANTS
    Names = {c1}
    Keys = {a, b}
    a = a
    b = b
    NoMeta = NoMeta
    NoFile = NoFile
    Corrupt = Corrupt
    Dims = {2}
    DistanceInputs = {"DotProduct", "Cosine"}
    FieldLists <- MCFieldListsA
    VecInputs <- MCVecs2
    Metas <- MCMetasA
    Queries <- MCQueries2Ok
    Filters <- MCFiltersA
    Ks = {0, 1, 2}
    MaxEmb = 3
    MaxId = 3
    MaxRestarts = 0
    SaveMayFail = FALSE
SPECIFICATION Spec
INVARIANT TopKMostSimilar
