\* A stop through Db::drop, a reload, then filter searches on the
\* reloaded embeddings.
CONSTANTS
    Names = {c1}
    Keys = {a, b}
    a = a
    b = b
    NoMeta = NoMeta
    NoFile = NoFile
    Corrupt = Corrupt
    Dims = {2}
    DistanceInputs = {"DotProduct"}
    FieldLists <- MCFieldListsA
    VecInputs <- MCVecsLife
    Metas <- MCMetasNoKeys
    Queries <- MCQueriesLife
    Filters <- MCFiltersA
    Ks = {1, 2}
    MaxEmb = 2
    MaxId = 2
    MaxRestarts = 1
    SaveMayFail = FALSE
SPECIFICATION Spec
INVARIANT FilterSearchExact
CHECK_DEADLOCK FALSE
