\* A stop through Db::drop, a reload, then more adds: ids across a restart.
CONSTANTS
    Names = {c1}
    Keys = {a, b}
    a = a
    b = b
    NoMeta = NoMeta
    NoFile = NoFile
    Corrupt = Corrupt
    Dims = {2}
    DistanceInputs = {"DotProduct"}
    FieldLists <- MCFieldListsA
    VecInputs <- MCVecsLife
    Metas <- MCMetasNone
    Queries <- MCQueriesLife
    Filters <- MCFiltersA
    Ks = {1, 2}
    MaxEmb = 2
    MaxId = 2
    MaxRestarts = 1
    SaveMayFail = FALSE
SPECIFICATION Spec
INVARIANT IdsUnique
CHECK_DEADLOCK FALSE
