\* A stop through Db::drop with a successful save of embeddings that
\* carry metadata: does the next start load the database that was saved?
CONSTANTS
    Names = {c1}
    Keys = {a, b}
    a = a
    b = b
    NoMeta = NoMeta
    NoFile = NoFile
    Corrupt = Corrupt
    Dims = {2}
    DistanceInputs = {"DotProduct"}
    FieldLists <- MCFieldListsA
    VecInputs <- MCVecsLife
    Metas <- MCMetasA
    Queries <- MCQueriesLife
    Filters <- MCFiltersA
    Ks = {1, 2}
    MaxEmb = 2
    MaxId = 2
    MaxRestarts = 1
    SaveMayFail = FALSE
SPECIFICATION Spec
PROPERTY Durable
CHECK_DEADLOCK FALSE
