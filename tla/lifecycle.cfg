\* Up to two process stops (kill, or serve() failing into Db::drop and
\* save_to_store, which may fail), each followed by load_from_store:
\* searches and stored vectors across reloads.  The system really stops
\* when store.db cannot be decoded: main refuses to start.
CONSTANTS
    Names = {c1}
    Keys = {a, b}
    a = a
    b = b
    NoMeta = NoMeta
    NoFile = NoFile
    Corrupt = Corrupt
    Dims = {2}
    DistanceInputs = {"Cosine"}
    FieldLists <- MCFieldListsA
    VecInputs <- MCVecsLife
    Metas <- MCMetasLife
    Queries <- MCQueriesLife
    Filters <- MCFiltersA
    Ks = {1, 2}
    MaxEmb = 2
    MaxId = 2
    MaxRestarts = 2
    SaveMayFail = TRUE
SPECIFICATION Spec
INVARIANT TypeOK
INVARIANT CosineNormalized
PROPERTY Durable
CHECK_DEADLOCK FALSE
