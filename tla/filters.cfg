\* One process lifetime, one collection: filter searches against metadata
\* written by add and rewritten by update, under every schema.
CONSTANTS
    Names = {c1}
    Keys = {a, b}
    a = a
    b = b
    NoMeta = NoMeta
    NoFile = NoFile
    Corrupt = Corrupt
    Dims = {1}
    DistanceInputs = {"DotProduct"}
    FieldLists <- MCFieldLists
    VecInputs <- MCVecsFilters
    Metas <- MCMetas
    Queries <- MCQueries1
    Filters <- MCFilters
    Ks = {0, 1, 2}
    MaxEmb = 3
    MaxId = 4
    MaxRestarts = 0
    SaveMayFail = FALSE
SPECIFICATION Spec
INVARIANT TypeOK
INVARIANT IdsUnique
INVARIANT FilterSearchExact
