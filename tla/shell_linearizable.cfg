\* Two concurrent requests, every handler, one process kill: the shell
\* refines VectorDb, and no request waits on the lock forever.
CONSTANTS
    Clients = {p1, p2}
    p1 = p1
    p2 = p2
    c1 = c1
    Requests <- MCRequestsAll
    NoReq <- MCNoReq
    Names = {c1}
    Keys = {}
    NoMeta = NoMeta
    NoFile = NoFile
    Corrupt = Corrupt
    Dims = {1}
    DistanceInputs = {"DotProduct"}
    FieldLists <- MCFieldLists
    VecInputs <- MCVecs
    Metas = {NoMeta}
    Queries <- MCQueries
    Filters = {{}}
    Ks = {1}
    MaxEmb = 2
    MaxId = 2
    MaxRestarts = 1
    SaveMayFail = FALSE
SPECIFICATION Spec
INVARIANT TypeOK
PROPERTY Linearizable
PROPERTY NoStarvation
