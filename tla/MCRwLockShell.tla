---------------------------- MODULE MCRwLockShell ----------------------------
(* The requests the clients of the shell's configurations send, all to one *)
(* one-dimensional DotProduct collection c1.                               *)
EXTENDS RwLockShell

CONSTANTS c1

MCVecs == {<<1>>, <<2>>}
MCQueries == {<<1>>}
MCFieldLists == {<<>>}

MCNoReq == [op |-> "none"]

CreateReq == [op |-> "CreateCollection", name |-> c1, dim |-> 1,
              dist |-> "DotProduct", fields |-> <<>>]
AddReq    == [op |-> "AddEmbedding", name |-> c1, vec |-> <<1>>, meta |-> NoMeta]
UpdateReq == [op |-> "UpdateEmbedding", name |-> c1, id |-> 1, vec |-> <<2>>,
              meta |-> NoMeta]
RemoveReq == [op |-> "RemoveEmbedding", name |-> c1, id |-> 1]
DeleteReq == [op |-> "DeleteCollection", name |-> c1]
GetReq    == [op |-> "GetCollection", name |-> c1]
VecReq    == [op |-> "SearchVectors", name |-> c1, query |-> <<1>>, k |-> 1]
FilterReq == [op |-> "SearchFilters", name |-> c1, filters |-> {}, k |-> 1]
HybridReq == [op |-> "SearchHybrid", name |-> c1, query |-> <<1>>,
              filters |-> {}, k |-> 1]

\* Every handler, for the refinement.
MCRequestsAll == {CreateReq, AddReq, UpdateReq, RemoveReq, DeleteReq,
                  GetReq, VecReq, FilterReq, HybridReq}

\* Readers that keep coming and writers, for starvation.
MCRequestsLive == {CreateReq, AddReq, RemoveReq, VecReq}

=============================================================================
