----------------------------- MODULE RwLockShell -----------------------------
(***************************************************************************)
(* The concurrency shell of src/edge-rust/src/grpc_server.rs and main.rs:  *)
(* every handler runs as its own tokio task and first awaits the single   *)
(* Arc<tokio::sync::RwLock<Db>>: a read guard for get_collection and the   *)
(* searches, a write guard for the mutations.  The guard is held for the   *)
(* rest of the handler body, which never awaits again, and is dropped on   *)
(* return or on a panic's unwind (tokio's lock does not poison).           *)
(*                                                                         *)
(* tokio's RwLock is a batch semaphore with a FIFO queue of waiters: a     *)
(* writer at the head of the queue takes every free permit and holds the   *)
(* waiters behind it, so a waiter is granted the lock only at the head of  *)
(* the queue and only when compatible with the holders.  A waiting request *)
(* may be cancelled by the transport, dropping its acquire future, which   *)
(* leaves the queue.                                                       *)
(*                                                                         *)
(* The vector and hybrid searches are two steps, as the code materialises  *)
(* them: the parallel scan collects the scored candidates into a Vec, and  *)
(* the heap loop then selects from that Vec.  Every other handler body is  *)
(* one step.  The database effects are the actions of VectorDb, taken      *)
(* through an instance whose resp is the reply of the last completed       *)
(* request.                                                                *)
(***************************************************************************)
EXTENDS Integers, Sequences, FiniteSets, Functions, HeapSelect

CONSTANTS
    Clients,        \* concurrent requests in flight (tokio tasks)
    Requests,       \* the requests a client may send
    NoReq,          \* the request of an idle client
    Names, Keys, Dims, DistanceInputs, FieldLists, VecInputs, Metas,
    Queries, Filters, Ks, MaxEmb, MaxId, MaxRestarts, SaveMayFail,
    NoMeta, NoFile, Corrupt

VARIABLES
    phase, collections, nextId, store, restarts,  \* as in VectorDb
    lastReply,  \* reply of the last request to complete (VectorDb's resp)
    mode,       \* per client: idle, waiting, read, scanned or write
    req,        \* per client: the request it is serving
    queue,      \* the lock's FIFO queue of waiting clients
    scored      \* per client: the Vec the parallel scan collected

DB == INSTANCE VectorDb WITH resp <- lastReply

dbVars   == <<phase, collections, nextId, store, restarts, lastReply>>
lockVars == <<mode, req, queue, scored>>
vars     == <<dbVars, lockVars>>

WriteOps  == {"CreateCollection", "DeleteCollection", "AddEmbedding",
              "UpdateEmbedding", "RemoveEmbedding"}
ScanOps   == {"SearchVectors", "SearchHybrid"}

Readers == {c \in Clients : mode[c] \in {"read", "scanned"}}
Writers == {c \in Clients : mode[c] = "write"}

\* Add requests issued but not yet applied.
InflightAdds ==
    {c \in Clients : mode[c] \in {"waiting", "write"} /\ req[c].op = "AddEmbedding"}

\* Bound: clients send no more adds than MaxEmb and MaxId allow, counting
\* those in flight, so that every add that takes the lock can be applied.
ClientBound(r) ==
    r.op = "AddEmbedding" =>
        /\ nextId + Cardinality(InflightAdds) <= MaxId
        /\ Cardinality({c \in InflightAdds : req[c].name = r.name}) +
              (IF r.name \in DOMAIN collections
               THEN Len(collections[r.name].embeddings) ELSE 0) < MaxEmb

\* The guard is dropped: the client is idle again, and its scan is freed.
Done(c) ==
    /\ mode'   = [mode EXCEPT ![c] = "idle"]
    /\ req'    = [req EXCEPT ![c] = NoReq]
    /\ scored' = [scored EXCEPT ![c] = <<>>]

-----------------------------------------------------------------------------
Init ==
    /\ DB!Init
    /\ mode   = [c \in Clients |-> "idle"]
    /\ req    = [c \in Clients |-> NoReq]
    /\ queue  = <<>>
    /\ scored = [c \in Clients |-> <<>>]

\* main: load_from_store, then the server accepts requests.
Start == DB!Start /\ UNCHANGED lockVars

\* The process is killed: every task, guard and queued waiter goes with it.
Crash ==
    /\ DB!Crash
    /\ mode'  = [c \in Clients |-> "idle"]
    /\ req'   = [c \in Clients |-> NoReq]
    /\ queue' = <<>>
    /\ scored' = [c \in Clients |-> <<>>]

\* A handler is entered: request.into_inner(), then self.db.read() or
\* self.db.write() joins the lock's queue.
Request(c, r) ==
    /\ phase = "up"
    /\ mode[c] = "idle"
    /\ ClientBound(r)
    /\ mode'  = [mode EXCEPT ![c] = "waiting"]
    /\ req'   = [req EXCEPT ![c] = r]
    /\ queue' = Append(queue, c)
    /\ UNCHANGED <<dbVars, scored>>

\* Mutant: the cancelled waiter is not removed from the queue.
Cancel_keep_queued(c) ==
    /\ mode[c] = "waiting"
    /\ queue' = queue
    /\ Done(c)
    /\ UNCHANGED dbVars

\* The transport drops the handler future while it awaits the lock.
Cancel(c) ==
    /\ mode[c] = "waiting"
    /\ queue' = SelectSeq(queue, LAMBDA x : x # c)
    /\ Done(c)
    /\ UNCHANGED dbVars

\* Mutant: a barging, reader-preferring lock: any waiting reader joins
\* the readers while no writer holds, ahead of a queued writer.
Grant_reader_preferring(c) ==
    /\ mode[c] = "waiting"
    /\ IF req[c].op \in WriteOps
       THEN queue # <<>> /\ Head(queue) = c /\ Readers = {} /\ Writers = {}
       ELSE Writers = {}
    /\ queue' = SelectSeq(queue, LAMBDA x : x # c)
    /\ mode'  = [mode EXCEPT ![c] = IF req[c].op \in WriteOps
                                     THEN "write" ELSE "read"]
    /\ UNCHANGED <<dbVars, req, scored>>

\* Mutant: a writer excludes other writers but not readers.
Grant_shared_writer(c) ==
    /\ queue # <<>>
    /\ Head(queue) = c
    /\ Writers = {}
    /\ queue' = Tail(queue)
    /\ mode'  = [mode EXCEPT ![c] = IF req[c].op \in WriteOps
                                     THEN "write" ELSE "read"]
    /\ UNCHANGED <<dbVars, req, scored>>

\* The batch semaphore hands the lock to the head of the queue once it is
\* compatible with the holders: a reader when no writer holds, a writer
\* when nobody holds.
Grant(c) ==
    /\ queue # <<>>
    /\ Head(queue) = c
    /\ Writers = {}
    /\ req[c].op \in WriteOps => Readers = {}
    /\ queue' = Tail(queue)
    /\ mode'  = [mode EXCEPT ![c] = IF req[c].op \in WriteOps
                                     THEN "write" ELSE "read"]
    /\ UNCHANGED <<dbVars, req, scored>>

\* The body of a write handler under its guard, then return.
WriteBody(c) ==
    LET r == req[c] IN
    /\ mode[c] = "write"
    /\ CASE r.op = "CreateCollection" ->
              DB!CreateCollection(r.name, r.dim, r.dist, r.fields)
         [] r.op = "DeleteCollection" -> DB!DeleteCollection(r.name)
         [] r.op = "AddEmbedding"     -> DB!AddEmbedding(r.name, r.vec, r.meta)
         [] r.op = "UpdateEmbedding"  ->
              DB!UpdateEmbedding(r.name, r.id, r.vec, r.meta)
         [] r.op = "RemoveEmbedding"  -> DB!RemoveEmbedding(r.name, r.id)
    /\ Done(c)
    /\ UNCHANGED queue

\* The body of get_collection or search_filters under the read guard.
ReadBody(c) ==
    LET r == req[c] IN
    /\ mode[c] = "read"
    /\ r.op \notin ScanOps
    /\ CASE r.op = "GetCollection" -> DB!GetCollection(r.name)
         [] r.op = "SearchFilters" -> DB!SearchFilters(r.name, r.filters, r.k)
    /\ Done(c)
    /\ UNCHANGED queue

\* The candidates a vector or hybrid search scores.
ScanPositions(coll, r) ==
    IF r.op = "SearchVectors" THEN DB!AllPositions(coll)
    ELSE DB!MatchingPositions(coll,
             DB!generate_bitmap_from_filters(r.filters, coll.metadata_fields))

\* Db::get_similarity_vectors_only / get_similarity_hybrid up to the
\* collect: an unknown collection returns NotFound, which the handler maps
\* to invalid_argument; otherwise the parallel scan scores the candidates.
Scan(c) ==
    LET r == req[c] IN
    /\ mode[c] = "read"
    /\ r.op \in ScanOps
    /\ \/ /\ r.name \notin DOMAIN collections
          /\ DB!Fail(r.op, "invalid_argument")
          /\ Done(c)
          /\ UNCHANGED <<phase, store, restarts>>
       \/ /\ r.name \in DOMAIN collections
          /\ scored' = [scored EXCEPT ![c] =
                 DB!Scored(collections[r.name], r.query,
                           ScanPositions(collections[r.name], r))]
          /\ mode' = [mode EXCEPT ![c] = "scanned"]
          /\ UNCHANGED <<dbVars, req>>
    /\ UNCHANGED queue

\* The heap loop over the collected Vec (HeapSelect, over std's
\* BinaryHeap), the reply (or the panic, whose unwind drops the guard),
\* and return.  The loop only compares scores, so each score is replaced
\* by its rank among the candidates' scores.
Select(c) ==
    LET r      == req[c]
        cands  == scored[c]
        all    == {x.score : x \in Range(cands)}
        Rank(s) == Cardinality({t \in all : DB!ScoreLess(t, s)})
        ranked == [j \in DOMAIN cands |-> [pos   |-> cands[j].pos,
                                           score |-> Rank(cands[j].score)]]
        st     == select_top_k(ranked, r.k)
    IN
    /\ mode[c] = "scanned"
    /\ DB!SearchReply(r.op, r.name, r.query,
                      IF r.op = "SearchVectors" THEN {} ELSE r.filters, r.k,
                      [panicked |-> st.panicked, res |-> {x.pos : x \in Range(st.heap)}])
    /\ Done(c)
    /\ UNCHANGED <<phase, collections, nextId, store, restarts, queue>>

Next ==
    \/ Start \/ Crash
    \/ \E c \in Clients :
          \/ \E r \in Requests : Request(c, r)
          \/ Cancel(c) \/ Grant(c)
          \/ WriteBody(c) \/ ReadBody(c) \/ Scan(c) \/ Select(c)

\* tokio hands a released lock to the head waiter and wakes its task, and
\* a task holding a guard runs to completion: its body never awaits.  The
\* transport and the clients owe nothing: no fairness on Request, Cancel,
\* Start or Crash.
Fairness ==
    \A c \in Clients :
        /\ WF_vars(Grant(c))
        /\ WF_vars(WriteBody(c)) /\ WF_vars(ReadBody(c))
        /\ WF_vars(Scan(c)) /\ WF_vars(Select(c))

Spec == Init /\ [][Next]_vars /\ Fairness

-----------------------------------------------------------------------------
(* Properties.                                                             *)

\* Types, and the lock's queue holding exactly the waiting clients, once.
TypeOK ==
    /\ mode \in [Clients -> {"idle", "waiting", "read", "scanned", "write"}]
    /\ req \in [Clients -> Requests \cup {NoReq}]
    /\ queue \in Seq(Clients)
    /\ \A c \in Clients : (mode[c] = "waiting") = (c \in Range(queue))
    /\ Cardinality(Range(queue)) = Len(queue)
    /\ DB!TypeOK

\* Spec 5: operations are linearizable with respect to the lock.  The
\* shell's behaviours, with the reply of each request taken at the step
\* its handler returns, are behaviours of VectorDb, where each request is
\* one atomic step: a search's scan and its selection, though two steps
\* apart, answer for the database as it is when the search returns.
Linearizable == DB!Spec

\* Spec 5: writers are not starved, nor is any other request: every
\* request that waits for the lock is eventually answered (or the process
\* dies), however many requests other clients keep sending.
NoStarvation ==
    \A c \in Clients : mode[c] = "waiting" ~> mode[c] = "idle"

=============================================================================
