------------------------------ MODULE VectorDb ------------------------------
(***************************************************************************)
(* The database of src/edge-rust/src/db.rs as the gRPC handlers of         *)
(* src/edge-rust/src/grpc_server.rs drive it, with the process lifecycle   *)
(* of src/edge-rust/src/main.rs: load_from_store at start, the global id   *)
(* generator of id_generator.rs, and save_to_store in Db::drop.            *)
(*                                                                         *)
(* Every handler takes the database's RwLock for its whole body, so each   *)
(* request is one atomic step here; the lock itself is modelled apart.     *)
(* resp is the reply to the last request, as the client sees it.           *)
(***************************************************************************)
EXTENDS Collection, Functions

CONSTANTS
    Names,          \* collection names
    Keys,           \* metadata keys
    Dims,           \* dimensions a CreateCollection request may carry
    DistanceInputs, \* distance tags a request may carry (may hold a bad one)
    FieldLists,     \* metadata_fields lists a request may carry
    VecInputs,      \* vectors a request may carry (integer sequences)
    Metas,          \* metadata a request may carry: key sets or NoMeta
    Queries,        \* query vectors of a search request
    Filters,        \* filter objects of a search request, as key sets
    Ks,             \* k of a search request
    MaxEmb,         \* bound: embeddings per collection
    MaxId,          \* bound: ids the generator hands out per process
    MaxRestarts,    \* bound: process stops
    SaveMayFail,    \* whether fs::write in save_to_store may fail
    NoFile,         \* store.db does not exist
    Corrupt         \* store.db holds a truncated or partial write

DistanceTags == {"Euclidean", "Cosine", "DotProduct"}

ASSUME /\ MaxEmb \in Nat /\ MaxId \in Nat /\ MaxRestarts \in Nat
       /\ SaveMayFail \in BOOLEAN
       /\ Ks \subseteq Nat

VARIABLES
    phase,       \* "down", "up" (serving) or "saving" (in Db::drop)
    collections, \* Db.collections: name -> Collection
    nextId,      \* ID_GENERATOR.counter
    store,       \* contents of store.db
    restarts,    \* number of process stops so far
    resp         \* reply to the last request

vars == <<phase, collections, nextId, store, restarts, resp>>

NoCollections == [n \in {} |-> 0]

-----------------------------------------------------------------------------
(* Snapshot codec: bincode over the serde derive.  The bitmap field is     *)
(* #[serde(skip)], so it is not written and is BitVec::default() (empty)   *)
(* after a load.                                                           *)

Encode(cs) ==
    [n \in DOMAIN cs |->
        [cs[n] EXCEPT !.embeddings =
            [i \in DOMAIN cs[n].embeddings |->
                [id       |-> cs[n].embeddings[i].id,
                 vector   |-> cs[n].embeddings[i].vector,
                 metadata |-> cs[n].embeddings[i].metadata]]]]

\* bincode cannot drive serde_json::Value's Deserialize, which needs
\* deserialize_any; a HashMap<String, Value> decodes only when it is empty.
Decodable(snap) ==
    \A n \in DOMAIN snap : \A i \in DOMAIN snap[n].embeddings :
        snap[n].embeddings[i].metadata \in {NoMeta, {}}

Decode(snap) ==
    [n \in DOMAIN snap |->
        [snap[n] EXCEPT !.embeddings =
            [i \in DOMAIN snap[n].embeddings |->
                [id       |-> snap[n].embeddings[i].id,
                 vector   |-> snap[n].embeddings[i].vector,
                 metadata |-> snap[n].embeddings[i].metadata,
                 bitmap   |-> <<>>]]]]

\* The reply a request without effect on the database gets.
Fail(op, status) ==
    /\ resp' = [op |-> op, status |-> status]
    /\ UNCHANGED <<collections, nextId>>

Serving == phase = "up"

Lifecycle == <<phase, store, restarts>>

-----------------------------------------------------------------------------
(* Process lifecycle (main.rs, Db::load_from_store, Db::drop).             *)

Init ==
    /\ phase = "down"
    /\ collections = NoCollections
    /\ nextId = 1
    /\ store = NoFile
    /\ restarts = 0
    /\ resp = [op |-> "none"]

\* Mutant: main starts from Db::new(), ignoring store.db.
Start_ignores_store ==
    /\ phase = "down"
    /\ collections' = NoCollections
    /\ phase' = "up"
    /\ nextId' = 1
    /\ resp' = [op |-> "none"]
    /\ UNCHANGED <<store, restarts>>

\* main: Db::load_from_store()?, with ID_GENERATOR fresh at 1.  A file that
\* cannot be read or decoded makes main return the error: no start.
Start ==
    /\ phase = "down"
    /\ \/ store = NoFile /\ collections' = NoCollections
       \/ /\ store \notin {NoFile, Corrupt}
          /\ Decodable(store)
          /\ collections' = Decode(store)
    /\ phase' = "up"
    /\ nextId' = 1
    /\ resp' = [op |-> "none"]
    /\ UNCHANGED <<store, restarts>>

\* The process is killed (a signal, a crash): no destructor runs.
Crash ==
    /\ phase = "up"
    /\ restarts < MaxRestarts
    /\ phase' = "down"
    /\ restarts' = restarts + 1
    /\ collections' = NoCollections
    /\ resp' = [op |-> "none"]
    /\ UNCHANGED <<nextId, store>>

\* serve() fails, the unwrap panics, main returns and the last Arc to the
\* Db is dropped: Db::drop calls save_to_store.
ServerExit ==
    /\ phase = "up"
    /\ restarts < MaxRestarts
    /\ phase' = "saving"
    /\ restarts' = restarts + 1
    /\ resp' = [op |-> "none"]
    /\ UNCHANGED <<collections, nextId, store>>

\* save_to_store: serialize, then fs::write.
save_to_store ==
    /\ phase = "saving"
    /\ store' = Encode(collections)
    /\ phase' = "down"
    /\ collections' = NoCollections
    /\ UNCHANGED <<nextId, restarts, resp>>

\* fs::write fails (logged and ignored by Db::drop), or the process dies in
\* it: before File::create truncates, store.db is untouched; after it, the
\* file is empty or partly written.
SaveFails ==
    /\ phase = "saving"
    /\ SaveMayFail
    /\ store' \in {store, Corrupt}
    /\ phase' = "down"
    /\ collections' = NoCollections
    /\ UNCHANGED <<nextId, restarts, resp>>

-----------------------------------------------------------------------------
(* Collection management.                                                 *)

\* grpc create_collection: distance conversion, then Db::create_collection.
CreateCollection(name, dim, dist, fields) ==
    /\ Serving
    /\ \/ dist \notin DistanceTags /\ Fail("CreateCollection", "invalid_argument")
       \/ /\ dist \in DistanceTags
          /\ name \in DOMAIN collections
          /\ Fail("CreateCollection", "already_exists")
       \/ /\ dist \in DistanceTags
          /\ name \notin DOMAIN collections
          /\ collections' = (name :> [dimension       |-> dim,
                                      distance        |-> dist,
                                      embeddings      |-> <<>>,
                                      metadata_fields |-> fields])
                            @@ collections
          /\ resp' = [op |-> "CreateCollection", status |-> "ok"]
          /\ UNCHANGED nextId
    /\ UNCHANGED Lifecycle

\* Db::delete_collection
DeleteCollection(name) ==
    /\ Serving
    /\ \/ name \notin DOMAIN collections /\ Fail("DeleteCollection", "not_found")
       \/ /\ name \in DOMAIN collections
          /\ collections' = Restrict(collections, DOMAIN collections \ {name})
          /\ resp' = [op |-> "DeleteCollection", status |-> "ok"]
          /\ UNCHANGED nextId
    /\ UNCHANGED Lifecycle

\* grpc get_collection over Db::get_collection
GetCollection(name) ==
    /\ Serving
    /\ \/ name \notin DOMAIN collections /\ Fail("GetCollection", "not_found")
       \/ /\ name \in DOMAIN collections
          /\ resp' = [op        |-> "GetCollection", status |-> "ok",
                      dimension |-> collections[name].dimension,
                      distance  |-> collections[name].distance]
          /\ UNCHANGED <<collections, nextId>>
    /\ UNCHANGED Lifecycle

-----------------------------------------------------------------------------
(* Embeddings.                                                             *)

\* The stored vector: normalised in a Cosine collection.
StoredVector(coll, vec) ==
    IF coll.distance = "Cosine" THEN normalize(vec) ELSE RawVec(vec)

\* Position of the first embedding with this id (iter().position), 0 if none.
PositionOf(coll, id) == SelectInSeq(coll.embeddings, LAMBDA e : e.id = id)

\* Mutant: fetch_add(0): the counter never moves.
next_id_stuck(counter) == counter

\* IdGenerator::next_id returns the counter and fetch_adds 1 to it.
next_id(counter) == counter + 1

\* grpc add_embedding: a request without an embedding is rejected first.
AddEmbeddingMissing ==
    /\ Serving
    /\ Fail("AddEmbedding", "invalid_argument")
    /\ UNCHANGED Lifecycle

\* grpc update_embedding: the same check, before the database is touched.
UpdateEmbeddingMissing ==
    /\ Serving
    /\ Fail("UpdateEmbedding", "invalid_argument")
    /\ UNCHANGED Lifecycle

\* Mutant: the dimension check is dropped.
AddEmbedding_no_dim_check(name, vec, meta) ==
    /\ Serving
    /\ \/ name \notin DOMAIN collections /\ Fail("AddEmbedding", "not_found")
       \/ LET coll == collections[name]
              emb  == [id       |-> nextId,
                       vector   |-> StoredVector(coll, vec),
                       metadata |-> meta,
                       bitmap   |-> generate_bitmap_from_metadata(
                                        meta, coll.metadata_fields)]
          IN  /\ name \in DOMAIN collections
              /\ Len(coll.embeddings) < MaxEmb
              /\ nextId <= MaxId
              /\ collections' = [collections EXCEPT
                                   ![name].embeddings = Append(@, emb)]
              /\ nextId' = next_id(nextId)
              /\ resp' = [op |-> "AddEmbedding", status |-> "ok", id |-> nextId]
    /\ UNCHANGED Lifecycle

\* Db::add_embedding
AddEmbedding(name, vec, meta) ==
    /\ Serving
    /\ \/ name \notin DOMAIN collections /\ Fail("AddEmbedding", "not_found")
       \/ /\ name \in DOMAIN collections
          /\ Len(vec) # collections[name].dimension
          /\ Fail("AddEmbedding", "invalid_argument")
       \/ LET coll == collections[name]
              emb  == [id       |-> nextId,
                       vector   |-> StoredVector(coll, vec),
                       metadata |-> meta,
                       bitmap   |-> generate_bitmap_from_metadata(
                                        meta, coll.metadata_fields)]
          IN  /\ name \in DOMAIN collections
              /\ Len(vec) = coll.dimension
              /\ Len(coll.embeddings) < MaxEmb
              /\ nextId <= MaxId
              /\ collections' = [collections EXCEPT
                                   ![name].embeddings = Append(@, emb)]
              /\ nextId' = next_id(nextId)
              /\ resp' = [op |-> "AddEmbedding", status |-> "ok", id |-> nextId]
    /\ UNCHANGED Lifecycle

\* Mutant: the new metadata is stored but the bitmap is not regenerated.
UpdateEmbedding_stale_bitmap(name, id, vec, meta) ==
    /\ Serving
    /\ name \in DOMAIN collections
    /\ PositionOf(collections[name], id) # 0
    /\ Len(vec) = collections[name].dimension
    /\ LET coll == collections[name]
           pos  == PositionOf(coll, id)
       IN  collections' = [collections EXCEPT ![name].embeddings[pos] =
                             [@ EXCEPT !.vector   = StoredVector(coll, vec),
                                       !.metadata = meta]]
    /\ resp' = [op |-> "UpdateEmbedding", status |-> "ok"]
    /\ UNCHANGED <<nextId>>
    /\ UNCHANGED Lifecycle

\* Mutant: the vector is replaced but not normalised.
UpdateEmbedding_no_normalize(name, id, vec, meta) ==
    /\ Serving
    /\ name \in DOMAIN collections
    /\ PositionOf(collections[name], id) # 0
    /\ Len(vec) = collections[name].dimension
    /\ LET coll == collections[name]
           pos  == PositionOf(coll, id)
       IN  collections' = [collections EXCEPT ![name].embeddings[pos] =
                             [@ EXCEPT !.vector   = RawVec(vec),
                                       !.metadata = meta,
                                       !.bitmap   = generate_bitmap_from_metadata(
                                                       meta, coll.metadata_fields)]]
    /\ resp' = [op |-> "UpdateEmbedding", status |-> "ok"]
    /\ UNCHANGED <<nextId>>
    /\ UNCHANGED Lifecycle

\* Db::update_embedding: the id is looked up before the dimension check;
\* vector, metadata and bitmap are replaced, then the vector normalised.
UpdateEmbedding(name, id, vec, meta) ==
    /\ Serving
    /\ \/ name \notin DOMAIN collections /\ Fail("UpdateEmbedding", "not_found")
       \/ /\ name \in DOMAIN collections
          /\ PositionOf(collections[name], id) = 0
          /\ Fail("UpdateEmbedding", "not_found")
       \/ /\ name \in DOMAIN collections
          /\ PositionOf(collections[name], id) # 0
          /\ Len(vec) # collections[name].dimension
          /\ Fail("UpdateEmbedding", "invalid_argument")
       \/ LET coll == collections[name]
              pos  == PositionOf(coll, id)
          IN  /\ name \in DOMAIN collections
              /\ pos # 0
              /\ Len(vec) = coll.dimension
              /\ collections' = [collections EXCEPT ![name].embeddings[pos] =
                                   [@ EXCEPT !.vector   = StoredVector(coll, vec),
                                             !.metadata = meta,
                                             !.bitmap   = generate_bitmap_from_metadata(
                                                             meta, coll.metadata_fields)]]
              /\ resp' = [op |-> "UpdateEmbedding", status |-> "ok"]
              /\ UNCHANGED nextId
    /\ UNCHANGED Lifecycle

\* Db::remove_embedding: the first embedding with the id is removed.
RemoveEmbedding(name, id) ==
    /\ Serving
    /\ \/ name \notin DOMAIN collections /\ Fail("RemoveEmbedding", "not_found")
       \/ /\ name \in DOMAIN collections
          /\ PositionOf(collections[name], id) = 0
          /\ Fail("RemoveEmbedding", "not_found")
       \/ /\ name \in DOMAIN collections
          /\ PositionOf(collections[name], id) # 0
          /\ collections' = [collections EXCEPT ![name].embeddings =
                               RemoveAt(@, PositionOf(collections[name], id))]
          /\ resp' = [op |-> "RemoveEmbedding", status |-> "ok"]
          /\ UNCHANGED nextId
    /\ UNCHANGED Lifecycle

-----------------------------------------------------------------------------
(* Searches.  The grpc handlers map every DbError to invalid_argument.     *)
(* A panic unwinds the handler task; the read guard is released and the    *)
(* client gets an error.                                                   *)

SearchReply(op, name, query, filters, k, out) ==
    resp' = [op |-> op, coll |-> name, query |-> query, filters |-> filters,
             k |-> k,
             status |-> IF out.panicked THEN "panic" ELSE "ok",
             res |-> out.res]

\* Db::get_similarity_vectors_only
SearchVectors(name, query, k) ==
    /\ Serving
    /\ \/ name \notin DOMAIN collections /\ Fail("SearchVectors", "invalid_argument")
       \/ /\ name \in DOMAIN collections
          /\ \E out \in get_similarity(collections[name], query, k) :
                SearchReply("SearchVectors", name, query, {}, k, out)
          /\ UNCHANGED <<collections, nextId>>
    /\ UNCHANGED Lifecycle

\* Db::get_similarity_filters_only
SearchFilters(name, filters, k) ==
    /\ Serving
    /\ \/ name \notin DOMAIN collections /\ Fail("SearchFilters", "invalid_argument")
       \/ LET coll == collections[name] IN
          /\ name \in DOMAIN collections
          /\ SearchReply("SearchFilters", name, <<>>, filters, k,
                 get_similarity_filters(coll,
                     generate_bitmap_from_filters(filters, coll.metadata_fields), k))
          /\ UNCHANGED <<collections, nextId>>
    /\ UNCHANGED Lifecycle

\* Db::get_similarity_hybrid
SearchHybrid(name, query, filters, k) ==
    /\ Serving
    /\ \/ name \notin DOMAIN collections /\ Fail("SearchHybrid", "invalid_argument")
       \/ LET coll == collections[name] IN
          /\ name \in DOMAIN collections
          /\ \E out \in get_similarity_hybrid(coll, query,
                           generate_bitmap_from_filters(filters, coll.metadata_fields), k) :
                SearchReply("SearchHybrid", name, query, filters, k, out)
          /\ UNCHANGED <<collections, nextId>>
    /\ UNCHANGED Lifecycle

-----------------------------------------------------------------------------
Ids == 1..MaxId

Next ==
    \/ Start \/ Crash \/ ServerExit \/ save_to_store \/ SaveFails
    \/ \E n \in Names, d \in Dims, t \in DistanceInputs, f \in FieldLists :
          CreateCollection(n, d, t, f)
    \/ \E n \in Names : DeleteCollection(n) \/ GetCollection(n)
    \/ AddEmbeddingMissing \/ UpdateEmbeddingMissing
    \/ \E n \in Names, v \in VecInputs, m \in Metas : AddEmbedding(n, v, m)
    \/ \E n \in Names, i \in Ids, v \in VecInputs, m \in Metas :
          UpdateEmbedding(n, i, v, m)
    \/ \E n \in Names, i \in Ids : RemoveEmbedding(n, i)
    \/ \E n \in Names, q \in Queries, k \in Ks : SearchVectors(n, q, k)
    \/ \E n \in Names, f \in Filters, k \in Ks : SearchFilters(n, f, k)
    \/ \E n \in Names, q \in Queries, f \in Filters, k \in Ks :
          SearchHybrid(n, q, f, k)

Spec == Init /\ [][Next]_vars

-----------------------------------------------------------------------------
(* Properties.                                                             *)

Embeddings(n) == collections[n].embeddings

Stored == [id: Nat, vector: [v: Seq(Int), n: Nat \ {0}],
           metadata: SUBSET Keys \cup {NoMeta}]

\* Types, and the shape every stored embedding keeps: its vector has the
\* collection's dimension, and its bitmap has one bit per declared field
\* (or none, after a load: the bitmap is not persisted).
TypeOK ==
    /\ phase \in {"down", "up", "saving"}
    /\ nextId \in 1..(MaxId + 1)
    /\ restarts \in 0..MaxRestarts
    /\ DOMAIN collections \subseteq Names
    /\ \A n \in DOMAIN collections :
         /\ collections[n].distance \in DistanceTags
         /\ collections[n].dimension \in Dims
         /\ collections[n].metadata_fields \in FieldLists
         /\ Len(Embeddings(n)) <= MaxEmb
         /\ \A i \in DOMAIN Embeddings(n) :
              LET e == Embeddings(n)[i] IN
              /\ [id |-> e.id, vector |-> e.vector, metadata |-> e.metadata] \in Stored
              /\ Len(e.vector.v) = collections[n].dimension
              /\ Len(e.bitmap) \in {0, Len(collections[n].metadata_fields)}
    /\ store = NoFile \/ store = Corrupt \/ DOMAIN store \subseteq Names

\* Spec 3, invariant 4: embedding ids are unique across the whole process:
\* no two stored embeddings, in the same or different collections, share
\* an id (add_embedding takes each id from the global ID_GENERATOR).
IdsUnique ==
    \A n1, n2 \in DOMAIN collections :
      \A i \in DOMAIN Embeddings(n1), j \in DOMAIN Embeddings(n2) :
        <<n1, i>> # <<n2, j>> => Embeddings(n1)[i].id # Embeddings(n2)[j].id

\* The metadata covers the filter: every declared field the filter names is
\* a key of the metadata (spec 4.3, on metadata rather than bitmaps).
Covers(meta, filters, fields) ==
    \A i \in DOMAIN fields :
        fields[i] \in filters => meta # NoMeta /\ fields[i] \in meta

SearchOk(op) == resp.op = op /\ resp.status = "ok"

\* Spec 4.4, filters-only mode: SearchFilters returns, in storage order, the
\* first k embeddings whose metadata covers the filter.  The code decides
\* this on the bitmaps that add_embedding and update_embedding stored.
FilterSearchExact ==
    SearchOk("SearchFilters") =>
        LET coll    == collections[resp.coll]
            covered == SelectSeq(AllPositions(coll),
                         LAMBDA i : Covers(coll.embeddings[i].metadata,
                                           resp.filters, coll.metadata_fields))
        IN  resp.res = SubSeq(covered, 1, IF resp.k < Len(covered)
                                          THEN resp.k ELSE Len(covered))

\* The candidates a vector or hybrid search scores, as the code selects them.
CodeCandidates ==
    LET coll == collections[resp.coll]
    IN  IF resp.op = "SearchVectors" THEN DOMAIN coll.embeddings
        ELSE Range(MatchingPositions(coll,
                 generate_bitmap_from_filters(resp.filters, coll.metadata_fields)))

CodeScore(i) ==
    LET coll == collections[resp.coll]
    IN  get_distance_fn(coll.distance, coll.embeddings[i].vector, resp.query,
                        get_cache_attr(coll.distance, resp.query))

\* The bounded-heap loop of get_similarity and get_similarity_hybrid keeps
\* min(k, n) of the n candidates, and no candidate it dropped has a lower
\* score (as distance_fn computes it) than one it kept.
HeapKeepsLowestScores ==
    (SearchOk("SearchVectors") \/ SearchOk("SearchHybrid")) =>
        /\ resp.res \subseteq CodeCandidates
        /\ Cardinality(resp.res) = IF resp.k < Cardinality(CodeCandidates)
                                   THEN resp.k ELSE Cardinality(CodeCandidates)
        /\ \A i \in resp.res, j \in CodeCandidates \ resp.res :
              ~ScoreLess(CodeScore(j), CodeScore(i))

\* Spec 4.4: a vector or hybrid search returns the k embeddings most
\* similar to the query (Euclidean: nearest; Cosine, DotProduct: largest
\* score): no candidate left out is strictly more similar than one returned.
TopKMostSimilar ==
    (SearchOk("SearchVectors") \/ SearchOk("SearchHybrid")) =>
        LET coll == collections[resp.coll]
        IN  \A i \in resp.res, j \in CodeCandidates \ resp.res :
              ~SpecMoreSimilar(coll.distance, coll.embeddings[j].vector,
                               coll.embeddings[i].vector, resp.query)

\* Spec 3, invariant 3: in a Cosine collection every stored vector has norm
\* 1 or is the zero vector, after add, update and reload alike.
CosineNormalized ==
    \A n \in DOMAIN collections :
      collections[n].distance = "Cosine" =>
        \A i \in DOMAIN Embeddings(n) :
          LET x == Embeddings(n)[i].vector
          IN  Mag2(x.v) = x.n \/ Mag2(x.v) = 0

\* Refinement of Persistence: the running database and the one a start
\* would load, as snapshots (every persisted field, no bitmaps).  A store
\* that is truncated or cannot be decoded is no snapshot at all.
LiveView == IF phase = "down" THEN NoCollections ELSE Encode(collections)

DurableView ==
    CASE store = NoFile                      -> NoCollections
      [] store # Corrupt /\ Decodable(store) -> store
      [] OTHER                               -> Corrupt

Persist == INSTANCE Persistence
               WITH up <- phase # "down", live <- LiveView,
                    durable <- DurableView, Empty <- NoCollections,
                    Lost <- Corrupt, WriteMayFail <- SaveMayFail

\* Spec 4.6 and 5: a start (load_from_store) brings back exactly the
\* database of the last clean shutdown (save_to_store in Db::drop); a kill,
\* which skips Db::drop, loses the writes since then and nothing older; a
\* failing fs::write leaves the old snapshot or none, never other data.
Durable == Persist!Spec

=============================================================================
