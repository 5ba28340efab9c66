# TLA+ models of the edge-rust vector database

This directory holds TLA+ models of `src/edge-rust`, an in-memory vector database with a gRPC front end. It has the modules, the TLC configurations that check them, and `PROJECT.json`. `PROJECT.json` lists the components, the runs, the mutants, the map from every definition to the source lines it models, the findings and the hazards.

## 1. The system

| Component | Source | State | Operations |
|---|---|---|---|
| ID allocator | `id_generator.rs` | `ID_GENERATOR.counter`, an `AtomicU64` that starts at 1 in every process | `next_id` (relaxed `fetch_add(1)`) |
| Distance kernels | `similarity.rs` | none | `get_cache_attr`, `get_distance_fn`, `euclidean_distance`, `dot_product`, `normalize` |
| Bitmap projector | `db.rs` | none | `generate_bitmap_from_metadata`, `generate_bitmap_from_filters`, `bitmap_matches` |
| Collection | `db.rs` | dimension, distance, `metadata_fields`, `Vec<Embedding>` (id, vector, metadata, bitmap) | `get_similarity`, `get_similarity_filters`, `get_similarity_hybrid` |
| Database | `db.rs` | `HashMap<String, Collection>` | create/delete/get collection, add/update/remove embedding, three searches |
| Snapshot codec and lifecycle | `db.rs`, `main.rs` | `store.db` | `load_from_store` at start, `save_to_store` in `Db::drop` |
| Concurrency shell | `grpc_server.rs`, `main.rs` | one `tokio::sync::RwLock<Db>` shared by every handler | nine gRPC handlers |
| RPC conversion | `grpc_server.rs` | none | protobuf `Struct`/`Value` to and from `serde_json` |

### How the parts interact

Each gRPC handler first takes the lock: a read guard for `get_collection` and the three searches, a write guard for the others. It holds the guard for its whole body. It converts the request, calls one `Db` method and maps the `DbError` to a gRPC status. A search scores every candidate with the collection's kernel in a rayon parallel map. The map keeps storage order. A serial loop then selects k candidates through a `BinaryHeap`.

At start, `main` calls `Db::load_from_store`. If `store.db` exists but cannot be read or decoded, `main` returns the error and the server does not start. `Db::drop` calls `save_to_store`, but that happens only when the last `Arc` to the database is dropped. That happens only when `serve()` fails and `main` returns. `main` installs no signal handler, so a SIGINT or SIGTERM ends the process without saving.

### What is hard

- **Restarts.** Three things go wrong across a restart:
  - The bitmap is `#[serde(skip)]` and is never rebuilt.
  - The id counter restarts at 1 while stored ids persist.
  - `bincode` cannot decode `serde_json::Value`.
  - Also, `fs::write` is not an atomic replace.
- **Numeric semantics.** The heap keeps the *smallest* scores, which is right only for Euclidean. The Euclidean kernel omits |e|². `k = 0` reaches `peek().unwrap()` on an empty heap. Ties depend on the heap's internal layout.
- **Derived state.** Add and update must regenerate the bitmap. Cosine collections must store normalised vectors.
- **Concurrency.** Readers and writers share one RwLock. Panics unwind while a guard is held. Writers must not be starved (spec §5).

### What makes each component correct

- **ID allocator:** ids are unique process-wide (spec invariant 4).
- **Bitmap:** the bitmap agrees with the metadata keys, and the filter test is a subset test (§4.3).
- **Collection:**
  - top-k returns the k most similar under the metric (§4.4);
  - `k = 0` gives an empty result;
  - filter mode returns the first k covered embeddings.
- **Database:** validation happens before any change, and cosine vectors stay normalised.
- **Snapshot:** decode(encode(db)) = db, and a saved file can always be loaded.
- **Shell:** linearizability, and no writer starvation.
- **RPC conversion:** metadata comes back as it was sent.

## 2. Modules

- `Similarity.tla` models the kernels. Vectors are small integer vectors, and every kernel is evaluated *exactly*. A stored vector is `[v, n]`, which stands for v/√n: raw vectors have n = 1, and `normalize(w)` gives n = |w|². A score is `[sgn, num, den]`, which stands for sgn·√(num/den). Every value the kernels produce has this form, so `ScoreLess` is exact. The module also defines the *specification's* similarity (`SpecMoreSimilar`: the true Euclidean distance, and larger-is-better for DotProduct and Cosine). Only the properties use it.
- `Bitmap.tla` models the projector and `bitmap_matches`. Metadata is abstracted to its key set, or `NoMeta` for `None`.
- `Collection.tla` models the three searches. `heap_step` is one iteration of the selection loop, and `HeapTopK` folds it over the scored candidates with `FoldLeft`. The heap is the set of candidates it holds. Which of several equal maxima `pop()` removes is left open, so a search has a set of possible outcomes. An outcome can also be a panic.
- `VectorDb.tla` is the database driven by the gRPC handlers, plus the process lifecycle. Variables:
  - `collections` is `Db.collections`;
  - `nextId` is the generator's counter;
  - `store` is `store.db`: `NoFile`, `Corrupt`, or an encoded snapshot;
  - `phase` is down, up or saving;
  - `restarts` is a bound counter;
  - `resp` is the reply to the last request.

  Each handler is one atomic step, because it holds the lock for its whole body. Every early return is a disjunct with the gRPC status the handler gives it. The lifecycle actions are:
  - `Start` (`load_from_store`);
  - `Crash` (a kill that skips `Drop`);
  - `ServerExit` (`serve()` fails and `Drop` runs);
  - `save_to_store`;
  - `SaveFails` (`fs::write` fails before or after it truncates the file).
- `Persistence.tla` is the abstract persistence contract of spec §4.6 and §5. Its variables are `up`, `live` (the running database) and `durable` (what the next start loads), with:
  - `Start` loading `durable`;
  - `Request` changing only `live`;
  - `Kill` losing `live`;
  - `CleanShutdown` writing `live`;
  - `FailedShutdown`, enabled only if writes may fail: the old snapshot stays, or nothing loadable is left (`Lost`).

  `VectorDb` instantiates it as `Persist`. The mapping is as follows:
  - `up` is `phase # "down"`.
  - `live` is `Encode(collections)`: the persisted fields without bitmaps.
  - `durable` is `NoCollections` when there is no file, and the stored snapshot when it decodes. A truncated or undecodable file maps to `Lost`.
  - The abstract `WriteMayFail` is `SaveMayFail`.

  The property `Durable == Persist!Spec` states the refinement.
- `MCVectorDb.tla` defines the input sets the configurations use.
- `BinaryHeap.tla` is std's `BinaryHeap` as the selection loop uses it. `push`, `pop`, `peek` and `into_sorted_vec` work on the backing Vec, with `sift_up`, `sift_down_to_bottom` and `sift_down_range` as RECURSIVE operators. Indices are 0-based, as in the library. Elements compare by score only, as `impl Ord for SimilarityResult` does.
- `HeapSelect.tla` is the body of the selection loop, `select_step`, over that heap, plus `select_top_k`, which folds it over the collected candidates. A loop state is the heap's Vec, or a panic.
- `TopKLoop.tla` runs the loop of `get_similarity` / `get_similarity_hybrid` over that heap, one iteration per step, then `into_sorted_vec`. It includes the `peek().unwrap()` panic when k = 0. Its inputs are every score sequence of up to 4 candidates over 3 score values, and every k in {0,1,2,3,5}. It is checked against `Collection!HeapTopK`.
- `RwLockShell.tla` is the concurrency shell:
  - Each client is a tokio task. A handler joins the lock's FIFO queue (`Request`) and may be cancelled while it waits (`Cancel`).
  - `Grant` gives the lock to the head of the queue once it is compatible with the holders. This is tokio's batch semaphore: a writer at the head holds back every reader behind it.
  - Under the guard, `WriteBody` and `ReadBody` apply the VectorDb action of the request.
  - A vector or hybrid search is two steps: `Scan` is the parallel scan that collects the scores, and `Select` is the heap loop plus the reply.
  - `Select` runs `HeapSelect!select_top_k` over std's real heap, not the set-valued choice of `Collection`. The loop only compares scores, so each exact score is first replaced by its rank among the candidates' scores; that keeps every comparison the loop makes. The shell therefore composes the concurrency model, the database model and the real heap, and `Linearizable` checks the three together.
  - `Crash` kills every task.
  - The database is `DB == INSTANCE VectorDb WITH resp <- lastReply`, where `lastReply` is the reply of the last request to return. `MCRwLockShell.tla` defines the request records.
- `RpcConvert.tla` is the protobuf ↔ serde_json conversion. Values are records by kind, including an unset kind. Numbers are finite values plus the model values `NaN` and `Inf`, and Structs nest one level deep. One request goes through three steps: the add handler's conversion of the metadata, the filter conversion, and `convert_embedding_to_proto` in the reply.

## 3. Runs

Passing runs. Each run over `VectorDb`, `RwLockShell` or `TopKLoop` also checks that module's `TypeOK`: the types, plus the stored shape, meaning vector length = dimension and bitmap length = number of fields (or 0 after a load). `rpc_roundtrip` checks `RoundTrip` only.

| Run | Properties | Bounds | What it shows |
|---|---|---|---|
| `filters` | `IdsUnique`, `FilterSearchExact` | 1 collection, 3 embeddings, up to 4 ids, schemas `<<>>`, `<<a>>`, `<<a,b>>`, 4 metadata shapes, 3 filters, k ∈ {0,1,2} | Within a process, the global generator keeps ids unique through adds, updates and removes. Filter search returns exactly the first k embeddings whose metadata covers the filter. |
| `topk` | `HeapKeepsLowestScores` | 1 collection of each metric, 3 two-dimensional embeddings, ties, negative scores, the zero vector, a wrong-length query | The heap loop keeps the min(k, n) candidates with the lowest kernel scores. This is the code's own ranking rule, checked against a reference. |
| `shell_linearizable` | `Linearizable` (= `VectorDb!Spec`), `NoStarvation` | 2 clients, all 9 request kinds, 1 collection, 2 embeddings, cancellations, 1 kill | Each request takes effect atomically at the step its handler returns. In the code a search scores and selects in one synchronous call under the read guard. The model splits it into a scan step and a selection step, which only adds interleavings, and the property still holds because the guard keeps writers out between them. Every waiting request is eventually answered (or the process dies), even while a reader keeps coming back. |
| `topk_heap` | `RefinesHeapTopK` | ≤ 4 candidates, scores {0,1,2}, k ∈ {0,1,2,3,5} | Over std's real heap, the loop panics or keeps one of the outcomes `Collection`'s set-valued heap allows, and returns them in ascending order. The open choice in `Collection` is therefore a sound abstraction. |
| `rpc_roundtrip` | `RoundTrip` | 2 keys, every scalar kind, one nested Struct or list | Metadata holding only the values spec §6 allows comes back as it was sent. The core always sees the request's key set. |
| `lifecycle` | `CosineNormalized`, `Durable` | 2 stops, save may fail, cosine collection | Across adds, updates and reloads, stored cosine vectors have norm 1 or are zero. The lifecycle refines `Persistence`: a start loads exactly the last clean shutdown's snapshot, and a kill loses only the writes since then. With `SaveMayFail` true, a successful save that the next start cannot decode looks the same as a failed write, so this run does not see the metadata bug; `snapshot_metadata` does. Deadlock checking is off because the system really stops: after an undecodable or truncated `store.db`, `main` refuses to start. |

Violation runs. Each one is a disagreement with the spec, described in `findings`:

| Run | Property | What TLC finds |
|---|---|---|
| `topk_orientation` | `TopKMostSimilar` | The lowest dot product is returned instead of the highest. The counterexample is a DotProduct collection. Cosine ranks through the same loop, and the cfg includes it. |
| `topk_euclidean` | `TopKMostSimilar` | The score √max(0, \|q\|² − 2⟨e,q⟩) ranks (2,2) nearer to (−1,2) than (0,0). |
| `ids_after_restart` | `IdsUnique` | After a save and reload, the first add reuses id 1. |
| `filters_after_restart` | `FilterSearchExact` | Reloaded embeddings have empty bitmaps and match no filter. |
| `snapshot_metadata` | `Durable` | Writes never fail in this run. A clean shutdown that saves an embedding with metadata `{a}` leaves a file `load_from_store` cannot decode, so `durable` becomes `Lost` at a step where the contract says it must become the live database. |
| `topk_ties` | `TieBreakStable` | Ties are not broken by insertion order (spec §4.4). With scores 1, 1, 0 and k = 2, the third candidate's push and `pop()` drop the first of the two tied candidates and keep the second. The order of equal scores inside the result is left open by §4.4, so the property does not state it. |

Every property of a passing run has a mutant in `PROJECT.json`, and TLC finds each mutant's violation under that run's configuration. The mutants are:
- add without the dimension check;
- `fetch_add(0)`;
- update without regenerating the bitmap;
- the heap comparison reversed;
- update without normalisation;
- `main` starting from `Db::new()` instead of `load_from_store` (breaks `Durable`);
- a lock that lets a writer share with readers (breaks `Linearizable`);
- a reader-preferring, barging lock (starves a writer);
- a cancelled waiter left in the queue (breaks the shell's `TypeOK`, whose queue must hold exactly the waiting clients);
- `pop` removing the Vec's last element instead of the root (breaks `RefinesHeapTopK`, and `Linearizable` in the composed shell);
- a heap trimmed only past k + 1;
- nested objects converted to empty Structs.

### Why the bounds are enough

- Two or three embeddings per collection are enough for a heap of size k to fill, overflow, hold ties and face a candidate at its maximum.
- k ∈ {0, 1, 2} covers the empty heap, the eviction path and k > n.
- Schemas with 0, 1 and 2 fields cover filters on declared fields, on undeclared fields, and empty filters.
- One or two process stops are enough for every restart bug above. Each bug needs exactly one save followed by one load.
- Two clients with every request kind are enough for each writer/reader conflict to happen:
  - a writer queued while a search holds the read guard between its scan and selection steps;
  - a writer queued behind readers;
  - a cancelled waiter at the head of the queue.
  Three clients with every request kind are out of reach: TLC was still going after 6 minutes and over 1.2 million states. Under a reader-preferring lock, two clients are already enough to starve a writer: the reader returns and barges past the queued writer, again and again.
- Heaps of up to 4 elements cover every shape `sift_down_to_bottom` and `sift_down_range` handle: an only child, two children, and a second level.

### Fairness

Only `NoStarvation` needs fairness. `RwLockShell` assumes weak fairness of `Grant`, `WriteBody`, `ReadBody`, `Scan` and `Select` for every client, for two reasons:
- tokio's semaphore hands released permits to the head waiter and wakes its task, and the runtime polls woken tasks;
- a handler that holds a guard never awaits again, so it runs to completion. A panic also unwinds and drops the guard.

Nothing is assumed of `Request`, `Cancel`, `Start` or `Crash`: clients, the transport and the operator owe the server nothing.

## 4. Not modelled, and why

- **f32 rounding.** Vectors are small integers, so the kernels are exact. As a result, the `f32::EPSILON` edge of `normalize` cannot occur (see `hazards`).
- **Filter soundness across a restart.** After a reload every stored bitmap is empty, so no filtered search returns a reloaded embedding at all. A property that such searches never return a non-matching embedding would hold only because of that bug, so the project checks `FilterSearchExact` instead, which `filters_after_restart` shows violated.
- **Order of the result in the database model.** `VectorDb` compares results as sets. `TopKLoop` models the order.
- **Divergences found while modelling that have no run of their own:**
  - `create_collection` accepts dimension 0, though spec §3 says dimensions are positive.
  - The search handlers' `map_err` turns `NotFound` into `invalid_argument` (`grpc_server.rs:211`), though spec §6/§7 say `not_found`. `VectorDb` models the code's status.
  - A search with k = 0 on a non-empty collection panics at `peek().unwrap()` (`db.rs:353`), though spec §8 expects an empty result. Both `Collection` and `TopKLoop` model the panic, and `RefinesHeapTopK` checks they panic in the same cases.
  - A failing `fs::write` in `Db::drop` can leave a truncated `store.db` (`SaveFails`), and `main` then refuses to start. The `lifecycle` run reaches this state.
- **Non-finite metadata numbers.** NaN and ±Inf become JSON null. Spec §6 allows only finite numbers, so no property states what they should become (see `hazards`).
- **`errors.rs` and `build.rs`.** `errors.rs` is unused, and `build.rs` is code generation.
- **u64 wrap-around of the id counter.** It is unreachable in practice.

## 5. Possible extensions

1. **An abstract `SearchSpec`.** It would state the top-k the spec promises, and show `Collection` implements it for Euclidean once the kernel is corrected. The mapping would say which operators differ.
2. **Larger shell bounds.** More embeddings and a second collection. Three clients already exceed the time budget.
