# Verification of the Chroma vector adapter and its neighbours

TLA+ models, TLC runs and TLAPS proofs for the code under `src/`:

| file | lines | what it is |
|------|-------|------------|
| `src/api/core/rag/datasource/vdb/chroma/chroma_vector.py` | 159 | Chroma adapter of the vector-store contract, its factory and config |
| `src/api/core/app/task_pipeline/message_cycle_manager.py` | 199 | per-message helpers of the chat task pipeline, incl. a naming worker thread |
| `src/api/core/app/app_config/entities.py` | 325 | pydantic configuration entities |

## 1. Inventory

### Components and their state

* **ChromaVector provisioning** (`create`, `create_collection`, lines 52-66).
  Shared state lives outside the process:
  * the Redis lock `vector_indexing_lock_<name>`, a key with a 20 s TTL that
    holds the owner's token;
  * the Redis key `vector_indexing_<name>` (TTL 3600 s), meaning "provisioned";
  * the Chroma collection.
  A caller takes the lock, checks the key, calls `get_or_create_collection`,
  sets the key, releases the lock, then runs `add_texts`.
* **ChromaVector collection operations** (lines 68-94). `add_texts`,
  `delete_by_metadata_field`, `delete_by_ids` and `text_exists` each call
  `get_or_create_collection` (recreating a dropped collection), then make one
  call on the handle. `delete` drops the collection.
* **ChromaVector search** (lines 96-136). `search_by_vector`:
  * queries with an optional `document_ids_filter`;
  * converts `score = 1 - distance` and keeps `score > threshold`;
  * sorts by score, descending.
  `search_by_full_text` returns `[]`.
* **ChromaVectorFactory.init_vector** (lines 139-160). Derives the collection
  name from the dataset's index structure or its id, and persists the new
  index structure.
* **MessageCycleManager** (message_cycle_manager.py):
  * `generate_conversation_name` starts a thread that reads the
    conversation, asks the LLM for a name, and merges and commits it;
  * the other methods copy event data into the task state or into stream
    responses, and `message_file_to_stream_response` parses a URL.
* **Configuration entities** (entities.py): data classes only.

### Hard behaviours

* Several processes run `create` on the same collection. The lock makes
  the cache check-then-set atomic, but only while its lease lasts.
* A caller can crash while holding the lock. The key then stays until its TTL.
* A slow holder can outlive the 20 s TTL. A second caller then enters, and
  the first caller's release raises `LockNotOwnedError`.
* Chroma calls can fail (backend unavailable). The lock is released on the
  way out.
* `delete` races the collection operations of other callers, and leaves the
  existence key behind.
* The naming worker thread races the request that commits the conversation,
  and any writer of the conversation's name.

## 2. Modules

### `ChromaVector.tla` (core)

CONSTANTS:
* `Procs`: the callers;
* `Ids`: the entry ids;
* `DocIds`: the values of the `document_id` metadata;
* sentinels `NoOwner`, `Orphaned` and `NoDoc`;
* `MaxFaults`: bounds crashes and failed Chroma calls;
* `LockLeaseCanLapse`: whether a live holder can outlive the TTL.

State:

| variable | code |
|----------|------|
| `pc[p]`, `op[p]`, `arg[p]` | where caller p is in its current call, and its arguments |
| `lockHolder` | the lock key: a caller, `Orphaned` (its owner died) or `NoOwner` |
| `cache` | `vector_indexing_<name>` is present |
| `collection` | the Chroma collection exists |
| `store[i]` | the `document_id` of entry i, or `NoDoc` |

Auxiliary variables that only the properties read:
* `faults`;
* `result[p]`, the outcome of p's last `create`;
* `blame[p]`, the faults and deletes that hit it;
* `probe[p]`, what p's last `text_exists` saw and said.

Actions:

| action | code |
|--------|------|
| `CreateEmpty`, `Create` | `create` with no texts, or its entry into `create_collection` |
| `AcquireLock`, `Abandon` | the blocking acquire; a waiter killed by its request timeout |
| `CheckCache` | line 63 |
| `ProvisionCollection`, `ProvisionFails` | line 65 |
| `SetCache` | line 66 |
| `ReleaseLock`, `ReleaseLockOnError`, `LockNotOwned` | leaving the with-block normally, by an exception, or after the lease lapsed |
| `GetCollection`, `GetCollectionFails` | `get_or_create_collection` in each operation |
| `ApplyOp`, `ApplyOnDropped`, `ApplyFails` | the call on the handle: `upsert`, `delete(ids)`, `delete(where)`, `get` |
| `DeleteByMetadataField`, `DeleteByIds`, `TextExists` | the calls that start those operations |
| `Delete` | `delete_collection` |
| `Crash` | the process dies; a held lock becomes `Orphaned` |
| `LockExpire`, `CacheExpire` | Redis TTLs |

Fairness:
* Weak fairness on each caller's `Running` steps: a synchronous call in
  progress is not starved.
* Weak fairness on `LockExpire`: Redis does expire keys.
Starting a call is not fair: callers need not call.

### Runs (`MCChromaVector.tla`)

| run | cfg | checks | result |
|-----|-----|--------|--------|
| provisioning | `MCChromaVector.cfg` | `TypeOK`, `ProvisionOnlyWhenUncached`, `NoSpuriousCreateFailure`, `ImplementsProvisioningLock`, `LockWaitEnds` | pass, 451 k states |
| lease_lapse_release | `MCChromaVectorLease.cfg` | `ReleaseKeepsOthersLock` | pass, 713 k states (lease may lapse) |
| lease_lapse_mutex | `MCChromaVectorLapse.cfg` | `MutualExclusion` | violation (finding) |
| stale_cache_after_delete | `MCChromaVectorStaleCache.cfg` | `CacheMeansProvisioned` | violation (finding) |
| text_exists_always_true | `MCChromaVectorTextExists.cfg` | `TextExistsAnswersPresence` | violation (finding) |

Bounds: two callers, one id, one `document_id` value, one fault.
These are enough for each race:
* two callers racing the lock, the cache and `delete`;
* a crash or a failed Chroma call inside and outside the critical section;
* an upsert that replaces an entry (the same id upserted twice);
* a delete by metadata or by id that empties the collection.

A second id, which would show a delete that keeps another entry, multiplies
the states by about seven. It brings the liveness check past five minutes,
so none of the runs has one.

A run with three callers took close to four minutes and found nothing new.

### Findings

* `redis_client.lock(name, timeout=20)` sets a 20 s TTL and waits forever.
  The spec reads the 20 s as an acquisition timeout and promises mutual
  exclusion. Under a slow holder the lock is shared (`lease_lapse_mutex`).
  redis-py's token check still stops the late release from freeing the new
  holder's lock (`ReleaseKeepsOthersLock` holds).
* `delete()` keeps the existence key, which then claims a missing collection.
  `add_texts` still recreates the collection through
  `get_or_create_collection`, so `create` does not fail because of it
  (`NoSpuriousCreateFailure` holds).
* `text_exists` always answers True (`len` of a GetResult dict).

### `ProvisioningLock.tla` (abstract) and the refinement

`ProvisioningLock` is what `create_collection` promises, with the collection
left out. It is a mutex (`holder`) around an atomic check-then-set of the
existence key (`cached`). Its actions:
* `Acquire` and `Release`;
* `Provision`: only the holder can take it, and only while the key is absent;
* `Expire`.

`ChromaVector` instantiates it as `Abstract` with this mapping:
* `holder <- LockOwner`: the lock key's owner, with an `Orphaned` key
  counted as free;
* `cached <- cache`;
* `Free <- NoOwner`.

The steps correspond as follows:
* `AcquireLock` is `Acquire`;
* `SetCache` is `Provision`;
* `ReleaseLock`, `ReleaseLockOnError` and a holder's `Crash` are `Release`;
* `CacheExpire` is `Expire`;
* every other step, including the expiry of an orphaned key, is a stutter.

`ImplementsProvisioningLock == Abstract!Spec` is checked in the
`provisioning` run. With a lapsing lease it fails. `LockExpire` of a live
holder's key still maps to an abstract `Release`, but the holder goes on to
`SetCache` with no lock held, and the abstract `Provision` allows that only
to a holder.

`LockWaitEnds` is checked in the `provisioning` run too: a caller waiting
in `redis_client.lock` (no `blocking_timeout`) is not stuck for ever. While
it waits, some caller is eventually granted the lock, unless the waiter
crashes first. It needs the weak fairness of the callers (a holder reaches
its release) and of `LockExpire` (Redis expires the key a crashed holder
left). It is a statement about the group: redis-py acquires by polling, so
nothing makes one waiter win over the others, and the model does not claim
that it does. The key's TTL is what saves it: with a lock taken with no
timeout, an orphaned key blocks every caller for ever. The mutant
`LockExpireNoTTL` shows that.

### `ChromaSearch.tla` (`search_by_vector`, lines 96-136)

Embeddings are abstracted: the model keeps each entry's cosine similarity
with the query, in units of `1/Unit`, so every vector is a unit vector.
`Distance` gives what Chroma reports for the collection's `hnsw:space`:
* `l2`, the default and what `create_collection` uses: `2 - 2cos`;
* `cosine` or `ip`: `1 - cos`.

The collection is fixed in `Init` (every assignment of ids to entries).
`ChromaVector` models how it changes, and a search reads it in one call.

`Search` is the whole method:
* `Candidates`: the `where` filter, applied only when the list is truthy;
* `NearestAnswers`: the backend's exact kNN answer, with ties in any order;
* `Scored`: score `1 - distance`, kept when `> threshold`;
* `SortedByScore`: Python's stable `sorted(reverse=True)`, as an insertion
  fold (`FoldLeft`).
`search_by_full_text` returns `[]` and has no action.

### `VectorFactory.tla` (`ChromaVectorFactory.init_vector`, lines 139-160)

Concurrent requests each run these actions:
* `LoadDataset`: load a dataset row;
* `InitVectorFromStruct`: resolve the name from the index structure, lowered;
* `InitVectorDerive`: resolve it from the id, lowered, and set the new structure;
* `Commit`: commit the session;
* `Finish`: end the request.

Names are character sequences. The dataset id is one character that
`lower()` leaves alone. `"V"`/`"N"` stand for the upper-case letters of
`Vector_index_<id>_Node`. `Dataset.gen_collection_name_by_id` is not under
`src/` and is modelled from the spec. A committed structure may come from
another backend's factory, which keeps the mixed case.

### `MessageCycle.tla` (`message_cycle_manager.py`, lines 50-135)

There are two threads and one environment.
* The pipeline thread:
  * `GenerateConversationName`, with the guards of lines 57-64;
  * `HandleAnnotationReply`;
  * `HandleRetrieverResources`.
* The worker thread, tracked by `wpc`:
  * `WorkerQuery` or `WorkerReturns` (lines 84-92);
  * `WorkerGenerate` or `WorkerGenerateFails` (the LLM call raises and the
    exception is swallowed);
  * `WorkerCommit` or `WorkerCommitStale`.
  The flush writes only a dirty name. If the row was deleted, the flush
  raises `StaleDataError`.
* Other requests: `Rename`, `DeleteConversation`, `DeleteApp`, at most
  `MaxEnv` times in all.

No fairness is assumed: the runs check safety only.
`ConversationNotResurrected` is an action property: a deleted row stays
deleted. The worker's object was loaded before the delete, so its flush
issues an UPDATE that matches no row and raises. It does not re-insert the
row.

### `MessageFileUrl.tla` (`message_file_to_stream_response`, lines 137-172)

The method is a pure function `MessageFileToStreamResponse`, applied by one
action to every `MessageFile` with a URL of up to `MaxUrlLen` characters over
`{"H", "/", ".", "a"}`. `"H"` stands for `http`. `LastPiece` and
`FirstPiece` are `split(c)[-1]` and `split(c)[0]`.
* They cut at `LastAt` and `FirstAt`, the greatest and least element of
  `Positions(s, c)`, the indices holding `c`.
* `Has(s, c)` is `c in s`.
* The module uses only `Sequences`, so the provers can read it.

### More runs

| run | cfg | checks | result |
|-----|-----|--------|--------|
| search_contract | `MCChromaSearch.cfg` | `TypeOK`, `SearchMeetsContract` | pass, 8 134 states |
| search_empty_filter | `MCChromaSearchFilter.cfg` | `FilterHonoured` | violation (finding) |
| search_l2_score | `MCChromaSearchL2.cfg` | `ScoreIsSimilarity` | violation (finding) |
| collection_name_stable | `MCVectorFactory.cfg` | `NameStable` | pass, 702 states |
| conversation_naming | `MCMessageCycle.cfg` | `ConversationNotResurrected` | pass, 1 328 states |
| signed_url | `MCMessageFileUrl.cfg` | `SignedUrlNamesTheFile` | pass, 8 194 states |
| url_extension | `MCMessageFileUrlExt.cfg` | `ExtensionIsFileExtension` | violation (finding) |

Bounds:
* Search: three ids and two `document_id`s. Similarities are {0.5, 0.8, 1.0}
  with `Unit` = 10. `top_k` is 1 or 2, and the threshold is 0 or 0.5. This
  covers:
  * equal scores;
  * under `l2`, which all the runs use, the scores are 0, 0.6 and 1.0;
  * a hit exactly at the threshold: score 0 (cosine 0.5) at threshold 0;
  * more candidates than `top_k`.
* Factory: two requests and two datasets, with every persisted structure or
  none.
* Naming: one user name, one annotation, two environment commits. That is
  enough for a rename or a delete between the worker's query and its commit.
* URLs: every URL of up to five characters. The extension limit is scaled
  from 10 to 3, so `.aa` is kept and `.aaa` becomes `.bin`.

### More findings

* An empty `document_ids_filter` is falsy: the search is not restricted
  (line 99).
* The collection uses Chroma's default `l2` space. `1 - distance` is then
  `2cos - 1`, not the cosine similarity of the spec's scenario (lines 65 and
  122).
* The extension is cut after the last `.` of the whole URL, not of the file
  name: `./` gives the extension `./` (line 153).
* The naming worker's commit overwrites a rename made after its query.
  Nothing promises otherwise, so this is a hazard, not a finding.

## 3. Proofs

`ChromaVectorProofs`:

* `TypeCorrect`: `Spec => []TypeOK`.
  * The SMT backend loses the Booleans' type and Zenon does no arithmetic,
    so `TypeOK` is proved in parts: the data, the probes, the fault counter
    and the two flags.
  * Each part has one step per action.
* `ProvisionSafe`: `~LockLeaseCanLapse => (Spec => []ProvisionOnlyWhenUncached)`.
  * The invariant alone is not inductive. The strengthening
    `IInv == TypeOK /\ LockHeldInCriticalSection /\ ProvisionOnlyWhenUncached`
    adds that every caller between acquire and release is the lock's holder.
  * A free lock means nobody is in the critical section.
  * Only an `Orphaned` key expires when leases hold, and a crashing holder
    leaves its section as its key becomes `Orphaned`.
  * So `SetCache` by the holder cannot meet another caller in
    `provision`/`setcache`.
  * The proof has one step per action.

* `RefinesProvisioningLock`:
  `~LockLeaseCanLapse => (Spec => ImplementsProvisioningLock)`.
  * The initial state maps to `Abstract!Init`.
  * Under `IInv`, every step maps to an abstract step or a stutter
    (`StepMaps`, one step per action).
  * `SetCache` maps to `Provision` because of the two conjuncts of `IInv`:
    the caller at `setcache` holds the lock, and the key is absent.
* `CreateFailsOnlyForCause`:
  `~LockLeaseCanLapse => (Spec => []NoSpuriousCreateFailure)`.
  * The strengthening `CreateBlame` adds two facts about an `add` caller,
    which each record a cause (`blame`) before the failure is returned:
    * at `release_err`, its own Chroma call failed;
    * at `apply` without a collection, `delete()` dropped it.
  * It is proved together with `IInv`. `LockHeldInCriticalSection` rules
    out the `LockNotOwnedError` path while leases hold, and that path is
    the one way to fail without a cause.
* `ReleaseByToken`: `Spec => ReleaseKeepsOthersLock`, for every instance
  and also when the lease can lapse.
  * It holds step by step from `TypeOK` (`TypeCorrect`).
  * Another caller's step never changes a caller's `pc`.
  * The caller's own exits from its release keep the key when someone
    else holds it: the token compare and `LockNotOwnedError`.
  * A crash orphans only the caller's own key.
* `MutexWhileLeaseHolds`: `~LockLeaseCanLapse => (Spec => []MutualExclusion)`.
  It follows from `IInv`. The `lease_lapse_mutex` run shows that the
  hypothesis is needed.

`MessageCycleProofs`:
* `NoResurrection`: `Spec => ConversationNotResurrected`. It holds step by
  step and needs no invariant.

`VectorFactoryProofs`:
* `NameStableHolds`: `Spec => []NameStable`. The inductive invariant says:
  * every structure a dataset has is one of its two persisted forms, whether
    committed or in a session;
  * every adapter built for a dataset uses its lowered name.
* The lemma `LowerIdempotent` (`lower()` applied twice is `lower()` once)
  makes the two forms resolve to the same name.
* `Lower` is written with `CASE`, not `TLC`'s `:>`/`@@`, so that the provers
  can read it.

`MessageFileUrlProofs`:
* `SignedUrlRoundTrip`: `Spec => []SignedUrlNamesTheFile`, for every URL
  length and extension limit.
  * The inductive invariant `IInv` says two things: the file is one the
    database can hold, and the response is the initial one or the method's
    answer for that file.
  * The lemma `RoundTrip` does the rest. With one `.`, at index `d`, after
    the last `/` at `L`, the id is `u[L+1..d-1]` and the extension is
    `"." \o u[d+1..]`. `JoinAtChar` joins them back into `u[L+1..]`.
* `ExtensionFromFileName`: if the file name contains a `.`, `Extension(u)`
  equals `FileExtension(u)`. The URL's last `.` is then the file name's
  last `.` (`LastAtUnique`). This pins down the `url_extension` finding:
  the extension is wrong only when the URL's `.` is all in directory names.
* No induction is needed. The last `/` exists because `<` is
  well-founded on `Nat`: `WFMin` and `NatLessThanWellFounded` of
  `WellFoundedInduction` (`LastAtIsLast`).
* Tip for these proofs: a `DEFINE` inside a proof is expanded by default,
  so the sequence steps `HIDE` it.

Left to TLC:
* Liveness (`LockWaitEnds`). TLAPS cannot reason about fairness or
  `ENABLED` here.
* `ChromaSearch`'s `TypeOK` and `SearchMeetsContract`. The model sorts
  with `FoldLeft` and uses `SequencesExt`, both of which reach `RECURSIVE`
  operators. That leaves tlapm without its SMT backend. The sort's
  correctness is also a statement over all sequences, which needs
  induction, and the provers cannot instantiate the library's induction
  rules.

## 4. Not modelled and plan

* `ChromaConfig` and `entities.py` are configuration records; nothing in
  them changes state. The only code in `entities.py` is two `value_of`
  lookups over enums and two validators that turn `None` into `""` or
  `[]`. A model of them would restate the lookup.
* The `*_to_stream_response` methods after line 172 copy event fields.
* Next steps:
  1. compose `ChromaVector` with `ChromaSearch`, so a search runs against a
     collection that concurrent deletes change;
  2. prove the search contract on the fold (`SortedByScore`). This needs
     cardinality lemmas that do not reach `Folds`, or an induction rule the
     provers can instantiate.
