---------------------------- MODULE ChromaVector ----------------------------
(***************************************************************************)
(* The Chroma backend adapter of the vector store layer                    *)
(* (src/api/core/rag/datasource/vdb/chroma/chroma_vector.py), run by       *)
(* several concurrent callers (threads or worker processes) against one    *)
(* collection name.  Shared state: the Redis provisioning lock             *)
(* "vector_indexing_lock_<name>", the Redis existence-cache key            *)
(* "vector_indexing_<name>", and the Chroma collection with its entries.   *)
(* Every network call is one atomic step; a caller may crash between any   *)
(* two of them, and a Chroma call may fail (BackendUnavailable).           *)
(***************************************************************************)
EXTENDS Naturals, FiniteSets

CONSTANTS
    Procs,             \* concurrent callers of the adapter
    Ids,               \* entry ids (the doc_id of a Document)
    DocIds,            \* values of the "document_id" metadata field
    NoOwner,           \* the lock key is absent
    Orphaned,          \* the lock key is held by a token of a crashed caller
    NoDoc,             \* store[i] = NoDoc: entry i is not in the collection
    MaxFaults,         \* bound on crashes plus failed Chroma calls
    LockLeaseCanLapse  \* can a live holder outlast the 20 s lock TTL?

ASSUME ChromaAssumption ==
    /\ MaxFaults \in Nat
    /\ LockLeaseCanLapse \in BOOLEAN
    /\ NoOwner \notin Procs /\ Orphaned \notin Procs /\ NoOwner # Orphaned
    /\ NoDoc \notin DocIds

VARIABLES
    pc,          \* pc[p]: where caller p is inside its current call
    op,          \* op[p]: which collection operation p's pending call makes
    arg,         \* arg[p]: the ids / metadata value of p's current call
    lockHolder,  \* Redis lock vector_indexing_lock_<name>
    cache,       \* Redis key vector_indexing_<name> present
    collection,  \* the Chroma collection exists
    store,       \* store[i]: document_id metadata of entry i, or NoDoc
    faults,      \* crashes and failed Chroma calls so far
    result,      \* result[p]: outcome of p's last create()
    blame,       \* blame[p]: what interfered with p's last create()
    probe        \* probe[p]: p's last text_exists: was the id there, what it said

vars == <<pc, op, arg, lockHolder, cache, collection, store, faults,
          result, blame, probe>>

PCs == {"idle", "lock", "check", "provision", "setcache", "release",
        "release_err", "get", "apply"}
Ops == {"none", "add", "dbi", "dbm", "exists"}
Args == [ids : SUBSET Ids, val : DocIds \cup {NoDoc}]
NoArg == [ids |-> {}, val |-> NoDoc]

\* The steps between acquiring and releasing the provisioning lock.
InCriticalSection(p) ==
    pc[p] \in {"check", "provision", "setcache", "release", "release_err"}

\* A caller inside create(), from its first step to its return.
InCreate(p) == pc[p] # "idle" /\ op[p] = "add"

Stored == {i \in Ids : store[i] # NoDoc}

(***************************************************************************)
(* What each collection call does to the entries (chromadb semantics).     *)
(***************************************************************************)

\* Mutant: upsert given the call's whole argument as each entry's metadata
\* rather than the document's own metadata dict.
UpsertedWholeArg(s, a) == [i \in Ids |-> IF i \in a.ids THEN a ELSE s[i]]

\* collection.upsert: every id gets the new document, replacing an old one.
Upserted(s, a) == [i \in Ids |-> IF i \in a.ids THEN a.val ELSE s[i]]

\* collection.delete(ids=...): missing ids are ignored.
DeletedByIds(s, a) == [i \in Ids |-> IF i \in a.ids THEN NoDoc ELSE s[i]]

\* collection.delete(where={key: {"$eq": value}}).
DeletedByMetadata(s, a) == [i \in Ids |-> IF s[i] = a.val THEN NoDoc ELSE s[i]]

\* collection.get(ids=[id]) returns a GetResult dict, one key per field
\* whatever the ids; text_exists answers len(response) > 0.
GetResultKeys == {"ids", "embeddings", "documents", "uris", "data",
                  "metadatas", "included"}
GetResponse(s, a) ==
    [k \in GetResultKeys |-> IF k = "ids" THEN {i \in a.ids : s[i] # NoDoc}
                             ELSE {}]
TextExistsAnswer(s, a) == Cardinality(DOMAIN GetResponse(s, a)) > 0

TypeOK ==
    /\ pc \in [Procs -> PCs]
    /\ op \in [Procs -> Ops]
    /\ arg \in [Procs -> Args]
    /\ lockHolder \in Procs \cup {NoOwner, Orphaned}
    /\ cache \in BOOLEAN
    /\ collection \in BOOLEAN
    /\ store \in [Ids -> DocIds \cup {NoDoc}]
    /\ faults \in 0..MaxFaults
    /\ result \in [Procs -> {"none", "ok", "error"}]
    /\ blame \in [Procs -> SUBSET {"fault", "delete"}]
    /\ probe \in [Procs -> [present : BOOLEAN, said : BOOLEAN]]

Init ==
    /\ pc = [p \in Procs |-> "idle"]
    /\ op = [p \in Procs |-> "none"]
    /\ arg = [p \in Procs |-> NoArg]
    /\ lockHolder = NoOwner
    /\ cache = FALSE
    /\ collection = FALSE
    /\ store = [i \in Ids |-> NoDoc]
    /\ faults = 0
    /\ result = [p \in Procs |-> "none"]
    /\ blame = [p \in Procs |-> {}]
    /\ probe = [p \in Procs |-> [present |-> FALSE, said |-> FALSE]]

\* p's call returns (normally or by an exception); its locals are gone.
Return(p) ==
    /\ pc' = [pc EXCEPT ![p] = "idle"]
    /\ op' = [op EXCEPT ![p] = "none"]
    /\ arg' = [arg EXCEPT ![p] = NoArg]

\* The outcome of p's call, recorded when the call is a create().
Outcome(p, r) == result' = IF op[p] = "add" THEN [result EXCEPT ![p] = r]
                           ELSE result

\* A Chroma call of p fails with BackendUnavailable.
Fault(p) ==
    /\ faults < MaxFaults
    /\ faults' = faults + 1
    /\ blame' = [blame EXCEPT ![p] = @ \cup {"fault"}]

(***************************************************************************)
(* create(texts, embeddings): a no-op for no texts; otherwise              *)
(* create_collection then add_texts.  Documents are abstracted to their    *)
(* ids and their document_id metadata.                                     *)
(***************************************************************************)
CreateEmpty(p) ==
    /\ pc[p] = "idle"
    /\ result' = [result EXCEPT ![p] = "ok"]
    /\ blame' = [blame EXCEPT ![p] = {}]
    /\ UNCHANGED <<pc, op, arg, lockHolder, cache, collection, store, faults,
                   probe>>

Create(p) ==
    /\ pc[p] = "idle"
    /\ \E a \in Args : a.ids # {} /\ a.val # NoDoc /\ arg' = [arg EXCEPT ![p] = a]
    /\ pc' = [pc EXCEPT ![p] = "lock"]
    /\ op' = [op EXCEPT ![p] = "add"]
    /\ result' = [result EXCEPT ![p] = "none"]
    /\ blame' = [blame EXCEPT ![p] = {}]
    /\ UNCHANGED <<lockHolder, cache, collection, store, faults, probe>>

\* Mutant: the acquire does not wait for a free key (a non-blocking lock
\* whose failure to acquire is ignored).
AcquireLockNoWait(p) ==
    /\ pc[p] = "lock"
    /\ lockHolder' = p
    /\ pc' = [pc EXCEPT ![p] = "check"]
    /\ UNCHANGED <<op, arg, cache, collection, store, faults, result, blame, probe>>

\* with redis_client.lock(lock_name, timeout=20): blocks until the key is free.
AcquireLock(p) ==
    /\ pc[p] = "lock"
    /\ lockHolder = NoOwner
    /\ lockHolder' = p
    /\ pc' = [pc EXCEPT ![p] = "check"]
    /\ UNCHANGED <<op, arg, cache, collection, store, faults, result, blame, probe>>

\* Mutant: the existence-cache short-circuit dropped.
CheckCacheIgnored(p) ==
    /\ pc[p] = "check"
    /\ pc' = [pc EXCEPT ![p] = "provision"]
    /\ UNCHANGED <<op, arg, lockHolder, cache, collection, store, faults,
                   result, blame, probe>>

\* if redis_client.get(collection_exist_cache_key): return
CheckCache(p) ==
    /\ pc[p] = "check"
    /\ pc' = [pc EXCEPT ![p] = IF cache THEN "release" ELSE "provision"]
    /\ UNCHANGED <<op, arg, lockHolder, cache, collection, store, faults,
                   result, blame, probe>>

\* self._client.get_or_create_collection(collection_name), inside the lock;
\* an exception leaves the with-block through the lock release.
ProvisionCollection(p) ==
    /\ pc[p] = "provision"
    /\ collection' = TRUE
    /\ pc' = [pc EXCEPT ![p] = "setcache"]
    /\ UNCHANGED <<op, arg, lockHolder, cache, store, faults, result, blame,
                   probe>>

ProvisionFails(p) ==
    /\ pc[p] = "provision"
    /\ Fault(p)
    /\ pc' = [pc EXCEPT ![p] = "release_err"]
    /\ UNCHANGED <<op, arg, lockHolder, cache, collection, store, result, probe>>

\* redis_client.set(collection_exist_cache_key, 1, ex=3600)
SetCache(p) ==
    /\ pc[p] = "setcache"
    /\ cache' = TRUE
    /\ pc' = [pc EXCEPT ![p] = "release"]
    /\ UNCHANGED <<op, arg, lockHolder, collection, store, faults, result,
                   blame, probe>>

\* Leaving the with-block releases the lock.  redis-py deletes the key only
\* if it still holds this caller's token, and otherwise raises
\* LockNotOwnedError: create() then fails before add_texts.
ReleaseLock(p) ==
    /\ pc[p] = "release"
    /\ lockHolder = p
    /\ lockHolder' = NoOwner
    /\ pc' = [pc EXCEPT ![p] = "get"]
    /\ UNCHANGED <<op, arg, cache, collection, store, faults, result, blame,
                   probe>>

\* The release on the way out of an exception; the exception propagates.
ReleaseLockOnError(p) ==
    /\ pc[p] = "release_err"
    /\ lockHolder = p
    /\ lockHolder' = NoOwner
    /\ Return(p)
    /\ Outcome(p, "error")
    /\ UNCHANGED <<cache, collection, store, faults, blame, probe>>

\* Mutant: the release deletes the key without comparing the token.
LockNotOwnedDeletes(p) ==
    /\ pc[p] \in {"release", "release_err"}
    /\ lockHolder # p
    /\ lockHolder' = NoOwner
    /\ Return(p)
    /\ Outcome(p, "error")
    /\ UNCHANGED <<cache, collection, store, faults, blame, probe>>

LockNotOwned(p) ==
    /\ pc[p] \in {"release", "release_err"}
    /\ lockHolder # p
    /\ Return(p)
    /\ Outcome(p, "error")
    /\ UNCHANGED <<lockHolder, cache, collection, store, faults, blame, probe>>

\* Mutant: redis_client.lock(lock_name) with no timeout: Redis never expires
\* the key, not even the key of a holder that crashed.
LockExpireNoTTL ==
    /\ FALSE
    /\ lockHolder' = NoOwner
    /\ UNCHANGED <<pc, op, arg, cache, collection, store, faults, result,
                   blame, probe>>

\* The 20 s TTL of the lock key: a key whose holder crashed always expires;
\* a live holder loses it only when its critical section outlasts the TTL.
LockExpire ==
    /\ \/ lockHolder = Orphaned
       \/ LockLeaseCanLapse /\ lockHolder \in Procs
    /\ lockHolder' = NoOwner
    /\ UNCHANGED <<pc, op, arg, cache, collection, store, faults, result,
                   blame, probe>>

\* The 3600 s expiry of the existence-cache key.
CacheExpire ==
    /\ cache
    /\ cache' = FALSE
    /\ UNCHANGED <<pc, op, arg, lockHolder, collection, store, faults,
                   result, blame, probe>>

(***************************************************************************)
(* The collection operations all start with get_or_create_collection and   *)
(* then make one call on the collection handle.                            *)
(***************************************************************************)

\* delete_by_metadata_field(key, value), with key = "document_id".
DeleteByMetadataField(p) ==
    /\ pc[p] = "idle"
    /\ \E v \in DocIds : arg' = [arg EXCEPT ![p] = [ids |-> {}, val |-> v]]
    /\ op' = [op EXCEPT ![p] = "dbm"]
    /\ pc' = [pc EXCEPT ![p] = "get"]
    /\ UNCHANGED <<lockHolder, cache, collection, store, faults, result,
                   blame, probe>>

\* delete_by_ids(ids): "if not ids: return" makes the empty call a stutter.
DeleteByIds(p) ==
    /\ pc[p] = "idle"
    /\ \E s \in SUBSET Ids \ {{}} : arg' = [arg EXCEPT ![p] = [ids |-> s, val |-> NoDoc]]
    /\ op' = [op EXCEPT ![p] = "dbi"]
    /\ pc' = [pc EXCEPT ![p] = "get"]
    /\ UNCHANGED <<lockHolder, cache, collection, store, faults, result,
                   blame, probe>>

\* text_exists(id).
TextExists(p) ==
    /\ pc[p] = "idle"
    /\ \E i \in Ids : arg' = [arg EXCEPT ![p] = [ids |-> {i}, val |-> NoDoc]]
    /\ op' = [op EXCEPT ![p] = "exists"]
    /\ pc' = [pc EXCEPT ![p] = "get"]
    /\ UNCHANGED <<lockHolder, cache, collection, store, faults, result,
                   blame, probe>>

\* Mutant: add_texts and the others call get_collection, trusting that the
\* collection was provisioned, and fail when it is missing.
GetCollectionNoCreate(p) ==
    /\ pc[p] = "get"
    /\ \/ /\ collection
          /\ pc' = [pc EXCEPT ![p] = "apply"]
          /\ UNCHANGED <<op, arg, result>>
       \/ /\ ~collection
          /\ Return(p)
          /\ Outcome(p, "error")
    /\ UNCHANGED <<lockHolder, cache, collection, store, faults, blame, probe>>

\* collection = self._client.get_or_create_collection(self._collection_name)
GetCollection(p) ==
    /\ pc[p] = "get"
    /\ collection' = TRUE
    /\ pc' = [pc EXCEPT ![p] = "apply"]
    /\ UNCHANGED <<op, arg, lockHolder, cache, store, faults, result, blame,
                   probe>>

GetCollectionFails(p) ==
    /\ pc[p] = "get"
    /\ Fault(p)
    /\ Return(p)
    /\ Outcome(p, "error")
    /\ UNCHANGED <<lockHolder, cache, collection, store, probe>>

\* The call on the collection handle: upsert, delete, delete(where) or get.
ApplyOp(p) ==
    /\ pc[p] = "apply"
    /\ collection
    /\ store' = CASE op[p] = "add" -> Upserted(store, arg[p])
                  [] op[p] = "dbi" -> DeletedByIds(store, arg[p])
                  [] op[p] = "dbm" -> DeletedByMetadata(store, arg[p])
                  [] OTHER -> store
    /\ probe' = IF op[p] = "exists"
                  THEN [probe EXCEPT ![p] =
                         [present |-> arg[p].ids \subseteq Stored,
                          said |-> TextExistsAnswer(store, arg[p])]]
                  ELSE probe
    /\ Return(p)
    /\ Outcome(p, "ok")
    /\ UNCHANGED <<lockHolder, cache, collection, faults, blame>>

\* On a collection dropped since the handle was obtained Chroma raises.
ApplyOnDropped(p) ==
    /\ pc[p] = "apply"
    /\ ~collection
    /\ Return(p)
    /\ Outcome(p, "error")
    /\ UNCHANGED <<lockHolder, cache, collection, store, faults, blame, probe>>

ApplyFails(p) ==
    /\ pc[p] = "apply"
    /\ Fault(p)
    /\ Return(p)
    /\ Outcome(p, "error")
    /\ UNCHANGED <<lockHolder, cache, collection, store, probe>>

\* delete(): self._client.delete_collection(name).  The existence-cache key
\* is left as it is.  On a missing collection Chroma raises and nothing
\* changes, a stutter.
Delete(p) ==
    /\ pc[p] = "idle"
    /\ collection
    /\ collection' = FALSE
    /\ store' = [i \in Ids |-> NoDoc]
    /\ blame' = [q \in Procs |-> IF InCreate(q) THEN blame[q] \cup {"delete"}
                                 ELSE blame[q]]
    /\ UNCHANGED <<pc, op, arg, lockHolder, cache, faults, result, probe>>

\* The caller's process dies: its call never returns, and a lock it holds
\* stays in Redis, under a token nobody owns, until the TTL expires.
Crash(p) ==
    /\ pc[p] # "idle"
    /\ faults < MaxFaults
    /\ faults' = faults + 1
    /\ Return(p)
    /\ result' = [result EXCEPT ![p] = "none"]
    /\ lockHolder' = IF lockHolder = p THEN Orphaned ELSE lockHolder
    /\ UNCHANGED <<cache, collection, store, blame, probe>>

\* A caller blocked in the lock acquisition is killed by its request
\* timeout; it holds nothing, so nothing else changes.
Abandon(p) ==
    /\ pc[p] = "lock"
    /\ Return(p)
    /\ result' = [result EXCEPT ![p] = "none"]
    /\ UNCHANGED <<lockHolder, cache, collection, store, faults, blame, probe>>

\* The steps of a call in progress.
Running(p) ==
    \/ AcquireLock(p) \/ CheckCache(p)
    \/ ProvisionCollection(p) \/ ProvisionFails(p) \/ SetCache(p)
    \/ ReleaseLock(p) \/ ReleaseLockOnError(p) \/ LockNotOwned(p)
    \/ GetCollection(p) \/ GetCollectionFails(p)
    \/ ApplyOp(p) \/ ApplyOnDropped(p) \/ ApplyFails(p)

\* Starting a call.
Call(p) ==
    \/ Create(p) \/ CreateEmpty(p) \/ DeleteByMetadataField(p) \/ DeleteByIds(p)
    \/ TextExists(p) \/ Delete(p)

Next ==
    \/ \E p \in Procs : Call(p) \/ Running(p) \/ Crash(p) \/ Abandon(p)
    \/ LockExpire
    \/ CacheExpire

\* A synchronous call in progress keeps running (the thread is not starved),
\* and Redis expires keys whose TTL has run out.  Callers need not call.
Spec == Init /\ [][Next]_vars
        /\ \A p \in Procs : WF_vars(Running(p))
        /\ WF_vars(LockExpire)

-----------------------------------------------------------------------------
(***************************************************************************)
(* Refinement: the Redis lock is the abstract lock, with the key of a      *)
(* crashed caller counted as free, and the existence-cache key is the      *)
(* abstract key.                                                           *)
(***************************************************************************)
LockOwner == IF lockHolder \in Procs THEN lockHolder ELSE NoOwner

Abstract == INSTANCE ProvisioningLock WITH
                Free <- NoOwner, holder <- LockOwner, cached <- cache

-----------------------------------------------------------------------------
(***************************************************************************)
(* Properties.                                                             *)
(***************************************************************************)

\* create_collection issues get_or_create_collection, and then writes the
\* existence-cache key, only while no other caller has already provisioned
\* and cached the collection: the lock covers both the check and the write.
ProvisionOnlyWhenUncached ==
    \A p \in Procs : pc[p] \in {"provision", "setcache"} => ~cache

\* A create() fails only if a Chroma call of its own failed or another
\* caller dropped the collection while it ran: a stale existence-cache key
\* (left by delete()) alone never makes create() fail.
NoSpuriousCreateFailure ==
    \A p \in Procs : result[p] = "error" => blame[p] # {}

\* with redis_client.lock(...) blocks with no blocking_timeout, so a create()
\* waiting for the lock must not wait for ever: while it waits, the lock is
\* eventually granted to some caller (the holder releases it, or the key of
\* a holder that crashed expires), unless the waiter is killed first.
LockWaitEnds ==
    \A p \in Procs :
      pc[p] = "lock" ~> (pc[p] # "lock" \/ \E q \in Procs : pc[q] = "check")

\* The release at the end of create_collection's with-block never frees a
\* lock that another live caller has acquired since this caller's lease
\* lapsed: redis-py releases by token and raises LockNotOwnedError instead.
ReleaseKeepsOthersLock ==
    [][\A p \in Procs :
         (/\ pc[p] \in {"release", "release_err"}
          /\ pc'[p] = "idle"
          /\ lockHolder \in Procs \ {p})
         => lockHolder' = lockHolder]_vars

\* The adapter implements ProvisioningLock: every step acquires or releases
\* the lock as a mutex, sets the existence-cache key only as the holder that
\* found it absent, lets the key expire, or changes neither.  A crash of the
\* holder is a release; the orphaned key's expiry changes nothing abstract.
ImplementsProvisioningLock == Abstract!Spec

\* Spec section 8: the provisioning lock is never held by two callers at once.
MutualExclusion ==
    \A p, q \in Procs : p # q => ~(InCriticalSection(p) /\ InCriticalSection(q))

\* Spec section 3: a present existence-cache key means the collection has
\* been provisioned (exists in Chroma).
CacheMeansProvisioned == cache => collection

\* Spec section 4.1: text_exists(id) is an existence probe by id.
TextExistsAnswersPresence == \A p \in Procs : probe[p].said = probe[p].present

=============================================================================
