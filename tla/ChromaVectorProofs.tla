------------------------- MODULE ChromaVectorProofs -------------------------
(***************************************************************************)
(* Proofs about the Chroma adapter's provisioning protocol (ChromaVector), *)
(* for every set of callers, ids and metadata values and every fault bound. *)
(***************************************************************************)
EXTENDS ChromaVector, TLAPS

\* The callers in the critical section of create_collection are exactly the
\* holder of the Redis lock (the lease never lapses under a live holder).
LockHeldInCriticalSection ==
    \A p \in Procs : InCriticalSection(p) => lockHolder = p

\* The inductive strengthening of ProvisionOnlyWhenUncached.
IInv == TypeOK /\ LockHeldInCriticalSection /\ ProvisionOnlyWhenUncached

-----------------------------------------------------------------------------
(***************************************************************************)
(* Type correctness.                                                       *)
(***************************************************************************)

(* TypeOK is proved in parts.  The SMT backend loses the type of a       *)
(* Boolean-valued variable (it reads cache = FALSE as ~cache) and Zenon    *)
(* does no arithmetic, so the Boolean-valued variables, the records of     *)
(* Booleans and the fault counter each get lemmas of their own.            *)
TypeData ==
    /\ pc \in [Procs -> PCs]
    /\ op \in [Procs -> Ops]
    /\ arg \in [Procs -> Args]
    /\ lockHolder \in Procs \cup {NoOwner, Orphaned}
    /\ store \in [Ids -> DocIds \cup {NoDoc}]
    /\ result \in [Procs -> {"none", "ok", "error"}]
    /\ blame \in [Procs -> SUBSET {"fault", "delete"}]

ProbeTyped == probe \in [Procs -> [present : BOOLEAN, said : BOOLEAN]]

FaultsBound == faults \in 0..MaxFaults

LEMMA TypeOKSplit ==
    TypeOK <=> /\ TypeData /\ ProbeTyped /\ FaultsBound
               /\ cache \in BOOLEAN /\ collection \in BOOLEAN
  BY DEF TypeOK, TypeData, ProbeTyped, FaultsBound

LEMMA InitTypeOK == Init => TypeOK
  <1> SUFFICES ASSUME Init PROVE TypeOK
    OBVIOUS
  <1>1. TypeData
    BY DEF Init, TypeData, NoArg, Args, PCs, Ops
  <1>2. ProbeTyped
    BY DEF Init, ProbeTyped
  <1>3. FaultsBound
    BY ChromaAssumption DEF Init, FaultsBound
  <1>4. cache \in BOOLEAN /\ collection \in BOOLEAN
    BY DEF Init
  <1>5. QED
    BY <1>1, <1>2, <1>3, <1>4, TypeOKSplit

\* Only a failed Chroma call and a crash count a fault, both under the bound.
LEMMA NextFaultsBound == FaultsBound /\ [Next]_vars => FaultsBound'
  <1> SUFFICES ASSUME FaultsBound, [Next]_vars PROVE FaultsBound'
    OBVIOUS
  <1> USE ChromaAssumption DEF FaultsBound
  <1>1. ASSUME NEW p \in Procs, Create(p) PROVE FaultsBound'
    BY <1>1 DEF Create
  <1>2. ASSUME NEW p \in Procs, CreateEmpty(p) PROVE FaultsBound'
    BY <1>2 DEF CreateEmpty
  <1>3. ASSUME NEW p \in Procs, AcquireLock(p) PROVE FaultsBound'
    BY <1>3 DEF AcquireLock
  <1>4. ASSUME NEW p \in Procs, CheckCache(p) PROVE FaultsBound'
    BY <1>4 DEF CheckCache
  <1>5. ASSUME NEW p \in Procs, ProvisionCollection(p) PROVE FaultsBound'
    BY <1>5 DEF ProvisionCollection
  <1>6. ASSUME NEW p \in Procs, ProvisionFails(p) PROVE FaultsBound'
    BY <1>6 DEF ProvisionFails, Fault
  <1>7. ASSUME NEW p \in Procs, SetCache(p) PROVE FaultsBound'
    BY <1>7 DEF SetCache
  <1>8. ASSUME NEW p \in Procs, ReleaseLock(p) PROVE FaultsBound'
    BY <1>8 DEF ReleaseLock
  <1>9. ASSUME NEW p \in Procs, ReleaseLockOnError(p) PROVE FaultsBound'
    BY <1>9 DEF ReleaseLockOnError, Return, Outcome
  <1>10. ASSUME NEW p \in Procs, LockNotOwned(p) PROVE FaultsBound'
    BY <1>10 DEF LockNotOwned, Return, Outcome
  <1>11. ASSUME NEW p \in Procs, GetCollection(p) PROVE FaultsBound'
    BY <1>11 DEF GetCollection
  <1>12. ASSUME NEW p \in Procs, GetCollectionFails(p) PROVE FaultsBound'
    BY <1>12 DEF GetCollectionFails, Fault, Return, Outcome
  <1>13. ASSUME NEW p \in Procs, ApplyOp(p) PROVE FaultsBound'
    BY <1>13 DEF ApplyOp, Return, Outcome, Upserted, DeletedByIds, DeletedByMetadata
  <1>14. ASSUME NEW p \in Procs, ApplyOnDropped(p) PROVE FaultsBound'
    BY <1>14 DEF ApplyOnDropped, Return, Outcome
  <1>15. ASSUME NEW p \in Procs, ApplyFails(p) PROVE FaultsBound'
    BY <1>15 DEF ApplyFails, Fault, Return, Outcome
  <1>16. ASSUME NEW p \in Procs, DeleteByMetadataField(p) PROVE FaultsBound'
    BY <1>16 DEF DeleteByMetadataField
  <1>17. ASSUME NEW p \in Procs, DeleteByIds(p) PROVE FaultsBound'
    BY <1>17 DEF DeleteByIds
  <1>18. ASSUME NEW p \in Procs, TextExists(p) PROVE FaultsBound'
    BY <1>18 DEF TextExists
  <1>19. ASSUME NEW p \in Procs, Delete(p) PROVE FaultsBound'
    BY <1>19 DEF Delete
  <1>20. ASSUME NEW p \in Procs, Crash(p) PROVE FaultsBound'
    BY <1>20 DEF Crash, Return
  <1>21. ASSUME NEW p \in Procs, Abandon(p) PROVE FaultsBound'
    BY <1>21 DEF Abandon, Return
  <1>22. CASE LockExpire
    BY <1>22 DEF LockExpire
  <1>23. CASE CacheExpire
    BY <1>23 DEF CacheExpire
  <1>24. CASE UNCHANGED vars
    BY <1>24 DEF vars
  <1>25. QED
    BY <1>1, <1>2, <1>3, <1>4, <1>5, <1>6, <1>7, <1>8, <1>9, <1>10, <1>11, <1>12, <1>13, <1>14, <1>15, <1>16, <1>17, <1>18, <1>19, <1>20, <1>21, <1>22, <1>23, <1>24
    DEF Next, Call, Running

\* Only text_exists writes a probe, and it records two Boolean values.
LEMMA NextProbeTyped == ProbeTyped /\ TypeData /\ [Next]_vars => ProbeTyped'
  <1> SUFFICES ASSUME ProbeTyped, TypeData, [Next]_vars PROVE ProbeTyped'
    OBVIOUS
  <1> USE DEF ProbeTyped, TypeData
  <1>1. ASSUME NEW p \in Procs, Create(p) PROVE ProbeTyped'
    BY <1>1, Zenon DEF Create
  <1>2. ASSUME NEW p \in Procs, CreateEmpty(p) PROVE ProbeTyped'
    BY <1>2, Zenon DEF CreateEmpty
  <1>3. ASSUME NEW p \in Procs, AcquireLock(p) PROVE ProbeTyped'
    BY <1>3, Zenon DEF AcquireLock
  <1>4. ASSUME NEW p \in Procs, CheckCache(p) PROVE ProbeTyped'
    BY <1>4, Zenon DEF CheckCache
  <1>5. ASSUME NEW p \in Procs, ProvisionCollection(p) PROVE ProbeTyped'
    BY <1>5, Zenon DEF ProvisionCollection
  <1>6. ASSUME NEW p \in Procs, ProvisionFails(p) PROVE ProbeTyped'
    BY <1>6, Zenon DEF ProvisionFails, Fault
  <1>7. ASSUME NEW p \in Procs, SetCache(p) PROVE ProbeTyped'
    BY <1>7, Zenon DEF SetCache
  <1>8. ASSUME NEW p \in Procs, ReleaseLock(p) PROVE ProbeTyped'
    BY <1>8, Zenon DEF ReleaseLock
  <1>9. ASSUME NEW p \in Procs, ReleaseLockOnError(p) PROVE ProbeTyped'
    BY <1>9, Zenon DEF ReleaseLockOnError, Return, Outcome
  <1>10. ASSUME NEW p \in Procs, LockNotOwned(p) PROVE ProbeTyped'
    BY <1>10, Zenon DEF LockNotOwned, Return, Outcome
  <1>11. ASSUME NEW p \in Procs, GetCollection(p) PROVE ProbeTyped'
    BY <1>11, Zenon DEF GetCollection
  <1>12. ASSUME NEW p \in Procs, GetCollectionFails(p) PROVE ProbeTyped'
    BY <1>12, Zenon DEF GetCollectionFails, Fault, Return, Outcome
  <1>13. ASSUME NEW p \in Procs, ApplyOp(p) PROVE ProbeTyped'
    <2>1. CASE op[p] = "exists"
      <3>1. probe' = [probe EXCEPT ![p] =
                       [present |-> arg[p].ids \subseteq Stored,
                        said |-> TextExistsAnswer(store, arg[p])]]
        BY <1>13, <2>1 DEF ApplyOp
      <3>2. (arg[p].ids \subseteq Stored) \in BOOLEAN
        OBVIOUS
      <3>3. TextExistsAnswer(store, arg[p]) \in BOOLEAN
        BY DEF TextExistsAnswer
      <3>4. QED
        BY <3>1, <3>2, <3>3, Zenon
    <2>2. CASE op[p] # "exists"
      BY <1>13, <2>2 DEF ApplyOp
    <2>3. QED
      BY <2>1, <2>2
  <1>14. ASSUME NEW p \in Procs, ApplyOnDropped(p) PROVE ProbeTyped'
    BY <1>14, Zenon DEF ApplyOnDropped, Return, Outcome
  <1>15. ASSUME NEW p \in Procs, ApplyFails(p) PROVE ProbeTyped'
    BY <1>15, Zenon DEF ApplyFails, Fault, Return, Outcome
  <1>16. ASSUME NEW p \in Procs, DeleteByMetadataField(p) PROVE ProbeTyped'
    BY <1>16, Zenon DEF DeleteByMetadataField
  <1>17. ASSUME NEW p \in Procs, DeleteByIds(p) PROVE ProbeTyped'
    BY <1>17, Zenon DEF DeleteByIds
  <1>18. ASSUME NEW p \in Procs, TextExists(p) PROVE ProbeTyped'
    BY <1>18, Zenon DEF TextExists
  <1>19. ASSUME NEW p \in Procs, Delete(p) PROVE ProbeTyped'
    BY <1>19, Zenon DEF Delete
  <1>20. ASSUME NEW p \in Procs, Crash(p) PROVE ProbeTyped'
    BY <1>20, Zenon DEF Crash, Return
  <1>21. ASSUME NEW p \in Procs, Abandon(p) PROVE ProbeTyped'
    BY <1>21, Zenon DEF Abandon, Return
  <1>22. CASE LockExpire
    BY <1>22, Zenon DEF LockExpire
  <1>23. CASE CacheExpire
    BY <1>23, Zenon DEF CacheExpire
  <1>24. CASE UNCHANGED vars
    BY <1>24, Zenon DEF vars
  <1>25. QED
    BY <1>1, <1>2, <1>3, <1>4, <1>5, <1>6, <1>7, <1>8, <1>9, <1>10, <1>11, <1>12, <1>13, <1>14, <1>15, <1>16, <1>17, <1>18, <1>19, <1>20, <1>21, <1>22, <1>23, <1>24
    DEF Next, Call, Running

\* The control state, the arguments, the entries and the outcomes stay typed.
LEMMA NextTypeData == TypeData /\ [Next]_vars => TypeData'
  <1> SUFFICES ASSUME TypeData, [Next]_vars PROVE TypeData'
    OBVIOUS
  <1> USE DEF TypeData, PCs, Ops, Args, NoArg
  <1>1. ASSUME NEW p \in Procs, Create(p) PROVE TypeData'
    BY <1>1 DEF Create
  <1>2. ASSUME NEW p \in Procs, CreateEmpty(p) PROVE TypeData'
    BY <1>2 DEF CreateEmpty
  <1>3. ASSUME NEW p \in Procs, AcquireLock(p) PROVE TypeData'
    BY <1>3 DEF AcquireLock
  <1>4. ASSUME NEW p \in Procs, CheckCache(p) PROVE TypeData'
    BY <1>4 DEF CheckCache
  <1>5. ASSUME NEW p \in Procs, ProvisionCollection(p) PROVE TypeData'
    BY <1>5 DEF ProvisionCollection
  <1>6. ASSUME NEW p \in Procs, ProvisionFails(p) PROVE TypeData'
    BY <1>6 DEF ProvisionFails, Fault
  <1>7. ASSUME NEW p \in Procs, SetCache(p) PROVE TypeData'
    BY <1>7 DEF SetCache
  <1>8. ASSUME NEW p \in Procs, ReleaseLock(p) PROVE TypeData'
    BY <1>8 DEF ReleaseLock
  <1>9. ASSUME NEW p \in Procs, ReleaseLockOnError(p) PROVE TypeData'
    BY <1>9 DEF ReleaseLockOnError, Return, Outcome
  <1>10. ASSUME NEW p \in Procs, LockNotOwned(p) PROVE TypeData'
    BY <1>10 DEF LockNotOwned, Return, Outcome
  <1>11. ASSUME NEW p \in Procs, GetCollection(p) PROVE TypeData'
    BY <1>11 DEF GetCollection
  <1>12. ASSUME NEW p \in Procs, GetCollectionFails(p) PROVE TypeData'
    BY <1>12 DEF GetCollectionFails, Fault, Return, Outcome
  <1>13. ASSUME NEW p \in Procs, ApplyOp(p) PROVE TypeData'
    BY <1>13 DEF ApplyOp, Return, Outcome, Upserted, DeletedByIds, DeletedByMetadata
  <1>14. ASSUME NEW p \in Procs, ApplyOnDropped(p) PROVE TypeData'
    BY <1>14 DEF ApplyOnDropped, Return, Outcome
  <1>15. ASSUME NEW p \in Procs, ApplyFails(p) PROVE TypeData'
    BY <1>15 DEF ApplyFails, Fault, Return, Outcome
  <1>16. ASSUME NEW p \in Procs, DeleteByMetadataField(p) PROVE TypeData'
    BY <1>16 DEF DeleteByMetadataField
  <1>17. ASSUME NEW p \in Procs, DeleteByIds(p) PROVE TypeData'
    BY <1>17 DEF DeleteByIds
  <1>18. ASSUME NEW p \in Procs, TextExists(p) PROVE TypeData'
    BY <1>18 DEF TextExists
  <1>19. ASSUME NEW p \in Procs, Delete(p) PROVE TypeData'
    BY <1>19 DEF Delete
  <1>20. ASSUME NEW p \in Procs, Crash(p) PROVE TypeData'
    BY <1>20 DEF Crash, Return
  <1>21. ASSUME NEW p \in Procs, Abandon(p) PROVE TypeData'
    BY <1>21 DEF Abandon, Return
  <1>22. CASE LockExpire
    BY <1>22 DEF LockExpire
  <1>23. CASE CacheExpire
    BY <1>23 DEF CacheExpire
  <1>24. CASE UNCHANGED vars
    BY <1>24 DEF vars
  <1>25. QED
    BY <1>1, <1>2, <1>3, <1>4, <1>5, <1>6, <1>7, <1>8, <1>9, <1>10, <1>11, <1>12, <1>13, <1>14, <1>15, <1>16, <1>17, <1>18, <1>19, <1>20, <1>21, <1>22, <1>23, <1>24
    DEF Next, Call, Running

\* The two Boolean-valued variables are only ever set to TRUE or FALSE.
LEMMA NextFlags == cache \in BOOLEAN /\ collection \in BOOLEAN /\ [Next]_vars
      => cache' \in BOOLEAN /\ collection' \in BOOLEAN
  <1> SUFFICES ASSUME cache \in BOOLEAN, collection \in BOOLEAN, [Next]_vars PROVE cache' \in BOOLEAN /\ collection' \in BOOLEAN
    OBVIOUS
  <1>1. ASSUME NEW p \in Procs, Create(p) PROVE cache' \in BOOLEAN /\ collection' \in BOOLEAN
    BY <1>1, Zenon DEF Create
  <1>2. ASSUME NEW p \in Procs, CreateEmpty(p) PROVE cache' \in BOOLEAN /\ collection' \in BOOLEAN
    BY <1>2, Zenon DEF CreateEmpty
  <1>3. ASSUME NEW p \in Procs, AcquireLock(p) PROVE cache' \in BOOLEAN /\ collection' \in BOOLEAN
    BY <1>3, Zenon DEF AcquireLock
  <1>4. ASSUME NEW p \in Procs, CheckCache(p) PROVE cache' \in BOOLEAN /\ collection' \in BOOLEAN
    BY <1>4, Zenon DEF CheckCache
  <1>5. ASSUME NEW p \in Procs, ProvisionCollection(p) PROVE cache' \in BOOLEAN /\ collection' \in BOOLEAN
    BY <1>5, Zenon DEF ProvisionCollection
  <1>6. ASSUME NEW p \in Procs, ProvisionFails(p) PROVE cache' \in BOOLEAN /\ collection' \in BOOLEAN
    BY <1>6, Zenon DEF ProvisionFails, Fault
  <1>7. ASSUME NEW p \in Procs, SetCache(p) PROVE cache' \in BOOLEAN /\ collection' \in BOOLEAN
    BY <1>7, Zenon DEF SetCache
  <1>8. ASSUME NEW p \in Procs, ReleaseLock(p) PROVE cache' \in BOOLEAN /\ collection' \in BOOLEAN
    BY <1>8, Zenon DEF ReleaseLock
  <1>9. ASSUME NEW p \in Procs, ReleaseLockOnError(p) PROVE cache' \in BOOLEAN /\ collection' \in BOOLEAN
    BY <1>9, Zenon DEF ReleaseLockOnError, Return, Outcome
  <1>10. ASSUME NEW p \in Procs, LockNotOwned(p) PROVE cache' \in BOOLEAN /\ collection' \in BOOLEAN
    BY <1>10, Zenon DEF LockNotOwned, Return, Outcome
  <1>11. ASSUME NEW p \in Procs, GetCollection(p) PROVE cache' \in BOOLEAN /\ collection' \in BOOLEAN
    BY <1>11, Zenon DEF GetCollection
  <1>12. ASSUME NEW p \in Procs, GetCollectionFails(p) PROVE cache' \in BOOLEAN /\ collection' \in BOOLEAN
    BY <1>12, Zenon DEF GetCollectionFails, Fault, Return, Outcome
  <1>13. ASSUME NEW p \in Procs, ApplyOp(p) PROVE cache' \in BOOLEAN /\ collection' \in BOOLEAN
    BY <1>13, Zenon DEF ApplyOp, Return, Outcome, Upserted, DeletedByIds, DeletedByMetadata
  <1>14. ASSUME NEW p \in Procs, ApplyOnDropped(p) PROVE cache' \in BOOLEAN /\ collection' \in BOOLEAN
    BY <1>14, Zenon DEF ApplyOnDropped, Return, Outcome
  <1>15. ASSUME NEW p \in Procs, ApplyFails(p) PROVE cache' \in BOOLEAN /\ collection' \in BOOLEAN
    BY <1>15, Zenon DEF ApplyFails, Fault, Return, Outcome
  <1>16. ASSUME NEW p \in Procs, DeleteByMetadataField(p) PROVE cache' \in BOOLEAN /\ collection' \in BOOLEAN
    BY <1>16, Zenon DEF DeleteByMetadataField
  <1>17. ASSUME NEW p \in Procs, DeleteByIds(p) PROVE cache' \in BOOLEAN /\ collection' \in BOOLEAN
    BY <1>17, Zenon DEF DeleteByIds
  <1>18. ASSUME NEW p \in Procs, TextExists(p) PROVE cache' \in BOOLEAN /\ collection' \in BOOLEAN
    BY <1>18, Zenon DEF TextExists
  <1>19. ASSUME NEW p \in Procs, Delete(p) PROVE cache' \in BOOLEAN /\ collection' \in BOOLEAN
    BY <1>19, Zenon DEF Delete
  <1>20. ASSUME NEW p \in Procs, Crash(p) PROVE cache' \in BOOLEAN /\ collection' \in BOOLEAN
    BY <1>20, Zenon DEF Crash, Return
  <1>21. ASSUME NEW p \in Procs, Abandon(p) PROVE cache' \in BOOLEAN /\ collection' \in BOOLEAN
    BY <1>21, Zenon DEF Abandon, Return
  <1>22. CASE LockExpire
    BY <1>22, Zenon DEF LockExpire
  <1>23. CASE CacheExpire
    BY <1>23, Zenon DEF CacheExpire
  <1>24. CASE UNCHANGED vars
    BY <1>24, Zenon DEF vars
  <1>25. QED
    BY <1>1, <1>2, <1>3, <1>4, <1>5, <1>6, <1>7, <1>8, <1>9, <1>10, <1>11, <1>12, <1>13, <1>14, <1>15, <1>16, <1>17, <1>18, <1>19, <1>20, <1>21, <1>22, <1>23, <1>24
    DEF Next, Call, Running

LEMMA NextTypeOK == TypeOK /\ [Next]_vars => TypeOK'
  <1> SUFFICES ASSUME TypeOK, [Next]_vars PROVE TypeOK'
    OBVIOUS
  <1>1. TypeData /\ ProbeTyped /\ FaultsBound /\ cache \in BOOLEAN
        /\ collection \in BOOLEAN
    BY TypeOKSplit
  <1>2. TypeData' /\ ProbeTyped' /\ FaultsBound' /\ cache' \in BOOLEAN
        /\ collection' \in BOOLEAN
    BY <1>1, NextTypeData, NextProbeTyped, NextFaultsBound, NextFlags
  <1>3. QED
    BY <1>2 DEF TypeOK, TypeData, ProbeTyped, FaultsBound

\* Every reachable state is well typed.
THEOREM TypeCorrect == Spec => []TypeOK
  BY InitTypeOK, NextTypeOK, PTL DEF Spec


-----------------------------------------------------------------------------
(***************************************************************************)
(* The provisioning lock.  While the lease outlives every critical section *)
(* (LockLeaseCanLapse = FALSE) only the holder is between acquire and      *)
(* release; that makes the cache check and the cache write atomic, so no   *)
(* caller provisions a collection that is already cached.                  *)
(***************************************************************************)

Safety == LockHeldInCriticalSection /\ ProvisionOnlyWhenUncached

LEMMA InitIInv == Init => IInv
  <1> SUFFICES ASSUME Init PROVE IInv
    OBVIOUS
  <1>1. TypeOK
    BY InitTypeOK
  <1>2. LockHeldInCriticalSection /\ ProvisionOnlyWhenUncached
    BY DEF Init, LockHeldInCriticalSection, InCriticalSection,
           ProvisionOnlyWhenUncached
  <1>3. QED
    BY <1>1, <1>2 DEF IInv

\* Each step keeps the lock with the one caller in the critical section and
\* the provisioning steps behind a missing cache key.
LEMMA NextSafety ==
    ASSUME ~LockLeaseCanLapse, IInv, [Next]_vars
    PROVE  Safety'
  <1> USE ChromaAssumption DEF IInv, TypeOK, Safety, LockHeldInCriticalSection,
                               InCriticalSection, ProvisionOnlyWhenUncached
  <1>1. ASSUME NEW p \in Procs, Create(p) PROVE Safety'
    BY <1>1 DEF Create
  <1>2. ASSUME NEW p \in Procs, CreateEmpty(p) PROVE Safety'
    BY <1>2 DEF CreateEmpty
  <1>3. ASSUME NEW p \in Procs, AcquireLock(p) PROVE Safety'
    BY <1>3 DEF AcquireLock
  <1>4. ASSUME NEW p \in Procs, CheckCache(p) PROVE Safety'
    BY <1>4 DEF CheckCache
  <1>5. ASSUME NEW p \in Procs, ProvisionCollection(p) PROVE Safety'
    BY <1>5 DEF ProvisionCollection
  <1>6. ASSUME NEW p \in Procs, ProvisionFails(p) PROVE Safety'
    BY <1>6 DEF ProvisionFails, Fault
  <1>7. ASSUME NEW p \in Procs, SetCache(p) PROVE Safety'
    BY <1>7 DEF SetCache
  <1>8. ASSUME NEW p \in Procs, ReleaseLock(p) PROVE Safety'
    BY <1>8 DEF ReleaseLock
  <1>9. ASSUME NEW p \in Procs, ReleaseLockOnError(p) PROVE Safety'
    BY <1>9 DEF ReleaseLockOnError, Return, Outcome
  <1>10. ASSUME NEW p \in Procs, LockNotOwned(p) PROVE Safety'
    BY <1>10 DEF LockNotOwned, Return, Outcome
  <1>11. ASSUME NEW p \in Procs, GetCollection(p) PROVE Safety'
    BY <1>11 DEF GetCollection
  <1>12. ASSUME NEW p \in Procs, GetCollectionFails(p) PROVE Safety'
    BY <1>12 DEF GetCollectionFails, Fault, Return, Outcome
  <1>13. ASSUME NEW p \in Procs, ApplyOp(p) PROVE Safety'
    BY <1>13 DEF ApplyOp, Return, Outcome
  <1>14. ASSUME NEW p \in Procs, ApplyOnDropped(p) PROVE Safety'
    BY <1>14 DEF ApplyOnDropped, Return, Outcome
  <1>15. ASSUME NEW p \in Procs, ApplyFails(p) PROVE Safety'
    BY <1>15 DEF ApplyFails, Fault, Return, Outcome
  <1>16. ASSUME NEW p \in Procs, DeleteByMetadataField(p) PROVE Safety'
    BY <1>16 DEF DeleteByMetadataField
  <1>17. ASSUME NEW p \in Procs, DeleteByIds(p) PROVE Safety'
    BY <1>17 DEF DeleteByIds
  <1>18. ASSUME NEW p \in Procs, TextExists(p) PROVE Safety'
    BY <1>18 DEF TextExists
  <1>19. ASSUME NEW p \in Procs, Delete(p) PROVE Safety'
    BY <1>19 DEF Delete
  <1>20. ASSUME NEW p \in Procs, Crash(p) PROVE Safety'
    BY <1>20 DEF Crash, Return
  <1>21. ASSUME NEW p \in Procs, Abandon(p) PROVE Safety'
    BY <1>21 DEF Abandon, Return
  <1>22. CASE LockExpire
    BY <1>22 DEF LockExpire
  <1>23. CASE CacheExpire
    BY <1>23 DEF CacheExpire
  <1>24. CASE UNCHANGED vars
    BY <1>24 DEF vars
  <1>25. QED
    BY <1>1, <1>2, <1>3, <1>4, <1>5, <1>6, <1>7, <1>8, <1>9, <1>10, <1>11, <1>12, <1>13, <1>14, <1>15, <1>16, <1>17, <1>18, <1>19, <1>20, <1>21, <1>22, <1>23, <1>24
    DEF Next, Call, Running

LEMMA NextIInv == ~LockLeaseCanLapse => (IInv /\ [Next]_vars => IInv')
  <1> SUFFICES ASSUME ~LockLeaseCanLapse, IInv, [Next]_vars PROVE IInv'
    OBVIOUS
  <1>1. TypeOK'
    BY NextTypeOK DEF IInv
  <1>2. Safety'
    BY NextSafety
  <1>3. QED
    BY <1>1, <1>2 DEF IInv, Safety

\* With a lock lease that outlives the critical section, no caller of
\* create_collection runs get_or_create_collection or sets the existence
\* cache key while the key is already set: the check-then-provision under
\* redis_client.lock is atomic.
THEOREM ProvisionSafe ==
    ~LockLeaseCanLapse => (Spec => []ProvisionOnlyWhenUncached)
  <1> SUFFICES ASSUME ~LockLeaseCanLapse PROVE Spec => []ProvisionOnlyWhenUncached
    OBVIOUS
  <1>1. Init => IInv
    BY InitIInv
  <1>2. IInv /\ [Next]_vars => IInv'
    BY NextIInv
  <1>3. IInv => ProvisionOnlyWhenUncached
    BY DEF IInv
  <1>4. QED
    BY <1>1, <1>2, <1>3, PTL DEF Spec

-----------------------------------------------------------------------------
(***************************************************************************)
(* Refinement of ProvisioningLock.                                         *)
(***************************************************************************)

LEMMA InitMaps == Init => Abstract!Init
BY ChromaAssumption DEF Init, Abstract!Init, LockOwner

\* The steps that touch neither the lock key nor the existence-cache key.
LEMMA KeysUntouched ==
    ASSUME NEW p \in Procs,
           \/ Create(p) \/ CreateEmpty(p) \/ CheckCache(p)
           \/ ProvisionCollection(p) \/ ProvisionFails(p) \/ LockNotOwned(p)
           \/ GetCollection(p) \/ GetCollectionFails(p)
           \/ ApplyOp(p) \/ ApplyOnDropped(p) \/ ApplyFails(p)
           \/ DeleteByMetadataField(p) \/ DeleteByIds(p) \/ TextExists(p)
           \/ Delete(p) \/ Abandon(p)
    PROVE  UNCHANGED <<lockHolder, cache>>
BY DEF Create, CreateEmpty, CheckCache, ProvisionCollection, ProvisionFails,
       LockNotOwned, GetCollection, GetCollectionFails, ApplyOp, ApplyOnDropped,
       ApplyFails, DeleteByMetadataField, DeleteByIds, TextExists, Delete, Abandon

\* Every step of the adapter is a step of ProvisioningLock or leaves its
\* state alone, when the lease outlives the critical section.
LEMMA StepMaps ==
    ASSUME ~LockLeaseCanLapse, IInv, [Next]_vars
    PROVE  [Abstract!Next]_Abstract!vars
  <1> USE ChromaAssumption
  <1>1. CASE UNCHANGED <<lockHolder, cache>>
    BY <1>1 DEF Abstract!vars, LockOwner
  <1>2. ASSUME NEW p \in Procs, AcquireLock(p) PROVE Abstract!Acquire(p)
    BY <1>2 DEF AcquireLock, Abstract!Acquire, LockOwner
  <1>3. ASSUME NEW p \in Procs, SetCache(p) PROVE Abstract!Provision(p)
    <2>1. lockHolder = p /\ ~cache
      BY <1>3 DEF SetCache, IInv, LockHeldInCriticalSection, InCriticalSection,
                  ProvisionOnlyWhenUncached
    <2> QED
      BY <1>3, <2>1 DEF SetCache, Abstract!Provision, LockOwner
  <1>4. ASSUME NEW p \in Procs, ReleaseLock(p) \/ ReleaseLockOnError(p)
        PROVE  Abstract!Release(p)
    BY <1>4 DEF ReleaseLock, ReleaseLockOnError, Abstract!Release, LockOwner
  <1>5. ASSUME NEW p \in Procs, Crash(p), lockHolder = p PROVE Abstract!Release(p)
    BY <1>5 DEF Crash, Abstract!Release, LockOwner
  <1>6. ASSUME NEW p \in Procs, Crash(p), lockHolder # p
        PROVE  UNCHANGED <<lockHolder, cache>>
    BY <1>6 DEF Crash
  <1>7. CASE LockExpire
    BY <1>7 DEF LockExpire, Abstract!vars, LockOwner
  <1>8. CASE CacheExpire
    BY <1>8 DEF CacheExpire, Abstract!Next, Abstract!Expire, LockOwner
  <1>9. ASSUME NEW p \in Procs, Call(p) \/ Running(p) \/ Crash(p) \/ Abandon(p)
        PROVE  [Abstract!Next]_Abstract!vars
    <2>1. CASE AcquireLock(p)
      BY <1>2, <2>1 DEF Abstract!Next
    <2>2. CASE SetCache(p)
      BY <1>3, <2>2 DEF Abstract!Next
    <2>3. CASE ReleaseLock(p) \/ ReleaseLockOnError(p)
      BY <1>4, <2>3 DEF Abstract!Next
    <2>4. CASE Crash(p) /\ lockHolder = p
      BY <1>5, <2>4 DEF Abstract!Next
    <2>5. CASE Crash(p) /\ lockHolder # p
      BY <1>1, <1>6, <2>5
    <2>6. CASE \/ Create(p) \/ CreateEmpty(p) \/ CheckCache(p)
               \/ ProvisionCollection(p) \/ ProvisionFails(p) \/ LockNotOwned(p)
               \/ GetCollection(p) \/ GetCollectionFails(p)
               \/ ApplyOp(p) \/ ApplyOnDropped(p) \/ ApplyFails(p)
               \/ DeleteByMetadataField(p) \/ DeleteByIds(p) \/ TextExists(p)
               \/ Delete(p) \/ Abandon(p)
      BY <1>1, <2>6, KeysUntouched
    <2> QED
      BY <1>9, <2>1, <2>2, <2>3, <2>4, <2>5, <2>6 DEF Call, Running
  <1>10. CASE UNCHANGED vars
    BY <1>1, <1>10 DEF vars
  <1>11. QED
    BY <1>7, <1>8, <1>9, <1>10 DEF Next

\* ImplementsProvisioningLock, for every instance whose lock lease outlives
\* the critical section: the adapter's Redis lock and existence-cache key
\* behave as a mutex around an atomic check-then-set of the key.
THEOREM RefinesProvisioningLock ==
    ~LockLeaseCanLapse => (Spec => ImplementsProvisioningLock)
  <1> SUFFICES ASSUME ~LockLeaseCanLapse PROVE Spec => ImplementsProvisioningLock
    OBVIOUS
  <1>1. IInv /\ [Next]_vars => [Abstract!Next]_Abstract!vars
    BY StepMaps
  <1>2. IInv /\ [Next]_vars => IInv'
    BY NextIInv
  <1>3. QED
    BY <1>1, <1>2, InitIInv, InitMaps, PTL
       DEF Spec, ImplementsProvisioningLock, Abstract!Spec

-----------------------------------------------------------------------------
(***************************************************************************)
(* NoSpuriousCreateFailure.                                                *)
(***************************************************************************)

\* The strengthening of NoSpuriousCreateFailure: a create() on its way out
\* through an exception of the provisioning call has a fault against it,
\* and one about to upsert into a dropped collection has the delete against
\* it (get_or_create_collection had just made the collection exist).
CreateBlame ==
    \A p \in Procs :
      /\ result[p] = "error" => blame[p] # {}
      /\ op[p] = "add" /\ pc[p] = "release_err" => blame[p] # {}
      /\ op[p] = "add" /\ pc[p] = "apply" /\ ~collection => blame[p] # {}

LEMMA InitCreateBlame == Init => CreateBlame
BY DEF Init, CreateBlame

\* Every step that makes a create() fail finds a fault or a delete already
\* blamed on it, or blames one; with a lease that holds, the release never
\* finds the lock gone.
LEMMA NextCreateBlame ==
    ASSUME ~LockLeaseCanLapse, IInv, CreateBlame, [Next]_vars
    PROVE  CreateBlame'
  <1> USE ChromaAssumption DEF IInv, TypeOK, CreateBlame
  <1>1. ASSUME NEW p \in Procs, Create(p) PROVE CreateBlame'
    BY <1>1 DEF Create
  <1>2. ASSUME NEW p \in Procs, CreateEmpty(p) PROVE CreateBlame'
    BY <1>2 DEF CreateEmpty
  <1>3. ASSUME NEW p \in Procs, AcquireLock(p) PROVE CreateBlame'
    BY <1>3 DEF AcquireLock
  <1>4. ASSUME NEW p \in Procs, CheckCache(p) PROVE CreateBlame'
    BY <1>4 DEF CheckCache
  <1>5. ASSUME NEW p \in Procs, ProvisionCollection(p) PROVE CreateBlame'
    BY <1>5 DEF ProvisionCollection
  <1>6. ASSUME NEW p \in Procs, ProvisionFails(p) PROVE CreateBlame'
    BY <1>6 DEF ProvisionFails, Fault
  <1>7. ASSUME NEW p \in Procs, SetCache(p) PROVE CreateBlame'
    BY <1>7 DEF SetCache
  <1>8. ASSUME NEW p \in Procs, ReleaseLock(p) PROVE CreateBlame'
    BY <1>8 DEF ReleaseLock
  <1>9. ASSUME NEW p \in Procs, ReleaseLockOnError(p) PROVE CreateBlame'
    BY <1>9 DEF ReleaseLockOnError, Return, Outcome
  <1>10. ASSUME NEW p \in Procs, LockNotOwned(p) PROVE FALSE
    BY <1>10 DEF LockNotOwned, LockHeldInCriticalSection, InCriticalSection
  <1>11. ASSUME NEW p \in Procs, GetCollection(p) PROVE CreateBlame'
    BY <1>11 DEF GetCollection
  <1>12. ASSUME NEW p \in Procs, GetCollectionFails(p) PROVE CreateBlame'
    BY <1>12 DEF GetCollectionFails, Fault, Return, Outcome
  <1>13. ASSUME NEW p \in Procs, ApplyOp(p) PROVE CreateBlame'
    BY <1>13 DEF ApplyOp, Return, Outcome
  <1>14. ASSUME NEW p \in Procs, ApplyOnDropped(p) PROVE CreateBlame'
    BY <1>14 DEF ApplyOnDropped, Return, Outcome
  <1>15. ASSUME NEW p \in Procs, ApplyFails(p) PROVE CreateBlame'
    BY <1>15 DEF ApplyFails, Fault, Return, Outcome
  <1>16. ASSUME NEW p \in Procs,
                DeleteByMetadataField(p) \/ DeleteByIds(p) \/ TextExists(p)
         PROVE  CreateBlame'
    BY <1>16 DEF DeleteByMetadataField, DeleteByIds, TextExists
  <1>17. ASSUME NEW p \in Procs, Delete(p) PROVE CreateBlame'
    BY <1>17 DEF Delete, InCreate
  <1>18. ASSUME NEW p \in Procs, Crash(p) PROVE CreateBlame'
    BY <1>18 DEF Crash, Return
  <1>19. ASSUME NEW p \in Procs, Abandon(p) PROVE CreateBlame'
    BY <1>19 DEF Abandon, Return
  <1>20. CASE LockExpire
    BY <1>20 DEF LockExpire
  <1>21. CASE CacheExpire
    BY <1>21 DEF CacheExpire
  <1>22. CASE UNCHANGED vars
    BY <1>22 DEF vars
  <1>23. QED
    BY <1>1, <1>2, <1>3, <1>4, <1>5, <1>6, <1>7, <1>8, <1>9, <1>10, <1>11,
       <1>12, <1>13, <1>14, <1>15, <1>16, <1>17, <1>18, <1>19, <1>20, <1>21,
       <1>22 DEF Next, Call, Running

\* NoSpuriousCreateFailure, for every instance whose lock lease outlives the
\* critical section: create() fails only when a Chroma call of its own
\* failed or delete() dropped the collection under it, never because of a
\* stale existence-cache key.
THEOREM CreateFailsOnlyForCause ==
    ~LockLeaseCanLapse => (Spec => []NoSpuriousCreateFailure)
  <1> SUFFICES ASSUME ~LockLeaseCanLapse PROVE Spec => []NoSpuriousCreateFailure
    OBVIOUS
  <1>1. IInv /\ CreateBlame /\ [Next]_vars => IInv' /\ CreateBlame'
    BY NextIInv, NextCreateBlame
  <1>2. CreateBlame => NoSpuriousCreateFailure
    BY DEF CreateBlame, NoSpuriousCreateFailure
  <1>3. QED
    BY <1>1, <1>2, InitIInv, InitCreateBlame, PTL DEF Spec

-----------------------------------------------------------------------------
(***************************************************************************)
(* The lock itself.                                                        *)
(***************************************************************************)

\* The body of ReleaseKeepsOthersLock, as a predicate on one step.
ReleaseStepKeepsLock ==
    \A p \in Procs :
      (/\ pc[p] \in {"release", "release_err"}
       /\ pc'[p] = "idle"
       /\ lockHolder \in Procs \ {p})
      => lockHolder' = lockHolder

\* A caller's pc changes only by its own steps; the only step of its own
\* that leaves the release with another caller holding the key is the
\* LockNotOwnedError path, which leaves the key alone, or a crash, which
\* orphans only a key of its own.
LEMMA NextReleaseStep ==
    ASSUME TypeOK, [Next]_vars
    PROVE  ReleaseStepKeepsLock
  <1> SUFFICES ASSUME NEW p \in Procs, pc[p] \in {"release", "release_err"},
                      pc'[p] = "idle", lockHolder \in Procs \ {p}
               PROVE  lockHolder' = lockHolder
    BY DEF ReleaseStepKeepsLock
  <1> USE DEF TypeOK
  <1>1. ASSUME NEW q \in Procs, Call(q) \/ Running(q) \/ Crash(q) \/ Abandon(q)
        PROVE  lockHolder' = lockHolder
    <2>1. CASE q = p
      <3>1. CASE ReleaseLock(q) \/ ReleaseLockOnError(q)
        BY <2>1, <3>1 DEF ReleaseLock, ReleaseLockOnError
      <3>2. CASE Crash(q)
        BY <2>1, <3>2 DEF Crash
      <3>3. CASE ~(ReleaseLock(q) \/ ReleaseLockOnError(q)) /\ ~Crash(q)
        BY <1>1, <2>1, <3>3 DEF Call, Running, Abandon, Create, CreateEmpty,
           DeleteByMetadataField, DeleteByIds, TextExists, Delete, AcquireLock,
           CheckCache, ProvisionCollection, ProvisionFails, SetCache,
           LockNotOwned, GetCollection, GetCollectionFails, ApplyOp,
           ApplyOnDropped, ApplyFails
      <3> QED
        BY <3>1, <3>2, <3>3
    <2>2. CASE q # p
      <3>1. pc'[p] = pc[p]
        BY <1>1, <2>2 DEF Call, Running, Crash, Abandon, Create, CreateEmpty,
           DeleteByMetadataField, DeleteByIds, TextExists, Delete, AcquireLock,
           CheckCache, ProvisionCollection, ProvisionFails, SetCache,
           ReleaseLock, ReleaseLockOnError, LockNotOwned, GetCollection,
           GetCollectionFails, ApplyOp, ApplyOnDropped, ApplyFails, Return
      <3> QED
        BY <3>1
    <2> QED
      BY <2>1, <2>2
  <1>2. CASE LockExpire \/ CacheExpire \/ UNCHANGED vars
    BY <1>2 DEF LockExpire, CacheExpire, vars
  <1> QED
    BY <1>1, <1>2 DEF Next

\* ReleaseKeepsOthersLock, for every instance and whether or not the lease
\* can lapse: leaving create_collection's with-block never frees a lock that
\* another live caller holds (redis-py's release compares the token).
THEOREM ReleaseByToken == Spec => ReleaseKeepsOthersLock
  <1>1. TypeOK /\ [Next]_vars => ReleaseStepKeepsLock
    BY NextReleaseStep
  <1>2. TypeOK /\ [Next]_vars => [ReleaseStepKeepsLock]_vars
    BY <1>1
  <1> QED
    BY <1>2, TypeCorrect, PTL DEF Spec, ReleaseKeepsOthersLock, ReleaseStepKeepsLock

\* MutualExclusion, for every instance whose lock lease outlives the
\* critical section: two callers are never between acquire and release at
\* once.  The violation run shows it fails when the lease can lapse.
THEOREM MutexWhileLeaseHolds ==
    ~LockLeaseCanLapse => (Spec => []MutualExclusion)
  <1> SUFFICES ASSUME ~LockLeaseCanLapse PROVE Spec => []MutualExclusion
    OBVIOUS
  <1>1. IInv => MutualExclusion
    BY DEF IInv, LockHeldInCriticalSection, MutualExclusion
  <1> QED
    BY <1>1, InitIInv, NextIInv, PTL DEF Spec

=============================================================================
