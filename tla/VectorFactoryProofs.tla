------------------------- MODULE VectorFactoryProofs -------------------------
(***************************************************************************)
(* NameStable for every set of requests and datasets: init_vector resolves *)
(* a dataset to one collection name whichever path it takes.               *)
(***************************************************************************)
EXTENDS VectorFactory, TLAPS

\* The one name a dataset resolves to.
Name(d) == Lower(GenCollectionNameById(d))

AllStructs == UNION {PersistedStructs(d) : d \in Datasets}

TypeOK ==
    /\ db \in [Datasets -> AllStructs \cup {None}]
    /\ loaded \in [Procs -> Datasets \cup {None}]
    /\ struct \in [Procs -> AllStructs \cup {None}]
    /\ built \in [Procs -> {Name(d) : d \in Datasets} \cup {None}]
    /\ names \in [Datasets -> SUBSET {Name(d) : d \in Datasets}]

\* The strengthening of NameStable: every structure a dataset has, committed
\* or in a session, is one that names it in either case, and every adapter
\* built for it uses its lowered name.
IInv ==
    /\ TypeOK
    /\ \A d \in Datasets : db[d] \in PersistedStructs(d) \cup {None}
    /\ \A p \in Procs :
         /\ loaded[p] = None => built[p] = None
         /\ loaded[p] # None =>
              /\ struct[p] \in PersistedStructs(loaded[p]) \cup {None}
              /\ built[p] \in {Name(loaded[p]), None}
    /\ \A d \in Datasets : names[d] \subseteq {Name(d)}

\* lower() is idempotent on a generated name, so lowering a stored prefix
\* gives the same name whether or not the prefix was lowered before.
LEMMA LowerIdempotent ==
    ASSUME NEW d PROVE Lower(Name(d)) = Name(d)
BY DEF Name, Lower, LowerChar, GenCollectionNameById

\* Both persisted forms of a dataset's structure lower to its name.
LEMMA PrefixLowersToName ==
    ASSUME NEW d, NEW s \in PersistedStructs(d)
    PROVE  Lower(s.prefix) = Name(d)
<1>1. s.prefix \in {GenCollectionNameById(d), Name(d)}
    BY DEF PersistedStructs, Name
<1> QED
    BY <1>1, LowerIdempotent DEF Name

LEMMA InitIInv == Init => IInv
BY DEF Init, IInv, TypeOK, AllStructs

LEMMA NextIInv == IInv /\ [Next]_vars => IInv'
<1> SUFFICES ASSUME IInv, [Next]_vars PROVE IInv'
    OBVIOUS
<1>1. ASSUME NEW p \in Procs, LoadDataset(p) PROVE IInv'
    BY <1>1 DEF LoadDataset, IInv, TypeOK, AllStructs
<1>2. ASSUME NEW p \in Procs, InitVectorFromStruct(p) PROVE IInv'
    <2> DEFINE d == loaded[p]
    <2>1. d \in Datasets /\ struct[p] \in PersistedStructs(d)
        BY <1>2 DEF InitVectorFromStruct, IInv, TypeOK
    <2>2. built' = [built EXCEPT ![p] = Name(d)]
        BY <1>2, <2>1, PrefixLowersToName DEF InitVectorFromStruct
    <2> QED
        BY <1>2, <2>1, <2>2 DEF InitVectorFromStruct, IInv, TypeOK
<1>3. ASSUME NEW p \in Procs, InitVectorDerive(p) PROVE IInv'
    <2> DEFINE d == loaded[p]
    <2>1. d \in Datasets
        BY <1>3 DEF InitVectorDerive, IInv, TypeOK
    <2>2. [type |-> "chroma", prefix |-> Name(d)] \in PersistedStructs(d)
        BY DEF PersistedStructs, Name
    <2>3. /\ built' = [built EXCEPT ![p] = Name(d)]
          /\ struct' = [struct EXCEPT ![p] = [type |-> "chroma", prefix |-> Name(d)]]
          /\ names' = [names EXCEPT ![d] = @ \cup {Name(d)}]
          /\ UNCHANGED <<db, loaded>>
        BY <1>3, <2>1 DEF InitVectorDerive, IInv, TypeOK, Name
    <2>4. TypeOK'
        BY <2>1, <2>2, <2>3 DEF IInv, TypeOK, AllStructs
    <2>5. \A q \in Procs : loaded'[q] # None =>
              /\ struct'[q] \in PersistedStructs(loaded'[q]) \cup {None}
              /\ built'[q] \in {Name(loaded'[q]), None}
        BY <2>1, <2>2, <2>3 DEF IInv, TypeOK
    <2>6. \A e \in Datasets : names'[e] \subseteq {Name(e)}
        <3> SUFFICES ASSUME NEW e \in Datasets PROVE names'[e] \subseteq {Name(e)}
            OBVIOUS
        <3>1. CASE e = d
            BY <2>1, <2>3, <3>1 DEF IInv, TypeOK
        <3>2. CASE e # d
            BY <2>1, <2>3, <3>2 DEF IInv, TypeOK
        <3> QED
            BY <3>1, <3>2
    <2>7. \A q \in Procs : loaded'[q] = None => built'[q] = None
        BY <1>3, <2>3 DEF InitVectorDerive, IInv, TypeOK
    <2>8. \A e \in Datasets : db'[e] \in PersistedStructs(e) \cup {None}
        BY <2>3 DEF IInv
    <2> QED
        BY <2>4, <2>5, <2>6, <2>7, <2>8 DEF IInv
<1>4. ASSUME NEW p \in Procs, Commit(p) PROVE IInv'
    BY <1>4 DEF Commit, IInv, TypeOK
<1>5. ASSUME NEW p \in Procs, Finish(p) PROVE IInv'
    BY <1>5 DEF Finish, IInv, TypeOK
<1>6. CASE UNCHANGED vars
    BY <1>6 DEF vars, IInv, TypeOK
<1> QED
    BY <1>1, <1>2, <1>3, <1>4, <1>5, <1>6 DEF Next

\* NameStable, for every instance: concurrent init_vector calls, before and
\* after either commits, and whichever factory wrote the committed
\* structure, never resolve one dataset to two collection names.
THEOREM NameStableHolds == Spec => []NameStable
<1>1. IInv => NameStable
    BY DEF IInv, NameStable
<1> QED
    BY <1>1, InitIInv, NextIInv, PTL DEF Spec
=============================================================================
