---------------------------- MODULE VectorFactory ----------------------------
(***************************************************************************)
(* ChromaVectorFactory.init_vector (chroma_vector.py, lines 139-160):      *)
(* requests that each load a dataset row, resolve its collection name and, *)
(* for a dataset without an index structure, persist a new one that the   *)
(* caller commits.                                                         *)
(*                                                                         *)
(* Names are sequences of characters.  The dataset id's characters are     *)
(* model values that lower() leaves alone (a UUID is lowercase hex); the   *)
(* letters around it are the ones Dataset.gen_collection_name_by_id        *)
(* writes in upper case.  The JSON of index_struct is abstracted to the    *)
(* record it encodes (json.dumps and index_struct_dict round-trip it).     *)
(***************************************************************************)
EXTENDS Naturals, Sequences

CONSTANTS
    Procs,      \* concurrent requests
    Datasets,   \* dataset ids
    None        \* no index structure / no dataset loaded

VARIABLES
    db,         \* db[d]: the committed index_struct of dataset d, or None
    loaded,     \* loaded[p]: the dataset p's session loaded, or None
    struct,     \* struct[p]: index_struct of p's in-session dataset object
    built,      \* built[p]: the collection name of p's adapter, or None
    names       \* names[d]: every collection name an adapter for d was built with

vars == <<db, loaded, struct, built, names>>

\* str.lower() on the upper-case letters of generated names; the other
\* characters are left alone.
LowerChar(c) ==
    CASE c = "V" -> "v"
      [] c = "N" -> "n"
      [] OTHER   -> c
Lower(s) == [j \in DOMAIN s |-> LowerChar(s[j])]

\* Dataset.gen_collection_name_by_id: "Vector_index_" + id + "_Node", with
\* the fixed text reduced to its upper-case letters.
GenCollectionNameById(d) == <<"V", d, "N">>

\* A structure written by another backend's factory keeps the generated
\* name's case; ChromaVectorFactory writes the lowered one.
PersistedStructs(d) ==
    {[type |-> "other", prefix |-> GenCollectionNameById(d)],
     [type |-> "chroma", prefix |-> Lower(GenCollectionNameById(d))]}

Init ==
    /\ db \in {f \in [Datasets -> UNION {PersistedStructs(d) : d \in Datasets} \cup {None}] :
              \A d \in Datasets : f[d] \in PersistedStructs(d) \cup {None}}
    /\ loaded = [p \in Procs |-> None]
    /\ struct = [p \in Procs |-> None]
    /\ built = [p \in Procs |-> None]
    /\ names = [d \in Datasets |-> {}]

\* The request queries the dataset row (before init_vector).
LoadDataset(p) ==
    /\ loaded[p] = None
    /\ \E d \in Datasets :
         /\ loaded' = [loaded EXCEPT ![p] = d]
         /\ struct' = [struct EXCEPT ![p] = db[d]]
    /\ UNCHANGED <<db, built, names>>

\* init_vector on a dataset with an index structure: class_prefix.lower().
InitVectorFromStruct(p) ==
    /\ loaded[p] # None /\ built[p] = None
    /\ struct[p] # None
    /\ built' = [built EXCEPT ![p] = Lower(struct[p].prefix)]
    /\ names' = [names EXCEPT ![loaded[p]] = @ \cup {built'[p]}]
    /\ UNCHANGED <<db, loaded, struct>>

\* Mutant: the derived name used and persisted without lower().
InitVectorDeriveNoLower(p) ==
    /\ loaded[p] # None /\ built[p] = None
    /\ struct[p] = None
    /\ built' = [built EXCEPT ![p] = GenCollectionNameById(loaded[p])]
    /\ struct' = [struct EXCEPT ![p] = [type |-> "chroma", prefix |-> built'[p]]]
    /\ names' = [names EXCEPT ![loaded[p]] = @ \cup {built'[p]}]
    /\ UNCHANGED <<db, loaded>>

\* init_vector on a dataset without one: derive the name from the id, lower
\* it, and set dataset.index_struct to {type: chroma, class_prefix: name}.
InitVectorDerive(p) ==
    /\ loaded[p] # None /\ built[p] = None
    /\ struct[p] = None
    /\ built' = [built EXCEPT ![p] = Lower(GenCollectionNameById(loaded[p]))]
    /\ struct' = [struct EXCEPT ![p] = [type |-> "chroma", prefix |-> built'[p]]]
    /\ names' = [names EXCEPT ![loaded[p]] = @ \cup {built'[p]}]
    /\ UNCHANGED <<db, loaded>>

\* The caller commits its session: a dirty index_struct is written.
Commit(p) ==
    /\ built[p] # None
    /\ struct[p] # db[loaded[p]]
    /\ db' = [db EXCEPT ![loaded[p]] = struct[p]]
    /\ UNCHANGED <<loaded, struct, built, names>>

\* The request ends (with or without committing); its session is closed.
Finish(p) ==
    /\ built[p] # None
    /\ loaded' = [loaded EXCEPT ![p] = None]
    /\ struct' = [struct EXCEPT ![p] = None]
    /\ built' = [built EXCEPT ![p] = None]
    /\ UNCHANGED <<db, names>>

Next == \E p \in Procs :
          \/ LoadDataset(p) \/ InitVectorFromStruct(p) \/ InitVectorDerive(p)
          \/ Commit(p) \/ Finish(p)

Spec == Init /\ [][Next]_vars

-----------------------------------------------------------------------------
\* Spec 3 and 8: a dataset always resolves to the same collection, across
\* concurrent requests, before and after the new index structure is
\* committed, and whichever backend's factory wrote it.
NameStable == \A d \in Datasets : \A n1, n2 \in names[d] : n1 = n2
=============================================================================
