------------------------- MODULE MessageCycleProofs -------------------------
(***************************************************************************)
(* Proofs about the conversation-naming model, for every set of user       *)
(* names and annotations and every bound on the other requests.            *)
(***************************************************************************)
EXTENDS MessageCycle, TLAPS

\* Every step leaves a deleted row deleted: the worker's commit guards on the
\* row or writes nothing, and the other requests need the row.
LEMMA NextKeepsDeleted ==
    [Next]_vars => (rowName = NoneValue => rowName' = NoneValue)
<1> SUFFICES ASSUME [Next]_vars, rowName = NoneValue PROVE rowName' = NoneValue
    OBVIOUS
<1>1. CASE WorkerCommit
    BY <1>1 DEF WorkerCommit
<1>2. CASE Rename \/ DeleteConversation
    BY <1>2 DEF Rename, DeleteConversation
<1>3. CASE ~WorkerCommit /\ ~(Rename \/ DeleteConversation)
    BY <1>3 DEF Next, vars, GenerateConversationName, HandleAnnotationReply,
       HandleRetrieverResources, WorkerQuery, WorkerReturns, WorkerGenerate,
       WorkerGenerateFails, WorkerCommitStale, DeleteApp
<1> QED
    BY <1>1, <1>2, <1>3

\* ConversationNotResurrected, for every instance: the naming worker never
\* brings back a conversation another request deleted.
THEOREM NoResurrection == Spec => ConversationNotResurrected
BY NextKeepsDeleted, PTL DEF Spec, ConversationNotResurrected
=============================================================================
