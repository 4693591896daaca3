---------------------------- MODULE MessageCycle ----------------------------
(***************************************************************************)
(* MessageCycleManager (message_cycle_manager.py) for one message of one   *)
(* conversation: the pipeline thread, which may start the naming worker    *)
(* (generate_conversation_name) and handles the annotation-reply and       *)
(* retriever-resources events, and the worker thread                       *)
(* (_generate_conversation_name_worker), which reads the conversation in   *)
(* its own session, asks the LLM for a name and merges and commits it.     *)
(* Other requests (the rename and delete APIs, app deletion) commit in     *)
(* their own sessions at any time; they are the environment.               *)
(***************************************************************************)
EXTENDS Naturals

CONSTANTS
    Initial,     \* the name a new conversation is created with
    Generated,   \* the name the LLM returns
    UserNames,   \* names other requests may set
    Annotations, \* annotation ids an annotation-reply event may carry
    NoneValue,   \* Python None
    MaxEnv       \* bound on the environment's commits

ASSUME MessageCycleAssumption ==
    /\ MaxEnv \in Nat
    /\ {Initial, Generated, NoneValue} \cap UserNames = {}
    /\ Initial # Generated /\ Generated # NoneValue

EntityKinds == {"completion", "chat", "agent_chat", "advanced_chat"}

VARIABLES
    entity,     \* the application generate entity: [kind, first, auto]
    rowName,    \* conversation.name as committed, or NoneValue: no row
    appExists,  \* conversation.app resolves to an App
    wpc,        \* the worker thread: "none", "query", "llm", "commit", "done"
    wsName,     \* the name on the worker session's conversation object
    dirty,      \* that object's name was assigned since it was loaded
    metadata,   \* task_state.metadata: [annotation_reply, retriever_resources]
    env         \* commits by other requests so far

vars == <<entity, rowName, appExists, wpc, wsName, dirty, metadata, env>>

Entities == [kind : EntityKinds, first : BOOLEAN, auto : BOOLEAN]

\* The conversation's mode follows its app: completion apps get completion
\* conversations.
Mode == IF entity.kind = "completion" THEN "completion" ELSE "chat"

\* A message is being generated: its entity is fixed, and a conversation row
\* exists (the pipeline runs for a conversation that has been created).
Init ==
    /\ entity \in Entities
    /\ rowName = Initial
    /\ appExists = TRUE
    /\ wpc = "none"
    /\ wsName = NoneValue
    /\ dirty = FALSE
    /\ metadata = [annotation_reply |-> NoneValue, retriever_resources |-> FALSE]
    /\ env = 0

(***************************************************************************)
(* The pipeline thread.                                                    *)
(***************************************************************************)

\* generate_conversation_name: no worker for a completion app, for a message
\* of an existing conversation, or with auto naming turned off.
GenerateConversationName ==
    /\ wpc = "none"
    /\ entity.kind # "completion"
    /\ entity.first /\ entity.auto
    /\ wpc' = "query"
    /\ UNCHANGED <<entity, rowName, appExists, wsName, dirty, metadata, env>>

\* handle_annotation_reply: set the reply when the annotation is found
\* (the account name falls back to "Dify user": not modelled).
HandleAnnotationReply ==
    /\ \E a \in Annotations \cup {NoneValue} :
         metadata' = IF a # NoneValue THEN [metadata EXCEPT !.annotation_reply = a]
                     ELSE metadata
    /\ UNCHANGED <<entity, rowName, appExists, wpc, wsName, dirty, env>>

\* handle_retriever_resources: copied only when show_retrieve_source is on.
HandleRetrieverResources ==
    /\ \E show \in BOOLEAN :
         metadata' = IF show THEN [metadata EXCEPT !.retriever_resources = TRUE]
                     ELSE metadata
    /\ UNCHANGED <<entity, rowName, appExists, wpc, wsName, dirty, env>>

(***************************************************************************)
(* The worker thread, inside flask_app.app_context().                      *)
(***************************************************************************)

\* The query by id finds the row, of a non-completion conversation whose
\* app still exists.
WorkerQuery ==
    /\ wpc = "query"
    /\ rowName # NoneValue /\ Mode # "completion" /\ appExists
    /\ wsName' = rowName
    /\ wpc' = "llm"
    /\ UNCHANGED <<entity, rowName, appExists, dirty, metadata, env>>

\* "if not conversation: return", "if not app_model: return", or a
\* completion conversation: the worker ends without a write.
WorkerReturns ==
    /\ wpc = "query"
    /\ ~(rowName # NoneValue /\ Mode # "completion" /\ appExists)
    /\ wpc' = "done"
    /\ UNCHANGED <<entity, rowName, appExists, wsName, dirty, metadata, env>>

\* LLMGenerator.generate_conversation_name, then conversation.name = name.
WorkerGenerate ==
    /\ wpc = "llm"
    /\ wsName' = Generated
    /\ dirty' = TRUE
    /\ wpc' = "commit"
    /\ UNCHANGED <<entity, rowName, appExists, metadata, env>>

\* The LLM call raises: the exception is swallowed, the object is untouched.
WorkerGenerateFails ==
    /\ wpc = "llm"
    /\ wpc' = "commit"
    /\ UNCHANGED <<entity, rowName, appExists, wsName, dirty, metadata, env>>

\* db.session.merge(conversation); db.session.commit(): the flush writes an
\* assigned name over whatever is committed, and nothing for a clean object.
WorkerCommit ==
    /\ wpc = "commit"
    /\ rowName # NoneValue \/ ~dirty
    /\ rowName' = IF dirty THEN wsName ELSE rowName
    /\ wpc' = "done"
    /\ UNCHANGED <<entity, appExists, wsName, dirty, metadata, env>>

\* Mutant: the worker's object re-inserted, as merge does for an object the
\* session does not know, instead of the UPDATE failing.
WorkerCommitResurrects ==
    /\ wpc = "commit"
    /\ dirty /\ rowName = NoneValue
    /\ rowName' = wsName
    /\ wpc' = "done"
    /\ UNCHANGED <<entity, appExists, wsName, dirty, metadata, env>>

\* The UPDATE of a row deleted since the query matches no row: the flush
\* raises StaleDataError and the thread ends with nothing written.
WorkerCommitStale ==
    /\ wpc = "commit"
    /\ dirty /\ rowName = NoneValue
    /\ wpc' = "done"
    /\ UNCHANGED <<entity, rowName, appExists, wsName, dirty, metadata, env>>

(***************************************************************************)
(* Other requests.                                                         *)
(***************************************************************************)

\* The rename API commits a name chosen by the user.
Rename ==
    /\ env < MaxEnv /\ rowName # NoneValue
    /\ \E n \in UserNames : rowName' = n
    /\ env' = env + 1
    /\ UNCHANGED <<entity, appExists, wpc, wsName, dirty, metadata>>

\* The conversation row is deleted.
DeleteConversation ==
    /\ env < MaxEnv /\ rowName # NoneValue
    /\ rowName' = NoneValue
    /\ env' = env + 1
    /\ UNCHANGED <<entity, appExists, wpc, wsName, dirty, metadata>>

\* The app is deleted: conversation.app becomes None.
DeleteApp ==
    /\ env < MaxEnv /\ appExists
    /\ appExists' = FALSE
    /\ env' = env + 1
    /\ UNCHANGED <<entity, rowName, wpc, wsName, dirty, metadata>>

Next ==
    \/ GenerateConversationName \/ HandleAnnotationReply \/ HandleRetrieverResources
    \/ WorkerQuery \/ WorkerReturns \/ WorkerGenerate \/ WorkerGenerateFails
    \/ WorkerCommit \/ WorkerCommitStale
    \/ Rename \/ DeleteConversation \/ DeleteApp

Spec == Init /\ [][Next]_vars

-----------------------------------------------------------------------------
\* A conversation deleted by another request stays deleted: the worker's
\* merge and commit of the object it loaded before the delete never bring
\* the row back (the flush's UPDATE matches no row and raises).
ConversationNotResurrected ==
    [][rowName = NoneValue => rowName' = NoneValue]_vars
=============================================================================
