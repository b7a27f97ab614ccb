---------------------------- MODULE KnowledgeIndex ----------------------------
(***************************************************************************)
(* From approved research to the answers of the employees' agent: the      *)
(* indexes of the two retrievers over the documents that ResearchJobs      *)
(* publishes.  The TF-IDF index is built when the process starts and never *)
(* again; the pgvector table is rebuilt by scripts/index_knowledge.py, a   *)
(* process of its own that may run at any time.                            *)
(***************************************************************************)
EXTENDS ResearchJobs

CONSTANT Backends   \* rag_backend: one choice per deployment

ASSUME BackendAssumption == Backends \in (SUBSET {"tfidf", "pgvector"}) \ {{}}

VARIABLES
  backend,
  indexed,  \* documents with tokens in the process, or with rows in knowledge_chunks
  syncing   \* what the indexing script has loaded

indexVars == <<backend, indexed, syncing>>
allVars   == <<vars, indexVars>>

IndexInit ==
  /\ Init
  /\ backend \in Backends
  /\ indexed = {}
  /\ syncing = NotReading

\* The retriever is built with the process.
RestartIndexed ==
  /\ Restart
  /\ indexed' = IF backend = "tfidf" THEN Documents ELSE indexed
  /\ UNCHANGED <<backend, syncing>>

\* The script loads the knowledge base, cuts it into chunks and has them embedded.
SyncLoads ==
  /\ backend = "pgvector"
  /\ syncing = NotReading
  /\ AllWhole
  /\ syncing' = [on |-> TRUE, seen |-> Documents]
  /\ UNCHANGED <<vars, backend, indexed>>

\* One transaction deletes all rows and inserts what was loaded.
SyncWrites ==
  /\ syncing.on
  /\ indexed' = syncing.seen
  /\ syncing' = NotReading
  /\ UNCHANGED <<vars, backend>>

\* The deletion is a transaction of its own.
SyncFails_M ==
  /\ syncing.on
  /\ indexed' = {}
  /\ syncing' = NotReading
  /\ UNCHANGED <<vars, backend>>

\* An embedding, a vector of the wrong shape or the database raises, or the script
\* is killed.
SyncFails ==
  /\ syncing.on
  /\ syncing' = NotReading
  /\ UNCHANGED <<vars, backend, indexed>>

IndexNext ==
  \/ Serve /\ UNCHANGED indexVars
  \/ RestartIndexed
  \/ SyncLoads \/ SyncWrites \/ SyncFails

IndexSpec == IndexInit /\ [][IndexNext]_allVars /\ Fairness

------------------------------------------------------------------------------
(* Properties *)

\* What a retrieval can return: TF-IDF scores the documents in memory by their
\* tokens, pgvector reads the table alone.
Retrievable == IF backend = "tfidf" THEN loaded \cap indexed ELSE indexed

\* What the assistants could once retrieve stays retrievable: no publication, no
\* reload, no crash and no failed synchronisation takes it back.  It takes one
\* reload and one synchronisation at a time.
RetrievableIsKept == [][Retrievable \subseteq Retrievable']_allVars
=============================================================================
