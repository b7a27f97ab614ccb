------------------------- MODULE KnowledgeIndexProofs -------------------------
(***************************************************************************)
(* Theorems about KnowledgeIndex: its composition with ResearchJobs adds   *)
(* nothing to what research jobs do, and what could be retrieved once can  *)
(* always be.                                                              *)
(***************************************************************************)
EXTENDS KnowledgeIndex, ResearchJobsProofs

\* The program with its indexes moves the research jobs only as they move alone.
LEMMA IndexMoves ==
  ASSUME [IndexNext]_allVars
  PROVE  [Next]_vars
BY DEF IndexNext, allVars, Next, RestartIndexed, SyncLoads, SyncWrites, SyncFails

\* Whatever holds of the research jobs alone holds of them beside the indexes.
THEOREM IndexImplementsResearch == IndexSpec => Spec
<1>1. IndexInit => Init
  BY DEF IndexInit
<1>2. [IndexNext]_allVars => [Next]_vars
  BY IndexMoves
<1> QED BY <1>1, <1>2, PTL DEF IndexSpec, Spec

\* Nothing is indexed that is not on disk, and a synchronisation that is under way
\* has read at least what the table holds; only pgvector has a table to synchronise.
IndexInv ==
  /\ syncing.on \in BOOLEAN
  /\ indexed \subseteq Documents
  /\ syncing.on =>
       /\ backend = "pgvector"
       /\ indexed \subseteq syncing.seen /\ syncing.seen \subseteq Documents

\* Every step keeps that, and loses no retrievable document.
LEMMA IndexStep ==
  ASSUME OneReview, Reader = {}, IInv, SoloInv, LoadedInv, IndexInv, [IndexNext]_allVars
  PROVE  IndexInv' /\ Retrievable \subseteq Retrievable'
<1> USE DEF indexVars
<1>1. Documents \subseteq Documents' /\ loaded \subseteq loaded' /\ loaded' \subseteq Documents'
  BY IndexMoves, DocumentsGrow, LoadedStep DEF LoadedInv
<1>2. CASE UNCHANGED indexVars
  BY <1>1, <1>2 DEF IndexInv, Retrievable
<1>3. CASE RestartIndexed
  <2>1. /\ loaded' = Documents /\ Documents' = Documents /\ UNCHANGED <<backend, syncing>>
        /\ indexed' = IF backend = "tfidf" THEN Documents ELSE indexed
    BY <1>3 DEF RestartIndexed, Restart, diskVars, Documents
  <2> QED BY <1>1, <2>1 DEF IndexInv, Retrievable, LoadedInv
<1>4. CASE SyncLoads
  <2>1. /\ syncing' = [on |-> TRUE, seen |-> Documents]
        /\ backend = "pgvector" /\ UNCHANGED <<loaded, files, backend, indexed>>
    BY <1>4 DEF SyncLoads, vars, diskVars
  <2>2. Documents' = Documents
    BY <2>1 DEF Documents
  <2> QED BY <2>1, <2>2 DEF IndexInv, Retrievable
<1>5. CASE SyncWrites
  <2>1. /\ syncing.on /\ indexed' = syncing.seen /\ syncing' = NotReading
        /\ UNCHANGED <<loaded, files, backend>>
    BY <1>5 DEF SyncWrites, vars, diskVars
  <2>2. Documents' = Documents
    BY <2>1 DEF Documents
  <2> QED BY <2>1, <2>2 DEF IndexInv, Retrievable, NotReading
<1>6. CASE SyncFails
  <2>1. syncing' = NotReading /\ UNCHANGED <<loaded, files, backend, indexed>>
    BY <1>6 DEF SyncFails, vars, diskVars
  <2>2. Documents' = Documents
    BY <2>1 DEF Documents
  <2> QED BY <2>1, <2>2 DEF IndexInv, Retrievable, NotReading
<1>7. CASE UNCHANGED allVars
  BY <1>2, <1>7 DEF allVars
<1> QED BY <1>2, <1>3, <1>4, <1>5, <1>6, <1>7 DEF IndexNext

\* With one review and no other reload at a time, no publication, crash or failed
\* synchronisation takes a document back from the retrievers.
THEOREM NothingIsUnlearned ==
  ASSUME OneReview, Reader = {}
  PROVE  IndexSpec => RetrievableIsKept
<1> DEFINE Inv == IInv /\ SoloInv /\ LoadedInv
<1>1. IndexInit => IndexInv
  BY DEF IndexInit, IndexInv, NotReading
<1>2. Inv /\ IndexInv /\ [IndexNext]_allVars => IndexInv'
  BY IndexStep
<1>3. Inv /\ IndexInv /\ [IndexNext]_allVars => [Retrievable \subseteq Retrievable']_allVars
  BY IndexStep
<1>4. Spec => []Inv
  BY LoadedInductive
<1> HIDE DEF Inv
<1> QED
  BY <1>1, <1>2, <1>3, <1>4, IndexImplementsResearch, PTL DEF IndexSpec, RetrievableIsKept
=============================================================================
