--------------------------- MODULE MCKnowledgeIndex ---------------------------
(***************************************************************************)
(* An instance of KnowledgeIndex small enough for TLC, and all short texts *)
(* for Chunking.                                                           *)
(***************************************************************************)
EXTENDS KnowledgeIndex, Chunking, TLC

CONSTANTS j1, r1, d1

OneJob       == {j1}
OneReviewer  == {r1}
NoReader     == {}
OneDraft     == {d1}
Either       == {TRUE, FALSE}
BothBackends == {"tfidf", "pgvector"}

\* chunk_document covers every text of up to seven characters, wherever its
\* separators are.
ASSUME ShortTexts == \A text \in Texts(1..7) : ChunksAreSound(text)
=============================================================================
