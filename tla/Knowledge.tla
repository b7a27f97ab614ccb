------------------------------- MODULE Knowledge -------------------------------
(***************************************************************************)
(* The knowledge base the assistants answer from, and what a retriever may *)
(* give to whom.  How well a document fits a question (TF-IDF or cosine    *)
(* similarity, section boosts, thresholds) is not modelled: any documents  *)
(* the agent may see, up to TopK, can be the ones that pass.               *)
(***************************************************************************)
EXTENDS Integers, FiniteSets

CONSTANTS
  Document,   \* ids of the documents that are loaded and indexed
  SectionOf,  \* SectionOf[d]: the section d was filed under
  OwnerOf,    \* OwnerOf[d]: the agent d is reserved for, Anyone for null
  TopK        \* rag_top_k

Anyone == "anyone"
Shared == {"conversation", "company", "scripts", "policies", "glossary"}

SectionAccess == [
  SALES_AGENT    |-> Shared \cup {"faq", "legal", "sales", "finance"},
  SUPPORT_AGENT  |-> Shared \cup {"faq", "legal", "customer_support"},
  SERVICE_AGENT  |-> Shared \cup {"faq", "legal", "service"},
  EMPLOYEE_AGENT |-> Shared \cup {"faq", "legal", "sales", "customer_support", "service",
                                  "finance", "internal"},
  ORCHESTRATOR   |-> Shared]

Section == UNION {SectionAccess[a] : a \in DOMAIN SectionAccess}

ASSUME KnowledgeAssumption ==
  /\ SectionOf \in [Document -> Section]
  /\ OwnerOf \in [Document -> DOMAIN SectionAccess \cup {Anyone}]
  /\ TopK \in Nat \ {0}
  /\ IsFiniteSet(Document)

\* The agent a document is reserved for is not looked at.
ForAgent_M(a) == {d \in Document : SectionOf[d] \in Section \ {"conversation"}}

ForAgent(a) ==
  {d \in Document : SectionOf[d] \in SectionAccess[a] /\ OwnerOf[d] \in {Anyone, a}}

\* What a retrieval for an agent can return, with either retriever.
Retrieved(a) == {chunks \in SUBSET ForAgent(a) : Cardinality(chunks) <= TopK}
=============================================================================
