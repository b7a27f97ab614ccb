------------------------------ MODULE ModelRouter ------------------------------
(***************************************************************************)
(* ModelRouter.decide: the deterministic gate every message passes before  *)
(* anything answers it.  Requests for a person and requests that commit    *)
(* the company go to people; the domain keys choose an agent.              *)
(***************************************************************************)
EXTENDS Messages

DomainKeys == [
  SALES_AGENT    |-> {"buy", "acquire", "terms of purchase", "car", "nova", "credit",
                      "leasing", "trade-in", "test drive"},
  SUPPORT_AGENT  |-> {"order", "refund", "status", "document", "contract"},
  SERVICE_AGENT  |-> {"warranty", "repair", "maintenance"},
  EMPLOYEE_AGENT |-> {"internal", "regulation", "report", "sales script", "head",
                      "competitor", "check document"}]

HumanMarkers == {"human", "to the manager"}

\* In the order they are tried: what the text asks for, and who approves it.
HighRiskRules == <<
  [words |-> {"financial commitment", "approve credit"}, target |-> "sales_manager"],
  [words |-> {"warranty dispute"},                       target |-> "service_manager"],
  [words |-> {"external change"},                        target |-> "support_operator"] >>

HumanTarget(active) ==
  CASE active = "SALES_AGENT"    -> "sales_manager"
    [] active = "SERVICE_AGENT"  -> "service_manager"
    [] active = "SUPPORT_AGENT"  -> "support_operator"
    [] active = "EMPLOYEE_AGENT" -> "department_manager"
    [] OTHER                     -> "human_operator"

DomainScore(m, a) == Cardinality(m.says \cap DomainKeys[a])

RouterDecision(route, agent, target) == [route |-> route, agent |-> agent, target |-> target]

\* The risk rules are left to the model that classifies the rest.
Decide_M(m, active) ==
  LET matched == {a \in Agent : DomainScore(m, a) > 0}
  IN  IF Says(m, HumanMarkers) THEN RouterDecision("human", None, HumanTarget(active))
      ELSE IF Cardinality(matched) = 1
           THEN RouterDecision("simple_model", CHOOSE a \in matched : TRUE, None)
      ELSE RouterDecision("complex_model", active, None)

Decide(m, active) ==
  LET risk    == SelectInSeq(HighRiskRules, LAMBDA rule : Says(m, rule.words))
      matched == {a \in Agent : DomainScore(m, a) > 0}
      best    == {a \in matched : \A b \in matched \ {a} : DomainScore(m, a) > DomainScore(m, b)}
  IN  IF Says(m, HumanMarkers) THEN RouterDecision("human", None, HumanTarget(active))
      ELSE IF risk # 0 THEN RouterDecision("human", None, HighRiskRules[risk].target)
      ELSE IF m.phrase = "ambiguous" THEN RouterDecision("clarify", None, None)
      ELSE IF Cardinality(matched) > 1
           THEN RouterDecision("complex_model", IF best = {} THEN None ELSE CHOOSE a \in best : TRUE, None)
      ELSE IF matched # {} THEN RouterDecision("simple_model", CHOOSE a \in matched : TRUE, None)
      ELSE IF active # None THEN RouterDecision("skill", active, None)
      ELSE RouterDecision("complex_model", None, None)
=============================================================================
