-------------------------------- MODULE Agents --------------------------------
(***************************************************************************)
(* BaseAgent.handle: retrieve, refuse or run a skill, and let a language   *)
(* model polish the draft.  The model is external: it may cite anything    *)
(* and say anything of the escalation, and what it returns is validated.   *)
(***************************************************************************)
EXTENDS Skills

CONSTANT LlmMode   \* "mock" or "openai"

ASSUME LlmAssumption == LlmMode \in {"mock", "openai"}

\* What a model may return: ids (at most two are enough to mix a good one with a
\* bad one) and a target, the draft's own or another.
LlmOutput ==
  [ids : {ids \in SUBSET Document : Cardinality(ids) <= 2}, target : {None, "employee"}]

\* The ids are not compared with those of the chunks.
Grounded_M(output, result, chunks) ==
  output.ids # {} /\ output.target = result.target

\* The output keeps the decision of the draft and cites what it was given.
Grounded(output, result, chunks) ==
  /\ output.ids # {} /\ output.ids \subseteq chunks
  /\ output.target = result.target

\* The draft, or the draft polished with the citations of an accepted output.
\* The model is not asked about an escalated result or without chunks, and any
\* failure of it leaves the draft.
Composed(result, chunks) ==
  {result} \cup
    IF LlmMode = "mock" \/ chunks = {} \/ result.target # None THEN {}
    ELSE {[result EXCEPT !.cites = output.ids] :
            output \in {o \in LlmOutput : Grounded(o, result, chunks)}}

\* The deterministic part: requests for personal data and for invented discounts
\* are refused, and without chunks no skill runs.
Draft(agent, message, text, chunks) ==
  LET words == WordsOf(message)
  IN  IF "forbidden" \in words
      THEN {SkillResult(IF agent = "EMPLOYEE_AGENT" THEN "internal_knowledge" ELSE "customer_faq",
                        "security_owner", NoFields, chunks)}
      ELSE IF "invent a discount" \in words
      THEN {SkillResult("vehicle_selection", "sales_manager", NoFields, chunks)}
      ELSE IF chunks = {}
      THEN {SkillResult("customer_faq", "employee", NoFields, {})}
      ELSE RunSkill(agent, message, text, chunks)

\* The replies an agent can give.  A result without citations cites all chunks.
Replies(agent, message, history) ==
  UNION {{[agent |-> agent, skill |-> r.skill, target |-> r.target, fields |-> r.fields,
           cites |-> IF r.cites = {} THEN chunks ELSE r.cites] :
            r \in UNION {Composed(draft, chunks) :
                           draft \in Draft(agent, message, history \o message, chunks)}} :
         chunks \in Retrieved(agent)}
=============================================================================
