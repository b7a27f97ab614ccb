-------------------------------- MODULE Skills --------------------------------
(***************************************************************************)
(* The eighteen skills: how an agent selects one for a message, what the   *)
(* skill collects from the dialogue, which documents it cites and whom it  *)
(* hands over to.  The wording of a reply is not modelled.                 *)
(*                                                                         *)
(* "message" is the text an agent handles (the question, preceded by the   *)
(* earlier one if it was enriched), "text" the user's side of the whole    *)
(* dialogue followed by that message, "chunks" what was retrieved.         *)
(***************************************************************************)
EXTENDS ModelRouter, Knowledge

CONSTANT Catalog   \* models of sales-models: [name, bodies, price]

NovaModel == {"Comfort", "Drive", "Cargo", "Classic"}

NoFields == [name |-> <<>>, phone |-> <<>>, vehicle |-> None, lead |-> FALSE]

\* What can be read off a dialogue made of the messages M.
Pieces(M) == UNION {ToSet(m.text) : m \in M}
FieldsFrom(M) ==
  [name : Seq(Pieces(M)), phone : Seq(Pieces(M)), lead : BOOLEAN,
   vehicle : {None} \cup NovaModel \cup {model.name : model \in Catalog}]

\* target is the escalation target; a result is escalated if it has one.
SkillResult(skill, target, fields, cites) ==
  [skill |-> skill, target |-> target, fields |-> fields, cites |-> cites]

\* Whom a skill, or an agent that runs none, hands over to.
Specialist ==
  {"employee", "security_owner", "sales_manager", "finance_specialist", "support_specialist",
   "service_engineer", "service_advisor", "department_manager"}

------------------------------------------------------------------------------
\* Selection

SkillsOf == [
  SALES_AGENT    |-> <<"vehicle_selection", "trade_in", "credit_leasing", "test_drive_booking">>,
  SUPPORT_AGENT  |-> <<"order_status", "documentation_support", "customer_faq",
                       "support_escalation">>,
  SERVICE_AGENT  |-> <<"warranty_consultation", "service_booking", "maintenance_consultation",
                       "service_escalation">>,
  EMPLOYEE_AGENT |-> <<"internal_knowledge", "sales_coaching", "process_lookup",
                       "manager_escalation", "competitor_research", "document_processing">>]

Keywords == [
  vehicle_selection        |-> {"buy", "pick", "car", "van", "budget", "million"},
  trade_in                 |-> {"trade-in", "exchange"},
  credit_leasing           |-> {"credit", "leasing"},
  test_drive_booking       |-> {"test drive"},
  order_status             |-> {"status"},
  documentation_support    |-> {"document", "contract"},
  customer_faq             |-> {"refund", "question"},
  support_escalation       |-> {"specialist", "human"},
  warranty_consultation    |-> {"warranty", "rust"},
  service_booking          |-> {"book", "repair"},
  maintenance_consultation |-> {"maintenance", "regulation"},
  service_escalation       |-> {"engineer", "confirm warranty"},
  internal_knowledge       |-> {"internal", "rules", "forbidden"},
  sales_coaching           |-> {"sales script", "script"},
  process_lookup           |-> {"regulation", "leave a request"},
  manager_escalation       |-> {"head"},
  competitor_research      |-> {"competitor"},
  document_processing      |-> {"check document"}]

Skill == DOMAIN Keywords

DefaultSkill == [SALES_AGENT |-> "vehicle_selection", SUPPORT_AGENT |-> "customer_faq",
                 SERVICE_AGENT |-> "maintenance_consultation",
                 EMPLOYEE_AGENT |-> "internal_knowledge"]

MatchScore(skill, text) == Cardinality(Keywords[skill] \cap WordsOf(text))

\* The first of the agent's skills with the most keywords in the text.
BestSkill(agent, text) ==
  LET skills == SkillsOf[agent]
  IN  skills[SelectInSeq(skills, LAMBDA s : \A t \in ToSet(skills) :
                                   MatchScore(t, text) <= MatchScore(s, text))]

Select(agent, message, text) ==
  IF MatchScore(BestSkill(agent, message), message) > 0 THEN BestSkill(agent, message)
  ELSE IF MatchScore(BestSkill(agent, text), text) > 0 THEN BestSkill(agent, text)
  ELSE DefaultSkill[agent]

------------------------------------------------------------------------------
\* Which of the retrieved documents a reply quotes

AnswerSections == Section \ {"glossary"}

SkillSections == [
  vehicle_selection |-> <<"sales">>, trade_in |-> <<"sales">>,
  credit_leasing |-> <<"finance", "faq">>, test_drive_booking |-> <<"sales">>,
  order_status |-> <<>>, documentation_support |-> <<"customer_support", "faq">>,
  customer_faq |-> <<"faq", "customer_support", "company">>,
  warranty_consultation |-> <<"service", "faq">>, service_booking |-> <<"service">>,
  maintenance_consultation |-> <<"service", "faq">>,
  internal_knowledge |-> <<"internal", "legal", "policies">>,
  sales_coaching |-> <<"scripts", "sales">>, process_lookup |-> <<"internal", "scripts">>]

IndexOf(seq, e) == SelectInSeq(seq, LAMBDA x : x = e)

\* Preferred ids come first, then the skill's own sections in their order.
RankOf(d, skill, prefer) ==
  LET id      == IndexOf(prefer, d)
      section == IndexOf(SkillSections[skill], SectionOf[d])
  IN  100 * (IF id = 0 THEN 100 ELSE id)
      + (IF section # 0 THEN section ELSE IF SectionOf[d] \in AnswerSections THEN 50 ELSE 99)

\* The picks that some scores could produce: at most limit documents, none of
\* them outranked by one that was left out.
Picks(chunks, skill, limit, prefer) ==
  LET answering == {d \in chunks : d \in ToSet(prefer) \/ SectionOf[d] \in AnswerSections}
      pool      == IF answering = {} THEN chunks ELSE answering
  IN  {picked \in SUBSET pool :
         /\ Cardinality(picked) <= limit
         /\ Cardinality(picked) = limit \/ picked = pool
         /\ \A d \in picked, e \in pool \ picked :
              RankOf(d, skill, prefer) <= RankOf(e, skill, prefer)}

Quote(chunks, skill, limit, prefer, target, fields) ==
  {SkillResult(skill, target, fields, picked) : picked \in Picks(chunks, skill, limit, prefer)}

------------------------------------------------------------------------------
\* What is read off the dialogue

\* The length of a stretch of numbers, counting one character between them.
Characters(run) == FoldSeq(LAMBDA n, width : Width[n] + 1 + width, -1, run)

\* A stretch of numbers that nothing interrupts, with the plus it may have, is a
\* telephone if it has eleven characters.
IsRun(t, i, j) ==
  /\ \A k \in i..j : t[k] \in Number
  /\ i > 1 => t[i - 1] \notin Number
  /\ j < Len(t) => t[j + 1] \notin Number
  /\ Characters(SubSeq(t, i, j)) >= 11

Telephones(t) == {i \in DOMAIN t : \E j \in i..Len(t) : IsRun(t, i, j)}

TelephoneAt(t, i) ==
  SubSeq(t, IF i > 1 /\ t[i - 1] = "+" THEN i - 1 ELSE i,
            CHOOSE j \in i..Len(t) : IsRun(t, i, j))

\* The newest number wins.
Phone_M(text) ==
  LET t == Joined(text)
  IN  IF Telephones(t) = {} THEN <<>> ELSE TelephoneAt(t, Max(Telephones(t)))

Phone(text) ==
  LET t == Joined(text)
  IN  IF Telephones(t) = {} THEN <<>> ELSE TelephoneAt(t, Min(Telephones(t)))

\* A name is a word right after "name", "full name" or "me called", and up to two
\* more, or else one word between "I" or "client" and a mark or "telephone".
LeadIn(t, i) == IF i > 1 /\ t[i - 1] = ":" THEN i - 2 ELSE i - 1

Introduced(t) ==
  {i \in DOMAIN t : LET l == LeadIn(t, i) IN
     /\ t[i] \in Word
     /\ l >= 1
     /\ t[l] \in {"name", "full name"} \/ (l > 1 /\ t[l] = "called" /\ t[l - 1] = "me")}

Mentioned(t) ==
  {i \in DOMAIN t : LET l == LeadIn(t, i) IN
     /\ t[i] \in Word
     /\ l >= 1
     /\ t[i - 1] \in EndsInYa \/ t[l] = "client"
     /\ i < Len(t) /\ t[i + 1] \in {".", "telephone"}}

NameAt(t, i) ==
  SubSeq(t, i, Max({j \in i..Len(t) : j <= i + 2 /\ \A k \in i..j : t[k] \in Word}))

CustomerName(text) ==
  LET t == Joined(text)
  IN  IF Introduced(t) # {} THEN NameAt(t, Min(Introduced(t)))
      ELSE IF Mentioned(t) # {} THEN <<t[Min(Mentioned(t))]>> ELSE <<>>

Vehicle(text) ==
  LET t     == Joined(text)
      named == {i \in 2..Len(t) : t[i - 1] = "nova" /\ t[i] \in NovaModel}
  IN  IF named = {} THEN None ELSE t[Min(named)]

BodyType(text) == LastGiven(text, "body", None)

\* A number without a unit is a budget while nothing has been said after it.
Budget(text) ==
  LET counts == SelectSeq(Front(text), LAMBDA m : ~m.bare) \o <<Last(text)>>
  IN  LastGiven(counts, "budget", 0)

LeadRequested(text) == {"leave a request", "to the manager"} \cap WordsOf(text) # {}

OffCatalog(m) == "parts" \in m.says

LooksLikeVehicleQuery(m) ==
  ~OffCatalog(m) /\ Says(m, {"buy", "pick", "car", "van", "nova", "budget"})

ModelMatches(model, body, budget) ==
  /\ body = None \/ body \in model.bodies
  /\ budget = 0 \/ model.price <= budget

Contact(text) ==
  [NoFields EXCEPT !.phone = Phone(text), !.vehicle = Vehicle(text)]

\* A constraint selects the model if only one fits it.
SelectionFields(utterance, text) ==
  LET body   == BodyType(text)
      budget == Budget(text)
      fits   == {model \in Catalog : ModelMatches(model, body, budget)}
      asked  == body # None \/ budget # 0
      single == asked /\ Cardinality(fits) = 1
  IN  IF asked \/ LooksLikeVehicleQuery(utterance)
      THEN [name    |-> CustomerName(text), phone |-> Phone(text), lead |-> LeadRequested(text),
            vehicle |-> IF single THEN (CHOOSE model \in fits : TRUE).name ELSE Vehicle(text)]
      ELSE NoFields

------------------------------------------------------------------------------
\* Sales

VehicleSelection(message, text, chunks) ==
  LET utterance == Last(message)
      inCatalog == \/ "sales-models" \in chunks
                   \/ LooksLikeVehicleQuery(utterance) /\ "sales-models" \in Document
      Cite(d)   == {SkillResult("vehicle_selection", None, NoFields, {d} \cap Document)}
  IN  IF OffCatalog(utterance) THEN Cite("conversation-parts")
      ELSE IF "terms of purchase" \in utterance.says
           THEN IF "sales-purchase-conditions" \in Document THEN Cite("sales-purchase-conditions")
                ELSE {SkillResult("vehicle_selection", "sales_manager", NoFields, {})}
      ELSE IF inCatalog
           THEN {SkillResult("vehicle_selection", None, SelectionFields(utterance, text),
                             {"sales-models"})}
      ELSE Quote(chunks, "vehicle_selection", 2, <<"sales-models">>, None, NoFields)

TradeIn(message, text, chunks) ==
  Quote(chunks, "trade_in", 2, <<>>, None, [NoFields EXCEPT !.vehicle = Vehicle(text)])

\* No decision is taken for the customer: a request to decide goes to a specialist.
CreditLeasing(message, text, chunks) ==
  LET words   == WordsOf(text)
      leasing == IF "leasing" \in words THEN <<"finance-leasing">> ELSE <<>>
      credit  == IF "credit" \in words THEN <<"finance-credit", "faq-sales-credit">> ELSE <<>>
      prefer  == IF leasing \o credit # <<>> THEN leasing \o credit
                 ELSE <<"finance-credit", "finance-leasing", "faq-sales-credit">>
      decide  == {"contract", "approve credit"} \cap WordsOf(message) # {}
  IN  Quote(chunks, "credit_leasing", 1, prefer, IF decide THEN "finance_specialist" ELSE None,
            [NoFields EXCEPT !.vehicle = Vehicle(text)])

TestDriveBooking(message, text, chunks) ==
  LET complete == Phone(text) # <<>> /\ Vehicle(text) # None
  IN  Quote(chunks, "test_drive_booking", 2, <<>>, IF complete THEN "sales_manager" ELSE None,
            Contact(text))

\* Support

\* The two orders of the demonstration are known, any other number is not.
OrderStatus(message, text, chunks) ==
  LET known == "unknown order" \notin WordsOf(message)
  IN  Quote(chunks, "order_status", 1, <<"support-orders">>,
            IF known THEN None ELSE "support_specialist", NoFields)

DocumentationSupport(message, text, chunks) ==
  Quote(chunks, "documentation_support", 1, <<"support-documents">>, None, NoFields)

CustomerFaq(message, text, chunks) ==
  Quote(chunks, "customer_faq", 2, <<>>, None, NoFields)

SupportEscalation(message, text, chunks) ==
  {SkillResult("support_escalation", "support_specialist", NoFields, chunks)}

\* Service

\* A warranty case is confirmed by an engineer, never by the assistant.
WarrantyConsultation(message, text, chunks) ==
  Quote(chunks, "warranty_consultation", 1, <<>>,
        IF "confirm warranty" \in WordsOf(message) THEN "service_engineer" ELSE None, NoFields)

ServiceBooking(message, text, chunks) ==
  Quote(chunks, "service_booking", 1, <<>>,
        IF Phone(text) # <<>> THEN "service_advisor" ELSE None, Contact(text))

MaintenanceConsultation(message, text, chunks) ==
  Quote(chunks, "maintenance_consultation", 1, <<>>, None, NoFields)

ServiceEscalation(message, text, chunks) ==
  {SkillResult("service_escalation", "service_engineer", NoFields, chunks)}

\* Employee

InternalKnowledge(message, text, chunks) ==
  Quote(chunks, "internal_knowledge", 2, <<>>, None, NoFields)

SalesCoaching(message, text, chunks) ==
  Quote(chunks, "sales_coaching", 2, <<>>, None, NoFields)

ProcessLookup(message, text, chunks) ==
  Quote(chunks, "process_lookup", 2, <<>>, None, NoFields)

ManagerEscalation(message, text, chunks) ==
  {SkillResult("manager_escalation", "department_manager", NoFields, chunks)}

CompetitorResearch(message, text, chunks) ==
  {SkillResult("competitor_research", None, NoFields, chunks)}

DocumentProcessing(message, text, chunks) ==
  {SkillResult("document_processing", None, NoFields, chunks)}

------------------------------------------------------------------------------
\* The handler a skill is registered with.
Handler(skill, message, text, chunks) ==
  CASE skill = "vehicle_selection"        -> VehicleSelection(message, text, chunks)
    [] skill = "trade_in"                 -> TradeIn(message, text, chunks)
    [] skill = "credit_leasing"           -> CreditLeasing(message, text, chunks)
    [] skill = "test_drive_booking"       -> TestDriveBooking(message, text, chunks)
    [] skill = "order_status"             -> OrderStatus(message, text, chunks)
    [] skill = "documentation_support"    -> DocumentationSupport(message, text, chunks)
    [] skill = "customer_faq"             -> CustomerFaq(message, text, chunks)
    [] skill = "support_escalation"       -> SupportEscalation(message, text, chunks)
    [] skill = "warranty_consultation"    -> WarrantyConsultation(message, text, chunks)
    [] skill = "service_booking"          -> ServiceBooking(message, text, chunks)
    [] skill = "maintenance_consultation" -> MaintenanceConsultation(message, text, chunks)
    [] skill = "service_escalation"       -> ServiceEscalation(message, text, chunks)
    [] skill = "internal_knowledge"       -> InternalKnowledge(message, text, chunks)
    [] skill = "sales_coaching"           -> SalesCoaching(message, text, chunks)
    [] skill = "process_lookup"           -> ProcessLookup(message, text, chunks)
    [] skill = "manager_escalation"       -> ManagerEscalation(message, text, chunks)
    [] skill = "competitor_research"      -> CompetitorResearch(message, text, chunks)
    [] skill = "document_processing"      -> DocumentProcessing(message, text, chunks)

\* Run on an agent's behalf; an agent only has its own skills.
RunSkill(agent, message, text, chunks) ==
  Handler(Select(agent, message, text), message, text, chunks)
=============================================================================
