----------------------------- MODULE Orchestrator -----------------------------
(***************************************************************************)
(* One chat session: its turns (POST /api/chat), its resets, the object    *)
(* the process keeps of it and its row in the table "sessions".            *)
(*                                                                         *)
(* The handlers are plain functions that FastAPI runs in threads, and      *)
(* nothing locks a session: two turns of a session, or a turn and a reset, *)
(* interleave wherever they touch self.sessions, the SessionState object   *)
(* or the row.  Sessions share nothing but the dict, so one is modelled.   *)
(*                                                                         *)
(* A turn is classified (an answer of the orchestrator itself), routed to  *)
(* an agent, checked against the caller's role, executed and persisted; in *)
(* langgraph mode an exception becomes a safe reply, in legacy mode (no    *)
(* topic switch, no enrichment) it becomes an error.                       *)
(***************************************************************************)
EXTENDS Agents

CONSTANTS
  Message,        \* what can be said (see Messages)
  Role,           \* roles a caller can have
  Modes,          \* orchestrator_mode: one choice per deployment
  MaxTurns,       \* bound: turns of the session
  MaxResets,      \* bound: resets of the session
  MaxConcurrent,  \* requests of the session that can be in progress together
  MaxCrashes,     \* bound: crashes of the process
  MaxFaults       \* bound: exceptions of retrievers, models and stores

ASSUME OrchestratorAssumption ==
  /\ \A m \in Message : IsMessage(m)
  /\ Role \subseteq {"client", "staff"}
  /\ Modes \in (SUBSET {"langgraph", "legacy"}) \ {{}}
  /\ MaxTurns \in Nat /\ MaxResets \in Nat /\ MaxConcurrent \in Nat
  /\ MaxCrashes \in Nat /\ MaxFaults \in Nat

\* Turns are numbered in the order they arrive.  A SessionState object is named
\* after the request that made it.
Turn  == 1..MaxTurns
Reset == MaxTurns + 1 .. MaxTurns + MaxResets
Object == Turn \cup Reset
NoObject == 0

VARIABLES
  cached,    \* self.sessions[sid]: an object, NoObject if the process has none
  object,    \* the SessionState objects
  row,       \* the session's row; no row reads as an empty session
  turn,      \* turn[n]: where the request is and what it knows
  reset,     \* reset[k]: the same for a reset
  recorded,  \* turns with a row in "conversations"
  proposed,  \* action jobs proposed by the session, and by which turn
  mode, crashes, faults

memory == <<cached, object>>
tables == <<row, recorded, proposed>>
limits == <<mode, crashes>>
vars == <<memory, tables, turn, reset, limits, faults>>

\* A history is a sequence of <<n, "question">> and <<n, "answer">>.
NewSession == [active |-> None, history |-> <<>>]
NoReply == [agent |-> None, skill |-> None, target |-> None, fields |-> NoFields, cites |-> {}]
Silence == [says |-> {}, phrase |-> None, short |-> TRUE, text |-> <<>>, body |-> None,
            budget |-> 0, bare |-> FALSE]

\* "solo", "after" and "quiet" only observe: did the turn meet no other request and
\* no reset since, which resets were asked for before it, did the reset meet none.
IdleTurn == [pc |-> "idle", role |-> None, message |-> Silence, object |-> NoObject,
             selected |-> None, continues |-> FALSE, asked |-> <<>>, reply |-> NoReply,
             saved |-> NewSession, solo |-> FALSE, after |-> {}]
IdleReset == [pc |-> "idle", saved |-> NewSession, quiet |-> FALSE]

Ended == {"answered", "refused", "failed", "lost"}
InProgress(n) == turn[n].pc \notin {"idle"} \cup Ended
Resetting(k) == reset[k].pc \in {"snapshot", "write"}
Asked == {k \in Reset : reset[k].pc # "idle"}
Busy == {n \in Turn : InProgress(n)} \cup {k \in Reset : Resetting(k)}

Session(n) == object[turn[n].object]

\* The user's side of a history, as the skills read it: no word of the answers.
QuestionsOf(history) ==
  [i \in DOMAIN history |-> IF history[i][2] = "question" THEN turn[history[i][1]].message
                            ELSE Silence]

Init ==
  /\ cached = NoObject
  /\ object = [o \in Object |-> NewSession]
  /\ row = NewSession
  /\ turn = [n \in Turn |-> IdleTurn]
  /\ reset = [k \in Reset |-> IdleReset]
  /\ recorded = {} /\ proposed = {}
  /\ crashes = 0 /\ faults = 0
  /\ mode \in Modes

AllowedAgents(role) == IF role = "staff" THEN Agent ELSE Agent \ {"EMPLOYEE_AGENT"}

------------------------------------------------------------------------------
\* What a message is about

IntentKeys == [
  SALES_AGENT    |-> {"buy", "terms of purchase", "car", "nova", "credit", "leasing",
                      "trade-in", "test drive", "legal entity"},
  SUPPORT_AGENT  |-> DomainKeys.SUPPORT_AGENT,
  SERVICE_AGENT  |-> DomainKeys.SERVICE_AGENT,
  EMPLOYEE_AGENT |-> DomainKeys.EMPLOYEE_AGENT]

Leader(score) ==
  LET first == {a \in Agent : score[a] > 0 /\ \A b \in Agent \ {a} : score[b] < score[a]}
  IN  IF first = {} THEN None ELSE CHOOSE a \in first : TRUE

\* Skill keywords decide only where no intent key does, and never for staff.
ExplicitAgentIntent(m) ==
  LET direct == [a \in Agent |-> Cardinality(m.says \cap IntentKeys[a])]
      skills == [a \in Agent |-> IF a = "EMPLOYEE_AGENT" THEN 0
                                 ELSE MatchScore(BestSkill(a, <<m>>), <<m>>)]
  IN  IF OffCatalog(m) THEN None
      ELSE IF \E a \in Agent : direct[a] > 0 THEN Leader(direct) ELSE Leader(skills)

BudgetTopic(m)  == Says(m, {"million", "budget", "price"})
VehicleTopic(m) == ~OffCatalog(m) /\ Says(m, {"car", "van", "nova"})
BudgetOnly(m)   == BudgetTopic(m) /\ ~VehicleTopic(m)

------------------------------------------------------------------------------
\* Answers of the orchestrator itself

ConversationalDocuments == [
  greeting |-> "conversation-greeting", thanks |-> "conversation-thanks",
  farewell |-> "conversation-farewell", wellbeing |-> "conversation-wellbeing",
  identity |-> "conversation-identity", capabilities |-> "conversation-capabilities",
  menu |-> "conversation-menu", hours |-> "conversation-hours",
  contacts |-> "conversation-contacts", human |-> "conversation-human",
  how_it_works |-> "conversation-how-it-works", privacy |-> "conversation-privacy"]

OrchestratorReply(skill, target, cites) ==
  [agent |-> "AI_ORCHESTRATOR", skill |-> skill, target |-> target,
   fields |-> NoFields, cites |-> cites]

\* A missing document gives no answer, and the turn goes on.
FromDocument(id, skill) ==
  IF id \in Document THEN {OrchestratorReply(skill, None, {id})} ELSE {NoReply}

FromDecision(decision) ==
  {IF decision.route = "clarify" THEN OrchestratorReply("route_clarification", None, {})
   ELSE OrchestratorReply("human_handoff", decision.target, {})}

\* Any document of these may be the best match of a question about the company.
FaqDocuments ==
  {d \in ForAgent("ORCHESTRATOR") :
     SectionOf[d] = "conversation" \/ d \in {"company-contacts", "company-overview",
                                             "company-ai-disclosure"}}

FaqReply(d) ==
  OrchestratorReply(IF d \in {"conversation-safety-illegal", "conversation-safety-abuse"}
                    THEN "safety_refusal" ELSE "common_phrases", None, {d})

\* NoReply for "route it".  Safety comes first, then the router's decision.
DirectReplies(m, active) ==
  LET decision == Decide(m, active)
  IN  IF "profanity" \in m.says THEN FromDocument("conversation-safety-abuse", "safety_refusal")
      ELSE IF "illegal" \in m.says
      THEN FromDocument("conversation-safety-illegal", "safety_refusal")
      ELSE IF decision.route \in {"clarify", "human"} THEN FromDecision(decision)
      ELSE IF "handoff" \in m.says THEN FromDocument("conversation-human", "common_phrases")
      ELSE IF OffCatalog(m) THEN FromDocument("conversation-parts", "common_phrases")
      ELSE IF "weather" \in m.says THEN FromDocument("conversation-off-scope", "common_phrases")
      ELSE IF m.phrase = "menu" /\ active = "SALES_AGENT" THEN {NoReply}
      ELSE IF m.phrase \in DOMAIN ConversationalDocuments
      THEN FromDocument(ConversationalDocuments[m.phrase], "common_phrases")
      ELSE IF active # None \/ ExplicitAgentIntent(m) # None \/ VehicleTopic(m) \/ BudgetTopic(m)
      THEN {NoReply}
      ELSE {NoReply} \cup {FaqReply(d) : d \in FaqDocuments}

SafeFailure == OrchestratorReply("safe_fallback", "human_operator", {})
StaffOnly == "conversation-staff-only"

\* The documents the code names are filed where the knowledge base has them.
OwnDocuments ==
  {ConversationalDocuments[phrase] : phrase \in DOMAIN ConversationalDocuments} \cup
  {"conversation-safety-abuse", "conversation-safety-illegal", "conversation-parts",
   "conversation-off-scope", StaffOnly}

ASSUME FilingAssumption ==
  /\ \A d \in Document \cap OwnDocuments :
       SectionOf[d] = "conversation" /\ OwnerOf[d] \in {Anyone, "ORCHESTRATOR"}
  /\ \A d \in Document \cap {"sales-models", "sales-purchase-conditions"} :
       SectionOf[d] = "sales" /\ OwnerOf[d] = Anyone

------------------------------------------------------------------------------
\* get_or_create_session.  Names ending in _M are seeded faults, what a plausible
\* slip would make of the definition that follows them.

Goes(n, pc) == turn' = [turn EXCEPT ![n].pc = pc]

\* What is left of a turn when its request has ended.
Remains(n, pc) ==
  [IdleTurn EXCEPT !.pc = pc, !.message = turn[n].message, !.solo = turn[n].solo,
                   !.after = turn[n].after]
Ends(n, pc) == turn' = [turn EXCEPT ![n] = Remains(n, pc)]

Begin(n, m, r) ==
  /\ turn[n].pc = "idle"
  /\ \A i \in 1..n-1 : turn[i].pc # "idle"
  /\ Cardinality(Busy) < MaxConcurrent
  /\ turn' = [i \in Turn |->
       IF i = n THEN [IdleTurn EXCEPT !.pc = IF cached = NoObject THEN "load" ELSE "classify",
                                      !.role = r, !.message = m, !.object = cached,
                                      !.solo = (Busy = {}), !.after = Asked]
       ELSE [turn[i] EXCEPT !.solo = @ /\ ~InProgress(i)]]
  /\ reset' = [k \in Reset |-> [reset[k] EXCEPT !.quiet = @ /\ ~Resetting(k)]]
  /\ UNCHANGED <<memory, tables, limits, faults>>

Load(n) ==
  /\ turn[n].pc = "load"
  /\ turn' = [turn EXCEPT ![n].pc = "install", ![n].saved = row]
  /\ UNCHANGED <<memory, tables, reset, limits, faults>>

\* What was persisted is not taken over.
Install_M(n) ==
  /\ turn[n].pc = "install"
  /\ object' = [object EXCEPT ![n] = NewSession]
  /\ cached' = n
  /\ turn' = [turn EXCEPT ![n].pc = "fetch", ![n].saved = NewSession]
  /\ UNCHANGED <<tables, reset, limits, faults>>

Install(n) ==
  /\ turn[n].pc = "install"
  /\ object' = [object EXCEPT ![n] = turn[n].saved]
  /\ cached' = n
  /\ turn' = [turn EXCEPT ![n].pc = "fetch", ![n].saved = NewSession]
  /\ UNCHANGED <<tables, reset, limits, faults>>

\* The object returned is the one the dict holds by now.
Fetch(n) ==
  /\ turn[n].pc = "fetch"
  /\ turn' = [turn EXCEPT ![n].pc = "classify", ![n].object = cached]
  /\ UNCHANGED <<memory, tables, reset, limits, faults>>

------------------------------------------------------------------------------
\* classify_conversation and route_agent

\* The router's and the safe replies extend the history once, the others
\* append to it twice.
AnswerWith(n, reply) ==
  turn' = [turn EXCEPT ![n].reply = reply,
    ![n].pc = IF reply.skill \in {"route_clarification", "human_handoff", "safe_fallback"}
              THEN "extend" ELSE "ask"]

Classify(n) ==
  /\ turn[n].pc = "classify"
  /\ \E reply \in DirectReplies(turn[n].message, Session(n).active) :
       IF reply = NoReply THEN Goes(n, "route") ELSE AnswerWith(n, reply)
  /\ UNCHANGED <<memory, tables, reset, limits, faults>>

\* The agent of the session is kept whatever the message is about.
Chosen_M(m, active) == active

Chosen(m, active) ==
  LET decision == Decide(m, active)
  IN  IF decision.agent # None THEN decision.agent ELSE ExplicitAgentIntent(m)

Route(n) ==
  LET active   == Session(n).active
      explicit == Chosen(turn[n].message, active)
      switches == active = None \/ explicit \notin {None, active}
  IN  /\ mode = "langgraph"
      /\ turn[n].pc = "route"
      /\ turn' = [turn EXCEPT ![n].pc = IF switches THEN "call" ELSE "follow",
                              ![n].selected = IF switches THEN explicit ELSE None]
      /\ UNCHANGED <<memory, tables, reset, limits, faults>>

\* The agent of the session is read once more.
Follow(n) ==
  /\ turn[n].pc = "follow"
  /\ turn' = [turn EXCEPT ![n].pc = "guard", ![n].selected = Session(n).active,
                          ![n].continues = TRUE]
  /\ UNCHANGED <<memory, tables, reset, limits, faults>>

\* Legacy mode keeps the agent of the session until a reset.
LegacyRoute(n) ==
  LET active == Session(n).active
  IN  /\ mode = "legacy"
      /\ turn[n].pc = "route"
      /\ turn' = [turn EXCEPT ![n].pc = IF active = None THEN "call" ELSE "guard",
                              ![n].selected = Decide(turn[n].message, active).agent]
      /\ UNCHANGED <<memory, tables, reset, limits, faults>>

\* The model's answer is taken as it is, also when no such agent exists.
Call_M(n) ==
  /\ turn[n].pc = "call"
  /\ \E routed \in Agent \cup {"UNKNOWN_AGENT"} :
       LET selected == IF turn[n].selected # None THEN turn[n].selected ELSE routed
       IN  /\ object' = [object EXCEPT ![turn[n].object].active = selected]
           /\ turn' = [turn EXCEPT ![n].pc = "guard", ![n].selected = selected]
  /\ UNCHANGED <<cached, tables, reset, limits, faults>>

\* The model's classification (external: it names any agent, and another name is
\* replaced) is back; a deterministic signal outranks it.
Call(n) ==
  /\ turn[n].pc = "call"
  /\ \E routed \in Agent :
       LET selected == IF turn[n].selected # None THEN turn[n].selected ELSE routed
       IN  /\ object' = [object EXCEPT ![turn[n].object].active = selected]
           /\ turn' = [turn EXCEPT ![n].pc = "guard", ![n].selected = selected]
  /\ UNCHANGED <<cached, tables, reset, limits, faults>>

------------------------------------------------------------------------------
\* access_guard and execute_agent

\* Legacy mode checks, and later runs, the agent the session has at the time.
Selected(n) == IF mode = "legacy" THEN Session(n).active ELSE turn[n].selected

\* Only the choice of this turn is checked, not an agent that continues.
MayUse_M(n) == turn[n].continues \/ Selected(n) \in AllowedAgents(turn[n].role)

MayUse(n) == Selected(n) \in AllowedAgents(turn[n].role)

Admit(n) ==
  /\ turn[n].pc = "guard"
  /\ MayUse(n)
  /\ turn' = [turn EXCEPT ![n].pc = IF turn[n].continues THEN "enrich" ELSE "answer",
                          ![n].asked = <<turn[n].message>>]
  /\ UNCHANGED <<memory, tables, reset, limits, faults>>

\* Without the document the refusal is an error (403) and nothing is persisted.
Deny(n) ==
  /\ turn[n].pc = "guard"
  /\ ~MayUse(n)
  /\ object' = [object EXCEPT ![turn[n].object].active = None]
  /\ IF StaffOnly \in Document
     THEN AnswerWith(n, OrchestratorReply("staff_only", None, {StaffOnly}))
     ELSE Ends(n, "refused")
  /\ UNCHANGED <<cached, tables, reset, limits, faults>>

\* The words the program puts before a question that it continues.
Clarification == [Silence EXCEPT !.text = <<"clarification", "user", ":">>]

\* A short follow-up is preceded by the newest earlier question on the agent's
\* subject, or by the newest one at all.
Enriched(m, agent, history) ==
  LET said      == QuestionsOf(history)
      questions == {i \in DOMAIN history : history[i][2] = "question"}
      subject   == {i \in questions : ExplicitAgentIntent(said[i]) = agent /\ ~BudgetOnly(said[i])}
      prior     == IF subject # {} THEN subject ELSE questions
  IN  IF m.short /\ (ExplicitAgentIntent(m) = None \/ BudgetOnly(m)) /\ prior # {}
      THEN <<said[Max(prior)], Clarification, m>> ELSE <<m>>

Enrich(n) ==
  /\ turn[n].pc = "enrich"
  /\ turn' = [turn EXCEPT ![n].pc = "answer",
       ![n].asked = Enriched(turn[n].message, turn[n].selected, Session(n).history)]
  /\ UNCHANGED <<memory, tables, reset, limits, faults>>

Answer(n) ==
  /\ turn[n].pc = "answer"
  /\ Selected(n) # None
  /\ \E reply \in Replies(Selected(n), turn[n].asked, QuestionsOf(Session(n).history)) :
       AnswerWith(n, reply)
  /\ UNCHANGED <<memory, tables, reset, limits, faults>>

------------------------------------------------------------------------------
\* persist_turn and its likes: the history grows, a copy of it is written

Appends(n, entries, pc) ==
  /\ object' = [object EXCEPT ![turn[n].object].history = @ \o entries]
  /\ Goes(n, pc)
  /\ UNCHANGED <<cached, tables, reset, limits, faults>>

\* Only the answer is kept.
AppendQuestion_M(n) == turn[n].pc = "ask" /\ Appends(n, << <<n, "answer">> >>, "snapshot")

AppendQuestion(n) == turn[n].pc = "ask" /\ Appends(n, << <<n, "question">> >>, "reply")
AppendAnswer(n) == turn[n].pc = "reply" /\ Appends(n, << <<n, "answer">> >>, "snapshot")
Extend(n) ==
  turn[n].pc = "extend" /\ Appends(n, << <<n, "question">>, <<n, "answer">> >>, "snapshot")

Snapshot(n) ==
  /\ turn[n].pc = "snapshot"
  /\ turn' = [turn EXCEPT ![n].pc = "write", ![n].saved = Session(n)]
  /\ UNCHANGED <<memory, tables, reset, limits, faults>>

Write(n) ==
  /\ turn[n].pc = "write"
  /\ row' = turn[n].saved
  /\ turn' = [turn EXCEPT ![n].pc = "record", ![n].saved = NewSession]
  /\ UNCHANGED <<memory, recorded, proposed, reset, limits, faults>>

------------------------------------------------------------------------------
\* The rest of POST /api/chat

KindOf == [vehicle_selection |-> "lead", test_drive_booking |-> "test_drive",
           service_booking |-> "service"]

\* A booking needs a phone, a lead also a name and the customer's request.
ShouldPropose(reply) ==
  /\ reply.skill \in DOMAIN KindOf
  /\ reply.fields.phone # <<>>
  /\ reply.skill = "vehicle_selection" => reply.fields.name # <<>> /\ reply.fields.lead

ActionOf(n) ==
  LET reply == turn[n].reply
  IN  [kind |-> KindOf[reply.skill], name |-> reply.fields.name, phone |-> reply.fields.phone,
       vehicle |-> reply.fields.vehicle]

Record(n) ==
  /\ turn[n].pc = "record"
  /\ recorded' = recorded \cup {n}
  /\ IF ShouldPropose(turn[n].reply) THEN Goes(n, "propose") ELSE Ends(n, "answered")
  /\ UNCHANGED <<memory, row, proposed, reset, limits, faults>>

\* The idempotency key is made of the session, the skill and the payload: the
\* same payload finds the job that is there.
Propose(n) ==
  /\ turn[n].pc = "propose"
  /\ proposed' = IF \E p \in proposed : p.action = ActionOf(n) THEN proposed
                 ELSE proposed \cup {[action |-> ActionOf(n), by |-> n]}
  /\ Ends(n, "answered")
  /\ UNCHANGED <<memory, row, recorded, reset, limits, faults>>

------------------------------------------------------------------------------
\* Exceptions: a retriever, a model, a log file or a store fails; legacy mode
\* also looks up the agent of a session that another turn has cleared.  The
\* graph's are answered by a safe reply, unless they come from persisting it.
Raises(n) ==
  \/ /\ turn[n].pc \in {"load", "classify", "call", "guard", "answer", "write", "record", "propose"}
     /\ faults < MaxFaults
     /\ faults' = faults + 1
  \/ /\ turn[n].pc = "answer" /\ Selected(n) = None
     /\ UNCHANGED faults

InGraph(n) ==
  /\ mode = "langgraph"
  /\ turn[n].pc \notin {"load", "record", "propose"}
  /\ turn[n].reply # SafeFailure

FailSafe(n) ==
  /\ InGraph(n)
  /\ Raises(n)
  /\ AnswerWith(n, SafeFailure)
  /\ UNCHANGED <<memory, tables, reset, limits>>

Fail(n) ==
  /\ ~InGraph(n)
  /\ Raises(n)
  /\ Ends(n, "failed")
  /\ UNCHANGED <<memory, tables, reset, limits>>

------------------------------------------------------------------------------
\* POST /api/reset

\* The row is left as it is.
ResetBegins_M(k) ==
  /\ reset[k].pc = "idle"
  /\ \A i \in MaxTurns + 1 .. k - 1 : reset[i].pc # "idle"
  /\ Cardinality(Busy) < MaxConcurrent
  /\ object' = [object EXCEPT ![k] = NewSession]
  /\ cached' = k
  /\ turn' = [n \in Turn |-> [turn[n] EXCEPT !.solo = FALSE]]
  /\ reset' = [reset EXCEPT ![k].pc = "done", ![k].quiet = (Busy = {})]
  /\ UNCHANGED <<tables, limits, faults>>

ResetBegins(k) ==
  /\ reset[k].pc = "idle"
  /\ \A i \in MaxTurns + 1 .. k - 1 : reset[i].pc # "idle"
  /\ Cardinality(Busy) < MaxConcurrent
  /\ object' = [object EXCEPT ![k] = NewSession]
  /\ cached' = k
  /\ turn' = [n \in Turn |-> [turn[n] EXCEPT !.solo = FALSE]]
  /\ reset' = [i \in Reset |->
       IF i = k THEN [IdleReset EXCEPT !.pc = "snapshot", !.quiet = (Busy = {})]
       ELSE [reset[i] EXCEPT !.quiet = @ /\ ~Resetting(i)]]
  /\ UNCHANGED <<tables, limits, faults>>

\* What is persisted is the object the dict holds by now.
ResetSnapshot(k) ==
  /\ reset[k].pc = "snapshot"
  /\ reset' = [reset EXCEPT ![k].pc = "write", ![k].saved = object[cached]]
  /\ UNCHANGED <<memory, tables, turn, limits, faults>>

ResetWrites(k) ==
  /\ reset[k].pc = "write"
  /\ row' = reset[k].saved
  /\ reset' = [reset EXCEPT ![k].pc = "done", ![k].saved = NewSession]
  /\ UNCHANGED <<memory, recorded, proposed, turn, limits, faults>>

ResetFails(k) ==
  /\ reset[k].pc = "write"
  /\ faults < MaxFaults
  /\ faults' = faults + 1
  /\ reset' = [reset EXCEPT ![k] = [IdleReset EXCEPT !.pc = "failed"]]
  /\ UNCHANGED <<memory, tables, turn, limits>>

\* The process dies and is started again: the tables stay.
Crash ==
  /\ crashes < MaxCrashes
  /\ crashes' = crashes + 1
  /\ cached' = NoObject
  /\ object' = [o \in Object |-> NewSession]
  /\ turn' = [n \in Turn |-> IF InProgress(n) THEN Remains(n, "lost") ELSE turn[n]]
  /\ reset' = [k \in Reset |-> IF Resetting(k) THEN [IdleReset EXCEPT !.pc = "failed"] ELSE reset[k]]
  /\ UNCHANGED <<tables, mode, faults>>

------------------------------------------------------------------------------
Arrive(n) == \E m \in Message, r \in Role : Begin(n, m, r)
GetSession(n) == Load(n) \/ Install(n) \/ Fetch(n)
ChooseAgent(n) == Classify(n) \/ Route(n) \/ Follow(n) \/ LegacyRoute(n) \/ Call(n)
Execute(n) == Admit(n) \/ Deny(n) \/ Enrich(n) \/ Answer(n)
Persist(n) == AppendQuestion(n) \/ AppendAnswer(n) \/ Extend(n) \/ Snapshot(n) \/ Write(n)
Conclude(n) == Record(n) \/ Propose(n)
Exception(n) == FailSafe(n) \/ Fail(n)

TurnStep(n) == GetSession(n) \/ ChooseAgent(n) \/ Execute(n) \/ Persist(n) \/ Conclude(n)
               \/ Exception(n)
ResetStep(k) == ResetSnapshot(k) \/ ResetWrites(k) \/ ResetFails(k)

Next ==
  \/ \E n \in Turn : Arrive(n) \/ TurnStep(n)
  \/ \E k \in Reset : ResetBegins(k) \/ ResetStep(k)
  \/ Crash

Spec == Init /\ [][Next]_vars
------------------------------------------------------------------------------
(* Properties *)

Stage ==
  {"idle", "load", "install", "fetch", "classify", "route", "call", "follow", "guard", "enrich",
   "answer", "ask", "reply", "extend", "snapshot", "write", "record", "propose"} \cup Ended
ResetStage == {"idle", "snapshot", "write", "done", "failed"}

Utterance == Message \cup {Silence, Clarification}
Fields == FieldsFrom(Utterance)
Reply == [
  agent  : Agent \cup {"AI_ORCHESTRATOR", None},
  skill  : Skill \cup {"safety_refusal", "common_phrases", "route_clarification",
                       "human_handoff", "safe_fallback", "staff_only", None},
  target : Specialist \cup {"service_manager", "support_operator", "human_operator", None},
  fields : Fields,
  cites  : SUBSET Document]
SessionState == [active : Agent \cup {None}, history : Seq(Turn \X {"question", "answer"})]
TurnState ==
  [pc : Stage, role : Role \cup {None}, message : Utterance,
   object : Object \cup {NoObject}, selected : Agent \cup {None}, continues : BOOLEAN,
   asked : Seq(Utterance), reply : Reply, saved : SessionState,
   solo : BOOLEAN, after : SUBSET Reset]
ResetState == [pc : ResetStage, saved : SessionState, quiet : BOOLEAN]

TypeOK ==
  /\ cached \in Object \cup {NoObject}
  /\ object \in [Object -> SessionState]
  /\ row \in SessionState
  /\ turn \in [Turn -> TurnState]
  /\ reset \in [Reset -> ResetState]
  /\ recorded \subseteq Turn
  /\ \A p \in proposed : p.by \in Turn /\ p.action.kind \in {"lead", "test_drive", "service"}
  /\ mode \in Modes
  /\ crashes \in 0..MaxCrashes /\ faults \in 0..MaxFaults

Replied(n) == turn[n].reply # NoReply
FromAgent(n) == turn[n].reply.agent \in Agent

\* A customer is never answered by the employees' agent or from an internal
\* document, whatever agent other turns or an earlier failure left in the session.
StaffAgentAnswersStaff ==
  \A n \in Turn : turn[n].role = "client" =>
    /\ turn[n].reply.agent # "EMPLOYEE_AGENT"
    /\ \A d \in turn[n].reply.cites : SectionOf[d] # "internal"

\* Every document a reply names is one its agent may read, also when a language
\* model chose the citations.
CitationsAreGrounded ==
  \A n \in Turn : Replied(n) =>
    turn[n].reply.cites \subseteq
      ForAgent(IF FromAgent(n) THEN turn[n].reply.agent ELSE "ORCHESTRATOR")

\* A request that commits the company is refused or handed to a person by the
\* orchestrator itself: no agent gets it, in any session.
RiskGoesToPeople ==
  \A n \in Turn :
    Says(turn[n].message, {"financial commitment", "approve credit", "warranty dispute",
                           "external change"}) /\ Replied(n)
    => ~FromAgent(n) /\ (turn[n].reply.target # None \/ turn[n].reply.skill = "safety_refusal")

\* In langgraph mode a message about exactly one domain is answered by that
\* domain's agent, whoever had the session before.
ExplicitTopicIsServed ==
  \A n \in Turn : \A a \in Agent :
    /\ mode = "langgraph" /\ Replied(n) /\ FromAgent(n)
    /\ DomainScore(turn[n].message, a) > 0
    /\ \A b \in Agent \ {a} : DomainScore(turn[n].message, b) = 0
    => turn[n].reply.agent = a

Entries(o) == ToSet(object[o].history)
InUse == ({cached} \cup {turn[n].object : n \in {i \in Turn : InProgress(i)}}) \ {NoObject}

\* Two requests may interleave their messages, and an object may be copied to
\* the row half way, but no history has an answer before its question.
QuestionsPrecedeAnswers ==
  \A history \in {row.history} \cup {object[o].history : o \in Object} :
    \A i \in DOMAIN history : history[i][2] = "answer" =>
      \E j \in 1..i-1 : history[j] = <<history[i][1], "question">>

\* A turn that met no other request is in the row once it is answered and stays
\* there until a reset, whatever later turns, races, failures or crashes do.
SoloTurnsAreDurable ==
  \A n \in Turn :
    turn[n].pc = "answered" /\ turn[n].solo =>
      {<<n, "question">>, <<n, "answer">>} \subseteq ToSet(row.history)

\* A reset that met no other request is final: nothing said before it is in the
\* row, in the cache, or under any request that is answered.
ResetIsFinal ==
  \A k \in Reset : reset[k].pc = "done" /\ reset[k].quiet =>
    \A e \in ToSet(row.history) \cup UNION {Entries(o) : o \in InUse} : k \in turn[e[1]].after

\* Every turn that was answered is in the row.  For runs without resets.
AnsweredIsStored ==
  \A n \in Turn :
    turn[n].pc = "answered" => <<n, "question">> \in ToSet(row.history)

\* The row is an append-only log of exchanges for a customer who sends one
\* request at a time.
Log == INSTANCE SessionLog
         WITH log <- row.history, resets <- Asked, after <- [n \in Turn |-> turn[n].after]
ImplementsLog == Log!Spec

\* The turns up to n with no reset done since.
Before(n) ==
  {i \in 1..n : \A k \in turn[n].after \ turn[i].after : reset[k].pc # "done"}

\* Whatever is proposed to the staff was said by the customer since the last
\* reset, piece by piece: the digits of the phone, which may come from several
\* messages, and the words of the name, but for the two of the program's own that
\* the expressions may run into.  A lead was asked for, by somebody with a name.
ProposalsAreGrounded ==
  \A p \in proposed :
    LET said == Pieces({turn[i].message : i \in Before(p.by)})
    IN  /\ ToSet(p.action.phone) \subseteq said
        /\ ToSet(p.action.name) \subseteq said \cup OwnWords
        /\ p.action.kind = "lead" =>
             /\ p.action.name # <<>>
             /\ \E i \in Before(p.by) : LeadRequested(<<turn[i].message>>)

\* A message that ends in a mark, so that no match runs into the next one, and
\* whose name, if it gives one, is introduced.
IsTidy(m) ==
  /\ m.text # <<>> => Last(m.text) \in {".", "?"}
  /\ Mentioned(m.text) = {}

\* The proposals made with no reset asked for in between name one customer, if
\* every message is tidy: all give one phone, and those that give a name give the
\* same one, although the texts they are read off grow and repeat themselves.
ContactsAgree ==
  (\A n \in Turn : IsTidy(turn[n].message)) =>
    \A p, q \in proposed :
      turn[p.by].after = turn[q.by].after =>
        /\ p.action.phone = q.action.phone
        /\ <<>> \in {p.action.name, q.action.name} \/ p.action.name = q.action.name
=============================================================================
