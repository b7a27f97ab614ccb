-------------------------- MODULE OrchestratorProofs --------------------------
(***************************************************************************)
(* Theorems about Orchestrator for every set of messages, documents and    *)
(* models and every value of the other constants: any number of turns,     *)
(* resets, crashes and faults.                                             *)
(***************************************************************************)
EXTENDS Orchestrator, AgentsProofs

------------------------------------------------------------------------------
(* What the operators return *)

\* The keys of a message name an agent or none.
LEMMA IntentTyped ==
  ASSUME NEW m
  PROVE  ExplicitAgentIntent(m) \in Agent \cup {None}
<1>1. \A score : Leader(score) \in Agent \cup {None}
  BY DEF Leader
<1> QED BY <1>1 DEF ExplicitAgentIntent

\* The router names an agent, the session's or none, and a person if it needs one.
LEMMA DecideTyped ==
  ASSUME NEW m, NEW active \in Agent \cup {None}
  PROVE  /\ Decide(m, active).agent \in Agent \cup {None}
         /\ Decide(m, active).target \in
              {"sales_manager", "service_manager", "support_operator", "department_manager",
               "human_operator", None}
<1> DEFINE risk    == SelectInSeq(HighRiskRules, LAMBDA rule : Says(m, rule.words))
           matched == {a \in Agent : DomainScore(m, a) > 0}
           best    == {a \in matched : \A b \in matched \ {a} : DomainScore(m, a) > DomainScore(m, b)}
           People  == {"sales_manager", "service_manager", "support_operator",
                       "department_manager", "human_operator", None}
<1>1. HumanTarget(active) \in People
  BY DEF HumanTarget
<1>2. risk # 0 => HighRiskRules[risk].target \in People
  <2> DEFINE I == {i \in 1..Len(HighRiskRules) : Says(m, HighRiskRules[i].words)}
  <2>1. risk # 0 => I # {} /\ risk = Min(I)
    BY DEF SelectInSeq
  <2>2. I \in SUBSET Nat
    OBVIOUS
  <2>3. risk # 0 => risk \in I
    <3> HIDE DEF I, risk
    <3> QED BY <2>1, <2>2, MinOfNaturals
  <2>4. Len(HighRiskRules) = 3
    BY DEF HighRiskRules
  <2>5. risk # 0 => risk \in 1..3
    <3> HIDE DEF risk
    <3> QED BY <2>3, <2>4
  <2>6. /\ HighRiskRules[1].target = "sales_manager"
        /\ HighRiskRules[2].target = "service_manager"
        /\ HighRiskRules[3].target = "support_operator"
    BY DEF HighRiskRules
  <2>7. risk # 0 => risk = 1 \/ risk = 2 \/ risk = 3
    <3> HIDE DEF risk
    <3> QED BY <2>5
  <2> HIDE DEF risk
  <2> QED BY <2>6, <2>7
<1>3. best # {} => (CHOOSE a \in best : TRUE) \in Agent
  OBVIOUS
<1>4. matched # {} => (CHOOSE a \in matched : TRUE) \in Agent
  OBVIOUS
<1>5. Decide(m, active) =
        IF Says(m, HumanMarkers) THEN RouterDecision("human", None, HumanTarget(active))
        ELSE IF risk # 0 THEN RouterDecision("human", None, HighRiskRules[risk].target)
        ELSE IF m.phrase = "ambiguous" THEN RouterDecision("clarify", None, None)
        ELSE IF Cardinality(matched) > 1
             THEN RouterDecision("complex_model", IF best = {} THEN None ELSE CHOOSE a \in best : TRUE, None)
        ELSE IF matched # {} THEN RouterDecision("simple_model", CHOOSE a \in matched : TRUE, None)
        ELSE IF active # None THEN RouterDecision("skill", active, None)
        ELSE RouterDecision("complex_model", None, None)
  BY DEF Decide
<1>6. \A route, agent, target : /\ RouterDecision(route, agent, target).agent = agent
                                /\ RouterDecision(route, agent, target).target = target
  BY DEF RouterDecision
<1>7. Decide(m, active).agent \in Agent \cup {None}
  <2> HIDE DEF best, matched, risk
  <2> QED BY <1>3, <1>4, <1>5, <1>6
<1>8. Decide(m, active).target \in People
  <2>1. None \in People
    OBVIOUS
  <2> HIDE DEF best, matched, risk, People
  <2> QED BY <1>1, <1>2, <1>5, <1>6, <2>1
<1> QED BY <1>7, <1>8

\* An answer of the orchestrator itself is a reply.
LEMMA OwnReplyTyped ==
  ASSUME NEW skill \in {"safety_refusal", "common_phrases", "route_clarification",
                        "human_handoff", "safe_fallback", "staff_only"},
         NEW target \in {"sales_manager", "service_manager", "support_operator",
                         "department_manager", "human_operator", None},
         NEW cites \in SUBSET Document
  PROVE  OrchestratorReply(skill, target, cites) \in Reply
<1>1. NoFields \in Fields
  BY EmptySeq DEF NoFields, Fields, FieldsFrom
<1>2. target \in Specialist \cup {"service_manager", "support_operator", "human_operator", None}
  BY DEF Specialist
<1> QED BY <1>1, <1>2 DEF OrchestratorReply, Reply

\* No reply yet is a reply.
LEMMA NoReplyTyped == NoReply \in Reply
<1>1. NoFields \in Fields
  BY EmptySeq DEF NoFields, Fields, FieldsFrom
<1> QED BY <1>1 DEF NoReply, Reply

\* What the orchestrator answers itself is a reply.
LEMMA DirectRepliesTyped ==
  ASSUME NEW m, NEW active \in Agent \cup {None}
  PROVE  DirectReplies(m, active) \subseteq Reply
<1> DEFINE decision == Decide(m, active)
<1>1. /\ \A id : FromDocument(id, "safety_refusal") \subseteq Reply
      /\ \A id : FromDocument(id, "common_phrases") \subseteq Reply
  BY OwnReplyTyped, NoReplyTyped DEF FromDocument
<1>2. FromDecision(decision) \subseteq Reply
  <2>1. decision.target \in {"sales_manager", "service_manager", "support_operator",
                             "department_manager", "human_operator", None}
    BY DecideTyped
  <2> HIDE DEF decision
  <2> QED BY <2>1, OwnReplyTyped DEF FromDecision
<1>3. {FaqReply(d) : d \in FaqDocuments} \subseteq Reply
  <2> SUFFICES ASSUME NEW d \in FaqDocuments PROVE FaqReply(d) \in Reply
    OBVIOUS
  <2>1. d \in Document
    BY DEF FaqDocuments, ForAgent
  <2> QED BY <2>1, OwnReplyTyped DEF FaqReply
<1>4. {NoReply} \subseteq Reply
  BY NoReplyTyped
<1>5. {NoReply} \cup {FaqReply(d) : d \in FaqDocuments} \subseteq Reply
  BY <1>3, <1>4
<1> QED BY <1>1, <1>2, <1>4, <1>5, Zenon DEF DirectReplies

Entry == Turn \X {"question", "answer"}

\* The texts of what is said are sequences of tokens.
LEMMA TextsTyped == \A m \in Utterance : m.text \in Seq(Token)
<1>1. ASSUME NEW m \in Message PROVE m.text \in Seq(Token)
  BY OrchestratorAssumption DEF IsMessage
<1>2. Silence.text \in Seq(Token)
  BY EmptySeq DEF Silence
<1>3. Clarification.text \in Seq(Token)
  <2>1. Clarification.text = <<"clarification", "user", ":">>
    BY DEF Clarification, Silence
  <2>2. "clarification" \in Token /\ "user" \in Token /\ ":" \in Token
    BY MessagesAssumption DEF Token, OwnWords
  <2> QED BY <2>1, <2>2
<1> QED BY <1>1, <1>2, <1>3 DEF Utterance

\* The questions of a history are utterances, one for each entry.
LEMMA QuestionsTyped ==
  ASSUME TypeOK, NEW history \in Seq(Entry)
  PROVE  /\ QuestionsOf(history) \in Seq(Utterance)
         /\ DOMAIN QuestionsOf(history) = 1..Len(history)
<1>1. turn \in [Turn -> TurnState]
  BY DEF TypeOK
<1>2. Silence \in Utterance
  BY DEF Utterance
<1>3. ASSUME NEW i \in DOMAIN history
      PROVE  QuestionsOf(history)[i] \in Utterance
  <2>1. history[i] \in Entry
    BY <1>3, ElementOfSeq
  <2>2. history[i][1] \in Turn
    BY <2>1 DEF Entry
  <2>3. turn[history[i][1]].message \in Utterance
    BY <1>1, <2>2 DEF TurnState
  <2> QED BY <1>2, <2>3 DEF QuestionsOf
<1>4. DOMAIN QuestionsOf(history) = 1..Len(history) /\ Len(history) \in Nat
  BY DEF QuestionsOf
<1>5. QuestionsOf(history) = [i \in 1..Len(history) |-> QuestionsOf(history)[i]]
  BY DEF QuestionsOf
<1>6. QuestionsOf(history) \in Seq(Utterance)
  <2>1. \A i \in 1..Len(history) : QuestionsOf(history)[i] \in Utterance
    BY <1>3
  <2>2. QuestionsOf(history) \in [1..Len(history) -> Utterance]
    BY <1>5, <2>1
  <2> QED BY <1>4, <2>2
<1> QED BY <1>4, <1>6

\* A message is asked alone, or after a question of the history.
LEMMA EnrichedByOne ==
  ASSUME NEW m, NEW agent, NEW history \in Seq(Entry)
  PROVE  \/ Enriched(m, agent, history) = <<m>>
         \/ \E i \in 1..Len(history) :
              Enriched(m, agent, history) = <<QuestionsOf(history)[i], Clarification, m>>
<1> DEFINE said      == QuestionsOf(history)
           questions == {i \in DOMAIN history : history[i][2] = "question"}
           subject   == {i \in questions : ExplicitAgentIntent(said[i]) = agent /\ ~BudgetOnly(said[i])}
           prior     == IF subject # {} THEN subject ELSE questions
           follows   == m.short /\ (ExplicitAgentIntent(m) = None \/ BudgetOnly(m)) /\ prior # {}
<1>1. Enriched(m, agent, history) = IF follows THEN <<said[Max(prior)], Clarification, m>> ELSE <<m>>
  BY DEF Enriched
<1>2. prior \in SUBSET (1..Len(history)) /\ Len(history) \in Nat
  OBVIOUS
<1>3. follows => Max(prior) \in 1..Len(history)
  <2>1. follows => prior # {}
    OBVIOUS
  <2> HIDE DEF prior, follows
  <2> QED BY <1>2, <2>1, MaxOfNaturals
<1> HIDE DEF follows, prior
<1> QED BY <1>1, <1>3

\* What an agent is asked ends with the message of the turn.
LEMMA EnrichedTyped ==
  ASSUME TypeOK, NEW m \in Utterance, NEW agent, NEW history \in Seq(Entry)
  PROVE  /\ Enriched(m, agent, history) \in Seq(Utterance)
         /\ Last(Enriched(m, agent, history)) = m
<1>1. \A i \in 1..Len(history) : QuestionsOf(history)[i] \in Utterance
  BY QuestionsTyped, ElementOfSeq
<1>2. CASE Enriched(m, agent, history) = <<m>>
  BY <1>2 DEF Last
<1>3. ASSUME NEW i \in 1..Len(history),
             Enriched(m, agent, history) = <<QuestionsOf(history)[i], Clarification, m>>
      PROVE  /\ Enriched(m, agent, history) \in Seq(Utterance)
             /\ Last(Enriched(m, agent, history)) = m
  <2> DEFINE q == QuestionsOf(history)[i]
  <2>1. q \in Utterance /\ Clarification \in Utterance
    BY <1>1 DEF Utterance
  <2> HIDE DEF q
  <2>2. <<q, Clarification, m>> \in Seq(Utterance) /\ Last(<<q, Clarification, m>>) = m
    BY <2>1 DEF Last
  <2> QED BY <1>3, <2>2 DEF q
<1> QED BY <1>2, <1>3, EnrichedByOne

\* A reply of an agent is a reply.
LEMMA AgentReplyTyped ==
  ASSUME TypeOK, NEW agent \in Agent, NEW asked \in Seq(Utterance), NEW history \in Seq(Entry),
         NEW reply \in Replies(agent, asked, QuestionsOf(history))
  PROVE  reply \in Reply /\ reply.agent = agent /\ reply.skill \in Skill
<1> DEFINE said  == QuestionsOf(history)
           cites == ForAgent(agent) \cup NamedBy(agent, asked)
<1>1. said \in Seq(Utterance)
  BY QuestionsTyped
<1>2. cites \subseteq Document
  BY DEF ForAgent, NamedBy, VehicleDocuments
<1>3. reply \in ReplyFrom(agent, said \o asked, cites)
  <2>1. reply \in Replies(agent, asked, said)
    OBVIOUS
  <2> HIDE DEF said
  <2> QED BY <2>1, RepliesTyped
<1> HIDE DEF said, cites
<1>4. said \o asked \in Seq(Utterance)
  BY <1>1, ConcatProperties
<1>5. FieldsOf(said \o asked) \subseteq Fields
  BY <1>4, TextsTyped, FieldsAreParts DEF Fields
<1> QED BY <1>2, <1>3, <1>5 DEF ReplyFrom, Reply, Target

------------------------------------------------------------------------------
(* What the steps do to the turns *)

\* The stages of a turn that has its object.
Working == {"classify", "route", "call", "follow", "guard", "enrich", "answer", "ask", "reply",
            "extend", "snapshot", "write", "record", "propose"}

\* Whoever works on a session has its object, and so has whoever will take it from
\* the dict.  A request that has not stored its object yet is not known to anybody.
Refs ==
  /\ \A n \in Turn : turn[n].pc \in Working => turn[n].object \in Object
  /\ \A n \in Turn : turn[n].pc \in {"load", "install", "fetch"} => turn[n].object = NoObject
  /\ \A n \in Turn : turn[n].pc = "fetch" => cached # NoObject
  /\ \A k \in Reset : reset[k].pc = "snapshot" => cached # NoObject
  /\ \A n \in Turn : turn[n].pc \in {"idle", "load", "install"} =>
       cached # n /\ \A m \in Turn : turn[m].object # n
  /\ \A k \in Reset : reset[k].pc = "idle" =>
       cached # k /\ \A m \in Turn : turn[m].object # k

\* Only this turn moves, and it is a turn still.
Becomes(n, t) ==
  /\ t \in TurnState
  /\ turn' = [turn EXCEPT ![n] = t]

\* The others stand still.
LEMMA OthersStay ==
  ASSUME TypeOK, NEW n \in Turn, NEW t, Becomes(n, t)
  PROVE  /\ turn' \in [Turn -> TurnState]
         /\ turn'[n] = t /\ t \in TurnState
         /\ \A m \in Turn : m # n => turn'[m] = turn[m]
<1>1. turn \in [Turn -> TurnState]
  BY DEF TypeOK
<1> QED BY <1>1 DEF Becomes

\* A turn works on a session.
LEMMA SessionTyped ==
  ASSUME TypeOK, Refs, NEW n \in Turn, turn[n].pc \in Working
  PROVE  /\ turn[n].object \in Object
         /\ Session(n) \in SessionState
         /\ Session(n).active \in Agent \cup {None}
         /\ Session(n).history \in Seq(Entry)
<1>1. turn[n].object \in Object
  BY DEF Refs
<1>2. object \in [Object -> SessionState]
  BY DEF TypeOK
<1>3. Session(n) \in SessionState
  BY <1>1, <1>2 DEF Session
<1> QED BY <1>1, <1>3 DEF SessionState, Entry

\* A turn that goes on changes its step and nothing else.
LEMMA GoesMoves ==
  ASSUME TypeOK, NEW n \in Turn, NEW pc \in Stage, Goes(n, pc)
  PROVE  Becomes(n, [turn[n] EXCEPT !.pc = pc])
<1>1. turn \in [Turn -> TurnState]
  BY DEF TypeOK
<1>2. [turn[n] EXCEPT !.pc = pc] \in TurnState
  BY <1>1 DEF TurnState
<1>3. turn' = [turn EXCEPT ![n] = [turn[n] EXCEPT !.pc = pc]]
  BY <1>1 DEF TurnState, Goes
<1> QED BY <1>2, <1>3 DEF Becomes

\* A new session is one.
LEMMA NewSessionTyped == NewSession \in SessionState
BY DEF NewSession, SessionState

\* So is a turn that has not begun, and it works on no object.
LEMMA IdleTurnTyped == IdleTurn \in TurnState /\ IdleTurn.object = NoObject
<1>1. Silence \in Utterance /\ "idle" \in Stage /\ <<>> \in Seq(Utterance)
  BY DEF Utterance, Stage
<1> QED BY <1>1, NoReplyTyped, NewSessionTyped DEF IdleTurn, TurnState

\* What is left of a turn when its request has ended.
LEMMA RemainsTyped ==
  ASSUME TypeOK, NEW n \in Turn, NEW pc \in Stage
  PROVE  /\ Remains(n, pc) \in TurnState
         /\ Remains(n, pc).pc = pc
         /\ Remains(n, pc).object = NoObject
         /\ Remains(n, pc).solo = turn[n].solo
         /\ Remains(n, pc).after = turn[n].after
         /\ Remains(n, pc).reply = NoReply
         /\ Remains(n, pc).message = turn[n].message
<1>1. turn \in [Turn -> TurnState]
  BY DEF TypeOK
<1>2. /\ turn[n].message \in Utterance /\ turn[n].solo \in BOOLEAN
      /\ turn[n].after \in SUBSET Reset
  BY <1>1 DEF TurnState
<1>3. Remains(n, pc) \in TurnState
  BY <1>2, IdleTurnTyped DEF Remains, TurnState
<1>4. /\ Remains(n, pc).pc = pc
      /\ Remains(n, pc).object = IdleTurn.object
      /\ Remains(n, pc).solo = turn[n].solo
      /\ Remains(n, pc).after = turn[n].after
      /\ Remains(n, pc).reply = IdleTurn.reply
      /\ Remains(n, pc).message = turn[n].message
  BY IdleTurnTyped DEF Remains, TurnState
<1>5. IdleTurn.reply = NoReply
  BY DEF IdleTurn
<1> QED BY <1>3, <1>4, <1>5, IdleTurnTyped

\* A request that ends leaves nothing but what happened.
LEMMA EndsMoves ==
  ASSUME TypeOK, NEW n \in Turn, NEW pc \in Stage, Ends(n, pc)
  PROVE  Becomes(n, Remains(n, pc))
BY RemainsTyped DEF Becomes, Ends

\* A reply sends its turn on to the history.
LEMMA AnswerWithMoves ==
  ASSUME TypeOK, NEW n \in Turn, NEW reply \in Reply, AnswerWith(n, reply)
  PROVE  \E pc \in {"ask", "extend"} :
           /\ Becomes(n, [turn[n] EXCEPT !.reply = reply, !.pc = pc])
           /\ pc = "extend" <=>
                reply.skill \in {"route_clarification", "human_handoff", "safe_fallback"}
<1> DEFINE pc == IF reply.skill \in {"route_clarification", "human_handoff", "safe_fallback"}
                 THEN "extend" ELSE "ask"
<1>1. turn \in [Turn -> TurnState]
  BY DEF TypeOK
<1>2. /\ pc \in {"ask", "extend"} /\ pc \in Stage
      /\ pc = "extend" <=> reply.skill \in {"route_clarification", "human_handoff", "safe_fallback"}
  BY DEF Stage
<1>3. turn' = [turn EXCEPT ![n].reply = reply, ![n].pc = pc]
  BY DEF AnswerWith
<1> HIDE DEF pc
<1>4. [turn[n] EXCEPT !.reply = reply, !.pc = pc] \in TurnState
  BY <1>1, <1>2 DEF TurnState
<1>5. turn' = [turn EXCEPT ![n] = [turn[n] EXCEPT !.reply = reply, !.pc = pc]]
  BY <1>1, <1>3 DEF TurnState
<1> QED BY <1>2, <1>4, <1>5 DEF Becomes

\* The steps of a turn, one by one.
LEMMA LoadMoves ==
  ASSUME TypeOK, NEW n \in Turn, Load(n)
  PROVE  Becomes(n, [turn[n] EXCEPT !.pc = "install", !.saved = row])
<1>1. turn \in [Turn -> TurnState]
  BY DEF TypeOK
<1>2. "install" \in Stage /\ row \in SessionState
  BY DEF Stage, TypeOK
<1>3. turn' = [turn EXCEPT ![n].pc = "install", ![n].saved = row]
  BY DEF Load
<1>4. [turn[n] EXCEPT !.pc = "install", !.saved = row] \in TurnState
  BY <1>1, <1>2 DEF TurnState
<1>5. turn' = [turn EXCEPT ![n] = [turn[n] EXCEPT !.pc = "install", !.saved = row]]
  BY <1>1, <1>3 DEF TurnState
<1> QED BY <1>4, <1>5 DEF Becomes

\* Installing puts what was loaded into the dict.
LEMMA InstallMoves ==
  ASSUME TypeOK, NEW n \in Turn, Install(n)
  PROVE  Becomes(n, [turn[n] EXCEPT !.pc = "fetch", !.saved = NewSession])
<1>1. turn \in [Turn -> TurnState]
  BY DEF TypeOK
<1>2. "fetch" \in Stage /\ NewSession \in SessionState
  BY NewSessionTyped DEF Stage
<1>3. turn' = [turn EXCEPT ![n].pc = "fetch", ![n].saved = NewSession]
  BY DEF Install
<1>4. [turn[n] EXCEPT !.pc = "fetch", !.saved = NewSession] \in TurnState
  BY <1>1, <1>2 DEF TurnState
<1>5. turn' = [turn EXCEPT ![n] = [turn[n] EXCEPT !.pc = "fetch", !.saved = NewSession]]
  BY <1>1, <1>3 DEF TurnState
<1> QED BY <1>4, <1>5 DEF Becomes

\* Fetching takes the object that the dict holds.
LEMMA FetchMoves ==
  ASSUME TypeOK, NEW n \in Turn, Fetch(n)
  PROVE  Becomes(n, [turn[n] EXCEPT !.pc = "classify", !.object = cached])
<1>1. turn \in [Turn -> TurnState]
  BY DEF TypeOK
<1>2. "classify" \in Stage /\ cached \in Object \cup {NoObject}
  BY DEF Stage, TypeOK
<1>3. turn' = [turn EXCEPT ![n].pc = "classify", ![n].object = cached]
  BY DEF Fetch
<1>4. [turn[n] EXCEPT !.pc = "classify", !.object = cached] \in TurnState
  BY <1>1, <1>2 DEF TurnState
<1>5. turn' = [turn EXCEPT ![n] = [turn[n] EXCEPT !.pc = "classify", !.object = cached]]
  BY <1>1, <1>3 DEF TurnState
<1> QED BY <1>4, <1>5 DEF Becomes

\* A snapshot is a copy of the session.
LEMMA SnapshotMoves ==
  ASSUME TypeOK, Refs, NEW n \in Turn, Snapshot(n)
  PROVE  Becomes(n, [turn[n] EXCEPT !.pc = "write", !.saved = Session(n)])
<1>1. turn \in [Turn -> TurnState]
  BY DEF TypeOK
<1>2. "write" \in Stage /\ Session(n) \in SessionState
  <2>1. turn[n].pc \in Working
    BY DEF Snapshot, Working
  <2> QED BY <2>1, SessionTyped DEF Stage
<1>3. turn' = [turn EXCEPT ![n].pc = "write", ![n].saved = Session(n)]
  BY DEF Snapshot
<1>4. [turn[n] EXCEPT !.pc = "write", !.saved = Session(n)] \in TurnState
  BY <1>1, <1>2 DEF TurnState
<1>5. turn' = [turn EXCEPT ![n] = [turn[n] EXCEPT !.pc = "write", !.saved = Session(n)]]
  BY <1>1, <1>3 DEF TurnState
<1> QED BY <1>4, <1>5 DEF Becomes

\* Writing puts the copy into the row.
LEMMA WriteMoves ==
  ASSUME TypeOK, NEW n \in Turn, Write(n)
  PROVE  Becomes(n, [turn[n] EXCEPT !.pc = "record", !.saved = NewSession])
<1>1. turn \in [Turn -> TurnState]
  BY DEF TypeOK
<1>2. "record" \in Stage /\ NewSession \in SessionState
  BY NewSessionTyped DEF Stage
<1>3. turn' = [turn EXCEPT ![n].pc = "record", ![n].saved = NewSession]
  BY DEF Write
<1>4. [turn[n] EXCEPT !.pc = "record", !.saved = NewSession] \in TurnState
  BY <1>1, <1>2 DEF TurnState
<1>5. turn' = [turn EXCEPT ![n] = [turn[n] EXCEPT !.pc = "record", !.saved = NewSession]]
  BY <1>1, <1>3 DEF TurnState
<1> QED BY <1>4, <1>5 DEF Becomes

\* Following selects the agent of the session.
LEMMA FollowMoves ==
  ASSUME TypeOK, Refs, NEW n \in Turn, Follow(n)
  PROVE  Becomes(n, [turn[n] EXCEPT !.pc = "guard", !.selected = Session(n).active, !.continues = TRUE])
<1>1. turn \in [Turn -> TurnState]
  BY DEF TypeOK
<1>2. "guard" \in Stage /\ Session(n).active \in Agent \cup {None}
  <2>1. turn[n].pc \in Working
    BY DEF Follow, Working
  <2> QED BY <2>1, SessionTyped DEF Stage
<1>3. turn' = [turn EXCEPT ![n].pc = "guard", ![n].selected = Session(n).active, ![n].continues = TRUE]
  BY DEF Follow
<1>4. [turn[n] EXCEPT !.pc = "guard", !.selected = Session(n).active, !.continues = TRUE] \in TurnState
  BY <1>1, <1>2 DEF TurnState
<1>5. turn' = [turn EXCEPT ![n] = [turn[n] EXCEPT !.pc = "guard", !.selected = Session(n).active, !.continues = TRUE]]
  BY <1>1, <1>3 DEF TurnState
<1> QED BY <1>4, <1>5 DEF Becomes

\* Enriching makes a text of what was said.
LEMMA EnrichMoves ==
  ASSUME TypeOK, Refs, NEW n \in Turn, Enrich(n)
  PROVE  Becomes(n, [turn[n] EXCEPT !.pc = "answer", !.asked = Enriched(turn[n].message, turn[n].selected, Session(n).history)])
<1>1. turn \in [Turn -> TurnState]
  BY DEF TypeOK
<1>2. /\ "answer" \in Stage
      /\ Enriched(turn[n].message, turn[n].selected, Session(n).history) \in Seq(Utterance)
  <2>1. turn[n].pc \in Working
    BY DEF Enrich, Working
  <2>2. turn[n].message \in Utterance
    BY <1>1 DEF TurnState
  <2> QED BY <2>1, <2>2, SessionTyped, EnrichedTyped DEF Stage
<1>3. turn' = [turn EXCEPT ![n].pc = "answer", ![n].asked = Enriched(turn[n].message, turn[n].selected, Session(n).history)]
  BY DEF Enrich
<1>4. [turn[n] EXCEPT !.pc = "answer", !.asked = Enriched(turn[n].message, turn[n].selected, Session(n).history)] \in TurnState
  BY <1>1, <1>2 DEF TurnState
<1>5. turn' = [turn EXCEPT ![n] = [turn[n] EXCEPT !.pc = "answer", !.asked = Enriched(turn[n].message, turn[n].selected, Session(n).history)]]
  BY <1>1, <1>3 DEF TurnState
<1> QED BY <1>4, <1>5 DEF Becomes

\* Routing selects an agent, or leaves it to the model.
LEMMA RouteMoves ==
  ASSUME TypeOK, Refs, NEW n \in Turn, Route(n)
  PROVE  \/ /\ Session(n).active = None \/
                 Chosen(turn[n].message, Session(n).active) \notin {None, Session(n).active}
            /\ Becomes(n, [turn[n] EXCEPT !.pc = "call",
                             !.selected = Chosen(turn[n].message, Session(n).active)])
         \/ /\ Session(n).active # None
            /\ Chosen(turn[n].message, Session(n).active) \in {None, Session(n).active}
            /\ Becomes(n, [turn[n] EXCEPT !.pc = "follow", !.selected = None])
<1> DEFINE active   == Session(n).active
           explicit == Chosen(turn[n].message, active)
           switches == active = None \/ explicit \notin {None, active}
           pc       == IF switches THEN "call" ELSE "follow"
           selected == IF switches THEN explicit ELSE None
<1>1. turn \in [Turn -> TurnState]
  BY DEF TypeOK
<1>2. active \in Agent \cup {None}
  <2>1. turn[n].pc \in Working
    BY DEF Route, Working
  <2> QED BY <2>1, SessionTyped
<1>3. explicit \in Agent \cup {None}
  <2> HIDE DEF active
  <2> QED BY <1>2, DecideTyped, IntentTyped DEF Chosen
<1>4. turn' = [turn EXCEPT ![n].pc = pc, ![n].selected = selected]
  BY DEF Route
<1> HIDE DEF explicit, active
<1>5. pc \in Stage /\ selected \in Agent \cup {None}
  BY <1>3 DEF Stage
<1>6. \/ pc = "call" /\ selected = explicit /\ switches
      \/ pc = "follow" /\ selected = None /\ ~switches
  OBVIOUS
<1>7. Becomes(n, [turn[n] EXCEPT !.pc = pc, !.selected = selected])
  <2> HIDE DEF pc, selected
  <2>1. [turn[n] EXCEPT !.pc = pc, !.selected = selected] \in TurnState
    BY <1>1, <1>5 DEF TurnState
  <2>2. turn' = [turn EXCEPT ![n] = [turn[n] EXCEPT !.pc = pc, !.selected = selected]]
    BY <1>1, <1>4 DEF TurnState
  <2> QED BY <2>1, <2>2 DEF Becomes
<1>8. CASE switches
  BY <1>6, <1>7, <1>8 DEF explicit, active
<1>9. CASE ~switches
  BY <1>6, <1>7, <1>9 DEF explicit, active
<1> QED BY <1>8, <1>9

\* So does legacy routing.
LEMMA LegacyRouteMoves ==
  ASSUME TypeOK, Refs, NEW n \in Turn, LegacyRoute(n)
  PROVE  \E pc \in {"call", "guard"}, selected \in Agent \cup {None} :
           Becomes(n, [turn[n] EXCEPT !.pc = pc, !.selected = selected])
<1> DEFINE active   == Session(n).active
           pc       == IF active = None THEN "call" ELSE "guard"
           selected == Decide(turn[n].message, active).agent
<1>1. turn \in [Turn -> TurnState]
  BY DEF TypeOK
<1>2. active \in Agent \cup {None}
  <2>1. turn[n].pc \in Working
    BY DEF LegacyRoute, Working
  <2> QED BY <2>1, SessionTyped
<1>3. selected \in Agent \cup {None}
  <2> HIDE DEF active
  <2> QED BY <1>2, DecideTyped
<1>4. pc \in {"call", "guard"} /\ pc \in Stage
  BY DEF Stage
<1>5. turn' = [turn EXCEPT ![n].pc = pc, ![n].selected = selected]
  BY DEF LegacyRoute
<1> HIDE DEF pc, selected
<1>6. [turn[n] EXCEPT !.pc = pc, !.selected = selected] \in TurnState
  BY <1>1, <1>3, <1>4 DEF TurnState
<1>7. turn' = [turn EXCEPT ![n] = [turn[n] EXCEPT !.pc = pc, !.selected = selected]]
  BY <1>1, <1>5 DEF TurnState
<1> QED BY <1>3, <1>4, <1>6, <1>7 DEF Becomes

\* The agent is the deterministic choice, or the model's where there is none.
LEMMA CallMoves ==
  ASSUME TypeOK, NEW n \in Turn, Call(n)
  PROVE  \E selected \in Agent :
           /\ turn[n].selected # None => selected = turn[n].selected
           /\ object' = [object EXCEPT ![turn[n].object].active = selected]
           /\ Becomes(n, [turn[n] EXCEPT !.pc = "guard", !.selected = selected])
<1>1. turn \in [Turn -> TurnState]
  BY DEF TypeOK
<1>2. PICK selected \in Agent :
        /\ turn[n].selected # None => selected = turn[n].selected
        /\ object' = [object EXCEPT ![turn[n].object].active = selected]
        /\ turn' = [turn EXCEPT ![n].pc = "guard", ![n].selected = selected]
  <2>1. turn[n].selected \in Agent \cup {None}
    BY <1>1 DEF TurnState
  <2>2. PICK routed \in Agent :
          LET selected == IF turn[n].selected # None THEN turn[n].selected ELSE routed
          IN  /\ object' = [object EXCEPT ![turn[n].object].active = selected]
              /\ turn' = [turn EXCEPT ![n].pc = "guard", ![n].selected = selected]
    BY DEF Call
  <2> DEFINE selected == IF turn[n].selected # None THEN turn[n].selected ELSE routed
  <2>3. selected \in Agent /\ (turn[n].selected # None => selected = turn[n].selected)
    BY <2>1
  <2>4. /\ object' = [object EXCEPT ![turn[n].object].active = selected]
        /\ turn' = [turn EXCEPT ![n].pc = "guard", ![n].selected = selected]
    BY <2>2
  <2> HIDE DEF selected
  <2> QED BY <2>3, <2>4
<1>3. "guard" \in Stage
  BY DEF Stage
<1>4. [turn[n] EXCEPT !.pc = "guard", !.selected = selected] \in TurnState
  BY <1>1, <1>3 DEF TurnState
<1>5. turn' = [turn EXCEPT ![n] = [turn[n] EXCEPT !.pc = "guard", !.selected = selected]]
  BY <1>1, <1>2 DEF TurnState
<1> QED BY <1>2, <1>4, <1>5 DEF Becomes

\* Admitting leaves the message for the agent.
LEMMA AdmitMoves ==
  ASSUME TypeOK, NEW n \in Turn, Admit(n)
  PROVE  \E pc \in {"enrich", "answer"} :
           Becomes(n, [turn[n] EXCEPT !.pc = pc, !.asked = <<turn[n].message>>])
<1> DEFINE pc    == IF turn[n].continues THEN "enrich" ELSE "answer"
           asked == <<turn[n].message>>
<1>1. turn \in [Turn -> TurnState]
  BY DEF TypeOK
<1>2. pc \in {"enrich", "answer"} /\ pc \in Stage
  BY DEF Stage
<1>3. asked \in Seq(Utterance)
  BY <1>1 DEF TurnState
<1>4. turn' = [turn EXCEPT ![n].pc = pc, ![n].asked = asked]
  BY DEF Admit
<1> HIDE DEF pc, asked
<1>5. [turn[n] EXCEPT !.pc = pc, !.asked = asked] \in TurnState
  BY <1>1, <1>2, <1>3 DEF TurnState
<1>6. turn' = [turn EXCEPT ![n] = [turn[n] EXCEPT !.pc = pc, !.asked = asked]]
  BY <1>1, <1>4 DEF TurnState
<1>7. Becomes(n, [turn[n] EXCEPT !.pc = pc, !.asked = asked])
  BY <1>5, <1>6 DEF Becomes
<1> QED BY <1>2, <1>7 DEF asked

\* The classification answers by itself or lets the turn go on.
LEMMA ClassifyMoves ==
  ASSUME TypeOK, Refs, NEW n \in Turn, Classify(n)
  PROVE  \E reply \in DirectReplies(turn[n].message, Session(n).active) :
           /\ reply \in Reply
           /\ \/ reply = NoReply /\ Becomes(n, [turn[n] EXCEPT !.pc = "route"])
              \/ /\ reply # NoReply
                 /\ \E pc \in {"ask", "extend"} :
                      Becomes(n, [turn[n] EXCEPT !.reply = reply, !.pc = pc])
<1>1. Session(n).active \in Agent \cup {None}
  <2>1. turn[n].pc \in Working
    BY DEF Classify, Working
  <2> QED BY <2>1, SessionTyped
<1>2. PICK reply \in DirectReplies(turn[n].message, Session(n).active) :
        IF reply = NoReply THEN Goes(n, "route") ELSE AnswerWith(n, reply)
  BY DEF Classify
<1>3. reply \in Reply
  BY <1>1, DirectRepliesTyped
<1>4. CASE reply = NoReply
  <2>1. "route" \in Stage
    BY DEF Stage
  <2>2. Goes(n, "route")
    BY <1>2, <1>4
  <2> QED BY <1>3, <1>4, <2>1, <2>2, GoesMoves
<1>5. CASE reply # NoReply
  <2>1. AnswerWith(n, reply)
    BY <1>2, <1>5
  <2> QED BY <1>3, <1>5, <2>1, AnswerWithMoves
<1> QED BY <1>4, <1>5

\* A refused turn answers so, or ends with an error.
LEMMA DenyMoves ==
  ASSUME TypeOK, NEW n \in Turn, Deny(n)
  PROVE  /\ object' = [object EXCEPT ![turn[n].object].active = None]
         /\ \/ /\ StaffOnly \in Document
               /\ \E pc \in {"ask", "extend"} :
                    Becomes(n, [turn[n] EXCEPT
                      !.reply = OrchestratorReply("staff_only", None, {StaffOnly}), !.pc = pc])
            \/ Becomes(n, Remains(n, "refused"))
<1>1. object' = [object EXCEPT ![turn[n].object].active = None]
  BY DEF Deny
<1>2. CASE StaffOnly \in Document
  <2> DEFINE reply == OrchestratorReply("staff_only", None, {StaffOnly})
  <2>1. AnswerWith(n, reply)
    BY <1>2 DEF Deny
  <2>2. reply \in Reply
    BY <1>2, OwnReplyTyped
  <2> HIDE DEF reply
  <2>3. \E pc \in {"ask", "extend"} : Becomes(n, [turn[n] EXCEPT !.reply = reply, !.pc = pc])
    BY <2>1, <2>2, AnswerWithMoves
  <2> QED BY <1>1, <1>2, <2>3 DEF reply
<1>3. CASE StaffOnly \notin Document
  <2>1. Ends(n, "refused") /\ "refused" \in Stage
    BY <1>3 DEF Deny, Stage, Ended
  <2> QED BY <1>1, <2>1, EndsMoves
<1> QED BY <1>2, <1>3

\* A turn gets the reply of its agent.
LEMMA AnswerMoves ==
  ASSUME TypeOK, Refs, NEW n \in Turn, Answer(n)
  PROVE  \E reply \in Replies(Selected(n), turn[n].asked, QuestionsOf(Session(n).history)) :
           /\ Selected(n) \in Agent
           /\ reply \in Reply /\ reply.agent = Selected(n) /\ reply.skill \in Skill
           /\ \E pc \in {"ask", "extend"} :
                Becomes(n, [turn[n] EXCEPT !.reply = reply, !.pc = pc])
<1>1. turn \in [Turn -> TurnState]
  BY DEF TypeOK
<1>2. Session(n).active \in Agent \cup {None} /\ Session(n).history \in Seq(Entry)
  <2>1. turn[n].pc \in Working
    BY DEF Answer, Working
  <2> QED BY <2>1, SessionTyped
<1>3. turn[n].selected \in Agent \cup {None} /\ turn[n].asked \in Seq(Utterance)
  BY <1>1 DEF TurnState
<1>4. Selected(n) \in Agent
  <2>1. Selected(n) # None
    BY DEF Answer
  <2> QED BY <1>2, <1>3, <2>1 DEF Selected
<1>5. PICK reply \in Replies(Selected(n), turn[n].asked, QuestionsOf(Session(n).history)) :
        AnswerWith(n, reply)
  BY DEF Answer
<1>6. reply \in Reply /\ reply.agent = Selected(n) /\ reply.skill \in Skill
  BY <1>2, <1>3, <1>4, AgentReplyTyped
<1>7. \E pc \in {"ask", "extend"} : Becomes(n, [turn[n] EXCEPT !.reply = reply, !.pc = pc])
  BY <1>5, <1>6, AnswerWithMoves
<1> QED BY <1>4, <1>6, <1>7

\* The history of the turn's object grows.
Grows(n, entries) ==
  object' = [object EXCEPT ![turn[n].object].history = @ \o entries]

\* Appending makes the history of the object longer.
LEMMA AppendMoves ==
  ASSUME TypeOK, NEW n \in Turn, AppendQuestion(n) \/ AppendAnswer(n) \/ Extend(n)
  PROVE  \/ /\ turn[n].pc = "ask"
            /\ Grows(n, << <<n, "question">> >>)
            /\ Becomes(n, [turn[n] EXCEPT !.pc = "reply"])
         \/ /\ turn[n].pc = "reply"
            /\ Grows(n, << <<n, "answer">> >>)
            /\ Becomes(n, [turn[n] EXCEPT !.pc = "snapshot"])
         \/ /\ turn[n].pc = "extend"
            /\ Grows(n, << <<n, "question">>, <<n, "answer">> >>)
            /\ Becomes(n, [turn[n] EXCEPT !.pc = "snapshot"])
<1>1. "reply" \in Stage /\ "snapshot" \in Stage
  BY DEF Stage
<1>2. CASE AppendQuestion(n)
  <2>1. /\ turn[n].pc = "ask" /\ Grows(n, << <<n, "question">> >>) /\ Goes(n, "reply")
    BY <1>2 DEF AppendQuestion, Appends, Grows
  <2> QED BY <1>1, <2>1, GoesMoves
<1>3. CASE AppendAnswer(n)
  <2>1. /\ turn[n].pc = "reply" /\ Grows(n, << <<n, "answer">> >>) /\ Goes(n, "snapshot")
    BY <1>3 DEF AppendAnswer, Appends, Grows
  <2> QED BY <1>1, <2>1, GoesMoves
<1>4. CASE Extend(n)
  <2>1. /\ turn[n].pc = "extend" /\ Grows(n, << <<n, "question">>, <<n, "answer">> >>)
        /\ Goes(n, "snapshot")
    BY <1>4 DEF Extend, Appends, Grows
  <2> QED BY <1>1, <2>1, GoesMoves
<1> QED BY <1>2, <1>3, <1>4

\* Recording and proposing end the request, or go from one to the other.
LEMMA ConcludeMoves ==
  ASSUME TypeOK, NEW n \in Turn, Conclude(n)
  PROVE  \/ turn[n].pc = "record" /\ Becomes(n, [turn[n] EXCEPT !.pc = "propose"])
         \/ turn[n].pc \in {"record", "propose"} /\ Becomes(n, Remains(n, "answered"))
<1>1. "propose" \in Stage /\ "answered" \in Stage
  BY DEF Stage, Ended
<1>2. \/ turn[n].pc = "record" /\ Goes(n, "propose")
      \/ turn[n].pc \in {"record", "propose"} /\ Ends(n, "answered")
  BY DEF Conclude, Record, Propose
<1> QED BY <1>1, <1>2, GoesMoves, EndsMoves

\* An exception is answered by the safe reply, or ends the request.
LEMMA ExceptionMoves ==
  ASSUME TypeOK, NEW n \in Turn, Exception(n)
  PROVE  \/ /\ turn[n].pc \in {"classify", "call", "guard", "answer", "write"}
            /\ \E pc \in {"ask", "extend"} :
                 Becomes(n, [turn[n] EXCEPT !.reply = SafeFailure, !.pc = pc])
         \/ Becomes(n, Remains(n, "failed"))
<1>1. CASE FailSafe(n)
  <2>1. AnswerWith(n, SafeFailure)
    BY <1>1 DEF FailSafe
  <2>2. turn[n].pc \in {"classify", "call", "guard", "answer", "write"}
    BY <1>1 DEF FailSafe, InGraph, Raises
  <2>3. SafeFailure \in Reply
    BY OwnReplyTyped DEF SafeFailure
  <2> QED BY <2>1, <2>2, <2>3, AnswerWithMoves
<1>2. CASE Fail(n)
  <2>1. Ends(n, "failed") /\ "failed" \in Stage
    BY <1>2 DEF Fail, Stage, Ended
  <2> QED BY <2>1, EndsMoves
<1> QED BY <1>1, <1>2 DEF Exception

\* A turn that arrives meets those who are there.
LEMMA BeginMoves ==
  ASSUME TypeOK, NEW n \in Turn, NEW m \in Message, NEW r \in Role, Begin(n, m, r)
  PROVE  /\ turn' \in [Turn -> TurnState]
         /\ turn'[n].pc = IF cached = NoObject THEN "load" ELSE "classify"
         /\ turn'[n].role = r /\ turn'[n].message = m /\ turn'[n].object = cached
         /\ turn'[n].reply = NoReply /\ turn'[n].after = Asked
         /\ turn'[n].solo = (Busy = {})
         /\ \A i \in Turn : i # n =>
              /\ turn'[i].solo = (turn[i].solo /\ ~InProgress(i))
              /\ turn'[i] = [turn[i] EXCEPT !.solo = turn'[i].solo]
<1> DEFINE new == [IdleTurn EXCEPT !.pc = IF cached = NoObject THEN "load" ELSE "classify",
                                   !.role = r, !.message = m, !.object = cached,
                                   !.solo = (Busy = {}), !.after = Asked]
           met(i) == [turn[i] EXCEPT !.solo = @ /\ ~InProgress(i)]
<1>1. turn \in [Turn -> TurnState] /\ cached \in Object \cup {NoObject}
  BY DEF TypeOK
<1>2. turn' = [i \in Turn |-> IF i = n THEN new ELSE met(i)]
  BY DEF Begin
<1>3. new \in TurnState
  <2>1. /\ (IF cached = NoObject THEN "load" ELSE "classify") \in Stage
        /\ Asked \in SUBSET Reset /\ m \in Utterance /\ (Busy = {}) \in BOOLEAN
    BY DEF Stage, Asked, Utterance
  <2> QED BY <1>1, <2>1, IdleTurnTyped DEF TurnState
<1>4. ASSUME NEW i \in Turn
      PROVE  /\ met(i) \in TurnState
             /\ met(i).solo = (turn[i].solo /\ ~InProgress(i))
             /\ met(i) = [turn[i] EXCEPT !.solo = met(i).solo]
  <2> DEFINE solo == turn[i].solo /\ ~InProgress(i)
  <2>1. solo \in BOOLEAN /\ met(i) = [turn[i] EXCEPT !.solo = solo]
    OBVIOUS
  <2> HIDE DEF solo, met
  <2>2. met(i) \in TurnState /\ met(i).solo = solo
    BY <1>1, <2>1 DEF TurnState
  <2> QED BY <2>1, <2>2 DEF solo
<1>5. /\ new.pc = IF cached = NoObject THEN "load" ELSE "classify"
      /\ new.role = r /\ new.message = m /\ new.object = cached
      /\ new.reply = NoReply /\ new.after = Asked /\ new.solo = (Busy = {})
  BY DEF IdleTurn
<1> HIDE DEF new, met
<1>6. turn' \in [Turn -> TurnState] /\ turn'[n] = new
      /\ \A i \in Turn : i # n => turn'[i] = met(i)
  BY <1>2, <1>3, <1>4
<1>7. ASSUME NEW i \in Turn, i # n
      PROVE  /\ turn'[i].solo = (turn[i].solo /\ ~InProgress(i))
             /\ turn'[i] = [turn[i] EXCEPT !.solo = turn'[i].solo]
  BY <1>4, <1>6, <1>7
<1> QED BY <1>5, <1>6, <1>7

\* What an arrival, or a crash, makes of the resets.
LEMMA ResetsTyped ==
  ASSUME TypeOK
  PROVE  /\ NewSession \in SessionState
         /\ \A k \in Reset, quiet \in BOOLEAN, pc \in ResetStage, saved \in SessionState :
              /\ [reset[k] EXCEPT !.quiet = quiet] \in ResetState
              /\ [IdleReset EXCEPT !.pc = pc] \in ResetState
              /\ [IdleReset EXCEPT !.pc = pc, !.quiet = quiet] \in ResetState
              /\ [reset[k] EXCEPT !.pc = pc, !.saved = saved] \in ResetState
<1>1. reset \in [Reset -> ResetState]
  BY DEF TypeOK
<1>2. IdleReset \in ResetState
  BY NewSessionTyped DEF IdleReset, ResetState, ResetStage
<1> QED BY <1>1, <1>2, NewSessionTyped DEF ResetState

\* A new agent of a session leaves every history as it is.
LEMMA ActiveChanges ==
  ASSUME TypeOK, NEW o \in Object, NEW a \in Agent \cup {None},
         object' = [object EXCEPT ![o].active = a]
  PROVE  /\ object' \in [Object -> SessionState]
         /\ \A p \in Object : object'[p].history = object[p].history
<1>1. object \in [Object -> SessionState]
  BY DEF TypeOK
<1>2. [object[o] EXCEPT !.active = a] \in SessionState
  BY <1>1 DEF SessionState
<1>3. object' = [object EXCEPT ![o] = [object[o] EXCEPT !.active = a]]
  BY <1>1 DEF SessionState
<1>4. object' \in [Object -> SessionState]
  BY <1>1, <1>2, <1>3
<1>5. \A p \in Object : object'[p].history = object[p].history
  BY <1>1, <1>3 DEF SessionState
<1> QED BY <1>4, <1>5

\* A history that grows leaves the other objects as they are.
LEMMA HistoryGrows ==
  ASSUME TypeOK, NEW n \in Turn, turn[n].object \in Object, NEW entries \in Seq(Entry),
         Grows(n, entries)
  PROVE  /\ object' \in [Object -> SessionState]
         /\ object'[turn[n].object].history = object[turn[n].object].history \o entries
         /\ \A p \in Object : p # turn[n].object => object'[p] = object[p]
<1> DEFINE o       == turn[n].object
           history == object[o].history \o entries
<1>1. object \in [Object -> SessionState]
  BY DEF TypeOK
<1>2. history \in Seq(Entry)
  <2>1. object[o].history \in Seq(Entry)
    BY <1>1 DEF SessionState, Entry
  <2> QED BY <2>1, ConcatProperties
<1>3. object' = [object EXCEPT ![o].history = history]
  BY <1>1 DEF Grows
<1>4. o \in Object
  OBVIOUS
<1> SUFFICES /\ object' \in [Object -> SessionState]
             /\ object'[o].history = history
             /\ \A p \in Object : p # o => object'[p] = object[p]
  OBVIOUS
<1> HIDE DEF history, o
<1>5. [object[o] EXCEPT !.history = history] \in SessionState
  BY <1>1, <1>2, <1>4 DEF SessionState, Entry
<1>6. object' = [object EXCEPT ![o] = [object[o] EXCEPT !.history = history]]
  BY <1>1, <1>3, <1>4 DEF SessionState
<1> QED BY <1>1, <1>4, <1>5, <1>6 DEF SessionState

------------------------------------------------------------------------------
(* What the steps do to the session: its object, its row and who holds what *)

Moved(n, pc, o, saved) ==
  /\ turn' \in [Turn -> TurnState]
  /\ \A m \in Turn : m # n => turn'[m] = turn[m]
  /\ turn'[n].pc = pc /\ turn'[n].object = o /\ turn'[n].saved = saved
  /\ turn'[n].solo = turn[n].solo /\ turn'[n].after = turn[n].after

SameHistories ==
  /\ object' \in [Object -> SessionState]
  /\ \A o \in Object : object'[o].history = object[o].history

Loads(n) ==
  /\ turn[n].pc = "load" /\ Moved(n, "install", turn[n].object, row)
  /\ UNCHANGED <<cached, object, row>>

Installs(n) ==
  /\ turn[n].pc = "install" /\ Moved(n, "fetch", turn[n].object, NewSession)
  /\ object' = [object EXCEPT ![n] = turn[n].saved] /\ cached' = n
  /\ UNCHANGED row

Fetches(n) ==
  /\ turn[n].pc = "fetch" /\ Moved(n, "classify", cached, turn[n].saved)
  /\ UNCHANGED <<cached, object, row>>

\* The graph works on the message, whatever it comes to.
Thinking == {"classify", "route", "call", "follow", "guard", "enrich", "answer"}
Thinks(n) ==
  /\ turn[n].pc \in Thinking \cup {"write"}
  /\ \E pc \in (Thinking \ {"classify"}) \cup {"ask", "extend"} :
       Moved(n, pc, turn[n].object, turn[n].saved)
  /\ SameHistories
  /\ UNCHANGED <<cached, row>>

Tells(n, from, to, entries) ==
  /\ turn[n].pc = from /\ Moved(n, to, turn[n].object, turn[n].saved)
  /\ object' \in [Object -> SessionState]
  /\ object'[turn[n].object].history = object[turn[n].object].history \o entries
  /\ \A p \in Object : p # turn[n].object => object'[p] = object[p]
  /\ UNCHANGED <<cached, row>>

Snapshots(n) ==
  /\ turn[n].pc = "snapshot" /\ Moved(n, "write", turn[n].object, Session(n))
  /\ UNCHANGED <<cached, object, row>>

Writes(n) ==
  /\ turn[n].pc = "write" /\ Moved(n, "record", turn[n].object, NewSession)
  /\ row' = turn[n].saved
  /\ UNCHANGED <<cached, object>>

Proposes(n) ==
  /\ turn[n].pc = "record" /\ Moved(n, "propose", turn[n].object, turn[n].saved)
  /\ UNCHANGED <<cached, object, row>>

Leaves(n) ==
  /\ InProgress(n)
  /\ \E pc \in Ended :
       /\ Moved(n, pc, NoObject, NewSession)
       /\ pc = "answered" => turn[n].pc \in {"record", "propose"}
  /\ SameHistories
  /\ UNCHANGED <<cached, row>>

TurnMoves(n) ==
  \/ Loads(n) \/ Installs(n) \/ Fetches(n) \/ Thinks(n)
  \/ Tells(n, "ask", "reply", << <<n, "question">> >>)
  \/ Tells(n, "reply", "snapshot", << <<n, "answer">> >>)
  \/ Tells(n, "extend", "snapshot", << <<n, "question">>, <<n, "answer">> >>)
  \/ Snapshots(n) \/ Writes(n) \/ Proposes(n) \/ Leaves(n)

\* The steps of a turn between its classification and its reply.
LEMMA ThinkSteps ==
  ASSUME TypeOK, Refs, NEW n \in Turn, ChooseAgent(n) \/ Execute(n) \/ Exception(n)
  PROVE  Thinks(n) \/ Leaves(n)
<1>1. turn \in [Turn -> TurnState] /\ object \in [Object -> SessionState]
  BY DEF TypeOK
<1>2. UNCHANGED object => SameHistories
  BY <1>1 DEF SameHistories
<1>3. ASSUME NEW t, Becomes(n, t), t.pc \in (Thinking \ {"classify"}) \cup {"ask", "extend"},
             t.object = turn[n].object, t.saved = turn[n].saved, t.solo = turn[n].solo,
             t.after = turn[n].after
      PROVE  \E pc \in (Thinking \ {"classify"}) \cup {"ask", "extend"} :
               Moved(n, pc, turn[n].object, turn[n].saved)
  BY <1>3, OthersStay DEF Moved
<1>4. ASSUME NEW pc \in Ended \ {"answered"}, Becomes(n, Remains(n, pc))
      PROVE  \E p \in Ended : /\ Moved(n, p, NoObject, NewSession)
                              /\ p = "answered" => turn[n].pc \in {"record", "propose"}
  <2>1. pc \in Stage /\ Remains(n, pc).saved = NewSession
    BY <1>4, IdleTurnTyped DEF Stage, Remains, IdleTurn
  <2>2. Moved(n, pc, NoObject, NewSession)
    BY <1>4, <2>1, OthersStay, RemainsTyped DEF Moved
  <2> QED BY <1>4, <2>2
<1>5. CASE Classify(n)
  <2>1. turn[n].pc = "classify" /\ UNCHANGED <<cached, object, row>>
    BY <1>5 DEF Classify, memory, tables
  <2>2. PICK reply \in Reply :
          \/ Becomes(n, [turn[n] EXCEPT !.pc = "route"])
          \/ \E pc \in {"ask", "extend"} :
               Becomes(n, [turn[n] EXCEPT !.reply = reply, !.pc = pc])
    BY <1>5, ClassifyMoves
  <2>3. CASE Becomes(n, [turn[n] EXCEPT !.pc = "route"])
    <3> DEFINE t == [turn[n] EXCEPT !.pc = "route"]
    <3>1. t.pc = "route" /\ t.object = turn[n].object /\ t.saved = turn[n].saved
          /\ t.solo = turn[n].solo /\ t.after = turn[n].after
      BY <1>1 DEF TurnState
    <3> HIDE DEF t
    <3>2. Becomes(n, t)
      BY <2>3 DEF t
    <3> QED BY <1>2, <1>3, <2>1, <3>1, <3>2 DEF Thinks, Thinking
  <2>4. ASSUME NEW pc \in {"ask", "extend"}, Becomes(n, [turn[n] EXCEPT !.reply = reply, !.pc = pc])
        PROVE  Thinks(n)
    <3> DEFINE t == [turn[n] EXCEPT !.reply = reply, !.pc = pc]
    <3>1. t.pc = pc /\ t.object = turn[n].object /\ t.saved = turn[n].saved
          /\ t.solo = turn[n].solo /\ t.after = turn[n].after
      BY <1>1 DEF TurnState
    <3> HIDE DEF t
    <3>2. Becomes(n, t)
      BY <2>4 DEF t
    <3> QED BY <1>2, <1>3, <2>1, <3>1, <3>2 DEF Thinks, Thinking
  <2> QED BY <2>2, <2>3, <2>4
<1>6. CASE Route(n)
  <2>1. turn[n].pc = "route" /\ UNCHANGED <<cached, object, row>>
    BY <1>6 DEF Route, memory, tables
  <2>2. ASSUME NEW pc \in {"call", "follow"}, NEW selected,
               Becomes(n, [turn[n] EXCEPT !.pc = pc, !.selected = selected])
        PROVE  Thinks(n)
    <3> DEFINE t == [turn[n] EXCEPT !.pc = pc, !.selected = selected]
    <3>1. t.pc = pc /\ t.object = turn[n].object /\ t.saved = turn[n].saved
          /\ t.solo = turn[n].solo /\ t.after = turn[n].after
      BY <1>1 DEF TurnState
    <3> HIDE DEF t
    <3>2. Becomes(n, t)
      BY <2>2 DEF t
    <3> QED BY <1>2, <1>3, <2>1, <3>1, <3>2 DEF Thinks, Thinking
  <2> QED BY <1>6, <2>2, RouteMoves
<1>7. CASE LegacyRoute(n)
  <2>1. turn[n].pc = "route" /\ UNCHANGED <<cached, object, row>>
    BY <1>7 DEF LegacyRoute, memory, tables
  <2>2. ASSUME NEW pc \in {"call", "guard"}, NEW selected,
               Becomes(n, [turn[n] EXCEPT !.pc = pc, !.selected = selected])
        PROVE  Thinks(n)
    <3> DEFINE t == [turn[n] EXCEPT !.pc = pc, !.selected = selected]
    <3>1. t.pc = pc /\ t.object = turn[n].object /\ t.saved = turn[n].saved
          /\ t.solo = turn[n].solo /\ t.after = turn[n].after
      BY <1>1 DEF TurnState
    <3> HIDE DEF t
    <3>2. Becomes(n, t)
      BY <2>2 DEF t
    <3> QED BY <1>2, <1>3, <2>1, <3>1, <3>2 DEF Thinks, Thinking
  <2> QED BY <1>7, <2>2, LegacyRouteMoves
<1>8. CASE Follow(n)
  <2>1. turn[n].pc = "follow" /\ UNCHANGED <<cached, object, row>>
    BY <1>8 DEF Follow, memory, tables
  <2> DEFINE t == [turn[n] EXCEPT !.pc = "guard", !.selected = Session(n).active, !.continues = TRUE]
  <2>2. t.pc = "guard" /\ t.object = turn[n].object /\ t.saved = turn[n].saved
        /\ t.solo = turn[n].solo /\ t.after = turn[n].after
    BY <1>1 DEF TurnState
  <2>3. Becomes(n, t)
    BY <1>8, FollowMoves
  <2> HIDE DEF t
  <2> QED BY <1>2, <1>3, <2>1, <2>2, <2>3 DEF Thinks, Thinking
<1>9. CASE Call(n)
  <2>1. turn[n].pc = "call" /\ UNCHANGED <<cached, row>>
    BY <1>9 DEF Call, tables
  <2>2. PICK selected \in Agent :
          /\ object' = [object EXCEPT ![turn[n].object].active = selected]
          /\ Becomes(n, [turn[n] EXCEPT !.pc = "guard", !.selected = selected])
    BY <1>9, CallMoves
  <2> DEFINE t == [turn[n] EXCEPT !.pc = "guard", !.selected = selected]
  <2>3. t.pc = "guard" /\ t.object = turn[n].object /\ t.saved = turn[n].saved
        /\ t.solo = turn[n].solo /\ t.after = turn[n].after
    BY <1>1 DEF TurnState
  <2>4. turn[n].object \in Object
    BY <2>1, SessionTyped DEF Working
  <2>5. SameHistories
    BY <2>2, <2>4, ActiveChanges DEF SameHistories
  <2>6. Becomes(n, t)
    BY <2>2
  <2> HIDE DEF t
  <2> QED BY <1>3, <2>1, <2>3, <2>5, <2>6 DEF Thinks, Thinking
<1>10. CASE Admit(n)
  <2>1. turn[n].pc = "guard" /\ UNCHANGED <<cached, object, row>>
    BY <1>10 DEF Admit, memory, tables
  <2>2. PICK pc \in {"enrich", "answer"} :
          Becomes(n, [turn[n] EXCEPT !.pc = pc, !.asked = <<turn[n].message>>])
    BY <1>10, AdmitMoves
  <2> DEFINE t == [turn[n] EXCEPT !.pc = pc, !.asked = <<turn[n].message>>]
  <2>3. t.pc = pc /\ t.object = turn[n].object /\ t.saved = turn[n].saved
        /\ t.solo = turn[n].solo /\ t.after = turn[n].after
    BY <1>1 DEF TurnState
  <2>4. Becomes(n, t)
    BY <2>2
  <2> HIDE DEF t
  <2> QED BY <1>2, <1>3, <2>1, <2>3, <2>4 DEF Thinks, Thinking
<1>11. CASE Deny(n)
  <2>1. turn[n].pc = "guard" /\ UNCHANGED <<cached, row>>
    BY <1>11 DEF Deny, tables
  <2>2. object' = [object EXCEPT ![turn[n].object].active = None]
    BY <1>11, DenyMoves
  <2>3. turn[n].object \in Object
    BY <2>1, SessionTyped DEF Working
  <2>4. SameHistories
    BY <2>2, <2>3, ActiveChanges DEF SameHistories
  <2>5. ASSUME NEW pc \in {"ask", "extend"}, NEW reply,
               Becomes(n, [turn[n] EXCEPT !.reply = reply, !.pc = pc])
        PROVE  Thinks(n)
    <3> DEFINE t == [turn[n] EXCEPT !.reply = reply, !.pc = pc]
    <3>1. t.pc = pc /\ t.object = turn[n].object /\ t.saved = turn[n].saved
          /\ t.solo = turn[n].solo /\ t.after = turn[n].after
      BY <1>1 DEF TurnState
    <3> HIDE DEF t
    <3>2. Becomes(n, t)
      BY <2>5 DEF t
    <3> QED BY <1>3, <2>1, <2>4, <3>1, <3>2 DEF Thinks, Thinking
  <2>6. ASSUME Becomes(n, Remains(n, "refused")) PROVE Leaves(n)
    <3>1. InProgress(n) /\ "refused" \in Ended \ {"answered"}
      BY <2>1 DEF InProgress, Ended
    <3> QED BY <1>4, <2>1, <2>4, <2>6, <3>1 DEF Leaves
  <2> QED BY <1>11, <2>5, <2>6, DenyMoves
<1>12. CASE Enrich(n)
  <2>1. turn[n].pc = "enrich" /\ UNCHANGED <<cached, object, row>>
    BY <1>12 DEF Enrich, memory, tables
  <2> DEFINE t == [turn[n] EXCEPT !.pc = "answer",
                     !.asked = Enriched(turn[n].message, turn[n].selected, Session(n).history)]
  <2>2. t.pc = "answer" /\ t.object = turn[n].object /\ t.saved = turn[n].saved
        /\ t.solo = turn[n].solo /\ t.after = turn[n].after
    BY <1>1 DEF TurnState
  <2>3. Becomes(n, t)
    BY <1>12, EnrichMoves
  <2> HIDE DEF t
  <2> QED BY <1>2, <1>3, <2>1, <2>2, <2>3 DEF Thinks, Thinking
<1>13. CASE Answer(n)
  <2>1. turn[n].pc = "answer" /\ UNCHANGED <<cached, object, row>>
    BY <1>13 DEF Answer, memory, tables
  <2>2. PICK reply \in Reply, pc \in {"ask", "extend"} :
          Becomes(n, [turn[n] EXCEPT !.reply = reply, !.pc = pc])
    BY <1>13, AnswerMoves
  <2> DEFINE t == [turn[n] EXCEPT !.reply = reply, !.pc = pc]
  <2>3. t.pc = pc /\ t.object = turn[n].object /\ t.saved = turn[n].saved
        /\ t.solo = turn[n].solo /\ t.after = turn[n].after
    BY <1>1 DEF TurnState
  <2>4. Becomes(n, t)
    BY <2>2
  <2> HIDE DEF t
  <2> QED BY <1>2, <1>3, <2>1, <2>3, <2>4 DEF Thinks, Thinking
<1>14. CASE Exception(n)
  <2>1. UNCHANGED <<cached, object, row>> /\ InProgress(n)
    BY <1>14 DEF Exception, FailSafe, Fail, Raises, InProgress, Ended, memory, tables
  <2>2. ASSUME turn[n].pc \in {"classify", "call", "guard", "answer", "write"},
               NEW pc \in {"ask", "extend"},
               Becomes(n, [turn[n] EXCEPT !.reply = SafeFailure, !.pc = pc])
        PROVE  Thinks(n)
    <3> DEFINE t == [turn[n] EXCEPT !.reply = SafeFailure, !.pc = pc]
    <3>1. t.pc = pc /\ t.object = turn[n].object /\ t.saved = turn[n].saved
          /\ t.solo = turn[n].solo /\ t.after = turn[n].after
      BY <1>1 DEF TurnState
    <3> HIDE DEF t
    <3>2. Becomes(n, t)
      BY <2>2 DEF t
    <3> QED BY <1>2, <1>3, <2>1, <2>2, <3>1, <3>2 DEF Thinks, Thinking
  <2>3. ASSUME Becomes(n, Remains(n, "failed")) PROVE Leaves(n)
    <3>1. "failed" \in Ended \ {"answered"}
      BY DEF Ended
    <3> QED BY <1>2, <1>4, <2>1, <2>3, <3>1 DEF Leaves
  <2> QED BY <1>14, <2>2, <2>3, ExceptionMoves
<1> QED BY <1>5, <1>6, <1>7, <1>8, <1>9, <1>10, <1>11, <1>12, <1>13, <1>14
        DEF ChooseAgent, Execute

\* Every step of a turn is one of these moves.
LEMMA TurnSteps ==
  ASSUME TypeOK, Refs, NEW n \in Turn, TurnStep(n)
  PROVE  TurnMoves(n) /\ UNCHANGED <<reset, limits>>
<1>1. turn \in [Turn -> TurnState] /\ object \in [Object -> SessionState]
  BY DEF TypeOK
<1>2. UNCHANGED <<reset, limits>>
  BY DEF TurnStep, GetSession, ChooseAgent, Execute, Persist, Conclude, Exception, Load, Install,
         Fetch, Classify, Route, Follow, LegacyRoute, Call, Admit, Deny, Enrich, Answer,
         AppendQuestion, AppendAnswer, Extend, Appends, Snapshot, Write, Record, Propose,
         FailSafe, Fail, limits
<1>3. ASSUME NEW t, Becomes(n, t), t.solo = turn[n].solo, t.after = turn[n].after
      PROVE  Moved(n, t.pc, t.object, t.saved)
  BY <1>3, OthersStay DEF Moved
<1>4. CASE Load(n)
  <2>1. turn[n].pc = "load" /\ UNCHANGED <<cached, object, row>>
    BY <1>4 DEF Load, memory, tables
  <2> DEFINE t == [turn[n] EXCEPT !.pc = "install", !.saved = row]
  <2>2. Becomes(n, t)
    BY <1>4, LoadMoves
  <2>3. t.pc = "install" /\ t.object = turn[n].object /\ t.saved = row
        /\ t.solo = turn[n].solo /\ t.after = turn[n].after
    BY <1>1 DEF TurnState
  <2> HIDE DEF t
  <2>4. Moved(n, "install", turn[n].object, row)
    BY <1>3, <2>2, <2>3
  <2> QED BY <1>2, <2>1, <2>4 DEF Loads, TurnMoves
<1>5. CASE Install(n)
  <2>1. /\ turn[n].pc = "install" /\ cached' = n /\ UNCHANGED row
        /\ object' = [object EXCEPT ![n] = turn[n].saved]
    BY <1>5 DEF Install, tables
  <2> DEFINE t == [turn[n] EXCEPT !.pc = "fetch", !.saved = NewSession]
  <2>2. Becomes(n, t)
    BY <1>5, InstallMoves
  <2>3. t.pc = "fetch" /\ t.object = turn[n].object /\ t.saved = NewSession
        /\ t.solo = turn[n].solo /\ t.after = turn[n].after
    BY <1>1 DEF TurnState
  <2> HIDE DEF t
  <2>4. Moved(n, "fetch", turn[n].object, NewSession)
    BY <1>3, <2>2, <2>3
  <2> QED BY <1>2, <2>1, <2>4 DEF Installs, TurnMoves
<1>6. CASE Fetch(n)
  <2>1. turn[n].pc = "fetch" /\ UNCHANGED <<cached, object, row>>
    BY <1>6 DEF Fetch, memory, tables
  <2> DEFINE t == [turn[n] EXCEPT !.pc = "classify", !.object = cached]
  <2>2. Becomes(n, t)
    BY <1>6, FetchMoves
  <2>3. t.pc = "classify" /\ t.object = cached /\ t.saved = turn[n].saved
        /\ t.solo = turn[n].solo /\ t.after = turn[n].after
    BY <1>1 DEF TurnState
  <2> HIDE DEF t
  <2>4. Moved(n, "classify", cached, turn[n].saved)
    BY <1>3, <2>2, <2>3
  <2> QED BY <1>2, <2>1, <2>4 DEF Fetches, TurnMoves
<1>7. CASE AppendQuestion(n) \/ AppendAnswer(n) \/ Extend(n)
  <2>1. UNCHANGED <<cached, row>>
    BY <1>7 DEF AppendQuestion, AppendAnswer, Extend, Appends, tables
  <2>2. ASSUME NEW from \in {"ask", "reply", "extend"}, NEW to \in {"reply", "snapshot"},
               NEW entries \in Seq(Entry), turn[n].pc = from, Grows(n, entries),
               Becomes(n, [turn[n] EXCEPT !.pc = to])
        PROVE  Tells(n, from, to, entries)
    <3> DEFINE t == [turn[n] EXCEPT !.pc = to]
    <3>1. t.pc = to /\ t.object = turn[n].object /\ t.saved = turn[n].saved
          /\ t.solo = turn[n].solo /\ t.after = turn[n].after
      BY <1>1 DEF TurnState
    <3>2. Becomes(n, t)
      BY <2>2
    <3> HIDE DEF t
    <3>3. Moved(n, to, turn[n].object, turn[n].saved)
      BY <1>3, <3>1, <3>2
    <3>4. turn[n].object \in Object
      BY <2>2, SessionTyped DEF Working
    <3>5. /\ object' \in [Object -> SessionState]
          /\ object'[turn[n].object].history = object[turn[n].object].history \o entries
          /\ \A p \in Object : p # turn[n].object => object'[p] = object[p]
      BY <2>2, <3>4, HistoryGrows
    <3> QED BY <2>1, <2>2, <3>3, <3>5 DEF Tells
  <2>3. /\ << <<n, "question">> >> \in Seq(Entry)
        /\ << <<n, "answer">> >> \in Seq(Entry)
        /\ << <<n, "question">>, <<n, "answer">> >> \in Seq(Entry)
    BY DEF Entry
  <2> QED BY <1>2, <1>7, <2>2, <2>3, AppendMoves DEF TurnMoves
<1>8. CASE Snapshot(n)
  <2>1. turn[n].pc = "snapshot" /\ UNCHANGED <<cached, object, row>>
    BY <1>8 DEF Snapshot, memory, tables
  <2> DEFINE t == [turn[n] EXCEPT !.pc = "write", !.saved = Session(n)]
  <2>2. Becomes(n, t)
    BY <1>8, SnapshotMoves
  <2>3. t.pc = "write" /\ t.object = turn[n].object /\ t.saved = Session(n)
        /\ t.solo = turn[n].solo /\ t.after = turn[n].after
    BY <1>1 DEF TurnState
  <2> HIDE DEF t
  <2>4. Moved(n, "write", turn[n].object, Session(n))
    BY <1>3, <2>2, <2>3
  <2> QED BY <1>2, <2>1, <2>4 DEF Snapshots, TurnMoves
<1>9. CASE Write(n)
  <2>1. turn[n].pc = "write" /\ row' = turn[n].saved /\ UNCHANGED <<cached, object>>
    BY <1>9 DEF Write, memory
  <2> DEFINE t == [turn[n] EXCEPT !.pc = "record", !.saved = NewSession]
  <2>2. Becomes(n, t)
    BY <1>9, WriteMoves
  <2>3. t.pc = "record" /\ t.object = turn[n].object /\ t.saved = NewSession
        /\ t.solo = turn[n].solo /\ t.after = turn[n].after
    BY <1>1 DEF TurnState
  <2> HIDE DEF t
  <2>4. Moved(n, "record", turn[n].object, NewSession)
    BY <1>3, <2>2, <2>3
  <2> QED BY <1>2, <2>1, <2>4 DEF Writes, TurnMoves
<1>10. CASE Conclude(n)
  <2>1. UNCHANGED <<cached, object, row>>
    BY <1>10 DEF Conclude, Record, Propose, memory
  <2>2. ASSUME turn[n].pc = "record", Becomes(n, [turn[n] EXCEPT !.pc = "propose"])
        PROVE  Proposes(n)
    <3> DEFINE t == [turn[n] EXCEPT !.pc = "propose"]
    <3>1. t.pc = "propose" /\ t.object = turn[n].object /\ t.saved = turn[n].saved
          /\ t.solo = turn[n].solo /\ t.after = turn[n].after
      BY <1>1 DEF TurnState
    <3>2. Becomes(n, t)
      BY <2>2
    <3> HIDE DEF t
    <3>3. Moved(n, "propose", turn[n].object, turn[n].saved)
      BY <1>3, <3>1, <3>2
    <3> QED BY <2>1, <2>2, <3>3 DEF Proposes
  <2>3. ASSUME turn[n].pc \in {"record", "propose"}, Becomes(n, Remains(n, "answered"))
        PROVE  Leaves(n)
    <3>1. "answered" \in Ended /\ "answered" \in Stage /\ InProgress(n)
      BY <2>3 DEF Ended, Stage, InProgress
    <3>2. Remains(n, "answered").saved = NewSession
      BY IdleTurnTyped DEF Remains, IdleTurn
    <3>3. Moved(n, "answered", NoObject, NewSession)
      BY <1>3, <2>3, <3>1, <3>2, RemainsTyped
    <3>4. SameHistories
      BY <1>1, <2>1 DEF SameHistories
    <3> QED BY <2>1, <2>3, <3>1, <3>3, <3>4 DEF Leaves
  <2> QED BY <1>2, <1>10, <2>2, <2>3, ConcludeMoves DEF TurnMoves
<1>11. CASE ChooseAgent(n) \/ Execute(n) \/ Exception(n)
  BY <1>2, <1>11, ThinkSteps DEF TurnMoves
<1> QED BY <1>4, <1>5, <1>6, <1>7, <1>8, <1>9, <1>10, <1>11 DEF TurnStep, GetSession, Persist

------------------------------------------------------------------------------
(* The type invariant *)

\* A session object is named by one request, and "no object" by none.
LEMMA Names ==
  /\ Turn \cap Reset = {} /\ NoObject \notin Object
  /\ Turn \subseteq Object /\ Reset \subseteq Object
BY OrchestratorAssumption DEF Turn, Reset, Object, NoObject

\* What is proposed is due, so its kind is one of the table.
Due == \A n \in Turn : turn[n].pc = "propose" => ShouldPropose(turn[n].reply)

Typed == TypeOK /\ Refs /\ Due

\* The invariant holds at the start.
LEMMA TypedInit == Init => Typed
<1> SUFFICES ASSUME Init PROVE Typed
  OBVIOUS
<1>1. IdleTurn.pc = "idle" /\ IdleReset.pc = "idle"
  BY DEF IdleTurn, IdleReset
<1>2. IdleReset \in ResetState
  BY NewSessionTyped DEF IdleReset, ResetState, ResetStage
<1>3. TypeOK
  BY <1>2, OrchestratorAssumption, IdleTurnTyped, NewSessionTyped, Names DEF Init, TypeOK
<1>4. Refs
  BY <1>1, IdleTurnTyped, Names DEF Init, Refs, Working
<1>5. Due
  BY <1>1 DEF Init, Due
<1> QED BY <1>3, <1>4, <1>5 DEF Typed

\* The moves keep the session typed and its objects known.
LEMMA MovesTyped ==
  ASSUME TypeOK, Refs, NEW n \in Turn, TurnMoves(n), UNCHANGED reset
  PROVE  /\ cached' \in Object \cup {NoObject}
         /\ object' \in [Object -> SessionState]
         /\ row' \in SessionState
         /\ turn' \in [Turn -> TurnState]
         /\ Refs'
<1>1. /\ cached \in Object \cup {NoObject} /\ object \in [Object -> SessionState]
      /\ row \in SessionState /\ turn \in [Turn -> TurnState]
  BY DEF TypeOK
<1>2. turn[n].saved \in SessionState
  BY <1>1 DEF TurnState
<1>3. CASE Loads(n)
  BY <1>1, <1>3 DEF Loads, Moved, Refs, Working
<1>4. CASE Installs(n)
  BY <1>1, <1>2, <1>4, Names DEF Installs, Moved, Refs, Working
<1>5. CASE Fetches(n)
  BY <1>1, <1>5 DEF Fetches, Moved, Refs, Working
<1>6. CASE Thinks(n)
  BY <1>1, <1>6 DEF Thinks, Thinking, SameHistories, Moved, Refs, Working
<1>7. ASSUME NEW from \in {"ask", "reply", "extend"}, NEW to \in {"reply", "snapshot"},
             NEW entries, Tells(n, from, to, entries)
      PROVE  /\ cached' \in Object \cup {NoObject} /\ object' \in [Object -> SessionState]
             /\ row' \in SessionState /\ turn' \in [Turn -> TurnState] /\ Refs'
  BY <1>1, <1>7 DEF Tells, Moved, Refs, Working
<1>8. CASE Snapshots(n)
  BY <1>1, <1>8 DEF Snapshots, Moved, Refs, Working
<1>9. CASE Writes(n)
  BY <1>1, <1>2, <1>9 DEF Writes, Moved, Refs, Working
<1>10. CASE Proposes(n)
  BY <1>1, <1>10 DEF Proposes, Moved, Refs, Working
<1>11. CASE Leaves(n)
  <2>1. /\ turn' \in [Turn -> TurnState] /\ object' \in [Object -> SessionState]
        /\ UNCHANGED <<cached, row>>
        /\ \A m \in Turn : m # n => turn'[m] = turn[m]
        /\ turn'[n].object = NoObject
    BY <1>11 DEF Leaves, SameHistories, Moved
  <2>2. turn'[n].pc \notin Working \cup {"idle", "load", "install", "fetch"}
    BY <1>11 DEF Leaves, Moved, Working, Ended
  <2> QED BY <1>1, <2>1, <2>2, Names DEF Refs
<1> QED BY <1>3, <1>4, <1>5, <1>6, <1>7, <1>8, <1>9, <1>10, <1>11 DEF TurnMoves

\* A step of a turn keeps it.
LEMMA TypedTurn ==
  ASSUME Typed, NEW n \in Turn, TurnStep(n)
  PROVE  Typed'
<1>1. TypeOK /\ Refs /\ Due
  BY DEF Typed
<1>2. TurnMoves(n) /\ UNCHANGED <<reset, limits>>
  BY <1>1, TurnSteps
<1>3. /\ cached' \in Object \cup {NoObject} /\ object' \in [Object -> SessionState]
      /\ row' \in SessionState /\ turn' \in [Turn -> TurnState] /\ Refs'
  BY <1>1, <1>2, MovesTyped
<1>4. \/ UNCHANGED recorded
      \/ recorded' = recorded \cup {n}
  BY DEF TurnStep, GetSession, ChooseAgent, Execute, Persist, Conclude, Exception, Load, Install,
         Fetch, Classify, Route, Follow, LegacyRoute, Call, Admit, Deny, Enrich, Answer,
         AppendQuestion, AppendAnswer, Extend, Appends, Snapshot, Write, Record, Propose,
         FailSafe, Fail, tables
<1>5. \/ UNCHANGED proposed
      \/ turn[n].pc = "propose" /\ proposed' \subseteq proposed \cup {[action |-> ActionOf(n), by |-> n]}
  <2>1. Propose(n) => turn[n].pc = "propose" /\ proposed' \subseteq proposed \cup {[action |-> ActionOf(n), by |-> n]}
    BY DEF Propose
  <2> QED
    BY <2>1 DEF TurnStep, GetSession, ChooseAgent, Execute, Persist, Conclude, Exception, Load,
         Install, Fetch, Classify, Route, Follow, LegacyRoute, Call, Admit, Deny, Enrich, Answer,
         AppendQuestion, AppendAnswer, Extend, Appends, Snapshot, Write, Record, FailSafe, Fail,
         tables
<1>6. faults' \in 0..MaxFaults
  <2>1. faults \in 0..MaxFaults /\ MaxFaults \in Nat
    BY <1>1, OrchestratorAssumption DEF TypeOK
  <2>2. CASE Exception(n)
    BY <2>1, <2>2 DEF Exception, FailSafe, Fail, Raises
  <2>3. CASE UNCHANGED faults
    BY <2>1, <2>3
  <2> QED
    BY <2>2, <2>3 DEF TurnStep, GetSession, ChooseAgent, Execute, Persist, Conclude, Load,
         Install, Fetch, Classify, Route, Follow, LegacyRoute, Call, Admit, Deny, Enrich, Answer,
         AppendQuestion, AppendAnswer, Extend, Appends, Snapshot, Write, Record, Propose
<1>7. \A p \in proposed' : p.by \in Turn /\ p.action.kind \in {"lead", "test_drive", "service"}
  <2>1. \A p \in proposed : p.by \in Turn /\ p.action.kind \in {"lead", "test_drive", "service"}
    BY <1>1 DEF TypeOK
  <2>2. ASSUME turn[n].pc = "propose"
        PROVE  ActionOf(n).kind \in {"lead", "test_drive", "service"}
    <3>1. turn[n].reply.skill \in DOMAIN KindOf
      BY <1>1, <2>2 DEF Due, ShouldPropose
    <3>2. \A skill \in DOMAIN KindOf : KindOf[skill] \in {"lead", "test_drive", "service"}
      BY DEF KindOf
    <3>3. ActionOf(n).kind = KindOf[turn[n].reply.skill]
      BY DEF ActionOf
    <3> QED BY <3>1, <3>2, <3>3
  <2> QED BY <1>5, <2>1, <2>2
<1>8. TypeOK'
  BY <1>1, <1>2, <1>3, <1>4, <1>6, <1>7 DEF TypeOK, limits
<1>9. Due'
  <2>1. \A m \in Turn : m # n => turn'[m] = turn[m]
    BY <1>2 DEF TurnMoves, Loads, Installs, Fetches, Thinks, Tells, Snapshots, Writes, Proposes,
                Leaves, Moved
  <2>2. ASSUME turn'[n].pc = "propose" PROVE Record(n)
    <3>1. Proposes(n)
      BY <1>2, <2>2 DEF TurnMoves, Loads, Installs, Fetches, Thinks, Thinking, Tells, Snapshots,
                        Writes, Leaves, Ended, Moved
    <3>2. turn[n].pc = "record"
      BY <3>1 DEF Proposes
    <3>3. ~ (Thinks(n) \/ Leaves(n))
      BY <2>2 DEF Thinks, Thinking, Leaves, Ended, Moved
    <3>4. ~ (ChooseAgent(n) \/ Execute(n) \/ Exception(n))
      BY <1>1, <3>3, ThinkSteps
    <3> QED BY <3>2, <3>4 DEF TurnStep, GetSession, Load, Install, Fetch, Persist, AppendQuestion,
                             AppendAnswer, Extend, Snapshot, Write, Conclude, Propose
  <2>3. ASSUME Record(n), turn'[n].pc = "propose" PROVE ShouldPropose(turn'[n].reply)
    <3>1. turn \in [Turn -> TurnState]
      BY <1>1 DEF TypeOK
    <3>2. Remains(n, "answered").pc = "answered"
      BY <1>1, RemainsTyped DEF Stage, Ended
    <3>3. Ends(n, "answered") => turn'[n].pc = "answered"
      BY <3>1, <3>2 DEF Ends
    <3>4. ShouldPropose(turn[n].reply) /\ Goes(n, "propose")
      BY <2>3, <3>3 DEF Record
    <3>5. turn'[n].reply = turn[n].reply
      BY <3>1, <3>4 DEF Goes, TurnState
    <3> QED BY <3>4, <3>5
  <2> QED BY <1>1, <2>1, <2>2, <2>3 DEF Due
<1> QED BY <1>3, <1>8, <1>9 DEF Typed

------------------------------------------------------------------------------
(* What arrivals, resets and crashes do to the session *)

\* Those who are there are met by the newcomer.
Meets(i) == /\ reset'[i].pc = reset[i].pc /\ reset'[i].saved = reset[i].saved
            /\ reset'[i].quiet = (reset[i].quiet /\ ~Resetting(i))

Stays(i) == /\ turn'[i].pc = turn[i].pc /\ turn'[i].object = turn[i].object
            /\ turn'[i].saved = turn[i].saved /\ turn'[i].after = turn[i].after
            /\ turn'[i].reply = turn[i].reply /\ turn'[i].message = turn[i].message
            /\ turn'[i].role = turn[i].role /\ turn'[i].selected = turn[i].selected
            /\ turn'[i].asked = turn[i].asked

Arrives(n) ==
  /\ turn[n].pc = "idle"
  /\ turn' \in [Turn -> TurnState] /\ reset' \in [Reset -> ResetState]
  /\ turn'[n].pc = IF cached = NoObject THEN "load" ELSE "classify"
  /\ turn'[n].object = cached /\ turn'[n].after = Asked /\ turn'[n].solo = (Busy = {})
  /\ turn'[n].reply = NoReply
  /\ \A i \in Turn : i # n => Stays(i) /\ turn'[i].solo = (turn[i].solo /\ ~InProgress(i))
  /\ \A k \in Reset : Meets(k)
  /\ UNCHANGED <<cached, object, row>>

Clears(k) ==
  /\ reset[k].pc = "idle"
  /\ turn' \in [Turn -> TurnState] /\ reset' \in [Reset -> ResetState]
  /\ object' = [object EXCEPT ![k] = NewSession] /\ cached' = k
  /\ \A n \in Turn : Stays(n) /\ turn'[n].solo = FALSE
  /\ reset'[k].pc = "snapshot" /\ reset'[k].quiet = (Busy = {})
  /\ \A i \in Reset : i # k => Meets(i)
  /\ UNCHANGED row

ResetMoved(k, pc, saved) ==
  /\ reset' \in [Reset -> ResetState]
  /\ \A i \in Reset : i # k => reset'[i] = reset[i]
  /\ reset'[k].pc = pc /\ reset'[k].saved = saved
  /\ UNCHANGED <<cached, object, turn>>

ResetMoves(k) ==
  \/ /\ reset[k].pc = "snapshot" /\ ResetMoved(k, "write", object[cached])
     /\ reset'[k].quiet = reset[k].quiet /\ UNCHANGED row
  \/ /\ reset[k].pc = "write" /\ ResetMoved(k, "done", NewSession)
     /\ reset'[k].quiet = reset[k].quiet /\ row' = reset[k].saved
  \/ /\ reset[k].pc = "write" /\ ResetMoved(k, "failed", NewSession)
     /\ reset'[k].quiet = FALSE /\ UNCHANGED row

Dies ==
  /\ turn' \in [Turn -> TurnState] /\ reset' \in [Reset -> ResetState]
  /\ cached' = NoObject /\ object' = [o \in Object |-> NewSession] /\ UNCHANGED row
  /\ \A n \in Turn :
       IF InProgress(n)
       THEN /\ turn'[n].pc = "lost" /\ turn'[n].object = NoObject
            /\ turn'[n].solo = turn[n].solo /\ turn'[n].after = turn[n].after
            /\ turn'[n].reply = NoReply /\ turn'[n].message = turn[n].message
       ELSE turn'[n] = turn[n]
  /\ \A k \in Reset :
       IF Resetting(k) THEN reset'[k].pc = "failed" /\ reset'[k].quiet = FALSE
       ELSE reset'[k] = reset[k]

\* The requests that a newcomer meets.
LEMMA MeetsTyped ==
  ASSUME TypeOK, NEW i \in Reset
  PROVE  LET met == [reset[i] EXCEPT !.quiet = @ /\ ~Resetting(i)]
         IN  /\ met \in ResetState /\ met.pc = reset[i].pc /\ met.saved = reset[i].saved
             /\ met.quiet = (reset[i].quiet /\ ~Resetting(i))
<1> DEFINE quiet == reset[i].quiet /\ ~Resetting(i)
           met   == [reset[i] EXCEPT !.quiet = @ /\ ~Resetting(i)]
<1>1. reset \in [Reset -> ResetState]
  BY DEF TypeOK
<1>2. quiet \in BOOLEAN /\ met = [reset[i] EXCEPT !.quiet = quiet]
  OBVIOUS
<1> SUFFICES /\ met \in ResetState /\ met.pc = reset[i].pc /\ met.saved = reset[i].saved
             /\ met.quiet = quiet
  OBVIOUS
<1> HIDE DEF quiet, met
<1> QED BY <1>1, <1>2 DEF ResetState

\* An arrival is one.
LEMMA ArrivalMoves ==
  ASSUME TypeOK, NEW n \in Turn, Arrive(n)
  PROVE  Arrives(n)
<1>1. PICK m \in Message, r \in Role : Begin(n, m, r)
  BY DEF Arrive
<1>2. \A i \in Turn : i # n => Stays(i)
  <2> SUFFICES ASSUME NEW i \in Turn, i # n PROVE Stays(i)
    OBVIOUS
  <2> DEFINE solo == turn'[i].solo
  <2>1. turn'[i] = [turn[i] EXCEPT !.solo = solo] /\ turn[i] \in TurnState
    BY <1>1, BeginMoves DEF TypeOK
  <2> HIDE DEF solo
  <2> QED BY <2>1 DEF Stays, TurnState
<1>3. /\ reset' \in [Reset -> ResetState]
      /\ \A k \in Reset : Meets(k)
  <2> DEFINE met(k) == [reset[k] EXCEPT !.quiet = @ /\ ~Resetting(k)]
  <2>1. reset' = [k \in Reset |-> met(k)]
    BY <1>1 DEF Begin
  <2>2. \A k \in Reset : /\ met(k) \in ResetState /\ met(k).pc = reset[k].pc
                         /\ met(k).saved = reset[k].saved
                         /\ met(k).quiet = (reset[k].quiet /\ ~Resetting(k))
    BY MeetsTyped
  <2> HIDE DEF met
  <2> QED BY <2>1, <2>2 DEF Meets
<1>4. turn[n].pc = "idle" /\ UNCHANGED <<cached, object, row>>
  BY <1>1 DEF Begin, memory, tables
<1> QED BY <1>1, <1>2, <1>3, <1>4, BeginMoves DEF Arrives

\* A reset that begins makes a session of its own.
LEMMA ResetBeginsMoves ==
  ASSUME TypeOK, NEW k \in Reset, ResetBegins(k)
  PROVE  Clears(k)
<1>1. turn \in [Turn -> TurnState]
  BY DEF TypeOK
<1>2. /\ turn' \in [Turn -> TurnState]
      /\ \A n \in Turn : Stays(n) /\ turn'[n].solo = FALSE
  <2> DEFINE met(n) == [turn[n] EXCEPT !.solo = FALSE]
  <2>1. turn' = [n \in Turn |-> met(n)]
    BY DEF ResetBegins
  <2>2. \A n \in Turn :
          /\ met(n) \in TurnState /\ met(n).pc = turn[n].pc /\ met(n).object = turn[n].object
          /\ met(n).saved = turn[n].saved /\ met(n).after = turn[n].after
          /\ met(n).reply = turn[n].reply /\ met(n).message = turn[n].message
          /\ met(n).role = turn[n].role /\ met(n).selected = turn[n].selected
          /\ met(n).asked = turn[n].asked
          /\ met(n).solo = FALSE
    BY <1>1 DEF TurnState
  <2> HIDE DEF met
  <2> QED BY <2>1, <2>2 DEF Stays
<1>3. /\ reset' \in [Reset -> ResetState]
      /\ reset'[k].pc = "snapshot" /\ reset'[k].quiet = (Busy = {})
      /\ \A i \in Reset : i # k => Meets(i)
  <2> DEFINE quiet  == Busy = {}
             met(i) == [reset[i] EXCEPT !.quiet = @ /\ ~Resetting(i)]
             new    == [IdleReset EXCEPT !.pc = "snapshot", !.quiet = quiet]
  <2>1. reset' = [i \in Reset |-> IF i = k THEN new ELSE met(i)]
    BY DEF ResetBegins
  <2>2. \A i \in Reset : /\ met(i) \in ResetState /\ met(i).pc = reset[i].pc
                         /\ met(i).saved = reset[i].saved
                         /\ met(i).quiet = (reset[i].quiet /\ ~Resetting(i))
    BY MeetsTyped
  <2>3. quiet \in BOOLEAN
    OBVIOUS
  <2> SUFFICES /\ reset' \in [Reset -> ResetState]
               /\ reset'[k].pc = "snapshot" /\ reset'[k].quiet = quiet
               /\ \A i \in Reset : i # k => Meets(i)
    OBVIOUS
  <2> HIDE DEF quiet, met
  <2>4. new \in ResetState /\ new.pc = "snapshot" /\ new.quiet = quiet
    BY <2>3, NewSessionTyped DEF IdleReset, ResetState, ResetStage
  <2> HIDE DEF new
  <2> QED BY <2>1, <2>2, <2>4 DEF Meets
<1>4. /\ reset[k].pc = "idle" /\ UNCHANGED row
      /\ object' = [object EXCEPT ![k] = NewSession] /\ cached' = k
  BY DEF ResetBegins, tables
<1> QED BY <1>2, <1>3, <1>4 DEF Clears

\* What the steps of a reset do.
LEMMA ResetSteps ==
  ASSUME TypeOK, Refs, NEW k \in Reset, ResetStep(k)
  PROVE  ResetMoves(k)
<1>1. reset \in [Reset -> ResetState] /\ object \in [Object -> SessionState]
  BY DEF TypeOK
<1>2. ASSUME NEW pc \in ResetStage, NEW saved \in SessionState,
             reset' = [reset EXCEPT ![k].pc = pc, ![k].saved = saved],
             UNCHANGED <<cached, object, turn>>
      PROVE  ResetMoved(k, pc, saved) /\ reset'[k].quiet = reset[k].quiet
  <2> DEFINE r == [reset[k] EXCEPT !.pc = pc, !.saved = saved]
  <2>1. r \in ResetState /\ r.pc = pc /\ r.saved = saved /\ r.quiet = reset[k].quiet
    BY <1>1 DEF ResetState
  <2>2. reset' = [reset EXCEPT ![k] = r]
    BY <1>1, <1>2 DEF ResetState
  <2> HIDE DEF r
  <2> QED BY <1>1, <1>2, <2>1, <2>2 DEF ResetMoved
<1>3. CASE ResetSnapshot(k)
  <2>1. /\ reset[k].pc = "snapshot" /\ UNCHANGED <<cached, object, turn, row>>
        /\ reset' = [reset EXCEPT ![k].pc = "write", ![k].saved = object[cached]]
    BY <1>3 DEF ResetSnapshot, memory, tables
  <2>2. object[cached] \in SessionState /\ "write" \in ResetStage
    BY <1>1, <2>1 DEF Refs, TypeOK, ResetStage
  <2> QED BY <1>2, <2>1, <2>2 DEF ResetMoves
<1>4. CASE ResetWrites(k)
  <2>1. /\ reset[k].pc = "write" /\ UNCHANGED <<cached, object, turn>> /\ row' = reset[k].saved
        /\ reset' = [reset EXCEPT ![k].pc = "done", ![k].saved = NewSession]
    BY <1>4 DEF ResetWrites, memory
  <2>2. "done" \in ResetStage
    BY DEF ResetStage
  <2> QED BY <1>2, <2>1, <2>2, NewSessionTyped DEF ResetMoves
<1>5. CASE ResetFails(k)
  <2> DEFINE r == [IdleReset EXCEPT !.pc = "failed"]
  <2>1. /\ reset[k].pc = "write" /\ UNCHANGED <<cached, object, turn, row>>
        /\ reset' = [reset EXCEPT ![k] = r]
    BY <1>5 DEF ResetFails, memory, tables
  <2>2. r \in ResetState /\ r.pc = "failed" /\ r.saved = NewSession /\ r.quiet = FALSE
    BY NewSessionTyped DEF IdleReset, ResetState, ResetStage
  <2> HIDE DEF r
  <2>3. ResetMoved(k, "failed", NewSession) /\ reset'[k].quiet = FALSE
    BY <1>1, <2>1, <2>2 DEF ResetMoved
  <2> QED BY <2>1, <2>3 DEF ResetMoves
<1> QED BY <1>3, <1>4, <1>5 DEF ResetStep

\* What a crash does.
LEMMA CrashMoves ==
  ASSUME TypeOK, Crash
  PROVE  Dies
<1>1. turn \in [Turn -> TurnState] /\ reset \in [Reset -> ResetState]
  BY DEF TypeOK
<1>2. /\ turn' \in [Turn -> TurnState]
      /\ \A n \in Turn :
           IF InProgress(n)
           THEN /\ turn'[n].pc = "lost" /\ turn'[n].object = NoObject
                /\ turn'[n].solo = turn[n].solo /\ turn'[n].after = turn[n].after
                /\ turn'[n].reply = NoReply /\ turn'[n].message = turn[n].message
           ELSE turn'[n] = turn[n]
  <2>1. turn' = [n \in Turn |-> IF InProgress(n) THEN Remains(n, "lost") ELSE turn[n]]
    BY DEF Crash
  <2>2. "lost" \in Stage
    BY DEF Stage, Ended
  <2> QED BY <1>1, <2>1, <2>2, RemainsTyped
<1>3. /\ reset' \in [Reset -> ResetState]
      /\ \A k \in Reset :
           IF Resetting(k) THEN reset'[k].pc = "failed" /\ reset'[k].quiet = FALSE
           ELSE reset'[k] = reset[k]
  <2> DEFINE r == [IdleReset EXCEPT !.pc = "failed"]
  <2>1. reset' = [k \in Reset |-> IF Resetting(k) THEN r ELSE reset[k]]
    BY DEF Crash
  <2>2. r \in ResetState /\ r.pc = "failed" /\ r.quiet = FALSE
    BY NewSessionTyped DEF IdleReset, ResetState, ResetStage
  <2> HIDE DEF r
  <2> QED BY <1>1, <2>1, <2>2
<1> QED BY <1>2, <1>3 DEF Crash, Dies, tables

\* Every step is a move of one request, or a crash.
LEMMA Steps ==
  ASSUME TypeOK, Refs, [Next]_vars
  PROVE  \/ \E n \in Turn : Arrives(n) \/ (TurnMoves(n) /\ UNCHANGED reset)
         \/ \E k \in Reset : Clears(k) \/ ResetMoves(k)
         \/ Dies
         \/ UNCHANGED <<cached, object, row, turn, reset>>
<1>1. \A n \in Turn : Arrive(n) => Arrives(n)
  BY ArrivalMoves
<1>2. \A n \in Turn : TurnStep(n) => TurnMoves(n) /\ UNCHANGED reset
  BY TurnSteps
<1>3. \A k \in Reset : (ResetBegins(k) => Clears(k)) /\ (ResetStep(k) => ResetMoves(k))
  BY ResetBeginsMoves, ResetSteps
<1>4. Crash => Dies
  BY CrashMoves
<1>5. CASE UNCHANGED vars
  BY <1>5 DEF vars, memory, tables
<1> QED BY <1>1, <1>2, <1>3, <1>4, <1>5 DEF Next

\* Every step keeps types and references.
LEMMA TypedNext == Typed /\ [Next]_vars => Typed'
<1> SUFFICES ASSUME Typed, [Next]_vars PROVE Typed'
  OBVIOUS
<1>1. TypeOK /\ Refs /\ Due
  BY DEF Typed
<1>2. /\ cached \in Object \cup {NoObject} /\ object \in [Object -> SessionState]
      /\ row \in SessionState /\ turn \in [Turn -> TurnState] /\ reset \in [Reset -> ResetState]
      /\ crashes \in 0..MaxCrashes /\ faults \in 0..MaxFaults
      /\ MaxCrashes \in Nat /\ MaxFaults \in Nat
  BY <1>1, OrchestratorAssumption DEF TypeOK
<1>3. ASSUME NEW n \in Turn, Arrive(n) PROVE Typed'
  <2>1. Arrives(n)
    BY <1>1, <1>3, ArrivalMoves
  <2>2. UNCHANGED <<tables, limits, faults>>
    BY <1>3 DEF Arrive, Begin
  <2>3. TypeOK'
    BY <1>1, <2>1, <2>2 DEF TypeOK, Arrives, tables, limits
  <2>4. Refs'
    BY <1>1, <1>2, <2>1 DEF Refs, Arrives, Stays, Meets, Working
  <2>5. Due'
    BY <1>1, <2>1 DEF Due, Arrives, Stays
  <2> QED BY <2>3, <2>4, <2>5 DEF Typed
<1>4. ASSUME NEW n \in Turn, TurnStep(n) PROVE Typed'
  BY <1>4, TypedTurn
<1>5. ASSUME NEW k \in Reset, ResetBegins(k) PROVE Typed'
  <2>1. Clears(k)
    BY <1>1, <1>5, ResetBeginsMoves
  <2>2. UNCHANGED <<tables, limits, faults>>
    BY <1>5 DEF ResetBegins
  <2>3. TypeOK'
    BY <1>1, <2>1, <2>2, NewSessionTyped, Names DEF TypeOK, Clears, tables, limits
  <2>4. Refs'
    BY <1>1, <1>2, <2>1, Names DEF Refs, Clears, Stays, Meets, Working
  <2>5. Due'
    BY <1>1, <2>1 DEF Due, Clears, Stays
  <2> QED BY <2>3, <2>4, <2>5 DEF Typed
<1>6. ASSUME NEW k \in Reset, ResetStep(k) PROVE Typed'
  <2>1. ResetMoves(k)
    BY <1>1, <1>6, ResetSteps
  <2>2. UNCHANGED <<recorded, proposed, limits>> /\ faults' \in 0..MaxFaults
    BY <1>2, <1>6 DEF ResetStep, ResetSnapshot, ResetWrites, ResetFails, tables
  <2>3. row' \in SessionState
    BY <1>2, <2>1 DEF ResetMoves, ResetState
  <2>4. TypeOK'
    BY <1>1, <2>1, <2>2, <2>3 DEF TypeOK, ResetMoves, ResetMoved, limits
  <2>5. Refs'
    BY <1>1, <1>2, <2>1 DEF Refs, ResetMoves, ResetMoved
  <2>6. Due'
    BY <1>1, <2>1 DEF Due, ResetMoves, ResetMoved
  <2> QED BY <2>4, <2>5, <2>6 DEF Typed
<1>7. CASE Crash
  <2>1. Dies
    BY <1>1, <1>7, CrashMoves
  <2>2. UNCHANGED <<tables, mode, faults>> /\ crashes' \in 0..MaxCrashes
    BY <1>2, <1>7 DEF Crash
  <2>3. TypeOK'
    BY <1>1, <2>1, <2>2, NewSessionTyped DEF TypeOK, Dies, tables
  <2>4. Refs'
    BY <1>1, <1>2, <2>1, Names DEF Refs, Dies, InProgress, Resetting, Working, Ended
  <2>5. Due'
    BY <1>1, <2>1 DEF Due, Dies
  <2> QED BY <2>3, <2>4, <2>5 DEF Typed
<1>8. CASE UNCHANGED vars
  <2>1. UNCHANGED <<cached, object, row, recorded, proposed, turn, reset, mode, crashes, faults>>
    BY <1>8 DEF vars, memory, tables, limits
  <2> QED BY <1>1, <2>1 DEF Typed, TypeOK, Refs, Due, Working
<1> QED BY <1>3, <1>4, <1>5, <1>6, <1>7, <1>8 DEF Next

\* Every request has the state of its handler's variables, whatever interleaves:
\* nobody works on a session it does not hold, and no other kind of action is
\* proposed than those of the table in main.py.
THEOREM TypeCorrect == Spec => []TypeOK
<1>1. Spec => []Typed
  BY TypedInit, TypedNext, PTL DEF Spec
<1>2. Typed => TypeOK
  BY DEF Typed
<1> QED BY <1>1, <1>2, PTL

------------------------------------------------------------------------------
(* No answer before its question *)

Ordered(history) ==
  \A i \in DOMAIN history : history[i][2] = "answer" =>
    \E j \in 1..i-1 : history[j] = <<history[i][1], "question">>

\* A question may be added at any time, an answer once its question is there.
LEMMA OrderedGrows ==
  ASSUME NEW history \in Seq(Entry), Ordered(history), NEW n \in Turn
  PROVE  /\ Ordered(history \o << <<n, "question">> >>)
         /\ <<n, "question">> \in ToSet(history) => Ordered(history \o << <<n, "answer">> >>)
         /\ Ordered(history \o << <<n, "question">>, <<n, "answer">> >>)
<1>1. ASSUME NEW h \in Seq(Entry), Ordered(h), NEW e \in Entry,
             e[2] = "answer" => \E j \in DOMAIN h : h[j] = <<e[1], "question">>
      PROVE  Ordered(h \o <<e>>)
  <2> DEFINE g == h \o <<e>>
  <2>1. /\ Len(h) \in Nat /\ DOMAIN h = 1..Len(h) /\ DOMAIN g = 1..Len(h)+1
        /\ \A i \in 1..Len(h) : g[i] = h[i]
        /\ g[Len(h)+1] = e
    BY <1>1
  <2> SUFFICES ASSUME NEW i \in DOMAIN g, g[i][2] = "answer"
               PROVE  \E j \in 1..i-1 : g[j] = <<g[i][1], "question">>
    BY DEF Ordered
  <2> HIDE DEF g
  <2>2. CASE i \in 1..Len(h)
    <3>1. h[i][2] = "answer"
      BY <2>1, <2>2
    <3>2. PICK j \in 1..i-1 : h[j] = <<h[i][1], "question">>
      BY <1>1, <2>1, <2>2, <3>1 DEF Ordered
    <3> QED BY <2>1, <2>2, <3>2
  <2>3. CASE i = Len(h) + 1
    <3>1. e[2] = "answer"
      BY <2>1, <2>3
    <3>2. PICK j \in DOMAIN h : h[j] = <<e[1], "question">>
      BY <1>1, <3>1
    <3> QED BY <2>1, <2>3, <3>2
  <2> QED BY <2>1, <2>2, <2>3
<1>2. <<n, "question">> \in Entry /\ <<n, "answer">> \in Entry
  BY DEF Entry
<1>3. Ordered(history \o << <<n, "question">> >>)
  BY <1>1, <1>2
<1>4. <<n, "question">> \in ToSet(history) => Ordered(history \o << <<n, "answer">> >>)
  BY <1>1, <1>2 DEF ToSet
<1>5. Ordered(history \o << <<n, "question">>, <<n, "answer">> >>)
  <2> DEFINE asked == history \o << <<n, "question">> >>
  <2>1. asked \in Seq(Entry) /\ Ordered(asked)
    BY <1>2, <1>3
  <2>2. \E j \in DOMAIN asked : asked[j] = <<n, "question">>
    <3>1. Len(history) + 1 \in DOMAIN asked /\ asked[Len(history) + 1] = <<n, "question">>
      BY <1>2
    <3> QED BY <3>1
  <2>3. history \o << <<n, "question">>, <<n, "answer">> >> = asked \o << <<n, "answer">> >>
    BY <1>2
  <2> HIDE DEF asked
  <2>4. Ordered(asked \o << <<n, "answer">> >>)
    BY <1>1, <1>2, <2>1, <2>2
  <2> QED BY <2>3, <2>4
<1> QED BY <1>3, <1>4, <1>5

\* An empty history is in order.
LEMMA NewSessionOrdered == Ordered(NewSession.history) /\ ToSet(NewSession.history) = {}
BY DEF NewSession, Ordered, ToSet

\* Every copy of the session that is about is in order, and a turn between its two
\* entries has its question in the object.
Orderly ==
  /\ Ordered(row.history)
  /\ \A o \in Object : Ordered(object[o].history)
  /\ \A n \in Turn : turn[n].pc \in {"install", "write"} => Ordered(turn[n].saved.history)
  /\ \A k \in Reset : reset[k].pc = "write" => Ordered(reset[k].saved.history)
  /\ \A n \in Turn :
       turn[n].pc = "reply" => <<n, "question">> \in ToSet(object[turn[n].object].history)

\* What was said stays said.
LEMMA SaidStays ==
  ASSUME NEW history \in Seq(Entry), NEW entries \in Seq(Entry)
  PROVE  ToSet(history \o entries) = ToSet(history) \cup ToSet(entries)
<1> DEFINE h == history \o entries
<1>1. /\ Len(history) \in Nat /\ DOMAIN history = 1..Len(history)
      /\ Len(entries) \in Nat /\ DOMAIN entries = 1..Len(entries)
      /\ DOMAIN h = 1..Len(history) + Len(entries)
      /\ \A i \in 1..Len(history) : h[i] = history[i]
      /\ \A i \in 1..Len(entries) : h[Len(history) + i] = entries[i]
  OBVIOUS
<1>2. \A i \in DOMAIN h : i \in 1..Len(history) \/ i - Len(history) \in 1..Len(entries)
  BY <1>1
<1> HIDE DEF h
<1>3. ToSet(h) = ToSet(history) \cup ToSet(entries)
  <2>1. \A e \in ToSet(history) : e \in ToSet(h)
    BY <1>1 DEF ToSet
  <2>2. \A e \in ToSet(entries) : e \in ToSet(h)
    <3> SUFFICES ASSUME NEW i \in DOMAIN entries PROVE entries[i] \in ToSet(h)
      BY DEF ToSet
    <3>1. Len(history) + i \in DOMAIN h /\ h[Len(history) + i] = entries[i]
      BY <1>1
    <3> QED BY <3>1 DEF ToSet
  <2>3. \A e \in ToSet(h) : e \in ToSet(history) \cup ToSet(entries)
    <3> SUFFICES ASSUME NEW i \in DOMAIN h PROVE h[i] \in ToSet(history) \cup ToSet(entries)
      BY DEF ToSet
    <3>1. CASE i \in 1..Len(history)
      BY <1>1, <3>1 DEF ToSet
    <3>2. CASE i - Len(history) \in 1..Len(entries)
      <4> DEFINE j == i - Len(history)
      <4>1. j \in DOMAIN entries /\ i = Len(history) + j
        BY <1>1, <3>2
      <4> QED BY <1>1, <4>1 DEF ToSet
    <3> QED BY <1>2, <3>1, <3>2
  <2> QED BY <2>1, <2>2, <2>3
<1> QED BY <1>3 DEF h

\* The entries that a turn adds.
LEMMA EntriesOf ==
  ASSUME NEW n \in Turn
  PROVE  /\ << <<n, "question">> >> \in Seq(Entry)
         /\ << <<n, "answer">> >> \in Seq(Entry)
         /\ << <<n, "question">>, <<n, "answer">> >> \in Seq(Entry)
         /\ ToSet(<< <<n, "question">> >>) = {<<n, "question">>}
         /\ ToSet(<< <<n, "answer">> >>) = {<<n, "answer">>}
         /\ ToSet(<< <<n, "question">>, <<n, "answer">> >>) = {<<n, "question">>, <<n, "answer">>}
<1>1. <<n, "question">> \in Entry /\ <<n, "answer">> \in Entry
  BY DEF Entry
<1>2. \A e \in Entry : ToSet(<<e>>) = {e}
  BY DEF ToSet
<1>3. \A e, f \in Entry : ToSet(<<e, f>>) = {e, f}
  <2> SUFFICES ASSUME NEW e \in Entry, NEW f \in Entry PROVE ToSet(<<e, f>>) = {e, f}
    OBVIOUS
  <2>1. DOMAIN <<e, f>> = {1, 2} /\ <<e, f>>[1] = e /\ <<e, f>>[2] = f
    OBVIOUS
  <2> DEFINE s == <<e, f>>
  <2>2. ToSet(s) = {s[i] : i \in DOMAIN s}
    BY DEF ToSet
  <2> HIDE DEF s
  <2>3. ToSet(s) = {s[1], s[2]}
    BY <2>1, <2>2 DEF s
  <2> QED BY <2>1, <2>3 DEF s
<1> QED BY <1>1, <1>2, <1>3

\* All histories are empty at the start.
LEMMA OrderlyInit == Init => Orderly
<1> SUFFICES ASSUME Init PROVE Orderly
  OBVIOUS
<1>1. IdleTurn.pc = "idle" /\ IdleReset.pc = "idle"
  BY DEF IdleTurn, IdleReset
<1> QED BY <1>1, NewSessionOrdered, Names DEF Init, Orderly

\* A turn that adds to a history that is in order leaves all of them in order.
LEMMA TellsOrdered ==
  ASSUME TypeOK, Refs, Orderly, NEW n \in Turn,
         NEW from \in {"ask", "reply", "extend"}, NEW to \in {"reply", "snapshot"},
         NEW entries \in Seq(Entry), Tells(n, from, to, entries),
         Ordered(object[turn[n].object].history \o entries),
         to = "reply" => <<n, "question">> \in ToSet(entries),
         UNCHANGED reset
  PROVE  Orderly'
<1> DEFINE o == turn[n].object
<1>1. /\ object \in [Object -> SessionState] /\ object' \in [Object -> SessionState]
      /\ object'[o].history = object[o].history \o entries
      /\ \A p \in Object : p # o => object'[p] = object[p]
      /\ \A m \in Turn : m # n => turn'[m] = turn[m]
      /\ turn'[n].pc = to /\ turn'[n].object = o /\ turn'[n].saved = turn[n].saved
      /\ UNCHANGED <<row, reset>>
  BY DEF Tells, Moved, TypeOK
<1>2. \A m \in Turn : turn[m].pc = "reply" => turn[m].object \in Object
  BY DEF Refs, Working
<1>3. o \in Object /\ object[o].history \in Seq(Entry)
  BY <1>1 DEF Tells, Refs, Working, SessionState, Entry
<1>4. ToSet(object'[o].history) = ToSet(object[o].history) \cup ToSet(entries)
  BY <1>1, <1>3, SaidStays
<1> HIDE DEF o
<1>5. \A p \in Object : Ordered(object'[p].history)
  BY <1>1 DEF Orderly, o
<1>6. ASSUME NEW m \in Turn, turn'[m].pc = "reply"
      PROVE  <<m, "question">> \in ToSet(object'[turn'[m].object].history)
  <2>1. CASE m = n
    BY <1>1, <1>4, <1>6, <2>1
  <2>2. CASE m # n
    <3>1. turn[m].pc = "reply" /\ turn'[m].object = turn[m].object
      BY <1>1, <1>6, <2>2
    <3>2. <<m, "question">> \in ToSet(object[turn[m].object].history)
      BY <3>1 DEF Orderly
    <3>3. ToSet(object[turn[m].object].history) \subseteq ToSet(object'[turn[m].object].history)
      BY <1>1, <1>2, <1>4, <3>1
    <3> QED BY <3>1, <3>2, <3>3
  <2> QED BY <2>1, <2>2
<1>7. \A m \in Turn : turn'[m].pc \in {"install", "write"} => Ordered(turn'[m].saved.history)
  BY <1>1 DEF Orderly
<1> QED BY <1>1, <1>5, <1>6, <1>7 DEF Orderly

\* A step of a turn keeps all histories in order.
LEMMA OrderlyTurn ==
  ASSUME TypeOK, Refs, Orderly, NEW n \in Turn, TurnMoves(n), UNCHANGED reset
  PROVE  Orderly'
<1>1. /\ object \in [Object -> SessionState] /\ turn \in [Turn -> TurnState]
      /\ cached \in Object \cup {NoObject}
  BY DEF TypeOK
<1>2. /\ turn[n].pc \in Working => turn[n].object \in Object
      /\ \A m \in Turn : turn[m].pc = "reply" => turn[m].object \in Object
  BY DEF Refs, Working
<1>3. CASE Loads(n)
  BY <1>1, <1>3 DEF Loads, Moved, Orderly
<1>4. CASE Installs(n)
  <2>1. \A m \in Turn : turn[m].object # n
    BY <1>4 DEF Installs, Refs
  <2>2. /\ \A o \in Object : Ordered(object'[o].history)
        /\ \A o \in Object : o # n => object'[o] = object[o]
    BY <1>1, <1>4 DEF Installs, Orderly
  <2> QED BY <1>2, <1>4, <2>1, <2>2 DEF Installs, Moved, Orderly
<1>5. CASE Fetches(n)
  BY <1>1, <1>5 DEF Fetches, Moved, Orderly
<1>6. CASE Thinks(n)
  BY <1>2, <1>6 DEF Thinks, Thinking, SameHistories, Moved, Orderly
<1>7. CASE Tells(n, "ask", "reply", << <<n, "question">> >>)
  <2>1. object[turn[n].object].history \in Seq(Entry) /\ Ordered(object[turn[n].object].history)
    BY <1>1, <1>2, <1>7 DEF Tells, Working, SessionState, Entry, Orderly
  <2>2. Ordered(object[turn[n].object].history \o << <<n, "question">> >>)
    BY <2>1, OrderedGrows
  <2> QED BY <1>7, <2>2, EntriesOf, TellsOrdered
<1>8. CASE Tells(n, "reply", "snapshot", << <<n, "answer">> >>)
  <2>1. object[turn[n].object].history \in Seq(Entry) /\ Ordered(object[turn[n].object].history)
    BY <1>1, <1>2, <1>8 DEF Tells, Working, SessionState, Entry, Orderly
  <2>2. <<n, "question">> \in ToSet(object[turn[n].object].history)
    BY <1>8 DEF Tells, Orderly
  <2>3. Ordered(object[turn[n].object].history \o << <<n, "answer">> >>)
    BY <2>1, <2>2, OrderedGrows
  <2> QED BY <1>8, <2>3, EntriesOf, TellsOrdered
<1>9. CASE Tells(n, "extend", "snapshot", << <<n, "question">>, <<n, "answer">> >>)
  <2>1. object[turn[n].object].history \in Seq(Entry) /\ Ordered(object[turn[n].object].history)
    BY <1>1, <1>2, <1>9 DEF Tells, Working, SessionState, Entry, Orderly
  <2>2. Ordered(object[turn[n].object].history \o << <<n, "question">>, <<n, "answer">> >>)
    BY <2>1, OrderedGrows
  <2> QED BY <1>9, <2>2, EntriesOf, TellsOrdered
<1>10. CASE Snapshots(n)
  BY <1>1, <1>2, <1>10 DEF Snapshots, Session, Working, Moved, Orderly
<1>11. CASE Writes(n)
  BY <1>11 DEF Writes, Moved, Orderly
<1>12. CASE Proposes(n)
  BY <1>12 DEF Proposes, Moved, Orderly
<1>13. CASE Leaves(n)
  BY <1>2, <1>13 DEF Leaves, Ended, SameHistories, Moved, Orderly
<1> QED BY <1>3, <1>4, <1>5, <1>6, <1>7, <1>8, <1>9, <1>10, <1>11, <1>12, <1>13 DEF TurnMoves

\* So does every step.
LEMMA OrderlyNext == Typed /\ Orderly /\ [Next]_vars => Orderly'
<1> SUFFICES ASSUME Typed, Orderly, [Next]_vars PROVE Orderly'
  OBVIOUS
<1>1. TypeOK /\ Refs
  BY DEF Typed
<1>2. /\ object \in [Object -> SessionState] /\ turn \in [Turn -> TurnState]
      /\ cached \in Object \cup {NoObject}
  BY <1>1 DEF TypeOK
<1>3. \A m \in Turn : turn[m].pc = "reply" => turn[m].object \in Object
  BY <1>1 DEF Refs, Working
<1>4. ASSUME NEW n \in Turn, Arrives(n) PROVE Orderly'
  <2>1. \A m \in Turn : turn'[m].pc \in {"reply", "install", "write"} => m # n
    BY <1>4 DEF Arrives
  <2>2. \A m \in Turn : turn'[m].pc \in {"reply", "install", "write"} => Stays(m)
    BY <1>4, <2>1 DEF Arrives
  <2> QED BY <1>4, <2>2 DEF Arrives, Stays, Meets, Orderly
<1>5. ASSUME NEW n \in Turn, TurnMoves(n), UNCHANGED reset PROVE Orderly'
  BY <1>1, <1>5, OrderlyTurn
<1>6. ASSUME NEW k \in Reset, Clears(k) PROVE Orderly'
  <2>1. \A m \in Turn : turn[m].object # k
    BY <1>1, <1>6 DEF Clears, Refs
  <2>2. /\ \A o \in Object : Ordered(object'[o].history)
        /\ \A o \in Object : o # k => object'[o] = object[o]
    BY <1>2, <1>6, NewSessionOrdered DEF Clears, Orderly
  <2>3. \A i \in Reset : reset'[i].pc = "write" =>
          reset[i].pc = "write" /\ reset'[i].saved = reset[i].saved
    BY <1>6 DEF Clears, Meets
  <2> QED BY <1>3, <1>6, <2>1, <2>2, <2>3 DEF Clears, Stays, Orderly
<1>7. ASSUME NEW k \in Reset, ResetMoves(k) PROVE Orderly'
  <2>1. reset[k].pc = "snapshot" => cached \in Object
    BY <1>1, <1>2 DEF Refs
  <2> QED BY <1>7, <2>1 DEF ResetMoves, ResetMoved, Orderly
<1>8. CASE Dies
  <2>1. \A m \in Turn : turn'[m].pc \notin {"install", "write", "reply"}
    BY <1>8 DEF Dies, InProgress, Ended
  <2>2. \A k \in Reset : reset'[k].pc # "write"
    BY <1>8 DEF Dies, Resetting
  <2> QED BY <1>8, <2>1, <2>2, NewSessionOrdered DEF Dies, Orderly
<1>9. CASE UNCHANGED <<cached, object, row, turn, reset>>
  BY <1>9 DEF Orderly
<1> QED BY <1>1, <1>4, <1>5, <1>6, <1>7, <1>8, <1>9, Steps

\* No history, in the process or in the row, has an answer before its question:
\* two requests may interleave their messages, and the row may get a copy half way.
THEOREM NoAnswerComesFirst == Spec => []QuestionsPrecedeAnswers
<1>1. Init => Typed /\ Orderly
  BY TypedInit, OrderlyInit
<1>2. Typed /\ Orderly /\ [Next]_vars => (Typed /\ Orderly)'
  BY TypedNext, OrderlyNext
<1>3. Typed /\ Orderly => QuestionsPrecedeAnswers
  <2>1. QuestionsPrecedeAnswers <=>
          \A history \in {row.history} \cup {object[o].history : o \in Object} : Ordered(history)
    BY Zenon DEF QuestionsPrecedeAnswers, Ordered
  <2> QED BY <2>1 DEF Orderly
<1> QED BY <1>1, <1>2, <1>3, PTL DEF Spec

------------------------------------------------------------------------------
(* Where the history of the session is *)

\* Every copy that is in the row, is used by somebody or will be written is in S.
Widespread(S) ==
  /\ row.history \in S
  /\ cached # NoObject => object[cached].history \in S
  /\ \A m \in Turn : turn[m].pc \in Working => object[turn[m].object].history \in S
  /\ \A m \in Turn : turn[m].pc \in {"install", "write"} => turn[m].saved.history \in S
  /\ \A k \in Reset : reset[k].pc = "write" => reset[k].saved.history \in S

\* And after the step it still is.
WidespreadNext(S) ==
  /\ row'.history \in S
  /\ cached' # NoObject => object'[cached'].history \in S
  /\ \A m \in Turn : turn'[m].pc \in Working => object'[turn'[m].object].history \in S
  /\ \A m \in Turn : turn'[m].pc \in {"install", "write"} => turn'[m].saved.history \in S
  /\ \A k \in Reset : reset'[k].pc = "write" => reset'[k].saved.history \in S

EntriesBy(n) == {<<n, "question">>, <<n, "answer">>}

\* A turn spreads what it read, with its own entries added.
LEMMA WidespreadTurn ==
  ASSUME TypeOK, Refs, NEW n \in Turn, TurnMoves(n), UNCHANGED reset, NEW S, Widespread(S),
         \A h \in S, entries \in Seq(Entry) :
           h \in Seq(Entry) /\ ToSet(entries) \subseteq EntriesBy(n) => h \o entries \in S
  PROVE  WidespreadNext(S)
<1>1. /\ object \in [Object -> SessionState] /\ turn \in [Turn -> TurnState]
      /\ cached \in Object \cup {NoObject}
  BY DEF TypeOK
<1>2. \A m \in Turn : turn[m].pc \in Working => turn[m].object \in Object
  BY DEF Refs
<1>3. CASE Loads(n)
  BY <1>3 DEF Loads, Moved, Widespread, WidespreadNext, Working
<1>4. CASE Installs(n)
  <2>1. \A m \in Turn : turn[m].object # n
    BY <1>4 DEF Installs, Refs
  <2>2. object'[n] = turn[n].saved /\ \A o \in Object : o # n => object'[o] = object[o]
    BY <1>1, <1>4, Names DEF Installs
  <2>3. turn[n].saved.history \in S
    BY <1>4 DEF Installs, Widespread
  <2> QED BY <1>2, <1>4, <2>1, <2>2, <2>3 DEF Installs, Moved, Widespread, WidespreadNext, Working
<1>5. CASE Fetches(n)
  <2>1. cached # NoObject
    BY <1>5 DEF Fetches, Refs
  <2> QED BY <1>5, <2>1 DEF Fetches, Moved, Widespread, WidespreadNext, Working
<1>6. CASE Thinks(n)
  BY <1>1, <1>2, <1>6 DEF Thinks, Thinking, SameHistories, Moved, Widespread, WidespreadNext, Working
<1>7. ASSUME NEW from \in {"ask", "reply", "extend"}, NEW to \in {"reply", "snapshot"},
             NEW entries \in Seq(Entry), Tells(n, from, to, entries),
             ToSet(entries) \subseteq EntriesBy(n)
      PROVE  WidespreadNext(S)
  <2> DEFINE o == turn[n].object
  <2>1. turn[n].pc \in Working /\ o \in Object
    BY <1>2, <1>7 DEF Tells, Working
  <2>2. object[o].history \in S /\ object[o].history \in Seq(Entry)
    BY <1>1, <2>1 DEF Widespread, SessionState, Entry
  <2>3. object[o].history \o entries \in S
    BY <1>7, <2>2
  <2>4. /\ object'[o].history \in S
        /\ \A p \in Object : p # o => object'[p] = object[p]
        /\ UNCHANGED <<cached, row>>
        /\ \A m \in Turn : m # n => turn'[m] = turn[m]
        /\ turn'[n].object = o /\ turn'[n].pc \in {"reply", "snapshot"}
    BY <1>7, <2>3 DEF Tells, Moved
  <2> HIDE DEF o
  <2> QED BY <1>1, <1>2, <2>1, <2>4 DEF Widespread, WidespreadNext, Working
<1>8. CASE Tells(n, "ask", "reply", << <<n, "question">> >>)
  BY <1>7, <1>8, EntriesOf DEF EntriesBy
<1>9. CASE Tells(n, "reply", "snapshot", << <<n, "answer">> >>)
  BY <1>7, <1>9, EntriesOf DEF EntriesBy
<1>10. CASE Tells(n, "extend", "snapshot", << <<n, "question">>, <<n, "answer">> >>)
  BY <1>7, <1>10, EntriesOf DEF EntriesBy
<1>11. CASE Snapshots(n)
  BY <1>2, <1>11 DEF Snapshots, Session, Moved, Widespread, WidespreadNext, Working
<1>12. CASE Writes(n)
  BY <1>12 DEF Writes, Moved, Widespread, WidespreadNext, Working
<1>13. CASE Proposes(n)
  BY <1>13 DEF Proposes, Moved, Widespread, WidespreadNext, Working
<1>14. CASE Leaves(n)
  <2>1. turn'[n].pc \notin Working \cup {"install", "write"}
    BY <1>14 DEF Leaves, Moved, Ended, Working
  <2>2. /\ UNCHANGED <<cached, row>> /\ \A m \in Turn : m # n => turn'[m] = turn[m]
        /\ \A p \in Object : object'[p].history = object[p].history
    BY <1>14 DEF Leaves, Moved, SameHistories
  <2> QED BY <1>1, <1>2, <2>1, <2>2 DEF Widespread, WidespreadNext
<1> QED BY <1>3, <1>4, <1>5, <1>6, <1>8, <1>9, <1>10, <1>11, <1>12, <1>13, <1>14 DEF TurnMoves

\* An arrival takes what the cache has.
LEMMA WidespreadArrival ==
  ASSUME NEW n \in Turn, Arrives(n), NEW S, Widespread(S)
  PROVE  WidespreadNext(S)
<1>1. \A m \in Turn : m # n => Stays(m)
  BY DEF Arrives
<1>2. turn'[n].pc \in Working => cached # NoObject /\ turn'[n].object = cached
  BY DEF Arrives, Working
<1>3. turn'[n].pc \notin {"install", "write"}
  BY DEF Arrives
<1> QED BY <1>1, <1>2, <1>3 DEF Arrives, Stays, Meets, Widespread, WidespreadNext

\* A reset spreads an empty history, and writes what the cache has by then.
LEMMA WidespreadReset ==
  ASSUME TypeOK, Refs, NEW k \in Reset, NEW S, Widespread(S)
  PROVE  /\ Clears(k) /\ <<>> \in S => WidespreadNext(S)
         /\ ResetMoves(k) => WidespreadNext(S)
<1>1. object \in [Object -> SessionState] /\ cached \in Object \cup {NoObject}
  BY DEF TypeOK
<1>2. ASSUME Clears(k), <<>> \in S PROVE WidespreadNext(S)
  <2>1. \A m \in Turn : turn[m].object # k /\ (turn[m].pc \in Working => turn[m].object \in Object)
    BY <1>2 DEF Clears, Refs
  <2>2. object'[k].history = <<>> /\ \A o \in Object : o # k => object'[o] = object[o]
    BY <1>1, <1>2, Names DEF Clears, NewSession
  <2>3. \A i \in Reset : reset'[i].pc = "write" =>
          reset[i].pc = "write" /\ reset'[i].saved = reset[i].saved
    BY <1>2 DEF Clears, Meets
  <2> QED BY <1>2, <2>1, <2>2, <2>3 DEF Clears, Stays, Widespread, WidespreadNext
<1>3. ASSUME ResetMoves(k) PROVE WidespreadNext(S)
  <2>1. reset[k].pc = "snapshot" => cached # NoObject
    BY DEF Refs
  <2> QED BY <1>3, <2>1 DEF ResetMoves, ResetMoved, Widespread, WidespreadNext
<1> QED BY <1>2, <1>3

\* After a crash there is the row.
LEMMA WidespreadCrash ==
  ASSUME Dies, NEW S, Widespread(S)
  PROVE  WidespreadNext(S)
<1>1. \A m \in Turn : turn'[m].pc \notin Working \cup {"install", "write"}
  BY DEF Dies, InProgress, Ended, Working
<1>2. \A k \in Reset : reset'[k].pc # "write"
  BY DEF Dies, Resetting
<1> QED BY <1>1, <1>2 DEF Dies, Widespread, WidespreadNext

------------------------------------------------------------------------------
(* What was answered alone stays *)

\* A turn that is alone works on what the cache has, and once it is answered its
\* entries are in every copy that will ever be used or written.
Keepers(n) == {history \in Seq(Entry) : EntriesBy(n) \subseteq ToSet(history)}

Alone(n) ==
  /\ \A k \in Reset : ~Resetting(k)
  /\ InProgress(n) => \A m \in Turn : m # n => ~InProgress(m)
  /\ turn[n].pc \in Working => turn[n].object = cached
  /\ turn[n].pc \in {"snapshot", "write", "record", "propose"} =>
       object[cached].history \in Keepers(n)
  /\ turn[n].pc = "write" => turn[n].saved.history \in Keepers(n)
  /\ turn[n].pc \in {"record", "propose"} => row.history \in Keepers(n)
  /\ turn[n].pc = "answered" => Widespread(Keepers(n))

AloneStays == \A n \in Turn : turn[n].solo => Alone(n)

\* An object that has the entries of a turn keeps them when its history grows.
LEMMA KeepersGrow ==
  ASSUME NEW n \in Turn, NEW h \in Keepers(n), NEW entries \in Seq(Entry)
  PROVE  h \o entries \in Keepers(n)
<1>1. h \in Seq(Entry) /\ EntriesBy(n) \subseteq ToSet(h)
  BY DEF Keepers
<1>2. h \o entries \in Seq(Entry)
  BY <1>1, ConcatProperties
<1>3. EntriesBy(n) \subseteq ToSet(h \o entries)
  BY <1>1, SaidStays
<1> QED BY <1>2, <1>3 DEF Keepers

\* The copies that keep a turn still do when another turn moves.
LEMMA KeptByOthers ==
  ASSUME TypeOK, Refs, NEW i \in Turn, NEW n \in Turn, TurnMoves(n), UNCHANGED reset,
         Widespread(Keepers(i))
  PROVE  WidespreadNext(Keepers(i))
<1> DEFINE S == Keepers(i)
<1>1. \A h \in S, entries \in Seq(Entry) :
        h \in Seq(Entry) /\ ToSet(entries) \subseteq EntriesBy(n) => h \o entries \in S
  BY KeepersGrow
<1>2. Widespread(S)
  OBVIOUS
<1> HIDE DEF S
<1>3. WidespreadNext(S)
  BY <1>1, <1>2, WidespreadTurn
<1> QED BY <1>3 DEF S

\* The same, as a fact about the next state.
LEMMA WidespreadIsNext ==
  ASSUME NEW n
  PROVE  WidespreadNext(Keepers(n)) <=> Widespread(Keepers(n))'
BY DEF Widespread, WidespreadNext, Keepers, EntriesBy

\* The turn itself, while it is alone.
LEMMA AloneMoves ==
  ASSUME TypeOK, Refs, Orderly, NEW n \in Turn, Alone(n), TurnMoves(n), UNCHANGED reset
  PROVE  Alone(n)'
<1>1. /\ object \in [Object -> SessionState] /\ turn \in [Turn -> TurnState]
      /\ row \in SessionState /\ cached \in Object \cup {NoObject}
  BY DEF TypeOK
<1>2. InProgress(n)
  BY DEF TurnMoves, Loads, Installs, Fetches, Thinks, Thinking, Tells, Snapshots, Writes,
         Proposes, Leaves, InProgress, Ended
<1>3. \A m \in Turn : m # n => turn'[m] = turn[m] /\ turn[m].pc \in {"idle"} \cup Ended
  <2>1. \A m \in Turn : m # n => turn'[m] = turn[m]
    BY DEF TurnMoves, Loads, Installs, Fetches, Thinks, Tells, Snapshots, Writes, Proposes,
           Leaves, Moved
  <2> QED BY <1>2, <2>1 DEF Alone, InProgress
<1>4. (\A k \in Reset : ~Resetting(k))'
  BY DEF Alone, Resetting
<1>5. (\A m \in Turn : m # n => ~InProgress(m))'
  BY <1>3 DEF InProgress
<1>6. turn[n].pc \in Working => turn[n].object = cached /\ cached \in Object
  BY DEF Alone, Refs
<1>7. \A o \in Object : object[o].history \in Seq(Entry)
  BY <1>1 DEF SessionState, Entry
<1>8. CASE Loads(n) \/ Installs(n) \/ Fetches(n)
  <2>1. /\ turn'[n].pc \in {"install", "fetch", "classify"}
        /\ turn'[n].pc = "classify" => turn'[n].object = cached' 
    BY <1>8 DEF Loads, Installs, Fetches, Moved
  <2> QED BY <1>4, <1>5, <2>1 DEF Alone, Working
<1>9. CASE Thinks(n)
  <2>1. /\ turn'[n].pc \in (Thinking \ {"classify"}) \cup {"ask", "extend"}
        /\ turn'[n].object = turn[n].object /\ cached' = cached
        /\ turn[n].pc \in Working
    BY <1>9 DEF Thinks, Moved, Thinking, Working
  <2> QED BY <1>4, <1>5, <1>6, <2>1 DEF Alone, Thinking
<1>10. CASE Tells(n, "ask", "reply", << <<n, "question">> >>)
  <2>1. /\ turn'[n].pc = "reply" /\ turn'[n].object = turn[n].object /\ cached' = cached
        /\ turn[n].pc \in Working
    BY <1>10 DEF Tells, Moved, Working
  <2> QED BY <1>4, <1>5, <1>6, <2>1 DEF Alone
<1>11. ASSUME NEW entries \in Seq(Entry), NEW from \in {"reply", "extend"},
              Tells(n, from, "snapshot", entries),
              EntriesBy(n) \subseteq ToSet(object[cached].history) \cup ToSet(entries)
       PROVE  Alone(n)'
  <2>1. /\ turn'[n].pc = "snapshot" /\ turn'[n].object = turn[n].object /\ cached' = cached
        /\ turn[n].pc \in Working
        /\ object'[turn[n].object].history = object[turn[n].object].history \o entries
    BY <1>11 DEF Tells, Moved, Working
  <2>2. cached \in Object /\ object'[cached].history = object[cached].history \o entries
    BY <1>6, <2>1
  <2>3. object'[cached].history \in Keepers(n)
    <3>1. object[cached].history \o entries \in Seq(Entry)
      BY <1>7, <2>2, ConcatProperties
    <3>2. ToSet(object[cached].history \o entries)
            = ToSet(object[cached].history) \cup ToSet(entries)
      BY <1>7, <2>2, SaidStays
    <3> QED BY <1>11, <2>2, <3>1, <3>2 DEF Keepers
  <2>4. object'[cached'].history \in Keepers(n)'
    BY <2>1, <2>3 DEF Keepers, EntriesBy
  <2> QED BY <1>4, <1>5, <1>6, <2>1, <2>4 DEF Alone
<1>12. CASE Tells(n, "reply", "snapshot", << <<n, "answer">> >>)
  <2>1. turn[n].pc = "reply"
    BY <1>12 DEF Tells
  <2>2. <<n, "question">> \in ToSet(object[cached].history)
    BY <1>6, <2>1 DEF Orderly, Working
  <2> QED BY <1>11, <1>12, <2>2, EntriesOf DEF EntriesBy
<1>13. CASE Tells(n, "extend", "snapshot", << <<n, "question">>, <<n, "answer">> >>)
  BY <1>11, <1>13, EntriesOf DEF EntriesBy
<1>14. Keepers(n)' = Keepers(n)
  BY DEF Keepers, EntriesBy
<1>15. CASE Snapshots(n)
  <2>1. /\ turn'[n].pc = "write" /\ turn'[n].object = turn[n].object
        /\ turn'[n].saved = object[cached] /\ UNCHANGED <<cached, object>>
        /\ turn[n].pc = "snapshot"
    BY <1>6, <1>15 DEF Snapshots, Session, Moved, Working
  <2>2. object[cached].history \in Keepers(n)
    BY <2>1 DEF Alone
  <2> QED BY <1>4, <1>5, <1>6, <1>14, <2>1, <2>2 DEF Alone, Working
<1>16. CASE Writes(n)
  <2>1. /\ turn'[n].pc = "record" /\ turn'[n].object = turn[n].object
        /\ row' = turn[n].saved /\ UNCHANGED <<cached, object>>
        /\ turn[n].pc = "write"
    BY <1>16 DEF Writes, Moved
  <2>2. object[cached].history \in Keepers(n) /\ turn[n].saved.history \in Keepers(n)
    BY <2>1 DEF Alone
  <2> QED BY <1>4, <1>5, <1>6, <1>14, <2>1, <2>2 DEF Alone, Working
<1>17. CASE Proposes(n)
  <2>1. /\ turn'[n].pc = "propose" /\ turn'[n].object = turn[n].object
        /\ UNCHANGED <<cached, object, row>> /\ turn[n].pc = "record"
    BY <1>17 DEF Proposes, Moved
  <2>2. object[cached].history \in Keepers(n) /\ row.history \in Keepers(n)
    BY <2>1 DEF Alone
  <2> QED BY <1>4, <1>5, <1>6, <1>14, <2>1, <2>2 DEF Alone, Working
<1>18. CASE Leaves(n)
  <2>1. /\ turn'[n].pc \in Ended
        /\ turn'[n].pc = "answered" => turn[n].pc \in {"record", "propose"}
        /\ UNCHANGED <<cached, row>>
        /\ \A o \in Object : object'[o].history = object[o].history
    BY <1>18 DEF Leaves, Moved, SameHistories
  <2>2. turn'[n].pc \notin Working \cup {"install"}
    BY <2>1 DEF Ended, Working
  <2>3. ASSUME turn'[n].pc = "answered" PROVE Widespread(Keepers(n))'
    <3>1. object[cached].history \in Keepers(n) /\ row.history \in Keepers(n)
      BY <2>1, <2>3 DEF Alone
    <3>2. object'[cached'].history \in Keepers(n) /\ row'.history \in Keepers(n)
      BY <1>6, <2>1, <2>3, <3>1 DEF Working
    <3>3. \A m \in Turn : turn'[m].pc \notin Working \cup {"install", "write"}
      BY <1>3, <2>2, <2>3 DEF Working, Ended
    <3>4. \A k \in Reset : reset'[k].pc # "write"
      BY <1>4 DEF Resetting
    <3>5. WidespreadNext(Keepers(n))
      BY <3>2, <3>3, <3>4 DEF WidespreadNext
    <3> QED BY <3>5, WidespreadIsNext
  <2>4. turn'[n].pc \notin Working \cup {"snapshot", "write", "record", "propose"}
    BY <2>2 DEF Working
  <2> QED BY <1>4, <1>5, <2>3, <2>4 DEF Alone
<1> QED BY <1>8, <1>9, <1>10, <1>12, <1>13, <1>15, <1>16, <1>17, <1>18 DEF TurnMoves

\* Every step keeps what the turns that met nobody have said.
LEMMA AloneNext == Typed /\ Orderly /\ AloneStays /\ [Next]_vars => AloneStays'
<1> SUFFICES ASSUME Typed, Orderly, AloneStays, [Next]_vars PROVE AloneStays'
  OBVIOUS
<1>1. TypeOK /\ Refs
  BY DEF Typed
<1>2. \A n \in Turn : Keepers(n)' = Keepers(n)
  BY DEF Keepers, EntriesBy
<1>3. ASSUME NEW n \in Turn, Arrives(n) PROVE AloneStays'
  <2>1. ASSUME Busy = {} PROVE Alone(n)'
    <3>1. /\ \A m \in Turn : ~InProgress(m)
          /\ \A k \in Reset : ~Resetting(k)
      BY <2>1 DEF Busy
    <3>2. (\A k \in Reset : ~Resetting(k))'
      BY <1>3, <3>1 DEF Arrives, Meets, Resetting
    <3>3. (\A m \in Turn : m # n => ~InProgress(m))'
      BY <1>3, <3>1 DEF Arrives, Stays, InProgress
    <3>4. turn'[n].pc \in {"load", "classify"} /\ turn'[n].object = cached'
      BY <1>3 DEF Arrives
    <3> QED BY <3>2, <3>3, <3>4 DEF Alone
  <2>2. ASSUME NEW i \in Turn, i # n, turn'[i].solo PROVE Alone(i)'
    <3>1. turn[i].solo /\ ~InProgress(i) /\ Stays(i)
      BY <1>3, <2>2 DEF Arrives
    <3>2. Alone(i)
      BY <3>1 DEF AloneStays
    <3>3. (\A k \in Reset : ~Resetting(k))'
      BY <1>3, <3>2 DEF Arrives, Meets, Resetting, Alone
    <3>4. turn'[i].pc = turn[i].pc /\ turn[i].pc \in {"idle"} \cup Ended
      BY <3>1 DEF Stays, InProgress
    <3>5. turn'[i].pc = "answered" => Widespread(Keepers(i))'
      <4>1. turn[i].pc = "answered" => Widespread(Keepers(i))
        BY <3>2 DEF Alone
      <4>2. Widespread(Keepers(i)) => WidespreadNext(Keepers(i))
        BY <1>3, WidespreadArrival
      <4> QED BY <3>4, <4>1, <4>2, WidespreadIsNext
    <3>6. turn'[i].pc \notin Working /\ ~InProgress(i)'
      BY <3>4 DEF Working, Ended, InProgress
    <3> QED BY <3>3, <3>5, <3>6 DEF Alone, Working
  <2>3. turn'[n].solo => Busy = {}
    BY <1>3 DEF Arrives
  <2> QED BY <2>1, <2>2, <2>3 DEF AloneStays
<1>4. ASSUME NEW n \in Turn, TurnMoves(n), UNCHANGED reset PROVE AloneStays'
  <2>1. InProgress(n)
    BY <1>4 DEF TurnMoves, Loads, Installs, Fetches, Thinks, Thinking, Tells, Snapshots, Writes,
                Proposes, Leaves, InProgress, Ended
  <2>2. /\ \A m \in Turn : m # n => turn'[m] = turn[m]
        /\ turn'[n].solo = turn[n].solo
    BY <1>4 DEF TurnMoves, Loads, Installs, Fetches, Thinks, Tells, Snapshots, Writes, Proposes,
                Leaves, Moved
  <2>3. turn[n].solo => Alone(n)'
    BY <1>1, <1>4, AloneMoves DEF AloneStays
  <2>4. ASSUME NEW i \in Turn, i # n, turn[i].solo PROVE Alone(i)'
    <3>1. Alone(i) /\ turn'[i] = turn[i]
      BY <2>2, <2>4 DEF AloneStays
    <3>2. ~InProgress(i)
      BY <2>1, <2>4, <3>1 DEF Alone
    <3>3. (\A k \in Reset : ~Resetting(k))'
      BY <1>4, <3>1 DEF Alone, Resetting
    <3>4. turn[i].pc = "answered" => Widespread(Keepers(i))'
      BY <1>1, <1>4, <3>1, KeptByOthers, WidespreadIsNext DEF Alone
    <3>5. turn'[i].pc \notin Working /\ ~InProgress(i)'
      BY <3>1, <3>2 DEF Working, Ended, InProgress
    <3> QED BY <3>1, <3>3, <3>4, <3>5 DEF Alone, Working
  <2> QED BY <2>2, <2>3, <2>4 DEF AloneStays
<1>5. ASSUME NEW k \in Reset, Clears(k) PROVE AloneStays'
  BY <1>5 DEF Clears, AloneStays
<1>6. ASSUME NEW k \in Reset, ResetMoves(k) PROVE AloneStays'
  <2>1. Resetting(k) /\ UNCHANGED turn
    BY <1>6 DEF ResetMoves, ResetMoved, Resetting
  <2> QED BY <2>1 DEF AloneStays, Alone
<1>7. CASE Dies
  <2> SUFFICES ASSUME NEW n \in Turn, turn'[n].solo PROVE Alone(n)'
    BY DEF AloneStays
  <2>1. turn'[n].solo = turn[n].solo
    BY <1>7 DEF Dies
  <2>2. Alone(n)
    BY <2>1 DEF AloneStays
  <2>3. (\A k \in Reset : ~Resetting(k))'
    BY <1>7, <2>2 DEF Dies, Alone, Resetting
  <2>4. turn'[n].pc \in {"idle"} \cup Ended
    BY <1>7 DEF Dies, InProgress, Ended
  <2>5. turn'[n].pc = "answered" => Widespread(Keepers(n))'
    <3>1. turn'[n].pc = "answered" => turn[n].pc = "answered"
      BY <1>7 DEF Dies
    <3>2. turn[n].pc = "answered" => Widespread(Keepers(n))
      BY <2>2 DEF Alone
    <3>3. Widespread(Keepers(n)) => WidespreadNext(Keepers(n))
      BY <1>7, WidespreadCrash
    <3> QED BY <3>1, <3>2, <3>3, WidespreadIsNext
  <2>6. turn'[n].pc \notin Working /\ ~InProgress(n)'
    BY <2>4 DEF Working, Ended, InProgress
  <2> QED BY <2>3, <2>5, <2>6 DEF Alone, Working
<1>8. CASE UNCHANGED <<cached, object, row, turn, reset>>
  <2>1. \A n \in Turn : Alone(n)' <=> Alone(n)
    BY <1>8 DEF Alone, InProgress, Resetting, Widespread, Keepers, EntriesBy
  <2> QED BY <1>8, <2>1 DEF AloneStays
<1> QED BY <1>1, <1>3, <1>4, <1>5, <1>6, <1>7, <1>8, Steps

\* A turn that met no other request is in the row from its answer until a reset,
\* both entries of it: no later turn, race of turns, failure or crash takes it out.
THEOREM AnsweredAloneStays == Spec => []SoloTurnsAreDurable
<1>1. Init => Typed /\ Orderly /\ AloneStays
  <2>1. Init => AloneStays
    <3>1. IdleTurn.solo = FALSE
      BY DEF IdleTurn
    <3> QED BY <3>1 DEF Init, AloneStays
  <2> QED BY <2>1, TypedInit, OrderlyInit
<1>2. Typed /\ Orderly /\ AloneStays /\ [Next]_vars => (Typed /\ Orderly /\ AloneStays)'
  BY TypedNext, OrderlyNext, AloneNext
<1>3. AloneStays => SoloTurnsAreDurable
  BY DEF AloneStays, Alone, Widespread, Keepers, EntriesBy, SoloTurnsAreDurable
<1> QED BY <1>1, <1>2, <1>3, PTL DEF Spec

------------------------------------------------------------------------------
(* What was said before a reset is gone *)

\* The histories of what was said after a reset was asked for.
Later(k) == {history \in Seq(Entry) : \A e \in ToSet(history) : k \in turn[e[1]].after}

\* While a reset is alone it has the session for itself; once it is done, every
\* copy is of later turns, and so is whoever still works.
Quiet(k) ==
  /\ Resetting(k) =>
       /\ \A n \in Turn : ~InProgress(n)
       /\ \A i \in Reset : i # k => ~Resetting(i)
       /\ cached = k /\ object[k].history = <<>>
       /\ reset[k].pc = "write" => reset[k].saved.history = <<>>
  /\ reset[k].pc = "done" =>
       /\ Widespread(Later(k))
       /\ \A n \in Turn : InProgress(n) => k \in turn[n].after

QuietStays == \A k \in Reset : reset[k].quiet => Quiet(k)

\* Histories that are later stay so when every turn in them keeps what it is after.
LEMMA LaterStays ==
  ASSUME NEW k, WidespreadNext(Later(k)), Later(k) \subseteq Later(k)'
  PROVE  Widespread(Later(k))'
<1>1. WidespreadNext(Later(k)')
  BY DEF WidespreadNext
<1> QED BY <1>1 DEF Widespread, WidespreadNext

\* A history whose turns keep their resets stays past the reset.
LEMMA SameAfter ==
  ASSUME TypeOK, NEW k, \A n \in Turn : k \in turn[n].after => k \in turn'[n].after
  PROVE  Later(k) \subseteq Later(k)'
<1> SUFFICES ASSUME NEW h \in Later(k) PROVE h \in Later(k)'
  OBVIOUS
<1>1. h \in Seq(Entry) /\ \A e \in ToSet(h) : k \in turn[e[1]].after
  BY DEF Later
<1>2. \A e \in ToSet(h) : e[1] \in Turn
  <2>1. \A i \in DOMAIN h : h[i] \in Entry
    BY <1>1, ElementOfSeq
  <2> QED BY <2>1 DEF ToSet, Entry
<1> QED BY <1>1, <1>2 DEF Later

\* Every step keeps what came before a quiet reset away.
LEMMA QuietNext == Typed /\ QuietStays /\ [Next]_vars => QuietStays'
<1> SUFFICES ASSUME Typed, QuietStays, [Next]_vars PROVE QuietStays'
  OBVIOUS
<1>1. TypeOK /\ Refs
  BY DEF Typed
<1>2. /\ turn \in [Turn -> TurnState] /\ object \in [Object -> SessionState]
      /\ cached \in Object \cup {NoObject}
  BY <1>1 DEF TypeOK
<1>3. ASSUME NEW n \in Turn, Arrives(n) PROVE QuietStays'
  <2> SUFFICES ASSUME NEW k \in Reset, reset'[k].quiet PROVE Quiet(k)'
    BY DEF QuietStays
  <2>1. reset[k].quiet /\ ~Resetting(k) /\ reset'[k].pc = reset[k].pc
    BY <1>3 DEF Arrives, Meets
  <2>2. ~Resetting(k)'
    BY <2>1 DEF Resetting
  <2>3. ASSUME reset[k].pc = "done"
        PROVE  /\ Widespread(Later(k))'
               /\ \A m \in Turn : InProgress(m)' => k \in turn'[m].after
    <3>1. Widespread(Later(k)) /\ \A m \in Turn : InProgress(m) => k \in turn[m].after
      BY <2>1, <2>3 DEF QuietStays, Quiet
    <3>2. k \in turn'[n].after
      BY <1>3, <2>3 DEF Arrives, Asked
    <3>3. \A m \in Turn : m # n => turn'[m].after = turn[m].after /\ turn'[m].pc = turn[m].pc
      BY <1>3 DEF Arrives, Stays
    <3>4. Later(k) \subseteq Later(k)'
      BY <1>1, <3>2, <3>3, SameAfter
    <3>5. WidespreadNext(Later(k))
      <4> DEFINE S == Later(k)
      <4>1. Widespread(S)
        BY <3>1
      <4> HIDE DEF S
      <4>2. WidespreadNext(S)
        BY <1>3, <4>1, WidespreadArrival
      <4> QED BY <4>2 DEF S
    <3> QED BY <3>1, <3>2, <3>3, <3>4, <3>5, LaterStays DEF InProgress
  <2> QED BY <2>1, <2>2, <2>3 DEF Quiet
<1>4. ASSUME NEW n \in Turn, TurnMoves(n), UNCHANGED reset PROVE QuietStays'
  <2> SUFFICES ASSUME NEW k \in Reset, reset'[k].quiet PROVE Quiet(k)'
    BY DEF QuietStays
  <2>1. Quiet(k)
    BY <1>4 DEF QuietStays
  <2>2. InProgress(n)
    BY <1>4 DEF TurnMoves, Loads, Installs, Fetches, Thinks, Thinking, Tells, Snapshots, Writes,
                Proposes, Leaves, InProgress, Ended
  <2>3. /\ \A m \in Turn : m # n => turn'[m] = turn[m]
        /\ turn'[n].after = turn[n].after
    BY <1>4 DEF TurnMoves, Loads, Installs, Fetches, Thinks, Tells, Snapshots, Writes, Proposes,
                Leaves, Moved
  <2>4. ~Resetting(k) /\ ~Resetting(k)'
    BY <1>4, <2>1, <2>2 DEF Quiet, Resetting
  <2>5. ASSUME reset[k].pc = "done"
        PROVE  /\ Widespread(Later(k))'
               /\ \A m \in Turn : InProgress(m)' => k \in turn'[m].after
    <3>1. Widespread(Later(k)) /\ \A m \in Turn : InProgress(m) => k \in turn[m].after
      BY <2>1, <2>5 DEF Quiet
    <3>2. Later(k) \subseteq Later(k)'
      BY <1>1, <2>3, SameAfter
    <3>3. WidespreadNext(Later(k))
      <4> DEFINE S == Later(k)
      <4>1. Widespread(S)
        BY <3>1
      <4>2. \A h \in S, entries \in Seq(Entry) :
              h \in Seq(Entry) /\ ToSet(entries) \subseteq EntriesBy(n) => h \o entries \in S
        <5> SUFFICES ASSUME NEW h \in S, NEW entries \in Seq(Entry),
                            ToSet(entries) \subseteq EntriesBy(n)
                     PROVE  h \o entries \in S
          OBVIOUS
        <5>1. h \in Seq(Entry) /\ \A e \in ToSet(h) : k \in turn[e[1]].after
          BY DEF Later
        <5>2. h \o entries \in Seq(Entry) /\ ToSet(h \o entries) = ToSet(h) \cup ToSet(entries)
          BY <5>1, SaidStays, ConcatProperties
        <5>3. \A e \in EntriesBy(n) : e[1] = n
          BY DEF EntriesBy
        <5> QED BY <2>2, <3>1, <5>1, <5>2, <5>3 DEF Later
      <4> HIDE DEF S
      <4>3. WidespreadNext(S)
        BY <1>1, <1>4, <4>1, <4>2, WidespreadTurn
      <4> QED BY <4>3 DEF S
    <3>4. \A m \in Turn : InProgress(m)' => k \in turn'[m].after
      BY <2>2, <2>3, <3>1 DEF InProgress
    <3> QED BY <3>2, <3>3, <3>4, LaterStays
  <2> QED BY <1>4, <2>4, <2>5 DEF Quiet
<1>5. ASSUME NEW k \in Reset, Clears(k) PROVE QuietStays'
  <2> SUFFICES ASSUME NEW i \in Reset, reset'[i].quiet PROVE Quiet(i)'
    BY DEF QuietStays
  <2>1. CASE i = k
    <3>1. /\ \A m \in Turn : ~InProgress(m)
          /\ \A j \in Reset : ~Resetting(j)
      BY <1>5, <2>1 DEF Clears, Busy
    <3>2. \A m \in Turn : ~InProgress(m)'
      BY <1>5, <3>1 DEF Clears, Stays, InProgress
    <3>3. \A j \in Reset : j # k => ~Resetting(j)'
      BY <1>5, <3>1 DEF Clears, Meets, Resetting
    <3>4. cached' = k /\ object'[k].history = <<>> /\ reset'[k].pc = "snapshot"
      BY <1>2, <1>5, Names DEF Clears, NewSession
    <3> QED BY <2>1, <3>2, <3>3, <3>4 DEF Quiet
  <2>2. CASE i # k
    <3>1. reset[i].quiet /\ ~Resetting(i) /\ reset'[i].pc = reset[i].pc
      BY <1>5, <2>2 DEF Clears, Meets
    <3>2. ~Resetting(i)'
      BY <3>1 DEF Resetting
    <3>3. ASSUME reset[i].pc = "done"
          PROVE  /\ Widespread(Later(i))'
                 /\ \A m \in Turn : InProgress(m)' => i \in turn'[m].after
      <4>1. Widespread(Later(i)) /\ \A m \in Turn : InProgress(m) => i \in turn[m].after
        BY <3>1, <3>3 DEF QuietStays, Quiet
      <4>2. \A m \in Turn : turn'[m].after = turn[m].after /\ turn'[m].pc = turn[m].pc
        BY <1>5 DEF Clears, Stays
      <4>3. Later(i) \subseteq Later(i)'
        BY <1>1, <4>2, SameAfter
      <4>4. WidespreadNext(Later(i))
        <5> DEFINE S == Later(i)
        <5>1. Widespread(S) /\ <<>> \in S
          BY <4>1 DEF Later, ToSet
        <5> HIDE DEF S
        <5>2. WidespreadNext(S)
          BY <1>1, <1>5, <5>1, WidespreadReset
        <5> QED BY <5>2 DEF S
      <4> QED BY <4>1, <4>2, <4>3, <4>4, LaterStays DEF InProgress
    <3> QED BY <3>1, <3>2, <3>3 DEF Quiet
  <2> QED BY <2>1, <2>2
<1>6. ASSUME NEW k \in Reset, ResetMoves(k) PROVE QuietStays'
  <2> SUFFICES ASSUME NEW i \in Reset, reset'[i].quiet PROVE Quiet(i)'
    BY DEF QuietStays
  <2>1. /\ UNCHANGED <<cached, object, turn>>
        /\ \A j \in Reset : j # k => reset'[j] = reset[j]
        /\ Resetting(k)
    BY <1>6 DEF ResetMoves, ResetMoved, Resetting
  <2>2. CASE i = k
    <3>1. reset[k].quiet
      BY <1>6, <2>2 DEF ResetMoves
    <3>2. /\ \A n \in Turn : ~InProgress(n)
          /\ \A j \in Reset : j # k => ~Resetting(j)
          /\ cached = k /\ object[k].history = <<>>
          /\ reset[k].pc = "write" => reset[k].saved.history = <<>>
      BY <2>1, <3>1 DEF QuietStays, Quiet
    <3>3. /\ \A n \in Turn : ~InProgress(n)'
          /\ \A j \in Reset : j # k => ~Resetting(j)'
      BY <2>1, <3>2 DEF InProgress, Resetting
    <3>4. reset'[k].pc = "write" => reset'[k].saved.history = <<>>
      BY <1>6, <3>2 DEF ResetMoves, ResetMoved
    <3>5. ASSUME reset'[k].pc = "done" PROVE Widespread(Later(k))'
      <4>1. row'.history = <<>>
        BY <1>6, <3>2, <3>5 DEF ResetMoves, ResetMoved
      <4>2. <<>> \in Later(k)'
        BY DEF Later, ToSet
      <4>3. \A n \in Turn : turn'[n].pc \notin Working \cup {"install", "write"}
        BY <3>3 DEF InProgress, Working, Ended
      <4>4. \A j \in Reset : reset'[j].pc # "write"
        BY <3>3, <3>5 DEF Resetting
      <4>5. object'[cached'].history = <<>>
        BY <2>1, <3>2
      <4> QED BY <4>1, <4>2, <4>3, <4>4, <4>5 DEF Widespread
    <3> QED BY <2>1, <2>2, <3>2, <3>3, <3>4, <3>5 DEF Quiet
  <2>3. CASE i # k
    <3>1. Quiet(i) /\ reset'[i] = reset[i]
      BY <2>1, <2>3 DEF QuietStays
    <3>2. ~Resetting(i)
      BY <2>1, <2>3, <3>1 DEF Quiet
    <3>3. ASSUME reset[i].pc = "done" PROVE Widespread(Later(i))'
      <4>1. Widespread(Later(i))
        BY <3>1, <3>3 DEF Quiet
      <4>2. Later(i) \subseteq Later(i)'
        BY <1>1, <2>1, SameAfter
      <4>3. WidespreadNext(Later(i))
        <5> DEFINE S == Later(i)
        <5>1. Widespread(S)
          BY <4>1
        <5> HIDE DEF S
        <5>2. WidespreadNext(S)
          BY <1>1, <1>6, <5>1, WidespreadReset
        <5> QED BY <5>2 DEF S
      <4> QED BY <4>2, <4>3, LaterStays
    <3>4. ~Resetting(i)'
      BY <3>1, <3>2 DEF Resetting
    <3> QED BY <2>1, <3>1, <3>3, <3>4 DEF Quiet, InProgress
  <2> QED BY <2>2, <2>3
<1>7. CASE Dies
  <2> SUFFICES ASSUME NEW k \in Reset, reset'[k].quiet PROVE Quiet(k)'
    BY DEF QuietStays
  <2>1. ~Resetting(k) /\ reset'[k] = reset[k]
    BY <1>7 DEF Dies
  <2>2. Quiet(k) /\ ~Resetting(k)'
    BY <2>1 DEF QuietStays, Resetting
  <2>3. \A n \in Turn : ~InProgress(n)' /\ turn'[n].after = turn[n].after
    BY <1>7 DEF Dies, InProgress, Ended
  <2>4. ASSUME reset[k].pc = "done" PROVE Widespread(Later(k))'
    <3>1. Widespread(Later(k))
      BY <2>2, <2>4 DEF Quiet
    <3>2. Later(k) \subseteq Later(k)'
      BY <1>1, <2>3, SameAfter
    <3>3. WidespreadNext(Later(k))
      <4> DEFINE S == Later(k)
      <4>1. Widespread(S)
        BY <3>1
      <4> HIDE DEF S
      <4>2. WidespreadNext(S)
        BY <1>7, <4>1, WidespreadCrash
      <4> QED BY <4>2 DEF S
    <3> QED BY <3>2, <3>3, LaterStays
  <2> QED BY <2>1, <2>2, <2>3, <2>4 DEF Quiet
<1>8. CASE UNCHANGED <<cached, object, row, turn, reset>>
  <2>1. \A k \in Reset : Quiet(k)' <=> Quiet(k)
    BY <1>8 DEF Quiet, InProgress, Resetting, Widespread, Later
  <2> QED BY <1>8, <2>1 DEF QuietStays
<1> QED BY <1>1, <1>3, <1>4, <1>5, <1>6, <1>7, <1>8, Steps

\* A reset that met no other request is final: nothing said before it is in the
\* row, in the cache or under a request in progress, whatever happens later.
THEOREM ResetStaysFinal == Spec => []ResetIsFinal
<1>1. Init => Typed /\ QuietStays
  <2>1. IdleReset.quiet = FALSE
    BY DEF IdleReset
  <2> QED BY <2>1, TypedInit DEF Init, QuietStays
<1>2. Typed /\ QuietStays /\ [Next]_vars => (Typed /\ QuietStays)'
  BY TypedNext, QuietNext
<1>3. Typed /\ QuietStays => ResetIsFinal
  <2> SUFFICES ASSUME Typed, QuietStays, NEW k \in Reset, reset[k].pc = "done", reset[k].quiet
               PROVE  \A e \in ToSet(row.history) \cup UNION {Entries(o) : o \in InUse} :
                        k \in turn[e[1]].after
    BY DEF ResetIsFinal
  <2>1. Widespread(Later(k)) /\ TypeOK /\ Refs
    BY DEF QuietStays, Quiet, Typed
  <2>2. \A h \in Later(k) : \A e \in ToSet(h) : k \in turn[e[1]].after
    BY DEF Later
  <2>3. row.history \in Later(k)
    BY <2>1 DEF Widespread
  <2>4. ASSUME NEW o \in InUse PROVE object[o].history \in Later(k)
    <3>1. o # NoObject
      BY DEF InUse
    <3>2. CASE o = cached
      BY <2>1, <3>1, <3>2 DEF Widespread
    <3>3. ASSUME NEW n \in Turn, InProgress(n), o = turn[n].object
          PROVE  object[o].history \in Later(k)
      <4>1. turn \in [Turn -> TurnState]
        BY <2>1 DEF TypeOK
      <4>2. turn[n].pc \in Working
        BY <2>1, <3>1, <3>3, <4>1 DEF Refs, InProgress, TurnState, Stage, Working
      <4> QED BY <2>1, <3>3, <4>2 DEF Widespread
    <3> QED BY <3>2, <3>3 DEF InUse
  <2> QED BY <2>2, <2>3, <2>4 DEF Entries
<1> QED BY <1>1, <1>2, <1>3, PTL DEF Spec
=============================================================================
