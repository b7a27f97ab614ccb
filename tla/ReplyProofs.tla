------------------------------ MODULE ReplyProofs ------------------------------
(***************************************************************************)
(* Theorems about what a turn of Orchestrator is answered, by whom and     *)
(* from which documents.                                                   *)
(***************************************************************************)
EXTENDS OrchestratorProofs

------------------------------------------------------------------------------
(* What the steps do to the conversation *)

\* The classification may let the message go on to an agent.
Reaches(m) == \E active \in Agent \cup {None} : NoReply \in DirectReplies(m, active)

StaffOnlyReply == OrchestratorReply("staff_only", None, {StaffOnly})

\* What the orchestrator itself may answer to a message.
OwnReplies(m) ==
  {SafeFailure} \cup UNION {DirectReplies(m, active) : active \in Agent \cup {None}}

\* A message that reached an agent is on its way to it.
Routed == {"route", "call", "follow", "guard", "enrich", "answer"}

Same(n) == /\ turn'[n].message = turn[n].message /\ turn'[n].role = turn[n].role
           /\ turn'[n].object = turn[n].object

\* What may happen to the message of a turn, its agent and its reply.
Advances(n) ==
  \/ /\ turn[n].pc = "classify" /\ turn'[n].pc = "route" /\ Same(n)
     /\ turn'[n].reply = turn[n].reply
     /\ Reaches(turn[n].message) /\ UNCHANGED object
  \/ /\ turn'[n].pc \in {"ask", "extend"} /\ Same(n)
     /\ \/ turn'[n].reply \in OwnReplies(turn[n].message)
        \/ turn[n].pc = "guard" /\ turn'[n].reply = StaffOnlyReply /\ StaffOnly \in Document
     /\ turn[n].pc \in Working
  \/ /\ turn[n].pc = "route" /\ Same(n) /\ UNCHANGED object
     /\ turn'[n].reply = turn[n].reply
     /\ LET active   == Session(n).active
            explicit == Chosen(turn[n].message, active)
        IN  \/ turn'[n].pc = "call" /\ turn'[n].selected = explicit
               /\ (active = None \/ explicit \notin {None, active})
            \/ turn'[n].pc = "follow" /\ active # None /\ explicit \in {None, active}
            \/ mode = "legacy" /\ turn'[n].pc \in {"call", "guard"}
  \/ /\ turn[n].pc = "follow" /\ turn'[n].pc = "guard" /\ Same(n) /\ UNCHANGED object
     /\ turn'[n].reply = turn[n].reply
     /\ turn'[n].selected = Session(n).active
  \/ /\ turn[n].pc = "call" /\ turn'[n].pc = "guard" /\ Same(n)
     /\ turn'[n].reply = turn[n].reply
     /\ turn[n].selected # None => turn'[n].selected = turn[n].selected
  \/ /\ turn[n].pc = "guard" /\ MayUse(n) /\ turn'[n].pc \in {"enrich", "answer"} /\ Same(n)
     /\ turn'[n].reply = turn[n].reply
     /\ turn'[n].selected = turn[n].selected /\ Last(turn'[n].asked) = turn[n].message
     /\ UNCHANGED object
  \/ /\ turn[n].pc = "enrich" /\ turn'[n].pc = "answer" /\ Same(n)
     /\ turn'[n].reply = turn[n].reply
     /\ turn'[n].selected = turn[n].selected /\ Last(turn'[n].asked) = turn[n].message
     /\ UNCHANGED object
  \/ /\ turn[n].pc = "answer" /\ turn'[n].pc \in {"ask", "extend"} /\ Same(n)
     /\ turn'[n].reply.agent = Selected(n) /\ Selected(n) \in Agent
     /\ turn'[n].selected = turn[n].selected
     /\ turn'[n].reply.cites \subseteq
          ForAgent(Selected(n)) \cup NamedBy(Selected(n), turn[n].asked)
  \/ /\ turn'[n].pc \notin {"idle"} \cup Routed
     /\ turn'[n].reply \in {turn[n].reply, NoReply} /\ turn'[n].message = turn[n].message
     /\ turn'[n].reply # NoReply => turn'[n].role = turn[n].role

\* Only this turn moves, and it stays a turn.
Progress(n) ==
  /\ turn' \in [Turn -> TurnState]
  /\ \A m \in Turn : m # n => turn'[m] = turn[m]
  /\ InProgress(n)
  /\ UNCHANGED <<reset, mode>>
  /\ Advances(n)

\* An agent cites what it may read or names.
LEMMA CitesOfAnswer ==
  ASSUME TypeOK, Refs, NEW n \in Turn, turn[n].pc = "answer", Selected(n) \in Agent,
         NEW reply \in Replies(Selected(n), turn[n].asked, QuestionsOf(Session(n).history))
  PROVE  reply.cites \subseteq ForAgent(Selected(n)) \cup NamedBy(Selected(n), turn[n].asked)
<1> DEFINE history == QuestionsOf(Session(n).history)
           asked   == turn[n].asked
           agent   == Selected(n)
           cites   == ForAgent(agent) \cup NamedBy(agent, asked)
<1>1. reply \in Replies(agent, asked, history) /\ agent \in Agent
  OBVIOUS
<1> SUFFICES reply.cites \subseteq cites
  OBVIOUS
<1> HIDE DEF history, asked, agent
<1>2. reply \in ReplyFrom(agent, history \o asked, cites)
  BY <1>1, RepliesTyped
<1> HIDE DEF cites
<1> QED BY <1>2 DEF ReplyFrom

\* Every step of a turn advances it.
LEMMA ProgressSteps ==
  ASSUME TypeOK, Refs, NEW n \in Turn, TurnStep(n)
  PROVE  Progress(n)
<1>1. turn \in [Turn -> TurnState] /\ object \in [Object -> SessionState]
  BY DEF TypeOK
<1>2. /\ turn' \in [Turn -> TurnState]
      /\ \A m \in Turn : m # n => turn'[m] = turn[m]
      /\ InProgress(n)
      /\ UNCHANGED <<reset, mode>>
  <2>1. TurnMoves(n) /\ UNCHANGED <<reset, limits>>
    BY TurnSteps
  <2> QED BY <2>1 DEF TurnMoves, Loads, Installs, Fetches, Thinks, Thinking, Tells, Snapshots,
                      Writes, Proposes, Leaves, Moved, InProgress, Ended, limits
<1>3. ASSUME NEW t, Becomes(n, t) PROVE turn'[n] = t
  BY <1>3, OthersStay
<1> SUFFICES Advances(n)
  BY <1>2 DEF Progress
<1>4. ASSUME NEW reply \in Reply, NEW pc \in {"ask", "extend"},
             Becomes(n, [turn[n] EXCEPT !.reply = reply, !.pc = pc])
      PROVE  /\ turn'[n].pc = pc /\ turn'[n].reply = reply /\ Same(n)
             /\ turn'[n].selected = turn[n].selected
  <2> DEFINE t == [turn[n] EXCEPT !.reply = reply, !.pc = pc]
  <2>1. /\ t.pc = pc /\ t.reply = reply /\ t.message = turn[n].message /\ t.role = turn[n].role
        /\ t.object = turn[n].object /\ t.selected = turn[n].selected
    BY <1>1 DEF TurnState
  <2>2. Becomes(n, t)
    BY <1>4
  <2> HIDE DEF t
  <2> QED BY <1>3, <2>1, <2>2 DEF Same
<1>5. ASSUME NEW pc, Becomes(n, [turn[n] EXCEPT !.pc = pc])
      PROVE  turn'[n].pc = pc /\ turn'[n].reply = turn[n].reply /\ Same(n)
  <2> DEFINE t == [turn[n] EXCEPT !.pc = pc]
  <2>1. /\ t.pc = pc /\ t.reply = turn[n].reply /\ t.message = turn[n].message
        /\ t.role = turn[n].role /\ t.object = turn[n].object
    BY <1>1 DEF TurnState
  <2>2. Becomes(n, t)
    BY <1>5
  <2> HIDE DEF t
  <2> QED BY <1>3, <2>1, <2>2 DEF Same
<1>6. ASSUME NEW pc \in Stage, Becomes(n, Remains(n, pc))
      PROVE  turn'[n].pc = pc /\ turn'[n].reply = NoReply /\ turn'[n].message = turn[n].message
  BY <1>3, <1>6, RemainsTyped
<1>7. ASSUME turn'[n].pc \notin {"idle"} \cup Routed, turn'[n].reply = turn[n].reply,
             turn'[n].message = turn[n].message, turn'[n].role = turn[n].role
      PROVE  Advances(n)
  BY <1>7 DEF Advances
<1>8. ASSUME turn'[n].pc \notin {"idle"} \cup Routed, turn'[n].reply = NoReply,
             turn'[n].message = turn[n].message
      PROVE  Advances(n)
  BY <1>8 DEF Advances
<1>9. CASE Load(n)
  <2> DEFINE t == [turn[n] EXCEPT !.pc = "install", !.saved = row]
  <2>1. /\ t.pc = "install" /\ t.reply = turn[n].reply /\ t.message = turn[n].message
        /\ t.role = turn[n].role
    BY <1>1 DEF TurnState
  <2>2. Becomes(n, t)
    BY <1>9, LoadMoves
  <2> HIDE DEF t
  <2> QED BY <1>3, <1>7, <2>1, <2>2 DEF Routed
<1>10. CASE Install(n)
  <2> DEFINE t == [turn[n] EXCEPT !.pc = "fetch", !.saved = NewSession]
  <2>1. /\ t.pc = "fetch" /\ t.reply = turn[n].reply /\ t.message = turn[n].message
        /\ t.role = turn[n].role
    BY <1>1 DEF TurnState
  <2>2. Becomes(n, t)
    BY <1>10, InstallMoves
  <2> HIDE DEF t
  <2> QED BY <1>3, <1>7, <2>1, <2>2 DEF Routed
<1>11. CASE Fetch(n)
  <2> DEFINE t == [turn[n] EXCEPT !.pc = "classify", !.object = cached]
  <2>1. /\ t.pc = "classify" /\ t.reply = turn[n].reply /\ t.message = turn[n].message
        /\ t.role = turn[n].role
    BY <1>1 DEF TurnState
  <2>2. Becomes(n, t)
    BY <1>11, FetchMoves
  <2> HIDE DEF t
  <2> QED BY <1>3, <1>7, <2>1, <2>2 DEF Routed
<1>12. CASE Snapshot(n)
  <2> DEFINE t == [turn[n] EXCEPT !.pc = "write", !.saved = Session(n)]
  <2>1. /\ t.pc = "write" /\ t.reply = turn[n].reply /\ t.message = turn[n].message
        /\ t.role = turn[n].role
    BY <1>1 DEF TurnState
  <2>2. Becomes(n, t)
    BY <1>12, SnapshotMoves
  <2> HIDE DEF t
  <2> QED BY <1>3, <1>7, <2>1, <2>2 DEF Routed
<1>13. CASE Write(n)
  <2> DEFINE t == [turn[n] EXCEPT !.pc = "record", !.saved = NewSession]
  <2>1. /\ t.pc = "record" /\ t.reply = turn[n].reply /\ t.message = turn[n].message
        /\ t.role = turn[n].role
    BY <1>1 DEF TurnState
  <2>2. Becomes(n, t)
    BY <1>13, WriteMoves
  <2> HIDE DEF t
  <2> QED BY <1>3, <1>7, <2>1, <2>2 DEF Routed
<1>14. CASE AppendQuestion(n) \/ AppendAnswer(n) \/ Extend(n)
  <2>1. \E pc \in {"reply", "snapshot"} : Becomes(n, [turn[n] EXCEPT !.pc = pc])
    BY <1>14, AppendMoves
  <2> QED BY <1>5, <1>7, <2>1 DEF Routed, Same
<1>15. CASE Conclude(n)
  <2>1. CASE Becomes(n, [turn[n] EXCEPT !.pc = "propose"])
    BY <1>5, <1>7, <2>1 DEF Routed, Same
  <2>2. CASE Becomes(n, Remains(n, "answered"))
    BY <1>6, <1>8, <2>2 DEF Routed, Stage, Ended
  <2> QED BY <1>15, <2>1, <2>2, ConcludeMoves
<1>16. CASE Exception(n)
  <2>1. ASSUME NEW pc \in {"ask", "extend"}, turn[n].pc \in Working,
               Becomes(n, [turn[n] EXCEPT !.reply = SafeFailure, !.pc = pc])
        PROVE  Advances(n)
    <3>1. SafeFailure \in Reply
      BY OwnReplyTyped DEF SafeFailure
    <3>2. turn'[n].pc \in {"ask", "extend"} /\ turn'[n].reply = SafeFailure /\ Same(n)
      BY <1>4, <2>1, <3>1
    <3>3. SafeFailure \in OwnReplies(turn[n].message)
      BY DEF OwnReplies
    <3> QED BY <2>1, <3>2, <3>3 DEF Advances
  <2>2. CASE Becomes(n, Remains(n, "failed"))
    BY <1>6, <1>8, <2>2 DEF Routed, Stage, Ended
  <2>3. {"classify", "call", "guard", "answer", "write"} \subseteq Working
    BY DEF Working
  <2> QED BY <1>16, <2>1, <2>2, <2>3, ExceptionMoves
<1>17. CASE Classify(n)
  <2>1. turn[n].pc = "classify" /\ turn[n].pc \in Working /\ UNCHANGED object
    BY <1>17 DEF Classify, Working, memory
  <2>2. Session(n).active \in Agent \cup {None}
    BY <2>1, SessionTyped
  <2>3. PICK reply \in DirectReplies(turn[n].message, Session(n).active) :
          /\ reply \in Reply
          /\ \/ reply = NoReply /\ Becomes(n, [turn[n] EXCEPT !.pc = "route"])
             \/ /\ reply # NoReply
                /\ \E pc \in {"ask", "extend"} :
                     Becomes(n, [turn[n] EXCEPT !.reply = reply, !.pc = pc])
    BY <1>17, ClassifyMoves
  <2>4. CASE reply = NoReply
    <3>1. Reaches(turn[n].message)
      BY <2>2, <2>3, <2>4 DEF Reaches
    <3>2. turn'[n].pc = "route" /\ turn'[n].reply = turn[n].reply /\ Same(n)
      BY <1>5, <2>3, <2>4
    <3> QED BY <2>1, <3>1, <3>2 DEF Advances
  <2>5. CASE reply # NoReply
    <3>1. turn'[n].pc \in {"ask", "extend"} /\ turn'[n].reply = reply /\ Same(n)
      BY <1>4, <2>3, <2>5
    <3>2. reply \in OwnReplies(turn[n].message)
      BY <2>2, <2>3 DEF OwnReplies
    <3> QED BY <2>1, <3>1, <3>2 DEF Advances
  <2> QED BY <2>4, <2>5
<1>18. CASE Route(n)
  <2>1. turn[n].pc = "route" /\ UNCHANGED object
    BY <1>18 DEF Route, memory
  <2> DEFINE active   == Session(n).active
             explicit == Chosen(turn[n].message, active)
  <2>2. ASSUME NEW pc, NEW selected, Becomes(n, [turn[n] EXCEPT !.pc = pc, !.selected = selected])
        PROVE  /\ turn'[n].pc = pc /\ turn'[n].selected = selected /\ Same(n)
               /\ turn'[n].reply = turn[n].reply
    <3> DEFINE t == [turn[n] EXCEPT !.pc = pc, !.selected = selected]
    <3>1. /\ t.pc = pc /\ t.selected = selected /\ t.message = turn[n].message
          /\ t.role = turn[n].role /\ t.object = turn[n].object /\ t.reply = turn[n].reply
      BY <1>1 DEF TurnState
    <3>2. Becomes(n, t)
      BY <2>2
    <3> HIDE DEF t
    <3> QED BY <1>3, <3>1, <3>2 DEF Same
  <2>3. CASE /\ active = None \/ explicit \notin {None, active}
             /\ Becomes(n, [turn[n] EXCEPT !.pc = "call", !.selected = explicit])
    <3>1. turn'[n].pc = "call" /\ turn'[n].selected = explicit /\ Same(n)
          /\ turn'[n].reply = turn[n].reply
      BY <2>2, <2>3
    <3> QED BY <2>1, <2>3, <3>1 DEF Advances
  <2>4. CASE /\ active # None /\ explicit \in {None, active}
             /\ Becomes(n, [turn[n] EXCEPT !.pc = "follow", !.selected = None])
    <3>1. turn'[n].pc = "follow" /\ Same(n) /\ turn'[n].reply = turn[n].reply
      BY <2>2, <2>4
    <3> QED BY <2>1, <2>4, <3>1 DEF Advances
  <2> QED BY <1>18, <2>3, <2>4, RouteMoves
<1>19. CASE LegacyRoute(n)
  <2>1. turn[n].pc = "route" /\ UNCHANGED object /\ mode = "legacy"
    BY <1>19 DEF LegacyRoute, memory
  <2>2. PICK pc \in {"call", "guard"}, selected \in Agent \cup {None} :
          Becomes(n, [turn[n] EXCEPT !.pc = pc, !.selected = selected])
    BY <1>19, LegacyRouteMoves
  <2> DEFINE t == [turn[n] EXCEPT !.pc = pc, !.selected = selected]
  <2>3. /\ t.pc = pc /\ t.message = turn[n].message /\ t.role = turn[n].role
        /\ t.object = turn[n].object /\ t.reply = turn[n].reply
    BY <1>1 DEF TurnState
  <2>4. Becomes(n, t)
    BY <2>2
  <2> HIDE DEF t
  <2>5. turn'[n].pc \in {"call", "guard"} /\ Same(n) /\ turn'[n].reply = turn[n].reply
    BY <1>3, <2>3, <2>4 DEF Same
  <2> QED BY <2>1, <2>5 DEF Advances
<1>20. CASE Follow(n)
  <2>1. turn[n].pc = "follow" /\ UNCHANGED object
    BY <1>20 DEF Follow, memory
  <2> DEFINE t == [turn[n] EXCEPT !.pc = "guard", !.selected = Session(n).active, !.continues = TRUE]
  <2>2. /\ t.pc = "guard" /\ t.message = turn[n].message /\ t.role = turn[n].role
        /\ t.object = turn[n].object /\ t.reply = turn[n].reply /\ t.selected = Session(n).active
    BY <1>1 DEF TurnState
  <2>3. Becomes(n, t)
    BY <1>20, FollowMoves
  <2> HIDE DEF t
  <2>4. turn'[n].pc = "guard" /\ Same(n) /\ turn'[n].reply = turn[n].reply
        /\ turn'[n].selected = Session(n).active
    BY <1>3, <2>2, <2>3 DEF Same
  <2> QED BY <2>1, <2>4 DEF Advances
<1>21. CASE Call(n)
  <2>1. turn[n].pc = "call"
    BY <1>21 DEF Call
  <2>2. PICK selected \in Agent :
          /\ turn[n].selected # None => selected = turn[n].selected
          /\ Becomes(n, [turn[n] EXCEPT !.pc = "guard", !.selected = selected])
    BY <1>21, CallMoves
  <2> DEFINE t == [turn[n] EXCEPT !.pc = "guard", !.selected = selected]
  <2>3. /\ t.pc = "guard" /\ t.message = turn[n].message /\ t.role = turn[n].role
        /\ t.object = turn[n].object /\ t.reply = turn[n].reply /\ t.selected = selected
    BY <1>1 DEF TurnState
  <2>4. Becomes(n, t)
    BY <2>2
  <2> HIDE DEF t
  <2>5. turn'[n].pc = "guard" /\ Same(n) /\ turn'[n].reply = turn[n].reply
        /\ turn'[n].selected = selected
    BY <1>3, <2>3, <2>4 DEF Same
  <2> QED BY <2>1, <2>2, <2>5 DEF Advances
<1>22. CASE Admit(n)
  <2>1. turn[n].pc = "guard" /\ UNCHANGED object /\ MayUse(n)
    BY <1>22 DEF Admit, memory
  <2>2. PICK pc \in {"enrich", "answer"} :
          Becomes(n, [turn[n] EXCEPT !.pc = pc, !.asked = <<turn[n].message>>])
    BY <1>22, AdmitMoves
  <2> DEFINE t == [turn[n] EXCEPT !.pc = pc, !.asked = <<turn[n].message>>]
  <2>3. /\ t.pc = pc /\ t.message = turn[n].message /\ t.role = turn[n].role
        /\ t.object = turn[n].object /\ t.reply = turn[n].reply
        /\ t.selected = turn[n].selected /\ t.asked = <<turn[n].message>>
    BY <1>1 DEF TurnState
  <2>4. Becomes(n, t)
    BY <2>2
  <2> HIDE DEF t
  <2>5. /\ turn'[n].pc \in {"enrich", "answer"} /\ Same(n) /\ turn'[n].reply = turn[n].reply
        /\ turn'[n].selected = turn[n].selected /\ turn'[n].asked = <<turn[n].message>>
    BY <1>3, <2>3, <2>4 DEF Same
  <2>6. Last(turn'[n].asked) = turn[n].message
    BY <2>5 DEF Last
  <2> QED BY <2>1, <2>5, <2>6 DEF Advances
<1>23. CASE Deny(n)
  <2>1. turn[n].pc = "guard" /\ turn[n].pc \in Working
    BY <1>23 DEF Deny, Working
  <2>2. ASSUME StaffOnly \in Document, NEW pc \in {"ask", "extend"},
               Becomes(n, [turn[n] EXCEPT !.reply = StaffOnlyReply, !.pc = pc])
        PROVE  Advances(n)
    <3>1. StaffOnlyReply \in Reply
      BY <2>2, OwnReplyTyped DEF StaffOnlyReply
    <3>2. turn'[n].pc \in {"ask", "extend"} /\ turn'[n].reply = StaffOnlyReply /\ Same(n)
      BY <1>4, <2>2, <3>1
    <3> QED BY <2>1, <2>2, <3>2 DEF Advances
  <2>3. CASE Becomes(n, Remains(n, "refused"))
    BY <1>6, <1>8, <2>3 DEF Routed, Stage, Ended
  <2> QED BY <1>23, <2>2, <2>3, DenyMoves DEF StaffOnlyReply
<1>24. CASE Enrich(n)
  <2>1. turn[n].pc = "enrich" /\ turn[n].pc \in Working /\ UNCHANGED object
    BY <1>24 DEF Enrich, memory, Working
  <2> DEFINE asked == Enriched(turn[n].message, turn[n].selected, Session(n).history)
             t == [turn[n] EXCEPT !.pc = "answer", !.asked = asked]
  <2>2. /\ t.pc = "answer" /\ t.message = turn[n].message /\ t.role = turn[n].role
        /\ t.object = turn[n].object /\ t.reply = turn[n].reply
        /\ t.selected = turn[n].selected /\ t.asked = asked
    <3> HIDE DEF asked
    <3> QED BY <1>1 DEF TurnState
  <2>3. Becomes(n, t)
    BY <1>24, EnrichMoves
  <2>4. Last(asked) = turn[n].message
    <3>1. turn[n].message \in Utterance /\ Session(n).history \in Seq(Entry)
      BY <1>1, <2>1, SessionTyped DEF TurnState
    <3> QED BY <3>1, EnrichedTyped
  <2> HIDE DEF t, asked
  <2>5. /\ turn'[n].pc = "answer" /\ Same(n) /\ turn'[n].reply = turn[n].reply
        /\ turn'[n].selected = turn[n].selected /\ turn'[n].asked = asked
    BY <1>3, <2>2, <2>3 DEF Same
  <2> QED BY <2>1, <2>4, <2>5 DEF Advances
<1>25. CASE Answer(n)
  <2>1. turn[n].pc = "answer"
    BY <1>25 DEF Answer
  <2>2. PICK reply \in Replies(Selected(n), turn[n].asked, QuestionsOf(Session(n).history)) :
          /\ Selected(n) \in Agent
          /\ reply \in Reply /\ reply.agent = Selected(n)
          /\ \E pc \in {"ask", "extend"} :
               Becomes(n, [turn[n] EXCEPT !.reply = reply, !.pc = pc])
    BY <1>25, AnswerMoves
  <2>3. reply.cites \subseteq ForAgent(Selected(n)) \cup NamedBy(Selected(n), turn[n].asked)
    BY <2>1, <2>2, CitesOfAnswer
  <2>4. /\ turn'[n].pc \in {"ask", "extend"} /\ turn'[n].reply = reply /\ Same(n)
        /\ turn'[n].selected = turn[n].selected
    BY <1>4, <2>2
  <2> QED BY <2>1, <2>2, <2>3, <2>4 DEF Advances
<1> QED BY <1>9, <1>10, <1>11, <1>12, <1>13, <1>14, <1>15, <1>16, <1>17, <1>18, <1>19, <1>20,
          <1>21, <1>22, <1>23, <1>24, <1>25
       DEF TurnStep, GetSession, ChooseAgent, Execute, Persist

------------------------------------------------------------------------------
(* Where a reply comes from *)

\* A turn that has no reply, yet or any more, and no agent.
Unanswered(i) == turn'[i].pc \in {"load", "classify", "lost"} /\ turn'[i].reply = NoReply

\* Every step is work on one turn; it leaves the others as they are, or unanswered.
LEMMA TurnParts ==
  ASSUME TypeOK, Refs, [Next]_vars, NEW i \in Turn
  PROVE  Stays(i) \/ Progress(i) \/ Unanswered(i)
<1>1. ASSUME NEW n \in Turn, Arrive(n) PROVE Stays(i) \/ Unanswered(i)
  <2>1. Arrives(n)
    BY <1>1, ArrivalMoves
  <2> QED BY <2>1 DEF Arrives, Unanswered
<1>2. ASSUME NEW n \in Turn, TurnStep(n) PROVE Stays(i) \/ Progress(i)
  <2>1. Progress(n)
    BY <1>2, ProgressSteps
  <2> QED BY <2>1 DEF Progress, Stays
<1>3. ASSUME NEW k \in Reset, ResetBegins(k) \/ ResetStep(k) PROVE Stays(i)
  <2>1. CASE ResetBegins(k)
    BY <2>1, ResetBeginsMoves DEF Clears
  <2>2. CASE ResetStep(k)
    BY <2>2, ResetSteps DEF ResetMoves, ResetMoved, Stays
  <2> QED BY <1>3, <2>1, <2>2
<1>4. CASE Crash
  <2>1. Dies
    BY <1>4, CrashMoves
  <2> QED BY <2>1 DEF Dies, Unanswered, Stays
<1>5. CASE UNCHANGED vars
  BY <1>5 DEF vars, Stays
<1> QED BY <1>1, <1>2, <1>3, <1>4, <1>5 DEF Next

\* A reply is the orchestrator's own to this message, or comes from an agent that
\* the message reached and cites what the agent may read or names.
Justified(reply, m) ==
  \/ reply \in OwnReplies(m)
  \/ Reaches(m) /\ reply = StaffOnlyReply /\ StaffOnly \in Document
  \/ /\ Reaches(m) /\ reply.agent \in Agent
     /\ reply.cites \subseteq ForAgent(reply.agent) \cup NamedBy(reply.agent, <<m>>)

Sound(n) ==
  /\ turn[n].pc \in Routed => Reaches(turn[n].message)
  /\ turn[n].pc \in {"enrich", "answer"} => Last(turn[n].asked) = turn[n].message
  /\ turn[n].reply # NoReply => Justified(turn[n].reply, turn[n].message)

Soundness == \A n \in Turn : Sound(n)

\* A turn that advances keeps its reply justified.
LEMMA SoundTurn ==
  ASSUME TypeOK, Refs, NEW n \in Turn, Sound(n), Progress(n)
  PROVE  Sound(n)'
<1> DEFINE m == turn[n].message
<1>1. Advances(n)
  BY DEF Progress
<1>2. ASSUME turn'[n].pc \in Routed => Reaches(m),
             turn'[n].pc \in {"enrich", "answer"} => Last(turn'[n].asked) = m,
             turn'[n].reply \in {turn[n].reply, NoReply} \/ Justified(turn'[n].reply, m),
             turn'[n].message = turn[n].message
      PROVE  Sound(n)'
  <2>1. turn'[n].message = m
    BY <1>2
  <2>2. turn'[n].reply # NoReply => Justified(turn'[n].reply, m)
    <3>1. turn[n].reply # NoReply => Justified(turn[n].reply, m)
      BY DEF Sound
    <3> QED BY <1>2, <3>1
  <2> HIDE DEF m
  <2> QED BY <1>2, <2>1, <2>2 DEF Sound
<1>3. turn[n].pc \in Routed => Reaches(m)
  BY DEF Sound
<1>4. turn[n].pc = "answer" => Last(turn[n].asked) = m
  BY DEF Sound
<1>5. CASE /\ turn[n].pc = "answer" /\ turn'[n].pc \in {"ask", "extend"} /\ Same(n)
           /\ turn'[n].reply.agent = Selected(n) /\ Selected(n) \in Agent
           /\ turn'[n].reply.cites \subseteq
                ForAgent(Selected(n)) \cup NamedBy(Selected(n), turn[n].asked)
  <2>1. NamedBy(Selected(n), turn[n].asked) = NamedBy(Selected(n), <<m>>)
    BY <1>4, <1>5 DEF NamedBy, Last
  <2>2. Justified(turn'[n].reply, m)
    <3> DEFINE reply == turn'[n].reply
    <3>1. /\ reply.agent \in Agent /\ Reaches(m)
          /\ reply.cites \subseteq ForAgent(reply.agent) \cup NamedBy(reply.agent, <<m>>)
      BY <1>3, <1>5, <2>1 DEF Routed
    <3> HIDE DEF reply, m
    <3>2. Justified(reply, m)
      BY <3>1 DEF Justified
    <3> QED BY <3>2 DEF reply
  <2> QED BY <1>2, <1>5, <2>2 DEF Same, Routed
<1>6. CASE /\ turn'[n].pc \in {"ask", "extend"} /\ Same(n)
           /\ \/ turn'[n].reply \in OwnReplies(turn[n].message)
              \/ turn[n].pc = "guard" /\ turn'[n].reply = StaffOnlyReply /\ StaffOnly \in Document
  <2>1. Justified(turn'[n].reply, m)
    BY <1>3, <1>6 DEF Justified, Routed
  <2> QED BY <1>2, <1>6, <2>1 DEF Same, Routed
<1>7. CASE /\ turn'[n].pc \in {"route", "call", "follow", "guard"} /\ Same(n)
           /\ turn'[n].reply = turn[n].reply /\ Reaches(m)
  BY <1>2, <1>7 DEF Same
<1>8. CASE /\ turn[n].pc \in {"guard", "enrich"} /\ turn'[n].pc \in {"enrich", "answer"} /\ Same(n)
           /\ turn'[n].reply = turn[n].reply /\ Last(turn'[n].asked) = m
  BY <1>2, <1>3, <1>8 DEF Same, Routed
<1>9. CASE /\ turn'[n].pc \notin {"idle"} \cup Routed
           /\ turn'[n].reply \in {turn[n].reply, NoReply} /\ turn'[n].message = turn[n].message
  BY <1>2, <1>9 DEF Routed
<1>10. turn[n].pc \in {"route", "call", "follow"} => Reaches(m)
  BY <1>3 DEF Routed
<1> HIDE DEF m
<1> QED BY <1>1, <1>5, <1>6, <1>7, <1>8, <1>9, <1>10 DEF Advances, m

\* So does every other step.
LEMMA SoundNext == TypeOK /\ Refs /\ Soundness /\ [Next]_vars => Soundness'
<1> SUFFICES ASSUME TypeOK, Refs, Soundness, [Next]_vars, NEW n \in Turn PROVE Sound(n)'
  BY DEF Soundness
<1>1. Sound(n)
  BY DEF Soundness
<1>2. CASE Stays(n)
  BY <1>1, <1>2 DEF Stays, Sound
<1>3. CASE Progress(n)
  BY <1>1, <1>3, SoundTurn
<1>4. CASE Unanswered(n)
  BY <1>4 DEF Unanswered, Sound, Routed
<1> QED BY <1>2, <1>3, <1>4, TurnParts

\* Nobody has a reply at the start.
LEMMA SoundInit == Init => Soundness
<1> SUFFICES ASSUME Init, NEW n \in Turn PROVE Sound(n)
  BY DEF Soundness
<1>1. turn[n] = IdleTurn
  BY DEF Init
<1>2. IdleTurn.pc = "idle" /\ IdleTurn.reply = NoReply
  BY DEF IdleTurn
<1> QED BY <1>1, <1>2 DEF Sound, Routed

------------------------------------------------------------------------------
(* What the gate lets pass *)

\* The refusals of abuse and of crime are loaded.
SafetyDocuments == {"conversation-safety-abuse", "conversation-safety-illegal"}

\* The rule that is found, if one applies.
Risk(m) == SelectInSeq(HighRiskRules, LAMBDA rule : Says(m, rule.words))
Risky(m) == Says(m, {"financial commitment", "approve credit", "warranty dispute",
                     "external change"})

\* A risky message meets a rule, and the rule names who takes it.
LEMMA RiskIsFound ==
  ASSUME NEW m, Risky(m)
  PROVE  /\ Risk(m) # 0
         /\ HighRiskRules[Risk(m)].target \in {"sales_manager", "service_manager", "support_operator"}
<1> DEFINE I == {i \in 1..Len(HighRiskRules) : Says(m, HighRiskRules[i].words)}
           Applies(i) == Says(m, HighRiskRules[i].words)
<1>1. /\ HighRiskRules[1].target = "sales_manager"
      /\ HighRiskRules[2].target = "service_manager"
      /\ HighRiskRules[3].target = "support_operator"
  BY DEF HighRiskRules
<1>2. Applies(1) \/ Applies(2) \/ Applies(3)
  <2>1. /\ HighRiskRules[1].words = {"financial commitment", "approve credit"}
        /\ HighRiskRules[2].words = {"warranty dispute"}
        /\ HighRiskRules[3].words = {"external change"}
    BY DEF HighRiskRules
  <2>2. \/ Says(m, {"financial commitment", "approve credit"})
        \/ Says(m, {"warranty dispute"})
        \/ Says(m, {"external change"})
    BY DEF Risky, Says
  <2> QED BY <2>1, <2>2, Zenon
<1>8. Len(HighRiskRules) = 3
  BY DEF HighRiskRules
<1>3. I # {}
  <2>1. I = {i \in 1..3 : Applies(i)}
    BY <1>8
  <2> HIDE DEF I, Applies
  <2> QED BY <1>2, <2>1
<1>4. I \in SUBSET Nat
  OBVIOUS
<1>5. Risk(m) = Min(I)
  BY <1>3 DEF Risk, SelectInSeq
<1>6. Risk(m) \in I
  <2> HIDE DEF I
  <2> QED BY <1>3, <1>4, <1>5, MinOfNaturals
<1>7. Risk(m) = 1 \/ Risk(m) = 2 \/ Risk(m) = 3
  <2>1. I \subseteq 1..3
    BY <1>8
  <2>2. \A i \in 1..3 : i = 1 \/ i = 2 \/ i = 3
    OBVIOUS
  <2> HIDE DEF I
  <2> QED BY <1>6, <2>1, <2>2, Zenon
<1> QED BY <1>1, <1>7

\* Whoever has the session, such a message goes to a person.
LEMMA RiskIsHandedOver ==
  ASSUME NEW m, NEW active, Risky(m)
  PROVE  Decide(m, active).route = "human" /\ Decide(m, active).target # None
<1> DEFINE target == HighRiskRules[Risk(m)].target
<1>1. Risk(m) # 0 /\ target # None
  BY RiskIsFound DEF None
<1>2. HumanTarget(active) # None
  BY DEF HumanTarget, None
<1>3. Decide(m, active) = IF Says(m, HumanMarkers)
                          THEN RouterDecision("human", None, HumanTarget(active))
                          ELSE RouterDecision("human", None, target)
  BY <1>1 DEF Decide, Risk
<1>4. \A t : /\ RouterDecision("human", None, t).route = "human"
             /\ RouterDecision("human", None, t).target = t
  BY DEF RouterDecision
<1> HIDE DEF target
<1> QED BY <1>1, <1>2, <1>3, <1>4

\* An answer of the orchestrator itself is an answer.
LEMMA OwnAnswer ==
  ASSUME NEW skill, NEW target, NEW cites
  PROVE  LET reply == OrchestratorReply(skill, target, cites)
         IN  /\ reply # NoReply /\ reply.agent = "AI_ORCHESTRATOR" /\ reply.agent \notin Agent
             /\ reply.skill = skill /\ reply.target = target /\ reply.cites = cites
BY DEF OrchestratorReply, NoReply, Agent, None

\* The gate lets no message pass that it can refuse or hand over.
LEMMA GateOfReaches ==
  ASSUME NEW m, Reaches(m), SafetyDocuments \subseteq Document
  PROVE  \E active \in Agent \cup {None} : Decide(m, active).route \notin {"clarify", "human"}
<1>1. PICK active \in Agent \cup {None} : NoReply \in DirectReplies(m, active)
  BY DEF Reaches
<1> DEFINE decision == Decide(m, active)
<1>2. \A id \in SafetyDocuments : NoReply \notin FromDocument(id, "safety_refusal")
  BY OwnAnswer DEF FromDocument
<1>3. NoReply \notin FromDecision(decision)
  BY OwnAnswer DEF FromDecision
<1>4. "profanity" \notin m.says /\ "illegal" \notin m.says
  <2>1. CASE "profanity" \in m.says
    <3>1. DirectReplies(m, active) = FromDocument("conversation-safety-abuse", "safety_refusal")
      BY <2>1 DEF DirectReplies
    <3> QED BY <1>1, <1>2, <3>1 DEF SafetyDocuments
  <2>2. CASE "profanity" \notin m.says /\ "illegal" \in m.says
    <3>1. DirectReplies(m, active) = FromDocument("conversation-safety-illegal", "safety_refusal")
      BY <2>2 DEF DirectReplies
    <3> QED BY <1>1, <1>2, <3>1 DEF SafetyDocuments
  <2> QED BY <2>1, <2>2
<1>5. ASSUME decision.route \in {"clarify", "human"} PROVE FALSE
  <2>1. DirectReplies(m, active) = FromDecision(decision)
    BY <1>4, <1>5 DEF DirectReplies
  <2> QED BY <1>1, <1>3, <2>1
<1> QED BY <1>5

\* Nor, with the documents of the next two refusals, a question about spare parts.
LEMMA PartsAreAnswered ==
  ASSUME NEW m, Reaches(m), OffCatalog(m), "conversation-parts" \in Document,
         SafetyDocuments \cup {"conversation-human"} \subseteq Document
  PROVE  FALSE
<1>1. PICK active \in Agent \cup {None} : NoReply \in DirectReplies(m, active)
  BY DEF Reaches
<1> DEFINE decision == Decide(m, active)
<1>2. \A id \in Document : NoReply \notin FromDocument(id, "safety_refusal")
                           /\ NoReply \notin FromDocument(id, "common_phrases")
  BY OwnAnswer DEF FromDocument
<1>3. NoReply \notin FromDecision(decision)
  BY OwnAnswer DEF FromDecision
<1>4. \/ DirectReplies(m, active) = FromDocument("conversation-safety-abuse", "safety_refusal")
      \/ DirectReplies(m, active) = FromDocument("conversation-safety-illegal", "safety_refusal")
      \/ DirectReplies(m, active) = FromDecision(decision)
      \/ DirectReplies(m, active) = FromDocument("conversation-human", "common_phrases")
      \/ DirectReplies(m, active) = FromDocument("conversation-parts", "common_phrases")
  BY Zenon DEF DirectReplies
<1>5. /\ "conversation-safety-abuse" \in Document /\ "conversation-safety-illegal" \in Document
      /\ "conversation-human" \in Document /\ "conversation-parts" \in Document
  BY DEF SafetyDocuments
<1> HIDE DEF decision
<1> QED BY <1>1, <1>2, <1>3, <1>4, <1>5

\* The orchestrator quotes what it may read.
LEMMA OwnCites ==
  ASSUME NEW m, NEW reply \in OwnReplies(m), reply # NoReply
  PROVE  reply.agent \notin Agent /\ reply.cites \subseteq ForAgent("ORCHESTRATOR")
<1> DEFINE Good(r) == r # NoReply => r.agent \notin Agent /\ r.cites \subseteq ForAgent("ORCHESTRATOR")
<1>1. \A d \in Document \cap OwnDocuments : d \in ForAgent("ORCHESTRATOR")
  <2> SUFFICES ASSUME NEW d \in Document, d \in OwnDocuments PROVE d \in ForAgent("ORCHESTRATOR")
    OBVIOUS
  <2>1. SectionOf[d] = "conversation" /\ OwnerOf[d] \in {Anyone, "ORCHESTRATOR"}
    BY FilingAssumption
  <2>2. "conversation" \in SectionAccess["ORCHESTRATOR"]
    BY DEF SectionAccess, Shared
  <2> QED BY <2>1, <2>2 DEF ForAgent
<1>2. \A id \in OwnDocuments : \A skill : \A r \in FromDocument(id, skill) : Good(r)
  BY <1>1, OwnAnswer DEF FromDocument
<1>3. \A decision : \A r \in FromDecision(decision) : Good(r)
  BY OwnAnswer DEF FromDecision
<1>4. \A d \in FaqDocuments : Good(FaqReply(d))
  BY OwnAnswer DEF FaqReply, FaqDocuments
<1>5. Good(SafeFailure)
  BY OwnAnswer DEF SafeFailure
<1>6. ASSUME NEW active, NEW r \in DirectReplies(m, active) PROVE Good(r)
  <2>1. /\ "conversation-safety-abuse" \in OwnDocuments
        /\ "conversation-safety-illegal" \in OwnDocuments
        /\ "conversation-human" \in OwnDocuments
        /\ "conversation-parts" \in OwnDocuments
        /\ "conversation-off-scope" \in OwnDocuments
        /\ \A phrase \in DOMAIN ConversationalDocuments :
             ConversationalDocuments[phrase] \in OwnDocuments
    <3>1. ConversationalDocuments.human = "conversation-human"
      BY DEF ConversationalDocuments
    <3>2. "human" \in DOMAIN ConversationalDocuments
      BY DEF ConversationalDocuments
    <3> QED BY <3>1, <3>2 DEF OwnDocuments
  <2>2. \/ r \in FromDocument("conversation-safety-abuse", "safety_refusal")
        \/ r \in FromDocument("conversation-safety-illegal", "safety_refusal")
        \/ r \in FromDecision(Decide(m, active))
        \/ r \in FromDocument("conversation-human", "common_phrases")
        \/ r \in FromDocument("conversation-parts", "common_phrases")
        \/ r \in FromDocument("conversation-off-scope", "common_phrases")
        \/ \E phrase \in DOMAIN ConversationalDocuments :
             r \in FromDocument(ConversationalDocuments[phrase], "common_phrases")
        \/ r \in {NoReply}
        \/ r \in {NoReply} \cup {FaqReply(d) : d \in FaqDocuments}
    BY <1>6, Zenon DEF DirectReplies
  <2> HIDE DEF Good
  <2>3. Good(NoReply)
    BY DEF Good
  <2> QED BY <1>2, <1>3, <1>4, <2>1, <2>2, <2>3
<1> HIDE DEF Good
<1>7. Good(reply)
  BY <1>5, <1>6 DEF OwnReplies
<1> QED BY <1>7 DEF Good

\* Replies are justified in every reachable state.
LEMMA SoundInductive == Spec => [](Typed /\ Soundness)
<1>1. Init => Typed /\ Soundness
  BY TypedInit, SoundInit
<1>2. Typed /\ Soundness /\ [Next]_vars => (Typed /\ Soundness)'
  BY TypedNext, SoundNext DEF Typed
<1> QED BY <1>1, <1>2, PTL DEF Spec

\* A request that commits the company never gets as far as an agent: with the two
\* refusals loaded, it is refused or handed over in every session, and a failure
\* on the way hands it over as well.
THEOREM RisksReachPeople ==
  ASSUME SafetyDocuments \subseteq Document
  PROVE  Spec => []RiskGoesToPeople
<1>1. ASSUME NEW m, Risky(m) PROVE ~Reaches(m)
  BY <1>1, GateOfReaches, RiskIsHandedOver
<1>2. ASSUME NEW m, Risky(m), NEW reply \in OwnReplies(m), reply # NoReply
      PROVE  reply.target # None \/ reply.skill = "safety_refusal"
  <2> DEFINE Handled(r) == r.target # None \/ r.skill = "safety_refusal"
  <2>1. Handled(SafeFailure)
    BY OwnAnswer DEF SafeFailure, None
  <2>2. ASSUME NEW active, NEW r \in DirectReplies(m, active) PROVE Handled(r)
    <3> DEFINE decision == Decide(m, active)
    <3>1. decision.route = "human" /\ decision.target # None
      BY <1>2, RiskIsHandedOver
    <3>2. \A id \in SafetyDocuments : \A q \in FromDocument(id, "safety_refusal") : Handled(q)
      BY OwnAnswer DEF FromDocument
    <3>3. \A q \in FromDecision(decision) : Handled(q)
      BY <3>1, OwnAnswer DEF FromDecision
    <3>4. \/ r \in FromDocument("conversation-safety-abuse", "safety_refusal")
          \/ r \in FromDocument("conversation-safety-illegal", "safety_refusal")
          \/ r \in FromDecision(decision)
      BY <2>2, <3>1, Zenon DEF DirectReplies
    <3> HIDE DEF Handled, decision
    <3> QED BY <3>2, <3>3, <3>4 DEF SafetyDocuments
  <2> HIDE DEF Handled
  <2>3. Handled(reply)
    BY <1>2, <2>1, <2>2 DEF OwnReplies
  <2> QED BY <2>3 DEF Handled
<1>3. Soundness => RiskGoesToPeople
  <2> SUFFICES ASSUME Soundness, NEW n \in Turn, Risky(turn[n].message), turn[n].reply # NoReply
               PROVE  /\ turn[n].reply.agent \notin Agent
                      /\ turn[n].reply.target # None \/ turn[n].reply.skill = "safety_refusal"
    BY DEF RiskGoesToPeople, Risky, Replied, FromAgent
  <2>1. Justified(turn[n].reply, turn[n].message)
    BY DEF Soundness, Sound
  <2>2. turn[n].reply \in OwnReplies(turn[n].message)
    BY <1>1, <2>1 DEF Justified
  <2> QED BY <1>2, <2>2, OwnCites
<1> QED BY <1>3, SoundInductive, PTL

\* Every citation is of a document its agent may read, whatever the model makes of
\* them, if no question about spare parts gets past the answer the orchestrator has
\* for it: an agent would quote that answer, which is the orchestrator's own.
THEOREM CitationsStayGrounded ==
  ASSUME "conversation-parts" \in Document =>
           SafetyDocuments \cup {"conversation-human"} \subseteq Document
  PROVE  Spec => []CitationsAreGrounded
<1>1. ASSUME NEW m, Reaches(m), NEW agent \in Agent
      PROVE  NamedBy(agent, <<m>>) \subseteq ForAgent(agent)
  <2> SUFFICES ASSUME NEW d \in NamedBy(agent, <<m>>) PROVE d \in ForAgent(agent)
    OBVIOUS
  <2>1. agent = "SALES_AGENT" /\ d \in VehicleDocuments(m)
    BY DEF NamedBy, Last
  <2>2. ~OffCatalog(m)
    <3>1. ASSUME OffCatalog(m) PROVE "conversation-parts" \in Document
      BY <2>1, <3>1 DEF VehicleDocuments
    <3> QED BY <1>1, <3>1, PartsAreAnswered
  <2>3. d \in Document /\ d \in {"sales-purchase-conditions", "sales-models"}
    BY <2>1, <2>2 DEF VehicleDocuments
  <2>4. SectionOf[d] = "sales" /\ OwnerOf[d] = Anyone
    BY <2>3, FilingAssumption
  <2>5. "sales" \in SectionAccess["SALES_AGENT"]
    BY DEF SectionAccess
  <2> QED BY <2>1, <2>3, <2>4, <2>5 DEF ForAgent
<1>2. StaffOnly \in Document => {StaffOnly} \subseteq ForAgent("ORCHESTRATOR")
  <2>1. StaffOnly \in OwnDocuments /\ "conversation" \in SectionAccess["ORCHESTRATOR"]
    BY DEF OwnDocuments, SectionAccess, Shared
  <2> QED BY <2>1, FilingAssumption DEF ForAgent
<1>3. Soundness => CitationsAreGrounded
  <2> SUFFICES ASSUME Soundness, NEW n \in Turn, turn[n].reply # NoReply
               PROVE  turn[n].reply.cites \subseteq
                        ForAgent(IF turn[n].reply.agent \in Agent THEN turn[n].reply.agent
                                 ELSE "ORCHESTRATOR")
    BY DEF CitationsAreGrounded, Replied, FromAgent
  <2> DEFINE reply == turn[n].reply
             m     == turn[n].message
  <2>1. Justified(reply, m) /\ reply # NoReply
    BY DEF Soundness, Sound
  <2> HIDE DEF reply, m
  <2>2. CASE reply \in OwnReplies(m)
    BY <2>1, <2>2, OwnCites DEF reply
  <2>3. CASE reply = StaffOnlyReply /\ StaffOnly \in Document
    BY <1>2, <2>3, OwnAnswer DEF StaffOnlyReply, reply
  <2>4. CASE /\ Reaches(m) /\ reply.agent \in Agent
             /\ reply.cites \subseteq ForAgent(reply.agent) \cup NamedBy(reply.agent, <<m>>)
    BY <1>1, <2>4 DEF reply
  <2> QED BY <2>1, <2>2, <2>3, <2>4 DEF Justified
<1> QED BY <1>3, SoundInductive, PTL

------------------------------------------------------------------------------
(* One request of the session at a time *)

Sequential == \A a, b \in Busy : a = b

\* A newcomer finds nobody.
LEMMA NobodyIsBusy ==
  ASSUME MaxConcurrent <= 1, Cardinality(Busy) < MaxConcurrent
  PROVE  Busy = {}
<1>1. MaxConcurrent \in Nat /\ MaxTurns \in Nat /\ MaxResets \in Nat
  BY OrchestratorAssumption
<1>2. IsFiniteSet(Busy)
  <2>1. Busy \subseteq 1..MaxTurns + MaxResets
    BY <1>1 DEF Busy, Turn, Reset
  <2>2. IsFiniteSet(1..MaxTurns + MaxResets)
    BY <1>1, FS_Interval
  <2> QED BY <2>1, <2>2, FS_Subset
<1>3. Cardinality(Busy) \in Nat
  BY <1>2, FS_CardinalityType
<1>4. Cardinality(Busy) = 0
  BY <1>1, <1>3
<1> QED BY <1>2, <1>4, FS_EmptySet

\* Nobody is at work at the start.
LEMMA SequentialInit == Init => Sequential
<1>1. IdleTurn.pc = "idle" /\ IdleReset.pc = "idle"
  BY DEF IdleTurn, IdleReset
<1>2. Init => Busy = {}
  BY <1>1 DEF Init, Busy, InProgress, Resetting
<1> QED BY <1>2 DEF Sequential

\* With one request at a time, one is at work at most.
LEMMA SequentialNext ==
  ASSUME MaxConcurrent <= 1
  PROVE  TypeOK /\ Refs /\ Sequential /\ [Next]_vars => Sequential'
<1> SUFFICES ASSUME TypeOK, Refs, Sequential, [Next]_vars PROVE Sequential'
  OBVIOUS
<1>1. ASSUME Busy' \subseteq Busy PROVE Sequential'
  BY <1>1 DEF Sequential
<1>2. ASSUME NEW x, Busy = {}, Busy' \subseteq Busy \cup {x} PROVE Sequential'
  BY <1>2 DEF Sequential
<1>3. ASSUME NEW n \in Turn, Arrive(n) PROVE Sequential'
  <2>1. Busy = {}
    BY <1>3, NobodyIsBusy DEF Arrive, Begin
  <2>2. Busy' \subseteq Busy \cup {n}
    <3>1. Arrives(n)
      BY <1>3, ArrivalMoves
    <3> QED BY <3>1 DEF Arrives, Stays, Meets, Busy, InProgress, Resetting
  <2> QED BY <1>2, <2>1, <2>2
<1>4. ASSUME NEW n \in Turn, TurnStep(n) PROVE Sequential'
  <2>1. Progress(n)
    BY <1>4, ProgressSteps
  <2>2. Busy' \subseteq Busy
    BY <2>1 DEF Progress, Busy, InProgress, Resetting
  <2> QED BY <1>1, <2>2
<1>5. ASSUME NEW k \in Reset, ResetBegins(k) PROVE Sequential'
  <2>1. Busy = {}
    BY <1>5, NobodyIsBusy DEF ResetBegins
  <2>2. Busy' \subseteq Busy \cup {k}
    <3>1. Clears(k)
      BY <1>5, ResetBeginsMoves
    <3> QED BY <3>1 DEF Clears, Stays, Meets, Busy, InProgress, Resetting
  <2> QED BY <1>2, <2>1, <2>2
<1>6. ASSUME NEW k \in Reset, ResetStep(k) PROVE Sequential'
  <2>1. ResetMoves(k)
    BY <1>6, ResetSteps
  <2>2. Busy' \subseteq Busy
    BY <2>1 DEF ResetMoves, ResetMoved, Busy, InProgress, Resetting
  <2> QED BY <1>1, <2>2
<1>7. CASE Crash
  <2>1. Dies
    BY <1>7, CrashMoves
  <2>2. Busy' \subseteq Busy
    BY <2>1 DEF Dies, Busy, InProgress, Resetting, Ended
  <2> QED BY <1>1, <2>2
<1>8. CASE UNCHANGED vars
  <2>1. Busy' \subseteq Busy
    BY <1>8 DEF vars, Busy, InProgress, Resetting
  <2> QED BY <1>1, <2>1
<1> QED BY <1>3, <1>4, <1>5, <1>6, <1>7, <1>8 DEF Next

\* Whoever is alone is not disturbed: the process works for it, or dies.
LEMMA Undisturbed ==
  ASSUME MaxConcurrent <= 1, TypeOK, Refs, Sequential, [Next]_vars, NEW n \in Turn, InProgress(n)
  PROVE  \/ TurnStep(n) /\ Progress(n)
         \/ Dies
         \/ UNCHANGED vars
<1>1. n \in Busy
  BY DEF Busy
<1>2. ASSUME NEW i \in Turn, Arrive(i) PROVE FALSE
  BY <1>1, <1>2, NobodyIsBusy DEF Arrive, Begin
<1>3. ASSUME NEW k \in Reset, ResetBegins(k) PROVE FALSE
  BY <1>1, <1>3, NobodyIsBusy DEF ResetBegins
<1>4. ASSUME NEW i \in Turn, TurnStep(i) PROVE i = n /\ Progress(i)
  <2>1. Progress(i)
    BY <1>4, ProgressSteps
  <2>2. i \in Busy
    BY <2>1 DEF Progress, Busy
  <2> QED BY <1>1, <2>1, <2>2 DEF Sequential
<1>5. ASSUME NEW k \in Reset, ResetStep(k) PROVE FALSE
  <2>1. k \in Busy
    BY <1>5 DEF ResetStep, ResetSnapshot, ResetWrites, ResetFails, Busy, Resetting
  <2>2. n # k
    BY Names
  <2> QED BY <1>1, <2>1, <2>2 DEF Sequential
<1>6. Crash => Dies
  BY CrashMoves
<1> QED BY <1>2, <1>3, <1>4, <1>5, <1>6 DEF Next

\* The three invariants together.
LEMMA SequentialInductive == Spec => [](Typed /\ Soundness /\ (MaxConcurrent <= 1 => Sequential))
<1> DEFINE Calm == MaxConcurrent <= 1 => Sequential
<1>1. Init => Calm
  BY SequentialInit
<1>2. Typed /\ Calm /\ [Next]_vars => Calm'
  BY SequentialNext DEF Typed
<1> HIDE DEF Calm
<1>3. Spec => [](Typed /\ Soundness /\ Calm)
  BY <1>1, <1>2, SoundInductive, PTL DEF Spec
<1> QED BY <1>3 DEF Calm

------------------------------------------------------------------------------
(* Who answers customers *)

\* An agent at work may serve the caller, and so may whoever has answered.
Permitted(n) ==
  /\ turn[n].pc \in {"enrich", "answer"} => Selected(n) \in AllowedAgents(turn[n].role)
  /\ turn[n].reply.agent \in Agent => turn[n].reply.agent \in AllowedAgents(turn[n].role)

Permission == \A n \in Turn : Permitted(n)

\* A turn that advances is answered by an agent its caller may use.
LEMMA PermittedTurn ==
  ASSUME TypeOK, NEW n \in Turn, Permitted(n), Progress(n)
  PROVE  Permitted(n)'
<1>1. Advances(n) /\ mode' = mode
  BY DEF Progress
<1>2. NoReply.agent \notin Agent
  BY DEF NoReply, Agent, None
<1>3. ASSUME turn'[n].pc \notin {"enrich", "answer"}, turn'[n].reply.agent \notin Agent
      PROVE  Permitted(n)'
  BY <1>3 DEF Permitted
<1>4. ASSUME turn'[n].pc \notin {"enrich", "answer"},
             turn'[n].reply = turn[n].reply, turn'[n].role = turn[n].role
      PROVE  Permitted(n)'
  BY <1>4 DEF Permitted
<1>5. CASE /\ turn'[n].pc \in {"ask", "extend"} /\ Same(n)
           /\ \/ turn'[n].reply \in OwnReplies(turn[n].message)
              \/ turn[n].pc = "guard" /\ turn'[n].reply = StaffOnlyReply /\ StaffOnly \in Document
  <2>1. turn'[n].reply.agent \notin Agent
    BY <1>2, <1>5, OwnCites, OwnAnswer DEF StaffOnlyReply
  <2> QED BY <1>3, <1>5, <2>1
<1>6. CASE /\ turn'[n].pc \in {"route", "call", "follow", "guard"} /\ Same(n)
           /\ turn'[n].reply = turn[n].reply
  BY <1>4, <1>6 DEF Same
<1>7. CASE /\ (turn[n].pc = "guard" /\ MayUse(n)) \/ turn[n].pc = "enrich"
           /\ turn'[n].pc \in {"enrich", "answer"} /\ Same(n)
           /\ turn'[n].reply = turn[n].reply /\ turn'[n].selected = turn[n].selected
           /\ UNCHANGED object
  <2>1. Selected(n)' = Selected(n)
    BY <1>1, <1>7 DEF Selected, Session, Same
  <2>2. Selected(n) \in AllowedAgents(turn[n].role)
    BY <1>7 DEF Permitted, MayUse
  <2> QED BY <1>7, <2>1, <2>2 DEF Permitted, Same
<1>8. CASE /\ turn[n].pc = "answer" /\ turn'[n].pc \in {"ask", "extend"} /\ Same(n)
           /\ turn'[n].reply.agent = Selected(n)
  BY <1>8 DEF Permitted, Same
<1>9. CASE /\ turn'[n].pc \notin {"idle"} \cup Routed
           /\ turn'[n].reply \in {turn[n].reply, NoReply}
           /\ turn'[n].reply # NoReply => turn'[n].role = turn[n].role
  BY <1>2, <1>3, <1>4, <1>9 DEF Routed
<1> QED BY <1>1, <1>5, <1>6, <1>7, <1>8, <1>9 DEF Advances

\* So it is after every step.
LEMMA PermittedNext ==
  ASSUME Modes = {"langgraph"} \/ MaxConcurrent <= 1
  PROVE  /\ TypeOK /\ TypeOK' /\ Refs /\ (MaxConcurrent <= 1 => Sequential) /\ Permission
         /\ [Next]_vars
         => Permission'
<1> SUFFICES ASSUME TypeOK, TypeOK', Refs, MaxConcurrent <= 1 => Sequential, Permission,
                    [Next]_vars, NEW n \in Turn
             PROVE  Permitted(n)'
  BY DEF Permission
<1>1. Permitted(n)
  BY DEF Permission
<1>2. CASE Progress(n)
  BY <1>1, <1>2, PermittedTurn
<1>3. CASE Unanswered(n)
  BY <1>3 DEF Unanswered, Permitted, NoReply, Agent, None
<1>4. CASE Stays(n)
  <2>1. turn[n].pc \in {"enrich", "answer"} => Progress(n) \/ Dies \/ Selected(n)' = Selected(n)
    <3>1. CASE Modes = {"langgraph"}
      BY <1>4, <3>1 DEF TypeOK, Selected, Stays
    <3>2. CASE MaxConcurrent <= 1 /\ turn[n].pc \in {"enrich", "answer"}
      <4>1. InProgress(n)
        BY <3>2 DEF InProgress, Ended
      <4>2. UNCHANGED vars => Selected(n)' = Selected(n)
        BY DEF vars, memory, limits, Selected, Session
      <4> QED BY <3>2, <4>1, <4>2, Undisturbed
    <3> QED BY <3>1, <3>2
  <2>2. CASE turn[n].pc \in {"enrich", "answer"} /\ Dies
    <3>1. turn'[n].pc = "lost"
      BY <2>2 DEF Dies, InProgress, Ended
    <3> QED BY <1>4, <2>2, <3>1 DEF Stays
  <2>3. CASE turn[n].pc \in {"enrich", "answer"} => Selected(n)' = Selected(n)
    BY <1>1, <1>4, <2>3 DEF Permitted, Stays
  <2> QED BY <1>2, <2>1, <2>2, <2>3
<1> QED BY <1>2, <1>3, <1>4, TurnParts

\* What a customer's reply cites is not internal, whoever answers.
LEMMA CustomersReadNothingInternal ==
  ASSUME NEW m, NEW reply, Justified(reply, m), reply # NoReply,
         reply.agent # "EMPLOYEE_AGENT", NEW d \in reply.cites
  PROVE  SectionOf[d] # "internal"
<1>1. "internal" \notin Shared
  BY DEF Shared
<1>2. \A a \in Agent \cup {"ORCHESTRATOR"} : a # "EMPLOYEE_AGENT" => "internal" \notin SectionAccess[a]
  BY DEF Agent, SectionAccess, Shared
<1>3. \A a \in Agent \cup {"ORCHESTRATOR"} : a # "EMPLOYEE_AGENT" =>
        \A e \in ForAgent(a) : SectionOf[e] # "internal"
  BY <1>2 DEF ForAgent
<1>4. CASE reply \in OwnReplies(m)
  <2>1. d \in ForAgent("ORCHESTRATOR")
    BY <1>4, OwnCites
  <2> QED BY <1>3, <2>1
<1>5. CASE reply = StaffOnlyReply /\ StaffOnly \in Document
  <2>1. d = StaffOnly
    BY <1>5, OwnAnswer DEF StaffOnlyReply
  <2>2. d \in Document \cap OwnDocuments
    BY <1>5, <2>1 DEF OwnDocuments
  <2> QED BY <2>2, FilingAssumption
<1>6. CASE reply.agent \in Agent /\ d \in ForAgent(reply.agent) \cup NamedBy(reply.agent, <<m>>)
  <2>1. CASE d \in ForAgent(reply.agent)
    BY <1>3, <1>6, <2>1
  <2>2. CASE d \in NamedBy(reply.agent, <<m>>)
    <3>1. /\ d \in Document
          /\ d \in {"conversation-parts", "sales-purchase-conditions", "sales-models"}
      BY <2>2 DEF NamedBy, VehicleDocuments
    <3>2. "conversation-parts" \in OwnDocuments
      BY DEF OwnDocuments
    <3>3. SectionOf[d] \in {"conversation", "sales"}
      BY <3>1, <3>2, FilingAssumption
    <3> QED BY <3>3
  <2> QED BY <1>6, <2>1, <2>2
<1> QED BY <1>4, <1>5, <1>6 DEF Justified

\* A customer is never answered by the employees' agent or from an internal
\* document, whatever agent a session was left with: in langgraph mode whatever
\* interleaves, as a turn keeps the agent that was checked; in legacy mode, where
\* it asks the session again, only with one request at a time.
THEOREM StaffAgentStaysInternal ==
  ASSUME Modes = {"langgraph"} \/ MaxConcurrent <= 1
  PROVE  Spec => []StaffAgentAnswersStaff
<1>1. Init => Permission
  BY DEF Init, Permission, Permitted, IdleTurn, NoReply, Agent, None
<1> DEFINE Calm == MaxConcurrent <= 1 => Sequential
<1>2. Typed /\ Typed' /\ Calm /\ Permission /\ [Next]_vars => Permission'
  BY PermittedNext DEF Typed
<1>3. Typed /\ Soundness /\ Permission => StaffAgentAnswersStaff
  <2> SUFFICES ASSUME Typed, Soundness, Permission, NEW n \in Turn, turn[n].role = "client"
               PROVE  /\ turn[n].reply.agent # "EMPLOYEE_AGENT"
                      /\ \A d \in turn[n].reply.cites : SectionOf[d] # "internal"
    BY DEF StaffAgentAnswersStaff
  <2>1. turn[n].reply.agent # "EMPLOYEE_AGENT"
    BY DEF Permission, Permitted, AllowedAgents, Agent
  <2>2. CASE turn[n].reply = NoReply
    BY <2>1, <2>2 DEF NoReply
  <2>3. CASE turn[n].reply # NoReply
    <3>1. Justified(turn[n].reply, turn[n].message)
      BY <2>3 DEF Soundness, Sound
    <3> QED BY <2>1, <2>3, <3>1, CustomersReadNothingInternal
  <2> QED BY <2>2, <2>3
<1>4. Spec => [](Typed /\ Soundness /\ Calm)
  BY SequentialInductive
<1> HIDE DEF Calm
<1> QED BY <1>1, <1>2, <1>3, <1>4, PTL DEF Spec

------------------------------------------------------------------------------
(* Who serves a topic *)

OnlyAbout(m, a) ==
  DomainScore(m, a) > 0 /\ \A b \in Agent \ {a} : DomainScore(m, b) = 0

\* The router names the agent of a message about one domain, whoever has the session.
LEMMA TopicIsChosen ==
  ASSUME SafetyDocuments \subseteq Document, NEW m, Reaches(m),
         NEW a \in Agent, OnlyAbout(m, a), NEW active
  PROVE  Chosen(m, active) = a
<1> DEFINE matched == {b \in Agent : DomainScore(m, b) > 0}
           best    == {b \in matched : \A c \in matched \ {b} : DomainScore(m, b) > DomainScore(m, c)}
           Routes(other, decision) ==
             decision =
               IF Says(m, HumanMarkers) THEN RouterDecision("human", None, HumanTarget(other))
               ELSE IF Risk(m) # 0
               THEN RouterDecision("human", None, HighRiskRules[Risk(m)].target)
               ELSE IF m.phrase = "ambiguous" THEN RouterDecision("clarify", None, None)
               ELSE IF Cardinality(matched) > 1
               THEN RouterDecision("complex_model",
                                   IF best = {} THEN None ELSE CHOOSE b \in best : TRUE, None)
               ELSE IF matched # {}
               THEN RouterDecision("simple_model", CHOOSE b \in matched : TRUE, None)
               ELSE IF other # None THEN RouterDecision("skill", other, None)
               ELSE RouterDecision("complex_model", None, None)
<1>1. \A other : Routes(other, Decide(m, other))
  BY DEF Decide, Risk
<1>2. PICK first \in Agent \cup {None} : Decide(m, first).route \notin {"clarify", "human"}
  BY GateOfReaches
<1>3. matched = {a}
  BY DEF OnlyAbout
<1>4. Cardinality(matched) = 1 /\ matched # {} /\ (CHOOSE b \in matched : TRUE) = a
  BY <1>3, FS_Singleton
<1>5. ~(Cardinality(matched) > 1)
  <2> HIDE DEF matched
  <2> QED BY <1>4
<1>6. \A route, agent, target : /\ RouterDecision(route, agent, target).route = route
                                /\ RouterDecision(route, agent, target).agent = agent
  BY DEF RouterDecision
<1> HIDE DEF matched, best
<1>7. ~Says(m, HumanMarkers) /\ Risk(m) = 0 /\ m.phrase # "ambiguous"
  <2>1. Routes(first, Decide(m, first))
    BY <1>1
  <2> QED BY <1>2, <1>6, <2>1
<1>8. Decide(m, active) = RouterDecision("simple_model", a, None)
  <2>1. Routes(active, Decide(m, active))
    BY <1>1
  <2> QED BY <1>4, <1>5, <1>7, <2>1
<1>9. Decide(m, active).agent = a /\ a # None
  BY <1>6, <1>8 DEF Agent, None
<1> QED BY <1>9 DEF Chosen

\* From its routing on, the agent of the topic has the turn.
Topical(n) ==
  mode = "langgraph" => \A a \in Agent : OnlyAbout(turn[n].message, a) =>
    /\ turn[n].pc \in {"call", "guard", "enrich", "answer"} => turn[n].selected = a
    /\ turn[n].pc = "follow" => Session(n).active = a
    /\ turn[n].reply.agent \in Agent => turn[n].reply.agent = a

\* A turn that advances keeps to the agent of its topic.
LEMMA TopicalTurn ==
  ASSUME SafetyDocuments \subseteq Document, TypeOK, NEW n \in Turn, Sound(n), Topical(n), Progress(n)
  PROVE  Topical(n)'
<1>1. Advances(n) /\ mode' = mode
  BY DEF Progress
<1> SUFFICES ASSUME mode = "langgraph", NEW a \in Agent, OnlyAbout(turn'[n].message, a)
             PROVE  /\ turn'[n].pc \in {"call", "guard", "enrich", "answer"} => turn'[n].selected = a
                    /\ turn'[n].pc = "follow" => Session(n)'.active = a
                    /\ turn'[n].reply.agent \in Agent => turn'[n].reply.agent = a
  BY <1>1 DEF Topical
<1> DEFINE m == turn[n].message
<1>2. turn'[n].message = m
  BY <1>1 DEF Advances, Same
<1>3. /\ turn[n].pc \in {"call", "guard", "enrich", "answer"} => turn[n].selected = a
      /\ turn[n].pc = "follow" => Session(n).active = a
      /\ turn[n].reply.agent \in Agent => turn[n].reply.agent = a
  BY <1>2 DEF Topical
<1>4. NoReply.agent \notin Agent /\ a # None
  BY DEF NoReply, Agent, None
<1>5. turn[n].pc = "route" => Chosen(m, Session(n).active) = a
  BY <1>2, TopicIsChosen DEF Sound, Routed
<1>6. CASE /\ turn'[n].pc \in {"ask", "extend"} /\ Same(n)
           /\ \/ turn'[n].reply \in OwnReplies(turn[n].message)
              \/ turn[n].pc = "guard" /\ turn'[n].reply = StaffOnlyReply /\ StaffOnly \in Document
  <2>1. turn'[n].reply.agent \notin Agent
    BY <1>4, <1>6, OwnCites, OwnAnswer DEF StaffOnlyReply
  <2> QED BY <1>6, <2>1
<1>7. CASE turn'[n].pc = "route" /\ turn'[n].reply = turn[n].reply
  BY <1>3, <1>7
<1>8. CASE /\ turn[n].pc = "route" /\ Same(n) /\ UNCHANGED object
           /\ turn'[n].reply = turn[n].reply
           /\ LET active   == Session(n).active
                  explicit == Chosen(turn[n].message, active)
              IN  \/ turn'[n].pc = "call" /\ turn'[n].selected = explicit
                     /\ (active = None \/ explicit \notin {None, active})
                  \/ turn'[n].pc = "follow" /\ active # None /\ explicit \in {None, active}
                  \/ mode = "legacy" /\ turn'[n].pc \in {"call", "guard"}
  <2>1. Session(n)' = Session(n)
    BY <1>8 DEF Session, Same
  <2> QED BY <1>3, <1>4, <1>5, <1>8, <2>1
<1>9. CASE /\ turn[n].pc = "follow" /\ turn'[n].pc = "guard"
           /\ turn'[n].reply = turn[n].reply /\ turn'[n].selected = Session(n).active
  BY <1>3, <1>9
<1>10. CASE /\ turn[n].pc = "call" /\ turn'[n].pc = "guard"
            /\ turn'[n].reply = turn[n].reply
            /\ turn[n].selected # None => turn'[n].selected = turn[n].selected
  BY <1>3, <1>4, <1>10
<1>11. CASE /\ turn[n].pc \in {"guard", "enrich"} /\ turn'[n].pc \in {"enrich", "answer"}
            /\ turn'[n].reply = turn[n].reply /\ turn'[n].selected = turn[n].selected
  BY <1>3, <1>11
<1>12. CASE /\ turn[n].pc = "answer" /\ turn'[n].pc \in {"ask", "extend"}
            /\ turn'[n].reply.agent = Selected(n)
  <2>1. Selected(n) = turn[n].selected
    BY DEF Selected
  <2> QED BY <1>3, <1>12, <2>1
<1>13. CASE /\ turn'[n].pc \notin {"idle"} \cup Routed
            /\ turn'[n].reply \in {turn[n].reply, NoReply}
  BY <1>3, <1>4, <1>13 DEF Routed
<1> QED BY <1>1, <1>6, <1>7, <1>8, <1>9, <1>10, <1>11, <1>12, <1>13 DEF Advances

\* So it is after every step.
LEMMA TopicalNext ==
  ASSUME SafetyDocuments \subseteq Document, MaxConcurrent <= 1
  PROVE  TypeOK /\ Refs /\ Soundness /\ Sequential /\ (\A n \in Turn : Topical(n)) /\ [Next]_vars
         => (\A n \in Turn : Topical(n))'
<1> SUFFICES ASSUME TypeOK, Refs, Soundness, Sequential, \A n \in Turn : Topical(n), [Next]_vars,
                    NEW n \in Turn
             PROVE  Topical(n)'
  OBVIOUS
<1>1. Topical(n) /\ Sound(n)
  BY DEF Soundness
<1>2. CASE Progress(n)
  BY <1>1, <1>2, TopicalTurn
<1>3. CASE UNCHANGED vars
  BY <1>1, <1>3 DEF vars, memory, limits, Topical, Session
<1>4. ASSUME turn'[n].pc \notin Routed, turn'[n].reply = NoReply
      PROVE  Topical(n)'
  BY <1>4 DEF Topical, Routed, NoReply, Agent, None
<1>5. CASE InProgress(n) /\ Dies
  BY <1>4, <1>5 DEF Dies, Routed
<1>6. CASE Unanswered(n)
  BY <1>4, <1>6 DEF Unanswered, Routed
<1>7. CASE ~InProgress(n) /\ Stays(n)
  <2>1. turn'[n].pc \notin Routed
    BY <1>7 DEF InProgress, Ended, Stays, Routed
  <2>2. mode' = mode
    BY DEF Next, Arrive, Begin, TurnStep, GetSession, Load, Install, Fetch, ChooseAgent, Classify,
           Route, Follow, LegacyRoute, Call, Execute, Admit, Deny, Enrich, Answer, Persist,
           AppendQuestion, AppendAnswer, Extend, Appends, Snapshot, Write, Conclude, Record,
           Propose, Exception, FailSafe, Fail, ResetBegins, ResetStep, ResetSnapshot, ResetWrites,
           ResetFails, Crash, limits, vars
  <2> QED BY <1>1, <1>7, <2>1, <2>2 DEF Topical, Stays, Routed
<1> QED BY <1>2, <1>3, <1>5, <1>6, <1>7, TurnParts, Undisturbed

\* In langgraph mode, in a session with one request at a time and with the two
\* refusals loaded, a message about exactly one domain that an agent answers is
\* answered by that domain's agent, whoever had the session before and whatever the
\* language model classified.
THEOREM TopicsAreServed ==
  ASSUME SafetyDocuments \subseteq Document, MaxConcurrent <= 1
  PROVE  Spec => []ExplicitTopicIsServed
<1> DEFINE OnTopic == \A n \in Turn : Topical(n)
<1>1. Init => OnTopic
  BY DEF Init, Topical, IdleTurn, NoReply, Agent, None
<1>2. Typed /\ Soundness /\ Sequential /\ OnTopic /\ [Next]_vars => OnTopic'
  BY TopicalNext DEF Typed
<1>3. OnTopic => ExplicitTopicIsServed
  BY DEF ExplicitTopicIsServed, Topical, OnlyAbout, FromAgent
<1>4. Spec => [](Typed /\ Soundness /\ Sequential)
  BY SequentialInductive, PTL
<1> HIDE DEF OnTopic
<1> QED BY <1>1, <1>2, <1>3, <1>4, PTL DEF Spec
=============================================================================
