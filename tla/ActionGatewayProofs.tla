------------------------- MODULE ActionGatewayProofs -------------------------
(***************************************************************************)
(* Theorems about ActionGateway for every set of actions and workers and   *)
(* every value of the other constants.  The typing lemmas and the "effect" *)
(* lemmas say once what the shared operators do to the state; each         *)
(* invariant then has one step lemma with one case per action, and the     *)
(* theorems at the end combine them.                                       *)
(***************************************************************************)
EXTENDS ActionGateway, FiniteSetTheorems, TLAPS

------------------------------------------------------------------------------
(* Types *)

\* MoveTo writes statuses and audit rows of the right type.
LEMMA MoveToTyped ==
  ASSUME NEW a \in Action, NEW s \in Status, NEW e \in Event, TypeOK, MoveTo(a, s, e)
  PROVE  status' \in [Action -> Status] /\ events' \in [Action -> Seq(Event)]
<1>1. Append(events[a], e) \in Seq(Event)
  BY DEF TypeOK
<1> QED BY <1>1 DEF MoveTo, AddActionEvent, TypeOK

\* So does finish_action_job, which touches no other column.
LEMMA FinishTyped ==
  ASSUME NEW a \in Action, NEW s \in {"completed", "failed", "delivery_unknown"},
         TypeOK, FinishActionJob(a, s)
  PROVE  /\ status' \in [Action -> Status]
         /\ events' \in [Action -> Seq(Event)]
         /\ UNCHANGED <<attemptCount, approvedBy, created>>
BY MoveToTyped DEF FinishActionJob, Status, Event, TypeOK

\* A thread that moves on is a thread.
LEMMA AtTyped ==
  ASSUME NEW a \in Action, NEW n \in Run, NEW pc \in Pc, NEW try \in Try,
         TypeOK, At(a, n, pc, try)
  PROVE  exec' \in [Action -> [Run -> Thread]]
<1> DEFINE new == [pc |-> pc, on |-> exec[a][n].on, try |-> try]
<1>1. new \in Thread
  BY DEF TypeOK, Thread
<1>2. exec' = [exec EXCEPT ![a][n] = new]
  BY DEF At
<1> HIDE DEF new
<1> QED BY <1>1, <1>2 DEF TypeOK

\* A thread that ends is a thread.
LEMMA EndsTyped ==
  ASSUME NEW a \in Action, NEW n \in Run, TypeOK, Ends(a, n)
  PROVE  exec' \in [Action -> [Run -> Thread]]
<1>1. Off \in Thread
  BY DEF Off, Thread, Pc, Try
<1> QED BY <1>1 DEF TypeOK, Ends

\* One more task in a queue.
LEMMA ScheduleTyped ==
  ASSUME NEW w \in Worker, NEW a \in Action, TypeOK, Schedule(w, a)
  PROVE  queued' \in [Worker -> [Action -> Nat]]
BY DEF TypeOK, Schedule

\* One task less, where there was one.
LEMMA UnscheduleTyped ==
  ASSUME NEW w \in Worker, NEW a \in Action, TypeOK, queued[w][a] > 0, Unschedule(w, a)
  PROVE  queued' \in [Worker -> [Action -> Nat]]
<1>1. queued[w][a] - 1 \in Nat
  BY DEF TypeOK
<1> QED BY <1>1 DEF TypeOK, Unschedule

\* The CRM rows stay counted by naturals.
LEMMA CreateRequestTyped ==
  ASSUME NEW a \in Action, TypeOK, CreateRequest(a)
  PROVE  requests' \in [Action -> Nat]
BY DEF TypeOK, CreateRequest

\* Every reachable state has the declared types.
THEOREM TypeCorrect == Spec => []TypeOK
<1> USE ConstantsAssumption
<1>1. Init => TypeOK
  BY DEF Init, TypeOK, Status, Event, Role, Nobody, PostState, Pc, Thread, Off, Run, Try
<1>2. TypeOK /\ [Next]_vars => TypeOK'
  <2> SUFFICES ASSUME TypeOK, [Next]_vars PROVE TypeOK'
    OBVIOUS
  <2> USE DEF vars, jobVars, taskVars, boundVars
  <2>1. ASSUME NEW a \in Action, Propose(a) PROVE TypeOK'
    <3>1. status' \in [Action -> Status] /\ events' \in [Action -> Seq(Event)]
      BY <2>1, MoveToTyped DEF Propose, Status, Event
    <3>2. created' \in Seq(Action)
      BY <2>1 DEF Propose, TypeOK
    <3> QED BY <2>1, <3>1, <3>2 DEF Propose, TypeOK
  <2>2. ASSUME NEW w \in Worker, NEW a \in Action, NEW role \in Role, Approve(w, a, role)
        PROVE  TypeOK'
    <3>1. status' \in [Action -> Status] /\ events' \in [Action -> Seq(Event)]
      BY <2>2, MoveToTyped DEF Approve, Status, Event
    <3>2. queued' \in [Worker -> [Action -> Nat]]
      BY <2>2, ScheduleTyped DEF Approve
    <3>3. approvedBy' \in [Action -> Role \cup {Nobody}]
      BY <2>2 DEF Approve, TypeOK
    <3> QED BY <2>2, <3>1, <3>2, <3>3 DEF Approve, TypeOK
  <2>3. ASSUME NEW w \in Worker, NEW a \in Action, NEW role \in Role, Reject(w, a, role)
        PROVE  TypeOK'
    <3>1. status' \in [Action -> Status] /\ events' \in [Action -> Seq(Event)]
      BY <2>3, MoveToTyped DEF Reject, Status, Event
    <3> QED BY <2>3, <3>1 DEF Reject, TypeOK
  <2>4. ASSUME NEW w \in Worker, NEW a \in Action, NEW role \in Role, Retry(w, a, role)
        PROVE  TypeOK'
    <3>1. status' \in [Action -> Status] /\ events' \in [Action -> Seq(Event)]
      BY <2>4, MoveToTyped DEF Retry, Status, Event
    <3>2. queued' \in [Worker -> [Action -> Nat]]
      BY <2>4, ScheduleTyped DEF Retry
    <3> QED BY <2>4, <3>1, <3>2 DEF Retry, TypeOK
  <2>5. ASSUME NEW a \in Action, NEW n \in Run, NEW t \in Try, ActionCallback(a, n, t) PROVE TypeOK'
    <3>1. CallbackStatus(posts[a][n][t]) \in {"completed", "failed", "delivery_unknown"}
      BY <2>5 DEF CallbackStatus
    <3>2. status' \in [Action -> Status] /\ events' \in [Action -> Seq(Event)] /\ UNCHANGED <<attemptCount, approvedBy, created>>
      BY <2>5, <3>1, FinishTyped DEF ActionCallback
    <3> QED BY <2>5, <3>1, <3>2 DEF ActionCallback, TypeOK
  <2>6. ASSUME NEW w \in Worker, NEW a \in Action, Claim(w, a) PROVE TypeOK'
    <3>1. status' \in [Action -> Status] /\ events' \in [Action -> Seq(Event)]
      BY <2>6, MoveToTyped DEF Claim, Status, Event
    <3>2. queued' \in [Worker -> [Action -> Nat]]
      BY <2>6, UnscheduleTyped DEF Claim
    <3>3. attemptCount' \in [Action -> 0..MaxRuns] /\ attemptCount[a] + 1 \in Run
      BY <2>6 DEF Claim, TypeOK, Run
    <3>4. [pc |-> IF Mode = "unsupported" THEN "failing" ELSE "ready", on |-> w, try |-> 1] \in Thread
      BY <2>6 DEF Thread, Pc, Try
    <3>5. exec' \in [Action -> [Run -> Thread]]
      BY <2>6, <3>3, <3>4 DEF Claim, TypeOK
    <3> QED BY <2>6, <3>1, <3>2, <3>3, <3>4, <3>5 DEF Claim, TypeOK
  <2>7. ASSUME NEW w \in Worker, NEW a \in Action, ClaimSkipped(w, a) PROVE TypeOK'
    <3>1. queued' \in [Worker -> [Action -> Nat]]
      BY <2>7, UnscheduleTyped DEF ClaimSkipped
    <3> QED BY <2>7, <3>1 DEF ClaimSkipped, TypeOK
  <2>8. ASSUME NEW w \in Worker, NEW a \in Action, ClaimRaises(w, a) PROVE TypeOK'
    <3>1. queued' \in [Worker -> [Action -> Nat]]
      BY <2>8, UnscheduleTyped DEF ClaimRaises
    <3>2. faults' \in 0..MaxFaults
      BY <2>8 DEF ClaimRaises, TypeOK
    <3> QED BY <2>8, <3>1, <3>2 DEF ClaimRaises, TypeOK
  <2>9. ASSUME NEW a \in Action, NEW n \in Run, DemoCreate(a, n) PROVE TypeOK'
    <3>1. exec[a][n].try \in Try
      BY <2>9 DEF TypeOK, Thread
    <3>2. exec' \in [Action -> [Run -> Thread]]
      BY <2>9, <3>1, AtTyped DEF DemoCreate, Goto, Pc
    <3>3. requests' \in [Action -> Nat]
      BY <2>9, CreateRequestTyped DEF DemoCreate
    <3> QED BY <2>9, <3>1, <3>2, <3>3 DEF DemoCreate, TypeOK
  <2>10. ASSUME NEW a \in Action, NEW n \in Run, DemoCreateRaises(a, n) PROVE TypeOK'
    <3>1. exec[a][n].try \in Try
      BY <2>10 DEF TypeOK, Thread
    <3>2. exec' \in [Action -> [Run -> Thread]]
      BY <2>10, <3>1, AtTyped DEF DemoCreateRaises, Goto, Pc
    <3>3. requests' \in [Action -> Nat]
      BY <2>10, CreateRequestTyped DEF DemoCreateRaises, TypeOK
    <3>4. faults' \in 0..MaxFaults
      BY <2>10 DEF DemoCreateRaises, TypeOK
    <3> QED BY <2>10, <3>1, <3>2, <3>3, <3>4 DEF DemoCreateRaises, TypeOK
  <2>11. ASSUME NEW a \in Action, NEW n \in Run, DemoComplete(a, n) PROVE TypeOK'
    <3>1. status' \in [Action -> Status] /\ events' \in [Action -> Seq(Event)] /\ UNCHANGED <<attemptCount, approvedBy, created>>
      BY <2>11, FinishTyped DEF DemoComplete
    <3>2. exec' \in [Action -> [Run -> Thread]]
      BY <2>11, EndsTyped DEF DemoComplete
    <3> QED BY <2>11, <3>1, <3>2 DEF DemoComplete, TypeOK
  <2>12. ASSUME NEW a \in Action, NEW n \in Run, DemoCompleteRaises(a, n) PROVE TypeOK'
    <3>1. exec[a][n].try \in Try
      BY <2>12 DEF TypeOK, Thread
    <3>2. exec' \in [Action -> [Run -> Thread]]
      BY <2>12, <3>1, AtTyped DEF DemoCompleteRaises, Goto, Pc
    <3>3. faults' \in 0..MaxFaults
      BY <2>12 DEF DemoCompleteRaises, TypeOK
    <3> QED BY <2>12, <3>1, <3>2, <3>3 DEF DemoCompleteRaises, TypeOK
  <2>13. ASSUME NEW a \in Action, NEW n \in Run, Fail(a, n) PROVE TypeOK'
    <3>1. status' \in [Action -> Status] /\ events' \in [Action -> Seq(Event)] /\ UNCHANGED <<attemptCount, approvedBy, created>>
      BY <2>13, FinishTyped DEF Fail
    <3>2. exec' \in [Action -> [Run -> Thread]]
      BY <2>13, EndsTyped DEF Fail
    <3> QED BY <2>13, <3>1, <3>2 DEF Fail, TypeOK
  <2>14. ASSUME NEW a \in Action, NEW n \in Run, ThreadDies(a, n) PROVE TypeOK'
    <3>1. exec' \in [Action -> [Run -> Thread]]
      BY <2>14, EndsTyped DEF ThreadDies
    <3>2. faults' \in 0..MaxFaults
      BY <2>14 DEF ThreadDies, TypeOK
    <3> QED BY <2>14, <3>1, <3>2 DEF ThreadDies, TypeOK
  <2>15. ASSUME NEW a \in Action, NEW n \in Run, Post(a, n) PROVE TypeOK'
    <3>1. exec[a][n].try \in Try
      BY <2>15 DEF TypeOK, Thread
    <3>2. exec' \in [Action -> [Run -> Thread]]
      BY <2>15, <3>1, AtTyped DEF Post, Goto, Pc
    <3>3. posts' \in [Action -> [Run -> [Try -> PostState]]]
      BY <2>15, <3>1 DEF Post, TypeOK, PostState
    <3> QED BY <2>15, <3>1, <3>2, <3>3 DEF Post, TypeOK
  <2>16. ASSUME NEW a \in Action, NEW n \in Run, PostAccepted(a, n) PROVE TypeOK'
    <3>1. exec' \in [Action -> [Run -> Thread]]
      BY <2>16, EndsTyped DEF PostAccepted
    <3> QED BY <2>16, <3>1 DEF PostAccepted, TypeOK
  <2>17. ASSUME NEW a \in Action, NEW n \in Run, PostTimesOut(a, n) PROVE TypeOK'
    <3>1. status' \in [Action -> Status] /\ events' \in [Action -> Seq(Event)] /\ UNCHANGED <<attemptCount, approvedBy, created>>
      BY <2>17, FinishTyped DEF PostTimesOut
    <3>2. exec' \in [Action -> [Run -> Thread]]
      BY <2>17, EndsTyped DEF PostTimesOut
    <3> QED BY <2>17, <3>1, <3>2 DEF PostTimesOut, TypeOK
  <2>18. ASSUME NEW a \in Action, NEW n \in Run, PostRaises(a, n) PROVE TypeOK'
    <3>1. exec[a][n].try \in Try
      BY <2>18 DEF TypeOK, Thread
    <3>2. exec[a][n].try < Attempts => exec[a][n].try + 1 \in Try
      BY <2>18, <3>1 DEF Attempts, Try
    <3>3. exec' \in [Action -> [Run -> Thread]]
      BY <2>18, <3>1, <3>2, AtTyped DEF PostRaises, Goto, Pc
    <3> QED BY <2>18, <3>1, <3>2, <3>3 DEF PostRaises, TypeOK
  <2>19. ASSUME NEW a \in Action, NEW n \in Run, NEW t \in Try, N8nExecutes(a, n, t) PROVE TypeOK'
    <3>1. posts' \in [Action -> [Run -> [Try -> PostState]]]
      BY <2>19 DEF N8nExecutes, TypeOK, PostState
    <3> QED BY <2>19, <3>1 DEF N8nExecutes, TypeOK
  <2>20. ASSUME NEW a \in Action, NEW n \in Run, NEW t \in Try, N8nRefuses(a, n, t) PROVE TypeOK'
    <3>1. posts' \in [Action -> [Run -> [Try -> PostState]]]
      BY <2>20 DEF N8nRefuses, TypeOK, PostState
    <3> QED BY <2>20, <3>1 DEF N8nRefuses, TypeOK
  <2>21. ASSUME NEW w \in Worker, Crash(w) PROVE TypeOK'
    <3>1. Off \in Thread
      BY <2>21 DEF Off, Thread, Pc, Try
    <3>2. exec' \in [Action -> [Run -> Thread]]
      BY <2>21, <3>1 DEF Crash, TypeOK
    <3>3. queued' \in [Worker -> [Action -> Nat]] /\ crashes' \in 0..MaxCrashes
      BY <2>21 DEF Crash, TypeOK
    <3> QED BY <2>21, <3>1, <3>2, <3>3 DEF Crash, TypeOK
  <2>22. ASSUME NEW w \in Worker, Startup(w) PROVE TypeOK'
    <3>1. queued' \in [Worker -> [Action -> Nat]]
      BY <2>22 DEF Startup, TypeOK
    <3> QED BY <2>22, <3>1 DEF Startup, TypeOK
  <2>23. CASE UNCHANGED vars
    BY <2>23 DEF TypeOK
  <2> QED BY <2>1, <2>2, <2>3, <2>4, <2>5, <2>6, <2>7, <2>8, <2>9, <2>10, <2>11, <2>12, <2>13,
     <2>14, <2>15, <2>16, <2>17, <2>18, <2>19, <2>20, <2>21, <2>22, <2>23 DEF Next, Handle, Take,
     Work, Raise, N8n
<1> QED BY <1>1, <1>2, PTL DEF Spec

------------------------------------------------------------------------------
(* What the shared operators do, point by point *)

\* At moves one thread and leaves the others alone.
LEMMA AtEffect ==
  ASSUME TypeOK, NEW a \in Action, NEW n \in Run, NEW pc, NEW try, At(a, n, pc, try),
         NEW b \in Action, NEW m \in Run
  PROVE  IF b = a /\ m = n THEN exec'[b][m].pc = pc /\ exec'[b][m].try = try
                           ELSE exec'[b][m] = exec[b][m]
BY DEF TypeOK, At

\* Ends stops one thread and leaves the others alone.
LEMMA EndsEffect ==
  ASSUME TypeOK, NEW a \in Action, NEW n \in Run, Ends(a, n),
         NEW b \in Action, NEW m \in Run
  PROVE  IF b = a /\ m = n THEN exec'[b][m].pc = "off" ELSE exec'[b][m] = exec[b][m]
BY DEF TypeOK, Ends, Off

\* finish_action_job changes one status, and only where its WHERE clause holds.
LEMMA FinishEffect ==
  ASSUME TypeOK, NEW a \in Action, NEW s, FinishActionJob(a, s), NEW b \in Action
  PROVE  /\ status'[b] = IF b = a /\ CanFinish(a, s) THEN s ELSE status[b]
         /\ UNCHANGED <<attemptCount, approvedBy, created>>
BY DEF TypeOK, FinishActionJob, MoveTo

\* One message of one action changes.
LEMMA PostEffect ==
  ASSUME TypeOK, NEW a \in Action, NEW n \in Run, NEW s, NEW t \in Try,
         posts' = [posts EXCEPT ![a][n][t] = s],
         NEW b \in Action, NEW m \in Run, NEW u \in Try
  PROVE  posts'[b][m][u] = IF b = a /\ m = n /\ u = t THEN s ELSE posts[b][m][u]
BY DEF TypeOK

\* The types of what the invariants read.
LEMMA ThreadTyped ==
  ASSUME TypeOK, NEW a \in Action, NEW n \in Run
  PROVE  exec[a][n].pc \in Pc /\ exec[a][n].try \in Try /\ attemptCount[a] \in Int
BY DEF TypeOK, Thread

------------------------------------------------------------------------------
(* The invariants *)

\* A run that was not claimed has left no trace, and a thread has made no POST
\* beyond its current try: so no try is ever posted twice.
RunInv(a, n) ==
  /\ n > attemptCount[a] => exec[a][n].pc = "off"
  /\ \A t \in Try :
       n > attemptCount[a] \/ (exec[a][n].pc = "ready" /\ t >= exec[a][n].try)
                          \/ (exec[a][n].pc = "waiting" /\ t > exec[a][n].try)
         => posts[a][n][t] = "none"
RunsInv == \A a \in Action, n \in Run : RunInv(a, n)

\* The statuses an action can have only once it was approved.
Opened(a) == status[a] \in {"approved", "running", "completed", "failed", "delivery_unknown"}
\* Approved actions name an entitled approver; claims and CRM rows need approval.
OpenInv ==
  \A a \in Action :
    /\ Opened(a) => CanApprove(KindOf[a], approvedBy[a])
    /\ attemptCount[a] > 0 => Opened(a)
    /\ requests[a] > 0 => attemptCount[a] > 0

\* The effect of the action took place.
Backed(a) == requests[a] = 1 \/ \E n \in Run, t \in Try : posts[a][n][t] = "executed"
\* One CRM row at most, made before the thread completes the job.
RecordInvAt(a, n) ==
  /\ requests[a] <= 1
  /\ exec[a][n].pc = "created" => requests[a] = 1
  /\ status[a] = "completed" => Backed(a)
RecordInv == \A a \in Action, n \in Run : RecordInvAt(a, n)

\* n8n executed whatever it answered.
NoRefusal == \A a \in Action, n \in Run, t \in Try : posts[a][n][t] # "refused"

\* SoleExecutor for one thread.
OwnsJob(a, n) ==
  exec[a][n].pc # "off" => n = attemptCount[a] /\ status[a] \in {"running", "completed"}

\* The same with the demo CRM, where nothing else can complete the job.
MockInvAt(a, n) ==
  /\ exec[a][n].pc # "off" => n = attemptCount[a] /\ status[a] = "running"
  /\ exec[a][n].pc # "waiting"
  /\ \A t \in Try : posts[a][n][t] = "none"
MockInv == \A a \in Action, n \in Run : MockInvAt(a, n)

------------------------------------------------------------------------------
(* Every step preserves them *)

\* POSTs are made by the run that owns them, each try once.
LEMMA RunsStep ==
  ASSUME TypeOK, RunsInv, [Next]_vars
  PROVE  RunsInv'
<1> SUFFICES ASSUME NEW b \in Action, NEW m \in Run PROVE RunInv(b, m)'
  BY DEF RunsInv
<1> USE DEF vars, jobVars, taskVars, boundVars
<1>0. RunInv(b, m)
  BY DEF RunsInv
<1>1. ASSUME NEW a \in Action, Propose(a) PROVE RunInv(b, m)'
  BY <1>0, <1>1 DEF Propose, RunInv
<1>2. ASSUME NEW w \in Worker, NEW a \in Action, NEW role \in Role, Approve(w, a, role)
      PROVE  RunInv(b, m)'
  BY <1>0, <1>2 DEF Approve, RunInv
<1>3. ASSUME NEW w \in Worker, NEW a \in Action, NEW role \in Role, Reject(w, a, role)
      PROVE  RunInv(b, m)'
  BY <1>0, <1>3 DEF Reject, RunInv
<1>4. ASSUME NEW w \in Worker, NEW a \in Action, NEW role \in Role, Retry(w, a, role)
      PROVE  RunInv(b, m)'
  BY <1>0, <1>4 DEF Retry, RunInv
<1>5. ASSUME NEW a \in Action, NEW n \in Run, NEW t \in Try, ActionCallback(a, n, t)
      PROVE  RunInv(b, m)'
  <2>1. UNCHANGED <<attemptCount, exec, posts>>
    BY <1>5, FinishEffect DEF ActionCallback
  <2> QED BY <1>0, <2>1 DEF RunInv
<1>6. ASSUME NEW w \in Worker, NEW a \in Action, Claim(w, a) PROVE RunInv(b, m)'
  <2>1. attemptCount'[b] = IF b = a THEN attemptCount[a] + 1 ELSE attemptCount[b]
    BY <1>6 DEF Claim, TypeOK
  <2>2. exec'[b][m].pc = "off" \/ exec'[b][m] = exec[b][m] \/ (b = a /\ m = attemptCount[a] + 1)
    BY <1>6 DEF Claim, TypeOK
  <2>3. b = a /\ m = attemptCount[a] + 1 => \A t \in Try : posts[b][m][t] = "none"
    BY ThreadTyped DEF RunsInv, RunInv
  <2>4. UNCHANGED posts
    BY <1>6 DEF Claim
  <2> QED BY <1>0, <2>1, <2>2, <2>3, <2>4, ThreadTyped DEF RunInv, Run
<1>7. ASSUME NEW w \in Worker, NEW a \in Action, ClaimSkipped(w, a) PROVE RunInv(b, m)'
  BY <1>0, <1>7 DEF ClaimSkipped, RunInv
<1>8. ASSUME NEW w \in Worker, NEW a \in Action, ClaimRaises(w, a) PROVE RunInv(b, m)'
  BY <1>0, <1>8 DEF ClaimRaises, RunInv
<1>9. ASSUME NEW a \in Action, NEW n \in Run, DemoCreate(a, n) PROVE RunInv(b, m)'
  <2>1. IF b = a /\ m = n THEN exec'[b][m].pc = "created" ELSE exec'[b][m] = exec[b][m]
    BY <1>9, AtEffect DEF DemoCreate, Goto
  <2>2. UNCHANGED <<attemptCount, posts>>
    BY <1>9 DEF DemoCreate
  <2> QED BY <1>0, <1>9, <2>1, <2>2, ThreadTyped DEF RunInv, DemoCreate
<1>10. ASSUME NEW a \in Action, NEW n \in Run, DemoCreateRaises(a, n) PROVE RunInv(b, m)'
  <2>1. IF b = a /\ m = n THEN exec'[b][m].pc = "failing" ELSE exec'[b][m] = exec[b][m]
    BY <1>10, AtEffect DEF DemoCreateRaises, Goto
  <2>2. UNCHANGED <<attemptCount, posts>>
    BY <1>10 DEF DemoCreateRaises
  <2> QED BY <1>0, <1>10, <2>1, <2>2, ThreadTyped DEF RunInv, DemoCreateRaises
<1>11. ASSUME NEW a \in Action, NEW n \in Run, DemoComplete(a, n) PROVE RunInv(b, m)'
  <2>1. IF b = a /\ m = n THEN exec'[b][m].pc = "off" ELSE exec'[b][m] = exec[b][m]
    BY <1>11, EndsEffect DEF DemoComplete
  <2>2. UNCHANGED <<attemptCount, posts>>
    BY <1>11, FinishEffect DEF DemoComplete
  <2> QED BY <1>0, <2>1, <2>2 DEF RunInv
<1>12. ASSUME NEW a \in Action, NEW n \in Run, DemoCompleteRaises(a, n) PROVE RunInv(b, m)'
  <2>1. IF b = a /\ m = n THEN exec'[b][m].pc = "failing" ELSE exec'[b][m] = exec[b][m]
    BY <1>12, AtEffect DEF DemoCompleteRaises, Goto
  <2>2. UNCHANGED <<attemptCount, posts>>
    BY <1>12 DEF DemoCompleteRaises
  <2> QED BY <1>0, <1>12, <2>1, <2>2, ThreadTyped DEF RunInv, DemoCompleteRaises
<1>13. ASSUME NEW a \in Action, NEW n \in Run, Fail(a, n) PROVE RunInv(b, m)'
  <2>1. IF b = a /\ m = n THEN exec'[b][m].pc = "off" ELSE exec'[b][m] = exec[b][m]
    BY <1>13, EndsEffect DEF Fail
  <2>2. UNCHANGED <<attemptCount, posts>>
    BY <1>13, FinishEffect DEF Fail
  <2> QED BY <1>0, <2>1, <2>2 DEF RunInv
<1>14. ASSUME NEW a \in Action, NEW n \in Run, ThreadDies(a, n) PROVE RunInv(b, m)'
  <2>1. IF b = a /\ m = n THEN exec'[b][m].pc = "off" ELSE exec'[b][m] = exec[b][m]
    BY <1>14, EndsEffect DEF ThreadDies
  <2>2. UNCHANGED <<attemptCount, posts>>
    BY <1>14, FinishEffect DEF ThreadDies
  <2> QED BY <1>0, <2>1, <2>2 DEF RunInv
<1>15. ASSUME NEW a \in Action, NEW n \in Run, Post(a, n) PROVE RunInv(b, m)'
  <2>1. IF b = a /\ m = n
        THEN exec'[b][m].pc = "waiting" /\ exec'[b][m].try = exec[a][n].try
        ELSE exec'[b][m] = exec[b][m]
    BY <1>15, AtEffect DEF Post, Goto
  <2>2. ASSUME NEW u \in Try
        PROVE  posts'[b][m][u] =
                 IF b = a /\ m = n /\ u = exec[a][n].try THEN "sent" ELSE posts[b][m][u]
    <3> DEFINE k == exec[a][n].try
    <3>1. k \in Try
      BY ThreadTyped
    <3>2. posts' = [posts EXCEPT ![a][n][k] = "sent"]
      BY <1>15 DEF Post
    <3> HIDE DEF k
    <3>3. posts'[b][m][u] = IF b = a /\ m = n /\ u = k THEN "sent" ELSE posts[b][m][u]
      BY <3>1, <3>2 DEF TypeOK
    <3> QED BY <3>3 DEF k
  <2>3. exec[a][n].pc = "ready" /\ UNCHANGED attemptCount /\ RunInv(a, n)
    BY <1>15 DEF Post, RunsInv
  <2> QED BY <1>0, <2>1, <2>2, <2>3, ThreadTyped DEF RunInv, Try
<1>16. ASSUME NEW a \in Action, NEW n \in Run, PostAccepted(a, n) PROVE RunInv(b, m)'
  <2>1. IF b = a /\ m = n THEN exec'[b][m].pc = "off" ELSE exec'[b][m] = exec[b][m]
    BY <1>16, EndsEffect DEF PostAccepted
  <2>2. UNCHANGED <<attemptCount, posts>>
    BY <1>16, FinishEffect DEF PostAccepted
  <2> QED BY <1>0, <2>1, <2>2 DEF RunInv
<1>17. ASSUME NEW a \in Action, NEW n \in Run, PostTimesOut(a, n) PROVE RunInv(b, m)'
  <2>1. IF b = a /\ m = n THEN exec'[b][m].pc = "off" ELSE exec'[b][m] = exec[b][m]
    BY <1>17, EndsEffect DEF PostTimesOut
  <2>2. UNCHANGED <<attemptCount, posts>>
    BY <1>17, FinishEffect DEF PostTimesOut
  <2> QED BY <1>0, <2>1, <2>2 DEF RunInv
<1>18. ASSUME NEW a \in Action, NEW n \in Run, PostRaises(a, n) PROVE RunInv(b, m)'
  <2>1. IF b = a /\ m = n
        THEN \/ exec'[b][m].pc = "failing"
             \/ exec'[b][m].pc = "ready" /\ exec'[b][m].try = exec[a][n].try + 1
        ELSE exec'[b][m] = exec[b][m]
    BY <1>18, AtEffect DEF PostRaises, Goto
  <2>2. exec[a][n].pc = "waiting" /\ UNCHANGED <<attemptCount, posts>> /\ RunInv(a, n)
    BY <1>18 DEF PostRaises, RunsInv
  <2> QED BY <1>0, <2>1, <2>2, ThreadTyped DEF RunInv, Try
<1>19. ASSUME NEW a \in Action, NEW n \in Run, NEW t \in Try, N8nExecutes(a, n, t)
       PROVE  RunInv(b, m)'
  <2>1. \A u \in Try : posts[b][m][u] = "none" => posts'[b][m][u] = "none"
    BY <1>19, PostEffect DEF N8nExecutes
  <2>2. UNCHANGED <<attemptCount, exec>>
    BY <1>19 DEF N8nExecutes
  <2> QED BY <1>0, <2>1, <2>2 DEF RunInv
<1>20. ASSUME NEW a \in Action, NEW n \in Run, NEW t \in Try, N8nRefuses(a, n, t)
       PROVE  RunInv(b, m)'
  <2>1. \A u \in Try : posts[b][m][u] = "none" => posts'[b][m][u] = "none"
    BY <1>20, PostEffect DEF N8nRefuses
  <2>2. UNCHANGED <<attemptCount, exec>>
    BY <1>20 DEF N8nRefuses
  <2> QED BY <1>0, <2>1, <2>2 DEF RunInv
<1>21. ASSUME NEW w \in Worker, Crash(w) PROVE RunInv(b, m)'
  <2>1. exec'[b][m] = exec[b][m] \/ exec'[b][m].pc = "off"
    BY <1>21 DEF Crash, Off
  <2>2. UNCHANGED <<attemptCount, posts>>
    BY <1>21 DEF Crash
  <2> QED BY <1>0, <2>1, <2>2 DEF RunInv
<1>22. ASSUME NEW w \in Worker, Startup(w) PROVE RunInv(b, m)'
  BY <1>0, <1>22 DEF Startup, RunInv
<1>23. CASE UNCHANGED vars
  BY <1>0, <1>23 DEF RunInv
<1> QED
  BY <1>1, <1>2, <1>3, <1>4, <1>5, <1>6, <1>7, <1>8, <1>9, <1>10, <1>11, <1>12, <1>13, <1>14,
     <1>15, <1>16, <1>17, <1>18, <1>19, <1>20, <1>21, <1>22, <1>23
  DEF Next, Handle, Take, Work, Raise, N8n

\* What was ever claimed had been approved by an entitled role.
LEMMA OpenStep ==
  ASSUME TypeOK, RunsInv, OpenInv, [Next]_vars
  PROVE  OpenInv'
<1> USE DEF OpenInv, Opened, vars, jobVars, taskVars, boundVars
<1>1. ASSUME NEW a \in Action, Propose(a) PROVE OpenInv'
  BY <1>1 DEF Propose, MoveTo, TypeOK
<1>2. ASSUME NEW w \in Worker, NEW a \in Action, NEW role \in Role, Approve(w, a, role)
      PROVE  OpenInv'
  BY <1>2 DEF Approve, MoveTo, TypeOK
<1>3. ASSUME NEW w \in Worker, NEW a \in Action, NEW role \in Role, Reject(w, a, role)
      PROVE  OpenInv'
  BY <1>3 DEF Reject, MoveTo, TypeOK
<1>4. ASSUME NEW w \in Worker, NEW a \in Action, NEW role \in Role, Retry(w, a, role) PROVE OpenInv'
  BY <1>4 DEF Retry, Retryable, MoveTo, TypeOK
<1>5. ASSUME NEW a \in Action, NEW n \in Run, NEW t \in Try, ActionCallback(a, n, t) PROVE OpenInv'
  BY <1>5, FinishEffect DEF ActionCallback, CallbackStatus, CanFinish
<1>6. ASSUME NEW w \in Worker, NEW a \in Action, Claim(w, a) PROVE OpenInv'
  BY <1>6 DEF Claim, Claimable, MoveTo, TypeOK
<1>7. ASSUME NEW w \in Worker, NEW a \in Action, ClaimSkipped(w, a) PROVE OpenInv'
  BY <1>7 DEF ClaimSkipped
<1>8. ASSUME NEW w \in Worker, NEW a \in Action, ClaimRaises(w, a) PROVE OpenInv'
  BY <1>8 DEF ClaimRaises
<1>9. ASSUME NEW a \in Action, NEW n \in Run, DemoCreate(a, n) PROVE OpenInv'
  <2>1. attemptCount[a] > 0
    BY <1>9, ThreadTyped DEF DemoCreate, RunsInv, RunInv, Run
  <2> QED BY <1>9, <2>1 DEF DemoCreate, CreateRequest, TypeOK
<1>10. ASSUME NEW a \in Action, NEW n \in Run, DemoCreateRaises(a, n) PROVE OpenInv'
  <2>1. attemptCount[a] > 0
    BY <1>10, ThreadTyped DEF DemoCreateRaises, RunsInv, RunInv, Run
  <2> QED BY <1>10, <2>1 DEF DemoCreateRaises, CreateRequest, TypeOK
<1>11. ASSUME NEW a \in Action, NEW n \in Run, DemoComplete(a, n) PROVE OpenInv'
  BY <1>11, FinishEffect DEF DemoComplete, CallbackStatus, CanFinish
<1>12. ASSUME NEW a \in Action, NEW n \in Run, DemoCompleteRaises(a, n) PROVE OpenInv'
  BY <1>12 DEF DemoCompleteRaises
<1>13. ASSUME NEW a \in Action, NEW n \in Run, Fail(a, n) PROVE OpenInv'
  BY <1>13, FinishEffect DEF Fail, CallbackStatus, CanFinish
<1>14. ASSUME NEW a \in Action, NEW n \in Run, ThreadDies(a, n) PROVE OpenInv'
  BY <1>14 DEF ThreadDies
<1>15. ASSUME NEW a \in Action, NEW n \in Run, Post(a, n) PROVE OpenInv'
  BY <1>15 DEF Post
<1>16. ASSUME NEW a \in Action, NEW n \in Run, PostAccepted(a, n) PROVE OpenInv'
  BY <1>16 DEF PostAccepted
<1>17. ASSUME NEW a \in Action, NEW n \in Run, PostTimesOut(a, n) PROVE OpenInv'
  BY <1>17, FinishEffect DEF PostTimesOut, CallbackStatus, CanFinish
<1>18. ASSUME NEW a \in Action, NEW n \in Run, PostRaises(a, n) PROVE OpenInv'
  BY <1>18 DEF PostRaises
<1>19. ASSUME NEW a \in Action, NEW n \in Run, NEW t \in Try, N8nExecutes(a, n, t) PROVE OpenInv'
  BY <1>19 DEF N8nExecutes
<1>20. ASSUME NEW a \in Action, NEW n \in Run, NEW t \in Try, N8nRefuses(a, n, t) PROVE OpenInv'
  BY <1>20 DEF N8nRefuses
<1>21. ASSUME NEW w \in Worker, Crash(w) PROVE OpenInv'
  BY <1>21 DEF Crash
<1>22. ASSUME NEW w \in Worker, Startup(w) PROVE OpenInv'
  BY <1>22 DEF Startup
<1>23. CASE UNCHANGED vars
  BY <1>23
<1> QED
  BY <1>1, <1>2, <1>3, <1>4, <1>5, <1>6, <1>7, <1>8, <1>9, <1>10, <1>11, <1>12, <1>13, <1>14,
     <1>15, <1>16, <1>17, <1>18, <1>19, <1>20, <1>21, <1>22, <1>23
  DEF Next, Handle, Take, Work, Raise, N8n

\* CRM rows are made once, and completion follows the effect.
LEMMA RecordStep ==
  ASSUME TypeOK, RunsInv, RecordInv, [Next]_vars
  PROVE  RecordInv'
<1> SUFFICES ASSUME NEW b \in Action, NEW m \in Run PROVE RecordInvAt(b, m)'
  BY DEF RecordInv
<1> USE DEF vars, jobVars, taskVars, boundVars
<1>0. RecordInvAt(b, m)
  BY DEF RecordInv
<1>1. ASSUME NEW a \in Action, Propose(a) PROVE RecordInvAt(b, m)'
  BY <1>0, <1>1 DEF Propose, MoveTo, TypeOK, RecordInvAt, Backed
<1>2. ASSUME NEW w \in Worker, NEW a \in Action, NEW role \in Role, Approve(w, a, role)
      PROVE  RecordInvAt(b, m)'
  BY <1>0, <1>2 DEF Approve, MoveTo, TypeOK, RecordInvAt, Backed
<1>3. ASSUME NEW w \in Worker, NEW a \in Action, NEW role \in Role, Reject(w, a, role)
      PROVE  RecordInvAt(b, m)'
  BY <1>0, <1>3 DEF Reject, MoveTo, TypeOK, RecordInvAt, Backed
<1>4. ASSUME NEW w \in Worker, NEW a \in Action, NEW role \in Role, Retry(w, a, role)
      PROVE  RecordInvAt(b, m)'
  BY <1>0, <1>4 DEF Retry, MoveTo, TypeOK, RecordInvAt, Backed
<1>5. ASSUME NEW a \in Action, NEW n \in Run, NEW t \in Try, ActionCallback(a, n, t)
      PROVE  RecordInvAt(b, m)'
  <2>1. UNCHANGED <<requests, exec, posts>>
    BY <1>5 DEF ActionCallback
  <2>2. status'[b] = "completed" => status[b] = "completed" \/ (b = a /\ posts[a][n][t] = "executed")
    BY <1>5, FinishEffect DEF ActionCallback, CallbackStatus
  <2> QED BY <1>0, <2>1, <2>2 DEF RecordInvAt, Backed
<1>6. ASSUME NEW w \in Worker, NEW a \in Action, Claim(w, a) PROVE RecordInvAt(b, m)'
  <2>1. exec'[b][m] = exec[b][m] \/ exec'[b][m].pc \in {"ready", "failing"}
    BY <1>6 DEF Claim, TypeOK
  <2>2. status'[b] = status[b] \/ status'[b] = "running"
    BY <1>6 DEF Claim, MoveTo, TypeOK
  <2>3. UNCHANGED <<requests, posts>>
    BY <1>6 DEF Claim
  <2> QED BY <1>0, <2>1, <2>2, <2>3 DEF RecordInvAt, Backed
<1>7. ASSUME NEW w \in Worker, NEW a \in Action, ClaimSkipped(w, a) PROVE RecordInvAt(b, m)'
  BY <1>0, <1>7 DEF ClaimSkipped, RecordInvAt, Backed
<1>8. ASSUME NEW w \in Worker, NEW a \in Action, ClaimRaises(w, a) PROVE RecordInvAt(b, m)'
  BY <1>0, <1>8 DEF ClaimRaises, RecordInvAt, Backed
<1>9. ASSUME NEW a \in Action, NEW n \in Run, DemoCreate(a, n) PROVE RecordInvAt(b, m)'
  <2>1. IF b = a /\ m = n THEN exec'[b][m].pc = "created" ELSE exec'[b][m] = exec[b][m]
    BY <1>9, AtEffect DEF DemoCreate, Goto
  <2>2. requests'[b] = requests[b] \/ (b = a /\ requests'[b] = 1)
    BY <1>9 DEF DemoCreate, CreateRequest, TypeOK
  <2>3. requests[b] \in Nat /\ (b = a /\ exec'[b][m].pc = "created" => requests'[b] = 1)
    BY <1>9, <2>1, <1>0 DEF DemoCreate, CreateRequest, TypeOK, RecordInvAt
  <2>4. UNCHANGED <<status, posts>>
    BY <1>9 DEF DemoCreate
  <2> QED BY <1>0, <2>1, <2>2, <2>3, <2>4 DEF RecordInvAt, Backed
<1>10. ASSUME NEW a \in Action, NEW n \in Run, DemoCreateRaises(a, n) PROVE RecordInvAt(b, m)'
  <2>1. IF b = a /\ m = n THEN exec'[b][m].pc = "failing" ELSE exec'[b][m] = exec[b][m]
    BY <1>10, AtEffect DEF DemoCreateRaises, Goto
  <2>2. requests'[b] = requests[b] \/ (b = a /\ requests'[b] = 1)
    BY <1>10 DEF DemoCreateRaises, CreateRequest, TypeOK
  <2>3. requests[b] \in Nat /\ (b = a /\ exec'[b][m].pc = "created" => requests'[b] = 1)
    BY <1>10, <2>1, <1>0 DEF DemoCreateRaises, CreateRequest, TypeOK, RecordInvAt
  <2>4. UNCHANGED <<status, posts>>
    BY <1>10 DEF DemoCreateRaises
  <2> QED BY <1>0, <2>1, <2>2, <2>3, <2>4 DEF RecordInvAt, Backed
<1>11. ASSUME NEW a \in Action, NEW n \in Run, DemoComplete(a, n) PROVE RecordInvAt(b, m)'
  <2>1. IF b = a /\ m = n THEN exec'[b][m].pc = "off" ELSE exec'[b][m] = exec[b][m]
    BY <1>11, EndsEffect DEF DemoComplete
  <2>2. status'[b] = "completed" => status[b] = "completed" \/ (b = a /\ requests[b] = 1)
    BY <1>11, FinishEffect DEF DemoComplete, RecordInv, RecordInvAt
  <2>3. UNCHANGED <<requests, posts>>
    BY <1>11 DEF DemoComplete
  <2> QED BY <1>0, <2>1, <2>2, <2>3 DEF RecordInvAt, Backed
<1>12. ASSUME NEW a \in Action, NEW n \in Run, DemoCompleteRaises(a, n) PROVE RecordInvAt(b, m)'
  <2>1. IF b = a /\ m = n THEN exec'[b][m].pc = "failing" ELSE exec'[b][m] = exec[b][m]
    BY <1>12, AtEffect DEF DemoCompleteRaises, Goto
  <2>2. UNCHANGED <<status, requests, posts>>
    BY <1>12 DEF DemoCompleteRaises
  <2> QED BY <1>0, <2>1, <2>2 DEF RecordInvAt, Backed
<1>13. ASSUME NEW a \in Action, NEW n \in Run, Fail(a, n) PROVE RecordInvAt(b, m)'
  <2>1. IF b = a /\ m = n THEN exec'[b][m].pc = "off" ELSE exec'[b][m] = exec[b][m]
    BY <1>13, EndsEffect DEF Fail
  <2>2. status'[b] = "completed" => status[b] = "completed" \/ (b = a /\ FALSE)
    BY <1>13, FinishEffect DEF Fail
  <2>3. UNCHANGED <<requests, posts>>
    BY <1>13 DEF Fail
  <2> QED BY <1>0, <2>1, <2>2, <2>3 DEF RecordInvAt, Backed
<1>14. ASSUME NEW a \in Action, NEW n \in Run, ThreadDies(a, n) PROVE RecordInvAt(b, m)'
  <2>1. IF b = a /\ m = n THEN exec'[b][m].pc = "off" ELSE exec'[b][m] = exec[b][m]
    BY <1>14, EndsEffect DEF ThreadDies
  <2>2. UNCHANGED <<status, requests, posts>>
    BY <1>14 DEF ThreadDies
  <2> QED BY <1>0, <2>1, <2>2 DEF RecordInvAt, Backed
<1>15. ASSUME NEW a \in Action, NEW n \in Run, Post(a, n) PROVE RecordInvAt(b, m)'
  <2>1. IF b = a /\ m = n THEN exec'[b][m].pc = "waiting" ELSE exec'[b][m] = exec[b][m]
    BY <1>15, AtEffect DEF Post, Goto
  <2>2. UNCHANGED <<status, requests>>
    BY <1>15 DEF Post
  <2>3. posts[a][n][exec[a][n].try] = "none" /\ exec[a][n].try \in Try
    BY <1>15, ThreadTyped DEF Post, RunsInv, RunInv, Try
  <2>4. \A k \in Run, u \in Try : posts[b][k][u] = "executed" => posts'[b][k][u] = "executed"
    BY <1>15, <2>3, PostEffect DEF Post
  <2> QED BY <1>0, <2>1, <2>2, <2>4 DEF RecordInvAt, Backed
<1>16. ASSUME NEW a \in Action, NEW n \in Run, PostAccepted(a, n) PROVE RecordInvAt(b, m)'
  <2>1. IF b = a /\ m = n THEN exec'[b][m].pc = "off" ELSE exec'[b][m] = exec[b][m]
    BY <1>16, EndsEffect DEF PostAccepted
  <2>2. UNCHANGED <<status, requests, posts>>
    BY <1>16 DEF PostAccepted
  <2> QED BY <1>0, <2>1, <2>2 DEF RecordInvAt, Backed
<1>17. ASSUME NEW a \in Action, NEW n \in Run, PostTimesOut(a, n) PROVE RecordInvAt(b, m)'
  <2>1. IF b = a /\ m = n THEN exec'[b][m].pc = "off" ELSE exec'[b][m] = exec[b][m]
    BY <1>17, EndsEffect DEF PostTimesOut
  <2>2. status'[b] = "completed" => status[b] = "completed" \/ (b = a /\ FALSE)
    BY <1>17, FinishEffect DEF PostTimesOut
  <2>3. UNCHANGED <<requests, posts>>
    BY <1>17 DEF PostTimesOut
  <2> QED BY <1>0, <2>1, <2>2, <2>3 DEF RecordInvAt, Backed
<1>18. ASSUME NEW a \in Action, NEW n \in Run, PostRaises(a, n) PROVE RecordInvAt(b, m)'
  <2>1. IF b = a /\ m = n THEN exec'[b][m].pc \in {"ready", "failing"} ELSE exec'[b][m] = exec[b][m]
    BY <1>18, AtEffect DEF PostRaises, Goto
  <2>2. UNCHANGED <<status, requests, posts>>
    BY <1>18 DEF PostRaises
  <2> QED BY <1>0, <2>1, <2>2 DEF RecordInvAt, Backed
<1>19. ASSUME NEW a \in Action, NEW n \in Run, NEW t \in Try, N8nExecutes(a, n, t)
       PROVE  RecordInvAt(b, m)'
  <2>1. UNCHANGED <<status, requests, exec>>
    BY <1>19 DEF N8nExecutes
  <2>2. \A k \in Run, u \in Try : posts[b][k][u] = "executed" => posts'[b][k][u] = "executed"
    BY <1>19, PostEffect DEF N8nExecutes
  <2> QED BY <1>0, <2>1, <2>2 DEF RecordInvAt, Backed
<1>20. ASSUME NEW a \in Action, NEW n \in Run, NEW t \in Try, N8nRefuses(a, n, t)
       PROVE  RecordInvAt(b, m)'
  <2>1. UNCHANGED <<status, requests, exec>>
    BY <1>20 DEF N8nRefuses
  <2>2. \A k \in Run, u \in Try : posts[b][k][u] = "executed" => posts'[b][k][u] = "executed"
    BY <1>20, PostEffect DEF N8nRefuses
  <2> QED BY <1>0, <2>1, <2>2 DEF RecordInvAt, Backed
<1>21. ASSUME NEW w \in Worker, Crash(w) PROVE RecordInvAt(b, m)'
  <2>1. exec'[b][m] = exec[b][m] \/ exec'[b][m].pc = "off"
    BY <1>21 DEF Crash, Off
  <2>2. UNCHANGED <<status, requests, posts>>
    BY <1>21 DEF Crash
  <2> QED BY <1>0, <2>1, <2>2 DEF RecordInvAt, Backed
<1>22. ASSUME NEW w \in Worker, Startup(w) PROVE RecordInvAt(b, m)'
  BY <1>0, <1>22 DEF Startup, RecordInvAt, Backed
<1>23. CASE UNCHANGED vars
  BY <1>0, <1>23 DEF RecordInvAt, Backed
<1> QED
  BY <1>1, <1>2, <1>3, <1>4, <1>5, <1>6, <1>7, <1>8, <1>9, <1>10, <1>11, <1>12, <1>13, <1>14,
     <1>15, <1>16, <1>17, <1>18, <1>19, <1>20, <1>21, <1>22, <1>23
  DEF Next, Handle, Take, Work, Raise, N8n

\* No refusal appears when n8n reports none.
LEMMA RefusalStep ==
  ASSUME ~ReportsFailure, TypeOK, NoRefusal, [Next]_vars
  PROVE  NoRefusal'
<1> SUFFICES ASSUME NEW b \in Action, NEW m \in Run, NEW u \in Try
             PROVE  posts'[b][m][u] # "refused"
  BY DEF NoRefusal
<1> USE DEF NoRefusal, vars, jobVars, taskVars, boundVars
<1>1. ASSUME NEW a \in Action, NEW n \in Run, Post(a, n)
      PROVE  posts'[b][m][u] # "refused"
  <2>1. exec[a][n].try \in Try
    BY ThreadTyped
  <2> QED BY <1>1, <2>1, PostEffect DEF Post
<1>2. ASSUME NEW a \in Action, NEW n \in Run, NEW t \in Try, N8nExecutes(a, n, t)
      PROVE  posts'[b][m][u] # "refused"
  BY <1>2, PostEffect DEF N8nExecutes
<1>3. posts' = posts \/ (\E a \in Action, n \in Run : Post(a, n))
                     \/ (\E a \in Action, n \in Run, t \in Try : N8nExecutes(a, n, t))
  BY DEF Next, Handle, Take, Work, Raise, N8n, Propose, Approve, Reject, Retry, ActionCallback,
         Claim, ClaimSkipped, ClaimRaises, DemoCreate, DemoCreateRaises, DemoComplete,
         DemoCompleteRaises, Fail, ThreadDies, PostAccepted, PostTimesOut, PostRaises,
         N8nRefuses, Crash, Startup
<1> QED BY <1>1, <1>2, <1>3

\* SoleExecutor, thread by thread.
LEMMA SoleExecutorPointwise == SoleExecutor <=> \A a \in Action, n \in Run : OwnsJob(a, n)
BY DEF SoleExecutor, Live, OwnsJob

\* A live thread keeps the newest claim and its running job.
LEMMA SoleExecutorStep ==
  ASSUME ~ReportsFailure, TypeOK, NoRefusal, SoleExecutor, [Next]_vars
  PROVE  SoleExecutor'
<1> SUFFICES ASSUME NEW b \in Action, NEW m \in Run PROVE OwnsJob(b, m)'
  BY DEF SoleExecutor, Live, OwnsJob
<1> USE DEF vars, jobVars, taskVars, boundVars
<1>0. OwnsJob(b, m)
  BY SoleExecutorPointwise
<1>1. ASSUME NEW a \in Action, Propose(a) PROVE OwnsJob(b, m)'
  BY <1>0, <1>1 DEF Propose, MoveTo, TypeOK, OwnsJob
<1>2. ASSUME NEW w \in Worker, NEW a \in Action, NEW role \in Role, Approve(w, a, role)
      PROVE  OwnsJob(b, m)'
  BY <1>0, <1>2 DEF Approve, MoveTo, TypeOK, OwnsJob
<1>3. ASSUME NEW w \in Worker, NEW a \in Action, NEW role \in Role, Reject(w, a, role)
      PROVE  OwnsJob(b, m)'
  BY <1>0, <1>3 DEF Reject, MoveTo, TypeOK, OwnsJob
<1>4. ASSUME NEW w \in Worker, NEW a \in Action, NEW role \in Role, Retry(w, a, role)
      PROVE  OwnsJob(b, m)'
  BY <1>0, <1>4 DEF Retry, Retryable, MoveTo, TypeOK, OwnsJob
<1>5. ASSUME NEW a \in Action, NEW n \in Run, NEW t \in Try, ActionCallback(a, n, t)
      PROVE  OwnsJob(b, m)'
  <2>1. UNCHANGED <<attemptCount, exec>>
    BY <1>5, FinishEffect DEF ActionCallback
  <2>2. CallbackStatus(posts[a][n][t]) = "completed"
    BY <1>5 DEF ActionCallback, CallbackStatus, NoRefusal
  <2>3. status'[b] = status[b] \/ status'[b] = "completed"
    BY <1>5, <2>2, FinishEffect DEF ActionCallback
  <2> QED BY <1>0, <2>1, <2>3 DEF OwnsJob
<1>6. ASSUME NEW w \in Worker, NEW a \in Action, Claim(w, a) PROVE OwnsJob(b, m)'
  <2>1. b = a => exec[b][m].pc = "off"
    BY <1>0, <1>6 DEF Claim, Claimable, OwnsJob
  <2>2. exec'[b][m] = exec[b][m] \/ (b = a /\ m = attemptCount[a] + 1)
    BY <1>6 DEF Claim, TypeOK
  <2>3. IF b = a THEN attemptCount'[b] = attemptCount[a] + 1 /\ status'[b] = "running"
                 ELSE attemptCount'[b] = attemptCount[b] /\ status'[b] = status[b]
    BY <1>6 DEF Claim, MoveTo, TypeOK
  <2> QED BY <1>0, <1>6, <2>1, <2>2, <2>3 DEF Claim, OwnsJob
<1>7. ASSUME NEW w \in Worker, NEW a \in Action, ClaimSkipped(w, a) PROVE OwnsJob(b, m)'
  BY <1>0, <1>7 DEF ClaimSkipped, OwnsJob
<1>8. ASSUME NEW w \in Worker, NEW a \in Action, ClaimRaises(w, a) PROVE OwnsJob(b, m)'
  BY <1>0, <1>8 DEF ClaimRaises, OwnsJob
<1>9. ASSUME NEW a \in Action, NEW n \in Run, DemoCreate(a, n) PROVE OwnsJob(b, m)'
  <2>1. IF b = a /\ m = n THEN exec'[b][m].pc = "created" ELSE exec'[b][m] = exec[b][m]
    BY <1>9, AtEffect DEF DemoCreate, Goto
  <2>2. exec[a][n].pc # "off" /\ UNCHANGED <<status, attemptCount, posts>>
    BY <1>9 DEF DemoCreate
  <2> QED BY <1>0, <2>1, <2>2 DEF OwnsJob
<1>10. ASSUME NEW a \in Action, NEW n \in Run, DemoCreateRaises(a, n) PROVE OwnsJob(b, m)'
  <2>1. IF b = a /\ m = n THEN exec'[b][m].pc = "failing" ELSE exec'[b][m] = exec[b][m]
    BY <1>10, AtEffect DEF DemoCreateRaises, Goto
  <2>2. exec[a][n].pc # "off" /\ UNCHANGED <<status, attemptCount, posts>>
    BY <1>10 DEF DemoCreateRaises
  <2> QED BY <1>0, <2>1, <2>2 DEF OwnsJob
<1>11. ASSUME NEW a \in Action, NEW n \in Run, DemoComplete(a, n) PROVE OwnsJob(b, m)'
  <2>1. IF b = a /\ m = n THEN exec'[b][m].pc = "off" ELSE exec'[b][m] = exec[b][m]
    BY <1>11, EndsEffect DEF DemoComplete
  <2>2. b = a /\ m # n => exec[b][m].pc = "off"
    BY <1>11, ThreadTyped DEF DemoComplete, SoleExecutor, Live, OwnsJob
  <2>3. attemptCount'[b] = attemptCount[b] /\ (b # a => status'[b] = status[b])
    BY <1>11, FinishEffect DEF DemoComplete
  <2>4. UNCHANGED posts
    BY <1>11 DEF DemoComplete
  <2> QED BY <1>0, <2>1, <2>2, <2>3, <2>4 DEF OwnsJob
<1>12. ASSUME NEW a \in Action, NEW n \in Run, DemoCompleteRaises(a, n) PROVE OwnsJob(b, m)'
  <2>1. IF b = a /\ m = n THEN exec'[b][m].pc = "failing" ELSE exec'[b][m] = exec[b][m]
    BY <1>12, AtEffect DEF DemoCompleteRaises, Goto
  <2>2. exec[a][n].pc # "off" /\ UNCHANGED <<status, attemptCount, posts>>
    BY <1>12 DEF DemoCompleteRaises
  <2> QED BY <1>0, <2>1, <2>2 DEF OwnsJob
<1>13. ASSUME NEW a \in Action, NEW n \in Run, Fail(a, n) PROVE OwnsJob(b, m)'
  <2>1. IF b = a /\ m = n THEN exec'[b][m].pc = "off" ELSE exec'[b][m] = exec[b][m]
    BY <1>13, EndsEffect DEF Fail
  <2>2. b = a /\ m # n => exec[b][m].pc = "off"
    BY <1>13, ThreadTyped DEF Fail, SoleExecutor, Live, OwnsJob
  <2>3. attemptCount'[b] = attemptCount[b] /\ (b # a => status'[b] = status[b])
    BY <1>13, FinishEffect DEF Fail
  <2>4. UNCHANGED posts
    BY <1>13 DEF Fail
  <2> QED BY <1>0, <2>1, <2>2, <2>3, <2>4 DEF OwnsJob
<1>14. ASSUME NEW a \in Action, NEW n \in Run, ThreadDies(a, n) PROVE OwnsJob(b, m)'
  <2>1. IF b = a /\ m = n THEN exec'[b][m].pc = "off" ELSE exec'[b][m] = exec[b][m]
    BY <1>14, EndsEffect DEF ThreadDies
  <2>2. UNCHANGED <<status, attemptCount, posts>>
    BY <1>14 DEF ThreadDies
  <2> QED BY <1>0, <2>1, <2>2 DEF OwnsJob
<1>15. ASSUME NEW a \in Action, NEW n \in Run, Post(a, n) PROVE OwnsJob(b, m)'
  <2>1. IF b = a /\ m = n THEN exec'[b][m].pc = "waiting" ELSE exec'[b][m] = exec[b][m]
    BY <1>15, AtEffect DEF Post, Goto
  <2>2. exec[a][n].pc # "off" /\ UNCHANGED <<status, attemptCount>>
    BY <1>15 DEF Post
  <2> QED BY <1>0, <2>1, <2>2 DEF OwnsJob
<1>16. ASSUME NEW a \in Action, NEW n \in Run, PostAccepted(a, n) PROVE OwnsJob(b, m)'
  <2>1. IF b = a /\ m = n THEN exec'[b][m].pc = "off" ELSE exec'[b][m] = exec[b][m]
    BY <1>16, EndsEffect DEF PostAccepted
  <2>2. UNCHANGED <<status, attemptCount, posts>>
    BY <1>16 DEF PostAccepted
  <2> QED BY <1>0, <2>1, <2>2 DEF OwnsJob
<1>17. ASSUME NEW a \in Action, NEW n \in Run, PostTimesOut(a, n) PROVE OwnsJob(b, m)'
  <2>1. IF b = a /\ m = n THEN exec'[b][m].pc = "off" ELSE exec'[b][m] = exec[b][m]
    BY <1>17, EndsEffect DEF PostTimesOut
  <2>2. b = a /\ m # n => exec[b][m].pc = "off"
    BY <1>17, ThreadTyped DEF PostTimesOut, SoleExecutor, Live, OwnsJob
  <2>3. attemptCount'[b] = attemptCount[b] /\ (b # a => status'[b] = status[b])
    BY <1>17, FinishEffect DEF PostTimesOut
  <2>4. UNCHANGED posts
    BY <1>17 DEF PostTimesOut
  <2> QED BY <1>0, <2>1, <2>2, <2>3, <2>4 DEF OwnsJob
<1>18. ASSUME NEW a \in Action, NEW n \in Run, PostRaises(a, n) PROVE OwnsJob(b, m)'
  <2>1. IF b = a /\ m = n THEN exec'[b][m].pc \in {"ready", "failing"} ELSE exec'[b][m] = exec[b][m]
    BY <1>18, AtEffect DEF PostRaises, Goto
  <2>2. exec[a][n].pc # "off" /\ UNCHANGED <<status, attemptCount, posts>>
    BY <1>18 DEF PostRaises
  <2> QED BY <1>0, <2>1, <2>2 DEF OwnsJob
<1>19. ASSUME NEW a \in Action, NEW n \in Run, NEW t \in Try, N8nExecutes(a, n, t)
       PROVE  OwnsJob(b, m)'
  BY <1>0, <1>19 DEF N8nExecutes, OwnsJob
<1>20. ASSUME NEW a \in Action, NEW n \in Run, NEW t \in Try, N8nRefuses(a, n, t)
       PROVE  OwnsJob(b, m)'
  BY <1>0, <1>20 DEF N8nRefuses, OwnsJob
<1>21. ASSUME NEW w \in Worker, Crash(w) PROVE OwnsJob(b, m)'
  <2>1. exec'[b][m] = exec[b][m] \/ exec'[b][m].pc = "off"
    BY <1>21 DEF Crash, Off
  <2>2. UNCHANGED <<status, attemptCount, posts>>
    BY <1>21 DEF Crash
  <2> QED BY <1>0, <2>1, <2>2 DEF OwnsJob
<1>22. ASSUME NEW w \in Worker, Startup(w) PROVE OwnsJob(b, m)'
  BY <1>0, <1>22 DEF Startup, OwnsJob
<1>23. CASE UNCHANGED vars
  BY <1>0, <1>23 DEF OwnsJob
<1> QED
  BY <1>1, <1>2, <1>3, <1>4, <1>5, <1>6, <1>7, <1>8, <1>9, <1>10, <1>11, <1>12, <1>13, <1>14,
     <1>15, <1>16, <1>17, <1>18, <1>19, <1>20, <1>21, <1>22, <1>23
  DEF Next, Handle, Take, Work, Raise, N8n

\* With the demo CRM nothing is posted and a live thread's job is running.
LEMMA MockStep ==
  ASSUME Mode = "mock", TypeOK, MockInv, [Next]_vars
  PROVE  MockInv'
<1> SUFFICES ASSUME NEW b \in Action, NEW m \in Run PROVE MockInvAt(b, m)'
  BY DEF MockInv
<1> USE DEF vars, jobVars, taskVars, boundVars
<1>0. MockInvAt(b, m)
  BY DEF MockInv
<1>1. ASSUME NEW a \in Action, Propose(a) PROVE MockInvAt(b, m)'
  BY <1>0, <1>1 DEF Propose, MoveTo, TypeOK, MockInvAt
<1>2. ASSUME NEW w \in Worker, NEW a \in Action, NEW role \in Role, Approve(w, a, role)
      PROVE  MockInvAt(b, m)'
  BY <1>0, <1>2 DEF Approve, MoveTo, TypeOK, MockInvAt
<1>3. ASSUME NEW w \in Worker, NEW a \in Action, NEW role \in Role, Reject(w, a, role)
      PROVE  MockInvAt(b, m)'
  BY <1>0, <1>3 DEF Reject, MoveTo, TypeOK, MockInvAt
<1>4. ASSUME NEW w \in Worker, NEW a \in Action, NEW role \in Role, Retry(w, a, role)
      PROVE  MockInvAt(b, m)'
  BY <1>0, <1>4 DEF Retry, Retryable, MoveTo, TypeOK, MockInvAt
<1>5. ASSUME NEW a \in Action, NEW n \in Run, NEW t \in Try, ActionCallback(a, n, t)
      PROVE  MockInvAt(b, m)'
  BY <1>5 DEF ActionCallback, MockInv, MockInvAt
<1>6. ASSUME NEW w \in Worker, NEW a \in Action, Claim(w, a) PROVE MockInvAt(b, m)'
  <2>1. b = a => exec[b][m].pc = "off"
    BY <1>0, <1>6 DEF Claim, Claimable, MockInvAt
  <2>2. exec'[b][m] = exec[b][m] \/ (b = a /\ m = attemptCount[a] + 1)
    BY <1>6 DEF Claim, TypeOK
  <2>3. IF b = a THEN attemptCount'[b] = attemptCount[a] + 1 /\ status'[b] = "running"
                 ELSE attemptCount'[b] = attemptCount[b] /\ status'[b] = status[b]
    BY <1>6 DEF Claim, MoveTo, TypeOK
  <2>4. exec'[b][m].pc # "waiting" /\ UNCHANGED posts
    BY <1>0, <1>6 DEF Claim, TypeOK, MockInvAt
  <2> QED BY <2>4, <1>0, <1>6, <2>1, <2>2, <2>3 DEF Claim, MockInvAt
<1>7. ASSUME NEW w \in Worker, NEW a \in Action, ClaimSkipped(w, a) PROVE MockInvAt(b, m)'
  BY <1>0, <1>7 DEF ClaimSkipped, MockInvAt
<1>8. ASSUME NEW w \in Worker, NEW a \in Action, ClaimRaises(w, a) PROVE MockInvAt(b, m)'
  BY <1>0, <1>8 DEF ClaimRaises, MockInvAt
<1>9. ASSUME NEW a \in Action, NEW n \in Run, DemoCreate(a, n) PROVE MockInvAt(b, m)'
  <2>1. IF b = a /\ m = n THEN exec'[b][m].pc = "created" ELSE exec'[b][m] = exec[b][m]
    BY <1>9, AtEffect DEF DemoCreate, Goto
  <2>2. exec[a][n].pc # "off" /\ UNCHANGED <<status, attemptCount, posts>>
    BY <1>9 DEF DemoCreate
  <2> QED BY <1>0, <2>1, <2>2 DEF MockInvAt
<1>10. ASSUME NEW a \in Action, NEW n \in Run, DemoCreateRaises(a, n) PROVE MockInvAt(b, m)'
  <2>1. IF b = a /\ m = n THEN exec'[b][m].pc = "failing" ELSE exec'[b][m] = exec[b][m]
    BY <1>10, AtEffect DEF DemoCreateRaises, Goto
  <2>2. exec[a][n].pc # "off" /\ UNCHANGED <<status, attemptCount, posts>>
    BY <1>10 DEF DemoCreateRaises
  <2> QED BY <1>0, <2>1, <2>2 DEF MockInvAt
<1>11. ASSUME NEW a \in Action, NEW n \in Run, DemoComplete(a, n) PROVE MockInvAt(b, m)'
  <2>1. IF b = a /\ m = n THEN exec'[b][m].pc = "off" ELSE exec'[b][m] = exec[b][m]
    BY <1>11, EndsEffect DEF DemoComplete
  <2>2. b = a /\ m # n => exec[b][m].pc = "off"
    BY <1>11, ThreadTyped DEF DemoComplete, MockInv, MockInvAt
  <2>3. attemptCount'[b] = attemptCount[b] /\ (b # a => status'[b] = status[b])
    BY <1>11, FinishEffect DEF DemoComplete
  <2>4. UNCHANGED posts
    BY <1>11 DEF DemoComplete
  <2> QED BY <1>0, <2>1, <2>2, <2>3, <2>4 DEF MockInvAt
<1>12. ASSUME NEW a \in Action, NEW n \in Run, DemoCompleteRaises(a, n) PROVE MockInvAt(b, m)'
  <2>1. IF b = a /\ m = n THEN exec'[b][m].pc = "failing" ELSE exec'[b][m] = exec[b][m]
    BY <1>12, AtEffect DEF DemoCompleteRaises, Goto
  <2>2. exec[a][n].pc # "off" /\ UNCHANGED <<status, attemptCount, posts>>
    BY <1>12 DEF DemoCompleteRaises
  <2> QED BY <1>0, <2>1, <2>2 DEF MockInvAt
<1>13. ASSUME NEW a \in Action, NEW n \in Run, Fail(a, n) PROVE MockInvAt(b, m)'
  <2>1. IF b = a /\ m = n THEN exec'[b][m].pc = "off" ELSE exec'[b][m] = exec[b][m]
    BY <1>13, EndsEffect DEF Fail
  <2>2. b = a /\ m # n => exec[b][m].pc = "off"
    BY <1>13, ThreadTyped DEF Fail, MockInv, MockInvAt
  <2>3. attemptCount'[b] = attemptCount[b] /\ (b # a => status'[b] = status[b])
    BY <1>13, FinishEffect DEF Fail
  <2>4. UNCHANGED posts
    BY <1>13 DEF Fail
  <2> QED BY <1>0, <2>1, <2>2, <2>3, <2>4 DEF MockInvAt
<1>14. ASSUME NEW a \in Action, NEW n \in Run, ThreadDies(a, n) PROVE MockInvAt(b, m)'
  <2>1. IF b = a /\ m = n THEN exec'[b][m].pc = "off" ELSE exec'[b][m] = exec[b][m]
    BY <1>14, EndsEffect DEF ThreadDies
  <2>2. UNCHANGED <<status, attemptCount, posts>>
    BY <1>14 DEF ThreadDies
  <2> QED BY <1>0, <2>1, <2>2 DEF MockInvAt
<1>15. ASSUME NEW a \in Action, NEW n \in Run, Post(a, n) PROVE MockInvAt(b, m)'
  BY <1>15 DEF Post
<1>16. ASSUME NEW a \in Action, NEW n \in Run, PostAccepted(a, n) PROVE MockInvAt(b, m)'
  BY <1>16 DEF PostAccepted, MockInv, MockInvAt
<1>17. ASSUME NEW a \in Action, NEW n \in Run, PostTimesOut(a, n) PROVE MockInvAt(b, m)'
  BY <1>17 DEF PostTimesOut, MockInv, MockInvAt
<1>18. ASSUME NEW a \in Action, NEW n \in Run, PostRaises(a, n) PROVE MockInvAt(b, m)'
  BY <1>18 DEF PostRaises, MockInv, MockInvAt
<1>19. ASSUME NEW a \in Action, NEW n \in Run, NEW t \in Try, N8nExecutes(a, n, t)
       PROVE  MockInvAt(b, m)'
  BY <1>19 DEF N8nExecutes, MockInv, MockInvAt
<1>20. ASSUME NEW a \in Action, NEW n \in Run, NEW t \in Try, N8nRefuses(a, n, t)
       PROVE  MockInvAt(b, m)'
  BY <1>20 DEF N8nRefuses, MockInv, MockInvAt
<1>21. ASSUME NEW w \in Worker, Crash(w) PROVE MockInvAt(b, m)'
  <2>1. exec'[b][m] = exec[b][m] \/ exec'[b][m].pc = "off"
    BY <1>21 DEF Crash, Off
  <2>2. UNCHANGED <<status, attemptCount, posts>>
    BY <1>21 DEF Crash
  <2> QED BY <1>0, <2>1, <2>2 DEF MockInvAt
<1>22. ASSUME NEW w \in Worker, Startup(w) PROVE MockInvAt(b, m)'
  BY <1>0, <1>22 DEF Startup, MockInvAt
<1>23. CASE UNCHANGED vars
  BY <1>0, <1>23 DEF MockInvAt
<1> QED
  BY <1>1, <1>2, <1>3, <1>4, <1>5, <1>6, <1>7, <1>8, <1>9, <1>10, <1>11, <1>12, <1>13, <1>14,
     <1>15, <1>16, <1>17, <1>18, <1>19, <1>20, <1>21, <1>22, <1>23
  DEF Next, Handle, Take, Work, Raise, N8n

------------------------------------------------------------------------------
(* Steps of settled and of unknown actions, and of the life cycle *)

\* Completed and rejected rows match no WHERE clause.
LEMMA SettledStep ==
  ASSUME TypeOK, [Next]_vars, NEW b \in Action, status[b] \in {"completed", "rejected"}
  PROVE  status'[b] = status[b]
<1> USE DEF vars, jobVars, taskVars, boundVars
<1>1. ASSUME NEW a \in Action, Propose(a) PROVE status'[b] = status[b]
  BY <1>1 DEF Propose, MoveTo, TypeOK
<1>2. ASSUME NEW w \in Worker, NEW a \in Action, NEW role \in Role, Approve(w, a, role)
      PROVE  status'[b] = status[b]
  BY <1>2 DEF Approve, MoveTo, TypeOK
<1>3. ASSUME NEW w \in Worker, NEW a \in Action, NEW role \in Role, Reject(w, a, role)
      PROVE  status'[b] = status[b]
  BY <1>3 DEF Reject, MoveTo, TypeOK
<1>4. ASSUME NEW w \in Worker, NEW a \in Action, NEW role \in Role, Retry(w, a, role)
      PROVE  status'[b] = status[b]
  BY <1>4 DEF Retry, Retryable, MoveTo, TypeOK
<1>5. ASSUME NEW a \in Action, NEW n \in Run, NEW t \in Try, ActionCallback(a, n, t)
      PROVE  status'[b] = status[b]
  BY <1>5, FinishEffect DEF ActionCallback, CanFinish
<1>6. ASSUME NEW w \in Worker, NEW a \in Action, Claim(w, a) PROVE status'[b] = status[b]
  BY <1>6 DEF Claim, Claimable, MoveTo, TypeOK
<1>7. ASSUME NEW w \in Worker, NEW a \in Action, ClaimSkipped(w, a) PROVE status'[b] = status[b]
  BY <1>7 DEF ClaimSkipped
<1>8. ASSUME NEW w \in Worker, NEW a \in Action, ClaimRaises(w, a) PROVE status'[b] = status[b]
  BY <1>8 DEF ClaimRaises
<1>9. ASSUME NEW a \in Action, NEW n \in Run, DemoCreate(a, n) PROVE status'[b] = status[b]
  BY <1>9 DEF DemoCreate
<1>10. ASSUME NEW a \in Action, NEW n \in Run, DemoCreateRaises(a, n) PROVE status'[b] = status[b]
  BY <1>10 DEF DemoCreateRaises
<1>11. ASSUME NEW a \in Action, NEW n \in Run, DemoComplete(a, n) PROVE status'[b] = status[b]
  BY <1>11, FinishEffect DEF DemoComplete, CanFinish
<1>12. ASSUME NEW a \in Action, NEW n \in Run, DemoCompleteRaises(a, n) PROVE status'[b] = status[b]
  BY <1>12 DEF DemoCompleteRaises
<1>13. ASSUME NEW a \in Action, NEW n \in Run, Fail(a, n) PROVE status'[b] = status[b]
  BY <1>13, FinishEffect DEF Fail, CanFinish
<1>14. ASSUME NEW a \in Action, NEW n \in Run, ThreadDies(a, n) PROVE status'[b] = status[b]
  BY <1>14 DEF ThreadDies
<1>15. ASSUME NEW a \in Action, NEW n \in Run, Post(a, n) PROVE status'[b] = status[b]
  BY <1>15 DEF Post
<1>16. ASSUME NEW a \in Action, NEW n \in Run, PostAccepted(a, n) PROVE status'[b] = status[b]
  BY <1>16 DEF PostAccepted
<1>17. ASSUME NEW a \in Action, NEW n \in Run, PostTimesOut(a, n) PROVE status'[b] = status[b]
  BY <1>17, FinishEffect DEF PostTimesOut, CanFinish
<1>18. ASSUME NEW a \in Action, NEW n \in Run, PostRaises(a, n) PROVE status'[b] = status[b]
  BY <1>18 DEF PostRaises
<1>19. ASSUME NEW a \in Action, NEW n \in Run, NEW t \in Try, N8nExecutes(a, n, t)
       PROVE  status'[b] = status[b]
  BY <1>19 DEF N8nExecutes
<1>20. ASSUME NEW a \in Action, NEW n \in Run, NEW t \in Try, N8nRefuses(a, n, t)
       PROVE  status'[b] = status[b]
  BY <1>20 DEF N8nRefuses
<1>21. ASSUME NEW w \in Worker, Crash(w) PROVE status'[b] = status[b]
  BY <1>21 DEF Crash
<1>22. ASSUME NEW w \in Worker, Startup(w) PROVE status'[b] = status[b]
  BY <1>22 DEF Startup
<1>23. CASE UNCHANGED vars
  BY <1>23
<1> QED
  BY <1>1, <1>2, <1>3, <1>4, <1>5, <1>6, <1>7, <1>8, <1>9, <1>10, <1>11, <1>12, <1>13, <1>14,
     <1>15, <1>16, <1>17, <1>18, <1>19, <1>20, <1>21, <1>22, <1>23
  DEF Next, Handle, Take, Work, Raise, N8n

\* No thread is left that could post for an action in delivery_unknown.
LEMMA UnknownStep ==
  ASSUME TypeOK, SoleExecutor, [Next]_vars, NEW b \in Action, status[b] = "delivery_unknown"
  PROVE  /\ status'[b] \in {"delivery_unknown", "completed", "failed"}
         /\ \A m \in Run, u \in Try : posts'[b][m][u] = "sent" => posts[b][m][u] = "sent"
<1> DEFINE Goal == /\ status'[b] \in {"delivery_unknown", "completed", "failed"}
                   /\ \A m \in Run, u \in Try :
                        posts'[b][m][u] = "sent" => posts[b][m][u] = "sent"
<1> USE DEF vars, jobVars, taskVars, boundVars
<1>1. ASSUME NEW a \in Action, Propose(a) PROVE Goal
  BY <1>1 DEF Propose, MoveTo, TypeOK
<1>2. ASSUME NEW w \in Worker, NEW a \in Action, NEW role \in Role, Approve(w, a, role) PROVE Goal
  BY <1>2 DEF Approve, MoveTo, TypeOK
<1>3. ASSUME NEW w \in Worker, NEW a \in Action, NEW role \in Role, Reject(w, a, role) PROVE Goal
  BY <1>3 DEF Reject, MoveTo, TypeOK
<1>4. ASSUME NEW w \in Worker, NEW a \in Action, NEW role \in Role, Retry(w, a, role) PROVE Goal
  BY <1>4 DEF Retry, Retryable, MoveTo, TypeOK
<1>5. ASSUME NEW a \in Action, NEW n \in Run, NEW t \in Try, ActionCallback(a, n, t) PROVE Goal
  BY <1>5, FinishEffect DEF ActionCallback, CallbackStatus, CanFinish
<1>6. ASSUME NEW w \in Worker, NEW a \in Action, Claim(w, a) PROVE Goal
  BY <1>6 DEF Claim, Claimable, MoveTo, TypeOK
<1>7. ASSUME NEW w \in Worker, NEW a \in Action, ClaimSkipped(w, a) PROVE Goal
  BY <1>7 DEF ClaimSkipped
<1>8. ASSUME NEW w \in Worker, NEW a \in Action, ClaimRaises(w, a) PROVE Goal
  BY <1>8 DEF ClaimRaises
<1>9. ASSUME NEW a \in Action, NEW n \in Run, DemoCreate(a, n) PROVE Goal
  BY <1>9 DEF DemoCreate
<1>10. ASSUME NEW a \in Action, NEW n \in Run, DemoCreateRaises(a, n) PROVE Goal
  BY <1>10 DEF DemoCreateRaises
<1>11. ASSUME NEW a \in Action, NEW n \in Run, DemoComplete(a, n) PROVE Goal
  BY <1>11, FinishEffect DEF DemoComplete, CallbackStatus, CanFinish
<1>12. ASSUME NEW a \in Action, NEW n \in Run, DemoCompleteRaises(a, n) PROVE Goal
  BY <1>12 DEF DemoCompleteRaises
<1>13. ASSUME NEW a \in Action, NEW n \in Run, Fail(a, n) PROVE Goal
  BY <1>13, FinishEffect DEF Fail, CallbackStatus, CanFinish
<1>14. ASSUME NEW a \in Action, NEW n \in Run, ThreadDies(a, n) PROVE Goal
  BY <1>14 DEF ThreadDies
<1>15. ASSUME NEW a \in Action, NEW n \in Run, Post(a, n) PROVE Goal
  <2>1. b # a
    BY <1>15 DEF Post, SoleExecutor, Live
  <2>2. posts'[b] = posts[b] /\ UNCHANGED status
    BY <1>15, <2>1 DEF Post, TypeOK
  <2> QED BY <2>2
<1>16. ASSUME NEW a \in Action, NEW n \in Run, PostAccepted(a, n) PROVE Goal
  BY <1>16 DEF PostAccepted
<1>17. ASSUME NEW a \in Action, NEW n \in Run, PostTimesOut(a, n) PROVE Goal
  BY <1>17, FinishEffect DEF PostTimesOut, CallbackStatus, CanFinish
<1>18. ASSUME NEW a \in Action, NEW n \in Run, PostRaises(a, n) PROVE Goal
  BY <1>18 DEF PostRaises
<1>19. ASSUME NEW a \in Action, NEW n \in Run, NEW t \in Try, N8nExecutes(a, n, t) PROVE Goal
  BY <1>19, PostEffect DEF N8nExecutes
<1>20. ASSUME NEW a \in Action, NEW n \in Run, NEW t \in Try, N8nRefuses(a, n, t) PROVE Goal
  BY <1>20, PostEffect DEF N8nRefuses
<1>21. ASSUME NEW w \in Worker, Crash(w) PROVE Goal
  BY <1>21 DEF Crash
<1>22. ASSUME NEW w \in Worker, Startup(w) PROVE Goal
  BY <1>22 DEF Startup
<1>23. CASE UNCHANGED vars
  BY <1>23
<1> QED
  BY <1>1, <1>2, <1>3, <1>4, <1>5, <1>6, <1>7, <1>8, <1>9, <1>10, <1>11, <1>12, <1>13, <1>14,
     <1>15, <1>16, <1>17, <1>18, <1>19, <1>20, <1>21, <1>22, <1>23
  DEF Next, Handle, Take, Work, Raise, N8n

\* One phase of the life cycle moves with one status.
LEMMA PhaseMoves ==
  ASSUME TypeOK, NEW a \in Action, NEW s, status' = [status EXCEPT ![a] = s]
  PROVE  [x \in Action |-> PhaseOf(status[x])]' =
           [[x \in Action |-> PhaseOf(status[x])] EXCEPT ![a] = PhaseOf(s)]
BY DEF TypeOK

\* Statuses of the same phase cannot be told apart there.
LEMMA PhaseStays ==
  ASSUME TypeOK, NEW a \in Action, NEW s, status' = [status EXCEPT ![a] = s],
         PhaseOf(s) = PhaseOf(status[a])
  PROVE  [x \in Action |-> PhaseOf(status[x])]' = [x \in Action |-> PhaseOf(status[x])]
<1>1. \A x \in Action : PhaseOf(status'[x]) = PhaseOf(status[x])
  BY DEF TypeOK
<1> QED BY <1>1

\* create_request adds the action to the recorded ones.
LEMMA RecordEffect ==
  ASSUME TypeOK, NEW a \in Action, CreateRequest(a)
  PROVE  {x \in Action : requests[x] > 0}' = {x \in Action : requests[x] > 0} \cup {a}
<1>1. \A x \in Action : requests'[x] > 0 <=> requests[x] > 0 \/ x = a
  BY DEF TypeOK, CreateRequest
<1> QED BY <1>1

\* Every step is a step of the life cycle or leaves it alone.
LEMMA LifecycleStep ==
  ASSUME Mode = "mock", TypeOK, RecordInv, MockInv, [Next]_vars
  PROVE  [Lifecycle!LifecycleNext]_(Lifecycle!lifecycleVars)
<1> DEFINE phase == [x \in Action |-> PhaseOf(status[x])]
           recorded == {x \in Action : requests[x] > 0}
           Goal == [Lifecycle!LifecycleNext]_(Lifecycle!lifecycleVars)
           Still == phase' = phase /\ recorded' = recorded /\ approvedBy' = approvedBy
<1> USE DEF vars, jobVars, taskVars, boundVars
<1>s. ASSUME Still PROVE Goal
  BY <1>s DEF Lifecycle!lifecycleVars
<1>n. ASSUME NEW a \in Action,
             Lifecycle!LPropose(a) \/ Lifecycle!LRefuse(a) \/ Lifecycle!LOpen(a)
               \/ Lifecycle!LRecord(a) \/ Lifecycle!LClose(a)
      PROVE  Goal
  BY <1>n DEF Lifecycle!LifecycleNext
<1>1. ASSUME NEW a \in Action, Propose(a) PROVE Goal
  <2>1. phase' = [phase EXCEPT ![a] = "proposed"] /\ phase[a] = "absent"
    BY <1>1, PhaseMoves DEF Propose, MoveTo, PhaseOf
  <2>2. Lifecycle!LPropose(a)
    BY <1>1, <2>1 DEF Propose, Lifecycle!LPropose
  <2> QED BY <2>2, <1>n
<1>2. ASSUME NEW w \in Worker, NEW a \in Action, NEW role \in Role, Approve(w, a, role) PROVE Goal
  <2>1. phase' = [phase EXCEPT ![a] = "open"] /\ phase[a] = "proposed"
    <3>1. PhaseOf("approved") = "open"
      BY DEF PhaseOf
    <3>2. status[a] = "waiting_approval" /\ status' = [status EXCEPT ![a] = "approved"]
      BY <1>2 DEF Approve, MoveTo
    <3>3. phase' = [phase EXCEPT ![a] = PhaseOf("approved")]
      BY <3>2, PhaseMoves
    <3> QED BY <3>1, <3>2, <3>3 DEF PhaseOf
  <2>2. role \in [x \in Action |-> ApproverRoles[KindOf[x]]][a]
    BY <1>2 DEF Approve, CanApprove
  <2>3. Lifecycle!LOpen(a)
    BY <1>2, <2>1, <2>2 DEF Approve, Lifecycle!LOpen
  <2> QED BY <2>3, <1>n
<1>3. ASSUME NEW w \in Worker, NEW a \in Action, NEW role \in Role, Reject(w, a, role) PROVE Goal
  <2>1. phase' = [phase EXCEPT ![a] = "refused"] /\ phase[a] = "proposed"
    BY <1>3, PhaseMoves DEF Reject, MoveTo, PhaseOf
  <2>2. Lifecycle!LRefuse(a)
    BY <1>3, <2>1 DEF Reject, Lifecycle!LRefuse
  <2> QED BY <2>2, <1>n
<1>4. ASSUME NEW w \in Worker, NEW a \in Action, NEW role \in Role, Retry(w, a, role) PROVE Goal
  <2>1. phase' = phase
    BY <1>4, PhaseStays DEF Retry, Retryable, MoveTo, PhaseOf
  <2> QED BY <1>4, <2>1, <1>s DEF Retry
<1>5. ASSUME NEW a \in Action, NEW n \in Run, NEW t \in Try, ActionCallback(a, n, t) PROVE Goal
  BY <1>5 DEF ActionCallback, MockInv, MockInvAt
<1>6. ASSUME NEW w \in Worker, NEW a \in Action, Claim(w, a) PROVE Goal
  <2>1. phase' = phase
    BY <1>6, PhaseStays DEF Claim, Claimable, MoveTo, PhaseOf
  <2> QED BY <1>6, <2>1, <1>s DEF Claim
<1>7. ASSUME NEW w \in Worker, NEW a \in Action, ClaimSkipped(w, a) PROVE Goal
  BY <1>7, <1>s DEF ClaimSkipped
<1>8. ASSUME NEW w \in Worker, NEW a \in Action, ClaimRaises(w, a) PROVE Goal
  BY <1>8, <1>s DEF ClaimRaises
<1>9. ASSUME NEW a \in Action, NEW n \in Run, DemoCreate(a, n) PROVE Goal
  <2>1. recorded' = recorded \cup {a} /\ phase' = phase /\ approvedBy' = approvedBy
    BY <1>9, RecordEffect DEF DemoCreate
  <2>2. phase[a] = "open"
    BY <1>9 DEF DemoCreate, MockInv, MockInvAt, PhaseOf
  <2>3. CASE a \in recorded
    BY <2>1, <2>3, <1>s
  <2>4. CASE a \notin recorded
    <3>1. Lifecycle!LRecord(a)
      BY <2>1, <2>2, <2>4 DEF Lifecycle!LRecord
    <3> QED BY <3>1, <1>n
  <2> QED BY <2>3, <2>4
<1>10. ASSUME NEW a \in Action, NEW n \in Run, DemoCreateRaises(a, n) PROVE Goal
  <2>0. CASE UNCHANGED requests
    BY <1>10, <2>0, <1>s DEF DemoCreateRaises
  <2>1. requests' = requests \/ (recorded' = recorded \cup {a} /\ phase' = phase /\ approvedBy' = approvedBy)
    BY <1>10, RecordEffect DEF DemoCreateRaises
  <2>2. phase[a] = "open"
    BY <1>10 DEF DemoCreateRaises, MockInv, MockInvAt, PhaseOf
  <2>3. CASE a \in recorded
    BY <2>0, <2>1, <2>3, <1>s
  <2>4. CASE a \notin recorded
    <3>1. requests' = requests \/ Lifecycle!LRecord(a)
      BY <2>1, <2>2, <2>4 DEF Lifecycle!LRecord
    <3> QED BY <3>1, <2>0, <1>n
  <2> QED BY <2>3, <2>4
<1>11. ASSUME NEW a \in Action, NEW n \in Run, DemoComplete(a, n) PROVE Goal
  <2>1. status[a] = "running" /\ requests[a] = 1
    BY <1>11 DEF DemoComplete, MockInv, MockInvAt, RecordInv, RecordInvAt
  <2>2. phase' = [phase EXCEPT ![a] = "closed"] /\ phase[a] = "open"
    BY <1>11, <2>1, PhaseMoves DEF DemoComplete, FinishActionJob, CanFinish, MoveTo, PhaseOf
  <2>3. a \in recorded /\ recorded' = recorded /\ approvedBy' = approvedBy
    BY <1>11, <2>1 DEF DemoComplete, FinishActionJob
  <2>4. Lifecycle!LClose(a)
    BY <2>2, <2>3 DEF Lifecycle!LClose
  <2> QED BY <2>4, <1>n
<1>12. ASSUME NEW a \in Action, NEW n \in Run, DemoCompleteRaises(a, n) PROVE Goal
  BY <1>12, <1>s DEF DemoCompleteRaises
<1>13. ASSUME NEW a \in Action, NEW n \in Run, Fail(a, n) PROVE Goal
  <2>1. status[a] = "running"
    BY <1>13 DEF Fail, MockInv, MockInvAt
  <2>2. phase' = phase
    BY <1>13, <2>1, PhaseStays DEF Fail, FinishActionJob, CanFinish, MoveTo, PhaseOf
  <2> QED BY <1>13, <2>2, <1>s DEF Fail, FinishActionJob
<1>14. ASSUME NEW a \in Action, NEW n \in Run, ThreadDies(a, n) PROVE Goal
  BY <1>14, <1>s DEF ThreadDies
<1>15. ASSUME NEW a \in Action, NEW n \in Run, Post(a, n) PROVE Goal
  BY <1>15, <1>s DEF Post
<1>16. ASSUME NEW a \in Action, NEW n \in Run, PostAccepted(a, n) PROVE Goal
  BY <1>16, <1>s DEF PostAccepted
<1>17. ASSUME NEW a \in Action, NEW n \in Run, PostTimesOut(a, n) PROVE Goal
  BY <1>17 DEF PostTimesOut, MockInv, MockInvAt
<1>18. ASSUME NEW a \in Action, NEW n \in Run, PostRaises(a, n) PROVE Goal
  BY <1>18, <1>s DEF PostRaises
<1>19. ASSUME NEW a \in Action, NEW n \in Run, NEW t \in Try, N8nExecutes(a, n, t) PROVE Goal
  BY <1>19, <1>s DEF N8nExecutes
<1>20. ASSUME NEW a \in Action, NEW n \in Run, NEW t \in Try, N8nRefuses(a, n, t) PROVE Goal
  BY <1>20, <1>s DEF N8nRefuses
<1>21. ASSUME NEW w \in Worker, Crash(w) PROVE Goal
  BY <1>21, <1>s DEF Crash
<1>22. ASSUME NEW w \in Worker, Startup(w) PROVE Goal
  BY <1>22, <1>s DEF Startup
<1>23. CASE UNCHANGED vars
  BY <1>23, <1>s
<1> QED
  BY <1>1, <1>2, <1>3, <1>4, <1>5, <1>6, <1>7, <1>8, <1>9, <1>10, <1>11, <1>12, <1>13, <1>14,
     <1>15, <1>16, <1>17, <1>18, <1>19, <1>20, <1>21, <1>22, <1>23
  DEF Next, Handle, Take, Work, Raise, N8n

------------------------------------------------------------------------------
(* The audit trail and the scheduling of approved actions *)

LastEvent(a) == events[a][Len(events[a])]

\* AuditTrail of one action.
TrailOf(a) ==
  /\ (events[a] = <<>>) = (status[a] = "none")
  /\ events[a] # <<>> =>
       /\ events[a][1] = "proposed"
       /\ StatusAfter(LastEvent(a)) = status[a]
  /\ \A i \in 1..(Len(events[a]) - 1) : events[a][i+1] \in MayFollow(events[a][i])

\* A trail that has begun ends in one of the audit rows.
LEMMA LastEventTyped ==
  ASSUME TypeOK, NEW a \in Action, TrailOf(a), status[a] # "none"
  PROVE  LastEvent(a) \in Event /\ StatusAfter(LastEvent(a)) = status[a]
<1>1. events[a] \in Seq(Event) /\ events[a] # <<>>
  BY DEF TypeOK, TrailOf
<1>2. Len(events[a]) \in DOMAIN events[a]
  BY <1>1
<1> QED BY <1>1, <1>2 DEF TrailOf, LastEvent

\* A move that writes the row its last audit row calls for continues the trail.
LEMMA TrailGoesOn ==
  ASSUME TypeOK, NEW a \in Action, NEW s \in Status \ {"none"}, NEW e \in Event,
         MoveTo(a, s, e), TrailOf(a), StatusAfter(e) = s,
         IF status[a] = "none" THEN e = "proposed" ELSE e \in MayFollow(LastEvent(a))
  PROVE  TrailOf(a)'
<1> DEFINE old == events[a]
<1>1. old \in Seq(Event) /\ events'[a] = Append(old, e) /\ status'[a] = s
  BY DEF TypeOK, MoveTo, AddActionEvent
<1>2. /\ Len(events'[a]) = Len(old) + 1
      /\ events'[a][Len(old) + 1] = e
      /\ \A i \in 1..Len(old) : events'[a][i] = old[i]
  BY <1>1
<1>3. events'[a][1] = "proposed"
  BY <1>1, <1>2 DEF TrailOf
<1>4. ASSUME NEW i \in 1..Len(old) PROVE events'[a][i+1] \in MayFollow(events'[a][i])
  <2>1. CASE i < Len(old)
    BY <1>1, <1>2, <1>4, <2>1 DEF TrailOf
  <2>2. CASE i = Len(old)
    BY <1>1, <1>2, <2>2 DEF TrailOf, LastEvent
  <2> QED BY <1>1, <2>1, <2>2
<1>5. events'[a] # <<>>
  BY <1>1
<1> QED BY <1>1, <1>2, <1>3, <1>4, <1>5 DEF TrailOf, LastEvent

\* The other actions keep their trails.
LEMMA TrailStays ==
  ASSUME NEW a, UNCHANGED <<status[a], events[a]>>, TrailOf(a)
  PROVE  TrailOf(a)'
BY DEF TrailOf, LastEvent

\* MoveTo touches no other action.
LEMMA MoveToEffect ==
  ASSUME TypeOK, NEW a \in Action, NEW s, NEW e, MoveTo(a, s, e), NEW b \in Action, b # a
  PROVE  UNCHANGED <<status[b], events[b]>>
BY DEF TypeOK, MoveTo, AddActionEvent

\* What a row of the table says of the last audit row.
LEMMA LastEventOf ==
  ASSUME TypeOK, NEW a \in Action, TrailOf(a)
  PROVE  /\ status[a] = "waiting_approval" => LastEvent(a) = "proposed"
         /\ status[a] = "approved" => LastEvent(a) \in {"approved", "retry_requested"}
         /\ status[a] = "running" => LastEvent(a) = "dispatch_started"
         /\ status[a] = "failed" => LastEvent(a) = "failed"
         /\ status[a] = "delivery_unknown" => LastEvent(a) = "delivery_unknown"
BY LastEventTyped DEF StatusAfter, Event

\* finish_action_job continues the trail, or leaves it alone.
LEMMA TrailFinishes ==
  ASSUME TypeOK, AuditTrail, NEW a \in Action,
         NEW s \in {"completed", "failed", "delivery_unknown"}, FinishActionJob(a, s)
  PROVE  AuditTrail'
<1>1. \A b \in Action : TrailOf(b)
  BY DEF AuditTrail, TrailOf, LastEvent
<1>2. CASE CanFinish(a, s)
  <2>1. MoveTo(a, s, s)
    BY <1>2 DEF FinishActionJob
  <2>2. status[a] # "none" /\ s \in MayFollow(LastEvent(a))
    BY <1>1, <1>2, LastEventOf DEF CanFinish, MayFollow
  <2>3. StatusAfter(s) = s /\ s \in Event /\ s \in Status \ {"none"}
    BY DEF StatusAfter, Event, Status
  <2>4. TrailOf(a)'
    BY <1>1, <2>1, <2>2, <2>3, TrailGoesOn
  <2>5. ASSUME NEW b \in Action, b # a PROVE TrailOf(b)'
    BY <1>1, <2>1, <2>5, MoveToEffect, TrailStays
  <2> QED BY <2>4, <2>5 DEF AuditTrail, TrailOf, LastEvent
<1>3. CASE ~CanFinish(a, s)
  BY <1>3 DEF FinishActionJob, AuditTrail
<1> QED BY <1>2, <1>3

\* Every other audit row follows the one before it too.
LEMMA TrailMoves ==
  ASSUME TypeOK, AuditTrail, NEW a \in Action, NEW s \in Status \ {"none"}, NEW e \in Event,
         MoveTo(a, s, e), StatusAfter(e) = s,
         \/ status[a] = "none" /\ e = "proposed"
         \/ status[a] = "waiting_approval" /\ e \in {"approved", "rejected"}
         \/ status[a] = "approved" /\ e = "dispatch_started"
         \/ status[a] = "failed" /\ e = "retry_requested"
  PROVE  AuditTrail'
<1>1. \A b \in Action : TrailOf(b)
  BY DEF AuditTrail, TrailOf, LastEvent
<1>2. status[a] # "none" => e \in MayFollow(LastEvent(a))
  BY <1>1, LastEventOf DEF MayFollow
<1>3. TrailOf(a)'
  BY <1>1, <1>2, TrailGoesOn
<1>4. ASSUME NEW b \in Action, b # a PROVE TrailOf(b)'
  BY <1>1, <1>4, MoveToEffect, TrailStays
<1> QED BY <1>3, <1>4 DEF AuditTrail, TrailOf, LastEvent

\* Every step leaves the trails legal.
LEMMA AuditStep ==
  ASSUME TypeOK, AuditTrail, [Next]_vars
  PROVE  AuditTrail'
<1> USE DEF vars, jobVars, taskVars, boundVars
<1>1. ASSUME NEW a \in Action, Propose(a) PROVE AuditTrail'
  BY <1>1, TrailMoves DEF Propose, StatusAfter, Event, Status
<1>2. ASSUME NEW w \in Worker, NEW a \in Action, NEW role \in Role, Approve(w, a, role) PROVE AuditTrail'
  BY <1>2, TrailMoves DEF Approve, StatusAfter, Event, Status
<1>3. ASSUME NEW w \in Worker, NEW a \in Action, NEW role \in Role, Reject(w, a, role) PROVE AuditTrail'
  BY <1>3, TrailMoves DEF Reject, StatusAfter, Event, Status
<1>4. ASSUME NEW w \in Worker, NEW a \in Action, NEW role \in Role, Retry(w, a, role) PROVE AuditTrail'
  BY <1>4, TrailMoves DEF Retry, Retryable, StatusAfter, Event, Status
<1>5. ASSUME NEW a \in Action, NEW n \in Run, NEW t \in Try, ActionCallback(a, n, t) PROVE AuditTrail'
  BY <1>5, TrailFinishes DEF ActionCallback, CallbackStatus
<1>6. ASSUME NEW w \in Worker, NEW a \in Action, Claim(w, a) PROVE AuditTrail'
  BY <1>6, TrailMoves DEF Claim, Claimable, StatusAfter, Event, Status
<1>7. ASSUME NEW a \in Action, NEW n \in Run, DemoComplete(a, n) PROVE AuditTrail'
  BY <1>7, TrailFinishes DEF DemoComplete
<1>8. ASSUME NEW a \in Action, NEW n \in Run, Fail(a, n) PROVE AuditTrail'
  BY <1>8, TrailFinishes DEF Fail
<1>9. ASSUME NEW a \in Action, NEW n \in Run, PostTimesOut(a, n) PROVE AuditTrail'
  BY <1>9, TrailFinishes DEF PostTimesOut
<1>10. ASSUME NEW w \in Worker, NEW a \in Action,
             ClaimSkipped(w, a) \/ ClaimRaises(w, a)
      PROVE  AuditTrail'
  BY <1>10 DEF AuditTrail, ClaimSkipped, ClaimRaises
<1>11. ASSUME NEW a \in Action, NEW n \in Run,
             DemoCreate(a, n) \/ DemoCreateRaises(a, n) \/ DemoCompleteRaises(a, n) \/ ThreadDies(a, n) \/ Post(a, n) \/ PostAccepted(a, n) \/ PostRaises(a, n)
      PROVE  AuditTrail'
  BY <1>11 DEF AuditTrail, DemoCreate, DemoCreateRaises, DemoCompleteRaises, ThreadDies, Post, PostAccepted, PostRaises
<1>12. ASSUME NEW a \in Action, NEW n \in Run, NEW t \in Try,
             N8nExecutes(a, n, t) \/ N8nRefuses(a, n, t)
      PROVE  AuditTrail'
  BY <1>12 DEF AuditTrail, N8nExecutes, N8nRefuses
<1>13. ASSUME NEW w \in Worker,
             Crash(w) \/ Startup(w)
      PROVE  AuditTrail'
  BY <1>13 DEF AuditTrail, Crash, Startup
<1>14. CASE UNCHANGED vars
  BY <1>14 DEF AuditTrail
<1> QED
  BY <1>1, <1>2, <1>3, <1>4, <1>5, <1>6, <1>7, <1>8, <1>9, <1>10, <1>11, <1>12, <1>13, <1>14
  DEF Next, Handle, Take, Work, Raise, N8n

\* Every row was created once, and created holds nothing else.
CreatedInv ==
  /\ \A a \in Action : status[a] # "none" <=> \E i \in DOMAIN created : created[i] = a
  /\ \A i, j \in DOMAIN created : created[i] = created[j] => i = j

\* A step that makes no row and loses none.
LEMMA CreatedStays ==
  ASSUME CreatedInv, UNCHANGED created,
         \A a \in Action : status'[a] # "none" <=> status[a] # "none"
  PROVE  CreatedInv'
BY DEF CreatedInv

\* Only Propose makes a row.
LEMMA CreatedStep ==
  ASSUME TypeOK, CreatedInv, [Next]_vars
  PROVE  CreatedInv'
<1> USE DEF vars, jobVars, taskVars, boundVars
<1>1. ASSUME NEW a \in Action, Propose(a) PROVE CreatedInv'
  <2>1. created' = Append(created, a) /\ status[a] = "none" /\ created \in Seq(Action)
    BY <1>1 DEF Propose, TypeOK
  <2>2. /\ DOMAIN created' = DOMAIN created \cup {Len(created) + 1}
        /\ created'[Len(created) + 1] = a
        /\ \A i \in DOMAIN created : created'[i] = created[i]
        /\ Len(created) + 1 \notin DOMAIN created
    BY <2>1
  <2>3. \A b \in Action : status'[b] # "none" <=> b = a \/ status[b] # "none"
    BY <1>1, <2>1 DEF Propose, MoveTo, TypeOK
  <2> QED BY <2>1, <2>2, <2>3 DEF CreatedInv
<1>2. ASSUME NEW w \in Worker, NEW a \in Action, NEW role \in Role,
             Approve(w, a, role) \/ Reject(w, a, role) \/ Retry(w, a, role)
      PROVE  CreatedInv'
  <2>1. UNCHANGED created /\ \A b \in Action : status'[b] # "none" <=> status[b] # "none"
    BY <1>2 DEF Approve, Reject, Retry, Retryable, MoveTo, TypeOK
  <2> QED BY <2>1, CreatedStays
<1>3. ASSUME NEW a \in Action, NEW n \in Run, NEW t \in Try, ActionCallback(a, n, t)
      PROVE  CreatedInv'
  <2>1. UNCHANGED created /\ \A b \in Action : status'[b] # "none" <=> status[b] # "none"
    BY <1>3, FinishEffect DEF ActionCallback, CallbackStatus, CanFinish
  <2> QED BY <2>1, CreatedStays
<1>4. ASSUME NEW w \in Worker, NEW a \in Action,
             Claim(w, a) \/ ClaimSkipped(w, a) \/ ClaimRaises(w, a)
      PROVE  CreatedInv'
  <2>1. UNCHANGED created /\ \A b \in Action : status'[b] # "none" <=> status[b] # "none"
    BY <1>4 DEF Claim, ClaimSkipped, ClaimRaises, Claimable, MoveTo, TypeOK
  <2> QED BY <2>1, CreatedStays
<1>5. ASSUME NEW a \in Action, NEW n \in Run,
             DemoComplete(a, n) \/ Fail(a, n) \/ PostTimesOut(a, n)
      PROVE  CreatedInv'
  <2>1. UNCHANGED created /\ \A b \in Action : status'[b] # "none" <=> status[b] # "none"
    BY <1>5, FinishEffect DEF DemoComplete, Fail, PostTimesOut, CanFinish
  <2> QED BY <2>1, CreatedStays
<1>6. ASSUME NEW a \in Action, NEW n \in Run,
             \/ DemoCreate(a, n) \/ DemoCreateRaises(a, n) \/ DemoCompleteRaises(a, n)
             \/ ThreadDies(a, n) \/ Post(a, n) \/ PostAccepted(a, n) \/ PostRaises(a, n)
      PROVE  CreatedInv'
  <2>1. UNCHANGED created /\ \A b \in Action : status'[b] # "none" <=> status[b] # "none"
    BY <1>6 DEF DemoCreate, DemoCreateRaises, DemoCompleteRaises, ThreadDies, Post,
                    PostAccepted, PostRaises
  <2> QED BY <2>1, CreatedStays
<1>7. ASSUME NEW a \in Action, NEW n \in Run, NEW t \in Try,
             N8nExecutes(a, n, t) \/ N8nRefuses(a, n, t)
      PROVE  CreatedInv'
  <2>1. UNCHANGED created /\ \A b \in Action : status'[b] # "none" <=> status[b] # "none"
    BY <1>7 DEF N8nExecutes, N8nRefuses
  <2> QED BY <2>1, CreatedStays
<1>8. ASSUME NEW w \in Worker, Crash(w) \/ Startup(w) PROVE CreatedInv'
  <2>1. UNCHANGED created /\ \A b \in Action : status'[b] # "none" <=> status[b] # "none"
    BY <1>8 DEF Crash, Startup
  <2> QED BY <2>1, CreatedStays
<1>9. CASE UNCHANGED vars
  <2>1. UNCHANGED created /\ \A b \in Action : status'[b] # "none" <=> status[b] # "none"
    BY <1>9
  <2> QED BY <2>1, CreatedStays
<1> QED
  BY <1>1, <1>2, <1>3, <1>4, <1>5, <1>6, <1>7, <1>8, <1>9
  DEF Next, Handle, Take, Work, Raise, N8n

\* Where the table has room in the recovery's list, every row is among the newest.
LEMMA AllAreNewest ==
  ASSUME TypeOK, CreatedInv, IsFiniteSet(Action), Cardinality(Action) <= RecoveryLimit,
         NEW a \in Action, status[a] # "none"
  PROVE  a \in Newest(RecoveryLimit)
<1> USE ConstantsAssumption
<1> DEFINE rows == Len(created)
<1>1. created \in Seq(Action) /\ rows \in Nat /\ DOMAIN created = 1..rows
  BY DEF TypeOK
<1> HIDE DEF rows
<1>2. created \in Injection(1..rows, Action)
  BY <1>1 DEF CreatedInv, Injection, IsInjective
<1>3. Cardinality(1..rows) <= Cardinality(Action)
  BY <1>2, FS_Injection
<1>4. Cardinality(1..rows) = rows
  <2>1. Cardinality(1..rows) = IF 1 > rows THEN 0 ELSE rows - 1 + 1
    BY <1>1, FS_Interval
  <2> QED BY <1>1, <2>1
<1>5. Cardinality(Action) \in Nat
  BY FS_CardinalityType
<1>6. PICK i \in DOMAIN created : created[i] = a
  BY DEF CreatedInv
<1>7. i > rows - RecoveryLimit
  BY <1>1, <1>3, <1>4, <1>5, <1>6
<1> QED BY <1>6, <1>7 DEF Newest, rows

\* Without store faults only a claim takes the last task of an approved action.
LEMMA ScheduledStep ==
  ASSUME TypeOK, CreatedInv, ApprovedIsScheduled, [Next]_vars,
         MaxFaults = 0, IsFiniteSet(Action), Cardinality(Action) <= RecoveryLimit
  PROVE  ApprovedIsScheduled'
<1> USE DEF ApprovedIsScheduled, vars, jobVars, taskVars, boundVars
<1>1. ASSUME NEW a \in Action, Propose(a) PROVE ApprovedIsScheduled'
  BY <1>1 DEF Propose, MoveTo, TypeOK
<1>2. ASSUME NEW w \in Worker, NEW a \in Action, NEW role \in Role,
             Approve(w, a, role) \/ Retry(w, a, role)
      PROVE  ApprovedIsScheduled'
  <2>1. \A b \in Action : b # a => status'[b] = status[b]
    BY <1>2 DEF Approve, Retry, MoveTo, TypeOK
  <2>2. queued' = [queued EXCEPT ![w][a] = @ + 1] /\ up' = up
    BY <1>2 DEF Approve, Retry, Schedule
  <2>3. queued'[w][a] > 0
    BY <2>2 DEF TypeOK
  <2>4. ASSUME NEW v \in Worker, NEW b \in Action, b # a PROVE queued'[v][b] = queued[v][b]
    BY <2>2, <2>4 DEF TypeOK
  <2> QED BY <2>1, <2>2, <2>3, <2>4
<1>3. ASSUME NEW w \in Worker, NEW a \in Action, NEW role \in Role, Reject(w, a, role)
      PROVE  ApprovedIsScheduled'
  BY <1>3 DEF Reject, MoveTo, TypeOK
<1>4. ASSUME NEW a \in Action, NEW n \in Run, NEW t \in Try, ActionCallback(a, n, t)
      PROVE  ApprovedIsScheduled'
  BY <1>4, FinishEffect DEF ActionCallback, CallbackStatus
<1>5. ASSUME NEW w \in Worker, NEW a \in Action, Claim(w, a) \/ ClaimSkipped(w, a)
      PROVE  ApprovedIsScheduled'
  <2>1. queued' = [queued EXCEPT ![w][a] = @ - 1] /\ up' = up
    BY <1>5 DEF Claim, ClaimSkipped, Unschedule
  <2>2. \A b \in Action : b # a => status'[b] = status[b]
    BY <1>5 DEF Claim, ClaimSkipped, MoveTo, TypeOK
  <2>3. status'[a] # "approved"
    BY <1>5 DEF Claim, ClaimSkipped, Claimable, MoveTo, TypeOK
  <2>4. ASSUME NEW v \in Worker, NEW b \in Action, b # a PROVE queued'[v][b] = queued[v][b]
    BY <2>1, <2>4 DEF TypeOK
  <2> QED BY <2>1, <2>2, <2>3, <2>4
<1>6. ASSUME NEW w \in Worker, NEW a \in Action, ClaimRaises(w, a) PROVE ApprovedIsScheduled'
  BY <1>6 DEF ClaimRaises, TypeOK
<1>7. ASSUME NEW a \in Action, NEW n \in Run,
             DemoComplete(a, n) \/ Fail(a, n) \/ PostTimesOut(a, n)
      PROVE  ApprovedIsScheduled'
  BY <1>7, FinishEffect DEF DemoComplete, Fail, PostTimesOut
<1>8. ASSUME NEW a \in Action, NEW n \in Run,
             \/ DemoCreate(a, n) \/ DemoCreateRaises(a, n) \/ DemoCompleteRaises(a, n)
             \/ ThreadDies(a, n) \/ Post(a, n) \/ PostAccepted(a, n) \/ PostRaises(a, n)
      PROVE  ApprovedIsScheduled'
  BY <1>8 DEF DemoCreate, DemoCreateRaises, DemoCompleteRaises, ThreadDies, Post, PostAccepted,
              PostRaises
<1>9. ASSUME NEW a \in Action, NEW n \in Run, NEW t \in Try,
             N8nExecutes(a, n, t) \/ N8nRefuses(a, n, t)
      PROVE  ApprovedIsScheduled'
  BY <1>9 DEF N8nExecutes, N8nRefuses
<1>10. ASSUME NEW w \in Worker, Crash(w) PROVE ApprovedIsScheduled'
  BY <1>10 DEF Crash
<1>11. ASSUME NEW w \in Worker, Startup(w) PROVE ApprovedIsScheduled'
  <2>1. ASSUME NEW a \in Action, status[a] = "approved" PROVE queued'[w][a] > 0
    <3>1. Recovered(a)
      BY <2>1, AllAreNewest DEF Recovered
    <3> QED BY <1>11, <3>1 DEF Startup, TypeOK
  <2> QED BY <1>11, <2>1 DEF Startup
<1>12. CASE UNCHANGED vars
  BY <1>12
<1> QED
  BY <1>1, <1>2, <1>3, <1>4, <1>5, <1>6, <1>7, <1>8, <1>9, <1>10, <1>11, <1>12
  DEF Next, Handle, Take, Work, Raise, N8n

------------------------------------------------------------------------------
(* Theorems *)

\* IInv is inductive: with it the properties of the effects follow.
IInv == TypeOK /\ RunsInv /\ OpenInv /\ RecordInv

\* The invariants hold together from the initial state on.
LEMMA Inductive == Spec => []IInv
<1>1. Init => RunsInv /\ OpenInv /\ RecordInv
  BY ConstantsAssumption
  DEF Init, RunsInv, RunInv, OpenInv, Opened, RecordInv, RecordInvAt, Off, Nobody
<1>2. TypeOK /\ RunsInv /\ OpenInv /\ RecordInv /\ [Next]_vars
        => (RunsInv /\ OpenInv /\ RecordInv)'
  BY RunsStep, OpenStep, RecordStep
<1> QED BY <1>1, <1>2, TypeCorrect, PTL DEF Spec, IInv

\* Nothing reaches the CRM or n8n for an action nobody entitled to it approved.
THEOREM EffectsAuthorised == Spec => []EffectsAreAuthorised
<1>1. IInv => EffectsAreAuthorised
  <2> SUFFICES ASSUME IInv, NEW a \in Action,
                      requests[a] > 0 \/ \E n \in Run, t \in Try : posts[a][n][t] # "none"
               PROVE  /\ approvedBy[a] \in ApproverRoles[KindOf[a]]
                      /\ status[a] \notin {"none", "waiting_approval", "rejected"}
    BY DEF EffectsAreAuthorised
  <2>1. attemptCount[a] > 0
    BY ThreadTyped DEF IInv, RunsInv, RunInv, OpenInv, Run, TypeOK
  <2> QED BY <2>1 DEF IInv, OpenInv, Opened, CanApprove
<1> QED BY <1>1, Inductive, PTL

\* A completed action has its effect, and the CRM has one row of it at most.
THEOREM CompletionBacked == Spec => []CompletedIsBacked
<1>1. IInv => CompletedIsBacked
  <2> SUFFICES ASSUME IInv, NEW a \in Action
               PROVE  /\ requests[a] <= 1
                      /\ status[a] = "completed" => requests[a] = 1 \/ Executed(a) # {}
    BY DEF CompletedIsBacked
  <2>1. 1 \in Run
    BY ConstantsAssumption DEF Run
  <2>2. RecordInvAt(a, 1)
    BY <2>1 DEF IInv, RecordInv
  <2>3. ASSUME NEW n \in Run, NEW t \in Try, posts[a][n][t] = "executed"
        PROVE  Executed(a) # {}
    <3>1. <<n, t>> \in Executed(a)
      BY <2>3 DEF Executed
    <3> QED BY <3>1
  <2> QED BY <2>2, <2>3 DEF RecordInvAt, Backed
<1> QED BY <1>1, Inductive, PTL

\* While n8n never reports a failure, the claim keeps everybody else out.
THEOREM ExecutorIsSole ==
  ASSUME ~ReportsFailure
  PROVE  Spec => []SoleExecutor
<1>1. Init => NoRefusal /\ SoleExecutor
  BY DEF Init, NoRefusal, SoleExecutor, Live, Off
<1>2. TypeOK /\ NoRefusal /\ SoleExecutor /\ [Next]_vars => (NoRefusal /\ SoleExecutor)'
  BY RefusalStep, SoleExecutorStep
<1> QED BY <1>1, <1>2, TypeCorrect, PTL DEF Spec

\* No step changes the status of a completed or rejected action.
THEOREM SettledForGood == Spec => SettledIsFinal
<1>1. TypeOK /\ [Next]_vars =>
        [\A a \in Action :
           status[a] \in {"completed", "rejected"} => status'[a] = status[a]]_vars
  BY SettledStep
<1> QED BY <1>1, TypeCorrect, PTL DEF Spec, SettledIsFinal

\* After a timeout only a callback moves the job, and nothing more is posted.
THEOREM UnknownStaysPut ==
  ASSUME ~ReportsFailure
  PROVE  Spec => UnknownIsNotRedispatched
<1>1. TypeOK /\ SoleExecutor /\ [Next]_vars =>
        [\A a \in Action :
           status[a] = "delivery_unknown" =>
             /\ status'[a] \in {"delivery_unknown", "completed", "failed"}
             /\ \A n \in Run, t \in Try :
                  posts'[a][n][t] = "sent" => posts[a][n][t] = "sent"]_vars
  BY UnknownStep
<1> QED BY <1>1, TypeCorrect, ExecutorIsSole, PTL DEF Spec, UnknownIsNotRedispatched

\* The audit trail of every action tells a legal story that ends in its status.
THEOREM TrailIsLegal == Spec => []AuditTrail
<1>1. Init => AuditTrail
  BY DEF Init, AuditTrail
<1>2. TypeOK /\ AuditTrail /\ [Next]_vars => AuditTrail'
  BY AuditStep
<1> QED BY <1>1, <1>2, TypeCorrect, PTL DEF Spec

\* Where the recovery's list covers the table and no claim raises, every approved
\* action has a task in some worker, or a worker that is down and will schedule one.
THEOREM ApprovalIsScheduled ==
  ASSUME MaxFaults = 0, IsFiniteSet(Action), Cardinality(Action) <= RecoveryLimit
  PROVE  Spec => []ApprovedIsScheduled
<1>1. Init => CreatedInv /\ ApprovedIsScheduled
  BY DEF Init, CreatedInv, ApprovedIsScheduled
<1>2. TypeOK /\ CreatedInv /\ ApprovedIsScheduled /\ [Next]_vars
        => (CreatedInv /\ ApprovedIsScheduled)'
  BY CreatedStep, ScheduledStep
<1> QED BY <1>1, <1>2, TypeCorrect, PTL DEF Spec

\* Driving the demo CRM, every behaviour of the gateway is one of the life cycle.
THEOREM GatewayImplementsLifecycle ==
  ASSUME Mode = "mock"
  PROVE  Spec => ImplementsLifecycle
<1>1. Init => MockInv
  BY DEF Init, MockInv, MockInvAt, Off
<1>2. TypeOK /\ MockInv /\ [Next]_vars => MockInv'
  BY MockStep
<1>3. Init => Lifecycle!LifecycleInit
  BY DEF Init, Lifecycle!LifecycleInit, PhaseOf, Nobody, Lifecycle!Nobody
<1>4. IInv /\ MockInv /\ [Next]_vars => [Lifecycle!LifecycleNext]_(Lifecycle!lifecycleVars)
  BY LifecycleStep DEF IInv
<1>5. IInv => TypeOK
  BY DEF IInv
<1> QED BY <1>1, <1>2, <1>3, <1>4, <1>5, Inductive, PTL
        DEF Spec, ImplementsLifecycle, Lifecycle!LifecycleSpec
=============================================================================
