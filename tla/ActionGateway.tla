---------------------------- MODULE ActionGateway ----------------------------
(***************************************************************************)
(* The Action Gateway of AutoSfera: the only place where a conversation    *)
(* may cause a business side effect.                                       *)
(*                                                                         *)
(* The durable part is the table action_jobs with its audit table          *)
(* action_events; every store method is one transaction, so it is one step *)
(* here.  The volatile part are the API workers: tasks scheduled with      *)
(* BackgroundTasks or by the start-up recovery, and the threads that run   *)
(* execute_action.  A crash of a worker loses all of its volatile part.    *)
(* The n8n side is external: it may execute, refuse or lose what it gets,  *)
(* and its callbacks may come late, more than once or never.               *)
(*                                                                         *)
(* An action stands for a dealer and an idempotency key; kind, payload and *)
(* trace_id never change once the row exists.                              *)
(***************************************************************************)
EXTENDS Integers, Sequences, FiniteSets

CONSTANTS
  Action,            \* logical actions: (dealer_id, idempotency_key) pairs
  Worker,            \* API worker processes
  KindOf,            \* KindOf[a]: the kind of action a
  Mode,              \* ACTION_GATEWAY_MODE
  ActionMaxAttempts, \* ACTION_MAX_ATTEMPTS as configured
  ReportsFailure,    \* may n8n send a callback with status "failed"?
  RecoveryLimit,     \* rows the start-up recovery reads (500 in the code)
  MaxRuns,           \* bound: claims of one action (attempt_count)
  MaxCrashes,        \* bound: crashes of workers
  MaxFaults          \* bound: store calls that raise inside execute_action

Kind == {"lead", "test_drive", "service"}
\* ROLES without "guest", whom no handler of actions admits.
Role == {"admin", "sales", "service", "employee"}

ASSUME ConstantsAssumption ==
  /\ KindOf \in [Action -> Kind]
  /\ Mode \in {"mock", "n8n", "unsupported"}
  /\ ActionMaxAttempts \in Int
  /\ ReportsFailure \in BOOLEAN
  /\ RecoveryLimit \in Nat
  /\ MaxRuns \in Nat \ {0} /\ MaxCrashes \in Nat /\ MaxFaults \in Nat

\* APPROVER_ROLES
ApproverRoles ==
  [lead       |-> {"admin", "sales"},
   test_drive |-> {"admin", "sales"},
   service    |-> {"admin", "service"}]

\* Only the role list of the endpoint is left.
CanApprove_M(kind, role) == role \in {"admin", "sales", "service"}

CanApprove(kind, role) == role \in ApproverRoles[kind]

\* How often _dispatch_n8n tries to POST: max(1, min(action_max_attempts, 5)).
Attempts ==
  IF ActionMaxAttempts < 1 THEN 1
  ELSE IF ActionMaxAttempts > 5 THEN 5 ELSE ActionMaxAttempts

Run == 1..MaxRuns
Try == 1..5

VARIABLES
  status,        \* action_jobs.status, "none" while there is no row
  attemptCount,  \* action_jobs.attempt_count
  approvedBy,    \* the role behind action_jobs.approved_by
  events,        \* the action_events rows of the action, oldest first
  created,       \* the rows of action_jobs in the order of created_at
  requests,      \* CRM rows with source_ref "action:<id>"
  up,            \* the workers that are running
  queued,        \* queued[w][a]: tasks of worker w that will run execute_action
  exec,          \* exec[a][n]: the thread that made the n-th claim of a
  posts,         \* posts[a][n][t]: what n8n did with the t-th POST of run n
  crashes,       \* crashes so far (bounds the model only)
  faults         \* store calls that raised so far (bounds the model only)

jobVars   == <<status, attemptCount, approvedBy, events, created>>
taskVars  == <<up, queued, exec>>
boundVars == <<crashes, faults>>
vars == <<jobVars, requests, taskVars, posts, boundVars>>

Nobody == "nobody"
Status == {"none", "waiting_approval", "approved", "rejected", "running",
           "completed", "failed", "delivery_unknown"}
Event == {"proposed", "approved", "rejected", "dispatch_started",
          "completed", "failed", "delivery_unknown", "retry_requested"}

\* Where a thread is: about to call the CRM or to POST ("ready"), with the CRM
\* row made ("created"), with a POST on the wire ("waiting"), about to record a
\* failure ("failing"), or gone ("off").
Pc == {"off", "ready", "created", "waiting", "failing"}
Thread == [pc : Pc, on : Worker \cup {Nobody}, try : Try]
Off == [pc |-> "off", on |-> Nobody, try |-> 1]

PostState == {"none", "sent", "executed", "refused"}

TypeOK ==
  /\ status \in [Action -> Status]
  /\ attemptCount \in [Action -> 0..MaxRuns]
  /\ approvedBy \in [Action -> Role \cup {Nobody}]
  /\ events \in [Action -> Seq(Event)]
  /\ created \in Seq(Action)
  /\ requests \in [Action -> Nat]
  /\ up \subseteq Worker
  /\ queued \in [Worker -> [Action -> Nat]]
  /\ exec \in [Action -> [Run -> Thread]]
  /\ posts \in [Action -> [Run -> [Try -> PostState]]]
  /\ crashes \in 0..MaxCrashes
  /\ faults \in 0..MaxFaults

Init ==
  /\ status = [a \in Action |-> "none"]
  /\ attemptCount = [a \in Action |-> 0]
  /\ approvedBy = [a \in Action |-> Nobody]
  /\ events = [a \in Action |-> <<>>]
  /\ created = <<>>
  /\ requests = [a \in Action |-> 0]
  /\ up = Worker
  /\ queued = [w \in Worker |-> [a \in Action |-> 0]]
  /\ exec = [a \in Action |-> [n \in Run |-> Off]]
  /\ posts = [a \in Action |-> [n \in Run |-> [t \in Try |-> "none"]]]
  /\ crashes = 0
  /\ faults = 0

------------------------------------------------------------------------------
\* The store: one conditional UPDATE with its audit row, in one transaction.

AddActionEvent(a, e) == events' = [events EXCEPT ![a] = Append(@, e)]

MoveTo(a, s, e) ==
  /\ status' = [status EXCEPT ![a] = s]
  /\ AddActionEvent(a, e)

\* Seeded faults (names ending in _M) are what a plausible slip would make of the
\* definition that follows them; no behaviour of the specification uses them.
CanFinish_M(a, s) == status[a] # "none"

\* The WHERE clause of finish_action_job.
CanFinish(a, s) ==
  \/ status[a] = "running"
  \/ s \in {"completed", "failed"} /\ status[a] = "delivery_unknown"

FinishActionJob(a, s) ==
  /\ IF CanFinish(a, s) THEN MoveTo(a, s, s) ELSE UNCHANGED <<status, events>>
  /\ UNCHANGED <<attemptCount, approvedBy, created>>

\* A plain INSERT.
CreateRequest_M(a) == requests' = [requests EXCEPT ![a] = @ + 1]

\* INSERT INTO requests ... ON CONFLICT (dealer_id, source_ref) DO NOTHING
CreateRequest(a) ==
  requests' = [requests EXCEPT ![a] = IF @ = 0 THEN 1 ELSE @]

------------------------------------------------------------------------------
\* HTTP handlers

\* chat proposes an action; a repeated proposal finds the row and changes nothing.
Propose(a) ==
  /\ up # {}
  /\ status[a] = "none"
  /\ MoveTo(a, "waiting_approval", "proposed")
  /\ created' = Append(created, a)
  /\ UNCHANGED <<attemptCount, approvedBy, requests, taskVars, posts, boundVars>>

Schedule(w, a) == queued' = [queued EXCEPT ![w][a] = @ + 1]

\* review_action with decision "approve": the task exists only in the worker
\* that answered, so a crash before it is scheduled is a crash right after.
Approve(w, a, role) ==
  /\ w \in up
  /\ status[a] = "waiting_approval"
  /\ CanApprove(KindOf[a], role)
  /\ MoveTo(a, "approved", "approved")
  /\ approvedBy' = [approvedBy EXCEPT ![a] = role]
  /\ Schedule(w, a)
  /\ UNCHANGED <<attemptCount, created, requests, up, exec, posts, boundVars>>

Reject(w, a, role) ==
  /\ w \in up
  /\ status[a] = "waiting_approval"
  /\ CanApprove(KindOf[a], role)
  /\ MoveTo(a, "rejected", "rejected")
  /\ UNCHANGED <<attemptCount, approvedBy, created, requests, taskVars, posts, boundVars>>

\* An operator may retry whatever did not complete / whatever has ended.
Retryable_M(a) == status[a] \in {"failed", "delivery_unknown"}
RetryableEnded_M(a) == status[a] \in {"failed", "completed"}

Retryable(a) == status[a] = "failed"

\* retry_action; MaxRuns bounds the model, the code has no limit.
Retry(w, a, role) ==
  /\ w \in up
  /\ Retryable(a)
  /\ CanApprove(KindOf[a], role)
  /\ attemptCount[a] < MaxRuns
  /\ MoveTo(a, "approved", "retry_requested")
  /\ Schedule(w, a)
  /\ UNCHANGED <<attemptCount, approvedBy, created, requests, up, exec, posts, boundVars>>

\* The status field is not looked at / not validated.
CallbackStatus_M(answer) == "completed"
CallbackStatusRaw_M(answer) == answer

CallbackStatus(answer) == IF answer = "executed" THEN "completed" ELSE "failed"

\* action_callback.  The handler first reads the job and answers "not accepted"
\* or 409 unless it is running or delivery_unknown; the UPDATE tests the same
\* again, so the step is taken where the UPDATE is.  trace_id names the action
\* and not the attempt: a callback of any POST of any run settles the job.
ActionCallback(a, n, t) ==
  /\ up # {}
  /\ posts[a][n][t] \in {"executed", "refused"}
  /\ LET s == CallbackStatus(posts[a][n][t])
     IN  CanFinish(a, s) /\ FinishActionJob(a, s)
  /\ UNCHANGED <<requests, taskVars, posts, boundVars>>

------------------------------------------------------------------------------
\* execute_action: a scheduled task becomes a thread by claiming the job.

Unschedule(w, a) == queued' = [queued EXCEPT ![w][a] = @ - 1]

\* A restarted worker takes up what it finds running.
Claimable_M(a) == status[a] \in {"approved", "running"}

Claimable(a) == status[a] = "approved"

\* The guard on attemptCount only bounds the model; Retry keeps it from blocking.
Claim(w, a) ==
  /\ w \in up
  /\ queued[w][a] > 0
  /\ Unschedule(w, a)
  /\ Claimable(a)
  /\ attemptCount[a] < MaxRuns
  /\ MoveTo(a, "running", "dispatch_started")
  /\ attemptCount' = [attemptCount EXCEPT ![a] = @ + 1]
  /\ exec' = [exec EXCEPT ![a][attemptCount[a] + 1] =
                [pc |-> IF Mode = "unsupported" THEN "failing" ELSE "ready",
                 on |-> w, try |-> 1]]
  /\ UNCHANGED <<approvedBy, created, requests, up, posts, boundVars>>

\* Somebody else claimed it first: the task reads the job and ends.
ClaimSkipped(w, a) ==
  /\ w \in up
  /\ queued[w][a] > 0
  /\ ~Claimable(a)
  /\ Unschedule(w, a)
  /\ UNCHANGED <<jobVars, requests, up, exec, posts, boundVars>>

\* claim_action_job raises: nothing was committed and the task is gone.
ClaimRaises(w, a) ==
  /\ w \in up
  /\ queued[w][a] > 0
  /\ faults < MaxFaults
  /\ faults' = faults + 1
  /\ Unschedule(w, a)
  /\ UNCHANGED <<jobVars, requests, up, exec, posts, crashes>>

At(a, n, pc, try) ==
  exec' = [exec EXCEPT ![a][n] = [pc |-> pc, on |-> exec[a][n].on, try |-> try]]
Goto(a, n, pc) == At(a, n, pc, exec[a][n].try)
Ends(a, n) == exec' = [exec EXCEPT ![a][n] = Off]

\* _execute_demo_crm
DemoCreate(a, n) ==
  /\ Mode = "mock"
  /\ exec[a][n].pc = "ready"
  /\ CreateRequest(a)
  /\ Goto(a, n, "created")
  /\ UNCHANGED <<jobVars, up, queued, posts, boundVars>>

\* The exception is logged and the job finished all the same.
DemoCreateRaises_M(a, n) ==
  /\ Mode = "mock"
  /\ exec[a][n].pc = "ready"
  /\ faults < MaxFaults
  /\ faults' = faults + 1
  /\ CreateRequest(a) \/ UNCHANGED requests
  /\ Goto(a, n, "created")
  /\ UNCHANGED <<jobVars, up, queued, posts, crashes>>

\* create_request raises; a commit whose answer was lost raises too.
DemoCreateRaises(a, n) ==
  /\ Mode = "mock"
  /\ exec[a][n].pc = "ready"
  /\ faults < MaxFaults
  /\ faults' = faults + 1
  /\ CreateRequest(a) \/ UNCHANGED requests
  /\ Goto(a, n, "failing")
  /\ UNCHANGED <<jobVars, up, queued, posts, crashes>>

DemoComplete(a, n) ==
  /\ exec[a][n].pc = "created"
  /\ FinishActionJob(a, "completed")
  /\ Ends(a, n)
  /\ UNCHANGED <<requests, up, queued, posts, boundVars>>

\* finish_action_job raises inside the try block: the CRM row is there, and the
\* handler of the exception goes on to record a failure.
DemoCompleteRaises(a, n) ==
  /\ exec[a][n].pc = "created"
  /\ faults < MaxFaults
  /\ faults' = faults + 1
  /\ Goto(a, n, "failing")
  /\ UNCHANGED <<jobVars, requests, up, queued, posts, crashes>>

Fail(a, n) ==
  /\ exec[a][n].pc = "failing"
  /\ FinishActionJob(a, "failed")
  /\ Ends(a, n)
  /\ UNCHANGED <<requests, up, queued, posts, boundVars>>

\* The store raises where nothing catches it, in _fail or while a timeout is
\* recorded: the thread dies and the job keeps its status.
ThreadDies(a, n) ==
  /\ exec[a][n].pc \in {"failing", "waiting"}
  /\ faults < MaxFaults
  /\ faults' = faults + 1
  /\ Ends(a, n)
  /\ UNCHANGED <<jobVars, requests, up, queued, posts, crashes>>

\* _dispatch_n8n: one POST of the envelope built when the run began.  The status
\* of the job is not read again between the tries.
Post(a, n) ==
  /\ Mode = "n8n"
  /\ exec[a][n].pc = "ready"
  /\ posts' = [posts EXCEPT ![a][n][exec[a][n].try] = "sent"]
  /\ Goto(a, n, "waiting")
  /\ UNCHANGED <<jobVars, requests, up, queued, boundVars>>

\* A 2xx answer leaves the job running until a callback settles it.
PostAccepted(a, n) ==
  /\ exec[a][n].pc = "waiting"
  /\ posts[a][n][exec[a][n].try] \in {"executed", "refused"}
  /\ Ends(a, n)
  /\ UNCHANGED <<jobVars, requests, up, queued, posts, boundVars>>

PostTimesOut(a, n) ==
  /\ exec[a][n].pc = "waiting"
  /\ FinishActionJob(a, "delivery_unknown")
  /\ Ends(a, n)
  /\ UNCHANGED <<requests, up, queued, posts, boundVars>>

\* Any other exception of the try block: connection errors and non-2xx answers,
\* which say nothing of what n8n did, and the read of the job after a 2xx answer.
PostRaises(a, n) ==
  /\ exec[a][n].pc = "waiting"
  /\ IF exec[a][n].try < Attempts THEN At(a, n, "ready", exec[a][n].try + 1)
                                   ELSE Goto(a, n, "failing")
  /\ UNCHANGED <<jobVars, requests, up, queued, posts, boundVars>>

------------------------------------------------------------------------------
\* n8n, external: WF-00 checks the envelope and runs the adapter; it keeps no
\* record of nonces or idempotency keys, so every POST that reaches it counts.

N8nExecutes(a, n, t) ==
  /\ posts[a][n][t] = "sent"
  /\ posts' = [posts EXCEPT ![a][n][t] = "executed"]
  /\ UNCHANGED <<jobVars, requests, taskVars, boundVars>>

N8nRefuses(a, n, t) ==
  /\ ReportsFailure
  /\ posts[a][n][t] = "sent"
  /\ posts' = [posts EXCEPT ![a][n][t] = "refused"]
  /\ UNCHANGED <<jobVars, requests, taskVars, boundVars>>

------------------------------------------------------------------------------
\* Worker processes

Crash(w) ==
  /\ w \in up
  /\ crashes < MaxCrashes
  /\ crashes' = crashes + 1
  /\ up' = up \ {w}
  /\ queued' = [queued EXCEPT ![w] = [a \in Action |-> 0]]
  /\ exec' = [a \in Action |->
                [n \in Run |-> IF exec[a][n].on = w THEN Off ELSE exec[a][n]]]
  /\ UNCHANGED <<jobVars, requests, posts, faults>>

\* list_action_jobs: ORDER BY created_at DESC LIMIT k
Newest(k) == {created[i] : i \in {j \in DOMAIN created : j > Len(created) - k}}

\* Only jobs that were never tried / nothing is taken up again.
Recovered_M(a) == status[a] = "approved" /\ attemptCount[a] = 0
RecoveredNone_M(a) == status[a] = "running"

Recovered(a) == status[a] = "approved" /\ a \in Newest(RecoveryLimit)

\* lifespan: the approved jobs among the newest RecoveryLimit are scheduled.
Startup(w) ==
  /\ w \notin up
  /\ up' = up \cup {w}
  /\ queued' = [queued EXCEPT ![w] =
                             [a \in Action |-> IF Recovered(a) THEN 1 ELSE 0]]
  /\ UNCHANGED <<jobVars, requests, exec, posts, boundVars>>

------------------------------------------------------------------------------
Handle(a) ==
  \/ Propose(a)
  \/ \E w \in Worker, role \in Role : Approve(w, a, role) \/ Reject(w, a, role) \/ Retry(w, a, role)
  \/ \E n \in Run, t \in Try : ActionCallback(a, n, t)

Take(w, a) == Claim(w, a) \/ ClaimSkipped(w, a)

Work(a, n) ==
  \/ DemoCreate(a, n) \/ DemoComplete(a, n) \/ Fail(a, n)
  \/ Post(a, n) \/ PostAccepted(a, n) \/ PostTimesOut(a, n) \/ PostRaises(a, n)

Raise(a, n) == DemoCreateRaises(a, n) \/ DemoCompleteRaises(a, n) \/ ThreadDies(a, n)

N8n(a, n, t) == N8nExecutes(a, n, t) \/ N8nRefuses(a, n, t)

Next ==
  \/ \E a \in Action : Handle(a)
  \/ \E w \in Worker, a \in Action : Take(w, a) \/ ClaimRaises(w, a)
  \/ \E a \in Action, n \in Run : Work(a, n) \/ Raise(a, n)
  \/ \E a \in Action, n \in Run, t \in Try : N8n(a, n, t)
  \/ \E w \in Worker : Crash(w) \/ Startup(w)

Spec == Init /\ [][Next]_vars

\* Scheduled tasks get a thread, threads run on, stopped workers are started
\* again.  People, n8n and failures are under no obligation.
Fairness ==
  /\ \A w \in Worker, a \in Action : WF_vars(Take(w, a))
  /\ \A a \in Action, n \in Run : WF_vars(Work(a, n))
  /\ \A w \in Worker : WF_vars(Startup(w))

FairSpec == Spec /\ Fairness

------------------------------------------------------------------------------
(* Properties *)

Live(a) == {n \in Run : exec[a][n].pc # "off"}
Executed(a) == {p \in Run \X Try : posts[a][p[1]][p[2]] = "executed"}

\* The rows action_events may hold one after the other.
MayFollow(e) ==
  CASE e = "proposed"         -> {"approved", "rejected"}
    [] e = "approved"         -> {"dispatch_started"}
    [] e = "retry_requested"  -> {"dispatch_started"}
    [] e = "dispatch_started" -> {"completed", "failed", "delivery_unknown"}
    [] e = "delivery_unknown" -> {"completed", "failed"}
    [] e = "failed"           -> {"retry_requested"}
    [] OTHER                  -> {}

StatusAfter(e) ==
  CASE e = "proposed"         -> "waiting_approval"
    [] e = "retry_requested"  -> "approved"
    [] e = "dispatch_started" -> "running"
    [] OTHER                  -> e

\* The audit trail of every action tells a legal story that ends in the status
\* the row has: in particular each dispatch directly follows an approval or a
\* retry somebody asked for, whichever workers crashed or raced for the claim,
\* so a restart never repeats an approved action.
AuditTrail ==
  \A a \in Action :
    /\ (events[a] = <<>>) = (status[a] = "none")
    /\ events[a] # <<>> =>
         /\ events[a][1] = "proposed"
         /\ StatusAfter(events[a][Len(events[a])]) = status[a]
    /\ \A i \in 1..(Len(events[a]) - 1) : events[a][i+1] \in MayFollow(events[a][i])

\* Nothing reaches the CRM or n8n for an action unless somebody whose role may
\* approve its kind approved it; rejected and waiting actions leave no effect.
EffectsAreAuthorised ==
  \A a \in Action :
    requests[a] > 0 \/ (\E n \in Run, t \in Try : posts[a][n][t] # "none") =>
      /\ approvedBy[a] \in ApproverRoles[KindOf[a]]
      /\ status[a] \notin {"none", "waiting_approval", "rejected"}

\* At most one thread works on an action, for the newest claim, and its job can
\* neither fail nor be claimed again behind its back.  This is what the claim by
\* compare-and-update is for; it needs n8n never to report a failure.
SoleExecutor ==
  \A a \in Action : \A n \in Live(a) :
    n = attemptCount[a] /\ status[a] \in {"running", "completed"}

\* An action is reported completed only when its effect took place, and the CRM
\* never gets a second row for it, however often it failed and was retried.
CompletedIsBacked ==
  \A a \in Action :
    /\ requests[a] <= 1
    /\ status[a] = "completed" => requests[a] = 1 \/ Executed(a) # {}

\* A late finish, callback, task or retry never reopens a settled action.
SettledIsFinal ==
  [][\A a \in Action :
       status[a] \in {"completed", "rejected"} => status'[a] = status[a]]_vars

\* After a timeout nobody knows whether n8n acted: until a callback settles the
\* job nothing is posted for it and it is not dispatched again.
UnknownIsNotRedispatched ==
  [][\A a \in Action :
       status[a] = "delivery_unknown" =>
         /\ status'[a] \in {"delivery_unknown", "completed", "failed"}
         /\ \A n \in Run, t \in Try :
              posts'[a][n][t] = "sent" => posts[a][n][t] = "sent"]_vars

\* While every worker runs, an approved action has a task that will claim it;
\* otherwise the next start-up schedules one.
ApprovedIsScheduled ==
  \A a \in Action :
    status[a] = "approved" => \E w \in Worker : w \notin up \/ queued[w][a] > 0

\* One logical request has at most one result: n8n acts once on an action.
AtMostOneEffect == \A a \in Action : Cardinality(Executed(a)) <= 1

\* Every approved action is dispatched, across crashes and restarts.
ApprovedIsDispatched ==
  \A a \in Action : status[a] = "approved" ~> status[a] # "approved"

\* Every approved action reaches a final status or an answer somebody can act on.
ApprovedIsAnswered ==
  \A a \in Action : status[a] = "approved" ~> status[a] \in {"completed", "failed"}

PhaseOf(s) ==
  CASE s = "none"             -> "absent"
    [] s = "waiting_approval" -> "proposed"
    [] s = "rejected"         -> "refused"
    [] s = "completed"        -> "closed"
    [] OTHER                  -> "open"

\* Driving the demo CRM, the gateway implements the life cycle it promises.
Lifecycle == INSTANCE ActionLifecycle WITH
  MayOpen  <- [a \in Action |-> ApproverRoles[KindOf[a]]],
  phase    <- [a \in Action |-> PhaseOf(status[a])],
  opener   <- approvedBy,
  recorded <- {a \in Action : requests[a] > 0}

\* One record at most, only while the action is open, and closed only with it.
ImplementsLifecycle == Lifecycle!LifecycleSpec
=============================================================================
