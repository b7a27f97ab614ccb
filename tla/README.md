# AutoSfera AI: a TLA+ verification project

AutoSfera AI is a FastAPI service for a car dealer: a chat answered by several
agents over a knowledge base, business actions that people approve, and
competitor research that n8n carries out. This directory holds TLA+ models of
the parts of it that are hard to test, TLC configurations that check them on
small instances, and proofs checked by TLAPS. Paths below are relative to the
root of the repository; `src/autosfera` is the Python package.

Contents: [inventory](#the-system) · [modules](#the-modules) ·
[runs](#what-the-runs-check) · [proofs](#what-is-proved) ·
[limits](#limits-and-known-divergences) · [plan](#plan)

## The system

One API process (the image starts one uvicorn; the documentation also speaks of
several API workers on one database) serves HTTP handlers. Synchronous handlers
and background tasks run in a thread pool, asynchronous ones (the two callbacks)
on the event loop. The durable state is a SQLite or PostgreSQL database and the
JSON files of the knowledge base; everything else is lost in a crash.

| Component | Code | State | Operations |
|---|---|---|---|
| Action Gateway | `action_gateway.py`, `api/main.py` 304-398, 480-597 | threads and background tasks | propose (chat), approve, reject, retry, callback, execute (demo CRM or n8n), recovery at start-up |
| Action store | `storage/__init__.py`, `storage/postgres.py` | `action_jobs`, `action_events`, `requests` | one transaction per operation, each a conditional UPDATE with an audit row |
| Research | `research.py`, `api/main.py` 609-714 | `research_jobs`, dispatch tasks | create, dispatch, callback, approve / edit / reject |
| Knowledge base | `knowledge/__init__.py` | files, `_documents` in memory | `reload`, `publish_approved`, access by section |
| Retrieval | `rag/__init__.py` | TF-IDF index, `knowledge_chunks` (pgvector) | index, chunk, retrieve, sync |
| Orchestrator, sessions | `orchestrator/__init__.py` | `sessions` dictionary, `sessions` table | a turn as a graph: classify, route, guard, execute, persist; reset |
| Agents and skills | `agents/__init__.py`, `skills/__init__.py` | none | choose a skill, collect fields, compose a grounded reply |
| Model router | `model_router.py` | none | a pure decision per message |
| Authentication | `auth.py` | none | tokens, HMAC signatures, roles |
| CRM rows, feedback, analytics | `storage`, `api/main.py` 406-478 | `requests`, `feedback` | single-row reads and writes |
| n8n | `integrations/n8n` | external | executes actions and research, sends signed callbacks |
| Front end, migrations, scripts, evaluation, readiness, logging, configuration | | | no protocol of their own |

How they interact: a chat turn may *propose* an action (a row in
`waiting_approval`); a person's approval moves the row and schedules
`execute_action`, whose claim by compare-and-update decides who dispatches; the
demo CRM is written in the same process, n8n answers by a callback that finishes
the row. A research job goes the same way to n8n, but its row is updated
unconditionally; its approval writes a file into the knowledge base, which the
process reloads into the memory the agents answer from.

Hard behaviours: several workers and tasks meet on one row; a POST may time out
after n8n acted; callbacks come late, twice, or for an attempt that was given up;
a process dies between any two steps; the handlers of the research job read a
row, work for a while and write it; files, rows and memory are updated one after
the other. `PROJECT.json` lists each at its line under `hazards`.

What makes each component correct:

- *Action Gateway*: no effect without an approval by an entitled role; one
  executor and one CRM row per action; completed only with an effect; settled
  actions stay settled; an unknown delivery is not repeated; the audit trail
  explains the status; every approved action is dispatched and answered.
- *Research and publication*: the row names a file that exists; versions are
  numbered without gaps, whole and never overwritten; only answered jobs are
  published; what is approved is in memory; a draft under review stays there.
- *Sessions*: a turn that is answered is in the row, in its place; the row is a log
  of whole exchanges; a reset is final.
- *Router, guard, agents*: staff documents and the staff agent answer staff only;
  risky topics go to people; an explicit topic gets its agent; every citation is
  of a document the agent may read.
- *Field collection*: a proposal is made of what this customer said, a lead only if
  it was asked for, and while the contacts in the messages are set apart, the
  proposals of a dialogue name one customer.
- *Retrieval*: what could be retrieved stays retrievable; chunking covers the
  document and ends.

## The modules

| Module | What it is |
|---|---|
| `ActionLifecycle` | abstract: one action is proposed, refused or opened, recorded once, closed |
| `ActionGateway` | the gateway, its store, its workers and n8n; properties; refinement of `ActionLifecycle` |
| `ActionGatewayProofs` | theorems about `ActionGateway` |
| `ResearchJobs` | research jobs, their callbacks and reviews, publication and reload |
| `KnowledgeIndex` | `ResearchJobs` with the indexes of the two retrievers and the indexing script |
| `Chunking`, `ChunkingProofs` | how a document is cut for the vector index, and theorems about it |
| `SessionLog` | abstract: a session's row is a log of exchanges that resets start afresh |
| `Messages` | what a chat message is to the program |
| `ModelRouter` | the deterministic gate: people, clarification, agent |
| `Knowledge` | which documents an agent may be given |
| `Skills` | the eighteen skills: selection, citations, fields, escalation |
| `Agents` | retrieval, refusal, skill, and the validation of a model's output |
| `Orchestrator` | one session: turns, resets, cache, row, crashes; properties; refinement of `SessionLog` |
| `ResearchJobsProofs`, `KnowledgeIndexProofs` | theorems about `ResearchJobs` and `KnowledgeIndex` |
| `AgentsProofs` | lemmas: what a selected skill, a reply and its citations are made of |
| `OrchestratorProofs` | theorems about a session and any number of concurrent requests: types, order, durability, resets |
| `ReplyProofs` | theorems about replies: who answers, and from which documents |
| `DialogueProofs` | theorems about one request at a time: the row is the log, what is proposed |
| `MCActionGateway`, `MCResearchJobs`, `MCKnowledgeIndex`, `MCOrchestrator` | small instances for TLC |

`Orchestrator` EXTENDS `Agents` EXTENDS `Skills` EXTENDS `ModelRouter`, `Knowledge`
and `Messages`; it ends where `ActionGateway` begins, at the row that `Propose`
makes.

Definitions ending in `_M` are seeded faults: each is what a plausible slip would
make of the definition that follows it. No behaviour of a specification uses
them; putting one in the place of its original must break the property named
beside it in `PROJECT.json` (`mutants`).

### ActionGateway

An element of `Action` is a logical action: a dealer and an idempotency key. Its
kind, payload and `trace_id` never change once the row exists, so only `KindOf`
is modelled.

| Variable | In the code |
|---|---|
| `status`, `attemptCount`, `approvedBy` | columns of `action_jobs` (`approvedBy` keeps the approver's role) |
| `events` | rows of `action_events`, in the order of their commits |
| `created` | the rows of `action_jobs` in the order of `created_at` |
| `requests` | number of CRM rows with `source_ref = action:<id>` |
| `up`, `queued` | running workers and the background tasks they hold |
| `exec[a][n]` | the thread that made the n-th claim of `a`: where it is, its worker, its current try |
| `posts[a][n][t]` | what became of the t-th POST of that thread |
| `crashes`, `faults` | counters that only bound the model |

Each store method is a single transaction with a conditional UPDATE, hence one
step. Handlers that read the row before their UPDATE (`review_action`,
`retry_action`, `action_callback`) are one step at the UPDATE: it tests again
what the read decided, apart from the kind, which never changes. `Claim` is the start of `execute_action`;
`DemoCreate`/`DemoComplete` and `Post`/`PostAccepted`/`PostTimesOut`/`PostRaises`
are the two dispatchers, `Fail` is `_fail`; the `...Raises` actions and
`ThreadDies` are store calls that raise, with or without their commit. The
fault of a claim, of the CRM row, of its completion and of the recording of a
failure are all there; faults of the handlers are requests that did nothing.
`Crash` loses the worker's tasks and threads; `Startup` is the recovery of
`lifespan`. n8n executes, refuses (if `ReportsFailure`) or ignores each POST it
received, and sends its callback any number of times. `PostRaises` covers all
other exceptions, whatever n8n did with the POST. `Mode` is fixed for a
behaviour; a mode that is neither `mock` nor `n8n`, and an empty webhook URL, are
`"unsupported"`.

### ResearchJobs

| Variable | In the code |
|---|---|
| `status`, `result`, `published` | columns of `research_jobs` |
| `dispatch[j]` | the background task `dispatch_research_job` |
| `answers[j]` | the drafts n8n has made of the job |
| `callback` | `research_callback` between its read and its write (one at a time: it has no `await` there) |
| `review[r]` | a review handler: its step, and the row and version it works with |
| `files`, `drafts` | `approved/<job>.v<n>.json` and the temporary file beside it |
| `loaded`, `reading[k]` | `KnowledgeBase._documents`, and what a `GET /api/knowledge` has scanned |
| `configured` | whether the process was started with a webhook URL |

A review goes through `ReviewOpens` (the checks), `PickVersion`, `Truncate`,
`WriteDraft`, `Rename`, `Scan`, `Reload` and `Approve`, each a step that others may
interleave with; `RenameRaises`, `ScanRaises` and `NotLoaded` are its error paths.
Opening a file for writing empties it, two writers of one file leave a mixture if
the texts differ, and a renamed file is written under its new name: `Torn` stands
for any content that is not a whole document, `fd` for what an open file is called.
`DispatchEnds` writes `running` or `failed` whatever the status is by then.
`Restart` is a crash and a start. Store faults are not modelled here.

### KnowledgeIndex and Chunking

`indexed` is the set of documents with tokens in the TF-IDF index (`_doc_tokens`,
built with the retriever, hence by `Restart`) or with rows in `knowledge_chunks`
(`SyncWrites`, one transaction); `syncing` is what `scripts/index_knowledge.py` has
loaded. TF-IDF retrieves documents that are in memory and indexed, pgvector what
the table holds. `Chunking` is one step of the loop of `chunk_document` as
operators, the loop as a recursive function, and its reference definition.

### Messages, ModelRouter, Knowledge, Skills, Agents

The program matches keys in a text, and reads the contact off it with regular
expressions. A message here is the set of keys it contains, the body and the budget
it gives, and the tokens of its text: Cyrillic words, numbers with their width,
signs. A word of the set stands for all keys that no table of the program tells
apart, so `ModelRouter`, `Skills` and `Orchestrator` can be translated table by
table. A text is a sequence of messages. `_user_constraint_text` joins all the
questions of the dialogue and the message at hand with line breaks, which are white
space to the expressions, so `Phone`, `CustomerName` and `Vehicle` look for their
leftmost match in the tokens of all messages put together (`Joined`): a match may
begin in one message and end in the next, a number in each of two messages may make
a telephone, and a name that is introduced ("меня зовут") beats an earlier one that
is only mentioned ("Я Иван,"). An enriched question holds the program's own
"Уточнение пользователя:" (`Clarification`, `OwnWords`), which a name may run into,
too. A number without a unit is a budget only while it is the last thing said.

A retriever returns any permitted documents up to `rag_top_k`; the
quoted ones are any that no ranking rule (`RankOf`) forbids, so that scores need
not be known. A language model returns any citations and any target, and names any
agent when it routes; `Grounded` and `Call` are what the code lets through.

### Orchestrator

| Variable | In the code |
|---|---|
| `cached`, `object` | `self.sessions[sid]` and the `SessionState` objects, named after the request that made them |
| `row` | the session's row in `sessions` |
| `turn[n]` | the n-th `POST /api/chat`: its step, and the local state of the handler and of the graph |
| `reset[k]` | a `POST /api/reset` |
| `recorded`, `proposed` | turns with a row in `conversations`; action jobs proposed |
| `mode` | `orchestrator_mode` |
| `crashes`, `faults` | counters that only bound the model |

`solo`, `after` and `quiet` are observers, named as such. The steps of a turn are
those between which another thread can be seen: `Begin`, `Load`, `Install`, `Fetch`
(`get_or_create_session`), `Classify`, `Route`/`LegacyRoute`, `Follow`, `Call`,
`Admit`/`Deny`, `Enrich`, `Answer`, `AppendQuestion`, `AppendAnswer`/`Extend`,
`Snapshot`, `Write`, `Record`, `Propose`. `FailSafe` is the graph's exception
handler, `Fail` an error response. A history is a sequence of questions and answers
of turns; their text is the message of the turn.

## What the runs check

All bounds are constants of the modules: `MaxRuns` (claims of one action; the
code lets people retry without limit), `MaxCrashes`, `MaxFaults`, `MaxVersion`,
`MaxTurns`, `MaxResets`, `MaxConcurrent`. Deadlock is not checked: once every
action, job and turn is settled the system rests, and the bounds stop it too.

| Run | Instance | Checks |
|---|---|---|
| `gateway_mock` | 2 actions of kinds with different approvers, 2 workers, 2 claims each, 2 crashes, 1 fault, demo CRM | `AuditTrail`, `CompletedIsBacked`, `EffectsAreAuthorised`, `SettledIsFinal`, `ImplementsLifecycle` |
| `gateway_n8n` | 1 action, 2 workers, 3 claims, 2 tries per claim, 2 crashes, 1 fault, n8n without failure reports | `SoleExecutor`, `AuditTrail`, `UnknownIsNotRedispatched` |
| `gateway_n8n_failures` | 1 action, 2 workers, 2 claims, 2 tries, 1 crash, n8n with failure reports, fairness | `TypeOK`, `EffectsAreAuthorised`, `CompletedIsBacked`, `ApprovedIsScheduled`, `SettledIsFinal`, `ApprovedIsDispatched` |
| `research_concurrent` | 1 job, 2 reviews, 1 reader, 2 versions, 1 crash, webhook set or not | `TypeOK`, `ApprovedNamesItsFile`, `VersionsHaveNoGaps`, `PublishedIsDelivered` |
| `research_sequential` (`KnowledgeIndex`) | 1 job, 1 review, 3 versions, 2 crashes, webhook set or not, both retrievers, the indexing script, fairness; all texts of up to 7 characters for `Chunking` | `ApprovedIsLoaded`, `PublishedIsWhole`, `VersionsAreImmutable`, `QueuedIsDispatched`, `RetrievableIsKept` |
| `dialogue` | 2 turns and a reset one at a time, 9 messages, customers and staff, both modes, a language model, 7 documents, 1 crash, 1 fault | `TypeOK`, `CitationsAreGrounded`, `RiskGoesToPeople`, `ExplicitTopicIsServed`, `StaffAgentAnswersStaff`, `ProposalsAreGrounded`, `ContactsAgree`, `ImplementsLog` |
| `turns_concurrent` | 3 turns and a reset of one customer, two requests at a time, 1 crash, langgraph | `QuestionsPrecedeAnswers`, `SoloTurnsAreDurable`, `ResetIsFinal`, `StaffAgentAnswersStaff` |

Five runs show a statement of the repository's documentation, comments or tests
that the code does not keep (`findings` quotes them):

| Run | Property | What happens |
|---|---|---|
| `gateway_duplicate_effect` | `AtMostOneEffect` | a POST raises after n8n executed it; the retry loop posts again and n8n executes twice |
| `gateway_lost_run` | `ApprovedIsAnswered` | a worker dies after its claim; the row stays `running`, which neither recovery nor retry touches |
| `research_review_lost` | `ReviewStands` | the callback puts the job in `review`, then the answer to the POST puts it back to `running` or `failed`; with the workflow in the repository, which answers last, this is the usual order |
| `research_overwrite` | `VersionsAreImmutable` | two approvals count the same files and publish the same version |
| `turns_lost` | `AnsweredIsStored` | two turns of one session work on two objects, or write the whole history in another order: an answered turn is in no row |

Why the bounds are enough for the interesting cases: two workers and two claims
are needed for a race and for a late thread or callback of an earlier attempt;
two tries for the retry loop; a crash for every lost task, a second one for a
restart that meets another. Actions share nothing but the recovery's list, so two
of them show what one may do to the other, and one suffices elsewhere. For the
files, two versions show an interrupted publication followed by another one, and
two reviews of one job share every name they could collide on. For the index a
third version lets two publications be indexed apart; documents of one job and of
two jobs are told apart nowhere in the index.

For the session, two turns one after the other are what a dialogue needs: one that
leaves an agent, a history, a name or a phone behind and one that finds it, with a
reset or a crash between them. The nine messages of `MCOrchestrator` are one of
each kind the code treats differently and that a property speaks of (a lead whose
name ends the message and one whose contact is closed by marks, a second phone, a
short follow-up with a name that is only mentioned, a number that is no phone, a
booking in each department, a risky request, an internal question); each quotes a
real one. With them the lead that ends in a name is followed by messages its name
runs into, and the tidy one by itself, by another phone and by both bookings. Three
turns are needed in a race: one that ends, and two that meet on what it left, or one
that starts again from the row they wrote.

**Fairness** (`FairSpec`). Scheduled tasks get a thread (weak fairness of `Take`),
threads run on because every POST has a timeout (`Work`), and a stopped worker is
started again by its supervisor (`Startup`). In research: dispatch tasks, the
callback in progress and review handlers go on. People, n8n and failures are
under no obligation. `ApprovedIsDispatched` holds with a crash, since the crash
either loses a task that the next start-up schedules, or finds none. It is
checked without store faults: a claim that raises loses its task until the next
start. `QueuedIsDispatched` speaks of a process that does not crash again, as
nothing at start-up looks for research jobs. A turn waits for nobody, so it ends as
soon as its thread runs, and no fairness is assumed of it.

## What is proved

Every safety, action and refinement property that a passing run checks is also a
theorem, for every value of the constants that satisfies the modules' assumptions:
any actions, workers, jobs, reviews, messages, documents and models, and any bounds.
The assumptions say what the constants are (`ConstantsAssumption`,
`ResearchAssumption`, `BackendAssumption`, `OrchestratorAssumption`,
`KnowledgeAssumption`, `LlmAssumption`), that a draft is none of the model's own
contents, and that the documents the code names are filed where the repository
files them (`FilingAssumption`); TLC evaluates them in the runs. What a theorem
assumes beyond that is in the tables below. Each invariant has one lemma in which
every action of `Next` is a case; the theorems combine them.

### ActionGatewayProofs

| Theorem | Statement | Extra assumption |
|---|---|---|
| `TypeCorrect` | `Spec => []TypeOK` | |
| `EffectsAuthorised` | `Spec => []EffectsAreAuthorised` | |
| `CompletionBacked` | `Spec => []CompletedIsBacked` | |
| `TrailIsLegal` | `Spec => []AuditTrail` | |
| `SettledForGood` | `Spec => SettledIsFinal` | |
| `ExecutorIsSole` | `Spec => []SoleExecutor` | `~ReportsFailure` |
| `UnknownStaysPut` | `Spec => UnknownIsNotRedispatched` | `~ReportsFailure` |
| `ApprovalIsScheduled` | `Spec => []ApprovedIsScheduled` | `MaxFaults = 0`; as many actions at most as `RecoveryLimit` |
| `GatewayImplementsLifecycle` | `Spec => ImplementsLifecycle` | `Mode = "mock"` |

None of the state properties but the audit trail is inductive alone. The inductive
invariant is `IInv == TypeOK /\ RunsInv /\ OpenInv /\ RecordInv`:

- `RunsInv`: a run that was never claimed has no thread and no POST, and a thread
  has made no POST beyond its current try. So a new claim starts on a clean slate.
- `OpenInv`: a row past its approval names an entitled approver, a claimed row is
  past its approval, a CRM row belongs to a claimed one. With `RunsInv` every
  effect leads back to the approval.
- `RecordInv`: at most one CRM row, it exists before its thread may complete the
  job, and a completed row has a CRM row or an executed POST.

`SoleExecutor` needs that n8n never refuses (`NoRefusal`): then only a thread that
ends can make its own job fail, so a retry finds nobody at work. The refinement
needs `MockInv`, the form `SoleExecutor` takes with the demo CRM: a live thread
has the newest claim and its job is `running`, so the record is made only while
the action is open. `AuditTrail` carries itself, as it ties the last event of a
trail to the status the next UPDATE tests. `ApprovedIsScheduled` needs `CreatedInv`,
that the recovery's list has every row exactly once: a start-up that reads as many
rows as there are actions reads them all.

### ResearchJobsProofs and KnowledgeIndexProofs

| Theorem | Statement | Extra assumption |
|---|---|---|
| `TypeCorrect` | `Spec => []TypeOK` | |
| `ApprovedHasItsFile` | `Spec => []ApprovedNamesItsFile` | |
| `NoVersionIsMissing` | `Spec => []VersionsHaveNoGaps` | |
| `OnlyAnswersArePublished` | `Spec => []PublishedIsDelivered` | |
| `PublicationsAreWhole` | `Spec => []PublishedIsWhole` | `OneReview` |
| `VersionsStay` | `Spec => VersionsAreImmutable` | `OneReview` |
| `ApprovedStaysLoaded` | `Spec => []ApprovedIsLoaded` | `OneReview`, `Reader = {}` |
| `IndexImplementsResearch` | `IndexSpec => Spec` | |
| `NothingIsUnlearned` | `IndexSpec => RetrievableIsKept` | `OneReview`, `Reader = {}` |

The first four hold for any number of reviews at once, by
`IInv == TypeOK /\ AnswersInv /\ HandlerInv /\ DiskInv /\ NoGaps /\ ApprovedNamesItsFile`.
Results, callbacks under way and the rows that handlers work with are answers of
n8n (`AnswersInv`, `HandlerInv`); a handler that has picked a version finds every
lower one on disk, and one that has renamed its file finds its own there
(`HandlerInv`); a file holds an answer of its job, an edited one or a torn one
(`DiskInv`). Files are never removed, so what another review does to the directory
does not disturb these.

`OneReview` is that at most one review handler is at work at a time; `research_overwrite` and
the [limits](#limits-and-known-divergences) show that it cannot be dropped. Then
`SoloInv` is inductive: a version that is picked is not on disk, and the temporary
file is the handler's own and whole once closed, also when a crash left an older
one behind. Without readers `LoadedInv` follows: what is in memory is on disk, and
what a handler has scanned is all there is. `IndexInv` adds that nothing is indexed
that is not on disk and that a synchronisation under way has read at least what
the table holds; `IndexImplementsResearch` lets the theorems of the research jobs
be used beside the indexes.

### OrchestratorProofs

| Theorem | Statement | Extra assumption |
|---|---|---|
| `TypeCorrect` | `Spec => []TypeOK` | |
| `NoAnswerComesFirst` | `Spec => []QuestionsPrecedeAnswers` | |
| `AnsweredAloneStays` | `Spec => []SoloTurnsAreDurable` | |
| `ResetStaysFinal` | `Spec => []ResetIsFinal` | |

These hold for any number of requests at once, in both modes, through crashes and
faults. `Typed` is the type invariant with what a handler holds: a turn at work has
a session object (`Refs`), and one about to propose has a reply that calls for it
(`Due`). `Orderly` says of *every* copy of the history (cached, detached, or in the
row) that a question precedes its answer, and that a turn about to answer finds
its question.

The other two are one idea: a copy of the history counts if it is in the row, in
the cache, in the hands of a request or about to be written, and `Widespread(S)`
says that all copies that count are in `S`. A turn that met nobody leaves its two
entries in all of them (`AloneStays`), a reset that met nobody leaves only later
turns in them (`QuietStays`), and a step makes copies only from copies that count.

### ReplyProofs

| Theorem | Statement | Extra assumption |
|---|---|---|
| `RisksReachPeople` | `Spec => []RiskGoesToPeople` | `SafetyDocuments \subseteq Document` |
| `CitationsStayGrounded` | `Spec => []CitationsAreGrounded` | with `conversation-parts` the two refusals and `conversation-human` are loaded, too |
| `StaffAgentStaysInternal` | `Spec => []StaffAgentAnswersStaff` | `Modes = {"langgraph"}`, or `MaxConcurrent <= 1` |
| `TopicsAreServed` | `Spec => []ExplicitTopicIsServed` | `SafetyDocuments \subseteq Document`, `MaxConcurrent <= 1` |

`Soundness` is the invariant: the reply of every turn is one the orchestrator gives
to this very message, or one of an agent that the message can reach, with citations
that agent may have (`Justified`). `AgentsProofs` says what an agent's reply can be,
whatever the retriever returns and the model answers: its skill is one of the
agent's, its citations are permitted documents or the ones the skill names, its
fields are read off the text. It also says what the expressions find in texts put
together: if the first text is closed by a mark, every match lies in one of the two
(`TelephonesApart`, `NamesApart`), so a contact that was there stays
(`ContactStays`). `StaffAgentAnswersStaff` adds `Permission` (past the
guard, a customer's turn is not with the employees' agent), `ExplicitTopicIsServed`
adds `Topical` (such a message is on its way to its agent, or to a question of the
orchestrator).

The documents in the assumptions are all in the repository's knowledge base. Without
a refusal the code does not refuse: `_reply_from_orchestrator_document` returns
nothing, and the message goes on to an agent, past the gates that come after.

### DialogueProofs

| Theorem | Statement | Extra assumption |
|---|---|---|
| `RowIsTheLog` | `Spec => ImplementsLog` | `MaxConcurrent <= 1` |
| `ProposalsRepeatTheCustomer` | `Spec => []ProposalsAreGrounded` | `MaxConcurrent <= 1` |
| `ProposalsNameOneCustomer` | `Spec => []ContactsAgree` | `MaxConcurrent <= 1` |

`MaxConcurrent <= 1` is a customer who waits for each answer before the next request.
Neither the front end nor the API enforces that, and `turns_lost` shows what can
happen otherwise. Crashes, faults and failed saves are still there. The invariant is
`Alongside == Typed /\ Soundness /\ Sequential /\ Settled /\ QuietStays`, where
`Settled` says that turns come in their order, each when the earlier ones and the
resets before it have ended, that a turn at work holds what the process and the row
have, and that histories are of turns that have begun.

- For the refinement, `Logged`: the row is whole exchanges in their order, and the
  history in the process starts with the row's, or stands apart from it by a reset
  that could not be written.
- For what is proposed, `Repeats`: the tokens of what a reply collects are in
  messages of this turn or earlier ones after the last reset (`Grounds`), or they
  are words the program put there, and a proposal keeps that (`Given`). This holds
  of any messages, whatever matches they make together.
- For one customer, `Agreement`, of tidy messages only, as `ContactsAgree` itself
  says (`IsTidy`: a message ends in a mark, and a name in it is introduced). A mark
  at the end keeps every match within its message, and a name that is introduced is
  beaten by none that comes later. So the contact of a reply is the leftmost one in
  the history and the message, and every copy of the history that counts begins, as
  far as phones (names) are concerned, with what each proposal gave, until a reset
  is asked for. A short message is enriched by a question that is in the history
  already, and the program's words between them give no contact
  (`ClarificationGivesNothing`, `RepetitionGivesNothing`), so nothing changes by
  that.

### ChunkingProofs

Of one step of `chunk_document`, for every text, chunk size and smaller overlap
(`ChunkAssumption`): `ChunkIsBounded` (a chunk is not empty, not longer than the
size, and within the text), `NextChunkFollows` (the next one starts further on,
without a gap, sharing at most the overlap; so the loop ends and covers the text)
and `ChunksMakeProgress` (with an overlap of at most half the size, 160 of 1200 by
default, a step is at least the difference). The argument is that a position to cut
at lies beyond the middle of the window with its separator inside (`CutIsInWindow`).

### Only model-checked

- `ApprovedIsDispatched` and `QueuedIsDispatched`: liveness under fairness and
  `ENABLED` are out of the prover's reach.
- What the recursive function of the whole chunking loop computes (induction over
  data); TLC evaluates `ShortTexts`.
- The violations: a counterexample is a run's business. They are also why the
  theorems above have the hypotheses they have.

## Limits and known divergences

What the passing runs assume, and what happens otherwise:

- `SoleExecutor` and `UnknownIsNotRedispatched` assume that n8n reports no
  failure. With `ReportsFailure = TRUE` in `gateway_n8n.cfg` both fail: a failure
  reported for the first try settles the row while its thread still waits; after
  a retry two threads work on the action, and the old one may post after the
  newer run is `delivery_unknown`, or record its own outcome for the newer run. The
  cause is that neither the callback (`trace_id`) nor `finish_action_job` names the
  attempt.
- `ApprovedIsScheduled` assumes that the recovery's limit of 500 rows covers the
  table. With `RecoveryLimit = 1` and two actions it fails: `lifespan` reads the
  newest rows of any status.
- `ApprovedIsLoaded` is checked for one reload at a time. With a reader
  (`Reader <- OneReader`) it fails: an older scan assigned later removes an
  approved document from memory, or makes a publication raise after its file was
  written.
- A rejection is written whatever the status is, so a rejected job may have a
  published document; and a callback that read the row before a rejection takes the
  job back to `review`. No passing property claims otherwise.
- A crash leaves a queued research job queued for ever.
- `PublishedIsWhole` assumes one publication at a time. With two of one version it
  fails: one renames the temporary file while the other has just emptied it. Until
  the other has written, every reload raises, and if the process dies then, it does
  not start again, because loading the knowledge base raises.
- A publication is in memory at once but not *retrievable*: the TF-IDF index is built
  with the process, the pgvector table by a script. `RetrievableIsKept` only says
  that nothing is taken back, and assumes one reload and one script at a time.
- The durability of turns stops at concurrency: `SoloTurnsAreDurable` and
  `ResetIsFinal` speak of requests that met no other. A turn that runs across a reset
  may bring the history back.
- `StaffAgentAnswersStaff` with concurrent turns is checked in langgraph mode, where
  the agent that is checked is the one that runs. Legacy mode reads the session's
  agent again after the check; there it is checked one turn at a time.
- A refusal without the document `conversation-staff-only` (a `PermissionError`) and a
  fault in `log_routing` leave the memory and the row with different agents until
  the next turn is saved.
- A contact is the leftmost match in all messages of the dialogue joined by line
  breaks, and the expressions take a line break for a blank (`skills/__init__.py`
  151-165, 278-285). Hence a corrected phone number is ignored, and more than that:
  "… меня зовут Иван", followed by "Хочу купить фургон", makes the customer "Иван
  Хочу купить"; a short message after "Меня зовут Иван" is enriched by it and makes
  him "Иван Меня зовут"; a phone at the end of a message takes in the digits that the
  next one starts with; "1500000" and "2000000" in successive messages make a phone
  that nobody gave; a name that is introduced replaces one that was mentioned before. The
  same request sent again may therefore give a second action with another payload
  and another key, although `docs/TEST_DIALOGS.md` (section 6) expects the one that
  exists; `tests/test_action_gateway.py` repeats a message in which nothing can grow.
  `ProposalsAreGrounded` says what is left in general: every piece was said by this
  customer (or by the program between two questions). `ContactsAgree` says when the
  proposals with no reset asked for in between share the phone and, as far as they
  give one, the name: when every message is tidy. Without that hypothesis `dialogue`
  finds two proposals that disagree.
- A test drive is proposed with a phone and no vehicle, and `collected_fields` of one
  reply may lack what an earlier one had, if the subject changed.
- A booking is interrupted by the answer that there is no information if nothing was
  retrieved for the message that gives the phone.
- Documents of the sections scripts and policies are quoted in replies (they are in
  `_ANSWER_SECTIONS`), although the comment above it says that they are not, and
  `GET /api/knowledge` hides them.

Where the models are coarser than the code:

- `Messages`: a key inside a longer word is not told from the word; a plus stands
  right before its number; the parts of a budget (number and unit) are in one
  message; a line break between "Nova" and its model is a blank, although it
  stays in the payload and so makes another key.
- `ModelRouter`, `DomainScore` counts words where the code sums matching keys. They
  agree if a message contains at most one key of each word, which `Messages`
  assumes; otherwise ties between domains may fall differently.
- `Skills`, `VehicleSelection` leaves out the last branch of `_catalog_blob`
  (256-260), which reads the catalogue off retrieved chunks. In the repository's
  knowledge base only `sales-models` has lines of that form, which the branches
  before it find.
- `ResearchJobs`: drafts have a content. The callback also accepts an empty result;
  then an approval answers 409 (`api/main.py` 694), and only a rejection ends
  it. Approving a draft without text answers 422 (699). Neither answer
  changes a row.
- `ActionGateway`, `N8nExecute` and `ResearchJobs`, `N8nAnswers` do not follow the
  workflows in `integrations/n8n` node by node: they allow more than these do, any
  workflow that keeps the callback protocol.

Abstractions: the order of `created_at` is the order of the commits, without ties
or skewed clocks; n8n's answer and its callback come in any order; an approval and
the scheduling of its task are one step (a crash in between is a crash right
after); settings are constants; the contents of envelopes, payloads, titles and
documents are left out, and with them signatures and validation (a request that
fails them changes nothing). In SQLite `create_research_job` selects before it
inserts; the model has the single conditional insert of PostgreSQL. A scan of the
knowledge base is one step, although it reads file after file. In a turn,
`Classify` and `Route` read the agent of the session several times in one step, a
reply is one step with the retrieval and the model's answer in it, and wording,
greetings, scores and the order of citations are left out. The proposals of a
session are rows here; their lives are `ActionGateway`'s.

Not modelled: channels (a turn that comes in by a channel's webhook is a turn of
`Orchestrator` with every agent allowed and without its last two steps),
authentication, CRM requests, feedback and analytics (single statements), clients
of language models and embeddings, evaluation, readiness, configuration, logging,
the front end, migrations and scripts other than the indexing. They have no
protocol of their own; `components` in `PROJECT.json` gives each its reason.

## Plan

In the order of importance; each step adds its runs, seeded faults and theorems.

1. *Done*: `ActionLifecycle`, `ActionGateway`, `ActionGatewayProofs`,
   `ResearchJobs`.
2. *Done*: `SessionLog`, `Orchestrator` with `Messages`, `ModelRouter`, `Knowledge`,
   `Skills`, `Agents`.
3. *Done*: `KnowledgeIndex`, the temporary file in two steps, `Chunking` and
   `ChunkingProofs`.
4. *Done*: proofs of all safety, action and refinement properties of the passing
   runs: `ResearchJobsProofs`, `KnowledgeIndexProofs`, `AgentsProofs`,
   `OrchestratorProofs`, `ReplyProofs`, `DialogueProofs`.
5. Weaker hypotheses: what remains of `ApprovedIsScheduled` with store faults, and of
   the theorems of `DialogueProofs` for turns that meet no other request in a session
   where others do; whole-run facts about `SessionLog` and `ActionLifecycle`.

## Running

    tlc -workers 2 -config gateway_mock.cfg MCActionGateway.tla
    tlc -workers 2 -config research_concurrent.cfg MCResearchJobs.tla
    tlc -workers 2 -config research_sequential.cfg MCKnowledgeIndex.tla
    tlc -workers 2 -config dialogue.cfg MCOrchestrator.tla
    tlapm ActionGatewayProofs.tla
    tlapm ChunkingProofs.tla
    tlapm KnowledgeIndexProofs.tla      (with ResearchJobsProofs.tla)
    tlapm DialogueProofs.tla            (and AgentsProofs, OrchestratorProofs, ReplyProofs)
