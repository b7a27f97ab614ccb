----------------------------- MODULE ResearchJobs -----------------------------
(***************************************************************************)
(* Competitor research: a job is sent to n8n, comes back as a draft by a   *)
(* signed callback, and a person approves, edits or rejects it; approval   *)
(* publishes a versioned document in the knowledge base.                   *)
(*                                                                         *)
(* One API process serves everything (Dockerfile: one uvicorn).  It runs   *)
(* the callback on its event loop, with no await between the read and the  *)
(* write, so one callback is in flight at a time; the dispatch tasks, the  *)
(* review handlers and the readers of /api/knowledge run in threads and    *)
(* interleave with everything.  Unlike action_jobs, research_jobs is       *)
(* updated unconditionally.                                                *)
(***************************************************************************)
EXTENDS Integers, Sequences, FiniteSets

CONSTANTS
  Job,               \* research jobs: (dealer_id, idempotency_key) pairs
  Reviewer,          \* review requests that can be in progress together
  Reader,            \* GET /api/knowledge requests that can run together
  Draft,             \* results n8n can send
  WebhookSettings,   \* is RESEARCH_WEBHOOK_URL set? one choice per start
  MaxVersion,        \* bound: published versions of one job
  MaxCrashes         \* bound: crashes of the process

Version == 1..MaxVersion
Edited == "edited"
NoContent == "no content"
Torn == "torn"    \* a file that is not, or no longer, a whole document
Content == Draft \cup {Edited, NoContent}
NoJob == "no job"

ASSUME ResearchAssumption ==
  /\ WebhookSettings \in (SUBSET BOOLEAN) \ {{}}
  /\ MaxVersion \in Nat /\ MaxCrashes \in Nat
  /\ Draft \cap {Edited, NoContent, Torn} = {} /\ NoJob \notin Job

VARIABLES
  status,     \* research_jobs.status, "none" while there is no row
  result,     \* research_jobs.result_json
  published,  \* research_jobs.published_version, 0 for NULL
  dispatch,   \* dispatch[j]: the background task of the job
  answers,    \* answers[j]: the drafts n8n has made of the job
  callback,   \* the callback between its read and its write
  review,     \* review[r]: where the handler of a review request is
  files,      \* files[j][v]: what approved/<job>.v<v>.json holds
  drafts,     \* drafts[j][v]: the same of the temporary file beside it
  loaded,     \* documents in KnowledgeBase._documents of the process
  reading,    \* reading[k]: what reader k found in the directory
  configured, \* the setting the process was started with
  crashes     \* crashes so far (bounds the model only)

rowVars  == <<status, result, published>>
diskVars == <<files, drafts>>
processVars == <<configured, crashes>>
vars == <<rowVars, dispatch, answers, callback, review, diskVars, loaded, reading, processVars>>

Status == {"none", "queued", "running", "failed", "review", "approved", "rejected"}
Document == Job \X Version

\* A review handler about to look for versions ("open"), to truncate the temporary
\* file, to write it, to rename it, to read the directory, to assign what it read,
\* and to write the row.  "fd" is what the file it has open is called by now.
Step == {"idle", "open", "picked", "truncated", "written", "renamed", "scanned", "reloaded"}
ReviewState == [step : Step, job : Job \cup {NoJob}, content : Content,
                version : 0..MaxVersion, fd : {"none", "draft", "file", "gone"},
                seen : SUBSET Document]
Idle == [step |-> "idle", job |-> NoJob, content |-> NoContent, version |-> 0, fd |-> "none",
         seen |-> {}]
NotReading == [on |-> FALSE, seen |-> {}]
NoCallback == [job |-> NoJob, draft |-> NoContent]

TypeOK ==
  /\ status \in [Job -> Status]
  /\ result \in [Job -> Draft \cup {NoContent}]
  /\ published \in [Job -> 0..MaxVersion]
  /\ dispatch \in [Job -> {"none", "scheduled", "posting", "ended", "dropped"}]
  /\ answers \in [Job -> SUBSET Draft]
  /\ callback \in [job : Job \cup {NoJob}, draft : Draft \cup {NoContent}]
  /\ review \in [Reviewer -> ReviewState]
  /\ files \in [Job -> [Version -> Content \cup {Torn}]]
  /\ drafts \in [Job -> [Version -> Content \cup {Torn}]]
  /\ loaded \subseteq Document
  /\ reading \in [Reader -> [on : BOOLEAN, seen : SUBSET Document]]
  /\ configured \in WebhookSettings
  /\ crashes \in 0..MaxCrashes

Init ==
  /\ status = [j \in Job |-> "none"]
  /\ result = [j \in Job |-> NoContent]
  /\ published = [j \in Job |-> 0]
  /\ dispatch = [j \in Job |-> "none"]
  /\ answers = [j \in Job |-> {}]
  /\ callback = NoCallback
  /\ review = [r \in Reviewer |-> Idle]
  /\ files = [j \in Job |-> [v \in Version |-> NoContent]]
  /\ drafts = [j \in Job |-> [v \in Version |-> NoContent]]
  /\ loaded = {}
  /\ reading = [k \in Reader |-> NotReading]
  /\ configured \in WebhookSettings
  /\ crashes = 0

SetStatus(j, s) == status' = [status EXCEPT ![j] = s]

------------------------------------------------------------------------------
\* create_research_job and its background task.  Names ending in _M are seeded
\* faults, what a plausible slip would make of the definition that follows them.

\* A repeated key finds the row: nothing is created and nothing dispatched.
CreateJob(j) ==
  /\ status[j] = "none"
  /\ SetStatus(j, "queued")
  /\ dispatch' = [dispatch EXCEPT ![j] = "scheduled"]
  /\ UNCHANGED <<result, published, answers, callback, review, diskVars, loaded, reading, processVars>>

DispatchUnconfigured(j) ==
  /\ ~configured
  /\ dispatch[j] = "scheduled"
  /\ dispatch' = [dispatch EXCEPT ![j] = "dropped"]
  /\ UNCHANGED <<rowVars, answers, callback, review, diskVars, loaded, reading, processVars>>

\* The task ends without a POST and without a word in the row.
DispatchPost_M(j) ==
  /\ configured
  /\ dispatch[j] = "scheduled"
  /\ dispatch' = [dispatch EXCEPT ![j] = "dropped"]
  /\ UNCHANGED <<rowVars, answers, callback, review, diskVars, loaded, reading, processVars>>

DispatchPost(j) ==
  /\ configured
  /\ dispatch[j] = "scheduled"
  /\ dispatch' = [dispatch EXCEPT ![j] = "posting"]
  /\ UNCHANGED <<rowVars, answers, callback, review, diskVars, loaded, reading, processVars>>

\* The outcome is stored where the status belongs.
DispatchEnds_M(j, s) ==
  /\ dispatch[j] = "posting"
  /\ dispatch' = [dispatch EXCEPT ![j] = "ended"]
  /\ SetStatus(j, "dispatch_" \o s)
  /\ UNCHANGED <<result, published, answers, callback, review, diskVars, loaded, reading, processVars>>

\* The answer to the POST sets "running" and any exception "failed", whatever
\* the status is by then.
DispatchEnds(j, s) ==
  /\ dispatch[j] = "posting"
  /\ dispatch' = [dispatch EXCEPT ![j] = "ended"]
  /\ SetStatus(j, s)
  /\ UNCHANGED <<result, published, answers, callback, review, diskVars, loaded, reading, processVars>>

\* n8n, external: once the POST is on the wire a draft may come of it, even when
\* the task has given up waiting; a draft may be sent back more than once.
N8nAnswers(j, d) ==
  /\ dispatch[j] \in {"posting", "ended"}
  /\ answers' = [answers EXCEPT ![j] = @ \cup {d}]
  /\ UNCHANGED <<rowVars, dispatch, callback, review, diskVars, loaded, reading, processVars>>

------------------------------------------------------------------------------
\* research_callback

Accepting(j) == status[j] \notin {"review", "approved", "rejected"}

CallbackRead(j, d) ==
  /\ callback = NoCallback
  /\ d \in answers[j]
  /\ Accepting(j)
  /\ callback' = [job |-> j, draft |-> d]
  /\ UNCHANGED <<rowVars, dispatch, answers, review, diskVars, loaded, reading, processVars>>

CallbackWrite ==
  /\ callback # NoCallback
  /\ SetStatus(callback.job, "review")
  /\ result' = [result EXCEPT ![callback.job] = callback.draft]
  /\ callback' = NoCallback
  /\ UNCHANGED <<published, dispatch, answers, review, diskVars, loaded, reading, processVars>>

------------------------------------------------------------------------------
\* review_research_job

Reject(j) ==
  /\ status[j] # "none"
  /\ SetStatus(j, "rejected")
  /\ UNCHANGED <<result, published, dispatch, answers, callback, review, diskVars, loaded, reading, processVars>>

\* Anything that has not been decided may be reviewed.
Reviewable_M(j) == status[j] \in {"queued", "running", "failed", "review"}

Reviewable(j) == status[j] = "review" /\ result[j] # NoContent

\* The handler works on the row it read here to the end.
ReviewOpens(r, j, content) ==
  /\ review[r] = Idle
  /\ Reviewable(j)
  /\ content \in {result[j], Edited}
  /\ review' = [review EXCEPT ![r] =
       [Idle EXCEPT !.step = "open", !.job = j, !.content = content]]
  /\ UNCHANGED <<rowVars, dispatch, answers, callback, diskVars, loaded, reading, processVars>>

At(r, step) == review[r].step = step
Advance(r, step) == review' = [review EXCEPT ![r].step = step]
OnDisk(j) == {v \in Version : files[j][v] # NoContent}

\* Temporary files match the pattern too / the row knows the last version.
NextVersion_M(j) ==
  Cardinality(OnDisk(j)) + Cardinality({v \in Version : drafts[j][v] # NoContent}) + 1
NextVersionOfRow_M(j) == published[j] + 1

NextVersion(j) == Cardinality(OnDisk(j)) + 1

\* The row is written before the file.
PickVersion_M(r) ==
  /\ At(r, "open")
  /\ NextVersion(review[r].job) \in Version
  /\ review' = [review EXCEPT ![r].step = "picked",
                              ![r].version = NextVersion(review[r].job)]
  /\ published' = [published EXCEPT ![review[r].job] = NextVersion(review[r].job)]
  /\ UNCHANGED <<status, result, dispatch, answers, callback, diskVars, loaded, reading, processVars>>

PickVersion(r) ==
  /\ At(r, "open")
  /\ NextVersion(review[r].job) \in Version
  /\ review' = [review EXCEPT ![r].step = "picked",
                              ![r].version = NextVersion(review[r].job)]
  /\ UNCHANGED <<rowVars, dispatch, answers, callback, diskVars, loaded, reading, processVars>>

\* The published file itself is opened for writing.
Truncate_M(r) ==
  /\ At(r, "picked")
  /\ files' = [files EXCEPT ![review[r].job][review[r].version] = Torn]
  /\ review' = [review EXCEPT ![r].step = "truncated", ![r].fd = "file"]
  /\ UNCHANGED <<rowVars, dispatch, answers, callback, drafts, loaded, reading, processVars>>

Truncate(r) ==
  /\ At(r, "picked")
  /\ drafts' = [drafts EXCEPT ![review[r].job][review[r].version] = Torn]
  /\ review' = [review EXCEPT ![r].step = "truncated", ![r].fd = "draft"]
  /\ UNCHANGED <<rowVars, dispatch, answers, callback, files, loaded, reading, processVars>>

\* What a file holds after a text was written over what it held: another one may
\* have been longer, and its end remains.
Overwritten(old, content) ==
  IF old = Torn \/ (old = content /\ content # Edited) THEN {content} ELSE {content, Torn}

\* Another request may have renamed the file since it was opened, or replaced it.
WriteDraft(r) ==
  LET j  == review[r].job
      v  == review[r].version
      fd == review[r].fd
  IN  /\ At(r, "truncated")
      /\ \E new \in Overwritten(IF fd = "draft" THEN drafts[j][v] ELSE files[j][v], review[r].content) :
           /\ drafts' = IF fd = "draft" THEN [drafts EXCEPT ![j][v] = new] ELSE drafts
           /\ files'  = IF fd = "file" THEN [files EXCEPT ![j][v] = new] ELSE files
      /\ review' = [review EXCEPT ![r].step = "written", ![r].fd = "none"]
      /\ UNCHANGED <<rowVars, dispatch, answers, callback, loaded, reading, processVars>>

\* Whoever has the renamed file open keeps it, under its new name.
Renamed(fd) == CASE fd = "draft" -> "file" [] fd = "file" -> "gone" [] OTHER -> fd

Rename(r) ==
  LET j == review[r].job
      v == review[r].version
  IN  /\ At(r, "written")
      /\ drafts[j][v] # NoContent
      /\ files' = [files EXCEPT ![j][v] = drafts[j][v]]
      /\ drafts' = [drafts EXCEPT ![j][v] = NoContent]
      /\ review' = [q \in Reviewer |->
           IF q = r THEN [review[r] EXCEPT !.step = "renamed"]
           ELSE IF review[q].job = j /\ review[q].version = v
           THEN [review[q] EXCEPT !.fd = Renamed(@)] ELSE review[q]]
      /\ UNCHANGED <<rowVars, dispatch, answers, callback, loaded, reading, processVars>>

Raises(r) ==
  /\ review' = [review EXCEPT ![r] = Idle]
  /\ UNCHANGED <<rowVars, dispatch, answers, callback, diskVars, loaded, reading, processVars>>

\* Another request renamed the temporary file of the same version away.
RenameRaises(r) ==
  /\ At(r, "written")
  /\ drafts[review[r].job][review[r].version] = NoContent
  /\ Raises(r)

Documents == {d \in Document : files[d[1]][d[2]] # NoContent}
AllWhole  == \A d \in Document : files[d[1]][d[2]] # Torn

\* KnowledgeBase.reload, on behalf of a review handler or of a reader: it reads
\* the directory, then assigns the list.  One torn file makes it raise.
Scan(r) ==
  /\ At(r, "renamed")
  /\ AllWhole
  /\ review' = [review EXCEPT ![r].step = "scanned", ![r].seen = Documents]
  /\ UNCHANGED <<rowVars, dispatch, answers, callback, diskVars, loaded, reading, processVars>>

ScanRaises(r) ==
  /\ At(r, "renamed")
  /\ ~AllWhole
  /\ Raises(r)

\* Only the new document is assigned.
Reload_M(r) ==
  /\ At(r, "scanned")
  /\ loaded' = {<<review[r].job, review[r].version>>}
  /\ review' = [review EXCEPT ![r].step = "reloaded", ![r].seen = {}]
  /\ UNCHANGED <<rowVars, dispatch, answers, callback, diskVars, reading, processVars>>

Reload(r) ==
  /\ At(r, "scanned")
  /\ loaded' = review[r].seen
  /\ review' = [review EXCEPT ![r].step = "reloaded", ![r].seen = {}]
  /\ UNCHANGED <<rowVars, dispatch, answers, callback, diskVars, reading, processVars>>

ReaderScans(k) ==
  /\ reading[k] = NotReading
  /\ AllWhole
  /\ reading' = [reading EXCEPT ![k] = [on |-> TRUE, seen |-> Documents]]
  /\ UNCHANGED <<rowVars, dispatch, answers, callback, review, diskVars, loaded, processVars>>

ReaderReloads(k) ==
  /\ reading[k].on
  /\ loaded' = reading[k].seen
  /\ reading' = [reading EXCEPT ![k] = NotReading]
  /\ UNCHANGED <<rowVars, dispatch, answers, callback, review, diskVars, processVars>>

PublishedDocument(r) == <<review[r].job, review[r].version>>

Approve(r) ==
  /\ At(r, "reloaded")
  /\ PublishedDocument(r) \in loaded
  /\ SetStatus(review[r].job, "approved")
  /\ published' = [published EXCEPT ![review[r].job] = review[r].version]
  /\ review' = [review EXCEPT ![r] = Idle]
  /\ UNCHANGED <<result, dispatch, answers, callback, diskVars, loaded, reading, processVars>>

NotLoaded(r) ==
  /\ At(r, "reloaded")
  /\ PublishedDocument(r) \notin loaded
  /\ Raises(r)

------------------------------------------------------------------------------
\* The process dies and is started again: threads and tasks are gone, the rows
\* and the files stay, and nothing looks for jobs left in "queued".  Beside a torn
\* file it does not start again, and nothing follows.
Restart ==
  /\ crashes < MaxCrashes
  /\ AllWhole
  /\ crashes' = crashes + 1
  /\ dispatch' = [j \in Job |-> CASE dispatch[j] = "scheduled" -> "dropped"
                               [] dispatch[j] = "posting"   -> "ended"
                               [] OTHER                     -> dispatch[j]]
  /\ callback' = NoCallback
  /\ review' = [r \in Reviewer |-> Idle]
  /\ loaded' = Documents
  /\ reading' = [k \in Reader |-> NotReading]
  /\ configured' \in WebhookSettings
  /\ UNCHANGED <<rowVars, answers, diskVars>>

Dispatch(j) ==
  \/ DispatchUnconfigured(j) \/ DispatchPost(j)
  \/ DispatchEnds(j, "running") \/ DispatchEnds(j, "failed")

Publish(r) ==
  \/ PickVersion(r) \/ Truncate(r) \/ WriteDraft(r) \/ Rename(r) \/ RenameRaises(r)
  \/ Scan(r) \/ ScanRaises(r) \/ Reload(r) \/ Approve(r) \/ NotLoaded(r)

Serve ==
  \/ \E j \in Job : CreateJob(j) \/ Dispatch(j) \/ Reject(j)
  \/ \E j \in Job, d \in Draft : N8nAnswers(j, d) \/ CallbackRead(j, d)
  \/ CallbackWrite
  \/ \E r \in Reviewer, j \in Job, c \in Draft \cup {Edited} : ReviewOpens(r, j, c)
  \/ \E r \in Reviewer : Publish(r)
  \/ \E k \in Reader : ReaderScans(k) \/ ReaderReloads(k)

Next == Serve \/ Restart

Spec == Init /\ [][Next]_vars

\* Background tasks and handlers get a thread and go on; n8n and people need not.
Fairness ==
  /\ \A j \in Job : WF_vars(Dispatch(j))
  /\ WF_vars(CallbackWrite)
  /\ \A r \in Reviewer : WF_vars(Publish(r))

FairSpec == Spec /\ Fairness

------------------------------------------------------------------------------
(* Properties *)

\* What the row says was published is on disk: a crash between the rename and
\* the update, or a second review meanwhile, never leaves a dangling version.
ApprovedNamesItsFile ==
  \A j \in Job :
    /\ published[j] # 0 => files[j][published[j]] # NoContent
    /\ status[j] = "approved" => published[j] # 0

\* The versions of a job are numbered without gaps, whatever crashed or raced.
VersionsHaveNoGaps ==
  \A j \in Job : \A v \in OnDisk(j) : 1..v \subseteq OnDisk(j)

\* Nothing is published for a job n8n never answered: every file holds a draft
\* that came back for its job or what a person made of one, unless two
\* publications of one version have torn it.
PublishedIsDelivered ==
  \A j \in Job : \A v \in OnDisk(j) :
    answers[j] # {} /\ files[j][v] \in answers[j] \cup {Edited, Torn}

\* With one review at a time no published file is ever incomplete, wherever a
\* publication was cut short: one torn file would stop every reload and start.
PublishedIsWhole == AllWhole

\* A published version is never overwritten by another one.
VersionsAreImmutable ==
  [][\A j \in Job, v \in Version :
       files[j][v] # NoContent => files'[j][v] = files[j][v]]_vars

\* The version a row names is in the memory the assistants answer from, also while
\* a newer one is reviewed and after a crash that cut a review short: it takes one
\* reload at a time.
ApprovedIsLoaded ==
  \A j \in Job : published[j] # 0 => <<j, published[j]>> \in loaded

\* A draft handed to people for review stays with them until they decide.
ReviewStands ==
  [][\A j \in Job :
       status[j] = "review" => status'[j] \in {"review", "approved", "rejected"}]_vars

\* In a process that will not crash again every job it has a task for is sent.
QueuedIsDispatched ==
  \A j \in Job :
    crashes = MaxCrashes /\ configured /\ status[j] = "queued" /\ dispatch[j] = "scheduled"
      ~> status[j] # "queued"
=============================================================================
