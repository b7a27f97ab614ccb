-------------------------- MODULE ResearchJobsProofs --------------------------
(***************************************************************************)
(* Theorems about ResearchJobs for every set of jobs, reviews, readers and *)
(* drafts and every value of the other constants.  The first part holds    *)
(* for any number of reviews at a time, the second part needs one review   *)
(* at a time, the third one reload at a time.                              *)
(***************************************************************************)
EXTENDS ResearchJobs, FiniteSetTheorems, TLAPS

------------------------------------------------------------------------------
(* Types *)

\* No draft is taken for an edit, for nothing or for a torn file.
LEMMA Contents ==
  /\ Edited \notin Draft /\ NoContent \notin Draft /\ Torn \notin Draft
  /\ Edited # NoContent /\ Edited # Torn /\ NoContent # Torn
<1>1. Draft \cap {Edited, NoContent, Torn} = {}
  BY ResearchAssumption, Zenon
<1>2. Edited \notin Draft /\ NoContent \notin Draft /\ Torn \notin Draft
  BY <1>1
<1>3. Edited # NoContent /\ Edited # Torn /\ NoContent # Torn
  BY DEF Edited, NoContent, Torn
<1> QED BY <1>2, <1>3

\* A row that gets a status of the table stays a row.
LEMMA SetStatusTyped ==
  ASSUME TypeOK, NEW j \in Job, NEW s \in Status, SetStatus(j, s)
  PROVE  status' \in [Job -> Status]
BY DEF TypeOK, SetStatus

\* A review handler that goes on, or ends, is a review handler.
LEMMA ReviewTyped ==
  ASSUME TypeOK, NEW r \in Reviewer, NEW state \in ReviewState,
         review' = [review EXCEPT ![r] = state]
  PROVE  review' \in [Reviewer -> ReviewState]
BY DEF TypeOK

\* The state a handler starts from.
LEMMA IdleTyped == Idle \in ReviewState
BY ResearchAssumption DEF Idle, ReviewState, Step, Content

\* What a step of a review handler does to the handlers: the others stay where
\* they are, this one keeps its job and its content.
Goes(r, step, version, fd, seen) ==
  /\ review' \in [Reviewer -> ReviewState]
  /\ \A q \in Reviewer : q # r => review'[q] = review[q]
  /\ review'[r].step = step
  /\ review'[r].job = review[r].job
  /\ review'[r].content = review[r].content
  /\ review'[r].version = version
  /\ review'[r].fd = fd
  /\ review'[r].seen = seen

\* A handler that picks its version.
LEMMA PickGoes ==
  ASSUME TypeOK, NEW r \in Reviewer, PickVersion(r)
  PROVE  Goes(r, "picked", NextVersion(review[r].job), review[r].fd, review[r].seen)
<1> DEFINE new == NextVersion(review[r].job)
<1>1. review \in [Reviewer -> ReviewState]
  BY DEF TypeOK
<1>2. new \in 0..MaxVersion
  BY ResearchAssumption DEF PickVersion, Version
<1>3. review' = [review EXCEPT ![r].step = "picked", ![r].version = new]
  BY DEF PickVersion
<1> HIDE DEF new
<1>4. review' \in [Reviewer -> ReviewState]
  <2> DEFINE y == [review[r] EXCEPT !.step = "picked", !.version = new]
  <2>1. "picked" \in Step
    BY DEF Step
  <2>2. y \in ReviewState
    BY <1>1, <1>2, <2>1 DEF ReviewState
  <2>3. review' = [review EXCEPT ![r] = y]
    BY <1>1, <1>3 DEF ReviewState
  <2> HIDE DEF y
  <2> QED BY <1>1, <2>2, <2>3
<1>5. /\ \A q \in Reviewer : q # r => review'[q] = review[q]
      /\ review'[r].step = "picked" /\ review'[r].job = review[r].job
      /\ review'[r].content = review[r].content /\ review'[r].version = new
      /\ review'[r].fd = review[r].fd /\ review'[r].seen = review[r].seen
  BY <1>1, <1>3 DEF ReviewState
<1> QED BY <1>4, <1>5 DEF Goes, new

\* A handler that opens the temporary file.
LEMMA TruncateGoes ==
  ASSUME TypeOK, NEW r \in Reviewer, Truncate(r)
  PROVE  Goes(r, "truncated", review[r].version, "draft", review[r].seen)
<1> DEFINE new == "draft"
<1>1. review \in [Reviewer -> ReviewState]
  BY DEF TypeOK
<1>2. new \in {"none", "draft", "file", "gone"}
  OBVIOUS
<1>3. review' = [review EXCEPT ![r].step = "truncated", ![r].fd = new]
  BY DEF Truncate
<1> HIDE DEF new
<1>4. review' \in [Reviewer -> ReviewState]
  <2> DEFINE y == [review[r] EXCEPT !.step = "truncated", !.fd = new]
  <2>1. "truncated" \in Step
    BY DEF Step
  <2>2. y \in ReviewState
    BY <1>1, <1>2, <2>1 DEF ReviewState
  <2>3. review' = [review EXCEPT ![r] = y]
    BY <1>1, <1>3 DEF ReviewState
  <2> HIDE DEF y
  <2> QED BY <1>1, <2>2, <2>3
<1>5. /\ \A q \in Reviewer : q # r => review'[q] = review[q]
      /\ review'[r].step = "truncated" /\ review'[r].job = review[r].job
      /\ review'[r].content = review[r].content /\ review'[r].version = review[r].version
      /\ review'[r].fd = new /\ review'[r].seen = review[r].seen
  BY <1>1, <1>3 DEF ReviewState
<1> QED BY <1>4, <1>5 DEF Goes, new

\* A handler that writes and closes it.
LEMMA WriteGoes ==
  ASSUME TypeOK, NEW r \in Reviewer, WriteDraft(r)
  PROVE  Goes(r, "written", review[r].version, "none", review[r].seen)
<1> DEFINE new == "none"
<1>1. review \in [Reviewer -> ReviewState]
  BY DEF TypeOK
<1>2. new \in {"none", "draft", "file", "gone"}
  OBVIOUS
<1>3. review' = [review EXCEPT ![r].step = "written", ![r].fd = new]
  BY DEF WriteDraft
<1> HIDE DEF new
<1>4. review' \in [Reviewer -> ReviewState]
  <2> DEFINE y == [review[r] EXCEPT !.step = "written", !.fd = new]
  <2>1. "written" \in Step
    BY DEF Step
  <2>2. y \in ReviewState
    BY <1>1, <1>2, <2>1 DEF ReviewState
  <2>3. review' = [review EXCEPT ![r] = y]
    BY <1>1, <1>3 DEF ReviewState
  <2> HIDE DEF y
  <2> QED BY <1>1, <2>2, <2>3
<1>5. /\ \A q \in Reviewer : q # r => review'[q] = review[q]
      /\ review'[r].step = "written" /\ review'[r].job = review[r].job
      /\ review'[r].content = review[r].content /\ review'[r].version = review[r].version
      /\ review'[r].fd = new /\ review'[r].seen = review[r].seen
  BY <1>1, <1>3 DEF ReviewState
<1> QED BY <1>4, <1>5 DEF Goes, new

\* A handler that scans the directory.
LEMMA ScanGoes ==
  ASSUME TypeOK, NEW r \in Reviewer, Scan(r)
  PROVE  Goes(r, "scanned", review[r].version, review[r].fd, Documents)
<1> DEFINE new == Documents
<1>1. review \in [Reviewer -> ReviewState]
  BY DEF TypeOK
<1>2. new \in SUBSET Document
  BY DEF Documents
<1>3. review' = [review EXCEPT ![r].step = "scanned", ![r].seen = new]
  BY DEF Scan
<1> HIDE DEF new
<1>4. review' \in [Reviewer -> ReviewState]
  <2> DEFINE y == [review[r] EXCEPT !.step = "scanned", !.seen = new]
  <2>1. "scanned" \in Step
    BY DEF Step
  <2>2. y \in ReviewState
    BY <1>1, <1>2, <2>1 DEF ReviewState
  <2>3. review' = [review EXCEPT ![r] = y]
    BY <1>1, <1>3 DEF ReviewState
  <2> HIDE DEF y
  <2> QED BY <1>1, <2>2, <2>3
<1>5. /\ \A q \in Reviewer : q # r => review'[q] = review[q]
      /\ review'[r].step = "scanned" /\ review'[r].job = review[r].job
      /\ review'[r].content = review[r].content /\ review'[r].version = review[r].version
      /\ review'[r].fd = review[r].fd /\ review'[r].seen = new
  BY <1>1, <1>3 DEF ReviewState
<1> QED BY <1>4, <1>5 DEF Goes, new

\* A handler that assigns what it read.
LEMMA ReloadGoes ==
  ASSUME TypeOK, NEW r \in Reviewer, Reload(r)
  PROVE  Goes(r, "reloaded", review[r].version, review[r].fd, {})
<1> DEFINE new == {}
<1>1. review \in [Reviewer -> ReviewState]
  BY DEF TypeOK
<1>2. new \in SUBSET Document
  OBVIOUS
<1>3. review' = [review EXCEPT ![r].step = "reloaded", ![r].seen = new]
  BY DEF Reload
<1> HIDE DEF new
<1>4. review' \in [Reviewer -> ReviewState]
  <2> DEFINE y == [review[r] EXCEPT !.step = "reloaded", !.seen = new]
  <2>1. "reloaded" \in Step
    BY DEF Step
  <2>2. y \in ReviewState
    BY <1>1, <1>2, <2>1 DEF ReviewState
  <2>3. review' = [review EXCEPT ![r] = y]
    BY <1>1, <1>3 DEF ReviewState
  <2> HIDE DEF y
  <2> QED BY <1>1, <2>2, <2>3
<1>5. /\ \A q \in Reviewer : q # r => review'[q] = review[q]
      /\ review'[r].step = "reloaded" /\ review'[r].job = review[r].job
      /\ review'[r].content = review[r].content /\ review'[r].version = review[r].version
      /\ review'[r].fd = review[r].fd /\ review'[r].seen = new
  BY <1>1, <1>3 DEF ReviewState
<1> QED BY <1>4, <1>5 DEF Goes, new

\* What writing the opened file does to the directory: the content of the review,
\* or a torn file, stands where the file is by now.
LEMMA WriteEffect ==
  ASSUME TypeOK, NEW r \in Reviewer, WriteDraft(r)
  PROVE  /\ files' \in [Job -> [Version -> Content \cup {Torn}]]
         /\ drafts' \in [Job -> [Version -> Content \cup {Torn}]]
         /\ \E new \in {review[r].content, Torn} : \A j \in Job, v \in Version :
              LET here == j = review[r].job /\ v = review[r].version
              IN  /\ drafts'[j][v] = IF here /\ review[r].fd = "draft" THEN new ELSE drafts[j][v]
                  /\ files'[j][v] = IF here /\ review[r].fd = "file" THEN new ELSE files[j][v]
<1> DEFINE i == review[r].job
           u == review[r].version
           fd == review[r].fd
           c == review[r].content
           D == [Job -> [Version -> Content \cup {Torn}]]
<1>1. PICK new \in {c, Torn} :
        /\ drafts' = IF fd = "draft" THEN [drafts EXCEPT ![i][u] = new] ELSE drafts
        /\ files'  = IF fd = "file" THEN [files EXCEPT ![i][u] = new] ELSE files
  BY DEF WriteDraft, Overwritten
<1>2. c \in Content /\ files \in D /\ drafts \in D
  BY DEF TypeOK, ReviewState
<1>3. new \in Content \cup {Torn}
  BY <1>2
<1> DEFINE K == Content \cup {Torn}
<1>4. files \in [Job -> [Version -> K]] /\ drafts \in [Job -> [Version -> K]] /\ new \in K
  BY <1>2, <1>3
<1> HIDE DEF i, u, K, D
<1>5. /\ files' \in [Job -> [Version -> K]]
      /\ \A j \in Job, v \in Version :
           files'[j][v] = IF (j = i /\ v = u) /\ fd = "file" THEN new ELSE files[j][v]
  <2>1. CASE fd = "file"
    <3>1. files' = [files EXCEPT ![i][u] = new]
      BY <1>1, <2>1 DEF i, u
    <3>2. files' \in [Job -> [Version -> K]]
      BY <1>4, <3>1
    <3>3. \A j \in Job, v \in Version :
            files'[j][v] = IF j = i /\ v = u THEN new ELSE files[j][v]
      BY <1>4, <3>1
    <3> QED BY <2>1, <3>2, <3>3
  <2>2. CASE fd # "file"
    BY <1>1, <1>4, <2>2
  <2> QED BY <2>1, <2>2
<1>6. /\ drafts' \in [Job -> [Version -> K]]
      /\ \A j \in Job, v \in Version :
           drafts'[j][v] = IF (j = i /\ v = u) /\ fd = "draft" THEN new ELSE drafts[j][v]
  <2>1. CASE fd = "draft"
    <3>1. drafts' = [drafts EXCEPT ![i][u] = new]
      BY <1>1, <2>1 DEF i, u
    <3>2. drafts' \in [Job -> [Version -> K]]
      BY <1>4, <3>1
    <3>3. \A j \in Job, v \in Version :
            drafts'[j][v] = IF j = i /\ v = u THEN new ELSE drafts[j][v]
      BY <1>4, <3>1
    <3> QED BY <2>1, <3>2, <3>3
  <2>2. CASE fd # "draft"
    BY <1>1, <1>4, <2>2
  <2> QED BY <2>1, <2>2
<1> QED BY <1>5, <1>6 DEF K, i, u

\* What opening the temporary file does to the directory.
LEMMA TruncateEffect ==
  ASSUME TypeOK, NEW r \in Reviewer, Truncate(r)
  PROVE  /\ files' = files
         /\ \A j \in Job, v \in Version :
              drafts'[j][v] = IF j = review[r].job /\ v = review[r].version THEN Torn
                              ELSE drafts[j][v]
<1> DEFINE i == review[r].job
           u == review[r].version
           K == Content \cup {Torn}
<1>1. drafts' = [drafts EXCEPT ![i][u] = Torn] /\ files' = files
  BY DEF Truncate
<1>2. drafts \in [Job -> [Version -> K]]
  BY DEF TypeOK
<1> HIDE DEF i, u, K
<1>3. \A j \in Job, v \in Version :
        drafts'[j][v] = IF j = i /\ v = u THEN Torn ELSE drafts[j][v]
  BY <1>1, <1>2
<1> QED BY <1>1, <1>3 DEF i, u

\* What the rename does to the directory.
LEMMA RenameEffect ==
  ASSUME TypeOK, NEW r \in Reviewer, Rename(r)
  PROVE  /\ files' \in [Job -> [Version -> Content \cup {Torn}]]
         /\ drafts' \in [Job -> [Version -> Content \cup {Torn}]]
         /\ \A j \in Job, v \in Version :
              LET here == j = review[r].job /\ v = review[r].version
              IN  /\ drafts'[j][v] = IF here THEN NoContent ELSE drafts[j][v]
                  /\ files'[j][v] = IF here THEN drafts[j][v] ELSE files[j][v]
<1> DEFINE i == review[r].job
           u == review[r].version
           K == Content \cup {Torn}
           x == drafts[i][u]
<1>1. files' = [files EXCEPT ![i][u] = x] /\ drafts' = [drafts EXCEPT ![i][u] = NoContent]
  BY DEF Rename
<1>2. files \in [Job -> [Version -> K]] /\ drafts \in [Job -> [Version -> K]] /\ NoContent \in K
  BY DEF TypeOK, Content
<1> HIDE DEF i, u, K
<1>3. i \in Job /\ u \in Version => x \in K
  BY <1>2
<1> HIDE DEF x
<1>4. files' \in [Job -> [Version -> K]]
  BY <1>1, <1>2, <1>3
<1>5. \A j \in Job, v \in Version : files'[j][v] = IF j = i /\ v = u THEN x ELSE files[j][v]
  BY <1>1, <1>2
<1>6. drafts' \in [Job -> [Version -> K]]
  BY <1>1, <1>2
<1>7. \A j \in Job, v \in Version :
        drafts'[j][v] = IF j = i /\ v = u THEN NoContent ELSE drafts[j][v]
  BY <1>1, <1>2
<1>8. \A j \in Job, v \in Version : j = i /\ v = u => x = drafts[j][v]
  BY DEF x
<1> QED BY <1>4, <1>5, <1>6, <1>7, <1>8 DEF K, i, u

\* A handler that renames its file keeps all but its step; the other handlers keep
\* all but what the file they have open is called.
LEMMA RenameGoes ==
  ASSUME TypeOK, NEW r \in Reviewer, Rename(r)
  PROVE  /\ review' \in [Reviewer -> ReviewState]
         /\ \A q \in Reviewer :
              /\ review'[q].step = IF q = r THEN "renamed" ELSE review[q].step
              /\ review'[q].job = review[q].job
              /\ review'[q].content = review[q].content
              /\ review'[q].version = review[q].version
              /\ review'[q].seen = review[q].seen
<1>1. ASSUME NEW x \in ReviewState
      PROVE  LET y == [x EXCEPT !.step = "renamed"]
             IN  y \in ReviewState /\ y.step = "renamed" /\ y.job = x.job /\ y.content = x.content
                 /\ y.version = x.version /\ y.seen = x.seen
  BY DEF ReviewState, Step
<1>2. ASSUME NEW x \in ReviewState
      PROVE  LET y == [x EXCEPT !.fd = Renamed(@)]
             IN  y \in ReviewState /\ y.step = x.step /\ y.job = x.job /\ y.content = x.content
                 /\ y.version = x.version /\ y.seen = x.seen
  BY DEF ReviewState, Renamed
<1> DEFINE A == [review[r] EXCEPT !.step = "renamed"]
           B(q) == [review[q] EXCEPT !.fd = Renamed(@)]
           C(q) == review[q].job = review[r].job /\ review[q].version = review[r].version
<1>3. review' = [q \in Reviewer |-> IF q = r THEN A ELSE IF C(q) THEN B(q) ELSE review[q]]
  BY DEF Rename
<1>4. \A q \in Reviewer : review[q] \in ReviewState
  BY DEF TypeOK
<1>5. A \in ReviewState /\ A.step = "renamed" /\ A.job = review[r].job
      /\ A.content = review[r].content /\ A.version = review[r].version /\ A.seen = review[r].seen
  BY <1>1, <1>4, Zenon
<1>6. \A q \in Reviewer :
        B(q) \in ReviewState /\ B(q).step = review[q].step /\ B(q).job = review[q].job
        /\ B(q).content = review[q].content /\ B(q).version = review[q].version
        /\ B(q).seen = review[q].seen
  BY <1>2, <1>4, Zenon
<1> HIDE DEF A, B, C
<1> QED BY <1>3, <1>4, <1>5, <1>6

\* The initial states have the declared types.
LEMMA InitTyped == Init => TypeOK
BY IdleTyped, ResearchAssumption
DEF Init, TypeOK, Status, Content, NotReading, NoCallback, Version

\* Every step keeps them.
LEMMA TypeStep ==
  ASSUME TypeOK, [Next]_vars
  PROVE  TypeOK'
<1> USE ResearchAssumption
<1> USE DEF vars, rowVars, diskVars, processVars
<1>1. ASSUME NEW j \in Job, CreateJob(j) PROVE TypeOK'
  BY <1>1, SetStatusTyped DEF CreateJob, TypeOK, Status
<1>2. ASSUME NEW j \in Job, DispatchUnconfigured(j) PROVE TypeOK'
  BY <1>2 DEF DispatchUnconfigured, TypeOK
<1>3. ASSUME NEW j \in Job, DispatchPost(j) PROVE TypeOK'
  BY <1>3 DEF DispatchPost, TypeOK
<1>4. ASSUME NEW j \in Job, NEW s \in {"running", "failed"}, DispatchEnds(j, s) PROVE TypeOK'
  BY <1>4, SetStatusTyped DEF DispatchEnds, TypeOK, Status
<1>5. ASSUME NEW j \in Job, NEW d \in Draft, N8nAnswers(j, d) PROVE TypeOK'
  BY <1>5 DEF N8nAnswers, TypeOK
<1>6. ASSUME NEW j \in Job, NEW d \in Draft, CallbackRead(j, d) PROVE TypeOK'
  BY <1>6 DEF CallbackRead, TypeOK
<1>7. ASSUME CallbackWrite PROVE TypeOK'
  BY <1>7 DEF CallbackWrite, SetStatus, TypeOK, NoCallback, Status
<1>8. ASSUME NEW j \in Job, Reject(j) PROVE TypeOK'
  BY <1>8, SetStatusTyped DEF Reject, TypeOK, Status
<1>9. ASSUME NEW r \in Reviewer, NEW j \in Job, NEW c \in Draft \cup {Edited}, ReviewOpens(r, j, c)
      PROVE  TypeOK'
  <2>1. [Idle EXCEPT !.step = "open", !.job = j, !.content = c] \in ReviewState
    BY IdleTyped DEF ReviewState, Step, Content
  <2> QED BY <1>9, <2>1, ReviewTyped DEF ReviewOpens, TypeOK
<1>10. ASSUME NEW r \in Reviewer, PickVersion(r) PROVE TypeOK'
  <2>1. review' \in [Reviewer -> ReviewState]
    BY <1>10, PickGoes DEF Goes
  <2> QED BY <1>10, <2>1 DEF PickVersion, TypeOK
<1>11. ASSUME NEW r \in Reviewer, Truncate(r) PROVE TypeOK'
  <2>1. review' \in [Reviewer -> ReviewState]
    BY <1>11, TruncateGoes DEF Goes
  <2> QED BY <1>11, <2>1 DEF Truncate, TypeOK
<1>12. ASSUME NEW r \in Reviewer, WriteDraft(r) PROVE TypeOK'
  <2>1. review' \in [Reviewer -> ReviewState]
    BY <1>12, WriteGoes DEF Goes
  <2>2. /\ files' \in [Job -> [Version -> Content \cup {Torn}]]
        /\ drafts' \in [Job -> [Version -> Content \cup {Torn}]]
    BY <1>12, WriteEffect
  <2> QED BY <1>12, <2>1, <2>2 DEF WriteDraft, TypeOK
<1>13. ASSUME NEW r \in Reviewer, Rename(r) PROVE TypeOK'
  <2>1. review' \in [Reviewer -> ReviewState]
    BY <1>13, RenameGoes
  <2>2. /\ files' \in [Job -> [Version -> Content \cup {Torn}]]
        /\ drafts' \in [Job -> [Version -> Content \cup {Torn}]]
    BY <1>13, RenameEffect
  <2> QED BY <1>13, <2>1, <2>2 DEF Rename, TypeOK
<1>14. ASSUME NEW r \in Reviewer, RenameRaises(r) \/ ScanRaises(r) \/ NotLoaded(r)
       PROVE  TypeOK'
  BY <1>14, IdleTyped, ReviewTyped DEF RenameRaises, ScanRaises, NotLoaded, Raises, TypeOK
<1>15. ASSUME NEW r \in Reviewer, Scan(r) PROVE TypeOK'
  <2>1. review' \in [Reviewer -> ReviewState]
    BY <1>15, ScanGoes DEF Goes
  <2> QED BY <1>15, <2>1 DEF Scan, TypeOK
<1>16. ASSUME NEW r \in Reviewer, Reload(r) PROVE TypeOK'
  <2>1. review' \in [Reviewer -> ReviewState]
    BY <1>16, ReloadGoes DEF Goes
  <2>2. loaded' \subseteq Document
    BY <1>16 DEF Reload, TypeOK, ReviewState
  <2> QED BY <1>16, <2>1, <2>2 DEF Reload, TypeOK
<1>17. ASSUME NEW r \in Reviewer, Approve(r) PROVE TypeOK'
  BY <1>17, IdleTyped, ReviewTyped, SetStatusTyped
  DEF Approve, PublishedDocument, Document, Version, TypeOK, ReviewState, Status
<1>18. ASSUME NEW k \in Reader, ReaderScans(k) PROVE TypeOK'
  BY <1>18 DEF ReaderScans, Documents, TypeOK
<1>19. ASSUME NEW k \in Reader, ReaderReloads(k) PROVE TypeOK'
  BY <1>19 DEF ReaderReloads, NotReading, TypeOK
<1>20. ASSUME Restart PROVE TypeOK'
  BY <1>20, IdleTyped DEF Restart, Documents, NotReading, NoCallback, TypeOK
<1>21. CASE UNCHANGED vars
  BY <1>21 DEF TypeOK
<1> QED
  BY <1>1, <1>2, <1>3, <1>4, <1>5, <1>6, <1>7, <1>8, <1>9, <1>10, <1>11, <1>12, <1>13, <1>14,
     <1>15, <1>16, <1>17, <1>18, <1>19, <1>20, <1>21
  DEF Next, Serve, Dispatch, Publish

\* Every reachable state has the declared types.
THEOREM TypeCorrect == Spec => []TypeOK
<1>1. TypeOK /\ [Next]_vars => TypeOK'
  BY TypeStep
<1> QED BY <1>1, InitTyped, PTL DEF Spec
------------------------------------------------------------------------------
(* Any number of reviews at a time *)

\* What a file or a handler may hold for a job: a draft n8n made of it, or what a
\* person made of one.
Delivered(j, content) == answers[j] # {} /\ content \in answers[j] \cup {Edited}

\* Every result and every callback in flight is an answer to its job.
AnswersInv ==
  /\ \A j \in Job : result[j] # NoContent => result[j] \in answers[j]
  /\ callback # NoCallback => callback.job \in Job /\ callback.draft \in answers[callback.job]

\* A handler that has read its row works for a job and has something to publish;
\* once it has picked a version all lower ones are on disk, once it has renamed
\* its file that one is too.
HandlerOK(r) ==
  ~At(r, "idle") =>
    /\ review[r].job \in Job
    /\ Delivered(review[r].job, review[r].content)
    /\ ~At(r, "open") =>
         /\ review[r].version \in Version
         /\ \A u \in Version : u < review[r].version => files[review[r].job][u] # NoContent
    /\ review[r].step \in {"renamed", "scanned", "reloaded"} =>
         files[review[r].job][review[r].version] # NoContent

HandlerInv == \A r \in Reviewer : HandlerOK(r)

\* Published and temporary files hold what came back for their job, or are torn.
OfJob(j, content) ==
  content # NoContent => answers[j] # {} /\ content \in answers[j] \cup {Edited, Torn}

DiskInv ==
  \A j \in Job, v \in Version :
    /\ OfJob(j, files[j][v])
    /\ OfJob(j, drafts[j][v])

\* A version on disk has all lower ones below it.
NoGaps ==
  \A j \in Job, v \in Version : files[j][v] # NoContent =>
    \A u \in Version : u < v => files[j][u] # NoContent

IInv == TypeOK /\ AnswersInv /\ HandlerInv /\ DiskInv /\ NoGaps /\ ApprovedNamesItsFile

\* What never shrinks: the answers n8n has made and the versions on disk.
Grows ==
  /\ \A j \in Job : answers[j] \subseteq answers'[j]
  /\ \A j \in Job, v \in Version : files[j][v] # NoContent => files'[j][v] # NoContent

\* Steps of anything but a review handler: tasks, n8n, callbacks and readers.
Elsewhere ==
  \/ \E j \in Job : CreateJob(j) \/ Dispatch(j) \/ Reject(j)
  \/ \E j \in Job, d \in Draft : N8nAnswers(j, d) \/ CallbackRead(j, d)
  \/ CallbackWrite
  \/ \E k \in Reader : ReaderScans(k) \/ ReaderReloads(k)
  \/ UNCHANGED vars

\* They touch neither the handlers nor the directory.
LEMMA ElsewhereEffect ==
  ASSUME TypeOK, Elsewhere
  PROVE  UNCHANGED <<review, files, drafts>> /\ \A j \in Job : answers[j] \subseteq answers'[j]
<1> USE DEF vars, rowVars, diskVars, processVars
<1>1. ASSUME NEW j \in Job, CreateJob(j) \/ Dispatch(j) \/ Reject(j)
      PROVE  UNCHANGED <<review, files, drafts, answers>>
  BY <1>1 DEF CreateJob, Dispatch, DispatchUnconfigured, DispatchPost, DispatchEnds, Reject
<1>2. ASSUME NEW j \in Job, NEW d \in Draft, N8nAnswers(j, d)
      PROVE  UNCHANGED <<review, files, drafts>> /\ \A i \in Job : answers[i] \subseteq answers'[i]
  BY <1>2 DEF N8nAnswers, TypeOK
<1>3. ASSUME NEW j \in Job, NEW d \in Draft, CallbackRead(j, d)
      PROVE  UNCHANGED <<review, files, drafts, answers>>
  BY <1>3 DEF CallbackRead
<1>4. CASE CallbackWrite
  BY <1>4 DEF CallbackWrite
<1>5. ASSUME NEW k \in Reader, ReaderScans(k) \/ ReaderReloads(k)
      PROVE  UNCHANGED <<review, files, drafts, answers>>
  BY <1>5 DEF ReaderScans, ReaderReloads
<1>6. CASE UNCHANGED vars
  BY <1>6
<1> QED BY <1>1, <1>2, <1>3, <1>4, <1>5, <1>6 DEF Elsewhere

\* Answers and versions on disk stay, whatever happens.
LEMMA GrowsStep ==
  ASSUME IInv, [Next]_vars
  PROVE  Grows
<1> USE DEF vars, rowVars, diskVars, processVars
<1>1. CASE Elsewhere
  BY <1>1, ElsewhereEffect DEF Grows, IInv
<1>2. ASSUME NEW r \in Reviewer, WriteDraft(r)
      PROVE  Grows
  <2>1. review[r].content # NoContent
    <3>1. At(r, "truncated") /\ HandlerOK(r) /\ answers \in [Job -> SUBSET Draft]
      BY <1>2 DEF WriteDraft, IInv, HandlerInv, TypeOK
    <3> QED
      BY <3>1, Contents DEF HandlerOK, At, Delivered
  <2>2. Torn # NoContent /\ answers' = answers
    BY <1>2 DEF Torn, NoContent, WriteDraft
  <2> QED BY <1>2, <2>1, <2>2, WriteEffect DEF Grows, IInv
<1>3. ASSUME NEW r \in Reviewer, Rename(r)
      PROVE  Grows
  <2>1. drafts[review[r].job][review[r].version] # NoContent /\ answers' = answers
    BY <1>3 DEF Rename
  <2> QED BY <1>3, <2>1, RenameEffect DEF Grows, IInv
<1>4. ASSUME NEW r \in Reviewer, NEW j \in Job, NEW c \in Draft \cup {Edited}, ReviewOpens(r, j, c)
      PROVE  Grows
  BY <1>4 DEF ReviewOpens, Grows
<1>5. ASSUME NEW r \in Reviewer,
             \/ PickVersion(r) \/ Truncate(r) \/ RenameRaises(r) \/ Scan(r) \/ ScanRaises(r)
             \/ Reload(r) \/ Approve(r) \/ NotLoaded(r)
      PROVE  Grows
  BY <1>5 DEF PickVersion, Truncate, RenameRaises, Scan, ScanRaises, Reload, Approve, NotLoaded,
              Raises, Grows
<1>6. CASE Restart
  BY <1>6 DEF Restart, Grows
<1> QED BY <1>1, <1>2, <1>3, <1>4, <1>5, <1>6 DEF Next, Serve, Publish, Elsewhere

\* A handler that keeps its place, its job, its content and its version stays right.
LEMMA HandlerStays ==
  ASSUME IInv, Grows, NEW q \in Reviewer,
         /\ review'[q].step = review[q].step /\ review'[q].job = review[q].job
         /\ review'[q].content = review[q].content /\ review'[q].version = review[q].version
  PROVE  HandlerOK(q)'
<1>1. HandlerOK(q)
  BY DEF IInv, HandlerInv
<1> QED BY <1>1 DEF HandlerOK, At, Delivered, Grows

\* A handler that is idle has nothing to get right.
LEMMA IdleIsOK ==
  ASSUME NEW q \in Reviewer, review'[q] = Idle
  PROVE  HandlerOK(q)'
BY DEF HandlerOK, At, Idle

\* A set of versions without gaps is 1 to the number of its elements.
LEMMA Segment ==
  ASSUME NEW S \in SUBSET Version, \A v \in S, u \in Version : u < v => u \in S
  PROVE  Cardinality(S) \in 0..MaxVersion /\ S = 1..Cardinality(S)
<1> USE DEF Version
<1>1. MaxVersion \in Nat
  BY ResearchAssumption, Zenon
<1>2. IsFiniteSet(1..MaxVersion) /\ Cardinality(1..MaxVersion) = MaxVersion
  BY <1>1, FS_Interval
<1> DEFINE c == Cardinality(S)
<1>3. IsFiniteSet(S) /\ c \in Nat /\ c <= MaxVersion
  BY <1>1, <1>2, FS_Subset, FS_CardinalityType
<1>4. 1..c \subseteq S
  <2> SUFFICES ASSUME NEW k \in 1..c, k \notin S PROVE FALSE
    OBVIOUS
  <2>1. S \subseteq 1..(k - 1)
    <3>1. k \in Version /\ k \in Nat
      BY <1>1, <1>3
    <3>2. \A v \in S : ~(k < v) /\ v # k /\ v \in Nat /\ v >= 1
      BY <3>1
    <3> QED BY <3>1, <3>2
  <2>2. IsFiniteSet(1..(k - 1)) /\ Cardinality(1..(k - 1)) = k - 1
    <3>1. k \in Nat /\ k >= 1
      BY <1>3
    <3> QED BY <3>1, FS_Interval
  <2>3. c <= k - 1
    BY <2>1, <2>2, FS_Subset
  <2> QED BY <1>3, <2>3
<1>5. IsFiniteSet(1..c) /\ Cardinality(1..c) = c
  BY <1>3, FS_Interval
<1>6. 1..c = S
  BY <1>3, <1>4, <1>5, FS_Subset
<1> QED BY <1>1, <1>3, <1>6

\* The next version follows all versions on disk and is not one of them.
LEMMA NextVersionIsFree ==
  ASSUME TypeOK, NoGaps, NEW j \in Job, NextVersion(j) \in Version
  PROVE  /\ files[j][NextVersion(j)] = NoContent
         /\ \A u \in Version : u < NextVersion(j) => files[j][u] # NoContent
<1> DEFINE S == OnDisk(j)
           c == Cardinality(S)
<1>1. S \in SUBSET Version /\ \A v \in S, u \in Version : u < v => u \in S
  BY DEF OnDisk, NoGaps
<1> HIDE DEF S
<1>2. c \in 0..MaxVersion /\ S = 1..c
  BY <1>1, Segment
<1>3. NextVersion(j) = c + 1
  BY DEF NextVersion, S
<1>4. \A u \in Version : u \in S <=> files[j][u] # NoContent
  BY DEF S, OnDisk
<1> HIDE DEF c
<1> QED BY <1>2, <1>3, <1>4, ResearchAssumption DEF Version

\* The handlers stay right.
LEMMA HandlerStep ==
  ASSUME IInv, [Next]_vars
  PROVE  HandlerInv'
<1> SUFFICES ASSUME NEW q \in Reviewer PROVE HandlerOK(q)'
  BY DEF HandlerInv
<1>1. Grows /\ TypeOK /\ HandlerOK(q)
  BY GrowsStep DEF IInv, HandlerInv
<1>2. CASE Elsewhere
  <2>1. review' = review
    BY <1>1, <1>2, ElsewhereEffect
  <2> QED BY <1>1, <2>1, HandlerStays
<1>3. ASSUME NEW r \in Reviewer, NEW j \in Job, NEW c \in Draft \cup {Edited}, ReviewOpens(r, j, c)
      PROVE  HandlerOK(q)'
  <2>1. CASE q # r
    <3>1. review'[q] = review[q]
      BY <1>1, <1>3, <2>1 DEF ReviewOpens, TypeOK
    <3> QED BY <1>1, <3>1, HandlerStays
  <2>2. CASE q = r
    <3> DEFINE x == [Idle EXCEPT !.step = "open", !.job = j, !.content = c]
    <3>1. x.step = "open" /\ x.job = j /\ x.content = c
      BY DEF Idle
    <3>2. review'[q] = x
      BY <1>1, <1>3, <2>2 DEF ReviewOpens, TypeOK
    <3> HIDE DEF x
    <3>3. Delivered(j, c) /\ answers' = answers
      BY <1>3 DEF ReviewOpens, Reviewable, IInv, AnswersInv, Delivered
    <3> QED BY <3>1, <3>2, <3>3 DEF HandlerOK, At, Delivered
  <2> QED BY <2>1, <2>2
<1>4. ASSUME NEW r \in Reviewer, PickVersion(r)
      PROVE  HandlerOK(q)'
  <2> DEFINE v == NextVersion(review[r].job)
  <2>1. Goes(r, "picked", v, review[r].fd, review[r].seen) /\ answers' = answers /\ files' = files
    BY <1>1, <1>4, PickGoes DEF PickVersion, diskVars
  <2>2. CASE q # r
    <3>1. review'[q] = review[q]
      BY <2>1, <2>2 DEF Goes
    <3> QED BY <1>1, <3>1, HandlerStays
  <2>3. CASE q = r
    <3>1. At(r, "open") /\ v \in Version
      BY <1>4 DEF PickVersion
    <3>2. review[r].job \in Job /\ Delivered(review[r].job, review[r].content)
      BY <1>1, <2>3, <3>1 DEF HandlerOK, At
    <3>3. \A u \in Version : u < v => files[review[r].job][u] # NoContent
      BY <3>1, <3>2, NextVersionIsFree DEF IInv
    <3> HIDE DEF v
    <3>4. /\ review'[q].step = "picked" /\ review'[q].job = review[r].job
          /\ review'[q].content = review[r].content /\ review'[q].version = v
      BY <2>1, <2>3 DEF Goes
    <3> QED BY <2>1, <3>1, <3>2, <3>3, <3>4 DEF HandlerOK, At, Delivered
  <2> QED BY <2>2, <2>3
<1>5. ASSUME NEW r \in Reviewer, NEW old, NEW step, NEW fd, NEW seen,
             At(r, old), Goes(r, step, review[r].version, fd, seen),
             \/ old = "picked" /\ step = "truncated"
             \/ old = "truncated" /\ step = "written"
             \/ old = "renamed" /\ step = "scanned"
             \/ old = "scanned" /\ step = "reloaded"
      PROVE  HandlerOK(q)'
  <2>1. CASE q # r
    <3>1. review'[q] = review[q]
      BY <1>5, <2>1 DEF Goes
    <3> QED BY <1>1, <3>1, HandlerStays
  <2>2. CASE q = r
    <3>1. /\ review'[q].step = step /\ review'[q].job = review[q].job
          /\ review'[q].content = review[q].content /\ review'[q].version = review[q].version
      BY <1>5, <2>2 DEF Goes
    <3>2. review[q].step = old /\ old # "idle" /\ old # "open"
      BY <1>5, <2>2 DEF At
    <3>3. step \in {"renamed", "scanned", "reloaded"} => old \in {"renamed", "scanned", "reloaded"}
      BY <1>5
    <3> QED BY <1>1, <3>1, <3>2, <3>3 DEF HandlerOK, At, Delivered, Grows
  <2> QED BY <2>1, <2>2
<1>6. ASSUME NEW r \in Reviewer, Rename(r)
      PROVE  HandlerOK(q)'
  <2>1. /\ review'[q].step = IF q = r THEN "renamed" ELSE review[q].step
        /\ review'[q].job = review[q].job
        /\ review'[q].content = review[q].content
        /\ review'[q].version = review[q].version
    BY <1>1, <1>6, RenameGoes
  <2>2. CASE q # r
    BY <1>1, <2>1, <2>2, HandlerStays
  <2>3. CASE q = r
    <3>1. At(q, "written") /\ drafts[review[q].job][review[q].version] # NoContent
      BY <1>6, <2>3 DEF Rename
    <3>2. /\ review[q].job \in Job /\ review[q].version \in Version
          /\ Delivered(review[q].job, review[q].content)
          /\ \A u \in Version : u < review[q].version => files[review[q].job][u] # NoContent
      BY <1>1, <3>1 DEF HandlerOK, At
    <3>3. files'[review[q].job][review[q].version] = drafts[review[q].job][review[q].version]
      BY <1>1, <1>6, <2>3, <3>2, RenameEffect
    <3> QED BY <1>1, <2>1, <2>3, <3>1, <3>2, <3>3 DEF HandlerOK, At, Delivered, Grows
  <2> QED BY <2>2, <2>3
<1>7. ASSUME NEW r \in Reviewer, review' = [review EXCEPT ![r] = Idle]
      PROVE  HandlerOK(q)'
  <2>1. CASE q # r
    <3>1. review'[q] = review[q]
      BY <1>1, <1>7, <2>1 DEF TypeOK
    <3> QED BY <1>1, <3>1, HandlerStays
  <2>2. CASE q = r
    <3>1. review'[q] = Idle
      BY <1>1, <1>7, <2>2 DEF TypeOK
    <3> QED BY <3>1, IdleIsOK
  <2> QED BY <2>1, <2>2
<1>8. CASE Restart
  <2>1. review'[q] = Idle
    BY <1>8 DEF Restart
  <2> QED BY <2>1, IdleIsOK
<1>9. ASSUME NEW r \in Reviewer, Publish(r)
      PROVE  HandlerOK(q)'
  <2>1. CASE PickVersion(r)
    BY <1>4, <2>1
  <2>2. CASE Truncate(r)
    <3>1. At(r, "picked") /\ Goes(r, "truncated", review[r].version, "draft", review[r].seen)
      BY <1>1, <2>2, TruncateGoes DEF Truncate
    <3> QED BY <1>5, <3>1
  <2>3. CASE WriteDraft(r)
    <3>1. At(r, "truncated") /\ Goes(r, "written", review[r].version, "none", review[r].seen)
      BY <1>1, <2>3, WriteGoes DEF WriteDraft
    <3> QED BY <1>5, <3>1
  <2>4. CASE Rename(r)
    BY <1>6, <2>4
  <2>5. CASE Scan(r)
    <3>1. At(r, "renamed") /\ Goes(r, "scanned", review[r].version, review[r].fd, Documents)
      BY <1>1, <2>5, ScanGoes DEF Scan
    <3> QED BY <1>5, <3>1
  <2>6. CASE Reload(r)
    <3>1. At(r, "scanned") /\ Goes(r, "reloaded", review[r].version, review[r].fd, {})
      BY <1>1, <2>6, ReloadGoes DEF Reload
    <3> QED BY <1>5, <3>1
  <2>7. CASE RenameRaises(r) \/ ScanRaises(r) \/ Approve(r) \/ NotLoaded(r)
    BY <1>7, <2>7 DEF RenameRaises, ScanRaises, Approve, NotLoaded, Raises
  <2> QED BY <1>9, <2>1, <2>2, <2>3, <2>4, <2>5, <2>6, <2>7 DEF Publish
<1> QED BY <1>2, <1>3, <1>8, <1>9 DEF Next, Serve, Elsewhere

\* Results and callbacks in flight stay answers to their jobs.
LEMMA AnswersStep ==
  ASSUME IInv, [Next]_vars
  PROVE  AnswersInv'
<1> USE DEF vars, rowVars, diskVars, processVars
<1>1. Grows /\ TypeOK /\ AnswersInv
  BY GrowsStep DEF IInv
<1>2. CASE UNCHANGED <<result, callback>>
  BY <1>1, <1>2 DEF AnswersInv, Grows
<1>3. ASSUME NEW j \in Job, NEW d \in Draft, CallbackRead(j, d)
      PROVE  AnswersInv'
  BY <1>1, <1>3 DEF CallbackRead, AnswersInv
<1>4. CASE CallbackWrite
  <2>1. /\ callback.job \in Job /\ callback.draft \in answers[callback.job]
        /\ result' = [result EXCEPT ![callback.job] = callback.draft]
        /\ callback' = NoCallback /\ answers' = answers
    BY <1>1, <1>4 DEF CallbackWrite, AnswersInv
  <2>2. \A j \in Job : result'[j] = IF j = callback.job THEN callback.draft ELSE result[j]
    BY <1>1, <2>1 DEF TypeOK
  <2> QED BY <1>1, <2>1, <2>2 DEF AnswersInv
<1>5. CASE Restart
  BY <1>1, <1>5 DEF Restart, AnswersInv
<1>6. ASSUME NEW r \in Reviewer, Publish(r)
      PROVE  UNCHANGED <<result, callback>>
  BY <1>6 DEF Publish, PickVersion, Truncate, WriteDraft, Rename, RenameRaises, Scan, ScanRaises,
              Reload, Approve, NotLoaded, Raises
<1>7. ASSUME NEW r \in Reviewer, NEW j \in Job, NEW c \in Draft \cup {Edited}, ReviewOpens(r, j, c)
      PROVE  UNCHANGED <<result, callback>>
  BY <1>7 DEF ReviewOpens
<1>8. ASSUME NEW j \in Job, CreateJob(j) \/ Dispatch(j) \/ Reject(j)
      PROVE  UNCHANGED <<result, callback>>
  BY <1>8 DEF CreateJob, Dispatch, DispatchUnconfigured, DispatchPost, DispatchEnds, Reject
<1>9. ASSUME NEW j \in Job, NEW d \in Draft, N8nAnswers(j, d)
      PROVE  UNCHANGED <<result, callback>>
  BY <1>9 DEF N8nAnswers
<1>10. ASSUME NEW k \in Reader, ReaderScans(k) \/ ReaderReloads(k)
       PROVE  UNCHANGED <<result, callback>>
  BY <1>10 DEF ReaderScans, ReaderReloads
<1>11. CASE UNCHANGED vars
  BY <1>2, <1>11
<1> QED BY <1>2, <1>3, <1>4, <1>5, <1>6, <1>7, <1>8, <1>9, <1>10, <1>11 DEF Next, Serve

\* Only a handler that opens, writes or renames its file changes the directory.
LEMMA DiskMoves ==
  ASSUME TypeOK, [Next]_vars
  PROVE  \/ UNCHANGED <<files, drafts>>
         \/ \E r \in Reviewer : Truncate(r) \/ WriteDraft(r) \/ Rename(r)
<1> USE DEF vars, rowVars, diskVars, processVars
<1>1. ASSUME NEW r \in Reviewer, Publish(r), ~Truncate(r), ~WriteDraft(r), ~Rename(r)
      PROVE  UNCHANGED <<files, drafts>>
  BY <1>1 DEF Publish, PickVersion, RenameRaises, Scan, ScanRaises, Reload, Approve, NotLoaded,
              Raises
<1>2. ASSUME NEW r \in Reviewer, NEW j \in Job, NEW c \in Draft \cup {Edited}, ReviewOpens(r, j, c)
      PROVE  UNCHANGED <<files, drafts>>
  BY <1>2 DEF ReviewOpens
<1>3. CASE Restart
  BY <1>3 DEF Restart
<1>4. CASE Elsewhere
  BY <1>4, ElsewhereEffect
<1> QED BY <1>1, <1>2, <1>3, <1>4 DEF Next, Serve, Elsewhere

\* The directory stays right.
LEMMA DiskStep ==
  ASSUME IInv, [Next]_vars
  PROVE  DiskInv' /\ NoGaps'
<1>1. Grows /\ TypeOK /\ DiskInv /\ NoGaps
  BY GrowsStep DEF IInv
<1>2. CASE UNCHANGED <<files, drafts>>
  BY <1>1, <1>2 DEF DiskInv, OfJob, NoGaps, Grows
<1>3. ASSUME NEW r \in Reviewer, WriteDraft(r)
      PROVE  DiskInv' /\ NoGaps'
  <2>1. PICK new \in {review[r].content, Torn} : \A j \in Job, v \in Version :
          LET here == j = review[r].job /\ v = review[r].version
          IN  /\ drafts'[j][v] = IF here /\ review[r].fd = "draft" THEN new ELSE drafts[j][v]
              /\ files'[j][v] = IF here /\ review[r].fd = "file" THEN new ELSE files[j][v]
    BY <1>1, <1>3, WriteEffect
  <2>2. At(r, "truncated") /\ answers' = answers /\ HandlerOK(r)
    BY <1>3 DEF WriteDraft, IInv, HandlerInv
  <2>3. /\ Delivered(review[r].job, review[r].content)
        /\ \A u \in Version : u < review[r].version => files[review[r].job][u] # NoContent
    BY <2>2 DEF At, HandlerOK
  <2>4. OfJob(review[r].job, new)
    BY <2>3 DEF OfJob, Delivered
  <2>5. ASSUME NEW j \in Job, NEW v \in Version
        PROVE  OfJob(j, files'[j][v]) /\ OfJob(j, drafts'[j][v])
    BY <1>1, <2>1, <2>4 DEF DiskInv
  <2>6. DiskInv'
    BY <2>2, <2>5 DEF DiskInv, OfJob
  <2>7. ASSUME NEW j \in Job, NEW v \in Version, files'[j][v] # NoContent,
               NEW u \in Version, u < v
        PROVE  files[j][u] # NoContent
    BY <1>1, <2>1, <2>3, <2>7 DEF NoGaps
  <2> QED BY <1>1, <2>6, <2>7 DEF NoGaps, Grows
<1>4. ASSUME NEW r \in Reviewer, Rename(r)
      PROVE  DiskInv' /\ NoGaps'
  <2>1. \A j \in Job, v \in Version :
          LET here == j = review[r].job /\ v = review[r].version
          IN  /\ drafts'[j][v] = IF here THEN NoContent ELSE drafts[j][v]
              /\ files'[j][v] = IF here THEN drafts[j][v] ELSE files[j][v]
    BY <1>1, <1>4, RenameEffect
  <2>2. At(r, "written") /\ answers' = answers /\ HandlerOK(r)
    BY <1>4 DEF Rename, IInv, HandlerInv
  <2>3. \A u \in Version : u < review[r].version => files[review[r].job][u] # NoContent
    BY <2>2 DEF At, HandlerOK
  <2>4. ASSUME NEW j \in Job, NEW v \in Version
        PROVE  OfJob(j, files'[j][v]) /\ OfJob(j, drafts'[j][v])
    BY <1>1, <2>1 DEF DiskInv, OfJob
  <2>5. DiskInv'
    BY <2>2, <2>4 DEF DiskInv, OfJob
  <2>6. ASSUME NEW j \in Job, NEW v \in Version, files'[j][v] # NoContent,
               NEW u \in Version, u < v
        PROVE  files[j][u] # NoContent
    BY <1>1, <2>1, <2>3, <2>6 DEF NoGaps
  <2> QED BY <1>1, <2>5, <2>6 DEF NoGaps, Grows
<1>5. ASSUME NEW r \in Reviewer, Truncate(r)
      PROVE  DiskInv' /\ NoGaps'
  <2>1. At(r, "picked") /\ answers' = answers /\ HandlerOK(r)
    BY <1>5 DEF Truncate, IInv, HandlerInv
  <2>2. OfJob(review[r].job, Torn)
    BY <2>1 DEF At, HandlerOK, Delivered, OfJob
  <2>3. files' = files /\ \A j \in Job, v \in Version :
          drafts'[j][v] = IF j = review[r].job /\ v = review[r].version THEN Torn ELSE drafts[j][v]
    BY <1>1, <1>5, TruncateEffect
  <2>4. ASSUME NEW j \in Job, NEW v \in Version
        PROVE  OfJob(j, files'[j][v]) /\ OfJob(j, drafts'[j][v])
    BY <1>1, <2>2, <2>3 DEF DiskInv
  <2>5. DiskInv'
    BY <2>1, <2>4 DEF DiskInv, OfJob
  <2> QED BY <1>1, <2>3, <2>5 DEF NoGaps
<1> QED BY <1>1, <1>2, <1>3, <1>4, <1>5, DiskMoves

\* The rows name what is on disk.
LEMMA RowStep ==
  ASSUME IInv, [Next]_vars
  PROVE  ApprovedNamesItsFile'
<1> USE DEF vars, rowVars, diskVars, processVars
<1>1. Grows /\ TypeOK /\ ApprovedNamesItsFile
  BY GrowsStep DEF IInv
<1>2. ASSUME \A j \in Job : status'[j] # "approved" \/ status'[j] = status[j],
             published' = published
      PROVE  ApprovedNamesItsFile'
  <2> SUFFICES ASSUME NEW j \in Job
               PROVE  /\ published'[j] # 0 => files'[j][published'[j]] # NoContent
                      /\ status'[j] = "approved" => published'[j] # 0
    BY DEF ApprovedNamesItsFile
  <2>1. published[j] # 0 => published[j] \in Version
    BY <1>1, ResearchAssumption DEF TypeOK, Version
  <2> QED BY <1>1, <1>2, <2>1 DEF ApprovedNamesItsFile, Grows
<1>3. CASE UNCHANGED rowVars
  BY <1>2, <1>3
<1>4. ASSUME NEW j \in Job, NEW s \in Status \ {"approved"}, SetStatus(j, s), published' = published
      PROVE  ApprovedNamesItsFile'
  <2>1. \A i \in Job : status'[i] # "approved" \/ status'[i] = status[i]
    BY <1>1, <1>4 DEF SetStatus, TypeOK
  <2> QED BY <1>2, <1>4, <2>1
<1>5. ASSUME NEW j \in Job, CreateJob(j) \/ Dispatch(j) \/ Reject(j)
      PROVE  ApprovedNamesItsFile'
  <2>1. CASE CreateJob(j)
    BY <1>4, <2>1 DEF CreateJob, Status
  <2>2. CASE DispatchUnconfigured(j) \/ DispatchPost(j)
    BY <1>3, <2>2 DEF DispatchUnconfigured, DispatchPost
  <2>3. CASE DispatchEnds(j, "running")
    BY <1>4, <2>3 DEF DispatchEnds, Status
  <2>4. CASE DispatchEnds(j, "failed")
    BY <1>4, <2>4 DEF DispatchEnds, Status
  <2>5. CASE Reject(j)
    BY <1>4, <2>5 DEF Reject, Status
  <2> QED BY <1>5, <2>1, <2>2, <2>3, <2>4, <2>5 DEF Dispatch
<1>6. CASE CallbackWrite
  <2>1. callback.job \in Job
    BY <1>6 DEF CallbackWrite, IInv, AnswersInv
  <2> QED BY <1>4, <1>6, <2>1 DEF CallbackWrite, Status
<1>7. ASSUME NEW r \in Reviewer, Approve(r)
      PROVE  ApprovedNamesItsFile'
  <2> DEFINE j == review[r].job
             v == review[r].version
  <2>1. HandlerOK(r) /\ At(r, "reloaded") /\ files' = files
    BY <1>7 DEF IInv, HandlerInv, Approve
  <2>2. j \in Job /\ v \in Version /\ files[j][v] # NoContent
    BY <2>1 DEF HandlerOK, At
  <2>3. status' = [status EXCEPT ![j] = "approved"] /\ published' = [published EXCEPT ![j] = v]
    BY <1>7 DEF Approve, SetStatus
  <2>4. v # 0
    BY <2>2, ResearchAssumption DEF Version
  <2> HIDE DEF j, v
  <2> QED BY <1>1, <2>1, <2>2, <2>3, <2>4 DEF ApprovedNamesItsFile, TypeOK
<1>8. ASSUME NEW r \in Reviewer, Publish(r), ~Approve(r)
      PROVE  UNCHANGED rowVars
  BY <1>8 DEF Publish, PickVersion, Truncate, WriteDraft, Rename, RenameRaises, Scan, ScanRaises,
              Reload, NotLoaded, Raises
<1>9. ASSUME NEW r \in Reviewer, NEW j \in Job, NEW c \in Draft \cup {Edited}, ReviewOpens(r, j, c)
      PROVE  UNCHANGED rowVars
  BY <1>9 DEF ReviewOpens
<1>10. ASSUME NEW j \in Job, NEW d \in Draft, N8nAnswers(j, d) \/ CallbackRead(j, d)
       PROVE  UNCHANGED rowVars
  BY <1>10 DEF N8nAnswers, CallbackRead
<1>11. ASSUME NEW k \in Reader, ReaderScans(k) \/ ReaderReloads(k)
       PROVE  UNCHANGED rowVars
  BY <1>11 DEF ReaderScans, ReaderReloads
<1>12. CASE Restart
  BY <1>3, <1>12 DEF Restart
<1>13. CASE UNCHANGED vars
  BY <1>3, <1>13
<1> QED
  BY <1>3, <1>5, <1>6, <1>7, <1>8, <1>9, <1>10, <1>11, <1>12, <1>13 DEF Next, Serve

\* The conjunction is an invariant: every part of it leans on another.
LEMMA Inductive == Spec => []IInv
<1>1. Init => IInv
  <2> SUFFICES ASSUME Init PROVE IInv
    OBVIOUS
  <2>1. TypeOK
    BY InitTyped
  <2>2. AnswersInv
    BY DEF Init, AnswersInv
  <2>3. HandlerInv
    BY DEF Init, HandlerInv, HandlerOK, At, Idle
  <2>4. DiskInv /\ NoGaps
    BY DEF Init, DiskInv, OfJob, NoGaps
  <2>5. ApprovedNamesItsFile
    BY DEF Init, ApprovedNamesItsFile
  <2> QED BY <2>1, <2>2, <2>3, <2>4, <2>5 DEF IInv
<1>2. IInv /\ [Next]_vars => IInv'
  <2> SUFFICES ASSUME IInv, [Next]_vars PROVE IInv'
    OBVIOUS
  <2>1. TypeOK'
    BY TypeStep DEF IInv
  <2> QED BY <2>1, AnswersStep, HandlerStep, DiskStep, RowStep DEF IInv
<1> QED BY <1>1, <1>2, PTL DEF Spec

\* A row that says approved names a version, and what a row names is on disk:
\* whatever crashes and whatever other reviews do between the rename and the update.
THEOREM ApprovedHasItsFile == Spec => []ApprovedNamesItsFile
<1>1. IInv => ApprovedNamesItsFile
  BY DEF IInv
<1> QED BY <1>1, Inductive, PTL

\* The versions of a job are numbered without gaps.
THEOREM NoVersionIsMissing == Spec => []VersionsHaveNoGaps
<1>1. IInv => VersionsHaveNoGaps
  <2> SUFFICES ASSUME IInv, NEW j \in Job, NEW v \in OnDisk(j), NEW u \in 1..v
               PROVE  u \in OnDisk(j)
    BY DEF VersionsHaveNoGaps
  <2>1. v \in Version /\ u \in Version /\ (u < v \/ u = v)
    BY ResearchAssumption DEF OnDisk, Version
  <2> QED BY <2>1 DEF IInv, NoGaps, OnDisk
<1> QED BY <1>1, Inductive, PTL

\* No file of a job n8n never answered, and none that holds anything but a draft of
\* its job, an edited one or, after two reviews of one version, a torn one.
THEOREM OnlyAnswersArePublished == Spec => []PublishedIsDelivered
<1>1. IInv => PublishedIsDelivered
  BY DEF IInv, DiskInv, OfJob, PublishedIsDelivered, OnDisk
<1> QED BY <1>1, Inductive, PTL

------------------------------------------------------------------------------
(* One review at a time *)

OneReview == \A q, r \in Reviewer : q = r

\* The version a handler has picked is not on disk until the handler renames its
\* file; the temporary file it has open is its own, and whole when it is closed.
SoloHandlerInv ==
  \A r \in Reviewer :
    LET j == review[r].job
        v == review[r].version
    IN  /\ review[r].step \in {"picked", "truncated", "written"} => files[j][v] = NoContent
        /\ At(r, "truncated") => review[r].fd = "draft" /\ drafts[j][v] = Torn
        /\ At(r, "written") => drafts[j][v] = review[r].content

SoloInv == SoloHandlerInv /\ AllWhole

\* The only review finds its temporary file as it left it: it writes all of it.
LEMMA SoloWrite ==
  ASSUME TypeOK, SoloInv, NEW r \in Reviewer, WriteDraft(r),
         review[r].job \in Job, review[r].version \in Version
  PROVE  /\ files' = files
         /\ drafts'[review[r].job][review[r].version] = review[r].content
<1> DEFINE i == review[r].job
           u == review[r].version
           c == review[r].content
<1>1. review[r].fd = "draft" /\ drafts[i][u] = Torn
  BY DEF WriteDraft, SoloInv, SoloHandlerInv
<1>2. Overwritten(drafts[i][u], c) = {c}
  BY <1>1 DEF Overwritten
<1>3. drafts' = [drafts EXCEPT ![i][u] = c] /\ files' = files
  BY <1>1, <1>2 DEF WriteDraft
<1>4. drafts \in [Job -> [Version -> Content \cup {Torn}]]
  BY DEF TypeOK
<1> HIDE DEF i, u, c
<1>5. i \in Job /\ u \in Version => drafts'[i][u] = c
  BY <1>3, <1>4
<1> QED BY <1>3, <1>5 DEF i, u, c

\* The only review renames a whole file to a version that was not there.
LEMMA SoloRename ==
  ASSUME IInv, SoloInv, NEW r \in Reviewer, Rename(r)
  PROVE  /\ review[r].job \in Job /\ review[r].version \in Version
         /\ files[review[r].job][review[r].version] = NoContent
         /\ \A j \in Job, v \in Version :
              files'[j][v] = IF j = review[r].job /\ v = review[r].version
                             THEN review[r].content ELSE files[j][v]
         /\ review[r].content # Torn
<1>1. TypeOK /\ At(r, "written") /\ HandlerOK(r)
  BY DEF Rename, IInv, HandlerInv
<1>2. review[r].job \in Job /\ review[r].version \in Version /\ Delivered(review[r].job, review[r].content)
  BY <1>1 DEF HandlerOK, At
<1>3. /\ files[review[r].job][review[r].version] = NoContent
      /\ drafts[review[r].job][review[r].version] = review[r].content
  BY <1>1 DEF SoloInv, SoloHandlerInv, At
<1>4. \A j \in Job, v \in Version :
        files'[j][v] = IF j = review[r].job /\ v = review[r].version THEN drafts[j][v] ELSE files[j][v]
  BY <1>1, RenameEffect
<1>5. review[r].content # Torn
  BY <1>1, <1>2, Contents DEF Delivered, TypeOK
<1> QED BY <1>2, <1>3, <1>4, <1>5

\* No published file changes, whatever step is taken.
LEMMA SoloFiles ==
  ASSUME IInv, SoloInv, [Next]_vars
  PROVE  /\ \A j \in Job, v \in Version : files[j][v] # NoContent => files'[j][v] = files[j][v]
         /\ AllWhole'
         /\ files' # files => \E r \in Reviewer : Rename(r)
<1>1. TypeOK /\ AllWhole
  BY DEF IInv, SoloInv
<1>2. CASE files' = files
  BY <1>1, <1>2 DEF AllWhole
<1>3. ASSUME NEW r \in Reviewer, WriteDraft(r)
      PROVE  files' = files
  <2>1. At(r, "truncated") /\ HandlerOK(r)
    BY <1>3 DEF WriteDraft, IInv, HandlerInv
  <2>2. review[r].job \in Job /\ review[r].version \in Version
    BY <2>1 DEF HandlerOK, At
  <2> QED BY <1>1, <1>3, <2>2, SoloWrite
<1>4. ASSUME NEW r \in Reviewer, Rename(r)
      PROVE  /\ \A j \in Job, v \in Version : files[j][v] # NoContent => files'[j][v] = files[j][v]
             /\ AllWhole'
  <2>1. \A j \in Job, v \in Version :
          files'[j][v] # files[j][v] =>
            /\ j = review[r].job /\ v = review[r].version
            /\ files[j][v] = NoContent /\ files'[j][v] # Torn
    BY <1>4, SoloRename
  <2>2. AllWhole'
    BY <1>1, <2>1 DEF AllWhole, Document
  <2> QED BY <2>1, <2>2
<1>5. ASSUME NEW r \in Reviewer, Truncate(r)
      PROVE  files' = files
  BY <1>5 DEF Truncate
<1> QED BY <1>1, <1>2, <1>3, <1>4, <1>5, DiskMoves

\* What is at stake for one handler.
SoloOK(r) ==
  LET j == review[r].job
      v == review[r].version
  IN  /\ review[r].step \in {"picked", "truncated", "written"} => files[j][v] = NoContent
      /\ At(r, "truncated") => review[r].fd = "draft" /\ drafts[j][v] = Torn
      /\ At(r, "written") => drafts[j][v] = review[r].content

\* The handler's claim on its version and on its temporary file outlasts every step.
LEMMA SoloStep ==
  ASSUME OneReview, IInv, SoloInv, [Next]_vars
  PROVE  SoloInv'
<1> SUFFICES ASSUME NEW r \in Reviewer PROVE SoloOK(r)'
  BY SoloFiles DEF SoloInv, SoloHandlerInv, SoloOK
<1>1. TypeOK /\ HandlerOK(r) /\ SoloOK(r)
  BY DEF IInv, HandlerInv, SoloInv, SoloHandlerInv, SoloOK
<1>2. CASE UNCHANGED <<review, files, drafts>>
  BY <1>1, <1>2 DEF SoloOK, At
<1>3. CASE review'[r].step \notin {"picked", "truncated", "written"}
  BY <1>3 DEF SoloOK, At
<1>4. ASSUME review' = [review EXCEPT ![r] = Idle]
      PROVE  SoloOK(r)'
  <2>1. review'[r] = Idle
    BY <1>1, <1>4 DEF TypeOK
  <2> QED BY <1>3, <2>1 DEF Idle
<1>5. CASE PickVersion(r)
  <2> DEFINE v == NextVersion(review[r].job)
  <2>1. At(r, "open") /\ v \in Version /\ files' = files
    BY <1>5 DEF PickVersion, diskVars
  <2>2. review[r].job \in Job
    BY <1>1, <2>1 DEF HandlerOK, At
  <2>3. files[review[r].job][v] = NoContent
    BY <2>1, <2>2, NextVersionIsFree DEF IInv
  <2>4. Goes(r, "picked", v, review[r].fd, review[r].seen)
    BY <1>1, <1>5, PickGoes
  <2> HIDE DEF v
  <2>5. review'[r].step = "picked" /\ review'[r].job = review[r].job /\ review'[r].version = v
    BY <2>4 DEF Goes
  <2> QED BY <2>1, <2>3, <2>5 DEF SoloOK, At
<1>6. CASE Truncate(r)
  <2>1. At(r, "picked") /\ files' = files
    BY <1>6 DEF Truncate
  <2>2. Goes(r, "truncated", review[r].version, "draft", review[r].seen)
    BY <1>1, <1>6, TruncateGoes
  <2>3. /\ review'[r].step = "truncated" /\ review'[r].job = review[r].job
        /\ review'[r].version = review[r].version /\ review'[r].fd = "draft"
    BY <2>2 DEF Goes
  <2>4. review[r].job \in Job /\ review[r].version \in Version
    BY <1>1, <2>1 DEF HandlerOK, At
  <2>5. drafts'[review[r].job][review[r].version] = Torn
    BY <1>1, <1>6, <2>4, TruncateEffect
  <2> QED BY <1>1, <2>1, <2>3, <2>5 DEF SoloOK, At
<1>7. CASE WriteDraft(r)
  <2>1. At(r, "truncated")
    BY <1>7 DEF WriteDraft
  <2>2. Goes(r, "written", review[r].version, "none", review[r].seen)
    BY <1>1, <1>7, WriteGoes
  <2>3. /\ review'[r].step = "written" /\ review'[r].job = review[r].job
        /\ review'[r].version = review[r].version /\ review'[r].content = review[r].content
    BY <2>2 DEF Goes
  <2>4. review[r].job \in Job /\ review[r].version \in Version
    BY <1>1, <2>1 DEF HandlerOK, At
  <2>5. files' = files /\ drafts'[review[r].job][review[r].version] = review[r].content
    BY <1>1, <1>7, <2>4, SoloWrite
  <2> QED BY <1>1, <2>1, <2>3, <2>5 DEF SoloOK, At
<1>8. CASE Rename(r)
  <2>1. review'[r].step = "renamed"
    BY <1>1, <1>8, RenameGoes
  <2> QED BY <1>3, <2>1
<1>9. CASE Scan(r)
  <2>1. review'[r].step = "scanned"
    BY <1>1, <1>9, ScanGoes DEF Goes
  <2> QED BY <1>3, <2>1
<1>10. CASE Reload(r)
  <2>1. review'[r].step = "reloaded"
    BY <1>1, <1>10, ReloadGoes DEF Goes
  <2> QED BY <1>3, <2>1
<1>11. CASE RenameRaises(r) \/ ScanRaises(r) \/ Approve(r) \/ NotLoaded(r)
  BY <1>4, <1>11 DEF RenameRaises, ScanRaises, Approve, NotLoaded, Raises
<1>12. ASSUME NEW j \in Job, NEW c \in Draft \cup {Edited}, ReviewOpens(r, j, c)
       PROVE  SoloOK(r)'
  <2> DEFINE x == [Idle EXCEPT !.step = "open", !.job = j, !.content = c]
  <2>1. review'[r] = x
    BY <1>1, <1>12 DEF ReviewOpens, TypeOK
  <2>2. x.step = "open"
    BY DEF Idle
  <2> HIDE DEF x
  <2> QED BY <1>3, <2>1, <2>2
<1>13. CASE Restart
  <2>1. review'[r] = Idle
    BY <1>13 DEF Restart
  <2> QED BY <1>3, <2>1 DEF Idle
<1>14. CASE Elsewhere
  BY <1>1, <1>2, <1>14, ElsewhereEffect
<1>15. \A q \in Reviewer : q = r
  BY DEF OneReview
<1> QED
  BY <1>5, <1>6, <1>7, <1>8, <1>9, <1>10, <1>11, <1>12, <1>13, <1>14, <1>15
  DEF Next, Serve, Publish, Elsewhere

\* With one review at a time both parts are invariants.
LEMMA SoloInductive == ASSUME OneReview PROVE Spec => [](IInv /\ SoloInv)
<1>1. Init => SoloInv
  BY Contents DEF Init, SoloInv, SoloHandlerInv, At, Idle, AllWhole, Document
<1>2. IInv /\ SoloInv /\ [Next]_vars => SoloInv'
  BY SoloStep
<1> QED BY <1>1, <1>2, Inductive, PTL DEF Spec

\* With one review at a time no crash and no failed step leaves an incomplete file
\* among the published ones.
THEOREM PublicationsAreWhole == ASSUME OneReview PROVE Spec => []PublishedIsWhole
<1>1. SoloInv => PublishedIsWhole
  BY DEF SoloInv, PublishedIsWhole
<1> QED BY <1>1, SoloInductive, PTL

\* With one review at a time a published version is never written again.
THEOREM VersionsStay == ASSUME OneReview PROVE Spec => VersionsAreImmutable
<1>1. IInv /\ SoloInv /\ [Next]_vars =>
        [\A j \in Job, v \in Version : files[j][v] # NoContent => files'[j][v] = files[j][v]]_vars
  BY SoloFiles
<1> QED BY <1>1, SoloInductive, PTL DEF Spec, VersionsAreImmutable

------------------------------------------------------------------------------
(* One review and no other reload at a time *)

\* The memory never holds a document that is not on disk, what a handler has found
\* in the directory is still all there is, and what the rows name is in memory.
LoadedInv ==
  /\ loaded \subseteq Documents
  /\ \A r \in Reviewer : At(r, "scanned") => review[r].seen = Documents
  /\ ApprovedIsLoaded

\* The directory grows.
LEMMA DocumentsGrow ==
  ASSUME IInv, [Next]_vars
  PROVE  Documents \subseteq Documents'
BY GrowsStep DEF Grows, Documents, Document

\* Where neither the rows' versions nor the memory change.
LEMMA LoadedStays ==
  ASSUME IInv, LoadedInv, [Next]_vars, loaded' = loaded, published' = published,
         \A r \in Reviewer : At(r, "scanned")' => review'[r].seen = Documents'
  PROVE  LoadedInv'
<1>1. loaded' \subseteq Documents'
  BY DocumentsGrow DEF LoadedInv
<1>2. ApprovedIsLoaded'
  BY DEF LoadedInv, ApprovedIsLoaded
<1> QED BY <1>1, <1>2 DEF LoadedInv

\* A memory that holds all that is on disk holds what the rows name.
LEMMA AllLoaded ==
  ASSUME IInv, files' = files, loaded' = Documents, published' = published,
         \A r \in Reviewer : At(r, "scanned")' => review'[r].seen = Documents'
  PROVE  LoadedInv'
<1>1. Documents' = Documents
  BY DEF Documents
<1>2. ASSUME NEW j \in Job, published[j] # 0
      PROVE  <<j, published[j]>> \in Documents
  <2>1. published[j] \in Version /\ files[j][published[j]] # NoContent
    BY <1>2, ResearchAssumption DEF IInv, TypeOK, ApprovedNamesItsFile, Version
  <2> QED BY <2>1 DEF Documents, Document
<1>3. ApprovedIsLoaded'
  BY <1>2 DEF ApprovedIsLoaded
<1> QED BY <1>1, <1>3 DEF LoadedInv

\* Every step keeps the three parts.
LEMMA LoadedStep ==
  ASSUME OneReview, Reader = {}, IInv, SoloInv, LoadedInv, [Next]_vars
  PROVE  LoadedInv' /\ loaded \subseteq loaded'
<1> USE DEF vars, rowVars, diskVars, processVars
<1>1. TypeOK /\ Documents \subseteq Documents'
  BY DocumentsGrow DEF IInv
<1>2. files' = files => Documents' = Documents
  BY DEF Documents
<1>3. \A r \in Reviewer : At(r, "scanned") => review[r].seen = Documents
  BY DEF LoadedInv
<1>4. CASE UNCHANGED <<review, files, loaded, published>>
  <2>1. \A r \in Reviewer : At(r, "scanned")' => review'[r].seen = Documents'
    BY <1>2, <1>3, <1>4 DEF At
  <2> QED BY <1>4, <2>1, LoadedStays
<1>5. CASE Elsewhere
  <2>1. UNCHANGED <<review, files>>
    BY <1>1, <1>5, ElsewhereEffect
  <2>2. UNCHANGED <<loaded, published>>
    BY <1>5 DEF Elsewhere, CreateJob, Dispatch, DispatchUnconfigured, DispatchPost, DispatchEnds,
                Reject, N8nAnswers, CallbackRead, CallbackWrite
  <2> QED BY <1>4, <2>1, <2>2
<1>6. ASSUME NEW r \in Reviewer, review'[r].step # "scanned", UNCHANGED <<loaded, published>>
      PROVE  LoadedInv' /\ loaded \subseteq loaded'
  <2>1. \A q \in Reviewer : ~At(q, "scanned")'
    BY <1>6 DEF At, OneReview
  <2> QED BY <1>6, <2>1, LoadedStays
<1>7. ASSUME NEW r \in Reviewer, NEW j \in Job, NEW c \in Draft \cup {Edited}, ReviewOpens(r, j, c)
      PROVE  LoadedInv' /\ loaded \subseteq loaded'
  <2> DEFINE x == [Idle EXCEPT !.step = "open", !.job = j, !.content = c]
  <2>1. review'[r] = x /\ UNCHANGED <<loaded, published>>
    BY <1>1, <1>7 DEF ReviewOpens, TypeOK
  <2>2. x.step = "open"
    BY DEF Idle
  <2> HIDE DEF x
  <2> QED BY <1>6, <2>1, <2>2
<1>8. ASSUME NEW r \in Reviewer, Publish(r)
      PROVE  LoadedInv' /\ loaded \subseteq loaded'
  <2>1. CASE PickVersion(r)
    <3>1. review'[r].step = "picked"
      BY <1>1, <2>1, PickGoes DEF Goes
    <3> QED BY <1>6, <2>1, <3>1 DEF PickVersion
  <2>2. CASE Truncate(r)
    <3>1. review'[r].step = "truncated"
      BY <1>1, <2>2, TruncateGoes DEF Goes
    <3> QED BY <1>6, <2>2, <3>1 DEF Truncate
  <2>3. CASE WriteDraft(r)
    <3>1. review'[r].step = "written"
      BY <1>1, <2>3, WriteGoes DEF Goes
    <3> QED BY <1>6, <2>3, <3>1 DEF WriteDraft
  <2>4. CASE Rename(r)
    <3>1. review'[r].step = "renamed"
      BY <1>1, <2>4, RenameGoes
    <3> QED BY <1>6, <2>4, <3>1 DEF Rename
  <2>5. CASE Scan(r)
    <3>1. review'[r].seen = Documents
      BY <1>1, <2>5, ScanGoes DEF Goes
    <3>2. UNCHANGED <<files, loaded, published>>
      BY <2>5 DEF Scan
    <3>3. \A q \in Reviewer : At(q, "scanned")' => review'[q].seen = Documents'
      BY <1>2, <3>1, <3>2 DEF OneReview
    <3> QED BY <3>2, <3>3, LoadedStays
  <2>6. CASE Reload(r)
    <3>1. review'[r].step = "reloaded"
      BY <1>1, <2>6, ReloadGoes DEF Goes
    <3>2. loaded' = Documents /\ UNCHANGED <<files, published>>
      BY <1>3, <2>6 DEF Reload
    <3>3. \A q \in Reviewer : ~At(q, "scanned")'
      BY <3>1 DEF At, OneReview
    <3>4. loaded \subseteq loaded'
      BY <3>2 DEF LoadedInv
    <3> QED BY <3>2, <3>3, <3>4, AllLoaded
  <2>7. CASE Approve(r)
    <3> DEFINE j == review[r].job
               v == review[r].version
    <3>1. <<j, v>> \in loaded /\ published' = [published EXCEPT ![j] = v] /\ UNCHANGED <<loaded, files>>
      BY <2>7 DEF Approve, PublishedDocument
    <3>2. review'[r] = Idle
      BY <1>1, <2>7 DEF Approve, TypeOK
    <3>3. \A q \in Reviewer : ~At(q, "scanned")'
      BY <3>2 DEF At, OneReview, Idle
    <3>4. ApprovedIsLoaded'
      <4> HIDE DEF j, v
      <4> QED BY <1>1, <3>1 DEF LoadedInv, ApprovedIsLoaded, TypeOK
    <3>5. loaded' \subseteq Documents'
      BY <1>2, <3>1 DEF LoadedInv
    <3> QED BY <3>1, <3>3, <3>4, <3>5 DEF LoadedInv
  <2>8. CASE RenameRaises(r) \/ ScanRaises(r) \/ NotLoaded(r)
    <3>1. review'[r] = Idle /\ UNCHANGED <<loaded, published>>
      BY <1>1, <2>8 DEF RenameRaises, ScanRaises, NotLoaded, Raises, TypeOK
    <3> QED BY <1>6, <3>1 DEF Idle
  <2> QED BY <1>8, <2>1, <2>2, <2>3, <2>4, <2>5, <2>6, <2>7, <2>8 DEF Publish
<1>9. CASE Restart
  <2>1. /\ loaded' = Documents /\ UNCHANGED <<files, published>>
        /\ \A q \in Reviewer : review'[q] = Idle
    BY <1>9 DEF Restart
  <2>2. \A q \in Reviewer : ~At(q, "scanned")'
    BY <2>1 DEF At, Idle
  <2>3. loaded \subseteq loaded'
    BY <2>1 DEF LoadedInv
  <2> QED BY <2>1, <2>2, <2>3, AllLoaded
<1> QED BY <1>5, <1>7, <1>8, <1>9 DEF Next, Serve, Elsewhere

\* With one review and no other reload at a time the three parts are invariants.
LEMMA LoadedInductive ==
  ASSUME OneReview, Reader = {}
  PROVE  Spec => [](IInv /\ SoloInv /\ LoadedInv)
<1>1. Init => LoadedInv
  BY DEF Init, LoadedInv, At, Idle, ApprovedIsLoaded
<1>2. IInv /\ SoloInv /\ LoadedInv /\ [Next]_vars => LoadedInv'
  BY LoadedStep
<1> QED BY <1>1, <1>2, SoloInductive, PTL DEF Spec

\* With one review and no other reload at a time the version a row names is in the
\* memory the assistants answer from, also after a crash.
THEOREM ApprovedStaysLoaded == ASSUME OneReview, Reader = {} PROVE Spec => []ApprovedIsLoaded
<1>1. LoadedInv => ApprovedIsLoaded
  BY DEF LoadedInv
<1> QED BY <1>1, LoadedInductive, PTL
=============================================================================
