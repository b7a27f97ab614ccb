---------------------------- MODULE DialogueProofs ----------------------------
(***************************************************************************)
(* What is proved of a customer who sends one request at a time, whatever  *)
(* fails or crashes: the row of the session implements SessionLog, what is *)
(* proposed to the staff repeats what the customer said, and the proposals *)
(* between two resets name one customer.                                   *)
(***************************************************************************)
EXTENDS ReplyProofs

\* The steps of a session with one request at a time, each with who is at work.
LEMMA StepsAlone ==
  ASSUME MaxConcurrent <= 1, TypeOK, Refs, Sequential, [Next]_vars
  PROVE  \/ \E n \in Turn :
              /\ Busy = {} /\ Arrives(n)
              /\ \A i \in 1..n-1 : turn[i].pc # "idle"
              /\ UNCHANGED <<recorded, proposed>>
         \/ \E n \in Turn : Busy = {n} /\ TurnStep(n) /\ TurnMoves(n) /\ UNCHANGED reset
         \/ \E k \in Reset : Busy = {} /\ Clears(k) /\ UNCHANGED proposed
         \/ \E k \in Reset : Busy = {k} /\ ResetMoves(k) /\ UNCHANGED proposed
         \/ Dies /\ UNCHANGED proposed
         \/ UNCHANGED <<cached, object, row, turn, reset, proposed>>
<1>1. ASSUME NEW n \in Turn, Arrive(n)
      PROVE  /\ Busy = {} /\ Arrives(n)
             /\ \A i \in 1..n-1 : turn[i].pc # "idle"
             /\ UNCHANGED <<recorded, proposed>>
  BY <1>1, NobodyIsBusy, ArrivalMoves DEF Arrive, Begin, tables
<1>2. ASSUME NEW n \in Turn, TurnStep(n)
      PROVE  Busy = {n} /\ TurnMoves(n) /\ UNCHANGED reset
  <2>1. Progress(n)
    BY <1>2, ProgressSteps
  <2>2. n \in Busy
    BY <2>1 DEF Progress, Busy
  <2> QED BY <1>2, <2>2, TurnSteps DEF Sequential
<1>3. ASSUME NEW k \in Reset, ResetBegins(k)
      PROVE  Busy = {} /\ Clears(k) /\ UNCHANGED proposed
  BY <1>3, NobodyIsBusy, ResetBeginsMoves DEF ResetBegins, tables
<1>4. ASSUME NEW k \in Reset, ResetStep(k)
      PROVE  Busy = {k} /\ ResetMoves(k) /\ UNCHANGED proposed
  <2>1. k \in Busy
    BY <1>4 DEF ResetStep, ResetSnapshot, ResetWrites, ResetFails, Busy, Resetting
  <2>2. UNCHANGED proposed
    BY <1>4 DEF ResetStep, ResetSnapshot, ResetWrites, ResetFails, tables
  <2> QED BY <1>4, <2>1, <2>2, ResetSteps DEF Sequential
<1>5. Crash => Dies /\ UNCHANGED proposed
  BY CrashMoves DEF Crash, tables
<1>6. UNCHANGED vars => UNCHANGED <<cached, object, row, turn, reset, proposed>>
  BY DEF vars, memory, tables
<1> QED BY <1>1, <1>2, <1>3, <1>4, <1>5, <1>6 DEF Next

------------------------------------------------------------------------------
(* Who is at work has what the process has *)

\* The object in the dict is the one the turn works on; what the turn loaded is
\* the row, and what it saves is what the object says.
Holds(n) ==
  /\ turn[n].pc \in Working => turn[n].object = cached
  /\ turn[n].pc \in {"load", "install"} => cached = NoObject
  /\ turn[n].pc = "install" => turn[n].saved = row
  /\ turn[n].pc = "fetch" => object[cached] = row
  /\ turn[n].pc = "write" => turn[n].saved.history = object[cached].history
  /\ turn[n].pc \in {"record", "propose"} => row.history = object[cached].history

\* Whoever does not work holds nothing.
LEMMA IdleHolds ==
  ASSUME NEW n \in Turn, ~InProgress(n)
  PROVE  Holds(n)
BY DEF InProgress, Ended, Holds, Working

\* A step of a turn leaves it with what the process has.
LEMMA HoldsTurn ==
  ASSUME TypeOK, Refs, NEW n \in Turn, Holds(n), TurnMoves(n), UNCHANGED reset
  PROVE  Holds(n)'
<1>1. /\ object \in [Object -> SessionState] /\ turn \in [Turn -> TurnState]
      /\ cached \in Object \cup {NoObject}
  BY DEF TypeOK
<1>2. CASE Loads(n)
  BY <1>2 DEF Loads, Moved, Holds, Working
<1>3. CASE Installs(n)
  BY <1>1, <1>3, Names DEF Installs, Moved, Holds, Working
<1>4. CASE Fetches(n)
  BY <1>4 DEF Fetches, Moved, Holds, Working
<1>5. CASE Thinks(n)
  BY <1>5 DEF Thinks, Thinking, Moved, Holds, Working
<1>6. ASSUME NEW from \in {"ask", "reply", "extend"}, NEW to \in {"reply", "snapshot"},
             NEW entries, Tells(n, from, to, entries)
      PROVE  Holds(n)'
  BY <1>6 DEF Tells, Moved, Holds, Working
<1>7. CASE Snapshots(n)
  BY <1>7 DEF Snapshots, Session, Moved, Holds, Working
<1>8. CASE Writes(n)
  BY <1>8 DEF Writes, Moved, Holds, Working
<1>9. CASE Proposes(n)
  BY <1>9 DEF Proposes, Moved, Holds, Working
<1>10. CASE Leaves(n)
  BY <1>10 DEF Leaves, Moved, Holds, Working, Ended
<1> QED BY <1>2, <1>3, <1>4, <1>5, <1>6, <1>7, <1>8, <1>9, <1>10 DEF TurnMoves

\* The turns come in their order, each when the earlier ones have ended.
InOrder ==
  \A i, j \in Turn : i < j /\ turn[j].pc # "idle" => turn[i].pc # "idle" /\ ~InProgress(i)

\* The resets before a turn have ended, and no reset met another request.
Past ==
  /\ \A n \in Turn : \A k \in turn[n].after : reset[k].pc \in {"done", "failed"}
  /\ \A k \in Reset : reset[k].pc \in {"snapshot", "write", "done"} => reset[k].quiet

\* The histories of turns that have begun.
Begun == {history \in Seq(Entry) : \A e \in ToSet(history) : turn[e[1]].pc # "idle"}

Settled == (\A n \in Turn : Holds(n)) /\ InOrder /\ Past /\ Widespread(Begun)

\* What has begun stays as it was, and what has ended stays ended.
LEMMA PastStays ==
  ASSUME MaxConcurrent <= 1, TypeOK, Refs, Sequential, [Next]_vars
  PROVE  /\ \A n \in Turn : turn[n].pc # "idle" =>
              /\ turn'[n].pc # "idle" /\ turn'[n].after = turn[n].after
              /\ turn'[n].message = turn[n].message
         /\ \A k \in Reset : reset[k].pc \in {"done", "failed"} => reset'[k].pc = reset[k].pc
         /\ Asked \subseteq Asked'
<1>1. ASSUME NEW n \in Turn, Arrives(n)
      PROVE  /\ \A i \in Turn : turn[i].pc # "idle" =>
                  /\ turn'[i].pc # "idle" /\ turn'[i].after = turn[i].after
                  /\ turn'[i].message = turn[i].message
             /\ \A k \in Reset : reset'[k].pc = reset[k].pc
  BY <1>1 DEF Arrives, Stays, Meets
<1>2. ASSUME NEW n \in Turn, TurnStep(n), TurnMoves(n), UNCHANGED reset
      PROVE  \A i \in Turn : turn[i].pc # "idle" =>
               /\ turn'[i].pc # "idle" /\ turn'[i].after = turn[i].after
               /\ turn'[i].message = turn[i].message
  <2>1. /\ turn'[n].after = turn[n].after /\ turn'[n].pc # "idle"
        /\ \A i \in Turn : i # n => turn'[i] = turn[i]
    BY <1>2 DEF TurnMoves, Loads, Installs, Fetches, Thinks, Thinking, Tells, Snapshots, Writes,
                Proposes, Leaves, Moved, Ended
  <2>2. turn'[n].message = turn[n].message
    <3>1. Advances(n)
      BY <1>2, ProgressSteps DEF Progress
    <3> QED BY <3>1 DEF Advances, Same
  <2> QED BY <2>1, <2>2
<1>3. ASSUME NEW k \in Reset, Clears(k) \/ ResetMoves(k)
      PROVE  /\ \A i \in Turn : turn'[i].pc = turn[i].pc /\ turn'[i].after = turn[i].after
                                /\ turn'[i].message = turn[i].message
             /\ \A i \in Reset : i # k => reset'[i].pc = reset[i].pc
             /\ reset[k].pc \in {"idle", "snapshot", "write"} /\ reset'[k].pc # "idle"
  BY <1>3 DEF Clears, ResetMoves, ResetMoved, Stays, Meets
<1>4. CASE Dies
  <2>1. \A i \in Turn : turn[i].pc # "idle" =>
          /\ turn'[i].pc # "idle" /\ turn'[i].after = turn[i].after
          /\ turn'[i].message = turn[i].message
    BY <1>4 DEF Dies
  <2>2. \A k \in Reset : /\ reset[k].pc \in {"done", "failed"} => reset'[k].pc = reset[k].pc
                         /\ reset[k].pc # "idle" => reset'[k].pc # "idle"
    BY <1>4 DEF Dies, Resetting
  <2> QED BY <2>1, <2>2 DEF Asked
<1> QED BY <1>1, <1>2, <1>3, <1>4, StepsAlone DEF Asked

\* Histories that have begun stay so.
LEMMA BegunStays ==
  ASSUME MaxConcurrent <= 1, TypeOK, Refs, Sequential, [Next]_vars
  PROVE  Begun \subseteq Begun'
<1> SUFFICES ASSUME NEW h \in Begun PROVE h \in Begun'
  OBVIOUS
<1>1. h \in Seq(Entry) /\ \A e \in ToSet(h) : turn[e[1]].pc # "idle"
  BY DEF Begun
<1>2. \A e \in ToSet(h) : e[1] \in Turn
  <2>1. \A i \in DOMAIN h : h[i] \in Entry
    BY <1>1, ElementOfSeq
  <2> QED BY <2>1 DEF ToSet, Entry
<1> QED BY <1>1, <1>2, PastStays DEF Begun

\* So does every step of a session with one request at a time.
LEMMA HoldsNext ==
  ASSUME MaxConcurrent <= 1
  PROVE  /\ TypeOK /\ Refs /\ Sequential /\ (\A n \in Turn : Holds(n)) /\ [Next]_vars
         => (\A n \in Turn : Holds(n))'
<1> SUFFICES ASSUME TypeOK, Refs, Sequential, \A n \in Turn : Holds(n), [Next]_vars, NEW n \in Turn
             PROVE  Holds(n)'
  OBVIOUS
<1>1. CASE ~InProgress(n)'
  BY <1>1 DEF InProgress, Ended, Holds, Working
<1>2. ASSUME NEW i \in Turn, Busy = {}, Arrives(i), InProgress(n)'
      PROVE  Holds(n)'
  <2>1. ~InProgress(n)
    BY <1>2 DEF Busy
  <2>2. i = n
    BY <1>2, <2>1 DEF Arrives, Stays, InProgress
  <2> QED BY <1>2, <2>2 DEF Arrives, Holds, Working
<1>3. ASSUME NEW i \in Turn, Busy = {i}, TurnMoves(i), UNCHANGED reset, InProgress(n)'
      PROVE  Holds(n)'
  <2>1. \A m \in Turn : m # i => turn'[m] = turn[m]
    BY <1>3 DEF TurnMoves, Loads, Installs, Fetches, Thinks, Tells, Snapshots, Writes, Proposes,
                Leaves, Moved
  <2>2. i = n
    BY <1>3, <2>1 DEF Busy, InProgress
  <2> QED BY <1>3, <2>2, HoldsTurn
<1>4. ASSUME NEW k \in Reset, Busy \in {{}, {k}}, Clears(k) \/ ResetMoves(k), InProgress(n)'
      PROVE  FALSE
  <2>1. turn'[n].pc = turn[n].pc
    BY <1>4 DEF Clears, ResetMoves, ResetMoved, Stays
  <2>2. n \in Busy
    BY <1>4, <2>1 DEF Busy, InProgress
  <2> QED BY <1>4, <2>2, Names
<1>5. CASE Dies
  BY <1>1, <1>5 DEF Dies, InProgress, Ended
<1>6. CASE UNCHANGED <<cached, object, row, turn, reset>>
  BY <1>6 DEF Holds
<1> QED BY <1>1, <1>2, <1>3, <1>4, <1>5, <1>6, StepsAlone

\* Turns keep their order.
LEMMA InOrderNext ==
  ASSUME MaxConcurrent <= 1
  PROVE  TypeOK /\ Refs /\ Sequential /\ InOrder /\ [Next]_vars => InOrder'
<1> SUFFICES ASSUME TypeOK, Refs, Sequential, InOrder, [Next]_vars,
                    NEW i \in Turn, NEW j \in Turn, i < j, turn'[j].pc # "idle"
             PROVE  turn'[i].pc # "idle" /\ ~InProgress(i)'
  BY DEF InOrder
<1>1. turn[j].pc # "idle" => turn'[i].pc # "idle" /\ ~InProgress(i)
  BY PastStays DEF InOrder
<1>2. ASSUME NEW n \in Turn, Busy = {}, Arrives(n), \A m \in 1..n-1 : turn[m].pc # "idle"
      PROVE  turn'[i].pc # "idle" /\ ~InProgress(i)'
  <2>1. CASE j = n
    <3>1. turn[i].pc # "idle"
      BY <1>2, <2>1, OrchestratorAssumption DEF Turn
    <3>2. ~InProgress(i)
      BY <1>2 DEF Busy
    <3>3. turn'[i].pc = turn[i].pc
      BY <1>2, <2>1 DEF Arrives, Stays, Turn
    <3> QED BY <3>1, <3>2, <3>3 DEF InProgress
  <2>2. CASE j # n
    <3>1. turn[j].pc # "idle"
      BY <1>2, <2>2 DEF Arrives, Stays
    <3>2. turn[i].pc # "idle"
      BY <3>1 DEF InOrder
    <3>3. turn'[i].pc = turn[i].pc
      BY <1>2, <3>2 DEF Arrives, Stays
    <3> QED BY <1>1, <3>1, <3>3 DEF InProgress
  <2> QED BY <2>1, <2>2
<1>3. ASSUME NEW n \in Turn, Busy = {n}, TurnMoves(n)
      PROVE  turn'[i].pc # "idle" /\ ~InProgress(i)'
  <2>1. \A m \in Turn : m # n => turn'[m] = turn[m]
    BY <1>3 DEF TurnMoves, Loads, Installs, Fetches, Thinks, Tells, Snapshots, Writes, Proposes,
                Leaves, Moved
  <2>2. InProgress(n) /\ turn[n].pc # "idle"
    BY <1>3, Names DEF Busy, InProgress
  <2>3. turn[j].pc # "idle"
    BY <2>1, <2>2
  <2>4. i # n
    BY <1>1, <2>2, <2>3
  <2> QED BY <1>1, <2>1, <2>3, <2>4 DEF InProgress
<1>4. ASSUME NEW k \in Reset, Clears(k) \/ ResetMoves(k)
      PROVE  turn'[i].pc # "idle" /\ ~InProgress(i)'
  <2>1. \A m \in Turn : turn'[m].pc = turn[m].pc
    BY <1>4 DEF Clears, ResetMoves, ResetMoved, Stays
  <2> QED BY <1>1, <2>1 DEF InProgress
<1>5. CASE Dies
  <2>1. ~InProgress(i)' /\ (turn'[j].pc # "idle" => turn[j].pc # "idle")
    BY <1>5 DEF Dies, InProgress, Ended
  <2> QED BY <1>1, <2>1
<1>6. CASE UNCHANGED turn
  BY <1>1, <1>6 DEF InProgress
<1> QED BY <1>2, <1>3, <1>4, <1>5, <1>6, StepsAlone

\* Resets that came before a turn have ended, and stay quiet.
LEMMA PastNext ==
  ASSUME MaxConcurrent <= 1
  PROVE  TypeOK /\ Refs /\ Sequential /\ Past /\ [Next]_vars => Past'
<1> SUFFICES ASSUME TypeOK, Refs, Sequential, Past, [Next]_vars PROVE Past'
  OBVIOUS
<1>1. \A k \in Reset : reset[k].pc \in ResetStage
  BY DEF TypeOK, ResetState
<1>2. ASSUME NEW n \in Turn, Busy = {}, Arrives(n) PROVE Past'
  <2>1. \A k \in Reset : ~Resetting(k)
    BY <1>2 DEF Busy
  <2>2. \A k \in Asked : reset[k].pc \in {"done", "failed"}
    BY <1>1, <2>1 DEF Asked, Resetting, ResetStage
  <2>3. \A m \in Turn : turn'[m].after \in {turn[m].after, Asked}
    BY <1>2 DEF Arrives, Stays
  <2>4. \A k \in Reset : reset'[k].pc = reset[k].pc /\ reset'[k].quiet = reset[k].quiet
    BY <1>2, <2>1 DEF Arrives, Meets, TypeOK, ResetState
  <2>5. \A m \in Turn : \A k \in turn[m].after : k \in Reset
    BY DEF TypeOK, TurnState
  <2> QED BY <2>2, <2>3, <2>4, <2>5 DEF Past, Asked
<1>3. ASSUME NEW n \in Turn, TurnMoves(n), UNCHANGED reset PROVE Past'
  <2>1. \A m \in Turn : turn'[m].after = turn[m].after
    BY <1>3 DEF TurnMoves, Loads, Installs, Fetches, Thinks, Tells, Snapshots, Writes, Proposes,
                Leaves, Moved
  <2> QED BY <1>3, <2>1 DEF Past
<1>4. ASSUME NEW k \in Reset, Busy = {}, Clears(k) PROVE Past'
  <2>1. \A i \in Reset : ~Resetting(i)
    BY <1>4 DEF Busy
  <2>2. \A m \in Turn : turn'[m].after = turn[m].after /\ k \notin turn[m].after
    BY <1>4 DEF Clears, Stays, Past
  <2>3. \A i \in Reset : i # k =>
          reset'[i].pc = reset[i].pc /\ reset'[i].quiet = reset[i].quiet
    BY <1>4, <2>1 DEF Clears, Meets, TypeOK, ResetState
  <2>4. reset'[k].quiet
    BY <1>4 DEF Clears
  <2>5. \A m \in Turn : \A i \in turn[m].after : i \in Reset
    BY DEF TypeOK, TurnState
  <2> QED BY <2>2, <2>3, <2>4, <2>5 DEF Past
<1>5. ASSUME NEW k \in Reset, ResetMoves(k) PROVE Past'
  <2>1. /\ UNCHANGED turn /\ \A i \in Reset : i # k => reset'[i] = reset[i]
        /\ reset[k].pc \in {"snapshot", "write"}
        /\ reset'[k].pc \in {"write", "done"} => reset'[k].quiet = reset[k].quiet
        /\ reset'[k].pc \in {"write", "done", "failed"}
    BY <1>5 DEF ResetMoves, ResetMoved
  <2>2. \A m \in Turn : \A i \in turn[m].after : i \in Reset
    BY DEF TypeOK, TurnState
  <2> QED BY <2>1, <2>2 DEF Past
<1>6. CASE Dies
  <2>1. \A m \in Turn : turn'[m].after = turn[m].after
    BY <1>6 DEF Dies
  <2>2. \A k \in Reset : reset'[k] = reset[k] \/ (Resetting(k) /\ reset'[k].pc = "failed")
    BY <1>6 DEF Dies
  <2>3. \A m \in Turn : \A i \in turn[m].after : i \in Reset
    BY DEF TypeOK, TurnState
  <2> QED BY <2>1, <2>2, <2>3 DEF Past, Resetting
<1>7. CASE UNCHANGED <<turn, reset>>
  BY <1>7 DEF Past
<1> QED BY <1>2, <1>3, <1>4, <1>5, <1>6, <1>7, StepsAlone

\* What is true of every copy of the history stays true of every copy, when it is
\* true of an empty history and of what the turn at work adds.
LEMMA SpreadsOn ==
  ASSUME MaxConcurrent <= 1, TypeOK, Refs, Sequential, [Next]_vars, NEW S, Widespread(S),
         (\E k \in Reset : Clears(k)) => <<>> \in S,
         \A n \in Turn : InProgress(n) => \A h \in S, entries \in Seq(Entry) :
           h \in Seq(Entry) /\ ToSet(entries) \subseteq EntriesBy(n) => h \o entries \in S
  PROVE  WidespreadNext(S)
<1>1. ASSUME NEW n \in Turn, Arrives(n) PROVE WidespreadNext(S)
  BY <1>1, WidespreadArrival
<1>2. ASSUME NEW n \in Turn, Busy = {n}, TurnMoves(n), UNCHANGED reset PROVE WidespreadNext(S)
  <2>1. InProgress(n)
    BY <1>2, Names DEF Busy
  <2> QED BY <1>2, <2>1, WidespreadTurn
<1>3. ASSUME NEW k \in Reset, Clears(k) \/ ResetMoves(k) PROVE WidespreadNext(S)
  BY <1>3, WidespreadReset
<1>4. Dies => WidespreadNext(S)
  BY WidespreadCrash
<1>5. UNCHANGED <<cached, object, row, turn, reset>> => WidespreadNext(S)
  BY DEF Widespread, WidespreadNext
<1> QED BY <1>1, <1>2, <1>3, <1>4, <1>5, StepsAlone

\* A turn of a history.
LEMMA EntryTurn ==
  ASSUME NEW history \in Seq(Entry), NEW e \in ToSet(history)
  PROVE  e \in Entry /\ e[1] \in Turn
<1>1. \A i \in DOMAIN history : history[i] \in Entry
  BY ElementOfSeq
<1> QED BY <1>1 DEF ToSet, Entry

\* Every copy of the history is of turns that have begun.
LEMMA BegunNext ==
  ASSUME MaxConcurrent <= 1
  PROVE  TypeOK /\ Refs /\ Sequential /\ Widespread(Begun) /\ [Next]_vars => Widespread(Begun)'
<1> SUFFICES ASSUME TypeOK, Refs, Sequential, Widespread(Begun), [Next]_vars
             PROVE  Widespread(Begun)'
  OBVIOUS
<1> DEFINE S == Begun
<1>1. Widespread(S) /\ <<>> \in S
  BY DEF Begun, ToSet
<1>2. ASSUME NEW n \in Turn, InProgress(n), NEW h \in S, NEW entries \in Seq(Entry),
             h \in Seq(Entry), ToSet(entries) \subseteq EntriesBy(n)
      PROVE  h \o entries \in S
  <2>1. h \o entries \in Seq(Entry) /\ ToSet(h \o entries) = ToSet(h) \cup ToSet(entries)
    BY <1>2, SaidStays, ConcatProperties
  <2>2. \A e \in EntriesBy(n) : e[1] = n
    BY DEF EntriesBy
  <2> QED BY <1>2, <2>1, <2>2 DEF Begun, InProgress
<1> HIDE DEF S
<1>3. WidespreadNext(S)
  BY <1>1, <1>2, SpreadsOn
<1>4. WidespreadNext(Begun)
  BY <1>3 DEF S
<1>5. Begun \subseteq Begun'
  BY BegunStays
<1>6. WidespreadNext(Begun')
  BY <1>4, <1>5 DEF WidespreadNext
<1> QED BY <1>6 DEF Widespread, WidespreadNext

\* All of it holds at the start.
LEMMA SettledInit == Init => Settled
<1>1. IdleTurn.pc = "idle" /\ IdleReset.pc = "idle" /\ IdleTurn.after = {}
      /\ NewSession.history = <<>>
  BY DEF IdleTurn, IdleReset, NewSession
<1>2. <<>> \in Begun
  BY DEF Begun, ToSet
<1> SUFFICES ASSUME Init PROVE Settled
  OBVIOUS
<1>3. /\ \A n \in Turn : turn[n].pc = "idle" /\ turn[n].after = {}
      /\ \A k \in Reset : reset[k].pc = "idle"
      /\ row.history = <<>> /\ cached = NoObject
  BY <1>1 DEF Init
<1>4. \A n \in Turn : Holds(n)
  BY <1>3, IdleHolds DEF InProgress
<1>5. Widespread(Begun)
  <2> HIDE DEF Begun
  <2> QED BY <1>2, <1>3 DEF Widespread, Working
<1> QED BY <1>3, <1>4, <1>5 DEF Settled, InOrder, Past

\* What holds of a session with one request at a time.
Alongside == Typed /\ Soundness /\ Sequential /\ Settled /\ QuietStays

\* The invariants of a session with one request at a time.
LEMMA AlongsideInductive ==
  ASSUME MaxConcurrent <= 1
  PROVE  Spec => []Alongside
<1>1. Init => Settled
  BY SettledInit
<1>2. Typed /\ Sequential /\ Settled /\ [Next]_vars => Settled'
  BY HoldsNext, InOrderNext, PastNext, BegunNext DEF Settled, Typed
<1>3. Init => QuietStays
  BY DEF Init, QuietStays, IdleReset
<1>4. Typed /\ QuietStays /\ [Next]_vars => QuietStays'
  BY QuietNext
<1>5. Spec => [](Typed /\ Soundness /\ Sequential)
  BY SequentialInductive, PTL
<1> QED BY <1>1, <1>2, <1>3, <1>4, <1>5, PTL DEF Spec, Alongside

------------------------------------------------------------------------------
(* The row is the log of SessionLog *)

\* One exchange more, of the same turn or of a later one.
LEMMA ExchangesGrow ==
  ASSUME NEW h \in Seq(Entry), Log!Exchanges(h), NEW n \in Turn, \A e \in ToSet(h) : e[1] <= n,
         NEW l \in Seq(Entry), Len(l) = Len(h) + 2, \A i \in 1..Len(h) : l[i] = h[i],
         l[Len(h) + 1] = <<n, "question">>, l[Len(h) + 2] = <<n, "answer">>
  PROVE  Log!Exchanges(l)
<1> DEFINE L == Len(h)
<1>1. L \in Nat /\ L % 2 = 0 /\ n \in Int
  <2>1. L % 2 = 0
    BY DEF Log!Exchanges
  <2>2. n \in Int
    BY DEF Turn
  <2> QED BY <2>1, <2>2, LenProperties
<1>2. \A i \in 1..L : /\ i % 2 = 1 => h[i][2] = "question" /\ h[i+1] = <<h[i][1], "answer">>
                      /\ i < L => h[i][1] <= h[i+1][1]
  BY DEF Log!Exchanges
<1>3. \A i \in 1..L : h[i][1] <= n
  BY DEF ToSet
<1>4. (L + 2) % 2 = 0
  BY <1>1
<1>5. ASSUME NEW i \in 1..L+2
      PROVE  /\ i % 2 = 1 => l[i][2] = "question" /\ l[i+1] = <<l[i][1], "answer">>
             /\ i < L+2 => l[i][1] <= l[i+1][1]
  <2>1. CASE i < L
    <3>1. i \in 1..L /\ i+1 \in 1..L
      BY <1>1, <2>1
    <3>2. l[i] = h[i] /\ l[i+1] = h[i+1]
      BY <3>1
    <3> QED BY <1>2, <2>1, <3>1, <3>2
  <2>2. CASE i = L
    <3>1. i % 2 # 1 /\ i \in 1..L
      BY <1>1, <2>2
    <3>2. l[i][1] <= n /\ l[i+1][1] = n
      BY <1>3, <2>2, <3>1
    <3> QED BY <3>1, <3>2
  <2>3. CASE i = L+1
    <3>1. i+1 = L+2
      BY <1>1, <2>3
    <3>2. l[i] = <<n, "question">> /\ l[i+1] = <<n, "answer">>
      BY <2>3, <3>1
    <3>3. l[i][1] <= l[i+1][1]
      BY <1>1, <3>2
    <3> QED BY <3>2, <3>3
  <2>4. CASE i = L+2
    <3>1. i % 2 # 1 /\ ~(i < L+2)
      BY <1>1, <1>4, <2>4
    <3> QED BY <3>1
  <2> QED BY <1>1, <2>1, <2>2, <2>3, <2>4
<1>6. Len(l) = L + 2
  OBVIOUS
<1> HIDE DEF L
<1> QED BY <1>4, <1>5, <1>6 DEF Log!Exchanges

\* A sequence that is followed by another one.
LEMMA ConcatIndexed ==
  ASSUME NEW S, NEW s \in Seq(S), NEW t \in Seq(S), NEW c \in Nat, Len(t) = c
  PROVE  /\ s \o t \in Seq(S) /\ Len(s \o t) = Len(s) + c
         /\ \A i \in 1..Len(s) + c : (s \o t)[i] = IF i <= Len(s) THEN s[i] ELSE t[i - Len(s)]
BY ConcatProperties

\* An answer that comes at once, and one that comes after its question.
LEMMA AnswersGrow ==
  ASSUME NEW h \in Seq(Entry), Log!Exchanges(h), NEW n \in Turn, \A e \in ToSet(h) : e[1] <= n
  PROVE  /\ Log!Exchanges(h \o << <<n, "question">>, <<n, "answer">> >>)
         /\ Log!Exchanges((h \o << <<n, "question">> >>) \o << <<n, "answer">> >>)
<1> DEFINE q == << <<n, "question">> >>
           a == << <<n, "answer">> >>
           qa == << <<n, "question">>, <<n, "answer">> >>
<1>1. q \in Seq(Entry) /\ a \in Seq(Entry) /\ qa \in Seq(Entry)
  BY EntriesOf
<1>2. /\ q[1] = <<n, "question">> /\ a[1] = <<n, "answer">>
      /\ qa[1] = <<n, "question">> /\ qa[2] = <<n, "answer">>
  OBVIOUS
<1>3. Len(q) = 1 /\ Len(a) = 1 /\ Len(qa) = 2
  OBVIOUS
<1> HIDE DEF q, a, qa
<1>4. Log!Exchanges(h \o qa)
  <2>1. /\ h \o qa \in Seq(Entry) /\ Len(h \o qa) = Len(h) + 2
        /\ \A i \in 1..Len(h) + 2 : (h \o qa)[i] = IF i <= Len(h) THEN h[i] ELSE qa[i - Len(h)]
    <3>1. 2 \in Nat
      OBVIOUS
    <3> QED BY ONLY <1>1, <1>3, <3>1, h \in Seq(Entry), ConcatIndexed
  <2>2. /\ \A i \in 1..Len(h) : (h \o qa)[i] = h[i]
        /\ (h \o qa)[Len(h) + 1] = <<n, "question">>
        /\ (h \o qa)[Len(h) + 2] = <<n, "answer">>
    BY <1>2, <2>1
  <2> QED BY <2>1, <2>2, ExchangesGrow
<1>5. Log!Exchanges((h \o q) \o a)
  <2>1. /\ h \o q \in Seq(Entry) /\ Len(h \o q) = Len(h) + 1
        /\ \A i \in 1..Len(h) + 1 : (h \o q)[i] = IF i <= Len(h) THEN h[i] ELSE q[i - Len(h)]
    <3>1. 1 \in Nat
      OBVIOUS
    <3> QED BY ONLY <1>1, <1>3, <3>1, h \in Seq(Entry), ConcatIndexed
  <2> DEFINE l == (h \o q) \o a
  <2>2. /\ l \in Seq(Entry) /\ Len(l) = Len(h) + 2
        /\ \A i \in 1..Len(h) + 2 : l[i] = IF i <= Len(h) + 1 THEN (h \o q)[i] ELSE a[i - (Len(h) + 1)]
    <3> DEFINE hq == h \o q
    <3>1. hq \in Seq(Entry) /\ Len(hq) = Len(h) + 1
      BY <2>1
    <3> HIDE DEF hq
    <3>2. /\ hq \o a \in Seq(Entry) /\ Len(hq \o a) = Len(hq) + 1
          /\ \A i \in 1..Len(hq) + 1 : (hq \o a)[i] = IF i <= Len(hq) THEN hq[i] ELSE a[i - Len(hq)]
      <4>1. hq \in Seq(Entry) /\ a \in Seq(Entry) /\ 1 \in Nat /\ Len(a) = 1
        BY <1>1, <1>3, <3>1
      <4> QED BY ONLY <4>1, ConcatIndexed
    <3>3. Len(h) \in Nat /\ Len(hq) + 1 = Len(h) + 2
      BY <3>1, LenProperties
    <3> QED BY <3>1, <3>2, <3>3 DEF hq
  <2>3. /\ \A i \in 1..Len(h) : l[i] = h[i]
        /\ l[Len(h) + 1] = <<n, "question">>
        /\ l[Len(h) + 2] = <<n, "answer">>
    <3> HIDE DEF l
    <3> QED BY <1>2, <2>1, <2>2
  <2> HIDE DEF l
  <2>4. Log!Exchanges(l)
    BY <2>2, <2>3, ExchangesGrow
  <2> QED BY <2>4 DEF l
<1> QED BY <1>4, <1>5 DEF q, a, qa

\* One history begins with the other.
Starts(s, t) == Len(s) <= Len(t) /\ \A i \in 1..Len(s) : t[i] = s[i]

\* What Starts says is what the abstract log calls a prefix.
LEMMA StartsIsPrefix ==
  ASSUME NEW s \in Seq(Entry), NEW t \in Seq(Entry), Starts(s, t)
  PROVE  Log!IsPrefix(s, t)
<1> DEFINE L == Len(s)
<1>1. L \in Nat /\ L <= Len(t) /\ \A i \in 1..L : t[i] = s[i]
  BY LenProperties DEF Starts
<1>2. SubSeq(s, 1, L) = [i \in 1..L |-> s[i]]
  BY <1>1
<1>3. SubSeq(t, 1, L) = [i \in 1..L |-> t[i]]
  BY <1>1
<1> HIDE DEF L
<1>4. [i \in 1..L |-> s[i]] = [i \in 1..L |-> t[i]]
  BY <1>1
<1> QED BY <1>1, <1>2, <1>3, <1>4 DEF Log!IsPrefix, L

\* A history that goes on starts as it did.
LEMMA StartsGrows ==
  ASSUME NEW s \in Seq(Entry), NEW t \in Seq(Entry), Starts(s, t), NEW u \in Seq(Entry)
  PROVE  Starts(s, t \o u)
<1>1. /\ Len(t \o u) = Len(t) + Len(u) /\ Len(s) \in Nat /\ Len(t) \in Nat /\ Len(u) \in Nat
      /\ \A i \in 1..Len(t) + Len(u) : (t \o u)[i] = IF i <= Len(t) THEN t[i] ELSE u[i - Len(t)]
  BY ConcatProperties, LenProperties
<1> QED BY <1>1 DEF Starts

\* A history that begins after a reset which everything in the row precedes.
Apart(history) ==
  \E k \in Asked :
    /\ \A e \in ToSet(row.history) : k \notin turn[e[1]].after
    /\ \A e \in ToSet(history) : k \in turn[e[1]].after
    /\ \A n \in Turn : InProgress(n) => k \in turn[n].after

\* The row is made of whole exchanges, and so is the history in the process but for
\* a question that is just being answered.  What the process has continues the row,
\* or replaces it because a reset could not be written.
Logged ==
  /\ Log!Exchanges(row.history)
  /\ cached # NoObject =>
       /\ (\A n \in Turn : turn[n].pc # "reply") => Log!Exchanges(object[cached].history)
       /\ \A n \in Turn : turn[n].pc = "reply" =>
            Log!Exchanges(object[cached].history \o << <<n, "answer">> >>)
       /\ Starts(row.history, object[cached].history) \/ Apart(object[cached].history)

\* What is in the row and in the process has begun.
LEMMA HistoriesHaveBegun ==
  ASSUME TypeOK, Settled
  PROVE  /\ row.history \in Begun
         /\ cached # NoObject => object[cached].history \in Begun
BY DEF Settled, Widespread

\* And nothing in it is of a later turn than the one at work.
LEMMA NothingIsLater ==
  ASSUME TypeOK, Settled, NEW n \in Turn, InProgress(n), NEW h \in Begun
  PROVE  \A e \in ToSet(h) : e[1] <= n
<1> SUFFICES ASSUME NEW e \in ToSet(h) PROVE e[1] <= n
  OBVIOUS
<1>1. e[1] \in Turn /\ turn[e[1]].pc # "idle"
  BY EntryTurn DEF Begun
<1>2. ~(n < e[1])
  BY <1>1 DEF Settled, InOrder
<1>3. n \in Int /\ e[1] \in Int
  BY <1>1 DEF Turn
<1> QED BY <1>2, <1>3

\* A step that changes no history in the row or in the process.
LEMMA LoggedStays ==
  ASSUME MaxConcurrent <= 1, Alongside, [Next]_vars, Logged,
         row'.history = row.history, cached' = cached,
         cached # NoObject => object'[cached].history = object[cached].history,
         \A n \in Turn : turn'[n].pc = "reply" <=> turn[n].pc = "reply",
         \A n \in Turn : InProgress(n)' => InProgress(n) \/ turn'[n].after = Asked
  PROVE  Logged'
<1>1. TypeOK /\ Refs /\ Sequential /\ Settled
  BY DEF Alongside, Typed
<1>2. /\ \A n \in Turn : turn[n].pc # "idle" => turn'[n].after = turn[n].after
      /\ Asked \subseteq Asked'
  BY <1>1, PastStays
<1>3. \A h \in Begun : \A e \in ToSet(h) : turn'[e[1]].after = turn[e[1]].after
  BY <1>2, EntryTurn DEF Begun
<1>4. ASSUME cached # NoObject, Apart(object[cached].history)
      PROVE  Apart(object[cached].history)'
  <2>1. PICK k \in Asked :
          /\ \A e \in ToSet(row.history) : k \notin turn[e[1]].after
          /\ \A e \in ToSet(object[cached].history) : k \in turn[e[1]].after
          /\ \A n \in Turn : InProgress(n) => k \in turn[n].after
    BY <1>4 DEF Apart
  <2>2. /\ \A e \in ToSet(row'.history) : k \notin turn'[e[1]].after
        /\ \A e \in ToSet(object'[cached'].history) : k \in turn'[e[1]].after
    BY <1>1, <1>3, <1>4, <2>1, HistoriesHaveBegun
  <2>3. \A n \in Turn : InProgress(n)' => k \in turn'[n].after
    BY <1>2, <2>1 DEF InProgress
  <2> QED BY <1>2, <2>1, <2>2, <2>3 DEF Apart
<1>5. Log!Exchanges(row'.history)
  BY DEF Logged
<1>6. ASSUME cached' # NoObject
      PROVE  /\ (\A n \in Turn : turn'[n].pc # "reply") => Log!Exchanges(object'[cached'].history)
             /\ \A n \in Turn : turn'[n].pc = "reply" =>
                  Log!Exchanges(object'[cached'].history \o << <<n, "answer">> >>)
             /\ Starts(row'.history, object'[cached'].history) \/ Apart(object[cached].history)'
  BY <1>4, <1>6 DEF Logged
<1> QED BY <1>5, <1>6 DEF Logged

\* What the log of the session is, for SessionLog.
LogVars == <<row.history, Asked, [n \in Turn |-> turn[n].after]>>

\* The log changes only with the row, the resets asked for, and what the turns came after.
LEMMA LogUnchanged ==
  ASSUME row'.history = row.history, Asked' = Asked,
         \A n \in Turn : turn'[n].after = turn[n].after
  PROVE  UNCHANGED LogVars
BY DEF LogVars

\* A newcomer asks after all resets there were.
LEMMA ArrivalLogs ==
  ASSUME MaxConcurrent <= 1, Alongside, [Next]_vars, Logged, NEW n \in Turn, Busy = {}, Arrives(n)
  PROVE  Logged' /\ Log!Next
<1>1. /\ \A i \in Turn : i # n => turn'[i].after = turn[i].after /\ turn'[i].pc = turn[i].pc
      /\ turn'[n].after = Asked /\ turn[n].pc = "idle" /\ turn'[n].pc \in {"load", "classify"}
      /\ \A k \in Reset : reset'[k].pc = reset[k].pc
      /\ UNCHANGED <<cached, object, row>>
  BY DEF Arrives, Stays, Meets
<1>2. Asked' = Asked
  BY <1>1 DEF Asked
<1>3. Logged'
  BY <1>1, LoggedStays DEF InProgress
<1>4. Log!Ask(n)
  <2>1. [i \in Turn |-> turn'[i].after] = [[i \in Turn |-> turn[i].after] EXCEPT ![n] = Asked]
    BY <1>1
  <2> QED BY <1>1, <1>2, <2>1 DEF Log!Ask
<1> QED BY <1>3, <1>4 DEF Log!Next

\* What the reset leaves in the process is apart from the row.
LEMMA ResetLogs ==
  ASSUME MaxConcurrent <= 1, Alongside, [Next]_vars, Logged, NEW k \in Reset, Busy = {}, Clears(k)
  PROVE  Logged' /\ Log!Next
<1>1. /\ reset[k].pc = "idle" /\ reset'[k].pc = "snapshot"
      /\ \A i \in Reset : i # k => reset'[i].pc = reset[i].pc
      /\ \A n \in Turn : turn'[n].pc = turn[n].pc /\ turn'[n].after = turn[n].after
      /\ cached' = k /\ UNCHANGED row
  BY DEF Clears, Stays, Meets
<1>2. object'[k].history = <<>>
  BY DEF Clears, Alongside, Typed, TypeOK, NewSession, Object
<1>3. Asked' = Asked \cup {k}
  BY <1>1 DEF Asked
<1>4. \A n \in Turn : k \notin turn[n].after
  BY <1>1 DEF Alongside, Settled, Past
<1>5. \A n \in Turn : ~InProgress(n)'
  BY <1>1 DEF Busy, InProgress
<1>6. Logged'
  <2>1. \A e \in ToSet(row'.history) : k \notin turn'[e[1]].after
    <3>1. row.history \in Seq(Entry)
      BY HistoriesHaveBegun DEF Begun, Alongside, Typed
    <3> QED BY <1>1, <1>4, <3>1, EntryTurn
  <2>2. ToSet(<<>>) = {} /\ Log!Exchanges(<<>>)
    BY DEF ToSet, Log!Exchanges
  <2>3. Apart(object[cached].history)'
    BY <1>1, <1>2, <1>3, <1>5, <2>1, <2>2 DEF Apart
  <2>4. \A n \in Turn : turn'[n].pc # "reply"
    BY <1>5 DEF InProgress, Ended
  <2> QED BY <1>1, <1>2, <2>2, <2>3, <2>4 DEF Logged
<1>7. Log!AskReset(k)
  BY <1>1, <1>3 DEF Log!AskReset
<1> QED BY <1>6, <1>7 DEF Log!Next

\* A reset writes an empty log over what came before it.
LEMMA ResetMovesLog ==
  ASSUME MaxConcurrent <= 1, Alongside, [Next]_vars, Logged,
         NEW k \in Reset, Busy = {k}, ResetMoves(k)
  PROVE  Logged' /\ (Log!Next \/ UNCHANGED LogVars)
<1>1. /\ reset[k].pc \in {"snapshot", "write"} /\ reset'[k].pc \in {"write", "done", "failed"}
      /\ \A i \in Reset : i # k => reset'[i] = reset[i]
      /\ UNCHANGED <<cached, object, turn>>
  BY DEF ResetMoves, ResetMoved
<1>2. Asked' = Asked /\ k \in Asked
  BY <1>1 DEF Asked
<1>3. Quiet(k) /\ Resetting(k)
  BY <1>1 DEF Alongside, Settled, Past, QuietStays, Resetting
<1>4. /\ \A n \in Turn : ~InProgress(n)
      /\ cached = k /\ object[k].history = <<>>
      /\ reset[k].pc = "write" => reset[k].saved.history = <<>>
  BY <1>3 DEF Quiet
<1>5. CASE UNCHANGED row
  <2>1. Logged'
    BY <1>1, <1>4, <1>5, LoggedStays DEF InProgress
  <2>2. UNCHANGED LogVars
    BY <1>1, <1>2, <1>5, LogUnchanged
  <2> QED BY <2>1, <2>2
<1>6. CASE reset[k].pc = "write" /\ row' = reset[k].saved
  <2>1. row'.history = <<>>
    BY <1>4, <1>6
  <2>2. ToSet(<<>>) = {} /\ Log!ToSet(<<>>) = {} /\ Log!Exchanges(<<>>) /\ Starts(<<>>, <<>>)
    BY DEF ToSet, Log!ToSet, Log!Exchanges, Starts
  <2>3. \A n \in Turn : turn'[n].pc # "reply"
    BY <1>1, <1>4 DEF InProgress, Ended
  <2>4. Logged'
    BY <1>1, <1>4, <2>1, <2>2, <2>3 DEF Logged
  <2>5. \A old \in Log!ToSet(row.history) : k \notin turn[old[1]].after
    <3>1. row.history \in Seq(Entry)
      BY HistoriesHaveBegun DEF Begun, Alongside, Typed
    <3>2. Log!ToSet(row.history) = ToSet(row.history)
      BY DEF Log!ToSet, ToSet
    <3>3. \A n \in Turn : k \notin turn[n].after
      BY <1>1 DEF Alongside, Settled, Past
    <3> QED BY <3>1, <3>2, <3>3, EntryTurn
  <2>6. \A old \in Log!ToSet(row.history) :
          Asked \ [n \in Turn |-> turn[n].after][old[1]] # {}
    <3>1. \A old \in Log!ToSet(row.history) : old[1] \in Turn
      <4>1. row.history \in Seq(Entry) /\ Log!ToSet(row.history) = ToSet(row.history)
        BY HistoriesHaveBegun DEF Begun, Alongside, Typed, Log!ToSet, ToSet
      <4> QED BY <4>1, EntryTurn
    <3> QED BY <1>2, <2>5, <3>1
  <2>7. Log!StartAfresh
    BY <1>1, <1>2, <2>1, <2>2, <2>6 DEF Log!StartAfresh
  <2> QED BY <2>4, <2>7 DEF Log!Next
<1> QED BY <1>5, <1>6 DEF ResetMoves

\* After a crash there is only the row.
LEMMA CrashLogs ==
  ASSUME TypeOK, Logged, Dies
  PROVE  Logged' /\ UNCHANGED LogVars
<1>1. cached' = NoObject /\ UNCHANGED row /\ \A n \in Turn : turn'[n].after = turn[n].after
  BY DEF Dies
<1>2. Asked' = Asked
  BY DEF Dies, Asked, Resetting
<1>3. Logged'
  BY <1>1 DEF Logged
<1> QED BY <1>1, <1>2, <1>3, LogUnchanged

\* Nothing fails between a question and its answer.
LEMMA RepliesAreWhole ==
  ASSUME TypeOK, NEW n \in Turn, TurnStep(n), turn[n].pc = "reply"
  PROVE  turn'[n].pc = "snapshot"
<1>1. AppendAnswer(n)
  BY DEF TurnStep, GetSession, Load, Install, Fetch, ChooseAgent, Classify, Route, Follow,
         LegacyRoute, Call, Execute, Admit, Deny, Enrich, Answer, Persist, AppendQuestion, Extend,
         Snapshot, Write, Conclude, Record, Propose, Exception, FailSafe, Fail, Raises
<1> QED BY <1>1 DEF AppendAnswer, Appends, Goes, TypeOK, TurnState

\* A turn adds its exchange to what the process has.
LEMMA TurnTells ==
  ASSUME MaxConcurrent <= 1, Alongside, [Next]_vars, Logged, NEW n \in Turn, Busy = {n},
         UNCHANGED reset,
         NEW from \in {"ask", "reply", "extend"}, NEW to \in {"reply", "snapshot"},
         NEW entries \in Seq(Entry), Tells(n, from, to, entries), ToSet(entries) \subseteq EntriesBy(n),
         LET h == object[cached].history
         IN  IF to = "reply" THEN Log!Exchanges((h \o entries) \o << <<n, "answer">> >>)
             ELSE Log!Exchanges(h \o entries)
  PROVE  Logged' /\ UNCHANGED LogVars
<1> DEFINE h == object[cached].history
<1>1. /\ TypeOK /\ Refs /\ Sequential /\ Settled /\ Holds(n)
      /\ turn[n].pc = from /\ turn'[n].pc = to /\ turn'[n].after = turn[n].after
      /\ \A m \in Turn : m # n => turn'[m] = turn[m]
      /\ UNCHANGED <<cached, row>>
  BY DEF Alongside, Typed, Settled, Tells, Moved
<1>2. turn[n].object = cached /\ cached # NoObject /\ cached \in Object /\ InProgress(n)
  BY <1>1, Names DEF Holds, Refs, Working, InProgress, Ended
<1>3. object'[cached].history = h \o entries
  BY <1>2 DEF Tells
<1>4. \A m \in Turn : m # n => turn'[m].pc # "reply" /\ ~InProgress(m)'
  BY <1>1 DEF Busy, InProgress, Ended
<1>5. Asked' = Asked /\ \A m \in Turn : turn'[m].after = turn[m].after
  BY <1>1 DEF Asked
<1>6. h \in Begun /\ row.history \in Begun /\ h \in Seq(Entry) /\ row.history \in Seq(Entry)
  BY <1>1, <1>2, HistoriesHaveBegun DEF Begun
<1>7. Starts(row'.history, h \o entries) \/ Apart(object[cached].history)'
  <2>1. CASE Starts(row.history, h)
    BY <1>1, <1>6, <2>1, StartsGrows
  <2>2. CASE Apart(h)
    <3>1. PICK k \in Asked :
            /\ \A e \in ToSet(row.history) : k \notin turn[e[1]].after
            /\ \A e \in ToSet(h) : k \in turn[e[1]].after
            /\ \A m \in Turn : InProgress(m) => k \in turn[m].after
      BY <2>2 DEF Apart
    <3>2. ToSet(h \o entries) = ToSet(h) \cup ToSet(entries)
      BY <1>6, SaidStays
    <3>3. \A e \in EntriesBy(n) : e[1] = n
      BY DEF EntriesBy
    <3>4. \A e \in ToSet(h \o entries) : k \in turn[e[1]].after
      BY <1>2, <3>1, <3>2, <3>3
    <3>5. h \o entries \in Seq(Entry)
      BY <1>6, ConcatProperties
    <3>6. \A e \in ToSet(h \o entries) : k \in turn'[e[1]].after
      BY <1>5, <3>4, <3>5, EntryTurn
    <3>7. \A e \in ToSet(row'.history) : k \notin turn'[e[1]].after
      BY <1>1, <1>5, <1>6, <3>1, EntryTurn
    <3>8. \A m \in Turn : InProgress(m)' => k \in turn'[m].after
      BY <1>2, <1>4, <1>5, <3>1
    <3> HIDE DEF h
    <3> QED BY <1>1, <1>3, <1>5, <3>6, <3>7, <3>8 DEF Apart
  <2> QED BY <1>2, <2>1, <2>2 DEF Logged
<1>8. Logged'
  <2>1. Log!Exchanges(row'.history)
    BY <1>1 DEF Logged
  <2>2. to = "reply" => Log!Exchanges((h \o entries) \o << <<n, "answer">> >>)
    OBVIOUS
  <2>3. to # "reply" => Log!Exchanges(h \o entries)
    OBVIOUS
  <2> HIDE DEF h
  <2> QED BY <1>1, <1>3, <1>4, <1>7, <2>1, <2>2, <2>3 DEF Logged
<1>9. UNCHANGED LogVars
  BY <1>1, <1>5, LogUnchanged
<1> QED BY <1>8, <1>9

\* A step of a turn grows the log, starts it afresh after a reset, or leaves it alone.
LEMMA TurnLogs ==
  ASSUME MaxConcurrent <= 1, Alongside, [Next]_vars, Logged,
         NEW n \in Turn, Busy = {n}, TurnStep(n), TurnMoves(n), UNCHANGED reset
  PROVE  Logged' /\ (Log!Next \/ UNCHANGED LogVars)
<1> DEFINE h == object[cached].history
<1>1. /\ TypeOK /\ Refs /\ Sequential /\ Settled /\ Holds(n) /\ InProgress(n)
  BY Names DEF Alongside, Typed, Settled, Busy
<1>2. /\ \A m \in Turn : m # n => turn'[m] = turn[m]
      /\ turn'[n].after = turn[n].after
  BY DEF TurnMoves, Loads, Installs, Fetches, Thinks, Tells, Snapshots, Writes, Proposes, Leaves, Moved
<1>3. Asked' = Asked
  BY DEF Asked
<1>4. \A m \in Turn : m # n => ~InProgress(m) /\ turn[m].pc # "reply"
  BY DEF Busy, InProgress, Ended
<1>5. ASSUME row'.history = row.history, cached' = cached,
             cached # NoObject => object'[cached].history = object[cached].history,
             turn[n].pc # "reply" /\ turn'[n].pc # "reply"
      PROVE  Logged' /\ UNCHANGED LogVars
  <2>1. Logged'
    BY <1>1, <1>2, <1>5, LoggedStays DEF InProgress
  <2>2. UNCHANGED LogVars
    BY <1>2, <1>3, <1>5, LogUnchanged
  <2> QED BY <2>1, <2>2
<1>6. CASE Loads(n) \/ Fetches(n) \/ Snapshots(n) \/ Proposes(n)
  BY <1>5, <1>6 DEF Loads, Fetches, Snapshots, Proposes, Moved
<1>7. CASE Thinks(n) \/ Leaves(n)
  <2>1. turn[n].pc # "reply" /\ turn'[n].pc # "reply"
    BY <1>1, <1>7, RepliesAreWhole DEF Thinks, Thinking, Leaves, Moved, Ended
  <2>2. cached # NoObject => object'[cached].history = object[cached].history
    BY <1>1, <1>7 DEF Thinks, Leaves, SameHistories, TypeOK
  <2> QED BY <1>5, <1>7, <2>1, <2>2 DEF Thinks, Leaves
<1>8. CASE Installs(n)
  <2>1. /\ object'[n].history = row.history /\ cached' = n /\ UNCHANGED row
        /\ turn'[n].pc = "fetch"
    BY <1>1, <1>8, Names DEF Installs, Moved, Holds, TypeOK
  <2>2. Starts(row.history, row.history)
    <3>1. row.history \in Seq(Entry)
      BY <1>1, HistoriesHaveBegun DEF Begun
    <3> QED BY <3>1, LenProperties DEF Starts
  <2>3. \A m \in Turn : turn'[m].pc # "reply"
    BY <1>2, <1>4, <2>1
  <2>4. Logged'
    BY <2>1, <2>2, <2>3 DEF Logged
  <2> QED BY <1>2, <1>3, <2>1, <2>4, LogUnchanged
<1>9. turn[n].pc \in Working =>
        /\ turn[n].object = cached /\ cached # NoObject
        /\ h \in Seq(Entry) /\ \A e \in ToSet(h) : e[1] <= n
  <2> SUFFICES ASSUME turn[n].pc \in Working
               PROVE  /\ turn[n].object = cached /\ cached # NoObject
                      /\ h \in Seq(Entry) /\ \A e \in ToSet(h) : e[1] <= n
    OBVIOUS
  <2>1. turn[n].object = cached /\ cached # NoObject
    BY <1>1, Names DEF Holds, Refs
  <2>2. h \in Begun
    BY <1>1, <2>1, HistoriesHaveBegun
  <2> QED BY <1>1, <2>1, <2>2, NothingIsLater DEF Begun
<1>10. turn[n].pc \in Working \ {"reply"} => Log!Exchanges(h)
  <2>1. turn[n].pc # "reply" => \A m \in Turn : turn[m].pc # "reply"
    BY <1>4
  <2> QED BY <1>9, <2>1 DEF Logged
<1>11. CASE Tells(n, "ask", "reply", << <<n, "question">> >>)
  <2>1. Log!Exchanges((h \o << <<n, "question">> >>) \o << <<n, "answer">> >>)
    <3>1. turn[n].pc \in Working \ {"reply"}
      BY <1>11 DEF Tells, Working
    <3> HIDE DEF h
    <3> QED BY <1>9, <1>10, <3>1, AnswersGrow
  <2>2. ToSet(<< <<n, "question">> >>) \subseteq EntriesBy(n) /\ << <<n, "question">> >> \in Seq(Entry)
    BY EntriesOf DEF EntriesBy
  <2> QED BY <1>11, <2>1, <2>2, TurnTells
<1>12. CASE Tells(n, "reply", "snapshot", << <<n, "answer">> >>)
  <2>1. Log!Exchanges(h \o << <<n, "answer">> >>)
    <3>1. turn[n].pc = "reply"
      BY <1>12 DEF Tells
    <3>2. cached # NoObject
      BY <1>9, <3>1 DEF Working
    <3> QED BY <3>1, <3>2 DEF Logged
  <2>2. ToSet(<< <<n, "answer">> >>) \subseteq EntriesBy(n) /\ << <<n, "answer">> >> \in Seq(Entry)
    BY EntriesOf DEF EntriesBy
  <2> QED BY <1>12, <2>1, <2>2, TurnTells
<1>13. CASE Tells(n, "extend", "snapshot", << <<n, "question">>, <<n, "answer">> >>)
  <2> DEFINE entries == << <<n, "question">>, <<n, "answer">> >>
  <2>1. Log!Exchanges(h \o entries)
    <3>1. turn[n].pc \in Working \ {"reply"}
      BY <1>13 DEF Tells, Working
    <3> HIDE DEF h
    <3> QED BY <1>9, <1>10, <3>1, AnswersGrow
  <2>2. ToSet(entries) \subseteq EntriesBy(n) /\ entries \in Seq(Entry)
    BY EntriesOf DEF EntriesBy
  <2> QED BY <1>13, <2>1, <2>2, TurnTells
<1>14. CASE Writes(n)
  <2>1. /\ row'.history = h /\ turn'[n].pc = "record" /\ turn[n].pc = "write"
        /\ UNCHANGED <<cached, object>>
    BY <1>1, <1>14 DEF Writes, Moved, Holds
  <2>2. cached # NoObject /\ h \in Seq(Entry) /\ Log!Exchanges(h)
    BY <1>9, <1>10, <2>1 DEF Working
  <2>3. Starts(h, h)
    BY <2>2, LenProperties DEF Starts
  <2>4. \A m \in Turn : turn'[m].pc # "reply"
    BY <1>2, <1>4, <2>1
  <2>5. Logged'
    BY <2>1, <2>2, <2>3, <2>4 DEF Logged
  <2>6. [m \in Turn |-> turn'[m].after] = [m \in Turn |-> turn[m].after]
    BY <1>2
  <2>7. row.history \in Seq(Entry)
    BY <1>1, HistoriesHaveBegun DEF Begun
  <2>8. CASE Starts(row.history, h)
    <3>1. Log!IsPrefix(row.history, h)
      BY <2>2, <2>7, <2>8, StartsIsPrefix
    <3>2. Log!Grow
      BY <1>3, <2>1, <2>2, <2>6, <3>1 DEF Log!Grow
    <3> QED BY <2>5, <3>2 DEF Log!Next
  <2>9. CASE Apart(h)
    <3>1. PICK k \in Asked : /\ \A e \in ToSet(row.history) : k \notin turn[e[1]].after
                             /\ \A e \in ToSet(h) : k \in turn[e[1]].after
      BY <2>9 DEF Apart
    <3>2. /\ Log!ToSet(row.history) = ToSet(row.history) /\ Log!ToSet(row'.history) = ToSet(h)
      BY <2>1 DEF Log!ToSet, ToSet
    <3> DEFINE after == [m \in Turn |-> turn[m].after]
    <3>3. /\ \A e \in ToSet(row.history) : k \notin after[e[1]]
          /\ \A e \in ToSet(h) : k \in after[e[1]]
      BY <2>2, <2>7, <3>1, EntryTurn
    <3>4. Log!StartAfresh
      <4> HIDE DEF after, h
      <4>1. \A old \in Log!ToSet(row.history) :
              /\ Asked \ after[old[1]] # {}
              /\ \A new \in Log!ToSet(row'.history) : after[new[1]] \ after[old[1]] # {}
        BY <3>1, <3>2, <3>3
      <4>2. after' = after
        BY <2>6 DEF after
      <4> QED BY <1>3, <2>1, <2>2, <4>1, <4>2 DEF Log!StartAfresh, after
    <3> QED BY <2>5, <3>4 DEF Log!Next
  <2> QED BY <2>2, <2>8, <2>9 DEF Logged
<1> QED BY <1>6, <1>7, <1>8, <1>11, <1>12, <1>13, <1>14 DEF TurnMoves

\* A session starts with an empty log.
LEMMA LoggedInit == Init => Logged
<1>1. NewSession.history = <<>> /\ Log!Exchanges(<<>>)
  BY DEF NewSession, Log!Exchanges
<1> QED BY <1>1 DEF Init, Logged

\* Every step keeps the invariant and is a step of the log, or none.
LEMMA LoggedNext ==
  ASSUME MaxConcurrent <= 1, Alongside, [Next]_vars, Logged
  PROVE  Logged' /\ (Log!Next \/ UNCHANGED LogVars)
<1>1. TypeOK /\ Refs /\ Sequential
  BY DEF Alongside, Typed
<1>2. CASE UNCHANGED <<cached, object, row, turn, reset>>
  <2>1. Logged'
    BY <1>2, LoggedStays DEF InProgress
  <2>2. UNCHANGED LogVars
    BY <1>2 DEF LogVars, Asked
  <2> QED BY <2>1, <2>2
<1> QED BY <1>1, <1>2, ArrivalLogs, TurnLogs, ResetLogs, ResetMovesLog, CrashLogs, StepsAlone

\* For a customer who sends one request at a time the row of the session is a log of
\* whole exchanges that only grows, whatever fails or crashes, and is started afresh
\* only by a reset that came after everything it loses.
THEOREM RowIsTheLog ==
  ASSUME MaxConcurrent <= 1
  PROVE  Spec => ImplementsLog
<1>1. Init => Log!Init
  <2>1. NewSession.history = <<>> /\ IdleTurn.after = {} /\ IdleReset.pc = "idle"
    BY DEF NewSession, IdleTurn, IdleReset
  <2>2. Init => row.history = <<>> /\ Asked = {}
    BY <2>1 DEF Init, Asked
  <2>3. Init => [n \in Turn |-> turn[n].after] = [n \in Turn |-> {}]
    BY <2>1 DEF Init
  <2> QED BY <2>2, <2>3 DEF Log!Init
<1>2. Init => Logged
  BY LoggedInit
<1>3. Alongside /\ Logged /\ [Next]_vars => Logged'
  BY LoggedNext
<1>4. Alongside /\ Logged /\ [Next]_vars
        => [Log!Next]_<<row.history, Asked, [n \in Turn |-> turn[n].after]>>
  BY LoggedNext DEF LogVars
<1>5. Spec => []Alongside
  BY AlongsideInductive
<1> QED BY <1>1, <1>2, <1>3, <1>4, <1>5, PTL DEF Spec, ImplementsLog, Log!Spec

------------------------------------------------------------------------------
(* What is proposed was said *)

\* What the customer has said by the turn n, since the last reset; Silence stands
\* for the answers in a history, and the clarification is the program's own.
Spoken(n) == {turn[i].message : i \in Before(n)} \cup {Silence, Clarification}

\* A telephone is made of numbers, a name of words.
InKind(fields) == fields.phone \in Seq(Number \cup {"+"}) /\ fields.name \in Seq(Word)

\* The agent is given what was said, and what it collects was said.
Grounds(n) ==
  /\ turn[n].pc = "idle" => turn[n].reply = NoReply
  /\ turn[n].pc \in {"enrich", "answer"} => turn[n].asked \in Seq(Spoken(n))
  /\ turn[n].reply.fields \in FieldsFrom(Spoken(n)) /\ InKind(turn[n].reply.fields)
  /\ turn[n].reply.fields.lead => \E m \in Spoken(n) : LeadRequested(<<m>>)

\* So was what is proposed.
Given(p) ==
  /\ turn[p.by].pc # "idle"
  /\ p.action.phone \in Seq(Pieces(Spoken(p.by))) \ {<<>>}
  /\ p.action.name \in Seq(Pieces(Spoken(p.by)))
  /\ InKind(p.action)
  /\ p.action.kind = "lead" =>
       p.action.name # <<>> /\ \E m \in Spoken(p.by) : LeadRequested(<<m>>)

Repeats == (\A n \in Turn : Grounds(n)) /\ (\A p \in proposed : Given(p))

\* Nothing that was said before a turn is unsaid.
LEMMA SpokenStays ==
  ASSUME MaxConcurrent <= 1, Alongside, [Next]_vars, NEW n \in Turn, turn[n].pc # "idle"
  PROVE  Spoken(n) \subseteq Spoken(n)' /\ turn'[n].pc # "idle"
<1>1. /\ TypeOK /\ Refs /\ Sequential /\ InOrder /\ Past
  BY DEF Alongside, Typed, Settled
<1>2. /\ \A i \in Turn : turn[i].pc # "idle" =>
           /\ turn'[i].pc # "idle" /\ turn'[i].after = turn[i].after
           /\ turn'[i].message = turn[i].message
      /\ \A k \in Reset : reset[k].pc \in {"done", "failed"} => reset'[k].pc = reset[k].pc
  BY <1>1, PastStays
<1>3. ASSUME NEW i \in Before(n)
      PROVE  i \in Before(n)' /\ turn'[i].message = turn[i].message
  <2>1. i \in Turn /\ i \in 1..n /\ (i = n \/ i < n)
    <3>1. i \in 1..n
      BY DEF Before
    <3> QED BY <3>1, OrchestratorAssumption DEF Turn
  <2>2. turn[i].pc # "idle"
    <3>1. CASE i < n
      BY <1>1, <2>1, <3>1 DEF InOrder
    <3> QED BY <2>1, <3>1
  <2>3. /\ turn'[n].after = turn[n].after /\ turn'[i].after = turn[i].after
        /\ turn'[i].message = turn[i].message
    BY <1>2, <2>1, <2>2
  <2>4. \A k \in turn[n].after : k \in Reset /\ reset[k].pc \in {"done", "failed"}
    BY <1>1 DEF TypeOK, TurnState, Past
  <2>5. \A k \in turn[n].after \ turn[i].after : reset'[k].pc # "done"
    <3>1. \A k \in turn[n].after \ turn[i].after : reset[k].pc # "done"
      BY DEF Before
    <3> QED BY <1>2, <2>4, <3>1
  <2> QED BY <2>1, <2>3, <2>5 DEF Before
<1> QED BY <1>2, <1>3 DEF Spoken

\* More may be read off more that was said.
LEMMA FieldsGrow ==
  ASSUME NEW M, NEW L, M \subseteq L
  PROVE  FieldsFrom(M) \subseteq FieldsFrom(L) /\ Seq(Pieces(M)) \subseteq Seq(Pieces(L))
<1>1. Pieces(M) \subseteq Pieces(L)
  BY DEF Pieces
<1>2. Seq(Pieces(M)) \subseteq Seq(Pieces(L))
  <2> HIDE DEF Pieces
  <2> QED BY <1>1
<1> QED BY <1>2 DEF FieldsFrom

\* What the turn at work finds in the history was said since the last reset.
LEMMA HistoryIsSpoken ==
  ASSUME Alongside, NEW n \in Turn, turn[n].pc \in Working
  PROVE  /\ Session(n).history \in Seq(Entry)
         /\ QuestionsOf(Session(n).history) \in Seq(Spoken(n))
         /\ turn[n].message \in Spoken(n)
<1>1. /\ TypeOK /\ Refs /\ Settled /\ Past /\ QuietStays /\ Holds(n)
  BY DEF Alongside, Typed, Settled
<1>2. turn[n].object = cached /\ cached # NoObject /\ InProgress(n)
  BY <1>1, Names DEF Holds, Refs, Working, InProgress, Ended
<1> DEFINE h == Session(n).history
<1>3. h \in Begun /\ h \in Seq(Entry)
  BY <1>1, <1>2, HistoriesHaveBegun DEF Session, Begun
<1>4. ASSUME NEW e \in ToSet(h) PROVE e[1] \in Before(n)
  <2>1. e[1] \in Turn /\ e[1] <= n
    BY <1>1, <1>2, <1>3, EntryTurn, NothingIsLater
  <2>2. ASSUME NEW k \in turn[n].after \ turn[e[1]].after, reset[k].pc = "done" PROVE FALSE
    <3>1. k \in Reset
      BY <1>1 DEF TypeOK, TurnState
    <3>2. Quiet(k)
      BY <1>1, <2>2, <3>1 DEF Past, QuietStays
    <3>3. h \in Later(k)
      BY <1>2, <2>2, <3>2 DEF Quiet, Widespread, Session
    <3> QED BY <2>2, <3>3 DEF Later
  <2>3. e[1] \in 1..n
    BY <2>1 DEF Turn
  <2> HIDE DEF h
  <2> QED BY <2>2, <2>3 DEF Before
<1>5. n \in Before(n)
  BY DEF Before, Turn
<1>6. ASSUME NEW i \in 1..Len(h) PROVE QuestionsOf(h)[i] \in Spoken(n)
  <2>1. h[i] \in ToSet(h)
    BY <1>3 DEF ToSet
  <2>2. h[i][1] \in Before(n)
    BY <1>4, <2>1
  <2> HIDE DEF h
  <2> QED BY <1>3, <2>2 DEF QuestionsOf, Spoken
<1>7. QuestionsOf(h) \in Seq(Spoken(n))
  <2>1. QuestionsOf(h) = [i \in 1..Len(h) |-> QuestionsOf(h)[i]] /\ Len(h) \in Nat
    BY <1>3 DEF QuestionsOf
  <2> HIDE DEF h
  <2>2. QuestionsOf(h) \in [1..Len(h) -> Spoken(n)]
    BY <1>6, <2>1
  <2> QED BY <2>1, <2>2
<1> QED BY <1>3, <1>5, <1>7 DEF Spoken

\* The orchestrator itself collects nothing.
LEMMA OwnFields ==
  ASSUME NEW m, NEW reply \in OwnReplies(m)
  PROVE  reply.fields = NoFields
<1>1. /\ \A skill, target, cites : OrchestratorReply(skill, target, cites).fields = NoFields
      /\ NoReply.fields = NoFields
  BY DEF OrchestratorReply, NoReply
<1>2. \A id, skill : \A r \in FromDocument(id, skill) : r.fields = NoFields
  BY <1>1 DEF FromDocument
<1>3. \A decision : \A r \in FromDecision(decision) : r.fields = NoFields
  BY <1>1 DEF FromDecision
<1>4. \A d : FaqReply(d).fields = NoFields
  BY <1>1 DEF FaqReply
<1>5. SafeFailure.fields = NoFields
  BY <1>1 DEF SafeFailure
<1>6. ASSUME NEW active, NEW r \in DirectReplies(m, active) PROVE r.fields = NoFields
  <2>1. \/ \E id, skill : r \in FromDocument(id, skill)
        \/ r \in FromDecision(Decide(m, active))
        \/ r = NoReply
        \/ \E d \in FaqDocuments : r = FaqReply(d)
    <3> DEFINE known(s) == s \in FromDecision(Decide(m, active)) \/ s = NoReply
                           \/ (\E d \in FaqDocuments : s = FaqReply(d))
                           \/ (\E id, skill : s \in FromDocument(id, skill))
    <3>1. known(r)
      BY <1>6, Zenon DEF DirectReplies
    <3> QED BY <3>1
  <2> QED BY <1>1, <1>2, <1>3, <1>4, <2>1
<1> QED BY <1>5, <1>6 DEF OwnReplies

\* A step collects fields only in the answer of an agent.
LEMMA FieldsMove ==
  ASSUME TypeOK, Refs, NEW n \in Turn, TurnStep(n)
  PROVE  \/ turn'[n].reply.fields \in {turn[n].reply.fields, NoFields}
         \/ /\ turn[n].pc = "answer" /\ Selected(n) \in Agent
            /\ turn'[n].reply \in
                 Replies(Selected(n), turn[n].asked, QuestionsOf(Session(n).history))
<1>1. NoReply.fields = NoFields /\ StaffOnlyReply.fields = NoFields
  BY DEF NoReply, StaffOnlyReply, OrchestratorReply
<1>2. CASE turn[n].pc # "answer"
  <2>1. Advances(n)
    BY ProgressSteps DEF Progress
  <2> QED BY <1>1, <1>2, <2>1, OwnFields DEF Advances
<1>3. CASE Answer(n)
  <2>1. PICK reply \in Replies(Selected(n), turn[n].asked, QuestionsOf(Session(n).history)) :
          /\ Selected(n) \in Agent /\ reply \in Reply
          /\ \E pc \in {"ask", "extend"} : Becomes(n, [turn[n] EXCEPT !.reply = reply, !.pc = pc])
    BY <1>3, AnswerMoves
  <2>2. turn'[n].reply = reply
    <3>1. PICK pc \in {"ask", "extend"} : Becomes(n, [turn[n] EXCEPT !.reply = reply, !.pc = pc])
      BY <2>1
    <3> DEFINE t == [turn[n] EXCEPT !.reply = reply, !.pc = pc]
    <3>2. t.reply = reply
      BY DEF TypeOK, TurnState
    <3>3. turn'[n] = t
      BY <3>1, OthersStay
    <3> QED BY <3>2, <3>3
  <2> QED BY <1>3, <2>1, <2>2 DEF Answer
<1>4. CASE Exception(n)
  <2>1. ASSUME NEW pc \in {"ask", "extend"}, Becomes(n, [turn[n] EXCEPT !.reply = SafeFailure, !.pc = pc])
        PROVE  turn'[n].reply = SafeFailure
    <3> DEFINE t == [turn[n] EXCEPT !.reply = SafeFailure, !.pc = pc]
    <3>2. t.reply = SafeFailure
      BY DEF TypeOK, TurnState
    <3>3. turn'[n] = t
      BY <2>1, OthersStay
    <3> HIDE DEF t
    <3> QED BY <3>2, <3>3
  <2>2. Becomes(n, Remains(n, "failed")) => turn'[n].reply = NoReply
    <3>1. "failed" \in Stage
      BY DEF Stage, Ended
    <3> QED BY <3>1, OthersStay, RemainsTyped
  <2>3. SafeFailure.fields = NoFields
    BY DEF SafeFailure, OrchestratorReply
  <2> QED BY <1>1, <1>4, <2>1, <2>2, <2>3, ExceptionMoves
<1>5. turn[n].pc = "answer" => Answer(n) \/ Exception(n)
  BY DEF TurnStep, GetSession, Load, Install, Fetch, ChooseAgent, Classify, Route, Follow,
         LegacyRoute, Call, Execute, Admit, Deny, Enrich, Persist, AppendQuestion, AppendAnswer,
         Extend, Snapshot, Write, Conclude, Record, Propose
<1> QED BY <1>2, <1>3, <1>4, <1>5

\* What an agent is asked is the message, alone or after a question of the history.
LEMMA AskedMoves ==
  ASSUME TypeOK, Refs, NEW n \in Turn, TurnStep(n), turn'[n].pc \in {"enrich", "answer"}
  PROVE  /\ turn[n].pc \in Working
         /\ \/ turn'[n].asked = <<turn[n].message>>
            \/ \E i \in 1..Len(Session(n).history) :
                 turn'[n].asked =
                   <<QuestionsOf(Session(n).history)[i], Clarification, turn[n].message>>
<1>1. turn \in [Turn -> TurnState]
  BY DEF TypeOK
<1>2. CASE Admit(n)
  <2>1. PICK pc \in {"enrich", "answer"} :
          Becomes(n, [turn[n] EXCEPT !.pc = pc, !.asked = <<turn[n].message>>])
    BY <1>2, AdmitMoves
  <2> DEFINE t == [turn[n] EXCEPT !.pc = pc, !.asked = <<turn[n].message>>]
  <2>2. t.asked = <<turn[n].message>>
    BY <1>1 DEF TurnState
  <2>3. turn'[n] = t
    BY <2>1, OthersStay
  <2> HIDE DEF t
  <2> QED BY <1>2, <2>2, <2>3 DEF Admit, Working
<1>3. CASE Enrich(n)
  <2> DEFINE asked == Enriched(turn[n].message, turn[n].selected, Session(n).history)
             t == [turn[n] EXCEPT !.pc = "answer", !.asked = asked]
  <2>1. t.asked = asked
    <3> HIDE DEF asked
    <3> QED BY <1>1 DEF TurnState
  <2>2. turn'[n] = t
    BY <1>3, EnrichMoves, OthersStay
  <2>3. turn[n].pc \in Working
    BY <1>3 DEF Enrich, Working
  <2>4. Session(n).history \in Seq(Entry)
    BY <2>3, SessionTyped
  <2> HIDE DEF t
  <2> QED BY <2>1, <2>2, <2>3, <2>4, EnrichedByOne
<1>4. CASE Deny(n) \/ Exception(n)
  <2>1. ASSUME NEW reply, NEW pc \in {"ask", "extend"},
               Becomes(n, [turn[n] EXCEPT !.reply = reply, !.pc = pc])
        PROVE  turn'[n].pc \in {"ask", "extend"}
    <3> DEFINE t == [turn[n] EXCEPT !.reply = reply, !.pc = pc]
    <3>1. t.pc = pc
      BY <1>1 DEF TurnState
    <3>2. turn'[n] = t
      BY <2>1, OthersStay
    <3> HIDE DEF t
    <3> QED BY <3>1, <3>2
  <2>2. ASSUME NEW pc \in {"refused", "failed"}, Becomes(n, Remains(n, pc)) PROVE turn'[n].pc = pc
    <3>1. pc \in Stage
      BY DEF Stage, Ended
    <3> QED BY <2>2, <3>1, OthersStay, RemainsTyped
  <2> QED BY <1>4, <2>1, <2>2, DenyMoves, ExceptionMoves
<1>5. CASE ~(Admit(n) \/ Enrich(n) \/ Deny(n) \/ Exception(n))
  <2>1. turn[n].pc \in {"guard", "enrich"}
    <3>1. Advances(n)
      BY ProgressSteps DEF Progress
    <3> QED BY <3>1 DEF Advances, Routed
  <2> QED BY <1>5, <2>1 DEF TurnStep, GetSession, Load, Install, Fetch, ChooseAgent, Classify,
         Route, Follow, LegacyRoute, Call, Execute, Answer, Persist, AppendQuestion,
         AppendAnswer, Extend, Snapshot, Write, Conclude, Record, Propose
<1> QED BY <1>2, <1>3, <1>4, <1>5

\* A text of what was said gives fields that were said.
LEMMA AnswersAreSaid ==
  ASSUME NEW T, NEW M, \A m \in M : m.text \in Seq(T),
         NEW agent \in Agent, NEW asked \in Seq(M), NEW said \in Seq(M),
         NEW reply \in Replies(agent, asked, said)
  PROVE  /\ reply.fields \in FieldsFrom(M) /\ InKind(reply.fields)
         /\ reply.fields.lead => \E m \in M : LeadRequested(<<m>>)
<1> DEFINE text == said \o asked
<1>1. text \in Seq(M)
  BY ConcatProperties
<1>2. reply.fields \in FieldsOf(text)
  BY RepliesTyped DEF ReplyFrom
<1> HIDE DEF text
<1>3. reply.fields.lead \in {FALSE, LeadRequested(text)}
  BY <1>2 DEF FieldsOf
<1>4. LeadRequested(text) => \E m \in M : LeadRequested(<<m>>)
  <2> SUFFICES ASSUME LeadRequested(text) PROVE \E m \in M : LeadRequested(<<m>>)
    OBVIOUS
  <2>1. PICK m \in ToSet(text) : {"leave a request", "to the manager"} \cap m.says # {}
    BY DEF LeadRequested, WordsOf
  <2>2. m \in M
    BY <1>1, ElementOfSeq DEF ToSet
  <2>3. m \in ToSet(<<m>>)
    BY DEF ToSet
  <2>4. LeadRequested(<<m>>)
    BY <2>1, <2>3 DEF LeadRequested, WordsOf
  <2> QED BY <2>2, <2>4
<1>5. reply.fields \in FieldsFrom(M) /\ InKind(reply.fields)
  BY <1>1, <1>2, FieldsAreParts DEF InKind
<1> QED BY <1>3, <1>4, <1>5

\* Who collects nothing is grounded.
LEMMA NothingIsGrounded ==
  ASSUME NEW M
  PROVE  NoFields \in FieldsFrom(M) /\ InKind(NoFields) /\ ~NoFields.lead
BY DEF NoFields, FieldsFrom, InKind

\* Whatever was said has a text.
LEMMA SpokenTyped ==
  ASSUME TypeOK, NEW n \in Turn
  PROVE  \A m \in Spoken(n) : m.text \in Seq(Token)
<1>1. \A i \in Before(n) : i \in Turn
  BY OrchestratorAssumption DEF Before, Turn
<1>2. Spoken(n) \subseteq Utterance
  BY <1>1 DEF Spoken, Utterance, TypeOK, TurnState
<1> QED BY <1>2, TextsTyped

\* What a step of a turn gives the agent, and collects, was said.
LEMMA GroundsTurn ==
  ASSUME MaxConcurrent <= 1, Alongside, [Next]_vars, NEW n \in Turn, TurnStep(n), Grounds(n)
  PROVE  Grounds(n)'
<1>1. TypeOK /\ Refs
  BY DEF Alongside, Typed
<1>2. Progress(n)
  BY <1>1, ProgressSteps
<1>3. turn[n].pc # "idle" /\ turn'[n].pc # "idle" /\ Spoken(n) \subseteq Spoken(n)'
  BY <1>2, SpokenStays DEF Progress, InProgress
<1> DEFINE M == Spoken(n)
           L == Spoken(n)'
<1>4. M \subseteq L /\ FieldsFrom(M) \subseteq FieldsFrom(L)
  BY <1>3, FieldsGrow
<1>5. turn'[n].pc \in {"enrich", "answer"} => turn'[n].asked \in Seq(L)
  <2> SUFFICES ASSUME turn'[n].pc \in {"enrich", "answer"} PROVE turn'[n].asked \in Seq(L)
    OBVIOUS
  <2>1. turn[n].pc \in Working
    BY <1>1, AskedMoves
  <2>2. /\ Session(n).history \in Seq(Entry)
        /\ QuestionsOf(Session(n).history) \in Seq(M)
        /\ turn[n].message \in M
    BY <2>1, HistoryIsSpoken
  <2>3. \A i \in 1..Len(Session(n).history) : QuestionsOf(Session(n).history)[i] \in M
    <3>1. Len(QuestionsOf(Session(n).history)) = Len(Session(n).history)
      BY <2>2, LenProperties DEF QuestionsOf
    <3> HIDE DEF M
    <3> QED BY <2>2, <3>1, ElementOfSeq
  <2>4. Clarification \in L
    BY DEF Spoken
  <2>5. \A m \in L, q \in L : <<m>> \in Seq(L) /\ <<q, Clarification, m>> \in Seq(L)
    <3> HIDE DEF L
    <3> QED BY <2>4
  <2> HIDE DEF M, L
  <2> QED BY <1>1, <1>4, <2>2, <2>3, <2>5, AskedMoves
<1>6. /\ turn'[n].reply.fields \in FieldsFrom(L) /\ InKind(turn'[n].reply.fields)
      /\ turn'[n].reply.fields.lead => \E m \in L : LeadRequested(<<m>>)
  <2>1. CASE turn'[n].reply.fields = turn[n].reply.fields
    <3> HIDE DEF L
    <3> QED BY <1>4, <2>1 DEF Grounds
  <2>2. CASE turn'[n].reply.fields = NoFields
    <3> HIDE DEF L
    <3> QED BY <2>2, NothingIsGrounded
  <2>3. CASE /\ turn[n].pc = "answer" /\ Selected(n) \in Agent
             /\ turn'[n].reply \in
                  Replies(Selected(n), turn[n].asked, QuestionsOf(Session(n).history))
    <3>1. turn[n].asked \in Seq(M)
      BY <2>3 DEF Grounds
    <3>2. QuestionsOf(Session(n).history) \in Seq(M)
      BY <2>3, HistoryIsSpoken DEF Working
    <3>3. \A m \in M : m.text \in Seq(Token)
      BY <1>1, SpokenTyped
    <3> HIDE DEF M, L
    <3>4. /\ turn'[n].reply.fields \in FieldsFrom(M) /\ InKind(turn'[n].reply.fields)
          /\ turn'[n].reply.fields.lead => \E m \in M : LeadRequested(<<m>>)
      BY <2>3, <3>1, <3>2, <3>3, AnswersAreSaid
    <3> QED BY <1>4, <3>4
  <2> QED BY <1>1, <2>1, <2>2, <2>3, FieldsMove
<1> HIDE DEF M, L
<1> QED BY <1>3, <1>5, <1>6 DEF Grounds, L

\* So does every step.
LEMMA GroundsNext ==
  ASSUME MaxConcurrent <= 1, Alongside, [Next]_vars, NEW n \in Turn, Grounds(n)
  PROVE  Grounds(n)'
<1>1. TypeOK /\ Refs /\ Sequential
  BY DEF Alongside, Typed
<1>2. NoReply.fields \in FieldsFrom(Spoken(n)') /\ InKind(NoReply.fields) /\ ~NoReply.fields.lead
  BY NothingIsGrounded DEF NoReply
<1>3. CASE Stays(n)
  <2>1. CASE turn[n].pc = "idle"
    BY <1>2, <1>3, <2>1 DEF Stays, Grounds
  <2>2. CASE turn[n].pc # "idle"
    <3>1. Spoken(n) \subseteq Spoken(n)' /\ turn'[n].pc # "idle"
      BY <2>2, SpokenStays
    <3>2. FieldsFrom(Spoken(n)) \subseteq FieldsFrom(Spoken(n)')
      BY <3>1, FieldsGrow
    <3>3. Seq(Spoken(n)) \subseteq Seq(Spoken(n)')
      BY <3>1
    <3> HIDE DEF Spoken
    <3> QED BY <1>3, <3>1, <3>2, <3>3 DEF Stays, Grounds
  <2> QED BY <2>1, <2>2
<1>4. ASSUME NEW i \in Turn, TurnStep(i) PROVE Grounds(n)'
  <2>1. CASE i = n
    BY <1>4, <2>1, GroundsTurn
  <2>2. CASE i # n
    <3>1. Progress(i)
      BY <1>1, <1>4, ProgressSteps
    <3>2. Stays(n)
      BY <2>2, <3>1 DEF Progress, Stays
    <3> QED BY <1>3, <3>2
  <2> QED BY <2>1, <2>2
<1>5. CASE Unanswered(n)
  BY <1>2, <1>5 DEF Unanswered, Grounds
<1>6. CASE Crash
  <2>1. Stays(n) \/ Unanswered(n)
    BY <1>6, <1>1, CrashMoves DEF Dies, Unanswered, Stays
  <2> QED BY <1>3, <1>5, <2>1
<1>7. ASSUME NEW i \in Turn, Arrive(i) PROVE Grounds(n)'
  <2>1. Arrives(i)
    BY <1>1, <1>7, ArrivalMoves
  <2>2. Stays(n) \/ Unanswered(n)
    BY <2>1 DEF Arrives, Unanswered
  <2> QED BY <1>3, <1>5, <2>2
<1>8. ASSUME NEW k \in Reset, ResetBegins(k) \/ ResetStep(k) PROVE Grounds(n)'
  <2>1. ResetBegins(k) => Stays(n)
    BY <1>1, ResetBeginsMoves DEF Clears
  <2>2. ResetStep(k) => Stays(n)
    BY <1>1, ResetSteps DEF ResetMoves, ResetMoved, Stays
  <2> QED BY <1>3, <1>8, <2>1, <2>2
<1>9. UNCHANGED vars => Stays(n)
  BY DEF vars, Stays
<1> QED BY <1>3, <1>4, <1>6, <1>7, <1>8, <1>9 DEF Next

\* Only a proposing turn proposes, and what is due.
LEMMA ProposalsMove ==
  ASSUME MaxConcurrent <= 1, Alongside, [Next]_vars
  PROVE  \/ proposed' = proposed
         \/ \E n \in Turn :
              /\ turn[n].pc = "propose" /\ ShouldPropose(turn[n].reply)
              /\ proposed' = proposed \cup {[action |-> ActionOf(n), by |-> n]}
<1>1. TypeOK /\ Refs /\ Sequential /\ Due
  BY DEF Alongside, Typed
<1>2. ASSUME NEW n \in Turn, TurnStep(n)
      PROVE  \/ proposed' = proposed
             \/ /\ turn[n].pc = "propose"
                /\ proposed' = proposed \cup {[action |-> ActionOf(n), by |-> n]}
  BY <1>2 DEF TurnStep, GetSession, Load, Install, Fetch, ChooseAgent, Classify, Route, Follow,
              LegacyRoute, Call, Execute, Admit, Deny, Enrich, Answer, Persist, AppendQuestion,
              AppendAnswer, Extend, Appends, Snapshot, Write, Conclude, Record, Propose,
              Exception, FailSafe, Fail, tables
<1> QED BY <1>1, <1>2, StepsAlone DEF Due

\* A lead is made of a selection of a vehicle.
LEMMA LeadsAreSelections ==
  ASSUME NEW skill \in DOMAIN KindOf, KindOf[skill] = "lead"
  PROVE  skill = "vehicle_selection"
BY DEF KindOf

\* What is proposed was said, and stays so.
LEMMA GivenNext ==
  ASSUME MaxConcurrent <= 1, Alongside, [Next]_vars, Repeats, NEW p \in proposed'
  PROVE  Given(p)'
<1>1. TypeOK /\ Refs /\ Sequential
  BY DEF Alongside, Typed
<1>2. ASSUME p.by \in Turn, Given(p) PROVE Given(p)'
  <2> DEFINE M == Spoken(p.by)
             L == Spoken(p.by)'
  <2>1. M \subseteq L /\ turn'[p.by].pc # "idle"
    BY <1>2, SpokenStays DEF Given
  <2>2. Seq(Pieces(M)) \subseteq Seq(Pieces(L))
    BY <2>1, FieldsGrow
  <2>3. /\ p.action.phone \in Seq(Pieces(L)) \ {<<>>} /\ p.action.name \in Seq(Pieces(L))
        /\ InKind(p.action)
        /\ p.action.kind = "lead" => p.action.name # <<>> /\ \E m \in L : LeadRequested(<<m>>)
    <3> HIDE DEF L
    <3> QED BY <1>2, <2>1, <2>2 DEF Given
  <2> HIDE DEF M, L
  <2> QED BY <2>1, <2>3 DEF Given, L
<1>3. CASE p \in proposed
  BY <1>1, <1>2, <1>3 DEF Repeats, TypeOK
<1>4. ASSUME NEW n \in Turn, turn[n].pc = "propose", ShouldPropose(turn[n].reply),
             p = [action |-> ActionOf(n), by |-> n]
      PROVE  Given(p)'
  <2> DEFINE reply == turn[n].reply
             M     == Spoken(n)
  <2>1. /\ reply.fields \in FieldsFrom(M) /\ InKind(reply.fields)
        /\ reply.fields.lead => \E m \in M : LeadRequested(<<m>>)
    BY DEF Repeats, Grounds
  <2>2. /\ p.by = n /\ p.action.phone = reply.fields.phone /\ p.action.name = reply.fields.name
        /\ p.action.kind = KindOf[reply.skill]
    BY <1>4 DEF ActionOf
  <2>3. /\ reply.skill \in DOMAIN KindOf /\ reply.fields.phone # <<>>
        /\ reply.skill = "vehicle_selection" => reply.fields.name # <<>> /\ reply.fields.lead
    BY <1>4 DEF ShouldPropose
  <2> HIDE DEF reply, M
  <2>4. /\ p.action.phone \in Seq(Pieces(M)) \ {<<>>} /\ p.action.name \in Seq(Pieces(M))
        /\ InKind(p.action)
        /\ p.action.kind = "lead" => p.action.name # <<>> /\ \E m \in M : LeadRequested(<<m>>)
    BY <2>1, <2>2, <2>3, LeadsAreSelections DEF FieldsFrom, InKind
  <2>5. Given(p)
    BY <1>4, <2>2, <2>4 DEF Given, M
  <2> QED BY <1>2, <2>2, <2>5
<1> QED BY <1>3, <1>4, ProposalsMove

\* The customer has said nothing, and nothing is proposed, at the start.
LEMMA RepeatsInit == Init => Repeats
<1>1. /\ IdleTurn.pc = "idle" /\ IdleTurn.reply = NoReply
      /\ NoReply.fields = NoFields /\ NoFields.lead = FALSE
  BY DEF IdleTurn, NoReply, NoFields
<1>2. \A M : NoFields \in FieldsFrom(M) /\ InKind(NoFields)
  BY NothingIsGrounded
<1> QED BY <1>1, <1>2 DEF Init, Repeats, Grounds

\* Its tokens are the customer's, but for the program's two words, which are in no
\* telephone.
LEMMA GivenIsSaid ==
  ASSUME NEW p, Given(p)
  PROVE  LET said == Pieces({turn[i].message : i \in Before(p.by)})
         IN  /\ ToSet(p.action.phone) \subseteq said
             /\ ToSet(p.action.name) \subseteq said \cup OwnWords
<1> DEFINE A == {turn[i].message : i \in Before(p.by)}
           said == Pieces(A)
<1>1. ToSet(Silence.text) = {} /\ ToSet(Clarification.text) = OwnWords \cup {":"}
  BY DEF Silence, Clarification, ToSet, OwnWords
<1>2. Pieces(Spoken(p.by)) = said \cup OwnWords \cup {":"}
  <2>1. Pieces(A \cup {Silence, Clarification})
          = Pieces(A) \cup ToSet(Silence.text) \cup ToSet(Clarification.text)
    <3> HIDE DEF A
    <3> QED BY DEF Pieces
  <2> QED BY <1>1, <2>1 DEF Spoken
<1>3. /\ \A c \in OwnWords \cup {":"} : c \notin Number \cup {"+"}
      /\ ":" \notin Word
  BY MessagesAssumption DEF OwnWords
<1> HIDE DEF said
<1>4. ASSUME NEW S, NEW s \in Seq(S) PROVE ToSet(s) \subseteq S
  BY <1>4 DEF ToSet
<1>5. /\ ToSet(p.action.phone) \subseteq said \cup OwnWords \cup {":"}
      /\ ToSet(p.action.phone) \subseteq Number \cup {"+"}
      /\ ToSet(p.action.name) \subseteq said \cup OwnWords \cup {":"}
      /\ ToSet(p.action.name) \subseteq Word
  BY <1>2, <1>4 DEF Given, InKind
<1> QED BY <1>3, <1>5 DEF said

\* With one request at a time, what is proposed to the staff was said by this customer
\* since the last reset, whatever agent, skill and enrichment it went through: each
\* number of the phone, each word of the name but for the program's own two, and, for
\* a lead, the request for it.
THEOREM ProposalsRepeatTheCustomer ==
  ASSUME MaxConcurrent <= 1
  PROVE  Spec => []ProposalsAreGrounded
<1>1. Alongside /\ Repeats /\ [Next]_vars => Repeats'
  BY GroundsNext, GivenNext DEF Repeats
<1>2. Repeats => ProposalsAreGrounded
  <2> SUFFICES ASSUME Repeats, NEW p \in proposed
               PROVE  /\ ToSet(p.action.phone) \subseteq Pieces({turn[i].message : i \in Before(p.by)})
                      /\ ToSet(p.action.name) \subseteq
                           Pieces({turn[i].message : i \in Before(p.by)}) \cup OwnWords
                      /\ p.action.kind = "lead" =>
                           /\ p.action.name # <<>>
                           /\ \E i \in Before(p.by) : LeadRequested(<<turn[i].message>>)
    BY DEF ProposalsAreGrounded
  <2>1. Given(p)
    BY DEF Repeats
  <2>2. \A m \in {Silence, Clarification} : ~LeadRequested(<<m>>)
    <3>1. Silence.says = {} /\ Clarification.says = {}
      BY DEF Silence, Clarification
    <3>2. \A m : ToSet(<<m>>) = {m}
      BY DEF ToSet
    <3>3. \A m \in {Silence, Clarification} : WordsOf(<<m>>) = {}
      BY <3>1, <3>2 DEF WordsOf
    <3> QED BY <3>3 DEF LeadRequested
  <2>3. p.action.kind = "lead" =>
          /\ p.action.name # <<>>
          /\ \E i \in Before(p.by) : LeadRequested(<<turn[i].message>>)
    BY <2>1, <2>2 DEF Given, Spoken
  <2> QED BY <2>1, <2>3, GivenIsSaid
<1>3. Spec => []Alongside
  BY AlongsideInductive
<1> QED BY <1>1, <1>2, <1>3, RepeatsInit, PTL DEF Spec

------------------------------------------------------------------------------
(* The proposals of a dialogue name one customer *)

\* One message and then another are a pair.
LEMMA PairIsConcat ==
  ASSUME NEW M, NEW m \in M, NEW q \in M
  PROVE  <<m>> \o <<q>> = <<m, q>>
<1> DEFINE a == <<m>>
           b == <<q>>
           c == <<m, q>>
<1>1. /\ a \in Seq(M) /\ b \in Seq(M) /\ c \in Seq(M)
      /\ Len(a) = 1 /\ Len(b) = 1 /\ Len(c) = 2
      /\ a[1] = m /\ b[1] = q /\ c[1] = m /\ c[2] = q
  OBVIOUS
<1> HIDE DEF a, b, c
<1>2. 1 \in Nat
  OBVIOUS
<1>3. /\ a \o b \in Seq(M) /\ Len(a \o b) = Len(a) + 1
      /\ \A i \in 1..Len(a) + 1 : (a \o b)[i] = IF i <= Len(a) THEN a[i] ELSE b[i - Len(a)]
  BY ONLY <1>1, <1>2, ConcatIndexed
<1>4. Len(a \o b) = Len(c) /\ \A i \in 1..Len(a \o b) : (a \o b)[i] = c[i]
  <2>1. (a \o b)[1] = m /\ (a \o b)[2] = q
    BY <1>1, <1>3
  <2> QED BY <1>1, <1>3, <2>1
<1>5. a \o b = c
  BY <1>1, <1>3, <1>4, SeqEqual
<1> QED BY <1>5 DEF a, b, c

\* One message and then two are three.
LEMMA TripleIsConcat ==
  ASSUME NEW M, NEW m \in M, NEW q \in M, NEW r \in M
  PROVE  <<m>> \o <<q, r>> = <<m, q, r>>
<1> DEFINE a == <<m>>
           b == <<q, r>>
           c == <<m, q, r>>
<1>1. /\ a \in Seq(M) /\ b \in Seq(M) /\ c \in Seq(M)
      /\ Len(a) = 1 /\ Len(b) = 2 /\ Len(c) = 3
      /\ a[1] = m /\ b[1] = q /\ b[2] = r /\ c[1] = m /\ c[2] = q /\ c[3] = r
  OBVIOUS
<1> HIDE DEF a, b, c
<1>2. 2 \in Nat
  OBVIOUS
<1>3. /\ a \o b \in Seq(M) /\ Len(a \o b) = Len(a) + 2
      /\ \A i \in 1..Len(a) + 2 : (a \o b)[i] = IF i <= Len(a) THEN a[i] ELSE b[i - Len(a)]
  BY ONLY <1>1, <1>2, ConcatIndexed
<1>4. Len(a \o b) = Len(c) /\ \A i \in 1..Len(a \o b) : (a \o b)[i] = c[i]
  <2>1. (a \o b)[1] = m /\ (a \o b)[2] = q /\ (a \o b)[3] = r
    BY <1>1, <1>3
  <2> QED BY <1>1, <1>3, <2>1
<1>5. a \o b = c
  BY <1>1, <1>3, <1>4, SeqEqual
<1> QED BY <1>5 DEF a, b, c

\* What is tidy that can be in a text, and that everything is that was said so far.
TidyUtterance == {m \in Utterance : IsTidy(m)}
Tidy == \A n \in Turn : turn[n].pc # "idle" => IsTidy(turn[n].message)

\* What the expressions find first in a text.
Gives(text, field) == ContactIn(Joined(text), field)

\* Tidy messages have tidy texts, and silence is one.
LEMMA OrderlyTexts ==
  /\ \A m \in TidyUtterance : m.text \in Seq(Token) /\ Neat(m.text)
  /\ Silence \in TidyUtterance
<1>1. \A m \in TidyUtterance : m.text \in Seq(Token) /\ Neat(m.text)
  BY TextsTyped DEF TidyUtterance, IsTidy, Neat, Last
<1>2. Silence.text = <<>>
  BY DEF Silence
<1>3. Mentioned(<<>>) = {}
  BY DEF Mentioned
<1>4. Silence \in Utterance
  BY DEF Utterance
<1> QED BY <1>1, <1>2, <1>3, <1>4 DEF TidyUtterance, IsTidy

\* What a text gives does not change, whatever is said afterwards.
LEMMA GivenStays ==
  ASSUME NEW s \in Seq(TidyUtterance), NEW t \in Seq(TidyUtterance), NEW field, Gives(s, field) # <<>>
  PROVE  Gives(s \o t, field) = Gives(s, field)
BY OrderlyTexts, ContactStays DEF Gives

\* The program's words give nothing, and what follows them stands by itself.
LEMMA ClarificationGivesNothing ==
  /\ Clarification.text \in Seq(Token) /\ Closed(Clarification.text)
  /\ Mentioned(Clarification.text) = {}
  /\ \A f : ContactIn(Clarification.text, f) = <<>>
<1> DEFINE t == <<"clarification", "user", ":">>
<1>1. Clarification.text = t
  BY DEF Clarification, Silence
<1>2. Clarification \in Utterance
  BY DEF Utterance
<1>3. t \in Seq(Token)
  BY <1>1, <1>2, TextsTyped
<1>4. /\ Len(t) = 3 /\ DOMAIN t = 1..3 /\ t # <<>>
      /\ t[1] = "clarification" /\ t[2] = "user" /\ t[3] = ":"
  OBVIOUS
<1> HIDE DEF t
<1>5. Closed(t)
  BY <1>4 DEF Closed
<1>6. \A i \in DOMAIN t : t[i] \notin Number
  BY <1>4, ClosingMarks
<1>7. Telephones(t) = {}
  <2> SUFFICES ASSUME NEW i \in Telephones(t) PROVE FALSE
    OBVIOUS
  <2>1. i \in DOMAIN t /\ \E j \in i..Len(t) : IsRun(t, i, j)
    BY DEF Telephones
  <2>2. PICK j \in i..Len(t) : IsRun(t, i, j)
    BY <2>1
  <2>3. i \in i..j
    BY <1>4, <2>1
  <2> QED BY <1>6, <2>1, <2>2, <2>3 DEF IsRun
<1>8. Mentioned(t) = {}
  <2> SUFFICES ASSUME NEW i \in Mentioned(t) PROVE FALSE
    OBVIOUS
  <2>1. i \in DOMAIN t /\ i < Len(t) /\ t[i + 1] \in {".", "telephone"}
    BY DEF Mentioned
  <2>2. i \in {1, 2}
    BY <1>4, <2>1
  <2> QED BY <1>4, <2>1, <2>2
<1>9. Introduced(t) = {}
  <2> SUFFICES ASSUME NEW i \in Introduced(t) PROVE FALSE
    OBVIOUS
  <2> DEFINE l == LeadIn(t, i)
  <2>1. i \in DOMAIN t /\ t[i] \in Word
    BY Zenon DEF Introduced
  <2>2. l >= 1 /\ t[l] \in {"name", "full name", "called"}
    BY DEF Introduced
  <2>3. i = 1 \/ i = 2
    BY <1>4, <2>1, ClosingMarks
  <2>4. i = 1 => l = 0
    BY DEF LeadIn
  <2>5. i = 2 => l = 1
    BY <1>4 DEF LeadIn
  <2> HIDE DEF l
  <2>6. l = 1
    <3>1. ~(0 >= 1)
      OBVIOUS
    <3> QED BY <2>2, <2>3, <2>4, <2>5, <3>1, Zenon
  <2> QED BY <1>4, <2>2, <2>6
<1>10. \A f : ContactIn(t, f) = <<>>
  BY <1>7, <1>9 DEF ContactIn, PhoneIn, NameIn
<1> QED BY <1>1, <1>3, <1>5, <1>8, <1>10

\* So a question that is repeated before the one that continues it gives nothing new.
LEMMA RepetitionGivesNothing ==
  ASSUME NEW s \in Seq(TidyUtterance), NEW m \in TidyUtterance, NEW k \in 1..Len(s)
  PROVE  /\ Mentioned(Joined(s \o <<s[k], Clarification, m>>)) = {}
         /\ \A f : Gives(s \o <<s[k], Clarification, m>>, f) = Gives(s \o <<m>>, f)
<1> DEFINE U == TidyUtterance \cup {Clarification}
           q == s[k]
           J == Joined(s)
           A == J \o q.text
           B == A \o Clarification.text
           C == B \o m.text
<1>1. /\ \A x \in TidyUtterance : x.text \in Seq(Token) /\ Neat(x.text)
      /\ q \in TidyUtterance /\ s \in Seq(U) /\ q \in U /\ Clarification \in U /\ m \in U
  <2>1. q \in TidyUtterance
    BY ElementOfSeq
  <2>2. s \in Seq(U)
    OBVIOUS
  <2> QED BY <2>1, <2>2, OrderlyTexts
<1>2. \A x \in U : x.text \in Seq(Token)
  BY <1>1, ClarificationGivesNothing
<1> HIDE DEF U, q
<1>3. Joined(s \o <<q, Clarification, m>>) = C
  <2> DEFINE s1 == s \o <<q>>
             s2 == s1 \o <<Clarification>>
             s3 == s2 \o <<m>>
  <2>1. s1 \in Seq(U) /\ Joined(s1) = A
    <3>1. <<q>> \in Seq(U)
      BY <1>1
    <3> QED BY <1>1, <1>2, <3>1, ConcatProperties, JoinedAppend
  <2>2. s2 \in Seq(U) /\ Joined(s2) = B
    <3>1. <<Clarification>> \in Seq(U)
      BY <1>1
    <3> HIDE DEF s1, A
    <3> QED BY <1>1, <1>2, <2>1, <3>1, ConcatProperties, JoinedAppend
  <2>3. Joined(s3) = C
    <3> HIDE DEF s2, B
    <3> QED BY <1>1, <1>2, <2>2, JoinedAppend
  <2>4. s3 = s \o <<q, Clarification, m>>
    <3>1. /\ <<q>> \in Seq(U) /\ <<Clarification>> \in Seq(U) /\ <<m>> \in Seq(U)
          /\ <<Clarification, m>> \in Seq(U)
      BY <1>1
    <3>2. <<Clarification>> \o <<m>> = <<Clarification, m>>
      BY <1>1, PairIsConcat
    <3>3. <<q>> \o <<Clarification, m>> = <<q, Clarification, m>>
      BY <1>1, TripleIsConcat
    <3>4. s3 = s1 \o (<<Clarification>> \o <<m>>)
      <4> HIDE DEF s1
      <4> QED BY <2>1, <3>1, ConcatAssociative
    <3>5. s1 \o <<Clarification, m>> = s \o (<<q>> \o <<Clarification, m>>)
      BY <1>1, <3>1, ConcatAssociative
    <3> HIDE DEF s1, s2, s3
    <3> QED BY <3>2, <3>3, <3>4, <3>5
  <2> QED BY <2>3, <2>4
<1>4. J \in Seq(Token) /\ Neat(J) /\ Closed(J)
  BY <1>1, NeatJoined DEF Neat, Closed
<1>5. A \in Seq(Token) /\ Neat(A) /\ Closed(A)
  <2>1. q.text \in Seq(Token) /\ Neat(q.text)
    BY <1>1
  <2> HIDE DEF J
  <2>2. A \in Seq(Token) /\ Neat(A)
    BY <1>4, <2>1, NeatApart
  <2> QED BY <2>2 DEF Neat, Closed
<1> DEFINE c == Clarification.text
<1>6. c \in Seq(Token) /\ c # <<>> /\ Mentioned(c) = {} /\ \A f : ContactIn(c, f) = <<>>
  BY ClarificationGivesNothing DEF Clarification, Silence
<1>7. B \in Seq(Token) /\ Closed(B) /\ Mentioned(B) = {}
  <2> HIDE DEF A
  <2>1. Mentioned(B) = {}
    BY <1>5, <1>6, IntroducedApart DEF Neat
  <2>2. /\ B \in Seq(Token) /\ Len(B) = Len(A) + 3
        /\ B[Len(A) + 2] = "user" /\ B[Len(A) + 3] = ":"
    <3>1. c = <<"clarification", "user", ":">>
      BY DEF Clarification, Silence
    <3>2. Len(c) = 3 /\ c[2] = "user" /\ c[3] = ":"
      BY <3>1
    <3> HIDE DEF c
    <3>3. /\ A \o c \in Seq(Token) /\ Len(A \o c) = Len(A) + 3
          /\ \A i \in 1..Len(A) + 3 : (A \o c)[i] = IF i <= Len(A) THEN A[i] ELSE c[i - Len(A)]
      <4>1. 3 \in Nat /\ A \in Seq(Token) /\ c \in Seq(Token) /\ Len(c) = 3
        BY <1>5, <1>6, <3>2
      <4> QED BY ONLY <4>1, ConcatIndexed
    <3>4. /\ Len(A) + 2 \in 1..Len(A) + 3 /\ ~(Len(A) + 2 <= Len(A)) /\ (Len(A) + 2) - Len(A) = 2
          /\ Len(A) + 3 \in 1..Len(A) + 3 /\ ~(Len(A) + 3 <= Len(A)) /\ (Len(A) + 3) - Len(A) = 3
      <4>1. Len(A) \in Nat
        BY <1>5
      <4> QED BY <4>1
    <3>5. (A \o c)[Len(A) + 2] = "user" /\ (A \o c)[Len(A) + 3] = ":"
      BY <3>2, <3>3, <3>4
    <3> QED BY <3>3, <3>5 DEF c
  <2>3. Len(A) \in Nat
    BY <1>5
  <2> HIDE DEF B
  <2>4. Len(B) > 1 /\ Len(B) - 1 = Len(A) + 2
    BY <2>2, <2>3
  <2>5. Closed(B)
    BY <2>2, <2>4 DEF Closed
  <2> QED BY <2>1, <2>2, <2>5
<1>8. m.text \in Seq(Token) /\ Mentioned(m.text) = {}
  BY <1>1 DEF Neat
<1>9. Mentioned(C) = {}
  <2> HIDE DEF B
  <2> QED BY <1>7, <1>8, IntroducedApart
<1>10. ASSUME NEW f PROVE ContactIn(C, f) = ContactIn(J \o m.text, f)
  <2>1. ContactIn(A, f) = ContactIn(J, f)
    <3>1. ContactIn(J, f) = <<>> => ContactIn(q.text, f) = <<>>
      BY <1>1, PartsGiveNothing DEF q
    <3>2. q.text \in Seq(Token)
      BY <1>1
    <3> HIDE DEF J
    <3>3. ContactIn(A, f) = IF ContactIn(J, f) # <<>> THEN ContactIn(J, f) ELSE ContactIn(q.text, f)
      BY <1>4, <3>2, ContactsApart
    <3> QED BY <3>1, <3>3
  <2>2. ContactIn(B, f) = ContactIn(A, f)
    <3> HIDE DEF A, c
    <3>1. ContactIn(A \o c, f) = IF ContactIn(A, f) # <<>> THEN ContactIn(A, f) ELSE ContactIn(c, f)
      BY <1>5, <1>6, ContactsApart
    <3> QED BY <1>6, <3>1 DEF c
  <2>3. ContactIn(C, f) = IF ContactIn(B, f) # <<>> THEN ContactIn(B, f) ELSE ContactIn(m.text, f)
    <3> HIDE DEF B
    <3> QED BY <1>7, <1>8, ContactsApart
  <2>4. ContactIn(J \o m.text, f) = IF ContactIn(J, f) # <<>> THEN ContactIn(J, f) ELSE ContactIn(m.text, f)
    <3> HIDE DEF J
    <3> QED BY <1>4, <1>8, ContactsApart
  <2> HIDE DEF A, B, C, J
  <2> QED BY <2>1, <2>2, <2>3, <2>4
<1>11. Joined(s \o <<m>>) = J \o m.text
  BY <1>1, JoinedAppend
<1> HIDE DEF C, J
<1> QED BY <1>3, <1>9, <1>10, <1>11 DEF Gives, q

\* The customer's side of a history, when the turns are these.
Text(history, turns) ==
  [i \in DOMAIN history |-> IF history[i][2] = "question" THEN turns[history[i][1]].message
                            ELSE Silence]

\* It is what the skills read.
LEMMA TextTyped ==
  ASSUME TypeOK, NEW h \in Seq(Entry)
  PROVE  /\ QuestionsOf(h) = Text(h, turn) /\ Text(h, turn) \in Seq(Utterance)
         /\ Len(Text(h, turn)) = Len(h) /\ Len(h) \in Nat
<1>1. QuestionsOf(h) = Text(h, turn) /\ Len(h) \in Nat
  BY LenProperties DEF QuestionsOf, Text
<1>2. QuestionsOf(h) \in Seq(Utterance) /\ DOMAIN QuestionsOf(h) = 1..Len(h)
  BY QuestionsTyped
<1> HIDE DEF Text
<1>3. Len(Text(h, turn)) = Len(h)
  <2> DEFINE t == Text(h, turn)
  <2>1. t \in Seq(Utterance) /\ DOMAIN t = 1..Len(h)
    BY <1>1, <1>2
  <2> HIDE DEF t
  <2>2. Len(t) = Len(h)
    BY <1>1, <2>1, LenProperties
  <2> QED BY <2>2 DEF t
<1> QED BY <1>1, <1>2, <1>3

\* A history that goes on reads on.
LEMMA TextGrows ==
  ASSUME TypeOK, NEW h \in Seq(Entry), NEW l \in Seq(Entry)
  PROVE  Text(h \o l, turn) = Text(h, turn) \o Text(l, turn)
<1>1. /\ h \o l \in Seq(Entry) /\ Len(h \o l) = Len(h) + Len(l)
      /\ \A i \in 1..Len(h) + Len(l) : (h \o l)[i] = IF i <= Len(h) THEN h[i] ELSE l[i - Len(h)]
  BY ConcatProperties, LenProperties
<1>2. /\ Text(h, turn) \in Seq(Utterance) /\ Len(Text(h, turn)) = Len(h) /\ Len(h) \in Nat
      /\ Text(l, turn) \in Seq(Utterance) /\ Len(Text(l, turn)) = Len(l) /\ Len(l) \in Nat
      /\ Text(h \o l, turn) \in Seq(Utterance) /\ Len(Text(h \o l, turn)) = Len(h \o l)
  BY <1>1, TextTyped
<1>3. \A g \in Seq(Entry) : \A i \in 1..Len(g) :
        Text(g, turn)[i] = IF g[i][2] = "question" THEN turn[g[i][1]].message ELSE Silence
  BY LenProperties DEF Text
<1>4. /\ Text(h, turn) \o Text(l, turn) \in Seq(Utterance)
      /\ Len(Text(h, turn) \o Text(l, turn)) = Len(h) + Len(l)
      /\ \A i \in 1..Len(h) + Len(l) :
           (Text(h, turn) \o Text(l, turn))[i] =
             IF i <= Len(h) THEN Text(h, turn)[i] ELSE Text(l, turn)[i - Len(h)]
  <2> DEFINE p == Text(h, turn)
             q == Text(l, turn)
  <2>1. p \in Seq(Utterance) /\ q \in Seq(Utterance) /\ Len(p) = Len(h) /\ Len(q) = Len(l)
    BY <1>2
  <2> HIDE DEF p, q
  <2>2. /\ p \o q \in Seq(Utterance) /\ Len(p \o q) = Len(p) + Len(q)
        /\ \A i \in 1..Len(p) + Len(q) :
             (p \o q)[i] = IF i <= Len(p) THEN p[i] ELSE q[i - Len(p)]
    BY ONLY <2>1, ConcatProperties
  <2> QED BY <2>1, <2>2 DEF p, q
<1>5. ASSUME NEW i \in 1..Len(h) + Len(l)
      PROVE  Text(h \o l, turn)[i] = (Text(h, turn) \o Text(l, turn))[i]
  <2>1. CASE i <= Len(h)
    <3>1. i \in 1..Len(h) /\ i \in 1..Len(h \o l) /\ (h \o l)[i] = h[i]
      BY <1>1, <1>2, <2>1
    <3> QED BY <1>1, <1>3, <1>4, <2>1, <3>1
  <2>2. CASE ~(i <= Len(h))
    <3>1. i - Len(h) \in 1..Len(l) /\ i \in 1..Len(h \o l) /\ (h \o l)[i] = l[i - Len(h)]
      BY <1>1, <1>2, <2>2
    <3> QED BY <1>1, <1>3, <1>4, <2>2, <3>1
  <2> QED BY <2>1, <2>2
<1> HIDE DEF Text
<1> DEFINE a == Text(h \o l, turn)
           b == Text(h, turn) \o Text(l, turn)
<1>6. a \in Seq(Utterance) /\ b \in Seq(Utterance) /\ Len(a) = Len(b)
      /\ \A i \in 1..Len(a) : a[i] = b[i]
  BY <1>1, <1>2, <1>4, <1>5
<1> HIDE DEF a, b
<1>7. a = b
  BY <1>6, SeqEqual
<1> QED BY <1>7 DEF a, b

\* A turn adds its message, and nothing with its answer.
LEMMA TextOfTurn ==
  ASSUME NEW n \in Turn
  PROVE  /\ Text(<< <<n, "question">> >>, turn) = <<turn[n].message>>
         /\ Text(<< <<n, "answer">> >>, turn) = <<Silence>>
         /\ Text(<< <<n, "question">>, <<n, "answer">> >>, turn) = <<turn[n].message, Silence>>
<1> HIDE DEF Silence
<1> QED BY DEF Text

\* What was said is said.
LEMMA TextStays ==
  ASSUME MaxConcurrent <= 1, Alongside, [Next]_vars
  PROVE  \A h \in Begun : Text(h, turn') = Text(h, turn)
<1> SUFFICES ASSUME NEW h \in Begun PROVE Text(h, turn') = Text(h, turn)
  OBVIOUS
<1>1. TypeOK /\ Refs /\ Sequential
  BY DEF Alongside, Typed
<1>2. h \in Seq(Entry) /\ \A i \in DOMAIN h : h[i] \in ToSet(h)
  BY DEF Begun, ToSet
<1>3. \A i \in DOMAIN h : h[i][1] \in Turn /\ turn[h[i][1]].pc # "idle"
  BY <1>2, EntryTurn DEF Begun
<1>4. \A i \in DOMAIN h : turn'[h[i][1]].message = turn[h[i][1]].message
  BY <1>1, <1>3, PastStays
<1> QED BY <1>4 DEF Text

\* Tidy turns make tidy texts.
LEMMA TidyText ==
  ASSUME TypeOK, Tidy, NEW h \in Begun
  PROVE  h \in Seq(Entry) /\ Text(h, turn) \in Seq(TidyUtterance)
<1> DEFINE text == Text(h, turn)
<1>1. h \in Seq(Entry) /\ \A i \in DOMAIN h : h[i] \in ToSet(h)
  BY DEF Begun, ToSet
<1>2. \A i \in DOMAIN h : h[i][1] \in Turn /\ turn[h[i][1]].pc # "idle"
  BY <1>1, EntryTurn DEF Begun
<1>3. \A n \in Turn : turn[n].message \in Utterance
  BY DEF TypeOK, TurnState
<1>4. \A i \in DOMAIN h : turn[h[i][1]].message \in TidyUtterance
  BY <1>2, <1>3 DEF Tidy, TidyUtterance
<1>5. \A i \in DOMAIN h : text[i] \in TidyUtterance
  <2> SUFFICES ASSUME NEW i \in DOMAIN h PROVE text[i] \in TidyUtterance
    OBVIOUS
  <2>1. text[i] \in {turn[h[i][1]].message, Silence}
    BY DEF Text
  <2> QED BY <1>4, <2>1, OrderlyTexts
<1>6. text \in Seq(Utterance) /\ Len(text) = Len(h) /\ DOMAIN h = 1..Len(h)
  BY <1>1, TextTyped, LenProperties
<1> HIDE DEF text
<1>7. text \in Seq(TidyUtterance)
  <2>1. text = [i \in 1..Len(text) |-> text[i]] /\ Len(text) \in Nat
    BY <1>6
  <2>2. \A i \in 1..Len(text) : text[i] \in TidyUtterance
    BY <1>5, <1>6
  <2> QED BY <2>1, <2>2
<1> QED BY <1>1, <1>7 DEF text

\* The histories whose text gives this value for the field, if it is one.
Opening(field, v) ==
  {h \in Begun : v # <<>> => Gives(Text(h, turn), field) = v}

\* The contact in the fields is read off the text.
ReadOff(fields, text) ==
  \A f \in {"name", "phone"} : fields[f] # <<>> => Gives(text, f) = fields[f]

\* What the agent is given repeats at most one question, and the contact of the reply
\* is what the history gives, with the message of the turn after it until it is told.
Read(n) ==
  LET text   == Text(Session(n).history, turn)
      fields == turn[n].reply.fields
  IN  /\ turn[n].pc \in {"load", "install", "fetch"} \cup Thinking => fields = NoFields
      /\ turn[n].pc = "answer" =>
           \/ turn[n].asked = <<turn[n].message>>
           \/ \E k \in 1..Len(text) : turn[n].asked = <<text[k], Clarification, turn[n].message>>
      /\ turn[n].pc \in {"ask", "extend"} => ReadOff(fields, text \o <<turn[n].message>>)
      /\ turn[n].pc \in {"reply", "snapshot", "write", "record", "propose"} =>
           ReadOff(fields, text)

\* The proposals name the customer whom every copy of the history names, until a
\* reset is asked for.
Agreed(p) ==
  turn[p.by].after = Asked =>
    Widespread(Opening("phone", p.action.phone)) /\ Widespread(Opening("name", p.action.name))

\* The proposals between two resets name one customer.
OneCustomer ==
  \A p, q \in proposed :
    turn[p.by].after = turn[q.by].after =>
      /\ p.action.phone = q.action.phone
      /\ <<>> \in {p.action.name, q.action.name} \/ p.action.name = q.action.name

\* While everything that was said is tidy.
Agreement ==
  Tidy => /\ \A n \in Turn : InProgress(n) => turn[n].after = Asked /\ Read(n)
          /\ \A p \in proposed : Agreed(p)
          /\ OneCustomer

\* If it is, it was.
LEMMA TidyBefore ==
  ASSUME MaxConcurrent <= 1, Alongside, [Next]_vars, Tidy'
  PROVE  Tidy
<1>1. TypeOK /\ Refs /\ Sequential
  BY DEF Alongside, Typed
<1> QED BY <1>1, PastStays DEF Tidy

\* An agent reads the contact off the history and the message alone.
LEMMA AnswersReadOff ==
  ASSUME NEW text \in Seq(TidyUtterance), NEW m \in TidyUtterance, NEW agent \in Agent, NEW asked,
         asked = <<m>> \/ \E k \in 1..Len(text) : asked = <<text[k], Clarification, m>>,
         NEW reply \in Replies(agent, asked, text)
  PROVE  ReadOff(reply.fields, text \o <<m>>)
<1>1. reply.fields \in FieldsOf(text \o asked)
  BY RepliesTyped DEF ReplyFrom
<1>2. /\ Mentioned(Joined(text \o asked)) = {}
      /\ \A f : Gives(text \o asked, f) = Gives(text \o <<m>>, f)
  <2>1. CASE asked = <<m>>
    <3>1. text \o <<m>> \in Seq(TidyUtterance)
      <4>1. <<m>> \in Seq(TidyUtterance)
        OBVIOUS
      <4> QED BY <4>1, ConcatProperties
    <3>2. Neat(Joined(text \o <<m>>))
      <4> DEFINE t == text \o <<m>>
      <4>1. t \in Seq(TidyUtterance)
        BY <3>1
      <4> HIDE DEF t
      <4>2. Neat(Joined(t))
        BY <4>1, OrderlyTexts, NeatJoined
      <4> QED BY <4>2 DEF t
    <3> QED BY <2>1, <3>2 DEF Neat
  <2>2. CASE \E k \in 1..Len(text) : asked = <<text[k], Clarification, m>>
    BY <2>2, RepetitionGivesNothing
  <2> QED BY <2>1, <2>2
<1> DEFINE t == text \o asked
<1>3. /\ Phone(t) = Gives(t, "phone")
      /\ CustomerName(t) = Gives(t, "name")
  <2> HIDE DEF t
  <2>1. Mentioned(Joined(t)) = {}
    BY <1>2 DEF t
  <2>2. "name" # "phone"
    OBVIOUS
  <2>3. Phone(t) = PhoneIn(Joined(t))
    BY DEF Phone, PhoneIn
  <2>4. CustomerName(t) = NameIn(Joined(t))
    BY <2>1 DEF CustomerName, NameIn
  <2> QED BY <2>2, <2>3, <2>4 DEF Gives, ContactIn
<1>4. reply.fields.phone \in {<<>>, Phone(t)} /\ reply.fields.name \in {<<>>, CustomerName(t)}
  BY <1>1 DEF FieldsOf
<1>5. ASSUME NEW f \in {"name", "phone"}, reply.fields[f] # <<>>
      PROVE  Gives(text \o <<m>>, f) = reply.fields[f]
  <2>1. reply.fields[f] = Gives(t, f)
    <3> HIDE DEF t
    <3> QED BY <1>3, <1>4, <1>5
  <2> QED BY <1>2, <2>1
<1> QED BY <1>5 DEF ReadOff

\* What the turn at work reads has begun, and is in the process.
LEMMA AtWork ==
  ASSUME Alongside, NEW n \in Turn, turn[n].pc \in Working
  PROVE  /\ turn[n].object = cached /\ cached \in Object /\ cached # NoObject
         /\ Session(n).history \in Begun /\ Session(n).history \in Seq(Entry)
         /\ Text(Session(n).history, turn) \in Seq(Utterance)
         /\ turn[n].message \in Utterance
<1>1. /\ TypeOK /\ Refs /\ Settled /\ Holds(n)
  BY DEF Alongside, Typed, Settled
<1>2. turn[n].object = cached /\ cached \in Object /\ cached # NoObject
  BY <1>1, Names DEF Holds, Refs
<1>3. Session(n).history \in Begun /\ Session(n).history \in Seq(Entry)
  BY <1>1, <1>2, HistoriesHaveBegun DEF Session, Begun
<1>4. turn[n].message \in Utterance
  BY <1>1 DEF TypeOK, TurnState
<1> QED BY <1>1, <1>2, <1>3, <1>4, TextTyped

\* If everything is tidy, so is that.
LEMMA TidyAtWork ==
  ASSUME Alongside, Tidy, NEW n \in Turn, turn[n].pc \in Working
  PROVE  Text(Session(n).history, turn) \in Seq(TidyUtterance) /\ turn[n].message \in TidyUtterance
<1>1. TypeOK
  BY DEF Alongside, Typed
<1>2. Session(n).history \in Begun /\ turn[n].message \in Utterance /\ turn[n].pc # "idle"
  BY AtWork DEF Working
<1> QED BY <1>1, <1>2, TidyText DEF Tidy, TidyUtterance

\* A step of a turn leaves no contact that was not read off the history.
LEMMA FieldsRead ==
  ASSUME TypeOK, Refs, NEW n \in Turn, TurnStep(n)
  PROVE  \/ turn'[n].reply.fields = NoFields
         \/ turn'[n].reply.fields = turn[n].reply.fields /\ turn[n].pc # "write"
         \/ turn'[n].reply.fields = turn[n].reply.fields /\ turn'[n].pc \notin {"ask", "extend"}
         \/ /\ turn[n].pc = "answer" /\ turn'[n].pc \in {"ask", "extend"}
            /\ Selected(n) \in Agent
            /\ turn'[n].reply \in
                 Replies(Selected(n), turn[n].asked, QuestionsOf(Session(n).history))
<1>1. CASE turn[n].pc = "write"
  <2>1. CASE Write(n)
    <3> DEFINE t == [turn[n] EXCEPT !.pc = "record", !.saved = NewSession]
    <3>1. t.pc = "record"
      BY DEF TypeOK, TurnState
    <3>2. turn'[n] = t
      BY <2>1, WriteMoves, OthersStay
    <3>3. turn'[n].pc \notin {"ask", "extend"}
      BY <3>1, <3>2
    <3> QED BY <1>1, <3>3, FieldsMove
  <2>2. CASE Exception(n)
    <3>1. ASSUME NEW pc \in {"ask", "extend"}, Becomes(n, [turn[n] EXCEPT !.reply = SafeFailure, !.pc = pc])
          PROVE  turn'[n].reply = SafeFailure
      <4> DEFINE t == [turn[n] EXCEPT !.reply = SafeFailure, !.pc = pc]
      <4>1. t.reply = SafeFailure
        BY DEF TypeOK, TurnState
      <4>2. turn'[n] = t
        BY <3>1, OthersStay
      <4> HIDE DEF t
      <4> QED BY <4>1, <4>2
    <3>2. Becomes(n, Remains(n, "failed")) => turn'[n].reply = NoReply
      <4>1. "failed" \in Stage
        BY DEF Stage, Ended
      <4> QED BY <4>1, OthersStay, RemainsTyped
    <3>3. SafeFailure.fields = NoFields /\ NoReply.fields = NoFields
      BY DEF SafeFailure, OrchestratorReply, NoReply
    <3> QED BY <2>2, <3>1, <3>2, <3>3, ExceptionMoves
  <2> QED BY <1>1, <2>1, <2>2
        DEF TurnStep, GetSession, Load, Install, Fetch, ChooseAgent, Classify, Route, Follow,
            LegacyRoute, Call, Execute, Admit, Deny, Enrich, Answer, Persist, AppendQuestion,
            AppendAnswer, Extend, Snapshot, Conclude, Record, Propose
<1>2. CASE turn[n].pc = "answer"
  <2>1. turn'[n].pc \in {"ask", "extend"} \/ turn'[n].reply \in {turn[n].reply, NoReply}
    <3>1. Advances(n)
      BY ProgressSteps DEF Progress
    <3> QED BY <1>2, <3>1 DEF Advances, Routed
  <2>2. NoReply.fields = NoFields
    BY DEF NoReply
  <2> QED BY <1>2, <2>1, <2>2, FieldsMove
<1> QED BY <1>1, <1>2, FieldsMove

\* What is added to a history that has begun has begun too.
LEMMA BegunGrows ==
  ASSUME NEW n \in Turn, InProgress(n), NEW h \in Begun, NEW entries \in Seq(Entry),
         ToSet(entries) \subseteq EntriesBy(n)
  PROVE  h \o entries \in Begun
<1>1. h \in Seq(Entry)
  BY DEF Begun
<1>2. h \o entries \in Seq(Entry) /\ ToSet(h \o entries) = ToSet(h) \cup ToSet(entries)
  BY <1>1, SaidStays, ConcatProperties
<1>3. \A e \in EntriesBy(n) : e[1] = n
  BY DEF EntriesBy
<1> QED BY <1>2, <1>3 DEF Begun, InProgress

\* Who collects nothing has read off nothing else.
LEMMA NothingRead ==
  ASSUME NEW text
  PROVE  ReadOff(NoFields, text)
BY DEF ReadOff, NoFields

\* What was read off stays so.
LEMMA ReadOffStays ==
  ASSUME NEW s \in Seq(TidyUtterance), NEW t \in Seq(TidyUtterance), NEW fields, ReadOff(fields, s)
  PROVE  ReadOff(fields, s \o t)
BY GivenStays DEF ReadOff

\* The step of a turn that tells the history of its question or its answer.
LEMMA ReadTells ==
  ASSUME MaxConcurrent <= 1, Alongside, Tidy, [Next]_vars, NEW n \in Turn, TurnStep(n), Read(n),
         NEW from \in {"ask", "reply", "extend"}, NEW to \in {"reply", "snapshot"},
         NEW entries \in Seq(Entry), Tells(n, from, to, entries),
         ToSet(entries) \subseteq EntriesBy(n),
         from \in {"ask", "extend"} =>
           \/ Text(entries, turn) = <<turn[n].message>>
           \/ Text(entries, turn) = <<turn[n].message, Silence>>
  PROVE  Read(n)'
<1> DEFINE h == Session(n).history
           m == turn[n].message
           text == Text(h, turn)
           fields == turn[n].reply.fields
<1>1. TypeOK /\ Refs /\ turn[n].pc = from /\ turn'[n].pc = to
  BY DEF Alongside, Typed, Tells, Moved
<1>2. /\ h \in Begun /\ h \in Seq(Entry) /\ text \in Seq(TidyUtterance) /\ m \in TidyUtterance
      /\ InProgress(n)
  BY <1>1, AtWork, TidyAtWork DEF Working, InProgress, Ended
<1>3. Session(n).history' = h \o entries
  BY DEF Tells, Moved, Session
<1>4. h \o entries \in Begun
  BY <1>2, BegunGrows
<1>5. Text(h \o entries, turn') = text \o Text(entries, turn)
  BY <1>1, <1>2, <1>4, TextStays, TextGrows
<1>6. ReadOff(fields, text \o Text(entries, turn))
  <2>1. Text(entries, turn) \in Seq(TidyUtterance)
    <3>1. entries \in Begun
      <4>1. \A e \in ToSet(entries) : e[1] = n
        BY DEF EntriesBy
      <4> QED BY <1>2, <4>1 DEF Begun, InProgress
    <3> QED BY <1>1, <3>1, TidyText
  <2>2. CASE from = "reply"
    <3>1. ReadOff(fields, text)
      BY <1>1, <2>2 DEF Read
    <3> HIDE DEF text, fields
    <3> QED BY <1>2, <2>1, <3>1, ReadOffStays
  <2>3. CASE from \in {"ask", "extend"}
    <3>1. ReadOff(fields, text \o <<m>>)
      BY <1>1, <2>3 DEF Read
    <3>2. Silence \in TidyUtterance /\ <<m>> \in Seq(TidyUtterance) /\ <<Silence>> \in Seq(TidyUtterance)
      BY <1>2, OrderlyTexts
    <3> HIDE DEF text, fields, m
    <3>3. ReadOff(fields, (text \o <<m>>) \o <<Silence>>)
      <4>1. text \o <<m>> \in Seq(TidyUtterance)
        BY <1>2, <3>2, ConcatProperties
      <4> QED BY <3>1, <3>2, <4>1, ReadOffStays
    <3>4. (text \o <<m>>) \o <<Silence>> = text \o <<m, Silence>>
      <4>1. <<m>> \o <<Silence>> = <<m, Silence>>
        BY <1>2, <3>2, PairIsConcat
      <4> QED BY <1>2, <3>2, <4>1, ConcatAssociative
    <3> QED BY <2>3, <3>1, <3>3, <3>4 DEF m
  <2> QED BY <2>2, <2>3
<1>7. turn'[n].reply.fields \in {fields, NoFields}
  BY <1>1, FieldsRead
<1>8. ReadOff(turn'[n].reply.fields, Text(Session(n).history', turn'))
  <2> HIDE DEF h, text, fields
  <2> QED BY <1>3, <1>5, <1>6, <1>7, NothingRead
<1>9. turn'[n].pc \in {"reply", "snapshot"}
  BY <1>1
<1> HIDE DEF h, text, fields, m
<1> QED BY <1>8, <1>9 DEF Read, Thinking

\* So does every other step of the turn.
LEMMA ReadTurn ==
  ASSUME MaxConcurrent <= 1, Alongside, Tidy, [Next]_vars, NEW n \in Turn, TurnStep(n), TurnMoves(n),
         Read(n), InProgress(n)'
  PROVE  Read(n)'
<1>1. TypeOK /\ Refs /\ Holds(n)
  BY DEF Alongside, Typed, Settled
<1>2. ASSUME turn[n].pc \in Working, turn'[n].pc \in Working,
             turn'[n].object = turn[n].object,
             object'[turn[n].object].history = Session(n).history
      PROVE  Text(Session(n).history', turn') = Text(Session(n).history, turn)
  <2>1. Session(n).history' = Session(n).history
    BY <1>2 DEF Session
  <2>2. Session(n).history \in Begun
    BY <1>2, AtWork
  <2> QED BY <2>1, <2>2, TextStays
<1>3. CASE Loads(n) \/ Installs(n) \/ Fetches(n)
  <2>1. /\ turn[n].pc \in {"load", "install", "fetch"}
        /\ turn'[n].pc \in {"install", "fetch", "classify"}
    BY <1>3 DEF Loads, Installs, Fetches, Moved
  <2>2. turn'[n].reply.fields = NoFields
    BY <1>1, <2>1, FieldsRead DEF Read
  <2> QED BY <2>1, <2>2 DEF Read, Thinking
<1>4. CASE Thinks(n)
  <2> DEFINE h == Session(n).history
             m == turn[n].message
             text == Text(h, turn)
  <2>1. /\ turn[n].pc \in Thinking \cup {"write"}
        /\ turn'[n].pc \in (Thinking \ {"classify"}) \cup {"ask", "extend"}
        /\ turn'[n].object = turn[n].object
        /\ SameHistories
    BY <1>4 DEF Thinks, Moved
  <2>2. turn[n].pc \in Working /\ turn'[n].pc \in Working
    BY <2>1 DEF Working, Thinking
  <2>3. /\ h \in Begun /\ h \in Seq(Entry) /\ text \in Seq(TidyUtterance) /\ m \in TidyUtterance
        /\ turn[n].object \in Object
    BY <2>2, AtWork, TidyAtWork
  <2>4. Text(Session(n).history', turn') = text
    BY <1>2, <2>1, <2>2, <2>3 DEF SameHistories, Session
  <2>5. turn'[n].message = m
    <3>1. turn[n].pc # "idle"
      BY <2>2 DEF Working
    <3> QED BY <1>1, <3>1, PastStays DEF Alongside
  <2>6. turn'[n].pc = "answer" =>
          \/ turn'[n].asked = <<m>>
          \/ \E k \in 1..Len(text) : turn'[n].asked = <<text[k], Clarification, m>>
    <3>1. QuestionsOf(h) = text /\ Len(text) = Len(h)
      BY <1>1, <2>3, TextTyped
    <3> HIDE DEF text
    <3> QED BY <1>1, <3>1, AskedMoves
  <2>7. turn'[n].pc \in Thinking => turn'[n].reply.fields = NoFields
    <3>1. turn[n].pc = "write" => turn'[n].reply.fields = NoFields
      <4>1. turn[n].pc = "write" => turn'[n].pc \in {"ask", "extend"}
        <5>1. Advances(n)
          BY <1>1, ProgressSteps DEF Progress
        <5> QED BY <2>1, <5>1 DEF Advances, Routed, Thinking
      <4> QED BY <1>1, <4>1, FieldsRead
    <3>2. turn[n].pc \in Thinking => turn[n].reply.fields = NoFields
      BY DEF Read
    <3>3. turn'[n].pc \in Thinking => turn'[n].pc \notin {"ask", "extend"}
      BY DEF Thinking
    <3> QED BY <1>1, <2>1, <3>1, <3>2, <3>3, FieldsRead
  <2>8. turn'[n].pc \in {"ask", "extend"} => ReadOff(turn'[n].reply.fields, text \o <<m>>)
    <3> SUFFICES ASSUME turn'[n].pc \in {"ask", "extend"}
                 PROVE  ReadOff(turn'[n].reply.fields, text \o <<m>>)
      OBVIOUS
    <3>1. CASE turn'[n].reply.fields = NoFields
      <4> HIDE DEF text, m
      <4> QED BY <3>1, NothingRead
    <3>2. CASE turn'[n].reply.fields = turn[n].reply.fields /\ turn[n].pc # "write"
      <4>1. turn'[n].reply.fields = NoFields
        BY <2>1, <3>2 DEF Read
      <4> QED BY <3>1, <4>1
    <3>3. CASE /\ turn[n].pc = "answer" /\ Selected(n) \in Agent
               /\ turn'[n].reply \in Replies(Selected(n), turn[n].asked, QuestionsOf(h))
      <4>1. QuestionsOf(h) = text
        BY <1>1, <2>3, TextTyped
      <4>2. \/ turn[n].asked = <<m>>
            \/ \E k \in 1..Len(text) : turn[n].asked = <<text[k], Clarification, m>>
        BY <3>3 DEF Read
      <4> HIDE DEF text, m, h
      <4> QED BY <2>3, <3>3, <4>1, <4>2, AnswersReadOff
    <3> QED BY <1>1, <3>1, <3>2, <3>3, FieldsRead
  <2>9. turn'[n].pc \notin {"load", "install", "fetch", "reply", "snapshot", "write", "record", "propose"}
    BY <2>1 DEF Thinking
  <2> HIDE DEF text, m
  <2> QED BY <2>4, <2>5, <2>6, <2>7, <2>8, <2>9 DEF Read
<1>5. CASE Snapshots(n) \/ Writes(n) \/ Proposes(n)
  <2>1. /\ turn[n].pc \in {"snapshot", "write", "record"}
        /\ turn'[n].pc \in {"write", "record", "propose"}
        /\ turn'[n].object = turn[n].object /\ UNCHANGED object
    BY <1>5 DEF Snapshots, Writes, Proposes, Moved
  <2>2. turn[n].pc \in Working /\ turn'[n].pc \in Working
    BY <2>1 DEF Working
  <2> DEFINE text == Text(Session(n).history, turn)
  <2>3. Text(Session(n).history', turn') = text
    BY <1>2, <2>1, <2>2 DEF Session
  <2>4. ReadOff(turn[n].reply.fields, text)
    BY <2>1 DEF Read
  <2>5. turn'[n].reply.fields \in {turn[n].reply.fields, NoFields}
    BY <1>1, <2>1, FieldsRead
  <2> HIDE DEF text
  <2>6. ReadOff(turn'[n].reply.fields, text)
    BY <2>4, <2>5, NothingRead
  <2> QED BY <2>1, <2>3, <2>6 DEF Read, Thinking
<1>6. CASE Tells(n, "ask", "reply", << <<n, "question">> >>)
  <2>1. ToSet(<< <<n, "question">> >>) \subseteq EntriesBy(n) /\ << <<n, "question">> >> \in Seq(Entry)
    BY EntriesOf DEF EntriesBy
  <2> QED BY <1>6, <2>1, TextOfTurn, ReadTells
<1>7. CASE Tells(n, "reply", "snapshot", << <<n, "answer">> >>)
  <2>1. ToSet(<< <<n, "answer">> >>) \subseteq EntriesBy(n) /\ << <<n, "answer">> >> \in Seq(Entry)
    BY EntriesOf DEF EntriesBy
  <2> QED BY <1>7, <2>1, ReadTells
<1>8. CASE Tells(n, "extend", "snapshot", << <<n, "question">>, <<n, "answer">> >>)
  <2>1. /\ ToSet(<< <<n, "question">>, <<n, "answer">> >>) \subseteq EntriesBy(n)
        /\ << <<n, "question">>, <<n, "answer">> >> \in Seq(Entry)
    BY EntriesOf DEF EntriesBy
  <2> QED BY <1>8, <2>1, TextOfTurn, ReadTells
<1>9. ~Leaves(n)
  BY DEF Leaves, Moved, InProgress
<1> QED BY <1>3, <1>4, <1>5, <1>6, <1>7, <1>8, <1>9 DEF TurnMoves

\* A newcomer came after all resets there were, and while it is at work none is asked for.
LEMMA ReadNext ==
  ASSUME MaxConcurrent <= 1, Alongside, Tidy, [Next]_vars,
         \A i \in Turn : InProgress(i) => turn[i].after = Asked /\ Read(i),
         NEW n \in Turn, InProgress(n)'
  PROVE  turn'[n].after = Asked' /\ Read(n)'
<1>1. TypeOK /\ Refs /\ Sequential
  BY DEF Alongside, Typed
<1>2. ASSUME NEW i \in Turn, Busy = {}, Arrives(i)
      PROVE  turn'[n].after = Asked' /\ Read(n)'
  <2>1. i = n
    BY <1>2 DEF Arrives, Stays, Busy, InProgress
  <2>2. /\ turn'[n].after = Asked /\ turn'[n].reply = NoReply
        /\ turn'[n].pc \in {"load", "classify"}
    BY <1>2, <2>1 DEF Arrives
  <2>3. Asked' = Asked
    BY <1>2 DEF Arrives, Meets, Asked
  <2>4. NoReply.fields = NoFields
    BY DEF NoReply
  <2> QED BY <2>2, <2>3, <2>4 DEF Read
<1>3. ASSUME NEW i \in Turn, Busy = {i}, TurnStep(i), TurnMoves(i), UNCHANGED reset
      PROVE  turn'[n].after = Asked' /\ Read(n)'
  <2>1. \A m \in Turn : m # i => turn'[m] = turn[m]
    BY <1>3 DEF TurnMoves, Loads, Installs, Fetches, Thinks, Tells, Snapshots, Writes, Proposes,
                Leaves, Moved
  <2>2. i = n /\ InProgress(n)
    BY <1>3, <2>1, Names DEF Busy, InProgress
  <2>3. turn'[n].after = turn[n].after
    BY <1>1, <2>2, PastStays DEF InProgress
  <2>4. Asked' = Asked
    BY <1>3 DEF Asked
  <2> QED BY <1>3, <2>2, <2>3, <2>4, ReadTurn
<1>4. ASSUME NEW k \in Reset, Busy \in {{}, {k}}, Clears(k) \/ ResetMoves(k)
      PROVE  FALSE
  <2>1. turn'[n].pc = turn[n].pc
    BY <1>4 DEF Clears, ResetMoves, ResetMoved, Stays
  <2>2. n \in Busy
    BY <2>1 DEF Busy, InProgress
  <2> QED BY <1>4, <2>2, Names
<1>5. ~Dies
  BY DEF Dies, InProgress, Ended
<1>6. CASE UNCHANGED <<cached, object, row, turn, reset>>
  BY <1>6 DEF Read, Session, InProgress, Asked
<1> QED BY <1>1, <1>2, <1>3, <1>4, <1>5, <1>6, StepsAlone

\* Whom every copy of the history names, it goes on naming until a reset.
LEMMA OpeningStays ==
  ASSUME MaxConcurrent <= 1, Alongside, Tidy, [Next]_vars, NEW i \in Turn, turn[i].pc # "idle",
         turn'[i].after = Asked', NEW field, NEW v, Widespread(Opening(field, v))
  PROVE  Widespread(Opening(field, v))'
<1> DEFINE S == Opening(field, v)
           N == Opening(field, v)'
<1>1. TypeOK /\ Refs /\ Sequential
  BY DEF Alongside, Typed
<1>2. ~ \E k \in Reset : Clears(k)
  <2> SUFFICES ASSUME NEW k \in Reset, Clears(k) PROVE FALSE
    OBVIOUS
  <2>1. k \in Asked' /\ turn'[i].after = turn[i].after /\ reset[k].pc = "idle"
    BY DEF Clears, Stays, Asked
  <2>2. k \in turn[i].after
    BY <2>1
  <2> QED BY <2>1, <2>2 DEF Alongside, Settled, Past
<1>3. ASSUME NEW n \in Turn, InProgress(n), NEW h \in S, NEW entries \in Seq(Entry),
             h \in Seq(Entry), ToSet(entries) \subseteq EntriesBy(n)
      PROVE  h \o entries \in S
  <2>1. h \in Begun /\ (v # <<>> => Gives(Text(h, turn), field) = v)
    BY DEF Opening
  <2>2. h \o entries \in Begun
    BY <1>3, <2>1, BegunGrows
  <2>3. /\ Text(h, turn) \in Seq(TidyUtterance) /\ Text(entries, turn) \in Seq(TidyUtterance)
        /\ Text(h \o entries, turn) = Text(h, turn) \o Text(entries, turn)
    <3>1. entries \in Begun
      <4>1. \A e \in ToSet(entries) : e[1] = n
        BY <1>3 DEF EntriesBy
      <4> QED BY <1>3, <4>1 DEF Begun, InProgress
    <3> QED BY <1>1, <1>3, <2>1, <3>1, TidyText, TextGrows
  <2>4. v # <<>> => Gives(Text(h \o entries, turn), field) = v
    BY <2>1, <2>3, GivenStays
  <2> QED BY <2>2, <2>4 DEF Opening
<1>4. S \subseteq N
  <2>1. Begun \subseteq Begun'
    BY <1>1, BegunStays
  <2>2. \A h \in Begun : Text(h, turn') = Text(h, turn)
    BY TextStays
  <2> QED BY <2>1, <2>2 DEF Opening
<1>5. Widespread(S)
  OBVIOUS
<1> HIDE DEF S
<1>6. WidespreadNext(S)
  BY <1>1, <1>2, <1>3, <1>5, SpreadsOn
<1> HIDE DEF N
<1>7. WidespreadNext(N)
  BY <1>4, <1>6 DEF WidespreadNext
<1> QED BY <1>7 DEF N, Widespread, WidespreadNext

\* Who proposes has just saved what it read, so every copy names its customer.
LEMMA ProposerSaved ==
  ASSUME Alongside, NEW n \in Turn, turn[n].pc = "propose", Read(n), NEW f \in {"name", "phone"}
  PROVE  Widespread(Opening(f, turn[n].reply.fields[f]))
<1> DEFINE v == turn[n].reply.fields[f]
           h == Session(n).history
<1>1. TypeOK /\ Refs /\ Sequential /\ Holds(n) /\ InProgress(n)
  BY DEF Alongside, Typed, Settled, InProgress, Ended
<1>2. Busy = {n}
  BY <1>1 DEF Sequential, Busy
<1>3. /\ h \in Begun /\ cached # NoObject /\ turn[n].object = cached
      /\ row.history = h /\ object[cached].history = h
  BY <1>1, AtWork DEF Holds, Working, Session
<1>4. ReadOff(turn[n].reply.fields, Text(h, turn))
  BY DEF Read
<1>5. h \in Opening(f, v)
  BY <1>3, <1>4 DEF Opening, ReadOff
<1>6. \A m \in Turn : m # n => ~InProgress(m)
  BY <1>2 DEF Busy
<1>7. \A m \in Turn : turn[m].pc \in Working \cup {"install", "write"} => InProgress(m)
  BY DEF InProgress, Ended, Working
<1>8. \A k \in Reset : reset[k].pc # "write"
  <2>1. \A k \in Reset : k \notin Busy
    BY <1>2, Names
  <2> QED BY <2>1 DEF Busy, Resetting
<1>9. \A m \in Turn : turn[m].pc \in Working => object[turn[m].object].history \in Opening(f, v)
  BY <1>3, <1>5, <1>6, <1>7 DEF Session
<1>10. \A m \in Turn : turn[m].pc \notin {"install", "write"}
  BY <1>6, <1>7
<1> HIDE DEF v, h
<1>11. Widespread(Opening(f, v))
  BY <1>3, <1>5, <1>8, <1>9, <1>10 DEF Widespread
<1> QED BY <1>11 DEF v

\* The proposals go on agreeing with the histories.
LEMMA AgreedNext ==
  ASSUME MaxConcurrent <= 1, Alongside, Tidy, Repeats, Agreement, [Next]_vars, NEW p \in proposed'
  PROVE  Agreed(p)'
<1> SUFFICES ASSUME turn'[p.by].after = Asked'
             PROVE  /\ Widespread(Opening("phone", p.action.phone))'
                    /\ Widespread(Opening("name", p.action.name))'
  BY DEF Agreed
<1>1. TypeOK /\ Refs /\ Sequential
  BY DEF Alongside, Typed
<1>2. ASSUME p.by \in Turn, turn[p.by].pc # "idle",
             Widespread(Opening("phone", p.action.phone)),
             Widespread(Opening("name", p.action.name))
      PROVE  /\ Widespread(Opening("phone", p.action.phone))'
             /\ Widespread(Opening("name", p.action.name))'
  BY <1>2, OpeningStays
<1>3. CASE p \in proposed
  <2>1. p.by \in Turn /\ turn[p.by].pc # "idle"
    BY <1>1, <1>3 DEF TypeOK, Repeats, Given
  <2>2. turn[p.by].after = Asked
    <3>1. turn'[p.by].after = turn[p.by].after /\ Asked \subseteq Asked'
      BY <1>1, <2>1, PastStays
    <3>2. turn[p.by].after \subseteq Asked
      BY <1>1, <2>1 DEF Alongside, Settled, Past, TypeOK, TurnState, Asked
    <3> QED BY <3>1, <3>2
  <2> QED BY <1>2, <1>3, <2>1, <2>2 DEF Agreement, Agreed
<1>4. ASSUME NEW n \in Turn, turn[n].pc = "propose", p = [action |-> ActionOf(n), by |-> n]
      PROVE  /\ Widespread(Opening("phone", p.action.phone))'
             /\ Widespread(Opening("name", p.action.name))'
  <2>1. /\ p.by = n /\ p.action.phone = turn[n].reply.fields.phone
        /\ p.action.name = turn[n].reply.fields.name
    BY <1>4 DEF ActionOf
  <2>2. InProgress(n) /\ turn[n].pc # "idle"
    BY <1>4 DEF InProgress, Ended
  <2>3. Read(n)
    BY <2>2 DEF Agreement
  <2>4. /\ Widespread(Opening("phone", turn[n].reply.fields["phone"]))
        /\ Widespread(Opening("name", turn[n].reply.fields["name"]))
    BY <1>4, <2>3, ProposerSaved
  <2> QED BY <1>2, <2>1, <2>2, <2>4
<1> QED BY <1>3, <1>4, ProposalsMove

\* So a proposal names who the others name.
LEMMA ContactsNext ==
  ASSUME MaxConcurrent <= 1, Alongside, Tidy, Repeats, Agreement, [Next]_vars
  PROVE  OneCustomer'
<1>1. TypeOK /\ Refs /\ Sequential
  BY DEF Alongside, Typed
<1>2. \A p \in proposed : /\ p.by \in Turn /\ turn[p.by].pc # "idle" /\ p.action.phone # <<>>
                          /\ turn'[p.by].after = turn[p.by].after
  BY <1>1, PastStays DEF TypeOK, Repeats, Given
<1>3. CASE proposed' = proposed
  BY <1>2, <1>3 DEF Agreement, OneCustomer
<1>4. ASSUME NEW n \in Turn, turn[n].pc = "propose", ShouldPropose(turn[n].reply),
             proposed' = proposed \cup {[action |-> ActionOf(n), by |-> n]}
      PROVE  OneCustomer'
  <2> DEFINE p == [action |-> ActionOf(n), by |-> n]
             fields == turn[n].reply.fields
             text == Text(Session(n).history, turn)
  <2>1. /\ p.by = n /\ p.action.phone = fields.phone /\ p.action.name = fields.name
        /\ fields.phone # <<>>
    BY <1>4 DEF ActionOf, ShouldPropose
  <2>2. InProgress(n) /\ turn[n].pc # "idle" /\ turn[n].pc \in Working
    BY <1>4 DEF InProgress, Ended, Working
  <2>3. turn[n].after = Asked /\ turn'[n].after = turn[n].after /\ ReadOff(fields, text)
    BY <1>1, <1>4, <2>2, PastStays DEF Agreement, Read
  <2>4. ASSUME NEW q \in proposed, turn[q.by].after = turn[n].after
        PROVE  /\ fields.phone = q.action.phone
               /\ <<>> \in {fields.name, q.action.name} \/ fields.name = q.action.name
    <3>1. /\ Widespread(Opening("phone", q.action.phone))
          /\ Widespread(Opening("name", q.action.name))
      BY <2>3, <2>4 DEF Agreement, Agreed
    <3>2. row.history = Session(n).history
      BY <1>4, <2>2, AtWork DEF Alongside, Settled, Holds, Session
    <3>3. /\ q.action.phone # <<>> => Gives(text, "phone") = q.action.phone
          /\ q.action.name # <<>> => Gives(text, "name") = q.action.name
      BY <3>1, <3>2 DEF Widespread, Opening
    <3>4. /\ fields["phone"] # <<>> => Gives(text, "phone") = fields["phone"]
          /\ fields["name"] # <<>> => Gives(text, "name") = fields["name"]
      BY <2>3 DEF ReadOff
    <3> HIDE DEF text
    <3>5. fields["phone"] = q.action.phone
      BY <1>2, <2>1, <3>3, <3>4
    <3>6. fields["name"] # <<>> /\ q.action.name # <<>> => fields["name"] = q.action.name
      BY <3>3, <3>4
    <3> QED BY <3>5, <3>6
  <2> HIDE DEF fields, text
  <2> SUFFICES ASSUME NEW r \in proposed', NEW q \in proposed', turn'[r.by].after = turn'[q.by].after
               PROVE  /\ r.action.phone = q.action.phone
                      /\ <<>> \in {r.action.name, q.action.name} \/ r.action.name = q.action.name
    BY DEF OneCustomer
  <2>5. CASE r \in proposed /\ q \in proposed
    BY <1>2, <2>5 DEF Agreement, OneCustomer
  <2>6. CASE r = p /\ q \in proposed
    <3>1. turn[q.by].after = turn[n].after
      BY <1>2, <2>1, <2>3, <2>6
    <3> QED BY <2>1, <2>4, <2>6, <3>1
  <2>7. CASE q = p /\ r \in proposed
    <3>1. turn[r.by].after = turn[n].after
      BY <1>2, <2>1, <2>3, <2>7
    <3> QED BY <2>1, <2>4, <2>7, <3>1
  <2>8. CASE r = p /\ q = p
    BY <2>8
  <2> QED BY <1>4, <2>5, <2>6, <2>7, <2>8
<1> QED BY <1>3, <1>4, ProposalsMove

\* Nothing is proposed at the start.
LEMMA AgreementInit == Init => Agreement
<1>1. IdleTurn.pc = "idle"
  BY DEF IdleTurn
<1> QED BY <1>1 DEF Init, Agreement, InProgress, OneCustomer

\* With one request at a time all proposals between two resets name one customer, if
\* every message is tidy: whichever agents, skills, crashes and failures lie between
\* them, they give one phone, and those that give a name give the same one, although
\* the history grows and a question may be repeated.
THEOREM ProposalsNameOneCustomer ==
  ASSUME MaxConcurrent <= 1
  PROVE  Spec => []ContactsAgree
<1>1. Alongside /\ Repeats /\ Agreement /\ [Next]_vars => Agreement'
  <2> SUFFICES ASSUME Alongside, Repeats, Agreement, [Next]_vars, Tidy'
               PROVE  /\ (\A n \in Turn : InProgress(n) => turn[n].after = Asked /\ Read(n))'
                      /\ (\A p \in proposed : Agreed(p))'
                      /\ OneCustomer'
    BY DEF Agreement
  <2>1. Tidy
    BY TidyBefore
  <2>2. \A n \in Turn : InProgress(n) => turn[n].after = Asked /\ Read(n)
    BY <2>1 DEF Agreement
  <2> QED BY <2>1, <2>2, ReadNext, AgreedNext, ContactsNext
<1>2. Alongside /\ Repeats /\ [Next]_vars => Repeats'
  BY GroundsNext, GivenNext DEF Repeats
<1>3. Spec => []Alongside
  BY AlongsideInductive
<1>4. Agreement => ContactsAgree
  <2>1. (\A n \in Turn : IsTidy(turn[n].message)) => Tidy
    BY DEF Tidy
  <2> QED BY <2>1 DEF Agreement, OneCustomer, ContactsAgree
<1> QED BY <1>1, <1>2, <1>3, <1>4, RepeatsInit, AgreementInit, PTL DEF Spec
=============================================================================
