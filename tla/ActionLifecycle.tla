--------------------------- MODULE ActionLifecycle ---------------------------
(***************************************************************************)
(* What the Action Gateway promises about one business action, whatever    *)
(* happens to its workers: a person whose role covers the kind opens it,   *)
(* its CRM record is made at most once and only while it is open, and it   *)
(* is closed only once that record exists.  Attempts, tasks, processes and *)
(* retries are not visible here; ActionGateway implements this             *)
(* specification when it drives the demo CRM.                              *)
(***************************************************************************)
CONSTANTS
  Action,              \* logical actions (a dealer and an idempotency key)
  Role,                \* roles of the people who call the API
  MayOpen              \* MayOpen[a]: the roles that may open action a

VARIABLES
  phase,               \* phase[a]: how far the action got
  opener,              \* opener[a]: the role that opened it
  recorded             \* the actions that have their CRM record

lifecycleVars == <<phase, opener, recorded>>

Phase == {"absent", "proposed", "refused", "open", "closed"}
Nobody == "nobody"

LifecycleTypeOK ==
  /\ phase \in [Action -> Phase]
  /\ opener \in [Action -> Role \cup {Nobody}]
  /\ recorded \subseteq Action

LifecycleInit ==
  /\ phase = [a \in Action |-> "absent"]
  /\ opener = [a \in Action |-> Nobody]
  /\ recorded = {}

LPropose(a) ==
  /\ phase[a] = "absent"
  /\ phase' = [phase EXCEPT ![a] = "proposed"]
  /\ UNCHANGED <<opener, recorded>>

LRefuse(a) ==
  /\ phase[a] = "proposed"
  /\ phase' = [phase EXCEPT ![a] = "refused"]
  /\ UNCHANGED <<opener, recorded>>

LOpen(a) ==
  /\ phase[a] = "proposed"
  /\ \E r \in MayOpen[a] : opener' = [opener EXCEPT ![a] = r]
  /\ phase' = [phase EXCEPT ![a] = "open"]
  /\ UNCHANGED recorded

LRecord(a) ==
  /\ phase[a] = "open"
  /\ a \notin recorded
  /\ recorded' = recorded \cup {a}
  /\ UNCHANGED <<phase, opener>>

LClose(a) ==
  /\ phase[a] = "open"
  /\ a \in recorded
  /\ phase' = [phase EXCEPT ![a] = "closed"]
  /\ UNCHANGED <<opener, recorded>>

LifecycleNext ==
  \E a \in Action :
    LPropose(a) \/ LRefuse(a) \/ LOpen(a) \/ LRecord(a) \/ LClose(a)

LifecycleSpec == LifecycleInit /\ [][LifecycleNext]_lifecycleVars
=============================================================================
