--------------------------- MODULE MCActionGateway ---------------------------
(***************************************************************************)
(* Instances of ActionGateway small enough for TLC.                        *)
(***************************************************************************)
EXTENDS ActionGateway, TLC

CONSTANTS a1, a2, w1, w2

OneAction  == {a1}
TwoActions == {a1, a2}
TwoWorkers == {w1, w2}
OneWorker  == {w1}

\* Two kinds with different approvers.
ServiceKind == (a1 :> "service")
MixedKinds  == (a1 :> "lead") @@ (a2 :> "service")
=============================================================================
