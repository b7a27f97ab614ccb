---------------------------- MODULE MCResearchJobs ----------------------------
(***************************************************************************)
(* Instances of ResearchJobs small enough for TLC.                         *)
(***************************************************************************)
EXTENDS ResearchJobs, TLC

CONSTANTS j1, r1, r2, k1, d1

OneJob       == {j1}
OneReviewer  == {r1}
TwoReviewers == {r1, r2}
OneReader    == {k1}
NoReader     == {}
OneDraft     == {d1}

Configured   == {TRUE}
Either       == {TRUE, FALSE}
=============================================================================
