----------------------------- MODULE FrontDoor -----------------------------
(***************************************************************************)
(* The two ways in, as machines over one state: requests against the HTTP  *)
(* API, and the guided command line against a daemon (G).  They share no   *)
(* variable.                                                               *)
(***************************************************************************)
EXTENDS ApiRequests

CONSTANTS Run, Change, Target, Commands, MaxDigest, MaxEffects, MaxTurns, BlindViews

VARIABLES change, selection, run, published, turns, author

G == INSTANCE GuidedCli

-----------------------------------------------------------------------------
(* What the guided command line promises, with the shape of its state.     *)

\* Whoever prepared what beside an invocation, finish and publish release what
\* the command named and nothing else.
ReleaseMatchesTarget == G!CliTypeOK /\ G!ReleaseMatchesTarget

\* An interrupted finish that nobody meddled with goes on when it is given again.
InterruptedFinishResumes == G!InterruptedFinishResumes
=============================================================================
