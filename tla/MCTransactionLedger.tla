------------------------ MODULE MCTransactionLedger ------------------------
(***************************************************************************)
(* The ledger's methods under any caller: one branch-like effect and one   *)
(* effect that depends on it.                                              *)
(***************************************************************************)
EXTENDS TransactionLedger

CONSTANTS branch, pr

MCDependsOn == [e \in {branch, pr} |-> IF e = pr THEN {branch} ELSE {}]

\* One passing, one failing and one empty set of check results.
MCCheckResults ==
  { {[required |-> TRUE, status |-> "pass"], [required |-> FALSE, status |-> "fail"]},
    {[required |-> TRUE, status |-> "fail"]},
    {[required |-> FALSE, status |-> "pass"]} }
=============================================================================
