------------------------ MODULE TransactionLifecycle ------------------------
(***************************************************************************)
(* The transaction state machine of internal/domain/state.go: the graph    *)
(* every FutureDiff transaction promises to move along.  It is the         *)
(* abstract specification of a transaction's status; TransactionLedger is  *)
(* shown to implement it.                                                  *)
(***************************************************************************)
EXTENDS FiniteSets

\* The constants StateCreated .. StateManualIntervention.  "none" stands for
\* a transaction whose row has not been inserted yet.
TxState == {"none", "created", "active", "sealed", "verifying",
            "failed_verification", "ready", "stale", "committing",
            "aborting", "aborted", "compensating", "compensated",
            "needs_reconciliation", "committed", "manual_intervention"}

\* The map transactionTransitions: the successors of each state.
transactionTransitions ==
  [s \in TxState |->
     CASE s = "created"              -> {"active", "aborting"}
       [] s = "active"               -> {"sealed", "aborting"}
       [] s = "sealed"               -> {"verifying", "aborting"}
       [] s = "verifying"            -> {"failed_verification", "ready", "stale"}
       [] s = "failed_verification"  -> {"active", "aborting"}
       [] s = "ready"                -> {"committing", "stale", "aborting"}
       [] s = "stale"                -> {"verifying", "aborting"}
       [] s = "committing"           -> {"committed", "compensating",
                                         "needs_reconciliation"}
       [] s = "compensating"         -> {"compensated", "needs_reconciliation"}
       [] s = "aborting"             -> {"aborted"}
       [] s = "needs_reconciliation" -> {"ready", "stale", "committed",
                                         "compensated", "manual_intervention"}
       [] OTHER                      -> {}]

CanTransition(from, to) == to \in transactionTransitions[from]

\* The states without a successor, as the graph property test lists them.
Terminal == {"committed", "aborted", "compensated", "manual_intervention"}

VARIABLE state

Begin == state = "none" /\ state' = "created"

Move == \E to \in TxState : CanTransition(state, to) /\ state' = to

\* The ledger runs two edges of the graph in one SQL transaction in two
\* places: a row is created and activated at once, and a verification enters
\* and leaves "verifying" at once.
MoveTwice ==
  \E via, to \in TxState :
    /\ \/ state = "none" /\ via = "created"
       \/ via = "verifying" /\ CanTransition(state, via)
    /\ CanTransition(via, to)
    /\ state' = to

Next == Begin \/ Move \/ MoveTwice

Spec == state = "none" /\ [][Next]_state
=============================================================================
