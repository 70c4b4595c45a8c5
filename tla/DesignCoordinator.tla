------------------------- MODULE DesignCoordinator -------------------------
(***************************************************************************)
(* The original design branch's coordinator.Engine, over stores that       *)
(* commit one statement at a time, and its lease store postgreslease.  A   *)
(* call loads the transaction's state once, then stores the approval, each *)
(* effect, the state and a ledger record one after the other, and may fail *)
(* or die between any two.                                                 *)
(*                                                                         *)
(* Nothing connects the two: the engine asks for no lease, so the calls of *)
(* several coordinators interleave as they like.  That a coordinator       *)
(* without a valid lease must not commit, abort or compensate is asked of  *)
(* the callers by the design document (imported-design,                    *)
(* 02-transaction-state-machine.md); `strayed` remembers whether one ever  *)
(* ran a call outside its lease, and guards nothing.                       *)
(***************************************************************************)
EXTENDS Naturals, Sequences

CONSTANTS
  Coordinator,
  None,
  Effects,     \* number of effects of the transaction
  Duration,    \* how long a lease lasts
  MaxTime      \* bound on the clock

VARIABLES
  state,     \* coordinator_transaction_state
  effects,   \* coordinator_effect_state
  approval,  \* coordinator_approval_state
  ledger,    \* the last record of coordinator_ledger, or None
  lease,     \* transaction_leases: [owner, until], or None
  held,      \* until when each coordinator was last told that it holds the lease
  call,      \* each coordinator's call in progress
  strayed,   \* history: a call ran while its coordinator knew of no lease
  now        \* the database's clock

vars == <<state, effects, approval, ledger, lease, held, call, strayed, now>>
stores == <<state, effects, approval, ledger>>
leases == <<lease, held>>

Op(from, to, effect) == [from |-> from, to |-> to, effect |-> effect]

\* Each engine method: where it starts, where it ends, what it makes of the
\* effects.
Method ==
  [Approve |-> Op({"AWAITING_APPROVAL"}, "READY_TO_COMMIT", "APPROVED"),
   InvalidateApproval |-> Op({"AWAITING_APPROVAL", "READY_TO_COMMIT"}, "ACTIVE", "PREPARED"),
   StartCommit |-> Op({"READY_TO_COMMIT"}, "COMMITTING", "COMMITTING"),
   MarkCommitted |-> Op({"COMMITTING", "RECONCILING"}, "COMMITTED", "COMMITTED"),
   EnterReconciling |-> Op({"COMMITTING", "ABORTING", "COMPENSATING"}, "RECONCILING",
                           "UNKNOWN"),
   BeginCompensation |-> Op({"COMMITTING", "RECONCILING"}, "COMPENSATING",
                            "COMPENSATING"),
   MarkCompensated |-> Op({"COMPENSATING", "RECONCILING"}, "COMPENSATED", "COMPENSATED"),
   RequireManualIntervention |-> Op({"RECONCILING", "COMPENSATING"},
                                    "FAILED_MANUAL_INTERVENTION", None)]

Idle == [pc |-> "idle", op |-> None, from |-> None, next |-> 1]

\* SeedTransaction and SeedEffect.
Init ==
  /\ state \in {"AWAITING_APPROVAL", "ABORTING"}
  /\ effects = [e \in 1 .. Effects |-> "PREPARED"]
  /\ approval = None /\ ledger = None
  /\ lease = None /\ held = [c \in Coordinator |-> 0]
  /\ call = [c \in Coordinator |-> Idle] /\ strayed = FALSE /\ now = 0

At(c, pc) == call[c].pc = pc
Goto(c, pc) == call' = [call EXCEPT ![c].pc = pc]
Return(c) == call' = [call EXCEPT ![c] = Idle]

-----------------------------------------------------------------------------
(* Leases: one upsert, one update, one delete, each by the database clock. *)

Holds(c) == lease # None /\ lease.owner = c

\* What a coordinator is granted, and told of.
Grant(c) ==
  /\ lease' = [owner |-> c, until |-> now + Duration]
  /\ held' = [held EXCEPT ![c] = now + Duration]
  /\ UNCHANGED <<stores, call, strayed, now>>

\* Mutant: a claim that takes over a lease still running.
ClaimMutant(c) == Grant(c)

Claim(c) ==
  /\ lease # None /\ ~Holds(c) => lease.until <= now
  /\ Grant(c)

Renew(c) ==
  /\ Holds(c)
  /\ lease.until > now
  /\ Grant(c)

Release(c) ==
  /\ Holds(c)
  /\ lease' = None
  /\ held' = [held EXCEPT ![c] = 0]
  /\ strayed' = (strayed \/ ~At(c, "idle"))
  /\ UNCHANGED <<stores, call, now>>

\* Leases run out under whatever their owners are doing.
Tick ==
  /\ now < MaxTime
  /\ now' = now + 1
  /\ strayed' = (strayed \/ \E c \in Coordinator : ~At(c, "idle") /\ held[c] <= now + 1)
  /\ UNCHANGED <<stores, leases, call>>

-----------------------------------------------------------------------------
(* The engine.                                                             *)

Load(c) ==
  /\ At(c, "idle")
  /\ \E op \in DOMAIN Method :
       /\ state \in Method[op].from
       /\ call' = [call EXCEPT ![c] =
            [pc |-> IF op \in {"Approve", "InvalidateApproval"} THEN "approval"
                    ELSE "effects",
             op |-> op, from |-> state, next |-> 1]]
  /\ strayed' = (strayed \/ held[c] <= now)
  /\ UNCHANGED <<stores, leases, now>>

\* The approval is stored before the commit policy is asked, and stays when
\* the policy refuses; only a stored approval can be invalidated.
StoreApproval(c) ==
  /\ At(c, "approval")
  /\ \/ call[c].op = "Approve" /\ approval' = "APPROVED" /\ Goto(c, "policy")
     \/ /\ call[c].op = "InvalidateApproval"
        /\ approval' = IF approval = None THEN None ELSE "INVALIDATED"
        /\ Goto(c, "effects")
  /\ UNCHANGED <<state, effects, ledger, leases, strayed, now>>

EvaluatePolicy(c) ==
  /\ At(c, "policy")
  /\ Goto(c, "effects") \/ Return(c)
  /\ UNCHANGED <<stores, leases, strayed, now>>

SetEffect(c) ==
  LET to == Method[call[c].op].effect
      e == call[c].next IN
  /\ At(c, "effects")
  /\ IF to = None \/ e > Effects
     THEN Goto(c, "state") /\ UNCHANGED effects
     ELSE /\ effects' = [effects EXCEPT ![e] = to]
          /\ call' = [call EXCEPT ![c].next = e + 1]
  /\ UNCHANGED <<state, approval, ledger, leases, strayed, now>>

SetState(c) ==
  /\ At(c, "state")
  /\ state' = Method[call[c].op].to
  /\ Goto(c, "ledger")
  /\ UNCHANGED <<effects, approval, ledger, leases, strayed, now>>

AppendLedger(c) ==
  /\ At(c, "ledger")
  /\ ledger' = [previous |-> call[c].from, next |-> Method[call[c].op].to]
  /\ Return(c)
  /\ UNCHANGED <<state, effects, approval, leases, strayed, now>>

\* Any statement may fail, and any process may die; what was stored stays.
Fail(c) ==
  /\ ~At(c, "idle")
  /\ Return(c)
  /\ UNCHANGED <<stores, leases, strayed, now>>

-----------------------------------------------------------------------------
CoordinatorNext ==
  \/ Tick
  \/ \E c \in Coordinator :
       \/ Claim(c) \/ Renew(c) \/ Release(c)
       \/ Load(c) \/ StoreApproval(c) \/ EvaluatePolicy(c)
       \/ SetEffect(c) \/ SetState(c) \/ AppendLedger(c) \/ Fail(c)

CoordinatorSpec == Init /\ [][CoordinatorNext]_vars

-----------------------------------------------------------------------------
(* Properties.                                                             *)

CoordinatorTypeOK ==
  /\ approval \in {None, "APPROVED", "INVALIDATED"}
  /\ DOMAIN effects = 1 .. Effects
  /\ lease # None => lease.owner \in Coordinator

\* A transaction that is finished one way took every effect with it, and a ledger
\* record of how it finished never precedes or contradicts the state.  The engine
\* alone does not see to it: two calls that loaded the same state write over each
\* other's effects and state.
Whole ==
  /\ state = "COMMITTED" => \A e \in 1 .. Effects : effects[e] = "COMMITTED"
  /\ state = "COMPENSATED" => \A e \in 1 .. Effects : effects[e] = "COMPENSATED"
  /\ ledger # None /\ ledger.next \in {"COMMITTED", "COMPENSATED"} => state = ledger.next

\* As long as every coordinator kept each of its calls within a lease it had been
\* told it holds (what the design document asks of callers, and the engine does not
\* check), a finished transaction is whole, although no statement is atomic with the
\* next and calls that failed half way are taken up by another coordinator: a claim
\* never takes a running lease over, and the engine stores the state last.
FinishedIsWhole == ~strayed => Whole
=============================================================================
