-------------------------- MODULE OperationsProofs --------------------------
(***************************************************************************)
(* Proofs about the machines that surround a transaction: the original     *)
(* branch's coordinator (C), signed approvals (S), commands in containers  *)
(* (X), the provider adapters, the end-to-end flow (F) and a verification  *)
(* run (V), each for every value of its constants.                         *)
(***************************************************************************)
EXTENDS Operations, FiniteSetTheorems, SequenceTheorems, WellFoundedInduction, TLAPS

-----------------------------------------------------------------------------
(* The coordinator: calls kept within a lease are kept apart, and the      *)
(* order of a call's writes makes a finished transaction whole.            *)

CallPC == {"idle", "approval", "policy", "effects", "state", "ledger"}
Finished == {"COMMITTED", "COMPENSATED"}
Writing == {"approval", "policy", "effects", "state"}

Lease == [owner : Coordinator, until : Nat]

CoordinatorBounds ==
  /\ Effects \in Nat /\ Duration \in Nat \ {0}
  /\ None \notin Finished \cup Lease

CallShape ==
  /\ clock \in Nat /\ lease \in Lease \cup {None} /\ DOMAIN steps = 1 .. Effects
  /\ held \in [Coordinator -> Nat] /\ strayed \in BOOLEAN
  /\ DOMAIN doing = Coordinator
  /\ \A c \in Coordinator :
       /\ DOMAIN doing[c] = {"pc", "op", "from", "next"}
       /\ doing[c].pc \in CallPC
       /\ doing[c].pc # "idle" => /\ doing[c].op \in DOMAIN C!Method
                                  /\ doing[c].next \in Nat \ {0}
       /\ doing[c].pc \in {"approval", "policy"} => doing[c].next = 1

\* The store stands by what it told a coordinator: the lease is that coordinator's
\* for as long as it was told.
LeaseKnown ==
  \A c \in Coordinator : held[c] > clock => lease = [owner |-> c, until |-> held[c]]

\* A call in progress runs under a lease that has not run out.
CallsLeased == \A c \in Coordinator : doing[c].pc # "idle" => held[c] > clock

\* Until it stores the state, a call finds it as it loaded it; then it is the method's.
StateKnown ==
  \A c \in Coordinator :
    /\ doing[c].pc \in Writing => state \in C!Method[doing[c].op].from
    /\ doing[c].pc = "ledger" => state = C!Method[doing[c].op].to

\* The effects a call has stored so far.
EffectsStored ==
  \A c \in Coordinator :
    /\ doing[c].pc = "effects" /\ C!Method[doing[c].op].effect # None =>
         \A e \in 1 .. Effects :
           e < doing[c].next => steps[e] = C!Method[doing[c].op].effect
    /\ doing[c].pc = "state" /\ C!Method[doing[c].op].effect # None =>
         \A e \in 1 .. Effects : steps[e] = C!Method[doing[c].op].effect

DecisionKnown == decision \in {None, "APPROVED", "INVALIDATED"}

CallsKept == CallsLeased /\ StateKnown /\ EffectsStored /\ C!Whole

CoordinatorInv ==
  CallShape /\ DecisionKnown /\ LeaseKnown /\ (~strayed => CallsKept)

Methods == {"Approve", "InvalidateApproval", "StartCommit", "MarkCommitted", "EnterReconciling",
            "BeginCompensation", "MarkCompensated", "RequireManualIntervention"}

\* The methods: none starts from a finished state, and the two that finish a
\* transaction leave every effect the same way.
LEMMA MethodsKnown ==
  ASSUME NEW op \in DOMAIN C!Method
  PROVE  /\ Finished \cap C!Method[op].from = {}
         /\ C!Method[op].to \in Finished => C!Method[op].effect = C!Method[op].to
         /\ op \in Methods
  BY DEF C!Method, C!Op, Finished, Methods

\* A step of the coordinator is one of a caller or of the clock.
CallStep(c) ==
  \/ C!Claim(c) \/ C!Renew(c) \/ C!Release(c)
  \/ C!Load(c) \/ C!StoreApproval(c) \/ C!EvaluatePolicy(c)
  \/ C!SetEffect(c) \/ C!SetState(c) \/ C!AppendLedger(c) \/ C!Fail(c)

\* While one coordinator's call is in progress no other's is.
LEMMA OneCall ==
  ASSUME LeaseKnown, CallsLeased, NEW c \in Coordinator, NEW d \in Coordinator,
         doing[c].pc # "idle", doing[d].pc # "idle"
  PROVE  c = d
<1>1. /\ lease = [owner |-> c, until |-> held[c]]
      /\ lease = [owner |-> d, until |-> held[d]]
  BY DEF LeaseKnown, CallsLeased
<1> QED BY <1>1

\* The steps of a call that only move it on, or end it.
LEMMA CallMoves ==
  ASSUME CallShape, NEW c \in Coordinator,
         \/ \E l \in CallPC : C!Goto(c, l)
         \/ C!Return(c)
  PROVE  /\ DOMAIN doing' = Coordinator
         /\ \A d \in Coordinator : d # c => doing'[d] = doing[d]
         /\ DOMAIN doing'[c] = {"pc", "op", "from", "next"}
         /\ doing'[c].pc \in CallPC
         /\ doing'[c].pc # "idle" => /\ doing'[c].op = doing[c].op
                                     /\ doing'[c].next = doing[c].next
                                     /\ doing'[c].from = doing[c].from
<1>1. CASE C!Return(c)
  BY <1>1 DEF CallShape, C!Return, C!Idle, CallPC
<1>2. ASSUME NEW l \in CallPC, C!Goto(c, l)
      PROVE  /\ DOMAIN doing' = Coordinator
             /\ \A d \in Coordinator : d # c => doing'[d] = doing[d]
             /\ DOMAIN doing'[c] = {"pc", "op", "from", "next"}
             /\ doing'[c].pc = l /\ doing'[c].op = doing[c].op
             /\ doing'[c].next = doing[c].next /\ doing'[c].from = doing[c].from
  BY <1>2 DEF CallShape, C!Goto
<1> QED BY <1>1, <1>2

\* A step of a call leaves every other call, and the shape of its own, as they were.
LEMMA CallShapeStep ==
  ASSUME CoordinatorBounds, CallShape, NEW c \in Coordinator, CallStep(c)
  PROVE  CallShape'
<1> USE DEF CoordinatorBounds, CallShape, C!At, C!stores, C!leases
<1>1. CASE C!Claim(c) \/ C!Renew(c) \/ C!Release(c)
  <2>1. /\ clock' = clock /\ steps' = steps /\ doing' = doing
        /\ strayed' = strayed \/ C!Release(c)
    BY <1>1 DEF C!Claim, C!Renew, C!Grant, C!Release
  <2>2. lease' \in Lease \cup {None}
    BY <1>1 DEF C!Claim, C!Renew, C!Grant, C!Release, C!Holds, Lease
  <2>3. held' \in [Coordinator -> Nat]
    BY <1>1 DEF C!Claim, C!Renew, C!Grant, C!Release
  <2>4. strayed' \in BOOLEAN
    BY <2>1 DEF C!Release
  <2> QED BY <2>1, <2>2, <2>3, <2>4
<1>2. CASE C!Load(c)
  BY <1>2 DEF C!Load, CallPC
<1>3. CASE C!StoreApproval(c) \/ C!EvaluatePolicy(c) \/ C!AppendLedger(c) \/ C!Fail(c)
           \/ C!SetState(c)
  <2>1. /\ clock' = clock /\ lease' = lease /\ steps' = steps /\ doing[c].pc # "idle"
        /\ held' = held /\ strayed' = strayed
        /\ \/ doing[c].pc \in {"approval", "policy"} /\ C!Goto(c, "policy")
           \/ C!Goto(c, "effects") \/ C!Goto(c, "ledger") \/ C!Return(c)
    BY <1>3 DEF C!StoreApproval, C!EvaluatePolicy, C!AppendLedger, C!Fail, C!SetState
  <2>2. CASE C!Goto(c, "policy") /\ doing[c].pc \in {"approval", "policy"}
    BY <2>1, <2>2, CallMoves DEF CallPC
  <2>3. CASE C!Goto(c, "effects") \/ C!Goto(c, "ledger") \/ C!Return(c)
    <3>1. doing'[c].pc \notin {"approval", "policy"}
      BY <2>3 DEF C!Goto, C!Return, C!Idle
    <3> QED BY <2>1, <2>3, <3>1, CallMoves DEF CallPC
  <2> QED BY <2>1, <2>2, <2>3
<1>4. CASE C!SetEffect(c)
  <2>1. /\ clock' = clock /\ lease' = lease /\ DOMAIN steps' = DOMAIN steps /\ doing[c].pc # "idle"
        /\ doing[c].pc = "effects" /\ held' = held /\ strayed' = strayed
        /\ C!Goto(c, "state") \/ doing' = [doing EXCEPT ![c].next = doing[c].next + 1]
    BY <1>4 DEF C!SetEffect
  <2>2. CASE C!Goto(c, "state")
    <3>1. doing'[c].pc = "state"
      BY <2>2 DEF C!Goto
    <3> QED BY <2>1, <2>2, <3>1, CallMoves DEF CallPC
  <2>3. CASE doing' = [doing EXCEPT ![c].next = doing[c].next + 1]
    <3>1. /\ DOMAIN doing' = Coordinator
          /\ \A d \in Coordinator : d # c => doing'[d] = doing[d]
          /\ DOMAIN doing'[c] = DOMAIN doing[c]
          /\ doing'[c].pc = doing[c].pc /\ doing'[c].op = doing[c].op
          /\ doing'[c].next = doing[c].next + 1
      BY <2>3
    <3>2. /\ DOMAIN doing[c] = {"pc", "op", "from", "next"}
          /\ doing[c].op \in DOMAIN C!Method /\ doing[c].next + 1 \in Nat \ {0}
      BY <2>1
    <3> QED BY <2>1, <3>1, <3>2 DEF CallPC
  <2> QED BY <2>1, <2>2, <2>3
<1> QED BY <1>1, <1>2, <1>3, <1>4 DEF CallStep

\* A claim takes over only what has run out, so never what its owner was told it holds.
LEMMA LeaseKnownStep ==
  ASSUME CoordinatorBounds, CallShape, LeaseKnown, NEW c \in Coordinator, CallStep(c)
  PROVE  LeaseKnown'
<1> USE DEF CoordinatorBounds, CallShape
<1>1. ASSUME NEW d \in Coordinator, held[d] > clock
      PROVE  /\ lease = [owner |-> d, until |-> held[d]] /\ lease # None
             /\ lease.owner = d /\ lease.until = held[d]
  <2>1. lease = [owner |-> d, until |-> held[d]]
    BY <1>1 DEF LeaseKnown
  <2>2. lease \in Lease
    BY <2>1 DEF Lease
  <2> QED BY <2>1, <2>2
<1>2. CASE C!Grant(c) /\ (lease # None /\ ~C!Holds(c) => lease.until <= clock)
  <2>1. /\ lease' = [owner |-> c, until |-> held'[c]] /\ clock' = clock
        /\ \A d \in Coordinator : d # c => held'[d] = held[d]
    BY <1>2 DEF C!Grant
  <2>2. \A d \in Coordinator : held[d] > clock => d = c
    BY <1>1, <1>2 DEF C!Holds
  <2> QED BY <2>1, <2>2 DEF LeaseKnown
<1>3. CASE C!Claim(c) \/ C!Renew(c)
  BY <1>2, <1>3 DEF C!Claim, C!Renew
<1>4. CASE C!Release(c)
  <2>1. /\ held'[c] = 0 /\ clock' = clock
        /\ \A d \in Coordinator : d # c => held'[d] = held[d]
    BY <1>4 DEF C!Release
  <2>2. \A d \in Coordinator : held[d] > clock => d = c
    BY <1>1, <1>4 DEF C!Release, C!Holds
  <2> QED BY <2>1, <2>2 DEF LeaseKnown
<1>5. CASE ~(C!Claim(c) \/ C!Renew(c) \/ C!Release(c))
  <2>1. UNCHANGED <<lease, held, clock>>
    BY <1>5 DEF CallStep, C!Load, C!StoreApproval, C!EvaluatePolicy, C!SetEffect, C!SetState,
       C!AppendLedger, C!Fail, C!leases
  <2> QED BY <2>1 DEF LeaseKnown
<1> QED BY <1>3, <1>4, <1>5

\* No step of its own takes the lease from under a call, unless it strays.
LEMMA CallsLeasedStep ==
  ASSUME CoordinatorBounds, CallShape, CallsLeased, NEW c \in Coordinator, CallStep(c),
         ~strayed'
  PROVE  CallsLeased'
<1> USE DEF CoordinatorBounds, CallShape, CallsLeased, C!At, C!stores, C!leases
<1>1. CASE C!Claim(c) \/ C!Renew(c)
  BY <1>1 DEF C!Claim, C!Renew, C!Grant
<1>2. CASE C!Release(c)
  BY <1>2 DEF C!Release
<1>3. CASE C!Load(c)
  <2>1. ~(held[c] <= clock)
    BY <1>3, Zenon DEF C!Load
  <2>2. held' = held /\ clock' = clock /\ \A d \in Coordinator \ {c} : doing'[d] = doing[d]
    BY <1>3 DEF C!Load
  <2> QED BY <2>1, <2>2
<1>4. CASE C!StoreApproval(c) \/ C!EvaluatePolicy(c) \/ C!AppendLedger(c) \/ C!Fail(c)
  BY <1>4 DEF C!StoreApproval, C!EvaluatePolicy, C!AppendLedger, C!Fail, C!Goto, C!Return, C!Idle
<1>5. CASE C!SetEffect(c) \/ C!SetState(c)
  BY <1>5 DEF C!SetEffect, C!SetState, C!Goto
<1> QED BY <1>1, <1>2, <1>3, <1>4, <1>5 DEF CallStep

\* Only one call is in progress, so what is to be shown of the calls is to be
\* shown of the one that takes the step.
LEMMA OneCallMoves ==
  ASSUME CallShape, LeaseKnown, CallsLeased, NEW c \in Coordinator, doing[c].pc # "idle",
         \A d \in Coordinator : d # c => doing'[d] = doing[d],
         doing'[c].pc \in Writing => state' \in C!Method[doing'[c].op].from,
         doing'[c].pc = "ledger" => state' = C!Method[doing'[c].op].to,
         doing'[c].pc = "effects" /\ C!Method[doing'[c].op].effect # None =>
           \A e \in 1 .. Effects :
             e < doing'[c].next => steps'[e] = C!Method[doing'[c].op].effect,
         doing'[c].pc = "state" /\ C!Method[doing'[c].op].effect # None =>
           \A e \in 1 .. Effects : steps'[e] = C!Method[doing'[c].op].effect
  PROVE  StateKnown' /\ EffectsStored'
<1>1. \A d \in Coordinator : d # c => doing'[d].pc = "idle"
  BY OneCall
<1>2. StateKnown'
  BY <1>1 DEF StateKnown, Writing
<1>3. EffectsStored'
  BY <1>1 DEF EffectsStored
<1> QED BY <1>2, <1>3

\* The calls write in an order that makes a finished state whole before it is stored,
\* and a finished state is where every call stops.
LEMMA FinishedStep ==
  ASSUME CoordinatorBounds, CallShape, LeaseKnown, CallsKept, NEW c \in Coordinator, CallStep(c)
  PROVE  StateKnown' /\ EffectsStored' /\ C!Whole'
<1> USE DEF CoordinatorBounds, CallsKept, C!stores
<1> DEFINE m == C!Method[doing[c].op]
<1>1. doing[c].pc # "idle" => doing[c].op \in DOMAIN C!Method /\ doing[c].next \in Nat \ {0}
  BY DEF CallShape
<1>2. doing[c].pc \in Writing => state \notin Finished
  BY <1>1, MethodsKnown DEF StateKnown, Writing
<1>3. CASE C!Claim(c) \/ C!Renew(c) \/ C!Release(c)
  BY <1>3 DEF C!Claim, C!Renew, C!Grant, C!Release, StateKnown, EffectsStored, C!Whole
<1>4. CASE C!Load(c)
  <2>1. PICK op \in DOMAIN C!Method :
          /\ state \in C!Method[op].from
          /\ doing' = [doing EXCEPT ![c] =
               [pc |-> IF op \in {"Approve", "InvalidateApproval"} THEN "approval"
                       ELSE "effects",
                op |-> op, from |-> state, next |-> 1]]
    BY <1>4 DEF C!Load
  <2>2. UNCHANGED <<state, steps, entry>>
    BY <1>4 DEF C!Load
  <2>3. /\ doing'[c].pc \in {"approval", "effects"} /\ doing'[c].op = op
        /\ doing'[c].next = 1
        /\ \A d \in Coordinator : d # c => doing'[d] = doing[d]
    BY <2>1 DEF CallShape
  <2>4. StateKnown'
    BY <2>1, <2>2, <2>3 DEF StateKnown
  <2>5. EffectsStored'
    BY <2>2, <2>3 DEF EffectsStored
  <2> QED BY <2>2, <2>4, <2>5 DEF C!Whole
<1>5. CASE C!StoreApproval(c) \/ C!EvaluatePolicy(c) \/ C!Fail(c)
  <2>1. UNCHANGED <<state, steps, entry>> /\ doing[c].pc # "idle"
    BY <1>5 DEF C!StoreApproval, C!EvaluatePolicy, C!Fail, C!At
  <2>2. \/ C!Return(c)
        \/ /\ doing[c].pc \in {"approval", "policy"}
           /\ \E l \in {"policy", "effects"} : C!Goto(c, l)
    BY <1>5 DEF C!StoreApproval, C!EvaluatePolicy, C!Fail, C!At
  <2>3. \A d \in Coordinator : d # c => doing'[d] = doing[d]
    BY <2>2 DEF C!Return, C!Goto, CallShape
  <2>4. \/ doing'[c].pc = "idle"
        \/ /\ doing'[c].pc \in {"policy", "effects"} /\ doing'[c].op = doing[c].op
           /\ doing[c].pc \in Writing /\ doing'[c].next = 1
    BY <2>2 DEF C!Return, C!Goto, C!Idle, CallShape, Writing
  <2>5. StateKnown' /\ EffectsStored'
    BY <2>1, <2>3, <2>4, OneCallMoves DEF StateKnown, Writing
  <2> QED BY <2>1, <2>5 DEF C!Whole
<1>6. CASE C!SetEffect(c)
  <2> DEFINE e == doing[c].next
  <2>1. /\ UNCHANGED <<state, entry>> /\ doing[c].pc = "effects"
        /\ \/ C!Goto(c, "state") /\ UNCHANGED steps /\ (m.effect = None \/ e > Effects)
           \/ /\ steps' = [steps EXCEPT ![e] = m.effect]
              /\ doing' = [doing EXCEPT ![c].next = e + 1]
    BY <1>6 DEF C!SetEffect, C!At
  <2>2. CASE C!Goto(c, "state") /\ UNCHANGED steps /\ (m.effect = None \/ e > Effects)
    <3>1. /\ doing'[c].pc = "state" /\ doing'[c].op = doing[c].op
          /\ \A d \in Coordinator : d # c => doing'[d] = doing[d]
      BY <2>2 DEF C!Goto, CallShape
    <3>2. m.effect # None => \A x \in 1 .. Effects : steps[x] = m.effect
      BY <1>1, <2>1, <2>2 DEF EffectsStored
    <3> QED BY <2>1, <2>2, <3>1, <3>2, OneCallMoves DEF StateKnown, Writing, C!Whole
  <2>3. CASE /\ steps' = [steps EXCEPT ![e] = m.effect]
             /\ doing' = [doing EXCEPT ![c].next = e + 1]
    <3>1. /\ doing'[c].pc = "effects" /\ doing'[c].op = doing[c].op /\ doing'[c].next = e + 1
          /\ \A d \in Coordinator : d # c => doing'[d] = doing[d]
      BY <2>1, <2>3 DEF CallShape
    <3>2. m.effect # None => \A x \in 1 .. Effects : x < e + 1 => steps'[x] = m.effect
      BY <1>1, <2>1, <2>3 DEF EffectsStored, CallShape
    <3>3. StateKnown' /\ EffectsStored'
      BY <2>1, <3>1, <3>2, OneCallMoves DEF StateKnown, Writing
    <3>4. state \notin Finished /\ state' = state /\ entry' = entry
      BY <1>2, <2>1 DEF Writing
    <3> QED BY <3>3, <3>4 DEF C!Whole, Finished
  <2> QED BY <2>1, <2>2, <2>3
<1>7. CASE C!SetState(c)
  <2>1. /\ UNCHANGED <<steps, entry>> /\ doing[c].pc = "state" /\ state' = m.to
        /\ C!Goto(c, "ledger")
    BY <1>7 DEF C!SetState, C!At
  <2>2. /\ doing'[c].pc = "ledger" /\ doing'[c].op = doing[c].op
        /\ \A d \in Coordinator : d # c => doing'[d] = doing[d]
    BY <2>1 DEF C!Goto, CallShape
  <2>3. StateKnown' /\ EffectsStored'
    BY <2>1, <2>2, OneCallMoves DEF Writing
  <2>4. m.to \in Finished => \A x \in 1 .. Effects : steps[x] = m.to
    BY <1>1, <2>1, MethodsKnown DEF EffectsStored
  <2>5. entry # None => entry.next \notin Finished
    BY <1>2, <2>1 DEF C!Whole, Finished, Writing
  <2> QED BY <2>1, <2>3, <2>4, <2>5 DEF C!Whole, Finished
<1>8. CASE C!AppendLedger(c)
  <2>1. /\ UNCHANGED <<state, steps>> /\ doing[c].pc = "ledger" /\ entry'.next = m.to
        /\ C!Return(c)
    BY <1>8 DEF C!AppendLedger, C!At
  <2>2. /\ doing'[c].pc = "idle"
        /\ \A d \in Coordinator : d # c => doing'[d] = doing[d]
    BY <2>1 DEF C!Return, C!Idle, CallShape
  <2>3. StateKnown' /\ EffectsStored'
    BY <2>1, <2>2, OneCallMoves DEF Writing
  <2>4. state = m.to
    BY <2>1 DEF StateKnown
  <2> QED BY <2>1, <2>3, <2>4 DEF C!Whole
<1> QED BY <1>3, <1>4, <1>5, <1>6, <1>7, <1>8 DEF CallStep

\* The clock takes a lease from under a call only as it strays.
LEMMA CoordinatorNextKeeps ==
  ASSUME CoordinatorBounds, CoordinatorInv, [C!CoordinatorNext]_(C!vars)
  PROVE  CoordinatorInv'
<1> USE DEF CoordinatorInv
<1>1. CASE UNCHANGED C!vars
  BY <1>1 DEF C!vars, CallShape, DecisionKnown, LeaseKnown, CallsKept, CallsLeased, StateKnown,
              EffectsStored, C!Whole
<1>2. CASE C!Tick
  <2>1. /\ UNCHANGED <<state, steps, decision, entry, lease, held, doing>>
        /\ clock' = clock + 1
        /\ strayed' = (strayed \/ \E c \in Coordinator :
                                    doing[c].pc # "idle" /\ held[c] <= clock + 1)
    BY <1>2 DEF C!Tick, C!stores, C!leases, C!At
  <2>2. CallShape'
    BY <2>1 DEF CallShape
  <2>3. LeaseKnown'
    BY <2>1 DEF CallShape, LeaseKnown
  <2>4. ASSUME ~strayed' PROVE CallsKept'
    <3>1. CallsLeased'
      <4>1. ASSUME NEW c \in Coordinator, doing[c].pc # "idle"
            PROVE  ~(held[c] <= clock + 1)
        BY <2>1, <2>4, <4>1, Zenon
      <4> QED BY <2>1, <4>1 DEF CallShape, CallsLeased
    <3>2. CallsKept
      <4>1. ~strayed
        BY <2>1, <2>4, Zenon
      <4> QED BY <4>1
    <3> QED BY <2>1, <3>1, <3>2 DEF CallsKept, StateKnown, EffectsStored, C!Whole
  <2> QED BY <2>1, <2>2, <2>3, <2>4 DEF DecisionKnown
<1>3. ASSUME NEW c \in Coordinator, CallStep(c) PROVE CoordinatorInv'
  <2>1. DecisionKnown'
    BY <1>3 DEF CallStep, DecisionKnown, C!Claim, C!Renew, C!Grant, C!Release, C!Load,
       C!StoreApproval, C!EvaluatePolicy, C!SetEffect, C!SetState, C!AppendLedger, C!Fail,
       C!stores
  <2>2. ASSUME ~strayed' PROVE ~strayed
    BY <1>3, <2>2 DEF CallStep, C!Claim, C!Renew, C!Grant, C!Release, C!Load, C!StoreApproval,
       C!EvaluatePolicy, C!SetEffect, C!SetState, C!AppendLedger, C!Fail
  <2>3. ASSUME ~strayed' PROVE CallsKept'
    BY <1>3, <2>2, <2>3, CallsLeasedStep, FinishedStep DEF CallsKept
  <2> QED BY <1>3, <2>1, <2>3, CallShapeStep, LeaseKnownStep
<1> QED BY <1>1, <1>2, <1>3 DEF C!CoordinatorNext, CallStep

\* With no call in progress, nothing is stored that is not as it was.
LEMMA CoordinatorStarts ==
  ASSUME CoordinatorBounds, C!Init
  PROVE  CoordinatorInv
<1> USE DEF C!Init, C!Idle
<1>1. CallShape
  BY DEF CallShape, CallPC
<1>2. CallsLeased /\ LeaseKnown /\ DecisionKnown
  BY DEF CallsLeased, LeaseKnown, DecisionKnown
<1>3. StateKnown /\ EffectsStored
  BY DEF StateKnown, EffectsStored, Writing
<1>4. C!Whole
  BY DEF C!Whole
<1> QED BY <1>1, <1>2, <1>3, <1>4 DEF CoordinatorInv, CallsKept

\* As long as every caller keeps each of its calls within a lease it has been told it
\* holds (the callers' part, which coordinator.Engine does not check: FinishedIsWhole says
\* nothing once a call has `strayed`), a transaction of the original branch that is
\* finished has every effect finished the same way, and its ledger says nothing else.  Of
\* the code it needs that postgreslease's Claim leaves a running lease alone and that the
\* engine stores the effects before the state and the state before the ledger record.
THEOREM FinishedWhole ==
  ASSUME CoordinatorBounds
  PROVE  C!CoordinatorSpec => []FinishedIsWhole
<1>1. C!Init => CoordinatorInv
  BY CoordinatorStarts
<1>2. CoordinatorInv /\ [C!CoordinatorNext]_(C!vars) => CoordinatorInv'
  BY CoordinatorNextKeeps
<1>3. CoordinatorInv => FinishedIsWhole
  BY DEF CoordinatorInv, CallShape, CallsKept, DecisionKnown, Lease, FinishedIsWhole,
         C!CoordinatorTypeOK, C!FinishedIsWhole
<1> QED BY <1>1, <1>2, <1>3, PTL DEF C!CoordinatorSpec

-----------------------------------------------------------------------------
(* Signed approvals: what was verified stays so until it is recorded.      *)

\* Commands that write the keyring do not overlap.
ApprovalBounds ==
  /\ \A t, u \in Tool : t = u
  /\ FirstKeys \subseteq Key /\ Lifetime \in Nat

Envelope == [key : Key, approver : S!Approver, digest : Nat, signedAt : Nat, expires : Nat]

Ring(r) == DOMAIN r \subseteq Key /\ r \in [DOMAIN r -> BOOLEAN]

\* A key that a finished command has disabled is disabled in the file, which one command
\* at a time replaces by what it has read and changed.
KeysKnown ==
  /\ Ring(ring) /\ FirstKeys \subseteq DOMAIN ring
  /\ DOMAIN editing = Tool
  /\ \A t \in Tool : editing[t] # None => editing[t] = ring
  /\ disabled \subseteq DOMAIN ring /\ \A k \in disabled : ~ring[k]

\* The daemon trusts no key that had been disabled when it started.
TrustKnown ==
  trusted # None =>
    Ring(trusted) /\ \A k \in distrusted : k \in DOMAIN trusted => ~trusted[k]

SignedKnown ==
  /\ now \in Nat /\ revision \in Nat
  /\ IsFiniteSet(signed) /\ signed \subseteq Envelope
  /\ \A e \in signed : e.approver = ApproverOf[e.key]

\* A bundle that passed VerifyBundle; nothing that happens before RecordApproval
\* changes what was verified of it.
Passed(bundle, digest) ==
  /\ bundle # {} /\ bundle \subseteq signed
  /\ \A e \in bundle : e.digest = digest
  /\ S!Enough(bundle)
RequestKnown ==
  request # None =>
    /\ trusted # None /\ request.bundle # {} /\ request.bundle \subseteq signed
    /\ request.at = "verified" =>
         /\ Passed(request.bundle, request.digest)
         /\ \A e \in request.bundle : e.key \in DOMAIN trusted /\ trusted[e.key]

ApprovalKnown ==
  granted # None =>
    /\ granted.digest = revision /\ Passed(granted.bundle, revision)
    /\ \A e \in granted.bundle : granted.expires <= e.expires
    /\ \A e \in granted.bundle : e.key \notin granted.distrusted

ApprovalInv == KeysKnown /\ TrustKnown /\ SignedKnown /\ RequestKnown /\ ApprovalKnown

\* A set of naturals has a least one, so a bundle has an earliest expiry.
LEMMA LeastNatural ==
  ASSUME NEW T \in SUBSET Nat, T # {}
  PROVE  \E x \in T : \A y \in T : x <= y
<1>1. PICK x \in T : \A y \in T : ~(<<y, x>> \in OpToRel(<, Nat))
  BY NatLessThanWellFounded, WFMin
<1>2. \A y \in T : ~(y < x)
  BY <1>1 DEF OpToRel
<1> QED BY <1>2

\* The expiry of an approval is no later than that of any of its envelopes.
LEMMA EarliestBounds ==
  ASSUME NEW bundle, bundle # {}, bundle \subseteq Envelope
  PROVE  \A e \in bundle : S!Earliest(bundle) <= e.expires
<1> DEFINE T == {e.expires : e \in bundle}
<1>1. T \subseteq Nat /\ T # {}
  BY DEF Envelope
<1>2. \E x \in T : \A y \in T : x <= y
  BY <1>1, LeastNatural
<1>3. \E x \in T : \A e \in bundle : x <= e.expires
  BY <1>2
<1> QED BY <1>3 DEF S!Earliest

\* As many approvers as envelopes: VerifyQuorum takes one envelope of each.
LEMMA ApproversCounted ==
  ASSUME NEW bundle, IsFiniteSet(bundle),
         \A e, f \in bundle : e.approver = f.approver => e = f
  PROVE  Cardinality({e.approver : e \in bundle}) = Cardinality(bundle)
<1> DEFINE by == {e.approver : e \in bundle}
           Field == [e \in bundle |-> e.approver]
<1>1. Field \in Bijection(bundle, by)
  <2>1. Field \in Injection(bundle, by)
    BY DEF Injection, IsInjective
  <2>2. Field \in Surjection(bundle, by)
    BY DEF Surjection
  <2> QED BY <2>1, <2>2 DEF Bijection
<1>2. ExistsBijection(bundle, by)
  BY <1>1 DEF ExistsBijection
<1> HIDE DEF by
<1>3. Cardinality(by) = Cardinality(bundle)
  BY <1>2, FS_Bijection
<1> QED BY <1>3 DEF by

\* A command alone with the keyring writes back what it read, with its own change.
LEMMA RingStep ==
  ASSUME ApprovalBounds, KeysKnown, NEW t \in Tool,
         \/ S!ReadRing(t)
         \/ \E k \in Key, b \in BOOLEAN : S!Rotate(t, k, b)
         \/ \E k \in Key, e, a \in BOOLEAN : S!SetEnabled(t, k, e, a)
  PROVE  KeysKnown'
<1>1. \A u \in Tool : u = t
  BY DEF ApprovalBounds
<1>2. DOMAIN editing = Tool
  BY DEF KeysKnown
<1>3. CASE S!ReadRing(t)
  BY <1>1, <1>2, <1>3 DEF S!ReadRing, KeysKnown, Ring
<1>4. ASSUME NEW k \in Key, NEW b \in BOOLEAN, S!Rotate(t, k, b)
      PROVE  KeysKnown'
  <2> DEFINE old == {o \in DOMAIN ring : b /\ ApproverOf[o] = ApproverOf[k]}
             new == [o \in DOMAIN ring \cup {k} |-> o = k \/ (o \notin old /\ ring[o])]
  <2>1. editing[t] = ring
    BY <1>4 DEF S!Rotate, KeysKnown
  <2>2. /\ k \notin DOMAIN ring /\ ring' = new /\ disabled' = disabled \cup old
        /\ editing' = [editing EXCEPT ![t] = None]
    BY <1>4, <2>1 DEF S!Rotate, S!WriteRing
  <2>3. DOMAIN ring' = DOMAIN ring \cup {k}
    BY <2>2
  <2>4. Ring(ring') /\ FirstKeys \subseteq DOMAIN ring'
    BY <2>2, <2>3 DEF Ring, KeysKnown
  <2>5. disabled' \subseteq DOMAIN ring' /\ \A o \in disabled' : ~ring'[o]
    BY <2>2, <2>3 DEF KeysKnown
  <2>6. DOMAIN editing' = Tool /\ \A u \in Tool : editing'[u] = None
    BY <1>1, <1>2, <2>2
  <2> QED BY <2>4, <2>5, <2>6 DEF KeysKnown, Ring
<1>5. ASSUME NEW k \in Key, NEW e \in BOOLEAN, NEW a \in BOOLEAN, S!SetEnabled(t, k, e, a)
      PROVE  KeysKnown'
  <2> DEFINE new == [ring EXCEPT ![k] = e]
  <2>1. editing[t] = ring /\ k \in DOMAIN ring
    BY <1>5 DEF S!SetEnabled, KeysKnown
  <2>2. CASE UNCHANGED <<ring, disabled>> /\ editing' = [editing EXCEPT ![t] = None]
    BY <1>1, <1>2, <2>2 DEF KeysKnown, Ring
  <2>3. CASE /\ ring' = new /\ editing' = [editing EXCEPT ![t] = None]
             /\ disabled' = IF e THEN disabled \ {k} ELSE disabled \cup {k}
    <3>1. DOMAIN ring' = DOMAIN ring /\ ring'[k] = e
      BY <2>1, <2>3 DEF KeysKnown, Ring
    <3>2. \A o \in DOMAIN ring : o # k => ring'[o] = ring[o]
      BY <2>1, <2>3 DEF KeysKnown, Ring
    <3>3. Ring(ring') /\ FirstKeys \subseteq DOMAIN ring'
      BY <2>1, <2>3, <3>1 DEF KeysKnown, Ring
    <3>4. disabled' \subseteq DOMAIN ring' /\ \A o \in disabled' : ~ring'[o]
      BY <2>1, <2>3, <3>1, <3>2 DEF KeysKnown
    <3>5. DOMAIN editing' = Tool /\ \A u \in Tool : editing'[u] = None
      BY <1>1, <1>2, <2>3
    <3> QED BY <3>3, <3>4, <3>5 DEF KeysKnown, Ring
  <2> QED BY <1>5, <2>1, <2>2, <2>3 DEF S!SetEnabled, S!WriteRing
<1> QED BY <1>3, <1>4, <1>5

\* A signature leaves what was signed before, and what was passed, as it was.
LEMMA SignKeeps ==
  ASSUME ApprovalBounds, ApprovalInv, NEW k \in Key, NEW d \in Nat, NEW ahead \in Nat,
         S!Sign(k, d, ahead)
  PROVE  ApprovalInv'
<1> DEFINE new == [key |-> k, approver |-> ApproverOf[k], digest |-> d,
                   signedAt |-> now + ahead, expires |-> now + ahead + Lifetime]
<1>1. /\ signed' = signed \cup {new}
      /\ UNCHANGED <<ring, editing, disabled, trusted, revision, request, granted, now,
                     distrusted>>
  BY DEF S!Sign, S!files
<1>2. new \in Envelope /\ new.approver = ApproverOf[new.key]
  BY DEF Envelope, S!Approver, ApprovalInv, SignedKnown, ApprovalBounds
<1>3. IsFiniteSet(signed \cup {new})
  BY FS_AddElement DEF ApprovalInv, SignedKnown
<1> HIDE DEF new
<1>4. SignedKnown'
  BY <1>1, <1>2, <1>3 DEF ApprovalInv, SignedKnown
<1>5. RequestKnown' /\ ApprovalKnown'
  BY <1>1 DEF ApprovalInv, RequestKnown, ApprovalKnown, Passed
<1> QED BY <1>1, <1>4, <1>5 DEF ApprovalInv, KeysKnown, TrustKnown, Ring

\* What VerifyBundle accepts is trusted, signed over the material that was read, and enough.
LEMMA VerifyKeeps ==
  ASSUME ApprovalInv, S!VerifyBundle
  PROVE  ApprovalInv'
<1>1. UNCHANGED <<ring, editing, disabled, trusted, revision, signed, granted, now,
                  distrusted>>
  BY DEF S!VerifyBundle, S!files
<1>2. CASE request' = None
  BY <1>1, <1>2 DEF ApprovalInv, KeysKnown, TrustKnown, SignedKnown, RequestKnown,
                    ApprovalKnown, Passed, Ring
<1>3. CASE request' # None
  <2>1. /\ request # None /\ request' = [request EXCEPT !.at = "verified"]
        /\ S!Enough(request.bundle)
        /\ \A e \in request.bundle : S!Good(e, request.digest)
    BY <1>3 DEF S!VerifyBundle
  <2>2. request'.bundle = request.bundle /\ request'.digest = request.digest
    BY <2>1
  <2>3. RequestKnown'
    BY <1>1, <2>1, <2>2 DEF ApprovalInv, RequestKnown, Passed, S!Good
  <2> QED BY <1>1, <2>3 DEF ApprovalInv, KeysKnown, TrustKnown, SignedKnown,
                            ApprovalKnown, Passed, Ring
<1> QED BY <1>2, <1>3

\* What is recorded was verified, over the material as it is now, and expires no later
\* than its first envelope.
LEMMA RecordKeeps ==
  ASSUME ApprovalInv, S!RecordApproval
  PROVE  ApprovalInv'
<1>1. /\ UNCHANGED <<ring, editing, disabled, trusted, revision, signed, now, distrusted>>
      /\ request' = None /\ request # None /\ request.at = "verified"
  BY DEF S!RecordApproval, S!files
<1>2. KeysKnown' /\ TrustKnown' /\ SignedKnown' /\ RequestKnown'
  BY <1>1 DEF ApprovalInv, KeysKnown, TrustKnown, SignedKnown, RequestKnown, Ring
<1>3. CASE granted' = granted
  BY <1>1, <1>2, <1>3 DEF ApprovalInv, ApprovalKnown, Passed
<1>4. CASE granted' # granted
  <2>1. /\ request.digest = revision
        /\ granted' = [digest |-> request.digest, bundle |-> request.bundle,
                        expires |-> S!Earliest(request.bundle), distrusted |-> distrusted]
    BY <1>4 DEF S!RecordApproval
  <2>2. /\ granted'.digest = revision /\ granted'.bundle = request.bundle
        /\ granted'.expires = S!Earliest(request.bundle)
        /\ granted'.distrusted = distrusted
    BY <2>1
  <2>3. Passed(request.bundle, revision)
    BY <1>1, <2>1 DEF ApprovalInv, RequestKnown
  <2>4. \A e \in request.bundle : S!Earliest(request.bundle) <= e.expires
    <3>1. request.bundle # {} /\ request.bundle \subseteq Envelope
      BY <1>1 DEF ApprovalInv, RequestKnown, SignedKnown
    <3> QED BY <3>1, EarliestBounds
  <2>5. \A e \in request.bundle : e.key \notin distrusted
    BY <1>1 DEF ApprovalInv, RequestKnown, TrustKnown
  <2>6. ApprovalKnown'
    BY <1>1, <2>2, <2>3, <2>4, <2>5 DEF ApprovalKnown, Passed
  <2> QED BY <1>2, <2>6 DEF ApprovalInv
<1> QED BY <1>3, <1>4

\* A revision takes the approval with it; the other steps leave what was verified alone.
LEMMA ApprovalsNextKeeps ==
  ASSUME ApprovalBounds, ApprovalInv, [S!Next]_(S!vars)
  PROVE  ApprovalInv'
<1>1. CASE UNCHANGED S!vars
  BY <1>1 DEF S!vars, S!files, ApprovalInv, KeysKnown, TrustKnown, SignedKnown, RequestKnown,
              ApprovalKnown, Passed, Ring
<1>2. ASSUME NEW t \in Tool,
             \/ S!ReadRing(t)
             \/ \E k \in Key, b \in BOOLEAN : S!Rotate(t, k, b)
             \/ \E k \in Key, e, a \in BOOLEAN : S!SetEnabled(t, k, e, a)
      PROVE  ApprovalInv'
  <2>1. UNCHANGED <<trusted, revision, signed, request, granted, now, distrusted>>
    BY <1>2 DEF S!ReadRing, S!Rotate, S!SetEnabled, S!WriteRing
  <2>2. KeysKnown'
    BY <1>2, RingStep DEF ApprovalInv
  <2> QED BY <2>1, <2>2 DEF ApprovalInv, TrustKnown, SignedKnown, RequestKnown, ApprovalKnown,
                            Passed, Ring
<1>3. CASE S!StartDaemon
  <2>1. /\ UNCHANGED <<ring, editing, disabled, revision, signed, request, granted, now>>
        /\ trusted = None /\ trusted' = ring /\ distrusted' = disabled
    BY <1>3 DEF S!StartDaemon, S!files
  <2>2. request = None
    BY <2>1 DEF ApprovalInv, RequestKnown
  <2>3. TrustKnown'
    BY <2>1 DEF ApprovalInv, KeysKnown, TrustKnown, Ring
  <2>4. KeysKnown'
    BY <2>1 DEF ApprovalInv, KeysKnown, Ring
  <2> QED BY <2>1, <2>2, <2>3, <2>4 DEF ApprovalInv, SignedKnown, RequestKnown,
                                   ApprovalKnown, Passed
<1>4. CASE S!StopDaemon
  BY <1>4 DEF S!StopDaemon, S!files, ApprovalInv, KeysKnown, TrustKnown, SignedKnown,
              RequestKnown, ApprovalKnown, Passed, Ring
<1>5. CASE S!Tick
  BY <1>5 DEF S!Tick, S!files, ApprovalInv, KeysKnown, TrustKnown, SignedKnown,
              RequestKnown, ApprovalKnown, Passed, Ring
<1>6. ASSUME NEW k \in Key, NEW d \in 1 .. MaxRevision, NEW ahead \in 0 .. 1,
             S!Sign(k, d, ahead)
      PROVE  ApprovalInv'
  <2>1. d \in Nat /\ ahead \in Nat
    OBVIOUS
  <2> QED BY <1>6, <2>1, SignKeeps
<1>7. ASSUME NEW bundle \in SUBSET signed, S!ReadMaterial(bundle)
      PROVE  ApprovalInv'
  BY <1>7 DEF S!ReadMaterial, S!files, ApprovalInv, KeysKnown, TrustKnown, SignedKnown,
              RequestKnown, ApprovalKnown, Passed, Ring
<1>8. CASE S!Revise
  BY <1>8 DEF S!Revise, S!files, ApprovalInv, KeysKnown, TrustKnown, SignedKnown,
              RequestKnown, ApprovalKnown, Passed, Ring
<1> QED BY <1>1, <1>2, <1>3, <1>4, <1>5, <1>6, <1>7, <1>8, VerifyKeeps, RecordKeeps DEF S!Next

\* At first every key is enabled and nothing is signed.
LEMMA ApprovalsStart ==
  ASSUME ApprovalBounds, S!Init
  PROVE  ApprovalInv
<1>1. KeysKnown
  BY DEF S!Init, KeysKnown, Ring, ApprovalBounds
<1>2. SignedKnown
  BY FS_EmptySet DEF S!Init, SignedKnown
<1> QED BY <1>1, <1>2 DEF S!Init, ApprovalInv, TrustKnown, RequestKnown, ApprovalKnown

\* The instance counts as this module does.
LEMMA SameCount ==
  ASSUME NEW T
  PROVE  S!Cardinality(T) = Cardinality(T)
BY DEF S!Cardinality, Cardinality

\* Counting the approvers of an approval is counting its envelopes.
LEMMA PassedIsSigned ==
  ASSUME ApprovalInv
  PROVE  S!ApprovalsAreSigned
<1> SUFFICES ASSUME granted # None PROVE S!ApprovalsAreSigned
  BY DEF S!ApprovalsAreSigned, S!ApprovalIsSigned, S!DisabledKeysStayOut
<1> DEFINE by == {e.approver : e \in granted.bundle}
<1>1. /\ granted.digest = revision /\ Passed(granted.bundle, revision)
      /\ \A e \in granted.bundle : granted.expires <= e.expires
      /\ \A e \in granted.bundle : e.key \notin granted.distrusted
  BY DEF ApprovalInv, ApprovalKnown
<1>2. IsFiniteSet(granted.bundle) /\ granted.bundle \subseteq Envelope
  BY <1>1, FS_Subset DEF Passed, ApprovalInv, SignedKnown
<1>3. by \subseteq S!Allowed
  BY <1>1, <1>2 DEF Passed, S!Enough, S!Allowed, Envelope
<1>4. ASSUME Policy # None
      PROVE  Cardinality(by) >= Policy.threshold /\ Policy.required \subseteq by
  <2>1. /\ \A e, f \in granted.bundle : e.approver = f.approver => e = f
        /\ Cardinality(granted.bundle) >= Policy.threshold
        /\ Policy.required \subseteq by
    BY <1>1, <1>4, SameCount DEF Passed, S!Enough
  <2>2. Cardinality(by) = Cardinality(granted.bundle)
    BY <1>2, <2>1, ApproversCounted
  <2> QED BY <2>1, <2>2
<1>5. \A e \in granted.bundle : e.digest = revision
  BY <1>1 DEF Passed
<1>6. S!ApprovalIsSigned
  BY <1>1, <1>3, <1>4, <1>5, SameCount DEF S!ApprovalIsSigned
<1>7. S!DisabledKeysStayOut
  BY <1>1 DEF S!DisabledKeysStayOut
<1> QED BY <1>6, <1>7 DEF S!ApprovalsAreSigned

\* As long as commands that write the keyring do not overlap, the approval the ledger holds
\* was signed over the material as it is, by as many approvers as the quorum asks for, with
\* keys the daemon had no reason to distrust, and ends with its first signature.
THEOREM ApprovalsSigned ==
  ASSUME ApprovalBounds
  PROVE  S!ApprovalsSpec => []ApprovalsAreSigned
<1>1. S!Init => ApprovalInv
  BY ApprovalsStart
<1>2. ApprovalInv /\ [S!Next]_(S!vars) => ApprovalInv'
  BY ApprovalsNextKeeps
<1>3. ApprovalInv => ApprovalsAreSigned
  BY PassedIsSigned DEF ApprovalsAreSigned, S!ApprovalsTypeOK, ApprovalInv, KeysKnown, Ring,
                        RequestKnown, ApprovalKnown, Passed
<1> QED BY <1>1, <1>2, <1>3, PTL DEF S!ApprovalsSpec

-----------------------------------------------------------------------------
(* Commands in containers: what a run may conclude of the files.           *)

SandboxBounds == Path \subseteq Nat /\ Link \notin {None, Absent}

Content == Execution \cup {None, Absent, Link}
RunFields == {"at", "copy", "todo", "reason", "synced", "shared", "whole"}
Reading == {"idle", "probe", "copy"}
Syncing == {"delete", "update"}

\* The run is a run: its copy and its list are about the workspace's paths.
RunShape(e) ==
  /\ DOMAIN runs[e] = RunFields
  /\ runs[e].copy \in [Path -> Content] /\ runs[e].todo \subseteq Path
  /\ runs[e].synced \in BOOLEAN

\* Files are written after a clean exit only, and who wrote is recorded when it is done.
RunHonest(e) ==
  /\ runs[e].at \in Reading \cup {"survey"} => e \notin wrote
  /\ runs[e].at \in Syncing \cup {"survey"} => runs[e].reason = "success"
  /\ e \in wrote => runs[e].reason = "success"
  /\ runs[e].synced => runs[e].shared \/ runs[e].whole
  /\ runs[e].at = "done" /\ e \in wrote => \E r \in recorded : r.by = e

\* The way back of a run that has the workspace to itself: what is not on its list any
\* more is as in the copy.  No run brings a link back.
RunMirrors(e) ==
  /\ ~runs[e].shared /\ runs[e].at = "delete" =>
       \A p \in Path : runs[e].copy[p] = Absent /\ files[p] # Absent => p \in runs[e].todo
  /\ ~runs[e].shared /\ runs[e].at = "update" =>
       \A p \in Path : p \notin runs[e].todo => files[p] = runs[e].copy[p]
  /\ runs[e].at \in Syncing => \A p \in Path : runs[e].copy[p] # Link

RunOK(e) == RunShape(e) /\ RunHonest(e) /\ RunMirrors(e)

\* Runs that are at work together know that they share the workspace.
SharingKnown ==
  \A e, o \in Execution : e # o /\ X!InFlight(e) /\ X!InFlight(o) => runs[e].shared

RecordsMatch ==
  \A r \in recorded : /\ r.by \in Execution /\ runs[r.by].at = "done"
                      /\ r.reason = runs[r.by].reason /\ r.synced = runs[r.by].synced

SandboxInv ==
  /\ DOMAIN runs = Execution /\ files \in [Path -> Content] /\ wrote \subseteq Execution
  /\ \A p \in Path : files[p] # Link
  /\ \A e \in Execution : RunOK(e)
  /\ SharingKnown /\ RecordsMatch

\* What a step of one run at work leaves alone, and what it may record.
RunMoves(e) ==
  /\ DOMAIN runs' = Execution
  /\ \A o \in Execution : o # e => runs'[o] = runs[o]
  /\ runs'[e].shared = runs[e].shared
RecordsGrow(e) ==
  /\ recorded \subseteq recorded'
  /\ \A r \in recorded' : r \in recorded \/
       /\ r.by = e /\ runs'[e].at = "done"
       /\ r.reason = runs'[e].reason /\ r.synced = runs'[e].synced

\* A step that keeps its own run in order keeps all: whoever else is at work knows that
\* it shares the files that changed.
LEMMA RunKeeps ==
  ASSUME SandboxInv, NEW e \in Execution, X!InFlight(e), RunMoves(e), RunOK(e)',
         files' \in [Path -> Content], \A p \in Path : files'[p] # Link,
         files' = files \/ wrote' = wrote \cup {e}, wrote' \in {wrote, wrote \cup {e}},
         RecordsGrow(e)
  PROVE  SandboxInv'
<1>1. /\ DOMAIN runs = Execution /\ wrote' \subseteq Execution
      /\ \A o \in Execution : RunOK(o)
  BY DEF SandboxInv
<1>2. ASSUME NEW o \in Execution, o # e PROVE RunOK(o)'
  <2>1. runs'[o] = runs[o] /\ (o \in wrote' <=> o \in wrote)
    BY <1>2 DEF RunMoves
  <2>2. RunShape(o)'
    BY <1>1, <2>1 DEF RunOK, RunShape
  <2>3. RunHonest(o)'
    BY <1>1, <2>1 DEF RunOK, RunHonest, RecordsGrow
  <2>4. CASE files' = files
    BY <1>1, <2>1, <2>2, <2>3, <2>4 DEF RunOK, RunMirrors
  <2>5. CASE runs[o].at \in Syncing
    <3>1. runs[o].shared
      BY <1>2, <2>5 DEF SandboxInv, SharingKnown, X!InFlight, Syncing
    <3> QED BY <1>1, <2>1, <2>2, <2>3, <3>1 DEF RunOK, RunMirrors
  <2>6. CASE runs[o].at \notin Syncing
    BY <2>1, <2>2, <2>3, <2>6 DEF RunOK, RunMirrors, Syncing
  <2> QED BY <2>5, <2>6
<1>3. SharingKnown'
  BY <1>1 DEF SandboxInv, SharingKnown, RunMoves, X!InFlight
<1>4. RecordsMatch'
  <2>1. runs[e].at # "done"
    BY DEF X!InFlight
  <2> QED BY <1>1, <2>1 DEF SandboxInv, RecordsMatch, RunMoves, RecordsGrow
<1> QED BY <1>1, <1>2, <1>3, <1>4 DEF SandboxInv, RunMoves

\* The lists a run works through are sets of numbers, so each has a first path.
LEMMA FirstPath ==
  ASSUME SandboxBounds, NEW T \in SUBSET Path, T # {}
  PROVE  X!Min(T) \in T
<1>1. T \in SUBSET Nat
  BY DEF SandboxBounds
<1>2. \E x \in T : \A y \in T : x <= y
  BY <1>1, LeastNatural
<1> QED BY <1>2 DEF X!Min

\* What the invariant says of one run at work.
LEMMA RunFacts ==
  ASSUME SandboxInv, NEW e \in Execution
  PROVE  /\ DOMAIN runs = Execution /\ files \in [Path -> Content]
         /\ \A p \in Path : files[p] # Link
         /\ RunOK(e)
BY DEF SandboxInv

\* A run that is refused has not touched a file.
LEMMA RefuseKeeps ==
  ASSUME SandboxInv, NEW e \in Execution, runs[e].at \in {"probe", "copy"}, X!Refuse(e),
         UNCHANGED <<files, recorded, wrote>>
  PROVE  SandboxInv'
<1> USE RunFacts
<1>1. /\ RunMoves(e) /\ RunShape(e)' /\ runs'[e].at = "done"
      /\ runs'[e].synced = runs[e].synced /\ runs'[e].whole = runs[e].whole
  BY DEF X!Refuse, X!Set, RunMoves, RunOK, RunShape, RunFields
<1>2. RunHonest(e)'
  BY <1>1 DEF RunMoves, RunOK, RunHonest, Reading, Syncing
<1>3. RunMirrors(e)'
  BY <1>1 DEF RunMirrors, Syncing
<1> QED BY <1>1, <1>2, <1>3, RunKeeps DEF RunOK, RecordsGrow, X!InFlight

\* Finish says "whole" only of files that are the copy.
LEMMA FinishKeeps ==
  ASSUME SandboxInv, NEW e \in Execution, NEW synced \in BOOLEAN, X!Finish(e, synced),
         runs[e].at \in Syncing \cup {"survey"}, UNCHANGED <<files, recorded, wrote>>,
         synced => runs[e].shared \/ files = runs[e].copy
  PROVE  SandboxInv'
<1> USE RunFacts
<1>1. /\ RunMoves(e) /\ RunShape(e)' /\ runs'[e].at = "record"
      /\ runs'[e].reason = runs[e].reason /\ runs'[e].synced = synced
      /\ runs'[e].whole = (synced /\ files = runs[e].copy)
  BY DEF X!Finish, X!Set, RunMoves, RunOK, RunShape, RunFields
<1>2. RunHonest(e)'
  BY <1>1 DEF RunMoves, RunOK, RunHonest, Reading, Syncing
<1>3. RunMirrors(e)'
  BY <1>1 DEF RunMirrors, Syncing
<1> QED BY <1>1, <1>2, <1>3, RunKeeps DEF RunOK, RecordsGrow, X!InFlight, Syncing

\* Looking for the runtime, and at what there is to copy, changes no file.
LEMMA ProbeKeeps ==
  ASSUME SandboxInv, NEW e \in Execution, X!Probe(e)
  PROVE  SandboxInv'
<1> USE RunFacts
<1>1. CASE X!Refuse(e)
  BY <1>1, RefuseKeeps DEF X!Probe, X!At
<1>2. CASE X!Set(e, [runs[e] EXCEPT !.at = "copy", !.todo = X!Present(files)])
  <2>1. /\ RunMoves(e) /\ RunShape(e)' /\ runs'[e].at = "copy" /\ runs[e].at = "probe"
        /\ runs'[e].reason = runs[e].reason /\ runs'[e].synced = runs[e].synced
        /\ runs'[e].whole = runs[e].whole /\ UNCHANGED <<files, recorded, wrote>>
    BY <1>2 DEF X!Probe, X!At, X!Set, X!Present, RunMoves, RunOK, RunShape, RunFields
  <2>2. RunHonest(e)' /\ RunMirrors(e)'
    BY <2>1 DEF RunMoves, RunOK, RunHonest, RunMirrors, Reading, Syncing
  <2> QED BY <2>1, <2>2, RunKeeps DEF RunOK, RecordsGrow, X!InFlight
<1> QED BY <1>1, <1>2 DEF X!Probe

\* Copying a path changes the copy only.
LEMMA CopyInKeeps ==
  ASSUME SandboxBounds, SandboxInv, NEW e \in Execution, X!CopyIn(e)
  PROVE  SandboxInv'
<1> USE RunFacts
<1> DEFINE p == X!Min(runs[e].todo)
<1>1. /\ runs[e].at = "copy" /\ UNCHANGED <<files, recorded, wrote>>
      /\ p \in Path
  BY FirstPath DEF X!CopyIn, X!At, RunOK, RunShape
<1> HIDE DEF p
<1>2. CASE X!Refuse(e)
  BY <1>1, <1>2, RefuseKeeps
<1>3. CASE X!Set(e, [runs[e] EXCEPT !.copy[p] = files[p], !.todo = @ \ {p}])
  <2>1. /\ RunMoves(e) /\ runs'[e].at = "copy"
        /\ runs'[e].reason = runs[e].reason /\ runs'[e].synced = runs[e].synced
        /\ runs'[e].whole = runs[e].whole
    BY <1>1, <1>3 DEF X!Set, RunMoves, RunOK, RunShape, RunFields
  <2>2. RunShape(e)'
    BY <1>1, <1>3 DEF X!Set, RunOK, RunShape, RunFields
  <2>3. RunHonest(e)' /\ RunMirrors(e)'
    BY <1>1, <2>1 DEF RunMoves, RunOK, RunHonest, RunMirrors, Reading, Syncing
  <2> QED BY <1>1, <2>1, <2>2, <2>3, RunKeeps DEF RunOK, RecordsGrow, X!InFlight
<1> QED BY <1>2, <1>3 DEF X!CopyIn, p

\* The command sees its copy only, whatever it leaves there.
LEMMA RunCommandKeeps ==
  ASSUME SandboxInv, NEW e \in Execution, X!RunCommand(e)
  PROVE  SandboxInv'
<1> USE RunFacts
<1>1. runs[e].at = "copy" /\ UNCHANGED <<files, recorded, wrote>> /\ e \notin wrote
  BY DEF X!RunCommand, X!At, RunOK, RunHonest, Reading
<1>2. ASSUME NEW p \in Path, NEW c \in {e, Absent, Link},
             X!Set(e, [runs[e] EXCEPT !.at = "survey", !.copy[p] = c, !.reason = "success"])
      PROVE  SandboxInv'
  <2>1. /\ RunMoves(e) /\ runs'[e].at = "survey" /\ runs'[e].reason = "success"
        /\ runs'[e].synced = runs[e].synced /\ runs'[e].whole = runs[e].whole
    BY <1>2 DEF X!Set, RunMoves, RunOK, RunShape, RunFields
  <2>2. RunShape(e)'
    BY <1>2 DEF X!Set, RunOK, RunShape, RunFields, Content
  <2>3. RunHonest(e)' /\ RunMirrors(e)'
    BY <1>1, <2>1 DEF RunMoves, RunOK, RunHonest, RunMirrors, Reading, Syncing
  <2> QED BY <1>1, <2>1, <2>2, <2>3, RunKeeps DEF RunOK, RecordsGrow, X!InFlight
<1>3. ASSUME NEW reason, X!Set(e, [runs[e] EXCEPT !.at = "record", !.reason = reason])
      PROVE  SandboxInv'
  <2>1. /\ RunMoves(e) /\ RunShape(e)' /\ runs'[e].at = "record"
        /\ runs'[e].synced = runs[e].synced /\ runs'[e].whole = runs[e].whole
    BY <1>3 DEF X!Set, RunMoves, RunOK, RunShape, RunFields
  <2>2. RunHonest(e)' /\ RunMirrors(e)'
    BY <1>1, <2>1 DEF RunMoves, RunOK, RunHonest, RunMirrors, Reading, Syncing
  <2> QED BY <1>1, <2>1, <2>2, RunKeeps DEF RunOK, RecordsGrow, X!InFlight
<1> QED BY <1>2, <1>3 DEF X!RunCommand

\* A link on either side ends the run with nothing written, so none comes back.
LEMMA SurveyKeeps ==
  ASSUME SandboxInv, NEW e \in Execution, X!Survey(e)
  PROVE  SandboxInv'
<1> USE RunFacts
<1>1. runs[e].at = "survey" /\ UNCHANGED <<files, recorded, wrote>>
  BY DEF X!Survey, X!At
<1>2. CASE X!Finish(e, FALSE)
  BY <1>1, <1>2, FinishKeeps
<1>3. CASE ~X!Finish(e, FALSE)
  <2> DEFINE left == X!Present(files) \ X!Present(runs[e].copy)
  <2>1. /\ \A p \in Path : runs[e].copy[p] # Link
        /\ X!Set(e, [runs[e] EXCEPT !.at = "delete", !.todo = left])
    BY <1>3 DEF X!Survey
  <2>2. left \subseteq Path
    BY DEF X!Present
  <2>3. \A p \in Path : runs[e].copy[p] = Absent /\ files[p] # Absent => p \in left
    BY DEF X!Present
  <2> HIDE DEF left
  <2>4. /\ RunMoves(e) /\ RunShape(e)' /\ runs'[e].at = "delete" /\ runs'[e].todo = left
        /\ runs'[e].copy = runs[e].copy /\ runs'[e].reason = runs[e].reason
        /\ runs'[e].synced = runs[e].synced /\ runs'[e].whole = runs[e].whole
    BY <2>1, <2>2 DEF X!Set, RunMoves, RunOK, RunShape, RunFields
  <2>5. RunHonest(e)'
    BY <1>1, <2>4 DEF RunMoves, RunOK, RunHonest, Reading, Syncing
  <2>6. RunMirrors(e)'
    BY <1>1, <2>1, <2>3, <2>4 DEF RunMirrors, Syncing
  <2> QED BY <1>1, <2>4, <2>5, <2>6, RunKeeps DEF RunOK, RecordsGrow, X!InFlight
<1> QED BY <1>2, <1>3

\* One file of the workspace changes and leaves the list.
LEMMA FileStep ==
  ASSUME SandboxBounds, SandboxInv, NEW e \in Execution, NEW p \in runs[e].todo,
         NEW c \in Content \ {Link},
         runs[e].at \in Syncing, runs[e].at = "delete" => c = Absent,
         runs[e].at = "update" => c = runs[e].copy[p],
         files' = [files EXCEPT ![p] = c], wrote' = wrote \cup {e}, recorded' = recorded,
         X!Set(e, [runs[e] EXCEPT !.todo = @ \ {p}])
  PROVE  SandboxInv'
<1> USE RunFacts
<1>1. /\ RunMoves(e) /\ runs'[e].todo = runs[e].todo \ {p} /\ runs'[e].at = runs[e].at
      /\ runs'[e].copy = runs[e].copy /\ runs'[e].reason = runs[e].reason
      /\ runs'[e].synced = runs[e].synced /\ runs'[e].whole = runs[e].whole
  BY DEF X!Set, RunMoves, RunOK, RunShape, RunFields
<1>2. RunShape(e)'
  BY DEF X!Set, RunOK, RunShape, RunFields
<1>3. p \in Path
  BY DEF RunOK, RunShape
<1>4. /\ files' \in [Path -> Content] /\ \A q \in Path : files'[q] # Link
      /\ files'[p] = c /\ \A q \in Path : q # p => files'[q] = files[q]
  BY <1>3
<1>5. RunHonest(e)'
  BY <1>1 DEF RunMoves, RunOK, RunHonest, Reading, Syncing
<1>6. RunMirrors(e)'
  BY <1>1, <1>3, <1>4 DEF RunMoves, RunOK, RunMirrors, Syncing
<1> QED BY <1>1, <1>2, <1>4, <1>5, <1>6, RunKeeps DEF RunOK, RecordsGrow, X!InFlight, Syncing

\* When nothing is left to delete, what the copy does not have is gone from the files.
LEMMA DeleteKeeps ==
  ASSUME SandboxBounds, SandboxInv, NEW e \in Execution, X!Delete(e)
  PROVE  SandboxInv'
<1> USE RunFacts
<1>1. runs[e].at = "delete" /\ recorded' = recorded
  BY DEF X!Delete, X!At
<1>2. CASE X!Finish(e, FALSE) /\ UNCHANGED <<files, wrote>>
  BY <1>1, <1>2, FinishKeeps DEF Syncing
<1>3. ASSUME NEW p \in runs[e].todo, files' = [files EXCEPT ![p] = Absent],
             X!Set(e, [runs[e] EXCEPT !.todo = @ \ {p}]), wrote' = wrote \cup {e}
      PROVE  SandboxInv'
  <2>1. Absent \in Content \ {Link} /\ runs[e].at \in Syncing /\ runs[e].at # "update"
    BY <1>1 DEF SandboxBounds, Content, Syncing
  <2> QED BY <1>1, <1>3, <2>1, FileStep
<1>4. CASE /\ runs[e].todo = {} /\ UNCHANGED <<files, wrote>>
           /\ X!Set(e, [runs[e] EXCEPT !.at = "update", !.todo = X!Present(runs[e].copy)])
  <2>1. X!Present(runs[e].copy) \subseteq Path
    BY DEF X!Present
  <2>2. /\ RunMoves(e) /\ runs'[e].at = "update"
        /\ runs'[e].todo = X!Present(runs[e].copy)
        /\ runs'[e].copy = runs[e].copy /\ runs'[e].reason = runs[e].reason
        /\ runs'[e].synced = runs[e].synced /\ runs'[e].whole = runs[e].whole
    BY <1>4 DEF X!Set, RunMoves, RunOK, RunShape, RunFields
  <2>3. RunShape(e)'
    BY <1>4, <2>1 DEF X!Set, RunOK, RunShape, RunFields
  <2>4. RunHonest(e)'
    BY <1>1, <1>4, <2>2 DEF RunMoves, RunOK, RunHonest, Reading, Syncing
  <2>5. RunMirrors(e)'
    BY <1>1, <1>4, <2>2 DEF RunMoves, RunOK, RunMirrors, Syncing, X!Present
  <2> QED BY <1>1, <1>4, <2>2, <2>3, <2>4, <2>5, RunKeeps DEF RunOK, RecordsGrow, X!InFlight
<1> QED BY <1>1, <1>2, <1>3, <1>4 DEF X!Delete

\* When its list is empty, a run that was alone has made the files what its copy is.
LEMMA UpdateKeeps ==
  ASSUME SandboxBounds, SandboxInv, NEW e \in Execution, X!Update(e)
  PROVE  SandboxInv'
<1> USE RunFacts
<1>1. runs[e].at = "update" /\ recorded' = recorded
  BY DEF X!Update, X!At
<1>2. CASE X!Finish(e, FALSE) /\ UNCHANGED <<files, wrote>>
  BY <1>1, <1>2, FinishKeeps DEF Syncing
<1>3. CASE runs[e].todo = {} /\ X!Finish(e, TRUE) /\ UNCHANGED <<files, wrote>>
  <2>1. ASSUME ~runs[e].shared PROVE files = runs[e].copy
    <3>1. \A p \in Path : files[p] = runs[e].copy[p]
      BY <1>1, <1>3, <2>1 DEF RunOK, RunMirrors
    <3>2. files \in [Path -> Content] /\ runs[e].copy \in [Path -> Content]
      BY DEF RunOK, RunShape
    <3> QED BY <3>1, <3>2
  <2> QED BY <1>1, <1>3, <2>1, FinishKeeps DEF Syncing
<1>4. CASE /\ runs[e].todo # {}
           /\ LET p == X!Min(runs[e].todo) IN
                /\ files' = [files EXCEPT ![p] = runs[e].copy[p]]
                /\ X!Set(e, [runs[e] EXCEPT !.todo = @ \ {p}])
           /\ wrote' = wrote \cup {e}
  <2> DEFINE p == X!Min(runs[e].todo)
  <2>1. p \in runs[e].todo /\ p \in Path
    BY <1>4, FirstPath DEF RunOK, RunShape
  <2>2. /\ files' = [files EXCEPT ![p] = runs[e].copy[p]]
        /\ X!Set(e, [runs[e] EXCEPT !.todo = @ \ {p}])
    BY <1>4
  <2> HIDE DEF p
  <2>3. runs[e].copy[p] \in Content \ {Link}
    BY <1>1, <2>1 DEF RunOK, RunShape, RunMirrors, Syncing
  <2> QED BY <1>1, <1>4, <2>1, <2>2, <2>3, FileStep DEF Syncing
<1> QED BY <1>1, <1>2, <1>3, <1>4 DEF X!Update

\* The evidence says what the run came to, or the run is lost.
LEMMA RecordKeepsRuns ==
  ASSUME SandboxInv, NEW e \in Execution, X!Record(e)
  PROVE  SandboxInv'
<1> USE RunFacts
<1>1. runs[e].at = "record" /\ UNCHANGED <<files, wrote>>
  BY DEF X!Record, X!At
<1>2. CASE X!RecordRuntimeExecution(e) /\ X!Set(e, [runs[e] EXCEPT !.at = "done"])
  <2>1. /\ RunMoves(e) /\ RunShape(e)' /\ runs'[e].at = "done"
        /\ runs'[e].reason = runs[e].reason
        /\ runs'[e].synced = runs[e].synced /\ runs'[e].whole = runs[e].whole
    BY <1>2 DEF X!Set, RunMoves, RunOK, RunShape, RunFields
  <2>2. RecordsGrow(e) /\ \E r \in recorded' : r.by = e
    <3> DEFINE new == [by |-> e, reason |-> runs[e].reason, synced |-> runs[e].synced]
    <3>1. recorded' = recorded \cup {new}
      BY <1>2 DEF X!RecordRuntimeExecution
    <3>2. new.by = e /\ new.reason = runs[e].reason /\ new.synced = runs[e].synced
      OBVIOUS
    <3> HIDE DEF new
    <3> QED BY <2>1, <3>1, <3>2 DEF RecordsGrow
  <2>3. RunHonest(e)'
    BY <1>1, <2>1, <2>2 DEF RunMoves, RunOK, RunHonest, Reading, Syncing
  <2>4. RunMirrors(e)'
    BY <2>1 DEF RunMirrors, Syncing
  <2> QED BY <1>1, <2>1, <2>2, <2>3, <2>4, RunKeeps DEF RunOK, X!InFlight
<1>3. CASE UNCHANGED recorded /\ X!Set(e, [runs[e] EXCEPT !.at = "lost"])
  <2>1. /\ RunMoves(e) /\ RunShape(e)' /\ runs'[e].at = "lost"
        /\ runs'[e].reason = runs[e].reason
        /\ runs'[e].synced = runs[e].synced /\ runs'[e].whole = runs[e].whole
    BY <1>3 DEF X!Set, RunMoves, RunOK, RunShape, RunFields
  <2>2. RunHonest(e)' /\ RunMirrors(e)'
    BY <1>1, <1>3, <2>1 DEF RunMoves, RunOK, RunHonest, RunMirrors, Reading, Syncing
  <2> QED BY <1>1, <1>3, <2>1, <2>2, RunKeeps DEF RunOK, RecordsGrow, X!InFlight
<1> QED BY <1>2, <1>3 DEF X!Record

\* A run that starts learns whom it shares the workspace with, and they learn of it.
LEMMA StartKeeps ==
  ASSUME SandboxInv, NEW e \in Execution, X!Start(e)
  PROVE  SandboxInv'
<1> DEFINE busy == {o \in Execution : X!InFlight(o)}
<1>1. /\ runs[e].at = "idle" /\ UNCHANGED <<files, recorded, wrote>>
      /\ runs' = [o \in Execution |->
                    IF o = e THEN [X!Idle EXCEPT !.at = "probe", !.shared = busy # {}]
                    ELSE [runs[o] EXCEPT !.shared = @ \/ o \in busy]]
  BY DEF X!Start, X!At
<1>2. /\ DOMAIN runs'[e] = RunFields /\ runs'[e].copy = [p \in Path |-> Absent]
      /\ runs'[e].todo = {} /\ runs'[e].at = "probe" /\ runs'[e].reason = "none"
      /\ runs'[e].synced = FALSE /\ runs'[e].shared = (busy # {})
  BY <1>1 DEF X!Idle, RunFields
<1>3. e \notin wrote
  BY <1>1 DEF SandboxInv, RunOK, RunHonest, Reading
<1>4. RunOK(e)'
  <2>1. RunShape(e)'
    BY <1>2 DEF RunShape, Content
  <2>2. RunHonest(e)' /\ RunMirrors(e)'
    BY <1>1, <1>2, <1>3 DEF RunHonest, RunMirrors, Reading, Syncing
  <2> QED BY <2>1, <2>2 DEF RunOK
<1>5. ASSUME NEW o \in Execution, o # e
      PROVE  /\ DOMAIN runs'[o] = RunFields /\ runs'[o].copy = runs[o].copy
             /\ runs'[o].todo = runs[o].todo /\ runs'[o].at = runs[o].at
             /\ runs'[o].reason = runs[o].reason /\ runs'[o].synced = runs[o].synced
             /\ runs'[o].whole = runs[o].whole
             /\ runs'[o].shared = (runs[o].shared \/ o \in busy)
  BY <1>1, <1>5 DEF SandboxInv, RunOK, RunShape, RunFields
<1>6. ASSUME NEW o \in Execution, o # e PROVE RunOK(o)'
  <2>1. RunShape(o) /\ RunHonest(o) /\ RunMirrors(o)
    BY DEF SandboxInv, RunOK
  <2>2. RunShape(o)' /\ RunHonest(o)'
    BY <1>1, <1>5, <1>6, <2>1 DEF RunShape, RunHonest
  <2>3. RunMirrors(o)'
    <3>1. /\ runs'[o].copy = runs[o].copy /\ runs'[o].todo = runs[o].todo
          /\ runs'[o].at = runs[o].at /\ files' = files
          /\ ~runs'[o].shared => ~runs[o].shared
      BY <1>1, <1>5, <1>6
    <3> QED BY <2>1, <3>1 DEF RunMirrors
  <2> QED BY <2>2, <2>3 DEF RunOK
<1>7. SharingKnown'
  <2> SUFFICES ASSUME NEW o \in Execution, NEW q \in Execution, o # q,
                      X!InFlight(o)', X!InFlight(q)'
               PROVE  runs'[o].shared
    BY DEF SharingKnown
  <2>1. CASE o = e
    <3>1. q \in busy
      BY <1>5, <2>1 DEF X!InFlight
    <3> QED BY <1>2, <2>1, <3>1
  <2>2. CASE o # e
    <3>1. o \in busy
      BY <1>5, <2>2 DEF X!InFlight
    <3> QED BY <1>5, <2>2, <3>1
  <2> QED BY <2>1, <2>2
<1>8. RecordsMatch'
  <2> SUFFICES ASSUME NEW r \in recorded
               PROVE  /\ r.by \in Execution /\ runs'[r.by].at = "done"
                      /\ r.reason = runs'[r.by].reason /\ r.synced = runs'[r.by].synced
    BY <1>1 DEF RecordsMatch
  <2>1. /\ r.by \in Execution /\ runs[r.by].at = "done"
        /\ r.reason = runs[r.by].reason /\ r.synced = runs[r.by].synced
    BY DEF SandboxInv, RecordsMatch
  <2>2. r.by # e
    BY <1>1, <2>1
  <2> QED BY <1>5, <2>1, <2>2
<1> HIDE DEF busy
<1> QED BY <1>1, <1>4, <1>6, <1>7, <1>8 DEF SandboxInv

\* The daemon takes its runs with it; what they wrote and what was recorded stays.
LEMMA CrashKeeps ==
  ASSUME SandboxInv, X!Crash
  PROVE  SandboxInv'
<1>1. /\ UNCHANGED <<files, recorded, wrote>>
      /\ runs' = [e \in Execution |->
                    IF X!InFlight(e) THEN [runs[e] EXCEPT !.at = "lost"] ELSE runs[e]]
  BY DEF X!Crash
<1>2. ASSUME NEW e \in Execution
      PROVE  /\ DOMAIN runs'[e] = RunFields /\ runs'[e].copy = runs[e].copy
             /\ runs'[e].todo = runs[e].todo
             /\ runs'[e].reason = runs[e].reason /\ runs'[e].synced = runs[e].synced
             /\ runs'[e].whole = runs[e].whole /\ runs'[e].shared = runs[e].shared
             /\ X!InFlight(e) => runs'[e].at = "lost"
             /\ ~X!InFlight(e) => runs'[e].at = runs[e].at
  BY <1>1 DEF SandboxInv, RunOK, RunShape, RunFields
<1>3. ASSUME NEW e \in Execution PROVE RunOK(e)' /\ ~X!InFlight(e)'
  <2>1. RunOK(e)
    BY DEF SandboxInv
  <2>2. runs'[e].at \in {"idle", "done", "lost"}
    BY <1>2 DEF X!InFlight
  <2>3. RunShape(e)' /\ RunMirrors(e)'
    BY <1>2, <2>1, <2>2 DEF RunOK, RunShape, RunMirrors, Syncing
  <2>4. RunHonest(e)'
    BY <1>1, <1>2, <2>1, <2>2 DEF RunOK, RunHonest, Reading, Syncing, X!InFlight
  <2> QED BY <2>2, <2>3, <2>4 DEF RunOK, X!InFlight
<1>4. SharingKnown'
  BY <1>3 DEF SharingKnown
<1>5. RecordsMatch'
  BY <1>1, <1>2 DEF SandboxInv, RecordsMatch, X!InFlight
<1> QED BY <1>1, <1>3, <1>4, <1>5 DEF SandboxInv

\* Every step keeps the invariant of the sandbox.
LEMMA SandboxNextKeeps ==
  ASSUME SandboxBounds, SandboxInv, [X!SandboxNext]_(X!vars)
  PROVE  SandboxInv'
<1>1. CASE UNCHANGED X!vars
  BY <1>1 DEF X!vars, SandboxInv, RunOK, RunShape, RunHonest, RunMirrors, SharingKnown,
              RecordsMatch, X!InFlight
<1>2. ASSUME NEW e \in Execution,
             \/ X!Start(e) \/ X!Probe(e) \/ X!CopyIn(e) \/ X!RunCommand(e) \/ X!Survey(e)
             \/ X!Delete(e) \/ X!Update(e) \/ X!Record(e)
      PROVE  SandboxInv'
  BY <1>2, StartKeeps, ProbeKeeps, CopyInKeeps, RunCommandKeeps, SurveyKeeps, DeleteKeeps,
     UpdateKeeps, RecordKeepsRuns
<1> QED BY <1>1, <1>2, CrashKeeps DEF X!SandboxNext

\* Before any run there are plain files or none, and no evidence.
LEMMA SandboxStarts ==
  ASSUME SandboxBounds, X!Init
  PROVE  SandboxInv
<1>1. /\ DOMAIN runs = Execution /\ files \in [Path -> {None, Absent}]
      /\ recorded = {} /\ wrote = {}
      /\ \A e \in Execution : runs[e] = X!Idle
  BY DEF X!Init
<1>2. files \in [Path -> Content] /\ \A p \in Path : files[p] # Link
  BY <1>1 DEF Content, SandboxBounds
<1>3. ASSUME NEW e \in Execution PROVE RunOK(e) /\ ~X!InFlight(e)
  <2>1. /\ DOMAIN runs[e] = RunFields /\ runs[e].copy \in [Path -> Content]
        /\ runs[e].todo = {} /\ runs[e].at = "idle" /\ runs[e].synced = FALSE
    BY <1>1 DEF X!Idle, RunFields, Content
  <2> QED BY <1>1, <2>1 DEF RunOK, RunShape, RunHonest, RunMirrors, Reading, Syncing,
                            X!InFlight
<1> QED BY <1>1, <1>2, <1>3 DEF SandboxInv, SharingKnown, RecordsMatch

\* What a record lets one conclude follows from its run.
LEMMA EvidenceFollows ==
  ASSUME SandboxInv
  PROVE  X!EvidenceMatchesFiles
BY DEF SandboxInv, RecordsMatch, RunOK, RunHonest, X!EvidenceMatchesFiles, X!At

\* Whatever fails and whichever requests overlap: no record of a command that did not
\* succeed belongs to a run that wrote files, "synchronized" means that all of the copy
\* arrived unless another run was at work, who wrote and finished has a record, and no
\* command makes a link in the workspace.
THEOREM EvidenceHolds ==
  ASSUME SandboxBounds
  PROVE  X!SandboxSpec => []EvidenceMatchesFiles
<1>1. X!Init => SandboxInv
  BY SandboxStarts
<1>2. SandboxInv /\ [X!SandboxNext]_(X!vars) => SandboxInv'
  BY SandboxNextKeeps
<1>3. SandboxInv => EvidenceMatchesFiles
  <2>1. SandboxInv => X!SandboxTypeOK
    BY DEF SandboxInv, Content, RecordsMatch, RunOK, RunShape, X!SandboxTypeOK
  <2> QED BY <2>1, EvidenceFollows DEF EvidenceMatchesFiles
<1> QED BY <1>1, <1>2, <1>3, PTL DEF X!SandboxSpec

-----------------------------------------------------------------------------
(* The provider adapters: what is seen of an effect at its provider is its *)
(* own doing, and a request that was not sent did nothing.                 *)

\* One effect creates the branch; the marks and answers are values of their own.
AdapterBounds ==
  /\ \A a, b \in Effect : Kind(a) = "branch" /\ Kind(b) = "branch" => a = b
  /\ Approved \notin {Absent, "old", "new"} /\ Absent # "old"
  /\ None \notin {"ok", "refused"} /\ "chat" \notin Effect
  /\ "server_error" \notin Faults

AdapterPC == {"new", "prepared", "checked", "ask", "send", "waiting", "done"}
Unsent == {"new", "prepared", "checked", "ask", "send"}
AdapterAnswer == {"none", "receipt", "rejected", "unknown", "absent"}

AdapterShape ==
  /\ AdapterTypeOK
  /\ DOMAIN eff = Effect
  /\ \A e \in Effect : /\ DOMAIN eff[e] = {"pc", "head", "base", "answer"}
                       /\ eff[e].pc \in AdapterPC
                       /\ eff[e].answer # "none" <=> eff[e].pc = "done"
  /\ landed \in [Effect -> Nat]
  /\ reply \in [Effect -> {None, "ok", "refused"}]
  /\ \E T : posts \in Seq(T)
  /\ \A p \in pulls : DOMAIN p = {"by", "title", "head", "at", "onto", "open"}

\* A request that has not been sent has done nothing; one that is on its way has
\* done nothing yet and is answered when it lands, once.
RequestsOnce ==
  \A e \in Effect :
    /\ eff[e].pc \in Unsent => e \notin flight /\ reply[e] = None
    /\ eff[e].pc = "waiting" /\ reply[e] = None => e \in flight
    /\ e \in flight => reply[e] = None
    /\ reply[e] = "ok" <=> landed[e] > 0

\* What can be seen of an effect at its provider is its own doing.
TracesAreOwn ==
  /\ refs["change"] = Approved => \E e \in Effect : Kind(e) = "branch" /\ landed[e] > 0
  /\ \A p \in pulls : p.by \in Effect /\ Kind(p.by) = "draft" /\ landed[p.by] > 0
  /\ \A i \in DOMAIN posts : posts[i] \in Effect => landed[posts[i]] > 0

\* From the last look at its commits until its request lands, a draft's
\* branches are where they were, or it counts as drifted.
PinsWatched ==
  \A e \in Effect :
    /\ Kind(e) = "draft" /\ eff[e].pc # "new" => eff[e].head # Absent
    /\ Kind(e) = "draft" /\ (eff[e].pc \in {"ask", "send", "waiting"} \/ e \in flight)
         /\ e \notin drifted => PinsFresh(e)

AdapterInv ==
  AdapterShape /\ RequestsOnce /\ TracesAreOwn /\ PinsWatched /\ AnswersAreHonest /\ PinsHold

\* Whatever an adapter finds at its provider, its effect put there.
LEMMA FoundIsOwn ==
  ASSUME AdapterBounds, AdapterInv, NEW e \in Effect, Status(e) = "committed"
  PROVE  landed[e] > 0
<1>1. Kind(e) \in {"branch", "draft", "slack"}
  BY InputAssumption DEF Kind, InputType
<1>2. CASE Kind(e) = "branch"
  BY <1>2 DEF Status, AdapterInv, TracesAreOwn, AdapterBounds
<1>3. CASE Kind(e) = "draft"
  BY <1>3 DEF Status, Matches, AdapterInv, TracesAreOwn
<1>4. CASE Kind(e) = "slack"
  BY <1>4 DEF Status, Visible, AdapterInv, TracesAreOwn
<1> QED BY <1>1, <1>2, <1>3, <1>4

\* Nothing has been asked of any provider yet.
LEMMA AdapterStarts == AdapterBounds /\ Init => AdapterInv
<1> SUFFICES ASSUME AdapterBounds, Init PROVE AdapterInv
  OBVIOUS
<1>1. AdapterTypeOK
  BY DEF Init, AdapterTypeOK, Commit
<1>2. /\ DOMAIN eff = Effect
      /\ \A e \in Effect : eff[e] = [pc |-> "new", head |-> None, base |-> None, answer |-> "none"]
  BY DEF Init
<1>3. /\ landed \in [Effect -> Nat] /\ reply \in [Effect -> {None, "ok", "refused"}]
      /\ \A e \in Effect : landed[e] = 0 /\ reply[e] = None
  BY DEF Init
<1>4. posts = <<>> /\ \E T : posts \in Seq(T)
  BY DEF Init
<1>5. AdapterShape
  BY <1>1, <1>2, <1>3, <1>4, pulls = {} DEF AdapterShape, AdapterPC, Init
<1>6. flight = {} /\ pulls = {} /\ drifted = {} /\ refs["change"] = Absent
  BY DEF Init, Branch
<1>7. RequestsOnce
  BY <1>2, <1>3, <1>6 DEF RequestsOnce, AdapterBounds, Unsent
<1>8. TracesAreOwn
  BY <1>4, <1>6 DEF TracesAreOwn, AdapterBounds
<1>9. PinsWatched /\ AnswersAreHonest /\ PinsHold
  BY <1>2, <1>6 DEF PinsWatched, AnswersAreHonest, PinsHold
<1> QED BY <1>5, <1>7, <1>8, <1>9 DEF AdapterInv

\* A step of one adapter that changes nothing at the providers but what is on
\* its way: it moves on, and tells the truth when it answers.
LEMMA AdapterMoves ==
  ASSUME AdapterBounds, AdapterInv, NEW e \in Effect, NEW pc \in AdapterPC, NEW head, NEW base,
         NEW answer \in AdapterAnswer,
         eff' = [eff EXCEPT ![e] = [pc |-> pc, head |-> head, base |-> base, answer |-> answer]],
         UNCHANGED <<remoteVars, reply, landed>>,
         flight' \subseteq Effect, \A f \in Effect \ {e} : f \in flight' <=> f \in flight,
         \A f \in Effect \ {e} : f \in drifted => f \in drifted',
         answer # "none" <=> pc = "done",
         pc \in Unsent => e \notin flight' /\ reply[e] = None,
         pc = "waiting" /\ reply[e] = None => e \in flight',
         e \in flight' => reply[e] = None,
         answer = "receipt" => landed[e] > 0,
         answer = "rejected" => landed[e] = 0 /\ e \notin flight',
         Kind(e) = "draft" /\ pc # "new" => head # Absent,
         Kind(e) = "draft" /\ (pc \in {"ask", "send", "waiting"} \/ e \in flight')
           /\ e \notin drifted' => ReadRef(HeadRef(e)) = head /\ ReadRef("main") = base,
         landed[e] > 0 => head = eff[e].head /\ base = eff[e].base /\ (e \in drifted => e \in drifted')
  PROVE  AdapterInv'
<1> DEFINE r == [pc |-> pc, head |-> head, base |-> base, answer |-> answer]
<1>1. /\ DOMAIN r = {"pc", "head", "base", "answer"} /\ r.pc = pc /\ r.head = head
      /\ r.base = base /\ r.answer = answer
  OBVIOUS
<1> HIDE DEF r
<1>2. /\ AdapterShape /\ UNCHANGED <<refs, pulls, posts, reply, landed>>
      /\ eff' = [eff EXCEPT ![e] = r]
  BY DEF AdapterInv, remoteVars, r
<1>3. /\ DOMAIN eff' = Effect /\ eff'[e] = r
      /\ \A f \in Effect \ {e} : eff'[f] = eff[f]
  BY <1>2 DEF AdapterShape
<1>4. AdapterShape'
  <2>1. AdapterTypeOK'
    BY <1>1, <1>2, <1>3 DEF AdapterShape, AdapterTypeOK, AdapterAnswer
  <2> QED BY <1>1, <1>2, <1>3, <2>1 DEF AdapterShape
<1>5. RequestsOnce'
  BY <1>1, <1>2, <1>3 DEF AdapterInv, RequestsOnce
<1>6. TracesAreOwn'
  BY <1>2 DEF AdapterInv, TracesAreOwn
<1>7. PinsWatched'
  BY <1>1, <1>2, <1>3 DEF AdapterInv, PinsWatched, PinsFresh, ReadRef
<1>8. AnswersAreHonest'
  BY <1>1, <1>2, <1>3 DEF AdapterInv, AnswersAreHonest
<1>9. PinsHold'
  BY <1>1, <1>2, <1>3 DEF AdapterInv, PinsHold, TracesAreOwn
<1> QED BY <1>4, <1>5, <1>6, <1>7, <1>8, <1>9 DEF AdapterInv

\* A record with two fields replaced, written out.
LEMMA RecordIs ==
  ASSUME NEW r, DOMAIN r = {"pc", "head", "base", "answer"}, NEW a
  PROVE  [r EXCEPT !.pc = "done", !.answer = a] =
              [pc |-> "done", head |-> r.head, base |-> r.base, answer |-> a]
<1> DEFINE s == [r EXCEPT !.pc = "done"]
<1>1. s = [pc |-> "done", head |-> r.head, base |-> r.base, answer |-> r.answer]
  OBVIOUS
<1>2. [r EXCEPT !.pc = "done", !.answer = a] = [s EXCEPT !.answer = a]
  BY Zenon
<1> HIDE DEF s
<1>3. [s EXCEPT !.answer = a] = [pc |-> "done", head |-> r.head, base |-> r.base, answer |-> a]
  BY <1>1
<1> QED BY <1>2, <1>3

\* The record of one effect, written out.
LEMMA EffIs ==
  ASSUME AdapterShape, NEW e \in Effect
  PROVE  /\ \A pc : Goto(e, pc) =>
              eff' = [eff EXCEPT ![e] = [pc |-> pc, head |-> eff[e].head, base |-> eff[e].base,
                                         answer |-> eff[e].answer]]
         /\ \A a : Answer(e, a) =>
              eff' = [eff EXCEPT ![e] = [pc |-> "done", head |-> eff[e].head,
                                         base |-> eff[e].base, answer |-> a]]
         /\ PrepareDraft(e) =>
              eff' = [eff EXCEPT ![e] = [pc |-> "prepared",
                                         head |-> IF Bound(e) THEN Approved ELSE ReadRef(HeadRef(e)),
                                         base |-> ReadRef("main"), answer |-> eff[e].answer]]
<1>1. e \in DOMAIN eff /\ DOMAIN eff[e] = {"pc", "head", "base", "answer"}
  BY DEF AdapterShape
<1>2. ASSUME NEW pc, Goto(e, pc)
      PROVE  eff' = [eff EXCEPT ![e] = [pc |-> pc, head |-> eff[e].head, base |-> eff[e].base,
                                        answer |-> eff[e].answer]]
  <2>1. eff' = [eff EXCEPT ![e] = [eff[e] EXCEPT !.pc = pc]]
    BY <1>2 DEF Goto
  <2>2. [eff[e] EXCEPT !.pc = pc] = [pc |-> pc, head |-> eff[e].head, base |-> eff[e].base,
                                     answer |-> eff[e].answer]
    BY <1>1
  <2> QED BY <2>1, <2>2
<1>3. ASSUME NEW a, Answer(e, a)
      PROVE  eff' = [eff EXCEPT ![e] = [pc |-> "done", head |-> eff[e].head,
                                        base |-> eff[e].base, answer |-> a]]
  <2>1. eff' = [eff EXCEPT ![e] = [eff[e] EXCEPT !.pc = "done", !.answer = a]]
    BY <1>1, <1>3 DEF Answer
  <2>2. [eff[e] EXCEPT !.pc = "done", !.answer = a] =
          [pc |-> "done", head |-> eff[e].head, base |-> eff[e].base, answer |-> a]
    BY <1>1, RecordIs
  <2> QED BY <2>1, <2>2
<1> DEFINE h == IF Bound(e) THEN Approved ELSE ReadRef(HeadRef(e))
           b == ReadRef("main")
<1>4. ASSUME PrepareDraft(e)
      PROVE  eff' = [eff EXCEPT ![e] = [pc |-> "prepared", head |-> h, base |-> b,
                                        answer |-> eff[e].answer]]
  <2>1. eff' = [eff EXCEPT ![e] = [eff[e] EXCEPT !.pc = "prepared", !.base = b, !.head = h]]
    BY <1>1, <1>4 DEF PrepareDraft
  <2> HIDE DEF h, b
  <2>2. [eff[e] EXCEPT !.pc = "prepared", !.base = b, !.head = h] =
          [pc |-> "prepared", head |-> h, base |-> b, answer |-> eff[e].answer]
    <3> DEFINE r == eff[e]
    <3>1. DOMAIN r = {"pc", "head", "base", "answer"}
      BY <1>1
    <3> HIDE DEF r
    <3>2. [r EXCEPT !.pc = "prepared", !.base = b, !.head = h] =
            [pc |-> "prepared", head |-> h, base |-> b, answer |-> r.answer]
      <4> DEFINE s == [r EXCEPT !.pc = "prepared"]
                 t == [s EXCEPT !.base = b]
      <4>1. s = [pc |-> "prepared", head |-> r.head, base |-> r.base, answer |-> r.answer]
        BY <3>1
      <4>2. [r EXCEPT !.pc = "prepared", !.base = b, !.head = h] = [t EXCEPT !.head = h]
        BY Zenon
      <4> HIDE DEF s
      <4>3. t = [pc |-> "prepared", head |-> r.head, base |-> b, answer |-> r.answer]
        BY <4>1
      <4> HIDE DEF t
      <4>4. [t EXCEPT !.head = h] = [pc |-> "prepared", head |-> h, base |-> b, answer |-> r.answer]
        BY <4>3
      <4> QED BY <4>2, <4>4
    <3> QED BY <3>2 DEF r
  <2> QED BY <2>1, <2>2
<1> QED BY <1>2, <1>3, <1>4

\* As long as its request has not been sent, an adapter moves on or gives up.
LEMMA UnsentMoves ==
  ASSUME AdapterBounds, AdapterInv, NEW e \in Effect, NEW pc \in AdapterPC, NEW head, NEW base,
         NEW answer \in {"none", "rejected", "unknown"},
         eff' = [eff EXCEPT ![e] = [pc |-> pc, head |-> head, base |-> base, answer |-> answer]],
         eff[e].pc \in Unsent, UNCHANGED <<remoteVars, reply, landed>>, flight' = flight,
         drifted' \in {drifted, drifted \ {e}}, pc # "waiting", answer # "none" <=> pc = "done",
         Kind(e) = "draft" /\ pc # "new" => head # Absent,
         Kind(e) = "draft" /\ pc \in {"ask", "send"} /\ e \notin drifted' =>
           ReadRef(HeadRef(e)) = head /\ ReadRef("main") = base
  PROVE  AdapterInv'
<1>1. /\ e \notin flight /\ reply[e] = None /\ AdapterShape
      /\ reply[e] = "ok" <=> landed[e] > 0
  BY DEF AdapterInv, RequestsOnce
<1>2. landed[e] \in Nat /\ ~(landed[e] > 0)
  BY <1>1 DEF AdapterShape, AdapterBounds
<1>3. landed[e] = 0
  BY <1>2
<1>4. answer \in AdapterAnswer /\ answer # "receipt"
  BY DEF AdapterAnswer
<1>5. /\ flight' \subseteq Effect
      /\ \A f \in Effect \ {e} : f \in flight' <=> f \in flight
      /\ e \notin flight'
  BY <1>1 DEF AdapterShape, AdapterTypeOK
<1>6. \A f \in Effect \ {e} : f \in drifted => f \in drifted'
  OBVIOUS
<1>7. pc \in Unsent => e \notin flight' /\ reply[e] = None
  BY <1>1, <1>5
<1>8. pc = "waiting" /\ reply[e] = None => e \in flight'
  OBVIOUS
<1>9. e \in flight' => reply[e] = None
  BY <1>1
<1>10. answer = "receipt" => landed[e] > 0
  BY <1>4
<1>11. answer = "rejected" => landed[e] = 0 /\ e \notin flight'
  BY <1>3, <1>5
<1>12. Kind(e) = "draft" /\ (pc \in {"ask", "send", "waiting"} \/ e \in flight')
         /\ e \notin drifted' => ReadRef(HeadRef(e)) = head /\ ReadRef("main") = base
  BY <1>5
<1>13. landed[e] > 0 =>
         head = eff[e].head /\ base = eff[e].base /\ (e \in drifted => e \in drifted')
  BY <1>2
<1> QED
  BY <1>4, <1>5, <1>6, <1>7, <1>8, <1>9, <1>10, <1>11, <1>12, <1>13, AdapterMoves, Zenon

\* Preparing a draft pins the commits it will join.
LEMMA PrepareKeeps ==
  ASSUME AdapterBounds, AdapterInv, NEW e \in Effect, Prepare(e)
  PROVE  AdapterInv'
<1>1. /\ eff[e].pc = "new" /\ eff[e].answer = "none" /\ AdapterShape
      /\ UNCHANGED <<remoteVars, reply, landed>> /\ flight' = flight /\ drifted' = drifted
  BY DEF Prepare, At, AdapterInv, AdapterShape
<1>2. ASSUME NEW head, NEW base,
             eff' = [eff EXCEPT ![e] = [pc |-> "prepared", head |-> head, base |-> base,
                                        answer |-> "none"]],
             Kind(e) = "draft" => head # Absent
      PROVE  AdapterInv'
  <2>1. "prepared" \in AdapterPC /\ eff[e].pc \in Unsent
    BY <1>1 DEF AdapterPC, Unsent
  <2>2. "none" \in {"none", "rejected", "unknown"} /\ "prepared" # "waiting"
    OBVIOUS
  <2>3. "none" # "none" <=> "prepared" = "done"
    OBVIOUS
  <2>4. drifted' \in {drifted, drifted \ {e}}
    BY <1>1
  <2>5. Kind(e) = "draft" /\ "prepared" \in {"ask", "send"} /\ e \notin drifted' =>
          ReadRef(HeadRef(e)) = head /\ ReadRef("main") = base
    OBVIOUS
  <2> QED BY <1>1, <1>2, <2>1, <2>2, <2>3, <2>4, <2>5, UnsentMoves, Zenon
<1>3. CASE PrepareDraft(e)
  <2> DEFINE h == IF Bound(e) THEN Approved ELSE ReadRef(HeadRef(e))
  <2>1. eff' = [eff EXCEPT ![e] = [pc |-> "prepared", head |-> h, base |-> ReadRef("main"),
                                   answer |-> eff[e].answer]]
    BY <1>1, <1>3, EffIs
  <2>2. h # Absent
    BY <1>3 DEF PrepareDraft, AdapterBounds
  <2> HIDE DEF h
  <2> QED BY <1>1, <1>2, <2>1, <2>2
<1>4. CASE Kind(e) # "draft" /\ Goto(e, "prepared")
  <2>1. eff' = [eff EXCEPT ![e] = [pc |-> "prepared", head |-> eff[e].head, base |-> eff[e].base,
                                   answer |-> eff[e].answer]]
    BY <1>1, <1>4, EffIs
  <2> QED BY <1>1, <1>2, <1>4, <2>1
<1> QED BY <1>3, <1>4 DEF Prepare, PrepareBranch, PrepareSlack

\* The checks before publishing and the last question: what has not been sent is
\* found at no provider.
LEMMA CheckKeeps ==
  ASSUME AdapterBounds, AdapterInv, NEW e \in Effect, PreCommit(e) \/ Fresh(e) \/ Ask(e)
  PROVE  AdapterInv'
<1>1. /\ eff[e].pc \in {"prepared", "checked", "ask"}
      /\ UNCHANGED <<remoteVars, reply, landed>> /\ flight' = flight
      /\ drifted' \in {drifted, drifted \ {e}}
  BY DEF PreCommit, Fresh, Ask, At
<1>2. /\ eff[e].pc \in Unsent /\ eff[e].answer = "none" /\ AdapterShape
      /\ Kind(e) = "draft" => eff[e].head # Absent
  BY <1>1 DEF Unsent, AdapterInv, AdapterShape, PinsWatched
<1>3. ~(landed[e] > 0)
  BY <1>2 DEF AdapterInv, RequestsOnce, AdapterBounds
<1>4. ASSUME NEW pc \in {"checked", "ask", "send"}, Goto(e, pc),
             Kind(e) = "draft" /\ pc # "checked" /\ e \notin drifted' => PinsFresh(e)
      PROVE  AdapterInv'
  <2>1. eff' = [eff EXCEPT ![e] = [pc |-> pc, head |-> eff[e].head, base |-> eff[e].base,
                                   answer |-> "none"]]
    BY <1>2, <1>4, EffIs
  <2>2. pc \in AdapterPC /\ pc # "waiting" /\ pc # "done"
    BY DEF AdapterPC
  <2>3. Kind(e) = "draft" /\ pc \in {"ask", "send"} /\ e \notin drifted' =>
          ReadRef(HeadRef(e)) = eff[e].head /\ ReadRef("main") = eff[e].base
    BY <1>4 DEF PinsFresh
  <2> QED BY <1>1, <1>2, <2>1, <2>2, <2>3, UnsentMoves
<1>5. ASSUME NEW a \in {"rejected", "unknown"}, Answer(e, a)
      PROVE  AdapterInv'
  <2>1. eff' = [eff EXCEPT ![e] = [pc |-> "done", head |-> eff[e].head, base |-> eff[e].base,
                                   answer |-> a]]
    BY <1>2, <1>5, EffIs
  <2>2. "done" \in AdapterPC /\ a \in {"none", "rejected", "unknown"} /\ a # "none"
    BY DEF AdapterPC
  <2> QED BY <1>1, <1>2, <2>1, <2>2, UnsentMoves
<1>6. CASE PreCommit(e)
  <2>1. Goto(e, "checked")
    BY <1>6 DEF PreCommit
  <2> QED BY <1>4, <2>1
<1>7. CASE Fresh(e)
  BY <1>4, <1>5, <1>7 DEF Fresh
\* Nothing that has not been sent is found at the provider.
<1>8. CASE Ask(e)
  <2>1. Kind(e) = "draft" /\ e \notin drifted' => PinsFresh(e)
    BY <1>8 DEF Ask, At, AdapterInv, PinsWatched
  <2>2. Status(e) # "committed"
    BY <1>3, FoundIsOwn
  <2> QED BY <1>4, <1>5, <1>8, <2>1, <2>2 DEF Ask
<1> QED BY <1>6, <1>7, <1>8

\* The request leaves while its branches are watched.
LEMMA SendKeeps ==
  ASSUME AdapterBounds, AdapterInv, NEW e \in Effect, Send(e)
  PROVE  AdapterInv'
<1>1. /\ eff[e].pc = "send" /\ eff[e].answer = "none" /\ reply[e] = None
      /\ landed[e] = 0 /\ AdapterShape /\ UNCHANGED <<remoteVars, reply, landed, drifted>>
      /\ flight' = flight \cup {e} /\ Goto(e, "waiting")
      /\ Kind(e) = "draft" => eff[e].head # Absent /\ (e \notin drifted => PinsFresh(e))
  BY DEF Send, At, AdapterInv, AdapterShape, RequestsOnce, AdapterBounds, Unsent, PinsWatched
<1>2. eff' = [eff EXCEPT ![e] = [pc |-> "waiting", head |-> eff[e].head, base |-> eff[e].base,
                                 answer |-> "none"]]
  BY <1>1, EffIs
<1>3. "waiting" \in AdapterPC /\ "none" \in AdapterAnswer /\ "waiting" \notin Unsent
  BY DEF AdapterPC, AdapterAnswer, Unsent
<1>4. flight' \subseteq Effect /\ e \in flight' /\ \A f \in Effect \ {e} : f \in flight' <=> f \in flight
  BY <1>1 DEF AdapterShape, AdapterTypeOK
<1>5. Kind(e) = "draft" /\ e \notin drifted' =>
        ReadRef(HeadRef(e)) = eff[e].head /\ ReadRef("main") = eff[e].base
  BY <1>1 DEF PinsFresh
<1> QED BY <1>1, <1>2, <1>3, <1>4, <1>5, AdapterMoves

\* An answer, or its absence, ends the wait; asking again ends the doubt.
LEMMA AnswerKeeps ==
  ASSUME AdapterBounds, AdapterInv, NEW e \in Effect, Receive(e) \/ Timeout(e) \/ Recover(e)
  PROVE  AdapterInv'
<1>1. /\ eff[e].pc \in {"waiting", "done"} /\ AdapterShape
      /\ UNCHANGED <<remoteVars, reply, landed, drifted>>
      /\ flight' \in {flight, flight \ {e}}
      /\ Kind(e) = "draft" => eff[e].head # Absent
  BY DEF Receive, Timeout, Recover, At, AdapterInv, PinsWatched
<1>2. PICK a \in AdapterAnswer :
        /\ Answer(e, a) /\ a # "none" /\ (a = "receipt" => landed[e] > 0)
        /\ a = "rejected" => landed[e] = 0 /\ e \notin flight'
  <2>1. CASE Receive(e)
    <3>1. PICK a \in IF Kind(e) = "branch" THEN PushAnswer(e) ELSE RequestAnswer(e) : Answer(e, a)
      BY <2>1 DEF Receive
    <3>2. reply[e] # None /\ e \notin flight' /\ reply[e] \in {"ok", "refused"}
      BY <1>1, <2>1 DEF Receive, AdapterInv, AdapterShape, RequestsOnce
    <3>3. reply[e] = "ok" <=> landed[e] > 0
      BY DEF AdapterInv, RequestsOnce
    <3>4. landed[e] \in Nat
      BY <1>1 DEF AdapterShape
    <3>5. /\ a \in {"receipt", "rejected", "unknown"} /\ (a = "receipt" => reply[e] = "ok")
          /\ a = "rejected" => reply[e] # "ok"
      BY <3>1 DEF PushAnswer, RequestAnswer, AdapterBounds
    <3> QED BY <3>1, <3>2, <3>3, <3>4, <3>5 DEF AdapterAnswer
  <2>2. CASE Timeout(e)
    BY <2>2, "unknown" \in AdapterAnswer DEF Timeout, AdapterAnswer
  <2>3. CASE Recover(e)
    <3>1. Status(e) = "committed" => landed[e] > 0
      BY FoundIsOwn
    <3> QED BY <2>3, <3>1 DEF Recover, AdapterAnswer
  <2> QED BY <2>1, <2>2, <2>3
<1>3. eff' = [eff EXCEPT ![e] = [pc |-> "done", head |-> eff[e].head, base |-> eff[e].base,
                                 answer |-> a]]
  BY <1>1, <1>2, EffIs
<1>4. "done" \in AdapterPC /\ "done" \notin Unsent
  BY DEF AdapterPC, Unsent
<1>5. /\ flight' \subseteq Effect /\ \A f \in Effect \ {e} : f \in flight' <=> f \in flight
      /\ e \in flight' => e \in flight
  BY <1>1 DEF AdapterShape, AdapterTypeOK
<1>6. e \in flight' => reply[e] = None
  BY <1>5 DEF AdapterInv, RequestsOnce
<1>7. Kind(e) = "draft" /\ e \in flight' /\ e \notin drifted' =>
        ReadRef(HeadRef(e)) = eff[e].head /\ ReadRef("main") = eff[e].base
  BY <1>1, <1>5 DEF PinsFresh, AdapterInv, PinsWatched
<1> QED BY <1>1, <1>2, <1>3, <1>4, <1>5, <1>6, <1>7, AdapterMoves

\* A request that lands leaves its mark and is answered; one that is refused
\* is answered without a mark.
LEMMA LandKeeps ==
  ASSUME AdapterBounds, AdapterInv, NEW e \in Effect, Land(e)
  PROVE  AdapterInv'
<1>1. /\ e \in flight /\ flight' = flight \ {e} /\ UNCHANGED <<eff, drifted>>
      /\ AdapterShape
  BY DEF Land, AdapterInv
<1>2. eff[e].pc \notin Unsent /\ reply[e] = None /\ eff[e].answer # "rejected"
  BY <1>1 DEF AdapterInv, RequestsOnce, AnswersAreHonest
<1>3. landed[e] \in Nat /\ ~(landed[e] > 0)
  BY <1>1, <1>2 DEF AdapterInv, AdapterShape, RequestsOnce, AdapterBounds
<1>4. flight' \subseteq Effect /\ e \notin flight'
  BY <1>1 DEF AdapterShape, AdapterTypeOK
<1>5. CASE Refuse(e)
  <2>1. /\ UNCHANGED <<refs, pulls, posts, landed>>
        /\ reply' = [reply EXCEPT ![e] = "refused"]
    BY <1>5 DEF Refuse, remoteVars
  <2>2. AdapterShape'
    BY <1>1, <1>4, <2>1 DEF AdapterShape, AdapterTypeOK
  <2>3. reply'[e] = "refused" /\ \A f \in Effect \ {e} : reply'[f] = reply[f]
    BY <1>1, <2>1 DEF AdapterShape
  <2>4. RequestsOnce'
    BY <1>1, <1>2, <1>3, <2>1, <2>3 DEF AdapterInv, RequestsOnce, AdapterBounds
  <2>5. TracesAreOwn' /\ PinsHold'
    BY <1>1, <2>1 DEF AdapterInv, TracesAreOwn, PinsHold
  <2>6. PinsWatched'
    BY <1>1, <2>1 DEF AdapterInv, PinsWatched, PinsFresh, ReadRef
  <2>7. AnswersAreHonest'
    BY <1>1, <2>1 DEF AdapterInv, AnswersAreHonest
  <2> QED BY <2>2, <2>4, <2>5, <2>6, <2>7 DEF AdapterInv
<1>6. ASSUME Done(e)
      PROVE  /\ landed' \in [Effect -> Nat] /\ reply' \in [Effect -> {None, "ok", "refused"}]
             /\ landed'[e] > 0 /\ \A f \in Effect : landed[f] > 0 => landed'[f] > 0
             /\ RequestsOnce' /\ AnswersAreHonest'
  <2>1. /\ landed' \in [Effect -> Nat] /\ landed'[e] > 0
        /\ \A f \in Effect \ {e} : landed'[f] = landed[f]
    BY <1>1, <1>3, <1>6 DEF Done, AdapterShape
  <2>2. /\ reply' \in [Effect -> {None, "ok", "refused"}] /\ reply'[e] = "ok"
        /\ \A f \in Effect \ {e} : reply'[f] = reply[f]
    BY <1>1, <1>6 DEF Done, AdapterShape
  <2>3. RequestsOnce'
    BY <1>1, <1>2, <2>1, <2>2 DEF AdapterInv, RequestsOnce, AdapterBounds
  <2>4. AnswersAreHonest'
    BY <1>1, <1>2, <1>3, <2>1 DEF AdapterInv, AnswersAreHonest
  <2> QED BY <1>3, <2>1, <2>2, <2>3, <2>4
\* The created branch was missing, so no draft watches it.
<1>7. CASE /\ Kind(e) = "branch" /\ refs["change"] = Absent
           /\ refs' = [refs EXCEPT !["change"] = Approved] /\ Done(e) /\ UNCHANGED <<pulls, posts>>
  <2>1. /\ refs' \in [Branch -> Commit \cup {Absent}]
        /\ \A b \in Branch \ {"change"} : refs'[b] = refs[b]
    BY <1>1, <1>7 DEF AdapterShape, AdapterTypeOK, Commit
  <2>2. AdapterShape'
    BY <1>1, <1>4, <1>6, <1>7, <2>1 DEF AdapterShape, AdapterTypeOK
  <2>3. TracesAreOwn'
    BY <1>6, <1>7 DEF AdapterInv, TracesAreOwn
  <2>4. PinsWatched'
    <3> SUFFICES ASSUME NEW f \in Effect,
                        Kind(f) = "draft", f \notin drifted,
                        eff[f].pc \in {"ask", "send", "waiting"} \/ f \in flight
                 PROVE  PinsFresh(f)'
      BY <1>1 DEF AdapterInv, PinsWatched
    <3>1. eff[f].pc # "new"
      BY DEF AdapterInv, RequestsOnce, Unsent
    <3>2. PinsFresh(f) /\ eff[f].head # Absent
      BY <3>1 DEF AdapterInv, PinsWatched
    <3>3. HeadRef(f) \in Branch \ {"change"} /\ "main" \in Branch \ {"change"}
      BY <1>7, <3>2, InputAssumption DEF PinsFresh, ReadRef, HeadRef, InputType, Branch
    <3> QED BY <1>1, <2>1, <3>2, <3>3 DEF PinsFresh, ReadRef
  <2>5. PinsHold'
    BY <1>1, <1>7 DEF AdapterInv, PinsHold
  <2> QED BY <1>6, <1>7, <2>2, <2>3, <2>4, <2>5 DEF AdapterInv
<1>8. ASSUME UNCHANGED refs
      PROVE  PinsWatched'
  BY <1>1, <1>8 DEF AdapterInv, PinsWatched, PinsFresh, ReadRef
<1> DEFINE q == [by |-> e, title |-> "ours", head |-> HeadRef(e),
                 at |-> refs[HeadRef(e)], onto |-> refs["main"], open |-> TRUE]
\* The request arrives while its branches are watched.
<1>9. CASE Kind(e) = "draft" /\ pulls' = pulls \cup {q} /\ Done(e) /\ UNCHANGED <<refs, posts>>
  <2>1. /\ DOMAIN q = {"by", "title", "head", "at", "onto", "open"} /\ q.by = e
        /\ q.at = refs[HeadRef(e)] /\ q.onto = refs["main"]
    OBVIOUS
  <2> HIDE DEF q
  <2>2. AdapterShape'
    BY <1>1, <1>4, <1>6, <1>9, <2>1 DEF AdapterShape, AdapterTypeOK
  <2>3. TracesAreOwn'
    BY <1>6, <1>9, <2>1 DEF AdapterInv, TracesAreOwn
  <2>4. e \notin drifted => q.at = eff[e].head /\ q.onto = eff[e].base
    BY <1>1, <1>9, <2>1 DEF AdapterInv, PinsWatched, PinsFresh, ReadRef
  <2>5. PinsHold'
    BY <1>1, <1>9, <2>1, <2>4 DEF AdapterInv, PinsHold
  <2> QED BY <1>6, <1>8, <1>9, <2>2, <2>3, <2>5 DEF AdapterInv
<1>10. CASE Kind(e) = "slack" /\ posts' = Append(posts, e) /\ Done(e) /\ UNCHANGED <<refs, pulls>>
  <2>1. PICK T : posts \in Seq(T)
    BY <1>1 DEF AdapterShape
  <2>2. posts \in Seq(T \cup {e})
    BY <2>1
  <2>3. /\ posts' \in Seq(T \cup {e})
        /\ \A i \in DOMAIN posts' : (i \in DOMAIN posts /\ posts'[i] = posts[i]) \/ posts'[i] = e
    BY <1>10, <2>2
  <2>4. AdapterShape'
    BY <1>1, <1>4, <1>6, <1>10, <2>3 DEF AdapterShape, AdapterTypeOK
  <2>5. TracesAreOwn'
    BY <1>6, <1>10, <2>3 DEF AdapterInv, TracesAreOwn
  <2>6. PinsHold'
    BY <1>1, <1>10 DEF AdapterInv, PinsHold
  <2> QED BY <1>6, <1>8, <1>10, <2>4, <2>5, <2>6 DEF AdapterInv
<1> HIDE DEF q
<1>11. Refuse(e) \/ (~Refuse(e) /\ (LandPush(e) \/ LandPull(e) \/ LandPost(e)))
  BY DEF Land
<1> QED BY <1>5, <1>7, <1>9, <1>10, <1>11 DEF LandPush, LandPull, LandPost, q

\* Strangers push, edit and chat, but push no approved commit and post under
\* nobody's mark; a branch they move under a watched draft makes it drift.
LEMMA StrangerKeeps ==
  ASSUME AdapterBounds, AdapterInv, Stranger
  PROVE  AdapterInv'
<1>1. UNCHANGED <<flight, reply, eff, landed>> /\ AdapterShape
  BY DEF Stranger, AdapterInv
<1>2. RequestsOnce' /\ AnswersAreHonest'
  BY <1>1 DEF AdapterInv, RequestsOnce, AnswersAreHonest
<1>3. ASSUME NEW b \in Branch, MoveRef(b)
      PROVE  AdapterInv'
  <2>1. PICK c \in {"new", Absent} : refs' = [refs EXCEPT ![b] = c]
    BY <1>3 DEF MoveRef
  <2>2. /\ refs' \in [Branch -> Commit \cup {Absent}] /\ refs'[b] # Approved
        /\ \A a \in Branch \ {b} : refs'[a] = refs[a]
    BY <1>1, <1>3, <2>1 DEF AdapterShape, AdapterTypeOK, Commit, AdapterBounds
  <2>3. UNCHANGED <<pulls, posts>> /\ drifted \subseteq drifted'
    BY <1>3 DEF MoveRef
  <2>4. AdapterShape'
    BY <1>1, <2>2, <2>3 DEF AdapterShape, AdapterTypeOK
  <2>5. TracesAreOwn'
    BY <1>1, <2>2, <2>3, "change" \in Branch DEF AdapterInv, TracesAreOwn, Branch
  <2>6. PinsWatched'
    <3> SUFFICES ASSUME NEW f \in Effect,
                        Kind(f) = "draft", f \notin drifted',
                        eff[f].pc \in {"ask", "send", "waiting"} \/ f \in flight
                 PROVE  PinsFresh(f)'
      BY <1>1 DEF AdapterInv, PinsWatched
    <3>1. eff[f].pc \in {"ask", "send", "waiting"} /\ b \notin {HeadRef(f), "main"}
      BY <1>3 DEF MoveRef, Looking
    <3>2. PinsFresh(f)
      BY <2>3, <3>1 DEF AdapterInv, PinsWatched
    <3>3. HeadRef(f) \in Branch /\ "main" \in Branch
      BY InputAssumption DEF HeadRef, InputType, Branch
    <3> QED BY <1>1, <2>2, <3>1, <3>2, <3>3 DEF PinsFresh, ReadRef
  <2>7. PinsHold'
    BY <1>1, <2>3 DEF AdapterInv, PinsHold
  <2> QED BY <1>2, <2>4, <2>5, <2>6, <2>7 DEF AdapterInv
<1>4. ASSUME UNCHANGED <<refs, drifted>>
      PROVE  PinsWatched'
  BY <1>1, <1>4 DEF AdapterInv, PinsWatched, PinsFresh, ReadRef
<1>5. CASE EditPull
  <2>1. PICK p \in pulls : \E q \in {[p EXCEPT !.open = FALSE], [p EXCEPT !.title = "edited"]} :
                             pulls' = (pulls \ {p}) \cup {q}
    BY <1>5 DEF EditPull
  <2>2. PICK q \in {[p EXCEPT !.open = FALSE], [p EXCEPT !.title = "edited"]} :
          pulls' = (pulls \ {p}) \cup {q}
    BY <2>1
  <2>3. DOMAIN p = {"by", "title", "head", "at", "onto", "open"}
    BY <1>1 DEF AdapterShape
  <2>4. DOMAIN q = DOMAIN p /\ q.by = p.by /\ q.at = p.at /\ q.onto = p.onto
    BY <2>3
  <2>5. UNCHANGED <<refs, posts, drifted>>
    BY <1>5 DEF EditPull
  <2>6. AdapterShape'
    BY <1>1, <2>2, <2>3, <2>4, <2>5 DEF AdapterShape, AdapterTypeOK
  <2>7. TracesAreOwn'
    BY <1>1, <2>2, <2>4, <2>5 DEF AdapterInv, TracesAreOwn
  <2>8. PinsHold'
    BY <1>1, <2>2, <2>4, <2>5 DEF AdapterInv, PinsHold
  <2> QED BY <1>2, <1>4, <2>5, <2>6, <2>7, <2>8 DEF AdapterInv
<1>6. CASE Chat
  <2>1. PICK T : posts \in Seq(T)
    BY <1>1 DEF AdapterShape
  <2>2. posts \in Seq(T \cup {"chat"})
    BY <2>1
  <2>3. /\ posts' \in Seq(T \cup {"chat"})
        /\ \A i \in DOMAIN posts' :
             (i \in DOMAIN posts /\ posts'[i] = posts[i]) \/ posts'[i] = "chat"
    BY <1>6, <2>2 DEF Chat
  <2>4. UNCHANGED <<refs, pulls, drifted>>
    BY <1>6 DEF Chat
  <2>5. AdapterShape'
    BY <1>1, <2>3, <2>4 DEF AdapterShape, AdapterTypeOK
  <2>6. TracesAreOwn'
    BY <1>1, <2>3, <2>4 DEF AdapterInv, TracesAreOwn, AdapterBounds
  <2>7. PinsHold'
    BY <1>1, <2>4 DEF AdapterInv, PinsHold
  <2> QED BY <1>2, <1>4, <2>4, <2>5, <2>6, <2>7 DEF AdapterInv
<1> QED BY <1>3, <1>5, <1>6 DEF Stranger

\* Every step of an adapter, a provider or a stranger keeps the invariant.
LEMMA AdapterNextKeeps == AdapterBounds /\ AdapterInv /\ [AdapterNext]_vars => AdapterInv'
<1> SUFFICES ASSUME AdapterBounds, AdapterInv, [AdapterNext]_vars PROVE AdapterInv'
  OBVIOUS
<1>1. CASE Stranger
  BY <1>1, StrangerKeeps
<1>2. ASSUME NEW e \in Effect,
             \/ Prepare(e) \/ PreCommit(e) \/ Fresh(e) \/ Ask(e) \/ Send(e)
             \/ Land(e) \/ Receive(e) \/ Timeout(e) \/ Recover(e)
      PROVE  AdapterInv'
  BY <1>2, PrepareKeeps, CheckKeeps, SendKeeps, LandKeeps, AnswerKeeps
<1>3. CASE UNCHANGED vars
  BY <1>3 DEF vars, AdapterInv, AdapterShape, AdapterTypeOK, RequestsOnce, TracesAreOwn,
              PinsWatched, PinsFresh, ReadRef, AnswersAreHonest, PinsHold
<1> QED BY <1>1, <1>2, <1>3 DEF AdapterNext

\* A receipt stands for something its provider did, a refusal for something it
\* did not do and will not do (Publish and Status of the three adapters, the
\* coordinator's recovery), however requests and answers are lost or late and
\* whatever strangers do, provided a gateway that fails has not done the work.
THEOREM AdaptersAnswerHonestly ==
  ASSUME AdapterBounds
  PROVE  AdapterSpec => []AdapterAnswersAreHonest
<1>1. Init => AdapterInv
  BY AdapterStarts
<1>2. AdapterInv /\ [AdapterNext]_vars => AdapterInv'
  BY AdapterNextKeeps
<1>3. AdapterInv => AdapterAnswersAreHonest
  BY DEF AdapterInv, AdapterShape, AdapterAnswersAreHonest
<1> QED BY <1>1, <1>2, <1>3, PTL DEF AdapterSpec

\* A pull request joins the commits its approval pinned, unless a branch moved
\* after the adapter's last look at it (Prepare, VerifyFresh and Create of the
\* draft adapter).
THEOREM PinsAreHeld ==
  ASSUME AdapterBounds
  PROVE  AdapterSpec => []AdapterPinsHold
<1>1. Init => AdapterInv
  BY AdapterStarts
<1>2. AdapterInv /\ [AdapterNext]_vars => AdapterInv'
  BY AdapterNextKeeps
<1>3. AdapterInv => AdapterPinsHold
  BY DEF AdapterInv, AdapterPinsHold
<1> QED BY <1>1, <1>2, <1>3, PTL DEF AdapterSpec

-----------------------------------------------------------------------------
(* The end-to-end flow (F): what its files say has happened, because each  *)
(* write follows what it reports and nothing that happened is undone but   *)
(* by the compensation that says so.                                       *)

\* What a commit record and a transaction file can hold.
FlowRecord ==
  [state : {"COMMITTING", "COMMITTED", "COMPENSATED", "FAILED_MANUAL_INTERVENTION"},
   repo : {"PENDING", "COMMITTED"}, github : {"PENDING", "COMMITTED", "RECOVERED"},
   slack : {"PENDING", "COMMITTED", "RECOVERED", "FAILED"},
   pull : Nat \cup {None}, post : Nat \cup {None}]

FlowMeta ==
  [state : {"NEW", "ABORTED", "VERIFYING", "AWAITING_APPROVAL", "COMMITTING", "COMMITTED"},
   effect : {"DECLARED", "PREPARED", "VERIFIED", "ABORTED", "COMMITTED"}]

\* None is neither a number nor one of the files' contents.
FlowBounds ==
  MaxCalls \in Nat /\ None \notin Nat \cup FlowRecord

Authoring == {"start", "staged", "save_run", "verify"}
Applying == {"fresh", "repo", "load_commit", "save_committing", "apply", "recover",
             "applied", "save_committed", "repo_done"}
Asking == {"save_repo", "github", "github_create", "github_again"}
HavingPull == {"save_github", "slack", "slack_send", "slack_again", "close", "save_slack"}
Committing == Applying \cup Asking \cup HavingPull
CallFields == {"pc", "own", "rec", "reconcile", "compensate"}

\* What a transaction file and a commit record say has happened.
MetaTrue(m) ==
  /\ m \in FlowMeta
  /\ m.state = "COMMITTED" => applied /\ <<"COMMITTING", "COMMITTED">> \in ledger

RecordTrue(r) ==
  /\ r \in FlowRecord
  /\ r.repo = "COMMITTED" => applied
  /\ r.pull # None => r.pull \in opened.made
  /\ r.post # None => sent > 0
  /\ r.state = "COMMITTED" => applied /\ r.pull \in opened.made /\ sent > 0
  /\ r.state = "COMPENSATED" => applied /\ r.pull \in opened.made \ opened.open

\* What a call knows by where it is.
CallTrue(r) ==
  /\ DOMAIN r = CallFields /\ r.pc \in {"idle"} \cup Authoring \cup Committing
  /\ r.pc \in {"save_run", "save_committing"} => r.own \in FlowMeta /\ r.own.state # "COMMITTED"
  /\ r.pc \in Committing => prepared /\ RecordTrue(r.rec)
  /\ r.pc \in {"applied", "save_committed", "repo_done"} \cup Asking \cup HavingPull => applied
  /\ r.pc \in {"save_committed", "repo_done"} => <<"COMMITTING", "COMMITTED">> \in ledger
  /\ r.pc \in HavingPull => r.rec.pull \in opened.made
  /\ r.pc \in Committing \ {"save_slack"} => r.rec.state # "COMPENSATED"

FlowShape ==
  /\ DOMAIN call = Caller /\ calls \in 0 .. MaxCalls /\ sent \in Nat
  /\ tree \in {"base", "patched", "moved"} /\ (tree = "patched" => applied)
  /\ opened \in [made : SUBSET Nat, open : SUBSET Nat] /\ opened.open \subseteq opened.made
  /\ \E k \in Nat : opened.made = 1 .. k

FilesTrue ==
  /\ meta # None \/ prepared => MetaTrue(meta)
  /\ record # None => RecordTrue(record)

FlowInv == FlowShape /\ FilesTrue /\ \A c \in Caller : CallTrue(call[c])

\* Nothing that happened is undone, but an open pull request may be closed.
WorldGrows ==
  /\ (applied => applied') /\ (prepared => prepared') /\ ledger \subseteq ledger'
  /\ opened.made \subseteq opened'.made
  /\ opened.made \ opened.open \subseteq opened'.made \ opened'.open
  /\ sent > 0 => sent' > 0

\* What was true of a file, and of what a call knows, stays true.
LEMMA TruthLasts ==
  ASSUME WorldGrows
  PROVE  /\ \A r : RecordTrue(r) => RecordTrue(r)'
         /\ \A m : MetaTrue(m) => MetaTrue(m)'
         /\ \A r : CallTrue(r) => CallTrue(r)'
<1>1. \A r : RecordTrue(r) => RecordTrue(r)'
  BY DEF WorldGrows, RecordTrue
<1>2. \A m : MetaTrue(m) => MetaTrue(m)'
  BY DEF WorldGrows, MetaTrue
<1>3. ASSUME NEW r, CallTrue(r) PROVE CallTrue(r)'
  <2>1. r.pc \in Committing => RecordTrue(r.rec)'
    BY <1>1, <1>3 DEF CallTrue
  <2> HIDE DEF RecordTrue
  <2> QED BY <1>3, <2>1 DEF WorldGrows, CallTrue
<1> QED BY <1>1, <1>2, <1>3

\* A step of one call, shown right for what the call then knows and for the
\* files it wrote, is right for the other calls too.
LEMMA FlowStep ==
  ASSUME FlowInv, NEW c \in Caller, WorldGrows, FlowShape',
         \A d \in Caller \ {c} : call'[d] = call[d],
         CallTrue(call[c])',
         UNCHANGED meta \/ MetaTrue(meta)', UNCHANGED record \/ RecordTrue(record)',
         prepared' => prepared \/ MetaTrue(meta)'
  PROVE  FlowInv'
<1>1. /\ \A r : RecordTrue(r) => RecordTrue(r)'
      /\ \A m : MetaTrue(m) => MetaTrue(m)'
      /\ \A r : CallTrue(r) => CallTrue(r)'
  BY TruthLasts
<1>2. (meta # None \/ prepared => MetaTrue(meta))'
  <2>1. CASE MetaTrue(meta)'
    BY <2>1
  <2>2. CASE UNCHANGED meta /\ (prepared' => prepared)
    <3>1. meta' # None \/ prepared' => MetaTrue(meta)
      BY <2>2 DEF FlowInv, FilesTrue
    <3>2. MetaTrue(meta) => MetaTrue(meta)'
      BY <2>2 DEF MetaTrue, WorldGrows
    <3> QED BY <3>1, <3>2
  <2> QED BY <2>1, <2>2
<1>3. (record # None => RecordTrue(record))'
  <2>1. CASE RecordTrue(record)'
    BY <2>1
  <2>2. CASE UNCHANGED record
    <3>1. record' # None => RecordTrue(record)
      BY <2>2 DEF FlowInv, FilesTrue
    <3>2. RecordTrue(record) => RecordTrue(record)'
      BY <2>2 DEF RecordTrue, WorldGrows
    <3> QED BY <3>1, <3>2
  <2> QED BY <2>1, <2>2
<1>4. ASSUME NEW d \in Caller PROVE CallTrue(call[d])'
  <2>1. CASE d = c
    BY <2>1
  <2>2. CASE d # c
    <3>1. call'[d] = call[d] /\ CallTrue(call[d])
      BY <2>2 DEF FlowInv
    <3>2. \A r : CallTrue(r) => CallTrue(r)'
      BY <1>1
    <3> QED BY <3>1, <3>2 DEF CallTrue, RecordTrue
  <2> QED BY <2>1, <2>2
<1> QED BY <1>2, <1>3, <1>4 DEF FlowInv, FilesTrue

\* One field of a call's record set, or the whole call ended.
LEMMA CallSets ==
  ASSUME NEW f, NEW c \in DOMAIN f, DOMAIN f[c] = CallFields
  PROVE  /\ \A pc : LET g == [f EXCEPT ![c].pc = pc] IN
              /\ DOMAIN g = DOMAIN f /\ \A d \in DOMAIN f \ {c} : g[d] = f[d]
              /\ DOMAIN g[c] = CallFields /\ g[c].pc = pc /\ g[c].own = f[c].own
              /\ g[c].rec = f[c].rec /\ g[c].reconcile = f[c].reconcile
              /\ g[c].compensate = f[c].compensate
         /\ \A own : LET g == [f EXCEPT ![c].own = own] IN
              /\ DOMAIN g = DOMAIN f /\ \A d \in DOMAIN f \ {c} : g[d] = f[d]
              /\ DOMAIN g[c] = CallFields /\ g[c].pc = f[c].pc /\ g[c].own = own
              /\ g[c].rec = f[c].rec /\ g[c].reconcile = f[c].reconcile
              /\ g[c].compensate = f[c].compensate
         /\ \A rec : LET g == [f EXCEPT ![c].rec = rec] IN
              /\ DOMAIN g = DOMAIN f /\ \A d \in DOMAIN f \ {c} : g[d] = f[d]
              /\ DOMAIN g[c] = CallFields /\ g[c].pc = f[c].pc /\ g[c].own = f[c].own
              /\ g[c].rec = rec /\ g[c].reconcile = f[c].reconcile
              /\ g[c].compensate = f[c].compensate
  BY DEF CallFields

\* A field of the record a call holds is set by setting the record.
LEMMA RecSets ==
  ASSUME NEW f, NEW c \in DOMAIN f, DOMAIN f[c] = CallFields, NEW v
  PROVE  /\ [f EXCEPT ![c].rec.state = v] = [f EXCEPT ![c].rec = [f[c].rec EXCEPT !.state = v]]
         /\ [f EXCEPT ![c].rec.repo = v] = [f EXCEPT ![c].rec = [f[c].rec EXCEPT !.repo = v]]
         /\ [f EXCEPT ![c].rec.github = v] = [f EXCEPT ![c].rec = [f[c].rec EXCEPT !.github = v]]
         /\ [f EXCEPT ![c].rec.slack = v] = [f EXCEPT ![c].rec = [f[c].rec EXCEPT !.slack = v]]
         /\ [f EXCEPT ![c].rec.pull = v] = [f EXCEPT ![c].rec = [f[c].rec EXCEPT !.pull = v]]
         /\ [f EXCEPT ![c].rec.post = v] = [f EXCEPT ![c].rec = [f[c].rec EXCEPT !.post = v]]
  BY DEF CallFields

\* The call of one caller moves to another place, with what it then holds.
CallMoved(c, pc, own, rec) ==
  /\ DOMAIN call' = Caller /\ \A d \in Caller \ {c} : call'[d] = call[d]
  /\ DOMAIN call'[c] = CallFields /\ call'[c].pc = pc /\ call'[c].own = own /\ call'[c].rec = rec
  /\ call'[c].reconcile = call[c].reconcile

\* The moves that set the place and at most one thing more.
LEMMA FlowMoves ==
  ASSUME FlowInv, NEW c \in Caller, NEW pc
  PROVE  /\ F!Goto(c, pc) => CallMoved(c, pc, call[c].own, call[c].rec)
         /\ \A own : call' = [call EXCEPT ![c].pc = pc, ![c].own = own] =>
                       CallMoved(c, pc, own, call[c].rec)
         /\ \A v : call' = [call EXCEPT ![c].pc = pc, ![c].rec.state = v] =>
                     CallMoved(c, pc, call[c].own, [call[c].rec EXCEPT !.state = v])
         /\ \A v : call' = [call EXCEPT ![c].pc = pc, ![c].rec.repo = v] =>
                     CallMoved(c, pc, call[c].own, [call[c].rec EXCEPT !.repo = v])
         /\ \A v : call' = [call EXCEPT ![c].pc = pc, ![c].rec.slack = v] =>
                     CallMoved(c, pc, call[c].own, [call[c].rec EXCEPT !.slack = v])
<1> DEFINE f == [call EXCEPT ![c].pc = pc]
<1>1. c \in DOMAIN call /\ DOMAIN call[c] = CallFields /\ DOMAIN call = Caller
  BY DEF FlowInv, FlowShape, CallTrue
<1>2. /\ DOMAIN f = Caller /\ \A d \in Caller \ {c} : f[d] = call[d]
      /\ DOMAIN f[c] = CallFields /\ f[c].pc = pc /\ f[c].rec = call[c].rec
      /\ f[c].own = call[c].own /\ f[c].reconcile = call[c].reconcile
  BY <1>1, CallSets
<1>3. F!Goto(c, pc) => call' = f
  BY DEF F!Goto
<1>4. /\ \A own : call' = [call EXCEPT ![c].pc = pc, ![c].own = own] =>
                    call' = [f EXCEPT ![c].own = own]
      /\ \A v : call' = [call EXCEPT ![c].pc = pc, ![c].rec.state = v] =>
                  call' = [f EXCEPT ![c].rec.state = v]
      /\ \A v : call' = [call EXCEPT ![c].pc = pc, ![c].rec.repo = v] =>
                  call' = [f EXCEPT ![c].rec.repo = v]
      /\ \A v : call' = [call EXCEPT ![c].pc = pc, ![c].rec.slack = v] =>
                  call' = [f EXCEPT ![c].rec.slack = v]
  BY Zenon
<1> HIDE DEF f
<1>5. \A own : call' = [f EXCEPT ![c].own = own] => CallMoved(c, pc, own, call[c].rec)
  BY <1>1, <1>2, CallSets DEF CallMoved
<1>6. \A rec : call' = [f EXCEPT ![c].rec = rec] => CallMoved(c, pc, call[c].own, rec)
  BY <1>1, <1>2, CallSets DEF CallMoved
<1>7. F!Goto(c, pc) => CallMoved(c, pc, call[c].own, call[c].rec)
  BY <1>2, <1>3 DEF CallMoved
<1>8. \A v : call' = [f EXCEPT ![c].rec.state = v] =>
               CallMoved(c, pc, call[c].own, [call[c].rec EXCEPT !.state = v])
  BY <1>2, <1>6, RecSets
<1>9. \A v : call' = [f EXCEPT ![c].rec.repo = v] =>
               CallMoved(c, pc, call[c].own, [call[c].rec EXCEPT !.repo = v])
  BY <1>2, <1>6, RecSets
<1>10. \A v : call' = [f EXCEPT ![c].rec.slack = v] =>
               CallMoved(c, pc, call[c].own, [call[c].rec EXCEPT !.slack = v])
  BY <1>2, <1>6, RecSets
<1> QED BY <1>4, <1>5, <1>7, <1>8, <1>9, <1>10

\* A record with the receipt of a pull request, or of a message, in it.
WithPull(r, s, n) == [r EXCEPT !.github = s, !.pull = n]
WithPost(r, s, n) == [r EXCEPT !.slack = s, !.post = n, !.state = "COMMITTED"]

\* A receipt of the pull request, or of the message, is kept with what it says.
LEMMA ReceiptHeld ==
  ASSUME FlowInv, NEW c \in Caller, call[c].rec \in FlowRecord, NEW s
  PROVE  /\ \A n : F!HasPull(c, s, n) =>
              CallMoved(c, "save_github", call[c].own, WithPull(call[c].rec, s, n))
         /\ F!HasPost(c, s) =>
              CallMoved(c, "save_slack", call[c].own, WithPost(call[c].rec, s, sent'))
<1> DEFINE Set(f, rec) == [f EXCEPT ![c].rec = rec]
<1>1. c \in DOMAIN call /\ DOMAIN call[c] = CallFields /\ DOMAIN call = Caller
  BY DEF FlowInv, FlowShape, CallTrue
<1>2. ASSUME NEW f, NEW pc, DOMAIN f = Caller, \A d \in Caller \ {c} : f[d] = call[d],
             DOMAIN f[c] = CallFields, f[c].pc = pc, f[c].own = call[c].own,
             f[c].reconcile = call[c].reconcile
      PROVE  \A rec : LET g == Set(f, rec) IN
               /\ DOMAIN g = Caller /\ \A d \in Caller \ {c} : g[d] = call[d]
               /\ DOMAIN g[c] = CallFields /\ g[c].pc = pc /\ g[c].own = call[c].own
               /\ g[c].rec = rec /\ g[c].reconcile = call[c].reconcile
  BY <1>2, CallSets
<1>3. ASSUME NEW n, F!HasPull(c, s, n)
      PROVE  CallMoved(c, "save_github", call[c].own, WithPull(call[c].rec, s, n))
  <2> DEFINE f == [call EXCEPT ![c].pc = "save_github"]
             r == [call[c].rec EXCEPT !.github = s]
             g == Set(f, r)
             h == Set(g, [r EXCEPT !.pull = n])
  <2>1. /\ DOMAIN f = Caller /\ \A d \in Caller \ {c} : f[d] = call[d]
        /\ DOMAIN f[c] = CallFields /\ f[c].pc = "save_github" /\ f[c].rec = call[c].rec
        /\ f[c].own = call[c].own /\ f[c].reconcile = call[c].reconcile
    BY <1>1, CallSets
  <2>2. call' = [[f EXCEPT ![c].rec.github = s] EXCEPT ![c].rec.pull = n]
    BY <1>3, Zenon DEF F!HasPull
  <2> HIDE DEF f
  <2>3. [f EXCEPT ![c].rec.github = s] = g
    BY <2>1, RecSets
  <2>4. /\ DOMAIN g = Caller /\ \A d \in Caller \ {c} : g[d] = call[d]
        /\ DOMAIN g[c] = CallFields /\ g[c].pc = "save_github" /\ g[c].rec = r
        /\ g[c].own = call[c].own /\ g[c].reconcile = call[c].reconcile
    BY <1>2, <2>1
  <2> HIDE DEF g
  <2>5. call' = h
    BY <2>2, <2>3, <2>4, RecSets
  <2>6. /\ DOMAIN h = Caller /\ \A d \in Caller \ {c} : h[d] = call[d]
        /\ DOMAIN h[c] = CallFields /\ h[c].pc = "save_github" /\ h[c].rec = [r EXCEPT !.pull = n]
        /\ h[c].own = call[c].own /\ h[c].reconcile = call[c].reconcile
    BY <1>2, <2>4
  <2>7. [r EXCEPT !.pull = n] = WithPull(call[c].rec, s, n)
    BY Zenon DEF WithPull
  <2> QED BY <2>5, <2>6, <2>7 DEF CallMoved
<1>4. ASSUME F!HasPost(c, s)
      PROVE  CallMoved(c, "save_slack", call[c].own, WithPost(call[c].rec, s, sent'))
  <2> DEFINE f == [call EXCEPT ![c].pc = "save_slack"]
             r == [call[c].rec EXCEPT !.slack = s]
             g == Set(f, r)
             q == [r EXCEPT !.post = sent']
             h == Set(g, q)
             k == Set(h, [q EXCEPT !.state = "COMMITTED"])
  <2>1. /\ DOMAIN f = Caller /\ \A d \in Caller \ {c} : f[d] = call[d]
        /\ DOMAIN f[c] = CallFields /\ f[c].pc = "save_slack" /\ f[c].rec = call[c].rec
        /\ f[c].own = call[c].own /\ f[c].reconcile = call[c].reconcile
    BY <1>1, CallSets
  <2>2. call' = [[[f EXCEPT ![c].rec.slack = s] EXCEPT ![c].rec.post = sent']
                   EXCEPT ![c].rec.state = "COMMITTED"]
    BY <1>4, Zenon DEF F!HasPost
  <2> HIDE DEF f
  <2>3. [f EXCEPT ![c].rec.slack = s] = g
    BY <2>1, RecSets
  <2>4. /\ DOMAIN g = Caller /\ \A d \in Caller \ {c} : g[d] = call[d]
        /\ DOMAIN g[c] = CallFields /\ g[c].pc = "save_slack" /\ g[c].rec = r
        /\ g[c].own = call[c].own /\ g[c].reconcile = call[c].reconcile
    BY <1>2, <2>1
  <2> HIDE DEF g
  <2>5. [g EXCEPT ![c].rec.post = sent'] = h
    BY <2>4, RecSets
  <2>6. /\ DOMAIN h = Caller /\ \A d \in Caller \ {c} : h[d] = call[d]
        /\ DOMAIN h[c] = CallFields /\ h[c].pc = "save_slack" /\ h[c].rec = q
        /\ h[c].own = call[c].own /\ h[c].reconcile = call[c].reconcile
    BY <1>2, <2>4
  <2> HIDE DEF h
  <2>7. call' = k
    BY <2>2, <2>3, <2>5, <2>6, RecSets
  <2>8. /\ DOMAIN k = Caller /\ \A d \in Caller \ {c} : k[d] = call[d]
        /\ DOMAIN k[c] = CallFields /\ k[c].pc = "save_slack"
        /\ k[c].rec = [q EXCEPT !.state = "COMMITTED"]
        /\ k[c].own = call[c].own /\ k[c].reconcile = call[c].reconcile
    BY <1>2, <2>6
  <2>9. [q EXCEPT !.state = "COMMITTED"] = WithPost(call[c].rec, s, sent')
    BY Zenon DEF WithPost
  <2> QED BY <2>7, <2>8, <2>9 DEF CallMoved
<1> QED BY <1>3, <1>4

\* Nothing has been staged or published.
LEMMA FlowStarts == FlowBounds /\ F!Init => FlowInv
<1> SUFFICES ASSUME FlowBounds, F!Init PROVE FlowInv
  OBVIOUS
<1>1. /\ meta = None /\ ~prepared /\ record = None /\ ~applied /\ tree = "base"
      /\ opened = [made |-> {}, open |-> {}] /\ sent = 0 /\ calls = 0
      /\ DOMAIN call = Caller /\ \A c \in Caller : call[c] = F!Idle
  BY DEF F!Init
<1>2. opened.made = 1 .. 0 /\ 0 \in Nat
  BY <1>1
<1>3. FlowShape
  BY <1>1, <1>2 DEF FlowShape, FlowBounds
<1>4. CallTrue(F!Idle)
  BY DEF CallTrue, CallFields, F!Idle, Committing, Applying, Asking, HavingPull
<1> QED BY <1>1, <1>3, <1>4 DEF FlowInv, FilesTrue

\* A call that ends knows nothing more.
LEMMA IdleTrue == CallTrue(F!Idle)'
  BY DEF CallTrue, CallFields, F!Idle, Committing, Applying, Asking, HavingPull

\* A step that changes nothing but its own call.
LEMMA QuietStep ==
  ASSUME FlowInv, NEW c \in Caller,
         UNCHANGED <<meta, ledger, tree, applied, prepared, record, opened, sent>>,
         calls' \in 0 .. MaxCalls,
         DOMAIN call' = Caller, \A d \in Caller \ {c} : call'[d] = call[d], CallTrue(call[c])'
  PROVE  FlowInv'
<1>1. WorldGrows
  BY DEF WorldGrows
<1>2. FlowShape'
  BY DEF FlowInv, FlowShape
<1> QED BY <1>1, <1>2, FlowStep

\* What the caller that takes a step is in.
LEMMA FlowCall ==
  ASSUME FlowInv, NEW c \in Caller
  PROVE  /\ c \in DOMAIN call /\ DOMAIN call = Caller /\ CallTrue(call[c]) /\ calls \in 0 .. MaxCalls
         /\ F!Return(c) => /\ DOMAIN call' = Caller /\ \A d \in Caller \ {c} : call'[d] = call[d]
                           /\ CallTrue(call[c])' /\ call'[c] = F!Idle
<1>1. c \in DOMAIN call /\ DOMAIN call = Caller /\ CallTrue(call[c]) /\ calls \in 0 .. MaxCalls
  BY DEF FlowInv, FlowShape
<1>2. ASSUME F!Return(c)
      PROVE  /\ DOMAIN call' = Caller /\ \A d \in Caller \ {c} : call'[d] = call[d]
             /\ CallTrue(call[c])' /\ call'[c] = F!Idle
  <2>1. /\ DOMAIN call' = Caller /\ \A d \in Caller \ {c} : call'[d] = call[d]
        /\ call'[c] = F!Idle
    BY <1>1, <1>2 DEF F!Return
  <2>2. CallTrue(call[c])'
    BY <2>1 DEF CallTrue, CallFields, F!Idle, Committing, Applying, Asking, HavingPull
  <2> QED BY <2>1, <2>2
<1> QED BY <1>1, <1>2

\* A move to a place about which a call must know no more than where it was.
LEMMA MoveKnown ==
  ASSUME FlowInv, NEW c \in Caller, NEW pc, NEW own, CallMoved(c, pc, own, call[c].rec),
         UNCHANGED <<applied, prepared, ledger, opened, sent>>,
         call[c].pc \in Committing, pc \in Committing,
         call[c].pc = "save_slack" => pc = "save_slack",
         pc = "save_committing" => own \in FlowMeta /\ own.state # "COMMITTED",
         pc \in {"applied", "save_committed", "repo_done"} \cup Asking \cup HavingPull => applied,
         pc \in {"save_committed", "repo_done"} => <<"COMMITTING", "COMMITTED">> \in ledger,
         pc \in HavingPull => call[c].rec.pull \in opened.made
  PROVE  CallTrue(call[c])'
<1>1. CallTrue(call[c])
  BY DEF FlowInv
<1>2. /\ DOMAIN call'[c] = CallFields /\ call'[c].pc = pc /\ call'[c].own = own
      /\ call'[c].rec = call[c].rec
  BY DEF CallMoved
<1>3. pc # "save_run"
  BY DEF Committing, Applying, Asking, HavingPull
<1>4. RecordTrue(call[c].rec) /\ prepared
  BY <1>1 DEF CallTrue
<1>5. RecordTrue(call[c].rec)'
  BY <1>2, <1>4 DEF RecordTrue
<1>6. pc # "save_slack" => call'[c].rec.state # "COMPENSATED"
  BY <1>1, <1>2 DEF CallTrue
<1> HIDE DEF RecordTrue
<1> QED BY <1>2, <1>3, <1>4, <1>5, <1>6 DEF CallTrue

\* Publishing the repository part: places passed without writing a file.
LEMMA ApplyingMoves ==
  ASSUME FlowInv, NEW c \in Caller,
         \/ F!CheckBaseFreshness(c) \/ F!EnsureRepo(c) \/ F!LoadForCommit(c) \/ F!RecoverRepo(c)
  PROVE  FlowInv'
<1>1. /\ UNCHANGED <<F!gatewayVars, F!flowVars>> /\ calls' = calls
      /\ call[c].pc \in {"fresh", "repo", "load_commit", "recover"}
  BY DEF F!CheckBaseFreshness, F!EnsureRepo, F!LoadForCommit, F!RecoverRepo, F!At, F!Same
<1>2. UNCHANGED <<meta, ledger, tree, applied, prepared, record, opened, sent>>
  BY <1>1 DEF F!gatewayVars, F!flowVars
<1>3. call[c].pc \in Committing /\ call[c].pc # "save_slack" /\ CallTrue(call[c])
  BY <1>1 DEF Committing, Applying, FlowInv
<1>4. prepared /\ RecordTrue(call[c].rec) /\ MetaTrue(meta)
  BY <1>3 DEF CallTrue, FlowInv, FilesTrue
<1>5. CASE F!Return(c)
  BY <1>1, <1>2, <1>5, FlowCall, QuietStep
<1>6. ASSUME NEW pc \in {"repo", "load_commit", "recover", "save_repo", "repo_done"}, F!Goto(c, pc),
             pc = "save_repo" => applied,
             pc = "repo_done" => applied /\ <<"COMMITTING", "COMMITTED">> \in ledger
      PROVE  FlowInv'
  <2>1. CallMoved(c, pc, call[c].own, call[c].rec)
    BY <1>6, FlowMoves
  <2>2. /\ pc \in Committing /\ pc \notin HavingPull /\ pc \notin {"save_committing", "applied", "save_committed"}
        /\ pc \in Asking => pc = "save_repo"
    BY DEF Committing, Applying, Asking, HavingPull
  <2>3. CallTrue(call[c])'
    BY <1>2, <1>3, <1>6, <2>1, <2>2, MoveKnown
  <2> QED BY <1>1, <1>2, <2>1, <2>3, FlowCall, QuietStep DEF CallMoved
<1>7. CASE F!CheckBaseFreshness(c)
  BY <1>5, <1>6, <1>7 DEF F!CheckBaseFreshness
<1>8. CASE F!EnsureRepo(c)
  <2>1. call[c].rec.repo = "COMMITTED" => applied
    BY <1>4 DEF RecordTrue
  <2>2. meta.state = "COMMITTED" => applied /\ <<"COMMITTING", "COMMITTED">> \in ledger
    BY <1>4 DEF MetaTrue
  <2>3. \/ F!Return(c)
        \/ F!Goto(c, "load_commit") \/ F!Goto(c, "recover")
        \/ F!Goto(c, "save_repo") /\ applied
        \/ F!Goto(c, "repo_done") /\ applied /\ <<"COMMITTING", "COMMITTED">> \in ledger
    BY <1>8, <2>1, <2>2 DEF F!EnsureRepo
  <2> QED BY <1>5, <1>6, <2>3
<1>9. ASSUME NEW pc \in {"save_committing", "applied"},
             call' = [call EXCEPT ![c].pc = pc, ![c].own = meta],
             pc = "save_committing" => meta.state # "COMMITTED", pc = "applied" => applied
      PROVE  FlowInv'
  <2>1. CallMoved(c, pc, meta, call[c].rec)
    BY <1>9, FlowMoves
  <2>2. pc \in Committing /\ pc \notin HavingPull \cup Asking
    BY DEF Committing, Applying, Asking, HavingPull
  <2>3. meta \in FlowMeta
    BY <1>4 DEF MetaTrue
  <2>4. CallTrue(call[c])'
    BY <1>2, <1>3, <1>9, <2>1, <2>2, <2>3, MoveKnown
  <2> QED BY <1>1, <1>2, <2>1, <2>4, FlowCall, QuietStep DEF CallMoved
<1>10. CASE F!LoadForCommit(c)
  BY <1>5, <1>9, <1>10 DEF F!LoadForCommit
<1>11. CASE F!RecoverRepo(c)
  BY <1>5, <1>9, <1>11 DEF F!RecoverRepo, FlowInv, FlowShape
<1> QED BY <1>7, <1>8, <1>10, <1>11

\* Staging a transaction: its file never says that it is committed.
LEMMA AuthoringKeeps ==
  ASSUME FlowBounds, FlowInv, NEW c \in Caller,
         \/ F!Preview(c) \/ F!StartRun(c) \/ F!CommandFails(c) \/ F!CapturePatch(c)
         \/ F!SaveRun(c) \/ F!VerifyRun(c)
  PROVE  FlowInv'
<1>1. UNCHANGED <<tree, applied, record, opened, sent>>
  BY DEF F!Preview, F!StartRun, F!CommandFails, F!CapturePatch, F!SaveRun, F!VerifyRun,
         F!gatewayVars, F!flowVars
<1>2. calls' \in 0 .. MaxCalls /\ CallTrue(call[c])
  <2>1. calls' = calls \/ (calls < MaxCalls /\ calls' = calls + 1)
    BY DEF F!Preview, F!StartRun, F!CommandFails, F!CapturePatch, F!SaveRun, F!VerifyRun, F!Same, F!Begin
  <2> QED BY <2>1, FlowCall DEF FlowBounds
\* To another place of the staging, with what is saved next.
<1>3. ASSUME NEW pc \in Authoring, NEW own, CallMoved(c, pc, own, call[c].rec),
             pc = "save_run" => own \in FlowMeta /\ own.state # "COMMITTED"
      PROVE  CallTrue(call[c])'
  <2>1. pc \notin Committing /\ pc # "save_committing"
    BY DEF Authoring, Committing, Applying, Asking, HavingPull
  <2> QED BY <1>3, <2>1 DEF CallMoved, CallTrue, Committing, Applying, Asking, HavingPull
<1>4. ASSUME CallTrue(call[c])', DOMAIN call' = Caller, \A d \in Caller \ {c} : call'[d] = call[d],
             ledger \subseteq ledger', UNCHANGED meta \/ MetaTrue(meta)',
             prepared => prepared', prepared' => prepared \/ MetaTrue(meta)'
      PROVE  FlowInv'
  <2>1. WorldGrows
    BY <1>1, <1>4 DEF WorldGrows
  <2>2. FlowShape'
    BY <1>1, <1>2, <1>4 DEF FlowInv, FlowShape
  <2> QED BY <1>1, <1>4, <2>1, <2>2, FlowStep
<1>5. CASE F!Preview(c)
  <2>1. CallMoved(c, "start", call[c].own, call[c].rec) /\ "start" \in Authoring
    BY <1>5, FlowMoves DEF F!Preview, Authoring
  <2>2. UNCHANGED <<meta, ledger, prepared>>
    BY <1>5 DEF F!Preview, F!gatewayVars
  <2>3. CallTrue(call[c])'
    BY <1>3, <2>1
  <2> QED BY <1>4, <2>1, <2>2, <2>3 DEF CallMoved
<1>6. CASE F!StartRun(c)
  <2>1. CallMoved(c, "staged", call[c].own, call[c].rec) /\ "staged" \in Authoring
    BY <1>6, FlowMoves DEF F!StartRun, Authoring
  <2>2. /\ meta' = [state |-> "NEW", effect |-> "DECLARED"] /\ ledger \subseteq ledger'
        /\ prepared' = prepared
    BY <1>6 DEF F!StartRun, F!flowVars, F!Appended
  <2>3. MetaTrue(meta)'
    BY <2>2 DEF MetaTrue, FlowMeta
  <2>4. CallTrue(call[c])'
    BY <1>3, <2>1
  <2> QED BY <1>4, <2>1, <2>2, <2>3, <2>4 DEF CallMoved
<1>7. CASE F!CommandFails(c)
  <2>1. UNCHANGED <<meta, ledger, prepared>> /\ F!Return(c)
    BY <1>7 DEF F!CommandFails, F!gatewayVars, F!flowVars
  <2> QED BY <1>4, <2>1, FlowCall
<1>8. CASE F!CapturePatch(c) \/ F!VerifyRun(c)
  <2>1. UNCHANGED <<meta, prepared>> /\ ledger \subseteq ledger'
    BY <1>8 DEF F!CapturePatch, F!VerifyRun, F!flowVars, F!Appended
  <2>2. PICK own \in FlowMeta : /\ call' = [call EXCEPT ![c].pc = "save_run", ![c].own = own]
                                /\ own.state # "COMMITTED"
    <3> DEFINE Own(to, effect) == [state |-> to, effect |-> effect]
               Saves(to, effect) == call' = [call EXCEPT ![c].pc = "save_run", ![c].own = Own(to, effect)]
    <3>1. \/ \E to \in {"ABORTED", "AWAITING_APPROVAL", "VERIFYING"} : Saves(to, "PREPARED")
          \/ Saves("AWAITING_APPROVAL", "VERIFIED") \/ Saves("ABORTED", "ABORTED")
      BY <1>8 DEF F!CapturePatch, F!VerifyRun
    <3>2. \A to \in {"ABORTED", "AWAITING_APPROVAL", "VERIFYING"} :
            \A effect \in {"PREPARED", "VERIFIED", "ABORTED"} :
              Own(to, effect) \in FlowMeta /\ Own(to, effect).state # "COMMITTED"
      BY DEF FlowMeta
    <3> HIDE DEF Own
    <3> QED BY <3>1, <3>2
  <2>3. CallMoved(c, "save_run", own, call[c].rec) /\ "save_run" \in Authoring
    BY <2>2, FlowMoves DEF Authoring
  <2>4. CallTrue(call[c])'
    BY <1>3, <2>2, <2>3
  <2> QED BY <1>4, <2>1, <2>3, <2>4 DEF CallMoved
<1>9. CASE F!SaveRun(c)
  <2>1. /\ meta' = call[c].own /\ ledger' = ledger /\ call[c].pc = "save_run"
        /\ \/ F!Goto(c, "verify") /\ prepared' = prepared
           \/ F!Return(c) /\ prepared'
    BY <1>9 DEF F!SaveRun, F!At
  <2>2. MetaTrue(meta)'
    BY <1>2, <2>1 DEF CallTrue, MetaTrue
  <2>3. CASE F!Return(c)
    BY <1>4, <2>1, <2>2, <2>3, FlowCall
  <2>4. CASE F!Goto(c, "verify")
    <3>1. CallMoved(c, "verify", call[c].own, call[c].rec) /\ "verify" \in Authoring
      BY <2>4, FlowMoves DEF Authoring
    <3>2. CallTrue(call[c])'
      BY <1>3, <3>1
    <3> QED BY <1>4, <2>1, <2>2, <3>1, <3>2 DEF CallMoved
  <2> QED BY <2>1, <2>3, <2>4
<1> QED BY <1>5, <1>6, <1>7, <1>8, <1>9

\* A commit begins with a record of its own or with the one that is stored.
LEMMA BeginsKeep ==
  ASSUME FlowBounds, FlowInv, NEW c \in Caller, F!StartCommit(c) \/ F!ReconcileCommit(c)
  PROVE  FlowInv'
<1>1. /\ UNCHANGED <<meta, ledger, tree, applied, prepared, opened, sent>>
      /\ prepared /\ calls' \in 0 .. MaxCalls
  <2>1. calls < MaxCalls /\ calls' = calls + 1 /\ prepared
    BY DEF F!StartCommit, F!ReconcileCommit, F!Begin
  <2>2. UNCHANGED <<meta, ledger, tree, applied, prepared, opened, sent>>
    BY DEF F!StartCommit, F!ReconcileCommit, F!gatewayVars, F!flowVars
  <2> QED BY <2>1, <2>2, FlowCall DEF FlowBounds
<1>2. RecordTrue(F!NewRecord) /\ F!NewRecord.state # "COMPENSATED"
  BY DEF RecordTrue, FlowRecord, F!NewRecord
<1>3. /\ UNCHANGED record \/ record' = F!NewRecord
      /\ \E reconcile, compensate \in BOOLEAN, rec \in {F!NewRecord, record} :
           /\ RecordTrue(rec) /\ rec.state # "COMPENSATED"
           /\ call' = [call EXCEPT ![c] = [pc |-> "fresh", own |-> None, rec |-> rec,
                                           reconcile |-> reconcile, compensate |-> compensate]]
  <2>1. CASE F!StartCommit(c)
    BY <1>2, <2>1 DEF F!StartCommit
  <2>2. CASE F!ReconcileCommit(c)
    <3>1. RecordTrue(record) /\ record.state # "COMPENSATED" /\ UNCHANGED record
      BY <2>2 DEF F!ReconcileCommit, F!flowVars, FlowInv, FilesTrue
    <3> QED BY <2>2, <3>1 DEF F!ReconcileCommit
  <2> QED BY <2>1, <2>2
<1>4. PICK reconcile, compensate \in BOOLEAN, rec \in {F!NewRecord, record} :
        /\ RecordTrue(rec) /\ rec.state # "COMPENSATED"
        /\ call' = [call EXCEPT ![c] = [pc |-> "fresh", own |-> None, rec |-> rec,
                                        reconcile |-> reconcile, compensate |-> compensate]]
  BY <1>3
<1>5. /\ DOMAIN call' = Caller /\ \A d \in Caller \ {c} : call'[d] = call[d]
      /\ DOMAIN call'[c] = CallFields /\ call'[c].pc = "fresh" /\ call'[c].rec = rec
  BY <1>4, FlowCall DEF CallFields
<1>6. CallTrue(call[c])'
  <2>1. RecordTrue(call[c].rec)'
    BY <1>1, <1>4, <1>5 DEF RecordTrue
  <2> HIDE DEF RecordTrue
  <2> QED BY <1>1, <1>4, <1>5, <2>1 DEF CallTrue, Committing, Applying, Asking, HavingPull
<1>7. WorldGrows
  BY <1>1 DEF WorldGrows
<1>8. UNCHANGED record \/ RecordTrue(record)'
  BY <1>1, <1>2, <1>3 DEF RecordTrue
<1>9. FlowShape'
  BY <1>1, <1>5 DEF FlowInv, FlowShape
<1> QED BY <1>1, <1>5, <1>6, <1>7, <1>8, <1>9, FlowStep

\* The gateway's commit: the patch is applied, then the ledger says so, then the file.
LEMMA ApplyingKeeps ==
  ASSUME FlowInv, NEW c \in Caller,
         \/ F!SaveCommitting(c) \/ F!ApplyPatch(c) \/ F!AppendCommitted(c) \/ F!SaveCommitted(c)
  PROVE  FlowInv'
<1>1. /\ UNCHANGED <<prepared, record, opened, sent, calls>>
      /\ call[c].pc \in {"save_committing", "apply", "applied", "save_committed"}
  BY DEF F!SaveCommitting, F!ApplyPatch, F!AppendCommitted, F!SaveCommitted, F!flowVars, F!Same, F!At
<1>2. call[c].pc \in Committing /\ call[c].pc # "save_slack" /\ CallTrue(call[c])
  BY <1>1, FlowCall DEF Committing, Applying
<1>3. prepared /\ RecordTrue(call[c].rec)
  BY <1>2 DEF CallTrue
<1>4. ASSUME DOMAIN call' = Caller, \A d \in Caller \ {c} : call'[d] = call[d], CallTrue(call[c])',
             ledger \subseteq ledger', applied => applied',
             tree' \in {"base", "patched", "moved"}, tree' = "patched" => applied',
             UNCHANGED meta \/ MetaTrue(meta)'
      PROVE  FlowInv'
  <2>1. WorldGrows
    BY <1>1, <1>4 DEF WorldGrows
  <2>2. FlowShape'
    BY <1>1, <1>4 DEF FlowInv, FlowShape
  <2> QED BY <1>1, <1>4, <2>1, <2>2, FlowStep
<1>5. ASSUME NEW pc \in {"apply", "applied", "save_committed", "repo_done"},
             F!Goto(c, pc), applied => applied', ledger \subseteq ledger',
             pc # "apply" => applied',
             pc \in {"save_committed", "repo_done"} => <<"COMMITTING", "COMMITTED">> \in ledger'
      PROVE  /\ CallTrue(call[c])'
             /\ DOMAIN call' = Caller /\ \A d \in Caller \ {c} : call'[d] = call[d]
  <2>1. CallMoved(c, pc, call[c].own, call[c].rec)
    BY <1>5, FlowMoves
  <2>2. pc \in Committing \ {"save_slack"} /\ pc \notin Asking \cup HavingPull
    BY DEF Committing, Applying, Asking, HavingPull
  <2>3. RecordTrue(call[c].rec)'
    BY <1>1, <1>3, <1>5, <2>1 DEF CallMoved, RecordTrue
  <2>4. call[c].rec.state # "COMPENSATED"
    BY <1>2 DEF CallTrue
  <2> HIDE DEF RecordTrue
  <2> QED BY <1>1, <1>3, <1>5, <2>1, <2>2, <2>3, <2>4 DEF CallMoved, CallTrue
<1>6. tree \in {"base", "patched", "moved"} /\ (tree = "patched" => applied)
  BY DEF FlowInv, FlowShape
<1>7. CASE F!SaveCommitting(c)
  <2>1. /\ call[c].pc = "save_committing" /\ meta' = [call[c].own EXCEPT !.state = "COMMITTING"]
        /\ F!Goto(c, "apply") /\ UNCHANGED <<ledger, tree, applied>>
    BY <1>7 DEF F!SaveCommitting, F!At
  <2>2. MetaTrue(meta)'
    BY <1>2, <2>1 DEF CallTrue, MetaTrue, FlowMeta
  <2> QED BY <1>4, <1>5, <1>6, <2>1, <2>2
<1>8. CASE F!ApplyPatch(c)
  <2>1. UNCHANGED meta /\ ledger \subseteq ledger'
    BY <1>8 DEF F!ApplyPatch, F!Appended
  <2>2. \/ tree' = "patched" /\ applied' = TRUE /\ F!Goto(c, "applied")
        \/ F!Return(c) /\ UNCHANGED <<tree, applied>>
    BY <1>8 DEF F!ApplyPatch
  <2> QED BY <1>4, <1>5, <1>6, <2>1, <2>2, FlowCall
<1>9. CASE F!AppendCommitted(c)
  <2>1. /\ call[c].pc = "applied" /\ UNCHANGED <<meta, tree, applied>> /\ ledger \subseteq ledger'
        /\ <<"COMMITTING", "COMMITTED">> \in ledger' /\ F!Goto(c, "save_committed")
    BY <1>9 DEF F!AppendCommitted, F!At, F!Appended
  <2>2. applied
    BY <1>2, <2>1 DEF CallTrue
  <2> QED BY <1>4, <1>5, <1>6, <2>1, <2>2
<1>10. CASE F!SaveCommitted(c)
  <2>1. /\ call[c].pc = "save_committed" /\ UNCHANGED <<ledger, tree, applied>>
        /\ meta' = [state |-> "COMMITTED", effect |-> "COMMITTED"] /\ F!Goto(c, "repo_done")
    BY <1>10 DEF F!SaveCommitted, F!At
  <2>2. applied /\ <<"COMMITTING", "COMMITTED">> \in ledger
    BY <1>2, <2>1 DEF CallTrue
  <2>3. MetaTrue(meta)'
    BY <2>1, <2>2 DEF MetaTrue, FlowMeta
  <2> QED BY <1>4, <1>5, <1>6, <2>1, <2>2, <2>3
<1> QED BY <1>7, <1>8, <1>9, <1>10

\* What a record says once a receipt is in it.
LEMMA ReceiptSaid ==
  ASSUME NEW r \in FlowRecord, NEW s \in {"COMMITTED", "RECOVERED"}, NEW n \in Nat
  PROVE  /\ WithPull(r, s, n) \in FlowRecord /\ WithPull(r, s, n).state = r.state
         /\ WithPull(r, s, n).repo = r.repo /\ WithPull(r, s, n).post = r.post
         /\ WithPull(r, s, n).pull = n
         /\ WithPost(r, s, n) \in FlowRecord /\ WithPost(r, s, n).state = "COMMITTED"
         /\ WithPost(r, s, n).repo = r.repo /\ WithPost(r, s, n).pull = r.pull
<1>1. /\ WithPull(r, s, n) \in FlowRecord /\ WithPull(r, s, n).state = r.state
      /\ WithPull(r, s, n).repo = r.repo /\ WithPull(r, s, n).post = r.post
      /\ WithPull(r, s, n).pull = n
  <2> DEFINE t == [r EXCEPT !.github = s]
  <2>1. t \in FlowRecord /\ t.state = r.state /\ t.repo = r.repo /\ t.post = r.post
    BY DEF FlowRecord
  <2>2. WithPull(r, s, n) = [t EXCEPT !.pull = n]
    BY Zenon DEF WithPull
  <2> HIDE DEF t
  <2> QED BY <2>1, <2>2 DEF FlowRecord
<1>2. /\ WithPost(r, s, n) \in FlowRecord /\ WithPost(r, s, n).state = "COMMITTED"
      /\ WithPost(r, s, n).repo = r.repo /\ WithPost(r, s, n).pull = r.pull
  <2> DEFINE t == [r EXCEPT !.slack = s]
             u == [t EXCEPT !.post = n]
  <2>1. t \in FlowRecord /\ t.repo = r.repo /\ t.pull = r.pull
    BY DEF FlowRecord
  <2>2. WithPost(r, s, n) = [u EXCEPT !.state = "COMMITTED"]
    BY Zenon DEF WithPost
  <2> HIDE DEF t
  <2>3. u \in FlowRecord /\ u.repo = r.repo /\ u.pull = r.pull
    BY <2>1 DEF FlowRecord
  <2> HIDE DEF u
  <2> QED BY <2>2, <2>3 DEF FlowRecord
<1> QED BY <1>1, <1>2

\* A step of publishing, once the repository part is done.
LEMMA PublishStep ==
  ASSUME FlowInv, NEW c \in Caller, NEW pc \in Asking \cup HavingPull, NEW own, NEW rec,
         CallMoved(c, pc, own, rec), call[c].pc \in {"repo_done"} \cup Asking \cup HavingPull,
         UNCHANGED <<meta, ledger, tree, applied, prepared, calls>>,
         opened' \in [made : SUBSET Nat, open : SUBSET Nat], opened'.open \subseteq opened'.made,
         \E k \in Nat : opened'.made = 1 .. k, sent' \in Nat, WorldGrows,
         UNCHANGED record \/ RecordTrue(record)',
         RecordTrue(call[c].rec)',
         pc \in HavingPull => rec.pull \in opened'.made,
         pc # "save_slack" => rec.state # "COMPENSATED"
  PROVE  FlowInv'
<1>1. CallTrue(call[c]) /\ call[c].pc \in Committing
  BY FlowCall DEF Committing, Applying
<1>2. applied /\ prepared
  BY <1>1 DEF CallTrue
<1>3. pc \in Committing /\ pc \notin {"save_run", "save_committing", "save_committed", "repo_done"}
  BY DEF Committing, Asking, HavingPull
<1>4. CallTrue(call[c])'
  <2> HIDE DEF RecordTrue
  <2> QED BY <1>2, <1>3 DEF CallTrue, CallMoved
<1>5. FlowShape'
  BY DEF FlowInv, FlowShape, CallMoved
<1> QED BY <1>4, <1>5, FlowStep DEF CallMoved

\* What a call that publishes starts from.
LEMMA PublishFrom ==
  ASSUME FlowInv, NEW c \in Caller, call[c].pc \in {"repo_done"} \cup Asking \cup HavingPull
  PROVE  /\ applied /\ prepared /\ RecordTrue(call[c].rec) /\ call[c].rec \in FlowRecord
         /\ call[c].pc # "save_slack" => call[c].rec.state # "COMPENSATED"
         /\ call[c].pc \in HavingPull => call[c].rec.pull \in opened.made
         /\ opened \in [made : SUBSET Nat, open : SUBSET Nat] /\ opened.open \subseteq opened.made
         /\ (\E k \in Nat : opened.made = 1 .. k) /\ sent \in Nat
<1>1. CallTrue(call[c]) /\ call[c].pc \in Committing
  BY FlowCall DEF Committing, Applying
<1>2. RecordTrue(call[c].rec)
  BY <1>1 DEF CallTrue
<1> QED BY <1>1, <1>2 DEF CallTrue, RecordTrue, FlowInv, FlowShape

\* The steps of publishing that touch no provider.
LEMMA PublishMoves ==
  ASSUME FlowInv, NEW c \in Caller,
         F!RepoDone(c) \/ F!Saves(c) \/ F!KeepPull(c) \/ F!KeepPost(c)
  PROVE  FlowInv'
<1>1. /\ UNCHANGED <<meta, ledger, tree, applied, prepared, opened, sent, calls>>
      /\ call[c].pc \in {"repo_done", "save_repo", "save_github", "save_slack", "github", "slack"}
  BY DEF F!RepoDone, F!Saves, F!SaveRecord, F!KeepPull, F!KeepPost, F!At, F!Same,
         F!gatewayVars, F!flowVars
<1>2. WorldGrows
  BY <1>1 DEF WorldGrows
<1>3. call[c].pc \in {"repo_done"} \cup Asking \cup HavingPull
  BY <1>1 DEF Asking, HavingPull
<1>4. /\ applied /\ RecordTrue(call[c].rec) /\ call[c].rec \in FlowRecord
      /\ call[c].pc # "save_slack" => call[c].rec.state # "COMPENSATED"
      /\ call[c].pc \in HavingPull => call[c].rec.pull \in opened.made
      /\ opened \in [made : SUBSET Nat, open : SUBSET Nat] /\ opened.open \subseteq opened.made
      /\ (\E k \in Nat : opened.made = 1 .. k) /\ sent \in Nat
  BY <1>3, PublishFrom
<1>5. ASSUME NEW pc \in Asking \cup HavingPull, NEW rec, CallMoved(c, pc, call[c].own, rec),
             RecordTrue(rec), UNCHANGED record \/ RecordTrue(record)',
             pc \in HavingPull => rec.pull \in opened.made,
             pc # "save_slack" => rec.state # "COMPENSATED"
      PROVE  FlowInv'
  <2>1. RecordTrue(call[c].rec)'
    BY <1>1, <1>5 DEF RecordTrue, CallMoved
  <2> QED BY <1>1, <1>2, <1>3, <1>4, <1>5, <2>1, PublishStep
<1>6. CASE F!RepoDone(c)
  <2> DEFINE rec == [call[c].rec EXCEPT !.repo = "COMMITTED"]
  <2>1. CallMoved(c, "save_repo", call[c].own, rec) /\ UNCHANGED record
    BY <1>6, FlowMoves DEF F!RepoDone, F!flowVars
  <2>2. RecordTrue(rec) /\ rec.state = call[c].rec.state
    BY <1>4 DEF RecordTrue, FlowRecord
  <2>3. "save_repo" \in Asking /\ "save_repo" \notin HavingPull /\ call[c].pc = "repo_done"
    BY <1>6 DEF Asking, HavingPull, F!RepoDone, F!At
  <2> HIDE DEF rec
  <2> QED BY <1>4, <1>5, <2>1, <2>2, <2>3
<1>7. CASE F!KeepPull(c)
  <2>1. CallMoved(c, "save_github", call[c].own, call[c].rec) /\ UNCHANGED record
    BY <1>7, FlowMoves DEF F!KeepPull, F!flowVars
  <2>2. call[c].rec.pull \in opened.made /\ call[c].pc = "github"
    BY <1>4, <1>7 DEF RecordTrue, F!KeepPull, F!At
  <2>3. "save_github" \in HavingPull
    BY DEF HavingPull
  <2> QED BY <1>4, <1>5, <2>1, <2>2, <2>3
<1>8. CASE F!KeepPost(c)
  <2> DEFINE rec == [call[c].rec EXCEPT !.state = "COMMITTED"]
  <2>1. CallMoved(c, "save_slack", call[c].own, rec) /\ UNCHANGED record
    BY <1>8, FlowMoves DEF F!KeepPost, F!flowVars
  <2>2. call[c].pc = "slack" /\ call[c].rec.post # None
    BY <1>8 DEF F!KeepPost, F!At
  <2>3. call[c].rec.pull \in opened.made /\ "save_slack" \in HavingPull
    BY <1>4, <2>2 DEF HavingPull
  <2>4. sent > 0
    BY <1>4, <2>2 DEF RecordTrue
  <2>5. RecordTrue(rec) /\ rec.pull = call[c].rec.pull
    BY <1>4, <2>3, <2>4 DEF RecordTrue, FlowRecord
  <2> HIDE DEF rec
  <2> QED BY <1>4, <1>5, <2>1, <2>3, <2>5
<1>9. CASE F!Saves(c)
  <2>1. /\ record' = call[c].rec
        /\ \/ call[c].pc = "save_repo" /\ F!Goto(c, "github")
           \/ call[c].pc = "save_github" /\ F!Goto(c, "slack")
           \/ call[c].pc = "save_slack" /\ F!Return(c)
    BY <1>9 DEF F!Saves, F!SaveRecord, F!At
  <2>2. RecordTrue(record)'
    BY <1>1, <1>4, <2>1 DEF RecordTrue
  <2>3. CASE F!Return(c)
    <3>1. FlowShape'
      BY <1>1, <2>3, FlowCall DEF FlowInv, FlowShape
    <3> QED BY <1>1, <1>2, <2>2, <2>3, <3>1, FlowCall, FlowStep
  <2>4. CASE call[c].pc = "save_repo" /\ F!Goto(c, "github")
    <3>1. CallMoved(c, "github", call[c].own, call[c].rec)
      BY <2>4, FlowMoves
    <3>2. "github" \in Asking /\ "github" \notin HavingPull
      BY DEF Asking, HavingPull
    <3> QED BY <1>4, <1>5, <2>2, <2>4, <3>1, <3>2
  <2>5. CASE call[c].pc = "save_github" /\ F!Goto(c, "slack")
    <3>1. CallMoved(c, "slack", call[c].own, call[c].rec)
      BY <2>5, FlowMoves
    <3>2. "slack" \in HavingPull /\ "save_github" \in HavingPull
      BY DEF HavingPull
    <3> QED BY <1>4, <1>5, <2>2, <2>5, <3>1, <3>2
  <2> QED BY <2>1, <2>3, <2>4, <2>5
<1> QED BY <1>6, <1>7, <1>8, <1>9

\* Counting pull requests is counting a finite set.
LEMMA PullsCounted ==
  ASSUME NEW T
  PROVE  F!Cardinality(T) = Cardinality(T)
BY DEF F!Cardinality, Cardinality

\* The pull request is looked for, created, or closed again.
LEMMA PullKeeps ==
  ASSUME FlowInv, NEW c \in Caller, F!FindPull(c) \/ F!CreatePull(c) \/ F!Compensate(c)
  PROVE  FlowInv'
<1>1. /\ UNCHANGED <<meta, ledger, tree, applied, prepared, record, sent, calls>>
      /\ call[c].pc \in {"github", "github_create", "github_again", "close"}
  BY DEF F!FindPull, F!CreatePull, F!Compensate, F!At, F!Same, F!gatewayVars, F!flowVars
<1>2. call[c].pc \in {"repo_done"} \cup Asking \cup HavingPull
  BY <1>1 DEF Asking, HavingPull
<1>3. /\ applied /\ RecordTrue(call[c].rec) /\ call[c].rec \in FlowRecord
      /\ call[c].rec.state # "COMPENSATED"
      /\ call[c].pc \in HavingPull => call[c].rec.pull \in opened.made
      /\ opened \in [made : SUBSET Nat, open : SUBSET Nat] /\ opened.open \subseteq opened.made
      /\ (\E k \in Nat : opened.made = 1 .. k) /\ sent \in Nat
  BY <1>1, <1>2, PublishFrom
\* Ending the call, going on asking, or keeping the receipt of a pull request.
<1>4. ASSUME WorldGrows, opened' \in [made : SUBSET Nat, open : SUBSET Nat],
             opened'.open \subseteq opened'.made, \E k \in Nat : opened'.made = 1 .. k,
             \/ F!Return(c) \/ F!Goto(c, "github_create") \/ F!Goto(c, "github_again")
             \/ \E s \in {"COMMITTED", "RECOVERED"}, n \in opened'.made : F!HasPull(c, s, n)
      PROVE  FlowInv'
  <2>1. CASE F!Return(c)
    <3>1. FlowShape'
      BY <1>1, <1>4, <2>1, FlowCall DEF FlowInv, FlowShape
    <3> QED BY <1>1, <1>4, <2>1, <3>1, FlowCall, FlowStep
  <2>2. ASSUME NEW pc \in {"github_create", "github_again"}, F!Goto(c, pc) PROVE FlowInv'
    <3>1. CallMoved(c, pc, call[c].own, call[c].rec) /\ pc \in Asking /\ pc \notin HavingPull
      BY <2>2, FlowMoves DEF Asking, HavingPull
    <3>2. RecordTrue(call[c].rec)'
      BY <1>3, <1>4, <3>1 DEF RecordTrue, CallMoved, WorldGrows
    <3> QED BY <1>1, <1>2, <1>3, <1>4, <3>1, <3>2, PublishStep
  <2>3. ASSUME NEW s \in {"COMMITTED", "RECOVERED"}, NEW n \in opened'.made, F!HasPull(c, s, n)
        PROVE  FlowInv'
    <3> DEFINE rec == WithPull(call[c].rec, s, n)
    <3>1. CallMoved(c, "save_github", call[c].own, rec)
      BY <1>3, <2>3, ReceiptHeld
    <3>2. n \in Nat
      BY <1>4
    <3>3. /\ rec \in FlowRecord /\ rec.state = call[c].rec.state /\ rec.repo = call[c].rec.repo
          /\ rec.post = call[c].rec.post /\ rec.pull = n
      <4> DEFINE r == call[c].rec
      <4>1. r \in FlowRecord
        BY <1>3
      <4> HIDE DEF r
      <4>2. /\ WithPull(r, s, n) \in FlowRecord /\ WithPull(r, s, n).state = r.state
            /\ WithPull(r, s, n).repo = r.repo /\ WithPull(r, s, n).post = r.post
            /\ WithPull(r, s, n).pull = n
        BY <3>2, <4>1, ReceiptSaid
      <4> QED BY <4>2 DEF r
    <3> HIDE DEF rec
    <3>4. RecordTrue(call[c].rec)'
      BY <1>1, <1>3, <1>4, <2>3, <3>1, <3>3 DEF RecordTrue, CallMoved
    <3>5. "save_github" \in HavingPull
      BY DEF HavingPull
    <3> QED BY <1>1, <1>2, <1>3, <1>4, <2>3, <3>1, <3>3, <3>4, <3>5, PublishStep
  <2> QED BY <1>4, <2>1, <2>2, <2>3
<1>5. CASE F!FindPull(c)
  <2>1. UNCHANGED opened /\ WorldGrows
    BY <1>1, <1>5 DEF F!FindPull, F!flowVars, WorldGrows
  <2>2. \/ F!Return(c) \/ F!Goto(c, "github_create")
        \/ \E n \in opened.open : F!HasPull(c, "RECOVERED", n)
    BY <1>5 DEF F!FindPull
  <2> QED BY <1>3, <1>4, <2>1, <2>2
<1>6. CASE F!CreatePull(c)
  <2> DEFINE n == F!Cardinality(opened.made) + 1
  <2>1. PICK k \in Nat : opened.made = 1 .. k
    BY <1>3
  <2>2. n = k + 1 /\ n \in Nat
    <3>1. Cardinality(1 .. k) = k
      <4>1. 1 \in Int /\ k \in Int
        OBVIOUS
      <4>2. Cardinality(1 .. k) = IF 1 > k THEN 0 ELSE k - 1 + 1
        BY <4>1, FS_Interval
      <4> QED BY <4>2
    <3> QED BY <2>1, <3>1, PullsCounted
  <2> HIDE DEF n
  <2>3. CASE opened' = [made |-> opened.made \cup {n}, open |-> {n}]
    <3>1. opened'.made = 1 .. (k + 1) /\ opened'.open = {n} /\ n \in opened'.made /\ n \notin opened.made
      BY <2>1, <2>2, <2>3
    <3>2. /\ opened' \in [made : SUBSET Nat, open : SUBSET Nat]
          /\ opened'.open \subseteq opened'.made /\ opened.made \subseteq opened'.made
          /\ k + 1 \in Nat
      BY <1>3, <2>2, <2>3
    <3>3. WorldGrows
      BY <1>1, <3>1, <3>2 DEF WorldGrows
    <3>4. F!HasPull(c, "COMMITTED", n) \/ F!Goto(c, "github_again")
      BY <1>6, <2>3 DEF F!CreatePull, n
    <3> QED BY <1>4, <3>1, <3>2, <3>3, <3>4
  <2>4. CASE UNCHANGED opened /\ F!Goto(c, "github_again")
    <3>1. WorldGrows
      BY <1>1, <2>4 DEF WorldGrows
    <3> QED BY <1>3, <1>4, <2>4, <3>1
  <2> QED BY <1>6, <2>3, <2>4 DEF F!CreatePull, n
<1>7. CASE F!Compensate(c)
  <2> DEFINE n == call[c].rec.pull
  <2>1. PICK v \in {"COMPENSATED", "FAILED_MANUAL_INTERVENTION"} :
          /\ call' = [call EXCEPT ![c].pc = "save_slack", ![c].rec.state = v]
          /\ UNCHANGED opened \/ opened' = [opened EXCEPT !.open = opened.open \ {n}]
          /\ v = "COMPENSATED" => opened' = [opened EXCEPT !.open = opened.open \ {n}]
    BY <1>7 DEF F!Compensate, F!ClosePull
  <2>2. n \in opened.made
    BY <1>3, <1>7 DEF F!Compensate, F!At, HavingPull
  <2>3. /\ opened' \in [made : SUBSET Nat, open : SUBSET Nat] /\ opened'.made = opened.made
        /\ opened'.open \subseteq opened.open /\ (v = "COMPENSATED" => n \notin opened'.open)
    BY <1>3, <2>1
  <2>4. WorldGrows
    BY <1>1, <2>3 DEF WorldGrows
  <2> DEFINE rec == [call[c].rec EXCEPT !.state = v]
  <2>5. CallMoved(c, "save_slack", call[c].own, rec)
    BY <2>1, FlowMoves
  <2>6. /\ rec \in FlowRecord /\ rec.state = v /\ rec.repo = call[c].rec.repo
        /\ rec.post = call[c].rec.post /\ rec.pull = n
    BY <1>3 DEF FlowRecord
  <2> HIDE DEF rec
  <2>7. RecordTrue(call[c].rec)'
    BY <1>1, <1>3, <2>2, <2>3, <2>5, <2>6 DEF RecordTrue, CallMoved
  <2>8. "save_slack" \in HavingPull
    BY DEF HavingPull
  <2> QED BY <1>1, <1>2, <1>3, <2>2, <2>3, <2>4, <2>5, <2>6, <2>7, <2>8, PublishStep
<1> QED BY <1>5, <1>6, <1>7

\* The message is looked for or sent.
LEMMA PostKeeps ==
  ASSUME FlowInv, NEW c \in Caller, F!FindPost(c) \/ F!SendPost(c)
  PROVE  FlowInv'
<1>1. /\ UNCHANGED <<meta, ledger, tree, applied, prepared, record, opened, calls>>
      /\ call[c].pc \in {"slack", "slack_again", "slack_send"}
  BY DEF F!FindPost, F!SendPost, F!At, F!Same, F!gatewayVars
<1>2. call[c].pc \in {"repo_done"} \cup Asking \cup HavingPull /\ call[c].pc \in HavingPull
  BY <1>1 DEF Asking, HavingPull
<1>3. /\ applied /\ RecordTrue(call[c].rec) /\ call[c].rec \in FlowRecord
      /\ call[c].rec.state # "COMPENSATED" /\ call[c].rec.pull \in opened.made
      /\ opened \in [made : SUBSET Nat, open : SUBSET Nat] /\ opened.open \subseteq opened.made
      /\ (\E k \in Nat : opened.made = 1 .. k) /\ sent \in Nat
  BY <1>1, <1>2, PublishFrom
<1>4. sent' \in {sent, sent + 1}
  BY DEF F!FindPost, F!SendPost
<1>5. WorldGrows
  BY <1>1, <1>3, <1>4 DEF WorldGrows
<1>6. CASE F!Return(c)
  <2>1. FlowShape'
    BY <1>1, <1>3, <1>4, <1>6, FlowCall DEF FlowInv, FlowShape
  <2> QED BY <1>1, <1>5, <1>6, <2>1, FlowCall, FlowStep
<1>7. ASSUME NEW pc \in {"slack_send", "slack_again"}, F!Goto(c, pc) PROVE FlowInv'
  <2>1. CallMoved(c, pc, call[c].own, call[c].rec) /\ pc \in HavingPull
    BY <1>7, FlowMoves DEF HavingPull
  <2>2. RecordTrue(call[c].rec)'
    BY <1>3, <1>5, <2>1 DEF RecordTrue, CallMoved, WorldGrows
  <2> QED BY <1>1, <1>2, <1>3, <1>4, <1>5, <2>1, <2>2, PublishStep
<1>8. ASSUME NEW s \in {"COMMITTED", "RECOVERED"}, F!HasPost(c, s), sent' > 0 PROVE FlowInv'
  <2> DEFINE rec == WithPost(call[c].rec, s, sent')
  <2>1. CallMoved(c, "save_slack", call[c].own, rec)
    BY <1>3, <1>8, ReceiptHeld
  <2>2. sent' \in Nat
    BY <1>3, <1>4
  <2>3. /\ rec \in FlowRecord /\ rec.state = "COMMITTED" /\ rec.repo = call[c].rec.repo
        /\ rec.pull = call[c].rec.pull
    <3> DEFINE r == call[c].rec
               n == sent'
    <3>1. r \in FlowRecord /\ n \in Nat
      BY <1>3, <2>2
    <3> HIDE DEF r, n
    <3>2. /\ WithPost(r, s, n) \in FlowRecord /\ WithPost(r, s, n).state = "COMMITTED"
          /\ WithPost(r, s, n).repo = r.repo /\ WithPost(r, s, n).pull = r.pull
      BY <3>1, ReceiptSaid
    <3> QED BY <3>2 DEF r, n
  <2> HIDE DEF rec
  <2>4. RecordTrue(call[c].rec)'
    BY <1>1, <1>3, <1>8, <2>1, <2>3 DEF RecordTrue, CallMoved
  <2>5. "save_slack" \in HavingPull
    BY DEF HavingPull
  <2> QED BY <1>1, <1>2, <1>3, <1>5, <2>1, <2>2, <2>3, <2>4, <2>5, PublishStep
<1>9. ASSUME F!SlackFails(c) PROVE FlowInv'
  <2>1. CASE F!Return(c)
    BY <1>6, <2>1
  <2>2. CASE call' = [call EXCEPT ![c].pc = "close", ![c].rec.slack = "FAILED"]
    <3> DEFINE rec == [call[c].rec EXCEPT !.slack = "FAILED"]
    <3>1. CallMoved(c, "close", call[c].own, rec) /\ "close" \in HavingPull
      BY <2>2, FlowMoves DEF HavingPull
    <3>2. /\ rec \in FlowRecord /\ rec.state = call[c].rec.state /\ rec.repo = call[c].rec.repo
          /\ rec.pull = call[c].rec.pull /\ rec.post = call[c].rec.post
      BY <1>3 DEF FlowRecord
    <3> HIDE DEF rec
    <3>3. RecordTrue(call[c].rec)'
      BY <1>1, <1>3, <1>5, <3>1, <3>2 DEF RecordTrue, CallMoved, WorldGrows
    <3> QED BY <1>1, <1>2, <1>3, <1>4, <1>5, <3>1, <3>2, <3>3, PublishStep
  <2> QED BY <1>9, <2>1, <2>2 DEF F!SlackFails
<1>10. CASE F!FindPost(c)
  <2>1. \/ F!HasPost(c, "RECOVERED") /\ sent > 0 /\ sent' = sent
        \/ F!Goto(c, "slack_send") \/ F!SlackFails(c)
    BY <1>10 DEF F!FindPost
  <2> QED BY <1>7, <1>8, <1>9, <2>1
<1>11. CASE F!SendPost(c)
  <2>1. \/ sent' = sent + 1 /\ F!HasPost(c, "COMMITTED")
        \/ F!Goto(c, "slack_again")
    BY <1>11 DEF F!SendPost
  <2>2. sent' = sent + 1 => sent' > 0
    BY <1>3
  <2> QED BY <1>7, <1>8, <2>1, <2>2
<1> QED BY <1>10, <1>11

\* Users move their tree and their branch, a second preview rewrites the diff,
\* an approval is recorded, a process dies.
LEMMA WorldKeeps ==
  ASSUME FlowBounds, FlowInv,
         \/ F!MoveTree \/ F!MoveBase \/ F!RewriteSchema
         \/ \E c \in Caller : F!CaptureApproval(c) \/ F!Crash(c)
  PROVE  FlowInv'
<1>1. CASE \E c \in Caller : F!Crash(c)
  <2>1. PICK c \in Caller : F!Crash(c)
    BY <1>1
  <2>2. F!Return(c) /\ UNCHANGED <<meta, ledger, tree, applied, prepared, record, opened, sent, calls>>
    BY <2>1 DEF F!Crash, F!Same, F!gatewayVars, F!flowVars
  <2> QED BY <2>2, FlowCall, QuietStep
<1>2. CASE F!MoveTree \/ F!MoveBase \/ F!RewriteSchema \/ \E c \in Caller : F!CaptureApproval(c)
  <2>1. /\ UNCHANGED <<meta, ledger, applied, prepared, record, opened, sent, call>>
        /\ tree' \in {tree, "moved"}
        /\ calls' = calls \/ (calls < MaxCalls /\ calls' = calls + 1)
    BY <1>2 DEF F!MoveTree, F!MoveBase, F!RewriteSchema, F!CaptureApproval, F!Begin, F!Same,
                F!gatewayVars, F!flowVars
  <2>2. calls' \in 0 .. MaxCalls
    BY <2>1 DEF FlowInv, FlowShape, FlowBounds
  <2>3. FlowShape'
    BY <2>1, <2>2 DEF FlowInv, FlowShape
  <2>4. FilesTrue'
    BY <2>1 DEF FlowInv, FilesTrue, MetaTrue, RecordTrue
  <2>5. \A c \in Caller : CallTrue(call[c])'
    BY <2>1 DEF FlowInv, CallTrue, RecordTrue
  <2> QED BY <2>3, <2>4, <2>5 DEF FlowInv
<1> QED BY <1>1, <1>2

\* Every step of a caller or of the world keeps the invariant.
LEMMA FlowNextKeeps == FlowBounds /\ FlowInv /\ [F!FlowNext]_(F!vars) => FlowInv'
<1> SUFFICES ASSUME FlowBounds, FlowInv, [F!FlowNext]_(F!vars) PROVE FlowInv'
  OBVIOUS
<1>1. CASE \/ F!MoveTree \/ F!MoveBase \/ F!RewriteSchema
           \/ \E c \in Caller : F!CaptureApproval(c) \/ F!Crash(c)
  BY <1>1, WorldKeeps
<1>2. ASSUME NEW c \in Caller,
             \/ F!Preview(c) \/ F!StartRun(c) \/ F!CommandFails(c) \/ F!CapturePatch(c)
             \/ F!SaveRun(c) \/ F!VerifyRun(c)
      PROVE  FlowInv'
  BY <1>2, AuthoringKeeps
<1>3. ASSUME NEW c \in Caller,
             \/ F!StartCommit(c) \/ F!ReconcileCommit(c) \/ F!CheckBaseFreshness(c)
             \/ F!EnsureRepo(c) \/ F!LoadForCommit(c) \/ F!SaveCommitting(c) \/ F!ApplyPatch(c)
             \/ F!RecoverRepo(c) \/ F!AppendCommitted(c) \/ F!SaveCommitted(c)
      PROVE  FlowInv'
  BY <1>3, BeginsKeep, ApplyingMoves, ApplyingKeeps
<1>4. ASSUME NEW c \in Caller,
             \/ F!RepoDone(c) \/ F!Saves(c) \/ F!FindPull(c) \/ F!CreatePull(c) \/ F!KeepPull(c)
             \/ F!FindPost(c) \/ F!SendPost(c) \/ F!KeepPost(c) \/ F!Compensate(c)
      PROVE  FlowInv'
  BY <1>4, PublishMoves, PullKeeps, PostKeeps
<1>5. CASE UNCHANGED F!vars
  BY <1>5 DEF F!vars, FlowInv, FlowShape, FilesTrue, MetaTrue, RecordTrue, CallTrue
<1> QED BY <1>1, <1>2, <1>3, <1>4, <1>5 DEF F!FlowNext

\* What transaction.json, its ledger and mvpflow-commit.json say has happened
\* (SpikeService.Commit and Recover, mvpflow.Service.CommitWithCompensation and
\* ReconcileCommit), for any callers that overlap and stop anywhere.
THEOREM FilesToldTruly ==
  ASSUME FlowBounds
  PROVE  F!FlowSpec => []FilesTellTheTruth
<1>1. F!Init => FlowInv
  BY FlowStarts
<1>2. FlowInv /\ [F!FlowNext]_(F!vars) => FlowInv'
  BY FlowNextKeeps
<1>3. FlowInv => FilesTellTheTruth
  BY DEF FlowInv, FlowShape, FilesTrue, MetaTrue, RecordTrue, FlowMeta, FilesTellTheTruth,
         F!FlowTypeOK, F!FilesTellTheTruth
<1> QED BY <1>1, <1>2, <1>3, PTL DEF F!FlowSpec

-----------------------------------------------------------------------------
(* Publishing once: a careful caller is alone, and knows what was published *)
(* before it from the stored record or by looking.                         *)

\* What a careful call knows, besides, of what is published.
CallOnce(r) ==
  /\ r.pc \in Committing => record # None /\ (r.rec.pull = None => record.pull = None)
  /\ r.pc \in HavingPull \ {"save_github"} => record.pull # None
  /\ ~r.reconcile /\ r.pc \in Applying \cup {"save_repo", "github"} => opened.made = {} /\ sent = 0
  /\ ~r.reconcile /\ r.pc \in Asking \cup {"save_github", "slack"} => sent = 0
  /\ r.pc = "github_create" => opened.made = {}
  /\ r.pc = "slack_send" => sent = 0

PublishedOnce ==
  /\ record = None => opened.made = {} /\ sent = 0
  /\ opened.made \subseteq {1} /\ sent <= 1
  /\ opened.made # {} /\ record.pull = None => 1 \in opened.open

OneAtWork == \A c, d \in Caller : call[c].pc # "idle" /\ call[d].pc # "idle" => c = d

OnceInv == careful => OneAtWork /\ PublishedOnce /\ \A c \in Caller : CallOnce(call[c])

\* With every other call idle, what is to be shown is about the one that moves.
LEMMA OnceStep ==
  ASSUME NEW c \in Caller,
         \A d \in Caller \ {c} : call[d].pc = "idle" /\ call'[d] = call[d],
         CallOnce(call[c])', PublishedOnce'
  PROVE  OnceInv'
<1>1. OneAtWork'
  BY DEF OneAtWork
<1>2. \A d \in Caller : CallOnce(call[d])'
  BY DEF CallOnce, Committing, Applying, Asking, HavingPull
<1> QED BY <1>1, <1>2 DEF OnceInv

\* A call that ends, or that stages a transaction, publishes nothing.
LEMMA NothingPublished ==
  ASSUME NEW c \in Caller, call[c].pc \in {"idle"} \cup Authoring
  PROVE  CallOnce(call[c])
  BY DEF CallOnce, Authoring, Committing, Applying, Asking, HavingPull

\* A careful call at work is the only one.
LEMMA AloneAtWork ==
  ASSUME OnceInv, careful, NEW c \in Caller, call[c].pc # "idle"
  PROVE  \A d \in Caller \ {c} : call[d].pc = "idle"
  BY DEF OnceInv, OneAtWork

\* Staging publishes nothing.
LEMMA AuthoringOnce ==
  ASSUME FlowInv, OnceInv, careful', NEW c \in Caller,
         \/ F!Preview(c) \/ F!StartRun(c) \/ F!CommandFails(c) \/ F!CapturePatch(c)
         \/ F!SaveRun(c) \/ F!VerifyRun(c)
  PROVE  OnceInv'
<1>1. UNCHANGED <<record, opened, sent>> /\ careful
  BY DEF F!Preview, F!StartRun, F!CommandFails, F!CapturePatch, F!SaveRun, F!VerifyRun,
         F!gatewayVars, F!flowVars, F!Begin, F!Same
<1>2. \A d \in Caller \ {c} : call[d].pc = "idle"
  <2>1. CASE F!Preview(c)
    BY <2>1 DEF F!Preview, F!Begin, F!At
  <2>2. CASE \/ F!StartRun(c) \/ F!CommandFails(c) \/ F!CapturePatch(c)
             \/ F!SaveRun(c) \/ F!VerifyRun(c)
    <3>1. call[c].pc # "idle"
      BY <2>2 DEF F!StartRun, F!CommandFails, F!CapturePatch, F!SaveRun, F!VerifyRun, F!At
    <3> QED BY <1>1, <3>1, AloneAtWork
  <2> QED BY <2>1, <2>2
<1>3. call'[c].pc \in {"idle"} \cup Authoring /\ \A d \in Caller \ {c} : call'[d] = call[d]
  <2>1. \/ F!Return(c)
        \/ \E pc \in Authoring : F!Goto(c, pc)
        \/ \E own : call' = [call EXCEPT ![c].pc = "save_run", ![c].own = own]
    BY DEF F!Preview, F!StartRun, F!CommandFails, F!CapturePatch, F!SaveRun, F!VerifyRun, Authoring
  <2>2. CASE F!Return(c)
    BY <2>2, FlowCall DEF F!Idle
  <2>3. CASE \E pc \in Authoring : F!Goto(c, pc)
    BY <2>3, FlowMoves DEF CallMoved
  <2>4. CASE \E own : call' = [call EXCEPT ![c].pc = "save_run", ![c].own = own]
    <3>1. PICK own : call' = [call EXCEPT ![c].pc = "save_run", ![c].own = own]
      BY <2>4
    <3>2. CallMoved(c, "save_run", own, call[c].rec)
      BY <3>1, FlowMoves
    <3> QED BY <3>2 DEF CallMoved, Authoring
  <2> QED BY <2>1, <2>2, <2>3, <2>4
<1>4. CallOnce(call[c])'
  BY <1>3 DEF CallOnce, Authoring, Committing, Applying, Asking, HavingPull
<1>5. PublishedOnce'
  BY <1>1 DEF OnceInv, PublishedOnce
<1> QED BY <1>2, <1>3, <1>4, <1>5, OnceStep

\* A careful caller begins anew only where nothing has begun, and otherwise looks first.
LEMMA BeginsOnce ==
  ASSUME FlowBounds, FlowInv, OnceInv, careful', NEW c \in Caller,
         F!StartCommit(c) \/ F!ReconcileCommit(c)
  PROVE  OnceInv'
<1>1. /\ UNCHANGED <<opened, sent>> /\ careful /\ \A d \in Caller \ {c} : call[d].pc = "idle"
  BY DEF F!StartCommit, F!ReconcileCommit, F!Begin, F!At, F!flowVars
<1>2. F!NewRecord \in FlowRecord /\ F!NewRecord.pull = None
  BY DEF FlowRecord, F!NewRecord
<1>3. CASE F!StartCommit(c)
  <2>1. record = None /\ record' = F!NewRecord
    BY <1>3 DEF F!StartCommit, F!Begin
  <2>2. opened.made = {} /\ sent = 0
    BY <1>1, <2>1 DEF OnceInv, PublishedOnce
  <2>3. /\ call'[c].pc = "fresh" /\ call'[c].rec = F!NewRecord
        /\ \A d \in Caller \ {c} : call'[d] = call[d]
    BY <1>3, FlowCall DEF F!StartCommit
  <2>4. CallOnce(call[c])'
    BY <1>1, <1>2, <2>1, <2>2, <2>3 DEF CallOnce, FlowBounds, Committing, Applying, Asking, HavingPull
  <2>5. PublishedOnce'
    BY <1>1, <1>2, <2>1, <2>2 DEF PublishedOnce, FlowBounds
  <2> QED BY <1>1, <2>3, <2>4, <2>5, OnceStep
<1>4. CASE F!ReconcileCommit(c)
  <2>1. record # None /\ UNCHANGED record
    BY <1>4 DEF F!ReconcileCommit, F!flowVars
  <2>2. /\ call'[c].pc = "fresh" /\ call'[c].rec = record /\ call'[c].reconcile = TRUE
        /\ \A d \in Caller \ {c} : call'[d] = call[d]
    BY <1>4, FlowCall DEF F!ReconcileCommit
  <2>3. CallOnce(call[c])'
    BY <1>1, <2>1, <2>2 DEF CallOnce, Committing, Applying, Asking, HavingPull
  <2>4. PublishedOnce'
    BY <1>1, <2>1 DEF OnceInv, PublishedOnce
  <2> QED BY <1>1, <2>2, <2>3, <2>4, OnceStep
<1> QED BY <1>3, <1>4

\* The steps of a call that is publishing: what it then knows is enough.
LEMMA GoingOn ==
  ASSUME FlowInv, OnceInv, careful, NEW c \in Caller, call[c].pc # "idle",
         \/ F!Return(c)
         \/ (\E pc, own, rec : CallMoved(c, pc, own, rec)) /\ CallOnce(call[c])',
         PublishedOnce'
  PROVE  OnceInv'
<1>1. \A d \in Caller \ {c} : call[d].pc = "idle"
  BY AloneAtWork
<1>2. CASE F!Return(c)
  <2>1. call'[c].pc = "idle" /\ \A d \in Caller \ {c} : call'[d] = call[d]
    BY <1>2, FlowCall DEF F!Idle
  <2>2. CallOnce(call[c])'
    BY <2>1 DEF CallOnce, Committing, Applying, Asking, HavingPull
  <2> QED BY <1>1, <2>1, <2>2, OnceStep
<1>3. CASE (\E pc, own, rec : CallMoved(c, pc, own, rec)) /\ CallOnce(call[c])'
  <2>1. \A d \in Caller \ {c} : call'[d] = call[d]
    BY <1>3 DEF CallMoved
  <2> QED BY <1>1, <1>3, <2>1, OnceStep
<1> QED BY <1>2, <1>3

\* Publishing the repository part publishes nothing elsewhere.
LEMMA ApplyingOnce ==
  ASSUME FlowInv, OnceInv, careful', NEW c \in Caller,
         \/ F!CheckBaseFreshness(c) \/ F!EnsureRepo(c) \/ F!LoadForCommit(c) \/ F!SaveCommitting(c)
         \/ F!ApplyPatch(c) \/ F!RecoverRepo(c) \/ F!AppendCommitted(c) \/ F!SaveCommitted(c)
         \/ F!RepoDone(c)
  PROVE  OnceInv'
<1>1. /\ UNCHANGED <<record, opened, sent>> /\ careful
      /\ call[c].pc \in Applying /\ call[c].pc # "idle"
  BY DEF F!CheckBaseFreshness, F!EnsureRepo, F!LoadForCommit, F!SaveCommitting, F!ApplyPatch,
         F!RecoverRepo, F!AppendCommitted, F!SaveCommitted, F!RepoDone, F!Same, F!At,
         F!gatewayVars, F!flowVars, Applying
<1>2. call[c].rec \in FlowRecord
  BY <1>1, FlowCall DEF CallTrue, RecordTrue, Committing, Applying
<1>3. \/ F!Return(c)
      \/ \E pc \in Applying \cup {"save_repo"} : \E own, rec :
           CallMoved(c, pc, own, rec) /\ rec.pull = call[c].rec.pull
  <2>1. CASE F!RepoDone(c)
    <3>1. CallMoved(c, "save_repo", call[c].own, [call[c].rec EXCEPT !.repo = "COMMITTED"])
      BY <2>1, FlowMoves DEF F!RepoDone
    <3>2. [call[c].rec EXCEPT !.repo = "COMMITTED"].pull = call[c].rec.pull
      BY <1>2 DEF FlowRecord
    <3> QED BY <3>1, <3>2
  <2>2. CASE F!LoadForCommit(c) \/ F!RecoverRepo(c)
    <3>1. \/ F!Return(c)
          \/ \E pc \in {"save_committing", "applied"} :
               call' = [call EXCEPT ![c].pc = pc, ![c].own = meta]
      BY <2>2 DEF F!LoadForCommit, F!RecoverRepo
    <3>2. ASSUME NEW pc \in {"save_committing", "applied"},
                 call' = [call EXCEPT ![c].pc = pc, ![c].own = meta]
          PROVE  CallMoved(c, pc, meta, call[c].rec) /\ pc \in Applying
      BY <3>2, FlowMoves DEF Applying
    <3> QED BY <3>1, <3>2
  <2>3. CASE \/ F!CheckBaseFreshness(c) \/ F!EnsureRepo(c) \/ F!SaveCommitting(c)
             \/ F!ApplyPatch(c) \/ F!AppendCommitted(c) \/ F!SaveCommitted(c)
    <3>1. F!Return(c) \/ \E pc \in Applying \cup {"save_repo"} : F!Goto(c, pc)
      BY <2>3 DEF F!CheckBaseFreshness, F!EnsureRepo, F!SaveCommitting, F!ApplyPatch,
                  F!AppendCommitted, F!SaveCommitted, Applying
    <3>2. ASSUME NEW pc \in Applying \cup {"save_repo"}, F!Goto(c, pc)
          PROVE  CallMoved(c, pc, call[c].own, call[c].rec)
      BY <3>2, FlowMoves
    <3> QED BY <3>1, <3>2
  <2> QED BY <2>1, <2>2, <2>3
<1>4. ASSUME NEW pc \in Applying \cup {"save_repo"}, NEW own, NEW rec, CallMoved(c, pc, own, rec),
             rec.pull = call[c].rec.pull
      PROVE  CallOnce(call[c])'
  <2>1. CallOnce(call[c]) /\ PublishedOnce
    BY <1>1 DEF OnceInv
  <2> QED BY <1>1, <1>4, <2>1 DEF CallOnce, CallMoved, Committing, Applying, Asking, HavingPull
<1>5. PublishedOnce'
  BY <1>1 DEF OnceInv, PublishedOnce
<1> QED BY <1>1, <1>3, <1>4, <1>5, GoingOn

\* A call that looks before it acts again finds what is there, and one that
\* creates does so where nothing was.
LEMMA PullOnce ==
  ASSUME FlowBounds, FlowInv, OnceInv, careful', NEW c \in Caller,
         F!FindPull(c) \/ F!CreatePull(c) \/ F!KeepPull(c)
  PROVE  OnceInv'
<1>1. /\ UNCHANGED <<record, sent>> /\ careful
      /\ call[c].pc \in {"github", "github_create", "github_again"} /\ call[c].pc # "idle"
  BY DEF F!FindPull, F!CreatePull, F!KeepPull, F!At, F!Same, F!flowVars
<1>2. /\ call[c].pc \in Committing /\ call[c].pc \in Asking /\ CallOnce(call[c]) /\ PublishedOnce
      /\ call[c].rec \in FlowRecord /\ record # None
      /\ opened \in [made : SUBSET Nat, open : SUBSET Nat] /\ opened.open \subseteq opened.made
  <2>1. call[c].pc \in Committing /\ call[c].pc \in Asking
    BY <1>1 DEF Committing, Asking
  <2>2. CallOnce(call[c]) /\ PublishedOnce
    BY <1>1 DEF OnceInv
  <2>3. call[c].rec \in FlowRecord
    BY <2>1, FlowCall DEF CallTrue, RecordTrue
  <2> QED BY <2>1, <2>2, <2>3 DEF CallOnce, FlowInv, FlowShape
<1>3. ASSUME NEW s \in {"COMMITTED", "RECOVERED"}, NEW n \in Nat, F!HasPull(c, s, n),
             ~call[c].reconcile => sent = 0, PublishedOnce'
      PROVE  OnceInv'
  <2> DEFINE rec == WithPull(call[c].rec, s, n)
  <2>1. CallMoved(c, "save_github", call[c].own, rec)
    BY <1>2, <1>3, ReceiptHeld
  <2>2. rec.pull = n /\ n # None
    <3> DEFINE r == call[c].rec
    <3>1. r \in FlowRecord
      BY <1>2
    <3> HIDE DEF r
    <3>2. WithPull(r, s, n).pull = n
      BY <3>1, ReceiptSaid
    <3> QED BY <3>2 DEF r, FlowBounds
  <2> HIDE DEF rec
  <2>3. CallOnce(call[c])'
    BY <1>1, <1>2, <1>3, <2>1, <2>2 DEF CallOnce, CallMoved, Applying, Asking, HavingPull
  <2> QED BY <1>1, <1>3, <2>1, <2>3, GoingOn
<1>4. ASSUME NEW pc \in {"github_create", "github_again", "save_github"}, F!Goto(c, pc),
             ~call[c].reconcile => sent = 0, pc = "github_create" => opened'.made = {}, PublishedOnce'
      PROVE  OnceInv'
  <2>1. CallMoved(c, pc, call[c].own, call[c].rec)
    BY <1>4, FlowMoves
  <2>2. CallOnce(call[c])'
    BY <1>1, <1>2, <1>4, <2>1 DEF CallOnce, CallMoved, Applying, Asking, HavingPull
  <2> QED BY <1>1, <1>4, <2>1, <2>2, GoingOn
<1>5. ~call[c].reconcile => sent = 0
  BY <1>2 DEF CallOnce
<1>6. CASE F!KeepPull(c)
  <2>1. F!Goto(c, "save_github") /\ UNCHANGED opened
    BY <1>6 DEF F!KeepPull, F!flowVars
  <2>2. PublishedOnce'
    BY <1>1, <1>2, <2>1 DEF PublishedOnce
  <2> QED BY <1>4, <1>5, <2>1, <2>2
<1>7. CASE F!FindPull(c)
  <2>1. UNCHANGED opened /\ call[c].rec.pull = None
    BY <1>7 DEF F!FindPull, F!flowVars
  <2>2. PublishedOnce'
    BY <1>1, <1>2, <2>1 DEF PublishedOnce
  <2>3. \/ \E n \in opened.open : F!HasPull(c, "RECOVERED", n)
        \/ opened.open = {} /\ F!Goto(c, "github_create")
        \/ F!Return(c)
    BY <1>7 DEF F!FindPull
  <2>4. opened.open = {} => opened.made = {}
    BY <1>2, <2>1 DEF PublishedOnce, CallOnce
  <2>5. CASE F!Return(c)
    BY <1>1, <2>2, <2>5, GoingOn
  <2> QED BY <1>2, <1>3, <1>4, <1>5, <2>1, <2>2, <2>3, <2>4, <2>5
<1>8. CASE F!CreatePull(c)
  <2> DEFINE n == F!Cardinality(opened.made) + 1
  <2>1. \/ /\ opened.open = {} /\ opened' = [made |-> opened.made \cup {n}, open |-> {n}]
           /\ F!HasPull(c, "COMMITTED", n) \/ F!Goto(c, "github_again")
        \/ F!Goto(c, "github_again") /\ UNCHANGED opened
    BY <1>8 DEF F!CreatePull
  <2>2. opened.made = {}
    BY <1>2, <1>8 DEF F!CreatePull, F!At, CallOnce
  <2>3. n = 1
    <3>1. Cardinality({}) = 0
      BY FS_EmptySet
    <3> QED BY <2>2, <3>1, PullsCounted
  <2> HIDE DEF n
  <2>4. CASE UNCHANGED opened /\ F!Goto(c, "github_again")
    <3>1. PublishedOnce'
      BY <1>1, <1>2, <2>4 DEF PublishedOnce
    <3> QED BY <1>4, <1>5, <2>4, <3>1
  <2>5. CASE /\ opened' = [made |-> opened.made \cup {n}, open |-> {n}]
             /\ F!HasPull(c, "COMMITTED", n) \/ F!Goto(c, "github_again")
    <3>1. opened'.made = {1} /\ opened'.open = {1}
      BY <2>2, <2>3, <2>5
    <3>2. PublishedOnce'
      BY <1>1, <1>2, <3>1 DEF PublishedOnce
    <3> QED BY <1>3, <1>4, <1>5, <2>3, <2>5, <3>2
  <2> QED BY <2>1, <2>4, <2>5
<1> QED BY <1>6, <1>7, <1>8

\* The same of the message, and of closing what compensation closes.
LEMMA PostOnce ==
  ASSUME FlowInv, OnceInv, careful', NEW c \in Caller,
         F!FindPost(c) \/ F!SendPost(c) \/ F!KeepPost(c) \/ F!Compensate(c)
  PROVE  OnceInv'
<1>1. /\ UNCHANGED record /\ careful /\ call[c].pc # "idle"
      /\ call[c].pc \in {"slack", "slack_send", "slack_again", "close"}
  BY DEF F!FindPost, F!SendPost, F!KeepPost, F!Compensate, F!At, F!Same, F!flowVars
<1>2. /\ CallOnce(call[c]) /\ PublishedOnce /\ call[c].rec \in FlowRecord
      /\ record # None /\ record.pull # None /\ call[c].rec.pull # None /\ sent \in Nat
      /\ opened \in [made : SUBSET Nat, open : SUBSET Nat]
  <2>1. call[c].pc \in Committing /\ call[c].pc \in HavingPull \ {"save_github"}
    BY <1>1 DEF Committing, HavingPull
  <2>2. CallOnce(call[c]) /\ PublishedOnce
    BY <1>1 DEF OnceInv
  <2>3. call[c].rec \in FlowRecord
    BY <2>1, FlowCall DEF CallTrue, RecordTrue
  <2> QED BY <2>1, <2>2, <2>3 DEF CallOnce, FlowInv, FlowShape
<1>3. ASSUME NEW pc \in {"slack_send", "slack_again", "close", "save_slack"}, NEW own, NEW rec,
             CallMoved(c, pc, own, rec), rec.pull = call[c].rec.pull, pc = "slack_send" => sent' = 0
      PROVE  CallOnce(call[c])'
  BY <1>1, <1>2, <1>3 DEF CallOnce, CallMoved, Applying, Asking, HavingPull
<1>4. sent' \in {sent, sent + 1} /\ sent' <= 1 /\ opened'.made = opened.made
  <2>1. CASE F!SendPost(c)
    <3>1. sent = 0
      BY <1>2, <2>1 DEF F!SendPost, F!At, CallOnce
    <3> QED BY <2>1, <3>1 DEF F!SendPost
  <2>2. CASE F!FindPost(c) \/ F!KeepPost(c)
    BY <1>2, <2>2 DEF F!FindPost, F!KeepPost, F!flowVars, PublishedOnce
  <2>3. CASE F!Compensate(c)
    BY <1>2, <2>3 DEF F!Compensate, F!ClosePull, PublishedOnce
  <2> QED BY <2>1, <2>2, <2>3
<1>5. PublishedOnce'
  BY <1>1, <1>2, <1>4 DEF PublishedOnce
<1>6. \/ F!Return(c)
      \/ \E s \in {"COMMITTED", "RECOVERED"} : F!HasPost(c, s)
      \/ F!Goto(c, "slack_again") \/ (F!Goto(c, "slack_send") /\ sent' = 0)
      \/ call' = [call EXCEPT ![c].pc = "close", ![c].rec.slack = "FAILED"]
      \/ \E v : call' = [call EXCEPT ![c].pc = "save_slack", ![c].rec.state = v]
  BY DEF F!FindPost, F!SendPost, F!KeepPost, F!Compensate, F!SlackFails
<1>7. F!Return(c) \/ \E pc \in {"slack_send", "slack_again", "close", "save_slack"} : \E own, rec :
                       /\ CallMoved(c, pc, own, rec) /\ rec.pull = call[c].rec.pull
                       /\ pc = "slack_send" => sent' = 0
  <2>1. ASSUME NEW s \in {"COMMITTED", "RECOVERED"}, F!HasPost(c, s)
        PROVE  \E own, rec : CallMoved(c, "save_slack", own, rec) /\ rec.pull = call[c].rec.pull
    <3>1. CallMoved(c, "save_slack", call[c].own, WithPost(call[c].rec, s, sent'))
      BY <1>2, <2>1, ReceiptHeld
    <3> DEFINE r == call[c].rec
               n == sent'
    <3>2. r \in FlowRecord /\ n \in Nat
      BY <1>2, <1>4
    <3> HIDE DEF r, n
    <3>3. WithPost(r, s, n).pull = r.pull
      BY <3>2, ReceiptSaid
    <3> QED BY <3>1, <3>3 DEF r, n
  <2>2. ASSUME NEW pc \in {"slack_send", "slack_again"}, F!Goto(c, pc)
        PROVE  \E own, rec : CallMoved(c, pc, own, rec) /\ rec.pull = call[c].rec.pull
    BY <2>2, FlowMoves
  <2>3. ASSUME call' = [call EXCEPT ![c].pc = "close", ![c].rec.slack = "FAILED"]
        PROVE  \E own, rec : CallMoved(c, "close", own, rec) /\ rec.pull = call[c].rec.pull
    <3>1. CallMoved(c, "close", call[c].own, [call[c].rec EXCEPT !.slack = "FAILED"])
      BY <2>3, FlowMoves
    <3>2. [call[c].rec EXCEPT !.slack = "FAILED"].pull = call[c].rec.pull
      BY <1>2 DEF FlowRecord
    <3> QED BY <3>1, <3>2
  <2>4. ASSUME NEW v, call' = [call EXCEPT ![c].pc = "save_slack", ![c].rec.state = v]
        PROVE  \E own, rec : CallMoved(c, "save_slack", own, rec) /\ rec.pull = call[c].rec.pull
    <3>1. CallMoved(c, "save_slack", call[c].own, [call[c].rec EXCEPT !.state = v])
      BY <2>4, FlowMoves
    <3>2. [call[c].rec EXCEPT !.state = v].pull = call[c].rec.pull
      BY <1>2 DEF FlowRecord
    <3> QED BY <3>1, <3>2
  <2> QED BY <1>6, <2>1, <2>2, <2>3, <2>4
<1> QED BY <1>1, <1>3, <1>5, <1>7, GoingOn

\* A record is stored over what it was made from.
LEMMA SavesOnce ==
  ASSUME FlowBounds, FlowInv, OnceInv, careful', NEW c \in Caller, F!Saves(c)
  PROVE  OnceInv'
<1>1. /\ UNCHANGED <<opened, sent>> /\ careful /\ record' = call[c].rec
      /\ \/ call[c].pc = "save_repo" /\ F!Goto(c, "github")
         \/ call[c].pc = "save_github" /\ F!Goto(c, "slack")
         \/ call[c].pc = "save_slack" /\ F!Return(c)
  BY DEF F!Saves, F!SaveRecord, F!At, F!Same
<1>2. call[c].pc \in Committing /\ call[c].pc # "idle"
  BY <1>1 DEF Committing, Asking, HavingPull
<1>3. CallOnce(call[c]) /\ PublishedOnce /\ CallTrue(call[c])
  BY <1>1, FlowCall DEF OnceInv
<1>4. /\ call[c].rec \in FlowRecord /\ call[c].rec # None
      /\ call[c].pc \in HavingPull => call[c].rec.pull # None
  <2>1. call[c].rec \in FlowRecord
    BY <1>2, <1>3 DEF CallTrue, RecordTrue
  <2>2. call[c].pc \in HavingPull => call[c].rec.pull \in Nat
    BY <1>3 DEF CallTrue, FlowInv, FlowShape
  <2> QED BY <2>1, <2>2 DEF FlowBounds
<1>5. PublishedOnce'
  BY <1>1, <1>2, <1>3, <1>4 DEF PublishedOnce, CallOnce
<1>6. CASE F!Return(c)
  BY <1>1, <1>2, <1>5, <1>6, GoingOn
<1>7. CASE call[c].pc = "save_repo" /\ F!Goto(c, "github")
  <2>1. CallMoved(c, "github", call[c].own, call[c].rec)
    BY <1>7, FlowMoves
  <2>2. CallOnce(call[c])'
    BY <1>1, <1>3, <1>4, <1>7, <2>1 DEF CallOnce, CallMoved, Applying, Asking, HavingPull
  <2> QED BY <1>1, <1>2, <1>5, <2>1, <2>2, GoingOn
<1>8. CASE call[c].pc = "save_github" /\ F!Goto(c, "slack")
  <2>1. CallMoved(c, "slack", call[c].own, call[c].rec)
    BY <1>8, FlowMoves
  <2>2. CallOnce(call[c])'
    BY <1>1, <1>3, <1>4, <1>8, <2>1 DEF CallOnce, CallMoved, Applying, Asking, HavingPull
  <2> QED BY <1>1, <1>2, <1>5, <2>1, <2>2, GoingOn
<1> QED BY <1>1, <1>6, <1>7, <1>8

\* A process that dies, and what users do, publishes nothing.
LEMMA WorldOnce ==
  ASSUME FlowInv, OnceInv, careful',
         \/ F!MoveTree \/ F!MoveBase \/ F!RewriteSchema
         \/ \E c \in Caller : F!CaptureApproval(c) \/ F!Crash(c)
  PROVE  OnceInv'
<1>1. UNCHANGED <<record, opened, sent>> /\ careful
  BY DEF F!MoveTree, F!MoveBase, F!RewriteSchema, F!CaptureApproval, F!Crash, F!Begin, F!Same,
         F!gatewayVars, F!flowVars
<1>2. PublishedOnce'
  BY <1>1 DEF OnceInv, PublishedOnce
<1>3. CASE \E c \in Caller : F!Crash(c)
  BY <1>1, <1>2, <1>3, GoingOn DEF F!Crash, F!At
<1>4. CASE F!MoveTree \/ F!MoveBase \/ F!RewriteSchema \/ \E c \in Caller : F!CaptureApproval(c)
  <2>1. UNCHANGED call
    BY <1>4 DEF F!MoveTree, F!MoveBase, F!RewriteSchema, F!CaptureApproval
  <2> QED BY <1>1, <1>2, <2>1 DEF OnceInv, OneAtWork, CallOnce
<1> QED BY <1>3, <1>4

\* Every step of a careful caller publishes at most what was missing.
LEMMA OnceNextKeeps ==
  FlowBounds /\ FlowInv /\ OnceInv /\ [F!FlowNext]_(F!vars) => OnceInv'
<1> SUFFICES ASSUME FlowBounds, FlowInv, OnceInv, [F!FlowNext]_(F!vars) PROVE OnceInv'
  OBVIOUS
<1>1. CASE ~careful'
  BY <1>1 DEF OnceInv
<1>2. CASE UNCHANGED F!vars
  BY <1>2 DEF F!vars, OnceInv, OneAtWork, PublishedOnce, CallOnce
<1>3. CASE /\ careful'
           /\ \/ F!MoveTree \/ F!MoveBase \/ F!RewriteSchema
              \/ \E c \in Caller : F!CaptureApproval(c) \/ F!Crash(c)
  BY <1>3, WorldOnce
<1>4. ASSUME careful', NEW c \in Caller,
             \/ F!Preview(c) \/ F!StartRun(c) \/ F!CommandFails(c) \/ F!CapturePatch(c)
             \/ F!SaveRun(c) \/ F!VerifyRun(c)
      PROVE  OnceInv'
  BY <1>4, AuthoringOnce
<1>5. ASSUME careful', NEW c \in Caller,
             \/ F!StartCommit(c) \/ F!ReconcileCommit(c) \/ F!CheckBaseFreshness(c)
             \/ F!EnsureRepo(c) \/ F!LoadForCommit(c) \/ F!SaveCommitting(c) \/ F!ApplyPatch(c)
             \/ F!RecoverRepo(c) \/ F!AppendCommitted(c) \/ F!SaveCommitted(c) \/ F!RepoDone(c)
      PROVE  OnceInv'
  BY <1>5, BeginsOnce, ApplyingOnce
<1>6. ASSUME careful', NEW c \in Caller,
             \/ F!Saves(c) \/ F!FindPull(c) \/ F!CreatePull(c) \/ F!KeepPull(c)
             \/ F!FindPost(c) \/ F!SendPost(c) \/ F!KeepPost(c) \/ F!Compensate(c)
      PROVE  OnceInv'
  BY <1>6, SavesOnce, PullOnce, PostOnce
<1> QED BY <1>1, <1>2, <1>3, <1>4, <1>5, <1>6 DEF F!FlowNext

\* One pull request and one message, for callers that take turns, continue with
\* ReconcileCommit and meet no failed lookup (ensureGitHubReceipt, ensureSlackReceipt).
THEOREM CarefulOnce ==
  ASSUME FlowBounds
  PROVE  F!FlowSpec => []CarefulPublishesOnce
<1>1. F!Init => FlowInv /\ OnceInv
  <2> SUFFICES ASSUME F!Init PROVE FlowInv /\ OnceInv
    OBVIOUS
  <2>1. record = None /\ opened.made = {} /\ sent = 0 /\ \A c \in Caller : call[c].pc = "idle"
    BY DEF F!Init, F!Idle
  <2>2. OnceInv
    BY <2>1 DEF OnceInv, OneAtWork, PublishedOnce, CallOnce, Committing, Applying, Asking, HavingPull
  <2> QED BY <2>2, FlowStarts
<1>2. FlowInv /\ OnceInv /\ [F!FlowNext]_(F!vars) => FlowInv' /\ OnceInv'
  BY FlowNextKeeps, OnceNextKeeps
<1>3. FlowInv /\ OnceInv => CarefulPublishesOnce
  <2> SUFFICES ASSUME FlowInv, OnceInv, careful
               PROVE  sent <= 1 /\ F!Cardinality(opened.made) <= 1
    BY DEF CarefulPublishesOnce, F!CarefulPublishesOnce
  <2>1. sent <= 1 /\ opened.made \in {{}, {1}}
    BY DEF OnceInv, PublishedOnce
  <2>2. Cardinality({}) = 0 /\ Cardinality({1}) = 1
    BY FS_EmptySet, FS_Singleton
  <2> QED BY <2>1, <2>2, PullsCounted
<1> QED BY <1>1, <1>2, <1>3, PTL DEF F!FlowSpec

-----------------------------------------------------------------------------
(* A verification: an order that keeps to the dependencies, and a verdict  *)
(* that is earned.                                                         *)

\* Numbers that differ can be put in their order: each goes to the place that says how
\* many of them are no larger.
LEMMA SortingExists ==
  ASSUME NEW n \in Nat, NEW s \in [1 .. n -> Nat], \A i, j \in 1 .. n : s[i] = s[j] => i = j
  PROVE  \E p \in [1 .. n -> 1 .. n] :
           /\ \A w \in 1 .. n : \E v \in 1 .. n : p[v] = w
           /\ \A i, j \in 1 .. n : i < j => s[p[i]] < s[p[j]]
<1> DEFINE I == 1 .. n
           Low(i) == {k \in I : s[k] <= s[i]}
           r == [i \in I |-> Cardinality(Low(i))]
<1>1. IsFiniteSet(I) /\ Cardinality(I) = n
  BY FS_Interval
<1>2. ASSUME NEW i \in I, NEW j \in I, s[i] < s[j] PROVE r[i] < r[j] /\ r[i] \in Nat /\ r[j] \in Nat
  <2>1. Low(i) \subseteq Low(j) /\ j \in Low(j) /\ j \notin Low(i)
    BY <1>2
  <2>2. IsFiniteSet(Low(j)) /\ IsFiniteSet(Low(i))
    BY <1>1, FS_Subset
  <2>3. Cardinality(Low(i)) \in Nat /\ Cardinality(Low(j)) \in Nat
    BY <2>2, FS_CardinalityType
  <2>4. Cardinality(Low(i)) <= Cardinality(Low(j)) /\ Cardinality(Low(i)) # Cardinality(Low(j))
    <3> DEFINE A == Low(i)
               B == Low(j)
    <3>1. A \in SUBSET B /\ A # B /\ IsFiniteSet(B)
      BY <2>1, <2>2
    <3> HIDE DEF A, B
    <3>2. Cardinality(A) <= Cardinality(B) /\ (Cardinality(B) = Cardinality(A) => B = A)
      BY <3>1, FS_Subset
    <3>3. Cardinality(A) # Cardinality(B)
      BY <3>1, <3>2
    <3> QED BY <3>2, <3>3 DEF A, B
  <2> QED BY <2>3, <2>4
<1>3. ASSUME NEW i \in I PROVE r[i] \in I
  <2>1. i \in Low(i) /\ Low(i) \in SUBSET I
    OBVIOUS
  <2>2. IsFiniteSet(Low(i)) /\ Cardinality(Low(i)) <= n /\ Cardinality(Low(i)) \in Nat
    BY <1>1, <2>1, FS_Subset, FS_CardinalityType
  <2>3. Cardinality(Low(i)) # 0
    BY <2>1, <2>2, FS_EmptySet
  <2> QED BY <2>2, <2>3
<1>4. r \in Injection(I, I)
  <2>1. r \in [I -> I]
    BY <1>3
  <2>2. ASSUME NEW i \in I, NEW j \in I, r[i] = r[j] PROVE i = j
    <3> HIDE DEF r
    <3>1. ~(s[i] < s[j]) /\ ~(s[j] < s[i])
      BY <1>2, <2>2
    <3>2. s[i] \in Nat /\ s[j] \in Nat
      OBVIOUS
    <3> QED BY <3>1, <3>2
  <2> HIDE DEF r
  <2> QED BY <2>1, <2>2 DEF Injection, IsInjective
<1> HIDE DEF r, I, Low
<1>5. r \in Surjection(I, I)
  BY <1>1, <1>4, FS_Injection
<1>6. r \in [I -> I] /\ \A j \in I : \E i \in I : r[i] = j
  BY <1>5 DEF Surjection
<1> DEFINE p == [j \in I |-> CHOOSE i \in I : r[i] = j]
<1>7. p \in [I -> I] /\ \A j \in I : r[p[j]] = j
  BY <1>6
<1> HIDE DEF p
<1>8. \A w \in I : \E v \in I : p[v] = w
  <2> SUFFICES ASSUME NEW w \in I PROVE \E v \in I : p[v] = w
    OBVIOUS
  <2>1. r[w] \in I /\ p[r[w]] \in I /\ r[p[r[w]]] = r[w]
    BY <1>6, <1>7
  <2>2. p[r[w]] = w
    BY <1>4, <1>6, <2>1 DEF Injection, IsInjective
  <2> QED BY <2>1, <2>2
<1>9. ASSUME NEW i \in I, NEW j \in I, i < j PROVE s[p[i]] < s[p[j]]
  <2>1. p[i] \in I /\ p[j] \in I /\ r[p[i]] = i /\ r[p[j]] = j
    BY <1>7
  <2>2. s[p[i]] \in Nat /\ s[p[j]] \in Nat
    BY <2>1 DEF I
  <2>3. i \in Nat /\ j \in Nat
    BY DEF I
  <2>4. CASE s[p[i]] = s[p[j]]
    <3>1. p[i] = p[j]
      BY <2>1, <2>4 DEF I
    <3> QED BY <1>9, <2>1, <2>3, <3>1
  <2>5. CASE s[p[j]] < s[p[i]]
    <3>1. j < i
      BY <1>2, <2>1, <2>5
    <3> QED BY <1>9, <2>3, <3>1
  <2> QED BY <2>2, <2>4, <2>5
<1> QED BY <1>7, <1>8, <1>9 DEF I

\* Sorted lists a finite set of numbers, each of them once.
LEMMA SortedIs ==
  ASSUME NEW W \in SUBSET Nat, IsFiniteSet(W)
  PROVE  /\ V!Sorted(W) \in Seq(W)
         /\ \A x \in W : \E i \in 1 .. Len(V!Sorted(W)) : V!Sorted(W)[i] = x
         /\ \A i, j \in 1 .. Len(V!Sorted(W)) : V!Sorted(W)[i] = V!Sorted(W)[j] => i = j
<1> DEFINE n == Cardinality(W)
           Up(s) == \A i, j \in DOMAIN s : i < j => s[i] < s[j]
           q == V!Sorted(W)
<1>1. n \in Nat
  BY FS_CardinalityType
<1>2. \E s \in [1 .. n -> W] : Up(s)
  <2>1. PICK f \in Bijection(1 .. n, W) : TRUE
    BY FS_CardinalityType DEF ExistsBijection
  <2> HIDE DEF n
  <2>2. f \in [1 .. n -> W] /\ \A i, j \in 1 .. n : f[i] = f[j] => i = j
    BY <2>1 DEF Bijection, Injection, IsInjective
  <2>3. f \in [1 .. n -> Nat]
    BY <2>2
  <2>4. PICK p \in [1 .. n -> 1 .. n] :
          /\ \A w \in 1 .. n : \E v \in 1 .. n : p[v] = w
          /\ \A i, j \in 1 .. n : i < j => f[p[i]] < f[p[j]]
    BY <1>1, <2>2, <2>3, SortingExists
  <2> DEFINE s == [i \in 1 .. n |-> f[p[i]]]
  <2>5. s \in [1 .. n -> W] /\ Up(s)
    BY <2>2, <2>4
  <2> QED BY <2>5
<1>3. q \in [1 .. n -> W] /\ Up(q)
  <2>1. V!Cardinality(W) = n
    BY DEF V!Cardinality, Cardinality
  <2>2. q = CHOOSE s \in [1 .. n -> W] : Up(s)
    BY <2>1 DEF V!Sorted
  <2> HIDE DEF q, n, Up
  <2> QED BY <1>2, <2>2
<1> HIDE DEF q, n
<1>4. q \in Seq(W) /\ Len(q) = n
  <2>1. q \in Seq(W)
    BY <1>1, <1>3, SeqDef
  <2> QED BY <1>1, <1>3, <2>1, LenProperties
<1>5. ASSUME NEW i \in 1 .. n, NEW j \in 1 .. n, q[i] = q[j] PROVE i = j
  <2>1. DOMAIN q = 1 .. n /\ q[i] \in W
    BY <1>3
  <2>2. i \in Nat /\ j \in Nat
    BY <1>1, <1>5
  <2>3. ~(i < j) /\ ~(j < i)
    <3>1. q[i] \in Nat
      BY <2>1
    <3> HIDE DEF Up
    <3>2. i < j => q[i] < q[j]
      BY <1>3, <1>5, <2>1 DEF Up
    <3>3. j < i => q[j] < q[i]
      BY <1>3, <1>5, <2>1 DEF Up
    <3> QED BY <1>5, <3>1, <3>2, <3>3
  <2> QED BY <2>2, <2>3
<1>6. ASSUME NEW x \in W PROVE \E i \in 1 .. n : q[i] = x
  <2> DEFINE I == 1 .. n
  <2>1. IsFiniteSet(I) /\ Cardinality(I) = Cardinality(W)
    BY <1>1, FS_Interval DEF n
  <2>2. q \in Injection(I, W)
    BY <1>3, <1>5 DEF Injection, IsInjective
  <2> HIDE DEF I
  <2>3. q \in Surjection(I, W)
    BY <2>1, <2>2, FS_Injection
  <2> QED BY <2>3 DEF Surjection, I
<1> QED BY <1>4, <1>5, <1>6 DEF q

\* The number of checks is a number.
VerdictBounds == Checks \in Nat

\* The shape of a run's state.
EngineShape ==
  /\ contract \in [deps : [V!Check -> SUBSET (0 .. Checks)], required : SUBSET V!Check]
  /\ stage \in {"validate", "order", "scan", "run", "done"}
  /\ pending \subseteq V!Check /\ order \in Seq(V!Check)
  /\ scan \in {"off", "on", "pass", "fail"}
  /\ (\E T : results \in Seq(T)) /\ Len(results) <= Len(order)
  /\ report \in {"none", "refused", "lost", "pass", "fail", "error"}

\* The order so far: each check once, after all it depends on.
Before(q, i, d) == \E j \in 1 .. (i - 1) : q[j] = d
OrderedOnce ==
  /\ \A i, j \in 1 .. Len(order) : order[i] = order[j] => i = j
  /\ \A c \in V!Check : c \in pending \/ \E i \in 1 .. Len(order) : order[i] = c
  /\ \A i \in 1 .. Len(order) :
       order[i] \notin pending /\ \A d \in contract.deps[order[i]] : Before(order, i, d)

\* How far the run has come.
StageHolds ==
  /\ stage \in {"validate", "order", "scan"} => results = <<>>
  /\ stage \in {"order", "scan", "run"} => \A c \in V!Check : 0 \notin contract.deps[c]
  /\ stage \in {"scan", "run"} => pending = {}
  /\ stage = "run" => scan # "on"
  /\ stage # "done" => report = "none"
  /\ report = "refused" =>
       \/ V!Cyclic \/ contract.required = {} \/ \E c \in V!Check : 0 \in contract.deps[c]

\* Whatever ran had every check it depends on pass before it.
PassedBefore(i, d) == \E j \in 1 .. (i - 1) : order[j] = d /\ results[j] = "pass"
RanAfter ==
  \A i \in 1 .. Len(results) :
    results[i] # "blocked" =>
      scan # "fail" /\ \A d \in contract.deps[order[i]] : PassedBefore(i, d)
PassedAll ==
  report = "pass" =>
    /\ pending = {} /\ Len(results) = Len(order) /\ scan \in {"off", "pass"}
    /\ \A c \in contract.required : V!StatusOf(c) = "pass"

EngineInv == EngineShape /\ OrderedOnce /\ StageHolds /\ RanAfter /\ PassedAll

\* An ordered contract has no loop.
LEMMA OrderedIsAcyclic ==
  ASSUME VerdictBounds, EngineShape, OrderedOnce, pending = {}
  PROVE  ~V!Cyclic /\ V!ToSet(order) = V!Check
<1>1. Len(order) \in Nat /\ DOMAIN order = 1 .. Len(order)
      /\ \A i \in 1 .. Len(order) : order[i] \in V!Check
  <2>1. order \in Seq(V!Check)
    BY DEF EngineShape
  <2> QED BY <2>1, LenProperties, ElementOfSeq
<1>2. ~V!Cyclic
  <2> SUFFICES ASSUME NEW W \in (SUBSET V!Check) \ {{}},
                      \A c \in W : contract.deps[c] \cap W # {}
               PROVE  FALSE
    BY DEF V!Cyclic
  <2> DEFINE T == {i \in Nat : i \in 1 .. Len(order) /\ order[i] \in W}
  <2>1. T # {}
    <3>1. PICK c \in W : c \in V!Check
      OBVIOUS
    <3>2. PICK i \in 1 .. Len(order) : order[i] = c
      BY <3>1 DEF OrderedOnce
    <3>3. i \in Nat
      BY <1>1
    <3> QED BY <3>1, <3>2, <3>3
  <2>2. PICK i \in T : \A k \in T : i <= k
    BY <2>1, LeastNatural
  <2>3. i \in 1 .. Len(order) /\ order[i] \in W /\ i \in Nat
    BY <2>2
  <2>4. PICK d \in contract.deps[order[i]] : d \in W
    BY <2>3
  <2>5. PICK j \in 1 .. (i - 1) : order[j] = d
    BY <2>3, <2>4 DEF OrderedOnce, Before
  <2>6. j \in Nat /\ j \in 1 .. Len(order) /\ ~(i <= j)
    BY <1>1, <2>3, <2>5
  <2> QED BY <2>2, <2>4, <2>5, <2>6
<1>3. V!ToSet(order) = V!Check
  BY <1>1 DEF V!ToSet, OrderedOnce
<1> QED BY <1>2, <1>3

\* StatusOf finds the one place of a check.
LEMMA StatusIs ==
  ASSUME EngineShape, OrderedOnce, NEW i \in 1 .. Len(order)
  PROVE  V!StatusOf(order[i]) = results[i]
<1>1. DOMAIN order = 1 .. Len(order)
  BY LenProperties DEF EngineShape
<1>2. \A k \in DOMAIN order : order[k] = order[i] <=> k = i
  BY <1>1 DEF OrderedOnce
<1>3. (CHOOSE k \in DOMAIN order : order[k] = order[i]) = i
  BY <1>1, <1>2
<1> QED BY <1>3 DEF V!StatusOf

\* A contract is any contract, and nothing of it has run.
LEMMA EngineInitial == ASSUME VerdictBounds, V!Init PROVE EngineInv
<1>1. EngineShape
  <2>1. contract \in [deps : [V!Check -> SUBSET (0 .. Checks)], required : SUBSET V!Check]
    BY DEF V!Init
  <2>2. order = <<>> /\ results = <<>> /\ pending = V!Check /\ scan \in {"off", "on"}
        /\ stage = "validate" /\ report = "none"
    BY DEF V!Init
  <2>3. order \in Seq(V!Check) /\ results \in Seq({}) /\ Len(results) <= Len(order)
    BY <2>2
  <2>4. \E T : results \in Seq(T)
    BY <2>3
  <2> QED BY <2>1, <2>2, <2>3, <2>4 DEF EngineShape
<1>2. order = <<>> /\ results = <<>> /\ pending = V!Check /\ stage = "validate"
      /\ report = "none"
  BY DEF V!Init
<1>3. 1 .. Len(order) = {} /\ 1 .. Len(results) = {}
  BY <1>2
<1> QED BY <1>1, <1>2, <1>3 DEF EngineInv, OrderedOnce, StageHolds, RanAfter, PassedAll

\* Validate, up to the graph.
LEMMA ValidateKeeps == ASSUME EngineInv, V!Validate PROVE EngineInv'
<1> USE DEF EngineInv
<1>1. /\ stage = "validate"
      /\ UNCHANGED <<contract, pending, order, scan, results>>
      /\ \/ /\ contract.required # {} /\ \A c \in V!Check : 0 \notin contract.deps[c]
            /\ stage' = "order" /\ report' = report
         \/ /\ contract.required = {} \/ \E c \in V!Check : 0 \in contract.deps[c]
            /\ stage' = "done" /\ report' = "refused"
  BY DEF V!Validate, V!End
<1>2. EngineShape' /\ report' # "pass"
  BY <1>1 DEF EngineShape, StageHolds
<1>3. OrderedOnce' /\ RanAfter'
  BY <1>1 DEF OrderedOnce, RanAfter, Before, PassedBefore
<1>4. StageHolds'
  BY <1>1 DEF StageHolds, V!Cyclic
<1> QED BY <1>2, <1>3, <1>4 DEF PassedAll

\* A round of Topological: the checks that wait for no other come next.
LEMMA RoundKeeps ==
  ASSUME VerdictBounds, EngineInv, stage = "order", V!Ready # {},
         order' = order \o V!Sorted(V!Ready), pending' = pending \ V!Ready,
         UNCHANGED <<contract, stage, scan, results, report>>
  PROVE  EngineInv'
<1> USE DEF EngineInv
<1> DEFINE next == V!Ready
           q == V!Sorted(next)
           n == Len(order)
           m == Len(q)
<1>1. next \in SUBSET Nat /\ IsFiniteSet(next) /\ next \subseteq pending /\ pending \subseteq V!Check
  <2>1. next \subseteq pending /\ pending \subseteq V!Check
    BY DEF V!Ready, EngineShape
  <2>2. IsFiniteSet(V!Check) /\ V!Check \subseteq Nat
    BY FS_Interval DEF VerdictBounds, V!Check
  <2> HIDE DEF next
  <2>3. IsFiniteSet(next)
    BY <2>1, <2>2, FS_Subset
  <2> QED BY <2>1, <2>2, <2>3
<1>2. /\ q \in Seq(next) /\ \A x \in next : \E i \in 1 .. m : q[i] = x
      /\ \A i, j \in 1 .. m : q[i] = q[j] => i = j
  <2> HIDE DEF next
  <2> QED BY <1>1, SortedIs
<1>3. \A c \in next : contract.deps[c] \cap pending = {}
  BY DEF V!Ready
<1> HIDE DEF next, q
<1>4. /\ order \in Seq(V!Check) /\ q \in Seq(V!Check) /\ n \in Nat /\ m \in Nat
      /\ \A i \in 1 .. m : q[i] \in next
  <2>1. order \in Seq(V!Check) /\ n \in Nat /\ m \in Nat
    BY <1>2, LenProperties DEF EngineShape
  <2>2. \A i \in 1 .. m : q[i] \in next
    BY <1>2, ElementOfSeq
  <2>3. next \subseteq V!Check
    BY <1>1
  <2>4. q \in Seq(V!Check)
    <3> DEFINE W == V!Check
    <3>1. next \subseteq W
      BY <2>3
    <3> HIDE DEF W
    <3>2. q \in Seq(W)
      BY <1>2, <3>1, SeqMonotonic
    <3> QED BY <3>2 DEF W
  <2> QED BY <2>1, <2>2, <2>4
<1>5. /\ order' \in Seq(V!Check) /\ Len(order') = n + m
      /\ \A i \in 1 .. (n + m) : order'[i] = IF i <= n THEN order[i] ELSE q[i - n]
  <2> DEFINE W == V!Check
  <2>1. order \in Seq(W) /\ q \in Seq(W) /\ order' = order \o q
    BY <1>4 DEF q, next
  <2> HIDE DEF W
  <2>2. /\ order' \in Seq(W) /\ Len(order') = Len(order) + Len(q)
        /\ \A i \in 1 .. (Len(order) + Len(q)) :
             order'[i] = IF i <= Len(order) THEN order[i] ELSE q[i - Len(order)]
    BY <2>1, ConcatProperties
  <2> QED BY <2>2 DEF W
<1> HIDE DEF n, m
<1>6. \A i \in 1 .. n : i \in 1 .. (n + m) /\ order'[i] = order[i]
  BY <1>4, <1>5
<1>7. \A k \in 1 .. m : n + k \in 1 .. (n + m) /\ order'[n + k] = q[k]
  BY <1>4, <1>5
<1>8. ASSUME NEW i \in 1 .. (n + m)
      PROVE  \/ i \in 1 .. n /\ order'[i] = order[i]
             \/ \E k \in 1 .. m : i = n + k /\ order'[i] = q[k]
  <2>1. i <= n \/ (i - n \in 1 .. m /\ n + (i - n) = i)
    BY <1>4
  <2>2. i <= n => i \in 1 .. n
    BY <1>4
  <2> QED BY <1>6, <1>7, <2>1, <2>2
<1>9. \A i \in 1 .. n : order[i] \notin pending
  BY DEF OrderedOnce, n
<1>10. \A i \in 1 .. n, k \in 1 .. m : order[i] # q[k]
  BY <1>1, <1>4, <1>9
<1>11. \A i, j \in 1 .. n : order[i] = order[j] => i = j
  BY DEF OrderedOnce, n
<1>12. ASSUME NEW i \in 1 .. (n + m), NEW j \in 1 .. (n + m), order'[i] = order'[j]
       PROVE  i = j
  <2>1. CASE i \in 1 .. n /\ order'[i] = order[i]
    BY <1>8, <1>10, <1>11, <1>12, <2>1
  <2>2. CASE \E k \in 1 .. m : i = n + k /\ order'[i] = q[k]
    <3>1. PICK k \in 1 .. m : i = n + k /\ order'[i] = q[k]
      BY <2>2
    <3>2. \A l \in 1 .. n : order'[i] # order[l]
      BY <1>10, <3>1
    <3>3. PICK l \in 1 .. m : j = n + l /\ order'[j] = q[l]
      BY <1>8, <1>12, <3>2
    <3>4. k = l
      BY <1>2, <1>12, <3>1, <3>3 DEF m
    <3> QED BY <3>1, <3>3, <3>4
  <2> QED BY <1>8, <2>1, <2>2
<1>13. ASSUME NEW c \in V!Check PROVE c \in pending' \/ \E i \in 1 .. (n + m) : order'[i] = c
  <2>1. c \in pending \/ \E i \in 1 .. n : order[i] = c
    BY DEF OrderedOnce, n
  <2>2. c \in pending => c \in pending' \/ c \in next
    BY DEF next
  <2>3. c \in next => \E k \in 1 .. m : q[k] = c
    BY <1>2 DEF m
  <2> QED BY <1>6, <1>7, <2>1, <2>2, <2>3
<1>14. ASSUME NEW i \in 1 .. (n + m)
       PROVE  order'[i] \notin pending' /\ \A d \in contract.deps[order'[i]] : Before(order', i, d)
  <2>1. CASE i \in 1 .. n /\ order'[i] = order[i]
    <3>1. order[i] \notin pending /\ \A d \in contract.deps[order[i]] : Before(order, i, d)
      BY <2>1 DEF OrderedOnce, n
    <3>2. \A j \in 1 .. (i - 1) : j \in 1 .. n
      BY <1>4, <2>1
    <3>3. \A d : Before(order, i, d) => Before(order', i, d)
      BY <1>6, <3>2 DEF Before
    <3> QED BY <2>1, <3>1, <3>3
  <2>2. CASE \E k \in 1 .. m : i = n + k /\ order'[i] = q[k]
    <3>1. PICK k \in 1 .. m : i = n + k /\ order'[i] = q[k]
      BY <2>2
    <3>2. q[k] \in next
      BY <1>4
    <3>3. q[k] \notin pending'
      BY <3>2 DEF next
    <3>4. ASSUME NEW d \in contract.deps[q[k]] PROVE Before(order', i, d)
      <4>1. d \notin pending
        BY <1>3, <3>2
      <4>2. d \in V!Check
        <5>1. q[k] \in V!Check /\ contract.deps \in [V!Check -> SUBSET (0 .. Checks)]
          BY <1>1, <3>2 DEF EngineShape
        <5>2. d \in 0 .. Checks /\ d # 0
          BY <5>1 DEF StageHolds
        <5> QED BY <5>2 DEF V!Check, VerdictBounds
      <4>3. PICK j \in 1 .. n : order[j] = d
        BY <4>1, <4>2 DEF OrderedOnce, n
      <4>4. j \in 1 .. (i - 1)
        BY <1>4, <3>1
      <4> QED BY <1>6, <4>3, <4>4 DEF Before
    <3> QED BY <3>1, <3>3, <3>4
  <2> QED BY <1>8, <2>1, <2>2
<1>15. OrderedOnce'
  BY <1>5, <1>12, <1>13, <1>14 DEF OrderedOnce
<1>16. EngineShape'
  <2>1. pending' \subseteq V!Check
    BY <1>1
  <2>2. Len(order) <= Len(order')
    BY <1>4, <1>5 DEF n
  <2>3. Len(results) \in Nat
    BY LenProperties DEF EngineShape
  <2>4. Len(results) <= Len(order')
    BY <1>4, <2>2, <2>3, <1>5 DEF EngineShape, n
  <2> QED BY <1>5, <2>1, <2>4 DEF EngineShape
<1>17. results = <<>> /\ report = "none"
  BY DEF StageHolds
<1>18. StageHolds'
  BY DEF StageHolds, V!Cyclic
<1>19. 1 .. Len(results) = {}
  BY <1>17
<1> QED BY <1>15, <1>16, <1>17, <1>18, <1>19 DEF RanAfter, PassedAll

\* Topological: a round, the end of the order, or a loop.
LEMMA TopologicalKeeps ==
  ASSUME VerdictBounds, EngineInv, V!Topological PROVE EngineInv'
<1> USE DEF EngineInv
<1>1. stage = "order" /\ UNCHANGED <<contract, scan, results>>
  BY DEF V!Topological
<1>2. CASE pending = {} /\ stage' = "scan" /\ UNCHANGED <<pending, order, report>>
  <2>1. EngineShape' /\ OrderedOnce' /\ RanAfter' /\ PassedAll'
    BY <1>1, <1>2 DEF EngineShape, OrderedOnce, RanAfter, PassedAll, Before, PassedBefore, V!StatusOf
  <2>2. StageHolds'
    BY <1>1, <1>2 DEF StageHolds, V!Cyclic
  <2> QED BY <2>1, <2>2
<1>3. CASE pending # {} /\ V!Ready = {} /\ V!End("refused") /\ UNCHANGED <<pending, order>>
  <2>1. V!Cyclic
    <3>1. pending \in (SUBSET V!Check) \ {{}}
      BY <1>3 DEF EngineShape
    <3>2. \A c \in pending : contract.deps[c] \cap pending # {}
      BY <1>3 DEF V!Ready
    <3> QED BY <3>1, <3>2 DEF V!Cyclic
  <2>2. stage' = "done" /\ report' = "refused"
    BY <1>3 DEF V!End
  <2>3. EngineShape' /\ OrderedOnce' /\ RanAfter' /\ PassedAll'
    BY <1>1, <1>3, <2>2 DEF EngineShape, OrderedOnce, RanAfter, PassedAll, Before, PassedBefore
  <2>4. StageHolds'
    BY <1>1, <1>3, <2>1, <2>2 DEF StageHolds, V!Cyclic
  <2> QED BY <2>3, <2>4
<1>4. CASE /\ V!Ready # {} /\ order' = order \o V!Sorted(V!Ready)
           /\ pending' = pending \ V!Ready /\ UNCHANGED <<stage, report>>
  BY <1>1, <1>4, RoundKeeps
<1> QED BY <1>2, <1>3, <1>4 DEF V!Topological

\* The secret scan.
LEMMA ScanSecretsKeeps ==
  ASSUME EngineInv, V!ScanSecrets PROVE EngineInv'
<1> USE DEF EngineInv
<1>1. /\ stage = "scan" /\ UNCHANGED <<contract, pending, order, results>>
      /\ \/ scan = "off" /\ stage' = "run" /\ scan' = "off" /\ report' = report
         \/ scan = "on" /\ stage' = "run" /\ scan' \in {"pass", "fail"} /\ report' = report
         \/ scan = "on" /\ stage' = "done" /\ report' = "lost" /\ scan' = scan
  BY DEF V!ScanSecrets, V!End
<1>2. results = <<>> /\ report = "none" /\ report' # "pass" /\ report' # "refused"
  BY <1>1 DEF StageHolds
<1>3. EngineShape'
  BY <1>1 DEF EngineShape
<1>4. OrderedOnce'
  BY <1>1 DEF OrderedOnce, Before
<1>5. StageHolds'
  BY <1>1, <1>2 DEF StageHolds, V!Cyclic
<1>6. 1 .. Len(results') = {}
  BY <1>1, <1>2
<1> QED BY <1>2, <1>3, <1>4, <1>5, <1>6 DEF RanAfter, PassedAll

\* A check is executed or blocked, or its executor ends the run.
LEMMA RunCheckKeeps ==
  ASSUME EngineInv, V!RunCheck PROVE EngineInv'
<1> USE DEF EngineInv
<1> DEFINE n == Len(results)
           c == order[n + 1]
<1>1. stage = "run" /\ n < Len(order) /\ UNCHANGED <<contract, pending, order, scan>>
  BY DEF V!RunCheck
<1>2. n \in Nat /\ Len(order) \in Nat /\ DOMAIN order = 1 .. Len(order)
      /\ n + 1 \in 1 .. Len(order) /\ c \in V!Check
  <2>1. n \in Nat /\ Len(order) \in Nat /\ DOMAIN order = 1 .. Len(order)
        /\ \A i \in 1 .. Len(order) : order[i] \in V!Check
    BY LenProperties, ElementOfSeq DEF EngineShape
  <2>2. n + 1 \in 1 .. Len(order)
    BY <1>1, <2>1
  <2> QED BY <2>1, <2>2
<1>3. report = "none" /\ scan # "on" /\ pending = {}
  BY <1>1 DEF StageHolds
<1>4. OrderedOnce'
  BY <1>1 DEF OrderedOnce, Before
<1>5. CASE stage' = "done" /\ report' = "lost" /\ results' = results
  <2>1. EngineShape' /\ StageHolds' /\ PassedAll'
    BY <1>1, <1>3, <1>5 DEF EngineShape, StageHolds, PassedAll
  <2>2. RanAfter'
    BY <1>1, <1>5 DEF RanAfter, PassedBefore
  <2> QED BY <1>4, <2>1, <2>2
<1>6. ASSUME NEW s, results' = Append(results, s), stage' = stage, report' = report,
             s # "blocked" => ~V!Blocked(c)
      PROVE  EngineInv'
  <2>1. PICK T : results \in Seq(T)
    BY DEF EngineShape
  <2>2. /\ results' \in Seq(T \cup {s}) /\ Len(results') = n + 1
        /\ \A i \in 1 .. n : results'[i] = results[i]
        /\ results'[n + 1] = s
    <3> DEFINE A == T \cup {s}
    <3>1. T \subseteq A /\ s \in A
      OBVIOUS
    <3> HIDE DEF A
    <3>2. results \in Seq(A)
      BY <2>1, <3>1, SeqMonotonic
    <3> QED BY <1>6, <3>1, <3>2, AppendProperties DEF A
  <2> HIDE DEF n, c
  <2>3. EngineShape'
    <3>1. \E A : results' \in Seq(A)
      BY <2>2
    <3>2. Len(results') <= Len(order')
      BY <1>1, <1>2, <2>2
    <3> QED BY <1>1, <1>6, <3>1, <3>2 DEF EngineShape
  <2>4. StageHolds'
    BY <1>1, <1>3, <1>6 DEF StageHolds, V!Cyclic
  <2>5. PassedAll'
    BY <1>3, <1>6 DEF PassedAll
  <2>6. ASSUME NEW i, NEW d, i \in 1 .. (n + 1), PassedBefore(i, d) PROVE PassedBefore(i, d)'
    <3>1. \A j \in 1 .. (i - 1) : j \in 1 .. n
      BY <1>2, <2>6
    <3> QED BY <1>1, <2>2, <2>6, <3>1 DEF PassedBefore
  <2>7. ASSUME s # "blocked"
        PROVE  scan # "fail" /\ \A d \in contract.deps[c] : PassedBefore(n + 1, d)
    <3>1. scan # "fail" /\ \A d \in contract.deps[c] : V!StatusOf(d) = "pass"
      BY <1>6, <2>7 DEF V!Blocked
    <3>2. ASSUME NEW d \in contract.deps[c] PROVE PassedBefore(n + 1, d)
      <4>1. PICK j \in 1 .. ((n + 1) - 1) : order[j] = d
        BY <1>2 DEF OrderedOnce, Before, c
      <4>2. j \in 1 .. Len(order)
        BY <1>2, <4>1
      <4>3. results[j] = "pass"
        BY <3>1, <4>1, <4>2, StatusIs
      <4> QED BY <4>1, <4>3 DEF PassedBefore
    <3> QED BY <3>1, <3>2
  <2>8. RanAfter'
    <3> SUFFICES ASSUME NEW i \in 1 .. (n + 1), results'[i] # "blocked"
                 PROVE  scan # "fail" /\ \A d \in contract.deps[order[i]] : PassedBefore(i, d)'
      BY <1>1, <2>2 DEF RanAfter
    <3>1. CASE i = n + 1
      BY <2>2, <2>6, <2>7, <3>1 DEF c
    <3>2. CASE i # n + 1
      <4>1. i \in 1 .. n
        BY <1>2, <3>2
      <4>2. scan # "fail" /\ \A d \in contract.deps[order[i]] : PassedBefore(i, d)
        BY <2>2, <4>1 DEF RanAfter, n
      <4> QED BY <2>6, <4>2
    <3> QED BY <3>1, <3>2
  <2> QED BY <1>4, <2>3, <2>4, <2>5, <2>8
<1>7. \/ stage' = "done" /\ report' = "lost" /\ results' = results
      \/ stage' = stage /\ report' = report
         /\ \E s : results' = Append(results, s) /\ (s # "blocked" => ~V!Blocked(c))
  <2>1. \/ /\ IF V!Blocked(c) THEN results' = Append(results, "blocked")
              ELSE \E s \in V!Answers(c) : results' = Append(results, s)
           /\ UNCHANGED <<stage, report>>
        \/ ~V!Blocked(c) /\ V!MayEnd(c) /\ V!End("lost") /\ UNCHANGED results
    BY DEF V!RunCheck
  <2> HIDE DEF c, n
  <2> QED BY <2>1 DEF V!End
<1> QED BY <1>5, <1>6, <1>7

\* The results become one outcome.
LEMMA ReportKeeps ==
  ASSUME EngineInv, V!Report PROVE EngineInv'
<1> USE DEF EngineInv
<1>1. /\ stage = "run" /\ Len(results) = Len(order) /\ stage' = "done" /\ report' = V!Outcome
      /\ UNCHANGED <<contract, pending, order, scan, results>>
  BY DEF V!Report, V!End
<1>2. V!Outcome \in {"error", "pass", "fail"}
  BY DEF V!Outcome
<1>3. EngineShape'
  BY <1>1, <1>2 DEF EngineShape
<1>4. OrderedOnce' /\ RanAfter'
  <2>1. OrderedOnce'
    BY <1>1 DEF OrderedOnce, Before
  <2>2. RanAfter'
    BY <1>1 DEF RanAfter, PassedBefore
  <2> QED BY <2>1, <2>2
<1>5. StageHolds'
  BY <1>1, <1>2 DEF StageHolds
<1>6. ASSUME V!Outcome = "pass"
      PROVE  scan \in {"off", "pass"} /\ \A c \in contract.required : V!StatusOf(c) = "pass"
  <2>1. V!Counted = {"pass"}
    BY <1>6 DEF V!Outcome
  <2>2. \A x \in V!Counted : x = "pass"
    BY <2>1
  <2> QED BY <2>2 DEF V!Counted
<1>7. PassedAll'
  <2>1. pending = {}
    BY <1>1 DEF StageHolds
  <2>2. \A c : V!StatusOf(c)' = V!StatusOf(c)
    BY <1>1 DEF V!StatusOf
  <2> QED BY <1>1, <1>6, <2>1, <2>2 DEF PassedAll
<1> QED BY <1>3, <1>4, <1>5, <1>7

\* Every step.
LEMMA EngineNextKeeps ==
  ASSUME VerdictBounds, EngineInv, V!EngineNext PROVE EngineInv'
BY ValidateKeeps, TopologicalKeeps, ScanSecretsKeeps, RunCheckKeeps, ReportKeeps
   DEF V!EngineNext

\* What passed stands on checks that passed, through any number of others.
LEMMA AncestorsPassed ==
  ASSUME VerdictBounds, EngineInv, NEW i \in 1 .. Len(results), results[i] # "blocked"
  PROVE  \A d \in V!Ancestors(order[i]) : PassedBefore(i, d)
<1> USE DEF EngineInv
<1> DEFINE Good == {d \in V!Check : PassedBefore(i, d)}
           c == order[i]
<1>1. /\ Len(results) \in Nat /\ Len(order) \in Nat /\ i \in 1 .. Len(order)
      /\ \A j \in 1 .. Len(order) : order[j] \in V!Check
  <2>1. Len(results) \in Nat /\ Len(order) \in Nat /\ Len(results) <= Len(order)
        /\ \A j \in 1 .. Len(order) : order[j] \in V!Check
    BY LenProperties, ElementOfSeq DEF EngineShape
  <2> QED BY <2>1
<1>2. \A k \in 1 .. i : \A d : PassedBefore(k, d) => PassedBefore(i, d) /\ d \in V!Check
  <2> SUFFICES ASSUME NEW k \in 1 .. i, NEW d, PassedBefore(k, d)
               PROVE  PassedBefore(i, d) /\ d \in V!Check
    OBVIOUS
  <2>1. PICK j \in 1 .. (k - 1) : order[j] = d /\ results[j] = "pass"
    BY DEF PassedBefore
  <2>2. j \in 1 .. (i - 1) /\ j \in 1 .. Len(order)
    BY <1>1, <2>1
  <2> QED BY <1>1, <2>1, <2>2 DEF PassedBefore
<1>3. \A d \in contract.deps[c] : PassedBefore(i, d)
  BY DEF RanAfter
<1>4. contract.deps[c] \subseteq Good
  <2>1. i \in 1 .. i
    BY <1>1
  <2> QED BY <1>2, <1>3, <2>1
<1>5. ASSUME NEW x \in Good PROVE contract.deps[x] \subseteq Good
  <2>1. PICK j \in 1 .. (i - 1) : order[j] = x /\ results[j] = "pass"
    BY <1>5 DEF PassedBefore
  <2>2. j \in 1 .. Len(results) /\ j \in 1 .. i
    BY <1>1, <2>1
  <2>3. \A d \in contract.deps[x] : PassedBefore(j, d)
    BY <2>1, <2>2 DEF RanAfter
  <2> QED BY <1>2, <2>2, <2>3
<1> HIDE DEF Good, c
<1>6. Good \in SUBSET V!Check
  BY DEF Good
<1>7. \A d \in V!Ancestors(c) : d \in Good
  BY <1>4, <1>5, <1>6 DEF V!Ancestors
<1> QED BY <1>7 DEF Good, c

\* VerdictIsEarned for contracts of any number of checks and dependencies, any executors
\* and any answers (verification.Validate, Topological and Run): a contract is refused
\* exactly when it has no order, nothing runs before or without all it stands on, and
\* "pass" means that every required check, with all it stands on, passed on a patch
\* without secrets.
THEOREM VerdictsAreEarned ==
  ASSUME VerdictBounds
  PROVE  V!EngineSpec => []VerdictIsEarned
<1>1. V!Init => EngineInv
  BY EngineInitial
<1>2. EngineInv /\ [V!EngineNext]_(V!vars) => EngineInv'
  <2>1. ASSUME EngineInv, UNCHANGED V!vars PROVE EngineInv'
    <3>1. UNCHANGED <<contract, stage, pending, order, scan, results, report>>
      BY <2>1 DEF V!vars
    <3>2. EngineShape' /\ OrderedOnce'
      BY <2>1, <3>1 DEF EngineInv, EngineShape, OrderedOnce, Before
    <3>3. StageHolds' /\ RanAfter'
      BY <2>1, <3>1 DEF EngineInv, StageHolds, V!Cyclic, RanAfter, PassedBefore
    <3>4. PassedAll'
      BY <2>1, <3>1 DEF EngineInv, PassedAll, V!StatusOf
    <3> QED BY <3>2, <3>3, <3>4 DEF EngineInv
  <2> QED BY <2>1, EngineNextKeeps
<1>3. EngineInv => VerdictIsEarned
  <2> SUFFICES ASSUME EngineInv PROVE VerdictIsEarned
    OBVIOUS
  <2> USE DEF EngineInv
  <2>1. V!EngineTypeOK
    BY DEF EngineShape, V!EngineTypeOK
  <2>2. report = "refused" =>
          \/ V!Cyclic \/ contract.required = {} \/ \E c \in V!Check : 0 \in contract.deps[c]
    BY DEF StageHolds
  <2>3. stage \in {"scan", "run"} => ~V!Cyclic /\ V!ToSet(order) = V!Check
    BY OrderedIsAcyclic DEF StageHolds
  <2>4. DOMAIN results = 1 .. Len(results) /\ Len(results) \in Nat
    BY LenProperties DEF EngineShape
  <2>5. \A i \in DOMAIN results :
          results[i] # "blocked" =>
            /\ scan # "fail"
            /\ \A d \in V!Ancestors(order[i]) :
                 \E j \in 1 .. (i - 1) : order[j] = d /\ results[j] = "pass"
    BY <2>4, AncestorsPassed DEF RanAfter, PassedBefore
  <2>6. ASSUME report = "pass", NEW c \in contract.required, NEW d \in V!Ancestors(c) \cup {c}
        PROVE  V!StatusOf(d) = "pass"
    <3>1. pending = {} /\ Len(results) = Len(order) /\ V!StatusOf(c) = "pass"
      BY <2>6 DEF PassedAll
    <3>2. c \in V!Check
      BY DEF EngineShape
    <3>3. PICK i \in 1 .. Len(order) : order[i] = c
      BY <3>1, <3>2 DEF OrderedOnce
    <3>4. results[i] = "pass"
      BY <3>1, <3>3, StatusIs
    <3>5. CASE d \in V!Ancestors(c)
      <4>1. PassedBefore(i, d)
        BY <3>1, <3>3, <3>4, <3>5, AncestorsPassed
      <4>2. PICK j \in 1 .. (i - 1) : order[j] = d /\ results[j] = "pass"
        BY <4>1 DEF PassedBefore
      <4>3. j \in 1 .. Len(order)
        BY <2>4, <3>1, <4>2
      <4> QED BY <4>2, <4>3, StatusIs
    <3> QED BY <2>6, <3>1, <3>5
  <2>7. report = "pass" => scan \in {"off", "pass"}
    BY DEF PassedAll
  <2> QED BY <2>1, <2>2, <2>3, <2>5, <2>6, <2>7
          DEF VerdictIsEarned, V!VerdictIsEarned
<1> QED BY <1>1, <1>2, <1>3, PTL DEF V!EngineSpec
=============================================================================
