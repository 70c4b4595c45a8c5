-------------------------- MODULE FrontDoorProofs --------------------------
(***************************************************************************)
(* Proofs about FrontDoor.  Of ApiRequests, for any number of requests,    *)
(* callers, keys and capabilities and any policy: what the guards hold is  *)
(* given back, no handler acts before its request is on the operator's     *)
(* record, no caller does more than it has authority for, and, as long as  *)
(* a completed answer can be stored, a key runs once and a refusal changed *)
(* nothing.  Of GuidedCli, for any number of invocations, changes, targets *)
(* and other clients: a publication releases what the command named, and   *)
(* an interrupted finish goes on when it is given again.                   *)
(***************************************************************************)
EXTENDS FrontDoor, FiniteSetTheorems, TLAPS

\* From BeginAPIRequest to CompleteAPIRequest.
Handling == {"decode", "request", "call", "result", "settle"}
\* From the authorizer's word to the service call.
Allowing == {"rate", "drain", "admit", "idempotency", "decode", "request", "call"}
Unanswered == {"authorize", "refused", "result", "settle"} \cup Allowing

-----------------------------------------------------------------------------
(* The inductive invariant, in four parts.                                 *)

\* What a request holds on its way in, and that a daemon that is down runs none.
GuardsHeld ==
  /\ \A r \in Request :
       /\ pc[r] = "drain" => r \in slot
       /\ pc[r] \in {"admit", "idempotency"} => r \in busy
  /\ daemon = "down" => InFlight = {}

\* A request acts once, at "call", and its record comes before.
ActedLate == \A r \in served : pc[r] \in {"result", "settle", "done", "lost"}
RecordFirst ==
  \A r \in Request :
    (pc[r] = "call" \/ r \in served) /\ Handler(call[r].op).audited =>
      <<r, "request">> \in trail.kept

\* Who got past the authorizer had the authority then and still has it.
HasAuthority(r) ==
  LET c == call[r] IN
  c.op \in AgentUnsafe =>
    \/ Granting(c) # {} /\ (Owner[c.tx] = c.who \/ ScopeOf(c) = "all")
    \/ c.cap # None /\ used[c.cap] = r /\ Fits(c.cap, c)
AuthorityKept == \A r \in Request : pc[r] \in Allowing \/ r \in served => HasAuthority(r)

RequestInv ==
  RequestTypeOK /\ GuardsHeld /\ ActedLate /\ RecordFirst /\ AuthorityKept

\* The life of a row: the request in the mutex owns its row; a request that has
\* acted is the one its row names, until the row is collected; and so for the
\* answers that were given from the row.
RowHeld(r) ==
  /\ mutex = r
  /\ row[RowOf(r)].state = "in_progress"
  /\ row[RowOf(r)].by = r /\ row[RowOf(r)].call = call[r]
  /\ reserved[r] = epoch[RowOf(r)]
Current(r) == reserved[r] = epoch[RowOf(r)]

HoldersHold == \A r \in Request : Keyed(r) /\ pc[r] \in Handling => RowHeld(r)
EpochsPass ==
  \A r \in Request : /\ pc[r] = "idle" => reserved[r] = 0
                     /\ Keyed(r) => reserved[r] <= epoch[RowOf(r)]
OriginsKnown ==
  \A r \in Request : /\ r \in served => origin[r] = r
                     /\ origin[r] # None /\ r \notin served => pc[r] = "done"
CodesKnown ==
  \A r \in served : Mutating(r) /\ pc[r] # "lost" => code[r] \in {200, 201, 409}
ActorsNamed ==
  \A r \in served :
    Keyed(r) /\ Current(r) => row[RowOf(r)].state # "none" /\ row[RowOf(r)].by = r
AnswersNamed ==
  \A r \in Request :
    Answered(r) /\ Current(r) =>
      /\ row[RowOf(r)].state = "completed"
      /\ row[RowOf(r)].by = origin[r] /\ row[RowOf(r)].code = code[r]
      /\ SameRequest(row[RowOf(r)].call, call[r])
RowsKnown ==
  \A k \in Principal \X Key : row[k].state # "none" => row[k].call \in Calls

KeyInv ==
  /\ HoldersHold /\ EpochsPass /\ OriginsKnown /\ CodesKnown /\ ActorsNamed
  /\ AnswersNamed /\ RowsKnown /\ KeyRunsOnce /\ AnswersAgree

-----------------------------------------------------------------------------
(* What the helpers of the model do to the state.                          *)

TrailType == [kept: SUBSET Line, loose: SUBSET Line, torn: BOOLEAN, uncertain: BOOLEAN]

\* A fault is counted, and only while there are faults left.
LEMMA FaultCounted ==
  ASSUME faults \in 0 .. MaxFaults, NEW kind, Fault(kind) \/ NoFault
  PROVE  faults' \in 0 .. MaxFaults
  BY RequestAssumption DEF Fault, NoFault

\* A recorded line is on disk, and no line that was is lost.
LEMMA RecordKeeps ==
  ASSUME trail \in TrailType, faults \in 0 .. MaxFaults, NEW line \in Line, Record(line)
  PROVE  /\ trail' \in TrailType /\ faults' \in 0 .. MaxFaults
         /\ trail.kept \subseteq trail'.kept /\ line \in trail'.kept
  BY DEF Record, NoFault, TrailType

\* A failed record loses none either, however it failed.
LEMMA RecordFailsKeeps ==
  ASSUME trail \in TrailType, faults \in 0 .. MaxFaults, NEW line \in Line,
         RecordFails(line)
  PROVE  /\ trail' \in TrailType /\ faults' \in 0 .. MaxFaults
         /\ trail'.kept = trail.kept
<1>1. faults' \in 0 .. MaxFaults
  BY FaultCounted DEF RecordFails, NoFault
<1>2. trail' \in TrailType /\ trail'.kept = trail.kept
  BY DEF RecordFails, TrailType
<1> QED BY <1>1, <1>2

\* The contract: a read is not recorded, every status is a number, and what an
\* agent must not do is never unscoped.
LEMMA Contract ==
  ASSUME NEW op
  PROVE  /\ op \in Reads => ~Handler(op).audited
         /\ Handler(op).done \in {200, 201}
         /\ FailureOf(op) \subseteq {404, 409, 500, 503}
         /\ op \notin Reads => FailureOf(op) = {409}
         /\ op \in AgentUnsafe => op \notin Unscoped /\ AccessFor(op) = "admin"
<1>1. op \in Reads => Handler(op) = ReadHandler
  BY DEF Handler, Reads
<1>2. Handler(op).done \in {200, 201}
  BY DEF Handler, CreateHandler, AccessHandler, ExecuteHandler, PrepareHandler,
         RefreshHandler, ReadHandler, LifecycleHandler, Shape
<1>3. op \in AgentUnsafe => op \notin Unscoped /\ AccessFor(op) = "admin"
  BY DEF AgentUnsafe, Unscoped, AccessFor
<1>4. /\ FailureOf(op) \subseteq {404, 409, 500, 503}
      /\ op \notin Reads => FailureOf(op) = {409}
  BY DEF FailureOf, Reads
<1> QED BY <1>1, <1>2, <1>3, <1>4 DEF ReadHandler, Shape

\* What every step of a request leaves alone: what other requests know.
LEMMA OthersStay ==
  ASSUME RequestTypeOK, NEW r \in Request, RequestStep(r), NEW s \in Request, s # r
  PROVE  /\ pc'[s] = pc[s] /\ call'[s] = call[s] /\ scope'[s] = scope[s]
         /\ code'[s] = code[s] /\ origin'[s] = origin[s] /\ reserved'[s] = reserved[s]
         /\ s \in served' <=> s \in served
         /\ s \in slot' <=> s \in slot
         /\ s \in busy' <=> s \in busy
<1> USE DEF RequestTypeOK, Goto, Answer, Return, Refuse, requestVars, guardVars, keyVars,
            accessVars, At
<1>1. CASE Arrive(r) \/ Authorize(r) \/ RateLimit(r) \/ DrainGuard(r)
  BY <1>1 DEF Arrive, Authorize, RateLimit, DrainGuard, Admit
<1>2. CASE MutationGuards(r) \/ Refused(r) \/ Unkeyed(r)
  BY <1>2 DEF MutationGuards, Refused, Unkeyed, MaintenanceGuard, StorageGuard
<1>3. CASE Begin(r)
  BY <1>3 DEF Begin
<1>4. CASE Decode(r) \/ RecordRequest(r) \/ RecordResult(r)
  BY <1>4 DEF Decode, RecordRequest, RecordResult, Finish
<1>5. CASE ServiceCall(r)
  BY <1>5 DEF ServiceCall, OtherCall, Outcome
<1>6. CASE Settle(r) \/ Flush(r)
  BY <1>6 DEF Settle, Flush
<1> QED BY <1>1, <1>2, <1>3, <1>4, <1>5, <1>6 DEF RequestStep

-----------------------------------------------------------------------------
(* What the daemon holds for a request is given back, and the state has    *)
(* its type.                                                               *)

\* The parts of RequestTypeOK: what each request is about, what is held for it,
\* what the ledger keeps, and what is on record.
RequestShape ==
  /\ daemon \in {"up", "draining", "down"}
  /\ pc \in [Request -> Label] /\ call \in [Request -> Calls]
  /\ scope \in [Request -> {"owned", "all", "capability"}]
  /\ code \in [Request -> Nat] /\ origin \in [Request -> Request \cup {None}]
GuardShape == slot \subseteq InFlight /\ busy \subseteq slot /\ mutex \in busy \cup {None}
KeyShape ==
  /\ row \in [Principal \X Key -> RowType]
  /\ epoch \in [Principal \X Key -> 0 .. MaxEpoch]
  /\ reserved \in [Request -> 0 .. MaxEpoch]
AccessShape ==
  /\ used \in [DOMAIN Capability -> Request \cup {None}]
  /\ grants \in [Tx -> [Principal -> {"none", "read", "operate"}]]
RecordShape ==
  served \subseteq Request /\ trail \in TrailType /\ faults \in 0 .. MaxFaults

\* The type of the state is its five parts.
LEMMA Shapes ==
  RequestTypeOK <=> RequestShape /\ GuardShape /\ KeyShape /\ AccessShape /\ RecordShape
  BY DEF RequestTypeOK, RequestShape, GuardShape, KeyShape, AccessShape, RecordShape,
         TrailType

\* And so is the type of the next one.
LEMMA NextShapes ==
  (RequestShape /\ GuardShape /\ KeyShape /\ AccessShape /\ RecordShape)' => RequestTypeOK'
  BY DEF RequestTypeOK, RequestShape, GuardShape, KeyShape, AccessShape, RecordShape,
         TrailType

\* The lines Record and its callers write are lines of the trail.
LEMMA Lines ==
  ASSUME NEW r \in Request
  PROVE  <<r, "request">> \in Line /\ <<r, "result">> \in Line /\ <<r, "denied">> \in Line
  BY DEF Line

\* A key's row is found under its caller and the key.
LEMMA RowInTable ==
  ASSUME RequestTypeOK, NEW r \in Request, Keyed(r)
  PROVE  RowOf(r) \in Principal \X Key
  BY CallAssumption DEF RequestTypeOK, Keyed, RowOf, CallType

\* The places the guards and handlers move a request to are places it can be.
LEMMA Labels ==
  {"authorize", "rate", "drain", "admit", "idempotency", "decode", "request", "call",
   "result", "settle", "refused", "done"} \subseteq Label
  BY DEF Label

\* A step of a request moves it to a label, and writes a status when it says one.
LEMMA Moves ==
  ASSUME RequestTypeOK, NEW r \in Request, RequestStep(r)
  PROVE  /\ \E l \in Label : pc' = [pc EXCEPT ![r] = l]
         /\ code' = code \/ \E c \in Nat : code' = [code EXCEPT ![r] = c]
<1> USE Labels DEF Goto, Answer, Return, Refuse, requestVars
<1>1. CASE Arrive(r) \/ Authorize(r) \/ RateLimit(r) \/ DrainGuard(r)
  BY <1>1 DEF Arrive, Authorize, RateLimit, DrainGuard, Admit
<1>2. CASE MutationGuards(r) \/ Refused(r) \/ Unkeyed(r)
  BY <1>2 DEF MutationGuards, Refused, Unkeyed, MaintenanceGuard, StorageGuard,
     RequestTypeOK
<1>3. CASE Begin(r)
  <2>1. row[RowOf(r)].code \in Nat
    BY <1>3, RowInTable DEF Begin, RowType, RequestTypeOK
  <2> QED BY <1>3, <2>1 DEF Begin
<1>4. CASE Decode(r) \/ RecordRequest(r) \/ RecordResult(r)
  BY <1>4 DEF Decode, RecordRequest, RecordResult, Finish
<1>5. CASE ServiceCall(r)
  <2>1. Handler(call[r].op).done \in Nat /\ FailureOf(call[r].op) \subseteq Nat
    BY Contract
  <2> QED BY <1>5, <2>1 DEF ServiceCall, OtherCall, Outcome
<1>6. CASE Settle(r) \/ Flush(r)
  BY <1>6 DEF Settle, Flush, RequestTypeOK
<1> QED BY <1>1, <1>2, <1>3, <1>4, <1>5, <1>6 DEF RequestStep

\* Every step of a request keeps what it is about well-formed.
LEMMA RequestShapeStep ==
  ASSUME RequestTypeOK, NEW r \in Request, RequestStep(r)
  PROVE  RequestShape'
<1> USE DEF RequestTypeOK, RequestShape, requestVars
<1>1. pc' \in [Request -> Label] /\ code' \in [Request -> Nat]
  BY Moves
<1>2. /\ daemon' \in {"up", "draining", "down"} /\ call' \in [Request -> Calls]
      /\ scope' \in [Request -> {"owned", "all", "capability"}]
      /\ origin' \in [Request -> Request \cup {None}]
  <2>1. CASE Arrive(r) \/ RateLimit(r) \/ DrainGuard(r) \/ MutationGuards(r)
    BY <2>1 DEF Arrive, RateLimit, DrainGuard, MutationGuards
  <2>2. CASE Authorize(r)
    BY <2>2 DEF Authorize, Admit, ScopeOf
  <2>3. CASE Refused(r) \/ Unkeyed(r) \/ Decode(r) \/ RecordRequest(r) \/ RecordResult(r)
             \/ Settle(r) \/ Flush(r)
    BY <2>3 DEF Refused, Unkeyed, Decode, RecordRequest, RecordResult, Settle, Flush
  <2>4. CASE Begin(r)
    <3>1. row[RowOf(r)].by \in Request \cup {None}
      BY <2>4, RowInTable DEF Begin, RowType
    <3> QED BY <2>4, <3>1 DEF Begin
  <2>5. CASE ServiceCall(r)
    BY <2>5 DEF ServiceCall
  <2> QED BY <2>1, <2>2, <2>3, <2>4, <2>5 DEF RequestStep
<1> QED BY <1>1, <1>2

\* Every way out of the chain of guards gives back what the way in took.
LEMMA GuardShapeStep ==
  ASSUME RequestTypeOK, GuardsHeld, NEW r \in Request, RequestStep(r)
  PROVE  GuardShape' /\ GuardsHeld'
<1> USE DEF RequestTypeOK, GuardShape, GuardsHeld, Goto, Answer, Return, Refuse,
            requestVars, guardVars, keyVars, accessVars, At, InFlight, Label
<1>1. CASE Arrive(r) \/ Authorize(r)
  BY <1>1 DEF Arrive, Authorize, Admit
<1>2. CASE RateLimit(r) \/ DrainGuard(r)
  BY <1>2 DEF RateLimit, DrainGuard
<1>3. CASE MutationGuards(r)
  BY <1>3 DEF MutationGuards, MaintenanceGuard, StorageGuard
<1>4. CASE Refused(r) \/ Unkeyed(r)
  BY <1>4 DEF Refused, Unkeyed
<1>5. CASE Begin(r)
  <2>1. CASE mutex' = r /\ Goto(r, "decode") /\ UNCHANGED <<slot, busy>>
    BY <1>5, <2>1 DEF Begin
  <2>2. CASE \E status : Return(r, status)
    BY <1>5, <2>2 DEF Begin
  <2> QED BY <1>5, <2>1, <2>2 DEF Begin
<1>6. CASE Decode(r) \/ RecordRequest(r) \/ RecordResult(r)
  BY <1>6 DEF Decode, RecordRequest, RecordResult, Finish
<1>7. CASE ServiceCall(r)
  BY <1>7 DEF ServiceCall, OtherCall, Outcome
<1>8. CASE Settle(r) \/ Flush(r)
  BY <1>8 DEF Settle, Flush
<1> QED BY <1>1, <1>2, <1>3, <1>4, <1>5, <1>6, <1>7, <1>8 DEF RequestStep

\* The rows, the uses, the grants and the records stay well-formed.
LEMMA LedgerShapeStep ==
  ASSUME RequestTypeOK, NEW r \in Request, RequestStep(r)
  PROVE  KeyShape' /\ AccessShape' /\ RecordShape'
<1> USE DEF RequestTypeOK, requestVars, guardVars, keyVars, accessVars, At, KeyShape,
            AccessShape, RecordShape
<1>1. CASE Arrive(r) \/ RateLimit(r) \/ DrainGuard(r) \/ MutationGuards(r)
           \/ Unkeyed(r) \/ Flush(r)
  BY <1>1 DEF Arrive, RateLimit, DrainGuard, MutationGuards, Unkeyed, Flush, TrailType
<1>2. CASE Authorize(r)
  BY <1>2 DEF Authorize, Admit, TrailType
<1>3. CASE Refused(r) \/ Decode(r) \/ RecordRequest(r) \/ RecordResult(r)
  <2>1. trail \in TrailType
    BY DEF TrailType
  <2>2. trail' \in TrailType /\ faults' \in 0 .. MaxFaults
    BY <1>3, <2>1, Lines, RecordKeeps, RecordFailsKeeps DEF Refused, Decode, RecordRequest,
       RecordResult
  <2>3. UNCHANGED <<keyVars, accessVars, served>>
    BY <1>3 DEF Refused, Decode, RecordRequest, RecordResult
  <2> QED BY <2>2, <2>3
<1>4. CASE Begin(r)
  <2>1. RowOf(r) \in Principal \X Key
    BY <1>4, RowInTable DEF Begin
  <2>2. UNCHANGED <<accessVars, served, trail>> /\ epoch' = epoch
    BY <1>4 DEF Begin
  <2>3. reserved' \in [Request -> 0 .. MaxEpoch]
    BY <1>4, <2>1 DEF Begin
  <2>4. row' \in [Principal \X Key -> RowType]
    <3>1. CASE UNCHANGED row
      BY <3>1
    <3>2. ASSUME row' = [row EXCEPT ![RowOf(r)] = [state |-> "in_progress",
                           call |-> call[r], by |-> r, code |-> 0]]
          PROVE  row' \in [Principal \X Key -> RowType]
      <4>1. [state |-> "in_progress", call |-> call[r], by |-> r, code |-> 0] \in RowType
        BY DEF RowType
      <4> QED BY <3>2, <4>1
    <3> QED BY <1>4, <3>1, <3>2 DEF Begin
  <2>5. faults' \in 0 .. MaxFaults
    BY <1>4, FaultCounted DEF Begin, NoFault
  <2> QED BY <2>2, <2>3, <2>4, <2>5 DEF TrailType
<1>5. CASE Settle(r)
  <2>1. UNCHANGED <<accessVars, served, trail, epoch, reserved>>
    BY <1>5 DEF Settle
  <2>2. RowOf(r) \in Principal \X Key
    BY <1>5, RowInTable DEF Settle
  <2>3. row' \in [Principal \X Key -> RowType]
    <3>1. CASE row' = row
      BY <3>1
    <3>2. CASE DeleteRow(r)
      BY <3>2 DEF DeleteRow, NoRow, RowType
    <3>3. CASE CompleteRow(r)
      <4> DEFINE old == row[RowOf(r)]
      <4>1. old \in RowType
        BY <2>2
      <4>2. [[old EXCEPT !.state = "completed"] EXCEPT !.code = code[r]] \in RowType
        BY <4>1 DEF RowType
      <4> QED BY <2>2, <3>3, <4>2 DEF CompleteRow
    <3> QED BY <1>5, <3>1, <3>2, <3>3 DEF Settle
  <2>4. faults' \in 0 .. MaxFaults
    BY <1>5, FaultCounted DEF Settle
  <2> QED BY <2>1, <2>3, <2>4 DEF TrailType
<1>6. CASE ServiceCall(r)
  <2>1. UNCHANGED <<keyVars, used, trail, faults>> /\ served' \subseteq Request
    BY <1>6 DEF ServiceCall
  <2>2. grants' \in [Tx -> [Principal -> {"none", "read", "operate"}]]
    <3>1. CASE UNCHANGED grants
      BY <3>1
    <3>2. ASSUME NEW v \in {"none", "read", "operate"},
                 grants' = [grants EXCEPT ![call[r].tx][call[r].subject] = v]
          PROVE  grants' \in [Tx -> [Principal -> {"none", "read", "operate"}]]
      <4> DEFINE P == {"none", "read", "operate"}
      <4> HIDE DEF P
      <4>1. grants' \in [Tx -> [Principal -> P]]
        BY <3>2 DEF P
      <4> QED BY <4>1 DEF P
    <3> QED BY <1>6, <3>1, <3>2 DEF ServiceCall, OtherCall, Grant, Revoke, CanGrant
  <2> QED BY <2>1, <2>2 DEF TrailType
<1> QED BY <1>1, <1>2, <1>3, <1>4, <1>5, <1>6 DEF RequestStep

Environment ==
  Drain \/ Stop \/ Start \/ Crash \/ PowerLoss \/ RepairTrail \/ CollectKey

\* What the daemon's life, the operator and the collection leave alone: no request
\* moves, but that those in flight are lost with the daemon.
LEMMA EnvironmentStays ==
  ASSUME RequestTypeOK, Environment
  PROVE  /\ UNCHANGED <<call, scope, code, origin, reserved, served, accessVars>>
         /\ trail' \in TrailType /\ trail'.kept = trail.kept
         /\ \A r \in Request : pc'[r] = pc[r] \/ (pc[r] # "idle" /\ pc'[r] = "lost")
<1> USE DEF requestVars, guardVars, keyVars, accessVars
<1>1. UNCHANGED <<call, scope, code, origin, reserved, served, accessVars>>
  BY DEF Environment, Drain, Stop, Start, CollectKey, Crash, PowerLoss, RepairTrail, Die
<1>2. trail' \in TrailType /\ trail'.kept = trail.kept
  <2>1. trail \in TrailType
    BY DEF RequestTypeOK, TrailType
  <2>2. CASE UNCHANGED trail
    BY <2>1, <2>2
  <2>3. CASE trail' = [trail EXCEPT !.torn = TRUE]
    BY <2>1, <2>3 DEF TrailType
  <2>4. CASE RepairTrail
    BY <2>1, <2>4 DEF TrailType, RepairTrail
  <2>5. CASE PowerLoss
    BY <2>1, <2>5 DEF TrailType, PowerLoss
  <2> QED BY <2>2, <2>3, <2>4, <2>5 DEF Environment, Drain, Stop, Start, CollectKey, Crash
<1>3. ASSUME NEW r \in Request
      PROVE  pc'[r] = pc[r] \/ (pc[r] # "idle" /\ pc'[r] = "lost")
  <2>1. CASE UNCHANGED pc
    BY <2>1
  <2>2. CASE Die
    BY <2>2 DEF Die, InFlight, RequestTypeOK
  <2> QED BY <2>1, <2>2 DEF Environment, Drain, Stop, Start, CollectKey, Crash, PowerLoss,
          RepairTrail
<1> QED BY <1>1, <1>2, <1>3

\* A drain, a stop, a death, a repair or a collection keeps the type and leaves nothing held.
LEMMA EnvironmentShape ==
  ASSUME RequestTypeOK, GuardsHeld, Environment
  PROVE  RequestTypeOK' /\ GuardsHeld'
<1> USE DEF requestVars, guardVars, keyVars, accessVars
<1>1. /\ UNCHANGED <<call, scope, code, origin, reserved, served, accessVars>>
      /\ trail' \in TrailType
  BY EnvironmentStays
<1>2. faults' \in 0 .. MaxFaults
  BY FaultCounted DEF Environment, RequestTypeOK, Drain, Stop, Start, Crash, PowerLoss,
     RepairTrail, CollectKey, Fault, NoFault
<1>3. row' \in [Principal \X Key -> RowType] /\ epoch' \in [Principal \X Key -> 0 .. MaxEpoch]
  <2>1. CASE UNCHANGED <<row, epoch>>
    BY <2>1 DEF RequestTypeOK
  <2>2. CASE CollectKey
    <3>1. PICK k \in DOMAIN row : epoch[k] < MaxEpoch /\ ForgetKey(k)
      BY <2>2 DEF CollectKey
    <3>2. NoRow \in RowType
      BY DEF NoRow, RowType
    <3>3. k \in Principal \X Key /\ epoch[k] + 1 \in 0 .. MaxEpoch
      BY <3>1, RequestAssumption DEF RequestTypeOK
    <3> QED BY <3>1, <3>2, <3>3 DEF ForgetKey, RequestTypeOK
  <2> QED BY <2>1, <2>2 DEF Environment, Drain, Stop, Start, Crash, PowerLoss, Die,
          RepairTrail
<1>4. daemon' \in {"up", "draining", "down"} /\ pc' \in [Request -> Label]
  BY DEF Environment, RequestTypeOK, Drain, Stop, Start, Crash, PowerLoss, Die,
         RepairTrail, CollectKey, Label
<1>5. GuardShape' /\ GuardsHeld'
  <2>1. CASE Crash \/ PowerLoss
    BY <2>1 DEF Crash, PowerLoss, Die, GuardShape, GuardsHeld, InFlight, RequestTypeOK
  <2>2. CASE Drain \/ Stop \/ Start \/ RepairTrail \/ CollectKey
    BY <2>2 DEF Drain, Stop, Start, RepairTrail, CollectKey, GuardShape, GuardsHeld,
       InFlight, RequestTypeOK
  <2> QED BY <2>1, <2>2 DEF Environment
<1>6. RequestShape' /\ KeyShape' /\ AccessShape' /\ RecordShape'
  BY <1>1, <1>2, <1>3, <1>4, Shapes DEF RequestShape, KeyShape, AccessShape, RecordShape
<1> QED BY <1>5, <1>6, NextShapes

\* A step is one of a request, or one of what surrounds the requests.
LEMMA NextSteps ==
  Next <=> Environment \/ \E r \in Request : RequestStep(r)
  BY DEF Next, Environment

\* Every step keeps the type and what the guards hold.
LEMMA ShapeNext ==
  RequestTypeOK /\ GuardsHeld /\ [Next]_vars => RequestTypeOK' /\ GuardsHeld'
<1> SUFFICES ASSUME RequestTypeOK, GuardsHeld, [Next]_vars
             PROVE  RequestTypeOK' /\ GuardsHeld'
  OBVIOUS
<1>1. CASE UNCHANGED vars
  BY <1>1 DEF vars, requestVars, guardVars, keyVars, accessVars, RequestTypeOK, GuardsHeld,
     InFlight
<1>2. CASE Environment
  BY <1>2, EnvironmentShape
<1>3. ASSUME NEW r \in Request, RequestStep(r) PROVE RequestTypeOK' /\ GuardsHeld'
  BY <1>3, RequestShapeStep, GuardShapeStep, LedgerShapeStep, NextShapes
<1> QED BY <1>1, <1>2, <1>3, NextSteps

\* The daemon starts with nothing held.
LEMMA ShapeInit == Init => RequestTypeOK /\ GuardsHeld
<1> SUFFICES ASSUME Init PROVE RequestTypeOK /\ GuardsHeld
  OBVIOUS
<1>1. RequestShape
  BY CallAssumption DEF Init, RequestShape, Label
<1>2. GuardShape /\ AccessShape
  BY DEF Init, GuardShape, AccessShape, InFlight
<1>3. KeyShape
  <2>1. NoRow \in RowType /\ 0 \in 0 .. MaxEpoch
    BY RequestAssumption DEF NoRow, RowType
  <2> QED BY <2>1 DEF Init, KeyShape
<1>4. RecordShape
  BY RequestAssumption DEF Init, RecordShape, TrailType
<1>5. GuardsHeld
  BY DEF Init, GuardsHeld
<1> QED BY <1>1, <1>2, <1>3, <1>4, <1>5, Shapes

-----------------------------------------------------------------------------
(* The record of a request is on disk before its handler acts.             *)

\* Nothing a request does takes a line off the disk.
LEMMA TrailGrows ==
  ASSUME RequestTypeOK, NEW r \in Request, RequestStep(r)
  PROVE  trail.kept \subseteq trail'.kept
<1>1. trail \in TrailType /\ faults \in 0 .. MaxFaults
  BY DEF RequestTypeOK, TrailType
<1>2. CASE UNCHANGED trail
  BY <1>2
<1>3. CASE \E line \in Line : Record(line) \/ RecordFails(line)
  BY <1>1, <1>3, RecordKeeps, RecordFailsKeeps
<1> QED BY <1>2, <1>3, Lines DEF RequestStep, Arrive, Authorize, RateLimit, DrainGuard,
        MutationGuards, Refused, Unkeyed, Begin, Decode, RecordRequest, ServiceCall,
        RecordResult, Settle, Flush

\* A request that arrives has not acted; after that it asks the same thing.
LEMMA CallStays ==
  ASSUME RequestTypeOK, NEW r \in Request, RequestStep(r)
  PROVE  /\ pc[r] # "idle" => call'[r] = call[r]
         /\ pc[r] = "idle" => pc'[r] = "authorize" /\ served' = served
         /\ pc[r] \notin {"done", "lost"}
<1> USE DEF RequestTypeOK, At, Goto, requestVars
<1>1. CASE Arrive(r)
  BY <1>1 DEF Arrive
<1>2. CASE ~Arrive(r)
  <2>1. pc[r] \notin {"idle", "done", "lost"} /\ call' = call
    BY <1>2 DEF RequestStep, Authorize, RateLimit, DrainGuard, MutationGuards, Refused,
       Unkeyed, Begin, Decode, RecordRequest, ServiceCall, RecordResult, Settle, Flush
  <2> QED BY <2>1
<1> QED BY <1>1, <1>2

\* A request acts at its service call, and only ever goes on from there.
LEMMA ActedLateStep ==
  ASSUME RequestTypeOK, ActedLate, NEW r \in Request, RequestStep(r)
  PROVE  ActedLate'
<1> SUFFICES ASSUME NEW s \in served'
             PROVE  pc'[s] \in {"result", "settle", "done", "lost"}
  BY DEF ActedLate
<1>1. s \in Request
  BY LedgerShapeStep DEF RecordShape
<1>2. CASE s # r
  BY <1>1, <1>2, OthersStay DEF ActedLate
<1>3. CASE s = r /\ ServiceCall(r)
  BY <1>3 DEF ServiceCall, OtherCall, Outcome, Goto, RequestTypeOK
<1>4. CASE s = r /\ ~ServiceCall(r)
  <2>1. served' = served
    BY <1>4 DEF RequestStep, Arrive, Authorize, RateLimit, DrainGuard, MutationGuards,
       Refused, Unkeyed, Begin, Decode, RecordRequest, RecordResult, Settle, Flush
  <2>2. pc[r] \in {"result", "settle"}
    BY <1>4, <2>1, CallStays DEF ActedLate
  <2>3. RecordResult(r) \/ Settle(r) \/ Flush(r)
    BY <1>4, <2>2 DEF RequestStep, Arrive, Authorize, RateLimit, DrainGuard, MutationGuards,
       Refused, Unkeyed, Begin, Decode, RecordRequest, At
  <2> QED BY <1>4, <2>3 DEF RecordResult, Settle, Flush, Return, Goto, RequestTypeOK
<1> QED BY <1>2, <1>3, <1>4

\* The only ways to "call" are past the record, or by an operation without one.
LEMMA RecordFirstStep ==
  ASSUME RequestInv, NEW r \in Request, RequestStep(r)
  PROVE  RecordFirst'
<1> USE DEF RequestInv
<1> SUFFICES ASSUME NEW s \in Request, pc'[s] = "call" \/ s \in served',
                    Handler(call'[s].op).audited
             PROVE  <<s, "request">> \in trail'.kept
  BY DEF RecordFirst
<1>1. CASE s # r
  BY <1>1, OthersStay, TrailGrows DEF RecordFirst
<1>2. CASE s = r /\ (pc[r] = "call" \/ r \in served)
  <2>1. pc[r] # "idle"
    BY <1>2 DEF ActedLate
  <2> QED BY <1>2, <2>1, CallStays, TrailGrows DEF RecordFirst
<1>3. CASE s = r /\ pc[r] # "call" /\ r \notin served
  <2>1. pc'[r] = "call"
    BY <1>3, CallStays DEF RequestStep, Arrive, Authorize, RateLimit, DrainGuard,
       MutationGuards, Refused, Unkeyed, Begin, Decode, RecordRequest, RecordResult, Settle,
       Flush, ServiceCall, At
  <2>2. pc[r] # "idle" /\ call'[r] = call[r]
    BY <2>1, CallStays
  <2>3. CASE RecordRequest(r)
    <3>1. Record(<<r, "request">>)
      BY <2>1, <2>3 DEF RecordRequest, Finish, Goto, RequestTypeOK
    <3> QED BY <1>3, <3>1, Lines, RecordKeeps DEF RequestTypeOK, TrailType
  <2>4. CASE RateLimit(r)
    <3>1. call[r].op \in Reads
      BY <2>1, <2>4 DEF RateLimit, Refuse, Goto, Mutating, RequestTypeOK
    <3> QED BY <1>3, <2>2, <3>1, Contract
  <2>5. CASE Decode(r)
    <3>1. ~Handler(call[r].op).audited
      BY <2>1, <2>5 DEF Decode, Finish, Goto, RequestTypeOK
    <3> QED BY <1>3, <2>2, <3>1
  <2>6. RecordRequest(r) \/ RateLimit(r) \/ Decode(r)
    <3> USE <1>3, <2>1 DEF Goto, Return, Refuse, At, RequestTypeOK
    <3>1. ~Arrive(r) /\ ~Authorize(r) /\ ~DrainGuard(r)
      BY DEF Arrive, Authorize, Admit, DrainGuard
    <3>2. ~MutationGuards(r) /\ ~Refused(r) /\ ~Unkeyed(r)
      BY DEF MutationGuards, MaintenanceGuard, StorageGuard, Refused, Unkeyed
    <3>3. ~Begin(r) /\ ~ServiceCall(r)
      BY DEF Begin, ServiceCall
    <3>4. ~RecordResult(r) /\ ~Settle(r) /\ ~Flush(r)
      BY DEF RecordResult, Settle, Flush
    <3> QED BY <3>1, <3>2, <3>3, <3>4 DEF RequestStep
  <2> QED BY <2>3, <2>4, <2>5, <2>6
<1> QED BY <1>1, <1>2, <1>3

-----------------------------------------------------------------------------
(* Nobody acts without authority.                                          *)

\* A capability that was spent stays spent by the same request.
LEMMA UsesStay ==
  ASSUME RequestTypeOK, NEW r \in Request, RequestStep(r),
         NEW cap \in DOMAIN Capability, used[cap] # None
  PROVE  used'[cap] = used[cap]
<1>1. CASE Authorize(r)
  BY <1>1 DEF Authorize, Admit, Unused, RequestTypeOK
<1>2. CASE ~Authorize(r)
  BY <1>2 DEF RequestStep, Arrive, RateLimit, DrainGuard, MutationGuards, Refused, Unkeyed,
     Begin, Decode, RecordRequest, ServiceCall, RecordResult, Settle, Flush, accessVars
<1> QED BY <1>1, <1>2

\* The authorizer lets in by a role that covers the transaction, or for a capability
\* it marks as spent.
LEMMA Authorized ==
  ASSUME RequestTypeOK, NEW r \in Request, Authorize(r), pc'[r] = "rate"
  PROVE  HasAuthority(r)'
<1> DEFINE c == call[r]
<1>1. call' = call
  BY DEF Authorize
<1>2. CASE Granting(c) # {} /\ Visible(c)
  <2>1. c.op \in AgentUnsafe => Owner[c.tx] = c.who \/ ScopeOf(c) = "all"
    BY <1>2, Contract DEF Visible, MayAccess
  <2> QED BY <1>1, <1>2, <2>1 DEF HasAuthority, Granting, ScopeOf
<1>3. CASE ~(Granting(c) # {} /\ Visible(c))
  <2>1. /\ c.cap # None /\ Fits(c.cap, c)
        /\ used' = [used EXCEPT ![c.cap] = r]
    BY <1>3 DEF Authorize, Refuse, Admit, Goto, RequestTypeOK
  <2>2. c.cap \in DOMAIN Capability
    BY <2>1, CallAssumption DEF RequestTypeOK, CallType
  <2>3. used'[c.cap] = r
    BY <2>1, <2>2 DEF RequestTypeOK
  <2> QED BY <1>1, <2>1, <2>3 DEF HasAuthority
<1> QED BY <1>2, <1>3

\* Authority, once given by Authorize, is neither lost nor passed on.
LEMMA AuthorityStep ==
  ASSUME RequestInv, NEW r \in Request, RequestStep(r)
  PROVE  AuthorityKept'
<1> USE DEF RequestInv
<1> SUFFICES ASSUME NEW s \in Request, pc'[s] \in Allowing \/ s \in served'
             PROVE  HasAuthority(s)'
  BY DEF AuthorityKept
<1>1. ASSUME HasAuthority(s), call'[s] = call[s]
      PROVE  HasAuthority(s)'
  <2> DEFINE c == call[s]
  <2>1. ASSUME c.cap # None, used[c.cap] = s PROVE used'[c.cap] = s
    <3>1. c.cap \in DOMAIN Capability
      BY <2>1, CallAssumption DEF RequestTypeOK, CallType
    <3> QED BY <2>1, <3>1, UsesStay, RequestAssumption
  <2> QED BY <1>1, <2>1 DEF HasAuthority, Granting, ScopeOf
<1>2. CASE s # r
  BY <1>1, <1>2, OthersStay DEF AuthorityKept
<1>3. CASE s = r /\ (pc[r] \in Allowing \/ r \in served)
  <2>1. pc[r] # "idle"
    BY <1>3 DEF ActedLate, Allowing
  <2> QED BY <1>1, <1>3, <2>1, CallStays DEF AuthorityKept
<1>4. CASE s = r /\ pc[r] \notin Allowing /\ r \notin served
  <2>1. pc[r] \in {"idle", "authorize", "refused", "result", "settle"}
    BY <1>4, CallStays DEF RequestTypeOK, Label, Allowing
  <2>2. CASE Authorize(r)
    <3>1. pc'[r] = "rate"
      BY <1>4, <2>2 DEF Authorize, Admit, Refuse, Goto, RequestTypeOK, Allowing
    <3> QED BY <1>4, <2>2, <3>1, Authorized
  <2>3. CASE ~Authorize(r)
    <3>1. Arrive(r) \/ Refused(r) \/ RecordResult(r) \/ Settle(r) \/ Flush(r)
      BY <2>1, <2>3 DEF RequestStep, Arrive, RateLimit, DrainGuard, MutationGuards, Refused,
         Unkeyed, Begin, Decode, RecordRequest, ServiceCall, RecordResult, Settle, Flush, At
    <3> QED BY <1>4, <3>1 DEF Arrive, Refused, RecordResult, Settle, Flush, Return, Goto,
            RequestTypeOK, Allowing
  <2> QED BY <2>2, <2>3
<1> QED BY <1>2, <1>3, <1>4

-----------------------------------------------------------------------------
\* Every step keeps the first invariant, whatever faults there are.
LEMMA RequestInvNext == RequestInv /\ [Next]_vars => RequestInv'
<1> SUFFICES ASSUME RequestInv, [Next]_vars PROVE RequestInv'
  OBVIOUS
<1> USE DEF RequestInv
<1>1. RequestTypeOK' /\ GuardsHeld'
  BY ShapeNext
<1>2. ActedLate' /\ RecordFirst' /\ AuthorityKept'
  <2>1. CASE UNCHANGED vars
    BY <2>1 DEF vars, requestVars, accessVars, ActedLate, RecordFirst, AuthorityKept,
       HasAuthority, Granting, ScopeOf
  <2>2. CASE Environment
    <3>1. ActedLate'
      BY <2>2, EnvironmentStays DEF ActedLate, RequestTypeOK
    <3>2. RecordFirst'
      BY <2>2, EnvironmentStays DEF RecordFirst
    <3>3. AuthorityKept'
      BY <2>2, EnvironmentStays DEF AuthorityKept, HasAuthority, Granting, ScopeOf, Allowing,
         accessVars
    <3> QED BY <3>1, <3>2, <3>3
  <2>3. ASSUME NEW r \in Request, RequestStep(r)
        PROVE  ActedLate' /\ RecordFirst' /\ AuthorityKept'
    BY <2>3, ActedLateStep, RecordFirstStep, AuthorityStep
  <2> QED BY <2>1, <2>2, <2>3, NextSteps
<1> QED BY <1>1, <1>2

\* It holds before any request has arrived.
LEMMA RequestInvInit == Init => RequestInv
<1> SUFFICES ASSUME Init PROVE RequestInv
  OBVIOUS
<1>1. RequestTypeOK /\ GuardsHeld
  BY ShapeInit
<1>2. ActedLate /\ RecordFirst /\ AuthorityKept
  BY DEF Init, ActedLate, RecordFirst, AuthorityKept, Allowing
<1> QED BY <1>1, <1>2 DEF RequestInv

\* It holds at every moment.
LEMMA RequestInvHolds == Spec => []RequestInv
  BY RequestInvInit, RequestInvNext, PTL DEF Spec

\* The state has its type, which includes that slots, drain count and mutex are
\* given back; and no handler has acted whose request is not on disk.
THEOREM RecordComesFirst == Spec => []AuditedBeforeDone
<1>1. RequestInv => AuditedBeforeDone
  BY DEF RequestInv, AuditedBeforeDone, AuditedFirst, RecordFirst, RequestTypeOK
<1> QED BY <1>1, RequestInvHolds, PTL

\* An operation an agent must not do is done only by the owner, by a role over all
\* transactions, or for the one request that spent a capability for exactly this.
THEOREM AuthorityComesFirst == Spec => []UnsafeNeedsAuthority
<1>1. RequestInv => UnsafeNeedsAuthority
  BY DEF RequestInv, UnsafeNeedsAuthority, AuthorityKept, HasAuthority, RequestTypeOK
<1> QED BY <1>1, RequestInvHolds, PTL

-----------------------------------------------------------------------------
(* A key runs once.                                                        *)


\* A request waits for its answer: it came in, and is neither done nor lost.
Waiting(r) == pc[r] \notin {"idle", "done", "lost"}

\* A request whose step leaves the rows, the answers and the mutex of others alone
\* disturbs KeyInv only by what becomes of itself.
Aside(r) ==
  /\ UNCHANGED <<row, epoch, reserved, served, origin>>
  /\ r \notin served \/ code'[r] = code[r]
  /\ Keyed(r) => pc[r] \in Handling \/ pc'[r] \notin Handling
  /\ Keyed(r) /\ pc[r] \in Handling => pc'[r] \in Handling /\ mutex' = mutex
  /\ pc[r] \notin Handling \/ ~Keyed(r) => mutex' = mutex \/ (mutex = r /\ mutex' = None)
  /\ pc'[r] = "done" /\ Keyed(r) => r \notin served

\* All steps of a request but Arrive, Begin, ServiceCall and Settle are of this kind.
LEMMA AsideSteps ==
  ASSUME RequestInv, NEW r \in Request, RequestStep(r), pc[r] # "idle",
         ~Begin(r), ~ServiceCall(r), ~Settle(r)
  PROVE  Aside(r) /\ Waiting(r) /\ call'[r] = call[r] /\ pc'[r] # "idle"
<1> USE DEF Goto, Return, Refuse, Answer, At, keyVars, guardVars, requestVars, Handling, Aside
<1>1. Waiting(r) /\ call'[r] = call[r]
  BY CallStays DEF Waiting, RequestInv
<1>2. r \in served => pc[r] \in {"result", "settle"}
  BY CallStays DEF RequestInv, ActedLate
<1>3. /\ pc \in [Request -> Label] /\ code \in [Request -> Nat]
  BY DEF RequestInv, RequestTypeOK
<1>4. CASE Authorize(r) \/ RateLimit(r) \/ DrainGuard(r) \/ MutationGuards(r)
  BY <1>1, <1>2, <1>3, <1>4 DEF Authorize, Admit, RateLimit, DrainGuard, MutationGuards,
     MaintenanceGuard, StorageGuard, Keyed
<1>5. CASE Refused(r) \/ Unkeyed(r)
  BY <1>1, <1>2, <1>3, <1>5 DEF Refused, Unkeyed
<1>6. CASE Decode(r) \/ RecordRequest(r) \/ RecordResult(r) \/ Flush(r)
  BY <1>1, <1>2, <1>3, <1>6 DEF Decode, RecordRequest, RecordResult, Flush, Finish
<1>7. ~Arrive(r)
  BY DEF Arrive
<1> QED BY <1>4, <1>5, <1>6, <1>7 DEF RequestStep

\* They keep what is known of the rows and the answers.
LEMMA AsideKeeps ==
  ASSUME RequestInv, KeyInv, NEW r \in Request, RequestStep(r), Aside(r), Waiting(r),
         call'[r] = call[r], pc'[r] # "idle"
  PROVE  KeyInv'
<1> USE DEF RequestInv, Aside
<1>1. /\ \A s \in Request : Keyed(s)' = Keyed(s) /\ RowOf(s)' = RowOf(s)
      /\ \A s \in Request : call'[s] = call[s]
  BY OthersStay DEF Keyed, RowOf, Mutating
<1>2. /\ UNCHANGED <<row, epoch, reserved, served, origin>>
      /\ \A s \in Request : s # r => pc'[s] = pc[s] /\ code'[s] = code[s]
      /\ \A s \in Request : (s \in served => code'[s] = code[s])
  BY OthersStay
<1>3. \A s \in Request : Current(s)' = Current(s)
  BY <1>1, <1>2 DEF Current
<1>4. \A s \in Request : (Answered(s)' <=> Answered(s)) /\ (Answered(s) => code'[s] = code[s])
  <2> SUFFICES ASSUME NEW s \in Request
               PROVE  (Answered(s)' <=> Answered(s)) /\ (Answered(s) => code'[s] = code[s])
    OBVIOUS
  <2>1. CASE s # r
    BY <1>1, <1>2, <2>1 DEF Answered
  <2>2. CASE s = r
    <3>1. ~Answered(r)
      BY DEF Answered, Waiting
    <3>2. Keyed(r) /\ pc'[r] = "done" => origin[r] = None
      BY DEF KeyInv, OriginsKnown, Waiting
    <3> QED BY <1>1, <1>2, <2>2, <3>1, <3>2 DEF Answered
  <2> QED BY <2>1, <2>2
<1>5. HoldersHold'
  <2> SUFFICES ASSUME NEW s \in Request, Keyed(s), pc'[s] \in Handling
               PROVE  RowHeld(s)'
    BY <1>1 DEF HoldersHold
  <2>1. pc[s] \in Handling
    BY <1>2
  <2>2. RowHeld(s)
    BY <2>1 DEF KeyInv, HoldersHold
  <2>3. mutex' = mutex
    BY <2>1, <2>2, RequestAssumption DEF RowHeld
  <2> QED BY <1>1, <1>2, <2>2, <2>3 DEF RowHeld
<1>6. EpochsPass' /\ OriginsKnown'
  <2>1. EpochsPass'
    BY <1>1, <1>2 DEF KeyInv, EpochsPass
  <2>2. OriginsKnown'
    BY <1>2 DEF KeyInv, OriginsKnown, Waiting
  <2> QED BY <2>1, <2>2
<1>7. CodesKnown'
  BY <1>1, <1>2 DEF KeyInv, CodesKnown, Mutating, RequestTypeOK, Waiting
<1>8. ActorsNamed' /\ RowsKnown'
  BY <1>1, <1>2, <1>3 DEF KeyInv, ActorsNamed, RowsKnown, RequestTypeOK
<1>9. AnswersNamed'
  BY <1>1, <1>2, <1>3, <1>4 DEF KeyInv, AnswersNamed, SameRequest
<1>10. KeyRunsOnce'
  BY <1>1, <1>2 DEF KeyInv, KeyRunsOnce, RequestTypeOK
<1>11. AnswersAgree'
  BY <1>1, <1>2, <1>4 DEF KeyInv, AnswersAgree
<1> QED BY <1>5, <1>6, <1>7, <1>8, <1>9, <1>10, <1>11 DEF KeyInv

\* A request that arrives holds no row and has no answer yet.
LEMMA ArriveKeeps ==
  ASSUME RequestInv, KeyInv, NEW r \in Request, Arrive(r)
  PROVE  KeyInv'
<1> USE DEF RequestInv, Arrive, Goto, keyVars, guardVars, accessVars
<1>1. UNCHANGED <<row, epoch, reserved, served, origin, mutex, code>>
  OBVIOUS
<1>2. \A s \in Request : s # r => /\ pc'[s] = pc[s] /\ call'[s] = call[s]
                                 /\ Keyed(s)' = Keyed(s) /\ RowOf(s)' = RowOf(s)
                                 /\ Answered(s)' = Answered(s) /\ Current(s)' = Current(s)
  BY DEF RequestTypeOK, Keyed, Mutating, RowOf, Answered, Current
<1>3. pc[r] = "idle" /\ pc'[r] = "authorize" /\ r \notin served
  BY DEF RequestTypeOK, ActedLate
<1>4. origin[r] = None /\ reserved[r] = 0
  BY <1>3 DEF KeyInv, OriginsKnown, EpochsPass
<1>5. ~Answered(r)'
  BY <1>3 DEF Answered
<1>6. HoldersHold'
  BY <1>1, <1>2, <1>3 DEF KeyInv, HoldersHold, RowHeld, Handling
<1>7. EpochsPass'
  <2>1. Keyed(r)' => RowOf(r)' \in Principal \X Key
    BY <1>1, CallAssumption DEF Keyed, RowOf, RequestTypeOK, CallType
  <2>2. Keyed(r)' => 0 <= epoch[RowOf(r)']
    BY <2>1 DEF RequestTypeOK
  <2> QED BY <1>1, <1>2, <1>3, <1>4, <2>2 DEF KeyInv, EpochsPass
<1>8. OriginsKnown' /\ CodesKnown'
  BY <1>1, <1>2, <1>3, <1>4 DEF KeyInv, OriginsKnown, CodesKnown, Mutating, RequestTypeOK
<1>9. ActorsNamed' /\ RowsKnown' /\ KeyRunsOnce'
  <2>1. \A s \in served : s \in Request /\ s # r
    BY <1>3 DEF RequestTypeOK
  <2>2. ActorsNamed' /\ RowsKnown'
    BY <1>1, <1>2, <2>1 DEF KeyInv, ActorsNamed, RowsKnown
  <2>3. KeyRunsOnce'
    BY <1>1, <1>2, <2>1 DEF KeyInv, KeyRunsOnce
  <2> QED BY <2>2, <2>3
<1>10. AnswersNamed'
  BY <1>1, <1>2, <1>5 DEF KeyInv, AnswersNamed, SameRequest
<1>11. AnswersAgree'
  BY <1>1, <1>2, <1>5 DEF KeyInv, AnswersAgree
<1> QED BY <1>6, <1>7, <1>8, <1>9, <1>10, <1>11 DEF KeyInv

\* The service call: the row in the mutex names the request that now acts.
LEMMA ServiceCallKeeps ==
  ASSUME RequestInv, KeyInv, NEW r \in Request, ServiceCall(r)
  PROVE  KeyInv'
<1> USE DEF RequestInv
<1>1. /\ UNCHANGED <<row, epoch, reserved, mutex, call>> /\ served' = served \cup {r}
      /\ origin' = [origin EXCEPT ![r] = r]
  BY DEF ServiceCall, keyVars, guardVars
<1>2. /\ pc[r] = "call" /\ pc'[r] \in {"result", "settle"}
      /\ Mutating(r) => code'[r] \in {200, 201, 409}
  BY Contract DEF ServiceCall, OtherCall, Outcome, Goto, Answer, At, RequestTypeOK, Mutating
<1>3. \A s \in Request : s # r => pc'[s] = pc[s] /\ code'[s] = code[s] /\ origin'[s] = origin[s]
  BY OthersStay DEF RequestStep
<1>4. \A s \in Request : Keyed(s)' = Keyed(s) /\ RowOf(s)' = RowOf(s) /\ Current(s)' = Current(s)
  BY <1>1 DEF Keyed, Mutating, RowOf, Current
<1>5. ~Answered(r) /\ ~Answered(r)' /\ \A s \in Request : s # r => Answered(s)' = Answered(s)
  BY <1>2, <1>3, <1>4 DEF Answered
<1>6. Keyed(r) => RowHeld(r)
  BY <1>2 DEF KeyInv, HoldersHold, Handling
<1>7. HoldersHold'
  BY <1>1, <1>2, <1>3, <1>4 DEF KeyInv, HoldersHold, RowHeld, Handling
<1>8. EpochsPass' /\ RowsKnown'
  BY <1>1, <1>2, <1>3, <1>4 DEF KeyInv, EpochsPass, RowsKnown
<1>9. OriginsKnown' /\ CodesKnown'
  BY <1>1, <1>2, <1>3 DEF KeyInv, OriginsKnown, CodesKnown, Mutating, RequestTypeOK
<1>10. ActorsNamed'
  BY <1>1, <1>4, <1>6 DEF KeyInv, ActorsNamed, RowHeld, RequestTypeOK
<1>11. AnswersNamed' /\ AnswersAgree'
  <2>1. AnswersNamed'
    BY <1>1, <1>3, <1>4, <1>5 DEF KeyInv, AnswersNamed, SameRequest
  <2>2. AnswersAgree'
    BY <1>1, <1>3, <1>4, <1>5 DEF KeyInv, AnswersAgree
  <2> QED BY <2>1, <2>2
<1>12. KeyRunsOnce'
  <2> SUFFICES ASSUME NEW s \in served, Keyed(r), Keyed(s), RowOf(r) = RowOf(s),
                      reserved[r] = reserved[s]
               PROVE  r = s
    BY <1>1, <1>4 DEF KeyInv, KeyRunsOnce, RequestTypeOK
  <2>1. s \in Request /\ Current(s) /\ row[RowOf(r)].by = r
    BY <1>6 DEF RowHeld, Current, RequestTypeOK
  <2> QED BY <2>1 DEF KeyInv, ActorsNamed
<1> QED BY <1>7, <1>8, <1>9, <1>10, <1>11, <1>12 DEF KeyInv

\* What Begin and Settle have in common: only the request and its own row change.
OwnRow(r) ==
  /\ UNCHANGED <<call, epoch, served>>
  /\ pc[r] \notin {"idle", "done", "lost"} /\ pc'[r] \notin {"idle", "lost"}
  /\ \A s \in Request : s # r =>
       /\ pc'[s] = pc[s] /\ code'[s] = code[s] /\ origin'[s] = origin[s]
       /\ reserved'[s] = reserved[s]
  /\ \A k \in Principal \X Key : k # RowOf(r) => row'[k] = row[k]

\* A step on one row keeps what is known of the others: no other request holds that row,
\* has acted for it or was answered from it, or the row is as it was.
LEMMA OwnRowKeeps ==
  ASSUME RequestInv, KeyInv, NEW r \in Request, Keyed(r), OwnRow(r),
         \A s \in Request : s # r /\ Keyed(s) /\ pc[s] \in Handling => mutex' = s,
         pc'[r] \in Handling => RowHeld(r)',
         reserved'[r] = epoch[RowOf(r)],
         r \in served => origin'[r] = r /\ code'[r] \in {200, 201, 409}
                        /\ row'[RowOf(r)].state # "none" /\ row'[RowOf(r)].by = r,
         r \in served => reserved'[r] = reserved[r],
         origin'[r] # None /\ r \notin served => pc'[r] = "done",
         Answered(r)' =>
           /\ row'[RowOf(r)].state = "completed" /\ row'[RowOf(r)].by = origin'[r]
           /\ row'[RowOf(r)].code = code'[r] /\ SameRequest(row'[RowOf(r)].call, call[r]),
         row'[RowOf(r)].state # "none" => row'[RowOf(r)].call \in Calls,
         \/ row'[RowOf(r)] = row[RowOf(r)]
         \/ \A s \in Request : s # r /\ Keyed(s) /\ RowOf(s) = RowOf(r) /\ Current(s) =>
              pc[s] \notin Handling /\ s \notin served /\ ~Answered(s)
  PROVE  KeyInv'
<1> USE DEF RequestInv, OwnRow
<1> DEFINE k == RowOf(r)
<1>1. /\ \A s \in Request : Keyed(s)' = Keyed(s) /\ RowOf(s)' = RowOf(s)
      /\ \A s \in Request : s # r => Current(s)' = Current(s) /\ Answered(s)' = Answered(s)
      /\ k \in Principal \X Key
      /\ \A s \in Request : Keyed(s) => RowOf(s) \in Principal \X Key
  BY RowInTable DEF Keyed, Mutating, RowOf, Current, Answered
<1>2. HoldersHold'
  <2> SUFFICES ASSUME NEW s \in Request, Keyed(s), pc'[s] \in Handling, s # r
               PROVE  RowHeld(s)'
    BY <1>1 DEF HoldersHold
  <2>1. pc[s] \in Handling /\ mutex' = s /\ RowHeld(s)
    BY DEF KeyInv, HoldersHold
  <2>2. row'[RowOf(s)] = row[RowOf(s)]
    BY <1>1, <2>1 DEF RowHeld, Current
  <2> QED BY <1>1, <2>1, <2>2 DEF RowHeld
<1>3. EpochsPass'
  <2>1. reserved'[r] <= epoch[k]
    BY <1>1 DEF RequestTypeOK
  <2> QED BY <1>1, <2>1 DEF KeyInv, EpochsPass
<1>4. OriginsKnown' /\ CodesKnown'
  <2>1. OriginsKnown'
    BY <1>1 DEF KeyInv, OriginsKnown
  <2>2. CodesKnown'
    BY <1>1 DEF KeyInv, CodesKnown, Keyed, Mutating, RequestTypeOK
  <2> QED BY <2>1, <2>2
<1>5. ActorsNamed'
  <2> SUFFICES ASSUME NEW s \in served, s # r, Keyed(s), Current(s)
               PROVE  row'[RowOf(s)].state # "none" /\ row'[RowOf(s)].by = s
    BY <1>1 DEF ActorsNamed, RequestTypeOK
  <2>1. s \in Request /\ row[RowOf(s)].state # "none" /\ row[RowOf(s)].by = s
    BY DEF KeyInv, ActorsNamed, RequestTypeOK
  <2> QED BY <1>1, <2>1
<1>6. AnswersNamed'
  <2> SUFFICES ASSUME NEW s \in Request, s # r, Answered(s), Current(s)
               PROVE  /\ row'[RowOf(s)].state = "completed"
                      /\ row'[RowOf(s)].by = origin[s] /\ row'[RowOf(s)].code = code[s]
                      /\ SameRequest(row'[RowOf(s)].call, call[s])
    BY <1>1 DEF AnswersNamed, SameRequest
  <2>1. row'[RowOf(s)] = row[RowOf(s)]
    BY <1>1 DEF Answered
  <2> QED BY <2>1 DEF KeyInv, AnswersNamed
<1>7. RowsKnown'
  BY <1>1 DEF KeyInv, RowsKnown
<1>8. KeyRunsOnce'
  BY <1>1 DEF KeyInv, KeyRunsOnce, RequestTypeOK
<1>9. AnswersAgree'
  <2>1. ASSUME NEW s \in Request, s # r, Answered(r)', Answered(s), RowOf(s) = k,
               reserved[s] = reserved'[r]
        PROVE  /\ origin'[r] = origin[s] /\ code'[r] = code[s]
               /\ [call[r] EXCEPT !.cap = None] = [call[s] EXCEPT !.cap = None]
    <3>1. Keyed(s) /\ Current(s)
      BY <2>1 DEF Answered, Current
    <3>2. row'[k] = row[k]
      BY <2>1, <3>1
    <3>3. /\ row[k].by = origin[s] /\ row[k].code = code[s]
          /\ SameRequest(row[k].call, call[s]) /\ SameRequest(row[k].call, call[r])
      BY <2>1, <3>1, <3>2 DEF KeyInv, AnswersNamed
    <3>4. call[r] \in CallType /\ call[s] \in CallType
      BY CallAssumption DEF RequestTypeOK
    <3>5. /\ call[r].who = call[s].who /\ call[r].key = call[s].key
          /\ call[r].op = call[s].op /\ call[r].tx = call[s].tx
          /\ call[r].subject = call[s].subject /\ call[r].body = call[s].body
      BY <2>1, <3>3 DEF RowOf, SameRequest
    <3>6. [call[r] EXCEPT !.cap = None] = [call[s] EXCEPT !.cap = None]
      BY <3>4, <3>5 DEF CallType
    <3> QED BY <2>1, <3>2, <3>3, <3>6
  <2> QED BY <1>1, <2>1 DEF KeyInv, AnswersAgree
<1> QED BY <1>2, <1>3, <1>4, <1>5, <1>6, <1>7, <1>8, <1>9 DEF KeyInv

\* BeginAPIRequest: an absent row is reserved, a completed one is answered from, and
\* any other way out changes nothing.
LEMMA BeginKeeps ==
  ASSUME RequestInv, KeyInv, NEW r \in Request, Begin(r)
  PROVE  KeyInv'
<1> USE DEF RequestInv
<1> DEFINE k == RowOf(r)
<1>1. /\ Keyed(r) /\ mutex = None /\ pc[r] = "idempotency" /\ r \notin served
      /\ k \in Principal \X Key /\ UNCHANGED <<call, served>>
  BY RowInTable DEF Begin, At, ActedLate
<1>2. origin[r] = None
  BY <1>1 DEF KeyInv, OriginsKnown
<1>3. \A s \in Request : Keyed(s) => pc[s] \notin Handling
  BY <1>1, RequestAssumption DEF KeyInv, HoldersHold, RowHeld
<1>4. \A s \in Request : s # r =>
        /\ pc'[s] = pc[s] /\ code'[s] = code[s] /\ origin'[s] = origin[s]
        /\ reserved'[s] = reserved[s]
  BY OthersStay DEF RequestStep
<1>5. ASSUME UNCHANGED <<origin, keyVars>>, \E status : Return(r, status)
      PROVE  KeyInv'
  <2>1. Aside(r)
    BY <1>1, <1>5 DEF Aside, Return, Goto, Handling, keyVars, RequestTypeOK
  <2> QED BY <1>1, <1>5, <2>1, AsideKeeps DEF Waiting, RequestStep, Return, Goto, RequestTypeOK
<1>6. ASSUME row[k].state = "none", Goto(r, "decode"), mutex' = r, UNCHANGED <<origin, epoch>>,
             reserved' = [reserved EXCEPT ![r] = epoch[k]],
             row' = [row EXCEPT ![k] = [state |-> "in_progress", call |-> call[r], by |-> r,
                                        code |-> 0]]
      PROVE  KeyInv'
  <2>1. OwnRow(r)
    BY <1>1, <1>4, <1>6 DEF OwnRow, Goto, RequestTypeOK
  <2>2. /\ row'[k].state = "in_progress" /\ row'[k].call = call[r] /\ row'[k].by = r
        /\ reserved'[r] = epoch[k] /\ pc'[r] = "decode" /\ origin'[r] = None
    BY <1>1, <1>2, <1>6 DEF RequestTypeOK, Goto
  <2>3. RowHeld(r)'
    BY <1>1, <1>6, <2>2 DEF RowHeld, RowOf
  <2>4. \A s \in Request : s # r /\ Keyed(s) /\ RowOf(s) = RowOf(r) /\ Current(s) =>
              pc[s] \notin Handling /\ s \notin served /\ ~Answered(s)
    BY <1>3, <1>6 DEF KeyInv, ActorsNamed, AnswersNamed
  <2>5. ~Answered(r)'
    BY <2>2 DEF Answered
  <2>6. row'[RowOf(r)].call \in Calls
    BY <2>2 DEF RequestTypeOK
  <2> QED BY <1>1, <1>3, <2>1, <2>2, <2>3, <2>4, <2>5, <2>6, OwnRowKeeps
<1>7. ASSUME row[k].state # "none", UNCHANGED <<row, epoch>>,
             reserved' = [reserved EXCEPT ![r] = epoch[k]],
             \/ UNCHANGED origin /\ \E status : Return(r, status)
             \/ /\ row[k].state = "completed" /\ SameRequest(row[k].call, call[r])
                /\ Return(r, row[k].code) /\ origin' = [origin EXCEPT ![r] = row[k].by]
      PROVE  KeyInv'
  <2>1. pc'[r] = "done" /\ reserved'[r] = epoch[k]
    BY <1>1, <1>7 DEF Return, Goto, RequestTypeOK
  <2>2. OwnRow(r)
    BY <1>1, <1>4, <1>7, <2>1 DEF OwnRow
  <2>3. Answered(r)' =>
           /\ row'[RowOf(r)].state = "completed" /\ row'[RowOf(r)].by = origin'[r]
           /\ row'[RowOf(r)].code = code'[r] /\ SameRequest(row'[RowOf(r)].call, call[r])
    BY <1>2, <1>7 DEF Answered, Return, Answer, RequestTypeOK
  <2>4. row'[RowOf(r)].call \in Calls
    BY <1>1, <1>7 DEF KeyInv, RowsKnown
  <2>5. row'[RowOf(r)] = row[RowOf(r)]
    BY <1>7
  <2> QED BY <1>1, <1>3, <2>1, <2>2, <2>3, <2>4, <2>5, OwnRowKeeps DEF Handling
<1> QED BY <1>1, <1>5, <1>6, <1>7 DEF Begin

\* CompleteAPIRequest keeps the answer of a request that has acted; the row of a server
\* error is given back, and whoever answers one has not acted.
LEMMA SettleKeeps ==
  ASSUME RequestInv, KeyInv, NEW r \in Request, Settle(r), "persist" \notin Faults
  PROVE  KeyInv'
<1> USE DEF RequestInv
<1> DEFINE k == RowOf(r)
<1>1. /\ Keyed(r) /\ pc[r] = "settle" /\ k \in Principal \X Key
      /\ UNCHANGED <<call, served, origin, epoch, reserved>>
      /\ Return(r, code[r])
  BY RowInTable DEF Settle, At, Fault
<1>2. RowHeld(r)
  BY <1>1 DEF KeyInv, HoldersHold, Handling
<1>3. pc'[r] = "done" /\ code'[r] = code[r] /\ code[r] \in Nat /\ row[k] \in RowType
  BY <1>1 DEF Return, Goto, Answer, RequestTypeOK
<1>4. \A s \in Request : s # r =>
        /\ pc'[s] = pc[s] /\ code'[s] = code[s] /\ origin'[s] = origin[s]
        /\ reserved'[s] = reserved[s]
  BY OthersStay DEF RequestStep
<1>5. /\ \A s \in Request : s # r /\ Keyed(s) => pc[s] \notin Handling
      /\ \A s \in Request : s # r /\ Keyed(s) /\ RowOf(s) = RowOf(r) /\ Current(s) =>
              pc[s] \notin Handling /\ s \notin served /\ ~Answered(s)
  BY <1>2 DEF RowHeld, KeyInv, HoldersHold, ActorsNamed, AnswersNamed
<1>6. \A l \in Principal \X Key : l # k => row'[l] = row[l]
  BY <1>1 DEF Settle, DeleteRow, CompleteRow, RequestTypeOK
<1>7. OwnRow(r)
  BY <1>1, <1>3, <1>4, <1>6 DEF OwnRow
<1>8. (r \in served => origin[r] = r /\ code[r] \in {200, 201, 409})
      /\ (origin[r] # None => r \in served)
  BY <1>1 DEF KeyInv, OriginsKnown, CodesKnown, Keyed
<1>9. CASE code[r] >= 500
  <2>1. r \notin served /\ ~Answered(r)'
    BY <1>1, <1>3, <1>8, <1>9 DEF Answered
  <2>2. row'[k].state # "none" => row'[k].call \in Calls
    BY <1>1, <1>2, <1>9 DEF Settle, DeleteRow, NoRow, RowHeld, RequestTypeOK
  <2> QED BY <1>1, <1>2, <1>3, <1>5, <1>7, <1>8, <2>1, <2>2, OwnRowKeeps DEF Handling, RowHeld
<1>10. CASE code[r] < 500
  <2>1. /\ row'[k].state = "completed" /\ row'[k].code = code[r] /\ row'[k].by = r
        /\ row'[k].call = call[r]
    <3>1. CompleteRow(r)
      BY <1>3, <1>10 DEF Settle, Fault
    <3>2. row' = [row EXCEPT ![k] = [[@ EXCEPT !.state = "completed"] EXCEPT !.code = code[r]]]
      BY <1>1, <3>1 DEF CompleteRow, RequestTypeOK
    <3> QED BY <1>1, <1>2, <1>3, <3>2 DEF RowHeld, RowType, RequestTypeOK
  <2>2. SameRequest(row'[k].call, call[r])
    BY <2>1 DEF SameRequest
  <2>3. Answered(r)' => origin'[r] = r
    BY <1>1, <1>8 DEF Answered
  <2>4. row'[k].call \in Calls
    BY <2>1 DEF RequestTypeOK
  <2> QED BY <1>1, <1>2, <1>3, <1>5, <1>7, <1>8, <2>1, <2>2, <2>3, <2>4, OwnRowKeeps
          DEF Handling, RowHeld
<1> QED BY <1>3, <1>9, <1>10

\* A collected key starts over: nobody is at work, and whoever used it belongs to an
\* earlier epoch.
LEMMA EnvironmentKeeps ==
  ASSUME RequestInv, KeyInv, Environment
  PROVE  KeyInv'
<1> USE DEF RequestInv
<1>1. /\ UNCHANGED <<call, code, origin, reserved, served>>
      /\ \A r \in Request : pc'[r] = pc[r] \/ (pc[r] # "idle" /\ pc'[r] = "lost")
  BY EnvironmentStays
<1>2. \A r \in Request : Keyed(r)' = Keyed(r) /\ RowOf(r)' = RowOf(r)
                        /\ (Answered(r)' => Answered(r))
  BY <1>1 DEF Keyed, Mutating, RowOf, Answered
<1>3. \A r \in Request : pc'[r] \in Handling => pc'[r] = pc[r] /\ mutex' = mutex
  BY <1>1 DEF Environment, Drain, Stop, Start, Crash, PowerLoss, Die, RepairTrail, CollectKey,
     guardVars, InFlight, Handling, RequestTypeOK
<1>4. OriginsKnown' /\ CodesKnown'
  <2>1. OriginsKnown'
    <3>1. \A r \in Request : pc[r] = "done" => pc'[r] = "done"
      BY DEF Environment, Drain, Stop, Start, Crash, PowerLoss, Die, RepairTrail, CollectKey,
         InFlight, requestVars, RequestTypeOK
    <3> QED BY <1>1, <3>1 DEF KeyInv, OriginsKnown
  <2>2. CodesKnown'
    BY <1>1 DEF KeyInv, CodesKnown, Keyed, Mutating, RequestTypeOK
  <2> QED BY <2>1, <2>2
<1>5. KeyRunsOnce' /\ AnswersAgree'
  <2>1. KeyRunsOnce'
    BY <1>1, <1>2 DEF KeyInv, KeyRunsOnce, RequestTypeOK
  <2>2. AnswersAgree'
    BY <1>1, <1>2 DEF KeyInv, AnswersAgree
  <2> QED BY <2>1, <2>2
<1>6. CASE UNCHANGED <<row, epoch>>
  <2>1. \A r \in Request : Current(r)' = Current(r)
    BY <1>1, <1>2, <1>6 DEF Current
  <2>2. HoldersHold'
    BY <1>1, <1>2, <1>3, <1>6 DEF KeyInv, HoldersHold, RowHeld
  <2>3. EpochsPass' /\ RowsKnown'
    BY <1>1, <1>2, <1>6 DEF KeyInv, EpochsPass, RowsKnown
  <2>4. ActorsNamed'
    BY <1>1, <1>2, <1>6, <2>1 DEF KeyInv, ActorsNamed, RequestTypeOK
  <2>5. AnswersNamed'
    BY <1>1, <1>2, <1>6, <2>1 DEF KeyInv, AnswersNamed, SameRequest
  <2> QED BY <1>4, <1>5, <2>2, <2>3, <2>4, <2>5 DEF KeyInv
<1>7. ASSUME CollectKey, NEW k \in DOMAIN row, ForgetKey(k) PROVE KeyInv'
  <2>1. k \in Principal \X Key /\ epoch[k] \in Nat
    BY <1>7 DEF RequestTypeOK
  <2>2. /\ epoch'[k] = epoch[k] + 1 /\ row'[k] = NoRow
        /\ \A l \in Principal \X Key : l # k => row'[l] = row[l] /\ epoch'[l] = epoch[l]
    BY <1>7, <2>1 DEF ForgetKey, RequestTypeOK
  <2>3. \A r \in Request : pc[r] \notin Handling /\ pc'[r] = pc[r]
    BY <1>7 DEF CollectKey, GuardsHeld, InFlight, Handling, requestVars
  <2>4. \A r \in Request : Keyed(r) => RowOf(r) \in Principal \X Key
    BY RowInTable
  <2>5. \A r \in Request : Keyed(r) => reserved[r] <= epoch[RowOf(r)] /\ reserved[r] \in Nat
                                        /\ epoch[RowOf(r)] \in Nat
    BY <2>4 DEF KeyInv, EpochsPass, RequestTypeOK
  <2>6. \A r \in Request : Keyed(r) /\ Current(r)' =>
          RowOf(r) # k /\ Current(r) /\ row'[RowOf(r)] = row[RowOf(r)]
    BY <1>1, <1>2, <2>1, <2>2, <2>4, <2>5 DEF Current
  <2>7. HoldersHold'
    BY <2>3 DEF HoldersHold
  <2>8. EpochsPass'
    BY <1>1, <1>2, <2>2, <2>3, <2>4, <2>5 DEF KeyInv, EpochsPass
  <2>9. RowsKnown'
    BY <2>2 DEF KeyInv, RowsKnown, NoRow
  <2>10. ActorsNamed'
    BY <1>1, <1>2, <2>6 DEF KeyInv, ActorsNamed, RequestTypeOK
  <2>11. AnswersNamed'
    <3>1. \A r \in Request : Answered(r) => Keyed(r)
      BY DEF Answered
    <3> QED BY <1>1, <1>2, <2>6, <3>1 DEF KeyInv, AnswersNamed, SameRequest
  <2> QED BY <1>4, <1>5, <2>7, <2>8, <2>9, <2>10, <2>11 DEF KeyInv
<1>8. UNCHANGED <<row, epoch>> \/ CollectKey
  BY DEF Environment, Drain, Stop, Start, Crash, PowerLoss, Die, RepairTrail, keyVars
<1> QED BY <1>6, <1>7, <1>8 DEF CollectKey

\* As long as an answer can be stored, every step keeps the second invariant.
LEMMA KeyInvNext ==
  "persist" \notin Faults => (RequestInv /\ KeyInv /\ [Next]_vars => KeyInv')
<1> SUFFICES ASSUME "persist" \notin Faults, RequestInv, KeyInv, [Next]_vars PROVE KeyInv'
  OBVIOUS
<1>1. CASE UNCHANGED vars
  BY <1>1 DEF vars, requestVars, guardVars, keyVars, KeyInv, HoldersHold, RowHeld, EpochsPass,
     OriginsKnown, CodesKnown, ActorsNamed, AnswersNamed, RowsKnown, KeyRunsOnce, AnswersAgree,
     Answered, Current, Keyed, Mutating, RowOf, SameRequest
<1>2. CASE Environment
  BY <1>2, EnvironmentKeeps
<1>3. ASSUME NEW r \in Request, RequestStep(r) PROVE KeyInv'
  <2>1. CASE Arrive(r)
    BY <2>1, ArriveKeeps
  <2>2. CASE Begin(r)
    BY <2>2, BeginKeeps
  <2>3. CASE ServiceCall(r)
    BY <2>3, ServiceCallKeeps
  <2>4. CASE Settle(r)
    BY <2>4, SettleKeeps
  <2>5. CASE ~Arrive(r) /\ ~Begin(r) /\ ~ServiceCall(r) /\ ~Settle(r)
    <3>1. pc[r] # "idle"
      BY <1>3, <2>5 DEF RequestStep, Authorize, RateLimit, DrainGuard, MutationGuards, Refused,
         Unkeyed, Decode, RecordRequest, RecordResult, Flush, At
    <3> QED BY <1>3, <2>5, <3>1, AsideSteps, AsideKeeps
  <2> QED BY <2>1, <2>2, <2>3, <2>4, <2>5
<1> QED BY <1>1, <1>2, <1>3, NextSteps

\* No row is there before the first request.
LEMMA KeyInvInit == Init => KeyInv
<1> SUFFICES ASSUME Init PROVE KeyInv
  OBVIOUS
<1>1. RequestTypeOK
  BY ShapeInit
<1>2. \A r \in Request : Keyed(r) => RowOf(r) \in Principal \X Key
  BY <1>1, RowInTable
<1>3. EpochsPass
  BY <1>2 DEF Init, EpochsPass
<1>4. HoldersHold /\ OriginsKnown /\ CodesKnown /\ ActorsNamed /\ AnswersNamed
  BY DEF Init, HoldersHold, Handling, OriginsKnown, CodesKnown, ActorsNamed, AnswersNamed,
     Answered
<1>5. RowsKnown /\ KeyRunsOnce /\ AnswersAgree
  BY DEF Init, RowsKnown, KeyRunsOnce, AnswersAgree, Answered, NoRow
<1> QED BY <1>3, <1>4, <1>5 DEF KeyInv

\* A client may send a request again: while a completed answer can be stored, one of the
\* requests with a key acts, all get its answer, and a refusal has done nothing, whatever
\* else fails, and however often the daemon dies or old keys are collected.
THEOREM KeysRunOnce ==
  ASSUME "persist" \notin Faults
  PROVE  Spec => []RetriesAreSafe
<1>1. RequestInv /\ KeyInv => RetriesAreSafe
  <2> SUFFICES ASSUME RequestInv, KeyInv PROVE RefusalsChangeNothing
    BY DEF RetriesAreSafe, KeyInv
  <2> QED BY DEF RefusalsChangeNothing, KeyInv, CodesKnown
<1>2. RequestInv /\ KeyInv /\ [Next]_vars => KeyInv'
  BY KeyInvNext
<1> QED BY <1>1, <1>2, KeyInvInit, RequestInvHolds, PTL DEF Spec

-----------------------------------------------------------------------------
(* The guided command line.                                                *)

\* The assumptions: targets are told apart from none and from several.
CliBounds ==
  /\ MaxDigest \in Nat /\ MaxEffects \in Nat /\ Commands \subseteq G!Command
  /\ None \notin Target /\ None # "mixed" /\ "mixed" \notin Target

ChangeStatus ==
  {"missing", "active", "sealed", "ready", "stale", "failed_verification", "committing",
   "needs_reconciliation", "committed", "aborted", "manual_intervention"}
EffectKind == {"branch", "draft", "other"}
Prepared == [id : Nat, kind : EffectKind, target : Target \cup {None}, dep : Nat]
ChangeRecord ==
  [st : ChangeStatus, digest : 0 .. MaxDigest, approved : Nat \cup {None},
   effects : SUBSET Prepared]

\* Where an invocation is before it knows its change, where finish may be after,
\* and where it is on its way to a commit.
Unresolved == {"idle", "start", "clear", "resolve", "list"}
Preparing == {"prepare_branch", "prepare_draft"}
Publishing == {"publish_show", "publish_fetch", "publish"}
FinishPlace ==
  {"finish_get", "loop", "seal_get", "seal", "verify", "approve_get", "approve_show",
   "approve_fetch", "approve", "publish_get", "render"} \cup Preparing \cup Publishing
FinishOnly == {"finish_get", "loop"} \cup Preparing
CommandPlace ==
  FinishPlace \cup {"save", "read", "use_get", "abort", "forget", "recover_get", "recover"}
RunRecord ==
  [pc : Unresolved \cup CommandPlace, cmd : G!Command \cup {None},
   target : Target \cup {None}, id : Change \cup {None}, material : Nat \cup {None},
   branch : Nat, step : 0 .. G!MaxSteps, refused : BOOLEAN]

ChangesShaped ==
  /\ change \in [Change -> ChangeRecord]
  /\ \A c \in Change : /\ change[c].approved \in {None, change[c].digest}
                       /\ IsFiniteSet(change[c].effects)
                       /\ change[c].st = "missing" => change[c].effects = {}

\* A target belongs to finish, and to the places finish goes through.
RunShaped(q) ==
  /\ q.pc \in CommandPlace => q.id \in Change /\ q.cmd \in G!Command
  /\ q.pc # "idle" /\ q.target # None => q.cmd = "finish"
  /\ q.pc # "idle" => q.cmd \in G!Command
  /\ q.pc \in CommandPlace /\ q.cmd = "finish" => q.pc \in FinishPlace
  /\ q.pc \in FinishOnly => q.cmd = "finish"
  /\ q.pc \in {"start", "clear"} => q.cmd = q.pc
  /\ q.pc \in {"resolve", "list"} => q.cmd \notin {"start", "clear"}
  /\ q.refused => q.pc = "idle"

CliShape ==
  /\ ChangesShaped
  /\ run \in [Run -> RunRecord] /\ \A r \in Run : RunShaped(run[r])
  /\ selection \in Change \cup {None, "unreadable"}
  /\ author \in [Change -> Target \cup {None, "mixed"}]

\* Once a change is verified its effects are what they will ever be.
Frozen(c) == change[c].st \notin {"missing", "active", "sealed"}

Ours(c, target) ==
  IF target = None THEN change[c].effects = {} ELSE G!Complete(change[c].effects, target)

\* What an invocation has seen on its way to a commit is still so.
SeenWhenPublishing(q) ==
  /\ q.pc = "publish_get" /\ q.target # None => Frozen(q.id) /\ Ours(q.id, q.target)
  /\ q.pc \in Publishing => Frozen(q.id) /\ Ours(q.id, q.target)

PublishInv ==
  CliShape /\ G!ReleaseMatchesTarget /\ \A r \in Run : SeenWhenPublishing(run[r])

\* A change nobody has worked on is new; one that was only worked on for a
\* target has that target's effects, all of them once it is verified.
AuthorTold(c) ==
  /\ author[c] = None => change[c].st \in {"missing", "active"} /\ change[c].effects = {}
  /\ author[c] \in Target =>
       /\ G!Matching(change[c].effects, author[c])
       /\ Frozen(c) => G!Complete(change[c].effects, author[c])

\* What finish has prepared for a target, as long as nobody else worked on the
\* change; a change it refused is not its own.
SeenWhenPreparing(q) ==
  /\ q.target # None /\ q.pc \in Preparing \cup {"verify"} => author[q.id] # None
  /\ q.target # None /\ q.pc \in CommandPlace /\ author[q.id] = q.target =>
       /\ q.pc = "prepare_branch" => G!Of(change[q.id].effects, "branch") = {}
       /\ q.pc = "prepare_draft" =>
            /\ G!Of(change[q.id].effects, "draft") = {}
            /\ \E b \in G!Of(change[q.id].effects, "branch") : b.id = q.branch
       /\ q.pc = "verify" => G!Complete(change[q.id].effects, q.target)
  /\ q.refused /\ q.target # None =>
       q.id \in Change /\ author[q.id] \notin {None, q.target}

ResumeInv ==
  /\ CliShape /\ \A c \in Change : AuthorTold(c)
  /\ \A r \in Run : SeenWhenPreparing(run[r])

\* A call of the daemon about a change, by whomever.
DaemonCall(c) ==
  \/ G!Seal(c) \/ G!Verify(c) \/ G!Recover(c) \/ G!Abort(c)
  \/ \E kind \in EffectKind, target \in Target \cup {None}, dep \in Nat :
       G!Prepare(c, kind, target, dep)
  \/ change[c].st \in {"active", "stale"} /\ G!Touch(c, change[c].st)
  \/ \E digest \in Nat \cup {None} : G!Approve(c, digest) \/ G!Commit(c, digest)

\* The instance counts as the module does.
LEMMA CountsAlike == ASSUME NEW S PROVE G!Cardinality(S) = Cardinality(S)
BY DEF G!Cardinality, Cardinality

\* A call keeps the shape of the changes and leaves the others alone; the
\* effects of a verified change stay as they are.
LEMMA CallKeeps ==
  ASSUME CliBounds, ChangesShaped, NEW c \in Change, DaemonCall(c)
  PROVE  /\ ChangesShaped'
         /\ \A d \in Change \ {c} : change'[d] = change[d]
         /\ change[c].st # "missing" /\ change'[c].st # "missing"
         /\ Frozen(c) => Frozen(c)' /\ change'[c].effects = change[c].effects
<1> USE DEF CliBounds, ChangesShaped, ChangeRecord, ChangeStatus, Frozen
<1>1. CASE G!Seal(c)
  BY <1>1 DEF G!Seal, G!Touch
<1>2. CASE G!Verify(c)
  BY <1>2 DEF G!Verify, G!Touch
<1>3. CASE G!Recover(c)
  BY <1>3 DEF G!Recover
<1>4. CASE G!Abort(c)
  BY <1>4 DEF G!Abort
<1>5. ASSUME NEW kind \in EffectKind, NEW target \in Target \cup {None}, NEW dep \in Nat,
             G!Prepare(c, kind, target, dep)
      PROVE  /\ ChangesShaped'
             /\ \A d \in Change \ {c} : change'[d] = change[d]
             /\ change[c].st # "missing" /\ change'[c].st # "missing"
             /\ ~Frozen(c)
  <2> DEFINE old == change[c].effects
             e == [id |-> G!Cardinality(old) + 1, kind |-> kind, target |-> target,
                   dep |-> dep]
  <2>1. IsFiniteSet(old) /\ old \subseteq Prepared
    BY <1>5
  <2>2. e \in Prepared
    BY <2>1, CountsAlike, FS_CardinalityType DEF Prepared
  <2>3. IsFiniteSet(old \cup {e})
    BY <2>1, FS_AddElement
  <2>4. /\ change' = [change EXCEPT ![c].effects = @ \cup {e}, ![c].digest = @ + 1,
                                    ![c].approved = None]
        /\ change[c].st \in {"active", "sealed"} /\ change[c].digest < MaxDigest
    BY <1>5 DEF G!Prepare
  <2> HIDE DEF e
  <2>5. /\ change' \in [Change -> ChangeRecord] /\ change'[c].effects = old \cup {e}
        /\ change'[c].approved = None /\ change'[c].st = change[c].st
        /\ \A d \in Change \ {c} : change'[d] = change[d]
    BY <2>2, <2>4
  <2> QED BY <2>3, <2>4, <2>5
<1>6. CASE change[c].st \in {"active", "stale"} /\ G!Touch(c, change[c].st)
  BY <1>6 DEF G!Touch
<1>7. ASSUME NEW digest \in Nat \cup {None}, G!Approve(c, digest)
      PROVE  /\ ChangesShaped'
             /\ \A d \in Change \ {c} : change'[d] = change[d]
             /\ change[c].st # "missing" /\ change'[c].st # "missing"
             /\ Frozen(c)' /\ change'[c].effects = change[c].effects
  BY <1>7 DEF G!Approve
<1>8. ASSUME NEW digest \in Nat \cup {None}, G!Commit(c, digest)
      PROVE  /\ ChangesShaped'
             /\ \A d \in Change \ {c} : change'[d] = change[d]
             /\ change[c].st # "missing" /\ change'[c].st # "missing"
             /\ Frozen(c)' /\ change'[c].effects = change[c].effects
  BY <1>8 DEF G!Commit, G!MayCommit
<1> QED BY <1>1, <1>2, <1>3, <1>4, <1>5, <1>6, <1>7, <1>8 DEF DaemonCall

\* An invocation that has ended has nothing in mind.
LEMMA IdleMade ==
  ASSUME CliBounds
  PROVE  /\ G!Idle \in RunRecord /\ G!Idle.pc = "idle" /\ ~G!Idle.refused
         /\ G!Idle.target = None
  BY DEF CliBounds, G!Idle, RunRecord, G!MaxSteps, Unresolved

\* Where a command goes once it knows its change.
LEMMA FirstCallKnown ==
  ASSUME NEW cmd \in G!Command, cmd \notin {"start", "clear"}
  PROVE  /\ G!FirstCall(cmd) \in CommandPlace
         /\ cmd = "finish" => G!FirstCall(cmd) = "finish_get"
         /\ G!FirstCall(cmd) \in FinishOnly => cmd = "finish"
         /\ G!FirstCall(cmd) \notin Publishing \cup Preparing
  BY DEF G!FirstCall, G!Command, CommandPlace, FinishPlace, FinishOnly, Preparing, Publishing

\* A step of an invocation changes its own record, and the daemon's by a call
\* about its change or by starting one.
RunMoves(r) ==
  /\ run' \in [Run -> RunRecord] /\ \A q \in Run \ {r} : run'[q] = run[q]
  /\ RunShaped(run'[r])
Created(r) ==
  /\ run[r].pc = "start"
  /\ \E c \in Change : /\ change[c].st = "missing"
                       /\ change' = [change EXCEPT ![c] = G!NewChange]
StepMoves(r) ==
  /\ RunMoves(r)
  /\ selection' \in Change \cup {None, "unreadable"}
  /\ \/ change' = change
     \/ run[r].pc \in CommandPlace /\ DaemonCall(run[r].id)
     \/ Created(r)
  /\ \/ published' = published
     \/ /\ run[r].pc = "publish"
        /\ published' = published \cup {[target |-> run[r].target,
                                         effects |-> change[run[r].id].effects]}

\* Steps that end the invocation, or send it on with nothing but another place.
LEMMA EndMoves ==
  ASSUME CliBounds, CliShape, NEW r \in Run, G!End(r) PROVE RunMoves(r)
  BY IdleMade DEF G!End, RunMoves, CliShape, RunShaped, CommandPlace, FinishPlace, FinishOnly,
     Publishing, Preparing

\* Going on to another place of the same command.
LEMMA ToMoves ==
  ASSUME CliShape, NEW r \in Run, NEW to \in CommandPlace, G!To(r, to),
         run[r].pc \in CommandPlace, run[r].cmd = "finish" => to \in FinishPlace,
         to \in FinishOnly => run[r].cmd = "finish"
  PROVE  RunMoves(r) /\ run'[r] = [run[r] EXCEPT !.pc = to]
<1> USE DEF CliShape, RunRecord
<1>1. /\ run' \in [Run -> RunRecord] /\ \A q \in Run \ {r} : run'[q] = run[q]
      /\ run'[r] = [run[r] EXCEPT !.pc = to]
  BY DEF G!To
<1>2. RunShaped(run[r]) /\ to \notin {"idle", "start", "clear", "resolve", "list"}
  BY DEF CommandPlace, FinishPlace, Publishing, Preparing
<1>3. RunShaped(run'[r])
  BY <1>1, <1>2 DEF RunShaped, CommandPlace, FinishPlace, Publishing, Preparing
<1> QED BY <1>1, <1>3 DEF RunMoves

\* After what a command does, and after a call that may fail.
LEMMA AfterMoves ==
  ASSUME CliBounds, CliShape, NEW r \in Run, G!After(r), run[r].pc \in CommandPlace
  PROVE  RunMoves(r)
  BY EndMoves, ToMoves DEF G!After, CommandPlace, FinishPlace, FinishOnly, Preparing

\* The change is known, and the command begins.
LEMMA SettledMoves ==
  ASSUME CliShape, NEW r \in Run, NEW c \in Change, G!Settled(r, c),
         run[r].pc \in {"resolve", "list"}
  PROVE  RunMoves(r)
<1> DEFINE to == G!FirstCall(run[r].cmd)
<1> USE DEF CliShape, RunRecord
<1>1. /\ RunShaped(run[r]) /\ run[r].cmd \in G!Command \ {"start", "clear"} /\ ~run[r].refused
  BY DEF RunShaped
<1>2. /\ to \in CommandPlace /\ (run[r].cmd = "finish" => to \in FinishPlace)
      /\ (to \in FinishOnly => run[r].cmd = "finish")
  BY <1>1, FirstCallKnown DEF FinishPlace
<1>5. to \notin {"idle", "start", "clear", "resolve", "list"}
  BY <1>2 DEF CommandPlace, FinishPlace, Publishing, Preparing
<1>6. run' = [run EXCEPT ![r] = [@ EXCEPT !.id = c, !.pc = to]]
  BY DEF G!Settled
<1> HIDE DEF to
<1>3. /\ run' \in [Run -> RunRecord] /\ \A q \in Run \ {r} : run'[q] = run[q]
      /\ run'[r].pc = to /\ run'[r].id = c /\ run'[r].cmd = run[r].cmd
      /\ run'[r].target = run[r].target /\ run'[r].refused = run[r].refused
  BY <1>2, <1>6
<1>4. RunShaped(run'[r])
  BY <1>1, <1>2, <1>3, <1>5 DEF RunShaped
<1> QED BY <1>3, <1>4 DEF RunMoves

\* A round of finish, whatever it keeps in mind.
LEMMA RoundMoves ==
  ASSUME CliShape, NEW r \in Run, run[r].pc = "loop", run[r].step < G!MaxSteps,
         run[r].cmd = "finish", NEW to \in FinishPlace, G!Round(r, to)
  PROVE  RunMoves(r) /\ run'[r].pc = to /\ run'[r].id = run[r].id
           /\ run'[r].target = run[r].target
<1> USE DEF CliShape, RunRecord
<1>1. /\ run' \in [Run -> RunRecord] /\ \A q \in Run \ {r} : run'[q] = run[q]
      /\ run'[r].pc = to /\ run'[r].id = run[r].id /\ run'[r].cmd = run[r].cmd
      /\ run'[r].target = run[r].target /\ run'[r].refused = run[r].refused
  BY DEF G!Round, G!MaxSteps, CommandPlace
<1>2. RunShaped(run[r]) /\ to \notin {"idle", "start", "clear", "resolve", "list"}
  BY DEF FinishPlace, Publishing, Preparing
<1>3. RunShaped(run'[r])
  BY <1>1, <1>2 DEF RunShaped, CommandPlace, FinishPlace
<1> QED BY <1>1, <1>3 DEF RunMoves

\* finish ends and says that the effects are not its own.
LEMMA RefuseMoves ==
  ASSUME CliBounds, CliShape, NEW r \in Run, G!RefuseEffects(r)
  PROVE  RunMoves(r) /\ run'[r].pc = "idle" /\ run'[r].refused
           /\ run'[r].id = run[r].id /\ run'[r].target = run[r].target
<1> USE DEF CliShape, RunRecord
<1>1. /\ run' \in [Run -> RunRecord] /\ \A q \in Run \ {r} : run'[q] = run[q]
      /\ run'[r].id = run[r].id /\ run'[r].refused /\ run'[r].pc = "idle"
      /\ run'[r].target = run[r].target
  BY IdleMade DEF G!RefuseEffects, G!Id
<1>2. RunShaped(run'[r])
  BY <1>1 DEF RunShaped, CommandPlace, FinishPlace, FinishOnly, Publishing, Preparing
<1> QED BY <1>1, <1>2 DEF RunMoves

\* What finish keeps in mind of a preparation.
LEMMA MindKept ==
  ASSUME NEW q \in RunRecord, NEW to \in Unresolved \cup CommandPlace, NEW b \in Nat
  PROVE  /\ [q EXCEPT !.pc = to, !.branch = b] \in RunRecord
         /\ \A n \in 0 .. G!MaxSteps :
              [q EXCEPT !.step = n, !.branch = b, !.pc = to] \in RunRecord
<1>1. [q EXCEPT !.pc = to, !.branch = b] \in RunRecord
  BY DEF RunRecord
<1>2. ASSUME NEW n \in 0 .. G!MaxSteps
      PROVE  [q EXCEPT !.step = n, !.branch = b, !.pc = to] \in RunRecord
  BY DEF RunRecord
<1> QED BY <1>1, <1>2

\* Launching a command.
LEMMA LaunchMoves ==
  ASSUME CliBounds, CliShape, NEW r \in Run, NEW cmd \in Commands,
         NEW target \in Target \cup {None}, NEW c \in Change \cup {None},
         G!Launch(r, cmd, target, c)
  PROVE  RunMoves(r) /\ run'[r].target = target /\ run'[r].pc \notin Publishing \cup Preparing
           /\ (run'[r].pc \in {"publish_get", "verify"} => target = None)
           /\ ~run'[r].refused
<1> DEFINE to == IF cmd \in {"start", "clear"} THEN cmd
                 ELSE IF c # None THEN G!FirstCall(cmd) ELSE "resolve"
<1> USE DEF CliShape
<1>1. cmd \in G!Command /\ (target # None => cmd = "finish")
  BY DEF CliBounds, G!Launch
<1>2. /\ to \in Unresolved \cup CommandPlace /\ to # "idle"
      /\ to \in CommandPlace => c \in Change
      /\ to \in CommandPlace /\ cmd = "finish" => to = "finish_get"
      /\ to \in FinishOnly => cmd = "finish"
      /\ to \in {"start", "clear"} => cmd = to
      /\ to \in {"resolve", "list"} => cmd \notin {"start", "clear"}
      /\ to \notin Publishing \cup Preparing
      /\ cmd = "finish" => to \notin {"publish_get", "verify"}
  <2>1. CASE cmd \in {"start", "clear"}
    BY <2>1 DEF Unresolved, CommandPlace, FinishPlace, FinishOnly, Publishing, Preparing
  <2>2. CASE cmd \notin {"start", "clear"} /\ c # None
    BY <1>1, <2>2, FirstCallKnown
       DEF Unresolved, CommandPlace, FinishPlace, Publishing, Preparing
  <2>3. CASE cmd \notin {"start", "clear"} /\ c = None
    BY <2>3 DEF Unresolved, CommandPlace, FinishPlace, FinishOnly, Publishing, Preparing
  <2> QED BY <2>1, <2>2, <2>3
<1>3. run' = [run EXCEPT ![r] = [G!Idle EXCEPT !.cmd = cmd, !.target = target,
                                                !.id = c, !.pc = to]]
  BY DEF G!Launch
<1> HIDE DEF to
<1>4. /\ run' \in [Run -> RunRecord] /\ \A q \in Run \ {r} : run'[q] = run[q]
      /\ run'[r].pc = to /\ run'[r].id = c /\ run'[r].cmd = cmd
      /\ run'[r].target = target /\ ~run'[r].refused
  BY <1>1, <1>2, <1>3, IdleMade DEF RunRecord
<1>5. RunShaped(run'[r])
  BY <1>1, <1>2, <1>4 DEF RunShaped, FinishPlace
<1> QED BY <1>1, <1>2, <1>4, <1>5 DEF RunMoves

\* A call that may fail moves the daemon by that call, and the invocation to
\* where the answer takes it.
LEMMA StepIsMove ==
  ASSUME CliBounds, BlindViews = FALSE, CliShape, NEW r \in Run, G!CliStep(r)
  PROVE  StepMoves(r)
<1> DEFINE c == run[r].id
           Still == selection' = selection /\ published' = published
<1> USE DEF CliShape
<1>a. RunShaped(run[r]) /\ run[r] \in RunRecord
  OBVIOUS
<1>b. run[r].pc \in CommandPlace => c \in Change
  BY <1>a DEF RunShaped
<1> USE DEF G!Calling, G!Id, G!Quiet
<1>1. ASSUME NEW cmd \in Commands, NEW t \in Target \cup {None}, NEW d \in Change \cup {None},
             G!Launch(r, cmd, t, d)
      PROVE  StepMoves(r)
  BY <1>1, LaunchMoves DEF StepMoves, G!Launch
<1>2. CASE G!StartChange(r)
  <2>1. PICK d \in Change : /\ change[d].st = "missing"
                            /\ change' = [change EXCEPT ![d] = G!NewChange]
                            /\ run' = [run EXCEPT ![r].id = d, ![r].pc = "save"]
    BY <1>2 DEF G!StartChange, G!Known, G!Gone
  <2>2. /\ run' \in [Run -> RunRecord] /\ \A q \in Run \ {r} : run'[q] = run[q]
        /\ run'[r].pc = "save" /\ run'[r].id = d /\ run'[r].cmd = run[r].cmd
        /\ run'[r].target = run[r].target /\ run'[r].refused = run[r].refused
    <3>0. "save" \in CommandPlace /\ run \in [Run -> RunRecord]
      BY DEF CommandPlace
    <3>1. /\ run' \in [Run -> RunRecord] /\ \A q \in Run \ {r} : run'[q] = run[q]
          /\ run'[r].pc = "save" /\ run'[r].id = d
      BY <2>1, <3>0 DEF RunRecord
    <3>2. /\ run'[r].cmd = run[r].cmd /\ run'[r].target = run[r].target
          /\ run'[r].refused = run[r].refused
      BY <1>a, <2>1 DEF RunRecord
    <3> QED BY <3>1, <3>2
  <2>3. RunShaped(run'[r])
    BY <1>2, <1>a, <2>2 DEF RunShaped, CommandPlace, FinishPlace, FinishOnly, Publishing,
       Preparing, G!StartChange
  <2> QED BY <1>2, <2>1, <2>2, <2>3 DEF StepMoves, RunMoves, Created, G!StartChange
<1>3. CASE G!SaveSelection(r)
  BY <1>3, <1>b, EndMoves DEF G!SaveSelection, StepMoves, CommandPlace
<1>4. CASE G!ClearSelection(r)
  BY <1>4, EndMoves DEF G!ClearSelection, StepMoves
<1>5. CASE G!ResolveSelected(r)
  <2>1. CASE G!End(r)
    BY <1>5, <2>1, EndMoves DEF G!ResolveSelected, StepMoves
  <2>2. ASSUME NEW d \in Change, G!Settled(r, d) PROVE StepMoves(r)
    BY <1>5, <2>2, SettledMoves DEF G!ResolveSelected, StepMoves
  <2>3. CASE G!To(r, "list")
    <3>1. /\ run' \in [Run -> RunRecord] /\ \A q \in Run \ {r} : run'[q] = run[q]
          /\ run'[r].pc = "list" /\ run'[r].id = c /\ run'[r].cmd = run[r].cmd
          /\ run'[r].target = run[r].target /\ run'[r].refused = run[r].refused
      BY <2>3 DEF G!To, RunRecord, Unresolved
    <3>2. RunShaped(run'[r])
      BY <1>5, <1>a, <3>1 DEF RunShaped, CommandPlace, FinishPlace, FinishOnly, Publishing,
         Preparing, G!ResolveSelected
    <3> QED BY <1>5, <3>1, <3>2 DEF StepMoves, RunMoves, G!ResolveSelected
  <2>4. \/ G!End(r) \/ G!To(r, "list")
        \/ \E d \in Change : G!Settled(r, d)
    BY <1>5 DEF G!ResolveSelected, G!Known
  <2> QED BY <2>1, <2>2, <2>3, <2>4
<1>6. CASE G!ResolveUse(r)
  <2>1. /\ run' \in [Run -> RunRecord] /\ \A q \in Run \ {r} : run'[q] = run[q]
        /\ run'[r].pc = "list" /\ run'[r].id = c /\ run'[r].cmd = run[r].cmd
        /\ run'[r].target = run[r].target /\ run'[r].refused = run[r].refused
    BY <1>6 DEF G!ResolveUse, G!To, RunRecord, Unresolved
  <2>2. RunShaped(run'[r])
    BY <1>6, <1>a, <2>1 DEF RunShaped, CommandPlace, FinishPlace, FinishOnly, Publishing,
       Preparing, G!ResolveUse
  <2> QED BY <1>6, <2>1, <2>2 DEF StepMoves, RunMoves, G!ResolveUse
<1>7. CASE G!PickFromList(r)
  <2>1. CASE G!End(r) /\ UNCHANGED selection
    BY <1>7, <2>1, EndMoves DEF G!PickFromList, StepMoves
  <2>2. ASSUME NEW d \in Change, G!Settled(r, d), selection' \in {d, selection}
        PROVE  StepMoves(r)
    BY <1>7, <2>2, SettledMoves DEF G!PickFromList, StepMoves
  <2>3. \/ G!End(r) /\ UNCHANGED selection
        \/ \E d \in Change : G!Settled(r, d) /\ selection' \in {d, selection}
    BY <1>7 DEF G!PickFromList, G!Eligible
  <2> QED BY <2>1, <2>2, <2>3
<1>8. ASSUME NEW yes \in BOOLEAN, G!ResolveRecovery(r, yes) PROVE StepMoves(r)
  <2>1. CASE selection \in G!Known
    BY <1>8, <2>1, SettledMoves DEF G!ResolveRecovery, StepMoves, G!Known
  <2>2. CASE selection \notin G!Known
    BY <1>8, <2>2, EndMoves DEF G!ResolveRecovery, StepMoves
  <2> QED BY <2>1, <2>2
<1>9. CASE G!Read(r)
  BY <1>9, EndMoves DEF G!Read, StepMoves
<1>10. CASE G!Use(r)
  BY <1>10, <1>a, EndMoves, ToMoves
     DEF G!Use, StepMoves, RunShaped, CommandPlace, FinishPlace, FinishOnly, Publishing,
         Preparing
<1>11. CASE G!SealGet(r)
  <2>1. CASE G!End(r)
    BY <1>11, <2>1, EndMoves DEF G!SealGet, StepMoves
  <2>2. CASE G!To(r, "seal")
    BY <1>11, <2>2, ToMoves DEF G!SealGet, StepMoves, CommandPlace, FinishPlace, FinishOnly,
       Preparing
  <2>3. CASE G!After(r)
    BY <1>11, <2>3, AfterMoves DEF G!SealGet, StepMoves, CommandPlace, FinishPlace
  <2> QED BY <1>11, <2>1, <2>2, <2>3 DEF G!SealGet
<1>12. CASE G!SealRun(r)
  <2>1. CASE G!End(r)
    BY <1>12, <2>1, EndMoves DEF G!SealRun, G!Attempt, StepMoves, DaemonCall, CommandPlace,
       FinishPlace
  <2>2. CASE G!After(r)
    BY <1>12, <2>2, AfterMoves DEF G!SealRun, G!Attempt, StepMoves, DaemonCall, CommandPlace,
       FinishPlace
  <2> QED BY <1>12, <2>1, <2>2 DEF G!SealRun, G!Attempt
<1>13. CASE G!VerifyRun(r)
  <2>1. CASE G!End(r)
    BY <1>13, <2>1, EndMoves DEF G!VerifyRun, G!Attempt, StepMoves, DaemonCall, CommandPlace,
       FinishPlace
  <2>2. CASE G!After(r)
    BY <1>13, <2>2, AfterMoves DEF G!VerifyRun, G!Attempt, StepMoves, DaemonCall,
       CommandPlace, FinishPlace
  <2> QED BY <1>13, <2>1, <2>2 DEF G!VerifyRun, G!Attempt
<1>14. CASE G!ApproveGet(r)
  <2>1. CASE G!End(r)
    BY <1>14, <2>1, EndMoves DEF G!ApproveGet, StepMoves
  <2>2. CASE G!To(r, "approve_show")
    BY <1>14, <2>2, ToMoves DEF G!ApproveGet, StepMoves, CommandPlace, FinishPlace,
       FinishOnly, Preparing
  <2>3. CASE G!After(r)
    BY <1>14, <2>3, AfterMoves DEF G!ApproveGet, StepMoves, CommandPlace, FinishPlace
  <2> QED BY <1>14, <2>1, <2>2, <2>3 DEF G!ApproveGet
<1>15. CASE G!ApproveRun(r)
  <2>0. run[r].material \in Nat \cup {None}
    BY <1>a DEF RunRecord
  <2>1. CASE G!End(r)
    BY <1>15, <2>0, <2>1, EndMoves DEF G!ApproveRun, G!Attempt, StepMoves, DaemonCall,
       CommandPlace, FinishPlace
  <2>2. CASE G!After(r)
    BY <1>15, <2>0, <2>2, AfterMoves DEF G!ApproveRun, G!Attempt, StepMoves, DaemonCall,
       CommandPlace, FinishPlace
  <2> QED BY <1>15, <2>1, <2>2 DEF G!ApproveRun, G!Attempt
<1>16. ASSUME NEW at, NEW next,
              \/ at = "approve_show" /\ next = "approve_fetch"
              \/ at = "approve_fetch" /\ next = "approve"
              \/ at = "publish_show" /\ next = "publish_fetch"
              \/ at = "publish_fetch" /\ next = "publish",
              G!FetchMaterial(r, at, next)
       PROVE  StepMoves(r)
  <2>1. c \in Change /\ change[c].digest \in Nat
    BY <1>16, <1>b DEF G!FetchMaterial, CommandPlace, FinishPlace, Publishing, ChangesShaped,
       ChangeRecord, CliBounds
  <2>2. /\ run' \in [Run -> RunRecord] /\ \A q \in Run \ {r} : run'[q] = run[q]
        /\ run'[r].pc = next /\ run'[r].id = c /\ run'[r].cmd = run[r].cmd
        /\ run'[r].target = run[r].target /\ run'[r].refused = run[r].refused
    BY <1>16, <2>1 DEF G!FetchMaterial, RunRecord, CommandPlace, FinishPlace, Publishing
  <2>3. RunShaped(run'[r])
    BY <1>16, <1>a, <2>2 DEF RunShaped, CommandPlace, FinishPlace, FinishOnly, Publishing,
       Preparing, G!FetchMaterial
  <2> QED BY <1>16, <2>2, <2>3 DEF StepMoves, RunMoves, G!FetchMaterial
<1>17. CASE G!FinishGet(r)
  <2>1. CASE G!End(r)
    BY <1>17, <2>1, EndMoves DEF G!FinishGet, StepMoves
  <2>2. CASE G!RefuseEffects(r)
    BY <1>17, <2>2, RefuseMoves DEF G!FinishGet, StepMoves
  <2>3. CASE G!To(r, "loop")
    BY <1>17, <1>a, <2>3, ToMoves DEF G!FinishGet, StepMoves, RunShaped, CommandPlace,
       FinishPlace, FinishOnly, Preparing
  <2> QED BY <1>17, <2>1, <2>2, <2>3 DEF G!FinishGet
<1>18. CASE G!FinishRound(r)
  <2>0. run[r].pc = "loop" /\ run[r].cmd = "finish" /\ run[r].step < G!MaxSteps /\ c \in Change
    BY <1>18, <1>a, <1>b DEF G!FinishRound, RunShaped, FinishOnly, CommandPlace, FinishPlace
  <2>1. CASE G!End(r)
    BY <1>18, <2>1, EndMoves DEF G!FinishRound, StepMoves
  <2>2. CASE G!RefuseEffects(r)
    BY <1>18, <2>2, RefuseMoves DEF G!FinishRound, StepMoves
  <2>3. ASSUME NEW to \in FinishPlace, G!Round(r, to) PROVE StepMoves(r)
    BY <1>18, <2>0, <2>3, RoundMoves DEF G!FinishRound, StepMoves
  <2>4. ASSUME run[r].target # None, NEW b \in Nat, NEW to \in Preparing \cup {"verify"},
               run' = [run EXCEPT ![r].step = @ + 1, ![r].branch = b, ![r].pc = to]
        PROVE  StepMoves(r)
    <3>0. /\ to \in Unresolved \cup CommandPlace /\ to \in FinishPlace
          /\ to \notin {"idle", "start", "clear", "resolve", "list"}
          /\ run[r].step + 1 \in 0 .. G!MaxSteps
      BY <1>a, <2>0 DEF Preparing, CommandPlace, FinishPlace, RunRecord, G!MaxSteps
    <3>4. run' = [run EXCEPT ![r] = [run[r] EXCEPT !.step = run[r].step + 1,
                                               !.branch = b, !.pc = to]]
      BY <2>4, Zenon
    <3>1. run' \in [Run -> RunRecord] /\ \A q \in Run \ {r} : run'[q] = run[q]
      BY <1>a, <3>0, <3>4, MindKept
    <3>2. /\ run'[r].pc = to /\ run'[r].id = c /\ run'[r].cmd = run[r].cmd
          /\ run'[r].target = run[r].target /\ run'[r].refused = run[r].refused
      BY <1>a, <2>4 DEF RunRecord
    <3>3. RunShaped(run'[r])
      BY <1>a, <2>0, <3>0, <3>2 DEF RunShaped, CommandPlace
    <3> QED BY <1>18, <3>1, <3>2, <3>3 DEF StepMoves, RunMoves, G!FinishRound
  <2>5. ASSUME run[r].target # None,
               LET branch == G!Of(change[c].effects, "branch")
               IN run' = [run EXCEPT ![r].step = @ + 1,
                            ![r].branch = IF branch = {} THEN 0
                                          ELSE (CHOOSE b \in branch : TRUE).id,
                            ![r].pc = G!NextPreparation(change[c].effects)]
        PROVE  StepMoves(r)
    <3> DEFINE branch == G!Of(change[c].effects, "branch")
               b == IF branch = {} THEN 0 ELSE (CHOOSE x \in branch : TRUE).id
               to == G!NextPreparation(change[c].effects)
    <3>1. branch \subseteq Prepared
      BY <2>0 DEF G!Of, ChangesShaped, ChangeRecord
    <3>2. b \in Nat
      BY <3>1 DEF Prepared
    <3>3. to \in Preparing \cup {"verify"}
      BY DEF G!NextPreparation, Preparing
    <3>4. run' = [run EXCEPT ![r].step = @ + 1, ![r].branch = b, ![r].pc = to]
      BY <2>5
    <3> HIDE DEF b, to
    <3> QED BY <2>4, <2>5, <3>2, <3>3, <3>4
  <2>6. \/ G!End(r) \/ G!RefuseEffects(r)
        \/ \E to \in {"seal_get", "verify", "approve_get", "publish_get", "render"} :
             G!Round(r, to)
        \/ /\ run[r].target # None
           /\ LET branch == G!Of(change[c].effects, "branch")
              IN run' = [run EXCEPT ![r].step = @ + 1,
                            ![r].branch = IF branch = {} THEN 0
                                          ELSE (CHOOSE b \in branch : TRUE).id,
                            ![r].pc = G!NextPreparation(change[c].effects)]
    BY <1>18 DEF G!FinishRound, G!View
  <2> QED BY <2>1, <2>2, <2>3, <2>5, <2>6 DEF FinishPlace
<1>19. CASE G!FinishGivesUp(r)
  BY <1>19, EndMoves DEF G!FinishGivesUp, StepMoves
<1>20. CASE G!PrepareBranch(r)
  <2> DEFINE b == G!Cardinality(change[c].effects) + 1
  <2>0. run[r].pc = "prepare_branch" /\ c \in Change /\ b \in Nat
    BY <1>20, <1>b, CountsAlike, FS_CardinalityType
       DEF G!PrepareBranch, G!Attempt, CommandPlace, FinishPlace, Preparing, ChangesShaped
  <2>1. change' = change \/ DaemonCall(c)
    BY <1>20, <1>a DEF G!PrepareBranch, G!Attempt, DaemonCall, RunRecord, EffectKind
  <2>2. CASE G!End(r)
    BY <1>20, <2>0, <2>1, <2>2, EndMoves DEF G!PrepareBranch, G!Attempt, StepMoves,
       CommandPlace, FinishPlace, Preparing
  <2>3. CASE run' = [run EXCEPT ![r].pc = "prepare_draft", ![r].branch = b]
    <3> HIDE DEF b
    <3>0. "prepare_draft" \in Unresolved \cup CommandPlace
      BY DEF Preparing, CommandPlace, FinishPlace
    <3>4. run' = [run EXCEPT ![r] = [run[r] EXCEPT !.pc = "prepare_draft", !.branch = b]]
      BY <2>3, Zenon
    <3>1. run' \in [Run -> RunRecord] /\ \A q \in Run \ {r} : run'[q] = run[q]
      BY <1>a, <2>0, <3>0, <3>4, MindKept
    <3>2. /\ run'[r].pc = "prepare_draft" /\ run'[r].id = c /\ run'[r].cmd = run[r].cmd
          /\ run'[r].target = run[r].target /\ run'[r].refused = run[r].refused
      BY <1>a, <2>3 DEF RunRecord
    <3>3. RunShaped(run'[r])
      BY <1>a, <2>0, <3>2 DEF RunShaped, CommandPlace, FinishPlace, FinishOnly, Preparing
    <3> QED BY <1>20, <2>0, <2>1, <3>1, <3>3 DEF StepMoves, RunMoves, G!PrepareBranch,
            G!Attempt, CommandPlace, FinishPlace, Preparing
  <2> QED BY <1>20, <2>2, <2>3 DEF G!PrepareBranch, G!Attempt
<1>21. CASE G!PrepareDraft(r)
  <2>0. run[r].pc = "prepare_draft" /\ c \in Change /\ run[r].branch \in Nat
    BY <1>21, <1>a, <1>b
       DEF G!PrepareDraft, G!Attempt, CommandPlace, FinishPlace, Preparing, RunRecord
  <2>1. change' = change \/ DaemonCall(c)
    BY <1>21, <1>a, <2>0 DEF G!PrepareDraft, G!Attempt, DaemonCall, RunRecord, EffectKind
  <2>2. RunMoves(r)
    BY <1>21, <2>0, EndMoves, ToMoves DEF G!PrepareDraft, G!Attempt, CommandPlace,
       FinishPlace, FinishOnly, Preparing
  <2> QED BY <1>21, <2>0, <2>1, <2>2 DEF StepMoves, G!PrepareDraft, G!Attempt, CommandPlace,
          FinishPlace, Preparing
<1>22. CASE G!PublishGet(r)
  <2>1. CASE G!End(r)
    BY <1>22, <2>1, EndMoves DEF G!PublishGet, StepMoves
  <2>2. ASSUME NEW to \in {"render", "publish_show"}, G!To(r, to) PROVE StepMoves(r)
    BY <1>22, <2>2, ToMoves DEF G!PublishGet, StepMoves, CommandPlace, FinishPlace,
       FinishOnly, Preparing, Publishing
  <2> QED BY <1>22, <2>1, <2>2 DEF G!PublishGet
<1>23. CASE G!PublishRun(r)
  <2>0. run[r].pc = "publish" /\ run[r].material \in Nat \cup {None}
    BY <1>23, <1>a DEF G!PublishRun, RunRecord
  <2>1. RunMoves(r)
    BY <1>23, <2>0, EndMoves, ToMoves DEF G!PublishRun, CommandPlace, FinishPlace,
       FinishOnly, Preparing, Publishing
  <2> QED BY <1>23, <2>0, <2>1 DEF StepMoves, G!PublishRun, DaemonCall, CommandPlace,
          FinishPlace, Publishing
<1>24. CASE G!Render(r)
  BY <1>24, EndMoves DEF G!Render, StepMoves
<1>25. CASE G!AbortRun(r)
  <2>1. RunMoves(r)
    BY <1>25, <1>a, EndMoves, ToMoves DEF G!AbortRun, G!Attempt, RunShaped, CommandPlace,
       FinishPlace, FinishOnly, Preparing, Publishing
  <2> QED BY <1>25, <2>1 DEF StepMoves, G!AbortRun, G!Attempt, DaemonCall, CommandPlace
<1>26. CASE G!Forget(r)
  BY <1>26, EndMoves DEF G!Forget, StepMoves
<1>27. ASSUME NEW yes \in BOOLEAN, G!RecoverGet(r, yes) PROVE StepMoves(r)
  <2>1. RunMoves(r)
    BY <1>27, <1>a, EndMoves, ToMoves DEF G!RecoverGet, RunShaped, CommandPlace,
       FinishPlace, FinishOnly, Preparing, Publishing
  <2> QED BY <1>27, <2>1 DEF StepMoves, G!RecoverGet
<1>28. CASE G!RecoverRun(r)
  <2>1. RunMoves(r)
    BY <1>28, EndMoves DEF G!RecoverRun
  <2> QED BY <1>28, <1>b, <2>1 DEF StepMoves, G!RecoverRun, DaemonCall, CommandPlace
<1>29. CASE G!Quit(r)
  BY <1>29, EndMoves DEF G!Quit, StepMoves
<1> QED
  BY <1>1, <1>2, <1>3, <1>4, <1>5, <1>6, <1>7, <1>8, <1>9, <1>10, <1>11, <1>12, <1>13,
     <1>14, <1>15, <1>16, <1>17, <1>18, <1>19, <1>20, <1>21, <1>22, <1>23, <1>24, <1>25,
     <1>26, <1>27, <1>28, <1>29 DEF G!CliStep

\* What a step of an invocation does to the changes.
LEMMA ChangesMove ==
  ASSUME CliBounds, CliShape, NEW r \in Run, StepMoves(r)
  PROVE  /\ ChangesShaped'
         /\ \A c \in Change :
              /\ Frozen(c) => Frozen(c)' /\ change'[c].effects = change[c].effects
              /\ change'[c] # change[c] =>
                   \/ /\ change[c].st # "missing" /\ change'[c].st # "missing"
                      /\ c = run[r].id /\ run[r].pc \in CommandPlace /\ DaemonCall(c)
                   \/ /\ change[c].st = "missing" /\ change'[c].st = "active"
                      /\ change'[c].effects = change[c].effects
<1> USE DEF CliShape
<1>1. CASE change' = change
  BY <1>1 DEF ChangesShaped, Frozen
<1>2. CASE run[r].pc \in CommandPlace /\ DaemonCall(run[r].id)
  <2>1. run[r].id \in Change
    BY <1>2 DEF RunShaped
  <2> QED BY <1>2, <2>1, CallKeeps DEF Frozen
<1>3. CASE Created(r)
  <2>1. PICK d \in Change : /\ change[d].st = "missing"
                            /\ change' = [change EXCEPT ![d] = G!NewChange]
    BY <1>3 DEF Created
  <2>2. /\ G!NewChange \in ChangeRecord /\ G!NewChange.st = "active"
        /\ G!NewChange.approved = None /\ G!NewChange.effects = {}
    BY DEF G!NewChange, ChangeRecord, ChangeStatus, CliBounds
  <2>3. /\ change' \in [Change -> ChangeRecord] /\ change'[d] = G!NewChange
        /\ \A c \in Change \ {d} : change'[c] = change[c]
    BY <2>1, <2>2 DEF ChangesShaped
  <2>4. ChangesShaped'
    BY <2>2, <2>3, FS_EmptySet DEF ChangesShaped
  <2> QED BY <2>1, <2>2, <2>3, <2>4 DEF ChangesShaped, Frozen
<1> QED BY <1>1, <1>2, <1>3 DEF StepMoves

\* At first every invocation is idle, and no change has effects.
LEMMA CliShapeInit == ASSUME CliBounds, G!CliInit PROVE CliShape
<1> USE DEF CliBounds
<1>1. PICK known \in SUBSET Change :
        change = [c \in Change |-> IF c \in known THEN G!NewChange
                                   ELSE [G!NewChange EXCEPT !.st = "missing"]]
  BY DEF G!CliInit
<1>2. /\ G!NewChange \in ChangeRecord /\ G!NewChange.approved = None
      /\ G!NewChange.effects = {} /\ G!NewChange.st = "active"
  BY DEF G!NewChange, ChangeRecord, ChangeStatus
<1>3. ChangesShaped
  BY <1>1, <1>2, FS_EmptySet DEF ChangesShaped, ChangeRecord, ChangeStatus
<1>4. run \in [Run -> RunRecord] /\ \A r \in Run : RunShaped(run[r])
  BY IdleMade DEF G!CliInit, RunShaped, CommandPlace, FinishPlace, FinishOnly, Preparing,
     Publishing
<1> QED BY <1>3, <1>4 DEF G!CliInit, CliShape

\* A call of another client, as a call of the daemon.
LEMMA OtherCalls ==
  ASSUME CliBounds, CliShape, NEW c \in Change, G!OtherClient(c)
  PROVE  DaemonCall(c) /\ run' = run /\ selection' = selection /\ published' = published
<1>1. change[c].digest \in Nat
  BY DEF CliShape, ChangesShaped, ChangeRecord, CliBounds
<1>2. 0 .. MaxEffects \subseteq Nat
  BY DEF CliBounds
<1> QED BY <1>1, <1>2 DEF G!OtherClient, DaemonCall, EffectKind

\* Every step, of an invocation or of another client, keeps the shape.
LEMMA CliShapeNext ==
  ASSUME CliBounds, BlindViews = FALSE, CliShape, [G!CliNext]_(G!cliVars) PROVE CliShape'
<1> USE DEF CliShape
<1>1. ASSUME NEW r \in Run, G!CliStep(r), G!Account(r) PROVE CliShape'
  <2>1. StepMoves(r)
    BY <1>1, StepIsMove
  <2>2. ChangesShaped'
    BY <2>1, ChangesMove
  <2>3. run' \in [Run -> RunRecord] /\ \A q \in Run : RunShaped(run'[q])
    BY <2>1 DEF StepMoves, RunMoves
  <2>4. author' \in [Change -> Target \cup {None, "mixed"}]
    BY <1>1 DEF G!Account, RunRecord
  <2> QED BY <2>1, <2>2, <2>3, <2>4 DEF StepMoves
<1>2. ASSUME NEW c \in Change, G!OtherClient(c), author' = [author EXCEPT ![c] = "mixed"]
      PROVE  CliShape'
  <2>1. ChangesShaped'
    BY <1>2, OtherCalls, CallKeeps
  <2> QED BY <1>2, <2>1, OtherCalls
<1>3. CASE G!SpoilSelection /\ UNCHANGED author
  BY <1>3 DEF G!SpoilSelection, ChangesShaped
<1>4. CASE UNCHANGED G!cliVars
  BY <1>4 DEF G!cliVars, ChangesShaped
<1> QED BY <1>1, <1>2, <1>3, <1>4 DEF G!CliNext

-----------------------------------------------------------------------------
(* What is published.                                                      *)

\* The shape contains the type invariant of the command line.
LEMMA ShapeIsType == ASSUME CliBounds, CliShape PROVE G!CliTypeOK
  BY DEF CliBounds, CliShape, ChangesShaped, ChangeRecord, ChangeStatus, RunRecord, G!CliTypeOK

\* Frozen changes bear out what was seen of them.
LEMMA SeenStays ==
  ASSUME CliShape, NEW r \in Run, SeenWhenPublishing(run[r]), run'[r] = run[r],
         \A c \in Change : Frozen(c) => Frozen(c)' /\ change'[c].effects = change[c].effects
  PROVE  SeenWhenPublishing(run[r])'
<1>1. run[r].pc \in {"publish_get"} \cup Publishing => run[r].id \in Change
  BY DEF CliShape, RunShaped, CommandPlace, FinishPlace, Publishing
<1> QED BY <1>1 DEF SeenWhenPublishing, Ours, Publishing

\* An invocation that is not on its way to a commit has seen nothing.
LEMMA ElsewhereSeen ==
  ASSUME NEW r \in Run, run'[r].pc \notin {"publish_get"} \cup Publishing
  PROVE  SeenWhenPublishing(run[r])'
  BY DEF SeenWhenPublishing

\* What an invocation has seen after its own step: a publication passes finish or apply,
\* and both look at the effects of a change that is verified already.
LEMMA PublishStep ==
  ASSUME CliBounds, BlindViews = FALSE, CliShape, NEW r \in Run, G!CliStep(r),
         SeenWhenPublishing(run[r])
  PROVE  SeenWhenPublishing(run[r])'
<1> USE DEF G!Calling, G!Id, Publishing
<1>a. run[r] \in RunRecord /\ RunShaped(run[r]) /\ run \in [Run -> RunRecord]
  BY DEF CliShape
<1>b. run[r].pc \in CommandPlace => run[r].id \in Change
  BY <1>a DEF RunShaped
<1>c. G!End(r) => run'[r].pc = "idle"
  BY <1>a, IdleMade DEF G!End
<1>d. \A to : G!To(r, to) => run'[r].pc = to
  BY <1>a DEF G!To, RunRecord
<1>e. G!After(r) => run'[r].pc \in {"idle", "loop"}
  BY <1>c, <1>d DEF G!After
<1>1. ASSUME NEW cmd \in Commands, NEW t \in Target \cup {None}, NEW d \in Change \cup {None},
             G!Launch(r, cmd, t, d)
      PROVE  SeenWhenPublishing(run[r])'
  BY <1>1, LaunchMoves DEF SeenWhenPublishing
<1>2. CASE G!StartChange(r)
  <2>1. run'[r].pc = "save"
    BY <1>2, <1>a DEF G!StartChange, RunRecord
  <2> QED BY <2>1, ElsewhereSeen
\* The change is settled: only apply goes on to publish, and has no target.
<1>3. ASSUME NEW c \in Change, G!Settled(r, c), run[r].pc \in {"resolve", "list"}
      PROVE  SeenWhenPublishing(run[r])'
  <2>1. /\ run'[r].pc = G!FirstCall(run[r].cmd) /\ run'[r].target = run[r].target
        /\ run[r].cmd \in G!Command \ {"start", "clear"}
        /\ run[r].target # None => run[r].cmd = "finish"
    BY <1>3, <1>a DEF G!Settled, RunRecord, RunShaped
  <2> QED BY <2>1, FirstCallKnown DEF SeenWhenPublishing
<1>4. CASE \/ G!SaveSelection(r) \/ G!ClearSelection(r) \/ G!Read(r) \/ G!FinishGivesUp(r)
           \/ G!Render(r) \/ G!Forget(r) \/ G!RecoverRun(r) \/ G!Quit(r)
  BY <1>4, <1>c, ElsewhereSeen
     DEF G!SaveSelection, G!ClearSelection, G!Read, G!FinishGivesUp, G!Render, G!Forget,
         G!RecoverRun, G!Quit
<1>5. CASE G!ResolveSelected(r)
  BY <1>5, <1>3, <1>c, <1>d, ElsewhereSeen DEF G!ResolveSelected, G!Known
<1>6. CASE G!ResolveUse(r) \/ G!Use(r)
  BY <1>6, <1>c, <1>d, ElsewhereSeen DEF G!ResolveUse, G!Use
<1>7. CASE G!PickFromList(r)
  BY <1>7, <1>3, <1>c, ElsewhereSeen DEF G!PickFromList, G!Eligible
<1>8. ASSUME NEW yes \in BOOLEAN, G!ResolveRecovery(r, yes) \/ G!RecoverGet(r, yes)
      PROVE  SeenWhenPublishing(run[r])'
  BY <1>8, <1>3, <1>c, <1>d, ElsewhereSeen DEF G!ResolveRecovery, G!RecoverGet, G!Known
<1>9. CASE \/ G!SealGet(r) \/ G!SealRun(r) \/ G!VerifyRun(r) \/ G!ApproveGet(r)
           \/ G!ApproveRun(r) \/ G!AbortRun(r)
  BY <1>9, <1>c, <1>d, <1>e, ElsewhereSeen
     DEF G!SealGet, G!SealRun, G!VerifyRun, G!ApproveGet, G!ApproveRun, G!AbortRun, G!Attempt
<1>10. CASE \/ G!FetchMaterial(r, "approve_show", "approve_fetch")
            \/ G!FetchMaterial(r, "approve_fetch", "approve")
  <2>1. run'[r].pc \in {"approve_fetch", "approve"}
    BY <1>10, <1>a DEF G!FetchMaterial, RunRecord
  <2> QED BY <2>1, ElsewhereSeen
<1>11. CASE \/ G!FetchMaterial(r, "publish_show", "publish_fetch")
            \/ G!FetchMaterial(r, "publish_fetch", "publish")
  <2>1. /\ run[r].pc \in Publishing /\ run'[r].pc \in Publishing /\ change' = change
        /\ run'[r].id = run[r].id /\ run'[r].target = run[r].target
    BY <1>11, <1>a DEF G!FetchMaterial, RunRecord
  <2> QED BY <2>1 DEF SeenWhenPublishing, Frozen, Ours
<1>12. CASE G!FinishGet(r)
  <2>1. G!RefuseEffects(r) => run'[r].pc = "idle"
    BY RefuseMoves
  <2> QED BY <1>12, <1>c, <1>d, <2>1, ElsewhereSeen DEF G!FinishGet
\* A round of finish has seen a ready change with its own effects.
<1>13. CASE G!FinishRound(r)
  <2>0. run[r].pc = "loop" /\ change' = change /\ run[r].id \in Change
    BY <1>13, <1>b DEF G!FinishRound, CommandPlace, FinishPlace
  <2>1. G!RefuseEffects(r) => run'[r].pc = "idle"
    BY RefuseMoves
  <2>2. \A to : G!Round(r, to) => /\ run'[r].pc = to /\ run'[r].id = run[r].id
                                  /\ run'[r].target = run[r].target
    BY <1>a DEF G!Round, RunRecord
  <2>3. ASSUME NEW b, NEW to, to \in Preparing \cup {"verify"},
               run' = [run EXCEPT ![r].step = @ + 1, ![r].branch = b, ![r].pc = to]
        PROVE  run'[r].pc \notin {"publish_get"} \cup Publishing
    BY <1>a, <2>3 DEF Preparing, RunRecord
  <2>4. G!NextPreparation(change[run[r].id].effects) \in Preparing \cup {"verify"}
    BY DEF G!NextPreparation, Preparing
  <2>5. CASE run'[r].pc \notin {"publish_get"} \cup Publishing
    BY <2>5, ElsewhereSeen
  <2>6. CASE /\ run'[r].pc = "publish_get" /\ run'[r].id = run[r].id
             /\ run'[r].target = run[r].target /\ change[run[r].id].st = "ready"
             /\ \/ run[r].target = None
                \/ G!Complete(change[run[r].id].effects, run[r].target)
    BY <2>0, <2>6 DEF SeenWhenPublishing, Frozen, Ours
  <2>7. \/ G!End(r) \/ G!RefuseEffects(r)
        \/ \E to \in {"seal_get", "verify", "approve_get", "render"} : G!Round(r, to)
        \/ /\ G!Round(r, "publish_get") /\ change[run[r].id].st = "ready"
           /\ \/ run[r].target = None
              \/ G!Complete(change[run[r].id].effects, run[r].target)
        \/ LET branch == G!Of(change[run[r].id].effects, "branch")
           IN run' = [run EXCEPT ![r].step = @ + 1,
                         ![r].branch = IF branch = {} THEN 0
                                       ELSE (CHOOSE b \in branch : TRUE).id,
                         ![r].pc = G!NextPreparation(change[run[r].id].effects)]
    BY <1>13 DEF G!FinishRound, G!View
  <2>8. CASE G!Round(r, "publish_get") /\ change[run[r].id].st = "ready"
             /\ \/ run[r].target = None
                \/ G!Complete(change[run[r].id].effects, run[r].target)
    BY <2>2, <2>6, <2>8
  <2>9. CASE LET branch == G!Of(change[run[r].id].effects, "branch")
             IN run' = [run EXCEPT ![r].step = @ + 1,
                           ![r].branch = IF branch = {} THEN 0
                                         ELSE (CHOOSE b \in branch : TRUE).id,
                           ![r].pc = G!NextPreparation(change[run[r].id].effects)]
    BY <2>3, <2>4, <2>5, <2>9
  <2>10. CASE \/ G!End(r) \/ G!RefuseEffects(r)
              \/ \E to \in {"seal_get", "verify", "approve_get", "render"} : G!Round(r, to)
    BY <1>c, <2>1, <2>2, <2>5, <2>10
  <2> QED BY <2>7, <2>8, <2>9, <2>10
<1>14. CASE G!PrepareBranch(r)
  <2>1. run' = [run EXCEPT ![r].pc = "prepare_draft",
                    ![r].branch = G!Cardinality(change[run[r].id].effects) + 1]
          => run'[r].pc = "prepare_draft"
    BY <1>a DEF RunRecord
  <2> QED BY <1>14, <1>c, <2>1, ElsewhereSeen DEF G!PrepareBranch, G!Attempt
<1>15. CASE G!PrepareDraft(r)
  BY <1>15, <1>c, <1>d, ElsewhereSeen DEF G!PrepareDraft, G!Attempt
\* publish looks again, and has a change that keeps its effects.
<1>16. CASE G!PublishGet(r)
  <2>1. CASE G!End(r) \/ G!To(r, "render")
    BY <1>c, <1>d, <2>1, ElsewhereSeen
  <2>2. CASE /\ G!To(r, "publish_show")
             /\ G!MayPublish(change[run[r].id], run[r].target)
    <3>1. /\ run'[r].pc = "publish_show" /\ run'[r].id = run[r].id
          /\ run'[r].target = run[r].target /\ change' = change
      BY <1>16, <1>a, <2>2 DEF G!To, RunRecord, G!PublishGet
    <3> QED BY <1>16, <2>2, <3>1 DEF G!MayPublish, G!PublishGet, SeenWhenPublishing, Frozen,
            Ours
  <2> QED BY <1>16, <2>1, <2>2 DEF G!PublishGet, G!View
<1>17. CASE G!PublishRun(r)
  BY <1>17, <1>c, <1>d, ElsewhereSeen DEF G!PublishRun
<1> QED
  BY <1>1, <1>2, <1>4, <1>5, <1>6, <1>7, <1>8, <1>9, <1>10, <1>11, <1>12, <1>13, <1>14,
     <1>15, <1>16, <1>17 DEF G!CliStep

\* At first nothing is published, and nobody is on the way to it.
LEMMA PublishInit == ASSUME CliBounds, G!CliInit PROVE PublishInv
<1>1. CliShape
  BY CliShapeInit
<1>2. \A r \in Run : run[r].pc = "idle"
  BY IdleMade DEF G!CliInit
<1> QED BY <1>1, <1>2 DEF PublishInv, G!CliInit, G!ReleaseMatchesTarget, SeenWhenPublishing,
        Publishing

\* Every step keeps what was seen, and publishes only that.
LEMMA PublishNext ==
  ASSUME CliBounds, BlindViews = FALSE, PublishInv, [G!CliNext]_(G!cliVars)
  PROVE  PublishInv'
<1>0. CliShape /\ CliShape'
  BY CliShapeNext DEF PublishInv
<1>1. ASSUME NEW r \in Run, G!CliStep(r) PROVE PublishInv'
  <2>1. StepMoves(r)
    BY <1>0, <1>1, StepIsMove
  <2>2. \A q \in Run : SeenWhenPublishing(run[q])'
    <3>1. SeenWhenPublishing(run[r])'
      BY <1>0, <1>1, PublishStep DEF PublishInv
    <3>2. ASSUME NEW q \in Run \ {r} PROVE SeenWhenPublishing(run[q])'
      BY <1>0, <2>1, SeenStays, ChangesMove DEF PublishInv, StepMoves, RunMoves
    <3> QED BY <3>1, <3>2
  <2>3. G!ReleaseMatchesTarget'
    <3>1. run[r].pc = "publish" =>
            IF run[r].target = None THEN change[run[r].id].effects = {}
            ELSE G!Complete(change[run[r].id].effects, run[r].target)
      BY DEF PublishInv, SeenWhenPublishing, Ours, Publishing
    <3> QED BY <2>1, <3>1 DEF StepMoves, PublishInv, G!ReleaseMatchesTarget
  <2> QED BY <1>0, <2>2, <2>3 DEF PublishInv
<1>2. ASSUME NEW c \in Change, G!OtherClient(c) PROVE PublishInv'
  <2>1. run' = run /\ published' = published /\ DaemonCall(c)
    BY <1>0, <1>2, OtherCalls
  <2>2. \A d \in Change : Frozen(d) => Frozen(d)' /\ change'[d].effects = change[d].effects
    BY <1>0, <2>1, CallKeeps DEF CliShape, Frozen
  <2>3. \A q \in Run : SeenWhenPublishing(run[q])'
    BY <1>0, <2>1, <2>2, SeenStays DEF PublishInv
  <2> QED BY <1>0, <2>1, <2>3 DEF PublishInv, G!ReleaseMatchesTarget
<1>3. CASE G!SpoilSelection \/ UNCHANGED G!cliVars
  BY <1>0, <1>3 DEF PublishInv, G!SpoilSelection, G!cliVars, G!ReleaseMatchesTarget,
     SeenWhenPublishing, Frozen, Ours
<1> QED BY <1>1, <1>2, <1>3 DEF G!CliNext

\* ReleaseMatchesTarget for any number of invocations, changes and targets: whatever
\* other clients prepare, seal, verify or refresh between two calls, finish and publish
\* (publishGet, finishChange) release what the command named, as long as the daemon lists
\* a change's effects whenever it answers.
THEOREM ReleasesMatch ==
  ASSUME CliBounds, BlindViews = FALSE
  PROVE  G!CliSpec => []ReleaseMatchesTarget
<1>1. G!CliInit => PublishInv
  BY PublishInit
<1>2. PublishInv /\ [G!CliNext]_(G!cliVars) => PublishInv'
  BY PublishNext
<1>3. PublishInv => ReleaseMatchesTarget
  BY ShapeIsType DEF PublishInv, ReleaseMatchesTarget
<1> QED BY <1>1, <1>2, <1>3, PTL DEF G!CliSpec

-----------------------------------------------------------------------------
(* What an interrupted finish finds.                                       *)

\* Accounts are settled by who worked on a change, and never forget anybody.
LEMMA AuthorMoves ==
  ASSUME CliBounds, CliShape, NEW r \in Run, G!Account(r), NEW c \in Change
  PROVE  /\ author[c] # None => author'[c] \in {author[c], "mixed"}
         /\ change'[c] = change[c] \/ change[c].st = "missing" => author'[c] = author[c]
         /\ change'[c] # change[c] /\ change[c].st # "missing" =>
              \/ author'[c] = "mixed"
              \/ /\ run[r].target # None /\ author'[c] = run[r].target
                 /\ author[c] \in {None, run[r].target}
                 /\ \A q \in Run \ {r} : run[q].pc = "idle" \/ run[q].id # c
BY DEF G!Account, G!Ended, G!Id

\* What another invocation does to a change finish is working on is on its account.
LEMMA PreparingStays ==
  ASSUME CliBounds, CliShape, NEW r \in Run, StepMoves(r), G!Account(r),
         NEW q \in Run \ {r}, SeenWhenPreparing(run[q])
  PROVE  SeenWhenPreparing(run[q])'
<1> DEFINE c == run[q].id
<1>1. run'[q] = run[q] /\ run[q] \in RunRecord /\ RunShaped(run[q])
  BY DEF StepMoves, RunMoves, CliShape
<1>2. /\ run[q].pc \in CommandPlace => c \in Change /\ run[q].pc # "idle"
      /\ Preparing \cup {"verify"} \subseteq CommandPlace
  BY <1>1 DEF RunShaped, CommandPlace, FinishPlace, Preparing, Publishing
<1>3. run[q].target \in Target \cup {None}
  BY <1>1 DEF RunRecord
<1>4. CASE c \in Change
  <2>1. /\ author[c] # None => author'[c] \in {author[c], "mixed"}
        /\ change'[c] = change[c] \/ change[c].st = "missing" => author'[c] = author[c]
        /\ change'[c] # change[c] /\ change[c].st # "missing" =>
              author'[c] = "mixed" \/ run[q].pc = "idle"
    BY <1>4, AuthorMoves
  <2>2. \/ change'[c].effects = change[c].effects
        \/ change'[c] # change[c] /\ change[c].st # "missing"
    <3>1. change'[c] # change[c] =>
            change[c].st # "missing" \/ change'[c].effects = change[c].effects
      BY <1>4, ChangesMove, Zenon
    <3> QED BY <3>1
  <2>3. run[q].target # None /\ run[q].pc \in CommandPlace /\ author'[c] = run[q].target =>
          author[c] = run[q].target /\ change'[c].effects = change[c].effects
    BY <1>2, <1>3, <2>1, <2>2 DEF CliBounds
  <2> QED BY <1>1, <1>2, <1>3, <2>1, <2>3 DEF SeenWhenPreparing, CliBounds
<1>5. CASE c \notin Change
  BY <1>1, <1>2, <1>5 DEF SeenWhenPreparing
<1> QED BY <1>4, <1>5

\* An invocation that prepares nothing and refused nothing has seen nothing.
LEMMA ElsewherePrepared ==
  ASSUME NEW r \in Run, run'[r].pc \notin Preparing \cup {"verify"}, ~run'[r].refused
  PROVE  SeenWhenPreparing(run[r])'
  BY DEF SeenWhenPreparing, Preparing

\* The calls finish makes for a target.
LEMMA FinishCalls ==
  ASSUME CliBounds, BlindViews = FALSE, CliShape, NEW r \in Run, G!CliStep(r),
         run[r].target # None, NEW c \in Change, c = run[r].id,
         change'[c] # change[c], change[c].st # "missing"
  PROVE  \/ G!Seal(c)
         \/ run[r].pc = "verify" /\ G!Verify(c)
         \/ \E digest \in Nat \cup {None} : G!Approve(c, digest) \/ G!Commit(c, digest)
         \/ run[r].pc = "prepare_branch" /\ G!Prepare(c, "branch", run[r].target, 0)
         \/ /\ run[r].pc = "prepare_draft"
            /\ G!Prepare(c, "draft", run[r].target, run[r].branch)
<1>1. RunShaped(run[r]) /\ run[r].material \in Nat \cup {None}
  BY DEF CliShape, RunRecord
<1>2. run[r].pc \notin {"start", "abort", "recover"}
  BY <1>1 DEF RunShaped, FinishPlace, CommandPlace, Preparing, Publishing
<1>3. ~ \E cmd \in Commands, t \in Target \cup {None}, d \in Change \cup {None} :
          G!Launch(r, cmd, t, d)
  BY DEF G!Launch
<1>4. ~ \E yes \in BOOLEAN : G!ResolveRecovery(r, yes) \/ G!RecoverGet(r, yes)
  BY DEF G!ResolveRecovery, G!RecoverGet
<1> QED
  BY <1>1, <1>2, <1>3, <1>4
     DEF G!CliStep, G!StartChange, G!SaveSelection, G!ClearSelection, G!ResolveSelected,
         G!ResolveUse, G!PickFromList, G!Read, G!Use, G!SealGet, G!SealRun, G!VerifyRun,
         G!ApproveGet, G!ApproveRun, G!FetchMaterial, G!FinishGet, G!FinishRound,
         G!FinishGivesUp, G!PrepareBranch, G!PrepareDraft, G!PublishGet, G!PublishRun,
         G!Render, G!AbortRun, G!Forget, G!RecoverRun, G!Quit, G!Attempt, G!Calling, G!Id

\* The first effect of a publication, and the one that depends on it.
LEMMA BranchPrepared ==
  ASSUME CliShape, NEW c \in Change, NEW t \in Target, G!Matching(change[c].effects, t),
         G!Of(change[c].effects, "branch") = {}, G!Prepare(c, "branch", t, 0)
  PROVE  /\ G!Matching(change'[c].effects, t) /\ ~Frozen(c)'
         /\ G!Of(change'[c].effects, "draft") = {}
         /\ \E b \in G!Of(change'[c].effects, "branch") :
              b.id = G!Cardinality(change[c].effects) + 1
<1> DEFINE old == change[c].effects
           e == [id |-> G!Cardinality(old) + 1, kind |-> "branch", target |-> t, dep |-> 0]
<1>1. old = {}
  BY DEF G!Matching, G!Of
<1>2. /\ change' = [change EXCEPT ![c].effects = @ \cup {e}, ![c].digest = @ + 1,
                                  ![c].approved = None]
      /\ change[c].st = "sealed"
  BY DEF G!Prepare
<1>3. e.kind = "branch" /\ e.target = t /\ e.id = G!Cardinality(old) + 1
  OBVIOUS
<1> HIDE DEF e
<1>4. change'[c].effects = {e} /\ change'[c].st = "sealed"
  BY <1>1, <1>2 DEF CliShape, ChangesShaped, ChangeRecord
<1>5. G!Of({e}, "branch") = {e} /\ G!Of({e}, "draft") = {}
  BY <1>3 DEF G!Of
<1>6. G!Cardinality({e}) = 1 /\ G!Cardinality({}) = 0
  BY CountsAlike, FS_Singleton, FS_EmptySet
<1>7. G!Matching({e}, t)
  BY <1>3, <1>5, <1>6 DEF G!Matching
<1> QED BY <1>3, <1>4, <1>5, <1>7 DEF Frozen

\* The pull request, on the branch that is there.
LEMMA DraftPrepared ==
  ASSUME CliShape, NEW c \in Change, NEW t \in Target, G!Matching(change[c].effects, t),
         G!Of(change[c].effects, "draft") = {}, NEW n \in Nat, G!Prepare(c, "draft", t, n),
         \E b \in G!Of(change[c].effects, "branch") : b.id = n
  PROVE  G!Complete(change'[c].effects, t)
<1> DEFINE old == change[c].effects
           e == [id |-> G!Cardinality(old) + 1, kind |-> "draft", target |-> t, dep |-> n]
<1>1. change' = [change EXCEPT ![c].effects = @ \cup {e}, ![c].digest = @ + 1,
                                  ![c].approved = None]
  BY DEF G!Prepare
<1>2. e.kind = "draft" /\ e.target = t /\ e.dep = n
  OBVIOUS
<1> HIDE DEF e
<1>3. change'[c].effects = old \cup {e}
  BY <1>1 DEF CliShape, ChangesShaped, ChangeRecord
<1>4. /\ G!Of(old \cup {e}, "branch") = G!Of(old, "branch")
      /\ G!Of(old \cup {e}, "draft") = {e}
  BY <1>2 DEF G!Of
<1>5. G!Cardinality({e}) = 1
  BY CountsAlike, FS_Singleton
<1>6. G!Matching(old \cup {e}, t)
  <2>1. \A x \in old \cup {e} : x.kind \in {"branch", "draft"} /\ x.target = t
    BY <1>2 DEF G!Matching
  <2>2. G!Cardinality(G!Of(old, "branch")) <= 1
    BY DEF G!Matching
  <2>3. \A d \in {e} : \E b \in G!Of(old, "branch") : d.dep = b.id
    BY <1>2
  <2>4. G!Cardinality({e}) <= 1
    BY <1>5
  <2> QED BY <1>4, <2>1, <2>2, <2>3, <2>4, Zenon DEF G!Matching
<1> QED BY <1>3, <1>4, <1>6 DEF G!Complete

\* A change without effects matches every target.
LEMMA NothingMatches == ASSUME NEW t PROVE G!Matching({}, t)
<1>1. \A kind : G!Of({}, kind) = {}
  BY DEF G!Of
<1>2. G!Cardinality({}) = 0
  BY CountsAlike, FS_EmptySet
<1> QED BY <1>1, <1>2 DEF G!Matching

\* What an invocation does to a change is on the change's account: finish
\* prepares its own effects, and verifies when they are all there.
LEMMA AuthorStep ==
  ASSUME CliBounds, BlindViews = FALSE, ResumeInv, NEW r \in Run, G!CliStep(r), G!Account(r),
         NEW c \in Change
  PROVE  AuthorTold(c)'
<1> DEFINE t == run[r].target
<1>0. CliShape /\ AuthorTold(c) /\ SeenWhenPreparing(run[r]) /\ StepMoves(r)
  BY StepIsMove DEF ResumeInv
<1>1. /\ author[c] # None => author'[c] \in {author[c], "mixed"}
      /\ change'[c] = change[c] \/ change[c].st = "missing" => author'[c] = author[c]
      /\ change'[c] # change[c] /\ change[c].st # "missing" =>
            \/ author'[c] = "mixed"
            \/ t # None /\ author'[c] = t /\ author[c] \in {None, t}
  BY <1>0, AuthorMoves
<1>2. CASE change'[c] = change[c]
  BY <1>0, <1>1, <1>2 DEF AuthorTold, Frozen
<1>3. CASE change'[c] # change[c] /\ change[c].st = "missing"
  <2>1. change'[c].st = "active" /\ change'[c].effects = change[c].effects
    BY <1>0, <1>3, ChangesMove
  <2> QED BY <1>0, <1>1, <1>3, <2>1 DEF AuthorTold, Frozen
<1>4. CASE change'[c] # change[c] /\ change[c].st # "missing"
  <2>1. CASE author'[c] = "mixed"
    BY <2>1 DEF AuthorTold, CliBounds
  <2>2. CASE t # None /\ author'[c] = t /\ author[c] \in {None, t}
    <3>1. /\ t \in Target /\ c = run[r].id /\ run[r].pc \in CommandPlace
          /\ run[r].branch \in Nat /\ t # None
      BY <1>0, <1>4, <2>2, ChangesMove DEF CliShape, RunRecord
    <3>2. G!Matching(change[c].effects, t)
      BY <1>0, <2>2, <3>1, NothingMatches DEF AuthorTold
    <3>3. /\ run[r].pc \in Preparing \cup {"verify"} => author[c] = t
          /\ Frozen(c) => author[c] = t
      BY <1>0, <2>2, <3>1 DEF SeenWhenPreparing, AuthorTold, Frozen
    <3>4. /\ G!Matching(change'[c].effects, t)
          /\ Frozen(c)' => G!Complete(change'[c].effects, t)
      <4>1. CASE G!Seal(c)
        <5>1. change'[c].st = "sealed" /\ change'[c].effects = change[c].effects
          BY <1>0, <4>1 DEF G!Seal, G!Touch, CliShape, ChangesShaped, ChangeRecord
        <5> QED BY <3>2, <5>1 DEF Frozen
      <4>2. CASE run[r].pc = "verify" /\ G!Verify(c)
        <5>1. change'[c].effects = change[c].effects
          BY <1>0, <4>2 DEF G!Verify, G!Touch, CliShape, ChangesShaped, ChangeRecord
        <5>2. G!Complete(change[c].effects, t)
          BY <1>0, <3>1, <3>3, <4>2 DEF SeenWhenPreparing
        <5> QED BY <3>2, <5>1, <5>2
      <4>3. CASE \E digest \in Nat \cup {None} : G!Approve(c, digest) \/ G!Commit(c, digest)
        <5>1. Frozen(c) /\ change'[c].effects = change[c].effects
          BY <1>0, <4>3
             DEF G!Approve, G!Commit, G!MayCommit, CliShape, ChangesShaped, ChangeRecord, Frozen
        <5> QED BY <1>0, <3>1, <3>2, <3>3, <5>1 DEF AuthorTold
      <4>4. CASE run[r].pc = "prepare_branch" /\ G!Prepare(c, "branch", t, 0)
        <5>1. G!Of(change[c].effects, "branch") = {}
          BY <1>0, <3>1, <3>3, <4>4 DEF SeenWhenPreparing, Preparing
        <5> QED BY <1>0, <3>1, <3>2, <4>4, <5>1, BranchPrepared
      <4>5. CASE run[r].pc = "prepare_draft" /\ G!Prepare(c, "draft", t, run[r].branch)
        <5>1. /\ G!Of(change[c].effects, "draft") = {}
              /\ \E b \in G!Of(change[c].effects, "branch") : b.id = run[r].branch
          BY <1>0, <3>1, <3>3, <4>5 DEF SeenWhenPreparing, Preparing
        <5>2. G!Complete(change'[c].effects, t)
          BY <1>0, <3>1, <3>2, <4>5, <5>1, DraftPrepared
        <5> QED BY <5>2 DEF G!Complete
      <4> QED BY <1>0, <1>4, <3>1, <4>1, <4>2, <4>3, <4>4, <4>5, FinishCalls
    <3> QED BY <2>2, <3>1, <3>4 DEF AuthorTold, CliBounds
  <2> QED BY <1>1, <1>4, <2>1, <2>2
<1> QED BY <1>2, <1>3, <1>4

\* A refusal of finish: what it found is somebody else's.
LEMMA RefusalHolds ==
  ASSUME CliBounds, CliShape, NEW r \in Run, run[r].id \in Change, G!RefuseEffects(r),
         author' = author,
         run[r].target # None => author[run[r].id] \notin {None, run[r].target}
  PROVE  SeenWhenPreparing(run[r])'
<1>1. /\ run'[r].pc = "idle" /\ run'[r].id = run[r].id /\ run'[r].target = run[r].target
  BY RefuseMoves
<1> QED BY <1>1 DEF SeenWhenPreparing, Preparing, CommandPlace, FinishPlace, Publishing

\* What a change is like on whose account nobody else is.
LEMMA AccountsFit ==
  ASSUME CliBounds, NEW c \in Change, AuthorTold(c), NEW t \in Target, author[c] \in {None, t}
  PROVE  /\ G!Matching(change[c].effects, t)
         /\ change[c].st \notin {"missing", "active"} => author[c] = t
         /\ change[c].st = "ready" => G!Complete(change[c].effects, t)
  BY NothingMatches DEF AuthorTold, Frozen

\* What an invocation's own step shows it of the preparation.
LEMMA PrepareStep ==
  ASSUME CliBounds, BlindViews = FALSE, ResumeInv, NEW r \in Run, G!CliStep(r), G!Account(r)
  PROVE  SeenWhenPreparing(run[r])'
<1> DEFINE c == run[r].id
           t == run[r].target
           old == change[c].effects
<1> USE DEF G!Calling, G!Id, G!Quiet
<1>a. /\ CliShape /\ SeenWhenPreparing(run[r]) /\ StepMoves(r)
      /\ \A d \in Change : AuthorTold(d)
      /\ run[r] \in RunRecord /\ RunShaped(run[r]) /\ run \in [Run -> RunRecord]
  BY StepIsMove DEF ResumeInv, CliShape
<1>b. /\ run[r].pc \in CommandPlace => c \in Change
      /\ run[r].pc # "idle" => ~run[r].refused
      /\ t # None => t \in Target
  BY <1>a DEF RunShaped, RunRecord
<1>c. G!End(r) => run'[r].pc = "idle" /\ ~run'[r].refused
  BY <1>a, IdleMade DEF G!End
<1>d. \A to : G!To(r, to) =>
        /\ run'[r].pc = to /\ run'[r].id = c /\ run'[r].target = t
        /\ run'[r].refused = run[r].refused
  BY <1>a DEF G!To, RunRecord
<1>e. G!After(r) => run'[r].pc \in {"idle", "loop"} /\ (run'[r].refused => run[r].refused)
  BY <1>c, <1>d DEF G!After
<1>f. change' = change => author' = author
  BY <1>a DEF G!Account, CliShape
<1>1. ASSUME NEW cmd \in Commands, NEW u \in Target \cup {None}, NEW d \in Change \cup {None},
             G!Launch(r, cmd, u, d)
      PROVE  SeenWhenPreparing(run[r])'
  BY <1>1, <1>a, LaunchMoves DEF SeenWhenPreparing, Preparing
<1>2. CASE G!StartChange(r)
  <2>1. run'[r].pc = "save" /\ run'[r].refused = run[r].refused
    BY <1>2, <1>a DEF G!StartChange, RunRecord
  <2> QED BY <1>2, <1>b, <2>1, ElsewherePrepared DEF G!StartChange, Preparing
\* The change is settled: finish first reads it, and has no target elsewhere.
<1>3. ASSUME NEW d \in Change, G!Settled(r, d), run[r].pc \in {"resolve", "list"}
      PROVE  SeenWhenPreparing(run[r])'
  <2>1. /\ run'[r].pc = G!FirstCall(run[r].cmd) /\ run'[r].target = t /\ ~run'[r].refused
        /\ run[r].cmd \in G!Command \ {"start", "clear"}
        /\ t # None => run[r].cmd = "finish"
    BY <1>3, <1>a DEF G!Settled, RunRecord, RunShaped
  <2> QED BY <2>1, FirstCallKnown DEF SeenWhenPreparing, Preparing
<1>4. CASE \/ G!SaveSelection(r) \/ G!ClearSelection(r) \/ G!Read(r) \/ G!FinishGivesUp(r)
           \/ G!Render(r) \/ G!Forget(r) \/ G!RecoverRun(r) \/ G!Quit(r)
  BY <1>4, <1>c, ElsewherePrepared
     DEF G!SaveSelection, G!ClearSelection, G!Read, G!FinishGivesUp, G!Render, G!Forget,
         G!RecoverRun, G!Quit, Preparing
<1>5. CASE G!ResolveSelected(r)
  BY <1>5, <1>b, <1>3, <1>c, <1>d, ElsewherePrepared DEF G!ResolveSelected, G!Known, Preparing
<1>6. CASE G!ResolveUse(r) \/ G!Use(r)
  BY <1>6, <1>b, <1>c, <1>d, ElsewherePrepared DEF G!ResolveUse, G!Use, Preparing
<1>7. CASE G!PickFromList(r)
  BY <1>7, <1>3, <1>c, ElsewherePrepared DEF G!PickFromList, G!Eligible, Preparing
<1>8. ASSUME NEW yes \in BOOLEAN, G!ResolveRecovery(r, yes) \/ G!RecoverGet(r, yes)
      PROVE  SeenWhenPreparing(run[r])'
  BY <1>8, <1>b, <1>3, <1>c, <1>d, ElsewherePrepared
     DEF G!ResolveRecovery, G!RecoverGet, G!Known, Preparing
<1>9. CASE \/ G!SealGet(r) \/ G!SealRun(r) \/ G!VerifyRun(r) \/ G!ApproveGet(r)
           \/ G!ApproveRun(r) \/ G!AbortRun(r)
  BY <1>9, <1>b, <1>c, <1>d, <1>e, ElsewherePrepared
     DEF G!SealGet, G!SealRun, G!VerifyRun, G!ApproveGet, G!ApproveRun, G!AbortRun, G!Attempt,
         Preparing
<1>10. CASE \/ G!FetchMaterial(r, "approve_show", "approve_fetch")
            \/ G!FetchMaterial(r, "approve_fetch", "approve")
            \/ G!FetchMaterial(r, "publish_show", "publish_fetch")
            \/ G!FetchMaterial(r, "publish_fetch", "publish")
  <2>1. /\ run'[r].pc \in {"approve_fetch", "approve", "publish_fetch", "publish"}
        /\ ~run'[r].refused
    BY <1>10, <1>a, <1>b DEF G!FetchMaterial, RunRecord
  <2> QED BY <2>1, ElsewherePrepared DEF Preparing
<1>11. CASE G!PublishGet(r) \/ G!PublishRun(r)
  BY <1>11, <1>b, <1>c, <1>d, ElsewherePrepared DEF G!PublishGet, G!PublishRun, Preparing
\* finish refuses effects that do not match: somebody else worked on the change.
<1>12. CASE G!FinishGet(r)
  <2>1. CASE G!End(r) \/ G!To(r, "loop")
    BY <1>12, <1>b, <1>c, <1>d, <2>1, ElsewherePrepared DEF G!FinishGet, Preparing
  <2>2. CASE G!RefuseEffects(r) /\ (t # None => ~G!Matching(old, t))
    <3>1. c \in Change /\ author' = author
      BY <1>12, <1>b, <1>f DEF G!FinishGet, CommandPlace, FinishPlace
    <3>2. t # None => author[c] \notin {None, t}
      BY <1>a, <1>b, <2>2, <3>1, AccountsFit
    <3> QED BY <1>a, <2>2, <3>1, <3>2, RefusalHolds
  <2> QED BY <1>12, <2>1, <2>2 DEF G!FinishGet, G!View
<1>13. CASE G!FinishRound(r)
  <2>0. run[r].pc = "loop" /\ change' = change /\ c \in Change /\ author' = author
    BY <1>13, <1>b, <1>f DEF G!FinishRound, CommandPlace, FinishPlace
  <2>1. \A to : G!Round(r, to) => /\ run'[r].pc = to /\ run'[r].target = t
                                  /\ run'[r].refused = run[r].refused
    BY <1>a DEF G!Round, RunRecord
  <2>2. CASE G!End(r)
    BY <1>c, <2>2, ElsewherePrepared DEF Preparing
  <2>3. CASE /\ G!RefuseEffects(r)
             /\ t # None => \/ ~G!Matching(old, t)
                            \/ change[c].st = "ready" /\ ~G!Complete(old, t)
    <3>1. t # None => author[c] \notin {None, t}
      BY <1>a, <1>b, <2>0, <2>3, AccountsFit
    <3> QED BY <1>a, <2>0, <2>3, <3>1, RefusalHolds
  <2>4. CASE \E to \in {"seal_get", "approve_get", "publish_get", "render"} : G!Round(r, to)
    BY <1>b, <2>0, <2>1, <2>4, ElsewherePrepared DEF Preparing
  <2>5. CASE G!Round(r, "verify") /\ t = None
    BY <1>b, <2>0, <2>1, <2>5 DEF SeenWhenPreparing
  <2>6. ASSUME t # None, change[c].st = "sealed", G!Matching(old, t),
               LET branch == G!Of(old, "branch")
               IN run' = [run EXCEPT ![r].step = @ + 1,
                            ![r].branch = IF branch = {} THEN 0
                                          ELSE (CHOOSE b \in branch : TRUE).id,
                            ![r].pc = G!NextPreparation(old)]
        PROVE  SeenWhenPreparing(run[r])'
    <3> DEFINE branch == G!Of(old, "branch")
               n == IF branch = {} THEN 0 ELSE (CHOOSE x \in branch : TRUE).id
               to == G!NextPreparation(old)
    <3>1. branch # {} => \E b \in branch : b.id = n
      OBVIOUS
    <3>2. /\ to \in Preparing \cup {"verify"}
          /\ to = "prepare_branch" => branch = {}
          /\ to = "prepare_draft" => branch # {} /\ G!Of(old, "draft") = {}
          /\ to = "verify" => branch # {} /\ G!Of(old, "draft") # {}
      BY DEF G!NextPreparation, Preparing
    <3>3. run' = [run EXCEPT ![r].step = @ + 1, ![r].branch = n, ![r].pc = to]
      BY <2>6
    <3>4. author[c] # None
      BY <1>a, <2>0, <2>6 DEF AuthorTold
    <3> HIDE DEF n, to
    <3>5. /\ run'[r].pc = to /\ run'[r].id = c /\ run'[r].target = t /\ run'[r].branch = n
          /\ run'[r].refused = run[r].refused
      BY <1>a, <3>3 DEF RunRecord
    <3> HIDE DEF branch
    <3>6. /\ to = "prepare_branch" => G!Of(change'[c].effects, "branch") = {}
          /\ to = "prepare_draft" =>
               /\ G!Of(change'[c].effects, "draft") = {}
               /\ \E b \in G!Of(change'[c].effects, "branch") : b.id = n
          /\ to = "verify" => G!Complete(change'[c].effects, t)
      BY <2>0, <2>6, <3>1, <3>2 DEF G!Complete, branch
    <3> QED BY <1>b, <2>0, <3>4, <3>5, <3>6 DEF SeenWhenPreparing
  <2>7. \/ G!End(r)
        \/ /\ G!RefuseEffects(r)
           /\ t # None => \/ ~G!Matching(old, t)
                          \/ change[c].st = "ready" /\ ~G!Complete(old, t)
        \/ \E to \in {"seal_get", "approve_get", "publish_get", "render"} : G!Round(r, to)
        \/ G!Round(r, "verify") /\ t = None
        \/ /\ t # None /\ change[c].st = "sealed" /\ G!Matching(old, t)
           /\ LET branch == G!Of(old, "branch")
              IN run' = [run EXCEPT ![r].step = @ + 1,
                            ![r].branch = IF branch = {} THEN 0
                                          ELSE (CHOOSE b \in branch : TRUE).id,
                            ![r].pc = G!NextPreparation(old)]
    BY <1>13 DEF G!FinishRound, G!View
  <2> QED BY <2>2, <2>3, <2>4, <2>5, <2>6, <2>7
\* A call that was carried out shows the invocation its own effect.
<1>14. CASE G!PrepareBranch(r)
  <2> DEFINE n == G!Cardinality(old) + 1
  <2>0. run[r].pc = "prepare_branch" /\ c \in Change
    BY <1>14, <1>b DEF G!PrepareBranch, G!Attempt, CommandPlace, FinishPlace, Preparing
  <2>1. CASE G!End(r)
    BY <1>c, <2>1, ElsewherePrepared DEF Preparing
  <2>2. CASE /\ G!Prepare(c, "branch", t, 0)
             /\ run' = [run EXCEPT ![r].pc = "prepare_draft", ![r].branch = n]
    <3> HIDE DEF n
    <3>1. /\ run'[r].pc = "prepare_draft" /\ run'[r].id = c /\ run'[r].target = t
          /\ run'[r].branch = n /\ ~run'[r].refused
      BY <1>a, <1>b, <2>0, <2>2 DEF RunRecord
    <3>2. t # None => author[c] # None /\ author'[c] \in {author[c], "mixed"}
      BY <1>a, <2>0, AuthorMoves DEF SeenWhenPreparing, Preparing
    <3>3. ASSUME t # None, author'[c] = t
          PROVE  /\ G!Of(change'[c].effects, "draft") = {}
                 /\ \E b \in G!Of(change'[c].effects, "branch") : b.id = n
      <4>1. t \in Target /\ author[c] = t
        BY <1>b, <3>2, <3>3 DEF CliBounds
      <4>2. G!Of(old, "branch") = {} /\ G!Matching(old, t)
        BY <1>a, <2>0, <4>1, AccountsFit, <3>3
           DEF SeenWhenPreparing, CommandPlace, FinishPlace, Preparing
      <4> QED BY <1>a, <2>0, <2>2, <4>1, <4>2, BranchPrepared DEF n
    <3>4. t # None => author'[c] # None
      BY <3>2 DEF CliBounds
    <3> QED BY <3>1, <3>3, <3>4 DEF SeenWhenPreparing
  <2> QED BY <1>14, <2>1, <2>2 DEF G!PrepareBranch, G!Attempt
<1>15. CASE G!PrepareDraft(r)
  <2>0. run[r].pc = "prepare_draft" /\ c \in Change /\ run[r].branch \in Nat
    BY <1>15, <1>a, <1>b
       DEF G!PrepareDraft, G!Attempt, CommandPlace, FinishPlace, Preparing, RunRecord
  <2>1. CASE G!End(r)
    BY <1>c, <2>1, ElsewherePrepared DEF Preparing
  <2>2. CASE G!Prepare(c, "draft", t, run[r].branch) /\ G!To(r, "verify")
    <3>1. /\ run'[r].pc = "verify" /\ run'[r].id = c /\ run'[r].target = t
          /\ ~run'[r].refused
      BY <1>b, <1>d, <2>0, <2>2
    <3>2. t # None => author[c] # None /\ author'[c] \in {author[c], "mixed"}
      BY <1>a, <2>0, AuthorMoves DEF SeenWhenPreparing, Preparing
    <3>3. ASSUME t # None, author'[c] = t PROVE G!Complete(change'[c].effects, t)
      <4>1. t \in Target /\ author[c] = t
        BY <1>b, <3>2, <3>3 DEF CliBounds
      <4>2. /\ G!Of(old, "draft") = {} /\ G!Matching(old, t)
            /\ \E b \in G!Of(old, "branch") : b.id = run[r].branch
        BY <1>a, <2>0, <4>1, AccountsFit, <3>3
           DEF SeenWhenPreparing, CommandPlace, FinishPlace, Preparing
      <4> QED BY <1>a, <2>0, <2>2, <4>1, <4>2, DraftPrepared
    <3>4. t # None => author'[c] # None
      BY <3>2 DEF CliBounds
    <3> QED BY <3>1, <3>3, <3>4 DEF SeenWhenPreparing
  <2> QED BY <1>15, <2>1, <2>2 DEF G!PrepareDraft, G!Attempt
<1> QED
  BY <1>1, <1>2, <1>4, <1>5, <1>6, <1>7, <1>8, <1>9, <1>10, <1>11, <1>12, <1>13, <1>14,
     <1>15 DEF G!CliStep

\* At first nobody has worked on anything.
LEMMA ResumeInit == ASSUME CliBounds, G!CliInit PROVE ResumeInv
<1>1. CliShape
  BY CliShapeInit
<1>2. \A r \in Run : run[r].pc = "idle" /\ ~run[r].refused
  BY IdleMade DEF G!CliInit
<1>3. \A c \in Change : author[c] = None /\ change[c].effects = {}
                        /\ change[c].st \in {"missing", "active"}
  BY DEF G!CliInit, G!NewChange
<1> QED BY <1>1, <1>2, <1>3 DEF ResumeInv, AuthorTold, SeenWhenPreparing, Preparing,
        CommandPlace, FinishPlace, Publishing, CliBounds

\* The call of another client leaves nothing to say of a change.
LEMMA OthersPrepared ==
  ASSUME CliBounds, CliShape, NEW c \in Change, author' = [author EXCEPT ![c] = "mixed"],
         run' = run, \A d \in Change \ {c} : change'[d] = change[d],
         NEW q \in Run, SeenWhenPreparing(run[q])
  PROVE  SeenWhenPreparing(run[q])'
<1>1. /\ run[q].pc \in CommandPlace => run[q].id \in Change
      /\ Preparing \cup {"verify"} \subseteq CommandPlace
      /\ run[q].target # "mixed"
  BY DEF CliShape, RunShaped, RunRecord, CommandPlace, FinishPlace, Preparing, CliBounds
<1>2. /\ author'[c] = "mixed" /\ author \in [Change -> Target \cup {None, "mixed"}]
      /\ \A d \in Change \ {c} : author'[d] = author[d]
  BY DEF CliShape
<1>3. CASE run[q].id = c
  BY <1>1, <1>2, <1>3 DEF SeenWhenPreparing, CliBounds
<1>4. CASE run[q].id \in Change \ {c}
  BY <1>1, <1>2, <1>4 DEF SeenWhenPreparing
<1>5. CASE run[q].id \notin Change
  BY <1>1, <1>5 DEF SeenWhenPreparing
<1> QED BY <1>3, <1>4, <1>5

\* Accounts stay true, and so does what finish has seen.
LEMMA ResumeNext ==
  ASSUME CliBounds, BlindViews = FALSE, ResumeInv, [G!CliNext]_(G!cliVars)
  PROVE  ResumeInv'
<1>0. CliShape /\ CliShape'
  BY CliShapeNext DEF ResumeInv
<1>1. ASSUME NEW r \in Run, G!CliStep(r), G!Account(r) PROVE ResumeInv'
  <2>1. \A c \in Change : AuthorTold(c)'
    BY <1>1, AuthorStep
  <2>2. SeenWhenPreparing(run[r])'
    BY <1>1, PrepareStep
  <2>3. ASSUME NEW q \in Run \ {r} PROVE SeenWhenPreparing(run[q])'
    BY <1>0, <1>1, <2>3, StepIsMove, PreparingStays DEF ResumeInv
  <2> QED BY <1>0, <2>1, <2>2, <2>3 DEF ResumeInv
<1>2. ASSUME NEW c \in Change, G!OtherClient(c), author' = [author EXCEPT ![c] = "mixed"]
      PROVE  ResumeInv'
  <2>1. run' = run /\ \A d \in Change \ {c} : change'[d] = change[d]
    BY <1>0, <1>2, OtherCalls, CallKeeps DEF CliShape
  <2>2. \A d \in Change : AuthorTold(d)'
    BY <1>0, <1>2, <2>1 DEF ResumeInv, AuthorTold, Frozen, CliShape, CliBounds
  <2>3. \A q \in Run : SeenWhenPreparing(run[q])'
    BY <1>0, <1>2, <2>1, OthersPrepared DEF ResumeInv
  <2> QED BY <1>0, <2>2, <2>3 DEF ResumeInv
<1>3. CASE G!SpoilSelection /\ UNCHANGED author
  BY <1>0, <1>3 DEF ResumeInv, G!SpoilSelection, AuthorTold, SeenWhenPreparing, Frozen
<1>4. CASE UNCHANGED G!cliVars
  BY <1>0, <1>4 DEF ResumeInv, G!cliVars, AuthorTold, SeenWhenPreparing, Frozen
<1> QED BY <1>1, <1>2, <1>3, <1>4 DEF G!CliNext

\* InterruptedFinishResumes for any number of invocations, changes and targets: wherever
\* finish is stopped and whichever answer is lost, what it has prepared is a part of what it
\* looks for (prepareGitHubEffects, matchingGitHubEffects), so finish given again with the
\* same target is refused only when somebody else worked on the change.
THEOREM InterruptedFinishes ==
  ASSUME CliBounds, BlindViews = FALSE
  PROVE  G!CliSpec => []InterruptedFinishResumes
<1>1. G!CliInit => ResumeInv
  BY ResumeInit
<1>2. ResumeInv /\ [G!CliNext]_(G!cliVars) => ResumeInv'
  BY ResumeNext
<1>3. ResumeInv => InterruptedFinishResumes
  BY DEF ResumeInv, InterruptedFinishResumes, G!InterruptedFinishResumes, SeenWhenPreparing,
     G!Id
<1> QED BY <1>1, <1>2, <1>3, PTL DEF G!CliSpec
=============================================================================
