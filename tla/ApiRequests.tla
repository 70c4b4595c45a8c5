---------------------------- MODULE ApiRequests ----------------------------
(***************************************************************************)
(* The daemon's HTTP API from the moment a request reaches the socket to   *)
(* the moment it is answered: the chain of guards of api/server.go, the    *)
(* idempotency records and grants in the ledger, the one-use capabilities, *)
(* the operator audit trail, and the offline collection of old keys.       *)
(* Requests run concurrently, one action per step that reads or writes     *)
(* something another request can reach; the daemon can drain, die or lose  *)
(* power between any two of them.                                          *)
(*                                                                         *)
(* What a handler's service call does to its transaction is the business   *)
(* of TransactionService: here it is an event that happens or not, with    *)
(* an outcome.  Grants, which only the API reads, are changed in full.     *)
(* The API-access and authorization rows are written best effort, and no   *)
(* request reads them back: LedgerChains has them.                           *)
(***************************************************************************)
EXTENDS Naturals, FiniteSets, Sequences

CONSTANTS
  Request,      \* the requests of a behaviour; a retry is another request
  Principal,    \* kernel-authenticated callers
  Peer,         \* the principals whose uid the daemon accepts
  Tx,           \* transactions
  Owner,        \* Tx -> the principal that created it
  Key,          \* well-formed Idempotency-Key values
  Capability,   \* Capability -> the [who, op, tx] its signer wrote into it
  Roles,        \* Principal -> the roles the policy binds to it
  Calls,        \* what a request may ask: each of CallType
  MaxMutations, \* max_concurrent_mutations of the rate policy
  MaxFaults,    \* bound on the faults of a behaviour
  MaxEpoch,     \* bound on the collections of one key
  MaxAccess,    \* bound on the transaction access log
  Faults,       \* kinds of fault: "audit", "store", "persist", "crash", "power"
  None          \* no key, no capability, nobody

VARIABLES
  daemon,    \* "up", "draining" (after SIGTERM) or "down"
  pc,        \* Request -> the step it is at
  call,      \* Request -> what it asks
  scope,     \* Request -> "owned", "all" or "capability": how it was let in
  code,      \* Request -> the status it is about to answer, or answered
  origin,    \* Request -> the request whose handler wrote that answer
  slot,      \* requests that hold a concurrency slot of the rate limiter
  busy,      \* requests the drain manager counts
  mutex,     \* the request that holds idempotencyMu
  row,       \* api_idempotency_requests: <<principal, key>> -> row
  epoch,     \* <<principal, key>> -> how often its row was collected
  reserved,  \* Request -> the epoch of the row it reserved or was answered from
  served,    \* requests whose handler made its service call
  used,      \* authorization_capability_uses: capability -> who spent it
  grants,    \* transaction_access_grants: Tx -> Principal -> permission
  accessLog, \* transaction_access_events
  trail,     \* audit/operator-events.jsonl and its uncertainty marker
  faults     \* faults so far

requestVars == <<pc, call, scope, code, origin>>
guardVars == <<slot, busy, mutex>>
keyVars == <<row, epoch, reserved>>
accessVars == <<used, grants, accessLog>>
vars == <<daemon, requestVars, guardVars, keyVars, accessVars, served, trail,
          faults>>

(***************************************************************************)
(* The API contract: what an operation is, and what its handler does.      *)
(***************************************************************************)
AgentUnsafe ==
  {"approval_material", "transaction_approve", "transaction_commit",
   "transaction_recover", "transaction_abort", "transaction_access_list",
   "transaction_access_grant", "transaction_access_revoke"}
Reads ==
  {"health", "contract", "openapi", "transaction_list", "transaction_get",
   "effects_list", "approval_material", "events_list",
   "transaction_access_list"}
Unscoped ==
  {"health", "contract", "openapi", "transaction_create", "transaction_list"}
AccessFor(op) ==
  IF op \in AgentUnsafe THEN "admin" ELSE IF op \in Reads THEN "read" ELSE "operate"

\* body: the handler decodes one; audited: it records the request in the
\* operator trail and gives up when it cannot; done: its status on success.
Shape(body, audited, done) == [body |-> body, audited |-> audited, done |-> done]
CreateHandler == Shape(TRUE, TRUE, 201)
AccessHandler(op) == Shape(op = "transaction_access_grant", TRUE, 200)
ExecuteHandler == Shape(TRUE, TRUE, 200)
PrepareHandler == Shape(TRUE, TRUE, 201)
RefreshHandler == Shape(FALSE, FALSE, 200)
LifecycleHandler(op) ==
  Shape(op \in {"transaction_verify", "transaction_approve",
                "transaction_commit"}, TRUE, 200)
ReadHandler == Shape(FALSE, FALSE, 200)

Handler(op) ==
  CASE op = "transaction_create" -> CreateHandler
    [] op \in {"transaction_access_grant", "transaction_access_revoke"} ->
         AccessHandler(op)
    [] op = "transaction_execute" -> ExecuteHandler
    [] op \in {"github_branch_prepare", "github_pr_prepare",
               "slack_message_prepare"} -> PrepareHandler
    [] op = "effect_refresh" -> RefreshHandler
    [] op \in Reads -> ReadHandler
    [] OTHER -> LifecycleHandler(op)

\* The status of a handler whose service call fails; two cannot.
FailureOf(op) ==
  CASE op \in {"contract", "openapi"} -> {}
    [] op = "health" -> {503}
    [] op = "transaction_list" -> {500}
    [] op \in Reads \ {"approval_material"} -> {404}
    [] OTHER -> {409}

CallType ==
  [who: Principal, op: STRING, tx: Tx \cup {None}, subject: Principal \cup {None},
   body: STRING, key: Key \cup {None, "malformed"},
   cap: DOMAIN Capability \cup {None}]

ASSUME CallAssumption == Calls # {} /\ \A c \in Calls : c \in CallType
ASSUME RequestAssumption ==
  None \notin Request /\ MaxFaults \in Nat /\ MaxEpoch \in Nat

Mutating(r) == call[r].op \notin Reads
Keyed(r) == Mutating(r) /\ call[r].key \in Key
RowOf(r) == <<call[r].who, call[r].key>>
\* BeginAPIRequest compares method, path and the digest of the body.
SameRequest(c, d) ==
  c.op = d.op /\ c.tx = d.tx /\ c.subject = d.subject /\ c.body = d.body

NoRow == [state |-> "none", call |-> None, by |-> None, code |-> 0]
Fault(kind) == kind \in Faults /\ faults < MaxFaults /\ faults' = faults + 1
NoFault == UNCHANGED faults

(***************************************************************************)
(* The operator audit trail.  Record verifies the whole file under its     *)
(* flock, refuses a torn or uncertain trail, writes the line and syncs.    *)
(* kept: lines known to be on disk; loose: lines visible but not synced.   *)
(***************************************************************************)
Appendable == ~trail.torn /\ ~trail.uncertain

Record(line) ==
  /\ Appendable
  /\ trail' = [trail EXCEPT !.kept = @ \cup trail.loose \cup {line}, !.loose = {}]
  /\ NoFault

\* Refused, failed before a byte was written, cut short, or not synced; the
\* marker of an unsynced line is itself written best effort.
RecordFails(line) ==
  \/ ~Appendable /\ UNCHANGED <<trail, faults>>
  \/ Appendable /\ Fault("audit") /\ UNCHANGED trail
  \/ Appendable /\ Fault("audit") /\ trail' = [trail EXCEPT !.torn = TRUE]
  \/ /\ Appendable /\ Fault("audit")
     /\ \E marked \in BOOLEAN :
          trail' = [trail EXCEPT !.loose = @ \cup {line}, !.uncertain = marked]

(***************************************************************************)
(* Helpers over one request.                                               *)
(***************************************************************************)
At(r, label) == daemon # "down" /\ pc[r] = label
Goto(r, label) == pc' = [pc EXCEPT ![r] = label]
Answer(r, status) == code' = [code EXCEPT ![r] = status]

\* The deferred releases of rateGuard, drainGuard and idempotencyGuard.
Return(r, status) ==
  /\ Goto(r, "done")
  /\ Answer(r, status)
  /\ slot' = slot \ {r}
  /\ busy' = busy \ {r}
  /\ mutex' = IF mutex = r THEN None ELSE mutex

Refuse(r, status) == Goto(r, "refused") /\ Answer(r, status)

\* A refusal is recorded before it is sent, and becomes 503 when it cannot be.
Refused(r) ==
  /\ At(r, "refused")
  /\ \/ Record(<<r, "denied">>) /\ Return(r, code[r])
     \/ RecordFails(<<r, "denied">>) /\ Return(r, 503)
  /\ UNCHANGED <<daemon, call, scope, origin, keyVars, accessVars, served>>

(***************************************************************************)
(* Arrival and the guards, in the order Handler() nests them.              *)
(***************************************************************************)
Arrive(r) ==
  /\ daemon # "down" /\ pc[r] = "idle"
  /\ \E c \in Calls : call' = [call EXCEPT ![r] = c]
  /\ Goto(r, "authorize")
  /\ UNCHANGED <<daemon, scope, code, origin, guardVars, keyVars, accessVars,
                 served, trail, faults>>

\* authorization.Authorizer.Decide: default deny, the widest scope wins.
Granting(c) == {role \in Roles[c.who] : c.op \in role.ops}
ScopeOf(c) ==
  IF \E role \in Granting(c) : role.scope = "all" THEN "all" ELSE "owned"

\* Repository.CheckTransactionAccess.
MayAccess(who, t, needed) ==
  \/ Owner[t] = who
  \/ needed = "read" /\ grants[t][who] \in {"read", "operate"}
  \/ needed = "operate" /\ grants[t][who] = "operate"

Visible(c) ==
  c.op \in Unscoped \/ ScopeOf(c) = "all" \/ MayAccess(c.who, c.tx, AccessFor(c.op))

\* capability.Verify: the signer wrote exactly this caller, operation and
\* transaction into it.  Its lifetime and its key are the choice of `valid`.
Fits(cap, c) ==
  Capability[cap].who = c.who /\ Capability[cap].op = c.op /\ Capability[cap].tx = c.tx
\* Mutant: the uses are not looked up.
UnusedMutant(cap) == cap \in DOMAIN used
Unused(cap) == used[cap] = None

Admit(r, how) == scope' = [scope EXCEPT ![r] = how] /\ Goto(r, "rate")

Authorize(r) ==
  LET c == call[r]
      presented == c.op \in AgentUnsafe /\ c.cap # None
  IN
  /\ At(r, "authorize")
  /\ \/ /\ c.who \notin Peer
        /\ Refuse(r, 403) /\ UNCHANGED <<scope, used>>
     \/ /\ c.who \in Peer /\ Granting(c) # {} /\ Visible(c)
        /\ Admit(r, ScopeOf(c)) /\ UNCHANGED <<code, used>>
     \/ /\ c.who \in Peer /\ ~(Granting(c) # {} /\ Visible(c)) /\ presented
        /\ \E valid \in BOOLEAN :
             IF valid /\ Fits(c.cap, c) /\ Unused(c.cap)
             THEN /\ used' = [used EXCEPT ![c.cap] = r]
                  /\ Admit(r, "capability") /\ UNCHANGED code
             ELSE Refuse(r, 403) /\ UNCHANGED <<scope, used>>
     \/ /\ c.who \in Peer /\ ~(Granting(c) # {} /\ Visible(c)) /\ ~presented
        /\ Refuse(r, IF Granting(c) # {} THEN 404 ELSE 403)
        /\ UNCHANGED <<scope, used>>
  /\ UNCHANGED <<daemon, call, origin, guardVars, keyVars, grants, accessLog,
                 served, trail, faults>>

Active(p) == {r \in slot : call[r].who = p}

\* What ratelimit.Limiter.Begin can say.  Whether a token is left depends on the
\* clock.
MayBegin(r) ==
  IF Mutating(r) /\ Cardinality(Active(call[r].who)) >= MaxMutations
  THEN {FALSE} ELSE BOOLEAN

\* rateGuard.  The token is gone whatever the later guards say.
RateLimit(r) ==
  /\ At(r, "rate")
  /\ \E begun \in MayBegin(r) :
       IF ~begun THEN Refuse(r, 429) /\ UNCHANGED slot
       ELSE /\ slot' = IF Mutating(r) THEN slot \cup {r} ELSE slot
            /\ Goto(r, IF Mutating(r) THEN "drain" ELSE "call")
            /\ UNCHANGED code
  /\ UNCHANGED <<daemon, call, scope, origin, busy, mutex, keyVars, accessVars,
                 served, trail, faults>>

\* drain.Manager.BeginMutation.
DrainGuard(r) ==
  /\ At(r, "drain")
  /\ IF daemon = "draining" THEN Refuse(r, 503) /\ UNCHANGED busy
     ELSE busy' = busy \cup {r} /\ Goto(r, "admit") /\ UNCHANGED code
  /\ UNCHANGED <<daemon, call, scope, origin, slot, mutex, keyVars, accessVars,
                 served, trail, faults>>

\* What the two guards read (a state file, the free space) belongs to others
\* and may say anything.
MaintenanceGuard(r) == Refuse(r, 503)
StorageGuard(r) == Refuse(r, 507)
MutationGuards(r) ==
  /\ At(r, "admit")
  /\ \/ MaintenanceGuard(r) \/ StorageGuard(r)
     \/ Goto(r, "idempotency") /\ UNCHANGED code
  /\ UNCHANGED <<daemon, call, scope, origin, guardVars, keyVars, accessVars,
                 served, trail, faults>>

(***************************************************************************)
(* idempotencyGuard.  Requests with a key run one at a time from here to   *)
(* their answer; the others pass.                                          *)
(***************************************************************************)
Unkeyed(r) ==
  /\ At(r, "idempotency") /\ ~Keyed(r)
  /\ IF call[r].body = "huge" THEN Return(r, 413)
     ELSE IF call[r].key = "malformed" THEN Return(r, 400)
     ELSE Goto(r, "decode") /\ UNCHANGED <<code, guardVars>>
  /\ UNCHANGED <<daemon, call, scope, origin, keyVars, accessVars, served, trail,
                 faults>>

\* Repository.BeginAPIRequest, under the mutex.
Begin(r) ==
  LET k == RowOf(r) IN
  /\ At(r, "idempotency") /\ Keyed(r) /\ mutex = None
  /\ \/ /\ call[r].body = "huge"
        /\ Return(r, 413) /\ UNCHANGED <<origin, keyVars, faults>>
     \/ /\ call[r].body # "huge" /\ Fault("store")
        /\ Return(r, 500) /\ UNCHANGED <<origin, keyVars>>
     \/ /\ call[r].body # "huge" /\ NoFault
        /\ row[k].state = "none"
        /\ row' = [row EXCEPT ![k] =
                     [state |-> "in_progress", call |-> call[r], by |-> r, code |-> 0]]
        /\ reserved' = [reserved EXCEPT ![r] = epoch[k]]
        /\ mutex' = r /\ Goto(r, "decode")
        /\ UNCHANGED <<code, slot, busy, origin, epoch>>
     \/ /\ call[r].body # "huge" /\ NoFault
        /\ row[k].state # "none"
        /\ IF ~SameRequest(row[k].call, call[r]) THEN Return(r, 409) /\ UNCHANGED origin
           ELSE IF row[k].state = "completed"
           THEN /\ Return(r, row[k].code)
                /\ origin' = [origin EXCEPT ![r] = row[k].by]
           ELSE Return(r, 425) /\ UNCHANGED origin
        /\ reserved' = [reserved EXCEPT ![r] = epoch[k]]
        /\ UNCHANGED <<row, epoch>>
  /\ UNCHANGED <<daemon, call, scope, accessVars, served, trail>>

\* After the handler: forget the key on a server error, else keep the answer.
DeleteRow(r) == row' = [row EXCEPT ![RowOf(r)] = NoRow]
CompleteRow(r) ==
  row' = [row EXCEPT ![RowOf(r)].state = "completed", ![RowOf(r)].code = code[r]]

\* Mutant: any failure gives the key back.
SettleMutant(r) ==
  /\ At(r, "settle") /\ Keyed(r) /\ NoFault
  /\ IF code[r] >= 400 THEN DeleteRow(r)
     ELSE CompleteRow(r)
  /\ Return(r, code[r])
  /\ UNCHANGED <<daemon, call, scope, origin, epoch, reserved, accessVars, served,
                 trail>>
Settle(r) ==
  /\ At(r, "settle") /\ Keyed(r)
  /\ \/ /\ code[r] >= 500 /\ DeleteRow(r) /\ NoFault
        /\ Return(r, code[r])
     \/ /\ code[r] >= 500 /\ Fault("store") /\ UNCHANGED row
        /\ Return(r, code[r])
     \/ /\ code[r] < 500 /\ NoFault
        /\ CompleteRow(r)
        /\ Return(r, code[r])
     \/ /\ code[r] < 500 /\ Fault("persist")
        /\ DeleteRow(r) \/ UNCHANGED row
        /\ Return(r, 500)
  /\ UNCHANGED <<daemon, call, scope, origin, epoch, reserved, accessVars, served,
                 trail>>

\* A request without a key, or a read, is answered as its handler said.
Flush(r) ==
  /\ At(r, "settle") /\ ~Keyed(r)
  /\ Return(r, code[r])
  /\ UNCHANGED <<daemon, call, scope, origin, keyVars, accessVars, served, trail,
                 faults>>

(***************************************************************************)
(* The handlers.  All have one shape: decode, record the request, call the *)
(* service, record the result.                                             *)
(***************************************************************************)
Finish(r, status) == Goto(r, "settle") /\ Answer(r, status)
Outcome(r, status) ==
  /\ Goto(r, IF Handler(call[r].op).audited THEN "result" ELSE "settle")
  /\ Answer(r, status)

\* The first status written wins, so a refused body is a 503 when the refusal
\* cannot be recorded.
Decode(r) ==
  LET h == Handler(call[r].op) IN
  /\ At(r, "decode")
  /\ \/ /\ h.body /\ call[r].body = "bad" /\ Record(<<r, "result">>)
        /\ Finish(r, 400)
     \/ /\ h.body /\ call[r].body = "bad" /\ RecordFails(<<r, "result">>)
        /\ Finish(r, 503)
     \/ /\ ~(h.body /\ call[r].body = "bad")
        /\ Goto(r, IF h.audited THEN "request" ELSE "call")
        /\ UNCHANGED <<code, trail, faults>>
  /\ UNCHANGED <<daemon, call, scope, origin, guardVars, keyVars, accessVars, served>>

\* auditRequired: no record, no service call.
\* Mutant: a failed record is only logged.
RecordRequestMutant(r) ==
  /\ At(r, "request")
  /\ Record(<<r, "request">>) \/ RecordFails(<<r, "request">>)
  /\ Goto(r, "call")
  /\ UNCHANGED <<daemon, call, scope, code, origin, guardVars, keyVars, accessVars,
                 served>>
RecordRequest(r) ==
  /\ At(r, "request")
  /\ \/ Record(<<r, "request">>) /\ Goto(r, "call") /\ UNCHANGED code
     \/ RecordFails(<<r, "request">>) /\ Finish(r, 503)
  /\ UNCHANGED <<daemon, call, scope, origin, guardVars, keyVars, accessVars, served>>

Administers(r, t) == call[r].who = Owner[t] \/ scope[r] = "all"
LogAccess(r, action, permission) ==
  accessLog' = Append(accessLog,
    [actor |-> call[r].who, tx |-> call[r].tx, subject |-> call[r].subject,
     action |-> action, permission |-> permission])

\* Repository.GrantTransactionAccess: one SQL transaction.
CanGrant(r) ==
  LET c == call[r] IN
  /\ c.body \in {"read", "operate"}
  /\ c.who # c.subject
  /\ Administers(r, c.tx)
  /\ c.subject # Owner[c.tx]
Grant(r) ==
  LET c == call[r] IN
  /\ grants' = [grants EXCEPT ![c.tx][c.subject] = c.body]
  /\ LogAccess(r, "granted", c.body)

\* Repository.RevokeTransactionAccess.
CanRevoke(r) ==
  /\ Administers(r, call[r].tx)
  /\ grants[call[r].tx][call[r].subject] # "none"
Revoke(r) ==
  /\ grants' = [grants EXCEPT ![call[r].tx][call[r].subject] = "none"]
  /\ LogAccess(r, "revoked", "none")

\* Any other handler's service call: it succeeds, or fails with its own status.
OtherCall(r) ==
  /\ call[r].op \notin {"transaction_access_grant", "transaction_access_revoke"}
  /\ \E status \in {Handler(call[r].op).done} \cup FailureOf(call[r].op) :
       Outcome(r, status)
  /\ UNCHANGED <<grants, accessLog>>

ServiceCall(r) ==
  LET op == call[r].op IN
  /\ At(r, "call")
  /\ \/ OtherCall(r)
     \/ /\ op = "transaction_access_grant" /\ CanGrant(r)
        /\ Len(accessLog) < MaxAccess
        /\ Grant(r) /\ Outcome(r, 200)
     \/ /\ op = "transaction_access_revoke" /\ CanRevoke(r)
        /\ Len(accessLog) < MaxAccess
        /\ Revoke(r) /\ Outcome(r, 200)
     \/ /\ op = "transaction_access_grant" /\ ~CanGrant(r)
        /\ Outcome(r, 409) /\ UNCHANGED <<grants, accessLog>>
     \/ /\ op = "transaction_access_revoke" /\ ~CanRevoke(r)
        /\ Outcome(r, 409) /\ UNCHANGED <<grants, accessLog>>
  /\ served' = served \cup {r}
  /\ origin' = [origin EXCEPT ![r] = r]
  /\ UNCHANGED <<daemon, call, scope, guardVars, keyVars, used, trail, faults>>

\* The result line is best effort: a failure is only logged.
RecordResult(r) ==
  /\ At(r, "result")
  /\ Record(<<r, "result">>) \/ RecordFails(<<r, "result">>)
  /\ Goto(r, "settle")
  /\ UNCHANGED <<daemon, call, scope, code, origin, guardVars, keyVars, accessVars,
                 served>>

(***************************************************************************)
(* The daemon, the tools that run while it is down, and the operator.      *)
(***************************************************************************)
InFlight == {r \in Request : pc[r] \notin {"idle", "done", "lost"}}

\* SIGTERM: mutations that got past the drain guard are waited for.
Drain ==
  /\ daemon = "up"
  /\ daemon' = "draining"
  /\ UNCHANGED <<requestVars, guardVars, keyVars, accessVars, served, trail, faults>>

Stop ==
  /\ daemon = "draining" /\ busy = {} /\ InFlight = {}
  /\ daemon' = "down"
  /\ UNCHANGED <<requestVars, guardVars, keyVars, accessVars, served, trail, faults>>

Start ==
  /\ daemon = "down"
  /\ daemon' = "up"
  /\ UNCHANGED <<requestVars, guardVars, keyVars, accessVars, served, trail, faults>>

\* What the process held is gone; committed rows and synced lines are not.
Die ==
  /\ daemon # "down" /\ daemon' = "down"
  /\ pc' = [r \in Request |-> IF r \in InFlight THEN "lost" ELSE pc[r]]
  /\ slot' = {} /\ busy' = {} /\ mutex' = None
  /\ UNCHANGED <<call, scope, code, origin, keyVars, accessVars, served>>

Appending == \E r \in Request : pc[r] \in {"refused", "decode", "request", "result"}

Crash ==
  /\ Fault("crash") /\ Die
  /\ \/ UNCHANGED trail
     \/ Appending /\ Appendable /\ trail' = [trail EXCEPT !.torn = TRUE]

\* Lines that were never synced, and the marker, may or may not be there.
PowerLoss ==
  /\ Fault("power") /\ Die
  /\ \E survived \in SUBSET trail.loose, marked, cut \in BOOLEAN :
       /\ marked => trail.uncertain
       /\ cut => trail.torn \/ trail.loose # {} \/ Appending
       /\ trail' = [trail EXCEPT !.loose = survived, !.uncertain = marked,
                                !.torn = cut]

\* An operator inspects the trail, cuts a torn line and removes the marker.
RepairTrail ==
  /\ ~Appendable
  /\ trail' = [trail EXCEPT !.torn = FALSE, !.uncertain = FALSE]
  /\ UNCHANGED <<daemon, requestVars, guardVars, keyVars, accessVars, served, faults>>

\* futurediff-idempotency-gc holds the daemon lock: no daemon runs.  A row is
\* old when its request is long answered, or died with its daemon.
ForgetKey(k) ==
  /\ row' = [row EXCEPT ![k] = NoRow]
  /\ epoch' = [epoch EXCEPT ![k] = @ + 1]
CollectKey ==
  /\ daemon = "down"
  /\ \E k \in DOMAIN row :
       row[k].state # "none" /\ epoch[k] < MaxEpoch /\ ForgetKey(k)
  /\ UNCHANGED <<daemon, requestVars, guardVars, reserved, accessVars, served, trail,
                 faults>>

RequestStep(r) ==
  \/ Arrive(r) \/ Authorize(r) \/ RateLimit(r) \/ DrainGuard(r) \/ MutationGuards(r)
  \/ Refused(r) \/ Unkeyed(r) \/ Begin(r) \/ Decode(r) \/ RecordRequest(r)
  \/ ServiceCall(r) \/ RecordResult(r) \/ Settle(r) \/ Flush(r)

Next ==
  \/ \E r \in Request : RequestStep(r)
  \/ Drain \/ Stop \/ Start \/ Crash \/ PowerLoss \/ RepairTrail \/ CollectKey

Init ==
  /\ daemon = "up"
  /\ pc = [r \in Request |-> "idle"]
  /\ call \in [Request -> {CHOOSE c \in Calls : TRUE}]
  /\ scope = [r \in Request |-> "owned"]
  /\ code = [r \in Request |-> 0]
  /\ origin = [r \in Request |-> None]
  /\ slot = {} /\ busy = {} /\ mutex = None
  /\ row = [k \in Principal \X Key |-> NoRow]
  /\ epoch = [k \in Principal \X Key |-> 0]
  /\ reserved = [r \in Request |-> 0]
  /\ served = {}
  /\ used = [cap \in DOMAIN Capability |-> None]
  /\ grants = [t \in Tx |-> [p \in Principal |-> "none"]]
  /\ accessLog = <<>>
  /\ trail = [kept |-> {}, loose |-> {}, torn |-> FALSE, uncertain |-> FALSE]
  /\ faults = 0

Spec == Init /\ [][Next]_vars

-----------------------------------------------------------------------------
(***************************************************************************)
(* Properties.                                                             *)
(***************************************************************************)
Label == {"idle", "authorize", "rate", "drain", "admit", "idempotency", "decode",
          "request", "call", "result", "settle", "refused", "done", "lost"}
Line == Request \X {"request", "result", "denied"}
RowType ==
  [state: {"none", "in_progress", "completed"}, call: Calls \cup {None},
   by: Request \cup {None}, code: Nat]

\* The type of the state; and what the daemon holds for a request, a slot, a
\* place in the drain count or the idempotency mutex, is given back on every
\* way out of the chain of guards.
RequestTypeOK ==
  /\ daemon \in {"up", "draining", "down"}
  /\ pc \in [Request -> Label]
  /\ call \in [Request -> Calls]
  /\ scope \in [Request -> {"owned", "all", "capability"}]
  /\ code \in [Request -> Nat]
  /\ origin \in [Request -> Request \cup {None}]
  /\ slot \subseteq InFlight /\ busy \subseteq slot
  /\ mutex \in busy \cup {None}
  /\ row \in [Principal \X Key -> RowType]
  /\ epoch \in [Principal \X Key -> 0..MaxEpoch]
  /\ reserved \in [Request -> 0..MaxEpoch]
  /\ served \subseteq Request
  /\ used \in [DOMAIN Capability -> Request \cup {None}]
  /\ grants \in [Tx -> [Principal -> {"none", "read", "operate"}]]
  /\ trail \in [kept: SUBSET Line, loose: SUBSET Line, torn: BOOLEAN,
               uncertain: BOOLEAN]
  /\ faults \in 0..MaxFaults

\* auditRequired: when a handler has changed something, the record of its
\* request is on disk, whatever failed, and stays there through a power loss.
AuditedFirst ==
  \A r \in served : Handler(call[r].op).audited => <<r, "request">> \in trail.kept

AuditedBeforeDone == RequestTypeOK /\ AuditedFirst

\* Between two collections of a key, at most one of the requests that carry it
\* reaches the service: not a retry after a lost answer, not one after a
\* restart, not two at once.
KeyRunsOnce ==
  \A r, s \in served :
    Keyed(r) /\ Keyed(s) /\ RowOf(r) = RowOf(s) /\ reserved[r] = reserved[s] => r = s

\* Requests with one key that got a handler's answer got the same one, and
\* asked the same thing.
Answered(r) == pc[r] = "done" /\ Keyed(r) /\ origin[r] # None
AnswersAgree ==
  \A r, s \in Request :
    Answered(r) /\ Answered(s) /\ RowOf(r) = RowOf(s) /\ reserved[r] = reserved[s] =>
      /\ origin[r] = origin[s] /\ code[r] = code[s]
      /\ [call[r] EXCEPT !.cap = None] = [call[s] EXCEPT !.cap = None]

\* A guard's refusal, a server error and "too early" mean that nothing was done:
\* the client may try again what it asked to be done.
RefusalsChangeNothing ==
  \A r \in Request :
    Mutating(r) /\ pc[r] = "done"
    /\ (code[r] >= 500 \/ code[r] \in {400, 403, 404, 413, 425, 429}) =>
      r \notin served

\* What a client may conclude when it decides whether to send a request again:
\* a key runs once, its answer is the answer, and a refusal did nothing.
RetriesAreSafe == KeyRunsOnce /\ AnswersAgree /\ RefusalsChangeNothing

\* An operation an agent must not do reaches the service only for the owner of
\* the transaction, for a role over all of them, or for the one request that
\* spent a capability signed for exactly this.
UnsafeNeedsAuthority ==
  \A r \in served :
    LET c == call[r] IN
    c.op \in AgentUnsafe =>
      \/ Granting(c) # {} /\ (Owner[c.tx] = c.who \/ ScopeOf(c) = "all")
      \/ c.cap # None /\ used[c.cap] = r /\ Fits(c.cap, c)
=============================================================================
