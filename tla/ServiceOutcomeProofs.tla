------------------------ MODULE ServiceOutcomeProofs ------------------------
(***************************************************************************)
(* Proofs about what becomes of a transaction.  Whatever the faults, an    *)
(* effect reaches its provider only after the effects it depends on, a     *)
(* transaction is reported as committed only when its safe branch and all  *)
(* its effects are out, and no two requests hold the same fencing token:   *)
(* evidence that a request has seen is never taken back.  While nobody     *)
(* recovers, the safe branch appears with what was approved.  Where        *)
(* requests come one after the other and no call outlives its request, the *)
(* ledger never says less than what happened at the providers, no effect   *)
(* is applied twice, and what is ready is what was verified.               *)
(***************************************************************************)
EXTENDS TransactionServiceProofs

-----------------------------------------------------------------------------
(* What is released, and when.                                             *)

\* Commit and recovery before the safe branch is on record.
Working == {"pin", "preflight", "lease", "begin", "inspect", "materialize",
            "publish"}

\* What a request has made sure of where its local variables say so.
Known(q) ==
  /\ \A d \in q.done : receipts[d] # None
  /\ q.pc \in {"check", "post"} => DependsOn[q.effect] \subseteq q.done
  /\ q.pc \in {"receipt", "found"} => copies[q.effect] > 0
  /\ q.pc \in Working => patch # None
  /\ q.pc = "record_ref" => intRef # None /\ intRef = patch

\* A receipt is of an effect that was applied, the recorded ref is there, and a
\* committed transaction has a receipt for each of its effects.
Evidenced ==
  /\ \A e \in Effect : receipts[e] # None => copies[e] > 0
  /\ materialized # None => intRef # None /\ intRef = patch
  /\ status = "committed" => \A e \in Effect : Exists(e) => receipts[e] # None

ReleaseInv ==
  /\ ServiceInv
  /\ \A r \in Request : Known(req[r])
  /\ Evidenced
  /\ DependencyOrder

-----------------------------------------------------------------------------
(* Evidence is never taken back.                                           *)

Grows ==
  /\ \A e \in Effect : receipts[e] # None => receipts'[e] # None
  /\ \A e \in Effect : copies[e] > 0 => copies'[e] > 0
  /\ patch # None => patch' = patch
  /\ intRef # None => intRef' = intRef

\* The actions that change what is at the providers or the safe branch.
LEMMA WorldStep ==
  ASSUME ServiceInv, [Next]_vars
  PROVE  \/ UNCHANGED <<copies, late, intRef>>
         \/ \E e \in Effect : LandLate(e)
         \/ \E r \in Request : PostEffect(r) \/ PublishRef(r)
<1>1. CASE CreateTransaction \/ Approve \/ UNCHANGED vars
  BY <1>1 DEF CreateTransaction, Approve, vars, worldVars
<1>2. CASE Environment
  BY <1>2 DEF Environment, Edit, MoveSource, Crash, LeaseTime, ChangeProvider, worldVars
<1>3. ASSUME NEW r \in Request, Ask(r) PROVE UNCHANGED <<copies, late, intRef>>
  BY <1>3 DEF Ask, SealCapture, VerifyStart, CommitStart, RecoverStart,
       AbortStart, PrepareRead, RefreshRead, worldVars
<1>4. ASSUME NEW r \in Request, Step(r), ~PostEffect(r), ~PublishRef(r)
      PROVE  UNCHANGED <<copies, late, intRef>>
  BY <1>4 DEF Step, SealRecord, VerifyChecks, VerifyRecord,
     PreparePersist, RefreshPersist, CommitPin, Preflight, MarkStale,
     TakeLease, CommitBegin, Inspect, AddWorktree, RecordRef,
     LoadEffects, NextEffect, CheckProvider, RecordReceipt, EffectUnknown,
     EffectDefiniteFailure, MarkEffect, Mark, Finalize, ReloadEffects,
     QueryNext, AskProvider, StillUnknown, Rearm, RecordFound, Decide,
     Conclude, AbortCheck, AbortBegin, AbortEffects, AbortWorkspace, AbortEnd, worldVars
<1> QED
  BY <1>1, <1>2, <1>3, <1>4 DEF Next

\* PostEffect works on the effect in hand.
LEMMA PostAdds ==
  ASSUME ServiceInv, NEW r \in Request, PostEffect(r)
  PROVE  /\ req[r].pc = "post" /\ req[r].effect \in Effect
         /\ copies' \in {copies, [copies EXCEPT ![req[r].effect] = @ + 1]}
         /\ late' \in {late, [late EXCEPT ![req[r].effect] = @ + 1]}
         /\ UNCHANGED <<intRef, ledgerVars>>
<1>1. req[r].pc = "post" /\ req[r].effect \in Effect
  BY DEF PostEffect, At, ServiceInv, RequestsOK, LocalOK
<1>2. /\ copies' \in {copies, [copies EXCEPT ![req[r].effect] = @ + 1]}
      /\ late' \in {late, [late EXCEPT ![req[r].effect] = @ + 1]}
      /\ UNCHANGED <<intRef, ledgerVars>>
  BY DEF PostEffect
<1> QED BY <1>1, <1>2

\* Receipts, applications, the sealed patch and the safe branch stay.
LEMMA StepGrows ==
  ASSUME ServiceInv, Nat \ {0} \subseteq Receipt, [Next]_vars PROVE Grows
<1>1. /\ \A e \in Effect : receipts[e] # None => receipts'[e] # None
      /\ patch # None => patch' = patch
  BY NextCallsLedger, StepKeepsEvidence DEF EvidenceKept, ServiceInv
<1>2. /\ \A e \in Effect : copies[e] > 0 => copies'[e] > 0
      /\ intRef # None => intRef' = intRef
  <2> USE DEF ServiceInv, WorldOK
  <2>1. CASE UNCHANGED <<copies, late, intRef>>
    BY <2>1
  <2>2. ASSUME NEW e \in Effect, LandLate(e)
        PROVE  /\ \A f \in Effect : copies[f] > 0 => copies'[f] > 0
               /\ UNCHANGED intRef
    BY <2>2 DEF LandLate
  <2>3. ASSUME NEW r \in Request, PostEffect(r)
        PROVE  /\ \A f \in Effect : copies[f] > 0 => copies'[f] > 0
               /\ UNCHANGED intRef
    BY <2>3, PostAdds
  <2>4. ASSUME NEW r \in Request, PublishRef(r)
        PROVE  UNCHANGED copies /\ (intRef # None => intRef' = intRef)
    BY <2>4 DEF PublishRef
  <2> QED BY <2>1, <2>2, <2>3, <2>4, WorldStep
<1> QED BY <1>1, <1>2 DEF Grows

\* Known of a request's local variables after the step.
KnownNext(q) ==
  /\ \A d \in q.done : receipts'[d] # None
  /\ q.pc \in {"check", "post"} => DependsOn[q.effect] \subseteq q.done
  /\ q.pc \in {"receipt", "found"} => copies'[q.effect] > 0
  /\ q.pc \in Working => patch' # None
  /\ q.pc = "record_ref" => intRef' # None /\ intRef' = patch'

\* A request that does not move keeps what it knows.
LEMMA StillKnown ==
  ASSUME Grows, NEW q \in ReqRecord, LocalOK(q), Known(q)
  PROVE  KnownNext(q)
<1>1. q.done \subseteq Effect
  BY DEF ReqRecord
<1>2. q.pc \in {"receipt", "found"} => q.effect \in Effect
  BY DEF LocalOK
<1> QED
  BY <1>1, <1>2 DEF Known, KnownNext, Grows

\* A place at which a request has made sure of nothing but its receipts.
Knowing == {"check", "post", "receipt", "found", "record_ref"} \cup Working

\* It keeps its receipts wherever it goes.
LEMMA KnownElsewhere ==
  ASSUME Grows, NEW q \in ReqRecord, Known(q), NEW p,
         p.done = q.done, p.pc \notin Knowing
  PROVE  KnownNext(p)
<1>1. q.done \subseteq Effect
  BY DEF ReqRecord
<1> QED
  BY <1>1 DEF Known, KnownNext, Grows, Knowing

\* Going on without the patch having gone.
LEMMA KnownWorking ==
  ASSUME Grows, NEW q \in ReqRecord, Known(q), NEW p,
         p.done = q.done, p.pc \in Working, patch # None
  PROVE  KnownNext(p)
<1>1. q.done \subseteq Effect
  BY DEF ReqRecord
<1> QED
  BY <1>1 DEF Known, KnownNext, Grows, Working

\* A request that ended claims nothing.
LEMMA KnownIdle == KnownNext(Idle)
  BY DEF KnownNext, Idle, Working

\* Goto changes the place alone.
LEMMA GotoFields ==
  ASSUME RequestsOK, NEW r \in Request, NEW pc, Goto(r, pc)
  PROVE  /\ req'[r].pc = pc /\ req'[r].done = req[r].done
         /\ req'[r].effect = req[r].effect /\ req[r] \in ReqRecord
  BY DEF RequestsOK, ReqRecord, Goto

\* The request ends.
LEMMA EndKnown ==
  ASSUME RequestsOK, NEW r \in Request, End(r) PROVE KnownNext(req'[r])
<1>1. req'[r] = Idle
  BY DEF End, RequestsOK
<1> QED BY <1>1, KnownIdle

\* Only the place changes, to one that claims no more.
LEMMA GotoElsewhere ==
  ASSUME RequestsOK, NEW r \in Request, NEW pc, Goto(r, pc), pc \notin Knowing,
         Grows, Known(req[r])
  PROVE  KnownNext(req'[r])
  BY GotoFields, KnownElsewhere

\* Only the place changes, to one before the safe branch is on record.
LEMMA GotoWorking ==
  ASSUME RequestsOK, NEW r \in Request, NEW pc \in Working, Goto(r, pc),
         patch # None, Grows, Known(req[r])
  PROVE  KnownNext(req'[r])
  BY GotoFields, KnownWorking

\* A commit goes on to mark, a recovery ends.
LEMMA FailKnown ==
  ASSUME RequestsOK, NEW r \in Request, Fail(r), Grows, Known(req[r])
  PROVE  KnownNext(req'[r])
<1>1. "mark" \notin Knowing
  BY DEF Knowing, Working
<1> QED BY <1>1, EndKnown, GotoElsewhere DEF Fail

-----------------------------------------------------------------------------
(* A request that moves knows what it needs to.                            *)

\* CommitContext and Recover begin on a sealed transaction only.
LEMMA AskKnown ==
  ASSUME ServiceInv, Grows, NEW r \in Request, Known(req[r]), Ask(r)
  PROVE  KnownNext(req'[r])
<1> USE DEF ServiceInv
<1>1. req[r] \in ReqRecord
  BY DEF RequestsOK
<1>2. CASE SealCapture(r)
  <2>1. (req'[r].done = req[r].done /\ req'[r].pc = "record_patch") \/ UNCHANGED req
    BY <1>2, <1>1 DEF SealCapture, RequestsOK, ReqRecord
  <2>2. req[r] = Idle
    BY <1>2 DEF SealCapture, Asked
  <2> QED BY <1>1, <2>1, <2>2, KnownElsewhere, KnownIdle DEF Knowing, Working
<1>3. CASE VerifyStart(r)
  <2>1. req'[r].done = req[r].done /\ req'[r].pc = "checks"
    BY <1>3, <1>1 DEF VerifyStart, RequestsOK, ReqRecord
  <2> QED BY <1>1, <2>1, KnownElsewhere DEF Knowing, Working
<1>4. CASE CommitStart(r)
  <2>1. req'[r].done = req[r].done /\ req'[r].pc = "pin"
    BY <1>4, <1>1 DEF CommitStart, RequestsOK, ReqRecord
  <2>2. patch # None
    BY <1>4 DEF CommitStart, SealedPatch
  <2> QED BY <1>1, <2>1, <2>2, KnownWorking DEF Working
<1>5. CASE RecoverStart(r)
  <2>1. req'[r].done = req[r].done /\ req'[r].pc = "lease"
    BY <1>5, <1>1 DEF RecoverStart, Start, RequestsOK, ReqRecord
  <2>2. patch # None
    BY <1>5 DEF RecoverStart, SealedPatch
  <2> QED BY <1>1, <2>1, <2>2, KnownWorking DEF Working
<1>6. CASE AbortStart(r)
  <2>1. req'[r].done = req[r].done /\ req'[r].pc = "abort_check"
    BY <1>6, <1>1 DEF AbortStart, RequestsOK, ReqRecord
  <2> QED BY <1>1, <2>1, KnownElsewhere DEF Knowing, Working
<1>7. ASSUME NEW e \in Effect, PrepareRead(r, e) \/ RefreshRead(r, e)
      PROVE  KnownNext(req'[r])
  <2>1. req'[r].done = req[r].done /\ req'[r].pc \in {"persist", "rebind"}
    BY <1>7, <1>1 DEF PrepareRead, RefreshRead, RequestsOK, ReqRecord
  <2> QED BY <1>1, <2>1, KnownElsewhere DEF Knowing, Working
<1> QED
  BY <1>2, <1>3, <1>4, <1>5, <1>6, <1>7 DEF Ask

\* One step per action: what it has made sure of when it moves on.
LEMMA StepKnown ==
  ASSUME ReleaseInv, Grows, Nat \ {0} \subseteq Receipt, NEW r \in Request, Step(r)
  PROVE  KnownNext(req'[r])
<1> USE DEF ReleaseInv, ServiceInv, At
<1>0. req[r] \in ReqRecord /\ Known(req[r]) /\ RequestsOK
  BY DEF RequestsOK
<1>1. CASE \/ SealRecord(r) \/ VerifyRecord(r) \/ PreparePersist(r)
           \/ RefreshPersist(r) \/ MarkStale(r) \/ Mark(r) \/ StillUnknown(r)
           \/ Conclude(r) \/ AbortEnd(r)
  BY <1>1, EndKnown DEF SealRecord, VerifyRecord, PreparePersist, RefreshPersist,
     MarkStale, Mark, StillUnknown, Conclude, AbortEnd
<1>2. CASE \/ Finalize(r) \/ EffectUnknown(r) \/ EffectDefiniteFailure(r)
           \/ MarkEffect(r) \/ AbortCheck(r) \/ AbortBegin(r) \/ AbortEffects(r)
           \/ AbortWorkspace(r) \/ Decide(r) \/ RecordRef(r)
  <2>1. {"mark_effect", "aborting", "abort_effects", "remove", "aborted", "finalize",
         "load", "manual", "to_stale", "to_ready", "reload"} \cap Knowing = {}
    BY DEF Knowing, Working
  <2>2. CASE Finalize(r) \/ MarkEffect(r) \/ RecordRef(r)
    BY <1>0, <2>1, <2>2, EndKnown, FailKnown, GotoElsewhere
       DEF Finalize, MarkEffect, RecordRef
  <2>3. CASE EffectUnknown(r) \/ EffectDefiniteFailure(r)
    BY <1>0, <2>1, <2>3, GotoElsewhere DEF EffectUnknown, EffectDefiniteFailure
  <2>4. CASE AbortCheck(r) \/ AbortBegin(r) \/ AbortEffects(r) \/ AbortWorkspace(r)
    BY <1>0, <2>1, <2>4, EndKnown, GotoElsewhere
       DEF AbortCheck, AbortBegin, AbortEffects, AbortWorkspace
  <2>5. CASE Decide(r)
    BY <1>0, <2>1, <2>5, EndKnown, GotoElsewhere DEF Decide, Decision
  <2> QED BY <1>2, <2>2, <2>3, <2>4, <2>5
<1>3. CASE CommitPin(r) \/ Preflight(r) \/ TakeLease(r) \/ CommitBegin(r)
           \/ AddWorktree(r)
  <2>1. patch # None
    BY <1>0, <1>3 DEF CommitPin, Preflight, TakeLease, CommitBegin, AddWorktree,
                      Known, Working
  <2>2. "mark_stale" \notin Knowing
    BY DEF Knowing, Working
  <2>3. CASE CommitPin(r)
    <3>1. ASSUME req'[r] # Idle, ~Goto(r, "mark_stale"), ~End(r)
          PROVE  req'[r].done = req[r].done /\ req'[r].pc = "preflight"
      BY <2>3, <3>1, <1>0 DEF CommitPin, RequestsOK, ReqRecord
    <3>2. "preflight" \in Working
      BY DEF Working
    <3> QED BY <1>0, <2>1, <2>2, <3>1, <3>2, EndKnown, GotoElsewhere, KnownWorking, KnownIdle
  <2>4. CASE Preflight(r)
    <3>1. ASSUME ~Goto(r, "lease"), ~Goto(r, "mark_stale"), ~End(r)
          PROVE  req'[r].done = req[r].done /\ req'[r].pc = "preflight"
      BY <2>4, <3>1, <1>0 DEF Preflight, RequestsOK, ReqRecord
    <3>2. "preflight" \in Working /\ "lease" \in Working
      BY DEF Working
    <3> QED BY <1>0, <2>1, <2>2, <3>1, <3>2, EndKnown, GotoElsewhere, GotoWorking,
               KnownWorking
  <2>5. CASE TakeLease(r)
    <3>1. ASSUME ~End(r)
          PROVE  req'[r].done = req[r].done /\ req'[r].pc \in {"begin", "inspect"}
      BY <2>5, <3>1, <1>0 DEF TakeLease, RequestsOK, ReqRecord
    <3>2. {"begin", "inspect"} \subseteq Working
      BY DEF Working
    <3> QED BY <1>0, <2>1, <3>1, <3>2, EndKnown, KnownWorking
  <2>6. CASE CommitBegin(r) \/ AddWorktree(r)
    <3>1. "inspect" \in Working /\ "publish" \in Working
      BY DEF Working
    <3> QED BY <1>0, <2>1, <2>6, <3>1, EndKnown, FailKnown, GotoWorking
               DEF CommitBegin, AddWorktree
  <2> QED BY <1>3, <2>3, <2>4, <2>5, <2>6
<1>4. CASE Inspect(r)
  <2>1. patch # None
    BY <1>0, <1>4 DEF Inspect, Known, Working
  <2>2. "materialize" \in Working /\ "reload" \notin Knowing
    BY DEF Working, Knowing
  <2>3. ASSUME intRef # None, intRef = patch,
               req' = [req EXCEPT ![r].pc = "record_ref", ![r].exists = TRUE]
        PROVE  KnownNext(req'[r])
    <3>1. req'[r].done = req[r].done /\ req'[r].pc = "record_ref"
      BY <2>3, <1>0 DEF RequestsOK, ReqRecord
    <3>2. req[r].done \subseteq Effect
      BY <1>0 DEF ReqRecord
    <3> QED BY <1>0, <2>3, <3>1, <3>2 DEF Known, KnownNext, Grows, Working
  <2> QED BY <1>0, <1>4, <2>1, <2>2, <2>3, FailKnown, GotoWorking, GotoElsewhere
             DEF Inspect
<1>5. CASE PublishRef(r)
  <2>1. patch # None
    BY <1>0, <1>5 DEF PublishRef, Known, Working
  <2>2. ASSUME intRef' = patch, patch' = patch, Goto(r, "record_ref")
        PROVE  KnownNext(req'[r])
    <3>1. req'[r].done = req[r].done /\ req'[r].pc = "record_ref"
      BY <2>2, <1>0, GotoFields
    <3>2. req[r].done \subseteq Effect
      BY <1>0 DEF ReqRecord
    <3> QED BY <1>0, <2>1, <2>2, <3>1, <3>2 DEF Known, KnownNext, Grows, Working
  <2> QED BY <1>0, <1>5, <2>1, <2>2, FailKnown DEF PublishRef, ledgerVars
<1>6. CASE VerifyChecks(r) \/ ReloadEffects(r) \/ Rearm(r) \/ RecordFound(r)
  <2>1. {"record_verification", "query", "mark_effect"} \cap Knowing = {}
    BY DEF Knowing, Working
  <2>2. ASSUME ~End(r), ~Goto(r, "mark_effect")
        PROVE  req'[r].done = req[r].done /\ req'[r].pc \in {"record_verification", "query"}
    <3>1. CASE VerifyChecks(r)
      BY <1>0, <3>1 DEF VerifyChecks, RequestsOK, ReqRecord
    <3>2. CASE ReloadEffects(r)
      BY <1>0, <3>2 DEF ReloadEffects, RequestsOK, ReqRecord
    <3>3. CASE Rearm(r)
      BY <1>0, <2>2, <3>3 DEF Rearm, RequestsOK, ReqRecord
    <3>4. CASE RecordFound(r)
      BY <1>0, <2>2, <3>4 DEF RecordFound, RequestsOK, ReqRecord
    <3> QED BY <1>6, <3>1, <3>2, <3>3, <3>4
  <2> QED BY <1>0, <2>1, <2>2, EndKnown, GotoElsewhere, KnownElsewhere
<1>7. CASE LoadEffects(r)
  <2> DEFINE done == {e \in Effect : effects[e].status = "committed"}
  <2>1. req'[r].done = done /\ req'[r].pc = "next"
    BY <1>0, <1>7 DEF LoadEffects, RequestsOK, ReqRecord
  <2>2. \A d \in done : receipts[d] # None
    BY DEF LedgerInv, CommittedHasEvidence
  <2> QED BY <2>1, <2>2 DEF KnownNext, Grows, Working
<1>8. CASE NextEffect(r)
  <2> DEFINE e == First(req[r].todo)
  <2>1. "finalize" \notin Knowing
    BY DEF Knowing, Working
  <2>2. ASSUME ~Goto(r, "finalize"), ~Fail(r)
        PROVE  /\ req[r].todo # {}
               /\ DependsOn[e] \subseteq req[r].done
               /\ req'[r].done = req[r].done /\ req'[r].pc = "check"
               /\ req'[r].effect = e
    BY <1>0, <1>8, <2>2 DEF NextEffect, NextEffectOK, RequestsOK, ReqRecord
  <2>3. ASSUME ~Goto(r, "finalize"), ~Fail(r) PROVE KnownNext(req'[r])
    <3>1. req[r].done \subseteq Effect
      BY <1>0 DEF ReqRecord
    <3> HIDE DEF e
    <3> QED BY <1>0, <2>2, <2>3, <3>1 DEF Known, KnownNext, Grows, Working
  <2> QED BY <1>0, <2>1, <2>3, FailKnown, GotoElsewhere
<1>9. CASE CheckProvider(r)
  <2>1. {"unknown", "definite"} \cap Knowing = {}
    BY DEF Knowing, Working
  <2>2. req[r].pc = "check" /\ req[r].effect \in Effect
    BY <1>9 DEF CheckProvider, RequestsOK, LocalOK
  <2>3. req[r].done \subseteq Effect
    BY <1>0 DEF ReqRecord
  <2>4. ASSUME Goto(r, "post") PROVE KnownNext(req'[r])
    BY <1>0, <2>2, <2>3, <2>4, GotoFields DEF Known, KnownNext, Grows, Working
  <2>5. ASSUME Found(req[r].effect),
               req' = [req EXCEPT ![r].pc = "receipt",
                                  ![r].answer = Observed(req[r].effect)]
        PROVE  KnownNext(req'[r])
    <3>1. /\ req'[r].done = req[r].done /\ req'[r].pc = "receipt"
          /\ req'[r].effect = req[r].effect
      BY <1>0, <2>5 DEF RequestsOK, ReqRecord
    <3> QED BY <1>0, <2>2, <2>3, <2>5, <3>1 DEF Known, KnownNext, Grows, Working, Found
  <2> QED BY <1>0, <1>9, <2>1, <2>4, <2>5, GotoElsewhere DEF CheckProvider
<1>10. CASE AskProvider(r)
  <2>1. {"still_unknown", "manual", "rearm"} \cap Knowing = {}
    BY DEF Knowing, Working
  <2>2. req[r].effect \in Effect
    BY <1>10 DEF AskProvider, RequestsOK, LocalOK
  <2>3. ASSUME Found(req[r].effect),
               req' = [req EXCEPT ![r].pc = "found",
                                  ![r].answer = Observed(req[r].effect)]
        PROVE  KnownNext(req'[r])
    <3>1. /\ req'[r].done = req[r].done /\ req'[r].pc = "found"
          /\ req'[r].effect = req[r].effect
      BY <1>0, <2>3 DEF RequestsOK, ReqRecord
    <3>2. req[r].done \subseteq Effect
      BY <1>0 DEF ReqRecord
    <3> QED BY <1>0, <2>2, <2>3, <3>1, <3>2 DEF Known, KnownNext, Grows, Working, Found
  <2> QED BY <1>0, <1>10, <2>1, <2>3, GotoElsewhere DEF AskProvider
<1>11. CASE QueryNext(r)
  <2>1. {"decide", "ask"} \cap Knowing = {}
    BY DEF Knowing, Working
  <2>2. ASSUME ~Goto(r, "decide"), ~End(r)
        PROVE  req'[r].done = req[r].done /\ req'[r].pc = "ask"
    BY <1>0, <1>11, <2>2 DEF QueryNext, RequestsOK, ReqRecord
  <2> QED BY <1>0, <2>1, <2>2, EndKnown, GotoElsewhere, KnownElsewhere
<1>12. CASE PostEffect(r)
  <2>1. {"unknown", "definite"} \cap Knowing = {}
    BY DEF Knowing, Working
  <2>2. req[r].effect \in Effect /\ req[r].done \subseteq Effect
    BY <1>0, PostAdds, <1>12 DEF ReqRecord
  <2>3. ASSUME copies' = [copies EXCEPT ![req[r].effect] = @ + 1],
               req' = [req EXCEPT ![r].pc = "receipt",
                                  ![r].answer = copies[req[r].effect] + 1]
        PROVE  KnownNext(req'[r])
    <3>1. /\ req'[r].done = req[r].done /\ req'[r].pc = "receipt"
          /\ req'[r].effect = req[r].effect
      BY <1>0, <2>3 DEF RequestsOK, ReqRecord
    <3>2. copies'[req[r].effect] > 0
      BY <2>2, <2>3 DEF WorldOK
    <3> QED BY <1>0, <2>2, <3>1, <3>2 DEF Known, KnownNext, Grows, Working
  <2> QED BY <1>0, <1>12, <2>1, <2>3, GotoElsewhere DEF PostEffect
<1>13. CASE RecordReceipt(r)
  <2> DEFINE e == req[r].effect
  <2>1. "mark_effect" \notin Knowing
    BY DEF Knowing, Working
  <2>2. ASSUME RecordEffectCommitted(e, req[r].token, req[r].answer),
               req' = [req EXCEPT ![r].pc = "next", ![r].effect = None,
                              ![r].answer = None, ![r].todo = @ \ {e},
                              ![r].done = @ \cup {e}]
        PROVE  KnownNext(req'[r])
    <3>1. e \in Effect /\ req[r].answer \in Nat \ {0}
      BY <1>13 DEF RecordReceipt, RequestsOK, LocalOK
    <3>2. req'[r].done = req[r].done \cup {e} /\ req'[r].pc = "next"
      BY <1>0, <2>2 DEF RequestsOK, ReqRecord
    <3>3. receipts'[e] = req[r].answer
      BY <2>2, <3>1 DEF RecordEffectCommitted, LedgerInv, LedgerTypeOK
    <3>4. req[r].answer # None
      BY <3>1, NoneAssumption
    <3>5. req[r].done \subseteq Effect
      BY <1>0 DEF ReqRecord
    <3> HIDE DEF e
    <3> QED BY <1>0, <3>2, <3>3, <3>4, <3>5 DEF Known, KnownNext, Grows, Working
  <2> QED BY <1>0, <1>13, <2>1, <2>2, GotoElsewhere DEF RecordReceipt
<1> QED
  BY <1>1, <1>2, <1>3, <1>4, <1>5, <1>6, <1>7, <1>8, <1>9, <1>10, <1>11,
     <1>12, <1>13, Step(r) DEF Step

\* Every request keeps what it knows, whoever moves.
LEMMA NextKnown ==
  ASSUME ReleaseInv, Nat \ {0} \subseteq Receipt, [Next]_vars, NEW s \in Request
  PROVE  Known(req[s])'
<1> USE DEF ReleaseInv, ServiceInv
<1>1. Grows
  BY StepGrows
<1>2. req[s] \in ReqRecord /\ LocalOK(req[s]) /\ Known(req[s]) /\ RequestsOK
  BY DEF RequestsOK
<1>3. CASE req'[s] = req[s]
  <2>1. KnownNext(req[s])
    BY <1>1, <1>2, StillKnown
  <2> QED BY <1>3, <2>1 DEF Known, KnownNext
<1>4. ASSUME KnownNext(req'[s]) PROVE Known(req[s])'
  BY <1>4 DEF Known, KnownNext
<1>5. CASE Crash
  <2>1. req'[s] = Idle
    BY <1>5 DEF Crash
  <2> QED BY <1>4, <2>1, KnownIdle
<1>6. ASSUME NEW r \in Request, Ask(r) \/ Step(r), req'[s] # req[s]
      PROVE  Known(req[s])'
  <2>1. r = s
    BY <1>2, <1>6, OthersStay
  <2> QED BY <1>1, <1>2, <1>4, <1>6, <2>1, AskKnown, StepKnown
<1>7. CASE CreateTransaction \/ Approve \/ (Environment /\ ~Crash) \/ UNCHANGED vars
  <2>1. UNCHANGED req
    BY <1>7 DEF CreateTransaction, Approve, Environment, Edit, MoveSource, LeaseTime,
                ChangeProvider, LandLate, vars
  <2> QED BY <2>1, <1>3
<1> QED
  BY <1>3, <1>5, <1>6, <1>7 DEF Next

-----------------------------------------------------------------------------
(* What is on record happened.                                             *)

\* No method gives a committed transaction another effect.
LEMMA CommittedStaysEvidenced ==
  ASSUME LedgerInv, [LedgerNext]_ledgerVars,
         status = "committed" => \A e \in Effect : Exists(e) => receipts[e] # None,
         status' = "committed", NEW f \in Effect, Exists(f)'
  PROVE  receipts'[f] # None
<1> USE DEF LedgerInv, LedgerTypeOK
<1>1. EvidenceKept
  BY StepKeepsEvidence
<1>2. CASE status = "committed" /\ Exists(f)
  BY <1>1, <1>2 DEF EvidenceKept
<1>3. CASE FinalizeTransactionCommit
  BY <1>3 DEF FinalizeTransactionCommit, FinalizeOK, CommittedHasEvidence, Exists
<1>4. ASSUME status = "committed", ~Exists(f), LedgerNext PROVE FALSE
  <2>1. \/ UNCHANGED effects
        \/ \E e \in Effect, next \in EffectState : Exists(e) /\ SetEffectStatus(e, next)
        \/ \E e \in Effect :
             Exists(e) /\ effects' = [effects EXCEPT ![e].status = "committed"]
    BY <1>4 DEF LedgerNext, Create, NamedTransition, Transition,
       MarkNeedsReconciliation, RecordPatch, RecordPatchOK, RecordMaterializedRef,
       RecordVerification, ApproveWithEvidence, BeginCommit, AcquireLease,
       FinalizeTransactionCommit, ExpireLease, DeleteExpiredLeases,
       AbortPreparedEffects, CreateExternalEffect, CreateExternalEffectOK,
       RefreshExternalEffect, RefreshExternalEffectOK, BeginEffectAttempt,
       BeginEffectAttemptOK, CommitPhase, MarkEffectUnknown,
       MarkEffectDefiniteFailure, RearmEffect, EffectState,
       RecordEffectCommitted, RecordEffectCommittedOK
  <2> QED BY <1>4, <2>1 DEF Exists, SetEffectStatus
<1>5. CASE status # "committed" /\ ~FinalizeTransactionCommit /\ LedgerNext
  <2>1. status' # "committed"
    BY <1>5 DEF LedgerNext, Create, NamedTransition, Transition,
       MarkNeedsReconciliation, RecordPatch, RecordMaterializedRef,
       RecordVerification, ApproveWithEvidence, BeginCommit, AcquireLease,
       ExpireLease, DeleteExpiredLeases, AbortPreparedEffects, CreateExternalEffect,
       RefreshExternalEffect, BeginEffectAttempt, MarkEffectUnknown,
       MarkEffectDefiniteFailure, RearmEffect, RecordEffectCommitted, SetEffectStatus
  <2> QED BY <2>1
<1>6. CASE UNCHANGED ledgerVars
  BY <1>6, <1>2 DEF ledgerVars, Exists
<1> QED
  BY <1>2, <1>3, <1>4, <1>5, <1>6

\* The steps that put evidence on record.
LEMMA RecordStep ==
  ASSUME [Next]_vars
  PROVE  \/ UNCHANGED <<receipts, materialized>>
         \/ \E r \in Request : RecordReceipt(r) \/ RecordFound(r) \/ RecordRef(r)
<1> USE DEF TryTransition, TryMark, Transition, ledgerVars
<1>1. CASE CreateTransaction \/ Approve \/ UNCHANGED vars
  BY <1>1 DEF CreateTransaction, Create, Approve, ApproveWithEvidence, vars
<1>2. CASE Environment
  BY <1>2 DEF Environment, Edit, MoveSource, Crash, LeaseTime, ExpireLease,
     DeleteExpiredLeases, ChangeProvider, LandLate
<1>3. ASSUME NEW r \in Request, Ask(r) PROVE UNCHANGED <<receipts, materialized>>
  BY <1>3 DEF Ask, SealCapture, VerifyStart, CommitStart, RecoverStart,
     MarkNeedsReconciliation, AbortStart, PrepareRead, RefreshRead
<1>4. ASSUME NEW r \in Request, Step(r),
             ~RecordReceipt(r), ~RecordFound(r), ~RecordRef(r)
      PROVE  UNCHANGED <<receipts, materialized>>
  BY <1>4 DEF Step, SealRecord, RecordPatch, VerifyChecks, VerifyRecord,
     RecordVerification, PreparePersist, CreateExternalEffect, RefreshPersist,
     RefreshExternalEffect, CommitPin, Preflight, MarkStale, TakeLease, AcquireLease,
     CommitBegin, BeginCommit, Inspect, AddWorktree, PublishRef, LoadEffects,
     NextEffect, BeginEffectAttempt, CheckProvider, PostEffect, EffectUnknown,
     MarkEffectUnknown, EffectDefiniteFailure, MarkEffectDefiniteFailure, MarkEffect,
     Mark, Finalize, FinalizeTransactionCommit, ReloadEffects, QueryNext, AskProvider,
     StillUnknown, Rearm, RearmEffect, Decide, Conclude, AbortCheck, AbortBegin,
     AbortEffects, AbortPreparedEffects, AbortWorkspace, AbortEnd, SetEffectStatus
<1> QED
  BY <1>1, <1>2, <1>3, <1>4 DEF Next

\* A receipt is recorded of an application seen, a ref of a branch seen.
LEMMA NextEvidenced ==
  ASSUME ReleaseInv, Nat \ {0} \subseteq Receipt, [Next]_vars PROVE Evidenced'
<1> USE DEF ReleaseInv, ServiceInv
<1>1. Grows
  BY StepGrows
<1>2. ASSUME NEW e \in Effect, receipts'[e] # None PROVE copies'[e] > 0
  <2>1. CASE receipts[e] # None
    BY <1>1, <2>1 DEF Grows, Evidenced
  <2>2. CASE UNCHANGED receipts
    BY <1>2, <2>1, <2>2
  <2>3. ASSUME NEW r \in Request, RecordReceipt(r) \/ RecordFound(r),
               receipts[e] = None
        PROVE  copies'[e] > 0
    <3>1. req[r].pc \in {"receipt", "found"}
      BY <2>3 DEF RecordReceipt, RecordFound, At
    <3>2. req[r].effect = e
      BY <1>2, <2>3 DEF RecordReceipt, RecordFound, RecordEffectCommitted, LedgerInv,
                        LedgerTypeOK, ledgerVars
    <3> QED BY <1>1, <3>1, <3>2 DEF Known, Grows
  <2>4. ASSUME NEW r \in Request, RecordRef(r) PROVE UNCHANGED receipts
    BY <2>4 DEF RecordRef, RecordMaterializedRef, ledgerVars
  <2> QED BY <2>1, <2>2, <2>3, <2>4, RecordStep
<1>3. ASSUME materialized' # None PROVE intRef' # None /\ intRef' = patch'
  <2>1. CASE materialized # None
    BY <1>1, <2>1 DEF Grows, Evidenced
  <2>2. CASE UNCHANGED materialized
    BY <1>3, <2>1, <2>2
  <2>3. ASSUME NEW r \in Request, RecordRef(r), materialized = None
        PROVE  intRef' # None /\ intRef' = patch'
    BY <1>1, <2>3 DEF RecordRef, At, Known, Grows
  <2>4. ASSUME NEW r \in Request, RecordReceipt(r) \/ RecordFound(r)
        PROVE  UNCHANGED materialized
    BY <2>4 DEF RecordReceipt, RecordFound, RecordEffectCommitted, ledgerVars
  <2> QED BY <2>1, <2>2, <2>3, <2>4, RecordStep
<1>4. ASSUME status' = "committed", NEW e \in Effect, Exists(e)'
      PROVE  receipts'[e] # None
  BY <1>4, NextCallsLedger, CommittedStaysEvidenced DEF Evidenced
<1> QED
  BY <1>2, <1>3, <1>4 DEF Evidenced

\* A call is sent only for an effect whose dependencies are done.
LEMMA NextOrdered ==
  ASSUME ReleaseInv, Nat \ {0} \subseteq Receipt, [Next]_vars PROVE DependencyOrder'
<1> USE DEF ReleaseInv, ServiceInv
<1> SUFFICES ASSUME NEW e \in Effect, copies'[e] + late'[e] > 0,
                    NEW d \in DependsOn[e]
             PROVE  copies'[d] > 0 /\ receipts'[d] # None
  BY DEF DependencyOrder
<1>1. Grows /\ d \in Effect
  BY StepGrows, EffectAssumption
<1>2. CASE copies[e] + late[e] > 0
  BY <1>1, <1>2 DEF DependencyOrder, Grows
<1>3. ASSUME NEW r \in Request, PostEffect(r), ~(copies[e] + late[e] > 0)
      PROVE  copies[d] > 0 /\ receipts[d] # None
  <2>1. req[r].pc = "post" /\ req[r].effect = e
    BY <1>3, PostAdds DEF WorldOK
  <2>2. d \in req[r].done
    BY <2>1 DEF Known
  <2> QED BY <1>1, <2>2 DEF Known, Evidenced
<1>4. ASSUME NEW f \in Effect, LandLate(f), ~(copies[e] + late[e] > 0) PROVE FALSE
  BY <1>4 DEF LandLate, WorldOK
<1>5. ASSUME NEW r \in Request, PublishRef(r) PROVE UNCHANGED <<copies, late>>
  BY <1>5 DEF PublishRef
<1> QED
  BY <1>1, <1>2, <1>3, <1>4, <1>5, WorldStep DEF Grows

-----------------------------------------------------------------------------
(* The theorems.                                                           *)

\* Before the transaction is created.
LEMMA ReleaseInit == Init => ReleaseInv
<1> SUFFICES ASSUME Init PROVE ReleaseInv
  OBVIOUS
<1>1. ServiceInv
  BY ServiceInit
<1>2. \A r \in Request : Known(req[r])
  BY DEF Init, Known, Idle, Working
<1>3. Evidenced /\ DependencyOrder
  BY EffectAssumption DEF Init, LedgerInit, Evidenced, DependencyOrder
<1> QED BY <1>1, <1>2, <1>3 DEF ReleaseInv

\* The invariant is inductive.
LEMMA ReleaseNext ==
  ASSUME ReleaseInv, Nat \ {0} \subseteq Receipt, [Next]_vars PROVE ReleaseInv'
<1>1. ServiceInv'
  BY ServiceNext DEF ReleaseInv
<1> QED BY <1>1, NextKnown, NextEvidenced, NextOrdered DEF ReleaseInv

\* commitExternalEffects and reconcileExternalEffects release an effect only when
\* its dependencies are out and have their receipts, whatever answers are lost,
\* calls land late, requests run at once or daemons die.
THEOREM DependenciesFirst ==
  ASSUME Nat \ {0} \subseteq Receipt PROVE Spec => []DependencyOrder
<1>1. ReleaseInv => DependencyOrder
  BY DEF ReleaseInv
<1>2. ReleaseInv /\ [Next]_vars => ReleaseInv'
  BY ReleaseNext
<1> QED
  BY <1>1, <1>2, ReleaseInit, PTL DEF Spec

\* FinalizeTransactionCommit reports a transaction as committed only when the safe
\* branch holds the sealed tree and every effect was applied and has its
\* receipt, whatever went wrong on the way.
THEOREM CommittedMeansReleased ==
  ASSUME Nat \ {0} \subseteq Receipt PROVE Spec => []CommittedIsReleased
<1>1. ReleaseInv => CommittedIsReleased
  BY DEF ReleaseInv, ServiceInv, LedgerInv, CommittedHasEvidence, Evidenced,
         CommittedIsReleased
<1>2. ReleaseInv /\ [Next]_vars => ReleaseInv'
  BY ReleaseNext
<1> QED
  BY <1>1, <1>2, ReleaseInit, PTL DEF Spec

-----------------------------------------------------------------------------
(* Fencing tokens.                                                         *)

\* The lease's counter is never behind a token somebody holds: cleanup starts it again
\* only when no request is in progress.
TokenInv ==
  /\ ServiceInv /\ TokenExclusive
  /\ \A r \in Request : req[r].token <= lease.token

\* A request leaves the lease alone, or takes it.
LEMMA StepLease ==
  ASSUME NEW r \in Request, Ask(r) \/ Step(r)
  PROVE  lease' = lease \/ AcquireLease(owner)
<1> USE DEF ledgerVars
<1>1. CASE Ask(r)
  BY <1>1 DEF Ask, SealCapture, VerifyStart, CommitStart, RecoverStart, AbortStart,
     PrepareRead, RefreshRead, MarkNeedsReconciliation, Transition
<1>2. CASE Step(r)
  <2>1. CASE \/ SealRecord(r) \/ VerifyChecks(r) \/ VerifyRecord(r) \/ PreparePersist(r)
             \/ RefreshPersist(r) \/ MarkStale(r)
    BY <2>1 DEF SealRecord, VerifyChecks, VerifyRecord, PreparePersist, RefreshPersist,
       MarkStale, RecordPatch, RecordVerification, CreateExternalEffect,
       RefreshExternalEffect, TryTransition, Transition
  <2>2. CASE \/ CommitPin(r) \/ Preflight(r) \/ TakeLease(r) \/ CommitBegin(r)
             \/ Inspect(r) \/ AddWorktree(r) \/ PublishRef(r) \/ RecordRef(r)
             \/ Finalize(r) \/ Mark(r)
    BY <2>2 DEF CommitPin, Preflight, TakeLease, CommitBegin, Inspect, AddWorktree,
       PublishRef, RecordRef, Finalize, Mark, BeginCommit, RecordMaterializedRef,
       FinalizeTransactionCommit, TryMark, TryTransition, Transition
  <2>3. CASE \/ LoadEffects(r) \/ NextEffect(r) \/ CheckProvider(r) \/ PostEffect(r)
             \/ RecordReceipt(r) \/ EffectUnknown(r) \/ EffectDefiniteFailure(r)
             \/ MarkEffect(r)
    BY <2>3 DEF LoadEffects, NextEffect, CheckProvider, PostEffect, RecordReceipt,
       EffectUnknown, EffectDefiniteFailure, MarkEffect, BeginEffectAttempt,
       RecordEffectCommitted, MarkEffectUnknown, MarkEffectDefiniteFailure,
       SetEffectStatus, TryMark, TryTransition, Transition
  <2>4. CASE \/ ReloadEffects(r) \/ QueryNext(r) \/ AskProvider(r) \/ StillUnknown(r)
             \/ Rearm(r) \/ RecordFound(r) \/ Decide(r) \/ Conclude(r)
    BY <2>4 DEF ReloadEffects, QueryNext, AskProvider, StillUnknown, Rearm, RecordFound,
       Decide, Conclude, BeginEffectAttempt, MarkEffectUnknown, RearmEffect,
       RecordEffectCommitted, SetEffectStatus, TryTransition, Transition
  <2>5. CASE \/ AbortCheck(r) \/ AbortBegin(r) \/ AbortEffects(r) \/ AbortWorkspace(r)
             \/ AbortEnd(r)
    BY <2>5 DEF AbortCheck, AbortBegin, AbortEffects, AbortWorkspace, AbortEnd,
       AbortPreparedEffects, TryTransition, Transition
  <2> QED BY <1>2, <2>1, <2>2, <2>3, <2>4, <2>5 DEF Step
<1> QED BY <1>1, <1>2

\* A new token is larger than every token that is held.
LEMMA NextKeepsTokensApart ==
  ASSUME TokenInv, Nat \ {0} \subseteq Receipt, [Next]_vars PROVE TokenInv'
<1> USE DEF TokenInv, TokenExclusive
<1>1. ServiceInv' /\ RequestsOK
  BY ServiceNext DEF ServiceInv
<1>2. lease.token \in Nat /\ \A r \in Request : req[r].token \in Nat
  BY DEF ServiceInv, LedgerInv, LedgerTypeOK, Lease, RequestsOK, ReqRecord
<1>3. CASE lease'.token = lease.token /\ UNCHANGED req
  BY <1>1, <1>3
<1>4. CASE CreateTransaction \/ Approve \/ UNCHANGED vars
  BY <1>3, <1>4 DEF CreateTransaction, Create, Approve, ApproveWithEvidence, vars, ledgerVars
<1>5. CASE Environment
  <2>1. CASE Crash
    BY <1>1, <1>2, <2>1 DEF Crash, ledgerVars, Idle
  <2>2. CASE LeaseTime
    <3>1. CASE ExpireLease
      BY <1>3, <2>2, <3>1 DEF LeaseTime, ExpireLease, ServiceInv, LedgerInv,
                              LedgerTypeOK, Lease
    <3>2. CASE \A r \in Request : req[r] = Idle
      <4>1. lease'.token \in Nat
        BY <1>1 DEF ServiceInv, LedgerInv, LedgerTypeOK, Lease
      <4> QED BY <1>1, <2>2, <3>2, <4>1 DEF LeaseTime, Idle
    <3> QED BY <2>2, <3>1, <3>2 DEF LeaseTime
  <2>3. CASE \/ \E tree \in Tree : Edit(tree)
             \/ MoveSource \/ \E e \in Effect : ChangeProvider(e) \/ LandLate(e)
    BY <1>3, <2>3 DEF Edit, MoveSource, ChangeProvider, LandLate, ledgerVars
  <2> QED BY <1>5, <2>1, <2>2, <2>3 DEF Environment
<1>6. ASSUME NEW r \in Request, Ask(r) \/ Step(r) PROVE TokenInv'
  <2>1. \A s \in Request : s # r => req'[s] = req[s]
    BY <1>1, <1>6, OthersStay
  <2>2. CASE AcquireLease(owner)
    <3>1. lease'.token = lease.token + 1
      BY <2>2 DEF AcquireLease
    <3>2. req'[r].token \in {req[r].token, 0, lease.token + 1}
      BY <1>1, <1>6, TokenMoves
    <3> QED BY <1>1, <1>2, <2>1, <3>1, <3>2
  <2>3. CASE lease' = lease /\ ~AcquireLease(owner)
    <3>1. req'[r].token \in {req[r].token, 0}
      BY <1>1, <1>6, <2>3, TokenMoves
    <3> QED BY <1>1, <1>2, <2>1, <2>3, <3>1
  <2> QED BY <1>6, <2>2, <2>3, StepLease
<1> QED BY <1>4, <1>5, <1>6 DEF Next

\* However requests, crashes, expired leases and lease cleanup come: no two requests in
\* progress are given the same fencing token, though cleanup starts the counter again.
THEOREM TokensAreExclusive ==
  ASSUME Nat \ {0} \subseteq Receipt PROVE Spec => []TokenExclusive
<1>1. Init => TokenInv
  <2>1. Init => TokenExclusive /\ \A r \in Request : req[r].token <= lease.token
    BY DEF Init, LedgerInit, NoLease, Idle, TokenExclusive
  <2> QED BY <2>1, ServiceInit DEF TokenInv
<1>2. TokenInv /\ [Next]_vars => TokenInv'
  BY NextKeepsTokensApart
<1>3. TokenInv => TokenExclusive
  BY DEF TokenInv
<1> QED BY <1>1, <1>2, <1>3, PTL DEF Spec

-----------------------------------------------------------------------------
(* One request after the other.                                            *)

\* The requests of a transaction do not overlap, and a provider applies a call
\* while its answer is awaited, if at all, and says so.
OneAtATime ==
  /\ \A r, q \in Request : r = q
  /\ "late" \notin Faults /\ "server_error" \notin Faults
  /\ Nat \ {0} \subseteq Receipt

\* States of an effect that nothing was sent for, and those in which it may
\* have been applied.
Settled == {"absent", "verified", "aborted"}
Open == {"unknown", "committing"}

\* Only a transaction that is being released, or was, has effects in doubt.
Quiet == status \notin Released => \A e \in Effect : effects[e].status \in Settled

\* A receipt and the status of its effect say the same.
ReceiptsTold == \A e \in Effect : receipts[e] # None => effects[e].status = "committed"

\* The ends of a transaction are the ends of its effects.
Ended ==
  /\ status = "committed" => \A e \in Effect : effects[e].status \in {"absent", "committed"}
  /\ status = "aborted" => \A e \in Effect : effects[e].status \in {"absent", "aborted"}
  /\ \A e \in Effect : effects[e].status = "aborted" => status \in {"aborting", "aborted"}

\* An effect is created after the effects it depends on.
DependenciesCreated ==
  /\ \A e \in Effect : Exists(e) => \A d \in DependsOn[e] : Exists(d)
  /\ ~DependencyCycle

\* What was verified is there as it was until the transaction is sealed anew.
VerifiedAsIs ==
  status \in {"ready", "committing", "needs_reconciliation"} =>
    verification.material = VerificationMaterial

Outcome1 == Quiet /\ ReceiptsTold /\ Ended
Outcome2 == DependenciesCreated /\ VerifiedAsIs
Outcome3 == NoForgottenRelease /\ AtMostOnce /\ \A e \in Effect : late[e] = 0

\* From BeginCommit, or the start of a recovery, to the end of the request.
Releasing ==
  {"inspect", "materialize", "publish", "record_ref", "load", "next", "check", "post",
   "receipt", "unknown", "definite", "mark_effect", "mark", "finalize", "reload",
   "query", "ask", "still_unknown", "rearm", "found", "decide", "manual", "to_ready",
   "to_stale"}
Asking == {"ask", "still_unknown", "rearm", "found"}

\* What a request in progress can rely on while nobody else is at work.
PhaseKept(q) ==
  /\ q.pc \in Releasing \/ (q.pc = "lease" /\ q.op # "commit") => CommitPhase
  /\ q.pc \in {"pin", "preflight"} => q.op = "commit"
AttemptKept(q) ==
  /\ q.pc \in {"check", "post", "receipt", "unknown", "definite"} =>
       effects[q.effect].status = "committing"
  /\ q.pc \in {"check", "post", "definite", "rearm"} => copies[q.effect] = 0
QueryKept(q) ==
  /\ q.pc \in Asking => effects[q.effect].status \in Open
  /\ q.pc \in Asking \cup {"query", "decide"} =>
       /\ \A e \in Effect : effects[e].status \in Open => e \in q.todo
       /\ ~q.any => \A e \in Effect : effects[e].status # "committed"
  /\ q.pc = "decide" => q.todo = {}
  /\ q.pc \in {"to_ready", "to_stale"} =>
       \A e \in Effect : effects[e].status \in Settled
RestKept(q) ==
  /\ q.pc \in {"checks", "record_verification"} => q.digest = VerificationMaterial
  /\ q.pc \in {"remove", "aborted"} => \A e \in Effect : effects[e].status # "verified"

Kept(q) == PhaseKept(q) /\ AttemptKept(q) /\ QueryKept(q) /\ RestKept(q)

World == Outcome1 /\ Outcome2 /\ Outcome3

OutcomeInv ==
  /\ ServiceInv /\ World
  /\ \A r \in Request : Kept(req[r])

\* Types the steps below need.
LEMMA OutcomeTypes ==
  ASSUME ServiceInv
  PROVE  /\ effects \in [Effect -> EffectRow] /\ copies \in [Effect -> Nat]
         /\ receipts \in [Effect -> Receipt \cup {None}]
         /\ req \in [Request -> ReqRecord] /\ status \in Reached
  BY DEF ServiceInv, LedgerInv, LedgerTypeOK, WorldOK, RequestsOK

\* What nobody touches stays true.
LEMMA WorldStays ==
  ASSUME World, UNCHANGED <<status, patch, verification, effects, receipts, copies, late>>
  PROVE  World'
  BY DEF World, Outcome1, Outcome2, Outcome3, Quiet, ReceiptsTold, Ended, DependenciesCreated,
         VerifiedAsIs, NoForgottenRelease, AtMostOnce, VerificationMaterial, Exists, Created,
         DependencyCycle

\* A method that moves the status.
LEMMA StatusMoves ==
  ASSUME World, UNCHANGED <<patch, verification, effects, receipts, copies, late>>,
         status' \notin Released => \A e \in Effect : effects[e].status \in Settled,
         status' = "committed" =>
           \A e \in Effect : effects[e].status \in {"absent", "committed"},
         status' = "aborted" =>
           \A e \in Effect : effects[e].status \in {"absent", "aborted"},
         status \in {"aborting", "aborted"} => status' \in {"aborting", "aborted"},
         status' \in {"ready", "committing", "needs_reconciliation"} =>
           verification.material = VerificationMaterial
  PROVE  World'
<1>1. Outcome1'
  BY DEF World, Outcome1, Quiet, ReceiptsTold, Ended
<1>2. Outcome2'
  BY DEF World, Outcome2, DependenciesCreated, VerifiedAsIs, VerificationMaterial, Exists,
         Created, DependencyCycle
<1>3. Outcome3'
  BY DEF World, Outcome3, NoForgottenRelease, AtMostOnce
<1> QED BY <1>1, <1>2, <1>3 DEF World

\* An effect is there or not, and that is all its dependencies depend on.
LEMMA CreatedStays ==
  ASSUME DependenciesCreated, \A f \in Effect : Exists(f)' <=> Exists(f)
  PROVE  DependenciesCreated'
<1>1. Created' = Created
  BY DEF Created
<1>2. DependencyCycle' <=> DependencyCycle
  BY <1>1 DEF DependencyCycle
<1>3. \A e \in Effect : Exists(e)' => \A d \in DependsOn[e] : Exists(d)'
  BY EffectAssumption DEF DependenciesCreated
<1> QED BY <1>2, <1>3 DEF DependenciesCreated

\* One effect of a transaction that is being released moves.
LEMMA EffectMoves ==
  ASSUME ServiceInv, World, CommitPhase, NEW e \in Effect, Exists(e),
         NEW next \in {"verified", "committing", "unknown", "committed"},
         effects' = [effects EXCEPT ![e].status = next],
         UNCHANGED <<status, patch, verification, copies, late>>,
         \A f \in Effect : f # e => receipts'[f] = receipts[f],
         receipts'[e] # None => next = "committed",
         copies[e] > 0 => next # "verified"
  PROVE  World'
<1> USE OutcomeTypes
<1>1. /\ effects'[e].status = next /\ effects'[e].doc = effects[e].doc
      /\ \A f \in Effect : f # e => effects'[f] = effects[f]
  BY DEF EffectRow
<1>2. /\ status \in Released /\ status \notin {"committed", "aborting", "aborted"}
      /\ effects[e].status \notin {"absent", "aborted"}
  BY DEF CommitPhase, Released, World, Outcome1, Ended, Exists
<1>3. Outcome1'
  BY <1>1, <1>2 DEF World, Outcome1, Quiet, ReceiptsTold, Ended
<1>4. VerificationMaterial' = VerificationMaterial
  BY <1>1, <1>2 DEF VerificationMaterial
<1>5. \A f \in Effect : Exists(f)' <=> Exists(f)
  BY <1>1, <1>2 DEF Exists
<1>6. Outcome2'
  BY <1>4, <1>5, CreatedStays DEF World, Outcome2, VerifiedAsIs
<1>7. Outcome3'
  BY <1>1, <1>2 DEF World, Outcome3, NoForgottenRelease, AtMostOnce
<1> QED BY <1>3, <1>6, <1>7 DEF World

\* An effect is prepared, or bound anew: nothing was verified of it yet, and a new one
\* closes no cycle.
LEMMA EffectPrepared ==
  ASSUME ServiceInv, World, NEW e \in Effect, NEW doc \in Version,
         \/ CreateExternalEffect(e, doc) \/ RefreshExternalEffect(e, doc),
         UNCHANGED <<copies, late>>
  PROVE  World'
<1> USE OutcomeTypes
<1>1. /\ effects' = [effects EXCEPT ![e] = [status |-> "verified", doc |-> doc]]
      /\ UNCHANGED <<status, patch, verification, receipts>>
      /\ status \in {"active", "sealed", "stale"}
  BY DEF CreateExternalEffect, CreateExternalEffectOK, RefreshExternalEffect,
         RefreshExternalEffectOK
<1>2. /\ effects'[e].status = "verified"
      /\ \A f \in Effect : f # e => effects'[f] = effects[f]
  BY <1>1
<1>3. \A f \in Effect : effects[f].status \in Settled
  BY <1>1 DEF World, Outcome1, Quiet, Released
<1>4. Outcome1'
  BY <1>1, <1>2, <1>3 DEF World, Outcome1, Quiet, ReceiptsTold, Ended, Settled, Released
<1>5. Outcome3'
  BY <1>1, <1>2, <1>3 DEF World, Outcome3, NoForgottenRelease, AtMostOnce, Settled
<1>6. DependenciesCreated'
  <2>1. CASE Exists(e)
    <3>1. \A f \in Effect : Exists(f)' <=> Exists(f)
      BY <1>2, <2>1 DEF Exists
    <3> QED BY <3>1, CreatedStays DEF World, Outcome2
  <2>2. CASE ~Exists(e)
    <3>1. /\ e \notin DependsOn[e] /\ \A d \in DependsOn[e] : Exists(d)
      BY <2>2 DEF CreateExternalEffect, CreateExternalEffectOK, RefreshExternalEffect,
                  RefreshExternalEffectOK, Exists
    <3>2. Created' = Created \cup {e} /\ e \notin Created
      BY <1>2, <2>2 DEF Created, Exists
    <3>3. \A f \in Created : DependsOn[f] \subseteq Created
      BY EffectAssumption DEF World, Outcome2, DependenciesCreated, Created
    <3>4. DependsOn[e] \subseteq Created
      BY <3>1, EffectAssumption DEF Created
    <3>5. \A f \in Effect : Exists(f)' => \A d \in DependsOn[f] : Exists(d)'
      BY <3>2, <3>3, <3>4, EffectAssumption DEF Created
    <3>6. ASSUME NEW S \in (SUBSET Created') \ {{}},
                 \A f \in S : DependsOn[f] \cap S # {}
          PROVE  FALSE
      <4> DEFINE T == S \ {e}
      <4>1. T \subseteq Created
        BY <3>2
      <4>2. \A f \in T : DependsOn[f] \cap T # {}
        BY <3>2, <3>3, <3>6, <4>1
      <4>3. T # {}
        <5>1. CASE e \in S
          BY <3>1, <3>6, <5>1
        <5>2. CASE e \notin S
          BY <5>2
        <5> QED BY <5>1, <5>2
      <4> HIDE DEF T
      <4>4. DependencyCycle
        BY <4>1, <4>2, <4>3 DEF DependencyCycle
      <4> QED BY <4>4 DEF World, Outcome2, DependenciesCreated
    <3>7. ~DependencyCycle'
      BY <3>6 DEF DependencyCycle
    <3> QED BY <3>5, <3>7 DEF DependenciesCreated
  <2> QED BY <2>1, <2>2
<1>7. VerifiedAsIs'
  BY <1>1 DEF VerifiedAsIs
<1> QED BY <1>4, <1>5, <1>6, <1>7 DEF World, Outcome2

\* An abort ends what nothing was sent for, which is all there is.
LEMMA EffectsAborted ==
  ASSUME ServiceInv, World, AbortPreparedEffects, UNCHANGED <<copies, late>>
  PROVE  World' /\ \A e \in Effect : effects'[e].status # "verified"
<1> USE OutcomeTypes
<1>1. /\ status = "aborting" /\ UNCHANGED <<status, patch, verification, receipts>>
      /\ effects' = [e \in Effect |-> IF effects[e].status = "verified"
                                      THEN [effects[e] EXCEPT !.status = "aborted"]
                                      ELSE effects[e]]
  BY DEF AbortPreparedEffects
<1>2. \A e \in Effect : effects'[e].status =
        IF effects[e].status = "verified" THEN "aborted" ELSE effects[e].status
  BY <1>1 DEF EffectRow
<1>3. \A e \in Effect : Exists(e)' <=> Exists(e)
  BY <1>2 DEF Exists
<1>4. Outcome1'
  BY <1>1, <1>2 DEF World, Outcome1, Quiet, ReceiptsTold, Ended, Settled
<1>5. Outcome2'
  BY <1>1, <1>3, CreatedStays DEF World, Outcome2, VerifiedAsIs
<1>6. Outcome3'
  BY <1>1, <1>2 DEF World, Outcome3, NoForgottenRelease, AtMostOnce
<1> QED BY <1>2, <1>4, <1>5, <1>6 DEF World

-----------------------------------------------------------------------------
(* What the request that moves can rely on next.                           *)

ThenPhase(q) ==
  /\ q.pc \in Releasing \/ (q.pc = "lease" /\ q.op # "commit") => CommitPhase'
  /\ q.pc \in {"pin", "preflight"} => q.op = "commit"
ThenAttempt(q) ==
  /\ q.pc \in {"check", "post", "receipt", "unknown", "definite"} =>
       effects'[q.effect].status = "committing"
  /\ q.pc \in {"check", "post", "definite", "rearm"} => copies'[q.effect] = 0
ThenQuery(q) ==
  /\ q.pc \in Asking => effects'[q.effect].status \in Open
  /\ q.pc \in Asking \cup {"query", "decide"} =>
       /\ \A e \in Effect : effects'[e].status \in Open => e \in q.todo
       /\ ~q.any => \A e \in Effect : effects'[e].status # "committed"
  /\ q.pc = "decide" => q.todo = {}
  /\ q.pc \in {"to_ready", "to_stale"} =>
       \A e \in Effect : effects'[e].status \in Settled
ThenRest(q) ==
  /\ q.pc \in {"checks", "record_verification"} => q.digest = VerificationMaterial'
  /\ q.pc \in {"remove", "aborted"} => \A e \in Effect : effects'[e].status # "verified"
Then(q) == ThenPhase(q) /\ ThenAttempt(q) /\ ThenQuery(q) /\ ThenRest(q)

\* Places that rely on the phase alone, and on nothing.
Phased == {"inspect", "materialize", "publish", "record_ref", "load", "next",
           "mark_effect", "mark", "finalize", "reload", "manual"}
Carefree == {"idle", "record_patch", "persist", "rebind", "mark_stale", "begin",
             "abort_check", "aborting", "abort_effects"}

\* Where nothing is relied on.
LEMMA ThenCarefree ==
  ASSUME NEW q, q.pc \in Carefree
  PROVE  Then(q)
BY DEF Then, ThenPhase, ThenAttempt, ThenQuery, ThenRest, Carefree, Releasing, Asking

\* Where only the phase is relied on.
LEMMA ThenPhased ==
  ASSUME NEW q, q.pc \in Phased, CommitPhase'
  PROVE  Then(q)
BY DEF Then, ThenPhase, ThenAttempt, ThenQuery, ThenRest, Phased, Releasing, Asking

\* Goto changes the place, whatever the request has in hand.
LEMMA GotoKeeps ==
  ASSUME ServiceInv, NEW r \in Request, NEW pc, Goto(r, pc)
  PROVE  /\ req'[r].pc = pc /\ req'[r].op = req[r].op /\ req'[r].effect = req[r].effect
         /\ req'[r].todo = req[r].todo /\ req'[r].any = req[r].any
         /\ req'[r].digest = req[r].digest
BY DEF ServiceInv, RequestsOK, ReqRecord, Goto

\* A request that has ended relies on nothing.
LEMMA EndThen ==
  ASSUME ServiceInv, NEW r \in Request, End(r)
  PROVE  Then(req'[r])
<1>1. req'[r].pc = "idle"
  BY DEF End, ServiceInv, RequestsOK, Idle
<1> QED BY <1>1, ThenCarefree DEF Carefree

\* On to a place where nothing is relied on.
LEMMA GotoCarefree ==
  ASSUME ServiceInv, NEW r \in Request, NEW pc \in Carefree, Goto(r, pc)
  PROVE  Then(req'[r])
BY GotoKeeps, ThenCarefree

\* On to a place where only the phase is relied on.
LEMMA GotoPhased ==
  ASSUME ServiceInv, NEW r \in Request, NEW pc \in Phased, Goto(r, pc), CommitPhase'
  PROVE  Then(req'[r])
BY GotoKeeps, ThenPhased

\* Fail goes to "mark", which is part of the release, or ends the request.
LEMMA FailThen ==
  ASSUME ServiceInv, NEW r \in Request, Fail(r), CommitPhase'
  PROVE  Then(req'[r])
BY EndThen, GotoPhased DEF Fail, Phased

\* The request that moves is the only one.
LEMMA OneKeeps ==
  ASSUME OneAtATime, NEW r \in Request, Then(req'[r])
  PROVE  \A q \in Request : Kept(req[q])'
<1>1. \A q \in Request : q = r
  BY DEF OneAtATime
<1>2. Kept(req[r])'
  BY DEF Then, ThenPhase, ThenAttempt, ThenQuery, ThenRest, Kept, PhaseKept, AttemptKept,
         QueryKept, RestKept
<1> QED BY <1>1, <1>2

\* A request that does not move keeps what it relied on if the ledger's rows and the
\* providers stay as they are.
LEMMA KeptStays ==
  ASSUME NEW r \in Request, Kept(req[r]), req'[r] = req[r],
         CommitPhase => CommitPhase', VerificationMaterial' = VerificationMaterial,
         UNCHANGED <<effects, copies>>
  PROVE  Then(req'[r])
BY DEF Then, ThenPhase, ThenAttempt, ThenQuery, ThenRest, Kept, PhaseKept, AttemptKept,
       QueryKept, RestKept

-----------------------------------------------------------------------------
(* One lemma per group of actions.                                         *)

\* What the action lemmas start from and show.
Rows == <<status, patch, verification, effects, receipts, copies, late>>
Onward(r) == World' /\ Then(req'[r])

\* A request begins with what it reads, and a recovery in its phase.
LEMMA AskOutcome ==
  ASSUME OutcomeInv, NEW r \in Request, Ask(r)
  PROVE  Onward(r)
<1>1. /\ ServiceInv /\ World /\ Kept(req[r]) /\ req \in [Request -> ReqRecord]
  BY OutcomeTypes DEF OutcomeInv
<1>2. CASE SealCapture(r)
  <2>1. UNCHANGED Rows
    BY <1>2 DEF SealCapture, Rows, ledgerVars
  <2>2. CASE UNCHANGED req
    BY <1>1, <2>1, <2>2, WorldStays, KeptStays
       DEF Rows, Onward, CommitPhase, VerificationMaterial
  <2>3. CASE req'[r].pc = "record_patch"
    BY <1>1, <2>1, <2>3, WorldStays, ThenCarefree DEF Rows, Onward, Carefree
  <2> QED BY <1>1, <1>2, <2>2, <2>3 DEF SealCapture, ReqRecord
<1>3. CASE VerifyStart(r)
  <2>1. /\ UNCHANGED Rows /\ req'[r].pc = "checks"
        /\ req'[r].digest = VerificationMaterial
    BY <1>1, <1>3 DEF VerifyStart, Rows, ledgerVars, worldVars, ReqRecord
  <2>2. req'[r].digest = VerificationMaterial'
    BY <2>1 DEF Rows, VerificationMaterial
  <2>3. Then(req'[r])
    BY <2>1, <2>2 DEF Then, ThenPhase, ThenAttempt, ThenQuery, ThenRest, Releasing, Asking
  <2> QED BY <1>1, <2>1, <2>3, WorldStays DEF Rows, Onward
<1>4. ASSUME NEW e \in Effect, PrepareRead(r, e) \/ RefreshRead(r, e) PROVE Onward(r)
  <2>1. UNCHANGED Rows /\ req'[r].pc \in {"persist", "rebind"}
    BY <1>1, <1>4 DEF PrepareRead, RefreshRead, Rows, ledgerVars, worldVars, ReqRecord
  <2> QED BY <1>1, <2>1, WorldStays, ThenCarefree DEF Rows, Onward, Carefree
<1>6. CASE AbortStart(r)
  <2>1. UNCHANGED Rows /\ req'[r].pc = "abort_check"
    BY <1>1, <1>6 DEF AbortStart, Rows, ledgerVars, worldVars, ReqRecord
  <2> QED BY <1>1, <2>1, WorldStays, ThenCarefree DEF Rows, Onward, Carefree
<1>7. CASE CommitStart(r)
  <2>1. UNCHANGED Rows /\ req'[r].pc = "pin" /\ req'[r].op = "commit"
    BY <1>1, <1>7 DEF CommitStart, Rows, ledgerVars, ReqRecord
  <2>2. Then(req'[r])
    BY <2>1 DEF Then, ThenPhase, ThenAttempt, ThenQuery, ThenRest, Releasing, Asking
  <2> QED BY <1>1, <2>1, <2>2, WorldStays DEF Rows, Onward
<1>5. CASE RecoverStart(r)
  <2>1. /\ req'[r].pc = "lease" /\ req'[r].op = "recover"
        /\ UNCHANGED <<patch, verification, effects, receipts, copies, late>>
        /\ status \in {"committing", "needs_reconciliation"}
        /\ status' = "needs_reconciliation"
    BY <1>1, <1>5 DEF RecoverStart, Start, MarkNeedsReconciliation, Transition, ledgerVars,
                      ReqRecord
  <2>2. World'
    BY <1>1, <2>1, StatusMoves DEF World, Outcome2, VerifiedAsIs, Released
  <2>3. Then(req'[r])
    BY <2>1 DEF Then, ThenPhase, ThenAttempt, ThenQuery, ThenRest, CommitPhase, Asking
  <2> QED BY <2>2, <2>3 DEF Onward
<1> QED BY <1>2, <1>3, <1>4, <1>5, <1>6, <1>7 DEF Ask

\* Sealing, verifying and preparing: what is recorded is what was read.
LEMMA AuthoringOutcome ==
  ASSUME OutcomeInv, NEW r \in Request,
         \/ SealRecord(r) \/ VerifyChecks(r) \/ VerifyRecord(r) \/ PreparePersist(r)
         \/ RefreshPersist(r)
  PROVE  Onward(r)
<1>1. /\ ServiceInv /\ World /\ Kept(req[r]) /\ req \in [Request -> ReqRecord]
      /\ LocalOK(req[r])
  BY OutcomeTypes DEF OutcomeInv, ServiceInv, RequestsOK
<1>2. CASE VerifyChecks(r)
  <2>1. /\ UNCHANGED Rows /\ req'[r].pc = "record_verification" /\ req[r].pc = "checks"
        /\ req'[r].digest = req[r].digest
    BY <1>1, <1>2 DEF VerifyChecks, At, Rows, ledgerVars, worldVars, ReqRecord
  <2>2. req'[r].digest = VerificationMaterial'
    BY <1>1, <2>1 DEF Kept, RestKept, Rows, VerificationMaterial
  <2>3. Then(req'[r])
    BY <2>1, <2>2 DEF Then, ThenPhase, ThenAttempt, ThenQuery, ThenRest, Releasing, Asking
  <2> QED BY <1>1, <2>1, <2>3, WorldStays DEF Rows, Onward
<1>3. ASSUME End(r), UNCHANGED Rows PROVE Onward(r)
  BY <1>1, <1>3, EndThen, WorldStays DEF Rows, Onward
<1>4. ASSUME End(r), World' PROVE Onward(r)
  BY <1>1, <1>4, EndThen DEF Onward
<1>5. CASE SealRecord(r)
  <2>1. ASSUME RecordPatch(req[r].tree), UNCHANGED worldVars PROVE World'
    <3>1. /\ status = "active" /\ status' = "sealed"
          /\ UNCHANGED <<verification, effects, receipts, copies, late>>
      BY <2>1 DEF RecordPatch, RecordPatchOK, worldVars
    <3>2. Outcome1' /\ Outcome3'
      BY <1>1, <3>1 DEF World, Outcome1, Outcome3, Quiet, ReceiptsTold, Ended,
                        NoForgottenRelease, AtMostOnce, Released
    <3>3. DependenciesCreated'
      BY <1>1, <3>1, CreatedStays DEF World, Outcome2, Exists
    <3>4. VerifiedAsIs'
      BY <3>1 DEF VerifiedAsIs
    <3> QED BY <3>2, <3>3, <3>4 DEF World, Outcome2
  <2> QED BY <1>3, <1>4, <1>5, <2>1 DEF SealRecord, Rows, ledgerVars, worldVars
<1>6. CASE VerifyRecord(r)
  <2>1. UNCHANGED <<copies, late>> /\ End(r) /\ req[r].pc = "record_verification"
    BY <1>6 DEF VerifyRecord, At
  <2>2. ASSUME NEW results \in CheckResults, RecordVerification(req[r].digest, results)
        PROVE  World'
    <3>1. /\ status \in {"sealed", "stale"} /\ status' \in {"ready", "failed_verification"}
          /\ UNCHANGED <<patch, effects, receipts>>
          /\ verification'.material = req[r].digest
      BY <2>2 DEF RecordVerification, RecordVerificationOK
    <3>2. Outcome1' /\ Outcome3'
      BY <1>1, <2>1, <3>1 DEF World, Outcome1, Outcome3, Quiet, ReceiptsTold, Ended,
                              NoForgottenRelease, AtMostOnce, Released
    <3>3. DependenciesCreated'
      BY <1>1, <3>1, CreatedStays DEF World, Outcome2, Exists
    <3>4. VerifiedAsIs'
      BY <1>1, <2>1, <3>1 DEF VerifiedAsIs, VerificationMaterial, Kept, RestKept
    <3> QED BY <3>2, <3>3, <3>4 DEF World, Outcome2
  <2> QED BY <1>3, <1>4, <1>6, <2>1, <2>2 DEF VerifyRecord, Rows, ledgerVars
<1>7. CASE PreparePersist(r) \/ RefreshPersist(r)
  <2>1. /\ req[r].effect \in Effect /\ req[r].doc \in Version /\ End(r)
        /\ UNCHANGED <<copies, late>>
    BY <1>1, <1>7 DEF PreparePersist, RefreshPersist, At, LocalOK, worldVars
  <2>2. ASSUME ~UNCHANGED ledgerVars PROVE World'
    BY <1>1, <1>7, <2>1, <2>2, EffectPrepared DEF PreparePersist, RefreshPersist
  <2> QED BY <1>3, <1>4, <2>1, <2>2 DEF Rows, ledgerVars
<1> QED BY <1>2, <1>5, <1>6, <1>7

\* What is read before the release, and the lease: no row changes.
LEMMA PreflightOutcome ==
  ASSUME OutcomeInv, NEW r \in Request, CommitPin(r) \/ Preflight(r) \/ TakeLease(r)
  PROVE  Onward(r)
<1>1. /\ ServiceInv /\ World /\ Kept(req[r]) /\ req \in [Request -> ReqRecord]
  BY OutcomeTypes DEF OutcomeInv
<1>2. UNCHANGED Rows
  BY DEF CommitPin, Preflight, TakeLease, AcquireLease, Rows, ledgerVars, worldVars
<1>3. World'
  BY <1>1, <1>2, WorldStays DEF Rows
<1>4. ASSUME req'[r].pc \in {"preflight", "lease"}, req'[r].op = "commit"
      PROVE  Then(req'[r])
  BY <1>4 DEF Then, ThenPhase, ThenAttempt, ThenQuery, ThenRest, Releasing, Asking
<1>5. ASSUME End(r) \/ Goto(r, "mark_stale") PROVE Then(req'[r])
  BY <1>1, <1>5, EndThen, GotoCarefree DEF Carefree
<1>6. CASE CommitPin(r)
  <2>1. req[r].op = "commit"
    BY <1>1, <1>6 DEF CommitPin, At, Kept, PhaseKept
  <2>2. ASSUME ~End(r), ~Goto(r, "mark_stale")
        PROVE  req'[r].pc = "preflight" /\ req'[r].op = req[r].op
    BY <1>1, <1>6, <2>2 DEF CommitPin, ReqRecord
  <2> QED BY <1>3, <1>4, <1>5, <2>1, <2>2 DEF Onward
<1>7. CASE Preflight(r)
  <2>1. req[r].op = "commit" /\ req[r].pc = "preflight"
    BY <1>1, <1>7 DEF Preflight, At, Kept, PhaseKept
  <2>2. ASSUME ~End(r), ~Goto(r, "mark_stale"), ~Goto(r, "lease")
        PROVE  req'[r].pc = "preflight" /\ req'[r].op = req[r].op
    BY <1>1, <1>7, <2>1, <2>2 DEF Preflight, ReqRecord
  <2>3. ASSUME Goto(r, "lease") PROVE Then(req'[r])
    BY <1>1, <1>4, <2>1, <2>3, GotoKeeps
  <2> QED BY <1>3, <1>4, <1>5, <2>1, <2>2, <2>3 DEF Onward
<1>8. CASE TakeLease(r)
  <2>1. ASSUME ~End(r)
        PROVE  req'[r].pc = IF req[r].op = "commit" THEN "begin" ELSE "inspect"
    BY <1>1, <1>8, <2>1 DEF TakeLease, ReqRecord
  <2>2. req[r].op # "commit" => CommitPhase'
    BY <1>1, <1>2, <1>8 DEF TakeLease, At, Kept, PhaseKept, Rows, CommitPhase
  <2>3. ASSUME ~End(r) PROVE Then(req'[r])
    BY <2>1, <2>2, <2>3, ThenCarefree, ThenPhased DEF Carefree, Phased
  <2> QED BY <1>3, <1>5, <2>3 DEF Onward
<1> QED BY <1>6, <1>7, <1>8

\* Marking a failed commit for reconciliation.
LEMMA MarkOutcome ==
  ASSUME World, TryMark, UNCHANGED <<copies, late>>
  PROVE  World' /\ (CommitPhase => CommitPhase')
<1>1. CASE UNCHANGED ledgerVars
  BY <1>1, WorldStays DEF ledgerVars, CommitPhase
<1>2. CASE ~UNCHANGED ledgerVars
  <2>1. /\ status = "committing" /\ status' = "needs_reconciliation"
        /\ UNCHANGED <<patch, verification, effects, receipts>>
    BY <1>2 DEF TryMark, TryTransition, Transition
  <2> QED BY <2>1, StatusMoves DEF World, Outcome2, VerifiedAsIs, Released, CommitPhase
<1> QED BY <1>1, <1>2

\* The transaction's own way through a commit.
LEMMA CommitOutcome ==
  ASSUME OutcomeInv, NEW r \in Request,
         \/ MarkStale(r) \/ CommitBegin(r) \/ Mark(r) \/ MarkEffect(r) \/ Finalize(r)
  PROVE  Onward(r)
<1>1. /\ ServiceInv /\ World /\ Kept(req[r])
  BY DEF OutcomeInv
<1>2. UNCHANGED <<copies, late>>
  BY DEF MarkStale, CommitBegin, Mark, MarkEffect, Finalize, worldVars
<1>3. CASE MarkStale(r)
  <2>1. ASSUME ~UNCHANGED ledgerVars PROVE World'
    <3>1. /\ status = "ready" /\ status' = "stale"
          /\ UNCHANGED <<patch, verification, effects, receipts>>
      BY <1>3, <2>1 DEF MarkStale, TryTransition, Transition
    <3> QED BY <1>1, <1>2, <3>1, StatusMoves DEF World, Outcome1, Quiet, Released
  <2> QED BY <1>1, <1>2, <1>3, <2>1, WorldStays, EndThen DEF MarkStale, ledgerVars, Onward
<1>4. CASE CommitBegin(r)
  <2>1. ASSUME ~UNCHANGED ledgerVars PROVE World' /\ CommitPhase' /\ Goto(r, "inspect")
    <3>1. /\ status = "ready" /\ status' = "committing" /\ Goto(r, "inspect")
          /\ UNCHANGED <<patch, verification, effects, receipts>>
      BY <1>4, <2>1 DEF CommitBegin, BeginCommit, BeginCommitOK
    <3> QED BY <1>1, <1>2, <3>1, StatusMoves
            DEF World, Outcome2, VerifiedAsIs, Released, CommitPhase
  <2>2. CASE UNCHANGED ledgerVars
    <3>1. End(r)
      BY <1>4, <2>2 DEF CommitBegin, BeginCommit, BeginCommitOK, ledgerVars
    <3> QED BY <1>1, <1>2, <2>2, <3>1, WorldStays, EndThen DEF ledgerVars, Onward
  <2> QED BY <1>1, <2>1, <2>2, GotoPhased DEF Onward, Phased
<1>5. CASE Mark(r)
  BY <1>1, <1>2, <1>5, MarkOutcome, EndThen DEF Mark, Onward
<1>6. CASE MarkEffect(r)
  <2>1. CommitPhase
    BY <1>1, <1>6 DEF MarkEffect, At, Kept, PhaseKept, Releasing
  <2> QED BY <1>1, <1>2, <1>6, <2>1, MarkOutcome, FailThen DEF MarkEffect, Onward
<1>7. CASE Finalize(r)
  <2>1. CommitPhase
    BY <1>1, <1>7 DEF Finalize, At, Kept, PhaseKept, Releasing
  <2>2. CASE UNCHANGED ledgerVars
    <3>1. World' /\ CommitPhase'
      BY <1>1, <1>2, <2>1, <2>2, WorldStays DEF ledgerVars, CommitPhase
    <3> QED BY <1>1, <1>7, <3>1, FailThen, EndThen DEF Finalize, Onward
  <2>3. CASE FinalizeTransactionCommit /\ End(r)
    <3>1. /\ status' = "committed" /\ UNCHANGED <<patch, verification, effects, receipts>>
          /\ \A e \in Effect : effects[e].status \in {"absent", "committed"}
      BY <2>3 DEF FinalizeTransactionCommit, FinalizeOK, Exists
    <3>2. World'
      BY <1>1, <1>2, <2>1, <3>1, StatusMoves DEF Released, CommitPhase
    <3> QED BY <1>1, <2>3, <3>2, EndThen DEF Onward
  <2> QED BY <1>7, <2>2, <2>3 DEF Finalize
<1> QED BY <1>3, <1>4, <1>5, <1>6, <1>7

\* The safe branch: no row of an effect changes.
LEMMA BranchOutcome ==
  ASSUME OutcomeInv, NEW r \in Request,
         \/ Inspect(r) \/ AddWorktree(r) \/ PublishRef(r) \/ RecordRef(r) \/ LoadEffects(r)
  PROVE  Onward(r)
<1>1. /\ ServiceInv /\ World /\ Kept(req[r]) /\ req \in [Request -> ReqRecord]
  BY OutcomeTypes DEF OutcomeInv
<1>2. UNCHANGED Rows
  BY DEF Inspect, AddWorktree, PublishRef, RecordRef, RecordMaterializedRef, LoadEffects,
         Rows, ledgerVars, worldVars
<1>3. World'
  BY <1>1, <1>2, WorldStays DEF Rows
<1>4. CommitPhase'
  <2>1. req[r].pc \in Releasing
    BY DEF Inspect, AddWorktree, PublishRef, RecordRef, LoadEffects, At, Releasing
  <2> QED BY <1>1, <1>2, <2>1 DEF Kept, PhaseKept, Rows, CommitPhase
<1>5. ASSUME NEW pc \in {"materialize", "reload", "publish", "record_ref", "load"},
             Goto(r, pc)
      PROVE  Then(req'[r])
  BY <1>1, <1>4, <1>5, GotoPhased DEF Phased
<1>6. Fail(r) => Then(req'[r])
  BY <1>1, <1>4, FailThen
<1>7. CASE AddWorktree(r) \/ PublishRef(r) \/ RecordRef(r)
  BY <1>3, <1>5, <1>6, <1>7 DEF AddWorktree, PublishRef, RecordRef, Onward
<1>8. CASE Inspect(r)
  <2>1. ASSUME req' = [req EXCEPT ![r].pc = "record_ref", ![r].exists = TRUE]
        PROVE  Then(req'[r])
    <3>1. req'[r].pc = "record_ref"
      BY <1>1, <2>1 DEF ReqRecord
    <3> QED BY <1>4, <3>1, ThenPhased DEF Phased
  <2> QED BY <1>3, <1>5, <1>6, <1>8, <2>1 DEF Inspect, Onward
<1>9. CASE LoadEffects(r)
  <2> DEFINE todo == {e \in Effect : Exists(e) /\ effects[e].status # "committed"}
             done == {e \in Effect : effects[e].status = "committed"}
  <2>2. req' = [req EXCEPT ![r].pc = "next", ![r].rows = effects, ![r].todo = todo,
                           ![r].done = done]
    BY <1>9 DEF LoadEffects
  <2> HIDE DEF todo, done
  <2>1. req'[r].pc = "next"
    BY <1>1, <2>2 DEF ReqRecord
  <2> QED BY <1>3, <1>4, <2>1, ThenPhased DEF Phased, Onward
<1> QED BY <1>7, <1>8, <1>9

-----------------------------------------------------------------------------
(* An effect is released, or the attempt fails.                            *)

Attempting == {"check", "post", "receipt", "unknown", "definite"}

\* What an attempt relies on.
LEMMA ThenAttempting ==
  ASSUME NEW q, q.pc \in Attempting, CommitPhase',
         effects'[q.effect].status = "committing",
         q.pc \in {"check", "post", "definite"} => copies'[q.effect] = 0
  PROVE  Then(q)
BY DEF Then, ThenPhase, ThenAttempt, ThenQuery, ThenRest, Attempting, Asking

\* An attempt is begun of an effect that nothing was sent for.
LEMMA NextOutcome ==
  ASSUME OutcomeInv, NEW r \in Request, NextEffect(r)
  PROVE  Onward(r)
<1>1. /\ ServiceInv /\ World /\ Kept(req[r]) /\ req \in [Request -> ReqRecord]
      /\ UNCHANGED <<copies, late>>
  BY OutcomeTypes DEF OutcomeInv, NextEffect, worldVars
<1>2. CommitPhase
  BY <1>1 DEF NextEffect, At, Kept, PhaseKept, Releasing
<1>3. ASSUME UNCHANGED ledgerVars, Goto(r, "finalize") \/ Fail(r) PROVE Onward(r)
  <2>1. World' /\ CommitPhase'
    BY <1>1, <1>2, <1>3, WorldStays DEF ledgerVars, CommitPhase
  <2> QED BY <1>1, <1>3, <2>1, GotoPhased, FailThen DEF Phased, Onward
<1>4. ASSUME NEW e \in Effect, BeginEffectAttempt(e, "commit", req[r].token),
             req' = [req EXCEPT ![r].pc = "check", ![r].effect = e]
      PROVE  Onward(r)
  <2>1. /\ effects[e].status = "verified"
        /\ effects' = [effects EXCEPT ![e].status = "committing"]
        /\ UNCHANGED <<status, patch, verification, receipts>>
    BY <1>4 DEF BeginEffectAttempt, BeginEffectAttemptOK, SetEffectStatus
  <2>2. copies[e] = 0 /\ receipts[e] = None /\ Exists(e)
    BY <1>1, <2>1, OutcomeTypes DEF World, Outcome1, Outcome3, NoForgottenRelease,
                                    ReceiptsTold, Exists
  <2>3. World'
    BY <1>1, <1>2, <2>1, <2>2, EffectMoves
  <2>4. req'[r].pc = "check" /\ req'[r].effect = e
    BY <1>1, <1>4 DEF ReqRecord
  <2>5. effects'[e].status = "committing" /\ copies'[e] = 0 /\ CommitPhase'
    BY <1>1, <1>2, <2>1, <2>2, OutcomeTypes DEF EffectRow, CommitPhase
  <2> QED BY <2>3, <2>4, <2>5, ThenAttempting DEF Attempting, Onward
<1> DEFINE e == First(req[r].todo)
<1>5. req[r].todo # {} => e \in Effect
  BY <1>1, FirstIsOne DEF ReqRecord
<1> HIDE DEF e
<1>6. \/ Goto(r, "finalize") /\ UNCHANGED ledgerVars
      \/ Fail(r) /\ UNCHANGED ledgerVars
      \/ /\ req[r].todo # {} /\ BeginEffectAttempt(e, "commit", req[r].token)
         /\ req' = [req EXCEPT ![r].pc = "check", ![r].effect = e]
  BY DEF NextEffect, e
<1> QED BY <1>3, <1>4, <1>5, <1>6

\* The attempt: nothing was found before it is sent, and it is sent once.
LEMMA AttemptOutcome ==
  ASSUME OutcomeInv, OneAtATime, NEW r \in Request, CheckProvider(r) \/ PostEffect(r)
  PROVE  Onward(r)
<1> DEFINE e == req[r].effect
<1>1. /\ ServiceInv /\ World /\ Kept(req[r]) /\ req \in [Request -> ReqRecord]
      /\ LocalOK(req[r])
  BY OutcomeTypes DEF OutcomeInv, ServiceInv, RequestsOK
<1>2. req[r].pc \in {"check", "post"}
  BY DEF CheckProvider, PostEffect, At
<1>3. /\ e \in Effect /\ CommitPhase /\ effects[e].status = "committing"
      /\ copies[e] = 0
  BY <1>1, <1>2 DEF LocalOK, Kept, PhaseKept, AttemptKept, Releasing
<1>4. UNCHANGED ledgerVars
  BY DEF CheckProvider, PostEffect
<1>5. effects'[e].status = "committing" /\ CommitPhase'
  BY <1>3, <1>4 DEF ledgerVars, CommitPhase
<1>6. ASSUME NEW pc \in {"post", "unknown", "definite"}, Goto(r, pc), copies'[e] = 0
      PROVE  Then(req'[r])
  BY <1>1, <1>5, <1>6, GotoKeeps, ThenAttempting DEF Attempting
<1>7. CASE CheckProvider(r)
  <2>1. UNCHANGED Rows
    BY <1>7 DEF CheckProvider, Rows, ledgerVars, worldVars
  <2>2. ~Found(e)
    BY <1>3 DEF Found
  <2>3. Goto(r, "unknown") \/ Goto(r, "definite") \/ Goto(r, "post")
    BY <1>7, <2>2 DEF CheckProvider
  <2>4. copies'[e] = 0
    BY <1>3, <2>1 DEF Rows
  <2> QED BY <1>1, <1>6, <2>1, <2>3, <2>4, WorldStays DEF Rows, Onward
<1>8. CASE PostEffect(r)
  <2>1. late' = late
    BY <1>8 DEF PostEffect, OneAtATime
  <2>2. CASE copies' = copies
    <3>1. World' /\ copies'[e] = 0
      BY <1>1, <1>3, <1>4, <2>1, <2>2, WorldStays DEF ledgerVars
    <3>2. Goto(r, "unknown") \/ Goto(r, "definite")
      <4>1. copies # [copies EXCEPT ![e] = @ + 1]
        BY <1>1, <1>3, OutcomeTypes
      <4> QED BY <1>8, <2>2, <4>1 DEF PostEffect, OneAtATime
    <3> QED BY <1>6, <3>1, <3>2 DEF Onward
  <2>3. CASE copies' # copies
    <3>1. /\ copies' = [copies EXCEPT ![e] = @ + 1]
          /\ \/ req' = [req EXCEPT ![r].pc = "receipt", ![r].answer = copies[e] + 1]
             \/ Goto(r, "unknown")
      BY <1>8, <2>3 DEF PostEffect, OneAtATime
    <3>2. copies'[e] = 1 /\ \A f \in Effect : f # e => copies'[f] = copies[f]
      BY <1>1, <1>3, <3>1, OutcomeTypes
    <3>3. Outcome1' /\ Outcome2'
      BY <1>1, <1>4 DEF World, Outcome1, Outcome2, Quiet, ReceiptsTold, Ended,
         DependenciesCreated, VerifiedAsIs, VerificationMaterial, Exists, Created,
         DependencyCycle, ledgerVars
    <3>4. Outcome3'
      BY <1>1, <1>3, <1>4, <2>1, <3>2
         DEF World, Outcome3, NoForgottenRelease, AtMostOnce, ledgerVars
    <3>5. req'[r].pc \in {"receipt", "unknown"} /\ req'[r].effect = e
      BY <1>1, <3>1, GotoKeeps DEF ReqRecord
    <3>6. Then(req'[r])
      BY <1>5, <3>5, ThenAttempting DEF Attempting
    <3> QED BY <3>3, <3>4, <3>6 DEF World, Onward
  <2> QED BY <2>2, <2>3
<1> QED BY <1>7, <1>8

\* The attempt's end: its outcome is on record, or nothing changes.
LEMMA EffectOutcome ==
  ASSUME OutcomeInv, NEW r \in Request,
         RecordReceipt(r) \/ EffectUnknown(r) \/ EffectDefiniteFailure(r)
  PROVE  Onward(r)
<1> DEFINE e == req[r].effect
<1>1. /\ ServiceInv /\ World /\ Kept(req[r]) /\ req \in [Request -> ReqRecord]
      /\ LocalOK(req[r]) /\ UNCHANGED <<copies, late>>
  BY OutcomeTypes DEF OutcomeInv, ServiceInv, RequestsOK, RecordReceipt, EffectUnknown,
                      EffectDefiniteFailure, worldVars
<1>2. req[r].pc \in {"receipt", "unknown", "definite"}
  BY DEF RecordReceipt, EffectUnknown, EffectDefiniteFailure, At
<1>3. /\ e \in Effect /\ CommitPhase /\ effects[e].status = "committing"
      /\ req[r].pc = "definite" => copies[e] = 0
  BY <1>1, <1>2 DEF LocalOK, Kept, PhaseKept, AttemptKept, Releasing
<1>4. Exists(e) /\ receipts[e] = None
  BY <1>1, <1>3 DEF World, Outcome1, ReceiptsTold, Exists
<1>5. ASSUME UNCHANGED ledgerVars PROVE World' /\ CommitPhase'
  BY <1>1, <1>3, <1>5, WorldStays DEF ledgerVars, CommitPhase
<1>6. ASSUME NEW next \in {"verified", "unknown"}, SetEffectStatus(e, next),
             copies[e] > 0 => next # "verified"
      PROVE  World' /\ CommitPhase'
  <2> HIDE DEF e
  <2>1. /\ effects' = [effects EXCEPT ![e].status = next]
        /\ UNCHANGED <<status, patch, verification, receipts>>
    BY <1>6 DEF SetEffectStatus
  <2> QED BY <1>1, <1>3, <1>4, <1>6, <2>1, EffectMoves DEF CommitPhase
<1>7. CASE RecordReceipt(r)
  <2>1. CASE UNCHANGED ledgerVars /\ Goto(r, "mark_effect")
    BY <1>1, <1>5, <2>1, GotoPhased DEF Phased, Onward
  <2>2. CASE RecordEffectCommitted(e, req[r].token, req[r].answer)
             /\ req' = [req EXCEPT ![r].pc = "next", ![r].effect = None,
                              ![r].answer = None, ![r].todo = @ \ {e},
                              ![r].done = @ \cup {e}]
    <3>1. /\ effects' = [effects EXCEPT ![e].status = "committed"]
          /\ receipts' = [receipts EXCEPT ![e] = req[r].answer]
          /\ UNCHANGED <<status, patch, verification>>
      BY <2>2 DEF RecordEffectCommitted
    <3>2. \A f \in Effect : f # e => receipts'[f] = receipts[f]
      BY <3>1, OutcomeTypes, <1>1
    <3>3. req'[r].pc = "next"
      BY <1>1, <2>2 DEF ReqRecord
    <3> HIDE DEF e
    <3>4. World' /\ CommitPhase'
      BY <1>1, <1>3, <1>4, <3>1, <3>2, EffectMoves DEF CommitPhase
    <3> QED BY <3>3, <3>4, ThenPhased DEF Phased, Onward
  <2> QED BY <1>7, <2>1, <2>2 DEF RecordReceipt
<1>8. CASE EffectUnknown(r)
  BY <1>1, <1>5, <1>6, <1>8, GotoPhased DEF EffectUnknown, MarkEffectUnknown, Phased, Onward
<1>9. CASE EffectDefiniteFailure(r)
  <2>1. copies[e] = 0
    BY <1>3, <1>9 DEF EffectDefiniteFailure, At
  <2> QED BY <1>1, <1>5, <1>6, <1>9, <2>1, GotoPhased
          DEF EffectDefiniteFailure, MarkEffectDefiniteFailure, Phased, Onward
<1> QED BY <1>7, <1>8, <1>9

-----------------------------------------------------------------------------
(* Recovery asks about what may have happened.                             *)

Querying == Asking \cup {"query", "decide"}

\* What the queries rely on: everything in doubt is still to be asked about.
LEMMA ThenQuerying ==
  ASSUME NEW q, q.pc \in Querying, CommitPhase',
         q.pc \in Asking => effects'[q.effect].status \in Open,
         q.pc = "rearm" => copies'[q.effect] = 0,
         \A e \in Effect : effects'[e].status \in Open => e \in q.todo,
         ~q.any => \A e \in Effect : effects'[e].status # "committed",
         q.pc = "decide" => q.todo = {}
  PROVE  Then(q)
BY DEF Then, ThenPhase, ThenAttempt, ThenQuery, ThenRest, Querying, Asking

\* Effects are read, and the next one is asked about.
LEMMA QueryOutcome ==
  ASSUME OutcomeInv, NEW r \in Request, ReloadEffects(r) \/ QueryNext(r)
  PROVE  Onward(r)
<1>1. /\ ServiceInv /\ World /\ Kept(req[r]) /\ req \in [Request -> ReqRecord]
      /\ UNCHANGED <<copies, late>>
  BY OutcomeTypes DEF OutcomeInv, ReloadEffects, QueryNext, worldVars
<1>2. CommitPhase
  BY <1>1 DEF ReloadEffects, QueryNext, At, Kept, PhaseKept, Releasing
<1>3. CASE ReloadEffects(r)
  <2> DEFINE any == \E e \in Effect : effects[e].status = "committed"
             all == \A e \in Effect : effects[e].status # "verified"
             todo == {e \in Effect : effects[e].status \in {"unknown", "committing"}}
  <2>1. UNCHANGED Rows
    BY <1>3 DEF ReloadEffects, Rows, ledgerVars, worldVars
  <2>2. req' = [req EXCEPT ![r].pc = "query", ![r].rows = effects, ![r].todo = todo,
                           ![r].any = any, ![r].all = all]
    BY <1>3 DEF ReloadEffects
  <2>3. /\ \A e \in Effect : effects'[e].status \in Open => e \in todo
        /\ ~any => \A e \in Effect : effects'[e].status # "committed"
    BY <2>1 DEF Rows, Open
  <2> HIDE DEF any, all, todo
  <2>4. req'[r].pc = "query" /\ req'[r].todo = todo /\ req'[r].any = any
    BY <1>1, <2>2 DEF ReqRecord
  <2>5. CommitPhase' /\ World'
    BY <1>1, <1>2, <2>1, WorldStays DEF Rows, CommitPhase
  <2>6. Then(req'[r])
    BY <2>3, <2>4, <2>5, ThenQuerying DEF Querying, Asking
  <2> QED BY <2>5, <2>6 DEF Onward
<1>4. CASE QueryNext(r)
  <2>1. /\ \A e \in Effect : effects[e].status \in Open => e \in req[r].todo
        /\ ~req[r].any => \A e \in Effect : effects[e].status # "committed"
    BY <1>1, <1>4 DEF QueryNext, At, Kept, QueryKept
  <2>2. ASSUME UNCHANGED ledgerVars PROVE World' /\ CommitPhase' /\ effects' = effects
    BY <1>1, <1>2, <2>2, WorldStays DEF ledgerVars, CommitPhase
  <2>3. ASSUME Goto(r, "decide"), UNCHANGED ledgerVars, req[r].todo = {} PROVE Onward(r)
    <3>1. /\ req'[r].pc = "decide" /\ req'[r].todo = {} /\ req'[r].any = req[r].any
      BY <1>1, <2>3, GotoKeeps
    <3>2. Then(req'[r])
      BY <2>1, <2>2, <2>3, <3>1, ThenQuerying DEF Querying, Asking
    <3> QED BY <2>2, <2>3, <3>2 DEF Onward
  <2>4. ASSUME End(r), UNCHANGED ledgerVars PROVE Onward(r)
    BY <1>1, <2>2, <2>4, EndThen DEF Onward
  <2>5. ASSUME NEW e \in Effect, BeginEffectAttempt(e, "status", req[r].token),
               req' = [req EXCEPT ![r].pc = "ask", ![r].effect = e]
        PROVE  Onward(r)
    <3>1. /\ effects[e].status \in Open
          /\ effects' = [effects EXCEPT ![e].status = effects[e].status]
          /\ UNCHANGED <<status, patch, verification, receipts>>
      BY <2>5 DEF BeginEffectAttempt, BeginEffectAttemptOK, SetEffectStatus, Open
    <3>2. effects' = effects
      BY <1>1, <3>1, OutcomeTypes DEF EffectRow
    <3>3. World' /\ CommitPhase'
      BY <1>1, <1>2, <3>1, <3>2, WorldStays DEF CommitPhase
    <3>4. /\ req'[r].pc = "ask" /\ req'[r].effect = e /\ req'[r].todo = req[r].todo
          /\ req'[r].any = req[r].any
      BY <1>1, <2>5 DEF ReqRecord
    <3>5. Then(req'[r])
      BY <2>1, <3>1, <3>2, <3>3, <3>4, ThenQuerying DEF Querying, Asking
    <3> QED BY <3>3, <3>5 DEF Onward
  <2> DEFINE e == First(req[r].todo)
  <2>6. req[r].todo # {} => e \in Effect
    BY <1>1, FirstIsOne DEF ReqRecord
  <2> HIDE DEF e
  <2>7. \/ req[r].todo = {} /\ Goto(r, "decide") /\ UNCHANGED ledgerVars
        \/ End(r) /\ UNCHANGED ledgerVars
        \/ /\ req[r].todo # {} /\ BeginEffectAttempt(e, "status", req[r].token)
           /\ req' = [req EXCEPT ![r].pc = "ask", ![r].effect = e]
    BY <1>4 DEF QueryNext, e
  <2> QED BY <2>3, <2>4, <2>5, <2>6, <2>7
<1> QED BY <1>3, <1>4

\* The provider's answer, and what is recorded of it.
LEMMA AnswerOutcome ==
  ASSUME OutcomeInv, NEW r \in Request,
         AskProvider(r) \/ StillUnknown(r) \/ Rearm(r) \/ RecordFound(r)
  PROVE  Onward(r)
<1> DEFINE e == req[r].effect
<1>1. /\ ServiceInv /\ World /\ Kept(req[r]) /\ req \in [Request -> ReqRecord]
      /\ LocalOK(req[r]) /\ UNCHANGED <<copies, late>>
  BY OutcomeTypes DEF OutcomeInv, ServiceInv, RequestsOK, AskProvider, StillUnknown, Rearm,
                      RecordFound, worldVars
<1>2. req[r].pc \in Asking
  BY DEF AskProvider, StillUnknown, Rearm, RecordFound, At, Asking
<1>3. /\ e \in Effect /\ CommitPhase /\ effects[e].status \in Open
      /\ req[r].pc = "rearm" => copies[e] = 0
      /\ \A f \in Effect : effects[f].status \in Open => f \in req[r].todo
      /\ ~req[r].any => \A f \in Effect : effects[f].status # "committed"
  BY <1>1, <1>2 DEF LocalOK, Kept, PhaseKept, AttemptKept, QueryKept, Releasing, Asking
<1>4. Exists(e) /\ receipts[e] = None
  BY <1>1, <1>3 DEF World, Outcome1, ReceiptsTold, Exists, Open
<1> HIDE DEF e
<1>5. ASSUME UNCHANGED ledgerVars
      PROVE  World' /\ CommitPhase' /\ effects' = effects
  BY <1>1, <1>3, <1>5, WorldStays DEF ledgerVars, CommitPhase
<1>6. ASSUME NEW next \in {"verified", "unknown"}, SetEffectStatus(e, next),
             copies[e] > 0 => next # "verified"
      PROVE  /\ World' /\ CommitPhase' /\ effects'[e].status = next
             /\ \A f \in Effect : f # e => effects'[f] = effects[f]
  <2>1. /\ effects' = [effects EXCEPT ![e].status = next]
        /\ UNCHANGED <<status, patch, verification, receipts>>
    BY <1>6 DEF SetEffectStatus
  <2>2. World' /\ CommitPhase'
    BY <1>1, <1>3, <1>4, <1>6, <2>1, EffectMoves DEF CommitPhase
  <2> QED BY <1>1, <1>3, <2>1, <2>2, OutcomeTypes DEF EffectRow
<1>7. CASE AskProvider(r)
  <2>1. World' /\ CommitPhase' /\ effects' = effects
    BY <1>5, <1>7 DEF AskProvider
  <2>2. ASSUME req'[r].pc \in {"still_unknown", "found", "rearm"},
               req'[r].effect = e, req'[r].todo = req[r].todo, req'[r].any = req[r].any,
               req'[r].pc = "rearm" => copies'[e] = 0
        PROVE  Then(req'[r])
    BY <1>3, <2>1, <2>2, ThenQuerying DEF Querying, Asking
  <2>3. CASE Goto(r, "still_unknown")
    BY <1>1, <2>2, <2>3, <2>1, GotoKeeps DEF Onward, e
  <2>4. CASE Goto(r, "manual")
    BY <1>1, <2>1, <2>4, GotoPhased DEF Onward, Phased
  <2>5. CASE req' = [req EXCEPT ![r].pc = "found", ![r].answer = Observed(e)]
    <3>1. /\ req'[r].pc = "found" /\ req'[r].effect = e
          /\ req'[r].todo = req[r].todo /\ req'[r].any = req[r].any
      BY <1>1, <2>5 DEF ReqRecord, e
    <3> QED BY <2>1, <2>2, <3>1 DEF Onward
  <2>6. CASE ~Found(e) /\ Goto(r, "rearm")
    <3>1. copies'[e] = 0
      BY <1>1, <1>3, <2>6, OutcomeTypes DEF Found
    <3> QED BY <1>1, <2>1, <2>2, <2>6, <3>1, GotoKeeps DEF Onward, e
  <2> QED BY <1>7, <2>3, <2>4, <2>5, <2>6 DEF AskProvider, e
<1>8. CASE StillUnknown(r)
  <2>1. World'
    BY <1>5, <1>6, <1>8 DEF StillUnknown, MarkEffectUnknown, e
  <2> QED BY <1>1, <1>8, <2>1, EndThen DEF StillUnknown, Onward
<1>9. CASE Rearm(r)
  <2>1. CASE UNCHANGED ledgerVars /\ End(r)
    BY <1>1, <1>5, <2>1, EndThen DEF Onward
  <2>2. CASE RearmEffect(e, req[r].token)
             /\ req' = [req EXCEPT ![r].pc = "query", ![r].effect = None,
                              ![r].todo = @ \ {e}, ![r].all = FALSE]
    <3>1. copies[e] = 0
      BY <1>3, <1>9 DEF Rearm, At
    <3>2. /\ World' /\ CommitPhase' /\ effects'[e].status = "verified"
          /\ \A f \in Effect : f # e => effects'[f] = effects[f]
      BY <1>6, <2>2, <3>1 DEF RearmEffect
    <3>3. req'[r].pc = "query" /\ req'[r].todo = req[r].todo \ {e}
          /\ req'[r].any = req[r].any
      BY <1>1, <2>2 DEF ReqRecord
    <3>4. \A f \in Effect : effects'[f].status \in Open => f \in req'[r].todo
      BY <1>3, <3>2, <3>3 DEF Open
    <3>5. Then(req'[r])
      BY <1>3, <3>2, <3>3, <3>4, ThenQuerying DEF Querying, Asking
    <3> QED BY <3>2, <3>5 DEF Onward
  <2> QED BY <1>9, <2>1, <2>2 DEF Rearm, e
<1>10. CASE RecordFound(r)
  <2>1. CASE UNCHANGED ledgerVars /\ Goto(r, "mark_effect")
    BY <1>1, <1>5, <2>1, GotoPhased DEF Phased, Onward
  <2>2. CASE RecordEffectCommitted(e, req[r].token, req[r].answer)
             /\ req' = [req EXCEPT ![r].pc = "query", ![r].effect = None,
                              ![r].answer = None, ![r].todo = @ \ {e},
                              ![r].any = TRUE]
    <3>1. /\ effects' = [effects EXCEPT ![e].status = "committed"]
          /\ receipts' = [receipts EXCEPT ![e] = req[r].answer]
          /\ UNCHANGED <<status, patch, verification>>
      BY <2>2 DEF RecordEffectCommitted
    <3>2. \A f \in Effect : f # e => receipts'[f] = receipts[f]
      BY <1>1, <3>1, OutcomeTypes
    <3>3. World' /\ CommitPhase'
      BY <1>1, <1>3, <1>4, <3>1, <3>2, EffectMoves DEF CommitPhase
    <3>4. /\ effects'[e].status = "committed"
          /\ \A f \in Effect : f # e => effects'[f] = effects[f]
      BY <1>1, <1>3, <3>1, OutcomeTypes DEF EffectRow
    <3>5. req'[r].pc = "query" /\ req'[r].todo = req[r].todo \ {e} /\ req'[r].any = TRUE
      BY <1>1, <2>2 DEF ReqRecord
    <3>6. \A f \in Effect : effects'[f].status \in Open => f \in req'[r].todo
      BY <1>3, <3>4, <3>5 DEF Open
    <3>7. Then(req'[r])
      BY <3>3, <3>5, <3>6, ThenQuerying DEF Querying, Asking
    <3> QED BY <3>3, <3>7 DEF Onward
  <2> QED BY <1>10, <2>1, <2>2 DEF RecordFound, e
<1> QED BY <1>7, <1>8, <1>9, <1>10

\* A transaction goes back only when nothing of it is in doubt or out.
LEMMA DecideOutcome ==
  ASSUME OutcomeInv, NEW r \in Request, Decide(r) \/ Conclude(r)
  PROVE  Onward(r)
<1>1. /\ ServiceInv /\ World /\ Kept(req[r]) /\ req \in [Request -> ReqRecord]
      /\ UNCHANGED <<copies, late>>
  BY OutcomeTypes DEF OutcomeInv, Decide, Conclude, worldVars
<1>2. CommitPhase
  BY <1>1 DEF Decide, Conclude, At, Kept, PhaseKept, Releasing
<1>3. CASE Decide(r)
  <2>1. World' /\ CommitPhase' /\ effects' = effects
    BY <1>1, <1>2, <1>3, WorldStays DEF Decide, ledgerVars, CommitPhase
  <2>2. CASE End(r)
    BY <1>1, <2>1, <2>2, EndThen DEF Onward
  <2>3. CASE Goto(r, Decision(r))
    <3>1. CASE Decision(r) \in {"finalize", "load", "manual"}
      BY <1>1, <2>1, <2>3, <3>1, GotoPhased DEF Onward, Phased
    <3>2. CASE Decision(r) \in {"to_stale", "to_ready"}
      <4>1. ~req[r].any
        BY <3>2 DEF Decision
      <4>2. \A e \in Effect : effects[e].status \notin Open \cup {"committed"}
        BY <1>1, <1>3, <4>1 DEF Decide, At, Kept, QueryKept
      <4>3. \A e \in Effect : effects'[e].status \in Settled
        BY <1>1, <2>1, <4>2, OutcomeTypes DEF EffectRow, EffectState, Open, Settled
      <4>4. req'[r].pc \in {"to_stale", "to_ready"}
        BY <1>1, <2>3, <3>2, GotoKeeps
      <4>5. Then(req'[r])
        BY <2>1, <4>3, <4>4 DEF Then, ThenPhase, ThenAttempt, ThenQuery, ThenRest, Asking
      <4> QED BY <2>1, <4>5 DEF Onward
    <3> QED BY <3>1, <3>2 DEF Decision
  <2> QED BY <1>3, <2>2, <2>3 DEF Decide
<1>4. CASE Conclude(r)
  <2>1. CASE UNCHANGED ledgerVars
    BY <1>1, <1>4, <2>1, WorldStays, EndThen DEF Conclude, ledgerVars, Onward
  <2>2. CASE ~UNCHANGED ledgerVars
    <3>1. /\ status = "needs_reconciliation"
          /\ UNCHANGED <<patch, verification, effects, receipts>>
          /\ \/ status' = "manual_intervention"
             \/ At(r, "to_ready") /\ status' = "ready"
             \/ At(r, "to_stale") /\ status' = "stale"
      BY <1>4, <2>2 DEF Conclude, TryTransition, Transition
    <3>2. At(r, "to_ready") \/ At(r, "to_stale") =>
            \A e \in Effect : effects[e].status \in Settled
      BY <1>1 DEF At, Kept, QueryKept
    <3>3. World'
      BY <1>1, <3>1, <3>2, StatusMoves DEF World, Outcome2, VerifiedAsIs, Released
    <3> QED BY <1>1, <1>4, <3>3, EndThen DEF Conclude, Onward
  <2> QED BY <2>1, <2>2
<1> QED BY <1>3, <1>4

-----------------------------------------------------------------------------
(* An abort.                                                               *)

\* An abort begins while nothing was sent, and ends what was prepared.
LEMMA AbortOutcome ==
  ASSUME OutcomeInv, NEW r \in Request,
         \/ AbortCheck(r) \/ AbortBegin(r) \/ AbortEffects(r) \/ AbortWorkspace(r)
         \/ AbortEnd(r)
  PROVE  Onward(r)
<1>1. /\ ServiceInv /\ World /\ Kept(req[r]) /\ LocalOK(req[r])
      /\ UNCHANGED <<copies, late>>
  BY DEF OutcomeInv, ServiceInv, RequestsOK, AbortCheck, AbortBegin, AbortEffects,
         AbortWorkspace, AbortEnd, worldVars
<1>2. ASSUME UNCHANGED ledgerVars PROVE World' /\ effects' = effects
  BY <1>1, <1>2, WorldStays DEF ledgerVars
<1>3. ASSUME NEW pc \in {"remove", "aborted"}, Goto(r, pc),
             \A e \in Effect : effects'[e].status # "verified"
      PROVE  Then(req'[r])
  <2>1. req'[r].pc = pc
    BY <1>1, <1>3, GotoKeeps
  <2> QED BY <1>3, <2>1 DEF Then, ThenPhase, ThenAttempt, ThenQuery, ThenRest, Releasing,
                            Asking
<1>4. CASE AbortCheck(r)
  <2>1. End(r) \/ Goto(r, "aborting")
    BY <1>4 DEF AbortCheck
  <2> QED BY <1>1, <1>2, <1>4, <2>1, EndThen, GotoCarefree DEF AbortCheck, Carefree, Onward
<1>5. CASE AbortBegin(r)
  <2>1. CASE UNCHANGED ledgerVars /\ End(r)
    BY <1>1, <1>2, <2>1, EndThen DEF Onward
  <2>2. CASE Transition(req[r].from, "aborting", TRUE) /\ Goto(r, "abort_effects")
    <3>1. /\ status \in Abortable /\ status' = "aborting"
          /\ UNCHANGED <<patch, verification, effects, receipts>>
      BY <1>1, <1>5, <2>2 DEF AbortBegin, At, LocalOK, Transition
    <3>2. World'
      BY <1>1, <3>1, StatusMoves DEF World, Outcome1, Quiet, Abortable, Released
    <3> QED BY <1>1, <2>2, <3>2, GotoCarefree DEF Carefree, Onward
  <2> QED BY <1>5, <2>1, <2>2 DEF AbortBegin
<1>6. CASE AbortEffects(r)
  <2>1. CASE UNCHANGED ledgerVars /\ End(r)
    BY <1>1, <1>2, <2>1, EndThen DEF Onward
  <2>2. CASE AbortPreparedEffects /\ Goto(r, "remove")
    BY <1>1, <1>3, <2>2, EffectsAborted DEF Onward
  <2> QED BY <1>6, <2>1, <2>2 DEF AbortEffects
<1>7. CASE AbortWorkspace(r)
  <2>1. \A e \in Effect : effects[e].status # "verified"
    BY <1>1, <1>7 DEF AbortWorkspace, At, Kept, RestKept
  <2>2. UNCHANGED ledgerVars /\ Goto(r, "aborted")
    BY <1>7 DEF AbortWorkspace
  <2> QED BY <1>2, <1>3, <2>1, <2>2 DEF Onward
<1>8. CASE AbortEnd(r)
  <2>1. CASE UNCHANGED ledgerVars
    BY <1>1, <1>2, <1>8, <2>1, EndThen DEF AbortEnd, Onward
  <2>2. CASE ~UNCHANGED ledgerVars
    <3>1. /\ status = "aborting" /\ status' = "aborted"
          /\ UNCHANGED <<patch, verification, effects, receipts>>
      BY <1>8, <2>2 DEF AbortEnd, TryTransition, Transition
    <3>2. \A e \in Effect : effects[e].status \in Settled \ {"verified"}
      BY <1>1, <1>8, <3>1 DEF AbortEnd, At, Kept, RestKept, World, Outcome1, Quiet, Released
    <3>3. World'
      BY <1>1, <3>1, <3>2, StatusMoves DEF Settled
    <3> QED BY <1>1, <1>8, <3>3, EndThen DEF AbortEnd, Onward
  <2> QED BY <2>1, <2>2
<1> QED BY <1>4, <1>5, <1>6, <1>7, <1>8

-----------------------------------------------------------------------------
(* The invariant is inductive.                                             *)

\* No request has begun, no row is there and nothing was sent.
LEMMA OutcomeInit == Init => OutcomeInv
<1> SUFFICES ASSUME Init PROVE OutcomeInv
  OBVIOUS
<1>1. /\ status = "none" /\ \A e \in Effect : effects[e].status = "absent"
      /\ \A e \in Effect : receipts[e] = None /\ copies[e] = 0 /\ late[e] = 0
      /\ \A r \in Request : req[r] = Idle
  BY DEF Init, LedgerInit, NoEffect
<1>2. Outcome1
  BY <1>1 DEF Outcome1, Quiet, ReceiptsTold, Ended, Settled
<1>3. DependenciesCreated
  <2>1. \A e \in Effect : ~Exists(e)
    BY <1>1 DEF Exists
  <2>2. Created = {}
    BY <2>1 DEF Created
  <2>3. ~DependencyCycle
    BY <2>2 DEF DependencyCycle
  <2> QED BY <2>1, <2>3 DEF DependenciesCreated
<1>4. VerifiedAsIs
  BY <1>1 DEF VerifiedAsIs
<1>5. Outcome3
  BY <1>1 DEF Outcome3, NoForgottenRelease, AtMostOnce
<1>6. \A r \in Request : Kept(req[r])
  BY <1>1 DEF Idle, Kept, PhaseKept, AttemptKept, QueryKept, RestKept, Releasing, Asking
<1> QED BY <1>2, <1>3, <1>4, <1>5, <1>6, ServiceInit DEF OutcomeInv, World, Outcome2

\* A request's step, whichever it is.
LEMMA RequestOutcome ==
  ASSUME OutcomeInv, OneAtATime, NEW r \in Request, Ask(r) \/ Step(r)
  PROVE  Onward(r)
BY AskOutcome, AuthoringOutcome, PreflightOutcome, CommitOutcome, BranchOutcome, NextOutcome,
   AttemptOutcome, EffectOutcome, QueryOutcome, AnswerOutcome, DecideOutcome, AbortOutcome
   DEF Step

\* Everything else leaves what a request relies on, or there is no request left.
LEMMA ElseOutcome ==
  ASSUME OutcomeInv, CreateTransaction \/ Approve \/ Environment \/ UNCHANGED vars
  PROVE  World' /\ \A r \in Request : Kept(req[r])'
<1>1. /\ ServiceInv /\ World /\ \A r \in Request : Kept(req[r])
  BY DEF OutcomeInv
<1>2. ASSUME UNCHANGED Rows, UNCHANGED req \/ req' = [r \in Request |-> Idle]
      PROVE  World' /\ \A r \in Request : Kept(req[r])'
  <2>1. World'
    BY <1>1, <1>2, WorldStays DEF Rows
  <2>2. CASE UNCHANGED req
    <3>1. CommitPhase' = CommitPhase /\ VerificationMaterial' = VerificationMaterial
      BY <1>2 DEF Rows, CommitPhase, VerificationMaterial
    <3> QED BY <1>1, <1>2, <2>1, <2>2, <3>1
            DEF Rows, Kept, PhaseKept, AttemptKept, QueryKept, RestKept
  <2>3. CASE req' = [r \in Request |-> Idle]
    <3>1. \A r \in Request : req'[r].pc = "idle"
      BY <2>3 DEF Idle
    <3> QED BY <2>1, <3>1 DEF Kept, PhaseKept, AttemptKept, QueryKept, RestKept, Releasing,
                              Asking
  <2> QED BY <1>2, <2>2, <2>3
<1>3. CASE CreateTransaction
  <2>1. /\ status = "none" /\ status' = "active"
        /\ UNCHANGED <<patch, verification, effects, receipts, copies, late, req>>
    BY <1>3 DEF CreateTransaction, Create
  <2>2. World'
    BY <1>1, <2>1, StatusMoves DEF World, Outcome1, Quiet, Released
  <2>3. VerificationMaterial' = VerificationMaterial /\ ~CommitPhase
    BY <2>1 DEF VerificationMaterial, CommitPhase
  <2> QED BY <1>1, <2>1, <2>2, <2>3
          DEF Kept, PhaseKept, AttemptKept, QueryKept, RestKept
<1>4. CASE Approve \/ UNCHANGED vars
  BY <1>2, <1>4 DEF Approve, ApproveWithEvidence, Rows, vars, ledgerVars, worldVars
<1>5. CASE Environment
  <2>1. \A e \in Effect : ~LandLate(e)
    BY <1>1 DEF LandLate, World, Outcome3
  <2> QED BY <1>2, <1>5, <2>1 DEF Environment, Edit, MoveSource, Crash, LeaseTime, ExpireLease,
             DeleteExpiredLeases, ChangeProvider, Rows, ledgerVars, worldVars
<1> QED BY <1>3, <1>4, <1>5

\* Every step keeps the invariant.
LEMMA OutcomeNext ==
  ASSUME OutcomeInv, OneAtATime, [Next]_vars PROVE OutcomeInv'
<1>1. ServiceInv'
  BY ServiceNext DEF OutcomeInv, OneAtATime
<1>2. ASSUME NEW r \in Request, Ask(r) \/ Step(r)
      PROVE  World' /\ \A q \in Request : Kept(req[q])'
  BY <1>2, RequestOutcome, OneKeeps DEF Onward
<1>3. World' /\ \A q \in Request : Kept(req[q])'
  BY <1>2, ElseOutcome DEF Next
<1> QED BY <1>1, <1>3 DEF OutcomeInv

-----------------------------------------------------------------------------
(* The theorems.                                                           *)

\* "A blind duplicate mutation is prohibited": however calls fail, their answers get lost,
\* the daemon crashes, leases run out and recovery is asked for, no effect is applied
\* twice.
THEOREM AppliedAtMostOnce == ASSUME OneAtATime PROVE Spec => []AtMostOnce
<1>1. OutcomeInv => AtMostOnce
  BY DEF OutcomeInv, World, Outcome3
<1>2. OutcomeInv /\ [Next]_vars => OutcomeInv'
  BY OutcomeNext
<1> QED BY <1>1, <1>2, OutcomeInit, PTL DEF Spec

\* What made a transaction ready is the patch and the effects it has: recovery takes it
\* back to ready only with the evidence it left with.
THEOREM ReadyIsVerified == ASSUME OneAtATime PROVE Spec => []VerificationCurrent
<1>1. OutcomeInv => VerificationCurrent
  BY DEF OutcomeInv, World, Outcome2, VerifiedAsIs, VerificationCurrent
<1>2. OutcomeInv /\ [Next]_vars => OutcomeInv'
  BY OutcomeNext
<1> QED BY <1>1, <1>2, OutcomeInit, PTL DEF Spec

\* The audit's findings, one by one.
LEMMA AuditFinds == ASSUME OutcomeInv PROVE AuditIsClean
<1>1. /\ LedgerInv /\ World
  BY DEF OutcomeInv, ServiceInv
<1>2. ~(approval # None /\ approval.material # material)
  BY <1>1 DEF LedgerInv, ApprovalCurrent
<1>3. /\ ~(status = "committed" /\ materialized = None)
      /\ ~\E e \in Effect : EffectIs(e, {"committed"}) /\ receipts[e] = None
  BY <1>1 DEF LedgerInv, CommittedHasEvidence, EffectIs
<1>4. ~\E e \in Created : receipts[e] # None /\ ~EffectIs(e, {"committed"})
  BY <1>1 DEF World, Outcome1, ReceiptsTold, EffectIs, Created
<1>5. ~(/\ status \in {"committed", "aborted"}
        /\ \E e \in Effect : EffectIs(e, {"verified", "committing", "unknown"}))
  BY <1>1 DEF World, Outcome1, Ended, EffectIs
<1>6. ~DependencyCycle
  BY <1>1 DEF World, Outcome2, DependenciesCreated
<1>7. /\ status \notin {"needs_reconciliation", "manual_intervention"}
      /\ \E e \in Effect : EffectIs(e, {"unknown"})
      => status = "committing"
  BY <1>1 DEF World, Outcome1, Quiet, Ended, EffectIs, Settled, Released
<1> QED BY <1>2, <1>3, <1>4, <1>5, <1>6, <1>7 DEF AuditIsClean, Audit, Finding

\* What the ledger says of a transaction is what happened at its providers, at every
\* instant, crashes and lost answers included: released when it says so, not released
\* when it is aborted, on record whenever it may have been; and its tables agree.
THEOREM OutcomesAreHonest == ASSUME OneAtATime PROVE Spec => []OutcomeIsHonest
<1>1. OutcomeInv => AbortedUnreleased /\ NoForgottenRelease /\ AuditIsClean
  <2> SUFFICES ASSUME OutcomeInv
               PROVE  AbortedUnreleased /\ NoForgottenRelease /\ AuditIsClean
    OBVIOUS
  <2>1. AbortedUnreleased
    BY OutcomeTypes DEF OutcomeInv, World, Outcome1, Outcome3, Quiet, Settled, Released,
                        NoForgottenRelease, AbortedUnreleased
  <2> QED BY <2>1, AuditFinds DEF OutcomeInv, World, Outcome3
<1>2. OutcomeInv /\ [Next]_vars => OutcomeInv'
  BY OutcomeNext
<1>3. Spec => []CommittedIsReleased
  BY CommittedMeansReleased DEF OneAtATime
<1>4. OutcomeIsHonest <=> /\ CommittedIsReleased
                          /\ AbortedUnreleased /\ NoForgottenRelease /\ AuditIsClean
  BY DEF OutcomeIsHonest
<1> QED BY <1>1, <1>2, <1>3, <1>4, OutcomeInit, PTL DEF Spec

-----------------------------------------------------------------------------
(* The safe branch, while nobody recovers: requests may overlap in any     *)
(* way, and every fault may happen.                                        *)

\* Where a commit is once BeginCommit let it through, where a recovery is, and where a
\* commit is before.
Committing ==
  {"inspect", "materialize", "publish", "record_ref", "load", "next", "check", "post",
   "receipt", "unknown", "definite", "mark_effect", "mark", "finalize"}
Recovering ==
  {"reload", "query", "ask", "still_unknown", "rearm", "found", "decide", "manual",
   "to_ready", "to_stale"}
Before == {"pin", "preflight", "lease", "begin"}
Early == {"inspect", "materialize", "publish"}

\* A commit that was let through holds the transaction until it marks or ends it.
Placed(q) ==
  /\ q.op # "recover" /\ q.pc \notin Recovering
  /\ q.pc \in Before \cup Committing => q.op = "commit"
  /\ q.pc \in Committing => CommitPhase
  /\ q.pc \in Early => status = "committing"

\* ... and it is the only one.
Alone ==
  \A r, q \in Request : r # q /\ req[r].pc \in Committing => req[q].pc \notin Committing

PublishInv == ServiceInv /\ Alone /\ \A r \in Request : Placed(req[r])

\* What a request may rely on after a step.
PlacedNext(q) ==
  /\ q.op # "recover" /\ q.pc \notin Recovering
  /\ q.pc \in Before \cup Committing => q.op = "commit"
  /\ q.pc \in Committing => CommitPhase'
  /\ q.pc \in Early => status' = "committing"

\* A request that has ended is nowhere.
LEMMA EndPlaced ==
  ASSUME ServiceInv, NEW r \in Request, End(r)
  PROVE  PlacedNext(req'[r]) /\ req'[r].pc \notin Committing
<1>1. req'[r].pc = "idle" /\ req'[r].op = "idle"
  BY DEF End, ServiceInv, RequestsOK, Idle
<1> QED BY <1>1 DEF PlacedNext, Committing, Recovering, Before, Early

\* Before BeginCommit a request changes no status of a release that is under way, and
\* BeginCommit itself refuses it.
LEMMA OutsideStays ==
  ASSUME PublishInv, "recover" \notin Operation, NEW r \in Request, Ask(r) \/ Step(r),
         req[r].pc \notin Committing
  PROVE  /\ CommitPhase => status' = status /\ req'[r].pc \notin Committing
         /\ PlacedNext(req'[r])
<1>1. /\ ServiceInv /\ Placed(req[r]) /\ LocalOK(req[r])
      /\ req \in [Request -> ReqRecord]
  BY DEF PublishInv, ServiceInv, RequestsOK
<1> DEFINE Steady == CommitPhase => status' = status /\ req'[r].pc \notin Committing
<1>2. ASSUME Ask(r) PROVE Steady /\ PlacedNext(req'[r])
  <2>1. ~RecoverStart(r)
    BY DEF RecoverStart, Asked
  <2>2. UNCHANGED status
    BY <1>2, <2>1 DEF Ask, SealCapture, VerifyStart, CommitStart, AbortStart, PrepareRead,
                      RefreshRead, ledgerVars
  <2>3. \/ UNCHANGED req
        \/ /\ req'[r].op \in {"seal", "verify", "abort", "prepare", "refresh"}
           /\ req'[r].pc \in {"record_patch", "checks", "abort_check", "persist", "rebind"}
        \/ req'[r].op = "commit" /\ req'[r].pc = "pin"
    <3>1. CASE SealCapture(r)
      BY <1>1, <3>1 DEF SealCapture, ReqRecord
    <3>2. CASE VerifyStart(r) \/ CommitStart(r) \/ AbortStart(r)
      BY <1>1, <3>2 DEF VerifyStart, CommitStart, AbortStart, ReqRecord
    <3>3. ASSUME NEW e \in Effect, PrepareRead(r, e) \/ RefreshRead(r, e)
          PROVE  /\ req'[r].op \in {"prepare", "refresh"}
                 /\ req'[r].pc \in {"persist", "rebind"}
      BY <1>1, <3>3 DEF PrepareRead, RefreshRead, ReqRecord
    <3> QED BY <1>2, <2>1, <3>1, <3>2, <3>3 DEF Ask
  <2> QED BY <1>1, <2>2, <2>3 DEF Placed, PlacedNext, Committing, Recovering, Before, Early,
                                  CommitPhase
<1>3. CASE \/ SealRecord(r) \/ VerifyRecord(r) \/ PreparePersist(r) \/ RefreshPersist(r)
           \/ MarkStale(r) \/ AbortEnd(r)
  <2>1. End(r)
    BY <1>3 DEF SealRecord, VerifyRecord, PreparePersist, RefreshPersist, MarkStale, AbortEnd
  <2>2. CommitPhase => status' = status
    BY <1>3 DEF SealRecord, VerifyRecord, PreparePersist, RefreshPersist, MarkStale,
       AbortEnd, RecordPatch, RecordPatchOK, RecordVerification, RecordVerificationOK,
       CreateExternalEffect, RefreshExternalEffect, TryTransition, Transition, CommitPhase,
       ledgerVars
  <2> QED BY <1>1, <2>1, <2>2, EndPlaced
<1>4. CASE VerifyChecks(r)
  <2>1. /\ req'[r].pc = "record_verification" /\ req'[r].op = req[r].op
        /\ UNCHANGED status
    BY <1>1, <1>4 DEF VerifyChecks, ReqRecord, ledgerVars
  <2> QED BY <1>1, <2>1 DEF Placed, PlacedNext, Committing, Recovering, Before, Early
<1>5. CASE CommitPin(r) \/ Preflight(r) \/ TakeLease(r)
  <2>1. req[r].op = "commit"
    BY <1>1, <1>5 DEF CommitPin, Preflight, TakeLease, At, Placed, Before
  <2>2. UNCHANGED status
    BY <1>5 DEF CommitPin, Preflight, TakeLease, AcquireLease, ledgerVars
  <2>3. \/ End(r)
        \/ /\ req'[r].op = "commit"
           /\ req'[r].pc \in {"preflight", "lease", "mark_stale", "begin"}
    <3>1. ASSUME NEW pc, Goto(r, pc) PROVE req'[r].op = "commit" /\ req'[r].pc = pc
      BY <1>1, <2>1, <3>1, GotoKeeps
    <3>2. CASE CommitPin(r)
      BY <1>1, <2>1, <3>1, <3>2 DEF CommitPin, ReqRecord
    <3>3. CASE Preflight(r)
      BY <1>1, <2>1, <3>1, <3>3 DEF Preflight, At, ReqRecord
    <3>4. CASE TakeLease(r)
      BY <1>1, <2>1, <3>4 DEF TakeLease, ReqRecord
    <3> QED BY <1>5, <3>2, <3>3, <3>4
  <2>4. CASE End(r)
    BY <1>1, <2>2, <2>4, EndPlaced
  <2>5. CASE ~End(r)
    BY <2>2, <2>3, <2>5 DEF PlacedNext, Committing, Recovering, Before, Early
  <2> QED BY <2>4, <2>5
<1>6. CASE CommitBegin(r)
  <2>1. req[r].op = "commit"
    BY <1>1, <1>6 DEF CommitBegin, At, Placed, Before
  <2>2. CASE End(r) /\ UNCHANGED ledgerVars
    BY <1>1, <2>2, EndPlaced DEF ledgerVars
  <2>3. CASE BeginCommit(req[r].digest) /\ Goto(r, "inspect")
    <3>1. ~CommitPhase /\ status' = "committing"
      BY <2>3 DEF BeginCommit, BeginCommitOK, CommitPhase
    <3>2. req'[r].op = "commit" /\ req'[r].pc = "inspect"
      BY <1>1, <2>1, <2>3, GotoKeeps
    <3> QED BY <3>1, <3>2 DEF PlacedNext, Committing, Recovering, Before, Early, CommitPhase
  <2> QED BY <1>6, <2>2, <2>3 DEF CommitBegin
<1>7. CASE AbortCheck(r) \/ AbortBegin(r) \/ AbortEffects(r) \/ AbortWorkspace(r)
  <2>1. CommitPhase => status' = status
    BY <1>1, <1>7 DEF AbortCheck, AbortBegin, AbortEffects, AbortWorkspace, At, LocalOK,
       Transition, AbortPreparedEffects, Abortable, CommitPhase, ledgerVars
  <2>2. ASSUME NEW pc \in {"aborting", "abort_effects", "remove", "aborted"}, Goto(r, pc)
        PROVE  PlacedNext(req'[r]) /\ req'[r].pc \notin Committing
    <3>1. req'[r].pc = pc /\ req'[r].op = req[r].op
      BY <1>1, <2>2, GotoKeeps
    <3> QED BY <1>1, <2>2, <3>1
            DEF Placed, PlacedNext, Committing, Recovering, Before, Early
  <2>3. PlacedNext(req'[r]) /\ req'[r].pc \notin Committing
    BY <1>1, <1>7, <2>2, EndPlaced DEF AbortCheck, AbortBegin, AbortEffects, AbortWorkspace
  <2> QED BY <2>1, <2>3
<1>8. CASE \/ ReloadEffects(r) \/ QueryNext(r) \/ AskProvider(r) \/ StillUnknown(r)
           \/ Rearm(r) \/ RecordFound(r) \/ Decide(r) \/ Conclude(r)
  BY <1>1, <1>8 DEF ReloadEffects, QueryNext, AskProvider, StillUnknown, Rearm, RecordFound,
                    Decide, Conclude, At, Placed, Recovering
<1>9. ASSUME \/ Inspect(r) \/ AddWorktree(r) \/ PublishRef(r) \/ RecordRef(r)
             \/ LoadEffects(r) \/ NextEffect(r) \/ CheckProvider(r) \/ PostEffect(r)
             \/ RecordReceipt(r) \/ EffectUnknown(r) \/ EffectDefiniteFailure(r)
             \/ MarkEffect(r) \/ Mark(r) \/ Finalize(r)
      PROVE  FALSE
  BY <1>9 DEF Inspect, AddWorktree, PublishRef, RecordRef, LoadEffects, NextEffect,
     CheckProvider, PostEffect, RecordReceipt, EffectUnknown, EffectDefiniteFailure,
     MarkEffect, Mark, Finalize, At, Committing
<1> HIDE DEF Steady
<1>10. Steady /\ PlacedNext(req'[r])
  BY <1>2, <1>3, <1>4, <1>5, <1>6, <1>7, <1>8, <1>9 DEF Step, Steady
<1> QED BY <1>10 DEF Steady

\* Past BeginCommit the request stays a commit's; what it does to the status is to mark it,
\* on its way out, or to end it and itself.
LEMMA InsideStays ==
  ASSUME PublishInv, NEW r \in Request, Step(r), req[r].pc \in Committing
  PROVE  PlacedNext(req'[r])
<1>1. /\ ServiceInv /\ Placed(req[r]) /\ LocalOK(req[r])
      /\ req \in [Request -> ReqRecord] /\ req[r].op = "commit" /\ CommitPhase
      /\ req[r].pc \in Early => status = "committing"
  BY DEF PublishInv, ServiceInv, RequestsOK, Placed
<1>2. ASSUME CommitPhase', req'[r].op = "commit", req'[r].pc \in Committing \ Early
      PROVE  PlacedNext(req'[r])
  BY <1>2 DEF PlacedNext, Committing, Recovering, Before, Early
<1>3. ASSUME NEW pc \in Committing \ Early, Goto(r, pc), CommitPhase'
      PROVE  PlacedNext(req'[r])
  BY <1>1, <1>2, <1>3, GotoKeeps
<1>4. ASSUME Fail(r), CommitPhase' PROVE PlacedNext(req'[r])
  BY <1>1, <1>3, <1>4 DEF Fail, Committing, Early
<1>5. UNCHANGED status => CommitPhase'
  BY <1>1 DEF CommitPhase
<1>6. CASE Inspect(r) \/ AddWorktree(r) \/ PublishRef(r)
  <2>1. UNCHANGED status /\ status = "committing"
    BY <1>1, <1>6 DEF Inspect, AddWorktree, PublishRef, At, Early, ledgerVars
  <2>2. ASSUME NEW pc \in {"materialize", "publish", "record_ref"}, Goto(r, pc)
        PROVE  PlacedNext(req'[r])
    <3>1. req'[r].pc = pc /\ req'[r].op = "commit"
      BY <1>1, <2>2, GotoKeeps
    <3> QED BY <2>1, <3>1, <1>5 DEF PlacedNext, Committing, Recovering, Before, Early
  <2>3. ASSUME req' = [req EXCEPT ![r].pc = "record_ref", ![r].exists = TRUE]
        PROVE  PlacedNext(req'[r])
    <3>1. req'[r].pc = "record_ref" /\ req'[r].op = "commit"
      BY <1>1, <2>3 DEF ReqRecord
    <3> QED BY <1>2, <1>5, <2>1, <3>1 DEF Committing, Early
  <2> QED BY <1>1, <1>4, <1>5, <1>6, <2>1, <2>2, <2>3 DEF Inspect, AddWorktree, PublishRef
<1>7. CASE RecordRef(r) \/ NextEffect(r) \/ EffectUnknown(r) \/ EffectDefiniteFailure(r)
  <2>1. UNCHANGED status
    BY <1>7 DEF RecordRef, NextEffect, EffectUnknown, EffectDefiniteFailure,
       RecordMaterializedRef, BeginEffectAttempt, MarkEffectUnknown,
       MarkEffectDefiniteFailure, SetEffectStatus, ledgerVars
  <2>2. ASSUME NEW e, req' = [req EXCEPT ![r].pc = "check", ![r].effect = e]
        PROVE  PlacedNext(req'[r])
    <3>1. req'[r].pc = "check" /\ req'[r].op = "commit"
      BY <1>1, <2>2 DEF ReqRecord
    <3> QED BY <1>2, <1>5, <2>1, <3>1 DEF Committing, Early
  <2>3. CASE RecordRef(r)
    BY <1>1, <1>3, <1>4, <1>5, <2>1, <2>3 DEF RecordRef, Committing, Early
  <2>4. CASE NextEffect(r)
    BY <1>3, <1>4, <1>5, <2>1, <2>2, <2>4 DEF NextEffect, Committing, Early
  <2>5. CASE EffectUnknown(r) \/ EffectDefiniteFailure(r)
    BY <1>3, <1>5, <2>1, <2>5 DEF EffectUnknown, EffectDefiniteFailure, Committing, Early
  <2> QED BY <1>7, <2>3, <2>4, <2>5
<1>8. CASE LoadEffects(r)
  <2> DEFINE todo == {e \in Effect : Exists(e) /\ effects[e].status # "committed"}
             done == {e \in Effect : effects[e].status = "committed"}
  <2>1. req' = [req EXCEPT ![r].pc = "next", ![r].rows = effects, ![r].todo = todo,
                           ![r].done = done] /\ UNCHANGED status
    BY <1>8 DEF LoadEffects, ledgerVars
  <2> HIDE DEF todo, done
  <2>2. req'[r].pc = "next" /\ req'[r].op = "commit"
    BY <1>1, <2>1 DEF ReqRecord
  <2> QED BY <1>2, <1>5, <2>1, <2>2 DEF Committing, Early
<1>9. CASE CheckProvider(r) \/ PostEffect(r)
  <2>1. UNCHANGED status
    BY <1>9 DEF CheckProvider, PostEffect, ledgerVars
  <2>2. ASSUME NEW answer, req' = [req EXCEPT ![r].pc = "receipt", ![r].answer = answer]
        PROVE  PlacedNext(req'[r])
    <3>1. req'[r].pc = "receipt" /\ req'[r].op = "commit"
      BY <1>1, <2>2 DEF ReqRecord
    <3> QED BY <1>2, <1>5, <2>1, <3>1 DEF Committing, Early
  <2>3. \/ \E pc \in {"unknown", "definite", "post"} : Goto(r, pc)
        \/ \E answer : req' = [req EXCEPT ![r].pc = "receipt", ![r].answer = answer]
    BY <1>9 DEF CheckProvider, PostEffect
  <2> QED BY <1>3, <1>5, <2>1, <2>2, <2>3 DEF Committing, Early
<1>10. CASE RecordReceipt(r)
  <2>1. UNCHANGED status
    BY <1>10 DEF RecordReceipt, RecordEffectCommitted, ledgerVars
  <2>2. Goto(r, "mark_effect") \/ (req'[r].pc = "next" /\ req'[r].op = "commit")
    BY <1>1, <1>10 DEF RecordReceipt, ReqRecord
  <2> QED BY <1>2, <1>3, <1>5, <2>1, <2>2 DEF Committing, Early
<1>11. CASE MarkEffect(r)
  <2>1. CommitPhase'
    BY <1>1, <1>11 DEF MarkEffect, TryMark, TryTransition, Transition, ledgerVars, CommitPhase
  <2> QED BY <1>4, <1>11, <2>1 DEF MarkEffect
<1>12. CASE Mark(r)
  BY <1>1, <1>12, EndPlaced DEF Mark
<1>13. CASE Finalize(r)
  BY <1>1, <1>4, <1>5, <1>13, EndPlaced DEF Finalize, ledgerVars
<1>14. ASSUME ~Inspect(r), ~AddWorktree(r), ~PublishRef(r), ~RecordRef(r), ~LoadEffects(r),
              ~NextEffect(r), ~CheckProvider(r), ~PostEffect(r), ~RecordReceipt(r),
              ~EffectUnknown(r), ~EffectDefiniteFailure(r), ~MarkEffect(r), ~Mark(r),
              ~Finalize(r)
       PROVE  FALSE
  BY <1>14 DEF Step, SealRecord, VerifyChecks, VerifyRecord, PreparePersist, RefreshPersist,
     CommitPin, Preflight, MarkStale, TakeLease, CommitBegin, ReloadEffects, QueryNext,
     AskProvider, StillUnknown, Rearm, RecordFound, Decide, Conclude, AbortCheck, AbortBegin,
     AbortEffects, AbortWorkspace, AbortEnd, At, Committing
<1> QED BY <1>6, <1>7, <1>8, <1>9, <1>10, <1>11, <1>12, <1>13, <1>14

\* Nobody else changes what a commit under way relies on.
LEMMA PublishNext ==
  ASSUME PublishInv, "recover" \notin Operation, Nat \ {0} \subseteq Receipt, [Next]_vars
  PROVE  PublishInv'
<1>1. ServiceInv' /\ ServiceInv /\ RequestsOK
  BY ServiceNext DEF PublishInv, ServiceInv
<1>2. ASSUME NEW r \in Request, Ask(r) \/ Step(r)
      PROVE  Alone' /\ \A q \in Request : Placed(req[q])'
  <2>1. \A q \in Request : q # r => req'[q] = req[q]
    BY <1>1, <1>2, OthersStay
  <2>2. Ask(r) => req[r].pc = "idle"
    <3>1. Ask(r) => req[r] = Idle
      BY DEF Ask, SealCapture, VerifyStart, CommitStart, RecoverStart, AbortStart,
             PrepareRead, RefreshRead, Asked
    <3> QED BY <3>1 DEF Idle
  <2>3. PlacedNext(req'[r])
    BY <1>2, <2>2, OutsideStays, InsideStays DEF Committing
  <2>4. Placed(req[r])'
    BY <2>3 DEF Placed, PlacedNext
  <2>5. ASSUME NEW q \in Request, q # r PROVE Placed(req[q])'
    <3>1. CASE req[q].pc \in Committing
      <4>1. req[r].pc \notin Committing /\ CommitPhase
        BY <2>5, <3>1 DEF PublishInv, Alone, Placed
      <4>2. status' = status
        BY <1>2, <4>1, OutsideStays
      <4> QED BY <2>1, <2>5, <4>2 DEF PublishInv, Placed, CommitPhase
    <3>2. CASE req[q].pc \notin Committing
      BY <2>1, <2>5, <3>2 DEF PublishInv, Placed, Committing, Early
    <3> QED BY <3>1, <3>2
  <2>6. ASSUME NEW q \in Request, q # r, req[q].pc \in Committing
        PROVE  req'[r].pc \notin Committing
    <3>1. req[r].pc \notin Committing /\ CommitPhase
      BY <2>6 DEF PublishInv, Alone, Placed
    <3> QED BY <1>2, <3>1, OutsideStays
  <2>7. Alone'
    BY <2>1, <2>6 DEF Alone, PublishInv
  <2> QED BY <2>4, <2>5, <2>7
<1>3. ASSUME UNCHANGED req, CommitPhase => status' = status
      PROVE  Alone' /\ \A q \in Request : Placed(req[q])'
  BY <1>3 DEF PublishInv, Alone, Placed, CommitPhase, Committing, Early
<1>4. CASE CreateTransaction \/ Approve \/ UNCHANGED vars
  <2>1. UNCHANGED req /\ (status' = status \/ status = "none")
    BY <1>4 DEF CreateTransaction, Create, Approve, ApproveWithEvidence, vars, ledgerVars
  <2>2. CommitPhase => status' = status
    BY <2>1 DEF CommitPhase
  <2> QED BY <1>1, <1>3, <2>1, <2>2 DEF PublishInv
<1>5. CASE Crash
  <2>1. \A q \in Request : req'[q].pc = "idle" /\ req'[q].op = "idle"
    BY <1>5 DEF Crash, Idle
  <2> QED BY <1>1, <2>1
          DEF PublishInv, Alone, Placed, Committing, Recovering, Before, Early
<1>6. CASE Environment /\ ~Crash
  <2>1. UNCHANGED req /\ status' = status
    BY <1>6 DEF Environment, Edit, MoveSource, LeaseTime, ExpireLease,
       DeleteExpiredLeases, ChangeProvider, LandLate, ledgerVars
  <2> QED BY <1>1, <1>3, <2>1 DEF PublishInv
<1> DEFINE Fine == Alone' /\ \A q \in Request : Placed(req[q])'
<1>7. Fine
  <2>1. \A r \in Request : Ask(r) \/ Step(r) => Fine
    BY <1>2
  <2>2. CreateTransaction \/ Approve \/ Environment \/ UNCHANGED vars => Fine
    BY <1>4, <1>5, <1>6 DEF PublishInv
  <2> HIDE DEF Fine
  <2> QED BY <2>1, <2>2 DEF Next
<1> QED BY <1>1, <1>7 DEF PublishInv

\* Requests may overlap, fail and crash in any way, and the patch file may be replaced
\* under a commit: the safe branch still appears once, while the transaction is
\* committing, with the tree that was approved.
THEOREM PublishedAsApproved ==
  ASSUME "recover" \notin Operation, Nat \ {0} \subseteq Receipt
  PROVE  Spec => PublishedUnderApproval
<1>1. Init => PublishInv
  <2>1. Init => Alone /\ \A r \in Request : Placed(req[r])
    BY DEF Init, Idle, Alone, Placed, Committing, Recovering, Before, Early
  <2> QED BY <2>1, ServiceInit DEF PublishInv
<1>2. PublishInv /\ [Next]_vars => PublishInv'
  BY PublishNext
<1> DEFINE Appears == intRef' # intRef =>
                        /\ intRef = None /\ status = "committing"
                        /\ approval # None /\ approval.patch = intRef'
<1>3. PublishInv /\ [Next]_vars => [Appears]_vars
  <2> SUFFICES ASSUME PublishInv, [Next]_vars, intRef' # intRef
               PROVE  /\ intRef = None /\ status = "committing"
                      /\ approval # None /\ approval.patch = intRef'
    OBVIOUS
  <2>1. PICK r \in Request : PublishRef(r)
    BY WorldStep DEF PublishInv, LandLate, PostEffect
  <2>2. intRef = None /\ intRef' = patch /\ status = "committing"
    BY <2>1 DEF PublishRef, At, PublishInv, Placed, Early
  <2> QED BY <2>2 DEF PublishInv, ServiceInv, LedgerInv, ApprovalHeld, ApprovalCurrent,
                      Released
<1> QED BY <1>1, <1>2, <1>3, PTL DEF Spec, PublishedUnderApproval
=============================================================================
