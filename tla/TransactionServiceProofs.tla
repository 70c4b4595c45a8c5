---------------------- MODULE TransactionServiceProofs ----------------------
(***************************************************************************)
(* Proofs about TransactionService: however its requests interleave, fail  *)
(* and crash, every step is one call of a ledger method with arguments the *)
(* ledger's specification allows, or leaves the ledger alone.  What        *)
(* TransactionLedgerProofs proves of the ledger therefore holds of the     *)
(* service.                                                                *)
(***************************************************************************)
EXTENDS TransactionService, TransactionLedgerProofs, WellFoundedInduction

-----------------------------------------------------------------------------
(* The invariant.                                                          *)

\* The places a request can be at: those where it uses no local variable whose
\* value matters to the ledger, and the others.
Plain == {"idle", "pin", "preflight", "lease", "mark_stale", "begin", "inspect",
          "mark", "materialize", "publish", "record_ref", "load", "next",
          "finalize", "reload", "query", "decide", "manual", "to_stale",
          "to_ready", "mark_effect", "abort_effects", "remove", "aborted"}

Place == Plain \cup {"record_patch", "checks", "record_verification", "persist",
                     "rebind", "check", "post", "receipt", "unknown",
                     "definite", "ask", "still_unknown", "rearm", "found",
                     "abort_check", "aborting"}

ReqOp == {"idle", "seal", "verify", "prepare", "refresh", "commit", "recover",
          "abort"}

\* The values a local variable can have, unset included.
SomeTree == Tree \cup {None}
SomeDigest == ApprovalDigest \cup VerificationDigest \cup {None}
SomeEffect == Effect \cup {None}
SomeDoc == Version \cup {None}
SomeState == Abortable \cup {"none"}
SomeAnswer == Nat \cup {None}

ReqRecord ==
  [op : ReqOp, pc : Place, tree : SomeTree, digest : SomeDigest,
   effect : SomeEffect, doc : SomeDoc, from : SomeState, token : Nat,
   rows : [Effect -> EffectRow], todo : SUBSET Effect, done : SUBSET Effect,
   exists : BOOLEAN, all : BOOLEAN, any : BOOLEAN, answer : SomeAnswer]

\* Where a request is about to use a local variable, the variable has a value
\* the ledger method takes.
LocalOK(q) ==
  /\ q.pc = "record_patch" => q.tree \in Tree
  /\ q.pc \in {"checks", "record_verification"} => q.digest \in VerificationDigest
  /\ q.pc \in {"persist", "rebind"} => q.doc \in Version
  /\ q.pc \in {"persist", "rebind", "check", "post", "receipt", "unknown",
               "definite", "ask", "still_unknown", "rearm", "found"}
       => q.effect \in Effect
  /\ q.pc \in {"receipt", "found"} => q.answer \in Nat \ {0}
  /\ q.pc \in {"abort_check", "aborting"} => q.from \in Abortable

RequestsOK ==
  /\ req \in [Request -> ReqRecord]
  /\ \A r \in Request : LocalOK(req[r])

WorldOK ==
  /\ workspace \in Tree \cup {None}
  /\ version \in [Effect -> Version]
  /\ copies \in [Effect -> Nat] /\ late \in [Effect -> Nat]
  /\ owner \in Coordinator

\* What was sealed once has its patch, an abort's ends aside.
SealedPatch ==
  status \notin {"none", "active", "aborting", "aborted"} => patch # None

ServiceInv == LedgerInv /\ SealedPatch /\ RequestsOK /\ WorldOK

\* Rank orders the effects, so commit order has a first one.
LEMMA FirstIsOne == ASSUME NEW S \in SUBSET Effect, S # {} PROVE First(S) \in S
<1> DEFINE T == {Rank[e] : e \in S}
           R == OpToRel(<, Nat)
<1>1. T \subseteq Nat /\ T # {}
  BY KindAssumption
<1>2. IsWellFoundedOn(R, Nat)
  BY NatLessThanWellFounded
<1>3. PICK n \in T : \A m \in T : <<m, n>> \notin R
  <2> HIDE DEF R, T
  <2> QED BY <1>1, <1>2, WFMin
<1>4. \A m \in T : n <= m
  <2> SUFFICES ASSUME NEW m \in T PROVE n <= m
    OBVIOUS
  <2>1. n \in Nat /\ m \in Nat
    BY <1>1
  <2>2. ~(m < n)
    BY <1>3, <2>1 DEF OpToRel
  <2> HIDE DEF T, R
  <2> QED BY <2>1, <2>2
<1>5. \E e \in S : \A f \in S : Rank[e] <= Rank[f]
  BY <1>3, <1>4
<1> QED BY <1>5 DEF First

-----------------------------------------------------------------------------
(* Every step is a ledger method call, or leaves the ledger alone.         *)

\* Each step of a request, and what it passes to which method.
LEMMA StepCallsLedger ==
  ASSUME ServiceInv, Nat \ {0} \subseteq Receipt, NEW r \in Request, Step(r)
  PROVE  LedgerNext \/ UNCHANGED ledgerVars
<1> USE DEF ServiceInv, At
<1>1. CASE SealRecord(r)
  BY <1>1 DEF SealRecord, RequestsOK, LocalOK, LedgerNext
<1>2. CASE VerifyRecord(r)
  BY <1>2 DEF VerifyRecord, RequestsOK, LocalOK, LedgerNext
<1>3. CASE PreparePersist(r)
  BY <1>3 DEF PreparePersist, RequestsOK, LocalOK, LedgerNext
<1>4. CASE RefreshPersist(r)
  BY <1>4 DEF RefreshPersist, RequestsOK, LocalOK, LedgerNext
<1>5. CASE MarkStale(r)
  BY <1>5 DEF MarkStale, TryTransition, LedgerNext, NamedTransition
<1>6. CASE TakeLease(r)
  BY <1>6 DEF TakeLease, WorldOK, LedgerNext
<1>7. CASE CommitBegin(r)
  BY <1>7 DEF CommitBegin, LedgerNext, BeginCommit, BeginCommitOK
<1>8. CASE RecordRef(r)
  <2>1. RecordMaterializedRef(patch) => patch \in Tree
    BY DEF RecordMaterializedRef, RecordMaterializedRefOK, CommitPhase, SealedPatch,
           LedgerInv, LedgerTypeOK
  <2> QED BY <1>8, <2>1 DEF RecordRef, LedgerNext
<1>9. CASE Finalize(r)
  BY <1>9 DEF Finalize, LedgerNext
<1>10. CASE NextEffect(r)
  <2> DEFINE e == First(req[r].todo)
  <2>1. req[r].todo # {} => e \in Effect
    BY FirstIsOne DEF RequestsOK, ReqRecord
  <2>2. BeginEffectAttempt(e, "commit", req[r].token)
          => BeginEffectAttempt(e, "commit", lease.token)
    BY DEF BeginEffectAttempt, BeginEffectAttemptOK, Fenced
  <2> HIDE DEF e
  <2>3. req[r].todo # {} /\ BeginEffectAttempt(e, "commit", req[r].token) => LedgerNext
    BY <2>1, <2>2 DEF LedgerNext
  <2> QED BY <1>10, <2>3 DEF NextEffect, e
<1>11. CASE RecordReceipt(r)
  <2> DEFINE e == req[r].effect
  <2>1. e \in Effect /\ req[r].answer \in Receipt
    BY <1>11 DEF RecordReceipt, RequestsOK, LocalOK
  <2>2. RecordEffectCommitted(e, req[r].token, req[r].answer)
          => RecordEffectCommitted(e, lease.token, req[r].answer)
    BY DEF RecordEffectCommitted, RecordEffectCommittedOK, Fenced
  <2> QED BY <1>11, <2>1, <2>2 DEF RecordReceipt, LedgerNext
<1>12. CASE EffectUnknown(r) \/ StillUnknown(r)
  <2>1. req[r].effect \in Effect
    BY <1>12 DEF EffectUnknown, StillUnknown, RequestsOK, LocalOK
  <2>2. MarkEffectUnknown(req[r].effect, req[r].token)
          => MarkEffectUnknown(req[r].effect, lease.token)
    BY DEF MarkEffectUnknown, Fenced
  <2> QED BY <1>12, <2>1, <2>2 DEF EffectUnknown, StillUnknown, LedgerNext
<1>13. CASE EffectDefiniteFailure(r)
  <2>1. req[r].effect \in Effect
    BY <1>13 DEF EffectDefiniteFailure, RequestsOK, LocalOK
  <2>2. MarkEffectDefiniteFailure(req[r].effect, req[r].token)
          => MarkEffectDefiniteFailure(req[r].effect, lease.token)
    BY DEF MarkEffectDefiniteFailure, Fenced
  <2> QED BY <1>13, <2>1, <2>2 DEF EffectDefiniteFailure, LedgerNext
<1>14. CASE MarkEffect(r) \/ Mark(r)
  BY <1>14 DEF MarkEffect, Mark, TryMark, TryTransition, LedgerNext,
               MarkNeedsReconciliation
<1>15. CASE QueryNext(r)
  <2> DEFINE e == First(req[r].todo)
  <2>1. req[r].todo # {} => e \in Effect
    BY FirstIsOne DEF RequestsOK, ReqRecord
  <2>2. BeginEffectAttempt(e, "status", req[r].token)
          => BeginEffectAttempt(e, "status", lease.token)
    BY DEF BeginEffectAttempt, BeginEffectAttemptOK, Fenced
  <2> HIDE DEF e
  <2>3. req[r].todo # {} /\ BeginEffectAttempt(e, "status", req[r].token) => LedgerNext
    BY <2>1, <2>2 DEF LedgerNext
  <2> QED BY <1>15, <2>3 DEF QueryNext, e
<1>16. CASE Rearm(r)
  <2>1. req[r].effect \in Effect
    BY <1>16 DEF Rearm, RequestsOK, LocalOK
  <2>2. RearmEffect(req[r].effect, req[r].token)
          => RearmEffect(req[r].effect, lease.token)
    BY DEF RearmEffect, Fenced
  <2> QED BY <1>16, <2>1, <2>2 DEF Rearm, LedgerNext
<1>17. CASE RecordFound(r)
  <2> DEFINE e == req[r].effect
  <2>1. e \in Effect /\ req[r].answer \in Receipt
    BY <1>17 DEF RecordFound, RequestsOK, LocalOK
  <2>2. RecordEffectCommitted(e, req[r].token, req[r].answer)
          => RecordEffectCommitted(e, lease.token, req[r].answer)
    BY DEF RecordEffectCommitted, RecordEffectCommittedOK, Fenced
  <2> QED BY <1>17, <2>1, <2>2 DEF RecordFound, LedgerNext
<1>18. CASE Conclude(r)
  BY <1>18 DEF Conclude, TryTransition, LedgerNext, NamedTransition
<1>19. CASE AbortBegin(r)
  BY <1>19 DEF AbortBegin, RequestsOK, LocalOK, LedgerNext, NamedTransition
<1>20. CASE AbortEffects(r)
  BY <1>20 DEF AbortEffects, LedgerNext
<1>21. CASE AbortEnd(r)
  BY <1>21 DEF AbortEnd, TryTransition, LedgerNext, NamedTransition
<1>22. CASE \/ VerifyChecks(r) \/ CommitPin(r) \/ Preflight(r) \/ Inspect(r)
            \/ AddWorktree(r) \/ PublishRef(r) \/ LoadEffects(r)
            \/ CheckProvider(r) \/ PostEffect(r) \/ ReloadEffects(r)
            \/ AskProvider(r) \/ Decide(r) \/ AbortCheck(r) \/ AbortWorkspace(r)
  BY <1>22 DEF VerifyChecks, CommitPin, Preflight, Inspect, AddWorktree,
     PublishRef, LoadEffects, CheckProvider, PostEffect, ReloadEffects,
     AskProvider, Decide, AbortCheck, AbortWorkspace
<1> QED
  BY <1>1, <1>2, <1>3, <1>4, <1>5, <1>6, <1>7, <1>8, <1>9, <1>10, <1>11,
     <1>12, <1>13, <1>14, <1>15, <1>16, <1>17, <1>18, <1>19, <1>20, <1>21,
     <1>22, Step(r) DEF Step

\* The other steps of the service: new requests, approval, the environment.
LEMMA NextCallsLedger ==
  ASSUME ServiceInv, Nat \ {0} \subseteq Receipt, [Next]_vars
  PROVE  [LedgerNext]_ledgerVars
<1>1. CASE CreateTransaction
  BY <1>1 DEF CreateTransaction, LedgerNext
<1>2. CASE Approve
  BY <1>2 DEF Approve, LedgerNext
<1>3. CASE Environment
  BY <1>3 DEF Environment, Edit, MoveSource, Crash, LeaseTime, ChangeProvider,
              LandLate, LedgerNext
<1>4. ASSUME NEW r \in Request, Ask(r) PROVE [LedgerNext]_ledgerVars
  BY <1>4 DEF Ask, SealCapture, VerifyStart, CommitStart, RecoverStart,
              AbortStart, PrepareRead, RefreshRead, LedgerNext
<1>5. ASSUME NEW r \in Request, Step(r) PROVE [LedgerNext]_ledgerVars
  BY <1>5, StepCallsLedger
<1>6. CASE UNCHANGED vars
  BY <1>6 DEF vars
<1> QED
  BY <1>1, <1>2, <1>3, <1>4, <1>5, <1>6 DEF Next

-----------------------------------------------------------------------------
(* The ledger's own steps keep the sealed patch.                           *)

\* Leaving the states before the seal and the abort takes RecordPatch.
LEMMA KeepsSealedPatch ==
  LedgerInv /\ SealedPatch /\ [LedgerNext]_ledgerVars => SealedPatch'
<1> SUFFICES ASSUME LedgerInv, SealedPatch, [LedgerNext]_ledgerVars
             PROVE  SealedPatch'
  OBVIOUS
<1>1. CASE \E tree \in Tree : RecordPatch(tree)
  BY <1>1, NoneAssumption DEF RecordPatch, SealedPatch
<1>2. CASE NamedTransition \/ MarkNeedsReconciliation
  BY <1>2 DEF NamedTransition, MarkNeedsReconciliation, Transition, SealedPatch,
              L!CanTransition, L!transactionTransitions, L!TxState, LedgerInv, Reached
<1>3. CASE \/ Create \/ ApproveWithEvidence(ApprovalMaterial)
           \/ BeginCommit(approval) \/ FinalizeTransactionCommit
           \/ AbortPreparedEffects
           \/ \E digest \in VerificationDigest, results \in CheckResults :
                RecordVerification(digest, results)
  BY <1>3 DEF Create, ApproveWithEvidence, BeginCommit, BeginCommitOK,
     FinalizeTransactionCommit, FinalizeOK, CommitPhase, AbortPreparedEffects,
     RecordVerification, RecordVerificationOK, SealedPatch
<1>4. CASE UNCHANGED <<status, patch>>
  BY <1>4 DEF SealedPatch
<1>5. ASSUME \/ \E tree \in Tree : RecordMaterializedRef(tree)
             \/ \E o \in Coordinator : AcquireLease(o)
             \/ ExpireLease \/ DeleteExpiredLeases
             \/ \E e \in Effect, doc \in Version :
                  CreateExternalEffect(e, doc) \/ RefreshExternalEffect(e, doc)
             \/ \E e \in Effect :
                  \/ \E phase \in {"commit", "status"} :
                       BeginEffectAttempt(e, phase, lease.token)
                  \/ MarkEffectUnknown(e, lease.token)
                  \/ MarkEffectDefiniteFailure(e, lease.token)
                  \/ RearmEffect(e, lease.token)
                  \/ \E receipt \in Receipt :
                       RecordEffectCommitted(e, lease.token, receipt)
      PROVE  UNCHANGED <<status, patch>>
  BY <1>5 DEF RecordMaterializedRef, AcquireLease, ExpireLease, DeleteExpiredLeases,
     CreateExternalEffect, RefreshExternalEffect, BeginEffectAttempt,
     MarkEffectUnknown, MarkEffectDefiniteFailure, RearmEffect, SetEffectStatus,
     RecordEffectCommitted
<1>6. UNCHANGED ledgerVars => UNCHANGED <<status, patch>>
  BY DEF ledgerVars
<1> QED
  BY <1>1, <1>2, <1>3, <1>4, <1>5, <1>6 DEF LedgerNext

-----------------------------------------------------------------------------
(* One request moves and its local variables keep their types.             *)

\* One request gets new local variables.
LEMMA OneMoves ==
  ASSUME RequestsOK, NEW r \in Request, NEW q \in ReqRecord, LocalOK(q),
         req' = [req EXCEPT ![r] = q]
  PROVE  RequestsOK'
  BY DEF RequestsOK

\* A request that has ended.
LEMMA IdleOK == Idle \in ReqRecord /\ LocalOK(Idle)
<1>1. [e \in Effect |-> NoEffect] \in [Effect -> EffectRow]
  BY DEF NoEffect, EffectRow, EffectState
<1>2. Idle \in ReqRecord
  <2> /\ "idle" \in ReqOp /\ "idle" \in Place /\ "none" \in SomeState
      /\ None \in SomeTree /\ None \in SomeDigest /\ None \in SomeEffect
      /\ None \in SomeDoc /\ None \in SomeAnswer
    BY DEF ReqOp, Place, Plain, SomeState, SomeTree, SomeDigest, SomeEffect,
           SomeDoc, SomeAnswer
  <2> QED BY <1>1 DEF Idle, ReqRecord
<1>3. LocalOK(Idle)
  BY DEF Idle, LocalOK
<1> QED
  BY <1>2, <1>3

\* The request ends.
LEMMA EndOK ==
  ASSUME RequestsOK, NEW r \in Request, End(r) PROVE RequestsOK'
  BY OneMoves, IdleOK DEF End

\* Only the place changes.
LEMMA GotoOK ==
  ASSUME RequestsOK, NEW r \in Request, NEW pc \in Place, Goto(r, pc),
         LocalOK([req[r] EXCEPT !.pc = pc])
  PROVE  RequestsOK'
<1> DEFINE q == [req[r] EXCEPT !.pc = pc]
<1>1. q \in ReqRecord
  BY DEF RequestsOK, ReqRecord
<1>2. req' = [req EXCEPT ![r] = q]
  BY DEF Goto, RequestsOK
<1> QED
  BY <1>1, <1>2, OneMoves

\* Only the place changes, to one that uses no local variable.
LEMMA GotoPlain ==
  ASSUME RequestsOK, NEW r \in Request, NEW pc \in Plain, Goto(r, pc)
  PROVE  RequestsOK'
<1> DEFINE q == [req[r] EXCEPT !.pc = pc]
<1>1. pc \in Place
  BY DEF Place
<1>2. q.pc = pc
  BY DEF RequestsOK, ReqRecord
<1>3. LocalOK(q)
  <2> HIDE DEF q
  <2> QED BY <1>2 DEF LocalOK, Plain
<1> QED
  BY <1>1, <1>3, GotoOK

\* A commit goes on to mark, a recovery ends.
LEMMA FailOK ==
  ASSUME RequestsOK, NEW r \in Request, Fail(r) PROVE RequestsOK'
  BY GotoPlain, EndOK DEF Fail, Plain

\* What each kind of request starts with.
LEMMA AskKeepsRequests ==
  ASSUME ServiceInv, NEW r \in Request, Ask(r) PROVE RequestsOK'
<1> USE DEF ServiceInv
<1>1. CASE SealCapture(r)
  <2> DEFINE q == [req[r] EXCEPT !.op = "seal", !.pc = "record_patch", !.tree = workspace]
  <2>1. CASE UNCHANGED req
    BY <2>1 DEF RequestsOK
  <2>2. CASE workspace # None /\ req' = [req EXCEPT ![r].op = "seal",
                             ![r].pc = "record_patch", ![r].tree = workspace]
    <3> /\ workspace \in Tree /\ workspace \in SomeTree
        /\ "seal" \in ReqOp /\ "record_patch" \in Place
      BY <2>2 DEF WorldOK, ReqOp, Place, SomeTree
    <3>1. q \in ReqRecord
      BY DEF RequestsOK, ReqRecord
    <3>2. q.pc = "record_patch" /\ q.tree = workspace
      BY DEF RequestsOK, ReqRecord
    <3>3. req' = [req EXCEPT ![r] = q]
      BY <2>2 DEF RequestsOK
    <3>4. LocalOK(q)
      <4> HIDE DEF q
      <4> QED BY <3>1, <3>2 DEF LocalOK
    <3> HIDE DEF q
    <3> QED BY <3>1, <3>3, <3>4, OneMoves
  <2> QED BY <1>1, <2>1, <2>2 DEF SealCapture
<1>2. CASE VerifyStart(r)
  <2> DEFINE q == [req[r] EXCEPT !.op = "verify", !.pc = "checks",
                                 !.digest = VerificationMaterial]
  <2>1. patch \in Tree
    BY <1>2 DEF VerifyStart, SealedPatch, LedgerInv, LedgerTypeOK
  <2>2. VerificationMaterial \in VerificationDigest
    BY <2>1 DEF VerificationMaterial, VerificationDigest, LedgerInv,
                LedgerTypeOK, EffectRow
  <2> /\ "verify" \in ReqOp /\ "checks" \in Place
      /\ VerificationMaterial \in SomeDigest
    BY <2>2 DEF ReqOp, Place, SomeDigest
  <2>3. q \in ReqRecord
    BY <2>2 DEF RequestsOK, ReqRecord
  <2>4. q.pc = "checks" /\ q.digest = VerificationMaterial
    BY DEF RequestsOK, ReqRecord
  <2>5. req' = [req EXCEPT ![r] = q]
    BY <1>2 DEF VerifyStart, RequestsOK
  <2>6. LocalOK(q)
    <3> HIDE DEF q
    <3> QED BY <2>2, <2>4 DEF LocalOK
  <2> HIDE DEF q
  <2> QED BY <2>3, <2>5, <2>6, OneMoves
<1>3. CASE CommitStart(r)
  <2> DEFINE q == [req[r] EXCEPT !.op = "commit", !.pc = "pin", !.digest = approval]
  <2> "commit" \in ReqOp /\ "pin" \in Place
    BY DEF ReqOp, Place, Plain
  <2> approval \in SomeDigest
    BY DEF LedgerInv, LedgerTypeOK, SomeDigest
  <2>1. q \in ReqRecord
    BY DEF RequestsOK, ReqRecord
  <2>2. q.pc = "pin"
    BY DEF RequestsOK, ReqRecord
  <2>3. req' = [req EXCEPT ![r] = q]
    BY <1>3 DEF CommitStart, RequestsOK
  <2>4. LocalOK(q)
    <3> HIDE DEF q
    <3> QED BY <2>2 DEF LocalOK
  <2> HIDE DEF q
  <2> QED BY <2>1, <2>3, <2>4, OneMoves
<1>4. CASE RecoverStart(r)
  <2> DEFINE q == [req[r] EXCEPT !.op = "recover", !.pc = "lease"]
  <2> "recover" \in ReqOp /\ "lease" \in Place
    BY DEF ReqOp, Place, Plain
  <2>1. q \in ReqRecord
    BY DEF RequestsOK, ReqRecord
  <2>2. q.pc = "lease"
    BY DEF RequestsOK, ReqRecord
  <2>3. req' = [req EXCEPT ![r] = q]
    BY <1>4 DEF RecoverStart, Start, RequestsOK
  <2>4. LocalOK(q)
    <3> HIDE DEF q
    <3> QED BY <2>2 DEF LocalOK
  <2> HIDE DEF q
  <2> QED BY <2>1, <2>3, <2>4, OneMoves
<1>5. CASE AbortStart(r)
  <2> DEFINE q == [req[r] EXCEPT !.op = "abort", !.pc = "abort_check", !.from = status]
  <2> "abort" \in ReqOp /\ "abort_check" \in Place /\ status \in SomeState
    BY <1>5 DEF ReqOp, Place, AbortStart, SomeState
  <2>1. q \in ReqRecord
    BY DEF RequestsOK, ReqRecord
  <2>2. q.pc = "abort_check" /\ q.from \in Abortable
    BY <1>5 DEF AbortStart, RequestsOK, ReqRecord
  <2>3. req' = [req EXCEPT ![r] = q]
    BY <1>5 DEF AbortStart, RequestsOK
  <2>4. LocalOK(q)
    <3> HIDE DEF q
    <3> QED BY <2>2 DEF LocalOK
  <2> HIDE DEF q
  <2> QED BY <2>1, <2>3, <2>4, OneMoves
<1>6. ASSUME NEW e \in Effect, PrepareRead(r, e) \/ RefreshRead(r, e)
      PROVE  RequestsOK'
  <2>1. PICK op \in {"prepare", "refresh"}, pc \in {"persist", "rebind"} :
          req' = [req EXCEPT ![r].op = op, ![r].pc = pc,
                             ![r].effect = e, ![r].doc = version[e]]
    BY <1>6 DEF PrepareRead, RefreshRead
  <2> DEFINE q == [req[r] EXCEPT !.op = op, !.pc = pc, !.effect = e,
                                 !.doc = version[e]]
  <2>2. version[e] \in Version
    BY DEF WorldOK
  <2> op \in ReqOp /\ pc \in Place /\ e \in SomeEffect /\ version[e] \in SomeDoc
    BY <2>2 DEF ReqOp, Place, SomeEffect, SomeDoc
  <2>3. q \in ReqRecord
    BY <2>2 DEF RequestsOK, ReqRecord
  <2>4. q.pc = pc /\ q.effect = e /\ q.doc = version[e]
    BY DEF RequestsOK, ReqRecord
  <2>5. req' = [req EXCEPT ![r] = q]
    BY <2>1 DEF RequestsOK
  <2>6. LocalOK(q)
    <3> HIDE DEF q
    <3> QED BY <2>2, <2>4 DEF LocalOK
  <2> HIDE DEF q
  <2> QED BY <2>3, <2>5, <2>6, OneMoves
<1> QED
  BY <1>1, <1>2, <1>3, <1>4, <1>5, <1>6 DEF Ask
\* The effect in hand stays in hand.
LEMMA GotoEffect ==
  ASSUME RequestsOK, NEW r \in Request, req[r].effect \in Effect,
         NEW pc \in {"unknown", "definite", "post", "still_unknown", "rearm"},
         Goto(r, pc)
  PROVE  RequestsOK'
<1> DEFINE q == [req[r] EXCEPT !.pc = pc]
<1>1. pc \in Place
  BY DEF Place
<1>2. q.pc = pc /\ q.effect = req[r].effect
  BY DEF RequestsOK, ReqRecord
<1>3. LocalOK(q)
  <2> HIDE DEF q
  <2> QED BY <1>2 DEF LocalOK
<1> QED
  BY <1>1, <1>3, GotoOK

\* Recording the provider's answer before the receipt is written.
LEMMA AnswerOK ==
  ASSUME RequestsOK, NEW r \in Request, req[r].effect \in Effect,
         NEW pc \in {"receipt", "found"}, NEW answer \in Nat \ {0},
         req' = [req EXCEPT ![r].pc = pc, ![r].answer = answer]
  PROVE  RequestsOK'
<1> DEFINE q == [req[r] EXCEPT !.pc = pc, !.answer = answer]
<1>1. pc \in Place /\ answer \in SomeAnswer
  BY DEF Place, SomeAnswer
<1>2. q \in ReqRecord
  BY <1>1 DEF RequestsOK, ReqRecord
<1>3. q.pc = pc /\ q.answer = answer /\ q.effect = req[r].effect
  BY <1>1 DEF RequestsOK, ReqRecord
<1>4. req' = [req EXCEPT ![r] = q]
  BY DEF RequestsOK
<1>5. LocalOK(q)
  <2> HIDE DEF q
  <2> QED BY <1>1, <1>3 DEF LocalOK
<1> HIDE DEF q
<1> QED BY <1>2, <1>4, <1>5, OneMoves

\* On to a place that uses no local variable.
LEMMA MovesPlain ==
  ASSUME RequestsOK, NEW r \in Request, NEW q \in ReqRecord,
         q.pc \in Plain, req' = [req EXCEPT ![r] = q]
  PROVE  RequestsOK'
<1>1. LocalOK(q)
  BY DEF LocalOK, Plain
<1> QED
  BY <1>1, OneMoves
\* One step per action of a request in progress.
LEMMA StepKeepsRequests ==
  ASSUME ServiceInv, NEW r \in Request, Step(r) PROVE RequestsOK'
<1> USE DEF ServiceInv, At
<1>1. CASE \/ SealRecord(r) \/ VerifyRecord(r) \/ PreparePersist(r)
           \/ RefreshPersist(r) \/ MarkStale(r) \/ Mark(r) \/ StillUnknown(r)
           \/ Conclude(r) \/ AbortEnd(r)
  BY <1>1, EndOK DEF SealRecord, VerifyRecord, PreparePersist, RefreshPersist,
     MarkStale, Mark, StillUnknown, Conclude, AbortEnd
<1>2. CASE \/ CommitBegin(r) \/ AddWorktree(r) \/ PublishRef(r) \/ RecordRef(r)
           \/ Finalize(r) \/ EffectUnknown(r) \/ EffectDefiniteFailure(r)
           \/ MarkEffect(r) \/ AbortBegin(r) \/ AbortEffects(r) \/ AbortWorkspace(r)
  <2> USE DEF Plain
  <2>1. CASE CommitBegin(r) \/ AddWorktree(r) \/ PublishRef(r)
    BY <2>1, EndOK, GotoPlain, FailOK DEF CommitBegin, AddWorktree, PublishRef
  <2>2. CASE RecordRef(r) \/ Finalize(r) \/ MarkEffect(r)
    BY <2>2, EndOK, GotoPlain, FailOK DEF RecordRef, Finalize, MarkEffect
  <2>3. CASE EffectUnknown(r) \/ EffectDefiniteFailure(r)
    BY <2>3, GotoPlain DEF EffectUnknown, EffectDefiniteFailure
  <2>4. CASE AbortBegin(r) \/ AbortEffects(r) \/ AbortWorkspace(r)
    BY <2>4, EndOK, GotoPlain DEF AbortBegin, AbortEffects, AbortWorkspace
  <2> QED BY <1>2, <2>1, <2>2, <2>3, <2>4
<1>3. CASE Decide(r)
  <2>1. Decision(r) \in Plain
    BY DEF Decision, Plain
  <2> QED BY <1>3, <2>1, EndOK, GotoPlain DEF Decide
<1>4. CASE AbortCheck(r)
  <2>1. ASSUME Goto(r, "aborting") PROVE RequestsOK'
    <3> DEFINE q == [req[r] EXCEPT !.pc = "aborting"]
    <3>1. q.pc = "aborting" /\ q.from = req[r].from
      BY DEF RequestsOK, ReqRecord
    <3>2. req[r].from \in Abortable
      BY <1>4 DEF AbortCheck, RequestsOK, LocalOK
    <3>3. LocalOK(q)
      <4> HIDE DEF q
      <4> QED BY <3>1, <3>2 DEF LocalOK
    <3> QED BY <2>1, <3>3, GotoOK DEF Place
  <2> QED BY <1>4, <2>1, EndOK DEF AbortCheck
<1>5. CASE VerifyChecks(r)
  <2> DEFINE q == [req[r] EXCEPT !.pc = "record_verification", !.tree = workspace]
  <2>1. "record_verification" \in Place /\ workspace \in SomeTree
    BY DEF Place, SomeTree, WorldOK
  <2>2. q \in ReqRecord
    BY <2>1 DEF RequestsOK, ReqRecord
  <2>3. q.pc = "record_verification" /\ q.digest = req[r].digest
    BY DEF RequestsOK, ReqRecord
  <2>4. req' = [req EXCEPT ![r] = q]
    BY <1>5 DEF VerifyChecks, RequestsOK
  <2>5. req[r].digest \in VerificationDigest
    BY <1>5 DEF VerifyChecks, RequestsOK, LocalOK
  <2>6. LocalOK(q)
    <3> HIDE DEF q
    <3> QED BY <2>3, <2>5 DEF LocalOK
  <2> HIDE DEF q
  <2> QED BY <2>2, <2>4, <2>6, OneMoves
<1>6. CASE CommitPin(r)
  <2> DEFINE todo == {e \in Effect : Exists(e) /\ effects[e].status # "committed"}
             q == [req[r] EXCEPT !.pc = "preflight", !.rows = effects, !.todo = todo]
  <2>1. ASSUME req' = [req EXCEPT ![r].pc = "preflight", ![r].rows = effects,
                                  ![r].todo = todo]
        PROVE  RequestsOK'
    <3>1. /\ "preflight" \in Place /\ todo \in SUBSET Effect
          /\ effects \in [Effect -> EffectRow]
      BY DEF Place, Plain, LedgerInv, LedgerTypeOK
    <3> HIDE DEF todo
    <3>2. q \in ReqRecord /\ q.pc = "preflight"
      BY <3>1 DEF RequestsOK, ReqRecord
    <3>3. req' = [req EXCEPT ![r] = q]
      BY <2>1 DEF RequestsOK
    <3> QED BY <3>2, <3>3, MovesPlain DEF Plain
  <2> QED BY <1>6, <2>1, EndOK, GotoPlain DEF CommitPin, Plain
<1>7. CASE Preflight(r)
  <2>1. ASSUME NEW todo, todo = req[r].todo \ {First(req[r].todo)},
               req' = [req EXCEPT ![r].todo = todo]
        PROVE  RequestsOK'
    <3> DEFINE q == [req[r] EXCEPT !.todo = todo]
    <3>1. todo \in SUBSET Effect /\ q.pc = "preflight"
      BY <1>7, <2>1 DEF Preflight, RequestsOK, ReqRecord
    <3>2. q \in ReqRecord
      BY <3>1 DEF RequestsOK, ReqRecord
    <3>3. req' = [req EXCEPT ![r] = q]
      BY <2>1 DEF RequestsOK
    <3> QED BY <3>1, <3>2, <3>3, MovesPlain DEF Plain
  <2>2. [req EXCEPT ![r].todo = @ \ {First(req[r].todo)}]
          = [req EXCEPT ![r].todo = req[r].todo \ {First(req[r].todo)}]
    BY DEF RequestsOK
  <2> QED BY <1>7, <2>1, <2>2, EndOK, GotoPlain DEF Preflight, Plain<1>8. CASE TakeLease(r)
  <2>1. ASSUME NEW pc \in {"begin", "inspect"},
               req' = [req EXCEPT ![r].token = lease.token + 1, ![r].pc = pc]
        PROVE  RequestsOK'
    <3> DEFINE q == [req[r] EXCEPT !.token = lease.token + 1, !.pc = pc]
    <3>1. pc \in Plain /\ pc \in Place /\ lease.token + 1 \in Nat
      BY DEF Plain, Place, LedgerInv, LedgerTypeOK, Lease
    <3>2. q \in ReqRecord
      BY <3>1 DEF RequestsOK, ReqRecord
    <3>3. q.pc \in Plain
      BY <3>1 DEF RequestsOK, ReqRecord
    <3>4. req' = [req EXCEPT ![r] = q]
      BY <2>1 DEF RequestsOK
    <3> HIDE DEF q
    <3> QED BY <3>2, <3>3, <3>4, MovesPlain
  <2> QED BY <1>8, <2>1, EndOK DEF TakeLease
<1>9. CASE Inspect(r)
  <2>1. ASSUME req' = [req EXCEPT ![r].pc = "record_ref", ![r].exists = TRUE]
        PROVE  RequestsOK'
    <3> DEFINE q == [req[r] EXCEPT !.pc = "record_ref", !.exists = TRUE]
    <3>1. "record_ref" \in Plain /\ "record_ref" \in Place
      BY DEF Plain, Place
    <3>2. q \in ReqRecord
      BY <3>1 DEF RequestsOK, ReqRecord
    <3>3. q.pc \in Plain
      BY <3>1 DEF RequestsOK, ReqRecord
    <3>4. req' = [req EXCEPT ![r] = q]
      BY <2>1 DEF RequestsOK
    <3> HIDE DEF q
    <3> QED BY <3>2, <3>3, <3>4, MovesPlain
  <2> QED BY <1>9, <2>1, FailOK, GotoPlain DEF Inspect, Plain
<1>10. CASE LoadEffects(r)
  <2> DEFINE todo == {e \in Effect : Exists(e) /\ effects[e].status # "committed"}
             done == {e \in Effect : effects[e].status = "committed"}
             q == [req[r] EXCEPT !.pc = "next", !.rows = effects, !.todo = todo,
                                 !.done = done]
  <2>1. /\ "next" \in Plain /\ "next" \in Place
        /\ todo \in SUBSET Effect /\ done \in SUBSET Effect
        /\ effects \in [Effect -> EffectRow]
    BY DEF Place, Plain, LedgerInv, LedgerTypeOK
  <2>2. req' = [req EXCEPT ![r].pc = "next", ![r].rows = effects,
                           ![r].todo = todo, ![r].done = done]
    BY <1>10 DEF LoadEffects
  <2> HIDE DEF todo, done
  <2>3. q \in ReqRecord
    BY <2>1 DEF RequestsOK, ReqRecord
  <2>4. q.pc \in Plain
    BY <2>1 DEF RequestsOK, ReqRecord
  <2>5. req' = [req EXCEPT ![r] = q]
    BY <2>2 DEF RequestsOK
  <2> HIDE DEF q
  <2> QED BY <2>3, <2>4, <2>5, MovesPlain
<1>11. CASE NextEffect(r) \/ QueryNext(r)
  <2>1. ASSUME NEW e \in Effect, NEW pc \in {"check", "ask"},
               req' = [req EXCEPT ![r].pc = pc, ![r].effect = e]
        PROVE  RequestsOK'
    <3> DEFINE q == [req[r] EXCEPT !.pc = pc, !.effect = e]
    <3>1. pc \in Place /\ e \in SomeEffect
      BY DEF Place, SomeEffect
    <3>2. q \in ReqRecord
      BY <3>1 DEF RequestsOK, ReqRecord
    <3>3. q.pc = pc /\ q.effect = e
      BY DEF RequestsOK, ReqRecord
    <3>4. req' = [req EXCEPT ![r] = q]
      BY <2>1 DEF RequestsOK
    <3>5. LocalOK(q)
      <4> HIDE DEF q
      <4> QED BY <3>3 DEF LocalOK
    <3> HIDE DEF q
    <3> QED BY <3>2, <3>4, <3>5, OneMoves
  <2>2. req[r].todo # {} => First(req[r].todo) \in Effect
    BY FirstIsOne DEF RequestsOK, ReqRecord
  <2> QED BY <1>11, <2>1, <2>2, FailOK, EndOK, GotoPlain DEF NextEffect, QueryNext, Plain
<1>12. CASE CheckProvider(r) \/ AskProvider(r)
  <2>1. req[r].effect \in Effect
    BY <1>12 DEF CheckProvider, AskProvider, RequestsOK, LocalOK
  <2>2. ASSUME NEW e \in Effect, Found(e) PROVE Observed(e) \in Nat \ {0}
    BY <2>2 DEF Found, Observed, WorldOK
  <2>3. CASE CheckProvider(r)
    BY <2>1, <2>2, <2>3, GotoEffect, AnswerOK DEF CheckProvider
  <2>4. CASE AskProvider(r)
    BY <2>1, <2>2, <2>4, GotoEffect, AnswerOK, GotoPlain DEF AskProvider, Plain
  <2> QED BY <1>12, <2>3, <2>4
<1>13. CASE PostEffect(r)
  <2>1. req[r].effect \in Effect
    BY <1>13 DEF PostEffect, RequestsOK, LocalOK
  <2>2. copies[req[r].effect] + 1 \in Nat \ {0}
    BY <2>1 DEF WorldOK
  <2> QED BY <1>13, <2>1, <2>2, GotoEffect, AnswerOK DEF PostEffect
<1>14. CASE RecordReceipt(r)
  <2>1. ASSUME NEW e \in Effect,
               req' = [req EXCEPT ![r].pc = "next", ![r].effect = None,
                                  ![r].answer = None, ![r].todo = @ \ {e},
                                  ![r].done = @ \cup {e}]
        PROVE  RequestsOK'
    <3> DEFINE q == [req[r] EXCEPT !.pc = "next", !.effect = None, !.answer = None,
                                   !.todo = @ \ {e}, !.done = @ \cup {e}]
    <3>1. /\ "next" \in Plain /\ "next" \in Place /\ None \in SomeEffect
          /\ None \in SomeAnswer
      BY DEF Plain, Place, SomeEffect, SomeAnswer
    <3>2. q \in ReqRecord
      BY <3>1 DEF RequestsOK, ReqRecord
    <3>3. q.pc \in Plain
      BY <3>1 DEF RequestsOK, ReqRecord
    <3>4. req' = [req EXCEPT ![r] = q]
      BY <2>1 DEF RequestsOK
    <3> HIDE DEF q
    <3> QED BY <3>2, <3>3, <3>4, MovesPlain
  <2>2. req[r].effect \in Effect
    BY <1>14 DEF RecordReceipt, RequestsOK, LocalOK
  <2> QED BY <1>14, <2>1, <2>2, GotoPlain DEF RecordReceipt, Plain
<1>15. CASE ReloadEffects(r)
  <2> DEFINE todo == {e \in Effect : effects[e].status \in {"unknown", "committing"}}
             any == \E e \in Effect : effects[e].status = "committed"
             all == \A e \in Effect : effects[e].status # "verified"
             q == [req[r] EXCEPT !.pc = "query", !.rows = effects, !.todo = todo,
                                 !.any = any, !.all = all]
  <2>1. /\ "query" \in Plain /\ "query" \in Place
        /\ todo \in SUBSET Effect /\ any \in BOOLEAN /\ all \in BOOLEAN
        /\ effects \in [Effect -> EffectRow]
    BY DEF Place, Plain, LedgerInv, LedgerTypeOK
  <2>2. req' = [req EXCEPT ![r].pc = "query", ![r].rows = effects,
                           ![r].todo = todo, ![r].any = any, ![r].all = all]
    BY <1>15 DEF ReloadEffects
  <2> HIDE DEF todo, any, all
  <2>3. q \in ReqRecord
    BY <2>1 DEF RequestsOK, ReqRecord
  <2>4. q.pc \in Plain
    BY <2>1 DEF RequestsOK, ReqRecord
  <2>5. req' = [req EXCEPT ![r] = q]
    BY <2>2 DEF RequestsOK
  <2> HIDE DEF q
  <2> QED BY <2>3, <2>4, <2>5, MovesPlain
<1>16. CASE Rearm(r)
  <2>1. ASSUME NEW e \in Effect,
               req' = [req EXCEPT ![r].pc = "query", ![r].effect = None,
                                  ![r].todo = @ \ {e}, ![r].all = FALSE]
        PROVE  RequestsOK'
    <3> DEFINE q == [req[r] EXCEPT !.pc = "query", !.effect = None,
                                   !.todo = @ \ {e}, !.all = FALSE]
    <3>1. "query" \in Plain /\ "query" \in Place /\ None \in SomeEffect
      BY DEF Plain, Place, SomeEffect
    <3>2. q \in ReqRecord
      BY <3>1 DEF RequestsOK, ReqRecord
    <3>3. q.pc \in Plain
      BY <3>1 DEF RequestsOK, ReqRecord
    <3>4. req' = [req EXCEPT ![r] = q]
      BY <2>1 DEF RequestsOK
    <3> HIDE DEF q
    <3> QED BY <3>2, <3>3, <3>4, MovesPlain
  <2>2. req[r].effect \in Effect
    BY <1>16 DEF Rearm, RequestsOK, LocalOK
  <2> QED BY <1>16, <2>1, <2>2, EndOK DEF Rearm
<1>17. CASE RecordFound(r)
  <2>1. ASSUME NEW e \in Effect,
               req' = [req EXCEPT ![r].pc = "query", ![r].effect = None,
                                  ![r].answer = None, ![r].todo = @ \ {e},
                                  ![r].any = TRUE]
        PROVE  RequestsOK'
    <3> DEFINE q == [req[r] EXCEPT !.pc = "query", !.effect = None, !.answer = None,
                                   !.todo = @ \ {e}, !.any = TRUE]
    <3>1. /\ "query" \in Plain /\ "query" \in Place /\ None \in SomeEffect
          /\ None \in SomeAnswer
      BY DEF Plain, Place, SomeEffect, SomeAnswer
    <3>2. q \in ReqRecord
      BY <3>1 DEF RequestsOK, ReqRecord
    <3>3. q.pc \in Plain
      BY <3>1 DEF RequestsOK, ReqRecord
    <3>4. req' = [req EXCEPT ![r] = q]
      BY <2>1 DEF RequestsOK
    <3> HIDE DEF q
    <3> QED BY <3>2, <3>3, <3>4, MovesPlain
  <2>2. req[r].effect \in Effect
    BY <1>17 DEF RecordFound, RequestsOK, LocalOK
  <2> QED BY <1>17, <2>1, <2>2, GotoPlain DEF RecordFound, Plain
<1> QED
  BY <1>1, <1>2, <1>3, <1>4, <1>5, <1>6, <1>7, <1>8, <1>9, <1>10, <1>11,
     <1>12, <1>13, <1>14, <1>15, <1>16, <1>17, Step(r) DEF Step
-----------------------------------------------------------------------------
(* The world around the ledger keeps its types.                            *)

\* A crash, a new request or a step leaves every request well formed.
LEMMA NextKeepsRequests ==
  ASSUME ServiceInv, [Next]_vars PROVE RequestsOK'
<1> USE DEF ServiceInv
<1>1. CASE Crash
  <2>1. req' = [r \in Request |-> Idle]
    BY <1>1 DEF Crash
  <2> QED BY <2>1, IdleOK DEF RequestsOK
<1>2. ASSUME NEW r \in Request, Ask(r) PROVE RequestsOK'
  BY <1>2, AskKeepsRequests
<1>3. ASSUME NEW r \in Request, Step(r) PROVE RequestsOK'
  BY <1>3, StepKeepsRequests
<1>4. CASE UNCHANGED req
  BY <1>4 DEF RequestsOK
<1>5. CASE CreateTransaction \/ Approve \/ (Environment /\ ~Crash) \/ UNCHANGED vars
  <2>1. UNCHANGED req
    BY <1>5 DEF CreateTransaction, Approve, Environment, Edit, MoveSource, LeaseTime,
                ChangeProvider, LandLate, vars
  <2> QED BY <2>1, <1>4
<1> QED
  BY <1>1, <1>2, <1>3, <1>5 DEF Next

\* Working copy, provider versions, applications and calls on their way.
LEMMA NextKeepsWorld ==
  ASSUME ServiceInv, [Next]_vars PROVE WorldOK'
<1> USE DEF ServiceInv
<1>1. CASE UNCHANGED <<workspace, version, copies, late, owner>>
  BY <1>1 DEF WorldOK
<1>2. CASE CreateTransaction
  BY <1>2, ServiceAssumption DEF CreateTransaction, StageWorkspace, WorldOK
<1>3. CASE Approve \/ UNCHANGED vars
  BY <1>1, <1>3 DEF Approve, vars, worldVars
<1>4. CASE Environment
  <2>1. CASE \E tree \in Tree : Edit(tree)
    BY <2>1 DEF Edit, WorldOK
  <2>2. CASE MoveSource \/ LeaseTime
    BY <1>1, <2>2 DEF MoveSource, LeaseTime, worldVars
  <2>3. CASE Crash
    BY <2>3 DEF Crash, WorldOK
  <2>4. ASSUME NEW e \in Effect, ChangeProvider(e) PROVE WorldOK'
    BY <2>4 DEF ChangeProvider, WorldOK
  <2>5. ASSUME NEW e \in Effect, LandLate(e) PROVE WorldOK'
    <3>1. late[e] - 1 \in Nat /\ copies[e] + 1 \in Nat
      BY <2>5 DEF LandLate, WorldOK
    <3>2. late' = [late EXCEPT ![e] = late[e] - 1]
          /\ copies' \in {copies, [copies EXCEPT ![e] = copies[e] + 1]}
      BY <2>5 DEF LandLate, WorldOK
    <3>3. UNCHANGED <<workspace, version, owner>>
      BY <2>5 DEF LandLate
    <3> QED BY <3>1, <3>2, <3>3 DEF WorldOK
  <2> QED BY <1>4, <2>1, <2>2, <2>3, <2>4, <2>5 DEF Environment
<1>5. ASSUME NEW r \in Request, Ask(r) PROVE WorldOK'
  <2>1. UNCHANGED <<workspace, version, copies, late, owner>>
    BY <1>5 DEF Ask, SealCapture, VerifyStart, CommitStart, RecoverStart,
       AbortStart, PrepareRead, RefreshRead, worldVars
  <2> QED BY <2>1, <1>1
<1>6. ASSUME NEW r \in Request, Step(r) PROVE WorldOK'
  <2>1. CASE AbortWorkspace(r)
    BY <2>1 DEF AbortWorkspace, WorldOK
  <2>2. CASE PostEffect(r)
    <3> DEFINE e == req[r].effect
    <3>1. copies' \in {copies, [copies EXCEPT ![e] = @ + 1]}
          /\ late' \in {late, [late EXCEPT ![e] = @ + 1]}
          /\ UNCHANGED <<workspace, version, owner>>
      BY <2>2 DEF PostEffect
    <3>2. e \in Effect
      BY <2>2 DEF PostEffect, At, RequestsOK, LocalOK
    <3> HIDE DEF e
    <3> QED BY <3>1, <3>2 DEF WorldOK
  <2>3. CASE ~AbortWorkspace(r) /\ ~PostEffect(r)
    <3>1. UNCHANGED <<workspace, version, copies, late, owner>>
      BY <1>6, <2>3 DEF Step, SealRecord, VerifyChecks, VerifyRecord,
         PreparePersist, RefreshPersist, CommitPin, Preflight, MarkStale,
         TakeLease, CommitBegin, Inspect, AddWorktree, PublishRef, RecordRef,
         LoadEffects, NextEffect, CheckProvider, RecordReceipt, EffectUnknown,
         EffectDefiniteFailure, MarkEffect, Mark, Finalize, ReloadEffects,
         QueryNext, AskProvider, StillUnknown, Rearm, RecordFound, Decide,
         Conclude, AbortCheck, AbortBegin, AbortEffects, AbortEnd, worldVars
    <3> QED BY <3>1, <1>1
  <2> QED BY <2>1, <2>2, <2>3
<1> QED
  BY <1>2, <1>3, <1>4, <1>5, <1>6 DEF Next

-----------------------------------------------------------------------------
(* The theorems.  Receipts must be numbered without bound: the service     *)
(* records the number of the application its provider found.               *)

\* Before the transaction is created.
LEMMA ServiceInit == Init => ServiceInv
<1> SUFFICES ASSUME Init PROVE ServiceInv
  OBVIOUS
<1>1. LedgerInv
  BY InitInv DEF Init
<1>2. SealedPatch
  BY DEF Init, LedgerInit, SealedPatch
<1>3. RequestsOK
  BY IdleOK DEF Init, RequestsOK
<1>4. (CHOOSE v \in Version : TRUE) \in Version
  BY ServiceAssumption
<1>5. WorldOK
  BY <1>4 DEF Init, WorldOK
<1> QED BY <1>1, <1>2, <1>3, <1>5 DEF ServiceInv

\* The invariant is inductive.
LEMMA ServiceNext ==
  ASSUME ServiceInv, Nat \ {0} \subseteq Receipt, [Next]_vars
  PROVE  ServiceInv'
<1>1. [LedgerNext]_ledgerVars
  BY NextCallsLedger
<1>2. LedgerInv'
  BY <1>1, NextInv DEF ServiceInv
<1>3. SealedPatch'
  BY <1>1, KeepsSealedPatch DEF ServiceInv
<1> QED BY <1>2, <1>3, NextKeepsRequests, NextKeepsWorld DEF ServiceInv

\* However requests of internal/app interleave, fail, time out and crash, the
\* rows of a transaction change only as calls of the repository's methods
\* change them: no request passes a method an argument it does not take, and
\* none writes past them.
THEOREM ServiceImplementsLedger ==
  ASSUME Nat \ {0} \subseteq Receipt PROVE Spec => LedgerSpec
<1>1. Init => LedgerInit
  BY DEF Init
<1>2. ServiceInv /\ [Next]_vars => [LedgerNext]_ledgerVars
  BY NextCallsLedger
<1>3. ServiceInv /\ [Next]_vars => ServiceInv'
  BY ServiceNext
<1> QED
  BY <1>1, <1>2, <1>3, ServiceInit, PTL DEF Spec, LedgerSpec

-----------------------------------------------------------------------------
(* The rest of the shape.                                                  *)

GitOK ==
  /\ checked \in Tree \cup {None} /\ patchFile \in Tree \cup {None}
  /\ intRef \in Tree \cup {None}
  /\ integration \in {"clean", "in_use", "left", "registered"}
  /\ taken \subseteq Effect /\ attempts \in 0 .. MaxAttempts

TokensOK == \A r \in Request : req[r].token \in 0 .. MaxToken

\* Patch file, safe branch, integration worktree and the commit attempts.
LEMMA NextKeepsGit ==
  ASSUME ServiceInv, GitOK, [Next]_vars PROVE GitOK'
<1> USE DEF ServiceInv
<1>1. CASE UNCHANGED <<checked, patchFile, intRef, integration, taken, attempts>>
  BY <1>1 DEF GitOK
<1>2. CASE CreateTransaction \/ Approve \/ UNCHANGED vars
  BY <1>1, <1>2 DEF CreateTransaction, Approve, vars, worldVars
<1>3. CASE Environment
  <2>1. CASE Crash
    BY <2>1 DEF Crash, GitOK
  <2>2. ASSUME NEW e \in Effect, ChangeProvider(e) PROVE GitOK'
    BY <2>2 DEF ChangeProvider, GitOK
  <2>3. CASE \/ \E tree \in Tree : Edit(tree)
             \/ MoveSource \/ LeaseTime
             \/ \E e \in Effect : LandLate(e)
    BY <1>1, <2>3 DEF Edit, MoveSource, LeaseTime, LandLate, worldVars
  <2> QED BY <1>3, <2>1, <2>2, <2>3 DEF Environment
<1>4. ASSUME NEW r \in Request, Ask(r) PROVE GitOK'
  <2>1. CASE SealCapture(r)
    BY <2>1 DEF SealCapture, GitOK, WorldOK
  <2>2. CASE CommitStart(r) \/ RecoverStart(r)
    <3>1. attempts + 1 \in 0 .. MaxAttempts
      BY <2>2, ServiceAssumption DEF CommitStart, RecoverStart, GitOK
    <3>2. /\ attempts' = attempts + 1
          /\ UNCHANGED <<checked, patchFile, intRef, integration, taken>>
      BY <2>2 DEF CommitStart, RecoverStart
    <3> QED BY <3>1, <3>2 DEF GitOK
  <2>3. CASE \/ VerifyStart(r) \/ AbortStart(r)
             \/ \E e \in Effect : PrepareRead(r, e) \/ RefreshRead(r, e)
    BY <1>1, <2>3 DEF VerifyStart, AbortStart, PrepareRead, RefreshRead, worldVars
  <2> QED BY <1>4, <2>1, <2>2, <2>3 DEF Ask
<1>5. ASSUME NEW r \in Request, Step(r) PROVE GitOK'
  <2>1. CASE VerifyRecord(r)
    <3>1. req[r].tree \in Tree \cup {None}
      BY DEF RequestsOK, ReqRecord, SomeTree
    <3> QED BY <2>1, <3>1 DEF VerifyRecord, GitOK
  <2>2. CASE AddWorktree(r) \/ AbortWorkspace(r)
    BY <2>2 DEF AddWorktree, AbortWorkspace, GitOK
  <2>3. CASE PublishRef(r)
    BY <2>3 DEF PublishRef, GitOK, LedgerInv, LedgerTypeOK
  <2>4. ASSUME ~VerifyRecord(r), ~AddWorktree(r), ~AbortWorkspace(r), ~PublishRef(r)
        PROVE  UNCHANGED <<checked, patchFile, intRef, integration, taken, attempts>>
    BY <1>5, <2>4 DEF Step, SealRecord, VerifyChecks,
       PreparePersist, RefreshPersist, CommitPin, Preflight, MarkStale,
       TakeLease, CommitBegin, Inspect, RecordRef,
       LoadEffects, NextEffect, CheckProvider, PostEffect, RecordReceipt,
       EffectUnknown, EffectDefiniteFailure, MarkEffect, Mark, Finalize,
       ReloadEffects, QueryNext, AskProvider, StillUnknown, Rearm, RecordFound,
       Decide, Conclude, AbortCheck, AbortBegin, AbortEffects, AbortEnd, worldVars
  <2> QED BY <1>1, <2>1, <2>2, <2>3, <2>4
<1> QED
  BY <1>2, <1>3, <1>4, <1>5 DEF Next

\* A step of one request leaves the others where they are.
LEMMA OthersStay ==
  ASSUME RequestsOK, NEW r \in Request, Ask(r) \/ Step(r),
         NEW s \in Request, s # r
  PROVE  req'[s] = req[s]
<1> USE DEF RequestsOK
<1>1. CASE Ask(r)
  BY <1>1 DEF Ask, SealCapture, VerifyStart, CommitStart, RecoverStart, Start,
     AbortStart, PrepareRead, RefreshRead
<1>2. CASE Step(r)
  <2> USE DEF End, Goto, Fail
  <2>1. CASE \/ SealRecord(r) \/ VerifyChecks(r) \/ VerifyRecord(r)
             \/ PreparePersist(r) \/ RefreshPersist(r) \/ MarkStale(r)
             \/ AbortCheck(r) \/ AbortBegin(r) \/ AbortEffects(r)
             \/ AbortWorkspace(r) \/ AbortEnd(r)
    BY <2>1 DEF SealRecord, VerifyChecks, VerifyRecord, PreparePersist,
       RefreshPersist, MarkStale, AbortCheck, AbortBegin, AbortEffects,
       AbortWorkspace, AbortEnd
  <2>2. CASE \/ CommitPin(r) \/ Preflight(r) \/ TakeLease(r) \/ CommitBegin(r)
             \/ Inspect(r) \/ AddWorktree(r) \/ PublishRef(r) \/ RecordRef(r)
             \/ Finalize(r) \/ Mark(r)
    BY <2>2 DEF CommitPin, Preflight, TakeLease, CommitBegin, Inspect, AddWorktree,
       PublishRef, RecordRef, Finalize, Mark
  <2>3. CASE \/ LoadEffects(r) \/ NextEffect(r) \/ CheckProvider(r) \/ PostEffect(r)
             \/ RecordReceipt(r) \/ EffectUnknown(r) \/ EffectDefiniteFailure(r)
             \/ MarkEffect(r)
    BY <2>3 DEF LoadEffects, NextEffect, CheckProvider, PostEffect, RecordReceipt,
       EffectUnknown, EffectDefiniteFailure, MarkEffect
  <2>4. CASE \/ ReloadEffects(r) \/ QueryNext(r) \/ AskProvider(r)
             \/ StillUnknown(r) \/ Rearm(r) \/ RecordFound(r) \/ Decide(r)
             \/ Conclude(r)
    BY <2>4 DEF ReloadEffects, QueryNext, AskProvider, StillUnknown, Rearm,
       RecordFound, Decide, Conclude
  <2> QED BY <1>2, <2>1, <2>2, <2>3, <2>4 DEF Step
<1> QED BY <1>1, <1>2

\* Only taking the lease gives a request another token.
LEMMA TokenMoves ==
  ASSUME RequestsOK, NEW r \in Request, Ask(r) \/ Step(r)
  PROVE  \/ req'[r].token \in {req[r].token, 0}
         \/ AcquireLease(owner) /\ req'[r].token = lease.token + 1
<1> DEFINE Same == req'[r].token \in {req[r].token, 0}
<1> USE DEF RequestsOK, ReqRecord
<1>1. 0 = Idle.token
  BY DEF Idle
<1>2. End(r) => Same
  BY <1>1 DEF End
<1>3. ASSUME NEW pc, Goto(r, pc) PROVE Same
  BY <1>3 DEF Goto
<1>4. Fail(r) => Same
  BY <1>2, <1>3 DEF Fail
<1>5. CASE SealCapture(r)
  BY <1>5 DEF SealCapture
<1>6. CASE VerifyStart(r) \/ CommitStart(r) \/ RecoverStart(r) \/ AbortStart(r)
  BY <1>6 DEF VerifyStart, CommitStart, RecoverStart, Start, AbortStart
<1>7. ASSUME NEW e \in Effect, PrepareRead(r, e) \/ RefreshRead(r, e) PROVE Same
  BY <1>7 DEF PrepareRead, RefreshRead
<1>8. CASE TakeLease(r)
  BY <1>2, <1>8 DEF TakeLease
<1>9. CASE \/ SealRecord(r) \/ VerifyRecord(r)
           \/ PreparePersist(r) \/ RefreshPersist(r) \/ MarkStale(r)
           \/ AbortCheck(r) \/ AbortBegin(r) \/ AbortEffects(r)
           \/ AbortWorkspace(r) \/ AbortEnd(r) \/ CommitBegin(r)
           \/ AddWorktree(r) \/ PublishRef(r) \/ RecordRef(r) \/ Finalize(r)
           \/ Mark(r) \/ EffectUnknown(r) \/ EffectDefiniteFailure(r)
           \/ MarkEffect(r) \/ StillUnknown(r) \/ Decide(r) \/ Conclude(r)
  <2> SUFFICES Same
    OBVIOUS
  <2> HIDE DEF Same, RequestsOK, ReqRecord
  <2>1. CASE \/ SealRecord(r) \/ VerifyRecord(r) \/ PreparePersist(r)
             \/ RefreshPersist(r) \/ MarkStale(r) \/ AbortEnd(r) \/ Mark(r)
             \/ StillUnknown(r) \/ Conclude(r)
    BY <1>2, <2>1 DEF SealRecord, VerifyRecord, PreparePersist, RefreshPersist,
       MarkStale, AbortEnd, Mark, StillUnknown, Conclude
  <2>2. CASE \/ AbortCheck(r) \/ AbortBegin(r) \/ AbortEffects(r)
             \/ AbortWorkspace(r) \/ CommitBegin(r) \/ Decide(r)
    BY <1>2, <1>3, <2>2 DEF AbortCheck, AbortBegin, AbortEffects, AbortWorkspace,
       CommitBegin, Decide
  <2>3. CASE AddWorktree(r) \/ PublishRef(r) \/ RecordRef(r) \/ Finalize(r)
    BY <1>2, <1>3, <1>4, <2>3 DEF AddWorktree, PublishRef, RecordRef, Finalize
  <2>4. CASE EffectUnknown(r) \/ EffectDefiniteFailure(r) \/ MarkEffect(r)
    BY <1>3, <1>4, <2>4 DEF EffectUnknown, EffectDefiniteFailure, MarkEffect
  <2> QED BY <1>9, <2>1, <2>2, <2>3, <2>4
<1>10. CASE VerifyChecks(r)
  BY <1>10 DEF VerifyChecks
<1>11. CASE CommitPin(r)
  BY <1>2, <1>3, <1>11 DEF CommitPin
<1>12. CASE Preflight(r)
  BY <1>2, <1>3, <1>12 DEF Preflight
<1>13. CASE Inspect(r)
  BY <1>3, <1>4, <1>13 DEF Inspect
<1>14. CASE LoadEffects(r)
  BY <1>14 DEF LoadEffects
<1>15. CASE NextEffect(r)
  BY <1>3, <1>4, <1>15 DEF NextEffect
<1>16. CASE CheckProvider(r) \/ PostEffect(r)
  BY <1>3, <1>16 DEF CheckProvider, PostEffect
<1>17. CASE RecordReceipt(r)
  BY <1>3, <1>17 DEF RecordReceipt
<1>18. CASE ReloadEffects(r)
  <2> DEFINE any == \E e \in Effect : effects[e].status = "committed"
             all == \A e \in Effect : effects[e].status # "verified"
             todo == {e \in Effect : effects[e].status \in {"unknown", "committing"}}
  <2>1. req' = [req EXCEPT ![r].pc = "query", ![r].rows = effects, ![r].todo = todo,
                           ![r].any = any, ![r].all = all]
    BY <1>18 DEF ReloadEffects
  <2> HIDE DEF any, all, todo
  <2> QED BY <2>1
<1>19. CASE QueryNext(r) \/ AskProvider(r)
  <2>1. CASE QueryNext(r)
    BY <1>2, <1>3, <2>1 DEF QueryNext
  <2>2. CASE AskProvider(r)
    BY <1>3, <2>2 DEF AskProvider
  <2> QED BY <1>19, <2>1, <2>2
<1>20. CASE Rearm(r)
  BY <1>2, <1>20 DEF Rearm
<1>21. CASE RecordFound(r)
  BY <1>3, <1>21 DEF RecordFound
<1> QED
  BY <1>5, <1>6, <1>7, <1>8, <1>9, <1>10, <1>11, <1>12, <1>13, <1>14, <1>15,
     <1>16, <1>17, <1>18, <1>19, <1>20, <1>21 DEF Ask, Step

\* A token is one the lease had.
LEMMA NextKeepsTokens ==
  ASSUME ServiceInv, TokensOK, [Next]_vars PROVE TokensOK'
<1> SUFFICES ASSUME NEW s \in Request PROVE req'[s].token \in 0 .. MaxToken
  BY DEF TokensOK
<1> USE DEF ServiceInv, TokensOK
<1>1. CASE req'[s] = req[s]
  BY <1>1
<1>2. ASSUME NEW r \in Request, Ask(r) \/ Step(r), req'[s] # req[s]
      PROVE  req'[s].token \in 0 .. MaxToken
  <2>1. r = s
    BY <1>2, OthersStay
  <2>2. lease.token \in Nat
    BY DEF LedgerInv, LedgerTypeOK, Lease
  <2> QED BY <1>2, <2>1, <2>2, TokenMoves, BoundAssumption DEF AcquireLease
<1>3. CASE Crash
  BY <1>3, BoundAssumption DEF Crash, Idle
<1>4. CASE CreateTransaction \/ Approve \/ (Environment /\ ~Crash) \/ UNCHANGED vars
  <2>1. UNCHANGED req
    BY <1>4 DEF CreateTransaction, Approve, Environment, Edit, MoveSource, LeaseTime,
                ChangeProvider, LandLate, vars
  <2> QED BY <2>1, <1>1
<1> QED
  BY <1>1, <1>2, <1>3, <1>4 DEF Next

\* Requests, Git and providers keep their shape whatever fails: in particular no
\* request holds an effect, a row or a token the ledger could not have given it.
THEOREM ServiceTypeCorrect ==
  ASSUME Nat \ {0} \subseteq Receipt PROVE Spec => []ServiceTypeOK
<1> DEFINE Shape == ServiceInv /\ GitOK /\ TokensOK
<1>1. Init => Shape
  <2>1. Init => GitOK /\ TokensOK
    BY ServiceAssumption, BoundAssumption DEF Init, GitOK, TokensOK, Idle
  <2> QED BY <2>1, ServiceInit
<1>2. Shape /\ [Next]_vars => Shape'
  BY ServiceNext, NextKeepsGit, NextKeepsTokens
<1>3. Shape => ServiceTypeOK
  <2>1. RequestsOK => \A r \in Request :
          /\ req[r].todo \subseteq Effect /\ req[r].done \subseteq Effect
          /\ req[r].effect \in Effect \cup {None}
          /\ req[r].rows \in [Effect -> EffectRow]
    BY DEF RequestsOK, ReqRecord, SomeEffect
  <2> QED
    BY <2>1 DEF ServiceInv, GitOK, TokensOK, WorldOK, LedgerInv, ServiceTypeOK
<1> QED
  BY <1>1, <1>2, <1>3, PTL DEF Spec
=============================================================================
