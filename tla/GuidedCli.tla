----------------------------- MODULE GuidedCli -----------------------------
(***************************************************************************)
(* fdif, the guided command line (internal/guidedcli): several invocations *)
(* beside each other and beside other clients of the daemon.  Every        *)
(* invocation is a short program of daemon calls with the user's answers   *)
(* in between; what it read is a call old when it acts on it.  The daemon  *)
(* is reduced to the conditions TransactionLedger and TransactionService   *)
(* model in full.  The file that remembers the current change is shared by *)
(* all invocations and takes part in no lock.                              *)
(***************************************************************************)
EXTENDS Integers, FiniteSets, FiniteSetsExt

CONSTANTS
  Run,          \* invocations of fdif
  Change,       \* transactions
  Target,       \* GitHub targets: remote, base, title, body, credential
  Commands,     \* the commands users give, a subset of Command
  MaxDigest,    \* bound on the approval materials of a change
  MaxEffects,   \* bound on its prepared effects
  MaxTurns,    \* bound on commands given and calls of other clients
  BlindViews,   \* TRUE: the daemon may fail to list a change's effects
  None

VARIABLES
  change,       \* the daemon's record of each change
  selection,    \* the file current-transaction.json
  run,          \* the state of each invocation
  published,    \* commits the daemon accepted from an invocation
  turns,       \* commands given and calls of other clients so far
  author        \* the one target all of a change's calls were made for

cliVars == <<change, selection, run, published, turns, author>>

Command == {"start", "status", "seal", "verify", "approve", "apply", "finish",
            "abort", "use", "clear", "recover"}

\* The switch in finish gives up after this many rounds.
MaxSteps == 8

-----------------------------------------------------------------------------
(* The daemon, as far as the command line can tell.                        *)

Gone     == {"missing", "aborted"}
Finished == {"committed"}
Eligible == {c \in Change : change[c].st \notin Gone \cup Finished}
Known    == {c \in Change : change[c].st # "missing"}

NewChange == [st |-> "active", digest |-> 0, approved |-> None,
              effects |-> {}]

\* Every change of the material clears the approval.
Touch(c, st) ==
  /\ change[c].digest < MaxDigest
  /\ change' = [change EXCEPT ![c].st = st, ![c].digest = @ + 1,
                              ![c].approved = None]

Seal(c) == change[c].st = "active" /\ Touch(c, "sealed")

Verify(c) ==
  /\ change[c].st \in {"sealed", "stale"}
  /\ \E st \in {"ready", "failed_verification"} : Touch(c, st)

\* A pull request may depend on a branch effect, whose repository it shares.
Prepare(c, kind, target, dep) ==
  /\ change[c].st \in IF kind = "branch" THEN {"sealed"}
                                         ELSE {"active", "sealed"}
  /\ change[c].digest < MaxDigest
  /\ Cardinality(change[c].effects) < MaxEffects
  /\ dep # 0 => \E b \in change[c].effects :
                  b.id = dep /\ b.kind = "branch" /\ b.target = target
  /\ LET e == [id |-> Cardinality(change[c].effects) + 1, kind |-> kind,
               target |-> target, dep |-> dep]
     IN change' = [change EXCEPT ![c].effects = @ \cup {e},
                                 ![c].digest = @ + 1, ![c].approved = None]

Approve(c, digest) ==
  /\ change[c].st = "ready" /\ change[c].digest = digest
  /\ change' = [change EXCEPT ![c].approved = digest]

MayCommit(c, digest) ==
  change[c].st = "ready" /\ change[c].approved = digest
                         /\ change[c].digest = digest

\* The commit drifts, releases everything, or stops half-way.
Commit(c, digest) ==
  /\ MayCommit(c, digest)
  /\ \/ \E st \in {"committing", "needs_reconciliation", "committed"} :
          change' = [change EXCEPT ![c].st = st]
     \/ change' = [change EXCEPT ![c].st = "stale", ![c].approved = None]

Recover(c) ==
  /\ change[c].st \in {"committing", "needs_reconciliation"}
  /\ \/ \E st \in {"ready", "needs_reconciliation", "committed",
                   "manual_intervention"} :
          change' = [change EXCEPT ![c].st = st]
     \/ change' = [change EXCEPT ![c].st = "stale", ![c].approved = None]

Abort(c) ==
  /\ change[c].st \in {"active", "sealed", "failed_verification", "ready",
                       "stale"}
  /\ change' = [change EXCEPT ![c].st = "aborted", ![c].approved = None]

\* What GET /v1/transactions/{id} answers.  Service.Get leaves the effects
\* out when they cannot be listed, and answers all the same.
View(c) ==
  {change[c]} \cup (IF BlindViews THEN {[change[c] EXCEPT !.effects = {}]}
                                  ELSE {})

-----------------------------------------------------------------------------
(* The effects of one GitHub publication.                                  *)

Of(effects, kind) == {e \in effects : e.kind = kind}

\* matchingGitHubEffects without an error: nothing but this target's branch
\* and the pull request that depends on it, at most once each.
Matching(effects, target) ==
  /\ \A e \in effects : e.kind \in {"branch", "draft"} /\ e.target = target
  /\ Cardinality(Of(effects, "branch")) <= 1
  /\ Cardinality(Of(effects, "draft")) <= 1
  /\ \A d \in Of(effects, "draft") :
       \E b \in Of(effects, "branch") : d.dep = b.id

Complete(effects, target) ==
  /\ Matching(effects, target)
  /\ Of(effects, "branch") # {} /\ Of(effects, "draft") # {}

-----------------------------------------------------------------------------
(* An invocation.                                                          *)

Idle == [pc |-> "idle", cmd |-> None, target |-> None, id |-> None,
         material |-> None, branch |-> 0, step |-> 0, refused |-> FALSE]

Id(r) == run[r].id
Ended(r) == run[r].pc = "idle"
To(r, pc) == run' = [run EXCEPT ![r].pc = pc]
End(r) == run' = [run EXCEPT ![r] = Idle]
RefuseEffects(r) ==
  run' = [run EXCEPT ![r] = [Idle EXCEPT !.id = Id(r),
                               !.target = run[r].target, !.refused = TRUE]]
Calling(r, pc) == run[r].pc = pc
Quiet == UNCHANGED <<selection, published, turns>>

\* A command that works on its own returns; a step of finish goes on.
After(r) ==
  IF run[r].cmd = "finish" THEN To(r, "loop") ELSE End(r)

\* Where a command starts once it knows its change.
FirstCall(cmd) ==
  CASE cmd = "status"  -> "read"
    [] cmd = "seal"    -> "seal_get"
    [] cmd = "verify"  -> "verify"
    [] cmd = "approve" -> "approve_get"
    [] cmd = "apply"   -> "publish_get"
    [] cmd = "finish"  -> "finish_get"
    [] cmd = "abort"   -> "abort"
    [] cmd = "use"     -> "use_get"
    [] cmd = "recover" -> "recover_get"

Settled(r, c) ==
  run' = [run EXCEPT ![r] = [@ EXCEPT !.id = c, !.pc = FirstCall(run[r].cmd)]]

\* The user types a command, with or without the change's id.
Launch(r, cmd, target, c) ==
  /\ Ended(r) /\ turns < MaxTurns /\ turns' = turns + 1
  /\ target # None => cmd = "finish"
  /\ run' = [run EXCEPT ![r] =
       [Idle EXCEPT !.cmd = cmd, !.target = target, !.id = c,
          !.pc = IF cmd \in {"start", "clear"} THEN cmd
                 ELSE IF c # None THEN FirstCall(cmd)
                 ELSE "resolve"]]
  /\ UNCHANGED <<change, selection, published>>

\* start: POST /v1/transactions, then the selection is saved.
StartChange(r) ==
  /\ Calling(r, "start")
  /\ \E c \in Change \ Known :
       /\ change' = [change EXCEPT ![c] = NewChange]
       /\ run' = [run EXCEPT ![r].id = c, ![r].pc = "save"]
  /\ Quiet

SaveSelection(r) ==
  /\ Calling(r, "save")
  /\ selection' = Id(r)
  /\ End(r)
  /\ UNCHANGED <<change, published, turns>>

\* use --clear, the only command that is not stopped by an unreadable file.
ClearSelection(r) ==
  /\ Calling(r, "clear")
  /\ selection' = None
  /\ End(r)
  /\ UNCHANGED <<change, published, turns>>

\* status, workspace, shell and review look and change nothing.
Strict(cmd) == cmd \notin {"status", "use"}

\* resolveTransaction: the selected change, if the daemon still knows it.
ResolveSelected(r) ==
  /\ Calling(r, "resolve") /\ run[r].cmd \notin {"use", "recover"}
  /\ CASE selection = "unreadable"  -> End(r)
       [] selection \in Known       -> Settled(r, selection)
       [] selection \in Change \ Known /\ Strict(run[r].cmd)
                                    -> End(r)
       [] OTHER                     -> To(r, "list")
  /\ UNCHANGED change /\ Quiet

ResolveUse(r) ==
  /\ Calling(r, "resolve") /\ run[r].cmd = "use"
  /\ To(r, "list")
  /\ UNCHANGED change /\ Quiet

\* The rest of resolveTransaction: the only open change is taken and
\* remembered, among several the user picks.
PickFromList(r) ==
  /\ Calling(r, "list")
  /\ \/ /\ Strict(run[r].cmd) /\ Eligible # {} /\ Eligible # Known
        /\ End(r) /\ UNCHANGED selection
     \/ /\ Eligible = {}
        /\ End(r) /\ UNCHANGED selection
     \/ \E c \in Eligible :
          /\ Strict(run[r].cmd) => Eligible = Known
          /\ Settled(r, c)
          /\ selection' = IF selection = None \/ Cardinality(Eligible) > 1
                          THEN c ELSE selection
  /\ UNCHANGED <<change, published, turns>>

\* resolveRecoveryTarget: reports, and never picks.
ResolveRecovery(r, yes) ==
  /\ Calling(r, "resolve") /\ run[r].cmd = "recover"
  /\ IF selection \in Known
     THEN Settled(r, selection) /\ UNCHANGED selection
     ELSE /\ End(r)
          /\ selection' = IF selection \in Change /\ yes THEN None
                                                         ELSE selection
  /\ UNCHANGED <<change, published, turns>>

Read(r) ==
  /\ Calling(r, "read")
  /\ End(r)
  /\ UNCHANGED change /\ Quiet

Use(r) ==
  /\ Calling(r, "use_get")
  /\ IF Id(r) \in Known THEN To(r, "save") ELSE End(r)
  /\ UNCHANGED change /\ Quiet

\* A call the daemon refuses, cannot be asked, or whose answer is lost after
\* it was carried out; the invocation reports the error and ends.
Attempt(r, pc, Effect, Then) ==
  /\ Calling(r, pc)
  /\ \/ Effect /\ Then
     \/ Effect /\ End(r)
     \/ UNCHANGED change /\ End(r)
  /\ Quiet

SealGet(r) ==
  /\ Calling(r, "seal_get")
  /\ IF Id(r) \notin Known THEN End(r)
     ELSE IF change[Id(r)].st = "active" THEN To(r, "seal") ELSE After(r)
  /\ UNCHANGED change /\ Quiet

SealRun(r) == Attempt(r, "seal", Seal(Id(r)), After(r))

VerifyRun(r) == Attempt(r, "verify", Verify(Id(r)), After(r))

-----------------------------------------------------------------------------
(* approve: the material is shown, the user answers YES, the material is   *)
(* fetched again and whatever it is then is submitted.                     *)

ApproveGet(r) ==
  /\ Calling(r, "approve_get")
  /\ IF Id(r) \notin Known THEN End(r)
     ELSE IF change[Id(r)].st = "ready" /\ change[Id(r)].approved # None
          THEN After(r)
          ELSE To(r, "approve_show")
  /\ UNCHANGED change /\ Quiet

FetchMaterial(r, at, next) ==
  /\ Calling(r, at)
  /\ run' = [run EXCEPT ![r].material = change[Id(r)].digest, ![r].pc = next]
  /\ UNCHANGED change /\ Quiet

ApproveRun(r) ==
  Attempt(r, "approve", Approve(Id(r), run[r].material), After(r))

-----------------------------------------------------------------------------
(* finish and publish.                                                     *)

FinishGet(r) ==
  /\ Calling(r, "finish_get")
  /\ IF Id(r) \notin Known THEN End(r)
     ELSE \E view \in View(Id(r)) :
            IF \/ run[r].target = None /\ view.effects # {}
               \/ /\ run[r].target # None
                  /\ ~Matching(view.effects, run[r].target)
            THEN RefuseEffects(r) ELSE To(r, "loop")
  /\ UNCHANGED change /\ Quiet

Round(r, pc) ==
  run' = [run EXCEPT ![r].pc = pc, ![r].step = @ + 1]

\* Mutant: an interrupted preparation is taken for one that never began.
NextPreparationMutant(effects) ==
  IF Of(effects, "draft") = {} THEN "prepare_branch" ELSE "verify"

\* Where prepareGitHubEffects goes on, given what is prepared already.
NextPreparation(effects) ==
  IF Of(effects, "branch") = {} THEN "prepare_branch"
  ELSE IF Of(effects, "draft") = {} THEN "prepare_draft" ELSE "verify"

\* One round of the loop: the change is read again and the status decides.
\* A sealed change gets the effects that are missing before it is verified,
\* a ready one must have them.
FinishRound(r) ==
  /\ Calling(r, "loop") /\ run[r].step < MaxSteps
  /\ \E view \in View(Id(r)) :
     LET target == run[r].target
         branch == Of(view.effects, "branch")
     IN CASE view.st = "active" -> Round(r, "seal_get")
          [] view.st = "sealed" /\ target = None -> Round(r, "verify")
          [] view.st = "sealed" /\ target # None ->
               IF ~Matching(view.effects, target) THEN RefuseEffects(r)
               ELSE run' = [run EXCEPT ![r].step = @ + 1,
                      ![r].branch = IF branch = {} THEN 0
                                    ELSE (CHOOSE b \in branch : TRUE).id,
                      ![r].pc = NextPreparation(view.effects)]
          [] view.st = "ready" /\ target # None
                /\ ~Complete(view.effects, target) -> RefuseEffects(r)
          [] view.st = "ready" /\ (target = None
                \/ Complete(view.effects, target)) ->
               Round(r, IF view.approved = None THEN "approve_get"
                                                ELSE "publish_get")
          [] view.st = "committed" -> Round(r, "render")
          [] OTHER -> End(r)
  /\ UNCHANGED change /\ Quiet

FinishGivesUp(r) ==
  /\ Calling(r, "loop") /\ run[r].step = MaxSteps
  /\ End(r)
  /\ UNCHANGED change /\ Quiet

\* prepareGitHubEffects: the branch, then the pull request that depends on
\* the branch it has just been told of.
PrepareBranch(r) ==
  Attempt(r, "prepare_branch",
          Prepare(Id(r), "branch", run[r].target, 0),
          run' = [run EXCEPT ![r].pc = "prepare_draft",
                    ![r].branch = Cardinality(change[Id(r)].effects) + 1])

PrepareDraft(r) ==
  Attempt(r, "prepare_draft",
          Prepare(Id(r), "draft", run[r].target, run[r].branch),
          To(r, "verify"))

\* Mutant: publish does not look at the prepared effects again.
MayPublishMutant(view, target) ==
  view.st = "ready" /\ view.approved # None

\* publish on its own view of the change.
MayPublish(view, target) ==
  /\ target = None => view.effects = {}
  /\ view.st = "ready" /\ view.approved # None

PublishGet(r) ==
  /\ Calling(r, "publish_get")
  /\ IF Id(r) \notin Known THEN End(r)
     ELSE \E view \in View(Id(r)) :
            IF /\ view.st = "committed"
               /\ run[r].target = None => view.effects = {}
            THEN To(r, "render")
            ELSE IF MayPublish(view, run[r].target) THEN To(r, "publish_show")
            ELSE End(r)
  /\ UNCHANGED change /\ Quiet

\* The commit call; the daemon compares the digest, the command line does
\* not.
PublishRun(r) ==
  /\ Calling(r, "publish")
  /\ \/ /\ Commit(Id(r), run[r].material)
        /\ published' = published \cup {[target |-> run[r].target,
                                         effects |-> change[Id(r)].effects]}
        /\ IF change'[Id(r)].st = "committed" THEN To(r, "render")
                                              ELSE End(r)
     \/ UNCHANGED <<change, published>> /\ End(r)
  /\ UNCHANGED <<selection, turns>>

\* renderPublishResult: whatever is selected by now is forgotten.
Render(r) ==
  /\ Calling(r, "render")
  /\ selection' = IF selection = "unreadable" THEN selection ELSE None
  /\ End(r)
  /\ UNCHANGED <<change, published, turns>>

-----------------------------------------------------------------------------
(* abort and recover.                                                      *)

AbortRun(r) == Attempt(r, "abort", Abort(Id(r)), To(r, "forget"))

\* Only the discarded change is forgotten.
Forget(r) ==
  /\ Calling(r, "forget")
  /\ selection' = IF selection = Id(r) THEN None ELSE selection
  /\ End(r)
  /\ UNCHANGED <<change, published, turns>>

\* recoverCommand after the change is known.
RecoverGet(r, yes) ==
  /\ Calling(r, "recover_get")
  /\ LET st == change[Id(r)].st
     IN IF st \in {"committing", "needs_reconciliation"}
        THEN To(r, "recover") /\ UNCHANGED selection
        ELSE /\ End(r)
             /\ selection' = IF yes /\ st \in {"committed", "aborted"}
                             THEN None ELSE selection
  /\ UNCHANGED <<change, published, turns>>

RecoverRun(r) ==
  /\ Calling(r, "recover")
  /\ \/ /\ Recover(Id(r))
        /\ LET st == change'[Id(r)].st
           IN selection' = CASE st = "committed" -> None
                             [] st \in {"ready", "stale"} -> Id(r)
                             [] OTHER -> selection
        /\ End(r)
     \/ UNCHANGED <<change, selection>> /\ End(r)
  /\ UNCHANGED <<published, turns>>

-----------------------------------------------------------------------------
(* The surroundings.                                                       *)

\* The invocation is interrupted, or its user answers no.
Quit(r) ==
  /\ ~Ended(r)
  /\ End(r)
  /\ UNCHANGED change /\ Quiet

\* Another client calls the daemon: futurediff, an agent over MCP, a second
\* user's fdif.
OtherClient(c) ==
  /\ turns < MaxTurns /\ turns' = turns + 1
  /\ \/ Seal(c)
     \/ Verify(c)
     \/ \E t \in Target : Prepare(c, "branch", t, 0)
     \/ \E t \in Target, dep \in 0 .. MaxEffects : Prepare(c, "draft", t, dep)
     \/ Prepare(c, "other", None, 0)
     \/ change[c].st \in {"active", "stale"} /\ change[c].effects # {}
          /\ Touch(c, change[c].st)
     \/ Approve(c, change[c].digest)
     \/ Commit(c, change[c].digest)
     \/ Recover(c)
     \/ Abort(c)
  /\ UNCHANGED <<selection, run, published>>

\* The file is damaged or its permissions are widened.
SpoilSelection ==
  /\ turns < MaxTurns /\ turns' = turns + 1
  /\ selection # "unreadable" /\ selection' = "unreadable"
  /\ UNCHANGED <<change, run, published>>

\* Only properties look at author: it is a target as long as everything that
\* was done to the change was done by invocations of finish --github with
\* that target, one after the other.
Account(r) ==
  author' = [c \in Change |->
    IF change'[c] = change[c] \/ change[c].st = "missing" THEN author[c]
    ELSE IF /\ run[r].target # None /\ author[c] \in {None, run[r].target}
            /\ \A q \in Run \ {r} : Ended(q) \/ Id(q) # c
         THEN run[r].target
    ELSE "mixed"]

CliStep(r) ==
  \/ \E cmd \in Commands, t \in Target \cup {None}, c \in Change \cup {None} :
       Launch(r, cmd, t, c)
  \/ StartChange(r) \/ SaveSelection(r) \/ ClearSelection(r)
  \/ ResolveSelected(r) \/ ResolveUse(r) \/ PickFromList(r)
  \/ Read(r) \/ Use(r)
  \/ SealGet(r) \/ SealRun(r) \/ VerifyRun(r)
  \/ ApproveGet(r) \/ ApproveRun(r)
  \/ FetchMaterial(r, "approve_show", "approve_fetch")
  \/ FetchMaterial(r, "approve_fetch", "approve")
  \/ FinishGet(r) \/ FinishRound(r) \/ FinishGivesUp(r)
  \/ PrepareBranch(r) \/ PrepareDraft(r)
  \/ PublishGet(r) \/ PublishRun(r) \/ Render(r)
  \/ FetchMaterial(r, "publish_show", "publish_fetch")
  \/ FetchMaterial(r, "publish_fetch", "publish")
  \/ AbortRun(r) \/ Forget(r)
  \/ \E yes \in BOOLEAN : ResolveRecovery(r, yes) \/ RecoverGet(r, yes)
  \/ RecoverRun(r)
  \/ Quit(r)

CliInit ==
  /\ \E known \in SUBSET Change :
       change = [c \in Change |-> IF c \in known THEN NewChange
                                  ELSE [NewChange EXCEPT !.st = "missing"]]
  /\ selection \in Change \cup {None}
  /\ run = [r \in Run |-> Idle]
  /\ published = {}
  /\ turns = 0
  /\ author = [c \in Change |-> None]

CliNext ==
  \/ \E r \in Run : CliStep(r) /\ Account(r)
  \/ \E c \in Change :
       OtherClient(c) /\ author' = [author EXCEPT ![c] = "mixed"]
  \/ SpoilSelection /\ UNCHANGED author

CliSpec == CliInit /\ [][CliNext]_cliVars

-----------------------------------------------------------------------------
CliTypeOK ==
  /\ selection \in Change \cup {None, "unreadable"}
  /\ \A c \in Change :
       /\ change[c].digest \in 0 .. MaxDigest
       /\ change[c].approved \in {None, change[c].digest}
       /\ change[c].st \in {"missing", "active", "sealed", "ready", "stale",
            "failed_verification", "committing", "needs_reconciliation",
            "committed", "aborted", "manual_intervention"}
  /\ \A r \in Run : run[r].step \in 0 .. MaxSteps

\* "Local-only finish cannot silently commit external actions" (finish), and
\* "guided GitHub finish cannot commit prepared effect" other than its own
\* (matchingGitHubEffects): whoever prepared what beside the invocation, a
\* local publication releases no external effect, and a GitHub publication
\* releases exactly its own branch and the pull request that depends on it.
ReleaseMatchesTarget ==
  \A p \in published :
    IF p.target = None THEN p.effects = {} ELSE Complete(p.effects, p.target)

\* "finish" can be interrupted at any call, its answers can be lost, and the
\* same command given again goes on where the last one stopped: as long as
\* nobody else works on the change, the effects it finds are never a reason
\* to refuse (prepareGitHubEffects, matchingGitHubEffects).
InterruptedFinishResumes ==
  \A r \in Run :
    run[r].refused /\ run[r].target # None
      => author[Id(r)] # run[r].target
=============================================================================
