--------------------------- MODULE SignedApprovals ---------------------------
(***************************************************************************)
(* Signed approvals and approval quorums: the operators' keys and the      *)
(* command-line tool that rotates and disables them                        *)
(* (src/internal/operatorapproval, src/cmd/futurediff-approval), the       *)
(* daemon that reads the keyring once, when it starts                      *)
(* (src/cmd/futurediffd/main.go), and the service calls that turn          *)
(* envelopes and bundles into an approval of the ledger                    *)
(* (src/internal/app/service.go).                                          *)
(*                                                                         *)
(* A signature is modelled by who made it over what: an envelope is in     *)
(* "signed" exactly when its key signed it.  One transaction: its approval *)
(* material is a number that every new verification or effect changes.     *)
(***************************************************************************)
EXTENDS Naturals, FiniteSets

CONSTANTS Key,        \* every key pair that is ever generated
          ApproverOf, \* key -> the operator it was generated for
          FirstKeys,  \* the keys of the first keyring
          Policy,     \* None, or the quorum: [threshold, allowed, required]
          Tool,       \* invocations of futurediff-approval that may overlap
          MaxTime, MaxRevision, MaxSigned, \* bounds
          Lifetime,   \* how long an envelope is good for
          Skew,       \* how far in the future an envelope may be signed
          None

VARIABLES
    ring,       \* the keyring file: key -> enabled
    editing,    \* tool -> None or the keyring it has read
    trusted,    \* the keyring in the daemon's memory, None while it is down
    revision,   \* the approval material of the transaction as it is now
    signed,     \* every envelope that was signed
    request,    \* the approval request in the daemon, or None
    approval,   \* the approval the ledger holds, or None
    now,
    disabled,   \* history: keys disabled by a command that has finished
    distrusted  \* history: the disabled keys when the daemon started

files == <<ring, editing, disabled>>
vars == <<files, trusted, revision, signed, request, approval, now, distrusted>>

Approver == {ApproverOf[k] : k \in Key}

\* AllowedApprovers, when the policy names any.
Allowed == IF Policy = None \/ Policy.allowed = {} THEN Approver
           ELSE Policy.allowed

-----------------------------------------------------------------------------
(* Keys. *)

Init ==
    /\ ring = [k \in FirstKeys |-> TRUE]
    /\ editing = [t \in Tool |-> None]
    /\ trusted = None
    /\ revision = 1 /\ signed = {} /\ request = None /\ approval = None
    /\ now = 0
    /\ disabled = {} /\ distrusted = {}

\* LoadKeyring, at the start of rotate and of set-enabled.
ReadRing(t) ==
    /\ editing[t] = None
    /\ editing' = [editing EXCEPT ![t] = ring]
    /\ UNCHANGED <<ring, disabled, trusted, revision, signed, request, approval,
                   now, distrusted>>

WriteRing(t, new) ==
    /\ ring' = new
    /\ editing' = [editing EXCEPT ![t] = None]
    /\ UNCHANGED <<trusted, revision, signed, request, approval, now, distrusted>>

\* Rotate: a new key joins the ring; with --disable-old the approver's others
\* are disabled.
Rotate(t, k, disableOld) ==
    /\ editing[t] # None /\ k \notin DOMAIN editing[t]
    /\ LET old == {o \in DOMAIN editing[t] :
                     disableOld /\ ApproverOf[o] = ApproverOf[k]}
       IN  /\ WriteRing(t, [o \in DOMAIN editing[t] \cup {k} |->
                               o = k \/ (o \notin old /\ editing[t][o])])
           /\ disabled' = disabled \cup old

\* SetEnabled: the last enabled key of an approver stays enabled unless
\* --allow-no-enabled is given; a refusal writes nothing.
SetEnabled(t, k, enabled, allowNone) ==
    /\ editing[t] # None /\ k \in DOMAIN editing[t]
    /\ LET new == [editing[t] EXCEPT ![k] = enabled] IN
          IF /\ ~enabled /\ ~allowNone
             /\ \A o \in DOMAIN new : ApproverOf[o] = ApproverOf[k] => ~new[o]
          THEN /\ editing' = [editing EXCEPT ![t] = None]
               /\ UNCHANGED <<ring, disabled, trusted, revision, signed,
                              request, approval, now, distrusted>>
          ELSE /\ WriteRing(t, new)
               /\ disabled' = IF enabled THEN disabled \ {k}
                              ELSE disabled \cup {k}

\* The daemon reads the keyring when it starts and never again.
StartDaemon ==
    /\ trusted = None
    /\ trusted' = ring
    /\ distrusted' = disabled
    /\ UNCHANGED <<files, revision, signed, request, approval, now>>

StopDaemon ==
    /\ trusted # None
    /\ trusted' = None /\ request' = None
    /\ UNCHANGED <<files, revision, signed, approval, now, distrusted>>

\* Sign, on the operator's own machine, whose clock may be ahead.
Sign(k, digest, ahead) ==
    /\ Cardinality(signed) < MaxSigned
    /\ digest <= revision
    /\ signed' = signed \cup
         {[key |-> k, approver |-> ApproverOf[k], digest |-> digest,
           signedAt |-> now + ahead, expires |-> now + ahead + Lifetime]}
    /\ UNCHANGED <<files, trusted, revision, request, approval, now, distrusted>>

Tick ==
    /\ now < MaxTime
    /\ now' = now + 1
    /\ UNCHANGED <<files, trusted, revision, signed, request, approval,
                   distrusted>>

-----------------------------------------------------------------------------
(* Approving. *)

\* Verify: the envelope is about this material, in its time, and its key is
\* trusted and its approver's own.
Good(env, digest) ==
    /\ env.digest = digest /\ now < env.expires
    /\ env.signedAt <= now + Skew
    /\ env.key \in DOMAIN trusted /\ trusted[env.key]

\* Mutant: a quorum of signatures instead of approvers.
EnoughMutant(bundle) ==
    /\ \A e \in bundle : e.approver \in Allowed
    /\ Cardinality(bundle) >= Policy.threshold
    /\ Policy.required \subseteq {e.approver : e \in bundle}

\* VerifyQuorum, after every envelope was verified: allowed approvers only,
\* each with one envelope, as many as the threshold and the required ones
\* among them.  ApproveSigned without a quorum takes one envelope.
Enough(bundle) ==
    IF Policy = None THEN Cardinality(bundle) = 1
    ELSE /\ \A e, f \in bundle : e.approver = f.approver => e = f
         /\ \A e \in bundle : e.approver \in Allowed
         /\ Cardinality(bundle) >= Policy.threshold
         /\ Policy.required \subseteq {e.approver : e \in bundle}

Earliest(bundle) ==
    CHOOSE x \in {e.expires : e \in bundle} : \A e \in bundle : x <= e.expires

\* ApproveSigned, ApproveSignedQuorum: the material is read first ...
ReadMaterial(bundle) ==
    /\ trusted # None /\ request = None
    /\ bundle # {}
    /\ request' = [at |-> "read", digest |-> revision, bundle |-> bundle]
    /\ UNCHANGED <<files, trusted, revision, signed, approval, now, distrusted>>

\* ... the envelopes are verified against what was read ...
VerifyBundle ==
    /\ request # None /\ request.at = "read"
    /\ request' = IF /\ \A e \in request.bundle : Good(e, request.digest)
                     /\ Enough(request.bundle)
                  THEN [request EXCEPT !.at = "verified"]
                  ELSE None
    /\ UNCHANGED <<files, trusted, revision, signed, approval, now, distrusted>>

\* ... and the ledger records the approval if the material is still that.
RecordApproval ==
    /\ request # None /\ request.at = "verified"
    /\ approval' = IF request.digest = revision
                   THEN [digest |-> request.digest, bundle |-> request.bundle,
                         expires |-> Earliest(request.bundle),
                         distrusted |-> distrusted]
                   ELSE approval
    /\ request' = None
    /\ UNCHANGED <<files, trusted, revision, signed, now, distrusted>>

\* The material changes: a new verification, or an effect prepared or
\* verified.  Each clears the approval.
Revise ==
    /\ revision < MaxRevision
    /\ revision' = revision + 1
    /\ approval' = None
    /\ UNCHANGED <<files, trusted, signed, request, now, distrusted>>

Next ==
    \/ \E t \in Tool :
          \/ ReadRing(t)
          \/ \E k \in Key : \E b \in BOOLEAN : Rotate(t, k, b)
          \/ \E k \in Key : \E e, a \in BOOLEAN : SetEnabled(t, k, e, a)
    \/ StartDaemon \/ StopDaemon \/ Tick
    \/ \E k \in Key, d \in 1..MaxRevision, ahead \in 0..1 : Sign(k, d, ahead)
    \/ \E bundle \in SUBSET signed : ReadMaterial(bundle)
    \/ VerifyBundle \/ RecordApproval \/ Revise

ApprovalsNext == Next
ApprovalsSpec == Init /\ [][Next]_vars

-----------------------------------------------------------------------------
(* What an approval promises. *)

\* Every request and approval carries envelopes that were really signed.
ApprovalsTypeOK ==
    /\ DOMAIN ring \subseteq Key /\ FirstKeys \subseteq DOMAIN ring
    /\ request # None =>
          /\ trusted # None
          /\ request.bundle # {} /\ request.bundle \subseteq signed
    /\ approval # None => approval.bundle \subseteq signed

\* The approval the ledger holds is about the material as it is now, was
\* signed over it by as many different operators as the quorum asks for, the
\* required ones among them, and is good for no longer than the shortest of
\* the signatures, whatever changed while the request was verified.
ApprovalIsSigned ==
    approval # None =>
        LET by == {e.approver : e \in approval.bundle} IN
        /\ approval.digest = revision
        /\ \A e \in approval.bundle : e.digest = revision
        /\ \A e \in approval.bundle : approval.expires <= e.expires
        /\ by \subseteq Allowed
        /\ Policy # None => /\ Cardinality(by) >= Policy.threshold
                            /\ Policy.required \subseteq by

\* No approval rests on a key that had been disabled when the daemon that
\* accepted it started: the commands that disable keys are not undone by
\* other commands, and the daemon asks for more than that it knows the key.
DisabledKeysStayOut ==
    approval # None =>
        \A e \in approval.bundle : e.key \notin approval.distrusted

\* What a signed approval is worth.
ApprovalsAreSigned == ApprovalIsSigned /\ DisabledKeysStayOut
=============================================================================
