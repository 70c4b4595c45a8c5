------------------------- MODULE VerificationEngine -------------------------
(***************************************************************************)
(* One run of a verification contract                                      *)
(* (src/internal/verification/verification.go): the contract is validated, *)
(* its checks are put in an order, the patch is scanned for secrets, each  *)
(* check is executed or blocked, and the results become one outcome.       *)
(*                                                                         *)
(* A check is its place among the sorted check ids; 0 stands for an id the *)
(* contract does not have.  What an executor does is modelled by the       *)
(* answers it can give; a run that ends in an error has no report.         *)
(***************************************************************************)
EXTENDS Naturals, Sequences, FiniteSets, SequencesExt

CONSTANTS Checks,      \* how many checks a contract has
          MaxDepends,  \* how many a check depends on
          Executor,    \* check -> "workspace_assertion", "local_command", "oci_command"
          AllowLocal,  \* the engine runs local commands
          OCI          \* the engine has a container runtime

VARIABLES contract, \* [deps, required]
          stage,    \* where the run is
          pending,  \* the checks not yet ordered
          order,    \* the checks ordered so far
          scan,     \* the secret scan: "off", "on" until it ran, "pass", "fail"
          results,  \* the status of each check that has one, in order
          report    \* "none", "refused", "lost", or the outcome

vars == <<contract, stage, pending, order, scan, results, report>>

Check == 1 .. Checks

Init ==
  /\ contract \in [deps : [Check -> {D \in SUBSET (0 .. Checks) : Cardinality(D) <= MaxDepends}],
                   required : SUBSET Check]
  /\ stage = "validate" /\ pending = Check /\ order = <<>>
  /\ scan \in {"off", "on"}
  /\ results = <<>> /\ report = "none"

End(r) == stage' = "done" /\ report' = r

-----------------------------------------------------------------------------
(* The order of the checks.                                                *)

\* Validate, up to the graph: something is required, and every dependency is
\* a check of the contract.
Validate ==
  /\ stage = "validate"
  /\ IF contract.required # {} /\ \A c \in Check : 0 \notin contract.deps[c]
     THEN stage' = "order" /\ UNCHANGED report
     ELSE End("refused")
  /\ UNCHANGED <<contract, pending, order, scan, results>>

\* sort.Strings: checks by name.
Sorted(S) == CHOOSE s \in [1 .. Cardinality(S) -> S] :
               \A i, j \in DOMAIN s : i < j => s[i] < s[j]

Ready == {c \in pending : contract.deps[c] \cap pending = {}}

\* Topological, a round at a time: the ready checks are taken by name.
Topological ==
  /\ stage = "order"
  /\ \/ pending = {} /\ stage' = "scan" /\ UNCHANGED <<pending, order, report>>
     \/ /\ pending # {} /\ Ready = {} /\ End("refused") /\ UNCHANGED <<pending, order>>
     \/ /\ Ready # {}
        /\ order' = order \o Sorted(Ready)
        /\ pending' = pending \ Ready
        /\ UNCHANGED <<stage, report>>
  /\ UNCHANGED <<contract, scan, results>>

-----------------------------------------------------------------------------
(* The checks.                                                             *)

ScanSecrets ==
  /\ stage = "scan"
  /\ \/ scan = "off" /\ stage' = "run" /\ UNCHANGED <<scan, report>>
     \/ scan = "on" /\ stage' = "run" /\ scan' \in {"pass", "fail"} /\ UNCHANGED report
     \/ scan = "on" /\ End("lost") /\ UNCHANGED scan
  /\ UNCHANGED <<contract, pending, order, results>>

StatusOf(c) == results[CHOOSE i \in DOMAIN order : order[i] = c]

\* Mutant: only a failed dependency blocks, one that was blocked itself
\* does not.
BlockedMutant(c) ==
  scan = "fail" \/ \E d \in contract.deps[c] : StatusOf(d) \notin {"pass", "blocked"}

Blocked(c) == scan = "fail" \/ \E d \in contract.deps[c] : StatusOf(d) # "pass"

\* execute: what each executor can answer, when it answers.
Answers(c) ==
  CASE Executor[c] = "workspace_assertion" -> {"pass", "fail", "error"}
    [] Executor[c] = "local_command" ->
         IF AllowLocal THEN {"pass", "fail", "timeout"} ELSE {"error"}
    [] Executor[c] = "oci_command" ->
         IF OCI THEN {"pass", "fail", "timeout", "error"} ELSE {"error"}

\* An assertion whose path is no path of the workspace ends the run; so does
\* container evidence that cannot be written.
MayEnd(c) ==
  Executor[c] = "workspace_assertion" \/ (Executor[c] = "oci_command" /\ OCI)

RunCheck ==
  /\ stage = "run" /\ Len(results) < Len(order)
  /\ LET c == order[Len(results) + 1] IN
       \/ /\ IF Blocked(c) THEN results' = Append(results, "blocked")
             ELSE \E s \in Answers(c) : results' = Append(results, s)
          /\ UNCHANGED <<stage, report>>
       \/ ~Blocked(c) /\ MayEnd(c) /\ End("lost") /\ UNCHANGED results
  /\ UNCHANGED <<contract, pending, order, scan>>

\* The statuses that count; the scan is a required check of its own.
Counted ==
  {StatusOf(c) : c \in contract.required} \cup ({scan} \ {"off"})

Outcome ==
  IF "error" \in Counted THEN "error" ELSE IF Counted = {"pass"} THEN "pass" ELSE "fail"

Report ==
  /\ stage = "run" /\ Len(results) = Len(order)
  /\ End(Outcome)
  /\ UNCHANGED <<contract, pending, order, scan, results>>

EngineNext == Validate \/ Topological \/ ScanSecrets \/ RunCheck \/ Report
EngineSpec == Init /\ [][EngineNext]_vars

-----------------------------------------------------------------------------
(* Properties.                                                             *)

EngineTypeOK ==
  /\ pending \subseteq Check /\ order \in Seq(Check) /\ Len(results) <= Len(order)
  /\ report \in {"none", "refused", "lost", "pass", "fail", "error"}

\* A loop of dependencies, told without an order: some checks that all wait
\* for each other.
Cyclic ==
  \E S \in (SUBSET Check) \ {{}} : \A c \in S : contract.deps[c] \cap S # {}

\* Everything a check stands on, through any number of others.
Ancestors(c) ==
  {d \in Check : \A S \in SUBSET Check :
     /\ contract.deps[c] \subseteq S
     /\ \A x \in S : contract.deps[x] \subseteq S
     => d \in S}

\* Verify moves a transaction to ready on the word "pass" alone.  That word is
\* earned: the contract was refused exactly when it has no order, nothing ran
\* before or without all it stands on, and every required check, with all it
\* stands on, passed on a patch without secrets.
VerdictIsEarned ==
  /\ report = "refused" => \/ Cyclic \/ contract.required = {}
                           \/ \E c \in Check : 0 \in contract.deps[c]
  /\ stage \in {"scan", "run"} => ~Cyclic /\ ToSet(order) = Check
  /\ \A i \in DOMAIN results :
       results[i] # "blocked" =>
         /\ scan # "fail"
         /\ \A d \in Ancestors(order[i]) :
              \E j \in 1 .. (i - 1) : order[j] = d /\ results[j] = "pass"
  /\ report = "pass" =>
       /\ scan \in {"off", "pass"}
       /\ \A c \in contract.required :
            \A d \in Ancestors(c) \cup {c} : StatusOf(d) = "pass"
=============================================================================
