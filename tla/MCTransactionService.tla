------------------------ MODULE MCTransactionService ------------------------
(***************************************************************************)
(* Instances of the service: a branch, a pull request or a message bound   *)
(* to it, one or two requests at a time.                                   *)
(***************************************************************************)
EXTENDS TransactionService, TLC

CONSTANTS branch, pr, slack, reply

\* The pull request is bound to the branch, the message to both; the reply
\* depends on the message but its random identifier sorts before it.
MCDependsOn ==
  [e \in Effect |->
     Effect \cap (CASE e = branch -> {} [] e = pr -> {branch}
                    [] e = slack -> {branch, pr} [] OTHER -> {slack})]
MCKind ==
  [e \in Effect |-> CASE e = branch -> "branch" [] e = pr -> "pr" [] OTHER -> "slack"]
MCRank ==
  [e \in Effect |-> CASE e = branch -> 100 [] e = pr -> 200
                      [] e = reply -> 300 [] OTHER -> 301]

\* One passing and one failing set of check results.
MCCheckResults ==
  { {[required |-> TRUE, status |-> "pass"]}, {[required |-> TRUE, status |-> "fail"]} }
MCPassing == { {[required |-> TRUE, status |-> "pass"]} }

\* Daemon processes are interchangeable.
MCSymmetry == Permutations(Coordinator)
=============================================================================
