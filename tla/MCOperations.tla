---------------------------- MODULE MCOperations ----------------------------
(***************************************************************************)
(* What surrounds a transaction, side by side: the provider adapters, the  *)
(* research branch's end-to-end flow, its durable coordinator, the signing *)
(* of approvals, a verification run, and commands in containers.  They     *)
(* share no state, so `machine` picks the one a behaviour is about and the *)
(* others stay put.                                                        *)
(***************************************************************************)
EXTENDS Operations, TLC

CONSTANTS
  e1, e2, e3, e4, c1, c2, d1, d2, t1, x1, x2,
  Overlap   \* follow the coordinators past a call outside its lease

VARIABLES machine

MCApproverOf == [k \in Key |-> IF k = "b1" THEN "bob" ELSE "alice"]
MCPolicy == [threshold |-> 2, allowed |-> {}, required |-> {"alice"}]

MCExecutor == <<"workspace_assertion", "local_command", "oci_command">>

flowVars == <<meta, ledger, prepared, tree, applied, schema, approval, record,
              fresh, opened, sent, call, calls, careful>>
coordinatorVars == <<state, steps, decision, entry, lease, held, doing, strayed, clock>>
approvalVars == <<ring, editing, trusted, revision, signed, request, granted,
                  now, disabled, distrusted>>
engineVars == <<contract, stage, pending, order, scan, results, report>>
sandboxVars == <<files, runs, recorded, wrote>>

\* A branch of our own, the draft bound to it, a draft of a branch that is
\* already there, and a message.
I(kind, head, expects, depends) ==
  [kind |-> kind, head |-> head, expects |-> expects, depends |-> depends,
   safe |-> TRUE]
MCInput ==
  [e \in Effect |-> CASE e = e1 -> I("branch", "change", FALSE, FALSE)
                      [] e = e2 -> I("draft", "change", TRUE, TRUE)
                      [] e = e3 -> I("draft", "feature", FALSE, FALSE)
                      [] e = e4 -> I("slack", "change", FALSE, FALSE)]

MCInit ==
  /\ machine \in {"adapters", "flow", "coordinator", "approvals", "verification",
                 "sandbox"}
  /\ Init /\ F!Init /\ C!Init /\ S!Init
  /\ machine # "coordinator" => state = "ABORTING"
  /\ IF machine = "verification" THEN V!Init
     ELSE /\ contract = None /\ stage = "done" /\ pending = {} /\ order = <<>>
          /\ scan = "off" /\ results = <<>> /\ report = "none"
  /\ X!Init
  /\ machine # "sandbox" => files = [p \in Path |-> None]

Only(m) == machine = m /\ UNCHANGED machine

MCNext ==
  \/ /\ Only("adapters") /\ AdapterNext
     /\ UNCHANGED <<flowVars, coordinatorVars, approvalVars, engineVars, sandboxVars>>
  \/ /\ Only("flow") /\ F!FlowNext
     /\ UNCHANGED <<vars, coordinatorVars, approvalVars, engineVars, sandboxVars>>
  \/ /\ Only("coordinator") /\ (strayed => Overlap) /\ C!CoordinatorNext
     /\ UNCHANGED <<vars, flowVars, approvalVars, engineVars, sandboxVars>>
  \/ /\ Only("approvals") /\ S!ApprovalsNext
     /\ UNCHANGED <<vars, flowVars, coordinatorVars, engineVars, sandboxVars>>
  \/ /\ Only("verification") /\ V!EngineNext
     /\ UNCHANGED <<vars, flowVars, coordinatorVars, approvalVars, sandboxVars>>
  \/ /\ Only("sandbox") /\ X!SandboxNext
     /\ UNCHANGED <<vars, flowVars, coordinatorVars, approvalVars, engineVars>>

MCSpec ==
  MCInit /\ [][MCNext]_<<machine, vars, flowVars, coordinatorVars, approvalVars,
                        engineVars, sandboxVars>>

MCSymmetry == Permutations(Caller)
=============================================================================
