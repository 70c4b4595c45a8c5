---------------------------- MODULE MCFrontDoor ----------------------------
(***************************************************************************)
(* The two ways in, side by side: requests against the HTTP API, and the   *)
(* guided command line against a daemon.  They share no state here, so     *)
(* `machine` picks the one a behaviour is about and the other stays put.   *)
(***************************************************************************)
EXTENDS FrontDoor, TLC
CONSTANTS q1, q2, owner, agent, operator, stranger, t1, k1, c1

MCOwner == [t \in {t1} |-> owner]
AllOps == {"transaction_seal", "transaction_commit", "effect_refresh",
           "transaction_access_grant", "transaction_access_revoke",
           "approval_material"}
Role(ops, scp) == [ops |-> ops, scope |-> scp]
MCRoles ==
  [p \in {owner, agent, operator, stranger} |->
     CASE p \in {owner, stranger} -> {Role(AllOps, "owned")}
       [] p = agent -> {Role({"transaction_seal", "effect_refresh"}, "owned")}
       [] p = operator -> {Role(AllOps, "all")}]
MCCapability == [c \in {c1} |-> [who |-> agent, op |-> "transaction_commit", tx |-> t1]]
C(who, op, subject, body, key, cap) ==
  [who |-> who, op |-> op, tx |-> t1, subject |-> subject, body |-> body, key |-> key,
   cap |-> cap]
MCCalls ==
  { C(owner, "transaction_commit", None, "x", k1, None),
    C(owner, "transaction_commit", None, "y", k1, None),
    C(owner, "transaction_commit", None, "bad", k1, None),
    C(owner, "transaction_access_grant", agent, "operate", None, None),
    C(owner, "transaction_access_grant", agent, "admin", None, None),
    C(owner, "transaction_access_revoke", agent, "", None, None),
    C(agent, "transaction_seal", None, "", None, None),
    C(agent, "transaction_commit", None, "x", k1, c1),
    C(agent, "transaction_commit", None, "x", None, c1),
    C(operator, "effect_refresh", None, "", None, None),
    C(owner, "transaction_seal", None, "huge", k1, None),
    C(owner, "transaction_seal", None, "", "malformed", None),
    C(stranger, "transaction_seal", None, "", k1, None),
    C(owner, "approval_material", None, "", None, None) }

VARIABLE machine

guidedVars == <<change, selection, run, published, turns, author>>

MCInit ==
  /\ machine \in {"api", "guided"}
  /\ Init /\ G!CliInit
  /\ machine = "api" => selection = None /\ G!Known = {}

Only(m) == machine = m /\ UNCHANGED machine

MCNext ==
  \/ Only("api") /\ Next /\ UNCHANGED guidedVars
  \/ Only("guided") /\ G!CliNext /\ UNCHANGED vars

MCSpec == MCInit /\ [][MCNext]_<<machine, vars, guidedVars>>

MCSymmetry == Permutations(Request) \cup Permutations(Run)
=============================================================================
