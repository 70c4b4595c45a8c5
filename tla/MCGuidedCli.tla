---------------------------- MODULE MCGuidedCli ----------------------------
(***************************************************************************)
(* Two invocations of fdif, one change, one GitHub target and one other    *)
(* client.                                                                 *)
(***************************************************************************)
EXTENDS GuidedCli
=============================================================================
