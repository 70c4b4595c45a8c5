---------------------------- MODULE MCDaemonLock ----------------------------
(***************************************************************************)
(* Two daemons, one offline tool and one cleanup over one data root.       *)
(***************************************************************************)
EXTENDS DaemonLock, TLC

CONSTANTS d1, d2, d3, i1, i2, i3

MCSymmetry == Permutations(Daemon) \cup Permutations(Inode)
=============================================================================
