----------------------------- MODULE MCAppState -----------------------------
(* AppState with three mutations, two peer snapshots, two attempts to link *)
(* and one crash: a promotion meets a peer twice and gives up, and a       *)
(* mutation waits behind one that fails.                                   *)
EXTENDS AppState
=============================================================================
