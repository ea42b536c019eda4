-------------------------- MODULE MCSessionStream --------------------------
(* SessionStream with two clients and three slices of output, so that a    *)
(* two-slice item is half written when an attach begins, and one attach    *)
(* more than there are clients, so that one comes back.                    *)
EXTENDS SessionStream

MCSockets == 1..2
=============================================================================
