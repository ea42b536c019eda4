--------------------------- MODULE MCTerminalHost ---------------------------
(* TerminalHost with three requests over two session ids and one spawn     *)
(* slot.  The first two requests share an id, so a terminating session can *)
(* be replaced while its process is still exiting, and its replacement     *)
(* killed in turn; the third competes for the slot under either id.  Other *)
(* assignments of ids to requests are these with requests renamed.         *)
EXTENDS TerminalHost

MCSessionIds == 1..2
MCCalls == 1..3
MCSockets == 1..2

MCInit ==
    /\ Init
    /\ sid[1] = 1
    /\ sid[2] = 1
    /\ sock[1] = 1
    /\ sock[2] = 2
    /\ sock[3] = 2

MCSafety == MCInit /\ [][Next]_vars
MCSpec == MCSafety /\ Fairness
=============================================================================
