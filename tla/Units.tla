-------------------------------- MODULE Units --------------------------------
(***************************************************************************)
(* Amounts of data.  Buffers, queues and pipes are sequences of sizes, and *)
(* what one holds is counted unit by unit: a unit is a pair of a place in  *)
(* the sequence and a number up to the size there.  That makes it the sum  *)
(* of the sizes without a recursion, which the provers could not follow.   *)
(***************************************************************************)
EXTENDS Naturals, Sequences, FiniteSets

UnitsOf(sizes) == UNION {{i} \X (1..sizes[i]) : i \in DOMAIN sizes}
Total(sizes) == Cardinality(UnitsOf(sizes))

(* The sizes of frames that carry n units each. *)
Payload(frames) == [i \in DOMAIN frames |-> frames[i].n]
=============================================================================
