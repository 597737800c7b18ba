------------------------------ MODULE MCFraming ------------------------------
EXTENDS Framing

CONSTANT Lengths  \* the lengths of the messages a run sends

(* Messages of these lengths, filled with a byte that reads as a small length,
   as a negative one, or as an empty message. *)
MCMessages ==
  {[i \in 1..n |-> b] : n \in Lengths, b \in {0, 1, 2 * Half - 1}}
=============================================================================
