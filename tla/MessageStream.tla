---------------------------- MODULE MessageStream ----------------------------
(***************************************************************************)
(* What a framed connection promises: messages come out as they went in,   *)
(* whole and in order, and what is still under way may be lost only when   *)
(* the connection ends.                                                    *)
(***************************************************************************)
EXTENDS Naturals, Sequences

CONSTANT Messages

VARIABLES sent, received

vars == <<sent, received>>

Init == sent = << >> /\ received = << >>

Put(m) ==
  /\ sent' = Append(sent, m)
  /\ UNCHANGED received

Take ==
  /\ Len(received) < Len(sent)
  /\ received' = Append(received, sent[Len(received) + 1])
  /\ UNCHANGED sent

Next == Take \/ \E m \in Messages : Put(m)

Spec == Init /\ [][Next]_vars
=============================================================================
