----------------------------- MODULE CardService -----------------------------
(***************************************************************************)
(* What a connector promises to the server, whatever its user, its cards   *)
(* and its threads do: sessions come one after the other, a session is     *)
(* bound to one card when it starts, and its commands are answered each    *)
(* once, in their order, by that card or with nothing.  A session may end  *)
(* at any time, with commands unanswered.                                  *)
(***************************************************************************)
EXTENDS Naturals, Sequences

CONSTANTS Sessions, Cards, NoCard

VARIABLES
  state,    \* "fresh", "alive" or "over", in this order and never back
  holder,   \* the card a session is bound to, or NoCard
  asked,    \* how many commands it was given
  answers   \* what it answered: to which command, and from which card

vars == <<state, holder, asked, answers>>

Init ==
  /\ state = [s \in Sessions |-> "fresh"]
  /\ holder = [s \in Sessions |-> NoCard]
  /\ asked = [s \in Sessions |-> 0]
  /\ answers = [s \in Sessions |-> << >>]

Start(s, k) ==
  /\ state[s] = "fresh"
  /\ \A t \in Sessions : state[t] # "alive"
  /\ state' = [state EXCEPT ![s] = "alive"]
  /\ holder' = [holder EXCEPT ![s] = k]
  /\ UNCHANGED <<asked, answers>>

Ask(s) ==
  /\ state[s] = "alive"
  /\ asked' = [asked EXCEPT ![s] = @ + 1]
  /\ UNCHANGED <<state, holder, answers>>

Answer(s, by) ==
  /\ state[s] = "alive"
  /\ Len(answers[s]) < asked[s]
  /\ by \in {NoCard, holder[s]}
  /\ answers' = [answers EXCEPT ![s] = Append(@, [to |-> Len(@) + 1, by |-> by])]
  /\ UNCHANGED <<state, holder, asked>>

Finish(s) ==
  /\ state[s] = "alive"
  /\ state' = [state EXCEPT ![s] = "over"]
  /\ UNCHANGED <<holder, asked, answers>>

Next ==
  \E s \in Sessions :
    \/ \E k \in Cards \cup {NoCard} : Start(s, k) \/ Answer(s, k)
    \/ Ask(s) \/ Finish(s)

Spec == Init /\ [][Next]_vars
=============================================================================
