----------------------------- MODULE CommandRelay -----------------------------
(***************************************************************************)
(* What the terminal server promises for commands, whatever its threads    *)
(* do: a command is handed to the link it is addressed to, at most once,   *)
(* in the order in which the link's queue accepted it and only while that  *)
(* link is up; a command that failed is never handed over.                 *)
(***************************************************************************)
EXTENDS Naturals, Sequences, SequencesExt

CONSTANTS Links, Commands

VARIABLES
  link,       \* "fresh", "up" or "down", in this order and never back
  queue,      \* commands accepted for a link and not yet handed over
  delivered,  \* commands handed over to a link
  failed      \* commands given up

vars == <<link, queue, delivered, failed>>

Init ==
  /\ link = [l \in Links |-> "fresh"]
  /\ queue = [l \in Links |-> << >>]
  /\ delivered = [l \in Links |-> << >>]
  /\ failed = {}

(* Commands whose fate is open or sealed already. *)
Known == failed \cup UNION {ToSet(queue[l]) \cup ToSet(delivered[l]) : l \in Links}

Up(l) ==
  /\ link[l] = "fresh"
  /\ link' = [link EXCEPT ![l] = "up"]
  /\ UNCHANGED <<queue, delivered, failed>>

Down(l) ==
  /\ link[l] = "up"
  /\ link' = [link EXCEPT ![l] = "down"]
  /\ UNCHANGED <<queue, delivered, failed>>

Accept(l, m) ==
  /\ link[l] = "up" /\ m \notin Known
  /\ queue' = [queue EXCEPT ![l] = Append(@, m)]
  /\ UNCHANGED <<link, delivered, failed>>

Deliver(l) ==
  /\ link[l] = "up" /\ queue[l] # << >>
  /\ queue' = [queue EXCEPT ![l] = Tail(@)]
  /\ delivered' = [delivered EXCEPT ![l] = Append(@, Head(queue[l]))]
  /\ UNCHANGED <<link, failed>>

(* A link that is down gives up everything it had accepted. *)
GiveUp(l) ==
  /\ link[l] = "down" /\ queue[l] # << >>
  /\ failed' = failed \cup ToSet(queue[l])
  /\ queue' = [queue EXCEPT ![l] = << >>]
  /\ UNCHANGED <<link, delivered>>

Refuse(m) ==
  /\ m \notin Known
  /\ failed' = failed \cup {m}
  /\ UNCHANGED <<link, queue, delivered>>

Next ==
  \/ \E l \in Links : Up(l) \/ Down(l) \/ Deliver(l) \/ GiveUp(l)
  \/ \E l \in Links, m \in Commands : Accept(l, m)
  \/ \E m \in Commands : Refuse(m)

Spec == Init /\ [][Next]_vars
=============================================================================
