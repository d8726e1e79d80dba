---------------------------- MODULE EventStream ----------------------------
(***************************************************************************)
(* What ChatProvider::stream_chat (providers/mod.rs) promises its consumer:*)
(* any number of deltas, then one terminal event, Done or an error, and    *)
(* only then the end of the stream.  The consumer may stop listening.      *)
(***************************************************************************)
EXTENDS Sequences

CONSTANTS
  Delta,    \* events that carry a piece of the answer
  Terminal  \* events that end it

VARIABLES
  heard,  \* the events the consumer has taken
  state   \* "open", "closed" (the stream returned None) or "dropped"

vars == <<heard, state>>

Concluded == heard # <<>> /\ heard[Len(heard)] \in Terminal

Init == heard = <<>> /\ state = "open"

Hear ==
  /\ state = "open" /\ ~Concluded
  /\ \E e \in Delta \cup Terminal : heard' = Append(heard, e)
  /\ UNCHANGED state

End == state = "open" /\ Concluded /\ state' = "closed" /\ UNCHANGED heard

Drop == state = "open" /\ state' = "dropped" /\ UNCHANGED heard

Next == Hear \/ End \/ Drop

Spec == Init /\ [][Next]_vars
=============================================================================
