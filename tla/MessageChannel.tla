----------------------------- MODULE MessageChannel -----------------------------
(***************************************************************************)
(* What one direction of an EPP connection promises: messages arrive in    *)
(* the order they were sent in, none twice and none left out, each as the  *)
(* receiver reads it, until the receiver stops, as it must at a message    *)
(* that it cannot read.                                                    *)
(***************************************************************************)
EXTENDS Naturals, Sequences

CONSTANTS
  Messages,   \* messages that may be sent
  Readable,   \* those of them a receiver can read
  Reading,    \* Reading[m]: what a receiver makes of m
  MaxSent     \* bound: messages that are sent

VARIABLES sent, received, open
vars == <<sent, received, open>>

Send(m) ==
  /\ Len(sent) < MaxSent
  /\ sent' = Append(sent, m)
  /\ UNCHANGED <<received, open>>

Deliver ==
  /\ open
  /\ Len(received) < Len(sent) /\ sent[Len(received) + 1] \in Readable
  /\ received' = Append(received, Reading[sent[Len(received) + 1]])
  /\ UNCHANGED <<sent, open>>

Close ==
  /\ open
  /\ open' = FALSE
  /\ UNCHANGED <<sent, received>>

Init == sent = <<>> /\ received = <<>> /\ open = TRUE
Next == (\E m \in Messages : Send(m)) \/ Deliver \/ Close
Spec == Init /\ [][Next]_vars
=============================================================================
