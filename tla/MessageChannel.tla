----------------------------- MODULE MessageChannel -----------------------------
(***************************************************************************)
(* What a message pipe promises to the threads that share it: a channel    *)
(* that hands out every message that was written exactly once, in the      *)
(* order of the writes, and that never makes one up.                       *)
(***************************************************************************)
EXTENDS Naturals, Sequences

CONSTANT Messages

VARIABLES
  sent,   \* every message ever written, in order
  got     \* every message ever handed to a reader, in order

channelVars == <<sent, got>>

Init ==
  /\ sent = << >>
  /\ got = << >>

Send(m) ==
  /\ sent' = Append(sent, m)
  /\ UNCHANGED got

Receive ==
  /\ Len(got) < Len(sent)
  /\ got' = Append(got, sent[Len(got) + 1])
  /\ UNCHANGED sent

Next == Receive \/ \E m \in Messages : Send(m)

Spec == Init /\ [][Next]_channelVars

===============================================================================
