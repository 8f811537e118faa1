--------------------------- MODULE MessageChannel ---------------------------
(***************************************************************************)
(* What a connection promises to the handler that reads messages from it:  *)
(* the messages come as they were sent, whole and in the order they were   *)
(* sent, whatever pieces the bytes arrive in.  A message the receiver has  *)
(* refused for its length ends the promise: from then on anything may be   *)
(* taken for a message.                                                    *)
(***************************************************************************)
EXTENDS Naturals, Sequences

CONSTANTS Message,        \* what may be sent
          Fitting         \* the messages the receiver does not refuse

VARIABLES sent,           \* the messages sent so far
          taken           \* the messages the receiver has handled

vars == <<sent, taken>>

\* Every message up to the i-th has a length the receiver accepts.
InStep(i) == \A j \in 1..i : j <= Len(sent) => sent[j] \in Fitting

Init == sent = <<>> /\ taken = <<>>

Send == \E m \in Message : sent' = Append(sent, m) /\ UNCHANGED taken

Take == LET i == Len(taken) + 1
        IN  /\ InStep(i) /\ i <= Len(sent)
            /\ taken' = Append(taken, sent[i])
            /\ UNCHANGED sent

TakeAnything == /\ ~InStep(Len(taken) + 1)
                /\ Len(taken') = Len(taken) + 1
                /\ SubSeq(taken', 1, Len(taken)) = taken
                /\ UNCHANGED sent

Next == Send \/ Take \/ TakeAnything

Spec == Init /\ [][Next]_vars
=============================================================================
