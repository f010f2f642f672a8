----------------------------- MODULE WriteOnce -----------------------------
(* What the journal promises a caller: an answer register per key that is  *)
(* filled at most once and never changes afterwards.                       *)

CONSTANTS Keys, Answers, Unset

VARIABLE reg

Init == reg = [k \in Keys |-> Unset]

Fill(k, b) == reg[k] = Unset /\ reg' = [reg EXCEPT ![k] = b]

Next == \E k \in Keys, b \in Answers : Fill(k, b)

Spec == Init /\ [][Next]_reg
============================================================================
