----------------------------- MODULE MCDataMem -----------------------------
(* Small instances of DataMem. *)
EXTENDS DataMem

CONSTANTS w1, w2, l1, l2, b0, b1

\* Every kind of instruction, both words, whole-word and single-lane stores.
Stored == {[strb |-> {l1, l2}, data |-> [l \in {l1, l2} |-> b1]],
           [strb |-> {l1}, data |-> [l \in {l1, l2} |-> b0]]}
MCIssue ==
  {[op |-> o, word |-> w1, strb |-> {}, data |-> Zero] : o \in {"other", "jump"}}
  \cup {[op |-> "load", word |-> x, strb |-> {}, data |-> Zero] : x \in Word}
  \cup {[op |-> "store", word |-> x, strb |-> s.strb, data |-> s.data] :
          x \in Word, s \in Stored}
MCZero == [l \in {l1, l2} |-> b0]
=============================================================================
