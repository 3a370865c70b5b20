------------------------------ MODULE RegPort ------------------------------
(***************************************************************************)
(* What the pipeline promises of the registers: instructions read and      *)
(* write them one at a time, each seeing what all the instructions before  *)
(* it left.  There are no stages, latches or forwarding here.              *)
(***************************************************************************)
EXTENDS PipeTypes

VARIABLES regs,    \* the registers
          inst,    \* the instruction to execute next
          valid,   \* is it one of the program?
          squash   \* does it stand behind a taken jump?

vars == <<regs, inst, valid, squash>>

Init == /\ regs = [r \in Reg |-> Zero]
        /\ inst = Bubble /\ valid = FALSE /\ squash = FALSE

\* An instruction behind a taken jump is dropped, with what was fetched so far.
Drop == /\ squash
        /\ UNCHANGED regs
        /\ inst' = Bubble /\ valid' = FALSE /\ squash' = FALSE

\* The instruction reads its operands and writes its result; a load's result
\* is what the memory answers.
Execute ==
  LET v1 == regs[inst.rs1]
      v2 == regs[inst.rs2]
  IN
  /\ ~squash
  /\ \E v \in IF inst.op = "load" THEN Value ELSE {Result[inst][<<v1, v2>>]} :
       regs' = IF valid THEN Written(regs, inst.rd, v) ELSE regs
  /\ inst' \in Inst /\ valid' \in BOOLEAN
  /\ squash' = Taken(inst, v1, v2)

Reset == /\ regs' = [r \in Reg |-> Zero]
         /\ inst' = Bubble /\ valid' = FALSE /\ squash' = FALSE

Next == Drop \/ Execute \/ Reset

Spec == Init /\ [][Next]_vars
=============================================================================
