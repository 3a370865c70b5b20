----------------------------- MODULE PipeTypes -----------------------------
(***************************************************************************)
(* Instructions as the register side of the core sees them, shared by what *)
(* it promises (RegPort.tla) and by the pipeline that does it              *)
(* (Pipeline.tla).  What an operation computes is a constant: the pipeline *)
(* must give it the right operands, whatever it is.                        *)
(***************************************************************************)
CONSTANTS Reg,     \* register numbers
          x0,      \* the register that reads as zero
          Value,   \* 32-bit words
          Zero,    \* the word 0
          Inst,    \* the instructions of the program
          Compare, \* [Inst -> pairs of operands for which a branch is taken]
          Result   \* [Inst -> [operands -> value written to rd]] (rd_calc)

\* An instruction as decode.v splits it; rd is x0 for stores and branches.
Decoded == [op : {"none", "alu", "load", "store", "branch", "jump"},
            rd : Reg, rs1 : Reg, rs2 : Reg]

\* The instruction word 0, which RST and FLUSH put into the stages: no opcode
\* of RV32I, so it computes 0 into x0.
Bubble == [op |-> "none", rd |-> x0, rs1 |-> x0, rs2 |-> x0]

ASSUME RegAssumption == x0 \in Reg /\ Zero \in Value
ASSUME InstAssumption ==
  /\ Bubble \in Inst /\ Inst \subseteq Decoded
  /\ \A i \in Inst : i.op \in {"store", "branch"} => i.rd = x0
ASSUME ResultAssumption ==
  /\ Result \in [Inst -> [Value \X Value -> Value]]
  /\ Compare \in [Inst -> SUBSET (Value \X Value)]

\* check_do_jmp
Taken(i, v1, v2) == i.op = "jump" \/ (i.op = "branch" /\ <<v1, v2>> \in Compare[i])

\* The registers rs after v was written to rd.
Written(rs, rd, v) == [r \in Reg |-> IF r = rd /\ r # x0 THEN v ELSE rs[r]]
=============================================================================
