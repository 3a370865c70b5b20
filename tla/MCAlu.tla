------------------------------- MODULE MCAlu -------------------------------
(* Words of four bytes of two bits; immediates of 4, 5 and 6 bits.            *)
EXTENDS Alu

I(ops, imms) == [op : ops, imm : imms]
MCProgram ==
  I(RegOps, {0}) \cup I(ImmOps \cup LoadOps \cup StoreOps \cup {"jalr"},
                            {-8, -3, -1, 0, 1, 2, 7})
  \cup I(ShiftOps, {0, 1, 5, 7}) \cup I(UpperOps, {-128, -16, 0, 16, 112})
  \cup I(BranchOps, {-16, -2, 0, 14}) \cup I({"jal"}, {-32, -2, 0, 30})

\* The ends of the range with and without sign, and words with mixed bits.
Operand == {Vec(n) : n \in {1, 90, 128, 165, 252}}
Memory == {[a \in {Vec(0), Vec(252)} |-> IF a = Vec(0) THEN Vec(v) ELSE Vec(255 - v)] : v \in {228}}
MCStarts == [pc : {Vec(252)}, reg : Operand \X Operand, mem : Memory]
=============================================================================
