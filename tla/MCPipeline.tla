---------------------------- MODULE MCPipeline ----------------------------
(* Two registers beside x0 and words of one bit.  The program reads one or *)
(* two registers, writes every one of them (x0 too), loads, branches, jumps. *)
EXTENDS Pipeline, Naturals

CONSTANTS r1, r2

I(op, rd, rs1, rs2) == [op |-> op, rd |-> rd, rs1 |-> rs1, rs2 |-> rs2]
MCInst == {Bubble, I("load", r1, r2, x0), I("branch", x0, r1, r2),
           I("jump", r1, x0, x0), I("alu", r1, r1, x0), I("alu", r2, r1, x0),
           I("alu", x0, x0, r2)}

\* Sums and complements, so that a wrong operand shows; branches on equality.
MCResult == [i \in MCInst |->
  [p \in Value \X Value |-> IF i.op = "alu" THEN (p[1] + p[2] + 1) % 2 ELSE 0]]
MCCompare == [i \in MCInst |-> {p \in Value \X Value : p[1] = p[2]}]
=============================================================================
