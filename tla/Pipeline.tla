----------------------------- MODULE Pipeline -----------------------------
(***************************************************************************)
(* The register side of core.v: the latches of the stages D (decode.v),    *)
(* A (alu.v), M (mem_rd.v) and W (wb.v), the register file                 *)
(* (mem/register.v) and the forwarding from M and W into A.  The fetch     *)
(* hands D an instruction each cycle, valid or not; data.v hands M the     *)
(* word a load has read.  One step is one rising edge of CLK.              *)
(***************************************************************************)
EXTENDS PipeTypes

CONSTANT InstStall   \* may inst_mem_wait hold the pipeline while A holds a load?
ASSUME StallAssumption == InstStall \in BOOLEAN

VARIABLES
  d,       \* D latch: the instruction word and its valid bit
  a,       \* A latch: the decoded instruction and the operands D read
  m,       \* M latch: rd, the value computed, whether it is a load, DO_JMP
  w,       \* W latch: rd and the value written
  reg,     \* REG01 .. REG31; reg[x0] is never read
  rddata   \* RDDATA of data.v, through load_reg_d_v

vars == <<d, a, m, w, reg, rddata>>

EmptyD == [inst |-> Bubble, valid |-> FALSE]
EmptyA == [inst |-> Bubble, valid |-> FALSE, s1v |-> Zero, s2v |-> Zero]
EmptyM == [valid |-> FALSE, rd |-> x0, v |-> Zero, load |-> FALSE, jmp |-> FALSE]
EmptyW == [valid |-> FALSE, rd |-> x0, v |-> Zero]

\* M_REG_D_V
MValue == IF m.load THEN rddata ELSE m.v

\* The read ports of register.v.
Read(r) == IF r = x0 THEN Zero ELSE reg[r]

\* forward in alu.v: x0 is zero, the younger producer wins, else what D read.
\* (The definitions marked "Slip" are mistakes the properties must notice.)
forwardOld(r, v) ==                          \* Slip: W before M
  CASE r = x0 -> Zero
    [] r # x0 /\ w.valid /\ w.rd = r -> w.v
    [] r # x0 /\ ~(w.valid /\ w.rd = r) /\ m.valid /\ m.rd = r -> MValue
    [] OTHER -> v
forwardM(r, v) ==                            \* Slip: nothing from W
  CASE r = x0 -> Zero
    [] r # x0 /\ m.valid /\ m.rd = r -> MValue
    [] OTHER -> v
forward(r, v) ==
  CASE r = x0 -> Zero
    [] r # x0 /\ m.valid /\ m.rd = r -> MValue
    [] r # x0 /\ ~(m.valid /\ m.rd = r) /\ w.valid /\ w.rd = r -> w.v
    [] OTHER -> v

S1 == forward(a.inst.rs1, a.s1v)
S2 == forward(a.inst.rs2, a.s2v)

FLUSH == m.jmp

\* The latches at an edge without STALL; next is what the fetch hands over.
StageD(next) == d' = IF FLUSH THEN EmptyD ELSE next
StageA == a' = IF FLUSH THEN EmptyA
               ELSE [inst |-> d.inst, valid |-> d.valid,
                     s1v |-> Read(d.inst.rs1), s2v |-> Read(d.inst.rs2)]
StageM == m' = IF FLUSH THEN EmptyM
               ELSE [valid |-> a.valid, rd |-> a.inst.rd, v |-> Result[a.inst][<<S1, S2>>],
                     load |-> a.inst.op = "load", jmp |-> Taken(a.inst, S1, S2)]
StageW == w' = IF FLUSH THEN EmptyW
               ELSE [valid |-> m.valid, rd |-> m.rd, v |-> MValue]

\* What RST leaves in a register.
Unreset == x0                                     \* Slip: not a word of the machine
ResetWord == Zero

\* register.v writes what M holds, a jump's rd too.
WriteAlways == reg' = Written(reg, m.rd, MValue)  \* Slip: words that are not valid write
WriteReg == reg' = IF m.valid THEN Written(reg, m.rd, MValue) ELSE reg

Init == /\ d = EmptyD /\ a = EmptyA /\ m = EmptyM /\ w = EmptyW
        /\ reg = [r \in Reg |-> ResetWord] /\ rddata = Zero

Reset == /\ d' = EmptyD /\ a' = EmptyA /\ m' = EmptyM /\ w' = EmptyW
         /\ reg' = [r \in Reg |-> ResetWord] /\ rddata' = Zero

\* What RDDATA may hold once A's load, if it is one, has been read.
Loaded == IF a.inst.op = "load" THEN Value ELSE {rddata}

\* One clock edge.  With STALL the latches hold.  RDDATA takes A's load when the
\* pipeline moves, and while the fetch holds it as well (LoadKeepsItsWord in
\* DataMem.tla).
Tick(stall, next) ==
  \/ /\ stall
     /\ UNCHANGED <<d, a, m, w, reg>>
     /\ rddata' \in {rddata} \cup (IF InstStall THEN Loaded ELSE {})
  \/ /\ ~stall
     /\ StageD(next) /\ StageA /\ StageM /\ StageW /\ WriteReg
     /\ rddata' \in Loaded

Fetched == [inst : Inst, valid : BOOLEAN]
Next == \/ Reset
        \/ \E stall \in BOOLEAN, next \in Fetched : Tick(stall, next)

Spec == Init /\ [][Next]_vars
-----------------------------------------------------------------------------
\* The registers as the instructions up to the one in M leave them.
InOrderReg ==
  [r \in Reg |-> CASE r = x0 -> Zero
                   [] r # x0 /\ m.valid /\ m.rd = r -> MValue
                   [] OTHER -> reg[r]]

TypeOK ==
  /\ d \in Fetched
  /\ a \in [inst : Inst, valid : BOOLEAN, s1v : Value, s2v : Value]
  /\ m \in [valid : BOOLEAN, rd : Reg, v : Value, load : BOOLEAN, jmp : BOOLEAN]
  /\ w \in [valid : BOOLEAN, rd : Reg, v : Value]
  /\ reg \in [Reg -> Value] /\ rddata \in Value

\* The operands an instruction computes with are those the instructions before
\* it left, one, two or more slots ahead of it, loads and jumps among them.
OperandsInOrder == S1 = InOrderReg[a.inst.rs1] /\ S2 = InOrderReg[a.inst.rs2]

\* The pipeline implements the in-order registers.
RegPort == INSTANCE RegPort
             WITH regs <- InOrderReg, inst <- a.inst, valid <- a.valid, squash <- m.jmp
RegSpec == RegPort!Spec
-----------------------------------------------------------------------------
\* What makes OperandsInOrder inductive: what D read is the register file of
\* now, but for the register W has just written.
LatchInv ==
  /\ \A r \in Reg : w.valid /\ w.rd = r /\ r # x0 => reg[r] = w.v
  /\ \A s \in {<<a.inst.rs1, a.s1v>>, <<a.inst.rs2, a.s2v>>} :
       s[1] # x0 /\ ~(w.valid /\ w.rd = s[1]) => s[2] = reg[s[1]]
IInv == TypeOK /\ LatchInv
=============================================================================
