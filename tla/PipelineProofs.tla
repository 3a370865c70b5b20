-------------------------- MODULE PipelineProofs --------------------------
(***************************************************************************)
(* Proofs about Pipeline.tla, for any registers, words, instruction set    *)
(* and any function the ALU computes.                                      *)
(***************************************************************************)
EXTENDS Pipeline, TLAPS

\* An instruction names registers, and Bubble only x0.
LEMMA InstFacts ==
  /\ \A i \in Inst : i.rd \in Reg /\ i.rs1 \in Reg /\ i.rs2 \in Reg
  /\ Bubble \in Inst /\ Bubble.rs1 = x0 /\ Bubble.rs2 = x0
  /\ x0 \in Reg /\ Zero \in Value
BY InstAssumption, RegAssumption DEF Decoded, Bubble

\* What forward yields is a word.
LEMMA ForwardType ==
  ASSUME TypeOK, NEW r \in Reg, NEW v \in Value
  PROVE  forward(r, v) \in Value
<1>1. MValue \in Value /\ w.v \in Value
  BY DEF TypeOK, MValue
<1> QED
  BY <1>1, RegAssumption DEF forward

\* The operands and the result of the instruction in A are words.
LEMMA ExecuteType ==
  ASSUME TypeOK
  PROVE  S1 \in Value /\ S2 \in Value /\ Result[a.inst][<<S1, S2>>] \in Value
<1>1. a.inst \in Inst /\ a.s1v \in Value /\ a.s2v \in Value
  BY DEF TypeOK
<1>2. a.inst.rs1 \in Reg /\ a.inst.rs2 \in Reg
  BY <1>1, InstFacts
<1>3. S1 \in Value /\ S2 \in Value
  BY <1>1, <1>2, ForwardType DEF S1, S2
<1>4. Result[a.inst] \in [Value \X Value -> Value]
  BY <1>1, ResultAssumption
<1> QED
  BY <1>3, <1>4

\* What a write to the register file leaves in it.
LEMMA WrittenIs ==
  ASSUME NEW rs \in [Reg -> Value], NEW rd \in Reg, NEW v \in Value
  PROVE  /\ Written(rs, rd, v) \in [Reg -> Value]
         /\ \A r \in Reg : Written(rs, rd, v)[r] = IF r = rd /\ r # x0 THEN v ELSE rs[r]
BY DEF Written

\* The first state and the state after RST satisfy the invariant.
LEMMA EmptyInv ==
  ASSUME d = EmptyD, a = EmptyA, m = EmptyM, w = EmptyW,
         reg = [r \in Reg |-> ResetWord], rddata = Zero
  PROVE  IInv
<1>1. TypeOK
  BY InstFacts DEF TypeOK, Fetched, EmptyD, EmptyA, EmptyM, EmptyW, ResetWord
<1>2. LatchInv
  BY InstFacts DEF LatchInv, EmptyA, EmptyW
<1> QED
  BY <1>1, <1>2 DEF IInv

\* RST leads to a state of the invariant.
LEMMA ResetInv == Reset => IInv'
<1> SUFFICES ASSUME Reset PROVE IInv'
  OBVIOUS
<1>1. TypeOK'
  BY InstFacts DEF Reset, TypeOK, Fetched, EmptyD, EmptyA, EmptyM, EmptyW, ResetWord
<1>2. LatchInv'
  BY InstFacts DEF Reset, LatchInv, EmptyA, EmptyW
<1> QED
  BY <1>1, <1>2 DEF IInv

\* The latches, the registers and RDDATA as an edge without STALL leaves them.
Move(next) == /\ StageD(next) /\ StageA /\ StageM /\ StageW /\ WriteReg
              /\ rddata' \in Loaded

\* Moving writes the register M names, if M holds a valid instruction.
LEMMA MoveWrites ==
  ASSUME TypeOK, NEW next \in Fetched, Move(next)
  PROVE  \A r \in Reg : reg'[r] = IF m.valid /\ r = m.rd /\ r # x0 THEN MValue ELSE reg[r]
<1>1. MValue \in Value /\ m.rd \in Reg /\ m.valid \in BOOLEAN /\ reg \in [Reg -> Value]
  BY DEF TypeOK, MValue
<1>2. \A r \in Reg : Written(reg, m.rd, MValue)[r]
                       = IF r = m.rd /\ r # x0 THEN MValue ELSE reg[r]
  BY <1>1, WrittenIs
<1>3. CASE m.valid
  <2>1. reg' = Written(reg, m.rd, MValue)
    BY <1>3 DEF Move, WriteReg
  <2> QED
    BY <1>2, <1>3, <2>1
<1>4. CASE ~m.valid
  BY <1>4 DEF Move, WriteReg
<1> QED
  BY <1>3, <1>4

\* Moving keeps the latches and the registers well typed.
LEMMA MoveType ==
  ASSUME TypeOK, NEW next \in Fetched, Move(next)
  PROVE  TypeOK'
<1>1. MValue \in Value /\ m.rd \in Reg /\ m.valid \in BOOLEAN /\ reg \in [Reg -> Value]
  BY DEF TypeOK, MValue
<1>2. d' \in Fetched
  BY InstFacts DEF Move, StageD, EmptyD, Fetched
<1>3. a' \in [inst : Inst, valid : BOOLEAN, s1v : Value, s2v : Value]
  <2>1. d.inst \in Inst /\ d.valid \in BOOLEAN
    BY DEF TypeOK, Fetched
  <2>2. Read(d.inst.rs1) \in Value /\ Read(d.inst.rs2) \in Value
    BY <1>1, <2>1, InstFacts DEF Read
  <2> QED
    BY <2>1, <2>2, InstFacts DEF Move, StageA, EmptyA
<1>4. m' \in [valid : BOOLEAN, rd : Reg, v : Value, load : BOOLEAN, jmp : BOOLEAN]
  <2>1. a.inst.rd \in Reg /\ a.valid \in BOOLEAN
    BY InstFacts DEF TypeOK
  <2>2. Taken(a.inst, S1, S2) \in BOOLEAN /\ (a.inst.op = "load") \in BOOLEAN
    BY DEF Taken
  <2> QED
    BY <2>1, <2>2, ExecuteType, InstFacts DEF Move, StageM, EmptyM
<1>5. w' \in [valid : BOOLEAN, rd : Reg, v : Value]
  BY <1>1, InstFacts DEF Move, StageW, EmptyW
<1>6. reg' \in [Reg -> Value]
  BY <1>1, WrittenIs DEF Move, WriteReg
<1>7. rddata' \in Value
  BY DEF TypeOK, Move, Loaded
<1> QED
  BY <1>2, <1>3, <1>4, <1>5, <1>6, <1>7 DEF TypeOK

\* Moving keeps what W holds equal to the register file, and what A has read
\* equal to it but for the register W has just written.
LEMMA MoveLatch ==
  ASSUME IInv, NEW next \in Fetched, Move(next)
  PROVE  LatchInv'
<1>1. MValue \in Value /\ m.rd \in Reg /\ reg \in [Reg -> Value] /\ d.inst \in Inst
  BY DEF IInv, TypeOK, MValue, Fetched
<1>2. \A r \in Reg : reg'[r] = IF m.valid /\ r = m.rd /\ r # x0 THEN MValue ELSE reg[r]
  BY MoveWrites DEF IInv
<1>3. ASSUME NEW r \in Reg, w'.valid, w'.rd = r, r # x0
      PROVE  reg'[r] = w'.v
  BY <1>2, <1>3 DEF Move, StageW, EmptyW
<1>4. ASSUME NEW s \in {<<a.inst.rs1, a.s1v>>', <<a.inst.rs2, a.s2v>>'},
             s[1] # x0, ~(w'.valid /\ w'.rd = s[1])
      PROVE  s[2] = reg'[s[1]]
  <2>1. ~FLUSH
    BY <1>4, InstFacts DEF Move, StageA, EmptyA
  <2>2. PICK r \in {d.inst.rs1, d.inst.rs2} : s = <<r, Read(r)>>
    BY <1>4, <2>1 DEF Move, StageA
  <2>3. r \in Reg /\ r # x0 /\ ~(m.valid /\ m.rd = r)
    BY <1>1, <1>4, <2>1, <2>2, InstFacts DEF Move, StageW
  <2> QED
    BY <1>2, <2>2, <2>3 DEF Read
<1> QED
  BY <1>3, <1>4 DEF LatchInv

\* A cycle with STALL changes at most RDDATA, to another word.
LEMMA StallInv ==
  ASSUME IInv, UNCHANGED <<d, a, m, w, reg>>,
         rddata' \in {rddata} \cup (IF InstStall THEN Loaded ELSE {})
  PROVE  IInv'
<1>1. rddata' \in Value
  BY DEF IInv, TypeOK, Loaded
<1>2. TypeOK'
  BY <1>1 DEF IInv, TypeOK
<1>3. LatchInv'
  BY DEF IInv, LatchInv
<1> QED
  BY <1>2, <1>3 DEF IInv

\* The invariant holds in every state.
LEMMA Invariance == Spec => []IInv
<1>1. Init => IInv
  BY EmptyInv DEF Init
<1>2. IInv /\ [Next]_vars => IInv'
  <2> SUFFICES ASSUME IInv, [Next]_vars PROVE IInv'
    OBVIOUS
  <2>1. CASE Reset
    BY <2>1, ResetInv
  <2>2. ASSUME NEW stall \in BOOLEAN, NEW next \in Fetched, Tick(stall, next)
        PROVE  IInv'
    <3>1. CASE stall
      BY <2>2, <3>1, StallInv DEF Tick
    <3>2. CASE ~stall
      <4>1. Move(next)
        BY <2>2, <3>2 DEF Tick, Move
      <4>2. TypeOK'
        BY <4>1, MoveType DEF IInv
      <4>3. LatchInv'
        BY <4>1, MoveLatch
      <4> QED
        BY <4>2, <4>3 DEF IInv
    <3> QED
      BY <3>1, <3>2
  <2>3. CASE UNCHANGED vars
    BY <2>3 DEF vars, IInv, TypeOK, LatchInv, Fetched
  <2> QED
    BY <2>1, <2>2, <2>3 DEF Next
<1> QED
  BY <1>1, <1>2, PTL DEF Spec
-----------------------------------------------------------------------------
\* Every latch and register holds a value of its type, whatever the fetch hands
\* over, whatever the loads answer and whenever RST comes.
THEOREM PipelineTypeCorrect == Spec => []TypeOK
BY Invariance, PTL DEF IInv

\* forward in alu.v gives every instruction the operands the instructions
\* before it left (OperandsInOrder): from M, from W or from what D read, for any
\* distance between producer and consumer, stalled or not.
LEMMA ForwardInOrder ==
  ASSUME IInv
  PROVE  OperandsInOrder
<1>1. a.inst.rs1 \in Reg /\ a.inst.rs2 \in Reg
  BY InstFacts DEF IInv, TypeOK
<1>2. ASSUME NEW s \in {<<a.inst.rs1, a.s1v>>, <<a.inst.rs2, a.s2v>>}
      PROVE  forward(s[1], s[2]) = InOrderReg[s[1]]
  <2>1. s[1] \in Reg
    BY <1>1
  <2>2. CASE s[1] = x0
    BY <2>1, <2>2 DEF forward, InOrderReg
  <2>3. CASE s[1] # x0 /\ m.valid /\ m.rd = s[1]
    BY <2>1, <2>3 DEF forward, InOrderReg
  <2>4. CASE s[1] # x0 /\ ~(m.valid /\ m.rd = s[1])
    <3>1. InOrderReg[s[1]] = reg[s[1]]
      BY <2>1, <2>4 DEF InOrderReg
    <3>2. CASE w.valid /\ w.rd = s[1]
      BY <2>1, <2>4, <3>1, <3>2 DEF forward, IInv, LatchInv
    <3>3. CASE ~(w.valid /\ w.rd = s[1])
      BY <2>1, <2>4, <3>1, <3>3 DEF forward, IInv, LatchInv
    <3> QED
      BY <3>2, <3>3
  <2> QED
    BY <2>2, <2>3, <2>4
<1> QED
  BY <1>2 DEF S1, S2, OperandsInOrder

\* OperandsInOrder holds in every state.
THEOREM PipelineInOrder == Spec => []OperandsInOrder
BY Invariance, ForwardInOrder, PTL
-----------------------------------------------------------------------------
\* InOrderReg, one register at a time.
LEMMA InOrderIs ==
  ASSUME NEW r \in Reg
  PROVE  InOrderReg[r] = IF r = x0 THEN Zero
                         ELSE IF m.valid /\ m.rd = r THEN MValue ELSE reg[r]
BY DEF InOrderReg

\* A jump in M leaves the pipeline with its own rd written and nothing else:
\* the instruction behind it is dropped.
LEMMA FlushDrops ==
  ASSUME IInv, NEW next \in Fetched, Move(next), FLUSH
  PROVE  RegPort!Drop
<1>1. MValue \in Value /\ m.rd \in Reg /\ reg \in [Reg -> Value]
  BY DEF IInv, TypeOK, MValue
<1>2. \A r \in Reg : reg'[r] = IF m.valid /\ r = m.rd /\ r # x0 THEN MValue ELSE reg[r]
  BY MoveWrites DEF IInv
<1>3. a' = EmptyA /\ m' = EmptyM
  BY DEF Move, StageA, StageM
<1>4. \A r \in Reg : InOrderReg'[r] = InOrderReg[r]
  BY <1>2, <1>3 DEF InOrderReg, EmptyM
<1>5. InOrderReg' = InOrderReg
  BY <1>4 DEF InOrderReg
<1> QED
  BY <1>3, <1>5 DEF RegPort!Drop, RegPort!Bubble, EmptyA, EmptyM, FLUSH, Bubble

\* With no jump in M, moving executes the instruction of A.
LEMMA MoveExecutes ==
  ASSUME IInv, NEW next \in Fetched, Move(next), ~FLUSH
  PROVE  RegPort!Execute
<1>1. MValue \in Value /\ m.rd \in Reg /\ reg \in [Reg -> Value] /\ a.inst.rd \in Reg
  BY InstFacts DEF IInv, TypeOK, MValue
<1>2. \A r \in Reg : reg'[r] = IF m.valid /\ r = m.rd /\ r # x0 THEN MValue ELSE reg[r]
  BY MoveWrites DEF IInv
<1>3. S1 = InOrderReg[a.inst.rs1] /\ S2 = InOrderReg[a.inst.rs2]
  BY ForwardInOrder DEF OperandsInOrder
<1>4. m' = [valid |-> a.valid, rd |-> a.inst.rd, v |-> Result[a.inst][<<S1, S2>>],
            load |-> a.inst.op = "load", jmp |-> Taken(a.inst, S1, S2)]
  BY DEF Move, StageM
<1>5. PICK v \in IF a.inst.op = "load" THEN Value ELSE {Result[a.inst][<<S1, S2>>]} :
        v = MValue'
  BY <1>4 DEF MValue, Move, Loaded
<1>6. InOrderReg' = IF a.valid THEN Written(InOrderReg, a.inst.rd, v) ELSE InOrderReg
  <2>1. ASSUME NEW r \in Reg
        PROVE  InOrderReg'[r] = IF a.valid /\ r = a.inst.rd /\ r # x0 THEN v ELSE InOrderReg[r]
    <3>1. InOrderReg'[r] = IF r = x0 THEN Zero
                           ELSE IF a.valid /\ a.inst.rd = r THEN v ELSE reg'[r]
      BY <1>4, <1>5 DEF InOrderReg
    <3>2. r # x0 => reg'[r] = InOrderReg[r]
      BY <1>2, InOrderIs
    <3>3. r = x0 => InOrderReg[r] = Zero
      BY InOrderIs
    <3> QED
      BY <3>1, <3>2, <3>3
  <2> QED
    BY <2>1 DEF InOrderReg, Written
<1>7. a'.inst \in Inst /\ a'.valid \in BOOLEAN
  BY DEF IInv, TypeOK, Fetched, Move, StageA
<1> QED
  BY <1>3, <1>4, <1>5, <1>6, <1>7
  DEF RegPort!Execute, RegPort!Taken, RegPort!Written, Taken, Written, FLUSH

\* RST empties the registers.
LEMMA ResetResets == Reset => RegPort!Reset
<1> SUFFICES ASSUME Reset PROVE RegPort!Reset
  OBVIOUS
<1>1. InOrderReg' = [r \in Reg |-> Zero]
  BY DEF Reset, InOrderReg, EmptyM, ResetWord
<1> QED
  BY <1>1 DEF Reset, RegPort!Reset, RegPort!Bubble, Bubble, EmptyA, EmptyM

\* With five stages, forwarding, stalls and flushes, the registers behave as if
\* instructions ran one at a time (RegSpec), as long as a load's word is not
\* overwritten while the fetch holds the load in M.
THEOREM PipelineImplementsRegPort == ~InstStall /\ Spec => RegSpec
<1> SUFFICES ASSUME ~InstStall PROVE Spec => RegSpec
  OBVIOUS
<1>1. Init => RegPort!Init
  BY DEF Init, RegPort!Init, RegPort!Bubble, Bubble, InOrderReg, EmptyA, EmptyM, ResetWord
<1>2. IInv /\ [Next]_vars => [RegPort!Next]_(RegPort!vars)
  <2> SUFFICES ASSUME IInv, [Next]_vars PROVE [RegPort!Next]_(RegPort!vars)
    OBVIOUS
  <2>1. CASE Reset
    BY <2>1, ResetResets DEF RegPort!Next
  <2>2. ASSUME NEW stall \in BOOLEAN, NEW next \in Fetched, Tick(stall, next)
        PROVE  [RegPort!Next]_(RegPort!vars)
    <3>1. CASE stall
      <4>1. UNCHANGED vars
        BY <2>2, <3>1 DEF Tick, vars
      <4> QED
        BY <4>1 DEF vars, RegPort!vars, InOrderReg, MValue
    <3>2. CASE ~stall
      <4>1. Move(next)
        BY <2>2, <3>2 DEF Tick, Move
      <4> QED
        BY <4>1, FlushDrops, MoveExecutes DEF RegPort!Next
    <3> QED
      BY <3>1, <3>2
  <2>3. CASE UNCHANGED vars
    BY <2>3 DEF vars, RegPort!vars, InOrderReg, MValue
  <2> QED
    BY <2>1, <2>2, <2>3 DEF Next
<1> QED
  BY <1>1, <1>2, Invariance, PTL DEF Spec, RegSpec, RegPort!Spec
=============================================================================
