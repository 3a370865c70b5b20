-------------------------------- MODULE Alu --------------------------------
(* What the core computes for an instruction: the immediate decode.v passes   *)
(* on, the functions of alu.v, and the lanes mem_rd.v takes from the word     *)
(* read. A word is the set of its bits that are 1, as Verilog sees it; only   *)
(* sums and comparisons look at the number. The stages between the functions  *)
(* are in Pipeline.tla and DataMem.tla.                                       *)
EXTENDS Integers, FiniteSetsExt, Opcodes

CONSTANTS
  LaneBits,  \* bits of a byte (8)
  ImmBits,   \* bits of the immediate of addi (12)
  JumpBits,  \* bits of the offset of jal (21)
  Program,   \* the instructions, [op, imm], imm a number with its sign
  MaxSteps,  \* bound: instructions executed
  Starts     \* the program counters, registers and memories to start from

VARIABLES
  pc,    \* A_PC
  reg,   \* the registers rs1 (also rd) and rs2
  mem,   \* the memory, by the bits of its word addresses
  inst,  \* A_INST: the instruction executed last
  steps

vars == <<pc, reg, mem, inst, steps>>
Nop == [op |-> "addi", imm |-> 0]

Xlen == 4 * LaneBits
Bits == 0..Xlen-1
Word == SUBSET Bits

Num == [v \in Word |-> MapThenSumSet(LAMBDA k : 2 ^ k, v)]
Vec(n) == {k \in Bits : (n \div 2 ^ k) % 2 = 1}

Plus(a, b) == Vec(Num[a] + Num[b])
Minus(a, b) == Vec(Num[a] - Num[b])
Below(a, b) == Num[a] < Num[b]
\* A comparison of signed operands: the sign bit counts the other way round.
Flip(a) == IF Xlen - 1 \in a THEN a \ {Xlen - 1} ELSE a \cup {Xlen - 1}
SignedBelow(a, b) == Below(Flip(a), Flip(b))
One(b) == IF b THEN {0} ELSE {}

ShiftLeft(v, n) == {k + n : k \in v} \cap Bits
ShiftRight(v, n) == {k - n : k \in v} \cap Bits
\* The bits of v below n, and the rest of the word filled with bit n - 1.
SignExtend(v, n) == {k \in v : k < n} \cup (IF n - 1 \in v THEN n..Xlen-1 ELSE {})
ShiftRightSigned(v, n) == SignExtend(ShiftRight(v, n), Xlen - n)

Slice(v, from, n) == {k - from : k \in {b \in v : b >= from /\ b < from + n}}
Offset(addr) == Num[addr \cap {0, 1}]
WordAddress(addr) == addr \ {0, 1}

-----------------------------------------------------------------------------
\* What the core promises, with vectors of bits read as numbers.
Isa == INSTANCE Isa WITH x <- <<Num[reg[1]], Num[reg[2]]>>,
  pc <- Num[pc],
  byte <- [b \in {Num[a] + k : a \in DOMAIN mem, k \in 0..3} |->
             Num[Slice(mem[WordAddress(Vec(b))], (b % 4) * LaneBits, LaneBits)]]

\* The field of the instruction word, without its sign; U's is in place.
gen_imm(i) ==
  CASE i.op \in RegOps -> {}
    [] i.op \in UpperOps -> Vec(i.imm)
    [] i.op \in BranchOps -> {k \in Vec(i.imm) : k >= 1 /\ k <= ImmBits}
    [] i.op = "jal" -> {k \in Vec(i.imm) : k >= 1 /\ k < JumpBits}
    [] OTHER -> {k \in Vec(i.imm) : k < ImmBits}

check_do_jmp(op, s1, s2) ==
  CASE op = "beq" -> s1 = s2
    [] op = "bne" -> s1 # s2
    [] op = "bge" -> ~SignedBelow(s1, s2)
    [] op = "bgeu" -> ~Below(s1, s2)
    [] op = "blt" -> SignedBelow(s1, s2)
    [] op = "bltu" -> Below(s1, s2)
    [] op \in {"jal", "jalr"} -> TRUE
    [] OTHER -> FALSE

pc_calc(op, s1, imm) ==
  CASE op \in BranchOps -> Plus(pc, SignExtend(imm \ {0}, ImmBits + 1))
    [] op = "jal" -> Plus(pc, SignExtend(imm \ {0}, JumpBits))
    [] op = "jalr" -> Plus(s1, SignExtend(imm, ImmBits)) \ {0}
    [] OTHER -> {}

ShiftAmount(v) == Num[{k \in v : 2 ^ k < Xlen}]

rd_calc(op, s1, s2, imm) ==
  LET simm == SignExtend(imm, ImmBits)
  IN CASE op = "add" -> Plus(s1, s2)
       [] op = "addi" -> Plus(s1, simm)
       [] op = "sub" -> Minus(s1, s2)
       [] op = "and" -> s1 \cap s2
       [] op = "andi" -> s1 \cap simm
       [] op = "or" -> s1 \cup s2
       [] op = "ori" -> s1 \cup simm
       [] op = "xor" -> (s1 \ s2) \cup (s2 \ s1)
       [] op = "xori" -> (s1 \ simm) \cup (simm \ s1)
       [] op = "sll" -> ShiftLeft(s1, ShiftAmount(s2))
       [] op = "slli" -> ShiftLeft(s1, ShiftAmount(imm))
       [] op = "sra" -> ShiftRightSigned(s1, ShiftAmount(s2))
       [] op = "srai" -> ShiftRightSigned(s1, ShiftAmount(imm))
       [] op = "srl" -> ShiftRight(s1, ShiftAmount(s2))
       [] op = "srli" -> ShiftRight(s1, ShiftAmount(imm))
       [] op = "lui" -> {k \in imm : k >= ImmBits}
       [] op = "auipc" -> Plus(pc, {k \in imm : k >= ImmBits})
       [] op = "slt" -> One(SignedBelow(s1, s2))
       [] op = "sltu" -> One(Below(s1, s2))
       [] op = "slti" -> One(Below(s1, simm))   \* the concatenation is unsigned
       [] op = "sltiu" -> One(Below(s1, simm))
       [] op \in {"jal", "jalr"} -> Plus(pc, {2})
       [] OTHER -> {}

\* check_wraddr, check_rdaddr
AccessAddr(s1, imm) == Plus(s1, SignExtend(imm, ImmBits))

\* The lanes written; the strobe of sh is shifted out of its four bits.
check_wrstrb(op, addr) ==
  LET wide == CASE op = "sb" -> {0} [] op = "sh" -> {0, 1} [] OTHER -> 0..3
  IN IF op = "sw" THEN wide ELSE {k + Offset(addr) : k \in wide} \cap 0..3

check_wrdata(op, addr, v) ==
  IF op = "sw" THEN v ELSE ShiftLeft(v, Offset(addr) * LaneBits)

\* Slip: the halfword in the middle of the word keeps the sign of its low byte.
SlipLoad(op, addr, v) ==
  LET at == Offset(addr) * LaneBits
  IN CASE op = "lb" -> SignExtend(Slice(v, at, LaneBits), LaneBits)
       [] op = "lbu" -> Slice(v, at, LaneBits)
       [] op = "lh" /\ Offset(addr) = 1 ->
            Slice(v, at, 2 * LaneBits) \cup (IF 2 * LaneBits - 1 \in v THEN 2*LaneBits..Xlen-1 ELSE {})
       [] op = "lh" -> SignExtend(Slice(v, at, 2 * LaneBits), 2 * LaneBits)
       [] op = "lhu" -> Slice(v, at, 2 * LaneBits)
       [] OTHER -> v

\* load_reg_d_v: at offset 3 a halfword is a byte without sign.
load_reg_d_v(op, addr, v) ==
  LET at == Offset(addr) * LaneBits
  IN CASE op = "lb" -> SignExtend(Slice(v, at, LaneBits), LaneBits)
       [] op = "lbu" -> Slice(v, at, LaneBits)
       [] op = "lh" /\ Offset(addr) < 3 -> SignExtend(Slice(v, at, 2 * LaneBits), 2 * LaneBits)
       [] op \in {"lh", "lhu"} -> Slice(v, at, 2 * LaneBits)
       [] OTHER -> v

\* The AXI slave writes the lanes strobed.
Merged(old, strb, data) ==
  LET written == UNION {(LaneBits * l)..(LaneBits * l + LaneBits - 1) : l \in strb}
  IN (old \ written) \cup (data \cap written)
-----------------------------------------------------------------------------
\* What the program may do: slti only with operands of one sign, halfwords
\* within a word, words at their boundary.
Meant(i, s1, imm) ==
  LET off == Offset(AccessAddr(s1, imm))
  IN /\ i.op = "slti" => (Xlen - 1 \in s1 <=> ImmBits - 1 \in imm)
     /\ i.op \in {"lh", "lhu", "sh"} => off < 3
     /\ i.op \in {"lw", "sw"} => off = 0
     /\ i.op \in LoadOps \cup StoreOps =>
          WordAddress(AccessAddr(s1, imm)) \in DOMAIN mem

Init ==
  /\ \E s \in Starts : pc = s.pc /\ reg = s.reg /\ mem = s.mem
  /\ inst = Nop /\ steps = 0

\* An instruction goes through the stages.
Execute(i) ==
  LET s1 == reg[1]
      s2 == reg[2]
      imm == gen_imm(i)
      addr == AccessAddr(s1, imm)
      word == WordAddress(addr)
  IN /\ steps < MaxSteps
     /\ Meant(i, s1, imm)
     /\ steps' = steps + 1
     /\ inst' = i
     /\ pc' = IF check_do_jmp(i.op, s1, s2) THEN pc_calc(i.op, s1, imm) ELSE Plus(pc, {2})
     /\ reg' = IF i.op \in StoreOps \cup BranchOps THEN reg
               ELSE IF i.op \in LoadOps
               THEN [reg EXCEPT ![1] = load_reg_d_v(i.op, addr, mem[word])]
               ELSE [reg EXCEPT ![1] = rd_calc(i.op, s1, s2, imm)]
     /\ mem' = IF i.op \in StoreOps
               THEN [mem EXCEPT ![word] = Merged(@, check_wrstrb(i.op, addr),
                                                 check_wrdata(i.op, addr, s2))]
               ELSE mem

\* The program is over.
Over == steps = MaxSteps /\ UNCHANGED vars

Next == (\E i \in Program : Execute(i)) \/ Over

Spec == Init /\ [][Next]_vars

\* The core executes RV32I: every instruction leaves the program counter, the
\* registers and the bytes of the memory as the instruction set says, whatever
\* the signs, the carries, the shift amounts and the lanes.
IsaSpec == Isa!Spec
=============================================================================
