-------------------------------- MODULE Isa --------------------------------
(* What an instruction of RV32I does to the program counter, the registers    *)
(* and the memory, in numbers: what alu.v, decode.v and mem_rd.v promise      *)
(* together. A word is a number below 2^Xlen, the memory is a row of bytes.   *)
(* rs1 is x[1], rs2 is x[2] and rd is x[1].                                   *)
EXTENDS Integers, FiniteSetsExt, Opcodes

CONSTANTS
  LaneBits,  \* bits of a byte (8)
  ImmBits,   \* bits of the immediate of addi (12)
  Program,   \* the instructions, [op, imm], imm a number with its sign
  MaxSteps   \* bound: instructions executed

VARIABLES
  pc, x, byte,
  inst,      \* the instruction executed last
  steps

Xlen == 4 * LaneBits
Size == 2 ^ Xlen
Wrap(n) == n % Size
Signed(n, bits) == IF n >= 2 ^ (bits - 1) THEN n - 2 ^ bits ELSE n
BitSet(n) == {k \in 0..Xlen-1 : (n \div 2 ^ k) % 2 = 1}
Number(S) == MapThenSumSet(LAMBDA k : 2 ^ k, S)

\* Bytes a load or a store accesses.
Length(op) ==
  CASE op \in {"lb", "lbu", "sb"} -> 1 [] op \in {"lh", "lhu", "sh"} -> 2 [] OTHER -> 4

Less(a, b) == Signed(a, Xlen) < Signed(b, Xlen)
Bool(b) == IF b THEN 1 ELSE 0

\* The result of operation op on a and b.
Arith(op, a, b) ==
  CASE op \in {"add", "addi"} -> Wrap(a + b)
    [] op = "sub" -> Wrap(a - b)
    [] op \in {"and", "andi"} -> Number(BitSet(a) \cap BitSet(b))
    [] op \in {"or", "ori"} -> Number(BitSet(a) \cup BitSet(b))
    [] op \in {"xor", "xori"} ->
         Number((BitSet(a) \cup BitSet(b)) \ (BitSet(a) \cap BitSet(b)))
    [] op \in {"sll", "slli"} -> Wrap(a * 2 ^ (b % Xlen))
    [] op \in {"srl", "srli"} -> a \div 2 ^ (b % Xlen)
    [] op \in {"sra", "srai"} -> Wrap(Signed(a, Xlen) \div 2 ^ (b % Xlen))
    [] op \in {"slt", "slti"} -> Bool(Less(a, b))
    [] op \in {"sltu", "sltiu"} -> Bool(a < b)

Branches(op, a, b) ==
  CASE op = "beq" -> a = b
    [] op = "bne" -> a # b
    [] op = "blt" -> Less(a, b)
    [] op = "bge" -> ~Less(a, b)
    [] op = "bltu" -> a < b
    [] op = "bgeu" -> ~(a < b)

Address(i) == Wrap(x[1] + i.imm)
Accessed(i) == {Wrap(Address(i) + k) : k \in 0..Length(i.op)-1}

\* The number at address addr, little end first.
Fetched(addr, n) ==
  MapThenSumSet(LAMBDA k : byte[Wrap(addr + k)] * 2 ^ (k * LaneBits), 0..n-1)

LoadValue(i) ==
  LET n == Length(i.op)
      v == Fetched(Address(i), n)
  IN IF i.op \in {"lbu", "lhu"} THEN v ELSE Wrap(Signed(v, n * LaneBits))

Follows == pc' = Wrap(pc + 4)
WritesRd(v) == x' = [x EXCEPT ![1] = v]

Computes(i) ==
  /\ i.op \in RegOps \cup ImmOps \cup ShiftOps
  /\ WritesRd(Arith(i.op, x[1], IF i.op \in RegOps THEN x[2] ELSE Wrap(i.imm)))
  /\ Follows /\ UNCHANGED byte

Upper(i) ==
  /\ i.op \in UpperOps
  /\ WritesRd(Wrap(i.imm + (IF i.op = "auipc" THEN pc ELSE 0)))
  /\ Follows /\ UNCHANGED byte

Branch(i) ==
  /\ i.op \in BranchOps
  /\ pc' = IF Branches(i.op, x[1], x[2]) THEN Wrap(pc + i.imm) ELSE Wrap(pc + 4)
  /\ UNCHANGED <<x, byte>>

Jump(i) ==
  /\ i.op \in JumpOps
  /\ pc' = IF i.op = "jal" THEN Wrap(pc + i.imm) ELSE 2 * (Address(i) \div 2)
  /\ WritesRd(Wrap(pc + 4))
  /\ UNCHANGED byte

Load(i) ==
  /\ i.op \in LoadOps /\ Accessed(i) \subseteq DOMAIN byte
  /\ WritesRd(LoadValue(i))
  /\ Follows /\ UNCHANGED byte

Store(i) ==
  /\ i.op \in StoreOps /\ Accessed(i) \subseteq DOMAIN byte
  /\ byte' = [b \in DOMAIN byte |->
                IF b \in Accessed(i)
                THEN (x[2] \div 2 ^ (LaneBits * Wrap(b - Address(i)))) % 2 ^ LaneBits
                ELSE byte[b]]
  /\ Follows /\ UNCHANGED x

Init == steps = 0
Next ==
  /\ steps < MaxSteps /\ steps' = steps + 1
  /\ inst' \in Program
  /\ \/ Computes(inst') \/ Upper(inst') \/ Branch(inst')
     \/ Jump(inst') \/ Load(inst') \/ Store(inst')

Spec == Init /\ [][Next]_<<pc, x, byte, inst, steps>>
=============================================================================
