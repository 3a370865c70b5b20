------------------------------ MODULE Opcodes ------------------------------
(* The kinds of instruction of RV32I, as alu.v tells them apart.              *)
RegOps == {"add", "sub", "and", "or", "xor", "sll", "srl", "sra", "slt", "sltu"}
ImmOps == {"addi", "andi", "ori", "xori", "slti", "sltiu"}
ShiftOps == {"slli", "srli", "srai"}
UpperOps == {"lui", "auipc"}
BranchOps == {"beq", "bne", "blt", "bge", "bltu", "bgeu"}
JumpOps == {"jal", "jalr"}
LoadOps == {"lb", "lbu", "lh", "lhu", "lw"}
StoreOps == {"sb", "sh", "sw"}
=============================================================================
