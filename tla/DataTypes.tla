----------------------------- MODULE DataTypes -----------------------------
(***************************************************************************)
(* The instructions of the core as its data side sees them, and what a     *)
(* store does to a word.  Shared by the abstract port (MemPort.tla) and by *)
(* the module that models mem/data.v (DataMem.tla).                        *)
(***************************************************************************)
CONSTANTS Word,      \* word addresses, address bits 31..2
          Lane,      \* byte lanes of a word
          Byte,      \* values of a byte
          Issue,     \* the instructions the ALU stage may receive
          None       \* "no value"

\* The contents of a word, one byte per lane.
Data == [Lane -> Byte]

\* An instruction; only a load uses word, only a store word, strb and data.
Request == [op   : {"other", "jump", "load", "store"},
            word : Word,
            strb : SUBSET Lane,
            data : Data]

\* A data beat on the W channel.
Beat == [strb : SUBSET Lane, data : Data]

ASSUME IssueAssumption == Issue # {} /\ Issue \subseteq Request
ASSUME SizeAssumption == Word # {} /\ Byte # {}
ASSUME NoneAssumption ==
  None \notin Word \cup Data \cup Beat \cup [Word -> Data] \cup [word : Word, data : Data]

\* The slot of a stage that holds no instruction: what RST and FLUSH leave.
Bubble == CHOOSE r \in Request : r.op = "other"

\* The word old after the strobed lanes of s replaced theirs.
Merge(old, s) == [l \in Lane |-> IF l \in s.strb THEN s.data[l] ELSE old[l]]

\* The memory mm after instruction r.
Performed(mm, r) ==
  IF r.op = "store" THEN [mm EXCEPT ![r.word] = Merge(@, r)] ELSE mm
=============================================================================
