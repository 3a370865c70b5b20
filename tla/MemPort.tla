------------------------------ MODULE MemPort ------------------------------
(***************************************************************************)
(* What the data side of the core promises its pipeline: a memory port on  *)
(* which instructions take effect one at a time, in program order.  Two    *)
(* instructions are visible at once: the one in the A stage (alu.v), whose *)
(* load is the next to read, and the one in the M stage (mem_rd.v), whose  *)
(* store is the next to write and whose load result the pipeline reads.    *)
(* There are no bus handshakes, waits or caches here; DataMem.tla is       *)
(* data.v with all of them, and is shown to implement this module.         *)
(***************************************************************************)
EXTENDS DataTypes

VARIABLES a,      \* the instruction in the A stage
          m,      \* the instruction in the M stage
          mem,    \* the memory behind the port
          val     \* what a load in the M stage sees, None if M holds no load

vars == <<a, m, mem, val>>

Init == /\ a = Bubble /\ m = Bubble
        /\ mem \in [Word -> Data]
        /\ val = None

\* The pipeline moves: M's instruction retires, then A's load reads.
Advance(next) ==
  /\ mem' = Performed(mem, m)
  /\ \/ /\ m.op = "jump"                        \* everything younger is flushed
        /\ a' = Bubble /\ m' = Bubble /\ val' = None
     \/ /\ m.op # "jump"
        /\ a' = next
        /\ m' = a
        /\ val' = IF a.op = "load" THEN mem'[a.word] ELSE None

\* A reset drops both instructions; the store in M may or may not have landed.
Reset == /\ mem' \in {mem, Performed(mem, m)}
         /\ a' = Bubble /\ m' = Bubble /\ val' = None

Next == Reset \/ \E next \in Issue : Advance(next)

Spec == Init /\ [][Next]_vars
=============================================================================
