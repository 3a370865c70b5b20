----------------------------- MODULE FetchStage -----------------------------
(***************************************************************************)
(* Fetch.tla driven by what the rest of the core does to it: the stages    *)
(* behind it (decode.v, alu.v, mem_rd.v), of which only the words that     *)
(* jump or access data and the taken jump in M count here, and the stalls  *)
(* of the data side (data_mem_wait).                                       *)
(*                                                                         *)
(* alu.v decides by the word alone, VALID is for the register file: a word *)
(* that is not valid jumps and accesses data too.  Two assumptions about   *)
(* the surroundings: EXEC stays high once it is set, and, as a constant,   *)
(* for the runs that show what breaks without it, the program never runs   *)
(* P_PC off the end of a page.                                             *)
(***************************************************************************)
EXTENDS Fetch

CONSTANTS
  NoJump,      \* M holds no taken jump
  CrossPages,  \* may P_PC run sequentially off the end of a page?
  Acts         \* where the program has jumps, branches, loads and stores

ASSUME ActsAssumption == Acts \subseteq Addr
ASSUME NoJumpAssumption == NoJump \notin Addr
ASSUME FlagAssumption == CrossPages \in BOOLEAN

VARIABLES
  dacts, aacts, macts,     \* the word in D, A, M jumps or accesses data
  jmp,                     \* NEW_PC of the M stage if it holds DO_JMP, else NoJump
  expect                   \* observer: where the next valid instruction must come from

stageVars == <<dacts, aacts, macts, jmp>>
vars == <<fetchVars, stageVars, expect>>

\* The inputs of a cycle.
Input == [exec : BOOLEAN, dataWait : BOOLEAN, arready : BOOLEAN, rvalid : BOOLEAN]

flush == jmp # NoJump
stall(in) == MEM_WAIT \/ in.dataWait

\* The latches of decode.v, alu.v and mem_rd.v: hold, flush, or move on, the
\* word in A being a taken jump or not.
Stages(in) ==
  \/ stall(in) /\ UNCHANGED stageVars
  \/ /\ ~stall(in) /\ flush
     /\ dacts' = FALSE /\ aacts' = FALSE /\ macts' = FALSE /\ jmp' = NoJump
  \/ /\ ~stall(in) /\ ~flush
     /\ dacts' = (I_INST \in Acts) /\ aacts' = dacts /\ macts' = aacts
     /\ jmp' \in {NoJump} \cup (IF aacts THEN Addr ELSE {})

\* The address of the next instruction the decoder must take.
Observe(in) ==
  expect' = CASE flush -> jmp
              [] ~flush /\ ~stall(in) /\ I_VALID -> Inc(I_PC)
              [] OTHER -> expect

Init == /\ FetchInit(FALSE)
        /\ dacts = FALSE /\ aacts = FALSE /\ macts = FALSE /\ jmp = NoJump
        /\ expect = Start

\* RST; the slave shares it.
Reset == /\ FetchReset(FALSE)
         /\ dacts' = FALSE /\ aacts' = FALSE /\ macts' = FALSE /\ jmp' = NoJump
         /\ expect' = Start

Tick(in) ==
  /\ dexec => in.exec
  /\ in.dataWait => aacts \/ macts
  /\ FetchTick(in.exec, stall(in), flush, jmp, in.arready, in.rvalid)
  /\ CrossPages \/ ~(ppc[2] = PageWords - 1 /\ ppc' # ppc /\ ~flush)
  /\ Stages(in)
  /\ Observe(in)

Next == \/ Reset
        \/ \E in \in Input : Tick(in)

Spec == Init /\ [][Next]_vars

\* The clock runs, the slave accepts every burst and sends every beat of it.
Clock  == \E in \in Input : Tick(in)
TakeAR == \E in \in Input : in.arready /\ Tick(in)
SendR  == \E in \in Input : in.rvalid /\ Tick(in)
Fairness == WF_vars(Clock) /\ WF_vars(TakeAR) /\ WF_vars(SendR)
FairSpec == Spec /\ Fairness
-----------------------------------------------------------------------------
\* Every variable has its type, and the slave sends only to a waiting loader.
TypeOK ==
  /\ FetchTypeOK
  /\ {dacts, aacts, macts} \subseteq BOOLEAN
  /\ jmp \in Addr \cup {NoJump}
  /\ expect \in Addr

\* Whenever loaded_page_addr says that the page P_PC points into is present,
\* the BRAM holds that page, every word at its own offset: the loader has put
\* the 32 bursts where they belong and the tag was set for the page it read.
PageCoherent == loaded => \A o \in Offset : bram[o] = <<ppc[1], o>>

\* A valid instruction is the word at the PC that goes with it, whatever stalls
\* and flushes lie between the address given to the BRAM and its output.
ValidInstIsAtPC == I_VALID => I_INST = I_PC

\* The decoder takes every instruction of the program once and in order: the
\* next address after the one before, or the target of the jump between them.
InOrder == I_VALID /\ ~flush => I_PC = expect

\* What leaves the BRAM without being valid is idle: after a page load its output is
\* still the last word written, and decode.v takes it.
OnlyValidActs == ~MEM_WAIT /\ I_INST \in Acts => I_VALID

\* AXI4: ARVALID and ARADDR stay until the slave has taken the burst.
RequestHeld ==
  \/ Reset
  \/ ~arvalid
  \/ arvalid' /\ araddr' = araddr
  \/ burst = NoBurst /\ burst'.at = araddr
BurstRequestHeld == [][RequestHeld]_vars

\* The loader never loses or misplaces a beat: the slave has a word to send only
\* while the loader waits for that word, of the page that is missed.
BeatsGoHome ==
  burst # NoBurst => MEM_WAIT /\ rd = "READ" /\ burst.at = <<ppc[1], waddr>>

\* A page miss ends: the 32 bursts are requested and received one by one.
MissEnds == MEM_WAIT ~> ~MEM_WAIT
-----------------------------------------------------------------------------
\* The BRAM shows the last word of a page when the page was loaded, and the first
\* one before EXEC, with VALID low: harmless if those words do not act.
HarmlessEnds == \A x \in Acts : x[2] # 0 /\ x[2] # PageWords - 1

\* What makes the above inductive, for a program that never runs off a page.

\* Nothing is valid before EXEC; a miss is met with nothing to redirect P_PC but
\* the jump that caused it, which a data stall may keep in M.
ControlInv ==
  /\ pvalid = dexec
  /\ ~pvalid => ~(hvalid \/ ivalid) /\ ~flush /\ tag = NoPage /\ waddr = 0
  /\ ~hvalid /\ ~flush => ~(dacts \/ aacts \/ macts)
  /\ ~loaded => jmp \in {NoJump, ppc}
  /\ ar # "IDLE" => MEM_WAIT

\* How far the loader is: all words of the page below waddr are there.
WordsBelow(n) == \A o \in Offset : o < n => bram[o] = <<ppc[1], o>>
LoaderInv ==
  /\ arvalid = (ar = "ADDR")
  /\ ar = "IDLE" => /\ araddr[2] = 0 /\ rd = "IDLE" /\ burst = NoBurst
                    /\ tag # NoPage => \A o \in Offset : bram[o] = <<tag, o>>
  /\ ar = "ADDR" => /\ araddr[1] = ppc[1] /\ araddr[2] \in BurstStart
                    /\ waddr = araddr[2] /\ burst = NoBurst
                    /\ WordsBelow(waddr)
  /\ ar = "WAIT" => /\ rd = "READ" /\ burst # NoBurst
                    /\ burst.left > 0 /\ burst.at = <<ppc[1], waddr>>
                    /\ waddr + burst.left = (IF araddr[2] = 0 THEN PageWords ELSE araddr[2])
                    /\ araddr[2] = 0 \/ (araddr[1] = ppc[1] /\ araddr[2] \in BurstStart)
                    /\ WordsBelow(waddr)

\* While M holds no jump, the address last given to the BRAM is the one before
\* P_PC in the same page, and it is what the next valid instruction comes from.
OrderInv ==
  ~flush => /\ I_VALID = hvalid
            /\ hvalid => loaded /\ hpc[1] = ppc[1] /\ ppc = Inc(hpc) /\ ipc = hpc
            /\ expect = IF hvalid THEN hpc ELSE ppc

\* Every word of the BRAM is at its own offset.
BramInPlace == \A o \in Offset : bram[o] = Zero \/ bram[o][2] = o

IInv == TypeOK /\ ControlInv /\ BramInPlace /\ OnlyValidActs /\ LoaderInv /\ OrderInv /\ ValidInstIsAtPC
=============================================================================
