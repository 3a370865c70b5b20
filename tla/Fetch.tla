------------------------------- MODULE Fetch -------------------------------
(***************************************************************************)
(* pc.v and inst_fetch.v: the program counter, the 4 KB instruction memory *)
(* (bram_4kb) that holds one page of the program, and the loader that      *)
(* fills it over AXI4 in bursts when P_PC enters a page that is not there. *)
(*                                                                         *)
(* One step is one rising edge of CLK.  An address is a pair <<page, word  *)
(* in the page>>, and the instruction word at an address is named by that  *)
(* address: what is in the BRAM is which address each word was read from.  *)
(***************************************************************************)
EXTENDS Naturals

CONSTANTS
  Page,         \* the pages the program occupies, address bits 31..12
  NoPage,       \* the page loaded_page_addr names after RST, and that of PC 0
  NextPage,     \* [Page -> Page]: the page that follows in the address space
  PageWords,    \* words in a page (1024)
  BurstWords,   \* words in a burst (32)
  BurstStart,   \* the offsets a burst starts at
  Start         \* where the program starts (0x2000_0000)

ASSUME PageAssumption ==
  NoPage \notin Page /\ NextPage \in [Page -> Page]
ASSUME SizeAssumption ==
  PageWords \in Nat \ {0} /\ BurstWords \in Nat \ {0}
ASSUME BurstAssumption ==
  /\ BurstStart \subseteq 0 .. PageWords - 1 /\ 0 \in BurstStart
  /\ \A o \in BurstStart : o + BurstWords = PageWords \/ o + BurstWords \in BurstStart
ASSUME StartAssumption == Start \in Page \X (0 .. PageWords - 1)

Offset == 0 .. PageWords - 1
Addr == Page \X Offset
Zero == <<NoPage, 0>>          \* address 0, and what a cleared instruction word is
Word == Addr \cup {Zero}

\* The next word in the address space.
Inc(x) == IF x[2] = PageWords - 1 THEN <<NextPage[x[1]], 0>> ELSE <<x[1], x[2] + 1>>
\* 12-bit additions of a word and of a burst to an offset.  (SameOffset and
\* NextBurstUnwrapped, like the other definitions marked "Slip", are mistakes
\* of the kind the properties are there to notice; nothing uses them.)
SameOffset(o) == o                            \* Slip: every beat to one offset
NextBurstUnwrapped(o) == o + BurstWords       \* Slip: runs into the next page
IncOffset(o) == IF o = PageWords - 1 THEN 0 ELSE o + 1
NextBurst(o) == IF o + BurstWords = PageWords THEN 0 ELSE o + BurstWords

VARIABLES
  ppc, pvalid, dexec,   \* P_PC, P_VALID, delayed_exec
  hpc, hvalid, dflush,  \* h_pc, h_valid, h_delayed_flush
  ipc, ivalid,          \* i_pc, i_valid
  bram, dout,           \* the BRAM and its output register
  tag,                  \* loaded_page_addr
  ar, araddr, arvalid,  \* ar_state, M_AXI_ARADDR, M_AXI_ARVALID
  rd, waddr,            \* r_state, r_waddr
  burst                 \* slave: the rest of the burst it is sending

pcVars    == <<ppc, pvalid, dexec>>
latchVars == <<hpc, hvalid, dflush, ipc, ivalid>>
bramVars  == <<bram, dout, tag>>
busVars   == <<ar, araddr, arvalid, rd, waddr, burst>>
fetchVars == <<pcVars, latchVars, bramVars, busVars>>

NoBurst == [at |-> Zero, left |-> 0]

loaded == tag = ppc[1]
MEM_WAIT == pvalid /\ ~loaded
I_PC == ipc
InstThroughFlush == dout                      \* Slip: it jumps or stores, valid or not
I_INST == IF dflush THEN Zero ELSE dout
ValidThroughFlush == ivalid                   \* Slip: the word behind a jump is valid
I_VALID == ~dflush /\ ivalid

\* The read data channel: the slave sends the next word of its burst.
rlast == burst.left = 1
\* ARADDR already points past the burst: into the next page after the last one.
EveryBurst == TRUE                            \* Slip: one burst is the page
NoBurstIsLast == FALSE                        \* Slip: the loader never stops
LastBurst == araddr[2] = 0

\* pc.v.  A flush redirects P_PC even when the pipeline is stalled.
ProgramCounter(exec, stall, flush, newpc) ==
  /\ dexec' = exec
  /\ ppc' = CASE flush -> newpc
              [] ~flush /\ dexec /\ ~stall -> Inc(ppc)
              [] OTHER -> ppc
  /\ pvalid' = CASE exec /\ ~stall -> TRUE
                 [] ~exec -> FALSE
                 [] OTHER -> pvalid

\* The word the BRAM is addressed with, and whether it is one to execute.
pcUnheld(stall) == ppc                        \* Slip: a stall loses the word in front
pcOut(stall) == IF stall THEN hpc ELSE ppc
validOut(stall) == IF stall THEN hvalid ELSE pvalid

Latches(stall, flush) ==
  /\ dflush' = flush
  /\ \/ stall /\ UNCHANGED <<hpc, hvalid>>
     \/ ~stall /\ flush /\ hpc' = Zero /\ hvalid' = FALSE
     \/ ~stall /\ ~flush /\ hpc' = ppc /\ hvalid' = pvalid
  /\ ipc' = pcOut(stall)
  /\ ivalid' = (validOut(stall) /\ loaded)

\* The BRAM: written with every beat that arrives, read otherwise; a write
\* shows on the output too (WRITE_FIRST).
Bram(stall, rvalid) ==
  LET addr == IF loaded THEN pcOut(stall)[2] ELSE waddr IN
  IF rvalid
  THEN bram' = [bram EXCEPT ![addr] = burst.at] /\ dout' = burst.at
  ELSE bram' = bram /\ dout' = bram[addr]

\* The page counts as loaded at the last beat of its last burst.
PageTag(rvalid) ==
  tag' = IF rvalid /\ rlast /\ LastBurst THEN ppc[1] ELSE tag

\* ar_next_state
ArNext(arready, rvalid) ==
  CASE ar = "IDLE" -> IF MEM_WAIT THEN "ADDR" ELSE "IDLE"
    [] ar = "ADDR" -> IF arready THEN "WAIT" ELSE "ADDR"
    [] ar = "WAIT" -> IF rvalid /\ rlast
                        THEN (IF LastBurst THEN "IDLE" ELSE "ADDR")
                        ELSE "WAIT"

\* The loader's AR channel: the bursts of a page one after the other.
AssumedTaken(arready) == ar = "ADDR"          \* Slip: ARREADY is not looked at
BurstTaken(arready) == ar = "ADDR" /\ arready
LoaderAR(arready, rvalid) ==
  LET next == ArNext(arready, rvalid) IN
  /\ ar' = next
  /\ araddr' = CASE ar = "IDLE" /\ next = "ADDR" -> <<ppc[1], 0>>
                 [] BurstTaken(arready) ->
                      <<IF NextBurst(araddr[2]) = 0 THEN NextPage[araddr[1]] ELSE araddr[1],
                        NextBurst(araddr[2])>>
                 [] OTHER -> araddr
  /\ arvalid' = CASE next = "ADDR" -> TRUE
                  [] next # "ADDR" /\ BurstTaken(arready) -> FALSE
                  [] OTHER -> arvalid

\* The loader's R channel: where the next beat goes.
LoaderR(arready, rvalid) ==
  /\ rd' = CASE rd = "IDLE" -> IF ar = "ADDR" THEN "READ" ELSE "IDLE"
             [] rd = "READ" -> IF rvalid /\ rlast THEN "IDLE" ELSE "READ"
  /\ waddr' = CASE ArNext(arready, rvalid) = "ADDR" -> araddr[2]
                [] ArNext(arready, rvalid) # "ADDR" /\ rd = "READ" /\ rvalid -> IncOffset(waddr)
                [] OTHER -> waddr

\* The slave: takes a burst when it has none, sends its words in order.
InstSlave(arready, rvalid) ==
  /\ arready => arvalid /\ burst = NoBurst
  /\ rvalid => burst # NoBurst
  /\ burst' = CASE arready -> [at |-> araddr, left |-> BurstWords]
                [] rvalid /\ ~arready ->
                     IF rlast THEN NoBurst
                     ELSE [at |-> Inc(burst.at), left |-> burst.left - 1]
                [] OTHER -> burst

\* One clock edge of both modules.
FetchTick(exec, stall, flush, newpc, arready, rvalid) ==
  /\ ProgramCounter(exec, stall, flush, newpc)
  /\ Latches(stall, flush)
  /\ Bram(stall, rvalid)
  /\ PageTag(rvalid)
  /\ LoaderAR(arready, rvalid)
  /\ LoaderR(arready, rvalid)
  /\ InstSlave(arready, rvalid)

\* After RST was held for a few edges, exec being the EXEC of the last one.
FetchInit(exec) ==
  /\ ppc = Start /\ pvalid = FALSE /\ dexec = exec
  /\ hpc = Zero /\ hvalid = FALSE /\ dflush = FALSE
  /\ ipc = Start /\ ivalid = FALSE
  /\ bram = [o \in Offset |-> Zero] /\ dout = Zero /\ tag = NoPage
  /\ ar = "IDLE" /\ araddr = Zero /\ arvalid = FALSE
  /\ rd = "IDLE" /\ waddr = 0
  /\ burst = NoBurst

\* RST, as above: of all this only the BRAM's contents outlive it.
FetchReset(exec) ==
  /\ ppc' = Start /\ pvalid' = FALSE /\ dexec' = exec
  /\ hpc' = Zero /\ hvalid' = FALSE /\ dflush' = FALSE
  /\ ipc' = Start /\ ivalid' = FALSE
  /\ UNCHANGED bram /\ dout' = Zero /\ tag' = NoPage
  /\ ar' = "IDLE" /\ araddr' = Zero /\ arvalid' = FALSE
  /\ rd' = "IDLE" /\ waddr' = 0
  /\ burst' = NoBurst

FetchTypeOK ==
  /\ ppc \in Addr /\ {pvalid, dexec, hvalid, dflush, ivalid, arvalid} \subseteq BOOLEAN
  /\ hpc \in Word /\ ipc \in Word
  /\ bram \in [Offset -> Word] /\ dout \in Word
  /\ tag \in Page \cup {NoPage}
  /\ ar \in {"IDLE", "ADDR", "WAIT"} /\ araddr \in Word
  /\ rd \in {"IDLE", "READ"} /\ waddr \in Offset
  /\ burst \in [at : Word, left : 0 .. BurstWords]
=============================================================================
