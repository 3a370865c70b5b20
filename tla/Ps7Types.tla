------------------------------ MODULE Ps7Types ------------------------------
(* The operations the tables of ps7_init.c are made of, the macros EMIT of  *)
(* ps7_init.h. An operation names a register by its block and its offset in  *)
(* the block.                                                                *)
(* Of the value written only the fields the properties tell apart are kept:  *)
(* val gives them by name, pins by pin number; a field the mask leaves out   *)
(* is not in the domain, so it keeps its value.                              *)
EXTENDS Integers, Sequences, SequencesExt

\* The functions with no field and no pin.
Nothing == <<>>

EmitExit == [op |-> "EXIT", blk |-> "none", reg |-> 0,
             val |-> Nothing, pins |-> Nothing, ms |-> 0]

EmitWrite(blk, reg) ==
  [EmitExit EXCEPT !.op = "WRITE", !.blk = blk, !.reg = reg]

EmitMaskWrite(blk, reg, val) ==
  [EmitExit EXCEPT !.op = "MASKWRITE", !.blk = blk, !.reg = reg, !.val = val]

\* ms stands for nothing here; ready names the status bit polled.
EmitMaskPoll(blk, reg, ready) ==
  [EmitExit EXCEPT !.op = "MASKPOLL", !.blk = blk, !.reg = reg, !.val = ready]

EmitMaskDelay(ms) ==
  [EmitExit EXCEPT !.op = "MASKDELAY", !.blk = "timer", !.reg = \h200, !.ms = ms]

\* Writes of the keys: they open and close the system level control registers.
SlcrUnlock == EmitWrite("slcr_unlock", \h008)
SlcrLock == EmitWrite("slcr_lock", \h004)

\* One masked write to each of the registers first, first + 4, ..., last:
\* parameters no property tells apart.
Span(blk, first, last) ==
  [i \in 1..((last - first) \div 4 + 1) |->
     EmitMaskWrite(blk, first + 4 * (i - 1), Nothing)]

\* The same for registers that are not adjacent.
Params(blk, offsets) ==
  [i \in DOMAIN offsets |-> EmitMaskWrite(blk, offsets[i], Nothing)]

\* The control registers of MIO pins first..last, all set to one mode.
Pins(first, last, mode) ==
  [i \in 1..(last - first + 1) |->
     LET n == first + i - 1
     IN [EmitMaskWrite("slcr", \h700 + 4 * n, Nothing)
           EXCEPT !.pins = [p \in {n} |-> mode]]]

\* A reference clock: running or not, its source PLL, its divisor.
Clk(act, src, div) == [act |-> act, src |-> src, div |-> div]

\* The frequencies ps7_init.h declares (APU_FREQ, ...), in thirds of a kHz: the
\* crystal runs at 33.3333 MHz.
Frequencies ==
  [CPU |-> 2000000, DDR_3X |-> 1600000, DCI |-> 30476, QSPI |-> 600000,
   ENET0 |-> 75000, SDIO |-> 150000, UART |-> 150000, CAN |-> 71428,
   PCAP |-> 600000, FPGA0 |-> 375000, FPGA1 |-> 120000, FPGA2 |-> 150000]
=============================================================================
