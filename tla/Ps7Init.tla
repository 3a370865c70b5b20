------------------------------ MODULE Ps7Init ------------------------------
(* The platform initialisation of the boot loader (ps7_init.c): a caller     *)
(* calls ps7_init, ps7_post_config or ps7_debug, each of which runs tables   *)
(* of operations through ps7_config. The hardware behind the registers (PLL  *)
(* lock, impedance calibration, DDR controller, global timer) goes on by     *)
(* itself, and may fail to.                                                  *)
EXTENDS Ps7Types, FiniteSets, TLC

CONSTANTS
  Tables,    \* silicon version -> table name -> sequence of operations
  PollTime,  \* PS7_MASK_POLL_TIME
  PowerOn,   \* what the kept fields hold when ps7_init is called
  PinCount   \* pins are numbered 0..PinCount - 1

VARIABLES
  si_ver,    \* what ps7GetSiliconVersion reads
  call,      \* the function called last
  todo,      \* names of the tables it has still to run, the current one first
  table,     \* ps7_config_init: the current one
  pc,        \* ptr: the operation of the current table to do next
  i,         \* the count of mask polls done by the current MASKPOLL
  timer,     \* milliseconds on the global timer, -1 when it was not started
  finish,    \* function -> what it returned
  slcr,      \* "open" or "closed": whether SLCR registers can be written
  regs,      \* field -> value
  pin,       \* pin -> what it is connected to
  status,    \* status bit -> 0 or 1
  running,   \* PLL -> the divider it took over at its last reset
  lowFor     \* history: how long a reset pin has been driven low

program == <<si_ver, call, todo, table, pc, i, finish>>
device == <<slcr, regs, pin, status, running, lowFor>>
vars == <<program, timer, device>>

-----------------------------------------------------------------------------
Calls == {"init", "post", "debug"}
Codes == {"none", "success", "corrupt", "timeout"}
PLLs == {"ARM", "DDR", "IO"}
ResetPins == {7, 11, 13}

FDIV == [ARM |-> "ARM_FDIV", DDR |-> "DDR_FDIV", IO |-> "IO_FDIV"]
BYPASS == [ARM |-> "ARM_BYPASS", DDR |-> "DDR_BYPASS", IO |-> "IO_BYPASS"]
RESET == [ARM |-> "ARM_RESET", DDR |-> "DDR_RESET", IO |-> "IO_RESET"]
LOCK == [ARM |-> "ARM_LOCK", DDR |-> "DDR_LOCK", IO |-> "IO_LOCK"]
DATA == (7 :> "GPIO7") @@ (11 :> "GPIO11") @@ (13 :> "GPIO13")

StatusBits == {LOCK[p] : p \in PLLs} \cup {"DCI_DONE", "DDRC_MODE"}

ASSUME PowerOnAssumption ==
  /\ PowerOn = [x \in DOMAIN PowerOn |-> PowerOn[x]]
  /\ \A p \in PLLs : PowerOn[RESET[p]] = 0
  /\ \A p \in PLLs : {FDIV[p], BYPASS[p], RESET[p]} \subseteq DOMAIN PowerOn
  /\ {DATA[n] : n \in ResetPins} \subseteq DOMAIN PowerOn
  /\ {"DCI_RESET", "DCI_ENABLE", "DDRC_RSTB", "GPIO_DIR", "GPIO_OEN", "GATES"}
       \subseteq DOMAIN PowerOn

ASSUME PollTimeAssumption == PollTime \in Nat

\* Slip: the peripherals are set up before the pins are connected.
SlipTablesOf ==
  [init  |-> <<"pll", "clock", "peripherals", "mio", "ddr">>,
   post  |-> <<"post">>,
   debug |-> <<"debug">>]

\* The tables each function runs, in order.
TablesOf == [init  |-> <<"mio", "pll", "clock", "ddr", "peripherals">>,
             post  |-> <<"post">>,
             debug |-> <<"debug">>]

TableNames == {"mio", "pll", "clock", "ddr", "peripherals", "post", "debug"}

\* Versions 0 and 1 have tables of their own, all others use those of 3.0.
Version == IF si_ver = 0 THEN 1 ELSE IF si_ver = 1 THEN 2 ELSE 3

Busy == todo # <<>>
Op == table[pc]
Writes == {"CLEAR", "WRITE", "MASKWRITE"}

-----------------------------------------------------------------------------
\* f, with the fields in the domain of g as g has them.
Overlay(g, f) == [x \in DOMAIN f |-> IF x \in DOMAIN g THEN g[x] ELSE f[x]]

\* Whether a write to the block of o has an effect.
Takes(o) == o.blk # "slcr" \/ slcr = "open"

DrivenLow(n, r) == n \in r.GPIO_DIR /\ n \in r.GPIO_OEN /\ r[DATA[n]] = 0

\* What the hardware does at once when its registers become r: a PLL in reset
\* loses its lock and takes the divider over, the calibration and the DDR
\* controller are stopped by their resets.
React(r) ==
  /\ status' = [b \in StatusBits |->
                  IF \/ \E p \in PLLs : b = LOCK[p] /\ r[RESET[p]] = 1
                     \/ b = "DCI_DONE" /\ r.DCI_RESET = 0
                     \/ b = "DDRC_MODE" /\ r.DDRC_RSTB = 0
                  THEN 0 ELSE status[b]]
  /\ running' = [p \in PLLs |-> IF r[RESET[p]] = 1 THEN r[FDIV[p]]
                                ELSE running[p]]
  /\ lowFor' = [n \in ResetPins |-> IF DrivenLow(n, r) THEN lowFor[n] ELSE 0]

-----------------------------------------------------------------------------
Init ==
  /\ si_ver \in 0..3
  /\ call = "none"
  /\ todo = <<>>
  /\ table = <<>>
  /\ pc = 1
  /\ i = 0
  /\ timer = -1
  /\ finish = [c \in Calls |-> "none"]
  /\ slcr \in {"open", "closed"}
  /\ regs = PowerOn
  /\ pin = [n \in 0..(PinCount - 1) |-> "reset"]
  /\ status = [b \in StatusBits |-> IF b \in {LOCK[p] : p \in PLLs} THEN 1 ELSE 0]
  /\ running = [p \in PLLs |-> PowerOn[FDIV[p]]]
  /\ lowFor = [n \in ResetPins |-> 0]

\* The boot loader calls ps7_init, and ps7_post_config when that succeeded; a
\* debugger may call ps7_debug. Between the calls others open and close the SLCR.
Call(c) ==
  /\ ~Busy
  /\ finish[c] = "none"
  /\ c = "init" \/ finish["init"] = "success"
  /\ call' = c
  /\ todo' = TablesOf[c]
  /\ table' = Tables[Version][Head(TablesOf[c])]
  /\ pc' = 1
  /\ slcr' \in {"open", "closed"}
  /\ UNCHANGED <<si_ver, i, timer, finish, regs, pin, status, running, lowFor>>

\* CLEAR, WRITE and MASKWRITE: one register gets new values in some fields.
WriteRegister ==
  /\ Busy
  /\ Op.op \in Writes
  /\ pc' = pc + 1
  /\ slcr' = CASE Op.blk = "slcr_unlock" -> "open"
               [] Op.blk = "slcr_lock" -> "closed"
               [] OTHER -> slcr
  /\ IF Takes(Op)
     THEN /\ regs' = Overlay(Op.val, regs)
          /\ pin' = Overlay(Op.pins, pin)
          /\ React(regs')
     ELSE UNCHANGED <<regs, pin, status, running, lowFor>>
  /\ UNCHANGED <<si_ver, call, todo, table, i, timer, finish>>

\* Slip: MASKPOLL looks once, whatever it sees.
SlipPollSucceeds ==
  /\ Busy
  /\ Op.op = "MASKPOLL"
  /\ pc' = pc + 1
  /\ i' = 0
  /\ UNCHANGED <<si_ver, call, todo, table, timer, finish, device>>

\* MASKPOLL sees a bit of its mask set.
PollSucceeds ==
  /\ Busy
  /\ Op.op = "MASKPOLL"
  /\ \E b \in DOMAIN Op.val : status[b] = 1
  /\ pc' = pc + 1
  /\ i' = 0
  /\ UNCHANGED <<si_ver, call, todo, table, timer, finish, device>>

\* Slip: the count of looks is never advanced.
SlipPollAgain ==
  /\ Busy
  /\ Op.op = "MASKPOLL"
  /\ \A b \in DOMAIN Op.val : status[b] = 0
  /\ i < PollTime
  /\ UNCHANGED vars

\* MASKPOLL does not: it looks again, or gives up after PollTime more looks.
PollAgain ==
  /\ Busy
  /\ Op.op = "MASKPOLL"
  /\ \A b \in DOMAIN Op.val : status[b] = 0
  /\ i < PollTime
  /\ i' = i + 1
  /\ UNCHANGED <<si_ver, call, todo, table, pc, timer, finish, device>>

\* Slip: what ps7_config returned is not looked at.
SlipReturn(code) ==
  /\ todo' = <<>>
  /\ finish' = [finish EXCEPT ![call] = "success"]

Return(code) ==
  /\ todo' = <<>>
  /\ finish' = [finish EXCEPT ![call] = code]

\* Slip: after too many looks the next operation is done.
SlipPollTimeout ==
  /\ Busy
  /\ Op.op = "MASKPOLL"
  /\ \A b \in DOMAIN Op.val : status[b] = 0
  /\ i = PollTime
  /\ i' = 0
  /\ pc' = pc + 1
  /\ UNCHANGED <<si_ver, call, todo, table, timer, finish, device>>

PollTimeout ==
  /\ Busy
  /\ Op.op = "MASKPOLL"
  /\ \A b \in DOMAIN Op.val : status[b] = 0
  /\ i = PollTime
  /\ i' = 0
  /\ Return("timeout")
  /\ UNCHANGED <<si_ver, call, table, pc, timer, device>>

\* MASKDELAY resets and starts the timer, then waits for it.
StartDelay ==
  /\ Busy
  /\ Op.op = "MASKDELAY"
  /\ timer = -1
  /\ timer' = 0
  /\ UNCHANGED <<program, device>>

\* Slip: the timer is started and not waited for.
SlipEndDelay ==
  /\ Busy
  /\ Op.op = "MASKDELAY"
  /\ timer >= 0
  /\ timer' = -1
  /\ pc' = pc + 1
  /\ UNCHANGED <<si_ver, call, todo, table, i, finish, device>>

EndDelay ==
  /\ Busy
  /\ Op.op = "MASKDELAY"
  /\ timer >= Op.ms
  /\ timer' = -1
  /\ pc' = pc + 1
  /\ UNCHANGED <<si_ver, call, todo, table, i, finish, device>>

\* Slip: the next table is entered where the last one ended.
SlipEndTable ==
  /\ Busy
  /\ Op.op = "EXIT"
  /\ IF Len(todo) = 1 THEN Return("success") /\ UNCHANGED table
     ELSE /\ todo' = Tail(todo)
          /\ table' = Tables[Version][Head(Tail(todo))]
          /\ UNCHANGED finish
  /\ UNCHANGED <<si_ver, call, pc, i, timer, device>>

\* Slip: the first operation of the next table is passed over.
SlipNextTable ==
  /\ Busy
  /\ Op.op = "EXIT"
  /\ pc' = 2
  /\ IF Len(todo) = 1 THEN Return("success") /\ UNCHANGED table
     ELSE /\ todo' = Tail(todo)
          /\ table' = Tables[Version][Head(Tail(todo))]
          /\ UNCHANGED finish
  /\ UNCHANGED <<si_ver, call, i, timer, device>>

\* EXIT, or an operation ps7_config does not know. After EXIT the function
\* runs its next table; it returns when there is none or when one failed.
EndTable ==
  /\ Busy
  /\ Op.op \notin Writes \cup {"MASKPOLL", "MASKDELAY"}
  /\ pc' = 1
  /\ IF Op.op # "EXIT" THEN Return("corrupt") /\ UNCHANGED table
     ELSE IF Len(todo) = 1 THEN Return("success") /\ UNCHANGED table
     ELSE /\ todo' = Tail(todo)
          /\ table' = Tables[Version][Head(Tail(todo))]
          /\ UNCHANGED finish
  /\ UNCHANGED <<si_ver, call, i, timer, device>>

Program ==
  \/ WriteRegister \/ PollSucceeds \/ PollAgain \/ PollTimeout
  \/ StartDelay \/ EndDelay \/ EndTable

-----------------------------------------------------------------------------
\* The hardware (external).
TimerCounts ==
  /\ timer >= 0 /\ Busy /\ Op.op = "MASKDELAY" /\ timer < Op.ms
  /\ timer' = timer + 1
  /\ lowFor' = [n \in ResetPins |->
                  IF DrivenLow(n, regs) /\ lowFor[n] < 3 THEN lowFor[n] + 1
                  ELSE lowFor[n]]
  /\ UNCHANGED <<program, slcr, regs, pin, status, running>>

PllLocks(p) ==
  /\ status[LOCK[p]] = 0
  /\ regs[RESET[p]] = 0
  /\ status' = [status EXCEPT ![LOCK[p]] = 1]
  /\ UNCHANGED <<program, timer, slcr, regs, pin, running, lowFor>>

DciCalibrated ==
  /\ status["DCI_DONE"] = 0
  /\ regs.DCI_ENABLE = 1 /\ regs.DCI_RESET = 1
  /\ status' = [status EXCEPT !["DCI_DONE"] = 1]
  /\ UNCHANGED <<program, timer, slcr, regs, pin, running, lowFor>>

DdrUp ==
  /\ status["DDRC_MODE"] = 0
  /\ regs.DDRC_RSTB = 1
  /\ status' = [status EXCEPT !["DDRC_MODE"] = 1]
  /\ UNCHANGED <<program, timer, slcr, regs, pin, running, lowFor>>

Hardware == TimerCounts \/ (\E p \in PLLs : PllLocks(p)) \/ DciCalibrated \/ DdrUp

Next == (\E c \in Calls : Call(c)) \/ Program \/ Hardware

Spec == Init /\ [][Next]_vars

\* The processor runs and so does the timer once it is started; nothing is
\* assumed of the rest of the hardware.
FairSpec == Spec /\ WF_vars(Program) /\ WF_vars(TimerCounts)
-----------------------------------------------------------------------------
(* Properties. *)

\* The types of the variables.
TypeOK ==
  /\ si_ver \in 0..3
  /\ call \in Calls \cup {"none"}
  /\ todo \in Seq(TableNames)
  /\ Busy => table = Tables[Version][Head(todo)] /\ pc \in DOMAIN table
  /\ i \in 0..PollTime
  /\ timer \in -1..1
  /\ finish \in [Calls -> Codes]
  /\ slcr \in {"open", "closed"}
  /\ DOMAIN regs = DOMAIN PowerOn
  /\ DOMAIN pin = 0..(PinCount - 1)
  /\ status \in [StatusBits -> {0, 1}]
  /\ DOMAIN running = PLLs
  /\ lowFor \in [ResetPins -> 0..3]

\* No table writes a system level control register while these are closed: the
\* hardware would drop the write silently. Every table must open them itself,
\* since the one before it closed them.
SlcrWritesTakeEffect ==
  Busy /\ Op.op \in Writes => Takes(Op)

\* A PLL whose output is in use is locked, on the divider programmed last
\* unless that was written just before the PLL is bypassed.
PllInUseIsLocked ==
  \A p \in PLLs : regs[BYPASS[p]] = 0 => status[LOCK[p]] = 1

PllServes(p) ==
  /\ regs[BYPASS[p]] = 0
  /\ status[LOCK[p]] = 1
  /\ running[p] = regs[FDIV[p]]

\* The DDR controller leaves its reset only when its PLL serves it, both its
\* clocks run and the impedance of the DDR pins is calibrated.
DdrControllerReady ==
  regs.DDRC_RSTB = 1 =>
    /\ PllServes("DDR")
    /\ regs.DDR_3X.act /\ regs.DDR_2X.act
    /\ status["DCI_DONE"] = 1

\* What a peripheral needs before a register of it is touched: an access to a
\* block without clock hangs the processor, a peripheral that is switched on
\* before its pins are connected sees noise. The registers hold f, the PLLs in
\* serving serve and the pins are connected as in connected.
Routed(connected, pins, modes) == \A n \in pins : connected[n] \in modes

Usable(blk, f, serving, connected) ==
  CASE blk = "ddrc" -> f.DDR_3X.act /\ f.DDR_2X.act /\ "DDR" \in serving
    [] blk = "uart1" -> /\ "uart1" \in f.GATES /\ f.UART.act
                        /\ f.UART.src \in serving
                        /\ Routed(connected, {48}, {"uart1_tx"})
                        /\ Routed(connected, {49}, {"uart1_rx"})
    [] blk = "qspi" -> /\ "qspi" \in f.GATES /\ f.QSPI.act
                       /\ Routed(connected, (1..6) \cup {8}, {"qspi"})
    [] blk = "gpio" -> "gpio" \in f.GATES /\ Routed(connected, ResetPins, {"gpio"})
    [] blk = "devcfg" -> f.PCAP.act /\ f.PCAP.src \in serving
    [] OTHER -> TRUE

Serving == {p \in PLLs : PllServes(p)}

\* The tables run in an order in which every block is clocked and connected
\* before a table writes to it.
BlocksUsableWhenWritten ==
  Busy /\ Op.op \in Writes => Usable(Op.blk, regs, Serving, pin)

\* Every declared clock runs at its frequency: crystal, PLL divider and divisor.
AtSpeed(f, divider) ==
  \A c \in DOMAIN Frequencies :
    /\ f[c].act
    /\ (100000 * divider[f[c].src]) \div f[c].div = Frequencies[c]

\* When ps7_init succeeded every clock it set up runs at the frequency
\* ps7_init.h declares for it (the drivers and ps7_config's delays count on
\* these), with the PLL dividers taken over at the last reset.
SpeedsAsDeclared ==
  finish["init"] = "success" => AtSpeed(regs, running)

\* No chip is left in reset and every peripheral with a clock has its pins.
PeripheralsUp(f, connected) ==
  /\ \A n \in ResetPins : f[DATA[n]] = 1 /\ n \in f.GPIO_OEN
  /\ "usb0" \in f.GATES => Routed(connected, 28..39, {"usb0", "usb0_in"})
  /\ "gem0" \in f.GATES => /\ Routed(connected, 16..21, {"enet0_tx"})
                            /\ Routed(connected, 22..27, {"enet0_rx"})
                            /\ Routed(connected, 52..53, {"mdio0"})
  /\ "sdi0" \in f.GATES => Routed(connected, 40..45, {"sd0"})
  /\ "i2c0" \in f.GATES => Routed(connected, 50..51, {"i2c0"})

\* The level shifters are on and the programmable logic is out of reset.
LogicUp(f) == f.LEVEL_SHIFTERS = 15 /\ f.FPGA_RESET = 0

\* A function that reports success did all of it: the PLLs serve, the DDR
\* controller works, the peripherals are up, and after ps7_post_config the
\* programmable logic; the SLCR is closed again.
SuccessMeansUp ==
  /\ finish["init"] = "success" => /\ Serving = PLLs
                                   /\ status["DDRC_MODE"] = 1
                                   /\ PeripheralsUp(regs, pin)
  /\ finish["post"] = "success" => LogicUp(regs)
  /\ ~Busy /\ call \in {"init", "post"} /\ finish[call] = "success" =>
       slcr = "closed"

\* A chip whose reset pin was driven low is let go only after a millisecond.
PulseHeld ==
  [][\A n \in ResetPins :
       DrivenLow(n, regs) /\ ~DrivenLow(n, regs') => lowFor[n] >= 1]_vars

\* Every call returns, whatever the hardware does.
CallReturns == Busy ~> ~Busy
=============================================================================
