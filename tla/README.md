# A TLA+ model of the COJTHW RV32I core and its boot

The repository is a RISC-V (RV32I) soft core in Verilog, a controller through
which the ARM side of a Zynq starts it, a small boot program, and the first stage
boot loader with the platform initialisation that bring the board up before it.
This directory models these parts, checks them with TLC on small instances, and
proves with TLAPS, for every value of the constants, the safety properties of the
core's memory, fetch and pipeline, of the controller and the boot program, of the boot
loader and of the platform initialisation. Paths
below start at `src/`; `hdl/` is `src/cpu_core_1.0/hdl/`, `fsbl/` is
`src/cpu_proj.sdk/cpu_proj_FSBL/src/`, `hw/` is
`src/cpu_proj.sdk/design_1_wrapper_hw_platform_0/`.

In the models of the hardware one step is one rising edge of a clock, the inputs of a
cycle (AXI handshakes, stalls) are chosen anew at each edge, and a reset may come at
any edge. In the models of the software one step is one operation that the hardware
or a reset can tell from the next.

## Inventory

| Component | State | Operations | Hard part | What makes it correct |
|---|---|---|---|---|
| data access, `hdl/mem/data.v` | `sr_state`, `sw_state`, AR/AW/W registers, `sr_cache`, `RDDATA` | a load of A reads, a store of M writes, each a single-beat AXI transaction | the two run at once, may name the same word and wait for each other; page misses freeze the pipeline around them | memory follows the program, loads see older stores, each access made once, both finish |
| PC and fetch, `hdl/pc.v`, `hdl/inst_fetch.v` | `P_PC`, `P_VALID`, `delayed_exec`, `h_*`, `i_*`, BRAM, `loaded_page_addr`, two state machines, `M_AXI_AR*`, `r_waddr` | next PC, redirect, read the BRAM, load a page in 32 bursts | stalls and flushes around a two-cycle memory; redirects while a page is loading; words that are not valid and jump all the same | tag and BRAM agree, instructions come once and in order, nothing else acts, a miss ends |
| D, M, W latches and registers, `hdl/decode.v`, `hdl/mem_rd.v`, `hdl/wb.v`, `hdl/mem/register.v` | the latches, `REG01`..`REG31` | hold, flush, move; register write from M | who has the newest value of a register | operands in program order |
| ALU, `hdl/alu.v` | the A latch | forwarding, branch decision, results, addresses, strobes | signedness, shifts, lanes | RV32I results |
| top level, `hdl/core.v` | none | `stall`, `flush`, wiring | everything above at once | composition |
| controller, `cpu_core_controller_1.0/hdl/*` | AXI4-Lite slave registers, `CEXEC`, copies of the core's registers | write `CEXEC`/`CEXEC1`, read registers | two clocks, `CEXEC` set by one and cleared by the other | a start reaches the core, a step is short, every access answered once |
| boot program, `cpu_proj.sdk/cpu_proj/src/main.c` | memory | copy two files, set `CEXEC` | last chunk and last word of a file, failures of the file system | core started on complete files |
| first stage boot loader, `fsbl/main.c`, `fsbl/image_mover.c`, `fsbl/pcap.c` | `MULTIBOOT`, `REBOOT_STATUS`, flags, memory, PL, the DMA of PCAP | find an image, move, check, decrypt and configure its partitions, fall back, hand off | a fallback keeps what the failed image left, and the DMA it gave up goes on | handoff only to a complete image, no good image passed over, every boot ends |
| platform initialisation, `hw/ps7_init.c` | 21 tables, `ps7_config`'s position, the registers written | write, poll with a limit, delay | an order spread over 13000 lines of tables; writes that are lost silently | every write takes effect and meets a clocked block, success means up |

The stages of the core talk by wires sampled at the clock edge: `inst_mem_wait` and
`data_mem_wait` make `stall` for all of them, `DO_JMP` of M is `flush` for all of
them, RDDATA goes from `data.v` to M, M and W feed A (forwarding) and the register
file. The core and the two memories behind it talk by AXI4 channels. The boot
loader calls `ps7_init`, loads the PL with the core and the program of the processor;
that one loads the memory of the core, and sets `CEXEC` of the controller by an
AXI4-Lite write. Not part of the product, or not logic of this project: the testbench
(read for the expected behaviour), the block RAM IP, the generated driver, the build
files.

`PROJECT.json` lists the hazards, each at its line with the properties that catch it.

## Modules

The core:

- `DataTypes` - instructions as the data side sees them; what a store does.
- `MemPort` - abstract: a memory port on which instructions act one at a time.
- `DataMem` - `data.v`. Variables carry the names of its registers (`sr`, `ar`,
  `sw`, `aw`, `w`, `cache`, `rddata`); a channel variable is `None` when VALID is
  low. `a` and `m` are the instructions in A and M. `Tick(in)` is one clock edge,
  `ReadSide`/`WriteSide` the always blocks, `Pipeline` the latches, `SlaveRead`/
  `SlaveWrite` the memory behind the bus (external). `amem`, `held`, `reads`,
  `writes` only observe.
- `Fetch` - `pc.v` and `inst_fetch.v`, one operator for each always block. An
  address is `<<page, offset>>` and the word at an address is named by it, so that
  "the right instruction" is an equation.
- `FetchStage` - `Fetch` with what the rest of the core does to it: the jump in M,
  stalls of the data side, and which of the words in D, A and M jump or access data,
  by the word alone as `alu.v` decides it and not by VALID. `Acts` says where the
  program has such words. `expect` only observes.
- `PipeTypes`, `RegPort` - instructions as the register side sees them; abstract:
  registers read and written one instruction at a time.
- `Pipeline` - the latches of D, A, M, W, the register file and forwarding.
  `Result` and `Compare`, what the ALU computes, are constants: the pipeline must
  hand over the right operands whatever they are.
- `Opcodes` - the kinds of instruction, for the two below.
- `Isa` - abstract: RV32I in numbers, memory as bytes, little end first.
- `Alu` - `gen_imm` of `decode.v`, `check_do_jmp`, `pc_calc`, `rd_calc`, the address,
  strobe and data functions of `alu.v` and `load_reg_d_v` of `mem_rd.v`, on words as
  vectors of bits. It implements `Isa` with bits read as numbers.

Controller and boot program:

- `Controller` - the AXI4-Lite slave and the start signal. `AxiEdge` is one edge of
  `S_AXI_ACLK`, `CoreEdge` one of `CCLK`, `MasterSends` the processor; `MinGap` and
  `MaxGap` bound how many edges of the one lie between two of the other, so that every
  phase and drift in these bounds is a behaviour. `unanswered`, `answers`, `pending`,
  `edges` only observe. One register of the core stands for the 33 that are read back.
- `Boot` - `main.c` on top of the controller: `Open`, `Read` (one `f_read` and the
  copying of what it returned) and `Start` (the write of `CEXEC`), then any access.
  A byte of a file is named by its offset.

Boot loader and platform:

- `Fsbl` - the first stage boot loader. `pc` is where the program is; every action is
  the code from one point at which hardware or a reset can interfere to the next.
  `FsblFallback` is the code of that name with its two ways out, by reset
  (`FallbackReset`) and in place when the key is in the fuses (`FallbackInPlace`). The three fuse bits the
  code reads are independent (`Fuses`): the key in the fuses (`main.c:660`), encryption
  mandatory (`image_mover.c:386-395`), signatures mandatory (`image_mover.c:248`).
  `DmaEnds`, `PlStarts` and `BootRom` are external. `faults` (slots whose loading was
  disturbed) and `lost` (a read error that `SDAccess` dropped) only observe. A
  partition is a record of what is looked at: kind, owner, header, encryption,
  checksum, signature, load address, and whether its data are good.
- `Ps7Types` - the operations of the tables and the fields of the registers that the
  properties tell apart. `Ps7Tables1`, `2`, `3` - the tables of the three silicon
  versions, one definition for each group of operations of a table, so that a table
  reads like its source. `Ps7Init` - `ps7_config` and its three callers, over PLLs,
  DDR controller, calibration and timer that answer when they like or never.
  `Ps7Order` - what can be said of the tables without running them, and the rules they
  obey (`ASSUME`s, which TLC evaluates on the tables of the repository).

`MCDataMem`, `MCFetchStage`, `MCPipeline`, `MCAlu`, `MCFsbl`, `MCPs7Init` are the
instances for TLC; `DataMemProofs`, `FetchProofs`, `PipelineProofs`,
`ControllerProofs`, `BootProofs`, `FsblProofs`, `FsblFirstProofs`, `Ps7Proofs` hold the
theorems.

Definitions marked `Slip` are plausible mistakes in a definition next to them.
Nothing uses them; each was put in its neighbour's place to see that a property fails.

## Runs

| Run | Instance | Shows |
|---|---|---|
| `DataMem.cfg` | 2 words, 2 lanes, 2 byte values, whole-word and one-lane stores, page misses allowed | the memory is that of the retired instructions but for the store in M; loads see older stores; one read and one write per instruction unless the fetch holds it; no access skipped; AXI payload stable |
| `DataMemPort.cfg` | the same without page misses | `data.v` implements `MemPort` |
| `DataMemLive.cfg` | 2 words, 1 lane, every slave option on | both accesses finish |
| `DataMemHeld.cfg` (violated) | page misses allowed | two adjacent loads held by a page miss: the first one's word is replaced by the second's |
| `FetchStage.cfg` | 2 pages of 8 words, bursts of 2, jumps to any address, every word but the ends of a page may jump or access data | tag and BRAM agree; valid instruction is the word at its PC; in order; nothing that is not valid acts; no beat misplaced; ARVALID and ARADDR held; misses end |
| `FetchCross.cfg` (violated) | pages of 6 words, P_PC may run off a page | the last word of the page is not executed |
| `FetchTorn.cfg` (violated) | the same | the loader overwrites the page the tag says is present |
| `Pipeline.cfg` | 2 registers and x0, 1-bit words, ALU operations to all three, load, branch, jump | operands in program order; the pipeline implements `RegPort` |
| `Alu.cfg` | bytes of 2 bits, 5 operands, all opcodes with immediates at both ends and around 0, two instructions in a row | the functions of the core do what `Isa` says |
| `Boot.cfg` | 2 or 3 edges of one clock to one of the other, files of one chunk and of one chunk and half a word, failing calls, resets | accesses answered once and with what was asked; a start reaches the core, a step lasts at most three of its cycles, `CEXEC` follows the register; files complete before the start |
| `Fsbl.cfg` | 3 slots, 2 partitions, every pair of 15 images before one that always loads or never, 4 devices, all 8 settings of the fuses | handoff only to a complete image of its own, but for note 9; no loadable image passed over; level shifters follow the PL; every boot ends |
| `Ps7Init.cfg` | all tables of all three versions, a poll looks three times | no write lost to closed registers, no PLL in use unlocked, DDR controller released last, blocks clocked and connected when written, declared speeds, success means up, reset pulses held, every call returns |

Why these bounds. Everything `data.v` decides depends on the kinds of the two
instructions and on whether their words are equal: two words give both answers,
two lanes tell a strobed store from a whole one, two byte values an old word from a
new one. Transactions are counted to `MaxCount` = 2, one more than allowed. The
fetch distinguishes the first, a middle and the last burst of a page, and the last
words of a page: with four bursts of two words a jump in the middle of a page still
has its four followers in the page, and two pages are there to move between.
Forwarding looks at two producers and one consumer: two registers tell the right
one from another. One stage later the value is in the register file. For the ALU a
word keeps its four bytes, its sign and its shifts below and above a byte when a byte
has two bits; operands are 1, the sign bit alone, two with mixed bits and a small
negative number. `S_AXI_ACLK` runs at 125 MHz and `CCLK` at 50 MHz
(`hw/ps7_init.h`), which makes two or three edges to one. Three slots are one to
fail, one that meets what the first left behind, and one to end in. `PollTime` = 2
tells the first look, a further one, and the last; the tables themselves are whole.
The proofs have none of these bounds.

All runs check for deadlock but `Fsbl.cfg` and `Ps7Init.cfg`, in which a boot ends: in
the application, in JTAG mode, in an endless loop, or when every function was called.

Fairness. `DataMemLive.cfg` and `FetchStage.cfg` assume that the clock runs (weak
fairness of a clock edge) and that an AXI slave answers what it was asked: it takes a
held address, takes a held beat, sends the beats it owes, makes a write visible.
Each is weak fairness of edges with that handshake, which stays possible until it
happens because `data.v` and `inst_fetch.v` hold VALID (checked, and proved:
`PayloadHeld`, `FetchHoldsRequest`) and tie RREADY and BREADY high. `Boot.cfg`: both clocks run. `Fsbl.cfg`: the
processor executes; the DMA, the PL and the flash may never answer, since every poll
of the loader has a limit. `Ps7Init.cfg`: the processor executes and the timer it
started counts; PLLs, calibration and DDR controller may never answer. Nothing is
assumed of the core itself.

## What the code does not keep

Three runs are violated; each shows a disagreement of the code with what it says it is
(`findings` in `PROJECT.json`):

1. *Last word of a page* (`inst_fetch.v:150`). `i_valid <= valid && loaded` tests
   the page P_PC has moved on to, not the page of the word: running sequentially
   over a 4 KB boundary into a page that is not loaded loses one instruction.
2. *Torn page* (`inst_fetch.v:131-137`). A jump taken while P_PC has already run
   into a missing page makes `loaded` true again for the old page while the loader,
   started for the new one, goes on writing.
3. *Load held by a miss* (`data.v:156`, `208`). The read starts again for as long as
   the pipeline is held and its result replaces that of the load still in M.

The passing runs and the theorems say what holds where these do not occur:
`CrossPages = FALSE` (1, 2), `~held` or `InstStall = FALSE` (3). Other places where a
model had to say "not there":

4. *Words that are not valid* (`inst_fetch.v:114`, `alu.v:160-168`). When a page was
   loaded the BRAM's output is its last word, and before EXEC the first one of what
   a reset left there; either enters the decoder with VALID low, and if it is a jump,
   a load or a store, acts. `OnlyValidActs` holds for programs that have none there
   (`HarmlessEnds`).
5. *slti* (`alu.v:255`) compares a signed register with an unsigned concatenation,
   which makes the comparison unsigned; a halfword at offset 3 (`alu.v:303`,
   `mem_rd.v:198`) is stored and loaded by half. `Alu` models both; `Meant` leaves
   them out of the run.
6. *Write response* (`data.v:120`). A load may be issued before the store before it
   is visible, if the slave shows a write later than it takes the data
   (`LateCommit`); the simulation model of the repository does not.
7. *SD card* (`fsbl/sd.c`). `SDAccess` returns success when `f_read` fails: the image
   is handed off with what the memory held. The properties except it (`lost`).
8. *Bitstream behind the application* (`fsbl/image_mover.c:352-365`). `BitstreamFlag` is
   set before the order is found invalid, so that the PL is connected though it was
   not configured. `ShiftersFollowPl` excepts such an image, which handoff accepts
   with what was loaded before it.
9. *Fallback in place* (`fsbl/main.c:657-708`, `pcap.c:798`). The DMA that a poll gave up
   goes on beside the next image. Any transfer of that image waits behind
   `ClearPcapStatus`, but a plain partition needs none: with `AES_FUSE` set,
   `EFUSE_SEC_EN` clear and flash that is not read like memory, a first partition that
   is plain is copied by the processor and may be started while the old DMA still runs
   into its load address. TLC shows it in two images: an encrypted one whose poll gives
   up, a plain one that is handed off to and then overwritten.
   `HandoffToLoadedImage` excepts exactly this (`Unguarded`, `Overwritten`) and no other
   image. A late DMA can also spoil a good image that is being loaded, which is then
   rejected; `FirstGoodImage` counts that as a disturbance.
   `FabricInit` leaves the shifters from PS to PL on (`shifters` means both
   directions), tests its time limit the wrong way round (511, 572) and waits for INIT
   without one (599): the model lets it succeed or fail.

## Proofs

All theorems are for arbitrary constants satisfying the named assumptions of the modules.

`DataMemProofs`. `TypeCorrect` needs nothing else. The others assume `SimpleSlave`
(address before data, writes visible at once). The invariant `IInv` adds to the
properties what each state of the two machines says of the channels and of the slave
(`ReadInv`, `WriteInv`), the counters (`CountInv`) and, for a load in M, that
`RDDATA`, and while no read runs `sr_cache`, holds its word (`ResultInv`).
`LoadSeesOlderStores` is not inductive alone: the word is read while the load is in A
and older stores may be in flight, hence the conjuncts "a read of the word M stores to
starts only when the write is finished" and "in FINISH `sr_cache` is the word in
memory". `TickFacts` reduces a clock edge to the handshakes the states allow, `TickInv` has
one step for each conjunct. From `IInv`: `MemoryCorrect`, `LoadCorrect`, `NoReplay`,
`NoSkippedAccess`, and with `~InstStall` the refinement `ImplementsPort`, where an edge
that moves the pipeline is `Advance` and every other edge is a stutter.
`PayloadHeld` has an invariant of its own, `ChannelInv`: what each channel shows is a
function of the state of its machine and of the instruction in A or M, so that it can
change only when that machine leaves the state or the pipeline moves, which it does not
while a machine is busy. It assumes that the slave takes no data before the address
(`~EarlyData`); one that does gets the data beat offered again after it was taken
(`hazards`), and to such a slave `PayloadHeldUntilTaken` is not kept.

`FetchProofs`, for `~CrossPages` and `HarmlessEnds`. `IInv` adds `ControlInv` (nothing valid
before EXEC; a word that acts is in D, A or M only behind a valid address or under a
jump; during a miss M holds no jump but the one that caused it), `BramInPlace`
(every word of the BRAM is at its own offset), `LoaderInv` (every word of the page
below `r_waddr` is in the BRAM; `r_waddr` plus what is left of the burst is where ARADDR
points) and `OrderInv` (while M holds no jump, `h_pc` is the address before `P_PC`, in the
same page, and is where the next valid instruction comes from). `OnlyValidActs` is
itself part of it: a data stall before the first instruction would come from a word that
is not valid. The lemmas take the loader, the control, the stale words and the order
apart (`LoaderStep`, `ControlStep`, `StaleStep`, `OrderStep`).

`PipelineProofs`. `IInv` adds `LatchInv`: the register W names holds W's value, and what A
has read is what the register file holds now, except for the register W has just
written. So M, W, latch is the right order of search (`ForwardInOrder`), and an edge without
stall is one `Execute` or `Drop` of `RegPort` (`MoveExecutes`, `FlushDrops`). The refinement
assumes `~InstStall`; type correctness and operand order do not.

`ControllerProofs`, for any ratio of the clocks, any register values and, through
`BootImplementsController`, any files. `IInv` adds `WriteTurn` (a write being taken or a
response waiting keeps `aw_en` low; address and data go together) and `ReadTurn` (the
address latched is the one on the bus when it is taken, and the master asks for nothing
while it owes the controller RREADY): without the first the count of unanswered writes
could reach two. `ControllerStepIsShort` counts: when a request of `CEXEC1` is written, the
controller needs at most three edges of `S_AXI_ACLK` to find `CEXEC` high through its
two registers and drop it (`Until`); `Budget` says that the edges of `CCLK` still allowed,
at `MinGap` edges of `S_AXI_ACLK` each, pay for these and for what is left of the current
gap. It needs `RequestTurn` (no second write lands before the first was latched) and
`HeldHigh` (a pending request holds `CEXEC`). So the bound `StepEdges`, 2 \div `MinGap` + 2,
holds for every ratio.

`BootProofs`, for any word size, any buffer of whole words and all files: `BootLoadsFirst`.
`LoadInv` says that a file that was read up to a position is in memory up to that
position; the work is in the arithmetic of `f_read` and the copy loop: a read returns a whole buffer or the
end of the file, so that every read but the last ends at a word boundary (`WordCounts`,
`BehindWords`), the words made of the buffer hold the bytes in the order of the file
(`WordsOfBuffer`), and appending them continues it (`Continued`). That a byte is in one
word, at one place, is `Division` and `DivisionUnique`.

`FsblProofs`, for any number of slots and partitions and any contents of the flash
(`BoardAssumption`). `HandoffToLoadedImage` speaks of the end only; the invariant
`IInv` says at every stage what is already in place (`InPlace`), what the partition
being loaded has come to (`Here`), that the flags name the kinds of partition met
(`MetFlags`), that the image exists and its list has not ended (`AtImage`), that the PL
and the shifters belong to the flags (`Connected`), and, the part all others need, that
at most one transfer is under way and is either the one waited for, and then the right
one (`Own`), or one an earlier image gave up. The latter needs the key in the fuses, and
lasts until the first partition of this image is placed, because every transfer is preceded by
`ClearPcapStatus`, which refuses to start beside another; only in an image that starts
with a plain partition (`Unguarded`) may it last longer, up to the running program
(`OneTransfer`). Nothing is claimed of what is in place in such an image once the late
transfer has hit it, nor after an error that `SDAccess` dropped (`Spoilt`); in every other
state `Here` and `InPlace` hold, in an `Unguarded` image that was not hit too.
The proof has one lemma for each action. From `IInv`:
`FsblHandsOffLoadedImage` and `FsblShiftersFollowPl`.

`FsblFirstProofs`, under the same assumption: `FsblBootsFirstGoodImage`. `FirstInv` adds to
`IInv` that every slot passed over could not be loaded or was disturbed (`NoneMissed`), and,
while nothing has disturbed the present one, that its data wait where the next step
looks for them and that a transfer which ended in error did so because of the image
(`Undisturbed`): a transfer that an earlier image gave up may end at any time, and the
action that ends it records the disturbance. The proof did not go through for
`Loadable` as it was first written, which took an image whose list ends at a partition
with a bad header for one that can be loaded; `ValidateHeader` looks at the header first.
The definition was corrected and `MCFsbl` has such an image now.

`Ps7Proofs`: all safety properties of `Ps7Init`, whatever the hardware does, for every
number of looks and all tables that, from what the registers hold at power on, obey the
rules of `Ps7Order`. `ps7_init` and `ps7_post_config` run six tables in a row, so their
operations are one straight line, and at a point of the line the tables alone tell what
every register holds (`FieldAt`: the last write before that point), which status bits
must be up (`KnownUp`: polled for after the last operation that could clear them) and which
dividers were taken over (`KnownTaken`: the PLL was reset after the last write of its
divider). The rules say in these static terms what each property says of states:
`PllRule`, `DdrRule`, `BlockRule`, `ReadyRule`, `PulseRule`; `KeyRule` and `DebugRule` say
that each table opens the SLCR for itself and that the debugger's table touches nothing
else. Each is an `ASSUME` which the run `Ps7Init.cfg` evaluates on the tables of the three
silicon versions. The invariant that carries them over is `OnLine`: at the point the
boot has reached, the registers, pins, status bits and dividers are as the tables tell. It
needs `Control` (the program is on the line, or in the debugger's table after
`ps7_init` succeeded), `Keys` (the SLCR is open where the table opened it, so
that no write is lost) and `Device` (a PLL in reset is not locked, and so on).
`InUse` and `Ready` keep the properties where the line is left: after a poll timed out the
registers stay, and status bits that nothing holds down only rise. For `PulseHeld`,
`Pulses` adds that behind a delay during which a pin was low the timer has counted.

Assumptions on constants: those of the modules. `PowerOnAssumption` says which fields the
tables need and that no PLL is in reset when `ps7_init` is called, which runs with the
PLLs the boot ROM started. The rules look at `PowerOn` only where a field is used before
a table writes it; there TLC has evaluated them for the values in `MCPs7Init`.

Only model-checked: liveness (`AccessCompletes`, `MissEnds`, `StartReachesCore`,
`CexecFollowsCommand`, `BootEnds`, `CallReturns`), which the prover cannot do; `IsaSpec`,
which compares bits with the numbers they stand for: a sum over the bits of a word is
a recursive definition, and what it computes needs an induction the prover has no
theorem for; and the violated properties. Every invariant and every action property of
a passing run is proved.

## Assumptions of the models

- The slaves answer without errors and one read at a time on each bus; the slave shares
  the reset (as in the testbench), except that a collected write may still land.
- RST lasts long enough for registers without reset (`i_pc`, `i_valid`,
  `delayed_exec`, `h_delayed_flush`) to take the values their inputs have under RST.
- `FetchStage`: EXEC stays high once set, as `main.c` and `CEXEC` make it; programs keep
  jumps, loads and stores out of the first and last word of a page (4 above).
- `Pipeline`: RDDATA has the load's word when the pipeline moves (`LoadSeesOlderStores`)
  and, unless `InstStall`, does not change while it is held. That words which are not
  valid carry jumps is modelled here.
- `Alu`: opcodes that RV32I does not have are not run; registers rs1 and rd are one.
  Instruction memory and data memory are separate (no self-modifying code).
- `Controller`: the master holds VALID until READY and has one read at a time under
  way. It sees the clocks from the start of the core on; before, no access is made.
- `Fsbl`: silicon version 3, whose `MULTIBOOT` a fallback advances (on version 1 the same
  image would be tried for ever); no RSA, watchdog or MMC, as the repository builds it; a
  reset takes effect at once; each partition of the FSBL is either PL or PS. `nor` stands for the devices that are read
  like memory (NOR, QSPI up to 16 MB), `qspi` for the others (larger QSPI, NAND). A device
  may fail at any step and an exception may come at any step. A 256 MB flash, whose search
  for an image would wrap, is not modelled.
- `Ps7Init`: registers by the fields the properties tell apart; the global timer counts
  milliseconds.

## Not modelled

The commands of the flash chips, FatFs, the rounds of MD5 and the RSA code that is not
built in: what they do to the loader is an outcome (delivered, failed, checksum right or
wrong). `ps7_init_gpl.c` is the text of `ps7_init.c` under another licence. Wording,
debug output, the user hooks, which are empty, and performance counters. The
testbench, the generated driver and its self test, the build files. The core as one
module: fetch, data side and pipeline each see the others as what they can do to them
(stalls, jumps, words), and their assumptions about each other are listed above.

## Plan

1. `Core`: `FetchStage` and `DataMem` composed through `stall` and `flush`, with EXEC driven
   by the controller; findings 1 to 3 would move there.
2. Theorems: the fetch with pages that are crossed, for programs whose page ends are
   followed by a page that is loaded; the composition above, from the invariants of its
   two parts.
