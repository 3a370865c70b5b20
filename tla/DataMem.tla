------------------------------ MODULE DataMem ------------------------------
(***************************************************************************)
(* mem/data.v: the data side of the core.  A load of the A stage and a     *)
(* store of the M stage each drive one AXI4 single-beat transaction, by    *)
(* the state machines sr (AR, R) and sw (AW, W); LOADING stalls the        *)
(* pipeline until both are done.  The pipeline around it (core.v) is the   *)
(* pair of instructions a and m, which move together when nothing stalls.  *)
(* The AXI slave (an interconnect and a memory outside src/) is modelled   *)
(* from the handshakes data.v relies on.                                   *)
(*                                                                         *)
(* One step is one rising edge of CLK.  A channel variable that is None    *)
(* stands for VALID low; otherwise it is the payload beside VALID high.    *)
(***************************************************************************)
EXTENDS DataTypes, Naturals

CONSTANTS
  Zero,        \* the word RST leaves in RDDATA
  InstStall,   \* may the instruction side (inst_mem_wait) stall the pipeline?
  EarlyData,   \* may the slave take a W beat before it has taken its address?
  LateCommit   \* may a write taken by the slave become visible some cycles later?

ASSUME ZeroAssumption == Zero \in Data
ASSUME FlagAssumption == {InstStall, EarlyData, LateCommit} \subseteq BOOLEAN

VARIABLES
  a, m,           \* instructions in the A stage (alu.v) and the M stage (mem_rd.v)
  sr, ar,         \* read state machine; AR channel
  cache, rddata,  \* sr_cache and RDDATA
  sw, aw, w,      \* write state machine; AW and W channels
  rq,             \* slave: the read it has accepted
  awq, wq,        \* slave: address and data beat of the write it is collecting
  bq,             \* slave: the write it has collected and not yet made visible
  mem             \* slave: the memory

\* Observers: the memory the retired instructions leave, whether the pipeline
\* stayed frozen after its access was done, and the reads and writes the slave
\* took for the instructions now in A and M.
VARIABLES amem, held, reads, writes

pipeVars  == <<a, m>>
readVars  == <<sr, ar, cache, rddata>>
writeVars == <<sw, aw, w>>
slaveVars == <<rq, awq, wq, bq, mem>>
obsVars   == <<amem, held, reads, writes>>
vars == <<pipeVars, readVars, writeVars, slaveVars, obsVars>>

RDEN  == a.op = "load"
WREN  == m.op = "store"
NoFlush == FALSE                             \* Slip: the word behind a jump goes on
FLUSH == m.op = "jump"
SameWord == a.word = m.word

\* The inputs of a cycle: the slave's side of each handshake, whether the slave
\* makes a collected write visible, and inst_mem_wait.
Input == [arready : BOOLEAN, rvalid : BOOLEAN, awready : BOOLEAN, wready : BOOLEAN,
          commit : BOOLEAN, instWait : BOOLEAN]

\* A read of the word M is storing to waits for the write.  (The definitions
\* marked "Slip" are mistakes of the kind the properties are there to notice;
\* nothing uses them.)
ReadAtOnce == TRUE                           \* Slip: no exclusion
ReadAfterM == ~(WREN /\ SameWord)            \* Slip: waits until M has moved
ReadMayStart == ~(WREN /\ SameWord) \/ sw = "FINISH"
\* A read that is done waits for the write of M, to leave with it.
LeaveAlone == TRUE                           \* Slip: goes idle, to start again
ReadMayEnd == ~WREN \/ sw = "FINISH"

\* sr_next_state
SrNext(in) ==
  CASE sr = "IDLE"   -> IF RDEN /\ ReadMayStart THEN "ADDR" ELSE "IDLE"
    [] sr = "ADDR"   -> IF in.arready THEN "WAIT" ELSE "ADDR"
    [] sr = "WAIT"   -> IF in.rvalid THEN "FINISH" ELSE "WAIT"
    [] sr = "FINISH" -> IF ReadMayEnd THEN "IDLE" ELSE "FINISH"

\* sw_next_state
SwNextUnwaited(in) ==                        \* Slip: WREADY is not looked at
  CASE sw = "IDLE"   -> IF WREN THEN "ADDR" ELSE "IDLE"
    [] sw = "ADDR"   -> IF in.awready THEN "WRITE" ELSE "ADDR"
    [] sw = "WRITE"  -> "FINISH"
    [] sw = "FINISH" -> IF ~RDEN \/ sr = "FINISH" THEN "IDLE" ELSE "FINISH"
SwNext(in) ==
  CASE sw = "IDLE"   -> IF WREN THEN "ADDR" ELSE "IDLE"
    [] sw = "ADDR"   -> IF in.awready THEN "WRITE" ELSE "ADDR"
    [] sw = "WRITE"  -> IF in.wready THEN "FINISH" ELSE "WRITE"
    [] sw = "FINISH" -> IF ~RDEN \/ sr = "FINISH" THEN "IDLE" ELSE "FINISH"

LoadWaits(in) == RDEN /\ SrNext(in) # "IDLE" \* Slip: a store waits for nothing
LOADING(in) ==
  \/ RDEN /\ SrNext(in) # "IDLE"
  \/ WREN /\ SwNext(in) # "IDLE"

\* What RST leaves in RDDATA.
Unreset == None                              \* Slip: nothing, the register is not reset
ResetWord == Zero

\* The AR registers, RDDATA and sr_cache; rdata is RDATA if rvalid.
ReadSide(in, rdata) ==
  LET next == SrNext(in) IN
  /\ sr' = next
  /\ ar' = CASE next = "ADDR" -> a.word
             [] next # "ADDR" /\ sr = "ADDR" /\ in.arready -> None
             [] OTHER -> ar
  /\ cache'  = IF in.rvalid THEN rdata ELSE cache
  /\ rddata' = IF ~in.rvalid /\ next = "IDLE" THEN cache ELSE rddata

\* The data beat of the store in M.
WholeWord == [strb |-> Lane, data |-> m.data]  \* Slip: sb and sh write all lanes
StoreBeat == [strb |-> m.strb, data |-> m.data]

\* The AW and W registers.  The W registers keep their beat through "WRITE".
WriteSide(in) ==
  LET next == SwNext(in) IN
  /\ sw' = next
  /\ aw' = CASE next = "ADDR" -> m.word
             [] sw = "ADDR" /\ next = "WRITE" -> None
             [] OTHER -> aw
  /\ w'  = CASE next = "ADDR" -> StoreBeat
             [] next = "FINISH" -> None
             [] OTHER -> w

\* The slave's read channels: it takes an address, and answers with the word
\* as it was when the address was taken or as it is when it answers.
SlaveRead(in, rdata) ==
  /\ in.arready => ar # None /\ rq = None
  /\ in.rvalid  => rq # None /\ rdata \in {rq.data, mem[rq.word]}
  /\ rq' = CASE in.arready -> [word |-> ar, data |-> mem[ar]]
             [] in.rvalid /\ ~in.arready -> None
             [] OTHER -> rq

\* The slave's write channels: an address and a data beat make a write, which
\* reaches the memory at once or, with LateCommit, at the step commit says.
\* data.v holds BREADY high and never looks at BVALID, so there is no B here.
SlaveWrite(in) ==
  LET addr == IF in.awready THEN aw ELSE awq
      beat == IF in.wready THEN w ELSE wq
      full == addr # None /\ beat # None
      write == [op |-> "store", word |-> addr, strb |-> beat.strb, data |-> beat.data]
  IN
  /\ in.awready => aw # None /\ awq = None
  /\ in.wready  => w # None /\ wq = None /\ bq = None /\ (EarlyData \/ awq # None)
  /\ in.commit  => bq # None
  /\ awq' = IF full THEN None ELSE addr
  /\ wq'  = IF full THEN None ELSE beat
  /\ bq'  = CASE full /\ LateCommit -> write
              [] in.commit -> None
              [] OTHER -> bq
  /\ mem' = CASE full /\ ~LateCommit -> Performed(mem, write)
              [] in.commit -> Performed(mem, bq)
              [] OTHER -> mem

\* The latches of alu.v and mem_rd.v: hold, flush, or take the next instruction.
Pipeline(stall) ==
  \/ stall /\ UNCHANGED pipeVars
  \/ ~stall /\ FLUSH /\ a' = Bubble /\ m' = Bubble
  \/ ~stall /\ ~FLUSH /\ m' = a /\ a' \in Issue

\* Counters stop at MaxCount: two transactions are already one too many.
MaxCount == 2
Count(n) == IF n < MaxCount THEN n + 1 ELSE n

Observe(stall, loading, in) ==
  /\ amem'   = IF stall THEN amem ELSE Performed(amem, m)
  /\ held'   = (stall /\ (held \/ ~loading))
  /\ reads'  = CASE ~stall -> 0 [] stall /\ in.arready -> Count(reads)  [] OTHER -> reads
  /\ writes' = CASE ~stall -> 0 [] stall /\ in.wready  -> Count(writes) [] OTHER -> writes

Init == /\ a = Bubble /\ m = Bubble
        /\ sr = "IDLE" /\ ar = None /\ cache \in Data /\ rddata = ResetWord
        /\ sw = "IDLE" /\ aw = None /\ w = None
        /\ rq = None /\ awq = None /\ wq = None /\ bq = None
        /\ mem \in [Word -> Data]
        /\ amem = mem /\ held = FALSE /\ reads = 0 /\ writes = 0

\* RST: every register of data.v but sr_cache.  The slave shares the reset;
\* a write it has collected may still land.
Reset == /\ a' = Bubble /\ m' = Bubble
         /\ sr' = "IDLE" /\ ar' = None /\ rddata' = ResetWord /\ UNCHANGED cache
         /\ sw' = "IDLE" /\ aw' = None /\ w' = None
         /\ rq' = None /\ awq' = None /\ wq' = None /\ bq' = None
         /\ mem' \in {mem} \cup (IF bq = None THEN {} ELSE {Performed(mem, bq)})
         /\ amem' = mem' /\ held' = FALSE /\ reads' = 0 /\ writes' = 0

\* One clock edge, for the inputs of that cycle.
Tick(in) ==
  LET loading == LOADING(in)
      stall   == in.instWait \/ loading
  IN
  /\ in.instWait => InstStall
  /\ \E rdata \in IF in.rvalid /\ rq # None THEN {rq.data, mem[rq.word]} ELSE {Zero} :
       /\ ReadSide(in, rdata)
       /\ SlaveRead(in, rdata)
  /\ WriteSide(in)
  /\ SlaveWrite(in)
  /\ Pipeline(stall)
  /\ Observe(stall, loading, in)

Next == \/ Reset
        \/ \E in \in Input : Tick(in)

Spec == Init /\ [][Next]_vars

\* The clock runs, and a slave that is asked answers: an AXI slave may delay
\* each handshake for any number of cycles but not forever.
Clock  == \E in \in Input : Tick(in)
TakeAR == \E in \in Input : in.arready /\ Tick(in)
SendR  == \E in \in Input : in.rvalid /\ Tick(in)
TakeAW == \E in \in Input : in.awready /\ Tick(in)
TakeW  == \E in \in Input : in.wready /\ Tick(in)
Commit == \E in \in Input : in.commit /\ Tick(in)
Fairness == /\ WF_vars(Clock)
            /\ WF_vars(TakeAR) /\ WF_vars(SendR)
            /\ WF_vars(TakeAW) /\ WF_vars(TakeW) /\ WF_vars(Commit)
FairSpec == Spec /\ Fairness
-----------------------------------------------------------------------------
TypeOK ==
  /\ a \in Request /\ m \in Request
  /\ sr \in {"IDLE", "ADDR", "WAIT", "FINISH"}
  /\ ar \in Word \cup {None}
  /\ cache \in Data /\ rddata \in Data
  /\ sw \in {"IDLE", "ADDR", "WRITE", "FINISH"}
  /\ aw \in Word \cup {None} /\ w \in Beat \cup {None}
  /\ rq \in [word : Word, data : Data] \cup {None}
  /\ awq \in Word \cup {None} /\ wq \in Beat \cup {None}
  /\ bq \in {r \in Request : r.op = "store"} \cup {None}
  /\ mem \in [Word -> Data] /\ amem \in [Word -> Data]
  /\ held \in BOOLEAN
  /\ reads \in 0 .. MaxCount /\ writes \in 0 .. MaxCount

\* The memory is the one the retired instructions leave, but for the store in
\* M, which is either not there yet or there completely.
MemFollowsProgram ==
  \/ mem = amem
  \/ WREN /\ mem = Performed(amem, m)

\* A load in M reads, from RDDATA, the word as the stores older than it left
\* it: those two slots back and the one it overtook in the pipeline alike.
LoadSeesOlderStores == m.op = "load" /\ ~held => rddata = amem[m.word]

\* The bus sees at most one read and one write for an instruction, as long as
\* the pipeline moves on when the access is done.
OneAccessPerInstruction == ~held => reads <= 1 /\ writes <= 1

\* A load in M keeps the word it read for as long as it is in M, whatever holds
\* the pipeline back.
LoadKeepsItsWord == m.op = "load" => rddata = amem[m.word]

\* What the pipeline latches when it moves: every access asked for was made.
MovesWhenDone ==
  ~held /\ (a' # a \/ m' # m) => \/ Reset
                                 \/ (RDEN => reads = 1) /\ (WREN => writes = 1)
AccessMadeBeforeMoving == [][MovesWhenDone]_vars

\* AXI4: once VALID is high, VALID and the payload stay until the handshake.
PayloadHeldUntilTaken ==
  [][\/ Reset
     \/ /\ ar # None => ar' = ar \/ (ar' = None /\ rq' # None /\ rq'.word = ar)
        /\ aw # None => aw' = aw \/ (aw' = None /\ awq' = aw)
        /\ w  # None => w' = w \/ (w' = None /\ awq # None /\ awq' = None)]_vars

\* The load of A and the store of M wait for each other and both finish.
AccessCompletes ==
  /\ RDEN ~> (~RDEN \/ (sr = "FINISH" /\ (WREN => sw = "FINISH")))
  /\ WREN ~> (~WREN \/ (sw = "FINISH" /\ (RDEN => sr = "FINISH")))

\* The abstract port: an M-stage load sees RDDATA, the memory is the retired one.
Port == INSTANCE MemPort
          WITH mem <- amem, val <- IF m.op = "load" THEN rddata ELSE None
PortSpec == Port!Spec
-----------------------------------------------------------------------------
\* What makes the above inductive, for a slave that takes the address of a
\* write first and makes the write visible when it takes the data.
ReadInv ==
  /\ sr # "IDLE" => RDEN
  /\ IF sr = "ADDR" THEN ar = a.word ELSE ar = None
  /\ IF sr = "WAIT" THEN rq = [word |-> a.word, data |-> mem[a.word]] ELSE rq = None
  /\ sr = "FINISH" => cache = mem[a.word]
  /\ sr # "IDLE" /\ WREN /\ SameWord => sw = "FINISH"

WriteInv ==
  /\ sw # "IDLE" => WREN
  /\ IF sw = "ADDR" THEN aw = m.word ELSE aw = None
  /\ IF sw \in {"ADDR", "WRITE"} THEN w = [strb |-> m.strb, data |-> m.data]
                                 ELSE w = None
  /\ IF sw = "WRITE" THEN awq = m.word ELSE awq = None
  /\ wq = None /\ bq = None
  /\ sw = "FINISH" => mem = Performed(amem, m)

CountInv ==
  ~held => /\ reads = (IF sr \in {"WAIT", "FINISH"} THEN 1 ELSE 0)
           /\ writes = (IF sw = "FINISH" THEN 1 ELSE 0)

ResultInv ==
  m.op = "load" /\ ~held => /\ rddata = amem[m.word]
                            /\ sr = "IDLE" => cache = amem[m.word]

IInv == /\ TypeOK
        /\ ReadInv /\ WriteInv /\ CountInv /\ ResultInv
        /\ MemFollowsProgram
=============================================================================
