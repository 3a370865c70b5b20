--------------------------- MODULE DataMemProofs ---------------------------
(***************************************************************************)
(* Theorems about mem/data.v as DataMem.tla models it, for every set of    *)
(* words, lanes and bytes and every behaviour of the instruction side.     *)
(***************************************************************************)
EXTENDS DataMem, TLAPS

USE IssueAssumption, SizeAssumption, NoneAssumption, ZeroAssumption, FlagAssumption

\* RST and FLUSH leave an instruction without effect on memory.
LEMMA BubbleIsOther == Bubble \in Request /\ Bubble.op = "other"
<1>1. PICK x \in Word : TRUE
  OBVIOUS
<1>2. [op |-> "other", word |-> x, strb |-> {}, data |-> Zero] \in Request
  BY <1>1 DEF Request
<1>3. \E r \in Request : r.op = "other"
  BY <1>2
<1> QED
  BY <1>3 DEF Bubble

\* A store leaves a memory: Merge yields a word.
LEMMA PerformedType ==
  ASSUME NEW mm \in [Word -> Data], NEW r \in Request
  PROVE  Performed(mm, r) \in [Word -> Data]
<1>1. Merge(mm[r.word], r) \in Data
  BY DEF Merge, Data, Request
<1> QED
  BY <1>1 DEF Performed, Request

\* Performing an instruction twice is performing it once.
LEMMA PerformedTwice ==
  ASSUME NEW mm \in [Word -> Data], NEW r \in Request
  PROVE  Performed(Performed(mm, r), r) = Performed(mm, r)
<1>1. r.word \in Word
  BY DEF Request
<1>2. Merge(Merge(mm[r.word], r), r) = Merge(mm[r.word], r)
  BY DEF Merge
<1>3. CASE r.op # "store"
  BY <1>3 DEF Performed
<1>4. CASE r.op = "store"
  <2>1. Performed(mm, r) = [mm EXCEPT ![r.word] = Merge(mm[r.word], r)]
    BY <1>4 DEF Performed
  <2>2. Performed(mm, r)[r.word] = Merge(mm[r.word], r)
    BY <2>1, <1>1
  <2>3. Performed(Performed(mm, r), r)
          = [Performed(mm, r) EXCEPT ![r.word] = Merge(Performed(mm, r)[r.word], r)]
    BY <1>4 DEF Performed
  <2> QED
    BY <2>1, <2>2, <2>3, <1>1, <1>2
<1> QED
  BY <1>3, <1>4

\* An instruction leaves every word but its own alone.
LEMMA PerformedElsewhere ==
  ASSUME NEW mm \in [Word -> Data], NEW r \in Request, NEW x \in Word,
         r.op = "store" => x # r.word
  PROVE  Performed(mm, r)[x] = mm[x]
BY DEF Performed, Request
-----------------------------------------------------------------------------
\* A clock edge leaves the registers of data.v, its slave and the observers
\* in their types, whatever the slave does.
LEMMA TickType ==
  ASSUME TypeOK,
         NEW in \in Input,
         Tick(in)
  PROVE  TypeOK'
<1> DEFINE loading == LOADING(in)
           stall == in.instWait \/ loading
<1>1. PICK rdata \in IF in.rvalid /\ rq # None THEN {rq.data, mem[rq.word]} ELSE {Zero} :
        ReadSide(in, rdata) /\ SlaveRead(in, rdata)
  BY DEF Tick
<1>2. rdata \in Data
  <2>1. CASE in.rvalid /\ rq # None
    <3>1. rq \in [word : Word, data : Data]
      BY <2>1 DEF TypeOK
    <3> QED
      BY <1>1, <2>1, <3>1 DEF TypeOK
  <2>2. CASE ~(in.rvalid /\ rq # None)
    BY <1>1, <2>2
  <2> QED
    BY <2>1, <2>2
<1>3. a' \in Request /\ m' \in Request
  BY BubbleIsOther DEF Tick, Pipeline, pipeVars, TypeOK
<1>4. sr' \in {"IDLE", "ADDR", "WAIT", "FINISH"}
  BY <1>1 DEF ReadSide, SrNext, ReadMayStart, ReadMayEnd, TypeOK
<1>5. ar' \in Word \cup {None}
  BY <1>1 DEF ReadSide, TypeOK, Request
<1>6. cache' \in Data /\ rddata' \in Data
  BY <1>1, <1>2 DEF ReadSide, TypeOK
<1>7. sw' \in {"IDLE", "ADDR", "WRITE", "FINISH"}
  BY DEF Tick, WriteSide, StoreBeat, SwNext, TypeOK
<1>8. aw' \in Word \cup {None} /\ w' \in Beat \cup {None}
  BY DEF Tick, WriteSide, StoreBeat, TypeOK, Request, Beat
<1>9. rq' \in [word : Word, data : Data] \cup {None}
  BY <1>1 DEF SlaveRead, TypeOK
<1>10. /\ awq' \in Word \cup {None} /\ wq' \in Beat \cup {None}
       /\ bq' \in {r \in Request : r.op = "store"} \cup {None}
       /\ mem' \in [Word -> Data]
  <2> DEFINE addr == IF in.awready THEN aw ELSE awq
             beat == IF in.wready THEN w ELSE wq
             full == addr # None /\ beat # None
             write == [op |-> "store", word |-> addr,
                       strb |-> beat.strb, data |-> beat.data]
  <2>1. addr \in Word \cup {None} /\ beat \in Beat \cup {None}
    BY DEF TypeOK
  <2>2. full => write \in {r \in Request : r.op = "store"}
    BY <2>1 DEF Request, Beat
  <2>3. awq' \in Word \cup {None} /\ wq' \in Beat \cup {None}
    BY <2>1 DEF Tick, SlaveWrite
  <2>4. bq' \in {r \in Request : r.op = "store"} \cup {None}
    BY <2>2 DEF Tick, SlaveWrite, TypeOK
  <2>5. mem' = mem \/ (full /\ mem' = Performed(mem, write))
                   \/ (bq # None /\ mem' = Performed(mem, bq))
    BY DEF Tick, SlaveWrite
  <2>6. mem' \in [Word -> Data]
    BY <2>2, <2>5, PerformedType DEF TypeOK
  <2> QED
    BY <2>3, <2>4, <2>6
<1>11. amem' \in [Word -> Data]
  BY PerformedType DEF Tick, Observe, TypeOK
<1>12. held' \in BOOLEAN
  BY DEF Tick, Observe
<1>13. reads' \in 0 .. MaxCount /\ writes' \in 0 .. MaxCount
  BY DEF Tick, Observe, Count, MaxCount, TypeOK
<1> QED
  BY <1>3, <1>4, <1>5, <1>6, <1>7, <1>8, <1>9, <1>10, <1>11, <1>12, <1>13 DEF TypeOK

\* RST leaves them in their types too.
LEMMA ResetType == TypeOK /\ Reset => TypeOK'
<1> SUFFICES ASSUME TypeOK, Reset PROVE TypeOK'
  OBVIOUS
<1>1. mem' \in [Word -> Data]
  <2>1. mem' = mem \/ (bq # None /\ mem' = Performed(mem, bq))
    BY DEF Reset, ResetWord
  <2> QED
    BY <2>1, PerformedType DEF TypeOK
<1>2. 0 \in 0 .. MaxCount
  BY DEF MaxCount
<1> QED
  BY <1>1, <1>2, BubbleIsOther DEF Reset, ResetWord, TypeOK

\* Every register of data.v and every queue of its slave keeps its type.
THEOREM TypeCorrect == Spec => []TypeOK
<1>1. Init => TypeOK
  <2>1. 0 \in 0 .. MaxCount
    BY DEF MaxCount
  <2> QED
    BY <2>1, BubbleIsOther DEF Init, ResetWord, TypeOK
<1>2. TypeOK /\ [Next]_vars => TypeOK'
  <2> SUFFICES ASSUME TypeOK, [Next]_vars PROVE TypeOK'
    OBVIOUS
  <2>1. CASE Reset
    BY <2>1, ResetType
  <2>2. CASE UNCHANGED vars
    BY <2>2 DEF vars, pipeVars, readVars, writeVars, slaveVars, obsVars, TypeOK
  <2>3. CASE \E in \in Input : Tick(in)
    BY <2>3, TickType
  <2> QED
    BY <2>1, <2>2, <2>3 DEF Next
<1> QED
  BY <1>1, <1>2, PTL DEF Spec
-----------------------------------------------------------------------------
\* The slave the core is built for: it takes the address of a write before its
\* data, and a read it accepts after that data sees the write.
SimpleSlave == ~EarlyData /\ ~LateCommit

\* What a clock edge amounts to when IInv holds: each handshake happens in the
\* state that waits for it, the memory changes only by the store of M, and the
\* pipeline is released exactly when both machines have finished.
LEMMA TickFacts ==
  ASSUME SimpleSlave, IInv,
         NEW in \in Input,
         Tick(in)
  PROVE  /\ in.arready => sr = "ADDR"
         /\ in.rvalid  => sr = "WAIT"
         /\ in.awready => sw = "ADDR"
         /\ in.wready  => sw = "WRITE"
         /\ mem' = IF in.wready THEN Performed(amem, m) ELSE mem
         /\ sr # "IDLE" => mem'[a.word] = mem[a.word]
         /\ LOADING(in)
              <=> ~((RDEN => sr = "FINISH") /\ (WREN => sw = "FINISH"))
<1> USE DEF IInv
<1>1. PICK rdata : ReadSide(in, rdata) /\ SlaveRead(in, rdata)
  BY DEF Tick
<1>2. (in.arready => sr = "ADDR") /\ (in.rvalid => sr = "WAIT")
  BY <1>1 DEF SlaveRead, ReadInv
<1>3. (in.awready => sw = "ADDR") /\ (in.wready => sw = "WRITE") /\ ~in.commit
  BY DEF Tick, SlaveWrite, WriteInv, SimpleSlave
<1>4. mem' = IF in.wready THEN Performed(mem, m) ELSE mem
  <2>1. CASE in.wready
    <3>1. awq = m.word /\ w = [strb |-> m.strb, data |-> m.data] /\ ~in.awready /\ WREN
      BY <1>3, <2>1 DEF WriteInv
    <3>2. awq # None /\ w # None
      BY <2>1 DEF Tick, SlaveWrite, SimpleSlave
    <3> DEFINE write == [op |-> "store", word |-> m.word, strb |-> m.strb, data |-> m.data]
    <3>3. mem' = Performed(mem, write)
      BY <2>1, <3>1, <3>2 DEF Tick, SlaveWrite, SimpleSlave
    <3>4. Performed(mem, write) = Performed(mem, m)
      BY <3>1 DEF Performed, Merge, WREN
    <3> QED
      BY <2>1, <3>3, <3>4
  <2>2. CASE ~in.wready
    <3>1. wq = None
      BY DEF WriteInv
    <3> QED
      BY <2>2, <3>1, <1>3 DEF Tick, SlaveWrite
  <2> QED
    BY <2>1, <2>2
<1>5. Performed(mem, m) = Performed(amem, m)
  BY PerformedTwice DEF MemFollowsProgram, TypeOK, Performed, WREN
<1>6. sr # "IDLE" => mem'[a.word] = mem[a.word]
  <2> SUFFICES ASSUME sr # "IDLE", in.wready PROVE Performed(mem, m)[a.word] = mem[a.word]
    BY <1>4
  <2>1. WREN => a.word # m.word
    BY <1>3 DEF ReadInv, SameWord
  <2>2. a.word \in Word
    BY DEF TypeOK, Request
  <2> QED
    BY <2>1, <2>2, PerformedElsewhere DEF WREN, TypeOK
<1>7. LOADING(in)
        <=> ~((RDEN => sr = "FINISH") /\ (WREN => sw = "FINISH"))
  <2>1. sr \in {"IDLE", "ADDR", "WAIT", "FINISH"} /\ sw \in {"IDLE", "ADDR", "WRITE", "FINISH"}
    BY DEF TypeOK
  <2>2. ASSUME RDEN
        PROVE  SrNext(in) = "IDLE" <=>
                 \/ sr = "FINISH" /\ (WREN => sw = "FINISH")
                 \/ sr = "IDLE" /\ WREN /\ SameWord /\ sw # "FINISH"
    BY <2>1, <2>2 DEF SrNext, ReadMayStart, ReadMayEnd
  <2>3. ASSUME WREN
        PROVE  SwNext(in) = "IDLE" <=> sw = "FINISH" /\ (RDEN => sr = "FINISH")
    BY <2>1, <2>3 DEF SwNext
  <2> QED
    BY <2>2, <2>3 DEF LOADING
<1> QED
  BY <1>2, <1>3, <1>4, <1>5, <1>6, <1>7

\* A clock edge preserves the invariant: one step for each conjunct.
LEMMA TickInv ==
  ASSUME SimpleSlave, IInv,
         NEW in \in Input,
         Tick(in)
  PROVE  IInv'
<1> DEFINE loading == LOADING(in)
           stall == in.instWait \/ loading
<1>1. PICK rdata \in IF in.rvalid /\ rq # None THEN {rq.data, mem[rq.word]} ELSE {Zero} :
        ReadSide(in, rdata) /\ SlaveRead(in, rdata)
  BY DEF Tick
<1>2. TypeOK'
  BY TickType DEF IInv
<1>3. /\ in.arready => sr = "ADDR"
      /\ in.rvalid  => sr = "WAIT"
      /\ in.awready => sw = "ADDR"
      /\ in.wready  => sw = "WRITE"
      /\ mem' = IF in.wready THEN Performed(amem, m) ELSE mem
      /\ sr # "IDLE" => mem'[a.word] = mem[a.word]
      /\ loading <=> ~((RDEN => sr = "FINISH") /\ (WREN => sw = "FINISH"))
  BY TickFacts
<1>4. in.rvalid => rdata = mem[a.word]
  BY <1>1, <1>3 DEF SlaveRead, ReadInv, IInv
<1>5. sr \in {"IDLE", "ADDR", "WAIT", "FINISH"} /\ sw \in {"IDLE", "ADDR", "WRITE", "FINISH"}
  BY DEF IInv, TypeOK
<1>6. a.word \in Word /\ m.word \in Word /\ None \notin Word
  BY DEF IInv, TypeOK, Request
<1>7. CASE stall
  <2>1. a' = a /\ m' = m /\ amem' = amem
    BY <1>7 DEF Tick, Pipeline, pipeVars, Observe
  <2>2. RDEN' = RDEN /\ WREN' = WREN /\ SameWord' = SameWord
    BY <2>1 DEF RDEN, WREN, SameWord
  <2>3. ReadInv'
    <3>1. sr' # "IDLE" => RDEN
      BY <1>1, <1>5 DEF ReadSide, SrNext, ReadMayStart, ReadMayEnd, IInv, ReadInv
    <3>2. IF sr' = "ADDR" THEN ar' = a.word ELSE ar' = None
      BY <1>1, <1>3, <1>5 DEF ReadSide, SrNext, ReadMayStart, ReadMayEnd, IInv, ReadInv
    <3>3. IF sr' = "WAIT" THEN rq' = [word |-> a.word, data |-> mem'[a.word]] ELSE rq' = None
      <4>1. CASE sr = "ADDR"
        BY <1>1, <1>3, <4>1 DEF ReadSide, SrNext, ReadMayStart, ReadMayEnd, SlaveRead, IInv, ReadInv
      <4>2. CASE sr = "WAIT"
        BY <1>1, <1>3, <4>2 DEF ReadSide, SrNext, ReadMayStart, ReadMayEnd, SlaveRead, IInv, ReadInv
      <4>3. CASE sr \in {"IDLE", "FINISH"}
        BY <1>1, <1>3, <4>3 DEF ReadSide, SrNext, ReadMayStart, ReadMayEnd, SlaveRead, IInv, ReadInv
      <4> QED
        BY <1>5, <4>1, <4>2, <4>3
    <3>4. sr' = "FINISH" => cache' = mem'[a.word]
      BY <1>1, <1>3, <1>4, <1>5 DEF ReadSide, SrNext, ReadMayStart, ReadMayEnd, IInv, ReadInv
    <3>5. sr' # "IDLE" /\ WREN /\ SameWord => sw' = "FINISH"
      BY <1>1, <1>3, <1>5 DEF ReadSide, SrNext, ReadMayStart, ReadMayEnd, Tick, WriteSide, StoreBeat, SwNext, IInv, ReadInv
    <3> QED
      BY <2>1, <2>2, <3>1, <3>2, <3>3, <3>4, <3>5 DEF ReadInv
  <2>4. WriteInv'
    <3>1. /\ sw' # "IDLE" => WREN
          /\ IF sw' = "ADDR" THEN aw' = m.word ELSE aw' = None
          /\ IF sw' \in {"ADDR", "WRITE"} THEN w' = [strb |-> m.strb, data |-> m.data]
                                          ELSE w' = None
      BY <1>3, <1>5 DEF Tick, WriteSide, StoreBeat, SwNext, IInv, WriteInv
    <3>2. /\ IF sw' = "WRITE" THEN awq' = m.word ELSE awq' = None
          /\ wq' = None /\ bq' = None
      BY <1>3, <1>5, <1>6 DEF Tick, WriteSide, StoreBeat, SwNext, SlaveWrite, IInv, WriteInv, SimpleSlave
    <3>3. sw' = "FINISH" => mem' = Performed(amem, m)
      BY <1>3, <1>5 DEF Tick, WriteSide, StoreBeat, SwNext, IInv, WriteInv
    <3> QED
      BY <2>1, <2>2, <3>1, <3>2, <3>3 DEF WriteInv
  <2>5. CountInv'
    <3>1. SUFFICES ASSUME ~held' PROVE
             /\ reads' = (IF sr' \in {"WAIT", "FINISH"} THEN 1 ELSE 0)
             /\ writes' = (IF sw' = "FINISH" THEN 1 ELSE 0)
      BY DEF CountInv
    <3>2. ~held /\ loading
      BY <1>7, <3>1 DEF Tick, Observe, IInv, TypeOK
    <3>3. /\ reads = (IF sr \in {"WAIT", "FINISH"} THEN 1 ELSE 0)
          /\ writes = (IF sw = "FINISH" THEN 1 ELSE 0)
      BY <3>2 DEF IInv, CountInv
    <3>4. /\ reads' = IF in.arready THEN Count(reads) ELSE reads
          /\ writes' = IF in.wready THEN Count(writes) ELSE writes
      BY <1>7 DEF Tick, Observe
    <3>5. sr = "FINISH" => sr' = "FINISH"
      BY <1>1, <1>3, <3>2 DEF ReadSide, SrNext, ReadMayStart, ReadMayEnd, IInv, ReadInv
    <3>6. sw = "FINISH" => sw' = "FINISH"
      BY <1>3, <3>2 DEF Tick, WriteSide, StoreBeat, SwNext, IInv, WriteInv
    <3>7. reads' = (IF sr' \in {"WAIT", "FINISH"} THEN 1 ELSE 0)
      BY <1>1, <1>3, <1>5, <3>3, <3>4, <3>5 DEF ReadSide, SrNext, ReadMayStart, ReadMayEnd, Count, MaxCount
    <3>8. writes' = (IF sw' = "FINISH" THEN 1 ELSE 0)
      BY <1>3, <1>5, <3>3, <3>4, <3>6 DEF Tick, WriteSide, StoreBeat, SwNext, Count, MaxCount
    <3> QED
      BY <3>7, <3>8
  <2>6. ResultInv'
    <3>1. SUFFICES ASSUME m.op = "load", ~held'
                   PROVE  rddata' = amem[m.word] /\ (sr' = "IDLE" => cache' = amem[m.word])
      BY <2>1 DEF ResultInv
    <3>2. ~held /\ loading
      BY <1>7, <3>1 DEF Tick, Observe, IInv, TypeOK
    <3>3. ~WREN /\ RDEN /\ sr # "FINISH"
      BY <3>1, <3>2, <1>3 DEF WREN
    <3>4. sr' # "IDLE"
      BY <1>1, <1>5, <3>3 DEF ReadSide, SrNext, ReadMayStart, ReadMayEnd
    <3>5. rddata' = rddata
      BY <1>1, <3>4 DEF ReadSide
    <3> QED
      BY <3>1, <3>2, <3>4, <3>5 DEF IInv, ResultInv
  <2>7. MemFollowsProgram'
    BY <1>3, <2>1, <2>2 DEF IInv, MemFollowsProgram, WriteInv
  <2> QED
    BY <1>2, <2>3, <2>4, <2>5, <2>6, <2>7 DEF IInv
<1>8. CASE ~stall
  <2>1. (RDEN => sr = "FINISH") /\ (WREN => sw = "FINISH")
    BY <1>3, <1>8
  <2>2. ~in.arready /\ ~in.rvalid /\ ~in.awready /\ ~in.wready
    BY <1>3, <2>1 DEF IInv, ReadInv, WriteInv
  <2>3. sr' = "IDLE" /\ ar' = None /\ rq' = None /\ cache' = cache /\ rddata' = cache
    <3>1. sr' = "IDLE"
      BY <1>1, <1>5, <2>1 DEF ReadSide, SrNext, ReadMayStart, ReadMayEnd, IInv, ReadInv
    <3> QED
      BY <1>1, <2>1, <2>2, <3>1 DEF ReadSide, SlaveRead, IInv, ReadInv
  <2>4. /\ sw' = "IDLE" /\ aw' = None /\ w' = None
        /\ awq' = None /\ wq' = None /\ bq' = None /\ mem' = mem
    <3>1. sw \in {"IDLE", "FINISH"} /\ (sw = "IDLE" => ~WREN)
      BY <1>5, <2>1 DEF IInv, WriteInv
    <3>2. sw' = "IDLE"
      BY <2>1, <3>1 DEF Tick, WriteSide, StoreBeat, SwNext
    <3>3. aw' = None /\ w' = None
      BY <3>1, <3>2 DEF Tick, WriteSide, StoreBeat, IInv, WriteInv
    <3>4. awq' = None /\ wq' = None /\ bq' = None
      BY <2>2, <3>1 DEF Tick, SlaveWrite, IInv, WriteInv
    <3> QED
      BY <1>3, <2>2, <3>2, <3>3, <3>4
  <2>5. amem' = mem
    BY <1>8, <2>1 DEF Tick, Observe, IInv, WriteInv, MemFollowsProgram, Performed, WREN
  <2>6. ~held' /\ reads' = 0 /\ writes' = 0
    BY <1>8 DEF Tick, Observe
  <2>7. ResultInv'
    <3>1. ASSUME (m.op = "load")' PROVE RDEN /\ m' = a
      BY <1>8, <3>1, BubbleIsOther DEF Tick, Pipeline, RDEN
    <3>2. RDEN => cache = mem[a.word]
      BY <2>1 DEF IInv, ReadInv
    <3> QED
      BY <2>3, <2>5, <3>1, <3>2 DEF ResultInv
  <2> QED
    BY <1>2, <2>3, <2>4, <2>5, <2>6, <2>7
       DEF IInv, ReadInv, WriteInv, CountInv, MemFollowsProgram
<1> QED
  BY <1>7, <1>8

\* RST leads to a state of the invariant.
LEMMA ResetInv == IInv /\ Reset => IInv'
<1> SUFFICES ASSUME IInv, Reset PROVE IInv'
  OBVIOUS
<1>1. TypeOK'
  BY ResetType DEF IInv
<1>2. m'.op # "load"
  BY BubbleIsOther DEF Reset, ResetWord
<1> QED
  BY <1>1, <1>2
     DEF Reset, ResetWord, IInv, ReadInv, WriteInv, CountInv, ResultInv, MemFollowsProgram

\* The invariant holds in every state, with a slave that is simple.
LEMMA Inductive == SimpleSlave /\ Spec => []IInv
<1> SUFFICES ASSUME SimpleSlave PROVE Spec => []IInv
  OBVIOUS
<1>1. Init => IInv
  <2> SUFFICES ASSUME Init PROVE IInv
    OBVIOUS
  <2>1. 0 \in 0 .. MaxCount
    BY DEF MaxCount
  <2>2. TypeOK
    BY <2>1, BubbleIsOther DEF Init, ResetWord, TypeOK
  <2> QED
    BY <2>2, BubbleIsOther
       DEF Init, ResetWord, IInv, ReadInv, WriteInv, CountInv, ResultInv, MemFollowsProgram
<1>2. IInv /\ [Next]_vars => IInv'
  <2> SUFFICES ASSUME IInv, [Next]_vars PROVE IInv'
    OBVIOUS
  <2>1. CASE Reset
    BY <2>1, ResetInv
  <2>2. CASE UNCHANGED vars
    BY <2>2 DEF vars, pipeVars, readVars, writeVars, slaveVars, obsVars, IInv, TypeOK,
                ReadInv, WriteInv, CountInv, ResultInv, MemFollowsProgram,
                RDEN, WREN, SameWord
  <2>3. CASE \E in \in Input : Tick(in)
    BY <2>3, TickInv
  <2> QED
    BY <2>1, <2>2, <2>3 DEF Next
<1> QED
  BY <1>1, <1>2, PTL DEF Spec
-----------------------------------------------------------------------------
\* The memory behind the bus is always the one the retired instructions leave,
\* give or take the whole of the store in M.
THEOREM MemoryCorrect == SimpleSlave /\ Spec => []MemFollowsProgram
<1>1. IInv => MemFollowsProgram
  BY DEF IInv
<1> QED
  BY <1>1, Inductive, PTL

\* A load that reached M, with nothing holding it there, reads the word the
\* stores older than it left, the one still in M when it read included.
THEOREM LoadCorrect == SimpleSlave /\ Spec => []LoadSeesOlderStores
<1>1. IInv => LoadSeesOlderStores
  BY DEF IInv, ResultInv, LoadSeesOlderStores
<1> QED
  BY <1>1, Inductive, PTL

\* Neither state machine starts over while its instruction is in its stage,
\* unless the pipeline is held after the access.
THEOREM NoReplay == SimpleSlave /\ Spec => []OneAccessPerInstruction
<1>1. IInv => OneAccessPerInstruction
  BY DEF IInv, CountInv, OneAccessPerInstruction
<1> QED
  BY <1>1, Inductive, PTL

\* No instruction leaves the A or the M stage before its access was made.
THEOREM NoSkippedAccess == SimpleSlave /\ Spec => AccessMadeBeforeMoving
<1> SUFFICES ASSUME SimpleSlave PROVE Spec => AccessMadeBeforeMoving
  OBVIOUS
<1>1. IInv /\ [Next]_vars => [MovesWhenDone]_vars
  <2> SUFFICES ASSUME IInv, Next, ~held, a' # a \/ m' # m, ~Reset
               PROVE  (RDEN => reads = 1) /\ (WREN => writes = 1)
    BY DEF MovesWhenDone
  <2>1. PICK in \in Input : Tick(in)
    BY DEF Next
  <2>2. ~LOADING(in)
    BY <2>1 DEF Tick, Pipeline, pipeVars
  <2>3. (RDEN => sr = "FINISH") /\ (WREN => sw = "FINISH")
    BY <2>1, <2>2, TickFacts
  <2> QED
    BY <2>3 DEF IInv, CountInv
<1> QED
  BY <1>1, Inductive, PTL DEF Spec, AccessMadeBeforeMoving

\* While the instruction side never stalls, data.v and its slave together are
\* the abstract memory port: one instruction at a time, in program order.
THEOREM ImplementsPort == SimpleSlave /\ ~InstStall /\ Spec => PortSpec
<1> SUFFICES ASSUME SimpleSlave, ~InstStall PROVE Spec => PortSpec
  OBVIOUS
<1>0. /\ Port!Bubble = Bubble
      /\ \A mm, r : Port!Performed(mm, r) = Performed(mm, r)
      /\ [Word -> Port!Data] = [Word -> Data]
  BY DEF Port!Bubble, Bubble, Port!Request, Request, Port!Data, Data,
         Port!Performed, Performed, Port!Merge, Merge
<1>1. Init => Port!Init
  BY <1>0, BubbleIsOther DEF Init, ResetWord, Port!Init
<1>2. IInv /\ IInv' /\ ~held /\ [Next]_vars => [Port!Next]_Port!vars /\ ~held'
  <2> SUFFICES ASSUME IInv, IInv', ~held, [Next]_vars
               PROVE  [Port!Next]_Port!vars /\ ~held'
    OBVIOUS
  <2>1. CASE UNCHANGED vars
    BY <2>1 DEF vars, pipeVars, readVars, obsVars, Port!vars
  <2>2. CASE Reset
    <3>1. amem' \in {amem, Performed(amem, m)}
      BY <2>2 DEF Reset, ResetWord, IInv, WriteInv, MemFollowsProgram
    <3> QED
      BY <1>0, <2>2, <3>1, BubbleIsOther DEF Reset, ResetWord, Port!Next, Port!Reset
  <2>3. ASSUME NEW in \in Input, Tick(in)
        PROVE  [Port!Next]_Port!vars /\ ~held'
    <3>1. ~in.instWait
      BY <2>3 DEF Tick
    <3>2. CASE LOADING(in)
      <4>1. a' = a /\ m' = m /\ amem' = amem /\ ~held'
        BY <2>3, <3>1, <3>2 DEF Tick, Pipeline, pipeVars, Observe
      <4>2. m.op = "load" => rddata' = rddata
        BY <4>1 DEF IInv, ResultInv
      <4> QED
        BY <4>1, <4>2 DEF Port!vars
    <3>3. CASE ~LOADING(in)
      <4>1. amem' = Performed(amem, m) /\ ~held'
        BY <2>3, <3>1, <3>3 DEF Tick, Observe
      <4>2. CASE FLUSH
        <5>1. a' = Bubble /\ m' = Bubble
          BY <2>3, <3>1, <3>3, <4>2 DEF Tick, Pipeline
        <5>2. \A next : Port!Advance(next)
          BY <1>0, <4>1, <4>2, <5>1, BubbleIsOther DEF Port!Advance, FLUSH
        <5> QED
          BY <4>1, <5>2 DEF Port!Next
      <4>3. CASE ~FLUSH
        <5>1. m' = a /\ a' \in Issue
          BY <2>3, <3>1, <3>3, <4>3 DEF Tick, Pipeline
        <5>2. m'.op = "load" => rddata' = amem'[m'.word]
          BY <4>1 DEF IInv, ResultInv
        <5>3. Port!Advance(a')
          BY <1>0, <4>1, <4>3, <5>1, <5>2 DEF Port!Advance, FLUSH
        <5> QED
          BY <4>1, <5>1, <5>3 DEF Port!Next
      <4> QED
        BY <4>2, <4>3
    <3> QED
      BY <3>2, <3>3
  <2> QED
    BY <2>1, <2>2, <2>3 DEF Next
<1>3. Init => ~held
  BY DEF Init, ResetWord
<1> QED
  BY <1>1, <1>2, <1>3, Inductive, PTL DEF Spec, PortSpec, Port!Spec
-----------------------------------------------------------------------------
\* What the handshakes alone need: each machine drives its channels in its own
\* states, with the access of its instruction, and the data beat of a write comes
\* behind the address.  The slave may make the write visible whenever it likes.
ChannelInv ==
  /\ sr # "IDLE" => RDEN
  /\ ar = IF sr = "ADDR" THEN a.word ELSE None
  /\ sw # "IDLE" => WREN
  /\ aw = IF sw = "ADDR" THEN m.word ELSE None
  /\ w = IF sw \in {"ADDR", "WRITE"} THEN StoreBeat ELSE None
  /\ awq = IF sw = "WRITE" THEN m.word ELSE None
  /\ wq = None

\* An address or a beat is a value.
LEMMA Payloads ==
  ASSUME TypeOK
  PROVE  a.word # None /\ m.word # None /\ StoreBeat # None
<1>1. a.word \in Word /\ m.word \in Word /\ StoreBeat \in Beat
  BY DEF TypeOK, Request, StoreBeat, Beat
<1> QED
  BY <1>1

\* A machine that is under way holds the pipeline, and its instruction with it.
LEMMA TickHolds ==
  ASSUME TypeOK, ChannelInv, NEW in \in Input, Tick(in)
  PROVE  /\ SrNext(in) # "IDLE" => a' = a /\ m' = m /\ RDEN
         /\ SwNext(in) # "IDLE" => a' = a /\ m' = m /\ WREN
<1>1. SrNext(in) # "IDLE" => RDEN
  BY DEF SrNext, ChannelInv, TypeOK
<1>2. SwNext(in) # "IDLE" => WREN
  BY DEF SwNext, ChannelInv, TypeOK
<1> QED
  BY <1>1, <1>2 DEF Tick, LOADING, Pipeline, pipeVars

\* The read side of a clock edge.
LEMMA TickRead ==
  ASSUME TypeOK, ChannelInv, NEW in \in Input, Tick(in)
  PROVE  /\ sr' # "IDLE" => RDEN'
         /\ ar' = IF sr' = "ADDR" THEN a'.word ELSE None
         /\ ar # None => ar' = ar \/ (ar' = None /\ rq' # None /\ rq'.word = ar)
<1>1. PICK rdata : ReadSide(in, rdata) /\ SlaveRead(in, rdata)
  BY DEF Tick
<1>2. sr' = SrNext(in)
  BY <1>1 DEF ReadSide
<1>3. sr' # "IDLE" => a' = a /\ RDEN
  BY <1>2, TickHolds
<1>4. in.arready => sr = "ADDR" /\ ar \in Word /\ rq' = [word |-> ar, data |-> mem[ar]]
  BY <1>1 DEF SlaveRead, ChannelInv, TypeOK
<1>5. in.arready => rq' # None /\ rq'.word = ar
  <2>1. in.arready => rq' \in [word : Word, data : Data]
    BY <1>4 DEF TypeOK
  <2> QED
    BY <1>4, <2>1
<1>6. sr = "ADDR" => ar = a.word /\ sr' = IF in.arready THEN "WAIT" ELSE "ADDR"
  BY <1>2 DEF SrNext, ChannelInv
<1>7. sr # "ADDR" => ar = None
  BY DEF ChannelInv
<1>8. ar' = IF sr' = "ADDR" THEN a.word ELSE None
  BY <1>1, <1>2, <1>6, <1>7 DEF ReadSide
<1>9. sr' # "IDLE" => RDEN'
  BY <1>3 DEF RDEN
<1>10. ar' = IF sr' = "ADDR" THEN a'.word ELSE None
  BY <1>3, <1>8
<1> QED
  BY <1>5, <1>6, <1>7, <1>8, <1>9, <1>10

\* The write side of a clock edge.
LEMMA TickWrite ==
  ASSUME ~EarlyData, TypeOK, ChannelInv, NEW in \in Input, Tick(in)
  PROVE  /\ sw' # "IDLE" => WREN'
         /\ aw' = IF sw' = "ADDR" THEN m'.word ELSE None
         /\ w' = IF sw' \in {"ADDR", "WRITE"} THEN StoreBeat' ELSE None
         /\ awq' = IF sw' = "WRITE" THEN m'.word ELSE None
         /\ wq' = None
         /\ aw # None => aw' = aw \/ (aw' = None /\ awq' = aw)
         /\ w # None => w' = w \/ (w' = None /\ awq # None /\ awq' = None)
<1>1. sw' = SwNext(in) /\ WriteSide(in) /\ SlaveWrite(in)
  BY DEF Tick, WriteSide
<1>2. sw' # "IDLE" => m' = m /\ WREN
  BY <1>1, TickHolds
<1>3. sw' # "IDLE" => WREN' /\ m'.word = m.word /\ StoreBeat' = StoreBeat
  BY <1>2 DEF WREN, StoreBeat
<1>4. in.awready => sw = "ADDR"
  BY <1>1 DEF SlaveWrite, ChannelInv
<1>5. in.wready => sw = "WRITE"
  BY <1>1 DEF SlaveWrite, ChannelInv
<1>6. CASE sw = "IDLE"
  BY <1>1, <1>3, <1>4, <1>5, <1>6 DEF WriteSide, SlaveWrite, SwNext, ChannelInv
<1>7. CASE sw = "ADDR"
  BY <1>1, <1>3, <1>4, <1>5, <1>7, Payloads DEF WriteSide, SlaveWrite, SwNext, ChannelInv
<1>8. CASE sw = "WRITE"
  BY <1>1, <1>3, <1>4, <1>5, <1>8, Payloads DEF WriteSide, SlaveWrite, SwNext, ChannelInv
<1>9. CASE sw = "FINISH"
  BY <1>1, <1>3, <1>4, <1>5, <1>9 DEF WriteSide, SlaveWrite, SwNext, ChannelInv
<1> QED
  BY <1>6, <1>7, <1>8, <1>9 DEF TypeOK

LEMMA ChannelInductive == ~EarlyData /\ Spec => []ChannelInv
<1> SUFFICES ASSUME ~EarlyData PROVE Spec => []ChannelInv
  OBVIOUS
<1>1. Init => ChannelInv
  BY DEF Init, ChannelInv
<1>2. TypeOK /\ ChannelInv /\ [Next]_vars => ChannelInv'
  <2> SUFFICES ASSUME TypeOK, ChannelInv, [Next]_vars PROVE ChannelInv'
    OBVIOUS
  <2>1. CASE Reset
    BY <2>1 DEF Reset, ChannelInv
  <2>2. CASE UNCHANGED vars
    BY <2>2 DEF vars, pipeVars, readVars, writeVars, slaveVars, ChannelInv, RDEN, WREN, StoreBeat
  <2>3. CASE \E in \in Input : Tick(in)
    BY <2>3, TickRead, TickWrite DEF ChannelInv
  <2> QED
    BY <2>1, <2>2, <2>3 DEF Next
<1> QED
  BY <1>1, <1>2, TypeCorrect, PTL DEF Spec

\* No address and no data beat is withdrawn or changed before the slave took it,
\* with any slave that takes the address of a write before its data.
THEOREM PayloadHeld == ~EarlyData /\ Spec => PayloadHeldUntilTaken
<1> SUFFICES ASSUME ~EarlyData PROVE Spec => PayloadHeldUntilTaken
  OBVIOUS
<1> DEFINE Held ==
       \/ Reset
       \/ /\ ar # None => ar' = ar \/ (ar' = None /\ rq' # None /\ rq'.word = ar)
          /\ aw # None => aw' = aw \/ (aw' = None /\ awq' = aw)
          /\ w  # None => w' = w \/ (w' = None /\ awq # None /\ awq' = None)
<1>1. TypeOK /\ ChannelInv /\ [Next]_vars => [Held]_vars
  BY TickRead, TickWrite DEF Next
<1> QED
  BY <1>1, TypeCorrect, ChannelInductive, PTL DEF Spec, PayloadHeldUntilTaken
=============================================================================
