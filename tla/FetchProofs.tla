---------------------------- MODULE FetchProofs ----------------------------
(***************************************************************************)
(* Proofs about FetchStage.tla, for pages, bursts and stalls of any size   *)
(* and length, and a program that never runs P_PC off the end of a page    *)
(* and has no jump, load or store in the first and the last word of one.   *)
(***************************************************************************)
EXTENDS FetchStage, TLAPS

\* An address is the pair of its page and its offset.
LEMMA AddrPair ==
  ASSUME NEW x \in Addr
  PROVE  x[1] \in Page /\ x[2] \in Offset /\ x = <<x[1], x[2]>>
BY DEF Addr

\* The address after x, in the same page unless x is its last word.
LEMMA IncAddr ==
  ASSUME NEW x \in Addr
  PROVE  /\ Inc(x) \in Addr
         /\ x[2] # PageWords - 1 => Inc(x) = <<x[1], x[2] + 1>> /\ x[2] + 1 \in Offset
<1>1. x[1] \in Page /\ x[2] \in Offset
  BY AddrPair
<1>2. NextPage[x[1]] \in Page /\ 0 \in Offset
  BY <1>1, PageAssumption, SizeAssumption DEF Offset
<1>3. x[2] # PageWords - 1 => x[2] + 1 \in Offset
  BY <1>1, SizeAssumption DEF Offset
<1> QED
  BY <1>1, <1>2, <1>3 DEF Inc, Addr

\* A burst of BurstWords words from a burst start stays in the page and ends
\* at the next start, or at the end of the page.
LEMMA BurstFits ==
  ASSUME NEW o \in BurstStart
  PROVE  /\ o \in Offset /\ NextBurst(o) \in Offset
         /\ NextBurst(o) = 0 => o + BurstWords = PageWords
         /\ NextBurst(o) # 0 => NextBurst(o) = o + BurstWords /\ NextBurst(o) \in BurstStart
<1>1. o \in 0 .. PageWords - 1 /\ PageWords \in Nat /\ BurstWords \in Nat /\ BurstWords > 0
  BY BurstAssumption, SizeAssumption
<1>2. o + BurstWords = PageWords \/ o + BurstWords \in BurstStart
  BY BurstAssumption
<1>3. BurstStart \subseteq 0 .. PageWords - 1
  BY BurstAssumption
<1> QED
  BY <1>1, <1>2, <1>3 DEF Offset, NextBurst

\* A cleared instruction word does nothing.
LEMMA ZeroIdle == Zero \notin Acts
<1>1. \A x \in Addr : x[1] # NoPage
  BY AddrPair, PageAssumption
<1> QED
  BY <1>1, ActsAssumption DEF Zero

\* The first state of the fetch satisfies the invariant.
LEMMA InitInv == Init => IInv
<1> SUFFICES ASSUME Init PROVE IInv
  OBVIOUS
<1>1. Start \in Addr /\ 0 \in Offset /\ Zero \in Word /\ Zero = <<NoPage, 0>> /\ Addr \subseteq Word
  BY StartAssumption, SizeAssumption DEF Addr, Offset, Zero, Word
<1>2. NoBurst \in [at : Word, left : 0 .. BurstWords]
  BY <1>1, SizeAssumption DEF NoBurst
<1>3. Start[1] \in Page /\ Start[1] # NoPage
  BY <1>1, AddrPair, PageAssumption
<1>4. TypeOK
  BY <1>1, <1>2 DEF Init, FetchInit, TypeOK, FetchTypeOK
<1>5. ControlInv
  BY <1>3 DEF Init, FetchInit, ControlInv, MEM_WAIT, flush, loaded
<1>9. BramInPlace /\ OnlyValidActs
  BY ZeroIdle DEF Init, FetchInit, BramInPlace, OnlyValidActs, MEM_WAIT, I_INST
<1>6. LoaderInv
  BY <1>1 DEF Init, FetchInit, LoaderInv
<1>7. OrderInv
  BY DEF Init, FetchInit, OrderInv, I_VALID
<1>8. ValidInstIsAtPC
  BY DEF Init, FetchInit, ValidInstIsAtPC, I_VALID
<1> QED
  BY <1>4, <1>5, <1>6, <1>7, <1>8, <1>9 DEF IInv

\* What a clock edge may do to P_PC: hold, or redirect, or step in its page; and
\* while the page is there nothing arrives on the bus.
LEMMA TickFacts ==
  ASSUME IInv, ~CrossPages, NEW in \in Input, Tick(in)
  PROVE  /\ ppc' \in Addr
         /\ ~pvalid => ppc' = ppc /\ ~stall(in) /\ jmp' = NoJump
         /\ ~loaded => ppc' = ppc
         /\ ~loaded /\ pvalid => jmp' = jmp /\ pvalid' /\ stall(in)
         /\ ~flush => ppc'[1] = ppc[1]
         /\ ~flush /\ pvalid /\ ~stall(in) => ppc' = Inc(ppc)
         /\ ~flush /\ stall(in) => ppc' = ppc
         /\ flush => ppc' = jmp /\ jmp' \in {jmp, NoJump}
         /\ loaded \/ ~pvalid => ar = "IDLE" /\ ~in.arready /\ ~in.rvalid
<1> USE DEF IInv, TypeOK, FetchTypeOK
<1>1. ppc \in Addr /\ ppc = <<ppc[1], ppc[2]>> /\ ppc[1] \in Page /\ ppc[2] \in Offset
  BY AddrPair
<1>2. flush => ppc' = jmp /\ jmp' \in {jmp, NoJump}
  BY NoJumpAssumption DEF Tick, FetchTick, ProgramCounter, flush, Stages, stageVars
<1>3. ~flush => ppc' = IF dexec /\ ~stall(in) THEN Inc(ppc) ELSE ppc
  BY DEF Tick, FetchTick, ProgramCounter
<1>4. ~pvalid => ~dexec /\ ~flush /\ ~stall(in) /\ ~aacts
  BY DEF ControlInv, Tick, stall, MEM_WAIT
<1>5. ~pvalid => ppc' = ppc /\ ~stall(in) /\ jmp' = NoJump
  BY <1>3, <1>4 DEF Tick, Stages, flush
<1>6. ~loaded /\ pvalid => stall(in) /\ (flush => jmp = ppc)
  BY DEF stall, MEM_WAIT, ControlInv, flush
<1>7. ~loaded => ppc' = ppc
  BY <1>2, <1>3, <1>4, <1>6
<1>8. ~loaded /\ pvalid => jmp' = jmp /\ pvalid'
  BY <1>6 DEF Tick, Stages, stageVars, FetchTick, ProgramCounter, ControlInv
<1>9. ~flush => ppc' \in Addr /\ ppc'[1] = ppc[1]
  <2>1. ~flush /\ ppc' # ppc => ppc[2] # PageWords - 1
    BY DEF Tick
  <2> QED
    BY <1>1, <1>3, <2>1, IncAddr
<1>10. flush => ppc' \in Addr
  BY <1>2 DEF flush
<1>11. loaded \/ ~pvalid => ar = "IDLE" /\ burst = NoBurst /\ ~arvalid
  BY DEF ControlInv, MEM_WAIT, LoaderInv
<1>12. loaded \/ ~pvalid => ~in.arready /\ ~in.rvalid
  BY <1>11 DEF Tick, FetchTick, InstSlave
<1>13. pvalid = dexec
  BY DEF ControlInv
<1> QED
  BY <1>2, <1>3, <1>5, <1>6, <1>7, <1>8, <1>9, <1>10, <1>11, <1>12, <1>13

\* The loader: a burst is asked for, taken and received word by word, each word
\* goes to its offset, and the last word of the last burst completes the page.
LEMMA LoaderStep ==
  ASSUME IInv, ~CrossPages, NEW in \in Input, Tick(in)
  PROVE  /\ LoaderInv'
         /\ araddr' \in Word /\ waddr' \in Offset
         /\ burst' \in [at : Word, left : 0 .. BurstWords]
         /\ bram' \in [Offset -> Word] /\ tag' \in Page \cup {NoPage}
         /\ ar' # "IDLE" => MEM_WAIT' 
<1> USE DEF IInv, TypeOK, FetchTypeOK
<1>1. /\ ppc \in Addr /\ ppc[1] \in Page /\ ppc[1] # NoPage
      /\ PageWords \in Nat /\ PageWords > 0 /\ BurstWords \in Nat /\ BurstWords > 0
      /\ Addr \subseteq Word /\ 0 \in Offset /\ 0 \in BurstStart
  BY AddrPair, PageAssumption, SizeAssumption, BurstAssumption DEF Offset, Word
<1>2. InstSlave(in.arready, in.rvalid) /\ LoaderAR(in.arready, in.rvalid)
      /\ LoaderR(in.arready, in.rvalid) /\ Bram(stall(in), in.rvalid) /\ PageTag(in.rvalid)
  BY DEF Tick, FetchTick
<1>3. NoBurst \in [at : Word, left : 0 .. BurstWords]
  BY <1>1 DEF NoBurst, Zero, Word
<1>4. CASE ar = "IDLE"
  <2>1. araddr[2] = 0 /\ rd = "IDLE" /\ burst = NoBurst /\ ~arvalid
    BY <1>4 DEF LoaderInv
  <2>2. ~in.arready /\ ~in.rvalid
    BY <1>2, <2>1 DEF InstSlave
  <2>3. burst' = burst /\ bram' = bram /\ tag' = tag /\ rd' = "IDLE"
    BY <1>2, <1>4, <2>1, <2>2 DEF InstSlave, Bram, PageTag, LoaderR
  <2>4. CASE MEM_WAIT
    <3>1. ar' = "ADDR" /\ araddr' = <<ppc[1], 0>> /\ arvalid' = TRUE /\ waddr' = 0
      BY <1>2, <1>4, <2>1, <2>4 DEF LoaderAR, BurstTaken, LoaderR, ArNext
    <3>2. ppc' = ppc /\ pvalid' /\ tag' = tag
      BY <2>3, <2>4, TickFacts DEF MEM_WAIT
    <3>3. araddr' \in Addr /\ araddr'[1] = ppc'[1] /\ araddr'[2] = 0
      BY <1>1, <3>1, <3>2 DEF Addr
    <3>4. MEM_WAIT'
      BY <2>4, <3>2 DEF MEM_WAIT, loaded
    <3>5. WordsBelow(waddr)'
      BY <3>1 DEF WordsBelow, Offset
    <3> QED
      BY <1>1, <2>1, <2>3, <3>1, <3>3, <3>4, <3>5 DEF LoaderInv
  <2>5. CASE ~MEM_WAIT
    <3>1. ar' = "IDLE" /\ araddr' = araddr /\ arvalid' = FALSE /\ waddr' = waddr
      BY <1>2, <1>4, <2>1, <2>2, <2>5 DEF LoaderAR, BurstTaken, LoaderR, ArNext
    <3> QED
      BY <1>4, <2>1, <2>3, <3>1 DEF LoaderInv
  <2> QED
    BY <2>4, <2>5
<1>5. CASE ar = "ADDR"
  <2>1. /\ arvalid /\ burst = NoBurst /\ waddr = araddr[2] /\ araddr[2] \in BurstStart
        /\ araddr[1] = ppc[1] /\ WordsBelow(waddr) /\ MEM_WAIT
    BY <1>5 DEF LoaderInv, ControlInv
  <2>2. ~in.rvalid
    BY <1>2, <2>1 DEF InstSlave
  <2>3. bram' = bram /\ tag' = tag /\ rd' = "READ"
    BY <1>2, <1>5, <2>2 DEF Bram, PageTag, LoaderR
  <2>4. ppc' = ppc /\ MEM_WAIT' /\ WordsBelow(waddr)'  = WordsBelow(waddr')
    BY <2>1, <2>3, TickFacts DEF MEM_WAIT, loaded, WordsBelow
  <2>5. CASE in.arready
    <3>1. /\ ar' = "WAIT" /\ arvalid' = FALSE /\ waddr' = waddr
          /\ burst' = [at |-> araddr, left |-> BurstWords]
      BY <1>2, <1>5, <2>2, <2>5 DEF LoaderAR, BurstTaken, LoaderR, ArNext, InstSlave
    <3>2. araddr' = <<IF NextBurst(araddr[2]) = 0 THEN NextPage[araddr[1]] ELSE araddr[1],
                      NextBurst(araddr[2])>>
      BY <1>2, <1>5, <2>5 DEF LoaderAR, BurstTaken
    <3>3. /\ araddr[2] \in Offset /\ NextBurst(araddr[2]) \in Offset
          /\ NextBurst(araddr[2]) = 0 => araddr[2] + BurstWords = PageWords
          /\ NextBurst(araddr[2]) # 0 => /\ NextBurst(araddr[2]) = araddr[2] + BurstWords
                                         /\ NextBurst(araddr[2]) \in BurstStart
      BY <2>1, BurstFits
    <3>4. /\ araddr' \in Addr /\ araddr'[2] = NextBurst(araddr[2])
          /\ araddr'[2] # 0 => araddr'[1] = ppc'[1]
      BY <1>1, <2>1, <2>4, <3>2, <3>3, PageAssumption DEF Addr
    <3>5. araddr \in Addr /\ araddr = <<ppc[1], waddr>>
      BY <1>1, <2>1, <3>3, PageAssumption DEF Word, Addr, Zero
    <3>6. burst'.at = <<ppc'[1], waddr'>> /\ burst'.left = BurstWords /\ burst' # NoBurst
      BY <1>1, <2>4, <3>1, <3>5 DEF NoBurst
    <3>7. WordsBelow(waddr)'
      BY <2>1, <2>3, <2>4, <3>1 DEF WordsBelow
    <3>8. LoaderInv'
      BY <1>1, <2>1, <2>3, <3>1, <3>3, <3>4, <3>6, <3>7 DEF LoaderInv
    <3> QED
      BY <1>1, <2>3, <2>4, <3>1, <3>4, <3>5, <3>8
  <2>6. CASE ~in.arready
    <3>1. /\ ar' = "ADDR" /\ araddr' = araddr /\ arvalid' = TRUE /\ waddr' = araddr[2]
          /\ burst' = burst
      BY <1>2, <1>5, <2>2, <2>6 DEF LoaderAR, BurstTaken, LoaderR, ArNext, InstSlave
    <3>2. WordsBelow(waddr)'
      BY <2>1, <2>3, <2>4, <3>1 DEF WordsBelow
    <3> QED
      BY <2>1, <2>3, <2>4, <3>1, <3>2 DEF LoaderInv
  <2> QED
    BY <2>5, <2>6
<1>6. CASE ar = "WAIT"
  <2>1. /\ ~arvalid /\ rd = "READ" /\ burst # NoBurst /\ MEM_WAIT /\ WordsBelow(waddr)
        /\ burst.left > 0 /\ burst.at = <<ppc[1], waddr>>
        /\ waddr + burst.left = (IF araddr[2] = 0 THEN PageWords ELSE araddr[2])
        /\ araddr[2] = 0 \/ (araddr[1] = ppc[1] /\ araddr[2] \in BurstStart)
    BY <1>6 DEF LoaderInv, ControlInv
  <2>2. ~in.arready
    BY <1>2, <2>1 DEF InstSlave
  <2>3. araddr' = araddr /\ ppc' = ppc /\ pvalid'
    BY <1>2, <1>6, <2>1, TickFacts DEF LoaderAR, BurstTaken, MEM_WAIT
  <2>4. CASE ~in.rvalid
    <3>1. /\ ar' = "WAIT" /\ arvalid' = FALSE /\ waddr' = waddr /\ burst' = burst
          /\ bram' = bram /\ tag' = tag /\ rd' = "READ"
      BY <1>2, <1>6, <2>1, <2>2, <2>4
      DEF LoaderAR, BurstTaken, LoaderR, ArNext, InstSlave, Bram, PageTag
    <3>2. MEM_WAIT' /\ WordsBelow(waddr)'
      BY <2>1, <2>3, <3>1 DEF MEM_WAIT, loaded, WordsBelow
    <3> QED
      BY <2>1, <2>3, <3>1, <3>2 DEF LoaderInv
  <2>5. CASE in.rvalid
    <3>1. bram' = [bram EXCEPT ![waddr] = <<ppc[1], waddr>>] /\ <<ppc[1], waddr>> \in Word
      BY <1>1, <1>2, <2>1, <2>5 DEF Bram, MEM_WAIT, Addr, Word
    <3>2. \A o \in Offset : o < waddr + 1 => bram'[o] = <<ppc'[1], o>>
      BY <2>1, <2>3, <3>1 DEF WordsBelow, Offset
    <3>3. CASE burst.left = 1 /\ araddr[2] = 0
      <4>1. /\ ar' = "IDLE" /\ arvalid' = FALSE /\ rd' = "IDLE" /\ burst' = NoBurst
            /\ tag' = ppc[1] /\ waddr' = IncOffset(waddr)
        BY <1>2, <1>6, <2>1, <2>2, <2>5, <3>3
        DEF LoaderAR, BurstTaken, LoaderR, ArNext, InstSlave, PageTag, rlast, LastBurst
      <4>2. waddr + 1 = PageWords
        BY <2>1, <3>3
      <4>3. \A o \in Offset : bram'[o] = <<tag', o>>
        BY <1>1, <2>3, <3>2, <4>1, <4>2 DEF Offset
      <4>4. waddr' \in Offset
        BY <1>1, <4>1 DEF IncOffset, Offset
      <4> QED
        BY <1>3, <2>3, <3>1, <3>3, <4>1, <4>3, <4>4, <1>1 DEF LoaderInv
    <3>4. CASE burst.left = 1 /\ araddr[2] # 0
      <4>1. /\ ar' = "ADDR" /\ arvalid' = TRUE /\ rd' = "IDLE" /\ burst' = NoBurst
            /\ tag' = tag /\ waddr' = araddr[2]
        BY <1>2, <1>6, <2>1, <2>2, <2>5, <3>4
        DEF LoaderAR, BurstTaken, LoaderR, ArNext, InstSlave, PageTag, rlast, LastBurst
      <4>2. waddr' = waddr + 1 /\ waddr' \in Offset
        BY <2>1, <3>4, <4>1, BurstFits DEF Offset
      <4>3. WordsBelow(waddr)' /\ MEM_WAIT'
        BY <2>1, <2>3, <3>2, <4>1, <4>2 DEF WordsBelow, MEM_WAIT, loaded
      <4> QED
        BY <1>3, <2>1, <2>3, <3>1, <3>4, <4>1, <4>2, <4>3 DEF LoaderInv
    <3>5. CASE burst.left # 1
      <4>1. /\ ar' = "WAIT" /\ arvalid' = FALSE /\ rd' = "READ" /\ tag' = tag
            /\ burst' = [at |-> Inc(burst.at), left |-> burst.left - 1]
            /\ waddr' = IncOffset(waddr)
        BY <1>2, <1>6, <2>1, <2>2, <2>5, <3>5
        DEF LoaderAR, BurstTaken, LoaderR, ArNext, InstSlave, PageTag, rlast, LastBurst
      <4>2. burst.left \in 2 .. BurstWords
        BY <1>1, <2>1, <3>5
      <4>3. araddr[2] \in Offset
        BY <1>1, <2>1, BurstFits
      <4>4. waddr # PageWords - 1
        BY <1>1, <2>1, <4>2, <4>3 DEF Offset
      <4>5. waddr' = waddr + 1 /\ waddr' \in Offset
        BY <1>1, <4>1, <4>4 DEF IncOffset, Offset
      <4>6. burst.at \in Addr /\ burst.at[1] = ppc[1] /\ burst.at[2] = waddr
        BY <1>1, <2>1 DEF Addr
      <4>7. Inc(burst.at) = <<ppc[1], waddr + 1>> /\ Inc(burst.at) \in Word
        BY <1>1, <4>4, <4>6, IncAddr
      <4>8. /\ burst'.at = <<ppc'[1], waddr'>> /\ burst'.left = burst.left - 1
            /\ burst' # NoBurst /\ burst' \in [at : Word, left : 0 .. BurstWords]
        BY <1>1, <2>3, <4>1, <4>2, <4>5, <4>7 DEF NoBurst
      <4>9. waddr' + burst'.left = waddr + burst.left
        BY <4>2, <4>5, <4>8 DEF Offset
      <4>10. WordsBelow(waddr)' /\ MEM_WAIT'
        BY <2>1, <2>3, <3>2, <4>1, <4>5 DEF WordsBelow, MEM_WAIT, loaded
      <4>11. burst'.left > 0 /\ waddr' + burst'.left = (IF araddr'[2] = 0 THEN PageWords ELSE araddr'[2])
        BY <2>1, <2>3, <4>2, <4>8, <4>9
      <4>12. LoaderInv'
        BY <2>1, <2>3, <4>1, <4>8, <4>10, <4>11 DEF LoaderInv
      <4> QED
        BY <2>3, <3>1, <4>1, <4>5, <4>8, <4>10, <4>12
    <3> QED
      BY <3>3, <3>4, <3>5
  <2> QED
    BY <2>4, <2>5
<1> QED
  BY <1>4, <1>5, <1>6

\* EXEC, the valid bits and the jump in M, at a clock edge.
LEMMA ControlStep ==
  ASSUME IInv, ~CrossPages, NEW in \in Input, Tick(in)
  PROVE  /\ ControlInv'
         /\ {pvalid', dexec', hvalid', dflush', ivalid', dacts', aacts', macts'} \subseteq BOOLEAN
         /\ jmp' \in Addr \cup {NoJump}
<1> USE DEF IInv, TypeOK, FetchTypeOK
<1>1. in.exec \in BOOLEAN /\ in.dataWait \in BOOLEAN
  BY DEF Input
<1>2. /\ ProgramCounter(in.exec, stall(in), flush, jmp) /\ Latches(stall(in), flush)
      /\ Stages(in) /\ (dexec => in.exec) /\ pvalid = dexec
  BY DEF Tick, FetchTick, ControlInv
<1>3. pvalid' = dexec' /\ pvalid' = in.exec
  <2>1. ~pvalid => ~stall(in)
    BY TickFacts
  <2> QED
    BY <1>1, <1>2, <2>1 DEF ProgramCounter
<1>4. {hvalid', dflush', ivalid', dacts', aacts', macts'} \subseteq BOOLEAN
  <2>1. hvalid' \in BOOLEAN /\ dflush' \in BOOLEAN /\ ivalid' \in BOOLEAN
    BY <1>2 DEF Latches, flush, validOut
  <2>2. dacts' \in BOOLEAN /\ aacts' \in BOOLEAN /\ macts' \in BOOLEAN
    <3>1. CASE stall(in)
      BY <1>2, <3>1 DEF Stages, stageVars
    <3>2. CASE ~stall(in) /\ flush
      BY <1>2, <3>2 DEF Stages
    <3>3. CASE ~stall(in) /\ ~flush
      <4>1. dacts' = (I_INST \in Acts) /\ aacts' = dacts /\ macts' = aacts
        BY <1>2, <3>3 DEF Stages
      <4>2. dacts' \in BOOLEAN
        BY <4>1
      <4>3. aacts' \in BOOLEAN /\ macts' \in BOOLEAN
        BY <4>1
      <4> QED
        BY <4>2, <4>3
    <3> QED
      BY <3>1, <3>2, <3>3
  <2> QED
    BY <2>1, <2>2
<1>5. jmp' \in Addr \cup {NoJump}
  BY <1>2 DEF Stages, stageVars
<1>6. ~pvalid' => ~(hvalid' \/ ivalid') /\ ~flush' /\ tag' = NoPage /\ waddr' = 0
  <2> SUFFICES ASSUME ~pvalid'
               PROVE  ~(hvalid' \/ ivalid') /\ ~flush' /\ tag' = NoPage /\ waddr' = 0
    OBVIOUS
  <2>1. ~pvalid /\ ~(hvalid \/ ivalid) /\ ~flush /\ ~stall(in) /\ tag = NoPage /\ waddr = 0
    BY <1>2, <1>3, TickFacts DEF ControlInv
  <2>2. ~hvalid' /\ ~ivalid'
    BY <1>2, <2>1 DEF Latches, validOut
  <2>3. jmp' = NoJump
    BY <2>1, TickFacts
  <2>4. ar = "IDLE" /\ ~MEM_WAIT /\ ~in.rvalid
    BY <2>1, TickFacts DEF MEM_WAIT
  <2>5. tag' = NoPage /\ waddr' = 0
    BY <2>1, <2>4 DEF Tick, FetchTick, PageTag, LoaderR, ArNext
  <2> QED
    BY <2>2, <2>3, <2>5 DEF flush
<1>11. ~hvalid' /\ ~flush' => ~(dacts' \/ aacts' \/ macts')
  <2> SUFFICES ASSUME ~hvalid', ~flush' PROVE ~(dacts' \/ aacts' \/ macts')
    OBVIOUS
  <2>1. CASE stall(in)
    BY <1>2, <2>1 DEF Latches, Stages, stageVars, flush, ControlInv
  <2>2. CASE ~stall(in) /\ flush
    BY <1>2, <2>2 DEF Stages
  <2>3. CASE ~stall(in) /\ ~flush
    <3>1. ~pvalid /\ ~hvalid /\ ~ivalid /\ ~MEM_WAIT
      BY <1>2, <2>3 DEF Latches, ControlInv, MEM_WAIT
    <3>2. ~dacts /\ ~aacts
      BY <2>3, <3>1 DEF ControlInv
    <3>3. I_INST \notin Acts
      BY <3>1 DEF OnlyValidActs, I_VALID
    <3>4. dacts' = (I_INST \in Acts) /\ aacts' = dacts /\ macts' = aacts
      BY <1>2, <2>3 DEF Stages
    <3>5. ~dacts'
      BY <3>3, <3>4
    <3>6. ~aacts' /\ ~macts'
      BY <3>2, <3>4
    <3> QED
      BY <3>5, <3>6
  <2> QED
    BY <2>1, <2>2, <2>3
<1>7. ~loaded' => jmp' \in {NoJump, ppc'}
  <2> SUFFICES ASSUME ~loaded' PROVE jmp' \in {NoJump, ppc'}
    OBVIOUS
  <2>1. CASE flush
    BY <2>1, TickFacts
  <2>2. CASE ~flush /\ loaded
    <3>1. tag' = tag
      BY <2>2, TickFacts DEF Tick, FetchTick, PageTag
    <3>2. loaded'
      BY <2>2, <3>1, TickFacts DEF loaded
    <3> QED
      BY <3>2
  <2>3. CASE ~flush /\ ~loaded
    BY <2>3, TickFacts DEF flush
  <2> QED
    BY <2>1, <2>2, <2>3
<1>8. ar' # "IDLE" => MEM_WAIT'
  BY LoaderStep
<1>9. ControlInv'
  BY <1>3, <1>6, <1>7, <1>8, <1>11 DEF ControlInv
<1>10. dexec' \in BOOLEAN
  BY <1>1, <1>3
<1> QED
  BY <1>3, <1>4, <1>5, <1>9, <1>10

\* The word that leaves the BRAM without being valid: before EXEC the first one of
\* a page, when the page has been loaded its last one.
LEMMA StaleStep ==
  ASSUME IInv, ~CrossPages, HarmlessEnds, NEW in \in Input, Tick(in)
  PROVE  BramInPlace' /\ OnlyValidActs'
<1> USE DEF IInv, TypeOK, FetchTypeOK
<1>1. /\ Latches(stall(in), flush) /\ Bram(stall(in), in.rvalid) /\ PageTag(in.rvalid)
      /\ InstSlave(in.arready, in.rvalid) /\ (in.dataWait => aacts \/ macts)
  BY DEF Tick, FetchTick
<1>2. ppc[1] \in Page /\ ppc[1] # NoPage /\ 0 \in Offset
  BY AddrPair, PageAssumption, SizeAssumption DEF Offset
<1>3. in.rvalid => /\ ~loaded /\ pvalid /\ burst.at = <<ppc[1], waddr>> /\ burst.left > 0
                   /\ waddr + burst.left = (IF araddr[2] = 0 THEN PageWords ELSE araddr[2])
  BY <1>1 DEF InstSlave, LoaderInv, ControlInv, MEM_WAIT
<1>4. BramInPlace'
  <2>1. CASE in.rvalid
    <3>1. bram' = [bram EXCEPT ![waddr] = <<ppc[1], waddr>>]
      BY <1>1, <1>3, <2>1 DEF Bram
    <3> QED
      BY <3>1 DEF BramInPlace
  <2>2. CASE ~in.rvalid
    BY <1>1, <2>2 DEF Bram, BramInPlace
  <2> QED
    BY <2>1, <2>2
<1>5. OnlyValidActs'
  <2> SUFFICES ASSUME ~MEM_WAIT', ~dflush', dout' \in Acts PROVE I_VALID'
    BY ZeroIdle DEF OnlyValidActs, I_INST
  <2>1. ~flush
    BY <1>1 DEF Latches
  <2>2. CASE in.rvalid
    <3>1. ppc' = ppc /\ pvalid' /\ dout' = <<ppc[1], waddr>>
      BY <1>1, <1>3, <2>2, TickFacts DEF Bram
    <3>2. rlast /\ LastBurst
      BY <1>1, <1>3, <2>2, <3>1 DEF PageTag, MEM_WAIT, loaded
    <3>3. waddr = PageWords - 1
      BY <1>3, <2>2, <3>2, SizeAssumption DEF rlast, LastBurst, Offset
    <3> QED
      BY <3>1, <3>3 DEF HarmlessEnds
  <2>3. CASE ~in.rvalid /\ loaded
    <3>1. pvalid /\ ~MEM_WAIT
      BY <1>2, <2>3 DEF ControlInv, loaded, MEM_WAIT
    <3>2. stall(in) => hvalid
      BY <1>1, <2>1, <3>1 DEF stall, ControlInv
    <3>3. ivalid' = validOut(stall(in))
      BY <1>1, <2>3 DEF Latches, validOut
    <3> QED
      BY <3>1, <3>2, <3>3 DEF validOut, I_VALID
  <2>4. CASE ~in.rvalid /\ ~loaded /\ pvalid
    <3>1. ppc' = ppc /\ pvalid' /\ tag' = tag
      BY <1>1, <2>4, TickFacts DEF PageTag
    <3> QED
      BY <2>4, <3>1 DEF MEM_WAIT, loaded
  <2>5. CASE ~in.rvalid /\ ~loaded /\ ~pvalid
    <3>1. dout' = bram[0]
      BY <1>1, <2>5 DEF Bram, ControlInv
    <3> QED
      BY <1>2, <3>1, ZeroIdle DEF BramInPlace, HarmlessEnds
  <2> QED
    BY <2>2, <2>3, <2>4, <2>5
<1> QED
  BY <1>4, <1>5

\* While nothing redirects P_PC, the decoder is handed the words one by one.
LEMMA OrderStep ==
  ASSUME IInv, ~CrossPages, NEW in \in Input, Tick(in)
  PROVE  /\ OrderInv' /\ ValidInstIsAtPC'
         /\ hpc' \in Word /\ ipc' \in Word /\ dout' \in Word /\ expect' \in Addr
<1> USE DEF IInv, TypeOK, FetchTypeOK
<1>1. /\ ProgramCounter(in.exec, stall(in), flush, jmp) /\ Latches(stall(in), flush)
      /\ Bram(stall(in), in.rvalid) /\ Observe(in)
  BY DEF Tick, FetchTick
<1>2. ppc \in Addr /\ Addr \subseteq Word /\ Zero \in Word /\ ppc[2] \in Offset
      /\ ppc = <<ppc[1], ppc[2]>> /\ ppc[1] # NoPage
  BY AddrPair, PageAssumption DEF Word
<1>3. hpc' \in Word /\ ipc' \in Word
  BY <1>1, <1>2 DEF Latches, pcOut
<1>4. hvalid /\ ~flush => hpc \in Addr /\ hpc = <<ppc[1], hpc[2]>> /\ hpc[2] \in Offset
  <2> SUFFICES ASSUME hvalid, ~flush
               PROVE  hpc \in Addr /\ hpc = <<ppc[1], hpc[2]>> /\ hpc[2] \in Offset
    OBVIOUS
  <2>1. hpc[1] = ppc[1]
    BY DEF OrderInv
  <2>2. hpc # <<NoPage, 0>>
    BY <1>2, <2>1
  <2>3. hpc \in Addr
    BY <2>2 DEF Word, Zero
  <2> QED
    BY <2>1, <2>3, AddrPair
<1>5. loaded => /\ bram' = bram /\ tag' = tag
                /\ \A o \in Offset : bram[o] = <<ppc[1], o>>
                /\ dout' = bram[pcOut(stall(in))[2]]
  BY <1>1, <1>2, TickFacts DEF Tick, FetchTick, PageTag, Bram, LoaderInv, loaded
<1>6. dout' \in Word
  <2>1. pcOut(stall(in))[2] \in Offset
    <3>1. \A x \in Word : x[2] \in Offset
      <4>1. \A x \in Addr : x[2] \in Offset
        BY AddrPair
      <4>2. 0 \in Offset
        BY SizeAssumption DEF Offset
      <4> QED
        BY <4>1, <4>2 DEF Word, Zero
    <3> QED
      BY <1>2, <3>1 DEF pcOut
  <2>2. in.rvalid => burst.at \in Word
    OBVIOUS
  <2> QED
    BY <1>1, <2>1, <2>2 DEF Bram
<1>7. expect' \in Addr
  <2>1. flush => jmp \in Addr
    BY DEF flush
  <2>2. ~flush /\ I_VALID => Inc(I_PC) \in Addr
    BY <1>2, <1>4 DEF OrderInv, I_PC
  <2> QED
    BY <1>1, <2>1, <2>2 DEF Observe
<1>8. ValidInstIsAtPC'
  <2> SUFFICES ASSUME ~dflush', ivalid' PROVE dout' = ipc'
    BY DEF ValidInstIsAtPC, I_VALID, I_INST, I_PC
  <2>1. ~flush /\ loaded /\ validOut(stall(in)) /\ ipc' = pcOut(stall(in))
    BY <1>1 DEF Latches
  <2>2. CASE stall(in)
    BY <1>4, <1>5, <2>1, <2>2 DEF pcOut, validOut
  <2>3. CASE ~stall(in)
    BY <1>2, <1>5, <2>1, <2>3 DEF pcOut
  <2> QED
    BY <2>2, <2>3
<1>9. OrderInv'
  <2> SUFFICES ASSUME ~flush'
               PROVE  /\ I_VALID' = hvalid'
                      /\ hvalid' => /\ loaded' /\ hpc'[1] = ppc'[1]
                                    /\ ppc' = Inc(hpc') /\ ipc' = hpc'
                      /\ expect' = IF hvalid' THEN hpc' ELSE ppc'
    BY DEF OrderInv, Inc
  <2>1. CASE stall(in)
    <3>1. ~flush
      BY <2>1 DEF Tick, Stages, stageVars, flush
    <3>2. /\ hpc' = hpc /\ hvalid' = hvalid /\ dflush' = FALSE
          /\ ipc' = hpc /\ ivalid' = (hvalid /\ loaded)
      BY <1>1, <2>1, <3>1 DEF Latches, pcOut, validOut
    <3>3. ppc' = ppc /\ expect' = expect
      BY <1>1, <2>1, <3>1, TickFacts DEF Observe
    <3>4. /\ hvalid => loaded /\ hpc[1] = ppc[1] /\ ppc = Inc(hpc)
          /\ expect = IF hvalid THEN hpc ELSE ppc
      BY <3>1 DEF OrderInv
    <3>5. hvalid => loaded'
      BY <1>5, <3>3, <3>4 DEF loaded
    <3>6. I_VALID' = hvalid'
      BY <3>2, <3>4 DEF I_VALID
    <3> QED
      BY <3>2, <3>3, <3>4, <3>5, <3>6
  <2>2. CASE ~stall(in) /\ flush
    <3>1. hvalid' = FALSE /\ dflush' = TRUE
      BY <1>1, <2>2 DEF Latches
    <3>2. ppc' = jmp /\ expect' = jmp
      BY <1>1, <2>2, TickFacts DEF Observe
    <3> QED
      BY <3>1, <3>2 DEF I_VALID
  <2>3. CASE ~stall(in) /\ ~flush
    <3>1. /\ hpc' = ppc /\ hvalid' = pvalid /\ dflush' = FALSE
          /\ ipc' = ppc /\ ivalid' = (pvalid /\ loaded)
      BY <1>1, <2>3 DEF Latches, pcOut, validOut
    <3>2. pvalid => loaded
      BY <2>3 DEF stall, MEM_WAIT
    <3>3. /\ I_VALID = hvalid /\ (hvalid => ppc = Inc(hpc) /\ ipc = hpc)
          /\ expect = IF hvalid THEN hpc ELSE ppc
      BY <2>3 DEF OrderInv
    <3>4. expect' = ppc
      BY <1>1, <2>3, <3>3 DEF Observe, I_PC
    <3>5. pvalid => ppc' = Inc(ppc) /\ ppc'[1] = ppc[1] /\ loaded'
      BY <1>5, <2>3, <3>2, TickFacts DEF loaded
    <3>6. ~pvalid => ppc' = ppc
      BY TickFacts
    <3>7. I_VALID' = hvalid'
      BY <3>1, <3>2 DEF I_VALID
    <3> QED
      BY <3>1, <3>4, <3>5, <3>6, <3>7
  <2> QED
    BY <2>1, <2>2, <2>3
<1> QED
  BY <1>3, <1>6, <1>7, <1>8, <1>9

\* A reset restores the invariant, whatever page the loader was in.
LEMMA ResetInv == IInv /\ Reset => IInv'
<1> SUFFICES ASSUME IInv, Reset PROVE IInv'
  OBVIOUS
<1>1. Start \in Addr /\ 0 \in Offset /\ Zero \in Word /\ Zero = <<NoPage, 0>> /\ Addr \subseteq Word
  BY StartAssumption, SizeAssumption DEF Addr, Offset, Zero, Word
<1>2. NoBurst \in [at : Word, left : 0 .. BurstWords]
  BY <1>1, SizeAssumption DEF NoBurst
<1>3. Start[1] \in Page /\ Start[1] # NoPage
  BY <1>1, AddrPair, PageAssumption
<1>4. TypeOK'
  BY <1>1, <1>2 DEF Reset, FetchReset, IInv, TypeOK, FetchTypeOK
<1>5. ControlInv'
  BY <1>3 DEF Reset, FetchReset, ControlInv, MEM_WAIT, flush, loaded
<1>9. BramInPlace' /\ OnlyValidActs'
  BY ZeroIdle DEF Reset, FetchReset, IInv, BramInPlace, OnlyValidActs, MEM_WAIT, I_INST
<1>6. LoaderInv'
  BY <1>1 DEF Reset, FetchReset, LoaderInv
<1>7. OrderInv'
  BY DEF Reset, FetchReset, OrderInv, I_VALID
<1>8. ValidInstIsAtPC'
  BY DEF Reset, FetchReset, ValidInstIsAtPC, I_VALID
<1> QED
  BY <1>4, <1>5, <1>6, <1>7, <1>8, <1>9 DEF IInv

\* The invariant is inductive.
LEMMA NextInv == ~CrossPages /\ HarmlessEnds /\ IInv /\ [Next]_vars => IInv'
<1> SUFFICES ASSUME ~CrossPages, HarmlessEnds, IInv, [Next]_vars PROVE IInv'
  OBVIOUS
<1>1. CASE Reset
  BY <1>1, ResetInv
<1>2. ASSUME NEW in \in Input, Tick(in) PROVE IInv'
  <2>1. /\ araddr' \in Word /\ waddr' \in Offset
        /\ burst' \in [at : Word, left : 0 .. BurstWords]
        /\ bram' \in [Offset -> Word] /\ tag' \in Page \cup {NoPage}
        /\ LoaderInv'
    BY <1>2, LoaderStep
  <2>2. /\ {pvalid', dexec', hvalid', dflush', ivalid', dacts', aacts', macts'} \subseteq BOOLEAN
        /\ jmp' \in Addr \cup {NoJump} /\ ControlInv'
    BY <1>2, ControlStep
  <2>3. /\ hpc' \in Word /\ ipc' \in Word /\ dout' \in Word /\ expect' \in Addr
        /\ OrderInv' /\ ValidInstIsAtPC'
    BY <1>2, OrderStep
  <2>7. BramInPlace' /\ OnlyValidActs'
    BY <1>2, StaleStep
  <2>4. ppc' \in Addr
    BY <1>2, TickFacts
  <2>5. ar' \in {"IDLE", "ADDR", "WAIT"} /\ rd' \in {"IDLE", "READ"} /\ arvalid' \in BOOLEAN
    BY <1>2 DEF Tick, FetchTick, LoaderAR, BurstTaken, LoaderR, ArNext, IInv, TypeOK, FetchTypeOK
  <2>6. TypeOK'
    BY <2>1, <2>2, <2>3, <2>4, <2>5 DEF TypeOK, FetchTypeOK
  <2> QED
    BY <2>1, <2>2, <2>3, <2>6, <2>7 DEF IInv
<1>3. CASE UNCHANGED vars
  BY <1>3 DEF vars, fetchVars, pcVars, latchVars, bramVars, busVars, stageVars, IInv,
     TypeOK, FetchTypeOK, ControlInv, LoaderInv, WordsBelow, OrderInv, ValidInstIsAtPC,
     BramInPlace, OnlyValidActs, MEM_WAIT, loaded, flush, I_VALID, I_INST, I_PC
<1> QED
  BY <1>1, <1>2, <1>3 DEF Next

\* The invariant holds of every behaviour of a program that stays in its pages.
LEMMA Invariance == ~CrossPages /\ HarmlessEnds /\ Spec => []IInv
<1> SUFFICES ASSUME ~CrossPages, HarmlessEnds PROVE Spec => []IInv
  OBVIOUS
<1>1. IInv /\ [Next]_vars => IInv'
  BY NextInv
<1> QED
  BY <1>1, InitInv, PTL DEF Spec

\* Type correctness: addresses are pairs of a known page and an offset, offsets
\* stay in the page, the loader and the slave are in one of their states.
THEOREM FetchTypeCorrect == ~CrossPages /\ HarmlessEnds /\ Spec => []TypeOK
<1>1. IInv => TypeOK
  BY DEF IInv
<1> QED
  BY <1>1, Invariance, PTL

\* loaded_page_addr never vouches for a page that is not in the BRAM, whatever
\* number of bursts the page takes and wherever resets and stalls fall.
THEOREM FetchCoherent == ~CrossPages /\ HarmlessEnds /\ Spec => []PageCoherent
<1>1. IInv => PageCoherent
  <2> SUFFICES ASSUME IInv, loaded PROVE \A o \in Offset : bram[o] = <<ppc[1], o>>
    BY DEF PageCoherent
  <2>1. ar = "IDLE"
    BY DEF IInv, ControlInv, MEM_WAIT
  <2>2. ppc[1] # NoPage
    BY AddrPair, PageAssumption DEF IInv, TypeOK, FetchTypeOK
  <2> QED
    BY <2>1, <2>2 DEF IInv, LoaderInv, loaded
<1> QED
  BY <1>1, Invariance, PTL

\* A valid instruction is the word at the PC it is handed over with.
THEOREM FetchMatchesPC == ~CrossPages /\ HarmlessEnds /\ Spec => []ValidInstIsAtPC
<1>1. IInv => ValidInstIsAtPC
  BY DEF IInv
<1> QED
  BY <1>1, Invariance, PTL

\* The decoder takes the program word by word, none lost and none twice.
THEOREM FetchInOrder == ~CrossPages /\ HarmlessEnds /\ Spec => []InOrder
<1>1. IInv => InOrder
  BY DEF IInv, OrderInv, InOrder, I_PC
<1> QED
  BY <1>1, Invariance, PTL

\* Each beat of a burst finds the loader waiting for it.
THEOREM FetchLosesNoBeat == ~CrossPages /\ HarmlessEnds /\ Spec => []BeatsGoHome
<1>1. IInv => BeatsGoHome
  <2> SUFFICES ASSUME IInv, burst # NoBurst
               PROVE  MEM_WAIT /\ rd = "READ" /\ burst.at = <<ppc[1], waddr>>
    BY DEF BeatsGoHome
  <2>1. ar = "WAIT"
    BY DEF IInv, TypeOK, FetchTypeOK, LoaderInv
  <2> QED
    BY <2>1 DEF IInv, LoaderInv, ControlInv
<1> QED
  BY <1>1, Invariance, PTL

\* A word that is not valid never reaches the decoder as a jump, load or store.
THEOREM FetchOnlyValidActs == ~CrossPages /\ HarmlessEnds /\ Spec => []OnlyValidActs
<1>1. IInv => OnlyValidActs
  BY DEF IInv
<1> QED
  BY <1>1, Invariance, PTL

\* ARVALID and ARADDR wait for the slave, through stalls and page misses.
THEOREM FetchHoldsRequest == ~CrossPages /\ HarmlessEnds /\ Spec => BurstRequestHeld
<1> SUFFICES ASSUME ~CrossPages, HarmlessEnds PROVE Spec => BurstRequestHeld
  OBVIOUS
<1>1. IInv /\ [Next]_vars => [RequestHeld]_vars
  <2> SUFFICES ASSUME IInv, Next PROVE RequestHeld
    OBVIOUS
  <2>1. CASE Reset
    BY <2>1 DEF RequestHeld
  <2>2. ASSUME NEW in \in Input, Tick(in), arvalid PROVE RequestHeld
    <3>1. /\ ar = "ADDR" /\ burst = NoBurst
          /\ LoaderAR(in.arready, in.rvalid) /\ InstSlave(in.arready, in.rvalid)
      BY <2>2 DEF IInv, TypeOK, FetchTypeOK, LoaderInv, Tick, FetchTick
    <3>2. CASE in.arready
      BY <3>1, <3>2 DEF RequestHeld, InstSlave
    <3>3. CASE ~in.arready
      BY <3>1, <3>3 DEF RequestHeld, LoaderAR, BurstTaken, ArNext
    <3> QED
      BY <3>2, <3>3
  <2> QED
    BY <2>1, <2>2 DEF Next, RequestHeld
<1> QED
  BY <1>1, Invariance, PTL DEF Spec, BurstRequestHeld
=============================================================================
