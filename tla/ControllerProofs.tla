-------------------------- MODULE ControllerProofs --------------------------
(* Proofs about the controller, alone and under the boot program. Strengthened *)
(* by what the handshakes guarantee of each other.                             *)
EXTENDS Boot, TLAPS

\* While a write is taken or its response waits, no other is accepted; both
\* channels of a write go together.
WriteTurn ==
  /\ axi_wready = axi_awready
  /\ axi_awready => ~aw_en /\ ~axi_bvalid
  /\ axi_bvalid => ~aw_en

\* The master asks for a read when none waits, and the address the controller
\* latched is the one on the bus when it says that it takes it.
ReadTurn ==
  /\ ar # None => ~axi_rvalid
  /\ axi_arready => ar # None /\ axi_araddr = ar

\* Types but for the counts, which OneAnswerPerAccess bounds.
Typed ==
  /\ aw \in (Address \X Flag) \cup {None}
  /\ ar \in Address \cup {None}
  /\ axi_awready \in BOOLEAN /\ axi_wready \in BOOLEAN /\ aw_en \in BOOLEAN
  /\ axi_awaddr \in Address /\ axi_bvalid \in BOOLEAN
  /\ axi_arready \in BOOLEAN /\ axi_araddr \in Address /\ axi_rvalid \in BOOLEAN
  /\ axi_rdata \in RegValue \cup Flag
  /\ slv_reg0 \in Flag /\ slv_reg1 \in Flag
  /\ cache_slv_reg0 \in BOOLEAN /\ cache_slv_reg1 \in BOOLEAN
  /\ acexec \in BOOLEAN \X BOOLEAN /\ CEXEC \in BOOLEAN
  /\ REG \in RegValue /\ reg \in RegValue \X RegValue
  /\ since \in 0..MaxGap
  /\ unanswered \in [write : Int, read : Int]
  /\ answers \subseteq RegValue \cup Flag
  /\ pending \in BOOLEAN /\ edges \in 0..(StepEdges + 1)

IInv == Typed /\ WriteTurn /\ ReadTurn /\ OneAnswerPerAccess /\ ReadAnswersItsRequest

-----------------------------------------------------------------------------
LEMMA StepEdgesType == StepEdges \in Nat
  BY GapAssumption DEF StepEdges

\* What is read back is a value of a register.
LEMMA ReadDataType ==
  ASSUME Typed, NEW addr \in Address
  PROVE  ReadData(addr) \in RegValue \cup Flag
<1>1. CASE addr = "CEXEC"
  BY <1>1 DEF Typed, ReadData
<1>2. CASE addr = "REG"
  <2>1. reg[2] \in RegValue
    BY DEF Typed
  <2> QED BY <1>2, <2>1 DEF ReadData
<1>3. CASE addr # "CEXEC" /\ addr # "REG"
  BY <1>3 DEF ReadData, Flag
<1> QED BY <1>1, <1>2, <1>3

LEMMA InitIInv == Init => IInv
<1> SUFFICES ASSUME Init PROVE IInv
  OBVIOUS
<1>1. since \in 0..MaxGap /\ edges \in 0..(StepEdges + 1)
  BY GapAssumption, StepEdgesType DEF Init
<1>2. Typed
  <2>1. acexec \in BOOLEAN \X BOOLEAN /\ reg \in RegValue \X RegValue
    BY Zenon DEF Init
  <2>2. unanswered \in [write : Int, read : Int]
    BY DEF Init
  <2> QED BY <1>1, <2>1, <2>2 DEF Init, Typed, Address, Flag
<1>3. WriteTurn /\ ReadTurn /\ OneAnswerPerAccess /\ ReadAnswersItsRequest
  BY DEF Init, WriteTurn, ReadTurn, OneAnswerPerAccess, ReadAnswersItsRequest
<1> QED BY <1>2, <1>3 DEF IInv

-----------------------------------------------------------------------------
LEMMA MasterSendsIInv == IInv /\ MasterSends => IInv'
<1> SUFFICES ASSUME IInv, MasterSends PROVE IInv'
  OBVIOUS
<1> USE DEF IInv, MasterSends, writeside, readside, exec
<1>1. Typed'
  BY DEF Typed, Address, Flag
<1>2. WriteTurn'
  BY DEF WriteTurn
<1>3. ReadTurn'
  BY DEF ReadTurn, OneAnswerPerAccess
<1>4. OneAnswerPerAccess' /\ ReadAnswersItsRequest'
  BY DEF OneAnswerPerAccess, ReadAnswersItsRequest
<1> QED BY <1>1, <1>2, <1>3, <1>4

LEMMA CoreEdgeIInv == IInv /\ CoreEdge => IInv'
<1> SUFFICES ASSUME IInv, CoreEdge PROVE IInv'
  OBVIOUS
<1> USE DEF IInv, CoreEdge, master, writeside, readside, exec
<1>1. edges' \in 0..(StepEdges + 1)
  BY StepEdgesType DEF Typed
<1>2. CEXEC' \in BOOLEAN /\ pending' \in BOOLEAN
  BY DEF Typed
<1>3. since' \in 0..MaxGap
  BY GapAssumption
<1>4. Typed'
  BY <1>1, <1>2, <1>3 DEF Typed
<1>5. WriteTurn' /\ ReadTurn' /\ OneAnswerPerAccess' /\ ReadAnswersItsRequest'
  BY DEF WriteTurn, ReadTurn, OneAnswerPerAccess, ReadAnswersItsRequest
<1> QED BY <1>4, <1>5

LEMMA AxiResetIInv == IInv /\ AxiReset => IInv'
<1> SUFFICES ASSUME IInv, AxiReset PROVE IInv'
  OBVIOUS
<1> USE DEF IInv, AxiReset, ResetWrite
<1>1. acexec' \in BOOLEAN \X BOOLEAN /\ reg' \in RegValue \X RegValue
  BY DEF Typed
<1>2. since' \in 0..MaxGap /\ edges' \in 0..(StepEdges + 1)
  BY StepEdgesType, GapAssumption DEF Typed
<1>3. Typed'
  <2>1. unanswered' \in [write : Int, read : Int]
    OBVIOUS
  <2>2. REG' \in RegValue /\ CEXEC' \in BOOLEAN
    BY DEF Typed
  <2> QED BY <1>1, <1>2, <2>1, <2>2 DEF Typed, Address, Flag
<1>4. WriteTurn' /\ ReadTurn' /\ OneAnswerPerAccess' /\ ReadAnswersItsRequest'
  BY DEF WriteTurn, ReadTurn, OneAnswerPerAccess, ReadAnswersItsRequest
<1> QED BY <1>3, <1>4

-----------------------------------------------------------------------------
(* An edge of the bus clock. *)

LEMMA EdgeTyped ==
  ASSUME IInv, NEW bready \in BOOLEAN, NEW rready \in BOOLEAN, AxiEdge(bready, rready)
  PROVE  Typed'
<1> USE DEF IInv, AxiEdge
<1>1. aw' \in (Address \X Flag) \cup {None} /\ ar' \in Address \cup {None}
  BY DEF Typed, MasterAfterEdge
<1>2. /\ axi_awready' \in BOOLEAN /\ axi_wready' \in BOOLEAN /\ aw_en' \in BOOLEAN
      /\ axi_bvalid' \in BOOLEAN
  BY DEF Typed, AddressWrite, AccessReady, slv_reg_wren
<1>3. axi_awaddr' \in Address
  <2>1. CASE AccessReady
    BY <2>1 DEF AddressWrite, AccessReady, Typed
  <2>2. CASE ~AccessReady
    BY <2>2 DEF AddressWrite, Typed
  <2> QED BY <2>1, <2>2
<1>4. axi_arready' \in BOOLEAN /\ axi_rvalid' \in BOOLEAN /\ axi_araddr' \in Address
  BY DEF Typed, AddressRead
<1>5. axi_rdata' \in RegValue \cup Flag
  BY ReadDataType DEF Typed, AddressRead
<1>6. slv_reg0' \in Flag /\ slv_reg1' \in Flag
  <2>1. CASE slv_reg_wren
    <3>1. aw[2] \in Flag
      BY <2>1 DEF slv_reg_wren, Typed
    <3> QED BY <2>1, <3>1 DEF SlaveRegisters, Typed
  <2>2. CASE ~slv_reg_wren
    BY <2>2 DEF SlaveRegisters, Typed, Flag
  <2> QED BY <2>1, <2>2
<1>7. cache_slv_reg0' \in BOOLEAN /\ cache_slv_reg1' \in BOOLEAN
  BY DEF Cache, Typed
<1>8. acexec' \in BOOLEAN \X BOOLEAN /\ reg' \in RegValue \X RegValue
  BY DEF Typed
<1>9. CEXEC' \in BOOLEAN
  BY <1>7 DEF StartNow, Typed
<1>10. since' \in 0..MaxGap /\ REG' \in RegValue
  BY GapAssumption DEF Typed
<1>11. unanswered' \in [write : Int, read : Int]
  BY DEF Observe, Typed
<1>12. answers' \subseteq RegValue \cup Flag
  <2>1. CASE ar # None
    <3>1. ReadData(ar) \in RegValue \cup Flag
      BY <2>1, ReadDataType DEF Typed
    <3> QED BY <2>1, <3>1 DEF Observe, Typed
  <2>2. CASE ar = None
    BY <2>2 DEF Observe, Typed
  <2> QED BY <2>1, <2>2
<1>13. pending' \in BOOLEAN
  BY DEF Observe, Typed, Starts
<1>14. edges' \in 0..(StepEdges + 1)
  BY StepEdgesType DEF Observe, Typed
<1> QED BY <1>1, <1>2, <1>3, <1>4, <1>5, <1>6, <1>7, <1>8, <1>9, <1>10, <1>11,
           <1>12, <1>13, <1>14 DEF Typed

LEMMA EdgeIInv ==
  ASSUME IInv, NEW bready \in BOOLEAN, NEW rready \in BOOLEAN, AxiEdge(bready, rready)
  PROVE  IInv'
<1> USE DEF IInv, AxiEdge
<1>1. Typed'
  BY EdgeTyped
<1>2. WriteTurn'
  BY DEF WriteTurn, AddressWrite, AccessReady, Typed, slv_reg_wren
<1>3. ReadTurn'
  BY DEF ReadTurn, AddressRead, MasterAfterEdge, ReadTaken, Typed
<1>4. unanswered'.write = (IF axi_bvalid' THEN 1 ELSE 0)
  BY DEF OneAnswerPerAccess, Observe, WriteTurn, AddressWrite, slv_reg_wren, Typed
<1>5. unanswered'.read = (IF axi_rvalid' THEN 1 ELSE 0)
  BY DEF OneAnswerPerAccess, Observe, ReadTurn, AddressRead, ReadTaken, Typed
<1>6. axi_rvalid' => axi_rdata' \in answers'
  <2>1. CASE slv_reg_rden
    BY <2>1 DEF slv_reg_rden, AddressRead, Observe, ReadTurn
  <2>2. CASE ~slv_reg_rden
    BY <2>2 DEF slv_reg_rden, AddressRead, Observe, ReadTurn, ReadTaken,
                ReadAnswersItsRequest
  <2> QED BY <2>1, <2>2
<1> QED BY <1>1, <1>2, <1>3, <1>4, <1>5, <1>6
        DEF OneAnswerPerAccess, ReadAnswersItsRequest

LEMMA NextIInv == IInv /\ [Next]_vars => IInv'
<1> SUFFICES ASSUME IInv, [Next]_vars PROVE IInv'
  OBVIOUS
<1>1. CASE MasterSends
  BY <1>1, MasterSendsIInv
<1>2. CASE Edge
  BY <1>2, EdgeIInv DEF Edge
<1>3. CASE CoreEdge
  BY <1>3, CoreEdgeIInv
<1>4. CASE AxiReset
  BY <1>4, AxiResetIInv
<1>5. CASE UNCHANGED vars
  BY <1>5 DEF vars, master, writeside, readside, exec, history, IInv, Typed, WriteTurn,
              ReadTurn, OneAnswerPerAccess, ReadAnswersItsRequest
<1> QED BY <1>1, <1>2, <1>3, <1>4, <1>5 DEF Next

LEMMA IInvTypeOK == IInv => TypeOK
  BY DEF IInv, Typed, OneAnswerPerAccess, TypeOK

-----------------------------------------------------------------------------
\* The controller keeps its invariant.
THEOREM ControllerInvariant == Spec => []IInv
  BY InitIInv, NextIInv, PTL DEF Spec

\* Every step of the boot program is a step of the controller or of none of it:
\* what holds of the controller with any master holds with main.c and after it.
THEOREM BootImplementsController == BootSpec => Spec
<1>1. BootInit => Init
  BY DEF BootInit
<1>2. [BootNext]_bootVars => [Next]_vars
  <2> SUFFICES ASSUME [BootNext]_bootVars PROVE [Next]_vars
    OBVIOUS
  <2>1. CASE Open
    BY <2>1 DEF Open
  <2>2. CASE Read
    BY <2>2 DEF Read
  <2>3. CASE Start
    BY <2>3 DEF Start, Next, MasterSends, history, Flag
  <2>4. CASE Access
    BY <2>4 DEF Access, Next
  <2>5. CASE Circuit(Edge) \/ Circuit(CoreEdge) \/ Circuit(AxiReset)
    BY <2>5 DEF Circuit, Next
  <2>6. CASE UNCHANGED bootVars
    BY <2>6 DEF bootVars
  <2> QED BY <2>1, <2>2, <2>3, <2>4, <2>5, <2>6 DEF BootNext
<1> QED BY <1>1, <1>2, PTL DEF BootSpec, Spec

\* Every register of the controller keeps its type, for any ratio of the clocks.
THEOREM ControllerTypeCorrect == BootSpec => []TypeOK
  BY ControllerInvariant, BootImplementsController, IInvTypeOK, PTL

\* Every access taken is answered exactly once, in turn.
THEOREM ControllerAnswersOnce == BootSpec => []OneAnswerPerAccess
<1>1. IInv => OneAnswerPerAccess
  BY DEF IInv
<1> QED BY ControllerInvariant, BootImplementsController, <1>1, PTL

\* A read returns what its own register held since it was asked for.
THEOREM ControllerReadCorrect == BootSpec => []ReadAnswersItsRequest
<1>1. IInv => ReadAnswersItsRequest
  BY DEF IInv
<1> QED BY ControllerInvariant, BootImplementsController, <1>1, PTL

-----------------------------------------------------------------------------
(* How long a step lasts. A request of CEXEC1 is dropped when the controller   *)
(* has seen CEXEC high on two of its edges; the edges of the core's clock that *)
(* fall before that are paid from a budget of StepEdges, at MinGap edges of    *)
(* S_AXI_ACLK each.                                                            *)

\* Edges of S_AXI_ACLK until the request is dropped, once nothing renews it.
Until == IF ~cache_slv_reg0 /\ ~cache_slv_reg1 THEN 0
         ELSE IF acexec[2] THEN 1 ELSE IF acexec[1] THEN 2 ELSE 3

\* What has already passed of the distance to the next edge of CCLK.
Gap == IF since < MinGap THEN since ELSE MinGap

\* A write that has just been done leaves time for its request to be latched.
RequestTurn ==
  /\ slv_reg0 # 0 /\ ~cache_slv_reg0 => ~axi_awready
  /\ slv_reg1 # 0 => ~axi_awready

\* A request holds CEXEC; one that finds it high was seen before.
HeldHigh ==
  /\ cache_slv_reg0 \/ cache_slv_reg1 => CEXEC
  /\ CEXEC /\ ~acexec[1] => slv_reg1 = 0

Budget ==
  /\ slv_reg0 # 0 => edges = 0
  /\ slv_reg0 = 0 /\ slv_reg1 # 0 => edges = 0 \/ (edges = 1 /\ since = 0 /\ acexec[1])
  /\ slv_reg0 = 0 /\ slv_reg1 = 0 /\ CEXEC =>
       edges < StepEdges /\ (StepEdges - edges) * MinGap >= Until + Gap
  /\ StepIsShort

StepInv == IInv /\ RequestTurn /\ HeldHigh /\ Budget

\* The budget pays for the whole request and the edge after it.
LEMMA BudgetSuffices ==
  /\ StepEdges >= 2
  /\ StepEdges * MinGap >= 3 + MinGap
  /\ (StepEdges - 1) * MinGap >= 2
<1>1. CASE MinGap = 1
  BY <1>1 DEF StepEdges
<1>2. CASE MinGap = 2
  BY <1>2 DEF StepEdges
<1>3. CASE MinGap >= 3
  <2>1. 2 \div MinGap = 0
    BY <1>3, GapAssumption
  <2>2. StepEdges = 2
    BY <2>1 DEF StepEdges
  <2>3. 2 * MinGap >= 3 + MinGap /\ (2 - 1) * MinGap >= 2
    BY <1>3, GapAssumption
  <2> QED BY <2>2, <2>3
<1> QED BY <1>1, <1>2, <1>3, GapAssumption

\* An edge of CCLK costs MinGap.
LEMMA OneEdgeCosts ==
  ASSUME NEW e \in Nat, NEW n \in Nat, (StepEdges - e) * MinGap >= n + MinGap
  PROVE  (StepEdges - (e + 1)) * MinGap >= n /\ e + 1 <= StepEdges
<1> DEFINE r == StepEdges - e
<1>1. r \in Int /\ MinGap \in Nat /\ MinGap >= 1
  BY StepEdgesType, GapAssumption
<1>2. (r - 1) * MinGap = r * MinGap - MinGap
  BY <1>1
<1>3. r >= 1
  <2>1. CASE r <= 0
    <3>1. r * MinGap <= 0
      BY <1>1, <2>1
    <3> QED BY <3>1, <1>1
  <2> QED BY <2>1, <1>1
<1>4. StepEdges - (e + 1) = r - 1
  BY StepEdgesType
<1> QED BY <1>1, <1>2, <1>3, <1>4, StepEdgesType

LEMMA UntilType == Until \in 0..3 /\ (IInv => Gap \in 0..MinGap)
  BY GapAssumption DEF Until, Gap, IInv, Typed

LEMMA InitStepInv == Init => StepInv
<1> SUFFICES ASSUME Init PROVE StepInv
  OBVIOUS
<1>1. RequestTurn /\ HeldHigh
  BY DEF Init, RequestTurn, HeldHigh
<1>2. Budget
  BY BudgetSuffices, StepEdgesType DEF Init, Budget, StepIsShort
<1> QED BY <1>1, <1>2, InitIInv DEF StepInv

\* Edges of CCLK: those that count are paid for.
LEMMA CoreEdgeStepInv == StepInv /\ CoreEdge => StepInv'
<1> SUFFICES ASSUME StepInv, CoreEdge PROVE StepInv'
  OBVIOUS
<1> USE DEF StepInv
<1>1. IInv'
  BY CoreEdgeIInv
<1>2. UNCHANGED <<slv_reg0, slv_reg1, cache_slv_reg0, cache_slv_reg1, acexec, axi_awready>>
  BY DEF CoreEdge, writeside, exec
<1>3. RequestTurn'
  BY <1>2 DEF RequestTurn
<1>4. CEXEC' => CEXEC /\ (cache_slv_reg0 \/ cache_slv_reg1)
  BY DEF CoreEdge, HeldHigh
<1>5. HeldHigh'
  BY <1>2, <1>4 DEF HeldHigh, CoreEdge
<1>6. edges \in Nat /\ since' = 0 /\ Gap = MinGap /\ Gap' = 0 /\ Until' = Until
  <2>1. edges \in Nat /\ since \in Nat /\ since >= MinGap
    BY StepEdgesType, GapAssumption DEF CoreEdge, IInv, Typed
  <2>2. since' = 0
    BY DEF CoreEdge
  <2> QED BY <1>2, <2>1, <2>2, GapAssumption DEF Gap, Until
<1>7. CASE slv_reg0 # 0 \/ ~CEXEC
  <2>1. edges' = edges /\ (slv_reg0 = 0 => ~CEXEC')
    BY <1>4, <1>7 DEF CoreEdge
  <2> QED BY <1>1, <1>2, <1>3, <1>5, <1>6, <2>1 DEF Budget, StepIsShort
<1>8. CASE slv_reg0 = 0 /\ CEXEC
  <2>1. edges' = edges + 1
    BY <1>8, <1>6, StepEdgesType DEF CoreEdge, Budget, StepIsShort
  <2>2. CASE slv_reg1 # 0
    <3>1. edges = 0 /\ acexec[1]
      BY <1>6, <1>8, <2>2, GapAssumption DEF Budget, HeldHigh, CoreEdge
    <3> QED BY <1>1, <1>2, <1>3, <1>5, <1>6, <1>8, <2>1, <2>2, <3>1, BudgetSuffices,
               StepEdgesType DEF Budget, StepIsShort
  <2>3. CASE slv_reg1 = 0
    <3>1. (StepEdges - edges) * MinGap >= Until + MinGap
      BY <1>6, <1>8, <2>3 DEF Budget
    <3>2. (StepEdges - (edges + 1)) * MinGap >= Until /\ edges + 1 <= StepEdges
      BY <1>6, <3>1, OneEdgeCosts, UntilType
    <3>3. (StepEdges - edges') * MinGap >= Until' + Gap'
      BY <1>6, <2>1, <3>2, UntilType
    <3>4. CEXEC' => edges' < StepEdges
      <4> SUFFICES ASSUME CEXEC', edges' >= StepEdges PROVE FALSE
        BY <1>6, <2>1, StepEdgesType
      <4>1. Until >= 1
        BY <1>4 DEF Until
      <4>2. StepEdges - (edges + 1) = 0
        BY <1>6, <2>1, <3>2, StepEdgesType
      <4> QED BY <3>2, <4>1, <4>2, GapAssumption, UntilType
    <3> QED BY <1>1, <1>2, <1>3, <1>5, <1>8, <2>1, <2>3, <3>2, <3>3, <3>4 DEF Budget, StepIsShort
  <2> QED BY <2>2, <2>3
<1> QED BY <1>7, <1>8

\* Edges of S_AXI_ACLK: until the request is dropped one less, of the distance one
\* more.
LEMMA EdgeStepInv ==
  ASSUME StepInv, NEW bready \in BOOLEAN, NEW rready \in BOOLEAN, AxiEdge(bready, rready)
  PROVE  StepInv'
<1>1. IInv'
  BY EdgeIInv DEF StepInv
<1>2. /\ slv_reg0 \in Flag /\ slv_reg1 \in Flag /\ edges \in Nat /\ since \in Nat
      /\ acexec' = <<CEXEC, acexec[1]>> /\ acexec'[1] = CEXEC /\ acexec'[2] = acexec[1]
      /\ cache_slv_reg0 \in BOOLEAN /\ cache_slv_reg1 \in BOOLEAN /\ CEXEC \in BOOLEAN
  BY StepEdgesType DEF StepInv, AxiEdge, IInv, Typed
<1>3. /\ cache_slv_reg0' <=> slv_reg0 # 0 \/ (cache_slv_reg0 /\ ~acexec[2])
      /\ cache_slv_reg1' <=> slv_reg1 # 0 \/ (cache_slv_reg1 /\ ~acexec[2])
  <2>1. (slv_reg0 > 0 <=> slv_reg0 # 0) /\ (slv_reg1 > 0 <=> slv_reg1 # 0)
    BY <1>2 DEF Flag
  <2>2. ASSUME NEW c, NEW q
        PROVE  Cache(c, q) <=> q > 0 \/ (c /\ ~acexec[2])
    BY Zenon DEF Cache
  <2> QED BY <2>1, <2>2 DEF AxiEdge
<1>4. /\ slv_reg_wren => axi_awready /\ ~axi_awready'
      /\ axi_awready' => ~axi_awready
  BY DEF AxiEdge, slv_reg_wren, AddressWrite, AccessReady
<1>5. /\ slv_reg0' # slv_reg0 => slv_reg_wren /\ axi_awaddr = "CEXEC"
      /\ slv_reg1' # 0 => slv_reg_wren /\ (slv_reg1' = slv_reg1 \/ axi_awaddr = "CEXEC1")
  BY <1>2 DEF AxiEdge, SlaveRegisters, Flag
<1>6. RequestTurn'
  <2>1. CASE slv_reg0' # slv_reg0
    BY <1>4, <1>5, <2>1 DEF StepInv, RequestTurn
  <2>2. CASE slv_reg0' = slv_reg0
    BY <1>3, <1>4, <1>5, <2>2 DEF StepInv, RequestTurn
  <2> QED BY <2>1, <2>2
<1>7. HeldHigh'
  <2>1. cache_slv_reg0' \/ cache_slv_reg1' => CEXEC'
    BY DEF AxiEdge, StepInv, HeldHigh, StartNow
  <2>2. CEXEC' /\ ~CEXEC => ~axi_awready
    BY <1>3 DEF AxiEdge, StepInv, StartNow, RequestTurn
  <2> QED BY <1>2, <1>4, <1>5, <2>1, <2>2 DEF StepInv, HeldHigh
<1>8. edges' = IF slv_reg0 # 0 \/ (slv_reg_wren /\ axi_awaddr \in {"CEXEC", "CEXEC1"})
               THEN 0 ELSE edges
  BY DEF AxiEdge, Observe
<1>9. /\ Until \in Nat /\ Gap \in Nat /\ Until' \in Nat /\ Gap' \in Nat
      /\ Until' <= 3 /\ Gap' <= MinGap /\ since' = since + 1
  <2>1. since' = since + 1
    BY DEF AxiEdge
  <2> QED BY <1>2, <2>1, GapAssumption DEF Until, Gap
<1>p. PICK u \in Nat, g \in Nat, v \in Nat, h \in Nat :
       u = Until /\ g = Gap /\ v = Until' /\ h = Gap' /\ v <= 3 /\ h <= MinGap
  BY <1>9
<1>q. v <= 3 /\ h <= MinGap
  BY <1>p
<1>10. CASE edges' = 0
  <2>1. (StepEdges - 0) * MinGap >= Until' + Gap'
    <3>1. StepEdges - 0 = StepEdges
      BY StepEdgesType
    <3>2. v + h <= 3 + MinGap /\ v + h \in Int
      BY <1>q, GapAssumption
    <3>3. StepEdges * MinGap \in Int /\ 3 + MinGap \in Int
      BY GapAssumption, StepEdgesType
    <3> QED BY <1>p, <3>1, <3>2, <3>3, BudgetSuffices
  <2> QED BY <1>1, <1>6, <1>7, <1>10, <2>1, BudgetSuffices, StepEdgesType DEF StepInv, Budget, StepIsShort
<1>11. CASE edges' # 0
  <2>1. edges' = edges /\ slv_reg0 = 0 /\ slv_reg0' = 0 /\ slv_reg1' = 0
    <3>1. slv_reg0 = 0 /\ ~(slv_reg_wren /\ axi_awaddr \in {"CEXEC", "CEXEC1"}) /\ edges' = edges
      BY <1>8, <1>11
    <3>2. slv_reg_wren => slv_reg1 = 0
      BY <1>4 DEF StepInv, RequestTurn
    <3> QED BY <1>5, <3>1, <3>2
  <2>2. CASE slv_reg1 # 0
    <3>1. edges = 1 /\ since = 0 /\ acexec[1]
      BY <1>11, <2>1, <2>2 DEF StepInv, Budget
    <3>2. Until' = 1 /\ Gap' = 1
      BY <1>2, <1>3, <1>9, <2>2, <3>1, GapAssumption DEF Until, Gap
    <3>3. (StepEdges - edges') * MinGap >= Until' + Gap'
      BY <2>1, <3>1, <3>2, BudgetSuffices
    <3> QED BY <1>1, <1>6, <1>7, <2>1, <3>1, <3>3, BudgetSuffices, StepEdgesType DEF StepInv, Budget, StepIsShort
  <2>3. CASE slv_reg1 = 0
    <3>1. CEXEC' = CEXEC
      <4>1. (cache_slv_reg0' => cache_slv_reg0) /\ (cache_slv_reg1' => cache_slv_reg1)
        BY <1>3, <2>1, <2>3
      <4> QED BY <1>2, <4>1 DEF AxiEdge, StartNow
    <3>2. (StepEdges - edges) * MinGap \in Int
      BY <1>2, StepEdgesType, GapAssumption
    <3>3. ASSUME CEXEC PROVE edges' < StepEdges /\ (StepEdges - edges') * MinGap >= Until' + Gap'
      <4>1. edges < StepEdges /\ (StepEdges - edges) * MinGap >= Until + Gap
        BY <2>1, <2>3, <3>3 DEF StepInv, Budget
      <4>2. CASE Until = 0
        <5>1. Until' = 0
          BY <1>3, <2>1, <2>3, <4>2 DEF Until
        <5>2. (StepEdges - edges) * MinGap >= MinGap
          <6>1. StepEdges - edges \in Nat \ {0}
            BY <1>2, <4>1, StepEdgesType
          <6> QED BY <6>1, GapAssumption
        <5> QED BY <1>9, <2>1, <3>2, <4>1, <5>1, <5>2, GapAssumption
      <4>3. CASE Until # 0
        <5>1. v <= u - 1
          <6>1. v = IF ~cache_slv_reg0' /\ ~cache_slv_reg1' THEN 0
                    ELSE IF acexec[1] THEN 1 ELSE IF CEXEC THEN 2 ELSE 3
            BY <1>p, <1>2 DEF Until
          <6>2. u = IF acexec[2] THEN 1 ELSE IF acexec[1] THEN 2 ELSE 3
            BY <1>p, <4>3 DEF Until
          <6>3. acexec[2] => v = 0
            BY <1>3, <2>1, <2>3, <6>1
          <6> QED BY <3>3, <6>1, <6>2, <6>3
        <5>2. h <= g + 1
          BY <1>p, <1>2, <1>9, GapAssumption DEF Gap
        <5>3. (StepEdges - edges) * MinGap >= v + h
          BY <1>p, <3>2, <4>1, <5>1, <5>2
        <5> QED BY <1>p, <2>1, <4>1, <5>3
      <4> QED BY <4>2, <4>3
    <3> QED BY <1>1, <1>6, <1>7, <2>1, <3>1, <3>3 DEF StepInv, Budget, StepIsShort
  <2> QED BY <2>2, <2>3
<1> QED BY <1>10, <1>11

\* What the master asks for is not looked at before an edge.
LEMMA MasterSendsStepInv == StepInv /\ MasterSends => StepInv'
<1> SUFFICES ASSUME StepInv, MasterSends PROVE StepInv'
  OBVIOUS
<1>1. IInv'
  BY MasterSendsIInv DEF StepInv
<1>2. UNCHANGED <<writeside, exec, CEXEC, since, edges>>
  BY DEF MasterSends
<1>3. Until' = Until /\ Gap' = Gap
  BY <1>2 DEF Until, Gap, exec
<1>4. RequestTurn' /\ HeldHigh'
  BY <1>2 DEF StepInv, RequestTurn, HeldHigh, writeside, exec
<1>5. Budget'
  BY <1>2, <1>3 DEF StepInv, Budget, StepIsShort, exec
<1> QED BY <1>1, <1>4, <1>5 DEF StepInv

\* A reset takes the request away; CEXEC falls at the next edge of CCLK.
LEMMA AxiResetStepInv == StepInv /\ AxiReset => StepInv'
<1> SUFFICES ASSUME StepInv, AxiReset PROVE StepInv'
  OBVIOUS
<1>1. IInv'
  BY AxiResetIInv DEF StepInv
<1>2. RequestTurn' /\ HeldHigh'
  BY DEF AxiReset, RequestTurn, HeldHigh
<1>3. Until' = 0 /\ Gap' \in Nat /\ Gap' <= MinGap
  <2>1. since' \in Nat
    BY GapAssumption DEF AxiReset, StepInv, IInv, Typed
  <2> QED BY <2>1, GapAssumption DEF AxiReset, Until, Gap
<1>4. PICK h \in Nat : h = Gap' /\ h <= MinGap
  BY <1>3
<1>5. (StepEdges - 0) * MinGap >= 0 + h
  <2>1. StepEdges - 0 = StepEdges /\ StepEdges * MinGap \in Int
    BY StepEdgesType, GapAssumption
  <2> QED BY <1>4, <2>1, BudgetSuffices, GapAssumption
<1>6. Budget'
  BY <1>3, <1>4, <1>5, BudgetSuffices, StepEdgesType
     DEF AxiReset, Budget, StepIsShort
<1> QED BY <1>1, <1>2, <1>6 DEF StepInv

LEMMA NextStepInv == StepInv /\ [Next]_vars => StepInv'
<1> SUFFICES ASSUME StepInv, [Next]_vars PROVE StepInv'
  OBVIOUS
<1>1. CASE MasterSends
  BY <1>1, MasterSendsStepInv
<1>2. CASE Edge
  BY <1>2, EdgeStepInv DEF Edge
<1>3. CASE CoreEdge
  BY <1>3, CoreEdgeStepInv
<1>4. CASE AxiReset
  BY <1>4, AxiResetStepInv
<1>5. CASE UNCHANGED vars
  <2>1. IInv'
    BY <1>5, NextIInv DEF StepInv
  <2>2. Until' = Until /\ Gap' = Gap
    BY <1>5 DEF vars, exec, Until, Gap
  <2>3. RequestTurn' /\ HeldHigh'
    BY <1>5 DEF StepInv, RequestTurn, HeldHigh, vars, writeside, exec
  <2>4. Budget'
    BY <1>5, <2>2 DEF StepInv, Budget, StepIsShort, vars, exec, history
  <2> QED BY <2>1, <2>3, <2>4 DEF StepInv
<1> QED BY <1>1, <1>2, <1>3, <1>4, <1>5 DEF Next

\* CEXEC1 is a short push: at most StepEdges edges of the core's clock find CEXEC
\* high after the last command, whatever the ratio and the phases of the clocks.
THEOREM ControllerStepIsShort == BootSpec => []StepIsShort
<1>1. StepInv => StepIsShort
  BY DEF StepInv, Budget
<1>2. Spec => []StepInv
  BY InitStepInv, NextStepInv, PTL DEF Spec
<1> QED BY BootImplementsController, <1>1, <1>2, PTL
=============================================================================
