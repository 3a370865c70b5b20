----------------------------- MODULE Controller -----------------------------
(* The controller of the core (cpu_core_controller_v1_0_S_AXI.v): an         *)
(* AXI4-Lite slave in one clock domain, the start signal CEXEC and the       *)
(* registers it reads back in another. A step is a rising edge of one of the *)
(* two clocks, or the master asking for an access (external).                *)
EXTENDS Integers

CONSTANTS
  MinGap, MaxGap,  \* edges of S_AXI_ACLK between two edges of CCLK
  RegValue,        \* values of the core's registers
  None             \* no request

ASSUME GapAssumption == MinGap \in Nat \ {0} /\ MaxGap \in Nat /\ MinGap <= MaxGap

VARIABLES
  aw, ar,          \* master: <<AWADDR, WDATA>> once both are VALID, ARADDR
                   \* while it is VALID, or None
  axi_awready, axi_wready, aw_en, axi_awaddr, axi_bvalid,
  axi_arready, axi_araddr, axi_rvalid, axi_rdata,
  slv_reg0, slv_reg1,
  cache_slv_reg0, cache_slv_reg1, acexec, CEXEC,
  REG, reg,        \* a register of the core; reg[1], reg[2]: reg00[0], reg00[1]
  since,           \* edges of S_AXI_ACLK since the last edge of CCLK
  unanswered,      \* history: accesses taken and not answered, of each kind
  answers,         \* history: what the address read held since it was asked
  pending,         \* history: a start was commanded that the core has not seen
  edges            \* history: edges of CCLK with CEXEC since the last command

master == <<aw, ar>>
writeside == <<axi_awready, axi_wready, aw_en, axi_awaddr, axi_bvalid>>
readside == <<axi_arready, axi_araddr, axi_rvalid, axi_rdata>>
exec == <<slv_reg0, slv_reg1, cache_slv_reg0, cache_slv_reg1, acexec>>
history == <<unanswered, answers, pending, edges>>
vars == <<master, writeside, readside, exec, CEXEC, REG, reg, since, history>>

Address == {"CEXEC", "CEXEC1", "REG", "unused"}
Flag == {0, 1}

\* A request of CEXEC1 is held for three edges of S_AXI_ACLK: so many edges of
\* CCLK may fall between them, and one more sees CEXEC high before it falls.
StepEdges == 2 \div MinGap + 2

-----------------------------------------------------------------------------
AccessReady == ~axi_awready /\ aw # None /\ aw_en
slv_reg_wren == axi_wready /\ axi_awready /\ aw # None
slv_reg_rden == axi_arready /\ ar # None /\ ~axi_rvalid
ReadTaken == axi_arready /\ ar # None

\* Slip: a new write is taken before the response of the last one is.
SlipAddressWrite(bready) ==
  /\ axi_awready' = (~axi_awready /\ aw # None)
  /\ axi_wready' = (~axi_wready /\ aw # None)
  /\ aw_en' = TRUE
  /\ axi_awaddr' = IF axi_awready' THEN aw[1] ELSE axi_awaddr
  /\ axi_bvalid' = ((slv_reg_wren /\ ~axi_bvalid) \/ (axi_bvalid /\ ~bready))

\* axi_awready, aw_en, axi_awaddr, axi_wready, axi_bvalid: one write at a time.
AddressWrite(bready) ==
  /\ axi_awready' = AccessReady
  /\ axi_wready' = (~axi_wready /\ aw # None /\ aw_en)
  /\ aw_en' = (~AccessReady /\ (aw_en \/ (bready /\ axi_bvalid)))
  /\ axi_awaddr' = IF AccessReady THEN aw[1] ELSE axi_awaddr
  /\ axi_bvalid' = ((slv_reg_wren /\ ~axi_bvalid) \/ (axi_bvalid /\ ~bready))

\* Slip: CEXEC1 stays as written.
SlipSlaveRegisters ==
  IF slv_reg_wren
  THEN /\ slv_reg0' = IF axi_awaddr = "CEXEC" THEN aw[2] ELSE slv_reg0
       /\ slv_reg1' = IF axi_awaddr = "CEXEC1" THEN aw[2] ELSE slv_reg1
  ELSE UNCHANGED <<slv_reg0, slv_reg1>>

\* The registers CEXEC and CEXEC1; the second holds for one cycle.
SlaveRegisters ==
  IF slv_reg_wren
  THEN /\ slv_reg0' = IF axi_awaddr = "CEXEC" THEN aw[2] ELSE slv_reg0
       /\ slv_reg1' = IF axi_awaddr = "CEXEC1" THEN aw[2] ELSE slv_reg1
  ELSE slv_reg0' = slv_reg0 /\ slv_reg1' = 0

\* reg_data_out
ReadData(addr) ==
  CASE addr = "CEXEC" -> slv_reg0 [] addr = "REG" -> reg[2] [] OTHER -> 0

\* Slip: the address of the last read selects the data.
SlipAddressRead(rready) ==
  /\ axi_arready' = (~axi_arready /\ ar # None)
  /\ axi_araddr' = IF ReadTaken THEN ar ELSE axi_araddr
  /\ axi_rvalid' = ((ReadTaken /\ ~axi_rvalid) \/ (axi_rvalid /\ ~rready))
  /\ axi_rdata' = IF slv_reg_rden THEN ReadData(axi_araddr) ELSE axi_rdata

\* axi_arready, axi_araddr, axi_rvalid, axi_rdata.
AddressRead(rready) ==
  /\ axi_arready' = (~axi_arready /\ ar # None)
  /\ axi_araddr' = IF ~axi_arready /\ ar # None THEN ar ELSE axi_araddr
  /\ axi_rvalid' = ((ReadTaken /\ ~axi_rvalid) \/ (axi_rvalid /\ ~rready))
  /\ axi_rdata' = IF slv_reg_rden THEN ReadData(axi_araddr) ELSE axi_rdata

\* Slip: that CEXEC was seen counts for more than a new request.
SlipCache(c, r) == IF acexec[2] THEN FALSE ELSE IF r > 0 THEN TRUE ELSE c

\* Slip: the request is never dropped.
SlipCacheStays(c, r) == c \/ r > 0

\* cache_slv_reg0, cache_slv_reg1: the request is held until CEXEC was seen high.
Cache(c, r) == IF r > 0 THEN TRUE ELSE IF acexec[2] THEN FALSE ELSE c

\* The start signal is set at once when a request rises.
StartNow ==
  CEXEC' = (CEXEC \/ (cache_slv_reg0' /\ ~cache_slv_reg0)
                  \/ (cache_slv_reg1' /\ ~cache_slv_reg1))

\* A handshake takes the master's request away.
MasterAfterEdge ==
  /\ aw' = IF axi_awready /\ axi_wready THEN None ELSE aw
  /\ ar' = IF axi_arready THEN None ELSE ar

Starts == slv_reg_wren /\ axi_awaddr \in {"CEXEC", "CEXEC1"} /\ aw[2] # 0

Observe(bready, rready) ==
  /\ unanswered' =
       [write |-> unanswered.write + (IF slv_reg_wren THEN 1 ELSE 0)
                    - (IF axi_bvalid /\ bready THEN 1 ELSE 0),
        read |-> unanswered.read + (IF ReadTaken THEN 1 ELSE 0)
                    - (IF axi_rvalid /\ rready THEN 1 ELSE 0)]
  /\ answers' = IF ar # None THEN answers \cup {ReadData(ar)}
                ELSE IF axi_rvalid /\ rready THEN {} ELSE answers
  /\ pending' = (pending \/ Starts)
  /\ edges' = IF \/ slv_reg0 # 0
                 \/ slv_reg_wren /\ axi_awaddr \in {"CEXEC", "CEXEC1"}
              THEN 0 ELSE edges

-----------------------------------------------------------------------------
Init ==
  /\ aw = None /\ ar = None
  /\ axi_awready = FALSE /\ axi_wready = FALSE /\ aw_en = TRUE
  /\ axi_awaddr = "CEXEC" /\ axi_bvalid = FALSE
  /\ axi_arready = FALSE /\ axi_araddr = "CEXEC" /\ axi_rvalid = FALSE
  /\ axi_rdata = 0
  /\ slv_reg0 = 0 /\ slv_reg1 = 0
  /\ cache_slv_reg0 = FALSE /\ cache_slv_reg1 = FALSE /\ acexec = <<FALSE, FALSE>>
  /\ CEXEC = FALSE
  /\ REG \in RegValue /\ reg = <<REG, REG>>
  /\ since = 0
  /\ unanswered = [write |-> 0, read |-> 0] /\ answers = {}
  /\ pending = FALSE /\ edges = 0

\* The master (external) presents a request and holds it; it may send a write
\* before the last one was answered.
MasterSends ==
  /\ \/ /\ aw = None
        /\ aw' \in ({"CEXEC", "CEXEC1"} \X Flag) \cup {<<"unused", 1>>}
        /\ UNCHANGED <<ar, answers>>
     \/ /\ ar = None /\ unanswered.read = 0
        /\ ar' \in {"CEXEC", "REG"}
        /\ UNCHANGED <<aw, answers>>
  /\ UNCHANGED <<writeside, readside, exec, CEXEC, REG, reg, since, unanswered,
                 pending, edges>>

\* posedge S_AXI_ACLK; BREADY and RREADY as the master likes.
AxiEdge(bready, rready) ==
  /\ since < MaxGap
  /\ since' = since + 1
  /\ AddressWrite(bready)
  /\ SlaveRegisters
  /\ AddressRead(rready)
  /\ acexec' = <<CEXEC, acexec[1]>>
  /\ cache_slv_reg0' = Cache(cache_slv_reg0, slv_reg0)
  /\ cache_slv_reg1' = Cache(cache_slv_reg1, slv_reg1)
  /\ StartNow
  /\ reg' = <<REG, reg[1]>>
  /\ MasterAfterEdge
  /\ Observe(bready, rready)
  /\ UNCHANGED REG

\* posedge CCLK: the core samples CEXEC, and its registers may change.
CoreEdge ==
  /\ since >= MinGap
  /\ since' = 0
  /\ CEXEC' = (cache_slv_reg0 \/ cache_slv_reg1)
  /\ REG' \in RegValue
  /\ pending' = (pending /\ ~CEXEC)
  /\ edges' = IF CEXEC /\ slv_reg0 = 0 /\ edges <= StepEdges THEN edges + 1 ELSE edges
  /\ UNCHANGED <<master, writeside, readside, exec, reg, unanswered, answers>>

\* Slip: the response is not cleared.
SlipResetWrite ==
  /\ axi_awready' = FALSE /\ axi_wready' = FALSE /\ aw_en' = TRUE
  /\ axi_awaddr' = "CEXEC" /\ UNCHANGED axi_bvalid

ResetWrite ==
  /\ axi_awready' = FALSE /\ axi_wready' = FALSE /\ aw_en' = TRUE
  /\ axi_awaddr' = "CEXEC" /\ axi_bvalid' = FALSE

\* S_AXI_ARESETN low at an edge of the clock; acexec and reg have no reset.
AxiReset ==
  /\ since < MaxGap
  /\ since' = since + 1
  /\ aw' = None /\ ar' = None
  /\ ResetWrite
  /\ axi_arready' = FALSE /\ axi_araddr' = "CEXEC" /\ axi_rvalid' = FALSE
  /\ axi_rdata' = 0
  /\ slv_reg0' = 0 /\ slv_reg1' = 0
  /\ cache_slv_reg0' = FALSE /\ cache_slv_reg1' = FALSE
  /\ acexec' = <<CEXEC, acexec[1]>>
  /\ reg' = <<REG, reg[1]>>
  /\ unanswered' = [write |-> 0, read |-> 0]
  /\ answers' = {} /\ pending' = FALSE /\ edges' = 0
  /\ UNCHANGED <<CEXEC, REG>>

Edge == \E bready, rready \in BOOLEAN : AxiEdge(bready, rready)
Next == MasterSends \/ Edge \/ CoreEdge \/ AxiReset

Spec == Init /\ [][Next]_vars

\* Both clocks run.
FairSpec == Spec /\ WF_vars(Edge) /\ WF_vars(CoreEdge)
-----------------------------------------------------------------------------
(* Properties. *)

\* The types of the variables.
TypeOK ==
  /\ aw \in (Address \X Flag) \cup {None}
  /\ ar \in Address \cup {None}
  /\ axi_awready \in BOOLEAN /\ axi_wready \in BOOLEAN /\ aw_en \in BOOLEAN
  /\ axi_awaddr \in Address /\ axi_bvalid \in BOOLEAN
  /\ axi_arready \in BOOLEAN /\ axi_araddr \in Address /\ axi_rvalid \in BOOLEAN
  /\ axi_rdata \in RegValue \cup Flag
  /\ slv_reg0 \in Flag /\ slv_reg1 \in Flag
  /\ cache_slv_reg0 \in BOOLEAN /\ cache_slv_reg1 \in BOOLEAN
  /\ acexec \in BOOLEAN \X BOOLEAN /\ CEXEC \in BOOLEAN
  /\ REG \in RegValue /\ reg \in RegValue \X RegValue
  /\ since \in 0..MaxGap
  /\ unanswered \in [write : Nat, read : Nat]
  /\ answers \subseteq RegValue \cup Flag
  /\ pending \in BOOLEAN /\ edges \in 0..(StepEdges + 1)

\* Every access taken is answered once, in turn: a response is waiting exactly
\* while one access is unanswered, however the master times its requests.
OneAnswerPerAccess ==
  /\ unanswered.write = (IF axi_bvalid THEN 1 ELSE 0)
  /\ unanswered.read = (IF axi_rvalid THEN 1 ELSE 0)

\* The data read is what the register asked for held since it was asked for.
ReadAnswersItsRequest == axi_rvalid => axi_rdata \in answers

\* A start that was commanded reaches the core: its clock finds CEXEC high,
\* whatever the phases of the two clocks and the commands that follow.
StartReachesCore == pending ~> ~pending

\* The core runs for ever once CEXEC's register stays set, and stops when both
\* stay clear: no edge of its clock finds the wrong level any more.
CexecFollowsCommand ==
  /\ <>[](slv_reg0 # 0) => <>[]CEXEC
  /\ <>[](slv_reg0 = 0 /\ slv_reg1 = 0) => <>[]~CEXEC

\* CEXEC1 is a short push: the core runs for so many of its cycles at most
\* after the last command, while CEXEC's register is clear.
StepIsShort == edges <= StepEdges
=============================================================================
