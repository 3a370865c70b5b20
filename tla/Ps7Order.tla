------------------------------ MODULE Ps7Order ------------------------------
(* What can be said of the tables of ps7_init.c without running them. The    *)
(* operations of ps7_init and then ps7_post_config are one straight line; at *)
(* each of its points the tables alone tell what the registers hold, which   *)
(* polls must have succeeded and which dividers were taken over. The rules   *)
(* at the end say, in these terms, what the tables are careful about; they   *)
(* are assumptions on the constants, true of the tables of this repository.  *)
EXTENDS Ps7Init

\* The tables of the straight line, in the order they are run.
Rank == [mio |-> 1, pll |-> 2, clock |-> 3, ddr |-> 4, peripherals |-> 5,
         post |-> 6]

LineTables == DOMAIN Rank
Versions == 1..3

\* Below T is the tables of one silicon version. A point of the line: the
\* operation k of table t is to be done next.
Points(T) == UNION {{t} \X DOMAIN T[t] : t \in LineTables}
OpAt(T, q) == T[q[1]][q[2]]

Before(q, r) ==
  \/ Rank[q[1]] < Rank[r[1]]
  \/ q[1] = r[1] /\ q[2] < r[2]

-----------------------------------------------------------------------------
(* What the registers hold at point r. *)

Sets(o) == IF o.op \in Writes THEN DOMAIN o.val ELSE {}
Connects(o) == IF o.op \in Writes THEN DOMAIN o.pins ELSE {}

\* The points before r whose operations set a field and connect a pin.
Setters(T, x, r) == {q \in Points(T) : x \in Sets(OpAt(T, q)) /\ Before(q, r)}
Connectors(T, n, r) ==
  {q \in Points(T) : n \in Connects(OpAt(T, q)) /\ Before(q, r)}

\* The point of Q that comes last.
LastOf(Q) == CHOOSE q \in Q : \A w \in Q : w = q \/ Before(w, q)

FieldAt(T, x, r) ==
  LET Q == Setters(T, x, r)
  IN IF Q = {} THEN PowerOn[x] ELSE OpAt(T, LastOf(Q)).val[x]

PinAt(T, n, r) ==
  LET Q == Connectors(T, n, r)
  IN IF Q = {} THEN "reset" ELSE OpAt(T, LastOf(Q)).pins[n]

RegsAt(T, r) == [x \in DOMAIN PowerOn |-> FieldAt(T, x, r)]
PinsAt(T, r) == [n \in 0..(PinCount - 1) |-> PinAt(T, n, r)]

-----------------------------------------------------------------------------
(* What the hardware must have done when point r is reached. *)

\* The field that holds a status bit at 0.
HeldBy ==
  [b \in StatusBits |-> CASE b = "DCI_DONE" -> "DCI_RESET"
                          [] b = "DDRC_MODE" -> "DDRC_RSTB"
                          [] OTHER -> RESET[CHOOSE p \in PLLs : b = LOCK[p]]]
LockBits == {LOCK[p] : p \in PLLs}

\* The points before r whose operations poll for this bit alone.
Polls(T, b, r) ==
  {q \in Points(T) : /\ OpAt(T, q).op = "MASKPOLL"
                     /\ DOMAIN OpAt(T, q).val = {b}
                     /\ Before(q, r)}

\* The bit was polled for after everything that could clear it, or it is the
\* lock of a PLL that was never reset.
KnownUp(T, b, r) ==
  LET Q == Setters(T, HeldBy[b], r)
  IN \/ Q = {} /\ b \in LockBits
     \/ \E q \in Polls(T, b, r) : \A w \in Q : Before(w, q)

\* A PLL was reset after its divider was written, or this never happened.
KnownTaken(T, p, r) ==
  LET Q == Setters(T, FDIV[p], r)
  IN \/ Q = {}
     \/ \E q \in Setters(T, RESET[p], r) :
          /\ OpAt(T, q).val[RESET[p]] = 1
          /\ \A w \in Q : Before(w, q)

ServesAt(T, p, r) ==
  /\ FieldAt(T, BYPASS[p], r) = 0
  /\ KnownUp(T, LOCK[p], r)
  /\ KnownTaken(T, p, r)

ServingAt(T, r) == {p \in PLLs : ServesAt(T, p, r)}

LowAt(T, n, r) == DrivenLow(n, RegsAt(T, r))

-----------------------------------------------------------------------------
(* The rules. *)

AllOf == {Tables[v] : v \in Versions}

\* Every table ends with EXIT and has no other; delays are of a millisecond.
ASSUME TablesAssumption ==
  \A T \in AllOf : \A t \in TableNames :
    /\ T[t] \in Seq(Range(T[t]))
    /\ T[t] # <<>>
    /\ \A k \in DOMAIN T[t] : /\ T[t][k].op = "EXIT" <=> k = Len(T[t])
                              /\ T[t][k].ms \in 0..1

IsUnlock(o) == o.op \in Writes /\ o.blk = "slcr_unlock"
IsLock(o) == o.op \in Writes /\ o.blk = "slcr_lock"

\* In this table the operation before k that wrote a key last opened the SLCR,
\* or closed them.
OpenedAt(table_, k) ==
  \E j \in 1..(k - 1) :
    IsUnlock(table_[j]) /\ \A m \in j..(k - 1) : ~IsLock(table_[m])
ClosedAt(table_, k) ==
  \E j \in 1..(k - 1) :
    IsLock(table_[j]) /\ \A m \in j..(k - 1) : ~IsUnlock(table_[m])

\* A table opens the SLCR before its first write to them, and a function that
\* runs to its end leaves them closed.
ASSUME KeyRule ==
  \A T \in AllOf :
    /\ \A t \in TableNames : \A k \in DOMAIN T[t] :
         T[t][k].op \in Writes /\ T[t][k].blk = "slcr" => OpenedAt(T[t], k)
    /\ ClosedAt(T.peripherals, Len(T.peripherals))
    /\ ClosedAt(T.post, Len(T.post))

\* The debugger's table sets none of the fields and pins.
ASSUME DebugRule ==
  \A T \in AllOf : \A k \in DOMAIN T.debug :
    /\ Sets(T.debug[k]) = {} /\ Connects(T.debug[k]) = {}
    /\ T.debug[k].blk \notin {"ddrc", "uart1", "qspi", "gpio", "devcfg"}

\* A PLL is in use only where it is known to have locked.
ASSUME PllRule ==
  \A T \in AllOf : \A r \in Points(T), p \in PLLs :
    FieldAt(T, BYPASS[p], r) = 0 => KnownUp(T, LOCK[p], r)

\* The DDR controller is out of reset only where its PLL is known to serve, its
\* clocks run and the calibration was waited for.
ASSUME DdrRule ==
  \A T \in AllOf : \A r \in Points(T) :
    LET f == RegsAt(T, r)
    IN f.DDRC_RSTB = 1 => /\ ServesAt(T, "DDR", r)
                          /\ f.DDR_3X.act /\ f.DDR_2X.act
                          /\ KnownUp(T, "DCI_DONE", r)

\* A write finds its block clocked and connected.
ASSUME BlockRule ==
  \A T \in AllOf : \A r \in Points(T) :
    OpAt(T, r).op \in Writes =>
      Usable(OpAt(T, r).blk, RegsAt(T, r), ServingAt(T, r), PinsAt(T, r))

\* When ps7_init has succeeded everything is up, at the declared speeds, and
\* ps7_post_config leaves it so.
ASSUME ReadyRule ==
  \A T \in AllOf : \A k \in DOMAIN T.post :
    LET r == <<"post", k>>
        f == RegsAt(T, r)
    IN /\ \A p \in PLLs : ServesAt(T, p, r)
       /\ KnownUp(T, "DDRC_MODE", r)
       /\ PeripheralsUp(f, PinsAt(T, r))
       /\ AtSpeed(f, [p \in PLLs |-> f[FDIV[p]]])
       /\ k = Len(T.post) => LogicUp(f)

\* A pin that is known to be low is let go only when it was known to be low all
\* the way from the beginning of a delay.
ASSUME PulseRule ==
  \A T \in AllOf : \A t \in LineTables, n \in ResetPins :
    \A k \in 1..(Len(T[t]) - 1) :
      /\ Sets(T[t][k]) # {}
      /\ LowAt(T, n, <<t, k>>) /\ ~LowAt(T, n, <<t, k + 1>>)
      => \E j \in 1..(k - 1) :
           /\ T[t][j].op = "MASKDELAY" /\ T[t][j].ms >= 1
           /\ \A m \in j..k : LowAt(T, n, <<t, m>>)
=============================================================================
