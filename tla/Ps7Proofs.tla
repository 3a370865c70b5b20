----------------------------- MODULE Ps7Proofs -----------------------------
(* Proofs that tables which obey the rules of Ps7Order bring the platform up  *)
(* whatever the hardware does: for all such tables, every number of looks of  *)
(* a poll and all registers at power on with which the rules are kept.        *)
EXTENDS Ps7Order, TLAPS

-----------------------------------------------------------------------------
(* The line. *)

LEMMA PointsOf ==
  ASSUME NEW T, NEW q
  PROVE  q \in Points(T) <=> /\ q = <<q[1], q[2]>>
                             /\ q[1] \in LineTables
                             /\ q[2] \in DOMAIN T[q[1]]
BY DEF Points

Proper(T) ==
  \A t \in TableNames :
    /\ Len(T[t]) \in Nat \ {0}
    /\ DOMAIN T[t] = 1..Len(T[t])
    /\ \A k \in DOMAIN T[t] : /\ T[t][k].op = "EXIT" <=> k = Len(T[t])
                              /\ T[t][k].ms \in 0..1

LEMMA TablesProper == \A v \in Versions : Proper(Tables[v])
<1> SUFFICES ASSUME NEW v \in Versions, NEW t \in TableNames
             PROVE  LET T == Tables[v]
                    IN /\ Len(T[t]) \in Nat \ {0}
                       /\ DOMAIN T[t] = 1..Len(T[t])
                       /\ \A k \in DOMAIN T[t] :
                            /\ T[t][k].op = "EXIT" <=> k = Len(T[t])
                            /\ T[t][k].ms \in 0..1
  BY DEF Proper
<1> DEFINE table_ == Tables[v][t]
<1>1. /\ table_ \in Seq(Range(table_)) /\ table_ # <<>>
      /\ \A k \in DOMAIN table_ : /\ table_[k].op = "EXIT" <=> k = Len(table_)
                                  /\ table_[k].ms \in 0..1
  BY TablesAssumption DEF AllOf
<1>2. Len(table_) \in Nat \ {0} /\ DOMAIN table_ = 1..Len(table_)
  <2> HIDE DEF table_
  <2> QED BY <1>1
<1> QED BY <1>1, <1>2

LEMMA RankTyped ==
  /\ LineTables = {"mio", "pll", "clock", "ddr", "peripherals", "post"}
  /\ \A t \in LineTables : Rank[t] \in 1..6
  /\ \A t, u \in LineTables : Rank[t] = Rank[u] => t = u
  /\ LineTables \subseteq TableNames
BY DEF LineTables, Rank, TableNames

\* The operation at r is followed by the one at s.
Follows(T, r, s) ==
  /\ r \in Points(T)
  /\ \A q \in Points(T) : Before(q, s) <=> Before(q, r) \/ q = r

LEMMA FollowsInTable ==
  ASSUME NEW T, Proper(T), NEW t \in LineTables,
         NEW k \in DOMAIN T[t], k # Len(T[t])
  PROVE  /\ k + 1 \in DOMAIN T[t]
         /\ Follows(T, <<t, k>>, <<t, k + 1>>)
<1>1. /\ DOMAIN T[t] = 1..Len(T[t]) /\ Len(T[t]) \in Nat
      /\ \A u \in LineTables : DOMAIN T[u] \subseteq Nat
  <2>1. \A u \in LineTables : u \in TableNames
    BY RankTyped
  <2>2. \A u \in LineTables : DOMAIN T[u] = 1..Len(T[u]) /\ Len(T[u]) \in Nat
    BY <2>1 DEF Proper
  <2> HIDE DEF LineTables
  <2> QED BY <2>2
<1>2. <<t, k>> \in Points(T)
  BY PointsOf
<1>3. ASSUME NEW q \in Points(T)
      PROVE  Before(q, <<t, k + 1>>) <=> Before(q, <<t, k>>) \/ q = <<t, k>>
  <2>1. /\ q = <<q[1], q[2]>> /\ q[1] \in LineTables /\ q[2] \in Nat
    BY <1>1, <1>3, PointsOf
  <2>2. q = <<t, k>> <=> q[1] = t /\ q[2] = k
    BY <2>1
  <2>3. q[2] < k + 1 <=> q[2] < k \/ q[2] = k
    BY <2>1, <1>1
  <2>4. q[1] = t => ~(Rank[q[1]] < Rank[t])
    BY RankTyped
  <2> QED BY <2>2, <2>3, <2>4 DEF Before
<1> QED BY <1>1, <1>2, <1>3 DEF Follows

LEMMA FollowsTable ==
  ASSUME NEW T, Proper(T), NEW t \in LineTables, NEW u \in LineTables,
         Rank[u] = Rank[t] + 1
  PROVE  /\ 1 \in DOMAIN T[u]
         /\ Follows(T, <<t, Len(T[t])>>, <<u, 1>>)
<1>1. \A w \in LineTables : /\ DOMAIN T[w] = 1..Len(T[w])
                            /\ Len(T[w]) \in Nat \ {0}
  BY RankTyped DEF Proper
<1>2. <<t, Len(T[t])>> \in Points(T)
  BY <1>1, PointsOf
<1>3. ASSUME NEW q \in Points(T)
      PROVE  Before(q, <<u, 1>>) <=>
               Before(q, <<t, Len(T[t])>>) \/ q = <<t, Len(T[t])>>
  <2>1. /\ q = <<q[1], q[2]>> /\ q[1] \in LineTables
        /\ q[2] \in 1..Len(T[q[1]])
    BY <1>1, <1>3, PointsOf
  <2>2. Before(q, <<u, 1>>) <=> Rank[q[1]] < Rank[u]
    BY <1>1, <2>1 DEF Before
  <2>3. Rank[q[1]] < Rank[u] <=> Rank[q[1]] < Rank[t] \/ q[1] = t
    BY <2>1, RankTyped
  <2>4. q[1] = t => (q[2] < Len(T[t]) \/ q[2] = Len(T[t]))
    BY <1>1, <2>1
  <2>5. q = <<t, Len(T[t])>> <=> q[1] = t /\ q[2] = Len(T[t])
    BY <2>1
  <2> QED BY <2>2, <2>3, <2>4, <2>5 DEF Before
<1> QED BY <1>1, <1>2, <1>3 DEF Follows

\* No point comes before itself, or before one that comes before it.
LEMMA BeforeIsOrder ==
  ASSUME NEW T, Proper(T), NEW q \in Points(T), NEW r \in Points(T),
         Before(q, r)
  PROVE  q # r /\ ~Before(r, q)
<1>1. /\ q[1] \in LineTables /\ r[1] \in LineTables
      /\ q[2] \in Nat /\ r[2] \in Nat
  BY PointsOf, RankTyped DEF Proper
<1> QED BY <1>1, RankTyped DEF Before

-----------------------------------------------------------------------------
(* What the tables tell at one point and at the next. *)

LEMMA SettersNext ==
  ASSUME NEW T, NEW r, NEW s, Follows(T, r, s), NEW x
  PROVE  Setters(T, x, s) = IF x \in Sets(OpAt(T, r))
                            THEN Setters(T, x, r) \cup {r} ELSE Setters(T, x, r)
BY DEF Setters, Follows

LEMMA ConnectorsNext ==
  ASSUME NEW T, NEW r, NEW s, Follows(T, r, s), NEW n
  PROVE  Connectors(T, n, s) = IF n \in Connects(OpAt(T, r))
                               THEN Connectors(T, n, r) \cup {r}
                               ELSE Connectors(T, n, r)
BY DEF Connectors, Follows

\* When the points of Q come before r, r is the last of Q and r.
LEMMA LastIsNew ==
  ASSUME NEW T, Proper(T), NEW r \in Points(T), NEW Q \in SUBSET Points(T),
         \A q \in Q : Before(q, r)
  PROVE  LastOf(Q \cup {r}) = r
<1> DEFINE R == Q \cup {r}
<1>1. r \in R /\ \A w \in R : w = r \/ Before(w, r)
  OBVIOUS
<1>2. ASSUME NEW q \in R, \A w \in R : w = q \/ Before(w, q)
      PROVE  q = r
  BY <1>1, <1>2, BeforeIsOrder
<1>3. LastOf(R) \in R /\ \A w \in R : w = LastOf(R) \/ Before(w, LastOf(R))
  BY <1>1 DEF LastOf
<1> QED BY <1>2, <1>3

\* A field has the value written last, and otherwise what it had.
LEMMA FieldNext ==
  ASSUME NEW T, Proper(T), NEW r, NEW s, Follows(T, r, s), NEW x
  PROVE  FieldAt(T, x, s) = IF x \in Sets(OpAt(T, r))
                            THEN OpAt(T, r).val[x] ELSE FieldAt(T, x, r)
<1>1. CASE x \notin Sets(OpAt(T, r))
  BY <1>1, SettersNext DEF FieldAt
<1>2. CASE x \in Sets(OpAt(T, r))
  <2>1. Setters(T, x, s) = Setters(T, x, r) \cup {r}
    BY <1>2, SettersNext
  <2>2. /\ r \in Points(T)
        /\ Setters(T, x, r) \in SUBSET Points(T)
        /\ \A q \in Setters(T, x, r) : Before(q, r)
    BY DEF Setters, Follows
  <2>3. LastOf(Setters(T, x, s)) = r
    BY <2>1, <2>2, LastIsNew
  <2> QED BY <1>2, <2>1, <2>3 DEF FieldAt
<1> QED BY <1>1, <1>2

LEMMA PinNext ==
  ASSUME NEW T, Proper(T), NEW r, NEW s, Follows(T, r, s), NEW n
  PROVE  PinAt(T, n, s) = IF n \in Connects(OpAt(T, r))
                          THEN OpAt(T, r).pins[n] ELSE PinAt(T, n, r)
<1>1. CASE n \notin Connects(OpAt(T, r))
  BY <1>1, ConnectorsNext DEF PinAt
<1>2. CASE n \in Connects(OpAt(T, r))
  <2>1. Connectors(T, n, s) = Connectors(T, n, r) \cup {r}
    BY <1>2, ConnectorsNext
  <2>2. /\ r \in Points(T)
        /\ Connectors(T, n, r) \in SUBSET Points(T)
        /\ \A q \in Connectors(T, n, r) : Before(q, r)
    BY DEF Connectors, Follows
  <2>3. LastOf(Connectors(T, n, s)) = r
    BY <2>1, <2>2, LastIsNew
  <2> QED BY <1>2, <2>1, <2>3 DEF PinAt
<1> QED BY <1>1, <1>2

LEMMA RegsNext ==
  ASSUME NEW T, Proper(T), NEW r, NEW s, Follows(T, r, s)
  PROVE  RegsAt(T, s) = IF OpAt(T, r).op \in Writes
                        THEN Overlay(OpAt(T, r).val, RegsAt(T, r))
                        ELSE RegsAt(T, r)
BY FieldNext DEF RegsAt, Overlay, Sets

LEMMA PinsNext ==
  ASSUME NEW T, Proper(T), NEW r, NEW s, Follows(T, r, s)
  PROVE  PinsAt(T, s) = IF OpAt(T, r).op \in Writes
                        THEN Overlay(OpAt(T, r).pins, PinsAt(T, r))
                        ELSE PinsAt(T, r)
<1> DEFINE pins == 0..(PinCount - 1)
<1>1. \A u : PinsAt(T, u) = [n \in pins |-> PinAt(T, n, u)]
  BY DEF PinsAt
<1> HIDE DEF pins
<1> QED BY <1>1, PinNext DEF Overlay, Connects

\* Once a bit is known to be up it stays so, unless the operation writes the
\* field that holds it; a poll for it makes it known.
LEMMA UpNext ==
  ASSUME NEW T, Proper(T), NEW r, NEW s, Follows(T, r, s), NEW b,
         KnownUp(T, b, s)
  PROVE  \/ KnownUp(T, b, r) /\ HeldBy[b] \notin Sets(OpAt(T, r))
         \/ OpAt(T, r).op = "MASKPOLL" /\ DOMAIN OpAt(T, r).val = {b}
<1> DEFINE Q(u) == Setters(T, HeldBy[b], u)
<1>1. /\ r \in Points(T)
      /\ \A u : Q(u) \subseteq Points(T) /\ Polls(T, b, u) \subseteq Points(T)
  BY DEF Follows, Setters, Polls
<1>2. CASE Q(s) = {} /\ b \in LockBits
  BY <1>2, SettersNext DEF KnownUp
<1>3. ASSUME NEW q \in Polls(T, b, s), \A w \in Q(s) : Before(w, q)
      PROVE  \/ KnownUp(T, b, r) /\ HeldBy[b] \notin Sets(OpAt(T, r))
             \/ OpAt(T, r).op = "MASKPOLL" /\ DOMAIN OpAt(T, r).val = {b}
  <2>1. CASE q = r
    BY <2>1 DEF Polls
  <2>2. CASE q # r
    <3>1. Before(q, r) /\ q \in Polls(T, b, r)
      BY <2>2, <1>1 DEF Polls, Follows
    <3>2. r \notin Q(s)
      BY <1>1, <1>3, <3>1, BeforeIsOrder
    <3>3. HeldBy[b] \notin Sets(OpAt(T, r)) /\ Q(s) = Q(r)
      BY <3>2, SettersNext
    <3> QED BY <1>3, <3>1, <3>3 DEF KnownUp
  <2> QED BY <2>1, <2>2
<1> QED BY <1>2, <1>3 DEF KnownUp

LEMMA TakenNext ==
  ASSUME NEW T, Proper(T), NEW r, NEW s, Follows(T, r, s), NEW p,
         KnownTaken(T, p, s)
  PROVE  /\ FDIV[p] \notin Sets(OpAt(T, r))
         /\ \/ KnownTaken(T, p, r)
            \/ RESET[p] \in Sets(OpAt(T, r)) /\ OpAt(T, r).val[RESET[p]] = 1
<1> DEFINE Q(u) == Setters(T, FDIV[p], u)
<1>1. /\ r \in Points(T)
      /\ \A u, x : Setters(T, x, u) \subseteq Points(T)
  BY DEF Follows, Setters
<1>2. CASE Q(s) = {}
  BY <1>2, SettersNext DEF KnownTaken
<1>3. ASSUME NEW q \in Setters(T, RESET[p], s),
             OpAt(T, q).val[RESET[p]] = 1,
             \A w \in Q(s) : Before(w, q)
      PROVE  /\ FDIV[p] \notin Sets(OpAt(T, r))
             /\ \/ KnownTaken(T, p, r)
                \/ RESET[p] \in Sets(OpAt(T, r)) /\ OpAt(T, r).val[RESET[p]] = 1
  <2>1. q = r \/ Before(q, r)
    BY <1>1 DEF Setters, Follows
  <2>2. r \notin Q(s)
    BY <1>1, <1>3, <2>1, BeforeIsOrder
  <2>3. FDIV[p] \notin Sets(OpAt(T, r)) /\ Q(s) = Q(r)
    BY <2>2, SettersNext
  <2>4. CASE q = r
    BY <1>3, <2>3, <2>4 DEF Setters
  <2>5. CASE q # r
    <3>1. q \in Setters(T, RESET[p], r)
      BY <2>1, <2>5 DEF Setters
    <3> QED BY <1>3, <2>3, <3>1 DEF KnownTaken
  <2> QED BY <2>3, <2>4, <2>5
<1> QED BY <1>2, <1>3 DEF KnownTaken

-----------------------------------------------------------------------------
(* Where the program is. *)

MyTables == Tables[Version]

TodosOf ==
  [init  |-> {<<"mio", "pll", "clock", "ddr", "peripherals">>,
              <<"pll", "clock", "ddr", "peripherals">>,
              <<"clock", "ddr", "peripherals">>,
              <<"ddr", "peripherals">>, <<"peripherals">>},
   post  |-> {<<"post">>},
   debug |-> {<<"debug">>}]

Control ==
  /\ si_ver \in 0..3
  /\ call \in Calls \cup {"none"}
  /\ Busy => /\ call \in Calls
             /\ todo \in TodosOf[call]
             /\ table = MyTables[Head(todo)]
             /\ pc \in DOMAIN table
             /\ finish[call] = "none"
             /\ call = "init" \/ finish["init"] = "success"
  /\ ~Busy => todo = <<>>
  /\ i \in 0..PollTime
  /\ timer \in -1..1
  /\ timer # -1 => Busy /\ Op.op = "MASKDELAY"
  /\ finish \in [Calls -> Codes]
  /\ finish["init"] # "success" =>
       finish["post"] = "none" /\ finish["debug"] = "none"
  /\ slcr \in {"open", "closed"}

LEMMA InitTodos ==
  ASSUME NEW d \in TodosOf.init
  PROVE  /\ d \in Seq(TableNames) /\ d # <<>>
         /\ Head(d) \in LineTables \ {"post"}
         /\ Len(d) = 1 <=> Head(d) = "peripherals"
         /\ Len(d) # 1 => /\ Tail(d) \in TodosOf.init
                          /\ Rank[Head(Tail(d))] = Rank[Head(d)] + 1
<1>1. CASE d = <<"mio", "pll", "clock", "ddr", "peripherals">>
  BY <1>1 DEF TodosOf, TableNames, LineTables, Rank
<1>2. CASE d = <<"pll", "clock", "ddr", "peripherals">>
  BY <1>2 DEF TodosOf, TableNames, LineTables, Rank
<1>3. CASE d = <<"clock", "ddr", "peripherals">>
  BY <1>3 DEF TodosOf, TableNames, LineTables, Rank
<1>4. CASE d = <<"ddr", "peripherals">>
  BY <1>4 DEF TodosOf, TableNames, LineTables, Rank
<1>5. CASE d = <<"peripherals">>
  BY <1>5 DEF TodosOf, TableNames, LineTables, Rank
<1> QED BY <1>1, <1>2, <1>3, <1>4, <1>5 DEF TodosOf

LEMMA OtherTodos ==
  /\ \A d \in TodosOf.post : /\ d \in Seq(TableNames) /\ d # <<>>
                             /\ Head(d) = "post" /\ Len(d) = 1
  /\ \A d \in TodosOf.debug : /\ d \in Seq(TableNames) /\ d # <<>>
                              /\ Head(d) = "debug" /\ Len(d) = 1
<1>1. ASSUME NEW t \in TableNames
      PROVE  /\ <<t>> \in Seq(TableNames) /\ <<t>> # <<>>
             /\ Head(<<t>>) = t /\ Len(<<t>>) = 1
  OBVIOUS
<1>2. TodosOf.post = {<<"post">>} /\ TodosOf.debug = {<<"debug">>}
  BY DEF TodosOf
<1>3. "post" \in TableNames /\ "debug" \in TableNames
  BY DEF TableNames
<1> QED BY <1>1, <1>2, <1>3

LEMMA FirstTodos ==
  \A c \in Calls :
    /\ TablesOf[c] \in TodosOf[c]
    /\ c = "init" => Head(TablesOf[c]) = "mio"
BY DEF Calls, TablesOf, TodosOf

\* The table a call is at.
LEMMA TodoFacts ==
  ASSUME NEW c \in Calls, NEW d \in TodosOf[c]
  PROVE  /\ d \in Seq(TableNames) /\ d # <<>> /\ Head(d) \in TableNames
         /\ c # "debug" => Head(d) \in LineTables
         /\ c = "debug" => Head(d) = "debug"
         /\ c = "post" => Head(d) = "post"
         /\ c = "init" => Head(d) # "post"
         /\ Len(d) = 1 => (c = "init" => Head(d) = "peripherals")
         /\ Len(d) # 1 => /\ c = "init"
                          /\ Tail(d) \in TodosOf[c]
                          /\ Rank[Head(Tail(d))] = Rank[Head(d)] + 1
<1>1. CASE c = "init"
  <2>1. TodosOf[c] = TodosOf.init
    BY <1>1
  <2> QED BY <1>1, <2>1, InitTodos, RankTyped
<1>2. CASE c = "post"
  BY <1>2, OtherTodos, RankTyped DEF TableNames
<1>3. CASE c = "debug"
  BY <1>3, OtherTodos DEF TableNames
<1> QED BY <1>1, <1>2, <1>3 DEF Calls

LEMMA VersionTyped ==
  ASSUME si_ver \in 0..3
  PROVE  Version \in Versions /\ MyTables \in AllOf /\ Proper(MyTables)
<1>1. Version \in Versions
  BY DEF Version, Versions
<1> QED BY <1>1, TablesProper DEF MyTables, AllOf

\* The operation that is done next.
LEMMA AtOp ==
  ASSUME Control, Busy
  PROVE  /\ Head(todo) \in TableNames
         /\ Op = MyTables[Head(todo)][pc]
         /\ DOMAIN table = 1..Len(table) /\ Len(table) \in Nat \ {0}
         /\ pc \in Nat /\ pc >= 1 /\ pc <= Len(table)
         /\ Op.op = "EXIT" <=> pc = Len(table)
         /\ Op.ms \in 0..1
<1>1. Proper(MyTables) /\ Head(todo) \in TableNames
  BY VersionTyped, TodoFacts DEF Control
<1>2. table = MyTables[Head(todo)] /\ pc \in DOMAIN table
  BY DEF Control
<1> QED BY <1>1, <1>2 DEF Proper, Op

LEMMA ControlInit == Init => Control
BY PollTimeAssumption DEF Init, Control, Busy, Calls, Codes

LEMMA ControlCall ==
  ASSUME Control, NEW c \in Calls, Call(c)
  PROVE  Control'
<1>1. TablesOf[c] \in TodosOf[c] /\ TablesOf[c] # <<>>
      /\ Head(TablesOf[c]) \in TableNames
  BY FirstTodos, TodoFacts
<1>2. 1 \in DOMAIN MyTables[Head(TablesOf[c])]
  BY <1>1, VersionTyped DEF Control, Proper
<1>3. timer = -1 /\ ~Busy
  BY DEF Control, Call
<1>4. finish[c] = "none" /\ (c = "init" \/ finish["init"] = "success")
  BY DEF Call
<1>5. UNCHANGED <<si_ver, i, timer, finish>> /\ call' = c /\ pc' = 1
      /\ todo' = TablesOf[c] /\ slcr' \in {"open", "closed"}
      /\ table' = MyTables[Head(TablesOf[c])]
  BY DEF Call, MyTables
<1>6. MyTables' = MyTables
  BY <1>5 DEF MyTables, Version
<1> QED BY <1>1, <1>2, <1>3, <1>4, <1>5, <1>6 DEF Control, Busy

\* A step to the next operation of the table.
LEMMA ControlOn ==
  ASSUME Control, Busy, Op.op # "EXIT", pc' = pc + 1, i' \in 0..PollTime,
         timer' = -1, slcr' \in {"open", "closed"},
         UNCHANGED <<si_ver, call, todo, table, finish>>
  PROVE  Control'
<1>1. pc + 1 \in DOMAIN table
  BY AtOp
<1>2. MyTables' = MyTables
  BY DEF MyTables, Version
<1> QED BY <1>1, <1>2 DEF Control, Busy

\* A call returns.
LEMMA ControlReturn ==
  ASSUME Control, Busy, NEW code \in Codes, Return(code), i' \in 0..PollTime,
         timer = -1, UNCHANGED <<si_ver, call, timer, slcr>>
  PROVE  Control'
<1>1. /\ call \in Calls /\ finish[call] = "none"
      /\ call = "init" \/ finish["init"] = "success"
  BY DEF Control
<1>2. ~Busy' /\ finish' = [finish EXCEPT ![call] = code] /\ todo' = <<>>
  BY DEF Return, Busy
<1>3. finish' \in [Calls -> Codes]
  BY <1>1, <1>2 DEF Control
<1>4. finish'["init"] # "success" =>
        finish'["post"] = "none" /\ finish'["debug"] = "none"
  <2>1. CASE call = "init"
    BY <1>1, <1>2, <2>1 DEF Control, Calls
  <2>2. CASE call # "init"
    BY <1>1, <1>2, <2>2 DEF Control, Calls
  <2> QED BY <2>1, <2>2
<1> QED BY <1>1, <1>2, <1>3, <1>4 DEF Control

LEMMA ControlEndTable ==
  ASSUME Control, EndTable
  PROVE  Control'
<1>1. Busy /\ timer = -1 /\ UNCHANGED <<si_ver, call, i, timer, slcr>>
  BY DEF EndTable, Control, device
<1>2. ASSUME NEW code \in {"corrupt", "success"}, Return(code)
      PROVE  Control'
  <2>1. code \in Codes /\ i' \in 0..PollTime
    BY <1>1 DEF Codes, Control
  <2> QED BY <1>1, <1>2, <2>1, ControlReturn
<1>3. CASE /\ Len(todo) # 1 /\ todo' = Tail(todo) /\ UNCHANGED finish
           /\ table' = MyTables[Head(Tail(todo))]
  <2>1. /\ call \in Calls /\ todo \in TodosOf[call] /\ finish[call] = "none"
        /\ call = "init" \/ finish["init"] = "success"
    BY <1>1 DEF Control
  <2>2. Tail(todo) \in TodosOf[call]
    BY <1>3, <2>1, TodoFacts
  <2>3. Head(Tail(todo)) \in TableNames /\ Tail(todo) # <<>>
    BY <2>1, <2>2, TodoFacts
  <2>4. 1 \in DOMAIN MyTables[Head(Tail(todo))]
    BY <2>3, VersionTyped DEF Control, Proper
  <2>5. MyTables' = MyTables /\ pc' = 1
    BY <1>1 DEF MyTables, Version, EndTable
  <2> QED BY <1>1, <1>3, <2>1, <2>2, <2>3, <2>4, <2>5 DEF Control, Busy
<1> QED BY <1>2, <1>3 DEF EndTable, MyTables

LEMMA ControlNext ==
  ASSUME Control, [Next]_vars
  PROVE  Control'
<1>1. ASSUME NEW c \in Calls, Call(c)
      PROVE  Control'
  BY <1>1, ControlCall
<1>2. CASE WriteRegister
  <2>1. Busy /\ Op.op # "EXIT" /\ timer = -1 /\ pc' = pc + 1
    BY <1>2 DEF WriteRegister, Control, Writes
  <2>2. slcr' \in {"open", "closed"} /\ UNCHANGED <<i, timer>>
    BY <1>2 DEF WriteRegister, Control
  <2>3. UNCHANGED <<si_ver, call, todo, table, finish>>
    BY <1>2 DEF WriteRegister
  <2>4. i' \in 0..PollTime /\ timer' = -1
    BY <2>1, <2>2 DEF Control
  <2> QED BY <2>1, <2>2, <2>3, <2>4, ControlOn
<1>3. CASE PollSucceeds
  <2>1. Busy /\ Op.op # "EXIT" /\ timer = -1 /\ pc' = pc + 1
    BY <1>3 DEF PollSucceeds, Control
  <2>2. UNCHANGED <<si_ver, call, todo, table, finish, slcr>>
    BY <1>3 DEF PollSucceeds, device
  <2>3. i' \in 0..PollTime /\ timer' = -1 /\ slcr' \in {"open", "closed"}
    BY <1>3, <2>1, <2>2, PollTimeAssumption DEF PollSucceeds, Control
  <2> QED BY <2>1, <2>2, <2>3, ControlOn
<1>4. CASE PollAgain
  <2>1. i' \in 0..PollTime
    BY <1>4, PollTimeAssumption DEF PollAgain, Control
  <2>2. UNCHANGED <<si_ver, call, todo, table, pc, timer, finish, slcr>>
    BY <1>4 DEF PollAgain, device
  <2> QED BY <2>1, <2>2 DEF Control, Busy, Op, MyTables, Version
<1>5. CASE PollTimeout
  <2>1. Busy /\ timer = -1 /\ Return("timeout") /\ "timeout" \in Codes
    BY <1>5 DEF PollTimeout, Control, Codes
  <2>2. i' \in 0..PollTime /\ UNCHANGED <<si_ver, call, timer, slcr>>
    BY <1>5, PollTimeAssumption DEF PollTimeout, device
  <2> QED BY <2>1, <2>2, ControlReturn
<1>6. CASE StartDelay
  BY <1>6 DEF StartDelay, Control, Busy, Op, MyTables, Version, program, device
<1>7. CASE EndDelay
  <2>1. Busy /\ Op.op # "EXIT" /\ pc' = pc + 1 /\ timer' = -1
    BY <1>7 DEF EndDelay
  <2>2. UNCHANGED <<si_ver, call, todo, table, finish, i, slcr>>
    BY <1>7 DEF EndDelay, device
  <2>3. i' \in 0..PollTime /\ slcr' \in {"open", "closed"}
    BY <2>2 DEF Control
  <2> QED BY <2>1, <2>2, <2>3, ControlOn
<1>8. CASE EndTable
  BY <1>8, ControlEndTable
<1>9. CASE Hardware
  <2>1. UNCHANGED <<program, slcr>>
    BY <1>9 DEF Hardware, TimerCounts, PllLocks, DciCalibrated, DdrUp
  <2>2. UNCHANGED timer \/ TimerCounts
    BY <1>9 DEF Hardware, PllLocks, DciCalibrated, DdrUp
  <2>3. timer' \in -1..1 /\ (timer' # -1 => Busy /\ Op.op = "MASKDELAY")
    BY <2>2, AtOp DEF Control, TimerCounts
  <2> QED BY <2>1, <2>3 DEF Control, Busy, Op, MyTables, Version, program
<1>10. CASE UNCHANGED vars
  BY <1>10 DEF vars, Control, Busy, Op, MyTables, Version, program, device
<1> QED BY <1>1, <1>2, <1>3, <1>4, <1>5, <1>6, <1>7, <1>8, <1>9, <1>10
        DEF Next, Program

-----------------------------------------------------------------------------
(* The hardware. *)

\* The registers hold this status bit at 0.
Cleared(b, f) ==
  IF b \in LockBits THEN f[HeldBy[b]] = 1 ELSE f[HeldBy[b]] = 0

\* What the hardware does at once it has done.
Device ==
  /\ regs = [x \in DOMAIN PowerOn |-> regs[x]]
  /\ pin = [n \in 0..(PinCount - 1) |-> pin[n]]
  /\ running = [p \in PLLs |-> running[p]]
  /\ status \in [StatusBits -> {0, 1}]
  /\ lowFor \in [ResetPins -> 0..3]
  /\ \A b \in StatusBits : Cleared(b, regs) => status[b] = 0
  /\ \A p \in PLLs : regs[RESET[p]] = 1 => running[p] = regs[FDIV[p]]
  /\ \A n \in ResetPins : ~DrivenLow(n, regs) => lowFor[n] = 0

LEMMA HeldByFacts ==
  /\ \A p \in PLLs : LOCK[p] \in StatusBits /\ LOCK[p] \in LockBits
                     /\ HeldBy[LOCK[p]] = RESET[p]
  /\ "DCI_DONE" \in StatusBits /\ "DCI_DONE" \notin LockBits
  /\ HeldBy["DCI_DONE"] = "DCI_RESET"
  /\ "DDRC_MODE" \in StatusBits /\ "DDRC_MODE" \notin LockBits
  /\ HeldBy["DDRC_MODE"] = "DDRC_RSTB"
  /\ StatusBits = LockBits \cup {"DCI_DONE", "DDRC_MODE"}
  /\ \A b \in LockBits : \E p \in PLLs : b = LOCK[p]
<1>1. \A p, q \in PLLs : LOCK[p] = LOCK[q] => p = q
  BY DEF LOCK, PLLs
<1>2. \A p \in PLLs : LOCK[p] # "DCI_DONE" /\ LOCK[p] # "DDRC_MODE"
  BY DEF LOCK, PLLs
<1>3. \A p \in PLLs : (CHOOSE q \in PLLs : LOCK[p] = LOCK[q]) = p
  BY <1>1
<1>4. \A p \in PLLs : LOCK[p] \in StatusBits
  BY DEF StatusBits
<1>5. \A p \in PLLs : HeldBy[LOCK[p]] = RESET[p]
  BY <1>2, <1>3, <1>4 DEF HeldBy
<1>6. "DCI_DONE" \in StatusBits /\ "DDRC_MODE" \in StatusBits
  BY DEF StatusBits
<1>7. HeldBy["DCI_DONE"] = "DCI_RESET" /\ HeldBy["DDRC_MODE"] = "DDRC_RSTB"
  BY <1>6 DEF HeldBy
<1> QED BY <1>2, <1>4, <1>5, <1>6, <1>7 DEF LockBits, StatusBits

LEMMA ReactMeans ==
  ASSUME NEW f, React(f)
  PROVE  status' = [b \in StatusBits |-> IF Cleared(b, f) THEN 0 ELSE status[b]]
<1> SUFFICES ASSUME NEW b \in StatusBits
             PROVE  (\/ \E p \in PLLs : b = LOCK[p] /\ f[RESET[p]] = 1
                     \/ b = "DCI_DONE" /\ f.DCI_RESET = 0
                     \/ b = "DDRC_MODE" /\ f.DDRC_RSTB = 0) <=> Cleared(b, f)
  BY DEF React
<1>1. CASE b \in LockBits
  <2>1. PICK p \in PLLs : b = LOCK[p]
    BY <1>1, HeldByFacts
  <2>2. \A q \in PLLs : b = LOCK[q] => q = p
    BY <2>1 DEF LOCK, PLLs
  <2> QED BY <1>1, <2>1, <2>2, HeldByFacts DEF Cleared
<1>2. CASE b \notin LockBits
  BY <1>2, HeldByFacts DEF Cleared
<1> QED BY <1>1, <1>2

LEMMA DeviceInit == Init => Device
<1> SUFFICES ASSUME Init PROVE Device
  OBVIOUS
<1>1. regs = PowerOn /\ regs = [x \in DOMAIN PowerOn |-> regs[x]]
  BY PowerOnAssumption DEF Init
<1>2. \A b \in StatusBits : status[b] = IF b \in LockBits THEN 1 ELSE 0
  BY DEF Init, LockBits
<1>3. \A b \in LockBits : ~Cleared(b, regs)
  BY <1>1, HeldByFacts, PowerOnAssumption DEF Cleared
<1>4. \A b \in StatusBits : Cleared(b, regs) => status[b] = 0
  BY <1>2, <1>3
<1>5. pin = [n \in 0..(PinCount - 1) |-> pin[n]]
  <2> DEFINE pins == 0..(PinCount - 1)
  <2>1. pin = [n \in pins |-> "reset"]
    BY DEF Init
  <2> HIDE DEF pins
  <2>2. pin = [n \in pins |-> pin[n]]
    BY <2>1
  <2> QED BY <2>2 DEF pins
<1>6. /\ status \in [StatusBits -> {0, 1}]
      /\ lowFor \in [ResetPins -> 0..3]
      /\ \A n \in ResetPins : lowFor[n] = 0
      /\ running = [p \in PLLs |-> running[p]]
      /\ \A p \in PLLs : running[p] = regs[FDIV[p]]
  BY DEF Init
<1> QED BY <1>1, <1>4, <1>5, <1>6 DEF Device

\* A write to a register.
DeviceWrite(o) ==
  /\ regs' = Overlay(o.val, regs)
  /\ pin' = Overlay(o.pins, pin)
  /\ React(regs')

LEMMA DeviceWritten ==
  ASSUME Device, NEW o, DeviceWrite(o)
  PROVE  Device'
<1>1. regs' = [x \in DOMAIN PowerOn |-> regs'[x]]
  <2>1. DOMAIN regs = DOMAIN PowerOn
    BY DEF Device
  <2> QED BY <2>1 DEF DeviceWrite, Overlay
<1>2. pin' = [n \in 0..(PinCount - 1) |-> pin'[n]]
  <2> DEFINE pins == 0..(PinCount - 1)
  <2>1. pin = [n \in pins |-> pin[n]]
    BY DEF Device
  <2> HIDE DEF pins
  <2>2. DOMAIN pin = pins
    BY <2>1
  <2>3. pin' = [n \in pins |-> pin'[n]]
    BY <2>2 DEF DeviceWrite, Overlay
  <2> QED BY <2>3 DEF pins
<1>3. status' = [b \in StatusBits |-> IF Cleared(b, regs') THEN 0 ELSE status[b]]
  BY ReactMeans DEF DeviceWrite
<1>4. status' \in [StatusBits -> {0, 1}]
  BY <1>3 DEF Device
<1>5. \A b \in StatusBits : Cleared(b, regs') => status'[b] = 0
  BY <1>3
<1>6. /\ running' = [p \in PLLs |-> IF regs'[RESET[p]] = 1 THEN regs'[FDIV[p]]
                                    ELSE running[p]]
      /\ lowFor' = [n \in ResetPins |-> IF DrivenLow(n, regs') THEN lowFor[n]
                                        ELSE 0]
  BY DEF DeviceWrite, React
<1>7. /\ running' = [p \in PLLs |-> running'[p]]
      /\ \A p \in PLLs : regs'[RESET[p]] = 1 => running'[p] = regs'[FDIV[p]]
  BY <1>6
<1>8. /\ lowFor' \in [ResetPins -> 0..3]
      /\ \A n \in ResetPins : ~DrivenLow(n, regs') => lowFor'[n] = 0
  <2> HIDE DEF ResetPins
  <2> QED BY <1>6 DEF Device
<1>9. \A b, n : /\ Cleared(b, regs)' <=> Cleared(b, regs')
                /\ DrivenLow(n, regs)' <=> DrivenLow(n, regs')
  BY DEF Cleared, DrivenLow
<1> QED BY <1>1, <1>2, <1>4, <1>5, <1>7, <1>8, <1>9 DEF Device

\* The hardware going on by itself: bits that nothing holds down come up.
HardwareGoesOn ==
  /\ UNCHANGED <<program, slcr, regs, pin, running>>
  /\ status' \in [StatusBits -> {0, 1}]
  /\ \A b \in StatusBits : /\ status[b] = 1 => status'[b] = 1
                           /\ Cleared(b, regs) => status'[b] = status[b]
  /\ lowFor' \in [ResetPins -> 0..3]
  /\ \A n \in ResetPins : /\ lowFor[n] >= 1 => lowFor'[n] >= 1
                          /\ ~DrivenLow(n, regs) => lowFor'[n] = lowFor[n]

LEMMA BitRises ==
  ASSUME Device, NEW b \in StatusBits, status[b] = 0, ~Cleared(b, regs),
         status' = [status EXCEPT ![b] = 1],
         UNCHANGED <<program, slcr, regs, pin, running, lowFor>>
  PROVE  HardwareGoesOn
<1>1. \A n \in ResetPins : lowFor'[n] = lowFor[n]
  OBVIOUS
<1>2. lowFor' \in [ResetPins -> 0..3]
  BY DEF Device
<1>3. /\ status' \in [StatusBits -> {0, 1}]
      /\ \A c \in StatusBits : /\ status[c] = 1 => status'[c] = 1
                               /\ Cleared(c, regs) => status'[c] = status[c]
  BY DEF Device
<1> QED BY <1>1, <1>2, <1>3 DEF HardwareGoesOn

LEMMA HardwareSteps ==
  ASSUME Device, Hardware
  PROVE  HardwareGoesOn
<1>1. CASE TimerCounts
  <2>1. /\ \A n \in ResetPins : lowFor[n] \in 0..3
        /\ status \in [StatusBits -> {0, 1}]
    BY DEF Device
  <2>2. UNCHANGED <<program, slcr, regs, pin, status, running>>
    BY <1>1 DEF TimerCounts
  <2>3. lowFor' = [n \in ResetPins |->
                     IF DrivenLow(n, regs) /\ lowFor[n] < 3 THEN lowFor[n] + 1
                     ELSE lowFor[n]]
    BY <1>1 DEF TimerCounts
  <2>4. /\ lowFor' \in [ResetPins -> 0..3]
        /\ \A n \in ResetPins : /\ lowFor[n] >= 1 => lowFor'[n] >= 1
                                /\ ~DrivenLow(n, regs) => lowFor'[n] = lowFor[n]
    <3> HIDE DEF ResetPins
    <3>1. ASSUME NEW n \in ResetPins
          PROVE  LET low == DrivenLow(n, regs)
                     l == IF low /\ lowFor[n] < 3 THEN lowFor[n] + 1
                          ELSE lowFor[n]
                 IN /\ l \in 0..3
                    /\ lowFor[n] >= 1 => l >= 1
                    /\ ~low => l = lowFor[n]
      <4>1. CASE DrivenLow(n, regs) /\ lowFor[n] < 3
        BY <2>1, <4>1
      <4>2. CASE ~(DrivenLow(n, regs) /\ lowFor[n] < 3)
        BY <2>1, <4>2
      <4> QED BY <4>1, <4>2
    <3> QED BY <2>3, <3>1
  <2> QED BY <2>1, <2>2, <2>4 DEF HardwareGoesOn
<1>2. ASSUME NEW p \in PLLs, PllLocks(p)
      PROVE  HardwareGoesOn
  <2>1. LOCK[p] \in StatusBits /\ ~Cleared(LOCK[p], regs)
    BY <1>2, HeldByFacts DEF PllLocks, Cleared
  <2> QED BY <1>2, <2>1, BitRises DEF PllLocks
<1>3. CASE DciCalibrated
  <2>1. "DCI_DONE" \in StatusBits /\ ~Cleared("DCI_DONE", regs)
    BY <1>3, HeldByFacts DEF DciCalibrated, Cleared
  <2> QED BY <1>3, <2>1, BitRises DEF DciCalibrated
<1>4. CASE DdrUp
  <2>1. "DDRC_MODE" \in StatusBits /\ ~Cleared("DDRC_MODE", regs)
    BY <1>4, HeldByFacts DEF DdrUp, Cleared
  <2> QED BY <1>4, <2>1, BitRises DEF DdrUp
<1> QED BY <1>1, <1>2, <1>3, <1>4 DEF Hardware

\* A step of the program that touches no register but the keys.
Quiet == UNCHANGED <<regs, pin, status, running, lowFor>>

LEMMA StepKinds ==
  ASSUME [Next]_vars, Device
  PROVE  \/ Quiet
         \/ WriteRegister /\ Takes(Op) /\ DeviceWrite(Op)
         \/ Hardware /\ HardwareGoesOn
<1>1. ASSUME NEW c \in Calls, Call(c)
      PROVE  Quiet
  BY <1>1 DEF Call, Quiet
<1>2. CASE WriteRegister
  BY <1>2 DEF WriteRegister, DeviceWrite, Quiet
<1>3. CASE PollSucceeds
  BY <1>3 DEF PollSucceeds, Quiet, device
<1>4. CASE PollAgain
  BY <1>4 DEF PollAgain, Quiet, device
<1>5. CASE PollTimeout
  BY <1>5 DEF PollTimeout, Quiet, device
<1>6. CASE StartDelay
  BY <1>6 DEF StartDelay, Quiet, device
<1>7. CASE EndDelay
  BY <1>7 DEF EndDelay, Quiet, device
<1>8. CASE EndTable
  BY <1>8 DEF EndTable, Quiet, device
<1>9. CASE Hardware
  BY <1>9, HardwareSteps
<1>10. CASE UNCHANGED vars
  BY <1>10 DEF vars, Quiet, device
<1> QED BY <1>1, <1>2, <1>3, <1>4, <1>5, <1>6, <1>7, <1>8, <1>9, <1>10
        DEF Next, Program

LEMMA DeviceNext ==
  ASSUME Device, [Next]_vars
  PROVE  Device'
<1>1. \A b, n : regs' = regs => /\ Cleared(b, regs)' <=> Cleared(b, regs)
                                /\ DrivenLow(n, regs)' <=> DrivenLow(n, regs)
  BY DEF Cleared, DrivenLow
<1>2. CASE Quiet
  BY <1>1, <1>2 DEF Quiet, Device
<1>3. CASE HardwareGoesOn
  <2>1. UNCHANGED <<regs, pin, running>>
    BY <1>3 DEF HardwareGoesOn
  <2>2. \A b \in StatusBits : Cleared(b, regs)' => status'[b] = 0
    BY <1>1, <1>3, <2>1 DEF HardwareGoesOn, Device
  <2>3. \A n \in ResetPins : ~DrivenLow(n, regs)' => lowFor'[n] = 0
    BY <1>1, <1>3, <2>1 DEF HardwareGoesOn, Device
  <2> QED BY <1>3, <2>1, <2>2, <2>3 DEF HardwareGoesOn, Device
<1> QED BY <1>2, <1>3, StepKinds, DeviceWritten

-----------------------------------------------------------------------------
(* The keys of the SLCR. *)

\* They are as the operations of this table that wrote a key left them.
Keys ==
  Busy => /\ OpenedAt(table, pc) => slcr = "open"
          /\ ClosedAt(table, pc) => slcr = "closed"

LEMMA OpenedNext ==
  ASSUME NEW table_, NEW k \in Nat, k >= 1
  PROVE  /\ ~OpenedAt(table_, 1) /\ ~ClosedAt(table_, 1)
         /\ OpenedAt(table_, k + 1) =>
              \/ IsUnlock(table_[k])
              \/ OpenedAt(table_, k) /\ ~IsLock(table_[k])
         /\ ClosedAt(table_, k + 1) =>
              \/ IsLock(table_[k])
              \/ ClosedAt(table_, k) /\ ~IsUnlock(table_[k])
<1>1. 1..(1 - 1) = {} /\ (k + 1) - 1 = k
  OBVIOUS
<1>2. ~OpenedAt(table_, 1) /\ ~ClosedAt(table_, 1)
  BY <1>1 DEF OpenedAt, ClosedAt
<1>3. \A j \in 1..k : /\ k \in j..k
                      /\ j # k => j \in 1..(k - 1) /\ j..(k - 1) \subseteq j..k
  OBVIOUS
<1>4. ASSUME OpenedAt(table_, k + 1), ~IsUnlock(table_[k])
      PROVE  OpenedAt(table_, k) /\ ~IsLock(table_[k])
  <2>1. PICK j \in 1..k : IsUnlock(table_[j]) /\ \A m \in j..k : ~IsLock(table_[m])
    BY <1>1, <1>4 DEF OpenedAt
  <2>2. j # k
    BY <1>4, <2>1
  <2> QED BY <1>3, <2>1, <2>2 DEF OpenedAt
<1>5. ASSUME ClosedAt(table_, k + 1), ~IsLock(table_[k])
      PROVE  ClosedAt(table_, k) /\ ~IsUnlock(table_[k])
  <2>1. PICK j \in 1..k : IsLock(table_[j]) /\ \A m \in j..k : ~IsUnlock(table_[m])
    BY <1>1, <1>5 DEF ClosedAt
  <2>2. j # k
    BY <1>5, <2>1
  <2> QED BY <1>3, <2>1, <2>2 DEF ClosedAt
<1> QED BY <1>2, <1>4, <1>5

\* An operation was done that moved the program on in its table.
StepsOn ==
  /\ Busy
  /\ pc' = pc + 1
  /\ UNCHANGED <<si_ver, call, todo, table, finish>>

LEMMA KeysNext ==
  ASSUME Control, Keys, [Next]_vars
  PROVE  Keys'
<1>1. ASSUME pc' = 1
      PROVE  Keys'
  BY <1>1, OpenedNext DEF Keys, Busy
<1>2. ASSUME todo' = <<>>
      PROVE  Keys'
  BY <1>2 DEF Keys, Busy
<1>3. ASSUME UNCHANGED <<todo, table, pc, slcr>>
      PROVE  Keys'
  BY <1>3 DEF Keys, Busy
<1>4. ASSUME StepsOn, slcr' = IF IsUnlock(Op) THEN "open"
                              ELSE IF IsLock(Op) THEN "closed" ELSE slcr
      PROVE  Keys'
  <2>1. pc \in Nat /\ pc >= 1
    BY <1>4, AtOp DEF StepsOn
  <2>2. /\ table' = table /\ pc' = pc + 1 /\ Busy
        /\ Op = table[pc]
        /\ ~(IsUnlock(Op) /\ IsLock(Op))
    BY <1>4 DEF StepsOn, Op, IsUnlock, IsLock
  <2>3. OpenedAt(table, pc + 1) => slcr' = "open"
    BY <1>4, <2>1, <2>2, OpenedNext DEF Keys
  <2>4. ClosedAt(table, pc + 1) => slcr' = "closed"
    BY <1>4, <2>1, <2>2, OpenedNext DEF Keys
  <2> QED BY <2>2, <2>3, <2>4 DEF Keys
<1>5. CASE WriteRegister
  <2>1. StepsOn /\ Op.op \in Writes
    BY <1>5 DEF WriteRegister, StepsOn
  <2>2. slcr' = IF IsUnlock(Op) THEN "open"
                ELSE IF IsLock(Op) THEN "closed" ELSE slcr
    BY <1>5, <2>1 DEF WriteRegister, IsUnlock, IsLock
  <2> QED BY <1>4, <2>1, <2>2
<1>6. CASE PollSucceeds \/ EndDelay
  <2>1. StepsOn /\ ~IsUnlock(Op) /\ ~IsLock(Op) /\ UNCHANGED slcr
    BY <1>6 DEF PollSucceeds, EndDelay, StepsOn, IsUnlock, IsLock, Writes, device
  <2> QED BY <1>4, <2>1
<1>7. ASSUME NEW c \in Calls, Call(c)
      PROVE  Keys'
  BY <1>1, <1>7 DEF Call
<1>8. CASE EndTable
  BY <1>1, <1>8 DEF EndTable
<1>9. CASE PollTimeout
  BY <1>2, <1>9 DEF PollTimeout, Return
<1>10. CASE PollAgain \/ StartDelay \/ Hardware \/ UNCHANGED vars
  BY <1>3, <1>10 DEF PollAgain, StartDelay, Hardware, TimerCounts, PllLocks,
     DciCalibrated, DdrUp, vars, program, device
<1> QED BY <1>5, <1>6, <1>7, <1>8, <1>9, <1>10 DEF Next, Program

\* Every write to the SLCR takes effect.
LEMMA WritesTake ==
  ASSUME Control, Keys
  PROVE  SlcrWritesTakeEffect
<1> SUFFICES ASSUME Busy, Op.op \in Writes, Op.blk = "slcr"
             PROVE  slcr = "open"
  BY DEF SlcrWritesTakeEffect, Takes
<1>1. /\ MyTables \in AllOf /\ Head(todo) \in TableNames
      /\ table = MyTables[Head(todo)] /\ pc \in DOMAIN table /\ Op = table[pc]
  BY VersionTyped, AtOp DEF Control, Op
<1>2. OpenedAt(table, pc)
  BY <1>1, KeyRule
<1> QED BY <1>2 DEF Keys

-----------------------------------------------------------------------------
(* The program on the line. *)

\* The point of the line that the boot has reached: that of the operation to do
\* next, or the one where ps7_init or ps7_post_config will begin.
At(r) ==
  \/ Busy /\ call # "debug" /\ r = <<Head(todo), pc>>
  \/ ~Busy /\ finish["init"] = "none" /\ r = <<"mio", 1>>
  \/ /\ finish["init"] = "success" /\ finish["post"] = "none"
     /\ Busy => call = "debug"
     /\ r = <<"post", 1>>

\* What the tables tell of point r is so.
AsTold(r) ==
  /\ regs = RegsAt(MyTables, r)
  /\ pin = PinsAt(MyTables, r)
  /\ \A b \in StatusBits : KnownUp(MyTables, b, r) => status[b] = 1
  /\ \A p \in PLLs : KnownTaken(MyTables, p, r) => running[p] = regs[FDIV[p]]

OnLine == \A r : At(r) => AsTold(r)

\* The operation at r was done, and s is next.
DoneAt(r, s) ==
  /\ At(r) /\ Busy /\ call # "debug"
  /\ Op = OpAt(MyTables, r)
  /\ Follows(MyTables, r, s)
  /\ WriteRegister \/ PollSucceeds \/ EndDelay \/ (EndTable /\ Op.op = "EXIT")

LEMMA TablesStay ==
  ASSUME [Next]_vars
  PROVE  MyTables' = MyTables
BY DEF Next, Call, Program, WriteRegister, PollSucceeds, PollAgain, PollTimeout,
   StartDelay, EndDelay, EndTable, Hardware, TimerCounts, PllLocks, DciCalibrated,
   DdrUp, vars, program, MyTables, Version

LEMMA AtStepsOn ==
  ASSUME Control, StepsOn, Op.op # "EXIT", NEW s, At(s)',
         WriteRegister \/ PollSucceeds \/ EndDelay
  PROVE  \/ At(s) /\ call = "debug"
         \/ \E r : DoneAt(r, s)
<1>1. /\ Busy /\ Busy' /\ call' = call /\ todo' = todo /\ finish' = finish
      /\ pc' = pc + 1
  BY DEF StepsOn, Busy
<1>2. call \in Calls /\ finish[call] = "none" /\ todo \in TodosOf[call]
  BY <1>1 DEF Control
<1>3. CASE call = "debug"
  BY <1>1, <1>3 DEF At
<1>4. CASE call # "debug"
  <2>1. s = <<Head(todo), pc + 1>>
    BY <1>1, <1>2, <1>4 DEF At, Calls
  <2>2. Head(todo) \in LineTables /\ Proper(MyTables)
    BY <1>2, <1>4, TodoFacts, VersionTyped DEF Control
  <2>3. /\ pc \in DOMAIN MyTables[Head(todo)]
        /\ pc # Len(MyTables[Head(todo)])
        /\ Op = MyTables[Head(todo)][pc]
    BY <1>1, AtOp DEF Control
  <2>4. Follows(MyTables, <<Head(todo), pc>>, s)
    BY <2>1, <2>2, <2>3, FollowsInTable
  <2>5. At(<<Head(todo), pc>>) /\ Op = OpAt(MyTables, <<Head(todo), pc>>)
    BY <1>1, <1>4, <2>3 DEF At, OpAt
  <2> QED BY <1>1, <1>4, <2>4, <2>5 DEF DoneAt
<1> QED BY <1>3, <1>4

LEMMA AtReturns ==
  ASSUME Control, Busy, NEW code, code # "none", Return(code), UNCHANGED call,
         NEW s, At(s)'
  PROVE  \/ At(s) /\ call = "debug"
         \/ call = "init" /\ code = "success" /\ s = <<"post", 1>>
<1>1. /\ call \in Calls /\ finish[call] = "none" /\ finish \in [Calls -> Codes]
      /\ call = "init" \/ finish["init"] = "success"
  BY DEF Control
<1>2. ~Busy' /\ finish' = [finish EXCEPT ![call] = code]
  BY DEF Return, Busy
<1>3. finish'[call] = code /\ \A c \in Calls \ {call} : finish'[c] = finish[c]
  BY <1>1, <1>2
<1>4. \/ finish'["init"] = "none"
      \/ finish'["init"] = "success" /\ finish'["post"] = "none" /\ s = <<"post", 1>>
  BY <1>2 DEF At
<1>5. CASE call = "debug"
  BY <1>1, <1>3, <1>4, <1>5 DEF At, Calls
<1>6. CASE call = "post"
  BY <1>1, <1>3, <1>4, <1>6 DEF Calls
<1>7. CASE call = "init"
  BY <1>1, <1>3, <1>4, <1>7 DEF Calls
<1> QED BY <1>1, <1>5, <1>6, <1>7 DEF Calls

LEMMA AtEndTable ==
  ASSUME Control, EndTable, NEW s, At(s)'
  PROVE  \/ At(s) /\ call = "debug"
         \/ \E r : DoneAt(r, s)
<1> DEFINE t == Head(todo)
           r == <<t, pc>>
<1>1. /\ Busy /\ call' = call /\ call \in Calls /\ todo \in TodosOf[call]
      /\ finish[call] = "none" /\ t \in TableNames
      /\ call = "init" \/ finish["init"] = "success"
  BY AtOp DEF EndTable, Control
<1>2. CASE Op.op # "EXIT"
  BY <1>1, <1>2, AtReturns DEF EndTable
<1>3. CASE Op.op = "EXIT" /\ call = "debug"
  <2>1. Len(todo) = 1
    BY <1>1, <1>3, TodoFacts
  <2> QED BY <1>1, <1>3, <2>1, AtReturns DEF EndTable
<1>4. CASE Op.op = "EXIT" /\ call # "debug"
  <2>1. t \in LineTables /\ Proper(MyTables) /\ pc = Len(MyTables[t])
        /\ Op = MyTables[t][pc]
    BY <1>1, <1>4, AtOp, TodoFacts, VersionTyped DEF Control
  <2>2. At(r) /\ Op = OpAt(MyTables, r)
    BY <1>1, <1>4, <2>1 DEF At, OpAt
  <2>3. CASE Len(todo) = 1
    <3>1. call = "init" /\ s = <<"post", 1>>
      BY <1>1, <1>4, <2>3, AtReturns DEF EndTable
    <3>2. t = "peripherals"
      BY <1>1, <2>3, <3>1, TodoFacts
    <3>3. Rank["post"] = Rank[t] + 1 /\ "post" \in LineTables
      BY <3>2 DEF Rank, LineTables
    <3>4. Follows(MyTables, r, s)
      BY <2>1, <3>1, <3>3, FollowsTable
    <3> QED BY <1>1, <1>4, <2>2, <3>4 DEF DoneAt
  <2>4. CASE Len(todo) # 1
    <3>1. call = "init" /\ Tail(todo) \in TodosOf[call]
          /\ Rank[Head(Tail(todo))] = Rank[t] + 1
      BY <1>1, <2>4, TodoFacts
    <3>2. Head(Tail(todo)) \in LineTables /\ Tail(todo) # <<>>
      BY <1>1, <3>1, TodoFacts
    <3>3. todo' = Tail(todo) /\ pc' = 1 /\ finish' = finish /\ Busy'
      BY <1>4, <2>4, <3>2 DEF EndTable, Busy
    <3>4. s = <<Head(Tail(todo)), 1>>
      BY <1>1, <3>1, <3>3 DEF At
    <3>5. Follows(MyTables, r, s)
      BY <2>1, <3>1, <3>2, <3>4, FollowsTable
    <3> QED BY <1>1, <1>4, <2>2, <3>5 DEF DoneAt
  <2> QED BY <2>3, <2>4
<1> QED BY <1>2, <1>3, <1>4

LEMMA AtCall ==
  ASSUME Control, NEW c \in Calls, Call(c), NEW s, At(s)'
  PROVE  At(s)
<1>1. /\ ~Busy /\ finish[c] = "none" /\ (c = "init" \/ finish["init"] = "success")
      /\ call' = c /\ todo' = TablesOf[c] /\ pc' = 1 /\ finish' = finish
  BY DEF Call
<1>2. TablesOf[c] \in TodosOf[c] /\ TablesOf[c] # <<>> /\ Busy'
  BY <1>1, FirstTodos, TodoFacts DEF Busy
<1>3. CASE c = "init"
  BY <1>1, <1>2, <1>3, FirstTodos DEF At
<1>4. CASE c = "post"
  <2>1. Head(TablesOf[c]) = "post"
    BY <1>2, <1>4, TodoFacts
  <2> QED BY <1>1, <1>2, <1>4, <2>1 DEF At
<1>5. CASE c = "debug"
  BY <1>1, <1>2, <1>5 DEF At
<1> QED BY <1>3, <1>4, <1>5 DEF Calls

\* The boot stays where it is on the line, or goes on by one point.
LEMMA AtNext ==
  ASSUME Control, [Next]_vars, NEW s, At(s)'
  PROVE  \/ At(s) /\ (WriteRegister => call = "debug")
         \/ \E r : DoneAt(r, s)
<1>1. ASSUME NEW c \in Calls, Call(c)
      PROVE  At(s) /\ ~WriteRegister
  BY <1>1, AtCall DEF Call, WriteRegister
<1>2. CASE WriteRegister
  <2>1. StepsOn /\ Op.op # "EXIT"
    BY <1>2 DEF WriteRegister, StepsOn, Writes
  <2> QED BY <1>2, <2>1, AtStepsOn
<1>3. CASE PollSucceeds \/ EndDelay
  <2>1. StepsOn /\ Op.op # "EXIT" /\ ~WriteRegister
    BY <1>3 DEF PollSucceeds, EndDelay, WriteRegister, Writes, StepsOn
  <2> QED BY <1>3, <2>1, AtStepsOn
<1>4. CASE PollTimeout
  <2>1. ~WriteRegister
    BY <1>4 DEF PollTimeout, WriteRegister, Writes
  <2> QED BY <1>4, <2>1, AtReturns DEF PollTimeout
<1>5. CASE EndTable
  <2>1. ~WriteRegister
    BY <1>5 DEF EndTable, WriteRegister
  <2> QED BY <1>5, <2>1, AtEndTable
<1>6. CASE PollAgain \/ StartDelay \/ Hardware \/ UNCHANGED vars
  <2>1. UNCHANGED <<todo, call, pc, finish>>
    BY <1>6 DEF PollAgain, StartDelay, Hardware, TimerCounts, PllLocks,
       DciCalibrated, DdrUp, vars, program
  <2>2. At(s)
    BY <2>1 DEF At, Busy
  <2>3. CASE WriteRegister
    <3>1. Control /\ Busy /\ pc' = pc + 1
      BY <2>3 DEF WriteRegister
    <3>2. pc \in Nat
      BY <3>1, AtOp
    <3> QED BY <2>1, <3>1, <3>2
  <2> QED BY <2>2, <2>3
<1> QED BY <1>1, <1>2, <1>3, <1>4, <1>5, <1>6 DEF Next, Program

-----------------------------------------------------------------------------
(* What the tables tell is so. *)

LEMMA OnLineInit == Init => OnLine
<1> SUFFICES ASSUME Init, NEW r, At(r)
             PROVE  AsTold(r)
  BY DEF OnLine
<1>1. r = <<"mio", 1>>
  BY DEF Init, At, Busy, Calls
<1>2. Proper(MyTables)
  BY VersionTyped DEF Init
<1>3. ASSUME NEW q \in Points(MyTables)
      PROVE  ~Before(q, r)
  <2>1. q[1] \in LineTables /\ q[2] \in DOMAIN MyTables[q[1]]
    BY PointsOf
  <2>2. q[2] \in Nat /\ q[2] >= 1 /\ Rank[q[1]] \in Nat /\ Rank[q[1]] >= 1
    <3>1. DOMAIN MyTables[q[1]] = 1..Len(MyTables[q[1]])
          /\ Len(MyTables[q[1]]) \in Nat
      BY <1>2, <2>1, RankTyped DEF Proper
    <3>2. Rank[q[1]] \in 1..6
      BY <2>1, RankTyped
    <3> QED BY <2>1, <3>1, <3>2
  <2>3. Rank["mio"] = 1
    BY DEF Rank
  <2> QED BY <1>1, <2>2, <2>3 DEF Before
<1>4. \A x : Setters(MyTables, x, r) = {} /\ Connectors(MyTables, x, r) = {}
             /\ Polls(MyTables, x, r) = {}
  BY <1>3 DEF Setters, Connectors, Polls
<1>5. regs = RegsAt(MyTables, r)
  BY <1>4, PowerOnAssumption DEF Init, RegsAt, FieldAt
<1>6. pin = PinsAt(MyTables, r)
  <2> DEFINE pins == 0..(PinCount - 1)
  <2>1. /\ pin = [n \in pins |-> "reset"]
        /\ PinsAt(MyTables, r) = [n \in pins |-> PinAt(MyTables, n, r)]
    BY DEF Init, PinsAt
  <2> HIDE DEF pins
  <2> QED BY <1>4, <2>1 DEF PinAt
<1>7. \A b \in StatusBits : KnownUp(MyTables, b, r) => status[b] = 1
  BY <1>4 DEF KnownUp, LockBits, Init
<1>8. \A p \in PLLs : running[p] = regs[FDIV[p]]
  BY DEF Init
<1> QED BY <1>5, <1>6, <1>7, <1>8 DEF AsTold

\* The debugger's table leaves the registers as they are.
LEMMA DebugQuiet ==
  ASSUME Control, Device, WriteRegister, call = "debug"
  PROVE  Quiet
<1>1. CASE ~Takes(Op)
  BY <1>1 DEF WriteRegister, Quiet
<1>2. CASE Takes(Op)
  <2>1. DeviceWrite(Op) /\ Busy /\ Op.op \in Writes
    BY <1>2 DEF WriteRegister, DeviceWrite
  <2>2. Head(todo) = "debug" /\ MyTables \in AllOf
    BY <2>1, TodoFacts, VersionTyped DEF Control
  <2>3. pc \in DOMAIN MyTables.debug /\ Op = MyTables.debug[pc]
    BY <2>1, <2>2, AtOp DEF Control
  <2>4. DOMAIN Op.val = {} /\ DOMAIN Op.pins = {}
    BY <2>1, <2>2, <2>3, DebugRule DEF Sets, Connects
  <2>5. regs' = regs
    BY <2>1, <2>4 DEF DeviceWrite, Overlay, Device
  <2>6. pin' = pin
    <3> DEFINE pins == 0..(PinCount - 1)
    <3>1. pin = [n \in pins |-> pin[n]]
      BY DEF Device
    <3> HIDE DEF pins
    <3>2. DOMAIN pin = pins
      BY <3>1
    <3> QED BY <2>1, <2>4, <3>1, <3>2 DEF DeviceWrite, Overlay
  <2>7. status' = status
    <3>1. status' = [b \in StatusBits |-> IF Cleared(b, regs) THEN 0 ELSE status[b]]
      BY <2>1, <2>5, ReactMeans DEF DeviceWrite
    <3> QED BY <3>1 DEF Device
  <2>8. running' = running
    BY <2>1, <2>5 DEF DeviceWrite, React, Device
  <2>9. lowFor' = lowFor
    <3>1. lowFor' = [n \in ResetPins |-> IF DrivenLow(n, regs) THEN lowFor[n] ELSE 0]
      BY <2>1, <2>5 DEF DeviceWrite, React
    <3> HIDE DEF ResetPins
    <3>2. lowFor = [n \in ResetPins |-> lowFor[n]]
      BY DEF Device
    <3> QED BY <3>1, <3>2 DEF Device
  <2> QED BY <2>5, <2>6, <2>7, <2>8, <2>9 DEF Quiet
<1> QED BY <1>1, <1>2

\* What a step does to the registers and the hardware, on the line and off it.
LEMMA OffLine ==
  ASSUME Control, Device, [Next]_vars, WriteRegister => call = "debug"
  PROVE  Quiet \/ HardwareGoesOn
BY StepKinds, DebugQuiet

LEMMA OnTheLine ==
  ASSUME Control, Keys, NEW r, NEW s, DoneAt(r, s)
  PROVE  \/ /\ Op.op \in Writes /\ DeviceWrite(Op)
         \/ /\ Op.op = "MASKPOLL" /\ Quiet
            /\ \E b \in DOMAIN Op.val : status[b] = 1
         \/ Op.op \in {"MASKDELAY", "EXIT"} /\ Quiet
<1>1. CASE WriteRegister
  <2>1. Takes(Op) /\ Op.op \in Writes
    BY <1>1, WritesTake DEF SlcrWritesTakeEffect, WriteRegister
  <2> QED BY <1>1, <2>1 DEF WriteRegister, DeviceWrite
<1>2. CASE PollSucceeds
  BY <1>2 DEF PollSucceeds, Quiet, device
<1>3. CASE EndDelay
  BY <1>3 DEF EndDelay, Quiet, device
<1>4. CASE EndTable /\ Op.op = "EXIT"
  BY <1>4 DEF EndTable, Quiet, device
<1> QED BY <1>1, <1>2, <1>3, <1>4 DEF DoneAt

LEMMA OnLineNext ==
  ASSUME Control, Keys, Device, OnLine, [Next]_vars
  PROVE  OnLine'
<1> SUFFICES ASSUME NEW s, At(s)'
             PROVE  AsTold(s)'
  BY DEF OnLine
<1> DEFINE T == MyTables
<1>1. MyTables' = MyTables
  BY TablesStay
<1>2. CASE At(s) /\ (WriteRegister => call = "debug")
  <2>1. AsTold(s)
    BY <1>2 DEF OnLine
  <2>2. CASE Quiet
    BY <1>1, <2>1, <2>2 DEF AsTold, Quiet
  <2>3. CASE HardwareGoesOn
    BY <1>1, <2>1, <2>3 DEF AsTold, HardwareGoesOn
  <2> QED BY <1>2, <2>2, <2>3, OffLine
<1>3. ASSUME NEW r, DoneAt(r, s)
      PROVE  AsTold(s)'
  <2>1. /\ Proper(T) /\ Follows(T, r, s) /\ AsTold(r) /\ Op = OpAt(T, r)
    BY <1>3, VersionTyped DEF DoneAt, OnLine, Control
  <2>2. CASE Op.op \in Writes /\ DeviceWrite(Op)
    <3>1. regs' = RegsAt(T, s)
      BY <2>1, <2>2, RegsNext DEF DeviceWrite, AsTold
    <3>2. pin' = PinsAt(T, s)
      BY <2>1, <2>2, PinsNext DEF DeviceWrite, AsTold
    <3>3. ASSUME NEW b \in StatusBits, KnownUp(T, b, s)
          PROVE  status'[b] = 1
      <4>1. KnownUp(T, b, r) /\ HeldBy[b] \notin Sets(Op)
        BY <2>1, <2>2, <3>3, UpNext DEF Writes
      <4>2. status[b] = 1 /\ ~Cleared(b, regs)
        BY <2>1, <4>1 DEF AsTold, Device
      <4>3. regs'[HeldBy[b]] = regs[HeldBy[b]]
        <5>1. HeldBy[b] \in DOMAIN PowerOn
          BY HeldByFacts, PowerOnAssumption
        <5> QED BY <2>2, <4>1, <5>1 DEF DeviceWrite, Overlay, Sets, Device
      <4>4. ~Cleared(b, regs')
        BY <4>2, <4>3 DEF Cleared
      <4> QED BY <2>2, <4>2, <4>4, ReactMeans DEF DeviceWrite
    <3>4. ASSUME NEW p \in PLLs, KnownTaken(T, p, s)
          PROVE  running'[p] = regs'[FDIV[p]]
      <4>1. /\ FDIV[p] \notin Sets(Op)
            /\ \/ KnownTaken(T, p, r)
               \/ RESET[p] \in Sets(Op) /\ Op.val[RESET[p]] = 1
        BY <2>1, <3>4, TakenNext
      <4>2. running'[p] = IF regs'[RESET[p]] = 1 THEN regs'[FDIV[p]]
                          ELSE running[p]
        BY <2>2 DEF DeviceWrite, React
      <4>3. FDIV[p] \in DOMAIN regs /\ RESET[p] \in DOMAIN regs
        BY PowerOnAssumption DEF Device
      <4>4. regs'[FDIV[p]] = regs[FDIV[p]]
        BY <2>2, <4>1, <4>3 DEF DeviceWrite, Overlay, Sets
      <4>5. CASE KnownTaken(T, p, r)
        BY <2>1, <4>2, <4>4, <4>5 DEF AsTold
      <4>6. CASE RESET[p] \in Sets(Op) /\ Op.val[RESET[p]] = 1
        BY <2>2, <4>2, <4>3, <4>6 DEF DeviceWrite, Overlay, Sets
      <4> QED BY <4>1, <4>5, <4>6
    <3> QED BY <1>1, <3>1, <3>2, <3>3, <3>4 DEF AsTold
  <2>3. CASE Op.op \in {"MASKPOLL", "MASKDELAY", "EXIT"} /\ Quiet
    <3>1. Op.op \notin Writes /\ Sets(Op) = {}
      BY <2>3 DEF Sets, Writes
    <3>2. RegsAt(T, s) = RegsAt(T, r) /\ PinsAt(T, s) = PinsAt(T, r)
      BY <2>1, <3>1, RegsNext, PinsNext
    <3>3. ASSUME NEW b \in StatusBits, KnownUp(T, b, s)
          PROVE  status[b] = 1
      <4>1. CASE KnownUp(T, b, r)
        BY <2>1, <4>1 DEF AsTold
      <4>2. CASE Op.op = "MASKPOLL" /\ DOMAIN Op.val = {b}
        BY <1>3, <4>2, OnTheLine DEF Writes
      <4> QED BY <2>1, <3>3, <4>1, <4>2, UpNext
    <3>4. ASSUME NEW p \in PLLs, KnownTaken(T, p, s)
          PROVE  KnownTaken(T, p, r)
      BY <2>1, <3>1, <3>4, TakenNext
    <3> QED BY <1>1, <2>1, <2>3, <3>2, <3>3, <3>4 DEF AsTold, Quiet
  <2> QED BY <1>3, <2>2, <2>3, OnTheLine
<1> QED BY <1>2, <1>3, AtNext

-----------------------------------------------------------------------------
(* What the rules make of it. *)

\* At a point of the line the registers hold f, the status bits st and the PLLs
\* run on run, as told: what is in use is ready.
LEMMA RulesGive ==
  ASSUME NEW T \in AllOf, NEW s \in Points(T), NEW f, NEW st, NEW run,
         f = RegsAt(T, s),
         \A b \in StatusBits : KnownUp(T, b, s) => st[b] = 1,
         \A p \in PLLs : KnownTaken(T, p, s) => run[p] = f[FDIV[p]]
  PROVE  /\ \A p \in PLLs : f[BYPASS[p]] = 0 => st[LOCK[p]] = 1
         /\ \A p \in PLLs : ServesAt(T, p, s) => /\ f[BYPASS[p]] = 0
                                                 /\ st[LOCK[p]] = 1
                                                 /\ run[p] = f[FDIV[p]]
         /\ f.DDRC_RSTB = 1 => /\ ServesAt(T, "DDR", s)
                               /\ f.DDR_3X.act /\ f.DDR_2X.act
                               /\ st["DCI_DONE"] = 1
<1>1. \A p \in PLLs : f[BYPASS[p]] = FieldAt(T, BYPASS[p], s)
  BY PowerOnAssumption DEF RegsAt
<1>2. \A p \in PLLs : KnownUp(T, LOCK[p], s) => st[LOCK[p]] = 1
  BY HeldByFacts
<1>3. \A p \in PLLs : f[BYPASS[p]] = 0 => st[LOCK[p]] = 1
  BY <1>1, <1>2, PllRule
<1>4. \A p \in PLLs : ServesAt(T, p, s) => /\ f[BYPASS[p]] = 0
                                           /\ st[LOCK[p]] = 1
                                           /\ run[p] = f[FDIV[p]]
  BY <1>1, <1>2 DEF ServesAt
<1>5. f.DDRC_RSTB = 1 => /\ ServesAt(T, "DDR", s)
                         /\ f.DDR_3X.act /\ f.DDR_2X.act
                         /\ KnownUp(T, "DCI_DONE", s)
  BY DdrRule
<1> QED BY <1>3, <1>4, <1>5, HeldByFacts

\* A write of the line leads to the next point of its table.
LEMMA WriteOnLine ==
  ASSUME Control, WriteRegister, call # "debug",
         NEW t, t = Head(todo), NEW k, k = pc
  PROVE  /\ t \in LineTables /\ MyTables \in AllOf /\ Proper(MyTables)
         /\ table = MyTables[t] /\ k \in Nat /\ k >= 1 /\ k + 1 <= Len(table)
         /\ <<t, k>> \in Points(MyTables) /\ <<t, k + 1>> \in Points(MyTables)
         /\ At(<<t, k>>) /\ At(<<t, k + 1>>)'
         /\ Op = OpAt(MyTables, <<t, k>>)
         /\ Follows(MyTables, <<t, k>>, <<t, k + 1>>)
<1>1. /\ Busy /\ Busy' /\ Op.op # "EXIT" /\ pc' = k + 1
      /\ todo' = todo /\ call' = call
  BY DEF WriteRegister, Writes, Busy
<1>2. /\ t \in LineTables /\ MyTables \in AllOf /\ Proper(MyTables)
      /\ t \in TableNames
  BY <1>1, TodoFacts, VersionTyped DEF Control
<1>3. /\ table = MyTables[t] /\ Op = MyTables[t][k]
      /\ k \in DOMAIN MyTables[t] /\ k \in Nat /\ k >= 1 /\ k <= Len(table)
      /\ k # Len(table) /\ Len(table) \in Nat
  BY <1>1, AtOp DEF Control
<1>4. k + 1 <= Len(table)
  BY <1>3
<1>5. k + 1 \in DOMAIN MyTables[t] /\ Follows(MyTables, <<t, k>>, <<t, k + 1>>)
  BY <1>2, <1>3, FollowsInTable
<1>6. <<t, k>> \in Points(MyTables) /\ <<t, k + 1>> \in Points(MyTables)
  BY <1>2, <1>3, <1>5, PointsOf
<1>7. At(<<t, k>>) /\ At(<<t, k + 1>>)'
  BY <1>1 DEF At
<1> QED BY <1>2, <1>3, <1>4, <1>5, <1>6, <1>7 DEF OpAt

InUse == PllInUseIsLocked /\ DdrControllerReady

LEMMA InUseInit == Init => InUse
<1> SUFFICES ASSUME Init PROVE InUse
  OBVIOUS
<1> DEFINE s == <<"mio", 1>>
<1>1. At(s) /\ MyTables \in AllOf /\ Proper(MyTables)
  BY VersionTyped DEF Init, At, Busy, Calls
<1>2. AsTold(s)
  BY <1>1, OnLineInit DEF OnLine
<1>3. s \in Points(MyTables)
  <2>1. "mio" \in LineTables /\ "mio" \in TableNames
    BY RankTyped
  <2>2. 1 \in DOMAIN MyTables["mio"]
    BY <1>1, <2>1 DEF Proper
  <2> QED BY <2>1, <2>2, PointsOf
<1> HIDE DEF s
<1>4. /\ \A p \in PLLs : regs[BYPASS[p]] = 0 => status[LOCK[p]] = 1
      /\ \A p \in PLLs : ServesAt(MyTables, p, s) =>
           /\ regs[BYPASS[p]] = 0
           /\ status[LOCK[p]] = 1
           /\ running[p] = regs[FDIV[p]]
      /\ regs.DDRC_RSTB = 1 => /\ ServesAt(MyTables, "DDR", s)
                               /\ regs.DDR_3X.act /\ regs.DDR_2X.act
                               /\ status["DCI_DONE"] = 1
  BY <1>1, <1>2, <1>3, RulesGive DEF AsTold
<1>5. "DDR" \in PLLs
  BY DEF PLLs
<1> QED BY <1>4, <1>5 DEF InUse, PllInUseIsLocked, DdrControllerReady, PllServes

LEMMA InUseNext ==
  ASSUME Control, Keys, Device, OnLine, InUse, [Next]_vars
  PROVE  InUse'
<1>1. CASE Quiet \/ HardwareGoesOn
  <2>1. UNCHANGED <<regs, running>>
        /\ \A b \in StatusBits : status[b] = 1 => status'[b] = 1
    BY <1>1 DEF Quiet, HardwareGoesOn
  <2>2. "DDR" \in PLLs
    BY DEF PLLs
  <2> QED BY <2>1, <2>2, HeldByFacts
          DEF InUse, PllInUseIsLocked, DdrControllerReady, PllServes
<1>2. CASE WriteRegister /\ call # "debug"
  <2>p. PICK t, k : t = Head(todo) /\ k = pc
    OBVIOUS
  <2> DEFINE s == <<t, k + 1>>
  <2>1. MyTables \in AllOf /\ s \in Points(MyTables) /\ At(s)'
    BY <1>2, <2>p, WriteOnLine
  <2> HIDE DEF s
  <2>2. OnLine' /\ MyTables' = MyTables
    BY OnLineNext, TablesStay
  <2>3. AsTold(s)'
    BY <2>1, <2>2 DEF OnLine
  <2>4. /\ regs' = RegsAt(MyTables, s)
        /\ \A b \in StatusBits : KnownUp(MyTables, b, s) => status'[b] = 1
        /\ \A p \in PLLs : KnownTaken(MyTables, p, s) =>
                             running'[p] = regs'[FDIV[p]]
    BY <2>2, <2>3 DEF AsTold, s
  <2>5. /\ \A p \in PLLs : regs'[BYPASS[p]] = 0 => status'[LOCK[p]] = 1
        /\ \A p \in PLLs : ServesAt(MyTables, p, s) =>
             /\ regs'[BYPASS[p]] = 0
             /\ status'[LOCK[p]] = 1
             /\ running'[p] = regs'[FDIV[p]]
        /\ regs'.DDRC_RSTB = 1 => /\ ServesAt(MyTables, "DDR", s)
                                  /\ regs'.DDR_3X.act /\ regs'.DDR_2X.act
                                  /\ status'["DCI_DONE"] = 1
    BY <2>1, <2>4, RulesGive
  <2>6. "DDR" \in PLLs
    BY DEF PLLs
  <2> QED BY <2>5, <2>6 DEF InUse, PllInUseIsLocked, DdrControllerReady, PllServes
<1> QED BY <1>1, <1>2, OffLine

-----------------------------------------------------------------------------
(* Writes meet blocks that can be used. *)

LEMMA MoreServing ==
  ASSUME NEW blk, NEW f, NEW c, NEW S, NEW R, S \subseteq R, Usable(blk, f, S, c)
  PROVE  Usable(blk, f, R, c)
<1>1. CASE blk = "ddrc"
  BY <1>1 DEF Usable
<1>2. CASE blk = "uart1"
  BY <1>2 DEF Usable
<1>3. CASE blk = "qspi"
  BY <1>3 DEF Usable
<1>4. CASE blk = "gpio"
  BY <1>4 DEF Usable
<1>5. CASE blk = "devcfg"
  BY <1>5 DEF Usable
<1>6. CASE blk \notin {"ddrc", "uart1", "qspi", "gpio", "devcfg"}
  BY <1>6 DEF Usable
<1> QED BY <1>1, <1>2, <1>3, <1>4, <1>5, <1>6

\* The PLLs that are known to serve do.
LEMMA KnownServing ==
  ASSUME Control, NEW r \in Points(MyTables), AsTold(r)
  PROVE  ServingAt(MyTables, r) \subseteq Serving
<1>1. MyTables \in AllOf
  BY VersionTyped DEF Control
<1>2. \A p \in PLLs : ServesAt(MyTables, p, r) => PllServes(p)
  BY <1>1, RulesGive DEF AsTold, PllServes
<1> QED BY <1>2 DEF ServingAt, Serving

LEMMA WritesUsable ==
  ASSUME Control, OnLine
  PROVE  BlocksUsableWhenWritten
<1> SUFFICES ASSUME Busy, Op.op \in Writes
             PROVE  Usable(Op.blk, regs, Serving, pin)
  BY DEF BlocksUsableWhenWritten
<1> DEFINE t == Head(todo)
           r == <<t, pc>>
<1>1. /\ MyTables \in AllOf /\ t \in TableNames /\ Op = MyTables[t][pc]
      /\ pc \in DOMAIN MyTables[t] /\ todo \in TodosOf[call] /\ call \in Calls
  BY AtOp, VersionTyped DEF Control
<1>2. CASE call = "debug"
  <2>1. t = "debug"
    BY <1>1, <1>2, TodoFacts
  <2>2. Op.blk \notin {"ddrc", "uart1", "qspi", "gpio", "devcfg"}
    BY <1>1, <2>1, DebugRule
  <2> QED BY <2>2 DEF Usable
<1>3. CASE call # "debug"
  <2>1. r \in Points(MyTables) /\ At(r) /\ Op = OpAt(MyTables, r)
    BY <1>1, <1>3, TodoFacts, PointsOf DEF At, OpAt
  <2>2. AsTold(r)
    BY <2>1 DEF OnLine
  <2> HIDE DEF r, t
  <2>3. Usable(Op.blk, RegsAt(MyTables, r), ServingAt(MyTables, r),
               PinsAt(MyTables, r))
    BY <1>1, <2>1, BlockRule
  <2>4. Usable(Op.blk, regs, ServingAt(MyTables, r), pin)
    BY <2>2, <2>3 DEF AsTold
  <2> QED BY <2>1, <2>2, <2>4, KnownServing, MoreServing
<1> QED BY <1>2, <1>3

-----------------------------------------------------------------------------
(* What success means. *)

Up ==
  /\ Serving = PLLs
  /\ status["DDRC_MODE"] = 1
  /\ PeripheralsUp(regs, pin)
  /\ AtSpeed(regs, running)

Ready ==
  /\ finish["init"] = "success" => Up
  /\ finish["post"] = "success" => LogicUp(regs)
  /\ ~Busy /\ call \in {"init", "post"} /\ finish[call] = "success" =>
       slcr = "closed"

\* At the points of ps7_post_config all that ps7_init brought up is up.
LEMMA ReadyGives ==
  ASSUME NEW T \in AllOf, NEW k \in DOMAIN T.post, NEW f, NEW c, NEW st, NEW run,
         f = RegsAt(T, <<"post", k>>), c = PinsAt(T, <<"post", k>>),
         run = [p \in PLLs |-> run[p]],
         \A b \in StatusBits : KnownUp(T, b, <<"post", k>>) => st[b] = 1,
         \A p \in PLLs : KnownTaken(T, p, <<"post", k>>) => run[p] = f[FDIV[p]]
  PROVE  /\ \A p \in PLLs : /\ f[BYPASS[p]] = 0
                            /\ st[LOCK[p]] = 1
                            /\ run[p] = f[FDIV[p]]
         /\ st["DDRC_MODE"] = 1
         /\ PeripheralsUp(f, c)
         /\ AtSpeed(f, run)
         /\ k = Len(T.post) => LogicUp(f)
<1> DEFINE r == <<"post", k>>
<1>1. r \in Points(T)
  BY PointsOf, RankTyped
<1>2. /\ \A p \in PLLs : ServesAt(T, p, r)
      /\ KnownUp(T, "DDRC_MODE", r)
      /\ PeripheralsUp(f, c)
      /\ AtSpeed(f, [p \in PLLs |-> f[FDIV[p]]])
      /\ k = Len(T.post) => LogicUp(f)
  BY ReadyRule
<1> HIDE DEF r
<1>3. \A p \in PLLs : /\ f[BYPASS[p]] = 0
                      /\ st[LOCK[p]] = 1
                      /\ run[p] = f[FDIV[p]]
  BY <1>1, <1>2, RulesGive DEF r
<1>4. run = [p \in PLLs |-> f[FDIV[p]]]
  BY <1>3
<1>5. AtSpeed(f, run)
  BY <1>2, <1>4
<1> QED BY <1>2, <1>3, <1>5, HeldByFacts DEF r

\* A call goes on, none is made, or one returns.
Returns ==
  /\ Busy /\ ~Busy' /\ UNCHANGED <<call, slcr>> /\ Quiet
  /\ \E code : /\ Return(code)
               /\ \/ code \in {"timeout", "corrupt"}
                  \/ /\ code = "success"
                     /\ EndTable /\ Op.op = "EXIT" /\ Len(todo) = 1

LEMMA FinishKinds ==
  ASSUME Control, [Next]_vars
  PROVE  \/ UNCHANGED finish /\ Busy'
         \/ UNCHANGED <<finish, call, slcr>> /\ ~Busy /\ ~Busy'
         \/ Returns /\ ~WriteRegister
<1>1. ASSUME NEW c \in Calls, Call(c)
      PROVE  UNCHANGED finish /\ Busy'
  BY <1>1, FirstTodos, TodoFacts DEF Call, Busy
<1>2. CASE WriteRegister \/ PollSucceeds \/ PollAgain \/ StartDelay \/ EndDelay
  BY <1>2 DEF WriteRegister, PollSucceeds, PollAgain, StartDelay, EndDelay,
     program, Busy
<1>3. CASE PollTimeout
  BY <1>3 DEF PollTimeout, Returns, Return, Quiet, Busy, device, WriteRegister,
     Writes
<1>4. CASE EndTable
  <2>1. Busy /\ UNCHANGED <<call, slcr>> /\ Quiet /\ ~WriteRegister
    BY <1>4 DEF EndTable, Quiet, device, WriteRegister
  <2>2. CASE Op.op # "EXIT" \/ Len(todo) = 1
    <3>1. \E code : /\ Return(code)
                    /\ \/ code \in {"timeout", "corrupt"}
                       \/ /\ code = "success"
                          /\ EndTable /\ Op.op = "EXIT" /\ Len(todo) = 1
      BY <1>4, <2>2 DEF EndTable
    <3>2. ~Busy'
      BY <3>1 DEF Return, Busy
    <3> QED BY <2>1, <3>1, <3>2 DEF Returns
  <2>3. CASE Op.op = "EXIT" /\ Len(todo) # 1
    <3>1. call \in Calls /\ todo \in TodosOf[call]
      BY <2>1 DEF Control
    <3>2. Tail(todo) # <<>>
      BY <2>3, <3>1, TodoFacts
    <3> QED BY <1>4, <2>3, <3>2 DEF EndTable, Busy
  <2> QED BY <2>2, <2>3
<1>5. CASE Hardware \/ UNCHANGED vars
  BY <1>5 DEF Hardware, TimerCounts, PllLocks, DciCalibrated, DdrUp, vars, program,
     device, Busy
<1> QED BY <1>1, <1>2, <1>3, <1>4, <1>5 DEF Next, Program

LEMMA PostPoint ==
  Control /\ finish["init"] = "success" /\ finish["post"] = "none" =>
    \E k \in DOMAIN MyTables.post : At(<<"post", k>>)
<1> SUFFICES ASSUME Control, finish["init"] = "success", finish["post"] = "none"
             PROVE  \E k \in DOMAIN MyTables.post : At(<<"post", k>>)
  OBVIOUS
<1>1. CASE Busy /\ call # "debug"
  <2>1. call = "post" /\ todo \in TodosOf[call]
    BY <1>1 DEF Control, Calls
  <2>2. Head(todo) = "post" /\ pc \in DOMAIN MyTables["post"]
    BY <1>1, <2>1, TodoFacts DEF Control, Calls
  <2>3. At(<<"post", pc>>)
    BY <1>1, <2>2 DEF At
  <2> QED BY <2>2, <2>3
<1>2. CASE ~(Busy /\ call # "debug")
  <2>1. At(<<"post", 1>>)
    BY <1>2 DEF At
  <2>2. 1 \in DOMAIN MyTables["post"]
    BY VersionTyped, RankTyped DEF Control, Proper
  <2> QED BY <2>1, <2>2
<1> QED BY <1>1, <1>2

LEMMA UpFromTables ==
  Control /\ Device /\ OnLine /\ finish["init"] = "success" /\ finish["post"] = "none"
    => Up
<1> SUFFICES ASSUME Control, Device, OnLine, finish["init"] = "success",
                    finish["post"] = "none"
             PROVE  Up
  OBVIOUS
<1>1. PICK k \in DOMAIN MyTables.post : At(<<"post", k>>)
  BY PostPoint
<1>2. AsTold(<<"post", k>>) /\ MyTables \in AllOf
  BY <1>1, VersionTyped DEF OnLine, Control
<1>3. running = [p \in PLLs |-> running[p]]
  BY DEF Device
<1>4. /\ \A p \in PLLs : /\ regs[BYPASS[p]] = 0
                         /\ status[LOCK[p]] = 1
                         /\ running[p] = regs[FDIV[p]]
      /\ status["DDRC_MODE"] = 1
      /\ PeripheralsUp(regs, pin)
      /\ AtSpeed(regs, running)
  BY <1>2, <1>3, ReadyGives DEF AsTold
<1>5. \A p \in PLLs : PllServes(p)
  BY <1>4 DEF PllServes
<1> QED BY <1>4, <1>5 DEF Up, Serving

\* After ps7_post_config only the debugger's table can run.
LEMMA AfterPost ==
  ASSUME Control, Device, [Next]_vars,
         finish'["init"] = "success", finish'["post"] # "none"
  PROVE  finish["init"] = "success" /\ (Quiet \/ HardwareGoesOn)
<1>1. CASE finish' = finish
  <2>1. WriteRegister => call = "debug"
    <3>1. WriteRegister => Busy
      BY DEF WriteRegister
    <3>2. Busy => call \in Calls /\ finish[call] = "none"
      BY DEF Control
    <3> QED BY <1>1, <3>1, <3>2 DEF Calls
  <2> QED BY <1>1, <2>1, OffLine
<1>2. CASE Returns
  <2>1. /\ call \in Calls /\ finish \in [Calls -> Codes]
        /\ call = "init" \/ finish["init"] = "success"
        /\ finish["init"] # "success" => finish["post"] = "none"
        /\ finish[call] = "none"
    BY <1>2 DEF Returns, Control
  <2>2. \A c \in Calls : c # call => finish'[c] = finish[c]
    BY <1>2, <2>1 DEF Returns, Return
  <2>3. "post" \in Calls /\ "init" # "post"
    BY DEF Calls
  <2> QED BY <1>2, <2>1, <2>2, <2>3 DEF Returns
<1> QED BY <1>1, <1>2, FinishKinds

\* When a function succeeds its last table is at its end.
LEMMA AtSuccess ==
  ASSUME Control, Keys, Busy, Op.op = "EXIT", Len(todo) = 1,
         call \in {"init", "post"}
  PROVE  /\ slcr = "closed"
         /\ call = "post" => /\ At(<<"post", pc>>)
                             /\ pc \in DOMAIN MyTables.post
                             /\ pc = Len(MyTables.post)
<1> DEFINE t == Head(todo)
<1>1. /\ MyTables \in AllOf /\ call \in Calls /\ todo \in TodosOf[call]
      /\ table = MyTables[t] /\ pc = Len(table) /\ pc \in DOMAIN table
  BY AtOp, VersionTyped DEF Control
<1>2. t = IF call = "init" THEN "peripherals" ELSE "post"
  BY <1>1, TodoFacts
<1>3. ClosedAt(table, pc)
  BY <1>1, <1>2, KeyRule
<1> QED BY <1>1, <1>2, <1>3 DEF Keys, At

LEMMA ReadyNext ==
  ASSUME Control, Keys, Device, OnLine, Ready, [Next]_vars
  PROVE  Ready'
<1>1. (finish["init"] = "success" => Up)'
  <2>1. CASE finish'["post"] = "none"
    <3>1. Control' /\ Device' /\ OnLine'
      BY ControlNext, DeviceNext, OnLineNext
    <3>2. (Control /\ Device /\ OnLine /\ finish["init"] = "success"
            /\ finish["post"] = "none" => Up)'
      BY UpFromTables, PTL
    <3> QED BY <2>1, <3>1, <3>2
  <2>2. CASE finish'["post"] # "none" /\ finish'["init"] = "success"
    <3>1. Up /\ (Quiet \/ HardwareGoesOn)
      BY <2>2, AfterPost DEF Ready
    <3>2. UNCHANGED <<regs, pin, running>>
          /\ \A b \in StatusBits : status[b] = 1 => status'[b] = 1
      BY <3>1 DEF Quiet, HardwareGoesOn
    <3>3. \A p \in PLLs : PllServes(p) => PllServes(p)'
      BY <3>2, HeldByFacts DEF PllServes
    <3>4. Serving' = PLLs
      BY <3>1, <3>3 DEF Up, Serving
    <3>5. PeripheralsUp(regs, pin)' /\ AtSpeed(regs, running)'
      BY <3>1, <3>2 DEF Up
    <3> QED BY <3>1, <3>2, <3>4, <3>5, HeldByFacts DEF Up
  <2> QED BY <2>1, <2>2
<1>2. (finish["post"] = "success" => LogicUp(regs))'
  <2> SUFFICES ASSUME finish'["post"] = "success"
               PROVE  LogicUp(regs)'
    OBVIOUS
  <2>1. CASE finish["post"] = "success"
    <3>1. finish["init"] = "success" \/ finish["post"] = "none"
      BY DEF Control
    <3>2. finish'["init"] = "success"
      <4>1. CASE Returns
        <5>1. call \in Calls /\ finish[call] = "none" /\ finish \in [Calls -> Codes]
          BY <4>1 DEF Returns, Control
        <5>2. call # "init"
          BY <2>1, <3>1, <5>1
        <5>3. "init" \in Calls /\ finish'["init"] = finish["init"]
          BY <4>1, <5>1, <5>2 DEF Returns, Return, Calls
        <5> QED BY <2>1, <3>1, <5>3
      <4> QED BY <2>1, <3>1, <4>1, FinishKinds
    <3>3. Quiet \/ HardwareGoesOn
      BY <3>2, AfterPost
    <3>4. regs' = regs
      BY <3>3 DEF Quiet, HardwareGoesOn
    <3> QED BY <2>1, <3>4 DEF Ready, LogicUp
  <2>2. CASE finish["post"] # "success"
    <3>1. Returns
      BY <2>2, FinishKinds
    <3>2. /\ call \in Calls /\ finish \in [Calls -> Codes] /\ "post" \in Calls
          /\ MyTables \in AllOf
      BY <3>1, VersionTyped DEF Returns, Control, Calls
    <3>p. PICK code : /\ Return(code)
                      /\ \/ code \in {"timeout", "corrupt"}
                         \/ /\ code = "success"
                            /\ EndTable /\ Op.op = "EXIT" /\ Len(todo) = 1
      BY <3>1 DEF Returns
    <3>3. finish' = [finish EXCEPT ![call] = code]
      BY <3>p DEF Return
    <3>4. call = "post" /\ code = "success"
      BY <2>2, <3>2, <3>3
    <3>5. /\ At(<<"post", pc>>) /\ pc \in DOMAIN MyTables.post
          /\ pc = Len(MyTables.post)
      BY <3>1, <3>p, <3>4, AtSuccess DEF Returns
    <3>6. AsTold(<<"post", pc>>)
      BY <3>5 DEF OnLine
    <3>7. running = [p \in PLLs |-> running[p]]
      BY DEF Device
    <3>8. LogicUp(regs)
      BY <3>2, <3>5, <3>6, <3>7, ReadyGives DEF AsTold
    <3>9. regs' = regs
      BY <3>1 DEF Returns, Quiet
    <3> QED BY <3>8, <3>9 DEF LogicUp
  <2> QED BY <2>1, <2>2
<1>3. (~Busy /\ call \in {"init", "post"} /\ finish[call] = "success" =>
         slcr = "closed")'
  <2> SUFFICES ASSUME ~Busy', call' \in {"init", "post"},
                      finish'[call'] = "success"
               PROVE  slcr' = "closed"
    OBVIOUS
  <2>1. CASE UNCHANGED <<finish, call, slcr>> /\ ~Busy
    BY <2>1 DEF Ready
  <2>2. CASE Returns
    <3>1. /\ Busy /\ call' = call /\ slcr' = slcr /\ call \in Calls
          /\ finish \in [Calls -> Codes]
      BY <2>2 DEF Returns, Control
    <3>p. PICK code : /\ Return(code)
                      /\ \/ code \in {"timeout", "corrupt"}
                         \/ /\ code = "success"
                            /\ EndTable /\ Op.op = "EXIT" /\ Len(todo) = 1
      BY <2>2 DEF Returns
    <3>2. finish'[call] = code
      BY <3>1, <3>p DEF Return
    <3>3. Op.op = "EXIT" /\ Len(todo) = 1
      BY <3>1, <3>p, <3>2
    <3> QED BY <3>1, <3>3, AtSuccess
  <2> QED BY <2>1, <2>2, FinishKinds
<1> QED BY <1>1, <1>2, <1>3 DEF Ready

-----------------------------------------------------------------------------
(* Reset pulses. *)

\* Once the timer has counted, a pin that is driven low was so for a while.
TimerCounted ==
  timer >= 1 => \A n \in ResetPins : DrivenLow(n, regs) => lowFor[n] >= 1

\* In this table a delay was run from whose beginning the pin is known low.
LowSinceDelay(n, T, t, k) ==
  \E j \in 1..(k - 1) : /\ T[t][j].op = "MASKDELAY" /\ T[t][j].ms >= 1
                        /\ \A m \in j..k : LowAt(T, n, <<t, m>>)

Pulses ==
  /\ TimerCounted
  /\ Busy /\ call # "debug" =>
       \A n \in ResetPins :
         LowSinceDelay(n, MyTables, Head(todo), pc) => lowFor[n] >= 1

LEMMA TimerCountedNext ==
  ASSUME Control, Device, TimerCounted, [Next]_vars
  PROVE  TimerCounted'
<1>1. CASE UNCHANGED timer /\ (Quiet \/ HardwareGoesOn)
  <2>1. UNCHANGED <<timer, regs>>
        /\ \A n \in ResetPins : lowFor[n] >= 1 => lowFor'[n] >= 1
    BY <1>1 DEF Quiet, HardwareGoesOn
  <2> QED BY <2>1 DEF TimerCounted, DrivenLow
<1>2. CASE timer' \in {-1, 0}
  BY <1>2 DEF TimerCounted
<1>3. CASE TimerCounts
  <2>1. /\ lowFor' = [n \in ResetPins |->
                        IF DrivenLow(n, regs) /\ lowFor[n] < 3 THEN lowFor[n] + 1
                        ELSE lowFor[n]]
        /\ regs' = regs
    BY <1>3 DEF TimerCounts
  <2>2. \A n \in ResetPins : lowFor[n] \in 0..3
    BY DEF Device
  <2>3. ASSUME NEW n \in ResetPins, DrivenLow(n, regs)
        PROVE  lowFor'[n] >= 1
    <3> HIDE DEF ResetPins
    <3>p. PICK l \in 0..3 : l = lowFor[n]
      BY <2>2
    <3>1. lowFor'[n] = IF l < 3 THEN l + 1 ELSE l
      BY <2>1, <2>3, <3>p
    <3> QED BY <3>1
  <2> QED BY <2>1, <2>3 DEF TimerCounted, DrivenLow
<1>4. CASE WriteRegister \/ PollTimeout \/ EndTable \/ PollSucceeds \/ PollAgain
  <2>1. Op.op # "MASKDELAY" /\ timer' = timer
    BY <1>4 DEF WriteRegister, PollTimeout, EndTable, PollSucceeds, PollAgain,
       Writes
  <2>2. timer = -1
    BY <2>1 DEF Control
  <2> QED BY <1>2, <2>1, <2>2
<1>5. CASE StartDelay \/ EndDelay
  BY <1>2, <1>5 DEF StartDelay, EndDelay
<1>6. ASSUME NEW c \in Calls, Call(c)
      PROVE  TimerCounted'
  BY <1>2, <1>6 DEF Call, Control
<1>7. CASE Hardware
  <2>1. TimerCounts \/ UNCHANGED timer
    BY <1>7 DEF Hardware, PllLocks, DciCalibrated, DdrUp
  <2> QED BY <1>1, <1>3, <1>7, <2>1, HardwareSteps
<1>8. CASE UNCHANGED vars
  BY <1>1, <1>8 DEF vars, device, Quiet
<1> QED BY <1>4, <1>5, <1>6, <1>7, <1>8 DEF Next, Program

LEMMA LowSinceNext ==
  ASSUME NEW n, NEW T, NEW t, NEW k \in Nat, k >= 1, LowSinceDelay(n, T, t, k + 1)
  PROVE  /\ LowAt(T, n, <<t, k>>) /\ LowAt(T, n, <<t, k + 1>>)
         /\ \/ LowSinceDelay(n, T, t, k)
            \/ T[t][k].op = "MASKDELAY" /\ T[t][k].ms >= 1
<1>1. PICK j \in 1..((k + 1) - 1) :
        /\ T[t][j].op = "MASKDELAY" /\ T[t][j].ms >= 1
        /\ \A m \in j..(k + 1) : LowAt(T, n, <<t, m>>)
  BY DEF LowSinceDelay
<1>2. /\ k \in j..(k + 1) /\ k + 1 \in j..(k + 1)
      /\ j # k => j \in 1..(k - 1)
      /\ \A m \in j..k : m \in j..(k + 1)
  OBVIOUS
<1> QED BY <1>1, <1>2 DEF LowSinceDelay

LEMMA PulsesNext ==
  ASSUME Control, Keys, Device, OnLine, Pulses, [Next]_vars
  PROVE  Pulses'
<1>1. TimerCounted' /\ MyTables' = MyTables
  BY TimerCountedNext, TablesStay DEF Pulses
<1> DEFINE Low == \A n \in ResetPins :
                    LowSinceDelay(n, MyTables, Head(todo), pc) => lowFor[n] >= 1
<1> SUFFICES ASSUME Busy', call' # "debug"
             PROVE  Low'
  BY <1>1 DEF Pulses
<1>2. ASSUME pc' = 1
      PROVE  Low'
  BY <1>2 DEF LowSinceDelay
<1>3. ASSUME UNCHANGED <<todo, call, pc>>, Quiet \/ HardwareGoesOn
      PROVE  Low'
  <2>1. \A n \in ResetPins : lowFor[n] >= 1 => lowFor'[n] >= 1
    BY <1>3 DEF Quiet, HardwareGoesOn
  <2>2. Low
    BY <1>3 DEF Pulses, Busy
  <2> QED BY <1>1, <1>3, <2>1, <2>2
<1>4. ASSUME StepsOn, WriteRegister \/ PollSucceeds \/ EndDelay
      PROVE  Low'
  <2>1. /\ Busy /\ call # "debug" /\ pc' = pc + 1 /\ todo' = todo
        /\ Head(todo) \in TableNames /\ Op = MyTables[Head(todo)][pc]
        /\ pc \in Nat /\ pc >= 1
    BY <1>4, AtOp DEF StepsOn
  <2>p. PICK t, k : t = Head(todo) /\ k = pc /\ k \in Nat /\ k >= 1
    BY <2>1
  <2> SUFFICES ASSUME NEW n \in ResetPins,
                      LowSinceDelay(n, MyTables, t, k + 1)
               PROVE  lowFor'[n] >= 1
    BY <1>1, <2>1, <2>p
  <2>2. /\ LowAt(MyTables, n, <<t, k>>) /\ LowAt(MyTables, n, <<t, k + 1>>)
        /\ \/ LowSinceDelay(n, MyTables, t, k)
           \/ Op.op = "MASKDELAY" /\ Op.ms >= 1
    BY <2>1, <2>p, LowSinceNext
  <2>3. At(<<t, k>>)
    BY <2>1, <2>p DEF At
  <2>4. regs = RegsAt(MyTables, <<t, k>>) /\ DrivenLow(n, regs)
    BY <2>2, <2>3 DEF OnLine, AsTold, LowAt
  <2>5. lowFor[n] >= 1
    <3>1. CASE LowSinceDelay(n, MyTables, t, k)
      BY <2>1, <2>p, <3>1 DEF Pulses
    <3>2. CASE Op.op = "MASKDELAY" /\ Op.ms >= 1
      <4>1. timer >= Op.ms
        BY <1>4, <3>2 DEF WriteRegister, PollSucceeds, EndDelay, Writes
      <4>2. timer >= 1
        BY <3>2, <4>1, <2>1, AtOp DEF Control
      <4> QED BY <2>4, <4>2 DEF Pulses, TimerCounted
    <3> QED BY <2>2, <3>1, <3>2
  <2>6. CASE WriteRegister
    <3>1. Takes(Op) => DeviceWrite(Op)
      BY <2>6 DEF WriteRegister, DeviceWrite
    <3>2. ~Takes(Op) => lowFor' = lowFor
      BY <2>6 DEF WriteRegister
    <3>3. Takes(Op) => regs' = RegsAt(MyTables, <<t, k + 1>>)
      <4>1. /\ Proper(MyTables) /\ Op = OpAt(MyTables, <<t, k>>)
            /\ Follows(MyTables, <<t, k>>, <<t, k + 1>>)
        BY <2>1, <2>6, <2>p, WriteOnLine
      <4>2. Op.op \in Writes
        BY <2>6 DEF WriteRegister
      <4> QED BY <2>4, <3>1, <4>1, <4>2, RegsNext DEF DeviceWrite
    <3>4. Takes(Op) => DrivenLow(n, regs')
      BY <2>2, <3>3 DEF LowAt
    <3>5. Takes(Op) => lowFor'[n] = lowFor[n]
      <4>1. Takes(Op) => lowFor' = [m \in ResetPins |->
                            IF DrivenLow(m, regs') THEN lowFor[m] ELSE 0]
        BY <3>1 DEF DeviceWrite, React
      <4> HIDE DEF ResetPins
      <4> QED BY <3>4, <4>1
    <3> QED BY <2>5, <3>2, <3>5
  <2>7. CASE PollSucceeds \/ EndDelay
    BY <2>5, <2>7 DEF PollSucceeds, EndDelay, device
  <2> QED BY <1>4, <2>6, <2>7
<1>5. CASE WriteRegister \/ PollSucceeds \/ EndDelay
  BY <1>4, <1>5 DEF StepsOn, WriteRegister, PollSucceeds, EndDelay
<1>6. ASSUME NEW c \in Calls, Call(c)
      PROVE  Low'
  BY <1>2, <1>6 DEF Call
<1>7. CASE EndTable
  BY <1>2, <1>7 DEF EndTable
<1>8. CASE PollTimeout
  BY <1>8 DEF PollTimeout, Return, Busy
<1>9. CASE PollAgain \/ StartDelay \/ UNCHANGED vars
  BY <1>3, <1>9 DEF PollAgain, StartDelay, vars, program, device, Quiet
<1>10. CASE Hardware
  <2>1. UNCHANGED <<todo, call, pc>>
    BY <1>10 DEF Hardware, TimerCounts, PllLocks, DciCalibrated, DdrUp, program
  <2> QED BY <1>3, <1>10, <2>1, HardwareSteps
<1> QED BY <1>5, <1>6, <1>7, <1>8, <1>9, <1>10 DEF Next, Program

\* A pin that a write lets go was known low since the beginning of a delay.
LEMMA LetGo ==
  ASSUME NEW T \in AllOf, NEW t \in LineTables, NEW k, k \in DOMAIN T[t],
         k # Len(T[t]), NEW n \in ResetPins, Proper(T),
         Follows(T, <<t, k>>, <<t, k + 1>>),
         LowAt(T, n, <<t, k>>), ~LowAt(T, n, <<t, k + 1>>)
  PROVE  LowSinceDelay(n, T, t, k)
<1>1. k \in 1..(Len(T[t]) - 1)
  <2>1. Len(T[t]) \in Nat /\ DOMAIN T[t] = 1..Len(T[t])
    BY RankTyped DEF Proper
  <2> QED BY <2>1
<1>2. Sets(T[t][k]) # {}
  <2> SUFFICES ASSUME Sets(T[t][k]) = {}
               PROVE  RegsAt(T, <<t, k + 1>>) = RegsAt(T, <<t, k>>)
    BY DEF LowAt
  <2>1. OpAt(T, <<t, k>>) = T[t][k]
    BY DEF OpAt
  <2>2. CASE T[t][k].op \notin Writes
    BY <2>1, <2>2, RegsNext
  <2>3. CASE T[t][k].op \in Writes
    <3>1. DOMAIN T[t][k].val = {}
      BY <2>3 DEF Sets
    <3>2. RegsAt(T, <<t, k + 1>>) = Overlay(T[t][k].val, RegsAt(T, <<t, k>>))
      BY <2>1, <2>3, RegsNext
    <3> QED BY <3>1, <3>2 DEF Overlay, RegsAt
  <2> QED BY <2>2, <2>3
<1> QED BY <1>1, <1>2, PulseRule DEF LowSinceDelay

LEMMA PulsesHold ==
  ASSUME Control, Keys, Device, OnLine, OnLine', Pulses, [Next]_vars,
         NEW n \in ResetPins, DrivenLow(n, regs), ~DrivenLow(n, regs')
  PROVE  lowFor[n] >= 1
<1>1. regs' # regs
  OBVIOUS
<1>2. WriteRegister /\ call # "debug"
  <2>1. CASE WriteRegister => call = "debug"
    BY <1>1, <2>1, OffLine DEF Quiet, HardwareGoesOn
  <2> QED BY <2>1
<1>p. PICK t, k : t = Head(todo) /\ k = pc
  OBVIOUS
<1>3. /\ t \in LineTables /\ MyTables \in AllOf /\ Proper(MyTables)
      /\ table = MyTables[t] /\ k \in Nat /\ k >= 1 /\ k + 1 <= Len(table)
      /\ At(<<t, k>>) /\ At(<<t, k + 1>>)'
      /\ Follows(MyTables, <<t, k>>, <<t, k + 1>>)
  BY <1>2, <1>p, WriteOnLine
<1>4. Busy /\ k \in DOMAIN MyTables[t] /\ k # Len(MyTables[t])
  <2>1. Busy
    BY <1>2 DEF WriteRegister
  <2>2. Len(table) \in Nat /\ DOMAIN table = 1..Len(table)
    BY <2>1, AtOp
  <2> QED BY <1>3, <2>1, <2>2
<1>5. regs = RegsAt(MyTables, <<t, k>>)
  BY <1>3 DEF OnLine, AsTold
<1>6. regs' = RegsAt(MyTables, <<t, k + 1>>)
  <2>q. PICK s : s = <<t, k + 1>>
    OBVIOUS
  <2>1. At(s)'
    BY <1>3, <2>q
  <2>2. AsTold(s)'
    BY <2>1 DEF OnLine
  <2>3. regs' = RegsAt(MyTables', s)
    BY <2>2 DEF AsTold
  <2> QED BY <2>3, <2>q, TablesStay
<1>7. LowSinceDelay(n, MyTables, t, k)
  BY <1>3, <1>4, <1>5, <1>6, LetGo DEF LowAt
<1> QED BY <1>2, <1>4, <1>7, <1>p DEF Pulses

-----------------------------------------------------------------------------
(* The theorems. *)

IInv == Control /\ Device /\ Keys /\ OnLine /\ InUse /\ Ready /\ Pulses

LEMMA IInvInit == Init => IInv
<1> SUFFICES ASSUME Init PROVE IInv
  OBVIOUS
<1>1. Control /\ Device /\ OnLine /\ InUse
  BY ControlInit, DeviceInit, OnLineInit, InUseInit
<1>2. ~Busy /\ timer = -1 /\ finish = [c \in Calls |-> "none"] /\ call = "none"
  BY DEF Init, Busy
<1>3. Keys /\ Ready
  BY <1>2 DEF Keys, Ready, Calls
<1>4. Pulses
  BY <1>2 DEF Pulses, TimerCounted
<1> QED BY <1>1, <1>3, <1>4 DEF IInv

LEMMA IInvNext == IInv /\ [Next]_vars => IInv'
<1> SUFFICES ASSUME IInv, [Next]_vars PROVE IInv'
  OBVIOUS
<1>1. Control /\ Device /\ Keys /\ OnLine /\ InUse /\ Ready /\ Pulses
  BY DEF IInv
<1>2. Control' /\ Device' /\ Keys' /\ OnLine' /\ InUse' /\ Ready' /\ Pulses'
  BY <1>1, ControlNext, DeviceNext, KeysNext, OnLineNext, InUseNext, ReadyNext,
     PulsesNext
<1> QED BY <1>2 DEF IInv

LEMMA IInvAlways == Spec => []IInv
BY IInvInit, IInvNext, PTL DEF Spec

LEMMA Typed == Control /\ Device => TypeOK
<1> SUFFICES ASSUME Control, Device PROVE TypeOK
  OBVIOUS
<1>1. todo \in Seq(TableNames)
  <2>1. CASE Busy
    BY <2>1, TodoFacts DEF Control
  <2>2. CASE ~Busy
    BY <2>2 DEF Busy
  <2> QED BY <2>1, <2>2
<1>2. Busy => table = Tables[Version][Head(todo)] /\ pc \in DOMAIN table
  BY DEF Control, MyTables
<1>3. DOMAIN regs = DOMAIN PowerOn /\ DOMAIN pin = 0..(PinCount - 1)
      /\ DOMAIN running = PLLs
  BY DEF Device
<1> QED BY <1>1, <1>2, <1>3 DEF TypeOK, Control, Device

\* The state of ps7_config, of the functions that call it and of the registers
\* stays well-formed: whatever the number of looks of a poll and the answers of
\* the hardware, the program is always at an operation of a table of
\* its silicon version while a call runs.
THEOREM Ps7TypeOK == Spec => []TypeOK
<1>1. IInv => TypeOK
  BY Typed DEF IInv
<1> QED BY <1>1, IInvAlways, PTL

\* No write of a table to a system level control register is dropped, although
\* others close these registers between the calls: every table writes the key
\* before its first such write.
THEOREM Ps7SlcrWritesTakeEffect == Spec => []SlcrWritesTakeEffect
<1>1. IInv => SlcrWritesTakeEffect
  BY WritesTake DEF IInv
<1> QED BY <1>1, IInvAlways, PTL

\* A PLL whose bypass is off is locked, in every state of every call: also when
\* a poll timed out, which leaves the tables half done.
THEOREM Ps7PllInUseIsLocked == Spec => []PllInUseIsLocked
<1>1. IInv => PllInUseIsLocked
  BY DEF IInv, InUse
<1> QED BY <1>1, IInvAlways, PTL

\* The reset of the DDR controller is released only when its PLL serves it, its
\* clocks run and the calibration of its pins, which the table polls for, is done.
THEOREM Ps7DdrControllerReady == Spec => []DdrControllerReady
<1>1. IInv => DdrControllerReady
  BY DEF IInv, InUse
<1> QED BY <1>1, IInvAlways, PTL

\* The tables run in an order in which every block is clocked and connected
\* before a table writes to it.
THEOREM Ps7BlocksUsableWhenWritten == Spec => []BlocksUsableWhenWritten
<1>1. IInv => BlocksUsableWhenWritten
  BY WritesUsable DEF IInv
<1> QED BY <1>1, IInvAlways, PTL

\* After ps7_init succeeded the clocks run at the declared frequencies, and
\* neither ps7_post_config nor ps7_debug changes that.
THEOREM Ps7SpeedsAsDeclared == Spec => []SpeedsAsDeclared
<1>1. IInv => SpeedsAsDeclared
  BY DEF IInv, Ready, Up, SpeedsAsDeclared
<1> QED BY <1>1, IInvAlways, PTL

\* A function that reports success did all of it, and later calls do not undo it.
THEOREM Ps7SuccessMeansUp == Spec => []SuccessMeansUp
<1>1. IInv => SuccessMeansUp
  BY DEF IInv, Ready, Up, SuccessMeansUp
<1> QED BY <1>1, IInvAlways, PTL

\* Whatever the timer does, a chip whose reset pin was driven low is let go only
\* after a millisecond: the write that lets it go stands behind a MASKDELAY all
\* of which the pin was low.
THEOREM Ps7PulseHeld == Spec => PulseHeld
<1>1. ASSUME IInv, IInv', [Next]_vars
      PROVE  [\A n \in ResetPins :
                DrivenLow(n, regs) /\ ~DrivenLow(n, regs') => lowFor[n] >= 1]_vars
  BY <1>1, PulsesHold DEF IInv
<1> QED BY <1>1, IInvAlways, PTL DEF Spec, PulseHeld

=============================================================================
