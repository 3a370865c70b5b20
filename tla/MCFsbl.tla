------------------------------- MODULE MCFsbl -------------------------------
(* Images with each kind of partition, in every pair of slots, and behind them *)
(* one that always loads and one that never does.                             *)
EXTENDS Fsbl

P(kind, enc, chk) ==
  [kind |-> kind, mine |-> TRUE, head |-> TRUE, enc |-> enc, chk |-> chk,
   signed |-> FALSE, load |-> "ddr", good |-> TRUE]
I(parts) == [valid |-> TRUE, header |-> TRUE, parts |-> parts]

PL == P("PL", FALSE, FALSE)
PLc == P("PL", FALSE, TRUE)
PLe == P("PL", TRUE, FALSE)
PS == P("PS", FALSE, FALSE)
PSc == P("PS", FALSE, TRUE)
PSe == P("PS", TRUE, FALSE)
PSec == P("PS", TRUE, TRUE)
Bad(p) == [p EXCEPT !.good = FALSE]

MCImages ==
  {I(<<PL, PSc>>), I(<<PLe, PSe>>), I(<<PSec>>), I(<<PLc, PS>>),
   I(<<Bad(PLe), PSe>>), I(<<PS, PL>>), I(<<[PS EXCEPT !.mine = FALSE], Bad(PSc)>>), I(<<Bad(PSe)>>),
   I(<<PSe, [PSc EXCEPT !.signed = TRUE]>>), I(<<PSc, [PS EXCEPT !.load = "zero"]>>),
   I(<<[PSe EXCEPT !.load = "low"]>>), [I(<<PS>>) EXCEPT !.valid = FALSE],
   I(<<[PS EXCEPT !.head = FALSE]>>), I(<<PSc, [PL EXCEPT !.head = FALSE]>>),
   [I(<<PS>>) EXCEPT !.header = FALSE]}
MCFlashes ==
  {f \in [0..2 -> MCImages] : f[2] \in {I(<<PLe, PSe>>), I(<<Bad(PSe)>>)}}
=============================================================================
