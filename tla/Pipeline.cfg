CONSTANTS
  r1 = r1  r2 = r2  x0 = x0
  Reg = {x0, r1, r2}
  Value = {0, 1}
  Zero = 0
  Inst <- MCInst
  Result <- MCResult
  Compare <- MCCompare
  InstStall = FALSE
SPECIFICATION Spec
INVARIANTS TypeOK OperandsInOrder
PROPERTIES RegSpec
