SPECIFICATION Spec
CONSTANTS
  a = a  b = b  c = c  d = d
  R0 = R0  R1 = R1
  m1 = m1  m2 = m2  m3 = m3
  CoreClass = CoreClass
  Temps = {a, b, c, d}
  Regs = {R0, R1}
  NoReg = NoReg
  Moves = {m1, m2, m3}
  Classes = {CoreClass}
  SubClass <- MCSubClass
  ClsRegs <- MCClsRegs
  RegClass <- MCRegClass
  Alias <- MCAlias
  Problems <- TwinProblems
CHECK_DEADLOCK FALSE
INVARIANTS FreezeAssertionHolds
