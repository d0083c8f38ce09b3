SPECIFICATION Spec
CONSTANTS
  a = a  b = b  c = c
  R0 = R0  R1 = R1  H0 = H0  S0 = S0
  m1 = m1  m2 = m2
  Core = Core  Low = Low  Half = Half
  Temps = {a, b, c}
  Regs = {R0, R1, H0, S0}
  NoReg = NoReg
  Moves = {m1, m2}
  Classes = {Core, Low, Half}
  SubClass <- MCSubClass
  ClsRegs <- MCClsRegs
  RegClass <- MCRegClass
  Alias <- MCAlias
  Problems <- ClassProblems
CHECK_DEADLOCK FALSE
INVARIANTS PressureExact ProperColoring ColorInClass OnlyCandidatesSpill OnlyKnownRaises
PROPERTY RoundEnds
