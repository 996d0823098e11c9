CONSTANTS
  s1 = s1
  s2 = s2
  d1 = d1
  d2 = d2
  NoDate = NoDate
  Auditor = Auditor
  Sealer = {s1, s2}
  Date = {d1, d2}
  Controls = 2
  MaxVersions = 2
  MaxSeals = 3
SPECIFICATION Spec
INVARIANTS
  TypeOK
  SerialWhenLinked
  VerdictIsExact
  NoFalseAlarm
  OneLossPerCut
SYMMETRY Alike
