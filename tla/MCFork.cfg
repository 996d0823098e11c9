CONSTANTS
  s1 = s1
  s2 = s2
  d1 = d1
  d2 = d2
  NoDate = NoDate
  Auditor = Auditor
  Sealer = {s1, s2}
  Date = {d1}
  Controls = 1
  MaxVersions = 1
  MaxSeals = 2
SPECIFICATION Spec
INVARIANT LedgerIsLinked
