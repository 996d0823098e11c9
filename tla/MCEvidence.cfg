CONSTANTS
  signing = signing
  encrypting = encrypting
  key = key
  csv = csv
  NoKey = NoKey
  Nobody = Nobody
  Writer = {signing, encrypting}
  Encrypting = {encrypting}
  Extra = {csv}
  MacOf <- Macs
  AuditorKey = NoKey
  Focuses = {"collectors", "auditor"}
  MaxRuns = 3
  AuditedRuns = 2
SPECIFICATION Explored
INVARIANTS
  TypeOK
  VerifiedIsOneRun
  ManifestSurvives
  AuditTypeOK
  VerdictIsExact
  AcceptedIsOneRun
PROPERTY ImplementsDirectory
\* The bound on runs ends the behaviour: every writer is idle.
CHECK_DEADLOCK FALSE
