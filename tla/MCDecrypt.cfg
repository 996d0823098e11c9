CONSTANTS
  signing = signing
  encrypting = encrypting
  key = key
  csv = csv
  NoKey = NoKey
  Nobody = Nobody
  Writer = {signing, encrypting}
  Encrypting = {encrypting}
  Extra = {csv}
  MacOf <- Macs
  AuditorKey = NoKey
  Focuses = {"auditor"}
  MaxRuns = 2
  AuditedRuns = 2
SPECIFICATION Explored
INVARIANT DecryptedWasVerified
