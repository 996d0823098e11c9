------------------------- MODULE EvidenceVerification -------------------------
(***************************************************************************)
(* An auditor reads a control directory while collectors write it.         *)
(*                                                                         *)
(* verify_manifest and verify_and_decrypt_artifact (integrity.py) take no  *)
(* lock: every file they open is a separate read of the directory, and     *)
(* write_evidence may run between any two of them.                         *)
(***************************************************************************)
EXTENDS EvidenceStore

CONSTANT AuditorKey  \* the auditor's SENTINEL_HMAC_KEY, or NoKey

VARIABLES
  stage,    \* where the auditor is
  wanted,   \* the encrypted artifact to return, NoFile for a plain verification
  seen,     \* the manifest verify_manifest parsed
  toHash,   \* the listed files not hashed yet
  issues,   \* whether a hash was missing or different
  got,      \* the run whose bytes the decryption returned
  still     \* history: no step changed the directory since the auditor began

auditorVars == <<stage, wanted, seen, toHash, issues, got, still>>
allVars == <<vars, auditorVars>>

NoFile == ManifestName
ListedIn(m) == {f \in File : m.listed[f] # 0}

AuditInit ==
  /\ Init
  /\ stage = "idle" /\ wanted = NoFile
  /\ seen = Absent /\ toHash = {} /\ issues = FALSE /\ got = 0
  /\ still = TRUE

Move(here, there) == stage = here /\ stage' = there

\* verify_manifest is called for the directory, or
\* verify_and_decrypt_artifact for one of its encrypted files.
Begin(f) ==
  /\ Move("idle", "manifest")
  /\ f # NoFile => f[2] = "enc" /\ disk[f] # 0
  /\ wanted' = f
  /\ still' = TRUE
  /\ UNCHANGED <<seen, toHash, issues, got>>

\* Mutant of ReadManifest: the manifest is expected to list itself.
ReadManifestToo ==
  /\ Move("manifest", IF manifest.kind = "whole" THEN "hashing" ELSE "rejected")
  /\ seen' = manifest
  /\ toHash' = ListedIn(manifest) \cup {ManifestName}
  /\ UNCHANGED <<wanted, issues, got, still>>

ReadManifest ==
  /\ Move("manifest", IF manifest.kind = "whole" THEN "hashing" ELSE "rejected")
  /\ seen' = manifest
  /\ toHash' = ListedIn(manifest)
  /\ UNCHANGED <<wanted, issues, got, still>>

\* Mutant of Hash: only the last artifact's mismatch is remembered.
HashForgetful(f) ==
  /\ stage = "hashing" /\ f \in toHash
  /\ toHash' = toHash \ {f}
  /\ issues' = (disk[f] # seen.listed[f])
  /\ UNCHANGED <<stage, wanted, seen, got, still>>

\* One turn of the loop over the listed artifacts.
Hash(f) ==
  /\ stage = "hashing" /\ f \in toHash
  /\ toHash' = toHash \ {f}
  /\ issues' = (issues \/ disk[f] # seen.listed[f])
  /\ UNCHANGED <<stage, wanted, seen, got, still>>

\* The listing for unlisted files and the signature, which close the verification.
Conclude ==
  /\ toHash = {}
  /\ LET unlisted == Present(disk) \ ListedIn(seen)
         ok == ~issues /\ unlisted = {} /\ seen.mac = AuditorKey
     IN  Move("hashing", IF ok THEN "accepted" ELSE "rejected")
  /\ UNCHANGED <<wanted, seen, toHash, issues, got, still>>

\* verify_and_decrypt_artifact opens the manifest a second time, to see whether
\* it covers the wanted file ...
Recheck ==
  /\ wanted # NoFile
  /\ Move("accepted",
          IF manifest.kind = "whole" /\ wanted \in ListedIn(manifest)
            THEN "covered" ELSE "refused")
  /\ UNCHANGED <<wanted, seen, toHash, issues, got, still>>

\* ... and then opens the file itself.
ReadBytes ==
  /\ Move("covered", IF disk[wanted] # 0 THEN "returned" ELSE "refused")
  /\ got' = disk[wanted]
  /\ UNCHANGED <<wanted, seen, toHash, issues, still>>

\* The result is handed to the caller; or a listed file is gone between the two
\* looks at it, and the caller gets the FileNotFoundError.
Done ==
  /\ \/ stage \in {"rejected", "refused", "returned"}
     \/ stage = "accepted" /\ wanted = NoFile
     \/ stage = "hashing" /\ \E f \in toHash : disk[f] = 0
  /\ stage' = "idle" /\ wanted' = NoFile
  /\ seen' = Absent /\ toHash' = {} /\ issues' = FALSE /\ got' = 0
  /\ still' = TRUE

Audit ==
  \/ \E f \in File \cup {NoFile} : Begin(f)
  \/ ReadManifest
  \/ \E f \in File : Hash(f)
  \/ Conclude
  \/ Recheck
  \/ ReadBytes
  \/ Done

\* A collector's step; the history variable notes when it moved the directory
\* under a reader.
Collect ==
  /\ Next
  /\ still' = (still /\ (stage = "idle" \/ UNCHANGED <<disk, manifest>>))
  /\ UNCHANGED <<stage, wanted, seen, toHash, issues, got>>

AuditNext == Collect \/ (Audit /\ UNCHANGED vars)

AuditSpec == AuditInit /\ [][AuditNext]_allVars

----------------------------------------------------------------------------
AuditTypeOK ==
  /\ TypeOK
  /\ stage \in {"idle", "manifest", "hashing", "accepted", "rejected", "covered",
                "refused", "returned"}
  /\ wanted \in File \cup {NoFile}
  /\ seen \in Manifest
  /\ toHash \subseteq File
  /\ issues \in BOOLEAN /\ still \in BOOLEAN
  /\ got \in 0 .. MaxRuns

\* The piecewise verification is exact: when no collector touched the directory
\* meanwhile, its verdict is that of the directory itself (verify_manifest).
VerdictIsExact ==
  stage \in {"accepted", "rejected"} /\ still =>
    (stage = "accepted" <=> Verifies(AuditorKey))

\* A verification that raced collectors is still never fooled into accepting a
\* mixture: what it accepted is, file for file, what one validated run published,
\* and the newest completed run at that, if nothing moved (verify_manifest).
AcceptedIsOneRun ==
  stage = "accepted" =>
    /\ seen.run \in valid
    /\ ListedIn(seen) = planned[seen.run]
    /\ \A f \in ListedIn(seen) : seen.listed[f] = seen.run
    /\ still => seen.run = last

\* What verify_and_decrypt_artifact returns was verified: it comes from the run
\* whose manifest was checked ("Verify the containing manifest, then decrypt an
\* encrypted evidence artifact", integrity.py:100).
DecryptedWasVerified == stage = "returned" => got = seen.run

==============================================================================
