\* Three applies, with kills and power losses anywhere.
SPECIFICATION Spec
CONSTANTS
  MaxMutations = 3
  MaxKills = 1
  MaxLosses = 2
  DirSync = TRUE
  Target = target
  Marker = marker
  Fingerprints = fingerprints
  None = none
  Torn = torn
  Garbage = garbage
INVARIANT TypeOK
INVARIANT WholeVersions
INVARIANT ReconcileDecides
INVARIANT BackupWhole
\* Applies are bounded: when they are used up the system stops.
CHECK_DEADLOCK FALSE
