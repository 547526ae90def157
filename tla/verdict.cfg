\* Every response of a few tokens, every pair of fields near its bounds, and
\* every way the reviewer's process fails.
SPECIFICATION Spec
CONSTANTS
  Inputs <- Instances
  MaxTokens = 7
  None = None
INVARIANT TypeOK
INVARIANT ExtractionIsRight
INVARIANT ScannerFollowsGrammar
INVARIANT ProposalIsEarned
INVARIANT DeclinesRecorded
\* A review that has ended stops.
CHECK_DEADLOCK FALSE
