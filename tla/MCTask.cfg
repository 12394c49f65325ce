SPECIFICATION TaskSpec
CONSTANTS
  Files = {f1, f2}
  MaxAttempts = 2
INVARIANTS
  ProducedFilesHaveAManifest
CHECK_DEADLOCK FALSE
