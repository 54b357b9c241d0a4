SPECIFICATION Spec
CONSTANTS
  maxTurns = 2
  MaxBlocks = 2
  MaxIssued = 2
  MaxRemarks = 1
  RemarkTypes = {"started", "governance_decision"}
  MaxFailures = 1
  MaxResumes = 1
  Reasons = {"end_turn", "pause_turn", "aborted", "error"}
  Checkpoints = {1}
  Tears = {"none", "all"}
INVARIANT SnapshotUsageIsTotal
CHECK_DEADLOCK FALSE
