SPECIFICATION FairSpec
CONSTANTS
  j1 = j1
  j2 = j2
  j3 = j3
  u1 = u1
  u2 = u2
  NoJob = NoJob
  Jobs <- MCJobs
  Updates <- MCUpdates
  UpdateOf <- MCUpdateOf
  KindOf <- MCKindOf
  Workers = {w1, w2}
  BatchSize = 2
  MaxAttempts = 2
  RuntimeConfigured = TRUE
  MaxFaults = 1
INVARIANTS
  TypeOK
  OncePerUpdate
  ReplyFollowsExecution
  SucceededIsAnswered
PROPERTIES
  AnswerIsFinal
  AbandonedStaysAbandoned
  AcceptedJobSettles
  PromiseKept
CHECK_DEADLOCK FALSE
