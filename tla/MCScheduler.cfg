CONSTANTS
  Tasks <- Categories
  MaxErrors = 2
SPECIFICATION SchedulerSpec
INVARIANTS
  SchedulerTypeOK
  VerdictIsConfirmed
  NoAnswerReasons
