\* Three jobs and three workers: when the first error is received, one worker
\* may have a message in the channel, one be in its call, and a job be left.
SPECIFICATION FairSpec
CONSTANTS
  NumJobs = 3
  MaxWorkers = 3
  Answers = {"same", "other"}
  Error = Error
  NoAnswer = NoAnswer
INVARIANTS
  EachSlotItsAnswer
  StopsPromptly
PROPERTIES
  ImplementsMatrix
  ReplayReturns
