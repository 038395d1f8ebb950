\* Four policy packs and up to five workers: chunks of one to four, a shorter
\* last chunk, and every position of errors and panics.
SPECIFICATION Spec
CONSTANTS
  NumPolicies = 4
  MaxWorkers = 5
  Labels = {"safe", "breaking"}
INVARIANT
  BatchSound
