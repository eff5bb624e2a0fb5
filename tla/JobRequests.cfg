CONSTANTS
  Clients = {c1, c2}
  Keys = {k1}
  Variants = {v1, v2}
  MaxJobs = 3
SPECIFICATION FairSpec
INVARIANTS OneJobForAKey AnswersFitTheRequest ResolvingIsUndisturbed
PROPERTIES InfoJobsEnd
