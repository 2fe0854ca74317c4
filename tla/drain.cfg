SPECIFICATION FairSpec
CONSTANTS
  Sources = {s1, s2, s3}
  Runs = {r1}
  NoteOf <- SharedNote
  PerWorker = 2
  MaxWorkers = 3
  Threshold = 2
  MaxFaults = 2
INVARIANTS UnstoppedRunTriesAll AuthFailureWins
PROPERTIES RunsEnd 
CHECK_DEADLOCK FALSE
