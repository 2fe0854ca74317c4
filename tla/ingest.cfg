SPECIFICATION Spec
CONSTANTS
  Sources = {s1, s2}
  Runs = {r1, r2}
  NoteOf <- OwnNotes
  PerWorker = 1
  MaxWorkers = 2
  Threshold = 1
  MaxFaults = 2
SYMMETRY Interchangeable
INVARIANTS TypeOK OneWorkerPerSource  ProcessedIsComplete ReportIsTrue
CHECK_DEADLOCK FALSE
