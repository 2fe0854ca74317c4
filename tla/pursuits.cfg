SPECIFICATION Spec
CONSTANTS
  a = a
  b = b
  old = old
  new = new
  Procs = {a, b}
  Paths = {old, new}
  FirstPath = old
  Renames <- OldToNew
  Stages = {open, won}
  Closed = {won}
  Docs = {d1, d2}
  Meetings = {m}
  Payloads = {sf}
  Remarks = {r}
  MaxRuns = 3
  NoDoc = NoDoc
  NoPayload = NoPayload
  NoProc = NoProc
  Absent = Absent
SYMMETRY Interchangeable
INVARIANTS TypeOK OneWriterPerPath
PROPERTY WritesAreAtomic
CHECK_DEADLOCK FALSE
