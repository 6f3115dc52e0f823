SPECIFICATION JSpec
CONSTANTS
  w1 = w1
  w2 = w2
  k1 = k1
  k2 = k2
  v1 = v1
  v2 = v2
  session = session
  index = index
  Absent = Absent
  Writers = {w1, w2}
  Keys = {k1, k2}
  Values = {v1, v2}
  Rows = {session, index}
  Foreign = {session}
  Requests <- MCRequests
INVARIANTS JTypeOK OutcomesAreTrue AlwaysStabilizes RowsHaveEvidence
PROPERTIES JournalIsImmutable
