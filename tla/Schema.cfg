SPECIFICATION Spec
CONSTANTS
  g1 = g1  u1 = u1  c1 = c1  t1 = t1  k1 = k1
  l1 = l1  l2 = l2  b1 = b1  b2 = b2  i1 = i1
  Null = Null
  Unborn = Unborn
  Gone = Gone
  Rows = {g1, u1, c1, t1, k1, l1, l2, b1, b2}
  TableOf <- Estate
  Keys = {i1}
INVARIANTS
  TypeOK
  NoDanglingReference
PROPERTIES
  LedgerAppendOnly
  RecordsSurvive
  DebtorsStay
