SPECIFICATION Spec
CONSTANTS
  ana = ana
  bia = bia
  Citizens = {ana, bia}
  Clients = {k1}
  MaxId = 3
  Owner <- AllOfAna
  Stamp <- OneTie
  DefaultLimit = 1
  MaxLimit = 2
  LimitParams = {Absent, 0, 2, 3}
  OffsetParams = {Absent, 1, 2, Malformed}
  Absent = Absent
  Malformed = Malformed
  Nobody = Nobody
INVARIANTS
  InboxTypeOK
  WalkIsComplete
  RepeatsAreInserts
  TotalCoversPage
  OwnRowsOnly
PROPERTY
  UnreadIsRight
