SPECIFICATION Spec
CONSTANTS
  Conn = {c1, c2}
  Request = {r1, r2}
  MaxQueries = 2
  Worker = worker
  Service = service
  Tool = {t1, t2}
  NoOne = NoOne
SYMMETRY Symmetry
INVARIANTS
  TypeOK
  SchemaMatchesVersion
  ScriptsApply
  ClosedPoolIsIdle
  NoCircularWait
  ConnsAreCounted
PROPERTIES
  ServedIsReady
