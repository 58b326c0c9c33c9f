SPECIFICATION FairSpec
CONSTANTS
  Conn = {c1, c2}
  Request = {r1, r2, r3}
  MaxQueries = 2
  Worker = worker
  Service = service
  Tool = {}
  NoOne = NoOne
PROPERTIES
  EveryoneIsServed
  StopEnds
