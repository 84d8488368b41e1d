CONSTANTS
  s = s
  m = m
  u = u
  p = p
  q = q
  w = w
  x = x
  z = z
  f = f
  Closer = Closer
  Nobody = Nobody
  Events = {s, m, p, q, u}
  Unserializable = {u}
  StreamEvents = {s}
  Calls = {w, x, z}
  Flushers = {f}
  Callers = {w, x, z, f, Closer}
  Configurations <- MCConfigurations
  Messages <- MCMessages
  MaxBatchSize = 2
  MaxQueueSize = 2
  MaxFailures = 2
SPECIFICATION FairSpec
INVARIANTS TypeOK InOrder ResolvedMeansPosted BacklogBounded
PROPERTIES ComesToRest ChannelSpec
CHECK_DEADLOCK FALSE
