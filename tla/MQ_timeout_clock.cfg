SPECIFICATION FairSpec
CONSTANTS
  p = p
  c1 = c1
  c2 = c2
  m0 = m0
  m1 = m1
  m2 = m2
  b1 = b1
  b2 = b2
  b3 = b3
  NULL = NULL
  Threads = {p, c1}
  Uses <- OneConsumer
  Msgs = {m0, m1}
  NoData = {m0}
  Empty = {}
  Buffers = {b1, b2}
  PoolSize = 2
  MaxPools = 2
  MaxPoolCnt = 3
  MaxPuts = 2
  SpuriousWakeups = FALSE
PROPERTY
  TimedWaitReturns
CHECK_DEADLOCK FALSE
