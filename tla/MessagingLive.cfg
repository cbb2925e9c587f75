SPECIFICATION FairSpec
CONSTANTS
  t0 = t0
  t1 = t1
  s1 = s1
  s2 = s2
  s3 = s3
  g1 = g1
  test = test
  loop = loop
  Task = {t0, t1}
  TestTask = t0
  Value = {test, loop}
  MESSAGE_MSG_TEST = test
  Length = {24, 25, 33}
  SmallBlock = {s1, s2}
  BigBlock = {g1}
  MESSAGE_NUM = 2
  MEM_SIZE = 32
  MEM_BIG_SIZE = 256
  HEAD_SIZE = 8
  QUERY_SIZE = 24
  NULL = NULL
  LINK = LINK
INVARIANT QueueNeverFull
PROPERTY Recycled
