SPECIFICATION FairSpec
CONSTANTS
  t1 = t1  t2 = t2  q1 = q1
  d = d  m1 = m1
  NoReq = NoReq  NoThread = NoThread
  Requests = {t1, t2}
  TxRequests = {t1, t2}
  Uuids = {d}
  Uuid <- SameDigest
  IoThreads = {io1, io2}
  NetThreads = {net1}
  BROADCAST_NUM = 1
  PromptSend = TRUE
PROPERTIES
  EveryRequestReleased
CHECK_DEADLOCK FALSE
