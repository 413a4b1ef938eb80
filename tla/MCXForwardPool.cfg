SPECIFICATION Spec
CONSTANTS
  t1 = t1  t2 = t2  q1 = q1
  d = d  m1 = m1
  NoReq = NoReq  NoThread = NoThread
  Requests = {t1, t2, q1}
  TxRequests = {t1, t2}
  Uuids = {d, m1}
  Uuid <- SameDigest
  IoThreads = {io1, io2}
  NetThreads = {net1}
  BROADCAST_NUM = 2
  PromptSend = TRUE
INVARIANTS
  TypeOK
  ReplySlotInBounds
  AnswersPossible
  RegisteredIsPending
  NoSilentDrop
PROPERTIES
  CancelIsFinal
  OnlyAnsweredLeave
  GatewaySpec
CHECK_DEADLOCK FALSE
SYMMETRY Symmetry
