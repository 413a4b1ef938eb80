SPECIFICATION MCSpec
CONSTANTS
  Requests <- SmallRequests
  Responses <- SmallResponses
  Digits <- TenDigits
  MaxSize = 9
  Word = 256
  PartSizes = {4}
  Pieces = {2, 5, 9}
  MaxParts = 2
  MaxExchanges = 2
  Bytes <- Marks
  Longest = 4
INVARIANTS
  MessagesIntact
  SizeLimit
  OneWrite
  ParsersAgree
PROPERTIES
  FifoSpec
  ExchangeEnds
CHECK_DEADLOCK FALSE
