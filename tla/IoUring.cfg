SPECIFICATION LoopSpec
CONSTANTS
  Modulus = 4
  SqEntries = 2
  CqEntries = 1
  Reqs = {a, b}
  a = a
  b = b
  SubmitCalls <- Submitting
  ReapCalls <- Reaping
  SbDepth = 1
  MaxBacklog = 2
  NoReq = NoReq
  NoCqe = NoCqe
  Half = Half
  Filler = Filler
PROPERTIES EachOnce EachServed CompletionsInOrder
