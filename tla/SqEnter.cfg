SPECIFICATION EnterSpec
CONSTANTS
  Modulus = 4
  Entries = 2
  Reqs = {read, write}
  Extended = {write}
  read = read
  write = write
  NoReq = NoReq
  SqPoll = FALSE
  IoPoll = TRUE
  Calls <- AllCalls
  SbDepth = 2
INVARIANTS TypeOK SubmitOffersAll
PROPERTIES FifoSpec FlushedConsumed
