SPECIFICATION PollSpec
CONSTANTS
  Modulus = 4
  Entries = 2
  Reqs = {read, write}
  Extended = {write}
  read = read
  write = write
  NoReq = NoReq
  SqPoll = TRUE
  IoPoll = TRUE
  Calls <- WakingCalls
  SbDepth = 2
INVARIANTS RingWindow NoSleepOnWork
PROPERTIES FlushedConsumed
