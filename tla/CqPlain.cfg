SPECIFICATION FairSpec
CONSTANTS
  Modulus = 4
  CqEntries = 2
  Cqes = {a, b}
  Big = {}
  Timeouts = {}
  a = a
  b = b
  Half = Half
  Filler = Filler
  NoCqe = NoCqe
  Calls <- AllCalls
  MaxBacklog = 2
INVARIANTS TypeOK HeldIntact
PROPERTIES FifoSpec AllReaped WaitDelivers
