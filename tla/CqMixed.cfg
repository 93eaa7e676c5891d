SPECIFICATION FairSpec
CONSTANTS
  Modulus = 8
  CqEntries = 4
  Cqes = {a}
  Big = {big}
  Timeouts = {t}
  a = a
  big = big
  t = t
  Half = Half
  Filler = Filler
  NoCqe = NoCqe
  Calls <- MixedCalls
  MaxBacklog = 1
INVARIANTS LoopsStop
PROPERTIES FifoSpec AllReaped
