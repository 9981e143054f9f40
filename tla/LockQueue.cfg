SPECIFICATION FairSpec
CONSTANTS
  Thread = {t1, t2, t3}
  Value = {u, v}
  NoValue = NoValue
  Pending = Pending
  NoThread = NoThread
  MaxCalls = 1
PROPERTIES
  ImplementsFifo
  PopTryReturns
  PopIsServed
