CONSTANTS
  s1 = s1
  s2 = s2
  u = u
  t1 = t1
  t2 = t2
  t3 = t3
  NoThread = NoThread
  Zero = 0
  Signal <- MCSignal
  Name <- MCName
  Value <- MCValue
  Thread <- MCThread
  Calls <- MCCalls
  Default <- MCDefault
SPECIFICATION FairSpec
INVARIANTS TypeOK NoTornRead
PROPERTIES AtomicSpec SomeCallReturns
