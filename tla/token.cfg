SPECIFICATION FairSpec
CONSTANTS
  Waiters = {w1, w2}
  Listeners = {l1}
  NoListener = NoListener
  Outcomes <- Plain
  Requests <- Kinds
  MaxRounds = 2
  w1 = w1
  w2 = w2
  l1 = l1
INVARIANTS TypeOK NoLostCompletion  CodePerTopic
PROPERTIES  TimeoutMeansPending WaitReturns TimedWaitReturns
