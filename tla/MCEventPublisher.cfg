CONSTANTS
  r1 = r1
  r2 = r2
  dash = dash
  logger = logger
  NoRun = NoRun
  Run <- MCRun
  Subscriber <- MCSubscriber
  Flaky <- MCFlaky
  SeqMod = 2
  MaxVersion = 1
SPECIFICATION FairSpec
INVARIANTS TypeOK OneRoundAfterStop OneLateDatagram
PROPERTIES StreamInOrder UpdateReachesSubscribers StoppedEnds
