SPECIFICATION FairSpec
CONSTANTS
  Signals = {SIGINT, SIGTERM}
  Oracles <- BothTypes
  MaxMessages = 1
  MaxSignals = 2
  MaxFaults = 1
INVARIANTS TypeOK TearDownSpoilsNoAnswer NothingLost NullMeansNotHeld
PROPERTIES SignalsEndIt ReadyAtLast AnsweredAtLast
