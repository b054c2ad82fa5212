SPECIFICATION FairSpec
CONSTANTS
  f1 = f1
  f2 = f2
  alice = alice
  Fsps = {f1, f2}
  Parties = {alice}
  Null = Null
  Messages <- FewKinds
  MaxMessages = 3
  MaxBatch = 2
  MaxRetries = 2
  MaxChanges = 0
  Faults = FALSE
INVARIANTS ExactlyOnceEffect
PROPERTIES AllAnswered
CHECK_DEADLOCK FALSE
