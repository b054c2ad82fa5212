SPECIFICATION Spec
CONSTANTS
  f1 = f1
  f2 = f2
  alice = alice
  Fsps = {f1, f2}
  Parties = {alice}
  Null = Null
  Messages <- AllKinds
  MaxMessages = 2
  MaxBatch = 2
  MaxRetries = 1
  MaxChanges = 1
  Faults = TRUE
INVARIANTS TypeOK CommittedAnswered AnsweredInOrder RepliesBounded
PROPERTIES Vouched ImplementsAtLeastOnce
CHECK_DEADLOCK FALSE
