\* Two tasks of one role compete for the lock; the first writes two lines and
\* is followed by two clients, one after the other.  The second writes none.
CONSTANTS
  t1 = t1
  t2 = t2
  NoTask = NoTask
  Tasks = {t1, t2}
  NReaders = 2
  Watched = {t1}
  MaxLines <- Lines
SPECIFICATION FairSpec
CONSTRAINTS
  Undisturbed
  OneCodeUnread
CHECK_DEADLOCK FALSE
INVARIANTS
  OneSupervisedProgram
  PrintedInOrder
  RcFaithful
PROPERTIES
  FollowerReturns
