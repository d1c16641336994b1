\* One task, two clients: one has `osism apply` in the foreground, another
\* follows the same task with `osism wait --live`.
CONSTANTS
  t1 = t1
  t2 = t2
  NoTask = NoTask
  Tasks = {t1, t2}
  NReaders = 2
  Watched = {t1}
  MaxLines <- Lines
SPECIFICATION Spec
CHECK_DEADLOCK FALSE
INVARIANTS
  EndMarkerForEveryFollower
