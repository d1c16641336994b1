---------------------------- MODULE MCTaskRunner ----------------------------
EXTENDS TaskRunner, TLC

CONSTANTS t1, t2

Lines == t1 :> 2 @@ t2 :> 0

\* Nothing is claimed of the clients of a disturbed task, and its worker does
\* not see them: such states need no successors.
Undisturbed == disturbed = {}

\* Nobody reads the exit code of the second task: one value of it will do.
OneCodeUnread == exit[t2] # 1
=============================================================================
