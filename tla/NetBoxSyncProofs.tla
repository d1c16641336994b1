-------------------------- MODULE NetBoxSyncProofs --------------------------
(***************************************************************************)
(* Proofs about the tasks that change NetBox devices, for any number of    *)
(* tasks, devices, fields and NetBoxes: a task's lock keeps its snapshot   *)
(* fresh, so that no save undoes another task's.                           *)
(***************************************************************************)
EXTENDS NetBoxSync, TLAPS

Values == Tasks \cup {"old", "active"}

\* What the ZTP endpoint has read is a device's fields.
ZtpOK ==
  ztp.pc = "read" => ztp.device \in Devices /\ ztp.snap \in [Fields -> Values]

\* A task starts at the primary; an update works on a NetBox that matches.
Position ==
  \A t \in Tasks :
    /\ pc[t] = "locking" => at[t] = 1
    /\ pc[t] \in {"get", "save"} => at[t] \in Matching[t]

\* A Redlock is owned by a task for its device.
OwnDevice == \A d \in Devices : lock[d] # Nobody => DeviceOf[lock[d]] = d

\* While no lock lapses, a task that works owns the lock of its device.
Owners == lapsed = {} => \A t \in Tasks : Working(t) => lock[DeviceOf[t]] = t

\* Field f of device d in NetBox n holds the value of some task that writes it.
Held(n, t) ==
  \E u \in Tasks :
    /\ DeviceOf[u] = DeviceOf[t]
    /\ FieldOf[u] = FieldOf[t]
    /\ nbox[n][DeviceOf[t]][FieldOf[t]] = u

\* A task with no failure so far has set its field in all it has passed.
Progressed ==
  lapsed = {} /\ ztp.pc = "never" =>
    \A t \in Tasks :
      /\ Working(t) /\ success[t] =>
           \A n \in Matching[t] : n < at[t] => Held(n, t)
      /\ pc[t] = "true" => \A n \in Matching[t] : Held(n, t)

\* What holds of the locks and of the semaphores.
LocksOK == OwnDevice /\ Owners /\ EndedTasksOwnNoLock /\ SlotsAreInUse

\* The inductive invariant.
IInv ==
  /\ TypeOK
  /\ ZtpOK
  /\ Position
  /\ LocksOK
  /\ FreshSnapshot
  /\ Progressed

-----------------------------------------------------------------------------
\* The initial states satisfy the invariant.
LEMMA InitIInv == Init => IInv
<1> SUFFICES ASSUME Init PROVE IInv
  OBVIOUS
<1>1. TypeOK /\ ZtpOK /\ Position
  BY SyncAssumption DEF Init, TypeOK, ZtpOK, Position, NetBoxes, Old
<1>2. LocksOK
  BY SyncAssumption DEF Init, LocksOK, OwnDevice, Owners, SlotsAreInUse,
     EndedTasksOwnNoLock, Working
<1>3. FreshSnapshot /\ Progressed
  BY DEF Init, FreshSnapshot, Progressed, Working
<1> QED
  BY <1>1, <1>2, <1>3 DEF IInv

\* What save() sends has the type of a device's fields.
LEMMA SavedType ==
  ASSUME TypeOK, NEW t \in Tasks, at[t] \in NetBoxes, Saved(t)
  PROVE  nbox' \in [NetBoxes -> [Devices -> [Fields -> Values]]]
<1>1. [snap[t] EXCEPT ![FieldOf[t]] = t] \in [Fields -> Values]
  BY SyncAssumption DEF TypeOK, Values
<1>2. [nbox[at[t]] EXCEPT ![DeviceOf[t]] = [snap[t] EXCEPT ![FieldOf[t]] = t]]
        \in [Devices -> [Fields -> Values]]
  BY <1>1, SyncAssumption DEF TypeOK, Values
<1> QED
  BY <1>2 DEF TypeOK, Values, Saved

\* The types and the position of every task after a step.
LEMMA StepTypes ==
  ASSUME TypeOK, ZtpOK, Position, [Next]_vars
  PROVE  TypeOK' /\ ZtpOK' /\ Position'
<1> USE SyncAssumption DEF NetBoxes
<1>1. ASSUME NEW t \in Tasks,
             Acquire(t) \/ AcquireTimesOut(t) \/ Slot(t) \/ SlotTimesOut(t)
               \/ Return(t) \/ Kill(t)
      PROVE  TypeOK' /\ ZtpOK' /\ Position'
  <2>1. CASE Acquire(t)
    BY <2>1 DEF Acquire, Goto, taskVars, TypeOK, ZtpOK, Position
  <2>2. CASE AcquireTimesOut(t)
    BY <2>2 DEF AcquireTimesOut, Goto, taskVars, TypeOK, ZtpOK, Position
  <2>3. CASE Slot(t)
    BY <2>3 DEF Slot, Goto, taskVars, TypeOK, ZtpOK, Position
  <2>4. CASE SlotTimesOut(t)
    BY <2>4 DEF SlotTimesOut, Unlock, Goto, taskVars, TypeOK, ZtpOK, Position
  <2>5. CASE Return(t)
    <3>1. PICK label \in {"raised", "true", "false"} : Goto(t, label)
      BY <2>5 DEF Return
    <3> QED
      BY <2>5, <3>1 DEF Return, Unlock, Goto, taskVars, TypeOK, ZtpOK, Position
  <2>6. CASE Kill(t)
    BY <2>6 DEF Kill, Goto, taskVars, TypeOK, ZtpOK, Position
  <2> QED
    BY <1>1, <2>1, <2>2, <2>3, <2>4, <2>5, <2>6
<1>2. ASSUME NEW t \in Tasks, Skip(t)
      PROVE  TypeOK' /\ ZtpOK' /\ Position'
  BY <1>2 DEF Skip, TypeOK, ZtpOK, Position
<1>3. ASSUME NEW t \in Tasks, Get(t)
      PROVE  TypeOK' /\ ZtpOK' /\ Position'
  <2>1. at[t] \in NetBoxes
    BY <1>3 DEF Get, Position
  <2>2. nbox[at[t]][DeviceOf[t]] \in [Fields -> Tasks \cup {"old", "active"}]
    BY <2>1 DEF TypeOK
  <2> QED
    BY <1>3, <2>2 DEF Get, Goto, TypeOK, ZtpOK, Position
<1>4. ASSUME NEW t \in Tasks, NEW ok \in BOOLEAN, pc[t] \in {"get", "save"},
             Updated(t, ok), Saved(t) \/ UNCHANGED nbox
      PROVE  TypeOK' /\ ZtpOK' /\ Position'
  <2>1. at[t] \in NetBoxes
    BY <1>4 DEF Position
  <2>2. nbox' \in [NetBoxes -> [Devices -> [Fields -> Values]]]
    BY <1>4, <2>1, SavedType DEF TypeOK, Values
  <2>3. Old \in [Fields -> Values]
    BY DEF Old, Values
  <2>4. success' \in [Tasks -> BOOLEAN]
    BY <1>4 DEF Updated, Result, TypeOK
  <2>5. at' \in [Tasks -> 1..(NNetBoxes + 1)]
    BY <1>4, <2>1 DEF Updated, TypeOK
  <2>6. pc' = [pc EXCEPT ![t] = "each"] /\ snap' = [snap EXCEPT ![t] = Old]
    BY <1>4 DEF Updated, Goto
  <2>7. inside' \in [NetBoxes -> SUBSET Tasks]
    BY <1>4 DEF Updated, Leave, TypeOK
  <2>8. TypeOK'
    BY <1>4, <2>2, <2>3, <2>4, <2>5, <2>6, <2>7 DEF Updated, TypeOK, Values
  <2>9. Position'
    BY <1>4, <2>6 DEF Updated, TypeOK, Position
  <2> QED
    BY <1>4, <2>8, <2>9 DEF Updated, ZtpOK
<1>5. ASSUME NEW d \in Devices, AutoRelease(d)
      PROVE  TypeOK' /\ ZtpOK' /\ Position'
  BY <1>5 DEF AutoRelease, taskVars, TypeOK, ZtpOK, Position
<1>6. ASSUME NEW d \in Devices, ZtpGet(d)
      PROVE  TypeOK' /\ ZtpOK' /\ Position'
  <2>1. nbox[1][d] \in [Fields -> Values]
    BY <1>6 DEF TypeOK, Values
  <2> QED
    BY <1>6, <2>1 DEF ZtpGet, taskVars, TypeOK, ZtpOK, Position
<1>7. ASSUME NEW n \in NetBoxes, SlotExpires(n)
      PROVE  TypeOK' /\ ZtpOK' /\ Position'
  BY <1>7 DEF SlotExpires, taskVars, TypeOK, ZtpOK, Position
<1>8. ASSUME ZtpSave
      PROVE  TypeOK' /\ ZtpOK' /\ Position'
  <2>1. [ztp.snap EXCEPT ![Provision] = "active"] \in [Fields -> Values]
    BY <1>8 DEF ZtpSave, ZtpOK, Values
  <2>2. nbox' \in [NetBoxes -> [Devices -> [Fields -> Values]]]
    BY <1>8, <2>1 DEF ZtpSave, ZtpOK, TypeOK, Values
  <2> QED
    BY <1>8, <2>2 DEF ZtpSave, taskVars, TypeOK, ZtpOK, Position, Values
<1>9. CASE UNCHANGED vars
  BY <1>9 DEF vars, taskVars, TypeOK, ZtpOK, Position
<1>10. ASSUME NEW t \in Tasks, Save(t) \/ UpdateFails(t)
       PROVE  TypeOK' /\ ZtpOK' /\ Position'
  BY <1>4, <1>10 DEF Save, UpdateFails
<1>11. ASSUME NEW t \in Tasks, UpdateRaises(t)
       PROVE  TypeOK' /\ ZtpOK' /\ Position'
  <2>1. at[t] \in NetBoxes
    BY <1>11 DEF UpdateRaises, Position
  <2>2. nbox' \in [NetBoxes -> [Devices -> [Fields -> Values]]]
    BY <1>11, <2>1, SavedType DEF UpdateRaises, TypeOK, Values
  <2>3. lock' \in [Devices -> Tasks \cup {Nobody}] /\ inside' \in [NetBoxes -> SUBSET Tasks]
    BY <1>11 DEF UpdateRaises, Unlock, Leave, TypeOK
  <2>4. pc' = [pc EXCEPT ![t] = "raised"]
    BY <1>11 DEF UpdateRaises, Goto
  <2> QED
    BY <1>11, <2>2, <2>3, <2>4 DEF UpdateRaises, taskVars, TypeOK, ZtpOK, Position, Values
<1> QED
  BY <1>1, <1>2, <1>3, <1>5, <1>6, <1>7, <1>8, <1>9, <1>10, <1>11 DEF Next, Run

\* No step makes a lock owned by a task for another device, by a task that
\* ended on its own, or lost by a task that works while no lock lapses; nor
\* does one leave a slot behind.
LEMMA StepLocks ==
  ASSUME TypeOK, Position, LocksOK, [Next]_vars
  PROVE  LocksOK'
<1> USE SyncAssumption DEF Working
<1>1. ASSUME NEW t \in Tasks, Acquire(t)
      PROVE  LocksOK'
  BY <1>1 DEF Acquire, LockFree, Goto, taskVars, TypeOK, LocksOK, OwnDevice,
     Owners, EndedTasksOwnNoLock, SlotsAreInUse
<1>2. ASSUME NEW t \in Tasks, AcquireTimesOut(t)
      PROVE  LocksOK'
  BY <1>2 DEF AcquireTimesOut, Goto, taskVars, TypeOK, LocksOK, OwnDevice,
     Owners, EndedTasksOwnNoLock, SlotsAreInUse
<1>3. ASSUME NEW t \in Tasks, Skip(t)
      PROVE  LocksOK'
  BY <1>3 DEF Skip, TypeOK, LocksOK, OwnDevice,
     Owners, EndedTasksOwnNoLock, SlotsAreInUse
<1>4. ASSUME NEW t \in Tasks, Slot(t)
      PROVE  LocksOK'
  BY <1>4 DEF Slot, Goto, taskVars, TypeOK, LocksOK, OwnDevice,
     Owners, EndedTasksOwnNoLock, SlotsAreInUse
<1>5. ASSUME NEW t \in Tasks, NEW label \in {"raised", "true", "false"},
             pc[t] = "each", Unlock(t), Goto(t, label),
             UNCHANGED <<nbox, lapsed, inside, taskVars, ztp>>
      PROVE  LocksOK'
  BY <1>5 DEF Unlock, Goto, taskVars, TypeOK, LocksOK, OwnDevice,
     Owners, EndedTasksOwnNoLock, SlotsAreInUse
<1>6. ASSUME NEW t \in Tasks, SlotTimesOut(t) \/ Return(t)
      PROVE  LocksOK'
  <2>1. PICK label \in {"raised", "true", "false"} : Goto(t, label)
    BY <1>6 DEF SlotTimesOut, Return
  <2> QED
    BY <1>5, <1>6, <2>1 DEF SlotTimesOut, Return
<1>7. ASSUME NEW t \in Tasks, Get(t)
      PROVE  LocksOK'
  BY <1>7 DEF Get, Goto, TypeOK, LocksOK, OwnDevice,
     Owners, EndedTasksOwnNoLock, SlotsAreInUse
<1>8. ASSUME NEW t \in Tasks, NEW ok \in BOOLEAN, pc[t] \in {"get", "save"},
             Updated(t, ok)
      PROVE  LocksOK'
  BY <1>8 DEF Updated, Leave, Goto, TypeOK, LocksOK, OwnDevice,
     Owners, EndedTasksOwnNoLock, SlotsAreInUse
<1>9. ASSUME NEW t \in Tasks, Save(t) \/ UpdateFails(t)
      PROVE  LocksOK'
  <2> QED
    BY <1>8, <1>9 DEF Save, UpdateFails
<1>10. ASSUME NEW t \in Tasks, Kill(t)
       PROVE  LocksOK'
  BY <1>10 DEF Kill, Goto, taskVars, TypeOK, LocksOK, OwnDevice,
     Owners, EndedTasksOwnNoLock, SlotsAreInUse
<1>11. ASSUME NEW d \in Devices, AutoRelease(d)
       PROVE  LocksOK'
  BY <1>11 DEF AutoRelease, taskVars, TypeOK, LocksOK, OwnDevice,
     Owners, EndedTasksOwnNoLock, SlotsAreInUse
<1>12. ASSUME NEW n \in NetBoxes, SlotExpires(n)
       PROVE  LocksOK'
  BY <1>12 DEF SlotExpires, taskVars, TypeOK, LocksOK, OwnDevice,
     Owners, EndedTasksOwnNoLock, SlotsAreInUse
<1>13. CASE ZtpSave \/ (\E d \in Devices : ZtpGet(d)) \/ UNCHANGED vars
  BY <1>13 DEF ZtpSave, ZtpGet, vars, taskVars, LocksOK, OwnDevice,
     Owners, EndedTasksOwnNoLock, SlotsAreInUse
<1>14. ASSUME NEW t \in Tasks, UpdateRaises(t)
       PROVE  LocksOK'
  BY <1>14 DEF UpdateRaises, Leave, Unlock, Goto, taskVars, TypeOK, LocksOK, OwnDevice,
     Owners, EndedTasksOwnNoLock, SlotsAreInUse
<1> QED
  BY <1>1, <1>2, <1>3, <1>4, <1>6, <1>7, <1>9, <1>10, <1>11, <1>12, <1>13, <1>14
  DEF Next, Run

\* A save from a fresh snapshot undoes no other task's: what a task of the same
\* field has set stays, or is replaced by the value of the task that saves.
LEMMA SaveKeepsOthers ==
  ASSUME TypeOK, NEW t \in Tasks, at[t] \in NetBoxes,
         snap[t] = nbox[at[t]][DeviceOf[t]], Saved(t),
         NEW u \in Tasks, NEW n \in NetBoxes, Held(n, u)
  PROVE  Held(n, u)'
<1> USE SyncAssumption
<1>1. PICK w \in Tasks : /\ DeviceOf[w] = DeviceOf[u]
                         /\ FieldOf[w] = FieldOf[u]
                         /\ nbox[n][DeviceOf[u]][FieldOf[u]] = w
  BY DEF Held
<1> DEFINE d == DeviceOf[u]
           f == FieldOf[u]
<1>2. d \in Devices /\ f \in Fields
  OBVIOUS
<1>3. nbox'[n][d] = IF n = at[t] /\ d = DeviceOf[t]
                    THEN [snap[t] EXCEPT ![FieldOf[t]] = t] ELSE nbox[n][d]
  BY <1>2 DEF Saved, TypeOK
<1>4. CASE n = at[t] /\ d = DeviceOf[t] /\ f = FieldOf[t]
  <2>1. nbox'[n][d][f] = t
    BY <1>2, <1>3, <1>4 DEF TypeOK
  <2> QED
    BY <2>1, <1>4 DEF Held
<1>5. CASE ~(n = at[t] /\ d = DeviceOf[t] /\ f = FieldOf[t])
  <2>1. nbox'[n][d][f] = nbox[n][d][f]
    BY <1>2, <1>3, <1>5 DEF TypeOK
  <2> QED
    BY <2>1, <1>1 DEF Held
<1> QED
  BY <1>4, <1>5

\* The saving task itself holds its field afterwards.
LEMMA SaveHolds ==
  ASSUME TypeOK, NEW t \in Tasks, NEW n \in NetBoxes, n = at[t], Saved(t)
  PROVE  Held(n, t)'
<1> USE SyncAssumption
<1>1. nbox'[n][DeviceOf[t]] = [snap[t] EXCEPT ![FieldOf[t]] = t]
  BY DEF Saved, TypeOK
<1>2. nbox'[n][DeviceOf[t]][FieldOf[t]] = t
  BY <1>1 DEF TypeOK
<1> QED
  BY <1>2 DEF Held

\* A save leaves other devices alone.
LEMMA OtherDevicesKept ==
  ASSUME TypeOK, NEW t \in Tasks, at[t] \in NetBoxes, Saved(t) \/ UNCHANGED nbox,
         NEW u \in Tasks, at[u] \in NetBoxes, DeviceOf[u] # DeviceOf[t]
  PROVE  nbox'[at[u]][DeviceOf[u]] = nbox[at[u]][DeviceOf[u]]
<1>1. CASE Saved(t)
  <2>1. nbox'[at[u]] = IF at[u] = at[t]
          THEN [nbox[at[t]] EXCEPT ![DeviceOf[t]] = [snap[t] EXCEPT ![FieldOf[t]] = t]]
          ELSE nbox[at[u]]
    BY <1>1 DEF Saved, TypeOK
  <2>2. nbox[at[t]] \in [Devices -> [Fields -> Tasks \cup {"old", "active"}]]
    BY DEF TypeOK
  <2> QED
    BY <2>1, <2>2, SyncAssumption
<1>2. CASE UNCHANGED nbox
  BY <1>2
<1> QED
  BY <1>1, <1>2

\* Two tasks that work on one device are one task, while no lock lapses.
LEMMA OneWorker ==
  ASSUME Owners, lapsed = {}, NEW t \in Tasks, NEW u \in Tasks,
         Working(t), Working(u), DeviceOf[t] = DeviceOf[u]
  PROVE  t = u
BY DEF Owners

\* Snapshots stay fresh, and fields that were set stay set.
LEMMA StepData ==
  ASSUME IInv, [Next]_vars, lapsed' = {}, ztp'.pc = "never"
  PROVE  FreshSnapshot' /\ Progressed'
<1> USE SyncAssumption DEF NetBoxes
<1>0. TypeOK /\ Position /\ Owners
  BY DEF IInv, LocksOK
<1>1. lapsed = {} /\ ztp.pc = "never"
  <2>1. ASSUME NEW t \in Tasks, Run(t) \/ Kill(t)
        PROVE  UNCHANGED <<lapsed, ztp>>
    <3>1. CASE Acquire(t) \/ AcquireTimesOut(t) \/ Skip(t) \/ Slot(t)
      BY <3>1 DEF Acquire, AcquireTimesOut, Skip, Slot
    <3>2. CASE SlotTimesOut(t) \/ Get(t) \/ Return(t) \/ Kill(t)
      BY <3>2 DEF SlotTimesOut, Get, Return, Kill
    <3>3. CASE Save(t) \/ UpdateFails(t) \/ UpdateRaises(t)
      BY <3>3 DEF Save, UpdateFails, Updated, UpdateRaises
    <3> QED
      BY <2>1, <3>1, <3>2, <3>3 DEF Run
  <2>2. ASSUME NEW d \in Devices, AutoRelease(d)
        PROVE  FALSE
    BY <2>2 DEF AutoRelease
  <2>3. ASSUME ZtpSave \/ \E d \in Devices : ZtpGet(d)
        PROVE  FALSE
    BY <2>3 DEF ZtpSave, ZtpGet
  <2>4. ASSUME NEW n \in NetBoxes, SlotExpires(n)
        PROVE  UNCHANGED <<lapsed, ztp>>
    BY <2>4 DEF SlotExpires
  <2>5. CASE UNCHANGED vars
    BY <2>5 DEF vars
  <2> QED
    BY <2>1, <2>2, <2>3, <2>4, <2>5 DEF Next
<1>2. \A t \in Tasks : pc[t] = "save" => snap[t] = nbox[at[t]][DeviceOf[t]]
  BY <1>1 DEF IInv, FreshSnapshot
<1>3. \A t \in Tasks :
        /\ Working(t) /\ success[t] =>
             \A n \in Matching[t] : n < at[t] => Held(n, t)
        /\ pc[t] = "true" => \A n \in Matching[t] : Held(n, t)
  BY <1>1 DEF IInv, Progressed
\* Steps that write nothing and read nothing.
<1>4. ASSUME nbox' = nbox, snap' = snap, success' = success,
             \A t \in Tasks : /\ pc'[t] = "save" => pc[t] = "save" /\ at'[t] = at[t]
                              /\ Working(t)' => pc[t] = "locking" \/ Working(t)
                              /\ at'[t] = at[t] \/ (at[t] \notin Matching[t] /\ at'[t] = at[t] + 1)
                              /\ pc'[t] = "true" =>
                                   \/ pc[t] = "true"
                                   \/ Working(t) /\ success[t] /\ at[t] > NNetBoxes
      PROVE  FreshSnapshot' /\ Progressed'
  <2>1. FreshSnapshot'
    BY <1>2, <1>4 DEF FreshSnapshot
  <2>2. \A n, t : Held(n, t)' <=> Held(n, t)
    BY <1>4 DEF Held
  <2>3. ASSUME NEW t \in Tasks, Working(t)', success'[t],
               NEW n \in Matching[t], n < at'[t]
        PROVE  Held(n, t)
    <3>1. n \in NetBoxes /\ at[t] \in 1..(NNetBoxes + 1)
      BY <1>0 DEF TypeOK
    <3>2. n < at[t]
      BY <1>4, <2>3, <3>1
    <3> QED
      BY <1>0, <1>3, <1>4, <2>3, <3>1, <3>2 DEF Position
  <2>4. ASSUME NEW t \in Tasks, pc'[t] = "true", NEW n \in Matching[t]
        PROVE  Held(n, t)
    <3>1. n \in NetBoxes /\ at[t] \in 1..(NNetBoxes + 1)
      BY <1>0 DEF TypeOK
    <3> QED
      BY <1>3, <1>4, <2>4, <3>1
  <2> QED
    BY <2>1, <2>2, <2>3, <2>4 DEF Progressed
<1>5. ASSUME NEW t \in Tasks,
             Acquire(t) \/ AcquireTimesOut(t) \/ Skip(t) \/ Slot(t)
               \/ SlotTimesOut(t) \/ Kill(t)
      PROVE  FreshSnapshot' /\ Progressed'
  BY <1>0, <1>4, <1>5 DEF Acquire, AcquireTimesOut, Skip, Slot, SlotTimesOut,
     Kill, Goto, taskVars, Working, TypeOK
<1>6. ASSUME NEW t \in Tasks, Return(t)
      PROVE  FreshSnapshot' /\ Progressed'
  <2>1. PICK label \in {"raised", "true", "false"} :
          Goto(t, label) /\ (label = "true" => success[t])
    BY <1>6 DEF Return
  <2> QED
    BY <1>0, <1>4, <1>6, <2>1 DEF Return, Goto, taskVars, Working, TypeOK
<1>7. CASE \/ \E d \in Devices : AutoRelease(d)
           \/ \E n \in NetBoxes : SlotExpires(n)
           \/ UNCHANGED vars
  BY <1>4, <1>7 DEF AutoRelease, SlotExpires, vars, taskVars, Working
\* The step that reads.
<1>8. ASSUME NEW t \in Tasks, Get(t)
      PROVE  FreshSnapshot' /\ Progressed'
  <2>1. FreshSnapshot'
    BY <1>0, <1>2, <1>8 DEF Get, Goto, FreshSnapshot, TypeOK
  <2>2. \A n, u : Held(n, u)' <=> Held(n, u)
    BY <1>8 DEF Get, Held
  <2>3. \A u \in Tasks : /\ Working(u)' => Working(u)
                         /\ pc'[u] = "true" => pc[u] = "true"
    BY <1>0, <1>8 DEF Get, Goto, Working, TypeOK
  <2> QED
    BY <1>3, <1>8, <2>1, <2>2, <2>3 DEF Get, Progressed
\* The steps that write.
<1>9. ASSUME NEW t \in Tasks, NEW ok \in BOOLEAN, pc[t] \in {"get", "save"},
             Updated(t, ok),
             \/ pc[t] = "save" /\ Saved(t)
             \/ UNCHANGED nbox /\ ok = FALSE
      PROVE  FreshSnapshot' /\ Progressed'
  <2>1. at[t] \in NetBoxes /\ Working(t)
    BY <1>0, <1>9 DEF Position, Working
  <2>2. \A n \in NetBoxes, u \in Tasks : Held(n, u) => Held(n, u)'
    <3>1. CASE pc[t] = "save" /\ Saved(t)
      BY <1>0, <1>2, <2>1, <3>1, SaveKeepsOthers
    <3>2. CASE UNCHANGED nbox
      BY <3>2 DEF Held
    <3> QED
      BY <1>9, <3>1, <3>2
  <2>3. /\ pc' = [pc EXCEPT ![t] = "each"]
        /\ at' = [at EXCEPT ![t] = @ + 1]
        /\ snap' = [snap EXCEPT ![t] = Old]
    BY <1>9 DEF Updated, Goto
  <2>4. success' = [success EXCEPT ![t] = @ /\ ok]
    BY <1>9 DEF Updated, Result
  <2>5. FreshSnapshot'
    <3> SUFFICES ASSUME NEW u \in Tasks, pc'[u] = "save"
                 PROVE  snap'[u] = nbox'[at'[u]][DeviceOf[u]]
      BY DEF FreshSnapshot
    <3>1. u # t /\ pc[u] = "save" /\ at'[u] = at[u] /\ snap'[u] = snap[u]
      BY <1>0, <2>3 DEF TypeOK
    <3>2. DeviceOf[u] # DeviceOf[t]
      BY <1>0, <1>1, <2>1, <3>1, OneWorker DEF Working
    <3>3. at[u] \in NetBoxes
      BY <1>0, <3>1 DEF Position
    <3>4. nbox'[at[u]][DeviceOf[u]] = nbox[at[u]][DeviceOf[u]]
      BY <1>0, <1>9, <2>1, <3>2, <3>3, OtherDevicesKept
    <3> QED
      BY <1>2, <3>1, <3>4
  <2>6. ASSUME NEW u \in Tasks, Working(u)', success'[u],
               NEW n \in Matching[u], n < at'[u]
        PROVE  Held(n, u)'
    <3>1. n \in NetBoxes
      OBVIOUS
    <3>2. CASE u # t
      BY <1>0, <1>3, <2>2, <2>3, <2>4, <2>6, <3>1, <3>2 DEF Working, TypeOK
    <3>3. CASE u = t /\ n < at[t]
      BY <1>0, <1>3, <2>1, <2>2, <2>4, <2>6, <3>1, <3>3 DEF TypeOK
    <3>4. CASE u = t /\ n = at[t]
      <4>1. ok = TRUE
        BY <1>0, <2>4, <2>6, <3>4 DEF TypeOK
      <4> QED
        BY <1>0, <1>9, <3>1, <3>4, <4>1, SaveHolds
    <3>5. (n < at[t] + 1 /\ at[t] \in Int /\ n \in Int) \/ u # t
      BY <1>0, <2>3, <2>6, <3>1 DEF TypeOK
    <3> QED
      BY <3>2, <3>3, <3>4, <3>5
  <2>7. ASSUME NEW u \in Tasks, pc'[u] = "true", NEW n \in Matching[u]
        PROVE  Held(n, u)'
    <3>1. n \in NetBoxes /\ pc[u] = "true"
      BY <1>0, <2>3, <2>7 DEF TypeOK
    <3> QED
      BY <1>3, <2>2, <3>1
  <2> QED
    BY <2>5, <2>6, <2>7 DEF Progressed
<1>10. ASSUME NEW t \in Tasks, Save(t) \/ UpdateFails(t)
       PROVE  FreshSnapshot' /\ Progressed'
  BY <1>9, <1>10 DEF Save, UpdateFails
\* The step that may write and raises.
<1>12. ASSUME NEW t \in Tasks, UpdateRaises(t)
       PROVE  FreshSnapshot' /\ Progressed'
  <2>1. at[t] \in NetBoxes /\ Working(t) /\ (Saved(t) \/ UNCHANGED nbox)
    BY <1>0, <1>12 DEF UpdateRaises, Position, Working
  <2>2. \A n \in NetBoxes, u \in Tasks : Held(n, u) => Held(n, u)'
    <3>1. CASE pc[t] = "save" /\ Saved(t)
      BY <1>0, <1>2, <2>1, <3>1, SaveKeepsOthers
    <3>2. CASE UNCHANGED nbox
      BY <3>2 DEF Held
    <3> QED
      BY <1>12, <3>1, <3>2 DEF UpdateRaises
  <2>3. /\ pc' = [pc EXCEPT ![t] = "raised"]
        /\ UNCHANGED <<at, snap, success>>
    BY <1>12 DEF UpdateRaises, Goto, taskVars
  <2>4. FreshSnapshot'
    <3> SUFFICES ASSUME NEW u \in Tasks, pc'[u] = "save"
                 PROVE  snap'[u] = nbox'[at'[u]][DeviceOf[u]]
      BY DEF FreshSnapshot
    <3>1. u # t /\ pc[u] = "save"
      BY <1>0, <2>3 DEF TypeOK
    <3>2. DeviceOf[u] # DeviceOf[t]
      BY <1>0, <1>1, <2>1, <3>1, OneWorker DEF Working
    <3>3. at[u] \in NetBoxes
      BY <1>0, <3>1 DEF Position
    <3>4. nbox'[at[u]][DeviceOf[u]] = nbox[at[u]][DeviceOf[u]]
      BY <1>0, <2>1, <3>2, <3>3, OtherDevicesKept
    <3> QED
      BY <1>2, <2>3, <3>1, <3>4
  <2>5. \A u \in Tasks : /\ Working(u)' => Working(u)
                         /\ pc'[u] = "true" => pc[u] = "true"
    BY <1>0, <2>3 DEF Working, TypeOK
  <2>6. \A u \in Tasks : Matching[u] \subseteq NetBoxes
    OBVIOUS
  <2> QED
    BY <1>3, <2>2, <2>3, <2>4, <2>5, <2>6 DEF Progressed
\* The endpoint's steps are not among those considered.
<1>11. ~ZtpSave /\ \A d \in Devices : ~ZtpGet(d)
  BY DEF ZtpSave, ZtpGet
<1> QED
  BY <1>5, <1>6, <1>7, <1>8, <1>10, <1>11, <1>12 DEF Next, Run

\* The invariant is inductive.
LEMMA StepIInv == IInv /\ [Next]_vars => IInv'
<1> SUFFICES ASSUME IInv, [Next]_vars PROVE IInv'
  OBVIOUS
<1>1. TypeOK' /\ ZtpOK' /\ Position'
  BY StepTypes DEF IInv
<1>2. LocksOK'
  BY StepLocks DEF IInv
<1>3. FreshSnapshot' /\ Progressed'
  <2>1. CASE lapsed' = {} /\ ztp'.pc = "never"
    BY <2>1, StepData
  <2>2. CASE ~(lapsed' = {} /\ ztp'.pc = "never")
    BY <2>2 DEF FreshSnapshot, Progressed
  <2> QED
    BY <2>1, <2>2
<1> QED
  BY <1>1, <1>2, <1>3 DEF IInv

-----------------------------------------------------------------------------
\* The inductive invariant holds in every reachable state.
THEOREM Invariance == Spec => []IInv
<1> QED
  BY InitIInv, StepIInv, PTL DEF Spec

\* The variables always have their types.
THEOREM TypeCorrect == Spec => []TypeOK
<1>1. IInv => TypeOK
  BY DEF IInv
<1> QED
  BY <1>1, Invariance, PTL

\* The snapshot of a task that saves is what NetBox holds.
THEOREM Fresh == Spec => []FreshSnapshot
<1>1. IInv => FreshSnapshot
  BY DEF IInv
<1> QED
  BY <1>1, Invariance, PTL

\* The slots of the NetBox semaphore are held by updates only.
THEOREM Slots == Spec => []SlotsAreInUse
<1>1. IInv => SlotsAreInUse
  BY DEF IInv, LocksOK
<1> QED
  BY <1>1, Invariance, PTL

\* What a task that returned True has set stays set.
THEOREM Durable == Spec => []SuccessIsDurable
<1>1. IInv => SuccessIsDurable
  BY DEF IInv, Progressed, Held, SuccessIsDurable
<1> QED
  BY <1>1, Invariance, PTL

\* No task that ended on its own leaves its device locked.
THEOREM Unlocked == Spec => []EndedTasksOwnNoLock
<1>1. IInv => EndedTasksOwnNoLock
  BY DEF IInv, LocksOK
<1> QED
  BY <1>1, Invariance, PTL

-----------------------------------------------------------------------------
(* The semaphore of a NetBox.                                                *)

\* What CountingSemaphore promises of the semaphore of NetBox n ...
Semaphore(n) == INSTANCE CountingSemaphore WITH Clients <- Tasks, MaxSize <- MaxConns, active <- inside[n]

\* Where a step changes who is inside, it is one task that enters or leaves one
\* NetBox's semaphore.
LEMMA InsideStep ==
  ASSUME TypeOK, Position, SlotsAreInUse, [Next]_vars, NEW n \in NetBoxes, inside'[n] # inside[n]
  PROVE  \/ \E t \in Tasks : /\ t \notin inside[n] /\ Cardinality(inside[n]) < MaxConns
                             /\ inside'[n] = inside[n] \cup {t}
         \/ \E S \in SUBSET inside[n] : S # {} /\ inside'[n] = inside[n] \ S
<1> USE SyncAssumption DEF NetBoxes
<1>1. ASSUME NEW t \in Tasks, Slot(t)
      PROVE  \E u \in Tasks : /\ u \notin inside[n] /\ Cardinality(inside[n]) < MaxConns
                              /\ inside'[n] = inside[n] \cup {u}
  <2>1. inside' = [inside EXCEPT ![at[t]] = inside[at[t]] \cup {t}] /\ Cardinality(inside[at[t]]) < MaxConns
        /\ pc[t] = "each"
    BY <1>1 DEF Slot
  <2>2. n = at[t] /\ inside'[n] = inside[n] \cup {t}
    BY <2>1 DEF TypeOK
  <2>3. t \notin inside[n]
    BY <2>1 DEF SlotsAreInUse
  <2> QED
    BY <2>1, <2>2, <2>3
<1>2. ASSUME NEW t \in Tasks, Save(t) \/ UpdateFails(t) \/ UpdateRaises(t)
      PROVE  \E S \in SUBSET inside[n] : S # {} /\ inside'[n] = inside[n] \ S
  <2>1. inside' = [inside EXCEPT ![at[t]] = inside[at[t]] \ {t}]
    BY <1>2 DEF Save, UpdateFails, UpdateRaises, Updated, Leave
  <2>2. inside'[n] = inside[n] \ {t} /\ t \in inside[n]
    BY <2>1 DEF TypeOK
  <2> QED
    BY <2>2
<1>3. ASSUME NEW m \in NetBoxes, SlotExpires(m)
      PROVE  \E S \in SUBSET inside[n] : S # {} /\ inside'[n] = inside[n] \ S
  <2>1. PICK t \in inside[m] : inside' = [inside EXCEPT ![m] = inside[m] \ {t}]
    BY <1>3 DEF SlotExpires
  <2>2. inside'[n] = inside[n] \ {t} /\ t \in inside[n]
    BY <2>1 DEF TypeOK
  <2> QED
    BY <2>2
<1>4. ASSUME NEW t \in Tasks,
             Acquire(t) \/ AcquireTimesOut(t) \/ Skip(t) \/ SlotTimesOut(t) \/ Get(t) \/ Return(t) \/ Kill(t)
      PROVE  FALSE
  BY <1>4 DEF Acquire, AcquireTimesOut, Skip, SlotTimesOut, Get, Return, Kill
<1>5. ASSUME NEW d \in Devices, AutoRelease(d) \/ ZtpGet(d) PROVE FALSE
  BY <1>5 DEF AutoRelease, ZtpGet
<1>6. CASE ZtpSave \/ UNCHANGED vars
  BY <1>6 DEF ZtpSave, vars
<1> QED
  BY <1>1, <1>2, <1>3, <1>4, <1>5, <1>6 DEF Next, Run

\* Of a NetBox's semaphore the tasks see no more than CountingSemaphore has - as
\* many at a time as there may be, whoever dies inside and whoever is reclaimed -,
\* which RedisSemaphore implements.
THEOREM Counted == \A n \in NetBoxes : Spec => Semaphore(n)!Spec
<1> SUFFICES ASSUME NEW n \in NetBoxes PROVE Spec => Semaphore(n)!Spec
  OBVIOUS
<1>1. Init => Semaphore(n)!Init
  BY DEF Init, Semaphore!Init
<1>2. IInv /\ [Next]_vars => [Semaphore(n)!Next]_(inside[n])
  <2> SUFFICES ASSUME IInv, [Next]_vars, inside'[n] # inside[n]
               PROVE  Semaphore(n)!Next
    OBVIOUS
  <2>1. CASE \E t \in Tasks : /\ t \notin inside[n] /\ Cardinality(inside[n]) < MaxConns
                             /\ inside'[n] = inside[n] \cup {t}
    <3>1. \E t \in Tasks : Semaphore(n)!Enter(t)
      BY <2>1 DEF Semaphore!Enter, Semaphore!Cardinality, Cardinality
    <3> QED
      BY <3>1 DEF Semaphore!Next
  <2>2. CASE \E S \in SUBSET inside[n] : S # {} /\ inside'[n] = inside[n] \ S
    <3>1. \E S \in SUBSET inside[n] : Semaphore(n)!Leave(S)
      BY <2>2 DEF Semaphore!Leave
    <3> QED
      BY <3>1 DEF Semaphore!Next
  <2> QED
    BY <2>1, <2>2, InsideStep DEF IInv, LocksOK
<1> QED
  BY <1>1, <1>2, Invariance, PTL DEF Spec, Semaphore!Spec

-----------------------------------------------------------------------------
(* Races of saves.                                                           *)

\* A save by task t changes no field but its own.
LEMMA SaveChangesOne ==
  ASSUME TypeOK, Position, FreshSnapshot, lapsed = {}, ztp.pc = "never",
         NEW t \in Tasks, pc[t] = "save", Saved(t),
         NEW n \in NetBoxes, NEW d \in Devices, NEW f \in Fields, nbox'[n][d][f] # nbox[n][d][f]
  PROVE  n = at[t] /\ d = DeviceOf[t] /\ f = FieldOf[t]
<1> USE SyncAssumption
<1>1. at[t] \in NetBoxes /\ DeviceOf[t] \in Devices /\ FieldOf[t] \in Fields
  BY DEF Position
<1>2. snap[t] = nbox[at[t]][DeviceOf[t]]
  BY DEF FreshSnapshot
<1>3. nbox' = [nbox EXCEPT ![at[t]] =
                [nbox[at[t]] EXCEPT ![DeviceOf[t]] = [snap[t] EXCEPT ![FieldOf[t]] = t]]]
  BY DEF Saved
<1>4. n = at[t]
  BY <1>3 DEF TypeOK
<1>5. d = DeviceOf[t]
  BY <1>1, <1>3, <1>4 DEF TypeOK
<1>6. nbox'[n][d] = [nbox[n][d] EXCEPT ![FieldOf[t]] = t]
  BY <1>1, <1>2, <1>3, <1>4, <1>5 DEF TypeOK
<1>7. nbox[n][d] \in [Fields -> Values]
  BY DEF TypeOK, Values
<1> QED
  BY <1>4, <1>5, <1>6, <1>7

\* While no Redlock lapses and the ZTP endpoint stays away, a field changes only
\* where a task for this field, this device and this NetBox saves.
OwnFieldsOnly ==
  [][lapsed = {} /\ ztp'.pc = "never" =>
       \A n \in NetBoxes, d \in Devices, f \in Fields :
         nbox'[n][d][f] # nbox[n][d][f] =>
           \E t \in Tasks : /\ pc[t] = "save" /\ pc'[t] # "save"
                            /\ FieldOf[t] = f /\ DeviceOf[t] = d /\ n \in Matching[t]]_vars

\* The tasks do not race, see StateChangesDoNotRace: without the ZTP endpoint that
\* claim of the changelog holds, for any tasks, devices, fields and NetBoxes.
THEOREM OwnFields == Spec => OwnFieldsOnly
<1>1. ASSUME IInv, [Next]_vars, lapsed = {}, ztp'.pc = "never",
             NEW n \in NetBoxes, NEW d \in Devices, NEW f \in Fields, nbox'[n][d][f] # nbox[n][d][f]
      PROVE  \E t \in Tasks : /\ pc[t] = "save" /\ pc'[t] # "save"
                              /\ FieldOf[t] = f /\ DeviceOf[t] = d /\ n \in Matching[t]
  <2>1. PICK t \in Tasks : Save(t) \/ UpdateFails(t) \/ UpdateRaises(t)
    BY <1>1 DEF Next, Run, Acquire, AcquireTimesOut, Skip, Slot, SlotTimesOut, Get, Return, Kill,
                AutoRelease, SlotExpires, ZtpGet, ZtpSave, vars
  <2>2. /\ pc[t] = "save" /\ Saved(t) /\ ztp' = ztp
        /\ Goto(t, "each") \/ Goto(t, "raised")
    BY <1>1, <2>1 DEF Save, UpdateFails, UpdateRaises, Updated
  <2>3. n = at[t] /\ d = DeviceOf[t] /\ f = FieldOf[t]
    BY <1>1, <2>2, SaveChangesOne DEF IInv
  <2>4. pc'[t] # "save" /\ at[t] \in Matching[t]
    BY <1>1, <2>2 DEF IInv, TypeOK, Position, Goto
  <2> QED
    BY <2>2, <2>3, <2>4
<1>2. IInv /\ [Next]_vars =>
        [lapsed = {} /\ ztp'.pc = "never" =>
           \A n \in NetBoxes, d \in Devices, f \in Fields :
             nbox'[n][d][f] # nbox[n][d][f] =>
               \E t \in Tasks : /\ pc[t] = "save" /\ pc'[t] # "save"
                                /\ FieldOf[t] = f /\ DeviceOf[t] = d /\ n \in Matching[t]]_vars
  BY <1>1
<1> QED
  BY <1>2, Invariance, PTL DEF Spec, OwnFieldsOnly
=============================================================================
