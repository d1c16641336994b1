----------------------------- MODULE NetBoxSync -----------------------------
(***************************************************************************)
(* The Celery tasks set_maintenance, set_provision_state and               *)
(* set_power_state: each takes the Redlock of its device and then, for the *)
(* primary NetBox and every secondary that matches the filter, reads the   *)
(* device and saves it with one custom field changed                       *)
(* (_update_netbox_device_field), inside the semaphore of that NetBox.     *)
(* save() sends all the custom fields of the device, so a save made from   *)
(* an old read puts the other fields back.                                 *)
(*                                                                         *)
(* The API endpoint /v1/sonic/{identifier}/ztp/complete reads and saves    *)
(* the same custom fields of the primary NetBox without any lock.          *)
(***************************************************************************)
EXTENDS Integers, FiniteSets

CONSTANTS
  Tasks,      \* the set_* tasks
  Devices,
  NNetBoxes,  \* NetBox 1 is the primary one, the others are secondaries
  Fields,     \* the custom fields the tasks write
  DeviceOf,   \* the device_name of each task
  FieldOf,    \* the field each task writes; it writes its own name as value
  Matching,   \* the NetBoxes that match each task's netbox_filter
  Provision,  \* the field the ZTP endpoint writes
  MaxConns,   \* NETBOX_MAX_CONNECTIONS
  Nobody      \* not a task

NetBoxes == 1..NNetBoxes

ASSUME SyncAssumption ==
  /\ NNetBoxes \in Nat \ {0}
  /\ DeviceOf \in [Tasks -> Devices]
  /\ FieldOf \in [Tasks -> Fields]
  /\ Matching \in [Tasks -> SUBSET NetBoxes]
  /\ Provision \in Fields
  /\ Nobody \notin Tasks

VARIABLES
  nbox,      \* nbox[n][d][f]: field f of device d in NetBox n
  lock,      \* the owner of each device's Redlock
  lapsed,    \* tasks whose Redlock was released automatically
  inside,    \* the holders of each NetBox's semaphore
  pc,        \* where each task is
  at,        \* the NetBox each task works on
  snap,      \* the custom fields each task has read
  success,   \* each task's `success`
  ztp        \* the ZTP endpoint: its device, and the fields it has read

taskVars == <<at, snap, success>>
vars == <<nbox, lock, lapsed, inside, pc, at, snap, success, ztp>>

-----------------------------------------------------------------------------
Old == [f \in Fields |-> "old"]

Working(t) == pc[t] \in {"each", "get", "save"}

Goto(t, label) == pc' = [pc EXCEPT ![t] = label]

Init ==
  /\ nbox = [n \in NetBoxes |-> [d \in Devices |-> Old]]
  /\ lock = [d \in Devices |-> Nobody]
  /\ lapsed = {}
  /\ inside = [n \in NetBoxes |-> {}]
  /\ pc = [t \in Tasks |-> "locking"]
  /\ at = [t \in Tasks |-> 1]
  /\ snap = [t \in Tasks |-> Old]
  /\ success = [t \in Tasks |-> TRUE]
  /\ ztp = [pc |-> "never"]

-----------------------------------------------------------------------------
\* Mutant: a Redlock per device and field, as before the lock keys were unified.
LockFreePerField(t) ==
  LET owner == lock[DeviceOf[t]]
  IN IF owner = Nobody THEN TRUE ELSE FieldOf[owner] # FieldOf[t]

LockFree(t) == lock[DeviceOf[t]] = Nobody

\* lock.acquire(timeout=120) succeeds.
Acquire(t) ==
  /\ pc[t] = "locking"
  /\ LockFree(t)
  /\ lock' = [lock EXCEPT ![DeviceOf[t]] = t]
  /\ Goto(t, "each")
  /\ UNCHANGED <<nbox, lapsed, inside, taskVars, ztp>>

\* It times out: the task returns False.
AcquireTimesOut(t) ==
  /\ pc[t] = "locking"
  /\ ~LockFree(t)
  /\ Goto(t, "false")
  /\ UNCHANGED <<nbox, lock, lapsed, inside, taskVars, ztp>>

\* The primary, then each secondary: one that does not match is skipped.
Skip(t) ==
  /\ pc[t] = "each"
  /\ at[t] \in NetBoxes \ Matching[t]
  /\ at' = [at EXCEPT ![t] = @ + 1]
  /\ UNCHANGED <<nbox, lock, lapsed, inside, pc, snap, success, ztp>>

\* A matching NetBox is updated: `with semaphore:` gets a slot.
Slot(t) ==
  /\ pc[t] = "each"
  /\ at[t] \in Matching[t]
  /\ Cardinality(inside[at[t]]) < MaxConns
  /\ inside' = [inside EXCEPT ![at[t]] = @ \cup {t}]
  /\ Goto(t, "get")
  /\ UNCHANGED <<nbox, lock, lapsed, taskVars, ztp>>

\* Mutant: the lock is not released in a `finally`.
UnlockNot(t) == UNCHANGED lock

\* Redlock.release frees the lock for its owner only, and raises for others.
Unlock(t) == lock' = [lock EXCEPT ![DeviceOf[t]] = IF @ = t THEN Nobody ELSE @]

\* It gets none in time: TimeoutError leaves the task through its `finally`.
SlotTimesOut(t) ==
  /\ pc[t] = "each"
  /\ at[t] \in Matching[t]
  /\ Cardinality(inside[at[t]]) >= MaxConns
  /\ Unlock(t)
  /\ Goto(t, "raised")
  /\ UNCHANGED <<nbox, lapsed, inside, taskVars, ztp>>

Get(t) ==
  /\ pc[t] = "get"
  /\ snap' = [snap EXCEPT ![t] = nbox[at[t]][DeviceOf[t]]]
  /\ Goto(t, "save")
  /\ UNCHANGED <<nbox, lock, lapsed, inside, at, success, ztp>>

\* Mutant: the result of the last NetBox only.
ResultLast(t, ok) == success' = [success EXCEPT ![t] = ok]

\* `if not _update_netbox_device_field(...): success = False`
Result(t, ok) == success' = [success EXCEPT ![t] = @ /\ ok]

\* Mutant: the slot is left to expire.
LeaveNot(t) == UNCHANGED inside

\* RedisSemaphore.__exit__.
Leave(t) == inside' = [inside EXCEPT ![at[t]] = @ \ {t}]

\* _update_netbox_device_field returns: the semaphore is released, what it had
\* read is gone, the loop goes on.
Updated(t, ok) ==
  /\ Result(t, ok)
  /\ Leave(t)
  /\ at' = [at EXCEPT ![t] = @ + 1]
  /\ snap' = [snap EXCEPT ![t] = Old]
  /\ Goto(t, "each")
  /\ UNCHANGED <<lock, lapsed, ztp>>

\* What save() sends: everything that was read, with one field changed.
Saved(t) ==
  nbox' = [nbox EXCEPT ![at[t]][DeviceOf[t]] = [snap[t] EXCEPT ![FieldOf[t]] = t]]

Save(t) ==
  /\ pc[t] = "save"
  /\ Saved(t)
  /\ Updated(t, TRUE)

\* The device is unknown, or a request gets no answer (RequestException): False.
\* A save whose answer is lost has changed NetBox all the same.
UpdateFails(t) ==
  \/ /\ pc[t] \in {"get", "save"}
     /\ Updated(t, FALSE)
     /\ UNCHANGED nbox
  \/ /\ pc[t] = "save"
     /\ Saved(t)
     /\ Updated(t, FALSE)

\* NetBox answers with an error (pynetbox.RequestError), with no JSON or with
\* more than one device (ValueError): nothing catches these, so they leave the
\* semaphore by its __exit__ and the task by its `finally`; the NetBoxes after
\* this one are not tried.  NetBox may have saved before it failed.
UpdateRaises(t) ==
  /\ \/ pc[t] \in {"get", "save"} /\ UNCHANGED nbox
     \/ pc[t] = "save" /\ Saved(t)
  /\ Leave(t)
  /\ Unlock(t)
  /\ Goto(t, "raised")
  /\ UNCHANGED <<lapsed, taskVars, ztp>>

\* The end of the loop and the `finally`; a lapsed lock makes release raise.
Return(t) ==
  /\ pc[t] = "each"
  /\ at[t] > NNetBoxes
  /\ Unlock(t)
  /\ Goto(t, CASE lock[DeviceOf[t]] # t -> "raised"
               [] success[t] -> "true"
               [] OTHER -> "false")
  /\ UNCHANGED <<nbox, lapsed, inside, taskVars, ztp>>

\* The worker dies: neither the Redlock nor the slot is released.
Kill(t) ==
  /\ Working(t)
  /\ Goto(t, "killed")
  /\ UNCHANGED <<nbox, lock, lapsed, inside, taskVars, ztp>>

\* auto_release_time has passed.
AutoRelease(d) ==
  /\ lock[d] # Nobody
  /\ lapsed' = lapsed \cup {lock[d]}
  /\ lock' = [lock EXCEPT ![d] = Nobody]
  /\ UNCHANGED <<nbox, inside, pc, taskVars, ztp>>

\* HOLDER_EXPIRY reclaims the slot of a dead holder.
SlotExpires(n) ==
  \E t \in inside[n] :
    /\ pc[t] = "killed"
    /\ inside' = [inside EXCEPT ![n] = @ \ {t}]
    /\ UNCHANGED <<nbox, lock, lapsed, pc, taskVars, ztp>>

\* sonic_ztp_complete: find_device_by_identifier, then save.
ZtpGet(d) ==
  /\ ztp.pc = "never"
  /\ ztp' = [pc |-> "read", device |-> d, snap |-> nbox[1][d]]
  /\ UNCHANGED <<nbox, lock, lapsed, inside, pc, taskVars>>

ZtpSave ==
  /\ ztp.pc = "read"
  /\ nbox' = [nbox EXCEPT ![1][ztp.device] = [ztp.snap EXCEPT ![Provision] = "active"]]
  /\ ztp' = [pc |-> "done"]
  /\ UNCHANGED <<lock, lapsed, inside, pc, taskVars>>

Run(t) ==
  \/ Acquire(t) \/ AcquireTimesOut(t) \/ Skip(t) \/ Slot(t) \/ SlotTimesOut(t)
  \/ Get(t) \/ Save(t) \/ UpdateFails(t) \/ UpdateRaises(t) \/ Return(t)

Next ==
  \/ \E t \in Tasks : Run(t) \/ Kill(t)
  \/ \E d \in Devices : AutoRelease(d) \/ ZtpGet(d)
  \/ \E n \in NetBoxes : SlotExpires(n)
  \/ ZtpSave

Spec == Init /\ [][Next]_vars

-----------------------------------------------------------------------------
\* Every variable has its type.
TypeOK ==
  /\ nbox \in [NetBoxes -> [Devices -> [Fields -> Tasks \cup {"old", "active"}]]]
  /\ lock \in [Devices -> Tasks \cup {Nobody}]
  /\ lapsed \in SUBSET Tasks
  /\ inside \in [NetBoxes -> SUBSET Tasks]
  /\ pc \in [Tasks -> {"locking", "each", "get", "save",
                       "true", "false", "raised", "killed"}]
  /\ at \in [Tasks -> 1..(NNetBoxes + 1)]
  /\ snap \in [Tasks -> [Fields -> Tasks \cup {"old", "active"}]]
  /\ success \in [Tasks -> BOOLEAN]

\* A task that still owns its Redlock saves from a fresh read, so it never
\* puts back what another task wrote - as long as the ZTP endpoint, which
\* takes no lock, and tasks that outlived theirs stay away.
FreshSnapshot ==
  lapsed = {} /\ ztp.pc = "never" =>
    \A t \in Tasks : pc[t] = "save" => snap[t] = nbox[at[t]][DeviceOf[t]]

\* The NetBox semaphore is never left behind: only tasks in the middle of an
\* update hold it, and tasks killed there until the expiry.
SlotsAreInUse ==
  \A n \in NetBoxes : \A t \in inside[n] :
    at[t] = n /\ pc[t] \in {"get", "save", "killed"}

\* What a task that returned True has set stays set in every NetBox it names,
\* unless another task for that field came: no task for another field puts the
\* old value back, and no failed save is forgotten.
SuccessIsDurable ==
  lapsed = {} /\ ztp.pc = "never" =>
    \A t \in Tasks : pc[t] = "true" =>
      \A n \in Matching[t] :
        \E u \in Tasks :
          /\ DeviceOf[u] = DeviceOf[t]
          /\ FieldOf[u] = FieldOf[t]
          /\ nbox[n][DeviceOf[t]][FieldOf[t]] = u

\* A device's Redlock is not left behind by a task that ended on its own: by
\* returning, by the time-out of a semaphore, or by an exception of an update.
EndedTasksOwnNoLock ==
  \A d \in Devices : lock[d] # Nobody => Working(lock[d]) \/ pc[lock[d]] = "killed"

\* Changelog, "Race conditions in NetBox state changes with unified lock keys
\* per device" (fixed): while locks do not expire, the only field of a device
\* that a save changes is the field it is meant to change.
StateChangesDoNotRace ==
  [][lapsed = {} =>
       \A n \in NetBoxes, d \in Devices, f \in Fields :
         nbox'[n][d][f] # nbox[n][d][f] =>
           \/ \E t \in Tasks : pc[t] = "save" /\ pc'[t] # "save" /\ FieldOf[t] = f
           \/ ztp.pc = "read" /\ ztp'.pc = "done" /\ f = Provision]_vars
=============================================================================
