----------------------------- MODULE SonicSync -----------------------------
(***************************************************************************)
(* The synchronisation of SONiC configurations                             *)
(* (src/osism/tasks/conductor/sonic/sync.py with cache.py, exporter.py,    *)
(* bgp.py and the grouping of connections.py).                             *)
(*                                                                         *)
(* A run of sync_sonic reads the devices from NetBox, groups the spines,   *)
(* and for one device after the other reconciles the firmware link,        *)
(* generates the configuration, saves it in the local context of the       *)
(* device and exports it to a file.  It takes no lock, and a worker has    *)
(* several processes: runs go on beside each other, each with a cache of   *)
(* its own, but with the same directories and with one temporary name for  *)
(* each file.  Operators edit NetBox meanwhile, a co-owner of the local    *)
(* context writes a key of its own there, requests and file operations     *)
(* fail, and the worker may be killed between any two steps.               *)
(*                                                                         *)
(* A configuration is what it is made from: the version of the data of the *)
(* device in NetBox, 0 when its interfaces could not be read, and the AS   *)
(* number; SonicConfig has what is in it.                                  *)
(***************************************************************************)
EXTENDS SpineGroups

CONSTANTS Runs,          \* the runs there may be; each starts once at most
          Requests,      \* run -> what it may be asked for: names, some of devices, or All
          Supported,     \* the devices with a supported hardware SKU
          Wirings,       \* sets of cables between devices, each a set of two
          Inventories,   \* what NetBox may say of the devices in the beginning
          MaxEdits, MaxFaults   \* bounds of the model

VARIABLES identifier,  \* SONIC_EXPORT_IDENTIFIER and SONIC_FIRMWARE_IDENTIFIER
          netbox,      \* device -> what NetBox says of it
          context,     \* device -> its local context
          store,       \* name -> what is there in the export directory
          firmware,    \* name -> what is there in the firmware directory
          run,         \* run -> how far it has come
          edits, faults

vars == <<wired, identifier, netbox, context, store, firmware, run, edits, faults>>

SonicDevices == {d \in Devices : Role[d] \in DEFAULT_SONIC_ROLES}
NoConfig     == [data |-> -1, as |-> 0]
Nobody       == "nobody"

\* What is in NetBox at first; the versions of data count from 1.
SyncAssumption ==
  /\ MaxEdits \in Nat
  /\ Inventories \subseteq [Devices -> [data : Nat \ {0}, serial : {0, 1}, version : Nat]]

-----------------------------------------------------------------------------
(* The directories.  A name is <<kind, device, number, temporary>>; it has a *)
(* file with a whole configuration, a file that is not whole, with the runs  *)
(* that write it, a link to another name, or nothing.                        *)

Host(d)      == <<"host", d, 0, FALSE>>
Serial(d, k) == <<"serial", d, k, FALSE>>
Tmp(n)       == [n EXCEPT ![4] = TRUE]
FileNames    == {Host(d) : d \in Devices} \cup {Serial(d, k) : d \in Devices, k \in 1..(MaxEdits + 1)}
Names        == FileNames \cup {Tmp(n) : n \in FileNames}

Absent      == [kind |-> "absent"]
File(c)     == [kind |-> "file", config |-> c]
Partial(by) == [kind |-> "partial", by |-> by]
LinkTo(n)   == [kind |-> "link", to |-> n]

\* The serial number names a device if that is configured and it has one.
Ident(d, serial) ==
  IF identifier = "serial-number" /\ serial # 0 THEN Serial(d, serial) ELSE Host(d)

\* What a reader of a name finds.
Served(n) == IF store[n].kind = "link" THEN store[store[n].to] ELSE store[n]

\* In the firmware directory: nothing, a link to the image of a version, or
\* something of the operator's.
Nothing    == [kind |-> "absent"]
Image(v)   == [kind |-> "image", version |-> v]
Operators  == [kind |-> "operator"]

-----------------------------------------------------------------------------
(* A run.  pc is where it stands, read what it was told of the devices when  *)
(* it asked for them, cache the version of the interfaces it read, 0 when it *)
(* could not and -1 before it tried.  Three fields are its history: quiet    *)
(* has the devices for which nobody else has written since it asked,         *)
(* swallowed those whose result suffers from a failure that it keeps to      *)
(* itself, and beside the names that another run wrote when it did.          *)

Idle == [pc |-> "idle", target |-> All, todo |-> {}, device |-> Nobody, config |-> NoConfig,
         read |-> [d \in Devices |-> [context |-> [sonic |-> NoConfig, sibling |-> 0],
                                      serial |-> 0, version |-> 0]],
         cache |-> [d \in Devices |-> -1], rc |-> 0,
         quiet |-> {}, swallowed |-> {}, beside |-> {}]

Init ==
  /\ wired \in Wirings
  /\ identifier \in {"serial-number", "hostname"}
  /\ netbox \in Inventories
  /\ context = [d \in Devices |-> [sonic |-> NoConfig, sibling |-> 0]]
  /\ store = [n \in Names |-> Absent]
  /\ firmware = [n \in FileNames |-> Nothing]
  /\ run = [r \in Runs |-> Idle]
  /\ edits = 0 /\ faults = 0

Fault == faults < MaxFaults /\ faults' = faults + 1

\* Run r becomes new; when it writes, the others are not alone with its device.
Becomes(r, new) ==
  run' = [q \in Runs |->
            IF q = r THEN new
            ELSE IF UNCHANGED <<context, store, firmware>> THEN run[q]
            ELSE [run[q] EXCEPT !.quiet = @ \ {new.device}]]

Goto(r, pc)              == Becomes(r, [run[r] EXCEPT !.pc = pc])
Fail(r, pc)              == Becomes(r, [run[r] EXCEPT !.pc = pc, !.rc = 1])
Swallow(r, pc, devices)  == Becomes(r, [run[r] EXCEPT !.pc = pc, !.swallowed = @ \cup devices])

\* Clears the interface cache and begins.
Start(r, target) ==
  /\ run[r].pc = "idle"
  /\ UNCHANGED <<wired, identifier, netbox, context, store, firmware, edits, faults>>
  /\ Becomes(r, [Idle EXCEPT !.pc = "query", !.target = target])

\* What the run is told of each device.
Answer == [d \in Devices |-> [context |-> context[d], serial |-> netbox[d].serial,
                              version |-> netbox[d].version]]

\* An error for one device is in the rc; one for the list leaves by way of
\* an exception, past the assignment of the rc.
Query(r) ==
  LET target == run[r].target
  IN  /\ run[r].pc = "query"
      /\ UNCHANGED <<wired, identifier, netbox, context, store, firmware, edits>>
      /\ \/ /\ target = All \/ target \in SonicDevices
            /\ Becomes(r, [run[r] EXCEPT !.pc = "group", !.read = Answer, !.quiet = Devices,
                                         !.todo = IF target = All THEN SonicDevices ELSE {target}])
            /\ UNCHANGED faults
         \/ target # All /\ target \notin SonicDevices /\ Fail(r, "finish") /\ UNCHANGED faults
         \/ target # All /\ Fault /\ Fail(r, "finish")
         \/ target = All /\ Fault /\ Swallow(r, "finish", Devices)

\* The devices whose configuration depends on the interfaces of one.
Concerned(d) == IF d \in Spines THEN Spines ELSE {d}

\* Reads the interfaces of the spines; those that cannot be read count as
\* none and stay in the cache like that.
Group(r) ==
  LET considered == Considered(run[r].target)
  IN  /\ run[r].pc = "group"
      /\ UNCHANGED <<wired, identifier, netbox, context, store, firmware, edits>>
      /\ \/ \E dark \in SUBSET considered :
              /\ IF dark = {} THEN UNCHANGED faults ELSE Fault
              /\ Becomes(r, [run[r] EXCEPT
                               !.pc = "next",
                               !.cache = [d \in Devices |-> IF d \in dark THEN 0
                                                            ELSE IF d \in considered
                                                            THEN netbox[d].data ELSE -1],
                               !.swallowed = @ \cup UNION {Concerned(d) : d \in dark}])
         \/ run[r].target \in Spines /\ Fault /\ Swallow(r, "finish", Devices)

\* The firmware link of the next device comes first, before it is decided
\* whether the device gets a configuration.
Gate(d) == IF d \in Supported THEN "generate" ELSE "next"

export_firmware_link(r, d) ==
  LET n == Ident(d, run[r].read[d].serial)
      v == run[r].read[d].version
  IN  firmware' = CASE v # 0 -> [firmware EXCEPT ![n] = Image(v)]
                    [] v = 0 /\ firmware[n].kind = "image" -> [firmware EXCEPT ![n] = Nothing]
                    [] OTHER -> firmware

\* Between its look at the old link, the removal and the new link, another run
\* that comes to the same device may do the same: that fails like a fault.
NextDevice(r, d) ==
  LET Turns(rc) == Becomes(r, [run[r] EXCEPT !.pc = Gate(d), !.todo = @ \ {d}, !.device = d, !.rc = rc])
  IN  /\ run[r].pc = "next" /\ d \in run[r].todo
      /\ UNCHANGED <<wired, identifier, netbox, context, store, edits>>
      /\ \/ export_firmware_link(r, d) /\ Turns(run[r].rc) /\ UNCHANGED faults
         \/ /\ Fault \/ (UNCHANGED faults /\ \E q \in Runs \ {r} : run[q].pc = "next" /\ d \in run[q].todo)
            /\ \/ UNCHANGED firmware
               \/ /\ run[r].read[d].version # 0      \* the old one removed, the new one not made
                  /\ firmware' = [firmware EXCEPT ![Ident(d, run[r].read[d].serial)] = Nothing]
            /\ Turns(1)

NoMoreDevices(r) ==
  /\ run[r].pc = "next" /\ run[r].todo = {}
  /\ UNCHANGED <<wired, identifier, netbox, context, store, firmware, edits, faults>>
  /\ Goto(r, "finish")

\* The spines whose interfaces a run could not read when it made the groups.
Dark(x) == {d \in Spines : x.cache[d] = 0}

\* Takes the interfaces from the cache, or reads them now.
Generate(r) ==
  LET d == run[r].device
      Made(data) == [data |-> data, as |-> AsNumber(d, run[r].target, Dark(run[r]))]
      cached     == run[r].cache[d]
      data       == IF cached = -1 THEN netbox[d].data ELSE cached
  IN  /\ run[r].pc = "generate"
      /\ UNCHANGED <<wired, identifier, netbox, context, store, firmware, edits>>
      /\ \/ /\ Becomes(r, [run[r] EXCEPT !.pc = "save", !.cache[d] = data, !.config = Made(data)])
            /\ UNCHANGED faults
         \/ /\ cached = -1 /\ Fault
            /\ Becomes(r, [run[r] EXCEPT !.pc = "save", !.cache[d] = 0, !.config = Made(0),
                                         !.swallowed = @ \cup Concerned(d)])
         \/ Fault /\ Fail(r, "next")

\* Two bugs: only the first configuration is saved ...
SaveOnce(r) ==
  LET d    == run[r].device
      read == run[r].read[d].context
  IN  /\ run[r].pc = "save"
      /\ context' = IF read.sonic = NoConfig
                    THEN [context EXCEPT ![d].sonic = run[r].config] ELSE context
      /\ UNCHANGED <<wired, identifier, netbox, store, firmware, edits, faults>>
      /\ Goto(r, "export")

\* ... and the local context is written with this key alone.
SaveAlone(r) ==
  /\ run[r].pc = "save"
  /\ context' = [context EXCEPT ![run[r].device] = [sonic |-> run[r].config, sibling |-> 0]]
  /\ UNCHANGED <<wired, identifier, netbox, store, firmware, edits, faults>>
  /\ Goto(r, "export")

\* Writes back the context that was read with the new configuration in it,
\* if that differs from the one that was read.
save_config_to_netbox(r) ==
  LET d     == run[r].device
      read  == run[r].read[d].context
      saved == [context EXCEPT ![d] = [read EXCEPT !.sonic = run[r].config]]
  IN  /\ run[r].pc = "save"
      /\ UNCHANGED <<wired, identifier, netbox, store, firmware, edits>>
      /\ \/ read.sonic = run[r].config /\ UNCHANGED <<context, faults>> /\ Goto(r, "export")
         \/ read.sonic # run[r].config /\ context' = saved /\ UNCHANGED faults /\ Goto(r, "export")
         \/ /\ read.sonic # run[r].config      \* the request fails, or just its answer is lost
            /\ context' \in {context, saved} /\ Fault /\ Fail(r, "next")

\* The name of the file of the device that a run works with.
FileOf(x) == Ident(x.device, x.read[x.device].serial)

\* Compares with the file there is.
Compare(r) ==
  /\ run[r].pc = "export"
  /\ UNCHANGED <<wired, identifier, netbox, context, store, firmware, edits>>
  /\ \/ Served(FileOf(run[r])) = File(run[r].config) /\ UNCHANGED faults /\ Goto(r, "link")
     \/ Served(FileOf(run[r])) # File(run[r].config) /\ UNCHANGED faults /\ Goto(r, "open")
     \/ Fault /\ Fail(r, "next")

\* A bug: the file is written in place.
ExportInPlace(r) ==
  /\ run[r].pc = "open"
  /\ store' = [store EXCEPT ![FileOf(run[r])] = Partial({r})]
  /\ UNCHANGED <<wired, identifier, netbox, context, firmware, edits, faults>>
  /\ Goto(r, "replace")

\* After a failure the temporary file is removed, whosever it is, if that can
\* be done.
Dropped(n) == store' \in {store, [store EXCEPT ![Tmp(n)] = Absent]}

Writing(n) == {q \in Runs : run[q].pc = "replace" /\ FileOf(run[q]) = n}

\* Opens the temporary file: a new one, or, emptied, the one there is, which
\* those who have it open go on writing to.
ExportOpen(r) ==
  LET n      == FileOf(run[r])
      others == Writing(n)
      both   == IF others = {} THEN {} ELSE others \cup {r}
      writers == IF store[Tmp(n)].kind = "partial" THEN store[Tmp(n)].by \cap others ELSE {}
  IN  /\ run[r].pc = "open"
      /\ UNCHANGED <<wired, identifier, netbox, context, firmware, edits>>
      /\ \/ /\ store' = [store EXCEPT ![Tmp(n)] = Partial(writers \cup {r})]
            /\ run' = [q \in Runs |->
                         [run[q] EXCEPT !.pc = IF q = r THEN "replace" ELSE @,
                                        !.quiet = IF q \in both THEN @ \ {run[r].device} ELSE @,
                                        !.beside = IF q \in both THEN @ \cup {n} ELSE @]]
            /\ UNCHANGED faults
         \/ Dropped(n) /\ Fault /\ Fail(r, "next")

\* Renames what has the temporary name, once its own file is complete: that
\* may be its own, or one that others still write, or be gone.
ExportReplace(r) ==
  LET n   == FileOf(run[r])
      tmp == store[Tmp(n)]
  IN  /\ run[r].pc = "replace"
      /\ UNCHANGED <<wired, identifier, netbox, context, firmware, edits>>
      /\ \/ /\ tmp.kind = "partial"
            /\ store' = [store EXCEPT ![Tmp(n)] = Absent,
                                      ![n] = IF tmp.by = {r} THEN File(run[r].config) ELSE Partial({})]
            /\ UNCHANGED faults /\ Goto(r, "link")
         \/ tmp.kind = "absent" /\ UNCHANGED <<store, faults>> /\ Fail(r, "next")
         \/ Dropped(n) /\ Fault /\ Fail(r, "next")

\* The host name links to the file of the serial number.  Another run that
\* makes the link meanwhile, or puts a file there, fails this like a fault.
HostLink(r) ==
  LET d == run[r].device
      n == FileOf(run[r])
  IN  /\ run[r].pc = "link"
      /\ UNCHANGED <<wired, identifier, netbox, context, firmware, edits>>
      /\ \/ /\ store' = IF n = Host(d) THEN store ELSE [store EXCEPT ![Host(d)] = LinkTo(n)]
            /\ UNCHANGED faults /\ Goto(r, "next")
         \/ /\ n # Host(d) /\ store[Host(d)] # LinkTo(n)
            /\ store' \in {store, [store EXCEPT ![Host(d)] = Absent]}
            /\ \/ Fault
               \/ /\ \E q \in Runs \ {r} : run[q].pc \in {"replace", "link"} /\ run[q].device = d
                  /\ UNCHANGED faults
            /\ Swallow(r, "next", {d})

\* In the end the caches are cleared and the rc goes to the client.
Finish(r) ==
  /\ run[r].pc = "finish"
  /\ UNCHANGED <<wired, identifier, netbox, context, store, firmware, edits, faults>>
  /\ Becomes(r, [Idle EXCEPT !.pc = "finished", !.target = run[r].target, !.rc = run[r].rc,
                             !.quiet = run[r].quiet, !.swallowed = run[r].swallowed,
                             !.beside = run[r].beside])

\* The worker is killed, and nobody takes the run up again.
Kill(r) ==
  /\ run[r].pc \notin {"idle", "finished", "killed"} /\ Fault
  /\ UNCHANGED <<wired, identifier, netbox, context, store, firmware, edits>>
  /\ Becomes(r, [Idle EXCEPT !.pc = "killed", !.beside = run[r].beside])

-----------------------------------------------------------------------------
(* Everyone else.                                                           *)

Edited(d) == /\ edits < MaxEdits /\ edits' = edits + 1
             /\ run' = [r \in Runs |-> [run[r] EXCEPT !.quiet = @ \ {d}]]

\* The device changes in NetBox: its data, its serial number (it is
\* replaced) or the firmware it should have.
EditDevice(d) ==
  /\ Edited(d)
  /\ \/ netbox' = [netbox EXCEPT ![d].data = @ + 1]
     \/ \E k \in {0, edits + 2} \ {netbox[d].serial} : netbox' = [netbox EXCEPT ![d].serial = k]
     \/ \E v \in {0, 1, 2} \ {netbox[d].version} : netbox' = [netbox EXCEPT ![d].version = v]
  /\ UNCHANGED <<wired, identifier, context, store, firmware, faults>>

\* Another generator writes its key of the local context.
CoOwner(d) ==
  /\ Edited(d)
  /\ context' = [context EXCEPT ![d].sibling = @ + 1]
  /\ UNCHANGED <<wired, identifier, netbox, store, firmware, faults>>

\* An operator puts an image of their own where the device looks for one.
PlaceImage(d) ==
  /\ Edited(d)
  /\ firmware' = [firmware EXCEPT ![Ident(d, netbox[d].serial)] = Operators]
  /\ UNCHANGED <<wired, identifier, netbox, context, store, faults>>

Step(r) ==
  \/ \E target \in Requests[r] : Start(r, target)
  \/ Query(r) \/ Group(r)
  \/ \E d \in Devices : NextDevice(r, d)
  \/ NoMoreDevices(r) \/ Generate(r)
  \/ save_config_to_netbox(r) \/ Compare(r) \/ ExportOpen(r) \/ ExportReplace(r) \/ HostLink(r)
  \/ Finish(r) \/ Kill(r)

Next ==
  \/ \E r \in Runs : Step(r)
  \/ \E d \in Devices : EditDevice(d) \/ CoOwner(d) \/ PlaceImage(d)

Spec == Init /\ [][Next]_vars

-----------------------------------------------------------------------------
(* Properties.                                                              *)

Configs  == [data : Int, as : Nat]
Contexts == [sonic : Configs, sibling : Nat]
Answers  == [context : Contexts, serial : Nat, version : Nat]
Files    == [kind : {"absent"}] \cup [kind : {"partial"}, by : SUBSET Runs]
              \cup [kind : {"file"}, config : Configs] \cup [kind : {"link"}, to : FileNames]

TypeOK ==
  /\ netbox \in [Devices -> [data : Nat, serial : 0..(MaxEdits + 1), version : Nat]]
  /\ context \in [Devices -> Contexts]
  /\ store \in [Names -> Files]
  /\ firmware \in [FileNames -> [kind : {"absent", "operator"}] \cup [kind : {"image"}, version : Nat]]
  /\ \A r \in Runs :
       /\ run[r].pc \in {"idle", "query", "group", "next", "generate", "save", "export", "open",
                         "replace", "link", "finish", "finished", "killed"}
       /\ run[r].read \in [Devices -> Answers] /\ run[r].cache \in [Devices -> Int]
       /\ run[r].todo \subseteq SonicDevices /\ run[r].config \in Configs /\ run[r].rc \in {0, 1}
       /\ run[r].pc \in {"generate", "save", "export", "open", "replace", "link"} =>
            run[r].device \in Supported

\* What is served under the name of a device is a whole configuration or
\* nothing, and a link leads to a file, whatever fails and whenever a worker is
\* killed (the temporary file and its renaming): unless two runs wrote that file
\* at the same time, and then one of the two does not report success: it is not
\* done with the file, was killed, or has the rc 1 (one temporary name for all).
Told(x)         == x.rc = 1 \/ x.pc = "killed"
Suspected(r, n) == n \in run[r].beside /\ (Told(run[r]) \/ r \in Writing(n))

WholeFiles ==
  \A n \in FileNames :
    /\ store[n].kind = "partial" => \E r \in Runs : Suspected(r, n)
    /\ store[n].kind = "link" => store[store[n].to].kind \in {"file", "partial"}

\* A run that ends with rc 0 has brought each of its devices up to date for
\* which nobody, another run neither, wrote meanwhile and for which it met
\* nothing that it keeps to itself: the local context, the file under both of
\* its names and the firmware link.
Targets(target) == IF target = All THEN SonicDevices ELSE {target} \cap SonicDevices

UpToDate(target, d) ==
  LET c == [data |-> netbox[d].data, as |-> AsNumber(d, target, {})]
      n == Ident(d, netbox[d].serial)
  IN  /\ d \in Supported => /\ context[d].sonic = c
                            /\ Served(n) = File(c) /\ Served(Host(d)) = File(c)
      /\ IF netbox[d].version # 0 THEN firmware[n] = Image(netbox[d].version)
         ELSE firmware[n].kind # "image"

CleanRunExports ==
  \A r \in Runs : run[r].pc = "finished" /\ run[r].rc = 0 =>
    \A d \in (Targets(run[r].target) \cap run[r].quiet) \ run[r].swallowed : UpToDate(run[r].target, d)

\* The key that another generator keeps in the local context of a device is
\* lost only to a run which saves a context that somebody has written since it
\* read it.
SiblingsKept ==
  [][\A d \in Devices :
       context'[d].sibling = context[d].sibling \/ edits' = edits + 1
       \/ \E r \in Runs : /\ run[r].pc = "save" /\ run'[r].pc # "save"
                          /\ run[r].device = d /\ d \notin run[r].quiet]_vars
=============================================================================
