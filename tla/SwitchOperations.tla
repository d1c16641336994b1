--------------------------- MODULE SwitchOperations ---------------------------
(* The `osism sonic` commands that log in to a switch (commands/sonic.py) and *)
(* the host keys they know (utils/ssh.py).  Sessions of several operators     *)
(* share the switch, the files in its /home/admin and /tmp, the local file in *)
(* /tmp and known_hosts; the files are named after the host and the day.      *)
(* What a configuration holds is left out: it is the version of the context   *)
(* it was made from.  The switch itself is external.                          *)
EXTENDS Integers, Sequences, Functions

CONSTANTS
  Sessions,
  Orders,     \* do: the command, force: --force, refresh: --refresh-host-key
  Backups,    \* the numbers x of config_db_<host>_<day>_<x>.json: a bound
  Contexts    \* how many versions of the device's context NetBox sees

VARIABLES
  context,    \* NetBox: the version of local_context_data
  local,      \* the local copy of the context: a version, 0 for none
  switch,     \* saved (config_db.json), running, temp (the upload), backups,
              \* grub, ztp, key (of the host), up
  known,      \* known_hosts: the key kept for the switch's address, 0 for none
  session,
  locked,     \* `osism lock`
  ztpTasks    \* queued set_provision_state "ztp"

switchVars == <<context, local, switch, known, session, locked, ztpTasks>>

Installed(key, backups) ==
  [saved |-> 0, running |-> 0, temp |-> 0, backups |-> backups, grub |-> {},
   ztp |-> FALSE, key |-> key, up |-> TRUE]

None == -1

switchInit ==
  /\ context = 1 /\ local = 0 /\ ztpTasks = 0
  /\ locked \in BOOLEAN
  /\ switch = Installed(1, [x \in Backups |-> None])
  /\ known \in {0, 1}
  /\ session = [s \in Sessions |-> [pc |-> "idle", path |-> <<>>, rc |-> 0, shared |-> FALSE]]

\* What each command does once NetBox told it where the switch is.
Load      == <<"local", "connect", "name", "copy", "upload", "load", "save", "clean">>
Reload    == <<"local", "connect", "name", "copy", "upload", "load", "reload", "save", "clean">>
Backup    == <<"connect", "name", "copy">>
Ztp(verb) == <<"connect", verb>>
Show      == <<"connect", "show">>
Reboot    == <<"connect", "reboot">>
Reset     == <<"connect", "uninstall", "ONIE", "reboot", "keys", "state">>

Paths ==
  [load |-> Load, reload |-> Reload, backup |-> Backup, enable |-> Ztp("enable"),
   disable |-> Ztp("disable"), show |-> Show, reboot |-> Reboot, reset |-> Reset]

SwitchAssumption == 1 \in Backups /\ \A q \in Orders : q.do \in DOMAIN Paths

-----------------------------------------------------------------------------
At(s, step) == session[s].pc = "runs" /\ session[s].path # <<>> /\ Head(session[s].path) = step

Ends(s, rc)  == session' = [session EXCEPT ![s].pc = "ended", ![s].rc = rc]
Proceeds(s)     == session' = [session EXCEPT ![s].path = Tail(@)]

\* The lock stops a reset, a prompt may be declined; the device must be in
\* NetBox, with a context, an address of its own or an OOB IP.
Begins(s, q) ==
  /\ session[s].pc = "idle"
  /\ \/ Ends(s, 1)
     \/ q.do = "reset" /\ ~locked /\ ~q.force /\ Ends(s, 0)
     \/ /\ ~(q.do = "reset" /\ locked)
        /\ session' = [session EXCEPT ![s] =
             [pc |-> "runs", path |-> Paths[q.do], refresh |-> q.refresh,
              ctx |-> context, x |-> 1, rc |-> 0, shared |-> FALSE]]
  /\ UNCHANGED <<context, local, switch, known, locked, ztpTasks>>

save_config_context(s) ==
  /\ At(s, "local")
  /\ local' = session[s].ctx
  /\ Proceeds(s)
  /\ UNCHANGED <<context, switch, known, locked, ztpTasks>>

\* A key that is not known is added, another one than the known one refused.
\* --refresh-host-key removes the known one first, if ssh-keygen works.
create_ssh_connection(s) ==
  /\ At(s, "connect") /\ switch.up
  /\ \E kept \in {known} \cup (IF session[s].refresh THEN {0} ELSE {}) :
       IF kept \in {0, switch.key}
       THEN known' = switch.key /\ Proceeds(s)
       ELSE known' = kept /\ Ends(s, 1)
  /\ UNCHANGED <<context, local, switch, locked, ztpTasks>>

\* A bug: the first name, free or not.
FirstBackupFilename(s) ==
  /\ At(s, "name") /\ switch.up
  /\ Proceeds(s)
  /\ UNCHANGED <<context, local, switch, known, locked, ztpTasks>>

\* One `ls` after the other, until a name is free.
generate_backup_filename(s) ==
  /\ At(s, "name") /\ switch.up
  /\ IF switch.backups[session[s].x] = None THEN Proceeds(s)
     ELSE session[s].x + 1 \in Backups /\ session' = [session EXCEPT ![s].x = @ + 1]
  /\ UNCHANGED <<context, local, switch, known, locked, ztpTasks>>

\* shared remembers that another session is about to copy to the same name.
backup_current_config(s) ==
  LET x == session[s].x
      Too(t) == t # s /\ At(t, "copy") /\ session[t].x = x
  IN
  /\ At(s, "copy") /\ switch.up
  /\ switch' = [switch EXCEPT !.backups[x] = switch.saved]
  /\ session' = [session EXCEPT ![s].path = Tail(@), ![s].shared = @ \/ \E t \in Sessions : Too(t)]
  /\ UNCHANGED <<context, local, known, locked, ztpTasks>>

\* The switch after one of the other steps; `config reload` starts the services
\* on the configuration it has, or on the saved one.
Outcomes(step) ==
  CASE step = "upload" -> {[switch EXCEPT !.temp = local]}
    [] step = "load"   -> {[switch EXCEPT !.running = switch.temp]}
    [] step = "reload" -> {switch, [switch EXCEPT !.running = switch.saved]}
    [] step = "save"   -> {[switch EXCEPT !.saved = switch.running]}
    [] step = "clean"  -> {[switch EXCEPT !.temp = 0], switch}
    [] step \in {"enable", "disable"}  -> {[switch EXCEPT !.ztp = step = "enable"]}
    [] step \in {"uninstall", "ONIE"} -> {[switch EXCEPT !.grub = @ \cup {step}]}
    [] step = "reboot" -> {[switch EXCEPT !.up = FALSE]}
    [] OTHER           -> {switch}

Remote == {"upload", "load", "reload", "save", "clean", "enable", "disable", "show",
           "uninstall", "ONIE", "reboot"}

\* Nothing is loaded from a file that another session removed.
Executes(s) ==
  \E step \in Remote :
    /\ At(s, step) /\ switch.up
    /\ ~(step = "load" /\ switch.temp = 0)
    /\ switch' \in Outcomes(step)
    /\ Proceeds(s)
    /\ UNCHANGED <<context, local, known, locked, ztpTasks>>

\* The keys of the host's name, of its primary address and of what DNS says are
\* removed: the address connected to may be another one.
cleanup_ssh_known_hosts_for_node(s) ==
  /\ At(s, "keys")
  /\ known' \in {known, 0}
  /\ Proceeds(s)
  /\ UNCHANGED <<context, local, switch, locked, ztpTasks>>

set_provision_state(s) ==
  /\ At(s, "state")
  /\ ztpTasks' = ztpTasks + 1
  /\ Proceeds(s)
  /\ UNCHANGED <<context, local, switch, known, locked>>

\* A step fails and ends the command, except for the removal of the upload and
\* of the keys.  With the switch down, it must.
Fails(s) ==
  /\ session[s].pc = "runs" /\ session[s].path # <<>>
  /\ Head(session[s].path) \notin {"keys"}
  /\ Head(session[s].path) = "clean" => ~switch.up
  /\ Ends(s, 1)
  /\ UNCHANGED <<context, local, switch, known, locked, ztpTasks>>

Returns(s) ==
  /\ session[s].pc = "runs" /\ session[s].path = <<>>
  /\ Ends(s, 0)
  /\ UNCHANGED <<context, local, switch, known, locked, ztpTasks>>

-----------------------------------------------------------------------------
(* The switch boots: from its disk, or into ONIE, which wipes it when it is to *)
(* uninstall; it is installed again then, with another host key.               *)
Boots ==
  /\ ~switch.up
  /\ switch' = IF {"uninstall", "ONIE"} \subseteq switch.grub
               THEN Installed(switch.key + 1, [x \in Backups |-> None])
               ELSE [switch EXCEPT !.up = TRUE, !.running = switch.saved, !.temp = 0,
                                   !.grub = @ \ {"ONIE"}]
  /\ UNCHANGED <<context, local, known, session, locked, ztpTasks>>

\* NetBox gets another context, the tasks are locked or unlocked.
Changes ==
  /\ \/ context < Contexts /\ context' = context + 1 /\ UNCHANGED locked
     \/ locked' = ~locked /\ UNCHANGED context
  /\ UNCHANGED <<local, switch, known, session, ztpTasks>>

Session(s) ==
  \/ \E q \in Orders : Begins(s, q)
  \/ save_config_context(s) \/ create_ssh_connection(s) \/ generate_backup_filename(s)
  \/ backup_current_config(s) \/ Executes(s) \/ cleanup_ssh_known_hosts_for_node(s)
  \/ set_provision_state(s) \/ Fails(s) \/ Returns(s)

switchNext ==
  \/ \E s \in Sessions : Session(s)
  \/ Boots
  \/ Changes

-----------------------------------------------------------------------------
\* Loads and reloads of a day, one after the other or at the same time, leave
\* the configuration the switch had before them: saved, or in a backup - as
\* long as no two sessions take the same free name at once, and no reset wipes
\* the switch.
OriginalKept ==
  switch.key = 1 /\ (\A s \in Sessions : ~session[s].shared) =>
    0 \in {switch.saved} \cup Range(switch.backups)
=============================================================================
