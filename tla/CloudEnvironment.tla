---------------------------- MODULE CloudEnvironment ----------------------------
(* The files that lead a program to its cloud (tasks/openstack.py):           *)
(* setup_cloud_environment writes a file of clouds and one of secrets to /tmp *)
(* and goes there, a program or openstacksdk reads them, and                  *)
(* cleanup_cloud_environment removes them.  The commands and the tasks of the *)
(* openstack worker share these files; each has a working directory of its    *)
(* own.  openstacksdk is external: it takes the first directory that has a    *)
(* file, and there .yaml before .yml.                                         *)
EXTENDS Sequences

CONSTANTS
  Jobs,      \* the commands and tasks, each of which runs once
  Callings,  \* do: "command", "program" or "project", cloud: which one
  Vaulted,   \* the clouds with a password in secrets.yml
  Profiles   \* the clouds in the file of clouds

VARIABLES
  etc,   \* which of the files are in /etc/openstack
  tmp,   \* each of them in /tmp: "none", "copied" or, for clouds, the cloud whose
         \* password is in it, for secrets "empty"
  job    \* the commands and tasks

environmentVars == <<etc, tmp, job>>

CloudsNames == {"clouds.yaml", "clouds.yml"}
SecureNames == {"secure.yml", "secure.yaml"}

environmentInit ==
  /\ etc \in SUBSET (CloudsNames \cup SecureNames)
  /\ tmp = [file \in CloudsNames \cup SecureNames |-> "none"]
  /\ job = [j \in Jobs |-> [pc |-> "idle", rc |-> 0, alone |-> FALSE]]

Active(j)   == job[j].pc \notin {"idle", "ended"}
Goes(j, pc) == job' = [job EXCEPT ![j].pc = pc]
Ends(j, rc) == job' = [job EXCEPT ![j].pc = "ended", ![j].rc = rc]
Fails(j)    == job' = [job EXCEPT ![j].pc = "cleanup", ![j].rc = 1]

-----------------------------------------------------------------------------
\* It finds a password, if secrets.yml can be read.
get_cloud_password(cloud) == {"none"} \cup {c \in Vaulted : c = cloud}

\* Files keep the names they have in /etc/openstack, but the empty file of secrets
\* is always secure.yml.
CloudsFile == IF "clouds.yaml" \in etc THEN "clouds.yaml" ELSE "clouds.yml"
SecureFile(password) ==
  IF password = "none" /\ "secure.yml" \notin etc THEN "secure.yaml" ELSE "secure.yml"

\* The files to write: copies, or the clouds with the password among them and
\* empty secrets; none is needed with a password alone.
Files(password) ==
  IF CloudsNames \cap etc # {} THEN <<CloudsFile, SecureFile(password)>>
  ELSE IF password = "none" THEN <<SecureFile(password)>> ELSE <<>>

\* Neither a password nor a file of them, or no such profile.
Hopeless(cloud, password) ==
  IF password = "none" THEN SecureNames \cap etc = {}
  ELSE CloudsNames \cap etc # {} /\ cloud \notin Profiles

\* A command or a task starts; alone says that no other one overlaps with it.
\* The setup may end here: a task tells its client nothing then, and returns 1.
Starts(j, q) ==
  LET others == {i \in Jobs : Active(i)} IN
  /\ job[j].pc = "idle"
  /\ \E password \in get_cloud_password(q.cloud) :
       job' = [i \in Jobs |->
         IF i = j
         THEN [pc |-> IF Hopeless(q.cloud, password) THEN "ended" ELSE "setup", call |-> q, password |-> password,
               rc |-> IF Hopeless(q.cloud, password) THEN 1 ELSE 0, alone |-> others = {},
               todo |-> Files(password), wrote |-> {}, at |-> "home", found |-> "none"]
         ELSE [job[i] EXCEPT !.alone = @ /\ i \notin others]]
  /\ UNCHANGED <<etc, tmp>>

\* A bug: a password needs no secure.yml.
SecureOfEtc(j) == IF job[j].password = "none" THEN "copied" ELSE tmp["secure.yml"]

\* "an empty secure.yml in /tmp to prevent SDK from reading
\* /etc/openstack/secure.yml which might have a different (wrong) password"
Secure(j) == IF job[j].password = "none" THEN "copied" ELSE "empty"

Clouds(j) == IF job[j].password = "none" THEN "copied" ELSE job[j].password

\* One file after the other, and then to /tmp.  What fails - a file may be there
\* by then, and is not listed - leaves the listed files to a task's cleanup; a
\* command returns without one.
setup_cloud_environment(j) ==
  LET todo == job[j].todo
      Written == [tmp EXCEPT ![Head(todo)] = IF Head(todo) \in SecureNames THEN Secure(j) ELSE Clouds(j)]
  IN
  /\ job[j].pc = "setup"
  /\ \/ /\ todo # <<>>
        /\ tmp' = Written
        /\ job' = [job EXCEPT ![j].todo = Tail(todo), ![j].wrote = @ \cup {Head(todo)}]
     \/ /\ todo = <<>>
        /\ job' = [job EXCEPT ![j].at = IF job[j].wrote # {} THEN "/tmp" ELSE @, ![j].pc = "work"]
        /\ UNCHANGED tmp
     \/ /\ tmp' \in {tmp} \cup (IF todo = <<>> THEN {} ELSE {Written})
        /\ IF job[j].call.do = "command" THEN Ends(j, 1) ELSE Fails(j)
  /\ UNCHANGED etc

\* What openstacksdk reads of a file with two names, in a directory or else in
\* /etc/openstack.
Reads(yaml, yml, at) ==
  IF at = "/tmp" /\ tmp[yaml] # "none" THEN tmp[yaml]
  ELSE IF at = "/tmp" /\ tmp[yml] # "none" THEN tmp[yml]
  ELSE IF {yaml, yml} \cap etc # {} THEN "copied" ELSE "none"

\* Whose password that is: the file of secrets has the last word.
Found(at) ==
  IF Reads("secure.yaml", "secure.yml", at) = "copied" THEN "secure"
  ELSE Reads("clouds.yaml", "clouds.yml", at)

\* The SDK is given the password; when that is refused, or there is none, it
\* reads the files, and a failure is a SystemExit.
get_openstack_connection(j) ==
  /\ job[j].pc = "work" /\ job[j].call.do = "command"
  /\ \/ job[j].password # "none" /\ Goes(j, "cleanup")
     \/ /\ job[j].password = "none" \/ SecureNames \cap etc # {}
        /\ job' = [job EXCEPT ![j].pc = "cleanup", ![j].found = Found(job[j].at)]
     \/ Fails(j)
  /\ UNCHANGED <<etc, tmp>>

\* A program starts in /tmp, the project manager in a directory of its own.
run_openstack_command(j) ==
  /\ job[j].pc = "work" /\ job[j].call.do # "command"
  /\ \/ LET at == IF job[j].call.do = "project" THEN "project" ELSE job[j].at
        IN job' = [job EXCEPT ![j].pc = "runs", ![j].at = at, ![j].found = Found(at)]
     \/ Fails(j)
  /\ UNCHANGED <<etc, tmp>>

ProgramEnds(j) ==
  /\ job[j].pc = "runs"
  /\ Goes(j, "cleanup")
  /\ UNCHANGED <<etc, tmp>>

\* Back, and the files away, as far as this goes: whoever wrote them last.
cleanup_cloud_environment(j) ==
  /\ job[j].pc = "cleanup"
  /\ \/ /\ job[j].wrote = {}
        /\ job' = [job EXCEPT ![j].pc = "ended", ![j].at = "home"]
        /\ UNCHANGED tmp
     \/ \E file \in job[j].wrote :
          /\ tmp' \in {tmp, [tmp EXCEPT ![file] = "none"]}
          /\ job' = [job EXCEPT ![j].wrote = @ \ {file}]
  /\ UNCHANGED etc

environmentNext ==
  \E j \in Jobs :
    \/ \E q \in Callings : Starts(j, q)
    \/ setup_cloud_environment(j) \/ get_openstack_connection(j)
    \/ run_openstack_command(j) \/ ProgramEnds(j) \/ cleanup_cloud_environment(j)

-----------------------------------------------------------------------------
\* A program that no other command or task overlaps with finds what was set up
\* for it - its cloud's password or else the one of /etc/openstack - whatever
\* files those before it left behind when they failed, but for one: a copy of
\* secure.yaml that still lies in /tmp is read before the empty secure.yml, and its
\* password is found instead.
ProgramsFindTheirCloud ==
  \A j \in Jobs :
    job[j].pc = "runs" /\ job[j].at = "/tmp" /\ job[j].alone =>
      job[j].found = IF job[j].password = "none" \/ tmp["secure.yaml"] # "none" THEN "secure" ELSE job[j].password
=============================================================================
