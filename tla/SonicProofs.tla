----------------------------- MODULE SonicProofs -----------------------------
(***************************************************************************)
(* Proofs about Sonic, in five parts.                                      *)
(*                                                                         *)
(* Searches that go round by round, by induction over the rounds.          *)
(*                                                                         *)
(* The synchronisation, for any devices, cables and numbers of edits,      *)
(* failures and runs beside each other.  One inductive invariant carries   *)
(* all: what the directories may hold wherever a worker is killed and      *)
(* whatever other runs write under the same names, what of its answers a   *)
(* run may still trust, and, for a run that met no failure and no edit,    *)
(* that each device is still to come, being worked on, or up to date.      *)
(*                                                                         *)
(* The groups of spines, found by such a search.                           *)
(*                                                                         *)
(* The configuration of a device, for any device, port table and base      *)
(* configuration: which helper was the last to write a table, and what.    *)
(*                                                                         *)
(* The composition, whose specification the theorems are about.            *)
(***************************************************************************)
EXTENDS Sonic, FiniteSetTheorems, TLAPS

-----------------------------------------------------------------------------
(* Searches that go round by round, over a function from each device to what *)
(* is one step away.                                                         *)

\* Less-than is well-founded; as a set of pairs it serves proofs about sets of
\* numbers, which stand in for those about predicates.
LEMMA NatWF == \E R : IsWellFoundedOn(R, Nat) /\ \A x, y \in Nat : x < y => <<x, y>> \in R
<1>1. IsWellFoundedOn(OpToRel(<, Nat), Nat)
  BY NatLessThanWellFounded
<1>2. \A x, y \in Nat : x < y => <<x, y>> \in OpToRel(<, Nat)
  BY DEF OpToRel
<1> QED
  BY <1>1, <1>2

\* Natural numbers have a least one ...
LEMMA Least ==
  ASSUME NEW T, T \subseteq Nat, T # {}
  PROVE \E x \in T : \A y \in T : x <= y
<1>1. PICK R : IsWellFoundedOn(R, Nat) /\ \A x, y \in Nat : x < y => <<x, y>> \in R
  BY NatWF
<1>2. \E x \in T : \A y \in T : ~ (<<y, x>> \in R)
  <2>1. IsWellFoundedOn(R, Nat)
    BY <1>1
  <2> HIDE <1>1
  <2> QED
    BY <2>1, WFMin, ZenonT(30)
<1>3. PICK x \in T : \A y \in T : ~ (<<y, x>> \in R)
  BY <1>2
<1>4. \A y \in T : x <= y
  <2> SUFFICES ASSUME NEW y \in T
               PROVE  x <= y
    OBVIOUS
  <2>1. ~(y < x)
    BY <1>1, <1>3
  <2>2. x \in Nat /\ y \in Nat
    OBVIOUS
  <2> QED
    BY <2>1, <2>2
<1> QED
  BY <1>4

\* ... so what has 0 and with each number the next has all of them.
LEMMA Inductive ==
  ASSUME NEW T, 0 \in T, \A n \in Nat : n \in T => n + 1 \in T
  PROVE  Nat \subseteq T
<1> SUFFICES ASSUME Nat \ T # {} PROVE FALSE
  OBVIOUS
<1> DEFINE Rest == Nat \ T
<1>1. Rest \subseteq Nat /\ Rest # {}
  OBVIOUS
<1>2. PICK x \in Rest : \A y \in Rest : x <= y
  <2> HIDE DEF Rest
  <2> QED
    BY <1>1, Least
<1>3. x \in Nat \ {0} /\ x - 1 \in Nat /\ (x - 1) + 1 = x
  BY <1>2
<1>4. x - 1 \in T
  BY <1>2, <1>3
<1> QED
  BY <1>2, <1>3, <1>4
\* A round adds what is one step away.
Adds(links, X) == X \cup UNION {links[e] : e \in X}

\* A walk of n rounds, which may rest; that there is a function of the rounds is
\* seen from where the walks end.
Walk(d, S, links, n, e) ==
  \E p \in [0..n -> S \cup {d}] : /\ p[0] = d /\ p[n] = e
                                  /\ \A i \in 1..n : p[i] \in Adds(links, {p[i - 1]})

Search(d, S, links, f) ==
  /\ f = [n \in Nat |-> IF n = 0 THEN {d} ELSE f[n - 1] \cup UNION {links[e] : e \in f[n - 1]}]
  /\ \A n \in Nat : f[n] \subseteq S \cup {d}

LEMMA RoundsExist ==
  ASSUME NEW d, NEW S, NEW links, \A e \in S \cup {d} : links[e] \subseteq S
  PROVE  \E f : Search(d, S, links, f)
<1> DEFINE h == [n \in Nat |-> {e \in S \cup {d} : Walk(d, S, links, n, e)}]
<1>1. h[0] = {d}
  <2>1. Walk(d, S, links, 0, d)
    <3> DEFINE p == [i \in 0..0 |-> d]
    <3>1. p \in [0..0 -> S \cup {d}] /\ p[0] = d /\ 1..0 = {}
      OBVIOUS
    <3> QED
      BY <3>1 DEF Walk
  <2>2. \A e : Walk(d, S, links, 0, e) => e = d
    BY DEF Walk
  <2> QED
    BY <2>1, <2>2
<1>2. ASSUME NEW n \in Nat \ {0}
      PROVE  h[n] = Adds(links, h[n - 1])
  <2>0. n - 1 \in Nat
    OBVIOUS
  <2>1. ASSUME NEW e \in h[n] PROVE e \in Adds(links, h[n - 1])
    <3>1. PICK p \in [0..n -> S \cup {d}] : /\ p[0] = d /\ p[n] = e
                                            /\ \A i \in 1..n : p[i] \in Adds(links, {p[i - 1]})
      BY <2>1 DEF Walk
    <3> DEFINE q == [i \in 0..(n - 1) |-> p[i]]
    <3>2. q \in [0..(n - 1) -> S \cup {d}] /\ q[0] = d /\ q[n - 1] = p[n - 1]
      BY <3>1
    <3>3. \A i \in 1..(n - 1) : q[i] \in Adds(links, {q[i - 1]})
      BY <3>1
    <3>4. Walk(d, S, links, n - 1, p[n - 1])
      BY <3>2, <3>3 DEF Walk
    <3>5. p[n - 1] \in h[n - 1]
      BY <3>1, <3>4, <2>0
    <3>6. e \in Adds(links, {p[n - 1]})
      BY <3>1
    <3> QED
      BY <3>5, <3>6 DEF Adds
  <2>2. ASSUME NEW e \in Adds(links, h[n - 1]) PROVE e \in h[n]
    <3>1. PICK c \in h[n - 1] : e \in Adds(links, {c})
      BY <2>2 DEF Adds
    <3>2. e \in S \cup {d}
      BY <3>1, <2>0 DEF Adds
    <3>3. PICK q \in [0..(n - 1) -> S \cup {d}] : /\ q[0] = d /\ q[n - 1] = c
                                                  /\ \A i \in 1..(n - 1) : q[i] \in Adds(links, {q[i - 1]})
      BY <3>1, <2>0 DEF Walk
    <3> DEFINE p == [i \in 0..n |-> IF i = n THEN e ELSE q[i]]
    <3>4. p \in [0..n -> S \cup {d}] /\ p[0] = d /\ p[n] = e
      BY <3>2, <3>3
    <3>5. ASSUME NEW i \in 1..n
          PROVE  p[i] \in Adds(links, {p[i - 1]})
      <4>1. i - 1 \in 0..n /\ i - 1 # n /\ i \in 0..n
        OBVIOUS
      <4>2. p[i - 1] = q[i - 1]
        BY <4>1
      <4>3. CASE i = n
        BY <3>1, <3>3, <4>1, <4>2, <4>3
      <4>4. CASE i # n
        <5>1. i \in 1..(n - 1) /\ p[i] = q[i]
          BY <4>1, <4>4
        <5> HIDE DEF p
        <5> QED
          BY <3>3, <4>2, <5>1
      <4> QED
        BY <4>3, <4>4
    <3> HIDE DEF p
    <3>6. Walk(d, S, links, n, e)
      BY <3>4, <3>5 DEF Walk
    <3> QED
      BY <3>2, <3>6
  <2> QED
    BY <2>1, <2>2
<1>3. \A n \in Nat : h[n] = IF n = 0 THEN {d} ELSE Adds(links, h[n - 1])
  BY <1>1, <1>2
<1>4. h = [n \in Nat |-> h[n]] /\ \A n \in Nat : h[n] \subseteq S \cup {d}
  OBVIOUS
<1> HIDE DEF h
<1>5. h = [n \in Nat |-> IF n = 0 THEN {d} ELSE h[n - 1] \cup UNION {links[e] : e \in h[n - 1]}]
  BY <1>3, <1>4 DEF Adds
<1>6. Search(d, S, links, h)
  BY <1>4, <1>5 DEF Search
<1> QED
  BY <1>6

\* A search stays where it is let go.
LEMMA ComponentAmong ==
  ASSUME NEW S, IsFiniteSet(S), NEW d \in S, NEW dark
  PROVE  Component(d, S, dark) \subseteq S
<1> DEFINE g == CHOOSE f : f = [n \in Nat |-> IF n = 0 THEN {d}
                   ELSE f[n - 1] \cup UNION {Linked(e, S, dark) : e \in f[n - 1]}]
<1>1. Component(d, S, dark) = g[Cardinality(S)]
  BY DEF Component
<1>2. \E f : f = [n \in Nat |-> IF n = 0 THEN {d}
                   ELSE f[n - 1] \cup UNION {Linked(e, S, dark) : e \in f[n - 1]}]
  <2>1. PICK links : links = [e \in S \cup {d} |-> Linked(e, S, dark)]
    OBVIOUS
  <2>2. \A e \in S \cup {d} : links[e] = Linked(e, S, dark) /\ links[e] \subseteq S
    BY <2>1 DEF Linked
  <2>3. PICK f : Search(d, S, links, f)
    BY <2>2, RoundsExist
  <2>4. \A n \in Nat \ {0} : UNION {links[e] : e \in f[n - 1]} = UNION {Linked(e, S, dark) : e \in f[n - 1]}
    BY <2>2, <2>3, \A n \in Nat \ {0} : n - 1 \in Nat DEF Search
  <2>5. f = [n \in Nat |-> IF n = 0 THEN {d} ELSE f[n - 1] \cup UNION {Linked(e, S, dark) : e \in f[n - 1]}]
    BY <2>3, <2>4 DEF Search
  <2> WITNESS f
  <2> QED
    BY <2>5, Zenon
<1>3. g = [n \in Nat |-> IF n = 0 THEN {d} ELSE g[n - 1] \cup UNION {Linked(e, S, dark) : e \in g[n - 1]}]
  BY <1>2, Zenon
<1> HIDE DEF g
<1>4. \A n \in Nat : g[n] \subseteq S
  <2> DEFINE T == {n \in Nat : g[n] \subseteq S}
  <2>1. 0 \in T
    BY <1>3
  <2>2. ASSUME NEW n \in Nat, n \in T PROVE n + 1 \in T
    <3>1. n + 1 \in Nat /\ n + 1 # 0 /\ (n + 1) - 1 = n
      OBVIOUS
    <3>2. g[n + 1] = g[(n + 1) - 1] \cup UNION {Linked(e, S, dark) : e \in g[(n + 1) - 1]}
      BY <1>3, <3>1
    <3> QED
      BY <2>2, <3>1, <3>2 DEF Linked
  <2>3. Nat \subseteq T
    <3> HIDE DEF T
    <3> QED
      BY <2>1, <2>2, Inductive
  <2> QED
    BY <2>3
<1> QED
  BY <1>1, <1>4, FS_CardinalityType

\* Who is no spine is in no group.
LEMMA NoGroup ==
  ASSUME IsFiniteSet(Devices), NEW d \in Devices \ Spines, NEW target, NEW dark
  PROVE  AsNumber(d, target, dark) = OwnAs[d]
<1>1. PICK S : S = Considered(target)
  OBVIOUS
<1>2. S \subseteq Spines /\ IsFiniteSet(S)
  <2>1. S \subseteq Devices
    BY <1>1 DEF Considered, Spines
  <2> QED
    BY <1>1, <2>1, FS_Subset DEF Considered
<1>3. \A g \in find_interconnected_devices(S, dark) : d \notin g
  BY <1>2, ComponentAmong DEF find_interconnected_devices
<1> QED
  BY <1>1, <1>3 DEF AsNumber

-----------------------------------------------------------------------------
(* The synchronisation.                                                      *)

RunFields == {"pc", "target", "todo", "device", "config", "read", "cache", "rc", "quiet", "swallowed", "beside"}

\* Where a run works with a device, and where it knows what it was told of all.
Working == {"generate", "save", "export", "open", "replace", "link"}
Grouped == Working \cup {"next"}
Reading == Grouped \cup {"group"}

Numbers == 1..(MaxEdits + 1)
There   == {"file", "partial"}

TypesOK ==
  /\ edits \in 0..MaxEdits
  /\ DOMAIN netbox = Devices
  /\ \A d \in Devices : /\ DOMAIN netbox[d] = {"data", "serial", "version"}
                        /\ netbox[d].data \in Nat \ {0} /\ netbox[d].serial \in Numbers \cup {0}
  /\ DOMAIN context = Devices /\ \A d \in Devices : DOMAIN context[d] = {"sonic", "sibling"}
  /\ DOMAIN store = Names /\ DOMAIN firmware = FileNames /\ DOMAIN run = Runs

\* Only a name of the host is a link, to a file of its own serial numbers.
StoreOK ==
  /\ \A d \in Devices, k \in Numbers : store[Serial(d, k)].kind # "link"
  /\ \A d \in Devices : store[Host(d)].kind = "link" =>
       \E k \in Numbers : store[Host(d)] = LinkTo(Serial(d, k)) /\ store[Serial(d, k)].kind \in There

\* Who is known to write a temporary file is still at it, or tells of a failure;
\* and who is at it besides has been met.  A file that is not whole is one that
\* a run wrote which has lost the temporary file to another, and will fail.
Writer(r, n) == store[Tmp(n)].kind = "partial" /\ r \in store[Tmp(n)].by

TmpOK(n) ==
  /\ store[Tmp(n)].kind \in {"absent", "partial"}
  /\ store[Tmp(n)].kind = "partial" =>
       \E by \in SUBSET Runs : by # {} /\ store[Tmp(n)] = Partial(by)
  /\ \A w \in Runs : Writer(w, n) => w \in Writing(n) \/ Told(run[w])
  /\ \A w \in Runs, q \in Writing(n) : Writer(w, n) /\ w # q => n \in run[w].beside
  /\ store[n].kind = "partial" =>
       \E w \in Runs : /\ n \in run[w].beside
                       /\ Told(run[w]) \/ (w \in Writing(n) /\ ~Writer(w, n))

\* A run.
RunOK(x) ==
  /\ DOMAIN x = RunFields
  /\ x.pc = "idle" => x.rc = 0 /\ x.beside = {}
  /\ DOMAIN x.read = Devices /\ DOMAIN x.cache = Devices
  /\ \A d \in Devices : x.read[d].serial \in Numbers \cup {0} /\ DOMAIN x.read[d].context = {"sonic", "sibling"}
  /\ x.todo \subseteq Devices
  /\ x.pc \in Working => x.device \in Devices \ x.todo
  /\ x.pc \in Grouped => \A d \in Devices : x.cache[d] = 0 => Concerned(d) \subseteq x.swallowed

\* It makes a link to a file that is there.
LinkingOK(x) == x.pc = "link" /\ FileOf(x) # Host(x.device) => store[FileOf(x)].kind \in There

\* What it was told of a device for which nobody else has written is still so,
\* until it has written itself.
QuietOK(x, d) ==
  d \in x.quiet /\ x.pc \in Reading =>
    /\ x.read[d].serial = netbox[d].serial /\ x.read[d].version = netbox[d].version
    /\ d \in x.todo \/ (x.pc \in {"generate", "save"} /\ d = x.device) => x.read[d].context = context[d]

Wanted(target, d) == [data |-> netbox[d].data, as |-> AsNumber(d, target, {})]

LinkOK(d) ==
  LET n == Ident(d, netbox[d].serial)
  IN  IF netbox[d].version # 0 THEN firmware[n] = Image(netbox[d].version) ELSE firmware[n].kind # "image"

\* As long as it has met no failure for such a device, it is still to come, up to
\* date, or worked on and brought up to date as far as the run has come.
Clean(x, d) == d \in x.quiet /\ d \notin x.swallowed /\ x.rc = 0

WorkOK(r, x, d) ==
  /\ LinkOK(d)
  /\ x.pc # "generate" => x.config = Wanted(x.target, d)
  /\ x.pc \in {"export", "open", "replace", "link"} => context[d].sonic = x.config
  /\ x.pc = "replace" => store[Tmp(FileOf(x))] = Partial({r})
  /\ x.pc = "link" => Served(FileOf(x)) = File(x.config)

CleanOK(r, x, d) ==
  Clean(x, d) =>
    /\ x.pc = "group" /\ d \in Targets(x.target) => d \in x.todo
    /\ x.pc \in Grouped => x.cache[d] \in {-1, netbox[d].data}
    /\ x.pc \in Working /\ d = x.device => WorkOK(r, x, d)
    /\ x.pc \in Grouped \cup {"finish", "finished"} /\ d \in Targets(x.target) =>
         \/ x.pc \in Grouped /\ d \in x.todo
         \/ x.pc \in Working /\ d = x.device
         \/ UpToDate(x.target, d)

RunInv(r, x) == RunOK(x) /\ LinkingOK(x) /\ \A d \in Devices : QuietOK(x, d) /\ CleanOK(r, x, d)

SyncInv ==
  /\ TypesOK /\ StoreOK
  /\ \A n \in FileNames : TmpOK(n)
  /\ \A r \in Runs : RunInv(r, run[r])

-----------------------------------------------------------------------------
(* Names.                                                                    *)

\* The names of a device.
Mine(d) == {Host(d)} \cup {Serial(d, k) : k \in Numbers}

LEMMA HostName == ASSUME NEW d PROVE Host(d)[1] = "host" /\ Host(d)[2] = d /\ ~Host(d)[4]
BY DEF Host

LEMMA SerialName == ASSUME NEW d, NEW k PROVE Serial(d, k)[1] = "serial" /\ Serial(d, k)[2] = d /\ ~Serial(d, k)[4]
BY DEF Serial

LEMMA NamesAreNames ==
  ASSUME NEW d \in Devices
  PROVE  /\ Host(d) \in FileNames /\ \A k \in Numbers : Serial(d, k) \in FileNames /\ Serial(d, k) # Host(d)
         /\ \A e \in Devices, k \in Numbers : Host(e) # Serial(d, k)
         /\ Host(d) \in Mine(d) /\ \A k \in Numbers : Serial(d, k) \in Mine(d)
         /\ \A n \in Mine(d) : n[2] = d
<1>1. Host(d) \in FileNames /\ \A k \in Numbers : Serial(d, k) \in FileNames
  BY DEF FileNames, Numbers
<1>2. Host(d) \in Mine(d) /\ \A k \in Numbers : Serial(d, k) \in Mine(d)
  BY DEF Mine
<1>3. \A e \in Devices, k \in Numbers : Host(e) # Serial(d, k)
  BY HostName, SerialName
<1>4. \A n \in Mine(d) : n = Host(d) \/ \E k \in Numbers : n = Serial(d, k)
  BY DEF Mine
<1>5. \A n \in Mine(d) : n[2] = d
  BY <1>4, HostName, SerialName
<1> QED
  BY <1>1, <1>2, <1>3, <1>5

LEMMA FilesAreMine ==
  ASSUME NEW n \in FileNames
  PROVE  \E d \in Devices : n = Host(d) \/ \E k \in Numbers : n = Serial(d, k)
BY DEF FileNames, Numbers

LEMMA Temporary ==
  ASSUME NEW n \in FileNames
  PROVE  n \in Names /\ Tmp(n) \in Names /\ Tmp(n) \notin FileNames
<1>1. \A m \in FileNames : ~m[4]
  BY FilesAreMine, HostName, SerialName
<1>2. Tmp(n)[4]
  <2>1. PICK d \in Devices : n = Host(d) \/ \E k \in Numbers : n = Serial(d, k)
    BY FilesAreMine
  <2>2. CASE n = Host(d)
    BY <2>2 DEF Host, Tmp
  <2>3. CASE \E k \in Numbers : n = Serial(d, k)
    BY <2>3 DEF Serial, Tmp
  <2> QED
    BY <2>1, <2>2, <2>3
<1> QED
  BY <1>1, <1>2 DEF Names

LEMMA Apart ==
  ASSUME NEW d \in Devices, NEW e \in Devices, d # e, NEW n \in Mine(d)
  PROVE  n \notin Mine(e)
BY NamesAreNames

LEMMA MineAreFiles ==
  ASSUME NEW d \in Devices, NEW n \in Mine(d)
  PROVE  n \in FileNames
<1>1. n = Host(d) \/ \E k \in Numbers : n = Serial(d, k)
  BY DEF Mine
<1> QED
  BY <1>1, NamesAreNames

LEMMA Identified ==
  ASSUME NEW d \in Devices, NEW serial \in Numbers \cup {0}
  PROVE  Ident(d, serial) \in Mine(d) /\ (Ident(d, serial) # Host(d) => serial \in Numbers /\ Ident(d, serial) = Serial(d, serial))
BY DEF Ident, Mine
LEMMA TmpApart ==
  ASSUME NEW n \in FileNames, NEW m \in FileNames, Tmp(n) = Tmp(m)
  PROVE  n = m
<1>1. PICK d \in Devices : n = Host(d) \/ \E k \in Numbers : n = Serial(d, k)
  BY FilesAreMine
<1>2. PICK e \in Devices : m = Host(e) \/ \E k \in Numbers : m = Serial(e, k)
  BY FilesAreMine
<1>3. ASSUME NEW l \in FileNames PROVE Tmp(l)[1] = l[1] /\ Tmp(l)[2] = l[2] /\ Tmp(l)[3] = l[3]
  <2>1. PICK c \in Devices : l = Host(c) \/ \E k \in Numbers : l = Serial(c, k)
    BY FilesAreMine
  <2>2. CASE l = Host(c)
    BY <2>2 DEF Host, Tmp
  <2>3. CASE \E k \in Numbers : l = Serial(c, k)
    BY <2>3 DEF Serial, Tmp
  <2> QED
    BY <2>1, <2>2, <2>3
<1>4. n[1] = m[1] /\ n[2] = m[2] /\ n[3] = m[3]
  BY <1>3
<1>5. CASE n = Host(d)
  <2>1. m = Host(e)
    BY <1>2, <1>4, <1>5, HostName, SerialName
  <2>2. d = e
    BY <1>4, <1>5, <2>1, HostName
  <2> QED
    BY <1>5, <2>1, <2>2
<1>6. CASE \E k \in Numbers : n = Serial(d, k)
  <2>1. PICK j \in Numbers : n = Serial(d, j)
    BY <1>6
  <2>2. PICK k \in Numbers : m = Serial(e, k)
    BY <1>2, <1>4, <2>1, HostName, SerialName
  <2>3. Serial(d, j)[3] = j /\ Serial(e, k)[3] = k
    BY DEF Serial
  <2>4. d = e /\ j = k
    BY <1>4, <2>1, <2>2, <2>3, SerialName
  <2> QED
    BY <2>1, <2>2, <2>4
<1> QED
  BY <1>1, <1>5, <1>6

LEMMA FileOfRun ==
  ASSUME NEW x, RunOK(x), x.pc \in Working
  PROVE  /\ FileOf(x) \in Mine(x.device) /\ FileOf(x) \in FileNames
         /\ FileOf(x) # Host(x.device) => \E k \in Numbers : FileOf(x) = Serial(x.device, k)
BY Identified, MineAreFiles DEF RunOK, FileOf

-----------------------------------------------------------------------------
(* What stays.                                                               *)

Fixed == wired' = wired /\ identifier' = identifier

\* Nobody writes for a device.
Same(d) ==
  /\ netbox'[d] = netbox[d] /\ context'[d] = context[d]
  /\ \A n \in Mine(d) : store'[n] = store[n] /\ firmware'[n] = firmware[n]

\* No file of a serial number goes.
FilesStay ==
  \A d \in Devices, k \in Numbers : store[Serial(d, k)].kind \in There => store'[Serial(d, k)].kind \in There

LEMMA WantedStays ==
  ASSUME NEW target, NEW d, Fixed, netbox'[d] = netbox[d]
  PROVE  Wanted(target, d)' = Wanted(target, d)
BY DEF Fixed, Wanted, AsNumber, find_interconnected_devices, Component, Linked

LEMMA IdentStays ==
  ASSUME NEW d, NEW serial, Fixed
  PROVE  Ident(d, serial)' = Ident(d, serial)
BY DEF Fixed, Ident, Host, Serial

LEMMA FileOfStays ==
  ASSUME NEW x, NEW y, Fixed, y.device = x.device, y.read = x.read
  PROVE  FileOf(y)' = FileOf(x)
BY IdentStays DEF FileOf, Fixed, Ident, Host, Serial

LEMMA LinkStays ==
  ASSUME TypesOK, NEW d \in Devices, Fixed, netbox'[d] = netbox[d],
         \A n \in Mine(d) : firmware'[n] = firmware[n], LinkOK(d)
  PROVE  LinkOK(d)'
<1>1. Ident(d, netbox[d].serial) \in Mine(d)
  BY Identified DEF TypesOK
<1>2. Ident(d, netbox[d].serial)' = Ident(d, netbox[d].serial)
  BY DEF Fixed, Ident, Host, Serial
<1> QED
  BY <1>1, <1>2 DEF LinkOK, Image

\* What is served under the name of a device.
LEMMA ServedStays ==
  ASSUME StoreOK, NEW d \in Devices, NEW n \in Mine(d), \A m \in Mine(d) : store'[m] = store[m]
  PROVE  Served(n)' = Served(n)
<1>1. store[n].kind = "link" => store[n].to \in Mine(d)
  <2>1. n = Host(d) \/ \E k \in Numbers : n = Serial(d, k)
    BY DEF Mine
  <2>2. CASE n = Host(d) /\ store[n].kind = "link"
    <3>1. PICK k \in Numbers : store[n] = LinkTo(Serial(d, k))
      BY <2>2 DEF StoreOK
    <3>2. store[n].to = Serial(d, k)
      BY <3>1 DEF LinkTo
    <3> QED
      BY <3>2, NamesAreNames
  <2>3. CASE \E k \in Numbers : n = Serial(d, k)
    BY <2>3 DEF StoreOK
  <2> QED
    BY <2>1, <2>2, <2>3
<1> QED
  BY <1>1 DEF Served

\* What up to date says, with what is wanted.
LEMMA UpToDateIs ==
  ASSUME NEW target, NEW d
  PROVE  UpToDate(target, d) <=>
           /\ d \in Supported => /\ context[d].sonic = Wanted(target, d)
                                 /\ Served(Ident(d, netbox[d].serial)) = File(Wanted(target, d))
                                 /\ Served(Host(d)) = File(Wanted(target, d))
           /\ LinkOK(d)
BY DEF UpToDate, Wanted, LinkOK

LEMMA UpToDateStays ==
  ASSUME TypesOK, StoreOK, NEW target, NEW d \in Devices, Fixed, Same(d), UpToDate(target, d)
  PROVE  UpToDate(target, d)'
<1>1. PICK n \in Mine(d) : n = Ident(d, netbox[d].serial)
  BY Identified DEF TypesOK
<1>2. Ident(d, netbox[d].serial)' = n
  BY <1>1 DEF Fixed, Same, Ident, Host, Serial
<1>3. \A m \in Mine(d) : Served(m)' = Served(m)
  BY ServedStays DEF Same
<1>4. Wanted(target, d)' = Wanted(target, d)
  BY WantedStays DEF Same
<1>5. LinkOK(d)'
  BY LinkStays, UpToDateIs DEF Same
<1>6. Host(d) \in Mine(d) /\ Host(d)' = Host(d)
  BY NamesAreNames DEF Host
<1>7. Served(Ident(d, netbox[d].serial))' = Served(n)' /\ Served(Host(d))' = Served(Host(d))
  BY <1>2, <1>3, <1>6 DEF Served
<1>8. context'[d] = context[d]
  BY DEF Same
<1>9. /\ d \in Supported => /\ context'[d].sonic = Wanted(target, d)'
                            /\ Served(Ident(d, netbox[d].serial))' = File(Wanted(target, d)')
                            /\ Served(Host(d))' = File(Wanted(target, d)')
      /\ LinkOK(d)'
  BY <1>1, <1>3, <1>4, <1>5, <1>7, <1>8, UpToDateIs
<1> QED
  BY <1>9 DEF UpToDate, Wanted, LinkOK, File

\* A run is left alone but for its history.
Like(x, y) ==
  /\ DOMAIN y = DOMAIN x /\ y.pc = x.pc /\ y.target = x.target /\ y.todo = x.todo /\ y.device = x.device
  /\ y.config = x.config /\ y.read = x.read /\ y.cache = x.cache /\ y.rc = x.rc
  /\ y.swallowed = x.swallowed /\ y.quiet \subseteq x.quiet /\ x.beside \subseteq y.beside
  /\ x.pc # "replace" => y.beside = x.beside

LEMMA LikeKeeps ==
  ASSUME TypesOK, StoreOK, Fixed, FilesStay, NEW r, NEW x, NEW y, Like(x, y), RunInv(r, x),
         \A d \in Devices : d \in y.quiet => Same(d),
         x.pc = "replace" /\ x.device \in y.quiet => store'[Tmp(FileOf(x))] = store[Tmp(FileOf(x))]
  PROVE  RunInv(r, y)'
<1>1. RunOK(y)'
  BY DEF RunInv, RunOK, Like
<1>2. FileOf(y)' = FileOf(x)
  BY FileOfStays DEF Like
<1>3. LinkingOK(y)'
  <2> SUFFICES ASSUME y.pc = "link", FileOf(y)' # Host(y.device)' PROVE store'[FileOf(y)'].kind \in There
    BY DEF LinkingOK
  <2>1. x.pc = "link" /\ FileOf(x) # Host(x.device) /\ x.pc \in Working
    BY <1>2 DEF Like, Host, Working
  <2>2. store[FileOf(x)].kind \in There
    BY <2>1 DEF RunInv, LinkingOK
  <2>3. \E k \in Numbers : FileOf(x) = Serial(x.device, k)
    BY <2>1, FileOfRun DEF RunInv
  <2>4. x.device \in Devices
    BY <2>1 DEF RunInv, RunOK
  <2> QED
    BY <1>2, <2>2, <2>3, <2>4 DEF FilesStay
<1>4. ASSUME NEW d \in Devices PROVE QuietOK(y, d)' /\ CleanOK(r, y, d)'
  <2>1. CASE d \notin y.quiet
    BY <2>1 DEF QuietOK, CleanOK, Clean
  <2>2. CASE d \in y.quiet
    <3>1. Same(d) /\ d \in x.quiet /\ QuietOK(x, d) /\ CleanOK(r, x, d)
      BY <2>2 DEF RunInv, Like
    <3>2. QuietOK(y, d)'
      BY <3>1 DEF QuietOK, Like, Same
    <3>3. CleanOK(r, y, d)'
      <4> SUFFICES ASSUME Clean(y, d) PROVE CleanOK(r, y, d)'
        BY DEF CleanOK, Clean
      <4>1. Clean(x, d)
        BY <3>1 DEF Clean, Like
      <4>2. Wanted(x.target, d)' = Wanted(x.target, d)
        BY <3>1, WantedStays DEF Same
      <4>3. x.pc \in Working /\ d = x.device /\ WorkOK(r, x, d) => WorkOK(r, y, d)'
        <5> SUFFICES ASSUME x.pc \in Working, d = x.device, WorkOK(r, x, d) PROVE WorkOK(r, y, d)'
          OBVIOUS
        <5>1. LinkOK(d)'
          BY <3>1, LinkStays DEF WorkOK, Same
        <5>2. y.pc # "generate" => y.config = Wanted(y.target, d)'
          BY <4>2 DEF WorkOK, Like, Wanted
        <5>3. y.pc \in {"export", "open", "replace", "link"} => context'[d].sonic = y.config
          BY <3>1 DEF WorkOK, Like, Same
        <5>4. y.pc = "replace" => store'[Tmp(FileOf(x))] = Partial({r})
          BY <2>2 DEF WorkOK, Like
        <5>5. y.pc = "link" => Served(FileOf(x))' = File(y.config)
          <6>1. PICK n \in Mine(d) : n = FileOf(x)
            BY FileOfRun DEF RunInv
          <6>2. Served(n)' = Served(n)
            BY <3>1, ServedStays DEF Same
          <6>3. Served(FileOf(x))' = Served(n)'
            BY <1>2, <6>1 DEF Served, FileOf, Ident, Host, Serial, Fixed
          <6> QED
            BY <6>1, <6>2, <6>3 DEF WorkOK, Like
        <5>6. y.pc = "link" => Served(FileOf(y))' = File(y.config)
          BY <5>5 DEF Served, FileOf, Like
        <5>7. y.pc = "replace" => store'[Tmp(FileOf(y))'] = Partial({r})
          BY <5>4, <1>2 DEF Tmp
        <5> QED
          BY <5>1, <5>2, <5>3, <5>6, <5>7 DEF WorkOK, Tmp, Partial, File
      <4>4. UpToDate(x.target, d) => UpToDate(y.target, d)'
        <5>1. UpToDate(x.target, d) => UpToDate(x.target, d)'
          BY <3>1, UpToDateStays
        <5> QED
          BY <5>1 DEF Like, UpToDate
      <4> QED
        BY <3>1, <4>1, <4>3, <4>4 DEF CleanOK, Like, Same, Targets
    <3> QED
      BY <3>2, <3>3
  <2> QED
    BY <2>1, <2>2
<1> QED
  BY <1>1, <1>3, <1>4 DEF RunInv
\* What a step of a run may do to others: it writes for its device.
WritesFor(e) ==
  \A d \in Devices \ {e} :
    /\ context'[d] = context[d]
    /\ \A n \in Mine(d) : store'[n] = store[n] /\ firmware'[n] = firmware[n] /\ store'[Tmp(n)] = store[Tmp(n)]

Confined(r, e) ==
  /\ DOMAIN run' = Runs
  /\ \A q \in Runs \ {r} : /\ Like(run[q], run'[q])
                           /\ e \in run'[q].quiet => UNCHANGED <<context, store, firmware>>

LEMMA BecomesIs ==
  ASSUME SyncInv, NEW r \in Runs, NEW y, Becomes(r, y)
  PROVE  run'[r] = y /\ Confined(r, y.device)
<1> DEFINE written == UNCHANGED <<context, store, firmware>>
<1>1. run' = [q \in Runs |-> IF q = r THEN y ELSE IF written THEN run[q]
                             ELSE [run[q] EXCEPT !.quiet = @ \ {y.device}]]
  BY DEF Becomes
<1>2. ASSUME NEW q \in Runs \ {r}
      PROVE  Like(run[q], run'[q]) /\ (y.device \in run'[q].quiet => written)
  <2>1. DOMAIN run[q] = RunFields
    BY DEF SyncInv, RunInv, RunOK
  <2> HIDE DEF written
  <2>2. CASE written
    BY <1>1, <2>2 DEF Like
  <2>3. CASE ~written
    <3>1. run'[q] = [run[q] EXCEPT !.quiet = @ \ {y.device}]
      BY <1>1, <2>3
    <3> QED
      BY <2>1, <3>1 DEF Like, RunFields
  <2> QED
    BY <2>2, <2>3
<1>3. DOMAIN run' = Runs /\ run'[r] = y
  <2> HIDE DEF written
  <2> QED
    BY <1>1
<1> QED
  BY <1>2, <1>3 DEF Confined

LEMMA OthersKeep ==
  ASSUME SyncInv, Fixed, FilesStay, netbox' = netbox, NEW r \in Runs, NEW e, Confined(r, e), WritesFor(e),
         NEW q \in Runs \ {r}, NEW y, y = run'[q]
  PROVE  RunInv(q, y)'
<1> DEFINE x == run[q]
<1>1. Like(x, y) /\ (e \in y.quiet => UNCHANGED <<context, store, firmware>>) /\ RunInv(q, x)
  BY DEF Confined, SyncInv
<1>2. ASSUME NEW d \in Devices, d \in y.quiet PROVE Same(d)
  BY <1>1, <1>2 DEF Same, WritesFor
<1>3. ASSUME x.pc = "replace", x.device \in y.quiet PROVE store'[Tmp(FileOf(x))] = store[Tmp(FileOf(x))]
  <2>1. x.device \in Devices /\ FileOf(x) \in Mine(x.device)
    BY <1>1, <1>3, FileOfRun DEF RunInv, RunOK, Working
  <2> QED
    BY <1>1, <1>3, <2>1 DEF WritesFor
<1> HIDE DEF x
<1> QED
  BY <1>1, <1>2, <1>3, LikeKeeps DEF SyncInv

\* The run that takes the step is known by what it becomes.
LEMMA Assembled ==
  ASSUME TypesOK', StoreOK', \A n \in FileNames : TmpOK(n)',
         \A q \in Runs : \A y : y = run'[q] => RunInv(q, y)'
  PROVE  SyncInv'
<1>1. ASSUME NEW q \in Runs PROVE RunInv(q, run[q])'
  <2>1. PICK y : y = run'[q]
    OBVIOUS
  <2>2. RunInv(q, y)'
    BY <2>1
  <2> QED
    BY <2>1, <2>2 DEF RunInv, RunOK, LinkingOK, QuietOK, CleanOK, Clean, WorkOK, FileOf, UpToDate, Targets, Wanted,
                      LinkOK, Served, Ident, Host, Serial
<1> QED
  BY <1>1 DEF SyncInv

LEMMA StepKeeps ==
  ASSUME SyncInv, Fixed, FilesStay, netbox' = netbox, NEW r \in Runs, NEW y, y = run'[r], RunInv(r, y)',
         NEW e, Confined(r, e), WritesFor(e), TypesOK', StoreOK', \A n \in FileNames : TmpOK(n)'
  PROVE  SyncInv'
<1>1. ASSUME NEW q \in Runs, NEW z, z = run'[q] PROVE RunInv(q, z)'
  <2>1. CASE q = r
    <3>1. z = y
      BY <1>1, <2>1
    <3> QED
      BY <2>1, <3>1
  <2>2. CASE q # r
    BY <1>1, <2>2, OthersKeep
  <2> QED
    BY <2>1, <2>2
<1> QED
  BY <1>1, Assembled

-----------------------------------------------------------------------------
(* Temporary files.                                                          *)

LEMMA WritingStays ==
  ASSUME Fixed, NEW q \in Runs, NEW n, run'[q].pc = run[q].pc, run'[q].device = run[q].device, run'[q].read = run[q].read
  PROVE  q \in Writing(n)' <=> q \in Writing(n)
BY DEF Fixed, Writing, FileOf, Ident, Host, Serial

\* A file stays, a temporary one may go, and who writes it goes on or tells.
LEMMA TmpKeeps ==
  ASSUME NEW n \in FileNames, TmpOK(n),
         store'[Tmp(n)] = store[Tmp(n)] \/ store'[Tmp(n)].kind = "absent",
         store'[n] = store[n] \/ store'[n].kind # "partial",
         \A w \in Runs : /\ Told(run[w]) => Told(run'[w])
                         /\ run[w].beside \subseteq run'[w].beside
                         /\ w \in Writing(n)' => w \in Writing(n)
                         /\ w \in Writing(n) => w \in Writing(n)' \/ Told(run'[w])
  PROVE  TmpOK(n)'
<1>1. Tmp(n)' = Tmp(n) /\ Writing(n)' \subseteq Runs
  BY DEF Tmp, Writing
<1>2. \A w : Writer(w, n)' => Writer(w, n)
  BY <1>1 DEF Writer
<1>3. store'[Tmp(n)].kind \in {"absent", "partial"}
  BY DEF TmpOK
<1>4. store'[Tmp(n)].kind = "partial" => \E by \in SUBSET Runs : by # {} /\ store'[Tmp(n)] = Partial(by)
  BY DEF TmpOK
<1>5. \A w \in Runs : Writer(w, n)' => w \in Writing(n)' \/ Told(run'[w])
  BY <1>2 DEF TmpOK
<1>6. \A w \in Runs, q \in Writing(n)' : Writer(w, n)' /\ w # q => n \in run'[w].beside
  BY <1>1, <1>2 DEF TmpOK
<1>7. store'[n].kind = "partial" =>
        \E w \in Runs : n \in run'[w].beside /\ (Told(run'[w]) \/ (w \in Writing(n)' /\ ~Writer(w, n)'))
  <2> SUFFICES ASSUME store'[n].kind = "partial"
               PROVE  \E w \in Runs : /\ n \in run'[w].beside
                                      /\ Told(run'[w]) \/ (w \in Writing(n)' /\ ~Writer(w, n)')
    OBVIOUS
  <2>1. PICK w \in Runs : n \in run[w].beside /\ (Told(run[w]) \/ (w \in Writing(n) /\ ~Writer(w, n)))
    BY DEF TmpOK
  <2> QED
    BY <1>2, <2>1
<1> QED
  BY <1>1, <1>3, <1>4, <1>5, <1>6, <1>7 DEF TmpOK, Told, Partial

\* What runs do to temporary files when r, which writes none, moves ...
LEMMA TmpsStay ==
  ASSUME SyncInv, Fixed, NEW r \in Runs, NEW e, Confined(r, e), run[r].pc # "replace", run'[r].pc # "replace",
         Told(run[r]) => Told(run'[r]), run[r].beside \subseteq run'[r].beside,
         \A n \in FileNames : /\ store'[Tmp(n)] = store[Tmp(n)] \/ store'[Tmp(n)].kind = "absent"
                              /\ store'[n] = store[n] \/ store'[n].kind # "partial"
  PROVE  \A n \in FileNames : TmpOK(n)'
<1> SUFFICES ASSUME NEW n \in FileNames PROVE TmpOK(n)'
  OBVIOUS
<1>1. ASSUME NEW w \in Runs
      PROVE  /\ Told(run[w]) => Told(run'[w])
             /\ run[w].beside \subseteq run'[w].beside
             /\ w \in Writing(n)' <=> w \in Writing(n)
  <2>1. CASE w = r
    BY <2>1 DEF Writing
  <2>2. CASE w # r
    <3>1. Like(run[w], run'[w])
      BY <2>2 DEF Confined
    <3>2. w \in Writing(n)' <=> w \in Writing(n)
      BY <3>1, WritingStays DEF Like
    <3> QED
      BY <3>1, <3>2 DEF Like, Told
  <2> QED
    BY <2>1, <2>2
<1>2. TmpOK(n)
  BY DEF SyncInv
<1> QED
  BY <1>1, <1>2, TmpKeeps

\* ... or ends its writing with a failure.
LEMMA TmpsDropped ==
  ASSUME SyncInv, Fixed, NEW r \in Runs, NEW e, Confined(r, e), Told(run'[r]), run'[r].pc # "replace",
         run[r].beside \subseteq run'[r].beside,
         \A n \in FileNames : /\ store'[Tmp(n)] = store[Tmp(n)] \/ store'[Tmp(n)].kind = "absent"
                              /\ store'[n] = store[n]
  PROVE  \A n \in FileNames : TmpOK(n)'
<1> SUFFICES ASSUME NEW n \in FileNames PROVE TmpOK(n)'
  OBVIOUS
<1>1. ASSUME NEW w \in Runs
      PROVE  /\ Told(run[w]) => Told(run'[w])
             /\ run[w].beside \subseteq run'[w].beside
             /\ w \in Writing(n)' => w \in Writing(n)
             /\ w \in Writing(n) => w \in Writing(n)' \/ Told(run'[w])
  <2>1. CASE w = r
    BY <2>1 DEF Writing
  <2>2. CASE w # r
    <3>1. Like(run[w], run'[w])
      BY <2>2 DEF Confined
    <3>2. w \in Writing(n)' <=> w \in Writing(n)
      BY <3>1, WritingStays DEF Like
    <3> QED
      BY <3>1, <3>2 DEF Like, Told
  <2> QED
    BY <2>1, <2>2
<1>2. TmpOK(n)
  BY DEF SyncInv
<1> QED
  BY <1>1, <1>2, TmpKeeps
-----------------------------------------------------------------------------
(* The steps.                                                                *)

LEMMA SyncStarts == SyncAssumption /\ Init => SyncInv
<1> SUFFICES ASSUME SyncAssumption, Init PROVE SyncInv
  OBVIOUS
<1>1. netbox \in [Devices -> [data : Nat \ {0}, serial : {0, 1}, version : Nat]] /\ MaxEdits \in Nat
  BY DEF SyncAssumption, Init
<1>2. TypesOK
  BY <1>1 DEF Init, TypesOK, Numbers
<1>3. \A n \in Names : store[n].kind = "absent"
  BY DEF Init, Absent
<1>4. \A n \in FileNames : store[n].kind = "absent" /\ store[Tmp(n)].kind = "absent"
  BY <1>3, Temporary
<1>5. StoreOK
  BY <1>4, NamesAreNames DEF StoreOK
<1>6. \A n \in FileNames : TmpOK(n)
  BY <1>4 DEF TmpOK, Writer
<1>7. ASSUME NEW r \in Runs PROVE RunInv(r, run[r])
  <2>1. run[r] = Idle
    BY DEF Init
  <2>2. RunOK(Idle)
    BY DEF Idle, RunOK, RunFields, Working, Grouped
  <2>3. Idle.pc = "idle" /\ Idle.quiet = {}
    BY DEF Idle
  <2> QED
    BY <2>1, <2>2, <2>3 DEF RunInv, LinkingOK, QuietOK, CleanOK, Clean
<1> QED
  BY <1>2, <1>5, <1>6, <1>7 DEF SyncInv

\* Run r moves and writes nothing.
Silent == Fixed /\ UNCHANGED <<netbox, edits, context, store, firmware>>

LEMMA SilentStep ==
  ASSUME SyncInv, Silent, NEW r \in Runs, NEW y, Becomes(r, y), RunInv(r, y)',
         y.pc # "replace", run[r].pc # "replace" \/ Told(y),
         Told(run[r]) => Told(y), run[r].beside \subseteq y.beside
  PROVE  SyncInv'
<1>1. run'[r] = y /\ Confined(r, y.device)
  BY BecomesIs
<1>2. TypesOK'
  BY <1>1 DEF SyncInv, TypesOK, Silent, Confined
<1>3. StoreOK'
  BY DEF SyncInv, StoreOK, Silent, Host, Serial, LinkTo
<1>4. \A n \in FileNames : store'[Tmp(n)] = store[Tmp(n)] /\ store'[n] = store[n]
  BY DEF Silent
<1>5. \A n \in FileNames : TmpOK(n)'
  <2>1. CASE run[r].pc # "replace"
    BY <1>1, <1>4, <2>1, TmpsStay DEF Silent
  <2>2. CASE Told(y)
    BY <1>1, <1>4, <2>2, TmpsDropped DEF Silent
  <2> QED
    BY <2>1, <2>2
<1>6. FilesStay /\ WritesFor(y.device) /\ Fixed /\ netbox' = netbox
  BY DEF Silent, FilesStay, WritesFor
<1> QED
  BY <1>1, <1>2, <1>3, <1>5, <1>6, StepKeeps

LEMMA SilentlySame == ASSUME Silent, NEW d PROVE Same(d)
BY DEF Silent, Same

\* A run that has not asked yet, or is through with its devices.
LEMMA Aside ==
  ASSUME NEW r, NEW y, RunOK(y), y.pc \in {"query", "finish", "finished", "killed"},
         y.pc = "query" => y.quiet = {},
         \A d \in Devices : y.pc \in {"finish", "finished"} /\ Clean(y, d) /\ d \in Targets(y.target) =>
                              UpToDate(y.target, d)'
  PROVE  RunInv(r, y)'
<1>1. y.pc \notin Working /\ y.pc \notin Grouped /\ y.pc \notin Reading /\ y.pc # "group" /\ y.pc # "link"
  BY DEF Working, Grouped, Reading
<1>2. RunOK(y)' /\ LinkingOK(y)'
  BY <1>1 DEF RunOK, LinkingOK
<1>3. ASSUME NEW d \in Devices PROVE QuietOK(y, d)' /\ CleanOK(r, y, d)'
  BY <1>1, <1>3 DEF QuietOK, CleanOK, Clean, Targets
<1> QED
  BY <1>2, <1>3 DEF RunInv

LEMMA StartStep ==
  ASSUME SyncInv, NEW r \in Runs, NEW target, Start(r, target)
  PROVE  SyncInv'
<1>1. PICK y : y = [Idle EXCEPT !.pc = "query", !.target = target]
  OBVIOUS
<1>2. Becomes(r, y) /\ Silent /\ run[r].pc = "idle"
  BY <1>1 DEF Start, Silent, Fixed
<1>3. /\ DOMAIN y = RunFields /\ y.pc = "query" /\ y.todo = {} /\ y.beside = {} /\ y.quiet = {}
      /\ DOMAIN y.read = Devices /\ DOMAIN y.cache = Devices
      /\ \A d \in Devices : y.read[d].serial = 0 /\ DOMAIN y.read[d].context = {"sonic", "sibling"}
  BY <1>1 DEF Idle, RunFields
<1>4. RunOK(y)
  BY <1>3 DEF RunOK, Working, Grouped
<1>5. RunInv(r, y)'
  BY <1>3, <1>4, Aside
<1>6. ~Told(run[r]) /\ run[r].beside = {}
  BY <1>2 DEF SyncInv, RunInv, RunOK, Told
<1> QED
  BY <1>2, <1>3, <1>5, <1>6, SilentStep

LEMMA QueryStep ==
  ASSUME SyncInv, NEW r \in Runs, Query(r)
  PROVE  SyncInv'
<1> DEFINE x == run[r]
<1>1. x.pc = "query" /\ Silent /\ RunOK(x) /\ DOMAIN x = RunFields
  BY DEF Query, Silent, Fixed, SyncInv, RunInv, RunOK
<1> HIDE DEF x
<1>2. CASE /\ x.target = All \/ x.target \in SonicDevices
           /\ Becomes(r, [x EXCEPT !.pc = "group", !.read = Answer, !.quiet = Devices,
                                   !.todo = IF x.target = All THEN SonicDevices ELSE {x.target}])
  <2>1. PICK y : y = [x EXCEPT !.pc = "group", !.read = Answer, !.quiet = Devices,
                               !.todo = IF x.target = All THEN SonicDevices ELSE {x.target}]
    OBVIOUS
  <2>2. /\ DOMAIN y = RunFields /\ y.pc = "group" /\ y.read = Answer /\ y.cache = x.cache
        /\ y.todo = (IF x.target = All THEN SonicDevices ELSE {x.target})
        /\ y.target = x.target /\ y.rc = x.rc /\ y.beside = x.beside
    BY <1>1, <2>1 DEF RunFields
  <2>3. /\ DOMAIN Answer = Devices
        /\ \A d \in Devices : /\ Answer[d].context = context[d] /\ Answer[d].serial = netbox[d].serial
                              /\ Answer[d].version = netbox[d].version
    BY DEF Answer
  <2>4. "group" \notin Working /\ "group" \notin Grouped
    BY DEF Working, Grouped
  <2>5. RunOK(y)
    <3>1. y.todo \subseteq Devices
      BY <1>2, <2>2 DEF SonicDevices
    <3> QED
      BY <1>1, <2>2, <2>3, <2>4, <3>1 DEF RunOK, SyncInv, TypesOK
  <2>6. ASSUME NEW d \in Devices PROVE QuietOK(y, d)' /\ CleanOK(r, y, d)'
    <3>1. QuietOK(y, d)'
      BY <1>1, <2>2, <2>3 DEF QuietOK, Silent
    <3>2. d \in Targets(y.target) => d \in y.todo
      BY <1>2, <2>2 DEF Targets
    <3> QED
      BY <2>2, <2>4, <3>1, <3>2 DEF CleanOK, Targets
  <2>7. RunInv(r, y)'
    BY <2>2, <2>5, <2>6 DEF RunInv, RunOK, LinkingOK
  <2>8. Told(x) => Told(y)
    BY <1>1, <2>2 DEF Told
  <2> QED
    BY <1>1, <1>2, <2>1, <2>2, <2>7, <2>8, SilentStep DEF x
<1>3. CASE \/ Becomes(r, [x EXCEPT !.pc = "finish", !.rc = 1])
           \/ Becomes(r, [x EXCEPT !.pc = "finish", !.swallowed = @ \cup Devices])
  <2>1. PICK y : Becomes(r, y) /\ (\/ y = [x EXCEPT !.pc = "finish", !.rc = 1]
                                   \/ y = [x EXCEPT !.pc = "finish", !.swallowed = @ \cup Devices])
    BY <1>3
  <2>2. /\ DOMAIN y = RunFields /\ y.pc = "finish" /\ y.read = x.read /\ y.cache = x.cache
        /\ y.todo = x.todo /\ y.beside = x.beside /\ (Devices \subseteq y.swallowed \/ y.rc = 1) /\ (x.rc = 1 => y.rc = 1)
    BY <1>1, <2>1 DEF RunFields
  <2>3. RunOK(y)
    BY <1>1, <2>2 DEF RunOK, Working, Grouped
  <2>4. RunInv(r, y)'
    BY <2>2, <2>3, Aside DEF Clean
  <2>5. Told(x) => Told(y)
    BY <1>1, <2>2 DEF Told
  <2> QED
    BY <1>1, <2>1, <2>2, <2>4, <2>5, SilentStep DEF x
<1> QED
  BY <1>2, <1>3 DEF Query, Fail, Swallow, x

LEMMA GroupStep ==
  ASSUME SyncInv, NEW r \in Runs, Group(r)
  PROVE  SyncInv'
<1> DEFINE x == run[r]
           considered == Considered(x.target)
           Read(dark) == [d \in Devices |-> IF d \in dark THEN 0
                                            ELSE IF d \in considered THEN netbox[d].data ELSE -1]
<1>1. x.pc = "group" /\ Silent /\ RunInv(r, x) /\ RunOK(x) /\ DOMAIN x = RunFields
  BY DEF Group, Silent, Fixed, SyncInv, RunInv, RunOK
<1>2. "group" \in Reading /\ "next" \in Grouped /\ "next" \notin Working
  BY DEF Reading, Grouped, Working
<1>3. CASE \E dark \in SUBSET considered :
             Becomes(r, [x EXCEPT !.pc = "next", !.cache = Read(dark),
                                  !.swallowed = @ \cup UNION {Concerned(d) : d \in dark}])
  <2>1. PICK dark \in SUBSET considered :
          Becomes(r, [x EXCEPT !.pc = "next", !.cache = Read(dark),
                               !.swallowed = @ \cup UNION {Concerned(d) : d \in dark}])
    BY <1>3
  <2>2. PICK cache : cache = Read(dark)
    OBVIOUS
  <2>3. PICK y : y = [x EXCEPT !.pc = "next", !.cache = cache,
                               !.swallowed = @ \cup UNION {Concerned(d) : d \in dark}]
    OBVIOUS
  <2>4. /\ DOMAIN cache = Devices
        /\ \A d \in Devices : cache[d] \in {-1, netbox[d].data} \/ (d \in dark /\ cache[d] = 0)
        /\ \A d \in Devices : cache[d] = 0 => d \in dark
    BY <2>2 DEF SyncInv, TypesOK
  <2> HIDE DEF Read, considered, x
  <2>5. /\ DOMAIN y = RunFields /\ y.pc = "next" /\ y.read = x.read /\ y.cache = cache /\ y.todo = x.todo
        /\ y.quiet = x.quiet /\ y.rc = x.rc /\ y.target = x.target /\ y.beside = x.beside
        /\ y.swallowed = x.swallowed \cup UNION {Concerned(d) : d \in dark}
    BY <1>1, <2>3 DEF RunFields
  <2>6. \A d \in dark : Concerned(d) \subseteq y.swallowed /\ d \in Concerned(d)
    BY <2>5 DEF Concerned
  <2>7. RunOK(y)
    BY <1>1, <1>2, <2>4, <2>5, <2>6 DEF RunOK
  <2>8. ASSUME NEW d \in Devices PROVE QuietOK(y, d)' /\ CleanOK(r, y, d)'
    <3>1. QuietOK(y, d)'
      BY <1>1, <1>2, <2>5 DEF RunInv, QuietOK, Silent
    <3>2. Clean(y, d) => Clean(x, d) /\ cache[d] \in {-1, netbox[d].data}
      BY <2>4, <2>5, <2>6 DEF Clean
    <3>3. Clean(x, d) /\ d \in Targets(x.target) => d \in x.todo
      BY <1>1 DEF RunInv, CleanOK
    <3> QED
      BY <1>1, <1>2, <2>5, <3>1, <3>2, <3>3 DEF CleanOK, Clean, Silent, Targets
  <2>9. RunInv(r, y)'
    BY <2>5, <2>7, <2>8 DEF RunInv, RunOK, LinkingOK
  <2>10. Told(x) => Told(y)
    BY <1>1, <2>5 DEF Told
  <2> QED
    BY <1>1, <2>1, <2>2, <2>3, <2>5, <2>9, <2>10, SilentStep DEF x
<1>4. CASE Becomes(r, [x EXCEPT !.pc = "finish", !.swallowed = @ \cup Devices])
  <2> HIDE DEF x
  <2>1. PICK y : Becomes(r, y) /\ y = [x EXCEPT !.pc = "finish", !.swallowed = @ \cup Devices]
    BY <1>4
  <2>2. /\ DOMAIN y = RunFields /\ y.pc = "finish" /\ y.read = x.read /\ y.cache = x.cache
        /\ y.todo = x.todo /\ y.beside = x.beside /\ Devices \subseteq y.swallowed /\ y.rc = x.rc
    BY <1>1, <2>1 DEF RunFields
  <2>3. RunOK(y)
    BY <1>1, <2>2 DEF RunOK, Working, Grouped
  <2>4. RunInv(r, y)'
    BY <2>2, <2>3, Aside DEF Clean
  <2>5. Told(x) => Told(y)
    BY <1>1, <2>2 DEF Told
  <2> QED
    BY <1>1, <2>1, <2>2, <2>4, <2>5, SilentStep DEF x
<1> QED
  BY <1>3, <1>4 DEF Group, Swallow

\* The run is over, or there are no more devices.
LEMMA FinishStep ==
  ASSUME SyncInv, NEW r \in Runs, Finish(r) \/ NoMoreDevices(r) \/ Kill(r)
  PROVE  SyncInv'
<1>0. PICK x : x = run[r]
  OBVIOUS
<1>1. Silent /\ RunInv(r, x) /\ RunOK(x) /\ DOMAIN x = RunFields
  BY <1>0 DEF Finish, NoMoreDevices, Kill, Silent, Fixed, SyncInv, RunInv, RunOK
<1>2. PICK y : /\ Becomes(r, y)
               /\ \/ /\ x.pc = "next" /\ x.todo = {} /\ y = [x EXCEPT !.pc = "finish"]
                  \/ /\ x.pc = "finish"
                     /\ y = [Idle EXCEPT !.pc = "finished", !.target = x.target, !.rc = x.rc,
                                         !.quiet = x.quiet, !.swallowed = x.swallowed, !.beside = x.beside]
                  \/ y = [Idle EXCEPT !.pc = "killed", !.beside = x.beside]
  BY <1>0 DEF Finish, NoMoreDevices, Kill, Goto
<1>3. /\ DOMAIN y = RunFields /\ y.beside = x.beside /\ y.pc \in {"finish", "finished", "killed"}
      /\ y.pc # "killed" => /\ x.pc = "finish" \/ (x.pc = "next" /\ x.todo = {})
                            /\ y.target = x.target /\ y.rc = x.rc /\ y.quiet = x.quiet /\ y.swallowed = x.swallowed
      /\ \/ y.read = x.read /\ y.cache = x.cache /\ y.todo = x.todo
         \/ y.read = Idle.read /\ y.cache = Idle.cache /\ y.todo = {}
  BY <1>1, <1>2 DEF Idle, RunFields
<1>4. RunOK(y)
  <2>1. /\ DOMAIN Idle.read = Devices /\ DOMAIN Idle.cache = Devices
        /\ \A d \in Devices : Idle.read[d].serial = 0 /\ DOMAIN Idle.read[d].context = {"sonic", "sibling"}
    BY DEF Idle
  <2> QED
    BY <1>1, <1>3, <2>1 DEF RunOK, Working, Grouped
<1>5. ASSUME NEW d \in Devices, y.pc \in {"finish", "finished"}, Clean(y, d), d \in Targets(y.target)
      PROVE  UpToDate(y.target, d)'
  <2>1. Clean(x, d) /\ d \in Targets(x.target)
    BY <1>3, <1>5 DEF Clean
  <2>2. UpToDate(x.target, d)
    BY <1>1, <1>3, <1>5, <2>1 DEF RunInv, CleanOK, Grouped, Working
  <2>3. UpToDate(x.target, d)'
    BY <1>1, <2>2, SilentlySame, UpToDateStays DEF Silent, SyncInv
  <2>4. y.target = x.target
    BY <1>3, <1>5
  <2> QED
    BY <2>3, <2>4
<1>6. RunInv(r, y)'
  BY <1>3, <1>4, <1>5, Aside
<1>7. (x.pc # "replace" \/ Told(y)) /\ (Told(x) => Told(y))
  BY <1>3 DEF Told
<1> QED
  BY <1>0, <1>1, <1>2, <1>3, <1>6, <1>7, SilentStep
-----------------------------------------------------------------------------
(* A run that works with its devices.                                        *)

\* Run x becomes y over device e.
Moves(x, y, e) ==
  /\ x.pc \in Grouped /\ y.pc \in Grouped /\ DOMAIN y = RunFields
  /\ x.pc \in Working => x.device = e
  /\ y.device = e /\ y.target = x.target /\ y.todo = x.todo \ {e} /\ y.read = x.read
  /\ DOMAIN y.cache = Devices /\ \A d \in Devices \ {e} : y.cache[d] = x.cache[d]
  /\ y.quiet \subseteq x.quiet /\ x.swallowed \subseteq y.swallowed /\ (y.rc = 0 => x.rc = 0)

LEMMA MovesOK ==
  ASSUME TypesOK, StoreOK, Fixed, netbox' = netbox, NEW r, NEW x, NEW y, NEW e \in Devices, RunInv(r, x),
         Moves(x, y, e), WritesFor(e), y.cache[e] = 0 => Concerned(e) \subseteq y.swallowed,
         LinkingOK(y)',
         e \in y.quiet /\ y.pc \in {"generate", "save"} => x.read[e].context = context'[e],
         Clean(y, e) => /\ y.cache[e] \in {-1, netbox[e].data}
                        /\ y.pc # "next" => WorkOK(r, y, e)'
                        /\ y.pc = "next" /\ e \in Targets(y.target) => UpToDate(y.target, e)'
  PROVE  RunInv(r, y)'
<1>1. RunOK(x) /\ x.pc \in Reading /\ y.pc \in Reading /\ x.pc \notin {"idle", "group"} /\ y.pc \notin {"idle", "group"}
  BY DEF RunInv, Moves, Reading, Grouped, Working
<1>2. RunOK(y)'
  <2>1. \A d \in Devices : y.cache[d] = 0 => Concerned(d) \subseteq y.swallowed
    BY <1>1 DEF RunOK, Moves
  <2> QED
    BY <1>1, <2>1 DEF RunOK, Moves, Numbers, Concerned
<1>3. ASSUME NEW d \in Devices PROVE QuietOK(y, d)' /\ CleanOK(r, y, d)'
  <2>1. QuietOK(x, d) /\ CleanOK(r, x, d)
    BY DEF RunInv
  <2>2. CASE d = e
    <3>1. QuietOK(y, d)'
      BY <1>1, <2>1, <2>2 DEF QuietOK, Moves
    <3>2. y.pc \in Grouped /\ (y.pc \in Working <=> y.pc # "next")
      BY DEF Moves, Grouped, Working
    <3>3. y.device = d
      BY <2>2 DEF Moves
    <3> QED
      BY <1>1, <2>2, <3>1, <3>2, <3>3 DEF CleanOK, Clean, Targets
  <2>3. CASE d # e
    <3>1. Same(d)
      BY <2>3 DEF Same, WritesFor
    <3>2. QuietOK(y, d)'
      BY <1>1, <2>1, <2>3, <3>1 DEF QuietOK, Moves, Same
    <3>3. CleanOK(r, y, d)'
      <4>1. SUFFICES ASSUME Clean(y, d) PROVE CleanOK(r, y, d)'
        BY DEF CleanOK, Clean
      <4>2. Clean(x, d)
        BY <4>1 DEF Clean, Moves
      <4>3. y.cache[d] \in {-1, netbox'[d].data}
        BY <2>1, <2>3, <4>2 DEF CleanOK, Moves
      <4>4. d \in Targets(y.target) => d \in y.todo \/ UpToDate(y.target, d)'
        <5>1. d \in Targets(x.target) => d \in x.todo \/ UpToDate(x.target, d)
          BY <2>1, <2>3, <4>2 DEF CleanOK, Moves
        <5>2. UpToDate(x.target, d) => UpToDate(x.target, d)'
          BY <3>1, UpToDateStays
        <5>3. y.target = x.target /\ y.todo = x.todo \ {e}
          BY DEF Moves
        <5> QED
          BY <2>3, <5>1, <5>2, <5>3
      <4>5. y.device # d /\ y.pc \in Grouped
        BY <2>3 DEF Moves
      <4> QED
        BY <1>1, <4>3, <4>4, <4>5 DEF CleanOK, Targets
    <3> QED
      BY <3>2, <3>3
  <2> QED
    BY <2>2, <2>3
<1> QED
  BY <1>2, <1>3 DEF RunInv

\* What goes wrong is told, or is kept from the properties: then nothing is promised.
GaveUp(x, y, e) ==
  \/ y = [x EXCEPT !.pc = "next", !.rc = 1]
  \/ y = [x EXCEPT !.pc = "next", !.swallowed = @ \cup {e}]

LEMMA GivesUp ==
  ASSUME TypesOK, StoreOK, Fixed, netbox' = netbox, NEW r, NEW x, NEW y, NEW e \in Devices, RunInv(r, x),
         x.pc \in Working, x.device = e, WritesFor(e),
         GaveUp(x, y, e)
  PROVE  RunInv(r, y)' /\ y.pc = "next" /\ y.device = e /\ y.beside = x.beside /\ (Told(x) => Told(y))
<1>1. DOMAIN x = RunFields /\ DOMAIN x.cache = Devices /\ x.pc \in Grouped /\ e \notin x.todo /\ "next" \in Grouped
  BY DEF RunInv, RunOK, Grouped
<1>2. /\ DOMAIN y = RunFields /\ y.pc = "next" /\ y.device = e /\ y.target = x.target /\ y.todo = x.todo
      /\ y.read = x.read /\ y.cache = x.cache /\ y.quiet = x.quiet /\ x.swallowed \subseteq y.swallowed
      /\ y.beside = x.beside /\ (y.rc = 1 \/ e \in y.swallowed) /\ (y.rc = 1 \/ y.rc = x.rc)
  <2>1. CASE y = [x EXCEPT !.pc = "next", !.rc = 1]
    BY <1>1, <2>1 DEF RunFields
  <2>2. CASE y = [x EXCEPT !.pc = "next", !.swallowed = @ \cup {e}]
    BY <1>1, <2>2 DEF RunFields
  <2> QED
    BY <2>1, <2>2 DEF GaveUp
<1>3. Moves(x, y, e)
  BY <1>1, <1>2 DEF Moves
<1>4. ~Clean(y, e)
  BY <1>2 DEF Clean
<1>5. LinkingOK(y)'
  BY <1>2 DEF LinkingOK
<1>6. y.cache[e] = 0 => Concerned(e) \subseteq y.swallowed
  BY <1>1, <1>2 DEF RunInv, RunOK
<1>7. x.pc # "killed" /\ (Told(x) => Told(y))
  BY <1>2 DEF Told, Working
<1> QED
  BY <1>2, <1>3, <1>4, <1>5, <1>6, <1>7, MovesOK

\* It goes on with the device, or is done with it.
LEMMA GoesOn ==
  ASSUME TypesOK, StoreOK, Fixed, netbox' = netbox, NEW r, NEW x, NEW y, NEW e \in Devices, RunInv(r, x),
         x.pc \in Working, x.device = e, WritesFor(e), DOMAIN y = RunFields,
         y.pc \in {"export", "open", "replace", "link", "next"}, y.device = e, y.target = x.target,
         y.todo = x.todo, y.read = x.read, y.cache = x.cache, y.config = x.config, y.quiet \subseteq x.quiet,
         y.swallowed = x.swallowed, y.rc = x.rc, LinkingOK(y)',
         Clean(y, e) => /\ y.pc # "next" => WorkOK(r, y, e)'
                        /\ y.pc = "next" /\ e \in Targets(y.target) => UpToDate(y.target, e)'
  PROVE  RunInv(r, y)' /\ (Told(x) => Told(y))
<1>1. DOMAIN x = RunFields /\ DOMAIN x.cache = Devices /\ x.pc \in Grouped /\ e \notin x.todo /\ y.pc \in Grouped
  BY DEF RunInv, RunOK, Grouped, Working
<1>2. Moves(x, y, e)
  BY <1>1 DEF Moves
<1>3. Clean(y, e) => Clean(x, e)
  BY DEF Clean
<1>4. Clean(y, e) => y.cache[e] \in {-1, netbox[e].data}
  BY <1>1, <1>3 DEF RunInv, CleanOK
<1>5. y.cache[e] = 0 => Concerned(e) \subseteq y.swallowed
  BY <1>1 DEF RunInv, RunOK
<1>6. x.pc # "killed" /\ (Told(x) => Told(y))
  BY DEF Told, Working
<1> QED
  BY <1>2, <1>4, <1>5, <1>6, MovesOK

\* What a clean run has of its device.
LEMMA CleanWork ==
  ASSUME NEW r, NEW x, RunInv(r, x), x.pc \in Working, Clean(x, x.device)
  PROVE  WorkOK(r, x, x.device) /\ x.device \in Devices
BY DEF RunInv, RunOK, CleanOK

\* What is right about it, if nobody writes the firmware link.
LEMMA WorkStays ==
  ASSUME TypesOK, Fixed, netbox' = netbox, firmware' = firmware, NEW r, NEW x, NEW y, NEW e \in Devices,
         WorkOK(r, x, e), x.pc # "generate", y.config = x.config, y.target = x.target
  PROVE  LinkOK(e)' /\ y.config = Wanted(y.target, e)' /\ y.config = Wanted(x.target, e)
<1>1. LinkOK(e)'
  BY LinkStays DEF WorkOK
<1>2. Wanted(x.target, e)' = Wanted(x.target, e) /\ x.config = Wanted(x.target, e)
  BY WantedStays DEF WorkOK
<1>3. Wanted(y.target, e)' = Wanted(x.target, e)'
  BY DEF Wanted
<1> QED
  BY <1>1, <1>2, <1>3
-----------------------------------------------------------------------------
(* The steps over a device.                                                  *)

LEMMA StoreStays ==
  ASSUME SyncInv, Fixed, UNCHANGED <<netbox, edits, store>>, NEW r \in Runs, NEW y, Becomes(r, y), RunInv(r, y)',
         WritesFor(y.device), y.pc # "replace", run[r].pc # "replace",
         Told(run[r]) => Told(y), run[r].beside \subseteq y.beside, DOMAIN firmware' = FileNames,
         DOMAIN context' = Devices, \A d \in Devices : DOMAIN context'[d] = {"sonic", "sibling"}
  PROVE  SyncInv'
<1>1. run'[r] = y /\ Confined(r, y.device)
  BY BecomesIs
<1>2. TypesOK'
  BY <1>1 DEF SyncInv, TypesOK, Confined
<1>3. StoreOK'
  BY DEF SyncInv, StoreOK, Host, Serial, LinkTo
<1>4. \A n \in FileNames : TmpOK(n)'
  BY <1>1, TmpsStay
<1>5. FilesStay
  BY DEF FilesStay
<1> QED
  BY <1>1, <1>2, <1>3, <1>4, <1>5, StepKeeps

\* The firmware link of a device.
LEMMA Firmware ==
  ASSUME TypesOK, NEW d \in Devices, NEW r, export_firmware_link(r, d), Fixed, netbox' = netbox,
         run[r].read[d].serial = netbox[d].serial, run[r].read[d].version = netbox[d].version
  PROVE  LinkOK(d)'
<1> DEFINE n == Ident(d, netbox[d].serial)
<1>1. n' = n /\ n \in FileNames
  BY IdentStays, Identified, MineAreFiles DEF TypesOK, Fixed, Ident, Host, Serial
<1>2. \/ netbox[d].version # 0 /\ firmware' = [firmware EXCEPT ![n] = Image(netbox[d].version)]
      \/ netbox[d].version = 0 /\ firmware' = [firmware EXCEPT ![n] = Nothing]
      \/ netbox[d].version = 0 /\ firmware[n].kind # "image" /\ firmware' = firmware
  BY DEF export_firmware_link
<1>3. IF netbox[d].version # 0 THEN firmware'[n] = Image(netbox[d].version) ELSE firmware'[n].kind # "image"
  BY <1>1, <1>2 DEF TypesOK, Nothing
<1> HIDE DEF n
<1>4. LinkOK(d)' <=> IF netbox'[d].version # 0 THEN firmware'[n'] = Image(netbox'[d].version) ELSE firmware'[n'].kind # "image"
  BY DEF LinkOK, n, Image
<1> QED
  BY <1>1, <1>3, <1>4

LEMMA FirmwareElsewhere ==
  ASSUME NEW r, NEW d \in Devices, DOMAIN firmware = FileNames, run[r].read[d].serial \in Numbers \cup {0},
         \/ export_firmware_link(r, d)
         \/ firmware' = firmware
         \/ firmware' = [firmware EXCEPT ![Ident(d, run[r].read[d].serial)] = Nothing]
  PROVE  DOMAIN firmware' = FileNames /\ \A n \in FileNames \ Mine(d) : firmware'[n] = firmware[n]
<1>1. PICK n \in Mine(d) : n = Ident(d, run[r].read[d].serial)
  BY Identified
<1>2. firmware' = firmware \/ \E v : firmware' = [firmware EXCEPT ![n] = v]
  BY <1>1 DEF export_firmware_link
<1> QED
  BY <1>2

LEMMA NextStep ==
  ASSUME SyncInv, NEW r \in Runs, NEW d \in Devices, NextDevice(r, d)
  PROVE  SyncInv'
<1>1. PICK x : x = run[r]
  OBVIOUS
<1>2. /\ x.pc = "next" /\ d \in x.todo /\ Fixed /\ UNCHANGED <<netbox, edits, context, store>>
      /\ RunInv(r, x) /\ RunOK(x) /\ DOMAIN x = RunFields
  BY <1>1 DEF NextDevice, Fixed, SyncInv, RunInv, RunOK
<1>3. PICK rc : /\ Becomes(r, [x EXCEPT !.pc = Gate(d), !.todo = @ \ {d}, !.device = d, !.rc = rc])
                /\ \/ rc = x.rc /\ export_firmware_link(r, d)
                   \/ rc = 1 /\ (\/ firmware' = firmware
                                 \/ firmware' = [firmware EXCEPT ![Ident(d, x.read[d].serial)] = Nothing])
  BY <1>1 DEF NextDevice
<1>4. PICK y : y = [x EXCEPT !.pc = Gate(d), !.todo = @ \ {d}, !.device = d, !.rc = rc]
  OBVIOUS
<1>5. /\ DOMAIN y = RunFields /\ y.pc = Gate(d) /\ y.device = d /\ y.target = x.target /\ y.todo = x.todo \ {d}
      /\ y.read = x.read /\ y.cache = x.cache /\ y.quiet = x.quiet /\ y.swallowed = x.swallowed
      /\ y.beside = x.beside /\ y.rc = rc
  BY <1>2, <1>4 DEF RunFields
<1>6. \/ Gate(d) = "generate" /\ d \in Supported
      \/ Gate(d) = "next" /\ d \notin Supported
  BY DEF Gate
<1>7. TypesOK /\ StoreOK /\ x.read[d].serial \in Numbers \cup {0} /\ DOMAIN firmware = FileNames
  BY <1>2 DEF RunOK, SyncInv, TypesOK
<1>8. DOMAIN firmware' = FileNames /\ \A n \in FileNames \ Mine(d) : firmware'[n] = firmware[n]
  BY <1>1, <1>3, <1>7, FirmwareElsewhere
<1>9. WritesFor(d)
  BY <1>2, <1>8, Apart, MineAreFiles DEF WritesFor
<1>10. Moves(x, y, d)
  <2>1. x.pc \in Grouped /\ x.pc \notin Working /\ y.pc \in Grouped
    BY <1>2, <1>5, <1>6 DEF Grouped, Working
  <2>2. (rc = 0 => x.rc = 0) /\ DOMAIN x.cache = Devices
    BY <1>2, <1>3 DEF RunOK
  <2> QED
    BY <1>5, <2>1, <2>2 DEF Moves
<1>11. LinkingOK(y)'
  BY <1>5, <1>6 DEF LinkingOK
<1>12. y.cache[d] = 0 => Concerned(d) \subseteq y.swallowed
  BY <1>2, <1>5 DEF RunOK, Grouped
<1>13. d \in y.quiet => /\ x.read[d].serial = netbox[d].serial /\ x.read[d].version = netbox[d].version
                        /\ x.read[d].context = context'[d]
  BY <1>2, <1>5 DEF RunInv, QuietOK, Reading, Grouped
<1>14. Clean(y, d) => /\ y.cache[d] \in {-1, netbox[d].data}
                      /\ y.pc # "next" => WorkOK(r, y, d)'
                      /\ y.pc = "next" /\ d \in Targets(y.target) => UpToDate(y.target, d)'
  <2> SUFFICES ASSUME Clean(y, d)
               PROVE  /\ y.cache[d] \in {-1, netbox[d].data}
                      /\ y.pc # "next" => WorkOK(r, y, d)'
                      /\ y.pc = "next" /\ d \in Targets(y.target) => UpToDate(y.target, d)'
    OBVIOUS
  <2>1. Clean(x, d) /\ export_firmware_link(r, d) /\ d \in y.quiet
    BY <1>3, <1>5, <1>10 DEF Clean, Moves
  <2>2. y.cache[d] \in {-1, netbox[d].data}
    BY <1>2, <1>5, <2>1 DEF RunInv, CleanOK, Grouped
  <2>3. LinkOK(d)'
    BY <1>1, <1>2, <1>7, <1>13, <2>1, Firmware
  <2>4. y.pc # "next" => WorkOK(r, y, d)'
    BY <1>5, <1>6, <2>3 DEF WorkOK
  <2>5. y.pc = "next" => UpToDate(y.target, d)'
    BY <1>5, <1>6, <2>3 DEF UpToDate, LinkOK
  <2> QED
    BY <2>2, <2>4, <2>5
<1>15. RunInv(r, y)'
  BY <1>2, <1>7, <1>9, <1>10, <1>11, <1>12, <1>13, <1>14, MovesOK
<1>16. y.pc # "replace" /\ (Told(x) => Told(y))
  BY <1>2, <1>3, <1>5, <1>6 DEF Told
<1>17. DOMAIN context' = Devices /\ \A e \in Devices : DOMAIN context'[e] = {"sonic", "sibling"}
  BY <1>2, <1>7 DEF TypesOK
<1> QED
  BY <1>1, <1>2, <1>3, <1>4, <1>5, <1>8, <1>9, <1>15, <1>16, <1>17, StoreStays

LEMMA GenerateStep ==
  ASSUME SyncAssumption, SpinesAssumption, SyncInv, NEW r \in Runs, Generate(r)
  PROVE  SyncInv'
<1>1. PICK x : x = run[r]
  OBVIOUS
<1>2. PICK d : d = x.device
  OBVIOUS
<1>3. PICK data : data = IF x.cache[d] = -1 THEN netbox[d].data ELSE x.cache[d]
  OBVIOUS
<1>4. x.pc = "generate" /\ Silent /\ RunInv(r, x) /\ RunOK(x) /\ DOMAIN x = RunFields /\ TypesOK /\ StoreOK
  BY <1>1 DEF Generate, Silent, Fixed, SyncInv, RunInv, RunOK
<1>5. PICK as : as = AsNumber(d, x.target, Dark(x))
  OBVIOUS
<1>6. PICK y : /\ Becomes(r, y)
               /\ \/ y = [x EXCEPT !.pc = "save", !.cache[d] = data, !.config = [data |-> data, as |-> as]]
                  \/ y = [x EXCEPT !.pc = "save", !.cache[d] = 0, !.config = [data |-> 0, as |-> as],
                                   !.swallowed = @ \cup Concerned(d)]
                  \/ y = [x EXCEPT !.pc = "next", !.rc = 1]
  <2>1. \/ Becomes(r, [x EXCEPT !.pc = "save", !.cache[d] = data, !.config = [data |-> data, as |-> as]])
        \/ Becomes(r, [x EXCEPT !.pc = "save", !.cache[d] = 0, !.config = [data |-> 0, as |-> as],
                                !.swallowed = @ \cup Concerned(d)])
        \/ Becomes(r, [x EXCEPT !.pc = "next", !.rc = 1])
    BY <1>1, <1>2, <1>3, <1>5 DEF Generate, Fail
  <2> QED
    BY <2>1
<1>7. d \in Devices \ x.todo /\ x.pc \in Working /\ x.pc \in Grouped /\ x.pc \in Reading
  BY <1>2, <1>4 DEF RunOK, Working, Grouped, Reading
<1>8. WritesFor(d) /\ Fixed /\ netbox' = netbox /\ context' = context
  BY <1>4 DEF WritesFor, Silent
<1>9. CASE y = [x EXCEPT !.pc = "next", !.rc = 1]
  <2>1. RunInv(r, y)' /\ y.pc = "next" /\ y.beside = x.beside /\ (Told(x) => Told(y))
    <3>1. GaveUp(x, y, d) /\ d \in Devices /\ x.device = d
      BY <1>2, <1>7, <1>9 DEF GaveUp
    <3> QED
      BY <1>4, <1>7, <1>8, <3>1, GivesUp
  <2> QED
    BY <1>1, <1>4, <1>6, <2>1, SilentStep
<1>10. CASE \/ y = [x EXCEPT !.pc = "save", !.cache[d] = data, !.config = [data |-> data, as |-> as]]
            \/ y = [x EXCEPT !.pc = "save", !.cache[d] = 0, !.config = [data |-> 0, as |-> as],
                             !.swallowed = @ \cup Concerned(d)]
  <2>1. /\ DOMAIN y = RunFields /\ y.pc = "save" /\ y.device = d /\ y.target = x.target /\ y.todo = x.todo
        /\ y.read = x.read /\ y.quiet = x.quiet /\ y.rc = x.rc /\ y.beside = x.beside
        /\ DOMAIN y.cache = Devices /\ \A e \in Devices \ {d} : y.cache[e] = x.cache[e]
        /\ \/ y.cache[d] = data /\ y.config = [data |-> data, as |-> as] /\ y.swallowed = x.swallowed
           \/ y.cache[d] = 0 /\ y.swallowed = x.swallowed \cup Concerned(d)
    <3>1. DOMAIN x.cache = Devices
      BY <1>4 DEF RunOK
    <3>2. CASE y = [x EXCEPT !.pc = "save", !.cache[d] = data, !.config = [data |-> data, as |-> as]]
      BY <1>2, <1>4, <1>7, <3>1, <3>2 DEF RunFields
    <3>3. CASE y = [x EXCEPT !.pc = "save", !.cache[d] = 0, !.config = [data |-> 0, as |-> as],
                             !.swallowed = @ \cup Concerned(d)]
      BY <1>2, <1>4, <1>7, <3>1, <3>3 DEF RunFields
    <3> QED
      BY <1>10, <3>2, <3>3
  <2>2. Moves(x, y, d)
    <3>1. y.pc \in Grouped
      BY <2>1 DEF Grouped, Working
    <3> QED
      BY <1>2, <1>7, <2>1, <3>1 DEF Moves
  <2>3. y.cache[d] = 0 => Concerned(d) \subseteq y.swallowed
    <3>1. data = 0 => x.cache[d] = 0
      BY <1>3, <1>7, <1>4 DEF TypesOK
    <3>2. x.cache[d] = 0 => Concerned(d) \subseteq x.swallowed
      BY <1>4, <1>7 DEF RunOK
    <3> QED
      BY <2>1, <3>1, <3>2
  <2>4. LinkingOK(y)'
    BY <2>1 DEF LinkingOK
  <2>5. d \in y.quiet => x.read[d].context = context'[d]
    BY <1>2, <1>4, <1>7, <1>8, <2>1 DEF RunInv, QuietOK
  <2>6. Clean(y, d) => y.cache[d] \in {-1, netbox[d].data} /\ WorkOK(r, y, d)'
    <3> SUFFICES ASSUME Clean(y, d) PROVE y.cache[d] \in {-1, netbox[d].data} /\ WorkOK(r, y, d)'
      OBVIOUS
    <3>1. d \in Concerned(d) /\ Clean(x, d) /\ d \notin y.swallowed
      BY <2>1 DEF Concerned, Clean
    <3>2. x.cache[d] \in {-1, netbox[d].data} /\ WorkOK(r, x, d)
      BY <1>2, <1>4, <1>7, <3>1 DEF RunInv, CleanOK
    <3>3. data = netbox[d].data /\ y.cache[d] = data /\ y.config = [data |-> data, as |-> as]
      BY <1>3, <2>1, <3>1, <3>2
    <3>4. as = AsNumber(d, x.target, {})
      <4>1. CASE d \in Spines
        <5>1. \A e \in Spines : x.cache[e] # 0
          BY <1>4, <1>7, <3>1, <4>1 DEF RunOK, Concerned, Spines, Clean
        <5>2. Dark(x) = {}
          BY <5>1 DEF Dark
        <5> QED
          BY <1>5, <5>2
      <4>2. CASE d \notin Spines
        BY <1>5, <1>7, <4>2, NoGroup DEF SpinesAssumption
      <4> QED
        BY <4>1, <4>2
    <3>5. y.config = Wanted(y.target, d)
      BY <2>1, <3>3, <3>4 DEF Wanted
    <3>6. y.config = Wanted(y.target, d)'
      BY <1>7, <1>8, <3>5, WantedStays
    <3>7. LinkOK(d)'
      BY <1>4, <1>7, <1>8, <3>2, LinkStays DEF WorkOK, Silent
    <3> QED
      BY <2>1, <3>3, <3>6, <3>7 DEF WorkOK
  <2>7. RunInv(r, y)'
    BY <1>4, <1>7, <1>8, <2>1, <2>2, <2>3, <2>4, <2>5, <2>6, MovesOK
  <2>8. Told(x) => Told(y)
    BY <1>4, <2>1 DEF Told
  <2> QED
    BY <1>1, <1>4, <1>6, <2>1, <2>7, <2>8, SilentStep
<1> QED
  BY <1>6, <1>9, <1>10
LEMMA SaveStep ==
  ASSUME SyncInv, NEW r \in Runs, save_config_to_netbox(r)
  PROVE  /\ SyncInv' /\ run[r].pc = "save" /\ run'[r].pc # "save"
         /\ \A e \in Devices : \/ context'[e].sibling = context[e].sibling
                               \/ e = run[r].device /\ e \notin run[r].quiet
<1>1. PICK x : x = run[r]
  OBVIOUS
<1>2. PICK d : d = x.device
  OBVIOUS
<1>3. PICK read : read = x.read[d].context
  OBVIOUS
<1>4. /\ x.pc = "save" /\ Fixed /\ UNCHANGED <<netbox, edits, store, firmware>>
      /\ RunInv(r, x) /\ RunOK(x) /\ DOMAIN x = RunFields /\ TypesOK /\ StoreOK
  BY <1>1 DEF save_config_to_netbox, Fixed, SyncInv, RunInv, RunOK
<1>5. d \in Devices \ x.todo /\ x.pc \in Working /\ x.pc \in Grouped /\ x.pc \in Reading
  BY <1>2, <1>4 DEF RunOK, Working, Grouped, Reading
<1>6. PICK saved : saved = [context EXCEPT ![d] = [read EXCEPT !.sonic = x.config]]
  OBVIOUS
<1>7. /\ DOMAIN saved = Devices /\ \A e \in Devices : DOMAIN saved[e] = {"sonic", "sibling"}
      /\ \A e \in Devices \ {d} : saved[e] = context[e]
      /\ saved[d].sonic = x.config /\ saved[d].sibling = read.sibling
  <2>1. DOMAIN read = {"sonic", "sibling"}
    BY <1>3, <1>4, <1>5 DEF RunOK
  <2> QED
    BY <1>4, <1>5, <1>6, <2>1 DEF TypesOK
<1>8. \/ Becomes(r, [x EXCEPT !.pc = "export"]) /\ \/ context' = context /\ read.sonic = x.config
                                                   \/ context' = saved
      \/ Becomes(r, [x EXCEPT !.pc = "next", !.rc = 1]) /\ (context' = context \/ context' = saved)
  <2>1. \/ read.sonic = x.config /\ UNCHANGED <<context, faults>> /\ Goto(r, "export")
        \/ read.sonic # x.config /\ context' = saved /\ UNCHANGED faults /\ Goto(r, "export")
        \/ read.sonic # x.config /\ context' \in {context, saved} /\ Fault /\ Fail(r, "next")
    BY <1>1, <1>2, <1>3, <1>6 DEF save_config_to_netbox
  <2> QED
    BY <1>1, <2>1 DEF Goto, Fail
<1>9. /\ DOMAIN context' = Devices /\ \A e \in Devices : DOMAIN context'[e] = {"sonic", "sibling"}
      /\ \A e \in Devices \ {d} : context'[e] = context[e]
  BY <1>4, <1>7, <1>8 DEF TypesOK
<1>10. d \in x.quiet => read = context[d]
  BY <1>2, <1>3, <1>4, <1>5 DEF RunInv, QuietOK
<1>11. \A e \in Devices : context'[e].sibling = context[e].sibling \/ (e = d /\ e \notin x.quiet)
  BY <1>7, <1>8, <1>9, <1>10
<1>12. WritesFor(d)
  BY <1>4, <1>9 DEF WritesFor
<1>13. DOMAIN firmware' = FileNames
  BY <1>4 DEF TypesOK
<1>14. CASE Becomes(r, [x EXCEPT !.pc = "next", !.rc = 1])
  <2>1. PICK y : y = [x EXCEPT !.pc = "next", !.rc = 1]
    OBVIOUS
  <2>2. Becomes(r, y) /\ GaveUp(x, y, d)
    BY <1>14, <2>1 DEF GaveUp
  <2>3. RunInv(r, y)' /\ y.pc = "next" /\ y.device = d /\ y.beside = x.beside /\ (Told(x) => Told(y))
    BY <1>2, <1>4, <1>5, <1>12, <2>2, GivesUp
  <2>4. SyncInv'
    BY <1>1, <1>4, <1>9, <1>12, <1>13, <2>2, <2>3, StoreStays
  <2>5. run'[r] = y
    BY <2>2, BecomesIs
  <2> QED
    BY <1>1, <1>2, <1>4, <1>11, <2>3, <2>4, <2>5
<1>15. CASE Becomes(r, [x EXCEPT !.pc = "export"]) /\ \/ context' = context /\ read.sonic = x.config
                                                      \/ context' = saved
  <2>1. PICK y : y = [x EXCEPT !.pc = "export"]
    OBVIOUS
  <2>2. /\ DOMAIN y = RunFields /\ y.pc = "export" /\ y.device = d /\ y.target = x.target /\ y.todo = x.todo
        /\ y.read = x.read /\ y.cache = x.cache /\ y.config = x.config /\ y.quiet = x.quiet
        /\ y.swallowed = x.swallowed /\ y.rc = x.rc /\ y.beside = x.beside
    BY <1>2, <1>4, <2>1 DEF RunFields
  <2>3. Clean(y, d) => WorkOK(r, y, d)'
    <3> SUFFICES ASSUME Clean(y, d) PROVE WorkOK(r, y, d)'
      OBVIOUS
    <3>1. WorkOK(r, x, d) /\ d \in x.quiet
      BY <1>2, <1>4, <1>5, <2>2, CleanWork DEF Clean
    <3>2. LinkOK(d)' /\ y.config = Wanted(y.target, d)'
      BY <1>4, <1>5, <2>2, <3>1, WorkStays
    <3>3. context'[d].sonic = x.config
      BY <1>7, <1>10, <1>15, <3>1
    <3> QED
      BY <2>2, <3>2, <3>3 DEF WorkOK
  <2>4. LinkingOK(y)'
    BY <2>2 DEF LinkingOK
  <2>5. RunInv(r, y)' /\ (Told(x) => Told(y))
    BY <1>2, <1>4, <1>5, <1>12, <2>2, <2>3, <2>4, GoesOn
  <2>6. Becomes(r, y)
    BY <1>15, <2>1
  <2>7. SyncInv'
    BY <1>1, <1>4, <1>9, <1>12, <1>13, <2>2, <2>5, <2>6, StoreStays
  <2>8. run'[r] = y
    BY <2>6, BecomesIs
  <2> QED
    BY <1>1, <1>2, <1>4, <1>11, <2>2, <2>7, <2>8
<1> QED
  BY <1>8, <1>14, <1>15

\* What is compared with the file is right, or the file is to be written.
LEMMA CompareStep ==
  ASSUME SyncInv, NEW r \in Runs, Compare(r)
  PROVE  SyncInv'
<1>1. PICK x : x = run[r]
  OBVIOUS
<1>2. PICK d : d = x.device
  OBVIOUS
<1>3. x.pc = "export" /\ Silent /\ RunInv(r, x) /\ RunOK(x) /\ DOMAIN x = RunFields /\ TypesOK /\ StoreOK
  BY <1>1 DEF Compare, Silent, Fixed, SyncInv, RunInv, RunOK
<1>4. d \in Devices \ x.todo /\ x.pc \in Working /\ x.pc \in Grouped
  BY <1>2, <1>3 DEF RunOK, Working, Grouped
<1>5. WritesFor(d) /\ Fixed /\ netbox' = netbox
  BY <1>3 DEF WritesFor, Silent
<1>6. \/ Becomes(r, [x EXCEPT !.pc = "link"]) /\ Served(FileOf(x)) = File(x.config)
      \/ Becomes(r, [x EXCEPT !.pc = "open"])
      \/ Becomes(r, [x EXCEPT !.pc = "next", !.rc = 1])
  BY <1>1 DEF Compare, Goto, Fail
<1>7. CASE Becomes(r, [x EXCEPT !.pc = "next", !.rc = 1])
  <2>1. PICK y : y = [x EXCEPT !.pc = "next", !.rc = 1]
    OBVIOUS
  <2>2. Becomes(r, y) /\ GaveUp(x, y, d)
    BY <1>7, <2>1 DEF GaveUp
  <2>3. RunInv(r, y)' /\ y.pc = "next" /\ y.beside = x.beside /\ (Told(x) => Told(y))
    BY <1>2, <1>3, <1>4, <1>5, <2>2, GivesUp
  <2> QED
    BY <1>1, <1>3, <2>2, <2>3, SilentStep
<1>8. CASE \/ Becomes(r, [x EXCEPT !.pc = "link"]) /\ Served(FileOf(x)) = File(x.config)
           \/ Becomes(r, [x EXCEPT !.pc = "open"])
  <2>1. PICK pc \in {"link", "open"} : /\ \/ pc = "link" /\ Becomes(r, [x EXCEPT !.pc = "link"])
                                          \/ pc = "open" /\ Becomes(r, [x EXCEPT !.pc = "open"])
                                       /\ pc = "link" => Served(FileOf(x)) = File(x.config)
    BY <1>8
  <2>2. PICK y : y = [x EXCEPT !.pc = pc] /\ Becomes(r, y)
    BY <2>1
  <2>3. /\ DOMAIN y = RunFields /\ y.pc = pc /\ y.device = d /\ y.target = x.target /\ y.todo = x.todo
        /\ y.read = x.read /\ y.cache = x.cache /\ y.config = x.config /\ y.quiet = x.quiet
        /\ y.swallowed = x.swallowed /\ y.rc = x.rc /\ y.beside = x.beside
    BY <1>2, <1>3, <2>2 DEF RunFields
  <2>4. PICK n \in Mine(d) : n = FileOf(x) /\ (n # Host(d) => \E k \in Numbers : n = Serial(d, k))
    BY <1>2, <1>3, <1>4, FileOfRun
  <2>5. FileOf(y)' = n /\ store'[n] = store[n] /\ Served(n)' = Served(n) /\ (FileOf(y) = FileOf(x))
    <3>1. FileOf(y)' = FileOf(x) /\ FileOf(y) = FileOf(x)
      BY <1>2, <1>5, <2>3, FileOfStays DEF FileOf
    <3> QED
      BY <1>3, <2>4, <3>1 DEF Served, Silent
  <2>6. LinkingOK(y)'
    <3> SUFFICES ASSUME pc = "link", n # Host(d) PROVE store[n].kind \in There
      BY <2>3, <2>5 DEF LinkingOK, Host
    <3>1. store[n].kind # "link"
      BY <1>3, <1>4, <2>4 DEF StoreOK
    <3>2. store[n] = File(x.config)
      BY <2>1, <2>4, <3>1 DEF Served
    <3> QED
      BY <3>2 DEF File, There
  <2>7. Clean(y, d) => WorkOK(r, y, d)'
    <3> SUFFICES ASSUME Clean(y, d) PROVE WorkOK(r, y, d)'
      OBVIOUS
    <3>1. WorkOK(r, x, d)
      BY <1>2, <1>3, <1>4, <2>3, CleanWork DEF Clean
    <3>2. LinkOK(d)' /\ y.config = Wanted(y.target, d)'
      BY <1>3, <1>4, <1>5, <2>3, <3>1, WorkStays DEF Silent
    <3>3. context'[d].sonic = x.config
      BY <1>3, <3>1 DEF WorkOK, Silent
    <3>4. pc = "link" => Served(FileOf(y))' = File(y.config)
      <4>1. Served(FileOf(y))' = Served(n)'
        BY <2>5 DEF Served
      <4> QED
        BY <2>1, <2>3, <2>4, <2>5, <4>1
    <3> QED
      BY <2>1, <2>3, <3>2, <3>3, <3>4 DEF WorkOK, File
  <2>8. RunInv(r, y)' /\ (Told(x) => Told(y))
    BY <1>2, <1>3, <1>4, <1>5, <2>1, <2>3, <2>6, <2>7, GoesOn
  <2> QED
    BY <1>1, <1>3, <2>1, <2>2, <2>3, <2>8, SilentStep
<1> QED
  BY <1>6, <1>7, <1>8
\* Who changes only its own names and temporary names writes for its device.
LEMMA Confines ==
  ASSUME NEW d \in Devices, NEW n \in Mine(d), context' = context, firmware' = firmware,
         \A m \in Names : m # n /\ m # Tmp(n) /\ m # Host(d) => store'[m] = store[m]
  PROVE  WritesFor(d)
<1> SUFFICES ASSUME NEW e \in Devices \ {d}, NEW m \in Mine(e)
             PROVE  store'[m] = store[m] /\ store'[Tmp(m)] = store[Tmp(m)]
  BY DEF WritesFor
<1>1. m \in FileNames /\ n \in FileNames /\ Host(d) \in FileNames /\ Host(d) \in Mine(d)
  BY MineAreFiles, NamesAreNames
<1>2. m # n /\ m # Host(d) /\ Tmp(m) # Tmp(n)
  BY <1>1, Apart, TmpApart
<1>3. m \in Names /\ Tmp(m) \in Names /\ m # Tmp(n) /\ Tmp(m) # n /\ Tmp(m) # Host(d)
  BY <1>1, Temporary
<1> QED
  BY <1>2, <1>3

\* A failure while the file is written.
LEMMA DroppedStep ==
  ASSUME SyncInv, NEW r \in Runs, run[r].pc \in {"open", "replace"}, Fixed,
         UNCHANGED <<netbox, edits, context, firmware>>, Dropped(FileOf(run[r])), Fail(r, "next")
  PROVE  SyncInv'
<1>1. PICK x : x = run[r]
  OBVIOUS
<1>2. PICK d : d = x.device
  OBVIOUS
<1>3. RunInv(r, x) /\ RunOK(x) /\ TypesOK /\ StoreOK /\ x.pc \in Working
  BY <1>1 DEF SyncInv, RunInv, Working
<1>4. PICK n \in Mine(d) : n = FileOf(x) /\ n \in FileNames /\ d \in Devices
  BY <1>2, <1>3, FileOfRun DEF RunOK
<1>5. PICK y : y = [x EXCEPT !.pc = "next", !.rc = 1]
  OBVIOUS
<1>6. Becomes(r, y) /\ GaveUp(x, y, d)
  BY <1>1, <1>5 DEF Fail, GaveUp
<1>7. /\ store' = store \/ store' = [store EXCEPT ![Tmp(n)] = Absent]
      /\ DOMAIN store = Names /\ Tmp(n) \in Names
  BY <1>1, <1>3, <1>4, Temporary DEF Dropped, TypesOK
<1>8. /\ DOMAIN store' = Names /\ \A m \in Names : m # Tmp(n) => store'[m] = store[m]
      /\ store'[Tmp(n)] = store[Tmp(n)] \/ store'[Tmp(n)].kind = "absent"
  BY <1>7 DEF Absent
<1>9. WritesFor(d)
  BY <1>4, <1>8, Confines
<1>10. RunInv(r, y)' /\ y.pc = "next" /\ y.device = d /\ y.beside = x.beside
  BY <1>2, <1>3, <1>4, <1>6, <1>9, GivesUp
<1>11. y.rc = 1
  BY <1>3, <1>5 DEF RunInv, RunOK, RunFields
<1>12. run'[r] = y /\ Confined(r, d)
  BY <1>6, <1>10, BecomesIs
<1>13. \A m \in FileNames : /\ store'[Tmp(m)] = store[Tmp(m)] \/ store'[Tmp(m)].kind = "absent"
                            /\ store'[m] = store[m]
  BY <1>4, <1>8, Temporary, TmpApart
<1>14. \A m \in FileNames : TmpOK(m)'
  BY <1>1, <1>10, <1>11, <1>12, <1>13, TmpsDropped DEF Told
<1>15. TypesOK'
  BY <1>3, <1>8, <1>12 DEF TypesOK, Confined
<1>16. StoreOK' /\ FilesStay
  BY <1>3, <1>13, NamesAreNames DEF StoreOK, FilesStay, Host, Serial, LinkTo
<1> QED
  BY <1>1, <1>9, <1>10, <1>12, <1>14, <1>15, <1>16, StepKeeps

LEMMA OpenStep ==
  ASSUME SyncInv, NEW r \in Runs, ExportOpen(r)
  PROVE  SyncInv'
<1>1. PICK x : x = run[r]
  OBVIOUS
<1>2. PICK d : d = x.device
  OBVIOUS
<1>3. /\ x.pc = "open" /\ Fixed /\ UNCHANGED <<netbox, edits, context, firmware>> /\ netbox' = netbox
      /\ RunInv(r, x) /\ RunOK(x) /\ DOMAIN x = RunFields /\ TypesOK /\ StoreOK /\ x.pc \in Working
  BY <1>1 DEF ExportOpen, Fixed, SyncInv, RunInv, RunOK, Working
<1>4. PICK n \in Mine(d) : n = FileOf(x) /\ n \in FileNames /\ d \in Devices \ x.todo
  BY <1>2, <1>3, FileOfRun DEF RunOK
<1>5. CASE Dropped(n) /\ Fail(r, "next")
  BY <1>1, <1>3, <1>4, <1>5, DroppedStep
<1>6. PICK both, by : /\ both = (IF Writing(n) = {} THEN {} ELSE Writing(n) \cup {r})
                     /\ by = (IF store[Tmp(n)].kind = "partial" THEN store[Tmp(n)].by \cap Writing(n) ELSE {})
  OBVIOUS
<1>7. CASE /\ run' = [q \in Runs |-> [run[q] EXCEPT !.pc = IF q = r THEN "replace" ELSE @,
                                                   !.quiet = IF q \in both THEN @ \ {d} ELSE @,
                                                   !.beside = IF q \in both THEN @ \cup {n} ELSE @]]
           /\ store' = [store EXCEPT ![Tmp(n)] = Partial(by \cup {r})]
  <2>2. PICK y : y = run'[r]
    OBVIOUS
  <2>3. ASSUME NEW q \in Runs
        PROVE  /\ DOMAIN run'[q] = RunFields /\ run'[q].target = run[q].target /\ run'[q].todo = run[q].todo
               /\ run'[q].device = run[q].device /\ run'[q].config = run[q].config /\ run'[q].read = run[q].read
               /\ run'[q].cache = run[q].cache /\ run'[q].rc = run[q].rc /\ run'[q].swallowed = run[q].swallowed
               /\ run'[q].quiet = (IF q \in both THEN run[q].quiet \ {d} ELSE run[q].quiet)
               /\ run'[q].beside = (IF q \in both THEN run[q].beside \cup {n} ELSE run[q].beside)
               /\ run'[q].pc = (IF q = r THEN "replace" ELSE run[q].pc)
    <3>1. DOMAIN run[q] = RunFields
      BY DEF SyncInv, RunInv, RunOK
    <3>2. run'[q] = [run[q] EXCEPT !.pc = IF q = r THEN "replace" ELSE @,
                                   !.quiet = IF q \in both THEN @ \ {d} ELSE @,
                                   !.beside = IF q \in both THEN @ \cup {n} ELSE @]
      BY <1>7
    <3> QED
      BY <3>1, <3>2 DEF RunFields
  <2>4. DOMAIN run' = Runs
    BY <1>7
  <2>5. /\ Writing(n) \subseteq Runs \ {r} /\ by \subseteq Writing(n)
        /\ (both = {} <=> Writing(n) = {}) /\ both \subseteq Writing(n) \cup {r}
        /\ (Writing(n) # {} => both = Writing(n) \cup {r})
    BY <1>1, <1>3, <1>6 DEF Writing
  <2>6. /\ DOMAIN store' = Names /\ Tmp(n) \in Names /\ \A m \in Names : m # Tmp(n) => store'[m] = store[m]
        /\ store'[Tmp(n)] = Partial(by \cup {r})
    <3>1. DOMAIN store = Names /\ Tmp(n) \in Names
      BY <1>3, <1>4, Temporary DEF TypesOK
    <3> QED
      BY <1>7, <3>1
  <2>7. \A m \in FileNames : store'[m] = store[m] /\ (m # n => store'[Tmp(m)] = store[Tmp(m)])
    BY <1>4, <2>6, Temporary, TmpApart
  <2>8. \A m \in FileNames, q \in Runs : q \in Writing(m)' <=> q \in Writing(m) \/ (q = r /\ m = n)
    <3> SUFFICES ASSUME NEW m \in FileNames, NEW q \in Runs
                 PROVE  q \in Writing(m)' <=> q \in Writing(m) \/ (q = r /\ m = n)
      OBVIOUS
    <3>1. PICK z : z = run'[q]
      OBVIOUS
    <3>2. FileOf(z)' = FileOf(run[q]) /\ z.pc = (IF q = r THEN "replace" ELSE run[q].pc)
      BY <1>3, <2>3, <3>1, FileOfStays
    <3>3. q \in Writing(m)' <=> z.pc = "replace" /\ FileOf(z)' = m
      BY <3>1 DEF Writing, FileOf, Ident, Host, Serial
    <3>4. q \in Writing(m) <=> run[q].pc = "replace" /\ FileOf(run[q]) = m
      BY DEF Writing
    <3> QED
      BY <1>1, <1>3, <1>4, <3>2, <3>3, <3>4
  <2>9. TypesOK'
    BY <1>3, <2>4, <2>6 DEF TypesOK
  <2>10. StoreOK' /\ FilesStay
    BY <1>3, <2>7, NamesAreNames DEF StoreOK, FilesStay, Host, Serial, LinkTo
  <2>11. ASSUME NEW m \in FileNames \ {n} PROVE TmpOK(m)'
    <3>1. \A w \in Runs : /\ Told(run[w]) => Told(run'[w])
                          /\ run[w].beside \subseteq run'[w].beside
                          /\ w \in Writing(m)' <=> w \in Writing(m)
      BY <1>1, <1>3, <2>3, <2>8 DEF Told
    <3>2. TmpOK(m)
      BY DEF SyncInv
    <3> QED
      BY <2>7, <3>1, <3>2, TmpKeeps
  <2>12. TmpOK(n)'
    <3>1. TmpOK(n) /\ Tmp(n)' = Tmp(n)
      BY <1>4 DEF SyncInv, Tmp
    <3>2. \A w : Writer(w, n)' <=> w \in by \cup {r}
      BY <2>6, <3>1 DEF Writer, Partial
    <3>3. store'[Tmp(n)].kind = "partial" /\ by \cup {r} # {} /\ by \cup {r} \in SUBSET Runs
      BY <2>5, <2>6 DEF Partial
    <3>4. \A w \in Runs : Writer(w, n)' => w \in Writing(n)'
      BY <1>4, <2>5, <2>8, <3>2
    <3>5. \A w \in Runs, q \in Writing(n)' : Writer(w, n)' /\ w # q => n \in run'[w].beside
      <4> SUFFICES ASSUME NEW w \in Runs, NEW q \in Writing(n)', Writer(w, n)', w # q PROVE n \in run'[w].beside
        OBVIOUS
      <4>1. q \in Runs
        BY DEF Writing
      <4>2. w \in by \cup {r} /\ q \in Writing(n) \cup {r}
        BY <1>4, <2>8, <3>2, <4>1
      <4>3. w \in both
        BY <2>5, <4>2
      <4> QED
        BY <2>3, <4>3
    <3>6. store'[n].kind = "partial" =>
            \E w \in Runs : n \in run'[w].beside /\ (Told(run'[w]) \/ (w \in Writing(n)' /\ ~Writer(w, n)'))
      <4> SUFFICES ASSUME store'[n].kind = "partial"
                   PROVE  \E w \in Runs : /\ n \in run'[w].beside
                                          /\ Told(run'[w]) \/ (w \in Writing(n)' /\ ~Writer(w, n)')
        OBVIOUS
      <4>1. PICK w \in Runs : n \in run[w].beside /\ (Told(run[w]) \/ (w \in Writing(n) /\ ~Writer(w, n)))
        BY <1>4, <2>7, <3>1 DEF TmpOK
      <4>2. n \in run'[w].beside /\ (Told(run[w]) => Told(run'[w]))
        BY <1>1, <1>3, <2>3, <4>1 DEF Told
      <4>3. w \in Writing(n) /\ ~Writer(w, n) => w \in Writing(n)' /\ ~Writer(w, n)'
        BY <1>4, <1>6, <2>5, <2>8, <3>2 DEF Writer
      <4> QED
        BY <4>1, <4>2, <4>3
    <3> QED
      BY <2>6, <3>1, <3>3, <3>4, <3>5, <3>6 DEF TmpOK, Told, Partial
  <2>13. \A m \in FileNames : TmpOK(m)'
    BY <2>11, <2>12
  <2>14. ASSUME NEW q \in Runs \ {r}, NEW z, z = run'[q] PROVE RunInv(q, z)'
    <3>1. PICK v : v = run[q]
      OBVIOUS
    <3>2. RunInv(q, v) /\ DOMAIN v = RunFields
      BY <3>1 DEF SyncInv, RunInv, RunOK
    <3>3. q \in both => v.pc = "replace"
      BY <2>5, <3>1 DEF Writing
    <3>4. Like(v, z)
      BY <2>3, <2>14, <3>1, <3>2, <3>3 DEF Like
    <3>5. \A e \in Devices : Same(e)
      BY <1>3, <2>7, MineAreFiles DEF Same
    <3>6. ASSUME v.pc = "replace", v.device \in z.quiet PROVE store'[Tmp(FileOf(v))] = store[Tmp(FileOf(v))]
      <4>1. FileOf(v) \in Mine(v.device) /\ FileOf(v) \in FileNames /\ v.device \in Devices
        BY <3>2, <3>6, FileOfRun DEF RunInv, RunOK, Working
      <4>2. CASE FileOf(v) = n
        <5>1. q \in both
          BY <2>5, <3>1, <3>6, <4>2 DEF Writing
        <5>2. v.device = d
          BY <1>4, <4>1, <4>2, Apart
        <5> QED
          BY <2>3, <2>14, <3>6, <5>1, <5>2
      <4> QED
        BY <2>7, <4>1, <4>2
    <3> QED
      BY <1>3, <2>10, <3>2, <3>4, <3>5, <3>6, LikeKeeps
  <2>15. RunInv(r, y)'
    <3>1. /\ DOMAIN y = RunFields /\ y.pc = "replace" /\ y.device = d /\ y.target = x.target /\ y.todo = x.todo
          /\ y.read = x.read /\ y.cache = x.cache /\ y.config = x.config /\ y.quiet \subseteq x.quiet
          /\ y.swallowed = x.swallowed /\ y.rc = x.rc /\ (d \in y.quiet => r \notin both)
      BY <1>1, <1>2, <2>2, <2>3
    <3>2. WritesFor(d)
      BY <1>3, <1>4, <2>6, Confines
    <3>3. LinkingOK(y)'
      BY <3>1 DEF LinkingOK
    <3>4. Clean(y, d) => WorkOK(r, y, d)'
      <4> SUFFICES ASSUME Clean(y, d) PROVE WorkOK(r, y, d)'
        OBVIOUS
      <4>1. WorkOK(r, x, d)
        BY <1>2, <1>3, <3>1, CleanWork DEF Clean
      <4>2. LinkOK(d)' /\ y.config = Wanted(y.target, d)'
        BY <1>3, <1>4, <3>1, <4>1, WorkStays
      <4>3. context'[d].sonic = x.config
        BY <1>3, <4>1 DEF WorkOK
      <4>4. store'[Tmp(n)] = Partial({r})
        <5>1. by \cup {r} = {r}
          BY <2>5, <3>1 DEF Clean
        <5> QED
          BY <2>6, <5>1
      <4>5. FileOf(y)' = n
        BY <1>2, <1>3, <1>4, <3>1, FileOfStays
      <4> QED
        BY <3>1, <4>2, <4>3, <4>4, <4>5 DEF WorkOK, Tmp, Partial
    <3> QED
      BY <1>2, <1>3, <1>4, <3>1, <3>2, <3>3, <3>4, GoesOn
  <2>16. \A q \in Runs : \A z : z = run'[q] => RunInv(q, z)'
    BY <2>2, <2>14, <2>15
  <2> QED
    BY <2>9, <2>10, <2>13, <2>16, Assembled
<1> QED
  BY <1>1, <1>2, <1>4, <1>5, <1>6, <1>7 DEF ExportOpen
LEMMA ReplaceStep ==
  ASSUME SyncInv, NEW r \in Runs, ExportReplace(r)
  PROVE  SyncInv'
<1>1. PICK x : x = run[r]
  OBVIOUS
<1>2. PICK d : d = x.device
  OBVIOUS
<1>3. /\ x.pc = "replace" /\ Fixed /\ UNCHANGED <<netbox, edits, context, firmware>> /\ netbox' = netbox
      /\ RunInv(r, x) /\ RunOK(x) /\ DOMAIN x = RunFields /\ TypesOK /\ StoreOK /\ x.pc \in Working
  BY <1>1 DEF ExportReplace, Fixed, SyncInv, RunInv, RunOK, Working
<1>4. PICK n \in Mine(d) : /\ n = FileOf(x) /\ n \in FileNames /\ d \in Devices \ x.todo
                           /\ n # Host(d) => \E k \in Numbers : n = Serial(d, k)
  BY <1>2, <1>3, FileOfRun DEF RunOK
<1>5. PICK new : new = IF store[Tmp(n)].by = {r} THEN File(x.config) ELSE Partial({})
  OBVIOUS
<1>6. \/ Dropped(n) /\ Fail(r, "next")
      \/ /\ store[Tmp(n)].kind = "partial" /\ Becomes(r, [x EXCEPT !.pc = "link"])
         /\ store' = [store EXCEPT ![Tmp(n)] = Absent, ![n] = new]
  BY <1>1, <1>4, <1>5 DEF ExportReplace, Goto, Dropped
<1>7. CASE Dropped(n) /\ Fail(r, "next")
  BY <1>1, <1>3, <1>4, <1>7, DroppedStep
<1>8. CASE /\ store[Tmp(n)].kind = "partial" /\ Becomes(r, [x EXCEPT !.pc = "link"])
           /\ store' = [store EXCEPT ![Tmp(n)] = Absent, ![n] = new]
  <2>1. PICK y : y = [x EXCEPT !.pc = "link"] /\ Becomes(r, y)
    BY <1>8
  <2>2. /\ DOMAIN y = RunFields /\ y.pc = "link" /\ y.device = d /\ y.target = x.target /\ y.todo = x.todo
        /\ y.read = x.read /\ y.cache = x.cache /\ y.config = x.config /\ y.quiet = x.quiet
        /\ y.swallowed = x.swallowed /\ y.rc = x.rc /\ y.beside = x.beside
    BY <1>2, <1>3, <2>1 DEF RunFields
  <2>3. run'[r] = y /\ Confined(r, d)
    BY <2>1, <2>2, BecomesIs
  <2>4. /\ DOMAIN store' = Names /\ store'[Tmp(n)].kind = "absent" /\ store'[n] = new
        /\ \A m \in Names : m # Tmp(n) /\ m # n => store'[m] = store[m]
    <3>1. DOMAIN store = Names /\ Tmp(n) \in Names /\ n \in Names /\ n # Tmp(n)
      BY <1>3, <1>4, Temporary DEF TypesOK
    <3> QED
      BY <1>8, <3>1 DEF Absent
  <2>5. new.kind \in There
    BY <1>5 DEF File, Partial, There
  <2>6. \A m \in FileNames \ {n} : store'[m] = store[m] /\ store'[Tmp(m)] = store[Tmp(m)]
    BY <1>4, <2>4, Temporary, TmpApart
  <2>7. WritesFor(d)
    BY <1>3, <1>4, <2>4, Confines
  <2>8. TypesOK'
    BY <1>3, <2>3, <2>4 DEF TypesOK, Confined
  <2>9. FilesStay
    BY <2>4, <2>5, <2>6, NamesAreNames DEF FilesStay
  <2>10. StoreOK'
    <3>1. new.kind # "link"
      BY <2>5 DEF There
    <3>2. \A e \in Devices, k \in Numbers : store'[Serial(e, k)].kind # "link"
      BY <1>3, <2>4, <2>6, <3>1, NamesAreNames DEF StoreOK
    <3>3. ASSUME NEW e \in Devices, store'[Host(e)].kind = "link"
          PROVE  \E k \in Numbers : store'[Host(e)] = LinkTo(Serial(e, k)) /\ store'[Serial(e, k)].kind \in There
      <4>1. store'[Host(e)] = store[Host(e)] /\ store[Host(e)].kind = "link"
        BY <2>4, <2>6, <3>1, <3>3, NamesAreNames
      <4>2. PICK k \in Numbers : store[Host(e)] = LinkTo(Serial(e, k)) /\ store[Serial(e, k)].kind \in There
        BY <1>3, <4>1 DEF StoreOK
      <4> QED
        BY <2>9, <4>1, <4>2 DEF FilesStay
    <3> QED
      BY <3>2, <3>3 DEF StoreOK, Host, Serial, LinkTo
  <2>11. ASSUME NEW w \in Runs
         PROVE  /\ Told(run[w]) => Told(run'[w])
                /\ run[w].beside \subseteq run'[w].beside
                /\ \A m \in FileNames : w \in Writing(m)' <=> w \in Writing(m) /\ w # r
    <3>1. CASE w = r
      BY <1>1, <1>3, <2>2, <2>3, <3>1 DEF Writing, Told
    <3>2. CASE w # r
      <4>1. Like(run[w], run'[w])
        BY <2>3, <3>2 DEF Confined
      <4>2. \A m : w \in Writing(m)' <=> w \in Writing(m)
        BY <1>3, <4>1, WritingStays DEF Like
      <4> QED
        BY <3>2, <4>1, <4>2 DEF Like, Told
    <3> QED
      BY <3>1, <3>2
  <2>12. ASSUME NEW m \in FileNames \ {n} PROVE TmpOK(m)'
    <3>1. r \notin Writing(m)
      BY <1>1, <1>4 DEF Writing
    <3>2. TmpOK(m)
      BY DEF SyncInv
    <3> QED
      BY <2>6, <2>11, <3>1, <3>2, TmpKeeps
  <2>13. TmpOK(n)'
    <3>1. TmpOK(n) /\ Tmp(n)' = Tmp(n)
      BY <1>4 DEF SyncInv, Tmp
    <3>2. \A w : ~Writer(w, n)'
      BY <2>4, <3>1 DEF Writer
    <3>3. ASSUME store'[n].kind = "partial"
          PROVE  \E w \in Runs : n \in run'[w].beside /\ (Told(run'[w]) \/ (w \in Writing(n)' /\ ~Writer(w, n)'))
      <4>1. PICK by \in SUBSET Runs : by # {} /\ store[Tmp(n)] = Partial(by)
        BY <1>8, <3>1 DEF TmpOK
      <4>2. store[Tmp(n)].by = by
        BY <4>1 DEF Partial
      <4>3. by # {r}
        BY <1>5, <2>4, <3>3, <4>2 DEF File
      <4>4. PICK w \in by : w # r
        BY <4>1, <4>3
      <4>5. Writer(w, n) /\ w \in Runs /\ r \in Writing(n)
        BY <1>1, <1>3, <1>4, <1>8, <4>1, <4>2, <4>4 DEF Writer, Writing
      <4>6. n \in run[w].beside /\ (w \in Writing(n) \/ Told(run[w]))
        BY <3>1, <4>4, <4>5 DEF TmpOK
      <4> QED
        BY <1>4, <2>11, <3>2, <4>4, <4>5, <4>6
    <3> QED
      BY <2>4, <3>1, <3>2, <3>3 DEF TmpOK, Told, Partial
  <2>14. \A m \in FileNames : TmpOK(m)'
    BY <2>12, <2>13
  <2>15. FileOf(y)' = n
    BY <1>2, <1>3, <1>4, <2>2, FileOfStays
  <2>16. LinkingOK(y)'
    BY <2>4, <2>5, <2>15 DEF LinkingOK
  <2>17. Clean(y, d) => WorkOK(r, y, d)'
    <3> SUFFICES ASSUME Clean(y, d) PROVE WorkOK(r, y, d)'
      OBVIOUS
    <3>1. WorkOK(r, x, d)
      BY <1>2, <1>3, <2>2, CleanWork DEF Clean
    <3>2. LinkOK(d)' /\ y.config = Wanted(y.target, d)'
      BY <1>3, <1>4, <2>2, <3>1, WorkStays
    <3>3. context'[d].sonic = x.config
      BY <1>3, <3>1 DEF WorkOK
    <3>4. store[Tmp(n)].by = {r}
      BY <1>3, <1>4, <3>1 DEF WorkOK, Partial
    <3>5. store'[n] = File(x.config) /\ File(x.config).kind = "file"
      BY <1>5, <2>4, <3>4 DEF File
    <3>6. Served(FileOf(y))' = File(y.config)
      BY <2>2, <2>15, <3>5 DEF Served
    <3> QED
      BY <2>2, <3>2, <3>3, <3>6 DEF WorkOK, File
  <2>18. RunInv(r, y)'
    BY <1>2, <1>3, <1>4, <2>2, <2>7, <2>16, <2>17, GoesOn
  <2> QED
    BY <1>3, <2>3, <2>7, <2>8, <2>9, <2>10, <2>14, <2>18, StepKeeps
<1> QED
  BY <1>6, <1>7, <1>8

LEMMA HostLinkStep ==
  ASSUME SyncInv, NEW r \in Runs, HostLink(r)
  PROVE  SyncInv'
<1>1. PICK x : x = run[r]
  OBVIOUS
<1>2. PICK d : d = x.device
  OBVIOUS
<1>3. /\ x.pc = "link" /\ Fixed /\ UNCHANGED <<netbox, edits, context, firmware>> /\ netbox' = netbox
      /\ RunInv(r, x) /\ RunOK(x) /\ DOMAIN x = RunFields /\ TypesOK /\ StoreOK /\ x.pc \in Working /\ x.pc \in Reading
  BY <1>1 DEF HostLink, Fixed, SyncInv, RunInv, RunOK, Working, Grouped, Reading
<1>4. PICK n \in Mine(d) : /\ n = FileOf(x) /\ n \in FileNames /\ d \in Devices \ x.todo
                           /\ n # Host(d) => \E k \in Numbers : n = Serial(d, k)
  BY <1>2, <1>3, FileOfRun DEF RunOK
<1>5. Host(d) \in FileNames /\ Host(d) \in Mine(d) /\ Host(d) \in Names /\ DOMAIN store = Names
  BY <1>3, <1>4, NamesAreNames, Temporary DEF TypesOK
<1>6. \/ /\ Becomes(r, [x EXCEPT !.pc = "next"])
         /\ store' = IF n = Host(d) THEN store ELSE [store EXCEPT ![Host(d)] = LinkTo(n)]
      \/ /\ Becomes(r, [x EXCEPT !.pc = "next", !.swallowed = @ \cup {d}])
         /\ store' \in {store, [store EXCEPT ![Host(d)] = Absent]}
  BY <1>1, <1>2, <1>4 DEF HostLink, Goto, Swallow
<1>7. /\ DOMAIN store' = Names /\ \A m \in Names : m # Host(d) => store'[m] = store[m]
      /\ \/ store'[Host(d)] = store[Host(d)]
         \/ store'[Host(d)] = LinkTo(n) /\ n # Host(d)
         \/ store'[Host(d)].kind = "absent"
  BY <1>5, <1>6 DEF Absent
<1>8. \A m \in FileNames : /\ m # Host(d) => store'[m] = store[m]
                           /\ store'[Tmp(m)] = store[Tmp(m)]
                           /\ store'[m] = store[m] \/ store'[m].kind # "partial"
  BY <1>5, <1>7, Temporary DEF LinkTo
<1>9. WritesFor(d)
  BY <1>3, <1>4, <1>7, Confines
<1>10. FilesStay
  BY <1>4, <1>8, NamesAreNames DEF FilesStay
<1>11. StoreOK'
  <2>1. \A e \in Devices, k \in Numbers : store'[Serial(e, k)] = store[Serial(e, k)]
    BY <1>4, <1>8, NamesAreNames
  <2>2. ASSUME NEW e \in Devices, store'[Host(e)].kind = "link"
        PROVE  \E k \in Numbers : store'[Host(e)] = LinkTo(Serial(e, k)) /\ store'[Serial(e, k)].kind \in There
    <3>1. CASE store'[Host(e)] = store[Host(e)]
      BY <1>3, <2>1, <2>2, <3>1 DEF StoreOK
    <3>2. CASE Host(e) = Host(d) /\ store'[Host(d)] = LinkTo(n) /\ n # Host(d)
      <4>1. e = d
        BY <3>2, HostName
      <4>2. PICK k \in Numbers : n = Serial(d, k)
        BY <1>4, <3>2
      <4>3. store[n].kind \in There
        BY <1>2, <1>3, <1>4, <3>2 DEF RunInv, LinkingOK
      <4> QED
        BY <1>4, <2>1, <3>2, <4>1, <4>2, <4>3
    <3> QED
      BY <1>7, <1>8, <2>2, <3>1, <3>2, NamesAreNames
  <2> QED
    BY <1>3, <2>1, <2>2 DEF StoreOK, Host, Serial, LinkTo
<1>12. ASSUME NEW y, Becomes(r, y), RunInv(r, y)', y.pc = "next", y.device = d, y.beside = x.beside, Told(x) => Told(y)
       PROVE  SyncInv'
  <2>1. run'[r] = y /\ Confined(r, d)
    BY <1>12, BecomesIs
  <2>2. \A m \in FileNames : TmpOK(m)'
    BY <1>1, <1>3, <1>8, <1>12, <2>1, TmpsStay
  <2>3. TypesOK'
    BY <1>3, <1>7, <2>1 DEF TypesOK, Confined
  <2> QED
    BY <1>3, <1>9, <1>10, <1>11, <1>12, <2>1, <2>2, <2>3, StepKeeps
<1>13. CASE Becomes(r, [x EXCEPT !.pc = "next", !.swallowed = @ \cup {d}])
  <2>1. PICK y : y = [x EXCEPT !.pc = "next", !.swallowed = @ \cup {d}] /\ Becomes(r, y)
    BY <1>13
  <2>2. GaveUp(x, y, d)
    BY <2>1 DEF GaveUp
  <2>3. RunInv(r, y)' /\ y.pc = "next" /\ y.device = d /\ y.beside = x.beside /\ (Told(x) => Told(y))
    BY <1>2, <1>3, <1>4, <1>9, <2>2, GivesUp
  <2> QED
    BY <1>12, <2>1, <2>3
<1>14. CASE /\ Becomes(r, [x EXCEPT !.pc = "next"])
            /\ store' = IF n = Host(d) THEN store ELSE [store EXCEPT ![Host(d)] = LinkTo(n)]
  <2>1. PICK y : y = [x EXCEPT !.pc = "next"] /\ Becomes(r, y)
    BY <1>14
  <2>2. /\ DOMAIN y = RunFields /\ y.pc = "next" /\ y.device = d /\ y.target = x.target /\ y.todo = x.todo
        /\ y.read = x.read /\ y.cache = x.cache /\ y.config = x.config /\ y.quiet = x.quiet
        /\ y.swallowed = x.swallowed /\ y.rc = x.rc /\ y.beside = x.beside
    BY <1>2, <1>3, <2>1 DEF RunFields
  <2>3. LinkingOK(y)'
    BY <2>2 DEF LinkingOK
  <2>4. Clean(y, d) => UpToDate(y.target, d)'
    <3> SUFFICES ASSUME Clean(y, d) PROVE UpToDate(y.target, d)'
      OBVIOUS
    <3>1. WorkOK(r, x, d) /\ d \in x.quiet
      BY <1>2, <1>3, <2>2, CleanWork DEF Clean
    <3>2. LinkOK(d)' /\ y.config = Wanted(y.target, d)' /\ y.config = x.config
      BY <1>3, <1>4, <2>2, <3>1, WorkStays
    <3>3. context'[d].sonic = x.config /\ Served(n) = File(x.config)
      BY <1>3, <1>4, <3>1 DEF WorkOK
    <3>4. n = Ident(d, netbox[d].serial) /\ Ident(d, netbox[d].serial)' = n
      <4>1. x.read[d].serial = netbox[d].serial
        BY <1>3, <1>4, <3>1 DEF RunInv, QuietOK
      <4> QED
        BY <1>2, <1>3, <1>4, <4>1 DEF FileOf, Fixed, Ident, Host, Serial
    <3>5. store'[n] = store[n] /\ (n # Host(d) => store[n].kind # "link" /\ store'[Host(d)] = LinkTo(n))
      <4>1. n # Host(d) => store[n].kind # "link"
        BY <1>3, <1>4 DEF StoreOK
      <4> QED
        BY <1>4, <1>5, <1>14, <1>8, <4>1
    <3>6. Served(n)' = File(x.config) /\ Served(Host(d))' = File(x.config)
      <4>1. CASE n = Host(d)
        <5>1. store' = store
          BY <1>14, <4>1
        <5> QED
          BY <3>3, <4>1, <5>1 DEF Served, Host
      <4>2. CASE n # Host(d)
        <5>1. store'[n] = File(x.config) /\ store'[n].kind # "link"
          BY <3>3, <3>5, <4>2 DEF Served
        <5>2. store'[Host(d)].kind = "link" /\ store'[Host(d)].to = n /\ Host(d)' = Host(d)
          BY <3>5, <4>2 DEF LinkTo, Host
        <5> QED
          BY <5>1, <5>2 DEF Served
      <4> QED
        BY <4>1, <4>2
    <3>7. Served(Ident(d, netbox[d].serial))' = Served(n)'
      BY <3>4 DEF Served
    <3> QED
      BY <2>2, <3>2, <3>3, <3>6, <3>7 DEF UpToDate, Wanted, LinkOK, File
  <2>5. RunInv(r, y)' /\ (Told(x) => Told(y))
    BY <1>2, <1>3, <1>4, <1>9, <2>2, <2>3, <2>4, GoesOn
  <2> QED
    BY <1>12, <2>1, <2>2, <2>5
<1> QED
  BY <1>6, <1>13, <1>14
-----------------------------------------------------------------------------
(* Everyone else, and the whole.                                             *)

\* Somebody edits a device.
LEMMA EditStep ==
  ASSUME SyncInv, Fixed, NEW d \in Devices, Edited(d), TypesOK', store' = store,
         \A e \in Devices \ {d} : netbox'[e] = netbox[e] /\ context'[e] = context[e],
         \A e \in Devices \ {d} : \A n \in Mine(e) : firmware'[n] = firmware[n]
  PROVE  SyncInv'
<1>1. \A q \in Runs : run'[q] = [run[q] EXCEPT !.quiet = @ \ {d}]
  BY DEF Edited
<1>2. ASSUME NEW q \in Runs PROVE Like(run[q], run'[q]) /\ d \notin run'[q].quiet
  <2>1. DOMAIN run[q] = RunFields
    BY DEF SyncInv, RunInv, RunOK
  <2> QED
    BY <1>1, <2>1 DEF Like, RunFields
<1>3. FilesStay /\ StoreOK'
  BY DEF FilesStay, SyncInv, StoreOK, Host, Serial, LinkTo
<1>4. ASSUME NEW n \in FileNames PROVE TmpOK(n)'
  <2>1. \A w \in Runs : /\ Told(run[w]) => Told(run'[w])
                        /\ run[w].beside \subseteq run'[w].beside
                        /\ w \in Writing(n)' <=> w \in Writing(n)
    BY <1>2, WritingStays DEF Like, Told
  <2>2. TmpOK(n)
    BY DEF SyncInv
  <2> QED
    BY <2>1, <2>2, TmpKeeps
<1>5. ASSUME NEW q \in Runs, NEW y, y = run'[q] PROVE RunInv(q, y)'
  <2>1. PICK x : x = run[q]
    OBVIOUS
  <2>2. Like(x, y) /\ RunInv(q, x) /\ TypesOK /\ StoreOK
    BY <1>2, <1>5, <2>1 DEF SyncInv
  <2>3. \A e \in Devices : e \in y.quiet => Same(e)
    BY <1>2, <1>5 DEF Same
  <2> QED
    BY <1>3, <2>2, <2>3, LikeKeeps
<1> QED
  BY <1>3, <1>4, <1>5, Assembled

LEMMA Edits ==
  ASSUME SyncAssumption, SyncInv, NEW d \in Devices, EditDevice(d) \/ CoOwner(d) \/ PlaceImage(d)
  PROVE  SyncInv' /\ edits' = edits + 1
<1>0. edits < MaxEdits /\ MaxEdits \in Nat /\ edits \in Nat
  BY DEF SyncAssumption, SyncInv, TypesOK, EditDevice, CoOwner, PlaceImage, Edited
<1>1. TypesOK /\ Edited(d) /\ edits' = edits + 1 /\ edits' \in 0..MaxEdits /\ Fixed /\ store' = store
  BY <1>0 DEF SyncInv, EditDevice, CoOwner, PlaceImage, Edited, Fixed
<1>2. DOMAIN run' = Runs
  BY <1>1 DEF Edited
<1>3. CASE EditDevice(d)
  <2>1. context' = context /\ firmware' = firmware
    BY <1>3 DEF EditDevice
  <2>2. \E v, k, w : /\ \/ netbox' = [netbox EXCEPT ![d].data = @ + 1]
                        \/ netbox' = [netbox EXCEPT ![d].serial = k]
                        \/ netbox' = [netbox EXCEPT ![d].version = v]
                     /\ k \in {0, edits + 2}
    BY <1>3 DEF EditDevice
  <2>3. edits + 2 \in Numbers
    BY <1>0 DEF Numbers
  <2>4. /\ DOMAIN netbox' = Devices
        /\ \A e \in Devices \ {d} : netbox'[e] = netbox[e]
        /\ DOMAIN netbox'[d] = {"data", "serial", "version"}
        /\ netbox'[d].data \in Nat \ {0} /\ netbox'[d].serial \in Numbers \cup {0}
    BY <1>1, <2>2, <2>3 DEF TypesOK
  <2>5. TypesOK'
    BY <1>1, <1>2, <2>1, <2>4 DEF TypesOK, Numbers
  <2> QED
    BY <1>1, <2>1, <2>4, <2>5, EditStep
<1>4. CASE CoOwner(d)
  <2>1. /\ netbox' = netbox /\ firmware' = firmware /\ DOMAIN context' = Devices
        /\ \A e \in Devices : DOMAIN context'[e] = {"sonic", "sibling"}
        /\ \A e \in Devices \ {d} : context'[e] = context[e]
    BY <1>1, <1>4 DEF CoOwner, TypesOK
  <2>2. TypesOK'
    BY <1>1, <1>2, <2>1 DEF TypesOK
  <2> QED
    BY <1>1, <2>1, <2>2, EditStep
<1>5. CASE PlaceImage(d)
  <2>1. PICK n \in Mine(d) : n = Ident(d, netbox[d].serial) /\ n \in FileNames
    BY <1>1, Identified, MineAreFiles DEF TypesOK
  <2>2. netbox' = netbox /\ context' = context /\ firmware' = [firmware EXCEPT ![n] = Operators]
    BY <1>5, <2>1 DEF PlaceImage
  <2>3. \A e \in Devices \ {d} : \A m \in Mine(e) : firmware'[m] = firmware[m]
    BY <1>1, <2>1, <2>2, Apart, MineAreFiles DEF TypesOK
  <2>4. TypesOK'
    BY <1>1, <1>2, <2>2 DEF TypesOK
  <2> QED
    BY <1>1, <2>2, <2>3, <2>4, EditStep
<1> QED
  BY <1>1, <1>3, <1>4, <1>5

\* Nothing happens.
LEMMA Stutters ==
  ASSUME SyncInv, UNCHANGED vars
  PROVE  SyncInv'
<1>1. Fixed /\ UNCHANGED <<netbox, context, store, firmware, run, edits>> /\ TypesOK /\ StoreOK
  BY DEF vars, Fixed, SyncInv
<1>2. TypesOK' /\ FilesStay /\ StoreOK'
  BY <1>1 DEF TypesOK, FilesStay, StoreOK, Host, Serial, LinkTo
<1>3. ASSUME NEW n \in FileNames PROVE TmpOK(n)'
  <2>1. \A w \in Runs : w \in Writing(n)' <=> w \in Writing(n)
    BY <1>1, WritingStays
  <2>2. TmpOK(n)
    BY DEF SyncInv
  <2> QED
    BY <1>1, <2>1, <2>2, TmpKeeps DEF Told
<1>4. ASSUME NEW q \in Runs, NEW y, y = run'[q] PROVE RunInv(q, y)'
  <2>1. RunInv(q, y) /\ Like(y, y)
    BY <1>1, <1>4 DEF SyncInv, Like
  <2>2. \A e \in Devices : Same(e)
    BY <1>1 DEF Same
  <2> QED
    BY <1>1, <1>2, <2>1, <2>2, LikeKeeps
<1> QED
  BY <1>2, <1>3, <1>4, Assembled

-----------------------------------------------------------------------------
(* The properties.                                                           *)

SiblingsStep ==
  \A d \in Devices :
    context'[d].sibling = context[d].sibling \/ edits' = edits + 1
    \/ \E r \in Runs : /\ run[r].pc = "save" /\ run'[r].pc # "save"
                       /\ run[r].device = d /\ d \notin run[r].quiet

LEMMA SyncSteps ==
  ASSUME SyncAssumption, SpinesAssumption
  PROVE  SyncInv /\ [Next]_vars => SyncInv' /\ [SiblingsStep]_vars
<1> SUFFICES ASSUME SyncInv, [Next]_vars PROVE SyncInv' /\ [SiblingsStep]_vars
  OBVIOUS
<1>1. ASSUME NEW r \in Runs, save_config_to_netbox(r) PROVE SyncInv' /\ SiblingsStep
  BY <1>1, SaveStep DEF SiblingsStep
<1>2. ASSUME NEW r \in Runs,
             \/ \E target \in Requests[r] : Start(r, target)
             \/ Query(r) \/ Group(r)
             \/ \E d \in Devices : NextDevice(r, d)
             \/ NoMoreDevices(r) \/ Generate(r)
             \/ Compare(r) \/ ExportOpen(r) \/ ExportReplace(r) \/ HostLink(r)
             \/ Finish(r) \/ Kill(r)
      PROVE  SyncInv' /\ SiblingsStep
  <2>1. context' = context
    BY <1>2 DEF Query, Group, NextDevice, NoMoreDevices, Generate, Compare, ExportOpen, ExportReplace, HostLink,
                Finish, Kill, Start
  <2>2. SyncInv'
    BY <1>2, QueryStep, GroupStep, NextStep, FinishStep, GenerateStep, CompareStep, OpenStep, ReplaceStep,
       HostLinkStep, StartStep
  <2> QED
    BY <2>1, <2>2 DEF SiblingsStep
<1>3. CASE \E d \in Devices : EditDevice(d) \/ CoOwner(d) \/ PlaceImage(d)
  BY <1>3, Edits DEF SiblingsStep
<1>4. CASE UNCHANGED vars
  BY <1>4, Stutters
<1> QED
  BY <1>1, <1>2, <1>3, <1>4 DEF Next, Step

LEMMA SyncHolds ==
  ASSUME SyncAssumption, SpinesAssumption
  PROVE  Spec => []SyncInv /\ [][SiblingsStep]_vars
<1>1. Init => SyncInv
  BY SyncStarts
<1>2. SyncInv /\ [Next]_vars => SyncInv' /\ [SiblingsStep]_vars
  BY SyncSteps
<1> QED
  BY <1>1, <1>2, PTL DEF Spec

\* What the invariant says of the files, and of what a run leaves.
LEMMA FilesWhole == SyncInv => WholeFiles
<1> SUFFICES ASSUME SyncInv, NEW n \in FileNames
             PROVE  /\ store[n].kind = "partial" => \E r \in Runs : Suspected(r, n)
                    /\ store[n].kind = "link" => store[store[n].to].kind \in {"file", "partial"}
  BY DEF WholeFiles
<1>1. store[n].kind = "partial" => \E r \in Runs : Suspected(r, n)
  BY DEF SyncInv, TmpOK, Suspected
<1>2. ASSUME store[n].kind = "link" PROVE store[store[n].to].kind \in {"file", "partial"}
  <2>1. PICK d \in Devices : n = Host(d) \/ \E k \in Numbers : n = Serial(d, k)
    BY FilesAreMine
  <2>2. n = Host(d)
    BY <1>2, <2>1 DEF SyncInv, StoreOK
  <2>3. PICK k \in Numbers : store[n] = LinkTo(Serial(d, k)) /\ store[Serial(d, k)].kind \in There
    BY <1>2, <2>1, <2>2 DEF SyncInv, StoreOK
  <2>4. store[n].to = Serial(d, k)
    BY <2>3 DEF LinkTo
  <2> QED
    BY <2>3, <2>4 DEF There
<1> QED
  BY <1>1, <1>2

LEMMA RunsExport == SyncInv => CleanRunExports
<1> SUFFICES ASSUME SyncInv, NEW r \in Runs, run[r].pc = "finished", run[r].rc = 0,
                    NEW d \in (Targets(run[r].target) \cap run[r].quiet) \ run[r].swallowed
             PROVE  UpToDate(run[r].target, d)
  BY DEF CleanRunExports
<1>1. d \in Devices /\ Clean(run[r], d)
  BY DEF Targets, SonicDevices, Clean
<1>2. CleanOK(r, run[r], d)
  BY <1>1 DEF SyncInv, RunInv
<1> QED
  BY <1>1, <1>2 DEF CleanOK, Working, Grouped

-----------------------------------------------------------------------------
(* The groups of spines.  Component counts rounds of a search; the property *)
(* speaks of sets that are closed under cables.  They meet in this: within  *)
(* as many rounds as there are spines, one adds nothing, as each before it  *)
(* has added one (ComponentSettled), and no round leaves a closed set       *)
(* (ComponentLeast).                                                        *)

\* A round of the search adds what is one cable away.
Round(S, X) == X \cup UNION {Groups!Linked(e, S, {}) : e \in X}

\* The rounds as Component defines them.
Rounds(d, S, f) ==
  f = [n \in Nat |-> IF n = 0 THEN {d} ELSE f[n - 1] \cup UNION {Groups!Linked(e, S, {}) : e \in f[n - 1]}]

LEMMA GroupRounds ==
  ASSUME NEW d, NEW S
  PROVE  \E f : Rounds(d, S, f)
<1>1. PICK links : links = [e \in S \cup {d} |-> Groups!Linked(e, S, {})]
  OBVIOUS
<1>2. \A e \in S \cup {d} : links[e] = Groups!Linked(e, S, {}) /\ links[e] \subseteq S
  BY <1>1 DEF Groups!Linked
<1>3. PICK f : Search(d, S, links, f)
  BY <1>2, RoundsExist
<1>4. \A n \in Nat \ {0} : UNION {links[e] : e \in f[n - 1]} = UNION {Groups!Linked(e, S, {}) : e \in f[n - 1]}
  BY <1>2, <1>3, \A n \in Nat \ {0} : n - 1 \in Nat DEF Search
<1>5. Rounds(d, S, f)
  BY <1>3, <1>4 DEF Search, Rounds
<1> QED
  BY <1>5

LEMMA ComponentIs ==
  ASSUME NEW d, NEW S
  PROVE  \E f : Rounds(d, S, f) /\ Groups!Component(d, S, {}) = f[Cardinality(S)]
<1> DEFINE r == CHOOSE f : f = [n \in Nat |-> IF n = 0 THEN {d}
                   ELSE f[n - 1] \cup UNION {Groups!Linked(e, S, {}) : e \in f[n - 1]}]
<1>1. Groups!Component(d, S, {}) = r[Cardinality(S)]
  BY DEF Groups!Component, Groups!Cardinality, Cardinality
<1>2. \E f : f = [n \in Nat |-> IF n = 0 THEN {d}
                   ELSE f[n - 1] \cup UNION {Groups!Linked(e, S, {}) : e \in f[n - 1]}]
  <2>1. PICK f : Rounds(d, S, f)
    BY GroupRounds
  <2> WITNESS f
  <2> QED
    BY <2>1, Zenon DEF Rounds
<1>3. Rounds(d, S, r)
  BY <1>2, Zenon DEF Rounds
<1> QED
  BY <1>1, <1>3

\* What the rounds are, without the function.
LEMMA RoundsAre ==
  ASSUME NEW d, NEW S, NEW f, Rounds(d, S, f)
  PROVE  f[0] = {d} /\ \A n \in Nat : f[n + 1] = Round(S, f[n])
<1>1. f[0] = {d}
  BY DEF Rounds
<1>2. ASSUME NEW n \in Nat
      PROVE  f[n + 1] = Round(S, f[n])
  <2>1. n + 1 \in Nat /\ n + 1 # 0 /\ (n + 1) - 1 = n
    OBVIOUS
  <2>2. f[n + 1] = f[(n + 1) - 1] \cup UNION {Groups!Linked(e, S, {}) : e \in f[(n + 1) - 1]}
    BY <2>1 DEF Rounds
  <2> QED
    BY <2>1, <2>2 DEF Round
<1> QED
  BY <1>1, <1>2

\* A set is settled when a round adds nothing.
Settled(S, X) == \A d \in X, e \in S : {d, e} \in cabling /\ SwitchRole[d] = SwitchRole[e] => e \in X

LEMMA SettledRound ==
  ASSUME NEW S, NEW X, X \subseteq S
  PROVE  Settled(S, X) <=> Round(S, X) = X
<1>1. Round(S, X) = X <=> \A e \in X : Groups!Linked(e, S, {}) \subseteq X
  BY DEF Round
<1>2. \A d \in X : Groups!Linked(d, S, {}) = {e \in S \ {d} : SwitchRole[e] = SwitchRole[d] /\ {d, e} \in cabling}
  BY DEF Groups!Linked
<1>3. ASSUME \A e \in X : Groups!Linked(e, S, {}) \subseteq X
      PROVE  Settled(S, X)
  BY <1>2, <1>3 DEF Settled
<1>4. ASSUME Settled(S, X)
      PROVE  \A e \in X : Groups!Linked(e, S, {}) \subseteq X
  BY <1>2, <1>4 DEF Settled
<1> QED
  BY <1>1, <1>3, <1>4

LEMMA RoundGrows ==
  ASSUME NEW S, NEW X, NEW Y, X \subseteq Y
  PROVE  X \subseteq Round(S, X) /\ Round(S, X) \subseteq Round(S, Y) /\ (X \subseteq S => Round(S, X) \subseteq S)
BY DEF Round, Groups!Linked

\* Within |S| rounds the search is settled.
LEMMA ComponentSettled ==
  ASSUME NEW S, IsFiniteSet(S), NEW d \in S, NEW f, Rounds(d, S, f)
  PROVE  LET c == f[Cardinality(S)]
         IN  d \in c /\ c \subseteq S /\ Settled(S, c)
<1>0. f[0] = {d} /\ \A n \in Nat : f[n + 1] = Round(S, f[n])
  BY RoundsAre
<1>1. \A n \in Nat : f[n] \subseteq S /\ d \in f[n]
  <2> DEFINE T == {n \in Nat : f[n] \subseteq S /\ d \in f[n]}
  <2>1. 0 \in T
    BY <1>0
  <2>2. ASSUME NEW n \in Nat, n \in T PROVE n + 1 \in T
    BY <1>0, <2>2, RoundGrows, n + 1 \in Nat
  <2>3. Nat \subseteq T
    <3> HIDE DEF T
    <3> QED
      BY <2>1, <2>2, Inductive
  <2> QED
    BY <2>3
<1>2. \A n \in Nat : IsFiniteSet(f[n]) /\ Cardinality(f[n]) \in Nat /\ Cardinality(f[n]) <= Cardinality(S)
  BY <1>1, FS_Subset, FS_CardinalityType
<1>3. Cardinality(S) \in Nat
  BY FS_CardinalityType
\* either some round up to n added nothing, or each has added one
<1>4. \A n \in Nat : Settled(S, f[n]) \/ Cardinality(f[n]) >= n + 1
  <2> DEFINE T == {n \in Nat : Settled(S, f[n]) \/ Cardinality(f[n]) >= n + 1}
  <2>1. 0 \in T
    <3>1. Cardinality({d}) = 1
      BY FS_Singleton
    <3> QED
      BY <1>0, <3>1
  <2>2. ASSUME NEW n \in Nat, n \in T PROVE n + 1 \in T
    <3>0. n + 1 \in Nat /\ f[n + 1] = Round(S, f[n]) /\ f[n] \subseteq S /\ f[n + 1] \subseteq S
      BY <1>0, <1>1
    <3>1. CASE Round(S, f[n]) = f[n]
      <4>1. Settled(S, f[n])
        BY <3>0, <3>1, SettledRound
      <4>2. Settled(S, f[n + 1])
        BY <3>0, <3>1, <4>1
      <4> QED
        BY <3>0, <4>2
    <3>2. CASE Round(S, f[n]) # f[n]
      <4>1. ~Settled(S, f[n])
        BY <3>0, <3>2, SettledRound
      <4>2. Cardinality(f[n]) >= n + 1
        BY <2>2, <4>1
      <4>3. f[n] \subseteq f[n + 1] /\ f[n] # f[n + 1]
        BY <3>0, <3>2, RoundGrows
      <4>4. Cardinality(f[n]) <= Cardinality(f[n + 1]) /\ Cardinality(f[n]) # Cardinality(f[n + 1])
        <5>1. IsFiniteSet(f[n + 1]) /\ f[n] \in SUBSET f[n + 1]
          BY <1>2, <3>0, <4>3
        <5>2. Cardinality(f[n]) <= Cardinality(f[n + 1])
          BY <5>1, FS_Subset
        <5>3. Cardinality(f[n + 1]) = Cardinality(f[n]) => f[n + 1] = f[n]
          BY <5>1, FS_Subset
        <5> QED
          BY <4>3, <5>2, <5>3
      <4>5. Cardinality(f[n]) \in Nat /\ Cardinality(f[n + 1]) \in Nat
        BY <1>2, <3>0
      <4>6. Cardinality(f[n + 1]) >= (n + 1) + 1
        BY <4>2, <4>4, <4>5
      <4> QED
        BY <3>0, <4>6
    <3> QED
      BY <3>1, <3>2
  <2>3. Nat \subseteq T
    <3> HIDE DEF T
    <3> QED
      BY <2>1, <2>2, Inductive
  <2> QED
    BY <2>3
<1>5. Settled(S, f[Cardinality(S)])
  <2>1. Cardinality(f[Cardinality(S)]) \in Nat /\ Cardinality(f[Cardinality(S)]) <= Cardinality(S)
    BY <1>2, <1>3
  <2>2. ~(Cardinality(f[Cardinality(S)]) >= Cardinality(S) + 1)
    BY <1>3, <2>1
  <2> QED
    BY <1>3, <1>4, <2>2
<1> QED
  BY <1>1, <1>3, <1>5

\* It is in every settled set that has its start.
LEMMA ComponentLeast ==
  ASSUME NEW S, IsFiniteSet(S), NEW d \in S, NEW f, Rounds(d, S, f),
         NEW s, s \subseteq S, d \in s, Settled(S, s)
  PROVE  f[Cardinality(S)] \subseteq s
<1>0. f[0] = {d} /\ \A n \in Nat : f[n + 1] = Round(S, f[n])
  BY RoundsAre
<1>1. \A n \in Nat : f[n] \subseteq s
  <2> DEFINE T == {n \in Nat : f[n] \subseteq s}
  <2>1. 0 \in T
    BY <1>0
  <2>2. ASSUME NEW n \in Nat, n \in T PROVE n + 1 \in T
    <3>1. Round(S, s) = s
      BY SettledRound
    <3> QED
      BY <1>0, <2>2, <3>1, RoundGrows, n + 1 \in Nat
  <2>3. Nat \subseteq T
    <3> HIDE DEF T
    <3> QED
      BY <2>1, <2>2, Inductive
  <2> QED
    BY <2>3
<1> QED
  BY <1>1, FS_CardinalityType

\* Of a finite set with its cables, a component is the least settled set
\* around its first device,
LEMMA ComponentFacts ==
  ASSUME NEW S, IsFiniteSet(S), NEW d \in S
  PROVE  /\ d \in Groups!Component(d, S, {}) /\ Groups!Component(d, S, {}) \subseteq S
         /\ Settled(S, Groups!Component(d, S, {}))
         /\ \A s \in SUBSET S : d \in s /\ Settled(S, s) => Groups!Component(d, S, {}) \subseteq s
<1>1. PICK f : Rounds(d, S, f) /\ Groups!Component(d, S, {}) = f[Cardinality(S)]
  BY ComponentIs
<1>2. d \in Groups!Component(d, S, {}) /\ Groups!Component(d, S, {}) \subseteq S /\ Settled(S, Groups!Component(d, S, {}))
  BY <1>1, ComponentSettled
<1>3. \A s \in SUBSET S : d \in s /\ Settled(S, s) => Groups!Component(d, S, {}) \subseteq s
  BY <1>1, ComponentLeast
<1> QED
  BY <1>2, <1>3

\* and the component of each device in it.
LEMMA ComponentShared ==
  ASSUME NEW S, IsFiniteSet(S), NEW d \in S, NEW e \in Groups!Component(d, S, {})
  PROVE  Groups!Component(e, S, {}) = Groups!Component(d, S, {})
<1>1. e \in S
  BY ComponentFacts
<1>2. Groups!Component(e, S, {}) \subseteq Groups!Component(d, S, {})
  BY <1>1, ComponentFacts
<1>3. d \in Groups!Component(e, S, {})
  <2> DEFINE rest == S \ Groups!Component(e, S, {})
  <2>1. Settled(S, rest)
    <3> SUFFICES ASSUME NEW x \in rest, NEW y \in S, {x, y} \in cabling, SwitchRole[x] = SwitchRole[y],
                        y \in Groups!Component(e, S, {})
                 PROVE  FALSE
      BY DEF Settled
    <3>1. {y, x} = {x, y}
      OBVIOUS
    <3>2. Settled(S, Groups!Component(e, S, {}))
      BY <1>1, ComponentFacts
    <3> QED
      BY <3>1, <3>2 DEF Settled
  <2>2. e \in Groups!Component(e, S, {})
    BY <1>1, ComponentFacts
  <2> SUFFICES ASSUME d \in rest PROVE FALSE
    OBVIOUS
  <2>3. Groups!Component(d, S, {}) \subseteq rest
    <3> HIDE DEF rest
    <3>1. rest \subseteq S
      BY DEF rest
    <3> QED
      BY <2>1, <3>1, ComponentFacts
  <2> QED
    BY <2>2, <2>3
<1>4. Groups!Component(d, S, {}) \subseteq Groups!Component(e, S, {})
  BY <1>1, <1>3, ComponentFacts
<1> QED
  BY <1>2, <1>4

LEMMA SpinesFinite == Groups!SpinesAssumption => IsFiniteSet(Groups!Spines)
<1> SUFFICES ASSUME Groups!SpinesAssumption PROVE IsFiniteSet(Groups!Spines)
  OBVIOUS
<1>1. IsFiniteSet(Switches)
  BY DEF Groups!SpinesAssumption, Groups!IsFiniteSet, IsFiniteSet
<1>2. Groups!Spines \subseteq Switches
  BY DEF Groups!Spines
<1> QED
  BY <1>1, <1>2, FS_Subset

\* The component is what Connected means.
LEMMA ComponentConnected ==
  ASSUME Groups!SpinesAssumption, NEW d \in Groups!Spines
  PROVE  {e \in Groups!Spines : Groups!Connected(d, e)} = Groups!Component(d, Groups!Spines, {})
<1>1. IsFiniteSet(Groups!Spines)
  BY SpinesFinite
<1>2. \A s : Groups!Closed(s) <=> Settled(Groups!Spines, s)
  BY DEF Groups!Closed, Settled
<1>3. ASSUME NEW e \in Groups!Spines, Groups!Connected(d, e)
      PROVE  e \in Groups!Component(d, Groups!Spines, {})
  BY <1>1, <1>2, <1>3, ComponentFacts DEF Groups!Connected
<1>4. ASSUME NEW e \in Groups!Component(d, Groups!Spines, {})
      PROVE  e \in Groups!Spines /\ Groups!Connected(d, e)
  BY <1>1, <1>2, ComponentFacts DEF Groups!Connected
<1> QED
  BY <1>3, <1>4

\* Min is the least of some natural numbers.
LEMMA MinIsIn ==
  ASSUME NEW T, T \subseteq Nat, T # {}
  PROVE  Groups!Min(T) \in T
<1>1. \E x \in T : \A y \in T : x <= y
  BY Least
<1> QED
  BY <1>1, Zenon DEF Groups!Min

LEMMA GroupNumber ==
  ASSUME Groups!SpinesAssumption, NEW d \in Groups!Spines, NEW target, Groups!Considered(target) = Groups!Spines
  PROVE  Groups!AsNumber(d, target, {}) = Groups!calculate_minimum_as_for_group({e \in Groups!Spines : Groups!Connected(d, e)})
<1> DEFINE g == Groups!Component(d, Groups!Spines, {})
           groups == {h \in Groups!find_interconnected_devices(Groups!Spines, {}) : d \in h}
<1>1. IsFiniteSet(Groups!Spines)
  BY SpinesFinite
<1>2. g = {e \in Groups!Spines : Groups!Connected(d, e)}
  BY ComponentConnected
<1>3. d \in g /\ g \subseteq Groups!Spines /\ Groups!Spines \subseteq Switches
  BY <1>1, ComponentFacts DEF Groups!Spines
<1>4. groups \subseteq {g}
  <2> SUFFICES ASSUME NEW e \in Groups!Spines, d \in Groups!Component(e, Groups!Spines, {})
               PROVE  Groups!Component(e, Groups!Spines, {}) = g
    BY DEF Groups!find_interconnected_devices
  <2> QED
    BY <1>1, ComponentShared
<1>5. SwitchAs[d] \in Nat
  BY <1>3 DEF Groups!SpinesAssumption
<1>6. CASE groups = {}
  <2>1. Groups!AsNumber(d, target, {}) = SwitchAs[d]
    BY <1>6 DEF Groups!AsNumber
  <2>2. Groups!Linked(d, Groups!Spines, {}) = {}
    <3> SUFFICES ASSUME Groups!Linked(d, Groups!Spines, {}) # {} PROVE FALSE
      OBVIOUS
    <3>1. g \in groups
      BY <1>3 DEF Groups!find_interconnected_devices
    <3> QED
      BY <1>6, <3>1
  <2>3. g = {d}
    <3>1. Settled(Groups!Spines, {d})
      BY <2>2 DEF Settled, Groups!Linked
    <3> QED
      BY <1>1, <1>3, <3>1, ComponentFacts
  <2>4. {SwitchAs[e] : e \in g} = {SwitchAs[d]}
    BY <2>3
  <2>5. Groups!calculate_minimum_as_for_group(g) = SwitchAs[d]
    <3>1. CASE SwitchAs[d] = 0
      BY <2>4, <3>1 DEF Groups!calculate_minimum_as_for_group
    <3>2. CASE SwitchAs[d] # 0
      <4>1. {SwitchAs[e] : e \in g} \ {0} = {SwitchAs[d]}
        BY <2>4, <3>2
      <4>2. Groups!Min({SwitchAs[d]}) = SwitchAs[d]
        BY <1>5, MinIsIn
      <4> QED
        BY <4>1, <4>2 DEF Groups!calculate_minimum_as_for_group
    <3> QED
      BY <3>1, <3>2
  <2> QED
    BY <1>2, <2>1, <2>5
<1>7. CASE groups = {g}
  <2> DEFINE number == Groups!calculate_minimum_as_for_group(g)
             numbers == {SwitchAs[e] : e \in g} \ {0}
  <2>1. Groups!AsNumber(d, target, {}) = IF number # 0 THEN number ELSE SwitchAs[d]
    <3>1. UNION {g} = g /\ {g} # {}
      OBVIOUS
    <3> QED
      BY <1>7, <3>1 DEF Groups!AsNumber
  <2>2. number = 0 => SwitchAs[d] = 0
    <3> SUFFICES ASSUME SwitchAs[d] # 0 PROVE number # 0
      OBVIOUS
    <3>1. numbers \subseteq Nat /\ numbers # {} /\ 0 \notin numbers
      BY <1>3 DEF Groups!SpinesAssumption
    <3>2. number = Groups!Min(numbers)
      BY <3>1 DEF Groups!calculate_minimum_as_for_group
    <3> HIDE DEF numbers
    <3> QED
      BY <3>1, <3>2, MinIsIn
  <2> QED
    BY <1>2, <2>1, <2>2
<1> QED
  BY <1>4, <1>6, <1>7

-----------------------------------------------------------------------------
(* The configuration of a device.  A helper changes its own tables only, so  *)
(* that what a table has in the end is what its last writer left: the proofs *)
(* follow each table from the scaffold to the end.                           *)

\* e is c with other tables in the names ts only.
Leaves(c, e, ts) ==
  /\ DOMAIN c \subseteq DOMAIN e
  /\ \A t \in DOMAIN c \ ts : e[t] = c[t]

\* A configuration leaves its own tables alone, and so does one with a table
\* of these names put into it.
LEMMA SelfLeaves ==
  ASSUME NEW c, NEW ts PROVE Leaves(c, c, ts)
BY DEF Leaves

LEMMA PutLeaves ==
  ASSUME NEW a, NEW c, NEW ts, Leaves(a, c, ts), NEW t \in ts, NEW rows
  PROVE  Leaves(a, Put(c, t, rows), ts)
BY DEF Put, Leaves

\* A table has the rows it had and those that are put into it.
LEMMA PutTable ==
  ASSUME NEW c, NEW t \in DOMAIN c, NEW rows
  PROVE  /\ DOMAIN Put(c, t, rows)[t] = DOMAIN rows \cup DOMAIN c[t]
         /\ \A k \in DOMAIN rows : Put(c, t, rows)[t][k] = rows[k]
         /\ \A k \in DOMAIN c[t] \ DOMAIN rows : Put(c, t, rows)[t][k] = c[t][k]
BY DEF Put, Over

\* ... and the other tables are as they were.
LEMMA PutOther ==
  ASSUME NEW c, NEW t \in DOMAIN c, NEW u, NEW rows
  PROVE  /\ t \in DOMAIN Put(c, u, rows)
         /\ u # t => Put(c, u, rows)[t] = c[t]
BY DEF Put

\* The names of the tables that the helpers write.
VrfTables == {"VRF", "BGP_GLOBALS", "BGP_GLOBALS_AF", "BGP_GLOBALS_ROUTE_ADVERTISE", "ROUTE_REDISTRIBUTE"}
BgpTables == {"BGP_NEIGHBOR", "BGP_NEIGHBOR_AF"}
VlanTables == {"VLAN", "VLAN_MEMBER", "VLAN_INTERFACE"}
LagTables == {"PORTCHANNEL", "PORTCHANNEL_INTERFACE", "PORTCHANNEL_MEMBER"}
VxlanTables == {"VXLAN_TUNNEL", "VXLAN_EVPN_NVO", "VXLAN_TUNNEL_MAP"}
BreakoutTableNames == {"BREAKOUT_CFG", "BREAKOUT_PORTS"}
ServiceTables ==
  {"NTP_SERVER", "DNS_NAMESERVER", "LOOPBACK", "LOOPBACK_INTERFACE", "BGP_GLOBALS_AF_NETWORK",
   "SYSLOG_SERVER", "MGMT_INTERFACE", "STATIC_ROUTE", "ACL_TABLE", "ACL_RULE", "SNMP_SERVER",
   "SNMP_AGENT_ADDRESS_CONFIG", "SNMP_SERVER_GROUP_MEMBER", "SNMP_SERVER_USER", "SNMP_SERVER_PARAMS",
   "SNMP_SERVER_TARGET"}

\* Each helper leaves the tables alone that are not its own.
LEMMA DefaultVrfLeaves ==
  ASSUME NEW c, NEW d, NEW m
  PROVE  Leaves(c, add_default_vrf_configuration(c, d, m), VrfTables)
BY PutLeaves, SelfLeaves DEF add_default_vrf_configuration, VrfTables

LEMMA PortsLeave ==
  ASSUME NEW c, NEW in
  PROVE  Leaves(c, add_port_configurations(c, in), {"PORT"})
BY PutLeaves, SelfLeaves DEF add_port_configurations

LEMMA InterfacesLeave ==
  ASSUME NEW c, NEW in
  PROVE  Leaves(c, add_interface_configurations(c, in), {"INTERFACE"})
BY PutLeaves, SelfLeaves DEF add_interface_configurations

LEMMA BgpLeaves ==
  ASSUME NEW c, NEW d, NEW in, NEW m
  PROVE  Leaves(c, add_bgp_configurations(c, d, in, m), BgpTables)
<1>1. Leaves(c, add_bgp_neighbor_af(c, d, in), BgpTables)
  BY PutLeaves, SelfLeaves DEF add_bgp_neighbor_af, BgpTables
<1>2. ASSUME NEW b, Leaves(c, b, BgpTables) PROVE Leaves(c, add_bgp_neighbors(b, d, in, m), BgpTables)
  BY <1>2, PutLeaves DEF add_bgp_neighbors, BgpTables
<1>3. ASSUME NEW b, Leaves(c, b, BgpTables) PROVE Leaves(c, add_svi_neighbors(b, d, in), BgpTables)
  BY <1>3, PutLeaves DEF add_svi_neighbors, BgpTables
<1> QED
  BY <1>1, <1>2, <1>3 DEF add_bgp_configurations

LEMMA VlansLeave ==
  ASSUME NEW c, NEW in
  PROVE  Leaves(c, add_vlan_configuration(c, in), VlanTables)
BY PutLeaves, SelfLeaves DEF add_vlan_configuration, VlanTables

LEMMA ServicesLeave ==
  ASSUME NEW a, NEW c, NEW d, Leaves(a, c, ServiceTables)
  PROVE  /\ Leaves(a, add_ntp_configuration(c, d), ServiceTables)
         /\ Leaves(a, add_dns_configuration(c, d), ServiceTables)
         /\ Leaves(a, add_loopback_configuration(c, d), ServiceTables)
         /\ Leaves(a, add_log_server_configuration(c, d), ServiceTables)
         /\ Leaves(a, add_management_interface(c, d), ServiceTables)
         /\ Leaves(a, add_snmp_configuration(c, d), ServiceTables)
<1>1. Leaves(a, add_ntp_configuration(c, d), ServiceTables)
  BY PutLeaves DEF add_ntp_configuration, ServiceTables
<1>2. Leaves(a, add_dns_configuration(c, d), ServiceTables)
  BY PutLeaves DEF add_dns_configuration, ServiceTables
<1>3. Leaves(a, add_loopback_configuration(c, d), ServiceTables)
  BY PutLeaves DEF add_loopback_configuration, ServiceTables
<1>4. Leaves(a, add_log_server_configuration(c, d), ServiceTables)
  BY DEF add_log_server_configuration, Leaves, ServiceTables
<1>5. ASSUME NEW b, Leaves(a, b, ServiceTables), NEW oob
      PROVE  Leaves(a, add_ctrlplane_acls(b, oob), ServiceTables)
  BY <1>5, PutLeaves DEF add_ctrlplane_acls, ServiceTables
<1>6. Leaves(a, add_management_interface(c, d), ServiceTables)
  BY <1>5, PutLeaves DEF add_management_interface, ServiceTables
<1>7. Leaves(a, add_snmp_configuration(c, d), ServiceTables)
  BY PutLeaves DEF add_snmp_configuration, ServiceTables
<1> QED
  BY <1>1, <1>2, <1>3, <1>4, <1>6, <1>7

LEMMA BreakoutsLeave ==
  ASSUME NEW c, NEW in
  PROVE  Leaves(c, add_breakouts(c, in), BreakoutTableNames)
BY PutLeaves, SelfLeaves DEF add_breakouts, BreakoutTableNames

LEMMA LagsLeave ==
  ASSUME NEW c, NEW in
  PROVE  Leaves(c, add_portchannel_configuration(c, in), LagTables)
BY PutLeaves, SelfLeaves DEF add_portchannel_configuration, LagTables

LEMMA VniLeavesMost ==
  ASSUME NEW c, NEW in
  PROVE  Leaves(c, add_vni_vrfs(c, in),
                {"VLAN", "VLAN_INTERFACE", "BGP_GLOBALS_AF", "BGP_GLOBALS_ROUTE_ADVERTISE", "ROUTE_REDISTRIBUTE"})
<1> DEFINE ts == {"VLAN", "VLAN_INTERFACE", "BGP_GLOBALS_AF", "BGP_GLOBALS_ROUTE_ADVERTISE", "ROUTE_REDISTRIBUTE"}
           vnis == {v \in DOMAIN in.vrfs : in.vrfs[v] # 0}
           Vni(v) == in.vrfs[v]
           Owner(n) == CHOOSE v \in vnis : Vni(v) = n
           r1 == Rows({Vni(v) : v \in vnis}, [members |-> {}])
           r2 == [k \in {<<Vni(v)>> : v \in vnis} |-> [vrf |-> Owner(k[1])]]
           r3 == [k \in {<<v, af>> : v \in vnis, af \in {"ipv4_unicast", "l2vpn_evpn"}} |->
                    [rt |-> IF k[2] = "l2vpn_evpn" THEN Vni(k[1]) ELSE 0]]
           r4 == Rows({<<v, af>> : v \in vnis, af \in {"IPV4_UNICAST", "IPV6_UNICAST"}}, <<>>)
           r5 == Rows({<<v, "ipv4">> : v \in vnis}, <<>>)
<1>1. add_vni_vrfs(c, in) = Put(Put(Put(Put(Put(c, "VLAN", r1), "VLAN_INTERFACE", r2), "BGP_GLOBALS_AF", r3),
                                    "BGP_GLOBALS_ROUTE_ADVERTISE", r4), "ROUTE_REDISTRIBUTE", r5)
  BY DEF add_vni_vrfs
<1> HIDE DEF r1, r2, r3, r4, r5
<1> QED
  BY <1>1, PutLeaves, SelfLeaves

LEMMA VniLeaves ==
  ASSUME NEW c, NEW in
  PROVE  Leaves(c, add_vni_vrfs(c, in), {"VLAN", "VLAN_INTERFACE"} \cup VrfTables)
BY VniLeavesMost DEF Leaves, VrfTables

LEMMA VxlanLeaves ==
  ASSUME NEW c, NEW in
  PROVE  Leaves(c, add_vxlan(c, in), VxlanTables)
BY PutLeaves, SelfLeaves DEF add_vxlan, VxlanTables

LEMMA VersionLeaves ==
  ASSUME NEW c, NEW v
  PROVE  Leaves(c, set_database_version(c, v), {"VERSIONS"})
BY PutLeaves, SelfLeaves DEF set_database_version

-----------------------------------------------------------------------------

\* What the first helper is given: the scaffold, with every owned table empty.
LEMMA FreshTables ==
  ASSUME NEW d
  PROVE  /\ TOP_LEVEL_SCAFFOLD_KEYS \subseteq DOMAIN FreshConfig(d)
         /\ \A t \in TOP_LEVEL_SCAFFOLD_KEYS \ INHERITED_TABLE_KEYS : FreshConfig(d)[t] = NoRows
         /\ "TELEMETRY" \in DOMAIN BaseConfig =>
              "TELEMETRY" \in DOMAIN FreshConfig(d) /\ FreshConfig(d).TELEMETRY = BaseConfig.TELEMETRY
BY DEF FreshConfig, TOP_LEVEL_SCAFFOLD_KEYS, OWNED_TABLE_KEYS, INHERITED_TABLE_KEYS

\* The VLANs after the helper for VLANs ...
LEMMA VlanRows ==
  ASSUME NEW c, NEW in, "VLAN" \in DOMAIN c
  PROVE  DOMAIN add_vlan_configuration(c, in).VLAN = DOMAIN in.vlans.vlan_members \cup DOMAIN c.VLAN
<1> DEFINE vlans == in.vlans.vlan_members
           Of(v) == UNION {SonicNames(in, name) : name \in DOMAIN vlans[v]}
           c1 == Put(c, "VLAN", [v \in DOMAIN vlans |-> [members |-> Of(v)]])
<1>1. "VLAN" \in DOMAIN c1 /\ DOMAIN c1.VLAN = DOMAIN vlans \cup DOMAIN c.VLAN
  BY PutTable, PutOther
<1>2. \A b, r, t : "VLAN" \in DOMAIN b /\ t \in {"VLAN_MEMBER", "VLAN_INTERFACE"} =>
        "VLAN" \in DOMAIN Put(b, t, r) /\ Put(b, t, r).VLAN = b.VLAN
  BY PutOther
<1>3. PICK r1, r2, r3 : add_vlan_configuration(c, in)
          = Put(Put(Put(c1, "VLAN_MEMBER", r1), "VLAN_INTERFACE", r2), "VLAN_INTERFACE", r3)
  BY Zenon DEF add_vlan_configuration
<1> HIDE DEF c1
<1> QED
  BY <1>1, <1>2, <1>3

\* ... and after the one for VRFs with a VNI.
LEMMA VniRows ==
  ASSUME NEW c, NEW in, "VLAN" \in DOMAIN c
  PROVE  DOMAIN add_vni_vrfs(c, in).VLAN
           = {in.vrfs[v] : v \in {w \in DOMAIN in.vrfs : in.vrfs[w] # 0}} \cup DOMAIN c.VLAN
<1>1. \A b, r, t : "VLAN" \in DOMAIN b /\ t \in {"VLAN_INTERFACE"} \cup VrfTables =>
        "VLAN" \in DOMAIN Put(b, t, r) /\ Put(b, t, r).VLAN = b.VLAN
  BY PutOther DEF VrfTables
<1>2. \A r : DOMAIN Put(c, "VLAN", r).VLAN = DOMAIN r \cup DOMAIN c.VLAN
  BY PutTable
<1>3. \A r : "VLAN" \in DOMAIN Put(c, "VLAN", r)
  BY PutOther
<1> QED
  BY <1>1, <1>2, <1>3 DEF add_vni_vrfs, Rows, VrfTables

VrfStepTables == VrfTables \cup VxlanTables
                   \cup {"VLAN", "VLAN_INTERFACE", "INTERFACE", "PORTCHANNEL_INTERFACE"}

\* A table whose interfaces have learned their VRF.
Assigned(table, in) ==
  [k \in DOMAIN table |-> IF Len(k) = 1 /\ VrfName(in, k[1]) # Default
                         THEN [table[k] EXCEPT !.vrf = VrfName(in, k[1])] ELSE table[k]]

\* The row of an interface that comes with the default VRF learns its own.
LEMMA AssignedRow ==
  ASSUME NEW table, NEW in, NEW s, <<s>> \in DOMAIN table, NEW l, table[<<s>>] = [linklocal |-> l, vrf |-> Default]
  PROVE  Assigned(table, in)[<<s>>].vrf = VrfName(in, s)
<1>1. Len(<<s>>) = 1 /\ <<s>>[1] = s
  OBVIOUS
<1> QED
  BY <1>1 DEF Assigned

\* What the helper for VRFs writes, as far as VLANs and interfaces go.
LEMMA VrfTablesWritten ==
  ASSUME NEW c, NEW in, "VLAN" \in DOMAIN c, "INTERFACE" \in DOMAIN c, "PORTCHANNEL_INTERFACE" \in DOMAIN c
  PROVE  LET e == add_vrf_configuration(c, in)
         IN  /\ Leaves(c, e, VrfStepTables)
             /\ DOMAIN e.VLAN = {in.vrfs[v] : v \in {w \in DOMAIN in.vrfs : in.vrfs[w] # 0}} \cup DOMAIN c.VLAN
             /\ e.INTERFACE = Assigned(c.INTERFACE, in)
             /\ e.PORTCHANNEL_INTERFACE = Assigned(c.PORTCHANNEL_INTERFACE, in)
<1> DEFINE c1 == Put(c, "VRF", [v \in DOMAIN in.vrfs |-> [vni |-> in.vrfs[v]]])
           c2 == add_vni_vrfs(c1, in)
           c3 == Put(c2, "BGP_GLOBALS", [v \in DOMAIN in.vrfs |-> c.BGP_GLOBALS[Default]])
           c4 == add_vxlan(c3, in)
<1>1. add_vrf_configuration(c, in) = [c4 EXCEPT !.INTERFACE = Assigned(c4.INTERFACE, in),
                                                !.PORTCHANNEL_INTERFACE = Assigned(c4.PORTCHANNEL_INTERFACE, in)]
  BY DEF add_vrf_configuration, Assigned
<1>2. Leaves(c, c1, {"VRF"})
  BY PutLeaves, SelfLeaves
<1>3. Leaves(c1, c2, {"VLAN", "VLAN_INTERFACE"} \cup VrfTables)
  BY VniLeaves
<1>4. Leaves(c2, c3, {"BGP_GLOBALS"})
  BY PutLeaves, SelfLeaves
<1>5. Leaves(c3, c4, VxlanTables)
  BY VxlanLeaves
<1>6. c1.VLAN = c.VLAN /\ "VLAN" \in DOMAIN c1
  BY <1>2 DEF Leaves
<1>7. DOMAIN c2.VLAN = {in.vrfs[v] : v \in {w \in DOMAIN in.vrfs : in.vrfs[w] # 0}} \cup DOMAIN c.VLAN
  BY <1>6, VniRows
<1> HIDE DEF c1, c2, c3, c4
<1>8. Leaves(c, c4, VrfTables \cup VxlanTables \cup {"VLAN", "VLAN_INTERFACE"})
  BY <1>2, <1>3, <1>4, <1>5 DEF Leaves, VrfTables
<1>9. c4.INTERFACE = c.INTERFACE /\ c4.PORTCHANNEL_INTERFACE = c.PORTCHANNEL_INTERFACE
  BY <1>8 DEF Leaves, VrfTables, VxlanTables
<1>10. c4.VLAN = c2.VLAN
  BY <1>2, <1>3, <1>4, <1>5 DEF Leaves, VxlanTables
<1>11. "INTERFACE" \in DOMAIN c4 /\ "PORTCHANNEL_INTERFACE" \in DOMAIN c4 /\ "VLAN" \in DOMAIN c4
  BY <1>8 DEF Leaves
<1>12. Leaves(c, add_vrf_configuration(c, in), VrfStepTables)
  BY <1>1, <1>8 DEF Leaves, VrfStepTables
<1>13. add_vrf_configuration(c, in).VLAN = c2.VLAN
  BY <1>1, <1>10, <1>11
<1>14. /\ add_vrf_configuration(c, in).INTERFACE = Assigned(c4.INTERFACE, in)
       /\ add_vrf_configuration(c, in).PORTCHANNEL_INTERFACE = Assigned(c4.PORTCHANNEL_INTERFACE, in)
  BY <1>1, <1>11
<1> QED
  BY <1>7, <1>9, <1>12, <1>13, <1>14

\* The configuration after each helper.
Ported(c, in)         == add_port_configurations(c, in)
Routed(c, in)         == add_interface_configurations(Ported(c, in), in)
Peered(c, d, in, m)   == add_bgp_configurations(Routed(c, in), d, in, m)
Timed(c, d, in, m)    == add_dns_configuration(add_ntp_configuration(Peered(c, d, in, m), d), d)
Switched(c, d, in, m) == add_vlan_configuration(Timed(c, d, in, m), in)
Managed(c, d, in, m)  ==
  LET c7 == add_log_server_configuration(add_loopback_configuration(Switched(c, d, in, m), d), d)
  IN  add_snmp_configuration(add_management_interface(c7, d), d)
Broken(c, d, in, m)   == add_breakouts(Managed(c, d, in, m), in)
Bundled(c, d, in, m)  == add_portchannel_configuration(Broken(c, d, in, m), in)

Scaffold == TOP_LEVEL_SCAFFOLD_KEYS \ INHERITED_TABLE_KEYS

\* From one stage to the next only the tables of one helper change, and no
\* table of the scaffold is ever missing.
LEMMA Stages ==
  ASSUME NEW c, NEW d, NEW in, NEW m, Scaffold \subseteq DOMAIN c
  PROVE  /\ Leaves(c, Ported(c, in), {"PORT"})
         /\ Leaves(Ported(c, in), Routed(c, in), {"INTERFACE"})
         /\ Leaves(Routed(c, in), Peered(c, d, in, m), BgpTables)
         /\ Leaves(Peered(c, d, in, m), Timed(c, d, in, m), ServiceTables)
         /\ Leaves(Timed(c, d, in, m), Switched(c, d, in, m), VlanTables)
         /\ Leaves(Switched(c, d, in, m), Broken(c, d, in, m), ServiceTables \cup BreakoutTableNames)
         /\ Leaves(Broken(c, d, in, m), Bundled(c, d, in, m), LagTables)
         /\ Leaves(Bundled(c, d, in, m), AddTables(c, d, in, m), VrfStepTables)
         /\ AddTables(c, d, in, m) = add_vrf_configuration(Bundled(c, d, in, m), in)
         /\ \A e \in {Ported(c, in), Routed(c, in), Peered(c, d, in, m), Timed(c, d, in, m),
                      Switched(c, d, in, m), Broken(c, d, in, m), Bundled(c, d, in, m),
                      AddTables(c, d, in, m)} : Scaffold \subseteq DOMAIN e
<1>1. Leaves(c, Ported(c, in), {"PORT"})
  BY PortsLeave DEF Ported
<1>2. Leaves(Ported(c, in), Routed(c, in), {"INTERFACE"})
  BY InterfacesLeave DEF Routed
<1>3. Leaves(Routed(c, in), Peered(c, d, in, m), BgpTables)
  BY BgpLeaves DEF Peered
<1>4. Leaves(Peered(c, d, in, m), Timed(c, d, in, m), ServiceTables)
  BY ServicesLeave, SelfLeaves DEF Timed
<1>5. Leaves(Timed(c, d, in, m), Switched(c, d, in, m), VlanTables)
  BY VlansLeave DEF Switched
<1>6. Leaves(Switched(c, d, in, m), Managed(c, d, in, m), ServiceTables)
  BY ServicesLeave, SelfLeaves DEF Managed
<1>7. Leaves(Managed(c, d, in, m), Broken(c, d, in, m), BreakoutTableNames)
  BY BreakoutsLeave DEF Broken
<1>8. Leaves(Broken(c, d, in, m), Bundled(c, d, in, m), LagTables)
  BY LagsLeave DEF Bundled
<1>9. AddTables(c, d, in, m) = add_vrf_configuration(Bundled(c, d, in, m), in)
  BY DEF AddTables, Bundled, Broken, Managed, Switched, Timed, Peered, Routed, Ported
<1>10. Leaves(Switched(c, d, in, m), Broken(c, d, in, m), ServiceTables \cup BreakoutTableNames)
  BY <1>6, <1>7 DEF Leaves
<1>11. \A e \in {Ported(c, in), Routed(c, in), Peered(c, d, in, m), Timed(c, d, in, m),
                 Switched(c, d, in, m), Broken(c, d, in, m), Bundled(c, d, in, m)} : Scaffold \subseteq DOMAIN e
  BY <1>1, <1>2, <1>3, <1>4, <1>5, <1>8, <1>10 DEF Leaves
<1>12. Leaves(Bundled(c, d, in, m), AddTables(c, d, in, m), VrfStepTables)
  BY <1>9, <1>11, VrfTablesWritten DEF Scaffold, TOP_LEVEL_SCAFFOLD_KEYS, INHERITED_TABLE_KEYS
<1>13. Scaffold \subseteq DOMAIN AddTables(c, d, in, m)
  BY <1>11, <1>12 DEF Leaves
<1> QED
  BY <1>1, <1>2, <1>3, <1>4, <1>5, <1>8, <1>9, <1>10, <1>11, <1>12, <1>13

\* The tables that the properties are about are of the scaffold.
LEMMA ScaffoldNames ==
  {"VRF", "BGP_GLOBALS", "BGP_GLOBALS_AF", "BGP_NEIGHBOR", "BGP_NEIGHBOR_AF", "PORT", "INTERFACE",
   "VLAN", "VLAN_INTERFACE", "VLAN_MEMBER", "PORTCHANNEL", "PORTCHANNEL_INTERFACE",
   "PORTCHANNEL_MEMBER", "VXLAN_TUNNEL", "VXLAN_EVPN_NVO", "VXLAN_TUNNEL_MAP"} \subseteq Scaffold
BY DEF Scaffold, TOP_LEVEL_SCAFFOLD_KEYS, INHERITED_TABLE_KEYS

\* The VLANs of a configuration are those of the device, those of its VRFs, and
\* those it had.
LEMMA VlanTable ==
  ASSUME NEW c, NEW d, NEW in, NEW m, Scaffold \subseteq DOMAIN c
  PROVE  DOMAIN AddTables(c, d, in, m).VLAN
           = DOMAIN in.vlans.vlan_members \cup {in.vrfs[v] : v \in {w \in DOMAIN in.vrfs : in.vrfs[w] # 0}}
               \cup DOMAIN c.VLAN
<1> DEFINE c5 == Timed(c, d, in, m)
           c6 == Switched(c, d, in, m)
           c9 == Bundled(c, d, in, m)
<1>1. DOMAIN c6.VLAN = DOMAIN in.vlans.vlan_members \cup DOMAIN c5.VLAN
  BY Stages, ScaffoldNames, VlanRows DEF Switched
<1>2. c5.VLAN = c.VLAN
  BY Stages, ScaffoldNames DEF Leaves, BgpTables, ServiceTables
<1>3. c9.VLAN = c6.VLAN
  BY Stages, ScaffoldNames DEF Leaves, ServiceTables, BreakoutTableNames, LagTables
<1>4. DOMAIN AddTables(c, d, in, m).VLAN
        = {in.vrfs[v] : v \in {w \in DOMAIN in.vrfs : in.vrfs[w] # 0}} \cup DOMAIN c9.VLAN
  <2>1. {"VLAN", "INTERFACE", "PORTCHANNEL_INTERFACE"} \subseteq DOMAIN c9
    BY Stages, ScaffoldNames
  <2>2. AddTables(c, d, in, m) = add_vrf_configuration(c9, in)
    BY Stages
  <2>3. DOMAIN add_vrf_configuration(c9, in).VLAN
          = {in.vrfs[v] : v \in {w \in DOMAIN in.vrfs : in.vrfs[w] # 0}} \cup DOMAIN c9.VLAN
    <3> HIDE DEF c9
    <3> QED
      BY <2>1, VrfTablesWritten, Zenon
  <2> QED
    BY <2>2, <2>3
<1> QED
  BY <1>1, <1>2, <1>3, <1>4

\* A table that no helper owns is as it was.
LEMMA TelemetryTable ==
  ASSUME NEW c, NEW d, NEW in, NEW m, Scaffold \subseteq DOMAIN c, "TELEMETRY" \in DOMAIN c
  PROVE  "TELEMETRY" \in DOMAIN AddTables(c, d, in, m) /\ AddTables(c, d, in, m).TELEMETRY = c.TELEMETRY
BY Stages DEF Leaves, BgpTables, ServiceTables, VlanTables, BreakoutTableNames, LagTables,
              VrfStepTables, VrfTables, VxlanTables

\* The configuration before the helpers after the one for the default VRF.
WithDefaultVrf(d, m) == add_default_vrf_configuration(FreshConfig(d), d, m)

\* Before the helpers for what the device has, all is empty but the default VRF.
LEMMA Started ==
  ASSUME NEW d, NEW m
  PROVE  /\ Scaffold \subseteq DOMAIN WithDefaultVrf(d, m)
         /\ \A t \in Scaffold \ VrfTables : WithDefaultVrf(d, m)[t] = NoRows
         /\ "TELEMETRY" \in DOMAIN BaseConfig =>
              "TELEMETRY" \in DOMAIN WithDefaultVrf(d, m) /\ WithDefaultVrf(d, m).TELEMETRY = BaseConfig.TELEMETRY
<1>1. Leaves(FreshConfig(d), WithDefaultVrf(d, m), VrfTables)
  BY DefaultVrfLeaves DEF WithDefaultVrf
<1> QED
  BY <1>1, FreshTables DEF Leaves, VrfTables, Scaffold

\* Last comes the version of the database.
LEMMA Generates ==
  ASSUME NEW d, NEW m, NEW v
  PROVE  Leaves(AddTables(WithDefaultVrf(d, m), d, Inputs(d), m), generate_sonic_config(d, m, v), {"VERSIONS"})
BY VersionLeaves DEF generate_sonic_config, WithDefaultVrf

\* Nothing of an owned table of the base configuration is in the result.
LEMMA NothingIsStale ==
  ASSUME NEW d, NEW m, NEW v
  PROVE  NothingStale(generate_sonic_config(d, m, v), d)
<1> DEFINE c == WithDefaultVrf(d, m)
           e == AddTables(c, d, Inputs(d), m)
           g == generate_sonic_config(d, m, v)
<1>1. Leaves(e, g, {"VERSIONS"})
  BY Generates
<1>2. Scaffold \subseteq DOMAIN c /\ c.VLAN = NoRows
  BY Started, ScaffoldNames DEF VrfTables
<1>3. "TELEMETRY" \in DOMAIN BaseConfig => "TELEMETRY" \in DOMAIN c /\ c.TELEMETRY = BaseConfig.TELEMETRY
  BY Started
<1>4. /\ DOMAIN e.VLAN \subseteq DOMAIN Inputs(d).vlans.vlan_members \cup Range(Inputs(d).vrfs) \cup DOMAIN c.VLAN
      /\ "VLAN" \in DOMAIN e
  BY <1>2, VlanTable, Stages, ScaffoldNames DEF Range
<1>5. "TELEMETRY" \in DOMAIN c => "TELEMETRY" \in DOMAIN e /\ e.TELEMETRY = c.TELEMETRY
  BY <1>2, TelemetryTable
<1>6. Inputs(d).vlans = get_device_vlans(d) /\ Inputs(d).vrfs = get_vrf_info(d).vrfs
  BY DEF Inputs
<1> HIDE DEF c, e, g
<1>7. DOMAIN c.VLAN = {}
  BY <1>2 DEF NoRows
<1> QED
  BY <1>1, <1>3, <1>4, <1>5, <1>6, <1>7 DEF NothingStale, Leaves, g

\* The rows of INTERFACE with a simple key are those of the routed ports ...
LEMMA InterfaceRows ==
  ASSUME NEW c, NEW in, "INTERFACE" \in DOMAIN c, c.INTERFACE = NoRows
  PROVE  LET t == add_interface_configurations(c, in).INTERFACE
         IN  /\ \A s \in RoutedPorts(c, in) : <<s>> \in DOMAIN t /\ t[<<s>>] =
                   [linklocal |-> s \notin {x \in RoutedPorts(c, in) : HasDirectIpv4(in, x)}, vrf |-> Default]
             /\ \A k \in DOMAIN t : Len(k) = 1 => k \in {<<s>> : s \in RoutedPorts(c, in)}
<1> DEFINE routed   == RoutedPorts(c, in)
           numbered == {s \in routed : HasDirectIpv4(in, s)}
           r1 == [k \in {<<s>> : s \in routed} |-> [linklocal |-> k[1] \notin numbered, vrf |-> Default]]
           r2 == Rows({<<s, in.ips[in.nb[s].netbox_name]>> : s \in numbered}, <<>>)
           c1 == Put(c, "INTERFACE", r1)
           t  == Put(c1, "INTERFACE", r2).INTERFACE
<1>1. add_interface_configurations(c, in).INTERFACE = t
  BY DEF add_interface_configurations
<1>2. /\ "INTERFACE" \in DOMAIN c1
      /\ DOMAIN c1.INTERFACE = {<<s>> : s \in routed}
      /\ \A s \in routed : c1.INTERFACE[<<s>>] = [linklocal |-> s \notin numbered, vrf |-> Default]
  <2>1. DOMAIN r1 = {<<s>> : s \in routed}
    OBVIOUS
  <2>2. \A s \in routed : r1[<<s>>] = [linklocal |-> s \notin numbered, vrf |-> Default]
    <3> HIDE DEF routed, numbered
    <3> QED
      OBVIOUS
  <2> HIDE DEF r1
  <2>3. DOMAIN c.INTERFACE = {}
    BY DEF NoRows
  <2>4. DOMAIN c1.INTERFACE = DOMAIN r1 /\ \A k \in DOMAIN r1 : c1.INTERFACE[k] = r1[k]
    <3>1. \A r : /\ DOMAIN Put(c, "INTERFACE", r).INTERFACE = DOMAIN r \cup DOMAIN c.INTERFACE
                 /\ \A k \in DOMAIN r : Put(c, "INTERFACE", r).INTERFACE[k] = r[k]
      BY PutTable
    <3> QED
      BY <2>3, <3>1
  <2>5. "INTERFACE" \in DOMAIN c1
    BY PutOther
  <2> QED
    BY <2>1, <2>2, <2>4, <2>5
<1>3. DOMAIN r2 = {<<s, in.ips[in.nb[s].netbox_name]>> : s \in numbered}
  BY DEF Rows
<1>4. \A k \in DOMAIN r2 : Len(k) = 2
  BY <1>3
<1> HIDE DEF r2, c1
<1>5. /\ DOMAIN t = DOMAIN r2 \cup DOMAIN c1.INTERFACE
      /\ \A k \in DOMAIN c1.INTERFACE \ DOMAIN r2 : t[k] = c1.INTERFACE[k]
  BY <1>2, PutTable
<1>6. \A s : <<s>> \notin DOMAIN r2
  BY <1>4
<1> HIDE DEF t, routed, numbered
<1>7. /\ \A s \in routed : <<s>> \in DOMAIN t /\ t[<<s>>] = [linklocal |-> s \notin numbered, vrf |-> Default]
      /\ \A k \in DOMAIN t : Len(k) = 1 => k \in {<<s>> : s \in routed}
  BY <1>2, <1>4, <1>5, <1>6
<1> QED
  BY <1>1, <1>7 DEF routed, numbered

\* ... each in its VRF in the end.
LEMMA InterfaceTable ==
  ASSUME NEW c, NEW d, NEW in, NEW m, Scaffold \subseteq DOMAIN c, c.INTERFACE = NoRows
  PROVE  LET e == AddTables(c, d, in, m)
         IN  /\ \A s \in RoutedPorts(e, in) : <<s>> \in DOMAIN e.INTERFACE /\ e.INTERFACE[<<s>>].vrf = VrfName(in, s)
             /\ \A k \in DOMAIN e.INTERFACE : Len(k) = 1 => \E s \in RoutedPorts(e, in) : k = <<s>>
<1> DEFINE e  == AddTables(c, d, in, m)
           c2 == Ported(c, in)
           c3 == Routed(c, in)
           c9 == Bundled(c, d, in, m)
<1>1. c2.INTERFACE = c.INTERFACE /\ "INTERFACE" \in DOMAIN c2
  <2>1. Leaves(c, c2, {"PORT"}) /\ "INTERFACE" \in DOMAIN c
    BY Stages, ScaffoldNames
  <2> QED
    BY <2>1 DEF Leaves
<1>2. c9.INTERFACE = c3.INTERFACE
  BY Stages, ScaffoldNames
     DEF Leaves, BgpTables, ServiceTables, VlanTables, BreakoutTableNames, LagTables
<1>3. e.INTERFACE = Assigned(c9.INTERFACE, in)
  <2>1. {"VLAN", "INTERFACE", "PORTCHANNEL_INTERFACE"} \subseteq DOMAIN c9 /\ e = add_vrf_configuration(c9, in)
    BY Stages, ScaffoldNames
  <2> HIDE DEF c9, e
  <2> QED
    BY <2>1, VrfTablesWritten
<1>4. e.PORT = c2.PORT
  BY Stages, ScaffoldNames
     DEF Leaves, BgpTables, ServiceTables, VlanTables, BreakoutTableNames, LagTables,
         VrfStepTables, VrfTables, VxlanTables
<1>5. RoutedPorts(e, in) = RoutedPorts(c2, in)
  BY <1>4 DEF RoutedPorts
<1>6. /\ \A s \in RoutedPorts(c2, in) : <<s>> \in DOMAIN c3.INTERFACE /\ c3.INTERFACE[<<s>>] =
            [linklocal |-> s \notin {x \in RoutedPorts(c2, in) : HasDirectIpv4(in, x)}, vrf |-> Default]
      /\ \A k \in DOMAIN c3.INTERFACE : Len(k) = 1 => k \in {<<s>> : s \in RoutedPorts(c2, in)}
  <2>1. c3 = add_interface_configurations(c2, in)
    BY DEF Routed
  <2> HIDE DEF c2, c3
  <2> QED
    BY <1>1, <2>1, InterfaceRows
<1> HIDE DEF e, c2, c3, c9
<1>7. \A s \in RoutedPorts(c2, in) : /\ <<s>> \in DOMAIN Assigned(c3.INTERFACE, in)
                                    /\ Assigned(c3.INTERFACE, in)[<<s>>].vrf = VrfName(in, s)
  <2>1. DOMAIN Assigned(c3.INTERFACE, in) = DOMAIN c3.INTERFACE
    BY DEF Assigned
  <2> QED
    <3> SUFFICES ASSUME NEW s \in RoutedPorts(c2, in)
                 PROVE  <<s>> \in DOMAIN c3.INTERFACE /\ Assigned(c3.INTERFACE, in)[<<s>>].vrf = VrfName(in, s)
      BY <2>1
    <3>1. <<s>> \in DOMAIN c3.INTERFACE
      BY <1>6
    <3>2. PICK l : c3.INTERFACE[<<s>>] = [linklocal |-> l, vrf |-> Default]
      BY <1>6
    <3> QED
      BY <3>1, <3>2, AssignedRow
<1>8. \A k \in DOMAIN Assigned(c3.INTERFACE, in) : Len(k) = 1 => \E s \in RoutedPorts(c2, in) : k = <<s>>
  BY <1>6 DEF Assigned
<1> QED
  BY <1>2, <1>3, <1>5, <1>7, <1>8 DEF e

\* The keys of BGP_NEIGHBOR_AF: a port that speaks BGP or a port channel, or
\* the address of a neighbour of a VLAN interface.
LEMMA NeighborKeys ==
  ASSUME NEW c, NEW d, NEW in, NEW m, "BGP_NEIGHBOR_AF" \in DOMAIN c, DOMAIN c.BGP_NEIGHBOR_AF = {},
         NEW k \in DOMAIN add_bgp_configurations(c, d, in, m).BGP_NEIGHBOR_AF
  PROVE  \/ \E s \in BgpPorts(c, in) \cup in.connected.portchannels : \E af : k = <<VrfName(in, s), s, af>>
         \/ \E v \in DOMAIN in.vlans.vlan_interfaces : \E p \in SviPeers(d, in, v) : \E w : k = <<w, p[1], p[2]>>
<1> DEFINE c1 == add_bgp_neighbor_af(c, d, in)
           c2 == add_bgp_neighbors(c1, d, in, m)
           svis == DOMAIN in.vlans.vlan_interfaces
           mine == UNION {{<<VrfName(in, s), s, af>> : af \in AddressFamilies(d, in, s)} :
                            s \in BgpPorts(c, in) \cup in.connected.portchannels}
           keys == UNION {{<<VrfName(in, <<"Vlan", v>>), p[1], p[2]>> : p \in SviPeers(d, in, v)} : v \in svis}
<1>1. "BGP_NEIGHBOR_AF" \in DOMAIN c1 /\ DOMAIN c1.BGP_NEIGHBOR_AF = mine
  <2>1. c1 = Put(c, "BGP_NEIGHBOR_AF", Rows(mine, <<>>))
    BY DEF add_bgp_neighbor_af
  <2>2. DOMAIN Rows(mine, <<>>) = mine
    BY DEF Rows
  <2> HIDE DEF mine
  <2>3. \A r : "BGP_NEIGHBOR_AF" \in DOMAIN Put(c, "BGP_NEIGHBOR_AF", r)
    BY PutOther
  <2>4. \A t \in DOMAIN c : \A r : DOMAIN Put(c, t, r)[t] = DOMAIN r \cup DOMAIN c[t]
    BY PutTable
  <2> QED
    BY <2>1, <2>2, <2>3, <2>4
<1>2. "BGP_NEIGHBOR_AF" \in DOMAIN c2 /\ c2.BGP_NEIGHBOR_AF = c1.BGP_NEIGHBOR_AF
  <2> HIDE DEF c1
  <2>1. PICK r : c2 = Put(c1, "BGP_NEIGHBOR", r)
    BY Zenon DEF add_bgp_neighbors
  <2> QED
    BY <1>1, <2>1, PutOther
<1>3. DOMAIN add_svi_neighbors(c2, d, in).BGP_NEIGHBOR_AF = keys \cup DOMAIN c2.BGP_NEIGHBOR_AF
  <2> HIDE DEF c2
  <2>1. PICK r : add_svi_neighbors(c2, d, in) = Put(Put(c2, "BGP_NEIGHBOR", r), "BGP_NEIGHBOR_AF", Rows(keys, <<>>))
    BY Zenon DEF add_svi_neighbors
  <2>2. DOMAIN Rows(keys, <<>>) = keys
    BY DEF Rows
  <2> HIDE DEF keys
  <2>3. LET b == Put(c2, "BGP_NEIGHBOR", r) IN "BGP_NEIGHBOR_AF" \in DOMAIN b /\ b.BGP_NEIGHBOR_AF = c2.BGP_NEIGHBOR_AF
    BY <1>2, PutOther
  <2>4. \A b, q : "BGP_NEIGHBOR_AF" \in DOMAIN b =>
          DOMAIN Put(b, "BGP_NEIGHBOR_AF", q).BGP_NEIGHBOR_AF = DOMAIN q \cup DOMAIN b.BGP_NEIGHBOR_AF
    BY PutTable
  <2> QED
    BY <2>1, <2>2, <2>3, <2>4
<1>4. add_bgp_configurations(c, d, in, m) = add_svi_neighbors(c2, d, in)
  BY DEF add_bgp_configurations
<1>5. k \in mine \cup keys
  <2> HIDE DEF mine, keys, c1, c2
  <2> QED
    BY <1>1, <1>2, <1>3, <1>4
<1>6. CASE k \in mine
  <2>1. PICK s \in BgpPorts(c, in) \cup in.connected.portchannels :
          k \in {<<VrfName(in, s), s, af>> : af \in AddressFamilies(d, in, s)}
    BY <1>6
  <2> QED
    BY <2>1
<1>7. CASE k \in keys
  <2>1. PICK v \in svis : k \in {<<VrfName(in, <<"Vlan", v>>), p[1], p[2]>> : p \in SviPeers(d, in, v)}
    BY <1>7
  <2>2. PICK p \in SviPeers(d, in, v) : k = <<VrfName(in, <<"Vlan", v>>), p[1], p[2]>>
    BY <2>1
  <2> QED
    BY <2>2
<1> QED
  BY <1>5, <1>6, <1>7

\* The same in the end.
LEMMA NeighborTable ==
  ASSUME NEW c, NEW d, NEW in, NEW m, Scaffold \subseteq DOMAIN c, c.BGP_NEIGHBOR_AF = NoRows,
         NEW k \in DOMAIN AddTables(c, d, in, m).BGP_NEIGHBOR_AF
  PROVE  \/ \E s \in BgpPorts(AddTables(c, d, in, m), in) \cup in.connected.portchannels : \E af :
               k = <<VrfName(in, s), s, af>>
         \/ \E v \in DOMAIN in.vlans.vlan_interfaces : \E p \in SviPeers(d, in, v) : \E w : k = <<w, p[1], p[2]>>
<1> DEFINE e  == AddTables(c, d, in, m)
           c3 == Routed(c, in)
<1>1. c3.BGP_NEIGHBOR_AF = c.BGP_NEIGHBOR_AF /\ "BGP_NEIGHBOR_AF" \in DOMAIN c3 /\ e.PORT = c3.PORT
  BY Stages, ScaffoldNames
     DEF Leaves, BgpTables, ServiceTables, VlanTables, BreakoutTableNames, LagTables,
         VrfStepTables, VrfTables, VxlanTables
<1>2. e.BGP_NEIGHBOR_AF = Peered(c, d, in, m).BGP_NEIGHBOR_AF
  BY Stages, ScaffoldNames
     DEF Leaves, ServiceTables, VlanTables, BreakoutTableNames, LagTables,
         VrfStepTables, VrfTables, VxlanTables
<1>3. BgpPorts(e, in) = BgpPorts(c3, in)
  BY <1>1 DEF BgpPorts, RoutedPorts
<1>4. DOMAIN c3.BGP_NEIGHBOR_AF = {}
  BY <1>1 DEF NoRows
<1>5. k \in DOMAIN add_bgp_configurations(c3, d, in, m).BGP_NEIGHBOR_AF
  BY <1>2 DEF Peered
<1> HIDE DEF c3, e
<1> QED
  BY <1>1, <1>3, <1>4, <1>5, NeighborKeys DEF e

\* The rows of VLAN_MEMBER: a port or port channel that NetBox has in the VLAN, and how.
LEMMA MemberRows ==
  ASSUME NEW c, NEW in, "VLAN_MEMBER" \in DOMAIN c, DOMAIN c.VLAN_MEMBER = {},
         NEW k \in DOMAIN add_vlan_configuration(c, in).VLAN_MEMBER
  PROVE  \E v \in DOMAIN in.vlans.vlan_members : \E name \in DOMAIN in.vlans.vlan_members[v] :
           \E s \in SonicNames(in, name) :
             /\ k = <<v, s>>
             /\ add_vlan_configuration(c, in).VLAN_MEMBER[k] = in.vlans.vlan_members[v][name]
<1> DEFINE vlans == in.vlans.vlan_members
           Of(v) == UNION {SonicNames(in, name) : name \in DOMAIN vlans[v]}
           members == UNION {{<<v, s>> : s \in Of(v)} : v \in DOMAIN vlans}
           rows == [x \in members |-> vlans[x[1]][in.nb[x[2]].netbox_name]]
<1>1. PICK r1, r2, r3 : add_vlan_configuration(c, in)
          = Put(Put(Put(Put(c, "VLAN", r1), "VLAN_MEMBER", rows), "VLAN_INTERFACE", r2), "VLAN_INTERFACE", r3)
  BY Zenon DEF add_vlan_configuration
<1>2. add_vlan_configuration(c, in).VLAN_MEMBER = Over(rows, c.VLAN_MEMBER)
  <2> HIDE DEF rows
  <2> QED
    BY <1>1 DEF Put
<1>3. k \in members /\ add_vlan_configuration(c, in).VLAN_MEMBER[k] = rows[k]
  <2>1. DOMAIN rows = members
    OBVIOUS
  <2> HIDE DEF rows, members
  <2> QED
    BY <1>2, <2>1 DEF Over
<1>4. PICK v \in DOMAIN vlans : k \in {<<v, s>> : s \in Of(v)}
  BY <1>3
<1>5. PICK s \in Of(v) : k = <<v, s>>
  BY <1>4
<1>6. PICK name \in DOMAIN vlans[v] : s \in SonicNames(in, name)
  BY <1>5
<1>7. rows[k] = vlans[v][name]
  <2>1. in.nb[s].netbox_name = name
    BY <1>6 DEF SonicNames
  <2>2. rows[k] = vlans[k[1]][in.nb[k[2]].netbox_name]
    <3> HIDE DEF members
    <3> QED
      BY <1>3
  <2> HIDE DEF rows
  <2> QED
    BY <1>5, <2>1, <2>2
<1> QED
  BY <1>3, <1>5, <1>6, <1>7

\* The same in the end.
LEMMA MemberTable ==
  ASSUME NEW c, NEW d, NEW in, NEW m, Scaffold \subseteq DOMAIN c, c.VLAN_MEMBER = NoRows,
         NEW k \in DOMAIN AddTables(c, d, in, m).VLAN_MEMBER
  PROVE  \E v \in DOMAIN in.vlans.vlan_members : \E name \in DOMAIN in.vlans.vlan_members[v] :
           \E s \in SonicNames(in, name) :
             /\ k = <<v, s>>
             /\ AddTables(c, d, in, m).VLAN_MEMBER[k] = in.vlans.vlan_members[v][name]
<1> DEFINE c5 == Timed(c, d, in, m)
<1>1. c5.VLAN_MEMBER = c.VLAN_MEMBER /\ "VLAN_MEMBER" \in DOMAIN c5
  BY Stages, ScaffoldNames DEF Leaves, BgpTables, ServiceTables
<1>2. AddTables(c, d, in, m).VLAN_MEMBER = add_vlan_configuration(c5, in).VLAN_MEMBER
  BY Stages, ScaffoldNames
     DEF Leaves, Switched, ServiceTables, BreakoutTableNames, LagTables, VrfStepTables, VrfTables, VxlanTables
<1>3. DOMAIN c5.VLAN_MEMBER = {}
  BY <1>1 DEF NoRows
<1> HIDE DEF c5
<1> QED
  BY <1>1, <1>2, <1>3, MemberRows

\* The tables of e are those of the port channels.
HasLags(e, lags) ==
  /\ DOMAIN e.PORTCHANNEL = DOMAIN lags
  /\ DOMAIN e.PORTCHANNEL_INTERFACE = {<<pc>> : pc \in DOMAIN lags}
  /\ \A pc \in DOMAIN lags : e.PORTCHANNEL_INTERFACE[<<pc>>] = [linklocal |-> TRUE, vrf |-> Default]
  /\ \A k \in DOMAIN e.PORTCHANNEL_MEMBER : \E pc \in DOMAIN lags : \E s \in lags[pc] : k = <<pc, s>>

\* The rows of the port channels ...
LEMMA LagRows ==
  ASSUME NEW c, NEW in, LagTables \subseteq DOMAIN c, \A t \in LagTables : c[t] = NoRows
  PROVE  HasLags(add_portchannel_configuration(c, in), in.lags.portchannels)
<1> DEFINE lags == in.lags.portchannels
           r1 == Rows(DOMAIN lags, <<>>)
           r2 == Rows({<<pc>> : pc \in DOMAIN lags}, [linklocal |-> TRUE, vrf |-> Default])
           members == UNION {{<<pc, s>> : s \in lags[pc]} : pc \in DOMAIN lags}
           r3 == Rows(members, <<>>)
           e  == add_portchannel_configuration(c, in)
<1>1. e = Put(Put(Put(c, "PORTCHANNEL", r1), "PORTCHANNEL_INTERFACE", r2), "PORTCHANNEL_MEMBER", r3)
  BY Zenon DEF add_portchannel_configuration
<1>2. /\ e.PORTCHANNEL = Over(r1, NoRows) /\ e.PORTCHANNEL_INTERFACE = Over(r2, NoRows)
      /\ e.PORTCHANNEL_MEMBER = Over(r3, NoRows)
  <2> HIDE DEF r1, r2, r3, e
  <2>1. \A t \in {"PORTCHANNEL", "PORTCHANNEL_INTERFACE", "PORTCHANNEL_MEMBER"} : t \in DOMAIN c /\ c[t] = NoRows
    BY DEF LagTables
  <2> QED
    BY <1>1, <2>1 DEF Put
<1>3. ASSUME NEW r PROVE Over(r, NoRows) = [k \in DOMAIN r |-> r[k]]
  BY DEF Over, NoRows
<1>4. e.PORTCHANNEL = r1 /\ e.PORTCHANNEL_INTERFACE = r2 /\ e.PORTCHANNEL_MEMBER = r3
  BY <1>2, <1>3 DEF Rows
<1>5. DOMAIN r1 = DOMAIN lags /\ DOMAIN r3 = members
  BY DEF Rows
<1>6. /\ DOMAIN r2 = {<<pc>> : pc \in DOMAIN lags}
      /\ \A pc \in DOMAIN lags : r2[<<pc>>] = [linklocal |-> TRUE, vrf |-> Default]
  BY DEF Rows
<1>7. ASSUME NEW k \in members PROVE \E pc \in DOMAIN lags : \E s \in lags[pc] : k = <<pc, s>>
  <2>1. PICK pc \in DOMAIN lags : k \in {<<pc, s>> : s \in lags[pc]}
    OBVIOUS
  <2> QED
    BY <2>1
<1> HIDE DEF r1, r2, r3, members, e
<1> QED
  BY <1>4, <1>5, <1>6, <1>7 DEF e, HasLags

\* ... each in its VRF in the end.
LEMMA LagTable ==
  ASSUME NEW c, NEW d, NEW in, NEW m, Scaffold \subseteq DOMAIN c, \A t \in LagTables : c[t] = NoRows
  PROVE  LET e    == AddTables(c, d, in, m)
             lags == in.lags.portchannels
         IN  /\ DOMAIN e.PORTCHANNEL = DOMAIN lags
             /\ DOMAIN e.PORTCHANNEL_INTERFACE = {<<pc>> : pc \in DOMAIN lags}
             /\ \A pc \in DOMAIN lags : e.PORTCHANNEL_INTERFACE[<<pc>>].vrf = VrfName(in, pc)
             /\ \A k \in DOMAIN e.PORTCHANNEL_MEMBER : \E pc \in DOMAIN lags : \E s \in lags[pc] : k = <<pc, s>>
<1> DEFINE e  == AddTables(c, d, in, m)
           b9 == Broken(c, d, in, m)
           c9 == Bundled(c, d, in, m)
           lags == in.lags.portchannels
<1>1. LagTables \subseteq DOMAIN b9 /\ \A t \in LagTables : b9[t] = NoRows
  <2>1. LagTables \subseteq Scaffold
    BY ScaffoldNames DEF LagTables
  <2> QED
    BY <2>1, Stages DEF Leaves, BgpTables, ServiceTables, VlanTables, BreakoutTableNames, LagTables
<1>2. c9 = add_portchannel_configuration(b9, in)
  BY DEF Bundled
<1>3. {"VLAN", "INTERFACE", "PORTCHANNEL_INTERFACE"} \subseteq DOMAIN c9 /\ e = add_vrf_configuration(c9, in)
  BY Stages, ScaffoldNames
<1>4. e.PORTCHANNEL = c9.PORTCHANNEL /\ e.PORTCHANNEL_MEMBER = c9.PORTCHANNEL_MEMBER
  BY Stages, ScaffoldNames DEF Leaves, VrfStepTables, VrfTables, VxlanTables
<1> HIDE DEF e, b9, c9
<1>5. e.PORTCHANNEL_INTERFACE = Assigned(c9.PORTCHANNEL_INTERFACE, in)
  BY <1>3, VrfTablesWritten
<1>6. HasLags(c9, lags)
  BY <1>1, <1>2, LagRows
<1>7. DOMAIN Assigned(c9.PORTCHANNEL_INTERFACE, in) = {<<pc>> : pc \in DOMAIN lags}
  BY <1>6 DEF Assigned, HasLags
<1>8. ASSUME NEW pc \in DOMAIN lags PROVE Assigned(c9.PORTCHANNEL_INTERFACE, in)[<<pc>>].vrf = VrfName(in, pc)
  BY <1>6, AssignedRow DEF HasLags
<1> QED
  BY <1>4, <1>5, <1>6, <1>7, <1>8 DEF e, HasLags

\* The ports are those of the port table and the breakouts.
LEMMA PortRows ==
  ASSUME NEW c, NEW d, NEW in, NEW m, Scaffold \subseteq DOMAIN c, c.PORT = NoRows
  PROVE  DOMAIN AddTables(c, d, in, m).PORT
           = DOMAIN PortTable(in.ports, in.breakout, in.nb,
                              in.connected.interfaces \cup DOMAIN in.lags.member_mapping)
<1> DEFINE ports == PortTable(in.ports, in.breakout, in.nb,
                              in.connected.interfaces \cup DOMAIN in.lags.member_mapping)
           rows == [s \in DOMAIN ports |-> [ports[s] EXCEPT !.tagged_vlans = TaggedVlans(in, s)]]
<1>1. Ported(c, in) = Put(c, "PORT", rows)
  BY DEF Ported, add_port_configurations
<1>2. AddTables(c, d, in, m).PORT = Ported(c, in).PORT
  BY Stages, ScaffoldNames
     DEF Leaves, BgpTables, ServiceTables, VlanTables, BreakoutTableNames, LagTables,
         VrfStepTables, VrfTables, VxlanTables
<1>3. DOMAIN rows = DOMAIN ports
  OBVIOUS
<1>4. DOMAIN c.PORT = {} /\ "PORT" \in DOMAIN c
  BY ScaffoldNames DEF NoRows
<1> HIDE DEF rows, ports
<1>5. \A t \in DOMAIN c : \A r : DOMAIN Put(c, t, r)[t] = DOMAIN r \cup DOMAIN c[t]
  BY PutTable
<1> QED
  BY <1>1, <1>2, <1>3, <1>4, <1>5 DEF ports

\* What FirstOf finds is one of the addresses.
LEMMA FirstOfIsOne ==
  ASSUME NEW addrs \in Seq(Addresses), NEW version
  PROVE  FirstOf(addrs, LAMBDA a : is_numbered_neighbor_address(a, version)) \in Addresses \cup {<<>>}
<1> DEFINE ok == {k \in DOMAIN addrs : is_numbered_neighbor_address(addrs[k], version)}
<1>1. CASE ok = {}
  BY <1>1 DEF FirstOf
<1>2. CASE ok # {}
  <2>1. ok \subseteq Nat
    OBVIOUS
  <2>2. Min(ok) \in ok
    <3> HIDE DEF ok
    <3>1. PICK x \in ok : \A y \in ok : x <= y
      BY <1>2, <2>1, Least
    <3> QED
      BY <3>1, Zenon DEF Min
  <2>3. FirstOf(addrs, LAMBDA a : is_numbered_neighbor_address(a, version)) = addrs[Min(ok)]
    BY <1>2 DEF FirstOf
  <2> QED
    BY <2>2, <2>3
<1> QED
  BY <1>1, <1>2

\* The other ends of cables have addresses, of the device itself and virtual ones.
PeersAddressed(d) ==
  \A i \in d.ifs : i.peer # NoPeer => i.peer.addrs \in Seq(Addresses) /\ i.peer.vips \in Seq(Addresses)

\* What is found at the other end of a cable is an address ...
LEMMA PeerAddress ==
  ASSUME NEW d, PeersAddressed(d), NEW s, NEW version
  PROVE  get_connected_interface_ip_addresses(d, s, version) \in Addresses \cup {<<>>}
<1> DEFINE peer == Iface(d, s).peer
           direct == FirstOf(peer.addrs, LAMBDA a : is_numbered_neighbor_address(a, version))
           virtual == FirstOf(peer.vips, LAMBDA a : is_numbered_neighbor_address(a, version))
<1>1. get_connected_interface_ip_addresses(d, s, version)
        = IF s \notin NamesOf(d) \/ peer = NoPeer THEN <<>> ELSE IF direct # <<>> THEN direct ELSE virtual
  BY DEF get_connected_interface_ip_addresses, FirstOf
<1>2. CASE s \notin NamesOf(d) \/ peer = NoPeer
  BY <1>1, <1>2
<1>3. CASE s \in NamesOf(d) /\ peer # NoPeer
  <2>1. Iface(d, s) \in d.ifs
    BY <1>3 DEF NamesOf, Iface
  <2>2. peer.addrs \in Seq(Addresses) /\ peer.vips \in Seq(Addresses)
    BY <1>3, <2>1 DEF PeersAddressed
  <2>3. direct \in Addresses \cup {<<>>} /\ virtual \in Addresses \cup {<<>>}
    BY <2>2, FirstOfIsOne DEF FirstOf
  <2> HIDE DEF direct, virtual, peer
  <2> QED
    BY <1>1, <1>3, <2>3
<1> QED
  BY <1>2, <1>3

\* ... and so is a neighbour of a VLAN interface.
LEMMA SviPeer ==
  ASSUME NEW d, PeersAddressed(d), NEW in, NEW v, NEW p \in SviPeers(d, in, v)
  PROVE  p[1] \in Addresses
<1>1. \E s : \E af \in {4, 6} : p[1] = get_connected_interface_ip_addresses(d, s, af) /\ p[1] # <<>>
  <2> DEFINE untagged == {name \in DOMAIN in.vlans.vlan_members[v] : in.vlans.vlan_members[v][name] = "untagged"}
             Peers(af) == {get_connected_interface_ip_addresses(d, s, af) :
                             s \in UNION {SonicNames(in, name) : name \in untagged}} \ {<<>>}
  <2>1. p \in {<<a, "ipv4_unicast">> : a \in Peers(4)} \cup {<<a, "ipv6_unicast">> : a \in Peers(6)}
    <3> HIDE DEF Peers
    <3> QED
      BY DEF SviPeers, Peers
  <2>2. \E af \in {4, 6} : p[1] \in Peers(af)
    <3> HIDE DEF Peers
    <3> QED
      BY <2>1
  <2> QED
    BY <2>2
<1> QED
  BY <1>1, PeerAddress

\* What detect_port_channels says of members and their channels agrees.
LEMMA Channels ==
  ASSUME NEW d
  PROVE  LET lags == detect_port_channels(d)
         IN  /\ \A pc \in DOMAIN lags.portchannels : \A s \in lags.portchannels[pc] :
                  s \in DOMAIN lags.member_mapping
             /\ \A s \in DOMAIN lags.member_mapping : /\ lags.member_mapping[s] \in DOMAIN lags.portchannels
                                                     /\ lags.member_mapping[s][1] = "PortChannel"
<1> DEFINE members == {i \in d.ifs : i.lag # <<>>}
           SonicOf(i) == convert_netbox_interface_to_sonic(i.name, d)
           names == {<<"PortChannel", LagNumber(i.lag)>> : i \in members}
           mapping == [s \in {SonicOf(i) : i \in members} |->
                         <<"PortChannel", LagNumber((CHOOSE i \in members : SonicOf(i) = s).lag)>>]
<1>1. detect_port_channels(d) = PortChannels(names, mapping)
  BY DEF detect_port_channels
<1>2. ASSUME NEW s \in DOMAIN mapping PROVE mapping[s] \in names /\ mapping[s][1] = "PortChannel"
  <2>1. PICK j \in members : SonicOf(j) = s
    OBVIOUS
  <2>2. (CHOOSE i \in members : SonicOf(i) = s) \in members
    BY <2>1, Zenon
  <2>3. mapping[s] = <<"PortChannel", LagNumber((CHOOSE i \in members : SonicOf(i) = s).lag)>>
    OBVIOUS
  <2> QED
    BY <2>2, <2>3
<1> HIDE DEF names, mapping
<1> QED
  BY <1>1, <1>2 DEF PortChannels

\* A member of a VLAN is tagged or untagged.
LEMMA Tagging ==
  ASSUME NEW d, NEW v \in DOMAIN get_device_vlans(d).vlan_members,
         NEW name \in DOMAIN get_device_vlans(d).vlan_members[v]
  PROVE  get_device_vlans(d).vlan_members[v][name] \in {"tagged", "untagged"}
BY DEF get_device_vlans

\* Who speaks BGP on a port is routed there, in the VRF in which he speaks.
LEMMA SpeakersAreRoutedPorts ==
  ASSUME NEW d, PeersAddressed(d), NEW m, NEW v
  PROVE  SpeakersRouted(generate_sonic_config(d, m, v))
<1> DEFINE in == Inputs(d)
           c  == WithDefaultVrf(d, m)
           e  == AddTables(c, d, in, m)
           g  == generate_sonic_config(d, m, v)
<1>1. /\ g.BGP_NEIGHBOR_AF = e.BGP_NEIGHBOR_AF /\ g.INTERFACE = e.INTERFACE /\ g.VLAN_MEMBER = e.VLAN_MEMBER
      /\ g.PORTCHANNEL_MEMBER = e.PORTCHANNEL_MEMBER /\ g.PORTCHANNEL_INTERFACE = e.PORTCHANNEL_INTERFACE
  <2>1. Leaves(e, g, {"VERSIONS"})
    BY Generates
  <2>2. Scaffold \subseteq DOMAIN e
    BY Started, Stages
  <2> QED
    BY <2>1, <2>2, ScaffoldNames DEF Leaves
<1>2. /\ Scaffold \subseteq DOMAIN c
      /\ c.PORT = NoRows /\ c.INTERFACE = NoRows /\ c.BGP_NEIGHBOR_AF = NoRows /\ c.VLAN_MEMBER = NoRows
      /\ \A t \in LagTables : c[t] = NoRows
  BY Started, ScaffoldNames DEF VrfTables, LagTables
<1>3. /\ in.lags = detect_port_channels(d) /\ in.vlans = get_device_vlans(d)
      /\ in.connected = get_connected_interfaces(d, in.lags)
  BY DEF Inputs
<1>4. \A s \in in.connected.portchannels : s \in DOMAIN in.lags.portchannels /\ s[1] = "PortChannel"
  BY <1>3, Channels DEF get_connected_interfaces
<1>5. \A s \in DOMAIN e.PORT : s[1] = "Ethernet"
  BY <1>2, PortRows DEF PortTable, SonicPort
<1> HIDE DEF g, c, in
<1>6. ASSUME NEW s \in BgpPorts(e, in)
      PROVE  /\ s[1] = "Ethernet"
             /\ <<s>> \in DOMAIN g.INTERFACE /\ g.INTERFACE[<<s>>].vrf = VrfName(in, s)
             /\ \A x \in DOMAIN g.PORTCHANNEL_MEMBER : x[2] # s
             /\ \A x \in DOMAIN g.VLAN_MEMBER : x[2] = s => g.VLAN_MEMBER[x] = "tagged"
  <2>1. s \in RoutedPorts(e, in) /\ ~IsUntaggedVlanMember(in, s)
    BY DEF BgpPorts
  <2>2. s \in DOMAIN e.PORT /\ s \notin DOMAIN in.lags.member_mapping
    BY <2>1 DEF RoutedPorts
  <2>3. <<s>> \in DOMAIN e.INTERFACE /\ e.INTERFACE[<<s>>].vrf = VrfName(in, s)
    BY <1>2, <2>1, InterfaceTable
  <2>4. ASSUME NEW x \in DOMAIN e.PORTCHANNEL_MEMBER PROVE x[2] # s
    <3>1. PICK pc \in DOMAIN in.lags.portchannels : \E y \in in.lags.portchannels[pc] : x = <<pc, y>>
      BY <1>2, LagTable
    <3>2. PICK y \in in.lags.portchannels[pc] : x = <<pc, y>>
      BY <3>1
    <3>3. y \in DOMAIN in.lags.member_mapping
      BY <1>3, Channels
    <3> QED
      BY <2>2, <3>2, <3>3
  <2>5. ASSUME NEW x \in DOMAIN e.VLAN_MEMBER, x[2] = s PROVE e.VLAN_MEMBER[x] = "tagged"
    <3>1. PICK w \in DOMAIN in.vlans.vlan_members : \E name \in DOMAIN in.vlans.vlan_members[w] :
            \E y \in SonicNames(in, name) : x = <<w, y>> /\ e.VLAN_MEMBER[x] = in.vlans.vlan_members[w][name]
      BY <1>2, MemberTable
    <3>2. PICK name \in DOMAIN in.vlans.vlan_members[w] :
            \E y \in SonicNames(in, name) : x = <<w, y>> /\ e.VLAN_MEMBER[x] = in.vlans.vlan_members[w][name]
      BY <3>1
    <3>3. s \in DOMAIN in.nb /\ in.nb[s].netbox_name = name
      BY <2>5, <3>2 DEF SonicNames
    <3>4. in.vlans.vlan_members[w][name] # "untagged"
      BY <2>1, <3>3 DEF IsUntaggedVlanMember
    <3>5. in.vlans.vlan_members[w][name] \in {"tagged", "untagged"}
      BY <1>3, Tagging
    <3> QED
      BY <3>2, <3>4, <3>5
  <2> QED
    BY <1>1, <1>5, <2>2, <2>3, <2>4, <2>5
<1>7. ASSUME NEW s \in in.connected.portchannels
      PROVE  <<s>> \in DOMAIN g.PORTCHANNEL_INTERFACE /\ g.PORTCHANNEL_INTERFACE[<<s>>].vrf = VrfName(in, s)
  BY <1>1, <1>2, <1>4, LagTable
<1> HIDE DEF e
<1> SUFFICES ASSUME NEW k \in DOMAIN g.BGP_NEIGHBOR_AF
             PROVE  LET s == k[2]
                    IN  /\ s[1] = "Ethernet" =>
                             /\ <<s>> \in DOMAIN g.INTERFACE /\ g.INTERFACE[<<s>>].vrf = k[1]
                             /\ \A x \in DOMAIN g.PORTCHANNEL_MEMBER : x[2] # s
                             /\ \A x \in DOMAIN g.VLAN_MEMBER : x[2] = s => g.VLAN_MEMBER[x] = "tagged"
                        /\ s[1] = "PortChannel" =>
                             <<s>> \in DOMAIN g.PORTCHANNEL_INTERFACE /\ g.PORTCHANNEL_INTERFACE[<<s>>].vrf = k[1]
  BY DEF SpeakersRouted, g
<1>8. \/ \E s \in BgpPorts(e, in) \cup in.connected.portchannels : \E af : k = <<VrfName(in, s), s, af>>
      \/ \E w \in DOMAIN in.vlans.vlan_interfaces : \E p \in SviPeers(d, in, w) : \E x : k = <<x, p[1], p[2]>>
  BY <1>1, <1>2, NeighborTable DEF e
<1>9. CASE \E s \in BgpPorts(e, in) : \E af : k = <<VrfName(in, s), s, af>>
  BY <1>6, <1>9
<1>10. CASE \E s \in in.connected.portchannels : \E af : k = <<VrfName(in, s), s, af>>
  BY <1>4, <1>7, <1>10
<1>11. CASE \E w \in DOMAIN in.vlans.vlan_interfaces : \E p \in SviPeers(d, in, w) : \E x : k = <<x, p[1], p[2]>>
  <2>1. k[2] \in Addresses
    BY <1>11, SviPeer
  <2>2. k[2][1] \in {"global", "transfer", "local"}
    BY <2>1 DEF Addresses
  <2> QED
    BY <2>2
<1> QED
  BY <1>8, <1>9, <1>10, <1>11

-----------------------------------------------------------------------------

\* The VRFs that have a VNI.
Vnis(in) == {v \in DOMAIN in.vrfs : in.vrfs[v] # 0}

\* From c to e, tables have grown by what a VRF with a VNI needs.
VniEffect(c, e, in) ==
  /\ \A n \in DOMAIN e.VLAN : \/ n \in DOMAIN c.VLAN /\ e.VLAN[n] = c.VLAN[n]
                             \/ e.VLAN[n] = [members |-> {}]
  /\ \A k \in DOMAIN e.VLAN_INTERFACE :
       \/ k \in DOMAIN c.VLAN_INTERFACE /\ e.VLAN_INTERFACE[k] = c.VLAN_INTERFACE[k]
       \/ \E v \in Vnis(in) : k = <<in.vrfs[v]>> /\ e.VLAN_INTERFACE[k].vrf \in Vnis(in)
  /\ \A k \in DOMAIN e.BGP_GLOBALS_AF : k \in DOMAIN c.BGP_GLOBALS_AF \/ k[1] \in Vnis(in)

\* What the helper for VRFs with a VNI writes ...
LEMMA VniTables ==
  ASSUME NEW c, NEW in, {"VLAN", "VLAN_INTERFACE", "BGP_GLOBALS_AF"} \subseteq DOMAIN c
  PROVE  VniEffect(c, add_vni_vrfs(c, in), in)
<1> DEFINE vnis == {v \in DOMAIN in.vrfs : in.vrfs[v] # 0}
           Vni(v) == in.vrfs[v]
           Owner(n) == CHOOSE v \in vnis : Vni(v) = n
           r1 == Rows({Vni(v) : v \in vnis}, [members |-> {}])
           r2 == [k \in {<<Vni(v)>> : v \in vnis} |-> [vrf |-> Owner(k[1])]]
           r3 == [k \in {<<v, af>> : v \in vnis, af \in {"ipv4_unicast", "l2vpn_evpn"}} |->
                    [rt |-> IF k[2] = "l2vpn_evpn" THEN Vni(k[1]) ELSE 0]]
           r4 == Rows({<<v, af>> : v \in vnis, af \in {"IPV4_UNICAST", "IPV6_UNICAST"}}, <<>>)
           r5 == Rows({<<v, "ipv4">> : v \in vnis}, <<>>)
           e == add_vni_vrfs(c, in)
<1>1. e = Put(Put(Put(Put(Put(c, "VLAN", r1), "VLAN_INTERFACE", r2), "BGP_GLOBALS_AF", r3),
                  "BGP_GLOBALS_ROUTE_ADVERTISE", r4), "ROUTE_REDISTRIBUTE", r5)
  BY DEF add_vni_vrfs
<1>2. /\ e.VLAN = Over(r1, c.VLAN) /\ e.VLAN_INTERFACE = Over(r2, c.VLAN_INTERFACE)
      /\ e.BGP_GLOBALS_AF = Over(r3, c.BGP_GLOBALS_AF)
  <2> HIDE DEF r1, r2, r3, r4, r5, e
  <2> QED
    BY <1>1 DEF Put
<1>3. \A n \in DOMAIN r1 : r1[n] = [members |-> {}]
  BY DEF Rows
<1>4. ASSUME NEW k \in DOMAIN r2 PROVE \E v \in vnis : k = <<in.vrfs[v]>> /\ r2[k].vrf \in vnis
  <2>1. PICK v \in vnis : k = <<Vni(v)>>
    OBVIOUS
  <2>2. Owner(Vni(v)) \in vnis
    <3> HIDE DEF vnis, Vni
    <3> QED
      BY Zenon
  <2>3. r2[k] = [vrf |-> Owner(Vni(v))]
    <3> HIDE DEF Owner, Vni, vnis
    <3> QED
      BY <2>1
  <2> HIDE DEF r2, Owner
  <2> QED
    BY <2>1, <2>2, <2>3
<1>5. \A k \in DOMAIN r3 : k[1] \in vnis
  <2> HIDE DEF vnis
  <2> QED
    OBVIOUS
<1> HIDE DEF r1, r2, r3, e, vnis
<1>6. \A n \in DOMAIN e.VLAN : \/ n \in DOMAIN c.VLAN /\ e.VLAN[n] = c.VLAN[n]
                             \/ e.VLAN[n] = [members |-> {}]
  <2> DEFINE row == [members |-> {}]
  <2>1. \A n \in DOMAIN r1 : r1[n] = row
    BY <1>3
  <2> HIDE DEF row
  <2>2. \A n \in DOMAIN e.VLAN : (n \in DOMAIN c.VLAN /\ e.VLAN[n] = c.VLAN[n]) \/ e.VLAN[n] = row
    BY <1>2, <2>1 DEF Over
  <2> QED
    BY <2>2 DEF row
<1>7. \A k \in DOMAIN e.VLAN_INTERFACE :
        \/ k \in DOMAIN c.VLAN_INTERFACE /\ e.VLAN_INTERFACE[k] = c.VLAN_INTERFACE[k]
        \/ \E v \in vnis : k = <<in.vrfs[v]>> /\ e.VLAN_INTERFACE[k].vrf \in vnis
  BY <1>2, <1>4 DEF Over
<1>8. \A k \in DOMAIN e.BGP_GLOBALS_AF : k \in DOMAIN c.BGP_GLOBALS_AF \/ k[1] \in vnis
  BY <1>2, <1>5 DEF Over
<1> QED
  BY <1>6, <1>7, <1>8 DEF e, vnis, VniEffect, Vnis

\* ... what the one for VXLANs writes ...
LEMMA VxlanTablesWritten ==
  ASSUME NEW c, NEW in, VxlanTables \subseteq DOMAIN c, \A t \in VxlanTables : c[t] = NoRows
  PROVE  LET e == add_vxlan(c, in)
         IN  /\ \A k \in DOMAIN e.VXLAN_TUNNEL_MAP : e.VXLAN_TUNNEL_MAP[k].vlan \in {in.vrfs[v] : v \in Vnis(in)}
             /\ \A k \in DOMAIN e.VXLAN_EVPN_NVO : e.VXLAN_EVPN_NVO[k].source_vtep \in DOMAIN e.VXLAN_TUNNEL
<1> DEFINE vnis == {in.vrfs[v] : v \in DOMAIN in.vrfs} \ {0}
           r1 == Rows({"vtepServ"}, [src_intf |-> <<"Loopback", 0>>, src_ip |-> c.BGP_GLOBALS[Default].router_id])
           r2 == Rows({"nvo1"}, [source_vtep |-> "vtepServ"])
           r3 == [k \in {<<"vtepServ", n>> : n \in vnis} |-> [vlan |-> k[2]]]
           e  == add_vxlan(c, in)
<1>1. \A t \in {"VXLAN_TUNNEL", "VXLAN_EVPN_NVO", "VXLAN_TUNNEL_MAP"} : t \in DOMAIN c /\ DOMAIN c[t] = {}
  BY DEF VxlanTables, NoRows
<1>2. vnis \subseteq {in.vrfs[v] : v \in Vnis(in)}
  BY DEF Vnis
<1>3. CASE vnis = {}
  <2>1. e = c
    BY <1>3 DEF add_vxlan
  <2> QED
    BY <1>1, <2>1
<1>4. CASE vnis # {}
  <2>1. e = Put(Put(Put(c, "VXLAN_TUNNEL", r1), "VXLAN_EVPN_NVO", r2), "VXLAN_TUNNEL_MAP", r3)
    BY <1>4 DEF add_vxlan
  <2>2. /\ e.VXLAN_TUNNEL = Over(r1, c.VXLAN_TUNNEL) /\ e.VXLAN_EVPN_NVO = Over(r2, c.VXLAN_EVPN_NVO)
        /\ e.VXLAN_TUNNEL_MAP = Over(r3, c.VXLAN_TUNNEL_MAP)
    <3> HIDE DEF r1, r2, r3, e
    <3> QED
      BY <1>1, <2>1 DEF Put
  <2>3. "vtepServ" \in DOMAIN e.VXLAN_TUNNEL
    <3> HIDE DEF e
    <3>1. "vtepServ" \in DOMAIN r1
      BY DEF Rows
    <3> HIDE DEF r1
    <3> QED
      BY <2>2, <3>1 DEF Over
  <2>4. ASSUME NEW k \in DOMAIN e.VXLAN_EVPN_NVO PROVE e.VXLAN_EVPN_NVO[k].source_vtep = "vtepServ"
    <3>1. \A x \in DOMAIN r2 : r2[x].source_vtep = "vtepServ"
      BY DEF Rows
    <3> HIDE DEF r2, e
    <3> QED
      BY <1>1, <2>2, <3>1 DEF Over
  <2>5. ASSUME NEW k \in DOMAIN e.VXLAN_TUNNEL_MAP PROVE e.VXLAN_TUNNEL_MAP[k].vlan \in vnis
    <3>1. \A x \in DOMAIN r3 : r3[x].vlan \in vnis
      <4> HIDE DEF vnis
      <4> QED
        OBVIOUS
    <3> HIDE DEF r3, e, vnis
    <3> QED
      BY <1>1, <2>2, <3>1 DEF Over
  <2> HIDE DEF e, vnis
  <2> QED
    BY <1>2, <2>3, <2>4, <2>5 DEF e
<1> QED
  BY <1>3, <1>4

\* ... and what the one for all VRFs writes.
LEMMA VrfStep ==
  ASSUME NEW c, NEW in, Scaffold \subseteq DOMAIN c, \A t \in VxlanTables : c[t] = NoRows
  PROVE  LET e == add_vrf_configuration(c, in)
         IN  /\ DOMAIN e.VRF = DOMAIN in.vrfs \cup DOMAIN c.VRF
             /\ DOMAIN e.BGP_GLOBALS = DOMAIN in.vrfs \cup DOMAIN c.BGP_GLOBALS
             /\ VniEffect(c, e, in)
             /\ \A k \in DOMAIN e.VXLAN_TUNNEL_MAP : e.VXLAN_TUNNEL_MAP[k].vlan \in {in.vrfs[v] : v \in Vnis(in)}
             /\ \A k \in DOMAIN e.VXLAN_EVPN_NVO : e.VXLAN_EVPN_NVO[k].source_vtep \in DOMAIN e.VXLAN_TUNNEL
<1> DEFINE r1 == [v \in DOMAIN in.vrfs |-> [vni |-> in.vrfs[v]]]
           r3 == [v \in DOMAIN in.vrfs |-> c.BGP_GLOBALS[Default]]
           c1 == Put(c, "VRF", r1)
           c2 == add_vni_vrfs(c1, in)
           c3 == Put(c2, "BGP_GLOBALS", r3)
           c4 == add_vxlan(c3, in)
           e  == add_vrf_configuration(c, in)
<1>1. e = [c4 EXCEPT !.INTERFACE = Assigned(c4.INTERFACE, in),
                     !.PORTCHANNEL_INTERFACE = Assigned(c4.PORTCHANNEL_INTERFACE, in)]
  BY DEF add_vrf_configuration, Assigned
<1>2. DOMAIN r1 = DOMAIN in.vrfs /\ DOMAIN r3 = DOMAIN in.vrfs
  OBVIOUS
<1> HIDE DEF r1, r3
<1>3. Scaffold \subseteq DOMAIN c1 /\ c1.VRF = Over(r1, c.VRF) /\ \A t \in Scaffold \ {"VRF"} : c1[t] = c[t]
  BY ScaffoldNames DEF Put
<1>4. Scaffold \subseteq DOMAIN c2 /\ \A t \in Scaffold \ ({"VLAN", "VLAN_INTERFACE"} \cup VrfTables) : c2[t] = c1[t]
  BY <1>3, VniLeaves DEF Leaves
<1>5. c2.VRF = c1.VRF /\ c2.BGP_GLOBALS = c1.BGP_GLOBALS
  <2>1. Leaves(c1, c2, {"VLAN", "VLAN_INTERFACE", "BGP_GLOBALS_AF", "BGP_GLOBALS_ROUTE_ADVERTISE", "ROUTE_REDISTRIBUTE"})
    BY VniLeavesMost
  <2> QED
    BY <1>3, <2>1, ScaffoldNames DEF Leaves
<1>6. VniEffect(c1, c2, in)
  <2>1. {"VLAN", "VLAN_INTERFACE", "BGP_GLOBALS_AF"} \subseteq DOMAIN c1
    BY <1>3, ScaffoldNames
  <2> HIDE DEF c1
  <2> QED
    BY <2>1, VniTables
<1>7. /\ Scaffold \subseteq DOMAIN c3 /\ c3.BGP_GLOBALS = Over(r3, c2.BGP_GLOBALS)
      /\ \A t \in Scaffold \ {"BGP_GLOBALS"} : c3[t] = c2[t]
  <2> HIDE DEF c2
  <2> QED
    BY <1>4, ScaffoldNames DEF Put
<1>8. Scaffold \subseteq DOMAIN c4 /\ \A t \in Scaffold \ VxlanTables : c4[t] = c3[t]
  <2> HIDE DEF c3
  <2> QED
    BY <1>7, VxlanLeaves DEF Leaves
<1>9. /\ \A k \in DOMAIN c4.VXLAN_TUNNEL_MAP : c4.VXLAN_TUNNEL_MAP[k].vlan \in {in.vrfs[v] : v \in Vnis(in)}
      /\ \A k \in DOMAIN c4.VXLAN_EVPN_NVO : c4.VXLAN_EVPN_NVO[k].source_vtep \in DOMAIN c4.VXLAN_TUNNEL
  <2>1. VxlanTables \subseteq DOMAIN c3
    BY <1>7, ScaffoldNames DEF VxlanTables
  <2>2. \A t \in VxlanTables : c3[t] = NoRows
    <3> HIDE DEF c1, c2, c3
    <3> QED
      BY <1>3, <1>4, <1>7, ScaffoldNames DEF VxlanTables, VrfTables
  <2> HIDE DEF c3
  <2> QED
    BY <2>1, <2>2, VxlanTablesWritten
<1> HIDE DEF c1, c2, c3, c4, e
<1>10. \A t \in Scaffold \ {"INTERFACE", "PORTCHANNEL_INTERFACE"} : e[t] = c4[t]
  BY <1>1, <1>8
<1>11. DOMAIN e.VRF = DOMAIN in.vrfs \cup DOMAIN c.VRF
  BY <1>2, <1>3, <1>5, <1>7, <1>8, <1>10, ScaffoldNames DEF Over, VxlanTables
<1>12. DOMAIN e.BGP_GLOBALS = DOMAIN in.vrfs \cup DOMAIN c.BGP_GLOBALS
  BY <1>2, <1>3, <1>5, <1>7, <1>8, <1>10, ScaffoldNames DEF Over, VxlanTables
<1>13. VniEffect(c, e, in)
  <2>1. \A t \in {"VLAN", "VLAN_INTERFACE", "BGP_GLOBALS_AF"} : e[t] = c2[t] /\ c1[t] = c[t]
    BY <1>3, <1>7, <1>8, <1>10, ScaffoldNames DEF VxlanTables
  <2>2. e.VLAN = c2.VLAN /\ e.VLAN_INTERFACE = c2.VLAN_INTERFACE /\ e.BGP_GLOBALS_AF = c2.BGP_GLOBALS_AF
    BY <2>1
  <2>3. c1.VLAN = c.VLAN /\ c1.VLAN_INTERFACE = c.VLAN_INTERFACE /\ c1.BGP_GLOBALS_AF = c.BGP_GLOBALS_AF
    BY <2>1
  <2> QED
    BY <1>6, <2>2, <2>3 DEF VniEffect
<1>14. e.VXLAN_TUNNEL_MAP = c4.VXLAN_TUNNEL_MAP /\ e.VXLAN_EVPN_NVO = c4.VXLAN_EVPN_NVO /\ e.VXLAN_TUNNEL = c4.VXLAN_TUNNEL
  BY <1>10, ScaffoldNames
<1> QED
  BY <1>9, <1>11, <1>12, <1>13, <1>14 DEF e

-----------------------------------------------------------------------------

\* Before the other helpers there is one VRF, the default one.
LEMMA DefaultVrfRows ==
  ASSUME NEW d, NEW m
  PROVE  /\ DOMAIN WithDefaultVrf(d, m).VRF = {Default}
         /\ DOMAIN WithDefaultVrf(d, m).BGP_GLOBALS = {Default}
         /\ \A k \in DOMAIN WithDefaultVrf(d, m).BGP_GLOBALS_AF : k[1] = Default
<1> DEFINE c  == FreshConfig(d)
           r1 == Rows({Default}, [vni |-> 0])
           r3 == DEFAULT_VRF_BGP_GLOBALS_AF
<1>1. PICK row, r4, r5 : WithDefaultVrf(d, m)
          = Put(Put(Put(Put(Put(c, "VRF", r1), "BGP_GLOBALS", Rows({Default}, row)), "BGP_GLOBALS_AF", r3),
                    "BGP_GLOBALS_ROUTE_ADVERTISE", r4), "ROUTE_REDISTRIBUTE", r5)
  BY Zenon DEF WithDefaultVrf, add_default_vrf_configuration
<1>2. \A t \in {"VRF", "BGP_GLOBALS", "BGP_GLOBALS_AF"} : t \in DOMAIN c /\ DOMAIN c[t] = {}
  BY FreshTables, ScaffoldNames DEF Scaffold, NoRows
<1>3. DOMAIN r1 = {Default} /\ DOMAIN Rows({Default}, row) = {Default}
  BY DEF Rows
<1>4. \A k \in DOMAIN r3 : k[1] = Default
  BY DEF Rows, DEFAULT_VRF_BGP_GLOBALS_AF
<1> DEFINE r2 == Rows({Default}, row)
<1>5. WithDefaultVrf(d, m) = Put(Put(Put(Put(Put(c, "VRF", r1), "BGP_GLOBALS", r2), "BGP_GLOBALS_AF", r3),
                    "BGP_GLOBALS_ROUTE_ADVERTISE", r4), "ROUTE_REDISTRIBUTE", r5)
  BY <1>1
<1>6. DOMAIN r2 = {Default}
  BY <1>3
<1> HIDE DEF r1, r2, r3, c
<1>7. /\ WithDefaultVrf(d, m).VRF = Over(r1, c.VRF) /\ WithDefaultVrf(d, m).BGP_GLOBALS = Over(r2, c.BGP_GLOBALS)
      /\ WithDefaultVrf(d, m).BGP_GLOBALS_AF = Over(r3, c.BGP_GLOBALS_AF)
  BY <1>2, <1>5 DEF Put
<1> QED
  BY <1>2, <1>3, <1>4, <1>6, <1>7 DEF Over

\* Whatever VRF an interface is in is one of those of the device, or the default one.
LEMMA VrfNames ==
  ASSUME NEW d, NEW s
  PROVE  VrfName(Inputs(d), s) \in DOMAIN Inputs(d).vrfs \cup {Default}
<1> DEFINE inVrf == {i \in d.ifs : i.vrf # NoVrf /\ VrfOf(i.vrf).name # <<>>}
           names == {VrfOf(i.vrf).name : i \in inVrf}
           mapping == [x \in {Sonic(i, d) : i \in inVrf} |->
                         VrfOf((CHOOSE i \in inVrf : Sonic(i, d) = x).vrf).name]
<1>1. DOMAIN Inputs(d).vrfs = names /\ Inputs(d).vrfOf = mapping
  BY DEF Inputs, get_vrf_info
<1>2. ASSUME s \in DOMAIN mapping PROVE mapping[s] \in names
  <2>1. PICK j \in inVrf : Sonic(j, d) = s
    BY <1>2
  <2>2. (CHOOSE i \in inVrf : Sonic(i, d) = s) \in inVrf
    BY <2>1, Zenon
  <2>3. mapping[s] = VrfOf((CHOOSE i \in inVrf : Sonic(i, d) = s).vrf).name
    BY <1>2
  <2> HIDE DEF inVrf
  <2> QED
    BY <2>2, <2>3
<1> HIDE DEF names, mapping
<1> QED
  BY <1>1, <1>2 DEF VrfName

\* A member of a VLAN goes by the SONiC name of a front interface.
LEMMA MembersAreFront ==
  ASSUME NEW d, NEW v \in DOMAIN Inputs(d).vlans.vlan_members,
         NEW name \in DOMAIN Inputs(d).vlans.vlan_members[v], NEW s \in SonicNames(Inputs(d), name)
  PROVE  \E i \in FrontIfs(d) : s = Sonic(i, d)
<1>1. PICK i \in FrontIfs(d) : i.name = name
  BY DEF Inputs, get_device_vlans
<1>2. s \in DOMAIN netbox_interfaces(d) /\ netbox_interfaces(d)[s].netbox_name = name
  BY DEF SonicNames, Inputs
<1>3. PICK j \in d.ifs : Sonic(j, d) = s
  BY <1>2 DEF netbox_interfaces
<1> DEFINE x == CHOOSE y \in d.ifs : Sonic(y, d) = s
<1>4. Sonic(x, d) = s
  BY <1>3, Zenon
<1>5. netbox_interfaces(d)[s].netbox_name = x.name
  BY <1>2 DEF netbox_interfaces
<1> HIDE DEF x
<1>6. Sonic(i, d) = s
  BY <1>1, <1>2, <1>4, <1>5 DEF Sonic
<1> QED
  BY <1>6

\* A member of a port channel goes by the SONiC name of an interface with a LAG.
LEMMA MembersHaveLags ==
  ASSUME NEW d, NEW pc \in DOMAIN detect_port_channels(d).portchannels,
         NEW s \in detect_port_channels(d).portchannels[pc]
  PROVE  \E i \in d.ifs : i.lag # <<>> /\ s = Sonic(i, d)
<1>1. s \in DOMAIN detect_port_channels(d).member_mapping
  BY Channels
<1> QED
  BY <1>1 DEF detect_port_channels, PortChannels, Sonic

\* The VLANs and their interfaces that come from NetBox.
VlansOf(e, in) ==
  /\ \A v \in DOMAIN e.VLAN :
       \A s \in e.VLAN[v].members :
         /\ v \in DOMAIN in.vlans.vlan_members
         /\ \E name \in DOMAIN in.vlans.vlan_members[v] : s \in SonicNames(in, name)
  /\ \A k \in DOMAIN e.VLAN_INTERFACE :
       Len(k) = 1 => \E v \in DOMAIN in.vlans.vlan_interfaces : k = <<v>> /\ e.VLAN_INTERFACE[k].vrf = Default

\* What the helper for VLANs writes.
LEMMA SwitchedRows ==
  ASSUME NEW c, NEW in, {"VLAN", "VLAN_INTERFACE"} \subseteq DOMAIN c, c.VLAN = NoRows, c.VLAN_INTERFACE = NoRows
  PROVE  VlansOf(add_vlan_configuration(c, in), in)
<1> DEFINE vlans == in.vlans.vlan_members
           svis == in.vlans.vlan_interfaces
           Of(v) == UNION {SonicNames(in, name) : name \in DOMAIN vlans[v]}
           r1 == [v \in DOMAIN vlans |-> [members |-> Of(v)]]
           r3 == Rows({<<v>> : v \in DOMAIN svis}, [vrf |-> Default])
           keys == UNION {{<<v, svis[v][k]>> : k \in DOMAIN svis[v]} : v \in DOMAIN svis}
           r4 == Rows(keys, <<>>)
           e  == add_vlan_configuration(c, in)
<1>1. PICK r2 : e = Put(Put(Put(Put(c, "VLAN", r1), "VLAN_MEMBER", r2), "VLAN_INTERFACE", r3), "VLAN_INTERFACE", r4)
  BY Zenon DEF add_vlan_configuration
<1>2. e.VLAN = Over(r1, NoRows) /\ e.VLAN_INTERFACE = Over(r4, Over(r3, NoRows))
  <2> HIDE DEF r1, r3, r4, e
  <2>1. \A t \in {"VLAN", "VLAN_INTERFACE"} : t \in DOMAIN c /\ c[t] = NoRows
    OBVIOUS
  <2> QED
    BY <1>1, <2>1 DEF Put
<1>3. DOMAIN NoRows = {}
  BY DEF NoRows
<1>4. ASSUME NEW v \in DOMAIN r1, NEW s \in r1[v].members
      PROVE  v \in DOMAIN vlans /\ \E name \in DOMAIN vlans[v] : s \in SonicNames(in, name)
  OBVIOUS
<1>5. \A k \in DOMAIN r3 : (\E v \in DOMAIN svis : k = <<v>>) /\ r3[k].vrf = Default
  BY DEF Rows
<1>6. \A k \in DOMAIN r4 : Len(k) = 2
  BY DEF Rows
<1> HIDE DEF r1, r3, r4, e, vlans, svis
<1>7. ASSUME NEW v \in DOMAIN e.VLAN, NEW s \in e.VLAN[v].members
      PROVE  v \in DOMAIN vlans /\ \E name \in DOMAIN vlans[v] : s \in SonicNames(in, name)
  BY <1>2, <1>3, <1>4 DEF Over
<1>8. ASSUME NEW k \in DOMAIN e.VLAN_INTERFACE, Len(k) = 1
      PROVE  \E v \in DOMAIN svis : k = <<v>> /\ e.VLAN_INTERFACE[k].vrf = Default
  <2>1. k \notin DOMAIN r4
    BY <1>6, <1>8
  <2> QED
    BY <1>2, <1>3, <1>5, <2>1 DEF Over
<1> QED
  BY <1>7, <1>8 DEF VlansOf, vlans, svis, e

\* The rows of BGP_NEIGHBOR are in a VRF of an interface.
LEMMA NeighborVrfs ==
  ASSUME NEW c, NEW d, NEW in, NEW m, "BGP_NEIGHBOR" \in DOMAIN c, c.BGP_NEIGHBOR = NoRows,
         NEW k \in DOMAIN add_bgp_configurations(c, d, in, m).BGP_NEIGHBOR
  PROVE  \E s : k[1] = VrfName(in, s)
<1> DEFINE c1 == add_bgp_neighbor_af(c, d, in)
           c2 == add_bgp_neighbors(c1, d, in, m)
           speakers == BgpPorts(c1, in) \cup in.connected.portchannels
           r2 == [x \in {NeighborKey(d, in, s) : s \in speakers} |->
                    NeighborRow(d, in, CHOOSE s \in speakers : NeighborKey(d, in, s) = x, m)]
           keys == UNION {{<<VrfName(in, <<"Vlan", v>>), p[1], p[2]>> : p \in SviPeers(d, in, v)} :
                            v \in DOMAIN in.vlans.vlan_interfaces}
           r3 == Rows({<<x[1], x[2]>> : x \in keys}, [peer_type |-> "external", v6only |-> FALSE, local_addr |-> <<>>])
           e  == add_bgp_configurations(c, d, in, m)
<1>1. "BGP_NEIGHBOR" \in DOMAIN c1 /\ c1.BGP_NEIGHBOR = NoRows
  <2>1. PICK r : c1 = Put(c, "BGP_NEIGHBOR_AF", r)
    BY Zenon DEF add_bgp_neighbor_af
  <2> HIDE DEF c1
  <2> QED
    BY <2>1, PutOther
<1>2. c2 = Put(c1, "BGP_NEIGHBOR", r2)
  BY DEF add_bgp_neighbors
<1>3. PICK r : e = Put(Put(c2, "BGP_NEIGHBOR", r3), "BGP_NEIGHBOR_AF", r)
  <2>1. e = add_svi_neighbors(c2, d, in)
    BY DEF add_bgp_configurations
  <2> HIDE DEF c2, e
  <2> QED
    BY <2>1, Zenon DEF add_svi_neighbors
<1>4. e.BGP_NEIGHBOR = Over(r3, Over(r2, NoRows))
  <2> HIDE DEF c1, c2, r2, r3, e
  <2> QED
    BY <1>1, <1>2, <1>3 DEF Put
<1>5. \A x \in DOMAIN r2 : \E s : x[1] = VrfName(in, s)
  BY DEF NeighborKey
<1>6. \A x \in DOMAIN r3 : \E s : x[1] = VrfName(in, s)
  <2>1. ASSUME NEW x \in keys PROVE \E s : x[1] = VrfName(in, s)
    <3>1. PICK v \in DOMAIN in.vlans.vlan_interfaces :
            x \in {<<VrfName(in, <<"Vlan", v>>), p[1], p[2]>> : p \in SviPeers(d, in, v)}
      OBVIOUS
    <3> QED
      BY <3>1
  <2> HIDE DEF keys
  <2> QED
    BY <2>1 DEF Rows
<1>7. DOMAIN NoRows = {}
  BY DEF NoRows
<1>8. k \in DOMAIN e.BGP_NEIGHBOR
  OBVIOUS
<1> HIDE DEF r2, r3, e
<1>9. k \in DOMAIN r2 \cup DOMAIN r3
  BY <1>4, <1>7, <1>8 DEF Over
<1> QED
  BY <1>5, <1>6, <1>9

\* Every table a reference of another one leads to, in terms of what was read.
RefTables(e, in) ==
  /\ DOMAIN e.VRF = DOMAIN in.vrfs \cup {Default}
  /\ DOMAIN e.BGP_GLOBALS = DOMAIN in.vrfs \cup {Default}
  /\ \A k \in DOMAIN e.BGP_GLOBALS_AF : k[1] \in DOMAIN in.vrfs \cup {Default}
  /\ \A k \in DOMAIN e.BGP_NEIGHBOR : \E s : k[1] = VrfName(in, s)
  /\ DOMAIN e.VLAN = DOMAIN in.vlans.vlan_members \cup {in.vrfs[v] : v \in Vnis(in)}
  /\ \A v \in DOMAIN e.VLAN : \A s \in e.VLAN[v].members :
       /\ v \in DOMAIN in.vlans.vlan_members
       /\ \E name \in DOMAIN in.vlans.vlan_members[v] : s \in SonicNames(in, name)
  /\ \A k \in DOMAIN e.VLAN_INTERFACE : Len(k) = 1 =>
       \/ \E v \in DOMAIN in.vlans.vlan_interfaces : k = <<v>> /\ e.VLAN_INTERFACE[k].vrf = Default
       \/ \E v \in Vnis(in) : k = <<in.vrfs[v]>> /\ e.VLAN_INTERFACE[k].vrf \in DOMAIN in.vrfs
  /\ \A k \in DOMAIN e.VXLAN_TUNNEL_MAP : e.VXLAN_TUNNEL_MAP[k].vlan \in {in.vrfs[v] : v \in Vnis(in)}
  /\ \A k \in DOMAIN e.VXLAN_EVPN_NVO : e.VXLAN_EVPN_NVO[k].source_vtep \in DOMAIN e.VXLAN_TUNNEL
  /\ \A s \in DOMAIN e.PORT : e.PORT[s].tagged_vlans \subseteq DOMAIN in.vlans.vlan_members

\* They are so at the end of the last helper.
LEMMA RefTablesWritten ==
  ASSUME NEW d, NEW in, NEW m
  PROVE  RefTables(AddTables(WithDefaultVrf(d, m), d, in, m), in)
<1> DEFINE c  == WithDefaultVrf(d, m)
           e  == AddTables(c, d, in, m)
           c3 == Routed(c, in)
           c4 == Peered(c, d, in, m)
           c5 == Timed(c, d, in, m)
           c6 == Switched(c, d, in, m)
           c9 == Bundled(c, d, in, m)
<1>1. Scaffold \subseteq DOMAIN c /\ \A t \in Scaffold \ VrfTables : c[t] = NoRows
  BY Started
<1>2. e = add_vrf_configuration(c9, in) /\ Scaffold \subseteq DOMAIN c9
  BY <1>1, Stages
<1>3. \A t \in {"VRF", "BGP_GLOBALS", "BGP_GLOBALS_AF"} \cup VxlanTables : c9[t] = c[t]
  BY <1>1, Stages, ScaffoldNames
     DEF Leaves, BgpTables, ServiceTables, VlanTables, BreakoutTableNames, LagTables, VxlanTables
<1>4. \A t \in {"VLAN", "VLAN_INTERFACE"} : c9[t] = c6[t] /\ c5[t] = c[t] /\ t \in DOMAIN c5
  BY <1>1, Stages, ScaffoldNames
     DEF Leaves, BgpTables, ServiceTables, BreakoutTableNames, LagTables
<1>5. e.BGP_NEIGHBOR = c4.BGP_NEIGHBOR /\ c3.BGP_NEIGHBOR = c.BGP_NEIGHBOR /\ "BGP_NEIGHBOR" \in DOMAIN c3
  <2>1. e.BGP_NEIGHBOR = c4.BGP_NEIGHBOR
    BY <1>1, Stages, ScaffoldNames
       DEF Leaves, ServiceTables, VlanTables, BreakoutTableNames, LagTables,
           VrfStepTables, VrfTables, VxlanTables
  <2>2. c3.BGP_NEIGHBOR = c.BGP_NEIGHBOR /\ "BGP_NEIGHBOR" \in DOMAIN c3
    <3>1. Leaves(c, Ported(c, in), {"PORT"}) /\ Leaves(Ported(c, in), c3, {"INTERFACE"})
      BY <1>1, Stages
    <3>2. "BGP_NEIGHBOR" \in DOMAIN c
      BY <1>1, ScaffoldNames
    <3> HIDE DEF c, c3
    <3> QED
      BY <3>1, <3>2 DEF Leaves
  <2> QED
    BY <2>1, <2>2
<1>6. c4 = add_bgp_configurations(c3, d, in, m) /\ c6 = add_vlan_configuration(c5, in)
  BY DEF Peered, Switched
<1>7. \A t \in VxlanTables : c9[t] = NoRows
  BY <1>1, <1>3, ScaffoldNames DEF VxlanTables, VrfTables
<1>8. /\ DOMAIN c.VRF = {Default} /\ DOMAIN c.BGP_GLOBALS = {Default}
      /\ \A k \in DOMAIN c.BGP_GLOBALS_AF : k[1] = Default
  BY DefaultVrfRows
<1>9. c.VLAN = NoRows /\ c.VLAN_INTERFACE = NoRows /\ c.BGP_NEIGHBOR = NoRows /\ c.PORT = NoRows
  BY <1>1, ScaffoldNames DEF VrfTables
<1>10. DOMAIN e.VLAN = DOMAIN in.vlans.vlan_members \cup {in.vrfs[v] : v \in Vnis(in)}
  <2>1. DOMAIN NoRows = {}
    BY DEF NoRows
  <2> QED
    BY <1>1, <1>9, <2>1, VlanTable DEF Vnis
<1>11. \A s \in DOMAIN e.PORT : e.PORT[s].tagged_vlans \subseteq DOMAIN in.vlans.vlan_members
  <2> DEFINE ports == PortTable(in.ports, in.breakout, in.nb,
                                in.connected.interfaces \cup DOMAIN in.lags.member_mapping)
             rows == [s \in DOMAIN ports |-> [ports[s] EXCEPT !.tagged_vlans = TaggedVlans(in, s)]]
  <2>1. e.PORT = Ported(c, in).PORT
    BY <1>1, Stages, ScaffoldNames
       DEF Leaves, BgpTables, ServiceTables, VlanTables, BreakoutTableNames, LagTables,
           VrfStepTables, VrfTables, VxlanTables
  <2>2. Ported(c, in) = Put(c, "PORT", rows)
    BY DEF Ported, add_port_configurations
  <2>3. ASSUME NEW s \in DOMAIN rows PROVE rows[s].tagged_vlans = TaggedVlans(in, s)
    <3>1. rows[s] = [ports[s] EXCEPT !.tagged_vlans = TaggedVlans(in, s)]
      OBVIOUS
    <3>2. "tagged_vlans" \in DOMAIN ports[s]
      BY DEF PortTable, BreakoutPort, HwskuPort
    <3> HIDE DEF ports, rows
    <3> QED
      BY <3>1, <3>2
  <2>4. "PORT" \in DOMAIN c /\ DOMAIN NoRows = {}
    BY <1>1, ScaffoldNames DEF NoRows
  <2> HIDE DEF rows, e, c
  <2>5. e.PORT = Over(rows, NoRows)
    BY <1>9, <2>1, <2>2, <2>4 DEF Put
  <2>6. \A s \in DOMAIN e.PORT : s \in DOMAIN rows /\ e.PORT[s] = rows[s]
    BY <2>4, <2>5 DEF Over
  <2>7. \A s : TaggedVlans(in, s) \subseteq DOMAIN in.vlans.vlan_members
    BY DEF TaggedVlans
  <2> QED
    BY <2>3, <2>6, <2>7
<1> HIDE DEF c, e, c3, c4, c5, c6, c9
<1>12. /\ DOMAIN e.VRF = DOMAIN in.vrfs \cup DOMAIN c9.VRF
       /\ DOMAIN e.BGP_GLOBALS = DOMAIN in.vrfs \cup DOMAIN c9.BGP_GLOBALS
       /\ VniEffect(c9, e, in)
       /\ \A k \in DOMAIN e.VXLAN_TUNNEL_MAP : e.VXLAN_TUNNEL_MAP[k].vlan \in {in.vrfs[v] : v \in Vnis(in)}
       /\ \A k \in DOMAIN e.VXLAN_EVPN_NVO : e.VXLAN_EVPN_NVO[k].source_vtep \in DOMAIN e.VXLAN_TUNNEL
  BY <1>2, <1>7, VrfStep
<1>13. VlansOf(c6, in)
  BY <1>4, <1>6, <1>9, SwitchedRows
<1>14. \A k \in DOMAIN e.BGP_NEIGHBOR : \E s : k[1] = VrfName(in, s)
  BY <1>5, <1>6, <1>9, NeighborVrfs
<1>15. Vnis(in) \subseteq DOMAIN in.vrfs
  BY DEF Vnis
<1>16. \A k \in DOMAIN e.BGP_GLOBALS_AF : k[1] \in DOMAIN in.vrfs \cup {Default}
  BY <1>3, <1>8, <1>12, <1>15 DEF VniEffect
<1>17. c9.VLAN = c6.VLAN /\ c9.VLAN_INTERFACE = c6.VLAN_INTERFACE
  BY <1>4
<1>18. ASSUME NEW v \in DOMAIN e.VLAN, NEW s \in e.VLAN[v].members
       PROVE  /\ v \in DOMAIN in.vlans.vlan_members
              /\ \E name \in DOMAIN in.vlans.vlan_members[v] : s \in SonicNames(in, name)
  <2>1. v \in DOMAIN c6.VLAN /\ e.VLAN[v] = c6.VLAN[v]
    BY <1>12, <1>17 DEF VniEffect
  <2> QED
    BY <1>13, <2>1 DEF VlansOf
<1>19. ASSUME NEW k \in DOMAIN e.VLAN_INTERFACE, Len(k) = 1
       PROVE  \/ \E v \in DOMAIN in.vlans.vlan_interfaces : k = <<v>> /\ e.VLAN_INTERFACE[k].vrf = Default
              \/ \E v \in Vnis(in) : k = <<in.vrfs[v]>> /\ e.VLAN_INTERFACE[k].vrf \in DOMAIN in.vrfs
  BY <1>12, <1>13, <1>15, <1>17, <1>19 DEF VniEffect, VlansOf
<1>20. DOMAIN e.VRF = DOMAIN in.vrfs \cup {Default} /\ DOMAIN e.BGP_GLOBALS = DOMAIN in.vrfs \cup {Default}
  BY <1>3, <1>8, <1>12
<1> QED
  BY <1>10, <1>11, <1>12, <1>14, <1>16, <1>18, <1>19, <1>20 DEF RefTables, e, c

\* Every reference of one table to another leads somewhere.
LEMMA ReferencesLead ==
  ASSUME NEW d, NEW m, NEW v, WellNamed(generate_sonic_config(d, m, v), d)
  PROVE  ReferencesIn(generate_sonic_config(d, m, v))
<1> DEFINE in == Inputs(d)
           c  == WithDefaultVrf(d, m)
           e  == AddTables(c, d, in, m)
           g  == generate_sonic_config(d, m, v)
<1>1. \A t \in Scaffold : g[t] = e[t]
  <2>1. Leaves(e, g, {"VERSIONS"})
    BY Generates
  <2>2. Scaffold \subseteq DOMAIN e
    BY Started, Stages
  <2> QED
    BY <2>1, <2>2 DEF Leaves, Scaffold, INHERITED_TABLE_KEYS
<1>2. /\ Scaffold \subseteq DOMAIN c
      /\ c.PORT = NoRows /\ c.INTERFACE = NoRows /\ c.VLAN_MEMBER = NoRows
      /\ \A t \in LagTables : c[t] = NoRows
  BY Started, ScaffoldNames DEF VrfTables, LagTables
<1>3. in.lags = detect_port_channels(d) /\ in.vlans = get_device_vlans(d)
  BY DEF Inputs
<1>4. RefTables(e, in)
  BY RefTablesWritten
<1>5. \A s : VrfName(in, s) \in DOMAIN in.vrfs \cup {Default}
  BY VrfNames
<1>6. /\ \A s \in RoutedPorts(e, in) : e.INTERFACE[<<s>>].vrf = VrfName(in, s)
      /\ \A k \in DOMAIN e.INTERFACE : Len(k) = 1 => \E s \in RoutedPorts(e, in) : k = <<s>>
  BY <1>2, InterfaceTable
<1>7. /\ DOMAIN e.PORTCHANNEL = DOMAIN in.lags.portchannels
      /\ DOMAIN e.PORTCHANNEL_INTERFACE = {<<pc>> : pc \in DOMAIN in.lags.portchannels}
      /\ \A pc \in DOMAIN in.lags.portchannels : e.PORTCHANNEL_INTERFACE[<<pc>>].vrf = VrfName(in, pc)
      /\ \A k \in DOMAIN e.PORTCHANNEL_MEMBER :
           \E pc \in DOMAIN in.lags.portchannels : \E s \in in.lags.portchannels[pc] : k = <<pc, s>>
  BY <1>2, LagTable
<1>8. \A k \in DOMAIN e.VLAN_MEMBER :
        \E w \in DOMAIN in.vlans.vlan_members : \E name \in DOMAIN in.vlans.vlan_members[w] :
          \E s \in SonicNames(in, name) : k = <<w, s>>
  BY <1>2, MemberTable
<1>9. WellNamed(e, d)
  <2>1. g.PORT = e.PORT /\ g.PORTCHANNEL = e.PORTCHANNEL
    BY <1>1, ScaffoldNames
  <2> QED
    BY <2>1 DEF WellNamed, Bridged, g
<1>10. ASSUME NEW w \in DOMAIN in.vlans.vlan_members, NEW name \in DOMAIN in.vlans.vlan_members[w],
              NEW s \in SonicNames(in, name)
       PROVE  s \in Bridged(e)
  BY <1>9, MembersAreFront DEF WellNamed
<1>11. ASSUME NEW pc \in DOMAIN in.lags.portchannels, NEW s \in in.lags.portchannels[pc]
       PROVE  s \in DOMAIN e.PORT
  BY <1>3, <1>9, MembersHaveLags DEF WellNamed
<1>12. DOMAIN in.vlans.vlan_interfaces \subseteq DOMAIN in.vlans.vlan_members
  BY <1>3, <1>9 DEF WellNamed
<1> HIDE DEF g, e, c, in
<1>13. check_leafrefs(e)
  <2>1. ASSUME NEW k \in Plain(e.INTERFACE)
        PROVE  e.INTERFACE[k].vrf \in DOMAIN e.VRF /\ k[1] \in DOMAIN e.PORT
    <3>1. PICK s \in RoutedPorts(e, in) : k = <<s>>
      BY <1>6 DEF Plain
    <3>2. e.INTERFACE[k].vrf \in DOMAIN in.vrfs \cup {Default}
      BY <1>5, <1>6, <3>1
    <3> QED
      BY <1>4, <3>1, <3>2 DEF RefTables, RoutedPorts
  <2>2. ASSUME NEW k \in Plain(e.PORTCHANNEL_INTERFACE)
        PROVE  e.PORTCHANNEL_INTERFACE[k].vrf \in DOMAIN e.VRF /\ k[1] \in DOMAIN e.PORTCHANNEL
    <3>1. PICK pc \in DOMAIN in.lags.portchannels : k = <<pc>>
      BY <1>7 DEF Plain
    <3>2. e.PORTCHANNEL_INTERFACE[k].vrf \in DOMAIN in.vrfs \cup {Default}
      BY <1>5, <1>7, <3>1
    <3> QED
      BY <1>4, <1>7, <3>1, <3>2 DEF RefTables
  <2>3. ASSUME NEW k \in Plain(e.VLAN_INTERFACE)
        PROVE  e.VLAN_INTERFACE[k].vrf \in DOMAIN e.VRF /\ k[1] \in DOMAIN e.VLAN
    <3>1. \/ \E w \in DOMAIN in.vlans.vlan_interfaces : k = <<w>> /\ e.VLAN_INTERFACE[k].vrf = Default
          \/ \E w \in Vnis(in) : k = <<in.vrfs[w]>> /\ e.VLAN_INTERFACE[k].vrf \in DOMAIN in.vrfs
      BY <1>4 DEF RefTables, Plain
    <3> QED
      BY <1>4, <1>12, <3>1 DEF RefTables
  <2>4. DOMAIN e.BGP_GLOBALS \subseteq DOMAIN e.VRF
    BY <1>4 DEF RefTables
  <2>5. \A k \in DOMAIN e.VXLAN_EVPN_NVO : e.VXLAN_EVPN_NVO[k].source_vtep \in DOMAIN e.VXLAN_TUNNEL
    BY <1>4 DEF RefTables
  <2> QED
    BY <2>1, <2>2, <2>3, <2>4, <2>5 DEF check_leafrefs
<1>14. \A k \in DOMAIN e.VLAN_MEMBER : k[1] \in DOMAIN e.VLAN /\ k[2] \in Bridged(e)
  <2> SUFFICES ASSUME NEW k \in DOMAIN e.VLAN_MEMBER
               PROVE  k[1] \in DOMAIN e.VLAN /\ k[2] \in Bridged(e)
    OBVIOUS
  <2>1. PICK w \in DOMAIN in.vlans.vlan_members : \E name \in DOMAIN in.vlans.vlan_members[w] :
          \E s \in SonicNames(in, name) : k = <<w, s>>
    BY <1>8
  <2>2. PICK s : s \in Bridged(e) /\ k = <<w, s>>
    BY <1>10, <2>1
  <2> QED
    BY <1>4, <2>2 DEF RefTables
<1>15. \A w \in DOMAIN e.VLAN : e.VLAN[w].members \subseteq Bridged(e)
  BY <1>4, <1>10 DEF RefTables
<1>16. \A k \in DOMAIN e.PORTCHANNEL_MEMBER : k[1] \in DOMAIN e.PORTCHANNEL /\ k[2] \in DOMAIN e.PORT
  <2> SUFFICES ASSUME NEW k \in DOMAIN e.PORTCHANNEL_MEMBER
               PROVE  k[1] \in DOMAIN e.PORTCHANNEL /\ k[2] \in DOMAIN e.PORT
    OBVIOUS
  <2>1. PICK pc \in DOMAIN in.lags.portchannels : \E s \in in.lags.portchannels[pc] : k = <<pc, s>>
    BY <1>7
  <2> QED
    BY <1>7, <1>11, <2>1
<1>17. \A k \in DOMAIN e.BGP_NEIGHBOR : k[1] \in DOMAIN e.BGP_GLOBALS
  BY <1>4, <1>5 DEF RefTables
<1>18. \A k \in DOMAIN e.BGP_GLOBALS_AF : k[1] \in DOMAIN e.BGP_GLOBALS
  BY <1>4 DEF RefTables
<1>19. \A k \in DOMAIN e.VXLAN_TUNNEL_MAP : e.VXLAN_TUNNEL_MAP[k].vlan \in DOMAIN e.VLAN
  BY <1>4 DEF RefTables
<1>20. \A s \in DOMAIN e.PORT : e.PORT[s].tagged_vlans \subseteq DOMAIN e.VLAN
  BY <1>4 DEF RefTables
<1>21. ReferencesIn(e)
  BY <1>13, <1>14, <1>15, <1>16, <1>17, <1>18, <1>19, <1>20 DEF ReferencesIn
<1>22. \A t \in {"VRF", "BGP_GLOBALS", "BGP_GLOBALS_AF", "BGP_NEIGHBOR", "PORT", "INTERFACE",
                 "VLAN", "VLAN_INTERFACE", "VLAN_MEMBER", "PORTCHANNEL", "PORTCHANNEL_INTERFACE",
                 "PORTCHANNEL_MEMBER", "VXLAN_TUNNEL", "VXLAN_EVPN_NVO", "VXLAN_TUNNEL_MAP"} : g[t] = e[t]
  BY <1>1, ScaffoldNames
<1>23. ReferencesIn(g)
  BY <1>21, <1>22 DEF ReferencesIn, check_leafrefs, Bridged
<1> QED
  BY <1>23 DEF g

-----------------------------------------------------------------------------
(* The lanes of a port that is broken out.                                   *)

\* What the port table of a device is like.
LEMMA TableOf ==
  ASSUME NEW d, NEW n \in DOMAIN get_port_config(d.hwsku)
  PROVE  LET pc == get_port_config(d.hwsku)
         IN  /\ n \in Nat /\ pc[n].lanes \in Seq(Nat)
             /\ Len(pc[n].lanes) \in {1, 4, 8} /\ IsInjective(pc[n].lanes)
             /\ Len(pc[n].lanes) = 8 => ((n + 1)..(n + 7)) \cap DOMAIN pc = {}
BY PortTablesAreRegular DEF get_port_config

\* The lanes of a child: one of four, or a pair of eight.
LEMMA ChildLanes ==
  ASSUME NEW pc, NEW m \in DOMAIN pc, m \in Nat, pc[m].lanes \in Seq(Nat), Len(pc[m].lanes) \in {4, 8},
         NEW k \in 0..3
  PROVE  LET lanes == pc[m].lanes
             per   == Stride(m, pc)
         IN  Range(calculate_breakout_port_lane(m + k * per, m, pc)) = {lanes[k * per + 1], lanes[k * per + per]}
<1> DEFINE lanes == pc[m].lanes
           per == Stride(m, pc)
           first(n) == ((n - m) \div per) * per
<1>1. per \in {1, 2} /\ Len(lanes) = 4 * per
  <2>1. Len(lanes) = 8 => per = 2
    BY DEF Stride
  <2>2. Len(lanes) = 4 => per = 1
    BY DEF Stride
  <2>3. Len(lanes) \in {4, 8}
    OBVIOUS
  <2> HIDE DEF lanes, per
  <2>4. CASE Len(lanes) = 8
    BY <2>1, <2>4
  <2>5. CASE Len(lanes) = 4
    BY <2>2, <2>5
  <2> QED
    BY <2>3, <2>4, <2>5
<1>2. \A n : calculate_breakout_port_lane(n, m, pc)
               = IF first(n) + per <= Len(lanes) THEN SubSeq(lanes, first(n) + 1, first(n) + per) ELSE <<1>>
  BY DEF calculate_breakout_port_lane, Stride
<1> HIDE DEF per, lanes
<1>3. first(m + k * per) = k * per
  <2>1. CASE per = 1
    <3>1. m + k * per - m = k
      BY <2>1
    <3> QED
      BY <2>1, <3>1
  <2>2. CASE per = 2
    <3>1. m + k * per - m = 2 * k
      BY <2>2
    <3>2. (2 * k) \div 2 = k
      OBVIOUS
    <3> QED
      BY <2>2, <3>1, <3>2
  <2> QED
    BY <1>1, <2>1, <2>2
<1>4. calculate_breakout_port_lane(m + k * per, m, pc) = SubSeq(lanes, k * per + 1, k * per + per)
  <2>1. k * per + per <= Len(lanes)
    BY <1>1
  <2> HIDE DEF first
  <2> QED
    BY <1>2, <1>3, <2>1
<1>5. Range(SubSeq(lanes, k * per + 1, k * per + per)) = {lanes[k * per + 1], lanes[k * per + per]}
  <2> DEFINE q == SubSeq(lanes, k * per + 1, k * per + per)
  <2>0. lanes \in Seq(Nat)
    BY DEF lanes
  <2>1. CASE per = 1
    <3>1. DOMAIN q = {1} /\ q[1] = lanes[k * per + 1]
      BY <1>1, <2>0, <2>1
    <3> QED
      BY <2>1, <3>1 DEF Range
  <2>2. CASE per = 2
    <3>1. DOMAIN q = {1, 2} /\ q[1] = lanes[k * per + 1] /\ q[2] = lanes[k * per + 2]
      BY <1>1, <2>0, <2>2
    <3> QED
      BY <2>2, <3>1 DEF Range
  <2> QED
    BY <1>1, <2>1, <2>2
<1> QED
  BY <1>4, <1>5 DEF per, lanes

\* The children of a port of four or eight lanes share them out.
Children(m, pc) == {m + k * Stride(m, pc) : k \in 0..3}

LEMMA ChildrenShareLanes ==
  ASSUME NEW pc, NEW m \in DOMAIN pc, m \in Nat, pc[m].lanes \in Seq(Nat), Len(pc[m].lanes) \in {4, 8},
         IsInjective(pc[m].lanes)
  PROVE  /\ UNION {Range(calculate_breakout_port_lane(n, m, pc)) : n \in Children(m, pc)} = Range(pc[m].lanes)
         /\ \A n1, n2 \in Children(m, pc) : n1 # n2 =>
              Range(calculate_breakout_port_lane(n1, m, pc)) \cap Range(calculate_breakout_port_lane(n2, m, pc)) = {}
<1> DEFINE lanes == pc[m].lanes
           per == Stride(m, pc)
           Of(n) == Range(calculate_breakout_port_lane(n, m, pc))
<1>1. per \in {1, 2} /\ Len(lanes) = 4 * per
  <2>1. Len(lanes) = 8 => per = 2
    BY DEF Stride
  <2>2. Len(lanes) = 4 => per = 1
    BY DEF Stride
  <2>3. Len(lanes) \in {4, 8}
    OBVIOUS
  <2> HIDE DEF lanes, per
  <2>4. CASE Len(lanes) = 8
    BY <2>1, <2>4
  <2>5. CASE Len(lanes) = 4
    BY <2>2, <2>5
  <2> QED
    BY <2>3, <2>4, <2>5
<1>2. \A k \in 0..3 : Of(m + k * per) = {lanes[k * per + 1], lanes[k * per + per]}
  BY ChildLanes
<1>3. DOMAIN lanes = 1..(4 * per)
  BY <1>1
<1>4. \A x, y \in 1..(4 * per) : lanes[x] = lanes[y] => x = y
  BY <1>3 DEF IsInjective
<1>5. Range(lanes) = {lanes[x] : x \in 1..(4 * per)}
  BY <1>3 DEF Range
<1> HIDE DEF lanes, per, Of
<1>6. ASSUME NEW x \in 1..(4 * per) PROVE \E k \in 0..3 : x \in {k * per + 1, k * per + per}
  <2>1. CASE per = 1
    <3>1. x - 1 \in 0..3 /\ x = (x - 1) * per + 1
      BY <1>6, <2>1
    <3> QED
      BY <3>1
  <2>2. CASE per = 2
    <3>1. x \in 1..8
      BY <1>6, <2>2
    <3>2. \/ x \in {0 * per + 1, 0 * per + per} \/ x \in {1 * per + 1, 1 * per + per}
          \/ x \in {2 * per + 1, 2 * per + per} \/ x \in {3 * per + 1, 3 * per + per}
      BY <2>2, <3>1
    <3> QED
      BY <3>2
  <2> QED
    BY <1>1, <2>1, <2>2
<1>7. \A k \in 0..3 : k * per + 1 \in 1..(4 * per) /\ k * per + per \in 1..(4 * per)
  BY <1>1
<1>8. UNION {Of(n) : n \in Children(m, pc)} = Range(lanes)
  <2>1. ASSUME NEW n \in Children(m, pc), NEW l \in Of(n) PROVE l \in Range(lanes)
    <3>1. PICK k \in 0..3 : n = m + k * per
      BY DEF Children, per
    <3> QED
      BY <1>2, <1>5, <1>7, <3>1
  <2>2. ASSUME NEW l \in Range(lanes) PROVE \E n \in Children(m, pc) : l \in Of(n)
    <3>1. PICK x \in 1..(4 * per) : l = lanes[x]
      BY <1>5
    <3>2. PICK k \in 0..3 : x \in {k * per + 1, k * per + per}
      BY <1>6
    <3>3. m + k * per \in Children(m, pc) /\ l \in Of(m + k * per)
      BY <1>2, <3>1, <3>2 DEF Children, per
    <3> QED
      BY <3>3
  <2> QED
    BY <2>1, <2>2
<1>9. ASSUME NEW n1 \in Children(m, pc), NEW n2 \in Children(m, pc), n1 # n2
      PROVE  Of(n1) \cap Of(n2) = {}
  <2>1. PICK k1 \in 0..3 : n1 = m + k1 * per
    BY DEF Children, per
  <2>2. PICK k2 \in 0..3 : n2 = m + k2 * per
    BY DEF Children, per
  <2>3. k1 # k2
    BY <1>9, <2>1, <2>2
  <2>4. {k1 * per + 1, k1 * per + per} \cap {k2 * per + 1, k2 * per + per} = {}
    BY <1>1, <2>3
  <2>5. Of(n1) = {lanes[k1 * per + 1], lanes[k1 * per + per]} /\ Of(n2) = {lanes[k2 * per + 1], lanes[k2 * per + per]}
    BY <1>2, <2>1, <2>2
  <2> QED
    BY <1>4, <1>7, <2>4, <2>5
<1> QED
  BY <1>8, <1>9 DEF Of, lanes

\* Four numbers in a row after a port of eight get its first two pairs, twice each.
LEMMA ChildrenInARow ==
  ASSUME NEW pc, NEW m \in DOMAIN pc, m \in Nat, pc[m].lanes \in Seq(Nat), Len(pc[m].lanes) = 8,
         IsInjective(pc[m].lanes)
  PROVE  LET lanes == pc[m].lanes
             Of(n) == Range(calculate_breakout_port_lane(n, m, pc))
         IN  /\ UNION {Of(n) : n \in m..(m + 3)} = {lanes[k] : k \in 1..4}
             /\ Of(m) = Of(m + 1) /\ Of(m + 2) = Of(m + 3) /\ Of(m) \cap Of(m + 2) = {}
<1> DEFINE lanes == pc[m].lanes
           Of(n) == Range(calculate_breakout_port_lane(n, m, pc))
<1>1. Of(m) = {lanes[1], lanes[2]} /\ Of(m + 2) = {lanes[3], lanes[4]}
  <2>1. Stride(m, pc) = 2
    BY DEF Stride
  <2>2. \A k \in 0..3 : Of(m + k * 2) = {lanes[k * 2 + 1], lanes[k * 2 + 2]}
    BY <2>1, ChildLanes
  <2> HIDE DEF Of
  <2>3. m + 0 * 2 = m /\ m + 1 * 2 = m + 2
    OBVIOUS
  <2>4. Of(m + 0 * 2) = {lanes[0 * 2 + 1], lanes[0 * 2 + 2]} /\ Of(m + 1 * 2) = {lanes[1 * 2 + 1], lanes[1 * 2 + 2]}
    BY <2>2
  <2> QED
    BY <2>3, <2>4
<1>2. Of(m + 1) = Of(m) /\ Of(m + 3) = Of(m + 2)
  <2> DEFINE Calculated(n) == IF ((n - m) \div 2) * 2 + 2 <= Len(lanes)
                              THEN SubSeq(lanes, ((n - m) \div 2) * 2 + 1, ((n - m) \div 2) * 2 + 2) ELSE <<1>>
  <2>1. \A n : calculate_breakout_port_lane(n, m, pc) = Calculated(n)
    BY DEF calculate_breakout_port_lane
  <2>2. /\ (m - m) \div 2 = 0 /\ (m + 1 - m) \div 2 = 0
        /\ (m + 2 - m) \div 2 = 1 /\ (m + 3 - m) \div 2 = 1
    OBVIOUS
  <2>3. Calculated(m + 1) = Calculated(m) /\ Calculated(m + 3) = Calculated(m + 2)
    BY <2>2
  <2> HIDE DEF Calculated
  <2> QED
    BY <2>1, <2>3
<1>3. DOMAIN lanes = 1..8
  OBVIOUS
<1>4. \A x, y \in 1..8 : lanes[x] = lanes[y] => x = y
  BY <1>3 DEF IsInjective
<1> HIDE DEF lanes, Of
<1>5. Of(m) \cap Of(m + 2) = {}
  BY <1>1, <1>4
<1>6. m..(m + 3) = {m, m + 1, m + 2, m + 3}
  OBVIOUS
<1>7. 1..4 = {1, 2, 3, 4}
  OBVIOUS
<1>8. UNION {Of(n) : n \in m..(m + 3)} = {lanes[k] : k \in 1..4}
  <2>1. UNION {Of(n) : n \in m..(m + 3)} = Of(m) \cup Of(m + 1) \cup Of(m + 2) \cup Of(m + 3)
    BY <1>6
  <2>2. {lanes[k] : k \in 1..4} = {lanes[1], lanes[2], lanes[3], lanes[4]}
    BY <1>7
  <2> QED
    BY <1>1, <1>2, <2>1, <2>2
<1> QED
  BY <1>2, <1>5, <1>8 DEF lanes, Of

\* The least number of a set, as Min finds it.
LEMMA MinOf ==
  ASSUME NEW T, T \subseteq Nat, T # {}
  PROVE  Min(T) \in T /\ \A y \in T : Min(T) <= y
<1>1. PICK x \in T : \A y \in T : x <= y
  BY Least
<1> QED
  BY <1>1, Zenon DEF Min

\* What a breakout is, whichever way it was found: of a port with four or eight
\* lanes, into children none of which is a port; they share out the lanes or bear
\* numbers in a row, which for four lanes is the same.
Fit(b, pc) ==
  /\ b.master \in DOMAIN pc /\ Len(pc[b.master].lanes) \in {4, 8}
  /\ b.children \in {Children(b.master, pc), b.master..(b.master + 3)}
  /\ (b.children \ {b.master}) \cap DOMAIN pc = {}

\* An alias that is known is that of a port.
LEMMA AliasPort ==
  ASSUME NEW pc, DOMAIN pc \subseteq Nat, NEW name, IsSonic(find_sonic_name_by_alias(name, pc)), ~IsSonic(name)
  PROVE  \E n \in DOMAIN pc : find_sonic_name_by_alias(name, pc) = SonicPort(n)
<1> DEFINE hits == {n \in DOMAIN pc : LET k == extract_port_number(pc[n].alias)
                                     IN  k # 0 /\ name \in {<<"Eth", 1, k>>, <<"Eth", 1, k, 1>>}}
<1>1. find_sonic_name_by_alias(name, pc) = IF hits = {} THEN name ELSE SonicPort(Min(hits))
  BY DEF find_sonic_name_by_alias
<1>2. hits \subseteq DOMAIN pc
  OBVIOUS
<1> HIDE DEF hits
<1>3. hits # {}
  BY <1>1
<1>4. Min(hits) \in hits
  BY <1>2, <1>3, MinOf
<1> QED
  BY <1>1, <1>2, <1>3, <1>4

\* So is a cage with four interfaces, when cages are used as the table has them, ...
LEMMA CageFits ==
  ASSUME NEW d, CagesFit(d), NEW b \in NetBoxBreakouts(d, get_port_config(d.hwsku))
  PROVE  Fit(b, get_port_config(d.hwsku)) /\ b.children = Children(b.master, get_port_config(d.hwsku))
<1> DEFINE pc    == get_port_config(d.hwsku)
           names == NamesOf(d)
           Master(x) == handle_breakout_interface(x, names, pc)
           Found(x) == Breakout(Master(x)[2], get_interface_speed(Iface(d, x)),
                          {Master(x)[2] + (s - x[4]) * Stride(Master(x)[2], pc) : s \in Subports(x, names)})
           Cages == {[y EXCEPT ![4] = Min(Subports(y, names))] : y \in {z \in names : IsSub(z)}}
<1>1. PICK x \in Cages : /\ Cardinality(Subports(x, names)) = 4 /\ IsSonic(Master(x))
                         /\ b = Found(x)
                         /\ breakout_child_collisions(b.children, b.master, pc) = {}
  <2>1. b \in {f \in {Found(x) : x \in {y \in Cages : Cardinality(Subports(y, names)) = 4 /\ IsSonic(Master(y))}} :
                 f.mode \in BREAKOUT_MODE_BY_SPEED /\ breakout_child_collisions(f.children, f.master, pc) = {}}
    BY DEF NetBoxBreakouts
  <2> HIDE DEF Cages, Found, Master
  <2> QED
    BY <2>1
<1> DEFINE group == Subports(x, names)
<1>2. b = Breakout(Master(x)[2], get_interface_speed(Iface(d, x)),
                   {Master(x)[2] + (s - x[4]) * Stride(Master(x)[2], pc) : s \in group})
  BY <1>1
<1>3. group \subseteq 1..4
  BY DEF CagesFit, Subports
<1>4. group = 1..4
  <2>1. Cardinality(1..4) = 4 /\ IsFiniteSet(1..4)
    <3>1. \A i, j \in Int : IsFiniteSet(i..j) /\ Cardinality(i..j) = IF i > j THEN 0 ELSE j - i + 1
      BY FS_Interval, Zenon
    <3>2. IsFiniteSet(1..4) /\ Cardinality(1..4) = IF 1 > 4 THEN 0 ELSE 4 - 1 + 1
      <4>1. 1 \in Int /\ 4 \in Int
        OBVIOUS
      <4> QED
        BY <3>1, <4>1, Zenon
    <3> QED
      BY <3>2
  <2>2. Cardinality(group) = 4
    BY <1>1
  <2> HIDE DEF group
  <2> QED
    BY <1>3, <2>1, <2>2, FS_Subset
<1>5. x \in {"Eth"} \X Nat \X Nat \X {1} /\ Min(group) = 1
  <2>1. PICK y \in {z \in names : IsSub(z)} : x = [y EXCEPT ![4] = Min(Subports(y, names))]
    OBVIOUS
  <2>2. y \in {"Eth"} \X Nat \X Nat \X (1..4)
    BY <2>1 DEF CagesFit
  <2>3. x[2] = y[2] /\ x[3] = y[3] /\ x[4] = Min(Subports(y, names))
    BY <2>1, <2>2
  <2>4. Subports(y, names) = group
    BY <2>3 DEF Subports
  <2>5. Min(group) = 1
    <3>1. 1..4 \subseteq Nat /\ 1 \in 1..4
      OBVIOUS
    <3>2. Min(1..4) \in 1..4 /\ \A z \in 1..4 : Min(1..4) <= z
      BY <3>1, MinOf
    <3> QED
      BY <1>4, <3>1, <3>2
  <2> QED
    BY <2>1, <2>2, <2>3, <2>4, <2>5
<1>6. Master(x)[2] \in DOMAIN pc
  <2> DEFINE z    == [x EXCEPT ![4] = Min(group)]
             base == find_sonic_name_by_alias(z, pc)
  <2>1. z = x
    BY <1>5
  <2>2. ~IsSonic(x) /\ x[4] = 1
    BY <1>5 DEF IsSonic
  <2>3. Master(x) = IF Cardinality(group) > 1 /\ IsSonic(base)
                    THEN SonicPort(base[2] + (x[4] - Min(group)) * Stride(base[2], pc)) ELSE base
    BY <2>1 DEF handle_breakout_interface
  <2>4. \A n \in Nat : SonicPort(n)[2] = n
    BY DEF SonicPort
  <2>5. DOMAIN pc \subseteq Nat
    BY TableOf
  <2>6. Stride(base[2], pc) \in {1, 2}
    BY DEF Stride
  <2>7. IsSonic(Master(x)) /\ IsSonic(SonicPort(0))
    BY <1>1 DEF SonicPort, IsSonic
  <2> HIDE DEF pc, names, group, Master, z
  <2>8. IsSonic(base)
    <3> HIDE DEF base
    <3> QED
      BY <2>3, <2>7
  <2>9. PICK n \in DOMAIN pc : base = SonicPort(n)
    BY <2>1, <2>2, <2>5, <2>8, AliasPort
  <2>10. n \in Nat /\ base[2] = n
    BY <2>4, <2>5, <2>9
  <2> HIDE DEF base
  <2>11. base[2] + (x[4] - Min(group)) * Stride(base[2], pc) = n
    <3>1. (x[4] - Min(group)) * Stride(base[2], pc) = 0
      BY <1>5, <2>2, <2>6
    <3> QED
      BY <2>10, <3>1
  <2> QED
    BY <2>3, <2>4, <2>9, <2>10, <2>11
<1>7. b.master = Master(x)[2] /\ b.children = {Master(x)[2] + (s - x[4]) * Stride(Master(x)[2], pc) : s \in group}
  BY <1>2 DEF Breakout
<1>8. b.children = Children(b.master, pc)
  <2> DEFINE m == Master(x)[2]
             w == Stride(m, pc)
  <2>1. b.children = {m + (s - x[4]) * w : s \in 1..4} /\ b.master = m
    BY <1>4, <1>7
  <2>2. x[4] = 1
    BY <1>5
  <2> HIDE DEF m
  <2>3. \A s \in 1..4 : s - 1 \in 0..3
    OBVIOUS
  <2>4. \A k \in 0..3 : k + 1 \in 1..4 /\ (k + 1) - 1 = k
    OBVIOUS
  <2> HIDE DEF w
  <2>5. {m + (s - 1) * w : s \in 1..4} = {m + k * w : k \in 0..3}
    BY <2>3, <2>4
  <2> QED
    BY <2>1, <2>2, <2>5 DEF Children, w
<1>9. Len(pc[b.master].lanes) \in {4, 8}
  <2>1. Len(pc[b.master].lanes) \in {1, 4, 8}
    BY <1>6, <1>7, TableOf
  <2>2. Len(pc[b.master].lanes) > 1
    BY DEF CagesFit
  <2> DEFINE n == Len(pc[b.master].lanes)
  <2> HIDE DEF n
  <2>3. n \in {1, 4, 8} /\ n > 1
    BY <2>1, <2>2 DEF n
  <2>4. n \in {4, 8}
    BY <2>3
  <2> QED
    BY <2>4 DEF n
<1> QED
  BY <1>1, <1>6, <1>7, <1>8, <1>9 DEF Fit, breakout_child_collisions

\* ... a port of eight lanes whose even slots run at 100G, ...
Slots400G(n) == {n, n + 2, n + 4, n + 6}

IsBigPort(d, pc, n) ==
  LET names == NamesOf(d)
      Is100G(k) == /\ SonicPort(k) \in names
                   /\ get_interface_speed(Iface(d, SonicPort(k))) = 100000
  IN  /\ n % 8 = 0
      /\ Len(pc[n].lanes) = 8
      /\ \A slot \in Slots400G(n) : Is100G(slot)
      /\ breakout_child_collisions(Slots400G(n), n, pc) = {}

LEMMA BigPortLanes ==
  ASSUME NEW d, NEW pc, NEW n, IsBigPort(d, pc, n)
  PROVE  Len(pc[n].lanes) = 8 /\ (Slots400G(n) \ {n}) \cap DOMAIN pc = {}
<1>1. Len(pc[n].lanes) = 8 /\ breakout_child_collisions(Slots400G(n), n, pc) = {}
  BY DEF IsBigPort
<1> QED
  BY <1>1, Zenon DEF breakout_child_collisions

LEMMA BigPortFits ==
  ASSUME NEW d, NEW b \in Sonic400GBreakouts(d, get_port_config(d.hwsku))
  PROVE  /\ Fit(b, get_port_config(d.hwsku)) /\ b.children = Children(b.master, get_port_config(d.hwsku))
         /\ IsBigPort(d, get_port_config(d.hwsku), b.master)
<1> DEFINE pc == get_port_config(d.hwsku)
<1>1. Sonic400GBreakouts(d, pc) = {Breakout(n, 100000, Slots400G(n)) : n \in {x \in DOMAIN pc : IsBigPort(d, pc, x)}}
  BY DEF Sonic400GBreakouts, IsBigPort, Slots400G
<1>2. b \in Sonic400GBreakouts(d, pc)
  OBVIOUS
<1> HIDE DEF pc
<1>3. PICK n \in DOMAIN pc : b = Breakout(n, 100000, Slots400G(n)) /\ IsBigPort(d, pc, n)
  BY <1>1, <1>2
<1>4. b.master = n /\ b.children = {n, n + 2, n + 4, n + 6}
  BY <1>3 DEF Breakout, Slots400G
<1>5. n \in Nat
  BY TableOf DEF pc
<1>6. /\ Len(pc[n].lanes) = 8
      /\ (b.children \ {n}) \cap DOMAIN pc = {}
  BY <1>3, <1>4, BigPortLanes DEF Slots400G
<1>7. Stride(n, pc) = 2
  BY <1>6 DEF Stride
<1>8. {n, n + 2, n + 4, n + 6} = {n + k * 2 : k \in 0..3}
  <2>1. \A k \in 0..3 : k = 0 \/ k = 1 \/ k = 2 \/ k = 3
    OBVIOUS
  <2>2. 0 \in 0..3 /\ 1 \in 0..3 /\ 2 \in 0..3 /\ 3 \in 0..3
    OBVIOUS
  <2>3. n = n + 0 * 2 /\ n + 2 = n + 1 * 2 /\ n + 4 = n + 2 * 2 /\ n + 6 = n + 3 * 2
    BY <1>5
  <2> QED
    BY <2>1, <2>2, <2>3
<1>9. b.children = Children(n, pc)
  BY <1>4, <1>7, <1>8 DEF Children
<1> HIDE DEF pc
<1> QED
  BY <1>3, <1>4, <1>6, <1>9 DEF Fit, pc

\* ... and a port before three slow ones that the table does not have.
SlowSpeed(d, n) ==
  LET names == NamesOf(d)
  IN  IF SonicPort(n) \in names THEN get_interface_speed(Iface(d, SonicPort(n))) ELSE 0

IsSlowPort(d, pc, n) ==
  /\ n % 4 = 0
  /\ \A k \in n..(n + 3) : SlowSpeed(d, k) # 0 /\ SlowSpeed(d, k) <= 50000
  /\ Len(pc[n].lanes) > 1
  /\ ((n + 1)..(n + 3)) \cap DOMAIN pc = {}
  /\ SlowSpeed(d, n) \in BREAKOUT_MODE_BY_SPEED

LEMMA SlowPortLanes ==
  ASSUME NEW d, NEW pc, NEW n, IsSlowPort(d, pc, n)
  PROVE  Len(pc[n].lanes) > 1 /\ ((n + 1)..(n + 3)) \cap DOMAIN pc = {}
BY DEF IsSlowPort

LEMMA SlowPortsFit ==
  ASSUME NEW d, NEW b \in SonicStandardBreakouts(d, get_port_config(d.hwsku))
  PROVE  /\ Fit(b, get_port_config(d.hwsku)) /\ b.children = b.master..(b.master + 3)
         /\ IsSlowPort(d, get_port_config(d.hwsku), b.master)
<1> DEFINE pc == get_port_config(d.hwsku)
<1>1. SonicStandardBreakouts(d, pc)
        = {Breakout(n, SlowSpeed(d, n), n..(n + 3)) : n \in {x \in DOMAIN pc : IsSlowPort(d, pc, x)}}
  BY DEF SonicStandardBreakouts, IsSlowPort, SlowSpeed
<1>2. b \in SonicStandardBreakouts(d, pc)
  OBVIOUS
<1> HIDE DEF pc
<1>3. PICK n \in DOMAIN pc : b = Breakout(n, SlowSpeed(d, n), n..(n + 3)) /\ IsSlowPort(d, pc, n)
  BY <1>1, <1>2
<1>4. b.master = n /\ b.children = n..(n + 3)
  BY <1>3 DEF Breakout
<1>5. n \in Nat /\ Len(pc[n].lanes) \in {1, 4, 8}
  BY TableOf DEF pc
<1>6. Len(pc[n].lanes) > 1 /\ ((n + 1)..(n + 3)) \cap DOMAIN pc = {}
  BY <1>3, SlowPortLanes
<1>7. Len(pc[n].lanes) \in {4, 8}
  <2> DEFINE l == Len(pc[n].lanes)
  <2>1. l \in {1, 4, 8} /\ l > 1
    BY <1>5, <1>6
  <2> HIDE DEF l
  <2>2. l \in {4, 8}
    BY <2>1
  <2> QED
    BY <2>2 DEF l
<1>8. (n..(n + 3)) \ {n} = (n + 1)..(n + 3)
  BY <1>5
<1>9. (b.children \ {n}) \cap DOMAIN pc = {}
  BY <1>4, <1>6, <1>8
<1>10. Fit(b, pc)
  BY <1>4, <1>7, <1>9 DEF Fit
<1> QED
  BY <1>3, <1>4, <1>10 DEF pc

\* How far the children reach.
LEMMA Reach ==
  ASSUME NEW b, NEW pc, Fit(b, pc), b.master \in Nat
  PROVE  LET m == b.master
         IN  /\ Len(pc[m].lanes) = 8 => b.children \subseteq m..(m + 6)
             /\ Len(pc[m].lanes) = 4 => b.children = m..(m + 3) /\ Children(m, pc) = m..(m + 3)
<1> DEFINE m == b.master
           w == Stride(m, pc)
<1>1. b.children \in {Children(m, pc), m..(m + 3)}
  BY DEF Fit
<1>2. Children(m, pc) = {m + k * w : k \in 0..3}
  BY DEF Children
<1>3. CASE Len(pc[m].lanes) = 8
  <2>1. w \in {1, 2}
    BY DEF Stride
  <2> HIDE DEF w, m
  <2>2. m \in Nat
    BY DEF m
  <2>3. \A k \in 0..3 : m + k * w \in m..(m + 6)
    BY <2>1, <2>2
  <2>4. m..(m + 3) \subseteq m..(m + 6)
    BY <2>2
  <2>5. b.children \subseteq m..(m + 6)
    BY <1>1, <1>2, <2>3, <2>4
  <2> QED
    BY <1>3, <2>5 DEF m
<1>4. CASE Len(pc[m].lanes) = 4
  <2>1. w = 1
    BY <1>4 DEF Stride
  <2> HIDE DEF w, m
  <2>2. m \in Nat
    BY DEF m
  <2>3. \A x \in m..(m + 3) : x - m \in 0..3 /\ x = m + (x - m) * w
    BY <2>1, <2>2
  <2>4. \A k \in 0..3 : m + k * w \in m..(m + 3)
    BY <2>1, <2>2
  <2>5. Children(m, pc) = m..(m + 3)
    BY <1>2, <2>3, <2>4
  <2> QED
    BY <1>1, <1>4, <2>5 DEF m
<1>5. Len(pc[m].lanes) \in {4, 8}
  BY DEF Fit
<1> QED
  BY <1>3, <1>4, <1>5

\* No number is in two ports that are broken out.
LEMMA ChildrenApart ==
  ASSUME NEW d, NEW b1, NEW b2, Fit(b1, get_port_config(d.hwsku)), Fit(b2, get_port_config(d.hwsku)),
         NEW n \in b1.children, n \in b2.children
  PROVE  b1.master = b2.master
<1> DEFINE pc == get_port_config(d.hwsku)
<1>1. ASSUME NEW a, NEW b, Fit(a, pc), Fit(b, pc), n \in a.children, n \in b.children, a.master < b.master
      PROVE  FALSE
  <2> DEFINE m == a.master
  <2>1. /\ m \in DOMAIN pc /\ b.master \in DOMAIN pc
        /\ Len(pc[m].lanes) \in {4, 8} /\ Len(pc[b.master].lanes) \in {4, 8}
        /\ (a.children \ {m}) \cap DOMAIN pc = {}
    BY <1>1 DEF Fit
  <2>2. m \in Nat /\ b.master \in Nat /\ (Len(pc[m].lanes) = 8 => ((m + 1)..(m + 7)) \cap DOMAIN pc = {})
    BY <2>1, TableOf
  <2>3. n \in Nat /\ b.master <= n
    <3>1. b.children \subseteq b.master..(b.master + 6)
      <4>1. b.master..(b.master + 3) \subseteq b.master..(b.master + 6)
        BY <2>2
      <4> QED
        BY <1>1, <2>1, <2>2, <4>1, Reach
    <3>2. n \in b.master..(b.master + 6)
      BY <1>1, <3>1
    <3> QED
      BY <2>2, <3>2
  <2>4. CASE Len(pc[m].lanes) = 8
    <3>1. n \in m..(m + 6)
      BY <1>1, <2>2, <2>4, Reach
    <3>2. b.master \in (m + 1)..(m + 7)
      BY <1>1, <2>2, <2>3, <3>1
    <3> QED
      BY <2>1, <2>2, <2>4, <3>2
  <2>5. CASE Len(pc[m].lanes) = 4
    <3>1. a.children = m..(m + 3)
      BY <1>1, <2>2, <2>5, Reach
    <3>2. b.master \in m..(m + 3) /\ b.master # m
      BY <1>1, <2>2, <2>3, <3>1
    <3> QED
      BY <2>1, <3>1, <3>2
  <2> QED
    BY <2>1, <2>4, <2>5
<1>2. b1.master \in Nat /\ b2.master \in Nat
  BY TableOf DEF Fit
<1> QED
  BY <1>1, <1>2

\* What the tables say of a port that is broken out, when breakouts are of such
\* ports, no number is in two of them, and a port is broken out in one way.
LEMMA TablesFit ==
  ASSUME NEW pc, NEW found,
         \A b \in found : Fit(b, pc),
         \A a, b \in found : \A n : n \in a.children /\ n \in b.children => a.master = b.master,
         \A a, b \in found : a.master = b.master => a.children = b.children,
         NEW m \in DOMAIN BreakoutTables(found).breakout_cfgs
  PROVE  LET ports == BreakoutTables(found).breakout_ports
         IN  /\ m \in DOMAIN pc /\ Len(pc[m].lanes) \in {4, 8}
             /\ {n \in DOMAIN ports : ports[n] = m} \in {Children(m, pc), m..(m + 3)}
<1> DEFINE ports == BreakoutTables(found).breakout_ports
<1>1. PICK b \in found : b.master = m
  BY DEF BreakoutTables
<1>2. DOMAIN ports = UNION {a.children : a \in found}
  BY DEF BreakoutTables
<1>3. ASSUME NEW n \in DOMAIN ports PROVE \E a \in found : n \in a.children /\ ports[n] = a.master
  <2> DEFINE a == CHOOSE x \in found : n \in x.children
  <2>1. \E x \in found : n \in x.children
    BY <1>2
  <2>2. a \in found /\ n \in a.children
    BY <2>1, Zenon
  <2>3. ports[n] = a.master
    BY <1>2 DEF BreakoutTables
  <2> QED
    BY <2>2, <2>3
<1>4. m \in DOMAIN pc /\ Len(pc[m].lanes) \in {4, 8} /\ b.children \in {Children(m, pc), m..(m + 3)}
  BY <1>1 DEF Fit
<1> HIDE DEF ports
<1>5. ASSUME NEW n \in DOMAIN ports, ports[n] = m PROVE n \in b.children
  <2>1. PICK a \in found : n \in a.children /\ a.master = m
    BY <1>3, <1>5
  <2> QED
    BY <1>1, <2>1
<1>6. ASSUME NEW n \in b.children PROVE n \in DOMAIN ports /\ ports[n] = m
  <2>1. n \in DOMAIN ports
    BY <1>2
  <2>2. PICK a \in found : n \in a.children /\ ports[n] = a.master
    BY <1>3, <2>1
  <2> QED
    BY <1>1, <1>6, <2>1, <2>2
<1>7. {n \in DOMAIN ports : ports[n] = m} = b.children
  BY <1>5, <1>6
<1> QED
  BY <1>4, <1>7 DEF ports

\* Every breakout that is detected is one of those, ...
Found(d) ==
  LET pc == get_port_config(d.hwsku)
  IN  NetBoxBreakouts(d, pc) \cup Sonic400GBreakouts(d, pc) \cup SonicStandardBreakouts(d, pc)

LEMMA FoundFit ==
  ASSUME NEW d, CagesFit(d)
  PROVE  \A b \in Found(d) : Fit(b, get_port_config(d.hwsku))
BY CageFits, BigPortFits, SlowPortsFit DEF Found

\* ... a port is broken out in one way ...
LEMMA FoundOnce ==
  ASSUME NEW d, CagesFit(d), NEW b1 \in Found(d), NEW b2 \in Found(d), b1.master = b2.master
  PROVE  b1.children = b2.children
<1> DEFINE pc == get_port_config(d.hwsku)
           Shared == NetBoxBreakouts(d, pc) \cup Sonic400GBreakouts(d, pc)
           Slow == SonicStandardBreakouts(d, pc)
<1>1. \A b \in Shared : b.children = Children(b.master, pc)
  BY CageFits, BigPortFits
<1>2. \A b \in Slow : b.children = b.master..(b.master + 3) /\ IsSlowPort(d, pc, b.master)
  BY SlowPortsFit
<1>3. ASSUME NEW a \in Shared, NEW b \in Slow PROVE a.master # b.master
  <2>1. CASE a \in NetBoxBreakouts(d, pc)
    BY <1>3, <2>1 DEF CagesFit
  <2>2. CASE a \in Sonic400GBreakouts(d, pc)
    <3>1. IsBigPort(d, pc, a.master)
      BY <2>2, BigPortFits
    <3>2. SlowSpeed(d, a.master) = 100000
      BY <3>1 DEF IsBigPort, Slots400G, SlowSpeed
    <3>3. SUFFICES ASSUME a.master = b.master PROVE FALSE
      OBVIOUS
    <3>4. IsSlowPort(d, pc, a.master) /\ a.master \in Nat
      <4>1. Fit(a, pc)
        BY <2>2, BigPortFits
      <4> QED
        BY <1>2, <1>3, <3>3, <4>1, TableOf DEF Fit
    <3>5. a.master \in a.master..(a.master + 3)
      BY <3>4
    <3>6. SlowSpeed(d, a.master) <= 50000
      BY <3>4, <3>5 DEF IsSlowPort
    <3> QED
      BY <3>2, <3>6
  <2> QED
    BY <1>3, <2>1, <2>2
<1>4. Found(d) = Shared \cup Slow
  BY DEF Found
<1> HIDE DEF Shared, Slow
<1>5. CASE b1 \in Shared /\ b2 \in Shared
  BY <1>1, <1>5
<1>6. CASE b1 \in Slow /\ b2 \in Slow
  BY <1>2, <1>6
<1> QED
  BY <1>3, <1>4, <1>5, <1>6

\* ... so that the tables are of them, ...
LEMMA Detected ==
  ASSUME NEW d, CagesFit(d), NEW m \in DOMAIN detect_breakout_ports(d).breakout_cfgs
  PROVE  LET pc    == get_port_config(d.hwsku)
             ports == detect_breakout_ports(d).breakout_ports
         IN  /\ m \in DOMAIN pc /\ Len(pc[m].lanes) \in {4, 8}
             /\ {n \in DOMAIN ports : ports[n] = m} \in {Children(m, pc), m..(m + 3)}
<1> DEFINE pc == get_port_config(d.hwsku)
           found == Found(d)
<1>1. \A b \in found : Fit(b, pc)
  BY FoundFit
<1>2. \A b1, b2 : \A n : Fit(b1, pc) /\ Fit(b2, pc) /\ n \in b1.children /\ n \in b2.children => b1.master = b2.master
  BY ChildrenApart
<1>3. detect_breakout_ports(d) = BreakoutTables(found)
  BY DEF detect_breakout_ports, Found
<1>4. \A a, b \in found : a.master = b.master => a.children = b.children
  BY FoundOnce
<1> HIDE DEF found, pc
<1>5. \A a, b \in found : \A n : n \in a.children /\ n \in b.children => a.master = b.master
  BY <1>1, <1>2
<1>6. /\ m \in DOMAIN pc /\ Len(pc[m].lanes) \in {4, 8}
      /\ {n \in DOMAIN BreakoutTables(found).breakout_ports : BreakoutTables(found).breakout_ports[n] = m}
           \in {Children(m, pc), m..(m + 3)}
  BY <1>1, <1>3, <1>4, <1>5, TablesFit
<1> QED
  BY <1>3, <1>6 DEF pc

\* ... and the tables are what the configuration has ...
LEMMA BreakoutTablesWritten ==
  ASSUME NEW d, NEW in, NEW m
  PROVE  LET e == AddTables(WithDefaultVrf(d, m), d, in, m)
         IN  /\ DOMAIN e.BREAKOUT_CFG = DOMAIN in.breakout.breakout_cfgs
             /\ DOMAIN e.BREAKOUT_PORTS = DOMAIN in.breakout.breakout_ports
             /\ \A n \in DOMAIN in.breakout.breakout_ports :
                  e.BREAKOUT_PORTS[n] = in.breakout.breakout_ports[n]
<1> DEFINE c  == WithDefaultVrf(d, m)
           e  == AddTables(c, d, in, m)
           c6 == Switched(c, d, in, m)
           c7 == add_log_server_configuration(add_loopback_configuration(c6, d), d)
           c8 == Managed(c, d, in, m)
           b  == Broken(c, d, in, m)
<1>1. BreakoutTableNames \subseteq Scaffold
  BY DEF BreakoutTableNames, Scaffold, TOP_LEVEL_SCAFFOLD_KEYS, INHERITED_TABLE_KEYS
<1>2. Scaffold \subseteq DOMAIN c /\ \A t \in BreakoutTableNames : c[t] = NoRows
  BY <1>1, Started DEF VrfTables, BreakoutTableNames
<1>3. Scaffold \subseteq DOMAIN c6 /\ \A t \in BreakoutTableNames : c6[t] = c[t]
  BY <1>1, <1>2, Stages DEF Leaves, BgpTables, ServiceTables, VlanTables, BreakoutTableNames
<1>4. Leaves(c6, c8, ServiceTables)
  BY ServicesLeave, SelfLeaves DEF Managed
<1>5. \A t \in BreakoutTableNames : t \in DOMAIN c8 /\ c8[t] = NoRows
  BY <1>1, <1>2, <1>3, <1>4 DEF Leaves, ServiceTables, BreakoutTableNames
<1>6. \A t \in BreakoutTableNames : e[t] = b[t]
  BY <1>1, <1>2, Stages
     DEF Leaves, LagTables, VrfStepTables, VrfTables, VxlanTables, BreakoutTableNames
<1>7. b = Put(Put(c8, "BREAKOUT_CFG", in.breakout.breakout_cfgs), "BREAKOUT_PORTS", in.breakout.breakout_ports)
  BY DEF Broken, add_breakouts
<1> DEFINE a == Put(c8, "BREAKOUT_CFG", in.breakout.breakout_cfgs)
<1> HIDE DEF c, e, c6, c7, c8, b
<1>8. DOMAIN NoRows = {}
  BY DEF NoRows
<1>9. /\ DOMAIN a.BREAKOUT_CFG = DOMAIN in.breakout.breakout_cfgs
      /\ "BREAKOUT_CFG" \in DOMAIN a /\ "BREAKOUT_PORTS" \in DOMAIN a /\ a.BREAKOUT_PORTS = NoRows
  <2>1. "BREAKOUT_CFG" \in DOMAIN c8 /\ c8.BREAKOUT_CFG = NoRows
    BY <1>5 DEF BreakoutTableNames
  <2>2. "BREAKOUT_PORTS" \in DOMAIN c8 /\ c8.BREAKOUT_PORTS = NoRows
    BY <1>5 DEF BreakoutTableNames
  <2>3. DOMAIN a.BREAKOUT_CFG = DOMAIN in.breakout.breakout_cfgs \cup DOMAIN c8.BREAKOUT_CFG
    BY <2>1, PutTable
  <2>4. "BREAKOUT_CFG" \in DOMAIN a /\ "BREAKOUT_PORTS" \in DOMAIN a
    BY <2>1, <2>2, PutOther
  <2>5. a.BREAKOUT_PORTS = c8.BREAKOUT_PORTS
    BY <2>2, PutOther
  <2> HIDE DEF a
  <2> QED
    BY <1>8, <2>1, <2>2, <2>3, <2>4, <2>5
<1> HIDE DEF a
<1>10. /\ b.BREAKOUT_CFG = a.BREAKOUT_CFG
      /\ DOMAIN b.BREAKOUT_PORTS = DOMAIN in.breakout.breakout_ports
      /\ \A n \in DOMAIN in.breakout.breakout_ports : b.BREAKOUT_PORTS[n] = in.breakout.breakout_ports[n]
  <2>1. b = Put(a, "BREAKOUT_PORTS", in.breakout.breakout_ports)
    BY <1>7 DEF a
  <2>2. b.BREAKOUT_CFG = a.BREAKOUT_CFG
    BY <1>9, <2>1, PutOther
  <2> DEFINE rows == in.breakout.breakout_ports
  <2>3. /\ DOMAIN Put(a, "BREAKOUT_PORTS", rows).BREAKOUT_PORTS = DOMAIN rows \cup DOMAIN a.BREAKOUT_PORTS
        /\ \A n \in DOMAIN rows : Put(a, "BREAKOUT_PORTS", rows).BREAKOUT_PORTS[n] = rows[n]
    <3> HIDE DEF rows
    <3> QED
      BY <1>9, PutTable
  <2> HIDE DEF rows
  <2>4. DOMAIN b.BREAKOUT_PORTS = DOMAIN rows /\ \A n \in DOMAIN rows : b.BREAKOUT_PORTS[n] = rows[n]
    BY <1>8, <1>9, <2>1, <2>3 DEF rows
  <2> QED
    BY <2>2, <2>4 DEF rows
<1> QED
  BY <1>6, <1>9, <1>10 DEF BreakoutTableNames, e, c

\* ... as are the lanes of the children.
LEMMA LanesWritten ==
  ASSUME NEW d, NEW in, NEW m, NEW n \in DOMAIN in.breakout.breakout_ports
  PROVE  AddTables(WithDefaultVrf(d, m), d, in, m).PORT[SonicPort(n)].lanes
           = calculate_breakout_port_lane(n, in.breakout.breakout_ports[n], in.ports)
<1> DEFINE c  == WithDefaultVrf(d, m)
           e  == AddTables(c, d, in, m)
           ports == PortTable(in.ports, in.breakout, in.nb,
                              in.connected.interfaces \cup DOMAIN in.lags.member_mapping)
           rows == [s \in DOMAIN ports |-> [ports[s] EXCEPT !.tagged_vlans = TaggedVlans(in, s)]]
<1>1. Scaffold \subseteq DOMAIN c
  BY Started
<1>2. e.PORT = Ported(c, in).PORT
  BY <1>1, Stages, ScaffoldNames
     DEF Leaves, BgpTables, ServiceTables, VlanTables, BreakoutTableNames, LagTables,
         VrfStepTables, VrfTables, VxlanTables
<1>3. Ported(c, in) = Put(c, "PORT", rows)
  BY DEF Ported, add_port_configurations
<1>4. SonicPort(n) \in DOMAIN ports /\ ports[SonicPort(n)] = BreakoutPort(n, in.breakout, in.ports, in.nb,
                              in.connected.interfaces \cup DOMAIN in.lags.member_mapping)
  <2>1. SonicPort(n)[2] = n
    BY DEF SonicPort
  <2>2. SonicPort(n) \in {SonicPort(k) : k \in (DOMAIN in.ports \ DOMAIN in.breakout.breakout_cfgs)
                                  \cup DOMAIN in.breakout.breakout_ports}
    OBVIOUS
  <2> QED
    BY <2>1, <2>2, Zenon DEF PortTable
<1>5. ports[SonicPort(n)].lanes = calculate_breakout_port_lane(n, in.breakout.breakout_ports[n], in.ports)
  BY <1>4 DEF BreakoutPort
<1>6. SonicPort(n) \in DOMAIN rows /\ rows[SonicPort(n)].lanes = ports[SonicPort(n)].lanes
  <2>1. "lanes" \in DOMAIN ports[SonicPort(n)]
    BY <1>4 DEF BreakoutPort
  <2>2. SonicPort(n) \in DOMAIN ports
    BY <1>4
  <2> HIDE DEF ports
  <2>3. rows[SonicPort(n)] = [ports[SonicPort(n)] EXCEPT !.tagged_vlans = TaggedVlans(in, SonicPort(n))]
    BY <2>2
  <2> QED
    BY <2>1, <2>2, <2>3
<1> HIDE DEF ports
<1>7. Put(c, "PORT", rows).PORT[SonicPort(n)] = rows[SonicPort(n)]
  <2>1. "PORT" \in DOMAIN c
    BY <1>1, ScaffoldNames
  <2> HIDE DEF rows, c
  <2> QED
    BY <1>6, <2>1, PutTable
<1> QED
  BY <1>2, <1>3, <1>5, <1>6, <1>7

\* So the children of a port share its lanes, or half of them two by two.
SharedBy(c, pc, m, children) ==
  LET lanes == pc[m].lanes
      InARow == Len(lanes) = 8 /\ children = m..(m + 3)
      Given == UNION {LanesOf(c, n) : n \in children}
  IN  /\ ~InARow => /\ Given = Range(lanes)
                    /\ \A n1, n2 \in children : n1 # n2 => LanesOf(c, n1) \cap LanesOf(c, n2) = {}
      /\ InARow => /\ Given = {lanes[k] : k \in 1..4}
                   /\ LanesOf(c, m) = LanesOf(c, m + 1) /\ LanesOf(c, m + 2) = LanesOf(c, m + 3)
                   /\ LanesOf(c, m) \cap LanesOf(c, m + 2) = {}

LEMMA LanesAreShared ==
  ASSUME NEW d, CagesFit(d), NEW v, NEW m
  PROVE  LanesShared(generate_sonic_config(d, m, v), d)
<1> DEFINE in == Inputs(d)
           e  == AddTables(WithDefaultVrf(d, m), d, in, m)
           g  == generate_sonic_config(d, m, v)
           pc == get_port_config(d.hwsku)
           t  == detect_breakout_ports(d)
           Kids(k) == {n \in DOMAIN t.breakout_ports : t.breakout_ports[n] = k}
<1>1. Leaves(e, g, {"VERSIONS"})
  BY Generates
<1>2. Scaffold \subseteq DOMAIN e
  BY Started, Stages
<1>3. in.breakout = t /\ in.ports = pc
  BY DEF Inputs
<1>4. g.PORT = e.PORT /\ g.BREAKOUT_CFG = e.BREAKOUT_CFG /\ g.BREAKOUT_PORTS = e.BREAKOUT_PORTS
  BY <1>1, <1>2 DEF Leaves, Scaffold, TOP_LEVEL_SCAFFOLD_KEYS, INHERITED_TABLE_KEYS
<1>5. /\ DOMAIN e.BREAKOUT_CFG = DOMAIN t.breakout_cfgs
      /\ DOMAIN e.BREAKOUT_PORTS = DOMAIN t.breakout_ports
      /\ \A n \in DOMAIN t.breakout_ports : e.BREAKOUT_PORTS[n] = t.breakout_ports[n]
  BY <1>3, BreakoutTablesWritten
<1>6. \A n \in DOMAIN t.breakout_ports :
        e.PORT[SonicPort(n)].lanes = calculate_breakout_port_lane(n, t.breakout_ports[n], pc)
  BY <1>3, LanesWritten
<1>7. \A k \in DOMAIN t.breakout_cfgs : /\ k \in DOMAIN pc /\ Len(pc[k].lanes) \in {4, 8}
                                        /\ Kids(k) \in {Children(k, pc), k..(k + 3)}
  BY Detected
<1>8. \A k \in DOMAIN pc : k \in Nat /\ pc[k].lanes \in Seq(Nat) /\ IsInjective(pc[k].lanes)
  BY TableOf
<1> HIDE DEF in, e, g, pc, t
<1>9. ASSUME NEW k \in DOMAIN t.breakout_cfgs PROVE SharedBy(g, pc, k, Kids(k))
  <2> DEFINE Of(n) == Range(calculate_breakout_port_lane(n, k, pc))
  <2>1. \A n \in Kids(k) : LanesOf(g, n) = Of(n)
    BY <1>4, <1>6 DEF LanesOf
  <2>2. CASE Kids(k) = Children(k, pc)
    <3>1. /\ UNION {Of(n) : n \in Kids(k)} = Range(pc[k].lanes)
          /\ \A n1, n2 \in Kids(k) : n1 # n2 => Of(n1) \cap Of(n2) = {}
      BY <1>7, <1>8, <2>2, ChildrenShareLanes
    <3> HIDE DEF Of, Kids
    <3>2. UNION {LanesOf(g, n) : n \in Kids(k)} = UNION {Of(n) : n \in Kids(k)}
      BY <2>1
    <3>3. ~(Len(pc[k].lanes) = 8 /\ Kids(k) = k..(k + 3))
      <4>1. SUFFICES ASSUME Len(pc[k].lanes) = 8, Kids(k) = k..(k + 3) PROVE FALSE
        OBVIOUS
      <4>2. k \in Nat /\ Stride(k, pc) = 2
        BY <1>7, <1>8, <4>1 DEF Stride
      <4>3. k + 3 * 2 \in Kids(k)
        BY <2>2, <4>2 DEF Children
      <4> QED
        BY <4>1, <4>2, <4>3
    <3> QED
      BY <2>1, <3>1, <3>2, <3>3 DEF SharedBy
  <2>3. CASE Kids(k) = k..(k + 3) /\ Len(pc[k].lanes) = 8
    <3>1. /\ UNION {Of(n) : n \in k..(k + 3)} = {pc[k].lanes[x] : x \in 1..4}
          /\ Of(k) = Of(k + 1) /\ Of(k + 2) = Of(k + 3) /\ Of(k) \cap Of(k + 2) = {}
      BY <1>7, <1>8, <2>3, ChildrenInARow
    <3>2. {k, k + 1, k + 2, k + 3} \subseteq k..(k + 3)
      BY <1>7, <1>8
    <3> HIDE DEF Of, Kids
    <3>3. /\ UNION {LanesOf(g, n) : n \in Kids(k)} = UNION {Of(n) : n \in k..(k + 3)}
          /\ LanesOf(g, k) = Of(k) /\ LanesOf(g, k + 1) = Of(k + 1)
          /\ LanesOf(g, k + 2) = Of(k + 2) /\ LanesOf(g, k + 3) = Of(k + 3)
      BY <2>1, <2>3, <3>2
    <3> QED
      BY <2>3, <3>1, <3>3 DEF SharedBy
  <2>4. CASE Kids(k) = k..(k + 3) /\ Len(pc[k].lanes) = 4
    <3>1. Children(k, pc) = k..(k + 3)
      <4>1. Stride(k, pc) = 1 /\ k \in Nat
        BY <1>7, <1>8, <2>4 DEF Stride
      <4>2. \A x \in k..(k + 3) : x - k \in 0..3 /\ x = k + (x - k) * 1
        BY <4>1
      <4>3. \A x \in 0..3 : k + x * 1 \in k..(k + 3)
        BY <4>1
      <4> QED
        BY <4>1, <4>2, <4>3 DEF Children
    <3> QED
      BY <2>2, <2>4, <3>1
  <2> QED
    BY <1>7, <2>2, <2>3, <2>4
<1>10. \A k \in DOMAIN t.breakout_cfgs : {n \in DOMAIN g.BREAKOUT_PORTS : g.BREAKOUT_PORTS[n] = k} = Kids(k)
  BY <1>4, <1>5
<1> HIDE DEF Kids
<1>11. DOMAIN g.BREAKOUT_CFG = DOMAIN t.breakout_cfgs
  BY <1>4, <1>5
<1>12. \A k \in DOMAIN g.BREAKOUT_CFG :
         SharedBy(g, pc, k, {n \in DOMAIN g.BREAKOUT_PORTS : g.BREAKOUT_PORTS[n] = k})
  BY <1>9, <1>10, <1>11
<1> QED
  BY <1>12 DEF LanesShared, SharedBy, g, pc

-----------------------------------------------------------------------------
(* The composition.                                                         *)

\* Whatever part is picked, Sonic implements the specification of the
\* synchronisation: another part leaves its state alone.
THEOREM SyncPart == SonicSpec => Spec
<1>1. SonicInit => Init
  BY DEF SonicInit
<1>2. [SonicNext]_<<component, device, config, cabling, vars>> => [Next]_vars
  BY DEF SonicNext, SyncNext, Configure
<1> QED
  BY <1>1, <1>2, PTL DEF SonicSpec, Spec

\* For any devices, cables and runs beside each other, and numbers of edits and
\* failures: whatever fails and whenever a worker is killed, a name of a device
\* has a whole file, a link to a file, or nothing; but of two runs that wrote a
\* file at the same time one is not done with it, was killed or has the rc 1 ...
THEOREM Whole == SonicSpec => []WholeFiles
<1> QED
  BY FilesWhole, SyncHolds, VersionsCount, DevicesAreFinite, SyncPart, PTL

\* ... a run that ends with 0 has brought the context, the files and the firmware
\* link of each of its devices up to date for which nobody else wrote meanwhile
\* and of which it kept no failure to itself ...
THEOREM Exported == SonicSpec => []CleanRunExports
<1> QED
  BY RunsExport, SyncHolds, VersionsCount, DevicesAreFinite, SyncPart, PTL

\* ... and only to a run that saves a device for which somebody has written are
\* the keys of others in its local context lost.
THEOREM Siblings == SonicSpec => SiblingsKept
<1> QED
  BY SyncHolds, VersionsCount, DevicesAreFinite, SyncPart, PTL DEF SiblingsKept, SiblingsStep

\* For any switches, cables and AS numbers: spines that are connected, over
\* however many others of their role, get one AS number, the least of their
\* own, in a run for all and in one for a single spine.
THEOREM SharedAS == SonicSpec => []GroupsAgree
<1>1. Groups!GroupsShareAS
  <2> SUFFICES ASSUME NEW d \in Groups!Spines
               PROVE  /\ Groups!AsNumber(d, Groups!All, {})
                           = Groups!calculate_minimum_as_for_group({e \in Groups!Spines : Groups!Connected(d, e)})
                      /\ Groups!AsNumber(d, d, {}) = Groups!AsNumber(d, Groups!All, {})
    BY DEF Groups!GroupsShareAS
  <2>1. Groups!Considered(Groups!All) = Groups!Spines
    BY SwitchesAreNumbered DEF Groups!SpinesAssumption, Groups!Considered
  <2>2. Groups!Considered(d) = Groups!Spines
    BY DEF Groups!Considered
  <2> QED
    BY <2>1, <2>2, SwitchesAreNumbered, GroupNumber
<1>2. GroupsAgree
  BY <1>1 DEF GroupsAgree
<1> QED
  BY <1>2, PTL

\* What was generated was generated for this device, which is one of Machines.
ConfigInv ==
  component = "config" => /\ device \in Machines
                          /\ config \in {NoRows, generate_sonic_config(device, NoRows, <<>>)}

LEMMA ConfigHolds == SonicSpec => []ConfigInv
<1>1. SonicInit => ConfigInv
  BY DEF SonicInit, ConfigInv
<1>2. ConfigInv /\ [SonicNext]_<<component, device, config, cabling, vars>> => ConfigInv'
  BY DEF ConfigInv, SonicNext, SyncNext, Configure
<1> QED
  BY <1>1, <1>2, PTL DEF SonicSpec

\* For any devices, port tables and base configuration: what a table of the
\* configuration has comes from the device, nothing from the base configuration ...
THEOREM Stale == SonicSpec => []NoStaleRows
<1>1. ConfigInv => NoStaleRows
  BY NothingIsStale DEF ConfigInv, NoStaleRows, Generated
<1> QED
  BY <1>1, ConfigHolds, PTL

\* ... who speaks BGP on a port or port channel is routed there, in the VRF in
\* which he speaks, and in no port channel and untagged in no VLAN ...
THEOREM Speakers == SonicSpec => []SpeakersAreRouted
<1>1. ASSUME ConfigInv PROVE SpeakersAreRouted
  <2> SUFFICES ASSUME Generated PROVE SpeakersRouted(config)
    BY DEF SpeakersAreRouted
  <2>1. device \in Machines /\ config = generate_sonic_config(device, NoRows, <<>>)
    BY <1>1 DEF ConfigInv, Generated
  <2>2. PeersAddressed(device)
    BY <2>1, PeersHaveAddresses DEF PeersAddressed
  <2> QED
    BY <2>1, <2>2, SpeakersAreRoutedPorts
<1> QED
  BY <1>1, ConfigHolds, PTL

\* ... for a device whose ports exist, every reference of one table to another
\* leads somewhere ...
THEOREM References == SonicSpec => []ReferencesResolve
<1>1. ConfigInv => ReferencesResolve
  BY ReferencesLead DEF ConfigInv, ReferencesResolve, Generated
<1> QED
  BY <1>1, ConfigHolds, PTL

\* ... and the children of a port that is broken out share its lanes, for a device
\* whose cages are used as the port table has them.
THEOREM Lanes == SonicSpec => []LanesPartitioned
<1>1. ConfigInv => LanesPartitioned
  BY LanesAreShared DEF ConfigInv, LanesPartitioned, Generated
<1> QED
  BY <1>1, ConfigHolds, PTL
=============================================================================
