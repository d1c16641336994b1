----------------------------- MODULE SonicPorts -----------------------------
(***************************************************************************)
(* The ports of a SONiC switch: how names of NetBox interfaces become      *)
(* names of SONiC ports and back, which cages are broken out, which port   *)
(* channels there are, and the PORT table that is generated from all this  *)
(* (src/osism/tasks/conductor/sonic/interface.py and the port helpers of   *)
(* config_generator.py).                                                   *)
(*                                                                         *)
(* A name is a tuple: <<"Ethernet", 4>>, <<"Eth", 1, 2>> for Eth1/2,       *)
(* <<"Eth", 1, 2, 3>> for Eth1/2/3, <<"hundredGigE", 7>>, ...              *)
(* The port table of a hardware SKU maps the number of each of its ports   *)
(* to its lanes, alias, index, speed (0: none) and valid speeds ({}: no    *)
(* such column).  A device d is a record of which this module reads        *)
(* d.hwsku and d.ifs, the set of its NetBox interfaces.                    *)
(***************************************************************************)
EXTENDS Integers, FiniteSets, Sequences, Functions, FiniteSetsExt

CONSTANT PortTables   \* hardware SKU -> its port table

\* So are the tables in files/sonic/port_config: a port has one lane, four or
\* eight, all different, and after one of eight the next seven numbers are free.
ASSUME PortTablesAreRegular ==
  \A hwsku \in DOMAIN PortTables :
    LET pc == PortTables[hwsku]
    IN  \A n \in DOMAIN pc :
          /\ n \in Nat /\ pc[n].lanes \in Seq(Nat)
          /\ Len(pc[n].lanes) \in {1, 4, 8} /\ IsInjective(pc[n].lanes)
          /\ Len(pc[n].lanes) = 8 => ((n + 1)..(n + 7)) \cap DOMAIN pc = {}

SonicPort(n)  == <<"Ethernet", n>>
IsSonic(name) == name[1] = "Ethernet"
IsSub(name)   == name[1] = "Eth" /\ Len(name) = 4
IsStd(name)   == name[1] = "Eth" /\ Len(name) = 3

get_port_config(hwsku) ==
  IF hwsku \in DOMAIN PortTables THEN PortTables[hwsku] ELSE [n \in {} |-> n]

NamesOf(d) == {i.name : i \in d.ifs}
Iface(d, name) == CHOOSE i \in d.ifs : i.name = name

-----------------------------------------------------------------------------
(* Speeds, in Mbps; 0 stands for None.                                      *)

PORT_TYPE_TO_SPEED_MAP ==
  [base1t |-> 1000, sfpp |-> 10000, sfp28 |-> 25000, qsfpp |-> 40000,
   qsfp28 |-> 100000, qsfp56 |-> 200000, qsfpdd |-> 400000, virtual |-> 0]

get_speed_from_port_type(type) ==
  IF type \in DOMAIN PORT_TYPE_TO_SPEED_MAP THEN PORT_TYPE_TO_SPEED_MAP[type] ELSE 0

\* NetBox holds explicit speeds in kbps.
get_interface_speed(i) ==
  IF i.speed # 0 THEN i.speed \div 1000 ELSE get_speed_from_port_type(i.type)

BREAKOUT_MODE_BY_SPEED == {10000, 25000, 50000, 100000, 200000}

-----------------------------------------------------------------------------
(* From NetBox names to SONiC names.                                        *)

\* The number at the end of an alias; 0 when there is none.
extract_port_number(alias) == IF Len(alias) < 2 THEN 0 ELSE alias[2]

\* The first port whose alias number gives this name, else the name itself.
find_sonic_name_by_alias(name, pc) ==
  LET hits == {n \in DOMAIN pc :
                 LET k == extract_port_number(pc[n].alias)
                 IN  k # 0 /\ name \in {<<"Eth", 1, k>>, <<"Eth", 1, k, 1>>}}
  IN  IF hits = {} THEN name ELSE SonicPort(Min(hits))

Subports(name, names) ==
  {s \in {m[4] : m \in {x \in names : IsSub(x)}} : <<"Eth", name[2], name[3], s>> \in names}

\* An eight-lane port breaks into four ports of two lanes each.
Stride(master, pc) ==
  IF master \in DOMAIN pc /\ Len(pc[master].lanes) = 8 THEN 2 ELSE 1

handle_breakout_interface(name, names, pc) ==
  LET group == Subports(name, names)
      base  == find_sonic_name_by_alias([name EXCEPT ![4] = Min(group)], pc)
  IN  IF Cardinality(group) > 1 /\ IsSonic(base)
      THEN SonicPort(base[2] + (name[4] - Min(group)) * Stride(base[2], pc))
      ELSE find_sonic_name_by_alias(name, pc)

map_interface_name(name, names, pc) ==
  LET same == {n \in DOMAIN pc : pc[n].alias = name}
  IN  CASE IsSub(name) -> handle_breakout_interface(name, names, pc)
        [] IsStd(name) -> find_sonic_name_by_alias(name, pc)
        [] OTHER       -> IF same = {} THEN name ELSE SonicPort(Min(same))

convert_netbox_interface_to_sonic(name, d) ==
  LET pc == get_port_config(d.hwsku)
  IN  IF IsSonic(name) \/ pc = [n \in {} |-> n]
      THEN name
      ELSE map_interface_name(name, NamesOf(d), pc)

-----------------------------------------------------------------------------
(* From SONiC names to NetBox names, for the alias column of PORT.          *)

HIGH_SPEED_PORTS == {100000, 200000, 400000, 800000}

\* The rule of thumb for ports the port table says nothing about.
convert_using_speed(n, speed, isBreakout) ==
  IF isBreakout
  THEN <<"Eth", 1, (n \div 4) + 1, (n % 4) + 1>>
  ELSE <<"Eth", 1, (n \div (IF speed \in HIGH_SPEED_PORTS THEN 4 ELSE 1)) + 1>>

find_base_port(n, pc) == Max({m \in DOMAIN pc : m <= n} \cup {-1})

convert_using_port_config(n, isBreakout, pc) ==
  LET base   == IF isBreakout THEN find_base_port(n, pc) ELSE n
      number == IF base \in DOMAIN pc THEN extract_port_number(pc[base].alias) ELSE 0
  IN  CASE number = 0 -> convert_using_speed(n, 0, isBreakout)
        [] isBreakout /\ number # 0 -> <<"Eth", 1, number, n - base + 1>>
        [] OTHER -> <<"Eth", 1, number>>

convert_sonic_interface_to_alias(n, speed, isBreakout, pc) ==
  IF pc = [k \in {} |-> k]
  THEN convert_using_speed(n, speed, isBreakout)
  ELSE convert_using_port_config(n, isBreakout, pc)

-----------------------------------------------------------------------------
(* Breakouts: sets of [master, mode, children], mode being the speed of     *)
(* one child.                                                               *)

breakout_child_collisions(children, master, pc) == (children \ {master}) \cap DOMAIN pc

Breakout(master, mode, children) == [master |-> master, mode |-> mode, children |-> children]

\* EthM/P/S: four interfaces of one cage, at a speed a breakout mode has.
NetBoxBreakouts(d, pc) ==
  LET names == NamesOf(d)
      cages == {[x EXCEPT ![4] = Min(Subports(x, names))] : x \in {y \in names : IsSub(y)}}
      Found(first) ==
        LET master == handle_breakout_interface(first, names, pc)[2]
        IN  Breakout(master, get_interface_speed(Iface(d, first)),
                     {master + (s - first[4]) * Stride(master, pc) : s \in Subports(first, names)})
  IN  {b \in {Found(first) : first \in
                {x \in cages : /\ Cardinality(Subports(x, names)) = 4
                               /\ IsSonic(handle_breakout_interface(x, names, pc))}} :
         /\ b.mode \in BREAKOUT_MODE_BY_SPEED
         /\ breakout_child_collisions(b.children, b.master, pc) = {}}

\* EthernetN: the eight-lane ports whose four even slots run at 100G.
Sonic400GBreakouts(d, pc) ==
  LET names == NamesOf(d)
      Slots(base) == {base, base + 2, base + 4, base + 6}
      Is100G(n) == /\ SonicPort(n) \in names
                   /\ get_interface_speed(Iface(d, SonicPort(n))) = 100000
  IN  {Breakout(base, 100000, Slots(base)) : base \in
         {n \in DOMAIN pc : /\ n % 8 = 0
                            /\ Len(pc[n].lanes) = 8
                            /\ \A slot \in Slots(n) : Is100G(slot)
                            /\ breakout_child_collisions(Slots(n), n, pc) = {}}}

\* EthernetN: four consecutive ports of at most 50G, of which the port table
\* knows only the first, as a port with several lanes.
SonicStandardBreakouts(d, pc) ==
  LET names == NamesOf(d)
      Speed(n) == IF SonicPort(n) \in names
                  THEN get_interface_speed(Iface(d, SonicPort(n))) ELSE 0
  IN  {Breakout(base, Speed(base), base..(base + 3)) : base \in
         {n \in DOMAIN pc : /\ n % 4 = 0
                            /\ \A k \in n..(n + 3) : Speed(k) # 0 /\ Speed(k) <= 50000
                            /\ Len(pc[n].lanes) > 1
                            /\ ((n + 1)..(n + 3)) \cap DOMAIN pc = {}
                            /\ Speed(n) \in BREAKOUT_MODE_BY_SPEED}}

BreakoutTables(found) ==
  [breakout_cfgs  |-> [m \in {b.master : b \in found} |->
                         (CHOOSE b \in found : b.master = m).mode],
   breakout_ports |-> [n \in UNION {b.children : b \in found} |->
                         (CHOOSE b \in found : n \in b.children).master]]

\* A device names the interfaces of one cage in one way, so that a master
\* comes from one of the three.
detect_breakout_ports(d) ==
  LET pc == get_port_config(d.hwsku)
  IN  BreakoutTables(NetBoxBreakouts(d, pc) \cup Sonic400GBreakouts(d, pc)
                       \cup SonicStandardBreakouts(d, pc))

-----------------------------------------------------------------------------
(* Port channels.  A LAG interface is recognised by the number in its name, *)
(* whatever the word before it is; without one it counts as 1 (the order of *)
(* the LAGs, which the source takes then, is left out).                     *)

LagNumber(lag) == IF Len(lag) < 2 THEN 1 ELSE lag[2]

PortChannels(names, mapping) ==
  [portchannels   |-> [pc \in names |-> {s \in DOMAIN mapping : mapping[s] = pc}],
   member_mapping |-> mapping]

detect_port_channels(d) ==
  LET members == {i \in d.ifs : i.lag # <<>>}
      Sonic(i) == convert_netbox_interface_to_sonic(i.name, d)
  IN  PortChannels({<<"PortChannel", LagNumber(i.lag)>> : i \in members},
                   [s \in {Sonic(i) : i \in members} |->
                      <<"PortChannel", LagNumber((CHOOSE i \in members : Sonic(i) = s).lag)>>])

-----------------------------------------------------------------------------
(* The PORT table.                                                          *)

\* 10G, 25G and so on may also run at every lower breakout speed and at 1G.
get_breakout_port_valid_speeds(speed) ==
  IF speed \in BREAKOUT_MODE_BY_SPEED
  THEN {s \in BREAKOUT_MODE_BY_SPEED : s <= speed} \cup {1000}
  ELSE {speed, 10000, 1000}

\* A bug: one lane for each child, whatever the port.
OneLaneEach(n, master, pc) == <<pc[master].lanes[n - master + 1]>>

calculate_breakout_port_lane(n, master, pc) ==
  LET lanes == pc[master].lanes
      per   == IF Len(lanes) = 8 THEN 2 ELSE 1
      first == ((n - master) \div per) * per
  IN  IF first + per <= Len(lanes)
      THEN SubSeq(lanes, first + 1, first + per)
      ELSE <<1>>

\* What NetBox says of the port, under its SONiC name: 0 when nothing.
NetBoxSpeed(nb, n) == IF SonicPort(n) \in DOMAIN nb THEN nb[SonicPort(n)].speed ELSE 0

\* A port that is not broken out: NetBox's explicit speed first, the derived
\* one only where the port table has none.
HwskuPort(n, pc, nb, up) ==
  LET said  == NetBoxSpeed(nb, n)
      speed == IF said # 0 /\ (nb[SonicPort(n)].speed_explicit \/ pc[n].speed = 0)
               THEN said ELSE pc[n].speed
  IN  [admin_status |-> IF SonicPort(n) \in up THEN "up" ELSE "down",
       alias        |-> convert_sonic_interface_to_alias(n, speed, FALSE, pc),
       index        |-> pc[n].index,
       lanes        |-> pc[n].lanes,
       speed        |-> speed,
       valid_speeds |-> IF pc[n].valid_speeds # {} THEN pc[n].valid_speeds
                        ELSE IF speed # 0 THEN {speed} ELSE {},
       tagged_vlans |-> {}]

BreakoutPort(n, info, pc, nb, up) ==
  LET master == info.breakout_ports[n]
      speed  == IF NetBoxSpeed(nb, n) # 0 THEN NetBoxSpeed(nb, n) ELSE info.breakout_cfgs[master]
  IN  [admin_status |-> IF SonicPort(n) \in up THEN "up" ELSE "down",
       alias        |-> convert_sonic_interface_to_alias(n, speed, TRUE, pc),
       index        |-> IF master \in DOMAIN pc THEN pc[master].index ELSE 1,
       lanes        |-> calculate_breakout_port_lane(n, master, pc),
       speed        |-> speed,
       valid_speeds |-> get_breakout_port_valid_speeds(speed),
       tagged_vlans |-> {}]

\* Ports of the table that are masters give way to their children.  A child
\* other than its master is never in the table: detection refuses those.
PortTable(pc, info, nb, up) ==
  [s \in {SonicPort(n) : n \in (DOMAIN pc \ DOMAIN info.breakout_cfgs)
                                  \cup DOMAIN info.breakout_ports} |->
     IF s[2] \in DOMAIN info.breakout_ports
     THEN BreakoutPort(s[2], info, pc, nb, up)
     ELSE HwskuPort(s[2], pc, nb, up)]
=============================================================================
