------------------------------ MODULE MCSonic ------------------------------
(***************************************************************************)
(* Small devices with every feature of the generator, two devices that two *)
(* runs synchronise, and five switches with every way of cabling them.     *)
(***************************************************************************)
EXTENDS Sonic, TLC

-----------------------------------------------------------------------------
(* Port tables: ports of four lanes, ports of eight, ports of one, and the   *)
(* end of an AS7726, where two ports of one lane follow a port of four.      *)

Lanes(first, n) == [k \in 1..n |-> first + k - 1]
Port(lanes, alias, speed) ==
  [lanes |-> lanes, alias |-> alias, index |-> alias[Len(alias)], speed |-> speed, valid_speeds |-> {}]

MCPortTables ==
  [four  |-> 0 :> Port(Lanes(1, 4), <<"hundredGigE", 1>>, 100000)
               @@ 4 :> Port(Lanes(5, 4), <<"hundredGigE", 2>>, 100000),
   tail  |-> 0 :> Port(Lanes(125, 4), <<"hundredGigE", 1>>, 100000)
               @@ 1 :> Port(<<129>>, <<"tenGigE", 2>>, 10000)
               @@ 2 :> Port(<<128>>, <<"tenGigE", 3>>, 10000),
   eight |-> 0 :> Port(Lanes(73, 8), <<"Eth400GE", 1>>, 400000)
               @@ 8 :> Port(Lanes(65, 8), <<"Eth400GE", 2>>, 400000),
   one   |-> [n \in 0..3 |-> Port(<<n + 1>>, <<"tenGigE", n + 1>>, 10000)]]

\* The base configuration has a VLAN, which no device has, a telemetry port
\* and the name of a profile.
MCBaseConfig ==
  [DEVICE_METADATA |-> (<<"localhost">> :> [profile |-> "l3"]), VERSIONS |-> NoRows,
   TELEMETRY |-> (<<"gnmi">> :> 8081), VLAN |-> (99 :> [members |-> {}])]
MCMetalbox == 1 :> <<"global", 4, 9>>

-----------------------------------------------------------------------------
(* Devices.  All have a management address, a loopback and an SNMP user;     *)
(* the interfaces of a cage and what is on the last of them vary.            *)

Interface(name, type) ==
  [name |-> name, speed |-> 0, type |-> type, mgmt |-> FALSE, lag |-> <<>>, untagged |-> 0,
   tagged |-> {}, vrf |-> NoVrf, addrs |-> <<>>, peer |-> NoPeer, evpn |-> FALSE]

Peer(role) ==
  [id |-> 2, role |-> role, primary4 |-> <<0, 2>>, vips |-> <<>>,
   addrs |-> <<<<"local", 6, 1>>, <<"global", 4, 20>>, <<"global", 6, 21>>>>]

Loopback0 == [Interface(<<"Loopback", 0>>, "virtual") EXCEPT !.addrs = <<<<"global", 4, 31>>>>]
Vlan10    == [Interface(<<"Vlan", 10>>, "virtual") EXCEPT !.addrs = <<<<"global", 4, 30>>>>]

Device(hwsku, ifs) ==
  [id |-> 1, hwsku |-> hwsku, primary4 |-> <<0, 1>>, primary6 |-> <<>>, oob |-> <<"global", 4, 1>>,
   syslog |-> {}, snmp |-> [user |-> <<"u">>, hosts |-> {"h"}], ifs |-> ifs \cup {Loopback0}]

Cages ==
  {{<<"Eth", 1, 1>>}, {<<"Eth", 1, 1, k>> : k \in 1..4}, {<<"Eth", 1, 1, k>> : k \in 1..2},
   {<<"Ethernet", 0>>}, {<<"Ethernet", k>> : k \in 0..3}, {<<"Ethernet", 2 * k>> : k \in 0..3}}
Types == {"sfpp", "sfp28", "qsfp28"}
Vrfs  == {NoVrf, [name |-> <<"vrf", 30>>, rd |-> <<>>], [name |-> <<"blue">>, rd |-> <<"num", 20>>],
          [name |-> <<"vrf", 30>>, rd |-> <<"text", "b">>]}
Lag   == <<"PortChannel", 1>>

LastOf(names) == CHOOSE n \in names : \A m \in names : n[Len(n)] >= m[Len(m)]

\* A cage whose last interface is i.
WithLast(cage, type, i) ==
  {Interface(n, type) : n \in cage \ {LastOf(cage)}} \cup {i}
    \cup (IF i.untagged = 10 THEN {Vlan10} ELSE {})
    \cup (IF i.lag # <<>> THEN {[Interface(i.lag, "lag") EXCEPT !.tagged = i.tagged]} ELSE {})

CagedDevices ==
  {Device(h, WithLast(cage, type, [Interface(LastOf(cage), type) EXCEPT !.peer = p])) :
     h \in DOMAIN MCPortTables, cage \in Cages, type \in Types, p \in {NoPeer, Peer("leaf")}}

ServiceDevices ==
  {Device("four", WithLast(cage, "qsfp28",
     [Interface(LastOf(cage), "qsfp28") EXCEPT
        !.peer = p, !.untagged = u, !.tagged = t, !.vrf = v, !.lag = l, !.addrs = a])) :
     cage \in {{<<"Eth", 1, 1>>}, {<<"Ethernet", 0>>}},
     p \in {NoPeer, Peer("leaf"), Peer("server")}, u \in {0, 10}, t \in {{}, {12}}, v \in Vrfs,
     l \in {<<>>, Lag}, a \in {<<>>, <<<<"global", 4, 7>>>>, <<<<"transfer", 4, 8>>>>}}

-----------------------------------------------------------------------------
(* The devices to synchronise and the switches that are cabled.             *)

SyncDevices == {"s1", "l1"}
MCSwitches  == {"s1", "s2", "s3", "s4", "t1"}
MCCablings  == SUBSET {{"s1", "s2"}, {"s1", "s3"}, {"s2", "s3"}, {"s3", "s4"}, {"s2", "t1"}, {"s4", "t1"}}
AsNumbers   == [s1 |-> 11, s2 |-> 7, s3 |-> 5, s4 |-> 4, t1 |-> 2, l1 |-> 3]
Roles       == [s1 |-> "spine", s2 |-> "spine", s3 |-> "spine", s4 |-> "spine",
                t1 |-> "superspine", l1 |-> "leaf"]
Of(f, s)    == [d \in s |-> f[d]]

MCMachines    == CagedDevices \cup ServiceDevices
MCRole        == Of(Roles, SyncDevices)
MCOwnAs       == Of(AsNumbers, SyncDevices)
MCWirings     == {{}}
MCInventories == {[d \in SyncDevices |-> [data |-> 1, serial |-> IF d = "l1" THEN 0 ELSE 1,
                                          version |-> IF d = "l1" THEN 0 ELSE 1]]}
MCRequests    == [r1 |-> {All}, r2 |-> {"s1", "x1"}]
MCSwitchRole  == Of(Roles, MCSwitches)
MCSwitchAs    == Of(AsNumbers, MCSwitches)
=============================================================================
