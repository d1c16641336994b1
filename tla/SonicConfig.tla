---------------------------- MODULE SonicConfig ----------------------------
(***************************************************************************)
(* The configuration that is generated for a SONiC switch                  *)
(* (src/osism/tasks/conductor/sonic/config_generator.py).                  *)
(*                                                                         *)
(* A configuration maps the names of tables to tables, a table maps keys   *)
(* (tuples) to rows.  Every helper takes the configuration so far and      *)
(* gives the next one, in the order in which the source calls them; the    *)
(* later of two writers of a row wins.  A row keeps what another table     *)
(* refers to or what a property tells apart; columns that are the same in  *)
(* every configuration are left out.                                       *)
(***************************************************************************)
EXTENDS SonicInputs

CONSTANTS BaseConfig,   \* the config_db.json of the image
          Metalbox      \* network -> the metalbox address in it

NoRows  == [k \in {} |-> k]
Rows(keys, row) == [k \in keys |-> row]
Default == <<"default">>

\* A table with some rows added or replaced, and the table t of c like that.
Over(rows, table) ==
  [k \in DOMAIN rows \cup DOMAIN table |-> IF k \in DOMAIN rows THEN rows[k] ELSE table[k]]

Put(c, t, rows) ==
  [k \in DOMAIN c \cup {t} |->
     IF k # t THEN c[k] ELSE Over(rows, IF t \in DOMAIN c THEN c[t] ELSE NoRows)]

-----------------------------------------------------------------------------
(* Who owns a table.                                                        *)

INHERITED_TABLE_KEYS == {"DEVICE_METADATA", "VERSIONS"}

TOP_LEVEL_SCAFFOLD_KEYS == INHERITED_TABLE_KEYS \cup
  {"BGP_GLOBALS", "BGP_GLOBALS_AF", "BGP_GLOBALS_AF_NETWORK", "BGP_GLOBALS_ROUTE_ADVERTISE",
   "BGP_NEIGHBOR", "BGP_NEIGHBOR_AF", "MGMT_INTERFACE", "STATIC_ROUTE", "BREAKOUT_CFG",
   "BREAKOUT_PORTS", "NTP_SERVER", "DNS_NAMESERVER", "PORT", "INTERFACE", "VLAN",
   "VLAN_INTERFACE", "VLAN_MEMBER", "LOOPBACK", "LOOPBACK_INTERFACE", "PORTCHANNEL",
   "PORTCHANNEL_INTERFACE", "PORTCHANNEL_MEMBER", "VRF", "VXLAN_TUNNEL", "VXLAN_EVPN_NVO",
   "VXLAN_TUNNEL_MAP"}

\* A bug: the tables of the scaffold are taken over.
OnDemandTableKeys == {"ACL_RULE", "ACL_TABLE", "SNMP_SERVER", "SYSLOG_SERVER"}

OWNED_TABLE_KEYS == (TOP_LEVEL_SCAFFOLD_KEYS \ INHERITED_TABLE_KEYS) \cup
  {"ACL_RULE", "ACL_TABLE", "ROUTE_REDISTRIBUTE", "SNMP_SERVER", "SNMP_AGENT_ADDRESS_CONFIG",
   "SNMP_SERVER_GROUP_MEMBER", "SNMP_SERVER_USER", "SNMP_SERVER_PARAMS", "SNMP_SERVER_TARGET",
   "SYSLOG_SERVER"}

\* The base configuration without the owned tables, with an empty table for
\* each scaffold key that is missing then.
FreshConfig(d) ==
  LET kept == DOMAIN BaseConfig \ OWNED_TABLE_KEYS
      c    == [t \in kept \cup TOP_LEVEL_SCAFFOLD_KEYS |->
                 IF t \in kept THEN BaseConfig[t] ELSE NoRows]
  IN  [c EXCEPT !.DEVICE_METADATA = Over(Rows({<<"localhost">>}, [hwsku |-> d.hwsku]), @)]

-----------------------------------------------------------------------------
(* Everything that is read from NetBox before the first table is written.   *)

Inputs(d) ==
  LET pcs == detect_port_channels(d)
      vrf == get_vrf_info(d)
  IN  [ports     |-> get_port_config(d.hwsku),
       lags      |-> pcs,
       connected |-> get_connected_interfaces(d, pcs),
       vlans     |-> get_device_vlans(d),
       vrfs      |-> vrf.vrfs,
       vrfOf     |-> vrf.interface_vrf_mapping,
       ips       |-> get_device_interface_ips(d),
       transfer  |-> get_transfer_role_ipv4_addresses(d),
       breakout  |-> detect_breakout_ports(d),
       nb        |-> netbox_interfaces(d)]

\* The SONiC name of an interface that NetBox knows by this name: a set of
\* at most one.
SonicNames(in, name) == {s \in DOMAIN in.nb : in.nb[s].netbox_name = name}

-----------------------------------------------------------------------------
(* The helpers.                                                             *)

DEFAULT_VRF_BGP_GLOBALS_AF ==
  Rows({<<Default, af>> : af \in {"ipv4_unicast", "ipv6_unicast", "l2vpn_evpn"}}, [rt |-> 0])

DEFAULT_VRF_BGP_GLOBALS_ROUTE_ADVERTISE ==
  Rows({<<Default, af>> : af \in {"IPV4_UNICAST", "IPV6_UNICAST"}}, <<>>)

DEFAULT_VRF_ROUTE_REDISTRIBUTE == Rows({<<Default, af>> : af \in {"ipv4", "ipv6"}}, <<>>)

add_default_vrf_configuration(c, d, asMapping) ==
  LET router == [router_id |-> IF d.primary4 # <<>> THEN d.primary4 ELSE d.primary6,
                 local_asn |-> IF d.primary4 # <<>> THEN AsOf(d.id, d.primary4, asMapping) ELSE -1]
      c1 == Put(c,  "VRF", Rows({Default}, [vni |-> 0]))
      c2 == Put(c1, "BGP_GLOBALS", Rows({Default}, router))
      c3 == Put(c2, "BGP_GLOBALS_AF", DEFAULT_VRF_BGP_GLOBALS_AF)
      c4 == Put(c3, "BGP_GLOBALS_ROUTE_ADVERTISE", DEFAULT_VRF_BGP_GLOBALS_ROUTE_ADVERTISE)
  IN  Put(c4, "ROUTE_REDISTRIBUTE", DEFAULT_VRF_ROUTE_REDISTRIBUTE)

\* The VLANs a port is a tagged member of.
TaggedVlans(in, s) ==
  {v \in DOMAIN in.vlans.vlan_members :
     \E name \in DOMAIN in.vlans.vlan_members[v] :
       s \in SonicNames(in, name) /\ in.vlans.vlan_members[v][name] = "tagged"}

add_port_configurations(c, in) ==
  LET up    == in.connected.interfaces \cup DOMAIN in.lags.member_mapping
      ports == PortTable(in.ports, in.breakout, in.nb, up)
  IN  Put(c, "PORT", [s \in DOMAIN ports |->
                        [ports[s] EXCEPT !.tagged_vlans = TaggedVlans(in, s)]])

\* A connected port is routed, over its IPv4 address when it has one, unless
\* it is a member of a port channel.
RoutedPorts(c, in) ==
  {s \in DOMAIN c.PORT : s \in in.connected.interfaces \ DOMAIN in.lags.member_mapping}

HasDirectIpv4(in, s)   == s \in DOMAIN in.nb /\ in.nb[s].netbox_name \in DOMAIN in.ips
HasTransferIpv4(in, s) == s \in DOMAIN in.nb /\ in.nb[s].netbox_name \in DOMAIN in.transfer

\* A bug: the VLANs of a port are not looked at.
NeverUntagged(in, s) == FALSE

IsUntaggedVlanMember(in, s) ==
  s \in DOMAIN in.nb /\ \E v \in DOMAIN in.vlans.vlan_members :
    LET members == in.vlans.vlan_members[v]
    IN  in.nb[s].netbox_name \in DOMAIN members /\ members[in.nb[s].netbox_name] = "untagged"

add_interface_configurations(c, in) ==
  LET routed   == RoutedPorts(c, in)
      numbered == {s \in routed : HasDirectIpv4(in, s)}
  IN  Put(Put(c, "INTERFACE", [k \in {<<s>> : s \in routed} |->
                                 [linklocal |-> k[1] \notin numbered, vrf |-> Default]]),
          "INTERFACE", Rows({<<s, in.ips[in.nb[s].netbox_name]>> : s \in numbered}, <<>>))

-----------------------------------------------------------------------------
(* BGP.  A port takes part when it is routed, is no untagged member of a    *)
(* VLAN (its VLAN interface takes part then), and has no IPv4 address but   *)
(* one of a transfer network.                                               *)

BgpPorts(c, in) ==
  {s \in RoutedPorts(c, in) : /\ ~IsUntaggedVlanMember(in, s)
                              /\ HasTransferIpv4(in, s) \/ ~HasDirectIpv4(in, s)}

VrfName(in, s) == IF s \in DOMAIN in.vrfOf THEN in.vrfOf[s] ELSE Default

IsSwitch(peer) == peer # NoPeer /\ peer.role \in DEFAULT_SONIC_ROLES

\* EVPN is spoken in the default VRF: to switches, and where a tag says so.
SpeaksEvpn(d, in, s) ==
  /\ VrfName(in, s) = Default
  /\ \/ IsSwitch(get_connected_device_for_sonic_interface(d, s))
     \/ s[1] # "PortChannel" /\ in.nb[s].evpn

\* A port with an address of a transfer network speaks IPv4 only; a port channel
\* is not asked for one.
SpeaksIpv6(in, s) == s[1] = "PortChannel" \/ ~HasTransferIpv4(in, s)

AddressFamilies(d, in, s) ==
  {"ipv4_unicast"} \cup (IF SpeaksIpv6(in, s) THEN {"ipv6_unicast"} ELSE {})
    \cup (IF SpeaksEvpn(d, in, s) THEN {"l2vpn_evpn"} ELSE {})

\* Address families go by the name of the port ...
add_bgp_neighbor_af(c, d, in) ==
  LET speakers == BgpPorts(c, in) \cup in.connected.portchannels
  IN  Put(c, "BGP_NEIGHBOR_AF",
          Rows(UNION {{<<VrfName(in, s), s, af>> : af \in AddressFamilies(d, in, s)} : s \in speakers}, <<>>))

\* ... and neighbours by the IPv4 address of the other end, when NetBox has it.
NeighborKey(d, in, s) ==
  LET address == get_connected_interface_ip_addresses(d, s, 4)
  IN  <<VrfName(in, s), IF address # <<>> THEN address ELSE s>>

NeighborRow(d, in, s, asMapping) ==
  LET name == in.nb[s].netbox_name
      mine == IF s \notin DOMAIN in.nb THEN <<>>
              ELSE IF name \in DOMAIN in.ips THEN in.ips[name]
              ELSE IF name \in DOMAIN in.transfer THEN in.transfer[name] ELSE <<>>
  IN  [peer_type  |-> PeerType(d, get_connected_device_for_sonic_interface(d, s), asMapping),
       v6only     |-> VrfName(in, s) = Default /\ SpeaksIpv6(in, s),
       local_addr |-> IF NeighborKey(d, in, s)[2] = s \/ s[1] = "PortChannel" THEN <<>> ELSE mine]

add_bgp_neighbors(c, d, in, asMapping) ==
  LET speakers == BgpPorts(c, in) \cup in.connected.portchannels
  IN  Put(c, "BGP_NEIGHBOR",
          [k \in {NeighborKey(d, in, s) : s \in speakers} |->
             NeighborRow(d, in, CHOOSE s \in speakers : NeighborKey(d, in, s) = k, asMapping)])

\* A VLAN interface speaks to the ends of its untagged members, in the
\* address families in which it has an address itself.
SviPeers(d, in, v) ==
  LET mine(af) == \E k \in DOMAIN in.vlans.vlan_interfaces[v] :
                     is_numbered_neighbor_address(in.vlans.vlan_interfaces[v][k], af)
      untagged == {name \in DOMAIN in.vlans.vlan_members[v] :
                     in.vlans.vlan_members[v][name] = "untagged"}
      Peers(af) == {get_connected_interface_ip_addresses(d, s, af) :
                      s \in UNION {SonicNames(in, name) : name \in untagged}} \ {<<>>}
  IN  IF v \notin DOMAIN in.vlans.vlan_members THEN {}
      ELSE {<<a, "ipv4_unicast">> : a \in IF mine(4) THEN Peers(4) ELSE {}}
             \cup {<<a, "ipv6_unicast">> : a \in IF mine(6) THEN Peers(6) ELSE {}}

add_svi_neighbors(c, d, in) ==
  LET svis == DOMAIN in.vlans.vlan_interfaces
      Vrf(v) == VrfName(in, <<"Vlan", v>>)
      keys == UNION {{<<Vrf(v), p[1], p[2]>> : p \in SviPeers(d, in, v)} : v \in svis}
  IN  Put(Put(c, "BGP_NEIGHBOR",
              Rows({<<k[1], k[2]>> : k \in keys},
                   [peer_type |-> "external", v6only |-> FALSE, local_addr |-> <<>>])),
          "BGP_NEIGHBOR_AF", Rows(keys, <<>>))

add_bgp_configurations(c, d, in, asMapping) ==
  add_svi_neighbors(add_bgp_neighbors(add_bgp_neighbor_af(c, d, in), d, in, asMapping), d, in)

-----------------------------------------------------------------------------
(* VLANs, loopbacks, port channels, VRFs.                                   *)

add_vlan_configuration(c, in) ==
  LET vlans   == in.vlans.vlan_members
      Of(v)   == UNION {SonicNames(in, name) : name \in DOMAIN vlans[v]}
      members == UNION {{<<v, s>> : s \in Of(v)} : v \in DOMAIN vlans}
      svis    == in.vlans.vlan_interfaces
      c1 == Put(c,  "VLAN", [v \in DOMAIN vlans |-> [members |-> Of(v)]])
      c2 == Put(c1, "VLAN_MEMBER", [k \in members |-> vlans[k[1]][in.nb[k[2]].netbox_name]])
      c3 == Put(c2, "VLAN_INTERFACE", Rows({<<v>> : v \in DOMAIN svis}, [vrf |-> Default]))
  IN  Put(c3, "VLAN_INTERFACE",
          Rows(UNION {{<<v, svis[v][k]>> : k \in DOMAIN svis[v]} : v \in DOMAIN svis}, <<>>))

\* The addresses of Loopback0 are announced.
add_loopback_configuration(c, d) ==
  LET keys  == UNION {{<<i.name, i.addrs[k]>> : k \in DOMAIN i.addrs} : i \in Loopbacks(d)}
      names == {i.name : i \in Loopbacks(d)}
      c1 == Put(c,  "LOOPBACK", Rows(names, <<>>))
      c2 == Put(c1, "LOOPBACK_INTERFACE", Rows({<<n>> : n \in names}, <<>>))
      c3 == Put(c2, "LOOPBACK_INTERFACE", Rows(keys, <<>>))
  IN  Put(c3, "BGP_GLOBALS_AF_NETWORK",
          Rows({<<Default, IF k[2][2] = 4 THEN "ipv4_unicast" ELSE "ipv6_unicast", k[2]>> :
                  k \in {x \in keys : x[1] = <<"Loopback", 0>>}}, <<>>))

add_portchannel_configuration(c, in) ==
  LET lags == in.lags.portchannels
      c1 == Put(c,  "PORTCHANNEL", Rows(DOMAIN lags, <<>>))
      c2 == Put(c1, "PORTCHANNEL_INTERFACE", Rows({<<pc>> : pc \in DOMAIN lags},
                                                  [linklocal |-> TRUE, vrf |-> Default]))
  IN  Put(c2, "PORTCHANNEL_MEMBER",
          Rows(UNION {{<<pc, s>> : s \in lags[pc]} : pc \in DOMAIN lags}, <<>>))

\* A VRF with a VNI gets a VLAN of that number, whose rows replace those of
\* a VLAN the device has under it.
add_vni_vrfs(c, in) ==
  LET vnis == {v \in DOMAIN in.vrfs : in.vrfs[v] # 0}
      Vni(v) == in.vrfs[v]
      Owner(n) == CHOOSE v \in vnis : Vni(v) = n
      c1 == Put(c,  "VLAN", Rows({Vni(v) : v \in vnis}, [members |-> {}]))
      c2 == Put(c1, "VLAN_INTERFACE", [k \in {<<Vni(v)>> : v \in vnis} |-> [vrf |-> Owner(k[1])]])
      c3 == Put(c2, "BGP_GLOBALS_AF",
                [k \in {<<v, af>> : v \in vnis, af \in {"ipv4_unicast", "l2vpn_evpn"}} |->
                   [rt |-> IF k[2] = "l2vpn_evpn" THEN Vni(k[1]) ELSE 0]])
      c4 == Put(c3, "BGP_GLOBALS_ROUTE_ADVERTISE",
                Rows({<<v, af>> : v \in vnis, af \in {"IPV4_UNICAST", "IPV6_UNICAST"}}, <<>>))
  IN  Put(c4, "ROUTE_REDISTRIBUTE", Rows({<<v, "ipv4">> : v \in vnis}, <<>>))

add_vxlan(c, in) ==
  LET vnis == {in.vrfs[v] : v \in DOMAIN in.vrfs} \ {0}
      c1 == Put(c,  "VXLAN_TUNNEL", Rows({"vtepServ"}, [src_intf |-> <<"Loopback", 0>>,
                                                        src_ip |-> c.BGP_GLOBALS[Default].router_id]))
      c2 == Put(c1, "VXLAN_EVPN_NVO", Rows({"nvo1"}, [source_vtep |-> "vtepServ"]))
  IN  IF vnis = {} THEN c
      ELSE Put(c2, "VXLAN_TUNNEL_MAP", [k \in {<<"vtepServ", n>> : n \in vnis} |-> [vlan |-> k[2]]])

\* Every VRF copies the BGP settings of the default VRF; interfaces that
\* have a row learn their VRF.
add_vrf_configuration(c, in) ==
  LET c1 == Put(c, "VRF", [v \in DOMAIN in.vrfs |-> [vni |-> in.vrfs[v]]])
      c2 == add_vni_vrfs(c1, in)
      c3 == Put(c2, "BGP_GLOBALS", [v \in DOMAIN in.vrfs |-> c.BGP_GLOBALS[Default]])
      c4 == add_vxlan(c3, in)
      Assign(t) == [k \in DOMAIN c4[t] |->
                      IF Len(k) = 1 /\ VrfName(in, k[1]) # Default
                      THEN [c4[t][k] EXCEPT !.vrf = VrfName(in, k[1])] ELSE c4[t][k]]
  IN  [c4 EXCEPT !.INTERFACE = Assign("INTERFACE"),
                 !.PORTCHANNEL_INTERFACE = Assign("PORTCHANNEL_INTERFACE")]
-----------------------------------------------------------------------------
(* Management: time, names, logs, SNMP and who may reach the switch.        *)

\* The address of the metalbox in the management network of the device; a
\* network goes by the number of the addresses in it.
get_metalbox_ip(d) ==
  LET oob == get_device_oob_ip(d)
  IN  IF oob # <<>> /\ oob[3] \in DOMAIN Metalbox THEN Metalbox[oob[3]] ELSE <<>>

add_ntp_configuration(c, d) == Put(c, "NTP_SERVER", Rows({get_metalbox_ip(d)} \ {<<>>}, <<>>))
add_dns_configuration(c, d) == Put(c, "DNS_NAMESERVER", Rows({get_metalbox_ip(d)} \ {<<>>}, <<>>))

add_log_server_configuration(c, d) ==
  IF d.syslog = {} THEN c ELSE [t \in DOMAIN c \cup {"SYSLOG_SERVER"} |->
                                  IF t = "SYSLOG_SERVER" THEN Rows(d.syslog, <<>>) ELSE c[t]]

\* The port in the TELEMETRY table, when it is one, else 8080.
get_gnmi_port(c) ==
  LET port == IF "TELEMETRY" \in DOMAIN c /\ <<"gnmi">> \in DOMAIN c.TELEMETRY
              THEN c.TELEMETRY[<<"gnmi">>] ELSE 0
  IN  IF port \in 1..65535 THEN port ELSE 8080

add_ctrlplane_acls(c, oob) ==
  LET services == {"SSH_ONLY", "SNMP_ONLY", "GNMI_ONLY"}
  IN  IF ~IsV4(oob) THEN c
      ELSE Put(Put(c, "ACL_TABLE", Rows(services, <<>>)), "ACL_RULE",
               [k \in services |-> [network |-> oob[3],
                                    dport |-> IF k = "GNMI_ONLY" THEN get_gnmi_port(c) ELSE 0]])

add_management_interface(c, d) ==
  LET oob == get_device_oob_ip(d)
      c1 == Put(c,  "MGMT_INTERFACE", Rows({<<"eth0">>, <<"eth0", oob>>}, <<>>))
      c2 == Put(c1, "STATIC_ROUTE", Rows({"mgmt|0.0.0.0/0"}, get_metalbox_ip(d)))
  IN  IF oob = <<>> THEN c ELSE add_ctrlplane_acls(c2, oob)

\* d.snmp has the SNMP user, <<>> for none, and the trap receivers: they are
\* numbered, and the entries of a receiver share its number.
add_snmp_configuration(c, d) ==
  LET oob  == get_device_oob_ip(d)
      n    == Cardinality(d.snmp.hosts)
      c1   == Put(c, "SNMP_SERVER", Rows({"SYSTEM"}, <<>>))
      c2   == IF oob = <<>> THEN c1 ELSE Put(c1, "SNMP_AGENT_ADDRESS_CONFIG", Rows({oob}, <<>>))
      user == Rows({d.snmp.user}, <<>>)
      c3   == Put(Put(c2, "SNMP_SERVER_GROUP_MEMBER", user), "SNMP_SERVER_USER", user)
      c4   == Put(c3, "SNMP_SERVER_PARAMS", Rows(1..n, [user |-> d.snmp.user]))
  IN  CASE d.snmp.user = <<>> -> c2
        [] d.snmp.user # <<>> /\ d.snmp.hosts = {} -> c3
        [] d.snmp.user # <<>> /\ d.snmp.hosts # {} ->
             Put(c4, "SNMP_SERVER_TARGET", [k \in 1..n |-> [params |-> k]])

add_breakouts(c, in) ==
  Put(Put(c, "BREAKOUT_CFG", in.breakout.breakout_cfgs), "BREAKOUT_PORTS", in.breakout.breakout_ports)

\* The version asked for, else that of the base configuration, else 4.0.1.
set_database_version(c, version) ==
  IF version # <<>> THEN Put(c, "VERSIONS", Rows({<<"DATABASE">>}, version))
  ELSE IF <<"DATABASE">> \in DOMAIN c.VERSIONS THEN c
  ELSE Put(c, "VERSIONS", Rows({<<"DATABASE">>}, <<4, 0, 1>>))

\* The configuration c1 with the default VRF in it grows by the rest.
AddTables(c1, d, in, asMapping) ==
  LET c2  == add_port_configurations(c1, in)
      c3  == add_interface_configurations(c2, in)
      c4  == add_bgp_configurations(c3, d, in, asMapping)
      c5  == add_dns_configuration(add_ntp_configuration(c4, d), d)
      c6  == add_vlan_configuration(c5, in)
      c7  == add_log_server_configuration(add_loopback_configuration(c6, d), d)
      c8  == add_snmp_configuration(add_management_interface(c7, d), d)
      c9  == add_portchannel_configuration(add_breakouts(c8, in), in)
  IN  add_vrf_configuration(c9, in)

generate_sonic_config(d, asMapping, version) ==
  set_database_version(
    AddTables(add_default_vrf_configuration(FreshConfig(d), d, asMapping), d, Inputs(d), asMapping),
    version)

-----------------------------------------------------------------------------
(* validator.py: the references between tables, by the leafrefs of the YANG *)
(* models.  Keys that are made of several parts are not taken apart there,  *)
(* so that this is the list of references in columns and simple keys; that  *)
(* of local_addr, to a port or loopback by name, is left to the README: the *)
(* generator writes an address there.                                       *)

Plain(rows) == {k \in DOMAIN rows : Len(k) = 1}

check_leafrefs(c) ==
  LET vrfs == {c.INTERFACE[k].vrf : k \in Plain(c.INTERFACE)}
                \cup {c.PORTCHANNEL_INTERFACE[k].vrf : k \in Plain(c.PORTCHANNEL_INTERFACE)}
                \cup {c.VLAN_INTERFACE[k].vrf : k \in Plain(c.VLAN_INTERFACE)}
                \cup DOMAIN c.BGP_GLOBALS
  IN  /\ vrfs \subseteq DOMAIN c.VRF
      /\ {k[1] : k \in Plain(c.INTERFACE)} \subseteq DOMAIN c.PORT
      /\ {k[1] : k \in Plain(c.VLAN_INTERFACE)} \subseteq DOMAIN c.VLAN
      /\ {k[1] : k \in Plain(c.PORTCHANNEL_INTERFACE)} \subseteq DOMAIN c.PORTCHANNEL
      /\ {c.VXLAN_EVPN_NVO[k].source_vtep : k \in DOMAIN c.VXLAN_EVPN_NVO}
           \subseteq DOMAIN c.VXLAN_TUNNEL

-----------------------------------------------------------------------------
(* Properties of the configuration c of a device d.                         *)

LanesOf(c, n) == Range(c.PORT[SonicPort(n)].lanes)

\* The children of a port that is broken out share out its lanes, except those of
\* a port of eight lanes that bear four numbers in a row: they are taken two by two
\* for the same child, and share the first four lanes.
LanesShared(c, d) ==
  \A m \in DOMAIN c.BREAKOUT_CFG :
    LET children == {n \in DOMAIN c.BREAKOUT_PORTS : c.BREAKOUT_PORTS[n] = m}
        lanes == get_port_config(d.hwsku)[m].lanes
        InARow == Len(lanes) = 8 /\ children = m..(m + 3)
        Given == UNION {LanesOf(c, n) : n \in children}
    IN  /\ ~InARow => /\ Given = Range(lanes)
                      /\ \A n1, n2 \in children : n1 # n2 => LanesOf(c, n1) \cap LanesOf(c, n2) = {}
        /\ InARow => /\ Given = {lanes[k] : k \in 1..4}
                     /\ LanesOf(c, m) = LanesOf(c, m + 1) /\ LanesOf(c, m + 2) = LanesOf(c, m + 3)
                     /\ LanesOf(c, m) \cap LanesOf(c, m + 2) = {}

\* The interfaces of a cage are numbered from 1 to 4, a cage that is broken out
\* has several lanes, and NetBox names its interfaces in one way.
CagesFit(d) ==
  LET pc == get_port_config(d.hwsku)
  IN  /\ \A x \in NamesOf(d) : IsSub(x) => x \in {"Eth"} \X Nat \X Nat \X (1..4)
      /\ \A b \in NetBoxBreakouts(d, pc) :
           /\ Len(pc[b.master].lanes) > 1
           /\ \A b2 \in SonicStandardBreakouts(d, pc) : b2.master # b.master

\* What may be in a VLAN.
Bridged(c) == DOMAIN c.PORT \cup DOMAIN c.PORTCHANNEL

\* NetBox names only front ports and port channels that the switch has, as the
\* device is set up, and gives addresses to a VLAN only where a port is in it.
WellNamed(c, d) ==
  /\ \A i \in FrontIfs(d) : Sonic(i, d) \in Bridged(c)
  /\ \A i \in d.ifs : i.lag # <<>> => Sonic(i, d) \in DOMAIN c.PORT
  /\ LET vlans == get_device_vlans(d)
     IN  DOMAIN vlans.vlan_interfaces \subseteq DOMAIN vlans.vlan_members

\* Every reference of one table to another leads somewhere, those of the YANG
\* models and those that are parts of keys.
ReferencesIn(c) ==
  /\ check_leafrefs(c)
  /\ \A k \in DOMAIN c.VLAN_MEMBER        : k[1] \in DOMAIN c.VLAN /\ k[2] \in Bridged(c)
  /\ \A v \in DOMAIN c.VLAN               : c.VLAN[v].members \subseteq Bridged(c)
  /\ \A k \in DOMAIN c.PORTCHANNEL_MEMBER : k[1] \in DOMAIN c.PORTCHANNEL /\ k[2] \in DOMAIN c.PORT
  /\ \A k \in DOMAIN c.BGP_NEIGHBOR       : k[1] \in DOMAIN c.BGP_GLOBALS
  /\ \A k \in DOMAIN c.BGP_GLOBALS_AF     : k[1] \in DOMAIN c.BGP_GLOBALS
  /\ \A k \in DOMAIN c.VXLAN_TUNNEL_MAP   : c.VXLAN_TUNNEL_MAP[k].vlan \in DOMAIN c.VLAN
  /\ \A s \in DOMAIN c.PORT               : c.PORT[s].tagged_vlans \subseteq DOMAIN c.VLAN

\* A port that speaks BGP is a routed one, in the VRF in which it speaks:
\* neither in a port channel nor an untagged member of a VLAN.
SpeakersRouted(c) ==
  \A k \in DOMAIN c.BGP_NEIGHBOR_AF :
    LET s == k[2]      \* or the address of a neighbour of a VLAN interface
    IN  /\ s[1] = "Ethernet" =>
             /\ <<s>> \in DOMAIN c.INTERFACE /\ c.INTERFACE[<<s>>].vrf = k[1]
             /\ \A m \in DOMAIN c.PORTCHANNEL_MEMBER : m[2] # s
             /\ \A m \in DOMAIN c.VLAN_MEMBER : m[2] = s => c.VLAN_MEMBER[m] = "tagged"
        /\ s[1] = "PortChannel" =>
             <<s>> \in DOMAIN c.PORTCHANNEL_INTERFACE /\ c.PORTCHANNEL_INTERFACE[<<s>>].vrf = k[1]

\* Nothing of an owned table of the base configuration survives: what the
\* table has comes from this device.
NothingStale(c, d) ==
  /\ DOMAIN c.VLAN \subseteq DOMAIN get_device_vlans(d).vlan_members \cup Range(get_vrf_info(d).vrfs)
  /\ "TELEMETRY" \in DOMAIN BaseConfig => c.TELEMETRY = BaseConfig.TELEMETRY
=============================================================================
