---------------------------- MODULE SonicInputs ----------------------------
(***************************************************************************)
(* What the generator of SONiC configurations reads: the interfaces of a   *)
(* device in NetBox, their VLANs, VRFs and addresses, and the other ends   *)
(* of their cables (conductor/netbox.py, sonic/connections.py, sonic/bgp.py *)
(* and the queries of sonic/config_generator.py).                          *)
(*                                                                         *)
(* A device is [id, hwsku, ifs, primary4, primary6, oob, syslog, snmp]:    *)
(* primary4 the last two octets of its IPv4 address or <<>>, oob its       *)
(* address in the management network or <<>>, syslog the log servers,      *)
(* snmp [user (a tuple, <<>> without one), hosts (the trap receivers)]. An *)
(* interface is [name, speed, type, mgmt, lag, untagged, tagged, vrf,      *)
(* addrs, peer, evpn]: untagged a VLAN id or 0, vrf a record or NoVrf,     *)
(* addrs a sequence of addresses, peer the reachable end of its cable or   *)
(* NoPeer.                                                                 *)
(* An address is <<kind, version, number>>, kind one of "global",          *)
(* "transfer" (in a prefix of role transfer) and "local" (link-local).     *)
(***************************************************************************)
EXTENDS SonicPorts, SonicRoles

NoVrf  == [name |-> <<>>, rd |-> <<>>]
NoPeer == [id |-> 0]
Addresses == {"global", "transfer", "local"} \X {4, 6} \X Nat

-----------------------------------------------------------------------------
(* What is read from NetBox.                                                *)

IsVirtual(i) == i.type = "virtual"
FrontIfs(d)  == {i \in d.ifs : ~i.mgmt /\ ~IsVirtual(i)}
Svis(d)      == {i \in d.ifs : IsVirtual(i) /\ i.name[1] = "Vlan" /\ i.addrs # <<>>}
Loopbacks(d) == {i \in d.ifs : IsVirtual(i) /\ i.name[1] = "Loopback" /\ i.addrs # <<>>}
Sonic(i, d)  == convert_netbox_interface_to_sonic(i.name, d)

\* SONiC name -> what NetBox says of the interface.
netbox_interfaces(d) ==
  [s \in {Sonic(i, d) : i \in d.ifs} |->
     LET i == CHOOSE x \in d.ifs : Sonic(x, d) = s
     IN  [speed |-> get_interface_speed(i), speed_explicit |-> i.speed # 0,
          evpn |-> i.evpn, netbox_name |-> i.name]]

get_device_vlans(d) ==
  LET vids == {i.untagged : i \in FrontIfs(d)} \cup UNION {i.tagged : i \in FrontIfs(d)}
      On(v) == {i \in FrontIfs(d) : v = i.untagged \/ v \in i.tagged}
  IN  [vlan_members |-> [v \in vids \ {0} |->
                           [n \in {i.name : i \in On(v)} |->
                              IF v \in Iface(d, n).tagged THEN "tagged" ELSE "untagged"]],
       vlan_interfaces |-> [v \in {i.name[2] : i \in Svis(d)} |->
                              Iface(d, <<"Vlan", v>>).addrs]]

FirstOf(addrs, Test(_)) ==
  LET ok == {k \in DOMAIN addrs : Test(addrs[k])} IN IF ok = {} THEN <<>> ELSE addrs[Min(ok)]

IsV4(a)       == a[2] = 4
IsTransfer(a) == a[2] = 4 /\ a[1] = "transfer"

\* Interface name -> its first IPv4 address.
get_device_interface_ips(d) ==
  [n \in {i.name : i \in {x \in FrontIfs(d) : FirstOf(x.addrs, IsV4) # <<>>}} |->
     FirstOf(Iface(d, n).addrs, IsV4)]

get_transfer_role_ipv4_addresses(d) ==
  [n \in {i.name : i \in {x \in FrontIfs(d) : FirstOf(x.addrs, IsTransfer) # <<>>}} |->
     FirstOf(Iface(d, n).addrs, IsTransfer)]

\* The address of the device itself or else that of a management interface.
get_device_oob_ip(d) ==
  LET mgmt == {i \in d.ifs : i.mgmt /\ i.addrs # <<>>}
  IN  IF d.oob # <<>> THEN d.oob
      ELSE IF mgmt = {} THEN <<>> ELSE (CHOOSE i \in mgmt : TRUE).addrs[1]

\* A numeric route distinguisher is the VNI of the VRF; "vrf7" with a text
\* for it has VNI 7 and that name, without one it is Vrf7 of table 7.
VrfOf(vrf) ==
  CASE vrf.rd # <<>> /\ vrf.rd[1] = "num" ->
         [name |-> vrf.name, vni |-> vrf.rd[2]]
    [] vrf.rd # <<>> /\ vrf.rd[1] = "text" /\ vrf.name[1] = "vrf" ->
         [name |-> vrf.rd, vni |-> vrf.name[2]]
    [] vrf.rd = <<>> /\ vrf.name[1] = "vrf" ->
         [name |-> <<"Vrf", vrf.name[2]>>, vni |-> 0]
    [] vrf.rd # <<>> /\ vrf.rd[1] = "text" /\ vrf.name[1] # "vrf" ->
         [name |-> vrf.rd, vni |-> 0]
    [] OTHER -> [name |-> <<>>, vni |-> 0]

\* A bug: interfaces are mapped to the names that NetBox has for the VRFs.
get_vrf_info_by_netbox_name(d) ==
  LET inVrf == {i \in d.ifs : i.vrf # NoVrf /\ VrfOf(i.vrf).name # <<>>}
  IN  [vrfs |-> [n \in {VrfOf(i.vrf).name : i \in inVrf} |->
                   VrfOf((CHOOSE i \in inVrf : VrfOf(i.vrf).name = n).vrf).vni],
       interface_vrf_mapping |->
         [s \in {Sonic(i, d) : i \in inVrf} |-> (CHOOSE i \in inVrf : Sonic(i, d) = s).vrf.name]]

get_vrf_info(d) ==
  LET inVrf == {i \in d.ifs : i.vrf # NoVrf /\ VrfOf(i.vrf).name # <<>>}
  IN  [vrfs |-> [n \in {VrfOf(i.vrf).name : i \in inVrf} |->
                   VrfOf((CHOOSE i \in inVrf : VrfOf(i.vrf).name = n).vrf).vni],
       interface_vrf_mapping |->
         [s \in {Sonic(i, d) : i \in inVrf} |->
            VrfOf((CHOOSE i \in inVrf : Sonic(i, d) = s).vrf).name]]

-----------------------------------------------------------------------------
(* The other end of a cable.                                                *)

get_connected_device_via_interface(i) == IF i.mgmt THEN NoPeer ELSE i.peer

get_connected_interfaces(d, info) ==
  LET ports == {Sonic(i, d) : i \in {x \in d.ifs : get_connected_device_via_interface(x) # NoPeer}}
  IN  [interfaces   |-> ports,
       portchannels |-> {info.member_mapping[s] : s \in ports \cap DOMAIN info.member_mapping}]

PeerAmong(peers) ==
  IF peers \subseteq {NoPeer} THEN NoPeer ELSE CHOOSE p \in peers : p # NoPeer

MembersOf(d, pc, channels) ==
  {i \in d.ifs : pc \in DOMAIN channels /\ Sonic(i, d) \in channels[pc]}

\* Of a port channel, the device behind a connected member of it.
get_connected_device_for_port_channel(d, pc) ==
  PeerAmong({get_connected_device_via_interface(i) :
               i \in MembersOf(d, pc, detect_port_channels(d).portchannels)})

get_connected_device_for_sonic_interface(d, s) ==
  LET same == {i \in d.ifs : Sonic(i, d) = s}
  IN  CASE s[1] = "PortChannel"               -> get_connected_device_for_port_channel(d, s)
        [] s[1] # "PortChannel" /\ same = {}  -> NoPeer
        [] s[1] # "PortChannel" /\ same # {}  -> get_connected_device_via_interface(CHOOSE i \in same : TRUE)

is_numbered_neighbor_address(a, version) == a[2] = version /\ a[1] # "local"

\* The interface is looked up in NetBox by its SONiC name, so that an
\* interface that NetBox knows as Eth1/1 has no answer here.  An address of
\* the interface wins over a virtual one of its FHRP groups.
get_connected_interface_ip_addresses(d, s, version) ==
  LET Numbered(a) == is_numbered_neighbor_address(a, version)
      peer        == Iface(d, s).peer
      direct      == FirstOf(peer.addrs, Numbered)
  IN  IF s \notin NamesOf(d) \/ Iface(d, s).peer = NoPeer THEN <<>>
      ELSE IF direct # <<>> THEN direct ELSE FirstOf(peer.vips, Numbered)

-----------------------------------------------------------------------------
(* AS numbers, without their fixed prefix 4200; -1: none.                   *)

calculate_local_asn_from_ipv4(octets) == IF octets = <<>> THEN -1 ELSE octets[1] * 1000 + octets[2]

AsOf(id, primary4, asMapping) ==
  IF id \in DOMAIN asMapping THEN asMapping[id] ELSE calculate_local_asn_from_ipv4(primary4)

determine_peer_type(d, peer, asMapping) ==
  LET as == AsOf(d.id, d.primary4, asMapping)
  IN  IF as # -1 /\ as = AsOf(peer.id, peer.primary4, asMapping) THEN "internal" ELSE "external"

\* External also when there is no device at the other end.
PeerType(d, peer, asMapping) ==
  IF peer = NoPeer THEN "external" ELSE determine_peer_type(d, peer, asMapping)
=============================================================================
