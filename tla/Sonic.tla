------------------------------- MODULE Sonic -------------------------------
(***************************************************************************)
(* The SONiC part of the conductor, in three parts of which Init picks     *)
(* one: "config" generates the configuration of a device, "sync"           *)
(* synchronises devices, and "groups" is one cabling of switches, whose AS *)
(* numbers are looked at.                                                  *)
(***************************************************************************)
EXTENDS SonicConfig, SonicSync

CONSTANTS
  Machines,                                \* the devices that are configured
  Switches, SwitchRole, SwitchAs, Cablings \* the switches that are cabled, see SpineGroups

VARIABLES
  component,
  device, config,     \* a device and the configuration that was generated for it
  cabling             \* the cables between the switches

Groups == INSTANCE SpineGroups WITH
  Devices <- Switches, Role <- SwitchRole, OwnAs <- SwitchAs, wired <- cabling

ASSUME VersionsCount == SyncAssumption
ASSUME DevicesAreFinite == SpinesAssumption
ASSUME SwitchesAreNumbered == Groups!SpinesAssumption

\* What is at the other end of a cable has addresses.
ASSUME PeersHaveAddresses ==
  \A d \in Machines : \A i \in d.ifs :
    i.peer # NoPeer => i.peer.addrs \in Seq(Addresses) /\ i.peer.vips \in Seq(Addresses)

-----------------------------------------------------------------------------
\* The parts that are not picked stay as they are.
SonicInit ==
  /\ Init
  /\ config = NoRows
  /\ \/ component = "config" /\ device \in Machines /\ cabling = {} /\ identifier = "hostname"
     \/ component = "sync" /\ device = <<>> /\ cabling = {}
     \/ component = "groups" /\ device = <<>> /\ cabling \in Cablings /\ identifier = "hostname"

SyncNext == component = "sync" /\ Next /\ UNCHANGED <<component, device, config, cabling>>

Configure ==
  /\ component = "config" /\ config = NoRows
  /\ config' = generate_sonic_config(device, NoRows, <<>>)
  /\ UNCHANGED <<component, device, cabling, vars>>

SonicNext == SyncNext \/ Configure

SonicSpec == SonicInit /\ [][SonicNext]_<<component, device, config, cabling, vars>>

-----------------------------------------------------------------------------
Generated == component = "config" /\ config # NoRows

\* See SonicConfig: for every device whose cages are named as the port table has
\* them, the children of a broken-out port share its lanes, and it is only slow
\* ports in a row of a cage of eight lanes that two by two are given the same ones
\* (_calculate_breakout_port_lane and detect_breakout_ports agree on every other
\* breakout) ...
LanesPartitioned == Generated /\ CagesFit(device) => LanesShared(config, device)

\* ... for every device whose ports exist, references lead somewhere (the helpers
\* of generate_sonic_config write what the others refer to) ...
ReferencesResolve == Generated /\ WellNamed(config, device) => ReferencesIn(config)

\* ... who speaks BGP is routed (the helper for interfaces, the one for BGP and
\* the one for VRFs agree on which ports are routed, and where) ...
SpeakersAreRouted == Generated => SpeakersRouted(config)

\* ... and nothing of an owned table of the base configuration survives.
NoStaleRows == Generated => NothingStale(config, device)

\* See SpineGroups: connected spines share the least of their AS numbers.
GroupsAgree == component = "groups" => Groups!GroupsShareAS
=============================================================================
