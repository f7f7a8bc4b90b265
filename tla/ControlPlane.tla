---------------------------- MODULE ControlPlane ----------------------------
(***************************************************************************)
(* The operational tables that control-plane-service.ts derives from a     *)
(* design: what `show arp`, `show ip ospf neighbor` and the like would say *)
(* once the network has converged.  Each table is a pure function of the   *)
(* design t and the device n; power and link status are not looked at.     *)
(***************************************************************************)
EXTENDS Addressing, Paths, StableSort

CONSTANT NoTable     \* the device's role has no such table

Bridges == {"switch", "hub", "l3switch", "wifiap"}
Routers == {"router", "l3switch"}
OspfSpeakers == Routers \cup {"firewall"}
Clients == {"pc", "laptop", "phone", "printer", "iot"}

Type(t, n) == t.dev[n].type
Neighbors(t, n) == Adjacent(t.wires, n) \cap DOMAIN t.dev

(* Positions of the interfaces that have an address. *)
Numbers(d) == {i \in DOMAIN d.ifs : d.ifs[i].ip # NoIp}

(* buildArp: every other address in a subnet of this device. *)
BuildArp(t, n) ==
  {o.ip : o \in
    {o \in UNION {Ipv4Ifaces(t.dev[m]) : m \in DOMAIN t.dev \ {n}} :
       \E local \in Ipv4Ifaces(t.dev[n]) :
         /\ PrefixOf(local) # NoPrefix
         /\ o.ip # local.ip
         /\ InSubnet(o.ip, local.ip, PrefixOf(local))}}

(* buildMacTable: neighbours that have a hardware address. *)
BuildMacTable(t, n) ==
  {m \in Neighbors(t, n) : \E i \in Range(t.dev[m].ifs) : i.mac # NoIp}

-----------------------------------------------------------------------------
(* DHCP *)

GivesDefault(r) == (r.default \/ r.dest = 0) /\ r.gateway # NoIp

GatewayIps(t) ==
  {r.gateway : r \in {r \in UNION {Range(t.dev[n].routes) : n \in DOMAIN t.dev} :
                        GivesDefault(r)}}

IsDhcpServer(t, n) ==
  \/ t.dev[n].dhcp \/ Type(t, n) = "dhcp"
  \/ \E i \in Ipv4Ifaces(t.dev[n]) : i.ip \in GatewayIps(t)

(* Each client's first address in a subnet of the server. *)
BuildLeases(t, n) ==
  LET Mine(ip) == \E i \in Ipv4Ifaces(t.dev[n]) :
                    PrefixOf(i) # NoPrefix /\ InSubnet(ip, i.ip, PrefixOf(i))
      Held(h) == {i \in Numbers(t.dev[h]) : Mine(t.dev[h].ifs[i].ip)}
      Leased == {h \in DOMAIN t.dev : Type(t, h) \in Clients /\ Held(h) # {}}
  IN  {[host |-> h, ip |-> t.dev[h].ifs[Min(Held(h))].ip] : h \in Leased}

-----------------------------------------------------------------------------
(* OSPF: per neighbour, the first pair of interfaces that share a subnet   *)
(* of this device.                                                         *)

Peers(mine, theirs, i) ==
  {j \in Numbers(theirs) :
     /\ PrefixOf(mine.ifs[i]) # NoPrefix
     /\ InSubnet(theirs.ifs[j].ip, mine.ifs[i].ip, PrefixOf(mine.ifs[i]))
     /\ theirs.ifs[j].ip # mine.ifs[i].ip}

PeerState(mine, theirs) == IF theirs > mine THEN "FULL/DR" ELSE "FULL/BDR"

Adjacency(t, n, m) ==
  LET mine == t.dev[n]
      theirs == t.dev[m]
      i == Min({k \in Numbers(mine) : Peers(mine, theirs, k) # {}})
      j == Min(Peers(mine, theirs, i))
  IN  [node |-> m, address |-> theirs.ifs[j].ip, via |-> mine.ifs[i].ip,
       state |-> PeerState(mine.ifs[i].ip, theirs.ifs[j].ip)]

BuildOspf(t, n) ==
  {Adjacency(t, n, m) : m \in
     {m \in Neighbors(t, n) :
        /\ Type(t, m) \in OspfSpeakers
        /\ \E i \in Numbers(t.dev[n]) : Peers(t.dev[n], t.dev[m], i) # {}}}

-----------------------------------------------------------------------------
(* Spanning tree; d.bridge is the rank of a device's bridge id. *)

BridgeWires(t) == {w \in t.wires : \A m \in w : Type(t, m) \in Bridges}

Island(t, n) == Reachable(n, BridgeWires(t))

RootBridge(t, n) ==
  CHOOSE m \in Island(t, n) :
    \A k \in Island(t, n) : t.dev[m].bridge <= t.dev[k].bridge

(* Wires between a bridge and its root. *)
Distance(t, n) ==
  LET Within[k \in 0 .. Cardinality(BridgeWires(t))] ==
        IF k = 0 THEN {RootBridge(t, n)}
        ELSE Within[k - 1] \cup
             UNION {Adjacent(BridgeWires(t), m) : m \in Within[k - 1]}
  IN  Min({k \in 0 .. Cardinality(BridgeWires(t)) : n \in Within[k]})

(* Faulty variant: neighbours as far from the root as this bridge, too. *)
TowardsOrBeside(t, n, m) == Distance(t, m) <= Distance(t, n)

Towards(t, n, m) == Distance(t, m) = Distance(t, n) - 1

PortRole(t, n, m) ==
  IF Type(t, m) \notin Bridges \/ n = RootBridge(t, n) THEN "designated"
  ELSE IF Towards(t, n, m) THEN "root"
  ELSE IF Distance(t, m) >= Distance(t, n) THEN "designated"
  ELSE "blocking"

BuildStp(t, n) ==
  [root |-> RootBridge(t, n),
   roles |-> [m \in Neighbors(t, n) |-> PortRole(t, n, m)]]

-----------------------------------------------------------------------------
(* NAT: a device between private and public addresses translates for every *)
(* other private address (of which the code lists the first eight).        *)
BuildNat(t, n) ==
  LET mine == {i.ip : i \in Ipv4Ifaces(t.dev[n])}
      others == {i.ip : i \in UNION {Ipv4Ifaces(t.dev[m]) : m \in DOMAIN t.dev \ {n}}}
  IN  IF {IsPrivate(a) : a \in mine} # BOOLEAN THEN {}
      ELSE {a \in others : IsPrivate(a)}

(* The rules in the order they are tried, disabled ones included. *)
BuildAcl(t, n) == SortedBy(t.dev[n].rules, LAMBDA rule : rule.priority)

(* The tables of a device's role. *)
ControlPlaneForNode(t, n) ==
  LET When(has, table) == IF has THEN table ELSE NoTable
      type == Type(t, n)
  IN  [arp |-> When(Ipv4Ifaces(t.dev[n]) # {}, BuildArp(t, n)),
       macTable |-> When(type \in Bridges, BuildMacTable(t, n)),
       stp |-> When(type \in Bridges, BuildStp(t, n)),
       ospfNeighbors |-> When(type \in OspfSpeakers, BuildOspf(t, n)),
       dhcpLeases |-> When(IsDhcpServer(t, n), BuildLeases(t, n)),
       acl |-> When(t.dev[n].rules # <<>>, BuildAcl(t, n)),
       nat |-> When(BuildNat(t, n) # {}, BuildNat(t, n))]
=============================================================================
