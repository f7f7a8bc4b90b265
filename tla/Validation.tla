----------------------------- MODULE Validation -----------------------------
(***************************************************************************)
(* The seven checks of validation-service.ts over a design t.  A finding   *)
(* is a category and what it is about.                                     *)
(***************************************************************************)
EXTENDS Forwarding

NonHosts == {"switch", "hub", "l3switch", "wifiap", "router", "firewall",
             "cloud", "isp", "www", "ids_ips", "vpn_gateway"}
NoLinkCheck == {"switch", "hub", "l3switch", "wifiap", "cloud", "isp", "www"}

Finding(category, about) == [category |-> category, about |-> about]

(* Interfaces of a design, as pairs of a device and a position. *)
IfacesOf(t) == UNION {{<<n, i>> : i \in DOMAIN t.dev[n].ifs} : n \in DOMAIN t.dev}
Iface(t, p) == t.dev[p[1]].ifs[p[2]]

DuplicateIps(t) ==
  {Finding("duplicate-ip", Iface(t, p).ip) : p \in
    {p \in IfacesOf(t) : /\ Iface(t, p).ip # NoIp
                         /\ \E q \in IfacesOf(t) \ {p} : Iface(t, q).ip = Iface(t, p).ip}}

DuplicateMacs(t) ==
  {Finding("duplicate-mac", Iface(t, p).mac) : p \in
    {p \in IfacesOf(t) : /\ Iface(t, p).mac # NoIp
                         /\ \E q \in IfacesOf(t) \ {p} : Iface(t, q).mac = Iface(t, p).mac}}

(* A default route by its destination or its type. *)
SaysDefault(r) == r.default \/ r.dest = 0

GatewayInSubnet(d, r) ==
  \E i \in Ipv4Ifaces(d) :
    PrefixOf(i) # NoPrefix /\ InSubnet(r.gateway, i.ip, PrefixOf(i))

GatewaysUnreachable(t) ==
  {Finding("gateway-unreachable", n) : n \in
    {n \in DOMAIN t.dev :
       /\ Ipv4Ifaces(t.dev[n]) # {}
       /\ \E r \in Range(t.dev[n].routes) :
            SaysDefault(r) /\ r.gateway # NoIp /\ ~ GatewayInSubnet(t.dev[n], r)}}

NoDefaultRoutes(t) ==
  {Finding("no-default-route", n) : n \in
    {n \in DOMAIN t.dev :
       /\ t.dev[n].type \notin NonHosts
       /\ Ipv4Ifaces(t.dev[n]) # {}
       /\ \A r \in Range(t.dev[n].routes) : ~ SaysDefault(r)}}

IsolatedNodes(t) ==
  {Finding("isolated-node", n) : n \in
    {n \in DOMAIN t.dev : \A w \in t.wires : n \notin w}}

(* Only the prefixes of the edge's source count, t.source[w]. *)
ShareSubnet(a, b) ==
  \E x \in Ipv4Ifaces(a), y \in Ipv4Ifaces(b) :
    PrefixOf(x) # NoPrefix /\ InSubnet(y.ip, x.ip, PrefixOf(x))

LinkChecked(t, w) ==
  \A n \in w : t.dev[n].type \notin NoLinkCheck /\ Ipv4Ifaces(t.dev[n]) # {}

(* Faulty variant: a mismatch of the first addresses is enough. *)
FirstAddressesDiffer(t) ==
  {Finding("link-subnet-mismatch", w) : w \in
    {w \in t.wires : /\ LinkChecked(t, w)
                     /\ \E a, b \in w : NodeNetwork(t.dev[a]) # NodeNetwork(t.dev[b])}}

LinkSubnetMismatches(t) ==
  {Finding("link-subnet-mismatch", w) : w \in
    {w \in t.wires : /\ LinkChecked(t, w)
                     /\ \A target \in w \ {t.source[w]} :
                          ~ ShareSubnet(t.dev[t.source[w]], t.dev[target])}}

-----------------------------------------------------------------------------
(* What the check takes for a condition that everything fulfils, in a port *)
(* as in an address.                                                       *)
IsAny(pattern) == pattern.text \in {"any", "*", "0.0.0.0/0"}

MatchAll(r) ==
  r.protocol = "any" /\ IsAny(r.src) /\ IsAny(r.srcPort) /\ IsAny(r.dst) /\ IsAny(r.dstPort)

(* Faulty variant: the directions are not compared. *)
EveryDirection(r, later) == {r.direction, later.direction} \subseteq {"in", "out", "both"}

(* The rules after the first one that matches everything, if that one      *)
(* works in their direction or they work in both.                          *)
Covers(r, later) == r.direction \in {"both", later.direction} \/ later.direction = "both"

ShadowedBehind(rules, i) ==
  {rules[j] : j \in {j \in i + 1 .. Len(rules) : Covers(rules[i], rules[j])}}

ShadowedRules(d) ==
  LET rules == RulesInOrder(d)
      all == {i \in DOMAIN rules : MatchAll(rules[i])}
  IN  IF all = {} THEN {} ELSE ShadowedBehind(rules, Min(all))

ShadowedFindings(t) ==
  UNION {{Finding("shadowed-rule", <<n, r>>) : r \in ShadowedRules(t.dev[n])} :
           n \in DOMAIN t.dev}

ValidateTopology(t) ==
  DuplicateIps(t) \cup DuplicateMacs(t) \cup GatewaysUnreachable(t)
    \cup NoDefaultRoutes(t) \cup IsolatedNodes(t) \cup LinkSubnetMismatches(t)
    \cup ShadowedFindings(t)

(* The report's ok: no finding of severity error. *)
Acceptable(findings) ==
  \A f \in findings :
    f.category \notin {"duplicate-ip", "duplicate-mac", "gateway-unreachable"}
=============================================================================
