----------------------------- MODULE Forwarding -----------------------------
(***************************************************************************)
(* The server's packet trace (services/packet-sender-service.ts): the way   *)
(* one packet takes through a design, hop by hop, and where it ends.        *)
(*                                                                         *)
(* tracePacket runs without interruption on one copy of the topology; its  *)
(* loop is one action per kind of hop here, so that what is true after     *)
(* every hop can be stated.                                                *)
(***************************************************************************)
EXTENDS Addressing, Paths, StableSort, Subsequences

CONSTANTS
  Topologies,      \* designs that can be asked about
  Requests,        \* packets that can be asked for
  DefaultPrefix,   \* prefix of an interface that states none (24)
  PublicSource, PublicDestination, PublicNat,   \* addresses made up for the Internet
  NoVlan, NoPort, Nobody

Internet == {"cloud", "www", "isp"}
Layer2 == {"switch", "hub", "wifiap"}
Routing == {"router", "l3switch"}
Layer3 == Routing \cup {"firewall"}
Layer7 == {"load_balancer", "proxy", "api_gateway"}
Helpers == {"dhcp", "dns"}

(* What a device's configuration contains, as far as the trace looks at it. *)
NetworkInterface ==
  [ip : Ips \cup {NoIp}, prefix : PrefixLengths \cup {NoPrefix}, vlan : Nat \cup {NoVlan},
   mac : Ips \cup {NoIp}]

(* A condition of a firewall rule is free text: one of the texts that the  *)
(* code knows, a literal that denotes a network or ports, or any other.    *)
Texts == {"", "any", "*", "0.0.0.0/0", "literal", "other"}
Pattern == [text : Texts, net : Ips, len : PrefixLengths]
PortPattern == [text : Texts, ports : SUBSET Nat]
FirewallRule ==
  [enabled : BOOLEAN, priority : Int, direction : {"in", "out", "both"},
   protocol : {"tcp", "udp", "icmp", "any"}, src : Pattern, srcPort : PortPattern,
   dst : Pattern, dstPort : PortPattern, action : {"allow", "deny", "drop", "reject"}]
RoutingTableEntry ==
  [dest : Ips, len : PrefixLengths, default : BOOLEAN, gateway : Ips \cup {NoIp}]

Configured(t) ==
  /\ IsFiniteSet(t.wires)
  /\ \A n \in DOMAIN t.dev :
       /\ t.dev[n].ifs \in Seq(NetworkInterface)
       /\ t.dev[n].rules \in Seq(FirewallRule)
       /\ t.dev[n].routes \in Seq(RoutingTableEntry)

(* A hop of the answer, and a trace over the devices of a design. *)
HopAction ==
  {"start", "delivered", "route", "switch_forward", "firewall_allow", "firewall_deny",
   "firewall_drop", "no_route", "ttl_exceeded", "port_closed"}
HopOf(nodes) == [node : nodes, action : HopAction, src : Ips \cup {NoIp}]
WalkOver(nodes) ==
  [path : Seq(nodes), at : Nat, l3Hops : Nat, srcIp : Ips \cup {NoIp}, hops : Seq(HopOf(nodes)),
   blocked : BOOLEAN]

ASSUME ForwardingAssumption ==
  /\ DefaultPrefix \in PrefixLengths
  /\ {PublicSource, PublicDestination, PublicNat} \subseteq Ips
  /\ \A t \in Topologies : Configured(t)
  /\ \A r \in Requests : r.ttl \in Nat
  /\ Nobody \notin Requests \cup RoutingTableEntry \cup FirewallRule
  /\ Nobody \notin [net : Int, prefix : PrefixLengths]
  /\ \A t \in Topologies, r \in Requests :
       Nobody \notin WalkOver(DOMAIN t.dev \cup {r.src})

VARIABLES
  topology,   \* the design the trace was asked for
  request,    \* the packet
  walk        \* the trace so far; Nobody when there is none

forwardingVars == <<topology, request, walk>>

-----------------------------------------------------------------------------
(* The rules of a device. *)

MatchIp(ip, pattern) ==
  \/ pattern.text \in {"", "any", "0.0.0.0/0"}
  \/ pattern.text = "literal" /\ InSubnet(ip, pattern.net, pattern.len)

(* Direction relative to the trust boundary; what does not cross it counts *)
(* as incoming.                                                            *)
FwDirection(src, dst) == IF IsPrivate(src) /\ ~ IsPrivate(dst) THEN "out" ELSE "in"

(* A packet without a destination port matches every port; what does not   *)
(* begin with a number is none, and "0.0.0.0/0" begins with 0.             *)
MatchPort(port, pattern) ==
  \/ pattern.text \in {"", "any"} \/ port = NoPort
  \/ pattern.text = "0.0.0.0/0" /\ port = 0
  \/ pattern.text = "literal" /\ port \in pattern.ports

MatchProtocol(protocol, pattern) == pattern \in {"any", protocol}

(* The source port of a rule is not looked at. *)
RuleMatches(rule, packet, src, dst, direction) ==
  /\ rule.direction \in {"both", direction}
  /\ MatchIp(src, rule.src)
  /\ MatchIp(dst, rule.dst)
  /\ MatchProtocol(packet.protocol, rule.protocol)
  /\ MatchPort(packet.dstPort, rule.dstPort)

EnabledRules(device) ==
  Picked(device.rules, {i \in DOMAIN device.rules : device.rules[i].enabled})

(* Faulty variant: rules are tried in the order they were written. *)
AsWritten(device) == EnabledRules(device)

(* By priority; rules of the same priority keep their order. *)
RulesInOrder(device) == SortedBy(EnabledRules(device), LAMBDA rule : rule.priority)

(* The first of the rules that matches, or Nobody. *)
FirstMatch(rules, packet, src, dst, direction) ==
  LET hits == {i \in DOMAIN rules : RuleMatches(rules[i], packet, src, dst, direction)}
  IN  IF hits = {} THEN Nobody ELSE rules[Min(hits)]

CheckFirewallRules(device, packet, src, dst, direction) ==
  FirstMatch(RulesInOrder(device), packet, src, dst, direction)

IsDefaultRoute(r) == r.default \/ (r.dest = 0 /\ r.len = 0)

EffectiveLength(r) == IF IsDefaultRoute(r) THEN 0 ELSE r.len

RouteMatches(r, dst) == IsDefaultRoute(r) \/ InSubnet(dst, r.dest, r.len)

(* best after k entries of the table: a longer prefix takes its place. *)
PickRoute(routes, dst) ==
  LET Better(best, r) ==
        /\ RouteMatches(r, dst)
        /\ best = Nobody \/ EffectiveLength(r) > EffectiveLength(best)
      Best[k \in 0 .. Len(routes)] ==
        IF k = 0 THEN Nobody
        ELSE IF Better(Best[k - 1], routes[k]) THEN routes[k] ELSE Best[k - 1]
  IN  Best[Len(routes)]

-----------------------------------------------------------------------------
(* Addresses of a device: only its first interface counts. *)

Primary(device) ==
  IF device.ifs = <<>> THEN [ip |-> NoIp, prefix |-> NoPrefix, vlan |-> NoVlan]
  ELSE device.ifs[1]

IfacePrefix(device) ==
  IF Primary(device).prefix = NoPrefix THEN DefaultPrefix ELSE Primary(device).prefix

NodeNetwork(device) ==
  IF Primary(device).ip = NoIp THEN Nobody
  ELSE [net |-> NetworkOf(Primary(device).ip, IfacePrefix(device)),
        prefix |-> IfacePrefix(device)]

(* The address a packet carries for a device, if it may send or receive. *)
AddressAs(device, public) ==
  IF Primary(device).ip # NoIp THEN Primary(device).ip
  ELSE IF device.type \in Internet THEN public ELSE NoIp

Dev(n) == topology.dev[n]
Src == Dev(request.src)
Dst == Dev(request.dst)

Numbered(t, r) ==
  /\ {r.src, r.dst} \subseteq DOMAIN t.dev
  /\ t.dev[r.src].on /\ t.dev[r.dst].on
  /\ AddressAs(t.dev[r.src], PublicSource) # NoIp
  /\ AddressAs(t.dev[r.dst], PublicDestination) # NoIp

(* buildGraph and bfsPath: over every link whatever its status; a link to  *)
(* a device that is not there leads nowhere.                               *)
TracePaths(t, r) == ShortestPaths(r.src, r.dst, {w \in t.wires : w \subseteq DOMAIN t.dev})

-----------------------------------------------------------------------------
(* Segmentation: without a layer 3 device on the path neither VLANs nor    *)
(* subnets can be crossed.                                                 *)

OnPath(types) == \E i \in DOMAIN walk.path : Dev(walk.path[i]).type \in types

VlanMismatch ==
  LET s == Primary(Src).vlan
      d == Primary(Dst).vlan
  IN  s # NoVlan /\ d # NoVlan /\ s # d

(* Faulty variant: the prefixes are not compared. *)
OtherNetwork ==
  LET s == NodeNetwork(Src)
      d == NodeNetwork(Dst)
  IN  s # Nobody /\ d # Nobody /\ s.net # d.net

CrossSubnet ==
  LET s == NodeNetwork(Src)
      d == NodeNetwork(Dst)
  IN  s # Nobody /\ d # Nobody /\ s # d

(* Faulty variant: subnets are compared, VLANs are not. *)
SubnetsOnly == ~ OnPath(Layer3) /\ CrossSubnet

Segmented == ~ OnPath(Layer3) /\ (VlanMismatch \/ CrossSubnet)

(* The packet gets as far as the first layer 2 device, or else the end. *)
SegBlockIndex ==
  LET stops == {i \in 2 .. Len(walk.path) : Dev(walk.path[i]).type \in Layer2}
  IN  IF stops = {} THEN Len(walk.path) ELSE Min(stops)

-----------------------------------------------------------------------------
(* walk.at is the position of the next hop; hops are the answer's hops.    *)

Here == Dev(walk.path[walk.at])
IsDestination == walk.at = Len(walk.path)
DstIp == AddressAs(Dst, PublicDestination)

Result(path, src, hops) ==
  [path |-> path, at |-> 2, l3Hops |-> 0, srcIp |-> src, hops |-> hops,
   blocked |-> FALSE]

(* A hop names the source address that the packet came with. *)
Hop(n, action, src) == [node |-> n, action |-> action, src |-> src]

ForwardingInit ==
  /\ topology = Nobody /\ request = Nobody /\ walk = Nobody

(* makeError: one hop, and the packet is not blocked but did not leave. *)
Refuse(t, r) ==
  /\ ~ Numbered(t, r) \/ TracePaths(t, r) = {}
  /\ topology' = t /\ request' = r
  /\ walk' = Result(<<>>, NoIp, <<Hop(r.src, "no_route", NoIp)>>)

TracePacket(t, r) ==
  /\ Numbered(t, r)
  /\ topology' = t /\ request' = r
  /\ \E p \in TracePaths(t, r) :
       LET src == AddressAs(t.dev[r.src], PublicSource)
         IN  walk' = Result(p, src, <<Hop(r.src, "start", src)>>)

Walking == walk # Nobody /\ ~ walk.blocked /\ walk.at \in DOMAIN walk.path

(* What the loop pushes, and whether it breaks. *)
Push(action, from, blocks) ==
  /\ walk' = [walk EXCEPT
       !.hops = Append(@, Hop(walk.path[walk.at], action, walk.srcIp)),
       !.srcIp = from,
       !.l3Hops = @ + (IF Here.type \in Layer3 THEN 1 ELSE 0),
       !.blocked = blocks,
       !.at = IF blocks THEN @ ELSE @ + 1]
  /\ UNCHANGED <<topology, request>>

Block(action) == Push(action, walk.srcIp, TRUE)
Forward(action) == Push(action, walk.srcIp, FALSE)

AtSegment == Segmented /\ walk.at = SegBlockIndex

MeetSegment == Walking /\ AtSegment /\ Block("no_route")

(* Faulty variant: a packet may be routed once too often. *)
ExpiredLate == Here.type \in Layer3 /\ walk.l3Hops > request.ttl

(* Only layer 3 devices count. *)
Expired == Here.type \in Layer3 /\ walk.l3Hops + 1 > request.ttl

MeetTtl == Walking /\ ~ AtSegment /\ Expired /\ Block("ttl_exceeded")

MeetPoweredOff ==
  /\ Walking /\ ~ AtSegment /\ ~ Expired
  /\ ~ Here.on
  /\ Block("no_route")

Arrives(types) ==
  /\ Walking /\ ~ AtSegment /\ ~ Expired
  /\ Here.on
  /\ Here.type \in types

(* Source address after network address translation at the Internet edge. *)
Translated ==
  LET public == {i \in DOMAIN Here.ifs : Here.ifs[i].ip # NoIp /\ ~ IsPrivate(Here.ifs[i].ip)}
  IN  IF /\ ~ IsDestination
         /\ Dev(walk.path[walk.at + 1]).type \in Internet
         /\ IsPrivate(walk.srcIp) /\ ~ IsPrivate(DstIp)
      THEN IF public = {} THEN PublicNat ELSE Here.ifs[Min(public)].ip
      ELSE walk.srcIp

Filters == Here.type = "firewall" /\ Here.rules # <<>>

Verdict ==
  CheckFirewallRules(Here, request, walk.srcIp, DstIp, FwDirection(walk.srcIp, DstIp))

Allowed == Verdict # Nobody /\ Verdict.action = "allow"

MeetFirewall ==
  /\ Arrives({"firewall"}) /\ Filters
  /\ IF Allowed THEN Push("firewall_allow", Translated, FALSE)
     ELSE Block(IF Verdict # Nobody /\ Verdict.action = "drop"
                THEN "firewall_drop" ELSE "firewall_deny")

MeetRouter ==
  /\ Arrives(Routing)
  /\ IF Here.routes # <<>> /\ PickRoute(Here.routes, DstIp) = Nobody /\ ~ IsDestination
     THEN Block("no_route")
     ELSE Push(IF IsDestination THEN "delivered" ELSE "route", Translated, FALSE)

MeetSwitch == Arrives(Layer2) /\ Forward("switch_forward")

MeetHelper ==
  Arrives(Helpers) /\ Forward(IF IsDestination THEN "delivered" ELSE "switch_forward")

MeetInternet ==
  Arrives(Internet) /\ Forward(IF IsDestination THEN "delivered" ELSE "route")

(* A device with services refuses what it has no listener for. *)
Refuses ==
  /\ IsDestination
  /\ request.protocol \in {"tcp", "udp"} /\ request.dstPort # NoPort
  /\ Here.services # {}
  /\ [port |-> request.dstPort, protocol |-> request.protocol] \notin Here.services

MeetLayer7 ==
  /\ Arrives(Layer7)
  /\ IF Refuses THEN Block("port_closed")
     ELSE Forward(IF IsDestination THEN "delivered" ELSE "route")

MeetHost ==
  /\ Walking /\ ~ AtSegment /\ ~ Expired
  /\ Here.on
  /\ Here.type \notin Routing \cup Layer2 \cup Helpers \cup Internet \cup Layer7
  /\ ~ Filters
  /\ IF Refuses THEN Block("port_closed")
     ELSE Forward(IF IsDestination THEN "delivered" ELSE "switch_forward")

Finished == walk # Nobody /\ ~ Walking

Success ==
  /\ Finished /\ ~ walk.blocked
  /\ \E i \in DOMAIN walk.hops : walk.hops[i].action = "delivered"

(* The answer is sent; the trace leaves nothing behind. *)
Answer ==
  /\ Finished
  /\ topology' = Nobody /\ request' = Nobody /\ walk' = Nobody

ForwardingNext ==
  \/ walk = Nobody /\ \E t \in Topologies, r \in Requests : Refuse(t, r) \/ TracePacket(t, r)
  \/ MeetSegment \/ MeetTtl \/ MeetPoweredOff
  \/ MeetFirewall \/ MeetRouter \/ MeetSwitch \/ MeetHelper \/ MeetInternet
  \/ MeetLayer7 \/ MeetHost
  \/ Answer

ForwardingSpec == ForwardingInit /\ [][ForwardingNext]_forwardingVars

-----------------------------------------------------------------------------
ForwardingTypeOK ==
  /\ walk = Nobody <=> request = Nobody
  /\ walk # Nobody =>
       /\ topology \in Topologies /\ request \in Requests
       /\ walk.l3Hops \in 0 .. Len(walk.path)
       /\ walk.srcIp \in Ips \cup {NoIp}
       /\ Len(walk.hops) = IF walk.path = <<>> THEN 1
                           ELSE walk.at - (IF walk.blocked THEN 0 ELSE 1)

(* A delivered packet stayed in its VLAN and in its subnet, unless it met  *)
(* a layer 3 device.                                                       *)
SegmentsKeptApart ==
  Success => OnPath(Layer3) \/ ~ (VlanMismatch \/ CrossSubnet)

(* A packet is past a firewall with rules only if an enabled rule allows   *)
(* the addresses it arrived with, and no rule that counts more matches.    *)
FirewallsObeyed ==
  walk # Nobody =>
    \A i \in 2 .. Len(walk.path) :
      LET d == Dev(walk.path[i])
          src == walk.hops[i].src
          Hits(r) == r.enabled /\ RuleMatches(r, request, src, DstIp, FwDirection(src, DstIp))
      IN  i < walk.at /\ d.type = "firewall" /\ d.rules # <<>> =>
            \E j \in DOMAIN d.rules :
              /\ Hits(d.rules[j]) /\ d.rules[j].action = "allow"
              /\ \A k \in DOMAIN d.rules : Hits(d.rules[k]) =>
                   \/ d.rules[k].priority > d.rules[j].priority
                   \/ d.rules[k].priority = d.rules[j].priority /\ k >= j

(* A packet is past at most as many layer 3 devices as its TTL. *)
RoutedWithinTtl ==
  walk # Nobody =>
    Cardinality({i \in 2 .. walk.at - 1 : i <= Len(walk.path)
                   /\ Dev(walk.path[i]).type \in Layer3}) <= request.ttl

(* The longest prefix wins: a route was picked iff some route matches, and *)
(* none that matches is more specific.                                     *)
LongestPrefixPicked ==
  walk # Nobody /\ walk.path # <<>> =>
    \A n \in DOMAIN topology.dev :
      LET routes == topology.dev[n].routes
          picked == PickRoute(routes, DstIp)
          matching == {r \in Range(routes) : RouteMatches(r, DstIp)}
      IN  IF matching = {} THEN picked = Nobody
          ELSE /\ picked \in matching
               /\ \A r \in matching : EffectiveLength(r) <= EffectiveLength(picked)

(* The layer 3 devices on the way obey the packet's TTL and their tables,  *)
(* and the walk is what the answer says of it.                             *)
RoutingSound == ForwardingTypeOK /\ RoutedWithinTtl /\ LongestPrefixPicked
=============================================================================
