------------------------------ MODULE Ambient -------------------------------
(***************************************************************************)
(* The background traffic of the live simulation                           *)
(* (network-builder-page.tsx) and the decoded packets it carries           *)
(* (packet-model.ts).                                                      *)
(*                                                                         *)
(* Every tick of the simulation clock begins a few conversations between   *)
(* clients and services.  A conversation is a chain of packets: the code   *)
(* spawns each one in the callback of the one before, here it is the       *)
(* sequence of packets still to fly, chosen when the conversation begins.  *)
(***************************************************************************)
EXTENDS Integers, FiniteSets, Sequences, Bags, Paths

CONSTANTS
  Stations,     \* devices, all of them with an address
  Kind,         \* type of each
  Cables,       \* links of the topology
  Hash,         \* hash of a device's id
  Cap,          \* most packets in flight for a tick to add some
  Bursts,       \* numbers of conversations a tick may begin
  MaxFaults     \* bound: devices off and links cut at a time

ASSUME AmbientAssumption ==
  /\ IsFiniteSet(Stations) /\ \A w \in Cables : w \subseteq Stations /\ Cardinality(w) = 2
  /\ DOMAIN Kind = Stations /\ Hash \in [Stations -> Nat]
  /\ Cap \in Nat /\ MaxFaults \in Nat
  /\ IsFiniteSet(Bursts) /\ Bursts \subseteq Nat /\ 1 \in Bursts

VARIABLES
  traffic,      \* flightsRef: a bag of conversations, and how far each has come
  off, cut,     \* devices that are off, links that are down
  live,         \* liveRef: background traffic is wanted
  mode          \* a device is being edited, or the analyzer froze the world

ambientVars == <<traffic, off, cut, live, mode>>

-----------------------------------------------------------------------------
(* WELL_KNOWN *)
Transport(app) == CASE app \in {"DNS", "DHCP"} -> "UDP" [] app = "ICMP" -> "ICMP" [] OTHER -> "TCP"

WellKnown ==
  [DNS |-> 53, HTTPS |-> 443, HTTP |-> 80, SQL |-> 3306, DHCP |-> 67, MQTT |-> 1883,
   SMB |-> 445, IMAP |-> 143, IPP |-> 631, ICMP |-> 0]

NoPorts == 0

EphemeralPort(n) == 49152 + (Hash[n] % 16000)

Packet(src, dst, protocol, phase, l4, srcPort, dstPort) ==
  [src |-> src, dst |-> dst, protocol |-> protocol, phase |-> phase, l4 |-> l4,
   srcPort |-> srcPort, dstPort |-> dstPort]

(* Faulty variant: a reply goes to the port its sender would have used. *)
OwnPort(s, d, reply) == EphemeralPort(s)

(* The client's end of an exchange, seen from a packet. *)
ClientPort(s, d, reply) == IF reply THEN EphemeralPort(d) ELSE EphemeralPort(s)

(* buildPacket.  (A DHCP client has port 68; an ICMP packet has none.) *)
BuildPacket(s, d, app, phase) ==
  LET reply == phase = "reply"
      client == CASE app = "ICMP" -> NoPorts
                  [] app = "DHCP" -> 68
                  [] OTHER -> ClientPort(s, d, reply)
  IN  Packet(s, d, app, phase, Transport(app),
             IF reply THEN WellKnown[app] ELSE client,
             IF reply THEN client ELSE WellKnown[app])

(* buildArp: it says TCP, and has no ports. *)
BuildArpPacket(s, d, phase) == Packet(s, d, "ARP", phase, "TCP", NoPorts, NoPorts)

ServicePort(app) == WellKnown[app]

(* buildTcp: SYN and ACK are requests, SYN, ACK is a reply. *)
BuildTcp(s, d, phase, app) ==
  IF phase = "reply"
  THEN Packet(s, d, "TCP", phase, "TCP", ServicePort(app), EphemeralPort(d))
  ELSE Packet(s, d, "TCP", phase, "TCP", EphemeralPort(s), ServicePort(app))

(* ambientFamily: the switch of the traffic panel that hides a packet. *)
AmbientFamily(p) ==
  LET Port(ports) == {p.srcPort, p.dstPort} \cap ports # {}
  IN  CASE p.protocol = "ARP" -> "arp"
        [] p.l4 = "ICMP" -> "icmp"
        [] p.protocol # "ARP" /\ p.l4 # "ICMP" ->
             CASE Port({53}) -> "dns"
               [] ~ Port({53}) /\ Port({3306}) -> "sql"
               [] ~ Port({53, 3306}) /\ Port({1883}) -> "mqtt"
               [] ~ Port({53, 3306, 1883}) /\ Port({445, 143, 631}) -> "smb"
               [] ~ Port({53, 3306, 1883, 445, 143, 631}) /\ Port({80, 443}) -> "https"
               [] OTHER -> "always"

-----------------------------------------------------------------------------
(* SERVICE: what each kind of destination speaks. *)
Web == {"www", "server", "proxy", "api_gateway", "load_balancer"}
FileServers == {"fileserver", "nas", "storage"}
Initiators == {"pc", "phone", "laptop", "iot"}

Serves(n) == Kind[n] \in Web \cup FileServers \cup {"mailserver", "printer"}

Speaks(src, dst) ==
  CASE Kind[src] = "iot" -> "MQTT"
    [] Kind[src] # "iot" /\ Kind[dst] \in Web -> "HTTPS"
    [] Kind[src] # "iot" /\ Kind[dst] \in FileServers -> "SMB"
    [] Kind[src] # "iot" /\ Kind[dst] = "mailserver" -> "IMAP"
    [] Kind[src] # "iot" /\ Kind[dst] = "printer" -> "IPP"

On == Stations \ off
Lit == {w \in Cables \ cut : w \subseteq On}

Destinations(src) ==
  {n \in On \ {src} : /\ Serves(n)
                      /\ Kind[src] = "iot" => Kind[n] \in {"api_gateway", "www", "server"}}

Leg(path, packet) == [path |-> path, packet |-> packet]

(* A request along a path, and its answer on the way back. *)
Exchange(path, Build(_, _, _)) ==
  LET a == path[1]
      b == path[Len(path)]
  IN  <<Leg(path, Build(a, b, "request")), Leg(Turned(path), Build(b, a, "reply"))>>

Ask(path, app) == LET Build(s, d, phase) == BuildPacket(s, d, app, phase)
                  IN  Exchange(path, Build)

Optional(choices) == {<<>>} \cup choices

(* The query for a name comes first, for web services only. *)
Lookups(src, dst) ==
  IF Kind[dst] \notin Web THEN {<<>>}
  ELSE Optional(UNION {{Ask(q, "DNS") : q \in ShortestPaths(src, n, Lit)} :
                         n \in {n \in On \ {dst} : Kind[n] = "dns"}})

Resolutions(path) == Optional({Exchange(SubSeq(path, 1, 2), BuildArpPacket)})

Handshakes(path, app) ==
  LET Build(s, d, phase) == BuildTcp(s, d, phase, app)
      syn == Exchange(path, Build)
  IN  Optional({Append(syn, Leg(path, Build(path[1], path[Len(path)], "request")))})

(* After the answer, an application server may ask a database. *)
Backends(dst) ==
  IF Kind[dst] \notin Web THEN {<<>>}
  ELSE Optional(UNION {{Ask(q, "SQL") : q \in ShortestPaths(dst, n, Lit)} :
                         n \in {n \in On \ {dst} : Kind[n] = "database"}})

Conversations(src, dst) ==
  UNION {{look \o arp \o syn \o Ask(path, Speaks(src, dst)) \o sql :
            look \in Lookups(src, dst), arp \in Resolutions(path),
            syn \in Handshakes(path, Speaks(src, dst)), sql \in Backends(dst)} :
           path \in ShortestPaths(src, dst, Lit)}

Pings ==
  UNION {UNION {{Ask(p, "ICMP") : p \in ShortestPaths(n, m, Lit)} : m \in On \ {n}} : n \in On}

-----------------------------------------------------------------------------
Conversation(script) == [legs |-> script, hop |-> 1]
Begin(script) == SetToBag({Conversation(script)})

(* The packets in flight, one for each conversation under way. *)
Copies(bag) == UNION {{<<c, k>> : k \in 1 .. bag[c]} : c \in BagToSet(bag)}
InFlight(bag) == Cardinality(Copies(bag))

(* A script, or none when the client picked has nowhere to go. *)
Sessions ==
  LET clients == {n \in On : Kind[n] \in Initiators}
  IN  {<<>> : c \in {c \in clients : \A d \in Destinations(c) : ShortestPaths(c, d, Lit) = {}}}
        \cup UNION {UNION {Conversations(c, d) : d \in Destinations(c)} : c \in clients}

(* The conversations that a tick begins, which may be alike. *)
Burst(chosen) ==
  LET scripts == {chosen[i] : i \in DOMAIN chosen} \ {<<>>}
  IN  [c \in {Conversation(s) : s \in scripts} |->
         Cardinality({i \in DOMAIN chosen : chosen[i] = c.legs})]

BelowCap(bag) == InFlight(bag) <= Cap

(* runSimTick, its second half: a burst, and now and then a ping. *)
AmbientTick ==
  /\ live /\ mode = "running"
  /\ Lit # {}
  /\ \E n \in On : Kind[n] \in Initiators
  /\ BelowCap(traffic)
  /\ \E k \in Bursts : \E chosen \in [1 .. k -> Sessions] :
       LET busy == traffic (+) Burst(chosen)
       IN  \/ traffic' = busy
           \/ InFlight(busy) <= Cap /\ \E s \in Pings : traffic' = busy (+) Begin(s)
  /\ UNCHANGED <<off, cut, live, mode>>

-----------------------------------------------------------------------------
(* runFrame, for one packet.  Nobody listens for the end of a dead one. *)

Wire(c) == {Head(c.legs).path[c.hop], Head(c.legs).path[c.hop + 1]}

Replace(c, next) == traffic' = (traffic (-) SetToBag({c})) (+) next

(* Faulty variant: the last answer is asked for again. *)
AskAgain(c) == IF Len(c.legs) = 1 THEN c.legs ELSE Tail(c.legs)

(* onDone: the packet that the callback of this one spawns. *)
Following(c) == Tail(c.legs)

Lost(c) ==
  /\ Wire(c) \notin Lit
  /\ Replace(c, EmptyBag)

Moves(c) ==
  /\ Wire(c) \in Lit
  /\ mode # "frozen"
  /\ IF c.hop < Len(Head(c.legs).path) - 1
     THEN Replace(c, IF Wire([c EXCEPT !.hop = @ + 1]) \in Lit
                     THEN SetToBag({[c EXCEPT !.hop = @ + 1]}) ELSE EmptyBag)
     ELSE Replace(c, IF Following(c) = <<>> THEN EmptyBag ELSE Begin(Following(c)))

Frame ==
  /\ \E c \in BagToSet(traffic) : Lost(c) \/ Moves(c)
  /\ UNCHANGED <<off, cut, live, mode>>

(* The user: power, link status, the Live button, the analyzer. *)
Fault ==
  /\ \/ \E n \in Stations : off' = (off \cup {n}) \ (off \cap {n}) /\ UNCHANGED cut
     \/ \E w \in Cables : cut' = (cut \cup {w}) \ (cut \cap {w}) /\ UNCHANGED off
  /\ Cardinality(off') + Cardinality(cut') <= MaxFaults
  /\ UNCHANGED <<traffic, live, mode>>

LiveButton == live' = ~ live /\ UNCHANGED <<traffic, off, cut, mode>>

Mode == mode' \in {"running", "editing", "frozen"} /\ UNCHANGED <<traffic, off, cut, live>>

AmbientInit ==
  /\ traffic = EmptyBag /\ off = {} /\ cut = {}
  /\ live = TRUE /\ mode = "running"

AmbientNext == AmbientTick \/ Frame \/ Fault \/ LiveButton \/ Mode

AmbientSpec == AmbientInit /\ [][AmbientNext]_ambientVars

-----------------------------------------------------------------------------
Limit == Cap + CHOOSE b \in Bursts : \A k \in Bursts : k <= b

(* Chains do not multiply: a packet that arrives is followed by one other  *)
(* at most, so that what flies stays within the cap and one burst.         *)
TrafficBounded ==
  /\ InFlight(traffic) <= Limit
  /\ \A c \in BagToSet(traffic) : c.legs # <<>> /\ c.hop \in 1 .. Len(Head(c.legs).path) - 1

(* Every answer goes back between the same two devices and the same two    *)
(* ports as its request, as the analyzer shows it.                         *)
RepliesMirror ==
  \A c \in BagToSet(traffic) : \A i \in 1 .. Len(c.legs) - 1 :
    LET p == c.legs[i].packet
        q == c.legs[i + 1].packet
    IN  p.phase = "request" /\ q.phase = "reply" =>
          /\ q.src = p.dst /\ q.dst = p.src /\ q.protocol = p.protocol
          /\ q.srcPort = p.dstPort /\ q.dstPort = p.srcPort

(* What a switch of the traffic panel hides is a whole connection: its     *)
(* handshake and its application packets are of one family.                *)
FamiliesKept ==
  \A c \in BagToSet(traffic) : \A i, j \in 1 .. Len(c.legs) :
    LET p == c.legs[i].packet
        q == c.legs[j].packet
    IN  {p.src, p.dst} = {q.src, q.dst} /\ p.protocol # "ARP" /\ q.protocol # "ARP" =>
          AmbientFamily(p) = AmbientFamily(q)

(* The traffic is made of whole conversations, and does not multiply.      *)
ConversationsCoherent == TrafficBounded /\ RepliesMirror /\ FamiliesKept

(* With Live off, or a device being edited, the conversations under way    *)
(* come to their end, and the frame loop with them.                        *)
TrafficDrains == []<>((live /\ mode = "running") \/ mode = "frozen" \/ traffic = EmptyBag)
=============================================================================
