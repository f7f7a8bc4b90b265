------------------------- MODULE Simulation_proofs --------------------------
(***************************************************************************)
(* The parts of the network builder that act on the canvas by themselves.  *)
(* The exchanges of module Dhcp hold and give back what they reserve, and  *)
(* give no address to two hosts; one timer drives the trace animation of   *)
(* module TraceAnimation, and its packet is not shown on a dead link; the  *)
(* WAN links of module WanLink lead where they say; the conversations of   *)
(* module Ambient stay few, and coherent: for any topology, pool, address  *)
(* plan, number of packets and number of edits.                            *)
(***************************************************************************)
EXTENDS Dhcp, TraceAnimation, WanLink, Ambient, Algorithms_proofs, TLAPS

FlightsOK ==
  \A f \in flights :
    /\ f = [host |-> f.host, ip |-> f.ip, path |-> f.path, leg |-> f.leg, hop |-> f.hop,
            routers |-> f.routers]
    /\ f.host \in Hosts /\ f.ip \in Pool /\ f.routers \subseteq Routers

CanvasOK ==
  /\ canvas \in Canvas /\ seen \in Canvas
  /\ \A n \in Nodes \ canvas.nodes : canvas.ip[n] = NoAddr
  /\ draft \in Draft \cup {None}

(* What is marked is what the packets under way hold. *)
Held ==
  /\ inProgress = {f.host : f \in flights}
  /\ reserved = {f.ip : f \in flights}
  /\ \A f, g \in flights : f.host = g.host \/ f.ip = g.ip => f = g

(* An address that is reserved is nobody's yet. *)
LeasesReserved ==
  \A f \in flights : \A n \in Nodes : canvas.ip[n] = f.ip => f.ip \in tainted

LeaseInv == FlightsOK /\ CanvasOK /\ Held /\ LeasesReserved /\ LeasesUnique

-----------------------------------------------------------------------------
LEMMA AddressFacts ==
  /\ NoAddr \notin Addrs /\ Pool \subseteq Nat /\ Pool \subseteq Addrs
  /\ Gateway \in Addrs /\ ServerAddr \in Addrs
  /\ Gateway \notin Pool /\ ServerAddr \notin Pool
  /\ Hosts \cap Routers = {} /\ Server \notin Hosts /\ Server \notin Routers
  /\ Hosts \subseteq Nodes /\ Routers \subseteq Nodes /\ Server \in Nodes
<1>1. Pool \subseteq Nat
  BY DhcpAssumption DEF Pool
<1> QED BY <1>1, DhcpAssumption DEF Addrs, Nodes

(* The lowest free address exists, and is free. *)
LEMMA LowestIsFree ==
  ASSUME NEW S, S \subseteq Nat, S # {}
  PROVE  (CHOOSE a \in S : \A b \in S : a <= b) \in S
<1>1. \E a \in S : \A b \in S : a <= b
  BY LeastNumber
<1> QED BY <1>1

LEMMA LeaseInit == DhcpInit => LeaseInv
<1> SUFFICES ASSUME DhcpInit PROVE LeaseInv
  OBVIOUS
<1>1. PICK on \in Starts :
        canvas = [nodes |-> Nodes, on |-> on, up |-> Wires, ip |-> [n \in Nodes |-> NoAddr]]
  BY DEF DhcpInit
<1>2. canvas \in Canvas
  BY <1>1, DhcpAssumption DEF Canvas
<1>3. CanvasOK
  BY <1>1, <1>2 DEF DhcpInit, CanvasOK
<1>4. LeasesUnique
  BY <1>1, AddressFacts DEF LeasesUnique
<1> QED
  BY <1>3, <1>4 DEF DhcpInit, LeaseInv, FlightsOK, Held, LeasesReserved

-----------------------------------------------------------------------------
(* An exchange begins with an address that no other exchange has reserved. *)
LEMMA StartKeepsInv ==
  ASSUME LeaseInv, NEW h \in Hosts, CanStart(h), Start(h),
         UNCHANGED <<canvas, seen, draft>>
  PROVE  LeaseInv'
<1> DEFINE a == CHOOSE a \in FreeAddresses(seen) : \A b \in FreeAddresses(seen) : a <= b
<1>1. a \in FreeAddresses(seen)
  BY LowestIsFree, AddressFacts DEF CanStart, FreeAddresses
<1>2. a \in Pool /\ a \notin reserved /\ h \notin inProgress
  BY <1>1 DEF FreeAddresses, CanStart
<1>3. PICK p : flights' = flights \cup
             {[host |-> h, ip |-> a, path |-> p, leg |-> 1, hop |-> 1,
               routers |-> Routers \cap Reachable(h, Usable(seen))]}
  BY DEF Start
<1>4. /\ inProgress' = inProgress \cup {h} /\ reserved' = reserved \cup {a}
      /\ tainted' = IF a \in InUse(canvas) THEN tainted \cup {a} ELSE tainted
  BY DEF Start
<1> DEFINE r == Routers \cap Reachable(h, Usable(seen))
           new == [host |-> h, ip |-> a, path |-> p, leg |-> 1, hop |-> 1, routers |-> r]
<1> HIDE DEF a, r
<1>5. FlightsOK'
  <2>1. r \subseteq Routers
    BY DEF r
  <2>2. flights' = flights \cup {new}
    BY <1>3 DEF r
  <2> QED BY <1>2, <2>1, <2>2 DEF LeaseInv, FlightsOK
<1>6. flights' = flights \cup {new} /\ new.host = h /\ new.ip = a
  BY <1>3 DEF r
<1> HIDE DEF new
<1>7. CanvasOK'
  BY DEF LeaseInv, CanvasOK
<1>8. Held'
  <2>1. \A f \in flights : f.host # h /\ f.ip # a
    BY <1>2 DEF LeaseInv, Held
  <2>2. inProgress' = {f.host : f \in flights'} /\ reserved' = {f.ip : f \in flights'}
    BY <1>4, <1>6 DEF LeaseInv, Held
  <2> QED BY <1>6, <2>1, <2>2 DEF LeaseInv, Held
<1>9. LeasesReserved'
  <2>1. \A n \in Nodes : canvas.ip[n] = a => a \in InUse(canvas)
    BY <1>2, AddressFacts DEF LeaseInv, CanvasOK, InUse
  <2> QED BY <1>4, <1>6, <2>1 DEF LeaseInv, LeasesReserved
<1>10. LeasesUnique'
  BY <1>4 DEF LeaseInv, LeasesUnique
<1> QED BY <1>5, <1>7, <1>8, <1>9, <1>10 DEF LeaseInv

LEMMA NoStartKeepsInv ==
  ASSUME LeaseInv,
         UNCHANGED <<canvas, seen, draft, flights, inProgress, reserved, tainted>>
  PROVE  LeaseInv'
  BY DEF LeaseInv, FlightsOK, CanvasOK, Held, LeasesReserved, LeasesUnique

-----------------------------------------------------------------------------
(* A packet that ends gives back what its exchange held.                   *)
LEMMA DropKeepsHeld ==
  ASSUME LeaseInv, NEW f \in flights, Drop(f)
  PROVE  FlightsOK' /\ Held'
<1>1. /\ flights' = flights \ {f}
      /\ inProgress' = inProgress \ {f.host} /\ reserved' = reserved \ {f.ip}
  BY DEF Drop, Release
<1>2. \A g \in flights : g # f => g.host # f.host /\ g.ip # f.ip
  BY DEF LeaseInv, Held
<1>3. inProgress' = {g.host : g \in flights'} /\ reserved' = {g.ip : g \in flights'}
  BY <1>1, <1>2 DEF LeaseInv, Held
<1> QED BY <1>1, <1>3 DEF LeaseInv, FlightsOK, Held

LEMMA DropKeepsInv ==
  ASSUME LeaseInv, NEW f \in flights, Drop(f), UNCHANGED <<canvas, seen, draft, tainted>>
  PROVE  LeaseInv'
<1>1. flights' \subseteq flights
  BY DEF Drop
<1> QED
  BY <1>1, DropKeepsHeld DEF LeaseInv, CanvasOK, LeasesReserved, LeasesUnique

(* A packet that flies on is still the packet of its exchange.             *)
LEMMA TurnKeepsInv ==
  ASSUME LeaseInv, NEW f \in flights, NEW g,
         g = [host |-> f.host, ip |-> f.ip, path |-> g.path, leg |-> g.leg, hop |-> g.hop,
              routers |-> f.routers],
         flights' = (flights \ {f}) \cup {g},
         UNCHANGED <<canvas, seen, draft, tainted, inProgress, reserved>>
  PROVE  LeaseInv'
<1>1. g.host = f.host /\ g.ip = f.ip /\ g.routers = f.routers
  OBVIOUS
<1>2. FlightsOK'
  BY <1>1 DEF LeaseInv, FlightsOK
<1>3. Held'
  <2>1. {e.host : e \in flights'} = {e.host : e \in flights}
    BY <1>1
  <2>2. {e.ip : e \in flights'} = {e.ip : e \in flights}
    BY <1>1
  <2>3. \A e \in flights : e.host = f.host \/ e.ip = f.ip => e = f
    BY DEF LeaseInv, Held
  <2> QED BY <1>1, <2>1, <2>2, <2>3 DEF LeaseInv, Held
<1>4. LeasesReserved'
  BY <1>1 DEF LeaseInv, LeasesReserved
<1> QED
  BY <1>2, <1>3, <1>4 DEF LeaseInv, CanvasOK, LeasesUnique

LEMMA FlyKeepsInv ==
  ASSUME LeaseInv, NEW f \in flights, DropDead(f) \/ Fly(f) \/ NextLeg(f)
  PROVE  LeaseInv'
<1>1. f = [host |-> f.host, ip |-> f.ip, path |-> f.path, leg |-> f.leg, hop |-> f.hop,
           routers |-> f.routers]
  BY DEF LeaseInv, FlightsOK
<1>2. CASE Drop(f) /\ UNCHANGED <<canvas, seen, draft, tainted>>
  BY <1>2, DropKeepsInv
<1>3. CASE /\ flights' = (flights \ {f}) \cup {Onward(f)}
           /\ UNCHANGED <<canvas, seen, draft, tainted, inProgress, reserved>>
  <2> DEFINE g == Onward(f)
  <2>1. g = [host |-> f.host, ip |-> f.ip, path |-> g.path, leg |-> g.leg, hop |-> g.hop,
             routers |-> f.routers]
    BY <1>1 DEF Onward
  <2> HIDE DEF g
  <2>2. flights' = (flights \ {f}) \cup {g}
    BY <1>3 DEF g
  <2> QED BY <1>3, <2>1, <2>2, TurnKeepsInv
<1>4. CASE NextLeg(f)
  <2> DEFINE g == [f EXCEPT !.leg = @ + 1, !.hop = 1, !.path = Turned(f.path)]
  <2>1. g = [host |-> f.host, ip |-> f.ip, path |-> g.path, leg |-> g.leg, hop |-> g.hop,
             routers |-> f.routers]
    <3>1. DOMAIN f = {"host", "ip", "path", "leg", "hop", "routers"}
      BY <1>1
    <3>2. /\ DOMAIN g = DOMAIN f /\ g.host = f.host /\ g.ip = f.ip /\ g.routers = f.routers
          /\ g = [x \in DOMAIN g |-> g[x]]
      BY <3>1
    <3> HIDE DEF g
    <3> QED BY <3>1, <3>2
  <2>2. /\ flights' = (flights \ {f}) \cup {g}
        /\ UNCHANGED <<canvas, seen, draft, tainted, inProgress, reserved>>
    BY <1>4 DEF NextLeg
  <2> HIDE DEF g
  <2> QED BY <2>1, <2>2, TurnKeepsInv
<1> QED BY <1>2, <1>3, <1>4 DEF DropDead, Fly

-----------------------------------------------------------------------------
(* A lease writes the reserved address to the host, and to no other host.  *)
LEMMA AckKeepsInv ==
  ASSUME LeaseInv, NEW f \in flights, Ack(f)
  PROVE  LeaseInv'
<1>1. /\ Drop(f) /\ canvas' = [canvas EXCEPT !.ip = Leased(f)]
      /\ UNCHANGED <<seen, draft, tainted>>
  BY DEF Ack, Drop
<1>2. FlightsOK' /\ Held'
  BY <1>1, DropKeepsHeld
<1>3. f.host \in Hosts /\ f.ip \in Pool /\ f.routers \subseteq Routers
  BY DEF LeaseInv, FlightsOK
<1>4. canvas \in Canvas
  BY DEF LeaseInv, CanvasOK
<1>5. /\ Leased(f) \in [Nodes -> Addrs \cup {NoAddr}]
      /\ canvas' \in Canvas /\ canvas'.nodes = canvas.nodes /\ canvas'.ip = Leased(f)
  <2>1. \A n \in Nodes : Leased(f)[n] \in Addrs \cup {NoAddr}
    BY <1>3, <1>4, AddressFacts DEF Leased, Canvas
  <2>2. Leased(f) \in [Nodes -> Addrs \cup {NoAddr}]
    BY <2>1 DEF Leased
  <2> QED BY <1>1, <1>4, <2>2 DEF Canvas
<1>6. \A n \in Nodes :
        \/ Leased(f)[n] = canvas.ip[n]
        \/ n = f.host /\ n \in canvas.nodes /\ Leased(f)[n] = f.ip
        \/ n \notin Hosts /\ n \in canvas.nodes /\ Leased(f)[n] \in {Gateway, ServerAddr}
  <2> SUFFICES ASSUME NEW n \in Nodes
               PROVE  \/ Leased(f)[n] = canvas.ip[n]
                      \/ n = f.host /\ n \in canvas.nodes /\ Leased(f)[n] = f.ip
                      \/ /\ n \notin Hosts /\ n \in canvas.nodes
                         /\ Leased(f)[n] \in {Gateway, ServerAddr}
    OBVIOUS
  <2>1. n \in Hosts => n \notin f.routers /\ n # Server
    BY <1>3, AddressFacts
  <2>2. Server \notin f.routers
    BY <1>3, AddressFacts
  <2>3. CASE n \in canvas.nodes /\ n = f.host
    BY <1>3, <2>1, <2>3 DEF Leased
  <2>4. CASE n \in canvas.nodes \cap f.routers /\ canvas.ip[n] = NoAddr
    BY <1>3, <2>1, <2>2, <2>4 DEF Leased
  <2>5. CASE n \in canvas.nodes \cap {Server} /\ canvas.ip[n] = NoAddr
    BY <1>3, <2>1, <2>2, <2>5 DEF Leased
  <2>6. CASE /\ ~ (n \in canvas.nodes /\ n = f.host)
             /\ ~ (n \in canvas.nodes \cap f.routers /\ canvas.ip[n] = NoAddr)
             /\ ~ (n \in canvas.nodes \cap {Server} /\ canvas.ip[n] = NoAddr)
    BY <2>6 DEF Leased
  <2> QED BY <2>3, <2>4, <2>5, <2>6
<1>7. CanvasOK'
  BY <1>1, <1>5, <1>6 DEF LeaseInv, CanvasOK
<1>8. LeasesReserved'
  <2> SUFFICES ASSUME NEW g \in flights, g # f, NEW n \in Nodes, Leased(f)[n] = g.ip
               PROVE  g.ip \in tainted
    BY <1>1, <1>5 DEF LeasesReserved, Drop
  <2>1. g.ip # f.ip /\ g.ip \in Pool
    BY DEF LeaseInv, Held, FlightsOK
  <2> QED BY <1>6, <2>1, AddressFacts DEF LeaseInv, LeasesReserved
<1>9. LeasesUnique'
  <2> SUFFICES ASSUME NEW g \in Hosts, NEW h \in Hosts, g # h,
                      Leased(f)[g] = Leased(f)[h]
               PROVE  Leased(f)[g] \in tainted \cup {NoAddr}
    BY <1>1, <1>5 DEF LeasesUnique
  <2>1. \A n \in Hosts : n \in Nodes
    BY AddressFacts
  <2> DEFINE to == Leased(f)
  <2> HIDE DEF to
  <2>2. \A n \in Hosts : to[n] = canvas.ip[n] \/ (n = f.host /\ to[n] = f.ip)
    BY <1>6, <2>1 DEF to
  <2>3. Leased(f)[g] = canvas.ip[g] \/ (g = f.host /\ Leased(f)[g] = f.ip)
    BY <2>2 DEF to
  <2>4. Leased(f)[h] = canvas.ip[h] \/ (h = f.host /\ Leased(f)[h] = f.ip)
    BY <2>2 DEF to
  <2>5. \A n \in Nodes : canvas.ip[n] = f.ip => f.ip \in tainted
    BY DEF LeaseInv, LeasesReserved
  <2> QED BY <2>1, <2>3, <2>4, <2>5 DEF LeaseInv, LeasesUnique
<1> QED BY <1>2, <1>7, <1>8, <1>9 DEF LeaseInv

-----------------------------------------------------------------------------
(* An address that an edit writes is marked, unless it was there already.  *)
LEMMA SetConfigKeepsInv ==
  ASSUME LeaseInv, NEW n \in Nodes, NEW on \in BOOLEAN, NEW a \in Addrs \cup {NoAddr},
         SetConfig(n, on, a), draft' \in Draft \cup {None},
         UNCHANGED <<seen, flights, inProgress, reserved>>
  PROVE  LeaseInv'
<1>1. tainted' = tainted \cup ({a} \ {NoAddr, canvas.ip[n]})
  BY DEF SetConfig
<1>2. canvas \in Canvas /\ seen \in Canvas
  BY DEF LeaseInv, CanvasOK
<1>3. /\ canvas' \in Canvas /\ canvas'.nodes = canvas.nodes
      /\ \A m \in Nodes : m # n \/ n \notin canvas.nodes => canvas'.ip[m] = canvas.ip[m]
      /\ n \in canvas.nodes => canvas'.ip[n] = a
  <2>1. CASE n \notin canvas.nodes
    BY <1>2, <2>1 DEF SetConfig
  <2>2. CASE n \in canvas.nodes
    <3> DEFINE power == IF on THEN canvas.on \cup {n} ELSE canvas.on \ {n}
               ips == [canvas.ip EXCEPT ![n] = a]
    <3>1. canvas' = [canvas EXCEPT !.on = power, !.ip = ips]
      BY <1>2, <2>2 DEF SetConfig, Canvas
    <3>2. power \in SUBSET Nodes /\ ips \in [Nodes -> Addrs \cup {NoAddr}]
      BY <1>2 DEF Canvas
    <3>3. \A m \in Nodes : ips[m] = IF m = n THEN a ELSE canvas.ip[m]
      BY <1>2 DEF Canvas
    <3> HIDE DEF power, ips
    <3> QED BY <1>2, <2>2, <3>1, <3>2, <3>3 DEF Canvas
  <2> QED BY <2>1, <2>2
<1>4. CanvasOK'
  BY <1>2, <1>3 DEF LeaseInv, CanvasOK
<1>5. LeasesReserved'
  BY <1>1, <1>3, AddressFacts DEF LeaseInv, LeasesReserved, FlightsOK
<1>6. LeasesUnique'
  BY <1>1, <1>3, AddressFacts DEF LeaseInv, LeasesUnique
<1> QED
  BY <1>4, <1>5, <1>6 DEF LeaseInv, FlightsOK, Held

LEMMA PanelKeepsInv ==
  ASSUME LeaseInv,
         \/ \E n \in Touched : Toggle(n) \/ OpenPanel(n)
         \/ \E a \in Addrs \cup {NoAddr} : EditDraft(a)
         \/ ClosePanel
  PROVE  LeaseInv'
<1>1. Touched \subseteq Nodes /\ seen \in Canvas /\ draft \in Draft \cup {None}
  BY DhcpAssumption DEF LeaseInv, CanvasOK
<1>2. ASSUME NEW n \in Touched, Toggle(n) PROVE LeaseInv'
  <2>1. n \in Nodes /\ seen.ip[n] \in Addrs \cup {NoAddr} /\ (n \notin seen.on) \in BOOLEAN
    BY <1>1 DEF Canvas
  <2> QED BY <1>1, <1>2, <2>1, SetConfigKeepsInv DEF Toggle
<1>3. ASSUME NEW n \in Touched, OpenPanel(n) PROVE LeaseInv'
  <2>1. [node |-> n, on |-> n \in seen.on, ip |-> seen.ip[n]] \in Draft
    BY <1>1 DEF Draft, Canvas
  <2> QED
    BY <1>3, <2>1 DEF OpenPanel, LeaseInv, FlightsOK, CanvasOK, Held, LeasesReserved,
                      LeasesUnique
<1>4. ASSUME NEW a \in Addrs \cup {NoAddr}, EditDraft(a) PROVE LeaseInv'
  <2>1. draft \in Draft /\ draft.node \in Nodes /\ draft.on \in BOOLEAN
    BY <1>1, <1>4 DEF EditDraft, Draft
  <2>2. [draft EXCEPT !.ip = a] \in Draft
    BY <2>1 DEF Draft
  <2> QED BY <1>4, <2>1, <2>2, SetConfigKeepsInv DEF EditDraft
<1>5. ASSUME ClosePanel PROVE LeaseInv'
  BY <1>5 DEF ClosePanel, LeaseInv, FlightsOK, CanvasOK, Held, LeasesReserved, LeasesUnique
<1> QED BY <1>2, <1>3, <1>4, <1>5

LEMMA WiresKeepInv ==
  ASSUME LeaseInv, \/ \E w \in Wires : SetLink(w)
                   \/ \E n \in Touched : DeleteNode(n)
                   \/ Render
  PROVE  LeaseInv'
<1>1. canvas \in Canvas /\ draft \in Draft \cup {None}
  BY DEF LeaseInv, CanvasOK
<1>2. ASSUME NEW w \in Wires, SetLink(w) PROVE LeaseInv'
  <2>1. canvas' \in Canvas /\ canvas'.ip = canvas.ip /\ canvas'.nodes = canvas.nodes
    BY <1>1, <1>2 DEF SetLink, Canvas
  <2> QED
    BY <1>2, <2>1 DEF SetLink, LeaseInv, FlightsOK, CanvasOK, Held, LeasesReserved,
                      LeasesUnique
<1>3. ASSUME NEW n \in Touched, DeleteNode(n) PROVE LeaseInv'
  <2>1. n \in Nodes
    BY DhcpAssumption
  <2>2. canvas' \in Canvas /\ canvas'.nodes = canvas.nodes \ {n}
    BY <1>1, <1>3 DEF DeleteNode, Canvas
  <2>3. \A m \in Nodes : canvas'.ip[m] = IF m = n THEN NoAddr ELSE canvas.ip[m]
    BY <1>1, <1>3, <2>1 DEF DeleteNode, Canvas
  <2>4. CanvasOK'
    BY <1>1, <1>3, <2>2, <2>3 DEF DeleteNode, LeaseInv, CanvasOK
  <2>5. UNCHANGED <<flights, inProgress, reserved, tainted>>
    BY <1>3 DEF DeleteNode
  <2>6. LeasesReserved'
    BY <2>3, <2>5, AddressFacts DEF LeaseInv, FlightsOK, LeasesReserved
  <2>7. LeasesUnique'
    BY <2>3, <2>5, AddressFacts DEF LeaseInv, LeasesUnique
  <2> QED BY <2>4, <2>5, <2>6, <2>7 DEF LeaseInv, FlightsOK, Held
<1>4. ASSUME Render PROVE LeaseInv'
  BY <1>4 DEF Render, LeaseInv, FlightsOK, CanvasOK, Held, LeasesReserved, LeasesUnique
<1> QED BY <1>2, <1>3, <1>4

LEMMA LeaseNext == LeaseInv /\ [DhcpNext]_dhcpVars => LeaseInv'
<1> SUFFICES ASSUME LeaseInv, [DhcpNext]_dhcpVars PROVE LeaseInv'
  OBVIOUS
<1>1. CASE UNCHANGED dhcpVars
  BY <1>1, NoStartKeepsInv DEF dhcpVars
<1>2. ASSUME NEW h \in Hosts, SimTick(h) \/ Wake(h) PROVE LeaseInv'
  BY <1>2, StartKeepsInv, NoStartKeepsInv DEF SimTick, Wake
<1>3. ASSUME NEW f \in flights, FlightStep(f) PROVE LeaseInv'
  BY <1>3, FlyKeepsInv, AckKeepsInv DEF FlightStep
<1>4. CASE Freeze
  BY <1>4, NoStartKeepsInv DEF Freeze
<1> QED
  BY <1>1, <1>2, <1>3, <1>4, PanelKeepsInv, WiresKeepInv DEF DhcpNext

-----------------------------------------------------------------------------
(* What ReservationsHeld says beyond that: where the packets are. *)
OnTheWay(f) ==
  f.leg \in Legs /\ f.path \in Seq(Nodes) /\ Len(f.path) \in Nat /\ f.hop \in 1 .. Len(f.path) - 1

FlightsOnTheWay == \A f \in flights : OnTheWay(f)

PowerOK ==
  /\ canvas.on \subseteq canvas.nodes /\ seen.on \subseteq seen.nodes
  /\ waking \subseteq Hosts /\ frozen \in BOOLEAN
  /\ tainted \subseteq Addrs

WayInv == FlightsOnTheWay /\ PowerOK /\ edits \in 0 .. MaxEdits

LEMMA WayInit == DhcpInit => WayInv
<1> SUFFICES ASSUME DhcpInit PROVE WayInv
  OBVIOUS
<1>1. PICK on \in Starts :
        canvas = [nodes |-> Nodes, on |-> on, up |-> Wires, ip |-> [n \in Nodes |-> NoAddr]]
  BY DEF DhcpInit
<1>2. canvas.on \subseteq canvas.nodes
  BY <1>1, DhcpAssumption
<1>3. edits \in 0 .. MaxEdits
  BY DhcpAssumption DEF DhcpInit
<1> QED BY <1>2, <1>3 DEF DhcpInit, WayInv, FlightsOnTheWay, PowerOK

(* A path that a host is given leads from it to the server. *)
LEMMA RouteToServer ==
  ASSUME NEW lit \in SUBSET Wires, NEW h \in Hosts, NEW p \in ShortestPaths(h, Server, lit)
  PROVE  p \in Seq(Nodes) /\ Len(p) \in Nat \ {0} /\ p[1] = h /\ p[Len(p)] = Server
<1>1. IsFiniteSet(lit)
  BY DhcpAssumption, FS_Subset
<1>2. \A w \in lit : w \subseteq Nodes
  BY DhcpAssumption
<1>3. h \in Nodes
  BY AddressFacts
<1> DEFINE all == Nodes
           src == h
           dst == Server
<1>4. IsFiniteSet(lit) /\ src \in all /\ p \in ShortestPaths(src, dst, lit)
  BY <1>1, <1>3
<1>5. \A w \in lit : w \subseteq all
  BY <1>2
<1> HIDE DEF all, src, dst
<1>6. p \in Seq(all) /\ Len(p) \in Nat \ {0} /\ p[1] = src /\ p[Len(p)] = dst
  <2>1. p \in Seq(all)
    BY <1>4, <1>5, PathsFound
  <2>2. Len(p) \in Nat \ {0}
    BY <1>4, <1>5, PathsFound
  <2>3. p[1] = src
    BY <1>4, <1>5, <2>1, PathsFound
  <2>4. p[Len(p)] = dst
    BY <1>4, <1>5, <2>1, <2>2, PathsFound
  <2> QED BY <2>1, <2>2, <2>3, <2>4
<1> QED BY <1>6 DEF all, src, dst

(* A Discover has a wire to cross: its host is not the server. *)
LEMMA StartKeepsWay ==
  ASSUME LeaseInv, WayInv, NEW h \in Hosts, CanStart(h), Start(h)
  PROVE  FlightsOnTheWay' /\ tainted' \subseteq Addrs
<1> DEFINE a == CHOOSE a \in FreeAddresses(seen) : \A b \in FreeAddresses(seen) : a <= b
           lit == Usable(seen)
<1>1. a \in Pool
  BY LowestIsFree, AddressFacts DEF CanStart, FreeAddresses
<1>2. PICK p \in ShortestPaths(h, Server, lit) : flights' = flights \cup
             {[host |-> h, ip |-> a, path |-> p, leg |-> 1, hop |-> 1,
               routers |-> Routers \cap Reachable(h, lit)]}
  BY DEF Start
<1> HIDE DEF a, lit
<1>3. p \in Seq(Nodes) /\ Len(p) \in Nat \ {0} /\ p[1] = h /\ p[Len(p)] = Server
  <2>1. lit \in SUBSET Wires
    BY DEF LeaseInv, CanvasOK, Canvas, Usable, lit
  <2> QED BY <1>2, <2>1, RouteToServer
<1>4. Len(p) # 1 /\ Len(p) \in Nat /\ 1 \in 1 .. Len(p) - 1
  <2> DEFINE len == Len(p)
  <2>1. len # 1 /\ len \in Nat \ {0}
    BY <1>3, AddressFacts
  <2> HIDE DEF len
  <2>2. len # 1 /\ len \in Nat /\ 1 \in 1 .. len - 1
    BY <2>1
  <2> QED BY <2>2 DEF len
<1> DEFINE r == Routers \cap Reachable(h, lit)
           new == [host |-> h, ip |-> a, path |-> p, leg |-> 1, hop |-> 1, routers |-> r]
<1>5. flights' = flights \cup {new}
  BY <1>2
<1> HIDE DEF r
<1>6. new.path = p /\ new.leg = 1 /\ new.hop = 1
  OBVIOUS
<1> HIDE DEF new
<1>7. OnTheWay(new)
  <2>1. 1 \in Legs
    BY DEF Legs
  <2> QED BY <1>3, <1>4, <1>6, <2>1 DEF OnTheWay
<1>8. FlightsOnTheWay'
  BY <1>5, <1>7 DEF WayInv, FlightsOnTheWay
<1>9. tainted' = IF a \in InUse(canvas) THEN tainted \cup {a} ELSE tainted
  BY DEF Start, a
<1> QED BY <1>1, <1>8, <1>9, AddressFacts DEF WayInv, PowerOK

LEMMA FlyKeepsWay ==
  ASSUME LeaseInv, WayInv, NEW f \in flights, FlightStep(f)
  PROVE  FlightsOnTheWay'
<1>1. /\ OnTheWay(f)
      /\ f = [host |-> f.host, ip |-> f.ip, path |-> f.path, leg |-> f.leg, hop |-> f.hop,
              routers |-> f.routers]
  BY DEF WayInv, FlightsOnTheWay, LeaseInv, FlightsOK
<1>2. CASE flights' = flights \ {f}
  BY <1>2 DEF WayInv, FlightsOnTheWay
<1>3. CASE flights' = (flights \ {f}) \cup {Onward(f)} /\ ~ LastHop(f)
  <2> DEFINE g == Onward(f)
  <2>1. g.leg = f.leg /\ g.path = f.path /\ g.hop = f.hop + 1
    BY <1>1 DEF Onward
  <2>2. flights' = (flights \ {f}) \cup {g} /\ f.hop # Len(f.path) - 1
    BY <1>3 DEF LastHop
  <2> HIDE DEF g
  <2>3. OnTheWay(g)
    BY <1>1, <2>1, <2>2 DEF OnTheWay
  <2> QED BY <2>2, <2>3 DEF WayInv, FlightsOnTheWay
<1>4. CASE NextLeg(f)
  <2> DEFINE g == [f EXCEPT !.leg = @ + 1, !.hop = 1, !.path = Turned(f.path)]
  <2>1. g.leg = f.leg + 1 /\ g.path = Turned(f.path) /\ g.hop = 1
    BY <1>1
  <2>2. flights' = (flights \ {f}) \cup {g} /\ f.leg < 4
    BY <1>4 DEF NextLeg, Answered
  <2> HIDE DEF g
  <2>3. Turned(f.path) \in Seq(Nodes) /\ Len(Turned(f.path)) = Len(f.path)
    <3>1. f.path \in Seq(Nodes) /\ Len(f.path) > 0
      BY <1>1 DEF OnTheWay
    <3> QED BY <3>1, TurnedPath
  <2>4. OnTheWay(g)
    BY <1>1, <2>1, <2>2, <2>3 DEF OnTheWay, Legs
  <2> QED BY <2>2, <2>4 DEF WayInv, FlightsOnTheWay
<1> QED BY <1>2, <1>3, <1>4 DEF FlightStep, DropDead, Fly, Ack, Drop

(* Only a powered device that is on the canvas counts as on. *)
LEMMA SetConfigKeepsPower ==
  ASSUME LeaseInv, PowerOK, NEW n \in Nodes, NEW on \in BOOLEAN, NEW a \in Addrs \cup {NoAddr},
         SetConfig(n, on, a), UNCHANGED <<seen, frozen>>, waking' \subseteq Hosts
  PROVE  PowerOK'
<1>1. canvas \in Canvas
  BY DEF LeaseInv, CanvasOK
<1>2. canvas'.on \subseteq canvas'.nodes
  <2>1. CASE n \notin canvas.nodes
    BY <2>1 DEF SetConfig, PowerOK
  <2>2. CASE n \in canvas.nodes
    <3> DEFINE power == IF on THEN canvas.on \cup {n} ELSE canvas.on \ {n}
               ips == [canvas.ip EXCEPT ![n] = a]
    <3>1. canvas' = [canvas EXCEPT !.on = power, !.ip = ips]
      BY <1>1, <2>2 DEF SetConfig, Canvas
    <3>2. power \subseteq canvas.nodes
      BY <2>2 DEF PowerOK
    <3> HIDE DEF power, ips
    <3>3. canvas'.on = power /\ canvas'.nodes = canvas.nodes
      BY <1>1, <3>1 DEF Canvas
    <3> QED BY <3>2, <3>3
  <2> QED BY <2>1, <2>2
<1>3. tainted' = tainted \cup ({a} \ {NoAddr, canvas.ip[n]})
  BY DEF SetConfig
<1> QED BY <1>2, <1>3 DEF PowerOK

LEMMA EditKeepsWay ==
  ASSUME LeaseInv, WayInv,
         \/ \E n \in Touched : Toggle(n) \/ OpenPanel(n) \/ DeleteNode(n)
         \/ \E a \in Addrs \cup {NoAddr} : EditDraft(a)
         \/ ClosePanel
         \/ \E w \in Wires : SetLink(w)
         \/ Freeze
  PROVE  PowerOK' /\ edits' \in 0 .. MaxEdits
<1>1. /\ Touched \subseteq Nodes /\ seen \in Canvas /\ canvas \in Canvas
      /\ draft \in Draft \cup {None} /\ PowerOK /\ edits \in 0 .. MaxEdits /\ MaxEdits \in Nat
  BY DhcpAssumption DEF LeaseInv, CanvasOK, WayInv
<1>2. Edit => edits' \in 0 .. MaxEdits
  BY <1>1 DEF Edit
<1>3. ASSUME NEW n \in Touched, Toggle(n) PROVE PowerOK' /\ Edit
  <2>1. n \in Nodes /\ seen.ip[n] \in Addrs \cup {NoAddr} /\ (n \notin seen.on) \in BOOLEAN
    BY <1>1 DEF Canvas
  <2>2. waking' \subseteq Hosts /\ UNCHANGED <<seen, frozen>> /\ Edit
    BY <1>1, <1>3 DEF Toggle, PowerOK
  <2>3. SetConfig(n, n \notin seen.on, seen.ip[n])
    BY <1>3 DEF Toggle
  <2> QED BY <1>1, <2>1, <2>2, <2>3, SetConfigKeepsPower
<1>4. ASSUME NEW n \in Touched, OpenPanel(n) PROVE PowerOK' /\ Edit
  BY <1>1, <1>4 DEF OpenPanel, PowerOK
<1>5. ASSUME NEW n \in Touched, DeleteNode(n) PROVE PowerOK' /\ Edit
  <2>1. canvas'.on = canvas.on \ {n} /\ canvas'.nodes = canvas.nodes \ {n}
    BY <1>5 DEF DeleteNode
  <2> QED BY <1>1, <1>5, <2>1 DEF DeleteNode, PowerOK
<1>6. ASSUME NEW a \in Addrs \cup {NoAddr}, EditDraft(a) PROVE PowerOK' /\ Edit
  <2>1. draft \in Draft /\ draft.node \in Nodes /\ draft.on \in BOOLEAN
    BY <1>1, <1>6 DEF EditDraft, Draft
  <2>2. /\ waking' \subseteq Hosts /\ UNCHANGED <<seen, frozen>> /\ Edit
        /\ SetConfig(draft.node, draft.on, a)
    BY <1>1, <1>6 DEF EditDraft, PowerOK
  <2> QED BY <1>1, <2>1, <2>2, SetConfigKeepsPower
<1>7. CASE ClosePanel
  BY <1>1, <1>7 DEF ClosePanel, PowerOK
<1>8. ASSUME NEW w \in Wires, SetLink(w) PROVE PowerOK' /\ Edit
  <2>1. canvas'.on = canvas.on /\ canvas'.nodes = canvas.nodes
    BY <1>1, <1>8 DEF SetLink, Canvas
  <2> QED BY <1>1, <1>8, <2>1 DEF SetLink, PowerOK
<1>9. CASE Freeze
  BY <1>1, <1>2, <1>9 DEF Freeze, PowerOK
<1> QED BY <1>2, <1>3, <1>4, <1>5, <1>6, <1>7, <1>8, <1>9

LEMMA WayNext == LeaseInv /\ WayInv /\ [DhcpNext]_dhcpVars => WayInv'
<1> SUFFICES ASSUME LeaseInv, WayInv, [DhcpNext]_dhcpVars PROVE WayInv'
  OBVIOUS
<1>1. CASE UNCHANGED dhcpVars
  BY <1>1 DEF dhcpVars, WayInv, FlightsOnTheWay, PowerOK
<1>2. ASSUME NEW h \in Hosts, SimTick(h) \/ Wake(h) PROVE WayInv'
  <2>1. waking' \subseteq Hosts /\ UNCHANGED <<canvas, seen, frozen, edits>>
    BY <1>2 DEF SimTick, Wake, WayInv, PowerOK
  <2>2. CASE CanStart(h) /\ Start(h)
    BY <2>1, <2>2, StartKeepsWay DEF WayInv, PowerOK
  <2>3. CASE UNCHANGED <<flights, tainted>>
    BY <2>1, <2>3 DEF WayInv, FlightsOnTheWay, PowerOK
  <2> QED BY <1>2, <2>2, <2>3 DEF SimTick, Wake
<1>3. ASSUME NEW f \in flights, FlightStep(f) PROVE WayInv'
  <2>1. UNCHANGED <<seen, waking, frozen, edits, tainted>>
    BY <1>3 DEF FlightStep, DropDead, Fly, NextLeg, Ack
  <2>2. canvas'.on = canvas.on /\ canvas'.nodes = canvas.nodes
    BY <1>3 DEF FlightStep, DropDead, Fly, NextLeg, Ack, LeaseInv, CanvasOK, Canvas
  <2> QED BY <1>3, <2>1, <2>2, FlyKeepsWay DEF WayInv, PowerOK
<1>4. CASE Render
  BY <1>4 DEF Render, WayInv, FlightsOnTheWay, PowerOK
<1>5. CASE \/ \E n \in Touched : Toggle(n) \/ OpenPanel(n) \/ DeleteNode(n)
           \/ \E a \in Addrs \cup {NoAddr} : EditDraft(a)
           \/ ClosePanel
           \/ \E w \in Wires : SetLink(w)
           \/ Freeze
  <2>1. UNCHANGED flights
    BY <1>5 DEF Toggle, OpenPanel, DeleteNode, EditDraft, ClosePanel, SetLink, Freeze
  <2> QED BY <1>5, <2>1, EditKeepsWay DEF WayInv, FlightsOnTheWay
<1> QED BY <1>1, <1>2, <1>3, <1>4, <1>5 DEF DhcpNext

LEMMA ExchangeInv == DhcpSpec => [](LeaseInv /\ WayInv)
<1>1. DhcpInit => LeaseInv /\ WayInv
  BY LeaseInit, WayInit
<1>2. LeaseInv /\ WayInv /\ [DhcpNext]_dhcpVars => (LeaseInv /\ WayInv)'
  BY LeaseNext, WayNext
<1> QED BY <1>1, <1>2, PTL DEF DhcpSpec

(* Every reserved address and every busy host belongs to one packet that   *)
(* is somewhere on its path: however an exchange ends (the lease, a dead   *)
(* wire, a device switched off or deleted) it gives both back, once        *)
(* (onAbort and onDone in network-builder-page.tsx).                       *)
THEOREM ReservationsSound == DhcpSpec => []ReservationsHeld
<1>1. LeaseInv /\ WayInv => ReservationsHeld
  <2> SUFFICES ASSUME LeaseInv, WayInv PROVE ReservationsHeld
    OBVIOUS
  <2>1. \A f \in flights : IsFlight(f)
    BY DEF LeaseInv, FlightsOK, WayInv, FlightsOnTheWay, OnTheWay, IsFlight
  <2>2. inProgress \subseteq Hosts /\ reserved \subseteq Pool
    BY DEF LeaseInv, FlightsOK, Held
  <2>3. DhcpTypeOK
    BY <2>1, <2>2 DEF DhcpTypeOK, LeaseInv, CanvasOK, WayInv, PowerOK
  <2> QED BY <2>3 DEF ReservationsHeld, LeaseInv, Held
<1> QED BY <1>1, ExchangeInv, PTL

(* The exchanges never lease one address to two hosts, whatever fails, is  *)
(* edited, deleted or frozen while packets are under way: only an edit, or *)
(* a start between a lease and its render, can (startDhcpForHost,          *)
(* applyLease and runFrame of network-builder-page.tsx).                   *)
THEOREM LeasesSound == DhcpSpec => []LeasesUnique
<1>1. LeaseInv => LeasesUnique
  BY DEF LeaseInv
<1> QED BY <1>1, ExchangeInv, PTL

-----------------------------------------------------------------------------

Drawing == [boxes : SUBSET Boxes, links : SUBSET Links, down : SUBSET Links, off : SUBSET Boxes]

DrawingsOK ==
  net \in Drawing /\ drawn \in Drawing /\ stored \in Drawing /\ posted \in Drawing

(* A timer runs exactly while the packet moves; an animation that is       *)
(* paused has none, and one that has come to its end neither.              *)
TimerInv ==
  /\ animating \in BOOLEAN /\ paused \in BOOLEAN
  /\ animating /\ ~ paused => timers = 1
  /\ ~ animating \/ paused => timers = 0
  /\ paused => animating
  /\ animating => trace # NoTrace
  /\ sending # "no" => trace = NoTrace

(* What the canvas as drawn says of the hop under the packet: it was alive *)
(* when the packet came to it, and every render since has looked again, or *)
(* has noted that the animation was paused.  The paused case belongs here: *)
(* without it nothing is known when the animation goes on.                 *)
HopInv ==
  /\ overlooked \in BOOLEAN
  /\ animating /\ ~ overlooked /\ Crosses(trace, step) => HopAlive(drawn, trace, step)

TraceInv == DrawingsOK /\ TimerInv

-----------------------------------------------------------------------------
LEMMA TraceInitInv == TraceInit => TraceInv
<1> SUFFICES ASSUME TraceInit PROVE TraceInv
  OBVIOUS
<1>1. DrawingsOK
  BY DEF TraceInit, DrawingsOK, Drawing
<1>2. TimerInv
  BY DEF TraceInit, TimerInv
<1> QED BY <1>1, <1>2 DEF TraceInv

(* A timer that is set or cancelled. *)
LEMMA Timers ==
  ASSUME TimerInv
  PROVE  /\ timers \in {0, 1} /\ Cancelled = 0 /\ Cancelled + 1 = 1
         /\ timers = 0 => Resumed = 1
         /\ timers = 1 => timers - 1 = 0
<1>1. timers \in {0, 1}
  BY DEF TimerInv
<1> QED BY <1>1 DEF Cancelled, Resumed

LEMMA ChangeKeepsInv ==
  ASSUME TraceInv, NEW new \in Drawing, Change(new), NEW at \in Drawing, stored' = at
  PROVE  TraceInv'
  BY DEF Change, TraceInv, DrawingsOK, TimerInv, animVars

LEMMA FlipIn ==
  ASSUME NEW S, NEW set \in SUBSET S, NEW e \in S
  PROVE  Flip(set, e) \in SUBSET S
  BY DEF Flip

LEMMA SwitchKeepsInv == ASSUME TraceInv, NEW n \in Boxes, Switch(n) PROVE TraceInv'
<1>1. Flip(net.off, n) \in SUBSET Boxes
  BY FlipIn DEF TraceInv, DrawingsOK, Drawing
<1>2. [net EXCEPT !.off = Flip(@, n)] \in Drawing /\ stored' \in Drawing
  BY <1>1 DEF Switch, TraceInv, DrawingsOK, Drawing
<1> QED BY <1>2, ChangeKeepsInv DEF Switch

LEMMA LinkKeepsInv ==
  ASSUME TraceInv, NEW w \in Links, LinkStatus(w) \/ DeleteLink(w)
  PROVE  TraceInv'
<1>1. Flip(net.down, w) \in SUBSET Links
  BY FlipIn DEF TraceInv, DrawingsOK, Drawing
<1>2. /\ [net EXCEPT !.down = Flip(@, w)] \in Drawing
      /\ [net EXCEPT !.links = @ \ {w}, !.down = @ \ {w}] \in Drawing
  BY <1>1 DEF TraceInv, DrawingsOK, Drawing
<1>3. stored' = stored /\ stored \in Drawing
  BY DEF LinkStatus, DeleteLink, TraceInv, DrawingsOK
<1> QED BY <1>2, <1>3, ChangeKeepsInv DEF LinkStatus, DeleteLink

LEMMA DeleteBoxKeepsInv == ASSUME TraceInv, NEW n \in Boxes, DeleteBox(n) PROVE TraceInv'
<1> DEFINE left == {w \in net.links : n \notin w}
<1>1. [net EXCEPT !.boxes = @ \ {n}, !.links = left, !.down = @ \cap left] \in Drawing
  BY DEF TraceInv, DrawingsOK, Drawing
<1>2. stored' = stored /\ stored \in Drawing
  BY DEF DeleteBox, TraceInv, DrawingsOK
<1> QED BY <1>1, <1>2, ChangeKeepsInv DEF DeleteBox

-----------------------------------------------------------------------------
LEMMA RunStepKeepsInv == ASSUME TraceInv, RunStep PROVE TraceInv'
<1>1. DrawingsOK'
  BY DEF RunStep, TraceInv, DrawingsOK
<1>2. animating /\ ~ paused /\ timers = 1 /\ trace # NoTrace /\ sending = "no"
  BY DEF RunStep, TraceInv, TimerInv
<1>3. sending' = sending
  BY DEF RunStep
<1>4. ASSUME DropTrace PROVE TimerInv'
  BY <1>2, <1>3, <1>4, Timers DEF DropTrace, TraceInv, TimerInv
<1>5. ASSUME timers' = IF MoreHops(step') THEN timers ELSE timers - 1,
             animating' = MoreHops(step'), UNCHANGED <<trace, paused>>
      PROVE  TimerInv'
  <2>1. paused' = FALSE /\ trace' # NoTrace /\ sending' = "no"
    BY <1>2, <1>3, <1>5 DEF TraceInv, TimerInv
  <2>2. CASE MoreHops(step')
    <3>1. animating' = TRUE /\ timers' = 1
      BY <1>2, <1>5, <2>2
    <3> QED BY <2>1, <3>1 DEF TimerInv
  <2>3. CASE ~ MoreHops(step')
    <3>1. animating' = FALSE /\ timers' = 0
      BY <1>2, <1>5, <2>3
    <3> QED BY <2>1, <3>1 DEF TimerInv
  <2> QED BY <2>2, <2>3
<1>6. TimerInv'
  BY <1>2, <1>4, <1>5 DEF RunStep
<1> QED BY <1>1, <1>6 DEF TraceInv

LEMMA TracePanelKeepsInv ==
  ASSUME TraceInv, Send \/ Stored \/ TraceAnswered \/ Dismiss
  PROVE  TraceInv'
<1>1. CASE Send
  BY <1>1, Timers DEF Send, ClearTrace, TraceInv, DrawingsOK, TimerInv
<1>2. CASE Stored
  BY <1>2 DEF Stored, TraceInv, DrawingsOK, TimerInv, animVars
<1>3. CASE TraceAnswered
  <2>1. DrawingsOK' /\ sending' = "no" /\ trace = NoTrace
    BY <1>3 DEF TraceAnswered, TraceInv, DrawingsOK, TimerInv
  <2>2. CASE UNCHANGED animVars
    BY <2>1, <2>2 DEF TraceInv, TimerInv, animVars
  <2>3. ASSUME NEW r \in Traced(stored.links, stored.off), StartAnimation(r)
        PROVE  TimerInv'
    <3>1. r # NoTrace
      BY NoTraceAssumption DEF TraceInv, DrawingsOK, Drawing
    <3>2. Cancelled + 1 = 1
      BY Timers DEF TraceInv
    <3> QED BY <2>1, <2>3, <3>1, <3>2 DEF StartAnimation, TimerInv
  <2> QED BY <1>3, <2>1, <2>2, <2>3 DEF TraceAnswered, TraceInv
<1>4. CASE Dismiss
  BY <1>4, Timers DEF Dismiss, ClearTrace, TraceInv, DrawingsOK, TimerInv
<1> QED BY <1>1, <1>2, <1>3, <1>4

LEMMA PauseKeepsInv == ASSUME TraceInv, Pause PROVE TraceInv'
  BY Timers DEF Pause, TraceInv, DrawingsOK, TimerInv

LEMMA DrawKeepsInv == ASSUME TraceInv, Draw PROVE TraceInv'
<1>1. DrawingsOK' /\ sending' = sending
  BY DEF Draw, TraceInv, DrawingsOK
<1>2. CASE DropTrace
  BY <1>1, <1>2, Timers DEF DropTrace, TraceInv, TimerInv
<1>3. CASE UNCHANGED <<trace, step, animating, paused, timers>>
  BY <1>1, <1>3 DEF TraceInv, TimerInv
<1> QED BY <1>2, <1>3 DEF Draw

LEMMA TraceNextKeepsInv == TraceInv /\ [TraceNext]_traceVars => TraceInv'
<1> SUFFICES ASSUME TraceInv, [TraceNext]_traceVars PROVE TraceInv'
  OBVIOUS
<1>1. CASE UNCHANGED traceVars
  BY <1>1 DEF traceVars, TraceInv, DrawingsOK, TimerInv
<1> QED
  BY <1>1, SwitchKeepsInv, LinkKeepsInv, DeleteBoxKeepsInv, RunStepKeepsInv, TracePanelKeepsInv, PauseKeepsInv,
     DrawKeepsInv DEF TraceNext

(* One timer drives the animation, whatever is sent, paused, switched off  *)
(* and deleted meanwhile, and no trace from before is on display while a   *)
(* packet is being sent (runStep, handlePause and checkTraceLiveness of    *)
(* network-builder-page.tsx).                                              *)
THEOREM AnimationSound == TraceSpec => []OneTimer
<1>1. TraceInv => OneTimer
  BY DEF TraceInv, TimerInv, OneTimer
<1>2. TraceSpec => []TraceInv
  BY TraceInitInv, TraceNextKeepsInv, PTL DEF TraceSpec
<1> QED BY <1>1, <1>2, PTL

-----------------------------------------------------------------------------
(* A timer that fires moves the packet, or finds that it cannot go on.     *)
LEMMA RunStepKeepsHop == ASSUME TraceInv, HopInv, RunStep PROVE HopInv'
<1>1. animating /\ ~ paused /\ trace # NoTrace
  BY DEF RunStep, TraceInv, TimerInv
<1>2. drawn' = drawn
  BY DEF RunStep
<1>3. CASE DropTrace
  BY <1>3 DEF DropTrace, HopInv
<1>4. CASE HopAlive(drawn, trace, step + 1)
  <2>1. step' = step + 1 /\ trace' = trace /\ overlooked' = FALSE
    BY <1>1, <1>4 DEF RunStep
  <2> QED BY <1>2, <1>4, <2>1 DEF HopInv
<1> QED BY <1>1, <1>3, <1>4 DEF RunStep

(* A new trace stands before its first link.                               *)
LEMMA StartKeepsHop ==
  ASSUME NEW r, StartAnimation(r)
  PROVE  HopInv'
<1>1. ~ Crosses(trace', step')
  BY DEF StartAnimation, Crosses
<1> QED BY <1>1 DEF StartAnimation, HopInv

LEMMA ClearKeepsHop == ASSUME ClearTrace \/ DropTrace PROVE HopInv'
  BY DEF ClearTrace, DropTrace, HopInv

LEMMA SameHop ==
  ASSUME HopInv, UNCHANGED <<drawn, trace, step, animating, overlooked>>
  PROVE  HopInv'
  BY DEF HopInv

(* A render looks at the hop, and drops the trace or notes that it is      *)
(* paused when the hop is dead.                                            *)
LEMMA DrawKeepsHop == ASSUME TraceInv, HopInv, Draw PROVE HopInv'
<1> DEFINE dead == trace # NoTrace /\ ~ HopAlive(net, trace, step)
<1>1. drawn' = net /\ (animating => trace # NoTrace)
  BY DEF Draw, TraceInv, TimerInv
<1>2. CASE dead /\ Looks
  BY <1>2, ClearKeepsHop DEF Draw
<1>3. CASE ~ (dead /\ Looks)
  <2>1. /\ overlooked' = (overlooked \/ (dead /\ animating /\ paused))
        /\ UNCHANGED <<trace, step, animating, paused>>
    BY <1>3 DEF Draw
  <2>2. animating /\ ~ overlooked' => ~ dead
    BY <1>3, <2>1 DEF Looks
  <2>3. animating /\ ~ overlooked' => HopAlive(net, trace, step)
    BY <1>1, <2>2
  <2>4. (animating /\ ~ overlooked /\ Crosses(trace, step) => HopAlive(drawn, trace, step))'
    BY <1>1, <2>1, <2>3
  <2>5. overlooked' \in BOOLEAN
    BY <2>1
  <2> QED BY <2>4, <2>5 DEF HopInv
<1> QED BY <1>2, <1>3

LEMMA NextKeepsHop == TraceInv /\ HopInv /\ [TraceNext]_traceVars => HopInv'
<1> SUFFICES ASSUME TraceInv, HopInv, [TraceNext]_traceVars PROVE HopInv'
  OBVIOUS
<1>1. CASE UNCHANGED traceVars
  BY <1>1, SameHop DEF traceVars
<1>2. CASE Send \/ Dismiss
  BY <1>2, ClearKeepsHop DEF Send, Dismiss
<1>3. CASE Stored \/ Pause
  BY <1>3, SameHop DEF Stored, Pause, animVars
<1>4. CASE TraceAnswered
  <2>1. ASSUME UNCHANGED animVars PROVE HopInv'
    BY <1>4, <2>1, SameHop DEF TraceAnswered, animVars
  <2> QED BY <1>4, <2>1, StartKeepsHop DEF TraceAnswered
<1>5. ASSUME NEW new, Change(new) PROVE HopInv'
  BY <1>5, SameHop DEF Change, animVars
<1>6. CASE \/ \E n \in Boxes : Switch(n) \/ DeleteBox(n)
           \/ \E w \in Links : LinkStatus(w) \/ DeleteLink(w)
  BY <1>5, <1>6 DEF Switch, LinkStatus, DeleteLink, DeleteBox
<1> QED BY <1>1, <1>2, <1>3, <1>4, <1>6, RunStepKeepsHop, DrawKeepsHop DEF TraceNext

(* A trace never sails on across a link that was cut, or past a device     *)
(* that was switched off or deleted, after the render that shows it:       *)
(* unless it happened while the animation was paused (runStep and          *)
(* checkTraceLiveness of network-builder-page.tsx).                        *)
THEOREM TraceNeverSails == TraceSpec => []NeverSails
<1>1. HopInv => NeverSails
  BY DEF HopInv, NeverSails
<1>2. TraceInit => HopInv
  BY DEF TraceInit, HopInv
<1>3. TraceSpec => [](TraceInv /\ HopInv)
  BY <1>2, TraceInitInv, TraceNextKeepsInv, NextKeepsHop, PTL DEF TraceSpec
<1> QED BY <1>1, <1>3, PTL

-----------------------------------------------------------------------------
(* Site links: what the two ends of a link, e and f, are promised, on the  *)
(* devices dev.                                                            *)
Subnet == [net : Ips, len : PrefixLengths]

WanIps(d) == {i.ip : i \in {i \in Range(d.ifs) : i.name = "WAN"}}

EndsAddressed(dev, ends) ==
  \A e, f \in ends :
    /\ WanIps(dev[e.router]) = {e.ip}
    /\ InSubnet(e.ip, f.ip, WanPrefixLength)
    /\ e.ip = f.ip => e = f
    /\ \A n \in DOMAIN dev \ {e.router} : \A i \in Range(dev[n].ifs) : i.ip # e.ip

(* The table routes what is for ip to the gateway. *)
Leads(routes, ip, gateway) ==
  \E r \in routes :
    /\ Matches(r, ip) /\ r.gateway = gateway
    /\ \A x \in routes : Matches(x, ip) => x.len <= r.len

Foreign(e, ip) ==
  /\ \A s \in e.lans : ~ InSubnet(ip, s.net, s.len)
  /\ ~ InSubnet(ip, e.ip, WanPrefixLength)

EndsRouted(dev, ends) ==
  \A e, f \in ends : e # f /\ e.fresh =>
    \A ip \in f.hosts : Foreign(e, ip) => Leads(dev[e.router].routes, ip, f.ip)

LinkEnd(dev) ==
  [router : DOMAIN dev, ip : Ips, fresh : BOOLEAN, lans : SUBSET Subnet, hosts : SUBSET Ips]

Promised(k) == EndsAddressed(site.dev, links[k]) /\ EndsRouted(site.dev, links[k])

WanInv ==
  /\ IsSite(site)
  /\ links \in Seq(SUBSET LinkEnd(site.dev))
  /\ \A k \in DOMAIN links : \A e \in links[k] : IsRouter(e.router)
  /\ \A k \in DOMAIN links : Latest(k) /\ ~ spent => Promised(k)

LEMMA NetworkHolds ==
  ASSUME NEW ip \in Ips, NEW len \in PrefixLengths
  PROVE  /\ NetworkOf(ip, len) \in Ips
         /\ NetworkOf(NetworkOf(ip, len), len) = NetworkOf(ip, len)
<1>1. Width \in Nat /\ Width - len \in Nat
  BY AddressingAssumption DEF PrefixLengths
<1>2. BlockSize(len) \in Nat \ {0} /\ 2 ^ Width \in Nat \ {0}
  BY <1>1, PowerPositive DEF BlockSize
<1> DEFINE all == 2 ^ Width
           size == BlockSize(len)
           low == ip - (ip % size)
<1>3. ip \in 0 .. all - 1 /\ all \in Nat \ {0} /\ size \in Nat \ {0}
  BY <1>2 DEF Ips
<1> HIDE DEF all, size
<1>4. ip \in Nat
  BY <1>3
<1>5. low \in 0 .. ip /\ low % size = 0
  BY <1>3, <1>4, RoundedDown
<1> HIDE DEF low
<1>6. low \in 0 .. all - 1 /\ low - (low % size) = low
  BY <1>3, <1>5
<1> QED BY <1>6 DEF NetworkOf, low, size, all, Ips

(* The two addresses of a free block. *)
LEMMA BlockFound ==
  ASSUME NEW base, base = FreeBlock
  PROVE  /\ base + 1 \in Ips /\ base + 2 \in Ips /\ base + 1 # base + 2
         /\ base # WanBase + 4 * Tries =>
              base + 1 \notin AddressesInUse /\ base + 2 \notin AddressesInUse
         /\ NetworkOf(base + 1, WanPrefixLength) = NetworkOf(base + 2, WanPrefixLength)
<1> DEFINE S == {k \in 0 .. Tries : k = Tries \/ IsFree(k)}
           m == Min(S)
<1>1. Tries \in Nat /\ WanBase \in Ips /\ WanBase % 4 = 0 /\ WanBase + 4 * Tries + 2 \in Ips
  BY WanAssumption
<1>2. S \in SUBSET Nat /\ Tries \in S
  BY <1>1
<1>3. m \in S
  BY <1>2, LeastIsIn
<1>4. base = WanBase + 4 * m
  BY DEF FreeBlock
<1> DEFINE all == 2 ^ Width
<1>5. all \in Nat \ {0}
  BY AddressingAssumption, PowerPositive
<1>6. WanBase \in 0 .. all - 1 /\ WanBase + 4 * Tries + 2 \in 0 .. all - 1
  BY <1>1 DEF Ips
<1>7. m \in 0 .. Tries /\ (m = Tries \/ IsFree(m))
  BY <1>3
<1> HIDE DEF m, S, all
<1>8. base + 1 \in 0 .. all - 1 /\ base + 2 \in 0 .. all - 1 /\ base \in Nat
  BY <1>1, <1>4, <1>5, <1>6, <1>7
<1>9. base # WanBase + 4 * Tries => IsFree(m)
  BY <1>4, <1>7
<1>10. base % 4 = 0
  BY <1>1, <1>4, <1>6, <1>7
<1>11. BlockSize(WanPrefixLength) = 4
  <2>1. Width \in Nat
    BY AddressingAssumption
  <2>2. Width - (Width - 2) = 2
    BY <2>1
  <2>3. 2 ^ 2 = 4
    BY SMT
  <2> QED BY <2>2, <2>3 DEF BlockSize, WanPrefixLength
<1>12. (base + 1) - ((base + 1) % 4) = (base + 2) - ((base + 2) % 4)
  BY <1>8, <1>10
<1>13. IsFree(m) => base + 1 \notin AddressesInUse /\ base + 2 \notin AddressesInUse
  BY <1>4 DEF IsFree
<1> QED BY <1>8, <1>9, <1>11, <1>12, <1>13 DEF all, Ips, NetworkOf

(* Every host that counts is in one of the subnets of its side. *)
LEMMA SideKnown ==
  ASSUME IsSite(site), NEW r, NEW w
  PROVE  /\ LanSubnets(r, w) \in SUBSET Subnet /\ HostAddresses(r, w) \in SUBSET Ips
         /\ \A ip \in HostAddresses(r, w) :
              \E s \in LanSubnets(r, w) : InSubnet(ip, s.net, s.len)
<1>1. ASSUME NEW n \in Side(r, w), Counts(n)
      PROVE  /\ site.dev[n].ifs[1].ip \in Ips
             /\ LanPrefix(site.dev[n].ifs[1]) \in PrefixLengths
  <2>1. n \in DOMAIN site.dev
    BY DEF Side
  <2>2. site.dev[n].ifs \in Seq(Interface)
    BY <2>1 DEF IsSite, Device
  <2>3. site.dev[n].ifs[1] \in Interface
    BY <1>1, <2>2 DEF Counts
  <2> QED BY <1>1, <2>3, WanAssumption DEF Interface, Counts, LanPrefix
<1>2. ASSUME NEW ip \in Ips, NEW len \in PrefixLengths
      PROVE  NetworkOf(ip, len) \in Ips /\ InSubnet(ip, NetworkOf(ip, len), len)
  BY NetworkHolds DEF InSubnet
<1> DEFINE NetOf(i) == [net |-> NetworkOf(i.ip, LanPrefix(i)), len |-> LanPrefix(i)]
           counted == {n \in Side(r, w) : Counts(n)}
<1>3. ASSUME NEW n \in counted
      PROVE  /\ NetOf(site.dev[n].ifs[1]) \in Subnet
             /\ InSubnet(site.dev[n].ifs[1].ip, NetOf(site.dev[n].ifs[1]).net,
                         NetOf(site.dev[n].ifs[1]).len)
  BY <1>1, <1>2 DEF Subnet
<1> HIDE DEF NetOf
<1>4. LanSubnets(r, w) = {NetOf(site.dev[n].ifs[1]) : n \in counted}
  BY DEF LanSubnets, NetOf
<1>5. HostAddresses(r, w) = {site.dev[n].ifs[1].ip : n \in counted}
  BY DEF HostAddresses
<1>6. \A n \in counted : site.dev[n].ifs[1].ip \in Ips
  BY <1>1
<1> HIDE DEF counted
<1> QED BY <1>3, <1>4, <1>5, <1>6

(* What a router's interfaces and table become. *)
Built(D, d, self, routes) ==
  /\ D \in Device /\ D.type = d.type /\ D.routes = routes
  /\ WanIps(D) = {self}
  /\ \A i \in Range(D.ifs) : i.ip = self \/ i \in Range(d.ifs)

LEMMA ConfigBuilt ==
  ASSUME NEW d \in Device, NEW self \in Ips, NEW peer \in Ips,
         NEW selfLans \in SUBSET Subnet, NEW peerLans \in SUBSET Subnet
  PROVE  Built(BuildConfig(d, selfLans, peerLans, self, peer), d, self,
               RoutesOf(d, selfLans, peerLans, self, peer))
<1> DEFINE kept == {i \in DOMAIN d.ifs : d.ifs[i].name # "WAN"}
           lan == Picked(d.ifs, kept)
           wan == [name |-> "WAN", ip |-> self, prefix |-> WanPrefixLength]
           routes == RoutesOf(d, selfLans, peerLans, self, peer)
           D == BuildConfig(d, selfLans, peerLans, self, peer)
<1>1. d.ifs \in Seq(Interface) /\ d.routes \in SUBSET Route /\ d.type \in STRING
  BY DEF Device
<1>2. WanPrefixLength \in PrefixLengths
  BY WanAssumption, AddressingAssumption DEF WanPrefixLength, PrefixLengths
<1>3. wan \in Interface /\ wan.name = "WAN" /\ wan.ip = self
  BY <1>2 DEF Interface
<1>4. kept \in SUBSET DOMAIN d.ifs
  OBVIOUS
<1>5. /\ lan \in Seq(Interface) /\ Cardinality(kept) \in Nat /\ Len(lan) = Cardinality(kept)
      /\ \A k \in 1 .. Cardinality(kept) : NthOf(kept, k) \in kept /\ lan[k] = d.ifs[NthOf(kept, k)]
  <2> HIDE DEF kept
  <2> QED BY <1>1, <1>4, PickedElements
<1>6. \A k \in 1 .. Len(lan) : lan[k] \in Range(d.ifs) /\ lan[k].name # "WAN"
  BY <1>5 DEF Range
<1> HIDE DEF lan, wan, kept
<1>7. /\ Append(lan, wan) \in Seq(Interface)
      /\ Range(Append(lan, wan)) = Range(lan) \cup {wan}
  <2>1. Len(lan) \in Nat
    BY <1>5
  <2>2. /\ Append(lan, wan) \in Seq(Interface) /\ Len(Append(lan, wan)) = Len(lan) + 1
        /\ Append(lan, wan)[Len(lan) + 1] = wan
        /\ \A k \in 1 .. Len(lan) : Append(lan, wan)[k] = lan[k]
    BY <1>3, <1>5
  <2>3. DOMAIN Append(lan, wan) = 1 .. Len(lan) + 1 /\ DOMAIN lan = 1 .. Len(lan)
    BY <1>5, <2>2
  <2>4. 1 .. Len(lan) + 1 = (1 .. Len(lan)) \cup {Len(lan) + 1}
    BY <2>1
  <2> QED BY <2>2, <2>3, <2>4 DEF Range
<1>8. \A i \in Range(lan) : i \in Range(d.ifs) /\ i.name # "WAN"
  <2>1. DOMAIN lan = 1 .. Len(lan)
    BY <1>5
  <2> QED BY <1>6, <2>1 DEF Range
<1>9. routes \in SUBSET Route
  <2>1. \A t \in SUBSET Subnet, g \in Ips \cup {NoIp} : Routes(t, g) \in SUBSET Route
    BY DEF Routes, Route, Subnet
  <2>2. {[net |-> NetworkOf(self, WanPrefixLength), len |-> WanPrefixLength]} \in SUBSET Subnet
    BY <1>2, NetworkHolds DEF Subnet
  <2>3. \A x, y \in SUBSET Route : WithRoutes(x, y) \in SUBSET Route
    BY DEF WithRoutes
  <2> QED BY <1>1, <2>1, <2>2, <2>3 DEF RoutesOf
<1>10. D = [d EXCEPT !.ifs = Append(lan, wan), !.routes = routes]
  BY DEF BuildConfig, lan, wan, kept
<1> HIDE DEF routes, D
<1>11. D \in Device /\ D.type = d.type /\ D.routes = routes /\ D.ifs = Append(lan, wan)
  BY <1>1, <1>7, <1>9, <1>10 DEF Device
<1>12. {i \in Range(D.ifs) : i.name = "WAN"} = {wan}
  BY <1>3, <1>7, <1>8, <1>11
<1>13. {i.ip : i \in {wan}} = {self}
  BY <1>3
<1>14. WanIps(D) = {self}
  BY <1>12, <1>13 DEF WanIps
<1>15. \A i \in Range(D.ifs) : i.ip = self \/ i \in Range(d.ifs)
  BY <1>3, <1>7, <1>8, <1>11
<1> QED BY <1>11, <1>14, <1>15 DEF Built, routes, D

(* A table that was empty leads to the other end whatever is for a subnet  *)
(* behind it and for none on this side.                                    *)
LEMMA TableLeads ==
  ASSUME NEW d, d.routes = {}, NEW self \in Ips, NEW peer \in Ips,
         NEW selfLans \in SUBSET Subnet, NEW peerLans \in SUBSET Subnet,
         NEW ip \in Ips, NEW s \in peerLans, InSubnet(ip, s.net, s.len),
         \A t \in selfLans : ~ InSubnet(ip, t.net, t.len),
         ~ InSubnet(ip, self, WanPrefixLength)
  PROVE  Leads(RoutesOf(d, selfLans, peerLans, self, peer), ip, peer)
<1> DEFINE block == NetworkOf(self, WanPrefixLength)
           wan == {[net |-> block, len |-> WanPrefixLength]}
           own == WithRoutes(WithRoutes({}, Routes(wan, NoIp)), Routes(selfLans, NoIp))
           table == WithRoutes(own, Routes(peerLans, peer))
           fit == {x \in table : Matches(x, ip)}
           r == [dest |-> s.net, len |-> s.len, gateway |-> peer]
<1>1. WanPrefixLength \in PrefixLengths
  BY WanAssumption, AddressingAssumption DEF WanPrefixLength, PrefixLengths
<1>2. ~ InSubnet(ip, block, WanPrefixLength)
  BY <1>1, NetworkHolds DEF InSubnet
<1> HIDE DEF block
<1>3. \A x \in own : ~ Matches(x, ip)
  <2>1. \A x \in own : x \in Routes(wan, NoIp) \/ x \in Routes(selfLans, NoIp)
    BY DEF WithRoutes
  <2>2. \A x \in Routes(wan, NoIp) : x.dest = block /\ x.len = WanPrefixLength
    BY DEF Routes
  <2>3. \A x \in Routes(selfLans, NoIp) : \E t \in selfLans : x.dest = t.net /\ x.len = t.len
    BY DEF Routes
  <2> HIDE DEF own
  <2> QED BY <1>2, <2>1, <2>2, <2>3 DEF Matches
<1> HIDE DEF own
<1>4. r \in Routes(peerLans, peer) /\ Matches(r, ip)
  BY DEF Routes, Matches
<1>5. r \in table
  <2>1. \A x \in own : ~ (x.dest = r.dest /\ x.len = r.len)
    BY <1>3, <1>4 DEF Matches
  <2> QED BY <1>4, <2>1 DEF WithRoutes
<1>6. \A x \in fit : x.gateway = peer /\ x.len \in PrefixLengths
  <2>1. \A x \in fit : x \in Routes(peerLans, peer)
    BY <1>3 DEF WithRoutes
  <2>2. \A x \in Routes(peerLans, peer) : x.gateway = peer /\ x.len \in PrefixLengths
    BY DEF Routes, Subnet
  <2> QED BY <2>1, <2>2
<1>7. r \in fit
  BY <1>4, <1>5
<1> HIDE DEF r, table
<1>8. \E x \in fit : \A y \in fit : y.len <= x.len
  <2> DEFINE rest == {Width - x.len : x \in fit}
  <2>1. Width \in Nat /\ \A x \in fit : x.len \in Nat /\ x.len <= Width
    BY <1>6, AddressingAssumption DEF PrefixLengths
  <2> HIDE DEF fit
  <2>2. rest \in SUBSET Nat /\ rest # {}
    BY <1>7, <2>1
  <2>3. PICK v \in rest : \A u \in rest : v <= u
    BY <2>2, LeastNumber
  <2>4. PICK x \in fit : \A y \in fit : Width - x.len <= Width - y.len
    BY <2>3
  <2> QED BY <2>1, <2>4
<1>9. Leads(table, ip, peer)
  BY <1>6, <1>8 DEF Leads
<1> QED BY <1>9 DEF RoutesOf, table, own, block

(* What is promised of a link stays so while its routers are left alone    *)
(* and no other device gets an address that is in use.                     *)
LEMMA PromisesStay ==
  ASSUME NEW dev, NEW new, DOMAIN new = DOMAIN dev,
         NEW ends \in SUBSET LinkEnd(dev), EndsAddressed(dev, ends), EndsRouted(dev, ends),
         \A e \in ends : new[e.router] = dev[e.router],
         \A n \in DOMAIN dev : \A i \in Range(new[n].ifs) :
           \/ i \in Range(dev[n].ifs)
           \/ \A m \in DOMAIN dev : \A j \in Range(dev[m].ifs) : i.ip # j.ip
  PROVE  EndsAddressed(new, ends) /\ EndsRouted(new, ends)
<1>1. \A e \in ends : e.router \in DOMAIN dev
  BY DEF LinkEnd
<1>2. ASSUME NEW e \in ends, NEW n \in DOMAIN dev \ {e.router}, NEW i \in Range(new[n].ifs)
      PROVE  i.ip # e.ip
  <2>1. WanIps(dev[e.router]) = {e.ip}
    BY DEF EndsAddressed
  <2>2. PICK j \in Range(dev[e.router].ifs) : j.ip = e.ip
    BY <2>1 DEF WanIps
  <2>3. CASE i \in Range(dev[n].ifs)
    BY <2>3, <1>2 DEF EndsAddressed
  <2>4. CASE i \notin Range(dev[n].ifs)
    BY <1>1, <2>2, <2>4
  <2> QED BY <2>3, <2>4
<1>3. EndsAddressed(new, ends)
  BY <1>2 DEF EndsAddressed
<1>4. EndsRouted(new, ends)
  BY DEF EndsRouted
<1> QED BY <1>3, <1>4

LEMMA ConfigureKeeps ==
  ASSUME WanInv, NEW w \in site.wires, NEW a \in w, NEW b \in w, ConfigureWanLink(w, a, b)
  PROVE  WanInv'
<1> DEFINE base == FreeBlock
           one == base + 1
           two == base + 2
           aLans == LanSubnets(a, w)
           bLans == LanSubnets(b, w)
           A == BuildConfig(site.dev[a], aLans, bLans, one, two)
           B == BuildConfig(site.dev[b], bLans, aLans, two, one)
           dev == site.dev
           eA == End(a, one, w)
           eB == End(b, two, w)
<1>1. /\ a # b /\ IsRouter(a) /\ IsRouter(b)
      /\ site' = [site EXCEPT !.dev[a] = A, !.dev[b] = B]
      /\ links' = Append(links, {eA, eB})
      /\ spent' = (spent \/ base = WanBase + 4 * Tries)
  BY DEF ConfigureWanLink
<1>2. /\ a \in DOMAIN dev /\ b \in DOMAIN dev
      /\ site = [dev |-> dev, wires |-> site.wires] /\ dev \in [DOMAIN dev -> Device]
  BY DEF WanInv, IsSite
<1>3. /\ one \in Ips /\ two \in Ips /\ one # two
      /\ base # WanBase + 4 * Tries => one \notin AddressesInUse /\ two \notin AddressesInUse
      /\ NetworkOf(one, WanPrefixLength) = NetworkOf(two, WanPrefixLength)
  BY BlockFound
<1>4. /\ aLans \in SUBSET Subnet /\ HostAddresses(a, w) \in SUBSET Ips
      /\ bLans \in SUBSET Subnet /\ HostAddresses(b, w) \in SUBSET Ips
      /\ \A ip \in HostAddresses(a, w) : \E s \in aLans : InSubnet(ip, s.net, s.len)
      /\ \A ip \in HostAddresses(b, w) : \E s \in bLans : InSubnet(ip, s.net, s.len)
  BY SideKnown DEF WanInv
<1>5. /\ eA = [router |-> a, ip |-> one, fresh |-> dev[a].routes = {},
               lans |-> aLans, hosts |-> HostAddresses(a, w)]
      /\ eB = [router |-> b, ip |-> two, fresh |-> dev[b].routes = {},
               lans |-> bLans, hosts |-> HostAddresses(b, w)]
  BY DEF End
<1> HIDE DEF base, one, two, aLans, bLans, eA, eB, dev
<1>6. /\ A \in Device /\ A.type = dev[a].type
      /\ A.routes = RoutesOf(dev[a], aLans, bLans, one, two)
      /\ WanIps(A) = {one}
      /\ \A i \in Range(A.ifs) : i.ip = one \/ i \in Range(dev[a].ifs)
  <2>1. A = BuildConfig(dev[a], aLans, bLans, one, two)
    BY DEF dev
  <2> HIDE DEF A
  <2>2. /\ one \in Ips /\ two \in Ips
        /\ aLans \in SUBSET Subnet /\ bLans \in SUBSET Subnet
        /\ dev[a] \in Device
    BY <1>2, <1>3, <1>4
  <2>3. Built(BuildConfig(dev[a], aLans, bLans, one, two), dev[a], one,
              RoutesOf(dev[a], aLans, bLans, one, two))
    BY <2>2, ConfigBuilt
  <2> QED BY <2>1, <2>3 DEF Built
<1>7. /\ B \in Device /\ B.type = dev[b].type
      /\ B.routes = RoutesOf(dev[b], bLans, aLans, two, one)
      /\ WanIps(B) = {two}
      /\ \A i \in Range(B.ifs) : i.ip = two \/ i \in Range(dev[b].ifs)
  <2>1. B = BuildConfig(dev[b], bLans, aLans, two, one)
    BY DEF dev
  <2> HIDE DEF B
  <2>2. /\ one \in Ips /\ two \in Ips
        /\ aLans \in SUBSET Subnet /\ bLans \in SUBSET Subnet
        /\ dev[b] \in Device
    BY <1>2, <1>3, <1>4
  <2>3. Built(BuildConfig(dev[b], bLans, aLans, two, one), dev[b], two,
              RoutesOf(dev[b], bLans, aLans, two, one))
    BY <2>2, ConfigBuilt
  <2> QED BY <2>1, <2>3 DEF Built
<1> HIDE DEF A, B
<1> DEFINE new == site'.dev
<1>8. /\ new = [n \in DOMAIN dev |-> IF n = b THEN B ELSE IF n = a THEN A ELSE dev[n]]
      /\ site' = [dev |-> new, wires |-> site.wires]
  BY <1>1, <1>2 DEF dev
<1> HIDE DEF new
<1>9. /\ DOMAIN new = DOMAIN dev /\ new[a] = A /\ new[b] = B
      /\ \A n \in DOMAIN dev \ {a, b} : new[n] = dev[n]
      /\ new \in [DOMAIN dev -> Device]
  BY <1>1, <1>2, <1>6, <1>7, <1>8
<1>10. IsSite(site)'
  <2>1. \A x \in site.wires : x \subseteq DOMAIN new /\ Cardinality(x) = 2
    BY <1>9 DEF WanInv, IsSite, dev
  <2>2. site'.dev = new /\ site'.wires = site.wires
    BY <1>8
  <2> QED BY <1>8, <1>9, <2>1, <2>2 DEF IsSite
<1>11. \A n \in DOMAIN dev : IsRouter(n)' <=> IsRouter(n)
  <2>1. \A n \in DOMAIN dev : new[n].type = dev[n].type
    BY <1>6, <1>7, <1>9
  <2> QED BY <2>1 DEF IsRouter, dev, new
<1>12. {eA, eB} \in SUBSET LinkEnd(dev) /\ LinkEnd(new) = LinkEnd(dev)
  <2>1. (dev[a].routes = {}) \in BOOLEAN /\ (dev[b].routes = {}) \in BOOLEAN
    OBVIOUS
  <2>2. eA \in LinkEnd(dev) /\ eB \in LinkEnd(dev)
    BY <1>2, <1>3, <1>4, <1>5, <2>1 DEF LinkEnd
  <2> QED BY <1>9, <2>2 DEF LinkEnd
<1>13. links \in Seq(SUBSET LinkEnd(dev)) /\ Len(links) \in Nat
  BY DEF WanInv, dev
<1>14. /\ links' \in Seq(SUBSET LinkEnd(dev)) /\ Len(links') = Len(links) + 1
       /\ links'[Len(links) + 1] = {eA, eB}
       /\ \A k \in 1 .. Len(links) : links'[k] = links[k]
  BY <1>1, <1>12, <1>13
<1>15. DOMAIN links' = (1 .. Len(links)) \cup {Len(links) + 1} /\ DOMAIN links = 1 .. Len(links)
  BY <1>13, <1>14
<1>16. \A k \in DOMAIN links' : \A e \in links'[k] : IsRouter(e.router)'
  <2>1. ASSUME NEW k \in 1 .. Len(links), NEW e \in links'[k] PROVE IsRouter(e.router)'
    <3>1. e \in links[k] /\ IsRouter(e.router) /\ e.router \in DOMAIN dev
      BY <1>13, <1>14, <1>15, <2>1 DEF WanInv, LinkEnd
    <3> QED BY <3>1, <1>11
  <2>2. eA.router = a /\ eB.router = b
    BY <1>5
  <2>3. \A e \in {eA, eB} : IsRouter(e.router)'
    BY <1>1, <1>2, <1>11, <2>2 DEF dev
  <2> QED BY <1>14, <1>15, <2>1, <2>3
<1>17. ASSUME ~ spent' PROVE EndsAddressed(new, {eA, eB}) /\ EndsRouted(new, {eA, eB})
  <2>1. /\ ~ spent /\ one \notin AddressesInUse /\ two \notin AddressesInUse
    BY <1>1, <1>3, <1>17
  <2>2. \A n \in DOMAIN dev : \A i \in Range(dev[n].ifs) : i.ip # one /\ i.ip # two
    BY <2>1 DEF AddressesInUse, dev
  <2>3. \A n \in DOMAIN dev \ {a} : \A i \in Range(new[n].ifs) : i.ip # one
    BY <1>3, <1>7, <1>9, <2>2
  <2>4. \A n \in DOMAIN dev \ {b} : \A i \in Range(new[n].ifs) : i.ip # two
    BY <1>3, <1>6, <1>9, <2>2
  <2>5. eA.router = a /\ eA.ip = one /\ eB.router = b /\ eB.ip = two
    BY <1>5
  <2>6. InSubnet(one, two, WanPrefixLength) /\ InSubnet(two, one, WanPrefixLength)
        /\ InSubnet(one, one, WanPrefixLength) /\ InSubnet(two, two, WanPrefixLength)
    BY <1>3 DEF InSubnet
  <2>7. EndsAddressed(new, {eA, eB})
    BY <1>3, <1>6, <1>7, <1>9, <2>3, <2>4, <2>5, <2>6 DEF EndsAddressed
  <2>8. ASSUME eA.fresh, NEW ip \in eB.hosts, Foreign(eA, ip)
        PROVE  Leads(new[a].routes, ip, two)
    <3>1. dev[a].routes = {} /\ eA.lans = aLans /\ eB.hosts = HostAddresses(b, w)
      BY <1>5, <2>8
    <3>2. PICK s \in bLans : InSubnet(ip, s.net, s.len)
      BY <1>4, <2>8, <3>1
    <3>3. /\ ip \in Ips /\ \A t \in aLans : ~ InSubnet(ip, t.net, t.len)
          /\ ~ InSubnet(ip, one, WanPrefixLength)
      BY <1>4, <2>5, <2>8, <3>1 DEF Foreign
    <3>4. Leads(RoutesOf(dev[a], aLans, bLans, one, two), ip, two)
      BY <1>3, <1>4, <3>1, <3>2, <3>3, TableLeads
    <3> QED BY <1>6, <1>9, <3>4
  <2>9. ASSUME eB.fresh, NEW ip \in eA.hosts, Foreign(eB, ip)
        PROVE  Leads(new[b].routes, ip, one)
    <3>1. dev[b].routes = {} /\ eB.lans = bLans /\ eA.hosts = HostAddresses(a, w)
      BY <1>5, <2>9
    <3>2. PICK s \in aLans : InSubnet(ip, s.net, s.len)
      BY <1>4, <2>9, <3>1
    <3>3. /\ ip \in Ips /\ \A t \in bLans : ~ InSubnet(ip, t.net, t.len)
          /\ ~ InSubnet(ip, two, WanPrefixLength)
      BY <1>4, <2>5, <2>9, <3>1 DEF Foreign
    <3>4. Leads(RoutesOf(dev[b], bLans, aLans, two, one), ip, one)
      BY <1>3, <1>4, <3>1, <3>2, <3>3, TableLeads
    <3> QED BY <1>7, <1>9, <3>4
  <2> QED BY <2>5, <2>7, <2>8, <2>9 DEF EndsRouted
<1>18. ASSUME NEW k \in 1 .. Len(links), Latest(k)', ~ spent'
       PROVE  EndsAddressed(new, links[k]) /\ EndsRouted(new, links[k])
  <2>1. ~ spent /\ one \notin AddressesInUse /\ two \notin AddressesInUse
    BY <1>1, <1>3, <1>18
  <2>2. \A m \in k + 1 .. Len(links) :
          /\ m \in k + 1 .. Len(links') /\ links'[m] = links[m] /\ links'[k] = links[k]
    BY <1>13, <1>14
  <2>3. Latest(k)
    BY <1>18, <2>2 DEF Latest, RoutersOfLink
  <2>4. PICK last \in Nat : last = Len(links) + 1 /\ last \in k + 1 .. Len(links')
    BY <1>13, <1>14
  <2>5. \A e \in links[k] : e.router # a /\ e.router # b
    <3>1. RoutersOfLink(last)' \cap RoutersOfLink(k)' = {}
      BY <1>18, <2>4 DEF Latest
    <3>2. a \in RoutersOfLink(last)' /\ b \in RoutersOfLink(last)'
      BY <1>5, <1>14, <2>4 DEF RoutersOfLink
    <3>3. \A e \in links[k] : e.router \in RoutersOfLink(k)'
      BY <1>14 DEF RoutersOfLink
    <3> QED BY <3>1, <3>2, <3>3
  <2>6. /\ EndsAddressed(dev, links[k]) /\ EndsRouted(dev, links[k])
        /\ links[k] \in SUBSET LinkEnd(dev)
    BY <1>13, <1>15, <2>1, <2>3 DEF WanInv, Promised, dev
  <2>7. \A e \in links[k] : new[e.router] = dev[e.router]
    BY <1>9, <2>5, <2>6 DEF LinkEnd
  <2>8. \A m \in DOMAIN dev : \A j \in Range(dev[m].ifs) : j.ip # one /\ j.ip # two
    BY <2>1 DEF AddressesInUse, dev
  <2>9. \A n \in DOMAIN dev : \A i \in Range(new[n].ifs) :
          i \in Range(dev[n].ifs) \/ i.ip = one \/ i.ip = two
    BY <1>6, <1>7, <1>9
  <2>10. \A n \in DOMAIN dev : \A i \in Range(new[n].ifs) :
           \/ i \in Range(dev[n].ifs)
           \/ \A m \in DOMAIN dev : \A j \in Range(dev[m].ifs) : i.ip # j.ip
    BY <2>8, <2>9
  <2> QED BY <1>9, <2>6, <2>7, <2>10, PromisesStay
<1>19. \A k \in DOMAIN links' : Latest(k)' /\ ~ spent' => Promised(k)'
  BY <1>14, <1>15, <1>17, <1>18 DEF Promised, new
<1> QED BY <1>10, <1>12, <1>14, <1>16, <1>19 DEF WanInv, new

LEMMA ReaddressKeeps ==
  ASSUME WanInv, NEW n \in DOMAIN site.dev, NEW ip \in LanAddresses, Readdress(n, ip)
  PROVE  WanInv'
<1> DEFINE dev == site.dev
           new == site'.dev
           lan == <<[name |-> "LAN", ip |-> ip, prefix |-> NoPrefix]>>
<1>1. /\ ~ IsRouter(n) /\ ip \notin AddressesInUse
      /\ site' = [site EXCEPT !.dev[n].ifs = lan] /\ links' = links /\ spent' = spent
  BY DEF Readdress
<1>2. /\ site = [dev |-> dev, wires |-> site.wires] /\ dev \in [DOMAIN dev -> Device]
      /\ links \in Seq(SUBSET LinkEnd(dev))
  BY DEF WanInv, IsSite
<1>3. lan \in Seq(Interface) /\ Range(lan) = {[name |-> "LAN", ip |-> ip, prefix |-> NoPrefix]}
  <2>1. [name |-> "LAN", ip |-> ip, prefix |-> NoPrefix] \in Interface
    BY WanAssumption DEF Interface
  <2> QED BY <2>1 DEF Range
<1> DEFINE D == [dev[n] EXCEPT !.ifs = lan]
<1>4. new = [m \in DOMAIN dev |-> IF m = n THEN D ELSE dev[m]]
      /\ site' = [dev |-> new, wires |-> site.wires]
  BY <1>1, <1>2
<1> HIDE DEF lan
<1>5. D \in Device /\ D.type = dev[n].type /\ D.ifs = lan
  BY <1>2, <1>3 DEF Device
<1> HIDE DEF dev, new, D
<1>6. /\ DOMAIN new = DOMAIN dev /\ new \in [DOMAIN dev -> Device] /\ new[n] = D
      /\ \A m \in DOMAIN dev \ {n} : new[m] = dev[m]
  BY <1>2, <1>4, <1>5 DEF dev
<1>7. IsSite(site)'
  <2>1. \A x \in site.wires : x \subseteq DOMAIN new /\ Cardinality(x) = 2
    BY <1>6 DEF WanInv, IsSite, dev
  <2>2. site'.dev = new /\ site'.wires = site.wires
    BY <1>4
  <2> QED BY <1>4, <1>6, <2>1, <2>2 DEF IsSite
<1>8. \A m \in DOMAIN dev : IsRouter(m)' <=> IsRouter(m)
  <2>1. \A m \in DOMAIN dev : new[m].type = dev[m].type
    BY <1>5, <1>6
  <2> QED BY <2>1 DEF IsRouter, dev, new
<1>9. \A k \in DOMAIN links : \A e \in links[k] :
        e \in LinkEnd(dev) /\ IsRouter(e.router) /\ e.router \in DOMAIN dev /\ e.router # n
  BY <1>1, <1>2 DEF WanInv, LinkEnd
<1>10. LinkEnd(new) = LinkEnd(dev)
  BY <1>6 DEF LinkEnd
<1>11. ASSUME NEW k \in DOMAIN links, Latest(k)', ~ spent'
       PROVE  EndsAddressed(new, links[k]) /\ EndsRouted(new, links[k])
  <2>1. Latest(k) /\ ~ spent
    BY <1>1, <1>11 DEF Latest, RoutersOfLink
  <2>2. /\ EndsAddressed(dev, links[k]) /\ EndsRouted(dev, links[k])
        /\ links[k] \in SUBSET LinkEnd(dev)
    BY <1>2, <1>11, <2>1 DEF WanInv, Promised, dev
  <2>3. \A e \in links[k] : new[e.router] = dev[e.router]
    BY <1>6, <1>9, <1>11
  <2>4. \A m \in DOMAIN dev : \A j \in Range(dev[m].ifs) : j.ip # ip
    BY <1>1 DEF AddressesInUse, dev
  <2>5. \A m \in DOMAIN dev : \A i \in Range(new[m].ifs) : i \in Range(dev[m].ifs) \/ i.ip = ip
    BY <1>3, <1>5, <1>6
  <2>6. \A m \in DOMAIN dev : \A i \in Range(new[m].ifs) :
          \/ i \in Range(dev[m].ifs)
          \/ \A l \in DOMAIN dev : \A j \in Range(dev[l].ifs) : i.ip # j.ip
    BY <2>4, <2>5
  <2> QED BY <1>6, <2>2, <2>3, <2>6, PromisesStay
<1>12. \A k \in DOMAIN links' : Latest(k)' /\ ~ spent' => Promised(k)'
  BY <1>1, <1>11 DEF Promised, new
<1>13. \A k \in DOMAIN links' : \A e \in links'[k] : IsRouter(e.router)'
  BY <1>1, <1>8, <1>9
<1>14. links' \in Seq(SUBSET LinkEnd(site'.dev))
  BY <1>1, <1>2, <1>10 DEF new
<1> QED BY <1>7, <1>12, <1>13, <1>14 DEF WanInv

LEMMA SitesLink == WanSpec => []WanInv
<1>1. WanInit => WanInv
  BY WanAssumption DEF WanInit, WanInv
<1>2. ASSUME WanInv, [WanNext]_wanVars PROVE WanInv'
  <2>1. ASSUME NEW w \in site.wires, NEW a \in w, NEW b \in w, ConfigureWanLink(w, a, b)
        PROVE  WanInv'
    BY <1>2, <2>1, ConfigureKeeps
  <2>2. ASSUME NEW n \in DOMAIN site.dev, NEW ip \in LanAddresses, Readdress(n, ip)
        PROVE  WanInv'
    BY <1>2, <2>2, ReaddressKeeps
  <2>3. CASE UNCHANGED wanVars
    BY <1>2, <2>3 DEF wanVars, WanInv, Latest, RoutersOfLink, Promised, IsRouter
  <2> QED BY <1>2, <2>1, <2>2, <2>3 DEF WanNext
<1> QED BY <1>1, <1>2, PTL DEF WanSpec

(* Configured site links have addresses of one block that nobody else has, *)
(* and lead to the hosts behind the other end (configureWanLink), whatever *)
(* was configured before and after, unless every block was taken once.     *)
THEOREM LinksWork == WanSpec => []SitesLinked
<1>1. ASSUME WanInv PROVE SitesLinked
  <2>1. WanAddressed
    BY <1>1 DEF WanInv, Promised, WanAddressed, EndsAddressed, WanIps
  <2>2. ASSUME NEW k \in DOMAIN links, Latest(k), ~ spent, NEW e \in links[k], NEW f \in links[k],
               e # f, e.fresh, NEW ip \in f.hosts, Foreign(e, ip)
        PROVE  Leads(site.dev[e.router].routes, ip, f.ip)
    BY <1>1, <2>2 DEF WanInv, Promised, EndsRouted
  <2>3. LansRouted
    BY <2>2 DEF LansRouted, Foreign, Leads
  <2> QED BY <2>1, <2>3 DEF SitesLinked
<1> QED BY <1>1, SitesLink, PTL

-----------------------------------------------------------------------------
(* Bags of packets, counted by their copies. *)
FlightBag(bag) ==
  /\ bag = [c \in DOMAIN bag |-> bag[c]] /\ \A c \in DOMAIN bag : bag[c] \in Nat \ {0}
  /\ IsFiniteSet(Copies(bag))

LEMMA CopyOf ==
  ASSUME NEW bag, NEW c, NEW k
  PROVE  <<c, k>> \in Copies(bag) <=> c \in DOMAIN bag /\ k \in 1 .. bag[c]
BY DEF Copies, BagToSet

LEMMA CopiesAre ==
  ASSUME NEW bag, NEW x \in Copies(bag)
  PROVE  \E c \in DOMAIN bag : \E k \in 1 .. bag[c] : x = <<c, k>>
BY DEF Copies, BagToSet

LEMMA NoneInFlight == FlightBag(EmptyBag) /\ InFlight(EmptyBag) = 0 /\ DOMAIN EmptyBag = {}
<1>1. EmptyBag = [c \in {} |-> 1]
  BY DEF EmptyBag, SetToBag
<1>2. DOMAIN EmptyBag = {}
  BY <1>1
<1>3. Copies(EmptyBag) = {}
  BY <1>2, CopiesAre
<1>4. EmptyBag = [c \in DOMAIN EmptyBag |-> EmptyBag[c]]
  BY <1>1
<1> QED BY <1>2, <1>3, <1>4, FS_EmptySet DEF FlightBag, InFlight

LEMMA OneInFlight ==
  ASSUME NEW c
  PROVE  /\ FlightBag(SetToBag({c})) /\ InFlight(SetToBag({c})) = 1
         /\ DOMAIN SetToBag({c}) = {c}
<1> DEFINE B == SetToBag({c})
<1>1. DOMAIN B = {c} /\ B[c] = 1 /\ B = [x \in DOMAIN B |-> B[x]]
  BY DEF SetToBag
<1> HIDE DEF B
<1>2. Copies(B) = {<<c, 1>>}
  <2>1. 1 .. 1 = {1}
    OBVIOUS
  <2> QED BY <1>1, <2>1 DEF Copies, BagToSet
<1>3. IsFiniteSet(Copies(B)) /\ Cardinality(Copies(B)) = 1
  BY <1>2, FS_Singleton
<1>4. FlightBag(B) /\ InFlight(B) = 1
  BY <1>1, <1>3 DEF FlightBag, InFlight
<1> QED BY <1>1, <1>4 DEF B

LEMMA JoinedFlights ==
  ASSUME NEW A, NEW B, FlightBag(A), FlightBag(B)
  PROVE  /\ FlightBag(A (+) B) /\ DOMAIN (A (+) B) = DOMAIN A \cup DOMAIN B
         /\ InFlight(A) \in Nat /\ InFlight(B) \in Nat /\ InFlight(A (+) B) \in Nat
         /\ InFlight(A (+) B) <= InFlight(A) + InFlight(B)
<1> DEFINE J == A (+) B
           Before(c) == IF c \in DOMAIN A THEN A[c] ELSE 0
           Of(c) == IF c \in DOMAIN B THEN B[c] ELSE 0
           f == [x \in Copies(B) |-> <<x[1], Before(x[1]) + x[2]>>]
           late == {f[x] : x \in Copies(B)}
<1>1. DOMAIN J = DOMAIN A \cup DOMAIN B /\ J = [c \in DOMAIN J |-> Before(c) + Of(c)]
  BY DEF (+)
<1>2. \A c \in DOMAIN J : /\ J[c] = Before(c) + Of(c) /\ J[c] \in Nat \ {0}
                          /\ Before(c) \in Nat /\ Of(c) \in Nat
  <2>1. \A c : Before(c) \in Nat /\ Of(c) \in Nat
    BY DEF FlightBag
  <2>2. \A c \in DOMAIN J : J[c] = Before(c) + Of(c)
    BY <1>1
  <2>3. \A c \in DOMAIN J : Before(c) # 0 \/ Of(c) # 0
    BY <1>1 DEF FlightBag
  <2> HIDE DEF J, Before, Of
  <2> QED BY <2>1, <2>2, <2>3
<1> HIDE DEF J
<1>3. IsFiniteSet(late) /\ Cardinality(late) <= Cardinality(Copies(B))
  <2>1. f \in Surjection(Copies(B), late)
    BY DEF Surjection
  <2> HIDE DEF f, late
  <2> QED BY <2>1, FS_Surjection DEF FlightBag
<1>4. Copies(J) \subseteq Copies(A) \cup late
  <2>1. SUFFICES ASSUME NEW x \in Copies(J)
                 PROVE  x \in Copies(A) \cup late
    <3> HIDE DEF late
    <3> QED OBVIOUS
  <2>2. PICK c, k : x = <<c, k>> /\ c \in DOMAIN J /\ k \in 1 .. J[c]
    BY CopiesAre
  <2>3. J[c] = Before(c) + Of(c) /\ Before(c) \in Nat /\ Of(c) \in Nat
    BY <1>2, <2>2
  <2>4. CASE k <= Before(c)
    <3>1. c \in DOMAIN A /\ k \in 1 .. A[c]
      BY <2>2, <2>3, <2>4
    <3>2. x \in Copies(A)
      BY <3>1, <2>2, CopyOf
    <3> QED BY <3>2
  <2>5. CASE ~ (k <= Before(c))
    <3> HIDE DEF Before
    <3>1. k - Before(c) \in 1 .. Of(c) /\ Before(c) + (k - Before(c)) = k
      BY <2>2, <2>3, <2>5
    <3>2. c \in DOMAIN B /\ k - Before(c) \in 1 .. B[c]
      BY <3>1
    <3>3. <<c, k - Before(c)>> \in Copies(B)
      BY <3>2, CopyOf
    <3>4. f[<<c, k - Before(c)>>] = <<c, k>>
      BY <3>1, <3>3
    <3> HIDE DEF f
    <3> QED BY <2>2, <3>3, <3>4
  <2> QED BY <2>4, <2>5
<1>5. /\ IsFiniteSet(Copies(A) \cup late)
      /\ Cardinality(Copies(A) \cup late) <= Cardinality(Copies(A)) + Cardinality(late)
  <2> HIDE DEF late
  <2>1. /\ IsFiniteSet(Copies(A)) /\ IsFiniteSet(Copies(A) \cap late)
        /\ Cardinality(Copies(A) \cap late) \in Nat
    BY FS_Intersection, FS_CardinalityType DEF FlightBag
  <2>2. /\ IsFiniteSet(Copies(A) \cup late)
        /\ Cardinality(Copies(A) \cup late) =
             Cardinality(Copies(A)) + Cardinality(late) - Cardinality(Copies(A) \cap late)
    BY <1>3, <2>1, FS_Union
  <2>3. Cardinality(Copies(A)) \in Nat /\ Cardinality(late) \in Nat
    BY <1>3, <2>1, FS_CardinalityType
  <2> QED BY <2>1, <2>2, <2>3
<1> HIDE DEF late
<1>6. /\ IsFiniteSet(Copies(J))
      /\ Cardinality(Copies(J)) <= Cardinality(Copies(A) \cup late)
  BY <1>4, <1>5, FS_Subset
<1>7. /\ Cardinality(Copies(A)) \in Nat /\ Cardinality(Copies(B)) \in Nat
      /\ Cardinality(Copies(J)) \in Nat /\ Cardinality(late) \in Nat
      /\ Cardinality(Copies(A) \cup late) \in Nat
  BY <1>3, <1>5, <1>6, FS_CardinalityType DEF FlightBag
<1>8. InFlight(J) <= InFlight(A) + InFlight(B)
  BY <1>3, <1>5, <1>6, <1>7 DEF InFlight
<1>9. J = [c \in DOMAIN J |-> J[c]]
  BY <1>1
<1> QED BY <1>1, <1>2, <1>6, <1>7, <1>8, <1>9 DEF FlightBag, InFlight, J

LEMMA OneLanded ==
  ASSUME NEW A, FlightBag(A), NEW c \in DOMAIN A
  PROVE  /\ FlightBag(A (-) SetToBag({c})) /\ DOMAIN (A (-) SetToBag({c})) \subseteq DOMAIN A
         /\ InFlight(A) \in Nat /\ InFlight(A (-) SetToBag({c})) = InFlight(A) - 1
<1> DEFINE R == A (-) SetToBag({c})
           Left(x) == IF x = c THEN A[x] - 1 ELSE A[x]
<1>1. R = [x \in {y \in DOMAIN A : Left(y) > 0} |-> Left(x)]
  <2>1. \A x : x \in DOMAIN SetToBag({c}) <=> x = c
    BY OneInFlight
  <2>2. SetToBag({c})[c] = 1
    BY DEF SetToBag
  <2> DEFINE D == [x \in DOMAIN A |-> IF x \in DOMAIN SetToBag({c})
                                     THEN A[x] - SetToBag({c})[x] ELSE A[x]]
  <2>3. R = [x \in {y \in DOMAIN D : D[y] > 0} |-> D[x]]
    BY DEF (-)
  <2>4. DOMAIN D = DOMAIN A /\ \A x \in DOMAIN A : D[x] = Left(x)
    BY <2>1, <2>2
  <2> HIDE DEF D, R, Left
  <2> QED BY <2>3, <2>4
<1>2. \A x \in DOMAIN A : A[x] \in Nat \ {0}
  BY DEF FlightBag
<1>3. \A x \in DOMAIN R : x \in DOMAIN A /\ R[x] = Left(x) /\ R[x] \in Nat \ {0}
  BY <1>1, <1>2
<1>4. Copies(R) = Copies(A) \ {<<c, A[c]>>}
  <2>1. ASSUME NEW x, NEW k
        PROVE  <<x, k>> \in Copies(R) <=> <<x, k>> \in Copies(A) \ {<<c, A[c]>>}
    <3>1. <<x, k>> \in Copies(R) <=> x \in DOMAIN R /\ k \in 1 .. R[x]
      BY CopyOf
    <3>2. <<x, k>> \in Copies(A) <=> x \in DOMAIN A /\ k \in 1 .. A[x]
      BY CopyOf
    <3>3. x \in DOMAIN A => ((x \in DOMAIN R /\ k \in 1 .. R[x]) <=>
                             (k \in 1 .. A[x] /\ ~ (x = c /\ k = A[c])))
      <4>1. ASSUME x \in DOMAIN A
            PROVE  x \in DOMAIN R <=> Left(x) > 0
        BY <1>1, <4>1
      <4> QED BY <4>1, <1>2, <1>3
    <3>4. x \in DOMAIN R => x \in DOMAIN A
      BY <1>3
    <3> QED BY <3>1, <3>2, <3>3, <3>4
  <2> HIDE DEF R
  <2>2. ASSUME NEW x \in Copies(R) PROVE x \in Copies(A) \ {<<c, A[c]>>}
    <3>1. PICK y, k : x = <<y, k>>
      BY CopiesAre
    <3> QED BY <3>1, <2>1
  <2>3. ASSUME NEW x \in Copies(A) \ {<<c, A[c]>>} PROVE x \in Copies(R)
    <3>1. PICK y, k : x = <<y, k>>
      BY CopiesAre
    <3> QED BY <3>1, <2>1
  <2> QED BY <2>2, <2>3
<1> HIDE DEF R
<1>5. <<c, A[c]>> \in Copies(A)
  BY <1>2, CopyOf
<1>6. /\ IsFiniteSet(Copies(R)) /\ Cardinality(Copies(A)) \in Nat
      /\ Cardinality(Copies(R)) = Cardinality(Copies(A)) - 1
  BY <1>4, <1>5, FS_RemoveElement, FS_CardinalityType DEF FlightBag
<1>7. R = [x \in DOMAIN R |-> R[x]]
  BY <1>1
<1> QED BY <1>3, <1>6, <1>7 DEF FlightBag, InFlight, R

(* A burst has no more packets than choices. *)
LEMMA BurstBounded ==
  ASSUME NEW k \in Nat, NEW scripts, NEW chosen \in [1 .. k -> scripts]
  PROVE  /\ FlightBag(Burst(chosen)) /\ InFlight(Burst(chosen)) <= k
         /\ DOMAIN Burst(chosen) \subseteq {Conversation(s) : s \in scripts \ {<<>>}}
<1> DEFINE B == Burst(chosen)
           begun == {chosen[i] : i \in 1 .. k} \ {<<>>}
           Those(s) == {i \in 1 .. k : chosen[i] = s}
           g(s) == CHOOSE h : h \in Bijection(1 .. Cardinality(Those(s)), Those(s))
           f == [x \in Copies(B) |-> g(x[1].legs)[x[2]]]
<1>1. DOMAIN chosen = 1 .. k
  OBVIOUS
<1>2. /\ DOMAIN B = {Conversation(s) : s \in begun}
      /\ B = [c \in DOMAIN B |-> Cardinality(Those(c.legs))]
  BY <1>1 DEF Burst
<1>3. ASSUME NEW s
      PROVE  /\ IsFiniteSet(Those(s)) /\ Cardinality(Those(s)) \in Nat
             /\ g(s) \in Bijection(1 .. Cardinality(Those(s)), Those(s))
  <2>1. IsFiniteSet(1 .. k) /\ Those(s) \in SUBSET (1 .. k)
    BY FS_Interval
  <2>2. IsFiniteSet(Those(s))
    BY <2>1, FS_Subset
  <2> HIDE DEF Those
  <2>3. Cardinality(Those(s)) \in Nat /\ ExistsBijection(1 .. Cardinality(Those(s)), Those(s))
    BY <2>2, FS_CardinalityType
  <2> QED BY <2>2, <2>3 DEF ExistsBijection
<1>4. \A c \in DOMAIN B : /\ c = Conversation(c.legs) /\ c.legs \in begun
                          /\ B[c] = Cardinality(Those(c.legs))
  BY <1>2 DEF Conversation
<1> HIDE DEF B
<1>5. \A c \in DOMAIN B : B[c] \in Nat \ {0}
  <2>1. TAKE c \in DOMAIN B
  <2>2. Those(c.legs) # {}
    BY <1>4
  <2> HIDE DEF Those
  <2> QED BY <2>2, <1>3, <1>4, FS_EmptySet
<1> HIDE DEF g
<1>6. ASSUME NEW x \in Copies(B)
      PROVE  /\ x = <<Conversation(x[1].legs), x[2]>>
             /\ x[2] \in 1 .. Cardinality(Those(x[1].legs))
             /\ f[x] \in Those(x[1].legs) /\ f[x] = g(x[1].legs)[x[2]]
  <2>1. x = <<x[1], x[2]>> /\ x[1] \in DOMAIN B /\ x[2] \in 1 .. B[x[1]]
    <3>1. PICK c, j : x = <<c, j>> /\ c \in DOMAIN B /\ j \in 1 .. B[c]
      BY CopiesAre
    <3> QED BY <3>1
  <2>2. x[2] \in 1 .. Cardinality(Those(x[1].legs)) /\ x[1] = Conversation(x[1].legs)
    BY <2>1, <1>4
  <2>3. f[x] = g(x[1].legs)[x[2]]
    OBVIOUS
  <2> HIDE DEF Those
  <2>4. g(x[1].legs)[x[2]] \in Those(x[1].legs)
    BY <2>2, <1>3 DEF Bijection, Injection
  <2> QED BY <2>1, <2>2, <2>3, <2>4
<1>7. f \in Injection(Copies(B), 1 .. k)
  <2>1. f \in [Copies(B) -> 1 .. k]
    BY <1>6
  <2>2. ASSUME NEW x \in Copies(B), NEW y \in Copies(B), f[x] = f[y]
        PROVE  x = y
    <3>1. f[x] \in Those(x[1].legs) /\ f[y] \in Those(y[1].legs)
      BY <1>6
    <3>2. x[1].legs = y[1].legs
      BY <3>1, <2>2
    <3> DEFINE s == x[1].legs
    <3>3. /\ g(s)[x[2]] = g(s)[y[2]]
          /\ x[2] \in 1 .. Cardinality(Those(s)) /\ y[2] \in 1 .. Cardinality(Those(s))
      BY <2>2, <3>2, <1>6
    <3>4. g(s) \in Bijection(1 .. Cardinality(Those(s)), Those(s))
      BY <1>3
    <3> HIDE DEF s, Those
    <3>5. x[2] = y[2]
      BY <3>3, <3>4 DEF Bijection, Injection, IsInjective
    <3> QED BY <3>2, <3>5, <1>6
  <2> HIDE DEF f
  <2> QED BY <2>1, <2>2 DEF Injection, IsInjective
<1> HIDE DEF f
<1>8. IsFiniteSet(1 .. k) /\ Cardinality(1 .. k) = k
  BY FS_Interval
<1>9. IsFiniteSet(Copies(B)) /\ Cardinality(Copies(B)) <= k
  BY <1>7, <1>8, FS_Injection
<1>10. B = [c \in DOMAIN B |-> B[c]]
  BY <1>2
<1>11. \A s \in begun : s \in scripts \ {<<>>}
  OBVIOUS
<1> QED BY <1>2, <1>5, <1>9, <1>10, <1>11 DEF FlightBag, InFlight, B

-----------------------------------------------------------------------------
(* What conversations are made of. *)
Apps == {"DNS", "HTTPS", "SQL", "MQTT", "SMB", "IMAP", "IPP"}
Packets ==
  [src : Stations, dst : Stations, protocol : Apps \cup {"ICMP", "ARP", "TCP"},
   phase : {"request", "reply"}, l4 : {"UDP", "TCP", "ICMP"}, srcPort : Nat, dstPort : Nat]
PacketLegs == [path : {p \in Seq(Stations) : Len(p) >= 2}, packet : Packets]

Mirrors(p, q) ==
  /\ q.src = p.dst /\ q.dst = p.src /\ q.protocol = p.protocol
  /\ q.srcPort = p.dstPort /\ q.dstPort = p.srcPort

Mirrored(l) ==
  \A i \in 1 .. Len(l) - 1 :
    l[i].packet.phase = "request" /\ l[i + 1].packet.phase = "reply" =>
      Mirrors(l[i].packet, l[i + 1].packet)

Opens(l) == l = <<>> \/ l[1].packet.phase = "request"

Script(l) == l \in Seq(PacketLegs) /\ Opens(l) /\ Mirrored(l)

LEMMA ScriptsJoin ==
  ASSUME NEW x, NEW y, Script(x), Script(y)
  PROVE  /\ Script(x \o y) /\ Len(x) \in Nat /\ Len(y) \in Nat
         /\ \A i \in 1 .. Len(x \o y) :
              \/ \E j \in 1 .. Len(x) : (x \o y)[i] = x[j]
              \/ \E j \in 1 .. Len(y) : (x \o y)[i] = y[j]
<1> DEFINE z == x \o y
           m == Len(x)
           n == Len(y)
<1>1. x \in Seq(PacketLegs) /\ y \in Seq(PacketLegs) /\ m \in Nat /\ n \in Nat
  BY DEF Script
<1>2. /\ z \in Seq(PacketLegs) /\ Len(z) = m + n
      /\ \A i \in 1 .. m + n : z[i] = IF i <= m THEN x[i] ELSE y[i - m]
  BY <1>1
<1> HIDE DEF z, m, n
<1>3. \A i \in 1 .. m : z[i] = x[i]
  BY <1>1, <1>2
<1>4. \A i \in m + 1 .. m + n : z[i] = y[i - m] /\ i - m \in 1 .. n
  BY <1>1, <1>2
<1>5. Opens(z)
  <2>1. CASE m = 0
    <3>1. CASE n = 0
      <4>1. z = <<>>
        BY <1>1, <1>2, <2>1, <3>1
      <4> QED BY <4>1 DEF Opens
    <3>2. CASE n # 0
      <4>1. z[1] = y[1]
        BY <1>1, <1>4, <2>1, <3>2
      <4>2. y # <<>>
        BY <3>2 DEF n
      <4> QED BY <4>1, <4>2 DEF Opens, Script
    <3> QED BY <3>1, <3>2
  <2>2. CASE m # 0
    <3>1. z[1] = x[1]
      BY <1>1, <1>3, <2>2
    <3>2. x # <<>>
      BY <2>2 DEF m
    <3> QED BY <3>1, <3>2 DEF Opens, Script
  <2> QED BY <2>1, <2>2
<1>6. Mirrored(z)
  <2>1. SUFFICES ASSUME NEW i \in 1 .. m + n - 1,
                        z[i].packet.phase = "request", z[i + 1].packet.phase = "reply"
                 PROVE  Mirrors(z[i].packet, z[i + 1].packet)
    BY <1>1, <1>2 DEF Mirrored
  <2>2. CASE i < m
    <3>1. z[i] = x[i] /\ z[i + 1] = x[i + 1] /\ i \in 1 .. m - 1
      BY <1>1, <1>3, <2>2
    <3> QED BY <2>1, <3>1 DEF Script, Mirrored, m
  <2>3. CASE i = m
    <3>1. z[i + 1] = y[1] /\ n # 0
      BY <1>1, <1>4, <2>3
    <3>2. y # <<>>
      BY <3>1 DEF n
    <3>3. y[1].packet.phase = "request"
      BY <3>2 DEF Script, Opens
    <3> QED BY <2>1, <3>1, <3>3
  <2>4. CASE i > m
    <3>1. /\ z[i] = y[i - m] /\ z[i + 1] = y[(i + 1) - m] /\ (i + 1) - m = (i - m) + 1
          /\ i - m \in 1 .. n - 1
      BY <1>1, <1>4, <2>4
    <3> QED BY <2>1, <3>1 DEF Script, Mirrored, n
  <2> QED BY <1>1, <2>2, <2>3, <2>4
<1>7. \A i \in 1 .. m + n : i \in 1 .. m \/ i \in m + 1 .. m + n
  BY <1>1
<1>8. \A i \in 1 .. m + n : (\E j \in 1 .. m : z[i] = x[j]) \/ (\E j \in 1 .. n : z[i] = y[j])
  BY <1>3, <1>4, <1>7
<1> QED BY <1>1, <1>2, <1>5, <1>6, <1>8 DEF Script, z, m, n

LEMMA NothingSaid == Script(<<>>) /\ Len(<<>>) = 0
BY DEF Script, Opens, Mirrored

LEMMA OneSaid ==
  ASSUME NEW a \in PacketLegs, a.packet.phase = "request"
  PROVE  Script(<<a>>) /\ Len(<<a>>) = 1
BY DEF Script, Opens, Mirrored

LEMMA TwoSaid ==
  ASSUME NEW a \in PacketLegs, NEW b \in PacketLegs,
         a.packet.phase = "request", Mirrors(a.packet, b.packet)
  PROVE  Script(<<a, b>>) /\ Len(<<a, b>>) = 2
<1>1. <<a, b>> \in Seq(PacketLegs) /\ Len(<<a, b>>) = 2 /\ <<a, b>>[1] = a /\ <<a, b>>[2] = b
  OBVIOUS
<1>2. Mirrored(<<a, b>>)
  <2>1. \A i \in 1 .. 2 - 1 : i = 1 /\ i + 1 = 2
    OBVIOUS
  <2> QED BY <1>1, <2>1 DEF Mirrored
<1> QED BY <1>1, <1>2 DEF Script, Opens

(* What is left of a script when a packet arrived, is one unless nothing is, *)
(* save that it may begin with the answer.                                 *)
LEMMA RestMirrored ==
  ASSUME NEW l \in Seq(PacketLegs), l # <<>>, Mirrored(l)
  PROVE  /\ Tail(l) \in Seq(PacketLegs) /\ Mirrored(Tail(l)) /\ Len(Tail(l)) = Len(l) - 1
         /\ \A i \in 1 .. Len(l) - 1 : Tail(l)[i] = l[i + 1]
<1>1. /\ Tail(l) \in Seq(PacketLegs) /\ Len(Tail(l)) = Len(l) - 1 /\ Len(l) \in Nat
      /\ \A i \in 1 .. Len(l) - 1 : Tail(l)[i] = l[i + 1]
  OBVIOUS
<1>2. Mirrored(Tail(l))
  <2> DEFINE t == Tail(l)
  <2> HIDE DEF t
  <2>1. SUFFICES ASSUME NEW i \in 1 .. Len(l) - 2
                 PROVE  t[i].packet.phase = "request" /\ t[i + 1].packet.phase = "reply" =>
                          Mirrors(t[i].packet, t[i + 1].packet)
    BY <1>1 DEF Mirrored, t
  <2>2. i + 1 \in 1 .. Len(l) - 1 /\ t[i] = l[i + 1] /\ t[i + 1] = l[(i + 1) + 1]
    BY <1>1 DEF t
  <2> QED BY <2>2 DEF Mirrored
<1> QED BY <1>1, <1>2

-----------------------------------------------------------------------------
(* Packets and their families. *)
LEMMA ClientPorts ==
  ASSUME NEW n \in Stations
  PROVE  EphemeralPort(n) \in Nat /\ EphemeralPort(n) >= 49152
<1>1. Hash[n] \in Nat
  BY AmbientAssumption
<1>2. \A h \in Nat : 49152 + (h % 16000) \in Nat /\ 49152 + (h % 16000) >= 49152
  OBVIOUS
<1> QED BY <1>1, <1>2 DEF EphemeralPort

Family(app) ==
  CASE app = "DNS" -> "dns"
    [] app = "SQL" -> "sql"
    [] app = "MQTT" -> "mqtt"
    [] app = "HTTPS" -> "https"
    [] OTHER -> "smb"

LEMMA PortsTell ==
  ASSUME NEW p, NEW e \in Nat, e >= 49152, NEW app \in Apps,
         {p.srcPort, p.dstPort} = {e, WellKnown[app]}, p.protocol # "ARP", p.l4 # "ICMP"
  PROVE  AmbientFamily(p) = Family(app)
<1> DEFINE ports == {p.srcPort, p.dstPort}
<1>0. ports = {e, WellKnown[app]}
  OBVIOUS
<1> HIDE DEF ports
<1>1. CASE app = "DNS"
  <2>1. ports = {e, 53}
    BY <1>1, <1>0 DEF WellKnown
  <2>2. ports \cap {53} # {}
    BY <2>1
  <2> QED BY <1>1, <2>2 DEF AmbientFamily, Family, ports
<1>2. CASE app = "SQL"
  <2>1. ports = {e, 3306}
    BY <1>2, <1>0 DEF WellKnown
  <2>2. ports \cap {53} = {} /\ ports \cap {3306} # {}
    BY <2>1
  <2> QED BY <1>2, <2>2 DEF AmbientFamily, Family, ports
<1>3. CASE app = "MQTT"
  <2>1. ports = {e, 1883}
    BY <1>3, <1>0 DEF WellKnown
  <2>2. ports \cap {53} = {} /\ ports \cap {3306} = {} /\ ports \cap {53, 3306} = {}
        /\ ports \cap {1883} # {}
    BY <2>1
  <2> QED BY <1>3, <2>2 DEF AmbientFamily, Family, ports
<1>4. CASE app = "HTTPS"
  <2>1. ports = {e, 443}
    BY <1>4, <1>0 DEF WellKnown
  <2>2. /\ ports \cap {53} = {} /\ ports \cap {3306} = {} /\ ports \cap {53, 3306} = {}
        /\ ports \cap {1883} = {} /\ ports \cap {53, 3306, 1883} = {}
        /\ ports \cap {445, 143, 631} = {} /\ ports \cap {53, 3306, 1883, 445, 143, 631} = {}
        /\ ports \cap {80, 443} # {}
    BY <2>1
  <2> QED BY <1>4, <2>2 DEF AmbientFamily, Family, ports
<1>5. CASE app \in {"SMB", "IMAP", "IPP"}
  <2>1. PICK w \in {445, 143, 631} : ports = {e, w}
    BY <1>5, <1>0 DEF WellKnown
  <2>2. w \in ports /\ \A x \in ports : x = w \/ x >= 49152
    BY <2>1
  <2>3. ports \cap {445, 143, 631} # {}
    BY <2>2
  <2>4. 53 \notin ports /\ 3306 \notin ports /\ 1883 \notin ports
    BY <2>2
  <2>5. /\ ports \cap {53} = {} /\ ports \cap {3306} = {} /\ ports \cap {53, 3306} = {}
        /\ ports \cap {1883} = {} /\ ports \cap {53, 3306, 1883} = {}
    BY <2>4
  <2> QED BY <1>5, <2>3, <2>5 DEF AmbientFamily, Family, ports
<1> QED BY <1>1, <1>2, <1>3, <1>4, <1>5 DEF Apps

(* A request and its answer. *)
Answers(P, Q, s, d) ==
  /\ P \in Packets /\ Q \in Packets /\ P.phase = "request" /\ Q.phase = "reply"
  /\ Mirrors(P, Q) /\ P.src = s /\ P.dst = d

LEMMA AppPackets ==
  ASSUME NEW s \in Stations, NEW d \in Stations, NEW app \in Apps
  PROVE  LET P == BuildPacket(s, d, app, "request")
             Q == BuildPacket(d, s, app, "reply")
         IN  /\ Answers(P, Q, s, d)
             /\ AmbientFamily(P) = Family(app) /\ AmbientFamily(Q) = Family(app)
<1> DEFINE P == BuildPacket(s, d, app, "request")
           Q == BuildPacket(d, s, app, "reply")
           e == EphemeralPort(s)
<1>1. e \in Nat /\ e >= 49152
  BY ClientPorts
<1>2. WellKnown[app] \in Nat /\ Transport(app) \in {"UDP", "TCP"} /\ app # "ICMP" /\ app # "DHCP"
  BY DEF Apps, WellKnown, Transport
<1>3. /\ P = Packet(s, d, app, "request", Transport(app), e, WellKnown[app])
      /\ Q = Packet(d, s, app, "reply", Transport(app), WellKnown[app], e)
  BY <1>2 DEF BuildPacket, ClientPort
<1> HIDE DEF P, Q, e
<1>4. /\ P.src = s /\ P.dst = d /\ P.protocol = app /\ P.phase = "request"
      /\ P.l4 = Transport(app) /\ P.srcPort = e /\ P.dstPort = WellKnown[app]
  BY <1>3 DEF Packet
<1>5. /\ Q.src = d /\ Q.dst = s /\ Q.protocol = app /\ Q.phase = "reply"
      /\ Q.l4 = Transport(app) /\ Q.srcPort = WellKnown[app] /\ Q.dstPort = e
  BY <1>3 DEF Packet
<1>6. P \in Packets /\ Q \in Packets
  BY <1>1, <1>2, <1>3 DEF Packet, Packets
<1>7. app # "ARP" /\ Transport(app) # "ICMP"
  BY <1>2 DEF Apps
<1>8. AmbientFamily(P) = Family(app) /\ AmbientFamily(Q) = Family(app)
  <2>1. {P.srcPort, P.dstPort} = {e, WellKnown[app]} /\ {Q.srcPort, Q.dstPort} = {e, WellKnown[app]}
    BY <1>4, <1>5
  <2>2. AmbientFamily(P) = Family(app)
    BY <1>1, <1>4, <1>7, <2>1, PortsTell
  <2>3. AmbientFamily(Q) = Family(app)
    BY <1>1, <1>5, <1>7, <2>1, PortsTell
  <2> QED BY <2>2, <2>3
<1> QED BY <1>4, <1>5, <1>6, <1>8 DEF P, Q, Answers, Mirrors

LEMMA TcpPackets ==
  ASSUME NEW s \in Stations, NEW d \in Stations, NEW app \in Apps
  PROVE  LET P == BuildTcp(s, d, "request", app)
             Q == BuildTcp(d, s, "reply", app)
         IN  /\ Answers(P, Q, s, d)
             /\ AmbientFamily(P) = Family(app) /\ AmbientFamily(Q) = Family(app)
<1> DEFINE P == BuildTcp(s, d, "request", app)
           Q == BuildTcp(d, s, "reply", app)
           e == EphemeralPort(s)
<1>1. e \in Nat /\ e >= 49152
  BY ClientPorts
<1>2. WellKnown[app] \in Nat
  BY DEF Apps, WellKnown
<1>3. /\ P = Packet(s, d, "TCP", "request", "TCP", e, WellKnown[app])
      /\ Q = Packet(d, s, "TCP", "reply", "TCP", WellKnown[app], e)
  BY DEF BuildTcp, ServicePort
<1> HIDE DEF P, Q, e
<1>4. /\ P.src = s /\ P.dst = d /\ P.protocol = "TCP" /\ P.phase = "request"
      /\ P.l4 = "TCP" /\ P.srcPort = e /\ P.dstPort = WellKnown[app]
  BY <1>3 DEF Packet
<1>5. /\ Q.src = d /\ Q.dst = s /\ Q.protocol = "TCP" /\ Q.phase = "reply"
      /\ Q.l4 = "TCP" /\ Q.srcPort = WellKnown[app] /\ Q.dstPort = e
  BY <1>3 DEF Packet
<1>6. P \in Packets /\ Q \in Packets
  BY <1>1, <1>2, <1>3 DEF Packet, Packets
<1>8. AmbientFamily(P) = Family(app) /\ AmbientFamily(Q) = Family(app)
  <2>1. {P.srcPort, P.dstPort} = {e, WellKnown[app]} /\ {Q.srcPort, Q.dstPort} = {e, WellKnown[app]}
    BY <1>4, <1>5
  <2>2. AmbientFamily(P) = Family(app)
    BY <1>1, <1>4, <2>1, PortsTell
  <2>3. AmbientFamily(Q) = Family(app)
    BY <1>1, <1>5, <2>1, PortsTell
  <2> QED BY <2>2, <2>3
<1> QED BY <1>4, <1>5, <1>6, <1>8 DEF P, Q, Answers, Mirrors

LEMMA ArpPackets ==
  ASSUME NEW s \in Stations, NEW d \in Stations
  PROVE  LET P == BuildArpPacket(s, d, "request")
             Q == BuildArpPacket(d, s, "reply")
         IN  /\ Answers(P, Q, s, d)
             /\ P.protocol = "ARP" /\ Q.protocol = "ARP"
BY DEF BuildArpPacket, Packet, Packets, Answers, Mirrors, NoPorts

LEMMA PingPackets ==
  ASSUME NEW s \in Stations, NEW d \in Stations
  PROVE  LET P == BuildPacket(s, d, "ICMP", "request")
             Q == BuildPacket(d, s, "ICMP", "reply")
         IN  /\ Answers(P, Q, s, d)
             /\ AmbientFamily(P) = "icmp" /\ AmbientFamily(Q) = "icmp"
<1>1. Transport("ICMP") = "ICMP" /\ WellKnown["ICMP"] = 0
  BY DEF Transport, WellKnown
<1>2. /\ BuildPacket(s, d, "ICMP", "request") = Packet(s, d, "ICMP", "request", "ICMP", 0, 0)
      /\ BuildPacket(d, s, "ICMP", "reply") = Packet(d, s, "ICMP", "reply", "ICMP", 0, 0)
  BY <1>1 DEF BuildPacket, NoPorts
<1> QED BY <1>2 DEF Packet, Packets, Answers, Mirrors, AmbientFamily

-----------------------------------------------------------------------------
(* A packet of the conversation of src with dst, whose application is of   *)
(* family f: of the two, of src with a resolver, or of dst with a database. *)
Kin(p, src, dst, f) ==
  \/ p.protocol = "ARP"
  \/ {p.src, p.dst} = {src, dst} /\ AmbientFamily(p) = f
  \/ /\ AmbientFamily(p) = "dns"
     /\ \E n \in Stations \ {dst} : {p.src, p.dst} = {src, n}
  \/ /\ AmbientFamily(p) = "sql"
     /\ \E n \in Stations : Kind[n] = "database" /\ {p.src, p.dst} = {dst, n}

Talk(l, src, dst, f) ==
  Script(l) /\ \A i \in 1 .. Len(l) : Kin(l[i].packet, src, dst, f)

LEMMA TalksJoin ==
  ASSUME NEW x, NEW y, NEW src, NEW dst, NEW f, Talk(x, src, dst, f), Talk(y, src, dst, f)
  PROVE  Talk(x \o y, src, dst, f)
<1>1. /\ Script(x \o y)
      /\ \A i \in 1 .. Len(x \o y) :
           \/ \E j \in 1 .. Len(x) : (x \o y)[i] = x[j]
           \/ \E j \in 1 .. Len(y) : (x \o y)[i] = y[j]
  BY ScriptsJoin DEF Talk
<1>2. ASSUME NEW i \in 1 .. Len(x \o y)
      PROVE  Kin((x \o y)[i].packet, src, dst, f)
  <2>1. CASE \E j \in 1 .. Len(x) : (x \o y)[i] = x[j]
    BY <2>1 DEF Talk
  <2>2. CASE \E j \in 1 .. Len(y) : (x \o y)[i] = y[j]
    BY <2>2 DEF Talk
  <2> QED BY <1>1, <2>1, <2>2
<1> QED BY <1>1, <1>2 DEF Talk

LEMMA SilenceIsTalk ==
  ASSUME NEW src, NEW dst, NEW f
  PROVE  Talk(<<>>, src, dst, f)
BY NothingSaid DEF Talk

RouteOf(q, s, d) ==
  /\ q \in Seq(Stations) /\ Len(q) \in Nat /\ Len(q) >= 2
  /\ q[1] = s /\ q[Len(q)] = d

LEMMA LitRoutes ==
  ASSUME NEW s \in Stations, NEW d \in Stations, s # d, NEW q \in ShortestPaths(s, d, Lit)
  PROVE  RouteOf(q, s, d)
<1>1. IsFiniteSet(Lit) /\ \A w \in Lit : w \subseteq Stations
  <2>1. IsFiniteSet(Stations) /\ Cables \subseteq SUBSET Stations /\ Lit \subseteq Cables
    BY AmbientAssumption DEF Lit
  <2>2. IsFiniteSet(SUBSET Stations)
    BY <2>1, FS_SUBSET
  <2> QED BY <2>1, <2>2, FS_Subset
<1>2. /\ q \in Seq(Stations) /\ Len(q) \in Nat \ {0}
      /\ q[1] = s /\ q[Len(q)] = d
  BY <1>1, PathsFound
<1>3. Len(q) # 1
  BY <1>2
<1> QED BY <1>2, <1>3 DEF RouteOf

LEMMA ThereAndBack ==
  ASSUME NEW q, NEW s, NEW d, RouteOf(q, s, d), NEW P, NEW Q, Answers(P, Q, s, d)
  PROVE  /\ Script(<<Leg(q, P), Leg(Turned(q), Q)>>)
         /\ Leg(q, P) \in PacketLegs /\ Leg(q, P).packet = P
         /\ \A i \in 1 .. Len(<<Leg(q, P), Leg(Turned(q), Q)>>) :
              <<Leg(q, P), Leg(Turned(q), Q)>>[i].packet \in {P, Q}
<1> DEFINE a == Leg(q, P)
           b == Leg(Turned(q), Q)
<1>1. /\ Turned(q) \in Seq(Stations) /\ Len(Turned(q)) = Len(q)
  BY TurnedPath DEF RouteOf
<1>2. a \in PacketLegs /\ b \in PacketLegs /\ a.packet = P /\ b.packet = Q
  BY <1>1 DEF Leg, PacketLegs, RouteOf, Answers
<1> HIDE DEF a, b
<1>3. Script(<<a, b>>) /\ Len(<<a, b>>) = 2
  BY <1>2, TwoSaid DEF Answers
<1>4. \A i \in 1 .. 2 : <<a, b>>[i].packet \in {P, Q}
  <2>1. \A i \in 1 .. 2 : i = 1 \/ i = 2
    OBVIOUS
  <2> QED BY <1>2, <2>1
<1> QED BY <1>2, <1>3, <1>4 DEF a, b

(* An exchange of two devices, all of it of one family. *)
Spoken(l, s, d, f) ==
  /\ Script(l) /\ l # <<>>
  /\ \A i \in 1 .. Len(l) : /\ {l[i].packet.src, l[i].packet.dst} = {s, d}
                            /\ AmbientFamily(l[i].packet) = f

LEMMA AskTalks ==
  ASSUME NEW s \in Stations, NEW d \in Stations, NEW q, RouteOf(q, s, d), NEW app \in Apps
  PROVE  Spoken(Ask(q, app), s, d, Family(app))
<1> DEFINE P == BuildPacket(s, d, app, "request")
           Q == BuildPacket(d, s, app, "reply")
<1>1. Ask(q, app) = <<Leg(q, P), Leg(Turned(q), Q)>>
  BY DEF Ask, Exchange, RouteOf
<1>2. Answers(P, Q, s, d) /\ AmbientFamily(P) = Family(app) /\ AmbientFamily(Q) = Family(app)
  BY AppPackets
<1> HIDE DEF P, Q
<1>3. \A x \in {P, Q} : {x.src, x.dst} = {s, d} /\ AmbientFamily(x) = Family(app)
  BY <1>2 DEF Answers, Mirrors
<1>4. /\ Script(Ask(q, app))
      /\ \A i \in 1 .. Len(Ask(q, app)) : Ask(q, app)[i].packet \in {P, Q}
  BY <1>1, <1>2, ThereAndBack
<1> QED BY <1>1, <1>3, <1>4 DEF Spoken

LEMMA PingTalks ==
  ASSUME NEW s \in Stations, NEW d \in Stations, NEW q, RouteOf(q, s, d)
  PROVE  Spoken(Ask(q, "ICMP"), s, d, "icmp")
<1> DEFINE P == BuildPacket(s, d, "ICMP", "request")
           Q == BuildPacket(d, s, "ICMP", "reply")
<1>1. Ask(q, "ICMP") = <<Leg(q, P), Leg(Turned(q), Q)>>
  BY DEF Ask, Exchange, RouteOf
<1>2. Answers(P, Q, s, d) /\ AmbientFamily(P) = "icmp" /\ AmbientFamily(Q) = "icmp"
  BY PingPackets
<1> HIDE DEF P, Q
<1>3. /\ Script(Ask(q, "ICMP"))
      /\ \A i \in 1 .. Len(Ask(q, "ICMP")) : Ask(q, "ICMP")[i].packet \in {P, Q}
  BY <1>1, <1>2, ThereAndBack
<1>4. \A x \in {P, Q} : {x.src, x.dst} = {s, d} /\ AmbientFamily(x) = "icmp"
  BY <1>2 DEF Answers, Mirrors
<1>5. Ask(q, "ICMP") # <<>>
  BY <1>1
<1>6. \A i \in 1 .. Len(Ask(q, "ICMP")) :
        /\ {Ask(q, "ICMP")[i].packet.src, Ask(q, "ICMP")[i].packet.dst} = {s, d}
        /\ AmbientFamily(Ask(q, "ICMP")[i].packet) = "icmp"
  BY <1>3, <1>4
<1> QED BY <1>3, <1>5, <1>6 DEF Spoken

LEMMA ArpTalks ==
  ASSUME NEW s \in Stations, NEW d \in Stations, NEW q, RouteOf(q, s, d),
         NEW l \in Resolutions(q), NEW f
  PROVE  Talk(l, s, d, f)
<1>1. CASE l = <<>>
  BY <1>1, SilenceIsTalk
<1>2. CASE l # <<>>
  <2> DEFINE h == SubSeq(q, 1, 2)
  <2>1. l = Exchange(h, BuildArpPacket)
    BY <1>2 DEF Resolutions, Optional
  <2>2. /\ h \in Seq(Stations) /\ Len(h) = 2 /\ h[1] = q[1] /\ h[2] = q[2]
        /\ q[1] \in Stations /\ q[2] \in Stations
    BY DEF RouteOf
  <2> HIDE DEF h
  <2>3. RouteOf(h, q[1], q[2])
    BY <2>2 DEF RouteOf
  <2> DEFINE P == BuildArpPacket(q[1], q[2], "request")
             Q == BuildArpPacket(q[2], q[1], "reply")
  <2>4. l = <<Leg(h, P), Leg(Turned(h), Q)>>
    BY <2>1, <2>2 DEF Exchange
  <2>5. Answers(P, Q, q[1], q[2]) /\ P.protocol = "ARP" /\ Q.protocol = "ARP"
    BY <2>2, ArpPackets
  <2> HIDE DEF P, Q
  <2>6. Script(l) /\ \A i \in 1 .. Len(l) : l[i].packet \in {P, Q}
    BY <2>3, <2>4, <2>5, ThereAndBack
  <2> QED BY <2>5, <2>6 DEF Talk, Kin
<1> QED BY <1>1, <1>2

LEMMA TcpTalks ==
  ASSUME NEW s \in Stations, NEW d \in Stations, NEW q, RouteOf(q, s, d), NEW app \in Apps,
         NEW l \in Handshakes(q, app)
  PROVE  Talk(l, s, d, Family(app))
<1>1. CASE l = <<>>
  BY <1>1, SilenceIsTalk
<1>2. CASE l # <<>>
  <2> DEFINE P == BuildTcp(s, d, "request", app)
             Q == BuildTcp(d, s, "reply", app)
             syn == <<Leg(q, P), Leg(Turned(q), Q)>>
  <2>1. l = Append(syn, Leg(q, P))
    BY <1>2 DEF Handshakes, Optional, Exchange, RouteOf
  <2>2. Answers(P, Q, s, d) /\ AmbientFamily(P) = Family(app) /\ AmbientFamily(Q) = Family(app)
    BY TcpPackets
  <2> HIDE DEF P, Q
  <2>3. /\ Script(syn) /\ Leg(q, P) \in PacketLegs /\ Leg(q, P).packet = P
        /\ \A i \in 1 .. Len(syn) : syn[i].packet \in {P, Q}
    BY <2>2, ThereAndBack
  <2>4. \A x \in {P, Q} : Kin(x, s, d, Family(app))
    BY <2>2 DEF Answers, Mirrors, Kin
  <2> HIDE DEF syn
  <2>5. Talk(syn, s, d, Family(app))
    BY <2>3, <2>4 DEF Talk
  <2>6. Talk(<<Leg(q, P)>>, s, d, Family(app))
    <3>1. Script(<<Leg(q, P)>>) /\ Len(<<Leg(q, P)>>) = 1
      BY <2>2, <2>3, OneSaid DEF Answers
    <3>2. \A i \in 1 .. 1 : <<Leg(q, P)>>[i].packet = P
      BY <2>3
    <3> QED BY <2>4, <3>1, <3>2 DEF Talk
  <2>7. l = syn \o <<Leg(q, P)>>
    BY <2>1, <2>3 DEF Script
  <2> QED BY <2>5, <2>6, <2>7, TalksJoin
<1> QED BY <1>1, <1>2

LEMMA DnsTalks ==
  ASSUME NEW s \in On, NEW d \in On, NEW l \in Lookups(s, d), Kind[s] # "dns", NEW f
  PROVE  Talk(l, s, d, f)
<1>1. CASE l = <<>>
  BY <1>1, SilenceIsTalk
<1>2. CASE l # <<>>
  <2>1. PICK n \in On \ {d} :
          Kind[n] = "dns" /\ \E q \in ShortestPaths(s, n, Lit) : l = Ask(q, "DNS")
    BY <1>2 DEF Lookups, Optional
  <2>2. PICK q \in ShortestPaths(s, n, Lit) : l = Ask(q, "DNS")
    BY <2>1
  <2>3. s \in Stations /\ n \in Stations \ {d} /\ s # n
    BY <2>1 DEF On
  <2>4. RouteOf(q, s, n)
    BY <2>3, LitRoutes
  <2>5. "DNS" \in Apps /\ Family("DNS") = "dns"
    BY DEF Apps, Family
  <2>6. Spoken(Ask(q, "DNS"), s, n, Family("DNS"))
    BY <2>3, <2>4, <2>5, AskTalks
  <2>7. Spoken(l, s, n, "dns")
    BY <2>2, <2>5, <2>6
  <2> QED BY <2>3, <2>7 DEF Spoken, Talk, Kin
<1> QED BY <1>1, <1>2

LEMMA SqlTalks ==
  ASSUME NEW s, NEW d \in On, NEW l \in Backends(d), NEW f
  PROVE  Talk(l, s, d, f)
<1>1. CASE l = <<>>
  BY <1>1, SilenceIsTalk
<1>2. CASE l # <<>>
  <2>1. PICK n \in On \ {d} :
          Kind[n] = "database" /\ \E q \in ShortestPaths(d, n, Lit) : l = Ask(q, "SQL")
    BY <1>2 DEF Backends, Optional
  <2>2. PICK q \in ShortestPaths(d, n, Lit) : l = Ask(q, "SQL")
    BY <2>1
  <2>3. d \in Stations /\ n \in Stations /\ d # n
    BY <2>1 DEF On
  <2>4. RouteOf(q, d, n)
    BY <2>3, LitRoutes
  <2>5. "SQL" \in Apps /\ Family("SQL") = "sql"
    BY DEF Apps, Family
  <2>6. Spoken(Ask(q, "SQL"), d, n, Family("SQL"))
    BY <2>3, <2>4, <2>5, AskTalks
  <2>7. Spoken(l, d, n, "sql")
    BY <2>2, <2>5, <2>6
  <2> QED BY <2>1, <2>3, <2>7 DEF Spoken, Talk, Kin
<1> QED BY <1>1, <1>2

LEMMA ConversationTalks ==
  ASSUME NEW s \in On, Kind[s] \in Initiators, NEW d \in Destinations(s),
         NEW l \in Conversations(s, d)
  PROVE  l # <<>> /\ \E f : Talk(l, s, d, f)
<1>1. d \in On /\ d # s /\ s \in Stations /\ d \in Stations /\ Serves(d)
  BY DEF Destinations, On
<1> DEFINE app == Speaks(s, d)
<1>2. app \in Apps
  <2>1. \/ Kind[d] \in Web \/ Kind[d] \in FileServers \/ Kind[d] \in {"mailserver", "printer"}
    BY <1>1 DEF Serves
  <2> QED BY <2>1 DEF Speaks, Apps, Web, FileServers
<1>3. PICK q \in ShortestPaths(s, d, Lit) :
        \E look \in Lookups(s, d), arp \in Resolutions(q), syn \in Handshakes(q, app),
           sql \in Backends(d) : l = look \o arp \o syn \o Ask(q, app) \o sql
  BY DEF Conversations
<1>4. PICK look \in Lookups(s, d), arp \in Resolutions(q), syn \in Handshakes(q, app),
           sql \in Backends(d) : l = look \o arp \o syn \o Ask(q, app) \o sql
  BY <1>3
<1>5. RouteOf(q, s, d)
  BY <1>1, LitRoutes
<1> HIDE DEF app
<1> DEFINE f == Family(app)
<1>6. Talk(look, s, d, f) /\ Talk(arp, s, d, f) /\ Talk(syn, s, d, f) /\ Talk(sql, s, d, f)
  <2>1. Kind[s] # "dns"
    BY DEF Initiators
  <2> QED BY <1>1, <1>2, <1>5, <2>1, DnsTalks, ArpTalks, TcpTalks, SqlTalks
<1>7. Talk(Ask(q, app), s, d, f) /\ Ask(q, app) # <<>>
  <2>1. Spoken(Ask(q, app), s, d, f)
    BY <1>1, <1>2, <1>5, AskTalks
  <2> QED BY <2>1 DEF Spoken, Talk, Kin
<1> HIDE DEF f
<1> DEFINE a == look \o arp
           b == a \o syn
           c == b \o Ask(q, app)
<1>8. Talk(a, s, d, f)
  BY <1>6, TalksJoin
<1>9. Talk(b, s, d, f)
  <2> HIDE DEF a
  <2> QED BY <1>6, <1>8, TalksJoin
<1>10. Talk(c, s, d, f)
  <2> HIDE DEF b
  <2> QED BY <1>7, <1>9, TalksJoin
<1>11. Talk(c \o sql, s, d, f)
  <2> HIDE DEF c
  <2> QED BY <1>6, <1>10, TalksJoin
<1>12. l # <<>>
  <2>1. /\ Ask(q, app) \in Seq(PacketLegs) /\ Len(Ask(q, app)) # 0
        /\ b \in Seq(PacketLegs) /\ sql \in Seq(PacketLegs)
    <3> HIDE DEF b
    <3> QED BY <1>6, <1>7, <1>9 DEF Talk, Script
  <2>2. l = (b \o Ask(q, app)) \o sql
    BY <1>4
  <2> HIDE DEF b
  <2>3. Len(l) # 0
    BY <2>1, <2>2
  <2> QED BY <2>3
<1> QED BY <1>4, <1>11, <1>12

-----------------------------------------------------------------------------
(* A conversation under way: what is left of it is coherent by itself.      *)
Alike(l) ==
  \A i, j \in 1 .. Len(l) :
    LET p == l[i].packet
        q == l[j].packet
    IN  {p.src, p.dst} = {q.src, q.dst} /\ p.protocol # "ARP" /\ q.protocol # "ARP" =>
          AmbientFamily(p) = AmbientFamily(q)

Underway(c) ==
  /\ c = [legs |-> c.legs, hop |-> c.hop]
  /\ c.legs \in Seq(PacketLegs) /\ c.legs # <<>>
  /\ c.hop \in 1 .. Len(Head(c.legs).path) - 1
  /\ Mirrored(c.legs) /\ Alike(c.legs)

TrafficOK(bag) == FlightBag(bag) /\ \A c \in DOMAIN bag : Underway(c)

AmbientInv == TrafficOK(traffic) /\ InFlight(traffic) <= Limit

LEMMA KinAlike ==
  ASSUME NEW s, NEW d, s # d, Kind[s] # "database", NEW f, NEW p, NEW q,
         Kin(p, s, d, f), Kin(q, s, d, f), {p.src, p.dst} = {q.src, q.dst},
         p.protocol # "ARP", q.protocol # "ARP"
  PROVE  AmbientFamily(p) = AmbientFamily(q)
<1> DEFINE ends == {p.src, p.dst}
           Direct(e) == e = {s, d}
           Lookup(e) == \E n \in Stations \ {d} : e = {s, n}
           Backend(e) == \E n \in Stations : Kind[n] = "database" /\ e = {d, n}
<1>1. \/ Direct(ends) /\ AmbientFamily(p) = f
      \/ Lookup(ends) /\ AmbientFamily(p) = "dns"
      \/ Backend(ends) /\ AmbientFamily(p) = "sql"
  BY DEF Kin
<1>2. \/ Direct(ends) /\ AmbientFamily(q) = f
      \/ Lookup(ends) /\ AmbientFamily(q) = "dns"
      \/ Backend(ends) /\ AmbientFamily(q) = "sql"
  BY DEF Kin
<1> HIDE DEF ends
<1>3. ~ (Direct(ends) /\ Lookup(ends))
  <2>1. Direct(ends) => d \in ends
    OBVIOUS
  <2>2. Lookup(ends) => d \notin ends
    OBVIOUS
  <2> QED BY <2>1, <2>2
<1>4. ~ (Direct(ends) /\ Backend(ends))
  <2>1. Direct(ends) => s \in ends
    OBVIOUS
  <2>2. Backend(ends) => s \notin ends
    OBVIOUS
  <2> QED BY <2>1, <2>2
<1>5. ~ (Lookup(ends) /\ Backend(ends))
  <2>1. Lookup(ends) => d \notin ends
    OBVIOUS
  <2>2. Backend(ends) => d \in ends
    OBVIOUS
  <2> QED BY <2>1, <2>2
<1> HIDE DEF Direct, Lookup, Backend
<1> QED BY <1>1, <1>2, <1>3, <1>4, <1>5

LEMMA BegunUnderway ==
  ASSUME NEW l \in Seq(PacketLegs), l # <<>>, Mirrored(l), Alike(l)
  PROVE  Underway(Conversation(l))
<1>1. Head(l) \in PacketLegs
  OBVIOUS
<1>2. Len(Head(l).path) \in Nat /\ Len(Head(l).path) >= 2
  BY <1>1 DEF PacketLegs
<1>3. 1 \in 1 .. Len(Head(l).path) - 1
  BY <1>2
<1> QED BY <1>3 DEF Underway, Conversation

LEMMA SessionUnderway ==
  ASSUME NEW l \in Sessions, l # <<>>
  PROVE  Underway(Conversation(l))
<1>1. PICK s \in On : /\ Kind[s] \in Initiators
                      /\ \E d \in Destinations(s) : l \in Conversations(s, d)
  BY DEF Sessions
<1>2. PICK d \in Destinations(s) : l \in Conversations(s, d)
  BY <1>1
<1>3. PICK f : Talk(l, s, d, f)
  BY <1>1, <1>2, ConversationTalks
<1>4. s # d /\ Kind[s] # "database"
  BY <1>1 DEF Destinations, Initiators
<1>5. Alike(l)
  <2>1. SUFFICES ASSUME NEW i \in 1 .. Len(l), NEW j \in 1 .. Len(l),
                        {l[i].packet.src, l[i].packet.dst} = {l[j].packet.src, l[j].packet.dst},
                        l[i].packet.protocol # "ARP", l[j].packet.protocol # "ARP"
                 PROVE  AmbientFamily(l[i].packet) = AmbientFamily(l[j].packet)
    BY DEF Alike
  <2> DEFINE p == l[i].packet
             q == l[j].packet
  <2>2. Kin(p, s, d, f) /\ Kin(q, s, d, f)
    BY <1>3 DEF Talk
  <2>3. {p.src, p.dst} = {q.src, q.dst} /\ p.protocol # "ARP" /\ q.protocol # "ARP"
    BY <2>1
  <2> HIDE DEF p, q
  <2>4. AmbientFamily(p) = AmbientFamily(q)
    BY <1>4, <2>2, <2>3, KinAlike
  <2> QED BY <2>4 DEF p, q
<1>6. l \in Seq(PacketLegs) /\ Mirrored(l)
  BY <1>3 DEF Talk, Script
<1> QED BY <1>5, <1>6, BegunUnderway

LEMMA PingUnderway ==
  ASSUME NEW l \in Pings
  PROVE  Underway(Conversation(l))
<1>1. PICK s \in On : \E d \in On \ {s} : \E q \in ShortestPaths(s, d, Lit) : l = Ask(q, "ICMP")
  BY DEF Pings
<1>2. PICK d \in On \ {s} : \E q \in ShortestPaths(s, d, Lit) : l = Ask(q, "ICMP")
  BY <1>1
<1>3. PICK q \in ShortestPaths(s, d, Lit) : l = Ask(q, "ICMP")
  BY <1>2
<1>4. s \in Stations /\ d \in Stations /\ s # d
  BY DEF On
<1>5. RouteOf(q, s, d)
  BY <1>4, LitRoutes
<1>6. Spoken(Ask(q, "ICMP"), s, d, "icmp")
  BY <1>4, <1>5, PingTalks
<1>7. Spoken(l, s, d, "icmp")
  BY <1>3, <1>6
<1>8. l \in Seq(PacketLegs) /\ l # <<>> /\ Mirrored(l) /\ Alike(l)
  BY <1>7 DEF Spoken, Script, Alike
<1> QED BY <1>8, BegunUnderway

LEMMA LimitIs ==
  /\ Limit \in Nat /\ Cap \in Nat /\ Cap + 1 <= Limit
  /\ \A k \in Bursts : k \in Nat /\ Cap + k <= Limit
<1>1. PICK u \in Nat : \A k \in Bursts : k <= u
  BY AmbientAssumption, FiniteBounded
<1>2. Bursts \in SUBSET (0 .. u) /\ Bursts # {}
  BY <1>1, AmbientAssumption
<1>3. Max(Bursts) \in Bursts /\ \A k \in Bursts : Max(Bursts) >= k
  BY <1>2, GreatestIsIn
<1> DEFINE most == CHOOSE b \in Bursts : \A k \in Bursts : k <= b
<1>4. \A k \in Bursts : k <= Max(Bursts)
  BY <1>2, <1>3
<1>5. most \in Bursts /\ \A k \in Bursts : k <= most
  BY <1>3, <1>4
<1>6. Limit = Cap + most
  BY DEF Limit
<1> HIDE DEF most
<1> QED BY <1>5, <1>6, AmbientAssumption

LEMMA AmbientStarts == AmbientInit => AmbientInv
BY NoneInFlight, LimitIs DEF AmbientInit, AmbientInv, TrafficOK

LEMMA TickKeeps ==
  ASSUME AmbientInv, AmbientTick
  PROVE  AmbientInv'
<1>1. PICK k \in Bursts : \E chosen \in [1 .. k -> Sessions] :
        \/ traffic' = traffic (+) Burst(chosen)
        \/ /\ InFlight(traffic (+) Burst(chosen)) <= Cap
           /\ \E s \in Pings : traffic' = traffic (+) Burst(chosen) (+) Begin(s)
  BY DEF AmbientTick
<1>2. PICK chosen \in [1 .. k -> Sessions] :
        \/ traffic' = traffic (+) Burst(chosen)
        \/ /\ InFlight(traffic (+) Burst(chosen)) <= Cap
           /\ \E s \in Pings : traffic' = traffic (+) Burst(chosen) (+) Begin(s)
  BY <1>1
<1> DEFINE B == Burst(chosen)
           busy == traffic (+) B
<1>3. /\ FlightBag(B) /\ InFlight(B) <= k
      /\ DOMAIN B \subseteq {Conversation(s) : s \in Sessions \ {<<>>}}
  BY LimitIs, BurstBounded
<1>4. \A c \in DOMAIN B : Underway(c)
  BY <1>3, SessionUnderway
<1> HIDE DEF B
<1>5. /\ FlightBag(traffic) /\ \A c \in DOMAIN traffic : Underway(c)
  BY DEF AmbientInv, TrafficOK
<1>6. /\ FlightBag(busy) /\ DOMAIN busy = DOMAIN traffic \cup DOMAIN B
      /\ InFlight(traffic) \in Nat /\ InFlight(B) \in Nat /\ InFlight(busy) \in Nat
      /\ InFlight(busy) <= InFlight(traffic) + InFlight(B)
  BY <1>3, <1>5, JoinedFlights
<1> HIDE DEF busy
<1>7. \A c \in DOMAIN busy : Underway(c)
  BY <1>4, <1>5, <1>6
<1>8. InFlight(traffic) <= Cap
  BY DEF AmbientTick, BelowCap
<1>9. InFlight(busy) <= Limit
  BY <1>3, <1>6, <1>8, LimitIs
<1>10. CASE traffic' = busy
  <2>1. TrafficOK(busy)
    BY <1>6, <1>7 DEF TrafficOK
  <2>2. TrafficOK(traffic)' /\ InFlight(traffic)' <= Limit
    BY <2>1, <1>9, <1>10 DEF TrafficOK, FlightBag, InFlight, Copies, BagToSet
  <2> QED BY <2>2 DEF AmbientInv, Limit
<1>11. CASE InFlight(busy) <= Cap /\ \E s \in Pings : traffic' = busy (+) Begin(s)
  <2>1. PICK s \in Pings : traffic' = busy (+) Begin(s)
    BY <1>11
  <2> DEFINE one == Begin(s)
             more == busy (+) one
  <2>2. FlightBag(one) /\ InFlight(one) = 1 /\ DOMAIN one = {Conversation(s)}
    BY OneInFlight DEF Begin
  <2>3. Underway(Conversation(s))
    BY PingUnderway
  <2> HIDE DEF one
  <2>4. /\ FlightBag(more) /\ DOMAIN more = DOMAIN busy \cup DOMAIN one
        /\ InFlight(more) \in Nat /\ InFlight(more) <= InFlight(busy) + InFlight(one)
    BY <1>6, <2>2, JoinedFlights
  <2>5. traffic' = more
    BY <2>1 DEF one
  <2> HIDE DEF more
  <2>6. TrafficOK(more) /\ InFlight(more) <= Limit
    <3>1. InFlight(more) <= Limit
      BY <1>6, <1>11, <2>2, <2>4, LimitIs
    <3> QED BY <1>7, <2>2, <2>3, <2>4, <3>1 DEF TrafficOK
  <2>7. TrafficOK(traffic)' /\ InFlight(traffic)' <= Limit
    BY <2>5, <2>6 DEF TrafficOK, FlightBag, InFlight, Copies, BagToSet
  <2> QED BY <2>7 DEF AmbientInv, Limit
<1> QED BY <1>2, <1>10, <1>11 DEF busy, B

LEMMA ReplaceKeeps ==
  ASSUME AmbientInv, NEW c \in DOMAIN traffic, NEW next, Replace(c, next),
         FlightBag(next), InFlight(next) <= 1, \A x \in DOMAIN next : Underway(x)
  PROVE  AmbientInv'
<1> DEFINE rest == traffic (-) SetToBag({c})
           all == rest (+) next
<1>1. /\ FlightBag(traffic) /\ \A x \in DOMAIN traffic : Underway(x)
      /\ InFlight(traffic) <= Limit
  BY DEF AmbientInv, TrafficOK
<1>2. /\ FlightBag(rest) /\ DOMAIN rest \subseteq DOMAIN traffic
      /\ InFlight(traffic) \in Nat /\ InFlight(rest) = InFlight(traffic) - 1
  BY <1>1, OneLanded
<1> HIDE DEF rest
<1>3. /\ FlightBag(all) /\ DOMAIN all = DOMAIN rest \cup DOMAIN next
      /\ InFlight(rest) \in Nat /\ InFlight(next) \in Nat /\ InFlight(all) \in Nat
      /\ InFlight(all) <= InFlight(rest) + InFlight(next)
  BY <1>2, JoinedFlights
<1>4. traffic' = all
  BY DEF Replace, rest
<1> HIDE DEF all
<1>5. InFlight(all) <= Limit
  BY <1>1, <1>2, <1>3, LimitIs
<1>6. TrafficOK(all)
  BY <1>1, <1>2, <1>3 DEF TrafficOK
<1>7. TrafficOK(traffic)' /\ InFlight(traffic)' <= Limit
  BY <1>4, <1>5, <1>6 DEF TrafficOK, FlightBag, InFlight, Copies, BagToSet
<1> QED BY <1>7 DEF AmbientInv, Limit

LEMMA FrameKeeps ==
  ASSUME AmbientInv, Frame
  PROVE  AmbientInv'
<1>1. PICK c \in DOMAIN traffic : Lost(c) \/ Moves(c)
  BY DEF Frame, BagToSet
<1>2. Underway(c)
  BY DEF AmbientInv, TrafficOK
<1>3. /\ FlightBag(EmptyBag) /\ InFlight(EmptyBag) <= 1
      /\ \A x \in DOMAIN EmptyBag : Underway(x)
  <2>1. 0 <= 1
    OBVIOUS
  <2> QED BY <2>1, NoneInFlight
<1>4. CASE Lost(c)
  <2>1. Replace(c, EmptyBag)
    BY <1>4 DEF Lost
  <2> QED BY <2>1, <1>3, ReplaceKeeps
<1>5. CASE Moves(c)
  <2>1. CASE Replace(c, EmptyBag)
    BY <2>1, <1>3, ReplaceKeeps
  <2> DEFINE x == [c EXCEPT !.hop = @ + 1]
             y == Conversation(Tail(c.legs))
  <2>2. \/ Replace(c, EmptyBag)
        \/ c.hop < Len(Head(c.legs).path) - 1 /\ Replace(c, SetToBag({x}))
        \/ Tail(c.legs) # <<>> /\ Replace(c, SetToBag({y}))
    BY <1>5 DEF Moves, Following, Begin
  <2>3. ASSUME NEW z, Underway(z), Replace(c, SetToBag({z}))
        PROVE  AmbientInv'
    <3> DEFINE one == SetToBag({z})
    <3>1. FlightBag(one) /\ InFlight(one) <= 1 /\ \A w \in DOMAIN one : Underway(w)
      <4>1. FlightBag(one) /\ InFlight(one) = 1 /\ DOMAIN one = {z}
        BY OneInFlight
      <4> HIDE DEF one
      <4>2. InFlight(one) <= 1
        BY <4>1
      <4> QED BY <2>3, <4>1, <4>2
    <3>2. Replace(c, one)
      BY <2>3
    <3> HIDE DEF one
    <3> QED BY <3>1, <3>2, ReplaceKeeps
  <2>4. CASE c.hop < Len(Head(c.legs).path) - 1 /\ Replace(c, SetToBag({x}))
    <3>1. x = [legs |-> c.legs, hop |-> c.hop + 1] /\ x.legs = c.legs /\ x.hop = c.hop + 1
      BY <1>2 DEF Underway
    <3>2. Head(c.legs) \in PacketLegs
      BY <1>2 DEF Underway
    <3>3. Len(Head(c.legs).path) \in Nat
      BY <3>2 DEF PacketLegs
    <3>4. c.hop + 1 \in 1 .. Len(Head(c.legs).path) - 1
      BY <1>2, <2>4, <3>3 DEF Underway
    <3> HIDE DEF x
    <3>5. Underway(x)
      BY <1>2, <3>1, <3>4 DEF Underway
    <3> QED BY <2>3, <2>4, <3>5
  <2>5. CASE Tail(c.legs) # <<>> /\ Replace(c, SetToBag({y}))
    <3> DEFINE l == c.legs
               t == Tail(l)
    <3>1. l \in Seq(PacketLegs) /\ l # <<>> /\ Mirrored(l) /\ Alike(l)
      BY <1>2 DEF Underway
    <3> HIDE DEF l
    <3>2. /\ t \in Seq(PacketLegs) /\ Mirrored(t) /\ Len(t) = Len(l) - 1
          /\ \A i \in 1 .. Len(l) - 1 : t[i] = l[i + 1]
      BY <3>1, RestMirrored
    <3> HIDE DEF t
    <3>3. \A i \in 1 .. Len(t) : t[i] = l[i + 1] /\ i + 1 \in 1 .. Len(l)
      <4>1. Len(l) \in Nat
        BY <3>1
      <4> QED BY <4>1, <3>2
    <3>4. Alike(t)
      BY <3>1, <3>3 DEF Alike
    <3>5. y = Conversation(t) /\ t # <<>>
      BY <2>5 DEF l, t
    <3>6. Underway(y)
      BY <3>2, <3>4, <3>5, BegunUnderway
    <3> QED BY <2>3, <2>5, <3>6
  <2> QED BY <2>1, <2>2, <2>4, <2>5
<1> QED BY <1>1, <1>4, <1>5

LEMMA AmbientCoherent == AmbientInv => ConversationsCoherent
<1> SUFFICES ASSUME AmbientInv PROVE ConversationsCoherent
  OBVIOUS
<1>1. \A c \in BagToSet(traffic) : Underway(c)
  BY DEF AmbientInv, TrafficOK, BagToSet
<1>2. TrafficBounded
  BY <1>1 DEF AmbientInv, TrafficBounded, Underway
<1>3. RepliesMirror
  BY <1>1 DEF RepliesMirror, Underway, Mirrored, Mirrors
<1>4. FamiliesKept
  BY <1>1 DEF FamiliesKept, Underway, Alike
<1> QED BY <1>2, <1>3, <1>4 DEF ConversationsCoherent

(* What flies stays within the cap and one burst, replies come back between *)
(* the same ports, and a connection is of one family, for any topology,     *)
(* hashes of ids, cap and bursts, whatever fails.                           *)
THEOREM ConversationsHold == AmbientSpec => []ConversationsCoherent
<1>1. ASSUME AmbientInv, [AmbientNext]_ambientVars
      PROVE  AmbientInv'
  <2>1. CASE AmbientTick
    BY <1>1, <2>1, TickKeeps
  <2>2. CASE Frame
    BY <1>1, <2>2, FrameKeeps
  <2>3. CASE Fault \/ LiveButton \/ Mode \/ UNCHANGED ambientVars
    <3>1. traffic' = traffic
      BY <2>3 DEF Fault, LiveButton, Mode, ambientVars
    <3> QED BY <1>1, <3>1 DEF AmbientInv, TrafficOK, FlightBag, InFlight, Copies, BagToSet, Limit
  <2> QED BY <1>1, <2>1, <2>2, <2>3 DEF AmbientNext
<1> QED BY <1>1, AmbientStarts, AmbientCoherent, PTL DEF AmbientSpec
=============================================================================
