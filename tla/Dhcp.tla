-------------------------------- MODULE Dhcp --------------------------------
(***************************************************************************)
(* Automatic addressing in the live simulation of the network builder      *)
(* (client/src/pages/network/network-builder-page.tsx).                    *)
(*                                                                         *)
(* A powered host without an address sends a DHCP Discover as a packet     *)
(* that flies wire by wire to the server; Offer, Request and ACK follow,   *)
(* each when the packet before has arrived.  A packet whose wire goes dead *)
(* is dropped, and its exchange given up.  The host's address is reserved  *)
(* meanwhile.                                                              *)
(*                                                                         *)
(* React keeps two copies of the canvas: what the callbacks have asked for *)
(* (canvas) and what was rendered last (seen), which is what nodesRef and  *)
(* edgesRef show to timers and callbacks.  The properties panel keeps a    *)
(* third, of one node: the configuration it was opened with (draft).       *)
(***************************************************************************)
EXTENDS Integers, FiniteSets, Sequences, Paths

CONSTANTS
  Hosts,        \* devices that ask for an address (isDhcpClient)
  Routers,      \* devices that a lease gives the gateway address
  Server,       \* the DHCP server
  Wires,        \* links of the topology
  PoolStart, PoolEnd,
  Gateway,      \* address of the gateway, outside the pool
  NoAddr,       \* an empty address
  None,         \* no panel is open
  Starts,       \* the devices that are on in a saved topology
  Touched,      \* bound: the devices that the user works with
  Typed,        \* bound: the addresses that the user types
  MaxEdits      \* bound: what the user does

ServerAddr == Gateway + 1
Nodes == Hosts \cup Routers \cup {Server}
Pool == PoolStart .. PoolEnd
Addrs == Pool \cup {Gateway, ServerAddr}

ASSUME DhcpAssumption ==
  /\ IsFiniteSet(Hosts) /\ IsFiniteSet(Routers) /\ IsFiniteSet(Wires)
  /\ Hosts \cap Routers = {} /\ Server \notin Hosts \cup Routers
  /\ \A w \in Wires : w \subseteq Nodes /\ Cardinality(w) = 2
  /\ PoolStart \in Nat /\ PoolEnd \in Nat /\ Gateway \in Nat
  /\ {Gateway, ServerAddr} \cap Pool = {}
  /\ NoAddr \notin Addrs /\ MaxEdits \in Nat
  /\ Typed \subseteq Addrs \cup {NoAddr} /\ Touched \subseteq Nodes
  /\ Starts \subseteq SUBSET Nodes
  /\ None \notin [node : Nodes, on : BOOLEAN, ip : Addrs \cup {NoAddr}]

VARIABLES
  canvas,       \* the topology, all state updates applied
  seen,         \* the topology as rendered last: nodesRef, edgesRef
  inProgress,   \* dhcpInProgressRef
  reserved,     \* reservedIpsRef
  flights,      \* flightsRef: the DHCP packets under way
  waking,       \* hosts with a power-on timer
  frozen,       \* the packet analyzer holds the world
  draft,        \* the properties panel's copy of a node
  edits,        \* bound: number of user actions so far
  tainted       \* history: addresses given out of the exchanges' control

dhcpVars == <<canvas, seen, inProgress, reserved, flights, waking, frozen,
              draft, edits, tainted>>

-----------------------------------------------------------------------------
(* power: nodes that are on; up: links that exist and are not down. *)
Canvas == [nodes : SUBSET Nodes, on : SUBSET Nodes,
           ip : [Nodes -> Addrs \cup {NoAddr}], up : SUBSET Wires]

Legs == 1 .. 4          \* Discover, Offer, Request, ACK

(* A packet knows what its exchange knew when it began. *)
IsFlight(f) ==
  /\ f.host \in Hosts /\ f.ip \in Pool /\ f.routers \subseteq Routers
  /\ f.leg \in Legs
  /\ f.path \in Seq(Nodes) /\ f.hop \in 1 .. Len(f.path) - 1

Draft == [node : Nodes, on : BOOLEAN, ip : Addrs \cup {NoAddr}]

DhcpInit ==
  /\ \E on \in Starts :
       canvas = [nodes |-> Nodes, on |-> on, up |-> Wires, ip |-> [n \in Nodes |-> NoAddr]]
  /\ seen = canvas
  /\ inProgress = {} /\ reserved = {} /\ flights = {} /\ waking = {}
  /\ frozen = FALSE /\ draft = None /\ edits = 0 /\ tainted = {}

-----------------------------------------------------------------------------
(* Only wires that are up and powered at both ends carry packets. *)
Usable(c) == {w \in c.up : w \subseteq c.on}

InUse(c) == {c.ip[n] : n \in c.nodes} \ {NoAddr}

(* Faulty variant: the addresses of other exchanges are not looked at. *)
FreeOnCanvas(c) == Pool \ InUse(c)

FreeAddresses(c) == Pool \ (InUse(c) \cup reserved)

NeedsAddress(c, h) == h \in c.on /\ c.ip[h] = NoAddr

FindsServer(c, h) == Server \in Reachable(h, Usable(c))

CanStart(h) ==
  /\ h \notin inProgress
  /\ NeedsAddress(seen, h)
  /\ FreeAddresses(seen) # {}
  /\ FindsServer(seen, h)

(* startDhcpForHost: reserve the lowest free address and send a Discover.  *)
Start(h) ==
  LET a == CHOOSE a \in FreeAddresses(seen) :
             \A b \in FreeAddresses(seen) : a <= b
  IN  /\ inProgress' = inProgress \cup {h}
      /\ reserved' = reserved \cup {a}
      /\ tainted' = IF a \in InUse(canvas) THEN tainted \cup {a} ELSE tainted
      /\ \E p \in ShortestPaths(h, Server, Usable(seen)) :
           flights' = flights \cup
             {[host |-> h, ip |-> a, path |-> p, leg |-> 1, hop |-> 1,
               routers |-> Routers \cap Reachable(h, Usable(seen))]}

(* The simulation clock, and each change of the canvas, starts an exchange *)
(* for every host in need, one after the other.  (The two nodes and the    *)
(* usable wire it asks for are there when a host finds the server.)        *)
SimTick(h) ==
  /\ ~ frozen
  /\ CanStart(h)
  /\ Start(h)
  /\ UNCHANGED <<canvas, seen, waking, frozen, draft, edits>>

(* The timer set by powering a device on; it does not ask for frozen. *)
Wake(h) ==
  /\ h \in waking
  /\ waking' = waking \ {h}
  /\ IF CanStart(h) THEN Start(h)
     ELSE UNCHANGED <<inProgress, reserved, flights, tainted>>
  /\ UNCHANGED <<canvas, seen, frozen, draft, edits>>

-----------------------------------------------------------------------------
(* runFrame, for one packet. *)

Crossing(f) == {f.path[f.hop], f.path[f.hop + 1]}

Alive(f) == Crossing(f) \in Usable(seen)

Onward(f) == [f EXCEPT !.hop = @ + 1]

LastHop(f) == f.hop = Len(f.path) - 1

Release(f) ==
  /\ inProgress' = inProgress \ {f.host}
  /\ reserved' = reserved \ {f.ip}

(* Faulty variant: an exchange that is given up keeps its address. *)
DropOnly(f) ==
  /\ flights' = flights \ {f}
  /\ inProgress' = inProgress \ {f.host}
  /\ UNCHANGED reserved

(* Faulty variant: the host stays marked as busy. *)
DropUnfinished(f) ==
  /\ flights' = flights \ {f}
  /\ reserved' = reserved \ {f.ip}
  /\ UNCHANGED inProgress

(* onAbort *)
Drop(f) ==
  /\ flights' = flights \ {f}
  /\ Release(f)

DropDead(f) ==
  /\ ~ Alive(f)
  /\ Drop(f)
  /\ UNCHANGED <<canvas, seen, waking, frozen, draft, edits, tainted>>

(* On to the next wire, if that one is not dead. *)
Fly(f) ==
  /\ Alive(f) /\ ~ frozen /\ ~ LastHop(f)
  /\ IF Alive(Onward(f))
     THEN /\ flights' = (flights \ {f}) \cup {Onward(f)}
          /\ UNCHANGED <<inProgress, reserved>>
     ELSE Drop(f)
  /\ UNCHANGED <<canvas, seen, waking, frozen, draft, edits, tainted>>

Answered(f) == f.leg < 4

(* onDone of the first three packets: the next one goes the other way. *)
NextLeg(f) ==
  /\ Alive(f) /\ ~ frozen /\ LastHop(f) /\ Answered(f)
  /\ flights' = (flights \ {f}) \cup
       {[f EXCEPT !.leg = @ + 1, !.hop = 1, !.path = Turned(f.path)]}
  /\ UNCHANGED <<canvas, seen, inProgress, reserved, waking, frozen, draft,
                 edits, tainted>>

(* applyLease: the host gets its address; routers that it could reach when *)
(* the exchange began, and the server, get theirs if they have none yet.   *)
Leased(f) ==
  [n \in Nodes |->
    CASE n \in canvas.nodes /\ n = f.host -> f.ip
      [] n \in canvas.nodes \cap f.routers /\ canvas.ip[n] = NoAddr -> Gateway
      [] n \in canvas.nodes \cap {Server} /\ canvas.ip[n] = NoAddr -> ServerAddr
      [] OTHER -> canvas.ip[n]]

Ack(f) ==
  /\ Alive(f) /\ ~ frozen /\ LastHop(f) /\ ~ Answered(f)
  /\ flights' = flights \ {f}
  /\ Release(f)
  /\ canvas' = [canvas EXCEPT !.ip = Leased(f)]
  /\ UNCHANGED <<seen, waking, frozen, draft, edits, tainted>>

FlightStep(f) == DropDead(f) \/ Fly(f) \/ NextLeg(f) \/ Ack(f)

Render ==
  /\ seen # canvas
  /\ seen' = canvas
  /\ UNCHANGED <<canvas, inProgress, reserved, flights, waking, frozen, draft,
                 edits, tainted>>

-----------------------------------------------------------------------------
(* The user. *)

Edit == edits < MaxEdits /\ edits' = edits + 1

(* Every edit of a node replaces its whole configuration. *)
SetConfig(n, on, a) ==
  /\ canvas' = IF n \notin canvas.nodes THEN canvas
               ELSE [canvas EXCEPT
                       !.on = IF on THEN @ \cup {n} ELSE @ \ {n},
                       !.ip[n] = a]
  /\ tainted' = tainted \cup ({a} \ {NoAddr, canvas.ip[n]})

(* The power button: the rendered configuration with the power switched. *)
Toggle(n) ==
  /\ Edit
  /\ n \in seen.nodes
  /\ SetConfig(n, n \notin seen.on, seen.ip[n])
  /\ waking' = IF n \in Hosts \ seen.on THEN waking \cup {n} ELSE waking
  /\ UNCHANGED <<seen, inProgress, reserved, flights, frozen, draft>>

OpenPanel(n) ==
  /\ Edit
  /\ draft = None
  /\ n \in seen.nodes
  /\ draft' = [node |-> n, on |-> n \in seen.on, ip |-> seen.ip[n]]
  /\ UNCHANGED <<canvas, seen, inProgress, reserved, flights, waking, frozen, tainted>>

(* Typing into the panel, the address or another field (a as it was). *)
EditDraft(a) ==
  /\ Edit
  /\ draft # None /\ a \in Typed \cup {draft.ip}
  /\ draft' = [draft EXCEPT !.ip = a]
  /\ SetConfig(draft.node, draft.on, a)
  /\ UNCHANGED <<seen, inProgress, reserved, flights, waking, frozen>>

ClosePanel ==
  /\ draft # None
  /\ draft' = None
  /\ UNCHANGED <<canvas, seen, inProgress, reserved, flights, waking, frozen,
                 edits, tainted>>

(* Link status; a deleted link is one that is not brought up again. *)
SetLink(w) ==
  /\ Edit
  /\ w \subseteq seen.nodes /\ w \cap Touched # {}
  /\ canvas' = [canvas EXCEPT
       !.up = IF w \in seen.up THEN @ \ {w} ELSE @ \cup {w}]
  /\ UNCHANGED <<seen, inProgress, reserved, flights, waking, frozen, draft,
                 tainted>>

DeleteNode(n) ==
  /\ Edit
  /\ n \in seen.nodes
  /\ canvas' = [nodes |-> canvas.nodes \ {n}, on |-> canvas.on \ {n},
                ip |-> [canvas.ip EXCEPT ![n] = NoAddr],
                up |-> {w \in canvas.up : n \notin w}]
  /\ draft' = IF draft # None /\ draft.node = n THEN None ELSE draft
  /\ UNCHANGED <<seen, inProgress, reserved, flights, waking, frozen, tainted>>

Freeze ==
  /\ Edit
  /\ frozen' = ~ frozen
  /\ UNCHANGED <<canvas, seen, inProgress, reserved, flights, waking, draft,
                 tainted>>

-----------------------------------------------------------------------------
DhcpNext ==
  \/ \E h \in Hosts : SimTick(h) \/ Wake(h)
  \/ \E f \in flights : FlightStep(f)
  \/ Render
  \/ \E n \in Touched : Toggle(n) \/ OpenPanel(n) \/ DeleteNode(n)
  \/ \E a \in Addrs \cup {NoAddr} : EditDraft(a)
  \/ ClosePanel
  \/ \E w \in Wires : SetLink(w)
  \/ Freeze

FlightOf(h) == \E f \in flights : f.host = h /\ FlightStep(f)

(* The frame loop runs while there are packets, the clock reschedules      *)
(* itself, and React renders what was set.  The user does nothing for sure. *)
DhcpFairness ==
  /\ WF_dhcpVars(Render)
  /\ \A h \in Hosts : WF_dhcpVars(SimTick(h)) /\ WF_dhcpVars(FlightOf(h))

DhcpSpec == DhcpInit /\ [][DhcpNext]_dhcpVars
DhcpFairSpec == DhcpSpec /\ DhcpFairness

-----------------------------------------------------------------------------
DhcpTypeOK ==
  /\ canvas \in Canvas /\ seen \in Canvas
  /\ canvas.on \subseteq canvas.nodes /\ seen.on \subseteq seen.nodes
  /\ inProgress \subseteq Hosts /\ reserved \subseteq Pool
  /\ \A f \in flights : IsFlight(f)
  /\ waking \subseteq Hosts
  /\ frozen \in BOOLEAN
  /\ draft \in Draft \cup {None}
  /\ edits \in 0 .. MaxEdits
  /\ tainted \subseteq Addrs

(* Each host that counts as busy, and each reserved address, belongs to    *)
(* exactly one packet under way: every way an exchange ends gives back     *)
(* both, and once.                                                         *)
ReservationsHeld ==
  /\ DhcpTypeOK
  /\ inProgress = {f.host : f \in flights}
  /\ reserved = {f.ip : f \in flights}
  /\ \A f, g \in flights : f.host = g.host \/ f.ip = g.ip => f = g

(* No two hosts have the same address, unless an edit wrote it or it was   *)
(* handed out while a lease of it waited for its render.                   *)
LeasesUnique ==
  \A g, h \in Hosts :
    g # h /\ canvas.ip[g] = canvas.ip[h] => canvas.ip[g] \in tainted \cup {NoAddr}

(* A host that stays on, reaches the server and finds a free address does  *)
(* not wait for ever, whatever became of its earlier exchanges.            *)
Waiting(h) ==
  /\ ~ frozen
  /\ NeedsAddress(canvas, h)
  /\ Pool \ InUse(canvas) # {}
  /\ FindsServer(canvas, h)

HostsAddressed == \A h \in Hosts : []<> ~ Waiting(h)
=============================================================================
