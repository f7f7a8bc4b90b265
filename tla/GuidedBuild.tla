---------------------------- MODULE GuidedBuild -----------------------------
(***************************************************************************)
(* The guided build of the network builder (guided-build.tsx): a checklist *)
(* that is worked out again from the canvas after every change, and the    *)
(* user who builds the site it describes.                                  *)
(***************************************************************************)
EXTENDS Paths

CONSTANTS
  Parts,       \* the devices of the site
  PartType,    \* the type of each
  Cabling,     \* bound: the wires that the user may draw
  Canvases     \* what is on the canvas to begin with

PartTypes ==
  {"cloud", "isp", "www", "router", "firewall", "switch", "dhcp", "dns", "server",
   "pc", "laptop", "phone", "printer", "iot"}

(* The tables and addresses that the checklist looks at. *)
Canvas ==
  [parts : SUBSET Parts, wires : SUBSET Cabling, rules : SUBSET Parts, records : SUBSET Parts,
   online : SUBSET Parts]

EmptyCanvas == [parts |-> {}, wires |-> {}, rules |-> {}, records |-> {}, online |-> {}]

ASSUME GuidedAssumption ==
  /\ IsFiniteSet(Parts) /\ PartType \in [Parts -> PartTypes]
  /\ Canvases \subseteq Canvas
  /\ \A w \in Cabling : w \subseteq Parts /\ Cardinality(w) = 2

VARIABLES
  drawing,   \* the canvas
  guide,     \* the card: closed, the intro or the checklist
  phase      \* what the card shows when it is open; it outlives closing

guidedVars == <<drawing, guide, phase>>

GuidedInit == drawing \in Canvases /\ guide = "closed" /\ phase = "intro"

-----------------------------------------------------------------------------
MinDevices == 11      \* of a finished site

InternetTypes == {"cloud", "isp", "www"}
EndpointTypes == {"pc", "laptop", "phone", "printer", "iot"}

PartsOf(types) == {p \in drawing.parts : PartType[p] \in types}
CountOf(types) == Cardinality(PartsOf(types))
Has(type) == PartsOf({type}) # {}

Joins(w, s, t) == \E p, q \in w : p # q /\ PartType[p] \in s /\ PartType[q] \in t
EdgeBetweenTypes(s, t) == \E w \in drawing.wires : Joins(w, s, t)
EdgesBetweenCount(s, t) == Cardinality({w \in drawing.wires : Joins(w, s, t)})

(* Everything is reached from the first node, whichever that is. *)
IsConnected ==
  LET first == CHOOSE p \in drawing.parts : TRUE
  IN  CountOf(PartTypes) >= 2 /\ Reachable(first, drawing.wires) = drawing.parts

DnsHasEntry == drawing.records \cap PartsOf({"dns"}) # {}
FirewallHasRule == drawing.rules \cap PartsOf({"firewall"}) # {}
ClientsOnline == Cardinality(drawing.online \cap PartsOf(EndpointTypes))

-----------------------------------------------------------------------------
(* Faulty variant: the firewall is looked for, not what it is wired to. *)
PerimeterPlaced == Has("firewall")

PerimeterDone == Has("firewall") /\ EdgeBetweenTypes({"firewall"}, {"router"})

Tasks ==
  [internet  |-> \E t \in InternetTypes : Has(t),
   edge      |-> Has("router") /\ EdgeBetweenTypes({"router"}, InternetTypes),
   perimeter |-> PerimeterDone,
   core      |-> Has("switch") /\ EdgeBetweenTypes({"switch"}, {"firewall"}),
   services  |-> /\ Has("dhcp") /\ Has("dns")
                 /\ EdgeBetweenTypes({"switch"}, {"dhcp"})
                 /\ EdgeBetweenTypes({"switch"}, {"dns"}),
   access    |-> CountOf({"switch"}) >= 2 /\ EdgesBetweenCount({"switch"}, {"switch"}) >= 1,
   endpoints |-> CountOf(EndpointTypes) >= 3
                   /\ EdgesBetweenCount(EndpointTypes, {"switch"}) >= 3,
   dmz       |-> Has("server") /\ EdgeBetweenTypes({"firewall"}, {"server"}),
   wire      |-> CountOf(PartTypes) >= MinDevices /\ IsConnected,
   config    |-> DnsHasEntry /\ FirewallHasRule,
   online    |-> ClientsOnline >= 2]

AllDone == LET tasks == Tasks IN \A t \in DOMAIN tasks : tasks[t]

-----------------------------------------------------------------------------
(* Opening the card shows the phase it was left in. *)
OpenGuide == guide = "closed" /\ guide' = phase /\ UNCHANGED <<drawing, phase>>
CloseGuide == guide # "closed" /\ guide' = "closed" /\ UNCHANGED <<drawing, phase>>

StartBuilding(clear) ==
  /\ guide = "intro"
  /\ phase' = "tasks" /\ guide' = "tasks"
  /\ drawing' = IF clear THEN EmptyCanvas ELSE drawing

(* The user places devices, configures them and, when all are there, wires *)
(* them up; the hosts lease an address when they are powered on.           *)
Build ==
  /\ guide = "tasks"
  /\ UNCHANGED <<guide, phase>>
  /\ \/ \E p \in Parts \ drawing.parts : drawing' = [drawing EXCEPT !.parts = @ \cup {p}]
     \/ /\ drawing.parts = Parts
        /\ \E w \in Cabling :
             drawing' = [drawing EXCEPT !.wires = (@ \cup {w}) \ (@ \cap {w})]
     \/ \E p \in PartsOf({"firewall"}) \ drawing.rules : drawing' = [drawing EXCEPT !.rules = @ \cup {p}]
     \/ \E p \in PartsOf({"dns"}) \ drawing.records : drawing' = [drawing EXCEPT !.records = @ \cup {p}]
     \/ /\ drawing.online # PartsOf(EndpointTypes) /\ IsConnected
        /\ drawing' = [drawing EXCEPT !.online = PartsOf(EndpointTypes)]

GuidedNext ==
  OpenGuide \/ CloseGuide \/ Build \/ \E clear \in BOOLEAN : StartBuilding(clear)

GuidedSpec == GuidedInit /\ [][GuidedNext]_guidedVars

-----------------------------------------------------------------------------
(* A site with every task ticked and no more devices or wires than the     *)
(* tasks ask for is layered as the card says: nothing but the router is    *)
(* on the Internet's side of the firewall, and each office device hangs on *)
(* a switch.                                                               *)
TickedMeansGuarded ==
  CountOf(PartTypes) = MinDevices /\ Cardinality(drawing.wires) = MinDevices - 1 /\ AllDone =>
    /\ \A p \in PartsOf(InternetTypes) : \A f \in PartsOf({"firewall"}) :
         Reachable(p, {w \in drawing.wires : f \notin w})
           \subseteq PartsOf(InternetTypes \cup {"router"})
    /\ \A p \in PartsOf(EndpointTypes) :
         \E q \in PartsOf({"switch"}) : {p, q} \in drawing.wires
=============================================================================
