----------------------------- MODULE MCServices -----------------------------
(***************************************************************************)
(* The editor, and small designs, packets and networks for the services    *)
(* that compute something from a request.  The editor, the design tools,   *)
(* the calculator and the packet synthesis share no state, so each         *)
(* behaviour runs one of them.                                             *)
(***************************************************************************)
EXTENDS DesignTools, Subnets, Synthesis, Editor, NodePanel,
        GuidedBuild, Workspaces

CONSTANTS h, x, y, z

VARIABLE part

MCPrivate == {[net |-> 0, len |-> 1]}

If(ip, prefix) == [ip |-> ip, prefix |-> prefix, vlan |-> NoVlan, mac |-> ip]
Bare == [type |-> "pc", on |-> TRUE, ifs |-> <<>>, rules |-> <<>>, routes |-> <<>>,
         services |-> {}, bridge |-> 1, dhcp |-> FALSE]
Of(type) == [Bare EXCEPT !.type = type]
With(type, ifs) == [Of(type) EXCEPT !.ifs = ifs]

Says(text) == [text |-> text, net |-> 0, len |-> 0]
Everywhere == Says("any")
Near == [Says("literal") EXCEPT !.len = 2]
Ports(ports) == [text |-> IF ports = {} THEN "any" ELSE "literal", ports |-> ports]
Rule(priority, direction, dst, ports, action) ==
  [enabled |-> TRUE, priority |-> priority, direction |-> direction, protocol |-> "any",
   src |-> Everywhere, srcPort |-> Ports({}), dst |-> dst, dstPort |-> Ports(ports),
   action |-> action]
Route(dest, len) == [dest |-> dest, len |-> len, default |-> FALSE, gateway |-> NoIp]
Gate(ip) == [dest |-> 0, len |-> 0, default |-> TRUE, gateway |-> ip]

(* Written out of order; a shadowed rule; one for each direction; and      *)
(* everything, in the words of the check, the trace and both.              *)
RuleSets == {
  <<Rule(2, "both", Everywhere, {}, "allow"), Rule(1, "both", Everywhere, {22}, "drop")>>,
  <<Rule(1, "in", Everywhere, {}, "allow"), Rule(2, "both", Everywhere, {22}, "deny")>>,
  <<Rule(1, "both", Near, {}, "allow"),
    [Rule(2, "out", Everywhere, {}, "allow") EXCEPT !.enabled = FALSE]>>,
  <<Rule(1, "both", Everywhere, {}, "allow"), Rule(2, "out", Everywhere, {80}, "deny")>>,
  <<Rule(1, "in", Everywhere, {}, "allow"), Rule(2, "out", Everywhere, {80}, "deny")>>,
  <<Rule(1, "both", Says("*"), {}, "deny"), Rule(2, "both", Says(""), {80}, "allow")>>,
  <<[Rule(1, "both", Says("0.0.0.0/0"), {}, "allow") EXCEPT !.srcPort.text = "*"],
    Rule(2, "in", Says("other"), {}, "allow")>>}
Firewalls == {[With("firewall", <<If(3, 2)>>) EXCEPT !.rules = r] : r \in RuleSets \cup {<<>>}}

Tables == {<<>>, <<Gate(2), Route(4, 2), Route(0, 1)>>, <<Route(12, 2)>>}
RoutersOf(ifs) == {[With("router", ifs) EXCEPT !.routes = r, !.dhcp = TRUE] : r \in Tables}

Middle == {Of("switch"), [Of("wifiap") EXCEPT !.on = FALSE], Of("load_balancer"),
           Of("dns"), Of("isp")}
            \cup RoutersOf(<<If(2, 2), If(9, 2)>>) \cup Firewalls
Second == {Of("switch"), With("l3switch", <<If(2, 2)>>), Of("printer")}
            \cup {f \in Firewalls : Len(f.rules) = 2 /\ f.rules[1].priority = 2}
Ends == {With("pc", <<If(0, 2)>>), With("pc", <<If(4, 2)>>), With("pc", <<If(5, 1)>>), Of("cloud"),
         With("pc", <<[If(0, NoPrefix) EXCEPT !.vlan = 20]>>),
         [With("server", <<If(1, 2)>>) EXCEPT !.services = {[port |-> 80, protocol |-> "tcp"]}],
         [With("api_gateway", <<If(12, 2)>>)
            EXCEPT !.services = {[port |-> 80, protocol |-> "tcp"]}],
         [With("pc", <<If(0, 2)>>) EXCEPT !.on = FALSE], With("dhcp", <<If(0, 2)>>),
         With("router", <<If(0, 2)>>)}
Starts == {[With("pc", <<[If(1, 2) EXCEPT !.vlan = 10]>>) EXCEPT !.routes = <<Gate(2)>>],
           Of("phone"), Of("www")}

Design(dev, wires) ==
  [dev |-> dev, wires |-> wires, source |-> [w \in wires |-> CHOOSE n \in w : TRUE]]

Wirings == {{{h, x}, {x, y}, {y, z}}, {{h, x}, {h, y}, {x, z}, {y, z}}, {{h, x}, {y, z}}}
Walks ==
  {Design((h :> a) @@ (x :> b) @@ (y :> c) @@ (z :> e), w) :
     a \in Starts, b \in Middle, c \in Second, e \in Ends, w \in Wirings}

(* Bridges in every arrangement, one of them a layer 3 switch. *)
Bridged ==
  {Design([n \in {h, x, y, z} |->
             [Of(IF n = y THEN "l3switch" ELSE "switch")
                EXCEPT !.bridge = CASE n = h -> 2 [] n = x -> 1 [] n = y -> 3 [] n = z -> 4]],
          w) : w \in SUBSET {{h, x}, {x, y}, {y, z}, {h, y}, {h, z}, {x, z}}}

(* Two routers on one link, with one or two interfaces each. *)
IfChoices == {If(1, 2), If(2, 2), If(2, 1), If(5, 2), If(6, NoPrefix)}
IfLists == {<<i>> : i \in IfChoices} \cup {<<i, j>> : i, j \in IfChoices}
Linked ==
  {Design((h :> With("router", a)) @@ (x :> With("firewall", b)), {{h, x}}) :
     a, b \in IfLists}

MCTopologies == Walks \cup {Design(h :> Of("cloud"), {})}

MCInspected ==
  Bridged \cup Linked \cup
    {t \in Walks : /\ t.dev[y] = Of("switch") /\ t.dev[z] = Of("cloud")
                   /\ t.wires = {{h, x}, {h, y}, {x, z}, {y, z}}}

Query(protocol, port, ttl) ==
  [src |-> h, dst |-> z, protocol |-> protocol, dstPort |-> port, ttl |-> ttl]
MCRequests == {Query("icmp", NoPort, 2), Query("tcp", 80, 2), Query("tcp", 22, 1)}

MCInputs == {[ip |-> 5, len |-> 1], [ip |-> 6, len |-> 3], [ip |-> 3, len |-> 4],
             [ip |-> 4, len |-> 0], [ip |-> 2, len |-> NoPrefix]}

(* A row in every table; with and without the optional parts. *)
MCTypeOf == (h :> "router") @@ (x :> "server")
MCCatalog == {[name |-> "HTTP", port |-> 80], [name |-> "SSH", port |-> 22]}
MCSettings ==
  {[info |-> Empty({"hostname", "description", "model", "osType", "mgmtIp", "serialNumber",
                    "zone"}),
    powered |-> TRUE, interfaces |-> <<NewIface>>, routes |-> <<NewRoute(<<>>)>>,
    rules |-> <<NewRule(<<>>)>>, services |-> <<Row([ServiceRow EXCEPT !.name = "SSH"], 80)>>,
    webPage |-> Absent, dhcp |-> e, dns |-> IF e = Absent THEN Absent ELSE DefaultDns] :
     e \in {Absent, DefaultDhcp}}

(* The site that the guided build describes, and two wires too many. *)
MCPartType ==
  ("cloud" :> "cloud") @@ ("edge" :> "router") @@ ("fw" :> "firewall") @@ ("core" :> "switch")
  @@ ("access" :> "switch") @@ ("dhcp" :> "dhcp") @@ ("dns" :> "dns") @@ ("web" :> "server")
  @@ ("pc1" :> "pc") @@ ("pc2" :> "pc") @@ ("laptop" :> "laptop")
MCParts == DOMAIN MCPartType
MCCabling ==
  {{"cloud", "edge"}, {"edge", "fw"}, {"fw", "core"}, {"core", "dhcp"}, {"core", "dns"},
   {"core", "access"}, {"access", "pc1"}, {"access", "pc2"}, {"access", "laptop"},
   {"fw", "web"}, {"edge", "core"}, {"core", "pc1"}}
MCCanvases == {EmptyCanvas, [EmptyCanvas EXCEPT !.parts = {"fw", "web"}, !.rules = {"fw"}]}

MCStock == [cfg |-> [m \in {1} |-> 0], link |-> "none"]

MCOwnerOf == (h :> "local") @@ (x :> "local") @@ (y :> "local") @@ (z :> "account")

-----------------------------------------------------------------------------
MCInit ==
  /\ DesignInit /\ SubnetsInit /\ SynthesisInit /\ EditorInit /\ PanelInit
  /\ GuidedInit /\ WorkspacesInit
  /\ part \in {"design", "subnets", "synthesis", "editor", "panel", "guide", "owners"}
  /\ part # "panel" => \A n \in Selectable : configs[n] = CHOOSE c \in Settings : TRUE
  /\ part # "guide" => drawing = EmptyCanvas

Computing == <<designVars, subnetVars, synthesisVars>>
Editing == <<editorVars, panelVars, guidedVars, workspaceVars>>
servicesVars == <<Computing, Editing, part>>

MCDesign ==
  part = "design" /\ DesignNext /\ UNCHANGED <<subnetVars, synthesisVars, Editing, part>>
MCSubnets ==
  part = "subnets" /\ SubnetsNext /\ UNCHANGED <<designVars, synthesisVars, Editing, part>>
MCSynthesis ==
  part = "synthesis" /\ SynthesisNext /\ UNCHANGED <<designVars, subnetVars, Editing, part>>
MCEditor ==
  /\ part = "editor" /\ EditorNext
  /\ UNCHANGED <<Computing, panelVars, guidedVars, workspaceVars, part>>
MCPanel ==
  /\ part = "panel" /\ PanelNext
  /\ UNCHANGED <<Computing, editorVars, guidedVars, workspaceVars, part>>
MCGuide ==
  /\ part = "guide" /\ GuidedNext
  /\ UNCHANGED <<Computing, editorVars, panelVars, workspaceVars, part>>
MCOwners ==
  /\ part = "owners" /\ WorkspacesNext
  /\ UNCHANGED <<Computing, editorVars, panelVars, guidedVars, part>>

MCNext ==
  MCDesign \/ MCSubnets \/ MCSynthesis \/ MCEditor \/ MCPanel \/ MCGuide \/ MCOwners

MCSpec == MCInit /\ [][MCNext]_servicesVars

(* The editor alone. *)
MCEditorSpec == MCInit /\ part = "editor" /\ [][MCEditor]_servicesVars
=============================================================================
