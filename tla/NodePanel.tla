----------------------------- MODULE NodePanel ------------------------------
(***************************************************************************)
(* The properties panel of the network builder (properties-panel.tsx): it  *)
(* reads a device's configuration when the device is selected, keeps a     *)
(* copy of its own, and every keystroke writes the whole copy back.        *)
(*                                                                         *)
(* A row of a table is its texts, its number and its switch; a choice from *)
(* a list counts as a text.  A row without a switch is on for good.        *)
(***************************************************************************)
EXTENDS Integers, Sequences, SequencesExt

CONSTANTS
  Selectable,     \* the canvas
  TypeOf,      \* the type of each device
  Hosting,     \* types that can run services (canHostServices)
  Settings,     \* the configurations that a device may have to begin with
  Catalog,     \* services of the quick add: names and ports
  WebPorts,    \* 80 and 443
  Text,        \* bound: what is typed or chosen
  NumbersTyped,     \* bound: what is typed into a number field
  NotANumber,
  Absent,
  MaxStrokes,  \* bound: keystrokes in the panel
  MaxOthers    \* bound: writes from elsewhere

(* A configuration has these tables (one that is absent counts as empty),  *)
(* and whatever their rows are, each is a list.                            *)
RowTables == {"interfaces", "routes", "rules", "services"}
IsConfiguration(c) ==
  /\ c = [f \in DOMAIN c |-> c[f]]
  /\ \A f \in RowTables : f \in DOMAIN c /\ c[f] \in Seq(Range(c[f]))

ASSUME PanelAssumption ==
  /\ \A c \in Settings : IsConfiguration(c)
  /\ MaxStrokes \in Nat /\ MaxOthers \in Nat

VARIABLES
  configs,   \* the configuration of each device on the canvas
  panel,     \* the device shown and the panel's copy, or Absent
  stale,     \* history: the device shown was written by something else
  strokes, others

panelVars == <<configs, panel, stale, strokes, others>>

PanelInit ==
  /\ configs \in [Selectable -> Settings]
  /\ panel = Absent /\ stale = FALSE /\ strokes = 0 /\ others = 0

-----------------------------------------------------------------------------
(* parseInt(v) || default *)
Parsed(v, default) == IF v \in {NotANumber, 0} THEN default ELSE v

(* upd in each row: one text, the number or the switch. *)
Typed(row) == {[row EXCEPT !.text[f] = t] : f \in DOMAIN row.text, t \in Text}
Counted(row, default) == {[row EXCEPT !.number = Parsed(v, default)] : v \in NumbersTyped}
Switched(row) == {[row EXCEPT !.on = ~ @]}

NoText == ""
Empty(fields) == [f \in fields |-> NoText]
InterfaceRow == Empty({"name", "ip", "mask", "cidr", "speed", "mac", "description"})
RouteRow == Empty({"destination", "mask", "gateway", "interface", "type"})
RuleRow == Empty({"description", "action", "protocol", "srcIp", "srcPort", "dstIp", "dstPort",
                  "direction"})
ServiceRow == Empty({"name", "protocol", "version", "description"})
DnsRecordRow == Empty({"hostname", "type", "value"})
DhcpScope == Empty({"poolStart", "poolEnd", "subnetMask", "gateway", "dnsServers"})

Row(text, number) == [text |-> text, number |-> number, on |-> TRUE]
NewIface == Row(InterfaceRow, Absent)
NewRoute(routes) == Row(RouteRow, (Len(routes) + 1) * 10)
NewRule(rules) == Row(RuleRow, Len(rules) + 1)
NewService == Row(ServiceRow, 8080)
NewDnsRecord == Row(DnsRecordRow, 3600)
DefaultDhcp == Row(DhcpScope, 24)
DefaultDns == [text |-> Empty({"forwarders"}), on |-> TRUE, records |-> <<>>]

(* A table with one row changed, deleted or appended. *)
Edited(rows, Changes(_), new) ==
  {[rows EXCEPT ![p[1]] = p[2]] : p \in UNION {{k} \X Changes(rows[k]) : k \in DOMAIN rows}}
    \cup {RemoveAt(rows, k) : k \in DOMAIN rows}
    \cup {Append(rows, new)}

-----------------------------------------------------------------------------
(* What a keystroke makes of the copy c, tab by tab. *)
InfoEdits(c) ==
  {[c EXCEPT !.info = i] :
     i \in {[c.info EXCEPT ![f] = t] : f \in DOMAIN c.info, t \in Text \cup {NoText}}}

InterfaceEdits(c) ==
  LET Upd(row) == Typed(row) \cup Switched(row) \cup Counted(row, Absent)
  IN  {[c EXCEPT !.interfaces = s] : s \in Edited(c.interfaces, Upd, NewIface)}

RouteEdits(c) ==
  LET Upd(row) == Typed(row) \cup Counted(row, 0)
  IN  {[c EXCEPT !.routes = s] : s \in Edited(c.routes, Upd, NewRoute(c.routes))}

RuleEdits(c) ==
  LET Upd(row) == Typed(row) \cup Switched(row) \cup Counted(row, 1)
  IN  {[c EXCEPT !.rules = s] : s \in Edited(c.rules, Upd, NewRule(c.rules))}

(* The quick add offers what is not in the list by name. *)
QuickAdds(services) ==
  {Append(services, Row([ServiceRow EXCEPT !.name = s.name], s.port)) :
     s \in {s \in Catalog : \A k \in DOMAIN services : services[k].text.name # s.name}}

ServiceEdits(c) ==
  LET Upd(row) == Typed(row) \cup Switched(row) \cup Counted(row, 0)
  IN  {[c EXCEPT !.services = s] :
         s \in Edited(c.services, Upd, NewService) \cup QuickAdds(c.services)}

HttpOn(c) == \E k \in DOMAIN c.services : c.services[k].on /\ c.services[k].number \in WebPorts

PageEdits(c) ==
  LET page == IF c.webPage = Absent THEN Empty({"title", "body"}) ELSE c.webPage
  IN  {[c EXCEPT !.webPage = [page EXCEPT ![f] = t]] :
         f \in DOMAIN page, t \in Text}

DhcpEdits(c) ==
  IF c.dhcp = Absent THEN {[c EXCEPT !.dhcp = DefaultDhcp]}
  ELSE {[c EXCEPT !.dhcp = d] :
          d \in Typed(c.dhcp) \cup Switched(c.dhcp) \cup Counted(c.dhcp, 0) \cup {Absent}}

DnsEdits(c) ==
  LET Upd(row) == Typed(row) \cup Counted(row, 0)
      Records(dns) ==
        {[dns EXCEPT !.records = s] : s \in Edited(dns.records, Upd, NewDnsRecord)}
  IN  IF c.dns = Absent THEN {[c EXCEPT !.dns = DefaultDns]}
      ELSE {[c EXCEPT !.dns = d] :
              d \in Typed(c.dns) \cup Switched(c.dns) \cup Records(c.dns) \cup {Absent}}

CanShowTab(tab, type) ==
  CASE tab = "info" -> TRUE
    [] tab = "interfaces" -> type \notin {"cloud", "www"}
    [] tab = "routing" -> type \in {"router", "firewall", "server"}
    [] tab = "firewall" -> type \in {"router", "firewall"}
    [] tab = "dhcp" -> type \in {"dhcp", "router", "server"}
    [] tab = "dns" -> type \in {"dns", "www", "server"}
    [] tab = "services" -> type \in Hosting

Edits(type, c) ==
  LET Of(tab) ==
        CASE tab = "info" -> InfoEdits(c)
          [] tab = "interfaces" -> InterfaceEdits(c)
          [] tab = "routing" -> RouteEdits(c)
          [] tab = "firewall" -> RuleEdits(c)
          [] tab = "dhcp" -> DhcpEdits(c)
          [] tab = "dns" -> DnsEdits(c)
          [] tab = "services" -> ServiceEdits(c) \cup (IF HttpOn(c) THEN PageEdits(c) ELSE {})
      tabs == {"info", "interfaces", "routing", "firewall", "dhcp", "dns", "services"}
  IN  UNION {Of(tab) : tab \in {tab \in tabs : CanShowTab(tab, type)}}

-----------------------------------------------------------------------------
CopyOf(n) == [node |-> n, config |-> configs[n]]

(* Only another device makes the panel read again. *)
ShowDevice(n) ==
  /\ panel # Absent => panel.node # n
  /\ panel' = CopyOf(n)
  /\ stale' = FALSE
  /\ UNCHANGED <<configs, strokes, others>>

HidePanel ==
  /\ panel # Absent
  /\ panel' = Absent
  /\ UNCHANGED <<configs, stale, strokes, others>>

(* Faulty variant: the copy is written but not kept. *)
WriteOnly(next) ==
  configs' = [configs EXCEPT ![panel.node] = next] /\ UNCHANGED panel

WriteBack(next) ==
  /\ panel' = [panel EXCEPT !.config = next]
  /\ configs' = [configs EXCEPT ![panel.node] = next]

Stroke ==
  /\ panel # Absent /\ strokes < MaxStrokes
  /\ \E next \in Edits(TypeOf[panel.node], panel.config) : WriteBack(next)
  /\ strokes' = strokes + 1
  /\ UNCHANGED <<stale, others>>

(* The power switch, also the one in the panel's header, writes the        *)
(* canvas, and so do a lease and an undo; an open panel is not told.       *)
WriteElsewhere(n) ==
  /\ others < MaxOthers
  /\ configs' = [configs EXCEPT ![n].powered = ~ @]
  /\ stale' = (stale \/ (panel # Absent /\ panel.node = n))
  /\ others' = others + 1
  /\ UNCHANGED <<panel, strokes>>

PanelNext == Stroke \/ HidePanel \/ \E n \in Selectable : ShowDevice(n) \/ WriteElsewhere(n)

PanelSpec == PanelInit /\ [][PanelNext]_panelVars

-----------------------------------------------------------------------------
DiffersIn(c, e) == {f \in DOMAIN c : c[f] # e[f]}

(* One row of s was changed, taken out or put in to get t. *)
OneRow(s, t) ==
  \/ Len(t) + 1 = Len(s) /\ \E k \in DOMAIN s : t = RemoveAt(s, k)
  \/ Len(s) + 1 = Len(t) /\ Front(t) = s
  \/ Len(s) = Len(t) /\ \E k \in DOMAIN s : RemoveAt(s, k) = RemoveAt(t, k)

(* A keystroke changes one setting of the device shown, or one row of one  *)
(* of its tables: it never takes back what was typed into another field    *)
(* or on an earlier visit, nor what an earlier write from elsewhere set.   *)
(* Unless the device was written while it was shown: the next keystroke    *)
(* then undoes that.                                                       *)
OneSettingAtATime ==
  [][strokes' # strokes /\ ~ stale =>
       /\ \A n \in Selectable : configs'[n] # configs[n] => n = panel.node
       /\ \A f, g \in DiffersIn(configs[panel.node], configs'[panel.node]) : f = g
       /\ \A f \in DiffersIn(configs[panel.node], configs'[panel.node]) \cap RowTables :
            OneRow(configs[panel.node][f], configs'[panel.node][f])]_panelVars
=============================================================================
