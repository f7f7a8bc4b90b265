---------------------------- MODULE DesignTools -----------------------------
(***************************************************************************)
(* The three services that look at a stored design: the packet trace       *)
(* (Forwarding), the operational tables (ControlPlane) and the design      *)
(* check (Validation).  Each derives its answer on its own; the properties *)
(* here say where two of them must agree.                                  *)
(***************************************************************************)
EXTENDS Validation, ControlPlane

CONSTANT Inspected     \* designs whose tables and report are asked for

(* A rule has an id, which its record stands for here: no two of a device   *)
(* are the same.  A wire leads from its source to another device, and      *)
(* bridge ids have ranks.                                                  *)
ASSUME InspectedAssumption ==
  \A t \in Inspected :
    /\ Configured(t)
    /\ \A w \in t.wires : \E n \in DOMAIN t.dev \ {t.source[w]} :
         w = {t.source[w], n} /\ t.source[w] \in DOMAIN t.dev
    /\ \A n \in DOMAIN t.dev : t.dev[n].bridge \in Nat
    /\ \A n \in DOMAIN t.dev : \A i, j \in DOMAIN t.dev[n].rules :
         t.dev[n].rules[i] = t.dev[n].rules[j] => i = j

VARIABLE shown     \* the report and the tables on display; Nobody when there are none

designVars == <<topology, request, walk, shown>>

DesignInit == ForwardingInit /\ shown = Nobody

(* validateNetwork and getControlPlane, asked for one stored design. *)
Inspect(t) ==
  /\ shown' = [design |-> t,
               findings |-> ValidateTopology(t),
               tables |-> [n \in DOMAIN t.dev |-> ControlPlaneForNode(t, n)]]
  /\ UNCHANGED forwardingVars

Close ==
  /\ shown # Nobody
  /\ shown' = Nobody
  /\ UNCHANGED forwardingVars

DesignNext ==
  \/ shown = Nobody /\ ForwardingNext /\ UNCHANGED shown
  \/ walk = Nobody /\ shown = Nobody /\ \E t \in Inspected : Inspect(t)
  \/ Close

DesignSpec == DesignInit /\ [][DesignNext]_designVars

-----------------------------------------------------------------------------
Devices == DOMAIN shown.design.dev
Table(n) == shown.tables[n]
Reported(category) == {f.about : f \in {f \in shown.findings : f.category = category}}

(* The trace and `show arp` agree: two addressed devices between which a   *)
(* packet was delivered without a layer 3 device are in each other's ARP   *)
(* table, provided both state their prefix.                                *)
DeliveredMeansArp ==
  LET Arp(n) == BuildArp(topology, n)
      Stated(n) == Primary(Dev(n)).ip # NoIp /\ Primary(Dev(n)).prefix # NoPrefix
  IN  /\ Success /\ ~ OnPath(Layer3) /\ Stated(request.src) /\ Stated(request.dst)
      /\ Primary(Src).ip # Primary(Dst).ip
      => Primary(Dst).ip \in Arp(request.src) /\ Primary(Src).ip \in Arp(request.dst)

(* Every bridge works out the spanning tree for itself.  Together they     *)
(* name one root per island, every other bridge has root ports, all towards*)
(* bridges of the same root, and these form no cycle: no set of bridges    *)
(* sends only into itself.  (No tree: in a ring a bridge may have several, *)
(* and none is blocked.)                                                   *)
SpanningTreesAgree ==
  shown # Nobody =>
    LET bridges == {n \in Devices : Type(shown.design, n) \in Bridges}
        Root(n) == Table(n).stp.root
        Up(n) == {m \in DOMAIN Table(n).stp.roles : Table(n).stp.roles[m] = "root"}
    IN  /\ \A n \in bridges : Up(n) = {} <=> Root(n) = n
        /\ \A n \in bridges : \A m \in Up(n) : Root(m) = Root(n)
        /\ \A s \in (SUBSET bridges) \ {{}} : \E n \in s : Up(n) \cap s = {}

(* OSPF neighbours see each other, and not both as the designated router,  *)
(* as long as they have one subnet in common and agree on its prefix.      *)
OspfMutual ==
  shown # Nobody =>
    LET Speaks(n) == Type(shown.design, n) \in OspfSpeakers
        Ifs(n) == Ipv4Ifaces(shown.design.dev[n])
        Common(m, n) == {p \in Ifs(m) \X Ifs(n) :
                           PrefixOf(p[1]) # NoPrefix /\ InSubnet(p[2].ip, p[1].ip, PrefixOf(p[1]))}
        Plain(m, n) == \A p \in Common(m, n) :
                         p[1].prefix = p[2].prefix /\ Common(m, n) = {p}
    IN  \A m, n \in {k \in Devices : Speaks(k)} :
          m # n /\ Plain(m, n) /\ Plain(n, m) =>
            \A a \in Table(m).ospfNeighbors : a.node = n =>
              \E b \in Table(n).ospfNeighbors :
                b.node = m /\ b.address = a.via /\ b.via = a.address /\ b.state # a.state

(* The check and `show ip ospf neighbor` agree: a link between two routers *)
(* with addresses has a neighbour in the table of its source, or the check *)
(* reports a mismatch or a duplicate address; and never both.              *)
MismatchMeansNoNeighbor ==
  shown # Nobody =>
    \A w \in shown.design.wires :
      LET a == shown.design.source[w]
          b == CHOOSE n \in w : n # a
          Listed == \E e \in Table(a).ospfNeighbors : e.node = b
      IN  /\ \A n \in w : Type(shown.design, n) \in OspfSpeakers
          /\ LinkChecked(shown.design, w)
          => /\ Listed \/ w \in Reported("link-subnet-mismatch")
                  \/ Reported("duplicate-ip") # {}
             /\ ~ (Listed /\ w \in Reported("link-subnet-mismatch"))

(* What one device is told about an adjacency is what the other one and    *)
(* the check are told.                                                     *)
AdjacenciesAgree == OspfMutual /\ MismatchMeansNoNeighbor

(* Packets between any two addresses, in one direction. *)
MatchedBy(d, r) ==
  LET rules == RulesInOrder(d)
  IN  \E q \in Requests, src, dst \in Ips :
        FirstMatch(rules, q, src, dst, FwDirection(src, dst)) = r

(* The rule that shadows the others of a device: the first match-all. *)
Shadower(d) ==
  LET rules == RulesInOrder(d)
  IN  rules[Min({i \in DOMAIN rules : MatchAll(rules[i])})]

(* The check reads a condition of this match-all otherwise than the trace: *)
(* "*" is no address and no port there, and "0.0.0.0/0" no port.           *)
Misread(r) == "*" \in {r.src.text, r.dst.text} \/ r.dstPort.text \in {"*", "0.0.0.0/0"}

(* The check and the firewall agree: a rule reported as shadowed decides   *)
(* about no packet at all, unless it works in both directions and what     *)
(* shadows it in one, or the two services read what shadows it differently.*)
ShadowedIsDead ==
  shown # Nobody =>
    \A p \in Reported("shadowed-rule") :
      LET d == shown.design.dev[p[1]]
          by == Shadower(d)
      IN  MatchedBy(d, p[2]) =>
            Misread(by) \/ (p[2].direction = "both" /\ by.direction # "both")

(* What the report says of such a rule: it "never matches"                 *)
(* (validation-service.ts:223).                                            *)
ShadowedNeverMatches ==
  shown # Nobody =>
    \A p \in Reported("shadowed-rule") : ~ MatchedBy(shown.design.dev[p[1]], p[2])
=============================================================================
