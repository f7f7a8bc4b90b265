------------------------------ MODULE MCClient ------------------------------
(* The parts of the network builder that act on the canvas by themselves,  *)
(* each on an instance of its own.  They meet in the canvas, of which each *)
(* keeps what it looks at.                                                 *)
EXTENDS Dhcp, Ambient, TraceAnimation, WanLink, TLC

CONSTANTS
  h1, h2, r, s, \* two hosts, a router and the DHCP server
  i, w, d, n,   \* an appliance, a web server, a database and a resolver
  q1, q2, q3, q4    \* four routers in a ring

VARIABLE part   \* the part that plays
clientVars == <<dhcpVars, ambientVars, traceVars, wanVars, part>>

MCStarts == {{h1, h2, r, s}, {r, s}}
MCWires == {{h1, r}, {r, s}, {h2, s}}

MCKind == (i :> "iot") @@ (w :> "server") @@ (d :> "database") @@ (n :> "dns")
MCHash == (i :> 1) @@ (w :> 5) @@ (d :> 7) @@ (n :> 9)
MCCables == {{i, n}, {i, w}, {w, d}}

MCLinks == {{q1, q2}, {q2, q3}, {q1, q4}, {q4, q3}}

(* Private addresses are 8 and above.  Two or three routers, the hosts h1  *)
(* and h2 behind the outer ones, the router q2 with a table of its own or  *)
(* none, and a wire that leads around the link.  The host h2 may have an   *)
(* address of the first block that is tried.                               *)
MCPrivate == {[net |-> 8, len |-> 2], [net |-> 16, len |-> 1]}
Lan(ip) == <<[name |-> "LAN", ip |-> ip, prefix |-> NoPrefix]>>
Placed(type, ifs) == [type |-> type, ifs |-> ifs, routes |-> {}]
MCSites ==
  LET own == [dest |-> 24, len |-> 3, gateway |-> 1]
      dev(host, ifs, table) ==
        (q1 :> Placed("router", Lan(20))) @@ (h1 :> Placed("pc", Lan(21)))
        @@ (q2 :> [Placed("l3switch", ifs) EXCEPT !.routes = table])
        @@ (q3 :> Placed("router", <<>>)) @@ (h2 :> Placed("pc", host))
      wires(far) == {{q1, q2}, {q1, h1}, {q2, q3}, {h2, far}}
  IN  {[dev |-> dev(host, ifs, table), wires |-> ws] :
         host \in {Lan(25), Lan(11), Lan(1)}, ifs \in {<<>>, Lan(10)}, table \in {{}, {own}},
         ws \in {wires(q2), wires(q3), wires(q3) \cup {{q2, h1}}}}

-----------------------------------------------------------------------------
MCInit ==
  /\ DhcpInit /\ AmbientInit /\ TraceInit /\ WanInit
  /\ part \in {"dhcp", "ambient", "trace", "wan"}
  /\ part # "dhcp" => canvas.on = {r, s}
  /\ part # "wan" => site = CHOOSE x \in Sites : TRUE

MCNext ==
  \/ part = "dhcp" /\ DhcpNext /\ UNCHANGED <<ambientVars, traceVars, wanVars, part>>
  \/ part = "ambient" /\ AmbientNext /\ UNCHANGED <<dhcpVars, traceVars, wanVars, part>>
  \/ part = "trace" /\ TraceNext /\ UNCHANGED <<dhcpVars, ambientVars, wanVars, part>>
  \/ part = "wan" /\ WanNext /\ UNCHANGED <<dhcpVars, ambientVars, traceVars, part>>

(* DhcpFairness, AmbientFairness and TraceFairness, each for its part. *)
MCFairness ==
  /\ WF_dhcpVars(part = "dhcp" /\ Render)
  /\ \A h \in Hosts : /\ WF_dhcpVars(part = "dhcp" /\ SimTick(h))
                      /\ WF_dhcpVars(part = "dhcp" /\ FlightOf(h))
  /\ WF_ambientVars(part = "ambient" /\ Frame)
  /\ WF_traceVars(part = "trace" /\ RunStep)
  /\ WF_traceVars(part = "trace" /\ Draw)

MCSpec == MCInit /\ [][MCNext]_clientVars /\ MCFairness
=============================================================================
