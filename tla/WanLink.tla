------------------------------ MODULE WanLink -------------------------------
(***************************************************************************)
(* The site link of the network builder (configureWanLink in               *)
(* network-builder-page.tsx): one click on a link between two routers      *)
(* numbers it and writes static routes to the subnets of the other side.   *)
(*                                                                         *)
(* Both configurations are worked out from the canvas as rendered, which   *)
(* is the canvas here: nothing else happens in the same event.             *)
(***************************************************************************)
EXTENDS Addressing, Paths, Subsequences

CONSTANTS
  Sites,           \* canvases to begin with: devices and wires
  LanPrefixLength, \* prefix of an interface that states none (24)
  WanBase,         \* first address that is tried (172.16.255.0)
  Tries,           \* blocks that are tried (64)
  LanAddresses,    \* bound: addresses that hosts are given
  MaxClicks        \* bound: what the user does

(* A WAN link has a block of four addresses (a /30). *)
WanPrefixLength == Width - 2

Interface == [name : {"LAN", "WAN"}, ip : Ips \cup {NoIp}, prefix : PrefixLengths \cup {NoPrefix}]
Route == [dest : Ips, len : PrefixLengths, gateway : Ips \cup {NoIp}]

Device == [type : STRING, ifs : Seq(Interface), routes : SUBSET Route]

IsSite(s) ==
  /\ s = [dev |-> s.dev, wires |-> s.wires]
  /\ s.dev \in [DOMAIN s.dev -> Device]
  /\ \A w \in s.wires : w \subseteq DOMAIN s.dev /\ Cardinality(w) = 2

ASSUME WanAssumption ==
  /\ Width > 2 /\ WanBase \in Ips /\ WanBase % 4 = 0
  /\ Tries \in Nat \ {0} /\ MaxClicks \in Nat
  /\ WanBase + 4 * Tries + 2 \in Ips
  /\ LanPrefixLength \in PrefixLengths /\ LanAddresses \subseteq Ips
  /\ \A s \in Sites : IsSite(s)

VARIABLES
  site,      \* the canvas
  links,     \* history: the links configured, in order, and what was behind them
  spent,     \* history: none of the blocks was free once
  clicks     \* bound

wanVars == <<site, links, spent, clicks>>

WanInit == site \in Sites /\ links = <<>> /\ spent = FALSE /\ clicks = 0

-----------------------------------------------------------------------------
IsRouter(n) == site.dev[n].type \in {"router", "l3switch"}

LanPrefix(i) == IF i.prefix = NoPrefix THEN LanPrefixLength ELSE i.prefix

(* The devices on a router's side of the wire w, and the address that      *)
(* counts: the first one, if it is private.                                *)
Side(r, w) == Reachable(r, site.wires \ {w}) \cap DOMAIN site.dev

Counts(n) ==
  LET ifs == site.dev[n].ifs
  IN  ifs # <<>> /\ ifs[1].ip # NoIp /\ IsPrivate(ifs[1].ip)

HostAddresses(r, w) == {site.dev[n].ifs[1].ip : n \in {n \in Side(r, w) : Counts(n)}}

LanSubnets(r, w) ==
  {[net |-> NetworkOf(i.ip, LanPrefix(i)), len |-> LanPrefix(i)] :
     i \in {site.dev[n].ifs[1] : n \in {n \in Side(r, w) : Counts(n)}}}

AddressesInUse == {i.ip : i \in UNION {Range(site.dev[n].ifs) : n \in DOMAIN site.dev}}

(* Faulty variant: only the first of the two addresses is looked at. *)
HalfFree(k) == WanBase + 4 * k + 1 \notin AddressesInUse

IsFree(k) == {WanBase + 4 * k + 1, WanBase + 4 * k + 2} \cap AddressesInUse = {}

(* The first free block; the one after the last try, whatever it holds. *)
FreeBlock == WanBase + 4 * Min({k \in 0 .. Tries : k = Tries \/ IsFree(k)})

-----------------------------------------------------------------------------
(* add: only if there is no route to the same destination. *)
WithRoutes(routes, new) ==
  routes \cup {r \in new : ~ \E x \in routes : x.dest = r.dest /\ x.len = r.len}

Routes(subnets, gateway) ==
  {[dest |-> s.net, len |-> s.len, gateway |-> gateway] : s \in subnets}

RoutesOf(d, selfLans, peerLans, self, peer) ==
  LET wan == {[net |-> NetworkOf(self, WanPrefixLength), len |-> WanPrefixLength]}
      own == WithRoutes(WithRoutes(d.routes, Routes(wan, NoIp)), Routes(selfLans, NoIp))
  IN  WithRoutes(own, Routes(peerLans, peer))

(* buildConfig: an earlier WAN interface is replaced, routes are only added. *)
BuildConfig(d, selfLans, peerLans, self, peer) ==
  [d EXCEPT
     !.ifs = Append(Picked(@, {i \in DOMAIN @ : @[i].name # "WAN"}),
                    [name |-> "WAN", ip |-> self, prefix |-> WanPrefixLength]),
     !.routes = RoutesOf(d, selfLans, peerLans, self, peer)]

End(r, ip, w) ==
  [router |-> r, ip |-> ip, fresh |-> site.dev[r].routes = {},
   lans |-> LanSubnets(r, w), hosts |-> HostAddresses(r, w)]

(* Which end is the source of the link is up to how it was drawn. *)
ConfigureWanLink(w, a, b) ==
  LET base == FreeBlock
      aLans == LanSubnets(a, w)
      bLans == LanSubnets(b, w)
  IN  /\ w = {a, b} /\ a # b
      /\ IsRouter(a) /\ IsRouter(b)
      /\ aLans # {} /\ bLans # {}
      /\ site' = [site EXCEPT
           !.dev[a] = BuildConfig(@, aLans, bLans, base + 1, base + 2),
           !.dev[b] = BuildConfig(@, bLans, aLans, base + 2, base + 1)]
      /\ links' = Append(links, {End(a, base + 1, w), End(b, base + 2, w)})
      /\ spent' = (spent \/ base = WanBase + 4 * Tries)

(* A host gets an address, by hand or by DHCP: one that nobody has. *)
Readdress(n, ip) ==
  /\ ~ IsRouter(n) /\ ip \notin AddressesInUse
  /\ site' = [site EXCEPT !.dev[n].ifs = <<[name |-> "LAN", ip |-> ip, prefix |-> NoPrefix]>>]
  /\ UNCHANGED <<links, spent>>

WanNext ==
  /\ clicks < MaxClicks /\ clicks' = clicks + 1
  /\ \/ \E w \in site.wires : \E a, b \in w : ConfigureWanLink(w, a, b)
     \/ \E n \in DOMAIN site.dev : \E ip \in LanAddresses : Readdress(n, ip)

WanSpec == WanInit /\ [][WanNext]_wanVars

-----------------------------------------------------------------------------
(* Link number k is the last one that its routers took part in. *)
RoutersOfLink(k) == {e.router : e \in links[k]}
Latest(k) == \A m \in k + 1 .. Len(links) : RoutersOfLink(m) \cap RoutersOfLink(k) = {}

(* The two ends of a site link are in one block of four, and nobody else   *)
(* on the canvas has their addresses, however many links were configured   *)
(* before, unless the tries ran out.                                       *)
WanAddressed ==
  \A k \in DOMAIN links : Latest(k) /\ ~ spent =>
    \A e, f \in links[k] :
      /\ {i.ip : i \in {i \in Range(site.dev[e.router].ifs) : i.name = "WAN"}} = {e.ip}
      /\ InSubnet(e.ip, f.ip, WanPrefixLength)
      /\ e.ip = f.ip => e = f
      /\ \A n \in DOMAIN site.dev \ {e.router} : \A i \in Range(site.dev[n].ifs) : i.ip # e.ip

Matches(r, ip) == InSubnet(ip, r.dest, r.len)

(* "N <-> M subnet(s) routed": a router whose table was empty sends what is *)
(* for a host behind the other end to that end, unless the host's subnet   *)
(* is on its own side, too, or the host has one of the two addresses of    *)
(* the link's block that nobody looked at.                                 *)
LansRouted ==
  \A k \in DOMAIN links : Latest(k) /\ ~ spent =>
    \A e, f \in links[k] : e # f /\ e.fresh =>
      \A ip \in {ip \in f.hosts : /\ \A s \in e.lans : ~ InSubnet(ip, s.net, s.len)
                                  /\ ~ InSubnet(ip, e.ip, WanPrefixLength)} :
        \E r \in site.dev[e.router].routes :
          /\ Matches(r, ip) /\ r.gateway = f.ip
          /\ \A x \in site.dev[e.router].routes : Matches(x, ip) => x.len <= r.len

(* A site link, once configured, works from both of its ends.              *)
SitesLinked == WanAddressed /\ LansRouted
=============================================================================
