-------------------------- MODULE Services_proofs --------------------------
(***************************************************************************)
(* That every packet trace obeys firewalls, segments, TTL and routing      *)
(* tables, and agrees with the ARP tables, and that the design check names *)
(* only rules that are dead (modules Forwarding and DesignTools), for any  *)
(* designs, packets and width of an address.  That the sessions which the  *)
(* packet simulator plans come out as one capture in the order of time     *)
(* (module Synthesis), for any number of them and any size of the buffer.  *)
(***************************************************************************)
EXTENDS DesignTools, Synthesis, Algorithms_proofs, TLAPS

(* [...rules].filter(...).sort(...): the rules tried are the enabled ones,  *)
(* each in one place, by priority and then as they were written.           *)
LEMMA RulesSorted ==
  ASSUME NEW d, d.rules \in Seq(FirewallRule)
  PROVE  LET e == EnabledRules(d)
             t == RulesInOrder(d)
         IN  /\ e \in Seq(FirewallRule) /\ t \in Seq(FirewallRule) /\ Len(t) = Len(e)
             /\ \E place \in [DOMAIN e -> DOMAIN e] :
                  /\ \A i \in DOMAIN e : t[place[i]] = e[i]
                  /\ \A k \in DOMAIN e : \E i \in DOMAIN e : place[i] = k
                  /\ \A i, j \in DOMAIN e : place[i] < place[j] <=>
                       \/ e[i].priority < e[j].priority
                       \/ e[i].priority = e[j].priority /\ i < j
<1> DEFINE e == EnabledRules(d)
           n == Len(e)
           t == RulesInOrder(d)
           Before(i, j) == \/ e[i].priority < e[j].priority
                           \/ e[i].priority = e[j].priority /\ i < j
           R == {p \in (1 .. n) \X (1 .. n) : Before(p[1], p[2])}
           Place(i) == PlaceIn(n, R, i)
<1>1. e \in Seq(FirewallRule)
  BY PickedElements DEF EnabledRules
<1>2. n \in Nat /\ DOMAIN e = 1 .. n /\ \A i \in 1 .. n : e[i] \in FirewallRule
  <2> HIDE DEF e
  <2> QED BY <1>1
<1>3. \A i \in 1 .. n : e[i].priority \in Int
  <2> HIDE DEF e
  <2> QED BY <1>2 DEF FirewallRule
<1>4. \A i, j \in 1 .. n : <<i, j>> \in R <=> Before(i, j)
  OBVIOUS
<1>5. \A i \in 1 .. n : {j \in 1 .. n : Before(j, i)} = Beneath(n, R, i)
  <2> HIDE DEF Before, R, e
  <2> QED BY <1>4 DEF Beneath
<1>6. t = [k \in 1 .. n |-> e[CHOOSE i \in 1 .. n : Place(i) = k]]
  <2> DEFINE First(k) == CHOOSE i \in DOMAIN e : 1 + Cardinality({j \in DOMAIN e : Before(j, i)}) = k
             Second(k) == CHOOSE i \in 1 .. n : Place(i) = k
  <2>1. t = [k \in DOMAIN e |-> e[First(k)]]
    BY DEF RulesInOrder, SortedBy
  <2>2. \A i \in 1 .. n : 1 + Cardinality({j \in 1 .. n : Before(j, i)}) = Place(i)
    <3> HIDE DEF Before, R, e
    <3> QED BY <1>5 DEF PlaceIn
  <2>3. \A k : First(k) = Second(k)
    <3>1. \A k : First(k) = CHOOSE i \in 1 .. n : 1 + Cardinality({j \in 1 .. n : Before(j, i)}) = k
      <4> HIDE DEF Before, R, Place
      <4> QED BY <1>2
    <3> HIDE DEF Before, R, e, Place, First
    <3> QED BY <2>2, <3>1
  <2> HIDE DEF t, Before, R, e, Place, First, Second
  <2>4. t = [k \in 1 .. n |-> e[Second(k)]]
    BY <2>1, <2>3, <1>2
  <2> QED BY <2>4 DEF Second
<1>7. IsOrder(n, R)
  <2>1. /\ \A i \in 1 .. n : ~ Before(i, i)
        /\ \A i, j, k \in 1 .. n : Before(i, j) /\ Before(j, k) => Before(i, k)
        /\ \A i, j \in 1 .. n : i = j \/ Before(i, j) \/ Before(j, i)
    <3> HIDE DEF e
    <3> QED BY <1>3
  <2> HIDE DEF Before, R, e
  <2> QED BY <2>1, <1>4 DEF IsOrder
<1>8. /\ \A i \in 1 .. n : Place(i) \in 1 .. n
      /\ \A i, j \in 1 .. n : <<i, j>> \in R <=> Place(i) < Place(j)
      /\ \A i, j \in 1 .. n : Place(i) = Place(j) => i = j
      /\ \A k \in 1 .. n : \E i \in 1 .. n : Place(i) = k
  <2> HIDE DEF R, e
  <2> QED BY <1>2, <1>7, Ranking
<1> DEFINE place == [i \in 1 .. n |-> Place(i)]
<1> HIDE DEF e, t, R, Place, Before
<1>9. \A k \in 1 .. n : (CHOOSE i \in 1 .. n : Place(i) = k) \in 1 .. n
  BY <1>8
<1>10. t \in Seq(FirewallRule) /\ Len(t) = n
  <2>1. \A k \in 1 .. n : t[k] \in FirewallRule
    BY <1>2, <1>6, <1>9
  <2>2. t = [k \in 1 .. n |-> t[k]]
    BY <1>6
  <2> QED BY <2>1, <2>2, <1>2
<1>11. \A i \in 1 .. n : t[Place(i)] = e[i]
  <2> SUFFICES ASSUME NEW i \in 1 .. n PROVE t[Place(i)] = e[i]
    OBVIOUS
  <2>1. t[Place(i)] = e[CHOOSE j \in 1 .. n : Place(j) = Place(i)]
    BY <1>6, <1>8
  <2>2. (CHOOSE j \in 1 .. n : Place(j) = Place(i)) = i
    BY <1>8
  <2> QED BY <2>1, <2>2
<1>12. /\ place \in [1 .. n -> 1 .. n]
       /\ \A i \in 1 .. n : t[place[i]] = e[i]
       /\ \A k \in 1 .. n : \E i \in 1 .. n : place[i] = k
       /\ \A i, j \in 1 .. n : place[i] < place[j] <=> Before(i, j)
  BY <1>4, <1>8, <1>11
<1> HIDE DEF place
<1>13. e \in Seq(FirewallRule) /\ Len(t) = Len(e) /\ DOMAIN e = 1 .. n
  BY <1>1, <1>2, <1>10 DEF e
<1>14. \E f \in [DOMAIN e -> DOMAIN e] :
         /\ \A i \in DOMAIN e : t[f[i]] = e[i]
         /\ \A k \in DOMAIN e : \E i \in DOMAIN e : f[i] = k
         /\ \A i, j \in DOMAIN e : f[i] < f[j] <=> Before(i, j)
  BY <1>12, <1>13
<1> QED
  BY <1>10, <1>13, <1>14 DEF Before, t, e

(* rules.find(...): the rule that decides matches, and no earlier one does. *)
LEMMA FirstMatches ==
  ASSUME NEW rules \in Seq(FirewallRule), NEW packet, NEW src, NEW dst, NEW direction,
         NEW v, v = FirstMatch(rules, packet, src, dst, direction), v # Nobody
  PROVE  \E m \in DOMAIN rules :
           /\ v = rules[m] /\ RuleMatches(rules[m], packet, src, dst, direction)
           /\ \A i \in DOMAIN rules :
                RuleMatches(rules[i], packet, src, dst, direction) => m <= i
<1> DEFINE Hits(i) == RuleMatches(rules[i], packet, src, dst, direction)
           hits == {i \in DOMAIN rules : Hits(i)}
<1> HIDE DEF Hits
<1>1. v = IF hits = {} THEN Nobody ELSE rules[Min(hits)]
  BY DEF FirstMatch, Hits
<1>2. hits \in SUBSET Nat
  OBVIOUS
<1>3. hits # {}
  BY <1>1
<1>4. Min(hits) \in hits /\ \A i \in hits : Min(hits) <= i
  <2>1. \E m \in hits : \A i \in hits : m <= i
    BY <1>2, <1>3, LeastNumber
  <2> HIDE DEF hits
  <2> QED BY <2>1 DEF Min
<1>5. PICK m \in hits : v = rules[m] /\ \A i \in hits : m <= i
  <2> HIDE DEF hits
  <2> QED BY <1>1, <1>3, <1>4
<1> QED BY <1>5 DEF Hits

(* checkFirewallRules: of the enabled rules that match, the one that        *)
(* decides has the lowest priority number, and was written first of those. *)
LEMMA FirewallDecides ==
  ASSUME NEW d, d.rules \in Seq(FirewallRule), NEW packet, NEW src, NEW dst, NEW direction,
         NEW v, v = CheckFirewallRules(d, packet, src, dst, direction), v # Nobody
  PROVE  LET Hits(r) == r.enabled /\ RuleMatches(r, packet, src, dst, direction)
         IN  \E j \in DOMAIN d.rules :
               /\ v = d.rules[j] /\ Hits(d.rules[j])
               /\ \A k \in DOMAIN d.rules : Hits(d.rules[k]) =>
                    \/ d.rules[k].priority > d.rules[j].priority
                    \/ d.rules[k].priority = d.rules[j].priority /\ k >= j
<1> DEFINE e == EnabledRules(d)
           t == RulesInOrder(d)
           on == {i \in DOMAIN d.rules : d.rules[i].enabled}
           Matches(r) == RuleMatches(r, packet, src, dst, direction)
<1> HIDE DEF e, t, Matches
<1>1. /\ e \in Seq(FirewallRule) /\ t \in Seq(FirewallRule) /\ Len(t) = Len(e)
      /\ \E place \in [DOMAIN e -> DOMAIN e] :
           /\ \A i \in DOMAIN e : t[place[i]] = e[i]
           /\ \A k \in DOMAIN e : \E i \in DOMAIN e : place[i] = k
           /\ \A i, j \in DOMAIN e : place[i] < place[j] <=>
                \/ e[i].priority < e[j].priority
                \/ e[i].priority = e[j].priority /\ i < j
  BY RulesSorted DEF e, t
<1>2. PICK place \in [DOMAIN e -> DOMAIN e] :
           /\ \A i \in DOMAIN e : t[place[i]] = e[i]
           /\ \A k \in DOMAIN e : \E i \in DOMAIN e : place[i] = k
           /\ \A i, j \in DOMAIN e : place[i] < place[j] <=>
                \/ e[i].priority < e[j].priority
                \/ e[i].priority = e[j].priority /\ i < j
  BY <1>1
<1>3. Len(e) \in Nat /\ DOMAIN e = 1 .. Len(e) /\ DOMAIN t = DOMAIN e
  BY <1>1
<1>4. /\ e = Picked(d.rules, on) /\ on \in SUBSET DOMAIN d.rules
      /\ Len(e) = Cardinality(on) /\ Cardinality(on) \in Nat
      /\ \A k \in 1 .. Cardinality(on) : NthOf(on, k) \in on /\ e[k] = d.rules[NthOf(on, k)]
      /\ \A k, l \in 1 .. Cardinality(on) : k < l => NthOf(on, k) < NthOf(on, l)
      /\ \A i \in on : \E k \in 1 .. Cardinality(on) : NthOf(on, k) = i
  <2>1. on \in SUBSET DOMAIN d.rules
    OBVIOUS
  <2>2. e = Picked(d.rules, on)
    BY DEF e, EnabledRules
  <2> HIDE DEF on
  <2> QED BY <2>1, <2>2, PickedElements
<1> DEFINE Nth(k) == NthOf(on, k)
<1> HIDE DEF Nth
<1>5. /\ \A k \in DOMAIN e : Nth(k) \in DOMAIN d.rules /\ d.rules[Nth(k)].enabled
                             /\ e[k] = d.rules[Nth(k)]
      /\ \A k, l \in DOMAIN e : k < l => Nth(k) < Nth(l)
      /\ \A i \in DOMAIN d.rules : d.rules[i].enabled => \E k \in DOMAIN e : Nth(k) = i
  BY <1>3, <1>4 DEF Nth
<1>6. PICK m \in DOMAIN t : /\ v = t[m] /\ Matches(t[m])
                            /\ \A i \in DOMAIN t : Matches(t[i]) => m <= i
  <2>1. v = FirstMatch(t, packet, src, dst, direction)
    BY DEF t, CheckFirewallRules
  <2> QED BY <2>1, <1>1, FirstMatches DEF Matches
<1>7. PICK p \in DOMAIN e : place[p] = m
  BY <1>2, <1>3, <1>6
<1> DEFINE j == Nth(p)
<1>8. /\ j \in DOMAIN d.rules /\ v = d.rules[j] /\ e[p] = d.rules[j]
      /\ d.rules[j].enabled /\ Matches(d.rules[j])
  BY <1>2, <1>5, <1>6, <1>7
<1>9. ASSUME NEW k \in DOMAIN d.rules, d.rules[k].enabled, Matches(d.rules[k])
      PROVE  \/ d.rules[k].priority > d.rules[j].priority
             \/ d.rules[k].priority = d.rules[j].priority /\ k >= j
  <2>1. PICK q \in DOMAIN e : Nth(q) = k /\ e[q] = d.rules[k]
    BY <1>5, <1>9
  <2>2. place[q] \in DOMAIN t /\ Matches(t[place[q]])
    BY <1>2, <1>3, <1>9, <2>1
  <2>3. m <= place[q]
    BY <1>6, <2>2
  <2>4. place[q] \in Nat /\ place[p] \in Nat
    <3>1. place[q] \in DOMAIN e /\ place[p] \in DOMAIN e
      BY <1>7, <2>1
    <3>2. \A i \in DOMAIN e : i \in Nat
      BY <1>3
    <3> QED BY <3>1, <3>2
  <2>5. ~ (place[q] < place[p])
    BY <2>3, <2>4, <1>7
  <2>6. ~ (e[q].priority < e[p].priority \/ (e[q].priority = e[p].priority /\ q < p))
    BY <2>5, <1>2
  <2>7. e[q].priority \in Int /\ e[p].priority \in Int /\ q \in Nat /\ p \in Nat
    <3>1. e[q] \in FirewallRule /\ e[p] \in FirewallRule
      BY <1>1
    <3>2. q \in Nat /\ p \in Nat
      BY <1>3
    <3> QED BY <3>1, <3>2 DEF FirewallRule
  <2>8. j \in Nat /\ k \in Nat
    <3>1. DOMAIN d.rules = 1 .. Len(d.rules) /\ Len(d.rules) \in Nat
      OBVIOUS
    <3> QED BY <3>1, <1>8
  <2>9. q > p => k > j
    BY <1>5, <2>1, <2>7
  <2>10. q = p => k = j
    BY <2>1
  <2> HIDE DEF j
  <2> QED BY <2>1, <2>6, <2>7, <2>8, <2>9, <2>10, <1>8
<1> QED
  <2> HIDE DEF j
  <2> QED BY <1>8, <1>9 DEF Matches

(* pickRoute: no route that matches is more specific than the one that is  *)
(* picked, and one is picked if any matches.                               *)
LEMMA RoutePicked ==
  ASSUME NEW routes \in Seq(RoutingTableEntry), NEW dst
  PROVE  LET picked == PickRoute(routes, dst)
             matching == {r \in Range(routes) : RouteMatches(r, dst)}
         IN  IF matching = {} THEN picked = Nobody
             ELSE /\ picked \in matching
                  /\ \A r \in matching : EffectiveLength(r) <= EffectiveLength(picked)
<1> DEFINE N == Len(routes)
           Takes(r) == RouteMatches(r, dst)
           Better(best, r) == /\ Takes(r)
                              /\ best = Nobody \/ EffectiveLength(r) > EffectiveLength(best)
           Upto(f, m) == f = [k \in 0 .. m |->
                                IF k = 0 THEN Nobody
                                ELSE IF Better(f[k - 1], routes[k]) THEN routes[k] ELSE f[k - 1]]
           Best == CHOOSE f : Upto(f, N)
<1>1. /\ N \in Nat /\ DOMAIN routes = 1 .. N
      /\ \A k \in 1 .. N : routes[k] \in RoutingTableEntry /\ routes[k] # Nobody
      /\ \A k \in 1 .. N : EffectiveLength(routes[k]) \in Nat
  <2>1. \A r \in RoutingTableEntry : EffectiveLength(r) \in Nat
    BY AddressingAssumption DEF RoutingTableEntry, EffectiveLength, PrefixLengths
  <2> QED BY <2>1, ForwardingAssumption
<1> HIDE DEF Better, N
<1>2. \E f : Upto(f, N)
  <2> DEFINE bad == {m \in 0 .. N : ~ \E f : Upto(f, m)}
  <2>1. CASE bad = {}
    <3>1. N \in 0 .. N
      BY <1>1
    <3>2. N \notin bad
      BY <2>1
    <3> QED BY <3>1, <3>2
  <2>2. CASE bad # {}
    <3>1. PICK m \in bad : \A b \in bad : m <= b
      <4>1. bad \in SUBSET Nat
        BY <1>1
      <4> QED BY <4>1, <2>2, LeastNumber
    <3>2. CASE m = 0
      <4> DEFINE f == [k \in 0 .. 0 |-> Nobody]
      <4>1. Upto(f, 0)
        OBVIOUS
      <4> QED BY <4>1, <3>1, <3>2
    <3>3. CASE m # 0
      <4>1. m - 1 \in 0 .. N /\ m - 1 \notin bad
        <5>1. m \in 0 .. N
          BY <3>1
        <5> HIDE DEF bad
        <5> QED BY <5>1, <3>1, <3>3, <1>1
      <4>2. PICK f : Upto(f, m - 1)
        BY <4>1
      <4> DEFINE Next(b) == IF Better(b, routes[m]) THEN routes[m] ELSE b
                 g == [k \in 0 .. m |-> IF k = m THEN Next(f[m - 1]) ELSE f[k]]
      <4>3. Upto(g, m)
        <5>1. m \in 0 .. N
          BY <3>1
        <5>2. ASSUME NEW k \in 0 .. m
              PROVE  g[k] = IF k = 0 THEN Nobody
                            ELSE IF Better(g[k - 1], routes[k]) THEN routes[k] ELSE g[k - 1]
          <6>1. CASE k = m
            <7>1. g[k] = Next(f[m - 1]) /\ g[k - 1] = f[k - 1]
              <8> HIDE DEF Next
              <8> QED BY <6>1, <5>1, <3>3, <1>1
            <7> QED BY <7>1, <6>1, <3>3
          <6>2. CASE k # m
            <7>1. k \in 0 .. m - 1 /\ g[k] = f[k] /\ (k # 0 => g[k - 1] = f[k - 1])
              <8> HIDE DEF Next
              <8> QED BY <6>2, <5>1, <3>3, <1>1
            <7> QED BY <7>1, <4>2
          <6> QED BY <6>1, <6>2
        <5>3. g = [k \in 0 .. m |-> g[k]]
          OBVIOUS
        <5> HIDE DEF g
        <5> QED BY <5>2, <5>3
      <4> QED BY <4>3, <3>1
    <3> QED BY <3>2, <3>3
  <2> QED BY <2>1, <2>2
<1>3. Upto(Best, N)
  BY <1>2
<1>4. PickRoute(routes, dst) = Best[N]
  BY DEF PickRoute, Better, N
<1> HIDE DEF Best
<1>5. \A k \in 0 .. N : Best[k] = IF k = 0 THEN Nobody
                                  ELSE IF Better(Best[k - 1], routes[k]) THEN routes[k]
                                  ELSE Best[k - 1]
  BY <1>3
<1> HIDE DEF Upto
<1> DEFINE Found(k) == {i \in 1 .. k : Takes(routes[i])}
           Good(k) ==
             IF Found(k) = {} THEN Best[k] = Nobody
             ELSE /\ \E i \in Found(k) : Best[k] = routes[i]
                  /\ \A i \in Found(k) : EffectiveLength(routes[i]) <= EffectiveLength(Best[k])
<1>6. Good(0)
  BY <1>1, <1>5
<1>7. ASSUME NEW k \in 1 .. N, Good(k - 1)
      PROVE  Good(k)
  <2>1. k \in Nat /\ k - 1 \in 0 .. N /\ k \in 0 .. N /\ k # 0
    BY <1>1
  <2>2. Found(k) = Found(k - 1) \cup (IF Takes(routes[k]) THEN {k} ELSE {})
    <3>1. 1 .. k = (1 .. k - 1) \cup {k}
      <4>1. k \in Nat /\ k >= 1
        BY <1>1
      <4> QED BY <4>1
    <3> HIDE DEF Takes
    <3> QED BY <3>1
  <2>3. Best[k] = IF Better(Best[k - 1], routes[k]) THEN routes[k] ELSE Best[k - 1]
    BY <1>5, <2>1
  <2>4. Found(k - 1) \subseteq 1 .. N
    BY <1>1, <2>1
  <2> HIDE DEF Found, Takes
  <2>5. CASE ~ Takes(routes[k])
    <3>1. Best[k] = Best[k - 1] /\ Found(k) = Found(k - 1)
      BY <2>2, <2>3, <2>5 DEF Better
    <3> QED BY <3>1, <1>7
  <2>6. CASE Takes(routes[k]) /\ Found(k - 1) = {}
    <3>1. Best[k] = routes[k] /\ Found(k) = {k}
      BY <2>2, <2>3, <2>6, <1>7 DEF Better
    <3> QED BY <3>1, <1>1
  <2>7. CASE Takes(routes[k]) /\ Found(k - 1) # {}
    <3>1. PICK j \in Found(k - 1) : Best[k - 1] = routes[j]
      BY <1>7, <2>7
    <3>2. /\ \A i \in Found(k - 1) : EffectiveLength(routes[i]) <= EffectiveLength(routes[j])
          /\ routes[j] # Nobody /\ j \in 1 .. N /\ Found(k) = Found(k - 1) \cup {k}
      BY <1>1, <1>7, <2>2, <2>4, <2>7, <3>1
    <3>3. CASE EffectiveLength(routes[k]) > EffectiveLength(routes[j])
      <4>1. Best[k] = routes[k]
        BY <2>3, <2>7, <3>1, <3>3 DEF Better
      <4>2. \A i \in Found(k) : EffectiveLength(routes[i]) <= EffectiveLength(routes[k])
        BY <1>1, <2>4, <3>2, <3>3
      <4> QED BY <4>1, <4>2, <3>2
    <3>4. CASE ~ (EffectiveLength(routes[k]) > EffectiveLength(routes[j]))
      <4>1. Best[k] = routes[j]
        BY <2>3, <3>1, <3>2, <3>4 DEF Better
      <4>2. \A i \in Found(k) : EffectiveLength(routes[i]) <= EffectiveLength(routes[j])
        BY <1>1, <2>4, <3>2, <3>4
      <4> QED BY <4>1, <4>2, <3>1, <3>2
    <3> QED BY <3>3, <3>4
  <2> QED BY <2>5, <2>6, <2>7
<1>8. Good(N)
  <2> DEFINE bad == {k \in 0 .. N : ~ Good(k)}
  <2> HIDE DEF Good
  <2>1. ASSUME bad # {} PROVE FALSE
    <3>1. PICK m \in bad : \A b \in bad : m <= b
      <4>1. bad \in SUBSET Nat
        BY <1>1
      <4> QED BY <4>1, <2>1, LeastNumber
    <3>2. m \in 0 .. N /\ ~ Good(m)
      OBVIOUS
    <3>3. m # 0
      BY <3>2, <1>6
    <3>4. m \in 1 .. N /\ m - 1 \in 0 .. N /\ m - 1 \notin bad
      <4> HIDE DEF bad
      <4> QED BY <3>1, <3>2, <3>3, <1>1
    <3> QED BY <3>2, <3>4, <1>7
  <2> QED BY <2>1, <1>1
<1>9. {r \in Range(routes) : Takes(r)} = {routes[i] : i \in Found(N)}
  <2> HIDE DEF Takes
  <2> QED BY <1>1 DEF Range
<1> DEFINE matching == {r \in Range(routes) : Takes(r)}
<1>10. IF matching = {} THEN Best[N] = Nobody
       ELSE /\ Best[N] \in matching
            /\ \A r \in matching : EffectiveLength(r) <= EffectiveLength(Best[N])
  <2> HIDE DEF matching, Found, Takes
  <2>1. matching = {routes[i] : i \in Found(N)}
    BY <1>9 DEF matching
  <2> QED BY <2>1, <1>8
<1> QED BY <1>4, <1>10

-----------------------------------------------------------------------------
(* The layer 3 devices that the packet is past. *)
Passed == {i \in 2 .. walk.at - 1 : i <= Len(walk.path) /\ Dev(walk.path[i]).type \in Layer3}

(* The answer of makeError, and a trace that has left its source: what is  *)
(* true after every hop.  The TTL counts exactly the layer 3 devices       *)
(* behind the packet, and a packet that may not cross its segment is not   *)
(* past the device that stops it.                                          *)
Refused ==
  /\ walk.hops = <<Hop(request.src, "no_route", NoIp)>>
  /\ walk.l3Hops = 0 /\ walk.at = 2 /\ ~ walk.blocked

UnderWay ==
  /\ walk.path \in Seq(DOMAIN topology.dev)
  /\ walk.path[1] = request.src /\ walk.path[Len(walk.path)] = request.dst
  /\ walk.at \in 2 .. Len(walk.path) + (IF walk.blocked THEN 0 ELSE 1)
  /\ Len(walk.hops) = IF walk.blocked THEN walk.at ELSE walk.at - 1
  /\ walk.l3Hops <= Len(walk.hops) - 1
  /\ Cardinality(Passed) <= request.ttl
  /\ ~ walk.blocked => walk.l3Hops = Cardinality(Passed)
  /\ ~ walk.blocked /\ Segmented => walk.at <= SegBlockIndex

(* Rules of device n that a packet with this source address obeyed. *)
Obeyed(t, r, n, src) ==
  LET d == t.dev[n]
      dst == AddressAs(t.dev[r.dst], PublicDestination)
      Hits(rule) == rule.enabled /\ RuleMatches(rule, r, src, dst, FwDirection(src, dst))
  IN  d.type = "firewall" /\ d.rules # <<>> =>
        \E j \in DOMAIN d.rules :
          /\ Hits(d.rules[j]) /\ d.rules[j].action = "allow"
          /\ \A k \in DOMAIN d.rules : Hits(d.rules[k]) =>
               \/ d.rules[k].priority > d.rules[j].priority
               \/ d.rules[k].priority = d.rules[j].priority /\ k >= j

(* The inductive invariant.  FirewallsObeyed alone is not inductive: it    *)
(* must be known that the hops recorded are those of the devices behind.   *)
WalkInv ==
  /\ walk = Nobody <=> request = Nobody
  /\ walk # Nobody =>
       /\ topology \in Topologies /\ request \in Requests
       /\ walk \in WalkOver(DOMAIN topology.dev \cup {request.src})
       /\ walk.path = <<>> => Refused
       /\ walk.path # <<>> => UnderWay
       /\ \A i \in 2 .. Len(walk.path) :
            i < walk.at => Obeyed(topology, request, walk.path[i], walk.hops[i].src)

(* What a hop of the loop does to the walk, and when it goes on. *)
Meets(action, from, blocks) ==
  /\ Walking
  /\ action \in HopAction /\ from \in Ips \cup {NoIp} /\ blocks \in BOOLEAN
  /\ Push(action, from, blocks)
  /\ ~ blocks => /\ ~ AtSegment /\ ~ Expired
                 /\ Here.type = "firewall" /\ Here.rules # <<>> => Allowed

(* A packet carries an address, or says that it has none. *)
LEMMA AddressKnown ==
  ASSUME NEW t, Configured(t), NEW n \in DOMAIN t.dev, NEW public \in Ips
  PROVE  AddressAs(t.dev[n], public) \in Ips \cup {NoIp}
<1>1. t.dev[n].ifs \in Seq(NetworkInterface)
  BY DEF Configured
<1>2. t.dev[n].ifs # <<>> => t.dev[n].ifs[1] \in NetworkInterface
  BY <1>1
<1>3. t.dev[n].ifs # <<>> => t.dev[n].ifs[1].ip \in Ips \cup {NoIp}
  BY <1>2 DEF NetworkInterface
<1>4. Primary(t.dev[n]).ip \in Ips \cup {NoIp}
  BY <1>3 DEF Primary
<1> QED BY <1>4 DEF AddressAs

(* Before a hop: the device it reaches is one of the design. *)
LEMMA HereKnown ==
  ASSUME WalkInv, Walking
  PROVE  /\ walk.path # <<>> /\ UnderWay
         /\ walk.path \in Seq(DOMAIN topology.dev) /\ Len(walk.path) \in Nat
         /\ walk.at \in 2 .. Len(walk.path) /\ walk.path[walk.at] \in DOMAIN topology.dev
         /\ topology \in Topologies /\ request \in Requests /\ Configured(topology)
         /\ Here.ifs \in Seq(NetworkInterface) /\ Here.rules \in Seq(FirewallRule)
         /\ request.ttl \in Nat
<1>1. walk.path # <<>> /\ UnderWay /\ topology \in Topologies /\ request \in Requests
  BY DEF WalkInv, Walking
<1>2. walk.path \in Seq(DOMAIN topology.dev) /\ Len(walk.path) \in Nat
  BY <1>1 DEF UnderWay
<1>3. walk.at \in 1 .. Len(walk.path) /\ walk.at \in 2 .. Len(walk.path) + 1
  BY <1>1, <1>2 DEF Walking, UnderWay
<1>4. walk.at \in 2 .. Len(walk.path)
  BY <1>2, <1>3
<1>5. walk.path[walk.at] \in DOMAIN topology.dev
  BY <1>2, <1>3
<1>6. Configured(topology) /\ request.ttl \in Nat
  BY <1>1, ForwardingAssumption
<1> QED
  BY <1>1, <1>2, <1>4, <1>5, <1>6 DEF Configured, Here, Dev

(* Translation at the Internet edge yields an address. *)
LEMMA TranslatedKnown ==
  ASSUME WalkInv, Walking
  PROVE  walk.srcIp \in Ips \cup {NoIp} /\ Translated \in Ips \cup {NoIp}
<1>1. walk.srcIp \in Ips \cup {NoIp}
  BY DEF WalkInv, Walking, WalkOver
<1> DEFINE public == {i \in DOMAIN Here.ifs : Here.ifs[i].ip # NoIp /\ ~ IsPrivate(Here.ifs[i].ip)}
<1>2. \A i \in DOMAIN Here.ifs : i \in Nat /\ Here.ifs[i].ip \in Ips \cup {NoIp}
  <2>1. \A i \in DOMAIN Here.ifs : i \in Nat /\ Here.ifs[i] \in NetworkInterface
    BY HereKnown
  <2> QED BY <2>1 DEF NetworkInterface
<1>3. public # {} => Min(public) \in public
  <2>1. public \in SUBSET Nat
    BY <1>2
  <2>2. public # {} => \E m \in public : \A i \in public : m <= i
    BY <2>1, LeastNumber
  <2> HIDE DEF public
  <2> QED BY <2>2 DEF Min
<1>4. PublicNat \in Ips
  BY ForwardingAssumption
<1>5. public # {} => Here.ifs[Min(public)].ip \in Ips \cup {NoIp}
  BY <1>2, <1>3
<1>6. Translated \in {PublicNat, walk.srcIp} \/ (public # {} /\ Translated = Here.ifs[Min(public)].ip)
  BY DEF Translated
<1> QED BY <1>1, <1>4, <1>5, <1>6

(* Every kind of hop is a push, and goes on only where it may. *)
LEMMA MeetCases ==
  ASSUME WalkInv,
         \/ MeetSegment \/ MeetTtl \/ MeetPoweredOff \/ MeetFirewall \/ MeetRouter \/ MeetSwitch
         \/ MeetHelper \/ MeetInternet \/ MeetLayer7 \/ MeetHost
  PROVE  \E action, from, blocks : Meets(action, from, blocks)
<1>1. Walking
  BY DEF MeetSegment, MeetTtl, MeetPoweredOff, MeetFirewall, MeetRouter, MeetSwitch,
         MeetHelper, MeetInternet, MeetLayer7, MeetHost, Arrives
<1>2. walk.srcIp \in Ips \cup {NoIp} /\ Translated \in Ips \cup {NoIp}
  BY <1>1, TranslatedKnown
<1>0. /\ "no_route" \in HopAction /\ "ttl_exceeded" \in HopAction
      /\ "firewall_allow" \in HopAction /\ "firewall_drop" \in HopAction
      /\ "firewall_deny" \in HopAction /\ "delivered" \in HopAction
      /\ "route" \in HopAction /\ "switch_forward" \in HopAction
      /\ "port_closed" \in HopAction
  BY DEF HopAction
<1>3. CASE MeetSegment
  <2>1. Meets("no_route", walk.srcIp, TRUE)
    BY <1>0, <1>1, <1>2, <1>3 DEF Meets, MeetSegment, Block
  <2> QED BY <2>1
<1>4. CASE MeetTtl
  <2>1. Meets("ttl_exceeded", walk.srcIp, TRUE)
    BY <1>0, <1>1, <1>2, <1>4 DEF Meets, MeetTtl, Block
  <2> QED BY <2>1
<1>5. CASE MeetPoweredOff
  <2>1. Meets("no_route", walk.srcIp, TRUE)
    BY <1>0, <1>1, <1>2, <1>5 DEF Meets, MeetPoweredOff, Block
  <2> QED BY <2>1
<1>6. CASE MeetFirewall
  <2>1. CASE Allowed
    <3>1. Meets("firewall_allow", Translated, FALSE)
      BY <1>0, <1>1, <1>2, <1>6, <2>1 DEF Meets, MeetFirewall, Arrives
    <3> QED BY <3>1
  <2>2. CASE ~ Allowed
    <3>1. \/ Meets("firewall_drop", walk.srcIp, TRUE)
          \/ Meets("firewall_deny", walk.srcIp, TRUE)
      BY <1>0, <1>1, <1>2, <1>6, <2>2 DEF Meets, MeetFirewall, Arrives, Block
    <3> QED BY <3>1
  <2> QED BY <2>1, <2>2
<1>7. CASE MeetRouter
  <2>1. Here.type # "firewall" /\ ~ AtSegment /\ ~ Expired
    BY <1>7 DEF MeetRouter, Arrives, Routing
  <2>2. \/ Push("no_route", walk.srcIp, TRUE)
        \/ Push("delivered", Translated, FALSE) \/ Push("route", Translated, FALSE)
    BY <1>7 DEF MeetRouter, Block
  <2>3. \/ Meets("no_route", walk.srcIp, TRUE)
        \/ Meets("delivered", Translated, FALSE) \/ Meets("route", Translated, FALSE)
    BY <1>0, <1>1, <1>2, <2>1, <2>2 DEF Meets
  <2> QED BY <2>3
<1>8. CASE MeetSwitch
  <2>1. Here.type # "firewall" /\ ~ AtSegment /\ ~ Expired
    BY <1>8 DEF MeetSwitch, Arrives, Layer2
  <2>2. Meets("switch_forward", walk.srcIp, FALSE)
    BY <1>0, <1>1, <1>2, <1>8, <2>1 DEF Meets, MeetSwitch, Forward
  <2> QED BY <2>2
<1>9. CASE MeetHelper
  <2>1. Here.type # "firewall" /\ ~ AtSegment /\ ~ Expired
    BY <1>9 DEF MeetHelper, Arrives, Helpers
  <2>2. \/ Meets("delivered", walk.srcIp, FALSE) \/ Meets("switch_forward", walk.srcIp, FALSE)
    BY <1>0, <1>1, <1>2, <1>9, <2>1 DEF Meets, MeetHelper, Forward
  <2> QED BY <2>2
<1>10. CASE MeetInternet
  <2>1. Here.type # "firewall" /\ ~ AtSegment /\ ~ Expired
    BY <1>10 DEF MeetInternet, Arrives, Internet
  <2>2. \/ Meets("delivered", walk.srcIp, FALSE) \/ Meets("route", walk.srcIp, FALSE)
    BY <1>0, <1>1, <1>2, <1>10, <2>1 DEF Meets, MeetInternet, Forward
  <2> QED BY <2>2
<1>11. CASE MeetLayer7
  <2>1. Here.type # "firewall" /\ ~ AtSegment /\ ~ Expired
    BY <1>11 DEF MeetLayer7, Arrives, Layer7
  <2>2. \/ Push("port_closed", walk.srcIp, TRUE)
        \/ Push("delivered", walk.srcIp, FALSE) \/ Push("route", walk.srcIp, FALSE)
    BY <1>11 DEF MeetLayer7, Block, Forward
  <2>3. \/ Meets("port_closed", walk.srcIp, TRUE)
        \/ Meets("delivered", walk.srcIp, FALSE) \/ Meets("route", walk.srcIp, FALSE)
    BY <1>0, <1>1, <1>2, <2>1, <2>2 DEF Meets
  <2> QED BY <2>3
<1>12. CASE MeetHost
  <2>1. ~ Filters /\ ~ AtSegment /\ ~ Expired
    BY <1>12 DEF MeetHost
  <2>2. \/ Push("port_closed", walk.srcIp, TRUE)
        \/ Push("delivered", walk.srcIp, FALSE) \/ Push("switch_forward", walk.srcIp, FALSE)
    BY <1>12 DEF MeetHost, Block, Forward
  <2>3. \/ Meets("port_closed", walk.srcIp, TRUE)
        \/ Meets("delivered", walk.srcIp, FALSE) \/ Meets("switch_forward", walk.srcIp, FALSE)
    BY <1>0, <1>1, <1>2, <2>1, <2>2 DEF Meets, Filters
  <2> QED BY <2>3
<1> QED
  BY <1>3, <1>4, <1>5, <1>6, <1>7, <1>8, <1>9, <1>10, <1>11, <1>12
(* Positions on a path are finitely many. *)
LEMMA PartFinite ==
  ASSUME NEW n \in Nat, NEW P, P \in SUBSET (2 .. n)
  PROVE  IsFiniteSet(P) /\ Cardinality(P) \in Nat
<1>1. IsFiniteSet(2 .. n)
  BY FS_Interval
<1> QED BY <1>1, FS_Subset, FS_CardinalityType

(* The packet is stopped somewhere on its path. *)
LEMMA StopKnown ==
  ASSUME walk.path \in Seq(DOMAIN topology.dev), walk.path # <<>>
  PROVE  SegBlockIndex \in 1 .. Len(walk.path)
<1> DEFINE stops == {i \in 2 .. Len(walk.path) : Dev(walk.path[i]).type \in Layer2}
<1>1. Len(walk.path) \in Nat \ {0}
  OBVIOUS
<1>2. stops # {} => Min(stops) \in stops
  <2>1. stops \in SUBSET Nat
    OBVIOUS
  <2>2. stops # {} => \E m \in stops : \A i \in stops : m <= i
    BY <2>1, LeastNumber
  <2> HIDE DEF stops
  <2> QED BY <2>2 DEF Min
<1>3. SegBlockIndex = IF stops = {} THEN Len(walk.path) ELSE Min(stops)
  BY DEF SegBlockIndex
<1>4. \A i \in stops : i \in 1 .. Len(walk.path)
  BY <1>1
<1> HIDE DEF stops
<1> QED BY <1>1, <1>2, <1>3, <1>4

(* A firewall that lets the packet on has a rule that says so. *)
LEMMA AllowedObeys ==
  ASSUME WalkInv, Walking, Here.type = "firewall" /\ Here.rules # <<>> => Allowed
  PROVE  Obeyed(topology, request, walk.path[walk.at], walk.srcIp)
<1> DEFINE direction == FwDirection(walk.srcIp, DstIp)
           Hits(rule) == rule.enabled /\ RuleMatches(rule, request, walk.srcIp, DstIp, direction)
<1>1. Here.rules \in Seq(FirewallRule)
  BY HereKnown
<1>2. ASSUME Allowed
      PROVE  \E j \in DOMAIN Here.rules :
               /\ Verdict = Here.rules[j] /\ Hits(Here.rules[j])
               /\ \A k \in DOMAIN Here.rules : Hits(Here.rules[k]) =>
                    \/ Here.rules[k].priority > Here.rules[j].priority
                    \/ Here.rules[k].priority = Here.rules[j].priority /\ k >= j
  <2>1. Verdict = CheckFirewallRules(Here, request, walk.srcIp, DstIp, direction)
    BY DEF Verdict
  <2>2. Verdict # Nobody
    BY <1>2 DEF Allowed
  <2> HIDE DEF direction
  <2> QED BY <1>1, <2>1, <2>2, FirewallDecides
<1>3. ASSUME Here.type = "firewall", Here.rules # <<>>
      PROVE  \E j \in DOMAIN Here.rules :
               /\ Hits(Here.rules[j]) /\ Here.rules[j].action = "allow"
               /\ \A k \in DOMAIN Here.rules : Hits(Here.rules[k]) =>
                    \/ Here.rules[k].priority > Here.rules[j].priority
                    \/ Here.rules[k].priority = Here.rules[j].priority /\ k >= j
  <2>1. Allowed /\ Verdict.action = "allow"
    BY <1>3 DEF Allowed
  <2> HIDE DEF Hits
  <2> QED BY <1>2, <2>1
<1>4. Here = topology.dev[walk.path[walk.at]]
  BY DEF Here, Dev
<1>5. DstIp = AddressAs(topology.dev[request.dst], PublicDestination)
  BY DEF DstIp, Dst, Dev
<1> QED BY <1>3, <1>4, <1>5 DEF Obeyed

(* One more hop. *)
LEMMA PushKeeps ==
  ASSUME WalkInv, NEW action, NEW from, NEW blocks, Meets(action, from, blocks)
  PROVE  WalkInv'
<1> DEFINE nodes == DOMAIN topology.dev \cup {request.src}
           n == walk.path[walk.at]
           routed == IF Here.type \in Layer3 THEN 1 ELSE 0
           next == IF blocks THEN walk.at ELSE walk.at + 1
           hop == Hop(n, action, walk.srcIp)
<1>1. /\ walk.path # <<>> /\ UnderWay
      /\ walk.path \in Seq(DOMAIN topology.dev) /\ Len(walk.path) \in Nat
      /\ walk.at \in 2 .. Len(walk.path) /\ n \in DOMAIN topology.dev
      /\ topology \in Topologies /\ request \in Requests /\ Configured(topology)
      /\ request.ttl \in Nat
  BY HereKnown DEF Meets
<1>2. /\ walk # Nobody /\ walk \in WalkOver(nodes) /\ walk.blocked = FALSE /\ request # Nobody
      /\ \A i \in 2 .. Len(walk.path) :
           i < walk.at => Obeyed(topology, request, walk.path[i], walk.hops[i].src)
  BY DEF Meets, Walking, WalkInv, WalkOver
<1>3. blocks \in BOOLEAN /\ from \in Ips \cup {NoIp} /\ action \in HopAction
  BY DEF Meets
<1>4. /\ walk' = [path |-> walk.path, at |-> next, l3Hops |-> walk.l3Hops + routed, srcIp |-> from,
                  hops |-> Append(walk.hops, hop), blocked |-> blocks]
      /\ topology' = topology /\ request' = request
  <2>1. walk' = [walk EXCEPT !.hops = Append(@, hop), !.srcIp = from, !.l3Hops = @ + routed,
                             !.blocked = blocks, !.at = IF blocks THEN @ ELSE @ + 1]
    BY DEF Meets, Push
  <2>2. topology' = topology /\ request' = request
    BY DEF Meets, Push
  <2> HIDE DEF hop, routed, nodes
  <2> QED BY <1>2, <2>1, <2>2 DEF WalkOver
<1>5. /\ walk'.path = walk.path /\ walk'.at = next /\ walk'.l3Hops = walk.l3Hops + routed
      /\ walk'.hops = Append(walk.hops, hop)
  BY <1>4
<1>6. walk'.blocked = blocks
  BY <1>4
<1>7. /\ walk.hops \in Seq(HopOf(nodes)) /\ Len(walk.hops) \in Nat /\ walk.l3Hops \in Nat
      /\ routed \in {0, 1} /\ walk.srcIp \in Ips \cup {NoIp}
  BY <1>2 DEF WalkOver
<1>8. next \in Nat /\ next \in {walk.at, walk.at + 1}
  BY <1>1
<1>9. walk' \in WalkOver(nodes)
  <2>1. hop \in HopOf(nodes)
    BY <1>1, <1>3, <1>7 DEF Hop, HopOf
  <2>2. Append(walk.hops, hop) \in Seq(HopOf(nodes))
    <3> HIDE DEF hop, nodes
    <3> QED BY <1>7, <2>1
  <2>3. walk.l3Hops + routed \in Nat /\ walk.path \in Seq(nodes)
    BY <1>1, <1>7
  <2> HIDE DEF hop, nodes, routed, next
  <2> QED BY <1>3, <1>4, <1>8, <2>2, <2>3 DEF WalkOver
<1>10. walk' # Nobody
  BY <1>1, <1>9, ForwardingAssumption
<1>11. Len(walk.hops) = walk.at - 1 /\ Len(walk'.hops) = walk.at
  <2>1. Len(walk.hops) = walk.at - 1
    BY <1>1, <1>2 DEF UnderWay
  <2> HIDE DEF hop
  <2> QED BY <1>1, <1>5, <1>7, <2>1
<1>12. /\ IsFiniteSet(Passed) /\ Cardinality(Passed) \in Nat
       /\ walk.l3Hops = Cardinality(Passed) /\ Cardinality(Passed) <= request.ttl
  <2>1. Passed \in SUBSET (2 .. walk.at) /\ walk.at \in Nat
    BY <1>1 DEF Passed
  <2> QED BY <1>1, <1>2, <2>1, PartFinite DEF UnderWay
<1>13. /\ Cardinality(Passed') <= request.ttl
       /\ ~ blocks => walk'.l3Hops = Cardinality(Passed')
  <2> DEFINE L3(i) == topology.dev[walk.path[i]].type \in Layer3
  <2>1. Passed' = {i \in 2 .. next - 1 : i <= Len(walk.path) /\ L3(i)}
    BY <1>4, <1>5 DEF Passed, Dev
  <2>2. Passed = {i \in 2 .. walk.at - 1 : i <= Len(walk.path) /\ L3(i)}
    BY DEF Passed, Dev
  <2>3. routed = IF L3(walk.at) THEN 1 ELSE 0
    BY DEF Here, Dev
  <2>4. ~ blocks => ~ (L3(walk.at) /\ walk.l3Hops + 1 > request.ttl)
    BY DEF Meets, Expired, Here, Dev
  <2> HIDE DEF L3, routed
  <2>5. CASE blocks
    <3>1. Passed' = Passed
      BY <2>1, <2>2, <2>5
    <3> QED BY <3>1, <1>12, <2>5
  <2>6. CASE ~ blocks /\ ~ L3(walk.at)
    <3>1. Passed' = Passed
      BY <1>1, <2>1, <2>2, <2>6
    <3>2. walk'.l3Hops = walk.l3Hops
      BY <1>5, <1>7, <2>3, <2>6
    <3> QED BY <3>1, <3>2, <1>12
  <2>7. CASE ~ blocks /\ L3(walk.at)
    <3>1. Passed' = Passed \cup {walk.at} /\ walk.at \notin Passed
      BY <1>1, <2>1, <2>2, <2>7
    <3>2. Cardinality(Passed') = Cardinality(Passed) + 1
      BY <3>1, <1>12, FS_AddElement
    <3>3. walk'.l3Hops = walk.l3Hops + 1 /\ walk.l3Hops + 1 <= request.ttl
      BY <1>1, <1>5, <1>7, <2>3, <2>4, <2>7
    <3> QED BY <3>2, <3>3, <1>12
  <2> QED BY <2>5, <2>6, <2>7
<1>14. ~ blocks /\ Segmented' => walk'.at <= SegBlockIndex'
  <2>1. Segmented' = Segmented
    BY <1>4, <1>5 DEF Segmented, OnPath, VlanMismatch, CrossSubnet, Src, Dst, Dev
  <2>2. SegBlockIndex' = SegBlockIndex
    BY <1>4, <1>5 DEF SegBlockIndex, Dev
  <2>3. Segmented => walk.at <= SegBlockIndex
    BY <1>1, <1>2 DEF UnderWay
  <2>4. ~ blocks /\ Segmented => walk.at # SegBlockIndex
    BY DEF Meets, AtSegment
  <2>5. SegBlockIndex \in 1 .. Len(walk.path)
    BY <1>1, StopKnown
  <2> QED BY <1>1, <1>5, <2>1, <2>2, <2>3, <2>4, <2>5
<1>15. UnderWay'
  <2>1. walk'.path \in Seq(DOMAIN topology'.dev)
    BY <1>1, <1>4, <1>5
  <2>2. walk'.path[1] = request'.src /\ walk'.path[Len(walk'.path)] = request'.dst
    BY <1>1, <1>4, <1>5 DEF UnderWay
  <2>3. /\ walk'.at \in 2 .. Len(walk'.path) + (IF walk'.blocked THEN 0 ELSE 1)
        /\ Len(walk'.hops) = IF walk'.blocked THEN walk'.at ELSE walk'.at - 1
    <3> HIDE DEF next
    <3>1. CASE blocks
      <4>1. next = walk.at
        BY <3>1 DEF next
      <4>2. (IF walk'.blocked THEN 0 ELSE 1) = 0 /\ walk'.blocked
        BY <3>1, <1>6
      <4> QED BY <4>1, <4>2, <1>1, <1>5, <1>11
    <3>2. CASE ~ blocks
      <4>1. next = walk.at + 1
        BY <3>2 DEF next
      <4>2. (IF walk'.blocked THEN 0 ELSE 1) = 1 /\ ~ walk'.blocked
        BY <3>2, <1>6
      <4> QED BY <4>1, <4>2, <1>1, <1>5, <1>11
    <3> QED BY <3>1, <3>2
  <2>4. walk'.l3Hops <= Len(walk'.hops) - 1
    <3>1. walk.l3Hops <= Len(walk.hops) - 1
      BY <1>1 DEF UnderWay
    <3> HIDE DEF routed
    <3> QED BY <3>1, <1>1, <1>5, <1>7, <1>11
  <2>5. Cardinality(Passed') <= request'.ttl
    BY <1>4, <1>13
  <2>6. ~ walk'.blocked => walk'.l3Hops = Cardinality(Passed')
    BY <1>6, <1>13
  <2>7. ~ walk'.blocked /\ Segmented' => walk'.at <= SegBlockIndex'
    BY <1>6, <1>14
  <2> QED BY <2>1, <2>2, <2>3, <2>4, <2>5, <2>6, <2>7 DEF UnderWay
<1>16. ASSUME NEW i \in 2 .. Len(walk'.path), i < walk'.at
       PROVE  Obeyed(topology', request', walk'.path[i], walk'.hops[i].src)
  <2>1. CASE i < walk.at
    <3>1. walk'.hops[i] = walk.hops[i]
      <4>1. i \in 1 .. Len(walk.hops)
        BY <1>1, <1>11, <2>1
      <4> HIDE DEF hop
      <4> QED BY <4>1, <1>5, <1>7
    <3>2. i \in 2 .. Len(walk.path)
      BY <1>5
    <3> QED BY <1>2, <1>4, <1>5, <2>1, <3>1, <3>2
  <2>2. CASE i >= walk.at
    <3>1. i = walk.at /\ ~ blocks
      BY <1>1, <1>5, <1>16, <2>2
    <3>2. walk'.hops[i] = hop
      <4>1. i = Len(walk.hops) + 1
        BY <3>1, <1>1, <1>11
      <4> HIDE DEF hop
      <4> QED BY <4>1, <1>5, <1>7
    <3>3. walk'.hops[i].src = walk.srcIp
      BY <3>2 DEF Hop
    <3>4. Obeyed(topology, request, walk.path[walk.at], walk.srcIp)
      BY <3>1, AllowedObeys DEF Meets
    <3> QED BY <3>1, <3>3, <3>4, <1>4, <1>5
  <2> QED BY <1>1, <2>1, <2>2
<1>17. walk'.path # <<>>
  BY <1>1, <1>5
<1> QED
  BY <1>1, <1>2, <1>4, <1>9, <1>10, <1>15, <1>16, <1>17 DEF WalkInv

(* A new trace. *)
LEMMA StartKeeps ==
  ASSUME NEW t \in Topologies, NEW r \in Requests, TracePacket(t, r)
  PROVE  WalkInv'
<1> DEFINE src == AddressAs(t.dev[r.src], PublicSource)
           hops == <<Hop(r.src, "start", src)>>
           nodes == DOMAIN t.dev \cup {r.src}
           wires == {w \in t.wires : w \subseteq DOMAIN t.dev}
<1>1. /\ r.src \in DOMAIN t.dev /\ r.dst \in DOMAIN t.dev
      /\ topology' = t /\ request' = r
  BY DEF TracePacket, Numbered
<1>2. Configured(t) /\ IsFiniteSet(t.wires) /\ r.ttl \in Nat
  BY ForwardingAssumption DEF Configured
<1>3. src \in Ips \cup {NoIp}
  BY <1>1, <1>2, AddressKnown, ForwardingAssumption
<1>4. PICK p \in TracePaths(t, r) : walk' = Result(p, src, hops)
  BY DEF TracePacket
<1>5. p \in Seq(DOMAIN t.dev) /\ Len(p) \in Nat \ {0} /\ p[1] = r.src /\ p[Len(p)] = r.dst
  <2>1. IsFiniteSet(wires)
    <3>1. wires \in SUBSET t.wires
      OBVIOUS
    <3> HIDE DEF wires
    <3> QED BY <3>1, <1>2, FS_Subset
  <2>2. \A w \in wires : w \subseteq DOMAIN t.dev
    OBVIOUS
  <2>3. p \in ShortestPaths(r.src, r.dst, wires)
    BY DEF TracePaths
  <2> DEFINE places == DOMAIN t.dev
  <2>4. r.src \in places /\ \A w \in wires : w \subseteq places
    BY <1>1, <2>2
  <2> HIDE DEF wires, places
  <2>5. p \in Seq(places) /\ Len(p) \in Nat \ {0} /\ p[1] = r.src /\ p[Len(p)] = r.dst
    BY <2>1, <2>3, <2>4, PathsFound
  <2> QED BY <2>5 DEF places
<1>6. walk' = [path |-> p, at |-> 2, l3Hops |-> 0, srcIp |-> src, hops |-> hops, blocked |-> FALSE]
  BY <1>4 DEF Result
<1>7. hops \in Seq(HopOf(nodes)) /\ Len(hops) = 1
  <2>1. "start" \in HopAction
    BY DEF HopAction
  <2>2. Hop(r.src, "start", src) \in HopOf(nodes)
    <3> HIDE DEF src
    <3> QED BY <1>1, <1>3, <2>1 DEF Hop, HopOf
  <2> HIDE DEF nodes, src
  <2> QED BY <2>2
<1>8. walk' \in WalkOver(nodes)
  <2>1. p \in Seq(nodes) /\ 2 \in Nat /\ 0 \in Nat
    BY <1>5
  <2> HIDE DEF nodes, src, hops
  <2> QED BY <1>3, <1>6, <1>7, <2>1 DEF WalkOver
<1>9. walk' # Nobody /\ r # Nobody
  BY <1>8, ForwardingAssumption
<1>10. /\ walk'.path = p /\ walk'.at = 2 /\ walk'.l3Hops = 0 /\ walk'.hops = hops
       /\ walk'.blocked = FALSE
  BY <1>6
<1>11. Passed' = {} /\ Cardinality(Passed') = 0
  <2>1. Passed' = {}
    BY <1>10 DEF Passed
  <2> QED BY <2>1, FS_EmptySet
<1>12. Segmented' => 2 <= SegBlockIndex'
  <2>1. Len(p) = 1 => ~ Segmented'
    <3>1. Len(p) = 1 => r.src = r.dst
      BY <1>5
    <3> QED BY <3>1, <1>1 DEF Segmented, VlanMismatch, CrossSubnet, Src, Dst, Dev
  <2> DEFINE stops == {i \in 2 .. Len(p) : t.dev[p[i]].type \in Layer2}
  <2>2. SegBlockIndex' = IF stops = {} THEN Len(p) ELSE Min(stops)
    BY <1>1, <1>10 DEF SegBlockIndex, Dev
  <2>3. stops # {} => Min(stops) \in stops
    <3>1. stops \in SUBSET Nat
      BY <1>5
    <3>2. stops # {} => \E m \in stops : \A i \in stops : m <= i
      BY <3>1, LeastNumber
    <3> HIDE DEF stops
    <3> QED BY <3>2 DEF Min
  <2>4. \A i \in stops : i \in Nat /\ 2 <= i
    BY <1>5
  <2> HIDE DEF stops
  <2>5. Len(p) # 1 => 2 <= SegBlockIndex'
    <3>1. CASE stops = {}
      <4>1. SegBlockIndex' = Len(p)
        BY <2>2, <3>1
      <4> QED BY <4>1, <1>5
    <3>2. CASE stops # {}
      <4>1. SegBlockIndex' \in stops
        BY <2>2, <2>3, <3>2
      <4> QED BY <4>1, <2>4
    <3> QED BY <3>1, <3>2
  <2> QED BY <2>1, <2>5
<1>13. UnderWay'
  <2>1. (IF walk'.blocked THEN 0 ELSE 1) = 1 /\ ~ walk'.blocked
    BY <1>10
  <2> HIDE DEF hops
  <2>2. walk'.path \in Seq(DOMAIN topology'.dev)
    BY <1>1, <1>5, <1>10
  <2>3. walk'.path[1] = request'.src /\ walk'.path[Len(walk'.path)] = request'.dst
    BY <1>1, <1>5, <1>10
  <2>4. /\ walk'.at \in 2 .. Len(walk'.path) + (IF walk'.blocked THEN 0 ELSE 1)
        /\ Len(walk'.hops) = IF walk'.blocked THEN walk'.at ELSE walk'.at - 1
    <3>1. Len(walk'.hops) = walk'.at - 1
      BY <1>7, <1>10
    <3> QED BY <1>5, <1>10, <2>1, <3>1
  <2>5. walk'.l3Hops <= Len(walk'.hops) - 1
    <3>1. Len(walk'.hops) = 1 /\ walk'.l3Hops = 0
      BY <1>7, <1>10
    <3> QED BY <3>1
  <2>6. Cardinality(Passed') <= request'.ttl /\ walk'.l3Hops = Cardinality(Passed')
    BY <1>1, <1>2, <1>10, <1>11
  <2>7. Segmented' => walk'.at <= SegBlockIndex'
    BY <1>10, <1>12
  <2> QED BY <2>2, <2>3, <2>4, <2>5, <2>6, <2>7 DEF UnderWay
<1>14. walk'.path # <<>>
  BY <1>5, <1>10
<1>15. \A i \in 2 .. Len(walk'.path) : ~ (i < walk'.at)
  BY <1>5, <1>10
<1> QED
  BY <1>1, <1>8, <1>9, <1>13, <1>14, <1>15 DEF WalkInv

(* A trace that does not leave its source. *)
LEMMA RefusalKeeps ==
  ASSUME NEW t \in Topologies, NEW r \in Requests, Refuse(t, r)
  PROVE  WalkInv'
<1> DEFINE hops == <<Hop(r.src, "no_route", NoIp)>>
           nodes == DOMAIN t.dev \cup {r.src}
<1>1. /\ walk' = [path |-> <<>>, at |-> 2, l3Hops |-> 0, srcIp |-> NoIp, hops |-> hops,
                  blocked |-> FALSE]
      /\ topology' = t /\ request' = r
  BY DEF Refuse, Result
<1>2. hops \in Seq(HopOf(nodes)) /\ NoIp \in Ips \cup {NoIp}
  <2>1. "no_route" \in HopAction
    BY DEF HopAction
  <2>2. Hop(r.src, "no_route", NoIp) \in HopOf(nodes)
    BY <2>1 DEF Hop, HopOf
  <2> HIDE DEF nodes
  <2> QED BY <2>2
<1>3. walk' \in WalkOver(nodes)
  <2>1. <<>> \in Seq(nodes) /\ 2 \in Nat /\ 0 \in Nat
    OBVIOUS
  <2> HIDE DEF nodes, hops
  <2> QED BY <1>1, <1>2, <2>1 DEF WalkOver
<1>4. walk' # Nobody /\ r # Nobody
  BY <1>3, ForwardingAssumption
<1>5. walk'.path = <<>> /\ walk'.hops = hops /\ walk'.l3Hops = 0 /\ walk'.at = 2
  BY <1>1
<1>6. ~ walk'.blocked
  BY <1>1
<1>7. Refused' /\ Len(walk'.path) = 0
  BY <1>1, <1>5, <1>6 DEF Refused
<1>8. \A i \in 2 .. Len(walk'.path) : FALSE
  BY <1>7
<1> QED BY <1>1, <1>3, <1>4, <1>5, <1>7, <1>8 DEF WalkInv

(* Every trace of every packet through every design keeps WalkInv. *)
THEOREM WalksSound == ForwardingSpec => []WalkInv
<1>1. ForwardingInit => WalkInv
  BY DEF ForwardingInit, WalkInv
<1>2. ASSUME WalkInv, [ForwardingNext]_forwardingVars PROVE WalkInv'
  <2>1. CASE walk = Nobody /\ \E t \in Topologies, r \in Requests : Refuse(t, r) \/ TracePacket(t, r)
    BY <2>1, StartKeeps, RefusalKeeps
  <2>2. CASE \/ MeetSegment \/ MeetTtl \/ MeetPoweredOff \/ MeetFirewall \/ MeetRouter
             \/ MeetSwitch \/ MeetHelper \/ MeetInternet \/ MeetLayer7 \/ MeetHost
    <3>1. \E action, from, blocks : Meets(action, from, blocks)
      BY <1>2, <2>2, MeetCases
    <3> QED BY <1>2, <3>1, PushKeeps
  <2>3. CASE Answer
    BY <2>3 DEF Answer, WalkInv
  <2>4. CASE UNCHANGED forwardingVars
    BY <1>2, <2>4 DEF forwardingVars, WalkInv, Refused, UnderWay, Passed, Segmented, OnPath,
       VlanMismatch, CrossSubnet, Src, Dst, Dev, SegBlockIndex
  <2> QED BY <1>2, <2>1, <2>2, <2>3, <2>4 DEF ForwardingNext
<1> QED BY <1>1, <1>2, PTL DEF ForwardingSpec

(* The network of an address is a number, and 0.0.0.0/0 holds them all. *)
LEMMA NetworkKnown ==
  ASSUME NEW ip \in Ips, NEW len \in PrefixLengths
  PROVE  NetworkOf(ip, len) \in Int /\ (len = 0 => NetworkOf(ip, len) = 0)
<1>1. Width \in Nat /\ Width - len \in Nat
  BY AddressingAssumption DEF PrefixLengths
<1>2. BlockSize(len) \in Nat \ {0} /\ (len = 0 => BlockSize(len) = 2 ^ Width)
  BY <1>1, PowerPositive DEF BlockSize
<1>3. 2 ^ Width \in Nat \ {0}
  BY <1>1, PowerPositive
<1> DEFINE all == 2 ^ Width
           size == BlockSize(len)
<1>4. ip \in 0 .. all - 1
  BY DEF Ips
<1> HIDE DEF all, size
<1>5. /\ all \in Nat \ {0} /\ size \in Nat \ {0} /\ (len = 0 => size = all)
      /\ NetworkOf(ip, len) = ip - (ip % size)
  BY <1>2, <1>3 DEF all, size, NetworkOf
<1>6. ip \in Nat /\ ip % size \in Int /\ ip % all = ip
  BY <1>4, <1>5
<1> QED BY <1>5, <1>6

(* What WalkInv says of firewalls, of a delivered packet, of TTL and routes. *)
LEMMA WalkFirewalls == WalkInv => FirewallsObeyed
  BY DEF WalkInv, FirewallsObeyed, Obeyed, Dev, DstIp, Dst

LEMMA WalkSegments ==
  ASSUME WalkInv, Success
  PROVE  ~ Segmented
<1>1. walk # Nobody /\ walk.blocked = FALSE /\ walk.at \notin DOMAIN walk.path
  BY DEF Success, Finished, Walking, WalkInv, WalkOver
<1>2. PICK i \in DOMAIN walk.hops : walk.hops[i].action = "delivered"
  BY DEF Success
<1>3. walk.path # <<>>
  <2>1. ASSUME Refused PROVE FALSE
    <3>1. walk.hops = <<Hop(request.src, "no_route", NoIp)>>
      BY <2>1 DEF Refused
    <3>2. walk.hops[i] = Hop(request.src, "no_route", NoIp)
      BY <1>2, <3>1
    <3> QED BY <1>2, <3>2 DEF Hop
  <2> QED BY <1>1, <2>1 DEF WalkInv
<1>4. UnderWay
  BY <1>1, <1>3 DEF WalkInv
<1>5. walk.path \in Seq(DOMAIN topology.dev) /\ Len(walk.path) \in Nat
  BY <1>4 DEF UnderWay
<1>6. walk.at = Len(walk.path) + 1
  <2>1. walk.at \in 2 .. Len(walk.path) + 1
    BY <1>1, <1>4 DEF UnderWay
  <2> QED BY <2>1, <1>1, <1>5
<1>7. Segmented => walk.at <= SegBlockIndex
  BY <1>1, <1>4 DEF UnderWay
<1>8. SegBlockIndex \in 1 .. Len(walk.path)
  BY <1>3, <1>5, StopKnown
<1> QED BY <1>5, <1>6, <1>7, <1>8

LEMMA WalkRouted ==
  ASSUME WalkInv
  PROVE  RoutingSound
<1>1. ASSUME walk # Nobody
      PROVE  /\ topology \in Topologies /\ request \in Requests /\ request.ttl \in Nat
             /\ Configured(topology) /\ walk \in WalkOver(DOMAIN topology.dev \cup {request.src})
             /\ walk.path = <<>> => Refused
             /\ walk.path # <<>> => UnderWay
  BY <1>1, ForwardingAssumption DEF WalkInv
<1>2. ASSUME walk # Nobody
      PROVE  /\ walk.l3Hops \in 0 .. Len(walk.path) /\ walk.srcIp \in Ips \cup {NoIp}
             /\ Len(walk.hops) = IF walk.path = <<>> THEN 1
                                 ELSE walk.at - (IF walk.blocked THEN 0 ELSE 1)
  <2>1. /\ walk.srcIp \in Ips \cup {NoIp} /\ walk.l3Hops \in Nat /\ walk.blocked \in BOOLEAN
        /\ Len(walk.path) \in Nat /\ Len(walk.hops) \in Nat
    BY <1>1, <1>2 DEF WalkOver
  <2>2. CASE walk.path = <<>>
    <3>1. Len(walk.hops) = 1 /\ walk.l3Hops = 0
      BY <1>1, <1>2, <2>2 DEF Refused
    <3> QED BY <2>1, <2>2, <3>1
  <2>3. CASE walk.path # <<>> /\ walk.blocked
    <3>1. /\ walk.at \in 2 .. Len(walk.path) + 0 /\ Len(walk.hops) = walk.at
          /\ walk.l3Hops <= Len(walk.hops) - 1
      BY <1>1, <1>2, <2>3 DEF UnderWay
    <3>2. walk.at - (IF walk.blocked THEN 0 ELSE 1) = walk.at - 0
      BY <2>3
    <3>3. walk.l3Hops \in 0 .. Len(walk.path) /\ walk.at - 0 = walk.at
      BY <2>1, <3>1
    <3> QED BY <2>1, <2>3, <3>1, <3>2, <3>3
  <2>4. CASE walk.path # <<>> /\ ~ walk.blocked
    <3>1. /\ walk.at \in 2 .. Len(walk.path) + 1 /\ Len(walk.hops) = walk.at - 1
          /\ walk.l3Hops <= Len(walk.hops) - 1
      BY <1>1, <1>2, <2>4 DEF UnderWay
    <3>2. walk.at - (IF walk.blocked THEN 0 ELSE 1) = walk.at - 1
      BY <2>4
    <3>3. walk.l3Hops \in 0 .. Len(walk.path)
      BY <2>1, <3>1
    <3> QED BY <2>1, <2>4, <3>1, <3>2, <3>3
  <2> QED BY <2>1, <2>2, <2>3, <2>4
<1>3. ForwardingTypeOK
  BY <1>1, <1>2 DEF ForwardingTypeOK, WalkInv
<1>4. RoutedWithinTtl
  <2>1. ASSUME walk # Nobody
        PROVE  Cardinality(Passed) <= request.ttl
    <3>1. CASE walk.path = <<>>
      <4>1. Passed = {}
        <5>1. walk.at = 2
          BY <1>1, <2>1, <3>1 DEF Refused
        <5> QED BY <5>1 DEF Passed
      <4>2. Cardinality(Passed) = 0
        BY <4>1, FS_EmptySet
      <4> QED BY <1>1, <2>1, <4>2
    <3>2. CASE walk.path # <<>>
      BY <1>1, <2>1, <3>2 DEF UnderWay
    <3> QED BY <3>1, <3>2
  <2> QED BY <2>1 DEF RoutedWithinTtl, Passed
<1>5. LongestPrefixPicked
  <2>1. ASSUME walk # Nobody, NEW n \in DOMAIN topology.dev
        PROVE  topology.dev[n].routes \in Seq(RoutingTableEntry)
    BY <1>1, <2>1 DEF Configured
  <2> QED BY <2>1, RoutePicked DEF LongestPrefixPicked
<1> QED BY <1>3, <1>4, <1>5 DEF RoutingSound

(* Two devices a packet went between without a router have one network, so *)
(* each is in the other's ARP table.                                       *)
LEMMA WalkArp ==
  ASSUME WalkInv
  PROVE  DeliveredMeansArp
<1> DEFINE A == Primary(Src)
           B == Primary(Dst)
<1>1. SUFFICES ASSUME Success, ~ OnPath(Layer3), A.ip # NoIp, A.prefix # NoPrefix,
                      B.ip # NoIp, B.prefix # NoPrefix, A.ip # B.ip
               PROVE  B.ip \in BuildArp(topology, request.src) /\ A.ip \in BuildArp(topology, request.dst)
  BY DEF DeliveredMeansArp, Src, Dst
<1>2. walk # Nobody /\ topology \in Topologies /\ Configured(topology)
  BY <1>1, ForwardingAssumption DEF Success, Finished, WalkInv
<1>3. UnderWay /\ walk.path # <<>>
  <2>1. walk.path # <<>>
    <3>1. ASSUME Refused PROVE FALSE
      <4>1. \A i \in DOMAIN walk.hops : walk.hops[i] = Hop(request.src, "no_route", NoIp)
        BY <3>1 DEF Refused
      <4>2. \A i \in DOMAIN walk.hops : walk.hops[i].action = "no_route"
        BY <4>1 DEF Hop
      <4> QED BY <1>1, <4>2 DEF Success
    <3> QED BY <1>2, <3>1 DEF WalkInv
  <2> QED BY <1>2, <2>1 DEF WalkInv
<1>4. request.src \in DOMAIN topology.dev /\ request.dst \in DOMAIN topology.dev
  <2>1. walk.path \in Seq(DOMAIN topology.dev) /\ Len(walk.path) \in Nat /\ Len(walk.path) # 0
    BY <1>3 DEF UnderWay
  <2>2. walk.path[1] \in DOMAIN topology.dev /\ walk.path[Len(walk.path)] \in DOMAIN topology.dev
    BY <2>1
  <2> QED BY <1>3, <2>2 DEF UnderWay
<1>5. /\ Src.ifs \in Seq(NetworkInterface) /\ Dst.ifs \in Seq(NetworkInterface)
      /\ Src = topology.dev[request.src] /\ Dst = topology.dev[request.dst]
  BY <1>2, <1>4 DEF Configured, Src, Dst, Dev
<1>6. ASSUME NEW d, d.ifs \in Seq(NetworkInterface), Primary(d).ip # NoIp,
             Primary(d).prefix # NoPrefix
      PROVE  /\ Primary(d) \in Ipv4Ifaces(d) /\ Primary(d) \in NetworkInterface
             /\ Primary(d).ip \in Ips /\ Primary(d).prefix \in PrefixLengths
             /\ NodeNetwork(d) = [net |-> NetworkOf(Primary(d).ip, Primary(d).prefix),
                                  prefix |-> Primary(d).prefix]
             /\ NodeNetwork(d) # Nobody
  <2>1. d.ifs # <<>>
    BY <1>6 DEF Primary
  <2>2. Primary(d) = d.ifs[1] /\ d.ifs[1] \in NetworkInterface /\ Primary(d) \in Range(d.ifs)
    BY <1>6, <2>1 DEF Primary, Range
  <2>3. Primary(d).ip \in Ips /\ Primary(d).prefix \in PrefixLengths
    BY <1>6, <2>2 DEF NetworkInterface
  <2>4. NodeNetwork(d) = [net |-> NetworkOf(Primary(d).ip, Primary(d).prefix),
                          prefix |-> Primary(d).prefix]
    BY <1>6 DEF NodeNetwork, IfacePrefix
  <2>5. NetworkOf(Primary(d).ip, Primary(d).prefix) \in Int
    BY <2>3, NetworkKnown
  <2>6. NodeNetwork(d) # Nobody
    BY <2>3, <2>4, <2>5, ForwardingAssumption
  <2> QED BY <1>6, <2>2, <2>3, <2>4, <2>6 DEF Ipv4Ifaces
<1>7. NodeNetwork(Src) = NodeNetwork(Dst)
  <2>1. ~ CrossSubnet
    BY <1>1, WalkSegments DEF Segmented
  <2>2. NodeNetwork(Src) # Nobody /\ NodeNetwork(Dst) # Nobody
    BY <1>1, <1>5, <1>6
  <2> QED BY <2>1, <2>2 DEF CrossSubnet
<1>8. /\ A \in Ipv4Ifaces(Src) /\ B \in Ipv4Ifaces(Dst)
      /\ A.prefix = B.prefix
      /\ NetworkOf(A.ip, A.prefix) = NetworkOf(B.ip, A.prefix)
  <2>1. /\ A \in Ipv4Ifaces(Src)
        /\ NodeNetwork(Src) = [net |-> NetworkOf(A.ip, A.prefix), prefix |-> A.prefix]
    BY <1>1, <1>5, <1>6
  <2>2. /\ B \in Ipv4Ifaces(Dst)
        /\ NodeNetwork(Dst) = [net |-> NetworkOf(B.ip, B.prefix), prefix |-> B.prefix]
    BY <1>1, <1>5, <1>6
  <2> HIDE DEF A, B
  <2>3. A.prefix = NodeNetwork(Src).prefix /\ B.prefix = NodeNetwork(Dst).prefix
    BY <2>1, <2>2
  <2>4. /\ NetworkOf(A.ip, A.prefix) = NodeNetwork(Src).net
        /\ NetworkOf(B.ip, B.prefix) = NodeNetwork(Dst).net
    BY <2>1, <2>2
  <2> QED BY <2>1, <2>2, <2>3, <2>4, <1>7
<1>9. request.src # request.dst
  BY <1>1 DEF Src, Dst
<1>10. ASSUME NEW m \in DOMAIN topology.dev, NEW n \in DOMAIN topology.dev, m # n,
              NEW o \in Ipv4Ifaces(topology.dev[m]), NEW l \in Ipv4Ifaces(topology.dev[n]),
              o.ip # l.ip, l.prefix # NoPrefix,
              NetworkOf(o.ip, l.prefix) = NetworkOf(l.ip, l.prefix)
       PROVE  o.ip \in BuildArp(topology, n)
  <2>1. o \in UNION {Ipv4Ifaces(topology.dev[k]) : k \in DOMAIN topology.dev \ {n}}
    BY <1>10
  <2>2. PrefixOf(l) # NoPrefix /\ InSubnet(o.ip, l.ip, PrefixOf(l))
    BY <1>10 DEF PrefixOf, InSubnet
  <2> QED BY <1>10, <2>1, <2>2 DEF BuildArp
<1> HIDE DEF A, B
<1>11. B.ip \in BuildArp(topology, request.src)
  BY <1>1, <1>4, <1>5, <1>8, <1>9, <1>10
<1>12. A.ip \in BuildArp(topology, request.dst)
  BY <1>1, <1>4, <1>5, <1>8, <1>9, <1>10
<1> QED BY <1>11, <1>12

-----------------------------------------------------------------------------
(* The report on display is the one of a stored design. *)
ShownInv ==
  shown # Nobody =>
    \E t \in Inspected :
      /\ shown.design = t /\ shown.findings = ValidateTopology(t)
      /\ shown.tables = [n \in DOMAIN t.dev |-> ControlPlaneForNode(t, n)]

(* Sorting neither makes two rules the same nor adds one. *)
LEMMA RulesDistinct ==
  ASSUME NEW d, d.rules \in Seq(FirewallRule),
         \A i, j \in DOMAIN d.rules : d.rules[i] = d.rules[j] => i = j
  PROVE  LET rules == RulesInOrder(d)
         IN  \A i, j \in DOMAIN rules : rules[i] = rules[j] => i = j
<1> DEFINE e == EnabledRules(d)
           t == RulesInOrder(d)
           on == {i \in DOMAIN d.rules : d.rules[i].enabled}
<1> HIDE DEF e, t
<1>1. /\ e \in Seq(FirewallRule) /\ t \in Seq(FirewallRule) /\ Len(t) = Len(e)
      /\ \E place \in [DOMAIN e -> DOMAIN e] :
           /\ \A i \in DOMAIN e : t[place[i]] = e[i]
           /\ \A k \in DOMAIN e : \E i \in DOMAIN e : place[i] = k
           /\ \A i, j \in DOMAIN e : place[i] < place[j] <=>
                \/ e[i].priority < e[j].priority
                \/ e[i].priority = e[j].priority /\ i < j
  BY RulesSorted DEF e, t
<1>2. PICK place \in [DOMAIN e -> DOMAIN e] :
           /\ \A i \in DOMAIN e : t[place[i]] = e[i]
           /\ \A k \in DOMAIN e : \E i \in DOMAIN e : place[i] = k
  BY <1>1
<1>3. /\ DOMAIN e = 1 .. Len(e) /\ Len(e) \in Nat /\ DOMAIN t = DOMAIN e
  BY <1>1
<1>4. /\ Len(e) = Cardinality(on)
      /\ \A k \in 1 .. Cardinality(on) : NthOf(on, k) \in on /\ e[k] = d.rules[NthOf(on, k)]
      /\ \A k, l \in 1 .. Cardinality(on) : k < l => NthOf(on, k) < NthOf(on, l)
  <2>1. on \in SUBSET DOMAIN d.rules
    OBVIOUS
  <2>2. e = Picked(d.rules, on)
    BY DEF e, EnabledRules
  <2> HIDE DEF on
  <2> QED BY <2>1, <2>2, PickedElements
<1> DEFINE Nth(k) == NthOf(on, k)
<1> HIDE DEF Nth
<1>5. /\ \A k \in DOMAIN e : Nth(k) \in DOMAIN d.rules /\ e[k] = d.rules[Nth(k)]
      /\ \A k, l \in DOMAIN e : k < l => Nth(k) < Nth(l)
  BY <1>3, <1>4 DEF Nth
<1>6. \A k, l \in DOMAIN e : e[k] = e[l] => k = l
  <2> SUFFICES ASSUME NEW k \in DOMAIN e, NEW l \in DOMAIN e, e[k] = e[l], k # l
               PROVE  FALSE
    OBVIOUS
  <2>1. Nth(k) = Nth(l) /\ Nth(k) \in Nat
    BY <1>5
  <2>2. k \in Nat /\ l \in Nat
    BY <1>3
  <2> QED BY <1>5, <2>1, <2>2
<1>7. \A i, j \in DOMAIN t : t[i] = t[j] => i = j
  BY <1>2, <1>3, <1>6
<1> QED BY <1>7 DEF e, t

(* A rule that both services read as one for everything matches every      *)
(* packet of its direction.                                                *)
LEMMA AllMatched ==
  ASSUME NEW rule, MatchAll(rule), ~ Misread(rule), NEW packet, NEW src, NEW dst,
         NEW direction, rule.direction \in {"both", direction}
  PROVE  RuleMatches(rule, packet, src, dst, direction)
<1>1. MatchIp(src, rule.src) /\ MatchIp(dst, rule.dst)
  BY DEF MatchAll, Misread, IsAny, MatchIp
<1>2. MatchPort(packet.dstPort, rule.dstPort)
  BY DEF MatchAll, Misread, IsAny, MatchPort
<1> QED BY <1>1, <1>2 DEF RuleMatches, MatchAll, MatchProtocol

(* A rule behind one that matches everything decides about nothing that    *)
(* one works on.                                                           *)
LEMMA ShadowedDead ==
  ASSUME NEW d, d.rules \in Seq(FirewallRule),
         \A i, j \in DOMAIN d.rules : d.rules[i] = d.rules[j] => i = j,
         NEW r \in ShadowedRules(d), MatchedBy(d, r), ~ Misread(Shadower(d))
  PROVE  r.direction = "both" /\ Shadower(d).direction # "both"
<1> DEFINE rules == RulesInOrder(d)
           all == {i \in DOMAIN rules : MatchAll(rules[i])}
<1> HIDE DEF rules
<1>1. /\ rules \in Seq(FirewallRule)
      /\ \A i, j \in DOMAIN rules : rules[i] = rules[j] => i = j
  BY RulesSorted, RulesDistinct DEF rules
<1>2. Len(rules) \in Nat /\ DOMAIN rules = 1 .. Len(rules)
  BY <1>1
<1>3. all # {} /\ r \in ShadowedBehind(rules, Min(all)) /\ Shadower(d) = rules[Min(all)]
  BY DEF ShadowedRules, Shadower, rules
<1>4. Min(all) \in all
  <2>1. all \in SUBSET Nat
    BY <1>2
  <2>2. \E m \in all : \A i \in all : m <= i
    BY <1>3, <2>1, LeastNumber
  <2> HIDE DEF all
  <2> QED BY <2>2 DEF Min
<1> DEFINE i == Min(all)
<1>5. i \in DOMAIN rules /\ MatchAll(rules[i]) /\ ~ Misread(rules[i])
  BY <1>3, <1>4
<1> HIDE DEF i
<1>6. PICK j \in i + 1 .. Len(rules) : r = rules[j] /\ Covers(rules[i], rules[j])
  BY <1>3 DEF ShadowedBehind, i
<1>7. j \in DOMAIN rules /\ i < j /\ i \in Nat /\ j \in Nat
  BY <1>2, <1>5
<1>8. r \in FirewallRule
  BY <1>1, <1>6, <1>7
<1>9. PICK q \in Requests, src \in Ips, dst \in Ips :
        r = FirstMatch(rules, q, src, dst, FwDirection(src, dst))
  BY DEF MatchedBy, rules
<1> DEFINE direction == FwDirection(src, dst)
<1>10. PICK m \in DOMAIN rules :
         /\ r = rules[m] /\ RuleMatches(rules[m], q, src, dst, direction)
         /\ \A k \in DOMAIN rules : RuleMatches(rules[k], q, src, dst, direction) => m <= k
  <2>1. r # Nobody
    BY <1>8, ForwardingAssumption
  <2> HIDE DEF direction
  <2> QED BY <1>1, <1>9, <2>1, FirstMatches DEF direction
<1>11. m = j
  BY <1>1, <1>6, <1>7, <1>10
<1>12. ~ RuleMatches(rules[i], q, src, dst, direction)
  BY <1>5, <1>7, <1>10, <1>11
<1>13. rules[i].direction \notin {"both", direction}
  BY <1>5, <1>12, AllMatched
<1>14. r.direction \in {"both", direction}
  BY <1>10 DEF RuleMatches
<1>15. r.direction = "both"
  BY <1>6, <1>13, <1>14 DEF Covers
<1> QED BY <1>3, <1>13, <1>15 DEF i

(* A shadowed rule in the report comes from the check of that name. *)
LEMMA ReportFound ==
  ASSUME NEW t, NEW f \in ValidateTopology(t), f.category = "shadowed-rule"
  PROVE  \E n \in DOMAIN t.dev : \E r \in ShadowedRules(t.dev[n]) : f.about = <<n, r>>
<1>1. f \in ShadowedFindings(t)
  BY DEF ValidateTopology, DuplicateIps, DuplicateMacs, GatewaysUnreachable, NoDefaultRoutes,
     IsolatedNodes, LinkSubnetMismatches, Finding
<1> QED BY <1>1 DEF ShadowedFindings, Finding

(* The same, of the report on display. *)
LEMMA ShownDead == ShownInv => ShadowedIsDead
<1> SUFFICES ASSUME ShownInv, shown # Nobody, NEW p \in Reported("shadowed-rule"),
                    MatchedBy(shown.design.dev[p[1]], p[2]),
                    ~ Misread(Shadower(shown.design.dev[p[1]]))
             PROVE  p[2].direction = "both" /\ Shadower(shown.design.dev[p[1]]).direction # "both"
  BY DEF ShadowedIsDead
<1>1. PICK t \in Inspected : shown.design = t /\ shown.findings = ValidateTopology(t)
  BY DEF ShownInv
<1>2. PICK f \in ValidateTopology(t) : f.category = "shadowed-rule" /\ p = f.about
  BY <1>1 DEF Reported
<1>3. PICK n \in DOMAIN t.dev : \E r \in ShadowedRules(t.dev[n]) : p = <<n, r>>
  BY <1>2, ReportFound
<1>4. p[1] = n /\ p[2] \in ShadowedRules(t.dev[n])
  BY <1>3
<1>5. /\ t.dev[n].rules \in Seq(FirewallRule)
      /\ \A i, j \in DOMAIN t.dev[n].rules : t.dev[n].rules[i] = t.dev[n].rules[j] => i = j
  BY <1>3, InspectedAssumption DEF Configured
<1> QED BY <1>1, <1>4, <1>5, ShadowedDead

-----------------------------------------------------------------------------
(* OSPF: whether a device lists a neighbour depends on one pair of their   *)
(* interfaces, and the lists and the check look at the same pairs.         *)

(* x may be listed with y: two addresses in a subnet of x's device. *)
Pairs(x, y) ==
  /\ x.ip # NoIp /\ y.ip # NoIp /\ x.ip # y.ip
  /\ PrefixOf(x) # NoPrefix /\ InSubnet(y.ip, x.ip, PrefixOf(x))

LEMMA PeersPair ==
  ASSUME NEW mine, NEW theirs, NEW i \in Numbers(mine), NEW j
  PROVE  j \in Peers(mine, theirs, i) <=>
           j \in DOMAIN theirs.ifs /\ Pairs(mine.ifs[i], theirs.ifs[j])
BY DEF Peers, Numbers, Pairs

(* The pair that an entry of the list stands for. *)
LEMMA AdjacencyPair ==
  ASSUME NEW t, Configured(t), NEW n \in DOMAIN t.dev, NEW m \in DOMAIN t.dev,
         \E i \in Numbers(t.dev[n]) : Peers(t.dev[n], t.dev[m], i) # {}
  PROVE  \E i \in DOMAIN t.dev[n].ifs, j \in DOMAIN t.dev[m].ifs :
           LET x == t.dev[n].ifs[i]
               y == t.dev[m].ifs[j]
           IN  /\ Pairs(x, y)
               /\ Adjacency(t, n, m) = [node |-> m, address |-> y.ip, via |-> x.ip,
                                        state |-> PeerState(x.ip, y.ip)]
<1> DEFINE mine == t.dev[n]
           theirs == t.dev[m]
           S == {k \in Numbers(mine) : Peers(mine, theirs, k) # {}}
           i == Min(S)
           T == Peers(mine, theirs, i)
           j == Min(T)
<1>1. /\ DOMAIN mine.ifs \subseteq Nat /\ DOMAIN theirs.ifs \subseteq Nat
  BY DEF Configured
<1>2. S \in SUBSET Nat /\ S # {}
  BY <1>1 DEF Numbers
<1>3. i \in S
  BY <1>2, LeastIsIn
<1>4. T \in SUBSET Nat /\ T # {}
  BY <1>1, <1>3 DEF Peers, Numbers
<1>5. j \in T
  BY <1>4, LeastIsIn
<1>6. i \in DOMAIN mine.ifs /\ j \in DOMAIN theirs.ifs /\ Pairs(mine.ifs[i], theirs.ifs[j])
  BY <1>3, <1>5, PeersPair DEF Numbers
<1>7. Adjacency(t, n, m) = [node |-> m, address |-> theirs.ifs[j].ip, via |-> mine.ifs[i].ip,
                            state |-> PeerState(mine.ifs[i].ip, theirs.ifs[j].ip)]
  BY DEF Adjacency
<1> HIDE DEF i, j
<1> QED BY <1>6, <1>7

(* Two devices on a wire, of which one has a pair with the other. *)
LEMMA Listed ==
  ASSUME NEW t, Configured(t), NEW n \in DOMAIN t.dev, NEW m \in DOMAIN t.dev,
         m \in Neighbors(t, n), Type(t, m) \in OspfSpeakers,
         NEW i \in DOMAIN t.dev[n].ifs, NEW j \in DOMAIN t.dev[m].ifs,
         Pairs(t.dev[n].ifs[i], t.dev[m].ifs[j])
  PROVE  /\ Adjacency(t, n, m) \in BuildOspf(t, n)
         /\ \E k \in Numbers(t.dev[n]) : Peers(t.dev[n], t.dev[m], k) # {}
<1>1. i \in Numbers(t.dev[n])
  BY DEF Numbers, Pairs
<1>2. j \in Peers(t.dev[n], t.dev[m], i)
  BY <1>1, PeersPair
<1> QED BY <1>1, <1>2 DEF BuildOspf

LEMMA ListedPair ==
  ASSUME NEW t, Configured(t), NEW n \in DOMAIN t.dev, NEW a \in BuildOspf(t, n)
  PROVE  /\ a.node \in Neighbors(t, n) /\ a.node \in DOMAIN t.dev
         /\ \E i \in DOMAIN t.dev[n].ifs, j \in DOMAIN t.dev[a.node].ifs :
              LET x == t.dev[n].ifs[i]
                  y == t.dev[a.node].ifs[j]
              IN  /\ Pairs(x, y)
                  /\ a.address = y.ip /\ a.via = x.ip /\ a.state = PeerState(x.ip, y.ip)
<1>1. PICK m \in Neighbors(t, n) :
        /\ a = Adjacency(t, n, m)
        /\ \E i \in Numbers(t.dev[n]) : Peers(t.dev[n], t.dev[m], i) # {}
  BY DEF BuildOspf
<1>2. m \in DOMAIN t.dev
  BY DEF Neighbors
<1>3. PICK i \in DOMAIN t.dev[n].ifs, j \in DOMAIN t.dev[m].ifs :
        /\ Pairs(t.dev[n].ifs[i], t.dev[m].ifs[j])
        /\ a = [node |-> m, address |-> t.dev[m].ifs[j].ip, via |-> t.dev[n].ifs[i].ip,
                state |-> PeerState(t.dev[n].ifs[i].ip, t.dev[m].ifs[j].ip)]
  BY <1>1, <1>2, AdjacencyPair
<1>4. a.node = m
  BY <1>3
<1> QED BY <1>2, <1>3, <1>4

(* What two devices have in common, seen from the first of them. *)
Common(t, m, n) ==
  {p \in Ipv4Ifaces(t.dev[m]) \X Ipv4Ifaces(t.dev[n]) :
     PrefixOf(p[1]) # NoPrefix /\ InSubnet(p[2].ip, p[1].ip, PrefixOf(p[1]))}
Plain(t, m, n) ==
  \A p \in Common(t, m, n) : p[1].prefix = p[2].prefix /\ Common(t, m, n) = {p}

LEMMA PairInCommon ==
  ASSUME NEW t, NEW m, NEW n, NEW x \in Range(t.dev[m].ifs), NEW y \in Range(t.dev[n].ifs),
         Pairs(x, y)
  PROVE  <<x, y>> \in Common(t, m, n)
BY DEF Pairs, Common, Ipv4Ifaces

LEMMA IfaceInRange ==
  ASSUME NEW t, Configured(t), NEW n \in DOMAIN t.dev, NEW i \in DOMAIN t.dev[n].ifs
  PROVE  t.dev[n].ifs[i] \in Range(t.dev[n].ifs) /\ t.dev[n].ifs[i] \in NetworkInterface
BY DEF Configured, Range

LEMMA NeighborsMutual ==
  ASSUME NEW t, NEW m \in DOMAIN t.dev, NEW n \in Neighbors(t, m)
  PROVE  m \in Neighbors(t, n)
BY DEF Neighbors, Adjacent

LEMMA AdjacencyMutual ==
  ASSUME NEW t, Configured(t), NEW m \in DOMAIN t.dev, NEW n \in DOMAIN t.dev,
         Type(t, m) \in OspfSpeakers, Plain(t, m, n), Plain(t, n, m),
         NEW a \in BuildOspf(t, m), a.node = n
  PROVE  \E b \in BuildOspf(t, n) :
           b.node = m /\ b.address = a.via /\ b.via = a.address /\ b.state # a.state
<1>1. PICK i \in DOMAIN t.dev[m].ifs, j \in DOMAIN t.dev[n].ifs :
        /\ Pairs(t.dev[m].ifs[i], t.dev[n].ifs[j])
        /\ a.address = t.dev[n].ifs[j].ip /\ a.via = t.dev[m].ifs[i].ip
        /\ a.state = PeerState(t.dev[m].ifs[i].ip, t.dev[n].ifs[j].ip)
  BY ListedPair
<1> DEFINE x == t.dev[m].ifs[i]
           y == t.dev[n].ifs[j]
<1>2. x \in Range(t.dev[m].ifs) /\ y \in Range(t.dev[n].ifs)
  BY IfaceInRange
<1>3. x.prefix = y.prefix
  <2>1. <<x, y>> \in Common(t, m, n)
    BY <1>1, <1>2, PairInCommon
  <2> HIDE DEF x, y
  <2>2. <<x, y>>[1] = x /\ <<x, y>>[2] = y
    OBVIOUS
  <2> QED BY <2>1, <2>2 DEF Plain
<1>4. Pairs(y, x)
  BY <1>1, <1>3 DEF Pairs, PrefixOf, InSubnet
<1>5. <<y, x>> \in Common(t, n, m)
  BY <1>2, <1>4, PairInCommon
<1>6. Common(t, n, m) = {<<y, x>>}
  BY <1>5 DEF Plain
<1>7. m \in Neighbors(t, n) /\ n \in Neighbors(t, m)
  BY ListedPair, NeighborsMutual
<1> DEFINE b == Adjacency(t, n, m)
<1>8. /\ b \in BuildOspf(t, n)
      /\ \E k \in Numbers(t.dev[n]) : Peers(t.dev[n], t.dev[m], k) # {}
  BY <1>4, <1>7, Listed
<1>9. PICK k \in DOMAIN t.dev[n].ifs, l \in DOMAIN t.dev[m].ifs :
        /\ Pairs(t.dev[n].ifs[k], t.dev[m].ifs[l])
        /\ b = [node |-> m, address |-> t.dev[m].ifs[l].ip, via |-> t.dev[n].ifs[k].ip,
                state |-> PeerState(t.dev[n].ifs[k].ip, t.dev[m].ifs[l].ip)]
  BY <1>8, AdjacencyPair
<1> HIDE DEF b
<1>10. t.dev[n].ifs[k] = y /\ t.dev[m].ifs[l] = x
  <2> DEFINE v == t.dev[n].ifs[k]
             u == t.dev[m].ifs[l]
  <2>1. v \in Range(t.dev[n].ifs) /\ u \in Range(t.dev[m].ifs)
    BY IfaceInRange
  <2>2. <<v, u>> \in Common(t, n, m)
    BY <1>9, <2>1, PairInCommon
  <2> HIDE DEF v, u, x, y
  <2>3. <<v, u>> = <<y, x>>
    BY <1>6, <2>2
  <2>4. v = y /\ u = x
    BY <2>3
  <2> QED BY <2>4 DEF v, u
<1>11. b.node = m /\ b.address = x.ip /\ b.via = y.ip /\ b.state = PeerState(y.ip, x.ip)
  BY <1>9, <1>10
<1>12. x.ip \in Int /\ y.ip \in Int /\ x.ip # y.ip
  <2>1. x.ip \in Ips \cup {NoIp} /\ y.ip \in Ips \cup {NoIp}
    BY IfaceInRange DEF NetworkInterface
  <2> HIDE DEF x, y
  <2>2. x.ip # NoIp /\ y.ip # NoIp /\ x.ip # y.ip
    BY <1>4 DEF Pairs
  <2> QED BY <2>1, <2>2 DEF Ips
<1>13. PeerState(y.ip, x.ip) # PeerState(x.ip, y.ip)
  <2> HIDE DEF x, y
  <2> QED BY <1>12 DEF PeerState
<1> QED BY <1>1, <1>8, <1>11, <1>13

LEMMA TablesListOspf ==
  ASSUME ShownInv, shown # Nobody, NEW n \in Devices, Type(shown.design, n) \in OspfSpeakers
  PROVE  Table(n).ospfNeighbors = BuildOspf(shown.design, n)
<1>1. PICK t \in Inspected :
        /\ shown.design = t
        /\ shown.tables = [k \in DOMAIN t.dev |-> ControlPlaneForNode(t, k)]
  BY DEF ShownInv
<1>2. Table(n) = ControlPlaneForNode(t, n)
  BY <1>1 DEF Devices, Table
<1>3. Type(t, n) \in OspfSpeakers => ControlPlaneForNode(t, n).ospfNeighbors = BuildOspf(t, n)
  BY DEF ControlPlaneForNode
<1> QED BY <1>1, <1>2, <1>3

LEMMA ShownMutual == ShownInv => OspfMutual
<1> SUFFICES ASSUME ShownInv, shown # Nobody PROVE OspfMutual
  BY DEF OspfMutual
<1>1. PICK t \in Inspected : shown.design = t
  BY DEF ShownInv
<1>2. Configured(t) /\ Devices = DOMAIN t.dev
  BY <1>1, InspectedAssumption DEF Devices
<1>3. ASSUME NEW m \in Devices, NEW n \in Devices,
             Type(t, m) \in OspfSpeakers, Type(t, n) \in OspfSpeakers,
             Plain(t, m, n), Plain(t, n, m),
             NEW a \in Table(m).ospfNeighbors, a.node = n
      PROVE  \E b \in Table(n).ospfNeighbors :
               b.node = m /\ b.address = a.via /\ b.via = a.address /\ b.state # a.state
  <2>1. /\ Table(m).ospfNeighbors = BuildOspf(t, m)
        /\ Table(n).ospfNeighbors = BuildOspf(t, n)
    BY <1>1, <1>3, TablesListOspf
  <2>2. a \in BuildOspf(t, m)
    BY <1>3, <2>1
  <2> QED BY <1>2, <1>3, <2>1, <2>2, AdjacencyMutual
<1> QED BY <1>1, <1>3 DEF OspfMutual, Plain, Common

(* The check finds a common subnet exactly where there is a pair, or two   *)
(* interfaces with one address.                                            *)
LEMMA SharedMeansPair ==
  ASSUME NEW t, Configured(t), NEW a \in DOMAIN t.dev, NEW b \in DOMAIN t.dev, a # b,
         ShareSubnet(t.dev[a], t.dev[b])
  PROVE  \/ DuplicateIps(t) # {}
         \/ \E i \in DOMAIN t.dev[a].ifs, j \in DOMAIN t.dev[b].ifs :
              Pairs(t.dev[a].ifs[i], t.dev[b].ifs[j])
<1>1. PICK x \in Ipv4Ifaces(t.dev[a]), y \in Ipv4Ifaces(t.dev[b]) :
        PrefixOf(x) # NoPrefix /\ InSubnet(y.ip, x.ip, PrefixOf(x))
  BY DEF ShareSubnet
<1>2. x.ip # NoIp /\ y.ip # NoIp
  BY DEF Ipv4Ifaces
<1>3. PICK i \in DOMAIN t.dev[a].ifs : x = t.dev[a].ifs[i]
  BY DEF Ipv4Ifaces, Range
<1>4. PICK j \in DOMAIN t.dev[b].ifs : y = t.dev[b].ifs[j]
  BY DEF Ipv4Ifaces, Range
<1>5. CASE x.ip # y.ip
  BY <1>1, <1>2, <1>3, <1>4, <1>5 DEF Pairs
<1>6. CASE x.ip = y.ip
  <2> DEFINE p == <<a, i>>
             q == <<b, j>>
  <2>1. p \in IfacesOf(t) /\ q \in IfacesOf(t) /\ p # q
    BY DEF IfacesOf
  <2>2. Iface(t, p) = x /\ Iface(t, q) = y
    BY <1>3, <1>4 DEF Iface
  <2> HIDE DEF p, q
  <2>3. Finding("duplicate-ip", Iface(t, p).ip) \in DuplicateIps(t)
    BY <1>2, <1>6, <2>1, <2>2 DEF DuplicateIps
  <2> QED BY <2>3
<1> QED BY <1>5, <1>6

LEMMA PairMeansShared ==
  ASSUME NEW t, NEW a, NEW b, NEW x \in Range(t.dev[a].ifs), NEW y \in Range(t.dev[b].ifs),
         Pairs(x, y)
  PROVE  ShareSubnet(t.dev[a], t.dev[b])
BY DEF Pairs, ShareSubnet, Ipv4Ifaces

(* Which findings of a report say that two addresses are the same, or that *)
(* two ends of a link are in different subnets.                            *)
LEMMA LinkReports ==
  ASSUME NEW t, NEW w \in t.wires
  PROVE  /\ DuplicateIps(t) # {} => \E f \in ValidateTopology(t) : f.category = "duplicate-ip"
         /\ (\E f \in ValidateTopology(t) : f.category = "link-subnet-mismatch" /\ f.about = w)
              <=> Finding("link-subnet-mismatch", w) \in LinkSubnetMismatches(t)
<1>1. \A f \in DuplicateIps(t) : f.category = "duplicate-ip" /\ f \in ValidateTopology(t)
  BY DEF DuplicateIps, Finding, ValidateTopology
<1>2. ASSUME NEW f \in ValidateTopology(t), f.category = "link-subnet-mismatch"
      PROVE  f \in LinkSubnetMismatches(t)
  BY <1>2 DEF ValidateTopology, DuplicateIps, DuplicateMacs, GatewaysUnreachable, NoDefaultRoutes,
     IsolatedNodes, ShadowedFindings, Finding
<1>3. \A f \in LinkSubnetMismatches(t) :
        f.category = "link-subnet-mismatch" /\ f = Finding("link-subnet-mismatch", f.about)
  BY DEF LinkSubnetMismatches, Finding
<1>4. LinkSubnetMismatches(t) \subseteq ValidateTopology(t)
  BY DEF ValidateTopology
<1>5. Finding("link-subnet-mismatch", w).about = w
  BY DEF Finding
<1> QED BY <1>1, <1>2, <1>3, <1>4, <1>5

LEMMA MismatchMeans ==
  ASSUME NEW t, NEW a, NEW b, b # a, NEW w \in t.wires, w = {a, b}, t.source[w] = a,
         LinkChecked(t, w)
  PROVE  Finding("link-subnet-mismatch", w) \in LinkSubnetMismatches(t)
           <=> ~ ShareSubnet(t.dev[a], t.dev[b])
<1>1. Finding("link-subnet-mismatch", w) \in LinkSubnetMismatches(t)
        <=> \A target \in w \ {t.source[w]} : ~ ShareSubnet(t.dev[t.source[w]], t.dev[target])
  <2>1. \A u : Finding("link-subnet-mismatch", u).about = u
    BY DEF Finding
  <2> QED BY <2>1 DEF LinkSubnetMismatches
<1>2. w \ {t.source[w]} = {b}
  OBVIOUS
<1> QED BY <1>1, <1>2

LEMMA ShownMismatch == ShownInv => MismatchMeansNoNeighbor
<1> SUFFICES ASSUME ShownInv, shown # Nobody, NEW w \in shown.design.wires,
                    \A n \in w : Type(shown.design, n) \in OspfSpeakers,
                    LinkChecked(shown.design, w)
             PROVE  LET a == shown.design.source[w]
                        b == CHOOSE n \in w : n # a
                        Has == \E e \in Table(a).ospfNeighbors : e.node = b
                    IN  /\ Has \/ w \in Reported("link-subnet-mismatch")
                            \/ Reported("duplicate-ip") # {}
                        /\ ~ (Has /\ w \in Reported("link-subnet-mismatch"))
  BY DEF MismatchMeansNoNeighbor
<1>1. PICK t \in Inspected : shown.design = t /\ shown.findings = ValidateTopology(t)
  BY DEF ShownInv
<1>2. Configured(t) /\ Devices = DOMAIN t.dev
  BY <1>1, InspectedAssumption DEF Devices
<1> DEFINE a == t.source[w]
<1>3. PICK b \in DOMAIN t.dev \ {a} : w = {a, b} /\ a \in DOMAIN t.dev
  BY <1>1, InspectedAssumption
<1>4. b = CHOOSE n \in w : n # a
  BY <1>3
<1> DEFINE Has == \E e \in Table(a).ospfNeighbors : e.node = b
           Shared == ShareSubnet(t.dev[a], t.dev[b])
<1>5. a \in Devices /\ Type(t, a) \in OspfSpeakers /\ Type(t, b) \in OspfSpeakers
  BY <1>1, <1>2, <1>3
<1>6. Table(a).ospfNeighbors = BuildOspf(t, a)
  BY <1>1, <1>5, TablesListOspf
<1>7. b \in Neighbors(t, a)
  BY <1>1, <1>3 DEF Neighbors, Adjacent
<1>8. Has => Shared
  <2> SUFFICES ASSUME NEW e \in BuildOspf(t, a), e.node = b PROVE Shared
    BY <1>6
  <2>1. PICK i \in DOMAIN t.dev[a].ifs, j \in DOMAIN t.dev[b].ifs :
          Pairs(t.dev[a].ifs[i], t.dev[b].ifs[j])
    BY <1>2, <1>3, ListedPair
  <2>2. t.dev[a].ifs[i] \in Range(t.dev[a].ifs) /\ t.dev[b].ifs[j] \in Range(t.dev[b].ifs)
    BY <1>2, <1>3, IfaceInRange
  <2> QED BY <2>1, <2>2, PairMeansShared
<1>9. Shared => Has \/ DuplicateIps(t) # {}
  <2> SUFFICES ASSUME Shared, DuplicateIps(t) = {} PROVE Has
    OBVIOUS
  <2>1. PICK i \in DOMAIN t.dev[a].ifs, j \in DOMAIN t.dev[b].ifs :
          Pairs(t.dev[a].ifs[i], t.dev[b].ifs[j])
    BY <1>2, <1>3, SharedMeansPair
  <2>2. /\ Adjacency(t, a, b) \in BuildOspf(t, a)
        /\ \E k \in Numbers(t.dev[a]) : Peers(t.dev[a], t.dev[b], k) # {}
    BY <1>2, <1>3, <1>5, <1>7, <2>1, Listed
  <2>3. Adjacency(t, a, b).node = b
    BY DEF Adjacency
  <2> QED BY <1>6, <2>2, <2>3
<1>10. w \in Reported("link-subnet-mismatch") <=> ~ Shared
  <2>1. w \in Reported("link-subnet-mismatch") <=>
          \E f \in ValidateTopology(t) : f.category = "link-subnet-mismatch" /\ f.about = w
    BY <1>1 DEF Reported
  <2>2. (\E f \in ValidateTopology(t) : f.category = "link-subnet-mismatch" /\ f.about = w)
          <=> Finding("link-subnet-mismatch", w) \in LinkSubnetMismatches(t)
    BY <1>1, LinkReports
  <2>3. Finding("link-subnet-mismatch", w) \in LinkSubnetMismatches(t) <=> ~ Shared
    BY <1>1, <1>3, MismatchMeans
  <2> QED BY <2>1, <2>2, <2>3
<1>11. DuplicateIps(t) # {} => Reported("duplicate-ip") # {}
  BY <1>1, LinkReports DEF Reported
<1> HIDE DEF a, Has, Shared
<1>12. /\ Has \/ w \in Reported("link-subnet-mismatch") \/ Reported("duplicate-ip") # {}
       /\ ~ (Has /\ w \in Reported("link-subnet-mismatch"))
  BY <1>8, <1>9, <1>10, <1>11
<1> QED BY <1>1, <1>4, <1>12 DEF a, Has

-----------------------------------------------------------------------------
(* Spanning tree: each bridge names the least bridge of its island, and    *)
(* counts the rounds of a search from there.                               *)

(* What a bridge knows of the wires between bridges. *)
LEMMA IslandFound ==
  ASSUME NEW t \in Inspected, NEW n \in DOMAIN t.dev
  PROVE  /\ IsFiniteSet(BridgeWires(t)) /\ Cardinality(BridgeWires(t)) \in Nat
         /\ n \in Island(t, n) /\ Island(t, n) \subseteq DOMAIN t.dev
         /\ NoWireLeaves(BridgeWires(t), Island(t, n))
<1>1. IsFiniteSet(t.wires) /\ BridgeWires(t) \in SUBSET t.wires
  BY InspectedAssumption DEF Configured, BridgeWires
<1>2. IsFiniteSet(BridgeWires(t))
  BY <1>1, FS_Subset
<1>3. Cardinality(BridgeWires(t)) \in Nat
  BY <1>2, FS_CardinalityType
<1>4. NoWireLeaves(BridgeWires(t), DOMAIN t.dev)
  <2>1. \A w \in BridgeWires(t) : w \subseteq DOMAIN t.dev
    BY InspectedAssumption DEF BridgeWires
  <2> QED BY <2>1 DEF NoWireLeaves, Adjacent
<1> QED BY <1>2, <1>3, <1>4, ReachableIsComponent DEF Island

(* Every bridge of an island names the same root, which is one of them. *)
LEMMA OneRoot ==
  ASSUME NEW t \in Inspected, NEW n \in DOMAIN t.dev
  PROVE  /\ RootBridge(t, n) \in Island(t, n)
         /\ \A m \in Island(t, n) :
              Island(t, m) = Island(t, n) /\ RootBridge(t, m) = RootBridge(t, n)
<1> DEFINE ranks == {t.dev[m].bridge : m \in Island(t, n)}
<1>1. n \in Island(t, n) /\ \A m \in Island(t, n) : t.dev[m].bridge \in Nat
  BY IslandFound, InspectedAssumption
<1>2. ranks \in SUBSET Nat /\ ranks # {}
  BY <1>1
<1>3. PICK r \in ranks : \A s \in ranks : r <= s
  BY <1>2, LeastNumber
<1>4. \E m \in Island(t, n) : \A k \in Island(t, n) : t.dev[m].bridge <= t.dev[k].bridge
  BY <1>3
<1>5. RootBridge(t, n) \in Island(t, n)
  BY <1>4 DEF RootBridge
<1>6. \A m \in Island(t, n) : Island(t, m) = Island(t, n)
  BY IslandFound, OneComponent DEF Island
<1>7. \A m \in Island(t, n) : RootBridge(t, m) = RootBridge(t, n)
  BY <1>6 DEF RootBridge
<1> QED BY <1>5, <1>6, <1>7

(* Distance is the round in which the search from the root finds a bridge. *)
LEMMA DistanceFound ==
  ASSUME NEW t \in Inspected, NEW n \in DOMAIN t.dev,
         NEW W, W = BridgeWires(t), NEW r, r = RootBridge(t, n)
  PROVE  /\ Distance(t, n) \in 0 .. Cardinality(W) /\ Distance(t, n) \in Nat
         /\ n \in RoundsOf(W, r)[Distance(t, n)]
         /\ \A k \in 0 .. Cardinality(W) : n \in RoundsOf(W, r)[k] => Distance(t, n) <= k
<1> DEFINE S == {k \in 0 .. Cardinality(W) : n \in RoundsOf(W, r)[k]}
<1>1. Distance(t, n) = Min(S)
  BY DEF Distance, RoundsOf, Round
<1>2. n \in Reachable(r, W)
  <2>1. r \in Island(t, n) /\ Island(t, r) = Island(t, n) /\ n \in Island(t, n)
    BY OneRoot, IslandFound
  <2> QED BY <2>1 DEF Island
<1>3. Cardinality(W) \in Nat /\ Reachable(r, W) = RoundsOf(W, r)[Cardinality(W)]
  BY IslandFound DEF Reachable, RoundsOf, Round
<1>4. Cardinality(W) \in S /\ S \in SUBSET Nat
  BY <1>2, <1>3
<1> HIDE DEF S
<1>5. PICK k \in S : \A j \in S : k <= j
  BY <1>4, LeastNumber
<1>6. Min(S) \in S /\ \A j \in S : Min(S) <= j
  BY <1>5 DEF Min
<1> QED BY <1>1, <1>4, <1>6 DEF S

(* A bridge that is not the root has one that is nearer to it. *)
LEMMA SomeoneNearer ==
  ASSUME NEW t \in Inspected, NEW n \in DOMAIN t.dev, RootBridge(t, n) # n
  PROVE  \E m \in Adjacent(BridgeWires(t), n) : Towards(t, n, m)
<1> DEFINE W == BridgeWires(t)
           N == Cardinality(W)
           r == RootBridge(t, n)
           f == RoundsOf(W, r)
           d == Distance(t, n)
<1>1. /\ N \in Nat /\ f[0] = {r}
      /\ \A k \in 1 .. N : f[k] = f[k - 1] \cup UNION {Adjacent(W, m) : m \in f[k - 1]}
  BY IslandFound, SearchRounds DEF Round
<1>2. d \in 0 .. N /\ n \in f[d] /\ \A k \in 0 .. N : n \in f[k] => d <= k
  BY DistanceFound
<1>3. d # 0
  BY <1>1, <1>2
<1>4. d - 1 \in 0 .. N /\ d \in 1 .. N /\ ~ (d <= d - 1)
  BY <1>1, <1>2, <1>3
<1>5. PICK m \in f[d - 1] : n \in Adjacent(W, m)
  BY <1>1, <1>2, <1>4
<1>6. m \in Adjacent(W, n)
  BY <1>5, AdjacentMutual
<1>7. m \in Island(t, n) /\ m \in DOMAIN t.dev
  BY <1>6, IslandFound DEF NoWireLeaves
<1>8. RootBridge(t, m) = r
  BY <1>7, OneRoot
<1>9. /\ Distance(t, m) \in 0 .. N /\ m \in f[Distance(t, m)]
      /\ \A k \in 0 .. N : m \in f[k] => Distance(t, m) <= k
  BY <1>7, <1>8, DistanceFound
<1>10. Distance(t, m) <= d - 1
  BY <1>4, <1>5, <1>9
<1> DEFINE e == Distance(t, m)
<1> HIDE DEF N, f, d, e, W
<1>11. e + 1 \in 1 .. N /\ e + 1 \in 0 .. N /\ (e + 1) - 1 = e
  BY <1>1, <1>2, <1>4, <1>9, <1>10 DEF e
<1>12. n \in f[e + 1]
  BY <1>1, <1>5, <1>9, <1>11 DEF e
<1>13. d <= e + 1
  BY <1>2, <1>11, <1>12
<1>14. e = d - 1
  BY <1>1, <1>2, <1>9, <1>10, <1>13 DEF e
<1> QED BY <1>6, <1>14 DEF Towards, d, e, W

(* The table of a bridge is its own view of the tree. *)
LEMMA TablesListStp ==
  ASSUME NEW t \in Inspected, shown.design = t, NEW n \in DOMAIN t.dev,
         shown.tables = [k \in DOMAIN t.dev |-> ControlPlaneForNode(t, k)],
         Type(t, n) \in Bridges
  PROVE  /\ Table(n).stp.root = RootBridge(t, n)
         /\ DOMAIN Table(n).stp.roles = Neighbors(t, n)
         /\ \A m \in Neighbors(t, n) : Table(n).stp.roles[m] = PortRole(t, n, m)
<1>1. Table(n) = ControlPlaneForNode(t, n)
  BY DEF Table
<1>2. ControlPlaneForNode(t, n).stp = BuildStp(t, n)
  BY DEF ControlPlaneForNode
<1> QED BY <1>1, <1>2 DEF BuildStp

(* Root ports lead to bridges of the same island that are nearer. *)
LEMMA RootPorts ==
  ASSUME NEW t \in Inspected, NEW n \in DOMAIN t.dev, Type(t, n) \in Bridges,
         NEW m \in Neighbors(t, n)
  PROVE  PortRole(t, n, m) = "root" <=>
           /\ m \in Adjacent(BridgeWires(t), n)
           /\ RootBridge(t, n) # n /\ Towards(t, n, m)
<1>1. m \in Adjacent(BridgeWires(t), n) <=> Type(t, m) \in Bridges
  <2>1. PICK w \in t.wires : n \in w /\ m \in w \ {n}
    BY DEF Neighbors, Adjacent
  <2>2. w = {n, m}
    BY <2>1, InspectedAssumption
  <2>3. Type(t, m) \in Bridges => w \in BridgeWires(t)
    BY <2>2 DEF BridgeWires
  <2>4. Type(t, m) \in Bridges => m \in Adjacent(BridgeWires(t), n)
    BY <2>1, <2>3 DEF Adjacent
  <2>5. m \in Adjacent(BridgeWires(t), n) => Type(t, m) \in Bridges
    BY DEF Adjacent, BridgeWires
  <2> QED BY <2>4, <2>5
<1> QED BY <1>1 DEF PortRole

LEMMA ShownTrees == ShownInv => SpanningTreesAgree
<1> SUFFICES ASSUME ShownInv, shown # Nobody PROVE SpanningTreesAgree
  BY DEF SpanningTreesAgree
<1>1. PICK t \in Inspected :
        /\ shown.design = t
        /\ shown.tables = [k \in DOMAIN t.dev |-> ControlPlaneForNode(t, k)]
  BY DEF ShownInv
<1> DEFINE bridges == {n \in Devices : Type(shown.design, n) \in Bridges}
           Root(n) == Table(n).stp.root
           Up(n) == {m \in DOMAIN Table(n).stp.roles : Table(n).stp.roles[m] = "root"}
<1>2. \A n \in bridges : n \in DOMAIN t.dev /\ Type(t, n) \in Bridges
  BY <1>1 DEF Devices
<1>3. ASSUME NEW n \in bridges
      PROVE  /\ Root(n) = RootBridge(t, n)
             /\ Up(n) = {m \in Neighbors(t, n) :
                           /\ m \in Adjacent(BridgeWires(t), n)
                           /\ RootBridge(t, n) # n /\ Towards(t, n, m)}
  <2>1. /\ Table(n).stp.root = RootBridge(t, n)
        /\ DOMAIN Table(n).stp.roles = Neighbors(t, n)
        /\ \A m \in Neighbors(t, n) : Table(n).stp.roles[m] = PortRole(t, n, m)
    BY <1>1, <1>2, TablesListStp
  <2>2. \A m \in Neighbors(t, n) :
          PortRole(t, n, m) = "root" <=> /\ m \in Adjacent(BridgeWires(t), n)
                                         /\ RootBridge(t, n) # n /\ Towards(t, n, m)
    BY <1>2, RootPorts
  <2> QED BY <2>1, <2>2
<1>4. ASSUME NEW n \in bridges, NEW m \in Adjacent(BridgeWires(t), n)
      PROVE  m \in bridges /\ m \in Neighbors(t, n) /\ RootBridge(t, m) = RootBridge(t, n)
  <2>1. m \in Island(t, n) /\ m \in DOMAIN t.dev
    BY <1>2, <1>4, IslandFound DEF NoWireLeaves
  <2>2. Type(t, m) \in Bridges /\ m \in Neighbors(t, n)
    BY <2>1, <1>4 DEF Adjacent, BridgeWires, Neighbors
  <2>3. RootBridge(t, m) = RootBridge(t, n)
    BY <1>2, <2>1, OneRoot
  <2> QED BY <1>1, <2>1, <2>2, <2>3 DEF Devices
<1>5. \A n \in bridges : Up(n) = {} <=> Root(n) = n
  <2> SUFFICES ASSUME NEW n \in bridges PROVE Up(n) = {} <=> Root(n) = n
    OBVIOUS
  <2>1. CASE RootBridge(t, n) = n
    BY <1>3, <2>1
  <2>2. CASE RootBridge(t, n) # n
    <3>1. PICK m \in Adjacent(BridgeWires(t), n) : Towards(t, n, m)
      BY <1>2, <2>2, SomeoneNearer
    <3>2. m \in Neighbors(t, n)
      BY <1>4
    <3> HIDE DEF bridges, Root, Up
    <3> QED BY <1>3, <2>2, <3>1, <3>2
  <2> QED BY <2>1, <2>2
<1>6. \A n \in bridges : \A m \in Up(n) : Root(m) = Root(n)
  <2> HIDE DEF bridges, Root, Up
  <2> QED BY <1>3, <1>4
<1>7. ASSUME NEW s \in (SUBSET bridges) \ {{}} PROVE \E n \in s : Up(n) \cap s = {}
  <2> HIDE DEF bridges, Root, Up
  <2> DEFINE far == {Distance(t, n) : n \in s}
  <2>1. \A n \in s : Distance(t, n) \in Nat
    BY <1>2, DistanceFound
  <2>2. far \in SUBSET Nat /\ far # {}
    BY <2>1
  <2>3. PICK d \in far : \A e \in far : d <= e
    BY <2>2, LeastNumber
  <2>4. PICK n \in s : \A m \in s : Distance(t, n) <= Distance(t, m)
    BY <2>3
  <2>5. \A m \in Up(n) : Distance(t, m) = Distance(t, n) - 1
    BY <1>3 DEF Towards
  <2>6. \A m \in s : Distance(t, m) # Distance(t, n) - 1
    BY <2>1, <2>4
  <2> QED BY <2>5, <2>6
<1> HIDE DEF bridges, Root, Up
<1>8. /\ \A n \in bridges : Up(n) = {} <=> Root(n) = n
      /\ \A n \in bridges : \A m \in Up(n) : Root(m) = Root(n)
      /\ \A s \in (SUBSET bridges) \ {{}} : \E n \in s : Up(n) \cap s = {}
  BY <1>5, <1>6, <1>7
<1> QED BY <1>8 DEF SpanningTreesAgree, bridges, Root, Up

-----------------------------------------------------------------------------
(* The tables and the report leave the trace alone. *)
LEMMA DesignForwards == DesignSpec => ForwardingSpec
<1>1. DesignInit => ForwardingInit
  BY DEF DesignInit
<1>2. [DesignNext]_designVars => [ForwardingNext]_forwardingVars
  BY DEF DesignNext, designVars, forwardingVars, Inspect, Close
<1> QED BY <1>1, <1>2, PTL DEF DesignSpec, ForwardingSpec

(* They are derived anew for every design they are asked for. *)
LEMMA DesignShows == DesignSpec => []ShownInv
<1>1. DesignInit => ShownInv
  BY DEF DesignInit, ShownInv
<1>2. ASSUME ShownInv, [DesignNext]_designVars PROVE ShownInv'
  <2>1. CASE \E t \in Inspected : Inspect(t)
    BY <2>1 DEF Inspect, ShownInv
  <2>2. CASE Close
    BY <2>2 DEF Close, ShownInv
  <2>3. CASE UNCHANGED shown
    BY <1>2, <2>3 DEF ShownInv
  <2> QED BY <1>2, <2>1, <2>2, <2>3 DEF DesignNext, designVars
<1> QED BY <1>1, <1>2, PTL DEF DesignSpec

(* No packet is past a firewall whose first matching rule does not allow   *)
(* it (checkFirewallRules and the loop of tracePacket), for any design.    *)
THEOREM FirewallsHold == DesignSpec => []FirewallsObeyed
  BY DesignForwards, WalksSound, WalkFirewalls, PTL

(* No packet is delivered across VLANs or subnets without a layer 3 device *)
(* (the segmentation check of tracePacket).                                *)
THEOREM SegmentsHold == DesignSpec => []SegmentsKeptApart
<1>1. WalkInv => SegmentsKeptApart
  BY WalkSegments DEF SegmentsKeptApart, Segmented
<1> QED BY <1>1, DesignForwards, WalksSound, PTL

(* The TTL bounds the layer 3 devices passed, and pickRoute picks a longest *)
(* matching prefix.                                                        *)
THEOREM RoutingHolds == DesignSpec => []RoutingSound
<1>1. WalkInv => RoutingSound
  BY WalkRouted
<1> QED BY <1>1, DesignForwards, WalksSound, PTL

(* tracePacket and buildArp agree on who reaches whom directly. *)
THEOREM ArpAgrees == DesignSpec => []DeliveredMeansArp
<1>1. WalkInv => DeliveredMeansArp
  BY WalkArp
<1> QED BY <1>1, DesignForwards, WalksSound, PTL

(* validateNetwork and checkFirewallRules agree on which rules are dead,   *)
(* save that a rule for both directions may live on in the one that its    *)
(* shadower does not work in, and that "*", and "0.0.0.0/0" as a port,     *)
(* shadow in the report and match nothing in the trace.                    *)
THEOREM ShadowedAreDead == DesignSpec => []ShadowedIsDead
  BY DesignShows, ShownDead, PTL

(* What `show ip ospf neighbor` says of an adjacency at one end it says at  *)
(* the other, and the design check reports no mismatch for it              *)
(* (buildOspf, validateTopology), for any interfaces.                      *)
THEOREM AdjacenciesHold == DesignSpec => []AdjacenciesAgree
<1>1. ShownInv => AdjacenciesAgree
  BY ShownMutual, ShownMismatch DEF AdjacenciesAgree
<1> QED BY <1>1, DesignShows, PTL

(* The bridges of an island name one root, every other one of them has a   *)
(* root port towards it, or several, and no way along root ports leads in  *)
(* a circle (buildStp), in any design.  It is no tree that comes out: no   *)
(* second way to the root is blocked.                                      *)
THEOREM RootPortsAgree == DesignSpec => []SpanningTreesAgree
<1>1. ShownInv => SpanningTreesAgree
  BY ShownTrees
<1> QED BY <1>1, DesignShows, PTL

-----------------------------------------------------------------------------
(* Packet synthesis: what sessions are made of. *)
Hosts == {ClientHost, LocalServer, Gateway, WebServer, Resolver, Multicast}
Protos == {"arp", "dns", "ntp", "icmp", "dhcp", "stp", "snmp", "mdns", "tcp"}
Tags == Nat \cup (Nat \X Nat)

Packets == [proto : Protos, src : Hosts, dst : Hosts, tag : Tags, reply : BOOLEAN,
            macs : Hosts \X Hosts, seq : Nat, ack : Nat, ctl : Nat, data : Seq(Nat), isn : Nat]
Plans == [at : Nat, pkt : Packets]

(* q is the earlier request that p answers. *)
Asks(q, p) ==
  /\ Same(q.pkt, p.pkt) /\ ~ q.pkt.reply /\ q.pkt.src = p.pkt.dst
  /\ q.at < p.at

(* A session is planned from t on, with a request for each reply. *)
Session(s, t) ==
  /\ s \in Seq(Plans)
  /\ \A i \in DOMAIN s : s[i].at >= t
  /\ \A i \in DOMAIN s : s[i].pkt.reply => \E j \in DOMAIN s : Asks(s[j], s[i])

(* Hardware addresses are those of hosts. *)
LEMMA MacsKnown ==
  ASSUME NEW src \in Hosts, NEW dst \in Hosts
  PROVE  (IF dst = Multicast THEN <<src, Multicast>> ELSE NextHopMacs(src, dst)) \in Hosts \X Hosts
<1>1. NextHopMacs(src, dst) \in Hosts \X Hosts
  BY DEF NextHopMacs, Hosts, Stations
<1>2. <<src, Multicast>> \in Hosts \X Hosts
  BY DEF Hosts
<1> QED BY <1>1, <1>2

(* One session after another is a session. *)
LEMMA SessionsJoin ==
  ASSUME NEW t \in Nat, NEW u \in Nat, NEW v \in Nat, NEW r, NEW s,
         Session(r, t), Session(s, u), v <= t, v <= u
  PROVE  Session(r \o s, v)
<1>1. /\ r \in Seq(Plans) /\ s \in Seq(Plans) /\ r \o s \in Seq(Plans)
      /\ Len(r) \in Nat /\ Len(s) \in Nat
      /\ DOMAIN r = 1 .. Len(r) /\ DOMAIN s = 1 .. Len(s)
      /\ DOMAIN (r \o s) = 1 .. Len(r) + Len(s)
      /\ \A i \in DOMAIN r : i \in DOMAIN (r \o s) /\ (r \o s)[i] = r[i]
      /\ \A i \in DOMAIN s : Len(r) + i \in DOMAIN (r \o s) /\ (r \o s)[Len(r) + i] = s[i]
  BY DEF Session
<1> DEFINE both == r \o s
<1>2. \A i \in DOMAIN both :
        \/ i \in DOMAIN r /\ both[i] = r[i]
        \/ i - Len(r) \in DOMAIN s /\ both[i] = s[i - Len(r)]
  BY <1>1
<1>3. \A i \in DOMAIN r : r[i].at \in Nat /\ r[i].at >= v
  <2>1. \A i \in DOMAIN r : r[i] \in Plans /\ r[i].at >= t
    BY <1>1 DEF Session
  <2>2. \A i \in DOMAIN r : r[i].at \in Nat
    BY <2>1 DEF Plans
  <2> QED BY <2>1, <2>2
<1>4. \A i \in DOMAIN s : s[i].at \in Nat /\ s[i].at >= v
  <2>1. \A i \in DOMAIN s : s[i] \in Plans /\ s[i].at >= u
    BY <1>1 DEF Session
  <2>2. \A i \in DOMAIN s : s[i].at \in Nat
    BY <2>1 DEF Plans
  <2> QED BY <2>1, <2>2
<1>5. /\ \A i \in DOMAIN r : i \in DOMAIN both /\ both[i] = r[i]
      /\ \A i \in DOMAIN s : Len(r) + i \in DOMAIN both /\ both[Len(r) + i] = s[i]
      /\ both \in Seq(Plans)
  BY <1>1
<1> HIDE DEF both
<1>6. \A i \in DOMAIN both : both[i].at >= v
  BY <1>2, <1>3, <1>4
<1>7. \A i \in DOMAIN both : both[i].pkt.reply => \E j \in DOMAIN both : Asks(both[j], both[i])
  <2>1. \A i \in DOMAIN r : r[i].pkt.reply => \E j \in DOMAIN r : Asks(r[j], r[i])
    BY DEF Session
  <2>2. \A i \in DOMAIN s : s[i].pkt.reply => \E j \in DOMAIN s : Asks(s[j], s[i])
    BY DEF Session
  <2> QED BY <2>1, <2>2, <1>2, <1>5
<1>8. Session(both, v)
  BY <1>5, <1>6, <1>7 DEF Session
<1> QED BY <1>8 DEF both

(* Every kind of session has its requests before their replies. *)
LEMMA ExchangeSession ==
  ASSUME NEW proto \in Protos, NEW at \in Nat, NEW asker \in Hosts, NEW target \in Hosts,
         NEW tag \in Tags
  PROVE  Session(Exchange(proto, at, asker, target, tag), at)
<1> DEFINE q == Packet(proto, asker, target, tag, FALSE)
           a == Packet(proto, target, asker, tag, TRUE)
           s == <<Plan(at, q), Plan(at + 2, a)>>
<1>3. s = Exchange(proto, at, asker, target, tag)
  BY DEF Exchange
<1>0. q = Packet(proto, asker, target, tag, FALSE) /\ a = Packet(proto, target, asker, tag, TRUE)
  OBVIOUS
<1> HIDE DEF q, a
<1>1. q \in Packets /\ q.proto = proto /\ q.src = asker /\ q.tag = tag /\ ~ q.reply
  BY <1>0, MacsKnown DEF Packet, Packets
<1>2. a \in Packets /\ a.proto = proto /\ a.dst = asker /\ a.tag = tag /\ a.reply
  BY <1>0, MacsKnown DEF Packet, Packets
<1>4. s \in Seq(Plans) /\ DOMAIN s = {1, 2}
  BY <1>1, <1>2 DEF Plan, Plans
<1>5. Asks(s[1], s[2]) /\ ~ s[1].pkt.reply
  BY <1>1, <1>2 DEF Asks, Same, Plan
<1>6. s[1].at >= at /\ s[2].at >= at
  BY DEF Plan
<1> HIDE DEF s
<1>7. Session(s, at)
  BY <1>4, <1>5, <1>6 DEF Session
<1> QED BY <1>3, <1>7

LEMMA ArpSession ==
  ASSUME NEW at \in Nat, NEW asker \in Hosts, NEW target \in Hosts, NEW tag \in Tags
  PROVE  Session(ArpExchange(at, asker, target, tag), at)
<1> DEFINE e == Exchange("arp", at, asker, target, tag)
           q == [e[1] EXCEPT !.pkt.macs = <<asker, Multicast>>]
           s == <<q, e[2]>>
<1>0. "arp" \in Protos
  BY DEF Protos
<1>1. Session(e, at)
  BY <1>0, ExchangeSession
<1>2. DOMAIN e = {1, 2} /\ ~ e[1].pkt.reply /\ e[2].pkt.reply
  BY DEF Exchange, Plan, Packet
<1>3. s = ArpExchange(at, asker, target, tag)
  BY DEF ArpExchange
<1> HIDE DEF e
<1>4. e[1] \in Plans /\ e[2] \in Plans /\ e[1].at >= at /\ e[2].at >= at
  <2>1. e \in Seq(Plans) /\ \A i \in DOMAIN e : e[i].at >= at
    BY <1>1 DEF Session
  <2>2. \A i \in DOMAIN e : e[i] \in Plans
    BY <2>1
  <2> QED BY <1>2, <2>1, <2>2
<1>5. Asks(e[1], e[2])
  <2>1. PICK j \in DOMAIN e : Asks(e[j], e[2])
    <3>1. \A i \in DOMAIN e : e[i].pkt.reply => \E j \in DOMAIN e : Asks(e[j], e[i])
      BY <1>1 DEF Session
    <3>2. 2 \in DOMAIN e /\ e[2].pkt.reply
      BY <1>2
    <3> QED BY <3>1, <3>2
  <2>2. j # 2
    BY <1>2, <2>1 DEF Asks
  <2> QED BY <1>2, <2>1, <2>2
<1>6. <<asker, Multicast>> \in Hosts \X Hosts
  BY DEF Hosts
<1>7. /\ q \in Plans /\ q.at = e[1].at /\ ~ q.pkt.reply
      /\ q.pkt.proto = e[1].pkt.proto /\ q.pkt.src = e[1].pkt.src /\ q.pkt.tag = e[1].pkt.tag
  BY <1>2, <1>4, <1>6 DEF Plans, Packets
<1>8. Asks(q, e[2])
  BY <1>5, <1>7, <1>2 DEF Asks, Same
<1> HIDE DEF q
<1>9. s \in Seq(Plans) /\ DOMAIN s = {1, 2} /\ s[1] = q /\ s[2] = e[2]
  BY <1>4, <1>7
<1> HIDE DEF s
<1>10. Session(s, at)
  BY <1>9, <1>8, <1>7, <1>4 DEF Session
<1> QED BY <1>3, <1>10

LEMMA PingSessions ==
  ASSUME NEW at \in Nat, NEW src \in Hosts, NEW dst \in Hosts, NEW tag \in Nat
  PROVE  Session(PingSession(at, src, dst, tag), at)
<1>1. "icmp" \in Protos /\ <<tag, 1>> \in Tags /\ <<tag, 2>> \in Tags
  BY DEF Protos, Tags
<1>2. /\ Session(Exchange("icmp", at, src, dst, <<tag, 1>>), at)
      /\ Session(Exchange("icmp", at + 3, src, dst, <<tag, 2>>), at + 3)
  BY <1>1, ExchangeSession
<1> QED BY <1>2, SessionsJoin DEF PingSession

LEMMA SingleSession ==
  ASSUME NEW proto \in Protos, NEW at \in Nat, NEW src \in Hosts, NEW dst \in Hosts,
         NEW tag \in Tags
  PROVE  Session(Single(proto, at, src, dst, tag), at)
<1> DEFINE p == Packet(proto, src, dst, tag, FALSE)
<1>0. p = Packet(proto, src, dst, tag, FALSE)
  OBVIOUS
<1> HIDE DEF p
<1>1. p \in Packets /\ ~ p.reply
  BY <1>0, MacsKnown DEF Packet, Packets
<1>2. <<Plan(at, p)>> \in Seq(Plans) /\ DOMAIN <<Plan(at, p)>> = {1}
      /\ ~ <<Plan(at, p)>>[1].pkt.reply /\ <<Plan(at, p)>>[1].at = at
  BY <1>1 DEF Plan, Plans
<1>3. Session(<<Plan(at, p)>>, at)
  BY <1>2 DEF Session
<1> QED BY <1>3 DEF Single, p

LEMMA DoraSession ==
  ASSUME NEW at \in Nat, NEW client \in Hosts, NEW tag \in Tags
  PROVE  Session(DhcpDora(at, client, tag), at)
<1> DEFINE q == Packet("dhcp", client, Multicast, tag, FALSE)
           a == Packet("dhcp", Gateway, client, tag, TRUE)
           s == DhcpDora(at, client, tag)
<1>0. "dhcp" \in Protos /\ Multicast \in Hosts /\ Gateway \in Hosts
  BY DEF Protos, Hosts
<1>3. s = [k \in 1 .. 4 |-> Plan(at + k - 1, IF k % 2 = 1 THEN q ELSE a)]
  BY DEF DhcpDora
<1>9. q = Packet("dhcp", client, Multicast, tag, FALSE) /\ a = Packet("dhcp", Gateway, client, tag, TRUE)
  OBVIOUS
<1> HIDE DEF q, a, s
<1>1. q \in Packets /\ q.proto = "dhcp" /\ q.src = client /\ q.tag = tag /\ ~ q.reply
  BY <1>0, <1>9, MacsKnown DEF Packet, Packets
<1>2. a \in Packets /\ a.proto = "dhcp" /\ a.dst = client /\ a.tag = tag /\ a.reply
  BY <1>0, <1>9, MacsKnown DEF Packet, Packets
<1>4. /\ s[1] = Plan(at, q) /\ s[2] = Plan(at + 1, a) /\ s[3] = Plan(at + 2, q)
      /\ s[4] = Plan(at + 3, a) /\ DOMAIN s = {1, 2, 3, 4}
  <2>1. 1 % 2 = 1 /\ 2 % 2 = 0 /\ 3 % 2 = 1 /\ 4 % 2 = 0
    OBVIOUS
  <2>2. at + 1 - 1 = at /\ at + 2 - 1 = at + 1 /\ at + 3 - 1 = at + 2 /\ at + 4 - 1 = at + 3
    OBVIOUS
  <2> QED BY <1>3, <2>1, <2>2
<1>5. s \in Seq(Plans)
  <2>1. \A k \in 1 .. 4 : s[k] \in Plans
    BY <1>1, <1>2, <1>4 DEF Plan, Plans
  <2>2. s = [k \in 1 .. 4 |-> s[k]]
    BY <1>3
  <2> QED BY <2>1, <2>2, ListedSequence
<1>6. \A i \in DOMAIN s : s[i].at >= at
  BY <1>4 DEF Plan
<1>7. Asks(s[1], s[2]) /\ Asks(s[1], s[4]) /\ ~ s[1].pkt.reply /\ ~ s[3].pkt.reply
  BY <1>1, <1>2, <1>4 DEF Asks, Same, Plan
<1>8. Session(s, at)
  BY <1>4, <1>5, <1>6, <1>7 DEF Session
<1> QED BY <1>8 DEF s

Segs == [client : BOOLEAN, gap : Nat, ctl : Nat, len : Nat]

(* Segments that follow the first one come later than the one before; the  *)
(* server answers at once.                                                 *)
Later(g) == g \in Seq(Segs) /\ \A k \in 1 .. Len(g) : g[k].gap >= 1
Scripted(g) ==
  /\ g \in Seq(Segs) /\ Len(g) >= 2 /\ g[1].client /\ ~ g[2].client /\ g[1].gap = 0
  /\ \A k \in 2 .. Len(g) : g[k].gap >= 1

LEMMA SegTyped ==
  ASSUME NEW gap \in Nat, NEW ctl \in Nat, NEW len \in Nat
  PROVE  /\ Seg(TRUE, gap, ctl, len) \in Segs /\ Seg(FALSE, gap, ctl, len) \in Segs
         /\ Seg(TRUE, gap, ctl, len).client
         /\ Seg(TRUE, gap, ctl, len).gap = gap /\ Seg(FALSE, gap, ctl, len).gap = gap
BY DEF Seg, Segs

(* The scripts of web sessions. *)
LEMMA Pieces ==
  Scripted(Handshake) /\ Later(TlsHello) /\ Later(HttpRound) /\ Later(Teardown)
<1>1. Scripted(Handshake)
  <2> DEFINE a == Seg(TRUE, 0, 1, 0)
             b == Seg(FALSE, 1, 1, 0)
             c == Seg(TRUE, 1, 0, 0)
             s == <<a, b, c>>
  <2>1. a \in Segs /\ b \in Segs /\ c \in Segs /\ a.client /\ a.gap = 0 /\ b.gap = 1 /\ c.gap = 1
        /\ ~ b.client
    BY DEF Seg, Segs
  <2>2. s = Handshake
    BY DEF Handshake
  <2> HIDE DEF a, b, c
  <2>3. s \in Seq(Segs) /\ Len(s) = 3 /\ s[1] = a /\ s[2] = b /\ s[3] = c
    BY <2>1
  <2> HIDE DEF s
  <2>4. Scripted(s)
    BY <2>1, <2>3 DEF Scripted
  <2> QED BY <2>2, <2>4
<1>2. Later(TlsHello)
  <2> DEFINE a == Seg(TRUE, 1, 0, 1)
             b == Seg(FALSE, 2, 0, 2)
             c == Seg(TRUE, 1, 0, 0)
             s == <<a, b, c>>
  <2>1. a \in Segs /\ b \in Segs /\ c \in Segs /\ a.gap = 1 /\ b.gap = 2 /\ c.gap = 1
    BY DEF Seg, Segs
  <2>2. s = TlsHello
    BY DEF TlsHello
  <2> HIDE DEF a, b, c
  <2>3. s \in Seq(Segs) /\ Len(s) = 3 /\ s[1] = a /\ s[2] = b /\ s[3] = c
    BY <2>1
  <2> HIDE DEF s
  <2>4. Later(s)
    BY <2>1, <2>3 DEF Later
  <2> QED BY <2>2, <2>4
<1>3. Later(HttpRound)
  <2> DEFINE a == Seg(TRUE, 1, 0, 2)
             b == Seg(FALSE, 2, 0, 0)
             c == Seg(FALSE, 1, 0, 1)
             d == Seg(TRUE, 1, 0, 0)
             s == <<a, b, c, d>>
  <2>1. a \in Segs /\ b \in Segs /\ c \in Segs /\ d \in Segs
        /\ a.gap = 1 /\ b.gap = 2 /\ c.gap = 1 /\ d.gap = 1
    BY DEF Seg, Segs
  <2>2. s = HttpRound
    BY DEF HttpRound
  <2> HIDE DEF a, b, c, d
  <2>3. s \in Seq(Segs) /\ Len(s) = 4 /\ s[1] = a /\ s[2] = b /\ s[3] = c /\ s[4] = d
    BY <2>1
  <2> HIDE DEF s
  <2>4. Later(s)
    BY <2>1, <2>3 DEF Later
  <2> QED BY <2>2, <2>4
<1>4. Later(Teardown)
  <2> DEFINE a == Seg(TRUE, 1, 1, 0)
             b == Seg(FALSE, 1, 1, 0)
             c == Seg(TRUE, 1, 0, 0)
             s == <<a, b, c>>
  <2>1. a \in Segs /\ b \in Segs /\ c \in Segs /\ a.gap = 1 /\ b.gap = 1 /\ c.gap = 1
    BY DEF Seg, Segs
  <2>2. s = Teardown
    BY DEF Teardown
  <2> HIDE DEF a, b, c
  <2>3. s \in Seq(Segs) /\ Len(s) = 3 /\ s[1] = a /\ s[2] = b /\ s[3] = c
    BY <2>1
  <2> HIDE DEF s
  <2>4. Later(s)
    BY <2>1, <2>3 DEF Later
  <2> QED BY <2>2, <2>4
<1> QED BY <1>1, <1>2, <1>3, <1>4

LEMMA ScriptGoesOn ==
  ASSUME NEW g, Scripted(g), NEW h, Later(h)
  PROVE  Scripted(g \o h)
<1>1. /\ g \in Seq(Segs) /\ h \in Seq(Segs) /\ g \o h \in Seq(Segs)
      /\ Len(g) \in Nat /\ Len(h) \in Nat /\ Len(g) >= 2 /\ Len(g \o h) = Len(g) + Len(h)
  BY DEF Scripted, Later
<1>2. \A k \in 1 .. Len(g) + Len(h) :
        \/ k \in 1 .. Len(g) /\ (g \o h)[k] = g[k]
        \/ k - Len(g) \in 1 .. Len(h) /\ (g \o h)[k] = h[k - Len(g)]
  BY <1>1
<1> DEFINE both == g \o h
<1>3. both[1] = g[1] /\ both[2] = g[2]
  <2>1. /\ 1 \in 1 .. Len(g) + Len(h) /\ 2 \in 1 .. Len(g) + Len(h)
        /\ ~ (1 - Len(g) \in 1 .. Len(h)) /\ ~ (2 - Len(g) \in 1 .. Len(h))
    BY <1>1
  <2> QED BY <2>1, <1>2
<1>4. \A k \in 2 .. Len(g) + Len(h) : both[k].gap >= 1
  <2>1. \A k \in 2 .. Len(g) : g[k].gap >= 1
    BY DEF Scripted
  <2>2. \A k \in 1 .. Len(h) : h[k].gap >= 1
    BY DEF Later
  <2> QED BY <1>1, <1>2, <2>1, <2>2
<1>5. both \in Seq(Segs) /\ Len(both) = Len(g) + Len(h)
  BY <1>1
<1> HIDE DEF both
<1>6. Scripted(both)
  BY <1>1, <1>3, <1>4, <1>5 DEF Scripted
<1> QED BY <1>6 DEF both

LEMMA ScriptsScripted ==
  ASSUME NEW secure \in BOOLEAN, NEW rounds \in Nat
  PROVE  Scripted(Script(secure, rounds))
<1> DEFINE S == {g \in Seq(Segs) : Scripted(g)}
           More(i) == IF secure /\ i = 1 THEN TlsHello ELSE HttpRound
           step == [i \in 1 .. rounds |-> [g \in S |-> g \o More(i)]]
           Upto(f) == f = [i \in 0 .. rounds |-> IF i = 0 THEN Handshake ELSE f[i - 1] \o More(i)]
           last == CHOOSE f : Upto(f)
<1>1. Handshake \in S
  BY Pieces DEF Scripted
<1>2. \A i \in 1 .. rounds : Later(More(i))
  BY Pieces
<1>3. \A i \in 1 .. rounds : \A g \in S : g \o More(i) \in S
  <2> SUFFICES ASSUME NEW i \in 1 .. rounds, NEW g \in S PROVE g \o More(i) \in S
    OBVIOUS
  <2>1. Later(More(i))
    BY <1>2
  <2> HIDE DEF More
  <2>2. Scripted(g \o More(i))
    BY <2>1, ScriptGoesOn
  <2> QED BY <2>2 DEF Scripted
<1> HIDE DEF S, More
<1>4. step \in [1 .. rounds -> [S -> S]]
  BY <1>3
<1>5. \A i \in 1 .. rounds : \A g \in S : step[i][g] = g \o More(i)
  OBVIOUS
<1> HIDE DEF step
<1>0. Iteration(S, rounds, Handshake, step)
  BY <1>1, <1>4, Iterates
<1>6. PICK f \in [0 .. rounds -> S] :
         f[0] = Handshake /\ \A k \in 1 .. rounds : f[k] = step[k][f[k - 1]]
  BY <1>0 DEF Iteration
<1>7. Upto(f)
  <2>1. f = [i \in 0 .. rounds |-> f[i]]
    OBVIOUS
  <2>2. \A i \in 0 .. rounds : f[i] = IF i = 0 THEN Handshake ELSE f[i - 1] \o More(i)
    <3> SUFFICES ASSUME NEW i \in 0 .. rounds, i # 0 PROVE f[i] = f[i - 1] \o More(i)
      BY <1>6
    <3>1. i \in 1 .. rounds /\ f[i - 1] \in S
      OBVIOUS
    <3> QED BY <3>1, <1>5, <1>6
  <2> QED BY <2>1, <2>2
<1>8. Upto(last)
  <2> HIDE DEF Upto
  <2> QED BY <1>7
<1> HIDE DEF last
<1>9. last[0] = Handshake /\ \A k \in 1 .. rounds : last[k] = last[k - 1] \o More(k)
  <2>1. \A i \in 0 .. rounds : last[i] = IF i = 0 THEN Handshake ELSE last[i - 1] \o More(i)
    BY <1>8
  <2>2. 0 \in 0 .. rounds /\ \A k \in 1 .. rounds : k \in 0 .. rounds /\ k # 0
    OBVIOUS
  <2> QED BY <2>1, <2>2
<1>10. last[rounds] \in S
  <2>1. PICK h \in [0 .. rounds -> S] :
          \A g : g[0] = Handshake /\ (\A k \in 1 .. rounds : g[k - 1] \in S => g[k] = step[k][g[k - 1]])
                   => \A k \in 0 .. rounds : g[k] = h[k]
    BY <1>0 DEF Iteration
  <2>2. \A k \in 1 .. rounds : last[k - 1] \in S => last[k] = step[k][last[k - 1]]
    BY <1>5, <1>9
  <2>3. \A k \in 0 .. rounds : last[k] = h[k]
    BY <1>9, <2>1, <2>2
  <2>4. rounds \in 0 .. rounds
    OBVIOUS
  <2> QED BY <2>3, <2>4
<1>11. Scripted(last[rounds] \o Teardown)
  <2>1. Scripted(last[rounds])
    BY <1>10 DEF S
  <2> QED BY <2>1, Pieces, ScriptGoesOn
<1>12. Script(secure, rounds) = last[rounds] \o Teardown
  BY DEF Script, last, Upto, More
<1> QED BY <1>11, <1>12

(* The clock and the numbers of both sides, along a script. *)
Clocks == [t : Nat, c : Nat, s : Nat]
Clocked(script, f, k) ==
  LET b == f[k - 1]
      g == script[k]
      Wrap(n) == n % (2 ^ SeqWidth)
  IN  [t |-> b.t + g.gap,
       c |-> IF g.client THEN Wrap(b.c + Consumed(g)) ELSE b.c,
       s |-> IF g.client THEN b.s ELSE Wrap(b.s + Consumed(g))]
AlongScript(script, at, cIsn, sIsn) ==
  CHOOSE f : f = [k \in 0 .. Len(script) |->
                    IF k = 0 THEN [t |-> at, c |-> cIsn, s |-> sIsn] ELSE Clocked(script, f, k)]

KeepTime(script, at, f) ==
  /\ f \in [0 .. Len(script) -> Clocks] /\ f[0].t = at
  /\ \A k \in 1 .. Len(script) : f[k].t = f[k - 1].t + script[k].gap
Counts(script, cIsn, sIsn, f) ==
  /\ f[0].c = cIsn /\ f[0].s = sIsn
  /\ \A k \in 1 .. Len(script) :
       LET used == Consumed(script[k])
       IN  /\ script[k].client => /\ f[k].c = (f[k - 1].c + used) % (2 ^ SeqWidth)
                                  /\ f[k].s = f[k - 1].s
           /\ ~ script[k].client => /\ f[k].s = (f[k - 1].s + used) % (2 ^ SeqWidth)
                                    /\ f[k].c = f[k - 1].c

LEMMA ClocksTyped ==
  ASSUME NEW script \in Seq(Segs), NEW at \in Nat, NEW cIsn \in Nat, NEW sIsn \in Nat
  PROVE  LET f == AlongScript(script, at, cIsn, sIsn)
         IN  KeepTime(script, at, f) /\ Counts(script, cIsn, sIsn, f)
<1> DEFINE n == Len(script)
           M == 2 ^ SeqWidth
           first == [t |-> at, c |-> cIsn, s |-> sIsn]
           Moved(k, b) ==
             [t |-> b.t + script[k].gap,
              c |-> IF script[k].client THEN (b.c + Consumed(script[k])) % M ELSE b.c,
              s |-> IF script[k].client THEN b.s ELSE (b.s + Consumed(script[k])) % M]
           step == [k \in 1 .. n |-> [b \in Clocks |-> Moved(k, b)]]
           Along(f) == f = [k \in 0 .. n |-> IF k = 0 THEN first ELSE Moved(k, f[k - 1])]
           last == CHOOSE f : Along(f)
<1>1. n \in Nat /\ first \in Clocks
  BY DEF Clocks
<1>2. M \in Nat \ {0}
  BY SynthesisAssumption, PowerPositive
<1> HIDE DEF M
<1>3. \A k \in 1 .. n : script[k] \in Segs /\ Consumed(script[k]) \in Nat
  <2>1. \A g \in Segs : Consumed(g) \in Nat
    BY DEF Segs, Consumed
  <2> QED BY <2>1
<1>4. \A k \in 1 .. n : \A b \in Clocks : Moved(k, b) \in Clocks
  <2> SUFFICES ASSUME NEW k \in 1 .. n, NEW b \in Clocks PROVE Moved(k, b) \in Clocks
    OBVIOUS
  <2> DEFINE used == Consumed(script[k])
  <2>1. script[k] \in Segs /\ used \in Nat
    BY <1>3
  <2> HIDE DEF used
  <2>2. b.t \in Nat /\ b.c \in Nat /\ b.s \in Nat /\ script[k].gap \in Nat
    BY <2>1 DEF Clocks, Segs
  <2>3. (b.c + used) % M \in Nat /\ (b.s + used) % M \in Nat
    BY <1>2, <2>1, <2>2
  <2> QED BY <2>2, <2>3 DEF Clocks, used
<1>5. \A k \in 1 .. n : \A b \in Clocks :
        LET used == Consumed(script[k])
        IN  /\ Moved(k, b).t = b.t + script[k].gap
            /\ script[k].client => Moved(k, b).c = (b.c + used) % M /\ Moved(k, b).s = b.s
            /\ ~ script[k].client => Moved(k, b).s = (b.s + used) % M /\ Moved(k, b).c = b.c
  OBVIOUS
<1>6. last = AlongScript(script, at, cIsn, sIsn)
  BY DEF AlongScript, Clocked, M
<1> HIDE DEF Moved, first, n
<1>7. step \in [1 .. n -> [Clocks -> Clocks]]
  BY <1>4
<1>8. \A k \in 1 .. n : \A b \in Clocks : step[k][b] = Moved(k, b)
  OBVIOUS
<1> HIDE DEF step
<1>9. Iteration(Clocks, n, first, step)
  BY <1>1, <1>7, Iterates
<1>10. PICK f \in [0 .. n -> Clocks] : f[0] = first /\ \A k \in 1 .. n : f[k] = step[k][f[k - 1]]
  BY <1>9 DEF Iteration
<1>11. Along(f)
  <2>1. f = [k \in 0 .. n |-> f[k]]
    OBVIOUS
  <2>2. \A k \in 0 .. n : f[k] = IF k = 0 THEN first ELSE Moved(k, f[k - 1])
    <3> SUFFICES ASSUME NEW k \in 0 .. n, k # 0 PROVE f[k] = Moved(k, f[k - 1])
      BY <1>10
    <3>1. k \in 1 .. n /\ f[k - 1] \in Clocks
      BY <1>1
    <3> QED BY <3>1, <1>8, <1>10
  <2> QED BY <2>1, <2>2
<1>12. Along(last)
  <2> HIDE DEF Along
  <2> QED BY <1>11
<1> HIDE DEF last
<1>13. last[0] = first /\ \A k \in 1 .. n : last[k] = Moved(k, last[k - 1])
  <2>1. \A k \in 0 .. n : last[k] = IF k = 0 THEN first ELSE Moved(k, last[k - 1])
    BY <1>12
  <2>2. 0 \in 0 .. n /\ \A k \in 1 .. n : k \in 0 .. n /\ k # 0
    BY <1>1
  <2> QED BY <2>1, <2>2
<1>14. last \in [0 .. n -> Clocks]
  <2>1. PICK h \in [0 .. n -> Clocks] :
          \A g : g[0] = first /\ (\A k \in 1 .. n : g[k - 1] \in Clocks => g[k] = step[k][g[k - 1]])
                   => \A k \in 0 .. n : g[k] = h[k]
    BY <1>9 DEF Iteration
  <2>2. \A k \in 1 .. n : last[k - 1] \in Clocks => last[k] = step[k][last[k - 1]]
    BY <1>8, <1>13
  <2>3. \A k \in 0 .. n : last[k] = h[k]
    BY <1>13, <2>1, <2>2
  <2>4. last = [k \in 0 .. n |-> last[k]]
    BY <1>12
  <2> QED BY <2>3, <2>4
<1>15. last[0].t = at /\ last[0].c = cIsn /\ last[0].s = sIsn
  BY <1>13 DEF first
<1>16. \A k \in 1 .. n : last[k].t = last[k - 1].t + script[k].gap
  <2>1. \A k \in 1 .. n : last[k - 1] \in Clocks
    BY <1>1, <1>14
  <2> QED BY <2>1, <1>5, <1>13
<1>17. \A k \in 1 .. n :
         LET used == Consumed(script[k])
         IN  /\ script[k].client => /\ last[k].c = (last[k - 1].c + used) % M
                                    /\ last[k].s = last[k - 1].s
             /\ ~ script[k].client => /\ last[k].s = (last[k - 1].s + used) % M
                                      /\ last[k].c = last[k - 1].c
  <2> SUFFICES ASSUME NEW k \in 1 .. n
               PROVE  LET used == Consumed(script[k])
                      IN  /\ script[k].client => /\ last[k].c = (last[k - 1].c + used) % M
                                                 /\ last[k].s = last[k - 1].s
                          /\ ~ script[k].client => /\ last[k].s = (last[k - 1].s + used) % M
                                                   /\ last[k].c = last[k - 1].c
    OBVIOUS
  <2> DEFINE b == last[k - 1]
  <2>1. b \in Clocks
    BY <1>1, <1>14
  <2>2. last[k] = Moved(k, b)
    BY <1>13
  <2> QED BY <2>1, <2>2, <1>5
<1>18. KeepTime(script, at, last)
  BY <1>14, <1>15, <1>16 DEF n, KeepTime
<1>19. Counts(script, cIsn, sIsn, last)
  BY <1>15, <1>17 DEF n, M, Counts
<1> QED BY <1>6, <1>18, <1>19

LEMMA ClocksGo ==
  ASSUME NEW script, Scripted(script), NEW at \in Nat, NEW cIsn \in Nat, NEW sIsn \in Nat
  PROVE  LET f == AlongScript(script, at, cIsn, sIsn)
         IN  /\ f[1].t = at
             /\ \A j, k \in 1 .. Len(script) : j < k => f[j].t < f[k].t
<1> DEFINE n == Len(script)
           f == AlongScript(script, at, cIsn, sIsn)
           g == [k \in 0 .. n - 1 |-> f[k + 1].t]
<1>1. script \in Seq(Segs) /\ n \in Nat /\ n >= 2 /\ script[1].gap = 0
  BY DEF Scripted
<1>2. \A k \in 2 .. n : script[k].gap >= 1 /\ script[k].gap \in Nat
  <2>1. \A k \in 2 .. n : script[k] \in Segs
    BY <1>1
  <2>2. \A k \in 2 .. n : script[k].gap >= 1
    BY DEF Scripted
  <2> QED BY <2>1, <2>2 DEF Segs
<1>3. /\ f \in [0 .. n -> Clocks] /\ f[0].t = at
      /\ \A k \in 1 .. n : f[k].t = f[k - 1].t + script[k].gap
  <2>1. KeepTime(script, at, AlongScript(script, at, cIsn, sIsn))
    BY <1>1, ClocksTyped
  <2> QED BY <2>1 DEF KeepTime
<1> HIDE DEF f, n
<1>4. \A k \in 0 .. n : f[k].t \in Nat
  BY <1>3 DEF Clocks
<1>5. f[1].t = at
  <2>1. 1 \in 1 .. n
    BY <1>1
  <2> QED BY <1>1, <1>3, <2>1
<1>6. g \in [0 .. n - 1 -> Nat] /\ n - 1 \in Nat
  BY <1>1, <1>4
<1>7. \A k \in 1 .. n - 1 : g[k - 1] < g[k]
  <2> SUFFICES ASSUME NEW k \in 1 .. n - 1 PROVE g[k - 1] < g[k]
    OBVIOUS
  <2>1. k + 1 \in 2 .. n /\ k + 1 \in 1 .. n /\ (k + 1) - 1 = k /\ (k - 1) + 1 = k /\ k \in 0 .. n
    BY <1>1
  <2>2. f[k + 1].t = f[k].t + script[k + 1].gap /\ f[k].t \in Nat
    BY <1>3, <1>4, <2>1
  <2>3. script[k + 1].gap >= 1 /\ script[k + 1].gap \in Nat
    BY <1>2, <2>1
  <2>4. g[k - 1] = f[k].t /\ g[k] = f[k + 1].t
    BY <2>1, <1>1
  <2> QED BY <2>2, <2>3, <2>4
<1>8. \A j, k \in 1 .. n : j < k => f[j].t < f[k].t
  <2> SUFFICES ASSUME NEW j \in 1 .. n, NEW k \in 1 .. n, j < k PROVE f[j].t < f[k].t
    OBVIOUS
  <2>1. /\ j - 1 \in 0 .. n - 1 /\ k - 1 \in 0 .. n - 1 /\ j - 1 < k - 1
        /\ (j - 1) + 1 = j /\ (k - 1) + 1 = k
    BY <1>1
  <2>2. g[j - 1] = f[j].t /\ g[k - 1] = f[k].t
    BY <2>1
  <2> HIDE DEF g
  <2>3. g[j - 1] < g[k - 1]
    BY <1>6, <1>7, <2>1, Ascending
  <2> QED BY <2>2, <2>3
<1> QED BY <1>5, <1>8 DEF f, n

(* The segments of a web session, one by one: who sends, with which numbers. *)
Carries(p, g, b, k, tag, client, cIsn, sIsn) ==
  /\ p.proto = "tcp" /\ p.tag = tag /\ p.ctl = g.ctl /\ Len(p.data) = g.len
  /\ g.client => /\ ~ p.reply /\ p.src = client /\ p.isn = cIsn /\ p.seq = b.c
                 /\ k # 1 => p.ack = b.s
  /\ ~ g.client => /\ p.reply /\ p.dst = client /\ p.isn = sIsn /\ p.seq = b.s
                   /\ k # 1 => p.ack = b.c
  /\ k = 1 => p.ack = 0

(* A web session follows its script. *)
Follows(w, at, client, secure, rounds, cIsn, sIsn, tag) ==
  LET script == Script(secure, rounds)
      f == AlongScript(script, at, cIsn, sIsn)
  IN  /\ w \in Seq(Plans) /\ Len(w) = Len(script)
      /\ \A k \in 1 .. Len(script) :
           w[k].at = f[k].t /\ Carries(w[k].pkt, script[k], f[k - 1], k, tag, client, cIsn, sIsn)

LEMMA WebPackets ==
  ASSUME NEW at \in Nat, NEW client \in Hosts, NEW server \in Hosts, NEW secure \in BOOLEAN,
         NEW rounds \in Nat, NEW cIsn \in Nat, NEW sIsn \in Nat, NEW tag \in Tags
  PROVE  Follows(WebSession(at, client, server, secure, rounds, cIsn, sIsn, tag),
                 at, client, secure, rounds, cIsn, sIsn, tag)
<1> DEFINE script == Script(secure, rounds)
           n == Len(script)
           f == AlongScript(script, at, cIsn, sIsn)
           Sent(g) == Packet("tcp", IF g.client THEN client ELSE server,
                             IF g.client THEN server ELSE client, tag, ~ g.client)
           Segment(g, b, first) ==
             [Sent(g) EXCEPT !.seq = IF g.client THEN b.c ELSE b.s,
                             !.ack = IF first THEN 0 ELSE IF g.client THEN b.s ELSE b.c,
                             !.ctl = g.ctl, !.data = [i \in 1 .. g.len |-> i % Digit],
                             !.isn = IF g.client THEN cIsn ELSE sIsn]
           w == [k \in DOMAIN script |-> Plan(f[k].t, Segment(script[k], f[k - 1], k = 1))]
<1>1. w = WebSession(at, client, server, secure, rounds, cIsn, sIsn, tag)
  BY DEF WebSession, AlongScript, Clocked
<1>2. Scripted(script)
  BY ScriptsScripted
<1>3. /\ script \in Seq(Segs) /\ n \in Nat /\ n >= 2 /\ DOMAIN script = 1 .. n
      /\ script[1].client
  BY <1>2 DEF Scripted
<1>4. \A k \in 1 .. n : script[k] \in Segs
  BY <1>3
<1>5. f \in [0 .. n -> Clocks]
  BY <1>3, ClocksTyped DEF KeepTime
<1>6. \A k \in 1 .. n : f[k] \in Clocks /\ f[k - 1] \in Clocks
  BY <1>3, <1>5
<1>0. script = Script(secure, rounds) /\ n = Len(script) /\ f = AlongScript(script, at, cIsn, sIsn)
  OBVIOUS
<1> HIDE DEF script, n, f
<1>7. "tcp" \in Protos
  BY DEF Protos
<1>8. \A g \in Segs : /\ Sent(g) \in Packets
                      /\ Sent(g).proto = "tcp" /\ Sent(g).tag = tag
                      /\ g.client => ~ Sent(g).reply /\ Sent(g).src = client
                      /\ ~ g.client => Sent(g).reply /\ Sent(g).dst = client
  <2> SUFFICES ASSUME NEW g \in Segs
               PROVE  /\ Sent(g) \in Packets
                      /\ Sent(g).proto = "tcp" /\ Sent(g).tag = tag
                      /\ g.client => ~ Sent(g).reply /\ Sent(g).src = client
                      /\ ~ g.client => Sent(g).reply /\ Sent(g).dst = client
    OBVIOUS
  <2> DEFINE src == IF g.client THEN client ELSE server
             dst == IF g.client THEN server ELSE client
             macs == IF dst = Multicast THEN <<src, Multicast>> ELSE NextHopMacs(src, dst)
  <2>1. src \in Hosts /\ dst \in Hosts /\ (g.client => src = client) /\ (~ g.client => dst = client)
    OBVIOUS
  <2>2. Sent(g) = [proto |-> "tcp", src |-> src, dst |-> dst, tag |-> tag, reply |-> ~ g.client,
                   macs |-> macs, seq |-> 0, ack |-> 0, ctl |-> 0, data |-> <<>>, isn |-> 0]
    BY DEF Packet
  <2>3. macs \in Hosts \X Hosts
    <3> HIDE DEF src, dst
    <3> QED BY <2>1, MacsKnown
  <2>4. <<>> \in Seq(Nat)
    OBVIOUS
  <2> HIDE DEF src, dst, macs, Sent
  <2>5. Sent(g) \in Packets
    BY <2>1, <2>2, <2>3, <2>4, <1>7 DEF Packets
  <2>6. Sent(g).proto = "tcp" /\ Sent(g).tag = tag /\ Sent(g).src = src /\ Sent(g).dst = dst
    BY <2>2
  <2>7. ASSUME g.client PROVE ~ Sent(g).reply
    <3>1. (~ g.client) = FALSE
      BY <2>7, Zenon
    <3>2. Sent(g).reply = (~ g.client)
      BY <2>2
    <3> QED BY <3>1, <3>2
  <2>8. ASSUME ~ g.client PROVE Sent(g).reply
    <3>1. Sent(g).reply = (~ g.client)
      BY <2>2
    <3> QED BY <3>1, <2>8
  <2> QED BY <2>1, <2>5, <2>6, <2>7, <2>8
<1> HIDE DEF Sent
<1>9. \A g \in Segs, b \in Clocks, first \in BOOLEAN :
        /\ Segment(g, b, first) \in Packets
        /\ Segment(g, b, first).proto = Sent(g).proto /\ Segment(g, b, first).tag = Sent(g).tag
        /\ Segment(g, b, first).reply = Sent(g).reply
        /\ Segment(g, b, first).src = Sent(g).src /\ Segment(g, b, first).dst = Sent(g).dst
        /\ Segment(g, b, first).ctl = g.ctl /\ Len(Segment(g, b, first).data) = g.len
        /\ g.client => /\ Segment(g, b, first).seq = b.c /\ Segment(g, b, first).isn = cIsn
                       /\ ~ first => Segment(g, b, first).ack = b.s
        /\ ~ g.client => /\ Segment(g, b, first).seq = b.s /\ Segment(g, b, first).isn = sIsn
                         /\ ~ first => Segment(g, b, first).ack = b.c
        /\ first => Segment(g, b, first).ack = 0
  <2> TAKE g \in Segs, b \in Clocks, first \in BOOLEAN
  <2> DEFINE seq == IF g.client THEN b.c ELSE b.s
             ack == IF first THEN 0 ELSE IF g.client THEN b.s ELSE b.c
             data == [i \in 1 .. g.len |-> i % Digit]
             isn == IF g.client THEN cIsn ELSE sIsn
             p == Sent(g)
  <2>1. seq \in Nat /\ ack \in Nat /\ isn \in Nat /\ g.ctl \in Nat /\ g.len \in Nat
    BY DEF Clocks, Segs
  <2>2. data \in Seq(Nat) /\ Len(data) = g.len
    <3>1. \A i \in 1 .. g.len : i % Digit \in Nat
      BY SynthesisAssumption, <2>1
    <3>2. data = [i \in 1 .. g.len |-> data[i]] /\ \A i \in 1 .. g.len : data[i] \in Nat
      BY <3>1
    <3> HIDE DEF data
    <3> QED BY <2>1, <3>2, ListedSequence
  <2>3. p \in Packets
    BY <1>8
  <2>4. Segment(g, b, first) = [p EXCEPT !.seq = seq, !.ack = ack, !.ctl = g.ctl, !.data = data,
                                         !.isn = isn]
    OBVIOUS
  <2>5. p = Sent(g)
    OBVIOUS
  <2>9. /\ g.client => seq = b.c /\ isn = cIsn /\ (~ first => ack = b.s)
        /\ ~ g.client => seq = b.s /\ isn = sIsn /\ (~ first => ack = b.c)
        /\ first => ack = 0
    OBVIOUS
  <2> HIDE DEF seq, ack, data, isn, p, Segment
  <2>6. Segment(g, b, first) \in Packets
    BY <2>1, <2>2, <2>3, <2>4 DEF Packets
  <2>7. /\ Segment(g, b, first).proto = p.proto /\ Segment(g, b, first).tag = p.tag
        /\ Segment(g, b, first).src = p.src /\ Segment(g, b, first).dst = p.dst
    BY <2>3, <2>4 DEF Packets
  <2>8. Segment(g, b, first).reply = p.reply
    BY <2>3, <2>4 DEF Packets
  <2>10. /\ Segment(g, b, first).seq = seq /\ Segment(g, b, first).ack = ack
         /\ Segment(g, b, first).ctl = g.ctl /\ Segment(g, b, first).data = data
         /\ Segment(g, b, first).isn = isn
    BY <2>3, <2>4 DEF Packets
  <2> QED BY <2>2, <2>5, <2>6, <2>7, <2>8, <2>9, <2>10
<1> HIDE DEF Segment
<1>10. \A k \in 1 .. n : w[k] = Plan(f[k].t, Segment(script[k], f[k - 1], k = 1))
  BY <1>3
<1>11. \A k \in 1 .. n :
         /\ w[k] \in Plans /\ w[k].at = f[k].t
         /\ Carries(w[k].pkt, script[k], f[k - 1], k, tag, client, cIsn, sIsn)
  <2> SUFFICES ASSUME NEW k \in 1 .. n
               PROVE  /\ w[k] \in Plans /\ w[k].at = f[k].t
                      /\ Carries(w[k].pkt, script[k], f[k - 1], k, tag, client, cIsn, sIsn)
    OBVIOUS
  <2> DEFINE g == script[k]
             b == f[k - 1]
             first == (k = 1)
             p == Segment(g, b, first)
  <2>1. g \in Segs /\ b \in Clocks /\ first \in BOOLEAN
    BY <1>4, <1>6
  <2>2. w[k] = Plan(f[k].t, p) /\ f[k].t \in Nat
    BY <1>6, <1>10 DEF Clocks
  <2>3. g = script[k] /\ b = f[k - 1] /\ (first <=> k = 1)
    OBVIOUS
  <2> HIDE DEF g, b, first
  <2>4. /\ p \in Packets /\ p.proto = Sent(g).proto /\ p.tag = Sent(g).tag
        /\ p.src = Sent(g).src /\ p.dst = Sent(g).dst
        /\ p.ctl = g.ctl /\ Len(p.data) = g.len
    BY <1>9, <2>1
  <2>5. p.reply = Sent(g).reply
    BY <1>9, <2>1
  <2>6. /\ Sent(g).proto = "tcp" /\ Sent(g).tag = tag
        /\ g.client => ~ Sent(g).reply /\ Sent(g).src = client
        /\ ~ g.client => Sent(g).reply /\ Sent(g).dst = client
    BY <1>8, <2>1
  <2>9. /\ g.client => p.seq = b.c /\ p.isn = cIsn /\ (~ first => p.ack = b.s)
        /\ ~ g.client => p.seq = b.s /\ p.isn = sIsn /\ (~ first => p.ack = b.c)
        /\ first => p.ack = 0
    BY <1>9, <2>1
  <2> HIDE DEF p, w
  <2>7. w[k].at = f[k].t /\ w[k].pkt = p /\ w[k] \in Plans
    BY <2>2, <2>4 DEF Plan, Plans
  <2>8. Carries(p, g, b, k, tag, client, cIsn, sIsn)
    BY <2>3, <2>4, <2>5, <2>6, <2>9 DEF Carries
  <2> QED BY <2>3, <2>7, <2>8
<1>12. w \in Seq(Plans) /\ Len(w) = n
  <2>1. w = [k \in 1 .. n |-> w[k]] /\ DOMAIN w = 1 .. n
    BY <1>3
  <2> HIDE DEF w
  <2> QED BY <2>1, <1>3, <1>11, ListedSequence
<1> HIDE DEF w
<1>13. Follows(w, at, client, secure, rounds, cIsn, sIsn, tag)
  BY <1>0, <1>11, <1>12 DEF Follows
<1> QED BY <1>1, <1>13

(* The first segment of a web session is the request for all replies. *)
LEMMA WebSessions ==
  ASSUME NEW at \in Nat, NEW client \in Hosts, NEW server \in Hosts, NEW secure \in BOOLEAN,
         NEW rounds \in Nat, NEW cIsn \in Nat, NEW sIsn \in Nat, NEW tag \in Tags
  PROVE  Session(WebSession(at, client, server, secure, rounds, cIsn, sIsn, tag), at)
<1> DEFINE script == Script(secure, rounds)
           n == Len(script)
           f == AlongScript(script, at, cIsn, sIsn)
           w == WebSession(at, client, server, secure, rounds, cIsn, sIsn, tag)
<1>1. /\ w \in Seq(Plans) /\ Len(w) = n
      /\ \A k \in 1 .. n : /\ w[k].at = f[k].t
                           /\ Carries(w[k].pkt, script[k], f[k - 1], k, tag, client, cIsn, sIsn)
  <2>1. Follows(w, at, client, secure, rounds, cIsn, sIsn, tag)
    BY WebPackets
  <2> HIDE DEF w
  <2> QED BY <2>1 DEF Follows
<1>2. Scripted(script)
  BY ScriptsScripted
<1>3. /\ n \in Nat /\ n >= 2 /\ script[1].client
  BY <1>2 DEF Scripted
<1>4. f[1].t = at /\ \A j, k \in 1 .. n : j < k => f[j].t < f[k].t
  BY <1>2, ClocksGo
<1>5. f \in [0 .. n -> Clocks]
  <2>1. script \in Seq(Segs)
    BY <1>2 DEF Scripted
  <2> QED BY <2>1, ClocksTyped DEF KeepTime
<1> HIDE DEF script, n, f, w
<1>6. 1 \in 1 .. n /\ DOMAIN w = 1 .. n
  BY <1>1, <1>3
<1>7. \A k \in 2 .. n : w[k].at > at
  <2> SUFFICES ASSUME NEW k \in 2 .. n PROVE w[k].at > at
    OBVIOUS
  <2>1. k \in 1 .. n /\ k \in 0 .. n /\ 1 < k /\ 1 \in 0 .. n
    BY <1>3
  <2>2. f[1].t < f[k].t /\ f[1].t = at
    BY <2>1, <1>4, <1>6
  <2>3. f[k].t \in Nat
    BY <2>1, <1>5 DEF Clocks
  <2> QED BY <2>1, <2>2, <2>3, <1>1
<1>8. w[1].at = at /\ ~ w[1].pkt.reply /\ w[1].pkt.src = client
  BY <1>1, <1>3, <1>4, <1>6 DEF Carries
<1>9. \A k \in 1 .. n : w[k].pkt.proto = "tcp" /\ w[k].pkt.tag = tag
  BY <1>1 DEF Carries
<1>15. \A k \in 1 .. n : w[k].pkt.reply => w[k].pkt.dst = client
  BY <1>1 DEF Carries
<1>10. \A k \in 1 .. n : k = 1 \/ k \in 2 .. n
  BY <1>3
<1>14. \A k \in 1 .. n : w[k].at \in Nat
  <2>1. \A k \in 1 .. n : w[k] \in Plans
    BY <1>1
  <2> QED BY <2>1 DEF Plans
<1>11. \A k \in 1 .. n : w[k].at >= at
  <2>1. \A k \in 2 .. n : w[k].at >= at
    BY <1>7, <1>14
  <2> QED BY <2>1, <1>8, <1>10
<1>12. \A k \in 1 .. n : w[k].pkt.reply => Asks(w[1], w[k])
  <2> SUFFICES ASSUME NEW k \in 1 .. n, w[k].pkt.reply PROVE Asks(w[1], w[k])
    OBVIOUS
  <2>1. k \in 2 .. n
    BY <1>8, <1>10
  <2>2. w[1].at < w[k].at
    BY <2>1, <1>7, <1>8, <1>14
  <2>3. w[k].pkt.proto = "tcp" /\ w[k].pkt.tag = tag
    BY <1>9
  <2>6. w[k].pkt.dst = client
    BY <1>15
  <2>4. w[1].pkt.proto = "tcp" /\ w[1].pkt.tag = tag
    BY <1>6, <1>9
  <2>5. Same(w[1].pkt, w[k].pkt)
    BY <2>3, <2>4 DEF Same
  <2> QED BY ONLY <2>2, <2>5, <2>6, <1>8 DEF Asks
<1>13. Session(w, at)
  BY <1>1, <1>6, <1>11, <1>12 DEF Session
<1> QED BY <1>13 DEF w

(* Whatever the simulator begins is a session. *)
LEMMA EverySession ==
  ASSUME NEW at \in Nat, NEW tag \in Nat, NEW s \in UserSessions(at, tag) \cup Periodic(at, tag)
  PROVE  Session(s, at)
<1>1. /\ ClientHost \in Hosts /\ LocalServer \in Hosts /\ Gateway \in Hosts /\ WebServer \in Hosts
      /\ Resolver \in Hosts /\ Multicast \in Hosts
      /\ "stp" \in Protos /\ "snmp" \in Protos /\ "ntp" \in Protos /\ "mdns" \in Protos
      /\ "dns" \in Protos
      /\ tag \in Tags /\ <<tag, 0>> \in Tags
  BY DEF Hosts, Protos, Tags
<1>2. Rounds \subseteq Nat /\ Isns \subseteq Nat
  <2>1. 2 ^ SeqWidth \in Nat
    BY SynthesisAssumption, PowerPositive
  <2> QED BY <2>1, SynthesisAssumption
<1>3. \A t \in Nat, server \in Hosts, secure \in BOOLEAN, n \in Rounds, i \in Isns, j \in Isns :
        Session(WebSession(t, ClientHost, server, secure, n, i, j, tag), t)
  <2> SUFFICES ASSUME NEW t \in Nat, NEW server \in Hosts, NEW secure \in BOOLEAN,
                      NEW n \in Rounds, NEW i \in Isns, NEW j \in Isns
               PROVE  Session(WebSession(t, ClientHost, server, secure, n, i, j, tag), t)
    OBVIOUS
  <2>1. n \in Nat /\ i \in Nat /\ j \in Nat
    BY <1>2
  <2> QED BY <2>1, <1>1, WebSessions
<1> DEFINE Web(t, server, secure) ==
             {WebSession(t, ClientHost, server, secure, n, i, j, tag) :
                n \in Rounds, i \in Isns, j \in Isns}
           lookup == Exchange("dns", at, ClientHost, Resolver, <<tag, 0>>)
<1>4. \A t \in Nat, server \in Hosts, secure \in BOOLEAN :
        \A w \in Web(t, server, secure) : Session(w, t)
  <2> SUFFICES ASSUME NEW t \in Nat, NEW server \in Hosts, NEW secure \in BOOLEAN,
                      NEW w \in Web(t, server, secure)
               PROVE  Session(w, t)
    OBVIOUS
  <2>1. PICK n \in Rounds, i \in Isns, j \in Isns :
          w = WebSession(t, ClientHost, server, secure, n, i, j, tag)
    OBVIOUS
  <2> QED BY <2>1, <1>3
<1>5. Session(lookup, at)
  BY <1>1, ExchangeSession
<1>6. CASE \E d \in {Gateway, WebServer} : s = PingSession(at, ClientHost, d, tag)
  <2>1. PICK d \in Hosts : s = PingSession(at, ClientHost, d, tag)
    BY <1>1, <1>6
  <2> QED BY <2>1, <1>1, PingSessions
<1>7. CASE s = Single("mdns", at, ClientHost, Multicast, tag)
  BY <1>1, <1>7, SingleSession
<1>8. CASE s = Single("stp", at, Gateway, Multicast, tag)
  BY <1>1, <1>8, SingleSession
<1>9. CASE s = Single("snmp", at, Gateway, LocalServer, tag)
  BY <1>1, <1>9, SingleSession
<1>10. CASE s = Exchange("ntp", at, ClientHost, Gateway, tag)
  BY <1>1, <1>10, ExchangeSession
<1>11. CASE s = ArpExchange(at, ClientHost, Gateway, tag)
  BY <1>1, <1>11, ArpSession
<1>12. CASE s = DhcpDora(at, ClientHost, tag)
  BY <1>1, <1>12, DoraSession
<1>13. CASE s \in Periodic(at, tag)
  BY <1>13, <1>8, <1>9, <1>10, <1>11, <1>12 DEF Periodic
<1>14. CASE s \in UserSessions(at, tag)
  <2> DEFINE outside == {lookup \o w : w \in Web(at + 3, WebServer, TRUE)}
             locals == UNION {Web(at, LocalServer, secure) : secure \in BOOLEAN}
             pings == {PingSession(at, ClientHost, d, tag) : d \in {Gateway, WebServer}}
  <2>0. UserSessions(at, tag) =
          outside \cup locals \cup pings \cup {Single("mdns", at, ClientHost, Multicast, tag)}
    BY DEF UserSessions
  <2>1. s \in outside \cup locals \cup pings \cup {Single("mdns", at, ClientHost, Multicast, tag)}
    <3> HIDE DEF outside, locals, pings
    <3> QED BY <2>0, <1>14
  <2>2. CASE s \in outside
    <3> HIDE DEF Web, lookup
    <3>1. PICK w \in Web(at + 3, WebServer, TRUE) : s = lookup \o w
      BY <2>2
    <3>2. at + 3 \in Nat /\ at <= at + 3 /\ at <= at
      OBVIOUS
    <3>3. Session(w, at + 3)
      BY <1>1, <1>4, <3>1, <3>2
    <3> QED BY <3>1, <3>2, <3>3, <1>5, SessionsJoin
  <2>3. CASE s \in locals
    <3> HIDE DEF Web
    <3>1. PICK secure \in BOOLEAN : s \in Web(at, LocalServer, secure)
      BY <2>3
    <3> QED BY <3>1, <1>1, <1>4
  <2>4. CASE s \in pings
    BY <2>4, <1>6
  <2> HIDE DEF outside, locals, pings
  <2> QED BY <2>1, <2>2, <2>3, <2>4, <1>7
<1> QED BY <1>13, <1>14

(* What a list of planned or captured packets says: when and what. *)
Reads(list) == {Plan(list[i].at, list[i].pkt) : i \in DOMAIN list}
Answered(H) == \A p \in H : p.pkt.reply => \E q \in H : Asks(q, p)

(* What a session says answers itself, and joins with what is there. *)
LEMMA SessionRead ==
  ASSUME NEW s, NEW t \in Nat, Session(s, t)
  PROVE  Answered(Reads(s))
<1>1. \A i \in DOMAIN s : s[i].pkt.reply => \E j \in DOMAIN s : Asks(s[j], s[i])
  BY DEF Session
<1>2. \A i, j \in DOMAIN s :
        Asks(s[j], s[i]) => Asks(Plan(s[j].at, s[j].pkt), Plan(s[i].at, s[i].pkt))
  BY DEF Asks, Plan
<1> SUFFICES ASSUME NEW p \in Reads(s), p.pkt.reply PROVE \E q \in Reads(s) : Asks(q, p)
  BY DEF Answered
<1>3. PICK i \in DOMAIN s : p = Plan(s[i].at, s[i].pkt)
  BY DEF Reads
<1>4. s[i].pkt.reply
  BY <1>3 DEF Plan
<1>5. PICK j \in DOMAIN s : Asks(s[j], s[i])
  BY <1>1, <1>4
<1>6. Plan(s[j].at, s[j].pkt) \in Reads(s)
  BY DEF Reads
<1> QED BY <1>2, <1>3, <1>5, <1>6

LEMMA AnsweredTogether ==
  ASSUME NEW G, Answered(G), NEW H, Answered(H)
  PROVE  Answered(G \cup H)
BY DEF Answered

LEMMA ReadsJoin ==
  ASSUME NEW T, NEW r \in Seq(T), NEW s \in Seq(T)
  PROVE  Reads(r \o s) = Reads(r) \cup Reads(s)
<1> DEFINE both == r \o s
           Line(e) == Plan(e.at, e.pkt)
<1>1. /\ \A i \in DOMAIN r : i \in DOMAIN both /\ both[i] = r[i]
      /\ \A i \in DOMAIN s : Len(r) + i \in DOMAIN both /\ both[Len(r) + i] = s[i]
      /\ \A i \in DOMAIN both : \/ i \in DOMAIN r /\ both[i] = r[i]
                                \/ i - Len(r) \in DOMAIN s /\ both[i] = s[i - Len(r)]
  OBVIOUS
<1>2. /\ Reads(both) = {Line(both[i]) : i \in DOMAIN both}
      /\ Reads(r) = {Line(r[i]) : i \in DOMAIN r} /\ Reads(s) = {Line(s[i]) : i \in DOMAIN s}
  BY DEF Reads
<1> HIDE DEF both, Line
<1>3. Reads(both) = Reads(r) \cup Reads(s)
  <2>1. \A x \in Reads(both) : x \in Reads(r) \cup Reads(s)
    BY <1>1, <1>2
  <2>2. \A x \in Reads(r) : x \in Reads(both)
    BY <1>1, <1>2
  <2>3. \A x \in Reads(s) : x \in Reads(both)
    BY <1>1, <1>2
  <2> QED BY <2>1, <2>2, <2>3
<1> QED BY <1>3 DEF both

(* A number that advances with what is sent, and wraps. *)
Advances(g, v, m, n) ==
  \A k \in 1 .. n : g[k] = (g[k - 1] + v[k]) % m \/ (v[k] = 0 /\ g[k] = g[k - 1])
Tracks(g, isn, F, m, n) == \A k \in 0 .. n : g[k] = (isn + F[k]) % m

LEMMA NumbersTrack ==
  ASSUME NEW n \in Nat, NEW m \in Nat \ {0}, NEW isn \in 0 .. m - 1, NEW v \in [1 .. n -> Nat],
         NEW F, Sums(n, v, F), NEW g \in [0 .. n -> Nat], g[0] = isn, Advances(g, v, m, n)
  PROVE  Tracks(g, isn, F, m, n)
<1> DEFINE bad == {k \in 0 .. n : ~ (g[k] = (isn + F[k]) % m)}
<1>1. F \in [0 .. n -> Nat] /\ F[0] = 0 /\ \A k \in 1 .. n : F[k] = F[k - 1] + v[k]
  BY DEF Sums
<1>2. g[0] = (isn + F[0]) % m
  <2>1. isn + F[0] = isn
    BY <1>1
  <2>2. isn % m = isn
    <3>1. m * 0 + isn = isn /\ 0 \in Nat
      OBVIOUS
    <3>2. (m * 0 + isn) % m = isn
      BY <3>1, QuotientUnique
    <3> QED BY <3>1, <3>2
  <2> QED BY <2>1, <2>2
<1>3. ASSUME NEW k \in 1 .. n, g[k - 1] = (isn + F[k - 1]) % m
      PROVE  g[k] = (isn + F[k]) % m
  <2> DEFINE a == isn + F[k - 1]
             u == v[k]
  <2>1. k - 1 \in 0 .. n
    OBVIOUS
  <2>2. a \in Nat /\ u \in Nat /\ isn + F[k] = a + u
    <3>1. F[k - 1] \in Nat /\ v[k] \in Nat /\ F[k] = F[k - 1] + v[k] /\ isn \in Nat
      BY <2>1, <1>1
    <3> QED BY <3>1
  <2>3. g[k - 1] = a % m
    BY <1>3
  <2>4. g[k] = (g[k - 1] + u) % m \/ (u = 0 /\ g[k] = g[k - 1])
    BY DEF Advances
  <2> HIDE DEF a, u
  <2>5. CASE g[k] = (g[k - 1] + u) % m
    <3>1. ((a % m) + u) % m = (a + u) % m
      BY <2>2, RemainderAdds
    <3> QED BY <3>1, <2>2, <2>3, <2>5
  <2>6. CASE u = 0 /\ g[k] = g[k - 1]
    <3>1. a + u = a
      BY <2>2, <2>6
    <3> QED BY <3>1, <2>2, <2>3, <2>6
  <2> QED BY <2>4, <2>5, <2>6
<1>4. bad = {}
  <2> SUFFICES ASSUME bad # {} PROVE FALSE
    OBVIOUS
  <2>1. PICK k \in bad : \A b \in bad : k <= b
    <3>1. bad \in SUBSET Nat
      OBVIOUS
    <3> HIDE DEF bad
    <3> QED BY <3>1, LeastNumber
  <2>2. k \in 1 .. n /\ k - 1 \in 0 .. n /\ ~ (k <= k - 1) /\ ~ (g[k] = (isn + F[k]) % m)
    BY <2>1, <1>2
  <2>3. k - 1 \notin bad
    <3> HIDE DEF bad
    <3> QED BY <2>1, <2>2
  <2>4. g[k - 1] = (isn + F[k - 1]) % m
    BY <2>2, <2>3
  <2> QED BY <2>2, <2>4, <1>3
<1> QED BY <1>4 DEF Tracks

(* What the two sides of a session have sent, and the numbers that go with *)
(* it: a stream.                                                           *)
ByClient(w) == [k \in 1 .. Len(w) |-> IF w[k].pkt.reply THEN 0 ELSE Used(w[k].pkt)]
ByServer(w) == [k \in 1 .. Len(w) |-> IF w[k].pkt.reply THEN Used(w[k].pkt) ELSE 0]

Fitting(p, k, c, s, C, S) ==
  /\ ~ p.reply => /\ p.isn = c /\ p.seq = (c + C[k - 1]) % (2 ^ SeqWidth)
                  /\ k # 1 => p.ack = (s + S[k - 1]) % (2 ^ SeqWidth)
  /\ p.reply => /\ p.isn = s /\ p.seq = (s + S[k - 1]) % (2 ^ SeqWidth)
                /\ k # 1 => p.ack = (c + C[k - 1]) % (2 ^ SeqWidth)
  /\ k = 1 => p.ack = 0

Reckoned(w, c, s, C, S) ==
  /\ c \in Nat /\ s \in Nat
  /\ Sums(Len(w), ByClient(w), C) /\ Sums(Len(w), ByServer(w), S)
  /\ \A k \in 1 .. Len(w) : Fitting(w[k].pkt, k, c, s, C, S)

Stream(w, tag) ==
  /\ w \in Seq(Plans) /\ Len(w) >= 2
  /\ \A k \in 1 .. Len(w) : w[k].pkt.proto = "tcp" /\ w[k].pkt.tag = tag
  /\ \A j, k \in 1 .. Len(w) : j < k => w[j].at < w[k].at
  /\ ~ w[1].pkt.reply /\ w[2].pkt.reply
  /\ \E c, s, C, S : Reckoned(w, c, s, C, S)

LEMMA SizesTyped ==
  ASSUME NEW w \in Seq(Plans)
  PROVE  /\ Len(w) \in Nat /\ \A k \in 1 .. Len(w) : Used(w[k].pkt) \in Nat
         /\ ByClient(w) \in [1 .. Len(w) -> Nat] /\ ByServer(w) \in [1 .. Len(w) -> Nat]
<1>1. Len(w) \in Nat /\ \A k \in 1 .. Len(w) : w[k] \in Plans
  OBVIOUS
<1>2. \A k \in 1 .. Len(w) : Used(w[k].pkt) \in Nat
  <2> SUFFICES ASSUME NEW k \in 1 .. Len(w) PROVE Used(w[k].pkt) \in Nat
    OBVIOUS
  <2>1. w[k].pkt.data \in Seq(Nat) /\ w[k].pkt.ctl \in Nat
    BY <1>1 DEF Plans, Packets
  <2> QED BY <2>1 DEF Used
<1> QED BY <1>1, <1>2 DEF ByClient, ByServer

LEMMA WebStreams ==
  ASSUME NEW at \in Nat, NEW client \in Hosts, NEW server \in Hosts, NEW secure \in BOOLEAN,
         NEW rounds \in Nat, NEW cIsn \in 0 .. 2 ^ SeqWidth - 1, NEW sIsn \in 0 .. 2 ^ SeqWidth - 1,
         NEW tag \in Tags
  PROVE  Stream(WebSession(at, client, server, secure, rounds, cIsn, sIsn, tag), tag)
<1> DEFINE script == Script(secure, rounds)
           n == Len(script)
           M == 2 ^ SeqWidth
           f == AlongScript(script, at, cIsn, sIsn)
           w == WebSession(at, client, server, secure, rounds, cIsn, sIsn, tag)
<1>0. M \in Nat \ {0} /\ cIsn \in Nat /\ sIsn \in Nat
  BY SynthesisAssumption, PowerPositive
<1>1. /\ w \in Seq(Plans) /\ Len(w) = n
      /\ \A k \in 1 .. n : /\ w[k].at = f[k].t
                           /\ Carries(w[k].pkt, script[k], f[k - 1], k, tag, client, cIsn, sIsn)
  <2>1. Follows(w, at, client, secure, rounds, cIsn, sIsn, tag)
    BY <1>0, WebPackets
  <2> HIDE DEF w
  <2> QED BY <2>1 DEF Follows
<1>2. Scripted(script)
  BY ScriptsScripted
<1>3. n \in Nat /\ n >= 2 /\ script[1].client /\ ~ script[2].client /\ script \in Seq(Segs)
  BY <1>2 DEF Scripted
<1>4. \A j, k \in 1 .. n : j < k => f[j].t < f[k].t
  BY <1>0, <1>2, ClocksGo
<1>5. KeepTime(script, at, f) /\ Counts(script, cIsn, sIsn, f)
  BY <1>0, <1>3, ClocksTyped
<1>6. cIsn \in 0 .. M - 1 /\ sIsn \in 0 .. M - 1
  OBVIOUS
<1>7. /\ f \in [0 .. n -> Clocks] /\ f[0].c = cIsn /\ f[0].s = sIsn
      /\ \A k \in 1 .. n :
           /\ script[k].client => /\ f[k].c = (f[k - 1].c + Consumed(script[k])) % M
                                  /\ f[k].s = f[k - 1].s
           /\ ~ script[k].client => /\ f[k].s = (f[k - 1].s + Consumed(script[k])) % M
                                    /\ f[k].c = f[k - 1].c
  BY <1>5 DEF KeepTime, Counts
<1> HIDE DEF script, n, f, w, M
<1>8. 1 \in 1 .. n /\ 2 \in 1 .. n
  BY <1>3
<1> DEFINE v == ByClient(w)
           u == ByServer(w)
<1>9. v \in [1 .. n -> Nat] /\ u \in [1 .. n -> Nat]
  BY <1>1, SizesTyped
<1>10. \A k \in 1 .. n :
         /\ script[k].client => v[k] = Consumed(script[k]) /\ u[k] = 0
         /\ ~ script[k].client => u[k] = Consumed(script[k]) /\ v[k] = 0
  <2> SUFFICES ASSUME NEW k \in 1 .. n
               PROVE  /\ script[k].client => v[k] = Consumed(script[k]) /\ u[k] = 0
                      /\ ~ script[k].client => u[k] = Consumed(script[k]) /\ v[k] = 0
    OBVIOUS
  <2> DEFINE p == w[k].pkt
  <2>1. Carries(p, script[k], f[k - 1], k, tag, client, cIsn, sIsn)
    BY <1>1
  <2>2. /\ v[k] = IF p.reply THEN 0 ELSE Used(p)
        /\ u[k] = IF p.reply THEN Used(p) ELSE 0
    BY <1>1 DEF ByClient, ByServer
  <2> HIDE DEF p, v, u
  <2>3. Used(p) = Consumed(script[k])
    BY <2>1 DEF Carries, Used, Consumed
  <2>4. CASE script[k].client
    <3>1. ~ p.reply
      BY <2>1, <2>4 DEF Carries
    <3> QED BY <3>1, <2>2, <2>3, <2>4
  <2>5. CASE ~ script[k].client
    <3>1. p.reply
      BY <2>1, <2>5 DEF Carries
    <3> QED BY <3>1, <2>2, <2>3, <2>5
  <2> QED BY <2>4, <2>5
<1>11. PICK C : Sums(n, v, C)
  BY <1>3, <1>9, SumsExist
<1>12. PICK S : Sums(n, u, S)
  BY <1>3, <1>9, SumsExist
<1> HIDE DEF v, u
<1> DEFINE g == [k \in 0 .. n |-> f[k].c]
           h == [k \in 0 .. n |-> f[k].s]
<1>13. /\ g \in [0 .. n -> Nat] /\ g[0] = cIsn /\ h \in [0 .. n -> Nat] /\ h[0] = sIsn
       /\ \A k \in 0 .. n : g[k] = f[k].c /\ h[k] = f[k].s
  <2>1. \A k \in 0 .. n : f[k].c \in Nat /\ f[k].s \in Nat
    BY <1>7 DEF Clocks
  <2>2. 0 \in 0 .. n
    BY <1>3
  <2> QED BY <2>1, <2>2, <1>7
<1> HIDE DEF g, h
<1>14. Advances(g, v, M, n) /\ Advances(h, u, M, n)
  <2> SUFFICES ASSUME NEW k \in 1 .. n
               PROVE  /\ g[k] = (g[k - 1] + v[k]) % M \/ (v[k] = 0 /\ g[k] = g[k - 1])
                      /\ h[k] = (h[k - 1] + u[k]) % M \/ (u[k] = 0 /\ h[k] = h[k - 1])
    BY DEF Advances
  <2>1. k \in 0 .. n /\ k - 1 \in 0 .. n
    BY <1>3
  <2>2. g[k] = f[k].c /\ g[k - 1] = f[k - 1].c /\ h[k] = f[k].s /\ h[k - 1] = f[k - 1].s
    BY <2>1, <1>13
  <2>3. CASE script[k].client
    BY <2>2, <2>3, <1>7, <1>10
  <2>4. CASE ~ script[k].client
    BY <2>2, <2>4, <1>7, <1>10
  <2> QED BY <2>3, <2>4
<1>15. Tracks(g, cIsn, C, M, n)
  BY <1>0, <1>3, <1>6, <1>9, <1>11, <1>13, <1>14, NumbersTrack
<1>16. Tracks(h, sIsn, S, M, n)
  BY <1>0, <1>3, <1>6, <1>9, <1>12, <1>13, <1>14, NumbersTrack
<1>17. \A k \in 1 .. n : f[k - 1].c = (cIsn + C[k - 1]) % M /\ f[k - 1].s = (sIsn + S[k - 1]) % M
  <2>1. \A k \in 1 .. n : k - 1 \in 0 .. n
    BY <1>3
  <2> QED BY <2>1, <1>13, <1>15, <1>16 DEF Tracks
<1>18. \A k \in 1 .. n : Fitting(w[k].pkt, k, cIsn, sIsn, C, S)
  <2> SUFFICES ASSUME NEW k \in 1 .. n PROVE Fitting(w[k].pkt, k, cIsn, sIsn, C, S)
    OBVIOUS
  <2> DEFINE p == w[k].pkt
             x == script[k]
             b == f[k - 1]
  <2>1. Carries(p, x, b, k, tag, client, cIsn, sIsn)
    BY <1>1
  <2>2. b.c = (cIsn + C[k - 1]) % M /\ b.s = (sIsn + S[k - 1]) % M
    BY <1>17
  <2> HIDE DEF p, x, b
  <2>3. CASE x.client
    <3>1. /\ ~ p.reply /\ p.isn = cIsn /\ p.seq = b.c /\ (k # 1 => p.ack = b.s)
          /\ (k = 1 => p.ack = 0)
      BY <2>1, <2>3 DEF Carries
    <3> QED BY <3>1, <2>2 DEF Fitting, M, p
  <2>4. CASE ~ x.client
    <3>1. /\ p.reply /\ p.isn = sIsn /\ p.seq = b.s /\ (k # 1 => p.ack = b.c)
          /\ (k = 1 => p.ack = 0)
      BY <2>1, <2>4 DEF Carries
    <3> QED BY <3>1, <2>2 DEF Fitting, M, p
  <2> QED BY <2>3, <2>4
<1>19. Reckoned(w, cIsn, sIsn, C, S)
  BY <1>0, <1>1, <1>11, <1>12, <1>18 DEF Reckoned, v, u
<1>20. \A k \in 1 .. n : w[k].pkt.proto = "tcp" /\ w[k].pkt.tag = tag
  BY <1>1 DEF Carries
<1>21. ~ w[1].pkt.reply /\ w[2].pkt.reply
  BY <1>1, <1>3, <1>8 DEF Carries
<1>22. \A j, k \in 1 .. n : j < k => w[j].at < w[k].at
  BY <1>1, <1>4
<1>23. Stream(w, tag)
  <2>1. \E c, s, X, Y : Reckoned(w, c, s, X, Y)
    BY <1>19
  <2> QED BY <2>1, <1>1, <1>3, <1>20, <1>21, <1>22 DEF Stream
<1> QED BY <1>23 DEF w

Tcp(e, f) == e.pkt.proto = "tcp" /\ f.pkt.proto = "tcp" /\ e.pkt.tag = f.pkt.tag

(* No two segments of a connection are at one time. *)
Once(list) == \A i, j \in 1 .. Len(list) : Tcp(list[i], list[j]) /\ list[i].at = list[j].at => i = j
Distinct(r, s) ==
  \A i \in 1 .. Len(r), j \in 1 .. Len(s) : Tcp(r[i], s[j]) => r[i].at # s[j].at

LEMMA OnceJoins ==
  ASSUME NEW T, NEW r \in Seq(T), NEW s \in Seq(T), Once(r), Once(s), Distinct(r, s)
  PROVE  Once(r \o s)
<1> DEFINE w == r \o s
           m == Len(r)
           n == Len(s)
<1>1. /\ m \in Nat /\ n \in Nat /\ Len(w) = m + n
      /\ \A k \in 1 .. m + n : \/ k \in 1 .. m /\ w[k] = r[k]
                               \/ k - m \in 1 .. n /\ w[k] = s[k - m]
  OBVIOUS
<1> HIDE DEF w, m, n
<1>2. ASSUME NEW i \in 1 .. m + n, NEW j \in 1 .. m + n, Tcp(w[i], w[j]), w[i].at = w[j].at
      PROVE  i = j
  <2>0. Tcp(w[j], w[i])
    BY <1>2 DEF Tcp
  <2>1. CASE i \in 1 .. m /\ w[i] = r[i] /\ j \in 1 .. m /\ w[j] = r[j]
    BY <2>1, <1>2 DEF Once, m
  <2>2. CASE i - m \in 1 .. n /\ w[i] = s[i - m] /\ j - m \in 1 .. n /\ w[j] = s[j - m]
    <3>1. i - m = j - m
      BY <2>2, <1>2 DEF Once, n
    <3> QED BY <3>1, <1>1
  <2>3. CASE i \in 1 .. m /\ w[i] = r[i] /\ j - m \in 1 .. n /\ w[j] = s[j - m]
    BY <2>3, <1>2 DEF Distinct, m, n
  <2>4. CASE i - m \in 1 .. n /\ w[i] = s[i - m] /\ j \in 1 .. m /\ w[j] = r[j]
    BY <2>4, <2>0, <1>2 DEF Distinct, m, n
  <2> QED BY <1>1, <2>1, <2>2, <2>3, <2>4
<1>3. Once(w)
  BY <1>1, <1>2 DEF Once
<1> QED BY <1>3 DEF w

Quiet(s) == \A i \in 1 .. Len(s) : s[i].pkt.proto # "tcp"
Conversation(H, n) == {x \in H : x.pkt.proto = "tcp" /\ x.pkt.tag = n}
Streamed(H, n) ==
  Conversation(H, n) = {} \/ \E w : Stream(w, n) /\ Conversation(H, n) = Reads(w)

(* What a session has of TCP is one stream, with the session's number. *)
OneStream(s, n) ==
  /\ s \in Seq(Plans) /\ Once(s)
  /\ \A i \in 1 .. Len(s) : s[i].pkt.proto = "tcp" => s[i].pkt.tag = n
  /\ Streamed(Reads(s), n)

LEMMA QuietStreams ==
  ASSUME NEW s \in Seq(Plans), NEW n, Quiet(s)
  PROVE  OneStream(s, n)
<1>1. Conversation(Reads(s), n) = {}
  <2> SUFFICES ASSUME NEW x \in Reads(s), x.pkt.proto = "tcp" PROVE FALSE
    BY DEF Conversation
  <2>1. PICK i \in 1 .. Len(s) : x = Plan(s[i].at, s[i].pkt)
    BY DEF Reads
  <2>2. x.pkt = s[i].pkt
    BY <2>1 DEF Plan
  <2> QED BY <2>2 DEF Quiet
<1>2. Once(s)
  BY DEF Once, Quiet, Tcp
<1> QED BY <1>1, <1>2 DEF OneStream, Streamed, Quiet

(* The lines of a stream are its own. *)
LEMMA StreamReads ==
  ASSUME NEW n, NEW w, Stream(w, n)
  PROVE  Conversation(Reads(w), n) = Reads(w) /\ OneStream(w, n)
<1>1. /\ w \in Seq(Plans) /\ Len(w) \in Nat /\ DOMAIN w = 1 .. Len(w)
      /\ \A k \in 1 .. Len(w) : w[k].pkt.proto = "tcp" /\ w[k].pkt.tag = n
      /\ \A j, k \in 1 .. Len(w) : j < k => w[j].at < w[k].at
  BY DEF Stream
<1>2. \A k \in 1 .. Len(w) : w[k].at \in Nat
  <2>1. \A k \in 1 .. Len(w) : w[k] \in Plans
    BY <1>1
  <2> QED BY <2>1 DEF Plans
<1>3. \A x \in Reads(w) : x.pkt.proto = "tcp" /\ x.pkt.tag = n
  BY <1>1 DEF Reads, Plan
<1>4. Conversation(Reads(w), n) = Reads(w)
  BY <1>3 DEF Conversation
<1>5. Once(w)
  <2> SUFFICES ASSUME NEW i \in 1 .. Len(w), NEW j \in 1 .. Len(w), w[i].at = w[j].at PROVE i = j
    BY DEF Once
  <2>1. ~ (i < j) /\ ~ (j < i)
    BY <1>1, <1>2
  <2> QED BY <2>1
<1>6. Streamed(Reads(w), n)
  BY <1>4 DEF Streamed
<1> QED BY <1>1, <1>4, <1>5, <1>6 DEF OneStream

LEMMA StreamAfterQuiet ==
  ASSUME NEW n, NEW r \in Seq(Plans), Quiet(r), NEW w, Stream(w, n)
  PROVE  OneStream(r \o w, n)
<1> DEFINE s == r \o w
<1>1. OneStream(w, n) /\ Conversation(Reads(w), n) = Reads(w) /\ w \in Seq(Plans)
  BY StreamReads DEF OneStream
<1>2. OneStream(r, n)
  BY QuietStreams
<1>3. Once(s)
  <2>1. Distinct(r, w)
    BY DEF Distinct, Quiet, Tcp
  <2>2. Once(r) /\ Once(w)
    BY <1>1, <1>2 DEF OneStream
  <2> QED BY <2>1, <2>2, <1>1, OnceJoins
<1>4. /\ s \in Seq(Plans) /\ Len(r) \in Nat
      /\ \A k \in 1 .. Len(s) : \/ k \in 1 .. Len(r) /\ s[k] = r[k]
                                \/ k - Len(r) \in 1 .. Len(w) /\ s[k] = w[k - Len(r)]
  BY <1>1
<1>5. Reads(s) = Reads(r) \cup Reads(w)
  BY <1>1, ReadsJoin
<1> HIDE DEF s
<1>6. \A i \in 1 .. Len(s) : s[i].pkt.proto = "tcp" => s[i].pkt.tag = n
  BY <1>1, <1>4 DEF Quiet, OneStream
<1>7. Conversation(Reads(r), n) = {}
  <2> SUFFICES ASSUME NEW x \in Reads(r), x.pkt.proto = "tcp" PROVE FALSE
    BY DEF Conversation
  <2>1. PICK i \in 1 .. Len(r) : x = Plan(r[i].at, r[i].pkt)
    BY DEF Reads
  <2>2. x.pkt = r[i].pkt
    BY <2>1 DEF Plan
  <2> QED BY <2>2 DEF Quiet
<1>8. Conversation(Reads(s), n) = Reads(w)
  <2>1. Conversation(Reads(s), n) = Conversation(Reads(r), n) \cup Conversation(Reads(w), n)
    BY <1>5 DEF Conversation
  <2> QED BY <2>1, <1>1, <1>7
<1>9. Streamed(Reads(s), n)
  BY <1>8 DEF Streamed
<1>10. OneStream(s, n)
  BY <1>3, <1>4, <1>6, <1>9 DEF OneStream
<1> QED BY <1>10 DEF s

LEMMA ExchangeQuiet ==
  ASSUME NEW proto \in Protos, proto # "tcp", NEW at \in Nat, NEW asker \in Hosts,
         NEW target \in Hosts, NEW tag \in Tags
  PROVE  /\ Exchange(proto, at, asker, target, tag) \in Seq(Plans)
         /\ Quiet(Exchange(proto, at, asker, target, tag))
<1>1. Exchange(proto, at, asker, target, tag) \in Seq(Plans)
  BY ExchangeSession DEF Session
<1> DEFINE q == Packet(proto, asker, target, tag, FALSE)
           a == Packet(proto, target, asker, tag, TRUE)
           s == <<Plan(at, q), Plan(at + 2, a)>>
<1>2. q.proto = proto /\ a.proto = proto
  BY DEF Packet
<1>3. s = Exchange(proto, at, asker, target, tag)
  BY DEF Exchange
<1> HIDE DEF q, a
<1>4. Len(s) = 2 /\ s[1].pkt = q /\ s[2].pkt = a
  BY DEF Plan
<1> HIDE DEF s
<1>5. Quiet(s)
  <2>1. \A i \in 1 .. Len(s) : i = 1 \/ i = 2
    BY <1>4
  <2> QED BY <2>1, <1>2, <1>4 DEF Quiet
<1> QED BY <1>1, <1>3, <1>5

LEMMA PeriodicQuiet ==
  ASSUME NEW at \in Nat, NEW tag \in Nat, NEW s \in Periodic(at, tag)
  PROVE  s \in Seq(Plans) /\ Quiet(s)
<1>0. s \in Seq(Plans)
  <2>1. Session(s, at)
    BY EverySession
  <2> QED BY <2>1 DEF Session
<1>1. /\ ClientHost \in Hosts /\ LocalServer \in Hosts /\ Gateway \in Hosts /\ Multicast \in Hosts
      /\ "ntp" \in Protos /\ "arp" \in Protos /\ tag \in Tags
  BY DEF Hosts, Protos, Tags
<1>2. CASE s = Single("stp", at, Gateway, Multicast, tag)
  <2>1. Len(s) = 1 /\ s[1].pkt.proto = "stp"
    BY <1>2 DEF Single, Plan, Packet
  <2> QED BY <1>0, <2>1 DEF Quiet
<1>3. CASE s = Single("snmp", at, Gateway, LocalServer, tag)
  <2>1. Len(s) = 1 /\ s[1].pkt.proto = "snmp"
    BY <1>3 DEF Single, Plan, Packet
  <2> QED BY <1>0, <2>1 DEF Quiet
<1>4. CASE s = Exchange("ntp", at, ClientHost, Gateway, tag)
  BY <1>4, <1>1, ExchangeQuiet
<1>5. CASE s = ArpExchange(at, ClientHost, Gateway, tag)
  <2> DEFINE e == Exchange("arp", at, ClientHost, Gateway, tag)
             q == [e[1] EXCEPT !.pkt.macs = <<ClientHost, Multicast>>]
  <2>1. s = <<q, e[2]>>
    BY <1>5 DEF ArpExchange
  <2>2. e \in Seq(Plans) /\ Quiet(e) /\ Len(e) = 2
    BY <1>1, ExchangeQuiet DEF Exchange
  <2> HIDE DEF e
  <2>3. e[1] \in Plans /\ e[1].pkt.proto # "tcp" /\ e[2].pkt.proto # "tcp"
    <3>1. 1 \in 1 .. Len(e) /\ 2 \in 1 .. Len(e)
      BY <2>2
    <3>2. \A i \in 1 .. Len(e) : e[i] \in Plans
      <4>1. e \in Seq(Plans)
        BY <2>2
      <4> QED BY ONLY <4>1
    <3>3. \A i \in 1 .. Len(e) : e[i].pkt.proto # "tcp"
      BY <2>2 DEF Quiet
    <3> QED BY <3>1, <3>2, <3>3
  <2>4. q.pkt.proto = e[1].pkt.proto
    BY <2>3 DEF Plans, Packets
  <2> HIDE DEF q
  <2>5. Len(s) = 2 /\ s[1] = q /\ s[2] = e[2]
    BY <2>1
  <2>6. \A i \in 1 .. Len(s) : i = 1 \/ i = 2
    BY <2>5
  <2> QED BY <2>3, <2>4, <2>5, <2>6, <1>0 DEF Quiet
<1>6. CASE s = DhcpDora(at, ClientHost, tag)
  <2> DEFINE a == Packet("dhcp", ClientHost, Multicast, tag, FALSE)
             b == Packet("dhcp", Gateway, ClientHost, tag, TRUE)
  <2>1. s = [k \in 1 .. 4 |-> Plan(at + k - 1, IF k % 2 = 1 THEN a ELSE b)]
    BY <1>6 DEF DhcpDora
  <2>2. a.proto = "dhcp" /\ b.proto = "dhcp"
    BY DEF Packet
  <2> HIDE DEF a, b
  <2>3. DOMAIN s = 1 .. 4 /\ \A k \in 1 .. 4 : s[k].pkt = a \/ s[k].pkt = b
    BY <2>1 DEF Plan
  <2>4. DOMAIN s = 1 .. Len(s)
    BY <1>0
  <2> QED BY <2>2, <2>3, <2>4, <1>0 DEF Quiet
<1> QED BY <1>2, <1>3, <1>4, <1>5, <1>6 DEF Periodic

LEMMA SessionStreams ==
  ASSUME NEW at \in Nat, NEW tag \in Nat, NEW s \in UserSessions(at, tag) \cup Periodic(at, tag)
  PROVE  OneStream(s, tag)
<1>1. /\ ClientHost \in Hosts /\ LocalServer \in Hosts /\ Gateway \in Hosts /\ WebServer \in Hosts
      /\ Resolver \in Hosts /\ Multicast \in Hosts /\ "dns" \in Protos /\ "icmp" \in Protos
      /\ tag \in Tags /\ <<tag, 0>> \in Tags /\ <<tag, 1>> \in Tags /\ <<tag, 2>> \in Tags
  BY DEF Hosts, Protos, Tags
<1>2. Rounds \subseteq Nat /\ Isns \subseteq 0 .. 2 ^ SeqWidth - 1
  BY SynthesisAssumption
<1> DEFINE Web(t, server, secure) ==
             {WebSession(t, ClientHost, server, secure, n, i, j, tag) :
                n \in Rounds, i \in Isns, j \in Isns}
           lookup == Exchange("dns", at, ClientHost, Resolver, <<tag, 0>>)
<1>3. \A t \in Nat, server \in Hosts, secure \in BOOLEAN :
        \A w \in Web(t, server, secure) : Stream(w, tag)
  <2> SUFFICES ASSUME NEW t \in Nat, NEW server \in Hosts, NEW secure \in BOOLEAN,
                      NEW w \in Web(t, server, secure)
               PROVE  Stream(w, tag)
    OBVIOUS
  <2>1. PICK n \in Rounds, i \in Isns, j \in Isns :
          w = WebSession(t, ClientHost, server, secure, n, i, j, tag)
    OBVIOUS
  <2>2. n \in Nat /\ i \in 0 .. 2 ^ SeqWidth - 1 /\ j \in 0 .. 2 ^ SeqWidth - 1
    BY <1>2
  <2> QED BY <2>1, <2>2, <1>1, WebStreams
<1>4. lookup \in Seq(Plans) /\ Quiet(lookup)
  BY <1>1, ExchangeQuiet
<1>5. CASE s \in Periodic(at, tag)
  <2>1. s \in Seq(Plans) /\ Quiet(s)
    BY <1>5, PeriodicQuiet
  <2> QED BY <2>1, QuietStreams
<1>6. CASE \E d \in {Gateway, WebServer} : s = PingSession(at, ClientHost, d, tag)
  <2>1. PICK d \in Hosts : s = PingSession(at, ClientHost, d, tag)
    BY <1>1, <1>6
  <2> DEFINE p == Exchange("icmp", at, ClientHost, d, <<tag, 1>>)
             q == Exchange("icmp", at + 3, ClientHost, d, <<tag, 2>>)
  <2>2. p \in Seq(Plans) /\ Quiet(p) /\ q \in Seq(Plans) /\ Quiet(q)
    <3>1. at + 3 \in Nat
      OBVIOUS
    <3>2. p \in Seq(Plans) /\ Quiet(p)
      BY <1>1, ExchangeQuiet
    <3>3. q \in Seq(Plans) /\ Quiet(q)
      BY <3>1, <1>1, ExchangeQuiet
    <3> QED BY <3>2, <3>3
  <2>3. s = p \o q
    BY <2>1 DEF PingSession
  <2> HIDE DEF p, q
  <2>4. /\ s \in Seq(Plans)
        /\ \A k \in 1 .. Len(s) : \/ k \in 1 .. Len(p) /\ s[k] = p[k]
                                  \/ k - Len(p) \in 1 .. Len(q) /\ s[k] = q[k - Len(p)]
    BY <2>2, <2>3
  <2>5. Quiet(s)
    BY <2>2, <2>4 DEF Quiet
  <2> QED BY <2>4, <2>5, QuietStreams
<1>7. CASE s = Single("mdns", at, ClientHost, Multicast, tag)
  <2>1. Len(s) = 1 /\ s[1].pkt.proto = "mdns"
    BY <1>7 DEF Single, Plan, Packet
  <2>2. Quiet(s)
    BY <2>1 DEF Quiet
  <2>3. s \in Seq(Plans)
    <3>1. Session(s, at)
      BY EverySession
    <3> QED BY <3>1 DEF Session
  <2> QED BY <2>2, <2>3, QuietStreams
<1>8. CASE s \in UserSessions(at, tag)
  <2> DEFINE outside == {lookup \o w : w \in Web(at + 3, WebServer, TRUE)}
             locals == UNION {Web(at, LocalServer, secure) : secure \in BOOLEAN}
             pings == {PingSession(at, ClientHost, d, tag) : d \in {Gateway, WebServer}}
  <2>0. UserSessions(at, tag) =
          outside \cup locals \cup pings \cup {Single("mdns", at, ClientHost, Multicast, tag)}
    BY DEF UserSessions
  <2>1. s \in outside \cup locals \cup pings \cup {Single("mdns", at, ClientHost, Multicast, tag)}
    <3> HIDE DEF outside, locals, pings
    <3> QED BY <2>0, <1>8
  <2>2. CASE s \in outside
    <3> HIDE DEF Web, lookup
    <3>1. PICK w \in Web(at + 3, WebServer, TRUE) : s = lookup \o w
      BY <2>2
    <3>2. at + 3 \in Nat
      OBVIOUS
    <3>3. Stream(w, tag)
      BY <1>1, <1>3, <3>1, <3>2
    <3> QED BY <3>1, <3>3, <1>4, StreamAfterQuiet
  <2>3. CASE s \in locals
    <3> HIDE DEF Web
    <3>1. PICK secure \in BOOLEAN : s \in Web(at, LocalServer, secure)
      BY <2>3
    <3>2. Stream(s, tag)
      BY <3>1, <1>1, <1>3
    <3> QED BY <3>2, StreamReads
  <2>4. CASE s \in pings
    BY <2>4, <1>6
  <2> HIDE DEF outside, locals, pings
  <2> QED BY <2>1, <2>2, <2>3, <2>4, <1>7
<1> QED BY <1>5, <1>8

(* The plans that are due, sorted. *)
LEMMA ByTimePlaces ==
  ASSUME NEW e \in Seq(Plans)
  PROVE  /\ ByTime(e) \in Seq(Plans) /\ Len(e) \in Nat /\ Len(ByTime(e)) = Len(e)
         /\ \E f \in [1 .. Len(e) -> 1 .. Len(e)] :
              /\ \A i \in 1 .. Len(e) : ByTime(e)[f[i]] = e[i]
              /\ \A k \in 1 .. Len(e) : \E i \in 1 .. Len(e) : f[i] = k
              /\ \A i, j \in 1 .. Len(e) : f[i] < f[j] => e[i].at <= e[j].at
<1> DEFINE n == Len(e)
           key == [i \in 1 .. n |-> e[i].at]
           t == ByTime(e)
           Before(i, j) == e[i].at < e[j].at \/ (e[i].at = e[j].at /\ i < j)
           First(k) == CHOOSE i \in 1 .. n : 1 + Cardinality({j \in 1 .. n : Before(j, i)}) = k
           Keyed(k) == CHOOSE i \in 1 .. n :
                         1 + Cardinality({j \in 1 .. n :
                                            \/ key[j] < key[i]
                                            \/ key[j] = key[i] /\ j < i}) = k
<1>1. n \in Nat /\ DOMAIN e = 1 .. n /\ \A i \in 1 .. n : e[i] \in Plans
  OBVIOUS
<1>2. \A i \in 1 .. n : e[i].at \in Int
  BY <1>1 DEF Plans
<1>3. key \in [1 .. n -> Int] /\ \A i \in 1 .. n : key[i] = e[i].at
  BY <1>2
<1>4. t = [k \in 1 .. n |-> e[First(k)]]
  <2> DEFINE Plainly(k) == CHOOSE i \in DOMAIN e : 1 + Cardinality({j \in DOMAIN e : Before(j, i)}) = k
  <2>1. t = [k \in DOMAIN e |-> e[Plainly(k)]]
    BY DEF ByTime, SortedBy
  <2>2. \A k : Plainly(k) = First(k)
    <3> HIDE DEF Before
    <3> QED BY <1>1
  <2> HIDE DEF t, First, Plainly, n
  <2> QED BY <2>1, <2>2, <1>1
<1>5. \A k : First(k) = Keyed(k)
  <2> DEFINE Those(i) == {j \in 1 .. n : Before(j, i)}
             Theirs(i) == {j \in 1 .. n : \/ key[j] < key[i]
                                          \/ key[j] = key[i] /\ j < i}
  <2>1. \A i \in 1 .. n : Those(i) = Theirs(i)
    <3> HIDE DEF n, key
    <3> QED BY <1>3
  <2>2. \A k : First(k) = CHOOSE i \in 1 .. n : 1 + Cardinality(Those(i)) = k
    OBVIOUS
  <2>3. \A k : Keyed(k) = CHOOSE i \in 1 .. n : 1 + Cardinality(Theirs(i)) = k
    OBVIOUS
  <2> HIDE DEF Those, Theirs, First, Keyed, n, key
  <2>4. \A k : \A i \in 1 .. n : (1 + Cardinality(Those(i)) = k) <=> (1 + Cardinality(Theirs(i)) = k)
    BY <2>1
  <2>5. \A k : (CHOOSE i \in 1 .. n : 1 + Cardinality(Those(i)) = k)
                = (CHOOSE i \in 1 .. n : 1 + Cardinality(Theirs(i)) = k)
    BY <2>4
  <2> QED BY <2>2, <2>3, <2>5
<1>6. t = [k \in 1 .. n |-> e[Keyed(k)]]
  <2> HIDE DEF t, First, Keyed, n
  <2> QED BY <1>4, <1>5
<1> HIDE DEF t, First, key
<1>7. Sorts(Plans, e, key, t)
  <2> HIDE DEF n
  <2> QED BY <1>3, <1>6, SortPlaces DEF n
<1>8. \A i, j \in 1 .. n : key[i] <= key[j] => e[i].at <= e[j].at
  BY <1>3
<1> QED BY <1>7, <1>8 DEF t, Sorts

Entries == [id : Nat, at : Nat, pkt : Packets]

ReadingTypeOK ==
  /\ now \in Nat /\ begun \in Nat /\ nextId \in Nat
  /\ pending \in Seq(Plans) /\ buffer \in Seq(Entries)

(* The numbers of the buffer run up to the next one. *)
NumberedUpTo(b, next) ==
  Len(b) < next /\ \A k \in 1 .. Len(b) : b[k].id = next - 1 - Len(b) + k

(* What is buffered was due, in order; what is planned is not due yet. *)
InOrder(b) == \A i, j \in 1 .. Len(b) : i < j => b[i].at <= b[j].at
Until(list, t) == \A i \in 1 .. Len(list) : list[i].at <= t
Beyond(list, t) == \A i \in 1 .. Len(list) : list[i].at > t

(* With nothing evicted, each reply has its request among all there is. *)
NothingEvicted(b, next) == next = Len(b) + 1

ReadingInv ==
  /\ ReadingTypeOK
  /\ NumberedUpTo(buffer, nextId)
  /\ InOrder(buffer) /\ Until(buffer, now) /\ Beyond(pending, now)
  /\ NothingEvicted(buffer, nextId) => Answered(Reads(pending) \cup Reads(buffer))

(* What is due is numbered in the order of time. *)
Numbering(ready, next) ==
  [k \in DOMAIN ready |-> [id |-> next + k - 1, at |-> ready[k].at, pkt |-> ready[k].pkt]]

(* The due ones of the plans come out in the order of time, all of them. *)
Due(planned, t) == {i \in DOMAIN planned : planned[i].at <= t}
Ready(planned, t, u, ready) ==
  /\ ready \in Seq(Plans)
  /\ \A i, j \in 1 .. Len(ready) : i < j => ready[i].at <= ready[j].at
  /\ \A i \in 1 .. Len(ready) : ready[i].at <= t /\ ready[i].at > u
  /\ \A i \in 1 .. Len(ready) : \E k \in Due(planned, t) : ready[i] = planned[k]
  /\ \A k \in Due(planned, t) : \E i \in 1 .. Len(ready) : ready[i] = planned[k]
  /\ Once(planned) => Once(ready)

LEMMA DueInOrder ==
  ASSUME NEW planned \in Seq(Plans), NEW due, NEW t \in Nat, NEW u \in Nat,
         due = Due(planned, t), Beyond(planned, u),
         NEW ready, ready = ByTime(Picked(planned, due))
  PROVE  Ready(planned, t, u, ready)
<1> DEFINE e == Picked(planned, due)
           n == Cardinality(due)
<1>1. due \in SUBSET DOMAIN planned /\ DOMAIN planned = 1 .. Len(planned)
  BY DEF Due
<1>2. /\ e \in Seq(Plans) /\ n \in Nat /\ Len(e) = n
      /\ \A k \in 1 .. n : NthOf(due, k) \in due /\ e[k] = planned[NthOf(due, k)]
      /\ \A k, l \in 1 .. n : k < l => NthOf(due, k) < NthOf(due, l)
      /\ \A i \in due : \E k \in 1 .. n : NthOf(due, k) = i
  <2>1. planned \in Seq(Plans)
    OBVIOUS
  <2> QED BY ONLY <2>1, <1>1, PickedElements
<1> HIDE DEF e, n
<1>3. ready = ByTime(e)
  BY DEF e
<1>4. ready \in Seq(Plans) /\ Len(ready) = n
  BY <1>2, <1>3, ByTimePlaces
<1>5. PICK f \in [1 .. n -> 1 .. n] :
         /\ \A i \in 1 .. n : ready[f[i]] = e[i]
         /\ \A k \in 1 .. n : \E i \in 1 .. n : f[i] = k
         /\ \A i, j \in 1 .. n : f[i] < f[j] => e[i].at <= e[j].at
  <2>1. PICK f \in [1 .. Len(e) -> 1 .. Len(e)] :
              /\ \A i \in 1 .. Len(e) : ByTime(e)[f[i]] = e[i]
              /\ \A k \in 1 .. Len(e) : \E i \in 1 .. Len(e) : f[i] = k
              /\ \A i, j \in 1 .. Len(e) : f[i] < f[j] => e[i].at <= e[j].at
    BY <1>2, ByTimePlaces
  <2>2. Len(e) = n /\ ByTime(e) = ready
    BY <1>2, <1>3
  <2>3. f \in [1 .. n -> 1 .. n]
    BY <2>2
  <2>4. /\ \A i \in 1 .. n : ready[f[i]] = e[i]
        /\ \A k \in 1 .. n : \E i \in 1 .. n : f[i] = k
        /\ \A i, j \in 1 .. n : f[i] < f[j] => e[i].at <= e[j].at
    BY <2>1, <2>2
  <2> QED BY <2>3, <2>4
<1>6. \A i, j \in 1 .. n : i < j => ready[i].at <= ready[j].at
  <2> SUFFICES ASSUME NEW i \in 1 .. n, NEW j \in 1 .. n, i < j
               PROVE  ready[i].at <= ready[j].at
    OBVIOUS
  <2>1. PICK a \in 1 .. n : f[a] = i
    BY <1>5
  <2>2. PICK b \in 1 .. n : f[b] = j
    BY <1>5
  <2> QED BY <2>1, <2>2, <1>5
<1>7. \A i \in 1 .. n : \E k \in due : ready[i] = planned[k]
  <2> SUFFICES ASSUME NEW i \in 1 .. n PROVE \E k \in due : ready[i] = planned[k]
    OBVIOUS
  <2>1. PICK a \in 1 .. n : f[a] = i
    BY <1>5
  <2>2. ready[i] = e[a]
    BY <2>1, <1>5
  <2> QED BY <2>2, <1>2
<1>8. \A k \in due : \E i \in 1 .. n : ready[i] = planned[k]
  <2> SUFFICES ASSUME NEW k \in due PROVE \E i \in 1 .. n : ready[i] = planned[k]
    OBVIOUS
  <2>1. PICK a \in 1 .. n : NthOf(due, a) = k
    BY <1>2
  <2>2. ready[f[a]] = planned[k] /\ f[a] \in 1 .. n
    BY <2>1, <1>2, <1>5
  <2> QED BY <2>2
<1>9. \A i \in 1 .. n : ready[i].at <= t /\ ready[i].at > u
  <2>1. \A k \in due : planned[k].at <= t /\ planned[k].at > u
    BY <1>1 DEF Due, Beyond
  <2> QED BY <2>1, <1>7
<1>10. Once(planned) => Once(ready)
  <2> SUFFICES ASSUME Once(planned), NEW x \in 1 .. n, NEW y \in 1 .. n,
                      Tcp(ready[x], ready[y]), ready[x].at = ready[y].at
               PROVE  x = y
    BY <1>4 DEF Once
  <2>1. PICK i \in 1 .. n : f[i] = x
    BY <1>5
  <2>2. PICK j \in 1 .. n : f[j] = y
    BY <1>5
  <2> DEFINE a == NthOf(due, i)
             b == NthOf(due, j)
  <2>8. e[i] = planned[a] /\ e[j] = planned[b] /\ a \in due /\ b \in due
    BY <1>2
  <2>9. ready[x] = e[i] /\ ready[y] = e[j]
    BY <2>1, <2>2, <1>5
  <2>3. ready[x] = planned[a] /\ ready[y] = planned[b] /\ a \in due /\ b \in due
    BY <2>8, <2>9
  <2>4. a \in 1 .. Len(planned) /\ b \in 1 .. Len(planned) /\ Len(planned) \in Nat
    BY <2>3, <1>1
  <2>5. (i < j => a < b) /\ (j < i => b < a)
    BY <1>2
  <2> HIDE DEF a, b
  <2>6. a = b
    BY <2>3, <2>4 DEF Once
  <2>7. i = j
    <3>1. ~ (i < j) /\ ~ (j < i)
      BY <2>4, <2>5, <2>6
    <3> QED BY <3>1, <1>2
  <2> QED BY <2>1, <2>2, <2>7
<1> QED BY <1>4, <1>6, <1>7, <1>8, <1>9, <1>10 DEF Ready

NumberedFrom(ready, next, s) ==
  /\ s \in Seq(Entries) /\ Len(s) = Len(ready)
  /\ \A k \in 1 .. Len(ready) :
       s[k].id = next + k - 1 /\ s[k].at = ready[k].at /\ s[k].pkt = ready[k].pkt

LEMMA NumberingRight ==
  ASSUME NEW ready \in Seq(Plans), NEW next \in Nat, next > 0,
         NEW s, s = Numbering(ready, next)
  PROVE  NumberedFrom(ready, next, s)
<1> DEFINE n == Len(ready)
<1>1. n \in Nat /\ DOMAIN ready = 1 .. n /\ \A k \in 1 .. n : ready[k] \in Plans
  OBVIOUS
<1>2. s = [k \in 1 .. n |-> [id |-> next + k - 1, at |-> ready[k].at, pkt |-> ready[k].pkt]]
  BY <1>1 DEF Numbering
<1> HIDE DEF n
<1>3. \A k \in 1 .. n :
        s[k].id = next + k - 1 /\ s[k].at = ready[k].at /\ s[k].pkt = ready[k].pkt
  BY <1>2
<1>4. \A k \in 1 .. n : s[k] \in Entries
  <2> SUFFICES ASSUME NEW k \in 1 .. n PROVE s[k] \in Entries
    OBVIOUS
  <2>1. next + k - 1 \in Nat
    BY <1>1
  <2>2. ready[k].at \in Nat /\ ready[k].pkt \in Packets
    BY <1>1 DEF Plans
  <2>3. s[k] = [id |-> next + k - 1, at |-> ready[k].at, pkt |-> ready[k].pkt]
    BY <1>2
  <2> QED BY <2>1, <2>2, <2>3 DEF Entries
<1>5. s = [k \in 1 .. n |-> s[k]]
  BY <1>2
<1>6. s \in Seq(Entries) /\ Len(s) = n
  BY <1>1, <1>4, <1>5, ListedSequence
<1> QED BY <1>3, <1>6 DEF n, NumberedFrom

(* A buffer that is joined to what comes next. *)
LEMMA BufferGrows ==
  ASSUME NEW b \in Seq(Entries), NEW s \in Seq(Entries), NEW next \in Nat, NEW u \in Nat,
         NEW t \in Nat, u < t,
         NumberedUpTo(b, next), InOrder(b), Until(b, u),
         \A k \in 1 .. Len(s) : s[k].id = next + k - 1,
         \A i, j \in 1 .. Len(s) : i < j => s[i].at <= s[j].at,
         \A i \in 1 .. Len(s) : s[i].at <= t /\ s[i].at > u
  PROVE  NumberedUpTo(b \o s, next + Len(s)) /\ InOrder(b \o s) /\ Until(b \o s, t)
<1> DEFINE w == b \o s
           m == Len(b)
           n == Len(s)
<1>1. /\ m \in Nat /\ n \in Nat /\ Len(w) = m + n /\ w \in Seq(Entries)
      /\ \A k \in 1 .. m + n : \/ k \in 1 .. m /\ w[k] = b[k]
                               \/ k - m \in 1 .. n /\ w[k] = s[k - m]
  OBVIOUS
<1>2. \A i \in 1 .. m : b[i].at \in Nat /\ b[i].at <= u
  <2>1. \A i \in 1 .. m : b[i] \in Entries
    OBVIOUS
  <2> QED BY <2>1 DEF Entries, Until
<1>3. \A i \in 1 .. n : s[i].at \in Nat
  <2>1. \A i \in 1 .. n : s[i] \in Entries
    OBVIOUS
  <2> QED BY <2>1 DEF Entries
<1>4. /\ m < next /\ \A k \in 1 .. m : b[k].id = next - 1 - m + k
      /\ \A i, j \in 1 .. m : i < j => b[i].at <= b[j].at
  BY DEF NumberedUpTo, InOrder
<1>5. /\ \A k \in 1 .. n : s[k].id = next + k - 1
      /\ \A i, j \in 1 .. n : i < j => s[i].at <= s[j].at
      /\ \A i \in 1 .. n : s[i].at <= t /\ s[i].at > u
  OBVIOUS
<1> HIDE DEF w, m, n
<1>6. \A k \in 1 .. m + n : w[k].id = (next + n) - 1 - (m + n) + k
  <2> SUFFICES ASSUME NEW k \in 1 .. m + n
               PROVE  w[k].id = (next + n) - 1 - (m + n) + k
    OBVIOUS
  <2>1. CASE k \in 1 .. m /\ w[k] = b[k]
    BY <2>1, <1>1, <1>4
  <2>2. CASE k - m \in 1 .. n /\ w[k] = s[k - m]
    <3>1. s[k - m].id = next + (k - m) - 1
      BY <2>2, <1>5
    <3> QED BY <3>1, <2>2, <1>1
  <2> QED BY <2>1, <2>2, <1>1
<1>7. \A i, j \in 1 .. m + n : i < j => w[i].at <= w[j].at
  <2> SUFFICES ASSUME NEW i \in 1 .. m + n, NEW j \in 1 .. m + n, i < j
               PROVE  w[i].at <= w[j].at
    OBVIOUS
  <2>1. CASE j \in 1 .. m /\ w[j] = b[j]
    <3>1. i \in 1 .. m /\ w[i] = b[i]
      BY <2>1, <1>1
    <3> QED BY <3>1, <2>1, <1>4
  <2>2. CASE j - m \in 1 .. n /\ w[j] = s[j - m]
    <3>1. CASE i \in 1 .. m /\ w[i] = b[i]
      BY <3>1, <2>2, <1>2, <1>3, <1>5
    <3>2. CASE i - m \in 1 .. n /\ w[i] = s[i - m]
      <4>1. i - m < j - m
        BY <1>1
      <4> QED BY <4>1, <3>2, <2>2, <1>5
    <3> QED BY <3>1, <3>2, <1>1
  <2> QED BY <2>1, <2>2, <1>1
<1>8. \A i \in 1 .. m + n : w[i].at <= t
  <2> SUFFICES ASSUME NEW i \in 1 .. m + n PROVE w[i].at <= t
    OBVIOUS
  <2>1. CASE i \in 1 .. m /\ w[i] = b[i]
    BY <2>1, <1>2
  <2>2. CASE i - m \in 1 .. n /\ w[i] = s[i - m]
    BY <2>2, <1>5
  <2> QED BY <2>1, <2>2, <1>1
<1>9. m + n < next + n
  BY <1>1, <1>4
<1>10. NumberedUpTo(w, next + n) /\ InOrder(w) /\ Until(w, t)
  BY <1>1, <1>6, <1>7, <1>8, <1>9 DEF NumberedUpTo, InOrder, Until
<1> QED BY <1>10 DEF w, n

(* The oldest packets are evicted. *)
LEMMA KeptInOrder ==
  ASSUME NEW w \in Seq(Entries), NEW next \in Nat, NEW t \in Nat,
         NumberedUpTo(w, next), InOrder(w), Until(w, t), NEW b, b = Kept(w)
  PROVE  /\ b \in Seq(Entries) /\ NumberedUpTo(b, next) /\ InOrder(b) /\ Until(b, t)
         /\ NothingEvicted(b, next) => b = w
<1>1. CASE Len(w) <= BufferCap
  BY <1>1 DEF Kept
<1>2. CASE ~ (Len(w) <= BufferCap)
  <2> DEFINE from == Len(w) - BufferCap
             n == Len(w)
  <2>1. n \in Nat /\ BufferCap \in Nat \ {0} /\ from \in Nat /\ from >= 1
    BY <1>2, SynthesisAssumption
  <2>2. b = SubSeq(w, from + 1, n)
    BY <1>2 DEF Kept
  <2>3. /\ b \in Seq(Entries) /\ Len(b) = BufferCap
        /\ \A k \in 1 .. BufferCap : b[k] = w[from + k]
    <3>1. from + 1 \in 1 .. n + 1 /\ n \in 0 .. n /\ \A i \in 1 .. n : w[i] \in Entries
      BY <2>1
    <3>2. Len(b) = n - (from + 1) + 1
      BY <2>1, <2>2
    <3>3. \A k \in 1 .. BufferCap : b[k] = w[from + k]
      BY <2>1, <2>2
    <3>4. b \in Seq(Entries)
      BY <2>1, <2>2, <3>1
    <3> QED BY <3>2, <3>3, <3>4, <2>1
  <2> HIDE DEF n
  <2>4. /\ n < next /\ \A k \in 1 .. n : w[k].id = next - 1 - n + k
        /\ \A i, j \in 1 .. n : i < j => w[i].at <= w[j].at
        /\ \A i \in 1 .. n : w[i].at <= t
    BY DEF NumberedUpTo, InOrder, Until, n
  <2>5. n = from + BufferCap /\ \A k \in 1 .. BufferCap : from + k \in 1 .. n
    BY <2>1 DEF n
  <2> HIDE DEF from
  <2>6. \A k \in 1 .. BufferCap : b[k].id = next - 1 - BufferCap + k
    <3> SUFFICES ASSUME NEW k \in 1 .. BufferCap
                 PROVE  b[k].id = next - 1 - BufferCap + k
      OBVIOUS
    <3>1. w[from + k].id = next - 1 - n + (from + k)
      BY <2>4, <2>5
    <3> QED BY <3>1, <2>1, <2>3, <2>5
  <2>7. \A i, j \in 1 .. BufferCap : i < j => b[i].at <= b[j].at
    <3> SUFFICES ASSUME NEW i \in 1 .. BufferCap, NEW j \in 1 .. BufferCap, i < j
                 PROVE  b[i].at <= b[j].at
      OBVIOUS
    <3>1. from + i < from + j /\ from + i \in 1 .. n /\ from + j \in 1 .. n
      BY <2>1, <2>5
    <3> QED BY <3>1, <2>3, <2>4
  <2>8. \A i \in 1 .. BufferCap : b[i].at <= t
    BY <2>3, <2>4, <2>5
  <2>9. BufferCap < next /\ next # BufferCap + 1
    BY <2>1, <2>4, <2>5
  <2> QED BY <2>3, <2>6, <2>7, <2>8, <2>9 DEF NumberedUpTo, InOrder, Until, NothingEvicted
<1> QED BY <1>1, <1>2

LEMMA NumberedReads ==
  ASSUME NEW ready \in Seq(Plans), NEW next \in Nat, next > 0,
         NEW s, s = Numbering(ready, next)
  PROVE  Reads(s) = Reads(ready)
<1>1. /\ s \in Seq(Entries) /\ Len(s) = Len(ready)
      /\ \A k \in 1 .. Len(ready) : s[k].at = ready[k].at /\ s[k].pkt = ready[k].pkt
  BY NumberingRight DEF NumberedFrom
<1>2. DOMAIN s = 1 .. Len(ready) /\ DOMAIN ready = 1 .. Len(ready)
  BY <1>1
<1> QED BY <1>1, <1>2 DEF Reads

(* What is planned is split into what is due and what is not. *)
SplitAt(planned, t, ready, rest) ==
  /\ rest \in Seq(Plans) /\ Beyond(rest, t)
  /\ Reads(planned) = Reads(ready) \cup Reads(rest)
  /\ Once(planned) => Once(rest)

LEMMA PlansSplit ==
  ASSUME NEW planned \in Seq(Plans), NEW due, NEW t \in Nat, NEW u, due = Due(planned, t),
         NEW ready, Ready(planned, t, u, ready),
         NEW rest, rest = Picked(planned, DOMAIN planned \ due)
  PROVE  SplitAt(planned, t, ready, rest)
<1> DEFINE S == DOMAIN planned \ due
           n == Cardinality(S)
<1>0. planned \in Seq(Plans)
  OBVIOUS
<1>1. S \in SUBSET DOMAIN planned /\ DOMAIN planned = 1 .. Len(planned)
  OBVIOUS
<1>2. /\ Picked(planned, S) \in Seq(Plans) /\ n \in Nat /\ Len(Picked(planned, S)) = n
      /\ \A k \in 1 .. n : NthOf(S, k) \in S /\ Picked(planned, S)[k] = planned[NthOf(S, k)]
      /\ \A k, l \in 1 .. n : k < l => NthOf(S, k) < NthOf(S, l)
      /\ \A i \in S : \E k \in 1 .. n : NthOf(S, k) = i
  <2> HIDE DEF S
  <2> QED BY ONLY <1>0, <1>1, PickedElements DEF n
<1>3. rest = Picked(planned, S)
  OBVIOUS
<1> HIDE DEF n
<1>4. /\ rest \in Seq(Plans) /\ Len(rest) = n /\ DOMAIN rest = 1 .. n
      /\ \A k \in 1 .. n : NthOf(S, k) \in S /\ rest[k] = planned[NthOf(S, k)]
      /\ \A k, l \in 1 .. n : k < l => NthOf(S, k) < NthOf(S, l)
      /\ \A i \in S : \E k \in 1 .. n : NthOf(S, k) = i
  <2> DEFINE p == Picked(planned, S)
  <2>1. /\ p \in Seq(Plans) /\ n \in Nat /\ Len(p) = n
        /\ \A k \in 1 .. n : NthOf(S, k) \in S /\ p[k] = planned[NthOf(S, k)]
        /\ \A k, l \in 1 .. n : k < l => NthOf(S, k) < NthOf(S, l)
        /\ \A i \in S : \E k \in 1 .. n : NthOf(S, k) = i
    BY <1>2
  <2>2. p = rest
    BY <1>3
  <2> HIDE DEF S, p
  <2>3. /\ rest \in Seq(Plans) /\ Len(rest) = n /\ n \in Nat
        /\ \A k \in 1 .. n : NthOf(S, k) \in S /\ rest[k] = planned[NthOf(S, k)]
        /\ \A k, l \in 1 .. n : k < l => NthOf(S, k) < NthOf(S, l)
        /\ \A i \in S : \E k \in 1 .. n : NthOf(S, k) = i
    BY <2>1, <2>2
  <2>4. DOMAIN rest = 1 .. n
    BY <2>3
  <2> QED BY ONLY <2>3, <2>4
<1>5. \A i \in S : planned[i].at > t
  <2>1. \A i \in DOMAIN planned : planned[i] \in Plans
    OBVIOUS
  <2>2. \A i \in DOMAIN planned : planned[i].at \in Nat
    BY <2>1 DEF Plans
  <2> QED BY <2>2 DEF Due
<1>6. Beyond(rest, t)
  <2> HIDE DEF S
  <2> QED BY <1>4, <1>5 DEF Beyond
<1>7. \A i \in DOMAIN planned : i \in due \/ i \in S
  OBVIOUS
<1>8. /\ due \subseteq DOMAIN planned /\ S \subseteq DOMAIN planned
      /\ ready \in Seq(Plans) /\ DOMAIN ready = 1 .. Len(ready)
      /\ \A i \in 1 .. Len(ready) : \E k \in due : ready[i] = planned[k]
      /\ \A k \in due : \E i \in 1 .. Len(ready) : ready[i] = planned[k]
  <2>1. due \subseteq DOMAIN planned
    BY DEF Due
  <2>2. /\ ready \in Seq(Plans)
        /\ \A i \in 1 .. Len(ready) : \E k \in due : ready[i] = planned[k]
        /\ \A k \in due : \E i \in 1 .. Len(ready) : ready[i] = planned[k]
    BY DEF Ready
  <2> QED BY <2>1, <2>2
<1>9. \A i \in S : \E k \in 1 .. n : rest[k] = planned[i]
  <2> HIDE DEF S
  <2> QED BY <1>4
<1>10. \A k \in 1 .. n : \E i \in S : rest[k] = planned[i]
  <2> HIDE DEF S
  <2> QED BY <1>4
<1>11. Reads(planned) = Reads(ready) \cup Reads(rest)
  <2> DEFINE Line(e) == Plan(e.at, e.pkt)
  <2>1. /\ Reads(planned) = {Line(planned[i]) : i \in DOMAIN planned}
        /\ Reads(ready) = {Line(ready[i]) : i \in DOMAIN ready}
        /\ Reads(rest) = {Line(rest[i]) : i \in 1 .. n}
    BY <1>4 DEF Reads
  <2> HIDE DEF Line, S
  <2>2. \A x \in Reads(planned) : x \in Reads(ready) \cup Reads(rest)
    <3> SUFFICES ASSUME NEW x \in Reads(planned) PROVE x \in Reads(ready) \cup Reads(rest)
      OBVIOUS
    <3>1. PICK i \in DOMAIN planned : x = Line(planned[i])
      BY <2>1
    <3>2. CASE i \in due
      <4>1. PICK k \in 1 .. Len(ready) : ready[k] = planned[i]
        BY <3>2, <1>8
      <4> QED BY <4>1, <3>1, <2>1, <1>8
    <3>3. CASE i \in S
      <4>1. PICK k \in 1 .. n : rest[k] = planned[i]
        BY <3>3, <1>9
      <4> QED BY <4>1, <3>1, <2>1
    <3> QED BY <3>2, <3>3, <1>7
  <2>3. \A x \in Reads(ready) : x \in Reads(planned)
    <3> SUFFICES ASSUME NEW x \in Reads(ready) PROVE x \in Reads(planned)
      OBVIOUS
    <3>1. PICK k \in 1 .. Len(ready) : x = Line(ready[k])
      BY <2>1, <1>8
    <3>2. PICK i \in due : ready[k] = planned[i]
      BY <1>8
    <3> QED BY <3>1, <3>2, <2>1, <1>8
  <2>4. \A x \in Reads(rest) : x \in Reads(planned)
    <3> SUFFICES ASSUME NEW x \in Reads(rest) PROVE x \in Reads(planned)
      OBVIOUS
    <3>1. PICK k \in 1 .. n : x = Line(rest[k])
      BY <2>1
    <3>2. PICK i \in S : rest[k] = planned[i]
      BY <1>10
    <3> QED BY <3>1, <3>2, <2>1, <1>8
  <2> QED BY <2>2, <2>3, <2>4
<1>12. Once(planned) => Once(rest)
  <2> HIDE DEF S
  <2> SUFFICES ASSUME Once(planned) PROVE Once(rest)
    OBVIOUS
  <2>6. ASSUME NEW x \in 1 .. n, NEW y \in 1 .. n, Tcp(rest[x], rest[y]), rest[x].at = rest[y].at
        PROVE  x = y
    <3> DEFINE c == NthOf(S, x)
               d == NthOf(S, y)
    <3>1. c \in S /\ d \in S /\ rest[x] = planned[c] /\ rest[y] = planned[d]
      BY <1>4
    <3>5. c \in 1 .. Len(planned) /\ d \in 1 .. Len(planned) /\ Len(planned) \in Nat
      BY <3>1, <1>1
    <3>2. (x < y => c < d) /\ (y < x => d < c)
      BY <1>4
    <3> HIDE DEF c, d
    <3>3. c = d
      BY <3>1, <3>5, <2>6 DEF Once
    <3>4. ~ (x < y) /\ ~ (y < x) /\ x \in Int /\ y \in Int
      BY <3>5, <3>2, <3>3
    <3> QED BY ONLY <3>4
  <2>7. Len(rest) = n
    BY <1>4
  <2>8. \A x, y \in 1 .. n : Tcp(rest[x], rest[y]) /\ rest[x].at = rest[y].at => x = y
    BY <2>6
  <2> QED BY ONLY <2>7, <2>8 DEF Once
<1> QED BY <1>4, <1>6, <1>11, <1>12 DEF SplitAt

(* With nothing evicted, a flush moves lines from the plans to the buffer,  *)
(* each of them once.                                                      *)
Flushed(planned) ==
  NothingEvicted(buffer', nextId') =>
    /\ NothingEvicted(buffer, nextId)
    /\ Reads(planned) \cup Reads(buffer) = Reads(pending') \cup Reads(buffer')
    /\ Once(planned) /\ Once(buffer) => Once(pending') /\ Once(buffer')

(* Flushing keeps the invariant, whatever is planned after now. *)
LEMMA FlushKeepsReading ==
  ASSUME ReadingInv, NEW planned \in Seq(Plans), NEW t \in Nat, now < t, Beyond(planned, now),
         NothingEvicted(buffer, nextId) => Answered(Reads(planned) \cup Reads(buffer)),
         now' = t, begun' \in Nat, Flush(planned, t)
  PROVE  ReadingInv' /\ Flushed(planned)
<1> DEFINE due == Due(planned, t)
           ready == ByTime(Picked(planned, due))
           numbered == Numbering(ready, nextId)
           whole == buffer \o numbered
           next == nextId + Len(ready)
<1>1. /\ now \in Nat /\ begun \in Nat /\ nextId \in Nat
      /\ pending \in Seq(Plans) /\ buffer \in Seq(Entries)
      /\ NumberedUpTo(buffer, nextId) /\ InOrder(buffer) /\ Until(buffer, now)
  BY DEF ReadingInv, ReadingTypeOK
<1>2. nextId > 0
  <2>1. Len(buffer) \in Nat /\ Len(buffer) < nextId
    BY <1>1 DEF NumberedUpTo
  <2> QED BY <2>1, <1>1
<1>3. /\ pending' = Picked(planned, DOMAIN planned \ due)
      /\ buffer' = Kept(whole) /\ nextId' = next
  BY DEF Flush, Numbering, Due
<1>4. /\ due = Due(planned, t) /\ ready = ByTime(Picked(planned, due))
      /\ numbered = Numbering(ready, nextId)
  OBVIOUS
<1> HIDE DEF due, ready, numbered
<1>5. Ready(planned, t, now, ready)
  BY <1>1, <1>4, DueInOrder
<1>6. /\ ready \in Seq(Plans) /\ Len(ready) \in Nat
      /\ \A i, j \in 1 .. Len(ready) : i < j => ready[i].at <= ready[j].at
      /\ \A i \in 1 .. Len(ready) : ready[i].at <= t /\ ready[i].at > now
      /\ Once(planned) => Once(ready)
  BY <1>5 DEF Ready
<1>7. /\ numbered \in Seq(Entries) /\ Len(numbered) = Len(ready) /\ Len(ready) \in Nat
      /\ \A k \in 1 .. Len(ready) : /\ numbered[k].id = nextId + k - 1 /\ numbered[k].at = ready[k].at
                                    /\ numbered[k].pkt = ready[k].pkt
  <2>1. NumberedFrom(ready, nextId, numbered)
    BY <1>1, <1>2, <1>4, <1>6, NumberingRight
  <2> QED BY <2>1, <1>6 DEF NumberedFrom
<1>8. Reads(numbered) = Reads(ready)
  BY <1>1, <1>2, <1>4, <1>6, NumberedReads
<1>9. NumberedUpTo(whole, next) /\ InOrder(whole) /\ Until(whole, t) /\ whole \in Seq(Entries)
  <2>1. /\ \A k \in 1 .. Len(numbered) : numbered[k].id = nextId + k - 1
        /\ \A i, j \in 1 .. Len(numbered) : i < j => numbered[i].at <= numbered[j].at
        /\ \A i \in 1 .. Len(numbered) : numbered[i].at <= t /\ numbered[i].at > now
    BY <1>6, <1>7
  <2>2. NumberedUpTo(whole, nextId + Len(numbered)) /\ InOrder(whole) /\ Until(whole, t)
    BY <1>1, <1>7, <2>1, BufferGrows
  <2> QED BY <2>2, <1>1, <1>7
<1>10. Reads(whole) = Reads(buffer) \cup Reads(ready)
  BY <1>1, <1>7, <1>8, ReadsJoin
<1>11. next \in Nat /\ Len(whole) = Len(buffer) + Len(ready) /\ Len(buffer) \in Nat
  <2>1. buffer \in Seq(Entries) /\ numbered \in Seq(Entries)
    BY <1>1, <1>7
  <2>2. Len(buffer \o numbered) = Len(buffer) + Len(numbered) /\ Len(buffer) \in Nat
    BY ONLY <2>1
  <2>3. next \in Nat
    BY <1>1, <1>7
  <2> QED BY <2>2, <2>3, <1>7
<1> HIDE DEF whole, next
<1>12. /\ buffer' \in Seq(Entries) /\ NumberedUpTo(buffer', nextId') /\ InOrder(buffer')
       /\ Until(buffer', t) /\ (NothingEvicted(buffer', nextId') => buffer' = whole)
  BY <1>3, <1>9, <1>11, KeptInOrder
<1>13. /\ pending' \in Seq(Plans) /\ Beyond(pending', t)
       /\ Reads(planned) = Reads(ready) \cup Reads(pending')
       /\ Once(planned) => Once(pending')
  <2>1. pending' = Picked(planned, DOMAIN planned \ due)
    BY <1>3
  <2>2. SplitAt(planned, t, ready, pending')
    BY <1>4, <1>5, <2>1, PlansSplit
  <2> QED BY <2>2 DEF SplitAt
<1>16. Once(planned) /\ Once(buffer) => Once(whole)
  <2> SUFFICES ASSUME Once(planned), Once(buffer) PROVE Once(whole)
    OBVIOUS
  <2>1. Once(ready)
    BY <1>6
  <2>2. Once(numbered)
    BY <2>1, <1>7 DEF Once, Tcp
  <2>3. Distinct(buffer, numbered)
    <3> SUFFICES ASSUME NEW i \in 1 .. Len(buffer), NEW j \in 1 .. Len(numbered)
                 PROVE  buffer[i].at # numbered[j].at
      BY DEF Distinct
    <3>1. buffer[i] \in Entries /\ numbered[j] \in Entries
      BY <1>1, <1>7
    <3>2. buffer[i].at <= now /\ numbered[j].at > now
      BY <1>1, <1>6, <1>7 DEF Until
    <3>3. buffer[i].at \in Nat /\ numbered[j].at \in Nat
      BY <3>1 DEF Entries
    <3>4. now \in Nat
      BY <1>1
    <3> QED BY ONLY <3>2, <3>3, <3>4
  <2>4. Once(buffer \o numbered)
    BY <2>2, <2>3, <1>1, <1>7, OnceJoins
  <2> QED BY <2>4 DEF whole
<1>14. Flushed(planned)
  <2> SUFFICES ASSUME NothingEvicted(buffer', nextId')
               PROVE  /\ NothingEvicted(buffer, nextId)
                      /\ Reads(planned) \cup Reads(buffer) = Reads(pending') \cup Reads(buffer')
                      /\ Once(planned) /\ Once(buffer) => Once(pending') /\ Once(buffer')
    BY DEF Flushed
  <2>1. buffer' = whole
    BY <1>12
  <2>2. NothingEvicted(buffer, nextId)
    BY <1>1, <1>3, <1>7, <1>11, <2>1 DEF NothingEvicted, next
  <2>4. Reads(planned) \cup Reads(buffer) = Reads(pending') \cup Reads(buffer')
    BY <2>1, <1>10, <1>13
  <2>5. Once(planned) /\ Once(buffer) => Once(pending') /\ Once(buffer')
    BY <2>1, <1>13, <1>16
  <2> QED BY <2>2, <2>4, <2>5
<1>17. NothingEvicted(buffer', nextId') => Answered(Reads(pending') \cup Reads(buffer'))
  BY <1>14 DEF Flushed
<1>15. ReadingTypeOK'
  BY <1>3, <1>11, <1>12, <1>13 DEF ReadingTypeOK
<1> QED BY <1>12, <1>13, <1>14, <1>15, <1>17 DEF ReadingInv

LEMMA NothingRead ==
  Answered(Reads(<<>>) \cup Reads(<<>>)) /\ NumberedUpTo(<<>>, 1) /\ InOrder(<<>>)
<1>1. Reads(<<>>) = {}
  BY DEF Reads
<1>2. Answered({} \cup {})
  BY DEF Answered
<1>3. NumberedUpTo(<<>>, 1) /\ InOrder(<<>>)
  BY DEF NumberedUpTo, InOrder
<1> QED BY <1>1, <1>2, <1>3

LEMMA ReadingStarts == SynthesisInit => ReadingInv
BY NothingRead DEF SynthesisInit, ReadingInv, ReadingTypeOK, Until, Beyond

(* What is planned is well formed, still to come, and answers nothing that *)
(* was not asked.                                                          *)
Planned(planned) ==
  /\ planned \in Seq(Plans) /\ Beyond(planned, now)
  /\ NothingEvicted(buffer, nextId) => Answered(Reads(planned) \cup Reads(buffer))

LEMMA AnotherSession ==
  ASSUME ReadingInv, NEW planned, Planned(planned),
         NEW u \in Nat, now < u, NEW s, Session(s, u)
  PROVE  Planned(planned \o s)
<1> DEFINE all == planned \o s
<1>1. /\ now \in Nat /\ planned \in Seq(Plans) /\ Beyond(planned, now)
      /\ NothingEvicted(buffer, nextId) => Answered(Reads(planned) \cup Reads(buffer))
  BY DEF ReadingInv, ReadingTypeOK, Planned
<1>2. s \in Seq(Plans) /\ \A i \in DOMAIN s : s[i].at >= u
  BY DEF Session
<1>3. /\ all \in Seq(Plans) /\ Len(all) = Len(planned) + Len(s)
      /\ Len(planned) \in Nat /\ Len(s) \in Nat /\ DOMAIN s = 1 .. Len(s)
      /\ \A i \in 1 .. Len(planned) + Len(s) :
           \/ i \in 1 .. Len(planned) /\ all[i] = planned[i]
           \/ i - Len(planned) \in 1 .. Len(s) /\ all[i] = s[i - Len(planned)]
  BY <1>1, <1>2
<1>4. \A i \in 1 .. Len(s) : s[i].at > now
  <2>1. \A i \in 1 .. Len(s) : s[i] \in Plans
    BY <1>2
  <2>2. \A i \in 1 .. Len(s) : s[i].at \in Nat
    BY <2>1 DEF Plans
  <2> SUFFICES ASSUME NEW i \in 1 .. Len(s) PROVE s[i].at > now
    OBVIOUS
  <2>3. s[i].at \in Nat
    BY <2>2
  <2>4. s[i].at >= u
    BY <1>2, <1>3
  <2>5. now < u /\ now \in Nat
    BY <1>1
  <2> QED BY ONLY <2>3, <2>4, <2>5, u \in Nat
<1>5. \A i \in 1 .. Len(planned) : planned[i].at > now
  BY <1>1 DEF Beyond
<1>6. Reads(all) = Reads(planned) \cup Reads(s)
  BY <1>1, <1>2, ReadsJoin
<1>7. Answered(Reads(s))
  BY SessionRead
<1> HIDE DEF all
<1>9. Beyond(all, now)
  BY <1>3, <1>4, <1>5 DEF Beyond
<1>10. ASSUME NothingEvicted(buffer, nextId)
       PROVE  Answered(Reads(all) \cup Reads(buffer))
  <2>1. Answered(Reads(planned) \cup Reads(buffer))
    BY <1>1, <1>10
  <2>2. Answered((Reads(planned) \cup Reads(buffer)) \cup Reads(s))
    BY <2>1, <1>7, AnsweredTogether
  <2>3. (Reads(planned) \cup Reads(buffer)) \cup Reads(s) = Reads(all) \cup Reads(buffer)
    BY <1>6
  <2> QED BY <2>2, <2>3
<1>11. Planned(all)
  BY <1>3, <1>9, <1>10 DEF Planned
<1> QED BY <1>11 DEF all

LEMMA PlannedFlush ==
  ASSUME ReadingInv, NEW planned, Planned(planned), NEW t \in Nat, now < t,
         now' = t, begun' \in Nat, Flush(planned, t)
  PROVE  ReadingInv' /\ Flushed(planned)
BY FlushKeepsReading DEF Planned

(* What arrives is a session of its time, and one stream. *)
LEMMA Arriving ==
  ASSUME NEW t \in Nat, NEW n \in Nat, NEW s \in Arrivals(t, n)
  PROVE  \E u \in Nat : t <= u /\ s \in UserSessions(u, n) \cup Periodic(u, n)
<1>1. CASE s \in Periodic(t, n)
  BY <1>1
<1>2. CASE \E delay \in 0 .. 1 : s \in UserSessions(t + delay, n)
  <2>1. PICK delay \in 0 .. 1 : s \in UserSessions(t + delay, n)
    BY <1>2
  <2> DEFINE u == t + delay
  <2>2. u \in Nat /\ t <= u /\ s \in UserSessions(u, n)
    BY <2>1
  <2> HIDE DEF u
  <2> QED BY <2>2
<1> DEFINE users == {UserSessions(t + delay, n) : delay \in 0 .. 1}
<1>3. s \in UNION users \/ s \in Periodic(t, n)
  BY DEF Arrivals
<1>4. ASSUME s \in UNION users
      PROVE  \E delay \in 0 .. 1 : s \in UserSessions(t + delay, n)
  <2>1. PICK x \in users : s \in x
    BY <1>4
  <2> QED BY <2>1
<1> QED BY <1>1, <1>2, <1>3, <1>4

LEMMA ArrivalPlanned ==
  ASSUME ReadingInv, NEW planned, Planned(planned), NEW t \in Nat, now < t,
         NEW n \in Nat, NEW s \in Arrivals(t, n)
  PROVE  Planned(planned \o s)
<1>1. PICK u \in Nat : t <= u /\ s \in UserSessions(u, n) \cup Periodic(u, n)
  BY Arriving
<1>2. Session(s, u)
  BY <1>1, EverySession
<1>3. now \in Nat
  BY DEF ReadingInv, ReadingTypeOK
<1>4. now < u
  BY <1>1, <1>3
<1> QED BY <1>2, <1>4, AnotherSession

(* The three ways of a tick, the list that is flushed put into words.      *)
TickOf(t, planned, n) ==
  /\ t \in Nat /\ now < t /\ now' = t /\ begun' = n /\ n \in Nat /\ Flush(planned, t)
  /\ \/ n = begun /\ planned = pending
     \/ n = begun + 1 /\ \E s \in Arrivals(t, begun) : planned = pending \o s
     \/ n = begun + 2 /\ \E s \in Arrivals(t, begun), r \in Arrivals(t, begun + 1) :
                          planned = (pending \o s) \o r

LEMMA TickWays ==
  ASSUME ReadingInv, NEW late \in 1 .. 2, Tick(now + late)
  PROVE  \E t, planned, n : TickOf(t, planned, n)
<1> DEFINE t == now + late
<1>1. now \in Nat /\ begun \in Nat
  BY DEF ReadingInv, ReadingTypeOK
<1>2. t \in Nat /\ now < t /\ now' = t
  BY <1>1 DEF Tick
<1>3. \/ begun' = begun /\ Flush(pending, t)
      \/ /\ begun' = begun + 1
         /\ \E s \in Arrivals(t, begun) : Flush(pending \o s, t)
      \/ /\ begun' = begun + 2
         /\ \E s \in Arrivals(t, begun), r \in Arrivals(t, begun + 1) :
              Flush((pending \o s) \o r, t)
  BY DEF Tick
<1> HIDE DEF t
<1>4. CASE begun' = begun /\ Flush(pending, t)
  <2>1. TickOf(t, pending, begun)
    BY <1>1, <1>2, <1>4 DEF TickOf
  <2> QED BY <2>1
<1>5. CASE begun' = begun + 1 /\ \E s \in Arrivals(t, begun) : Flush(pending \o s, t)
  <2>1. PICK s \in Arrivals(t, begun) : Flush(pending \o s, t)
    BY <1>5
  <2> DEFINE planned == pending \o s
             n == begun + 1
  <2>2. Flush(planned, t) /\ planned = pending \o s /\ n \in Nat /\ n = begun + 1
    BY <1>1, <2>1
  <2> HIDE DEF planned, n
  <2>3. TickOf(t, planned, n)
    BY <1>2, <1>5, <2>2 DEF TickOf
  <2> QED BY <2>3
<1>6. CASE /\ begun' = begun + 2
           /\ \E s \in Arrivals(t, begun), r \in Arrivals(t, begun + 1) :
                Flush((pending \o s) \o r, t)
  <2>1. PICK s \in Arrivals(t, begun), r \in Arrivals(t, begun + 1) :
          Flush((pending \o s) \o r, t)
    BY <1>6
  <2> DEFINE planned == (pending \o s) \o r
             n == begun + 2
  <2>2. Flush(planned, t) /\ planned = (pending \o s) \o r /\ n \in Nat /\ n = begun + 2
    BY <1>1, <2>1
  <2> HIDE DEF planned, n
  <2>3. TickOf(t, planned, n)
    BY <1>2, <1>6, <2>2 DEF TickOf
  <2> QED BY <2>3
<1> QED BY <1>3, <1>4, <1>5, <1>6

LEMMA TickPlanned ==
  ASSUME ReadingInv, NEW t, NEW planned, NEW n, TickOf(t, planned, n)
  PROVE  Planned(planned)
<1>1. begun \in Nat /\ begun + 1 \in Nat /\ Planned(pending) /\ t \in Nat /\ now < t
  BY DEF ReadingInv, ReadingTypeOK, Planned, TickOf
<1>2. CASE planned = pending
  BY <1>1, <1>2
<1>3. CASE \E s \in Arrivals(t, begun) : planned = pending \o s
  BY <1>1, <1>3, ArrivalPlanned
<1>4. CASE \E s \in Arrivals(t, begun), r \in Arrivals(t, begun + 1) :
             planned = (pending \o s) \o r
  <2>1. PICK s \in Arrivals(t, begun), r \in Arrivals(t, begun + 1) :
          planned = (pending \o s) \o r
    BY <1>4
  <2> DEFINE first == pending \o s
             m == begun + 1
  <2>2. Planned(first)
    BY <1>1, ArrivalPlanned
  <2>3. m \in Nat /\ r \in Arrivals(t, m) /\ planned = first \o r
    BY <1>1, <2>1
  <2> HIDE DEF first, m
  <2> QED BY <1>1, <2>2, <2>3, ArrivalPlanned
<1> QED BY <1>2, <1>3, <1>4 DEF TickOf

LEMMA TickKeepsReading ==
  ASSUME ReadingInv, NEW late \in 1 .. 2, Tick(now + late)
  PROVE  ReadingInv'
<1>1. PICK t, planned, n : TickOf(t, planned, n)
  BY TickWays
<1>2. Planned(planned)
  BY <1>1, TickPlanned
<1> QED BY <1>1, <1>2, PlannedFlush DEF TickOf

LEMMA ReadingStep == ReadingInv /\ [SynthesisNext]_synthesisVars => ReadingInv'
<1> SUFFICES ASSUME ReadingInv, [SynthesisNext]_synthesisVars PROVE ReadingInv'
  OBVIOUS
<1>1. CASE \E late \in 1 .. 2 : Tick(now + late)
  BY <1>1, TickKeepsReading
<1>2. ASSUME pending' = <<>>, buffer' = <<>>, nextId' = 1, UNCHANGED <<now, begun>>
      PROVE  ReadingInv'
  BY <1>2, NothingRead DEF ReadingInv, ReadingTypeOK, Until, Beyond
<1>3. CASE Start
  BY <1>2, <1>3 DEF Start
<1>4. CASE ClearPackets
  BY <1>2, <1>4 DEF ClearPackets
<1>5. CASE UNCHANGED <<now, pending, buffer, nextId, begun>>
  BY <1>5 DEF ReadingInv, ReadingTypeOK, NumberedUpTo, InOrder, Until, Beyond, NothingEvicted
<1>6. CASE Stop
  BY <1>5, <1>6 DEF Stop
<1>7. CASE UNCHANGED synthesisVars
  BY <1>5, <1>7 DEF synthesisVars
<1> QED BY <1>1, <1>3, <1>4, <1>6, <1>7 DEF SynthesisNext

LEMMA ReadingInOrder == ReadingInv => CaptureReadsInOrder
<1> SUFFICES ASSUME ReadingInv PROVE CaptureReadsInOrder
  OBVIOUS
<1> DEFINE n == Len(buffer)
<1>1. /\ now \in Nat /\ nextId \in Nat /\ pending \in Seq(Plans) /\ buffer \in Seq(Entries)
      /\ n \in Nat /\ DOMAIN buffer = 1 .. n
  BY DEF ReadingInv, ReadingTypeOK
<1>2. \A i \in 1 .. n : buffer[i].at \in Nat /\ buffer[i].id \in Nat
  <2>1. \A i \in 1 .. n : buffer[i] \in Entries
    BY <1>1
  <2> QED BY <2>1 DEF Entries
<1>3. /\ \A k \in 1 .. n : buffer[k].id = nextId - 1 - n + k
      /\ \A i, j \in 1 .. n : i < j => buffer[i].at <= buffer[j].at
      /\ \A i \in 1 .. n : buffer[i].at <= now
      /\ \A i \in DOMAIN pending : pending[i].at > now
  BY <1>1 DEF ReadingInv, NumberedUpTo, InOrder, Until, Beyond
<1>4. nextId = n + 1 => Answered(Reads(pending) \cup Reads(buffer))
  BY DEF ReadingInv, NothingEvicted
<1> HIDE DEF n
<1>5. CaptureInTimeOrder
  <2> SUFFICES ASSUME NEW i \in 2 .. n
               PROVE  buffer[i].id = buffer[i - 1].id + 1 /\ buffer[i].at >= buffer[i - 1].at
    BY DEF CaptureInTimeOrder, n
  <2>1. i \in 1 .. n /\ i - 1 \in 1 .. n /\ i - 1 < i
    BY <1>1
  <2>2. buffer[i].id = nextId - 1 - n + i /\ buffer[i - 1].id = nextId - 1 - n + (i - 1)
    BY <2>1, <1>3
  <2>3. buffer[i - 1].at <= buffer[i].at
    BY <2>1, <1>3
  <2> QED BY <2>1, <2>2, <2>3, <1>1, <1>2
<1>6. RepliesFollowRequests
  <2> SUFFICES ASSUME buffer # <<>>, buffer[1].id = 1, NEW i \in DOMAIN buffer, buffer[i].pkt.reply
               PROVE  \E j \in 1 .. i - 1 :
                        /\ Same(buffer[j].pkt, buffer[i].pkt)
                        /\ ~ buffer[j].pkt.reply
                        /\ buffer[j].pkt.src = buffer[i].pkt.dst
    BY DEF RepliesFollowRequests
  <2>1. i \in 1 .. n /\ 1 \in 1 .. n
    BY <1>1
  <2>2. nextId = n + 1
    <3>1. buffer[1].id = nextId - 1 - n + 1
      BY <2>1, <1>3
    <3> QED BY <3>1, <1>1
  <2> DEFINE p == Plan(buffer[i].at, buffer[i].pkt)
  <2>3. p \in Reads(buffer) /\ p.at = buffer[i].at /\ p.pkt = buffer[i].pkt
    BY DEF Reads, Plan
  <2> HIDE DEF p
  <2>4. PICK q \in Reads(pending) \cup Reads(buffer) : Asks(q, p)
    BY <2>2, <2>3, <1>4 DEF Answered
  <2>5. q.at < buffer[i].at /\ Same(q.pkt, buffer[i].pkt) /\ ~ q.pkt.reply /\ q.pkt.src = buffer[i].pkt.dst
    BY <2>3, <2>4 DEF Asks
  <2>6. q \notin Reads(pending)
    <3> SUFFICES ASSUME q \in Reads(pending) PROVE FALSE
      OBVIOUS
    <3>1. PICK k \in DOMAIN pending : q = Plan(pending[k].at, pending[k].pkt)
      BY DEF Reads
    <3>2. q.at = pending[k].at
      BY <3>1 DEF Plan
    <3>3. pending[k].at \in Nat
      <4>1. pending[k] \in Plans
        BY <1>1
      <4> QED BY <4>1 DEF Plans
    <3> QED BY <2>1, <2>5, <3>2, <3>3, <1>1, <1>2, <1>3
  <2>7. PICK j \in 1 .. n : q = Plan(buffer[j].at, buffer[j].pkt)
    BY <2>4, <2>6, <1>1 DEF Reads
  <2>8. q.at = buffer[j].at /\ q.pkt = buffer[j].pkt
    BY <2>7 DEF Plan
  <2>9. j < i
    <3>1. ~ (i < j) /\ i # j
      BY <2>1, <2>5, <2>8, <1>2, <1>3
    <3> QED BY <3>1, <2>1
  <2> QED BY <2>1, <2>5, <2>8, <2>9
<1> QED BY <1>5, <1>6 DEF CaptureReadsInOrder

(* CaptureReadsInOrder: the buffer is numbered without a gap, in the order  *)
(* of time, and no reply is in it without its request, however many        *)
(* sessions overlap and however late the scheduler runs.                   *)
THEOREM CaptureInOrder == SynthesisSpec => []CaptureReadsInOrder
<1>1. SynthesisInit => ReadingInv
  BY ReadingStarts
<1>2. ReadingInv /\ [SynthesisNext]_synthesisVars => ReadingInv'
  BY ReadingStep
<1>3. ReadingInv => CaptureReadsInOrder
  BY ReadingInOrder
<1> QED BY <1>1, <1>2, <1>3, PTL DEF SynthesisSpec

(* The streams that the plans and the buffer hold together. *)
(* What there is of TCP belongs to the sessions begun, to each a stream.   *)
Carried(H, n) ==
  /\ \A x \in H : x.pkt.proto = "tcp" => x.pkt.tag \in 0 .. n - 1
  /\ \A m \in 0 .. n - 1 : Streamed(H, m)

StreamsTold ==
  NothingEvicted(buffer, nextId) =>
    Once(buffer) /\ Once(pending) /\ Carried(Reads(pending) \cup Reads(buffer), begun)

(* Another stream, with a new number, leaves the others as they are.       *)
LEMMA CarriedTogether ==
  ASSUME NEW H, NEW K, NEW n \in Nat, Carried(H, n), Streamed(K, n),
         \A x \in K : x.pkt.proto = "tcp" => x.pkt.tag = n
  PROVE  Carried(H \cup K, n + 1)
<1> DEFINE J == H \cup K
<1>1. \A x \in J : x.pkt.proto = "tcp" => x.pkt.tag \in 0 .. n
  BY DEF Carried
<1>2. Conversation(J, n) = Conversation(K, n)
  <2>1. \A x \in H : ~ (x.pkt.proto = "tcp" /\ x.pkt.tag = n)
    <3> SUFFICES ASSUME NEW x \in H, x.pkt.proto = "tcp", x.pkt.tag = n PROVE FALSE
      OBVIOUS
    <3>1. n \in 0 .. n - 1
      BY DEF Carried
    <3> QED BY <3>1
  <2> QED BY <2>1 DEF Conversation
<1>3. \A m \in 0 .. n - 1 : Conversation(J, m) = Conversation(H, m)
  <2> SUFFICES ASSUME NEW m \in 0 .. n - 1 PROVE Conversation(J, m) = Conversation(H, m)
    OBVIOUS
  <2>1. \A x \in K : ~ (x.pkt.proto = "tcp" /\ x.pkt.tag = m)
    <3> SUFFICES ASSUME NEW x \in K, x.pkt.proto = "tcp", x.pkt.tag = m PROVE FALSE
      OBVIOUS
    <3>1. m = n
      OBVIOUS
    <3> QED BY <3>1
  <2> QED BY <2>1 DEF Conversation
<1> HIDE DEF J
<1>4. \A m \in 0 .. n : Streamed(J, m)
  <2> SUFFICES ASSUME NEW m \in 0 .. n PROVE Streamed(J, m)
    OBVIOUS
  <2>1. CASE m = n
    BY <2>1, <1>2 DEF Streamed
  <2>2. CASE m \in 0 .. n - 1
    <3>1. Streamed(H, m)
      BY <2>2 DEF Carried
    <3> QED BY <3>1, <2>2, <1>3 DEF Streamed
  <2> QED BY <2>1, <2>2
<1>5. (n + 1) - 1 = n
  OBVIOUS
<1>6. Carried(J, n + 1)
  BY <1>1, <1>4, <1>5 DEF Carried
<1> QED BY <1>6 DEF J

LEMMA FlushKeepsStreams ==
  ASSUME ReadingInv, NEW planned \in Seq(Plans), NEW n, Flushed(planned), begun' = n,
         NothingEvicted(buffer, nextId) =>
           Once(planned) /\ Once(buffer) /\ Carried(Reads(planned) \cup Reads(buffer), n)
  PROVE  StreamsTold'
<1> SUFFICES ASSUME NothingEvicted(buffer', nextId')
             PROVE  /\ Once(buffer') /\ Once(pending')
                    /\ Carried(Reads(pending') \cup Reads(buffer'), n)
  BY DEF StreamsTold
<1>1. /\ NothingEvicted(buffer, nextId)
      /\ Reads(planned) \cup Reads(buffer) = Reads(pending') \cup Reads(buffer')
      /\ Once(planned) /\ Once(buffer) => Once(pending') /\ Once(buffer')
  BY DEF Flushed
<1> QED BY <1>1

(* What is planned and read, of n sessions begun.                          *)
Told(planned, n) ==
  /\ planned \in Seq(Plans)
  /\ NothingEvicted(buffer, nextId) =>
       Once(planned) /\ Once(buffer) /\ Carried(Reads(planned) \cup Reads(buffer), n)

LEMMA AnotherStream ==
  ASSUME ReadingInv, NEW planned, NEW n \in Nat, Told(planned, n), NEW s, OneStream(s, n)
  PROVE  Told(planned \o s, n + 1)
<1> DEFINE all == planned \o s
           H == Reads(planned) \cup Reads(buffer)
<1>1. planned \in Seq(Plans) /\ buffer \in Seq(Entries)
  BY DEF ReadingInv, ReadingTypeOK, Told
<1>2. /\ s \in Seq(Plans) /\ Once(s) /\ Streamed(Reads(s), n)
      /\ \A i \in 1 .. Len(s) : s[i].pkt.proto = "tcp" => s[i].pkt.tag = n
  BY DEF OneStream
<1>3. all \in Seq(Plans) /\ Reads(all) = Reads(planned) \cup Reads(s)
  BY <1>1, <1>2, ReadsJoin
<1>4. ASSUME NothingEvicted(buffer, nextId)
      PROVE  Once(all) /\ Once(buffer) /\ Carried(Reads(all) \cup Reads(buffer), n + 1)
  <2>1. Once(buffer) /\ Once(planned) /\ Carried(H, n)
    BY <1>4 DEF Told
  <2>2. \A x \in Reads(s) : x.pkt.proto = "tcp" => x.pkt.tag = n
    <3> SUFFICES ASSUME NEW x \in Reads(s), x.pkt.proto = "tcp" PROVE x.pkt.tag = n
      OBVIOUS
    <3>1. PICK i \in 1 .. Len(s) : x = Plan(s[i].at, s[i].pkt)
      BY <1>2 DEF Reads
    <3>2. x.pkt = s[i].pkt
      BY <3>1 DEF Plan
    <3> QED BY <3>2, <1>2
  <2>3. Carried(H \cup Reads(s), n + 1)
    <3> DEFINE K == Reads(s)
    <3> HIDE DEF H, K
    <3>1. Streamed(K, n) /\ \A x \in K : x.pkt.proto = "tcp" => x.pkt.tag = n
      BY <1>2, <2>2 DEF K
    <3>2. Carried(H \cup K, n + 1)
      BY <2>1, <3>1, CarriedTogether
    <3> QED BY <3>2 DEF K
  <2>4. H \cup Reads(s) = Reads(all) \cup Reads(buffer)
    BY <1>3
  <2>5. Distinct(planned, s)
    <3> SUFFICES ASSUME NEW i \in 1 .. Len(planned), NEW j \in 1 .. Len(s), Tcp(planned[i], s[j])
                 PROVE  FALSE
      BY DEF Distinct
    <3> DEFINE x == Plan(planned[i].at, planned[i].pkt)
    <3>1. x \in H /\ x.pkt = planned[i].pkt
      BY <1>1 DEF Reads, Plan
    <3>2. x.pkt.proto = "tcp" /\ x.pkt.tag = n
      BY <3>1, <1>2 DEF Tcp
    <3> HIDE DEF x, H
    <3>3. x.pkt.tag \in 0 .. n - 1
      BY <3>1, <3>2, <2>1 DEF Carried
    <3> QED BY <3>2, <3>3
  <2>6. Once(all)
    BY <1>1, <1>2, <2>1, <2>5, OnceJoins
  <2>7. Carried(Reads(all) \cup Reads(buffer), n + 1)
    BY <2>3, <2>4
  <2> QED BY <2>1, <2>6, <2>7
<1> HIDE DEF H
<1>5. Told(all, n + 1)
  BY <1>3, <1>4 DEF Told
<1> QED BY <1>5 DEF all

LEMMA ArrivalTold ==
  ASSUME ReadingInv, NEW planned, NEW t \in Nat, NEW n \in Nat, Told(planned, n),
         NEW s \in Arrivals(t, n)
  PROVE  Told(planned \o s, n + 1)
<1>1. PICK u \in Nat : t <= u /\ s \in UserSessions(u, n) \cup Periodic(u, n)
  BY Arriving
<1>2. OneStream(s, n)
  BY <1>1, SessionStreams
<1> QED BY <1>2, AnotherStream

LEMMA TickTold ==
  ASSUME ReadingInv, StreamsTold, NEW t, NEW planned, NEW n, TickOf(t, planned, n)
  PROVE  Told(planned, n)
<1>1. begun \in Nat /\ Told(pending, begun) /\ t \in Nat
  BY DEF ReadingInv, ReadingTypeOK, StreamsTold, Told, TickOf
<1>2. CASE n = begun /\ planned = pending
  BY <1>1, <1>2
<1>3. CASE n = begun + 1 /\ \E s \in Arrivals(t, begun) : planned = pending \o s
  BY <1>1, <1>3, ArrivalTold
<1>4. CASE /\ n = begun + 2
           /\ \E s \in Arrivals(t, begun), r \in Arrivals(t, begun + 1) :
                planned = (pending \o s) \o r
  <2>1. PICK s \in Arrivals(t, begun), r \in Arrivals(t, begun + 1) :
          planned = (pending \o s) \o r
    BY <1>4
  <2> DEFINE first == pending \o s
             m == begun + 1
  <2>2. Told(first, m)
    BY <1>1, ArrivalTold
  <2>3. m \in Nat /\ n = m + 1 /\ r \in Arrivals(t, m) /\ planned = first \o r
    BY <1>1, <1>4, <2>1
  <2> HIDE DEF first, m
  <2> QED BY <1>1, <2>2, <2>3, ArrivalTold
<1> QED BY <1>2, <1>3, <1>4 DEF TickOf

LEMMA TickKeepsStreams ==
  ASSUME ReadingInv, StreamsTold, NEW late \in 1 .. 2, Tick(now + late)
  PROVE  StreamsTold'
<1>1. PICK t, planned, n : TickOf(t, planned, n)
  BY TickWays
<1>2. Planned(planned) /\ Told(planned, n)
  BY <1>1, TickPlanned, TickTold
<1>3. Flushed(planned)
  BY <1>1, <1>2, PlannedFlush DEF TickOf
<1> QED BY <1>1, <1>2, <1>3, FlushKeepsStreams DEF Told, TickOf

LEMMA NothingStreams == Once(<<>>) /\ \A n : Carried(Reads(<<>>) \cup Reads(<<>>), n)
<1>1. Reads(<<>>) = {}
  BY DEF Reads
<1>2. \A m : Conversation({}, m) = {}
  BY DEF Conversation
<1>3. \A n : Carried({}, n)
  BY <1>2 DEF Carried, Streamed
<1>4. Reads(<<>>) \cup Reads(<<>>) = {}
  BY <1>1
<1>5. Once(<<>>)
  BY DEF Once
<1>6. \A n : Carried(Reads(<<>>) \cup Reads(<<>>), n)
  BY <1>3, <1>4
<1> QED BY <1>5, <1>6

LEMMA StreamsStart == SynthesisInit => StreamsTold
BY NothingStreams DEF SynthesisInit, StreamsTold

LEMMA StreamsStep == ReadingInv /\ StreamsTold /\ [SynthesisNext]_synthesisVars => StreamsTold'
<1> SUFFICES ASSUME ReadingInv, StreamsTold, [SynthesisNext]_synthesisVars PROVE StreamsTold'
  OBVIOUS
<1>1. CASE \E late \in 1 .. 2 : Tick(now + late)
  BY <1>1, TickKeepsStreams
<1>2. ASSUME pending' = <<>>, buffer' = <<>>, UNCHANGED begun PROVE StreamsTold'
  BY <1>2, NothingStreams DEF StreamsTold
<1>3. CASE Start
  BY <1>2, <1>3 DEF Start
<1>4. CASE ClearPackets
  BY <1>2, <1>4 DEF ClearPackets
<1>5. CASE UNCHANGED <<pending, buffer, nextId, begun>>
  BY <1>5 DEF StreamsTold, NothingEvicted, Once
<1>6. CASE Stop
  BY <1>5, <1>6 DEF Stop
<1>7. CASE UNCHANGED synthesisVars
  BY <1>5, <1>7 DEF synthesisVars
<1> QED BY <1>1, <1>3, <1>4, <1>6, <1>7 DEF SynthesisNext

-----------------------------------------------------------------------------
(* Checksums: what a receiver adds up. *)
Weight(k) == IF k % 2 = 1 THEN Digit ELSE 1
Words(bytes) == [k \in 1 .. Len(bytes) |-> bytes[k] * Weight(k)]

LEMMA WordsSummed ==
  ASSUME NEW bytes \in Seq(Nat)
  PROVE  /\ Words(bytes) \in [1 .. Len(bytes) -> Nat]
         /\ \E f : Sums(Len(bytes), Words(bytes), f) /\ WordSum(bytes) = f[Len(bytes)]
<1> DEFINE n == Len(bytes)
           Upto(f) == f = [k \in 0 .. n |-> IF k = 0 THEN 0 ELSE f[k - 1] + bytes[k] * Weight(k)]
           last == CHOOSE f : Upto(f)
<1>1. n \in Nat /\ \A k \in 1 .. n : bytes[k] \in Nat
  OBVIOUS
<1>2. \A k \in 1 .. n : Weight(k) \in Nat
  BY SynthesisAssumption DEF Weight
<1>3. \A k \in 1 .. n : bytes[k] * Weight(k) \in Nat
  <2> SUFFICES ASSUME NEW k \in 1 .. n PROVE bytes[k] * Weight(k) \in Nat
    OBVIOUS
  <2> DEFINE a == bytes[k]
             b == Weight(k)
  <2>1. a \in Nat /\ b \in Nat
    BY <1>1, <1>2
  <2> HIDE DEF a, b
  <2>2. a * b \in Nat
    BY <2>1
  <2> QED BY <2>2 DEF a, b
<1>4. WordSum(bytes) = last[n]
  BY DEF WordSum, Weight
<1> HIDE DEF n
<1>5. Words(bytes) \in [1 .. n -> Nat] /\ \A k \in 1 .. n : Words(bytes)[k] = bytes[k] * Weight(k)
  BY <1>3 DEF Words, n
<1>6. PICK f : Sums(n, Words(bytes), f)
  BY <1>1, <1>5, SumsExist
<1>7. Upto(f)
  <2>1. f = [k \in 0 .. n |-> f[k]]
    BY <1>6 DEF Sums
  <2>2. \A k \in 0 .. n : f[k] = IF k = 0 THEN 0 ELSE f[k - 1] + bytes[k] * Weight(k)
    <3> SUFFICES ASSUME NEW k \in 0 .. n, k # 0 PROVE f[k] = f[k - 1] + bytes[k] * Weight(k)
      BY <1>6 DEF Sums
    <3>1. k \in 1 .. n
      OBVIOUS
    <3>2. f[k] = f[k - 1] + Words(bytes)[k]
      BY <3>1, <1>6 DEF Sums
    <3> QED BY <3>1, <3>2, <1>5
  <2> QED BY <2>1, <2>2
<1>8. Upto(last)
  <2> HIDE DEF Upto
  <2> QED BY <1>7
<1> HIDE DEF last
<1>9. Sums(n, Words(bytes), last)
  <2>1. \A k \in 0 .. n : last[k] = IF k = 0 THEN 0 ELSE last[k - 1] + bytes[k] * Weight(k)
    BY <1>8
  <2>2. 0 \in 0 .. n /\ \A k \in 1 .. n : k \in 0 .. n /\ k # 0
    BY <1>1
  <2>3. last[0] = 0 /\ \A k \in 1 .. n : last[k] = last[k - 1] + Words(bytes)[k]
    BY <2>1, <2>2, <1>5
  <2>4. last = [k \in 0 .. n |-> last[k]]
    BY <1>8
  <2> HIDE DEF Upto
  <2> QED BY <2>3, <2>4, <1>1, <1>5, SumsOnly
<1> QED BY <1>4, <1>5, <1>9 DEF n

(* Dividing by the base. *)
LEMMA CarryLess ==
  ASSUME NEW b \in Nat, b >= 2, NEW n \in Nat, n >= b
  PROVE  /\ (n % b) + n \div b \in Nat /\ (n % b) + n \div b > 0
         /\ (n % b) + n \div b < n
         /\ n = ((n % b) + n \div b) + (n \div b) * (b - 1)
         /\ n \div b \in Nat
<1> DEFINE d == n \div b
           r == n % b
<1>1. d \in Int /\ r \in 0 .. b - 1 /\ n = b * d + r
  OBVIOUS
<1> HIDE DEF d, r
<1>2. d >= 1
  <2> SUFFICES ASSUME d <= 0 PROVE FALSE
    BY <1>1
  <2>1. b * d <= 0
    BY <1>1
  <2> QED BY <2>1, <1>1
<1>3. d * (b - 1) = b * d - d
  BY <1>1
<1>4. d * (b - 1) >= 1
  BY <1>1, <1>2
<1>5. /\ r + d \in Nat /\ r + d > 0 /\ r + d < n /\ n = (r + d) + d * (b - 1) /\ d \in Nat
  BY <1>1, <1>2, <1>3, <1>4
<1> QED BY <1>5 DEF d, r

LEMMA BaseCounts == Digit * Digit \in Nat /\ Digit * Digit >= 4
<1>1. Digit \in Nat /\ Digit >= 2
  BY SynthesisAssumption
<1>2. PICK y \in Nat : Digit = y + 2
  <2>1. Digit - 2 \in Nat /\ Digit = (Digit - 2) + 2
    BY <1>1
  <2> QED BY <2>1
<1>3. (y + 2) * (y + 2) = y * y + 4 * y + 4 /\ y * y \in Nat
  OBVIOUS
<1> QED BY <1>2, <1>3

(* What the carries leave of a sum. *)
CarryLeft(sum, left) ==
  /\ left \in 0 .. Digit * Digit - 1
  /\ \E q \in Nat : sum = left + q * (Digit * Digit - 1)
  /\ sum > 0 => left > 0

LEMMA CarryFolded ==
  ASSUME NEW sum \in Nat
  PROVE  CarryLeft(sum, FoldCarry(sum))
<1> DEFINE b == Digit * Digit
           Fold(n) == IF n < b THEN n ELSE (n % b) + n \div b
           step == [k \in 1 .. sum |-> [n \in Nat |-> Fold(n)]]
           Upto(f) == f = [k \in 0 .. sum |-> IF k = 0 THEN sum ELSE Fold(f[k - 1])]
           last == CHOOSE f : Upto(f)
<1>1. b \in Nat /\ b >= 4
  BY BaseCounts
<1>2. FoldCarry(sum) = last[sum]
  BY DEF FoldCarry
<1>3. \A n \in Nat : n >= b => /\ Fold(n) \in Nat /\ Fold(n) > 0 /\ Fold(n) < n
                               /\ \E q \in Nat : n = Fold(n) + q * (b - 1)
  <2> HIDE DEF b
  <2> SUFFICES ASSUME NEW n \in Nat, n >= b
               PROVE  /\ Fold(n) \in Nat /\ Fold(n) > 0 /\ Fold(n) < n
                      /\ \E q \in Nat : n = Fold(n) + q * (b - 1)
    OBVIOUS
  <2>1. Fold(n) = (n % b) + n \div b
    BY <1>1
  <2>2. /\ (n % b) + n \div b \in Nat /\ (n % b) + n \div b > 0
        /\ (n % b) + n \div b < n
        /\ n = ((n % b) + n \div b) + (n \div b) * (b - 1)
        /\ n \div b \in Nat
    <3>1. b >= 2
      BY <1>1
    <3> QED BY <3>1, <1>1, CarryLess
  <2> QED BY ONLY <2>1, <2>2
<1>4. \A n \in Nat : n < b => Fold(n) = n
  OBVIOUS
<1>5. b = Digit * Digit
  OBVIOUS
<1> HIDE DEF Fold, b
<1>6. \A n \in Nat : Fold(n) \in Nat
  BY <1>1, <1>3, <1>4
<1>7. step \in [1 .. sum -> [Nat -> Nat]]
  BY <1>6
<1>8. \A k \in 1 .. sum : \A n \in Nat : step[k][n] = Fold(n)
  OBVIOUS
<1> HIDE DEF step
<1>9. Iteration(Nat, sum, sum, step)
  BY <1>7, Iterates
<1>10. PICK f \in [0 .. sum -> Nat] : f[0] = sum /\ \A k \in 1 .. sum : f[k] = step[k][f[k - 1]]
  BY <1>9 DEF Iteration
<1>11. Upto(f)
  <2>1. f = [k \in 0 .. sum |-> f[k]]
    OBVIOUS
  <2>2. \A k \in 0 .. sum : f[k] = IF k = 0 THEN sum ELSE Fold(f[k - 1])
    <3> SUFFICES ASSUME NEW k \in 0 .. sum, k # 0 PROVE f[k] = Fold(f[k - 1])
      BY <1>10
    <3>1. k \in 1 .. sum /\ f[k - 1] \in Nat
      OBVIOUS
    <3> QED BY <3>1, <1>8, <1>10
  <2> QED BY <2>1, <2>2
<1>12. Upto(last)
  <2> HIDE DEF Upto
  <2> QED BY <1>11
<1> HIDE DEF last
<1>13. last[0] = sum /\ \A k \in 1 .. sum : last[k] = Fold(last[k - 1])
  <2>1. \A k \in 0 .. sum : last[k] = IF k = 0 THEN sum ELSE Fold(last[k - 1])
    BY <1>12
  <2>2. 0 \in 0 .. sum /\ \A k \in 1 .. sum : k \in 0 .. sum /\ k # 0
    OBVIOUS
  <2> QED BY <2>1, <2>2
<1> DEFINE Right(k) == /\ last[k] \in Nat /\ (last[k] < b \/ last[k] <= sum - k)
                       /\ \E q \in Nat : sum = last[k] + q * (b - 1)
                       /\ sum > 0 => last[k] > 0
           bad == {k \in 0 .. sum : ~ Right(k)}
<1>14. Right(0)
  <2>1. sum = sum + 0 * (b - 1) /\ 0 \in Nat
    BY <1>1
  <2>2. \E q \in Nat : sum = sum + q * (b - 1)
    BY <2>1
  <2> QED BY <2>2, <1>13
<1>15. ASSUME NEW k \in 1 .. sum, Right(k - 1) PROVE Right(k)
  <2> DEFINE n == last[k - 1]
  <2>1. n \in Nat /\ (n < b \/ n <= sum - (k - 1)) /\ (sum > 0 => n > 0)
    BY <1>15
  <2>2. PICK q \in Nat : sum = n + q * (b - 1)
    BY <1>15
  <2>3. last[k] = Fold(n)
    BY <1>13
  <2> HIDE DEF n
  <2>4. CASE n < b
    <3>1. last[k] = n
      BY <2>1, <2>3, <2>4, <1>4
    <3> QED BY <3>1, <2>1, <2>2, <2>4
  <2>5. CASE ~ (n < b)
    <3> DEFINE m == Fold(n)
    <3>1. m \in Nat /\ m > 0 /\ m < n
      BY <2>1, <2>5, <1>1, <1>3
    <3>0. n >= b
      BY <2>1, <2>5, <1>1
    <3>2. PICK r \in Nat : n = m + r * (b - 1)
      <4>1. \E x \in Nat : n = Fold(n) + x * (b - 1)
        BY <3>0, <2>1, <1>3
      <4> QED BY <4>1
    <3> HIDE DEF m
    <3> DEFINE c == b - 1
    <3>3. c \in Nat /\ sum = n + q * c /\ n = m + r * c
      BY <1>1, <2>2, <3>2
    <3> HIDE DEF c
    <3>4. (r + q) * c = r * c + q * c /\ r * c \in Nat /\ q * c \in Nat
      BY <3>3
    <3>5. sum = m + (r + q) * c /\ r + q \in Nat
      BY <3>1, <3>3, <3>4
    <3>6. last[k] = m
      BY <2>3 DEF m
    <3>7. m <= sum - k
      BY <3>1, <2>1, <2>5
    <3> QED BY <3>1, <3>5, <3>6, <3>7 DEF c
  <2> QED BY <2>4, <2>5
<1>16. bad = {}
  <2> SUFFICES ASSUME bad # {} PROVE FALSE
    OBVIOUS
  <2>1. PICK k \in bad : \A a \in bad : k <= a
    <3>1. bad \in SUBSET Nat
      OBVIOUS
    <3> HIDE DEF bad
    <3> QED BY <3>1, LeastNumber
  <2>2. k \in 0 .. sum /\ ~ Right(k)
    BY <2>1
  <2> HIDE DEF Right
  <2>3. k \in 1 .. sum /\ k - 1 \in 0 .. sum /\ ~ (k <= k - 1)
    BY <2>2, <1>14
  <2>4. Right(k - 1)
    BY <2>1, <2>3
  <2> QED BY <2>2, <2>3, <2>4, <1>15
<1>17. Right(sum)
  <2> HIDE DEF Right
  <2>1. sum \in 0 .. sum
    OBVIOUS
  <2> QED BY <2>1, <1>16
<1>18. last[sum] \in 0 .. b - 1
  BY <1>17, <1>1
<1> QED BY <1>2, <1>5, <1>17, <1>18 DEF CarryLeft

(* A header of four digits, the checksum, and the rest. *)
(* One list after another. *)
Joining(r, s, both) ==
  /\ Len(r) \in Nat /\ Len(s) \in Nat /\ Len(both) = Len(r) + Len(s)
  /\ \A k \in 1 .. Len(r) : both[k] = r[k]
  /\ \A k \in 1 .. Len(s) : both[Len(r) + k] = s[k]

LEMMA Joined ==
  ASSUME NEW T, NEW r \in Seq(T), NEW s \in Seq(T)
  PROVE  r \o s \in Seq(T) /\ Joining(r, s, r \o s)
<1> DEFINE both == r \o s
<1>1. /\ both \in Seq(T) /\ Len(r) \in Nat /\ Len(s) \in Nat /\ Len(both) = Len(r) + Len(s)
      /\ DOMAIN r = 1 .. Len(r) /\ DOMAIN s = 1 .. Len(s)
      /\ \A k \in DOMAIN r : both[k] = r[k]
      /\ \A k \in DOMAIN s : both[Len(r) + k] = s[k]
  OBVIOUS
<1> QED BY <1>1 DEF Joining

Framing(head, hi, lo, data, s) ==
  /\ s \in Seq(Nat) /\ Len(s) = 6 + Len(data) /\ Len(data) \in Nat
  /\ s[1] = head[1] /\ s[2] = head[2] /\ s[3] = head[3] /\ s[4] = head[4]
  /\ s[5] = hi /\ s[6] = lo
  /\ \A k \in 7 .. 6 + Len(data) : s[k] = data[k - 6]

LEMMA Framed ==
  ASSUME NEW head \in Seq(Nat), Len(head) = 4, NEW hi \in Nat, NEW lo \in Nat,
         NEW data \in Seq(Nat), NEW s, s = head \o <<hi, lo>> \o data
  PROVE  Framing(head, hi, lo, data, s)
<1> DEFINE mid == <<hi, lo>>
           front == head \o mid
<1>1. mid \in Seq(Nat) /\ Len(mid) = 2 /\ mid[1] = hi /\ mid[2] = lo
  OBVIOUS
<1>2. s = front \o data
  OBVIOUS
<1> HIDE DEF mid
<1>5. /\ front \in Seq(Nat) /\ Len(front) = 6
      /\ \A k \in 1 .. 4 : front[k] = head[k]
      /\ \A k \in 1 .. 2 : front[4 + k] = mid[k]
  <2>1. front = head \o mid
    OBVIOUS
  <2> HIDE DEF front
  <2>2. front \in Seq(Nat) /\ Joining(head, mid, front)
    BY <1>1, <2>1, Joined
  <2> QED BY <1>1, <2>2 DEF Joining
<1>3. /\ front \in Seq(Nat) /\ Len(front) = 6
      /\ front[1] = head[1] /\ front[2] = head[2] /\ front[3] = head[3] /\ front[4] = head[4]
      /\ front[5] = hi /\ front[6] = lo
  <2> HIDE DEF front
  <2>1. /\ 1 \in 1 .. 4 /\ 2 \in 1 .. 4 /\ 3 \in 1 .. 4 /\ 4 \in 1 .. 4
        /\ 4 + 1 = 5 /\ 4 + 2 = 6 /\ 1 \in 1 .. 2 /\ 2 \in 1 .. 2
    OBVIOUS
  <2>2. front[4 + 1] = mid[1] /\ front[4 + 2] = mid[2]
    BY <1>5, <2>1
  <2> QED BY <1>1, <1>5, <2>1, <2>2
<1> HIDE DEF front
<1>4. /\ s \in Seq(Nat) /\ Len(s) = 6 + Len(data) /\ Len(data) \in Nat
      /\ \A k \in 1 .. 6 : s[k] = front[k]
      /\ \A k \in 7 .. 6 + Len(data) : s[k] = data[k - 6]
  <2>1. /\ s \in Seq(Nat) /\ Len(s) = 6 + Len(data) /\ Len(data) \in Nat
        /\ \A k \in 1 .. 6 : s[k] = front[k]
        /\ \A k \in 1 .. Len(data) : s[6 + k] = data[k]
    <3>1. s \in Seq(Nat) /\ Joining(front, data, s)
      BY <1>2, <1>3, Joined
    <3> QED BY <1>3, <3>1 DEF Joining
  <2>3. \A k \in 7 .. 6 + Len(data) : k - 6 \in 1 .. Len(data) /\ 6 + (k - 6) = k
    BY <2>1
  <2> QED BY <2>1, <2>3
<1>6. /\ 1 \in 1 .. 6 /\ 2 \in 1 .. 6 /\ 3 \in 1 .. 6 /\ 4 \in 1 .. 6
      /\ 5 \in 1 .. 6 /\ 6 \in 1 .. 6
  OBVIOUS
<1> QED BY ONLY <1>3, <1>4, <1>6 DEF Framing

LEMMA ChecksumCounts ==
  ASSUME NEW head \in Seq(Nat), Len(head) = 4, NEW data \in Seq(Nat), NEW sum \in Nat
  PROVE  LET plain == head \o <<0, 0>> \o data
             sealed == head \o <<sum \div Digit, sum % Digit>> \o data
         IN  /\ plain \in Seq(Nat) /\ sealed \in Seq(Nat)
             /\ WordSum(plain) \in Nat /\ WordSum(sealed) = WordSum(plain) + sum
<1> DEFINE n == 6 + Len(data)
<1>1. Digit \in Nat /\ Digit >= 2
  BY SynthesisAssumption
<1>0. PICK hi, lo : hi = sum \div Digit /\ lo = sum % Digit
  OBVIOUS
<1>2. hi \in Nat /\ lo \in Nat /\ hi * Digit + lo = sum
  <2>1. hi \in Nat /\ lo \in Nat /\ sum = Digit * hi + lo
    <3>1. Digit \in Nat \ {0}
      BY <1>1
    <3>2. /\ sum \div Digit \in Nat /\ sum % Digit \in 0 .. Digit - 1
          /\ sum = Digit * (sum \div Digit) + (sum % Digit)
      BY <3>1, Divided
    <3> QED BY ONLY <1>0, <3>2
  <2>2. hi * Digit = Digit * hi
    BY <1>1, <2>1
  <2> QED BY ONLY <2>1, <2>2
<1> DEFINE plain == head \o <<0, 0>> \o data
           sealed == head \o <<hi, lo>> \o data
<1>3. plain = head \o <<0, 0>> \o data /\ sealed = head \o <<hi, lo>> \o data
  OBVIOUS
<1> HIDE DEF plain, sealed
<1>4. /\ plain \in Seq(Nat) /\ Len(plain) = n /\ n \in Nat /\ n >= 6
      /\ plain[1] = head[1] /\ plain[2] = head[2] /\ plain[3] = head[3] /\ plain[4] = head[4]
      /\ plain[5] = 0 /\ plain[6] = 0
      /\ \A k \in 7 .. n : plain[k] = data[k - 6]
  <2>1. 0 \in Nat
    OBVIOUS
  <2>2. Framing(head, 0, 0, data, plain)
    BY <1>3, <2>1, Framed
  <2> QED BY <2>2 DEF Framing, n
<1>5. /\ sealed \in Seq(Nat) /\ Len(sealed) = n
      /\ sealed[1] = head[1] /\ sealed[2] = head[2] /\ sealed[3] = head[3] /\ sealed[4] = head[4]
      /\ sealed[5] = hi /\ sealed[6] = lo
      /\ \A k \in 7 .. n : sealed[k] = data[k - 6]
  <2>1. Framing(head, hi, lo, data, sealed)
    BY <1>2, <1>3, Framed
  <2> QED BY <2>1 DEF Framing, n
<1> HIDE DEF n
<1> DEFINE v == Words(sealed)
           w == Words(plain)
<1>6. /\ v \in [1 .. n -> Nat] /\ \A k \in 1 .. n : v[k] = sealed[k] * Weight(k)
      /\ w \in [1 .. n -> Nat] /\ \A k \in 1 .. n : w[k] = plain[k] * Weight(k)
  <2>1. Words(sealed) \in [1 .. n -> Nat] /\ Words(plain) \in [1 .. n -> Nat]
    BY <1>4, <1>5, WordsSummed
  <2>2. /\ \A k \in 1 .. n : Words(sealed)[k] = sealed[k] * Weight(k)
        /\ \A k \in 1 .. n : Words(plain)[k] = plain[k] * Weight(k)
    BY <1>4, <1>5 DEF Words
  <2> QED BY <2>1, <2>2
<1>7. PICK f : Sums(n, v, f) /\ WordSum(sealed) = f[n]
  BY <1>5, WordsSummed
<1>8. PICK g : Sums(n, w, g) /\ WordSum(plain) = g[n]
  BY <1>4, WordsSummed
<1> HIDE DEF v, w
<1>9. /\ f \in [0 .. n -> Nat] /\ f[0] = 0 /\ \A k \in 1 .. n : f[k] = f[k - 1] + v[k]
      /\ g \in [0 .. n -> Nat] /\ g[0] = 0 /\ \A k \in 1 .. n : g[k] = g[k - 1] + w[k]
  BY <1>7, <1>8 DEF Sums
<1>10. v[1] = w[1] /\ v[2] = w[2] /\ v[3] = w[3] /\ v[4] = w[4]
  BY <1>4, <1>5, <1>6
<1>11. w[5] = 0 /\ w[6] = 0 /\ v[5] = hi * Digit /\ v[6] = lo
  <2>1. Weight(5) = Digit /\ Weight(6) = 1
    BY DEF Weight
  <2>2. w[5] = 0 * Digit /\ w[6] = 0 * 1 /\ v[5] = hi * Digit /\ v[6] = lo * 1
    BY <2>1, <1>4, <1>5, <1>6
  <2>3. 0 * Digit = 0 /\ 0 * 1 = 0 /\ lo * 1 = lo
    BY <1>1, <1>2
  <2> QED BY <2>2, <2>3
<1>12. f[6] = g[6] + sum
  <2>1. /\ 1 \in 1 .. n /\ 2 \in 1 .. n /\ 3 \in 1 .. n /\ 4 \in 1 .. n /\ 5 \in 1 .. n
        /\ 6 \in 1 .. n
    BY <1>4
  <2>2. /\ f[1] = f[0] + v[1] /\ f[2] = f[1] + v[2] /\ f[3] = f[2] + v[3] /\ f[4] = f[3] + v[4]
        /\ f[5] = f[4] + v[5] /\ f[6] = f[5] + v[6]
    BY <2>1, <1>9
  <2>3. /\ g[1] = g[0] + w[1] /\ g[2] = g[1] + w[2] /\ g[3] = g[2] + w[3] /\ g[4] = g[3] + w[4]
        /\ g[5] = g[4] + w[5] /\ g[6] = g[5] + w[6]
    BY <2>1, <1>9
  <2>4. g[4] \in Nat /\ f[4] = g[4]
    <3>1. f[1] = g[1]
      BY <2>2, <2>3, <1>9, <1>10
    <3>2. f[2] = g[2]
      BY <3>1, <2>2, <2>3, <1>10
    <3>3. f[3] = g[3]
      BY <3>2, <2>2, <2>3, <1>10
    <3>4. 4 \in 0 .. n
      BY <1>4
    <3> QED BY <3>3, <3>4, <2>2, <2>3, <1>9, <1>10
  <2> DEFINE x == hi * Digit
             y == g[4]
  <2>5. x \in Nat /\ x + lo = sum /\ y \in Nat
    BY <1>1, <1>2, <2>4
  <2>6. f[6] = (y + x) + lo /\ g[6] = (y + 0) + 0
    BY <2>2, <2>3, <2>4, <1>11
  <2> HIDE DEF x, y
  <2> QED BY <2>5, <2>6, <1>2
<1>13. \A k \in 7 .. n : v[k] = w[k]
  <2>1. \A k \in 7 .. n : k \in 1 .. n
    OBVIOUS
  <2> QED BY <2>1, <1>4, <1>5, <1>6
<1>14. f[n] = g[n] + sum
  <2> DEFINE m == 6
  <2>1. /\ m \in 0 .. n /\ n \in m .. n /\ sum \in Int /\ Apart(f, g, sum, m)
        /\ EqualAfter(v, w, m, n)
    <3>1. EqualAfter(v, w, m, n)
      BY <1>13 DEF EqualAfter
    <3>2. Apart(f, g, sum, m)
      BY <1>12 DEF Apart
    <3> QED BY <1>4, <3>1, <3>2
  <2> HIDE DEF m
  <2>2. /\ n \in Nat /\ v \in [1 .. n -> Nat] /\ w \in [1 .. n -> Nat]
        /\ Sums(n, v, f) /\ Sums(n, w, g)
    BY <1>4, <1>6, <1>7, <1>8
  <2>3. Apart(f, g, sum, n)
    BY <2>1, <2>2, SumsDiffer
  <2> QED BY <2>3 DEF Apart
<1>15. g[n] \in Nat
  BY <1>4, <1>9
<1> QED BY <1>4, <1>5, <1>7, <1>8, <1>14, <1>15, <1>0 DEF plain, sealed

(* With its checksum, a frame adds up to all ones. *)
LEMMA SealedVerifies ==
  ASSUME NEW head \in Seq(Nat), Len(head) = 4, NEW data \in Seq(Nat), NEW udp \in BOOLEAN
  PROVE  FoldCarry(WordSum(Sealed(head, data, udp))) = Digit * Digit - 1
<1> DEFINE b == Digit * Digit
           plain == head \o <<0, 0>> \o data
           total == WordSum(plain)
           comp == b - 1 - FoldCarry(total)
           sum == IF udp /\ comp = 0 THEN b - 1 ELSE comp
           sealed == head \o <<sum \div Digit, sum % Digit>> \o data
<1>1. b \in Nat /\ b >= 4
  BY BaseCounts
<1>2. Sealed(head, data, udp) = sealed
  BY DEF Sealed, OnesComplement
<1>3. total \in Nat
  <2>1. 0 \in Nat
    OBVIOUS
  <2> QED BY <2>1, ChecksumCounts
<1>4. /\ b = Digit * Digit /\ comp = b - 1 - FoldCarry(total)
      /\ sum = (IF udp /\ comp = 0 THEN b - 1 ELSE comp)
  OBVIOUS
<1> HIDE DEF b, total, comp, sum
<1>5. /\ FoldCarry(total) \in 0 .. b - 1
      /\ \E q \in Nat : total = FoldCarry(total) + q * (b - 1)
  BY <1>3, <1>4, CarryFolded DEF CarryLeft
<1>6. sum \in Nat
  <2> DEFINE y == FoldCarry(total)
  <2>1. y \in 0 .. b - 1 /\ b \in Nat
    BY <1>1, <1>5
  <2>2. comp = b - 1 - y
    BY <1>4
  <2> HIDE DEF y
  <2>3. comp \in Nat /\ b - 1 \in Nat
    BY ONLY <2>1, <2>2
  <2>4. sum = b - 1 \/ sum = comp
    BY <1>4
  <2> QED BY ONLY <2>3, <2>4
<1>7. WordSum(sealed) = total + sum
  BY <1>6, ChecksumCounts DEF total
<1> HIDE DEF sealed
<1> DEFINE whole == total + sum
           left == FoldCarry(whole)
           c == b - 1
<1>8. c \in Nat /\ c >= 3
  BY <1>1
<1>9. \E r \in Nat : r >= 1 /\ whole = r * c
  <2>1. PICK q \in Nat : total = FoldCarry(total) + q * c
    BY <1>5
  <2> DEFINE y == FoldCarry(total)
             z == q * c
  <2>2. y \in 0 .. c /\ total = y + z /\ z \in Nat /\ c \in Nat
    BY <1>5, <1>8, <2>1
  <2>3. comp = c - y /\ sum = (IF udp /\ comp = 0 THEN c ELSE comp)
    BY <1>4
  <2>4. (q + 1) * c = z + c /\ (q + 2) * c = z + c + c
    BY <1>8
  <2> HIDE DEF y, z, c
  <2>5. CASE udp /\ comp = 0
    <3>1. sum = c /\ y = c
      BY <2>2, <2>3, <2>5
    <3>2. whole = (q + 2) * c /\ q + 2 \in Nat /\ q + 2 >= 1
      BY <3>1, <2>2, <2>4
    <3> QED BY <3>2
  <2>6. CASE ~ (udp /\ comp = 0)
    <3>1. sum = c - y
      BY <2>3, <2>6
    <3>2. whole = (q + 1) * c /\ q + 1 \in Nat /\ q + 1 >= 1
      BY <3>1, <2>2, <2>4
    <3> QED BY <3>2
  <2> QED BY <2>5, <2>6
<1>10. PICK r \in Nat : r >= 1 /\ whole = r * c
  BY <1>9
<1>11. whole \in Nat /\ whole > 0
  <2> HIDE DEF c
  <2>1. r * c >= c
    <3>1. PICK z \in Nat : r = z + 1
      <4>1. r - 1 \in Nat /\ r = (r - 1) + 1
        BY <1>10
      <4> QED BY <4>1
    <3>2. (z + 1) * c = z * c + c /\ z * c \in Nat
      BY <1>8
    <3> QED BY <3>1, <3>2, <1>8
  <2>2. whole \in Nat
    BY <1>3, <1>6
  <2> HIDE DEF whole
  <2> QED BY <2>1, <2>2, <1>8, <1>10
<1>12. CarryLeft(whole, left)
  <2> HIDE DEF whole
  <2> QED BY <1>11, CarryFolded
<1>13. left \in 0 .. c /\ left > 0 /\ \E q \in Nat : whole = left + q * c
  <2> HIDE DEF whole, left
  <2> QED BY <1>4, <1>11, <1>12 DEF CarryLeft
<1>14. PICK q \in Nat : whole = left + q * c
  BY <1>13
<1>15. left = c
  <2> HIDE DEF left, whole, c
  <2>1. left = (r - q) * c
    <3>1. (r - q) * c = r * c - q * c /\ r * c \in Nat /\ q * c \in Nat
      BY <1>8
    <3> QED BY <3>1, <1>10, <1>13, <1>14, <1>8
  <2>2. r - q \in Int
    OBVIOUS
  <2>3. r - q >= 1
    <3> SUFFICES ASSUME r - q <= 0 PROVE FALSE
      BY <2>2
    <3>1. (r - q) * c <= 0
      BY <2>2, <1>8
    <3> QED BY <3>1, <2>1, <1>13
  <2>4. r - q <= 1
    <3> SUFFICES ASSUME r - q >= 2 PROVE FALSE
      BY <2>2
    <3>1. (r - q) * c >= c + c
      BY <2>2, <1>8
    <3> QED BY <3>1, <2>1, <1>8, <1>13
  <2>5. r - q = 1
    BY <2>2, <2>3, <2>4
  <2> QED BY <2>1, <2>5, <1>8
<1> QED BY <1>2, <1>4, <1>7, <1>15

(* ChecksumsVerify holds of any entries. *)
LEMMA ReadingVerifies == ReadingInv => ChecksumsVerify
<1> SUFFICES ASSUME ReadingInv, NEW e \in Range(buffer), NEW udp \in BOOLEAN
             PROVE  LET head == <<e.pkt.seq % Digit, e.pkt.ack % Digit, e.pkt.ctl,
                                  Len(e.pkt.data) % Digit>>
                    IN  FoldCarry(WordSum(Sealed(head, e.pkt.data, udp))) = Digit * Digit - 1
  BY DEF ChecksumsVerify
<1> DEFINE w == e.pkt.seq % Digit
           x == e.pkt.ack % Digit
           y == e.pkt.ctl
           z == Len(e.pkt.data) % Digit
           head == <<w, x, y, z>>
<1>1. e \in Entries
  <2>1. buffer \in Seq(Entries)
    BY DEF ReadingInv, ReadingTypeOK
  <2> QED BY <2>1 DEF Range
<1>2. e.pkt.seq \in Nat /\ e.pkt.ack \in Nat /\ e.pkt.ctl \in Nat /\ e.pkt.data \in Seq(Nat)
  BY <1>1 DEF Entries, Packets
<1>3. w \in Nat /\ x \in Nat /\ y \in Nat /\ z \in Nat
  <2>1. \A n \in Nat : n % Digit \in Nat
    BY SynthesisAssumption
  <2>2. Len(e.pkt.data) \in Nat
    BY <1>2
  <2> QED BY <1>2, <2>1, <2>2
<1>4. FoldCarry(WordSum(Sealed(head, e.pkt.data, udp))) = Digit * Digit - 1
  <2> HIDE DEF w, x, y, z
  <2>1. head \in Seq(Nat) /\ Len(head) = 4
    BY <1>3
  <2> HIDE DEF head
  <2> QED BY <1>2, <2>1, SealedVerifies
<1> QED BY <1>4

-----------------------------------------------------------------------------
(* A buffer that holds what was due of a stream reads it line by line.     *)
Mine(e, tag) == e.pkt.proto = "tcp" /\ e.pkt.tag = tag
IsLine(e, x) == e.at = x.at /\ e.pkt = x.pkt

Holds(b, w, tag, t) ==
  /\ b \in Seq(Entries) /\ Stream(w, tag) /\ Once(b) /\ InOrder(b) /\ Until(b, t)
  /\ \A k \in 1 .. Len(b) : Mine(b[k], tag) => \E l \in 1 .. Len(w) : IsLine(b[k], w[l])
  /\ \A l \in 1 .. Len(w) : w[l].at <= t => \E k \in 1 .. Len(b) : IsLine(b[k], w[l])

(* The first j entries of the buffer have the first m lines of the stream. *)
HasRead(b, w, tag, j, m) ==
  /\ m \in 0 .. Len(w)
  /\ \A k \in 1 .. j : Mine(b[k], tag) => \E l \in 1 .. m : IsLine(b[k], w[l])
  /\ \A l \in 1 .. m : \E k \in 1 .. j : IsLine(b[k], w[l])

NextLine(b, w, tag, j, m) ==
  /\ ~ Mine(b[j], tag) => HasRead(b, w, tag, j, m)
  /\ Mine(b[j], tag) => /\ m + 1 \in 1 .. Len(w) /\ IsLine(b[j], w[m + 1])
                        /\ HasRead(b, w, tag, j, m + 1)

LEMMA ReadingOn ==
  ASSUME NEW b, NEW w, NEW tag, NEW t \in Nat, Holds(b, w, tag, t),
         NEW j \in 1 .. Len(b), NEW m, HasRead(b, w, tag, j - 1, m)
  PROVE  NextLine(b, w, tag, j, m)
<1> DEFINE L == Len(w)
           n == Len(b)
<1>1. /\ b \in Seq(Entries) /\ w \in Seq(Plans) /\ n \in Nat /\ L \in Nat
      /\ \A k \in 1 .. L : Mine(w[k], tag)
      /\ \A k, l \in 1 .. L : k < l => w[k].at < w[l].at
  BY DEF Holds, Stream, Mine
<1>2. /\ \A k \in 1 .. n : b[k].at \in Nat
      /\ \A l \in 1 .. L : w[l].at \in Nat
  <2>1. (\A k \in 1 .. n : b[k] \in Entries) /\ \A l \in 1 .. L : w[l] \in Plans
    BY <1>1
  <2> QED BY <2>1 DEF Entries, Plans
<1>3. /\ \A k, l \in 1 .. n : Tcp(b[k], b[l]) /\ b[k].at = b[l].at => k = l
      /\ \A k, l \in 1 .. n : k < l => b[k].at <= b[l].at
      /\ \A k \in 1 .. n : b[k].at <= t
      /\ \A k \in 1 .. n : Mine(b[k], tag) => \E l \in 1 .. L : IsLine(b[k], w[l])
      /\ \A l \in 1 .. L : w[l].at <= t => \E k \in 1 .. n : IsLine(b[k], w[l])
  BY DEF Holds, Once, InOrder, Until
<1>4. /\ m \in 0 .. L
      /\ \A k \in 1 .. j - 1 : Mine(b[k], tag) => \E l \in 1 .. m : IsLine(b[k], w[l])
      /\ \A l \in 1 .. m : \E k \in 1 .. j - 1 : IsLine(b[k], w[l])
  BY DEF HasRead
<1>5. j \in 1 .. n
  OBVIOUS
<1> HIDE DEF n, L
<1>6. \A k \in 1 .. n, l \in 1 .. L : IsLine(b[k], w[l]) => Mine(b[k], tag)
  BY <1>1 DEF IsLine, Mine
<1>7. \A k, l \in 1 .. n : Mine(b[k], tag) /\ Mine(b[l], tag) => Tcp(b[k], b[l])
  BY DEF Mine, Tcp
<1>8. /\ 1 .. j - 1 \subseteq 1 .. n /\ 1 .. m \subseteq 1 .. L /\ 1 .. j - 1 \subseteq 1 .. j
      /\ j \in Int /\ m \in Int /\ 1 .. m \subseteq 1 .. m + 1
  BY <1>1, <1>4, <1>5
<1>9. CASE ~ Mine(b[j], tag)
  <2>1. \A k \in 1 .. j : Mine(b[k], tag) => \E l \in 1 .. m : IsLine(b[k], w[l])
    <3>1. \A k \in 1 .. j : k = j \/ k \in 1 .. j - 1
      BY <1>8
    <3> QED BY <3>1, <1>4, <1>9
  <2>2. \A l \in 1 .. m : \E k \in 1 .. j : IsLine(b[k], w[l])
    BY <1>4, <1>8
  <2>3. HasRead(b, w, tag, j, m)
    BY <2>1, <2>2, <1>4 DEF HasRead, L
  <2> QED BY <2>3, <1>9 DEF NextLine
<1>10. CASE Mine(b[j], tag)
  <2>1. PICK l \in 1 .. L : IsLine(b[j], w[l])
    BY <1>3, <1>5, <1>10
  <2>2. b[j].at = w[l].at
    BY <2>1 DEF IsLine
  <2>3. l \notin 1 .. m
    <3> SUFFICES ASSUME l \in 1 .. m PROVE FALSE
      OBVIOUS
    <3>1. PICK k \in 1 .. j - 1 : IsLine(b[k], w[l])
      BY <1>4
    <3>2. k \in 1 .. n /\ b[k].at = b[j].at /\ k # j
      BY <3>1, <2>2, <1>8 DEF IsLine
    <3>3. Mine(b[k], tag)
      BY <3>1, <3>2, <2>1, <1>6
    <3> QED BY <3>2, <3>3, <1>3, <1>5, <1>7, <1>10
  <2>4. ~ (l > m + 1)
    <3> SUFFICES ASSUME l > m + 1 PROVE FALSE
      OBVIOUS
    <3>1. m + 1 \in 1 .. L /\ m + 1 < l
      BY <2>1, <1>1, <1>4
    <3>2. w[m + 1].at < w[l].at
      BY <3>1, <2>1, <1>1
    <3>3. w[m + 1].at <= t
      <4>1. b[j].at <= t
        BY <1>3, <1>5
      <4> QED BY <4>1, <3>1, <3>2, <2>1, <2>2, <1>2
    <3>4. PICK k \in 1 .. n : IsLine(b[k], w[m + 1])
      BY <3>1, <3>3, <1>3
    <3>5. b[k].at < b[j].at /\ Mine(b[k], tag) /\ b[k].at = w[m + 1].at
      <4>1. b[k].at = w[m + 1].at
        BY <3>4 DEF IsLine
      <4> QED BY <4>1, <3>1, <3>2, <3>4, <2>2, <1>6
    <3>6. k \in 1 .. j - 1
      <4>1. ~ (j < k) /\ j # k
        BY <3>5, <1>2, <1>3, <1>5
      <4> QED BY <4>1, <1>8
    <3>7. PICK h \in 1 .. m : IsLine(b[k], w[h])
      BY <3>5, <3>6, <1>4
    <3>8. w[h].at = w[m + 1].at /\ h < m + 1 /\ h \in 1 .. L
      BY <3>5, <3>7, <1>8 DEF IsLine
    <3>9. w[h].at < w[m + 1].at
      BY <3>1, <3>8, <1>1
    <3> QED BY <3>1, <3>8, <3>9, <1>2
  <2>5. l = m + 1
    BY <2>1, <2>3, <2>4, <1>8
  <2>6. m + 1 \in 1 .. L /\ IsLine(b[j], w[m + 1])
    BY <2>1, <2>5
  <2>7. \A k \in 1 .. j : Mine(b[k], tag) => \E h \in 1 .. m + 1 : IsLine(b[k], w[h])
    <3>1. \A k \in 1 .. j : k = j \/ k \in 1 .. j - 1
      BY <1>8
    <3>2. m + 1 \in 1 .. m + 1
      BY <2>6
    <3> QED BY <3>1, <3>2, <2>6, <1>4, <1>8
  <2>8. \A h \in 1 .. m + 1 : \E k \in 1 .. j : IsLine(b[k], w[h])
    <3>1. \A h \in 1 .. m + 1 : h = m + 1 \/ h \in 1 .. m
      BY <1>8
    <3>2. j \in 1 .. j
      BY <1>5
    <3> QED BY <3>1, <3>2, <2>6, <1>4, <1>8
  <2>9. HasRead(b, w, tag, j, m + 1)
    <3>1. m + 1 \in 0 .. L
      BY <2>6
    <3> QED BY <3>1, <2>7, <2>8 DEF HasRead, L
  <2> QED BY <2>6, <2>9, <1>10 DEF NextLine, L
<1> QED BY <1>9, <1>10

(* What the entries of a stream use up, side by side with its lines.       *)
AskedBy(b, tag) ==
  [k \in 1 .. Len(b) |-> IF Mine(b[k], tag) /\ ~ b[k].pkt.reply THEN Used(b[k].pkt) ELSE 0]
AnsweredBy(b, tag) ==
  [k \in 1 .. Len(b) |-> IF Mine(b[k], tag) /\ b[k].pkt.reply THEN Used(b[k].pkt) ELSE 0]

LEMMA EntriesSized ==
  ASSUME NEW b \in Seq(Entries), NEW tag
  PROVE  /\ Len(b) \in Nat /\ \A k \in 1 .. Len(b) : Used(b[k].pkt) \in Nat
         /\ AskedBy(b, tag) \in [1 .. Len(b) -> Nat] /\ AnsweredBy(b, tag) \in [1 .. Len(b) -> Nat]
<1>1. Len(b) \in Nat /\ \A k \in 1 .. Len(b) : b[k] \in Entries
  OBVIOUS
<1>2. \A k \in 1 .. Len(b) : Used(b[k].pkt) \in Nat
  <2> SUFFICES ASSUME NEW k \in 1 .. Len(b) PROVE Used(b[k].pkt) \in Nat
    OBVIOUS
  <2>1. b[k].pkt.data \in Seq(Nat) /\ b[k].pkt.ctl \in Nat
    BY <1>1 DEF Entries, Packets
  <2> QED BY <2>1 DEF Used
<1> QED BY <1>1, <1>2 DEF AskedBy, AnsweredBy

(* So far: what the buffer's prefix adds up to is what the stream's does.  *)
Even(b, w, tag, X, Y, C, S, j, m) ==
  HasRead(b, w, tag, j, m) /\ X[j] = C[m] /\ Y[j] = S[m]

LEMMA SumsEven ==
  ASSUME NEW b, NEW w, NEW tag, NEW t \in Nat, Holds(b, w, tag, t),
         NEW X, NEW Y, Sums(Len(b), AskedBy(b, tag), X), Sums(Len(b), AnsweredBy(b, tag), Y),
         NEW C, NEW S, Sums(Len(w), ByClient(w), C), Sums(Len(w), ByServer(w), S),
         NEW j \in 0 .. Len(b)
  PROVE  \E m : Even(b, w, tag, X, Y, C, S, j, m)
<1> DEFINE n == Len(b)
           Fine(k) == \E m : Even(b, w, tag, X, Y, C, S, k, m)
           v == AskedBy(b, tag)
           u == AnsweredBy(b, tag)
<1>1. /\ b \in Seq(Entries) /\ w \in Seq(Plans) /\ n \in Nat /\ Len(w) \in Nat
  BY DEF Holds, Stream
<1>2. /\ X[0] = 0 /\ Y[0] = 0 /\ C[0] = 0 /\ S[0] = 0
      /\ \A k \in 1 .. n : X[k] = X[k - 1] + v[k] /\ Y[k] = Y[k - 1] + u[k]
      /\ \A k \in 1 .. Len(w) : C[k] = C[k - 1] + ByClient(w)[k] /\ S[k] = S[k - 1] + ByServer(w)[k]
      /\ X \in [0 .. n -> Nat] /\ Y \in [0 .. n -> Nat]
  BY DEF Sums
<1>3. /\ \A k \in 1 .. n : v[k] = IF Mine(b[k], tag) /\ ~ b[k].pkt.reply THEN Used(b[k].pkt) ELSE 0
      /\ \A k \in 1 .. n : u[k] = IF Mine(b[k], tag) /\ b[k].pkt.reply THEN Used(b[k].pkt) ELSE 0
  BY DEF AskedBy, AnsweredBy
<1>4. /\ \A k \in 1 .. Len(w) : ByClient(w)[k] = IF w[k].pkt.reply THEN 0 ELSE Used(w[k].pkt)
      /\ \A k \in 1 .. Len(w) : ByServer(w)[k] = IF w[k].pkt.reply THEN Used(w[k].pkt) ELSE 0
  BY DEF ByClient, ByServer
<1> HIDE DEF v, u
<1>5. Fine(0)
  <2>1. HasRead(b, w, tag, 0, 0)
    BY <1>1 DEF HasRead
  <2> QED BY <2>1, <1>2 DEF Even
<1>6. ASSUME NEW k \in 1 .. n, Fine(k - 1) PROVE Fine(k)
  <2>1. PICK m : Even(b, w, tag, X, Y, C, S, k - 1, m)
    BY <1>6
  <2>2. HasRead(b, w, tag, k - 1, m) /\ X[k - 1] = C[m] /\ Y[k - 1] = S[m]
    BY <2>1 DEF Even
  <2>3. NextLine(b, w, tag, k, m)
    BY <2>2, ReadingOn
  <2>4. X[k] = X[k - 1] + v[k] /\ Y[k] = Y[k - 1] + u[k]
    BY <1>2
  <2>5. k - 1 \in 0 .. n /\ X[k - 1] \in Nat /\ Y[k - 1] \in Nat
    <3>1. k - 1 \in 0 .. n
      BY <1>1
    <3> QED BY <3>1, <1>2
  <2>6. CASE ~ Mine(b[k], tag)
    <3>1. v[k] = 0 /\ u[k] = 0
      BY <2>6, <1>3
    <3>2. X[k] = X[k - 1] /\ Y[k] = Y[k - 1]
      BY <3>1, <2>4, <2>5
    <3>3. Even(b, w, tag, X, Y, C, S, k, m)
      BY <3>2, <2>2, <2>3, <2>6 DEF Even, NextLine
    <3> QED BY <3>3
  <2>7. CASE Mine(b[k], tag)
    <3>1. /\ m + 1 \in 1 .. Len(w) /\ IsLine(b[k], w[m + 1]) /\ HasRead(b, w, tag, k, m + 1)
      BY <2>3, <2>7 DEF NextLine
    <3>2. m \in Int
      BY <2>2, <1>1 DEF HasRead
    <3>3. C[m + 1] = C[m] + ByClient(w)[m + 1] /\ S[m + 1] = S[m] + ByServer(w)[m + 1]
      <4>1. (m + 1) - 1 = m
        BY <3>2
      <4> QED BY <4>1, <3>1, <1>2
    <3>4. v[k] = ByClient(w)[m + 1] /\ u[k] = ByServer(w)[m + 1]
      <4> DEFINE p == b[k].pkt
      <4>1. w[m + 1].pkt = p
        BY <3>1 DEF IsLine
      <4>2. /\ ByClient(w)[m + 1] = IF p.reply THEN 0 ELSE Used(p)
            /\ ByServer(w)[m + 1] = IF p.reply THEN Used(p) ELSE 0
        BY <4>1, <3>1, <1>4
      <4>3. /\ v[k] = IF ~ p.reply THEN Used(p) ELSE 0
            /\ u[k] = IF p.reply THEN Used(p) ELSE 0
        BY <1>3, <2>7
      <4> HIDE DEF p
      <4>4. CASE p.reply
        BY <4>2, <4>3, <4>4
      <4>5. CASE ~ p.reply
        BY <4>2, <4>3, <4>5
      <4> QED BY <4>4, <4>5
    <3>5. X[k] = C[m + 1] /\ Y[k] = S[m + 1]
      BY <3>3, <3>4, <2>2, <2>4
    <3>6. Even(b, w, tag, X, Y, C, S, k, m + 1)
      BY <3>1, <3>5 DEF Even
    <3> QED BY <3>6
  <2> QED BY <2>6, <2>7
<1> DEFINE bad == {k \in 0 .. n : ~ Fine(k)}
<1>7. bad = {}
  <2> SUFFICES ASSUME bad # {} PROVE FALSE
    OBVIOUS
  <2> HIDE DEF Fine
  <2>1. PICK k \in bad : \A c \in bad : k <= c
    <3>1. bad \in SUBSET Nat
      OBVIOUS
    <3> HIDE DEF bad
    <3> QED BY <3>1, LeastNumber
  <2>2. k \in 1 .. n /\ k - 1 \in 0 .. n /\ ~ (k <= k - 1) /\ ~ Fine(k)
    BY <2>1, <1>1, <1>5
  <2>3. k - 1 \notin bad
    <3> HIDE DEF bad
    <3> QED BY <2>1, <2>2
  <2>4. Fine(k - 1)
    BY <2>2, <2>3
  <2> QED BY <2>2, <2>4, <1>6
<1>8. Fine(j)
  <2> HIDE DEF Fine
  <2> QED BY <1>7
<1> QED BY <1>8

(* SentUpto adds up the entries at its places. *)
LEMMA SentIsSum ==
  ASSUME NEW N \in Nat, NEW v \in [1 .. N -> Nat], NEW X, Sums(N, v, X),
         NEW n \in 0 .. N, NEW places,
         \A k \in 1 .. n : v[k] = IF k \in places THEN Used(buffer[k].pkt) ELSE 0
  PROVE  SentUpto(n, places) = X[n]
<1> DEFINE Upto(f) ==
             f = [k \in 0 .. n |->
                   IF k = 0 THEN 0
                   ELSE f[k - 1] + (IF k \in places THEN Used(buffer[k].pkt) ELSE 0)]
           last == CHOOSE f : Upto(f)
           g == [k \in 0 .. n |-> X[k]]
           x == [k \in 1 .. n |-> v[k]]
<1>1. SentUpto(n, places) = last[n]
  BY DEF SentUpto
<1>2. /\ n \in Nat /\ 0 \in 0 .. n /\ n \in 0 .. n /\ 0 .. n \subseteq 0 .. N /\ 1 .. n \subseteq 1 .. N
      /\ \A k \in 1 .. n : k \in 0 .. n /\ k - 1 \in 0 .. n /\ k # 0
      /\ \A k \in 0 .. n : k = 0 \/ k \in 1 .. n
  OBVIOUS
<1>3. X \in [0 .. N -> Nat] /\ X[0] = 0 /\ \A k \in 1 .. N : X[k] = X[k - 1] + v[k]
  BY DEF Sums
<1>4. x \in [1 .. n -> Nat] /\ \A k \in 1 .. n : x[k] = v[k]
  BY <1>2
<1>5. g = [k \in 0 .. n |-> g[k]] /\ g[0] = 0 /\ g[n] = X[n]
  BY <1>2, <1>3
<1>6. \A k \in 1 .. n : g[k] = g[k - 1] + x[k]
  BY <1>2, <1>3, <1>4
<1>7. \A k \in 1 .. n : x[k] = IF k \in places THEN Used(buffer[k].pkt) ELSE 0
  BY <1>4
<1> HIDE DEF g, x
<1>8. Upto(g)
  <2>1. \A k \in 0 .. n :
          g[k] = IF k = 0 THEN 0
                 ELSE g[k - 1] + (IF k \in places THEN Used(buffer[k].pkt) ELSE 0)
    <3> HIDE DEF Upto, last
    <3> SUFFICES ASSUME NEW k \in 0 .. n, k # 0
                 PROVE  g[k] = g[k - 1] + (IF k \in places THEN Used(buffer[k].pkt) ELSE 0)
      BY <1>5
    <3>1. k \in 1 .. n
      BY <1>2
    <3> QED BY <3>1, <1>6, <1>7
  <2> QED BY <2>1, <1>5
<1>9. Upto(last)
  <2> HIDE DEF Upto
  <2> QED BY <1>8
<1> HIDE DEF last
<1>10. /\ last = [k \in 0 .. n |-> last[k]] /\ last[0] = 0
       /\ \A k \in 1 .. n : last[k] = last[k - 1] + x[k]
  <2>1. \A k \in 0 .. n :
          last[k] = IF k = 0 THEN 0
                 ELSE last[k - 1] + (IF k \in places THEN Used(buffer[k].pkt) ELSE 0)
    BY <1>9
  <2>2. last = [k \in 0 .. n |-> last[k]]
    BY <1>9
  <2> HIDE DEF Upto
  <2> QED BY <2>1, <2>2, <1>2, <1>7
<1> HIDE DEF Upto
<1>11. Sums(n, x, last) /\ Sums(n, x, g)
  BY <1>2, <1>4, <1>5, <1>6, <1>10, SumsOnly
<1>12. Apart(last, g, 0, n)
  <2>1. 0 \in 0 .. n /\ n \in 0 .. n /\ 0 \in Int
    BY <1>2
  <2>2. Apart(last, g, 0, 0) /\ EqualAfter(x, x, 0, n)
    BY <1>5, <1>10 DEF Apart, EqualAfter
  <2> QED BY <2>1, <2>2, <1>2, <1>4, <1>11, SumsDiffer
<1>13. g[n] \in Nat
  BY <1>2, <1>11 DEF Sums
<1> QED BY <1>1, <1>5, <1>12, <1>13 DEF Apart

LEMMA PlanParts == \A e, f : Plan(e.at, e.pkt) = Plan(f.at, f.pkt) => IsLine(e, f)
<1> SUFFICES ASSUME NEW e, NEW f, Plan(e.at, e.pkt) = Plan(f.at, f.pkt) PROVE IsLine(e, f)
  OBVIOUS
<1>1. Plan(e.at, e.pkt).at = e.at /\ Plan(e.at, e.pkt).pkt = e.pkt
  BY DEF Plan
<1>2. Plan(f.at, f.pkt).at = f.at /\ Plan(f.at, f.pkt).pkt = f.pkt
  BY DEF Plan
<1> QED BY <1>1, <1>2 DEF IsLine

(* With nothing evicted, the buffer holds what was due of each stream.     *)
LEMMA BufferHolds ==
  ASSUME ReadingInv, StreamsTold, NothingEvicted(buffer, nextId),
         NEW i \in 1 .. Len(buffer), NEW tag, Mine(buffer[i], tag)
  PROVE  \E w : Holds(buffer, w, tag, now)
<1> DEFINE H == Reads(pending) \cup Reads(buffer)
           n == Len(buffer)
           Line(e) == Plan(e.at, e.pkt)
<1>1. /\ now \in Nat /\ pending \in Seq(Plans) /\ buffer \in Seq(Entries) /\ n \in Nat
      /\ DOMAIN buffer = 1 .. n /\ InOrder(buffer) /\ Until(buffer, now)
      /\ \A k \in DOMAIN pending : pending[k].at > now
  BY DEF ReadingInv, ReadingTypeOK, Beyond
<1>2. Once(buffer) /\ Carried(H, begun)
  BY DEF StreamsTold
<1>3. /\ \A k \in 1 .. n : Line(buffer[k]) \in H
      /\ \A e : Line(e).at = e.at /\ Line(e).pkt = e.pkt
  BY <1>1 DEF Reads, Plan
<1> HIDE DEF H
<1>4. \A k \in 1 .. n : Mine(buffer[k], tag) => Line(buffer[k]) \in Conversation(H, tag)
  BY <1>3 DEF Conversation, Mine
<1>5. i \in 1 .. n
  OBVIOUS
<1>6. tag \in 0 .. begun - 1
  <2>1. Line(buffer[i]) \in H /\ Line(buffer[i]).pkt = buffer[i].pkt
    BY <1>3, <1>5
  <2> HIDE DEF Line
  <2> QED BY <2>1, <1>2 DEF Carried, Mine
<1>7. PICK w : Stream(w, tag) /\ Conversation(H, tag) = Reads(w)
  <2>1. Streamed(H, tag)
    BY <1>2, <1>6 DEF Carried
  <2>2. Conversation(H, tag) # {}
    BY <1>4, <1>5
  <2> QED BY <2>1, <2>2 DEF Streamed
<1>8. w \in Seq(Plans) /\ DOMAIN w = 1 .. Len(w)
  BY <1>7 DEF Stream
<1>9. \A k \in 1 .. n : Mine(buffer[k], tag) => \E l \in 1 .. Len(w) : IsLine(buffer[k], w[l])
  <2> SUFFICES ASSUME NEW k \in 1 .. n, Mine(buffer[k], tag)
               PROVE  \E l \in 1 .. Len(w) : IsLine(buffer[k], w[l])
    OBVIOUS
  <2>1. Line(buffer[k]) \in Reads(w)
    BY <1>4, <1>7
  <2>2. PICK l \in 1 .. Len(w) : Line(buffer[k]) = Plan(w[l].at, w[l].pkt)
    BY <2>1, <1>8 DEF Reads
  <2> QED BY <2>2, PlanParts
<1>10. \A l \in 1 .. Len(w) : w[l].at <= now => \E k \in 1 .. n : IsLine(buffer[k], w[l])
  <2> SUFFICES ASSUME NEW l \in 1 .. Len(w), w[l].at <= now
               PROVE  \E k \in 1 .. n : IsLine(buffer[k], w[l])
    OBVIOUS
  <2>1. Line(w[l]) \in Reads(w)
    BY <1>8 DEF Reads
  <2>2. Line(w[l]) \in Reads(pending) \cup Reads(buffer)
    <3>1. Line(w[l]) \in Conversation(H, tag)
      BY <2>1, <1>7
    <3> QED BY <3>1 DEF Conversation, H
  <2>3. Line(w[l]) \notin Reads(pending)
    <3> SUFFICES ASSUME Line(w[l]) \in Reads(pending) PROVE FALSE
      OBVIOUS
    <3>1. PICK k \in DOMAIN pending : Line(w[l]) = Plan(pending[k].at, pending[k].pkt)
      BY DEF Reads
    <3>2. w[l].at = pending[k].at
      BY <3>1, PlanParts DEF IsLine
    <3>3. w[l].at \in Nat
      <4>1. w[l] \in Plans
        BY <1>8
      <4> QED BY <4>1 DEF Plans
    <3>4. pending[k].at > now
      BY <1>1
    <3> QED BY <3>2, <3>3, <3>4, <1>1
  <2>4. PICK k \in 1 .. n : Line(w[l]) = Plan(buffer[k].at, buffer[k].pkt)
    BY <2>2, <2>3, <1>1 DEF Reads
  <2> QED BY <2>4, PlanParts DEF IsLine
<1>11. Holds(buffer, w, tag, now)
  BY <1>1, <1>2, <1>7, <1>9, <1>10 DEF Holds
<1> QED BY <1>11

LEMMA Contrary == \A a, d \in BOOLEAN : (~ d => (a # d <=> a)) /\ (d => (a # d <=> ~ a))
OBVIOUS

(* The segment at place i of a buffer is the next line of its stream.      *)
Segment(i, w, c, s, C, S, X, Y, m) ==
  /\ Holds(buffer, w, buffer[i].pkt.tag, now)
  /\ Reckoned(w, c, s, C, S)
  /\ Sums(Len(buffer), AskedBy(buffer, buffer[i].pkt.tag), X)
  /\ Sums(Len(buffer), AnsweredBy(buffer, buffer[i].pkt.tag), Y)
  /\ HasRead(buffer, w, buffer[i].pkt.tag, i - 1, m) /\ X[i - 1] = C[m] /\ Y[i - 1] = S[m]
  /\ m + 1 \in 1 .. Len(w) /\ IsLine(buffer[i], w[m + 1])

LEMMA SegmentFound ==
  ASSUME ReadingInv, StreamsTold, NothingEvicted(buffer, nextId),
         NEW i \in 1 .. Len(buffer), buffer[i].pkt.proto = "tcp"
  PROVE  \E w, c, s, C, S, X, Y, m : Segment(i, w, c, s, C, S, X, Y, m)
<1> DEFINE tag == buffer[i].pkt.tag
           n == Len(buffer)
<1>1. now \in Nat /\ buffer \in Seq(Entries) /\ n \in Nat
  BY DEF ReadingInv, ReadingTypeOK
<1>2. Mine(buffer[i], tag)
  BY DEF Mine
<1> HIDE DEF tag
<1>3. PICK w : Holds(buffer, w, tag, now)
  BY <1>2, BufferHolds
<1>4. PICK c, s, C, S : Reckoned(w, c, s, C, S)
  BY <1>3 DEF Holds, Stream
<1>5. n \in Nat /\ AskedBy(buffer, tag) \in [1 .. n -> Nat] /\ AnsweredBy(buffer, tag) \in [1 .. n -> Nat]
  BY <1>1, EntriesSized
<1>6. PICK X : Sums(n, AskedBy(buffer, tag), X)
  BY <1>5, SumsExist
<1>7. PICK Y : Sums(n, AnsweredBy(buffer, tag), Y)
  BY <1>5, SumsExist
<1>8. i - 1 \in 0 .. n
  BY <1>1
<1>9. PICK m : Even(buffer, w, tag, X, Y, C, S, i - 1, m)
  <2> DEFINE j == i - 1
  <2>1. j \in 0 .. n
    BY <1>8
  <2>2. Sums(Len(w), ByClient(w), C) /\ Sums(Len(w), ByServer(w), S)
    BY <1>4 DEF Reckoned
  <2> HIDE DEF j
  <2>3. \E m : Even(buffer, w, tag, X, Y, C, S, j, m)
    BY <2>1, <2>2, <1>1, <1>3, <1>6, <1>7, SumsEven
  <2> QED BY <2>3 DEF j
<1>10. HasRead(buffer, w, tag, i - 1, m) /\ X[i - 1] = C[m] /\ Y[i - 1] = S[m]
  BY <1>9 DEF Even
<1>11. NextLine(buffer, w, tag, i, m)
  BY <1>1, <1>3, <1>10, ReadingOn
<1>12. m + 1 \in 1 .. Len(w) /\ IsLine(buffer[i], w[m + 1])
  BY <1>2, <1>11 DEF NextLine
<1>13. Segment(i, w, c, s, C, S, X, Y, m)
  BY <1>3, <1>4, <1>6, <1>7, <1>10, <1>12 DEF Segment, tag
<1> QED BY <1>13

(* A receiver has what the segment says it has.                            *)
Taken(i, peers, others) ==
  /\ buffer[i].pkt.seq = (buffer[i].pkt.isn + SentUpto(i - 1, peers \ others)) % (2 ^ SeqWidth)
  /\ others = {} => buffer[i].pkt.ack = 0
  /\ \A j \in others :
       buffer[i].pkt.ack = (buffer[j].pkt.isn + SentUpto(i - 1, others)) % (2 ^ SeqWidth)

LEMMA SegmentTaken ==
  ASSUME ReadingInv, NEW i \in 1 .. Len(buffer), buffer[i].pkt.proto = "tcp",
         NEW w, NEW c, NEW s, NEW C, NEW S, NEW X, NEW Y, NEW m,
         Segment(i, w, c, s, C, S, X, Y, m),
         NEW peers, peers = {j \in 1 .. i - 1 : Same(buffer[j].pkt, buffer[i].pkt)},
         NEW others, others = {j \in peers : buffer[j].pkt.reply # buffer[i].pkt.reply}
  PROVE  Taken(i, peers, others)
<1> DEFINE p == buffer[i].pkt
           tag == p.tag
           n == Len(buffer)
           M == 2 ^ SeqWidth
<1>1. /\ buffer \in Seq(Entries) /\ n \in Nat /\ i \in 1 .. n /\ i \in Nat
      /\ \A k \in 1 .. i - 1 : k \in 1 .. n
      /\ i - 1 \in 0 .. n
  BY DEF ReadingInv, ReadingTypeOK
<1>2. \A k \in 1 .. n : buffer[k].pkt.reply \in BOOLEAN
  <2>1. \A k \in 1 .. n : buffer[k] \in Entries
    BY <1>1
  <2> QED BY <2>1 DEF Entries, Packets
<1>3. p.reply \in BOOLEAN
  BY <1>1, <1>2
<1>4. \A k : k \in peers <=> k \in 1 .. i - 1 /\ Mine(buffer[k], tag)
  BY DEF Same, Mine
<1>5. /\ \A k : k \in others => k \in peers
      /\ \A k \in peers : k \in others <=> buffer[k].pkt.reply # p.reply
  OBVIOUS
<1>6. /\ w \in Seq(Plans) /\ Len(w) \in Nat
      /\ ~ w[1].pkt.reply /\ w[2].pkt.reply /\ Len(w) >= 2
      /\ \A k \in 1 .. Len(w) : Mine(w[k], tag)
  BY DEF Segment, Holds, Stream, Mine
<1>7. /\ \A k \in 1 .. i - 1 : Mine(buffer[k], tag) => \E l \in 1 .. m : IsLine(buffer[k], w[l])
      /\ \A l \in 1 .. m : \E k \in 1 .. i - 1 : IsLine(buffer[k], w[l])
      /\ m \in 0 .. Len(w) /\ m + 1 \in 1 .. Len(w) /\ p = w[m + 1].pkt
      /\ X[i - 1] = C[m] /\ Y[i - 1] = S[m]
  BY DEF Segment, HasRead, IsLine
<1>8. \A k \in 1 .. Len(w) : Fitting(w[k].pkt, k, c, s, C, S)
  BY DEF Segment, Reckoned
<1>9. m \in Nat /\ (m + 1) - 1 = m /\ (m + 1 = 1 <=> m = 0) /\ \A l \in 1 .. m : l \in 1 .. Len(w)
  BY <1>6, <1>7
<1>10. Sums(n, AskedBy(buffer, tag), X) /\ Sums(n, AnsweredBy(buffer, tag), Y)
  BY DEF Segment
<1>11. /\ n \in Nat /\ AskedBy(buffer, tag) \in [1 .. n -> Nat]
       /\ AnsweredBy(buffer, tag) \in [1 .. n -> Nat]
  BY <1>1, EntriesSized
<1>12. \A k \in 1 .. n :
         /\ AskedBy(buffer, tag)[k] =
              IF Mine(buffer[k], tag) /\ ~ buffer[k].pkt.reply THEN Used(buffer[k].pkt) ELSE 0
         /\ AnsweredBy(buffer, tag)[k] =
              IF Mine(buffer[k], tag) /\ buffer[k].pkt.reply THEN Used(buffer[k].pkt) ELSE 0
  BY DEF AskedBy, AnsweredBy
<1> HIDE DEF p, tag, n, M
<1>13. /\ ~ p.reply => /\ p.isn = c /\ p.seq = (c + C[m]) % M
                       /\ m # 0 => p.ack = (s + S[m]) % M
       /\ p.reply => /\ p.isn = s /\ p.seq = (s + S[m]) % M
                     /\ m # 0 => p.ack = (c + C[m]) % M
       /\ m = 0 => p.ack = 0
  <2>1. Fitting(p, m + 1, c, s, C, S)
    BY <1>7, <1>8
  <2> QED BY <2>1, <1>9 DEF Fitting, M
<1>14. \A k \in others : /\ ~ buffer[k].pkt.reply => buffer[k].pkt.isn = c
                         /\ buffer[k].pkt.reply => buffer[k].pkt.isn = s
  <2> SUFFICES ASSUME NEW k \in others
               PROVE  /\ ~ buffer[k].pkt.reply => buffer[k].pkt.isn = c
                      /\ buffer[k].pkt.reply => buffer[k].pkt.isn = s
    OBVIOUS
  <2>1. PICK l \in 1 .. m : IsLine(buffer[k], w[l])
    BY <1>4, <1>5, <1>7
  <2>2. Fitting(buffer[k].pkt, l, c, s, C, S)
    <3>1. Fitting(w[l].pkt, l, c, s, C, S)
      BY <1>8, <1>9
    <3> QED BY <3>1, <2>1 DEF IsLine
  <2> QED BY <2>2 DEF Fitting
<1>15. others # {} => m # 0
  <2> SUFFICES ASSUME NEW k \in others PROVE m # 0
    OBVIOUS
  <2>1. PICK l \in 1 .. m : IsLine(buffer[k], w[l])
    BY <1>4, <1>5, <1>7
  <2> QED BY <2>1
<1>16. \A l \in 1 .. m : \E k \in peers : buffer[k].pkt.reply = w[l].pkt.reply
  <2> SUFFICES ASSUME NEW l \in 1 .. m PROVE \E k \in peers : buffer[k].pkt.reply = w[l].pkt.reply
    OBVIOUS
  <2>1. PICK k \in 1 .. i - 1 : IsLine(buffer[k], w[l])
    BY <1>7
  <2>2. Mine(buffer[k], tag)
    <3>1. Mine(w[l], tag)
      BY <1>6, <1>9
    <3> QED BY <3>1, <2>1 DEF Mine, IsLine
  <2>3. k \in peers /\ buffer[k].pkt = w[l].pkt
    BY <2>1, <2>2, <1>4 DEF IsLine
  <2> QED BY <2>3
<1>17. others = {} => m = 0
  <2> SUFFICES ASSUME others = {}, m # 0 PROVE FALSE
    OBVIOUS
  <2>1. \A k \in peers : buffer[k].pkt.reply = p.reply
    BY <1>5
  <2>2. \A l \in 1 .. m : w[l].pkt.reply = p.reply
    BY <2>1, <1>16
  <2>3. 1 \in 1 .. m
    BY <1>9
  <2>4. ~ p.reply
    <3>1. w[1].pkt.reply = p.reply
      BY <2>2, <2>3
    <3>2. ~ w[1].pkt.reply
      BY <1>6
    <3> QED BY ONLY <3>1, <3>2
  <2>5. m # 1
    <3> SUFFICES ASSUME m = 1 PROVE FALSE
      OBVIOUS
    <3>1. p = w[2].pkt
      <4>1. m + 1 = 2
        OBVIOUS
      <4> QED BY <4>1, <1>7
    <3> QED BY <3>1, <2>4, <1>6
  <2>6. 2 \in 1 .. m
    BY <2>5, <1>9
  <2>7. w[2].pkt.reply = p.reply
    BY <2>2, <2>6
  <2>8. w[2].pkt.reply
    BY <1>6
  <2> QED BY ONLY <2>4, <2>7, <2>8
<1>18. \A k \in 1 .. i - 1 : k \in 1 .. n /\ buffer[k].pkt.reply \in BOOLEAN
  BY <1>1, <1>2
<1>19. CASE ~ p.reply
  <2>1. \A k \in 1 .. i - 1 : (k \in others <=> Mine(buffer[k], tag) /\ buffer[k].pkt.reply)
    <3> SUFFICES ASSUME NEW k \in 1 .. i - 1
                 PROVE  k \in others <=> Mine(buffer[k], tag) /\ buffer[k].pkt.reply
      OBVIOUS
    <3>1. buffer[k].pkt.reply # p.reply <=> buffer[k].pkt.reply
      BY <1>3, <1>18, <1>19, Contrary
    <3>2. k \in others <=> k \in peers /\ buffer[k].pkt.reply # p.reply
      BY <1>5
    <3>3. k \in peers <=> Mine(buffer[k], tag)
      BY <1>4
    <3> QED BY ONLY <3>1, <3>2, <3>3
  <2>2. \A k \in 1 .. i - 1 : (k \in peers \ others <=> Mine(buffer[k], tag) /\ ~ buffer[k].pkt.reply)
    <3> SUFFICES ASSUME NEW k \in 1 .. i - 1
                 PROVE  k \in peers \ others <=> Mine(buffer[k], tag) /\ ~ buffer[k].pkt.reply
      OBVIOUS
    <3>1. k \in others <=> Mine(buffer[k], tag) /\ buffer[k].pkt.reply
      BY <2>1
    <3>2. k \in peers <=> Mine(buffer[k], tag)
      BY <1>4
    <3> QED BY ONLY <3>1, <3>2
  <2>3. SentUpto(i - 1, peers \ others) = X[i - 1]
    <3> DEFINE places == peers \ others
               v == AskedBy(buffer, tag)
               j == i - 1
    <3>1. \A k \in 1 .. j : v[k] = IF k \in places THEN Used(buffer[k].pkt) ELSE 0
      BY <2>2, <1>12, <1>18
    <3>2. n \in Nat /\ j \in 0 .. n /\ v \in [1 .. n -> Nat] /\ Sums(n, v, X)
      BY <1>1, <1>10, <1>11
    <3> HIDE DEF places, v, j
    <3>3. SentUpto(j, places) = X[j]
      BY ONLY <3>1, <3>2, SentIsSum
    <3> QED BY <3>3 DEF places, j
  <2>4. SentUpto(i - 1, others) = Y[i - 1]
    <3> DEFINE v == AnsweredBy(buffer, tag)
               j == i - 1
    <3>1. \A k \in 1 .. j : v[k] = IF k \in others THEN Used(buffer[k].pkt) ELSE 0
      BY <2>1, <1>12, <1>18
    <3>2. n \in Nat /\ j \in 0 .. n /\ v \in [1 .. n -> Nat] /\ Sums(n, v, Y)
      BY <1>1, <1>10, <1>11
    <3> HIDE DEF v, j
    <3>3. SentUpto(j, others) = Y[j]
      BY ONLY <3>1, <3>2, SentIsSum
    <3> QED BY <3>3 DEF j
  <2>5. \A k \in others : buffer[k].pkt.isn = s
    <3> SUFFICES ASSUME NEW k \in others PROVE buffer[k].pkt.isn = s
      OBVIOUS
    <3>1. k \in 1 .. i - 1
      BY <1>4, <1>5
    <3>2. buffer[k].pkt.reply
      BY <3>1, <2>1
    <3> QED BY <3>2, <1>14
  <2>6. p.seq = (p.isn + SentUpto(i - 1, peers \ others)) % M
    BY <2>3, <1>7, <1>13, <1>19
  <2>7. \A k \in others : p.ack = (buffer[k].pkt.isn + SentUpto(i - 1, others)) % M
    BY <2>4, <2>5, <1>7, <1>13, <1>15, <1>19
  <2>8. others = {} => p.ack = 0
    BY <1>13, <1>17
  <2> QED BY <2>6, <2>7, <2>8 DEF Taken, p, M
<1>20. CASE p.reply
  <2>1. \A k \in 1 .. i - 1 : (k \in others <=> Mine(buffer[k], tag) /\ ~ buffer[k].pkt.reply)
    <3> SUFFICES ASSUME NEW k \in 1 .. i - 1
                 PROVE  k \in others <=> Mine(buffer[k], tag) /\ ~ buffer[k].pkt.reply
      OBVIOUS
    <3>1. buffer[k].pkt.reply # p.reply <=> ~ buffer[k].pkt.reply
      BY <1>3, <1>18, <1>20, Contrary
    <3>2. k \in others <=> k \in peers /\ buffer[k].pkt.reply # p.reply
      BY <1>5
    <3>3. k \in peers <=> Mine(buffer[k], tag)
      BY <1>4
    <3> QED BY ONLY <3>1, <3>2, <3>3
  <2>2. \A k \in 1 .. i - 1 : (k \in peers \ others <=> Mine(buffer[k], tag) /\ buffer[k].pkt.reply)
    <3> SUFFICES ASSUME NEW k \in 1 .. i - 1
                 PROVE  k \in peers \ others <=> Mine(buffer[k], tag) /\ buffer[k].pkt.reply
      OBVIOUS
    <3>1. k \in others <=> Mine(buffer[k], tag) /\ ~ buffer[k].pkt.reply
      BY <2>1
    <3>2. k \in peers <=> Mine(buffer[k], tag)
      BY <1>4
    <3> QED BY ONLY <3>1, <3>2
  <2>3. SentUpto(i - 1, peers \ others) = Y[i - 1]
    <3> DEFINE places == peers \ others
               v == AnsweredBy(buffer, tag)
               j == i - 1
    <3>1. \A k \in 1 .. j : v[k] = IF k \in places THEN Used(buffer[k].pkt) ELSE 0
      BY <2>2, <1>12, <1>18
    <3>2. n \in Nat /\ j \in 0 .. n /\ v \in [1 .. n -> Nat] /\ Sums(n, v, Y)
      BY <1>1, <1>10, <1>11
    <3> HIDE DEF places, v, j
    <3>3. SentUpto(j, places) = Y[j]
      BY ONLY <3>1, <3>2, SentIsSum
    <3> QED BY <3>3 DEF places, j
  <2>4. SentUpto(i - 1, others) = X[i - 1]
    <3> DEFINE v == AskedBy(buffer, tag)
               j == i - 1
    <3>1. \A k \in 1 .. j : v[k] = IF k \in others THEN Used(buffer[k].pkt) ELSE 0
      BY <2>1, <1>12, <1>18
    <3>2. n \in Nat /\ j \in 0 .. n /\ v \in [1 .. n -> Nat] /\ Sums(n, v, X)
      BY <1>1, <1>10, <1>11
    <3> HIDE DEF v, j
    <3>3. SentUpto(j, others) = X[j]
      BY ONLY <3>1, <3>2, SentIsSum
    <3> QED BY <3>3 DEF j
  <2>5. \A k \in others : buffer[k].pkt.isn = c
    <3> SUFFICES ASSUME NEW k \in others PROVE buffer[k].pkt.isn = c
      OBVIOUS
    <3>1. k \in 1 .. i - 1
      BY <1>4, <1>5
    <3>2. ~ buffer[k].pkt.reply
      BY <3>1, <2>1
    <3> QED BY <3>2, <1>14
  <2>6. p.seq = (p.isn + SentUpto(i - 1, peers \ others)) % M
    BY <2>3, <1>7, <1>13, <1>20
  <2>7. \A k \in others : p.ack = (buffer[k].pkt.isn + SentUpto(i - 1, others)) % M
    BY <2>4, <2>5, <1>7, <1>13, <1>15, <1>20
  <2>8. others = {} => p.ack = 0
    BY <1>13, <1>17
  <2> QED BY <2>6, <2>7, <2>8 DEF Taken, p, M
<1> QED BY <1>19, <1>20

LEMMA ReadingAcceptable == ReadingInv /\ StreamsTold => TcpAcceptable
<1> SUFFICES ASSUME ReadingInv, StreamsTold, buffer # <<>>, buffer[1].id = 1,
                    NEW i \in DOMAIN buffer, buffer[i].pkt.proto = "tcp"
             PROVE  LET p == buffer[i].pkt
                        peers == {j \in 1 .. i - 1 : Same(buffer[j].pkt, p)}
                        others == {j \in peers : buffer[j].pkt.reply # p.reply}
                    IN  /\ p.seq = (p.isn + SentUpto(i - 1, peers \ others)) % (2 ^ SeqWidth)
                        /\ IF others = {} THEN p.ack = 0
                           ELSE \A j \in others :
                                  p.ack = (buffer[j].pkt.isn + SentUpto(i - 1, others)) % (2 ^ SeqWidth)
  BY DEF TcpAcceptable
<1> DEFINE peers == {j \in 1 .. i - 1 : Same(buffer[j].pkt, buffer[i].pkt)}
           others == {j \in peers : buffer[j].pkt.reply # buffer[i].pkt.reply}
<1>1. buffer \in Seq(Entries) /\ nextId \in Nat /\ NumberedUpTo(buffer, nextId)
  BY DEF ReadingInv, ReadingTypeOK
<1>2. i \in 1 .. Len(buffer) /\ 1 \in 1 .. Len(buffer) /\ Len(buffer) \in Nat
  BY <1>1
<1>3. NothingEvicted(buffer, nextId)
  <2>1. buffer[1].id = nextId - 1 - Len(buffer) + 1
    BY <1>1, <1>2 DEF NumberedUpTo
  <2>2. nextId = Len(buffer) + 1
    BY <2>1, <1>1, <1>2
  <2> QED BY <2>2 DEF NothingEvicted
<1>4. PICK w, c, s, C, S, X, Y, m : Segment(i, w, c, s, C, S, X, Y, m)
  BY <1>2, <1>3, SegmentFound
<1>5. Taken(i, peers, others)
  <2>1. /\ peers = {j \in 1 .. i - 1 : Same(buffer[j].pkt, buffer[i].pkt)}
        /\ others = {j \in peers : buffer[j].pkt.reply # buffer[i].pkt.reply}
    OBVIOUS
  <2> HIDE DEF peers, others
  <2> QED BY <2>1, <1>2, <1>4, SegmentTaken
<1> QED BY <1>5 DEF Taken

(* SegmentsAcceptable: a receiver that replays a capture from its beginning *)
(* takes every segment of every session in it: it starts where that side's  *)
(* last one ended, acknowledges all that the other side has sent, and its   *)
(* checksum adds up, however the sessions overlap.                         *)
THEOREM SegmentsTaken == SynthesisSpec => []SegmentsAcceptable
<1>1. SynthesisInit => ReadingInv /\ StreamsTold
  BY ReadingStarts, StreamsStart
<1>2. ReadingInv /\ StreamsTold /\ [SynthesisNext]_synthesisVars => (ReadingInv /\ StreamsTold)'
  BY ReadingStep, StreamsStep
<1>3. ReadingInv /\ StreamsTold => SegmentsAcceptable
  BY ReadingAcceptable, ReadingVerifies DEF SegmentsAcceptable
<1> QED BY <1>1, <1>2, <1>3, PTL DEF SynthesisSpec
=============================================================================
