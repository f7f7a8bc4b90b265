----------------------------- MODULE Synthesis ------------------------------
(***************************************************************************)
(* What the simulated capture is made of (services/packet-simulator.ts):   *)
(* sessions are planned whole, each packet with the time it is due, and    *)
(* the scheduler puts what is due into the buffer.  Module Capture has the *)
(* lifecycle of the simulator and its readers; here it is the conversation *)
(* that counts: headers, numbers and their order.                          *)
(*                                                                         *)
(* Sequence numbers have SeqWidth bits, checksummed words two digits of    *)
(* base Digit.  Random delays are one unit of time, a round trip is two.   *)
(***************************************************************************)
EXTENDS Integers, Sequences, SequencesExt, FiniteSets, StableSort, Subsequences

CONSTANTS
  ClientHost, LocalServer, Gateway, WebServer, Resolver,   \* picked hosts
  Multicast,    \* a multicast or broadcast address
  SeqWidth, Digit,
  Isns,         \* initial sequence numbers that are drawn
  Rounds,       \* numbers of requests in a web session
  BufferCap,    \* packets kept (10000)
  MaxTime, MaxSessions, LastStart     \* bounds: ticks, sessions, and when they begin

ASSUME SynthesisAssumption ==
  /\ SeqWidth \in Nat \ {0} /\ Digit \in Nat \ {0, 1}
  /\ Isns \subseteq 0 .. 2 ^ SeqWidth - 1
  /\ BufferCap \in Nat \ {0} /\ MaxTime \in Nat /\ MaxSessions \in Nat
  /\ Rounds \subseteq Nat \ {0} /\ LastStart \in Nat

VARIABLES
  now,         \* Date.now()
  capturing,   \* isCapturing
  pending,     \* planned packets, in the order they were scheduled
  buffer,      \* packetBuffer
  nextId,      \* packetIdCounter
  begun        \* number of sessions begun since the start of time

synthesisVars == <<now, capturing, pending, buffer, nextId, begun>>

-----------------------------------------------------------------------------
(* Checksums, over the digits that go on the wire. *)

(* The carry goes around until there is none; each fold lowers the sum.    *)
FoldCarry(sum) ==
  LET Folded[k \in 0 .. sum] ==
        IF k = 0 THEN sum
        ELSE LET n == Folded[k - 1]
             IN  IF n < Digit * Digit THEN n ELSE (n % (Digit * Digit)) + n \div (Digit * Digit)
  IN  Folded[sum]

(* Words of two digits; an odd last digit is the high half of a word. *)
WordSum(bytes) ==
  LET Upto[k \in 0 .. Len(bytes)] ==
        IF k = 0 THEN 0 ELSE Upto[k - 1] + bytes[k] * (IF k % 2 = 1 THEN Digit ELSE 1)
  IN  Upto[Len(bytes)]

OnesComplement(bytes) == Digit * Digit - 1 - FoldCarry(WordSum(bytes))

(* Header with a zero checksum, then the same with the checksum; UDP turns *)
(* a checksum of zero into all ones.                                       *)
Sealed(before, after, udp) ==
  LET plain == OnesComplement(before \o <<0, 0>> \o after)
      sum == IF udp /\ plain = 0 THEN Digit * Digit - 1 ELSE plain
  IN  before \o <<sum \div Digit, sum % Digit>> \o after

-----------------------------------------------------------------------------
Stations == {ClientHost, LocalServer, Gateway}

(* Frames to and from the outside carry the gateway's hardware address. *)
NextHopMacs(src, dst) ==
  <<IF src \in Stations THEN src ELSE Gateway,
    IF src \in Stations /\ dst \notin Stations THEN Gateway ELSE dst>>

(* A packet as planned: ctl is what SYN and FIN consume, data the digits   *)
(* of its payload, tag what request and reply have in common (ports and    *)
(* transaction id).                                                        *)
Packet(proto, src, dst, tag, reply) ==
  [proto |-> proto, src |-> src, dst |-> dst, tag |-> tag, reply |-> reply,
   macs |-> IF dst = Multicast THEN <<src, Multicast>> ELSE NextHopMacs(src, dst),
   seq |-> 0, ack |-> 0, ctl |-> 0, data |-> <<>>, isn |-> 0]

Plan(at, p) == [at |-> at, pkt |-> p]

(* emitDnsLookup, emitArpExchange, NTP: a question and its answer. *)
Exchange(proto, at, asker, target, tag) ==
  <<Plan(at, Packet(proto, asker, target, tag, FALSE)),
    Plan(at + 2, Packet(proto, target, asker, tag, TRUE))>>

(* An ARP request goes to everybody. *)
ArpExchange(at, asker, target, tag) ==
  LET e == Exchange("arp", at, asker, target, tag)
  IN  <<[e[1] EXCEPT !.pkt.macs = <<asker, Multicast>>], e[2]>>

(* emitPingSession: echoes one after the other (two, for the code's three  *)
(* to five).                                                               *)
PingSession(at, src, dst, tag) ==
  Exchange("icmp", at, src, dst, <<tag, 1>>) \o Exchange("icmp", at + 3, src, dst, <<tag, 2>>)

(* emitDhcpDora: the client's messages are broadcast. *)
DhcpDora(at, client, tag) ==
  [k \in 1 .. 4 |->
     Plan(at + k - 1,
          IF k % 2 = 1 THEN Packet("dhcp", client, Multicast, tag, FALSE)
          ELSE Packet("dhcp", Gateway, client, tag, TRUE))]

(* NTP is answered; SNMP, OSPF, STP, LLDP, mDNS and SSDP packets are not. *)
Single(proto, at, src, dst, tag) == <<Plan(at, Packet(proto, src, dst, tag, FALSE))>>

-----------------------------------------------------------------------------
(* emitWebSession, as a script of segments: who sends, how long after the  *)
(* segment before, what SYN or FIN consumes, how much payload.             *)
Seg(client, gap, ctl, len) == [client |-> client, gap |-> gap, ctl |-> ctl, len |-> len]

Handshake == <<Seg(TRUE, 0, 1, 0), Seg(FALSE, 1, 1, 0), Seg(TRUE, 1, 0, 0)>>
TlsHello == <<Seg(TRUE, 1, 0, 1), Seg(FALSE, 2, 0, 2), Seg(TRUE, 1, 0, 0)>>
HttpRound == <<Seg(TRUE, 1, 0, 2), Seg(FALSE, 2, 0, 0), Seg(FALSE, 1, 0, 1), Seg(TRUE, 1, 0, 0)>>
Teardown == <<Seg(TRUE, 1, 1, 0), Seg(FALSE, 1, 1, 0), Seg(TRUE, 1, 0, 0)>>

(* The first round of a secure session is the TLS handshake. *)
Script(secure, rounds) ==
  LET Upto[i \in 0 .. rounds] ==
        IF i = 0 THEN Handshake
        ELSE Upto[i - 1] \o (IF secure /\ i = 1 THEN TlsHello ELSE HttpRound)
  IN  Upto[rounds] \o Teardown

(* Faulty variant: SYN and FIN do not count. *)
PayloadOnly(s) == s.len

Consumed(s) == s.len + s.ctl

(* cSeq, sSeq and the clock after k segments: both numbers advance with    *)
(* what was sent, and wrap.                                                *)
WebSession(at, client, server, secure, rounds, cIsn, sIsn, tag) ==
  LET script == Script(secure, rounds)
      Wrap(n) == n % (2 ^ SeqWidth)
      After[k \in 0 .. Len(script)] ==
        IF k = 0 THEN [t |-> at, c |-> cIsn, s |-> sIsn]
        ELSE LET b == After[k - 1]
                 g == script[k]
             IN  [t |-> b.t + g.gap,
                  c |-> IF g.client THEN Wrap(b.c + Consumed(g)) ELSE b.c,
                  s |-> IF g.client THEN b.s ELSE Wrap(b.s + Consumed(g))]
      Segment(g, b, first) ==
        [Packet("tcp", IF g.client THEN client ELSE server,
                IF g.client THEN server ELSE client, tag, ~ g.client)
           EXCEPT !.seq = IF g.client THEN b.c ELSE b.s,
                  !.ack = IF first THEN 0 ELSE IF g.client THEN b.s ELSE b.c,
                  !.ctl = g.ctl, !.data = [i \in 1 .. g.len |-> i % Digit],
                  !.isn = IF g.client THEN cIsn ELSE sIsn]
  IN  [k \in DOMAIN script |-> Plan(After[k].t, Segment(script[k], After[k - 1], k = 1))]

(* startUserSession: the web outside after a DNS lookup, a local server, a *)
(* ping, or multicast discovery.                                           *)
UserSessions(at, tag) ==
  LET Web(t, server, secure) ==
        {WebSession(t, ClientHost, server, secure, n, i, j, tag) :
           n \in Rounds, i \in Isns, j \in Isns}
      lookup == Exchange("dns", at, ClientHost, Resolver, <<tag, 0>>)
  IN  {lookup \o w : w \in Web(at + 3, WebServer, TRUE)}
        \cup (UNION {Web(at, LocalServer, s) : s \in BOOLEAN})
        \cup {PingSession(at, ClientHost, d, tag) : d \in {Gateway, WebServer}}
        \cup {Single("mdns", at, ClientHost, Multicast, tag)}

(* The periodic emitters of tick(), when due() says so. *)
Periodic(at, tag) ==
  {Single("stp", at, Gateway, Multicast, tag), Single("snmp", at, Gateway, LocalServer, tag),
   Exchange("ntp", at, ClientHost, Gateway, tag), ArpExchange(at, ClientHost, Gateway, tag),
   DhcpDora(at, ClientHost, tag)}

-----------------------------------------------------------------------------
SynthesisInit ==
  /\ now = 0 /\ capturing = FALSE /\ pending = <<>> /\ buffer = <<>>
  /\ nextId = 1 /\ begun = 0

(* Stable sort by due time. *)
ByTime(plans) == SortedBy(plans, LAMBDA plan : plan.at)

Kept(packets) ==
  IF Len(packets) <= BufferCap THEN packets
  ELSE SubSeq(packets, Len(packets) - BufferCap + 1, Len(packets))

(* What is due at time t gets its number and goes into the buffer. *)
Flush(planned, t) ==
  LET due == {i \in DOMAIN planned : planned[i].at <= t}
      ready == ByTime(Picked(planned, due))
      numbered == [k \in DOMAIN ready |->
                    [id |-> nextId + k - 1, at |-> ready[k].at, pkt |-> ready[k].pkt]]
  IN  /\ pending' = Picked(planned, DOMAIN planned \ due)
      /\ buffer' = Kept(buffer \o numbered)
      /\ nextId' = nextId + Len(ready)

(* What a tick may begin: a user session now or up to a scheduler period   *)
(* later, control traffic at once.                                         *)
Arrivals(t, tag) ==
  (UNION {UserSessions(t + delay, tag) : delay \in 0 .. 1}) \cup Periodic(t, tag)

(* tick, on time or late, begins none, one, or several sessions at once    *)
(* (two here, for the code's burst of up to nine).                         *)
Tick(t) ==
  /\ capturing
  /\ now < MaxTime /\ now' = t
  /\ \/ begun' = begun /\ Flush(pending, t)
     \/ /\ begun < MaxSessions /\ now <= LastStart
        /\ begun' = begun + 1
        /\ \E s \in Arrivals(t, begun) : Flush(pending \o s, t)
     \/ /\ begun + 1 < MaxSessions /\ now <= LastStart
        /\ begun' = begun + 2
        /\ \E s \in Arrivals(t, begun), r \in Arrivals(t, begun + 1) :
             Flush((pending \o s) \o r, t)
  /\ UNCHANGED capturing

(* startCapture also plans a first burst; the ticks after it do that.      *)
Start ==
  /\ ~ capturing
  /\ capturing' = TRUE
  /\ pending' = <<>> /\ buffer' = <<>> /\ nextId' = 1
  /\ UNCHANGED <<now, begun>>

Stop == capturing /\ capturing' = FALSE /\ UNCHANGED <<now, pending, buffer, nextId, begun>>

(* Faulty variant: what was planned before stays planned. *)
KeepPlans ==
  /\ buffer' = <<>> /\ nextId' = 1
  /\ UNCHANGED <<now, capturing, pending, begun>>

ClearPackets ==
  /\ buffer' = <<>> /\ pending' = <<>> /\ nextId' = 1
  /\ UNCHANGED <<now, capturing, begun>>

SynthesisNext == (\E late \in 1 .. 2 : Tick(now + late)) \/ Start \/ Stop \/ ClearPackets

SynthesisSpec == SynthesisInit /\ [][SynthesisNext]_synthesisVars

-----------------------------------------------------------------------------
(* The capture reads like one: numbers without a gap, times that never go  *)
(* back, however many sessions overlap.                                    *)
CaptureInTimeOrder ==
  \A i \in 2 .. Len(buffer) :
    buffer[i].id = buffer[i - 1].id + 1 /\ buffer[i].at >= buffer[i - 1].at

Same(p, q) == p.proto = q.proto /\ p.tag = q.tag

(* No answer without its question: a reply in the buffer follows a request *)
(* of the same exchange, from the host that is answered, unless the oldest *)
(* packets were evicted.                                                   *)
RepliesFollowRequests ==
  buffer # <<>> /\ buffer[1].id = 1 =>
    \A i \in DOMAIN buffer :
      buffer[i].pkt.reply =>
        \E j \in 1 .. i - 1 :
          /\ Same(buffer[j].pkt, buffer[i].pkt)
          /\ ~ buffer[j].pkt.reply
          /\ buffer[j].pkt.src = buffer[i].pkt.dst

(* Overlapping sessions come out as one capture in the order of time.      *)
CaptureReadsInOrder == CaptureInTimeOrder /\ RepliesFollowRequests

(* What the packets at these places, among the first n of the buffer, use  *)
(* up of the sequence numbers of those who send them.                      *)
Used(p) == Len(p.data) + p.ctl
SentUpto(n, places) ==
  LET Upto[k \in 0 .. n] ==
        IF k = 0 THEN 0 ELSE Upto[k - 1] + (IF k \in places THEN Used(buffer[k].pkt) ELSE 0)
  IN  Upto[n]

(* A receiver that replays a TCP session finds each segment where the last *)
(* one of that side ended, and acknowledging all the other side has sent.  *)
TcpAcceptable ==
  buffer # <<>> /\ buffer[1].id = 1 =>
    \A i \in DOMAIN buffer :
      LET p == buffer[i].pkt
          peers == {j \in 1 .. i - 1 : Same(buffer[j].pkt, p)}
          others == {j \in peers : buffer[j].pkt.reply # p.reply}
      IN  p.proto = "tcp" =>
            /\ p.seq = (p.isn + SentUpto(i - 1, peers \ others)) % (2 ^ SeqWidth)
            /\ IF others = {} THEN p.ack = 0
               ELSE \A j \in others :
                      p.ack = (buffer[j].pkt.isn + SentUpto(i - 1, others)) % (2 ^ SeqWidth)

(* The digits of a segment, pseudo header included, add up to all ones, as *)
(* the receiver checks them: odd payloads and carries included.            *)
ChecksumsVerify ==
  \A e \in Range(buffer), udp \in BOOLEAN :
    LET head == <<e.pkt.seq % Digit, e.pkt.ack % Digit, e.pkt.ctl, Len(e.pkt.data) % Digit>>
    IN  FoldCarry(WordSum(Sealed(head, e.pkt.data, udp))) = Digit * Digit - 1

(* A receiver takes every segment: numbers, acknowledgements and checksums *)
(* are right.                                                              *)
SegmentsAcceptable == TcpAcceptable /\ ChecksumsVerify
=============================================================================
