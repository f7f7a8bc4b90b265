------------------------------ MODULE Capture -------------------------------
(***************************************************************************)
(* The packet capture: one simulator per server process, shared by all     *)
(* capture pages, its event streams, and the pages that start, stop and    *)
(* clear it.                                                               *)
(*                                                                         *)
(* services/packet-simulator.ts keeps module-level state and runs to the   *)
(* end of each call; its scheduler and every stream of                     *)
(* handlers/packets.handlers.ts are interval timers.  A capture page       *)
(* (packet-capture-page.tsx) awaits the answer of each request and goes on *)
(* with whatever the page has become meanwhile.                            *)
(*                                                                         *)
(* A packet is known by when it was made up: 1, 2, 3, ...; its protocol    *)
(* and bytes do not matter here.  An epoch is the time between two resets  *)
(* of the ids that captured packets are given.                             *)
(***************************************************************************)
EXTENDS Integers, FiniteSets, SequencesExt, Subsequences

CONSTANTS
  MaxPackets,   \* bound: packets that the simulator makes up
  Pages,        \* capture pages that are opened, each once
  Streams,      \* event streams that are opened, each once
  Cap,          \* capacity of the packet buffer (10000)
  Limit,        \* packets per stream message (50)
  MaxEpoch,     \* bound: resets of the ids
  None          \* no stream, no page

ASSUME CaptureAssumption ==
  /\ Cap \in Nat \ {0} /\ Limit \in Nat \ {0}
  /\ MaxPackets \in Nat /\ MaxEpoch \in Nat
  /\ None \notin Pages \cup Streams

VARIABLES
  capturing,    \* isCapturing
  timers,       \* scheduler intervals that are running
  counter,      \* packetIdCounter
  buffer,       \* packetBuffer
  pending,      \* scheduled, not yet captured
  epoch,        \* history: resets of the ids so far
  born,         \* history: the epoch in which each packet was made up
  stream,       \* stream -> its state on the server and what it has sent
  page          \* page -> the state of its component

server == <<capturing, timers, counter, buffer, pending, epoch, born>>
vars == <<server, stream, page>>

-----------------------------------------------------------------------------
Packets == 1 .. MaxPackets

Captured == [id : Nat \ {0}, pkt : Packets]

(* since: the epoch it was opened in; sent: how many packets it has sent,  *)
(* got: which; skipped: packets beyond the limit.                          *)
Stream == [status : {"new", "open", "closed"}, page : Pages \cup {None},
           lastId : Nat, since : Nat, sent : Nat, got : SUBSET Packets,
           skipped : SUBSET Packets]

(* starting and stopping count the requests whose answer is awaited. *)
Page == [status : {"new", "mounted", "gone"}, recording : BOOLEAN,
         ref : Streams \cup {None}, starting : Nat, stopping : Nat]

Init ==
  /\ capturing = FALSE
  /\ timers = 0
  /\ counter = 1
  /\ buffer = <<>>
  /\ pending = {}
  /\ epoch = 0
  /\ born = <<>>
  /\ stream = [s \in Streams |->
       [status |-> "new", page |-> None, lastId |-> 0, since |-> 0, sent |-> 0,
        got |-> {}, skipped |-> {}]]
  /\ page = [t \in Pages |->
       [status |-> "new", recording |-> FALSE, ref |-> None, starting |-> 0,
        stopping |-> 0]]

-----------------------------------------------------------------------------
(* packet-simulator.ts *)

(* The emitters put up to n new packets on the schedule, in epoch e. *)
Emitted(n) == Len(born) + 1 .. Len(born) + n

Emit(n, e) == born' = born \o [i \in 1 .. n |-> e]

Unused == 0 .. MaxPackets - Len(born)

LastOf(seq, n) ==
  IF Len(seq) <= n THEN seq ELSE SubSeq(seq, Len(seq) - n + 1, Len(seq))

(* push and shift, packet by packet. *)
PushAndShift(buf, ready) == LastOf(buf \o ready, Cap)

Numbered(ready) ==
  [i \in 1 .. Len(ready) |-> [id |-> counter + i - 1, pkt |-> ready[i]]]

(* One run of the scheduler: make up packets, capture those that are due. *)
Tick ==
  /\ timers > 0
  /\ capturing
  /\ \E n \in Unused : \E due \in SUBSET (pending \cup Emitted(n)) :
       /\ n > 0 \/ due # {}
       /\ Emit(n, epoch)
       /\ pending' = (pending \cup Emitted(n)) \ due
       /\ \E ready \in SetToSeqs(due) :
            buffer' = PushAndShift(buffer, Numbered(ready))
       /\ counter' = counter + Cardinality(due)
  /\ UNCHANGED <<capturing, timers, epoch, stream, page>>

(* Faulty variant: a capture that is running is started again. *)
StartAgain ==
  /\ epoch < MaxEpoch
  /\ capturing' = TRUE
  /\ counter' = 1
  /\ buffer' = <<>>
  /\ epoch' = epoch + 1
  /\ \E n \in Unused : pending' = Emitted(n) /\ Emit(n, epoch + 1)
  /\ timers' = timers + 1

(* startCapture of a capture that is running does nothing; otherwise it    *)
(* starts afresh and schedules a first burst.                              *)
StartCapture ==
  IF capturing THEN UNCHANGED server
  ELSE /\ epoch < MaxEpoch
       /\ capturing' = TRUE
       /\ counter' = 1
       /\ buffer' = <<>>
       /\ epoch' = epoch + 1
       /\ \E n \in Unused : pending' = Emitted(n) /\ Emit(n, epoch + 1)
       /\ timers' = timers + 1

(* clearInterval of the interval that is remembered, if there is one. *)
StopCapture ==
  /\ capturing' = FALSE
  /\ timers' = IF timers > 0 THEN timers - 1 ELSE 0
  /\ UNCHANGED <<counter, buffer, pending, epoch, born>>

(* Faulty variant: what is scheduled survives the clear. *)
ClearBufferOnly ==
  /\ epoch < MaxEpoch
  /\ buffer' = <<>>
  /\ counter' = 1
  /\ epoch' = epoch + 1
  /\ UNCHANGED <<capturing, timers, pending, born>>

ClearPackets ==
  /\ epoch < MaxEpoch
  /\ buffer' = <<>>
  /\ pending' = {}
  /\ counter' = 1
  /\ epoch' = epoch + 1
  /\ UNCHANGED <<capturing, timers, born>>

-----------------------------------------------------------------------------
(* streamPackets: every 300 ms, what came after the last packet sent. *)

(* Faulty variant: the last packet sent counts as newer. *)
NewerOrSame(since) == Picked(buffer, {i \in DOMAIN buffer : buffer[i].id >= since})

Newer(since) == Picked(buffer, {i \in DOMAIN buffer : buffer[i].id > since})

GetPackets(since, limit) == LastOf(Newer(since), limit)

PacketsOf(seq) == {seq[i].pkt : i \in DOMAIN seq}

LastIdOf(packets) == packets[Len(packets)].id

StreamTick(s) ==
  LET packets == GetPackets(stream[s].lastId, Limit) IN
  /\ stream[s].status = "open"
  /\ packets # <<>>
  /\ stream' = [stream EXCEPT ![s] =
       [stream[s] EXCEPT !.lastId = LastIdOf(packets),
                 !.sent = @ + Len(packets),
                 !.got = @ \cup PacketsOf(packets),
                 !.skipped = @ \cup (PacketsOf(Newer(stream[s].lastId))
                                       \ PacketsOf(packets))]]
  /\ UNCHANGED <<server, page>>

Closed(s) == [stream EXCEPT ![s].status = "closed"]

CloseRef(t) ==
  stream' = IF page[t].ref = None THEN stream ELSE Closed(page[t].ref)

-----------------------------------------------------------------------------
(* packet-capture-page.tsx *)

(* The page starts a capture when it is first mounted. *)
Mount(t) ==
  /\ page[t].status = "new"
  /\ StartCapture
  /\ page' = [page EXCEPT ![t] = [page[t] EXCEPT !.status = "mounted", !.starting = 1]]
  /\ UNCHANGED stream

(* The Start button shows until an answer to a start has arrived. *)
ClickStart(t) ==
  /\ page[t].status = "mounted"
  /\ ~ page[t].recording
  /\ page[t].starting + Cardinality({s \in Streams : stream[s].status # "new"})
       < Cardinality(Streams)
  /\ StartCapture
  /\ page' = [page EXCEPT ![t].starting = @ + 1]
  /\ UNCHANGED stream

(* The rest of startCapture: a stream of its own, whatever the page holds. *)
Started(t) ==
  /\ page[t].starting > 0
  /\ \E s \in Streams :
       /\ stream[s].status = "new"
       /\ stream' = [stream EXCEPT ![s] =
            [stream[s] EXCEPT !.status = "open", !.page = t, !.since = epoch]]
       /\ page' = [page EXCEPT ![t] =
            [page[t] EXCEPT !.recording = TRUE, !.ref = s, !.starting = @ - 1]]
  /\ UNCHANGED server

ClickStop(t) ==
  /\ page[t].status = "mounted"
  /\ page[t].recording
  /\ page[t].stopping = 0      \* bound: one stop is awaited at a time
  /\ StopCapture
  /\ page' = [page EXCEPT ![t].stopping = @ + 1]
  /\ UNCHANGED stream

Stopped(t) ==
  /\ page[t].stopping > 0
  /\ CloseRef(t)
  /\ page' = [page EXCEPT ![t] =
       [page[t] EXCEPT !.recording = FALSE, !.ref = None, !.stopping = @ - 1]]
  /\ UNCHANGED server

ClickClear(t) ==
  /\ page[t].status = "mounted"
  /\ ClearPackets
  /\ UNCHANGED <<stream, page>>

(* The answer never arrives: the await throws and nothing more is done. *)
AnswerLost(t) ==
  /\ \/ /\ page[t].starting > 0
        /\ page' = [page EXCEPT ![t].starting = @ - 1]
     \/ /\ page[t].stopping > 0
        /\ page' = [page EXCEPT ![t].stopping = @ - 1]
  /\ UNCHANGED <<server, stream>>

Unmount(t) ==
  /\ page[t].status = "mounted"
  /\ CloseRef(t)
  /\ page' = [page EXCEPT ![t] = [page[t] EXCEPT !.status = "gone", !.ref = None]]
  /\ UNCHANGED server

(* onerror closes the stream and forgets whichever stream the page holds. *)
StreamError(s) ==
  /\ stream[s].status = "open"
  /\ stream' = Closed(s)
  /\ page' = [page EXCEPT ![stream[s].page].ref = None]
  /\ UNCHANGED server

(* The process goes down with its module-level state; every stream breaks. *)
Crash ==
  /\ epoch < MaxEpoch
  /\ capturing' = FALSE
  /\ timers' = 0
  /\ counter' = 1
  /\ buffer' = <<>>
  /\ pending' = {}
  /\ epoch' = epoch + 1
  /\ stream' = [s \in Streams |->
       IF stream[s].status = "open" THEN [stream[s] EXCEPT !.status = "closed"]
       ELSE stream[s]]
  /\ page' = [t \in Pages |->
       IF \E s \in Streams : stream[s].status = "open" /\ stream[s].page = t
       THEN [page[t] EXCEPT !.ref = None] ELSE page[t]]
  /\ UNCHANGED born

PageStep(t) ==
  \/ Mount(t)
  \/ ClickStart(t)
  \/ Started(t)
  \/ ClickStop(t)
  \/ Stopped(t)
  \/ ClickClear(t)
  \/ AnswerLost(t)
  \/ Unmount(t)

Next ==
  \/ Tick
  \/ \E s \in Streams : StreamTick(s) \/ StreamError(s)
  \/ \E t \in Pages : PageStep(t)
  \/ Crash

Spec == Init /\ [][Next]_vars
-----------------------------------------------------------------------------
SimulatorTypeOK ==
  /\ capturing \in BOOLEAN
  /\ timers \in Nat
  /\ counter \in Nat \ {0}
  /\ buffer \in Seq(Captured)
  /\ pending \subseteq Packets
  /\ epoch \in 0 .. MaxEpoch
  /\ born \in Seq(0 .. MaxEpoch) /\ Len(born) <= MaxPackets

PagesTypeOK ==
  /\ stream \in [Streams -> Stream]
  /\ page \in [Pages -> Page]

(* However often pages start and stop it, the simulator runs one scheduler *)
(* while capturing and none otherwise (packet-simulator.ts:1284-1311).     *)
OneScheduler == timers = IF capturing THEN 1 ELSE 0

(* Packet numbers follow each other without gap, the newest is the one     *)
(* before the next to be given, and the buffer keeps to its capacity,      *)
(* across starts, clears and evictions (packet-simulator.ts:1274-1318).    *)
BufferNumbered ==
  /\ Len(buffer) <= Cap
  /\ \A i \in DOMAIN buffer : buffer[i].id = counter - Len(buffer) + i - 1

(* No packet that an earlier capture scheduled turns up in a later one.    *)
NoStalePackets ==
  \A p \in pending \cup PacketsOf(buffer) : born[p] = epoch

(* What the capture holds is its own, and numbered as a page expects.      *)
BufferSound == SimulatorTypeOK /\ BufferNumbered /\ NoStalePackets

(* A stream that was opened since the numbers were last reset misses no    *)
(* buffered packet but those beyond the limit (packets.handlers.ts:32-39); *)
(* an older one is deaf until the numbers pass its lastId.                 *)
SkipsExplained ==
  \A s \in Streams : \A i \in DOMAIN buffer :
    /\ stream[s].status = "open"
    /\ stream[s].since = epoch
    /\ buffer[i].id <= stream[s].lastId
    => buffer[i].pkt \in stream[s].got \cup stream[s].skipped

(* A stream never sends a packet twice, whatever is cleared, started again *)
(* and evicted between its ticks (packets.handlers.ts:33-39).              *)
StreamNeverRepeats ==
  \A s \in Streams : stream[s].sent = Cardinality(stream[s].got)

(* A stream sends each packet at most once, and leaves out none but those  *)
(* that its limit or a reset of the numbers explains.                      *)
StreamsExact == PagesTypeOK /\ StreamNeverRepeats /\ SkipsExplained

(* "Stop; the system closes the stream" (uc-paket-mitschnitt.md:44): a     *)
(* page that is not recording and awaits nothing has no open stream.       *)
StopClosesStream ==
  \A t \in Pages :
    ~ page[t].recording /\ page[t].starting = 0 =>
      \A s \in Streams : stream[s].page = t => stream[s].status # "open"
=============================================================================
