--------------------------- MODULE Capture_proofs ---------------------------
(***************************************************************************)
(* What the simulator behind the capture pages holds, and what the event   *)
(* streams send of it (module Capture): for any number of pages and        *)
(* streams, any buffer and any number of packets.                          *)
(***************************************************************************)
EXTENDS Capture, Algorithms_proofs, TLAPS

(* What is scheduled or captured has been made up. *)
PacketsMadeUp == pending \cup PacketsOf(buffer) \subseteq DOMAIN born

SimulatorInv == OneScheduler /\ BufferSound /\ PacketsMadeUp

-----------------------------------------------------------------------------
(* The packets that are due, in some order. *)
LEMMA ReadyIsDue ==
  ASSUME NEW due \in SUBSET Packets, NEW ready \in SetToSeqs(due)
  PROVE  /\ Cardinality(due) \in Nat
         /\ ready \in Seq(due) /\ ready \in Seq(Packets) /\ Len(ready) = Cardinality(due)
<1>1. IsFiniteSet(Packets)
  BY CaptureAssumption, FS_Interval DEF Packets
<1>2. Cardinality(due) \in Nat
  BY <1>1, FS_Subset, FS_CardinalityType
<1>3. ready \in [1 .. Cardinality(due) -> due]
  BY DEF SetToSeqs
<1> QED BY <1>2, <1>3

(* The end of a sequence that is kept. *)
LEMMA LastOfEnd ==
  ASSUME NEW S, NEW seq \in Seq(S), NEW n \in Nat \ {0}
  PROVE  /\ LastOf(seq, n) \in Seq(S)
         /\ Len(LastOf(seq, n)) <= n /\ Len(LastOf(seq, n)) <= Len(seq)
         /\ \A i \in DOMAIN LastOf(seq, n) :
              /\ i + Len(seq) - Len(LastOf(seq, n)) \in DOMAIN seq
              /\ LastOf(seq, n)[i] = seq[i + Len(seq) - Len(LastOf(seq, n))]
<1>1. Len(seq) \in Nat /\ DOMAIN seq = 1 .. Len(seq)
  OBVIOUS
<1>2. CASE Len(seq) <= n
  BY <1>1, <1>2 DEF LastOf
<1>3. CASE Len(seq) > n
  <2>1. LastOf(seq, n) = SubSeq(seq, Len(seq) - n + 1, Len(seq))
    BY <1>1, <1>3 DEF LastOf
  <2>2. \A i \in Len(seq) - n + 1 .. Len(seq) : seq[i] \in S
    BY <1>1, <1>3
  <2>3. /\ LastOf(seq, n) \in Seq(S) /\ Len(LastOf(seq, n)) = n
        /\ \A i \in 1 .. n : LastOf(seq, n)[i] = seq[Len(seq) - n + i]
    BY <1>1, <1>3, <2>1, <2>2, SubSeqProperties
  <2> QED BY <1>1, <1>3, <2>3
<1> QED BY <1>1, <1>2, <1>3

(* New packets carry the epoch in which they are made up. *)
LEMMA EmitBorn ==
  ASSUME SimulatorTypeOK, NEW n \in Unused, NEW e \in 0 .. MaxEpoch, Emit(n, e)
  PROVE  /\ born' \in Seq(0 .. MaxEpoch) /\ Len(born') <= MaxPackets
         /\ Emitted(n) \subseteq Packets /\ Emitted(n) \subseteq DOMAIN born'
         /\ DOMAIN born \subseteq DOMAIN born'
         /\ \A p \in Emitted(n) : born'[p] = e
         /\ \A p \in DOMAIN born : born'[p] = born[p]
<1>1. /\ Len(born) \in Nat /\ n \in Nat /\ Len(born) + n <= MaxPackets
      /\ MaxPackets \in Nat /\ DOMAIN born = 1 .. Len(born)
  BY CaptureAssumption DEF SimulatorTypeOK, Unused
<1> DEFINE more == [i \in 1 .. n |-> e]
<1>2. more \in Seq(0 .. MaxEpoch) /\ Len(more) = n /\ \A i \in 1 .. n : more[i] = e
  BY <1>1
<1> HIDE DEF more
<1>3. born' = born \o more
  BY DEF Emit, more
<1>4. /\ born' \in Seq(0 .. MaxEpoch) /\ Len(born') = Len(born) + n
      /\ \A i \in 1 .. Len(born) + n :
           born'[i] = IF i <= Len(born) THEN born[i] ELSE more[i - Len(born)]
  BY <1>1, <1>2, <1>3, ConcatProperties DEF SimulatorTypeOK
<1>5. Emitted(n) = Len(born) + 1 .. Len(born) + n
  BY DEF Emitted
<1>6. DOMAIN born' = 1 .. Len(born) + n
  BY <1>1, <1>4
<1>7. \A p \in Emitted(n) : p \in 1 .. Len(born) + n /\ ~ (p <= Len(born)) /\ p - Len(born) \in 1 .. n
  BY <1>1, <1>5
<1> QED BY <1>1, <1>2, <1>4, <1>5, <1>6, <1>7 DEF Packets

-----------------------------------------------------------------------------
LEMMA InitInv == Init => SimulatorInv
<1> SUFFICES ASSUME Init PROVE SimulatorInv
  OBVIOUS
<1>1. PacketsOf(buffer) = {} /\ DOMAIN buffer = {} /\ Len(buffer) = 0
  BY DEF Init, PacketsOf
<1>2. SimulatorTypeOK
  <2>1. capturing \in BOOLEAN /\ pending \subseteq Packets
    BY DEF Init
  <2>2. timers \in Nat /\ counter \in Nat \ {0} /\ epoch \in 0 .. MaxEpoch
    BY CaptureAssumption DEF Init
  <2>3. buffer \in Seq(Captured) /\ born \in Seq(0 .. MaxEpoch) /\ Len(born) = 0
    BY DEF Init
  <2> QED BY <2>1, <2>2, <2>3, CaptureAssumption DEF SimulatorTypeOK
<1>3. OneScheduler
  BY DEF Init, OneScheduler
<1>4. BufferNumbered
  BY <1>1, CaptureAssumption DEF BufferNumbered
<1>5. NoStalePackets /\ PacketsMadeUp
  BY <1>1 DEF Init, NoStalePackets, PacketsMadeUp
<1> QED BY <1>2, <1>3, <1>4, <1>5 DEF SimulatorInv, BufferSound

(* One run of the scheduler. *)
LEMMA TickKeepsInv == ASSUME SimulatorInv, Tick PROVE SimulatorInv'
<1> USE DEF SimulatorInv, BufferSound
<1>0. PICK n \in Unused : \E due \in SUBSET (pending \cup Emitted(n)) :
        /\ Emit(n, epoch)
        /\ pending' = (pending \cup Emitted(n)) \ due
        /\ \E ready \in SetToSeqs(due) : buffer' = PushAndShift(buffer, Numbered(ready))
        /\ counter' = counter + Cardinality(due)
  BY DEF Tick
<1>1. PICK due \in SUBSET (pending \cup Emitted(n)) :
        /\ Emit(n, epoch)
        /\ pending' = (pending \cup Emitted(n)) \ due
        /\ \E ready \in SetToSeqs(due) : buffer' = PushAndShift(buffer, Numbered(ready))
        /\ counter' = counter + Cardinality(due)
  BY <1>0
<1>2. /\ born' \in Seq(0 .. MaxEpoch) /\ Len(born') <= MaxPackets
      /\ Emitted(n) \subseteq Packets /\ Emitted(n) \subseteq DOMAIN born'
      /\ DOMAIN born \subseteq DOMAIN born'
      /\ \A p \in Emitted(n) : born'[p] = epoch
      /\ \A p \in DOMAIN born : born'[p] = born[p]
  BY <1>1, EmitBorn DEF SimulatorTypeOK
<1>3. due \in SUBSET Packets
  BY <1>1, <1>2 DEF SimulatorTypeOK
<1>4. PICK ready \in SetToSeqs(due) : buffer' = PushAndShift(buffer, Numbered(ready))
  BY <1>1
<1>5. /\ Cardinality(due) \in Nat
      /\ ready \in Seq(due) /\ ready \in Seq(Packets) /\ Len(ready) = Cardinality(due)
  BY <1>3, ReadyIsDue
<1> DEFINE k == Cardinality(due)
           more == Numbered(ready)
           full == buffer \o more
<1>6. /\ counter \in Nat \ {0} /\ buffer \in Seq(Captured) /\ Len(buffer) \in Nat /\ k \in Nat
      /\ Cap \in Nat \ {0}
  BY <1>5, CaptureAssumption DEF SimulatorTypeOK
<1> HIDE DEF k
<1>7. /\ more \in Seq(Captured) /\ Len(more) = k
      /\ \A i \in 1 .. k : more[i].id = counter + i - 1 /\ more[i].pkt = ready[i]
  <2>1. Len(ready) = k
    BY <1>5 DEF k
  <2>2. \A i \in 1 .. k : [id |-> counter + i - 1, pkt |-> ready[i]] \in Captured
    BY <1>5, <1>6, <2>1 DEF Captured
  <2> QED BY <1>6, <2>1, <2>2 DEF Numbered
<1> HIDE DEF more
<1>8. /\ full \in Seq(Captured) /\ Len(full) = Len(buffer) + k
      /\ \A i \in 1 .. Len(buffer) + k :
           full[i] = IF i <= Len(buffer) THEN buffer[i] ELSE more[i - Len(buffer)]
  BY <1>6, <1>7, ConcatProperties
<1>9. buffer' = LastOf(full, Cap)
  BY <1>4 DEF PushAndShift, more
<1> HIDE DEF full
<1>10. \A i \in 1 .. Len(full) : full[i].id = counter + k - Len(full) + i - 1
  <2> SUFFICES ASSUME NEW i \in 1 .. Len(full)
               PROVE  full[i].id = counter + k - Len(full) + i - 1
    OBVIOUS
  <2>1. CASE i <= Len(buffer)
    <3>1. i \in DOMAIN buffer
      BY <1>6, <1>8, <2>1
    <3>2. buffer[i].id = counter - Len(buffer) + i - 1
      BY <3>1 DEF BufferNumbered
    <3>3. full[i] = buffer[i]
      BY <1>6, <1>8, <2>1
    <3> QED BY <1>6, <1>8, <3>2, <3>3
  <2>2. CASE i > Len(buffer)
    <3>1. i - Len(buffer) \in 1 .. k /\ full[i] = more[i - Len(buffer)]
      BY <1>6, <1>8, <2>2
    <3>2. full[i].id = counter + (i - Len(buffer)) - 1
      BY <1>7, <3>1
    <3> QED BY <1>6, <1>8, <3>2
  <2> QED BY <1>6, <1>8, <2>1, <2>2
<1>11. \A i \in 1 .. Len(full) : full[i].pkt \in PacketsOf(buffer) \cup due
  <2> SUFFICES ASSUME NEW i \in 1 .. Len(full)
               PROVE  full[i].pkt \in PacketsOf(buffer) \cup due
    OBVIOUS
  <2>1. CASE i <= Len(buffer)
    BY <1>6, <1>8, <2>1 DEF PacketsOf
  <2>2. CASE i > Len(buffer)
    <3>1. i - Len(buffer) \in 1 .. k /\ full[i] = more[i - Len(buffer)]
      BY <1>6, <1>8, <2>2
    <3>2. ready[i - Len(buffer)] \in due
      BY <1>5, <3>1 DEF k
    <3> QED BY <1>7, <3>1, <3>2
  <2> QED BY <1>6, <1>8, <2>1, <2>2
<1>12. /\ buffer' \in Seq(Captured) /\ Len(buffer') \in Nat /\ Len(buffer') <= Cap
       /\ \A i \in DOMAIN buffer' :
            /\ i + Len(full) - Len(buffer') \in 1 .. Len(full)
            /\ buffer'[i] = full[i + Len(full) - Len(buffer')]
  BY <1>6, <1>8, <1>9, LastOfEnd
<1>13. counter' = counter + k
  BY <1>1 DEF k
<1>14. BufferNumbered'
  <2> SUFFICES ASSUME NEW i \in DOMAIN buffer'
               PROVE  buffer'[i].id = counter' - Len(buffer') + i - 1
    BY <1>12 DEF BufferNumbered
  <2>1. buffer'[i].id = counter + k - Len(full) + (i + Len(full) - Len(buffer')) - 1
    BY <1>10, <1>12
  <2>2. Len(full) \in Nat /\ i \in Nat
    BY <1>6, <1>8, <1>12
  <2> QED BY <1>6, <1>12, <1>13, <2>1, <2>2
<1>15. PacketsOf(buffer') \subseteq PacketsOf(buffer) \cup due
  BY <1>11, <1>12 DEF PacketsOf
<1>16. pending' \cup PacketsOf(buffer') \subseteq pending \cup PacketsOf(buffer) \cup Emitted(n)
  BY <1>1, <1>15
<1>17. PacketsMadeUp' /\ NoStalePackets'
  <2>1. epoch' = epoch
    BY DEF Tick
  <2>2. ASSUME NEW p \in pending \cup PacketsOf(buffer)
        PROVE  p \in DOMAIN born' /\ born'[p] = epoch
    BY <1>2 DEF PacketsMadeUp, NoStalePackets
  <2>3. \A p \in pending' \cup PacketsOf(buffer') : p \in DOMAIN born' /\ born'[p] = epoch
    BY <1>2, <1>16, <2>2
  <2>4. PacketsOf(buffer)' = PacketsOf(buffer')
    BY DEF PacketsOf
  <2> QED BY <2>1, <2>3, <2>4 DEF PacketsMadeUp, NoStalePackets
<1>18. SimulatorTypeOK'
  BY <1>1, <1>2, <1>6, <1>12, <1>13 DEF Tick, SimulatorTypeOK
<1>19. OneScheduler'
  BY DEF Tick, OneScheduler
<1> QED BY <1>14, <1>17, <1>18, <1>19

(* Starting, stopping and clearing, and a restart of the process.          *)
LEMMA StartKeepsInv == ASSUME SimulatorInv, StartCapture PROVE SimulatorInv'
<1> USE DEF SimulatorInv, BufferSound
<1>1. CASE UNCHANGED server
  BY <1>1 DEF server, OneScheduler, SimulatorTypeOK, BufferNumbered, NoStalePackets,
              PacketsMadeUp, PacketsOf
<1>2. CASE ~ capturing
  <2>1. PICK n \in Unused : pending' = Emitted(n) /\ Emit(n, epoch + 1)
    BY <1>2 DEF StartCapture
  <2>2. /\ capturing' = TRUE /\ counter' = 1 /\ buffer' = <<>>
        /\ epoch' = epoch + 1 /\ epoch < MaxEpoch /\ timers' = timers + 1
    BY <1>2 DEF StartCapture
  <2>3. epoch + 1 \in 0 .. MaxEpoch /\ timers = 0
    BY <1>2, <2>2, CaptureAssumption DEF SimulatorTypeOK, OneScheduler
  <2>4. /\ born' \in Seq(0 .. MaxEpoch) /\ Len(born') <= MaxPackets
        /\ Emitted(n) \subseteq Packets /\ Emitted(n) \subseteq DOMAIN born'
        /\ \A p \in Emitted(n) : born'[p] = epoch + 1
    BY <2>1, <2>3, EmitBorn
  <2>5. PacketsOf(buffer)' = {} /\ buffer' \in Seq(Captured) /\ Len(buffer') = 0
        /\ DOMAIN buffer' = {}
    BY <2>2 DEF PacketsOf
  <2>6. SimulatorTypeOK'
    BY <2>1, <2>2, <2>3, <2>4, <2>5 DEF SimulatorTypeOK
  <2>7. OneScheduler'
    BY <2>2, <2>3 DEF OneScheduler
  <2>8. BufferNumbered' /\ NoStalePackets' /\ PacketsMadeUp'
    BY <2>1, <2>2, <2>4, <2>5, CaptureAssumption
       DEF BufferNumbered, NoStalePackets, PacketsMadeUp
  <2> QED BY <2>6, <2>7, <2>8
<1> QED BY <1>1, <1>2 DEF StartCapture

LEMMA ResetKeepsInv ==
  ASSUME SimulatorInv, epoch < MaxEpoch, buffer' = <<>>, pending' = {}, counter' = 1,
         epoch' = epoch + 1, UNCHANGED born,
         \/ UNCHANGED <<capturing, timers>>
         \/ capturing' = FALSE /\ timers' = 0
  PROVE  SimulatorInv'
<1> USE DEF SimulatorInv, BufferSound
<1>1. epoch + 1 \in 0 .. MaxEpoch
  BY CaptureAssumption DEF SimulatorTypeOK
<1>2. PacketsOf(buffer)' = {} /\ buffer' \in Seq(Captured) /\ Len(buffer') = 0
      /\ DOMAIN buffer' = {}
  BY DEF PacketsOf
<1>3. OneScheduler' /\ timers' \in Nat /\ capturing' \in BOOLEAN
  <2>1. CASE UNCHANGED <<capturing, timers>>
    BY <2>1 DEF OneScheduler, SimulatorTypeOK
  <2>2. CASE capturing' = FALSE /\ timers' = 0
    BY <2>2 DEF OneScheduler
  <2> QED BY <2>1, <2>2
<1> QED
  BY <1>1, <1>2, <1>3, CaptureAssumption DEF SimulatorTypeOK, BufferNumbered, NoStalePackets,
                                             PacketsMadeUp

LEMMA StopKeepsInv == ASSUME SimulatorInv, StopCapture PROVE SimulatorInv'
<1> USE DEF SimulatorInv, BufferSound
<1>1. timers \in {0, 1}
  BY DEF OneScheduler
<1>2. capturing' = FALSE /\ timers' = 0 /\ UNCHANGED <<counter, buffer, pending, epoch, born>>
  BY <1>1 DEF StopCapture
<1>3. OneScheduler'
  BY <1>2 DEF OneScheduler
<1>4. SimulatorTypeOK'
  BY <1>2 DEF SimulatorTypeOK
<1>5. BufferNumbered' /\ NoStalePackets' /\ PacketsMadeUp'
  BY <1>2 DEF BufferNumbered, NoStalePackets, PacketsMadeUp, PacketsOf
<1> QED BY <1>3, <1>4, <1>5

LEMMA PagesKeepInv == ASSUME SimulatorInv, UNCHANGED server PROVE SimulatorInv'
  BY DEF SimulatorInv, BufferSound, server, OneScheduler, SimulatorTypeOK, BufferNumbered,
         NoStalePackets, PacketsMadeUp, PacketsOf

LEMMA NextKeepsInv == SimulatorInv /\ [Next]_vars => SimulatorInv'
<1> SUFFICES ASSUME SimulatorInv, [Next]_vars PROVE SimulatorInv'
  OBVIOUS
<1>1. CASE UNCHANGED vars
  BY <1>1, PagesKeepInv DEF vars
<1>2. ASSUME NEW s \in Streams, StreamTick(s) \/ StreamError(s) PROVE SimulatorInv'
  BY <1>2, PagesKeepInv DEF StreamTick, StreamError
<1>3. ASSUME NEW t \in Pages, Mount(t) \/ ClickStart(t) PROVE SimulatorInv'
  BY <1>3, StartKeepsInv DEF Mount, ClickStart
<1>4. ASSUME NEW t \in Pages, ClickStop(t) PROVE SimulatorInv'
  BY <1>4, StopKeepsInv DEF ClickStop
<1>5. ASSUME NEW t \in Pages, ClickClear(t) PROVE SimulatorInv'
  BY <1>5, ResetKeepsInv DEF ClickClear, ClearPackets
<1>6. ASSUME NEW t \in Pages, Started(t) \/ Stopped(t) \/ AnswerLost(t) \/ Unmount(t)
      PROVE  SimulatorInv'
  BY <1>6, PagesKeepInv DEF Started, Stopped, AnswerLost, Unmount
<1>7. CASE Crash
  BY <1>7, ResetKeepsInv DEF Crash
<1> QED
  BY <1>1, <1>2, <1>3, <1>4, <1>5, <1>6, <1>7, TickKeepsInv DEF Next, PageStep

LEMMA Invariance == Spec => []SimulatorInv
  BY InitInv, NextKeepsInv, PTL DEF Spec

-----------------------------------------------------------------------------
(* However many pages start and stop the capture, and however their        *)
(* answers are lost, one scheduler runs while capturing and none otherwise *)
(* (packet-simulator.ts:1284-1311).                                        *)
THEOREM SchedulerSound == Spec => []OneScheduler
<1>1. SimulatorInv => OneScheduler
  BY DEF SimulatorInv
<1> QED BY <1>1, Invariance, PTL

(* The buffer holds the newest packets of this capture only, numbered      *)
(* without gap, across starts, clears, evictions and crashes               *)
(* (packet-simulator.ts:1274-1318).                                        *)
THEOREM CaptureSound == Spec => []BufferSound
<1>1. SimulatorInv => BufferSound
  BY DEF SimulatorInv
<1> QED BY <1>1, Invariance, PTL
-----------------------------------------------------------------------------
(* The event streams. *)

DistinctIn(seq) == \A i, j \in DOMAIN seq : seq[i].pkt = seq[j].pkt => i = j

(* A stream's numbers. *)
CountsOK(s) ==
  /\ stream[s].status = "new" => stream[s].lastId = 0
  /\ stream[s].since <= epoch
  /\ stream[s].since = epoch => stream[s].lastId < counter

(* What a stream has sent is neither scheduled nor still to be sent, *)
(* whatever the numbers were when it was sent.                       *)
SentOK(s) ==
  /\ stream[s].got \subseteq DOMAIN born \ pending
  /\ \A i \in DOMAIN buffer :
       buffer[i].id > stream[s].lastId => buffer[i].pkt \notin stream[s].got
  /\ stream[s].sent = Cardinality(stream[s].got)

SkipsOK(s) ==
  \A i \in DOMAIN buffer :
    stream[s].status = "open" /\ stream[s].since = epoch /\ buffer[i].id <= stream[s].lastId
    => buffer[i].pkt \in stream[s].got \cup stream[s].skipped

StreamsInv ==
  /\ PagesTypeOK
  /\ DistinctIn(buffer) /\ PacketsOf(buffer) \cap pending = {}
  /\ \A s \in Streams : CountsOK(s) /\ SentOK(s) /\ SkipsOK(s)

(* A sequence of different packets is as long as there are packets in it.  *)
LEMMA DistinctPackets ==
  ASSUME NEW seq \in Seq(Captured), DistinctIn(seq)
  PROVE  Cardinality(PacketsOf(seq)) = Len(seq)
<1> DEFINE f == [i \in 1 .. Len(seq) |-> seq[i].pkt]
<1>1. Len(seq) \in Nat /\ DOMAIN seq = 1 .. Len(seq)
  OBVIOUS
<1>2. f \in [1 .. Len(seq) -> PacketsOf(seq)]
  BY <1>1 DEF PacketsOf
<1>3. \A i, j \in 1 .. Len(seq) : f[i] = f[j] => i = j
  BY <1>1 DEF DistinctIn
<1>4. \A x \in PacketsOf(seq) : \E i \in 1 .. Len(seq) : f[i] = x
  BY <1>1 DEF PacketsOf
<1> HIDE DEF f
<1>5. f \in Bijection(1 .. Len(seq), PacketsOf(seq))
  BY <1>2, <1>3, <1>4 DEF Bijection, Injection, Surjection, IsInjective
<1> QED BY <1>1, <1>5, FS_CountingElements DEF ExistsBijection

(* What came after a number: all of it, the newest at the end. *)
LEMMA NewerPackets ==
  ASSUME SimulatorInv, DistinctIn(buffer), NEW since \in Nat
  PROVE  /\ Newer(since) \in Seq(Captured) /\ DistinctIn(Newer(since))
         /\ \A k \in DOMAIN Newer(since) :
              \E i \in DOMAIN buffer : Newer(since)[k] = buffer[i] /\ buffer[i].id > since
         /\ \A i \in DOMAIN buffer :
              buffer[i].id > since => \E k \in DOMAIN Newer(since) : Newer(since)[k] = buffer[i]
         /\ Newer(since) # <<>> =>
              Len(buffer) \in DOMAIN buffer /\ Newer(since)[Len(Newer(since))] = buffer[Len(buffer)]
<1> DEFINE S == {i \in DOMAIN buffer : buffer[i].id > since}
           n == Len(buffer)
           c == Cardinality(S)
<1>0. /\ buffer \in Seq(Captured) /\ n \in Nat /\ DOMAIN buffer = 1 .. n /\ counter \in Nat
      /\ \A i \in DOMAIN buffer : buffer[i].id = counter - n + i - 1
  BY DEF SimulatorInv, BufferSound, SimulatorTypeOK, BufferNumbered
<1>1. S \in SUBSET DOMAIN buffer /\ Newer(since) = Picked(buffer, S)
  BY DEF Newer
<1>2. \A i \in S : i \in DOMAIN buffer /\ buffer[i].id > since
  OBVIOUS
<1>3. \A i \in DOMAIN buffer : buffer[i].id > since => i \in S
  OBVIOUS
<1> HIDE DEF S, n
<1>4. /\ Newer(since) \in Seq(Captured) /\ c \in Nat /\ Len(Newer(since)) = c
      /\ \A k \in 1 .. c : NthOf(S, k) \in S /\ Newer(since)[k] = buffer[NthOf(S, k)]
      /\ \A k, l \in 1 .. c : k < l => NthOf(S, k) < NthOf(S, l)
      /\ \A i \in S : \E k \in 1 .. c : NthOf(S, k) = i
  BY <1>0, <1>1, PickedElements
<1> HIDE DEF c
<1>5. DOMAIN Newer(since) = 1 .. c
  BY <1>4
<1>6. DistinctIn(Newer(since))
  <2> SUFFICES ASSUME NEW k \in 1 .. c, NEW l \in 1 .. c,
                      Newer(since)[k].pkt = Newer(since)[l].pkt
               PROVE  k = l
    BY <1>5 DEF DistinctIn
  <2>1. NthOf(S, k) = NthOf(S, l)
    BY <1>2, <1>4 DEF DistinctIn
  <2>2. NthOf(S, k) \in Nat
    BY <1>0, <1>2, <1>4
  <2> QED BY <1>4, <2>1, <2>2
<1>7. ASSUME Newer(since) # <<>>
      PROVE  n \in DOMAIN buffer /\ Newer(since)[Len(Newer(since))] = buffer[n]
  <2>1. c \in 1 .. c
    BY <1>4, <1>7, EmptySeq
  <2>2. NthOf(S, c) \in 1 .. n /\ buffer[NthOf(S, c)].id > since
    BY <1>0, <1>2, <1>4, <2>1
  <2>3. n \in 1 .. n
    BY <1>0, <2>2
  <2>4. buffer[n].id > since
    <3>1. /\ buffer[n].id = counter - n + n - 1
          /\ buffer[NthOf(S, c)].id = counter - n + NthOf(S, c) - 1
      BY <1>0, <2>2, <2>3
    <3> QED BY <1>0, <2>2, <3>1
  <2>5. n \in S
    BY <1>0, <1>3, <2>3, <2>4
  <2>6. PICK k \in 1 .. c : NthOf(S, k) = n
    BY <1>4, <2>5
  <2>7. k = c
    <3>1. ~ (k < c)
      <4> SUFFICES ASSUME k < c PROVE FALSE
        OBVIOUS
      <4>1. NthOf(S, k) < NthOf(S, c)
        BY <1>4, <2>1
      <4> QED BY <1>0, <2>2, <2>6, <4>1
    <3> QED BY <1>4, <3>1
  <2> QED BY <1>0, <1>4, <2>1, <2>3, <2>6, <2>7
<1>8. \A k \in 1 .. c :
        \E i \in DOMAIN buffer : Newer(since)[k] = buffer[i] /\ buffer[i].id > since
  BY <1>2, <1>4
<1>9. \A i \in DOMAIN buffer :
        buffer[i].id > since => \E k \in 1 .. c : Newer(since)[k] = buffer[i]
  BY <1>3, <1>4
<1> QED BY <1>4, <1>5, <1>6, <1>7, <1>8, <1>9 DEF n
-----------------------------------------------------------------------------
(* A stream is opened, closed or left alone: what it has sent stays. *)
Kept(s) ==
  /\ stream'[s].lastId = stream[s].lastId /\ stream'[s].sent = stream[s].sent
  /\ stream'[s].got = stream[s].got /\ stream'[s].skipped = stream[s].skipped

SameOrClosed(s) ==
  /\ Kept(s) /\ stream'[s].since = stream[s].since
  /\ stream'[s].status = stream[s].status \/ stream'[s].status = "closed"

Opened(s) == Kept(s) /\ stream[s].status = "new" /\ stream'[s].since = epoch

LEMMA StreamTypes ==
  ASSUME PagesTypeOK, NEW s \in Streams
  PROVE  /\ stream[s].lastId \in Nat /\ stream[s].since \in Nat /\ stream[s].sent \in Nat
         /\ stream[s].got \in SUBSET Packets /\ stream[s].skipped \in SUBSET Packets
  BY DEF PagesTypeOK, Stream

LEMMA StreamsKept ==
  ASSUME SimulatorInv, StreamsInv, PagesTypeOK',
         UNCHANGED <<counter, buffer, pending, epoch, born>>,
         \A s \in Streams : SameOrClosed(s) \/ Opened(s)
  PROVE  StreamsInv'
<1>1. DistinctIn(buffer)' /\ PacketsOf(buffer)' \cap pending' = {}
  BY DEF StreamsInv, DistinctIn, PacketsOf
<1>2. /\ epoch \in Nat /\ counter \in Nat /\ counter > 0 /\ buffer \in Seq(Captured)
      /\ \A i \in DOMAIN buffer : buffer[i].id \in Nat /\ buffer[i].id > 0
  <2>1. /\ epoch \in Nat /\ counter \in Nat /\ counter > 0 /\ buffer \in Seq(Captured)
    BY CaptureAssumption DEF SimulatorInv, BufferSound, SimulatorTypeOK
  <2>2. \A i \in DOMAIN buffer : buffer[i] \in Captured
    BY <2>1
  <2> QED BY <2>1, <2>2 DEF Captured
<1>3. ASSUME NEW s \in Streams PROVE (CountsOK(s) /\ SentOK(s) /\ SkipsOK(s))'
  <2>0. CountsOK(s) /\ SentOK(s) /\ SkipsOK(s) /\ (SameOrClosed(s) \/ Opened(s)) /\ Kept(s)
    BY DEF StreamsInv, SameOrClosed, Opened
  <2>1. SentOK(s)'
    BY <2>0 DEF SentOK, Kept
  <2>2. CASE SameOrClosed(s)
    BY <2>0, <2>1, <2>2 DEF SameOrClosed, Kept, CountsOK, SkipsOK
  <2>3. CASE Opened(s)
    <3>1. stream'[s].lastId = 0 /\ stream'[s].since = epoch
      BY <2>0, <2>3 DEF Opened, Kept, CountsOK
    <3>2. CountsOK(s)'
      BY <1>2, <3>1 DEF CountsOK
    <3>3. \A i \in DOMAIN buffer : ~ (buffer[i].id <= 0)
      BY <1>2
    <3>4. SkipsOK(s)'
      BY <3>1, <3>3 DEF SkipsOK
    <3> QED BY <2>1, <3>2, <3>4
  <2> QED BY <2>0, <2>2, <2>3
<1> QED BY <1>1, <1>3 DEF StreamsInv

(* The buffer is emptied and the numbers start again. *)
LEMMA StreamsReset ==
  ASSUME SimulatorInv, StreamsInv, PagesTypeOK', buffer' = <<>>, epoch' = epoch + 1,
         pending' \cap DOMAIN born = {}, DOMAIN born \subseteq DOMAIN born',
         \A s \in Streams : SameOrClosed(s)
  PROVE  StreamsInv'
<1>1. DOMAIN buffer' = {} /\ PacketsOf(buffer)' = {}
  BY DEF PacketsOf
<1>2. DistinctIn(buffer)'
  BY <1>1 DEF DistinctIn
<1>3. ASSUME NEW s \in Streams PROVE (CountsOK(s) /\ SentOK(s) /\ SkipsOK(s))'
  <2>0. CountsOK(s) /\ SentOK(s) /\ SameOrClosed(s) /\ Kept(s)
    BY DEF StreamsInv, SameOrClosed
  <2>1. epoch \in Nat /\ stream[s].since \in Nat /\ stream[s].since <= epoch
    BY <2>0, StreamTypes, CaptureAssumption
       DEF SimulatorInv, BufferSound, SimulatorTypeOK, StreamsInv, CountsOK
  <2>2. CountsOK(s)'
    <3>1. stream'[s].since <= epoch' /\ stream'[s].since # epoch'
      BY <2>0, <2>1 DEF SameOrClosed
    <3>2. stream'[s].status = "new" => stream'[s].lastId = 0
      BY <2>0 DEF SameOrClosed, Kept, CountsOK
    <3> QED BY <3>1, <3>2 DEF CountsOK
  <2>3. SentOK(s)'
    BY <1>1, <2>0 DEF SentOK, Kept
  <2>4. SkipsOK(s)'
    BY <1>1 DEF SkipsOK
  <2> QED BY <2>2, <2>3, <2>4
<1> QED BY <1>1, <1>2, <1>3 DEF StreamsInv

(* The scheduler captures packets: what is in the buffer then was there    *)
(* before, or was due and has a new number.                                *)
LEMMA Captures ==
  ASSUME SimulatorInv, NEW due \in SUBSET Packets, NEW ready \in SetToSeqs(due),
         buffer' = PushAndShift(buffer, Numbered(ready))
  PROVE  \A i \in DOMAIN buffer' :
           LET j == i + (Len(buffer) + Len(ready) - Len(buffer'))
               d == j - Len(buffer)
           IN  \/ j \in DOMAIN buffer /\ buffer'[i] = buffer[j]
               \/ d \in DOMAIN ready /\ buffer'[i] = [id |-> counter + d - 1, pkt |-> ready[d]]
<1> DEFINE more == Numbered(ready)
           full == buffer \o more
<1>1. /\ ready \in Seq(Packets) /\ Len(ready) \in Nat /\ DOMAIN ready = 1 .. Len(ready)
  BY ReadyIsDue
<1>2. /\ counter \in Nat \ {0} /\ buffer \in Seq(Captured) /\ Len(buffer) \in Nat
      /\ Cap \in Nat \ {0} /\ DOMAIN buffer = 1 .. Len(buffer)
  BY CaptureAssumption DEF SimulatorInv, BufferSound, SimulatorTypeOK
<1>3. /\ more \in Seq(Captured) /\ Len(more) = Len(ready)
      /\ \A d \in 1 .. Len(ready) : more[d] = [id |-> counter + d - 1, pkt |-> ready[d]]
  <2>1. \A d \in 1 .. Len(ready) : [id |-> counter + d - 1, pkt |-> ready[d]] \in Captured
    BY <1>1, <1>2 DEF Captured
  <2> QED BY <1>1, <2>1 DEF Numbered
<1> HIDE DEF more
<1>4. /\ full \in Seq(Captured) /\ Len(full) = Len(buffer) + Len(ready)
      /\ \A j \in 1 .. Len(buffer) + Len(ready) :
           full[j] = IF j <= Len(buffer) THEN buffer[j] ELSE more[j - Len(buffer)]
  <2>1. /\ full \in Seq(Captured) /\ Len(full) = Len(buffer) + Len(more)
        /\ \A j \in 1 .. Len(buffer) + Len(more) :
             full[j] = IF j <= Len(buffer) THEN buffer[j] ELSE more[j - Len(buffer)]
    BY <1>2, <1>3, ConcatProperties
  <2> QED BY <1>3, <2>1
<1>5. buffer' = LastOf(full, Cap)
  BY DEF PushAndShift, more
<1> HIDE DEF full
<1>6. /\ buffer' \in Seq(Captured)
      /\ \A i \in DOMAIN buffer' :
           /\ i + Len(full) - Len(buffer') \in DOMAIN full
           /\ buffer'[i] = full[i + Len(full) - Len(buffer')]
  <2>1. full \in Seq(Captured) /\ Cap \in Nat \ {0}
    BY <1>2, <1>4
  <2> QED BY <1>5, <2>1, LastOfEnd
<1> SUFFICES ASSUME NEW i \in DOMAIN buffer'
             PROVE  LET j == i + (Len(buffer) + Len(ready) - Len(buffer'))
                        d == j - Len(buffer)
                    IN  \/ j \in DOMAIN buffer /\ buffer'[i] = buffer[j]
                        \/ /\ d \in DOMAIN ready
                           /\ buffer'[i] = [id |-> counter + d - 1, pkt |-> ready[d]]
  OBVIOUS
<1> DEFINE j == i + (Len(buffer) + Len(ready) - Len(buffer'))
<1>7. i \in Nat /\ Len(buffer') \in Nat
  BY <1>6
<1>8. j = i + Len(full) - Len(buffer')
  BY <1>1, <1>2, <1>4, <1>7
<1>9. j \in 1 .. Len(buffer) + Len(ready) /\ buffer'[i] = full[j]
  BY <1>4, <1>6, <1>8
<1> HIDE DEF j
<1>10. CASE j <= Len(buffer)
  <2>1. j \in DOMAIN buffer /\ buffer'[i] = buffer[j]
    BY <1>1, <1>2, <1>4, <1>9, <1>10
  <2> QED BY <2>1 DEF j
<1>11. CASE ~ (j <= Len(buffer))
  <2>1. j - Len(buffer) \in 1 .. Len(ready) /\ full[j] = more[j - Len(buffer)]
    BY <1>1, <1>2, <1>4, <1>9, <1>11
  <2>2. j - Len(buffer) \in DOMAIN ready
        /\ buffer'[i] = [id |-> counter + (j - Len(buffer)) - 1, pkt |-> ready[j - Len(buffer)]]
    BY <1>1, <1>3, <1>9, <2>1
  <2> QED BY <2>2 DEF j
<1> QED BY <1>10, <1>11
LEMMA TickKeepsStreams ==
  ASSUME SimulatorInv, StreamsInv, Tick
  PROVE  StreamsInv'
<1>0. PICK n \in Unused : \E due \in SUBSET (pending \cup Emitted(n)) :
        /\ Emit(n, epoch)
        /\ pending' = (pending \cup Emitted(n)) \ due
        /\ \E ready \in SetToSeqs(due) : buffer' = PushAndShift(buffer, Numbered(ready))
        /\ counter' = counter + Cardinality(due)
  BY DEF Tick
<1>1. PICK due \in SUBSET (pending \cup Emitted(n)) :
        /\ Emit(n, epoch)
        /\ pending' = (pending \cup Emitted(n)) \ due
        /\ \E ready \in SetToSeqs(due) : buffer' = PushAndShift(buffer, Numbered(ready))
        /\ counter' = counter + Cardinality(due)
  BY <1>0
<1>2. PICK ready \in SetToSeqs(due) : buffer' = PushAndShift(buffer, Numbered(ready))
  BY <1>1
<1>3. /\ Emitted(n) \subseteq Packets /\ Emitted(n) \subseteq DOMAIN born'
      /\ DOMAIN born \subseteq DOMAIN born'
  BY <1>1, EmitBorn DEF SimulatorInv, BufferSound, SimulatorTypeOK
<1>4. Emitted(n) \cap DOMAIN born = {}
  <2>1. Len(born) \in Nat /\ DOMAIN born = 1 .. Len(born)
    BY DEF SimulatorInv, BufferSound, SimulatorTypeOK
  <2> QED BY <2>1 DEF Emitted
<1>5. due \in SUBSET Packets /\ counter \in Nat /\ buffer \in Seq(Captured) /\ pending \subseteq Packets
  BY <1>3 DEF SimulatorInv, BufferSound, SimulatorTypeOK
<1>6. /\ Cardinality(due) \in Nat /\ ready \in Seq(due) /\ DOMAIN ready \subseteq Nat \ {0}
      /\ \A d \in DOMAIN ready : ready[d] \in due
      /\ \A d, e \in DOMAIN ready : ready[d] = ready[e] => d = e
  <2>1. /\ Cardinality(due) \in Nat /\ ready \in Seq(due)
    BY <1>5, ReadyIsDue
  <2>2. \A d, e \in DOMAIN ready : ready[d] = ready[e] => d = e
    BY DEF SetToSeqs
  <2> QED BY <2>1, <2>2
<1> DEFINE gone == Len(buffer) + Len(ready) - Len(buffer')
           Old(i, j) == j = i + gone /\ j \in DOMAIN buffer /\ buffer'[i] = buffer[j]
           New(i, d) == /\ d = i + gone - Len(buffer) /\ d \in DOMAIN ready
                        /\ buffer'[i] = [id |-> counter + d - 1, pkt |-> ready[d]]
<1>7. /\ Len(buffer) \in Nat /\ Len(ready) \in Nat /\ Len(buffer') \in Nat
      /\ DOMAIN buffer' \subseteq Nat /\ DOMAIN buffer \subseteq Nat /\ gone \in Int
  <2>1. buffer' \in Seq(Captured)
    BY TickKeepsInv DEF SimulatorInv, BufferSound, SimulatorTypeOK
  <2> QED BY <1>5, <1>6, <2>1
<1> HIDE DEF gone
<1>8. \A i \in DOMAIN buffer' : (\E j \in DOMAIN buffer : Old(i, j)) \/ (\E d \in DOMAIN ready : New(i, d))
  <2> TAKE i \in DOMAIN buffer'
  <2> DEFINE j == i + gone
             d == j - Len(buffer)
  <2>1. \/ j \in DOMAIN buffer /\ buffer'[i] = buffer[j]
        \/ d \in DOMAIN ready /\ buffer'[i] = [id |-> counter + d - 1, pkt |-> ready[d]]
    BY <1>2, <1>5, Captures DEF gone
  <2>2. j = i + gone /\ d = i + gone - Len(buffer)
    BY <1>7
  <2> HIDE DEF j, d
  <2>3. /\ j \in DOMAIN buffer /\ buffer'[i] = buffer[j] => Old(i, j)
        /\ d \in DOMAIN ready /\ buffer'[i] = [id |-> counter + d - 1, pkt |-> ready[d]]
             => New(i, d)
    BY <2>2
  <2> HIDE DEF Old, New
  <2> QED BY <2>1, <2>3
<1>9. \A j \in DOMAIN buffer : buffer[j].pkt \in DOMAIN born \ (pending \cup Emitted(n))
  BY <1>4 DEF StreamsInv, SimulatorInv, PacketsMadeUp, PacketsOf
<1>10. \A i \in DOMAIN buffer' : \A j : Old(i, j) => buffer'[i].pkt = buffer[j].pkt
  OBVIOUS
<1>11. \A i \in DOMAIN buffer' : \A d :
         New(i, d) => buffer'[i].pkt = ready[d] /\ buffer'[i].pkt \in due /\ buffer'[i].id >= counter
  BY <1>5, <1>6
<1>12. \A i, k \in DOMAIN buffer' : \A j : Old(i, j) /\ Old(k, j) => i = k
  BY <1>7
<1>13. \A i, k \in DOMAIN buffer' : \A d : New(i, d) /\ New(k, d) => i = k
  BY <1>7
<1> HIDE DEF New
<1>14. DistinctIn(buffer)'
  <2> SUFFICES ASSUME NEW i \in DOMAIN buffer', NEW k \in DOMAIN buffer',
                      buffer'[i].pkt = buffer'[k].pkt
               PROVE  i = k
    BY DEF DistinctIn
  <2>1. CASE \E j \in DOMAIN buffer : Old(i, j)
    <3>1. PICK j \in DOMAIN buffer : Old(i, j)
      BY <2>1
    <3>2. PICK l \in DOMAIN buffer : Old(k, l)
      BY <1>1, <1>8, <1>9, <1>10, <1>11, <3>1
    <3>3. j = l
      BY <1>10, <3>1, <3>2 DEF StreamsInv, DistinctIn
    <3> QED BY <1>12, <3>1, <3>2, <3>3
  <2>2. CASE \E d \in DOMAIN ready : New(i, d)
    <3>1. PICK d \in DOMAIN ready : New(i, d)
      BY <2>2
    <3>2. PICK e \in DOMAIN ready : New(k, e)
      BY <1>1, <1>8, <1>9, <1>10, <1>11, <3>1
    <3>3. d = e
      BY <1>6, <1>11, <3>1, <3>2
    <3> QED BY <1>13, <3>1, <3>2, <3>3
  <2> QED BY <1>8, <2>1, <2>2
<1>15. PacketsOf(buffer)' \cap pending' = {}
  BY <1>1, <1>8, <1>9, <1>10, <1>11 DEF PacketsOf
<1>16. stream' = stream /\ page' = page /\ epoch' = epoch /\ counter' >= counter
  BY <1>1, <1>5, <1>6 DEF Tick
<1>17. ASSUME NEW s \in Streams PROVE (CountsOK(s) /\ SentOK(s) /\ SkipsOK(s))'
  <2>0. CountsOK(s) /\ SentOK(s) /\ SkipsOK(s) /\ stream[s].lastId \in Nat
    BY StreamTypes DEF StreamsInv
  <2>1. counter' \in Nat
    BY <1>1, <1>5, <1>6
  <2>2. CountsOK(s)'
    BY <1>5, <1>16, <2>0, <2>1 DEF CountsOK
  <2>3. SentOK(s)'
    <3>1. stream[s].got \subseteq DOMAIN born' \ pending'
      BY <1>1, <1>3, <1>4, <2>0 DEF SentOK
    <3>2. ASSUME NEW i \in DOMAIN buffer', buffer'[i].id > stream[s].lastId
          PROVE  buffer'[i].pkt \notin stream[s].got
      <4>1. ASSUME NEW j \in DOMAIN buffer, Old(i, j) PROVE buffer'[i].pkt \notin stream[s].got
        BY <2>0, <3>2, <4>1 DEF SentOK
      <4>2. ASSUME NEW d \in DOMAIN ready, New(i, d) PROVE buffer'[i].pkt \notin stream[s].got
        BY <1>1, <1>4, <1>11, <2>0, <4>2 DEF SentOK
      <4> QED BY <1>8, <4>1, <4>2
    <3> QED BY <1>16, <2>0, <3>1, <3>2 DEF SentOK
  <2>4. SkipsOK(s)'
    <3> SUFFICES ASSUME NEW i \in DOMAIN buffer', stream[s].status = "open",
                        stream[s].since = epoch, buffer'[i].id <= stream[s].lastId
                 PROVE  buffer'[i].pkt \in stream[s].got \cup stream[s].skipped
      BY <1>16 DEF SkipsOK
    <3>1. ASSUME NEW j \in DOMAIN buffer, Old(i, j)
          PROVE  buffer'[i].pkt \in stream[s].got \cup stream[s].skipped
      BY <2>0, <3>1 DEF SkipsOK
    <3>2. ASSUME NEW d \in DOMAIN ready, New(i, d) PROVE FALSE
      <4>1. stream[s].lastId < counter /\ buffer'[i].id >= counter
        BY <1>11, <2>0, <3>2 DEF CountsOK
      <4>2. buffer'[i].id \in Int
        <5>1. buffer'[i].id = counter + d - 1 /\ d \in Nat
          BY <1>6, <3>2 DEF New
        <5> QED BY <1>5, <5>1
      <4> QED BY <1>5, <2>0, <4>1, <4>2
    <3> QED BY <1>8, <3>1, <3>2
  <2> QED BY <2>2, <2>3, <2>4
<1>18. PagesTypeOK'
  BY <1>16 DEF StreamsInv, PagesTypeOK
<1> QED BY <1>14, <1>15, <1>17, <1>18 DEF StreamsInv

(* A stream sends what came after the last packet it sent, up to its limit.*)
LEMMA StreamTickKeepsStreams ==
  ASSUME SimulatorInv, StreamsInv, NEW z \in Streams, StreamTick(z)
  PROVE  StreamsInv'
<1> DEFINE since == stream[z].lastId
           newer == Newer(since)
           packets == GetPackets(since, Limit)
           n == Len(buffer)
           sent == [stream[z] EXCEPT !.lastId = LastIdOf(packets),
                                     !.sent = @ + Len(packets),
                                     !.got = @ \cup PacketsOf(packets),
                                     !.skipped = @ \cup (PacketsOf(newer) \ PacketsOf(packets))]
<1>1. /\ packets # <<>> /\ stream' = [stream EXCEPT ![z] = sent] /\ UNCHANGED <<server, page>>
  <2>1. packets # <<>> /\ UNCHANGED <<server, page>>
    BY DEF StreamTick
  <2>2. stream' = [stream EXCEPT ![z] = sent]
    BY DEF StreamTick
  <2> QED BY <2>1, <2>2
<1>2. /\ stream \in [Streams -> Stream] /\ stream[z] \in Stream /\ since \in Nat
      /\ stream[z].sent \in Nat /\ stream[z].got \in SUBSET Packets
      /\ stream[z].skipped \in SUBSET Packets
  BY StreamTypes DEF StreamsInv, PagesTypeOK
<1> HIDE DEF since, sent
<1>3. /\ newer \in Seq(Captured) /\ DistinctIn(newer)
      /\ \A k \in DOMAIN newer : \E i \in DOMAIN buffer : newer[k] = buffer[i] /\ buffer[i].id > since
      /\ \A i \in DOMAIN buffer : buffer[i].id > since => \E k \in DOMAIN newer : newer[k] = buffer[i]
      /\ newer # <<>> => n \in DOMAIN buffer /\ newer[Len(newer)] = buffer[n]
  BY <1>2, NewerPackets DEF StreamsInv
<1> HIDE DEF newer
<1>4. packets = LastOf(newer, Limit)
  BY DEF GetPackets, newer
<1> HIDE DEF packets
<1>5. /\ packets \in Seq(Captured) /\ Len(packets) <= Len(newer)
      /\ \A i \in DOMAIN packets :
           /\ i + Len(newer) - Len(packets) \in DOMAIN newer
           /\ packets[i] = newer[i + Len(newer) - Len(packets)]
  <2>1. Limit \in Nat \ {0}
    BY CaptureAssumption
  <2> QED BY <1>3, <1>4, <2>1, LastOfEnd
<1>6. /\ Len(packets) \in DOMAIN packets /\ Len(packets) \in Nat /\ Len(newer) \in Nat
      /\ DOMAIN packets \subseteq Nat
  <2>1. Len(packets) \in Nat /\ Len(newer) \in Nat /\ DOMAIN packets = 1 .. Len(packets)
    BY <1>3, <1>5
  <2>2. Len(packets) # 0
    BY <1>1, <1>5, EmptySeq
  <2> QED BY <2>1, <2>2
<1>7. DistinctIn(packets)
  <2> SUFFICES ASSUME NEW i \in DOMAIN packets, NEW j \in DOMAIN packets,
                      packets[i].pkt = packets[j].pkt
               PROVE  i = j
    BY DEF DistinctIn
  <2> DEFINE a == i + Len(newer) - Len(packets)
             b == j + Len(newer) - Len(packets)
  <2>1. a \in DOMAIN newer /\ b \in DOMAIN newer /\ newer[a].pkt = newer[b].pkt
    BY <1>5
  <2>2. a = b
    <3> HIDE DEF a, b
    <3> QED BY <1>3, <2>1 DEF DistinctIn
  <2> QED BY <1>6, <2>2
<1>8. n \in DOMAIN buffer /\ LastIdOf(packets) = buffer[n].id
  <2>1. packets[Len(packets)] = newer[Len(packets) + Len(newer) - Len(packets)]
    BY <1>5, <1>6
  <2>2. Len(packets) + Len(newer) - Len(packets) = Len(newer)
    BY <1>6
  <2>3. newer # <<>>
    <3>1. Len(newer) # 0
      BY <1>1, <1>5, <1>6, EmptySeq
    <3> QED BY <3>1
  <2> QED BY <1>3, <2>1, <2>2, <2>3 DEF LastIdOf
<1>9. \A i \in DOMAIN packets : \E j \in DOMAIN buffer :
        packets[i] = buffer[j] /\ buffer[j].id > since
  BY <1>3, <1>5
<1>10. /\ PacketsOf(packets) \subseteq PacketsOf(buffer) /\ PacketsOf(packets) \cap stream[z].got = {}
       /\ PacketsOf(packets) \subseteq Packets /\ PacketsOf(newer) \subseteq Packets
  <2>1. \A x \in PacketsOf(packets) : x \in PacketsOf(buffer) /\ x \notin stream[z].got
    BY <1>9 DEF PacketsOf, StreamsInv, SentOK, since
  <2>2. \A i \in DOMAIN newer : newer[i] \in Captured
    BY <1>3
  <2>3. \A i \in DOMAIN packets : packets[i] \in Captured
    BY <1>5
  <2> QED BY <2>1, <2>2, <2>3 DEF PacketsOf, Captured
<1>11. /\ counter \in Nat /\ n \in Nat /\ DOMAIN buffer = 1 .. n
       /\ \A i \in DOMAIN buffer : buffer[i].id = counter - n + i - 1
       /\ buffer[n].id \in Nat
  <2>1. counter \in Nat /\ n \in Nat /\ DOMAIN buffer = 1 .. n /\ buffer \in Seq(Captured)
    BY DEF SimulatorInv, BufferSound, SimulatorTypeOK
  <2>2. buffer[n] \in Captured
    BY <1>8, <2>1
  <2> QED BY <2>1, <2>2 DEF SimulatorInv, BufferSound, BufferNumbered, Captured
<1>12. LastIdOf(packets) \in Nat /\ LastIdOf(packets) < counter
       /\ \A i \in DOMAIN buffer : buffer[i].id <= LastIdOf(packets)
  BY <1>8, <1>11
<1> HIDE DEF n
<1>13. /\ sent.lastId = LastIdOf(packets) /\ sent.since = stream[z].since
       /\ sent.status = stream[z].status
       /\ sent.sent = stream[z].sent + Len(packets)
       /\ sent.got = stream[z].got \cup PacketsOf(packets)
       /\ sent.skipped = stream[z].skipped \cup (PacketsOf(newer) \ PacketsOf(packets))
       /\ sent \in Stream
  <2> DEFINE a == LastIdOf(packets)
             b == stream[z].sent + Len(packets)
             c == stream[z].got \cup PacketsOf(packets)
             d == stream[z].skipped \cup (PacketsOf(newer) \ PacketsOf(packets))
  <2>1. a \in Nat /\ b \in Nat /\ c \in SUBSET Packets /\ d \in SUBSET Packets
    BY <1>2, <1>6, <1>10, <1>12
  <2>2. sent = [stream[z] EXCEPT !.lastId = a, !.sent = b, !.got = c, !.skipped = d]
    BY Zenon DEF sent
  <2> HIDE DEF a, b, c, d
  <2>3. /\ sent.lastId = a /\ sent.since = stream[z].since /\ sent.status = stream[z].status
        /\ sent.sent = b /\ sent.got = c /\ sent.skipped = d /\ sent \in Stream
    BY <1>2, <2>1, <2>2 DEF Stream
  <2> QED BY <2>3 DEF a, b, c, d
<1>14. PagesTypeOK'
  BY <1>1, <1>2, <1>13 DEF StreamsInv, PagesTypeOK
<1>15. DistinctIn(buffer)' /\ PacketsOf(buffer)' \cap pending' = {}
  BY <1>1 DEF StreamsInv, server, DistinctIn, PacketsOf
<1>16. (CountsOK(z) /\ SentOK(z) /\ SkipsOK(z))'
  <2>0. /\ CountsOK(z) /\ SentOK(z) /\ SkipsOK(z) /\ stream'[z] = sent
        /\ stream[z].status = "open"
    BY <1>1, <1>2 DEF StreamsInv, StreamTick
  <2>1. CountsOK(z)'
    BY <1>1, <1>12, <1>13, <2>0 DEF CountsOK, server
  <2>2. sent.got \subseteq DOMAIN born \ pending
    BY <1>10, <1>13, <2>0 DEF SentOK, StreamsInv, SimulatorInv, PacketsMadeUp
  <2>3. sent.sent = Cardinality(sent.got)
    <3>1. IsFiniteSet(Packets)
      BY CaptureAssumption, FS_Interval DEF Packets
    <3>2. IsFiniteSet(stream[z].got) /\ IsFiniteSet(PacketsOf(packets))
      BY <1>2, <1>10, <3>1, FS_Subset
    <3>3. Cardinality({}) = 0 /\ Cardinality(PacketsOf(packets)) = Len(packets)
      BY <1>5, <1>7, DistinctPackets, FS_EmptySet
    <3>4. Cardinality(stream[z].got \cup PacketsOf(packets))
            = Cardinality(stream[z].got) + Cardinality(PacketsOf(packets))
                - Cardinality(stream[z].got \cap PacketsOf(packets))
      BY <3>2, FS_Union
    <3>5. stream[z].got \cap PacketsOf(packets) = {}
      BY <1>10
    <3>6. stream[z].sent = Cardinality(stream[z].got)
      BY <2>0 DEF SentOK
    <3>7. Cardinality(sent.got) = stream[z].sent + Len(packets)
      <4>1. Cardinality(stream[z].got \cap PacketsOf(packets)) = 0
        BY <3>3, <3>5
      <4>2. sent.got = stream[z].got \cup PacketsOf(packets)
        BY <1>13
      <4> QED BY <1>2, <1>6, <3>3, <3>4, <3>6, <4>1, <4>2
    <3> QED BY <1>13, <3>7
  <2>4. \A i \in DOMAIN buffer : ~ (buffer[i].id > sent.lastId)
    <3>1. \A i \in DOMAIN buffer : buffer[i].id \in Int
      BY <1>11
    <3> QED BY <1>12, <1>13, <3>1
  <2>5. SentOK(z)'
    BY <1>1, <2>0, <2>2, <2>3, <2>4 DEF SentOK, server
  <2>6. SkipsOK(z)'
    <3> SUFFICES ASSUME NEW i \in DOMAIN buffer, sent.since = epoch
                 PROVE  buffer[i].pkt \in sent.got \cup sent.skipped
      BY <1>1, <2>0 DEF SkipsOK, server
    <3>1. CASE buffer[i].id <= since
      BY <1>13, <2>0, <3>1 DEF SkipsOK, since
    <3>2. CASE buffer[i].id > since
      <4>1. buffer[i].pkt \in PacketsOf(newer)
        BY <1>3, <3>2 DEF PacketsOf
      <4> QED BY <1>13, <4>1
    <3>3. buffer[i].id \in Int
      BY <1>11
    <3> QED BY <1>2, <3>1, <3>2, <3>3
  <2> QED BY <2>1, <2>5, <2>6
<1>17. ASSUME NEW s \in Streams PROVE (CountsOK(s) /\ SentOK(s) /\ SkipsOK(s))'
  <2>1. CASE s = z
    BY <1>16, <2>1
  <2>2. CASE s # z
    <3>1. stream'[s] = stream[s] /\ CountsOK(s) /\ SentOK(s) /\ SkipsOK(s)
      BY <1>1, <1>2, <2>2 DEF StreamsInv
    <3> QED BY <1>1, <3>1 DEF CountsOK, SentOK, SkipsOK, server
  <2> QED BY <2>1, <2>2
<1> QED BY <1>14, <1>15, <1>17 DEF StreamsInv
-----------------------------------------------------------------------------
LEMMA StreamsStart ==
  ASSUME Init
  PROVE  StreamsInv
<1> USE DEF Init
<1>1. DOMAIN buffer = {} /\ DOMAIN born = {} /\ PacketsOf(buffer) = {}
  BY DEF PacketsOf
<1>2. PagesTypeOK
  <2>1. stream \in [Streams -> Stream]
    BY DEF Stream
  <2>2. page \in [Pages -> Page]
    BY DEF Page
  <2> QED BY <2>1, <2>2 DEF PagesTypeOK
<1>3. ASSUME NEW s \in Streams PROVE CountsOK(s) /\ SentOK(s) /\ SkipsOK(s)
  <2>1. /\ stream[s].lastId = 0 /\ stream[s].since = 0 /\ stream[s].got = {} /\ stream[s].sent = 0
    OBVIOUS
  <2>2. Cardinality({}) = 0
    BY FS_EmptySet
  <2>3. CountsOK(s)
    BY <2>1 DEF CountsOK
  <2>4. SentOK(s) /\ SkipsOK(s)
    BY <1>1, <2>1, <2>2 DEF SentOK, SkipsOK
  <2> QED BY <2>3, <2>4
<1> QED BY <1>1, <1>2, <1>3 DEF StreamsInv, DistinctIn

(* Every stream stays open or is closed, whatever the pages do. *)
LEMMA ClosingKeeps ==
  ASSUME PagesTypeOK, NEW z
  PROVE  /\ Closed(z) \in [Streams -> Stream]
         /\ \A s \in Streams : stream' = Closed(z) => SameOrClosed(s)
         /\ \A s \in Streams : stream' = stream => SameOrClosed(s)
<1>1. stream \in [Streams -> Stream]
  BY DEF PagesTypeOK
<1>2. Closed(z) \in [Streams -> Stream]
  BY <1>1 DEF Closed, Stream
<1>3. ASSUME NEW s \in Streams, stream' = Closed(z) PROVE SameOrClosed(s)
  BY <1>1, <1>3 DEF Closed, SameOrClosed, Kept, Stream
<1> QED BY <1>2, <1>3 DEF SameOrClosed, Kept

LEMMA StartKeepsStreams ==
  ASSUME SimulatorInv, StreamsInv, PagesTypeOK', StartCapture, UNCHANGED stream
  PROVE  StreamsInv'
<1>0. \A s \in Streams : SameOrClosed(s)
  BY ClosingKeeps DEF StreamsInv
<1>1. CASE UNCHANGED server
  BY <1>0, <1>1, StreamsKept DEF server
<1>2. CASE ~ capturing
  <2>1. PICK n \in Unused : pending' = Emitted(n) /\ Emit(n, epoch + 1)
    BY <1>2 DEF StartCapture
  <2>2. buffer' = <<>> /\ epoch' = epoch + 1 /\ epoch < MaxEpoch
    BY <1>2 DEF StartCapture
  <2>3. epoch + 1 \in 0 .. MaxEpoch /\ Len(born) \in Nat /\ DOMAIN born = 1 .. Len(born)
    BY <2>2, CaptureAssumption DEF SimulatorInv, BufferSound, SimulatorTypeOK
  <2>4. DOMAIN born \subseteq DOMAIN born'
    BY <2>1, <2>3, EmitBorn DEF SimulatorInv, BufferSound
  <2>5. pending' \cap DOMAIN born = {}
    BY <2>1, <2>3 DEF Emitted
  <2> QED BY <1>0, <2>2, <2>4, <2>5, StreamsReset
<1> QED BY <1>1, <1>2 DEF StartCapture

LEMMA PageKeepsStreams ==
  ASSUME SimulatorInv, StreamsInv, NEW t \in Pages, PageStep(t)
  PROVE  StreamsInv'
<1>0. /\ PagesTypeOK /\ stream \in [Streams -> Stream] /\ page \in [Pages -> Page]
      /\ page[t] \in Page
  BY DEF StreamsInv, PagesTypeOK
<1>1. CASE Mount(t) \/ ClickStart(t)
  <2>1. page' \in [Pages -> Page]
    <3>1. [page[t] EXCEPT !.status = "mounted", !.starting = 1] \in Page
      BY <1>0 DEF Page
    <3>2. [page[t] EXCEPT !.starting = page[t].starting + 1] \in Page
      BY <1>0 DEF Page
    <3>3. \/ page' = [page EXCEPT ![t] = [page[t] EXCEPT !.status = "mounted", !.starting = 1]]
          \/ page' = [page EXCEPT ![t] = [page[t] EXCEPT !.starting = page[t].starting + 1]]
      BY <1>0, <1>1 DEF Mount, ClickStart
    <3> QED BY <1>0, <3>1, <3>2, <3>3
  <2> QED BY <1>0, <1>1, <2>1, StartKeepsStreams DEF Mount, ClickStart, PagesTypeOK
<1>2. CASE Started(t)
  <2>1. PICK z \in Streams :
          /\ stream[z].status = "new"
          /\ stream' = [stream EXCEPT ![z] =
               [stream[z] EXCEPT !.status = "open", !.page = t, !.since = epoch]]
          /\ page' = [page EXCEPT ![t] =
               [page[t] EXCEPT !.recording = TRUE, !.ref = z, !.starting = @ - 1]]
    BY <1>2 DEF Started
  <2>2. UNCHANGED server /\ page[t].starting > 0 /\ epoch \in Nat
    BY <1>2, CaptureAssumption DEF Started, SimulatorInv, BufferSound, SimulatorTypeOK
  <2>3. page' \in [Pages -> Page]
    <3>1. page[t].starting - 1 \in Nat
      BY <1>0, <2>2 DEF Page
    <3>2. [page[t] EXCEPT !.recording = TRUE, !.ref = z, !.starting = page[t].starting - 1] \in Page
      BY <1>0, <3>1 DEF Page
    <3>3. page' = [page EXCEPT ![t] =
            [page[t] EXCEPT !.recording = TRUE, !.ref = z, !.starting = page[t].starting - 1]]
      BY <2>1
    <3> QED BY <1>0, <3>2, <3>3
  <2>4. stream' \in [Streams -> Stream]
    BY <1>0, <2>1, <2>2 DEF Stream
  <2>5. ASSUME NEW s \in Streams PROVE SameOrClosed(s) \/ Opened(s)
    BY <1>0, <2>1 DEF SameOrClosed, Opened, Kept, Stream
  <2> QED BY <2>2, <2>3, <2>4, <2>5, StreamsKept DEF PagesTypeOK, server
<1>3. CASE ClickStop(t)
  <2>1. page' \in [Pages -> Page]
    BY <1>0, <1>3 DEF ClickStop, Page
  <2>2. UNCHANGED <<counter, buffer, pending, epoch, born, stream>>
    BY <1>3 DEF ClickStop, StopCapture
  <2> QED BY <1>0, <2>1, <2>2, ClosingKeeps, StreamsKept DEF PagesTypeOK
<1>4. CASE Stopped(t) \/ Unmount(t)
  <2>1. page' \in [Pages -> Page]
    <3>1. CASE Stopped(t)
      <4>1. page[t].stopping - 1 \in Nat
        BY <1>0, <3>1 DEF Stopped, Page
      <4>2. [page[t] EXCEPT !.recording = FALSE, !.ref = None,
                            !.stopping = page[t].stopping - 1] \in Page
        BY <1>0, <4>1 DEF Page
      <4>3. page' = [page EXCEPT ![t] =
              [page[t] EXCEPT !.recording = FALSE, !.ref = None,
                              !.stopping = page[t].stopping - 1]]
        BY <3>1 DEF Stopped
      <4> QED BY <1>0, <4>2, <4>3
    <3>2. CASE Unmount(t)
      <4>1. [page[t] EXCEPT !.status = "gone", !.ref = None] \in Page
        BY <1>0 DEF Page
      <4>2. page' = [page EXCEPT ![t] = [page[t] EXCEPT !.status = "gone", !.ref = None]]
        BY <3>2 DEF Unmount
      <4> QED BY <1>0, <4>1, <4>2
    <3> QED BY <1>4, <3>1, <3>2
  <2>2. UNCHANGED server /\ (stream' = stream \/ stream' = Closed(page[t].ref))
    BY <1>4 DEF Stopped, Unmount, CloseRef
  <2>3. stream' \in [Streams -> Stream] /\ \A s \in Streams : SameOrClosed(s)
    BY <1>0, <2>2, ClosingKeeps
  <2> QED BY <2>1, <2>2, <2>3, StreamsKept DEF PagesTypeOK, server
<1>5. CASE AnswerLost(t)
  <2>1. page' \in [Pages -> Page]
    BY <1>0, <1>5 DEF AnswerLost, Page
  <2>2. UNCHANGED server /\ stream' = stream
    BY <1>5 DEF AnswerLost
  <2> QED BY <1>0, <2>1, <2>2, ClosingKeeps, StreamsKept DEF PagesTypeOK, server
<1>6. CASE ClickClear(t)
  <2>1. /\ buffer' = <<>> /\ epoch' = epoch + 1 /\ pending' = {} /\ born' = born
        /\ stream' = stream /\ page' = page
    BY <1>6 DEF ClickClear, ClearPackets
  <2> QED BY <1>0, <2>1, ClosingKeeps, StreamsReset DEF PagesTypeOK
<1> QED BY <1>1, <1>2, <1>3, <1>4, <1>5, <1>6 DEF PageStep

LEMMA NextKeepsStreams ==
  ASSUME SimulatorInv, StreamsInv, [Next]_vars
  PROVE  StreamsInv'
<1>0. /\ PagesTypeOK /\ stream \in [Streams -> Stream] /\ page \in [Pages -> Page]
  BY DEF StreamsInv, PagesTypeOK
<1>1. CASE UNCHANGED vars
  BY <1>0, <1>1, ClosingKeeps, StreamsKept DEF vars, server, PagesTypeOK
<1>2. ASSUME NEW s \in Streams, StreamError(s) PROVE StreamsInv'
  <2>1. page' \in [Pages -> Page]
    BY <1>0, <1>2 DEF StreamError, Page
  <2>2. UNCHANGED server /\ stream' = Closed(s)
    BY <1>2 DEF StreamError
  <2> QED BY <1>0, <2>1, <2>2, ClosingKeeps, StreamsKept DEF PagesTypeOK, server
<1>3. CASE Crash
  <2>1. /\ buffer' = <<>> /\ epoch' = epoch + 1 /\ pending' = {} /\ born' = born
        /\ stream' = [s \in Streams |->
             IF stream[s].status = "open" THEN [stream[s] EXCEPT !.status = "closed"]
             ELSE stream[s]]
    BY <1>3 DEF Crash
  <2>2. page' \in [Pages -> Page]
    BY <1>0, <1>3 DEF Crash, Page
  <2>3. ASSUME NEW s \in Streams PROVE stream'[s] \in Stream /\ SameOrClosed(s)
    <3>1. stream[s] \in Stream
      BY <1>0
    <3> QED BY <2>1, <3>1 DEF Stream, SameOrClosed, Kept
  <2>4. stream' \in [Streams -> Stream]
    BY <2>1, <2>3
  <2> QED BY <2>1, <2>2, <2>3, <2>4, StreamsReset DEF PagesTypeOK
<1> QED
  BY <1>1, <1>2, <1>3, TickKeepsStreams, StreamTickKeepsStreams, PageKeepsStreams DEF Next

(* A stream sends each packet at most once, and leaves out none but those  *)
(* that its limit or a reset of the numbers explains, whatever is started, *)
(* cleared, evicted and lost between its ticks                             *)
(* (packets.handlers.ts:32-39).                                            *)
THEOREM StreamsSound == Spec => []StreamsExact
<1>1. Init => StreamsInv
  BY StreamsStart
<1>2. SimulatorInv /\ StreamsInv /\ [Next]_vars => StreamsInv'
  BY NextKeepsStreams
<1>3. StreamsInv => StreamsExact
  BY DEF StreamsInv, StreamsExact, StreamNeverRepeats, SkipsExplained, SentOK, SkipsOK
<1> QED BY <1>1, <1>2, <1>3, Invariance, PTL DEF Spec
=============================================================================
