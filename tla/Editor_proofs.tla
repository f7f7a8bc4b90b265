--------------------------- MODULE Editor_proofs ---------------------------
(***************************************************************************)
(* That the server follows the canvas of the editor (module Editor), that  *)
(* a design tool reports on the design it was opened on, and that what the *)
(* user removes can be brought back: for any canvas, any number of edits   *)
(* and any number of requests under way.                                   *)
(***************************************************************************)
EXTENDS Editor, Algorithms_proofs, TLAPS

Reads == {"load", "reset", "report", "restore"}

Message ==
  [kind : Reads, stage : {"sent"}]
    \cup [kind : {"save"}, stage : {"sent"}, body : Topology]
    \cup [kind : {"patch"}, stage : {"sent"}, node : Ids, config : Configs]
    \cup [kind : Reads, stage : {"answer"}, body : Topology]
    \cup [kind : {"patch"}, stage : {"missing"}]

CanvasOK ==
  /\ doc \in Topology /\ rendered \in Topology /\ remote \in Topology
  /\ saved \in Topology \cup {NoDraft}
  /\ past \in Seq(Topology) /\ future \in Seq(Topology)

RequestsOK ==
  /\ messages \in Seq(Message)
  /\ unsynced \in BOOLEAN /\ known \in BOOLEAN /\ acts \in Nat

EditorTypeOK == CanvasOK /\ RequestsOK

-----------------------------------------------------------------------------
(* Topologies. *)
Linking == {"none", "plain", "tuned"}

LEMMA TopologyParts ==
  ASSUME NEW t \in Topology
  PROVE  /\ t = [cfg |-> t.cfg, link |-> t.link]
         /\ DevicesOf(t) \in SUBSET Ids /\ t.cfg \in [DevicesOf(t) -> Configs]
         /\ t.link \in Linking
<1>1. PICK S \in SUBSET Ids : t \in [cfg : [S -> Configs], link : Linking]
  BY DEF Topology, Linking
<1> QED BY <1>1 DEF DevicesOf

LEMMA MakeTopology ==
  ASSUME NEW S \in SUBSET Ids, NEW f \in [S -> Configs], NEW l \in Linking
  PROVE  [cfg |-> f, link |-> l] \in Topology
<1>1. [cfg |-> f, link |-> l] \in [cfg : [S -> Configs], link : Linking]
  OBVIOUS
<1> QED BY <1>1 DEF Topology, Linking

LEMMA BlankIsTopology == Blank \in Topology
<1>1. <<>> \in [{} -> Configs]
  OBVIOUS
<1> QED BY <1>1, MakeTopology DEF Blank, Linking

(* A device is given a configuration; one that is not there stays away.    *)
LEMMA ConfigSet ==
  ASSUME NEW t \in Topology, NEW n, NEW c \in Configs
  PROVE  /\ [t EXCEPT !.cfg[n] = c] \in Topology
         /\ DevicesOf([t EXCEPT !.cfg[n] = c]) = DevicesOf(t)
<1>1. /\ t = [cfg |-> t.cfg, link |-> t.link] /\ t.link \in Linking
      /\ DevicesOf(t) \in SUBSET Ids /\ t.cfg \in [DevicesOf(t) -> Configs]
  BY TopologyParts
<1> DEFINE f == [t.cfg EXCEPT ![n] = c]
<1>2. f \in [DevicesOf(t) -> Configs]
  BY <1>1
<1>3. [t EXCEPT !.cfg[n] = c] = [cfg |-> f, link |-> t.link]
  BY <1>1
<1> HIDE DEF f
<1>4. DOMAIN f = DevicesOf(t)
  BY <1>2
<1> QED BY <1>1, <1>2, <1>3, <1>4, MakeTopology DEF DevicesOf

LEMMA LinkSet ==
  ASSUME NEW t \in Topology, NEW l \in Linking
  PROVE  /\ [t EXCEPT !.link = l] \in Topology
         /\ DevicesOf([t EXCEPT !.link = l]) = DevicesOf(t)
<1>1. /\ t = [cfg |-> t.cfg, link |-> t.link]
      /\ DevicesOf(t) \in SUBSET Ids /\ t.cfg \in [DevicesOf(t) -> Configs]
  BY TopologyParts
<1>2. [t EXCEPT !.link = l] = [cfg |-> t.cfg, link |-> l]
  BY <1>1
<1> QED BY <1>1, <1>2, MakeTopology DEF DevicesOf

-----------------------------------------------------------------------------
(* Messages. *)
LEMMA MessageKinds ==
  ASSUME NEW m \in Message
  PROVE  /\ m.stage \in {"sent", "answer", "missing"}
         /\ m.stage = "answer" => m.body \in Topology /\ m.kind \in Reads
         /\ m.stage = "sent" /\ m.kind = "save" => m.body \in Topology /\ m = SaveOf(m.body)
         /\ m.stage = "sent" /\ m.kind = "patch" => m.config \in Configs
         /\ m.stage = "sent" /\ m.kind \notin {"save", "patch"} => m.kind \in Reads /\ m = Read(m.kind)
         /\ m.kind = "report" => m.stage \in {"sent", "answer"} /\ ~ IsWrite(m)
  BY DEF Message, Reads, SaveOf, Read, IsWrite, Writes

LEMMA MakeMessage ==
  ASSUME NEW kind \in Reads, NEW t \in Topology, NEW n \in Ids, NEW c \in Configs
  PROVE  /\ Read(kind) \in Message /\ SaveOf(t) \in Message /\ PatchOf(n, c) \in Message
         /\ [kind |-> kind, stage |-> "answer", body |-> t] \in Message
         /\ [kind |-> "patch", stage |-> "missing"] \in Message
  BY DEF Message, Read, SaveOf, PatchOf

(* What the server holds after a message was handled. *)
After(t, m) == IF IsWrite(m) THEN Written(t, m) ELSE t

LEMMA AfterIsTopology ==
  ASSUME NEW t \in Topology, NEW m \in Message
  PROVE  After(t, m) \in Topology
<1>1. CASE IsWrite(m) /\ m.kind = "patch"
  BY <1>1, MessageKinds, ConfigSet DEF After, IsWrite, Written
<1>2. CASE IsWrite(m) /\ m.kind = "save"
  BY <1>2, MessageKinds DEF After, IsWrite, Written
<1>3. CASE IsWrite(m) /\ m.kind = "restore"
  BY <1>3, EditorAssumption DEF After, IsWrite, Written
<1>4. CASE ~ IsWrite(m)
  BY <1>4 DEF After
<1> QED BY <1>1, <1>2, <1>3, <1>4 DEF IsWrite, Writes

-----------------------------------------------------------------------------
(* What the server will hold, message by message, when the messages ms are *)
(* handled in order from the topology t on: s[j] after the first j.  It is *)
(* known from the k-th on, which saves everything, or from the start.      *)
Trail(s, k, ms, t) ==
  /\ s \in [Nat -> Topology] /\ k \in 0 .. Len(ms)
  /\ k = 0 => s[0] = t
  /\ k # 0 => ms[k] = SaveOf(s[k])
  /\ \A j \in k + 1 .. Len(ms) : s[j] = After(s[j - 1], ms[j])

(* In the end the server holds d.  If fits, it holds the design on when it *)
(* comes to the request of a panel, and ever after.                        *)
InStep(ms, t, d, fits, on) ==
  \E s \in [Nat -> Topology], k \in Nat :
    /\ Trail(s, k, ms, t)
    /\ s[Len(ms)] = d
    /\ fits => \A q \in 1 .. Len(ms) :
                 ms[q] = Read("report") => k < q /\ \A j \in q .. Len(ms) : s[j] = on

QuietUpTo(ms, i) == \A j \in 1 .. i : ~ IsWrite(ms[j])

NotAsked(ms) == \A q \in 1 .. Len(ms) : ms[q] # Read("report")

LEMMA SaveIsWrite ==
  ASSUME NEW t, NEW u
  PROVE  /\ IsWrite(SaveOf(t)) /\ Written(u, SaveOf(t)) = t /\ After(u, SaveOf(t)) = t
         /\ SaveOf(t) # Read("report") /\ ~ IsWrite(Read("report"))
         /\ After(u, Read("report")) = u
  BY DEF IsWrite, SaveOf, Writes, Written, Read, After

(* Nothing changes while nothing is written. *)
LEMMA QuietTrail ==
  ASSUME NEW ms \in Seq(Message), NEW t, NEW s, NEW k, Trail(s, k, ms, t),
         NEW i \in 0 .. Len(ms), QuietUpTo(ms, i), k <= i
  PROVE  k = 0 /\ \A j \in 0 .. i : s[j] = t
<1>1. Len(ms) \in Nat /\ k \in 0 .. Len(ms) /\ i \in Nat
  BY DEF Trail
<1>2. k = 0
  <2> SUFFICES ASSUME k # 0 PROVE FALSE
    BY <1>1
  <2>1. ms[k] = SaveOf(s[k]) /\ k \in 1 .. i
    BY <1>1 DEF Trail
  <2> QED BY <2>1, SaveIsWrite DEF QuietUpTo
<1>3. s[0] = t
  BY <1>2 DEF Trail
<1>4. \A j \in 1 .. i : s[j] = s[j - 1]
  <2> TAKE j \in 1 .. i
  <2>1. j \in k + 1 .. Len(ms)
    BY <1>1, <1>2
  <2>2. s[j] = After(s[j - 1], ms[j])
    BY <2>1 DEF Trail
  <2> QED BY <2>2 DEF After, QuietUpTo
<1> DEFINE changed == {j \in 0 .. i : s[j] # t}
<1>5. changed = {}
  <2> SUFFICES ASSUME changed # {} PROVE FALSE
    OBVIOUS
  <2>1. changed \in SUBSET Nat
    BY <1>1
  <2>2. PICK a \in changed : \A b \in changed : a <= b
    <3> HIDE DEF changed
    <3> QED BY <2>1, LeastNumber
  <2>3. a \in 1 .. i
    BY <1>1, <1>3, <2>2
  <2>4. s[a - 1] = t
    <3>1. a - 1 \in 0 .. i /\ ~ (a <= a - 1)
      BY <1>1, <2>3
    <3> QED BY <2>2, <3>1
  <2> QED BY <1>4, <2>2, <2>3, <2>4
<1> QED BY <1>2, <1>5

(* With nothing left to write, the server holds what it will hold. *)
LEMMA QuietInStep ==
  ASSUME NEW ms \in Seq(Message), NEW t, NEW d, NEW fits, NEW on,
         InStep(ms, t, d, fits, on), QuietUpTo(ms, Len(ms))
  PROVE  t = d
<1>1. PICK s \in [Nat -> Topology], k \in Nat : Trail(s, k, ms, t) /\ s[Len(ms)] = d
  BY DEF InStep
<1>2. Len(ms) \in 0 .. Len(ms) /\ k <= Len(ms)
  BY <1>1 DEF Trail
<1> QED BY <1>1, <1>2, QuietTrail

(* A panel's request that nothing is to be written before finds the design *)
(* that the panel was opened on.                                           *)
LEMMA AskedInStep ==
  ASSUME NEW ms \in Seq(Message), NEW t, NEW d, NEW on, InStep(ms, t, d, TRUE, on),
         NEW i \in 1 .. Len(ms), ms[i] = Read("report"), QuietUpTo(ms, i - 1)
  PROVE  t = on
<1>1. PICK s \in [Nat -> Topology], k \in Nat :
        Trail(s, k, ms, t) /\ k < i /\ \A j \in i .. Len(ms) : s[j] = on
  BY DEF InStep
<1>2. Len(ms) \in Nat /\ i - 1 \in 0 .. Len(ms) /\ k <= i - 1 /\ i \in i .. Len(ms)
  BY <1>1
<1>3. k = 0 /\ s[i - 1] = t
  BY <1>1, <1>2, QuietTrail
<1>4. s[i] = After(s[i - 1], ms[i])
  BY <1>1, <1>2, <1>3 DEF Trail
<1> QED BY <1>1, <1>2, <1>3, <1>4, SaveIsWrite

(* What the panel is shown is of no interest any more. *)
LEMMA WeakerInStep ==
  ASSUME NEW ms, NEW t, NEW d, NEW fits, NEW on, InStep(ms, t, d, fits, on),
         NEW g, NEW other, g => NotAsked(ms)
  PROVE  InStep(ms, t, d, g, other)
<1>1. PICK s \in [Nat -> Topology], k \in Nat : Trail(s, k, ms, t) /\ s[Len(ms)] = d
  BY DEF InStep
<1> QED BY <1>1 DEF InStep, NotAsked

(* With nothing left to write, any server is in step with itself. *)
LEMMA QuietStart ==
  ASSUME NEW ms \in Seq(Message), NEW t \in Topology, QuietUpTo(ms, Len(ms)),
         NEW fits, NEW on, fits => NotAsked(ms)
  PROVE  InStep(ms, t, t, fits, on)
<1> DEFINE s == [j \in Nat |-> t]
<1>1. s \in [Nat -> Topology] /\ Len(ms) \in Nat /\ s[Len(ms)] = t /\ 0 \in Nat
  OBVIOUS
<1>2. Trail(s, 0, ms, t)
  <2>1. ASSUME NEW j \in 1 .. Len(ms) PROVE s[j] = After(s[j - 1], ms[j])
    BY DEF After, QuietUpTo
  <2> QED BY <1>1, <2>1 DEF Trail
<1> HIDE DEF s
<1> QED BY <1>1, <1>2 DEF InStep, NotAsked

-----------------------------------------------------------------------------
(* A message that is no write goes. *)
LEMMA RemoveInStep ==
  ASSUME NEW ms \in Seq(Message), NEW t, NEW d, NEW fits, NEW on,
         InStep(ms, t, d, fits, on),
         NEW i \in 1 .. Len(ms), ~ IsWrite(ms[i])
  PROVE  InStep(RemoveAt(ms, i), t, d, fits, on)
<1>1. PICK s \in [Nat -> Topology], k \in Nat :
        /\ Trail(s, k, ms, t)
        /\ s[Len(ms)] = d
        /\ fits => \A q \in 1 .. Len(ms) :
                     ms[q] = Read("report") => k < q /\ \A j \in q .. Len(ms) : s[j] = on
  BY DEF InStep
<1> DEFINE r == RemoveAt(ms, i)
           u == [j \in Nat |-> IF j < i THEN s[j] ELSE s[j + 1]]
           l == IF k < i THEN k ELSE k - 1
<1>2. /\ Len(ms) \in Nat /\ Len(r) = Len(ms) - 1
      /\ \A j \in 1 .. Len(ms) - 1 : r[j] = IF j < i THEN ms[j] ELSE ms[j + 1]
  BY RemoveAtElements
<1>3. /\ k \in 0 .. Len(ms) /\ (k = 0 => s[0] = t) /\ (k # 0 => ms[k] = SaveOf(s[k]))
      /\ \A j \in k + 1 .. Len(ms) : s[j] = After(s[j - 1], ms[j])
  BY <1>1 DEF Trail
<1>4. k # i
  BY <1>3, SaveIsWrite
<1>5. i > k => s[i] = s[i - 1]
  <2> SUFFICES ASSUME i > k PROVE s[i] = s[i - 1]
    OBVIOUS
  <2>1. i \in k + 1 .. Len(ms)
    OBVIOUS
  <2> QED BY <1>3, <2>1 DEF After
<1>6. /\ u \in [Nat -> Topology] /\ i \in Nat /\ k \in Nat
      /\ l \in 0 .. Len(r) /\ l = IF k < i THEN k ELSE k - 1
  BY <1>2, <1>3, <1>4
<1>7. \A j \in Nat : u[j] = IF j < i THEN s[j] ELSE s[j + 1]
  OBVIOUS
<1> HIDE DEF r, u, l
<1>8. Trail(u, l, r, t)
  <2>1. l = 0 => u[0] = t
    BY <1>3, <1>4, <1>6, <1>7
  <2>2. l # 0 => r[l] = SaveOf(u[l])
    <3> SUFFICES ASSUME l # 0 PROVE r[l] = SaveOf(u[l])
      OBVIOUS
    <3>1. k # 0 /\ l \in 1 .. Len(ms) - 1 /\ k \in 1 .. Len(ms)
      BY <1>2, <1>3, <1>6
    <3>2. CASE k < i
      BY <1>2, <1>3, <1>6, <1>7, <3>1, <3>2
    <3>3. CASE k > i
      <4>1. l + 1 = k /\ ~ (l < i) /\ l \in Nat
        BY <1>6, <3>1, <3>3
      <4>2. u[l] = s[k] /\ r[l] = ms[k]
        BY <1>2, <1>7, <3>1, <4>1
      <4> QED BY <1>3, <3>1, <4>2
    <3> QED BY <1>4, <1>6, <3>2, <3>3
  <2>3. ASSUME NEW j \in l + 1 .. Len(r) PROVE u[j] = After(u[j - 1], r[j])
    <3>0. j \in 1 .. Len(ms) - 1 /\ j - 1 \in Nat /\ j \in Nat
      BY <1>2, <1>6, <2>3
    <3>1. CASE j < i
      <4>1. j \in k + 1 .. Len(ms) /\ u[j] = s[j] /\ u[j - 1] = s[j - 1] /\ r[j] = ms[j]
        <5>1. j \in k + 1 .. Len(ms)
          BY <1>2, <1>4, <1>6, <2>3, <3>0, <3>1
        <5> QED BY <1>2, <1>6, <1>7, <3>0, <3>1, <5>1
      <4> QED BY <1>3, <4>1
    <3>2. CASE j >= i
      <4>1. j + 1 \in k + 1 .. Len(ms) /\ u[j] = s[j + 1] /\ r[j] = ms[j + 1]
        <5>1. j + 1 \in k + 1 .. Len(ms)
          BY <1>2, <1>6, <2>3, <3>0, <3>2
        <5>2. ~ (j < i)
          BY <1>6, <3>0, <3>2
        <5> QED BY <1>2, <1>7, <3>0, <5>1, <5>2
      <4>2. u[j - 1] = s[j]
        <5>1. CASE j = i
          BY <1>4, <1>5, <1>6, <1>7, <2>3, <3>0, <5>1
        <5>2. CASE j > i
          BY <1>6, <1>7, <3>0, <5>2
        <5> QED BY <1>6, <3>0, <3>2, <5>1, <5>2
      <4>3. s[j + 1] = After(s[(j + 1) - 1], ms[j + 1]) /\ (j + 1) - 1 = j
        BY <1>3, <3>0, <4>1
      <4> QED BY <4>1, <4>2, <4>3
    <3> QED BY <1>6, <3>0, <3>1, <3>2
  <2> QED BY <1>6, <2>1, <2>2, <2>3 DEF Trail
<1>9. u[Len(r)] = d
  <2>1. CASE i = Len(ms)
    BY <1>1, <1>2, <1>3, <1>4, <1>5, <1>6, <1>7, <2>1
  <2>2. CASE i < Len(ms)
    BY <1>1, <1>2, <1>6, <1>7, <2>2
  <2> QED BY <1>2, <2>1, <2>2
<1>10. ASSUME fits, NEW q \in 1 .. Len(r), r[q] = Read("report")
       PROVE  l < q /\ \A j \in q .. Len(r) : u[j] = on
  <2>0. q \in 1 .. Len(ms) - 1
    BY <1>2
  <2>1. CASE q < i
    <3>1. ms[q] = Read("report") /\ q \in 1 .. Len(ms)
      BY <1>2, <1>10, <2>0, <2>1
    <3>2. k < q /\ \A j \in q .. Len(ms) : s[j] = on
      BY <1>1, <1>10, <3>1
    <3>3. l < q
      BY <1>6, <2>0, <2>1, <3>2
    <3>4. ASSUME NEW j \in q .. Len(r) PROVE u[j] = on
      <4>1. j \in Nat /\ j \in q .. Len(ms) /\ j + 1 \in q .. Len(ms)
        BY <1>2, <2>0
      <4> QED BY <1>7, <3>2, <4>1
    <3> QED BY <3>3, <3>4
  <2>2. CASE q >= i
    <3>1. ms[q + 1] = Read("report") /\ q + 1 \in 1 .. Len(ms)
      BY <1>2, <1>10, <2>0, <2>2
    <3>2. k < q + 1 /\ \A j \in q + 1 .. Len(ms) : s[j] = on
      BY <1>1, <1>10, <3>1
    <3>3. l < q
      BY <1>4, <1>6, <2>0, <2>2, <3>2
    <3>4. \A j \in q .. Len(r) : j \in Nat /\ ~ (j < i) /\ j + 1 \in q + 1 .. Len(ms)
      BY <1>2, <1>6, <2>0, <2>2
    <3> QED BY <1>7, <3>2, <3>3, <3>4
  <2> QED BY <1>6, <2>0, <2>1, <2>2
<1>11. l \in Nat
  BY <1>2, <1>6
<1> QED BY <1>6, <1>8, <1>9, <1>10, <1>11 DEF InStep, r

(* A message that is no write becomes another. *)
LEMMA ReplaceInStep ==
  ASSUME NEW ms \in Seq(Message), NEW t, NEW d, NEW fits, NEW on,
         InStep(ms, t, d, fits, on),
         NEW i \in 1 .. Len(ms), ~ IsWrite(ms[i]),
         NEW m \in Message, ~ IsWrite(m), m # Read("report")
  PROVE  InStep(ReplaceAt(ms, i, m), t, d, fits, on)
<1>1. PICK s \in [Nat -> Topology], k \in Nat :
        /\ Trail(s, k, ms, t)
        /\ s[Len(ms)] = d
        /\ fits => \A q \in 1 .. Len(ms) :
                     ms[q] = Read("report") => k < q /\ \A j \in q .. Len(ms) : s[j] = on
  BY DEF InStep
<1> DEFINE r == ReplaceAt(ms, i, m)
<1>2. Len(r) = Len(ms) /\ Len(ms) \in Nat /\ \A j \in 1 .. Len(ms) : r[j] = IF j = i THEN m ELSE ms[j]
  <2>1. Len(ms) \in Nat
    OBVIOUS
  <2> QED BY <2>1, ReplaceAtElements
<1> HIDE DEF r
<1>3. k # i
  BY <1>1, SaveIsWrite DEF Trail
<1>4. Trail(s, k, r, t)
  <2>1. k # 0 => r[k] = SaveOf(s[k])
    BY <1>1, <1>2, <1>3 DEF Trail
  <2>2. ASSUME NEW j \in k + 1 .. Len(r) PROVE s[j] = After(s[j - 1], r[j])
    <3>1. j \in 1 .. Len(ms) /\ s[j] = After(s[j - 1], ms[j])
      BY <1>1, <1>2 DEF Trail
    <3> QED BY <1>2, <3>1 DEF After
  <2> QED BY <1>1, <1>2, <2>1, <2>2 DEF Trail
<1>5. ASSUME fits, NEW q \in 1 .. Len(r), r[q] = Read("report")
      PROVE  k < q /\ \A j \in q .. Len(r) : s[j] = on
  BY <1>1, <1>2, <1>5
<1> QED BY <1>1, <1>2, <1>4, <1>5 DEF InStep, r

(* The first write is handled, and leaves its answer or nothing. *)
LEMMA AnsweredInStep ==
  ASSUME NEW ms \in Seq(Message), NEW t \in Topology, NEW d, NEW fits, NEW on,
         InStep(ms, t, d, fits, on),
         NEW i \in 1 .. Len(ms), IsWrite(ms[i]), QuietUpTo(ms, i - 1),
         NEW m \in Message, ~ IsWrite(m), m # Read("report")
  PROVE  InStep(ReplaceAt(ms, i, m), Written(t, ms[i]), d, fits, on)
<1>1. PICK s \in [Nat -> Topology], k \in Nat :
        /\ Trail(s, k, ms, t)
        /\ s[Len(ms)] = d
        /\ fits => \A q \in 1 .. Len(ms) :
                     ms[q] = Read("report") => k < q /\ \A j \in q .. Len(ms) : s[j] = on
  BY DEF InStep
<1> DEFINE r == ReplaceAt(ms, i, m)
           w == Written(t, ms[i])
           u == [j \in Nat |-> IF j < i THEN w ELSE s[j]]
           l == IF k <= i THEN 0 ELSE k
<1>2. Len(r) = Len(ms) /\ \A j \in 1 .. Len(ms) : r[j] = IF j = i THEN m ELSE ms[j]
  BY ReplaceAtElements
<1>3. /\ Len(ms) \in Nat /\ i \in Nat /\ k \in 0 .. Len(ms)
      /\ (k = 0 => s[0] = t) /\ (k # 0 => ms[k] = SaveOf(s[k]))
      /\ \A j \in k + 1 .. Len(ms) : s[j] = After(s[j - 1], ms[j])
  BY <1>1 DEF Trail
<1>4. w \in Topology
  BY AfterIsTopology DEF After
<1>5. k <= i => s[i] = w
  <2>1. CASE k = i
    BY <1>3, <2>1, SaveIsWrite
  <2>2. CASE k < i
    <3>1. i - 1 \in 0 .. Len(ms) /\ k <= i - 1 /\ i \in k + 1 .. Len(ms) /\ i - 1 \in 0 .. i - 1
      BY <1>3, <2>2
    <3>2. s[i - 1] = t
      BY <1>1, <3>1, QuietTrail
    <3>3. s[i] = After(s[i - 1], ms[i])
      BY <1>3, <3>1
    <3> QED BY <3>2, <3>3 DEF After
  <2> QED BY <1>3, <2>1, <2>2
<1>6. u \in [Nat -> Topology] /\ l \in Nat /\ l \in 0 .. Len(r) /\ l = IF k <= i THEN 0 ELSE k
  BY <1>2, <1>3, <1>4
<1>7. \A j \in Nat : u[j] = IF j < i THEN w ELSE s[j]
  OBVIOUS
<1> HIDE DEF r, w, u, l
<1>8. Trail(u, l, r, w)
  <2>1. l = 0 => u[0] = w
    BY <1>3, <1>6, <1>7
  <2>2. l # 0 => r[l] = SaveOf(u[l])
    BY <1>2, <1>3, <1>6, <1>7
  <2>3. ASSUME NEW j \in l + 1 .. Len(r) PROVE u[j] = After(u[j - 1], r[j])
    <3>1. j \in Nat /\ j - 1 \in Nat /\ j \in 1 .. Len(ms)
      BY <1>2, <1>6
    <3>2. CASE j < i
      <4>1. ms[j] = r[j] /\ ~ IsWrite(r[j])
        BY <1>2, <1>3, <3>1, <3>2 DEF QuietUpTo
      <4> QED BY <1>3, <1>7, <3>1, <3>2, <4>1 DEF After
    <3>3. CASE j = i
      <4>1. k <= i /\ r[j] = m
        BY <1>2, <1>3, <1>6, <2>3, <3>1, <3>3
      <4> QED BY <1>3, <1>5, <1>7, <3>1, <3>3, <4>1 DEF After
    <3>4. CASE j > i
      <4>1. j \in k + 1 .. Len(ms) /\ r[j] = ms[j]
        BY <1>2, <1>3, <1>6, <2>3, <3>1, <3>4
      <4>2. ~ (j < i) /\ ~ (j - 1 < i)
        BY <1>3, <3>1, <3>4
      <4> QED BY <1>3, <1>7, <3>1, <4>1, <4>2
    <3> QED BY <1>3, <3>1, <3>2, <3>3, <3>4
  <2> QED BY <1>6, <2>1, <2>2, <2>3 DEF Trail
<1>9. u[Len(r)] = d
  BY <1>1, <1>2, <1>3, <1>7
<1>10. ASSUME fits, NEW q \in 1 .. Len(r), r[q] = Read("report")
       PROVE  l < q /\ \A j \in q .. Len(r) : u[j] = on
  <2>1. q \in 1 .. Len(ms) /\ q # i /\ ms[q] = Read("report") /\ q \in Nat
    BY <1>2, <1>10
  <2>2. k < q /\ \A j \in q .. Len(ms) : s[j] = on
    BY <1>1, <1>10, <2>1
  <2>3. l < q
    BY <1>6, <2>1, <2>2
  <2>4. ASSUME NEW j \in q .. Len(r) PROVE u[j] = on
    <3>1. j \in Nat /\ j \in q .. Len(ms)
      BY <1>2, <2>1
    <3>2. CASE j < i
      <4>1. i \in q .. Len(ms) /\ k <= i
        BY <1>3, <2>1, <2>2, <3>1, <3>2
      <4> QED BY <1>5, <1>7, <2>2, <3>1, <3>2, <4>1
    <3>3. CASE ~ (j < i)
      BY <1>7, <2>2, <3>1, <3>3
    <3> QED BY <3>2, <3>3
  <2> QED BY <2>3, <2>4
<1> QED BY <1>6, <1>8, <1>9, <1>10 DEF InStep, r, w

(* One message takes the place of another. *)
LEMMA MessageReplaced ==
  ASSUME NEW ms \in Seq(Message), NEW i \in 1 .. Len(ms), NEW m \in Message
  PROVE  /\ ReplaceAt(ms, i, m) \in Seq(Message)
         /\ Len(ReplaceAt(ms, i, m)) = Len(ms)
         /\ \A j \in 1 .. Len(ms) : ReplaceAt(ms, i, m)[j] = IF j = i THEN m ELSE ms[j]
BY ReplaceAtElements

LEMMA ServedInStep ==
  ASSUME NEW ms \in Seq(Message), NEW t \in Topology, NEW d, NEW fits, NEW on,
         InStep(ms, t, d, fits, on),
         NEW i \in 1 .. Len(ms), IsWrite(ms[i]), QuietUpTo(ms, i - 1)
  PROVE  InStep(RemoveAt(ms, i), Written(t, ms[i]), d, fits, on)
<1> DEFINE m == [kind |-> "patch", stage |-> "missing"]
           r == ReplaceAt(ms, i, m)
<1>1. m \in Message /\ ~ IsWrite(m) /\ m # Read("report")
  BY DEF Message, IsWrite, Read
<1> HIDE DEF m
<1>2. InStep(r, Written(t, ms[i]), d, fits, on)
  BY <1>1, AnsweredInStep
<1>3. /\ r \in Seq(Message) /\ Len(r) = Len(ms)
      /\ \A j \in 1 .. Len(ms) : r[j] = IF j = i THEN m ELSE ms[j]
  <2>1. /\ ReplaceAt(ms, i, m) \in Seq(Message)
        /\ Len(ReplaceAt(ms, i, m)) = Len(ms)
        /\ \A j \in 1 .. Len(ms) : ReplaceAt(ms, i, m)[j] = IF j = i THEN m ELSE ms[j]
    BY <1>1, MessageReplaced
  <2> QED BY <2>1
<1> HIDE DEF r
<1>4. InStep(RemoveAt(r, i), Written(t, ms[i]), d, fits, on)
  BY <1>1, <1>2, <1>3, RemoveInStep
<1>5. RemoveAt(r, i) = RemoveAt(ms, i)
  <2>1. /\ RemoveAt(r, i) \in Seq(Message) /\ Len(RemoveAt(r, i)) = Len(ms) - 1
        /\ \A j \in 1 .. Len(ms) - 1 : RemoveAt(r, i)[j] = IF j < i THEN r[j] ELSE r[j + 1]
    BY <1>3, RemoveAtElements
  <2>2. /\ RemoveAt(ms, i) \in Seq(Message) /\ Len(RemoveAt(ms, i)) = Len(ms) - 1
        /\ Len(ms) \in Nat
        /\ \A j \in 1 .. Len(ms) - 1 : RemoveAt(ms, i)[j] = IF j < i THEN ms[j] ELSE ms[j + 1]
    BY RemoveAtElements
  <2>3. ASSUME NEW j \in 1 .. Len(ms) - 1 PROVE RemoveAt(r, i)[j] = RemoveAt(ms, i)[j]
    <3>1. CASE j < i
      BY <1>3, <2>1, <2>2, <3>1
    <3>2. CASE j >= i
      <4>1. j + 1 \in 1 .. Len(ms) /\ j + 1 # i /\ ~ (j < i)
        BY <2>2, <3>2
      <4> QED BY <1>3, <2>1, <2>2, <4>1
    <3> QED BY <2>2, <3>1, <3>2
  <2> QED BY <2>1, <2>2, <2>3, SeqEqual
<1> QED BY <1>4, <1>5

(* One more message is sent. *)
LEMMA AppendInStep ==
  ASSUME NEW ms \in Seq(Message), NEW t, NEW d \in Topology, NEW fits, NEW on,
         InStep(ms, t, d, fits, on), NEW m \in Message,
         fits => After(d, m) = d /\ (m = Read("report") => on = d)
  PROVE  InStep(Append(ms, m), t, After(d, m), fits, on)
<1>1. PICK s \in [Nat -> Topology], k \in Nat :
        /\ Trail(s, k, ms, t)
        /\ s[Len(ms)] = d
        /\ fits => \A q \in 1 .. Len(ms) :
                     ms[q] = Read("report") => k < q /\ \A j \in q .. Len(ms) : s[j] = on
  BY DEF InStep
<1> DEFINE r == Append(ms, m)
           n == Len(ms)
           u == [s EXCEPT ![n + 1] = After(d, m)]
<1>2. /\ n \in Nat /\ Len(r) = n + 1 /\ r[n + 1] = m
      /\ \A j \in 1 .. n : r[j] = ms[j]
  BY AppendProperties
<1>3. u \in [Nat -> Topology] /\ u[n + 1] = After(d, m) /\ \A j \in Nat : j # n + 1 => u[j] = s[j]
  BY <1>2, AfterIsTopology
<1> HIDE DEF r, u, n
<1>4. k \in 0 .. n
  BY <1>1 DEF Trail, n
<1>5. Trail(u, k, r, t)
  <2>1. k # n + 1 /\ (k = 0 => u[0] = t)
    BY <1>1, <1>2, <1>3, <1>4 DEF Trail
  <2>2. k # 0 => r[k] = SaveOf(u[k])
    BY <1>1, <1>2, <1>3, <1>4 DEF Trail
  <2>3. ASSUME NEW j \in k + 1 .. Len(r) PROVE u[j] = After(u[j - 1], r[j])
    <3>1. CASE j = n + 1
      <4>1. u[j - 1] = d
        BY <1>1, <1>2, <1>3, <3>1 DEF n
      <4> QED BY <1>2, <1>3, <3>1, <4>1
    <3>2. CASE j # n + 1
      <4>1. j \in k + 1 .. Len(ms) /\ j \in Nat /\ j - 1 \in Nat /\ j - 1 # n + 1 /\ j \in 1 .. n
        BY <1>2, <1>4, <3>2 DEF n
      <4>2. s[j] = After(s[j - 1], ms[j])
        BY <1>1, <4>1 DEF Trail
      <4> QED BY <1>2, <1>3, <3>2, <4>1, <4>2
    <3> QED BY <3>1, <3>2
  <2>4. k \in 0 .. Len(r)
    BY <1>2, <1>4
  <2> QED BY <1>3, <2>1, <2>2, <2>3, <2>4 DEF Trail
<1>6. ASSUME fits, NEW q \in 1 .. Len(r), r[q] = Read("report")
      PROVE  k < q /\ \A j \in q .. Len(r) : u[j] = on
  <2>1. CASE q = n + 1
    <3>1. on = d /\ u[n + 1] = d
      BY <1>2, <1>3, <1>6, <2>1
    <3> QED BY <1>2, <1>4, <2>1, <3>1
  <2>2. CASE q # n + 1
    <3>1. q \in 1 .. Len(ms) /\ ms[q] = Read("report") /\ n \in q .. Len(ms)
      BY <1>2, <1>6, <2>2 DEF n
    <3>2. k < q /\ \A j \in q .. Len(ms) : s[j] = on
      BY <1>1, <1>6, <3>1
    <3>3. s[n] = d /\ d = on
      BY <1>1, <3>1, <3>2 DEF n
    <3>4. u[n + 1] = on
      BY <1>3, <1>6, <3>3
    <3>5. ASSUME NEW j \in q .. Len(r) PROVE u[j] = on
      <4>1. j = n + 1 \/ (j \in Nat /\ j # n + 1 /\ j \in q .. Len(ms))
        BY <1>2, <3>1 DEF n
      <4> QED BY <1>3, <3>2, <3>4, <4>1
    <3> QED BY <3>2, <3>5
  <2> QED BY <2>1, <2>2
<1> QED BY <1>2, <1>3, <1>5, <1>6 DEF InStep, r

(* A save of everything brings the server in step, whatever went before.   *)
LEMMA SaveInStep ==
  ASSUME NEW ms \in Seq(Message), NEW t, NEW d \in Topology, NEW fits, NEW on,
         fits => NotAsked(ms)
  PROVE  InStep(Append(ms, SaveOf(d)), t, d, fits, on)
<1> DEFINE r == Append(ms, SaveOf(d))
           s == [j \in Nat |-> d]
           k == Len(ms) + 1
<1>1. SaveOf(d) \in Message /\ SaveOf(d) # Read("report")
  BY SaveIsWrite DEF Message, SaveOf
<1>2. /\ k \in Nat /\ Len(r) = k /\ k # 0 /\ r[k] = SaveOf(d)
      /\ \A j \in 1 .. Len(ms) : r[j] = ms[j]
  BY <1>1, AppendProperties
<1>3. s \in [Nat -> Topology] /\ s[k] = d
  BY <1>2
<1> HIDE DEF r, s
<1>4. Trail(s, k, r, t)
  <2>1. k + 1 .. Len(r) = {} /\ k \in 0 .. Len(r)
    BY <1>2
  <2> HIDE DEF k
  <2> QED BY <1>2, <1>3, <2>1 DEF Trail
<1>5. ASSUME fits, NEW q \in 1 .. Len(r) PROVE r[q] # Read("report")
  <2>1. CASE q = k
    BY <1>1, <1>2, <2>1
  <2>2. CASE q # k
    <3>1. q \in 1 .. Len(ms)
      BY <1>2, <2>2
    <3> QED BY <1>2, <1>5, <3>1 DEF NotAsked
  <2> QED BY <2>1, <2>2
<1> QED BY <1>2, <1>3, <1>4, <1>5 DEF InStep, r

-----------------------------------------------------------------------------
(* The panel of a design tool asks once. *)
IsAsked(ms, q) == q \in 1 .. Len(ms) /\ ms[q].kind = "report"

AskedOnce(ms) == \A p, q \in 1 .. Len(ms) : IsAsked(ms, p) /\ IsAsked(ms, q) => p = q

(* No request or answer of a panel is new in ns. *)
NoneAsked(ms, ns) ==
  \A q \in 1 .. Len(ns) : IsAsked(ns, q) => \E p \in 1 .. Len(ms) : ns[q] = ms[p]

LEMMA RemoveAsked ==
  ASSUME NEW ms \in Seq(Message), AskedOnce(ms), NEW i \in 1 .. Len(ms)
  PROVE  /\ RemoveAt(ms, i) \in Seq(Message)
         /\ AskedOnce(RemoveAt(ms, i)) /\ NoneAsked(ms, RemoveAt(ms, i))
         /\ IsAsked(ms, i) => \A q \in 1 .. Len(RemoveAt(ms, i)) : ~ IsAsked(RemoveAt(ms, i), q)
<1> DEFINE r == RemoveAt(ms, i)
<1>1. /\ r \in Seq(Message) /\ Len(ms) \in Nat /\ Len(r) = Len(ms) - 1
      /\ \A j \in 1 .. Len(ms) - 1 : r[j] = IF j < i THEN ms[j] ELSE ms[j + 1]
  BY RemoveAtElements
<1> HIDE DEF r
<1> DEFINE At(q) == IF q < i THEN q ELSE q + 1
<1>2. ASSUME NEW q \in 1 .. Len(r)
      PROVE  At(q) \in 1 .. Len(ms) /\ r[q] = ms[At(q)] /\ At(q) # i
  BY <1>1
<1>3. \A p, q \in 1 .. Len(r) : At(p) = At(q) => p = q
  BY <1>1
<1> HIDE DEF At
<1> QED BY <1>1, <1>2, <1>3 DEF AskedOnce, NoneAsked, IsAsked, r

LEMMA ReplaceAsked ==
  ASSUME NEW ms \in Seq(Message), AskedOnce(ms), NEW i \in 1 .. Len(ms),
         NEW m \in Message, m.kind # "report" \/ IsAsked(ms, i)
  PROVE  /\ ReplaceAt(ms, i, m) \in Seq(Message)
         /\ AskedOnce(ReplaceAt(ms, i, m))
         /\ m.kind # "report" => NoneAsked(ms, ReplaceAt(ms, i, m))
<1>1. Len(ms) \in Nat
  OBVIOUS
<1>2. /\ ReplaceAt(ms, i, m) \in Seq(Message) /\ Len(ReplaceAt(ms, i, m)) = Len(ms)
      /\ \A j \in 1 .. Len(ms) : ReplaceAt(ms, i, m)[j] = IF j = i THEN m ELSE ms[j]
  BY <1>1, ReplaceAtElements
<1> QED BY <1>2 DEF AskedOnce, NoneAsked, IsAsked

LEMMA AppendAsked ==
  ASSUME NEW ms \in Seq(Message), AskedOnce(ms), NEW m \in Message
  PROVE  /\ Append(ms, m) \in Seq(Message)
         /\ m.kind # "report" => AskedOnce(Append(ms, m)) /\ NoneAsked(ms, Append(ms, m))
         /\ (\A q \in 1 .. Len(ms) : ~ IsAsked(ms, q)) => AskedOnce(Append(ms, m))
<1>1. /\ Append(ms, m) \in Seq(Message) /\ Len(ms) \in Nat /\ Len(Append(ms, m)) = Len(ms) + 1
      /\ \A i \in 1.. Len(ms) : Append(ms, m)[i] = ms[i]
      /\ Append(ms, m)[Len(ms) + 1] = m
  BY AppendProperties
<1>2. \A q \in 1 .. Len(ms) + 1 : q = Len(ms) + 1 \/ q \in 1 .. Len(ms)
  BY <1>1
<1> QED BY <1>1, <1>2 DEF AskedOnce, NoneAsked, IsAsked

(* The requests that are sent in one go. *)
LEMMA Posted ==
  ASSUME NEW ms \in Seq(Message), NEW a \in Message, NEW b \in Message
  PROVE  /\ ms \o <<a>> = Append(ms, a)
         /\ ms \o (<<a>> \o <<>>) = Append(ms, a)
         /\ ms \o (<<a>> \o <<b>>) = Append(Append(ms, a), b)
<1>1. <<a>> \in Seq(Message) /\ <<b>> \in Seq(Message) /\ Append(ms, a) \in Seq(Message)
  OBVIOUS
<1>2. ms \o <<a>> = Append(ms, a)
  BY AppendIsConcat
<1>3. <<a>> \o <<>> = <<a>>
  BY <1>1, ConcatEmptySeq
<1>4. ms \o (<<a>> \o <<b>>) = (ms \o <<a>>) \o <<b>>
  BY <1>1, ConcatAssociative
<1>5. Append(ms, a) \o <<b>> = Append(Append(ms, a), b)
  BY <1>1, AppendIsConcat
<1> QED BY <1>2, <1>3, <1>4, <1>5

LEMMA PrefixQuiet ==
  ASSUME NEW ms \in Seq(Message), NEW i \in 1 .. Len(ms), Quiet(SubSeq(ms, 1, i - 1))
  PROVE  QuietUpTo(ms, i - 1)
<1>1. \A j \in 1 .. i - 1 : ms[j] \in Message
  OBVIOUS
<1>2. /\ Len(SubSeq(ms, 1, i - 1)) = i - 1
      /\ \A j \in 1 .. i - 1 : SubSeq(ms, 1, i - 1)[j] = ms[j]
  BY <1>1, SubSeqProperties
<1> QED BY <1>2 DEF Quiet, QuietUpTo

-----------------------------------------------------------------------------
Fits == ~ report.behind /\ report.at = acts

(* Unless unsynced, the writes under way bring the server to what is on    *)
(* the canvas; and before a panel's request is handled, to the design that *)
(* the panel was opened on, as long as the report fits.  An answer under   *)
(* way is no write, so it does not matter here.                            *)
SyncInv == ~ unsynced => InStep(messages, remote, doc, Fits, report.on)

(* A panel that waits knows when the server fell behind; what it was       *)
(* answered is what it was opened on, or it does not fit.                  *)
PanelInv ==
  /\ report # NoReport => report \in ReportPanel /\ report.at <= acts
  /\ AskedOnce(messages)
  /\ Asking # {} => report # NoReport
  /\ Waiting /\ unsynced /\ report.at = acts => report.behind
  /\ \A q \in Asking : messages[q].stage = "answer" /\ Fits => messages[q].body = report.on
  /\ report # NoReport /\ report.shows # NoReport /\ Fits => report.shows = report.on

EditorInv == EditorTypeOK /\ SyncInv /\ PanelInv

LEMMA AskingMeans ==
  ASSUME messages \in Seq(Message)
  PROVE  /\ Asking = {q \in 1 .. Len(messages) : IsAsked(messages, q)}
         /\ Waiting <=> ~ NotAsked(messages)
         /\ \A q \in 1 .. Len(messages) :
              messages[q] = Read("report") <=> q \in Asking /\ messages[q].stage = "sent"
<1>1. \A q \in 1 .. Len(messages) : messages[q] \in Message
  OBVIOUS
<1>2. \A q \in 1 .. Len(messages) :
        messages[q] = Read("report") <=> messages[q].kind = "report" /\ messages[q].stage = "sent"
  <2> TAKE q \in 1 .. Len(messages)
  <2>1. messages[q] \in Message
    BY <1>1
  <2>2. Read("report").kind = "report" /\ Read("report").stage = "sent"
    BY DEF Read
  <2> QED BY <2>1, <2>2, MessageKinds
<1> QED BY <1>2 DEF Asking, Waiting, NotAsked, IsAsked

(* What becomes of the panel when a request is handled or fails, or an     *)
(* answer is taken over.                                                   *)
LEMMA UnsyncKeepsPanel ==
  ASSUME EditorInv, NEW b \in BOOLEAN, Unsync(b), acts' = acts,
         messages' \in Seq(Message), AskedOnce(messages'), NoneAsked(messages, messages')
  PROVE  /\ PanelInv'
         /\ ~ b => report' = report /\ (Fits' <=> Fits)
         /\ ~ b /\ unsynced /\ Fits' => NotAsked(messages')
<1> USE DEF EditorInv, EditorTypeOK, RequestsOK
<1>1. unsynced' = b /\ (Waiting' => Waiting) /\ (Asking' # {} => Asking # {})
  <2>1. \A q \in 1 .. Len(messages') : messages'[q] \in Message
    OBVIOUS
  <2> QED BY <2>1 DEF Unsync, Waiting, Asking, NoneAsked, IsAsked
<1>2. Waiting => report # NoReport /\ report \in ReportPanel
  BY DEF PanelInv, Waiting
<1>3. CASE b /\ Waiting
  <2>1. report' = [report EXCEPT !.behind = TRUE]
    BY <1>3 DEF Unsync
  <2>2. /\ report' \in ReportPanel /\ report'.at = report.at /\ report'.behind = TRUE
        /\ report' # NoReport
    BY <1>2, <1>3, <2>1, ReportAssumption DEF ReportPanel
  <2>3. ~ Fits'
    BY <2>2 DEF Fits
  <2>4. report'.at <= acts'
    BY <1>2, <1>3, <2>2 DEF PanelInv
  <2> QED BY <1>3, <2>2, <2>3, <2>4 DEF PanelInv
<1>4. CASE ~ (b /\ Waiting)
  <2>1. report' = report /\ (Fits' <=> Fits)
    BY <1>4 DEF Unsync, Fits
  <2>2. Waiting' => ~ unsynced'
    BY <1>1, <1>4
  <2>3. ASSUME NEW q \in Asking', messages'[q].stage = "answer", Fits'
        PROVE  messages'[q].body = report'.on
    <3>1. PICK p \in 1 .. Len(messages) : messages'[q] = messages[p]
      BY DEF Asking, NoneAsked, IsAsked
    <3>2. p \in Asking
      BY <3>1 DEF Asking
    <3> QED BY <2>1, <2>3, <3>1, <3>2 DEF PanelInv
  <2>4. PanelInv'
    BY <1>1, <2>1, <2>2, <2>3 DEF PanelInv
  <2>5. ~ b /\ unsynced /\ Fits' => NotAsked(messages')
    <3> SUFFICES ASSUME ~ b, unsynced, Fits', ~ NotAsked(messages') PROVE FALSE
      OBVIOUS
    <3>1. Waiting'
      <4>1. PICK q \in 1 .. Len(messages') : messages'[q] = Read("report")
        BY DEF NotAsked
      <4>2. q \in Asking' /\ messages'[q].stage = "sent"
        BY <4>1 DEF Asking, Read
      <4> QED BY <4>2 DEF Waiting
    <3>2. Waiting /\ ~ report.behind /\ report.at = acts
      BY <1>1, <2>1, <3>1 DEF Fits
    <3> QED BY <3>2 DEF PanelInv
  <2> QED BY <2>1, <2>4, <2>5
<1> QED BY <1>3, <1>4

(* Once the user has done something else, no report has to fit any more.   *)
LEMMA ActKeepsPanel ==
  ASSUME EditorInv, acts' = acts + 1, report' = report,
         messages' \in Seq(Message), AskedOnce(messages'), NoneAsked(messages, messages')
  PROVE  PanelInv' /\ (Fits' => NotAsked(messages'))
<1> USE DEF EditorInv, EditorTypeOK, RequestsOK
<1>1. Asking' # {} => Asking # {}
  BY DEF Asking, NoneAsked, IsAsked
<1>2. report # NoReport => report \in ReportPanel /\ report.at <= acts' /\ report.at # acts'
  BY DEF PanelInv, ReportPanel
<1>3. Asking' # {} => report' # NoReport /\ ~ Fits'
  BY <1>1, <1>2 DEF PanelInv, Fits
<1>4. ~ NotAsked(messages') => Asking' # {}
  BY DEF NotAsked, Asking, Read
<1>5. Waiting' => Asking' # {}
  BY DEF Waiting
<1>6. report' # NoReport => ~ Fits'
  BY <1>2 DEF Fits
<1> QED BY <1>2, <1>3, <1>4, <1>5, <1>6 DEF PanelInv
-----------------------------------------------------------------------------
LEMMA EditorStarts ==
  ASSUME EditorInit
  PROVE  EditorInv
<1> USE EditorAssumption DEF EditorInit
<1>1. Read("load") \in Message /\ messages = <<Read("load")>> /\ Read("load").kind = "load"
  BY DEF Read, Message, Reads
<1>2. EditorTypeOK
  <2>1. CanvasOK
    BY BlankIsTopology DEF CanvasOK
  <2>2. messages \in Seq(Message)
    BY <1>1
  <2> QED BY <2>1, <2>2 DEF EditorTypeOK, RequestsOK
<1>3. Asking = {} /\ AskedOnce(messages)
  BY <1>1 DEF Asking, AskedOnce, IsAsked
<1>4. PanelInv
  BY <1>3 DEF PanelInv, Waiting
<1> QED BY <1>2, <1>4 DEF EditorInv, SyncInv

(* The request of a panel is handled. *)
LEMMA ServeReport ==
  ASSUME EditorInv, NEW i \in 1 .. Len(messages), Serve(i), messages[i].kind = "report"
  PROVE  EditorInv'
<1> USE DEF EditorInv, EditorTypeOK, CanvasOK, RequestsOK
<1> DEFINE over == ~ Quiet(SubSeq(messages, 1, i - 1))
           a == AnswerTo(messages[i], remote)
<1>1. /\ messages[i] \in Message /\ messages[i] = Read("report") /\ i \in Asking /\ Waiting
      /\ IsAsked(messages, i) /\ AskedOnce(messages) /\ ~ IsWrite(messages[i])
  <2>1. messages[i] \in Message /\ messages[i].stage = "sent"
    BY DEF Serve
  <2>2. messages[i] = Read("report")
    BY <2>1, MessageKinds
  <2> QED BY <2>1, <2>2, MessageKinds DEF Asking, Waiting, IsAsked, PanelInv
<1>2. /\ remote' = remote /\ report' = [report EXCEPT !.behind = @ \/ over]
      /\ unsynced' = unsynced /\ messages' = ReplaceAt(messages, i, a)
      /\ UNCHANGED <<doc, rendered, past, future, saved, known, acts>>
  BY DEF Serve, Writes
<1>3. /\ a \in Message /\ a # Read("report") /\ ~ IsWrite(a)
      /\ a.kind = "report" /\ a.stage = "answer" /\ a.body = remote
  BY <1>1 DEF AnswerTo, Read, Message, Reads, IsWrite
<1> HIDE DEF a, over
<1>4. /\ messages' \in Seq(Message) /\ AskedOnce(messages') /\ Len(messages) \in Nat
      /\ Len(messages') = Len(messages)
      /\ \A j \in 1 .. Len(messages) : messages'[j] = IF j = i THEN a ELSE messages[j]
  <2>1. Len(messages) \in Nat
    OBVIOUS
  <2>2. messages' \in Seq(Message) /\ AskedOnce(messages')
    BY <1>1, <1>2, <1>3, ReplaceAsked
  <2>3. /\ Len(ReplaceAt(messages, i, a)) = Len(messages)
        /\ \A j \in 1 .. Len(messages) :
             ReplaceAt(messages, i, a)[j] = IF j = i THEN a ELSE messages[j]
    <3>1. a \in Message /\ messages \in Seq(Message) /\ i \in 1 .. Len(messages)
      BY <1>3
    <3> QED BY <3>1, MessageReplaced
  <2> QED BY <1>2, <2>1, <2>2, <2>3
<1>5. EditorTypeOK'
  BY <1>2, <1>4
<1>6. /\ report # NoReport /\ report \in ReportPanel /\ report.at <= acts
      /\ (unsynced /\ report.at = acts => report.behind)
  BY <1>1 DEF PanelInv
<1>7. /\ report' \in ReportPanel /\ report'.at = report.at /\ report'.on = report.on
      /\ report'.shows = report.shows
      /\ (report'.behind <=> report.behind \/ over)
  <2>1. over \in BOOLEAN
    BY DEF over
  <2> QED BY <1>2, <1>6, <2>1 DEF ReportPanel
<1>8. Fits' => Fits /\ ~ over /\ ~ unsynced
  BY <1>2, <1>6, <1>7 DEF Fits
<1>9. NotAsked(messages')
  <2> SUFFICES ASSUME NEW q \in 1 .. Len(messages'), messages'[q] = Read("report") PROVE FALSE
    BY DEF NotAsked
  <2>1. q # i /\ messages[q] = Read("report") /\ q \in 1 .. Len(messages)
    BY <1>3, <1>4
  <2> QED BY <1>1, <2>1 DEF AskedOnce, IsAsked, Read
<1>10. Asking' = {i} /\ ~ Waiting'
  BY <1>1, <1>3, <1>4 DEF Asking, Waiting, AskedOnce, IsAsked
<1>11. SyncInv'
  <2> SUFFICES ASSUME ~ unsynced' PROVE InStep(messages', remote', doc', Fits', report'.on)
    BY DEF SyncInv
  <2>1. InStep(messages, remote, doc, Fits, report.on)
    BY <1>2 DEF SyncInv
  <2>2. InStep(messages', remote, doc, Fits, report.on)
    BY <1>1, <1>2, <1>3, <2>1, ReplaceInStep
  <2>3. InStep(messages', remote, doc, Fits', report'.on)
    BY <1>9, <2>2, WeakerInStep
  <2> QED BY <1>2, <2>3
<1>12. Fits' => remote = report.on
  <2> SUFFICES ASSUME Fits' PROVE remote = report.on
    OBVIOUS
  <2>1. InStep(messages, remote, doc, Fits, report.on) /\ Fits
    BY <1>8 DEF SyncInv
  <2>2. InStep(messages, remote, doc, TRUE, report.on)
    BY <2>1 DEF InStep
  <2>3. QuietUpTo(messages, i - 1)
    BY <1>8, PrefixQuiet DEF over
  <2> QED BY <1>1, <2>2, <2>3, AskedInStep
<1>13. PanelInv'
  <2>1. report' # NoReport /\ report'.at <= acts'
    BY <1>2, <1>6, <1>7, ReportAssumption
  <2>2. \A q \in Asking' : messages'[q].stage = "answer" /\ Fits' => messages'[q].body = report'.on
    BY <1>3, <1>4, <1>7, <1>10, <1>12
  <2>3. report.shows # NoReport /\ Fits => report.shows = report.on
    BY <1>6 DEF PanelInv
  <2>4. report'.shows # NoReport /\ Fits' => report'.shows = report'.on
    BY <1>7, <1>8, <2>3
  <2> QED BY <1>4, <1>7, <1>10, <2>1, <2>2, <2>4 DEF PanelInv
<1> QED BY <1>5, <1>11, <1>13

(* Another request is handled. *)
LEMMA ServeOther ==
  ASSUME EditorInv, NEW i \in 1 .. Len(messages), Serve(i), messages[i].kind # "report"
  PROVE  EditorInv'
<1> USE DEF EditorInv, EditorTypeOK, CanvasOK, RequestsOK
<1> DEFINE over == ~ Quiet(SubSeq(messages, 1, i - 1))
           r == messages[i]
           b == unsynced \/ (r.kind \in Writes /\ over)
           a == AnswerTo(r, After(remote, r))
<1>1. r \in Message /\ r.stage = "sent" /\ (r.kind \in Writes <=> IsWrite(r)) /\ AskedOnce(messages)
  BY DEF Serve, IsWrite, PanelInv
<1>2. /\ remote' = After(remote, r) /\ Unsync(b) /\ b \in BOOLEAN /\ acts' = acts
      /\ messages' = IF r.kind \in {"save", "patch"} THEN RemoveAt(messages, i)
                     ELSE ReplaceAt(messages, i, a)
      /\ UNCHANGED <<doc, rendered, past, future, saved, known>>
  BY <1>1 DEF Serve, After
<1>3. remote' \in Topology
  BY <1>1, <1>2, AfterIsTopology
<1>4. r.kind \notin {"save", "patch"} =>
        /\ a \in Message /\ ~ IsWrite(a) /\ a.kind # "report" /\ a # Read("report")
        /\ r.kind \in Reads
  <2>1. r.kind \notin {"save", "patch"} => r.kind \in Reads /\ r.kind # "report"
    BY <1>1, MessageKinds
  <2>2. After(remote, r) \in Topology
    BY <1>2, <1>3
  <2> HIDE DEF r
  <2> QED BY <2>1, <2>2 DEF AnswerTo, Read, Message, IsWrite
<1> HIDE DEF a, over, b
<1>5. messages' \in Seq(Message) /\ AskedOnce(messages') /\ NoneAsked(messages, messages')
  <2>1. CASE r.kind \in {"save", "patch"}
    BY <1>1, <1>2, <2>1, RemoveAsked
  <2>2. CASE r.kind \notin {"save", "patch"}
    BY <1>1, <1>2, <1>4, <2>2, ReplaceAsked
  <2> QED BY <2>1, <2>2
<1>6. EditorTypeOK'
  BY <1>2, <1>3, <1>5 DEF Unsync
<1>7. PanelInv' /\ (~ b => report' = report /\ (Fits' <=> Fits))
  BY <1>2, <1>5, UnsyncKeepsPanel
<1>8. SyncInv'
  <2> SUFFICES ASSUME ~ unsynced' PROVE InStep(messages', remote', doc', Fits', report'.on)
    BY DEF SyncInv
  <2>1. ~ b
    BY <1>2 DEF Unsync
  <2>2. InStep(messages, remote, doc, Fits, report.on) /\ report' = report /\ Fits' = Fits
    BY <1>2, <1>7, <2>1 DEF b, SyncInv, Fits
  <2>3. IsWrite(r) => QuietUpTo(messages, i - 1)
    BY <1>1, <2>1, PrefixQuiet DEF b, over
  <2>4. InStep(messages', remote', doc, Fits, report.on)
    <3>1. CASE r.kind \in {"save", "patch"}
      <4>1. IsWrite(r) /\ messages' = RemoveAt(messages, i) /\ remote' = Written(remote, r)
        BY <1>1, <1>2, <3>1 DEF Writes, After
      <4> QED BY <2>2, <2>3, <4>1, ServedInStep
    <3>2. CASE r.kind \notin {"save", "patch"} /\ IsWrite(r)
      <4>1. messages' = ReplaceAt(messages, i, a) /\ remote' = Written(remote, r)
        BY <1>2, <3>2 DEF After
      <4> QED BY <1>4, <2>2, <2>3, <3>2, <4>1, AnsweredInStep
    <3>3. CASE r.kind \notin {"save", "patch"} /\ ~ IsWrite(r)
      <4>1. messages' = ReplaceAt(messages, i, a) /\ remote' = remote
        BY <1>2, <3>3 DEF After
      <4> QED BY <1>4, <2>2, <3>3, <4>1, ReplaceInStep
    <3> QED BY <3>1, <3>2, <3>3
  <2> QED BY <1>2, <2>2, <2>4
<1> QED BY <1>6, <1>7, <1>8
-----------------------------------------------------------------------------
LEMMA NotFoundInv ==
  ASSUME EditorInv, NEW i \in 1 .. Len(messages), NotFound(i)
  PROVE  EditorInv'
<1> USE DEF EditorInv, EditorTypeOK, CanvasOK, RequestsOK
<1> DEFINE m == [kind |-> "patch", stage |-> "missing"]
<1>1. /\ messages' = ReplaceAt(messages, i, m) /\ Unsync(TRUE)
      /\ UNCHANGED <<doc, rendered, past, future, saved, known, remote, acts>>
      /\ AskedOnce(messages)
  BY DEF NotFound, PanelInv
<1>2. m \in Message /\ m.kind # "report"
  BY DEF Message
<1> HIDE DEF m
<1>3. messages' \in Seq(Message) /\ AskedOnce(messages') /\ NoneAsked(messages, messages')
  BY <1>1, <1>2, ReplaceAsked
<1>4. PanelInv' /\ unsynced' = TRUE
  BY <1>1, <1>3, UnsyncKeepsPanel DEF Unsync
<1> QED BY <1>1, <1>3, <1>4 DEF SyncInv

LEMMA FailInv ==
  ASSUME EditorInv, NEW i \in 1 .. Len(messages), Fail(i)
  PROVE  EditorInv'
<1> USE DEF EditorInv, EditorTypeOK, CanvasOK, RequestsOK
<1> DEFINE b == unsynced \/ IsWrite(messages[i])
<1>1. /\ messages' = RemoveAt(messages, i) /\ Unsync(b) /\ b \in BOOLEAN
      /\ UNCHANGED <<doc, rendered, past, future, saved, known, remote, acts>>
      /\ AskedOnce(messages) /\ unsynced' = b
  BY DEF Fail, PanelInv, Unsync, IsWrite
<1> HIDE DEF b
<1>2. messages' \in Seq(Message) /\ AskedOnce(messages') /\ NoneAsked(messages, messages')
  BY <1>1, RemoveAsked
<1>3. PanelInv' /\ (~ b => report' = report)
  BY <1>1, <1>2, UnsyncKeepsPanel
<1>4. SyncInv'
  <2> SUFFICES ASSUME ~ unsynced' PROVE InStep(messages', remote', doc', Fits', report'.on)
    BY DEF SyncInv
  <2>1. InStep(messages, remote, doc, Fits, report.on) /\ ~ IsWrite(messages[i])
    BY <1>1 DEF b, SyncInv
  <2>2. InStep(messages', remote, doc, Fits, report.on)
    BY <1>1, <2>1, RemoveInStep
  <2>3. Fits' = Fits /\ report' = report
    BY <1>1, <1>3 DEF Fits
  <2> QED BY <1>1, <2>2, <2>3
<1> QED BY <1>1, <1>2, <1>3, <1>4

(* An answer is taken over. *)
LEMMA AdoptInv ==
  ASSUME EditorInv, NEW i \in 1 .. Len(messages), messages[i].stage = "answer",
         messages[i].kind # "report", NEW t \in Topology,
         messages' = RemoveAt(messages, i), Adopt(t, messages'), known' = TRUE,
         UNCHANGED <<rendered, past, future, saved, remote, acts>>
  PROVE  EditorInv'
<1> USE DEF EditorInv, EditorTypeOK, CanvasOK, RequestsOK
<1> DEFINE b == t # remote \/ ~ Quiet(messages')
<1>1. Unsync(b) /\ b \in BOOLEAN /\ doc' = t /\ unsynced' = b /\ AskedOnce(messages)
  BY DEF Adopt, PanelInv, Unsync, Quiet
<1> HIDE DEF b
<1>2. messages' \in Seq(Message) /\ AskedOnce(messages') /\ NoneAsked(messages, messages')
  BY <1>1, RemoveAsked
<1>3. /\ PanelInv' /\ (~ b => report' = report)
      /\ ~ b /\ unsynced /\ Fits' => NotAsked(messages')
  BY <1>1, <1>2, UnsyncKeepsPanel
<1>4. SyncInv'
  <2> SUFFICES ASSUME ~ unsynced' PROVE InStep(messages', remote', doc', Fits', report'.on)
    BY DEF SyncInv
  <2>1. ~ b /\ t = remote /\ QuietUpTo(messages', Len(messages'))
    BY <1>1 DEF b, Quiet, QuietUpTo
  <2>2. CASE unsynced
    <3>1. Fits' => NotAsked(messages')
      BY <1>3, <2>1, <2>2
    <3> QED BY <1>1, <1>2, <2>1, <3>1, QuietStart
  <2>3. CASE ~ unsynced
    <3>1. InStep(messages, remote, doc, Fits, report.on) /\ ~ IsWrite(messages[i])
      BY <2>3 DEF SyncInv, IsWrite
    <3>2. InStep(messages', remote, doc, Fits, report.on)
      BY <3>1, RemoveInStep
    <3>3. remote = doc
      BY <1>2, <2>1, <3>2, QuietInStep
    <3>4. Fits' = Fits /\ report' = report
      BY <1>3, <2>1 DEF Fits
    <3> QED BY <1>1, <2>1, <3>2, <3>3, <3>4
  <2> QED BY <2>2, <2>3
<1> QED BY <1>1, <1>2, <1>3, <1>4

(* A panel shows its report. *)
LEMMA ShownInv ==
  ASSUME EditorInv, NEW i \in 1 .. Len(messages), messages[i].stage = "answer",
         messages[i].kind = "report",
         messages' = RemoveAt(messages, i),
         report' = [report EXCEPT !.shows = messages[i].body],
         UNCHANGED <<doc, known, unsynced, rendered, past, future, saved, remote, acts>>
  PROVE  EditorInv'
<1> USE DEF EditorInv, EditorTypeOK, CanvasOK, RequestsOK
<1>1. /\ messages[i] \in Message /\ i \in Asking /\ AskedOnce(messages) /\ IsAsked(messages, i)
      /\ messages[i].body \in Topology /\ ~ IsWrite(messages[i])
  <2>1. messages[i] \in Message
    OBVIOUS
  <2> QED BY <2>1, MessageKinds DEF Asking, PanelInv, IsAsked
<1>2. /\ report # NoReport /\ report \in ReportPanel /\ report.at <= acts
      /\ (Fits => messages[i].body = report.on)
  BY <1>1 DEF PanelInv
<1>3. /\ report' \in ReportPanel /\ report'.at = report.at /\ report'.on = report.on
      /\ report'.shows = messages[i].body /\ report'.behind = report.behind
      /\ Fits' = Fits
  BY <1>1, <1>2 DEF ReportPanel, Fits
<1>4. messages' \in Seq(Message) /\ AskedOnce(messages') /\ Asking' = {} /\ ~ Waiting'
  BY <1>1, RemoveAsked DEF Asking, Waiting, IsAsked
<1>5. PanelInv'
  BY <1>2, <1>3, <1>4, ReportAssumption DEF PanelInv
<1>6. SyncInv'
  <2> SUFFICES ASSUME ~ unsynced' PROVE InStep(messages', remote', doc', Fits', report'.on)
    BY DEF SyncInv
  <2>1. InStep(messages, remote, doc, Fits, report.on)
    BY DEF SyncInv
  <2>2. InStep(messages', remote, doc, Fits, report.on)
    BY <1>1, <2>1, RemoveInStep
  <2> QED BY <1>3, <2>2
<1> QED BY <1>4, <1>5, <1>6

LEMMA ArriveInv ==
  ASSUME EditorInv, NEW i \in 1 .. Len(messages), Arrive(i)
  PROVE  EditorInv'
<1> USE DEF EditorInv, EditorTypeOK, CanvasOK, RequestsOK
<1>1. /\ messages[i].stage = "answer" /\ messages' = RemoveAt(messages, i)
      /\ UNCHANGED <<rendered, past, future, saved, remote, acts>>
      /\ Loaded(i) \/ Replaced(i) \/ Shown(i)
  BY DEF Arrive
<1>2. messages[i].body \in Topology
  <2>1. messages[i] \in Message
    OBVIOUS
  <2> QED BY <1>1, <2>1, MessageKinds
<1>3. CASE Loaded(i)
  <2> DEFINE body == IF saved = NoDraft THEN messages[i].body ELSE saved
  <2>1. body \in Topology
    BY <1>2
  <2>2. messages[i].kind # "report" /\ Adopt(body, messages') /\ known' = TRUE
    BY <1>1, <1>3 DEF Loaded
  <2> HIDE DEF body
  <2> QED BY <1>1, <2>1, <2>2, AdoptInv
<1>4. CASE Replaced(i)
  <2>1. messages[i].kind # "report" /\ Adopt(messages[i].body, messages') /\ known' = TRUE
    BY <1>1, <1>4 DEF Replaced
  <2> QED BY <1>1, <1>2, <2>1, AdoptInv
<1>5. CASE Shown(i)
  BY <1>1, <1>5, ShownInv DEF Shown
<1> QED BY <1>1, <1>3, <1>4, <1>5

LEMMA SendAllInv ==
  ASSUME EditorInv, NEW i \in 1 .. Len(messages), SendAll(i)
  PROVE  EditorInv'
<1> USE DEF EditorInv, EditorTypeOK, CanvasOK, RequestsOK
<1> DEFINE b == rendered # doc
           rest == RemoveAt(messages, i)
<1>1. /\ messages' = Append(rest, SaveOf(rendered)) /\ Unsync(b) /\ b \in BOOLEAN
      /\ UNCHANGED <<doc, rendered, past, future, saved, known, remote, acts>>
      /\ AskedOnce(messages) /\ unsynced' = b /\ messages[i].stage = "missing"
  BY DEF SendAll, PanelInv, Unsync
<1>2. SaveOf(rendered) \in Message /\ SaveOf(rendered).kind # "report"
  BY DEF Message, SaveOf
<1>3. rest \in Seq(Message) /\ AskedOnce(rest) /\ NoneAsked(messages, rest)
  BY <1>1, RemoveAsked
<1> HIDE DEF b, rest
<1>4. messages' \in Seq(Message) /\ AskedOnce(messages') /\ NoneAsked(messages, messages')
  <2>1. messages' \in Seq(Message) /\ AskedOnce(messages') /\ NoneAsked(rest, messages')
    BY <1>1, <1>2, <1>3, AppendAsked
  <2>2. NoneAsked(messages, messages')
    BY <1>3, <2>1 DEF NoneAsked, IsAsked
  <2> QED BY <2>1, <2>2
<1>5. /\ PanelInv' /\ (~ b => report' = report)
      /\ ~ b /\ unsynced /\ Fits' => NotAsked(messages')
  BY <1>1, <1>4, UnsyncKeepsPanel
<1>6. SyncInv'
  <2> SUFFICES ASSUME ~ unsynced' PROVE InStep(messages', remote', doc', Fits', report'.on)
    BY DEF SyncInv
  <2>1. ~ b /\ messages' = Append(rest, SaveOf(doc)) /\ SaveOf(doc) \in Message
    BY <1>1, <1>2 DEF b
  <2>2. CASE unsynced
    <3>1. Fits' => NotAsked(rest)
      <4>1. \A q \in 1 .. Len(rest) : q \in 1 .. Len(messages') /\ messages'[q] = rest[q]
        BY <1>3, <2>1, AppendProperties
      <4> QED BY <1>5, <2>1, <2>2, <4>1 DEF NotAsked
    <3> QED BY <1>1, <1>3, <2>1, <3>1, SaveInStep
  <2>3. CASE ~ unsynced
    <3>1. InStep(messages, remote, doc, Fits, report.on) /\ ~ IsWrite(messages[i])
      BY <1>1, <2>3 DEF SyncInv, IsWrite
    <3>2. InStep(rest, remote, doc, Fits, report.on)
      BY <3>1, RemoveInStep DEF rest
    <3>3. After(doc, SaveOf(doc)) = doc /\ SaveOf(doc) # Read("report")
      BY SaveIsWrite
    <3>4. InStep(messages', remote, doc, Fits, report.on)
      BY <1>3, <2>1, <3>2, <3>3, AppendInStep
    <3>5. Fits' = Fits /\ report' = report
      BY <1>1, <1>5, <2>1 DEF Fits
    <3> QED BY <1>1, <3>4, <3>5
  <2> QED BY <2>2, <2>3
<1> QED BY <1>1, <1>4, <1>5, <1>6
-----------------------------------------------------------------------------
(* What the user does. *)
LEMMA Remembered ==
  ASSUME CanvasOK, PushHistory
  PROVE  /\ past' \in Seq(Topology) /\ future' \in Seq(Topology)
         /\ Len(past') \in Nat \ {0} /\ past'[Len(past')] = rendered
<1> USE DEF CanvasOK
<1> DEFINE a == Append(past, rendered)
<1>1. /\ a \in Seq(Topology) /\ Len(past) \in Nat /\ Len(a) = Len(past) + 1
      /\ a[Len(a)] = rendered
  BY AppendProperties
<1>2. HistoryCap \in Nat \ {0}
  BY EditorAssumption
<1>3. past' = IF Len(a) > HistoryCap THEN Tail(a) ELSE a
  BY DEF PushHistory, DropOldest
<1>4. future' \in Seq(Topology)
  BY DEF PushHistory
<1> HIDE DEF a
<1>5. CASE Len(a) > HistoryCap
  <2>1. past' = Tail(a) /\ a # <<>> /\ Len(a) \in Nat /\ Len(a) > 1
    BY <1>1, <1>2, <1>3, <1>5
  <2>2. /\ Tail(a) \in Seq(Topology) /\ Len(Tail(a)) = Len(a) - 1
        /\ \A i \in 1 .. Len(Tail(a)) : Tail(a)[i] = a[i + 1]
    BY <1>1, <2>1, HeadTailProperties
  <2>3. Tail(a)[Len(a) - 1] = a[(Len(a) - 1) + 1] /\ (Len(a) - 1) + 1 = Len(a)
    BY <2>1, <2>2
  <2> QED BY <1>1, <1>4, <2>1, <2>2, <2>3
<1>6. CASE ~ (Len(a) > HistoryCap)
  BY <1>1, <1>3, <1>4, <1>6
<1> QED BY <1>5, <1>6

LEMMA FrontAndLast ==
  ASSUME NEW h \in Seq(Topology), h # <<>>
  PROVE  Front(h) \in Seq(Topology) /\ Last(h) \in Topology
<1>1. Len(h) \in Nat /\ Len(h) # 0 /\ \A j \in 1 .. Len(h) : h[j] \in Topology
  BY EmptySeq
<1>2. SubSeq(h, 1, Len(h) - 1) \in Seq(Topology)
  <2>1. \A j \in 1 .. Len(h) - 1 : h[j] \in Topology
    BY <1>1
  <2> QED BY <1>1, <2>1, SubSeqProperties
<1> QED BY <1>1, <1>2 DEF Front, Last

(* What is done on the canvas alone. *)
LEMMA SilentAct ==
  ASSUME EditorInv, CanvasOK', acts' = acts + 1,
         UNCHANGED <<remote, messages, report, known>>,
         unsynced' \in BOOLEAN, ~ unsynced' => ~ unsynced /\ doc' = doc
  PROVE  EditorInv'
<1> USE DEF EditorInv, EditorTypeOK, RequestsOK
<1>1. NoneAsked(messages, messages) /\ AskedOnce(messages)
  BY DEF NoneAsked, IsAsked, PanelInv
<1>2. PanelInv' /\ (Fits' => NotAsked(messages'))
  BY <1>1, ActKeepsPanel
<1>3. SyncInv'
  <2> SUFFICES ASSUME ~ unsynced' PROVE InStep(messages', remote', doc', Fits', report'.on)
    BY DEF SyncInv
  <2>1. InStep(messages, remote, doc, Fits, report.on)
    BY DEF SyncInv
  <2>2. InStep(messages, remote, doc, Fits', report.on)
    BY <1>2, <2>1, WeakerInStep
  <2> QED BY <2>2
<1> QED BY <1>2, <1>3

LEMMA Unmoved ==
  ASSUME EditorInv, CanvasOK',
         UNCHANGED <<doc, known, remote, messages, report, unsynced, acts>>
  PROVE  EditorInv'
<1>1. EditorTypeOK'
  BY DEF EditorInv, EditorTypeOK, RequestsOK
<1>2. SyncInv'
  BY DEF EditorInv, SyncInv, Fits
<1>3. PanelInv'
  BY DEF EditorInv, PanelInv, Asking, Waiting, Fits
<1> QED BY <1>1, <1>2, <1>3 DEF EditorInv

LEMMA StructuralInv ==
  ASSUME EditorInv, NEW t \in Topology, Structural(t), Act,
         UNCHANGED <<saved, known, remote, messages, report>>
  PROVE  EditorInv'
<1>1. CanvasOK' /\ acts' = acts + 1 /\ unsynced' = TRUE
  BY Remembered DEF EditorInv, EditorTypeOK, CanvasOK, Structural, Shows, Act
<1> QED BY <1>1, SilentAct

(* Fewer devices, and their link gone with them, are a topology. *)
LEMMA WithoutFits ==
  ASSUME NEW t \in Topology, NEW removed
  PROVE  Without(t, removed) \in Topology /\ [Without(t, removed) EXCEPT !.link = "none"] \in Topology
<1> DEFINE S == DevicesOf(t) \ removed
           f == [m \in S |-> t.cfg[m]]
           l == IF Cardinality(S) < 2 THEN "none" ELSE t.link
<1>1. DevicesOf(t) \in SUBSET Ids /\ t.cfg \in [DevicesOf(t) -> Configs] /\ t.link \in Linking
  BY TopologyParts
<1>2. S \in SUBSET Ids /\ f \in [S -> Configs] /\ l \in Linking
  BY <1>1 DEF Linking
<1>3. Without(t, removed) = [cfg |-> f, link |-> l]
  BY DEF Without
<1> HIDE DEF S, f, l
<1>4. [cfg |-> f, link |-> l] \in Topology
  BY <1>2, MakeTopology
<1>5. Without(t, removed) \in Topology
  BY <1>3, <1>4
<1> QED BY <1>5, LinkSet DEF Linking

LEMMA CanvasActs ==
  ASSUME EditorInv
  PROVE  /\ AddNode => EditorInv'
         /\ \A n \in Ids : DeleteSelected(n) => EditorInv'
         /\ Connect => EditorInv'
         /\ DeleteEdge => EditorInv'
         /\ ClearCanvas => EditorInv'
<1> USE DEF EditorInv, EditorTypeOK, CanvasOK
<1>0. /\ doc = [cfg |-> doc.cfg, link |-> doc.link]
      /\ DevicesOf(doc) \in SUBSET Ids /\ doc.cfg \in [DevicesOf(doc) -> Configs]
      /\ doc.link \in Linking
  BY TopologyParts
<1>1. ASSUME AddNode PROVE EditorInv'
  <2> DEFINE id == nodeCounter + 1
             f == [n \in DevicesOf(doc) \cup {id} |-> IF n = id THEN Fresh ELSE doc.cfg[n]]
             t == [doc EXCEPT !.cfg = f]
  <2>1. id \in Ids /\ Structural(t) /\ Act /\ UNCHANGED <<saved, known, remote, messages, report>>
    BY <1>1 DEF AddNode
  <2>2. f \in [DevicesOf(doc) \cup {id} -> Configs] /\ DevicesOf(doc) \cup {id} \in SUBSET Ids
    BY <1>0, <2>1, EditorAssumption
  <2>3. t = [cfg |-> f, link |-> doc.link]
    BY <1>0
  <2> HIDE DEF f, t, id
  <2>4. t \in Topology
    BY <1>0, <2>2, <2>3, MakeTopology
  <2> QED BY <2>1, <2>4, StructuralInv
<1>2. ASSUME NEW n \in Ids, DeleteSelected(n) PROVE EditorInv'
  <2>1. Without(doc, {n}) \in Topology
    BY WithoutFits
  <2> QED BY <1>2, <2>1, StructuralInv DEF DeleteSelected
<1>3. ASSUME Connect PROVE EditorInv'
  <2>1. [doc EXCEPT !.link = "plain"] \in Topology
    BY LinkSet DEF Linking
  <2> QED BY <1>3, <2>1, StructuralInv DEF Connect
<1>4. ASSUME DeleteEdge PROVE EditorInv'
  <2>1. [doc EXCEPT !.link = "none"] \in Topology
    BY LinkSet DEF Linking
  <2> QED BY <1>4, <2>1, StructuralInv DEF DeleteEdge
<1>5. ASSUME ClearCanvas PROVE EditorInv'
  BY <1>5, BlankIsTopology, StructuralInv DEF ClearCanvas
<1> QED BY <1>1, <1>2, <1>3, <1>4, <1>5

LEMMA EditSilentlyInv ==
  ASSUME EditorInv, EditSilently
  PROVE  EditorInv'
<1> USE DEF EditorInv, EditorTypeOK, CanvasOK
<1>1. doc' \in Topology /\ rendered' = doc'
  <2>1. [doc EXCEPT !.link = IF @ = "plain" THEN "tuned" ELSE @] \in Topology
    <3> DEFINE l == IF doc.link = "plain" THEN "tuned" ELSE doc.link
    <3>1. l \in Linking
      BY TopologyParts DEF Linking
    <3>2. [doc EXCEPT !.link = l] \in Topology
      BY <3>1, LinkSet
    <3> QED BY <3>2
  <2>2. \A n \in DevicesOf(doc), c \in Configs \ {Fresh} : [doc EXCEPT !.cfg[n] = c] \in Topology
    BY ConfigSet
  <2> QED BY <2>1, <2>2 DEF EditSilently, Shows
<1>2. /\ UNCHANGED <<past, future, nodeCounter, saved, known, remote, messages, report>>
      /\ acts' = acts + 1 /\ unsynced' = (unsynced \/ doc' # doc)
  BY DEF EditSilently, Act
<1>3. unsynced \in BOOLEAN
  BY DEF RequestsOK
<1>4. unsynced' \in BOOLEAN /\ (~ unsynced' => ~ unsynced /\ doc' = doc)
  BY <1>2, <1>3
<1>5. CanvasOK'
  BY <1>1, <1>2
<1> QED BY <1>2, <1>4, <1>5, SilentAct

LEMMA KeyDeleteInv ==
  ASSUME EditorInv, NEW selected, NEW link \in BOOLEAN, KeyDelete(selected, link)
  PROVE  EditorInv'
<1> USE DEF EditorInv, EditorTypeOK, CanvasOK
<1>1. doc' \in Topology /\ rendered' = doc'
  BY WithoutFits DEF KeyDelete, Shows
<1>2. /\ UNCHANGED <<past, future, nodeCounter, saved, known, remote, messages, report>>
      /\ acts' = acts + 1 /\ unsynced' = TRUE
  BY DEF KeyDelete, Act
<1>3. CanvasOK'
  BY <1>1, <1>2
<1> QED BY <1>2, <1>3, SilentAct

LEMMA HistoryActs ==
  ASSUME EditorInv
  PROVE  /\ Undo => EditorInv'
         /\ Redo => EditorInv'
<1> USE DEF EditorInv, EditorTypeOK, CanvasOK
<1>1. ASSUME Undo PROVE EditorInv'
  <2>1. CanvasOK' /\ acts' = acts + 1 /\ unsynced' = TRUE
    <3>1. Front(past) \in Seq(Topology) /\ Last(past) \in Topology
      BY <1>1, FrontAndLast DEF Undo
    <3>2. Append(future, rendered) \in Seq(Topology)
      OBVIOUS
    <3> QED BY <1>1, <3>1, <3>2 DEF Undo, Shows, Act
  <2> QED BY <1>1, <2>1, SilentAct DEF Undo
<1>2. ASSUME Redo PROVE EditorInv'
  <2>1. CanvasOK' /\ acts' = acts + 1 /\ unsynced' = TRUE
    <3>1. Front(future) \in Seq(Topology) /\ Last(future) \in Topology
      BY <1>2, FrontAndLast DEF Redo
    <3>2. Append(past, rendered) \in Seq(Topology)
      OBVIOUS
    <3> QED BY <1>2, <3>1, <3>2 DEF Redo, Shows, Act
  <2> QED BY <1>2, <2>1, SilentAct DEF Redo
<1> QED BY <1>1, <1>2
-----------------------------------------------------------------------------
(* What the user does that sends a request: no panel has to fit any more,  *)
(* and what is sent last brings the server to what is on the canvas then.  *)
LEMMA SendingAct ==
  ASSUME EditorInv, CanvasOK', acts' = acts + 1, UNCHANGED <<remote, report>>,
         NEW m \in Message, m.kind # "report", messages' = Append(messages, m),
         unsynced' \in BOOLEAN, known' \in BOOLEAN,
         ~ unsynced' => \/ m = SaveOf(doc')
                        \/ ~ unsynced /\ After(doc, m) = doc'
  PROVE  EditorInv'
<1> USE DEF EditorInv, EditorTypeOK, RequestsOK
<1>1. /\ messages' \in Seq(Message) /\ AskedOnce(messages') /\ NoneAsked(messages, messages')
  BY AppendAsked DEF PanelInv
<1>2. PanelInv' /\ (Fits' => NotAsked(messages'))
  BY <1>1, ActKeepsPanel
<1>3. SyncInv'
  <2> SUFFICES ASSUME ~ unsynced' PROVE InStep(messages', remote', doc', Fits', report'.on)
    BY DEF SyncInv
  <2>1. doc \in Topology /\ doc' \in Topology
    BY DEF CanvasOK
  <2>2. InStep(messages', remote, doc', FALSE, report.on)
    <3>1. CASE m = SaveOf(doc')
      BY <2>1, <3>1, SaveInStep
    <3>2. CASE ~ unsynced /\ After(doc, m) = doc'
      <4>1. InStep(messages, remote, doc, Fits, report.on)
        BY <3>2 DEF SyncInv
      <4>2. InStep(messages, remote, doc, FALSE, report.on)
        BY <4>1 DEF InStep
      <4> QED BY <2>1, <3>2, <4>2, AppendInStep
    <3> QED BY <3>1, <3>2
  <2> QED BY <1>2, <2>2, WeakerInStep
<1>4. acts' \in Nat
  OBVIOUS
<1> QED BY <1>1, <1>2, <1>3, <1>4

LEMMA EditConfigInv ==
  ASSUME EditorInv, NEW n \in Ids, NEW c \in Configs, EditConfig(n, c)
  PROVE  EditorInv'
<1> USE DEF EditorInv, EditorTypeOK
<1> DEFINE t == [doc EXCEPT !.cfg[n] = c]
           m == PatchOf(n, c)
<1>1. doc \in Topology /\ t \in Topology
  BY ConfigSet DEF CanvasOK
<1>2. /\ m \in Message /\ m.kind # "report" /\ IsWrite(m) /\ Written(doc, m) = t
  BY DEF Message, PatchOf, IsWrite, Writes, Written
<1> HIDE DEF t, m
<1>3. /\ doc' = IF n \in DevicesOf(doc) THEN t ELSE doc
      /\ rendered' = doc'
      /\ UNCHANGED <<past, future, saved, known, remote, report>>
      /\ acts' = acts + 1
      /\ unsynced' = (unsynced \/ ~ known \/ n \notin DevicesOf(doc))
      /\ messages' = IF known THEN messages \o <<m>> ELSE messages
  BY DEF EditConfig, Shows, Act, Post, t, m
<1>4. CanvasOK'
  BY <1>1, <1>3 DEF CanvasOK
<1>5. unsynced \in BOOLEAN /\ known \in BOOLEAN /\ messages \in Seq(Message)
  BY DEF RequestsOK
<1>6. /\ unsynced' \in BOOLEAN
      /\ ~ unsynced' => ~ unsynced /\ known /\ n \in DevicesOf(doc)
  BY <1>3, <1>5
<1>7. CASE known
  <2>1. messages' = Append(messages, m)
    BY <1>2, <1>3, <1>5, <1>7, Posted
  <2>2. ~ unsynced' => ~ unsynced /\ After(doc, m) = doc'
    BY <1>2, <1>3, <1>6 DEF After
  <2> QED BY <1>2, <1>3, <1>4, <1>5, <1>6, <2>1, <2>2, SendingAct
<1>8. CASE ~ known
  BY <1>3, <1>4, <1>6, <1>8, SilentAct
<1> QED BY <1>7, <1>8

LEMMA SaveActs ==
  ASSUME EditorInv, NEW t \in Topology, Sends(t, t, <<>>), UNCHANGED <<Untouched, report>>
  PROVE  EditorInv'
<1> USE DEF EditorInv, EditorTypeOK
<1>1. SaveOf(t) \in Message /\ SaveOf(t).kind # "report" /\ messages \in Seq(Message)
  BY DEF Message, SaveOf, RequestsOK
<1>2. messages' = Append(messages, SaveOf(t))
  BY <1>1, Posted DEF Sends, Post
<1>3. CanvasOK'
  BY DEF CanvasOK, Untouched
<1>4. /\ UNCHANGED <<remote, report, doc, known>> /\ acts' = acts + 1 /\ unsynced' = (t # doc)
      /\ known' \in BOOLEAN
  BY DEF Untouched, Sends, Act, RequestsOK
<1>5. unsynced' \in BOOLEAN /\ (~ unsynced' => SaveOf(t) = SaveOf(doc'))
  BY <1>4
<1> QED BY <1>1, <1>2, <1>3, <1>4, <1>5, SendingAct

LEMMA Saves ==
  ASSUME EditorInv
  PROVE  /\ Save => EditorInv'
         /\ StoreForTrace => EditorInv'
<1>1. rendered \in Topology
  BY DEF EditorInv, EditorTypeOK, CanvasOK
<1>2. WithoutSettings(rendered) \in Topology
  <2> DEFINE l == IF rendered.link = "tuned" THEN "plain" ELSE rendered.link
  <2>1. l \in Linking
    BY <1>1, TopologyParts DEF Linking
  <2>2. [rendered EXCEPT !.link = l] \in Topology
    BY <1>1, <2>1, LinkSet
  <2> QED BY <2>2 DEF WithoutSettings
<1>3. Save => EditorInv'
  BY <1>1, SaveActs DEF Save, Serialized
<1>4. StoreForTrace => EditorInv'
  BY <1>2, SaveActs DEF StoreForTrace
<1> QED BY <1>3, <1>4

LEMMA ResetInv ==
  ASSUME EditorInv, Reset
  PROVE  EditorInv'
<1> USE DEF EditorInv, EditorTypeOK
<1>1. Read("reset") \in Message /\ Read("reset").kind # "report" /\ ~ IsWrite(Read("reset"))
  BY DEF Message, Reads, Read, IsWrite, Writes
<1>2. messages \in Seq(Message) /\ unsynced \in BOOLEAN /\ known \in BOOLEAN
  BY DEF RequestsOK
<1>3. messages' = Append(messages, Read("reset"))
  BY <1>1, <1>2, Posted DEF Reset, Post
<1>4. CanvasOK'
  BY Remembered DEF Reset, CanvasOK
<1>5. /\ UNCHANGED <<remote, report, doc, known, unsynced>> /\ acts' = acts + 1
      /\ After(doc, Read("reset")) = doc
  BY <1>1 DEF Reset, Act, After
<1> QED BY <1>1, <1>2, <1>3, <1>4, <1>5, SendingAct

LEMMA RestoreInv ==
  ASSUME EditorInv, RestoreSnapshot
  PROVE  EditorInv'
<1> USE DEF EditorInv, EditorTypeOK
<1>1. Read("restore") \in Message /\ Read("restore").kind # "report"
  BY DEF Message, Reads, Read
<1>2. messages \in Seq(Message) /\ known \in BOOLEAN
  BY DEF RequestsOK
<1>3. messages' = Append(messages, Read("restore"))
  BY <1>1, <1>2, Posted DEF RestoreSnapshot, Post
<1>4. /\ CanvasOK' /\ UNCHANGED <<remote, report, known>> /\ acts' = acts + 1 /\ unsynced' = TRUE
  BY DEF RestoreSnapshot, Untouched, CanvasOK, Act
<1> QED BY <1>1, <1>2, <1>3, <1>4, SendingAct

-----------------------------------------------------------------------------
(* The panel is opened and closed, and the page is loaded again.           *)
LEMMA OpenReportInv ==
  ASSUME EditorInv, OpenReport
  PROVE  EditorInv'
<1> USE DEF EditorInv, EditorTypeOK, RequestsOK
<1> DEFINE sv == SaveOf(rendered)
           ask == Read("report")
           mid == Append(messages, sv)
<1>1. /\ rendered \in Topology /\ doc \in Topology /\ messages \in Seq(Message) /\ acts \in Nat
      /\ sv \in Message /\ ask \in Message /\ sv.kind # "report"
      /\ ask.kind = "report" /\ ask.stage = "sent" /\ AskedOnce(messages) /\ Asking = {}
  <2>1. Asking = {} /\ AskedOnce(messages)
    BY DEF OpenReport, PanelInv
  <2> QED BY <2>1 DEF CanvasOK, Message, SaveOf, Read, Reads
<1>2. /\ messages' = messages \o (<<sv>> \o <<ask>>) /\ unsynced' = (rendered # doc)
      /\ acts' = acts + 1 /\ UNCHANGED <<Untouched>>
      /\ report' = [on |-> rendered, at |-> acts', shows |-> NoReport, behind |-> rendered # doc]
  BY DEF OpenReport, SaveAndAsk, Serialized, Sends, Post, Act
<1>3. /\ report' \in ReportPanel /\ report' # NoReport /\ report'.on = rendered
      /\ report'.at = acts' /\ report'.shows = NoReport
      /\ (report'.behind <=> rendered # doc)
  <2>1. report' \in ReportPanel
    BY <1>1, <1>2 DEF ReportPanel
  <2> QED BY <1>2, <2>1, ReportAssumption
<1> HIDE DEF sv, ask, mid
<1>4. messages' = Append(mid, ask)
  BY <1>1, <1>2, Posted DEF mid
<1>5. /\ mid \in Seq(Message) /\ AskedOnce(mid) /\ NoneAsked(messages, mid)
  BY <1>1, AppendAsked DEF mid
<1>6. \A q \in 1 .. Len(messages) : ~ IsAsked(messages, q)
  BY <1>1 DEF Asking, IsAsked
<1>7. \A q \in 1 .. Len(mid) : ~ IsAsked(mid, q)
  BY <1>5, <1>6 DEF NoneAsked, IsAsked
<1>8. messages' \in Seq(Message) /\ AskedOnce(messages')
  BY <1>1, <1>4, <1>5, <1>7, AppendAsked
<1>9. \A q \in Asking' : messages'[q] = ask
  <2> SUFFICES ASSUME NEW q \in Asking' PROVE messages'[q] = ask
    OBVIOUS
  <2>1. /\ Len(mid) \in Nat /\ Len(messages') = Len(mid) + 1 /\ messages'[Len(mid) + 1] = ask
        /\ \A j \in 1 .. Len(mid) : messages'[j] = mid[j]
    BY <1>1, <1>4, <1>5, AppendProperties
  <2>2. q \in 1 .. Len(mid) \/ q = Len(mid) + 1
    BY <2>1 DEF Asking
  <2> QED BY <1>7, <2>1, <2>2 DEF Asking, IsAsked
<1>10. PanelInv'
  <2>1. report'.at <= acts'
    BY <1>1, <1>2, <1>3
  <2> QED BY <1>1, <1>2, <1>3, <1>8, <1>9, <2>1 DEF PanelInv
<1>11. SyncInv'
  <2> SUFFICES ASSUME ~ unsynced' PROVE InStep(messages', remote', doc', Fits', report'.on)
    BY DEF SyncInv
  <2>1. rendered = doc /\ sv = SaveOf(doc) /\ ask = Read("report")
    BY <1>2 DEF sv, ask
  <2>2. NotAsked(messages)
    BY <1>6 DEF NotAsked, IsAsked, Read
  <2>3. InStep(mid, remote, doc, TRUE, doc)
    BY <1>1, <2>1, <2>2, SaveInStep DEF mid
  <2>4. After(doc, ask) = doc
    BY <2>1, SaveIsWrite
  <2>5. InStep(messages', remote, doc, TRUE, doc)
    BY <1>1, <1>4, <1>5, <2>3, <2>4, AppendInStep
  <2>6. InStep(messages', remote, doc, Fits', doc)
    BY <2>5 DEF InStep
  <2> QED BY <1>2, <1>3, <2>1, <2>6 DEF Untouched
<1>12. CanvasOK' /\ known' \in BOOLEAN /\ acts' \in Nat /\ unsynced' \in BOOLEAN
  BY <1>1, <1>2 DEF CanvasOK, Untouched
<1> QED BY <1>8, <1>10, <1>11, <1>12

LEMMA CloseReportInv ==
  ASSUME EditorInv, CloseReport
  PROVE  EditorInv'
<1> USE DEF EditorInv, EditorTypeOK, RequestsOK
<1>1. /\ report' = NoReport /\ UNCHANGED <<Untouched, unsynced, acts>>
      /\ AskedOnce(messages)
  BY DEF CloseReport, PanelInv
<1>2. /\ messages' \in Seq(Message) /\ AskedOnce(messages')
      /\ \A q \in 1 .. Len(messages') : ~ IsAsked(messages', q)
      /\ \A f : InStep(messages, remote, doc, f, report.on)
                   => InStep(messages', remote, doc, f, report.on)
  <2>1. CASE Asking = {} /\ UNCHANGED messages
    BY <1>1, <2>1 DEF Asking, IsAsked
  <2>2. ASSUME NEW i \in Asking, messages' = RemoveAt(messages, i) PROVE <1>2!:
    <3>1. i \in 1 .. Len(messages) /\ IsAsked(messages, i) /\ ~ IsWrite(messages[i])
      BY DEF Asking, IsAsked, IsWrite, Writes
    <3> QED BY <1>1, <2>2, <3>1, RemoveAsked, RemoveInStep
  <2> QED BY <2>1, <2>2 DEF CloseReport
<1>3. Asking' = {} /\ NotAsked(messages')
  BY <1>2 DEF Asking, IsAsked, NotAsked, Read
<1>4. PanelInv'
  BY <1>1, <1>2, <1>3 DEF PanelInv, Waiting
<1>5. SyncInv'
  <2> SUFFICES ASSUME ~ unsynced' PROVE InStep(messages', remote', doc', Fits', report'.on)
    BY DEF SyncInv
  <2>1. InStep(messages, remote, doc, Fits, report.on)
    BY <1>1 DEF SyncInv
  <2>2. InStep(messages', remote, doc, Fits, report.on)
    BY <1>2, <2>1
  <2> QED BY <1>1, <1>3, <2>2, WeakerInStep DEF Untouched
<1>6. CanvasOK' /\ known' \in BOOLEAN /\ acts' \in Nat /\ unsynced' \in BOOLEAN
  BY <1>1 DEF CanvasOK, Untouched
<1> QED BY <1>2, <1>4, <1>5, <1>6

LEMMA ReloadInv ==
  ASSUME EditorInv, Reload
  PROVE  EditorInv'
<1> USE DEF EditorInv, EditorTypeOK, RequestsOK
<1> DEFINE S == {i \in 1 .. Len(messages) : IsWrite(messages[i])}
           writes == Picked(messages, S)
           ms == [k \in 1 .. Len(writes) |-> Unattended(writes[k])]
<1>1. /\ messages' = Append(ms, Read("load")) /\ report' = NoReport /\ unsynced' = TRUE
      /\ acts' = acts + 1 /\ doc' = Blank /\ rendered' = Blank /\ past' = <<>> /\ future' = <<>>
      /\ known' = FALSE /\ UNCHANGED <<saved, remote>>
  BY DEF Reload, Act
<1>2. /\ writes \in Seq(Message) /\ Len(writes) \in Nat
      /\ \A k \in 1 .. Len(writes) : IsWrite(writes[k]) /\ writes[k] \in Message
  <2>1. S \in SUBSET DOMAIN messages
    OBVIOUS
  <2> HIDE DEF S
  <2>2. /\ writes \in Seq(Message) /\ Len(writes) = Cardinality(S) /\ Cardinality(S) \in Nat
        /\ \A k \in 1 .. Cardinality(S) : NthOf(S, k) \in S /\ writes[k] = messages[NthOf(S, k)]
    BY <2>1, PickedElements
  <2>3. \A i \in S : IsWrite(messages[i]) /\ messages[i] \in Message
    BY DEF S
  <2> QED BY <2>2, <2>3
<1> HIDE DEF S, writes
<1>3. ASSUME NEW r \in Message, IsWrite(r)
      PROVE  Unattended(r) \in Message /\ Unattended(r).kind # "report"
  BY <1>3, EditorAssumption DEF Unattended, IsWrite, Writes, SaveOf, Message
<1>4. ms \in Seq(Message) /\ Len(ms) = Len(writes) /\ \A k \in 1 .. Len(ms) : ms[k].kind # "report"
  BY <1>2, <1>3
<1>5. Read("load") \in Message /\ Read("load").kind = "load"
  BY DEF Read, Message, Reads
<1> HIDE DEF ms
<1>6. /\ messages' \in Seq(Message)
      /\ \A k \in 1 .. Len(messages') : messages'[k].kind # "report"
  <2>1. /\ messages' \in Seq(Message) /\ Len(ms) \in Nat /\ Len(messages') = Len(ms) + 1
        /\ messages'[Len(ms) + 1] = Read("load")
        /\ \A j \in 1 .. Len(ms) : messages'[j] = ms[j]
    BY <1>1, <1>4, <1>5, AppendProperties
  <2>2. \A k \in 1 .. Len(messages') : k = Len(ms) + 1 \/ k \in 1 .. Len(ms)
    BY <2>1
  <2> QED BY <1>4, <1>5, <2>1, <2>2
<1>7. PanelInv'
  <2>1. Asking' = {} /\ AskedOnce(messages')
    BY <1>6 DEF Asking, AskedOnce, IsAsked
  <2> QED BY <1>1, <2>1 DEF PanelInv, Waiting
<1>8. CanvasOK'
  BY <1>1, BlankIsTopology DEF CanvasOK
<1>9. known' \in BOOLEAN /\ unsynced' \in BOOLEAN /\ acts' \in Nat
  <2>1. acts \in Nat
    OBVIOUS
  <2>2. acts' \in Nat
    BY <1>1, <2>1
  <2> QED BY <1>1, <2>2
<1>10. SyncInv'
  BY <1>1 DEF SyncInv
<1> QED BY <1>6, <1>7, <1>8, <1>9, <1>10
-----------------------------------------------------------------------------
LEMMA EditorKeeps ==
  ASSUME EditorInv, [EditorNext]_editorVars
  PROVE  EditorInv'
<1>1. ASSUME NEW i \in 1 .. Len(messages),
             Serve(i) \/ NotFound(i) \/ Fail(i) \/ Arrive(i) \/ SendAll(i)
      PROVE  EditorInv'
  BY <1>1, ServeReport, ServeOther, NotFoundInv, FailInv, ArriveInv, SendAllInv
<1>2. CASE Paint
  <2>1. CanvasOK' /\ UNCHANGED <<doc, known, remote, messages, report, unsynced, acts>>
    BY <1>2 DEF EditorInv, EditorTypeOK, CanvasOK, Paint
  <2> QED BY <2>1, Unmoved
<1>3. CASE Autosave
  <2>1. CanvasOK' /\ UNCHANGED <<doc, known, remote, messages, report, unsynced, acts>>
    BY <1>3 DEF EditorInv, EditorTypeOK, CanvasOK, Autosave
  <2> QED BY <2>1, Unmoved
<1>4. CASE UNCHANGED editorVars
  <2>1. CanvasOK' /\ UNCHANGED <<doc, known, remote, messages, report, unsynced, acts>>
    BY <1>4 DEF EditorInv, EditorTypeOK, CanvasOK, editorVars
  <2> QED BY <2>1, Unmoved
<1>5. CASE AddNode \/ Connect \/ DeleteEdge \/ ClearCanvas \/ \E n \in Ids : DeleteSelected(n)
  BY <1>5, CanvasActs
<1>6. CASE EditSilently \/ \E n \in Ids, c \in Configs : EditConfig(n, c)
  BY <1>6, EditSilentlyInv, EditConfigInv
<1>11. CASE \E selected \in SUBSET Ids, link \in BOOLEAN : KeyDelete(selected, link)
  BY <1>11, KeyDeleteInv
<1>7. CASE Undo \/ Redo
  BY <1>7, HistoryActs
<1>8. CASE Save \/ StoreForTrace
  BY <1>8, Saves
<1>9. CASE OpenReport \/ CloseReport
  BY <1>9, OpenReportInv, CloseReportInv
<1>10. CASE Reset \/ RestoreSnapshot \/ Reload
  BY <1>10, ResetInv, RestoreInv, ReloadInv
<1> QED
  BY <1>1, <1>2, <1>3, <1>4, <1>5, <1>6, <1>7, <1>8, <1>9, <1>10, <1>11 DEF EditorNext, OwnStep

THEOREM EditorInvariant == EditorSpec => []EditorInv
<1>1. EditorInit => EditorInv
  BY EditorStarts
<1>2. EditorInv /\ [EditorNext]_editorVars => EditorInv'
  BY EditorKeeps
<1> QED BY <1>1, <1>2, PTL DEF EditorSpec

(* When nothing is under way, the server has what the canvas shows, unless *)
(* an edit was not sent since the last full save, a request failed or was  *)
(* overtaken, or an answer was out of date when it came.                   *)
THEOREM ServerCatchesUp == EditorSpec => []ServerFollows
<1>1. EditorInv => ServerFollows
  <2> SUFFICES ASSUME EditorInv, ~ unsynced, Quiet(messages) PROVE remote = doc
    BY DEF ServerFollows
  <2>1. InStep(messages, remote, doc, Fits, report.on) /\ messages \in Seq(Message)
    BY DEF EditorInv, SyncInv, EditorTypeOK, RequestsOK
  <2>2. QuietUpTo(messages, Len(messages))
    BY DEF Quiet, QuietUpTo
  <2> QED BY <2>1, <2>2, QuietInStep
<1> QED BY <1>1, EditorInvariant, PTL

(* A design tool shows the design that it was opened on, however its       *)
(* request, the save before it and whatever else is under way are handled, *)
(* unless the server fell behind the canvas before it answered.            *)
THEOREM ReportsTheDesign == EditorSpec => []ReportFits
<1>1. EditorInv => ReportFits
  BY DEF EditorInv, PanelInv, ReportFits, Fits
<1> QED BY <1>1, EditorInvariant, PTL
-----------------------------------------------------------------------------
(* The newest entry of either history is found in the two together. *)
LEMMA Remembers ==
  ASSUME NEW p \in Seq(Topology), NEW f \in Seq(Topology), NEW t,
         \/ Len(p) # 0 /\ p[Len(p)] = t
         \/ Len(f) # 0 /\ f[Len(f)] = t
  PROVE  \E i \in 1 .. Len(p \o f) : (p \o f)[i] = t
<1>1. /\ Len(p) \in Nat /\ Len(f) \in Nat /\ Len(p \o f) = Len(p) + Len(f)
      /\ \A i \in 1 .. Len(p) + Len(f) :
           (p \o f)[i] = IF i <= Len(p) THEN p[i] ELSE f[i - Len(p)]
  BY ConcatProperties
<1>2. CASE Len(p) # 0 /\ p[Len(p)] = t
  BY <1>1, <1>2
<1>3. CASE Len(f) # 0 /\ f[Len(f)] = t
  <2>1. Len(p) + Len(f) \in 1 .. Len(p) + Len(f)
    BY <1>1, <1>3
  <2>2. ~ (Len(p) + Len(f) <= Len(p)) /\ (Len(p) + Len(f)) - Len(p) = Len(f)
    BY <1>1, <1>3
  <2> QED BY <1>1, <1>3, <2>1, <2>2
<1> QED BY <1>2, <1>3

(* A device that the user makes disappear with the page's own commands can *)
(* be brought back by undo or redo, with its configuration: a removal is   *)
(* remembered, whatever falls off the other end of the history, and undo   *)
(* and redo hand the canvas over to one another.  React Flow's own removal *)
(* with Backspace is excepted: it is not remembered.                       *)
THEOREM RemovalsUndoable == EditorSpec => EditsUndoable
<1> DEFINE Found(n) == \E i \in 1 .. Len(past' \o future') :
                         LET t == (past' \o future')[i]
                         IN  n \in DevicesOf(t) /\ t.cfg[n] = doc.cfg[n]
           Step == acts' # acts /\ keyed' # acts' /\ rendered = doc /\ ~ Reload =>
                     \A n \in DevicesOf(doc) \ DevicesOf(doc') : Found(n)
<1>1. ASSUME EditorInv, EditorInv', [EditorNext]_editorVars
      PROVE  [Step]_editorVars
  <2> SUFFICES ASSUME EditorNext, acts' # acts, keyed' # acts', rendered = doc, ~ Reload,
                      NEW n \in DevicesOf(doc) \ DevicesOf(doc')
               PROVE  Found(n)
    BY <1>1
  <2>12. OwnStep
    BY DEF EditorNext, KeyDelete
  <2> USE <1>1 DEF EditorInv, EditorTypeOK, CanvasOK
  <2>1. ASSUME \/ Len(past') # 0 /\ past'[Len(past')] = doc
               \/ Len(future') # 0 /\ future'[Len(future')] = doc
        PROVE  Found(n)
    <3>1. past' \in Seq(Topology) /\ future' \in Seq(Topology)
      OBVIOUS
    <3>2. \E i \in 1 .. Len(past' \o future') : (past' \o future')[i] = doc
      <4> HIDE DEF EditorInv, EditorTypeOK, CanvasOK
      <4> QED BY <2>1, <3>1, Remembers
    <3>3. PICK i \in 1 .. Len(past' \o future') : (past' \o future')[i] = doc
      BY <3>2
    <3> HIDE DEF EditorInv, EditorTypeOK, CanvasOK
    <3>4. LET t == (past' \o future')[i]
          IN  n \in DevicesOf(t) /\ t.cfg[n] = doc.cfg[n]
      BY <3>3
    <3> QED BY <3>4
  <2> HIDE DEF Found
  <2>2. ASSUME PushHistory PROVE Found(n)
    BY <2>1, <2>2, Remembered
  <2>3. doc' # doc
    OBVIOUS
  <2>4. CASE \E i \in 1 .. Len(messages) :
               Serve(i) \/ NotFound(i) \/ Fail(i) \/ Arrive(i) \/ SendAll(i)
    BY <2>4 DEF Serve, NotFound, Fail, Arrive, SendAll
  <2>5. CASE Paint \/ Autosave \/ Reset \/ RestoreSnapshot \/ Save \/ StoreForTrace
             \/ OpenReport \/ CloseReport
    BY <2>3, <2>5 DEF Paint, Autosave, Reset, RestoreSnapshot, Save, StoreForTrace, OpenReport,
                      CloseReport, Untouched
  <2>6. CASE AddNode \/ Connect \/ DeleteEdge \/ ClearCanvas \/ \E m \in Ids : DeleteSelected(m)
    BY <2>2, <2>6 DEF AddNode, Connect, DeleteEdge, ClearCanvas, DeleteSelected, Structural
  <2>7. CASE EditSilently
    <3> DEFINE l == IF doc.link = "plain" THEN "tuned" ELSE doc.link
    <3>1. l \in Linking
      BY TopologyParts DEF Linking
    <3>2. DevicesOf([doc EXCEPT !.link = l]) = DevicesOf(doc)
      BY <3>1, LinkSet
    <3>3. \A m \in DevicesOf(doc), c \in Configs \ {Fresh} :
            DevicesOf([doc EXCEPT !.cfg[m] = c]) = DevicesOf(doc)
      BY ConfigSet
    <3>4. \/ doc' = [doc EXCEPT !.link = l]
          \/ \E m \in DevicesOf(doc), c \in Configs \ {Fresh} : doc' = [doc EXCEPT !.cfg[m] = c]
      BY <2>7 DEF EditSilently, Shows
    <3>5. DevicesOf(doc') = DevicesOf(doc)
      BY <3>2, <3>3, <3>4
    <3> QED BY <3>5
  <2>8. CASE \E m \in Ids, c \in Configs : EditConfig(m, c)
    <3>1. PICK m \in Ids, c \in Configs : EditConfig(m, c)
      BY <2>8
    <3>2. DevicesOf([doc EXCEPT !.cfg[m] = c]) = DevicesOf(doc)
      BY ConfigSet
    <3>3. doc' = [doc EXCEPT !.cfg[m] = c] \/ doc' = doc
      BY <3>1 DEF EditConfig, Shows
    <3> QED BY <3>2, <3>3
  <2>9. CASE Undo
    <3>1. future' = Append(future, doc)
      BY <2>9 DEF Undo
    <3>2. Len(future') # 0 /\ future'[Len(future')] = doc
      BY <3>1, AppendProperties
    <3> QED BY <2>1, <3>2
  <2>10. CASE Redo
    <3>1. past' = Append(past, doc)
      BY <2>10 DEF Redo
    <3>2. Len(past') # 0 /\ past'[Len(past')] = doc
      BY <3>1, AppendProperties
    <3> QED BY <2>1, <3>2
  <2> QED BY <2>4, <2>5, <2>6, <2>7, <2>8, <2>9, <2>10, <2>12 DEF OwnStep
<1>2. EditorSpec => [][Step]_editorVars
  BY <1>1, EditorInvariant, PTL DEF EditorSpec
<1> QED BY <1>2 DEF EditsUndoable
=============================================================================
