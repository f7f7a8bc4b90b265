# NetViz in TLA+

TLA+ models of NetViz (the network visualizer in this repository), the TLC
configurations that check them on small instances, and TLAPS proofs of their
main properties for every instance. Source paths are relative to
`src/application/` unless they start with `docs/` or `organizational/`.

## The system

NetViz is one Express server over MongoDB (`src/`) and one React client
(`client/src/`). The server is a single Node process: code runs to completion
between awaits, and any other request may run at each await. The client's state
lives in component state (changed at the next render), in refs (changed at
once), in timers and in awaited answers.

| Component | State it keeps | Operations | Talks to | What is hard |
|---|---|---|---|---|
| Accounts, roles, sessions (`services/auth-service.ts`, `lib/jwt.ts`, `middlewares/auth.ts`) | users collection; JWTs in browsers | sign in, sign out, set a role, remove an account | MongoDB; every other API through the session | guard and write in separate database calls; role claims older than the stored role |
| Erasure (`eraseUserAndOwnedData`, `deleteAllTopologies`) | topologies and snapshots by owner | erase own account, erase another's | accounts, store | order of account and data; restart in the middle; sessions that outlive the account |
| Topology store (`db/network-service.ts`, `services/version-service.ts`) | one document per topology with a Mongoose revision; snapshots with a number | PUT a topology, add, update and delete nodes and edges, snapshot, restore, delete | MongoDB | read, edit, save across awaits; numbering snapshots; restore as several calls |
| Packet capture (`services/packet-simulator.ts`, `handlers/packets.handlers.ts`, `client/src/pages/packets/packet-capture-page.tsx`) | module-level buffer, counter, schedule and timer; one cursor per event stream; the page's stream ref | start, stop, clear; scheduler and stream ticks | one simulator shared by all pages over HTTP and server-sent events | timers against calls; answers that arrive late; eviction; numbers that start again |
| Live simulation and DHCP (`client/src/pages/network/network-builder-page.tsx`, `packet-model.ts`) | flights, exchanges in progress, reserved addresses, nodes as last rendered | power on and off, DORA exchange, ambient traffic, frame loop | editor state | callbacks that hold old reachability; reservation freed before the render |
| Topology editor (same file, `network-builder-page.reducer.ts`) | nodes, edges, undo and redo stacks, autosaved draft, counter for ids | edit, undo, redo, save, background sync, reset, restore | store over HTTP | sync against full save, caps, drafts, the counter |
| Properties panel (`properties-panel.tsx`) | a copy of one device's configuration | one keystroke or click in any tab | editor | every keystroke writes the whole copy back |
| Site links (`configureWanLink`) | interfaces and static routes on the canvas | configure one link | editor | links configured one after the other share routers and address space |
| Guided build (`guided-build.tsx`) | which card is open | the checklist, worked out after every change | editor | each task looks at one pair of types |
| Trace animation and sender panel (`packet-sender.tsx`, network builder) | one running trace, its timer | send, step, pause, abort | packet trace API | link goes down under a trace |
| Packet trace (`services/packet-sender-service.ts`) | none | trace a packet through a topology | store | order of the checks, path search, TTL, firewall rules |
| Control plane tables (`control-plane-service.ts`), design validation (`validation-service.ts`) | none | pure functions of a design | store | each device's table by itself; must agree with the others and with the trace |
| Subnet calculator (`cidr-service.ts`, `cidr-calculator-page.tsx`) | the page's state | calculate, divide, join | HTTP | boundary values; answers out of order |
| Packet synthesis (`packet-simulator.ts`) | packets planned for later | sessions, scheduler tick | capture | overlapping sessions, sequence numbers, checksums |
| Default workspaces (`network-service.ts`, `seed.ts`) | which topology is an owner's default | open, list, create, delete, save | MongoDB | two first requests at once |
| Configuration export, audit, metrics, health, rate limit, HTTP wiring, other pages | log entries, counters | record a request | every request | little: text layout, fire and forget |

What makes each component correct: *accounts* keep one account per identity and
never lose the last administrator; *erasure* removes everything of an erased
account, nothing of another, and ends; the *store* applies every acknowledged write
whole and exactly once, numbers snapshots without gaps, and loses nothing to a
restore; the *capture* runs one scheduler, numbers packets without gaps, never mixes
captures, and each stream sends every packet at most once and leaves out none but
those its limit drops; *DHCP* gives no address twice, gives every reservation back
and addresses every host that can be; the *editor* brings back what the user
removed, and the server follows it; the *panel* changes what was typed into and
nothing else; *site links* work from both ends, however many there are; an
*animation* has one timer and shows no packet on a dead link; the *trace* keeps
segments apart and obeys firewalls, TTL and routing tables; the *tables* of two
devices, the trace and the design check agree; the *calculator* describes exactly
the addresses it stands for; a *synthesized* conversation is one that a receiver
accepts; work that a page saved is what the owner's next page opens.

## Modules

| Module | Models | Actions correspond to |
|---|---|---|
| `Accounts` | users collection, JWT claims, account requests | one action per awaited database call: `SignInUnknown`, `CountUsers`, `CreateUser` are the three awaits of `findOrCreateUser`; `FindForRole`, `CountForRole`, `SaveRole` those of `setUserRole`; `FindForErase`, `CountForDelete`, `DeleteUser`, `Sweep` those of `eraseUserAndOwnedData` |
| `Erasure` (extends `Accounts`) | what the sweep deletes and what the owner writes meanwhile | `SweepData` is one `deleteMany`, `SweepFails` one that the database refuses; `BeginTopology`, `BeginVersion` and `Insert` the read and the write of an owner's request |
| `Topology` | what a topology contains, and each write as a function of it | `PutInto`, `WithoutNode`, `Apply` |
| `AtomicTopology` | what the API promises: each acknowledged write applied at one moment | `Commit`, `Delete` |
| `TopologyStore` | the same writes as read, edit and save, with snapshots and restores | `Find`, `Save`, `SaveFails`; `SnapFind`, `SnapLast`, `SnapCreate`; `RestoreFind` |
| `Capture` | simulator, streams and pages | `Tick` and `StreamTick` are the interval callbacks; `Mount`, `ClickStart`, `ClickStop` send a request, `Started`, `Stopped` go on with its answer |
| `Addressing` | IPv4 arithmetic of `lib/ip.ts` over `Width` bits | operators |
| `Paths` | `reachableFrom`, `findPath` | operators |
| `StableSort` | `Array.prototype.sort` with a key | operator |
| `Subsequences` | `Array.prototype.filter`, by the positions that stay | operators |
| `Forwarding` | `tracePacket` | `TracePacket` begins one; one action per kind of hop: `MeetSegment`, `MeetTtl`, `MeetPoweredOff`, `MeetFirewall` and so on, in the order in which the loop tries them |
| `ControlPlane` | `getControlPlane`: ARP, MAC, leases, OSPF, STP, ACL and NAT tables | operators |
| `Validation` (extends `Forwarding`) | the seven checks of `validateTopology` | operators |
| `DesignTools` (extends `Validation`, `ControlPlane`) | the three services on one stored design | `Inspect`, and the steps of a trace |
| `Subnets` | the calculations and the page | one action per button, one per answer, which may be an error or come late |
| `Synthesis` | sessions, plans and the scheduler | `Tick`, on time or late; `Start`, `Stop`, `ClearPackets` |
| `Editor` | canvas, history, draft, requests under way | one action per handler; `Serve`, `NotFound` and `Fail` are the server's side of a request, `Arrive` and `SendAll` its answer; `Paint` renders what an answer set. `behind` of a panel's report is latched by the step that lets the server fall behind |
| `NodePanel` | the panel's copy and the canvas's configurations | `Stroke` is any one edit of any tab; writes from elsewhere |
| `GuidedBuild` | checklist and canvas | `Build` is any one change of the canvas |
| `Workspaces` | topologies and their `isDefault` mark, pages | one action per awaited database call of `getOrCreateDefault`, one for each other request |
| `Dhcp` | hosts, leases, flights of the exchange, the canvas as asked for and as rendered | `SimTick` begins an exchange, `FlightOf` moves one packet by one frame and goes on with the exchange when it arrives, `Render`, power, links, edits |
| `Ambient` | packets in flight, each with the rest of its conversation | `AmbientTick`, `Frame`, faults |
| `TraceAnimation` | the panel's requests, the trace shown, its timer | `Send` and its two answers, `RunStep` (the timer), `Draw` (a render), pause, resume, drop |
| `WanLink` | devices with interfaces and routes | `ConfigureWanLink`, `Readdress` |
| `MCServices` | `DesignTools`, `Subnets`, `Synthesis`, `Editor`, `NodePanel`, `GuidedBuild` and `Workspaces` side by side | |
| `MCClient` | `Dhcp`, `Ambient`, `TraceAnimation` and `WanLink` side by side | |
| `MCServer` | `Accounts` and `TopologyStore` side by side | |
| other `MC*` | symmetry sets and constant definitions for TLC | |
| `Algorithms_proofs` | lemmas about the operators: paths, search, sorting, filtering, quotients, powers of two and digits | |
| `Accounts_proofs`, `TopologyStore_proofs`, `Capture_proofs`, `Editor_proofs` | theorems about `Accounts` with `Erasure`, `TopologyStore`, `Capture`, `Editor` | |
| `Services_proofs` | theorems about `Forwarding`, `ControlPlane`, `Validation` and `Synthesis` | |
| `Simulation_proofs` | theorems about `Dhcp`, `TraceAnimation`, `WanLink` and `Ambient` | |
| `Pages_proofs` | theorems about `Workspaces`, `NodePanel`, `Subnets` and `GuidedBuild` | |

The components of `MCServices`, those of `MCClient` and the two of `MCServer` share
no state in the code as far as their properties go. A behaviour of such a module
therefore chooses one of them (`part`) and leaves the others at rest: that is a
union of instances, and no interleaving between components is claimed. Components
that do share state are one module (`Erasure` extends `Accounts`, `DesignTools`
extends the three services, `Editor` has the store it writes to).

A *request* (`req`; in the store a *call*, `call`) records which call a handler
awaits (`pc`) and the locals it keeps across that await; a value that is read in one
step and used in a later one is therefore as old in the model as it is in the code.
`Restart` and `Crash` drop every handler and everything the process holds in memory,
and keep documents and JWTs. History variables (`overlapped`, `dropped`, `late`,
`raced`, `swept`, `epoch`, `born`) do not influence the actions, save for the bound
on `epoch`. Definitions marked *faulty variant* are not part of a specification:
each is a plausible bug of the definition after it, and makes some property fail.

Abstractions. A node's settings are one value, its `config`. An edge is the set of
its end nodes. An owner's documents in one collection count as one. A packet is
the number of its creation. A request and its handling are one step where nothing
can come between them that the properties tell apart: a page's click reaches the
server at once, and its answer comes later or never (`AnswerLost`).

An address has 4 or 5 bits; prefixes, masks, blocks and private ranges scale with
it. A packet's bytes are left out, save for the words a checksum adds up (two
digits of a small base) and the sequence numbers (3 bits, so that they wrap). A
conversation of the ambient traffic is the list of packets still to fly, drawn
when it begins, where the code spawns each packet in the callback of the one
before: what is drawn depends on nothing that changes meanwhile. A frame moves a
packet by one wire. Which of several shortest paths is found depends on the order
of the stored edges and is left open, as is which of two documents `findOne`
returns, and which free address or time a random draw gives.

How Mongoose saves an array is not in the source; `SaveMatches` and `Saved` state
it as the code relies on it. A pushed element goes out as `$push`. An array that
was assigned or marked modified goes out whole and only if the stored revision
`__v` is the one that was read. A save that touches no array is not checked.

## Runs

| Run | Instance | Shows |
|---|---|---|
| `server` | accounts: 3 ids, 2 identities, 2 requests, symmetric; store: 3 calls, 2 nodes, 1 edge, 2 configs, 3 PUT bodies | types; one account per identity; the last-admin guard keeps an administrator as long as no two removals overlap; data is swept only when the account is gone. The store implements `AtomicTopology`; snapshot numbers are 1..n; a restore overwrites only what is snapshotted, unless another save raced it |
| `accounts_lockout` | the accounts of `server` | **violated**: two overlapping removals lock everyone out |
| `accounts_demoted` | the accounts of `server` | **violated**: an old session still administers |
| `erasure` | 2 ids, 2 identities, 1 erasure, 1 write | what survives an erasure was dropped by a restart or a refused `deleteMany`, or written late; no living account's data goes except by its own session; every erasure ends |
| `erasure_late` | the same | **violated**: a surviving session writes after the erasure |
| `store_restore` | the store of `server` | **violated**: an edit between snapshot and restore is in no snapshot |
| `capture` | 2 pages, 2 streams, 3 packets, buffer of 2, messages of 1, 2 resets | one scheduler; gapless numbers; no packet of an earlier capture; streams repeat nothing and skip only what the limit drops |
| `capture_stop` | the same | **violated**: a double start leaves a stream that Stop does not close |
| `services` | designs of 1 to 4 devices (all kinds on a path of four, bridges in every arrangement, two routers with one or two interfaces), 3 packets; 5 networks and 3 calls; 2 overlapping sessions; canvases of 2 devices, history of 2, 4 acts, 2 requests under way; 2 devices in the panel and 2 strokes; 12 wires for the guided build; 4 clients of 2 owners, 3 topologies | see the properties below |
| `design_shadow` | the designs of `services` | **violated**: a rule reported as shadowed decides a packet |
| `editor_ids` | the editor of `services` | **violated**: a device added after a reset gets an id that is on the canvas |
| `client` | 2 hosts, a router and a server with 2 addresses; an appliance with three services; a ring of four routers; 2 or 3 sites | see the properties below |

The properties of `services`:

* `SegmentsKeptApart`, `FirewallsObeyed`, `RoutingSound` (the walk is what the
  answer says, TTL, longest prefix): what a delivered packet may have passed.
* `DeliveredMeansArp`, `SpanningTreesAgree`, `AdjacenciesAgree`, `ShadowedIsDead`:
  tables of two devices, the trace and the check, each worked out on its own,
  agree where their subjects overlap. Of the spanning tree they agree on the root,
  the costs and the root ports, which make no cycle; that the wires in use form a
  tree is not claimed, for the code gives a bridge several root ports and blocks
  nothing (`control-plane-service.ts:305-311`). A rule reported as shadowed decides
  nothing, unless the check reads the rule before it otherwise than the trace or
  that rule leaves a direction open.
* `CalculatorExact`, `PageConsistent`: results against sets of addresses; what
  the page shows belongs together unless two calculations crossed.
* `CaptureReadsInOrder`, `SegmentsAcceptable`: the capture as a receiver reads it.
* `EditsUndoable`, `ServerFollows`, `ReportFits`: undo of what the page's own
  commands remove, at the cap, background sync
  beside full saves, a report asked for right after a save that nobody awaits.
* `OneSettingAtATime`: a keystroke changes one setting or one row, unless another
  writer changed the device while it was shown.
* `TickedMeansGuarded`: a finished checklist with no device or wire too many has
  the firewall between the Internet and everything but the router.
* `WorkReopens`: saved work is in the owner's only default, unless two first
  requests overlapped.

The properties of `client`: `ReservationsHeld` and `LeasesUnique` (reservations
and exchanges correspond; no address twice but by an edit or before a render),
`HostsAddressed`; `ConversationsCoherent` and `TrafficDrains`; `OneTimer`,
`NeverSails`, `AnimationEnds`; `SitesLinked` (addresses and routes of the site
links that were the last of their routers).

Several invariants are conjunctions of named parts; each part is stated and
commented beside its module.

Exceptions are history variables that say exactly when the code cannot keep the
promise: `crossed` (`Subnets`), `unsynced`, `behind` and `keyed` (`Editor`), `stale`
(`NodePanel`), `raced` (`Workspaces`), `tainted` (`Dhcp`), `overlooked`
(`TraceAnimation`), `spent` (`WanLink`), `dropped`, `late` (`Erasure`).

Why the bounds are enough. A race needs two requests; the third of the store lets a
restore, the write that races it and an earlier snapshot meet. Three ids allow an
account to be erased and its identity to sign up again beside another account.
A second stream per simulator, and a limit below the buffer size, make streams
fall behind; three packets and a buffer of two evict; two resets let a packet
and a stream outlive a capture and meet the next one. Two hosts and two addresses
make the pool run out with both in flight, and a lease be freed and taken again;
the router between them is switched off in the middle of an exchange. Four
devices give a path two devices to meet between its ends and an alternative to
it, so that a firewall, NAT and a segment meet in every order. A history of two
overflows with the third edit, and four acts allow an edit after an undo at the
cap. Two requests under way overtake each other. In `WanLink` a link has two
blocks to try and the first may be taken. Four bits have blocks of one, two, four
and all addresses.

Bounds in guards: `MaxPackets`, `MaxEpoch`, the number of streams, one awaited
stop per page, `Calls` as the requests that are ever served by
`TopologyStore`, `MaxCalls`, `MaxTime`, `MaxSessions`, `LastStart`, `MaxActs`,
`MaxRequests`, `MaxStrokes`, `MaxOthers`, `Cabling`, `MaxDocs`, `MaxEdits`,
`Touched` and `Typed` (what the user of the simulation touches and types),
`MaxFaults`, `MaxChanges`, `MaxSends`, `LanAddresses`, `MaxClicks`. Deadlock is
checked for erasure only: the others stop when their bounded requests, packets and
clicks are used up, the accounts never, since any of their requests can begin again.

Fairness. `ErasureFairSpec` assumes weak fairness of each `SweepData`, because
MongoDB answers each `deleteMany`, if only with an error, unless the process dies.
`MCSpec` of `MCClient` assumes it of what runs by itself: the frame loop
(`FlightOf`, `Frame`: a `requestAnimationFrame` loop that keeps itself going while
anything flies), the clock of the simulation (`SimTick`: an interval), React's
renders (`Render`, `Draw`) and the timer of an animation (`RunStep`: each step
starts the next). No user, no sign-in, no restart, no fault and no answer of a
server is assumed to happen.

## Where code and documents disagree

Each is a run that TLC must find violated.

* *Lock-out.* `organizational/admin-guide.md:26-27` says the system refuses to
  remove the last administrator. `setUserRole` and `deleteUser` count in one
  database call and write in another (`auth-service.ts:77`, `:89`).
* *Demotion.* `organizational/account-lifecycle.md:55-57` says a demoted user
  loses admin access immediately. `requireRole` reads the JWT (`auth.ts:45`).
* *Erasure.* `auth-service.ts:96` promises the account and everything it owns.
  `ownerOf` (`auth.ts:61`) lets another session of it write afterwards.
* *Restore.* `docs/api.md:467-468` says a restore is never destructive. The
  snapshot and the overwrite read the topology separately
  (`version-service.ts:63-64`).
* *Ids.* `network-builder-page.tsx:982-984` starts the counter above every id on
  the canvas "so a restored autosave can never collide with a freshly added
  device". `handleReset` (2378) and the Versions panel's `onRestored` (2791) put
  stored devices on the canvas and leave the counter where it was.
* *Shadowed rules.* `validation-service.ts:223` says of a rule after a match-all that
  it "never matches". `isAny` (208) takes `*` as any, which the trace's `matchIp`
  and `matchPort` (`packet-sender-service.ts:113-118`, `:159-169`) let match nothing,
  so the rules behind still decide; and a rule of both directions behind a
  match-all of one still decides in the other.
* *Stop.* `docs/use-cases/uc-paket-mitschnitt.md:44` says Stop closes the stream.
  A second start loses the first stream (`packet-capture-page.tsx:48`).

Seen while modelling, with no run of their own:

* *Accounts and store.* Two first sign-ins that overlap on an empty instance both
  become administrators (`auth-service.ts:41-49`, against
  `organizational/README.md:41-42`). A restart between account deletion and sweep
  leaves data that nobody can erase (`dropped`), and so does a `deleteMany` that is
  refused (`network-service.ts:96`). After a Clear an open stream
  stays silent until the numbers pass the last one it sent
  (`packets.handlers.ts:34`). A higher snapshot number may hold an older topology.
  Two first requests of an owner may create two default topologies (`raced`); the
  list makes a default only for an owner without any topology.
* *Trace.* A packet is dropped when it has passed more layer 3 devices than its TTL
  (`packet-sender-service.ts:436`), where `docs/architecture.md:139` and
  `uc-paket-senden.md:69-97` have it expire earlier, and the order of the checks
  differs from `docs/architecture.md:129-139`. After NAT a second firewall sees
  the public source. The next hop of a route is not looked at, nor is a link's
  status when the graph is built. A trace that ends at a switch, an access point
  or a firewall is neither delivered nor blocked.
* *Tools beside the trace.* A rule's source port counts for the check and not for
  the trace; an empty condition matches everything for the trace and is not "any" for
  the check; `0.0.0.0/0` as a port is any for the check and port 0 for the trace. In a
  ring a bridge has several root ports. The role `blocking` never occurs in a spanning
  tree (`control-plane-service.ts:294-325`). An interface without a prefix is a
  /24 for the trace and has no ARP entries.
* *Calculator.* A count and a prefix together can lead out of the network
  (`cidr-service.ts:148-158`). Enter and the presets ignore `loading`, and late
  answers overwrite (`cidr-calculator-page.tsx:115-157`).
* *Editor.* The `ReactFlow` element (2714-2735) sets no `deleteKeyCode`, so
  Backspace removes the selected devices and links through `onNodesChange` and
  `onEdgesChange` with no `pushHistory`: such a device is in no history
  (`KeyDelete`, noted in `keyed`), where `docs/use-cases/requirements.md:16`
  (REQ-NB-6) has the user undo and redo changes. `EditsUndoable` is therefore about
  the page's own commands. `packet-sender.tsx:86-97` stores links without their
  settings. The panels call `handleSave` and do not wait for it (2605-2627). Reset
  removes the draft, but an autosave may write it back before the answer; a cleared
  canvas comes back from the draft. The panel's next keystroke undoes a lease, a
  power switch or an undo that came while it was open (`stale`). A new firewall
  rule's priority can be lower than that of the rules there
  (`properties-panel.tsx:966`).
* *Simulation.* A packet sails on when its hop was cut during a pause (`overlooked`,
  against the comment at 1147-1149); the link after a blocking hop is shown active.
  `applyLease` gives every reachable router the same gateway address, and frees the
  reservation before the render, against the comment at 1480. Request and reply of
  one exchange show different transaction ids in the inspector. A second
  configuration of a site link takes a new block and leaves the old routes; the
  second link of a router takes its WAN interface away; after 64 tries a block is
  used although it is taken. A block counts as free when its two middle addresses
  are (2262): a host on its first or last address is not routed to. The task "Cable
  3 office devices" counts links.

## Proofs

TLAPS checks these for every value of the constants, from the named assumptions
on constants in each module.

| Theorem | Statement |
|---|---|
| `TypeCorrect` | `Spec => []TypeOK` (`Accounts`) |
| `IdentityUnique` | `Spec => []OneAccountPerIdentity` |
| `GuardSound` | `Spec => []SerialGuardKeepsAdmin` |
| `SweepSound` | `Spec => []SweepOnlyAfterRemoval` |
| `ErasureSound` | `ErasureSpec => []OrphansExplained` |
| `LiveDataSafe` | `ErasureSpec => LiveDataOnlyLeavesByOwner` |
| `StoreTypeCorrect` | `StoreSpec => []StoreTypeOK` (`TopologyStore`) |
| `StoreImplementsAtomic` | `StoreSpec => WritesAreAtomic`, the refinement of `AtomicTopology` |
| `VersionsNumbered` | `StoreSpec => []VersionsGapless` |
| `RestoreSound` | `StoreSpec => []RestoreLosesOnlyRaces` |
| `SchedulerSound` | `Spec => []OneScheduler` (`Capture`) |
| `CaptureSound` | `Spec => []BufferSound` |
| `StreamsSound` | `Spec => []StreamsExact` |
| `LeasesSound` | `DhcpSpec => []LeasesUnique` |
| `ReservationsSound` | `DhcpSpec => []ReservationsHeld` |
| `AnimationSound` | `TraceSpec => []OneTimer` |
| `TraceNeverSails` | `TraceSpec => []NeverSails` |
| `LinksWork` | `WanSpec => []SitesLinked` |
| `ConversationsHold` | `AmbientSpec => []ConversationsCoherent` |
| `ServerCatchesUp` | `EditorSpec => []ServerFollows` |
| `ReportsTheDesign` | `EditorSpec => []ReportFits` |
| `RemovalsUndoable` | `EditorSpec => EditsUndoable` |
| `FirewallsHold` | `DesignSpec => []FirewallsObeyed` |
| `SegmentsHold` | `DesignSpec => []SegmentsKeptApart` |
| `RoutingHolds` | `DesignSpec => []RoutingSound` |
| `ArpAgrees` | `DesignSpec => []DeliveredMeansArp` |
| `ShadowedAreDead` | `DesignSpec => []ShadowedIsDead` |
| `AdjacenciesHold` | `DesignSpec => []AdjacenciesAgree` |
| `RootPortsAgree` | `DesignSpec => []SpanningTreesAgree` |
| `WorkspacesSound` | `WorkspacesSpec => []WorkReopens` |
| `KeystrokesPrecise` | `PanelSpec => OneSettingAtATime` |
| `PageSound` | `SubnetsSpec => []PageConsistent` |
| `CalculatorSound` | `SubnetsSpec => []CalculatorExact` |
| `CaptureInOrder` | `SynthesisSpec => []CaptureReadsInOrder` |
| `SegmentsTaken` | `SynthesisSpec => []SegmentsAcceptable` |
| `SiteGuarded` | `GuidedSpec => []TickedMeansGuarded` |

The assumptions are about what inputs look like, and TLC evaluates them for the
instances above. Markers (`None`, `NoTrace`, `Unset` and the like) are no values.
Seeds and patches are topologies. Devices have lists of interfaces, rules and
routes (`ForwardingAssumption`); a wire of a design leads from its source to
another device, no two rules of a device are the same, since each has an id, and
bridge ids have ranks, which may be equal (`InspectedAssumption`). The tables in a
device's settings are lists, an absent one being empty (`PanelAssumption`).

*Accounts.* The inductive invariant is `AccountsInv`. Uniqueness of identities
is inductive with types. `SweepOnlyAfterRemoval` needs `IdsIssued`: an id that a
handler works on has been issued, so no later sign-up can bring it back.
`SerialGuardKeepsAdmin` speaks of now, while the guard was evaluated at an
earlier step; `SerialInv` says what has stayed true since. `OneRemover`: as long
as nothing overlapped, at most one handler is about to take an administrator
away. `AnotherAdmin`: once it has counted, there is an administrator besides its
target. `LaterSignUp`: a sign-up that was promised `editor` finds an
administrator in place. Promotions, sign-ins and restarts keep all three.

*Erasure.* Every step of `Erasure` is a step of `Accounts` or leaves its variables
alone, so `AccountsInv` carries over. The rest is about sweeps: no step but the
sweep itself and a restart takes a pending sweep away, and the step that removes
an account puts its sweeps up (`KeepsSweeps`). `SweepOnlyAfterRemoval`, from
`Accounts`, is what keeps a sweep off the data of an account that exists.

*Store.* `StoreInv` adds to the types that every number handed out is bounded by
the ones stored. The refinement rests on `RevisionGuards`: as long as the
revision a handler read is still current, the arrays it read are the stored
ones. So a save that sends an array edits the current one (`SaveIsAtomic`), a
push meets the current array by itself, and every other step is a stutter.
`GaplessInv` adds that the number a handler read is not ahead of the stored
ones: with the unique index, the only insert that succeeds is the next number.
`RestoreInv` adds `SnapshotCurrent`: what an unraced handler has read is what is
stored.

*Capture.* `SimulatorInv` adds that what is scheduled or captured has been made
up, so that the epoch it was born in is known. `LastOfEnd` says what the eviction
keeps of the buffer; with it the numbers of the packets that stay do not move.
`StreamsInv` counts: a stream has sent as many packets as it has got different
ones (`CountsOK`), and a packet of the buffer that its cursor is past, while the
numbers are those it began with, was sent or dropped by the limit (`SkipsOK`).

*Dhcp.* `LeaseInv` says that what is marked as busy and as reserved is what the
packets under way hold, one packet each (`Held`), and that an address held by a
packet is nobody's yet unless it is tainted (`LeasesReserved`). A lease then
writes an address that no other host has. That the lowest free address exists is
the well-foundedness of the naturals. `WayInv` says where a packet can be: on a
shortest path between its host and the server, as `findPath` gave it when it was
sent. So it arrives at one of the two, and what it holds is given on or back.

*Trace animation.* `TimerInv`: a timer runs exactly while an animation is neither
paused nor over, and a paused one is an animation still. `HopInv` keeps the link
that was crossed last alive, since the action that kills one looks at the trace.

*Site links.* `WanInv` says of every link configured, as long as its routers were
left alone and a block was free: its two ends have the addresses of one block
(`EndsAddressed`), which no other interface has, and each table leads to what was
behind the other end (`EndsRouted`). A new link keeps what the old ones were
promised, since its addresses are free and its routers are others; that a table
which was empty leads to the new other end is arithmetic with remainders of
powers of two. The base address is a multiple of four, as the code's is, and a
site's wires join two of its devices (`WanAssumption`).

*Ambient traffic.* `AmbientInv` says of every conversation under way that the rest
of it is coherent by itself (`Underway`), so that each packet that lands may hand
over to the next. Where it begins, it is put together from parts: a script begins
with a request and has each answer mirror its request (`Script`), which two
scripts one after the other keep; and each packet is kin to the two devices
(`Kin`): theirs and of the application's family, or a lookup by the client, or a
question of the server to a database. Those are three different pairs of devices,
because a client is never a database and no lookup asks the destination. The bag
of what flies is counted by its copies (`InFlight`): a frame takes one out and
puts one in at most, and a burst puts in as many as were drawn.

*Editor.* What the server will hold is worked out message by message (`Trail`)
from the last full save on, whatever was lost before it; `InStep` says that the
trail of what is under way ends in the canvas. A report is answered somewhere on
that trail, and fits if nothing after it on the trail changes the design. This
shows that `ReportFits` needs the latch `behind`: without it, an invariant that
only looks at the messages fails with three requests under way, where a lost
write is made good by a later save, after the answer. `RemovalsUndoable` follows
each removal by a command of the page into the history it is pushed on, cap and all.

*Trace.* `FirewallsObeyed` is not inductive: `WalkInv` adds that the hops recorded
are those of the devices behind the packet, each with the source the packet had
when it came there, and that a firewall behind was obeyed for that source. One
lemma (`PushKeeps`) shows what a hop keeps, and each action is a hop
(`MeetCases`). Sorting is a permutation in order of priority, and filtering keeps
the order, so that the first rule that matches is the first of the enabled ones.

*Tables and check.* `ShownInv` is all that the steps have to keep: what is on
display was worked out for one stored design. The rest is about the operators.
OSPF: an entry stands for one pair of interfaces (`ListedPair`), and both devices
and the check look at the same pairs. Spanning tree: the search from a bridge
finds its component and nothing else (`ReachableIsComponent`), so all bridges of
an island take the least of the same set as root; the distance of a bridge is the
round in which the search from the root finds it, hence another one is nearer by
one (`SomeoneNearer`), and of any set of bridges the nearest has no root port into
the set. Shadowed rules: a match-all that the
trace reads as the check does matches whatever comes its way before the rules behind.

*Synthesis.* Every list of packets that is planned at once has, for each reply, an
earlier request from the host that is answered (`Session`): by construction for a
question and its answer, and for a web session because its first segment is the
client's and the clock goes on with every later one, however long the script is.
Whole sessions are planned, so what is planned and what is buffered answer each
other (`ReadingInv`) as long as nothing was evicted. Nothing planned is due yet and
all that is buffered was, so the request of a buffered reply is in the buffer too,
and earlier; the sort by due time and the numbers keep the buffer's order.

*Segments.* `CaptureReadsInOrder` says where a segment is, `SegmentsAcceptable` what
is in it: it starts where the sender's last one ended, acknowledges everything the
receiver has sent before it, and its checksum verifies. `StreamsTold` is the
inductive part: as long as nothing was evicted, no packet is planned or buffered
twice, and the packets of one TCP stream, wherever they are, are together one
whole conversation (`Streamed`). The scheduler only moves packets from the plans to
the buffer (`TickKeepsStreams`), and a session adds a stream of a new number
(`CarriedTogether`). That what a script counts up is what the segments before have
consumed is one sum per side: the script's own counters (`SumsEven`), the sum
over the packets of the conversation that are earlier (`SentIsSum`), and the sum
over the places of the buffer (`BufferHolds`) add up the same segments, since the
buffer has them in the order of the script. A checksum verifies because the
one's-complement sum of the words and of its complement folds to all ones
(`SealedVerifies`), for any number of words.

*Workspaces.* `WorkspacesInv`: ids are handed out once, a page shows a topology
that was a default of its owner, only defaults are saved into, and unless two
requests overlapped an owner has one default at most (`OneDefault`), and none
while a request is about to create it (`OneCreator`).

*Pages.* Panel: its copy is the configuration of its device as long as it is not
`stale` (`PanelInv`); then each kind of edit changes one setting and, in a table,
one row. Calculator page: `AwaitedFit` says what the answers under way will fit
to; it is needed because an answer is compared with nothing when it comes. The
numbers on display, or on their way, are what the service made of some question
(`CalcInv`), and the rest is arithmetic for any width: an address is in a block
exactly when its quotient by the block's size is the block's (`SameBlock`), sizes
are powers of two that multiply (`PowerSum`), so that the parts of a split tile
the block, and prefixes with common leading bits have the same quotient, so that
a join holds both and no smaller block does. Guided build: a finished checklist has
counted eleven devices of disjoint kinds and ten wires between disjoint pairs of
kinds (`KindsAdd`, `TwoCounted`); a site of eleven and ten therefore has one
firewall, and no wire but those the tasks ask for (`OneFirewall`, `WireEnds`). From
the Internet such wires lead to the router and from there to the firewall only, so
that whatever is reached without it is on the Internet's side; and an office
device, which is wired to something since all is connected, is wired to a switch.

Induction over data is out of the prover's reach, and several proofs need one for
a recursive function or over the length of a list. They take the least
counterexample instead (`LeastNumber`): that the rounds of a search grow and close,
that a shortest path has no shorter one, that a filtered list keeps its order, that
powers of two are positive and multiply, that a number has the digits it was
written with, that a finite set of numbers has a bound.

Only model-checked: `ErasureCompletes`, `HostsAddressed`, `TrafficDrains` and
`AnimationEnds`. They are liveness properties under fairness, which the prover
cannot treat. Every other property of the runs that must pass, invariants and action
properties, the refinement included, is stated by a theorem.

## Plan

Done: every component of the list above that has a protocol or a computation is
modelled and checked. Left, in this order:

1. An abstract lease table that `Dhcp` implements as long as nothing is tainted.
2. The panels that fetch: versions, device state, administration.

## Abstractions that a reader may miss

* A condition of a firewall rule is one of the texts that the code treats apart, a
  literal network or set of ports, or some other text; a literal is never malformed.
* A mask that is not contiguous, which the services read in different ways, and an
  address that does not parse are left out: a mask is a prefix length, and an
  interface has an address or none (`PrefixOf`, `IfacePrefix`, `AddressAs`).
* `MayCreate` lets every session create a topology: `requireWrite` keeps a viewer
  out, but opening the default creates it for an owner who has none
  (`network-service.ts:18-21`), and which topology is the default is kept in
  `Workspaces` only.
* `SaveRole` writes the role whatever was stored. Mongoose sends nothing when it is
  the same, which nobody can tell from writing it.
* `Synthesis` lets a scheduler tick begin up to two sessions, where the code begins
  up to nine and `startCapture` six; the first burst comes with the next tick.
* `Dhcp` has one server. Undo, redo and restore, which also put addresses on the
  canvas, are in `Editor` only.
* `WanLink` readdresses a host with a free address only; one in use, which can be
  typed, makes a duplicate that the design check reports.
* `TraceAnimation` lets a page ask for a trace with or without storing first, since
  the page stores only once it knows its topology (`packet-sender.tsx:80`).

## Not modelled

* Configuration export (`config-export-service.ts`): text layout of a device's
  configuration; nothing but wording to check.
* Bytes of synthesized packets beyond checksums and numbers, the packet
  inspector's decoding, drawing, presentation, translations.
* The OAuth redirect (`state` cookie and code exchange) ends in the same
  `findOrCreateUser` as the modelled sign-in.
* HTTP wiring, audit, metrics, health and rate limiting: routing tables and
  fire-and-forget code without a protocol.
* Client pages other than the network builder, the capture and the calculator:
  one request per button. The administration page, the versions panel, the
  device state panel and the settings page are not modelled.
