--------------------------- MODULE TraceAnimation ----------------------------
(***************************************************************************)
(* Sending one packet by hand (packet-sender.tsx) and its animation on the *)
(* canvas (network-builder-page.tsx).                                      *)
(*                                                                         *)
(* Send stores the canvas, asks the server for the trace and animates the  *)
(* answer hop by hop on a timer.  The canvas may change meanwhile: what    *)
(* the server traced is not what the packet is shown on.                   *)
(***************************************************************************)
EXTENDS Integers, FiniteSets, Sequences, Paths

CONSTANTS
  Boxes,        \* devices
  Links,        \* links of the topology
  From, To,     \* source and destination picked in the panel
  NoTrace,      \* no trace is animated
  MaxChanges,   \* bound: edits of the topology
  MaxSends      \* bound: packets sent

ASSUME TraceAssumption ==
  /\ IsFiniteSet(Boxes) /\ \A w \in Links : w \subseteq Boxes /\ Cardinality(w) = 2
  /\ {From, To} \subseteq Boxes /\ From # To
  /\ MaxChanges \in Nat /\ MaxSends \in Nat

VARIABLES
  net,          \* the canvas: devices, links, which are down, which devices are off
  drawn,        \* the canvas as rendered last: nodesRef, edgesRef
  stored,       \* the topology on the server
  sending,      \* the request of the panel: "no", "update" or "trace"
  posted,       \* body of the update: the canvas when Send was pressed
  trace,        \* traceResultRef
  step,         \* stepRef
  animating, paused,    \* isAnimatingRef, isPausedRef
  timers,       \* how many timers will call runStep
  overlooked,   \* history: the hop under the packet went dead while paused
  changes, sends    \* bounds

traceVars == <<net, drawn, stored, sending, posted, trace, step, animating, paused,
               timers, overlooked, changes, sends>>
animVars == <<trace, step, animating, paused, timers, overlooked>>

TraceInit ==
  /\ net = [boxes |-> Boxes, links |-> Links, down |-> {}, off |-> {}]
  /\ drawn = net /\ stored = net
  /\ sending = "no" /\ posted = net /\ trace = NoTrace /\ step = 0
  /\ animating = FALSE /\ paused = FALSE /\ timers = 0 /\ overlooked = FALSE
  /\ changes = 0 /\ sends = 0

-----------------------------------------------------------------------------
(* What the server answers: a shortest path over the stored links, walked  *)
(* until a device that is off or a reason of its own (see Forwarding)      *)
(* stops the packet.  It does not know which links are down.               *)
Traced(links, off) ==
  LET paths == ShortestPaths(From, To, links)
      Walks(p) == {k \in 2 .. Len(p) : \A i \in 2 .. k - 1 : p[i] \notin off}
  IN  IF paths = {} THEN {[path |-> <<>>, hops |-> 1, blocked |-> TRUE]}
      ELSE UNION {{[path |-> p, hops |-> k, blocked |-> b] :
                     k \in Walks(p), b \in BOOLEAN} : p \in paths}

ASSUME NoTraceAssumption ==
  \A links \in SUBSET Links, off \in SUBSET Boxes : NoTrace \notin Traced(links, off)

Plausible(r) == r.path # <<>> => r.blocked \/ r.hops = Len(r.path)

(* The link that is crossed in a step, and the devices at its ends; beyond *)
(* the path there is none.                                                 *)
Ends(r, s) == {r.path[i] : i \in {s, s + 1} \cap DOMAIN r.path}

Crosses(r, s) == s >= 1 /\ s < Len(r.path)

HopAlive(canvas, r, s) ==
  /\ Crosses(r, s) => Ends(r, s) \in canvas.links \ canvas.down
  /\ Ends(r, s) \subseteq canvas.boxes \ canvas.off

(* getEdgeState, for the link that step number e of the path crosses. *)
EdgeState(e) ==
  CASE e > step -> "path"
    [] e <= step /\ trace.blocked /\ e = trace.hops - 1 -> "blocked"
    [] e <= step /\ ~ (trace.blocked /\ e = trace.hops - 1) ->
         IF e = step THEN "active" ELSE "done"

-----------------------------------------------------------------------------
(* Faulty variant: pausing leaves the timer running. *)
LeftRunning == timers

(* timerRef knows the timer set last. *)
Cancelled == IF timers > 0 THEN timers - 1 ELSE 0

ClearTrace ==
  /\ trace' = NoTrace
  /\ timers' = Cancelled
  /\ animating' = FALSE /\ paused' = FALSE /\ overlooked' = FALSE
  /\ UNCHANGED step

DropTrace ==
  /\ trace' = NoTrace /\ step' = 0
  /\ timers' = Cancelled
  /\ animating' = FALSE /\ paused' = FALSE /\ overlooked' = FALSE

(* handleTraceResult, startAnimation *)
StartAnimation(r) ==
  /\ trace' = r /\ step' = 0
  /\ timers' = Cancelled + 1
  /\ animating' = TRUE /\ paused' = FALSE /\ overlooked' = FALSE

MoreHops(s) == s < trace.hops

(* runStep, when its timer fires. *)
RunStep ==
  /\ timers > 0
  /\ IF paused \/ trace = NoTrace
     THEN timers' = timers - 1 /\ UNCHANGED <<trace, step, animating, paused, overlooked>>
     ELSE IF ~ HopAlive(drawn, trace, step + 1) THEN DropTrace
     ELSE /\ step' = step + 1
          /\ timers' = IF MoreHops(step') THEN timers ELSE timers - 1
          /\ animating' = MoreHops(step')
          /\ overlooked' = FALSE
          /\ UNCHANGED <<trace, paused>>
  /\ UNCHANGED <<net, drawn, stored, sending, posted, changes, sends>>

-----------------------------------------------------------------------------
(* The packet sender panel. *)

(* A page that has not learned which topology it edits asks at once; what  *)
(* the page has learned is left open here.                                 *)
Send ==
  /\ sends < MaxSends /\ sends' = sends + 1
  /\ sending = "no"
  /\ \/ sending' = "update" /\ posted' = drawn
     \/ sending' = "trace" /\ UNCHANGED posted
  /\ ClearTrace
  /\ UNCHANGED <<net, drawn, stored, changes>>

(* networkApi.update: the canvas becomes the stored topology, or it fails. *)
Stored ==
  /\ sending = "update"
  /\ \/ sending' = "trace" /\ stored' = posted
     \/ sending' = "no" /\ UNCHANGED stored
  /\ UNCHANGED <<net, drawn, posted, animVars, changes, sends>>

TraceAnswered ==
  /\ sending = "trace"
  /\ sending' = "no"
  /\ \/ \E r \in Traced(stored.links, stored.off) : Plausible(r) /\ StartAnimation(r)
     \/ UNCHANGED animVars
  /\ UNCHANGED <<net, drawn, stored, posted, changes, sends>>

(* Faulty variant: the animation waits for the timer it has just lost. *)
StillWaiting == timers

Resumed == timers + 1

(* The button is there while an animation runs.  Resuming does not look    *)
(* whether the hop under the packet is still alive.                        *)
Pause ==
  /\ animating
  /\ paused' = ~ paused
  /\ timers' = IF paused THEN Resumed ELSE Cancelled
  /\ UNCHANGED <<net, drawn, stored, sending, posted, trace, step, animating, overlooked,
                 changes, sends>>

(* A click on a device or a link, the close button of the result, and the  *)
(* answer to Reset.                                                        *)
Dismiss ==
  /\ trace # NoTrace
  /\ ClearTrace
  /\ UNCHANGED <<net, drawn, stored, sending, posted, changes, sends>>

-----------------------------------------------------------------------------
(* The topology.  Power is stored at once, in the background. *)
Change(new) ==
  /\ changes < MaxChanges /\ changes' = changes + 1
  /\ net' = new
  /\ UNCHANGED <<drawn, sending, posted, animVars, sends>>

Flip(set, e) == (set \cup {e}) \ (set \cap {e})

Switch(n) ==
  /\ n \in net.boxes
  /\ Change([net EXCEPT !.off = Flip(@, n)])
  /\ stored' = [stored EXCEPT !.off = IF n \in net.off THEN @ \ {n} ELSE @ \cup {n}]

LinkStatus(w) ==
  /\ w \in net.links
  /\ Change([net EXCEPT !.down = Flip(@, w)])
  /\ UNCHANGED stored

DeleteLink(w) ==
  /\ w \in net.links
  /\ Change([net EXCEPT !.links = @ \ {w}, !.down = @ \ {w}])
  /\ UNCHANGED stored

(* With its links. *)
DeleteBox(n) ==
  /\ n \in net.boxes
  /\ LET left == {w \in net.links : n \notin w}
     IN  Change([net EXCEPT !.boxes = @ \ {n}, !.links = left, !.down = @ \cap left])
  /\ UNCHANGED stored

(* Faulty variant: nothing is checked when the topology changes. *)
NeverLooks == FALSE

(* checkTraceLiveness, with the new canvas, looks at the current hop. *)
Looks == animating /\ ~ paused

(* A render, and the effect of a changed topology. *)
Draw ==
  /\ drawn # net
  /\ drawn' = net
  /\ LET dead == trace # NoTrace /\ ~ HopAlive(net, trace, step)
     IN  IF dead /\ Looks THEN DropTrace
         ELSE /\ overlooked' = (overlooked \/ (dead /\ animating /\ paused))
              /\ UNCHANGED <<trace, step, animating, paused, timers>>
  /\ UNCHANGED <<net, stored, sending, posted, changes, sends>>

TraceNext ==
  \/ RunStep \/ Send \/ Stored \/ TraceAnswered \/ Pause \/ Dismiss \/ Draw
  \/ \E n \in Boxes : Switch(n) \/ DeleteBox(n)
  \/ \E w \in Links : LinkStatus(w) \/ DeleteLink(w)

TraceSpec == TraceInit /\ [][TraceNext]_traceVars

(* Timers fire and React renders; answers may take for ever. *)
TraceFairness == WF_traceVars(RunStep) /\ WF_traceVars(Draw)

-----------------------------------------------------------------------------
(* One timer drives the animation: none is left behind by a pause, a new   *)
(* trace or a dropped one, and none is missing while the packet moves.     *)
(* The trace on display is never one from before the packet being sent.    *)
OneTimer ==
  /\ timers <= 1
  /\ animating /\ ~ paused => timers = 1
  /\ trace = NoTrace => timers = 0 /\ ~ animating
  /\ sending # "no" => trace = NoTrace

(* "A trace never sails across a router that was switched off mid-flight": *)
(* the link shown as crossed is alive on the canvas, unless it went dead   *)
(* while the animation was paused.                                         *)
NeverSails ==
  animating /\ ~ paused /\ ~ overlooked /\ drawn = net
    /\ Crosses(trace, step) /\ EdgeState(step) = "active"
  => HopAlive(net, trace, step)

(* An animation that is not paused comes to its end. *)
AnimationEnds == []<>(~ animating \/ paused)
=============================================================================
