------------------------------- MODULE Editor -------------------------------
(***************************************************************************)
(* The topology editor of the network builder                              *)
(* (network-builder-page.tsx): the canvas with its undo history, the draft *)
(* autosaved in the browser, and the copy on the server, which edits reach *)
(* in the background or with a save.                                       *)
(*                                                                         *)
(* The handlers take a click, and React renders what they set before the   *)
(* next click; what an answer of the server sets is rendered some time     *)
(* later.  Requests travel side by side.                                   *)
(***************************************************************************)
EXTENDS Integers, FiniteSets, Sequences, SequencesExt, Subsequences

CONSTANTS
  Ids,          \* numbers of devices
  Configs,      \* configurations of a device
  Fresh,        \* the configuration of a new one
  Stock,        \* the topology on the server to begin with, and its snapshot
  Base,         \* initial value of nodeCounter
  HistoryCap,   \* 60
  NoDraft,
  NoReport,
  MaxActs,      \* bound: what the user does
  MaxRequests   \* bound: requests under way

(* Two devices of the canvas can be linked; a link has settings or none. *)
Topology == UNION {[cfg : [S -> Configs], link : {"none", "plain", "tuned"}] : S \in SUBSET Ids}

ASSUME EditorAssumption ==
  /\ IsFiniteSet(Ids) /\ Ids \subseteq Nat /\ Base \in Nat
  /\ Fresh \in Configs /\ Stock \in Topology
  /\ HistoryCap \in Nat \ {0} /\ MaxActs \in Nat /\ MaxRequests \in Nat

(* A design tool: the design it was opened on, when, the design its report *)
(* shows, and whether the server fell behind before it answered.           *)
ReportPanel ==
  [on : Topology, at : Nat, shows : Topology \cup {NoReport}, behind : BOOLEAN]

ASSUME ReportAssumption == NoReport \notin ReportPanel

VARIABLES
  doc,          \* the canvas, all updates applied
  rendered,     \* the canvas as rendered last: nodesRef, edgesRef
  past, future, \* historyRef
  nodeCounter,
  saved,        \* the autosaved draft in the browser
  known,        \* whether the page has learned which topology it edits
  remote,       \* the topology on the server
  messages,     \* requests and answers under way, in the order sent
  report,       \* the panel: what it was opened on, and the design it shows
  unsynced,     \* history: the server will not get what is on the canvas
  duplicated,   \* history: ids given twice
  keyed,        \* history: the last act that was Backspace
  acts          \* bound

editorVars == <<doc, rendered, past, future, nodeCounter, saved, known, remote, messages,
                report, unsynced, duplicated, keyed, acts>>

DevicesOf(t) == DOMAIN t.cfg
Blank == [cfg |-> <<>>, link |-> "none"]

EditorInit ==
  /\ doc = Blank /\ rendered = Blank /\ past = <<>> /\ future = <<>>
  /\ nodeCounter = Base /\ saved = NoDraft /\ known = FALSE /\ remote = Stock
  /\ messages = <<[kind |-> "load", stage |-> "sent"]>>
  /\ report = NoReport /\ unsynced = TRUE /\ duplicated = {} /\ keyed = 0 /\ acts = 0

-----------------------------------------------------------------------------
(* Requests. *)

Writes == {"save", "patch", "restore"}

Read(kind) == [kind |-> kind, stage |-> "sent"]
SaveOf(t) == [kind |-> "save", stage |-> "sent", body |-> t]
PatchOf(n, c) == [kind |-> "patch", stage |-> "sent", node |-> n, config |-> c]

IsWrite(r) == r.stage = "sent" /\ r.kind \in Writes

Post(requests) ==
  /\ Len(messages) + Len(requests) <= MaxRequests
  /\ messages' = messages \o requests

Quiet(requests) == ~ \E i \in 1 .. Len(requests) : IsWrite(requests[i])

(* The server's side of a write: what it makes of the topology t. *)
Written(t, r) ==
  CASE r.kind = "save" -> r.body
    [] r.kind = "restore" -> Stock
    [] r.kind = "patch" -> [t EXCEPT !.cfg[r.node] = r.config]

Unknown(r) == r.kind = "patch" /\ r.node \notin DevicesOf(remote)

AnswerTo(r, t) == [kind |-> r.kind, stage |-> "answer", body |-> t]

(* The request of a panel that waits for its answer. *)
Asking == {i \in 1 .. Len(messages) : messages[i].kind = "report"}
Waiting == \E i \in Asking : messages[i].stage = "sent"

(* What becomes of unsynced; a panel that waits may be shown something     *)
(* else from then on.                                                      *)
Unsync(b) ==
  /\ unsynced' = b
  /\ report' = IF b /\ Waiting THEN [report EXCEPT !.behind = TRUE] ELSE report

(* A request is handled.  A write that overtakes another is a write the    *)
(* canvas does not know the outcome of.                                    *)
Serve(i) ==
  LET r == messages[i]
      Overtakes == ~ Quiet(SubSeq(messages, 1, i - 1))
  IN  /\ r.stage = "sent" /\ ~ Unknown(r)
      /\ remote' = IF r.kind \in Writes THEN Written(remote, r) ELSE remote
      /\ IF r.kind = "report"
         THEN report' = [report EXCEPT !.behind = @ \/ Overtakes] /\ UNCHANGED unsynced
         ELSE Unsync(unsynced \/ (r.kind \in Writes /\ Overtakes))
      /\ messages' = IF r.kind \in {"save", "patch"} THEN RemoveAt(messages, i)
                    ELSE ReplaceAt(messages, i, AnswerTo(r, remote'))
      /\ UNCHANGED <<doc, rendered, past, future, nodeCounter, saved, known, duplicated, acts>>

(* A device that the server does not know cannot be updated there. *)
NotFound(i) ==
  /\ IsWrite(messages[i]) /\ Unknown(messages[i])
  /\ messages' = ReplaceAt(messages, i, [kind |-> "patch", stage |-> "missing"])
  /\ Unsync(TRUE)
  /\ UNCHANGED <<doc, rendered, past, future, nodeCounter, saved, known, remote, duplicated,
                 acts>>

(* It fails: the user is told at most. *)
Fail(i) ==
  /\ messages[i].stage = "sent"
  /\ messages' = RemoveAt(messages, i)
  /\ Unsync(unsynced \/ IsWrite(messages[i]))
  /\ UNCHANGED <<doc, rendered, past, future, nodeCounter, saved, known, remote, duplicated,
                 acts>>

-----------------------------------------------------------------------------
(* Answers. *)

Highest(t, counter) == Max({counter} \cup DevicesOf(t))

(* What is on the canvas now is what the server has, unless a write is     *)
(* still to come or came after the answer was made up.                     *)
Adopt(t, rest) ==
  /\ doc' = t
  /\ Unsync(t # remote \/ ~ Quiet(rest))

(* The page opens with the draft, or else with the server's topology; the  *)
(* counter of ids starts above what it shows.                              *)
Loaded(i) ==
  LET body == IF saved = NoDraft THEN messages[i].body ELSE saved
  IN  /\ messages[i].kind = "load"
      /\ Adopt(body, RemoveAt(messages, i))
      /\ nodeCounter' = Highest(body, nodeCounter) /\ known' = TRUE

(* The answers to Reset and to the restoration of a snapshot. *)
Replaced(i) ==
  /\ messages[i].kind \in {"reset", "restore"}
  /\ Adopt(messages[i].body, RemoveAt(messages, i))
  /\ known' = TRUE
  /\ UNCHANGED nodeCounter

Shown(i) ==
  /\ messages[i].kind = "report"
  /\ report' = [report EXCEPT !.shows = messages[i].body]
  /\ UNCHANGED <<doc, nodeCounter, known, unsynced>>

Arrive(i) ==
  /\ messages[i].stage = "answer"
  /\ messages' = RemoveAt(messages, i)
  /\ Loaded(i) \/ Replaced(i) \/ Shown(i)
  /\ UNCHANGED <<rendered, past, future, saved, remote, duplicated, acts>>

(* syncNodeConfig: the server does not know the device yet; everything is  *)
(* sent, as rendered now.                                                  *)
SendAll(i) ==
  /\ messages[i].stage = "missing"
  /\ messages' = Append(RemoveAt(messages, i), SaveOf(rendered))
  /\ Unsync(rendered # doc)
  /\ UNCHANGED <<doc, rendered, past, future, nodeCounter, saved, known, remote, duplicated,
                 acts>>

(* The answer is rendered. *)
Paint ==
  /\ rendered # doc
  /\ rendered' = doc
  /\ UNCHANGED <<doc, past, future, nodeCounter, saved, known, remote, messages, report, unsynced,
                 duplicated, acts>>

-----------------------------------------------------------------------------
(* The user.  Structural edits are remembered, as rendered before them. *)

Act == acts < MaxActs /\ acts' = acts + 1

Shows(t) == doc' = t /\ rendered' = t

(* Faulty variant: at the cap the newest entry goes. *)
DropNewest(h) == IF Len(h) > HistoryCap THEN Front(h) ELSE h

DropOldest(h) == IF Len(h) > HistoryCap THEN Tail(h) ELSE h

PushHistory ==
  /\ past' = DropOldest(Append(past, rendered))
  /\ future' = <<>>

Structural(t) ==
  /\ PushHistory
  /\ Shows(t)
  /\ unsynced' = TRUE

(* addNodeOfType *)
AddNode ==
  LET id == nodeCounter + 1
  IN  /\ Act /\ id \in Ids
      /\ nodeCounter' = id
      /\ duplicated' = duplicated \cup ({id} \cap DevicesOf(doc))
      /\ Structural([doc EXCEPT !.cfg = [n \in DevicesOf(doc) \cup {id} |->
                                           IF n = id THEN Fresh ELSE doc.cfg[n]]])
      /\ UNCHANGED <<saved, known, remote, messages, report>>

(* Without some devices, and with them their links. *)
Without(t, removed) ==
  LET left == DevicesOf(t) \ removed
  IN  [cfg |-> [m \in left |-> t.cfg[m]],
       link |-> IF Cardinality(left) < 2 THEN "none" ELSE t.link]

(* handleDeleteSelected: the button and the menu. *)
DeleteSelected(n) ==
  /\ Act /\ n \in DevicesOf(rendered)
  /\ Structural(Without(doc, {n}))
  /\ UNCHANGED <<nodeCounter, saved, known, remote, messages, report, duplicated>>

(* Backspace: React Flow removes what is selected, devices and links, by   *)
(* way of onNodesChange and onEdgesChange, which remember nothing.         *)
KeyDelete(selected, link) ==
  /\ Act /\ keyed' = acts'
  /\ selected \subseteq DevicesOf(rendered) /\ (link => rendered.link # "none")
  /\ selected # {} \/ link
  /\ Shows(IF link THEN [Without(doc, selected) EXCEPT !.link = "none"]
           ELSE Without(doc, selected))
  /\ unsynced' = TRUE
  /\ UNCHANGED <<past, future, nodeCounter, saved, known, remote, messages, report, duplicated>>

Connect ==
  /\ Act /\ Cardinality(DevicesOf(rendered)) >= 2 /\ rendered.link = "none"
  /\ Structural([doc EXCEPT !.link = "plain"])
  /\ UNCHANGED <<nodeCounter, saved, known, remote, messages, report, duplicated>>

DeleteEdge ==
  /\ Act /\ rendered.link # "none"
  /\ Structural([doc EXCEPT !.link = "none"])
  /\ UNCHANGED <<nodeCounter, saved, known, remote, messages, report, duplicated>>

ClearCanvas ==
  /\ Act /\ rendered # Blank
  /\ Structural(Blank)
  /\ UNCHANGED <<nodeCounter, saved, known, remote, messages, report, duplicated>>

(* A lease, or a link's settings: neither remembered nor sent. *)
EditSilently ==
  /\ Act
  /\ \/ rendered.link = "plain" /\ Shows([doc EXCEPT !.link = IF @ = "plain" THEN "tuned" ELSE @])
     \/ \E n \in DevicesOf(doc), c \in Configs \ {Fresh} : Shows([doc EXCEPT !.cfg[n] = c])
  /\ unsynced' = (unsynced \/ doc' # doc)
  /\ UNCHANGED <<past, future, nodeCounter, saved, known, remote, messages, report, duplicated>>

(* handleNodeConfigChange, togglePower: sent at once. *)
EditConfig(n, c) ==
  /\ Act /\ n \in DevicesOf(rendered)
  /\ Shows(IF n \in DevicesOf(doc) THEN [doc EXCEPT !.cfg[n] = c] ELSE doc)
  /\ IF known THEN Post(<<PatchOf(n, c)>>) ELSE UNCHANGED messages
  /\ unsynced' = (unsynced \/ ~ known \/ n \notin DevicesOf(doc))
  /\ UNCHANGED <<past, future, nodeCounter, saved, known, remote, report, duplicated>>

Undo ==
  /\ Act /\ past # <<>>
  /\ future' = Append(future, rendered)
  /\ past' = Front(past)
  /\ Shows(Last(past)) /\ unsynced' = TRUE
  /\ UNCHANGED <<nodeCounter, saved, known, remote, messages, report, duplicated>>

Redo ==
  /\ Act /\ future # <<>>
  /\ past' = Append(past, rendered)
  /\ future' = Front(future)
  /\ Shows(Last(future)) /\ unsynced' = TRUE
  /\ UNCHANGED <<nodeCounter, saved, known, remote, messages, report, duplicated>>

(* Faulty variant: the settings of a link are not part of what is saved. *)
WithoutSettings(t) == [t EXCEPT !.link = IF @ = "tuned" THEN "plain" ELSE @]

Serialized(t) == t

Sends(t, body, requests) ==
  /\ Act /\ known
  /\ Post(<<SaveOf(body)>> \o requests)
  /\ unsynced' = (t # doc)

Untouched == <<doc, rendered, past, future, nodeCounter, saved, known, remote, duplicated>>

(* handleSave *)
Save == Sends(rendered, Serialized(rendered), <<>>) /\ UNCHANGED <<Untouched, report>>

(* The packet sender stores the links without their settings. *)
StoreForTrace ==
  LET t == WithoutSettings(rendered)
  IN  Sends(t, t, <<>>) /\ UNCHANGED <<Untouched, report>>

(* Faulty variant: the panel asks before it saves. *)
AskFirst(t) ==
  /\ Act /\ known
  /\ Post(<<Read("report"), SaveOf(Serialized(t))>>)
  /\ unsynced' = (t # doc)

SaveAndAsk(t) == Sends(t, Serialized(t), <<Read("report")>>)

(* Validate, Device state: save, do not wait, and open the panel. *)
OpenReport ==
  /\ report = NoReport
  /\ SaveAndAsk(rendered)
  /\ report' = [on |-> rendered, at |-> acts', shows |-> NoReport,
                 behind |-> rendered # doc]
  /\ UNCHANGED Untouched

CloseReport ==
  /\ report # NoReport /\ report' = NoReport
  /\ \/ Asking = {} /\ UNCHANGED messages
     \/ \E i \in Asking : messages' = RemoveAt(messages, i)
  /\ UNCHANGED <<Untouched, unsynced, acts>>

(* handleReset: the draft goes, the answer comes later. *)
Reset ==
  /\ Act /\ Post(<<Read("reset")>>)
  /\ PushHistory
  /\ saved' = NoDraft
  /\ UNCHANGED <<doc, rendered, nodeCounter, known, remote, report, unsynced, duplicated>>

RestoreSnapshot ==
  /\ Act /\ known /\ Post(<<Read("restore")>>)
  /\ unsynced' = TRUE
  /\ UNCHANGED <<Untouched, report>>

(* Every four seconds, unless the canvas is empty. *)
Autosave ==
  /\ DevicesOf(rendered) # {} /\ saved # rendered
  /\ saved' = rendered
  /\ UNCHANGED <<doc, rendered, past, future, nodeCounter, known, remote, messages, report,
                 unsynced, duplicated, acts>>

(* A write whose answer, if it has one, nobody waits for any more. *)
Unattended(r) == IF r.kind = "restore" THEN SaveOf(Stock) ELSE r

(* The page is loaded again: what is under way reaches the server, but no  *)
(* answer reaches it.                                                      *)
Reload ==
  /\ Act
  /\ doc' = Blank /\ rendered' = Blank /\ past' = <<>> /\ future' = <<>>
  /\ nodeCounter' = Base /\ known' = FALSE /\ report' = NoReport /\ duplicated' = {}
  /\ LET writes == Picked(messages, {i \in 1 .. Len(messages) : IsWrite(messages[i])})
     IN  messages' = Append([k \in 1 .. Len(writes) |-> Unattended(writes[k])], Read("load"))
  /\ unsynced' = TRUE
  /\ UNCHANGED <<saved, remote>>

(* All that goes through the page's own commands, and answers. *)
OwnStep ==
  \/ \E i \in 1 .. Len(messages) : Serve(i) \/ NotFound(i) \/ Fail(i) \/ Arrive(i) \/ SendAll(i)
  \/ Paint \/ Autosave
  \/ AddNode \/ Connect \/ DeleteEdge \/ ClearCanvas \/ EditSilently
  \/ \E n \in Ids : DeleteSelected(n) \/ \E c \in Configs : EditConfig(n, c)
  \/ Undo \/ Redo \/ Save \/ StoreForTrace \/ OpenReport \/ CloseReport
  \/ Reset \/ RestoreSnapshot \/ Reload

EditorNext ==
  \/ OwnStep /\ UNCHANGED keyed
  \/ \E selected \in SUBSET Ids, link \in BOOLEAN : KeyDelete(selected, link)

EditorSpec == EditorInit /\ [][EditorNext]_editorVars

-----------------------------------------------------------------------------
(* A device that the user makes disappear with the page's own commands can *)
(* be brought back by undo or redo, with its configuration.  (Not one      *)
(* removed with Backspace; not what an answer replaces, not between an     *)
(* answer and its render, and not beyond a reload.)                        *)
EditsUndoable ==
  [][ acts' # acts /\ keyed' # acts' /\ rendered = doc /\ ~ Reload =>
        \A n \in DevicesOf(doc) \ DevicesOf(doc') :
           \E i \in 1 .. Len(past' \o future') :
             LET t == (past' \o future')[i]
             IN  n \in DevicesOf(t) /\ t.cfg[n] = doc.cfg[n] ]_editorVars

(* When nothing is under way, the server has what the canvas shows, unless *)
(* an edit was not sent since the last full save, a request failed or was  *)
(* overtaken, or an answer was out of date when it came.                   *)
ServerFollows == ~ unsynced /\ Quiet(messages) => remote = doc

(* A design tool shows the design that it was opened on, though nobody     *)
(* waits for the save that goes before it: unless the server fell behind   *)
(* the canvas before it answered (a write failed or was overtaken), and    *)
(* until the user does something else.                                     *)
ReportFits ==
  /\ report # NoReport /\ report.shows # NoReport /\ ~ report.behind
  /\ report.at = acts /\ rendered = report.on /\ doc = rendered
  => report.shows = report.on

(* "so a restored autosave can never collide with a freshly added device   *)
(* (duplicate ids break React Flow silently)".                             *)
IdsNeverCollide == duplicated = {}
=============================================================================
