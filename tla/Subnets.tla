------------------------------ MODULE Subnets -------------------------------
(***************************************************************************)
(* The subnet calculator: the arithmetic of services/cidr-service.ts behind *)
(* handlers/cidr.handlers.ts, and the page that asks for it                *)
(* (client/src/pages/cidr/cidr-calculator-page.tsx).                       *)
(*                                                                         *)
(* The page asks and goes on; answers come in any order, or not at all,    *)
(* and each is written into the one state of the page.                     *)
(***************************************************************************)
EXTENDS Addressing, FiniteSets

CONSTANTS
  Inputs,     \* what is typed: records [ip, len], of which ill-formed ones have len NoPrefix
  Counts,     \* numbers of subnets asked for
  Unset,      \* nothing: a field without value, an argument left out, no answer
  Failed,     \* the error message, whatever it says
  MaxCalls    \* bound: calls made

ASSUME SubnetsAssumption ==
  /\ Inputs \subseteq [ip : Ips, len : PrefixLengths \cup {NoPrefix}]
  /\ Counts \subseteq Nat \ {0} /\ MaxCalls \in Nat

VARIABLES
  page,      \* cidrReducer's state
  calls,     \* requests under way
  asked,     \* number of calls made
  crossed    \* history: kinds of answer that a later question overtook

subnetVars == <<page, calls, asked, crossed>>

-----------------------------------------------------------------------------
(* cidr-service.ts *)

Usable(len, total) == IF len < Width - 1 THEN total - 2 ELSE total

(* parseCIDR.  A mask is converted to its prefix, if it is contiguous. *)
ParseCidr(input) ==
  IF input.len = NoPrefix THEN Failed
  ELSE LET network == NetworkOf(input.ip, input.len)
           wildcard == BlockSize(input.len) - 1
           broadcast == network + wildcard
           pointToPoint == input.len >= Width - 1
       IN  [len |-> input.len, network |-> network, broadcast |-> broadcast,
            mask |-> MaskOf(input.len), wildcard |-> wildcard,
            first |-> IF pointToPoint THEN network ELSE network + 1,
            last |-> IF pointToPoint THEN broadcast ELSE broadcast - 1,
            usable |-> Usable(input.len, BlockSize(input.len))]

ASSUME UnsetAssumption == \A i \in Inputs : ParseCidr(i) # Unset

(* Math.ceil(Math.log2(count)) *)
BitsFor(count) == Min({k \in 0 .. count : 2 ^ k >= count})

(* Faulty variant: the smaller power of two. *)
FloorPrefix(base, count, len) ==
  IF len # Unset THEN len
  ELSE IF count # Unset THEN base.len + Max({k \in 0 .. count : 2 ^ k <= count})
  ELSE base.len + 1

NewPrefix(base, count, len) ==
  IF len # Unset THEN len
  ELSE IF count # Unset THEN base.len + BitsFor(count)
  ELSE base.len + 1

(* generateSubnets; addresses wrap at the top (>>> 0).  A new prefix that  *)
(* is shorter asks for half a subnet or less, and gets one.                *)
GenerateSubnets(base, count, len) ==
  LET new == NewPrefix(base, count, len)
      number == IF count # Unset THEN count
                ELSE IF new < base.len THEN 1 ELSE 2 ^ (new - base.len)
  IN  IF new > Width THEN Failed
      ELSE [i \in 1 .. number |->
              ParseCidr([ip |-> (base.network + (i - 1) * BlockSize(new)) % (2 ^ Width),
                         len |-> new])]

(* Leading bits that all the networks have in common. *)
CommonBits(networks) ==
  LET Differ(i) == \E m, n \in networks : Bit(m, i) # Bit(n, i)
      differing == {i \in 0 .. Width - 1 : Differ(i)}
  IN  IF differing = {} THEN Width ELSE Width - 1 - Max(differing)

(* Never more specific than the least specific network. *)
SuperPrefix(parsed) ==
  Min({CommonBits({p.network : p \in parsed})} \cup {p.len : p \in parsed})

FindSupernet(inputs) ==
  LET parsed == {ParseCidr(i) : i \in inputs}
  IN  IF Failed \in parsed \/ inputs = {} THEN Failed
      ELSE LET some == CHOOSE p \in parsed : TRUE
           IN  ParseCidr([ip |-> some.network, len |-> SuperPrefix(parsed)])

-----------------------------------------------------------------------------
(* The page. *)

SubnetsInit ==
  /\ page = [result |-> Unset, error |-> Unset, loading |-> FALSE,
             subnets |-> <<>>, showSubnets |-> FALSE, subnetLoading |-> FALSE,
             supernet |-> Unset]
  /\ calls = {} /\ asked = 0 /\ crossed = {}

Under(kind) == {c \in calls : c.kind = kind}

(* Call answers carry what the server makes of the question. *)
Call(kind, question, answer) ==
  /\ asked < MaxCalls
  /\ asked' = asked + 1
  /\ calls' = calls \cup {[kind |-> kind, no |-> asked + 1, question |-> question,
                           answer |-> answer]}

(* Faulty variant: the old result stays until the new one is there. *)
KeepOld(p) == [p EXCEPT !.loading = TRUE, !.error = Unset]

Cleared(p) ==
  [p EXCEPT !.loading = TRUE, !.error = Unset, !.result = Unset,
            !.subnets = <<>>, !.showSubnets = FALSE]

(* calculate: by the button, which waits for loading, by Enter or by a     *)
(* preset, which do not.                                                   *)
Calculate(input) ==
  /\ Call("calculate", {input}, ParseCidr(input))
  /\ page' = Cleared(page)
  /\ crossed' = crossed \cup {c.kind : c \in {c \in calls : c.kind # "supernet"}}

(* calcSubnets splits the result shown.  The page sends a count or a       *)
(* prefix; the API takes both.                                             *)
CalcSubnets(count, len) ==
  /\ page.result # Unset
  /\ ~ page.subnetLoading
  /\ LET base == [ip |-> page.result.network, len |-> page.result.len]
     IN  Call("subnets", {base},
              [asked |-> [base |-> base, count |-> count, len |-> len],
               items |-> GenerateSubnets(page.result, count, len)])
  /\ page' = [page EXCEPT !.subnetLoading = TRUE]
  /\ UNCHANGED crossed

(* The handler wants two networks or more. *)
CalcSupernet(inputs) ==
  /\ Call("supernet", inputs,
          IF Cardinality(inputs) < 2 THEN Failed ELSE FindSupernet(inputs))
  /\ crossed' = crossed \cup {c.kind : c \in Under("supernet")}
  /\ UNCHANGED page

Answered(c) == calls' = calls \ {c} /\ UNCHANGED <<asked, crossed>>

(* answer is the server's, or Failed when the call is lost. *)
Calculated(c, answer) ==
  /\ c.kind = "calculate"
  /\ Answered(c)
  /\ page' = IF answer = Failed
             THEN [page EXCEPT !.error = Failed, !.loading = FALSE]
             ELSE [page EXCEPT !.result = answer, !.loading = FALSE]

SubnetsCalculated(c, answer) ==
  /\ c.kind = "subnets"
  /\ Answered(c)
  /\ page' = IF answer = Failed \/ answer.items = Failed
             THEN [page EXCEPT !.error = Failed, !.subnetLoading = FALSE]
             ELSE [page EXCEPT !.subnets = <<answer>>, !.showSubnets = TRUE,
                               !.subnetLoading = FALSE]

SupernetCalculated(c, answer) ==
  /\ c.kind = "supernet"
  /\ Answered(c)
  /\ page' = IF answer = Failed THEN [page EXCEPT !.error = Failed]
             ELSE [page EXCEPT !.supernet = [of |-> c.question, is |-> answer]]

SubnetsNext ==
  \/ \E i \in Inputs : Calculate(i)
  \/ \E n \in Counts \cup {Unset}, p \in PrefixLengths \cup {Unset} : CalcSubnets(n, p)
  \/ \E is \in {{i, j} : i, j \in Inputs} : CalcSupernet(is)
  \/ \E c \in calls : \E a \in {c.answer, Failed} :
       Calculated(c, a) \/ SubnetsCalculated(c, a) \/ SupernetCalculated(c, a)

SubnetsSpec == SubnetsInit /\ [][SubnetsNext]_subnetVars

-----------------------------------------------------------------------------
Span(r) == r.network .. r.broadcast

(* A result describes exactly the addresses that share its leading bits,   *)
(* and its usable hosts are those from the first to the last.              *)
ResultsExact ==
  page.result # Unset =>
    LET r == page.result
    IN  /\ Span(r) = {ip \in Ips : InSubnet(ip, r.network, r.len)}
        /\ r.mask + r.wildcard = 2 ^ Width - 1
        /\ r.usable = Cardinality(r.first .. r.last)
        /\ r.len < Width - 1 => {r.network, r.broadcast} \cap r.first .. r.last = {}

(* The subnets shown are of one size and disjoint, and leave the network   *)
(* only if more or larger ones were asked for than it has room for; when   *)
(* none is counted they are all of it.                                     *)
SubnetsExact ==
  page.subnets # <<>> =>
    LET s == page.subnets[1]
        base == ParseCidr(s.asked.base)
        Fits == /\ s.asked.len = Unset \/ s.asked.len >= base.len
                /\ s.asked.count # Unset /\ s.asked.len # Unset =>
                     s.asked.count * BlockSize(s.asked.len) <= BlockSize(base.len)
    IN  Fits =>
          /\ \A i, j \in DOMAIN s.items :
               i < j => s.items[i].broadcast < s.items[j].network
          /\ \A i \in DOMAIN s.items : Span(s.items[i]) \subseteq Span(base)
          /\ s.asked.count = Unset => UNION {Span(x) : x \in Range(s.items)} = Span(base)

(* The supernet shown contains every network asked about, and no smaller   *)
(* block does.                                                             *)
SupernetSmallest ==
  page.supernet # Unset =>
    LET all == UNION {Span(ParseCidr(i)) : i \in page.supernet.of}
        Holds(net, len) == \A a \in all : InSubnet(a, net, len)
    IN  /\ all \subseteq Span(page.supernet.is)
        /\ \A len \in PrefixLengths, net \in Ips :
             Holds(net, len) => len <= page.supernet.is.len

(* Whatever the calculator shows describes exactly the addresses it stands *)
(* for.                                                                    *)
CalculatorExact == ResultsExact /\ SubnetsExact /\ SupernetSmallest

(* What the page shows belongs together: the subnets are those of the      *)
(* result, and no older result shows while one is awaited, unless a        *)
(* calculation began while another answer was still to come.               *)
PageConsistent ==
  /\ "subnets" \notin crossed /\ "calculate" \notin crossed /\ page.subnets # <<>> =>
       /\ page.result # Unset
       /\ page.subnets[1].asked.base = [ip |-> page.result.network, len |-> page.result.len]
  /\ crossed = {} /\ page.loading => page.result = Unset
=============================================================================
