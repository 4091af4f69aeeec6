---------------------------- MODULE CaptureRules ----------------------------
(***************************************************************************)
(* What a request for a packet capture becomes (internal/monitor/pcap.go,  *)
(* StartCapture up to the launch): the addresses and ports the operator    *)
(* typed are parsed into a filter of fixed words, the limits are brought   *)
(* into their envelope, and a place is chosen that can hold the file.      *)
(*                                                                         *)
(* A request r has r.ports and r.hosts, the tokens of the two fields,      *)
(* r.noFilter, r.maxSec, r.maxMB, r.minFree and r.dir.  A token   *)
(* of ports is a pair, or Junk when the pattern does not match it.  A      *)
(* token of hosts is [kind, at, bits]: an "addr", a "net" whose first bits *)
(* count, a "name" that resolves to at, or "junk" (a keyword of the filter *)
(* language, an impossible address or name).  Texts, their lengths and     *)
(* their number are left out.                                              *)
(***************************************************************************)
EXTENDS Integers, FiniteSets, SequencesExt

CONSTANTS
  Junk,           \* a token of another shape than a port or two
  MaxPort,        \* 65535
  MaxPortRanges,  \* maxPortRanges
  Bits,           \* width of an address
  MaxSec, MaxMB, MinMinFree,              \* the envelope
  DefaultSec, DefaultMB, DefaultMinFree   \* what is used when nothing is asked

ASSUME CaptureRulesAssumption ==
  /\ MaxPort \in Nat /\ Bits \in Nat
  /\ {MaxSec, MaxMB, MinMinFree, DefaultMinFree} \subseteq Nat
  /\ DefaultSec \in 1..MaxSec /\ DefaultMB \in 1..MaxMB /\ DefaultMinFree >= MinMinFree

Refused == [ok |-> FALSE]

\* ---- ports ----

ValidPort(t) == t # Junk /\ 1 <= t[1] /\ t[1] <= t[2] /\ t[2] <= MaxPort

Earlier(a, b) == a[1] < b[1] \/ (a[1] = b[1] /\ a[2] < b[2])

\* The tokens in order.
Sorted(toks) ==
  CHOOSE s \in {[i \in DOMAIN toks |-> toks[p[i]]] : p \in Bijection(DOMAIN toks, DOMAIN toks)} :
    \A i, j \in DOMAIN s : i < j => ~Earlier(s[j], s[i])

\* A range that touches the last one widens it.
Merge(merged, r) ==
  IF merged = <<>> \/ r[1] > Last(merged)[2] + 1 THEN Append(merged, r)
  ELSE IF r[2] > Last(merged)[2] THEN ReplaceAt(merged, Len(merged), <<Last(merged)[1], r[2]>>)
  ELSE merged

\* The ranges a field of ports means; none at all for every port.
ParsePortSpec(toks) ==
  LET ranges == FoldLeft(Merge, <<>>, Sorted(toks))
  IN IF \E i \in DOMAIN toks : ~ValidPort(toks[i]) THEN Refused
     ELSE IF Len(ranges) > MaxPortRanges THEN Refused
     ELSE [ok |-> TRUE, items |-> ranges]

\* ---- hosts ----

\* How many addresses the last k bits tell apart.
Addresses[k \in 0..Bits] == IF k = 0 THEN 1 ELSE 2 * Addresses[k - 1]

\* The address of the network at belongs to when its first bits count.
Network(at, bits) == at - (at % Addresses[Bits - bits])

\* A term of the selection; a name stands for itself and not for its address.
ParseHostTerm(t) ==
  IF t.kind = "net" THEN [t EXCEPT !.at = Network(t.at, t.bits)] ELSE t

\* The distinct terms a field of hosts means; none at all for every address.
ParseHostSpec(toks) ==
  IF \E i \in DOMAIN toks : toks[i].kind = "junk" THEN Refused
  ELSE [ok |-> TRUE,
        items |-> FoldLeft(LAMBDA terms, t :
                             IF Contains(terms, ParseHostTerm(t)) THEN terms
                             ELSE Append(terms, ParseHostTerm(t)), <<>>, toks)]

\* ---- the filter ----

Word(w) == [word |-> w]

\* A selection as words of the filter language, an "or" between its items.
BpfWords(word, items) ==
  [k \in 1..(2 * Len(items) - 1) |->
     IF k % 2 = 1 THEN [word |-> word, arg |-> items[(k + 1) \div 2]] ELSE Word("or")]

Group_Bare(w) == w

\* One term needs no parentheses; a list does.
Group(w) == IF Len(w) <= 1 THEN w ELSE <<Word("(")>> \o w \o <<Word(")")>>

CaptureFilter(hosts, ports) ==
  LET hw == BpfWords("host", hosts)
      pw == BpfWords("port", ports)
  IN IF hw = <<>> THEN pw ELSE IF pw = <<>> THEN hw
     ELSE Group(hw) \o <<Word("and")>> \o Group(pw)

\* ---- limits and place ----

Clamp(x, least, default, most) ==
  IF x <= 0 THEN default ELSE IF x < least THEN least ELSE IF x > most THEN most ELSE x

ClampCapRequest(r) ==
  [r EXCEPT !.maxSec = Clamp(@, 1, DefaultSec, MaxSec),
            !.maxMB = Clamp(@, 1, DefaultMB, MaxMB),
            !.minFree = IF @ <= 0 THEN DefaultMinFree ELSE IF @ < MinMinFree THEN MinMinFree ELSE @]

\* One place per mounted filesystem, the first path of it that can be written directly.
RecTargets(probed) ==
  FoldLeft(LAMBDA ts, p :
             LET i == SelectInSeq(ts, LAMBDA t : t.mount = p.mount)
             IN IF i = 0 THEN Append(ts, p)
                ELSE IF p.writable /\ ~ts[i].writable
                THEN ReplaceAt(ts, i, [ts[i] EXCEPT !.path = p.path, !.writable = TRUE])
                ELSE ts, <<>>, probed)

CaptureTargets(probed) ==
  FoldLeft(LAMBDA ts, t : IF t.fs \in {"tmpfs", "ramfs"} THEN ts ELSE Append(ts, t),
           <<>>, RecTargets(probed))

\* The roomiest filesystem, the root filesystem only for want of another.
Better(t, best) ==
  \/ best.mount = "/" /\ t.mount # "/"
  \/ (best.mount = "/" <=> t.mount = "/") /\ t.free > best.free

DefaultCaptureTarget(ts) ==
  FoldLeft(LAMBDA best, t : IF Better(t, best) THEN t ELSE best, ts[1], ts)

(***************************************************************************)
(* The answer to request r on a host whose filesystems were probed: what   *)
(* the capture will be told, or a refusal.                                 *)
(***************************************************************************)
StartCapture(r, probed) ==
  LET req == ClampCapRequest(r)
      ports == ParsePortSpec(r.ports)
      hosts == ParseHostSpec(r.hosts)
      targets == CaptureTargets(probed)
      asked == SelectInSeq(targets, LAMBDA t : t.path = req.dir)
      chosen == IF req.dir = "" THEN DefaultCaptureTarget(targets) ELSE targets[asked]
  IN IF ~ports.ok \/ ~hosts.ok THEN Refused
     ELSE IF ports.items = <<>> /\ hosts.items = <<>> /\ ~r.noFilter THEN Refused
     ELSE IF targets = <<>> \/ (req.dir # "" /\ asked = 0) THEN Refused
     ELSE IF chosen.free > 0 /\ req.maxMB > chosen.free - req.minFree THEN Refused
     ELSE [ok |-> TRUE, words |-> CaptureFilter(hosts.items, ports.items), target |-> chosen,
           maxSec |-> req.maxSec, maxMB |-> req.maxMB, minFree |-> req.minFree]

(***************************************************************************)
(* How pcap reads a filter: and, or have one precedence and associate to   *)
(* the left.  A packet has two addresses and two ports; a term holds of it *)
(* when one of the two does.                                               *)
(***************************************************************************)
TermHolds(t, at) ==
  IF t.kind = "net" THEN Network(at, t.bits) = t.at ELSE at = t.at

Holds(w, pkt) ==
  IF w.word = "host" THEN \E at \in pkt.addrs : TermHolds(w.arg, at)
  ELSE \E p \in pkt.ports : p \in w.arg[1]..w.arg[2]

Join(st, b) == [st EXCEPT !.val = IF st.op = "and" THEN st.val /\ b ELSE st.val \/ b]

Reads(st, w, pkt) ==
  CASE w.word = "(" -> [val |-> TRUE, op |-> "and", outer |-> <<st>>]
    [] w.word = ")" -> Join(st.outer[1], st.val)
    [] w.word \in {"and", "or"} -> [st EXCEPT !.op = w.word]
    [] OTHER -> Join(st, Holds(w, pkt))

Matches(words, pkt) ==
  FoldLeft(LAMBDA st, w : Reads(st, w, pkt), [val |-> TRUE, op |-> "and", outer |-> <<>>], words).val

\* What the operator asked for: one of the addresses and one of the ports, if there are any.
Wanted(r, pkt) ==
  /\ r.hosts # <<>> =>
       \E i \in DOMAIN r.hosts : \E at \in pkt.addrs :
         IF r.hosts[i].kind = "net"
         THEN at \div Addresses[Bits - r.hosts[i].bits] = r.hosts[i].at \div Addresses[Bits - r.hosts[i].bits]
         ELSE at = r.hosts[i].at
  /\ r.ports # <<>> =>
       \E i \in DOMAIN r.ports : \E p \in pkt.ports : r.ports[i][1] <= p /\ p <= r.ports[i][2]

(***************************************************************************)
(* An accepted capture takes exactly the packets that were asked for, and  *)
(* all of them only when that was said; its limits are in the envelope; it *)
(* is written to a disk, to the place that was asked for or to the         *)
(* roomiest, and the largest file it may make leaves the room it promised. *)
(***************************************************************************)
CaptureRight(r, probed, packets, a) ==
  a.ok =>
    /\ \A pkt \in packets : Matches(a.words, pkt) = Wanted(r, pkt)
    /\ a.words = <<>> => r.noFilter
    /\ a.maxSec \in 1..MaxSec /\ a.maxMB \in 1..MaxMB /\ a.minFree >= MinMinFree
    /\ r.maxMB \in 1..MaxMB => a.maxMB = r.maxMB
    /\ \E i \in DOMAIN probed :
         /\ probed[i].path = a.target.path
         /\ probed[i].fs \notin {"tmpfs", "ramfs"}
         /\ probed[i].free > 0 => a.maxMB + a.minFree <= probed[i].free
         /\ r.dir # "" => probed[i].path = r.dir
         /\ r.dir = "" => \A j \in DOMAIN probed :
              probed[j].fs \in {"tmpfs", "ramfs"}
                \/ (probed[j].mount = "/" /\ probed[i].mount # "/")
                \/ ((probed[j].mount = "/" <=> probed[i].mount = "/")
                     /\ probed[j].free <= probed[i].free)
=============================================================================
