----------------------------- MODULE PlanRules -----------------------------
(***************************************************************************)
(* What the analysis of an environment offers for registration and what a  *)
(* registration accepts (internal/statsreg/plan.go, existing.go and        *)
(* patterns.go, called by Service.inspect and Service.register).           *)
(*                                                                         *)
(* An environment w is [values, servers, mods, templates, regs, deleted]:  *)
(* the kind of the value of each key in Redis, the hostname of each name   *)
(* or address of a server, the hostname of each module id, the product's   *)
(* templates in order, the live checkpoints, and the keys of deleted ones. *)
(* A key and the pattern of a template are sequences of [hole, text]: text *)
(* in braces is a hole, a token of a key or a variable of a pattern.  Data *)
(* formats are those of the product: 3 a number, 4 a string.  A value is a *)
(* "number", "text", or a number for one of Go and Java only.  Names,      *)
(* measures, intervals and what is shown to the operator are left out.     *)
(***************************************************************************)
EXTENDS Integers, FiniteSets, SequencesExt

CONSTANT HostOrder  \* the hostnames, as strings compare

String == 4
GoNumber == {"number", "go"}
JavaNumber == {"number", "java"}

Tokens(key) == LET holes == SelectSeq(key, LAMBDA x : x.hole)
               IN [i \in DOMAIN holes |-> holes[i].text]

KeyShape(key) == [i \in DOMAIN key |-> IF key[i].hole THEN [key[i] EXCEPT !.text = "*"] ELSE key[i]]

\* ---- points ----

\* Literals are equal, tokens stand where variables do, one variable has one value.
MatchTemplate(pattern, key) ==
  /\ DOMAIN pattern = DOMAIN key
  /\ \A i \in DOMAIN key :
       /\ key[i].hole = pattern[i].hole
       /\ ~key[i].hole => key[i].text = pattern[i].text
  /\ \A i, j \in DOMAIN key :
       key[i].hole /\ key[j].hole /\ pattern[i].text = pattern[j].text => key[i].text = key[j].text

At(f, x) == IF x \in DOMAIN f THEN f[x] ELSE ""

\* The host a key is placed on: by a variable of its template, else by its first token.
Place(w, key, fits) ==
  LET toks == Tokens(key)
      caught(name) ==
        {key[i].text : i \in {j \in DOMAIN key : key[j].hole /\ fits # <<>>
                                /\ Last(fits).pattern[j].text = name}}
  IN IF toks = <<>> THEN "common"
     ELSE IF caught("module_id") # {} THEN At(w.mods, CHOOSE t \in caught("module_id") : TRUE)
     ELSE IF caught("hostname") # {} THEN At(w.servers, CHOOSE t \in caught("hostname") : TRUE)
     ELSE IF At(w.servers, toks[1]) # "" THEN w.servers[toks[1]] ELSE At(w.mods, toks[1])

NoLive == [checkpoint |-> 0, iface |-> 0, group |-> 0]

\* The point of a key.  Which of several templates it is of is not known.
MakePoint(w, key, value) ==
  LET fits == SelectSeq(w.templates, LAMBDA t : MatchTemplate(t.pattern, key))
      format == IF fits # <<>> THEN Last(fits).format ELSE IF value \in GoNumber THEN 3 ELSE String
      bad == format # String /\ value \notin JavaNumber
      host == Place(w, key, fits)
  IN [key |-> key, host |-> host, format |-> format, bad |-> bad,
      template |-> IF Len(fits) = 1 THEN fits[1].id ELSE 0,
      selected |-> Len(fits) <= 1 /\ ~bad /\ host # "",
      registered |-> FALSE, deleted |-> FALSE, moved |-> FALSE, live |-> NoLive, move |-> FALSE]

\* ---- what is remembered ----

\* Pre-fills a point from the choices of earlier registrations.
ApplyPatterns(w, memory, pt) ==
  LET toks == Tokens(pt.key)
      home == IF toks = <<>> THEN "" ELSE At(memory.placements, toks[1])
      placed == IF pt.host = "" /\ home # "" /\ home \in Range(w.servers) \cup {"common"}
                THEN [pt EXCEPT !.host = home, !.selected = TRUE] ELSE pt
      shape == KeyShape(pt.key)
  IN IF placed.host = "" \/ shape \notin DOMAIN memory.patterns THEN placed
     ELSE [placed EXCEPT
            !.format = IF placed.template = 0 /\ memory.patterns[shape].format \in {3, 4}
                       THEN memory.patterns[shape].format ELSE @,
            !.selected = memory.patterns[shape].selected]

\* ---- what is registered ----

\* The server a key names with one of its tokens.
HostAnchor(w, key) ==
  LET named == SelectSeq(Tokens(key), LAMBDA t : At(w.servers, t) # "")
  IN IF named = <<>> THEN "" ELSE w.servers[named[1]]

\* The host with the most votes, the first of them in order; "" when there is none.
Majority(votes) ==
  LET count(h) == Cardinality({v \in DOMAIN votes : votes[v] = h})
      first == SelectInSeq(HostOrder, LAMBDA h :
                 /\ count(h) > 0
                 /\ \A i \in DOMAIN HostOrder : count(HostOrder[i]) <= count(h))
  IN IF first = 0 THEN "" ELSE HostOrder[first]

\* The server a device stands for: its name, else what its keys name, else where they are now.
DeviceHost(w, d) ==
  LET mine == {r \in w.regs : r.device = d /\ r.group # 0}
      name == (CHOOSE r \in mine : TRUE).name
      anchors == Majority([r \in mine |-> HostAnchor(w, r.key)])
      places == Majority([r \in mine |-> MakePoint(w, r.key, "text").host])
  IN IF name \in Range(w.servers) \cup {"common"} THEN name
     ELSE IF anchors # "" THEN anchors
     ELSE places

MarkExisting_AnyLive(w, pt) ==
  LET live == {r \in w.regs : r.key = pt.key}
      away == {r \in live : r.group # 0 /\ pt.host # "" /\ DeviceHost(w, r.device) \notin {"", pt.host}}
      r == CHOOSE x \in away : TRUE
  IN [pt EXCEPT !.registered = live # {}, !.moved = away # {},
        !.live = IF away # {} THEN [checkpoint |-> r.checkpoint, iface |-> r.iface, group |-> r.group]
                 ELSE @]

\* Flags a point that is registered, and one whose device is that of another host.
MarkExisting(w, pt) ==
  LET live == {r \in w.regs : r.key = pt.key}
      away == {r \in live : r.group # 0 /\ pt.host # "" /\ DeviceHost(w, r.device) \notin {"", pt.host}}
      r == CHOOSE x \in away : TRUE
  IN [pt EXCEPT !.registered = live # {}, !.moved = away # {},
        !.live = IF away # {} /\ Cardinality(live) = 1
                 THEN [checkpoint |-> r.checkpoint, iface |-> r.iface, group |-> r.group]
                 ELSE @]

\* A key whose checkpoint was deleted is offered again whatever is remembered of it.
MarkDeleted(w, pt) ==
  IF pt.registered \/ pt.key \notin w.deleted THEN pt
  ELSE [pt EXCEPT !.deleted = TRUE, !.selected = pt.host # ""]

KeepBadValuesOff(pt) == IF pt.bad THEN [pt EXCEPT !.selected = FALSE] ELSE pt

(***************************************************************************)
(* The analysis of w with what this PC remembers.                          *)
(***************************************************************************)
Plan(w, memory) ==
  LET Offered(key) ==
        KeepBadValuesOff(MarkDeleted(w, MarkExisting(w,
          ApplyPatterns(w, memory, MakePoint(w, key, w.values[key])))))
  IN [points |-> {Offered(key) : key \in DOMAIN w.values},
      hosts |-> Range(w.servers) \cup {"common"},
      groups |-> {r.group : r \in w.regs} \ {0}]

\* The hosts for which a group has a device, whose name is then of no matter.
DevicesFor(w, group) == {DeviceHost(w, r.device) : r \in {x \in w.regs : x.group = group}}

(***************************************************************************)
(* A selection is [update, named, servers, points]: the group to update or *)
(* 0, whether the names of the group and of new devices are valid, the     *)
(* hosts of the layout and the points, both as sequences.                  *)
(***************************************************************************)
Known(plan, p) == {q \in plan.points : q.key = p.key}

MoveAllowed(plan, s, p) ==
  \E q \in Known(plan, p) :
    /\ ~p.selected /\ q.moved /\ q.live.checkpoint # 0
    /\ q.live.checkpoint = p.live.checkpoint /\ q.live.iface = p.live.iface
    /\ q.host = p.host /\ p.host \in ToSet(s.servers)
    /\ s.update # 0 /\ q.live.group = s.update

AddAllowed(plan, s, p) ==
  \E q \in Known(plan, p) :
    /\ ~q.registered
    /\ ~(q.bad /\ p.format # String)
    /\ p.host \in ToSet(s.servers)
    /\ q.template = p.template
    /\ IF p.template # 0 THEN p.format = q.format ELSE p.format \in {3, 4}
    /\ Tokens(p.key) # <<>> <=> p.host # "common"

\* The points that are registered or moved.
Used(s) == {i \in DOMAIN s.points : s.points[i].selected \/ s.points[i].move}

ValidateSelection(w, plan, s) ==
  LET hosts == {s.points[i].host : i \in Used(s)} \cap ToSet(s.servers)
      existing == IF s.update = 0 THEN {} ELSE DevicesFor(w, s.update)
  IN /\ IF s.update = 0 THEN s.named ELSE s.update \in plan.groups
     /\ IsInjective(s.servers) /\ ToSet(s.servers) \subseteq plan.hosts
     /\ s.named \/ hosts \subseteq existing
     /\ Used(s) # {}
     /\ \A i, j \in Used(s) : s.points[i].key = s.points[j].key => i = j
     /\ \A i \in Used(s) :
          IF s.points[i].move THEN MoveAllowed(plan, s, s.points[i]) ELSE AddAllowed(plan, s, s.points[i])

\* The selection the interface starts from: everything the analysis selected that is not registered.
Default(plan) ==
  LET pts == SetToSeq(plan.points)
  IN [update |-> 0, named |-> TRUE, servers |-> SetToSeq(plan.hosts),
      points |-> [i \in DOMAIN pts |-> [pts[i] EXCEPT !.selected = @ /\ ~pts[i].registered]]]

\* f where it is defined, else g.
Over(f, g) == [x \in DOMAIN f \cup DOMAIN g |-> IF x \in DOMAIN f THEN f[x] ELSE g[x]]

\* What a successful registration of s teaches: a choice for each kind of key, homes of tokens.
LearnPatterns(memory, plan, s, digits) ==
  LET Taught(p) ==
        /\ p.host # "" /\ ~p.move
        /\ \A q \in Known(plan, p) : ~q.registered /\ (p.selected \/ ~q.bad)
        /\ s.update # 0 => p.selected
      taught == {p \in ToSet(s.points) : Taught(p)}
      first(shape) == SelectInSeq(s.points, LAMBDA p : Taught(p) /\ p.selected /\ KeyShape(p.key) = shape)
      format(shape) ==
        IF first(shape) # 0 /\ s.points[first(shape)].template = 0 THEN s.points[first(shape)].format
        ELSE IF shape \in DOMAIN memory.patterns THEN memory.patterns[shape].format ELSE 0
      home(t) == SelectLastInSeq(s.points, LAMBDA p :
        /\ Taught(p) /\ p.selected /\ p.host # "common"
        /\ Tokens(p.key) # <<>> /\ Tokens(p.key)[1] = t /\ t \notin digits \cup {p.host})
      tokens == {Tokens(p.key)[1] : p \in {q \in taught : Tokens(q.key) # <<>>}}
  IN [patterns |-> Over([shape \in {KeyShape(p.key) : p \in taught} |->
                           [format |-> format(shape), selected |-> first(shape) # 0]], memory.patterns),
      placements |-> Over([t \in {u \in tokens : home(u) # 0} |-> s.points[home(t)].host], memory.placements)]

(***************************************************************************)
(* What is accepted of environment w adds no key that has a live           *)
(* checkpoint and none twice, places a key that names a server on a server *)
(* of the environment and any other on common, and moves a checkpoint only *)
(* when it is the one live checkpoint of its key, within its group, to the *)
(* host its key is on now.  A value the collector cannot read is accepted  *)
(* as a number only where the analysis took it for a string: the template  *)
(* wants no number there, and it is the operator or the memory that does,  *)
(* which nothing compares with the value.                                  *)
(***************************************************************************)
TakenForString(w, key) == MakePoint(w, key, w.values[key]).format = String

SelectionRight(w, s) ==
  LET live(p) == {r \in w.regs : r.key = p.key}
  IN /\ \A i, j \in Used(s) : s.points[i].key = s.points[j].key => i = j
     /\ \A p \in {s.points[i] : i \in Used(s)} :
          /\ p.key \in DOMAIN w.values
          /\ p.host \in IF Tokens(p.key) = <<>> THEN {"common"} ELSE Range(w.servers)
          /\ IF p.move
             THEN /\ \E r \in w.regs :
                       /\ live(p) = {r} /\ r.group = s.update /\ r.checkpoint = p.live.checkpoint
                       /\ DeviceHost(w, r.device) # p.host
             ELSE /\ live(p) = {}
                  /\ p.format # String /\ w.values[p.key] \notin JavaNumber =>
                       p.template = 0 /\ TakenForString(w, p.key)

(***************************************************************************)
(* What the interface starts from is accepted as it stands, unless it has  *)
(* a deleted key that fits several templates and keeps the format of the   *)
(* last of them, and a number in it is one the collector can read, unless  *)
(* the analysis took its value for a string and an earlier registration of *)
(* a key of its kind taught that it is a number.                           *)
(***************************************************************************)
DefaultRight(w, memory, plan) ==
  LET s == Default(plan)
      used == {s.points[i] : i \in Used(s)}
      taught(key) == /\ KeyShape(key) \in DOMAIN memory.patterns
                     /\ memory.patterns[KeyShape(key)].format = 3
  IN /\ used # {} /\ (\A p \in used : p.template = 0 => p.format \in {3, 4}) =>
          ValidateSelection(w, plan, s)
     /\ \A p \in used : p.format # String /\ w.values[p.key] \notin JavaNumber =>
          p.template = 0 /\ TakenForString(w, p.key) /\ taught(p.key)
=============================================================================
