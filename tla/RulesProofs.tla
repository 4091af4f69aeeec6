---------------------------- MODULE RulesProofs ----------------------------
(***************************************************************************)
(* Proofs about the decisions that keep no state, for every input.         *)
(***************************************************************************)
EXTENDS Rules, FiniteSetTheorems, SequenceTheorems, TLAPS

(***************************************************************************)
(* Part 1: the points of a plan.  Each lemma is about one stage of the     *)
(* analysis; Offering says what they come to.                              *)
(***************************************************************************)
Fields ==
  {"key", "host", "format", "bad", "template", "selected", "registered", "deleted", "moved", "live", "move"}

\* A key without tokens is placed on common, any other on a server if it is placed at all.
Placed(w, pt) ==
  pt.host \in IF Tokens(pt.key) = <<>> THEN {"common"} ELSE Range(w.servers) \cup {""}

\* No token was ever taught to belong on common.
TaughtWell(m) == \A t \in DOMAIN m.placements : m.placements[t] # "common"

LEMMA AtRange ==
  ASSUME NEW f, NEW x
  PROVE  At(f, x) \in Range(f) \cup {""}
  BY DEF At, Range

LEMMA PlaceIn ==
  ASSUME NEW w \in Environments, NEW key, NEW fits
  PROVE  Place(w, key, fits) \in IF Tokens(key) = <<>> THEN {"common"} ELSE Range(w.servers) \cup {""}
<1>1. Range(w.mods) \subseteq Range(w.servers) \cup {""}
  BY RulesAssumption
<1>2. \A x : At(w.mods, x) \in Range(w.servers) \cup {""} /\ At(w.servers, x) \in Range(w.servers) \cup {""}
  BY <1>1, AtRange
<1>3. \A x : At(w.servers, x) # "" => At(w.servers, x) = w.servers[x]
  BY DEF At
<1> HIDE DEF At
<1> QED
  BY <1>2, <1>3 DEF Place

LEMMA MadePoint ==
  ASSUME NEW w \in Environments, NEW key, NEW value, NEW pt, pt = MakePoint(w, key, value)
  PROVE  /\ DOMAIN pt = Fields
         /\ pt.key = key /\ pt.live = NoLive /\ pt.move = FALSE /\ pt.registered = FALSE
         /\ Placed(w, pt)
         /\ pt.selected => pt.host # ""
         /\ pt.bad = (pt.format # String /\ value \notin JavaNumber)
<1> DEFINE fits == SelectSeq(w.templates, LAMBDA t : MatchTemplate(t.pattern, key))
<1>1. /\ DOMAIN pt = Fields
      /\ pt.key = key /\ pt.live = NoLive /\ pt.move = FALSE /\ pt.registered = FALSE
      /\ pt.host = Place(w, key, fits)
      /\ pt.selected => pt.host # ""
      /\ pt.bad = (pt.format # String /\ value \notin JavaNumber)
  BY DEF MakePoint, Fields
<1>2. Placed(w, pt)
  <2>1. pt.host \in IF Tokens(key) = <<>> THEN {"common"} ELSE Range(w.servers) \cup {""}
    <3> HIDE DEF fits
    <3> QED
      BY <1>1, PlaceIn
  <2> QED
    BY <1>1, <2>1 DEF Placed
<1> QED
  BY <1>1, <1>2

\* A point that has a place if it is selected.
Sound(w, p) == DOMAIN p = Fields /\ Placed(w, p) /\ (p.selected => p.host # "")

\* Of a point p, what is remembered changes the place, the format and the tick only.
Reused(m, p, q) ==
  /\ q.key = p.key /\ q.live = p.live /\ q.move = p.move /\ q.bad = p.bad /\ q.template = p.template
  /\ \/ q.format = p.format
     \/ /\ q.template = 0 /\ KeyShape(q.key) \in DOMAIN m.patterns
        /\ q.format = m.patterns[KeyShape(q.key)].format /\ q.format \in {3, String}

LEMMA Patterned ==
  ASSUME NEW w \in Environments, NEW m, TaughtWell(m), NEW p, Sound(w, p)
  PROVE  Sound(w, ApplyPatterns(w, m, p)) /\ Reused(m, p, ApplyPatterns(w, m, p))
<1> DEFINE q == ApplyPatterns(w, m, p)
<1> DEFINE home == IF Tokens(p.key) = <<>> THEN "" ELSE At(m.placements, Tokens(p.key)[1])
           mine == p.host = "" /\ home # "" /\ home \in Range(w.servers) \cup {"common"}
           placed == IF mine THEN [p EXCEPT !.host = home, !.selected = TRUE] ELSE p
           shape == KeyShape(p.key)
<1>1. q = IF placed.host = "" \/ shape \notin DOMAIN m.patterns THEN placed
          ELSE [placed EXCEPT
                 !.format = IF placed.template = 0 /\ m.patterns[shape].format \in {3, 4}
                            THEN m.patterns[shape].format ELSE @,
                 !.selected = m.patterns[shape].selected]
  BY DEF ApplyPatterns
<1> HIDE DEF q
<1>0. DOMAIN p = Fields /\ Placed(w, p) /\ (p.selected => p.host # "")
  BY DEF Sound
<1>2. home # "common"
  BY DEF At, TaughtWell
<1>3. /\ DOMAIN placed = Fields
      /\ placed.key = p.key /\ placed.live = p.live /\ placed.move = p.move /\ placed.bad = p.bad
      /\ placed.template = p.template /\ placed.registered = p.registered /\ placed.format = p.format
      /\ placed.host = IF mine THEN home ELSE p.host
      /\ placed.selected = IF mine THEN TRUE ELSE p.selected
  <2> HIDE DEF home
  <2> QED
    BY <1>0 DEF Fields
<1>4. Placed(w, placed) /\ (placed.selected => placed.host # "")
  <2>1. CASE mine
    <3>1. Tokens(p.key) # <<>> /\ home \in Range(w.servers) /\ home # ""
      BY <1>0, <1>2, <2>1 DEF Placed
    <3>2. placed.host = home /\ placed.key = p.key
      BY <1>3, <2>1
    <3> HIDE DEF home, placed
    <3> QED
      BY <3>1, <3>2 DEF Placed
  <2>2. CASE ~mine
    BY <1>0, <2>2
  <2> QED
    BY <2>1, <2>2
<1>5. CASE placed.host = "" \/ shape \notin DOMAIN m.patterns
  <2> HIDE DEF placed, shape
  <2>1. q = placed
    BY <1>1, <1>5
  <2>2. Sound(w, q)
    BY <1>3, <1>4, <2>1 DEF Sound
  <2>3. Reused(m, p, q)
    BY <1>3, <2>1 DEF Reused
  <2> QED
    BY <2>2, <2>3 DEF q
<1>6. CASE placed.host # "" /\ shape \in DOMAIN m.patterns
  <2> HIDE DEF placed, shape
  <2>1. /\ DOMAIN q = Fields
        /\ q.key = placed.key /\ q.live = placed.live /\ q.move = placed.move /\ q.bad = placed.bad
        /\ q.template = placed.template /\ q.registered = placed.registered /\ q.host = placed.host
        /\ \/ q.format = placed.format
           \/ /\ placed.template = 0 /\ q.format = m.patterns[shape].format
              /\ m.patterns[shape].format \in {3, 4}
    BY <1>1, <1>3, <1>6 DEF Fields
  <2>2. Placed(w, q)
    BY <1>3, <1>4, <2>1 DEF Placed
  <2>3. shape = KeyShape(p.key)
    BY DEF shape
  <2> QED
    <3>1. /\ q.key = p.key
          /\ \/ q.format = p.format
             \/ q.template = 0 /\ q.format = m.patterns[shape].format /\ q.format \in {3, 4}
      BY <1>3, <2>1
    <3>2. Sound(w, q)
      BY <1>6, <2>1, <2>2 DEF Sound
    <3>3. Reused(m, p, q)
      BY <1>3, <1>6, <2>1, <2>3, <3>1 DEF Reused, String
    <3> QED
      BY <3>2, <3>3 DEF q
<1> QED
  BY <1>5, <1>6 DEF q

\* What is said of a plan's point by the tables: its live checkpoint, when it is to be moved.
Lives(w, q) ==
  \E r \in w.regs :
    /\ {x \in w.regs : x.key = q.key} = {r}
    /\ r.group = q.live.group /\ r.checkpoint = q.live.checkpoint
    /\ q.host # "" /\ DeviceHost(w, r.device) # q.host

\* Of a point p, the tables change only what q says of live checkpoints.
Told(w, p, q) ==
  /\ DOMAIN q = Fields
  /\ q.key = p.key /\ q.host = p.host /\ q.format = p.format /\ q.bad = p.bad
  /\ q.template = p.template /\ q.selected = p.selected /\ q.move = p.move
  /\ q.registered = ({x \in w.regs : x.key = q.key} # {})
  /\ q.moved /\ q.live.checkpoint # 0 => Lives(w, q)

LEMMA Marked ==
  ASSUME NEW w \in Environments, NEW p, DOMAIN p = Fields, p.live = NoLive
  PROVE  Told(w, p, MarkExisting(w, p))
<1> DEFINE q == MarkExisting(w, p)
           live == {r \in w.regs : r.key = p.key}
           away == {r \in live : r.group # 0 /\ p.host # "" /\ DeviceHost(w, r.device) \notin {"", p.host}}
           r == CHOOSE x \in away : TRUE
<1>1. /\ DOMAIN q = Fields
      /\ q.key = p.key /\ q.host = p.host /\ q.format = p.format /\ q.bad = p.bad
      /\ q.template = p.template /\ q.selected = p.selected /\ q.move = p.move
      /\ q.registered = (live # {}) /\ q.moved = (away # {})
      /\ q.live = IF away # {} /\ Cardinality(live) = 1
                  THEN [checkpoint |-> r.checkpoint, iface |-> r.iface, group |-> r.group]
                  ELSE NoLive
  BY DEF MarkExisting, Fields
<1> HIDE DEF q
<1>2. q.moved /\ q.live.checkpoint # 0 => Lives(w, q)
  <2> SUFFICES ASSUME q.moved, q.live.checkpoint # 0
               PROVE  Lives(w, q)
    OBVIOUS
  <2>1. away # {} /\ Cardinality(live) = 1
    <3>1. NoLive.checkpoint = 0
      BY DEF NoLive
    <3> HIDE DEF r, live, away
    <3> QED
      BY <1>1, <3>1
  <2>2. r \in away
    BY <2>1
  <2>3. IsFiniteSet(live)
    BY RulesAssumption, FS_Subset, live \in SUBSET w.regs
  <2>4. PICK x : live = {x}
    BY <2>1, <2>3, FS_Singleton
  <2>5. r = x
    BY <2>2, <2>4
  <2>6. q.live.group = r.group /\ q.live.checkpoint = r.checkpoint
    <3> HIDE DEF r, live, away
    <3> QED
      BY <1>1, <2>1
  <2>7. r \in w.regs /\ p.host # "" /\ DeviceHost(w, r.device) # p.host
    BY <2>2
  <2> HIDE DEF r
  <2> QED
    BY <1>1, <2>4, <2>5, <2>6, <2>7 DEF Lives
<1>3. Told(w, p, q)
  BY <1>1, <1>2 DEF Told
<1> QED
  BY <1>3 DEF q

\* What the plan of w says of a key, for a tool that remembers m.
Offered(w, m, key) ==
  KeepBadValuesOff(MarkDeleted(w, MarkExisting(w, ApplyPatterns(w, m, MakePoint(w, key, w.values[key])))))

\* How the value of a key is read: as the analysis did, or as it is remembered.
Read(w, m, key, q) ==
  /\ q.bad <=> ~TakenForString(w, key) /\ w.values[key] \notin JavaNumber
  /\ TakenForString(w, key) /\ q.format # String =>
       /\ q.template = 0 /\ KeyShape(key) \in DOMAIN m.patterns
       /\ m.patterns[KeyShape(key)].format = 3

Offering(w, m, key, q) ==
  /\ DOMAIN q = Fields
  /\ q.key = key /\ q.move = FALSE
  /\ Placed(w, q)
  /\ q.selected => q.host # "" /\ ~q.bad
  /\ q.registered = ({x \in w.regs : x.key = key} # {})
  /\ q.moved /\ q.live.checkpoint # 0 => Lives(w, q)
  /\ Read(w, m, key, q)

LEMMA OfferedRight ==
  ASSUME NEW w \in Environments, NEW m, TaughtWell(m), NEW key
  PROVE  Offering(w, m, key, Offered(w, m, key))
<1> DEFINE a == MakePoint(w, key, w.values[key])
           b == ApplyPatterns(w, m, a)
           c == MarkExisting(w, b)
           d == MarkDeleted(w, c)
           e == KeepBadValuesOff(d)
<1>1. /\ DOMAIN a = Fields
      /\ a.key = key /\ a.live = NoLive /\ a.move = FALSE /\ a.registered = FALSE
      /\ Placed(w, a)
      /\ a.selected => a.host # ""
      /\ a.bad = (a.format # String /\ w.values[key] \notin JavaNumber)
  BY MadePoint
<1>12. TakenForString(w, key) <=> a.format = String
  BY DEF TakenForString
<1> HIDE DEF a
<1>2. Sound(w, b) /\ Reused(m, a, b)
  BY <1>1, Patterned DEF Sound
<1> HIDE DEF b
<1>3. Told(w, b, c)
  BY <1>1, <1>2, Marked DEF Sound, Reused
<1> HIDE DEF c
<1>4. /\ DOMAIN d = Fields
      /\ d.key = key /\ d.host = b.host /\ d.format = b.format /\ d.bad = b.bad
      /\ d.template = b.template /\ d.move = FALSE /\ d.registered = c.registered
      /\ d.moved = c.moved /\ d.live = c.live
      /\ d.selected => d.host # ""
  BY <1>1, <1>2, <1>3 DEF MarkDeleted, Fields, Sound, Reused, Told
<1> HIDE DEF d
<1>5. /\ DOMAIN e = Fields
      /\ e.key = key /\ e.host = b.host /\ e.format = b.format /\ e.bad = b.bad
      /\ e.template = b.template /\ e.move = FALSE /\ e.registered = c.registered
      /\ e.moved = c.moved /\ e.live = c.live
      /\ e.selected => e.host # "" /\ ~e.bad
  BY <1>4 DEF KeepBadValuesOff, Fields
<1>6. e = Offered(w, m, key)
  BY DEF e, d, c, b, a, Offered
<1> HIDE DEF e
<1>7. Placed(w, e)
  BY <1>1, <1>2, <1>5 DEF Placed, Sound, Reused
<1>8. e.moved /\ e.live.checkpoint # 0 => Lives(w, e)
  <2>1. e.moved = c.moved /\ e.live = c.live /\ e.host = c.host /\ e.key = c.key
    BY <1>1, <1>2, <1>3, <1>5 DEF Told, Reused
  <2>2. c.moved /\ c.live.checkpoint # 0 => Lives(w, c)
    BY <1>3 DEF Told
  <2> QED
    BY <2>1, <2>2 DEF Lives
<1>9. e.registered = ({x \in w.regs : x.key = key} # {})
  BY <1>1, <1>2, <1>3, <1>5 DEF Reused, Told
<1>10. Read(w, m, key, e)
  <2>1. e.bad = a.bad /\ e.template = b.template /\ e.format = b.format
    BY <1>2, <1>5 DEF Reused
  <2>2. \/ b.format = a.format
        \/ /\ b.template = 0 /\ KeyShape(key) \in DOMAIN m.patterns
           /\ b.format = m.patterns[KeyShape(key)].format /\ b.format \in {3, String}
    BY <1>1, <1>2 DEF Reused
  <2> QED
    BY <1>1, <1>12, <2>1, <2>2 DEF Read, String
<1>11. Offering(w, m, key, e)
  BY <1>5, <1>7, <1>8, <1>9, <1>10 DEF Offering
<1> QED
  BY <1>6, <1>11

(***************************************************************************)
(* Part 2: plans and what is chosen of them.                               *)
(***************************************************************************)
LEMMA PlanIs ==
  ASSUME NEW w, NEW m
  PROVE  /\ Plan(w, m).points = {Offered(w, m, key) : key \in DOMAIN w.values}
         /\ Plan(w, m).hosts = Range(w.servers) \cup {"common"}
  BY DEF Plan, Offered

\* Every point of a plan is what is offered of its key.
LEMMA PointOf ==
  ASSUME NEW w \in Environments, NEW m, TaughtWell(m), NEW q \in Plan(w, m).points
  PROVE  q.key \in DOMAIN w.values /\ q = Offered(w, m, q.key) /\ Offering(w, m, q.key, q)
<1>1. PICK key \in DOMAIN w.values : q = Offered(w, m, key)
  BY PlanIs
<1>2. Offering(w, m, key, q)
  BY <1>1, OfferedRight
<1>3. q.key = key
  BY <1>2 DEF Offering
<1> QED
  BY <1>1, <1>2, <1>3

LEMMA Listed ==
  ASSUME NEW S, IsFiniteSet(S)
  PROVE  /\ Cardinality(S) \in Nat
         /\ SetToSeq(S) \in [1..Cardinality(S) -> S]
         /\ IsInjective(SetToSeq(S))
         /\ \A x \in S : \E i \in 1..Cardinality(S) : SetToSeq(S)[i] = x
<1> DEFINE n == Cardinality(S)
           f == SetToSeq(S)
<1>1. n \in Nat /\ ExistsBijection(1..n, S)
  BY FS_CardinalityType
<1>2. PICK g \in [1..n -> S] : IsInjective(g)
  BY <1>1 DEF ExistsBijection, Bijection, Injection
<1>3. f \in [1..n -> S] /\ IsInjective(f)
  BY <1>2 DEF SetToSeq
<1> HIDE DEF f
<1>4. f \in Injection(1..n, S)
  BY <1>3 DEF Injection
<1>5. Cardinality(1..n) = n
  BY <1>1, FS_Interval
<1>6. f \in Surjection(1..n, S)
  BY <1>4, <1>5, FS_Injection
<1>7. \A x \in S : \E i \in 1..n : f[i] = x
  BY <1>6 DEF Surjection
<1> QED
  BY <1>1, <1>3, <1>7 DEF f

LEMMA FinitePlan ==
  ASSUME NEW w \in Environments, NEW m
  PROVE  IsFiniteSet(Plan(w, m).points) /\ IsFiniteSet(Plan(w, m).hosts)
<1>1. IsFiniteSet(DOMAIN w.values) /\ IsFiniteSet(DOMAIN w.servers)
  BY RulesAssumption
<1>2. IsFiniteSet(Plan(w, m).points)
  <2> DEFINE S == DOMAIN w.values
             T == Plan(w, m).points
             f == [key \in S |-> Offered(w, m, key)]
  <2>1. f \in Surjection(S, T)
    <3>1. f \in [S -> T]
      BY PlanIs
    <3>2. \A t \in T : \E s \in S : f[s] = t
      BY PlanIs
    <3> QED
      BY <3>1, <3>2 DEF Surjection
  <2> HIDE DEF f, S, T
  <2>2. IsFiniteSet(T)
    BY <1>1, <2>1, FS_Surjection DEF S
  <2> QED
    BY <2>2 DEF T
<1>3. IsFiniteSet(Range(w.servers))
  <2> DEFINE S == DOMAIN w.servers
             T == Range(w.servers)
             f == [x \in S |-> w.servers[x]]
  <2>1. f \in Surjection(S, T)
    BY DEF Surjection, Range
  <2> HIDE DEF f, S, T
  <2>2. IsFiniteSet(T)
    BY <1>1, <2>1, FS_Surjection DEF S
  <2> QED
    BY <2>2 DEF T
<1>4. IsFiniteSet(Plan(w, m).hosts)
  BY <1>3, PlanIs, FS_AddElement
<1> QED
  BY <1>2, <1>4

\* What the interface starts from: every host and every point of the plan, once.
Starting(w, m, s) ==
  /\ s.update = 0 /\ s.named = TRUE
  /\ IsInjective(s.servers) /\ ToSet(s.servers) = Plan(w, m).hosts
  /\ \E n \in Nat : DOMAIN s.points = 1..n
  /\ \A i \in DOMAIN s.points : \E q \in Plan(w, m).points :
       s.points[i] = [q EXCEPT !.selected = @ /\ ~q.registered]
  /\ \A i, j \in DOMAIN s.points : s.points[i].key = s.points[j].key => i = j

LEMMA DefaultIs ==
  ASSUME NEW w \in Environments, NEW m, TaughtWell(m)
  PROVE  Starting(w, m, Default(Plan(w, m)))
<1> DEFINE s == Default(Plan(w, m))
           P == Plan(w, m).points
           H == Plan(w, m).hosts
           pts == SetToSeq(P)
           srv == SetToSeq(H)
<1>1. /\ s.update = 0 /\ s.named = TRUE /\ s.servers = srv
      /\ s.points = [i \in DOMAIN pts |-> [pts[i] EXCEPT !.selected = @ /\ ~pts[i].registered]]
  BY DEF Default
<1> HIDE DEF s
<1>2. IsFiniteSet(P) /\ IsFiniteSet(H)
  BY FinitePlan
<1>3. IsInjective(srv) /\ ToSet(srv) = H
  <2> HIDE DEF H
  <2>1. srv \in [1..Cardinality(H) -> H] /\ IsInjective(srv)
        /\ \A x \in H : \E i \in 1..Cardinality(H) : srv[i] = x
    BY <1>2, Listed
  <2> QED
    BY <2>1 DEF ToSet
<1>4. /\ Cardinality(P) \in Nat /\ pts \in [1..Cardinality(P) -> P] /\ IsInjective(pts)
  <2> HIDE DEF P
  <2> QED
    BY <1>2, Listed
<1>5. DOMAIN s.points = 1..Cardinality(P) /\ DOMAIN pts = 1..Cardinality(P)
  BY <1>1, <1>4
<1>6. \A i \in DOMAIN s.points : pts[i] \in P /\ s.points[i] = [pts[i] EXCEPT !.selected = @ /\ ~pts[i].registered]
  BY <1>1, <1>4, <1>5
<1>7. \A i \in DOMAIN s.points :
        s.points[i].key = pts[i].key /\ pts[i] = Offered(w, m, pts[i].key)
  <2> SUFFICES ASSUME NEW i \in DOMAIN s.points
               PROVE  s.points[i].key = pts[i].key /\ pts[i] = Offered(w, m, pts[i].key)
    OBVIOUS
  <2> DEFINE q == pts[i]
  <2>1. q \in P /\ s.points[i] = [q EXCEPT !.selected = @ /\ ~q.registered]
    BY <1>6
  <2> HIDE DEF q
  <2>2. DOMAIN q = Fields /\ q = Offered(w, m, q.key)
    BY <2>1, PointOf DEF Offering
  <2>3. s.points[i].key = q.key
    BY <2>1, <2>2 DEF Fields
  <2> QED
    BY <2>2, <2>3 DEF q
<1>8. \A i, j \in DOMAIN s.points : s.points[i].key = s.points[j].key => i = j
  BY <1>4, <1>5, <1>7 DEF IsInjective
<1> HIDE DEF pts
<1>9. \A i \in DOMAIN s.points : \E q \in P : s.points[i] = [q EXCEPT !.selected = @ /\ ~q.registered]
  BY <1>6
<1>10. Starting(w, m, s)
  BY <1>1, <1>3, <1>4, <1>5, <1>8, <1>9 DEF Starting
<1> QED
  BY <1>10 DEF s

\* A point that is ticked at the start is one that the plan selects.
Ticked(w, m, p) ==
  \E q \in Plan(w, m).points :
    /\ ~q.registered /\ ~q.bad /\ q.host # "" /\ Offering(w, m, q.key, q)
    /\ q.key = p.key /\ q.host = p.host /\ q.bad = p.bad /\ q.template = p.template /\ q.format = p.format

LEMMA DefaultPoint ==
  ASSUME NEW w \in Environments, NEW m, TaughtWell(m), NEW s, Starting(w, m, s), NEW i \in DOMAIN s.points
  PROVE  s.points[i].move = FALSE /\ (s.points[i].selected => Ticked(w, m, s.points[i]))
<1> DEFINE p == s.points[i]
<1>1. PICK q \in Plan(w, m).points : p = [q EXCEPT !.selected = @ /\ ~q.registered]
  BY DEF Starting
<1> HIDE DEF p
<1>2. Offering(w, m, q.key, q)
  BY PointOf
<1>3. DOMAIN q = Fields /\ q.move = FALSE /\ (q.selected => q.host # "" /\ ~q.bad)
  BY <1>2 DEF Offering
<1>4. /\ p.move = FALSE /\ p.selected = (q.selected /\ ~q.registered)
      /\ q.key = p.key /\ q.host = p.host /\ q.bad = p.bad /\ q.template = p.template /\ q.format = p.format
  BY <1>1, <1>3 DEF Fields
<1>5. p.selected => ~q.registered /\ ~q.bad /\ q.host # ""
  BY <1>3, <1>4
<1>6. p.selected => Ticked(w, m, p)
  BY <1>2, <1>4, <1>5 DEF Ticked
<1> QED
  BY <1>4, <1>6 DEF p

LEMMA DefaultHolds ==
  ASSUME NEW w \in Environments, NEW m, TaughtWell(m)
  PROVE  DefaultRight(w, m, Plan(w, m))
<1> DEFINE plan == Plan(w, m)
           s == Default(plan)
           used == {s.points[i] : i \in Used(s)}
<1>0. Starting(w, m, s)
  BY DefaultIs
<1> HIDE DEF s
<1>1. /\ s.update = 0 /\ s.named = TRUE
      /\ IsInjective(s.servers) /\ ToSet(s.servers) = plan.hosts
      /\ \A i, j \in DOMAIN s.points : s.points[i].key = s.points[j].key => i = j
  BY <1>0 DEF Starting
<1>2. \A i \in Used(s) : i \in DOMAIN s.points /\ s.points[i].move = FALSE /\ Ticked(w, m, s.points[i])
  BY <1>0, DefaultPoint DEF Used
<1> HIDE DEF plan
<1>3. plan.hosts = Range(w.servers) \cup {"common"} /\ "common" \notin Range(w.servers)
  BY PlanIs, RulesAssumption DEF plan
<1>4. ASSUME used # {}, \A p \in used : p.template = 0 => p.format \in {3, 4}
      PROVE  ValidateSelection(w, plan, s)
  <2>1. ASSUME NEW i \in Used(s)
        PROVE  s.points[i].move = FALSE /\ AddAllowed(plan, s, s.points[i])
    <3> DEFINE p == s.points[i]
    <3>1. PICK q \in plan.points :
             /\ ~q.registered /\ ~q.bad /\ q.host # "" /\ Offering(w, m, q.key, q)
             /\ q.key = p.key /\ q.host = p.host /\ q.bad = p.bad
             /\ q.template = p.template /\ q.format = p.format
      BY <1>2 DEF Ticked, plan
    <3>2. p.template = 0 => p.format \in {3, 4}
      BY <1>4
    <3>3. p.move = FALSE
      BY <1>2
    <3> HIDE DEF p
    <3>4. Placed(w, q)
      BY <3>1 DEF Offering
    <3>5. p.host \in plan.hosts /\ (Tokens(p.key) # <<>> <=> p.host # "common")
      BY <1>3, <3>1, <3>4 DEF Placed
    <3>6. q \in Known(plan, p)
      BY <3>1 DEF Known
    <3>7. AddAllowed(plan, s, p)
      BY <1>1, <3>1, <3>2, <3>5, <3>6 DEF AddAllowed
    <3> QED
      BY <3>3, <3>7 DEF p
  <2>2. Used(s) # {}
    BY <1>4
  <2>3. \A i, j \in Used(s) : s.points[i].key = s.points[j].key => i = j
    BY <1>1 DEF Used
  <2>4. \A i \in Used(s) :
          IF s.points[i].move THEN MoveAllowed(plan, s, s.points[i]) ELSE AddAllowed(plan, s, s.points[i])
    BY <2>1
  <2> QED
    BY <1>1, <2>2, <2>3, <2>4 DEF ValidateSelection
<1> DEFINE taught(key) == /\ KeyShape(key) \in DOMAIN m.patterns
                          /\ m.patterns[KeyShape(key)].format = 3
<1>5. ASSUME NEW p \in used, p.format # String, w.values[p.key] \notin JavaNumber
      PROVE  p.template = 0 /\ TakenForString(w, p.key) /\ taught(p.key)
  <2>1. PICK q : /\ Read(w, m, p.key, q) /\ ~q.bad
                 /\ q.template = p.template /\ q.format = p.format
    <3>1. PICK i \in Used(s) : p = s.points[i]
      BY <1>5
    <3>2. Ticked(w, m, p)
      BY <1>2, <3>1
    <3>3. PICK q : /\ Offering(w, m, q.key, q) /\ ~q.bad
                   /\ q.key = p.key /\ q.template = p.template /\ q.format = p.format
      BY <3>2 DEF Ticked
    <3>4. Read(w, m, p.key, q)
      BY <3>3 DEF Offering
    <3> QED
      BY <3>3, <3>4
  <2> QED
    BY <1>5, <2>1 DEF Read
<1>6. /\ used # {} /\ (\A p \in used : p.template = 0 => p.format \in {3, 4}) => ValidateSelection(w, plan, s)
      /\ \A p \in used : p.format # String /\ w.values[p.key] \notin JavaNumber =>
           p.template = 0 /\ TakenForString(w, p.key) /\ taught(p.key)
  BY <1>4, <1>5
<1> QED
  BY <1>6 DEF DefaultRight, s, plan

(***************************************************************************)
(* Part 3: what is accepted.                                               *)
(***************************************************************************)
LEMMA MoveHolds ==
  ASSUME NEW w \in Environments, NEW m, TaughtWell(m), NEW s, NEW p, MoveAllowed(Plan(w, m), s, p)
  PROVE  /\ p.key \in DOMAIN w.values
         /\ p.host \in IF Tokens(p.key) = <<>> THEN {"common"} ELSE Range(w.servers)
         /\ \E r \in w.regs :
              /\ {x \in w.regs : x.key = p.key} = {r}
              /\ r.group = s.update /\ r.checkpoint = p.live.checkpoint
              /\ DeviceHost(w, r.device) # p.host
<1>1. PICK q \in Plan(w, m).points :
        /\ q.key = p.key /\ q.moved /\ q.live.checkpoint # 0 /\ q.live.checkpoint = p.live.checkpoint
        /\ q.host = p.host /\ q.live.group = s.update
  BY DEF MoveAllowed, Known
<1>2. q.key \in DOMAIN w.values /\ Offering(w, m, q.key, q)
  BY PointOf
<1>3. Placed(w, q) /\ Lives(w, q)
  BY <1>1, <1>2 DEF Offering
<1>4. p.host # ""
  BY <1>1, <1>3 DEF Lives
<1>5. p.host \in IF Tokens(p.key) = <<>> THEN {"common"} ELSE Range(w.servers)
  BY <1>1, <1>3, <1>4 DEF Placed
<1>6. \E r \in w.regs :
              /\ {x \in w.regs : x.key = p.key} = {r}
              /\ r.group = s.update /\ r.checkpoint = p.live.checkpoint
              /\ DeviceHost(w, r.device) # p.host
  BY <1>1, <1>3 DEF Lives
<1> QED
  BY <1>1, <1>2, <1>5, <1>6

LEMMA AddHolds ==
  ASSUME NEW w \in Environments, NEW m, TaughtWell(m), NEW s, NEW p, AddAllowed(Plan(w, m), s, p),
         ToSet(s.servers) \subseteq Plan(w, m).hosts
  PROVE  /\ p.key \in DOMAIN w.values
         /\ p.host \in IF Tokens(p.key) = <<>> THEN {"common"} ELSE Range(w.servers)
         /\ {x \in w.regs : x.key = p.key} = {}
         /\ p.format # String /\ w.values[p.key] \notin JavaNumber =>
              p.template = 0 /\ TakenForString(w, p.key)
<1>1. PICK q \in Plan(w, m).points :
        /\ q.key = p.key /\ ~q.registered /\ ~(q.bad /\ p.format # String)
        /\ p.host \in ToSet(s.servers) /\ q.template = p.template
        /\ p.template # 0 => p.format = q.format
        /\ Tokens(p.key) # <<>> <=> p.host # "common"
  BY DEF AddAllowed, Known
<1>2. q.key \in DOMAIN w.values /\ Offering(w, m, q.key, q)
  BY PointOf
<1>3. p.host \in Range(w.servers) \cup {"common"}
  BY <1>1, PlanIs
<1>4. {x \in w.regs : x.key = p.key} = {}
  BY <1>1, <1>2 DEF Offering
<1>5. p.format # String /\ w.values[p.key] \notin JavaNumber =>
        p.template = 0 /\ TakenForString(w, p.key)
  <2>1. Read(w, m, p.key, q)
    BY <1>1, <1>2 DEF Offering
  <2> QED
    BY <1>1, <2>1 DEF Read
<1> QED
  BY <1>1, <1>2, <1>3, <1>4, <1>5

LEMMA SelectionHolds ==
  ASSUME NEW w \in Environments, NEW m, TaughtWell(m), NEW s, ValidateSelection(w, Plan(w, m), s)
  PROVE  SelectionRight(w, s)
<1> DEFINE plan == Plan(w, m)
<1>1. /\ ToSet(s.servers) \subseteq plan.hosts
      /\ \A i, j \in Used(s) : s.points[i].key = s.points[j].key => i = j
      /\ \A i \in Used(s) :
           IF s.points[i].move THEN MoveAllowed(plan, s, s.points[i]) ELSE AddAllowed(plan, s, s.points[i])
  BY DEF ValidateSelection
<1> HIDE DEF plan
<1>2. ASSUME NEW i \in Used(s)
      PROVE  LET p == s.points[i] IN
             /\ p.key \in DOMAIN w.values
             /\ p.host \in IF Tokens(p.key) = <<>> THEN {"common"} ELSE Range(w.servers)
             /\ IF p.move
                THEN \E r \in w.regs :
                       /\ {x \in w.regs : x.key = p.key} = {r} /\ r.group = s.update
                       /\ r.checkpoint = p.live.checkpoint
                       /\ DeviceHost(w, r.device) # p.host
                ELSE /\ {x \in w.regs : x.key = p.key} = {}
                     /\ p.format # String /\ w.values[p.key] \notin JavaNumber =>
                          p.template = 0 /\ TakenForString(w, p.key)
  <2> DEFINE p == s.points[i]
  <2>1. CASE p.move
    <3>1. MoveAllowed(plan, s, p)
      BY <1>1, <2>1
    <3> HIDE DEF p
    <3> QED
      BY <2>1, <3>1, MoveHolds DEF p, plan
  <2>2. CASE ~p.move
    <3>1. AddAllowed(plan, s, p)
      BY <1>1, <2>2
    <3> QED
      BY <1>1, <2>2, <3>1, AddHolds DEF plan
  <2> QED
    BY <2>1, <2>2
<1> QED
  BY <1>1, <1>2 DEF SelectionRight

(***************************************************************************)
(* Part 4: what is learned.                                                *)
(***************************************************************************)
\* A set with 0 that has the successor of each of its numbers has every number: the shift of
\* the numbers up to n that are in it would else be one-to-one and not onto.
LEMMA SetInduction ==
  ASSUME NEW S, 0 \in S, \A n \in Nat : n \in S => n + 1 \in S
  PROVE  Nat \subseteq S
<1> SUFFICES ASSUME NEW n \in Nat, n \notin S
             PROVE  FALSE
  OBVIOUS
<1> DEFINE T == {m \in 0..n : m \in S}
           f == [m \in T |-> m + 1]
<1>1. IsFiniteSet(T)
  <2>1. IsFiniteSet(0..n)
    BY FS_Interval
  <2>2. T \in SUBSET (0..n)
    OBVIOUS
  <2> HIDE DEF T
  <2> QED
    BY <2>1, <2>2, FS_Subset
<1>2. f \in Injection(T, T)
  <2>1. \A m \in T : m + 1 \in T
    OBVIOUS
  <2>2. \A m, k \in T : m + 1 = k + 1 => m = k
    OBVIOUS
  <2> HIDE DEF T
  <2> QED
    BY <2>1, <2>2 DEF Injection, IsInjective
<1>3. f \in Surjection(T, T)
  <2> HIDE DEF f, T
  <2> QED
    BY <1>1, <1>2, FS_Injection
<1>4. \E m \in T : f[m] = 0
  <2>1. 0 \in T
    OBVIOUS
  <2> HIDE DEF f, T
  <2> QED
    BY <1>3, <2>1 DEF Surjection
<1> QED
  BY <1>4

\* A set of numbers up to n that is not empty has a greatest.
LEMMA MaxIn ==
  ASSUME NEW n \in Nat, NEW I \in SUBSET (1..n), I # {}
  PROVE  Max(I) \in I /\ \A i \in I : i <= Max(I)
<1> DEFINE S == {k \in Nat : \A J \in SUBSET (1..k) : J # {} => \E x \in J : \A y \in J : x >= y}
<1>1. 0 \in S
  <2>1. 1..0 = {}
    OBVIOUS
  <2> QED
    BY <2>1
<1>2. ASSUME NEW k \in Nat, k \in S
      PROVE  k + 1 \in S
  <2> SUFFICES ASSUME NEW J \in SUBSET (1..(k + 1)), J # {}
               PROVE  \E x \in J : \A y \in J : x >= y
    OBVIOUS
  <2>1. CASE k + 1 \in J
    BY <2>1
  <2>2. CASE k + 1 \notin J
    <3>1. J \in SUBSET (1..k)
      BY <2>2
    <3> QED
      BY <1>2, <3>1
  <2> QED
    BY <2>1, <2>2
<1>3. n \in S
  <2> HIDE DEF S
  <2> QED
    BY <1>1, <1>2, SetInduction
<1>4. \E x \in I : \A y \in I : x >= y
  BY <1>3
<1> QED
  BY <1>4 DEF Max

\* The points of a selection are a sequence.
Listing(s) == \E T : s.points \in Seq(T)

LEMMA LearnsWell ==
  ASSUME NEW m, TaughtWell(m), NEW plan, NEW s, Listing(s)
  PROVE  TaughtWell(LearnPatterns(m, plan, s, Digits))
<1> DEFINE Taught(p) ==
             /\ p.host # "" /\ ~p.move
             /\ \A q \in Known(plan, p) : ~q.registered /\ (p.selected \/ ~q.bad)
             /\ s.update # 0 => p.selected
           Fits(t, p) ==
             /\ Taught(p) /\ p.selected /\ p.host # "common"
             /\ Tokens(p.key) # <<>> /\ Tokens(p.key)[1] = t /\ t \notin Digits \cup {p.host}
           home(t) == SelectLastInSeq(s.points, LAMBDA p : Fits(t, p))
           tokens == {Tokens(p.key)[1] : p \in {q \in {x \in ToSet(s.points) : Taught(x)} : Tokens(q.key) # <<>>}}
           new == [t \in {u \in tokens : home(u) # 0} |-> s.points[home(t)].host]
<1>1. LearnPatterns(m, plan, s, Digits).placements = Over(new, m.placements)
  BY DEF LearnPatterns
<1>2. ASSUME NEW t, home(t) # 0
      PROVE  s.points[home(t)].host # "common"
  <2> DEFINE I == {i \in 1..Len(s.points) : Fits(t, s.points[i])}
  <2>1. home(t) = IF I # {} THEN Max(I) ELSE 0
    BY DEF SelectLastInSeq
  <2>2. Len(s.points) \in Nat
    BY DEF Listing
  <2>3. I \in SUBSET (1..Len(s.points))
    OBVIOUS
  <2> HIDE DEF home
  <2>4. Max(I) \in I
    <3> HIDE DEF I
    <3> QED
      BY <1>2, <2>1, <2>2, <2>3, MaxIn
  <2>5. home(t) \in I
    BY <1>2, <2>1, <2>4
  <2> QED
    BY <2>5
<1>3. \A t \in DOMAIN new : new[t] # "common"
  <2> HIDE DEF home, tokens
  <2> QED
    BY <1>2
<1> HIDE DEF new
<1>4. \A t \in DOMAIN Over(new, m.placements) : Over(new, m.placements)[t] # "common"
  BY <1>3 DEF Over, TaughtWell
<1> QED
  BY <1>1, <1>4 DEF TaughtWell

(***************************************************************************)
(* Part 5: what is asked.                                                  *)
(***************************************************************************)
LEMMA SelectionsAreLists ==
  ASSUME NEW w \in Environments, NEW m, TaughtWell(m), NEW s \in Selections(Plan(w, m))
  PROVE  Listing(s)
<1> DEFINE plan == Plan(w, m)
           d == Default(plan)
<1>1. DOMAIN d = {"update", "named", "servers", "points"} /\ \E T : d.points \in Seq(T)
  <2>1. DOMAIN d = {"update", "named", "servers", "points"}
    BY DEF Default
  <2>2. PICK n \in Nat : d.points \in [1..n -> Range(d.points)]
    <3>1. \E n \in Nat : DOMAIN d.points = 1..n
      BY DefaultIs DEF Starting
    <3>2. d.points = [i \in DOMAIN d.points |-> d.points[i]]
      BY DEF Default
    <3> HIDE DEF d
    <3> QED
      BY <3>1, <3>2 DEF Range
  <2> HIDE DEF d
  <2>3. d.points \in Seq(Range(d.points))
    BY <2>2, SeqDef
  <2> QED
    BY <2>1, <2>3
<1> HIDE DEF d
<1>2. PICK g \in plan.groups \cup {0}, t \in Edits(plan, d) : s = [t EXCEPT !.update = g]
  <2> HIDE DEF plan
  <2> QED
    BY DEF Selections, d, plan
<1>3. PICK T : d.points \in Seq(T)
  BY <1>1
<1>4. \/ DOMAIN t = DOMAIN d /\ t.points = d.points
      \/ \E i \in DOMAIN d.points : \E p : DOMAIN t = DOMAIN d /\ t.points = [d.points EXCEPT ![i] = p]
      \/ \E p : DOMAIN t = DOMAIN d /\ t.points = Append(d.points, p)
  <2> DEFINE One == {[d EXCEPT !.servers = Remove(@, h)] : h \in plan.hosts}
             Three == {[d EXCEPT !.points = Append(@, p)] : p \in ToSet(d.points)}
             Two == UNION {{[d EXCEPT !.points[i] = p] : p \in Changed(plan, d.points[i])} : i \in DOMAIN d.points}
  <2>1. CASE t \in {d, [d EXCEPT !.named = FALSE]}
    BY <1>1, <2>1
  <2>2. CASE t \in One
    BY <1>1, <2>2
  <2>3. CASE t \in Two
    <3> HIDE DEF plan
    <3>1. PICK i \in DOMAIN d.points : t \in {[d EXCEPT !.points[i] = p] : p \in Changed(plan, d.points[i])}
      BY <2>3
    <3>2. PICK p \in Changed(plan, d.points[i]) : t = [d EXCEPT !.points[i] = p]
      BY <3>1
    <3>3. DOMAIN t = DOMAIN d /\ t.points = [d.points EXCEPT ![i] = p]
      BY <1>1, <3>2
    <3> QED
      BY <3>3
  <2>4. CASE t \in Three
    <3> HIDE DEF plan
    <3>1. PICK p \in ToSet(d.points) : t = [d EXCEPT !.points = Append(d.points, p)]
      BY <2>4
    <3>2. DOMAIN t = DOMAIN d /\ t.points = Append(d.points, p)
      BY <1>1, <3>1
    <3> QED
      BY <3>2
  <2>5. t \in {d, [d EXCEPT !.named = FALSE]} \cup One \cup Two \cup Three
    <3> HIDE DEF plan
    <3> QED
      BY <1>2 DEF Edits
  <2> HIDE DEF One, Two, Three
  <2> QED
    BY <2>1, <2>2, <2>3, <2>4, <2>5
<1>5. DOMAIN t = DOMAIN d /\ \E U : t.points \in Seq(U)
  <2>1. CASE DOMAIN t = DOMAIN d /\ t.points = d.points
    BY <1>3, <2>1
  <2>2. ASSUME NEW i \in DOMAIN d.points, NEW p, DOMAIN t = DOMAIN d, t.points = [d.points EXCEPT ![i] = p]
        PROVE  \E U : t.points \in Seq(U)
    <3>1. d.points \in Seq(T \cup {p})
      BY <1>3, SeqMonotonic
    <3>2. i \in 1..Len(d.points)
      BY <1>3
    <3>3. t.points \in Seq(T \cup {p})
      BY <2>2, <3>1, <3>2, ExceptSeq
    <3> QED
      BY <3>3
  <2>3. ASSUME NEW p, DOMAIN t = DOMAIN d, t.points = Append(d.points, p)
        PROVE  \E U : t.points \in Seq(U)
    <3>1. d.points \in Seq(T \cup {p})
      BY <1>3, SeqMonotonic
    <3>2. t.points \in Seq(T \cup {p})
      BY <2>3, <3>1
    <3> QED
      BY <3>2
  <2> QED
    BY <1>4, <2>1, <2>2, <2>3
<1>6. s.points = t.points
  BY <1>1, <1>2, <1>5
<1> QED
  BY <1>5, <1>6 DEF Listing

\* What was asked last, of which environment, and what was answered.
AskedInv ==
  /\ TaughtWell(memory)
  /\ asked.what = "plan" => asked.env \in Environments /\ answer = Plan(asked.env, memory)
  /\ asked.what = "selection" =>
       /\ asked.env \in Environments /\ Listing(asked.sel)
       /\ answer.ok => ValidateSelection(asked.env, Plan(asked.env, memory), asked.sel)

LEMMA AskedInit == Init => AskedInv
  BY DEF Init, AskedInv, Nothing, TaughtWell

LEMMA AskedNext == AskedInv /\ [Next]_vars => AskedInv'
<1> SUFFICES ASSUME AskedInv, [Next]_vars
             PROVE  AskedInv'
  OBVIOUS
<1>1. TaughtWell(memory)
  BY DEF AskedInv
<1>2. CASE Start \/ Captures \/ Plans \/ Filters \/ NamesServers
  <2>1. UNCHANGED memory /\ asked'.what \notin {"plan", "selection"}
    BY <1>2 DEF Start, Captures, Plans, Filters, NamesServers, Fresh
  <2> QED
    BY <1>1, <2>1 DEF AskedInv
<1>3. CASE Inspects
  <2>1. UNCHANGED memory /\ asked'.what = "plan" /\ asked'.env \in Environments /\ answer' = Plan(asked'.env, memory)
    BY <1>3 DEF Inspects
  <2> QED
    BY <1>1, <2>1 DEF AskedInv
<1>4. CASE Submits
  <2>1. asked.env \in Environments /\ answer = Plan(asked.env, memory)
    BY <1>4 DEF Submits, AskedInv
  <2>2. PICK s \in Selections(answer) :
          /\ asked' = [what |-> "selection", env |-> asked.env, plan |-> answer, sel |-> s]
          /\ answer' = [ok |-> ValidateSelection(asked.env, answer, s)]
    BY <1>4 DEF Submits
  <2>3. Listing(s)
    BY <1>1, <2>1, SelectionsAreLists
  <2>4. UNCHANGED memory
    BY <1>4 DEF Submits
  <2>5. asked'.what = "selection" /\ asked'.env = asked.env /\ asked'.sel = s
    BY <2>2
  <2>6. answer'.ok = ValidateSelection(asked.env, answer, s)
    BY <2>2
  <2> QED
    BY <1>1, <2>1, <2>3, <2>4, <2>5, <2>6 DEF AskedInv
<1>5. CASE Registers
  <2>1. Listing(asked.sel)
    BY <1>5 DEF Registers, AskedInv
  <2>2. memory' = LearnPatterns(memory, asked.plan, asked.sel, Digits)
    BY <1>5 DEF Registers
  <2>3. TaughtWell(memory')
    BY <1>1, <2>1, <2>2, LearnsWell
  <2>4. asked'.what = "nothing"
    BY <1>5 DEF Registers, Nothing
  <2> QED
    BY <2>3, <2>4 DEF AskedInv
<1>6. CASE UNCHANGED vars
  BY <1>6 DEF vars, AskedInv
<1> QED
  BY <1>2, <1>3, <1>4, <1>5, <1>6 DEF Next

LEMMA AskedRight == AskedInv => RegistersRight
<1> SUFFICES ASSUME AskedInv
             PROVE  RegistersRight
  OBVIOUS
<1>1. asked.what = "plan" => DefaultRight(asked.env, memory, answer)
  BY DefaultHolds DEF AskedInv
<1>2. asked.what = "selection" /\ answer.ok => SelectionRight(asked.env, asked.sel)
  BY SelectionHolds DEF AskedInv
<1> QED
  BY <1>1, <1>2 DEF RegistersRight

(***************************************************************************)
(* The analysis offers what the registration accepts, and the registration *)
(* accepts nothing that collides with what is live or is misplaced, and a  *)
(* number that cannot be read only for a key without a template that the   *)
(* analysis took for a string, for every environment, every memory that    *)
(* registrations leave behind and any number of them (makePoints to        *)
(* validateSelection, learnPatterns).                                      *)
(***************************************************************************)
THEOREM RegistrationsFit == Spec => []RegistersRight
<1>1. Spec => []AskedInv
  BY AskedInit, AskedNext, PTL DEF Spec
<1> QED
  BY <1>1, AskedRight, PTL

(***************************************************************************)
(* Part 6: the line filter.                                                *)
(***************************************************************************)
LEMMA Agreement ==
  ASSUME NEW rc \in Nat,
         NEW st \in [found : BOOLEAN, lines : Nat, dated : Nat, emitted : Nat, preTrunc : Nat]
  PROVE  VerdictsAgree(rc, st)
<1>1. CASE ~st.found
  BY <1>1 DEF VerdictsAgree, FilterActionFor, FilterVerdict
<1>2. CASE st.found /\ rc \notin {0, 3, 4}
  BY <1>2 DEF VerdictsAgree, FilterActionFor, FilterVerdict
<1>3. CASE st.found /\ rc \in {3, 4}
  BY <1>3 DEF VerdictsAgree, FilterActionFor, FilterVerdict
<1>4. CASE st.found /\ rc = 0
  <2>1. st.dated * 10 < st.lines <=> 100 * st.dated < 10 * st.lines
    OBVIOUS
  <2>2. st.preTrunc = 0 <=> ~(st.preTrunc > 0)
    OBVIOUS
  <2> QED
    BY <1>4, <2>1, <2>2 DEF VerdictsAgree, FilterActionFor, FilterVerdict
<1> QED
  BY <1>1, <1>2, <1>3, <1>4

(***************************************************************************)
(* The copy script and the tool judge every run of the line filter alike:  *)
(* whatever the filter's exit code and statistics, a file that the script  *)
(* delivers whole is not shown as cut, nor one it cut as whole             *)
(* (filterActionFor, filterVerdict).                                       *)
(***************************************************************************)
THEOREM VerdictsMatch == Spec => [](asked.what = "filtered" => VerdictsAgree(asked.rc, asked.st))
<1> DEFINE Counted == asked.what = "filtered" => <<asked.rc, asked.st>> \in
                        Nat \X [found : BOOLEAN, lines : Nat, dated : Nat, emitted : Nat, preTrunc : Nat]
           Agreed == asked.what = "filtered" => VerdictsAgree(asked.rc, asked.st)
<1>1. Init => Counted
  BY DEF Init, Nothing
<1>2. Counted /\ [Next]_vars => Counted'
  <2> SUFFICES ASSUME Counted, [Next]_vars
               PROVE  Counted'
    OBVIOUS
  <2>1. CASE Filters
    <3>1. PICK q \in FilterRuns : asked' = [what |-> "filtered", rc |-> q[1], st |-> q[2]]
      BY <2>1 DEF Filters
    <3> QED
      BY <3>1, RulesAssumption
  <2>2. CASE Start \/ Captures \/ Plans \/ NamesServers \/ Inspects \/ Submits \/ Registers
    <3>1. asked'.what # "filtered"
      BY <2>2 DEF Start, Captures, Plans, NamesServers, Inspects, Submits, Registers, Nothing
    <3> QED
      BY <3>1
  <2>3. CASE UNCHANGED vars
    BY <2>3 DEF vars
  <2> QED
    BY <2>1, <2>2, <2>3 DEF Next
<1>3. Counted => Agreed
  BY Agreement
<1>4. Spec => []Counted
  BY <1>1, <1>2, PTL DEF Spec
<1> QED
  BY <1>3, <1>4, PTL

(***************************************************************************)
(* Part 7: sequences of sequences.                                         *)
(***************************************************************************)
\* The concatenation of the first k sequences of seqs, for each k up to n.
Joined(seqs, n, f) == f = [i \in 1..n |-> IF i = 1 THEN seqs[i] ELSE f[i - 1] \o seqs[i]]

LEMMA JoinedExists ==
  ASSUME NEW seqs, NEW n \in Nat
  PROVE  \E f : Joined(seqs, n, f)
<1> DEFINE S == {k \in Nat : \E f : Joined(seqs, k, f)}
<1>1. 0 \in S
  <2>1. Joined(seqs, 0, <<>>)
    BY DEF Joined
  <2> QED
    BY <2>1
<1>2. ASSUME NEW k \in Nat, k \in S
      PROVE  k + 1 \in S
  <2>1. PICK f : Joined(seqs, k, f)
    BY <1>2
  <2> DEFINE g == [i \in 1..(k + 1) |-> IF i = k + 1 THEN (IF i = 1 THEN seqs[i] ELSE f[k] \o seqs[i]) ELSE f[i]]
  <2>2. \A i \in 1..(k + 1) : g[i] = IF i = 1 THEN seqs[i] ELSE g[i - 1] \o seqs[i]
    <3>1. \A i \in 1..k : f[i] = IF i = 1 THEN seqs[i] ELSE f[i - 1] \o seqs[i]
      BY <2>1 DEF Joined
    <3>2. \A i \in 1..k : g[i] = f[i]
      OBVIOUS
    <3>3. g[k + 1] = IF k + 1 = 1 THEN seqs[k + 1] ELSE f[k] \o seqs[k + 1]
      OBVIOUS
    <3> HIDE DEF g
    <3>4. ASSUME NEW i \in 1..(k + 1), i = k + 1
          PROVE  g[i] = IF i = 1 THEN seqs[i] ELSE g[i - 1] \o seqs[i]
      <4>1. k # 0 => k \in 1..k
        OBVIOUS
      <4> QED
        BY <3>2, <3>3, <3>4, <4>1
    <3>5. ASSUME NEW i \in 1..(k + 1), i # k + 1
          PROVE  g[i] = IF i = 1 THEN seqs[i] ELSE g[i - 1] \o seqs[i]
      <4>1. i \in 1..k /\ (i # 1 => i - 1 \in 1..k)
        BY <3>5
      <4> QED
        BY <3>1, <3>2, <4>1
    <3> QED
      BY <3>4, <3>5
  <2>3. Joined(seqs, k + 1, g)
    <3>1. g = [i \in 1..(k + 1) |-> g[i]]
      OBVIOUS
    <3> HIDE DEF g
    <3> QED
      BY <2>2, <3>1 DEF Joined
  <2> QED
    BY <2>3
<1> HIDE DEF S
<1>3. n \in S
  BY <1>1, <1>2, SetInduction
<1> QED
  BY <1>3 DEF S

LEMMA FlattenIs ==
  ASSUME NEW T, NEW seqs \in Seq(Seq(T)), seqs # <<>>
  PROVE  \E f : Joined(seqs, Len(seqs), f) /\ FlattenSeq(seqs) = f[Len(seqs)]
<1>1. Len(seqs) \in Nat /\ Len(seqs) # 0
  BY EmptySeq, LenProperties
<1> DEFINE g == CHOOSE f : Joined(seqs, Len(seqs), f)
<1>2. Joined(seqs, Len(seqs), g)
  BY <1>1, JoinedExists
<1>3. FlattenSeq(seqs) = g[Len(seqs)]
  BY <1>1 DEF FlattenSeq, Joined
<1> QED
  BY <1>2, <1>3

LEMMA FlattenEmpty == FlattenSeq(<<>>) = <<>>
  BY DEF FlattenSeq

\* Empty sequences before the last add nothing to it.
LEMMA FlattenLast ==
  ASSUME NEW T, NEW seqs \in Seq(Seq(T)), seqs # <<>>, \A i \in 1..(Len(seqs) - 1) : seqs[i] = <<>>
  PROVE  FlattenSeq(seqs) = seqs[Len(seqs)]
<1> DEFINE n == Len(seqs)
<1>1. n \in Nat /\ n # 0 /\ \A i \in 1..n : seqs[i] \in Seq(T)
  BY EmptySeq, LenProperties
<1>2. PICK f : Joined(seqs, n, f) /\ FlattenSeq(seqs) = f[n]
  BY FlattenIs
<1> DEFINE S == {k \in Nat : k + 1 \in 1..n => f[k + 1] = seqs[k + 1]}
<1> HIDE DEF n
<1>3. \A i \in 1..n : f[i] = IF i = 1 THEN seqs[i] ELSE f[i - 1] \o seqs[i]
  BY <1>2 DEF Joined
<1>4. 0 \in S
  BY <1>3
<1>5. ASSUME NEW k \in Nat, k \in S
      PROVE  k + 1 \in S
  <2> SUFFICES ASSUME k + 2 \in 1..n
               PROVE  f[k + 2] = seqs[k + 2]
    OBVIOUS
  <2>1. k + 1 \in 1..n /\ k + 1 \in 1..(n - 1) /\ k + 2 # 1 /\ (k + 2) - 1 = k + 1
    BY <1>1
  <2>2. f[k + 1] = <<>>
    BY <1>5, <2>1 DEF n
  <2>3. f[k + 2] = <<>> \o seqs[k + 2]
    BY <1>3, <2>1, <2>2
  <2> QED
    BY <1>1, <2>3, ConcatEmptySeq
<1> HIDE DEF S
<1>6. n - 1 \in S
  <2>1. n - 1 \in Nat
    BY <1>1
  <2>2. Nat \subseteq S
    BY <1>4, <1>5, SetInduction
  <2> QED
    BY <2>1, <2>2
<1>7. f[n] = seqs[n]
  <2>1. (n - 1) + 1 = n /\ n \in 1..n
    BY <1>1
  <2> QED
    BY <1>6, <2>1 DEF S
<1> QED
  BY <1>2, <1>7 DEF n

(***************************************************************************)
(* Part 8: dialling.                                                       *)
(***************************************************************************)
\* Does the i-th hop of r connect, when those before it are open?
HopWorks(n, r, i) ==
  r[i] \notin n.locked /\ <<IF i = 1 THEN Client ELSE r[i - 1], r[i]>> \notin n.down

LEMMA WorksIs ==
  ASSUME NEW T, NEW n, NEW r \in Seq(T)
  PROVE  Works(n, r) <=> \A i \in 1..Len(r) : HopWorks(n, r, i)
  BY LenProperties DEF Works, HopWorks, ToSet

\* What is open after i hops of r.
After(n, r, i) ==
  IF \A j \in 1..i : HopWorks(n, r, j) THEN [ok |-> TRUE, open |-> SubSeq(r, 1, i)]
  ELSE [ok |-> FALSE, open |-> <<>>]

LEMMA AfterHop ==
  ASSUME NEW T, NEW n, NEW r \in Seq(T), NEW i \in 1..Len(r)
  PROVE  Hop(n, After(n, r, i - 1), r[i]) = After(n, r, i)
<1> DEFINE d == After(n, r, i - 1)
           s == SubSeq(r, 1, i - 1)
<1>0. /\ Len(r) \in Nat /\ \A j \in 1..Len(r) : r[j] \in T
      /\ i \in 1..Len(r) /\ i - 1 \in Nat
  BY LenProperties
<1>1. CASE \A j \in 1..(i - 1) : HopWorks(n, r, j)
  <2>1. d = [ok |-> TRUE, open |-> s]
    BY <1>1 DEF After
  <2>2. /\ s \in Seq(T) /\ Len(s) = i - 1
        /\ \A j \in 1..(i - 1) : s[j] = r[j]
    <3>1. \A j \in 1..(i - 1) : r[j] \in T
      BY <1>0
    <3>2. 1 <= i - 1 => (i - 1) - 1 + 1 = i - 1
      BY <1>0
    <3>3. /\ s \in Seq(T) /\ Len(s) = IF 1 <= i - 1 THEN (i - 1) - 1 + 1 ELSE 0
          /\ \A j \in 1..((i - 1) - 1 + 1) : s[j] = r[1 + j - 1]
      BY <1>0, <3>1, SubSeqProperties
    <3> QED
      BY <1>0, <3>3
  <2>3. (IF s = <<>> THEN Client ELSE Last(s)) = (IF i = 1 THEN Client ELSE r[i - 1])
    <3>1. CASE i = 1
      <4>1. s = <<>>
        BY <2>2, <3>1, EmptySeq
      <4> QED
        BY <3>1, <4>1
    <3>2. CASE i # 1
      <4>1. i - 1 \in 1..(i - 1) /\ Len(s) # 0
        BY <1>0, <2>2, <3>2
      <4>2. s # <<>>
        BY <4>1, EmptySeq
      <4>3. Last(s) = r[i - 1]
        BY <2>2, <4>1 DEF Last
      <4> QED
        BY <3>2, <4>2, <4>3
    <3> QED
      BY <3>1, <3>2
  <2>4. Connects(n, d, r[i]) <=> HopWorks(n, r, i)
    <3>1. d.open = s
      <4> HIDE DEF d, s
      <4> QED
        BY <2>1
    <3> HIDE DEF d, s
    <3>2. (IF d.open = <<>> THEN Client ELSE Last(d.open)) = (IF i = 1 THEN Client ELSE r[i - 1])
      BY <2>3, <3>1
    <3> QED
      BY <3>2 DEF Connects, HopWorks
  <2>5. Append(s, r[i]) = SubSeq(r, 1, i)
    <3>1. \A j \in 1..i : r[j] \in T
      BY <1>0
    <3>2. /\ SubSeq(r, 1, i) \in Seq(T) /\ Len(SubSeq(r, 1, i)) = i
          /\ \A j \in 1..i : SubSeq(r, 1, i)[j] = r[j]
      <4>1. /\ SubSeq(r, 1, i) \in Seq(T) /\ Len(SubSeq(r, 1, i)) = IF 1 <= i THEN i - 1 + 1 ELSE 0
            /\ \A j \in 1..(i - 1 + 1) : SubSeq(r, 1, i)[j] = r[1 + j - 1]
        BY <1>0, <3>1, SubSeqProperties
      <4> QED
        BY <1>0, <4>1
    <3>3. /\ Append(s, r[i]) \in Seq(T) /\ Len(Append(s, r[i])) = i
          /\ \A j \in 1..i : Append(s, r[i])[j] = r[j]
      <4> HIDE DEF s
      <4> QED
        BY <1>0, <2>2
    <3> HIDE DEF s
    <3> QED
      BY <1>0, <3>2, <3>3, SeqEqual
  <2>6. CASE HopWorks(n, r, i)
    <3>1. \A j \in 1..i : HopWorks(n, r, j)
      BY <1>0, <1>1, <2>6
    <3>2. After(n, r, i) = [ok |-> TRUE, open |-> SubSeq(r, 1, i)]
      BY <3>1 DEF After
    <3> HIDE DEF d, s
    <3>3. Hop(n, d, r[i]) = [ok |-> TRUE, open |-> Append(d.open, r[i])]
      BY <2>1, <2>4, <2>6 DEF Hop
    <3>4. d.open = s
      BY <2>1
    <3>5. Hop(n, d, r[i]) = After(n, r, i)
      BY <2>5, <3>2, <3>3, <3>4
    <3> QED
      BY <3>5 DEF d
  <2>7. CASE ~HopWorks(n, r, i)
    <3>1. ~\A j \in 1..i : HopWorks(n, r, j)
      BY <1>0, <2>7
    <3> QED
      BY <2>4, <2>7, <3>1 DEF Hop, After
  <2> QED
    BY <2>6, <2>7
<1>2. CASE ~\A j \in 1..(i - 1) : HopWorks(n, r, j)
  <2>1. ~\A j \in 1..i : HopWorks(n, r, j)
    BY <1>0, <1>2
  <2>2. d = [ok |-> FALSE, open |-> <<>>]
    BY <1>2 DEF After
  <2>3. Hop(n, d, r[i]) = [ok |-> FALSE, open |-> <<>>]
    BY <2>2 DEF Hop
  <2>4. After(n, r, i) = [ok |-> FALSE, open |-> <<>>]
    BY <2>1 DEF After
  <2> QED
    BY <2>3, <2>4
<1> QED
  BY <1>1, <1>2

\* One route: all of it is open when it works, and nothing when it does not.
LEMMA DialIs ==
  ASSUME NEW T, NEW n, NEW r \in Seq(T)
  PROVE  DialThrough(n, r) = IF Works(n, r) THEN [ok |-> TRUE, open |-> r] ELSE [ok |-> FALSE, open |-> <<>>]
<1> DEFINE Rec(f) == f = [i \in 0..Len(r) |-> IF i = 0 THEN [ok |-> TRUE, open |-> <<>>] ELSE Hop(n, f[i - 1], r[i])]
           a == [i \in 0..Len(r) |-> After(n, r, i)]
           c == CHOOSE f : Rec(f)
<1>0. Len(r) \in Nat /\ r \in Seq(T)
  BY LenProperties
<1>1. After(n, r, 0) = [ok |-> TRUE, open |-> <<>>]
  <2>1. 1..0 = {}
    OBVIOUS
  <2>2. SubSeq(r, 1, 0) = <<>>
    BY SubSeqEmpty
  <2> QED
    BY <2>1, <2>2 DEF After
<1>2. Rec(a)
  <2>1. ASSUME NEW i \in 0..Len(r)
        PROVE  a[i] = IF i = 0 THEN [ok |-> TRUE, open |-> <<>>] ELSE Hop(n, a[i - 1], r[i])
    <3>1. CASE i = 0
      BY <1>0, <1>1, <3>1
    <3>2. CASE i # 0
      <4>1. i \in 1..Len(r) /\ i - 1 \in 0..Len(r)
        BY <1>0, <3>2
      <4>2. a[i] = After(n, r, i) /\ a[i - 1] = After(n, r, i - 1)
        BY <4>1
      <4> HIDE DEF a
      <4> QED
        BY <1>0, <3>2, <4>1, <4>2, AfterHop
    <3> QED
      BY <3>1, <3>2
  <2>2. a = [i \in 0..Len(r) |-> a[i]]
    OBVIOUS
  <2> HIDE DEF a
  <2> QED
    BY <2>1, <2>2
<1>3. Rec(c)
  <2> HIDE DEF Rec, a
  <2> QED
    BY <1>2
<1>4. DialThrough(n, r) = c[Len(r)]
  BY DEF DialThrough
<1> HIDE DEF c
<1> DEFINE S == {i \in Nat : i \in 0..Len(r) => c[i] = After(n, r, i)}
<1>5. \A i \in 0..Len(r) : c[i] = IF i = 0 THEN [ok |-> TRUE, open |-> <<>>] ELSE Hop(n, c[i - 1], r[i])
  BY <1>3
<1> HIDE DEF Rec
<1>6. 0 \in S
  BY <1>0, <1>1, <1>5
<1>7. ASSUME NEW i \in Nat, i \in S
      PROVE  i + 1 \in S
  <2> SUFFICES ASSUME i + 1 \in 0..Len(r)
               PROVE  c[i + 1] = After(n, r, i + 1)
    OBVIOUS
  <2>1. i \in 0..Len(r) /\ i + 1 # 0 /\ (i + 1) - 1 = i /\ i + 1 \in 1..Len(r)
    BY <1>0
  <2>2. c[i] = After(n, r, i)
    BY <1>7, <2>1
  <2>3. c[i + 1] = Hop(n, c[i], r[i + 1])
    BY <1>5, <2>1
  <2>4. Hop(n, After(n, r, (i + 1) - 1), r[i + 1]) = After(n, r, i + 1)
    BY <1>0, <2>1, AfterHop
  <2> QED
    BY <2>1, <2>2, <2>3, <2>4
<1> HIDE DEF S
<1>8. Len(r) \in S
  BY <1>0, <1>6, <1>7, SetInduction
<1>9. c[Len(r)] = After(n, r, Len(r))
  BY <1>0, <1>8 DEF S
<1>10. SubSeq(r, 1, Len(r)) = r
  BY SubSeqFull
<1> QED
  BY <1>4, <1>9, <1>10, WorksIs DEF After

LEMMA AsSeq ==
  ASSUME NEW R, NEW k \in Nat, NEW f \in [1..k -> R]
  PROVE  f \in Seq(R) /\ Len(f) = k
<1>1. f \in Seq(R)
  BY SeqDef
<1> QED
  BY <1>1, LenProperties

LEMMA MinIn ==
  ASSUME NEW I \in SUBSET Nat, I # {}
  PROVE  Min(I) \in I /\ \A i \in I : Min(I) <= i
<1> DEFINE S == {k \in Nat : \A J \in SUBSET Nat :
                   (\E x \in J : x <= k) => \E x \in J : \A y \in J : x <= y}
<1>1. 0 \in S
  OBVIOUS
<1>2. ASSUME NEW k \in Nat, k \in S
      PROVE  k + 1 \in S
  <2> SUFFICES ASSUME NEW J \in SUBSET Nat, NEW x \in J, x <= k + 1
               PROVE  \E z \in J : \A y \in J : z <= y
    OBVIOUS
  <2>1. CASE \E z \in J : z <= k
    BY <1>2, <2>1
  <2>2. CASE \A z \in J : ~(z <= k)
    <3>1. \A y \in J : x <= y
      BY <2>2
    <3> QED
      BY <3>1
  <2> QED
    BY <2>1, <2>2
<1>3. PICK k \in I : TRUE
  OBVIOUS
<1>4. k \in S
  <2> HIDE DEF S
  <2> QED
    BY <1>1, <1>2, <1>3, SetInduction
<1>5. \E x \in I : \A y \in I : x <= y
  <2>1. k \in I /\ k <= k
    BY <1>3
  <2> QED
    BY <1>4, <2>1
<1> QED
  BY <1>5 DEF Min

(***************************************************************************)
(* Whatever routes are dialled, the connection that results is the one of  *)
(* the first that works (dialWithFallback).                                *)
(***************************************************************************)
LEMMA FallbackRight ==
  ASSUME NEW T, NEW n, NEW paths \in Seq(Seq(T))
  PROVE  FirstThatWorks(n, paths, DialWithFallback(n, paths))
<1> DEFINE N == Len(paths)
           dialled == [i \in DOMAIN paths |-> DialThrough(n, paths[i])]
           good == SelectInSeq(dialled, LAMBDA d : d.ok)
           tried == IF good = 0 THEN dialled ELSE SubSeq(dialled, 1, good)
           opens == [i \in DOMAIN tried |-> tried[i].open]
           working == {i \in DOMAIN paths : Works(n, paths[i])}
           c == DialWithFallback(n, paths)
<1>0. N \in Nat /\ DOMAIN paths = 1..N /\ \A i \in 1..N : paths[i] \in Seq(T)
  BY LenProperties
<1>1. c.ok = (good # 0) /\ c.open = FlattenSeq(opens)
  BY DEF DialWithFallback
<1>2. \A i \in 1..N : dialled[i] = IF Works(n, paths[i]) THEN [ok |-> TRUE, open |-> paths[i]]
                                   ELSE [ok |-> FALSE, open |-> <<>>]
  BY <1>0, DialIs
<1>3. dialled \in Seq([ok : BOOLEAN, open : Seq(T)]) /\ Len(dialled) = N
  <2>1. \A i \in 1..N : dialled[i] \in [ok : BOOLEAN, open : Seq(T)]
    <3> HIDE DEF dialled
    <3>1. ASSUME NEW i \in 1..N
          PROVE  dialled[i] \in [ok : BOOLEAN, open : Seq(T)]
      <4>1. CASE Works(n, paths[i])
        <5>1. dialled[i] = [ok |-> TRUE, open |-> paths[i]]
          BY <1>2, <4>1
        <5> QED
          BY <1>0, <5>1
      <4>2. CASE ~Works(n, paths[i])
        <5>1. dialled[i] = [ok |-> FALSE, open |-> <<>>]
          BY <1>2, <4>2
        <5> QED
          BY <5>1, EmptySeq
      <4> QED
        BY <4>1, <4>2
    <3> QED
      BY <3>1
  <2>2. dialled \in [1..N -> [ok : BOOLEAN, open : Seq(T)]]
    BY <1>0, <2>1
  <2> HIDE DEF dialled, N
  <2> QED
    BY <1>0, <2>2, AsSeq
<1>4. good = IF working = {} THEN 0 ELSE Min(working)
  <2>1. {i \in 1..Len(dialled) : dialled[i].ok} = working
    <3> HIDE DEF dialled
    <3>1. \A i \in 1..N : dialled[i].ok <=> Works(n, paths[i])
      <4> TAKE i \in 1..N
      <4>1. CASE Works(n, paths[i])
        <5>1. dialled[i] = [ok |-> TRUE, open |-> paths[i]]
          BY <1>2, <4>1
        <5> QED
          BY <4>1, <5>1
      <4>2. CASE ~Works(n, paths[i])
        <5>1. dialled[i] = [ok |-> FALSE, open |-> <<>>]
          BY <1>2, <4>2
        <5> QED
          BY <4>2, <5>1
      <4> QED
        BY <4>1, <4>2
    <3> HIDE DEF N
    <3> QED
      BY <1>0, <1>3, <3>1
  <2> HIDE DEF dialled, working
  <2> QED
    BY <2>1 DEF SelectInSeq
<1>5. CASE working = {}
  <2>1. good = 0 /\ tried = dialled
    BY <1>4, <1>5
  <2>2. opens \in Seq(Seq(T)) /\ Len(opens) = N /\ \A i \in 1..N : opens[i] = <<>>
    <3>1. DOMAIN tried = 1..N /\ \A i \in 1..N : tried[i].open = <<>>
      <4> HIDE DEF dialled, tried
      <4>1. \A i \in 1..N : ~Works(n, paths[i])
        BY <1>0, <1>5
      <4>2. \A i \in 1..N : dialled[i] = [ok |-> FALSE, open |-> <<>>]
        BY <1>2, <4>1
      <4>3. DOMAIN dialled = 1..N
        BY <1>3, LenProperties
      <4> QED
        BY <2>1, <4>2, <4>3
    <3>2. opens = [i \in 1..N |-> <<>>]
      <4> HIDE DEF tried
      <4> QED
        BY <3>1
    <3>3. opens \in [1..N -> Seq(T)]
      <4> HIDE DEF opens
      <4> QED
        BY <3>2, EmptySeq
    <3> HIDE DEF opens, N
    <3> QED
      BY <1>0, <3>2, <3>3, AsSeq
  <2>3. FlattenSeq(opens) = <<>>
    <3> HIDE DEF opens
    <3>1. CASE opens = <<>>
      BY <3>1, FlattenEmpty
    <3>2. CASE opens # <<>>
      <4>1. N # 0 /\ \A i \in 1..(N - 1) : i \in 1..N
        BY <1>0, <2>2, <3>2, EmptySeq
      <4>2. FlattenSeq(opens) = opens[Len(opens)]
        BY <2>2, <3>2, <4>1, FlattenLast
      <4> HIDE DEF N
      <4> QED
        BY <1>0, <2>2, <4>1, <4>2
    <3> QED
      BY <3>1, <3>2
  <2>4. c.ok = FALSE /\ c.open = <<>>
    <3> HIDE DEF c, opens, good, working
    <3> QED
      BY <1>1, <2>1, <2>3
  <2>5. FirstThatWorks(n, paths, c)
    <3> HIDE DEF c
    <3> QED
      BY <1>5, <2>4 DEF FirstThatWorks
  <2> QED
    BY <2>5 DEF c
<1>6. CASE working # {}
  <2> DEFINE g == Min(working)
  <2>1. g \in working /\ \A i \in working : g <= i
    <3>1. working \in SUBSET Nat
      BY <1>0
    <3> HIDE DEF working
    <3> QED
      BY <1>6, <3>1, MinIn
  <2>2. g \in 1..N /\ Works(n, paths[g]) /\ \A i \in 1..(g - 1) : i \in 1..N /\ ~Works(n, paths[i])
    <3> HIDE DEF g
    <3>1. g \in 1..N /\ Works(n, paths[g])
      BY <1>0, <2>1
    <3>2. ASSUME NEW i \in 1..(g - 1)
          PROVE  i \in 1..N /\ ~Works(n, paths[i])
      <4>1. i \in 1..N /\ ~(g <= i)
        BY <1>0, <3>1
      <4> QED
        BY <1>0, <2>1, <4>1
    <3> QED
      BY <3>1, <3>2
  <2>3. good = g /\ g # 0 /\ tried = SubSeq(dialled, 1, g)
    <3> HIDE DEF g, good, dialled
    <3>1. good = g
      BY <1>4, <1>6 DEF g
    <3> QED
      BY <1>0, <2>2, <3>1
  <2>4. /\ tried \in Seq([ok : BOOLEAN, open : Seq(T)]) /\ Len(tried) = g
        /\ \A i \in 1..g : tried[i] = dialled[i]
    <3> HIDE DEF dialled, g, tried, N
    <3>1. \A i \in 1..g : dialled[i] \in [ok : BOOLEAN, open : Seq(T)]
      <4>1. \A i \in 1..N : dialled[i] \in [ok : BOOLEAN, open : Seq(T)]
        BY <1>3, ElementOfSeq
      <4> QED
        BY <1>0, <2>2, <4>1
    <3>2. /\ SubSeq(dialled, 1, g) \in Seq([ok : BOOLEAN, open : Seq(T)])
          /\ Len(SubSeq(dialled, 1, g)) = IF 1 <= g THEN g - 1 + 1 ELSE 0
          /\ \A i \in 1..(g - 1 + 1) : SubSeq(dialled, 1, g)[i] = dialled[1 + i - 1]
      BY <1>0, <2>2, <3>1, SubSeqProperties
    <3> QED
      BY <1>0, <2>2, <2>3, <3>2
  <2>5. /\ opens \in Seq(Seq(T)) /\ Len(opens) = g
        /\ opens[g] = paths[g] /\ \A i \in 1..(g - 1) : opens[i] = <<>>
    <3> HIDE DEF dialled, g, tried, N
    <3>1. DOMAIN tried = 1..g
      BY <2>4, LenProperties
    <3>2. \A i \in 1..g : opens[i] = dialled[i].open
      BY <2>4, <3>1
    <3>3. dialled[g].open = paths[g] /\ \A i \in 1..(g - 1) : dialled[i].open = <<>>
      <4>1. dialled[g] = [ok |-> TRUE, open |-> paths[g]]
        BY <1>2, <2>2
      <4>2. \A i \in 1..(g - 1) : dialled[i] = [ok |-> FALSE, open |-> <<>>]
        BY <1>2, <2>2
      <4> QED
        BY <4>1, <4>2
    <3>4. g \in Nat /\ g \in 1..g /\ \A i \in 1..(g - 1) : i \in 1..g
      BY <1>0, <2>2
    <3>5. opens[g] = paths[g] /\ \A i \in 1..(g - 1) : opens[i] = <<>>
      <4> HIDE DEF opens
      <4> QED
        BY <3>2, <3>3, <3>4
    <3>6. opens \in [1..g -> Seq(T)]
      <4>1. \A i \in 1..g : tried[i].open \in Seq(T)
        <5>1. \A i \in 1..g : tried[i] \in [ok : BOOLEAN, open : Seq(T)]
          BY <2>4, ElementOfSeq
        <5> QED
          BY <5>1
      <4> QED
        BY <3>1, <4>1
    <3> HIDE DEF opens
    <3> QED
      BY <3>4, <3>5, <3>6, AsSeq
  <2>6. FlattenSeq(opens) = paths[g]
    <3> HIDE DEF opens, g, dialled
    <3>1. opens # <<>>
      BY <2>2, <2>5, EmptySeq
    <3>2. FlattenSeq(opens) = opens[Len(opens)]
      BY <2>5, <3>1, FlattenLast
    <3> QED
      BY <2>5, <3>2
  <2>7. g = CHOOSE i \in working : \A j \in working : i <= j
    BY DEF Min
  <2>8. c.ok = TRUE /\ c.open = paths[g]
    <3> HIDE DEF c, opens, good, g, working
    <3> QED
      BY <1>1, <2>3, <2>6
  <2>9. FirstThatWorks(n, paths, c)
    <3> HIDE DEF c
    <3> QED
      BY <1>6, <2>7, <2>8 DEF FirstThatWorks
  <2> QED
    BY <2>9 DEF c
<1> HIDE DEF c
<1> QED
  BY <1>5, <1>6 DEF c

(***************************************************************************)
(* Part 9: where the elements of a concatenation come from.                *)
(***************************************************************************)
\* out holds the first k sequences of seqs one after another: its place p is place o[p] of b[p].
Placing(seqs, k, out, b, o) ==
  /\ \A p \in 1..Len(out) : /\ b[p] \in 1..k /\ o[p] \in 1..Len(seqs[b[p]])
                            /\ out[p] = seqs[b[p]][o[p]]
  /\ \A p, q \in 1..Len(out) : p < q => b[p] < b[q] \/ (b[p] = b[q] /\ o[p] < o[q])
  /\ \A i \in 1..k : \A j \in 1..Len(seqs[i]) :
       \E p \in 1..Len(out) : p >= j /\ b[p] = i /\ o[p] = j

InTurn(seqs, k, out) == \E b, o : Placing(seqs, k, out, b, o)

LEMMA OneMore ==
  ASSUME NEW T, NEW seqs \in Seq(Seq(T)), NEW k \in Nat, k + 1 \in 1..Len(seqs),
         NEW out \in Seq(T), InTurn(seqs, k, out)
  PROVE  InTurn(seqs, k + 1, out \o seqs[k + 1])
<1> DEFINE t == seqs[k + 1]
           all == out \o t
           m == Len(out)
<1>1. PICK b, o : Placing(seqs, k, out, b, o)
  BY DEF InTurn
<1> DEFINE b2 == [p \in 1..Len(all) |-> IF p <= m THEN b[p] ELSE k + 1]
           o2 == [p \in 1..Len(all) |-> IF p <= m THEN o[p] ELSE p - m]
<1>2. t \in Seq(T) /\ m \in Nat /\ Len(t) \in Nat
  BY ElementOfSeq, LenProperties
<1>3. /\ Len(all) = m + Len(t)
      /\ \A p \in 1..Len(all) : all[p] = IF p <= m THEN out[p] ELSE t[p - m]
  <2> HIDE DEF t
  <2> QED
    BY <1>2, ConcatProperties
<1>4. /\ \A p \in 1..Len(all) : p <= m => b2[p] = b[p] /\ o2[p] = o[p] /\ p \in 1..m
      /\ \A p \in 1..Len(all) : ~(p <= m) => b2[p] = k + 1 /\ o2[p] = p - m /\ p - m \in 1..Len(t)
  <2> HIDE DEF all, t, m
  <2> QED
    BY <1>2, <1>3
<1> HIDE DEF all, m, b2, o2
<1>5. ASSUME NEW p \in 1..Len(all)
      PROVE  b2[p] \in 1..(k + 1) /\ o2[p] \in 1..Len(seqs[b2[p]]) /\ all[p] = seqs[b2[p]][o2[p]]
  <2>1. CASE p <= m
    <3>1. b[p] \in 1..k /\ o[p] \in 1..Len(seqs[b[p]]) /\ out[p] = seqs[b[p]][o[p]]
      BY <1>1, <1>4, <2>1 DEF Placing, m
    <3>2. b2[p] = b[p] /\ o2[p] = o[p] /\ all[p] = out[p]
      BY <1>3, <1>4, <2>1
    <3> QED
      BY <3>1, <3>2
  <2>2. CASE ~(p <= m)
    <3>1. b2[p] = k + 1 /\ o2[p] = p - m /\ p - m \in 1..Len(t) /\ all[p] = t[p - m]
      BY <1>3, <1>4, <2>2
    <3> QED
      BY <3>1
  <2> QED
    BY <2>1, <2>2
<1>6. ASSUME NEW p \in 1..Len(all), NEW q \in 1..Len(all), p < q
      PROVE  b2[p] < b2[q] \/ (b2[p] = b2[q] /\ o2[p] < o2[q])
  <2>1. CASE q <= m
    <3>1. p <= m
      BY <1>2, <1>3, <1>6, <2>1
    <3> QED
      BY <1>1, <1>4, <1>6, <2>1, <3>1 DEF Placing, m
  <2>2. CASE ~(q <= m) /\ p <= m
    <3>1. b2[p] \in 1..k /\ b2[q] = k + 1
      BY <1>1, <1>4, <2>2 DEF Placing, m
    <3> QED
      BY <3>1
  <2>3. CASE ~(q <= m) /\ ~(p <= m)
    <3>1. b2[p] = k + 1 /\ b2[q] = k + 1 /\ o2[p] = p - m /\ o2[q] = q - m
      BY <1>4, <2>3
    <3> QED
      BY <1>2, <1>3, <1>6, <3>1
  <2> QED
    BY <2>1, <2>2, <2>3
<1>7. ASSUME NEW i \in 1..(k + 1), NEW j \in 1..Len(seqs[i])
      PROVE  \E p \in 1..Len(all) : p >= j /\ b2[p] = i /\ o2[p] = j
  <2>1. CASE i = k + 1
    <3>1. j + m \in 1..Len(all) /\ ~(j + m <= m) /\ j + m >= j /\ (j + m) - m = j
      BY <1>2, <1>3, <2>1
    <3> QED
      BY <1>4, <2>1, <3>1
  <2>2. CASE i # k + 1
    <3>1. i \in 1..k
      BY <2>2
    <3>2. PICK p \in 1..m : p >= j /\ b[p] = i /\ o[p] = j
      BY <1>1, <3>1 DEF Placing, m
    <3>3. p \in 1..Len(all) /\ p <= m
      BY <1>2, <1>3, <3>2
    <3> QED
      BY <1>4, <3>2, <3>3
  <2> QED
    BY <2>1, <2>2
<1>8. Placing(seqs, k + 1, all, b2, o2)
  BY <1>5, <1>6, <1>7 DEF Placing
<1>9. InTurn(seqs, k + 1, all)
  BY <1>8 DEF InTurn
<1> QED
  BY <1>9 DEF all

LEMMA Concatenated ==
  ASSUME NEW T, NEW seqs \in Seq(Seq(T))
  PROVE  FlattenSeq(seqs) \in Seq(T) /\ InTurn(seqs, Len(seqs), FlattenSeq(seqs))
<1> DEFINE n == Len(seqs)
<1>0. InTurn(seqs, 0, <<>>) /\ <<>> \in Seq(T)
  <2>1. Placing(seqs, 0, <<>>, <<>>, <<>>)
    BY EmptySeq DEF Placing
  <2> QED
    BY <2>1, EmptySeq DEF InTurn
<1>1. CASE seqs = <<>>
  BY <1>0, <1>1, FlattenEmpty, EmptySeq
<1>2. CASE seqs # <<>>
  <2>1. PICK f : Joined(seqs, n, f) /\ FlattenSeq(seqs) = f[n]
    BY <1>2, FlattenIs
  <2>2. n \in Nat /\ n # 0 /\ \A i \in 1..n : seqs[i] \in Seq(T)
    BY <1>2, EmptySeq, LenProperties
  <2>3. \A i \in 1..n : f[i] = IF i = 1 THEN seqs[i] ELSE f[i - 1] \o seqs[i]
    <3> HIDE DEF n
    <3> QED
      BY <2>1 DEF Joined
  <2> DEFINE Good(k) == f[k] \in Seq(T) /\ InTurn(seqs, k, f[k])
             S == {k \in Nat : k + 1 \in 1..n => Good(k + 1)}
  <2>4. 0 \in S
    <3>1. 1 \in 1..n /\ f[1] = seqs[1]
      BY <2>2, <2>3
    <3>2. InTurn(seqs, 1, <<>> \o seqs[1])
      <4>1. ASSUME NEW k \in Nat, k = 0
            PROVE  InTurn(seqs, k + 1, <<>> \o seqs[k + 1])
        <5>1. k + 1 \in 1..Len(seqs)
          BY <2>2, <4>1
        <5>2. InTurn(seqs, k, <<>>)
          BY <1>0, <4>1
        <5> QED
          BY <1>0, <5>1, <5>2, OneMore
      <4> QED
        BY <4>1, 0 + 1 = 1
    <3>3. <<>> \o seqs[1] = seqs[1]
      BY <2>2, <3>1, ConcatEmptySeq
    <3>4. Good(1)
      BY <2>2, <3>1, <3>2, <3>3
    <3> HIDE DEF Good
    <3> QED
      BY <3>4
  <2>5. ASSUME NEW k \in Nat, k \in S
        PROVE  k + 1 \in S
    <3> SUFFICES ASSUME k + 2 \in 1..n
                 PROVE  Good(k + 2)
      OBVIOUS
    <3>1. k + 1 \in 1..n /\ k + 2 # 1 /\ (k + 2) - 1 = k + 1 /\ (k + 1) + 1 = k + 2
      BY <2>2
    <3>2. Good(k + 1)
      <4> HIDE DEF Good
      <4> QED
        BY <2>5, <3>1
    <3>3. f[k + 2] = f[k + 1] \o seqs[k + 2]
      BY <2>3, <3>1
    <3>4. f[k + 2] \in Seq(T)
      BY <2>2, <3>2, <3>3, ConcatProperties
    <3>5. InTurn(seqs, (k + 1) + 1, f[k + 1] \o seqs[(k + 1) + 1])
      BY <3>1, <3>2, OneMore
    <3> QED
      BY <3>1, <3>3, <3>4, <3>5
  <2>6. n - 1 \in S
    <3>1. n - 1 \in Nat
      BY <2>2
    <3> HIDE DEF S
    <3> QED
      BY <2>4, <2>5, <3>1, SetInduction
  <2>7. Good(n)
    <3>1. (n - 1) + 1 = n /\ n \in 1..n
      BY <2>2
    <3> HIDE DEF Good
    <3> QED
      BY <2>6, <3>1
  <2> QED
    BY <2>1, <2>7
<1> QED
  BY <1>1, <1>2

(***************************************************************************)
(* Part 10: routes, one host after another.                                *)
(***************************************************************************)
\* r is a route to h that has left hosts before h at most, none of them in seen.
Simple(n, left, h, seen, r) ==
  /\ r \in Seq(Hosts) /\ Len(r) \in 1..(left + 1)
  /\ r[Len(r)] = h
  /\ \A i, j \in 1..Len(r) : r[i] = r[j] => i = j
  /\ JumpCandidates(n, r[1]) = <<>>
  /\ \A i \in 2..Len(r) : r[i - 1] \in ToSet(JumpCandidates(n, r[i]))
  /\ \A i \in 1..(Len(r) - 1) : r[i] \notin seen

LEMMA Appended ==
  ASSUME NEW T, NEW s \in Seq(T), NEW x \in T
  PROVE  /\ Append(s, x) \in Seq(T) /\ Len(Append(s, x)) = Len(s) + 1
         /\ \A i \in 1..Len(s) : Append(s, x)[i] = s[i]
         /\ Append(s, x)[Len(s) + 1] = x
  OBVIOUS

LEMMA ExtendRoute ==
  ASSUME NEW n, NEW left \in Nat, NEW h \in Hosts, NEW seen, h \in seen,
         NEW id \in Hosts, id \in ToSet(JumpCandidates(n, h)), id \notin seen,
         NEW s, Simple(n, left, id, seen \cup {id}, s)
  PROVE  Simple(n, left + 1, h, seen, Append(s, h))
<1> DEFINE r == Append(s, h)
           m == Len(s)
<1>1. s \in Seq(Hosts) /\ m \in Nat /\ m \in 1..(left + 1)
  BY LenProperties DEF Simple
<1>2. /\ r \in Seq(Hosts) /\ Len(r) = m + 1
      /\ \A i \in 1..m : r[i] = s[i]
      /\ r[m + 1] = h
  BY <1>1, Appended
<1>3. \A i \in 1..m : s[i] \notin seen
  <2>1. s[m] = id /\ \A i \in 1..(m - 1) : s[i] \notin seen \cup {id}
    BY DEF Simple
  <2> HIDE DEF m
  <2>2. \A i \in 1..m : i = m \/ i \in 1..(m - 1)
    BY <1>1
  <2> QED
    BY <2>1, <2>2
<1> HIDE DEF r
<1>4. \A i, j \in 1..(m + 1) : r[i] = r[j] => i = j
  <2>1. \A i, j \in 1..m : s[i] = s[j] => i = j
    BY DEF Simple
  <2>2. \A i \in 1..(m + 1) : i = m + 1 \/ i \in 1..m
    BY <1>1
  <2> HIDE DEF m
  <2> QED
    BY <1>2, <1>3, <2>1, <2>2
<1>5. JumpCandidates(n, r[1]) = <<>>
  <2>1. r[1] = s[1]
    BY <1>1, <1>2
  <2> QED
    BY <2>1 DEF Simple
<1>6. ASSUME NEW i \in 2..(m + 1)
      PROVE  r[i - 1] \in ToSet(JumpCandidates(n, r[i]))
  <2>1. CASE i = m + 1
    <3>1. r[i] = h /\ r[i - 1] = s[m] /\ s[m] = id
      <4>1. i - 1 = m /\ m \in 1..m
        BY <1>1, <2>1
      <4> QED
        BY <1>2, <2>1, <4>1 DEF Simple
    <3> QED
      BY <3>1
  <2>2. CASE i # m + 1
    <3>1. i \in 2..m /\ i \in 1..m /\ i - 1 \in 1..m
      BY <1>1, <2>2
    <3>2. s[i - 1] \in ToSet(JumpCandidates(n, s[i]))
      BY <3>1 DEF Simple
    <3> QED
      BY <1>2, <3>1, <3>2
  <2> QED
    BY <2>1, <2>2
<1>7. \A i \in 1..((m + 1) - 1) : r[i] \notin seen
  BY <1>1, <1>2, <1>3
<1>8. m + 1 \in 1..((left + 1) + 1)
  BY <1>1
<1>9. Simple(n, left + 1, h, seen, r)
  <2> HIDE DEF m
  <2> QED
    BY <1>2, <1>4, <1>5, <1>6, <1>7, <1>8 DEF Simple
<1> QED
  BY <1>9 DEF r

\* r leads on from a route to a jump host of h.
Splits(n, left, h, seen, r) ==
  \E id \in Hosts, s \in Seq(Hosts) :
    /\ id \in ToSet(JumpCandidates(n, h)) /\ id \notin seen
    /\ Simple(n, left, id, seen \cup {id}, s)
    /\ r = Append(s, h)

LEMMA SplitRoute ==
  ASSUME NEW n, NEW left \in Nat, NEW h \in Hosts, NEW seen, h \in seen,
         JumpCandidates(n, h) # <<>>,
         NEW r, Simple(n, left + 1, h, seen, r)
  PROVE  Splits(n, left, h, seen, r)
<1> DEFINE m == Len(r) - 1
           s == SubSeq(r, 1, m)
<1>1. r \in Seq(Hosts) /\ Len(r) = m + 1 /\ m \in Nat /\ Len(r) \in Nat /\ m + 1 \in 1..(left + 2) /\ r[m + 1] = h
  <2>1. r \in Seq(Hosts) /\ Len(r) \in 1..((left + 1) + 1) /\ r[Len(r)] = h
    BY DEF Simple
  <2>2. Len(r) = m + 1 /\ m \in Nat
    BY <2>1
  <2> HIDE DEF m
  <2> QED
    BY <2>1, <2>2
<1>2. m # 0
  <2> SUFFICES ASSUME m = 0
               PROVE  FALSE
    OBVIOUS
  <2>1. r[1] = h
    BY <1>1
  <2> QED
    BY <2>1 DEF Simple
<1>3. s \in Seq(Hosts) /\ Len(s) = m /\ \A i \in 1..m : s[i] = r[i]
  <2> HIDE DEF m
  <2>1. \A i \in 1..m : r[i] \in Hosts
    <3>1. \A i \in 1..(m + 1) : r[i] \in Hosts
      BY <1>1, ElementOfSeq
    <3> QED
      BY <1>1, <3>1
  <2>2. /\ SubSeq(r, 1, m) \in Seq(Hosts)
        /\ Len(SubSeq(r, 1, m)) = IF 1 <= m THEN m - 1 + 1 ELSE 0
        /\ \A i \in 1..(m - 1 + 1) : SubSeq(r, 1, m)[i] = r[1 + i - 1]
    BY <1>1, <2>1, SubSeqProperties
  <2> QED
    BY <1>1, <1>2, <2>2
<1>4. r = Append(s, h)
  <2> HIDE DEF m, s
  <2>1. /\ Append(s, h) \in Seq(Hosts) /\ Len(Append(s, h)) = m + 1
        /\ \A i \in 1..m : Append(s, h)[i] = s[i]
        /\ Append(s, h)[m + 1] = h
    BY <1>3, Appended
  <2>2. \A i \in 1..(m + 1) : i = m + 1 \/ i \in 1..m
    BY <1>1
  <2>3. \A i \in 1..Len(r) : r[i] = Append(s, h)[i]
    BY <1>1, <1>3, <2>1, <2>2
  <2> QED
    BY <1>1, <2>1, <2>3, SeqEqual
<1> DEFINE id == r[m]
<1>5. id \in Hosts /\ id \in ToSet(JumpCandidates(n, h)) /\ id \notin seen
  <2> HIDE DEF m
  <2>1. m \in 1..Len(r) /\ m \in 1..(Len(r) - 1) /\ m + 1 \in 2..Len(r) /\ (m + 1) - 1 = m
    BY <1>1, <1>2
  <2>2. id \in Hosts
    BY <1>1, <2>1, ElementOfSeq
  <2>3. \A i \in 2..Len(r) : r[i - 1] \in ToSet(JumpCandidates(n, r[i]))
    BY DEF Simple
  <2>4. r[m] \in ToSet(JumpCandidates(n, r[m + 1]))
    BY <2>1, <2>3
  <2>5. r[m] \notin seen
    BY <2>1 DEF Simple
  <2> QED
    BY <1>1, <2>2, <2>4, <2>5
<1> HIDE DEF s
<1>6. Simple(n, left, id, seen \cup {id}, s)
  <2>1. /\ \A i, j \in 1..(m + 1) : r[i] = r[j] => i = j
        /\ JumpCandidates(n, r[1]) = <<>>
        /\ \A i \in 2..(m + 1) : r[i - 1] \in ToSet(JumpCandidates(n, r[i]))
        /\ \A i \in 1..((m + 1) - 1) : r[i] \notin seen
    BY <1>1 DEF Simple
  <2> HIDE DEF m
  <2>2. Len(s) \in 1..(left + 1) /\ s[Len(s)] = id
    BY <1>1, <1>2, <1>3
  <2>3. \A i, j \in 1..m : s[i] = s[j] => i = j
    BY <1>1, <1>3, <2>1
  <2>4. JumpCandidates(n, s[1]) = <<>>
    BY <1>1, <1>2, <1>3, <2>1
  <2>5. ASSUME NEW i \in 2..m
        PROVE  s[i - 1] \in ToSet(JumpCandidates(n, s[i]))
    <3>1. i \in 2..(m + 1) /\ i \in 1..m /\ i - 1 \in 1..m
      BY <1>1
    <3> QED
      BY <1>3, <2>1, <3>1
  <2>6. ASSUME NEW i \in 1..(m - 1)
        PROVE  s[i] \notin seen \cup {id}
    <3>1. i \in 1..m /\ i \in 1..((m + 1) - 1) /\ i \in 1..(m + 1) /\ m \in 1..(m + 1) /\ i # m
      BY <1>1, <1>2
    <3> QED
      BY <1>3, <2>1, <3>1
  <2> QED
    BY <1>3, <2>2, <2>3, <2>4, <2>5, <2>6 DEF Simple
<1> HIDE DEF id
<1> QED
  BY <1>3, <1>4, <1>5, <1>6 DEF Splits

LEMMA DirectRoute ==
  ASSUME NEW n, NEW left \in Nat, NEW h \in Hosts, NEW seen, JumpCandidates(n, h) = <<>>
  PROVE  /\ Simple(n, left, h, seen, <<h>>)
         /\ \A r : Simple(n, left, h, seen, r) => r = <<h>>
<1>1. Simple(n, left, h, seen, <<h>>)
  BY DEF Simple
<1>2. ASSUME NEW r, Simple(n, left, h, seen, r)
      PROVE  r = <<h>>
  <2>1. r \in Seq(Hosts) /\ Len(r) \in 1..(left + 1) /\ Len(r) \in Nat /\ r[Len(r)] = h
    BY <1>2 DEF Simple
  <2>2. Len(r) = 1
    <3> SUFFICES ASSUME Len(r) # 1
                 PROVE  FALSE
      OBVIOUS
    <3>1. Len(r) \in 2..Len(r)
      <4>1. \A m \in Nat : m \in 1..(left + 1) /\ m # 1 => m \in 2..m
        OBVIOUS
      <4> QED
        BY <2>1, <4>1
    <3>2. r[Len(r) - 1] \in ToSet(JumpCandidates(n, h))
      BY <1>2, <2>1, <3>1 DEF Simple
    <3>3. ToSet(<<>>) = {}
      BY DEF ToSet
    <3> QED
      BY <3>2, <3>3
  <2> QED
    BY <2>1, <2>2
<1> QED
  BY <1>1, <1>2

LEMMA NoRoute ==
  ASSUME NEW n, NEW h, NEW seen, JumpCandidates(n, h) # <<>>, NEW r
  PROVE  ~Simple(n, 0, h, seen, r)
<1> SUFFICES ASSUME Simple(n, 0, h, seen, r)
             PROVE  FALSE
  OBVIOUS
<1>1. Len(r) = 1 /\ r[Len(r)] = h /\ JumpCandidates(n, r[1]) = <<>>
  BY DEF Simple
<1> QED
  BY <1>1

LEMMA ChoiceIs ==
  ASSUME NEW n \in Networks, NEW h \in Hosts, NEW i \in 1..Len(JumpCandidates(n, h))
  PROVE  Choice(n, h, JumpCandidates(n, h)[i]) = i
<1> DEFINE c == JumpCandidates(n, h)
           I(x) == {j \in 1..Len(c) : c[j] = x}
<1>1. c \in Seq(Range(c)) /\ IsInjective(c)
  BY RulesAssumption
<1>2. DOMAIN c = 1..Len(c) /\ Len(c) \in Nat
  <2> HIDE DEF c
  <2> QED
    BY <1>1, LenProperties
<1>3. \A j, k \in 1..Len(c) : c[j] = c[k] => j = k
  <2> HIDE DEF c
  <2> QED
    BY <1>1, <1>2 DEF IsInjective
<1>4. \A x : Choice(n, h, x) = IF I(x) # {} THEN Min(I(x)) ELSE 0
  BY DEF Choice, SelectInSeq
<1>5. I(c[i]) = {i}
  <2> HIDE DEF c
  <2> QED
    BY <1>3 DEF c
<1>6. Min({i}) = i
  BY DEF Min
<1>7. Choice(n, h, c[i]) = i
  <2> HIDE DEF I, c
  <2> QED
    BY <1>4, <1>5, <1>6
<1> QED
  BY <1>7

LEMMA PrefersDeeper ==
  ASSUME NEW n, NEW h \in Hosts, NEW r \in Seq(Hosts), NEW s \in Seq(Hosts),
         Len(r) < MaxHops, Prefers(n, r, s)
  PROVE  Prefers(n, Append(r, h), Append(s, h))
<1> DEFINE u == Append(r, h)
           v == Append(s, h)
<1>1. PICK k \in 0..(MaxHops - 1) :
        /\ k < Len(r) - 1 /\ k < Len(s) - 1
        /\ \A j \in 0..k : r[Len(r) - j] = s[Len(s) - j]
        /\ Choice(n, r[Len(r) - k], r[Len(r) - k - 1]) < Choice(n, s[Len(s) - k], s[Len(s) - k - 1])
  BY DEF Prefers
<1>2. /\ Len(u) = Len(r) + 1 /\ Len(r) \in Nat /\ u[Len(r) + 1] = h
      /\ \A i \in 1..Len(r) : u[i] = r[i]
      /\ Len(v) = Len(s) + 1 /\ Len(s) \in Nat /\ v[Len(s) + 1] = h
      /\ \A i \in 1..Len(s) : v[i] = s[i]
  BY Appended, LenProperties
<1> HIDE DEF u, v
<1>3. MaxHops \in Nat
  BY JumpAssumption
<1>4. k + 1 \in 0..(MaxHops - 1) /\ k + 1 < Len(u) - 1 /\ k + 1 < Len(v) - 1
  BY <1>1, <1>2, <1>3
<1>5. ASSUME NEW j \in 0..(k + 1)
      PROVE  u[Len(u) - j] = v[Len(v) - j]
  <2>1. CASE j = 0
    BY <1>2, <2>1
  <2>2. CASE j # 0
    <3>1. j - 1 \in 0..k /\ Len(u) - j = Len(r) - (j - 1) /\ Len(v) - j = Len(s) - (j - 1)
      BY <1>1, <1>2, <2>2
    <3>2. Len(r) - (j - 1) \in 1..Len(r) /\ Len(s) - (j - 1) \in 1..Len(s)
      BY <1>1, <1>2, <3>1
    <3> QED
      BY <1>1, <1>2, <3>1, <3>2
  <2> QED
    BY <2>1, <2>2
<1>6. Choice(n, u[Len(u) - (k + 1)], u[Len(u) - (k + 1) - 1]) < Choice(n, v[Len(v) - (k + 1)], v[Len(v) - (k + 1) - 1])
  <2>1. /\ Len(u) - (k + 1) = Len(r) - k /\ Len(u) - (k + 1) - 1 = Len(r) - k - 1
        /\ Len(v) - (k + 1) = Len(s) - k /\ Len(v) - (k + 1) - 1 = Len(s) - k - 1
    BY <1>1, <1>2, <1>3
  <2>2. /\ Len(r) - k \in 1..Len(r) /\ Len(r) - k - 1 \in 1..Len(r)
        /\ Len(s) - k \in 1..Len(s) /\ Len(s) - k - 1 \in 1..Len(s)
    <3>1. k \in Nat /\ k < Len(r) - 1 /\ k < Len(s) - 1 /\ Len(r) \in Nat /\ Len(s) \in Nat
      BY <1>1, <1>2, <1>3
    <3> QED
      BY <3>1
  <2> QED
    BY <1>1, <1>2, <2>1, <2>2
<1>7. Prefers(n, u, v)
  BY <1>4, <1>5, <1>6 DEF Prefers
<1> QED
  BY <1>7 DEF u, v

LEMMA PrefersHere ==
  ASSUME NEW n, NEW h \in Hosts, NEW r \in Seq(Hosts), NEW s \in Seq(Hosts),
         Len(r) # 0, Len(s) # 0, Choice(n, h, r[Len(r)]) < Choice(n, h, s[Len(s)])
  PROVE  Prefers(n, Append(r, h), Append(s, h))
<1> DEFINE u == Append(r, h)
           v == Append(s, h)
<1>1. /\ Len(u) = Len(r) + 1 /\ Len(r) \in Nat /\ u[Len(r) + 1] = h
      /\ \A i \in 1..Len(r) : u[i] = r[i]
      /\ Len(v) = Len(s) + 1 /\ Len(s) \in Nat /\ v[Len(s) + 1] = h
      /\ \A i \in 1..Len(s) : v[i] = s[i]
  BY Appended, LenProperties
<1> HIDE DEF u, v
<1>2. /\ 0 \in 0..(MaxHops - 1) /\ 0 < Len(u) - 1 /\ 0 < Len(v) - 1
      /\ \A j \in 0..0 : j = 0
  BY <1>1, JumpAssumption
<1>3. u[Len(u) - 0] = h /\ v[Len(v) - 0] = h
  BY <1>1
<1>4. u[Len(u) - 0 - 1] = r[Len(r)] /\ v[Len(v) - 0 - 1] = s[Len(s)]
  BY <1>1
<1>5. Prefers(n, u, v)
  BY <1>2, <1>3, <1>4 DEF Prefers
<1> QED
  BY <1>5 DEF u, v

(***************************************************************************)
(* Part 11: the best routes, one host after another.                       *)
(***************************************************************************)
\* paths are the best of the routes to h that have left hosts before h at most, none of them in seen.
BestOf(n, left, h, seen, paths) ==
  /\ paths \in Seq(Seq(Hosts)) /\ Len(paths) <= MaxPaths
  /\ \A i \in 1..Len(paths) : Simple(n, left, h, seen, paths[i])
  /\ \A i, j \in 1..Len(paths) : i < j => Prefers(n, paths[i], paths[j])
  /\ \A r : Simple(n, left, h, seen, r) =>
       \/ \E i \in 1..Len(paths) : paths[i] = r
       \/ Len(paths) = MaxPaths /\ \A i \in 1..Len(paths) : Prefers(n, paths[i], r)

LEMMA BestDirect ==
  ASSUME NEW n, NEW left \in Nat, NEW h \in Hosts, NEW seen, JumpCandidates(n, h) = <<>>
  PROVE  BestOf(n, left, h, seen, << <<h>> >>)
<1> DEFINE paths == << <<h>> >>
<1>1. paths \in Seq(Seq(Hosts)) /\ Len(paths) = 1 /\ paths[1] = <<h>>
  OBVIOUS
<1> HIDE DEF paths
<1>2. 1 <= MaxPaths
  BY JumpAssumption
<1>3. \A i \in 1..1 : i = 1
  OBVIOUS
<1>4. BestOf(n, left, h, seen, paths)
  BY <1>1, <1>2, <1>3, DirectRoute DEF BestOf
<1> QED
  BY <1>4 DEF paths

LEMMA BestNone ==
  ASSUME NEW n, NEW h, NEW seen, JumpCandidates(n, h) # <<>>
  PROVE  BestOf(n, 0, h, seen, <<>>)
<1>1. <<>> \in Seq(Seq(Hosts)) /\ Len(<<>>) = 0
  BY EmptySeq
<1>2. 0 <= MaxPaths
  BY JumpAssumption
<1> QED
  BY <1>1, <1>2, NoRoute DEF BestOf

\* The routes through candidate i of h, before h is appended.
SubPaths(n, less, h, seen, i) ==
  LET id == JumpCandidates(n, h)[i]
  IN IF id \in seen \/ id \notin Hosts THEN <<>> ELSE less[id][seen \cup {id}]

Usable(n, h, seen, i) ==
  JumpCandidates(n, h)[i] \in Hosts /\ JumpCandidates(n, h)[i] \notin seen

\* s leads to candidate i of h.
Leads(n, left, h, seen, i, s) ==
  /\ Usable(n, h, seen, i)
  /\ Simple(n, left, JumpCandidates(n, h)[i], seen \cup {JumpCandidates(n, h)[i]}, s)

\* less holds the best routes that have left hosts before their target at most.
BestBelow(n, left, less) ==
  \A h \in Hosts : \A seen \in SUBSET Hosts : h \in seen => BestOf(n, left, h, seen, less[h][seen])

LEMMA SubBest ==
  ASSUME NEW n \in Networks, NEW left \in Nat, NEW less, BestBelow(n, left, less),
         NEW h \in Hosts, NEW seen \in SUBSET Hosts, NEW i, Usable(n, h, seen, i)
  PROVE  BestOf(n, left, JumpCandidates(n, h)[i], seen \cup {JumpCandidates(n, h)[i]},
                SubPaths(n, less, h, seen, i))
<1> DEFINE id == JumpCandidates(n, h)[i]
<1>1. id \in Hosts /\ seen \cup {id} \in SUBSET Hosts /\ id \in seen \cup {id}
  BY DEF Usable
<1>2. SubPaths(n, less, h, seen, i) = less[id][seen \cup {id}]
  BY DEF SubPaths, Usable
<1> QED
  BY <1>1, <1>2 DEF BestBelow

\* What is led through candidate i extends to a route to h.
LEMMA LedOn ==
  ASSUME NEW n \in Networks, NEW left \in Nat, NEW h \in Hosts, NEW seen \in SUBSET Hosts, h \in seen,
         NEW i \in 1..Len(JumpCandidates(n, h)), NEW s, Leads(n, left, h, seen, i, s)
  PROVE  Simple(n, left + 1, h, seen, Append(s, h))
<1> DEFINE c == JumpCandidates(n, h)
<1>1. c \in Seq(Range(c))
  BY RulesAssumption
<1>2. DOMAIN c = 1..Len(c)
  <2> HIDE DEF c
  <2> QED
    BY <1>1, LenProperties
<1>3. c[i] \in ToSet(c)
  <2> HIDE DEF c
  <2>1. i \in DOMAIN c
    BY <1>2 DEF c
  <2> QED
    BY <2>1 DEF ToSet
<1>4. c[i] \in Hosts /\ c[i] \notin seen /\ Simple(n, left, c[i], seen \cup {c[i]}, s)
  BY DEF Leads, Usable
<1> QED
  BY <1>3, <1>4, ExtendRoute

\* Every route to h is led through a candidate of h.
LEMMA LedThere ==
  ASSUME NEW n \in Networks, NEW left \in Nat, NEW h \in Hosts, NEW seen \in SUBSET Hosts, h \in seen,
         JumpCandidates(n, h) # <<>>, NEW r, Simple(n, left + 1, h, seen, r)
  PROVE  \E i \in 1..Len(JumpCandidates(n, h)) : \E s \in Seq(Hosts) :
           Leads(n, left, h, seen, i, s) /\ r = Append(s, h)
<1> DEFINE c == JumpCandidates(n, h)
<1>0. Splits(n, left, h, seen, r)
  BY SplitRoute
<1>1. PICK id \in Hosts, s \in Seq(Hosts) :
        /\ id \in ToSet(c) /\ id \notin seen
        /\ Simple(n, left, id, seen \cup {id}, s)
        /\ r = Append(s, h)
  BY <1>0 DEF Splits
<1>2. c \in Seq(Range(c))
  BY RulesAssumption
<1>3. PICK i \in 1..Len(c) : c[i] = id
  <2> HIDE DEF c
  <2>1. DOMAIN c = 1..Len(c)
    BY <1>2, LenProperties
  <2> QED
    BY <1>1, <2>1 DEF ToSet
<1>4. Leads(n, left, h, seen, i, s)
  BY <1>1, <1>3 DEF Leads, Usable
<1> QED
  BY <1>1, <1>4

\* An earlier candidate is preferred.
LEMMA EarlierFirst ==
  ASSUME NEW n \in Networks, NEW left \in Nat, NEW h \in Hosts, NEW seen \in SUBSET Hosts,
         NEW i \in 1..Len(JumpCandidates(n, h)), NEW j \in 1..Len(JumpCandidates(n, h)), i < j,
         NEW s, Leads(n, left, h, seen, i, s), NEW t, Leads(n, left, h, seen, j, t)
  PROVE  Prefers(n, Append(s, h), Append(t, h))
<1> DEFINE c == JumpCandidates(n, h)
<1>1. /\ s \in Seq(Hosts) /\ Len(s) # 0 /\ s[Len(s)] = c[i]
      /\ t \in Seq(Hosts) /\ Len(t) # 0 /\ t[Len(t)] = c[j]
  BY DEF Leads, Simple
<1>2. Choice(n, h, c[i]) = i /\ Choice(n, h, c[j]) = j
  BY ChoiceIs
<1>3. Choice(n, h, s[Len(s)]) < Choice(n, h, t[Len(t)])
  <2> HIDE DEF c
  <2> QED
    BY <1>1, <1>2
<1> QED
  BY <1>1, <1>3, PrefersHere

\* Through one candidate, the order stays.
LEMMA SameFirst ==
  ASSUME NEW n \in Networks, NEW left \in Nat, left + 1 < MaxHops, NEW h \in Hosts, NEW seen,
         NEW i, NEW s, Leads(n, left, h, seen, i, s), NEW t, Leads(n, left, h, seen, i, t), Prefers(n, s, t)
  PROVE  Prefers(n, Append(s, h), Append(t, h))
<1>1. s \in Seq(Hosts) /\ t \in Seq(Hosts) /\ Len(s) \in 1..(left + 1)
  BY DEF Leads, Simple
<1>2. Len(s) < MaxHops
  <2>1. \A m \in 1..(left + 1) : m < MaxHops
    BY JumpAssumption
  <2> QED
    BY <1>1, <2>1
<1> QED
  BY <1>1, <1>2, PrefersDeeper

\* The routes to h through each of its candidates.
Ways(n, less, h, seen) ==
  [i \in DOMAIN JumpCandidates(n, h) |->
     [j \in DOMAIN SubPaths(n, less, h, seen, i) |-> Append(SubPaths(n, less, h, seen, i)[j], h)]]

Cut(out) == SubSeq(out, 1, IF Len(out) < MaxPaths THEN Len(out) ELSE MaxPaths)

LEMMA PathsForIs ==
  ASSUME NEW n, NEW left \in Nat, left # 0, NEW less, NEW h, NEW seen, JumpCandidates(n, h) # <<>>
  PROVE  JumpPathsFor(n, less, left, h, seen) = Cut(FlattenSeq(Ways(n, less, h, seen)))
<1> DEFINE c == JumpCandidates(n, h)
           Through(id) ==
             IF id \in seen \/ id \notin Hosts THEN <<>>
             ELSE LET subs == less[id][seen \cup {id}]
                  IN [j \in DOMAIN subs |-> Append(subs[j], h)]
           seqs == [i \in DOMAIN c |-> Through(c[i])]
           w == Ways(n, less, h, seen)
<1>1. JumpPathsFor(n, less, left, h, seen) = Cut(FlattenSeq(seqs))
  BY DEF JumpPathsFor, Cut
<1>2. ASSUME NEW i \in DOMAIN c
      PROVE  Through(c[i]) = w[i]
  <2>1. w[i] = [j \in DOMAIN SubPaths(n, less, h, seen, i) |-> Append(SubPaths(n, less, h, seen, i)[j], h)]
    BY DEF Ways
  <2>2. CASE c[i] \in seen \/ c[i] \notin Hosts
    <3>1. SubPaths(n, less, h, seen, i) = <<>>
      BY <2>2 DEF SubPaths
    <3>2. Through(c[i]) = <<>>
      BY <2>2
    <3>3. [j \in DOMAIN <<>> |-> Append(<<>>[j], h)] = <<>>
      OBVIOUS
    <3> HIDE DEF Through, w
    <3> QED
      BY <2>1, <3>1, <3>2, <3>3
  <2>3. CASE ~(c[i] \in seen \/ c[i] \notin Hosts)
    <3>1. SubPaths(n, less, h, seen, i) = less[c[i]][seen \cup {c[i]}]
      BY <2>3 DEF SubPaths
    <3>2. Through(c[i]) = [j \in DOMAIN less[c[i]][seen \cup {c[i]}] |-> Append(less[c[i]][seen \cup {c[i]}][j], h)]
      BY <2>3
    <3> HIDE DEF Through, w
    <3> QED
      BY <2>1, <3>1, <3>2
  <2> QED
    BY <2>2, <2>3
<1>3. seqs = w
  <2>1. w = [i \in DOMAIN c |-> w[i]]
    BY DEF Ways
  <2> HIDE DEF w, c, Through
  <2> QED
    BY <1>2, <2>1
<1> HIDE DEF seqs
<1> QED
  BY <1>1, <1>3

\* Each of them is led through its candidate.
WaysWellLed(n, left, less, h, seen) ==
  /\ Ways(n, less, h, seen) \in Seq(Seq(Seq(Hosts)))
  /\ Len(Ways(n, less, h, seen)) = Len(JumpCandidates(n, h))
  /\ \A i \in 1..Len(JumpCandidates(n, h)) :
       /\ Len(Ways(n, less, h, seen)[i]) = Len(SubPaths(n, less, h, seen, i))
       /\ \A j \in 1..Len(Ways(n, less, h, seen)[i]) :
            /\ Leads(n, left, h, seen, i, SubPaths(n, less, h, seen, i)[j])
            /\ Ways(n, less, h, seen)[i][j] = Append(SubPaths(n, less, h, seen, i)[j], h)

LEMMA WaysAre ==
  ASSUME NEW n \in Networks, NEW left \in Nat, NEW less, BestBelow(n, left, less),
         NEW h \in Hosts, NEW seen \in SUBSET Hosts
  PROVE  WaysWellLed(n, left, less, h, seen)
<1> DEFINE c == JumpCandidates(n, h)
           w == Ways(n, less, h, seen)
           sub(i) == SubPaths(n, less, h, seen, i)
<1>1. c \in Seq(Range(c))
  BY RulesAssumption
<1>2. DOMAIN c = 1..Len(c) /\ Len(c) \in Nat
  <2> HIDE DEF c
  <2> QED
    BY <1>1, LenProperties
<1>3. \A i \in 1..Len(c) : w[i] = [j \in DOMAIN sub(i) |-> Append(sub(i)[j], h)]
  BY <1>2 DEF Ways
<1>4. w = [i \in 1..Len(c) |-> w[i]]
  <2>1. w = [i \in DOMAIN c |-> w[i]]
    BY DEF Ways
  <2> HIDE DEF w, c
  <2> QED
    BY <1>2, <2>1
<1>5. ASSUME NEW i \in 1..Len(c)
      PROVE  /\ sub(i) \in Seq(Seq(Hosts))
             /\ \A j \in 1..Len(sub(i)) : Leads(n, left, h, seen, i, sub(i)[j])
  <2>1. CASE Usable(n, h, seen, i)
    <3>1. BestOf(n, left, c[i], seen \cup {c[i]}, sub(i))
      BY <2>1, SubBest
    <3> HIDE DEF sub
    <3>2. /\ sub(i) \in Seq(Seq(Hosts))
          /\ \A j \in 1..Len(sub(i)) : Simple(n, left, c[i], seen \cup {c[i]}, sub(i)[j])
      BY <3>1 DEF BestOf
    <3> QED
      BY <2>1, <3>2 DEF Leads
  <2>2. CASE ~Usable(n, h, seen, i)
    <3>1. sub(i) = <<>>
      BY <2>2 DEF SubPaths, Usable
    <3> HIDE DEF sub
    <3> QED
      BY <3>1, EmptySeq
  <2> QED
    BY <2>1, <2>2
<1> HIDE DEF c, w, sub
<1>6. ASSUME NEW i \in 1..Len(c)
      PROVE  /\ w[i] \in Seq(Seq(Hosts)) /\ Len(w[i]) = Len(sub(i))
             /\ \A j \in 1..Len(w[i]) : w[i][j] = Append(sub(i)[j], h)
  <2>1. sub(i) \in Seq(Seq(Hosts)) /\ DOMAIN sub(i) = 1..Len(sub(i)) /\ Len(sub(i)) \in Nat
    BY <1>5, LenProperties
  <2>2. \A j \in 1..Len(sub(i)) : sub(i)[j] \in Seq(Hosts)
    BY <2>1, ElementOfSeq
  <2>3. w[i] = [j \in 1..Len(sub(i)) |-> Append(sub(i)[j], h)]
    BY <1>3, <2>1
  <2>4. \A j \in 1..Len(sub(i)) : Append(sub(i)[j], h) \in Seq(Hosts)
    BY <2>2, Appended
  <2>5. w[i] \in [1..Len(sub(i)) -> Seq(Hosts)]
    BY <2>3, <2>4
  <2>6. w[i] \in Seq(Seq(Hosts)) /\ Len(w[i]) = Len(sub(i))
    BY <2>1, <2>5, AsSeq
  <2> QED
    BY <2>3, <2>6
<1>7. w \in Seq(Seq(Seq(Hosts))) /\ Len(w) = Len(c)
  <2>1. w \in [1..Len(c) -> Seq(Seq(Hosts))]
    BY <1>4, <1>6
  <2> QED
    BY <1>2, <2>1, AsSeq
<1> QED
  BY <1>5, <1>6, <1>7 DEF c, w, sub, WaysWellLed

LEMMA BestThrough ==
  ASSUME NEW n \in Networks, NEW left \in Nat, left + 1 < MaxHops, NEW less, BestBelow(n, left, less),
         NEW h \in Hosts, NEW seen \in SUBSET Hosts, h \in seen, JumpCandidates(n, h) # <<>>
  PROVE  BestOf(n, left + 1, h, seen, Cut(FlattenSeq(Ways(n, less, h, seen))))
<1> DEFINE c == Len(JumpCandidates(n, h))
           w == Ways(n, less, h, seen)
           sub(i) == SubPaths(n, less, h, seen, i)
           out == FlattenSeq(w)
           paths == Cut(out)
           all == Len(out)
           most == Len(paths)
<1>0. WaysWellLed(n, left, less, h, seen)
  BY WaysAre
<1>1. /\ w \in Seq(Seq(Seq(Hosts))) /\ Len(w) = c
      /\ \A i \in 1..c : /\ Len(w[i]) = Len(sub(i))
                         /\ \A j \in 1..Len(w[i]) : /\ Leads(n, left, h, seen, i, sub(i)[j])
                                                    /\ w[i][j] = Append(sub(i)[j], h)
  BY <1>0 DEF WaysWellLed
<1>2. out \in Seq(Seq(Hosts)) /\ InTurn(w, c, out) /\ all \in Nat
  <2> HIDE DEF w, c, sub
  <2> QED
    BY <1>1, Concatenated, LenProperties
<1>3. PICK b, o : Placing(w, c, out, b, o)
  BY <1>2 DEF InTurn
<1> HIDE DEF c, w, sub, out
<1>4. MaxPaths \in Nat
  BY JumpAssumption
<1>5. /\ paths \in Seq(Seq(Hosts))
      /\ most = IF all < MaxPaths THEN all ELSE MaxPaths
      /\ \A i \in 1..most : paths[i] = out[i]
  <2> DEFINE m == IF all < MaxPaths THEN all ELSE MaxPaths
  <2>1. m \in Nat /\ m <= all
    BY <1>2, <1>4
  <2>2. paths = SubSeq(out, 1, m)
    BY DEF Cut
  <2> HIDE DEF m
  <2>3. \A i \in 1..m : out[i] \in Seq(Hosts)
    <3>1. \A i \in 1..m : i \in 1..all
      BY <1>2, <2>1
    <3> QED
      BY <1>2, <3>1, ElementOfSeq
  <2>4. /\ SubSeq(out, 1, m) \in Seq(Seq(Hosts))
        /\ Len(SubSeq(out, 1, m)) = IF 1 <= m THEN m - 1 + 1 ELSE 0
        /\ \A i \in 1..(m - 1 + 1) : SubSeq(out, 1, m)[i] = out[1 + i - 1]
    BY <2>1, <2>3, SubSeqProperties
  <2>5. paths \in Seq(Seq(Hosts)) /\ most = m /\ \A i \in 1..m : paths[i] = out[i]
    <3> HIDE DEF paths
    <3> QED
      BY <2>1, <2>2, <2>4
  <2> HIDE DEF paths
  <2> QED
    BY <2>5 DEF m
<1> HIDE DEF paths
<1>6. most \in Nat /\ most <= all /\ most <= MaxPaths /\ \A i \in 1..most : i \in 1..all
  BY <1>2, <1>4, <1>5
<1>7. ASSUME NEW p \in 1..all
      PROVE  /\ b[p] \in 1..c /\ o[p] \in 1..Len(sub(b[p]))
             /\ Leads(n, left, h, seen, b[p], sub(b[p])[o[p]])
             /\ out[p] = Append(sub(b[p])[o[p]], h)
  <2>1. b[p] \in 1..c /\ o[p] \in 1..Len(w[b[p]]) /\ out[p] = w[b[p]][o[p]]
    BY <1>3 DEF Placing
  <2> HIDE DEF all
  <2> QED
    BY <1>1, <2>1
<1>8. \A p \in 1..all : Simple(n, left + 1, h, seen, out[p])
  BY <1>7, LedOn DEF c
<1>9. ASSUME NEW i \in 1..c, Usable(n, h, seen, i)
      PROVE  BestOf(n, left, JumpCandidates(n, h)[i], seen \cup {JumpCandidates(n, h)[i]}, sub(i))
  BY <1>9, SubBest DEF sub
<1>10. ASSUME NEW p \in 1..all, NEW q \in 1..all, p < q
       PROVE  Prefers(n, out[p], out[q])
  <2> DEFINE s == sub(b[p])[o[p]]
             t == sub(b[q])[o[q]]
  <2>1. /\ b[p] \in 1..c /\ Leads(n, left, h, seen, b[p], s) /\ out[p] = Append(s, h)
        /\ b[q] \in 1..c /\ Leads(n, left, h, seen, b[q], t) /\ out[q] = Append(t, h)
        /\ o[p] \in 1..Len(sub(b[p])) /\ o[q] \in 1..Len(sub(b[q]))
    BY <1>7
  <2>2. b[p] < b[q] \/ (b[p] = b[q] /\ o[p] < o[q])
    BY <1>3, <1>10 DEF Placing
  <2>3. CASE b[p] < b[q]
    <3> HIDE DEF s, t
    <3>1. Prefers(n, Append(s, h), Append(t, h))
      BY <2>1, <2>3, EarlierFirst DEF c
    <3> QED
      BY <2>1, <3>1
  <2>4. CASE b[p] = b[q] /\ o[p] < o[q]
    <3>1. Usable(n, h, seen, b[p])
      BY <2>1 DEF Leads
    <3>2. BestOf(n, left, JumpCandidates(n, h)[b[p]], seen \cup {JumpCandidates(n, h)[b[p]]}, sub(b[p]))
      BY <1>9, <2>1, <3>1
    <3>3. Prefers(n, s, t)
      BY <2>1, <2>4, <3>2 DEF BestOf
    <3> HIDE DEF s, t
    <3>4. Prefers(n, Append(s, h), Append(t, h))
      BY <2>1, <2>4, <3>3, SameFirst
    <3> QED
      BY <2>1, <3>4
  <2> QED
    BY <2>2, <2>3, <2>4
<1>11. ASSUME NEW r, Simple(n, left + 1, h, seen, r)
       PROVE  \/ \E i \in 1..most : paths[i] = r
              \/ most = MaxPaths /\ \A i \in 1..most : Prefers(n, paths[i], r)
  <2>1. PICK i \in 1..c : \E s \in Seq(Hosts) : Leads(n, left, h, seen, i, s) /\ r = Append(s, h)
    BY <1>11, LedThere DEF c
  <2>2. PICK s \in Seq(Hosts) : Leads(n, left, h, seen, i, s) /\ r = Append(s, h)
    BY <2>1
  <2>3. BestOf(n, left, JumpCandidates(n, h)[i], seen \cup {JumpCandidates(n, h)[i]}, sub(i))
    BY <1>9, <2>2 DEF Leads
  <2>4. \/ \E j \in 1..Len(sub(i)) : sub(i)[j] = s
        \/ Len(sub(i)) = MaxPaths /\ \A j \in 1..Len(sub(i)) : Prefers(n, sub(i)[j], s)
    BY <2>2, <2>3 DEF BestOf, Leads
  <2>5. CASE \E j \in 1..Len(sub(i)) : sub(i)[j] = s
    <3>1. PICK j \in 1..Len(sub(i)) : sub(i)[j] = s
      BY <2>5
    <3>2. PICK p \in 1..all : b[p] = i /\ o[p] = j
      BY <1>1, <1>3 DEF Placing
    <3>3. out[p] = r
      BY <1>7, <2>2, <3>1, <3>2
    <3>4. CASE p <= most
      <4>1. p \in 1..most /\ paths[p] = out[p]
        BY <1>5, <1>6, <3>4
      <4> QED
        BY <3>3, <4>1
    <3>5. CASE ~(p <= most)
      <4>1. most = MaxPaths /\ \A k \in 1..most : k < p
        BY <1>2, <1>4, <1>5, <1>6, <3>5
      <4>2. ASSUME NEW k \in 1..most
            PROVE  Prefers(n, paths[k], r)
        BY <1>5, <1>6, <1>10, <3>3, <4>1
      <4> QED
        BY <4>1, <4>2
    <3> QED
      BY <3>4, <3>5
  <2>6. CASE Len(sub(i)) = MaxPaths /\ \A j \in 1..Len(sub(i)) : Prefers(n, sub(i)[j], s)
    <3>1. MaxPaths \in 1..Len(sub(i))
      BY <2>6, JumpAssumption
    <3>2. PICK p \in 1..all : p >= MaxPaths /\ b[p] = i /\ o[p] = MaxPaths
      BY <1>1, <1>3, <3>1 DEF Placing
    <3>3. most = MaxPaths /\ \A k \in 1..most : k <= p
      BY <1>2, <1>4, <1>5, <1>6, <3>2
    <3>4. ASSUME NEW k \in 1..most
          PROVE  Prefers(n, paths[k], r)
      <4> DEFINE t == sub(b[k])[o[k]]
      <4>1. k \in 1..all /\ paths[k] = out[k]
        BY <1>5, <1>6
      <4>2. /\ b[k] \in 1..c /\ o[k] \in 1..Len(sub(b[k]))
            /\ Leads(n, left, h, seen, b[k], t) /\ out[k] = Append(t, h)
        BY <1>7, <4>1
      <4>3. b[k] < i \/ b[k] = i
        <5>1. CASE k = p
          BY <3>2, <5>1
        <5>2. CASE k # p
          <6>1. k < p
            BY <3>3, <5>2
          <6> QED
            BY <1>3, <3>2, <4>1, <6>1 DEF Placing
        <5> QED
          BY <5>1, <5>2
      <4>4. CASE b[k] < i
        <5> HIDE DEF t
        <5>1. Prefers(n, Append(t, h), Append(s, h))
          BY <2>2, <4>2, <4>4, EarlierFirst DEF c
        <5> QED
          BY <2>2, <4>1, <4>2, <5>1
      <4>5. CASE b[k] = i
        <5>1. Prefers(n, t, s)
          BY <2>6, <4>2, <4>5
        <5> HIDE DEF t
        <5>2. Prefers(n, Append(t, h), Append(s, h))
          BY <2>2, <4>2, <4>5, <5>1, SameFirst
        <5> QED
          BY <2>2, <4>1, <4>2, <5>2
      <4> QED
        BY <4>3, <4>4, <4>5
    <3> QED
      BY <3>3, <3>4
  <2> QED
    BY <2>4, <2>5, <2>6
<1>12. BestOf(n, left + 1, h, seen, paths)
  <2>1. \A i \in 1..most : Simple(n, left + 1, h, seen, paths[i])
    BY <1>5, <1>6, <1>8
  <2>2. \A i, j \in 1..most : i < j => Prefers(n, paths[i], paths[j])
    BY <1>5, <1>6, <1>10
  <2> QED
    BY <1>5, <1>6, <1>11, <2>1, <2>2 DEF BestOf
<1> QED
  BY <1>12 DEF paths, out, w

(***************************************************************************)
(* Part 12: all routes.                                                    *)
(***************************************************************************)
\* f holds the routes to every host for each number of hosts before it, up to m.
Layers(n, m, f) ==
  f = [left \in 0..m |-> PathsWithin(n, IF left = 0 THEN <<>> ELSE f[left - 1], left)]

LEMMA LayersExist ==
  ASSUME NEW n, NEW m \in Nat
  PROVE  \E f : Layers(n, m, f)
<1> DEFINE S == {k \in Nat : \E f : Layers(n, k, f)}
<1>1. 0 \in S
  <2> DEFINE f == [left \in 0..0 |-> PathsWithin(n, <<>>, 0)]
  <2>1. f = [left \in 0..0 |-> PathsWithin(n, IF left = 0 THEN <<>> ELSE f[left - 1], left)]
    <3>1. \A left \in 0..0 : left = 0
      OBVIOUS
    <3>2. \A left \in 0..0 : f[left] = PathsWithin(n, IF left = 0 THEN <<>> ELSE f[left - 1], left)
      BY <3>1
    <3>3. f = [left \in 0..0 |-> f[left]]
      OBVIOUS
    <3> HIDE DEF f
    <3> QED
      BY <3>2, <3>3
  <2>2. Layers(n, 0, f)
    BY <2>1 DEF Layers
  <2> QED
    BY <2>2
<1>2. ASSUME NEW k \in Nat, k \in S
      PROVE  k + 1 \in S
  <2>1. PICK f : Layers(n, k, f)
    BY <1>2
  <2> DEFINE g == [left \in 0..(k + 1) |-> IF left = k + 1 THEN PathsWithin(n, f[k], k + 1) ELSE f[left]]
  <2>2. \A left \in 0..k : f[left] = PathsWithin(n, IF left = 0 THEN <<>> ELSE f[left - 1], left)
    BY <2>1 DEF Layers
  <2>3. \A left \in 0..k : g[left] = f[left]
    OBVIOUS
  <2>4. g[k + 1] = PathsWithin(n, f[k], k + 1)
    OBVIOUS
  <2>5. g = [left \in 0..(k + 1) |-> g[left]]
    OBVIOUS
  <2> HIDE DEF g
  <2>6. ASSUME NEW left \in 0..(k + 1)
        PROVE  g[left] = PathsWithin(n, IF left = 0 THEN <<>> ELSE g[left - 1], left)
    <3>1. CASE left = k + 1
      <4>1. left # 0 /\ left - 1 = k /\ k \in 0..k
        BY <3>1
      <4>2. g[left - 1] = f[k]
        BY <2>3, <4>1
      <4> QED
        BY <2>4, <3>1, <4>1, <4>2
    <3>2. CASE left # k + 1
      <4>1. left \in 0..k /\ (left # 0 => left - 1 \in 0..k)
        BY <3>2
      <4> QED
        BY <2>2, <2>3, <4>1
    <3> QED
      BY <3>1, <3>2
  <2>7. Layers(n, k + 1, g)
    BY <2>5, <2>6 DEF Layers
  <2> QED
    BY <2>7
<1> HIDE DEF S
<1>3. m \in S
  BY <1>1, <1>2, SetInduction
<1> QED
  BY <1>3 DEF S

LEMMA AllPathsAre ==
  ASSUME NEW n, NEW left \in 0..(MaxHops - 1), NEW h \in Hosts, NEW seen \in SUBSET Hosts
  PROVE  AllPaths(n)[left][h][seen] =
           JumpPathsFor(n, IF left = 0 THEN <<>> ELSE AllPaths(n)[left - 1], left, h, seen)
<1> DEFINE m == MaxHops - 1
           a == CHOOSE f : Layers(n, m, f)
<1>1. m \in Nat
  BY JumpAssumption
<1>2. Layers(n, m, a)
  <2> HIDE DEF m
  <2> QED
    BY <1>1, LayersExist
<1>3. AllPaths(n) = a
  BY DEF AllPaths, Layers
<1> HIDE DEF a
<1>4. a[left] = PathsWithin(n, IF left = 0 THEN <<>> ELSE a[left - 1], left)
  BY <1>2 DEF Layers
<1> HIDE DEF m
<1> QED
  BY <1>3, <1>4 DEF PathsWithin

LEMMA AllBest ==
  ASSUME NEW n \in Networks, NEW h \in Hosts
  PROVE  BestOf(n, MaxHops - 1, h, {h}, JumpPaths(n, h))
<1> DEFINE a == AllPaths(n)
           S == {k \in Nat : k < MaxHops => BestBelow(n, k, a[k])}
<1>0. MaxHops \in Nat /\ MaxHops # 0
  BY JumpAssumption
<1>1. 0 \in S
  <2>1. ASSUME NEW x \in Hosts, NEW seen \in SUBSET Hosts, x \in seen
        PROVE  BestOf(n, 0, x, seen, a[0][x][seen])
    <3>1. a[0][x][seen] = JumpPathsFor(n, <<>>, 0, x, seen)
      BY <1>0, AllPathsAre
    <3>2. CASE JumpCandidates(n, x) = <<>>
      <4>1. JumpPathsFor(n, <<>>, 0, x, seen) = << <<x>> >>
        BY <3>2 DEF JumpPathsFor
      <4> HIDE DEF a
      <4> QED
        BY <3>1, <3>2, <4>1, BestDirect
    <3>3. CASE JumpCandidates(n, x) # <<>>
      <4>1. JumpPathsFor(n, <<>>, 0, x, seen) = <<>>
        BY <3>3 DEF JumpPathsFor
      <4> HIDE DEF a
      <4> QED
        BY <3>1, <3>3, <4>1, BestNone
    <3> QED
      BY <3>2, <3>3
  <2>2. BestBelow(n, 0, a[0])
    BY <2>1 DEF BestBelow
  <2> QED
    BY <2>2
<1>2. ASSUME NEW k \in Nat, k \in S
      PROVE  k + 1 \in S
  <2> SUFFICES ASSUME k + 1 < MaxHops
               PROVE  BestBelow(n, k + 1, a[k + 1])
    OBVIOUS
  <2>1. BestBelow(n, k, a[k])
    BY <1>0, <1>2
  <2>2. ASSUME NEW x \in Hosts, NEW seen \in SUBSET Hosts, x \in seen
        PROVE  BestOf(n, k + 1, x, seen, a[k + 1][x][seen])
    <3>1. a[k + 1][x][seen] = JumpPathsFor(n, a[k], k + 1, x, seen)
      <4>1. k + 1 \in 0..(MaxHops - 1) /\ k + 1 # 0 /\ (k + 1) - 1 = k
        BY <1>0
      <4> QED
        BY <4>1, AllPathsAre
    <3> HIDE DEF a
    <3>2. CASE JumpCandidates(n, x) = <<>>
      <4>1. JumpPathsFor(n, a[k], k + 1, x, seen) = << <<x>> >>
        BY <3>2 DEF JumpPathsFor
      <4> QED
        BY <3>1, <3>2, <4>1, BestDirect
    <3>3. CASE JumpCandidates(n, x) # <<>>
      <4>1. JumpPathsFor(n, a[k], k + 1, x, seen) = Cut(FlattenSeq(Ways(n, a[k], x, seen)))
        BY <3>3, PathsForIs
      <4>2. BestOf(n, k + 1, x, seen, Cut(FlattenSeq(Ways(n, a[k], x, seen))))
        BY <2>1, <2>2, <3>3, BestThrough
      <4> QED
        BY <3>1, <4>1, <4>2
    <3> QED
      BY <3>2, <3>3
  <2> QED
    BY <2>2 DEF BestBelow
<1>3. MaxHops - 1 \in S
  <2> HIDE DEF S
  <2>1. MaxHops - 1 \in Nat
    BY <1>0
  <2> QED
    BY <1>1, <1>2, <2>1, SetInduction
<1>4. BestBelow(n, MaxHops - 1, a[MaxHops - 1])
  BY <1>0, <1>3
<1>5. BestOf(n, MaxHops - 1, h, {h}, a[MaxHops - 1][h][{h}])
  <2> HIDE DEF a
  <2> QED
    BY <1>4 DEF BestBelow
<1> QED
  BY <1>5 DEF JumpPaths

LEMMA RoutesAre ==
  ASSUME NEW n, NEW h \in Hosts, NEW r
  PROVE  r \in Routes(n, h) <=> Simple(n, MaxHops - 1, h, {h}, r)
<1>0. MaxHops \in Nat /\ MaxHops # 0 /\ (MaxHops - 1) + 1 = MaxHops
  BY JumpAssumption
<1>1. ASSUME r \in Routes(n, h)
      PROVE  Simple(n, MaxHops - 1, h, {h}, r)
  <2>1. PICK k \in 1..MaxHops : r \in [1..k -> Hosts] /\ IsRoute(n, h, r)
    BY <1>1 DEF Routes
  <2>2. r \in Seq(Hosts) /\ Len(r) = k /\ k \in Nat /\ DOMAIN r = 1..k
    BY <1>0, <2>1, AsSeq
  <2>3. r[k] = h /\ \A i, j \in 1..k : r[i] = r[j] => i = j
    BY <2>1, <2>2 DEF IsRoute, IsInjective, Last
  <2>4. \A i \in 1..(k - 1) : r[i] \notin {h}
    <3>1. \A i \in 1..(k - 1) : i \in 1..k /\ k \in 1..k /\ i # k
      BY <2>2
    <3> QED
      BY <2>3, <3>1
  <2>5. JumpCandidates(n, r[1]) = <<>> /\ \A i \in 2..k : r[i - 1] \in ToSet(JumpCandidates(n, r[i]))
    BY <2>1, <2>2 DEF IsRoute
  <2> QED
    BY <1>0, <2>1, <2>2, <2>3, <2>4, <2>5 DEF Simple
<1>2. ASSUME Simple(n, MaxHops - 1, h, {h}, r)
      PROVE  r \in Routes(n, h)
  <2>1. /\ r \in Seq(Hosts) /\ Len(r) \in 1..MaxHops /\ r[Len(r)] = h
        /\ \A i, j \in 1..Len(r) : r[i] = r[j] => i = j
        /\ JumpCandidates(n, r[1]) = <<>>
        /\ \A i \in 2..Len(r) : r[i - 1] \in ToSet(JumpCandidates(n, r[i]))
    BY <1>0, <1>2 DEF Simple
  <2>2. r \in [1..Len(r) -> Hosts] /\ DOMAIN r = 1..Len(r)
    BY <2>1, LenProperties
  <2>3. IsInjective(r)
    BY <2>1, <2>2 DEF IsInjective
  <2>4. IsRoute(n, h, r)
    BY <2>1, <2>3 DEF IsRoute, Last
  <2> QED
    BY <2>1, <2>2, <2>4 DEF Routes
<1> QED
  BY <1>1, <1>2

LEMMA ListsFinite ==
  ASSUME NEW k \in Nat
  PROVE  IsFiniteSet([1..k -> Hosts])
<1> DEFINE S == {m \in Nat : IsFiniteSet([1..m -> Hosts])}
<1>1. 0 \in S
  <2>1. [1..0 -> Hosts] \subseteq {<<>>}
    OBVIOUS
  <2>2. IsFiniteSet({<<>>})
    BY FS_Singleton
  <2>3. IsFiniteSet([1..0 -> Hosts])
    BY <2>1, <2>2, FS_Subset
  <2> QED
    BY <2>3
<1>2. ASSUME NEW m \in Nat, m \in S
      PROVE  m + 1 \in S
  <2> DEFINE A == [1..m -> Hosts]
             B == [1..(m + 1) -> Hosts]
             join == [x \in A \X Hosts |-> [i \in 1..(m + 1) |-> IF i = m + 1 THEN x[2] ELSE x[1][i]]]
  <2>1. IsFiniteSet(A \X Hosts)
    <3>1. IsFiniteSet(A) /\ IsFiniteSet(Hosts)
      BY <1>2, RulesAssumption
    <3> HIDE DEF A
    <3> QED
      BY <3>1, FS_Product
  <2>2. ASSUME NEW x \in A \X Hosts
        PROVE  join[x] \in B
    <3>1. PICK f \in A, y \in Hosts : x = <<f, y>>
      OBVIOUS
    <3>2. join[x] = [i \in 1..(m + 1) |-> IF i = m + 1 THEN y ELSE f[i]]
      BY <3>1
    <3>3. ASSUME NEW i \in 1..(m + 1), i # m + 1
          PROVE  f[i] \in Hosts
      <4>1. i \in 1..m
        BY <3>3
      <4> QED
        BY <4>1
    <3> HIDE DEF join
    <3> QED
      BY <3>2, <3>3
  <2>3. ASSUME NEW g \in B
        PROVE  \E x \in A \X Hosts : join[x] = g
    <3> DEFINE f == [i \in 1..m |-> g[i]]
               y == g[m + 1]
    <3>1. f \in A /\ y \in Hosts
      <4>1. m + 1 \in 1..(m + 1) /\ \A i \in 1..m : i \in 1..(m + 1)
        OBVIOUS
      <4> QED
        BY <4>1
    <3>2. join[<<f, y>>] = [i \in 1..(m + 1) |-> IF i = m + 1 THEN y ELSE f[i]]
      <4>1. <<f, y>> \in A \X Hosts /\ <<f, y>>[1] = f /\ <<f, y>>[2] = y
        BY <3>1
      <4> HIDE DEF f, y, A
      <4> QED
        BY <4>1
    <3>3. \A i \in 1..(m + 1) : g[i] = IF i = m + 1 THEN y ELSE f[i]
      <4>1. \A i \in 1..(m + 1) : i # m + 1 => i \in 1..m
        OBVIOUS
      <4> QED
        BY <4>1
    <3> HIDE DEF f, y, join
    <3>4. g = [i \in 1..(m + 1) |-> g[i]]
      OBVIOUS
    <3>5. join[<<f, y>>] = g
      BY <3>2, <3>3, <3>4
    <3> QED
      BY <3>1, <3>5
  <2>4. join \in Surjection(A \X Hosts, B)
    <3>1. join = [x \in A \X Hosts |-> join[x]]
      OBVIOUS
    <3> HIDE DEF join, A, B
    <3>2. join \in [A \X Hosts -> B]
      BY <2>2, <3>1
    <3> QED
      BY <2>3, <3>2 DEF Surjection
  <2>5. IsFiniteSet(B)
    <3> HIDE DEF join, A, B
    <3> QED
      BY <2>1, <2>4, FS_Surjection
  <2> QED
    BY <2>5
<1> HIDE DEF S
<1>3. k \in S
  BY <1>1, <1>2, SetInduction
<1> QED
  BY <1>3 DEF S

LEMMA RoutesFinite ==
  ASSUME NEW n, NEW h
  PROVE  IsFiniteSet(Routes(n, h))
<1> DEFINE lists == [k \in 1..MaxHops |-> [1..k -> Hosts]]
           L == {[1..k -> Hosts] : k \in 1..MaxHops}
<1>0. MaxHops \in Nat
  BY JumpAssumption
<1>1. IsFiniteSet(1..MaxHops)
  BY <1>0, FS_Interval
<1>2. lists \in Surjection(1..MaxHops, L)
  <2>1. lists \in [1..MaxHops -> L]
    OBVIOUS
  <2>2. \A x \in L : \E k \in 1..MaxHops : lists[k] = x
    OBVIOUS
  <2> HIDE DEF lists, L
  <2> QED
    BY <2>1, <2>2 DEF Surjection
<1>3. IsFiniteSet(L)
  <2> HIDE DEF lists, L
  <2> QED
    BY <1>1, <1>2, FS_Surjection
<1>4. \A x \in L : IsFiniteSet(x)
  BY <1>0, ListsFinite
<1>5. IsFiniteSet(UNION L)
  <2> HIDE DEF L
  <2> QED
    BY <1>3, <1>4, FS_UNION
<1>6. Routes(n, h) \in SUBSET (UNION L)
  BY DEF Routes
<1> QED
  <2> HIDE DEF L
  <2> QED
    BY <1>5, <1>6, FS_Subset

\* No route is tried before itself.
LEMMA NotBeforeItself ==
  ASSUME NEW n \in Networks, NEW left \in Nat, NEW h, NEW seen, NEW r, Simple(n, left, h, seen, r)
  PROVE  ~Prefers(n, r, r)
<1> SUFFICES ASSUME Prefers(n, r, r)
             PROVE  FALSE
  OBVIOUS
<1>1. PICK k \in 0..(MaxHops - 1) :
        /\ k < Len(r) - 1
        /\ Choice(n, r[Len(r) - k], r[Len(r) - k - 1]) < Choice(n, r[Len(r) - k], r[Len(r) - k - 1])
  BY DEF Prefers
<1> DEFINE i == Len(r) - k
           c == JumpCandidates(n, r[i])
<1>2. r \in Seq(Hosts) /\ Len(r) \in Nat
  BY LenProperties DEF Simple
<1>3. i \in 2..Len(r) /\ i \in 1..Len(r) /\ Len(r) - k - 1 = i - 1
  <2>1. k \in Nat
    BY JumpAssumption
  <2> QED
    BY <1>1, <1>2, <2>1
<1> HIDE DEF i
<1>4. r[i] \in Hosts /\ r[i - 1] \in ToSet(c)
  BY <1>2, <1>3, ElementOfSeq DEF Simple
<1>5. c \in Seq(Range(c))
  BY <1>4, RulesAssumption
<1>6. PICK j \in 1..Len(c) : c[j] = r[i - 1]
  <2> HIDE DEF c
  <2>1. DOMAIN c = 1..Len(c)
    BY <1>5, LenProperties
  <2> QED
    BY <1>4, <2>1 DEF ToSet
<1>7. Choice(n, r[i], r[i - 1]) = j
  <2>1. Choice(n, r[i], c[j]) = j
    BY <1>4, ChoiceIs
  <2> HIDE DEF c
  <2> QED
    BY <1>6, <2>1
<1>8. Choice(n, r[i], r[i - 1]) < Choice(n, r[i], r[i - 1])
  BY <1>1, <1>3 DEF i
<1> QED
  BY <1>7, <1>8

LEMMA CountedOnce ==
  ASSUME NEW T, NEW s \in Seq(T), \A i, j \in 1..Len(s) : s[i] = s[j] => i = j
  PROVE  IsFiniteSet(ToSet(s)) /\ Cardinality(ToSet(s)) = Len(s)
<1>1. Len(s) \in Nat /\ s \in [1..Len(s) -> T] /\ DOMAIN s = 1..Len(s)
  BY LenProperties
<1>2. s \in [1..Len(s) -> ToSet(s)]
  BY <1>1 DEF ToSet
<1>3. \A x \in ToSet(s) : \E i \in 1..Len(s) : s[i] = x
  BY <1>1 DEF ToSet
<1>4. s \in Surjection(1..Len(s), ToSet(s)) /\ s \in Injection(1..Len(s), ToSet(s))
  BY <1>1, <1>2, <1>3 DEF Surjection, Injection, IsInjective
<1>5. IsFiniteSet(1..Len(s)) /\ Cardinality(1..Len(s)) = Len(s)
  BY <1>1, FS_Interval
<1> QED
  BY <1>4, <1>5, FS_Surjection

LEMMA BestRight ==
  ASSUME NEW n \in Networks, NEW h \in Hosts
  PROVE  BestRoutes(n, h, JumpPaths(n, h))
<1> DEFINE paths == JumpPaths(n, h)
           all == Routes(n, h)
           m == Len(paths)
<1>0. MaxHops - 1 \in Nat /\ MaxPaths \in Nat /\ MaxPaths # 0
  BY JumpAssumption
<1>1. /\ paths \in Seq(Seq(Hosts)) /\ m <= MaxPaths
      /\ \A i \in 1..m : Simple(n, MaxHops - 1, h, {h}, paths[i])
      /\ \A i, j \in 1..m : i < j => Prefers(n, paths[i], paths[j])
      /\ \A r : Simple(n, MaxHops - 1, h, {h}, r) =>
           \/ \E i \in 1..m : paths[i] = r
           \/ m = MaxPaths /\ \A i \in 1..m : Prefers(n, paths[i], r)
  BY AllBest DEF BestOf
<1> HIDE DEF paths
<1>2. m \in Nat /\ DOMAIN paths = 1..m
  BY <1>1, LenProperties
<1>3. ToSet(paths) \subseteq all
  BY <1>1, <1>2, RoutesAre DEF ToSet
<1>4. \A i, j \in 1..m : paths[i] = paths[j] => i = j
  <2> SUFFICES ASSUME NEW i \in 1..m, NEW j \in 1..m, paths[i] = paths[j], i # j
               PROVE  FALSE
    OBVIOUS
  <2>1. Prefers(n, paths[i], paths[i])
    <3>1. i < j \/ j < i
      BY <1>2
    <3> QED
      BY <1>1, <3>1
  <2> QED
    BY <1>0, <1>1, <2>1, NotBeforeItself
<1>5. Cardinality(ToSet(paths)) = m
  BY <1>1, <1>4, CountedOnce
<1>6. IsFiniteSet(all) /\ Cardinality(all) \in Nat
  <2>1. IsFiniteSet(all)
    BY RoutesFinite
  <2> HIDE DEF all
  <2> QED
    BY <2>1, FS_CardinalityType
<1>7. m <= Cardinality(all)
  <2> HIDE DEF all
  <2>1. ToSet(paths) \in SUBSET all
    BY <1>3
  <2> QED
    BY <1>5, <1>6, <2>1, FS_Subset
<1>8. \A r \in all \ ToSet(paths) : m = MaxPaths /\ \A i \in 1..m : Prefers(n, paths[i], r)
  BY <1>1, <1>2, RoutesAre DEF ToSet
<1>9. m = IF Cardinality(all) < MaxPaths THEN Cardinality(all) ELSE MaxPaths
  <2> HIDE DEF all
  <2>1. CASE ToSet(paths) = all
    <3>1. Cardinality(all) = m
      BY <1>5, <2>1
    <3>2. m \in Nat /\ m <= MaxPaths /\ MaxPaths \in Nat
      BY <1>0, <1>1, <1>2
    <3> HIDE DEF m
    <3> QED
      BY <3>1, <3>2
  <2>2. CASE ToSet(paths) # all
    <3>1. m = MaxPaths
      BY <1>3, <1>8, <2>2
    <3> QED
      BY <1>0, <1>2, <1>6, <1>7, <3>1
  <2> QED
    BY <2>1, <2>2
<1>10. \A i \in 1..(m - 1) : Prefers(n, paths[i], paths[i + 1])
  <2>1. \A i \in 1..(m - 1) : i \in 1..m /\ i + 1 \in 1..m /\ i < i + 1
    BY <1>2
  <2> QED
    BY <1>1, <2>1
<1>11. \A r \in all \ ToSet(paths) : Prefers(n, Last(paths), r)
  <2> TAKE r \in all \ ToSet(paths)
  <2> HIDE DEF all
  <2>1. m = MaxPaths /\ \A i \in 1..m : Prefers(n, paths[i], r)
    BY <1>8
  <2>2. m \in 1..m
    BY <1>0, <2>1
  <2> QED
    BY <2>1, <2>2 DEF Last
<1>12. BestRoutes(n, h, paths)
  BY <1>3, <1>9, <1>10, <1>11 DEF BestRoutes
<1> QED
  BY <1>12 DEF paths

(***************************************************************************)
(* Whatever the host store holds and whichever links and logins fail: the  *)
(* routes that are offered are the best MaxPaths of all simple routes, in  *)
(* the order of preference, and the connection is the one of the first     *)
(* that works with nothing else left open (jumpPaths, dialThrough,         *)
(* dialWithFallback).                                                      *)
(***************************************************************************)
THEOREM RoutesFirstAndBest == Spec => []RoutesRight
<1> DEFINE Dialled == asked.what = "route" =>
                        asked.net \in Networks /\ asked.to \in Hosts /\ answer = Connect(asked.net, asked.to)
<1>1. Init => Dialled
  BY DEF Init, Nothing
<1>2. Dialled /\ [Next]_vars => Dialled'
  <2> SUFFICES ASSUME Dialled, [Next]_vars
               PROVE  Dialled'
    OBVIOUS
  <2>1. CASE Start
    <3>1. PICK n \in Networks, h \in Hosts :
            asked' = [what |-> "route", net |-> n, to |-> h] /\ answer' = Connect(n, h)
      BY <2>1 DEF Start
    <3> QED
      BY <3>1
  <2>2. CASE Filters \/ Captures \/ Plans \/ NamesServers \/ Inspects \/ Submits \/ Registers
    <3>1. asked'.what # "route"
      BY <2>2 DEF Filters, Captures, Plans, NamesServers, Inspects, Submits, Registers, Nothing
    <3> QED
      BY <3>1
  <2>3. CASE UNCHANGED vars
    BY <2>3 DEF vars
  <2> QED
    BY <2>1, <2>2, <2>3 DEF Next
<1>3. Dialled => RoutesRight
  <2> SUFFICES ASSUME Dialled, asked.what = "route"
               PROVE  RouteRight(asked.net, asked.to, answer)
    BY DEF RoutesRight
  <2> DEFINE n == asked.net
             h == asked.to
  <2>1. n \in Networks /\ h \in Hosts /\ answer = DialWithFallback(n, JumpPaths(n, h))
    BY DEF Connect
  <2> HIDE DEF n, h
  <2>2. BestRoutes(n, h, JumpPaths(n, h))
    BY <2>1, BestRight
  <2>3. JumpPaths(n, h) \in Seq(Seq(Hosts))
    BY <2>1, AllBest DEF BestOf
  <2>4. FirstThatWorks(n, JumpPaths(n, h), DialWithFallback(n, JumpPaths(n, h)))
    BY <2>3, FallbackRight
  <2> QED
    BY <2>1, <2>2, <2>4 DEF RouteRight, n, h
<1>4. Spec => []Dialled
  BY <1>1, <1>2, PTL DEF Spec
<1> QED
  BY <1>3, <1>4, PTL

(***************************************************************************)
(* Part 13: folds.                                                         *)
(***************************************************************************)
\* What a fold over 1..n computes of each set of indices, the greatest index last.
Folding(n, b, step, it) ==
  it = [t \in SUBSET (1..n) |-> IF t = {} THEN b ELSE step[<<Max(t), it[t \ {Max(t)}]>>]]

LEMMA FoldingExists ==
  ASSUME NEW n \in Nat, NEW A, NEW b \in A, NEW step,
         \A i \in 1..n : \A x \in A : step[<<i, x>>] \in A
  PROVE  \E it : Folding(n, b, step, it) /\ \A t \in SUBSET (1..n) : it[t] \in A
<1> DEFINE Has(k) == \E it : Folding(k, b, step, it) /\ \A t \in SUBSET (1..k) : it[t] \in A
           S == {k \in Nat : k <= n => Has(k)}
<1>1. 0 \in S
  <2> DEFINE it == [t \in SUBSET (1..0) |-> b]
  <2>1. \A t \in SUBSET (1..0) : t = {}
    OBVIOUS
  <2>2. Folding(0, b, step, it)
    BY <2>1 DEF Folding
  <2>3. \A t \in SUBSET (1..0) : it[t] \in A
    OBVIOUS
  <2> HIDE DEF it
  <2> QED
    BY <2>2, <2>3
<1>2. ASSUME NEW k \in Nat, k \in S
      PROVE  k + 1 \in S
  <2> SUFFICES ASSUME k + 1 <= n
               PROVE  Has(k + 1)
    OBVIOUS
  <2>1. PICK it : Folding(k, b, step, it) /\ \A t \in SUBSET (1..k) : it[t] \in A
    BY <1>2
  <2> DEFINE new == [t \in SUBSET (1..(k + 1)) |->
                      IF k + 1 \in t THEN step[<<k + 1, it[t \ {k + 1}]>>] ELSE it[t]]
  <2>2. \A t \in SUBSET (1..k) : it[t] = IF t = {} THEN b ELSE step[<<Max(t), it[t \ {Max(t)}]>>]
    BY <2>1 DEF Folding
  <2>3. \A t \in SUBSET (1..(k + 1)) : /\ t \ {k + 1} \in SUBSET (1..k)
                                       /\ k + 1 \notin t => t \in SUBSET (1..k)
    OBVIOUS
  <2>4. ASSUME NEW t \in SUBSET (1..(k + 1))
        PROVE  /\ new[t] \in A
               /\ new[t] = IF t = {} THEN b ELSE step[<<Max(t), new[t \ {Max(t)}]>>]
    <3>1. CASE k + 1 \in t
      <4>1. Max(t) = k + 1
        <5>1. k + 1 \in Nat /\ t # {} /\ t \in SUBSET (1..(k + 1))
          BY <3>1
        <5>2. Max(t) \in t /\ k + 1 <= Max(t)
          BY <3>1, <5>1, MaxIn
        <5>3. Max(t) \in 1..(k + 1)
          BY <5>1, <5>2
        <5> QED
          BY <5>2, <5>3
      <4>2. new[t] = step[<<k + 1, it[t \ {k + 1}]>>]
        BY <3>1
      <4>3. t \ {k + 1} \in SUBSET (1..k) /\ t \ {k + 1} \in SUBSET (1..(k + 1))
        BY <2>3
      <4>4. new[t \ {k + 1}] = it[t \ {k + 1}]
        BY <4>3
      <4>5. it[t \ {k + 1}] \in A
        BY <2>1, <4>3
      <4>6. step[<<k + 1, it[t \ {k + 1}]>>] \in A
        BY <4>5
      <4> HIDE DEF new
      <4> QED
        BY <3>1, <4>1, <4>2, <4>4, <4>6
    <3>2. CASE k + 1 \notin t
      <4>1. t \in SUBSET (1..k) /\ new[t] = it[t]
        BY <2>3, <3>2
      <4>2. CASE t = {}
        BY <2>1, <2>2, <4>1, <4>2
      <4>3. CASE t # {}
        <5>1. Max(t) \in t
          BY <4>1, <4>3, MaxIn
        <5>2. t \ {Max(t)} \in SUBSET (1..(k + 1)) /\ k + 1 \notin t \ {Max(t)}
          BY <3>2
        <5>3. new[t \ {Max(t)}] = it[t \ {Max(t)}]
          BY <5>2
        <5> HIDE DEF new
        <5> QED
          BY <2>1, <2>2, <4>1, <4>3, <5>3
      <4> QED
        BY <4>2, <4>3
    <3> QED
      BY <3>1, <3>2
  <2>5. new = [t \in SUBSET (1..(k + 1)) |-> new[t]]
    OBVIOUS
  <2> HIDE DEF new
  <2>6. Folding(k + 1, b, step, new)
    BY <2>4, <2>5 DEF Folding
  <2> QED
    BY <2>4, <2>6
<1> HIDE DEF S
<1>3. n \in S
  BY <1>1, <1>2, SetInduction
<1> QED
  BY <1>3 DEF S

\* The sets a fold from the left goes through.
LEMMA UpTo ==
  ASSUME NEW n \in Nat
  PROVE  /\ 1..n \in SUBSET (1..n)
         /\ 1..0 \in SUBSET (1..n) /\ 1..0 = {}
         /\ \A k \in 1..n : /\ 1..k \in SUBSET (1..n) /\ 1..k # {}
                            /\ Max(1..k) = k /\ (1..k) \ {k} = 1..(k - 1)
<1>1. ASSUME NEW k \in 1..n
      PROVE  Max(1..k) = k
  <2>1. 1..k \in SUBSET (1..k) /\ k \in 1..k /\ k \in Nat
    OBVIOUS
  <2>2. Max(1..k) \in 1..k /\ k <= Max(1..k)
    BY <2>1, MaxIn
  <2> QED
    BY <2>2
<1> QED
  BY <1>1

\* A function may be defined from 0 up, each value from the one before it.
Stepping(n, b, step, f) == f[0] = b /\ \A k \in 1..n : f[k] = step[<<k, f[k - 1]>>]

LEMMA StepsExist ==
  ASSUME NEW n \in Nat, NEW A, NEW b \in A, NEW step,
         \A i \in 1..n : \A x \in A : step[<<i, x>>] \in A
  PROVE  \E f : f \in [0..n -> A] /\ Stepping(n, b, step, f)
<1>1. PICK it : Folding(n, b, step, it) /\ \A t \in SUBSET (1..n) : it[t] \in A
  BY FoldingExists
<1> DEFINE f == [k \in 0..n |-> it[1..k]]
<1>2. \A t \in SUBSET (1..n) : it[t] = IF t = {} THEN b ELSE step[<<Max(t), it[t \ {Max(t)}]>>]
  BY <1>1 DEF Folding
<1>3. f[0] = b
  <2>1. f[0] = it[1..0]
    OBVIOUS
  <2> HIDE DEF f
  <2> QED
    BY <1>2, <2>1, UpTo
<1>4. ASSUME NEW k \in 1..n
      PROVE  f[k] = step[<<k, f[k - 1]>>]
  <2>1. f[k] = it[1..k] /\ f[k - 1] = it[1..(k - 1)]
    OBVIOUS
  <2>2. /\ 1..k \in SUBSET (1..n) /\ 1..k # {}
        /\ Max(1..k) = k /\ (1..k) \ {k} = 1..(k - 1)
    BY UpTo
  <2> HIDE DEF f
  <2> QED
    BY <1>2, <2>1, <2>2
<1>5. f \in [0..n -> A]
  BY <1>1, UpTo
<1> HIDE DEF f
<1> QED
  BY <1>3, <1>4, <1>5 DEF Stepping

(***************************************************************************)
(* Part 14: the ports of a capture.                                        *)
(***************************************************************************)
Range2 == Nat \X Nat

\* Is port p in one of the ranges?
Covers(ranges, p) == \E i \in DOMAIN ranges : ranges[i][1] <= p /\ p <= ranges[i][2]

LEMMA EarlierOrders ==
  ASSUME NEW a \in Range2, NEW b \in Range2
  PROVE  /\ Earlier(a, b) => ~Earlier(b, a)
         /\ ~Earlier(b, a) => a[1] <= b[1]
         /\ \A c \in Range2 : ~Earlier(b, a) /\ ~Earlier(c, b) => ~Earlier(c, a)
<1>1. a[1] \in Nat /\ a[2] \in Nat /\ b[1] \in Nat /\ b[2] \in Nat
  BY DEF Range2
<1>2. \A c \in Range2 : c[1] \in Nat /\ c[2] \in Nat
  BY DEF Range2
<1> QED
  BY <1>1, <1>2 DEF Earlier

\* p puts the first k of toks in order.
Orders(toks, k, p) ==
  /\ p \in Bijection(1..k, 1..k)
  /\ \A i, j \in 1..k : i < j => ~Earlier(toks[p[j]], toks[p[i]])

\* One more token is put before those that it is earlier than.
LEMMA OrderOneMore ==
  ASSUME NEW k \in Nat, NEW toks, \A i \in 1..(k + 1) : toks[i] \in Range2,
         NEW p, Orders(toks, k, p)
  PROVE  \E q : Orders(toks, k + 1, q)
<1> DEFINE x == toks[k + 1]
           I == {i \in 1..k : ~Earlier(x, toks[p[i]])}
           m == IF I = {} THEN 0 ELSE Max(I)
           q == [i \in 1..(k + 1) |-> IF i <= m THEN p[i] ELSE IF i = m + 1 THEN k + 1 ELSE p[i - 1]]
<1>1. /\ p \in [1..k -> 1..k]
      /\ \A i, j \in 1..k : p[i] = p[j] => i = j
      /\ \A t \in 1..k : \E i \in 1..k : p[i] = t
  BY DEF Orders, Bijection, Injection, Surjection, IsInjective
<1>2. \A i, j \in 1..k : i < j => ~Earlier(toks[p[j]], toks[p[i]])
  BY DEF Orders
<1>3. x \in Range2 /\ \A i \in 1..k : p[i] \in 1..k /\ toks[p[i]] \in Range2
  <2>1. k + 1 \in 1..(k + 1)
    OBVIOUS
  <2>2. \A i \in 1..k : p[i] \in 1..k /\ p[i] \in 1..(k + 1)
    BY <1>1
  <2> QED
    BY <2>1, <2>2
<1> HIDE DEF x
<1>4. m \in 0..k /\ (m # 0 => m \in I) /\ \A i \in I : i <= m
  <2>1. CASE I = {}
    BY <2>1
  <2>2. CASE I # {}
    <3>1. Max(I) \in I /\ \A i \in I : i <= Max(I)
      BY <2>2, MaxIn
    <3> QED
      BY <2>2, <3>1
  <2> QED
    BY <2>1, <2>2
<1>5. \A i \in 1..k : m < i => Earlier(x, toks[p[i]])
  BY <1>4
<1>6. \A i \in 1..k : i <= m => ~Earlier(x, toks[p[i]])
  <2> SUFFICES ASSUME NEW i \in 1..k, i <= m
               PROVE  ~Earlier(x, toks[p[i]])
    OBVIOUS
  <2>1. m \in 1..k /\ ~Earlier(x, toks[p[m]])
    BY <1>4
  <2>2. CASE i = m
    BY <2>1, <2>2
  <2>3. CASE i # m
    <3>1. ~Earlier(toks[p[m]], toks[p[i]])
      BY <1>2, <1>4, <2>1, <2>3
    <3> QED
      BY <1>3, <2>1, <3>1, EarlierOrders
  <2> QED
    BY <2>2, <2>3
<1> HIDE DEF m, I
<1>7. /\ \A i \in 1..(k + 1) : i <= m => i \in 1..k /\ q[i] = p[i]
      /\ m + 1 \in 1..(k + 1) /\ q[m + 1] = k + 1
      /\ \A i \in 1..(k + 1) : m + 1 < i => i - 1 \in 1..k /\ m < i - 1 /\ q[i] = p[i - 1]
      /\ DOMAIN q = 1..(k + 1)
  BY <1>4
<1> HIDE DEF q
<1>8. q \in [1..(k + 1) -> 1..(k + 1)]
  <2>1. \A i \in 1..(k + 1) : q[i] \in 1..(k + 1)
    <3> TAKE i \in 1..(k + 1)
    <3>1. CASE i <= m
      BY <1>1, <1>7, <3>1
    <3>2. CASE i = m + 1
      BY <1>7, <3>2
    <3>3. CASE m + 1 < i
      BY <1>1, <1>7, <3>3
    <3> QED
      BY <1>4, <3>1, <3>2, <3>3
  <2>2. q = [i \in 1..(k + 1) |-> q[i]]
    BY <1>7 DEF q
  <2> QED
    BY <2>1, <2>2
<1>9. \A i, j \in 1..(k + 1) : q[i] = q[j] => i = j
  <2> SUFFICES ASSUME NEW i \in 1..(k + 1), NEW j \in 1..(k + 1), q[i] = q[j]
               PROVE  i = j
    OBVIOUS
  <2>1. \A t \in 1..(k + 1) : t # m + 1 => q[t] \in 1..k
    <3> SUFFICES ASSUME NEW t \in 1..(k + 1), t # m + 1
                 PROVE  q[t] \in 1..k
      OBVIOUS
    <3>1. CASE t <= m
      BY <1>1, <1>7, <3>1
    <3>2. CASE m + 1 < t
      BY <1>1, <1>7, <3>2
    <3> QED
      BY <1>4, <3>1, <3>2
  <2>2. CASE i = m + 1 \/ j = m + 1
    BY <1>7, <2>1, <2>2
  <2>3. CASE i # m + 1 /\ j # m + 1
    <3>1. CASE i <= m /\ j <= m
      BY <1>1, <1>7, <3>1
    <3>2. CASE m + 1 < i /\ m + 1 < j
      <4>1. i - 1 \in 1..k /\ j - 1 \in 1..k /\ q[i] = p[i - 1] /\ q[j] = p[j - 1]
        BY <1>7, <3>2
      <4>2. i - 1 = j - 1
        BY <1>1, <4>1
      <4> QED
        BY <4>2
    <3>3. CASE i <= m /\ m + 1 < j
      <4>1. i \in 1..k /\ j - 1 \in 1..k /\ m < j - 1 /\ q[i] = p[i] /\ q[j] = p[j - 1]
        BY <1>7, <3>3
      <4>2. i = j - 1
        BY <1>1, <4>1
      <4> QED
        BY <1>4, <3>3, <4>1, <4>2
    <3>4. CASE m + 1 < i /\ j <= m
      <4>1. j \in 1..k /\ i - 1 \in 1..k /\ m < i - 1 /\ q[j] = p[j] /\ q[i] = p[i - 1]
        BY <1>7, <3>4
      <4>2. j = i - 1
        BY <1>1, <4>1
      <4> QED
        BY <1>4, <3>4, <4>1, <4>2
    <3> QED
      BY <1>4, <2>3, <3>1, <3>2, <3>3, <3>4
  <2> QED
    BY <2>2, <2>3
<1>10. \A t \in 1..(k + 1) : \E i \in 1..(k + 1) : q[i] = t
  <2> SUFFICES ASSUME NEW t \in 1..(k + 1)
               PROVE  \E i \in 1..(k + 1) : q[i] = t
    OBVIOUS
  <2>1. CASE t = k + 1
    BY <1>7, <2>1
  <2>2. CASE t # k + 1
    <3>1. PICK i \in 1..k : p[i] = t
      BY <1>1, <2>2
    <3>2. CASE i <= m
      BY <1>7, <3>1, <3>2
    <3>3. CASE m < i
      <4>1. i + 1 \in 1..(k + 1) /\ m + 1 < i + 1 /\ (i + 1) - 1 = i
        BY <1>4, <3>3
      <4> QED
        BY <1>7, <3>1, <4>1
    <3> QED
      BY <1>4, <3>2, <3>3
  <2> QED
    BY <2>1, <2>2
<1>11. \A i, j \in 1..(k + 1) : i < j => ~Earlier(toks[q[j]], toks[q[i]])
  <2> SUFFICES ASSUME NEW i \in 1..(k + 1), NEW j \in 1..(k + 1), i < j
               PROVE  ~Earlier(toks[q[j]], toks[q[i]])
    OBVIOUS
  <2>1. CASE j <= m
    <3>1. i \in 1..k /\ j \in 1..k /\ q[i] = p[i] /\ q[j] = p[j]
      BY <1>4, <1>7, <2>1
    <3> QED
      BY <1>2, <3>1
  <2>2. CASE j = m + 1
    <3>1. i \in 1..k /\ i <= m /\ q[i] = p[i] /\ q[j] = k + 1
      BY <1>4, <1>7, <2>2
    <3> QED
      BY <1>6, <3>1 DEF x
  <2>3. CASE m + 1 < j /\ i <= m
    <3>1. i \in 1..k /\ j - 1 \in 1..k /\ i < j - 1 /\ q[i] = p[i] /\ q[j] = p[j - 1]
      BY <1>4, <1>7, <2>3
    <3> QED
      BY <1>2, <3>1
  <2>4. CASE m + 1 < j /\ i = m + 1
    <3>1. j - 1 \in 1..k /\ m < j - 1 /\ q[i] = k + 1 /\ q[j] = p[j - 1]
      BY <1>4, <1>7, <2>4
    <3>2. Earlier(x, toks[p[j - 1]])
      BY <1>5, <3>1
    <3> QED
      BY <1>3, <3>1, <3>2, EarlierOrders DEF x
  <2>5. CASE m + 1 < j /\ m + 1 < i
    <3>1. i - 1 \in 1..k /\ j - 1 \in 1..k /\ i - 1 < j - 1 /\ q[i] = p[i - 1] /\ q[j] = p[j - 1]
      BY <1>4, <1>7, <2>5
    <3> QED
      BY <1>2, <3>1
  <2> QED
    BY <1>4, <2>1, <2>2, <2>3, <2>4, <2>5
<1>12. q \in Bijection(1..(k + 1), 1..(k + 1))
  BY <1>8, <1>9, <1>10 DEF Bijection, Injection, Surjection, IsInjective
<1> QED
  BY <1>11, <1>12 DEF Orders

LEMMA OrderExists ==
  ASSUME NEW n \in Nat, NEW toks, \A i \in 1..n : toks[i] \in Range2
  PROVE  \E p : Orders(toks, n, p)
<1> DEFINE S == {k \in Nat : k <= n => \E p : Orders(toks, k, p)}
<1>1. 0 \in S
  <2> DEFINE p == [i \in 1..0 |-> i]
  <2>1. \A i \in 1..0 : FALSE
    OBVIOUS
  <2>2. p \in [1..0 -> 1..0] /\ DOMAIN p = 1..0
    OBVIOUS
  <2> HIDE DEF p
  <2>3. Orders(toks, 0, p)
    BY <2>1, <2>2 DEF Orders, Bijection, Injection, Surjection, IsInjective
  <2> QED
    BY <2>3
<1>2. ASSUME NEW k \in Nat, k \in S
      PROVE  k + 1 \in S
  <2> SUFFICES ASSUME k + 1 <= n
               PROVE  \E p : Orders(toks, k + 1, p)
    OBVIOUS
  <2>1. PICK p : Orders(toks, k, p)
    BY <1>2
  <2>2. \A i \in 1..(k + 1) : toks[i] \in Range2
    OBVIOUS
  <2> QED
    BY <2>1, <2>2, OrderOneMore
<1> HIDE DEF S
<1>3. n \in S
  BY <1>1, <1>2, SetInduction
<1> QED
  BY <1>3 DEF S

\* Sorting leaves every token and puts them in order of their first ports.
LEMMA SortedIs ==
  ASSUME NEW n \in Nat, NEW toks \in [1..n -> Range2], NEW s, s = Sorted(toks)
  PROVE  /\ s \in [1..n -> Range2]
         /\ \A i \in 1..n : \E j \in 1..n : s[j] = toks[i]
         /\ \A j \in 1..n : \E i \in 1..n : s[j] = toks[i]
         /\ \A i, j \in 1..n : i < j => s[i][1] <= s[j][1]
<1> DEFINE Shuffles == {[i \in 1..n |-> toks[p[i]]] : p \in Bijection(1..n, 1..n)}
           Good(w) == \A i, j \in DOMAIN w : i < j => ~Earlier(w[j], w[i])
<1>1. s = CHOOSE w \in Shuffles : Good(w)
  <2>1. DOMAIN toks = 1..n
    OBVIOUS
  <2> QED
    BY <2>1 DEF Sorted
<1>2. PICK p : Orders(toks, n, p)
  BY OrderExists
<1>3. \E w \in Shuffles : Good(w)
  <2> DEFINE w == [i \in 1..n |-> toks[p[i]]]
  <2>1. w \in Shuffles
    BY <1>2 DEF Orders
  <2>2. Good(w)
    BY <1>2 DEF Orders
  <2> QED
    BY <2>1, <2>2
<1>4. s \in Shuffles /\ Good(s)
  <2> HIDE DEF Shuffles, Good
  <2> QED
    BY <1>1, <1>3
<1>5. PICK q \in Bijection(1..n, 1..n) : s = [i \in 1..n |-> toks[q[i]]]
  BY <1>4
<1>6. /\ q \in [1..n -> 1..n]
      /\ \A t \in 1..n : \E i \in 1..n : q[i] = t
  BY <1>5 DEF Bijection, Surjection
<1>7. s \in [1..n -> Range2]
  BY <1>5, <1>6
<1>8. \A i \in 1..n : \E j \in 1..n : s[j] = toks[i]
  BY <1>5, <1>6
<1>9. \A j \in 1..n : \E i \in 1..n : s[j] = toks[i]
  BY <1>5, <1>6
<1>10. \A i, j \in 1..n : i < j => s[i][1] <= s[j][1]
  BY <1>4, <1>7, EarlierOrders
<1> QED
  BY <1>7, <1>8, <1>9, <1>10

\* One more range, whose first port is not before that of the last one.
LEMMA MergeIs ==
  ASSUME NEW m \in Seq(Range2), NEW r \in Range2
  PROVE  /\ Merge(m, r) \in Seq(Range2)
         /\ Merge(m, r) # <<>>
         /\ (m # <<>> => Last(m)[1] <= r[1]) =>
              /\ Last(Merge(m, r))[1] <= r[1]
              /\ \A p \in Nat : Covers(Merge(m, r), p) <=> Covers(m, p) \/ (r[1] <= p /\ p <= r[2])
<1> DEFINE n == Len(m)
           new == Merge(m, r)
<1>1. /\ n \in Nat /\ Len(m) = n /\ DOMAIN m = 1..n /\ (m = <<>> <=> n = 0) /\ Last(m) = m[n]
      /\ \A i \in 1..n : m[i] \in Range2 /\ m[i][1] \in Nat /\ m[i][2] \in Nat
      /\ r[1] \in Nat /\ r[2] \in Nat
  BY EmptySeq, LenProperties DEF Last, Range2
<1> HIDE DEF n
<1>2. CASE m = <<>> \/ r[1] > Last(m)[2] + 1
  <2>1. new = Append(m, r)
    BY <1>2 DEF Merge
  <2>2. /\ new \in Seq(Range2) /\ Len(new) = n + 1 /\ new # <<>>
        /\ \A i \in 1..n : new[i] = m[i]
        /\ new[n + 1] = r
        /\ DOMAIN new = 1..(n + 1)
    BY <1>1, <2>1, AppendProperties, EmptySeq, LenProperties
  <2> HIDE DEF new
  <2>3. Last(new) = r
    BY <2>2 DEF Last
  <2>4. \A p \in Nat : Covers(new, p) <=> Covers(m, p) \/ (r[1] <= p /\ p <= r[2])
    <3> SUFFICES ASSUME NEW p \in Nat
                 PROVE  Covers(new, p) <=> Covers(m, p) \/ (r[1] <= p /\ p <= r[2])
      OBVIOUS
    <3>1. \A i \in 1..(n + 1) : i \in 1..n \/ i = n + 1
      BY <1>1
    <3>2. n + 1 \in 1..(n + 1) /\ \A i \in 1..n : i \in 1..(n + 1)
      BY <1>1
    <3> QED
      BY <1>1, <2>2, <3>1, <3>2 DEF Covers
  <2> QED
    BY <1>1, <2>2, <2>3, <2>4 DEF new
<1>3. CASE m # <<>> /\ ~(r[1] > Last(m)[2] + 1) /\ r[2] > Last(m)[2]
  <2>1. new = [m EXCEPT ![n] = <<Last(m)[1], r[2]>>]
    BY <1>1, <1>3 DEF Merge, ReplaceAt
  <2>2. n \in 1..n
    BY <1>1, <1>3
  <2>3. <<Last(m)[1], r[2]>> \in Range2
    BY <1>1, <2>2 DEF Range2
  <2>4. /\ new \in Seq(Range2) /\ Len(new) = n /\ new # <<>>
        /\ \A i \in 1..n : i # n => new[i] = m[i]
        /\ new[n] = <<Last(m)[1], r[2]>>
        /\ DOMAIN new = 1..n
    <3> DEFINE e == <<Last(m)[1], r[2]>>
    <3>1. e \in Range2 /\ n \in 1..Len(m)
      BY <1>1, <2>2, <2>3
    <3> HIDE DEF e
    <3>2. /\ [m EXCEPT ![n] = e] \in Seq(Range2)
          /\ Len([m EXCEPT ![n] = e]) = n
          /\ \A i \in 1..n : [m EXCEPT ![n] = e][i] = IF i = n THEN e ELSE m[i]
      BY <1>1, <3>1, ExceptSeq
    <3>3. new = [m EXCEPT ![n] = e]
      BY <2>1 DEF e
    <3> HIDE DEF new
    <3>4. new \in Seq(Range2) /\ Len(new) = n /\ DOMAIN new = 1..n
      BY <3>2, <3>3, LenProperties
    <3>5. new # <<>>
      BY <2>2, <3>4
    <3>6. \A i \in 1..n : new[i] = IF i = n THEN e ELSE m[i]
      BY <3>2, <3>3
    <3> QED
      BY <2>2, <3>4, <3>5, <3>6 DEF e
  <2> HIDE DEF new
  <2>5. Last(new)[1] = Last(m)[1]
    BY <2>4 DEF Last
  <2>6. ASSUME Last(m)[1] <= r[1], NEW p \in Nat
        PROVE  Covers(new, p) <=> Covers(m, p) \/ (r[1] <= p /\ p <= r[2])
    <3>1. /\ new[n][1] = m[n][1] /\ new[n][2] = r[2]
          /\ m[n][1] \in Nat /\ m[n][2] \in Nat
      BY <1>1, <2>2, <2>4
    <3>2. (new[n][1] <= p /\ p <= new[n][2])
            <=> (m[n][1] <= p /\ p <= m[n][2]) \/ (r[1] <= p /\ p <= r[2])
      BY <1>1, <1>3, <2>6, <3>1
    <3>3. Covers(new, p) <=> (new[n][1] <= p /\ p <= new[n][2])
                              \/ \E i \in 1..n : i # n /\ m[i][1] <= p /\ p <= m[i][2]
      BY <2>2, <2>4 DEF Covers
    <3>4. Covers(m, p) <=> (m[n][1] <= p /\ p <= m[n][2])
                            \/ \E i \in 1..n : i # n /\ m[i][1] <= p /\ p <= m[i][2]
      BY <1>1, <2>2 DEF Covers
    <3> QED
      BY <3>2, <3>3, <3>4
  <2> QED
    BY <1>3, <2>4, <2>5, <2>6 DEF new
<1>4. CASE m # <<>> /\ ~(r[1] > Last(m)[2] + 1) /\ ~(r[2] > Last(m)[2])
  <2>1. new = m
    BY <1>4 DEF Merge
  <2>2. n \in 1..n
    BY <1>1, <1>4
  <2>3. ASSUME Last(m)[1] <= r[1], NEW p \in Nat, r[1] <= p, p <= r[2]
        PROVE  Covers(m, p)
    <3>1. m[n][1] <= p /\ p <= m[n][2]
      BY <1>1, <1>4, <2>2, <2>3
    <3> QED
      BY <1>1, <2>2, <3>1 DEF Covers
  <2> HIDE DEF new
  <2> QED
    BY <1>4, <2>1, <2>3 DEF new
<1> QED
  BY <1>2, <1>3, <1>4

\* The fold over sorted ranges, step by step.
LEMMA MergesAre ==
  ASSUME NEW n \in Nat, NEW s \in [1..n -> Range2]
  PROVE  \E f : /\ f[0] = <<>>
                /\ \A k \in 1..n : f[k] = Merge(f[k - 1], s[k])
                /\ FoldLeft(Merge, <<>>, s) = f[n]
<1> DEFINE A == Seq(Range2)
           step == [q \in (1..n) \X A |-> Merge(q[2], s[q[1]])]
           Eq(it) == it = [t \in SUBSET (1..n) |->
                            IF t = {} THEN <<>> ELSE Merge(it[t \ {Max(t)}], s[Max(t)])]
           it == CHOOSE i : Eq(i)
           f == [k \in 0..n |-> it[1..k]]
<1>1. PICK i : Folding(n, <<>>, step, i) /\ \A t \in SUBSET (1..n) : i[t] \in A
  <2>1. \A k \in 1..n : \A x \in A : step[<<k, x>>] = Merge(x, s[k]) /\ Merge(x, s[k]) \in A
    BY MergeIs
  <2>2. <<>> \in A
    BY EmptySeq
  <2> HIDE DEF A, step
  <2> QED
    BY <2>1, <2>2, FoldingExists
<1>2. Eq(i)
  <2>1. ASSUME NEW t \in SUBSET (1..n), t # {}
        PROVE  step[<<Max(t), i[t \ {Max(t)}]>>] = Merge(i[t \ {Max(t)}], s[Max(t)])
    <3>1. Max(t) \in 1..n /\ t \ {Max(t)} \in SUBSET (1..n)
      BY <2>1, MaxIn
    <3> QED
      BY <1>1, <3>1
  <2>2. i = [t \in SUBSET (1..n) |-> IF t = {} THEN <<>> ELSE step[<<Max(t), i[t \ {Max(t)}]>>]]
    BY <1>1 DEF Folding
  <2> HIDE DEF step
  <2> QED
    BY <2>1, <2>2
<1>3. Eq(it)
  <2> HIDE DEF Eq
  <2> QED
    BY <1>2
<1>4. FoldLeft(Merge, <<>>, s) = it[1..n]
  <2>1. DOMAIN s = 1..n
    OBVIOUS
  <2> QED
    BY <2>1 DEF FoldLeft, MapThenFoldSet
<1> HIDE DEF it
<1>5. \A t \in SUBSET (1..n) : it[t] = IF t = {} THEN <<>> ELSE Merge(it[t \ {Max(t)}], s[Max(t)])
  BY <1>3
<1>6. f[0] = <<>> /\ \A k \in 1..n : f[k] = Merge(f[k - 1], s[k])
  <2>1. f[0] = it[1..0] /\ \A k \in 1..n : f[k] = it[1..k] /\ f[k - 1] = it[1..(k - 1)]
    OBVIOUS
  <2> HIDE DEF f
  <2>2. f[0] = <<>>
    BY <1>5, <2>1, UpTo
  <2>3. ASSUME NEW k \in 1..n
        PROVE  f[k] = Merge(f[k - 1], s[k])
    <3>1. 1..k \in SUBSET (1..n) /\ 1..k # {} /\ Max(1..k) = k /\ (1..k) \ {k} = 1..(k - 1)
      BY UpTo
    <3>2. it[1..k] = Merge(it[1..(k - 1)], s[k])
      BY <1>5, <3>1
    <3> QED
      BY <2>1, <3>2
  <2> QED
    BY <2>2, <2>3
<1>7. f[n] = it[1..n]
  OBVIOUS
<1> HIDE DEF f
<1> QED
  BY <1>4, <1>6, <1>7

\* The ranges a field of ports means cover the ports that its tokens name.
LEMMA PortsRight ==
  ASSUME NEW toks \in Seq({Junk} \cup Range2), ParsePortSpec(toks).ok
  PROVE  /\ ParsePortSpec(toks).items \in Seq(Range2)
         /\ ParsePortSpec(toks).items = <<>> <=> toks = <<>>
         /\ \A p \in Nat : Covers(ParsePortSpec(toks).items, p)
                             <=> \E i \in DOMAIN toks : toks[i][1] <= p /\ p <= toks[i][2]
<1> DEFINE n == Len(toks)
           s == Sorted(toks)
           items == FoldLeft(Merge, <<>>, s)
<1>1. n \in Nat /\ DOMAIN toks = 1..n /\ (toks = <<>> <=> n = 0)
  BY EmptySeq, LenProperties
<1>2. ParsePortSpec(toks).items = items /\ \A i \in DOMAIN toks : ValidPort(toks[i])
  BY DEF ParsePortSpec, Refused
<1>3. \A i \in 1..n : toks[i] \in Range2
  <2>1. \A i \in 1..n : toks[i] \in {Junk} \cup Range2 /\ toks[i] # Junk
    BY <1>1, <1>2, LenProperties DEF ValidPort
  <2> QED
    BY <2>1
<1> HIDE DEF n
<1>4. toks \in [1..n -> Range2]
  <2>1. toks = [i \in 1..n |-> toks[i]]
    BY <1>1, LenProperties DEF n
  <2> QED
    BY <1>3, <2>1
<1>5. /\ s \in [1..n -> Range2]
      /\ \A i \in 1..n : \E j \in 1..n : s[j] = toks[i]
      /\ \A j \in 1..n : \E i \in 1..n : s[j] = toks[i]
      /\ \A i, j \in 1..n : i < j => s[i][1] <= s[j][1]
  <2> HIDE DEF s
  <2> QED
    BY <1>1, <1>4, SortedIs DEF s
<1>6. PICK f : /\ f[0] = <<>>
               /\ \A k \in 1..n : f[k] = Merge(f[k - 1], s[k])
               /\ items = f[n]
  <2> HIDE DEF s
  <2> QED
    BY <1>1, <1>5, MergesAre
<1> HIDE DEF s, items
<1> DEFINE Done(k) == /\ f[k] \in Seq(Range2)
                      /\ k = 0 => f[k] = <<>>
                      /\ k # 0 => f[k] # <<>> /\ Last(f[k])[1] <= s[k][1]
                      /\ \A p \in Nat : Covers(f[k], p) <=> \E i \in 1..k : s[i][1] <= p /\ p <= s[i][2]
           S == {k \in Nat : k <= n => Done(k)}
<1>7. 0 \in S
  <2>1. \A p : ~Covers(<<>>, p)
    BY DEF Covers
  <2>2. \A i \in 1..0 : FALSE
    OBVIOUS
  <2>3. f[0] \in Seq(Range2)
    BY <1>6, EmptySeq
  <2> QED
    BY <1>6, <2>1, <2>2, <2>3
<1>8. ASSUME NEW k \in Nat, k \in S
      PROVE  k + 1 \in S
  <2> SUFFICES ASSUME k + 1 <= n
               PROVE  Done(k + 1)
    OBVIOUS
  <2>1. Done(k)
    BY <1>1, <1>8
  <2>2. f[k + 1] = Merge(f[k], s[k + 1]) /\ s[k + 1] \in Range2 /\ k + 1 \in 1..n
    <3>1. k + 1 \in 1..n /\ (k + 1) - 1 = k
      BY <1>1
    <3> QED
      BY <1>5, <1>6, <3>1
  <2>3. f[k] # <<>> => Last(f[k])[1] <= s[k + 1][1]
    <3> SUFFICES ASSUME f[k] # <<>>
                 PROVE  Last(f[k])[1] <= s[k + 1][1]
      OBVIOUS
    <3>1. k # 0 /\ k \in 1..n /\ k < k + 1 /\ Last(f[k])[1] <= s[k][1]
      BY <1>1, <2>1, <2>2
    <3>2. s[k][1] <= s[k + 1][1]
      BY <1>5, <2>2, <3>1
    <3>3. Last(f[k])[1] \in Nat /\ s[k][1] \in Nat /\ s[k + 1][1] \in Nat
      <4>1. f[k] \in Seq(Range2) /\ Len(f[k]) \in 1..Len(f[k])
        BY <2>1, <3>1, EmptySeq, LenProperties
      <4>2. Last(f[k]) \in Range2
        BY <4>1, LenProperties DEF Last
      <4> QED
        BY <1>5, <2>2, <3>1, <4>2 DEF Range2
    <3> QED
      BY <3>1, <3>2, <3>3
  <2>4. \A p \in Nat : (\E i \in 1..(k + 1) : s[i][1] <= p /\ p <= s[i][2])
          <=> (\E i \in 1..k : s[i][1] <= p /\ p <= s[i][2]) \/ (s[k + 1][1] <= p /\ p <= s[k + 1][2])
    <3>1. \A i \in 1..(k + 1) : i \in 1..k \/ i = k + 1
      OBVIOUS
    <3>2. k + 1 \in 1..(k + 1) /\ \A i \in 1..k : i \in 1..(k + 1)
      OBVIOUS
    <3> QED
      BY <3>1, <3>2
  <2>5. f[k] \in Seq(Range2)
    BY <2>1
  <2>6. /\ f[k + 1] \in Seq(Range2) /\ f[k + 1] # <<>>
        /\ Last(f[k + 1])[1] <= s[k + 1][1]
        /\ \A p \in Nat : Covers(f[k + 1], p)
              <=> Covers(f[k], p) \/ (s[k + 1][1] <= p /\ p <= s[k + 1][2])
    <3> DEFINE new == Merge(f[k], s[k + 1])
    <3>1. /\ new \in Seq(Range2) /\ new # <<>>
          /\ Last(new)[1] <= s[k + 1][1]
          /\ \A p \in Nat : Covers(new, p)
                <=> Covers(f[k], p) \/ (s[k + 1][1] <= p /\ p <= s[k + 1][2])
      BY <2>2, <2>3, <2>5, MergeIs
    <3> QED
      BY <2>2, <3>1
  <2> QED
    BY <2>1, <2>4, <2>6
<1> HIDE DEF S
<1>9. Done(n)
  <2>1. n \in S
    BY <1>1, <1>7, <1>8, SetInduction
  <2> QED
    BY <1>1, <2>1 DEF S
<1>10. \A p \in Nat : (\E i \in 1..n : s[i][1] <= p /\ p <= s[i][2])
                        <=> \E i \in 1..n : toks[i][1] <= p /\ p <= toks[i][2]
  BY <1>5
<1> QED
  BY <1>1, <1>2, <1>6, <1>9, <1>10

(***************************************************************************)
(* Part 15: the addresses of a capture.                                    *)
(***************************************************************************)
LEMMA AddressesPositive ==
  ASSUME NEW k \in 0..Bits
  PROVE  Addresses[k] \in Nat \ {0}
<1> DEFINE Eq(f) == f = [i \in 0..Bits |-> IF i = 0 THEN 1 ELSE 2 * f[i - 1]]
           n == Bits
           A == Nat \ {0}
           step == [q \in (1..n) \X A |-> 2 * q[2]]
           S == {i \in Nat : i <= Bits => Addresses[i] \in Nat \ {0}}
<1>1. Bits \in Nat
  BY CaptureRulesAssumption
<1>2. PICK f \in [0..Bits -> A] : f[0] = 1 /\ \A i \in 1..Bits : f[i] = step[<<i, f[i - 1]>>]
  <2>1. \A i \in 1..n : \A x \in A : step[<<i, x>>] \in A
    OBVIOUS
  <2>2. 1 \in A
    OBVIOUS
  <2> DEFINE b == 1
  <2>4. n \in Nat
    BY <1>1
  <2> HIDE DEF A, step, b, n
  <2>3. \E f : f \in [0..n -> A] /\ Stepping(n, b, step, f)
    <3>1. b \in A
      BY <2>2 DEF b
    <3> QED
      BY <2>1, <2>4, <3>1, StepsExist
  <2> QED
    BY <2>3 DEF b, n, Stepping
<1>3. Eq(f)
  <2>1. ASSUME NEW i \in 1..Bits
        PROVE  i - 1 \in 0..Bits /\ f[i] = 2 * f[i - 1]
    <3>1. i - 1 \in 0..Bits
      BY <1>1
    <3>2. <<i, f[i - 1]>> \in (1..Bits) \X A
      BY <3>1
    <3> QED
      BY <1>2, <3>1, <3>2
  <2>2. \A i \in 0..Bits : f[i] = IF i = 0 THEN 1 ELSE 2 * f[i - 1]
    BY <1>1, <1>2, <2>1
  <2>3. f = [i \in 0..Bits |-> f[i]]
    OBVIOUS
  <2> QED
    BY <2>2, <2>3
<1>4. Eq(Addresses)
  <2>1. Addresses = CHOOSE g : Eq(g)
    BY DEF Addresses
  <2> HIDE DEF Eq
  <2> QED
    BY <1>3, <2>1
<1> HIDE DEF Addresses
<1>5. \A i \in 0..Bits : Addresses[i] = IF i = 0 THEN 1 ELSE 2 * Addresses[i - 1]
  BY <1>4
<1>6. 0 \in S
  BY <1>1, <1>5
<1>7. ASSUME NEW i \in Nat, i \in S
      PROVE  i + 1 \in S
  <2> SUFFICES ASSUME i + 1 <= Bits
               PROVE  Addresses[i + 1] \in Nat \ {0}
    OBVIOUS
  <2>1. i + 1 \in 0..Bits /\ i + 1 # 0 /\ (i + 1) - 1 = i /\ i <= Bits
    BY <1>1
  <2>2. Addresses[i + 1] = 2 * Addresses[i]
    BY <1>5, <2>1
  <2> QED
    BY <1>7, <2>1, <2>2
<1> HIDE DEF S
<1>8. k \in S
  <2>1. k \in Nat
    BY <1>1
  <2> QED
    BY <2>1, <1>1, <1>6, <1>7, SetInduction
<1> QED
  BY <1>1, <1>8 DEF S

\* Two addresses are in one network when what is before its last bits is the same.
LEMMA SameNetwork ==
  ASSUME NEW m \in Nat \ {0}, NEW a \in Nat, NEW b \in Nat
  PROVE  (a \div m = b \div m) <=> (a - (a % m) = b - (b % m))
<1>1. a = m * (a \div m) + (a % m) /\ b = m * (b \div m) + (b % m)
  OBVIOUS
<1>2. a \div m \in Int /\ b \div m \in Int
  OBVIOUS
<1>3. ASSUME NEW x \in Int, NEW y \in Int, m * x = m * y
      PROVE  x = y
  BY <1>3
<1> QED
  BY <1>1, <1>2, <1>3

Tokens4 == [kind : STRING, at : Nat, bits : 0..Bits]

\* A term holds of the addresses that its token means.
LEMMA TermRight ==
  ASSUME NEW t \in Tokens4, NEW at \in Nat
  PROVE  TermHolds(ParseHostTerm(t), at)
           <=> IF t.kind = "net"
               THEN at \div Addresses[Bits - t.bits] = t.at \div Addresses[Bits - t.bits]
               ELSE at = t.at
<1>1. t.at \in Nat /\ t.bits \in 0..Bits /\ Bits \in Nat
  <2>1. Bits \in Nat
    BY CaptureRulesAssumption
  <2>2. t.at \in Nat /\ t.bits \in 0..Bits
    BY DEF Tokens4
  <2> QED
    BY <2>1, <2>2
<1>2. CASE t.kind = "net"
  <2>1. Bits - t.bits \in 0..Bits
    BY <1>1
  <2>2. Addresses[Bits - t.bits] \in Nat \ {0}
    BY <2>1, AddressesPositive
  <2>3. ParseHostTerm(t) = [t EXCEPT !.at = Network(t.at, t.bits)]
    BY <1>2 DEF ParseHostTerm
  <2>4. /\ ParseHostTerm(t).kind = "net" /\ ParseHostTerm(t).bits = t.bits
        /\ ParseHostTerm(t).at = Network(t.at, t.bits)
    BY <1>2, <2>3 DEF Tokens4
  <2>5. TermHolds(ParseHostTerm(t), at) <=> Network(at, t.bits) = Network(t.at, t.bits)
    BY <2>4 DEF TermHolds
  <2> QED
    BY <1>1, <1>2, <2>2, <2>5, SameNetwork DEF Network
<1>3. CASE t.kind # "net"
  BY <1>3 DEF TermHolds, ParseHostTerm
<1> QED
  BY <1>2, <1>3

\* A term that is not there yet.
AddTerm(terms, t) ==
  IF Contains(terms, ParseHostTerm(t)) THEN terms ELSE Append(terms, ParseHostTerm(t))

LEMMA TermsAre ==
  ASSUME NEW n \in Nat, NEW s, DOMAIN s = 1..n, NEW T, \A i \in 1..n : ParseHostTerm(s[i]) \in T
  PROVE  \E f : /\ f[0] = <<>>
                /\ \A k \in 1..n : f[k] = AddTerm(f[k - 1], s[k])
                /\ FoldLeft(LAMBDA terms, t :
                              IF Contains(terms, ParseHostTerm(t)) THEN terms
                              ELSE Append(terms, ParseHostTerm(t)), <<>>, s) = f[n]
<1> DEFINE A == Seq(T)
           step == [q \in (1..n) \X A |-> AddTerm(q[2], s[q[1]])]
           Eq(it) == it = [t \in SUBSET (1..n) |->
                            IF t = {} THEN <<>> ELSE AddTerm(it[t \ {Max(t)}], s[Max(t)])]
           it == CHOOSE i : Eq(i)
           f == [k \in 0..n |-> it[1..k]]
<1>1. PICK i : Folding(n, <<>>, step, i) /\ \A t \in SUBSET (1..n) : i[t] \in A
  <2>1. \A k \in 1..n : \A x \in A : step[<<k, x>>] = AddTerm(x, s[k]) /\ AddTerm(x, s[k]) \in A
    BY AppendProperties DEF AddTerm
  <2>2. <<>> \in A
    BY EmptySeq
  <2> HIDE DEF A, step
  <2> QED
    BY <2>1, <2>2, FoldingExists
<1>2. Eq(i)
  <2>1. ASSUME NEW t \in SUBSET (1..n), t # {}
        PROVE  step[<<Max(t), i[t \ {Max(t)}]>>] = AddTerm(i[t \ {Max(t)}], s[Max(t)])
    <3>1. Max(t) \in 1..n /\ t \ {Max(t)} \in SUBSET (1..n)
      BY <2>1, MaxIn
    <3> QED
      BY <1>1, <3>1
  <2>2. i = [t \in SUBSET (1..n) |-> IF t = {} THEN <<>> ELSE step[<<Max(t), i[t \ {Max(t)}]>>]]
    BY <1>1 DEF Folding
  <2> HIDE DEF step
  <2> QED
    BY <2>1, <2>2
<1>3. Eq(it)
  <2> HIDE DEF Eq
  <2> QED
    BY <1>2
<1>4. FoldLeft(LAMBDA terms, t :
                 IF Contains(terms, ParseHostTerm(t)) THEN terms
                 ELSE Append(terms, ParseHostTerm(t)), <<>>, s) = it[1..n]
  BY DEF FoldLeft, MapThenFoldSet, AddTerm
<1> HIDE DEF it
<1>5. \A t \in SUBSET (1..n) : it[t] = IF t = {} THEN <<>> ELSE AddTerm(it[t \ {Max(t)}], s[Max(t)])
  BY <1>3
<1>6. f[0] = <<>> /\ \A k \in 1..n : f[k] = AddTerm(f[k - 1], s[k])
  <2>1. f[0] = it[1..0] /\ \A k \in 1..n : f[k] = it[1..k] /\ f[k - 1] = it[1..(k - 1)]
    OBVIOUS
  <2> HIDE DEF f
  <2>2. f[0] = <<>>
    BY <1>5, <2>1, UpTo
  <2>3. ASSUME NEW k \in 1..n
        PROVE  f[k] = AddTerm(f[k - 1], s[k])
    <3>1. 1..k \in SUBSET (1..n) /\ 1..k # {} /\ Max(1..k) = k /\ (1..k) \ {k} = 1..(k - 1)
      BY UpTo
    <3>2. it[1..k] = AddTerm(it[1..(k - 1)], s[k])
      BY <1>5, <3>1
    <3> QED
      BY <2>1, <3>2
  <2> QED
    BY <2>2, <2>3
<1>7. f[n] = it[1..n]
  OBVIOUS
<1> HIDE DEF f
<1> QED
  BY <1>4, <1>6, <1>7

LEMMA AddTermIs ==
  ASSUME NEW T, NEW m \in Seq(T), NEW t, ParseHostTerm(t) \in T
  PROVE  /\ AddTerm(m, t) \in Seq(T)
         /\ AddTerm(m, t) # <<>>
         /\ \A x : Contains(AddTerm(m, t), x) <=> Contains(m, x) \/ x = ParseHostTerm(t)
<1> DEFINE y == ParseHostTerm(t)
           l == Len(m)
           new == AddTerm(m, t)
<1>1. l \in Nat
  BY LenProperties
<1>2. CASE Contains(m, y)
  <2>1. new = m
    BY <1>2 DEF AddTerm
  <2>2. m # <<>>
    BY <1>2, EmptySeq DEF Contains
  <2> QED
    BY <1>2, <2>1, <2>2
<1>3. CASE ~Contains(m, y)
  <2>1. new = Append(m, y)
    BY <1>3 DEF AddTerm
  <2> HIDE DEF y
  <2>2. /\ new \in Seq(T) /\ Len(new) = l + 1
        /\ \A j \in 1..l : new[j] = m[j]
        /\ new[l + 1] = y
    BY <2>1, AppendProperties DEF y
  <2> HIDE DEF new
  <2>3. new # <<>>
    BY <1>1, <2>2, EmptySeq
  <2>4. \A x : Contains(new, x) <=> Contains(m, x) \/ x = y
    <3>1. \A j \in 1..(l + 1) : j \in 1..l \/ j = l + 1
      BY <1>1
    <3>2. l + 1 \in 1..(l + 1) /\ \A j \in 1..l : j \in 1..(l + 1)
      BY <1>1
    <3>3. \A x : Contains(m, x) <=> \E j \in 1..l : m[j] = x
      BY DEF Contains
    <3>4. \A x : Contains(new, x) <=> \E j \in 1..(l + 1) : new[j] = x
      BY <2>2 DEF Contains
    <3> HIDE DEF l
    <3> QED
      BY <2>2, <3>1, <3>2, <3>3, <3>4
  <2> QED
    BY <2>2, <2>3, <2>4 DEF new, y
<1> QED
  BY <1>2, <1>3

\* The terms of a field of hosts are those of its tokens.
LEMMA HostsRight ==
  ASSUME NEW toks \in Seq(Tokens4), ParseHostSpec(toks).ok
  PROVE  /\ \E T : ParseHostSpec(toks).items \in Seq(T)
         /\ ParseHostSpec(toks).items = <<>> <=> toks = <<>>
         /\ \A x : Contains(ParseHostSpec(toks).items, x)
                     <=> \E i \in DOMAIN toks : x = ParseHostTerm(toks[i])
<1> DEFINE n == Len(toks)
           T == {ParseHostTerm(toks[i]) : i \in 1..n}
           items == FoldLeft(LAMBDA terms, t :
                               IF Contains(terms, ParseHostTerm(t)) THEN terms
                               ELSE Append(terms, ParseHostTerm(t)), <<>>, toks)
<1>1. n \in Nat /\ DOMAIN toks = 1..n /\ (toks = <<>> <=> n = 0)
  BY EmptySeq, LenProperties
<1>2. ParseHostSpec(toks).items = items
  BY DEF ParseHostSpec, Refused
<1> HIDE DEF n
<1>3. PICK f : /\ f[0] = <<>>
               /\ \A k \in 1..n : f[k] = AddTerm(f[k - 1], toks[k])
               /\ items = f[n]
  <2>1. \A i \in 1..n : ParseHostTerm(toks[i]) \in T
    OBVIOUS
  <2> HIDE DEF T
  <2> QED
    BY <1>1, <2>1, TermsAre
<1> HIDE DEF items
<1> DEFINE Meant(k, x) == \E i \in 1..k : x = ParseHostTerm(toks[i])
           Done(k) == /\ f[k] \in Seq(T)
                      /\ f[k] = <<>> <=> k = 0
                      /\ \A x : Contains(f[k], x) <=> Meant(k, x)
           S == {k \in Nat : k <= n => Done(k)}
<1>4. 0 \in S
  <2>1. f[0] \in Seq(T) /\ Len(f[0]) = 0 /\ \A i \in 1..0 : FALSE
    BY <1>3, EmptySeq
  <2>2. \A x : ~Contains(f[0], x) /\ ~Meant(0, x)
    BY <2>1 DEF Contains
  <2> HIDE DEF T, Meant
  <2> QED
    BY <1>3, <2>1, <2>2
<1>5. ASSUME NEW k \in Nat, k \in S
      PROVE  k + 1 \in S
  <2> SUFFICES ASSUME k + 1 <= n
               PROVE  Done(k + 1)
    OBVIOUS
  <2>1. Done(k)
    <3> HIDE DEF Done
    <3> QED
      BY <1>1, <1>5
  <2>2. /\ f[k + 1] = AddTerm(f[k], toks[k + 1]) /\ ParseHostTerm(toks[k + 1]) \in T
        /\ k + 1 \in 1..n /\ k + 1 # 0
    <3>1. k + 1 \in 1..n /\ (k + 1) - 1 = k
      BY <1>1
    <3> QED
      BY <1>3, <3>1
  <2>3. \A x : Meant(k + 1, x) <=> Meant(k, x) \/ x = ParseHostTerm(toks[k + 1])
    <3>1. \A i \in 1..(k + 1) : i \in 1..k \/ i = k + 1
      OBVIOUS
    <3>2. k + 1 \in 1..(k + 1) /\ \A i \in 1..k : i \in 1..(k + 1)
      OBVIOUS
    <3> QED
      BY <3>1, <3>2
  <2> HIDE DEF T, Meant
  <2>4. f[k] \in Seq(T)
    BY <2>1
  <2>5. /\ AddTerm(f[k], toks[k + 1]) \in Seq(T)
        /\ AddTerm(f[k], toks[k + 1]) # <<>>
        /\ \A x : Contains(AddTerm(f[k], toks[k + 1]), x)
                    <=> Contains(f[k], x) \/ x = ParseHostTerm(toks[k + 1])
    BY <2>2, <2>4, AddTermIs
  <2> QED
    BY <2>1, <2>2, <2>3, <2>5
<1> HIDE DEF S
<1>6. Done(n)
  <2>1. n \in S
    BY <1>1, <1>4, <1>5, SetInduction
  <2> QED
    BY <1>1, <2>1 DEF S
<1>7. \A x : Meant(n, x) <=> \E i \in DOMAIN toks : x = ParseHostTerm(toks[i])
  BY <1>1
<1> HIDE DEF Meant, T
<1> QED
  BY <1>1, <1>2, <1>3, <1>6, <1>7

(***************************************************************************)
(* Part 16: the filter of a capture.                                       *)
(***************************************************************************)
Begin == [val |-> TRUE, op |-> "and", outer |-> <<>>]

StateFields == {"val", "op", "outer"}

\* What the fold of Matches computes of each set of indices.
Parsing(n, w, pkt, it) ==
  it = [t \in SUBSET (1..n) |-> IF t = {} THEN Begin ELSE Reads(it[t \ {Max(t)}], w[Max(t)], pkt)]

LEMMA ParsingExists ==
  ASSUME NEW n \in Nat, NEW w, NEW pkt
  PROVE  \E it : Parsing(n, w, pkt, it)
<1> DEFINE Has(k) == \E it : Parsing(k, w, pkt, it)
           S == {k \in Nat : Has(k)}
<1>1. 0 \in S
  <2> DEFINE it == [t \in SUBSET (1..0) |-> Begin]
  <2>1. \A t \in SUBSET (1..0) : t = {}
    OBVIOUS
  <2>2. Parsing(0, w, pkt, it)
    BY <2>1 DEF Parsing
  <2> QED
    BY <2>2
<1>2. ASSUME NEW k \in Nat, k \in S
      PROVE  k + 1 \in S
  <2>1. PICK it : Parsing(k, w, pkt, it)
    BY <1>2
  <2> DEFINE new == [t \in SUBSET (1..(k + 1)) |->
                      IF k + 1 \in t THEN Reads(it[t \ {k + 1}], w[k + 1], pkt) ELSE it[t]]
  <2>2. \A t \in SUBSET (1..k) : it[t] = IF t = {} THEN Begin ELSE Reads(it[t \ {Max(t)}], w[Max(t)], pkt)
    BY <2>1 DEF Parsing
  <2>3. \A t \in SUBSET (1..(k + 1)) : /\ t \ {k + 1} \in SUBSET (1..k)
                                       /\ k + 1 \notin t => t \in SUBSET (1..k)
    OBVIOUS
  <2>4. ASSUME NEW t \in SUBSET (1..(k + 1))
        PROVE  new[t] = IF t = {} THEN Begin ELSE Reads(new[t \ {Max(t)}], w[Max(t)], pkt)
    <3>1. CASE k + 1 \in t
      <4>1. Max(t) = k + 1
        <5>1. k + 1 \in Nat /\ t # {} /\ t \in SUBSET (1..(k + 1))
          BY <3>1
        <5>2. Max(t) \in t /\ k + 1 <= Max(t)
          BY <3>1, <5>1, MaxIn
        <5>3. Max(t) \in 1..(k + 1)
          BY <5>1, <5>2
        <5> QED
          BY <5>2, <5>3
      <4>2. new[t] = Reads(it[t \ {k + 1}], w[k + 1], pkt)
        BY <3>1
      <4>3. t \ {k + 1} \in SUBSET (1..k) /\ t \ {k + 1} \in SUBSET (1..(k + 1))
        BY <2>3
      <4>4. new[t \ {k + 1}] = it[t \ {k + 1}]
        BY <4>3
      <4> HIDE DEF new
      <4> QED
        BY <3>1, <4>1, <4>2, <4>4
    <3>2. CASE k + 1 \notin t
      <4>1. t \in SUBSET (1..k) /\ new[t] = it[t]
        BY <2>3, <3>2
      <4>2. CASE t = {}
        BY <2>2, <4>1, <4>2
      <4>3. CASE t # {}
        <5>1. Max(t) \in t
          BY <4>1, <4>3, MaxIn
        <5>2. t \ {Max(t)} \in SUBSET (1..(k + 1)) /\ k + 1 \notin t \ {Max(t)}
          BY <3>2
        <5>3. new[t \ {Max(t)}] = it[t \ {Max(t)}]
          BY <5>2
        <5> HIDE DEF new
        <5> QED
          BY <2>2, <4>1, <4>3, <5>3
      <4> QED
        BY <4>2, <4>3
    <3> QED
      BY <3>1, <3>2
  <2>5. new = [t \in SUBSET (1..(k + 1)) |-> new[t]]
    OBVIOUS
  <2> HIDE DEF new
  <2>6. Parsing(k + 1, w, pkt, new)
    BY <2>4, <2>5 DEF Parsing
  <2> QED
    BY <2>6
<1> HIDE DEF S
<1>3. n \in S
  BY <1>1, <1>2, SetInduction
<1> QED
  BY <1>3 DEF S

\* f[k] is the state after the first k words.
Parses(n, w, pkt, f) == f[0] = Begin /\ \A k \in 1..n : f[k] = Reads(f[k - 1], w[k], pkt)

LEMMA MatchesIs ==
  ASSUME NEW n \in Nat, NEW w, DOMAIN w = 1..n, NEW pkt
  PROVE  \E f : Parses(n, w, pkt, f) /\ Matches(w, pkt) = f[n].val
<1> DEFINE Eq(it) == Parsing(n, w, pkt, it)
           it == CHOOSE i : Eq(i)
           f == [k \in 0..n |-> it[1..k]]
<1>1. Eq(it)
  <2>1. \E i : Eq(i)
    BY ParsingExists
  <2> HIDE DEF Eq
  <2> QED
    BY <2>1
<1>2. Matches(w, pkt) = it[1..n].val
  BY DEF Matches, FoldLeft, MapThenFoldSet, Parsing, Begin
<1> HIDE DEF it
<1>3. \A t \in SUBSET (1..n) : it[t] = IF t = {} THEN Begin ELSE Reads(it[t \ {Max(t)}], w[Max(t)], pkt)
  BY <1>1 DEF Parsing
<1>4. f[0] = it[1..0] /\ f[n] = it[1..n] /\ \A k \in 1..n : f[k] = it[1..k] /\ f[k - 1] = it[1..(k - 1)]
  OBVIOUS
<1> HIDE DEF f
<1>5. f[0] = Begin
  BY <1>3, <1>4, UpTo
<1>6. ASSUME NEW k \in 1..n
      PROVE  f[k] = Reads(f[k - 1], w[k], pkt)
  <2>1. 1..k \in SUBSET (1..n) /\ 1..k # {} /\ Max(1..k) = k /\ (1..k) \ {k} = 1..(k - 1)
    BY UpTo
  <2>2. it[1..k] = Reads(it[1..(k - 1)], w[k], pkt)
    BY <1>3, <2>1
  <2> QED
    BY <1>4, <2>2
<1>7. Parses(n, w, pkt, f)
  BY <1>5, <1>6 DEF Parses
<1> QED
  BY <1>2, <1>4, <1>7

\* What one word does to the state.
LEMMA ReadsTerm ==
  ASSUME NEW st, DOMAIN st = StateFields, NEW w, w.word \in {"host", "port"}, NEW pkt
  PROVE  /\ DOMAIN Reads(st, w, pkt) = StateFields
         /\ Reads(st, w, pkt).op = st.op /\ Reads(st, w, pkt).outer = st.outer
         /\ Reads(st, w, pkt).val \in BOOLEAN
         /\ st.op = "and" => (Reads(st, w, pkt).val <=> st.val /\ Holds(w, pkt))
         /\ st.op = "or" => (Reads(st, w, pkt).val <=> st.val \/ Holds(w, pkt))
<1>1. Reads(st, w, pkt) = Join(st, Holds(w, pkt))
  BY DEF Reads
<1>2. Join(st, Holds(w, pkt)) =
        [st EXCEPT !.val = IF st.op = "and" THEN st.val /\ Holds(w, pkt) ELSE st.val \/ Holds(w, pkt)]
  BY DEF Join
<1> HIDE DEF Holds
<1> QED
  BY <1>1, <1>2 DEF StateFields

LEMMA ReadsOther ==
  ASSUME NEW st, DOMAIN st = StateFields, NEW pkt
  PROVE  /\ \A op \in {"and", "or"} :
              LET r == Reads(st, Word(op), pkt)
              IN DOMAIN r = StateFields /\ r.op = op /\ r.val = st.val /\ r.outer = st.outer
         /\ Reads(st, Word("("), pkt) = [val |-> TRUE, op |-> "and", outer |-> <<st>>]
         /\ Reads(st, Word(")"), pkt) = Join(st.outer[1], st.val)
  BY DEF Reads, Word, StateFields

\* The words of a selection, by their place.
TermsBetween(word, items) ==
  /\ \A i \in 1..Len(items) : BpfWords(word, items)[2 * i - 1] = [word |-> word, arg |-> items[i]]
  /\ \A i \in 1..(Len(items) - 1) : BpfWords(word, items)[2 * i] = Word("or")

LEMMA BpfIs ==
  ASSUME NEW word, NEW T, NEW items \in Seq(T)
  PROVE  /\ items = <<>> => BpfWords(word, items) = <<>>
         /\ items # <<>> =>
              /\ DOMAIN BpfWords(word, items) = 1..(2 * Len(items) - 1)
              /\ Len(BpfWords(word, items)) = 2 * Len(items) - 1
              /\ BpfWords(word, items) \in Seq(Range(BpfWords(word, items)))
         /\ TermsBetween(word, items)
<1> DEFINE n == Len(items)
           w == BpfWords(word, items)
<1>1. n \in Nat /\ (items = <<>> <=> n = 0)
  BY EmptySeq, LenProperties
<1>2. w = [k \in 1..(2 * n - 1) |->
            IF k % 2 = 1 THEN [word |-> word, arg |-> items[(k + 1) \div 2]] ELSE Word("or")]
  BY DEF BpfWords
<1> HIDE DEF n, w
<1>3. ASSUME items = <<>>
      PROVE  w = <<>>
  <2>1. 1..(2 * n - 1) = {}
    BY <1>1, <1>3
  <2> QED
    BY <1>2, <2>1
<1>4. ASSUME items # <<>>
      PROVE  DOMAIN w = 1..(2 * n - 1) /\ Len(w) = 2 * n - 1 /\ w \in Seq(Range(w))
  <2>1. 2 * n - 1 \in Nat
    BY <1>1, <1>4
  <2>2. DOMAIN w = 1..(2 * n - 1)
    BY <1>2
  <2>3. w \in [1..(2 * n - 1) -> Range(w)]
    BY <1>2 DEF Range
  <2> QED
    BY <2>1, <2>2, <2>3, AsSeq
<1>5. ASSUME NEW i \in 1..n
      PROVE  w[2 * i - 1] = [word |-> word, arg |-> items[i]]
  <2>1. 2 * i - 1 \in 1..(2 * n - 1) /\ (2 * i - 1) % 2 = 1 /\ ((2 * i - 1) + 1) \div 2 = i
    BY <1>1
  <2> QED
    BY <1>2, <2>1
<1>6. ASSUME NEW i \in 1..(n - 1)
      PROVE  w[2 * i] = Word("or")
  <2>1. 2 * i \in 1..(2 * n - 1) /\ (2 * i) % 2 # 1
    BY <1>1
  <2> QED
    BY <1>2, <2>1
<1> QED
  BY <1>3, <1>4, <1>5, <1>6 DEF n, w, TermsBetween

\* Does a term of a selection hold?
Some(word, items, pkt) == \E i \in 1..Len(items) : Holds([word |-> word, arg |-> items[i]], pkt)

\* The words of a selection stand in w after the first off words.
StandsAt(w, off, part) == \A k \in 1..Len(part) : w[off + k] = part[k]

\* Words that are read one after another, from state f[off] on.
ReadFrom(w, pkt, f, off, len) == \A k \in 1..len : f[off + k] = Reads(f[off + k - 1], w[off + k], pkt)

\* The words of a selection are read from a state that nothing was selected in.
ReadsSelection(word, items, pkt, w, off, f) ==
  /\ StandsAt(w, off, BpfWords(word, items))
  /\ ReadFrom(w, pkt, f, off, 2 * Len(items) - 1)
  /\ DOMAIN f[off] = StateFields /\ f[off].val = TRUE /\ f[off].op = "and"

\* A selection that is read alone comes to whether one of its terms holds.
LEMMA SelectionReads ==
  ASSUME NEW word \in {"host", "port"}, NEW T, NEW items \in Seq(T), items # <<>>, NEW pkt,
         NEW w, NEW off \in Nat, NEW f, ReadsSelection(word, items, pkt, w, off, f),
         NEW e, e = off + 2 * Len(items) - 1
  PROVE  /\ DOMAIN f[e] = StateFields
         /\ f[e].outer = f[off].outer
         /\ f[e].val \in BOOLEAN
         /\ f[e].val <=> Some(word, items, pkt)
<1> DEFINE n == Len(items)
           H(i) == Holds([word |-> word, arg |-> items[i]], pkt)
           at(i) == f[off + 2 * i - 1]
           Done(i) == /\ DOMAIN at(i) = StateFields /\ at(i).outer = f[off].outer
                      /\ at(i).op = IF i = 1 THEN "and" ELSE "or"
                      /\ at(i).val \in BOOLEAN
                      /\ at(i).val <=> \E j \in 1..i : H(j)
           S == {i \in Nat : i + 1 <= n => Done(i + 1)}
<1>10. /\ StandsAt(w, off, BpfWords(word, items))
       /\ ReadFrom(w, pkt, f, off, 2 * Len(items) - 1)
       /\ DOMAIN f[off] = StateFields /\ f[off].val = TRUE /\ f[off].op = "and"
  BY DEF ReadsSelection
<1>1. n \in Nat /\ n # 0 /\ Len(BpfWords(word, items)) = 2 * n - 1
  BY BpfIs, EmptySeq, LenProperties
<1>9. /\ \A i \in 1..n : BpfWords(word, items)[2 * i - 1] = [word |-> word, arg |-> items[i]]
      /\ \A i \in 1..(n - 1) : BpfWords(word, items)[2 * i] = Word("or")
  <2>1. TermsBetween(word, items)
    BY BpfIs
  <2> QED
    BY <2>1 DEF TermsBetween
<1>2. ASSUME NEW i \in 1..n
      PROVE  f[off + (2 * i - 1)] = Reads(f[off + (2 * i - 1) - 1], [word |-> word, arg |-> items[i]], pkt)
  <2>1. 2 * i - 1 \in 1..(2 * n - 1)
    BY <1>1
  <2>2. w[off + (2 * i - 1)] = [word |-> word, arg |-> items[i]]
    <3>1. w[off + (2 * i - 1)] = BpfWords(word, items)[2 * i - 1]
      BY <1>1, <1>10, <2>1 DEF StandsAt
    <3> QED
      BY <1>9, <3>1
  <2> QED
    BY <1>10, <2>1, <2>2 DEF ReadFrom
<1>3. ASSUME NEW i \in 1..(n - 1)
      PROVE  f[off + 2 * i] = Reads(f[off + 2 * i - 1], Word("or"), pkt)
  <2>1. 2 * i \in 1..(2 * n - 1)
    BY <1>1
  <2>2. w[off + 2 * i] = Word("or")
    <3>1. w[off + 2 * i] = BpfWords(word, items)[2 * i]
      BY <1>1, <1>10, <2>1 DEF StandsAt
    <3> QED
      BY <1>9, <3>1
  <2> QED
    BY <1>10, <2>1, <2>2 DEF ReadFrom
<1> HIDE DEF n, H
<1>4. 0 \in S
  <2>1. 1 \in 1..n /\ off + (2 * 1 - 1) = off + 1 /\ off + (2 * 1 - 1) - 1 = off /\ off + 2 * 1 - 1 = off + 1
    BY <1>1
  <2>2. f[off + 1] = Reads(f[off], [word |-> word, arg |-> items[1]], pkt)
    BY <1>2, <2>1
  <2>3. /\ DOMAIN f[off + 1] = StateFields /\ f[off + 1].outer = f[off].outer
        /\ f[off + 1].op = "and" /\ f[off + 1].val \in BOOLEAN
        /\ f[off + 1].val <=> H(1)
    <3> DEFINE x == [word |-> word, arg |-> items[1]]
    <3>1. x.word \in {"host", "port"}
      OBVIOUS
    <3>2. H(1) <=> Holds(x, pkt)
      BY DEF H
    <3> HIDE DEF x
    <3>3. f[off + 1] = Reads(f[off], x, pkt)
      BY <2>2 DEF x
    <3> QED
      BY <1>10, <3>1, <3>2, <3>3, ReadsTerm
  <2>4. (\E j \in 1..1 : H(j)) <=> H(1)
    OBVIOUS
  <2>5. Done(1)
    BY <2>1, <2>3, <2>4
  <2> QED
    BY <2>5
<1>5. ASSUME NEW i \in Nat, i \in S
      PROVE  i + 1 \in S
  <2> SUFFICES ASSUME (i + 1) + 1 <= n
               PROVE  Done((i + 1) + 1)
    OBVIOUS
  <2> DEFINE j == i + 1
             x == [word |-> word, arg |-> items[j + 1]]
  <2>1. /\ j \in 1..n /\ j \in 1..(n - 1) /\ j + 1 \in 1..n /\ j + 1 # 1
        /\ off + (2 * (j + 1) - 1) = off + 2 * (j + 1) - 1
        /\ off + (2 * (j + 1) - 1) - 1 = off + 2 * j
    BY <1>1
  <2>2. Done(j)
    BY <1>1, <1>5, <2>1
  <2> HIDE DEF j
  <2>3. /\ f[off + 2 * j] = Reads(at(j), Word("or"), pkt)
        /\ at(j + 1) = Reads(f[off + 2 * j], x, pkt)
    BY <1>2, <1>3, <2>1
  <2>4. /\ DOMAIN f[off + 2 * j] = StateFields /\ f[off + 2 * j].op = "or"
        /\ f[off + 2 * j].val = at(j).val /\ f[off + 2 * j].outer = f[off].outer
    <3>1. DOMAIN at(j) = StateFields
      BY <2>2
    <3> HIDE DEF at
    <3> QED
      BY <2>2, <2>3, <3>1, ReadsOther
  <2>5. x.word \in {"host", "port"} /\ (H(j + 1) <=> Holds(x, pkt))
    BY DEF H
  <2> HIDE DEF x
  <2>6. /\ DOMAIN at(j + 1) = StateFields /\ at(j + 1).outer = f[off].outer
        /\ at(j + 1).op = "or" /\ at(j + 1).val \in BOOLEAN
        /\ at(j + 1).val <=> at(j).val \/ H(j + 1)
    BY <2>3, <2>4, <2>5, ReadsTerm
  <2>7. (\E k \in 1..(j + 1) : H(k)) <=> (\E k \in 1..j : H(k)) \/ H(j + 1)
    <3>1. \A k \in 1..(j + 1) : k \in 1..j \/ k = j + 1
      BY <2>1
    <3>2. j + 1 \in 1..(j + 1) /\ \A k \in 1..j : k \in 1..(j + 1)
      BY <2>1
    <3> QED
      BY <3>1, <3>2
  <2>8. Done(j + 1)
    BY <2>1, <2>2, <2>6, <2>7
  <2> QED
    BY <2>8 DEF j
<1> HIDE DEF S
<1>6. n - 1 \in S /\ n - 1 \in Nat
  BY <1>1, <1>4, <1>5, SetInduction
<1>7. Done(n)
  <2>1. (n - 1) + 1 = n
    BY <1>1
  <2> HIDE DEF Done
  <2> QED
    BY <1>1, <1>6, <2>1 DEF S
<1>8. Some(word, items, pkt) <=> \E j \in 1..n : H(j)
  BY DEF Some, n, H
<1> QED
  BY <1>7, <1>8 DEF n

\* The words of a selection between parentheses, by their place.
Enclosed(g, part) ==
  /\ Len(g) = Len(part) + 2
  /\ g[1] = Word("(") /\ g[Len(part) + 2] = Word(")")
  /\ \A k \in 1..Len(part) : g[k + 1] = part[k]

LEMMA GroupIs ==
  ASSUME NEW S, NEW part \in Seq(S), {Word("("), Word(")")} \subseteq S
  PROVE  /\ Group(part) \in Seq(S)
         /\ Len(part) <= 1 => Group(part) = part
         /\ Len(part) > 1 => Enclosed(Group(part), part)
<1> DEFINE n == Len(part)
           a == <<Word("(")>>
           b == <<Word(")")>>
           h == a \o part
           g == h \o b
<1>1. n \in Nat
  BY LenProperties
<1>2. CASE n <= 1
  BY <1>1, <1>2 DEF Group
<1>3. CASE ~(n <= 1)
  <2>1. Group(part) = g
    BY <1>3 DEF Group
  <2>2. a \in Seq(S) /\ b \in Seq(S) /\ Len(a) = 1 /\ Len(b) = 1 /\ a[1] = Word("(") /\ b[1] = Word(")")
    OBVIOUS
  <2> HIDE DEF a, b
  <2>3. /\ h \in Seq(S) /\ Len(h) = n + 1
        /\ \A i \in 1..(n + 1) : h[i] = IF i <= 1 THEN a[i] ELSE part[i - 1]
    <3>1. /\ h \in Seq(S) /\ Len(h) = Len(a) + Len(part)
          /\ \A i \in 1..(Len(a) + Len(part)) : h[i] = IF i <= Len(a) THEN a[i] ELSE part[i - Len(a)]
      BY <2>2, ConcatProperties
    <3>2. Len(a) + Len(part) = n + 1
      BY <1>1, <2>2
    <3> HIDE DEF h, n
    <3> QED
      BY <2>2, <3>1, <3>2
  <2> HIDE DEF h
  <2>4. /\ g \in Seq(S) /\ Len(g) = n + 2
        /\ \A i \in 1..(n + 2) : g[i] = IF i <= n + 1 THEN h[i] ELSE b[i - (n + 1)]
    <3>1. /\ g \in Seq(S) /\ Len(g) = Len(h) + Len(b)
          /\ \A i \in 1..(Len(h) + Len(b)) : g[i] = IF i <= Len(h) THEN h[i] ELSE b[i - Len(h)]
      BY <2>2, <2>3, ConcatProperties
    <3>2. Len(h) + Len(b) = n + 2
      BY <1>1, <2>2, <2>3
    <3> HIDE DEF g, n
    <3> QED
      BY <2>3, <3>1, <3>2
  <2> HIDE DEF g
  <2>5. g[1] = Word("(")
    <3>1. 1 \in 1..(n + 2) /\ 1 \in 1..(n + 1) /\ 1 <= n + 1
      BY <1>1
    <3> QED
      BY <2>2, <2>3, <2>4, <3>1
  <2>6. g[n + 2] = Word(")")
    <3>1. n + 2 \in 1..(n + 2) /\ ~(n + 2 <= n + 1) /\ (n + 2) - (n + 1) = 1
      BY <1>1
    <3> QED
      BY <2>2, <2>4, <3>1
  <2>7. \A k \in 1..n : g[k + 1] = part[k]
    <3> TAKE k \in 1..n
    <3>1. k + 1 \in 1..(n + 2) /\ k + 1 \in 1..(n + 1) /\ k + 1 <= n + 1 /\ ~(k + 1 <= 1) /\ (k + 1) - 1 = k
      BY <1>1
    <3> QED
      BY <2>3, <2>4, <3>1
  <2> QED
    BY <1>3, <2>1, <2>4, <2>5, <2>6, <2>7 DEF Enclosed
<1> QED
  BY <1>2, <1>3

\* The words of a selection, enclosed when there are several, are read from a state f[off].
ReadsGroup(word, items, pkt, w, off, f) ==
  /\ StandsAt(w, off, Group(BpfWords(word, items)))
  /\ ReadFrom(w, pkt, f, off, Len(Group(BpfWords(word, items))))
  /\ DOMAIN f[off] = StateFields /\ f[off].val \in BOOLEAN /\ f[off].op = "and"

\* A selection that is joined to what was read before it.
LEMMA GroupReads ==
  ASSUME NEW word \in {"host", "port"}, NEW T, NEW items \in Seq(T), items # <<>>, NEW pkt,
         NEW w, NEW off \in Nat, NEW f, ReadsGroup(word, items, pkt, w, off, f),
         NEW e, e = off + Len(Group(BpfWords(word, items)))
  PROVE  /\ DOMAIN f[e] = StateFields
         /\ f[e].op = "and" /\ f[e].outer = f[off].outer
         /\ f[e].val \in BOOLEAN
         /\ f[e].val <=> f[off].val /\ Some(word, items, pkt)
<1> DEFINE n == Len(items)
           part == BpfWords(word, items)
           g == Group(part)
           S == Range(part) \cup {Word("("), Word(")")}
<1>1. /\ n \in Nat /\ n # 0 /\ Len(part) = 2 * n - 1
      /\ part \in Seq(Range(part))
  BY BpfIs, EmptySeq, LenProperties
<1>0. /\ StandsAt(w, off, g) /\ ReadFrom(w, pkt, f, off, Len(g))
      /\ DOMAIN f[off] = StateFields /\ f[off].val \in BOOLEAN /\ f[off].op = "and"
  BY DEF ReadsGroup
<1>2. TermsBetween(word, items)
  BY BpfIs
<1>3. /\ Len(part) <= 1 => g = part
      /\ Len(part) > 1 => Enclosed(g, part)
  <2> HIDE DEF part
  <2>1. Range(part) \subseteq S /\ {Word("("), Word(")")} \subseteq S
    OBVIOUS
  <2> HIDE DEF S
  <2>2. part \in Seq(S)
    BY <1>1, <2>1, SeqDef
  <2> QED
    BY <2>1, <2>2, GroupIs
<1>4. CASE n = 1
  <2> DEFINE x == [word |-> word, arg |-> items[1]]
  <2>1. g = part /\ Len(g) = 1 /\ e = off + 1
    <3> HIDE DEF g, part, n
    <3>1. Len(part) = 1
      BY <1>1, <1>4
    <3>2. g = part
      BY <1>3, <3>1
    <3>3. e = off + Len(g)
      BY DEF g, part
    <3> QED
      BY <3>1, <3>2, <3>3
  <2>2. part[1] = x
    <3>1. 1 \in 1..Len(items) /\ 2 * 1 - 1 = 1
      BY <1>4
    <3> QED
      BY <1>2, <3>1 DEF TermsBetween
  <2>3. w[off + 1] = x
    BY <1>0, <2>1, <2>2 DEF StandsAt
  <2>4. f[e] = Reads(f[off], x, pkt)
    <3>1. 1 \in 1..1 /\ off + 1 - 1 = off
      OBVIOUS
    <3>2. f[off + 1] = Reads(f[off + 1 - 1], w[off + 1], pkt)
      BY <1>0, <2>1, <3>1 DEF ReadFrom
    <3> QED
      BY <2>1, <2>3, <3>1, <3>2
  <2>5. x.word \in {"host", "port"} /\ (Some(word, items, pkt) <=> Holds(x, pkt))
    BY <1>4 DEF Some
  <2> HIDE DEF x
  <2> QED
    BY <1>0, <2>4, <2>5, ReadsTerm
<1>5. CASE n # 1
  <2>1. Enclosed(g, part) /\ Len(g) = 2 * n + 1 /\ e = off + (2 * n + 1)
    <3>1. Len(part) > 1
      <4> HIDE DEF part, n
      <4> QED
        BY <1>1, <1>5
    <3> HIDE DEF g, part
    <3>2. Enclosed(g, part)
      BY <1>3, <3>1
    <3>3. Len(g) = 2 * n + 1
      BY <1>1, <3>2 DEF Enclosed
    <3> QED
      BY <3>2, <3>3 DEF g, part
  <2> HIDE DEF n
  <2>2. /\ w[off + 1] = Word("(") /\ w[off + (2 * n + 1)] = Word(")")
        /\ StandsAt(w, off + 1, part)
    <3>1. 1 \in 1..(2 * n + 1) /\ 2 * n + 1 \in 1..(2 * n + 1) /\ (2 * n - 1) + 2 = 2 * n + 1
      BY <1>1
    <3>2. \A k \in 1..(2 * n + 1) : w[off + k] = g[k]
      BY <1>0, <2>1 DEF StandsAt
    <3>3. w[off + 1] = Word("(")
      BY <2>1, <3>1, <3>2 DEF Enclosed
    <3>4. g[2 * n + 1] = Word(")")
      BY <1>1, <2>1, <3>1 DEF Enclosed
    <3>5. StandsAt(w, off + 1, part)
      <4>1. ASSUME NEW k \in 1..Len(part)
            PROVE  w[off + 1 + k] = part[k]
        <5>1. k + 1 \in 1..(2 * n + 1) /\ off + 1 + k = off + (k + 1)
          BY <1>1
        <5>2. g[k + 1] = part[k]
          BY <2>1 DEF Enclosed
        <5> HIDE DEF g, part
        <5> QED
          BY <3>2, <5>1, <5>2
      <4> QED
        BY <4>1 DEF StandsAt
    <3> QED
      BY <3>1, <3>2, <3>3, <3>4, <3>5
  <2>3. \A k \in 1..(2 * n + 1) : f[off + k] = Reads(f[off + k - 1], w[off + k], pkt)
    BY <1>0, <2>1 DEF ReadFrom
  <2> HIDE DEF g, part
  <2>4. f[off + 1] = [val |-> TRUE, op |-> "and", outer |-> <<f[off]>>]
    <3>1. 1 \in 1..(2 * n + 1) /\ off + 1 - 1 = off
      BY <1>1
    <3>2. f[off + 1] = Reads(f[off], Word("("), pkt)
      BY <2>2, <2>3, <3>1
    <3> QED
      BY <1>0, <3>2, ReadsOther
  <2>5. ReadFrom(w, pkt, f, off + 1, 2 * n - 1)
    <3>1. ASSUME NEW k \in 1..(2 * n - 1)
          PROVE  f[off + 1 + k] = Reads(f[off + 1 + k - 1], w[off + 1 + k], pkt)
      <4>1. k + 1 \in 1..(2 * n + 1) /\ off + 1 + k = off + (k + 1) /\ off + 1 + k - 1 = off + (k + 1) - 1
        <5>1. n \in Nat /\ k \in Nat /\ k <= 2 * n - 1 /\ off \in Nat
          BY <1>1
        <5> QED
          BY <5>1
      <4>2. f[off + (k + 1)] = Reads(f[off + (k + 1) - 1], w[off + (k + 1)], pkt)
        BY <2>3, <4>1
      <4> QED
        BY <4>1, <4>2
    <3> QED
      BY <3>1 DEF ReadFrom
  <2> DEFINE m == off + 1 + 2 * n - 1
  <2>6. /\ DOMAIN f[m] = StateFields /\ f[m].outer = <<f[off]>>
        /\ f[m].val \in BOOLEAN /\ f[m].val <=> Some(word, items, pkt)
    <3>1. /\ DOMAIN f[off + 1] = StateFields /\ f[off + 1].val = TRUE /\ f[off + 1].op = "and"
          /\ f[off + 1].outer = <<f[off]>>
      BY <2>4 DEF StateFields
    <3>2. off + 1 \in Nat /\ m = (off + 1) + 2 * Len(items) - 1
      BY DEF n
    <3>3. StandsAt(w, off + 1, BpfWords(word, items))
      BY <2>2 DEF part
    <3>4. ReadFrom(w, pkt, f, off + 1, 2 * Len(items) - 1)
      BY <2>5 DEF n
    <3> HIDE DEF m
    <3> DEFINE o == off + 1
    <3> HIDE DEF o
    <3>5. /\ o \in Nat /\ m = o + 2 * Len(items) - 1 /\ ReadsSelection(word, items, pkt, w, o, f)
          /\ f[o].outer = <<f[off]>>
      BY <3>1, <3>2, <3>3, <3>4 DEF o, ReadsSelection
    <3>6. /\ DOMAIN f[m] = StateFields /\ f[m].outer = f[o].outer
          /\ f[m].val \in BOOLEAN
          /\ f[m].val <=> Some(word, items, pkt)
      BY <3>5, SelectionReads
    <3> QED
      BY <3>5, <3>6
  <2>7. f[e] = Join(f[off], f[m].val)
    <3>1. 2 * n + 1 \in 1..(2 * n + 1) /\ off + (2 * n + 1) - 1 = m
      BY <1>1
    <3>2. f[e] = Reads(f[m], Word(")"), pkt)
      BY <2>1, <2>2, <2>3, <3>1
    <3> HIDE DEF m
    <3>3. f[m].outer[1] = f[off]
      BY <2>6
    <3> QED
      BY <2>6, <3>2, <3>3, ReadsOther
  <2> HIDE DEF m
  <2>8. f[e] = [f[off] EXCEPT !.val = f[off].val /\ f[m].val]
    BY <1>0, <2>7 DEF Join
  <2> QED
    BY <1>0, <2>6, <2>8 DEF StateFields
<1> QED
  BY <1>4, <1>5

\* A filter takes the packets that both of its selections take; an empty selection takes all.
LEMMA FilterRight ==
  ASSUME NEW T1, NEW hosts \in Seq(T1), NEW T2, NEW ports \in Seq(T2), NEW pkt
  PROVE  /\ CaptureFilter(hosts, ports) = <<>> => hosts = <<>> /\ ports = <<>>
         /\ Matches(CaptureFilter(hosts, ports), pkt)
              = ((hosts # <<>> => Some("host", hosts, pkt)) /\ (ports # <<>> => Some("port", ports, pkt)))
<1> DEFINE hw == BpfWords("host", hosts)
           pw == BpfWords("port", ports)
           w == CaptureFilter(hosts, ports)
<1>1. /\ hosts = <<>> => hw = <<>>
      /\ ports = <<>> => pw = <<>>
  BY BpfIs
<1>2. ASSUME NEW word \in {"host", "port"}, NEW T, NEW items \in Seq(T), items # <<>>
      PROVE  /\ Len(BpfWords(word, items)) = 2 * Len(items) - 1 /\ Len(items) \in Nat \ {0}
             /\ DOMAIN BpfWords(word, items) = 1..(2 * Len(items) - 1)
             /\ BpfWords(word, items) # <<>>
             /\ BpfWords(word, items) \in Seq(Range(BpfWords(word, items)))
  <2>1. Len(items) \in Nat \ {0}
    BY <1>2, EmptySeq, LenProperties
  <2>2. /\ Len(BpfWords(word, items)) = 2 * Len(items) - 1
        /\ DOMAIN BpfWords(word, items) = 1..(2 * Len(items) - 1)
        /\ BpfWords(word, items) \in Seq(Range(BpfWords(word, items)))
    BY <1>2, BpfIs
  <2>3. BpfWords(word, items) # <<>>
    <3>1. 1 \in 1..(2 * Len(items) - 1)
      BY <2>1
    <3> QED
      BY <2>2, <3>1
  <2> QED
    BY <2>1, <2>2, <2>3
<1>3. w = IF hw = <<>> THEN pw ELSE IF pw = <<>> THEN hw
          ELSE (Group(hw) \o <<Word("and")>>) \o Group(pw)
  BY DEF CaptureFilter
<1> HIDE DEF w
<1>4. CASE hosts = <<>> /\ ports = <<>>
  <2>1. w = <<>>
    BY <1>1, <1>3, <1>4
  <2>2. PICK f : Parses(0, <<>>, pkt, f) /\ Matches(<<>>, pkt) = f[0].val
    <3>1. DOMAIN <<>> = 1..0
      OBVIOUS
    <3> QED
      BY <3>1, MatchesIs
  <2>4. f[0] = Begin /\ Begin.val = TRUE
    BY <2>2 DEF Parses, Begin
  <2>3. Matches(w, pkt) = TRUE
    BY <2>1, <2>2, <2>4
  <2> QED
    BY <1>4, <2>3 DEF w
<1>5. ASSUME NEW word \in {"host", "port"}, NEW T, NEW items \in Seq(T), items # <<>>
      PROVE  Matches(BpfWords(word, items), pkt) = Some(word, items, pkt)
  <2> DEFINE v == BpfWords(word, items)
             n == 2 * Len(items) - 1
  <2>1. n \in Nat /\ Len(v) = n /\ DOMAIN v = 1..n
    <3>1. Len(v) = n /\ Len(items) \in Nat \ {0} /\ DOMAIN v = 1..n
      BY <1>2, <1>5
    <3> HIDE DEF v
    <3> QED
      BY <3>1
  <2>2. PICK f : Parses(n, v, pkt, f) /\ Matches(v, pkt) = f[n].val
    <3> HIDE DEF n, v
    <3> QED
      BY <2>1, MatchesIs
  <2>3. ReadsSelection(word, items, pkt, v, 0, f)
    <3>1. StandsAt(v, 0, v)
      <4>1. \A k \in 1..n : 0 + k = k
        OBVIOUS
      <4> HIDE DEF v
      <4> QED
        BY <2>1, <4>1 DEF StandsAt
    <3>2. ReadFrom(v, pkt, f, 0, n)
      <4>1. \A k \in 1..n : 0 + k = k /\ 0 + k - 1 = k - 1
        OBVIOUS
      <4> HIDE DEF v, n
      <4> QED
        BY <2>2, <4>1 DEF ReadFrom, Parses
    <3>3. DOMAIN f[0] = StateFields /\ f[0].val = TRUE /\ f[0].op = "and"
      BY <2>2 DEF Parses, Begin, StateFields
    <3> QED
      BY <3>1, <3>2, <3>3 DEF ReadsSelection
  <2>4. n = 0 + 2 * Len(items) - 1
    BY <2>1
  <2>5. f[n].val \in BOOLEAN /\ (f[n].val <=> Some(word, items, pkt))
    <3> DEFINE o == 0
    <3>1. o \in Nat /\ n = o + 2 * Len(items) - 1 /\ ReadsSelection(word, items, pkt, v, o, f)
      BY <2>3, <2>4
    <3> HIDE DEF o, n, v
    <3> QED
      BY <1>5, <3>1, SelectionReads
  <2>6. f[n].val = Some(word, items, pkt)
    BY <2>5 DEF Some
  <2> QED
    BY <2>2, <2>6
<1>6. CASE hosts # <<>> /\ ports = <<>>
  <2>1. w = hw /\ hw # <<>>
    BY <1>1, <1>2, <1>3, <1>6
  <2>2. Matches(hw, pkt) = Some("host", hosts, pkt)
    BY <1>5, <1>6
  <2> QED
    BY <1>6, <2>1, <2>2 DEF w, Some
<1>7. CASE hosts = <<>> /\ ports # <<>>
  <2>1. w = pw /\ pw # <<>>
    BY <1>1, <1>2, <1>3, <1>7
  <2>2. Matches(pw, pkt) = Some("port", ports, pkt)
    BY <1>5, <1>7
  <2> QED
    BY <1>7, <2>1, <2>2 DEF w, Some
<1>8. CASE hosts # <<>> /\ ports # <<>>
  <2> DEFINE S == Range(hw) \cup Range(pw) \cup {Word("("), Word(")"), Word("and")}
             gh == Group(hw)
             gp == Group(pw)
             a == <<Word("and")>>
             h == gh \o a
             x == Len(gh)
             y == Len(gp)
             n == x + 1 + y
  <2>1. hw # <<>> /\ pw # <<>> /\ hw \in Seq(S) /\ pw \in Seq(S)
    <3>1. hw # <<>> /\ hw \in Seq(Range(hw))
      BY <1>2, <1>8
    <3>2. pw # <<>> /\ pw \in Seq(Range(pw))
      BY <1>2, <1>8
    <3> HIDE DEF hw, pw
    <3>3. Range(hw) \subseteq S /\ Range(pw) \subseteq S
      OBVIOUS
    <3> HIDE DEF S
    <3>4. hw \in Seq(S) /\ pw \in Seq(S)
      BY <3>1, <3>2, <3>3, SeqDef
    <3> QED
      BY <3>1, <3>2, <3>4
  <2>2. w = h \o gp
    BY <1>3, <2>1
  <2>3. a \in Seq(S) /\ Len(a) = 1 /\ a[1] = Word("and") /\ {Word("("), Word(")")} \subseteq S
    OBVIOUS
  <2> HIDE DEF S, a, hw, pw
  <2>4. gh \in Seq(S) /\ gp \in Seq(S)
    BY <2>1, <2>3, GroupIs
  <2> HIDE DEF gh, gp
  <2>5. x \in Nat /\ y \in Nat
    BY <2>4, LenProperties
  <2>6. /\ h \in Seq(S) /\ Len(h) = x + 1
        /\ \A i \in 1..(x + 1) : h[i] = IF i <= x THEN gh[i] ELSE a[i - x]
    <3>1. /\ h \in Seq(S) /\ Len(h) = Len(gh) + Len(a)
          /\ \A i \in 1..(Len(gh) + Len(a)) : h[i] = IF i <= Len(gh) THEN gh[i] ELSE a[i - Len(gh)]
      BY <2>3, <2>4, ConcatProperties
    <3> HIDE DEF h
    <3> QED
      BY <2>3, <3>1
  <2> HIDE DEF h, x, y
  <2>7. /\ w \in Seq(S) /\ Len(w) = n /\ DOMAIN w = 1..n
        /\ \A i \in 1..n : w[i] = IF i <= x + 1 THEN h[i] ELSE gp[i - (x + 1)]
    <3>1. /\ h \o gp \in Seq(S) /\ Len(h \o gp) = Len(h) + Len(gp)
          /\ \A i \in 1..(Len(h) + Len(gp)) : (h \o gp)[i] = IF i <= Len(h) THEN h[i] ELSE gp[i - Len(h)]
      BY <2>4, <2>6, ConcatProperties
    <3>2. Len(h) + Len(gp) = n /\ Len(h) = x + 1
      BY <2>6 DEF y
    <3>3. w \in Seq(S) /\ Len(w) = n
      BY <2>2, <3>1, <3>2
    <3>4. DOMAIN w = 1..n
      BY <3>3, LenProperties
    <3> HIDE DEF n
    <3> QED
      BY <2>2, <3>1, <3>2, <3>3, <3>4
  <2>8. /\ \A i \in 1..x : w[i] = gh[i]
        /\ w[x + 1] = Word("and")
        /\ \A i \in 1..y : w[x + 1 + i] = gp[i]
    <3>1. ASSUME NEW i \in 1..x
          PROVE  w[i] = gh[i]
      <4>1. i \in 1..n /\ i <= x + 1 /\ i \in 1..(x + 1) /\ i <= x
        BY <2>5
      <4> QED
        BY <2>6, <2>7, <4>1
    <3>2. w[x + 1] = Word("and")
      <4>1. x + 1 \in 1..n /\ x + 1 \in 1..(x + 1) /\ ~(x + 1 <= x) /\ (x + 1) - x = 1 /\ x + 1 <= x + 1
        BY <2>5
      <4> QED
        BY <2>3, <2>6, <2>7, <4>1
    <3>3. ASSUME NEW i \in 1..y
          PROVE  w[x + 1 + i] = gp[i]
      <4>1. x + 1 + i \in 1..n /\ ~(x + 1 + i <= x + 1) /\ (x + 1 + i) - (x + 1) = i
        BY <2>5
      <4> QED
        BY <2>7, <4>1
    <3> QED
      BY <3>1, <3>2, <3>3
  <2>9. n \in Nat
    BY <2>5
  <2>10. PICK f : Parses(n, w, pkt, f) /\ Matches(w, pkt) = f[n].val
    <3> HIDE DEF n
    <3> QED
      BY <2>7, <2>9, MatchesIs
  <2>11. \A k \in 1..n : f[k] = Reads(f[k - 1], w[k], pkt)
    BY <2>10 DEF Parses
  <2>12. DOMAIN f[0] = StateFields /\ f[0].val = TRUE /\ f[0].op = "and"
    BY <2>10 DEF Parses, Begin, StateFields
  <2>13. /\ DOMAIN f[x] = StateFields /\ f[x].op = "and" /\ f[x].val \in BOOLEAN
         /\ f[x].val <=> Some("host", hosts, pkt)
    <3> DEFINE o == 0
               word == "host"
    <3>7. word \in {"host", "port"}
      OBVIOUS
    <3>1. \A k \in 1..x : o + k = k /\ o + k - 1 = k - 1 /\ k \in 1..n
      BY <2>5
    <3>2. o \in Nat /\ x = o + x /\ f[o] = f[0]
      BY <2>5
    <3> HIDE DEF o, n, word
    <3>3. StandsAt(w, o, gh) /\ ReadFrom(w, pkt, f, o, Len(gh))
      <4>1. \A k \in 1..Len(gh) : w[o + k] = gh[k]
        BY <2>8, <3>1 DEF x
      <4>2. \A k \in 1..Len(gh) : f[o + k] = Reads(f[o + k - 1], w[o + k], pkt)
        BY <2>11, <3>1 DEF x
      <4> QED
        BY <4>1, <4>2 DEF StandsAt, ReadFrom
    <3>4. ReadsGroup(word, hosts, pkt, w, o, f)
      BY <2>12, <3>2, <3>3 DEF ReadsGroup, gh, hw, word
    <3>5. x = o + Len(Group(BpfWords(word, hosts)))
      BY <3>2 DEF x, gh, hw, word
    <3>6. f[o].val
      BY <2>12, <3>2
    <3>8. /\ DOMAIN f[x] = StateFields /\ f[x].op = "and" /\ f[x].val \in BOOLEAN
          /\ f[x].val <=> f[o].val /\ Some(word, hosts, pkt)
      BY <1>8, <3>2, <3>4, <3>5, <3>7, GroupReads
    <3> QED
      BY <3>6, <3>8 DEF word
  <2>14. /\ DOMAIN f[x + 1] = StateFields /\ f[x + 1].op = "and" /\ f[x + 1].val = f[x].val
    <3>1. x + 1 \in 1..n /\ (x + 1) - 1 = x
      BY <2>5
    <3>2. f[x + 1] = Reads(f[x], Word("and"), pkt)
      BY <2>8, <2>11, <3>1
    <3> QED
      BY <2>13, <3>2, ReadsOther
  <2>15. f[n].val \in BOOLEAN /\ (f[n].val <=> f[x + 1].val /\ Some("port", ports, pkt))
    <3> DEFINE o == x + 1
               word == "port"
    <3>7. word \in {"host", "port"}
      OBVIOUS
    <3>1. \A k \in 1..y : o + k \in 1..n /\ w[o + k] = gp[k]
      BY <2>5, <2>8
    <3>2. o \in Nat /\ n = o + y
      BY <2>5
    <3>8. DOMAIN f[o] = StateFields /\ f[o].op = "and" /\ f[o].val \in BOOLEAN
      BY <2>13, <2>14
    <3> HIDE DEF n, o, word
    <3>3. StandsAt(w, o, gp) /\ ReadFrom(w, pkt, f, o, Len(gp))
      <4>1. \A k \in 1..Len(gp) : w[o + k] = gp[k]
        BY <3>1 DEF y
      <4>2. \A k \in 1..Len(gp) : f[o + k] = Reads(f[o + k - 1], w[o + k], pkt)
        BY <2>11, <3>1, <3>2 DEF y
      <4> QED
        BY <4>1, <4>2 DEF StandsAt, ReadFrom
    <3>4. ReadsGroup(word, ports, pkt, w, o, f)
      BY <3>3, <3>8 DEF ReadsGroup, gp, pw, word
    <3>5. n = o + Len(Group(BpfWords(word, ports)))
      BY <3>2 DEF y, gp, pw, word
    <3>6. f[n].val \in BOOLEAN /\ (f[n].val <=> f[o].val /\ Some(word, ports, pkt))
      BY <1>8, <3>2, <3>4, <3>5, <3>7, GroupReads
    <3> QED
      BY <3>6 DEF o, word
  <2>16. w # <<>>
    <3>1. 1 \in 1..n
      BY <2>5
    <3> QED
      BY <2>7, <3>1
  <2>17. f[n].val = (Some("host", hosts, pkt) /\ Some("port", ports, pkt))
    BY <2>13, <2>14, <2>15
  <2> QED
    BY <1>8, <2>10, <2>16, <2>17 DEF w
<1> QED
  BY <1>4, <1>6, <1>7, <1>8

(***************************************************************************)
(* Part 17: the place of a capture.                                        *)
(***************************************************************************)
Disks == [path : STRING, mount : STRING, fs : STRING, free : Nat, writable : BOOLEAN]

\* What was probed of one filesystem is the same under each of its paths.
ProbedAlike(probed) ==
  \A i, j \in DOMAIN probed :
    probed[i].mount = probed[j].mount => probed[i].fs = probed[j].fs /\ probed[i].free = probed[j].free

\* A place that was probed, but for whether it can be written.
WasProbed(probed, t) ==
  \E i \in DOMAIN probed : /\ probed[i].path = t.path /\ probed[i].mount = t.mount
                           /\ probed[i].fs = t.fs /\ probed[i].free = t.free

Reaches(ts, m) == \E j \in 1..Len(ts) : ts[j].mount = m

\* One more probed place.
AddPlace(ts, p) ==
  LET i == SelectInSeq(ts, LAMBDA t : t.mount = p.mount)
  IN IF i = 0 THEN Append(ts, p)
     ELSE IF p.writable /\ ~ts[i].writable
     THEN ReplaceAt(ts, i, [ts[i] EXCEPT !.path = p.path, !.writable = TRUE])
     ELSE ts

LEMMA FirstMounted ==
  ASSUME NEW ts \in Seq(Disks), NEW m, NEW i, i = SelectInSeq(ts, LAMBDA t : t.mount = m)
  PROVE  /\ i = 0 => ~Reaches(ts, m)
         /\ i # 0 => i \in 1..Len(ts) /\ ts[i].mount = m
<1> DEFINE I == {j \in 1..Len(ts) : ts[j].mount = m}
<1>1. i = IF I # {} THEN Min(I) ELSE 0
  BY DEF SelectInSeq
<1>2. Len(ts) \in Nat /\ I \in SUBSET Nat
  BY LenProperties
<1>3. CASE I = {}
  BY <1>1, <1>3 DEF Reaches
<1>4. CASE I # {}
  <2>1. Min(I) \in I
    BY <1>2, <1>4, MinIn
  <2> QED
    BY <1>1, <1>2, <1>4, <2>1
<1> QED
  BY <1>3, <1>4

LEMMA AddPlaceIs ==
  ASSUME NEW ts \in Seq(Disks), NEW p \in Disks
  PROVE  /\ AddPlace(ts, p) \in Seq(Disks)
         /\ Reaches(AddPlace(ts, p), p.mount)
         /\ \A m : Reaches(ts, m) => Reaches(AddPlace(ts, p), m)
         /\ \A probed :
              /\ ProbedAlike(probed)
              /\ \E k \in DOMAIN probed : p = probed[k]
              /\ \A j \in 1..Len(ts) : WasProbed(probed, ts[j])
              => \A j \in 1..Len(AddPlace(ts, p)) : WasProbed(probed, AddPlace(ts, p)[j])
<1> DEFINE i == SelectInSeq(ts, LAMBDA t : t.mount = p.mount)
           n == Len(ts)
           new == AddPlace(ts, p)
<1>1. /\ i = 0 => ~Reaches(ts, p.mount)
      /\ i # 0 => i \in 1..n /\ ts[i].mount = p.mount
  <2> HIDE DEF i
  <2> QED
    BY FirstMounted DEF i
<1>2. n \in Nat /\ \A j \in 1..n : ts[j] \in Disks
  BY LenProperties
<1>3. new = IF i = 0 THEN Append(ts, p)
            ELSE IF p.writable /\ ~ts[i].writable
            THEN ReplaceAt(ts, i, [ts[i] EXCEPT !.path = p.path, !.writable = TRUE])
            ELSE ts
  BY DEF AddPlace
<1> HIDE DEF i, n, new
<1>4. CASE i = 0
  <2>1. /\ new \in Seq(Disks) /\ Len(new) = n + 1
        /\ \A j \in 1..n : new[j] = ts[j]
        /\ new[n + 1] = p
    BY <1>3, <1>4, AppendProperties DEF n
  <2>2. /\ \A j \in 1..(n + 1) : j \in 1..n \/ j = n + 1
        /\ n + 1 \in 1..(n + 1) /\ \A j \in 1..n : j \in 1..(n + 1)
    BY <1>2
  <2>3. Reaches(new, p.mount) /\ \A m : Reaches(ts, m) => Reaches(new, m)
    BY <2>1, <2>2 DEF Reaches, n
  <2>4. \A probed : (\E k \in DOMAIN probed : p = probed[k]) => WasProbed(probed, p)
    BY DEF WasProbed
  <2>5. \A probed : /\ \E k \in DOMAIN probed : p = probed[k]
                    /\ \A j \in 1..Len(ts) : WasProbed(probed, ts[j])
                    => \A j \in 1..Len(new) : WasProbed(probed, new[j])
    BY <2>1, <2>2, <2>4 DEF n
  <2> QED
    BY <2>1, <2>3, <2>5 DEF new
<1>5. CASE i # 0 /\ p.writable /\ ~ts[i].writable
  <2> DEFINE e == [ts[i] EXCEPT !.path = p.path, !.writable = TRUE]
  <2>1. i \in 1..n /\ ts[i] \in Disks /\ ts[i].mount = p.mount
    BY <1>1, <1>2, <1>5
  <2>2. /\ e \in Disks /\ e.path = p.path /\ e.mount = p.mount
        /\ e.fs = ts[i].fs /\ e.free = ts[i].free
    BY <2>1 DEF Disks
  <2>3. new = [ts EXCEPT ![i] = e]
    BY <1>3, <1>5 DEF ReplaceAt
  <2> HIDE DEF e
  <2>4. /\ new \in Seq(Disks) /\ Len(new) = n
        /\ \A j \in 1..n : new[j] = IF j = i THEN e ELSE ts[j]
    BY <2>1, <2>2, <2>3, ExceptSeq DEF n
  <2>5. \A j \in 1..n : new[j].mount = ts[j].mount
    BY <2>1, <2>2, <2>4
  <2>6. Reaches(new, p.mount) /\ \A m : Reaches(ts, m) => Reaches(new, m)
    BY <2>1, <2>4, <2>5 DEF Reaches, n
  <2>7. ASSUME NEW probed, ProbedAlike(probed), NEW k \in DOMAIN probed, p = probed[k],
               \A j \in 1..Len(ts) : WasProbed(probed, ts[j])
        PROVE  \A j \in 1..Len(new) : WasProbed(probed, new[j])
    <3>1. PICK l \in DOMAIN probed : /\ probed[l].mount = ts[i].mount
                                     /\ probed[l].fs = ts[i].fs /\ probed[l].free = ts[i].free
      BY <2>1, <2>7 DEF WasProbed, n
    <3>2. probed[k].fs = ts[i].fs /\ probed[k].free = ts[i].free
      BY <2>1, <2>7, <3>1 DEF ProbedAlike
    <3>3. WasProbed(probed, e)
      BY <2>2, <2>7, <3>2 DEF WasProbed
    <3> QED
      BY <2>4, <2>7, <3>3 DEF n
  <2> QED
    BY <2>4, <2>6, <2>7 DEF new
<1>6. CASE i # 0 /\ ~(p.writable /\ ~ts[i].writable)
  <2>1. new = ts
    BY <1>3, <1>6
  <2>2. Reaches(ts, p.mount)
    BY <1>1, <1>6 DEF Reaches, n
  <2> QED
    BY <2>1, <2>2 DEF new
<1> QED
  BY <1>4, <1>5, <1>6

LEMMA PlacesAre ==
  ASSUME NEW n \in Nat, NEW s \in [1..n -> Disks]
  PROVE  \E f : /\ f[0] = <<>>
                /\ \A k \in 1..n : f[k] = AddPlace(f[k - 1], s[k])
                /\ RecTargets(s) = f[n]
<1> DEFINE A == Seq(Disks)
           step == [q \in (1..n) \X A |-> AddPlace(q[2], s[q[1]])]
           Eq(it) == it = [t \in SUBSET (1..n) |->
                            IF t = {} THEN <<>> ELSE AddPlace(it[t \ {Max(t)}], s[Max(t)])]
           it == CHOOSE i : Eq(i)
           f == [k \in 0..n |-> it[1..k]]
<1>1. PICK i : Folding(n, <<>>, step, i) /\ \A t \in SUBSET (1..n) : i[t] \in A
  <2>1. \A k \in 1..n : \A x \in A : step[<<k, x>>] = AddPlace(x, s[k]) /\ AddPlace(x, s[k]) \in A
    BY AddPlaceIs
  <2>2. <<>> \in A
    BY EmptySeq
  <2> HIDE DEF A, step
  <2> QED
    BY <2>1, <2>2, FoldingExists
<1>2. Eq(i)
  <2>1. ASSUME NEW t \in SUBSET (1..n), t # {}
        PROVE  step[<<Max(t), i[t \ {Max(t)}]>>] = AddPlace(i[t \ {Max(t)}], s[Max(t)])
    <3>1. Max(t) \in 1..n /\ t \ {Max(t)} \in SUBSET (1..n)
      BY <2>1, MaxIn
    <3> QED
      BY <1>1, <3>1
  <2>2. i = [t \in SUBSET (1..n) |-> IF t = {} THEN <<>> ELSE step[<<Max(t), i[t \ {Max(t)}]>>]]
    BY <1>1 DEF Folding
  <2> HIDE DEF step
  <2> QED
    BY <2>1, <2>2
<1>3. Eq(it)
  <2> HIDE DEF Eq
  <2> QED
    BY <1>2
<1>4. RecTargets(s) = it[1..n]
  <2>1. DOMAIN s = 1..n
    OBVIOUS
  <2> QED
    BY <2>1 DEF RecTargets, FoldLeft, MapThenFoldSet, AddPlace
<1> HIDE DEF it
<1>5. \A t \in SUBSET (1..n) : it[t] = IF t = {} THEN <<>> ELSE AddPlace(it[t \ {Max(t)}], s[Max(t)])
  BY <1>3
<1>6. f[0] = it[1..0] /\ f[n] = it[1..n] /\ \A k \in 1..n : f[k] = it[1..k] /\ f[k - 1] = it[1..(k - 1)]
  OBVIOUS
<1> HIDE DEF f
<1>7. f[0] = <<>>
  BY <1>5, <1>6, UpTo
<1>8. ASSUME NEW k \in 1..n
      PROVE  f[k] = AddPlace(f[k - 1], s[k])
  <2>1. 1..k \in SUBSET (1..n) /\ 1..k # {} /\ Max(1..k) = k /\ (1..k) \ {k} = 1..(k - 1)
    BY UpTo
  <2>2. it[1..k] = AddPlace(it[1..(k - 1)], s[k])
    BY <1>5, <2>1
  <2> QED
    BY <1>6, <2>2
<1> QED
  BY <1>4, <1>6, <1>7, <1>8

\* Every filesystem that was probed is among the targets, and nothing else.
LEMMA RecTargetsRight ==
  ASSUME NEW probed \in Seq(Disks), ProbedAlike(probed)
  PROVE  /\ RecTargets(probed) \in Seq(Disks)
         /\ \A j \in 1..Len(RecTargets(probed)) : WasProbed(probed, RecTargets(probed)[j])
         /\ \A i \in DOMAIN probed : Reaches(RecTargets(probed), probed[i].mount)
<1> DEFINE n == Len(probed)
<1>1. n \in Nat /\ DOMAIN probed = 1..n /\ \A i \in 1..n : probed[i] \in Disks
  BY LenProperties
<1>2. probed \in [1..n -> Disks]
  <2>1. probed = [i \in 1..n |-> probed[i]]
    BY <1>1, LenProperties
  <2> HIDE DEF n
  <2> QED
    BY <1>1, <2>1
<1> HIDE DEF n
<1>3. PICK f : /\ f[0] = <<>>
               /\ \A k \in 1..n : f[k] = AddPlace(f[k - 1], probed[k])
               /\ RecTargets(probed) = f[n]
  BY <1>1, <1>2, PlacesAre
<1> DEFINE Good(ts) == \A j \in 1..Len(ts) : WasProbed(probed, ts[j])
           Done(k) == /\ f[k] \in Seq(Disks)
                      /\ Good(f[k])
                      /\ \A i \in 1..k : Reaches(f[k], probed[i].mount)
           S == {k \in Nat : k <= n => Done(k)}
<1>4. 0 \in S
  <2>1. f[0] \in Seq(Disks) /\ Len(f[0]) = 0 /\ \A i \in 1..0 : FALSE
    BY <1>3, EmptySeq
  <2> QED
    BY <2>1
<1>5. ASSUME NEW k \in Nat, k \in S
      PROVE  k + 1 \in S
  <2> SUFFICES ASSUME k + 1 <= n
               PROVE  Done(k + 1)
    OBVIOUS
  <2>1. Done(k)
    <3> HIDE DEF Done
    <3> QED
      BY <1>1, <1>5
  <2> DEFINE p == probed[k + 1]
             new == AddPlace(f[k], p)
  <2>2. k + 1 \in 1..n /\ f[k + 1] = new /\ p \in Disks /\ f[k] \in Seq(Disks)
    <3>1. k + 1 \in 1..n /\ (k + 1) - 1 = k
      BY <1>1
    <3> QED
      BY <1>1, <1>3, <2>1, <3>1
  <2>3. \E i \in DOMAIN probed : p = probed[i]
    BY <1>1, <2>2
  <2> HIDE DEF p
  <2>4. new \in Seq(Disks) /\ Reaches(new, p.mount) /\ \A m : Reaches(f[k], m) => Reaches(new, m)
    BY <2>2, AddPlaceIs
  <2>5. Good(new)
    BY <2>1, <2>2, <2>3, AddPlaceIs
  <2> HIDE DEF new, Good
  <2>6. \A i \in 1..(k + 1) : Reaches(new, probed[i].mount)
    <3> TAKE i \in 1..(k + 1)
    <3>1. CASE i \in 1..k
      BY <2>1, <2>4, <3>1
    <3>2. CASE i = k + 1
      BY <2>4, <3>2 DEF p
    <3> QED
      BY <3>1, <3>2
  <2> QED
    BY <2>2, <2>4, <2>5, <2>6
<1> HIDE DEF S
<1>6. Done(n)
  <2>1. n \in S
    BY <1>1, <1>4, <1>5, SetInduction
  <2> QED
    BY <1>1, <2>1 DEF S
<1> QED
  BY <1>1, <1>3, <1>6

InMemory == {"tmpfs", "ramfs"}

KeepDisk(ts, t) == IF t.fs \in InMemory THEN ts ELSE Append(ts, t)

LEMMA KeepDiskIs ==
  ASSUME NEW ts \in Seq(Disks), NEW t \in Disks
  PROVE  /\ KeepDisk(ts, t) \in Seq(Disks)
         /\ \A x : Contains(KeepDisk(ts, t), x) <=> Contains(ts, x) \/ (x = t /\ t.fs \notin InMemory)
<1> DEFINE n == Len(ts)
           new == KeepDisk(ts, t)
<1>1. n \in Nat
  BY LenProperties
<1>2. CASE t.fs \in InMemory
  BY <1>2 DEF KeepDisk
<1>3. CASE t.fs \notin InMemory
  <2>1. new = Append(ts, t)
    BY <1>3 DEF KeepDisk
  <2>2. /\ new \in Seq(Disks) /\ Len(new) = n + 1
        /\ \A j \in 1..n : new[j] = ts[j]
        /\ new[n + 1] = t
    BY <2>1, AppendProperties
  <2> HIDE DEF new
  <2>3. /\ \A j \in 1..(n + 1) : j \in 1..n \/ j = n + 1
        /\ n + 1 \in 1..(n + 1) /\ \A j \in 1..n : j \in 1..(n + 1)
    BY <1>1
  <2>4. \A x : Contains(ts, x) <=> \E j \in 1..n : ts[j] = x
    BY DEF Contains
  <2>5. \A x : Contains(new, x) <=> \E j \in 1..(n + 1) : new[j] = x
    BY <2>2 DEF Contains
  <2> HIDE DEF n
  <2>6. \A x : Contains(new, x) <=> Contains(ts, x) \/ x = t
    BY <2>2, <2>3, <2>4, <2>5
  <2> QED
    BY <1>3, <2>2, <2>6 DEF new
<1> QED
  BY <1>2, <1>3

LEMMA KeptAre ==
  ASSUME NEW probed, NEW n \in Nat, RecTargets(probed) \in [1..n -> Disks]
  PROVE  \E f : /\ f[0] = <<>>
                /\ \A k \in 1..n : f[k] = KeepDisk(f[k - 1], RecTargets(probed)[k])
                /\ CaptureTargets(probed) = f[n]
<1> DEFINE s == RecTargets(probed)
           A == Seq(Disks)
           step == [q \in (1..n) \X A |-> KeepDisk(q[2], s[q[1]])]
           Eq(it) == it = [t \in SUBSET (1..n) |->
                            IF t = {} THEN <<>> ELSE KeepDisk(it[t \ {Max(t)}], s[Max(t)])]
           it == CHOOSE i : Eq(i)
           f == [k \in 0..n |-> it[1..k]]
<1>1. PICK i : Folding(n, <<>>, step, i) /\ \A t \in SUBSET (1..n) : i[t] \in A
  <2>1. \A k \in 1..n : \A x \in A : step[<<k, x>>] = KeepDisk(x, s[k]) /\ KeepDisk(x, s[k]) \in A
    BY KeepDiskIs
  <2>2. <<>> \in A
    BY EmptySeq
  <2> HIDE DEF A, step
  <2> QED
    BY <2>1, <2>2, FoldingExists
<1>2. Eq(i)
  <2>1. ASSUME NEW t \in SUBSET (1..n), t # {}
        PROVE  step[<<Max(t), i[t \ {Max(t)}]>>] = KeepDisk(i[t \ {Max(t)}], s[Max(t)])
    <3>1. Max(t) \in 1..n /\ t \ {Max(t)} \in SUBSET (1..n)
      BY <2>1, MaxIn
    <3> QED
      BY <1>1, <3>1
  <2>2. i = [t \in SUBSET (1..n) |-> IF t = {} THEN <<>> ELSE step[<<Max(t), i[t \ {Max(t)}]>>]]
    BY <1>1 DEF Folding
  <2> HIDE DEF step, s
  <2> QED
    BY <2>1, <2>2
<1>3. Eq(it)
  <2> HIDE DEF Eq
  <2> QED
    BY <1>2
<1>4. CaptureTargets(probed) = it[1..n]
  <2>1. DOMAIN s = 1..n
    OBVIOUS
  <2> QED
    BY <2>1 DEF CaptureTargets, FoldLeft, MapThenFoldSet, KeepDisk, InMemory
<1> HIDE DEF it
<1>5. \A t \in SUBSET (1..n) : it[t] = IF t = {} THEN <<>> ELSE KeepDisk(it[t \ {Max(t)}], s[Max(t)])
  BY <1>3
<1>6. f[0] = it[1..0] /\ f[n] = it[1..n] /\ \A k \in 1..n : f[k] = it[1..k] /\ f[k - 1] = it[1..(k - 1)]
  OBVIOUS
<1> HIDE DEF f
<1>7. f[0] = <<>>
  BY <1>5, <1>6, UpTo
<1>8. ASSUME NEW k \in 1..n
      PROVE  f[k] = KeepDisk(f[k - 1], s[k])
  <2>1. 1..k \in SUBSET (1..n) /\ 1..k # {} /\ Max(1..k) = k /\ (1..k) \ {k} = 1..(k - 1)
    BY UpTo
  <2>2. it[1..k] = KeepDisk(it[1..(k - 1)], s[k])
    BY <1>5, <2>1
  <2> QED
    BY <1>6, <2>2
<1> QED
  BY <1>4, <1>6, <1>7, <1>8

\* The targets of a capture are those of a recording that are on a disk.
LEMMA CaptureTargetsRight ==
  ASSUME NEW probed, RecTargets(probed) \in Seq(Disks)
  PROVE  /\ CaptureTargets(probed) \in Seq(Disks)
         /\ \A x : Contains(CaptureTargets(probed), x)
                     <=> Contains(RecTargets(probed), x) /\ x.fs \notin InMemory
<1> DEFINE s == RecTargets(probed)
           n == Len(s)
<1>1. n \in Nat /\ DOMAIN s = 1..n /\ \A i \in 1..n : s[i] \in Disks
  BY LenProperties
<1>2. s \in [1..n -> Disks]
  <2>1. s = [i \in 1..n |-> s[i]]
    BY <1>1, LenProperties
  <2> HIDE DEF n, s
  <2> QED
    BY <1>1, <2>1
<1> HIDE DEF n
<1>3. PICK f : /\ f[0] = <<>>
               /\ \A k \in 1..n : f[k] = KeepDisk(f[k - 1], s[k])
               /\ CaptureTargets(probed) = f[n]
  BY <1>1, <1>2, KeptAre
<1> HIDE DEF s
<1> DEFINE Passed(k, x) == \E i \in 1..k : x = s[i] /\ s[i].fs \notin InMemory
           Done(k) == f[k] \in Seq(Disks) /\ \A x : Contains(f[k], x) <=> Passed(k, x)
           S == {k \in Nat : k <= n => Done(k)}
<1>4. 0 \in S
  <2>1. f[0] \in Seq(Disks) /\ Len(f[0]) = 0 /\ \A i \in 1..0 : FALSE
    BY <1>3, EmptySeq
  <2>2. \A x : ~Contains(f[0], x) /\ ~Passed(0, x)
    BY <2>1 DEF Contains
  <2> HIDE DEF Passed
  <2> QED
    BY <2>1, <2>2
<1>5. ASSUME NEW k \in Nat, k \in S
      PROVE  k + 1 \in S
  <2> SUFFICES ASSUME k + 1 <= n
               PROVE  Done(k + 1)
    OBVIOUS
  <2>1. Done(k)
    <3> HIDE DEF Done
    <3> QED
      BY <1>1, <1>5
  <2> DEFINE t == s[k + 1]
             new == KeepDisk(f[k], t)
  <2>2. k + 1 \in 1..n /\ f[k + 1] = new /\ t \in Disks /\ f[k] \in Seq(Disks)
    <3>1. k + 1 \in 1..n /\ (k + 1) - 1 = k
      BY <1>1
    <3> QED
      BY <1>1, <1>3, <2>1, <3>1
  <2>3. \A x : Passed(k + 1, x) <=> Passed(k, x) \/ (x = t /\ t.fs \notin InMemory)
    <3>1. \A i \in 1..(k + 1) : i \in 1..k \/ i = k + 1
      OBVIOUS
    <3>2. k + 1 \in 1..(k + 1) /\ \A i \in 1..k : i \in 1..(k + 1)
      OBVIOUS
    <3> QED
      BY <3>1, <3>2
  <2> HIDE DEF t
  <2>4. /\ new \in Seq(Disks)
        /\ \A x : Contains(new, x) <=> Contains(f[k], x) \/ (x = t /\ t.fs \notin InMemory)
    BY <2>2, KeepDiskIs
  <2> HIDE DEF new, Passed
  <2> QED
    BY <2>1, <2>2, <2>3, <2>4
<1> HIDE DEF S
<1>6. Done(n)
  <2>1. n \in S
    BY <1>1, <1>4, <1>5, SetInduction
  <2> QED
    BY <1>1, <2>1 DEF S
<1>7. \A x : Passed(n, x) <=> Contains(s, x) /\ x.fs \notin InMemory
  BY DEF Contains, n
<1> HIDE DEF Passed
<1> QED
  BY <1>3, <1>6, <1>7 DEF s

Preferred(best, t) == IF Better(t, best) THEN t ELSE best

LEMMA BestsAre ==
  ASSUME NEW n \in Nat, n # 0, NEW s \in [1..n -> Disks]
  PROVE  \E f : /\ f[0] = s[1]
                /\ \A k \in 1..n : f[k] = Preferred(f[k - 1], s[k])
                /\ DefaultCaptureTarget(s) = f[n]
<1> DEFINE step == [q \in (1..n) \X Disks |-> Preferred(q[2], s[q[1]])]
           b == s[1]
           Eq(it) == it = [t \in SUBSET (1..n) |->
                            IF t = {} THEN b ELSE Preferred(it[t \ {Max(t)}], s[Max(t)])]
           it == CHOOSE i : Eq(i)
           f == [k \in 0..n |-> it[1..k]]
<1>1. PICK i : Folding(n, b, step, i) /\ \A t \in SUBSET (1..n) : i[t] \in Disks
  <2>1. \A k \in 1..n : \A x \in Disks : step[<<k, x>>] \in Disks
    BY DEF Preferred
  <2>2. b \in Disks
    OBVIOUS
  <2> HIDE DEF step, b
  <2> QED
    BY <2>1, <2>2, FoldingExists
<1> HIDE DEF b
<1>2. Eq(i)
  <2>1. ASSUME NEW t \in SUBSET (1..n), t # {}
        PROVE  step[<<Max(t), i[t \ {Max(t)}]>>] = Preferred(i[t \ {Max(t)}], s[Max(t)])
    <3>1. Max(t) \in 1..n /\ t \ {Max(t)} \in SUBSET (1..n)
      BY <2>1, MaxIn
    <3> QED
      BY <1>1, <3>1
  <2>2. i = [t \in SUBSET (1..n) |-> IF t = {} THEN b ELSE step[<<Max(t), i[t \ {Max(t)}]>>]]
    BY <1>1 DEF Folding
  <2> HIDE DEF step
  <2> QED
    BY <2>1, <2>2
<1>3. Eq(it)
  <2> HIDE DEF Eq
  <2> QED
    BY <1>2
<1>4. DefaultCaptureTarget(s) = it[1..n]
  <2>1. DOMAIN s = 1..n
    OBVIOUS
  <2> QED
    BY <2>1 DEF DefaultCaptureTarget, FoldLeft, MapThenFoldSet, Preferred, b
<1> HIDE DEF it
<1>5. \A t \in SUBSET (1..n) : it[t] = IF t = {} THEN b ELSE Preferred(it[t \ {Max(t)}], s[Max(t)])
  BY <1>3
<1>6. f[0] = it[1..0] /\ f[n] = it[1..n] /\ \A k \in 1..n : f[k] = it[1..k] /\ f[k - 1] = it[1..(k - 1)]
  OBVIOUS
<1> HIDE DEF f
<1>7. f[0] = b
  BY <1>5, <1>6, UpTo
<1>8. ASSUME NEW k \in 1..n
      PROVE  f[k] = Preferred(f[k - 1], s[k])
  <2>1. 1..k \in SUBSET (1..n) /\ 1..k # {} /\ Max(1..k) = k /\ (1..k) \ {k} = 1..(k - 1)
    BY UpTo
  <2>2. it[1..k] = Preferred(it[1..(k - 1)], s[k])
    BY <1>5, <2>1
  <2> QED
    BY <1>6, <2>2
<1> QED
  BY <1>4, <1>6, <1>7, <1>8 DEF b

LEMMA BetterOrders ==
  ASSUME NEW a \in Disks, NEW b \in Disks
  PROVE  /\ ~Better(a, a)
         /\ \A c \in Disks : Better(b, a) /\ ~Better(c, a) => ~Better(c, b)
<1> QED
  BY DEF Better, Disks

\* The default is one of the targets, and none is better.
LEMMA DefaultTargetRight ==
  ASSUME NEW ts \in Seq(Disks), ts # <<>>
  PROVE  /\ Contains(ts, DefaultCaptureTarget(ts))
         /\ \A x : Contains(ts, x) => ~Better(x, DefaultCaptureTarget(ts))
<1> DEFINE n == Len(ts)
<1>1. n \in Nat /\ n # 0 /\ DOMAIN ts = 1..n /\ \A i \in 1..n : ts[i] \in Disks
  BY EmptySeq, LenProperties
<1>2. ts \in [1..n -> Disks]
  <2>1. ts = [i \in 1..n |-> ts[i]]
    BY <1>1, LenProperties
  <2> HIDE DEF n
  <2> QED
    BY <1>1, <2>1
<1>3. \A x : Contains(ts, x) <=> \E i \in 1..n : ts[i] = x
  BY DEF Contains
<1> HIDE DEF n
<1>4. PICK f : /\ f[0] = ts[1]
               /\ \A k \in 1..n : f[k] = Preferred(f[k - 1], ts[k])
               /\ DefaultCaptureTarget(ts) = f[n]
  BY <1>1, <1>2, BestsAre
<1> DEFINE Done(k) == /\ \E i \in 1..n : f[k] = ts[i]
                      /\ \A i \in 1..k : ~Better(ts[i], f[k])
           S == {k \in Nat : k <= n => Done(k)}
<1>5. 0 \in S
  <2>1. 1 \in 1..n /\ \A i \in 1..0 : FALSE
    BY <1>1
  <2> QED
    BY <1>4, <2>1
<1>6. ASSUME NEW k \in Nat, k \in S
      PROVE  k + 1 \in S
  <2> SUFFICES ASSUME k + 1 <= n
               PROVE  Done(k + 1)
    OBVIOUS
  <2>1. Done(k)
    <3> HIDE DEF Done
    <3> QED
      BY <1>1, <1>6
  <2>2. k + 1 \in 1..n /\ f[k + 1] = Preferred(f[k], ts[k + 1]) /\ \A i \in 1..k : i \in 1..n
    <3>1. k + 1 \in 1..n /\ (k + 1) - 1 = k
      BY <1>1
    <3> QED
      BY <1>1, <1>4, <3>1
  <2>3. f[k] \in Disks /\ ts[k + 1] \in Disks /\ \A i \in 1..k : ts[i] \in Disks
    BY <1>1, <2>1, <2>2
  <2>4. \A i \in 1..(k + 1) : i \in 1..k \/ i = k + 1
    OBVIOUS
  <2>5. CASE Better(ts[k + 1], f[k])
    <3>1. f[k + 1] = ts[k + 1]
      BY <2>2, <2>5 DEF Preferred
    <3>2. \A i \in 1..k : ~Better(ts[i], ts[k + 1])
      BY <2>1, <2>3, <2>5, BetterOrders
    <3>3. ~Better(ts[k + 1], ts[k + 1])
      BY <2>3, BetterOrders
    <3> QED
      BY <2>2, <2>4, <3>1, <3>2, <3>3
  <2>6. CASE ~Better(ts[k + 1], f[k])
    <3>1. f[k + 1] = f[k]
      BY <2>2, <2>6 DEF Preferred
    <3> QED
      BY <2>1, <2>4, <2>6, <3>1
  <2> QED
    BY <2>5, <2>6
<1> HIDE DEF S
<1>7. Done(n)
  <2>1. n \in S
    BY <1>1, <1>5, <1>6, SetInduction
  <2> QED
    BY <1>1, <2>1 DEF S
<1> QED
  BY <1>3, <1>4, <1>7

(***************************************************************************)
(* Part 18: the answer to a request for a capture.                         *)
(***************************************************************************)
\* What the assumption says of the limits.
LEMMA Envelope ==
  /\ MaxSec \in Nat /\ MaxMB \in Nat /\ MinMinFree \in Nat /\ DefaultMinFree \in Nat
  /\ DefaultSec \in 1..MaxSec /\ DefaultMB \in 1..MaxMB /\ DefaultMinFree >= MinMinFree
<1>1. {MaxSec, MaxMB, MinMinFree, DefaultMinFree} \subseteq Nat
  BY CaptureRulesAssumption
<1>2. MaxSec \in Nat /\ MaxMB \in Nat /\ MinMinFree \in Nat /\ DefaultMinFree \in Nat
  BY <1>1
<1>3. DefaultSec \in 1..MaxSec /\ DefaultMB \in 1..MaxMB /\ DefaultMinFree >= MinMinFree
  BY CaptureRulesAssumption
<1> QED
  BY <1>2, <1>3

\* The limits come into their envelope, and a size that is in it stays.
LEMMA LimitsRight ==
  ASSUME NEW r,
         DOMAIN r = {"ports", "hosts", "noFilter", "maxSec", "maxMB", "minFree", "dir"},
         r.maxSec \in Int, r.maxMB \in Int, r.minFree \in Int
  PROVE  /\ ClampCapRequest(r).maxSec \in 1..MaxSec
         /\ ClampCapRequest(r).maxMB \in 1..MaxMB
         /\ ClampCapRequest(r).minFree \in Nat /\ ClampCapRequest(r).minFree >= MinMinFree
         /\ r.maxMB \in 1..MaxMB => ClampCapRequest(r).maxMB = r.maxMB
         /\ ClampCapRequest(r).dir = r.dir
<1>1. /\ ClampCapRequest(r).maxSec = Clamp(r.maxSec, 1, DefaultSec, MaxSec)
      /\ ClampCapRequest(r).maxMB = Clamp(r.maxMB, 1, DefaultMB, MaxMB)
      /\ ClampCapRequest(r).minFree = IF r.minFree <= 0 THEN DefaultMinFree
                                      ELSE IF r.minFree < MinMinFree THEN MinMinFree ELSE r.minFree
      /\ ClampCapRequest(r).dir = r.dir
  BY DEF ClampCapRequest
<1>2. ASSUME NEW most \in Nat, NEW default \in 1..most, NEW x \in Int
      PROVE  /\ Clamp(x, 1, default, most) \in 1..most
             /\ x \in 1..most => Clamp(x, 1, default, most) = x
  BY DEF Clamp
<1>3. /\ MaxSec \in Nat /\ MaxMB \in Nat /\ MinMinFree \in Nat /\ DefaultMinFree \in Nat
      /\ DefaultSec \in 1..MaxSec /\ DefaultMB \in 1..MaxMB /\ DefaultMinFree >= MinMinFree
  BY Envelope
<1>4. Clamp(r.maxSec, 1, DefaultSec, MaxSec) \in 1..MaxSec
  BY <1>2, <1>3
<1>5. /\ Clamp(r.maxMB, 1, DefaultMB, MaxMB) \in 1..MaxMB
      /\ r.maxMB \in 1..MaxMB => Clamp(r.maxMB, 1, DefaultMB, MaxMB) = r.maxMB
  BY <1>2, <1>3
<1> QED
  BY <1>1, <1>3, <1>4, <1>5

\* What both fields of a request hold, as StartCapture reads them.
Typed(r) ==
  r \in [ports : Seq({Junk} \cup (Nat \X Nat)), hosts : Seq(Tokens4),
         noFilter : BOOLEAN, maxSec : Int, maxMB : Int, minFree : Int, dir : STRING]

\* The filter of an accepted request takes the packets that were asked for.
LEMMA WordsRight ==
  ASSUME NEW r, Typed(r), ParsePortSpec(r.ports).ok, ParseHostSpec(r.hosts).ok,
         NEW pkt, pkt.addrs \subseteq Nat, pkt.ports \subseteq Nat
  PROVE  Matches(CaptureFilter(ParseHostSpec(r.hosts).items, ParsePortSpec(r.ports).items), pkt)
           = Wanted(r, pkt)
<1> DEFINE hosts == ParseHostSpec(r.hosts).items
           ports == ParsePortSpec(r.ports).items
           AnyHost == \E i \in DOMAIN r.hosts : \E at \in pkt.addrs :
             IF r.hosts[i].kind = "net"
             THEN at \div Addresses[Bits - r.hosts[i].bits] = r.hosts[i].at \div Addresses[Bits - r.hosts[i].bits]
             ELSE at = r.hosts[i].at
           AnyPort == \E i \in DOMAIN r.ports : \E p \in pkt.ports : r.ports[i][1] <= p /\ p <= r.ports[i][2]
<1>1. r.ports \in Seq({Junk} \cup Range2) /\ r.hosts \in Seq(Tokens4)
  BY DEF Typed, Range2
<1>2. /\ ports \in Seq(Range2)
      /\ ports = <<>> <=> r.ports = <<>>
      /\ \A p \in Nat : Covers(ports, p) <=> \E i \in DOMAIN r.ports : r.ports[i][1] <= p /\ p <= r.ports[i][2]
  BY <1>1, PortsRight
<1>3. /\ \E T : hosts \in Seq(T)
      /\ hosts = <<>> <=> r.hosts = <<>>
      /\ \A x : Contains(hosts, x) <=> \E i \in DOMAIN r.hosts : x = ParseHostTerm(r.hosts[i])
  BY <1>1, HostsRight
<1> HIDE DEF hosts, ports
<1>4. Matches(CaptureFilter(hosts, ports), pkt)
        = ((hosts # <<>> => Some("host", hosts, pkt)) /\ (ports # <<>> => Some("port", ports, pkt)))
  BY <1>2, <1>3, FilterRight
<1>5. Some("host", hosts, pkt) <=> AnyHost
  <2>1. \A i \in DOMAIN r.hosts : r.hosts[i] \in Tokens4
    BY <1>1, ElementOfSeq, LenProperties
  <2>2. Some("host", hosts, pkt) <=> \E x : Contains(hosts, x) /\ \E at \in pkt.addrs : TermHolds(x, at)
    <3>1. \A x : Holds([word |-> "host", arg |-> x], pkt) <=> \E at \in pkt.addrs : TermHolds(x, at)
      BY DEF Holds
    <3>2. \A x : Contains(hosts, x) <=> \E i \in 1..Len(hosts) : hosts[i] = x
      BY DEF Contains
    <3> QED
      BY <3>1, <3>2 DEF Some
  <2>3. Some("host", hosts, pkt)
          <=> \E i \in DOMAIN r.hosts : \E at \in pkt.addrs : TermHolds(ParseHostTerm(r.hosts[i]), at)
    BY <1>3, <2>2
  <2>4. ASSUME NEW i \in DOMAIN r.hosts, NEW at \in pkt.addrs
        PROVE  TermHolds(ParseHostTerm(r.hosts[i]), at)
                 <=> IF r.hosts[i].kind = "net"
                     THEN at \div Addresses[Bits - r.hosts[i].bits]
                            = r.hosts[i].at \div Addresses[Bits - r.hosts[i].bits]
                     ELSE at = r.hosts[i].at
    <3>1. r.hosts[i] \in Tokens4 /\ at \in Nat
      BY <2>1
    <3> QED
      BY <3>1, TermRight
  <2> QED
    BY <2>3, <2>4
<1>6. Some("port", ports, pkt) <=> AnyPort
  <2>1. \A i \in 1..Len(ports) : ports[i][1] \in Nat /\ ports[i][2] \in Nat
    BY <1>2, ElementOfSeq DEF Range2
  <2>2. ASSUME NEW i \in 1..Len(ports)
        PROVE  Holds([word |-> "port", arg |-> ports[i]], pkt)
                 <=> \E p \in pkt.ports : ports[i][1] <= p /\ p <= ports[i][2]
    <3>1. Holds([word |-> "port", arg |-> ports[i]], pkt) <=> \E p \in pkt.ports : p \in ports[i][1]..ports[i][2]
      BY DEF Holds
    <3>2. \A p \in pkt.ports : p \in ports[i][1]..ports[i][2] <=> ports[i][1] <= p /\ p <= ports[i][2]
      BY <2>1
    <3> QED
      BY <3>1, <3>2
  <2>3. DOMAIN ports = 1..Len(ports)
    BY <1>2, LenProperties
  <2>4. Some("port", ports, pkt) <=> \E p \in pkt.ports : Covers(ports, p)
    BY <2>2, <2>3 DEF Some, Covers
  <2> QED
    BY <1>2, <2>4
<1>7. Wanted(r, pkt) = ((r.hosts # <<>> => AnyHost) /\ (r.ports # <<>> => AnyPort))
  BY DEF Wanted
<1> HIDE DEF AnyHost, AnyPort
<1>8. /\ Some("host", hosts, pkt) \in BOOLEAN /\ Some("port", ports, pkt) \in BOOLEAN
      /\ AnyHost \in BOOLEAN /\ AnyPort \in BOOLEAN
  BY DEF Some, AnyHost, AnyPort
<1> QED
  BY <1>2, <1>3, <1>4, <1>5, <1>6, <1>7, <1>8 DEF hosts, ports

\* A target is a disk that was probed, and every disk that was probed has a target.
LEMMA TargetsRight ==
  ASSUME NEW probed \in Seq(Disks), ProbedAlike(probed)
  PROVE  /\ CaptureTargets(probed) \in Seq(Disks)
         /\ \A x : Contains(CaptureTargets(probed), x) => WasProbed(probed, x) /\ x.fs \notin InMemory
         /\ \A j \in DOMAIN probed : probed[j].fs \in InMemory
              \/ \E x : /\ Contains(CaptureTargets(probed), x)
                        /\ x.mount = probed[j].mount /\ x.free = probed[j].free
<1> DEFINE all == RecTargets(probed)
           ts == CaptureTargets(probed)
<1>1. /\ all \in Seq(Disks)
      /\ \A j \in 1..Len(all) : WasProbed(probed, all[j])
      /\ \A i \in DOMAIN probed : Reaches(all, probed[i].mount)
  BY RecTargetsRight
<1>2. /\ ts \in Seq(Disks)
      /\ \A x : Contains(ts, x) <=> Contains(all, x) /\ x.fs \notin InMemory
  BY <1>1, CaptureTargetsRight
<1>3. \A x : Contains(all, x) <=> \E j \in 1..Len(all) : all[j] = x
  BY DEF Contains
<1> HIDE DEF all, ts
<1>4. ASSUME NEW j \in DOMAIN probed, probed[j].fs \notin InMemory
      PROVE  \E x : Contains(ts, x) /\ x.mount = probed[j].mount /\ x.free = probed[j].free
  <2>1. PICK k \in 1..Len(all) : all[k].mount = probed[j].mount
    BY <1>1 DEF Reaches
  <2>2. PICK i \in DOMAIN probed : /\ probed[i].mount = all[k].mount
                                   /\ probed[i].fs = all[k].fs /\ probed[i].free = all[k].free
    BY <1>1 DEF WasProbed
  <2>3. probed[i].fs = probed[j].fs /\ probed[i].free = probed[j].free
    BY <2>1, <2>2 DEF ProbedAlike
  <2>4. Contains(ts, all[k])
    BY <1>2, <1>3, <1>4, <2>2, <2>3
  <2> QED
    BY <2>1, <2>2, <2>3, <2>4
<1> QED
  BY <1>1, <1>2, <1>3, <1>4 DEF ts

LEMMA FirstAsked ==
  ASSUME NEW ts \in Seq(Disks), NEW d, NEW i, i = SelectInSeq(ts, LAMBDA t : t.path = d), i # 0
  PROVE  i \in 1..Len(ts) /\ ts[i].path = d
<1> DEFINE I == {j \in 1..Len(ts) : ts[j].path = d}
<1>1. i = IF I # {} THEN Min(I) ELSE 0
  BY DEF SelectInSeq
<1>2. Len(ts) \in Nat /\ I \in SUBSET Nat /\ I # {}
  BY <1>1, LenProperties
<1>3. Min(I) \in I
  BY <1>2, MinIn
<1> QED
  BY <1>1, <1>2, <1>3

\* The target is the one at dir or, when dir is empty, none is better.
ChosenAt(ts, dir, chosen) ==
  /\ Contains(ts, chosen)
  /\ dir # "" => chosen.path = dir
  /\ dir = "" => \A x : Contains(ts, x) => ~Better(x, chosen)

\* A probed disk is where it was asked for or the roomiest, with room for the file.
Roomy(probed, dir, chosen, maxMB, minFree) ==
  \E i \in DOMAIN probed :
    /\ probed[i].path = chosen.path
    /\ probed[i].fs \notin {"tmpfs", "ramfs"}
    /\ probed[i].free > 0 => maxMB + minFree <= probed[i].free
    /\ dir # "" => probed[i].path = dir
    /\ dir = "" => \A j \in DOMAIN probed :
         probed[j].fs \in {"tmpfs", "ramfs"}
           \/ (probed[j].mount = "/" /\ probed[i].mount # "/")
           \/ ((probed[j].mount = "/" <=> probed[i].mount = "/")
                /\ probed[j].free <= probed[i].free)

LEMMA PlaceRight ==
  ASSUME NEW probed \in Seq(Disks), ProbedAlike(probed), NEW dir, NEW chosen,
         ChosenAt(CaptureTargets(probed), dir, chosen),
         NEW maxMB \in Nat, NEW minFree \in Nat, ~(chosen.free > 0 /\ maxMB > chosen.free - minFree)
  PROVE  Roomy(probed, dir, chosen, maxMB, minFree)
<1>1. WasProbed(probed, chosen) /\ chosen.fs \notin InMemory
  BY TargetsRight DEF ChosenAt
<1>2. PICK i \in DOMAIN probed : /\ probed[i].path = chosen.path /\ probed[i].mount = chosen.mount
                                 /\ probed[i].fs = chosen.fs /\ probed[i].free = chosen.free
  BY <1>1 DEF WasProbed
<1>3. \A j \in DOMAIN probed : probed[j].free \in Nat
  <2>1. \A j \in DOMAIN probed : probed[j] \in Disks
    BY ElementOfSeq, LenProperties
  <2> QED
    BY <2>1 DEF Disks
<1>4. probed[i].free > 0 => maxMB + minFree <= probed[i].free
  BY <1>2, <1>3
<1>5. ASSUME dir = "", NEW j \in DOMAIN probed, probed[j].fs \notin InMemory
      PROVE  \/ probed[j].mount = "/" /\ probed[i].mount # "/"
             \/ (probed[j].mount = "/" <=> probed[i].mount = "/") /\ probed[j].free <= probed[i].free
  <2>1. PICK x : /\ Contains(CaptureTargets(probed), x)
                 /\ x.mount = probed[j].mount /\ x.free = probed[j].free
    BY <1>5, TargetsRight
  <2>2. ~Better(x, chosen)
    BY <1>5, <2>1 DEF ChosenAt
  <2>3. /\ ~(probed[i].mount = "/" /\ probed[j].mount # "/")
        /\ ~((probed[i].mount = "/" <=> probed[j].mount = "/") /\ probed[j].free > probed[i].free)
    BY <1>2, <2>1, <2>2 DEF Better
  <2> QED
    BY <1>3, <2>3
<1> QED
  BY <1>1, <1>2, <1>4, <1>5 DEF InMemory, ChosenAt, Roomy

\* An accepted request is answered rightly.
LEMMA AnswerRight ==
  ASSUME NEW r, Typed(r), NEW probed \in Seq(Disks), ProbedAlike(probed),
         \A pkt \in Packets : pkt.addrs \subseteq Nat /\ pkt.ports \subseteq Nat
  PROVE  CaptureRight(r, probed, Packets, StartCapture(r, probed))
<1> DEFINE req == ClampCapRequest(r)
           ports == ParsePortSpec(r.ports)
           hosts == ParseHostSpec(r.hosts)
           targets == CaptureTargets(probed)
           place == SelectInSeq(targets, LAMBDA t : t.path = req.dir)
           chosen == IF req.dir = "" THEN DefaultCaptureTarget(targets) ELSE targets[place]
           words == CaptureFilter(hosts.items, ports.items)
           a == StartCapture(r, probed)
<1> SUFFICES ASSUME a.ok
             PROVE  CaptureRight(r, probed, Packets, a)
  BY DEF CaptureRight
<1>1. /\ ports.ok /\ hosts.ok
      /\ ports.items = <<>> /\ hosts.items = <<>> => r.noFilter
      /\ targets # <<>> /\ (req.dir # "" => place # 0)
      /\ ~(chosen.free > 0 /\ req.maxMB > chosen.free - req.minFree)
      /\ a.words = words /\ a.target = chosen
      /\ a.maxSec = req.maxSec /\ a.maxMB = req.maxMB /\ a.minFree = req.minFree
  <2> HIDE DEF req, ports, hosts, targets, place, chosen, words
  <2>1. a = IF ~ports.ok \/ ~hosts.ok THEN Refused
            ELSE IF ports.items = <<>> /\ hosts.items = <<>> /\ ~r.noFilter THEN Refused
            ELSE IF targets = <<>> \/ (req.dir # "" /\ place = 0) THEN Refused
            ELSE IF chosen.free > 0 /\ req.maxMB > chosen.free - req.minFree THEN Refused
            ELSE [ok |-> TRUE, words |-> words, target |-> chosen,
                  maxSec |-> req.maxSec, maxMB |-> req.maxMB, minFree |-> req.minFree]
    BY DEF StartCapture, req, ports, hosts, targets, place, chosen, words
  <2>2. ~Refused.ok
    BY DEF Refused
  <2> HIDE DEF a
  <2> QED
    BY <2>1, <2>2
<1>2. \A pkt \in Packets : Matches(words, pkt) = Wanted(r, pkt)
  <2> TAKE pkt \in Packets
  <2>1. pkt.addrs \subseteq Nat /\ pkt.ports \subseteq Nat
    OBVIOUS
  <2> QED
    BY <1>1, <2>1, WordsRight
<1>3. /\ req.maxSec \in 1..MaxSec /\ req.maxMB \in 1..MaxMB
      /\ req.minFree \in Nat /\ req.minFree >= MinMinFree
      /\ r.maxMB \in 1..MaxMB => req.maxMB = r.maxMB
      /\ req.dir = r.dir
  <2>1. /\ DOMAIN r = {"ports", "hosts", "noFilter", "maxSec", "maxMB", "minFree", "dir"}
        /\ r.maxSec \in Int /\ r.maxMB \in Int /\ r.minFree \in Int
    BY DEF Typed
  <2> QED
    BY <2>1, LimitsRight
<1>4. words = <<>> => r.noFilter
  <2>1. /\ ports.items \in Seq(Range2)
        /\ \E T : hosts.items \in Seq(T)
    <3>1. r.ports \in Seq({Junk} \cup Range2) /\ r.hosts \in Seq(Tokens4)
      BY DEF Typed, Range2
    <3> QED
      BY <1>1, <3>1, PortsRight, HostsRight
  <2> HIDE DEF ports, hosts
  <2>2. PICK T : hosts.items \in Seq(T)
    BY <2>1
  <2>3. words = <<>> => hosts.items = <<>> /\ ports.items = <<>>
    BY <2>1, <2>2, FilterRight
  <2> QED
    BY <1>1, <2>3
<1>5. targets \in Seq(Disks)
  BY TargetsRight
<1> HIDE DEF req, ports, hosts, targets, place, words, a
<1>6. ChosenAt(targets, r.dir, chosen)
  <2>1. CASE r.dir = ""
    <3>1. chosen = DefaultCaptureTarget(targets)
      BY <1>3, <2>1
    <3> HIDE DEF chosen
    <3> QED
      BY <1>1, <1>5, <2>1, <3>1, DefaultTargetRight DEF ChosenAt
  <2>2. CASE r.dir # ""
    <3>1. chosen = targets[place] /\ place # 0
      BY <1>1, <1>3, <2>2
    <3>2. place \in 1..Len(targets) /\ targets[place].path = req.dir
      BY <1>5, <3>1, FirstAsked DEF place
    <3> HIDE DEF chosen
    <3> QED
      BY <1>3, <2>2, <3>1, <3>2 DEF Contains, ChosenAt
  <2> QED
    BY <2>1, <2>2
<1> HIDE DEF chosen
<1>7. Roomy(probed, r.dir, chosen, req.maxMB, req.minFree)
  <2>1. req.maxMB \in Nat /\ req.minFree \in Nat /\ MaxMB \in Nat
    BY <1>3, Envelope
  <2>2. ChosenAt(CaptureTargets(probed), r.dir, chosen)
    BY <1>6 DEF targets
  <2> QED
    BY <1>1, <2>1, <2>2, PlaceRight
<1> QED
  BY <1>1, <1>2, <1>3, <1>4, <1>7 DEF CaptureRight, Roomy

(***************************************************************************)
(* Whatever is typed into the dialog and whatever filesystems the host     *)
(* has: an accepted capture takes exactly the packets that were asked for, *)
(* stays within the limits and lies on a disk that can hold it             *)
(* (parsePortSpec, parseHostSpec, captureFilter, clampCapRequest,          *)
(* captureTargets, StartCapture).                                          *)
(***************************************************************************)
THEOREM CapturesAsAsked == Spec => []CapturesRight
<1> DEFINE Requested == asked.what = "capture" =>
                          \E q \in CapRequests : /\ asked.req = q[1] /\ asked.probed = q[2]
                                                 /\ answer = StartCapture(q[1], q[2])
<1>1. Init => Requested
  BY DEF Init, Nothing
<1>2. Requested /\ [Next]_vars => Requested'
  <2> SUFFICES ASSUME Requested, [Next]_vars
               PROVE  Requested'
    OBVIOUS
  <2>1. CASE Captures
    <3>1. PICK q \in CapRequests : /\ asked' = [what |-> "capture", req |-> q[1], probed |-> q[2]]
                                   /\ answer' = StartCapture(q[1], q[2])
      BY <2>1 DEF Captures
    <3>2. asked'.req = q[1] /\ asked'.probed = q[2]
      BY <3>1
    <3> QED
      BY <3>1, <3>2
  <2>2. CASE Start \/ Filters \/ Plans \/ NamesServers \/ Inspects \/ Submits \/ Registers
    <3>1. asked'.what # "capture"
      BY <2>2 DEF Start, Filters, Plans, NamesServers, Inspects, Submits, Registers, Nothing
    <3> QED
      BY <3>1
  <2>3. CASE UNCHANGED vars
    BY <2>3 DEF vars
  <2> QED
    BY <2>1, <2>2, <2>3 DEF Next
<1>3. Requested => CapturesRight
  <2> SUFFICES ASSUME Requested, asked.what = "capture"
               PROVE  CaptureRight(asked.req, asked.probed, Packets, answer)
    BY DEF CapturesRight
  <2>1. PICK q \in CapRequests : /\ asked.req = q[1] /\ asked.probed = q[2]
                                 /\ answer = StartCapture(q[1], q[2])
    OBVIOUS
  <2>2. Typed(q[1]) /\ q[2] \in Seq(Disks) /\ ProbedAlike(q[2])
    BY RulesAssumption DEF Typed, Tokens4, Disks, ProbedAlike
  <2>3. \A pkt \in Packets : pkt.addrs \subseteq Nat /\ pkt.ports \subseteq Nat
    BY RulesAssumption
  <2>4. CaptureRight(q[1], q[2], Packets, StartCapture(q[1], q[2]))
    <3> HIDE DEF Requested
    <3> QED
      BY <2>2, <2>3, AnswerRight
  <2> QED
    BY <2>1, <2>4
<1>4. Spec => []Requested
  BY <1>1, <1>2, PTL DEF Spec
<1> QED
  BY <1>3, <1>4, PTL

(***************************************************************************)
(* Part 19: what sequences hold.                                           *)
(***************************************************************************)
LEMMA AppendHas ==
  ASSUME NEW T, NEW s \in Seq(T), NEW x \in T
  PROVE  \A y : Contains(Append(s, x), y) <=> Contains(s, y) \/ y = x
<1> DEFINE n == Len(s)
           new == Append(s, x)
<1>1. /\ n \in Nat /\ Len(new) = n + 1
      /\ \A i \in 1..n : new[i] = s[i]
      /\ new[n + 1] = x
  BY AppendProperties, LenProperties
<1>2. \A y : Contains(new, y) <=> \E i \in 1..(n + 1) : new[i] = y
  BY <1>1 DEF Contains
<1>3. \A y : Contains(s, y) <=> \E i \in 1..n : s[i] = y
  BY DEF Contains
<1> HIDE DEF n, new
<1>4. /\ \A i \in 1..(n + 1) : i \in 1..n \/ i = n + 1
      /\ n + 1 \in 1..(n + 1) /\ \A i \in 1..n : i \in 1..(n + 1)
  BY <1>1
<1>5. \A y : Contains(new, y) <=> Contains(s, y) \/ y = x
  BY <1>1, <1>2, <1>3, <1>4
<1> QED
  BY <1>5 DEF new

LEMMA ConcatHas ==
  ASSUME NEW T, NEW s \in Seq(T), NEW t \in Seq(T)
  PROVE  s \o t \in Seq(T) /\ \A y : Contains(s \o t, y) <=> Contains(s, y) \/ Contains(t, y)
<1> DEFINE n == Len(s)
           m == Len(t)
           new == s \o t
<1>1. /\ n \in Nat /\ m \in Nat /\ new \in Seq(T) /\ Len(new) = n + m
      /\ \A i \in 1..(n + m) : new[i] = IF i <= n THEN s[i] ELSE t[i - n]
  BY ConcatProperties, LenProperties
<1>2. \A y : Contains(new, y) <=> \E i \in 1..(n + m) : new[i] = y
  BY <1>1 DEF Contains
<1>3. \A y : Contains(s, y) <=> \E i \in 1..n : s[i] = y
  BY DEF Contains
<1>4. \A y : Contains(t, y) <=> \E i \in 1..m : t[i] = y
  BY DEF Contains
<1> HIDE DEF n, m, new
<1>5. /\ \A i \in 1..(n + m) : (i <= n => i \in 1..n) /\ (~(i <= n) => i - n \in 1..m)
      /\ \A i \in 1..n : i \in 1..(n + m) /\ i <= n
      /\ \A i \in 1..m : i + n \in 1..(n + m) /\ ~(i + n <= n) /\ (i + n) - n = i
  BY <1>1
<1>6. ASSUME NEW y, Contains(new, y)
      PROVE  Contains(s, y) \/ Contains(t, y)
  BY <1>1, <1>2, <1>3, <1>4, <1>5, <1>6
<1>7. ASSUME NEW y, Contains(s, y)
      PROVE  Contains(new, y)
  BY <1>1, <1>2, <1>3, <1>5, <1>7
<1>8. ASSUME NEW y, Contains(t, y)
      PROVE  Contains(new, y)
  <2>1. PICK i \in 1..m : t[i] = y
    BY <1>4, <1>8
  <2>2. new[i + n] = y /\ i + n \in 1..(n + m)
    BY <1>1, <1>5, <2>1
  <2> QED
    BY <1>2, <2>2
<1> QED
  BY <1>1, <1>6, <1>7, <1>8 DEF new

LEMMA FlattenHas ==
  ASSUME NEW T, NEW seqs \in Seq(Seq(T))
  PROVE  /\ FlattenSeq(seqs) \in Seq(T)
         /\ \A y : Contains(FlattenSeq(seqs), y) <=> \E i \in 1..Len(seqs) : Contains(seqs[i], y)
<1> DEFINE out == FlattenSeq(seqs)
<1>1. out \in Seq(T) /\ InTurn(seqs, Len(seqs), out)
  BY Concatenated
<1>2. PICK b, o : Placing(seqs, Len(seqs), out, b, o)
  BY <1>1 DEF InTurn
<1> HIDE DEF out
<1>3. ASSUME NEW y, Contains(out, y)
      PROVE  \E i \in 1..Len(seqs) : Contains(seqs[i], y)
  <2>1. PICK p \in 1..Len(out) : out[p] = y
    BY <1>3 DEF Contains
  <2>2. b[p] \in 1..Len(seqs) /\ o[p] \in 1..Len(seqs[b[p]]) /\ out[p] = seqs[b[p]][o[p]]
    BY <1>2 DEF Placing
  <2> QED
    BY <2>1, <2>2 DEF Contains
<1>4. ASSUME NEW y, NEW i \in 1..Len(seqs), Contains(seqs[i], y)
      PROVE  Contains(out, y)
  <2>1. PICK j \in 1..Len(seqs[i]) : seqs[i][j] = y
    BY <1>4 DEF Contains
  <2>2. PICK p \in 1..Len(out) : p >= j /\ b[p] = i /\ o[p] = j
    BY <1>2 DEF Placing
  <2>3. out[p] = seqs[b[p]][o[p]]
    BY <1>2 DEF Placing
  <2> QED
    BY <2>1, <2>2, <2>3 DEF Contains
<1> QED
  BY <1>1, <1>3, <1>4 DEF out

LEMMA SetAsSeq ==
  ASSUME NEW S, IsFiniteSet(S)
  PROVE  SetToSeq(S) \in Seq(S) /\ \A y : Contains(SetToSeq(S), y) <=> y \in S
<1> DEFINE n == Cardinality(S)
           s == SetToSeq(S)
<1>1. n \in Nat
  BY FS_CardinalityType
<1>2. PICK g \in Bijection(1..n, S) : TRUE
  BY FS_CardinalityType DEF ExistsBijection
<1>3. g \in [1..n -> S] /\ IsInjective(g)
  BY <1>2 DEF Bijection, Injection
<1>4. s \in [1..n -> S] /\ IsInjective(s)
  BY <1>3 DEF SetToSeq
<1>5. IsFiniteSet(1..n) /\ Cardinality(1..n) = n
  BY <1>1, FS_Interval
<1> HIDE DEF s
<1>6. s \in Injection(1..n, S)
  BY <1>4 DEF Injection
<1>7. s \in Surjection(1..n, S)
  <2> HIDE DEF n
  <2>1. Cardinality(1..n) = Cardinality(S)
    BY <1>5 DEF n
  <2> QED
    BY <1>6, <2>1, FS_Injection
<1> HIDE DEF n
<1>8. s \in Seq(S) /\ Len(s) = n
  BY <1>1, <1>4, AsSeq
<1>9. \A y : Contains(s, y) <=> y \in S
  BY <1>4, <1>7, <1>8 DEF Surjection, Contains
<1> QED
  BY <1>8, <1>9 DEF s

LEMMA Members ==
  ASSUME NEW T, NEW s \in Seq(T)
  PROVE  \A y : (y \in ToSet(s) <=> Contains(s, y)) /\ (Contains(s, y) => y \in T)
<1>1. DOMAIN s = 1..Len(s) /\ \A i \in 1..Len(s) : s[i] \in T
  BY LenProperties, ElementOfSeq
<1> QED
  BY <1>1 DEF ToSet, Contains

KeepIf(S, out, x) == IF x \in S THEN Append(out, x) ELSE out

\* Among goes through the sequence once: f[k] is what it has of the first k.
Sifts(S, s, f) ==
  /\ f[0] = <<>>
  /\ \A k \in 1..Len(s) : f[k] = KeepIf(S, f[k - 1], s[k])
  /\ Among(S, s) = f[Len(s)]

LEMMA KeepSteps ==
  ASSUME NEW T, NEW S, NEW s \in Seq(T)
  PROVE  \E f : Sifts(S, s, f)
<1> DEFINE n == Len(s)
           A == Seq(T)
           step == [q \in (1..n) \X A |-> KeepIf(S, q[2], s[q[1]])]
           Eq(it) == it = [t \in SUBSET (1..n) |->
                            IF t = {} THEN <<>> ELSE KeepIf(S, it[t \ {Max(t)}], s[Max(t)])]
           it == CHOOSE i : Eq(i)
           f == [k \in 0..n |-> it[1..k]]
<1>0. n \in Nat /\ s \in [1..n -> T]
  BY LenProperties
<1> HIDE DEF n
<1>1. PICK i : Folding(n, <<>>, step, i) /\ \A t \in SUBSET (1..n) : i[t] \in A
  <2>1. \A k \in 1..n : \A x \in A : step[<<k, x>>] = KeepIf(S, x, s[k]) /\ KeepIf(S, x, s[k]) \in A
    BY <1>0, AppendProperties DEF KeepIf
  <2>2. <<>> \in A
    BY EmptySeq, FS_EmptySet
  <2> HIDE DEF A, step
  <2> QED
    BY <1>0, <2>1, <2>2, FoldingExists
<1>2. Eq(i)
  <2>1. ASSUME NEW t \in SUBSET (1..n), t # {}
        PROVE  step[<<Max(t), i[t \ {Max(t)}]>>] = KeepIf(S, i[t \ {Max(t)}], s[Max(t)])
    <3>1. Max(t) \in 1..n /\ t \ {Max(t)} \in SUBSET (1..n)
      BY <1>0, <2>1, MaxIn
    <3> QED
      BY <1>1, <3>1
  <2>2. i = [t \in SUBSET (1..n) |-> IF t = {} THEN <<>> ELSE step[<<Max(t), i[t \ {Max(t)}]>>]]
    BY <1>1 DEF Folding
  <2> HIDE DEF step
  <2> QED
    BY <2>1, <2>2
<1>3. Eq(it)
  <2> HIDE DEF Eq
  <2> QED
    BY <1>2
<1>4. Among(S, s) = it[1..n]
  <2>1. DOMAIN s = 1..n
    BY <1>0
  <2> QED
    BY <2>1 DEF Among, KeepIf, FoldLeft, MapThenFoldSet
<1> HIDE DEF it
<1>5. \A t \in SUBSET (1..n) :
        it[t] = IF t = {} THEN <<>> ELSE KeepIf(S, it[t \ {Max(t)}], s[Max(t)])
  BY <1>3
<1>6. f[0] = it[1..0] /\ f[n] = it[1..n] /\ \A k \in 1..n : f[k] = it[1..k] /\ f[k - 1] = it[1..(k - 1)]
  BY <1>0
<1> HIDE DEF f
<1>7. f[0] = <<>>
  BY <1>0, <1>5, <1>6, UpTo
<1>8. ASSUME NEW k \in 1..n
      PROVE  f[k] = KeepIf(S, f[k - 1], s[k])
  <2>1. 1..k \in SUBSET (1..n) /\ 1..k # {} /\ Max(1..k) = k /\ (1..k) \ {k} = 1..(k - 1)
    BY <1>0, UpTo
  <2>2. it[1..k] = KeepIf(S, it[1..(k - 1)], s[k])
    BY <1>5, <2>1
  <2> QED
    BY <1>6, <2>2
<1> QED
  BY <1>4, <1>6, <1>7, <1>8 DEF n, Sifts

LEMMA AmongHas ==
  ASSUME NEW T, NEW S, NEW s \in Seq(T)
  PROVE  Among(S, s) \in Seq(T) /\ \A y : Contains(Among(S, s), y) <=> y \in S /\ Contains(s, y)
<1> DEFINE n == Len(s)
<1>1. n \in Nat /\ s \in [1..n -> T]
  BY LenProperties
<1>2. PICK f : Sifts(S, s, f)
  BY KeepSteps
<1>3. /\ f[0] = <<>>
      /\ \A k \in 1..n : f[k] = KeepIf(S, f[k - 1], s[k])
      /\ Among(S, s) = f[n]
  BY <1>2 DEF Sifts
<1> DEFINE Passed(k, y) == \E i \in 1..k : y = s[i] /\ y \in S
           Done(k) == f[k] \in Seq(T) /\ \A y : Contains(f[k], y) <=> Passed(k, y)
           I == {k \in Nat : k <= n => Done(k)}
<1> HIDE DEF n
<1>4. 0 \in I
  <2>1. f[0] \in Seq(T) /\ Len(f[0]) = 0 /\ \A i \in 1..0 : FALSE
    BY <1>3, EmptySeq
  <2>2. \A y : ~Contains(f[0], y) /\ ~Passed(0, y)
    BY <2>1 DEF Contains
  <2> HIDE DEF Passed
  <2> QED
    BY <2>1, <2>2
<1>5. ASSUME NEW k \in Nat, k \in I
      PROVE  k + 1 \in I
  <2> SUFFICES ASSUME k + 1 <= n
               PROVE  Done(k + 1)
    OBVIOUS
  <2>1. Done(k)
    <3> HIDE DEF Done
    <3> QED
      BY <1>1, <1>5
  <2> DEFINE x == s[k + 1]
  <2>2. k + 1 \in 1..n /\ f[k + 1] = KeepIf(S, f[k], x) /\ x \in T /\ f[k] \in Seq(T)
    <3>1. k + 1 \in 1..n /\ (k + 1) - 1 = k
      BY <1>1
    <3> QED
      BY <1>1, <1>3, <2>1, <3>1
  <2>3. \A y : Passed(k + 1, y) <=> Passed(k, y) \/ (y = x /\ y \in S)
    <3>1. \A i \in 1..(k + 1) : i \in 1..k \/ i = k + 1
      OBVIOUS
    <3>2. k + 1 \in 1..(k + 1) /\ \A i \in 1..k : i \in 1..(k + 1)
      OBVIOUS
    <3> QED
      BY <3>1, <3>2
  <2> HIDE DEF x
  <2>4. Append(f[k], x) \in Seq(T) /\ \A y : Contains(Append(f[k], x), y) <=> Contains(f[k], y) \/ y = x
    BY <2>2, AppendHas, AppendProperties
  <2> HIDE DEF Passed
  <2> QED
    BY <2>1, <2>2, <2>3, <2>4 DEF KeepIf
<1> HIDE DEF I
<1>6. Done(n)
  <2>1. n \in I
    BY <1>1, <1>4, <1>5, SetInduction
  <2> QED
    BY <1>1, <2>1 DEF I
<1>7. \A y : Passed(n, y) <=> y \in S /\ Contains(s, y)
  BY DEF Contains, n
<1> HIDE DEF Passed
<1> QED
  BY <1>6, <1>7, <1>3

(***************************************************************************)
(* Part 20: the rows that were ticked.                                     *)
(***************************************************************************)
Picks == [cat : STRING, mod : STRING, dir : STRING]

Sorting == [picks : Seq(Picks), rejected : Seq(Picks)]

\* The catalogue describes p.
Described(p) ==
  p.cat \in DOMAIN Catalog /\ (Def(p).cmd \/ (p.dir # OddPath /\ PickAllowed(p)))

LEMMA ResolveIs ==
  ASSUME NEW st \in Sorting, NEW p \in Picks
  PROVE  /\ Resolve(st, p) \in Sorting
         /\ \A y : Contains(Resolve(st, p).picks, y)
                     <=> \/ Contains(st.picks, y)
                         \/ y = p /\ ~Contains(st.picks, p) /\ Described(p)
         /\ \A y : Contains(Resolve(st, p).rejected, y)
                     <=> \/ Contains(st.rejected, y)
                         \/ y = p /\ ~Contains(st.picks, p) /\ ~Described(p)
<1> DEFINE new == Resolve(st, p)
<1>1. st.picks \in Seq(Picks) /\ st.rejected \in Seq(Picks)
  BY DEF Sorting
<1>2. /\ Append(st.picks, p) \in Seq(Picks) /\ Append(st.rejected, p) \in Seq(Picks)
      /\ \A y : Contains(Append(st.picks, p), y) <=> Contains(st.picks, y) \/ y = p
      /\ \A y : Contains(Append(st.rejected, p), y) <=> Contains(st.rejected, y) \/ y = p
  BY <1>1, AppendHas, AppendProperties
<1>3. st = [picks |-> st.picks, rejected |-> st.rejected]
  BY DEF Sorting
<1>4. CASE Contains(st.picks, p)
  BY <1>4 DEF Resolve
<1>5. CASE ~Contains(st.picks, p) /\ Described(p)
  <2>1. new = [st EXCEPT !.picks = Append(st.picks, p)]
    BY <1>5 DEF Resolve, Described
  <2>2. new = [picks |-> Append(st.picks, p), rejected |-> st.rejected]
    BY <1>3, <2>1
  <2> HIDE DEF new
  <2>3. new \in Sorting /\ new.picks = Append(st.picks, p) /\ new.rejected = st.rejected
    BY <1>1, <1>2, <2>2 DEF Sorting
  <2> QED
    BY <1>2, <1>5, <2>3 DEF new
<1>6. CASE ~Contains(st.picks, p) /\ ~Described(p)
  <2>1. new = [st EXCEPT !.rejected = Append(st.rejected, p)]
    BY <1>6 DEF Resolve, Described
  <2>2. new = [picks |-> st.picks, rejected |-> Append(st.rejected, p)]
    BY <1>3, <2>1
  <2> HIDE DEF new
  <2>3. new \in Sorting /\ new.picks = st.picks /\ new.rejected = Append(st.rejected, p)
    BY <1>1, <1>2, <2>2 DEF Sorting
  <2> QED
    BY <1>2, <1>6, <2>3 DEF new
<1> QED
  BY <1>4, <1>5, <1>6

\* resolvePicks goes through the rows once.
Sorts(rows, f) ==
  /\ f[0] = [picks |-> <<>>, rejected |-> <<>>]
  /\ \A k \in 1..Len(rows) : f[k] = Resolve(f[k - 1], rows[k])
  /\ ResolvePicks(rows) = f[Len(rows)]

LEMMA ResolveSteps ==
  ASSUME NEW rows \in Seq(Picks)
  PROVE  \E f : Sorts(rows, f)
<1> DEFINE n == Len(rows)
           A == Sorting
           step == [q \in (1..n) \X A |-> Resolve(q[2], rows[q[1]])]
           Eq(it) == it = [t \in SUBSET (1..n) |->
                            IF t = {} THEN [picks |-> <<>>, rejected |-> <<>>] ELSE Resolve(it[t \ {Max(t)}], rows[Max(t)])]
           it == CHOOSE i : Eq(i)
           f == [k \in 0..n |-> it[1..k]]
<1>0. n \in Nat /\ rows \in [1..n -> Picks]
  BY LenProperties
<1> HIDE DEF n
<1>1. PICK i : Folding(n, [picks |-> <<>>, rejected |-> <<>>], step, i) /\ \A t \in SUBSET (1..n) : i[t] \in A
  <2>1. \A k \in 1..n : \A x \in A : step[<<k, x>>] = Resolve(x, rows[k]) /\ Resolve(x, rows[k]) \in A
    BY <1>0, ResolveIs
  <2>2. [picks |-> <<>>, rejected |-> <<>>] \in A
    BY EmptySeq DEF Sorting
  <2> HIDE DEF A, step
  <2> QED
    BY <1>0, <2>1, <2>2, FoldingExists
<1>2. Eq(i)
  <2>1. ASSUME NEW t \in SUBSET (1..n), t # {}
        PROVE  step[<<Max(t), i[t \ {Max(t)}]>>] = Resolve(i[t \ {Max(t)}], rows[Max(t)])
    <3>1. Max(t) \in 1..n /\ t \ {Max(t)} \in SUBSET (1..n)
      BY <1>0, <2>1, MaxIn
    <3> QED
      BY <1>1, <3>1
  <2>2. i = [t \in SUBSET (1..n) |-> IF t = {} THEN [picks |-> <<>>, rejected |-> <<>>] ELSE step[<<Max(t), i[t \ {Max(t)}]>>]]
    BY <1>1 DEF Folding
  <2> HIDE DEF step
  <2> QED
    BY <2>1, <2>2
<1>3. Eq(it)
  <2> HIDE DEF Eq
  <2> QED
    BY <1>2
<1>4. ResolvePicks(rows) = it[1..n]
  <2>1. DOMAIN rows = 1..n
    BY <1>0
  <2> QED
    BY <2>1 DEF ResolvePicks, FoldLeft, MapThenFoldSet
<1> HIDE DEF it
<1>5. \A t \in SUBSET (1..n) :
        it[t] = IF t = {} THEN [picks |-> <<>>, rejected |-> <<>>] ELSE Resolve(it[t \ {Max(t)}], rows[Max(t)])
  BY <1>3
<1>6. f[0] = it[1..0] /\ f[n] = it[1..n] /\ \A k \in 1..n : f[k] = it[1..k] /\ f[k - 1] = it[1..(k - 1)]
  BY <1>0
<1> HIDE DEF f
<1>7. f[0] = [picks |-> <<>>, rejected |-> <<>>]
  BY <1>0, <1>5, <1>6, UpTo
<1>8. ASSUME NEW k \in 1..n
      PROVE  f[k] = Resolve(f[k - 1], rows[k])
  <2>1. 1..k \in SUBSET (1..n) /\ 1..k # {} /\ Max(1..k) = k /\ (1..k) \ {k} = 1..(k - 1)
    BY <1>0, UpTo
  <2>2. it[1..k] = Resolve(it[1..(k - 1)], rows[k])
    BY <1>5, <2>1
  <2> QED
    BY <1>6, <2>2
<1> QED
  BY <1>4, <1>6, <1>7, <1>8 DEF n, Sorts

\* Every ticked row is a pick or is rejected.
LEMMA ResolvedAre ==
  ASSUME NEW rows \in Seq(Picks)
  PROVE  /\ ResolvePicks(rows) \in Sorting
         /\ \A y : Contains(ResolvePicks(rows).picks, y) <=> Contains(rows, y) /\ Described(y)
         /\ \A y : Contains(ResolvePicks(rows).rejected, y) <=> Contains(rows, y) /\ ~Described(y)
<1> DEFINE n == Len(rows)
<1>1. n \in Nat /\ rows \in [1..n -> Picks]
  BY LenProperties
<1>2. PICK f : Sorts(rows, f)
  BY ResolveSteps
<1>3. /\ f[0] = [picks |-> <<>>, rejected |-> <<>>]
      /\ \A k \in 1..n : f[k] = Resolve(f[k - 1], rows[k])
      /\ ResolvePicks(rows) = f[n]
  BY <1>2 DEF Sorts
<1> DEFINE Seen(k, y) == \E i \in 1..k : y = rows[i]
           Done(k) == /\ f[k] \in Sorting
                      /\ \A y : Contains(f[k].picks, y) <=> Seen(k, y) /\ Described(y)
                      /\ \A y : Contains(f[k].rejected, y) <=> Seen(k, y) /\ ~Described(y)
           I == {k \in Nat : k <= n => Done(k)}
<1>4. \A y : Seen(n, y) <=> Contains(rows, y)
  BY DEF Contains
<1> HIDE DEF n
<1>5. 0 \in I
  <2>1. f[0] \in Sorting /\ f[0].picks = <<>> /\ f[0].rejected = <<>> /\ \A i \in 1..0 : FALSE
    BY <1>3, EmptySeq DEF Sorting
  <2>2. \A y : ~Contains(<<>>, y) /\ ~Seen(0, y)
    BY <2>1, EmptySeq DEF Contains
  <2> HIDE DEF Seen
  <2> QED
    BY <2>1, <2>2
<1>6. ASSUME NEW k \in Nat, k \in I
      PROVE  k + 1 \in I
  <2> SUFFICES ASSUME k + 1 <= n
               PROVE  Done(k + 1)
    OBVIOUS
  <2>1. Done(k)
    <3> HIDE DEF Done
    <3> QED
      BY <1>1, <1>6
  <2> DEFINE p == rows[k + 1]
  <2>2. k + 1 \in 1..n /\ f[k + 1] = Resolve(f[k], p) /\ p \in Picks /\ f[k] \in Sorting
    <3>1. k + 1 \in 1..n /\ (k + 1) - 1 = k
      BY <1>1
    <3> QED
      BY <1>1, <1>3, <2>1, <3>1
  <2>3. \A y : Seen(k + 1, y) <=> Seen(k, y) \/ y = p
    <3>1. \A i \in 1..(k + 1) : i \in 1..k \/ i = k + 1
      OBVIOUS
    <3>2. k + 1 \in 1..(k + 1) /\ \A i \in 1..k : i \in 1..(k + 1)
      OBVIOUS
    <3> QED
      BY <3>1, <3>2
  <2> HIDE DEF p, Seen
  <2>4. /\ Contains(f[k].picks, p) <=> Seen(k, p) /\ Described(p)
        /\ \A y : Contains(f[k].rejected, y) <=> Seen(k, y) /\ ~Described(y)
    BY <2>1
  <2>5. /\ f[k + 1] \in Sorting
        /\ \A y : Contains(f[k + 1].picks, y)
                    <=> \/ Contains(f[k].picks, y)
                        \/ y = p /\ ~Contains(f[k].picks, p) /\ Described(p)
        /\ \A y : Contains(f[k + 1].rejected, y)
                    <=> \/ Contains(f[k].rejected, y)
                        \/ y = p /\ ~Contains(f[k].picks, p) /\ ~Described(p)
    <3> DEFINE st == f[k]
               new == Resolve(st, p)
    <3>1. st \in Sorting /\ p \in Picks /\ f[k + 1] = new
      BY <2>2
    <3> HIDE DEF st
    <3>2. /\ new \in Sorting
          /\ \A y : Contains(new.picks, y)
                      <=> \/ Contains(st.picks, y)
                          \/ y = p /\ ~Contains(st.picks, p) /\ Described(p)
          /\ \A y : Contains(new.rejected, y)
                      <=> \/ Contains(st.rejected, y)
                          \/ y = p /\ ~Contains(st.picks, p) /\ ~Described(p)
      BY <3>1, ResolveIs
    <3> HIDE DEF new
    <3> QED
      BY <3>1, <3>2 DEF st
  <2> QED
    BY <2>1, <2>3, <2>4, <2>5
<1> HIDE DEF I, Seen
<1>7. Done(n)
  <2>1. n \in I
    BY <1>1, <1>5, <1>6, SetInduction
  <2> QED
    BY <1>1, <2>1 DEF I
<1> QED
  BY <1>3, <1>4, <1>7

(***************************************************************************)
(* Part 21: the files of the host.                                         *)
(***************************************************************************)
Rows(h) == [cat : STRING, mod : STRING, file : h.files, own : BOOLEAN]

\* The listing of p has f.
Shows(p, from, f) == Under(f, p.dir) /\ (from > 0 => f.last > from)

LEMMA FoundAre ==
  ASSUME NEW h, IsFiniteSet(h.files), NEW p \in Picks, NEW from
  PROVE  /\ Found(p, h, from) \in Seq(Rows(h))
         /\ \A f \in h.files : Shows(p, from, f) => Contains(Found(p, h, from), Row(p, f))
<1> DEFINE S == {f \in h.files : Shows(p, from, f)}
           T == {Row(p, f) : f \in S}
           img == [f \in S |-> Row(p, f)]
<1>1. IsFiniteSet(S)
  <2>1. S \in SUBSET h.files
    OBVIOUS
  <2> HIDE DEF S
  <2> QED
    BY <2>1, FS_Subset
<1>2. IsFiniteSet(T)
  <2> HIDE DEF S
  <2>1. img \in Surjection(S, T)
    BY DEF Surjection
  <2> HIDE DEF img, T
  <2> QED
    BY <1>1, <2>1, FS_Surjection
<1>3. Found(p, h, from) = SetToSeq(T)
  <2>1. {g \in h.files : Under(g, p.dir) /\ (from > 0 => g.last > from)} = S
    BY DEF Shows
  <2> HIDE DEF S
  <2> QED
    BY <2>1 DEF Found
<1>4. T \subseteq Rows(h)
  <2>1. ASSUME NEW f \in h.files
        PROVE  Row(p, f) \in Rows(h)
    <3> DEFINE o == f.path = p.dir
    <3>1. o \in BOOLEAN /\ p.cat \in STRING /\ p.mod \in STRING
      BY DEF Picks
    <3>2. Row(p, f) = [cat |-> p.cat, mod |-> p.mod, file |-> f, own |-> o]
      BY DEF Row
    <3> HIDE DEF o
    <3> QED
      BY <3>1, <3>2 DEF Rows
  <2> QED
    BY <2>1
<1>5. \A f \in h.files : Shows(p, from, f) => Row(p, f) \in T
  OBVIOUS
<1> HIDE DEF T
<1>6. SetToSeq(T) \in Seq(T) /\ \A y : Contains(SetToSeq(T), y) <=> y \in T
  BY <1>2, SetAsSeq
<1>7. SetToSeq(T) \in Seq(Rows(h))
  BY <1>4, <1>6, SeqMonotonic
<1> QED
  BY <1>3, <1>5, <1>6, <1>7

LEMMA FilesAre ==
  ASSUME NEW picks \in Seq(Picks)
  PROVE  /\ Files(picks) \in Seq(Picks)
         /\ \A p : Contains(Files(picks), p) <=> Contains(picks, p) /\ ~Def(p).cmd
<1> DEFINE S == {p \in ToSet(picks) : ~Def(p).cmd}
<1>1. \A p : p \in S <=> Contains(picks, p) /\ ~Def(p).cmd
  BY Members
<1>2. Files(picks) = Among(S, picks)
  BY DEF Files
<1> HIDE DEF S
<1>3. Among(S, picks) \in Seq(Picks) /\ \A y : Contains(Among(S, picks), y) <=> y \in S /\ Contains(picks, y)
  BY AmongHas
<1> QED
  BY <1>1, <1>2, <1>3

LEMMA EnumerateRight ==
  ASSUME NEW h, IsFiniteSet(h.files), NEW picks \in Seq(Picks), NEW from
  PROVE  /\ Enumerate(picks, h, from).rows \in Seq(Rows(h))
         /\ Enumerate(picks, h, from).misses \in Seq(Picks)
         /\ \A p : Contains(picks, p) /\ ~Def(p).cmd /\ h.state[p.dir] = "there" =>
              \A f \in h.files :
                Shows(p, from, f) => Contains(Enumerate(picks, h, from).rows, Row(p, f))
<1> DEFINE list == Files(picks)
           one(i) == IF h.state[list[i].dir] = "there" THEN Found(list[i], h, from) ELSE <<>>
           seqs == [i \in DOMAIN list |-> one(i)]
           en == Enumerate(picks, h, from)
           M == {p \in ToSet(list) : h.state[p.dir] \in {"missing", "denied", "odd"}}
<1>1. list \in Seq(Picks) /\ \A p : Contains(list, p) <=> Contains(picks, p) /\ ~Def(p).cmd
  BY FilesAre
<1>2. en.rows = FlattenSeq(seqs) /\ en.misses = Among(M, list)
  BY DEF Enumerate
<1> HIDE DEF list, en
<1>3. Len(list) \in Nat /\ DOMAIN list = 1..Len(list) /\ \A i \in 1..Len(list) : list[i] \in Picks
  BY <1>1, LenProperties, ElementOfSeq
<1>4. \A i \in 1..Len(list) : one(i) \in Seq(Rows(h))
  BY <1>3, FoundAre, EmptySeq
<1>5. seqs \in Seq(Seq(Rows(h))) /\ Len(seqs) = Len(list)
  <2>1. seqs \in [1..Len(list) -> Seq(Rows(h))]
    BY <1>3, <1>4
  <2> HIDE DEF seqs
  <2> QED
    BY <1>3, <2>1, AsSeq
<1>6. \A i \in 1..Len(list) : seqs[i] = one(i)
  BY <1>3
<1> HIDE DEF seqs
<1>7. /\ FlattenSeq(seqs) \in Seq(Rows(h))
      /\ \A y : Contains(FlattenSeq(seqs), y) <=> \E i \in 1..Len(seqs) : Contains(seqs[i], y)
  BY <1>5, FlattenHas
<1>8. en.misses \in Seq(Picks)
  <2> HIDE DEF M
  <2> QED
    BY <1>1, <1>2, AmongHas
<1>9. ASSUME NEW p, Contains(picks, p), ~Def(p).cmd, h.state[p.dir] = "there",
             NEW f \in h.files, Shows(p, from, f)
      PROVE  Contains(en.rows, Row(p, f))
  <2>1. PICK i \in 1..Len(list) : list[i] = p
    BY <1>1, <1>9 DEF Contains
  <2>2. seqs[i] = Found(p, h, from) /\ p \in Picks
    BY <1>3, <1>6, <1>9, <2>1
  <2>3. Contains(seqs[i], Row(p, f))
    BY <1>9, <2>2, FoundAre
  <2> QED
    BY <1>2, <1>5, <1>7, <2>3
<1> QED
  BY <1>2, <1>7, <1>8, <1>9 DEF en

\* Of the modules of all picks of files, there are rows or reasons why there are none.
Reasoned(picks, rows, misses) ==
  \A p : Contains(picks, p) /\ ~Def(p).cmd =>
    \/ \E r : Contains(rows, r) /\ r.cat = p.cat /\ r.mod = p.mod
    \/ \E q : Contains(misses, q) /\ q.cat = p.cat /\ q.mod = p.mod

\* A module with nothing listed and no reason given gets one.
LEMMA UnlistedAre ==
  ASSUME NEW picks \in Seq(Picks), NEW h, NEW en,
         en.rows \in Seq(Rows(h)), en.misses \in Seq(Picks)
  PROVE  /\ UnlistedPicks(picks, en) \in Seq(Picks)
         /\ Reasoned(picks, en.rows, en.misses \o UnlistedPicks(picks, en))
<1> DEFINE told == {<<r.cat, r.mod>> : r \in ToSet(en.rows) \cup ToSet(en.misses)}
           S == {p \in ToSet(picks) : <<p.cat, p.mod>> \notin told}
           un == UnlistedPicks(picks, en)
<1>1. Files(picks) \in Seq(Picks) /\ \A p : Contains(Files(picks), p) <=> Contains(picks, p) /\ ~Def(p).cmd
  BY FilesAre
<1>2. un = Among(S, Files(picks))
  BY DEF UnlistedPicks
<1> HIDE DEF un
<1>3. un \in Seq(Picks) /\ \A y : Contains(un, y) <=> y \in S /\ Contains(Files(picks), y)
  <2> HIDE DEF S
  <2> QED
    BY <1>1, <1>2, AmongHas
<1>4. \A y : Contains(en.misses \o un, y) <=> Contains(en.misses, y) \/ Contains(un, y)
  BY <1>3, ConcatHas
<1>5. ASSUME NEW p, Contains(picks, p), ~Def(p).cmd
      PROVE  \/ \E r : Contains(en.rows, r) /\ r.cat = p.cat /\ r.mod = p.mod
             \/ \E q : Contains(en.misses \o un, q) /\ q.cat = p.cat /\ q.mod = p.mod
  <2>1. CASE <<p.cat, p.mod>> \in told
    <3>1. PICK r \in ToSet(en.rows) \cup ToSet(en.misses) : <<p.cat, p.mod>> = <<r.cat, r.mod>>
      BY <2>1
    <3>2. r.cat = p.cat /\ r.mod = p.mod
      BY <3>1
    <3>3. Contains(en.rows, r) \/ Contains(en.misses, r)
      BY <3>1, Members
    <3> QED
      BY <1>4, <3>2, <3>3
  <2>2. CASE <<p.cat, p.mod>> \notin told
    <3>1. p \in S
      <4>1. p \in ToSet(picks)
        BY <1>5, Members
      <4> HIDE DEF told
      <4> QED
        BY <2>2, <4>1
    <3>2. Contains(un, p)
      <4> HIDE DEF S
      <4> QED
        BY <1>1, <1>3, <1>5, <3>1
    <3> QED
      BY <1>4, <3>2
  <2> QED
    BY <2>1, <2>2
<1> QED
  BY <1>3, <1>5 DEF Reasoned, un

(***************************************************************************)
(* Part 22: what a file's name says.                                       *)
(***************************************************************************)
Texts == STRING \cup {""}

Parts == [text : Texts, num : Nat]

FileSet ==
  [path : STRING, dir : STRING, series : STRING, kind : STRING, day : Nat, gz : BOOLEAN,
   name : Seq(Parts), first : Nat, last : Nat]

\* What is known of the files of a host.
Listable(h) ==
  /\ IsFiniteSet(h.files) /\ h.files \subseteq FileSet /\ NamesTell(h)
  /\ \A f \in h.files : 0 < f.first /\ f.first <= f.last

LEMMA MaxBelow ==
  ASSUME NEW n \in Nat, NEW I \in SUBSET (0..n), I # {}
  PROVE  Max(I) \in I
<1> DEFINE J == I \ {0}
<1>1. J \in SUBSET (1..n)
  OBVIOUS
<1>2. \E x \in I : \A y \in I : x >= y
  <2>1. CASE J = {}
    <3>1. I = {0}
      BY <2>1
    <3> QED
      BY <3>1
  <2>2. CASE J # {}
    <3> HIDE DEF J
    <3>1. Max(J) \in J /\ \A j \in J : j <= Max(J)
      BY <1>1, <2>2, MaxIn
    <3>2. PICK x : x = Max(J)
      OBVIOUS
    <3>3. x \in J /\ x \in 1..n
      BY <1>1, <3>1, <3>2
    <3>4. \A j \in J : j \in 1..n /\ j <= x
      BY <1>1, <3>1, <3>2
    <3>5. x \in I /\ \A y \in I : x >= y
      BY <3>3, <3>4 DEF J
    <3> QED
      BY <3>5
  <2> QED
    BY <2>1, <2>2
<1> QED
  BY <1>2 DEF Max

LEMMA DayTypes ==
  ASSUME NEW d \in Nat
  PROVE  Midnight(d) \in Int /\ EndOf(d) \in Int
<1>1. DayTicks \in Nat
  BY CollectRulesAssumption
<1>2. d * DayTicks \in Int
  BY <1>1
<1> QED
  BY <1>1, <1>2 DEF Midnight, EndOf

\* A file is believed to begin no later than it does: at the first of its rows in a module, the
\* rotations before it are of other files.
LEMMA StartBelieved ==
  ASSUME NEW h, Listable(h), NEW rows \in Seq(Rows(h)), NEW r, Contains(rows, r)
  PROVE  \E i \in 1..Len(rows) :
           /\ rows[i].cat = r.cat /\ rows[i].mod = r.mod /\ rows[i].file = r.file
           /\ r.file.kind = "rotated" => /\ PrevRotationFor(rows, i) \in Int
                                         /\ PrevRotationFor(rows, i) <= r.file.first
<1> DEFINE f == r.file
           Same(i) == rows[i].cat = r.cat /\ rows[i].mod = r.mod /\ rows[i].file = f
           I == {i \in 1..Len(rows) : Same(i)}
           i == Min(I)
<1>0. Len(rows) \in Nat /\ DOMAIN rows = 1..Len(rows) /\ \A k \in 1..Len(rows) : rows[k] \in Rows(h)
  BY LenProperties, ElementOfSeq
<1>1. I \in SUBSET Nat /\ I # {}
  BY <1>0 DEF Contains
<1>2. i \in I /\ \A k \in I : i <= k
  <2> HIDE DEF I
  <2> QED
    BY <1>1, MinIn
<1> HIDE DEF i
<1>3. i \in 1..Len(rows) /\ Same(i) /\ \A k \in 1..Len(rows) : Same(k) => i <= k
  BY <1>2
<1>4. f \in h.files /\ f \in FileSet /\ 0 < f.first
  <2>1. rows[i].file \in h.files
    BY <1>0, <1>3 DEF Rows
  <2> QED
    BY <1>3, <2>1 DEF Listable
<1>5. ASSUME f.kind = "rotated"
      PROVE  PrevRotationFor(rows, i) \in Int /\ PrevRotationFor(rows, i) <= f.first
  <2> DEFINE D == RotatedBefore(rows, i)
  <2>1. \A d \in D : \E k \in 1..Len(rows) :
          /\ d = rows[k].file.day /\ rows[k].file.kind = "rotated"
          /\ rows[k].file.series = f.series
          /\ rows[k].cat = r.cat /\ rows[k].mod = r.mod
          /\ d < f.day \/ (d = f.day /\ k < i)
    BY <1>0, <1>3 DEF RotatedBefore
  <2>2. ASSUME D = {}
        PROVE  PrevRotationFor(rows, i) \in Int /\ PrevRotationFor(rows, i) <= f.first
    <3>1. PrevRotationFor(rows, i) = 0
      BY <2>2 DEF PrevRotationFor
    <3>2. f.first \in Nat
      BY <1>4 DEF FileSet
    <3> QED
      BY <3>1, <3>2
  <2>3. ASSUME D # {}
        PROVE  PrevRotationFor(rows, i) \in Int /\ PrevRotationFor(rows, i) <= f.first
    <3> DEFINE m == Max(D)
    <3>1. PrevRotationFor(rows, i) = Midnight(m)
      BY <2>3 DEF PrevRotationFor
    <3>2. f.day \in Nat /\ \A k \in 1..Len(rows) : rows[k].file.day \in Nat
      BY <1>0, <1>4 DEF Rows, FileSet, Listable
    <3>3. D \in SUBSET (0..f.day)
      <4> SUFFICES ASSUME NEW d \in D
                   PROVE  d \in 0..f.day
        OBVIOUS
      <4> HIDE DEF D
      <4> QED
        BY <1>3, <2>1, <3>2
    <3> HIDE DEF D
    <3>4. m \in D
      BY <2>3, <3>2, <3>3, MaxBelow
    <3> HIDE DEF m
    <3>5. PICK k \in 1..Len(rows) :
            /\ m = rows[k].file.day /\ rows[k].file.kind = "rotated"
            /\ rows[k].file.series = f.series
            /\ rows[k].cat = r.cat /\ rows[k].mod = r.mod
            /\ m < f.day \/ (m = f.day /\ k < i)
      BY <2>1, <3>4
    <3>6. rows[k].file # f
      BY <1>3, <3>2, <3>5
    <3>7. rows[k].file \in h.files \ {f} /\ m <= f.day /\ m \in Nat
      BY <1>0, <3>2, <3>5, <3>6 DEF Rows
    <3>8. Midnight(m) <= f.first
      BY <1>4, <1>5, <3>5, <3>7 DEF Listable, NamesTell
    <3> QED
      BY <3>1, <3>7, <3>8, DayTypes
  <2> QED
    BY <2>2, <2>3
<1> QED
  BY <1>3, <1>5

\* A file with a line in the window is not left out.
LEMMA NotSkipped ==
  ASSUME NEW h, Listable(h), NEW f \in h.files, NEW prev,
         f.kind = "rotated" => prev \in Int /\ prev <= f.first,
         NEW from \in Int, NEW to \in Int, Overlaps(f, from, to)
  PROVE  ClassifyFile(FilenameCoverage(f, prev), from, to) # "skip"
<1> DEFINE cov == FilenameCoverage(f, prev)
<1>1. /\ f.day \in Nat /\ f.first \in Nat /\ f.last \in Nat /\ 0 < f.first /\ f.first <= f.last
      /\ Midnight(f.day) \in Int /\ EndOf(f.day) \in Int
  BY DayTypes DEF Listable, FileSet
<1>2. cov.first \in Int /\ cov.first <= f.first /\ cov.last = f.last
  <2>1. CASE f.kind = "dated"
    <3>1. cov = [first |-> Midnight(f.day), last |-> f.last] /\ Midnight(f.day) <= f.first
      BY <2>1 DEF FilenameCoverage, Listable, NamesTell
    <3> QED
      BY <1>1, <3>1
  <2>2. CASE f.kind = "rotated"
    <3>1. f.last <= EndOf(f.day)
      BY <2>2 DEF Listable, NamesTell
    <3>2. MinPos(EndOf(f.day), f.last) = f.last
      BY <1>1, <3>1 DEF MinPos
    <3>3. cov = [first |-> prev, last |-> f.last]
      BY <2>2, <3>2 DEF FilenameCoverage
    <3> QED
      BY <1>1, <2>2, <3>3
  <2>3. CASE f.kind \notin {"dated", "rotated"}
    <3>1. cov = [first |-> 0, last |-> f.last]
      BY <2>3 DEF FilenameCoverage
    <3> QED
      BY <1>1, <3>1
  <2> QED
    BY <2>1, <2>2, <2>3
<1> HIDE DEF cov
<1>3. (from > 0 => f.last >= from) /\ (to > 0 => f.first <= to)
  BY DEF Overlaps
<1>4. ~(from > 0 /\ cov.last > 0 /\ cov.last < from) /\ ~(to > 0 /\ cov.first > 0 /\ cov.first > to)
  BY <1>1, <1>2, <1>3
<1>5. ClassifyFile(cov, from, to) # "skip"
  BY <1>4 DEF ClassifyFile
<1> QED
  BY <1>5 DEF cov

(***************************************************************************)
(* Part 23: the entries of a plan.                                         *)
(***************************************************************************)
Cuts == Seq({"from", "to"})

Actions == {"whole", "skip", "filter"}

Spots == [dir : Seq(STRING), name : Seq(Parts), cut : Cuts]

Entries ==
  [cat : STRING, mod : STRING, left : BOOLEAN, cmd : BOOLEAN, src : Texts, name : Seq(Parts),
   action : Actions, cut : Cuts, dup : {<<>>} \cup (STRING \X STRING),
   whole : {<<>>} \cup Spots, arch : {<<>>} \cup Spots]

\* An entry before duplicates are looked for.
NewEntries == {e \in Entries : e.dup = <<>> /\ (e.left => e.src = "")}

LEMMA LeftIs ==
  ASSUME NEW cat \in STRING, NEW mod \in STRING
  PROVE  /\ Left(cat, mod) \in NewEntries
         /\ Left(cat, mod).cat = cat /\ Left(cat, mod).mod = mod
<1> DEFINE e == Left(cat, mod)
<1>1. <<>> \in Seq(Parts) /\ <<>> \in Cuts
  BY EmptySeq DEF Cuts
<1>2. e = [cat |-> cat, mod |-> mod, left |-> TRUE, cmd |-> FALSE, src |-> "", name |-> <<>>,
           action |-> "skip", cut |-> <<>>, dup |-> <<>>, whole |-> <<>>, arch |-> <<>>]
  BY DEF Left
<1> HIDE DEF e
<1>3. e \in Entries
  <2> DEFINE z == <<>>
  <2>1. /\ z \in Seq(Parts) /\ z \in Cuts
        /\ z \in {<<>>} \cup (STRING \X STRING) /\ z \in {<<>>} \cup Spots
    BY <1>1
  <2>2. e = [cat |-> cat, mod |-> mod, left |-> TRUE, cmd |-> FALSE, src |-> "", name |-> z,
             action |-> "skip", cut |-> z, dup |-> z, whole |-> z, arch |-> z]
    BY <1>2
  <2> HIDE DEF z
  <2> QED
    BY <2>1, <2>2 DEF Entries, Actions, Texts
<1>4. e.cat = cat /\ e.mod = mod /\ e.dup = <<>> /\ e.src = ""
  BY <1>2
<1> QED
  BY <1>3, <1>4 DEF NewEntries, e

LEMMA TakenIs ==
  ASSUME NEW h, h.files \subseteq FileSet, NEW r \in Rows(h), NEW action,
         NEW cov, NEW from, NEW to
  PROVE  LET e == Taken(r, action, cov, from, to)
         IN  /\ e \in NewEntries
             /\ e.cat = r.cat /\ e.mod = r.mod /\ ~e.left /\ ~e.cmd
             /\ e.src = r.file.path /\ e.name = r.file.name
<1> DEFINE lo == IF from > 0 /\ ~(cov.first > 0 /\ cov.first >= from) THEN <<"from">> ELSE <<>>
           hi == IF to > 0 /\ ~(cov.last > 0 /\ cov.last <= to) THEN <<"to">> ELSE <<>>
           marks == lo \o hi
           cuts == action = "filter" /\ ~r.file.gz /\ marks # <<>>
           act == IF cuts THEN "filter" ELSE "whole"
           cut == IF cuts THEN marks ELSE <<>>
           e == Taken(r, action, cov, from, to)
<1>1. e = [Left(r.cat, r.mod) EXCEPT !.left = FALSE, !.src = r.file.path, !.name = r.file.name,
                                     !.action = act, !.cut = cut]
  BY DEF Taken
<1>2. marks \in Cuts /\ <<>> \in Cuts
  <2>1. lo \in Cuts /\ hi \in Cuts
    <3>1. <<"from">> \in Cuts /\ <<"to">> \in Cuts
      BY DEF Cuts
    <3>2. <<>> \in Cuts
      BY EmptySeq DEF Cuts
    <3>3. lo \in {<<"from">>, <<>>} /\ hi \in {<<"to">>, <<>>}
      OBVIOUS
    <3> HIDE DEF lo, hi
    <3> QED
      BY <3>1, <3>2, <3>3
  <2> HIDE DEF lo, hi
  <2> QED
    BY <2>1, ConcatProperties, EmptySeq DEF Cuts
<1> HIDE DEF marks
<1>3. act \in Actions /\ cut \in Cuts
  <2>1. act \in {"filter", "whole"} /\ cut \in {marks, <<>>}
    OBVIOUS
  <2> HIDE DEF act, cut
  <2> QED
    BY <1>2, <2>1 DEF Actions
<1> HIDE DEF act, cut, cuts, e
<1>4. e = [cat |-> r.cat, mod |-> r.mod, left |-> FALSE, cmd |-> FALSE, src |-> r.file.path,
           name |-> r.file.name, action |-> act, cut |-> cut, dup |-> <<>>, whole |-> <<>>, arch |-> <<>>]
  BY <1>1 DEF Left
<1>5. r.cat \in STRING /\ r.mod \in STRING /\ r.file \in FileSet
  BY DEF Rows
<1>6. r.file.path \in STRING /\ r.file.name \in Seq(Parts)
  BY <1>5 DEF FileSet
<1>7. e \in Entries
  BY <1>3, <1>4, <1>5, <1>6 DEF Entries, Texts
<1>8. /\ e.dup = <<>> /\ e.cat = r.cat /\ e.mod = r.mod /\ e.left = FALSE /\ e.cmd = FALSE
      /\ e.src = r.file.path /\ e.name = r.file.name
  BY <1>4
<1>9. e \in NewEntries
  BY <1>7, <1>8 DEF NewEntries
<1> QED
  BY <1>8, <1>9 DEF e

\* Of every row there is an entry, and a file with a line in the window is taken.
LEMMA EntriesRight ==
  ASSUME NEW h, Listable(h), NEW rows \in Seq(Rows(h)), NEW misses \in Seq(Picks),
         NEW from \in Int, NEW to \in Int
  PROVE  LET out == PlanEntries(rows, misses, from, to)
         IN  /\ out \in Seq(NewEntries)
             /\ \A r : Contains(rows, r) \/ Contains(misses, r) =>
                  \E e : Contains(out, e) /\ e.cat = r.cat /\ e.mod = r.mod
             /\ \A r : Contains(rows, r) /\ Overlaps(r.file, from, to) =>
                  \E e : /\ Contains(out, e) /\ e.cat = r.cat /\ e.mod = r.mod /\ ~e.left
                         /\ e.src = r.file.path /\ e.name = r.file.name
<1> DEFINE n == Len(rows)
           cov(i) == FilenameCoverage(rows[i].file, PrevRotationFor(rows, i))
           act(i) == ClassifyFile(cov(i), from, to)
           new(i) == Taken(rows[i], act(i), cov(i), from, to)
           ids == [i \in DOMAIN rows |-> i]
           K == {i \in DOMAIN rows : act(i) # "skip"}
           kept == Among(K, ids)
           O == {<<rows[i].cat, rows[i].mod>> : i \in {j \in DOMAIN rows : act(j) = "skip"}}
           out == SetToSeq(O)
           a == [k \in DOMAIN kept |-> new(kept[k])]
           b == [k \in DOMAIN out |-> Left(out[k][1], out[k][2])]
           c == [k \in DOMAIN misses |-> Left(misses[k].cat, misses[k].mod)]
           all == PlanEntries(rows, misses, from, to)
<1>0. all = a \o b \o c
  BY DEF PlanEntries
<1> HIDE DEF all
<1>1. /\ n \in Nat /\ DOMAIN rows = 1..n /\ h.files \subseteq FileSet
      /\ \A i \in 1..n : rows[i] \in Rows(h) /\ rows[i].cat \in STRING /\ rows[i].mod \in STRING
  <2>1. \A i \in 1..n : rows[i] \in Rows(h)
    BY ElementOfSeq
  <2>2. \A r \in Rows(h) : r.cat \in STRING /\ r.mod \in STRING
    BY DEF Rows
  <2> QED
    BY <2>1, <2>2, LenProperties DEF Listable
<1>2. \A i \in 1..n : /\ new(i) \in NewEntries
                      /\ new(i).cat = rows[i].cat /\ new(i).mod = rows[i].mod /\ ~new(i).left
                      /\ new(i).src = rows[i].file.path /\ new(i).name = rows[i].file.name
  BY <1>1, TakenIs
<1>3. \A i \in K : i \in 1..n
  BY <1>1
<1>4. \A i \in 1..n : act(i) # "skip" => i \in K
  BY <1>1
<1>5. \A i \in 1..n : act(i) = "skip" => <<rows[i].cat, rows[i].mod>> \in O
  BY <1>1
<1>6. IsFiniteSet(O) /\ O \subseteq STRING \X STRING
  <2> DEFINE S == {j \in DOMAIN rows : act(j) = "skip"}
             img == [j \in S |-> <<rows[j].cat, rows[j].mod>>]
  <2>1. S \in SUBSET (1..n)
    BY <1>1
  <2>2. O = {<<rows[i].cat, rows[i].mod>> : i \in S}
    OBVIOUS
  <2> HIDE DEF S, O
  <2>3. IsFiniteSet(S)
    <3>1. n \in Nat
      BY <1>1
    <3> HIDE DEF n
    <3>2. IsFiniteSet(1..n)
      BY <3>1, FS_Interval
    <3> QED
      BY <2>1, <3>2, FS_Subset
  <2>4. img \in Surjection(S, O)
    BY <2>2 DEF Surjection
  <2> HIDE DEF img
  <2>5. IsFiniteSet(O)
    BY <2>3, <2>4, FS_Surjection
  <2>6. \A i \in S : <<rows[i].cat, rows[i].mod>> \in STRING \X STRING
    BY <1>1, <2>1
  <2>7. O \subseteq STRING \X STRING
    BY <2>2, <2>6
  <2> QED
    BY <2>5, <2>7
<1> HIDE DEF cov, act, new, K, O, n
<1>7. kept \in Seq(1..n) /\ \A i : Contains(kept, i) <=> i \in K
  <2>1. ids \in [1..n -> 1..n]
    BY <1>1
  <2>2. \A i \in 1..n : ids[i] = i
    BY <1>1
  <2> HIDE DEF ids
  <2>3. ids \in Seq(1..n) /\ Len(ids) = n
    BY <1>1, <2>1, AsSeq
  <2>4. \A i \in 1..n : Contains(ids, i)
    BY <2>2, <2>3 DEF Contains
  <2>5. Among(K, ids) \in Seq(1..n) /\ \A i : Contains(Among(K, ids), i) <=> i \in K /\ Contains(ids, i)
    BY <2>3, AmongHas
  <2> QED
    BY <1>3, <2>4, <2>5
<1> HIDE DEF kept, ids
<1>8. a \in Seq(NewEntries) /\ \A i \in K : Contains(a, new(i))
  <2>1. DOMAIN kept = 1..Len(kept) /\ Len(kept) \in Nat /\ \A k \in 1..Len(kept) : kept[k] \in 1..n
    BY <1>7, LenProperties, ElementOfSeq
  <2>2. a \in [1..Len(kept) -> NewEntries] /\ \A k \in 1..Len(kept) : a[k] = new(kept[k])
    BY <1>2, <2>1
  <2> HIDE DEF a
  <2>3. a \in Seq(NewEntries) /\ Len(a) = Len(kept)
    BY <2>1, <2>2, AsSeq
  <2>4. ASSUME NEW i \in K
        PROVE  Contains(a, new(i))
    <3>1. PICK k \in 1..Len(kept) : kept[k] = i
      BY <1>7 DEF Contains
    <3>2. a[k] = new(i)
      BY <2>2, <3>1
    <3> QED
      BY <2>3, <3>2 DEF Contains
  <2> QED
    BY <2>3, <2>4
<1>9. b \in Seq(NewEntries) /\ \A x \in O : \E e : Contains(b, e) /\ e.cat = x[1] /\ e.mod = x[2]
  <2>1. out \in Seq(O) /\ \A x : Contains(out, x) <=> x \in O
    BY <1>6, SetAsSeq
  <2> HIDE DEF out
  <2>2. DOMAIN out = 1..Len(out) /\ Len(out) \in Nat
        /\ \A k \in 1..Len(out) : out[k] \in O /\ out[k][1] \in STRING /\ out[k][2] \in STRING
    BY <1>6, <2>1, LenProperties, ElementOfSeq
  <2>3. /\ b \in [1..Len(out) -> NewEntries]
        /\ \A k \in 1..Len(out) : b[k].cat = out[k][1] /\ b[k].mod = out[k][2]
    <3>2. \A k \in 1..Len(out) : b[k] = Left(out[k][1], out[k][2])
      BY <2>2
    <3> HIDE DEF b
    <3>3. DOMAIN b = 1..Len(out)
      BY <2>2 DEF b
    <3>4. ASSUME NEW k \in 1..Len(out)
          PROVE  b[k] \in NewEntries /\ b[k].cat = out[k][1] /\ b[k].mod = out[k][2]
      <4> DEFINE x == out[k][1]
                 y == out[k][2]
      <4>1. x \in STRING /\ y \in STRING /\ b[k] = Left(x, y)
        BY <2>2, <3>2
      <4> HIDE DEF x, y
      <4>2. Left(x, y) \in NewEntries /\ Left(x, y).cat = x /\ Left(x, y).mod = y
        BY <4>1, LeftIs
      <4> QED
        BY <4>1, <4>2 DEF x, y
    <3>5. b = [k \in 1..Len(out) |-> b[k]]
      BY <2>2 DEF b
    <3> QED
      BY <3>4, <3>5
  <2> HIDE DEF b
  <2>4. b \in Seq(NewEntries) /\ Len(b) = Len(out)
    BY <2>2, <2>3, AsSeq
  <2>5. ASSUME NEW x \in O
        PROVE  \E e : Contains(b, e) /\ e.cat = x[1] /\ e.mod = x[2]
    <3>1. PICK k \in 1..Len(out) : out[k] = x
      BY <2>1 DEF Contains
    <3>2. Contains(b, b[k]) /\ b[k].cat = x[1] /\ b[k].mod = x[2]
      BY <2>3, <2>4, <3>1 DEF Contains
    <3> QED
      BY <3>2
  <2> QED
    BY <2>4, <2>5
<1>10. c \in Seq(NewEntries) /\ \A q : Contains(misses, q) => \E e : Contains(c, e) /\ e.cat = q.cat /\ e.mod = q.mod
  <2>1. DOMAIN misses = 1..Len(misses) /\ Len(misses) \in Nat
        /\ \A k \in 1..Len(misses) : misses[k].cat \in STRING /\ misses[k].mod \in STRING
    <3>1. \A k \in 1..Len(misses) : misses[k] \in Picks
      BY ElementOfSeq
    <3>2. \A p \in Picks : p.cat \in STRING /\ p.mod \in STRING
      BY DEF Picks
    <3> QED
      BY <3>1, <3>2, LenProperties
  <2>2. /\ c \in [1..Len(misses) -> NewEntries]
        /\ \A k \in 1..Len(misses) : c[k].cat = misses[k].cat /\ c[k].mod = misses[k].mod
    BY <2>1, LeftIs
  <2> HIDE DEF c
  <2>3. c \in Seq(NewEntries) /\ Len(c) = Len(misses)
    BY <2>1, <2>2, AsSeq
  <2>4. ASSUME NEW q, Contains(misses, q)
        PROVE  \E e : Contains(c, e) /\ e.cat = q.cat /\ e.mod = q.mod
    <3>1. PICK k \in 1..Len(misses) : misses[k] = q
      BY <2>4 DEF Contains
    <3>2. Contains(c, c[k]) /\ c[k].cat = q.cat /\ c[k].mod = q.mod
      BY <2>2, <2>3, <3>1 DEF Contains
    <3> QED
      BY <3>2
  <2> QED
    BY <2>3, <2>4
<1> HIDE DEF a, b, c, out
<1>11. /\ all \in Seq(NewEntries)
       /\ \A e : Contains(all, e) <=> Contains(a, e) \/ Contains(b, e) \/ Contains(c, e)
  <2>1. a \o b \in Seq(NewEntries) /\ \A e : Contains(a \o b, e) <=> Contains(a, e) \/ Contains(b, e)
    BY <1>8, <1>9, ConcatHas
  <2> DEFINE ab == a \o b
  <2>2. all = ab \o c
    BY <1>0
  <2> HIDE DEF ab
  <2>3. ab \in Seq(NewEntries) /\ \A e : Contains(ab, e) <=> Contains(a, e) \/ Contains(b, e)
    BY <2>1 DEF ab
  <2>4. ab \o c \in Seq(NewEntries) /\ \A e : Contains(ab \o c, e) <=> Contains(ab, e) \/ Contains(c, e)
    BY <1>10, <2>3, ConcatHas
  <2> QED
    BY <2>2, <2>3, <2>4
<1>12. ASSUME NEW r, Contains(rows, r)
       PROVE  \E e : Contains(all, e) /\ e.cat = r.cat /\ e.mod = r.mod
  <2>1. PICK i \in 1..n : rows[i] = r
    BY <1>12 DEF Contains, n
  <2>2. CASE act(i) = "skip"
    <3>1. <<r.cat, r.mod>> \in O
      BY <1>5, <2>1, <2>2
    <3>2. PICK e : Contains(b, e) /\ e.cat = <<r.cat, r.mod>>[1] /\ e.mod = <<r.cat, r.mod>>[2]
      BY <1>9, <3>1
    <3> QED
      BY <1>11, <3>2
  <2>3. CASE act(i) # "skip"
    <3>1. Contains(a, new(i))
      BY <1>4, <1>8, <2>3
    <3>2. new(i).cat = r.cat /\ new(i).mod = r.mod
      BY <1>2, <2>1
    <3> QED
      BY <1>11, <3>1, <3>2
  <2> QED
    BY <2>2, <2>3
<1>13. ASSUME NEW r, Contains(misses, r)
       PROVE  \E e : Contains(all, e) /\ e.cat = r.cat /\ e.mod = r.mod
  BY <1>10, <1>11, <1>13
<1>14. ASSUME NEW r, Contains(rows, r), Overlaps(r.file, from, to)
       PROVE  \E e : /\ Contains(all, e) /\ e.cat = r.cat /\ e.mod = r.mod /\ ~e.left
                     /\ e.src = r.file.path /\ e.name = r.file.name
  <2>1. PICK i \in 1..n :
          /\ rows[i].cat = r.cat /\ rows[i].mod = r.mod /\ rows[i].file = r.file
          /\ r.file.kind = "rotated" => /\ PrevRotationFor(rows, i) \in Int
                                        /\ PrevRotationFor(rows, i) <= r.file.first
    BY <1>14, StartBelieved DEF n
  <2>2. rows[i].file \in h.files
    BY <1>1 DEF Rows
  <2>3. act(i) # "skip"
    BY <1>14, <2>1, <2>2, NotSkipped DEF act, cov
  <2>4. Contains(a, new(i))
    BY <1>4, <1>8, <2>3
  <2>5. /\ new(i).cat = r.cat /\ new(i).mod = r.mod /\ ~new(i).left
        /\ new(i).src = r.file.path /\ new(i).name = r.file.name
    BY <1>2, <2>1
  <2> QED
    BY <1>11, <2>4, <2>5
<1> QED
  BY <1>11, <1>12, <1>13, <1>14 DEF all

(***************************************************************************)
(* Part 24: commands and duplicates.                                       *)
(***************************************************************************)
LEMMA CommandsAre ==
  ASSUME NEW picks \in Seq(Picks)
  PROVE  /\ CmdEntries(picks) \in Seq(NewEntries)
         /\ \A p : Contains(picks, p) /\ Def(p).cmd =>
              \E e : Contains(CmdEntries(picks), e) /\ e.cat = p.cat /\ e.mod = p.mod
<1> DEFINE C == {p \in ToSet(picks) : Def(p).cmd}
           cmds == Among(C, picks)
           new(p) == [Left(p.cat, p.mod) EXCEPT !.left = FALSE, !.cmd = TRUE, !.src = p.mod,
                                                !.name = <<Text(p.mod)>>, !.action = "whole"]
           out == [k \in DOMAIN cmds |-> new(cmds[k])]
<1>1. CmdEntries(picks) = out
  BY DEF CmdEntries
<1>2. /\ cmds \in Seq(Picks)
      /\ \A p : Contains(cmds, p) <=> Contains(picks, p) /\ Def(p).cmd
  <2>1. \A p : p \in C <=> Contains(picks, p) /\ Def(p).cmd
    BY Members
  <2> HIDE DEF C
  <2> QED
    BY <2>1, AmongHas
<1> HIDE DEF C, cmds
<1>3. ASSUME NEW p \in Picks
      PROVE  new(p) \in NewEntries /\ new(p).cat = p.cat /\ new(p).mod = p.mod
  <2> DEFINE e == new(p)
             z == <<>>
             name == <<Text(p.mod)>>
  <2>1. p.cat \in STRING /\ p.mod \in STRING
    BY DEF Picks
  <2>2. e = [cat |-> p.cat, mod |-> p.mod, left |-> FALSE, cmd |-> TRUE, src |-> p.mod, name |-> name,
             action |-> "whole", cut |-> z, dup |-> z, whole |-> z, arch |-> z]
    <3>1. e = [Left(p.cat, p.mod) EXCEPT !.left = FALSE, !.cmd = TRUE, !.src = p.mod, !.name = name,
                                         !.action = "whole"]
      OBVIOUS
    <3> HIDE DEF e, name
    <3> QED
      BY <3>1 DEF Left
  <2>3. /\ z \in Cuts /\ z \in {<<>>} \cup (STRING \X STRING) /\ z \in {<<>>} \cup Spots
    BY EmptySeq DEF Cuts
  <2>4. name \in Seq(Parts)
    <3>1. Text(p.mod) \in Parts
      BY <2>1 DEF Text, Parts, Texts
    <3> HIDE DEF Parts
    <3> QED
      BY <3>1
  <2>5. z = <<>>
    OBVIOUS
  <2> HIDE DEF e, z, name
  <2>6. e \in Entries
    BY <2>1, <2>2, <2>3, <2>4 DEF Entries, Actions, Texts
  <2>7. e.cat = p.cat /\ e.mod = p.mod /\ e.left = FALSE /\ e.dup = z
    BY <2>2
  <2> QED
    BY <2>5, <2>6, <2>7 DEF NewEntries, e
<1> HIDE DEF new
<1>4. /\ DOMAIN cmds = 1..Len(cmds) /\ Len(cmds) \in Nat
      /\ \A k \in 1..Len(cmds) : cmds[k] \in Picks
  BY <1>2, LenProperties, ElementOfSeq
<1>5. out \in [1..Len(cmds) -> NewEntries] /\ \A k \in 1..Len(cmds) : out[k] = new(cmds[k])
  BY <1>3, <1>4
<1> HIDE DEF out
<1>6. out \in Seq(NewEntries) /\ Len(out) = Len(cmds)
  BY <1>4, <1>5, AsSeq
<1>7. ASSUME NEW p, Contains(picks, p), Def(p).cmd
      PROVE  \E e : Contains(out, e) /\ e.cat = p.cat /\ e.mod = p.mod
  <2>1. PICK k \in 1..Len(cmds) : cmds[k] = p
    BY <1>2, <1>7 DEF Contains
  <2>2. Contains(out, out[k])
    BY <1>6, <2>1 DEF Contains
  <2>3. out[k].cat = p.cat /\ out[k].mod = p.mod
    BY <1>3, <1>4, <1>5, <2>1
  <2> QED
    BY <2>2, <2>3
<1> QED
  BY <1>1, <1>6, <1>7

\* An entry that takes a file or points to the one that does.
Claims(e) == ~e.left /\ ~e.cmd

\* Entry i has the file src.
Takes(es, i, src) == Claims(es[i]) /\ es[i].dup = <<>> /\ es[i].src = src

\* The entry y is x, for all but what it is a duplicate of and where it goes.
Stays(x, y) ==
  y.cat = x.cat /\ y.mod = x.mod /\ y.left = x.left /\ y.cmd = x.cmd /\ y.src = x.src /\ y.name = x.name

\* What dedupe does with the entry e: it is no claim or the first, it gets the file of entry j,
\* or it becomes a duplicate of entry m.
Joins(es, e, new) ==
  /\ new \in Seq(Entries) /\ Len(new) = Len(es) + 1
  /\ Stays(e, new[Len(es) + 1])
  /\ \E j \in 0..Len(es) :
       /\ \A i \in 1..Len(es) : Stays(es[i], new[i]) /\ (i # j => new[i].dup = es[i].dup)
       /\ \/ /\ j = 0 /\ new[Len(es) + 1].dup = <<>>
             /\ Claims(e) => \A i \in 1..Len(es) : ~Takes(es, i, e.src)
          \/ /\ Claims(e) /\ j # 0 /\ Takes(es, j, e.src)
             /\ new[j].dup = <<e.cat, e.mod>> /\ new[Len(es) + 1].dup = <<>>
          \/ /\ Claims(e) /\ j = 0
             /\ \E m \in 1..Len(es) :
                  Takes(es, m, e.src) /\ new[Len(es) + 1].dup = <<es[m].cat, es[m].mod>>

LEMMA PointedIs ==
  ASSUME NEW e \in Entries, NEW d \in STRING \X STRING
  PROVE  LET y == [e EXCEPT !.dup = d] IN y \in Entries /\ Stays(e, y) /\ y.dup = d
<1> DEFINE y == [e EXCEPT !.dup = d]
<1>1. y = [cat |-> e.cat, mod |-> e.mod, left |-> e.left, cmd |-> e.cmd, src |-> e.src, name |-> e.name,
           action |-> e.action, cut |-> e.cut, dup |-> d, whole |-> e.whole, arch |-> e.arch]
  BY DEF Entries
<1> HIDE DEF y
<1>2. y \in Entries
  BY <1>1 DEF Entries
<1>3. Stays(e, y) /\ y.dup = d
  BY <1>1 DEF Stays
<1> QED
  BY <1>2, <1>3 DEF y

LEMMA DedupeIs ==
  ASSUME NEW es \in Seq(Entries), NEW e \in NewEntries, NEW specific
  PROVE  Joins(es, e, Dedupe(es, e, specific))
<1> DEFINE n == Len(es)
           I == {i \in 1..n : ~es[i].left /\ ~es[i].cmd /\ es[i].dup = <<>> /\ es[i].src = e.src}
           j == IF I # {} THEN Min(I) ELSE 0
           better == Score(e, specific) > Score(es[j], specific)
           given == [es[j] EXCEPT !.dup = <<e.cat, e.mod>>]
           other == [e EXCEPT !.dup = <<es[j].cat, es[j].mod>>]
           new == Dedupe(es, e, specific)
<1>1. new = IF e.left \/ e.cmd \/ j = 0 THEN Append(es, e)
            ELSE IF better THEN Append([es EXCEPT ![j] = given], e)
            ELSE Append(es, other)
  BY DEF Dedupe, SelectInSeq, ReplaceAt
<1>2. n \in Nat /\ es \in [1..n -> Entries] /\ \A i \in 1..n : es[i] \in Entries
  BY LenProperties, ElementOfSeq
<1>3. e \in Entries /\ e.dup = <<>> /\ e.cat \in STRING /\ e.mod \in STRING
      /\ e.left \in BOOLEAN /\ e.cmd \in BOOLEAN
  BY DEF NewEntries, Entries
<1>4. /\ j \in 0..n
      /\ j # 0 => j \in 1..n /\ Takes(es, j, e.src)
      /\ j = 0 => \A i \in 1..n : ~Takes(es, i, e.src)
  <2>1. \A i \in 1..n : i \in I <=> Takes(es, i, e.src)
    BY DEF Takes, Claims
  <2>2. I \in SUBSET Nat /\ I \subseteq 1..n
    BY <1>2
  <2> HIDE DEF I, n
  <2>3. I # {} => Min(I) \in I
    BY <2>2, MinIn
  <2>4. CASE I = {}
    <3>1. j = 0
      BY <2>4
    <3> HIDE DEF j
    <3> QED
      BY <1>2, <2>1, <2>4, <3>1
  <2>5. CASE I # {}
    <3>1. j \in I
      BY <2>3, <2>5
    <3>2. j \in 1..n
      BY <2>2, <3>1
    <3> HIDE DEF j
    <3>3. j \in 0..n /\ j # 0
      BY <1>2, <3>2
    <3> QED
      BY <2>1, <3>1, <3>2, <3>3
  <2> QED
    BY <2>4, <2>5
<1> HIDE DEF I, j, better, new
<1>5. CASE e.left \/ e.cmd \/ j = 0
  <2>1. new = Append(es, e)
    BY <1>1, <1>5
  <2>2. /\ new \in Seq(Entries) /\ Len(new) = n + 1 /\ new[n + 1] = e
        /\ \A i \in 1..n : new[i] = es[i]
    BY <1>3, <2>1, AppendProperties
  <2>3. \A x : Stays(x, x)
    BY DEF Stays
  <2>4. Claims(e) => \A i \in 1..n : ~Takes(es, i, e.src)
    BY <1>4, <1>5 DEF Claims
  <2>5. 0 \in 0..n
    BY <1>2
  <2> QED
    BY <1>3, <2>2, <2>3, <2>4, <2>5 DEF Joins, new
<1>6. CASE ~(e.left \/ e.cmd \/ j = 0) /\ better
  <2>1. new = Append([es EXCEPT ![j] = given], e)
    BY <1>1, <1>6
  <2>2. j \in 1..n /\ j # 0 /\ Takes(es, j, e.src) /\ Claims(e)
    BY <1>4, <1>6 DEF Claims
  <2>3. given \in Entries /\ Stays(es[j], given) /\ given.dup = <<e.cat, e.mod>>
    <3> DEFINE x == es[j]
    <3>1. x \in Entries /\ <<e.cat, e.mod>> \in STRING \X STRING
      BY <1>2, <1>3, <2>2
    <3> HIDE DEF x
    <3>2. LET y == [x EXCEPT !.dup = <<e.cat, e.mod>>]
          IN y \in Entries /\ Stays(x, y) /\ y.dup = <<e.cat, e.mod>>
      BY <3>1, PointedIs
    <3> QED
      BY <3>2 DEF x
  <2> HIDE DEF given
  <2> DEFINE mid == [es EXCEPT ![j] = given]
  <2>4. mid \in Seq(Entries) /\ Len(mid) = n /\ mid[j] = given /\ \A i \in 1..n : i # j => mid[i] = es[i]
    <3>1. mid \in [1..n -> Entries] /\ mid[j] = given /\ \A i \in 1..n : i # j => mid[i] = es[i]
      BY <1>2, <2>2, <2>3
    <3> HIDE DEF mid, n
    <3> QED
      BY <1>2, <3>1, AsSeq
  <2> HIDE DEF mid
  <2>5. /\ new \in Seq(Entries) /\ Len(new) = n + 1 /\ new[n + 1] = e
        /\ \A i \in 1..n : new[i] = mid[i]
    BY <1>3, <2>1, <2>4, AppendProperties DEF mid
  <2>6. \A x : Stays(x, x)
    BY DEF Stays
  <2>7. \A i \in 1..n : Stays(es[i], new[i]) /\ (i # j => new[i].dup = es[i].dup)
    BY <2>3, <2>4, <2>5, <2>6
  <2>8. new[j].dup = <<e.cat, e.mod>> /\ new[n + 1].dup = <<>> /\ Stays(e, new[n + 1])
    BY <1>3, <2>2, <2>3, <2>4, <2>5, <2>6
  <2>9. j \in 0..Len(es) /\ n = Len(es)
    BY <1>4
  <2> HIDE DEF n
  <2> QED
    BY <2>2, <2>5, <2>7, <2>8, <2>9 DEF Joins, new
<1>7. CASE ~(e.left \/ e.cmd \/ j = 0) /\ ~better
  <2>1. new = Append(es, other)
    BY <1>1, <1>7
  <2>2. j \in 1..n /\ Takes(es, j, e.src) /\ Claims(e)
    BY <1>4, <1>7 DEF Claims
  <2>3. other \in Entries /\ Stays(e, other) /\ other.dup = <<es[j].cat, es[j].mod>>
    <3> DEFINE d == <<es[j].cat, es[j].mod>>
    <3>1. d \in STRING \X STRING
      BY <1>2, <2>2 DEF Entries
    <3> HIDE DEF d
    <3>2. LET y == [e EXCEPT !.dup = d]
          IN y \in Entries /\ Stays(e, y) /\ y.dup = d
      BY <1>3, <3>1, PointedIs
    <3> QED
      BY <3>2 DEF d
  <2> HIDE DEF other
  <2>4. /\ new \in Seq(Entries) /\ Len(new) = n + 1 /\ new[n + 1] = other
        /\ \A i \in 1..n : new[i] = es[i]
    BY <2>1, <2>3, AppendProperties
  <2>5. \A x : Stays(x, x)
    BY DEF Stays
  <2>6. 0 \in 0..n
    BY <1>2
  <2> QED
    BY <2>2, <2>3, <2>4, <2>5, <2>6 DEF Joins, new
<1> QED
  BY <1>5, <1>6, <1>7

\* DedupeEntries goes through the entries once.
Dedupes(s, specific, f) ==
  /\ f[0] = <<>>
  /\ \A k \in 1..Len(s) : f[k] = Dedupe(f[k - 1], s[k], specific)
  /\ DedupeEntries(s, specific) = f[Len(s)]

LEMMA DedupeSteps ==
  ASSUME NEW specific, NEW s \in Seq(NewEntries)
  PROVE  \E f : Dedupes(s, specific, f)
<1> DEFINE n == Len(s)
           A == Seq(Entries)
           step == [q \in (1..n) \X A |-> Dedupe(q[2], s[q[1]], specific)]
           Eq(it) == it = [t \in SUBSET (1..n) |->
                            IF t = {} THEN <<>> ELSE Dedupe(it[t \ {Max(t)}], s[Max(t)], specific)]
           it == CHOOSE i : Eq(i)
           f == [k \in 0..n |-> it[1..k]]
<1>0. n \in Nat /\ s \in [1..n -> NewEntries]
  BY LenProperties
<1> HIDE DEF n
<1>1. PICK i : Folding(n, <<>>, step, i) /\ \A t \in SUBSET (1..n) : i[t] \in A
  <2>1. \A k \in 1..n : \A x \in A : step[<<k, x>>] = Dedupe(x, s[k], specific) /\ Dedupe(x, s[k], specific) \in A
    BY <1>0, DedupeIs DEF Joins
  <2>2. <<>> \in A
    BY EmptySeq, FS_EmptySet
  <2> HIDE DEF A, step
  <2> QED
    BY <1>0, <2>1, <2>2, FoldingExists
<1>2. Eq(i)
  <2>1. ASSUME NEW t \in SUBSET (1..n), t # {}
        PROVE  step[<<Max(t), i[t \ {Max(t)}]>>] = Dedupe(i[t \ {Max(t)}], s[Max(t)], specific)
    <3>1. Max(t) \in 1..n /\ t \ {Max(t)} \in SUBSET (1..n)
      BY <1>0, <2>1, MaxIn
    <3> QED
      BY <1>1, <3>1
  <2>2. i = [t \in SUBSET (1..n) |-> IF t = {} THEN <<>> ELSE step[<<Max(t), i[t \ {Max(t)}]>>]]
    BY <1>1 DEF Folding
  <2> HIDE DEF step
  <2> QED
    BY <2>1, <2>2
<1>3. Eq(it)
  <2> HIDE DEF Eq
  <2> QED
    BY <1>2
<1>4. DedupeEntries(s, specific) = it[1..n]
  <2>1. DOMAIN s = 1..n
    BY <1>0
  <2> QED
    BY <2>1 DEF  DedupeEntries, FoldLeft, MapThenFoldSet
<1> HIDE DEF it
<1>5. \A t \in SUBSET (1..n) :
        it[t] = IF t = {} THEN <<>> ELSE Dedupe(it[t \ {Max(t)}], s[Max(t)], specific)
  BY <1>3
<1>6. f[0] = it[1..0] /\ f[n] = it[1..n] /\ \A k \in 1..n : f[k] = it[1..k] /\ f[k - 1] = it[1..(k - 1)]
  BY <1>0
<1> HIDE DEF f
<1>7. f[0] = <<>>
  BY <1>0, <1>5, <1>6, UpTo
<1>8. ASSUME NEW k \in 1..n
      PROVE  f[k] = Dedupe(f[k - 1], s[k], specific)
  <2>1. 1..k \in SUBSET (1..n) /\ 1..k # {} /\ Max(1..k) = k /\ (1..k) \ {k} = 1..(k - 1)
    BY <1>0, UpTo
  <2>2. it[1..k] = Dedupe(it[1..(k - 1)], s[k], specific)
    BY <1>5, <2>1
  <2> QED
    BY <1>6, <2>2
<1> QED
  BY <1>4, <1>6, <1>7, <1>8 DEF n, Dedupes

\* Of the first n entries one claim has each file that is claimed, and the others point to a claim on it.
Deduped(es, n) ==
  /\ \A i \in 1..n : Claims(es[i]) =>
       \E j \in 1..n : \A q \in 1..n : Takes(es, q, es[i].src) <=> q = j
  /\ \A i \in 1..n : es[i].dup # <<>> =>
       \E j \in 1..n :
         Claims(es[j]) /\ es[j].src = es[i].src /\ <<es[j].cat, es[j].mod>> = es[i].dup

LEMMA DedupeKeeps ==
  ASSUME NEW es \in Seq(Entries), NEW e \in NewEntries, NEW new, Joins(es, e, new), Deduped(es, Len(es))
  PROVE  Deduped(new, Len(es) + 1)
<1> DEFINE n == Len(es)
<1>1. n \in Nat
  BY LenProperties
<1>2. PICK j \in 0..n :
        /\ \A i \in 1..n : Stays(es[i], new[i]) /\ (i # j => new[i].dup = es[i].dup)
        /\ \/ /\ j = 0 /\ new[n + 1].dup = <<>>
              /\ Claims(e) => \A i \in 1..n : ~Takes(es, i, e.src)
           \/ /\ Claims(e) /\ j # 0 /\ Takes(es, j, e.src)
              /\ new[j].dup = <<e.cat, e.mod>> /\ new[n + 1].dup = <<>>
           \/ /\ Claims(e) /\ j = 0
              /\ \E m \in 1..n : Takes(es, m, e.src) /\ new[n + 1].dup = <<es[m].cat, es[m].mod>>
  BY DEF Joins
<1>3. Len(new) = n + 1 /\ Stays(e, new[n + 1])
  BY DEF Joins
<1>4. /\ \A i \in 1..n : Claims(es[i]) =>
           \E k \in 1..n : \A q \in 1..n : Takes(es, q, es[i].src) <=> q = k
      /\ \A i \in 1..n : es[i].dup # <<>> =>
           \E k \in 1..n :
             Claims(es[k]) /\ es[k].src = es[i].src /\ <<es[k].cat, es[k].mod>> = es[i].dup
  BY DEF Deduped
<1> HIDE DEF n
<1>5. /\ \A i \in 1..n : /\ Claims(new[i]) <=> Claims(es[i])
                         /\ new[i].src = es[i].src /\ new[i].cat = es[i].cat /\ new[i].mod = es[i].mod
                         /\ i # j => \A s : Takes(new, i, s) <=> Takes(es, i, s)
      /\ Claims(new[n + 1]) <=> Claims(e)
      /\ new[n + 1].src = e.src /\ new[n + 1].cat = e.cat /\ new[n + 1].mod = e.mod
  BY <1>2, <1>3 DEF Stays, Claims, Takes
<1>6. /\ \A i \in 1..(n + 1) : i \in 1..n \/ i = n + 1
      /\ n + 1 \in 1..(n + 1) /\ \A i \in 1..n : i \in 1..(n + 1) /\ i # n + 1
  BY <1>1
<1>7. \A i \in 1..n : \A s : Takes(es, i, s) => Claims(es[i]) /\ es[i].src = s
  BY DEF Takes
<1> SUFFICES Deduped(new, n + 1)
  BY DEF n
<1>8. CASE j = 0 /\ new[n + 1].dup = <<>> /\ (Claims(e) => \A i \in 1..n : ~Takes(es, i, e.src))
  <2>1. \A s : Takes(new, n + 1, s) <=> Claims(e) /\ e.src = s
    BY <1>5, <1>8 DEF Takes
  <2>2. \A i \in 1..n : \A s : Takes(new, i, s) <=> Takes(es, i, s)
    BY <1>5, <1>6, <1>8
  <2>3. ASSUME NEW i \in 1..(n + 1), Claims(new[i])
        PROVE  \E k \in 1..(n + 1) : \A q \in 1..(n + 1) : Takes(new, q, new[i].src) <=> q = k
    <3>1. CASE i = n + 1
      <4>1. \A q \in 1..(n + 1) : Takes(new, q, new[i].src) <=> q = n + 1
        BY <1>5, <1>6, <1>8, <2>1, <2>2, <2>3, <3>1
      <4> QED
        BY <1>6, <4>1
    <3>2. CASE i \in 1..n
      <4>1. PICK k \in 1..n : \A q \in 1..n : Takes(es, q, es[i].src) <=> q = k
        BY <1>4, <1>5, <2>3, <3>2
      <4>2. \A q \in 1..(n + 1) : Takes(new, q, new[i].src) <=> q = k
        BY <1>5, <1>6, <1>8, <2>1, <2>2, <3>2, <4>1
      <4> QED
        BY <1>6, <4>2
    <3> QED
      BY <1>6, <3>1, <3>2
  <2>4. ASSUME NEW i \in 1..(n + 1), new[i].dup # <<>>
        PROVE  \E k \in 1..(n + 1) :
                 Claims(new[k]) /\ new[k].src = new[i].src /\ <<new[k].cat, new[k].mod>> = new[i].dup
    <3>1. i \in 1..n /\ new[i].dup = es[i].dup
      BY <1>2, <1>6, <1>8, <2>4
    <3>2. PICK k \in 1..n :
            Claims(es[k]) /\ es[k].src = es[i].src /\ <<es[k].cat, es[k].mod>> = es[i].dup
      BY <1>4, <2>4, <3>1
    <3> QED
      BY <1>5, <1>6, <3>1, <3>2
  <2> QED
    BY <2>3, <2>4 DEF Deduped
<1>9. CASE /\ Claims(e) /\ j # 0 /\ Takes(es, j, e.src)
           /\ new[j].dup = <<e.cat, e.mod>> /\ new[n + 1].dup = <<>>
  <2>0. j \in 1..n /\ es[j].src = e.src /\ Claims(es[j])
    BY <1>1, <1>7, <1>9
  <2>1. /\ \A s : Takes(new, n + 1, s) <=> e.src = s
        /\ \A s : ~Takes(new, j, s)
    <3>1. <<e.cat, e.mod>> # <<>>
      OBVIOUS
    <3> QED
      BY <1>5, <1>9, <3>1 DEF Takes
  <2>2. \A i \in 1..n : i # j => \A s : Takes(new, i, s) <=> Takes(es, i, s)
    BY <1>5
  <2>3. ASSUME NEW i \in 1..(n + 1), Claims(new[i])
        PROVE  \E k \in 1..(n + 1) : \A q \in 1..(n + 1) : Takes(new, q, new[i].src) <=> q = k
    <3>1. CASE new[i].src = e.src
      <4>1. PICK k \in 1..n : \A q \in 1..n : Takes(es, q, e.src) <=> q = k
        BY <1>4, <2>0
      <4>2. k = j
        BY <1>9, <2>0, <4>1
      <4>3. \A q \in 1..(n + 1) : Takes(new, q, new[i].src) <=> q = n + 1
        BY <1>6, <2>0, <2>1, <2>2, <3>1, <4>1, <4>2
      <4> QED
        BY <1>6, <4>3
    <3>2. CASE new[i].src # e.src
      <4>1. i \in 1..n /\ Claims(es[i]) /\ new[i].src = es[i].src
        BY <1>5, <1>6, <2>3, <3>2
      <4>2. PICK k \in 1..n : \A q \in 1..n : Takes(es, q, es[i].src) <=> q = k
        BY <1>4, <4>1
      <4>3. ~Takes(es, j, es[i].src)
        BY <1>7, <2>0, <3>2, <4>1
      <4>4. \A q \in 1..(n + 1) : Takes(new, q, new[i].src) <=> q = k
        BY <1>6, <2>1, <2>2, <3>2, <4>1, <4>2, <4>3
      <4> QED
        BY <1>6, <4>4
    <3> QED
      BY <3>1, <3>2
  <2>4. ASSUME NEW i \in 1..(n + 1), new[i].dup # <<>>
        PROVE  \E k \in 1..(n + 1) :
                 Claims(new[k]) /\ new[k].src = new[i].src /\ <<new[k].cat, new[k].mod>> = new[i].dup
    <3>1. CASE i = j
      BY <1>5, <1>6, <1>9, <2>0, <3>1
    <3>2. CASE i # j
      <4>1. i \in 1..n /\ new[i].dup = es[i].dup
        BY <1>2, <1>6, <1>9, <2>4, <3>2
      <4>2. PICK k \in 1..n :
              Claims(es[k]) /\ es[k].src = es[i].src /\ <<es[k].cat, es[k].mod>> = es[i].dup
        BY <1>4, <2>4, <4>1
      <4> QED
        BY <1>5, <1>6, <4>1, <4>2
    <3> QED
      BY <3>1, <3>2
  <2> QED
    BY <2>3, <2>4 DEF Deduped
<1>10. ASSUME Claims(e), j = 0, NEW m \in 1..n, Takes(es, m, e.src),
              new[n + 1].dup = <<es[m].cat, es[m].mod>>
       PROVE  Deduped(new, n + 1)
  <2>0. es[m].src = e.src /\ Claims(es[m])
    BY <1>7, <1>10
  <2>1. \A s : ~Takes(new, n + 1, s)
    <3>1. <<es[m].cat, es[m].mod>> # <<>>
      OBVIOUS
    <3> QED
      BY <1>10, <3>1 DEF Takes
  <2>2. \A i \in 1..n : \A s : Takes(new, i, s) <=> Takes(es, i, s)
    BY <1>5, <1>6, <1>10
  <2>3. ASSUME NEW i \in 1..(n + 1), Claims(new[i])
        PROVE  \E k \in 1..(n + 1) : \A q \in 1..(n + 1) : Takes(new, q, new[i].src) <=> q = k
    <3>1. PICK o \in 1..n : Claims(es[o]) /\ new[i].src = es[o].src
      BY <1>5, <1>6, <2>0, <2>3
    <3>2. PICK k \in 1..n : \A q \in 1..n : Takes(es, q, es[o].src) <=> q = k
      BY <1>4, <3>1
    <3>3. \A q \in 1..(n + 1) : Takes(new, q, new[i].src) <=> q = k
      BY <1>6, <2>1, <2>2, <3>1, <3>2
    <3> QED
      BY <1>6, <3>3
  <2>4. ASSUME NEW i \in 1..(n + 1), new[i].dup # <<>>
        PROVE  \E k \in 1..(n + 1) :
                 Claims(new[k]) /\ new[k].src = new[i].src /\ <<new[k].cat, new[k].mod>> = new[i].dup
    <3>1. CASE i = n + 1
      BY <1>5, <1>6, <1>10, <2>0, <3>1
    <3>2. CASE i \in 1..n
      <4>1. new[i].dup = es[i].dup
        BY <1>2, <1>6, <1>10, <3>2
      <4>2. PICK k \in 1..n :
              Claims(es[k]) /\ es[k].src = es[i].src /\ <<es[k].cat, es[k].mod>> = es[i].dup
        BY <1>4, <2>4, <3>2, <4>1
      <4> QED
        BY <1>5, <1>6, <3>2, <4>1, <4>2
    <3> QED
      BY <1>6, <3>1, <3>2
  <2> QED
    BY <2>3, <2>4 DEF Deduped
<1> QED
  BY <1>2, <1>8, <1>9, <1>10

LEMMA DedupedAre ==
  ASSUME NEW s \in Seq(NewEntries), NEW specific
  PROVE  LET out == DedupeEntries(s, specific)
         IN  /\ out \in Seq(Entries) /\ Len(out) = Len(s) /\ Deduped(out, Len(s))
             /\ \A i \in 1..Len(s) : Stays(s[i], out[i])
<1> DEFINE n == Len(s)
<1>1. n \in Nat /\ s \in [1..n -> NewEntries]
  BY LenProperties
<1>2. PICK f : Dedupes(s, specific, f)
  BY DedupeSteps
<1>3. /\ f[0] = <<>>
      /\ \A k \in 1..n : f[k] = Dedupe(f[k - 1], s[k], specific)
      /\ DedupeEntries(s, specific) = f[n]
  BY <1>2 DEF Dedupes
<1> DEFINE Done(k) == /\ f[k] \in Seq(Entries) /\ Len(f[k]) = k /\ Deduped(f[k], k)
                      /\ \A i \in 1..k : Stays(s[i], f[k][i])
           I == {k \in Nat : k <= n => Done(k)}
<1> HIDE DEF n
<1>4. 0 \in I
  <2>1. f[0] \in Seq(Entries) /\ Len(f[0]) = 0
    BY <1>3, EmptySeq
  <2>2. \A i \in 1..0 : FALSE
    OBVIOUS
  <2>3. Deduped(f[0], 0)
    BY <2>1, <2>2 DEF Deduped
  <2> QED
    BY <2>1, <2>2, <2>3
<1>5. ASSUME NEW k \in Nat, k \in I
      PROVE  k + 1 \in I
  <2> SUFFICES ASSUME k + 1 <= n
               PROVE  Done(k + 1)
    OBVIOUS
  <2>1. Done(k)
    <3> HIDE DEF Done
    <3> QED
      BY <1>1, <1>5
  <2> DEFINE es == f[k]
             e == s[k + 1]
             new == f[k + 1]
  <2>2. new = Dedupe(es, e, specific) /\ e \in NewEntries
    <3>1. k + 1 \in 1..n /\ (k + 1) - 1 = k
      BY <1>1
    <3> QED
      BY <1>1, <1>3, <3>1
  <2>3. es \in Seq(Entries) /\ Len(es) = k /\ Deduped(es, k) /\ \A i \in 1..k : Stays(s[i], es[i])
    BY <2>1
  <2> HIDE DEF es, new
  <2>4. Joins(es, e, new)
    <3> HIDE DEF e
    <3> QED
      BY <2>2, <2>3, DedupeIs
  <2>5. Deduped(new, k + 1)
    <3> HIDE DEF e
    <3> QED
      BY <2>2, <2>3, <2>4, DedupeKeeps
  <2>6. /\ new \in Seq(Entries) /\ Len(new) = k + 1 /\ Stays(e, new[k + 1])
        /\ \A i \in 1..k : Stays(es[i], new[i])
    BY <2>3, <2>4 DEF Joins
  <2>7. \A i \in 1..(k + 1) : Stays(s[i], new[i])
    <3>1. \A i \in 1..k : Stays(s[i], new[i])
      BY <2>3, <2>6 DEF Stays
    <3>2. \A i \in 1..(k + 1) : i \in 1..k \/ i = k + 1
      OBVIOUS
    <3> QED
      BY <2>6, <3>1, <3>2
  <2> QED
    BY <2>5, <2>6, <2>7 DEF new
<1> HIDE DEF I
<1>6. Done(n)
  <2>1. n \in I
    BY <1>1, <1>4, <1>5, SetInduction
  <2> QED
    BY <1>1, <2>1 DEF I
<1> QED
  BY <1>3, <1>6 DEF n

(***************************************************************************)
(* Part 25: places in the archive.                                         *)
(***************************************************************************)
LEMMA UniqueIs ==
  ASSUME NEW p \in Spots, NEW used \in SUBSET Spots, IsFiniteSet(used)
  PROVE  UniqueArchivePath(p, used) \in Spots \ used
<1> DEFINE try(n) == IF n = 1 THEN p ELSE [p EXCEPT !.name = Append(@, Number(n))]
           N == Cardinality(used) + 1
           Free(n) == try(n) \notin used /\ \A k \in 1..(n - 1) : try(k) \in used
           I == {n \in 1..N : try(n) \notin used}
<1>1. UniqueArchivePath(p, used) = try(CHOOSE n \in 1..N : Free(n))
  BY DEF UniqueArchivePath
<1>2. N \in Nat /\ Cardinality(used) \in Nat /\ N > Cardinality(used)
  BY FS_CardinalityType
<1>3. /\ p.name \in Seq(Parts)
      /\ p = [dir |-> p.dir, name |-> p.name, cut |-> p.cut]
      /\ p.dir \in Seq(STRING) /\ p.cut \in Cuts
  BY DEF Spots
<1>4. \A n \in Nat \ {1} : try(n) = [dir |-> p.dir, name |-> Append(p.name, Number(n)), cut |-> p.cut]
  BY <1>3
<1>5. /\ try(1) = p
      /\ \A n \in Nat \ {1} : /\ Append(p.name, Number(n)) \in Seq(Parts)
                              /\ Len(Append(p.name, Number(n))) = Len(p.name) + 1
                              /\ Append(p.name, Number(n))[Len(p.name) + 1] = Number(n)
  <2>1. \A n \in Nat : Number(n) \in Parts
    BY DEF Number, Parts, Texts
  <2> HIDE DEF Parts
  <2> QED
    BY <1>3, <2>1, AppendProperties
<1> HIDE DEF try, N
<1>6. \A n \in Nat : try(n) \in Spots
  <2>1. \A n \in Nat \ {1} : try(n) \in Spots
    <3> SUFFICES ASSUME NEW n \in Nat \ {1}
                 PROVE  try(n) \in Spots
      OBVIOUS
    <3> DEFINE name == Append(p.name, Number(n))
    <3>1. name \in Seq(Parts) /\ try(n) = [dir |-> p.dir, name |-> name, cut |-> p.cut]
      BY <1>4, <1>5
    <3> HIDE DEF name
    <3> QED
      BY <1>3, <3>1 DEF Spots
  <2> QED
    BY <1>5, <2>1
<1>7. ASSUME NEW i \in Nat, NEW j \in Nat, try(i) = try(j)
      PROVE  i = j
  <2>0. Len(p.name) \in Nat
    BY <1>3, LenProperties
  <2>1. \A n \in Nat \ {1} : try(n).name = Append(p.name, Number(n))
    BY <1>4
  <2>2. \A n \in Nat \ {1} : Len(try(n).name) = Len(p.name) + 1 /\ try(n).name[Len(p.name) + 1] = Number(n)
    BY <1>5, <2>1
  <2>3. CASE i # 1 /\ j # 1
    <3>1. Number(i) = Number(j)
      BY <1>7, <2>2, <2>3
    <3>2. Number(i).num = Number(j).num
      BY <3>1
    <3> QED
      BY <3>2 DEF Number
  <2>4. CASE i = 1 \/ j = 1
    <3>1. Len(try(1).name) = Len(p.name)
      BY <1>5
    <3> QED
      BY <1>7, <2>0, <2>2, <2>4, <3>1
  <2> QED
    BY <2>3, <2>4
<1>8. I # {}
  <2> SUFFICES ASSUME I = {}
               PROVE  FALSE
    OBVIOUS
  <2> DEFINE T == [n \in 1..N |-> try(n)]
  <2>1. \A n \in 1..N : try(n) \in used
    OBVIOUS
  <2>2. T \in [1..N -> used] /\ \A n \in 1..N : T[n] = try(n) /\ n \in Nat
    BY <1>2, <2>1
  <2> HIDE DEF T
  <2>3. IsFiniteSet(1..N) /\ Cardinality(1..N) = N
    BY <1>2, FS_Interval
  <2>4. PICK x, y \in 1..N : x # y /\ T[x] = T[y]
    BY <1>2, <2>2, <2>3, FS_PigeonHole
  <2> QED
    BY <1>7, <2>2, <2>4
<1>9. \E n \in 1..N : Free(n)
  <2>1. I \in SUBSET Nat
    BY <1>2
  <2>2. Min(I) \in I /\ \A n \in I : Min(I) <= n
    BY <1>8, <2>1, MinIn
  <2> DEFINE m == Min(I)
  <2> HIDE DEF m
  <2>3. m \in 1..N /\ try(m) \notin used
    BY <2>2 DEF m
  <2>4. \A k \in 1..(m - 1) : k \in 1..N /\ ~(m <= k)
    BY <1>2, <2>3
  <2>5. \A k \in 1..(m - 1) : try(k) \in used
    BY <2>2, <2>4 DEF m
  <2> QED
    BY <2>3, <2>5
<1> DEFINE c == CHOOSE n \in 1..N : Free(n)
<1>10. c \in 1..N /\ Free(c)
  BY <1>9
<1> HIDE DEF c
<1>11. try(c) \notin used /\ c \in Nat
  BY <1>2, <1>10
<1> QED
  BY <1>1, <1>6, <1>11 DEF c

\* What is known of the places while they are given out.
Assigning == {st \in [used : SUBSET Spots, out : Seq(Entries)] : IsFiniteSet(st.used)}

PlacesOf(e) == IF e.left \/ e.dup # <<>> THEN {} ELSE {e.whole, e.arch}

\* The entry y is x with its places, or with the mark that it has none.
Filed(x, y) ==
  /\ y.cat = x.cat /\ y.mod = x.mod /\ y.cmd = x.cmd /\ y.src = x.src /\ y.name = x.name /\ y.dup = x.dup
  /\ (x.left => y.left) /\ (y.left => x.left \/ x.name = <<>>)

Assigned(st, e, new) ==
  /\ new \in Assigning /\ Len(new.out) = Len(st.out) + 1
  /\ \A i \in 1..Len(st.out) : new.out[i] = st.out[i]
  /\ st.used \subseteq new.used
  /\ LET x == new.out[Len(st.out) + 1]
     IN Filed(e, x) /\ PlacesOf(x) \subseteq new.used \ st.used

LEMMA MarkedIs ==
  ASSUME NEW e \in Entries, NEW t \in BOOLEAN, e.left => t, t => e.left \/ e.name = <<>>
  PROVE  LET y == [e EXCEPT !.left = t] IN y \in Entries /\ y.left = t /\ Filed(e, y)
BY DEF Entries, Filed

LEMMA WholeIs ==
  ASSUME NEW e \in Entries, NEW w \in Spots
  PROVE  LET y == [e EXCEPT !.whole = w]
         IN  y \in Entries /\ Filed(e, y) /\ y.whole = w /\ y.left = e.left
BY DEF Entries, Filed

LEMMA ArchIs ==
  ASSUME NEW e \in Entries, NEW a \in Spots
  PROVE  LET y == [e EXCEPT !.arch = a]
         IN  y \in Entries /\ Filed(e, y) /\ y.arch = a /\ y.whole = e.whole
BY DEF Entries, Filed

\* The entry x gets places that are not in use yet.
Reserves(st, used, x) ==
  /\ used \subseteq Spots /\ IsFiniteSet(used) /\ st.used \subseteq used
  /\ PlacesOf(x) \subseteq used \ st.used

LEMMA Reserved ==
  ASSUME NEW st \in Assigning, NEW e, NEW x \in Entries, Filed(e, x), NEW used, Reserves(st, used, x)
  PROVE  Assigned(st, e, [used |-> used, out |-> Append(st.out, x)])
<1> DEFINE n == Len(st.out)
           new == [used |-> used, out |-> Append(st.out, x)]
<1>1. new.used = used /\ new.out = Append(st.out, x)
  OBVIOUS
<1>2. /\ Append(st.out, x) \in Seq(Entries) /\ Len(Append(st.out, x)) = n + 1
      /\ Append(st.out, x)[n + 1] = x
      /\ \A i \in 1..n : Append(st.out, x)[i] = st.out[i]
  BY AppendProperties DEF Assigning
<1>3. used \subseteq Spots /\ IsFiniteSet(used) /\ st.used \subseteq used /\ PlacesOf(x) \subseteq used \ st.used
  BY DEF Reserves
<1>4. new \in Assigning
  BY <1>2, <1>3 DEF Assigning
<1> HIDE DEF new
<1>5. Len(new.out) = n + 1 /\ new.out[n + 1] = x /\ \A i \in 1..n : new.out[i] = st.out[i]
  BY <1>1, <1>2
<1>6. Assigned(st, e, new)
  BY <1>1, <1>3, <1>4, <1>5 DEF Assigned
<1> QED
  BY <1>6 DEF new

LEMMA AssignIs ==
  ASSUME NEW st \in Assigning, NEW e \in Entries
  PROVE  Assigned(st, e, Assign(st, e))
<1> DEFINE n == Len(st.out)
           whole == UniqueArchivePath(ArchivePathFor(e, <<>>), st.used)
           cut == UniqueArchivePath(ArchivePathFor(e, e.cut), st.used \cup {whole})
           arch == IF e.cut = <<>> THEN whole ELSE cut
           gone == [e EXCEPT !.left = TRUE]
           placed == [e EXCEPT !.whole = whole, !.arch = arch]
           new == Assign(st, e)
<1>1. new = IF e.left \/ e.dup # <<>> THEN [st EXCEPT !.out = Append(st.out, e)]
            ELSE IF e.name = <<>> THEN [st EXCEPT !.out = Append(st.out, gone)]
            ELSE [used |-> st.used \cup {whole, arch}, out |-> Append(st.out, placed)]
  BY DEF Assign
<1>2. /\ st.used \in SUBSET Spots /\ st.out \in Seq(Entries) /\ IsFiniteSet(st.used)
      /\ st = [used |-> st.used, out |-> st.out] /\ n \in Nat
  BY LenProperties DEF Assigning
<1>4. e = [cat |-> e.cat, mod |-> e.mod, left |-> e.left, cmd |-> e.cmd, src |-> e.src, name |-> e.name,
           action |-> e.action, cut |-> e.cut, dup |-> e.dup, whole |-> e.whole, arch |-> e.arch]
      /\ e.cat \in STRING /\ e.mod \in STRING /\ e.name \in Seq(Parts) /\ e.cut \in Cuts
      /\ e.left \in BOOLEAN
  BY DEF Entries
<1> HIDE DEF n, whole, arch, cut, new
<1>6. CASE e.left \/ e.dup # <<>>
  <2>1. new = [used |-> st.used, out |-> Append(st.out, e)]
    BY <1>1, <1>2, <1>6
  <2>2. PlacesOf(e) = {} /\ Filed(e, e)
    BY <1>6 DEF PlacesOf, Filed
  <2>3. Reserves(st, st.used, e)
    BY <1>2, <2>2 DEF Reserves
  <2> QED
    BY <2>1, <2>2, <2>3, Reserved DEF new
<1>7. CASE ~(e.left \/ e.dup # <<>>) /\ e.name = <<>>
  <2>1. new = [used |-> st.used, out |-> Append(st.out, gone)]
    <3> HIDE DEF gone
    <3> QED
      BY <1>1, <1>2, <1>7
  <2>2. gone \in Entries /\ Filed(e, gone) /\ gone.left
    <3> DEFINE t == TRUE
    <3>1. t \in BOOLEAN /\ t
      OBVIOUS
    <3>2. gone = [e EXCEPT !.left = t]
      OBVIOUS
    <3> HIDE DEF gone, t
    <3>3. /\ [e EXCEPT !.left = t] \in Entries /\ [e EXCEPT !.left = t].left = t
          /\ Filed(e, [e EXCEPT !.left = t])
      BY <1>7, <3>1, MarkedIs
    <3> QED
      BY <3>1, <3>2, <3>3
  <2> HIDE DEF gone
  <2>5. PlacesOf(gone) = {}
    BY <2>2 DEF PlacesOf
  <2>6. Reserves(st, st.used, gone)
    BY <1>2, <2>5 DEF Reserves
  <2> QED
    BY <2>1, <2>2, <2>6, Reserved DEF new
<1>8. CASE ~(e.left \/ e.dup # <<>>) /\ e.name # <<>>
  <2>1. new = [used |-> st.used \cup {whole, arch}, out |-> Append(st.out, placed)]
    <3> HIDE DEF placed
    <3> QED
      BY <1>1, <1>8
  <2>2. \A c \in Cuts : ArchivePathFor(e, c) \in Spots
    <3>1. <<ServerDir, e.cat, e.mod>> \in Seq(STRING)
      BY <1>4, CollectRulesAssumption DEF CollectRulesAssumption
    <3> QED
      BY <1>4, <3>1 DEF ArchivePathFor, Spots
  <2>3. whole \in Spots \ st.used
    <3>1. <<>> \in Cuts
      BY EmptySeq DEF Cuts
    <3>2. ArchivePathFor(e, <<>>) \in Spots
      BY <2>2, <3>1
    <3> QED
      BY <1>2, <3>2, UniqueIs DEF whole
  <2>4. cut \in Spots \ (st.used \cup {whole})
    <3> DEFINE used == st.used \cup {whole}
               p == ArchivePathFor(e, e.cut)
    <3>1. used \in SUBSET Spots /\ IsFiniteSet(used)
      BY <1>2, <2>3, FS_AddElement
    <3>2. p \in Spots
      BY <1>4, <2>2
    <3> HIDE DEF used, p
    <3>3. UniqueArchivePath(p, used) \in Spots \ used
      BY <3>1, <3>2, UniqueIs
    <3> QED
      BY <3>3 DEF cut, used, p
  <2>5. arch \in Spots \ st.used
    BY <2>3, <2>4 DEF arch
  <2> DEFINE used == st.used \cup {whole, arch}
  <2>6. used \in SUBSET Spots /\ IsFiniteSet(used) /\ st.used \subseteq used
    <3>1. IsFiniteSet(st.used \cup {whole})
      BY <1>2, FS_AddElement
    <3>2. IsFiniteSet((st.used \cup {whole}) \cup {arch})
      BY <3>1, FS_AddElement
    <3>3. used = (st.used \cup {whole}) \cup {arch}
      OBVIOUS
    <3> QED
      BY <1>2, <2>3, <2>5, <3>2, <3>3
  <2>8. placed \in Entries /\ Filed(e, placed) /\ placed.whole = whole /\ placed.arch = arch
    <3>1. whole \in Spots /\ arch \in Spots
      BY <2>3, <2>5
    <3> DEFINE mid == [e EXCEPT !.whole = whole]
    <3>2. mid \in Entries /\ Filed(e, mid) /\ mid.whole = whole /\ mid.left = e.left
      BY <3>1, WholeIs
    <3>3. placed = [mid EXCEPT !.arch = arch]
      OBVIOUS
    <3> HIDE DEF mid, placed
    <3>4. /\ [mid EXCEPT !.arch = arch] \in Entries /\ Filed(mid, [mid EXCEPT !.arch = arch])
          /\ [mid EXCEPT !.arch = arch].arch = arch /\ [mid EXCEPT !.arch = arch].whole = mid.whole
      BY <3>1, <3>2, ArchIs
    <3> QED
      BY <3>2, <3>3, <3>4 DEF Filed
  <2> HIDE DEF placed
  <2>10. PlacesOf(placed) \subseteq used \ st.used
    BY <2>3, <2>5, <2>8 DEF PlacesOf
  <2>11. new = [used |-> used, out |-> Append(st.out, placed)]
    BY <2>1
  <2> HIDE DEF used
  <2>12. Reserves(st, used, placed)
    BY <2>6, <2>10 DEF Reserves
  <2> QED
    BY <2>8, <2>11, <2>12, Reserved DEF new
<1> QED
  BY <1>6, <1>7, <1>8 DEF new

\* AssignArchivePaths goes through the entries once.
Assigns(s, f) ==
  /\ f[0] = [used |-> {}, out |-> <<>>]
  /\ \A k \in 1..Len(s) : f[k] = Assign(f[k - 1], s[k])
  /\ FoldLeft(Assign, [used |-> {}, out |-> <<>>], s) = f[Len(s)]

LEMMA AssignSteps ==
  ASSUME NEW s \in Seq(Entries)
  PROVE  \E f : Assigns(s, f)
<1> DEFINE n == Len(s)
           A == Assigning
           step == [q \in (1..n) \X A |-> Assign(q[2], s[q[1]])]
           Eq(it) == it = [t \in SUBSET (1..n) |->
                            IF t = {} THEN [used |-> {}, out |-> <<>>] ELSE Assign(it[t \ {Max(t)}], s[Max(t)])]
           it == CHOOSE i : Eq(i)
           f == [k \in 0..n |-> it[1..k]]
<1>0. n \in Nat /\ s \in [1..n -> Entries]
  BY LenProperties
<1> HIDE DEF n
<1>1. PICK i : Folding(n, [used |-> {}, out |-> <<>>], step, i) /\ \A t \in SUBSET (1..n) : i[t] \in A
  <2>1. \A k \in 1..n : \A x \in A : step[<<k, x>>] = Assign(x, s[k]) /\ Assign(x, s[k]) \in A
    BY <1>0, AssignIs DEF Assigned
  <2>2. [used |-> {}, out |-> <<>>] \in A
    BY EmptySeq, FS_EmptySet DEF Assigning
  <2> HIDE DEF A, step
  <2> QED
    BY <1>0, <2>1, <2>2, FoldingExists
<1>2. Eq(i)
  <2>1. ASSUME NEW t \in SUBSET (1..n), t # {}
        PROVE  step[<<Max(t), i[t \ {Max(t)}]>>] = Assign(i[t \ {Max(t)}], s[Max(t)])
    <3>1. Max(t) \in 1..n /\ t \ {Max(t)} \in SUBSET (1..n)
      BY <1>0, <2>1, MaxIn
    <3> QED
      BY <1>1, <3>1
  <2>2. i = [t \in SUBSET (1..n) |-> IF t = {} THEN [used |-> {}, out |-> <<>>] ELSE step[<<Max(t), i[t \ {Max(t)}]>>]]
    BY <1>1 DEF Folding
  <2> HIDE DEF step
  <2> QED
    BY <2>1, <2>2
<1>3. Eq(it)
  <2> HIDE DEF Eq
  <2> QED
    BY <1>2
<1>4. FoldLeft(Assign, [used |-> {}, out |-> <<>>], s) = it[1..n]
  <2>1. DOMAIN s = 1..n
    BY <1>0
  <2> QED
    BY <2>1 DEF FoldLeft, MapThenFoldSet
<1> HIDE DEF it
<1>5. \A t \in SUBSET (1..n) :
        it[t] = IF t = {} THEN [used |-> {}, out |-> <<>>] ELSE Assign(it[t \ {Max(t)}], s[Max(t)])
  BY <1>3
<1>6. f[0] = it[1..0] /\ f[n] = it[1..n] /\ \A k \in 1..n : f[k] = it[1..k] /\ f[k - 1] = it[1..(k - 1)]
  BY <1>0
<1> HIDE DEF f
<1>7. f[0] = [used |-> {}, out |-> <<>>]
  BY <1>0, <1>5, <1>6, UpTo
<1>8. ASSUME NEW k \in 1..n
      PROVE  f[k] = Assign(f[k - 1], s[k])
  <2>1. 1..k \in SUBSET (1..n) /\ 1..k # {} /\ Max(1..k) = k /\ (1..k) \ {k} = 1..(k - 1)
    BY <1>0, UpTo
  <2>2. it[1..k] = Assign(it[1..(k - 1)], s[k])
    BY <1>5, <2>1
  <2> QED
    BY <1>6, <2>2
<1> QED
  BY <1>4, <1>6, <1>7, <1>8 DEF n, Assigns

\* No two entries share a place.
LEMMA AssignedAre ==
  ASSUME NEW s \in Seq(Entries)
  PROVE  LET out == AssignArchivePaths(s)
         IN  /\ out \in Seq(Entries) /\ Len(out) = Len(s)
             /\ \A i \in 1..Len(s) : Filed(s[i], out[i])
             /\ \A i, j \in 1..Len(s) : i # j => PlacesOf(out[i]) \cap PlacesOf(out[j]) = {}
<1> DEFINE n == Len(s)
<1>1. n \in Nat /\ s \in [1..n -> Entries]
  BY LenProperties
<1>2. PICK f : Assigns(s, f)
  BY AssignSteps
<1>3. /\ f[0] = [used |-> {}, out |-> <<>>]
      /\ \A k \in 1..n : f[k] = Assign(f[k - 1], s[k])
      /\ AssignArchivePaths(s) = f[n].out
  BY <1>2 DEF Assigns, AssignArchivePaths
<1> DEFINE Apart(st, k) ==
             /\ \A i \in 1..k : Filed(s[i], st.out[i]) /\ PlacesOf(st.out[i]) \subseteq st.used
             /\ \A i, j \in 1..k : i # j => PlacesOf(st.out[i]) \cap PlacesOf(st.out[j]) = {}
           Done(k) == f[k] \in Assigning /\ Len(f[k].out) = k /\ Apart(f[k], k)
           I == {k \in Nat : k <= n => Done(k)}
<1> HIDE DEF n
<1>4. 0 \in I
  <2>1. f[0].used = {} /\ f[0].out = <<>>
    BY <1>3
  <2>2. f[0] \in Assigning /\ Len(f[0].out) = 0
    BY <1>3, <2>1, EmptySeq, FS_EmptySet DEF Assigning
  <2>3. \A i \in 1..0 : FALSE
    OBVIOUS
  <2> QED
    BY <2>2, <2>3
<1>5. ASSUME NEW k \in Nat, k \in I
      PROVE  k + 1 \in I
  <2>0. (k + 1 <= n => Done(k + 1)) => k + 1 \in I
    <3> HIDE DEF Done
    <3> QED
      OBVIOUS
  <2> SUFFICES ASSUME k + 1 <= n
               PROVE  Done(k + 1)
    BY <2>0
  <2>1. Done(k)
    <3> HIDE DEF Done
    <3> QED
      BY <1>1, <1>5
  <2> DEFINE st == f[k]
             e == s[k + 1]
             new == f[k + 1]
  <2>2. new = Assign(st, e) /\ e \in Entries
    <3>1. k + 1 \in 1..n /\ (k + 1) - 1 = k
      BY <1>1
    <3> QED
      BY <1>1, <1>3, <3>1
  <2>3. st \in Assigning /\ Len(st.out) = k /\ Apart(st, k)
    <3> HIDE DEF Apart
    <3> QED
      BY <2>1
  <2> HIDE DEF st, new
  <2>4. Assigned(st, e, new)
    <3> HIDE DEF e, Apart
    <3> QED
      BY <2>2, <2>3, AssignIs
  <2>5. /\ new \in Assigning /\ Len(new.out) = k + 1
        /\ \A i \in 1..k : new.out[i] = st.out[i]
        /\ st.used \subseteq new.used
        /\ Filed(e, new.out[k + 1]) /\ PlacesOf(new.out[k + 1]) \subseteq new.used \ st.used
    <3> HIDE DEF e, Apart
    <3> QED
      BY <2>3, <2>4 DEF Assigned
  <2>6. /\ \A i \in 1..(k + 1) : i \in 1..k \/ i = k + 1
        /\ k + 1 \in 1..(k + 1)
    OBVIOUS
  <2>7. \A i \in 1..k : /\ Filed(s[i], new.out[i])
                        /\ PlacesOf(new.out[i]) \subseteq st.used
    BY <2>3, <2>5
  <2>8. \A i \in 1..(k + 1) : Filed(s[i], new.out[i]) /\ PlacesOf(new.out[i]) \subseteq new.used
    BY <2>5, <2>6, <2>7
  <2>9. \A i, j \in 1..(k + 1) : i # j => PlacesOf(new.out[i]) \cap PlacesOf(new.out[j]) = {}
    <3>1. \A i, j \in 1..k : i # j => PlacesOf(new.out[i]) \cap PlacesOf(new.out[j]) = {}
      BY <2>3, <2>5
    <3>2. \A i \in 1..k : PlacesOf(new.out[i]) \cap PlacesOf(new.out[k + 1]) = {}
      BY <2>5, <2>7
    <3> QED
      BY <2>6, <3>1, <3>2
  <2> QED
    BY <2>5, <2>8, <2>9 DEF new
<1> HIDE DEF I
<1>6. Done(n)
  <2>1. n \in I
    BY <1>1, <1>4, <1>5, SetInduction
  <2> HIDE DEF Done
  <2> QED
    BY <1>1, <2>1 DEF I
<1>7. f[n].out \in Seq(Entries)
  BY <1>6 DEF Assigning
<1> QED
  BY <1>3, <1>6, <1>7 DEF n

(***************************************************************************)
(* Part 26: the directories of the servers.                                *)
(***************************************************************************)
Servers == [id : STRING, name : Seq(STRING), addr : Seq(STRING)]

NameMaps == UNION {[D -> Seq(STRING)] : D \in SUBSET STRING}

\* The name of a server before it is looked up among those given, and the name it gets.
FirstName(servers, s) ==
  IF (\E t \in ToSet(servers) : t.id # s.id /\ t.name = s.name) /\ s.addr # <<>>
  THEN s.name \o s.addr ELSE s.name

NewName(servers, st, s) ==
  IF FirstName(servers, s) \in Range(st) THEN FirstName(servers, s) \o <<s.id>> ELSE FirstName(servers, s)

Named(servers, st, s) ==
  [d \in DOMAIN st \cup {s.id} |-> IF d = s.id THEN NewName(servers, st, s) ELSE st[d]]

ConcatIs(T, x, y) ==
  /\ x \o y \in Seq(T) /\ Len(x \o y) = Len(x) + Len(y)
  /\ \A q \in 1..Len(x \o y) : (x \o y)[q] = IF q <= Len(x) THEN x[q] ELSE y[q - Len(x)]

LEMMA ConcatOf ==
  ASSUME NEW T, NEW x \in Seq(T), NEW y \in Seq(T)
  PROVE  ConcatIs(T, x, y)
BY ConcatProperties DEF ConcatIs

LEMMA NewNameIs ==
  ASSUME NEW servers, NEW st, NEW s \in Servers
  PROVE  /\ FirstName(servers, s) \in Seq(STRING)
         /\ \A q \in 1..Len(FirstName(servers, s)) :
              FirstName(servers, s)[q] \in Range(s.name) \cup Range(s.addr)
         /\ NewName(servers, st, s) \in Seq(STRING)
         /\ \/ NewName(servers, st, s) = FirstName(servers, s) /\ FirstName(servers, s) \notin Range(st)
            \/ /\ Len(NewName(servers, st, s)) > 0
               /\ NewName(servers, st, s)[Len(NewName(servers, st, s))] = s.id
<1> DEFINE first == FirstName(servers, s)
           tail == first \o <<s.id>>
<1>1. s.name \in Seq(STRING) /\ s.addr \in Seq(STRING) /\ s.id \in STRING
  BY DEF Servers
<1>2. /\ Len(s.name) \in Nat /\ DOMAIN s.name = 1..Len(s.name)
      /\ Len(s.addr) \in Nat /\ DOMAIN s.addr = 1..Len(s.addr)
  BY <1>1, LenProperties
<1>3. /\ s.name \o s.addr \in Seq(STRING)
      /\ Len(s.name \o s.addr) = Len(s.name) + Len(s.addr)
      /\ \A q \in 1..Len(s.name \o s.addr) :
           (s.name \o s.addr)[q] = IF q <= Len(s.name) THEN s.name[q] ELSE s.addr[q - Len(s.name)]
  <2> DEFINE x == s.name
             y == s.addr
  <2>1. x \in Seq(STRING) /\ y \in Seq(STRING)
    BY <1>1
  <2> HIDE DEF x, y
  <2>2. ConcatIs(STRING, x, y)
    BY <2>1, ConcatOf
  <2> QED
    BY <2>2 DEF ConcatIs, x, y
<1>4. first = s.name \/ first = s.name \o s.addr
  BY DEF FirstName
<1>5. first \in Seq(STRING) /\ \A q \in 1..Len(first) : first[q] \in Range(s.name) \cup Range(s.addr)
  <2>1. /\ \A q \in 1..Len(s.name) : s.name[q] \in Range(s.name)
        /\ \A q \in 1..Len(s.addr) : s.addr[q] \in Range(s.addr)
    BY <1>2 DEF Range
  <2>2. ASSUME NEW q \in 1..Len(s.name \o s.addr)
        PROVE  (s.name \o s.addr)[q] \in Range(s.name) \cup Range(s.addr)
    <3>1. CASE q <= Len(s.name)
      BY <1>2, <1>3, <2>1, <3>1
    <3>2. CASE ~(q <= Len(s.name))
      <4>1. q - Len(s.name) \in 1..Len(s.addr)
        <5> DEFINE a == Len(s.name)
                   b == Len(s.addr)
        <5>1. a \in Nat /\ b \in Nat /\ q \in 1..(a + b) /\ ~(q <= a)
          BY <1>2, <1>3, <3>2
        <5> HIDE DEF a, b
        <5>2. q - a \in 1..b
          BY <5>1
        <5> QED
          BY <5>2 DEF a, b
      <4> QED
        BY <1>3, <2>1, <3>2, <4>1
    <3> QED
      BY <3>1, <3>2
  <2> HIDE DEF first
  <2> QED
    BY <1>1, <1>3, <1>4, <2>1, <2>2
<1> HIDE DEF first
<1>6. tail \in Seq(STRING) /\ Len(tail) = Len(first) + 1 /\ tail[Len(first) + 1] = s.id /\ Len(first) \in Nat
  <2>1. <<s.id>> \in Seq(STRING) /\ Len(<<s.id>>) = 1 /\ <<s.id>>[1] = s.id
    BY <1>1
  <2> DEFINE one == <<s.id>>
  <2> HIDE DEF one
  <2>2. first \in Seq(STRING) /\ one \in Seq(STRING) /\ Len(one) = 1 /\ one[1] = s.id
    BY <1>5, <2>1 DEF one
  <2>3. /\ first \o one \in Seq(STRING) /\ Len(first \o one) = Len(first) + 1
        /\ \A q \in 1..Len(first \o one) :
             (first \o one)[q] = IF q <= Len(first) THEN first[q] ELSE one[q - Len(first)]
    <3> HIDE DEF tail
    <3>1. ConcatIs(STRING, first, one)
      BY <2>2, ConcatOf
    <3> QED
      BY <2>2, <3>1 DEF ConcatIs
  <2>4. Len(first) \in Nat
    BY <1>5, LenProperties
  <2>5. (first \o one)[Len(first) + 1] = one[1]
    <3>1. Len(first) + 1 \in 1..Len(first \o one) /\ ~(Len(first) + 1 <= Len(first))
          /\ Len(first) + 1 - Len(first) = 1
      BY <2>3, <2>4
    <3> QED
      BY <2>3, <3>1
  <2> QED
    BY <2>2, <2>3, <2>4, <2>5 DEF one
<1> HIDE DEF tail
<1>7. NewName(servers, st, s) = IF first \in Range(st) THEN tail ELSE first
  BY DEF NewName, first, tail
<1> QED
  BY <1>5, <1>6, <1>7 DEF first

LEMMA NamedIs ==
  ASSUME NEW servers, NEW st \in NameMaps, NEW s \in Servers
  PROVE  Named(servers, st, s) \in NameMaps
<1> DEFINE name == NewName(servers, st, s)
<1>1. name \in Seq(STRING)
  BY NewNameIs
<1> HIDE DEF name
<1>2. PICK D \in SUBSET STRING : st \in [D -> Seq(STRING)]
  BY DEF NameMaps
<1>3. s.id \in STRING
  BY DEF Servers
<1>4. Named(servers, st, s) = [d \in D \cup {s.id} |-> IF d = s.id THEN name ELSE st[d]]
  BY <1>2 DEF Named, name
<1>5. Named(servers, st, s) \in [D \cup {s.id} -> Seq(STRING)]
  BY <1>1, <1>2, <1>4
<1>6. D \cup {s.id} \in SUBSET STRING
  BY <1>2, <1>3
<1> QED
  BY <1>5, <1>6 DEF NameMaps

\* ServerDirNames goes through the servers once.
Names(servers, f) ==
  /\ f[0] = <<>>
  /\ \A k \in 1..Len(servers) : f[k] = Named(servers, f[k - 1], servers[k])
  /\ ServerDirNames(servers) = f[Len(servers)]

LEMMA NameSteps ==
  ASSUME NEW servers \in Seq(Servers)
  PROVE  \E f : Names(servers, f)
<1> DEFINE n == Len(servers)
           A == NameMaps
           step == [q \in (1..n) \X A |-> Named(servers, q[2], servers[q[1]])]
           Eq(it) == it = [t \in SUBSET (1..n) |->
                            IF t = {} THEN <<>> ELSE Named(servers, it[t \ {Max(t)}], servers[Max(t)])]
           it == CHOOSE i : Eq(i)
           f == [k \in 0..n |-> it[1..k]]
<1>0. n \in Nat /\ servers \in [1..n -> Servers]
  BY LenProperties
<1> HIDE DEF n
<1>1. PICK i : Folding(n, <<>>, step, i) /\ \A t \in SUBSET (1..n) : i[t] \in A
  <2>1. \A k \in 1..n : \A x \in A : step[<<k, x>>] = Named(servers, x, servers[k]) /\ Named(servers, x, servers[k]) \in A
    BY <1>0, NamedIs
  <2>2. <<>> \in A
    <3>1. <<>> \in [{} -> Seq(STRING)] /\ {} \in SUBSET STRING
      OBVIOUS
    <3> QED
      BY <3>1 DEF NameMaps
  <2> HIDE DEF A, step
  <2> QED
    BY <1>0, <2>1, <2>2, FoldingExists
<1>2. Eq(i)
  <2>1. ASSUME NEW t \in SUBSET (1..n), t # {}
        PROVE  step[<<Max(t), i[t \ {Max(t)}]>>] = Named(servers, i[t \ {Max(t)}], servers[Max(t)])
    <3>1. Max(t) \in 1..n /\ t \ {Max(t)} \in SUBSET (1..n)
      BY <1>0, <2>1, MaxIn
    <3> QED
      BY <1>1, <3>1
  <2>2. i = [t \in SUBSET (1..n) |-> IF t = {} THEN <<>> ELSE step[<<Max(t), i[t \ {Max(t)}]>>]]
    BY <1>1 DEF Folding
  <2> HIDE DEF step
  <2> QED
    BY <2>1, <2>2
<1>3. Eq(it)
  <2> HIDE DEF Eq
  <2> QED
    BY <1>2
<1>4. ServerDirNames(servers) = it[1..n]
  <2>1. DOMAIN servers = 1..n
    BY <1>0
  <2> QED
    BY <2>1 DEF ServerDirNames, Named, NewName, FirstName, FoldLeft, MapThenFoldSet
<1> HIDE DEF it
<1>5. \A t \in SUBSET (1..n) :
        it[t] = IF t = {} THEN <<>> ELSE Named(servers, it[t \ {Max(t)}], servers[Max(t)])
  BY <1>3
<1>6. f[0] = it[1..0] /\ f[n] = it[1..n] /\ \A k \in 1..n : f[k] = it[1..k] /\ f[k - 1] = it[1..(k - 1)]
  BY <1>0
<1> HIDE DEF f
<1>7. f[0] = <<>>
  BY <1>0, <1>5, <1>6, UpTo
<1>8. ASSUME NEW k \in 1..n
      PROVE  f[k] = Named(servers, f[k - 1], servers[k])
  <2>1. 1..k \in SUBSET (1..n) /\ 1..k # {} /\ Max(1..k) = k /\ (1..k) \ {k} = 1..(k - 1)
    BY <1>0, UpTo
  <2>2. it[1..k] = Named(servers, it[1..(k - 1)], servers[k])
    BY <1>5, <2>1
  <2> QED
    BY <1>6, <2>2
<1> QED
  BY <1>4, <1>6, <1>7, <1>8 DEF n, Names

\* No two servers share a directory.
LEMMA NamesApart ==
  ASSUME NEW servers \in Seq(Servers),
         \A i, j \in DOMAIN servers :
           /\ servers[i].id = servers[j].id => i = j
           /\ servers[i].id \notin Range(servers[j].name) \cup Range(servers[j].addr)
  PROVE  IsInjective(ServerDirNames(servers))
<1> DEFINE n == Len(servers)
<1>1. n \in Nat /\ servers \in [1..n -> Servers] /\ DOMAIN servers = 1..n
  BY LenProperties
<1>2. PICK f : Names(servers, f)
  BY NameSteps
<1>3. /\ f[0] = <<>>
      /\ \A k \in 1..n : f[k] = Named(servers, f[k - 1], servers[k])
      /\ ServerDirNames(servers) = f[n]
  BY <1>2 DEF Names
<1> DEFINE id(i) == servers[i].id
           Tells(i, v) == \/ \A q \in 1..Len(v) : \A j \in 1..n : v[q] # id(j)
                          \/ Len(v) > 0 /\ v[Len(v)] = id(i)
           Apart(st, k) == /\ st \in NameMaps
                           /\ DOMAIN st = {id(i) : i \in 1..k}
                           /\ \A i \in 1..k : Tells(i, st[id(i)])
                           /\ IsInjective(st)
           I == {k \in Nat : k <= n => Apart(f[k], k)}
<1> HIDE DEF n
<1>4. \A i, j \in 1..n : /\ id(i) = id(j) => i = j
                         /\ id(i) \notin Range(servers[j].name) \cup Range(servers[j].addr)
  BY <1>1
<1>5. 0 \in I
  <2>1. <<>> \in [{} -> Seq(STRING)] /\ {} \in SUBSET STRING /\ DOMAIN <<>> = {}
    OBVIOUS
  <2>2. <<>> \in NameMaps
    BY <2>1 DEF NameMaps
  <2>3. {id(i) : i \in 1..0} = {}
    OBVIOUS
  <2>4. IsInjective(<<>>)
    BY <2>1 DEF IsInjective
  <2>5. \A i \in 1..0 : Tells(i, f[0][id(i)])
    OBVIOUS
  <2>6. Apart(f[0], 0)
    <3> HIDE DEF Tells
    <3> QED
      BY <1>3, <2>1, <2>2, <2>3, <2>4, <2>5
  <2> HIDE DEF Apart
  <2> QED
    BY <2>6
<1>6. ASSUME NEW k \in Nat, k \in I
      PROVE  k + 1 \in I
  <2>0. (k + 1 <= n => Apart(f[k + 1], k + 1)) => k + 1 \in I
    <3> HIDE DEF Apart
    <3> QED
      OBVIOUS
  <2> SUFFICES ASSUME k + 1 <= n
               PROVE  Apart(f[k + 1], k + 1)
    BY <2>0
  <2>1. Apart(f[k], k)
    <3> HIDE DEF Apart
    <3> QED
      BY <1>1, <1>6
  <2> DEFINE st == f[k]
             s == servers[k + 1]
             new == f[k + 1]
             name == NewName(servers, st, s)
             first == FirstName(servers, s)
  <2>2. new = Named(servers, st, s) /\ s \in Servers /\ k + 1 \in 1..n
    <3>1. k + 1 \in 1..n /\ (k + 1) - 1 = k
      BY <1>1
    <3> QED
      BY <1>1, <1>3, <3>1
  <2>3. st \in NameMaps /\ DOMAIN st = {id(i) : i \in 1..k} /\ IsInjective(st)
        /\ \A i \in 1..k : Tells(i, st[id(i)])
    <3> HIDE DEF Tells
    <3> QED
      BY <2>1
  <2> HIDE DEF st, new
  <2>4. new = [d \in DOMAIN st \cup {id(k + 1)} |-> IF d = id(k + 1) THEN name ELSE st[d]]
    BY <2>2 DEF Named
  <2>5. new \in NameMaps
    <3> HIDE DEF s
    <3> QED
      BY <2>2, <2>3, NamedIs
  <2>6. /\ first \in Seq(STRING)
        /\ \A q \in 1..Len(first) : first[q] \in Range(s.name) \cup Range(s.addr)
        /\ \/ name = first /\ first \notin Range(st)
           \/ Len(name) > 0 /\ name[Len(name)] = s.id
    <3> HIDE DEF s
    <3> QED
      BY <2>2, NewNameIs
  <2>7. s.id = id(k + 1)
    OBVIOUS
  <2>8. Tells(k + 1, name)
    <3>1. \A q \in 1..Len(first) : \A j \in 1..n : first[q] # id(j)
      BY <1>4, <2>2, <2>6
    <3> HIDE DEF first, name, s, id
    <3> QED
      BY <2>6, <2>7, <3>1
  <2>9. \A i \in 1..k : i \in 1..n /\ id(i) # id(k + 1) /\ id(i) \in DOMAIN st
    <3>1. \A i \in 1..k : i \in 1..n /\ i # k + 1
      BY <1>1
    <3> HIDE DEF id
    <3> QED
      BY <1>4, <2>2, <2>3, <3>1
  <2>10. name \notin Range(st)
    <3> SUFFICES ASSUME name \in Range(st)
                 PROVE  FALSE
      OBVIOUS
    <3> HIDE DEF s, name, first, id
    <3>1. Len(name) > 0 /\ name[Len(name)] = id(k + 1)
      BY <2>6, <2>7
    <3>2. PICK i \in 1..k : name = st[id(i)]
      BY <2>3 DEF Range
    <3>3. Tells(i, name)
      BY <2>3, <3>2
    <3>4. Len(name) \in 1..Len(name)
      <4>1. name \in Seq(STRING)
        BY <2>2, NewNameIs DEF name
      <4>2. Len(name) \in Nat
        BY <4>1, LenProperties
      <4> QED
        BY <3>1, <4>2
    <3> QED
      BY <2>2, <2>9, <3>1, <3>3, <3>4
  <2> HIDE DEF name, first, s, Tells
  <2>11. /\ \A i \in 1..(k + 1) : i \in 1..k \/ i = k + 1
         /\ k + 1 \in 1..(k + 1) /\ \A i \in 1..k : i \in 1..(k + 1)
    OBVIOUS
  <2>12. DOMAIN new = {id(i) : i \in 1..(k + 1)}
    <3>1. DOMAIN new = {id(i) : i \in 1..k} \cup {id(k + 1)}
      BY <2>3, <2>4
    <3> HIDE DEF id
    <3> QED
      BY <2>11, <3>1
  <2>13. new[id(k + 1)] = name /\ \A d \in DOMAIN st : d # id(k + 1) => new[d] = st[d]
    BY <2>4
  <2>14. \A i \in 1..(k + 1) : Tells(i, new[id(i)])
    <3> HIDE DEF id
    <3> QED
      BY <2>3, <2>8, <2>9, <2>11, <2>13
  <2>15. IsInjective(new)
    <3>1. \A d \in DOMAIN new : (d \in DOMAIN st /\ d # id(k + 1)) \/ d = id(k + 1)
      BY <2>4
    <3>2. \A d \in DOMAIN st : d # id(k + 1) => new[d] \in Range(st)
      BY <2>13 DEF Range
    <3>3. \A c, d \in DOMAIN st : st[c] = st[d] => c = d
      BY <2>3 DEF IsInjective
    <3> HIDE DEF id
    <3>4. \A c, d \in DOMAIN new : new[c] = new[d] => c = d
      BY <2>10, <2>13, <3>1, <3>2, <3>3
    <3> QED
      BY <3>4 DEF IsInjective
  <2> HIDE DEF id
  <2> QED
    BY <2>5, <2>12, <2>14, <2>15 DEF new
<1> HIDE DEF I
<1>7. Apart(f[n], n)
  <2>1. n \in I
    BY <1>1, <1>5, <1>6, SetInduction
  <2> HIDE DEF Apart
  <2> QED
    BY <1>1, <2>1 DEF I
<1> QED
  BY <1>3, <1>7

(***************************************************************************)
(* Part 27: the plan of a collection.                                      *)
(***************************************************************************)
\* Of n entries, one claim has each file that is claimed, the others name a claim on it, and no
\* two share a place.
Finished(es, n) ==
  /\ \A i \in 1..n : ~es[i].cmd /\ es[i].src # "" =>
       \E j \in 1..n : \A q \in 1..n :
         (~es[q].cmd /\ es[q].src = es[i].src /\ es[q].dup = <<>>) <=> q = j
  /\ \A i \in 1..n : ~es[i].cmd /\ es[i].src # "" /\ es[i].dup # <<>> =>
       \E j \in 1..n : ~es[j].cmd /\ es[j].src = es[i].src /\ <<es[j].cat, es[j].mod>> = es[i].dup
  /\ \A i, j \in 1..n : i # j => PlacesOf(es[i]) \cap PlacesOf(es[j]) = {}

\* Every entry of all is among es, with a place unless its name cannot be kept.
Kept(all, es) ==
  \A e : Contains(all, e) =>
    \E x : /\ Contains(es, x) /\ x.cat = e.cat /\ x.mod = e.mod /\ x.src = e.src
           /\ x.left => e.left \/ e.name = <<>>

LEMMA FinishedAre ==
  ASSUME NEW all \in Seq(NewEntries), NEW specific, NEW es,
         es = AssignArchivePaths(DedupeEntries(all, specific))
  PROVE  es \in Seq(Entries) /\ Kept(all, es) /\ Finished(es, Len(es))
<1> DEFINE us == DedupeEntries(all, specific)
           n == Len(all)
<1>1. /\ us \in Seq(Entries) /\ Len(us) = n /\ Deduped(us, n)
      /\ \A i \in 1..n : Stays(all[i], us[i])
  BY DedupedAre
<1> HIDE DEF us
<1>2. /\ es \in Seq(Entries) /\ Len(es) = n
      /\ \A i \in 1..n : Filed(us[i], es[i])
      /\ \A i, j \in 1..n : i # j => PlacesOf(es[i]) \cap PlacesOf(es[j]) = {}
  BY <1>1, AssignedAre DEF us
<1>3. \A i \in 1..n : all[i] \in NewEntries /\ (all[i].left => all[i].src = "")
  <2>1. \A i \in 1..n : all[i] \in NewEntries
    BY ElementOfSeq
  <2> QED
    BY <2>1 DEF NewEntries
<1> HIDE DEF n
<1>4. \A i \in 1..n : /\ us[i].cat = all[i].cat /\ us[i].mod = all[i].mod /\ us[i].left = all[i].left
                      /\ us[i].src = all[i].src /\ us[i].name = all[i].name
  BY <1>1 DEF Stays
<1>5. \A i \in 1..n : /\ es[i].cat = us[i].cat /\ es[i].mod = us[i].mod /\ es[i].cmd = us[i].cmd
                      /\ es[i].src = us[i].src /\ es[i].dup = us[i].dup
                      /\ es[i].left => us[i].left \/ us[i].name = <<>>
  BY <1>2 DEF Filed
<1>6. ASSUME NEW e, Contains(all, e)
      PROVE  \E x : /\ Contains(es, x) /\ x.cat = e.cat /\ x.mod = e.mod /\ x.src = e.src
                    /\ x.left => e.left \/ e.name = <<>>
  <2>1. PICK i \in 1..n : all[i] = e
    BY <1>6 DEF Contains, n
  <2>2. Contains(es, es[i])
    BY <1>2 DEF Contains
  <2>3. /\ es[i].cat = e.cat /\ es[i].mod = e.mod /\ es[i].src = e.src
        /\ es[i].left => e.left \/ e.name = <<>>
    BY <1>4, <1>5, <2>1
  <2> QED
    BY <2>2, <2>3
<1>7. \A i \in 1..n : us[i].src # "" => ~us[i].left
  BY <1>3, <1>4
<1>8. \A s : s # "" => \A q \in 1..n :
        (~es[q].cmd /\ es[q].src = s /\ es[q].dup = <<>>) <=> Takes(us, q, s)
  BY <1>5, <1>7 DEF Takes, Claims
<1>9. ASSUME NEW i \in 1..n, ~es[i].cmd, es[i].src # ""
      PROVE  /\ \E j \in 1..n : \A q \in 1..n :
                  (~es[q].cmd /\ es[q].src = es[i].src /\ es[q].dup = <<>>) <=> q = j
             /\ es[i].dup # <<>> => \E j \in 1..n :
                  ~es[j].cmd /\ es[j].src = es[i].src /\ <<es[j].cat, es[j].mod>> = es[i].dup
  <2>1. Claims(us[i]) /\ us[i].src = es[i].src
    BY <1>5, <1>7, <1>9 DEF Claims
  <2>2. PICK j \in 1..n : \A q \in 1..n : Takes(us, q, us[i].src) <=> q = j
    BY <1>1, <2>1 DEF Deduped
  <2>3. \A q \in 1..n : (~es[q].cmd /\ es[q].src = es[i].src /\ es[q].dup = <<>>) <=> q = j
    BY <1>8, <1>9, <2>1, <2>2
  <2>4. ASSUME es[i].dup # <<>>
        PROVE  \E k \in 1..n :
                 ~es[k].cmd /\ es[k].src = es[i].src /\ <<es[k].cat, es[k].mod>> = es[i].dup
    <3>1. us[i].dup # <<>>
      BY <1>5, <2>4
    <3>2. PICK k \in 1..n :
            Claims(us[k]) /\ us[k].src = us[i].src /\ <<us[k].cat, us[k].mod>> = us[i].dup
      BY <1>1, <3>1 DEF Deduped
    <3> QED
      BY <1>5, <2>1, <3>2 DEF Claims
  <2> QED
    BY <2>3, <2>4
<1>10. Kept(all, es)
  BY <1>6 DEF Kept
<1>11. Finished(es, n)
  BY <1>2, <1>9 DEF Finished
<1> QED
  BY <1>2, <1>10, <1>11

LEMMA WindowIs ==
  ASSUME NEW req, req.from \in Int, req.to \in Int, req.recent \in Int, NEW now \in Nat
  PROVE  ClampLogRange(req, now).from \in Int /\ ClampLogRange(req, now).to \in Int
<1>1. Midnight(DayOf(now) - req.recent) \in Int
  <2>1. DayTicks \in Nat \ {0}
    BY CollectRulesAssumption DEF CollectRulesAssumption
  <2>2. DayOf(now) \in Int
    BY <2>1 DEF DayOf
  <2> DEFINE d == DayOf(now) - req.recent
  <2>3. d \in Int
    BY <2>2
  <2> HIDE DEF d
  <2>4. d * DayTicks \in Int
    BY <2>1, <2>3
  <2> QED
    BY <2>4 DEF Midnight, d
<1> HIDE DEF Midnight
<1> QED
  BY <1>1 DEF ClampLogRange

\* The catalogue names no path that is refused.
LEMMA RejectedAre ==
  ASSUME NEW p, ~Described(p)
  PROVE  p.cat \notin DOMAIN Catalog \/ ~(Def(p).cmd \/ PickAllowed(p))
<1> SUFFICES ASSUME p.cat \in DOMAIN Catalog
             PROVE  ~(Def(p).cmd \/ PickAllowed(p))
  OBVIOUS
<1>1. /\ OddPath \notin Catalog[p.cat].globs
      /\ \A m \in DOMAIN Catalog[p.cat].modules : OddPath \notin Catalog[p.cat].modules[m].paths
  BY CollectRulesAssumption DEF CollectRulesAssumption
<1>2. OddPath \notin Def(p).paths
  BY <1>1 DEF Def
<1>3. PickAllowed(p) => p.dir # OddPath
  BY <1>1, <1>2 DEF PickAllowed
<1> QED
  BY <1>3 DEF Described

LEMMA PlanIsRight ==
  ASSUME NEW req, req.picks \in Seq(Picks), req.from \in Int, req.to \in Int, req.recent \in Int,
         NEW now \in Nat, NEW h, Listable(h),
         \A f \in h.files : f.last # ClampLogRange(req, now).from
  PROVE  PlanRight(req, h, LogPlanFor(req, h, now))
<1> DEFINE res == ResolvePicks(req.picks)
           window == ClampLogRange(req, now)
           from == window.from
           to == window.to
           en == Enumerate(res.picks, h, from)
           un == UnlistedPicks(res.picks, en)
           misses == en.misses \o un
           planned == PlanEntries(en.rows, misses, from, to)
           cmds == CmdEntries(res.picks)
           all == planned \o cmds
           es == AssignArchivePaths(DedupeEntries(all, SpecificModules(en.rows)))
           plan == LogPlanFor(req, h, now)
<1>1. plan = IF res.picks = <<>> \/ ~window.ok \/ ~h.answers THEN [ok |-> FALSE]
             ELSE [ok |-> TRUE, from |-> from, to |-> to, rejected |-> res.rejected, entries |-> es]
  BY DEF LogPlanFor
<1> HIDE DEF plan, es
<1> SUFFICES ASSUME plan.ok
             PROVE  PlanRight(req, h, plan)
  BY DEF PlanRight, plan
<1>2. plan.from = from /\ plan.to = to /\ plan.rejected = res.rejected /\ plan.entries = es
  <2> HIDE DEF res, window, from, to
  <2>1. [ok |-> FALSE].ok = FALSE
    OBVIOUS
  <2> QED
    BY <1>1, <2>1
<1>3. from \in Int /\ to \in Int /\ IsFiniteSet(h.files) /\ \A f \in h.files : f.last # from
  BY WindowIs DEF Listable
<1> HIDE DEF window, from, to
<1>4. /\ res.picks \in Seq(Picks) /\ res.rejected \in Seq(Picks)
      /\ \A y : Contains(res.picks, y) <=> Contains(req.picks, y) /\ Described(y)
      /\ \A y : Contains(res.rejected, y) <=> Contains(req.picks, y) /\ ~Described(y)
  BY ResolvedAre DEF Sorting
<1> HIDE DEF res
<1>5. /\ en.rows \in Seq(Rows(h)) /\ en.misses \in Seq(Picks)
      /\ \A p : Contains(res.picks, p) /\ ~Def(p).cmd /\ h.state[p.dir] = "there" =>
           \A f \in h.files : Shows(p, from, f) => Contains(en.rows, Row(p, f))
  <2> DEFINE picks == res.picks
  <2>1. picks \in Seq(Picks)
    BY <1>4
  <2> HIDE DEF picks
  <2>2. /\ Enumerate(picks, h, from).rows \in Seq(Rows(h))
        /\ Enumerate(picks, h, from).misses \in Seq(Picks)
        /\ \A p : Contains(picks, p) /\ ~Def(p).cmd /\ h.state[p.dir] = "there" =>
             \A f \in h.files : Shows(p, from, f) => Contains(Enumerate(picks, h, from).rows, Row(p, f))
    BY <1>3, <2>1, EnumerateRight
  <2> QED
    BY <2>2 DEF picks
<1> HIDE DEF en
<1>6. un \in Seq(Picks) /\ Reasoned(res.picks, en.rows, misses)
  <2> DEFINE picks == res.picks
  <2>1. picks \in Seq(Picks) /\ en.rows \in Seq(Rows(h)) /\ en.misses \in Seq(Picks)
    BY <1>4, <1>5
  <2> HIDE DEF picks
  <2>2. /\ UnlistedPicks(picks, en) \in Seq(Picks)
        /\ Reasoned(picks, en.rows, en.misses \o UnlistedPicks(picks, en))
    BY <2>1, UnlistedAre
  <2> QED
    BY <2>2 DEF picks
<1> HIDE DEF un
<1>7. misses \in Seq(Picks)
  BY <1>5, <1>6, ConcatHas
<1> HIDE DEF misses
<1>8. /\ planned \in Seq(NewEntries)
      /\ \A r : Contains(en.rows, r) \/ Contains(misses, r) =>
           \E e : Contains(planned, e) /\ e.cat = r.cat /\ e.mod = r.mod
      /\ \A r : Contains(en.rows, r) /\ Overlaps(r.file, from, to) =>
           \E e : /\ Contains(planned, e) /\ e.cat = r.cat /\ e.mod = r.mod /\ ~e.left
                  /\ e.src = r.file.path /\ e.name = r.file.name
  <2> DEFINE rows == en.rows
  <2>1. rows \in Seq(Rows(h))
    BY <1>5
  <2> HIDE DEF rows
  <2>2. LET out == PlanEntries(rows, misses, from, to)
        IN  /\ out \in Seq(NewEntries)
            /\ \A r : Contains(rows, r) \/ Contains(misses, r) =>
                 \E e : Contains(out, e) /\ e.cat = r.cat /\ e.mod = r.mod
            /\ \A r : Contains(rows, r) /\ Overlaps(r.file, from, to) =>
                 \E e : /\ Contains(out, e) /\ e.cat = r.cat /\ e.mod = r.mod /\ ~e.left
                        /\ e.src = r.file.path /\ e.name = r.file.name
    BY <1>3, <1>7, <2>1, EntriesRight
  <2> QED
    BY <2>2 DEF rows
<1> HIDE DEF planned
<1>9. /\ cmds \in Seq(NewEntries)
      /\ \A p : Contains(res.picks, p) /\ Def(p).cmd =>
           \E e : Contains(cmds, e) /\ e.cat = p.cat /\ e.mod = p.mod
  BY <1>4, CommandsAre
<1> HIDE DEF cmds
<1>10. all \in Seq(NewEntries) /\ \A e : Contains(all, e) <=> Contains(planned, e) \/ Contains(cmds, e)
  BY <1>8, <1>9, ConcatHas
<1> HIDE DEF all
<1>11. es \in Seq(Entries) /\ Kept(all, es) /\ Finished(es, Len(es))
  <2> DEFINE specific == SpecificModules(en.rows)
  <2>1. es = AssignArchivePaths(DedupeEntries(all, specific))
    BY DEF es
  <2> HIDE DEF specific
  <2> QED
    BY <1>10, <2>1, FinishedAre
<1>12. \A x : x \in ToSet(es) <=> Contains(es, x)
  BY <1>11, Members
<1>13. DOMAIN es = 1..Len(es)
  BY <1>11, LenProperties
<1>14. ASSUME NEW p \in ToSet(req.picks)
       PROVE  IF Contains(plan.rejected, p)
              THEN p.cat \notin DOMAIN Catalog \/ ~(Def(p).cmd \/ PickAllowed(p))
              ELSE /\ EntriesOf(plan, p) # {}
                   /\ ~Def(p).cmd /\ h.state[p.dir] = "there" =>
                        \A f \in h.files : Under(f, p.dir) /\ Overlaps(f, plan.from, plan.to) =>
                          \E e \in EntriesOf(plan, p) : e.src = f.path /\ (e.left => f.name = <<>>)
  <2>1. Contains(req.picks, p)
    BY <1>14, Members
  <2>2. CASE Contains(plan.rejected, p)
    <3>1. ~Described(p)
      BY <1>2, <1>4, <2>2
    <3> QED
      BY <2>2, <3>1, RejectedAre
  <2>3. CASE ~Contains(plan.rejected, p)
    <3>1. Contains(res.picks, p)
      BY <1>2, <1>4, <2>1, <2>3
    <3>2. \A x : Contains(es, x) /\ x.cat = p.cat /\ x.mod = p.mod => x \in EntriesOf(plan, p)
      BY <1>2, <1>12 DEF EntriesOf
    <3>3. \E e : Contains(all, e) /\ e.cat = p.cat /\ e.mod = p.mod
      <4>1. CASE Def(p).cmd
        BY <1>9, <1>10, <3>1, <4>1
      <4>2. CASE ~Def(p).cmd
        <5>1. PICK r : (Contains(en.rows, r) \/ Contains(misses, r)) /\ r.cat = p.cat /\ r.mod = p.mod
          BY <1>6, <3>1, <4>2 DEF Reasoned
        <5>2. PICK e : Contains(planned, e) /\ e.cat = r.cat /\ e.mod = r.mod
          BY <1>8, <5>1
        <5> QED
          BY <1>10, <5>1, <5>2
      <4> QED
        BY <4>1, <4>2
    <3>4. EntriesOf(plan, p) # {}
      <4>1. PICK e : Contains(all, e) /\ e.cat = p.cat /\ e.mod = p.mod
        BY <3>3
      <4>2. PICK x : Contains(es, x) /\ x.cat = e.cat /\ x.mod = e.mod
        BY <1>11, <4>1 DEF Kept
      <4>3. x \in EntriesOf(plan, p)
        BY <3>2, <4>1, <4>2
      <4> QED
        BY <4>3
    <3>5. ASSUME ~Def(p).cmd, h.state[p.dir] = "there", NEW f \in h.files,
                 Under(f, p.dir), Overlaps(f, plan.from, plan.to)
          PROVE  \E e \in EntriesOf(plan, p) : e.src = f.path /\ (e.left => f.name = <<>>)
      <4>1. Shows(p, from, f) /\ Overlaps(f, from, to)
        <5>1. f.last \in Int /\ f.last # from
          BY <1>3 DEF Listable, FileSet
        <5>2. from > 0 => f.last >= from
          BY <1>2, <3>5 DEF Overlaps
        <5> QED
          BY <1>2, <1>3, <3>5, <5>1, <5>2 DEF Shows
      <4> DEFINE r == Row(p, f)
      <4>2. Contains(en.rows, r)
        BY <1>5, <3>1, <3>5, <4>1
      <4>3. r.cat = p.cat /\ r.mod = p.mod /\ r.file = f
        BY DEF Row
      <4> HIDE DEF r
      <4>4. PICK e : /\ Contains(planned, e) /\ e.cat = p.cat /\ e.mod = p.mod /\ ~e.left
                     /\ e.src = f.path /\ e.name = f.name
        BY <1>8, <4>1, <4>2, <4>3
      <4>5. PICK x : /\ Contains(es, x) /\ x.cat = e.cat /\ x.mod = e.mod /\ x.src = e.src
                     /\ x.left => e.left \/ e.name = <<>>
        BY <1>10, <1>11, <4>4 DEF Kept
      <4>6. x \in EntriesOf(plan, p)
        BY <3>2, <4>4, <4>5
      <4> QED
        BY <4>4, <4>5, <4>6
    <3> QED
      BY <2>3, <3>4, <3>5
  <2> QED
    BY <2>2, <2>3
<1>15. ASSUME NEW e \in ToSet(plan.entries), ~e.cmd, e.src # ""
       PROVE  /\ \E i \in DOMAIN plan.entries : Takers(plan, e) = {i}
              /\ e.dup # <<>> => \E s \in ToSet(plan.entries) :
                   ~s.cmd /\ s.src = e.src /\ <<s.cat, s.mod>> = e.dup
  <2>1. PICK i \in 1..Len(es) : es[i] = e
    BY <1>2, <1>12, <1>15 DEF Contains
  <2>2. PICK j \in 1..Len(es) : \A q \in 1..Len(es) :
          (~es[q].cmd /\ es[q].src = e.src /\ es[q].dup = <<>>) <=> q = j
    <3>1. \E j \in 1..Len(es) : \A q \in 1..Len(es) :
            (~es[q].cmd /\ es[q].src = es[i].src /\ es[q].dup = <<>>) <=> q = j
      BY <1>11, <1>15, <2>1 DEF Finished
    <3> QED
      BY <2>1, <3>1
  <2>3. Takers(plan, e) = {j}
    <3>1. \A q : q \in Takers(plan, e) <=> q \in 1..Len(es) /\ q = j
      BY <1>2, <1>13, <2>2 DEF Takers
    <3> QED
      BY <3>1
  <2>4. ASSUME e.dup # <<>>
        PROVE  \E s \in ToSet(plan.entries) : ~s.cmd /\ s.src = e.src /\ <<s.cat, s.mod>> = e.dup
    <3>1. PICK k \in 1..Len(es) :
            ~es[k].cmd /\ es[k].src = e.src /\ <<es[k].cat, es[k].mod>> = e.dup
      BY <1>11, <1>15, <2>1, <2>4 DEF Finished
    <3>2. es[k] \in ToSet(es)
      BY <1>12 DEF Contains
    <3> QED
      BY <1>2, <3>1, <3>2
  <2> QED
    BY <1>2, <1>13, <2>3, <2>4
<1>16. ASSUME NEW i \in DOMAIN plan.entries, NEW j \in DOMAIN plan.entries, i # j
       PROVE  LET Places(e) == IF e.left \/ e.dup # <<>> THEN {} ELSE {e.whole, e.arch}
              IN Places(plan.entries[i]) \cap Places(plan.entries[j]) = {}
  <2>1. PlacesOf(es[i]) \cap PlacesOf(es[j]) = {}
    BY <1>2, <1>11, <1>13, <1>16 DEF Finished
  <2> QED
    BY <1>2, <2>1 DEF PlacesOf
<1> QED
  BY <1>14, <1>15, <1>16 DEF PlanRight

LEMMA RequestsAre ==
  ASSUME NEW q \in LogRequests
  PROVE  /\ q[1].picks \in Seq(Picks) /\ q[1].from \in Int /\ q[1].to \in Int /\ q[1].recent \in Int
         /\ Listable(q[2]) /\ \A f \in q[2].files : f.last # ClampLogRange(q[1], Now).from
<1> DEFINE h == q[2]
           ModelParts == [text : STRING, num : Nat]
<1>1. /\ q[1].picks \in Seq(Picks) /\ q[1].from \in Int /\ q[1].to \in Int /\ q[1].recent \in Int
      /\ IsFiniteSet(h.files) /\ NamesTell(h)
  BY RulesAssumption DEF Picks
<1>2. \A f \in h.files : 0 < f.first /\ f.first <= f.last /\ f.last # ClampLogRange(q[1], Now).from
  BY RulesAssumption
<1>3. \A f \in h.files :
        f \in [path : STRING, dir : STRING, series : STRING, kind : STRING, day : Nat, gz : BOOLEAN,
               name : Seq(ModelParts), first : Nat, last : Nat]
  BY RulesAssumption
<1>4. Seq(ModelParts) \subseteq Seq(Parts)
  <2>1. ModelParts \subseteq Parts
    BY DEF Parts, Texts
  <2> HIDE DEF ModelParts
  <2>2. ASSUME NEW s \in Seq(ModelParts)
        PROVE  s \in Seq(Parts)
    BY <2>1, SeqMonotonic
  <2> QED
    BY <2>2
<1> HIDE DEF ModelParts, h
<1>5. h.files \subseteq FileSet
  BY <1>3, <1>4 DEF FileSet
<1>6. Listable(h)
  BY <1>1, <1>2, <1>5 DEF Listable
<1> QED
  BY <1>1, <1>2, <1>6 DEF h

(***************************************************************************)
(* Whatever is asked of whatever host: the plan of a collection names      *)
(* every ticked row, rejects only what the catalogue does not know, leaves *)
(* out no file with a line in the window, has every file taken once and    *)
(* gives every file a place of its own; script and tool agree on every run *)
(* of the filter; no two servers of an archive share a directory           *)
(* (LogPlanFor, filterVerdict, serverDirNames).                            *)
(***************************************************************************)
THEOREM CollectionsHonest == Spec => []CollectsRight
<1> DEFINE Planned == asked.what = "logs" =>
                        \E q \in LogRequests : /\ asked.req = q[1] /\ asked.host = q[2]
                                               /\ answer = LogPlanFor(q[1], q[2], Now)
           Farmed == asked.what = "servers" => \E f \in Farms : answer = ServerDirNames(f)
           Agreed == asked.what = "filtered" => VerdictsAgree(asked.rc, asked.st)
<1>1. Init => Planned /\ Farmed
  BY DEF Init, Nothing
<1>2. Planned /\ Farmed /\ [Next]_vars => (Planned /\ Farmed)'
  <2> SUFFICES ASSUME Planned, Farmed, [Next]_vars
               PROVE  (Planned /\ Farmed)'
    OBVIOUS
  <2>1. CASE Plans
    <3>1. PICK q \in LogRequests : /\ asked' = [what |-> "logs", req |-> q[1], host |-> q[2]]
                                   /\ answer' = LogPlanFor(q[1], q[2], Now)
      BY <2>1 DEF Plans
    <3>2. asked'.req = q[1] /\ asked'.host = q[2] /\ asked'.what = "logs"
      BY <3>1
    <3> QED
      BY <3>1, <3>2
  <2>2. CASE NamesServers
    <3>1. PICK f \in Farms : asked' = [what |-> "servers", farm |-> f] /\ answer' = ServerDirNames(f)
      BY <2>2 DEF NamesServers
    <3>2. asked'.what = "servers"
      BY <3>1
    <3> QED
      BY <3>1, <3>2
  <2>3. CASE Start \/ Captures \/ Filters \/ Inspects \/ Submits \/ Registers
    <3>1. asked'.what # "logs" /\ asked'.what # "servers"
      BY <2>3 DEF Start, Captures, Filters, Inspects, Submits, Registers, Nothing
    <3> QED
      BY <3>1
  <2>4. CASE UNCHANGED vars
    BY <2>4 DEF vars
  <2> QED
    BY <2>1, <2>2, <2>3, <2>4 DEF Next
<1>3. Planned /\ Farmed /\ Agreed => CollectsRight
  <2> SUFFICES ASSUME Planned, Farmed, Agreed
               PROVE  CollectsRight
    OBVIOUS
  <2>1. ASSUME asked.what = "logs"
        PROVE  PlanRight(asked.req, asked.host, answer)
    <3>1. PICK q \in LogRequests : /\ asked.req = q[1] /\ asked.host = q[2]
                                   /\ answer = LogPlanFor(q[1], q[2], Now)
      BY <2>1
    <3> HIDE DEF Planned, Farmed, Agreed
    <3>2. /\ q[1].picks \in Seq(Picks) /\ q[1].from \in Int /\ q[1].to \in Int /\ q[1].recent \in Int
          /\ Listable(q[2]) /\ \A f \in q[2].files : f.last # ClampLogRange(q[1], Now).from
      BY RequestsAre
    <3>3. Now \in Nat
      BY RulesAssumption
    <3>4. PlanRight(q[1], q[2], LogPlanFor(q[1], q[2], Now))
      BY <3>2, <3>3, PlanIsRight
    <3> QED
      BY <3>1, <3>4
  <2>2. ASSUME asked.what = "servers"
        PROVE  IsInjective(answer)
    <3>1. PICK f \in Farms : answer = ServerDirNames(f)
      BY <2>2
    <3>2. /\ f \in Seq(Servers)
          /\ \A i, j \in DOMAIN f :
               /\ f[i].id = f[j].id => i = j
               /\ f[i].id \notin Range(f[j].name) \cup Range(f[j].addr)
      BY RulesAssumption DEF Servers
    <3> HIDE DEF Planned, Farmed, Agreed
    <3>3. IsInjective(ServerDirNames(f))
      BY <3>2, NamesApart
    <3> QED
      BY <3>1, <3>3
  <2>3. asked.what = "filtered" => VerdictsAgree(asked.rc, asked.st)
    OBVIOUS
  <2> QED
    BY <2>1, <2>2, <2>3 DEF CollectsRight
<1>4. Spec => [](Planned /\ Farmed)
  BY <1>1, <1>2, PTL DEF Spec
<1>5. Spec => []Agreed
  BY VerdictsMatch
<1> QED
  BY <1>3, <1>4, <1>5, PTL
=============================================================================
