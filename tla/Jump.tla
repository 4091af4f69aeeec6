-------------------------------- MODULE Jump --------------------------------
(***************************************************************************)
(* Routes through jump hosts (internal/monitor/monitor.go, jumpPaths to    *)
(* dialWithFallback).  A host names the hosts it may be reached through,   *)
(* best first; every route that follows leads from a host that is dialled  *)
(* directly, and the first route on which every hop connects is used.      *)
(*                                                                         *)
(* A network n has n.list and n.one, what the host store holds for each    *)
(* host (JumpHostIDs and the older JumpHostID; Blank is the empty id),     *)
(* n.down, the links on which no tunnel opens, and n.locked, the hosts on  *)
(* which the login fails.                                                  *)
(***************************************************************************)
EXTENDS Integers, FiniteSets, SequencesExt

CONSTANTS
  Hosts,    \* hosts of the store
  Blank,    \* an empty id
  Client,   \* where the app runs
  MaxHops,  \* maxJumpHops
  MaxPaths  \* maxJumpPaths

ASSUME JumpAssumption ==
  /\ {MaxHops, MaxPaths} \subseteq Nat \ {0}
  /\ Blank \notin Hosts /\ Client \notin Hosts

\* The hosts h may be reached through; none when it is dialled directly.
JumpCandidates(n, h) ==
  IF n.list[h] # <<>> THEN SelectSeq(n.list[h], LAMBDA id : id # Blank)
  ELSE IF n.one[h] # Blank THEN <<n.one[h]>> ELSE <<>>

\* The routes to h that avoid seen and have left hosts before h at most; less holds the routes to
\* every host that have one host less.
JumpPathsFor(n, less, left, h, seen) ==
  LET cands == JumpCandidates(n, h)
      Through(id) ==
        IF id \in seen \/ id \notin Hosts THEN <<>>
        ELSE LET subs == less[id][seen \cup {id}]
             IN [i \in DOMAIN subs |-> Append(subs[i], h)]
      out == FlattenSeq([i \in DOMAIN cands |-> Through(cands[i])])
  IN IF cands = <<>> THEN << <<h>> >>
     ELSE IF left = 0 THEN <<>>
     ELSE SubSeq(out, 1, IF Len(out) < MaxPaths THEN Len(out) ELSE MaxPaths)

PathsWithin(n, less, left) ==
  [h \in Hosts |-> [seen \in SUBSET Hosts |-> JumpPathsFor(n, less, left, h, seen)]]

AllPaths(n) ==
  LET within[left \in 0..(MaxHops - 1)] ==
        PathsWithin(n, IF left = 0 THEN <<>> ELSE within[left - 1], left)
  IN within

JumpPaths(n, h) == AllPaths(n)[MaxHops - 1][h][{h}]

(***************************************************************************)
(* Dialling one route: a client on its first host, then for each further   *)
(* host a connection opened from the last client and a login inside it.    *)
(* open holds the clients in the order they were opened.                   *)
(***************************************************************************)
\* Does the login on h succeed through the last client that is open?
Connects(n, d, h) ==
  /\ h \notin n.locked
  /\ <<IF d.open = <<>> THEN Client ELSE Last(d.open), h>> \notin n.down

Hop_LeavesOpen(n, d, h) ==
  IF d.ok /\ Connects(n, d, h) THEN [ok |-> TRUE, open |-> Append(d.open, h)]
  ELSE [d EXCEPT !.ok = FALSE]

\* The next hop: the clients so far are kept under it, and closed when it fails.
Hop(n, d, h) ==
  IF d.ok /\ Connects(n, d, h) THEN [ok |-> TRUE, open |-> Append(d.open, h)]
  ELSE [ok |-> FALSE, open |-> <<>>]

DialThrough(n, path) ==
  LET after[i \in 0..Len(path)] ==
        IF i = 0 THEN [ok |-> TRUE, open |-> <<>>] ELSE Hop(n, after[i - 1], path[i])
  IN after[Len(path)]

\* The first route that connects, with every client that was left open.
DialWithFallback(n, paths) ==
  LET dialled == [i \in DOMAIN paths |-> DialThrough(n, paths[i])]
      good == SelectInSeq(dialled, LAMBDA d : d.ok)
      tried == IF good = 0 THEN dialled ELSE SubSeq(dialled, 1, good)
  IN [ok |-> good # 0,
      open |-> FlattenSeq([i \in DOMAIN tried |-> tried[i].open])]

\* Connecting to h: what jumpPaths offers is dialled.
Connect(n, h) == DialWithFallback(n, JumpPaths(n, h))

(***************************************************************************)
(* The same, by what a route is and not by how it is found.                *)
(***************************************************************************)
IsRoute(n, h, r) ==
  /\ Last(r) = h /\ IsInjective(r)
  /\ JumpCandidates(n, r[1]) = <<>>
  /\ \A i \in 2..Len(r) : r[i - 1] \in ToSet(JumpCandidates(n, r[i]))

Routes(n, h) ==
  {r \in UNION {[1..k -> Hosts] : k \in 1..MaxHops} : IsRoute(n, h, r)}

\* Which choice of h the jump host id is.
Choice(n, h, id) == SelectInSeq(JumpCandidates(n, h), LAMBDA c : c = id)

\* r is tried before s: where they part, seen from the target, r's jump host is better.
Prefers(n, r, s) ==
  \E k \in 0..(MaxHops - 1) :
    /\ k < Len(r) - 1 /\ k < Len(s) - 1
    /\ \A j \in 0..k : r[Len(r) - j] = s[Len(s) - j]
    /\ Choice(n, r[Len(r) - k], r[Len(r) - k - 1]) < Choice(n, s[Len(s) - k], s[Len(s) - k - 1])

\* Every hop of r connects when it is dialled from the hop before it.
Works(n, r) ==
  /\ ToSet(r) \cap n.locked = {}
  /\ \A i \in DOMAIN r : <<IF i = 1 THEN Client ELSE r[i - 1], r[i]>> \notin n.down

(***************************************************************************)
(* jumpPaths offers the best MaxPaths of all simple routes in the order of *)
(* preference, cycles, dangling ids and long chains notwithstanding: a     *)
(* host that has jump hosts is never dialled directly.                     *)
(***************************************************************************)
BestRoutes(n, h, paths) ==
  LET all == Routes(n, h)
  IN /\ ToSet(paths) \subseteq all
     /\ Len(paths) = IF Cardinality(all) < MaxPaths THEN Cardinality(all) ELSE MaxPaths
     /\ \A i \in 1..(Len(paths) - 1) : Prefers(n, paths[i], paths[i + 1])
     /\ \A r \in all \ ToSet(paths) : Prefers(n, Last(paths), r)

(***************************************************************************)
(* A connection uses the first of the routes that works and leaves exactly *)
(* its hosts open: no login on a jump host outlives a route that failed.   *)
(***************************************************************************)
FirstThatWorks(n, paths, c) ==
  LET working == {i \in DOMAIN paths : Works(n, paths[i])}
  IN /\ c.ok = (working # {})
     /\ c.open = IF working = {} THEN <<>>
                 ELSE paths[CHOOSE i \in working : \A j \in working : i <= j]

RouteRight(n, h, c) ==
  BestRoutes(n, h, JumpPaths(n, h)) /\ FirstThatWorks(n, JumpPaths(n, h), c)
=============================================================================
