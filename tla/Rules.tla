------------------------------- MODULE Rules -------------------------------
(***************************************************************************)
(* The decisions of the tool that keep no state, asked one at a time: the  *)
(* route to a host, the filter and the place of a capture, the plan of a   *)
(* collection of logs, what a filtered file is taken for, the directories  *)
(* of servers in an archive, and what may be registered of an environment. *)
(* asked is the question with its inputs, answer what the code returns.    *)
(* Only registrations leave something behind, what the PC remembers of     *)
(* them, and the next analysis starts from it.                             *)
(***************************************************************************)
EXTENDS Jump, CaptureRules, CollectRules, PlanRules

CONSTANTS
  Networks,      \* host stores and the state of the links between the hosts
  CapRequests,   \* requests for captures, each with the filesystems of its host
  Packets,       \* packets on the wire
  LogRequests,   \* requests for logs, each with its host
  Now,           \* when they are made
  FilterRuns,    \* exit codes and statistics of the line filter
  Farms,         \* lists of servers that are put into one archive
  Environments,  \* environments that are analysed
  Digits,        \* tokens that are numbers
  MaxRounds      \* registrations one after another

\* No host names a jump host twice (ConnectDialog and ClusterDialog offer only those that are not
\* in the list).  Of a filesystem that was probed under several paths, type and free space are the
\* same.  Names of files tell what is in them, a file is written from its first to its last line
\* and none at the instant a window starts.  An archive has a server once, and the id of a server
\* (a UUID) is no part of a name or an address.  The filter counts lines.  An environment is finite, names no server as the place of what is
\* common to all is named, and knows the server of every module (Inspect adds those that no
\* address names).
ASSUME RulesAssumption ==
  /\ MaxRounds \in Nat
  /\ IsFiniteSet(Hosts)
  /\ \A n \in Networks : \A h \in Hosts :
       /\ JumpCandidates(n, h) \in Seq(Range(JumpCandidates(n, h)))
       /\ IsInjective(JumpCandidates(n, h))
  /\ \A q \in CapRequests :
       /\ q[1] \in [ports : Seq({Junk} \cup (Nat \X Nat)),
                   hosts : Seq([kind : STRING, at : Nat, bits : 0..Bits]),
                   noFilter : BOOLEAN, maxSec : Int, maxMB : Int, minFree : Int, dir : STRING]
       /\ q[2] \in Seq([path : STRING, mount : STRING, fs : STRING, free : Nat, writable : BOOLEAN])
       /\ \A i, j \in DOMAIN q[2] :
            q[2][i].mount = q[2][j].mount => q[2][i].fs = q[2][j].fs /\ q[2][i].free = q[2][j].free
  /\ \A pkt \in Packets : pkt.addrs \subseteq Nat /\ pkt.ports \subseteq Nat
  /\ \A q \in LogRequests :
       /\ q[1].picks \in Seq([cat : STRING, mod : STRING, dir : STRING])
       /\ q[1].from \in Int /\ q[1].to \in Int /\ q[1].recent \in Int
       /\ IsFiniteSet(q[2].files) /\ NamesTell(q[2])
       /\ \A f \in q[2].files :
            /\ f \in [path : STRING, dir : STRING, series : STRING, kind : STRING, day : Nat,
                      gz : BOOLEAN, name : Seq([text : STRING, num : Nat]), first : Nat, last : Nat]
            /\ 0 < f.first /\ f.first <= f.last /\ f.last # ClampLogRange(q[1], Now).from
  /\ Now \in Nat
  /\ \A f \in Farms :
       /\ f \in Seq([id : STRING, name : Seq(STRING), addr : Seq(STRING)])
       /\ \A i, j \in DOMAIN f :
            /\ f[i].id = f[j].id => i = j
            /\ f[i].id \notin Range(f[j].name) \cup Range(f[j].addr)
  /\ \A q \in FilterRuns :
       q[1] \in Nat /\ q[2] \in [found : BOOLEAN, lines : Nat, dated : Nat, emitted : Nat, preTrunc : Nat]
  /\ \A w \in Environments :
       /\ IsFiniteSet(w.regs) /\ IsFiniteSet(DOMAIN w.values) /\ IsFiniteSet(DOMAIN w.servers)
       /\ "common" \notin Range(w.servers)
       /\ Range(w.mods) \subseteq Range(w.servers) \cup {""}

VARIABLES asked, answer, memory, rounds

vars == <<asked, answer, memory, rounds>>

Nothing == [what |-> "nothing"]

Init ==
  /\ asked = Nothing /\ answer = Nothing
  /\ memory = [patterns |-> <<>>, placements |-> <<>>]
  /\ rounds = 0

\* The decisions about a host and its files are asked of a tool that remembers nothing.
Fresh == asked = Nothing /\ rounds = 0 /\ UNCHANGED <<memory, rounds>>

\* Manager.Start dials a host.
Start ==
  /\ Fresh
  /\ \E n \in Networks : \E h \in Hosts :
       /\ asked' = [what |-> "route", net |-> n, to |-> h]
       /\ answer' = Connect(n, h)

\* A capture is asked for.
Captures ==
  /\ Fresh
  /\ \E q \in CapRequests :
       /\ asked' = [what |-> "capture", req |-> q[1], probed |-> q[2]]
       /\ answer' = StartCapture(q[1], q[2])

\* A collection of logs is planned.
Plans ==
  /\ Fresh
  /\ \E q \in LogRequests :
       /\ asked' = [what |-> "logs", req |-> q[1], host |-> q[2]]
       /\ answer' = LogPlanFor(q[1], q[2], Now)

\* The copy script judges a run of the line filter.
Filters ==
  /\ Fresh
  /\ \E q \in FilterRuns :
       /\ asked' = [what |-> "filtered", rc |-> q[1], st |-> q[2]]
       /\ answer' = FilterActionFor(q[1], q[2])

\* The servers of one archive get their directories.
NamesServers ==
  /\ Fresh
  /\ \E f \in Farms :
       /\ asked' = [what |-> "servers", farm |-> f]
       /\ answer' = ServerDirNames(f)

\* An environment is analysed.
Inspects ==
  /\ asked = Nothing
  /\ \E w \in Environments :
       /\ asked' = [what |-> "plan", env |-> w]
       /\ answer' = Plan(w, memory)
  /\ UNCHANGED <<memory, rounds>>

(***************************************************************************)
(* Selections of a plan: what the interface starts from with at most one   *)
(* change to its points or its layout, and any group to update.            *)
(***************************************************************************)
Changed(plan, p) ==
  {[p EXCEPT !.host = h, !.format = f, !.selected = k = "add", !.move = k = "move"] :
     h \in plan.hosts \cup {""}, f \in {p.format, 3, 4}, k \in {"add", "move", "leave"}}
  \cup {[p EXCEPT !.move = TRUE, !.selected = FALSE, !.live = l] :
          l \in {q.live : q \in plan.points} \cup {NoLive}}

Edits(plan, d) ==
  {d, [d EXCEPT !.named = FALSE]}
  \cup {[d EXCEPT !.servers = Remove(@, h)] : h \in plan.hosts}
  \cup (UNION {{[d EXCEPT !.points[i] = p] : p \in Changed(plan, d.points[i])} : i \in DOMAIN d.points})
  \cup {[d EXCEPT !.points = Append(@, p)] : p \in ToSet(d.points)}

Selections(plan) ==
  {[s EXCEPT !.update = g] : g \in plan.groups \cup {0}, s \in Edits(plan, Default(plan))}

\* A selection of the plan is submitted.
Submits ==
  /\ asked.what = "plan"
  /\ \E s \in Selections(answer) :
       /\ asked' = [what |-> "selection", env |-> asked.env, plan |-> answer, sel |-> s]
       /\ answer' = [ok |-> ValidateSelection(asked.env, answer, s)]
  /\ UNCHANGED <<memory, rounds>>

\* An accepted selection is registered, and its choices are remembered.
Registers ==
  /\ asked.what = "selection" /\ answer.ok
  /\ rounds < MaxRounds
  /\ memory' = LearnPatterns(memory, asked.plan, asked.sel, Digits)
  /\ rounds' = rounds + 1
  /\ asked' = Nothing /\ answer' = Nothing

Next ==
  \/ Start \/ Captures \/ Plans \/ Filters \/ NamesServers
  \/ Inspects \/ Submits \/ Registers

Spec == Init /\ [][Next]_vars

(***************************************************************************)
(* A connection takes the first of the best routes that works and leaves   *)
(* nothing else open (jumpPaths, dialWithFallback).                        *)
(***************************************************************************)
RoutesRight ==
  asked.what = "route" => RouteRight(asked.net, asked.to, answer)

(***************************************************************************)
(* An accepted capture takes what was asked for, within the limits, on a   *)
(* disk that can hold it (parsePortSpec, parseHostSpec, captureFilter,     *)
(* clampCapRequest, captureTargets).                                       *)
(***************************************************************************)
CapturesRight ==
  asked.what = "capture" => CaptureRight(asked.req, asked.probed, Packets, answer)

(***************************************************************************)
(* A plan of a collection names every ticked row, leaves out no file with  *)
(* a line in the window and gives every file a place of its own; script    *)
(* and tool agree on what a filtered file is; no two servers share a       *)
(* directory (LogPlanFor, filterVerdict, serverDirNames).                  *)
(***************************************************************************)
CollectsRight ==
  /\ asked.what = "logs" => PlanRight(asked.req, asked.host, answer)
  /\ asked.what = "filtered" => VerdictsAgree(asked.rc, asked.st)
  /\ asked.what = "servers" => IsInjective(answer)

(***************************************************************************)
(* The analysis offers what the registration accepts, and the registration *)
(* accepts nothing that collides with what is live or is misplaced.  A     *)
(* number the collector cannot read gets in one way only: the analysis     *)
(* took the value for a string, and the operator, or a format remembered   *)
(* of another key of its kind, made it a number (makePoints to             *)
(* validateSelection, learnPatterns).                                      *)
(***************************************************************************)
RegistersRight ==
  /\ asked.what = "plan" => DefaultRight(asked.env, memory, answer)
  /\ asked.what = "selection" /\ answer.ok => SelectionRight(asked.env, asked.sel)
=============================================================================
