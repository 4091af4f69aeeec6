------------------------------ MODULE MCRules ------------------------------
(* Inputs for Rules' run. *)
EXTENDS Rules

\* ---- routes: four hosts, ids of deleted hosts, one link or one login that fails ----

MCHosts == {"a", "b", "c", "d"}

NoOne == [h \in MCHosts |-> ""]

Ones == {<<>>} \cup {<<x>> : x \in MCHosts \cup {"gone"}}

\* What a host of the store names: the two that are asked about most have longer lists.
Stores ==
  {[a |-> a, b |-> b, c |-> c, d |-> d] :
     a \in Ones \cup {<<"b", "c">>, <<"c", "b">>, <<"d", "b">>, <<"b", "gone">>, <<"", "c">>, <<"">>},
     b \in Ones \cup {<<"a", "d">>, <<"c", "d">>}, c \in Ones, d \in Ones}

Branching ==
  {[a |-> <<"b", "c">>, b |-> b, c |-> c, d |-> d] :
     b \in {<<>>, <<"d">>, <<"c", "d">>}, c \in {<<>>, <<"d">>, <<"b", "d">>}, d \in {<<>>, <<"a">>, <<"c">>}}

MCNetworks ==
  {[list |-> l, one |-> o, down |-> {}, locked |-> {}] :
     l \in Stores, o \in {NoOne, [NoOne EXCEPT !["d"] = "b"]}}
  \cup {[list |-> l, one |-> NoOne, down |-> d, locked |-> k] : l \in Branching,
     d \in {{}} \cup {{x} : x \in {"app", "b", "c", "d"} \X MCHosts}
          \cup {{<<"b", "a">>, <<"app", "c">>}, {<<"d", "b">>, <<"d", "c">>}},
     k \in SUBSET {"b", "d"}}

\* ---- captures ----

Addr(at) == [kind |-> "addr", at |-> at, bits |-> 2]
Net(at) == [kind |-> "net", at |-> at, bits |-> 1]

HostTokens ==
  {Addr(0), Addr(3), Net(1), Net(2), [Addr(2) EXCEPT !.kind = "name"], [Addr(0) EXCEPT !.kind = "junk"]}

PortTokens == {<<1, 1>>, <<2, 3>>, <<3, 3>>, <<5, 5>>, <<1, 4>>, <<3, 2>>, <<5, 6>>, Junk}

Request ==
  [ports |-> <<>>, hosts |-> <<>>, noFilter |-> FALSE, maxSec |-> 1, maxMB |-> 1, minFree |-> 1, dir |-> ""]

Disk(path, mount, fs, free, writable) ==
  [path |-> path, mount |-> mount, fs |-> fs, free |-> free, writable |-> writable]

OneDisk == <<Disk("/home", "/", "xfs", 9, TRUE)>>

FilterRequests ==
  {[Request EXCEPT !.hosts = h, !.ports = p, !.noFilter = (h = <<>> /\ p = <<>> /\ n)] :
     h \in SeqOf(HostTokens, 2), p \in SeqOf(PortTokens, 2), n \in BOOLEAN}
  \cup {[Request EXCEPT !.ports = p] : p \in SeqOf(PortTokens, 3)}

Limits ==
  {[Request EXCEPT !.noFilter = TRUE, !.maxSec = s, !.maxMB = m, !.minFree = f, !.dir = d] :
     s \in {-1, 2, 5}, m \in 0..4, f \in {0, 1, 3}, d \in {"", "/data", "/data/b", "/shm", "/home"}}

Probes ==
  {<<>>, <<Disk("/shm", "/shm", "tmpfs", 9, TRUE)>>}
  \cup {<<Disk("/home", "/", "xfs", r, TRUE), Disk("/data", "/data", "xfs", x, w),
          Disk("/data/b", "/data", "xfs", x, TRUE), Disk("/shm", "/shm", "tmpfs", 9, TRUE),
          Disk("/opt", "/opt", "ext4", y, TRUE)>> :
          r \in {4, 8}, x \in {0, 3, 5, 6}, y \in {0, 5}, w \in BOOLEAN}

MCCapRequests ==
  {<<r, OneDisk>> : r \in FilterRequests} \cup {<<r, p>> : r \in Limits, p \in Probes}

MCPackets ==
  {[addrs |-> {x, y}, ports |-> {p, q}] : x \in {0, 2}, y \in 0..3, p \in {1, 3}, q \in 1..5}

\* ---- logs: days 1 to 3 of four instants, lines at the two in the middle ----

MCCatalog ==
  [liz |-> [modules |-> [lift |-> [paths |-> {"/lift"}, cmd |-> FALSE]], globs |-> {"/liz", "/log"}],
   mid |-> [modules |-> [keep |-> [paths |-> {"/log/m"}, cmd |-> FALSE]], globs |-> {}],
   sys |-> [modules |-> [varlog |-> [paths |-> {"/log"}, cmd |-> FALSE],
                         dmesg |-> [paths |-> {}, cmd |-> TRUE]], globs |-> {}]]

MCRank == [liz |-> 0, mid |-> 1, sys |-> 2]

Pick(c, m, d) == [cat |-> c, mod |-> m, dir |-> d]
PickLift == Pick("liz", "lift", "/lift")
PickLiz == Pick("liz", "liz-web", "/liz")
PickKeep == Pick("mid", "keep", "/log/m")
PickLog == Pick("sys", "varlog", "/log")
PickDmesg == Pick("sys", "dmesg", "")
PickScan == Pick("liz", "liz-log", "/log")
PickOdd == Pick("liz", "liz-x", "odd")
PickStray == Pick("sys", "varlog", "/etc")
PickUnknown == Pick("none", "x", "/log")

Lines == {4 * day + i : day \in 1..3, i \in {1, 2}}
Spans == {s \in Lines \X Lines : s[1] <= s[2]}

File(path, dir, kind, day, name, span) ==
  [path |-> path, dir |-> dir, series |-> "m", kind |-> kind, day |-> day, gz |-> FALSE,
   name |-> name, first |-> span[1], last |-> span[2]]

Host(files, state) == [answers |-> TRUE, state |-> state, files |-> files]
AllThere == [d \in {"/lift", "/liz", "/log", "/log/m", "/etc", ""} |-> "there"]

\* A series that rotates: what was written after one rotation and before the next.
Rotated ==
  {{File("/log/m", "/log", "plain", 0, <<Text("m")>>, now), File("/log/m-2", "/log", "rotated", 2, <<Text("m-2")>>, two),
    [File("/log/m-3", "/log", "rotated", 3, <<Text("m-3")>>, three) EXCEPT !.gz = g]} :
     now \in {<<9, 14>>, <<14, 14>>}, g \in BOOLEAN,
     two \in {s \in Spans : s[2] <= 10}, three \in {s \in Spans : s[1] >= 9}}

WellRotated ==
  {fs \in Rotated : \A f, g \in fs :
     f.kind = "rotated" /\ g.kind = "rotated" /\ f.day < g.day => f.last <= g.first}

\* Names that become one when they are sanitised, one that is lost, a day that starts a file.
Named ==
  {{File("/lift/x", "/lift", k, 2, <<Text("x")>>, s), File("/lift/y", "/lift", "plain", 0, n, <<5, 9>>),
    File("/lift/z", "/lift", "plain", 0, <<Text("x")>>, <<9, 13>>)} :
     k \in {"dated", "plain"}, s \in {t \in Spans : t[1] >= 8}, n \in {<<Text("x")>>, <<Text("x"), Number(2)>>, <<>>}}

Windows ==
  {[from |-> f, to |-> t, recent |-> 0] : f \in {-1, 0, 4, 8, 12}, t \in {0, 7, 9, 11, 15}}
  \cup {[from |-> 4, to |-> 7, recent |-> r] : r \in 1..2}

Ask(w, picks) == w @@ [picks |-> picks]

SomeFiles ==
  {File("/log/m", "/log", "plain", 0, <<Text("m")>>, <<5, 14>>), File("/liz/m", "/liz", "dated", 2, <<Text("m")>>, <<9, 9>>),
   File("/lift/m", "/lift", "rotated", 2, <<Text("m")>>, <<5, 6>>)}

States ==
  {s \in [DOMAIN AllThere -> {"there", "missing", "odd", "silent"}] :
     s["/etc"] = "there" /\ s[""] = "there" /\ s["/lift"] \in {"there", "missing"} /\ s["/log/m"] # "odd"}

MCLogRequests ==
  {<<Ask(w, <<PickLog, PickKeep>>), Host(fs, AllThere)>> : w \in Windows, fs \in WellRotated}
  \cup {<<Ask(w, <<PickLift>>), Host(fs, AllThere)>> : w \in Windows, fs \in Named}
  \cup {<<Ask([from |-> f, to |-> 11, recent |-> 0], p), Host(SomeFiles, s)>> :
          f \in {0, 8}, s \in States,
          p \in {<<PickLift, PickLiz, PickKeep, PickLog, PickDmesg>>, <<PickLog, PickOdd, PickKeep, PickLog>>,
                 <<PickStray, PickLiz>>, <<PickScan, PickLog, PickKeep>>, <<PickUnknown, PickDmesg>>, <<PickStray>>}}
  \cup {<<Ask([from |-> 0, to |-> 0, recent |-> 0], <<PickLog>>), [Host({}, AllThere) EXCEPT !.answers = FALSE]>>}

MCFilterRuns ==
  {q \in {0, 1, 3, 4} \X [found : BOOLEAN, lines : {0, 1, 9, 10, 20}, dated : 0..2,
                          emitted : {0, 1, 10, 20}, preTrunc : {0, 1}] :
     q[2].emitted + q[2].preTrunc <= q[2].lines /\ q[2].dated <= q[2].lines}

MCFarms ==
  LET Server(i) == {[id |-> i, name |-> n, addr |-> a] : n \in {<<"x">>, <<"x", "1">>}, a \in {<<>>, <<"1">>, <<"2">>}}
  IN {<<x, y, z>> : x \in Server("i"), y \in Server("j"), z \in Server("k")}

\* ---- registrations: two servers, a module that moves, an unplaced token ----

Lit(x) == [hole |-> FALSE, text |-> x]
Hole(x) == [hole |-> TRUE, text |-> x]

KeyA == <<Lit("cpu"), Hole("s1")>>
KeyM == <<Lit("mod"), Hole("7")>>
KeyX == <<Lit("db"), Hole("x")>>
KeyC == <<Lit("all")>>

ByHost == [id |-> 1, pattern |-> <<Lit("cpu"), Hole("hostname")>>, format |-> 3]
ByModule == [id |-> 2, pattern |-> <<Lit("mod"), Hole("module_id")>>, format |-> 3]
Again == [id |-> 3, pattern |-> <<Lit("cpu"), Hole("name")>>, format |-> 0]

Reg(k, c, g, d, n) == [key |-> k, checkpoint |-> c, iface |-> 10 * d, group |-> g, device |-> d, name |-> n]

MCHostOrder == <<"common", "s1", "s2">>

RegSets ==
  {{}, {Reg(KeyA, 1, 1, 1, "s1")}, {Reg(KeyM, 1, 1, 1, "s1")}, {Reg(KeyM, 1, 0, 1, "s1")},
   {Reg(KeyM, 1, 1, 1, "s1"), Reg(KeyM, 2, 2, 2, "dev")},
   {Reg(KeyM, 1, 1, 1, "dev"), Reg(KeyA, 2, 1, 1, "dev")},
   {Reg(KeyX, 1, 1, 1, "s2"), Reg(KeyM, 2, 1, 2, "s1")}}

Values ==
  {(KeyA :> "number") @@ (KeyM :> "number") @@ (KeyX :> "text") @@ (KeyC :> "number"),
   (KeyA :> "text") @@ (KeyM :> "number") @@ (KeyX :> "number"),
   (KeyA :> "java") @@ (KeyM :> "go") @@ (KeyX :> "java"),
   (KeyM :> "java") @@ (KeyX :> "go")}

Places ==
  {[servers |-> ("s1" :> "s1") @@ ("s2" :> "s2"), mods |-> ("7" :> "s2")],
   [servers |-> ("s1" :> "s1") @@ ("x" :> "s2"), mods |-> ("7" :> "s1")]}

Products ==
  {[templates |-> <<ByHost, ByModule>>, deleted |-> {KeyX}],
   [templates |-> <<ByModule, ByHost, Again>>, deleted |-> {KeyA}]}

MCEnvironments ==
  {p @@ t @@ [values |-> v, regs |-> r] : p \in Places, t \in Products, v \in Values, r \in RegSets}
=============================================================================
