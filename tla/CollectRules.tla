---------------------------- MODULE CollectRules ----------------------------
(***************************************************************************)
(* What a collection of logs will take (internal/monitor/logcollect_run.go,*)
(* LogPlanFor; logcollect.go; logfilter.go): the rows the operator ticked  *)
(* are resolved against the catalogue, the host lists the files behind     *)
(* them, each is taken, cut or left out by what its name and last write    *)
(* say of its content, and gets a place of its own in the archive.         *)
(*                                                                         *)
(* A host h is [answers, state, files]: state[d] is what its script finds  *)
(* at a path d, and a file is [path, dir, series, kind, day, gz, name,     *)
(* first, last]: its lines were written from first to last, last is also   *)
(* its mtime, and name is its sanitised name in the archive, a sequence of *)
(* the parts around "_", a text or a number each (<<>> when nothing of it  *)
(* can be kept).  Its kind                                                 *)
(* is the convention of its name: "dated" names the day its content starts *)
(* ("x.log.2026-07-28"), "rotated" the day it ended ("x-20260728"),        *)
(* "plain" no day.  Time is counted in instants, DayTicks of them a day;   *)
(* no line is written at the first or last instant of a day, where the     *)
(* boundaries of windows are.  Sizes, and texts but for names, are left    *)
(* out; the gate is in LogCollect.                                         *)
(***************************************************************************)
EXTENDS Integers, FiniteSets, SequencesExt, FiniteSetsExt

CONSTANTS
  Catalog,     \* [category -> [modules : [name -> [paths, cmd]], globs : directories]]
  Rank,        \* categoryRank
  OddPath,     \* a path validAbsPath refuses
  DayTicks,    \* instants in a day
  ServerDir    \* name of the server's directory in the archive

ASSUME CollectRulesAssumption ==
  /\ DayTicks \in Nat \ {0}
  /\ Rank \in [DOMAIN Catalog -> Nat]
  /\ ServerDir \in STRING
  /\ \A c \in DOMAIN Catalog :
       /\ OddPath \notin Catalog[c].globs
       /\ \A m \in DOMAIN Catalog[c].modules : OddPath \notin Catalog[c].modules[m].paths

\* The elements of the sequence s that are in S, in their order.
Among(S, s) == FoldLeft(LAMBDA out, x : IF x \in S THEN Append(out, x) ELSE out, <<>>, s)

\* Parts of names.
Text(t) == [text |-> t, num |-> 0]
Number(n) == [text |-> "", num |-> n]

Midnight(day) == day * DayTicks
EndOf(day) == day * DayTicks + DayTicks - 1
DayOf(t) == t \div DayTicks

\* ---- the window ----

\* The window of a request; 0 is no bound.
ClampLogRange(req, now) ==
  LET from == IF req.recent > 0 THEN Midnight(DayOf(now) - req.recent)
              ELSE IF req.from < 0 THEN 0 ELSE req.from
      to == IF req.recent > 0 \/ req.to < 0 THEN 0 ELSE req.to
  IN [ok |-> ~(from > 0 /\ to > 0 /\ to < from) /\ from <= now,
      from |-> from, to |-> to]

\* ---- the selection ----

\* A module that only a glob found has no definition.
Def(p) ==
  IF p.mod \in DOMAIN Catalog[p.cat].modules THEN Catalog[p.cat].modules[p.mod]
  ELSE [paths |-> {}, cmd |-> FALSE]

PickAllowed(p) == p.dir \in Def(p).paths \cup Catalog[p.cat].globs

\* Sorts one ticked row under the picks or the rejected; the same row twice is one.
Resolve(res, p) ==
  IF Contains(res.picks, p) THEN res
  ELSE IF p.cat \in DOMAIN Catalog /\ (Def(p).cmd \/ (p.dir # OddPath /\ PickAllowed(p)))
  THEN [res EXCEPT !.picks = Append(@, p)]
  ELSE [res EXCEPT !.rejected = Append(@, p)]

ResolvePicks(rows) == FoldLeft(Resolve, [picks |-> <<>>, rejected |-> <<>>], rows)

\* ---- the files of the host ----

Under(f, d) == f.dir = d \/ f.path = d

\* A file behind a pick; own when the path of the catalogue was the file itself.
Row(p, f) == [cat |-> p.cat, mod |-> p.mod, file |-> f, own |-> f.path = p.dir]

Found(p, h, from) ==
  SetToSeq({Row(p, f) : f \in {g \in h.files : Under(g, p.dir) /\ (from > 0 => g.last > from)}})

Files(picks) == Among({p \in ToSet(picks) : ~Def(p).cmd}, picks)

\* What the host's script prints of the picks, as parseLogEnum reads it.
Enumerate(picks, h, from) ==
  LET reached(p) == h.state[p.dir] \in {"there", "odd"}
      list == Files(picks)
  IN [rows |-> FlattenSeq([i \in DOMAIN list |->
                 IF h.state[list[i].dir] = "there" THEN Found(list[i], h, from) ELSE <<>>]),
      misses |-> Among({p \in ToSet(list) : h.state[p.dir] \in {"missing", "denied", "odd"}}, list),
      listed |-> {<<p.cat, p.mod>> : p \in {q \in ToSet(list) : reached(q)}}]

\* Picks of files that came back with neither a file nor a reason.
UnlistedPicks(picks, en) ==
  LET told == {<<r.cat, r.mod>> : r \in ToSet(en.rows) \cup ToSet(en.misses)}
  IN Among({p \in ToSet(picks) : <<p.cat, p.mod>> \notin told}, Files(picks))

\* ---- what a file's name says ----

\* Days of the rotated files of one series in one module that come before row i.
RotatedBefore(rows, i) ==
  {rows[j].file.day : j \in {k \in DOMAIN rows :
    /\ rows[k].file.kind = "rotated" /\ rows[k].file.series = rows[i].file.series
    /\ rows[k].cat = rows[i].cat /\ rows[k].mod = rows[i].mod
    /\ \/ rows[k].file.day < rows[i].file.day
       \/ rows[k].file.day = rows[i].file.day /\ k < i}}

PrevRotationFor_LateDay(rows, i) ==
  IF RotatedBefore(rows, i) = {} THEN 0 ELSE EndOf(Max(RotatedBefore(rows, i)))

\* Start of a rotated file: midnight of the rotation before it, 0 when there is none.
PrevRotationFor(rows, i) ==
  IF RotatedBefore(rows, i) = {} THEN 0 ELSE Midnight(Max(RotatedBefore(rows, i)))

MinPos(a, b) == IF a <= 0 THEN b ELSE IF b <= 0 \/ a < b THEN a ELSE b

\* What the file is believed to span; 0 is unknown.
FilenameCoverage(f, prev) ==
  CASE f.kind = "dated" -> [first |-> Midnight(f.day), last |-> f.last]
    [] f.kind = "rotated" -> [first |-> prev, last |-> MinPos(EndOf(f.day), f.last)]
    [] OTHER -> [first |-> 0, last |-> f.last]

ClassifyFile(cov, from, to) ==
  LET insideStart == from <= 0 \/ (cov.first > 0 /\ cov.first >= from)
      insideEnd == to <= 0 \/ (cov.last > 0 /\ cov.last <= to)
  IN IF from <= 0 /\ to <= 0 THEN "whole"
     ELSE IF from > 0 /\ cov.last > 0 /\ cov.last < from THEN "skip"
     ELSE IF to > 0 /\ cov.first > 0 /\ cov.first > to THEN "skip"
     ELSE IF insideStart /\ insideEnd THEN "whole" ELSE "filter"

\* ---- entries ----

\* An entry that says of a module why something of it is not there.
Left(cat, mod) ==
  [cat |-> cat, mod |-> mod, left |-> TRUE, cmd |-> FALSE, src |-> "", name |-> <<>>,
   action |-> "skip", cut |-> <<>>, dup |-> <<>>, whole |-> <<>>, arch |-> <<>>]

\* A file that is taken.  The marker names the boundaries that cut it.
Taken(r, action, cov, from, to) ==
  LET marks == (IF from > 0 /\ ~(cov.first > 0 /\ cov.first >= from) THEN <<"from">> ELSE <<>>)
               \o (IF to > 0 /\ ~(cov.last > 0 /\ cov.last <= to) THEN <<"to">> ELSE <<>>)
      cuts == action = "filter" /\ ~r.file.gz /\ marks # <<>>
  IN [Left(r.cat, r.mod) EXCEPT
        !.left = FALSE, !.src = r.file.path, !.name = r.file.name,
        !.action = IF cuts THEN "filter" ELSE "whole", !.cut = IF cuts THEN marks ELSE <<>>]

\* The entries of the rows, one line for each module of which files were left out, the misses.
PlanEntries(rows, misses, from, to) ==
  LET cov(i) == FilenameCoverage(rows[i].file, PrevRotationFor(rows, i))
      act(i) == ClassifyFile(cov(i), from, to)
      kept == Among({i \in DOMAIN rows : act(i) # "skip"}, [i \in DOMAIN rows |-> i])
      out == SetToSeq({<<rows[i].cat, rows[i].mod>> : i \in {j \in DOMAIN rows : act(j) = "skip"}})
  IN [k \in DOMAIN kept |-> Taken(rows[kept[k]], act(kept[k]), cov(kept[k]), from, to)]
     \o [k \in DOMAIN out |-> Left(out[k][1], out[k][2])]
     \o [k \in DOMAIN misses |-> Left(misses[k].cat, misses[k].mod)]

\* The modules that are the output of a command.
CmdEntries(picks) ==
  LET cmds == Among({p \in ToSet(picks) : Def(p).cmd}, picks)
  IN [k \in DOMAIN cmds |-> [Left(cmds[k].cat, cmds[k].mod) EXCEPT
        !.left = FALSE, !.cmd = TRUE, !.src = cmds[k].mod, !.name = <<Text(cmds[k].mod)>>,
        !.action = "whole"]]

\* Modules whose path is a file beat those that scan a directory.
SpecificModules(rows) == {<<r.cat, r.mod>> : r \in {q \in ToSet(rows) : q.own}}

Score(e, specific) ==
  100 * (IF <<e.cat, e.mod>> \in specific THEN 1 ELSE 0) - Rank[e.cat]

\* One more entry: of two that name one file the better claim stays, the other points to it.
Dedupe(es, e, specific) ==
  LET j == SelectInSeq(es, LAMBDA x : ~x.left /\ ~x.cmd /\ x.dup = <<>> /\ x.src = e.src)
  IN IF e.left \/ e.cmd \/ j = 0 THEN Append(es, e)
     ELSE IF Score(e, specific) > Score(es[j], specific)
     THEN Append(ReplaceAt(es, j, [es[j] EXCEPT !.dup = <<e.cat, e.mod>>]), e)
     ELSE Append(es, [e EXCEPT !.dup = <<es[j].cat, es[j].mod>>])

DedupeEntries(entries, specific) ==
  FoldLeft(LAMBDA es, e : Dedupe(es, e, specific), <<>>, entries)

\* ---- the archive ----

\* p, or p with the first suffix _2, _3, ... that makes it new.
UniqueArchivePath(p, used) ==
  LET try(n) == IF n = 1 THEN p ELSE [p EXCEPT !.name = Append(@, Number(n))]
  IN try(CHOOSE n \in 1..(Cardinality(used) + 1) :
           try(n) \notin used /\ \A k \in 1..(n - 1) : try(k) \in used)

ArchivePathFor(e, cut) == [dir |-> <<ServerDir, e.cat, e.mod>>, name |-> e.name, cut |-> cut]

\* Reserves the names of one entry: that of the whole file, and a marked one if it may be cut.
Assign(st, e) ==
  LET whole == UniqueArchivePath(ArchivePathFor(e, <<>>), st.used)
      cut == UniqueArchivePath(ArchivePathFor(e, e.cut), st.used \cup {whole})
      arch == IF e.cut = <<>> THEN whole ELSE cut
  IN IF e.left \/ e.dup # <<>> THEN [st EXCEPT !.out = Append(@, e)]
     ELSE IF e.name = <<>> THEN [st EXCEPT !.out = Append(@, [e EXCEPT !.left = TRUE])]
     ELSE [used |-> st.used \cup {whole, arch},
           out |-> Append(st.out, [e EXCEPT !.whole = whole, !.arch = arch])]

AssignArchivePaths(entries) == FoldLeft(Assign, [used |-> {}, out |-> <<>>], entries).out

(***************************************************************************)
(* The plan of a request for the log rows picks, made at now of host h.    *)
(***************************************************************************)
LogPlanFor(req, h, now) ==
  LET res == ResolvePicks(req.picks)
      window == ClampLogRange(req, now)
      en == Enumerate(res.picks, h, window.from)
      planned == PlanEntries(en.rows, en.misses \o UnlistedPicks(res.picks, en), window.from, window.to)
      unique == DedupeEntries(planned \o CmdEntries(res.picks), SpecificModules(en.rows))
  IN IF res.picks = <<>> \/ ~window.ok \/ ~h.answers THEN [ok |-> FALSE]
     ELSE [ok |-> TRUE, from |-> window.from, to |-> window.to,
           rejected |-> res.rejected, entries |-> AssignArchivePaths(unique)]

(***************************************************************************)
(* The names of a host's files tell the truth: a dated file has nothing of *)
(* the days before, a rotated one nothing of the days after, and of the    *)
(* rotated files of one series each begins where the one before it ends.   *)
(***************************************************************************)
NamesTell(h) ==
  \A f \in h.files :
    /\ f.kind = "dated" => Midnight(f.day) <= f.first
    /\ f.kind = "rotated" =>
         /\ f.last <= EndOf(f.day)
         /\ \A g \in h.files \ {f} :
              g.kind = "rotated" /\ g.series = f.series /\ g.day <= f.day => Midnight(g.day) <= f.first

(***************************************************************************)
(* What the copy script does with a file it filtered, and what the tool    *)
(* says of it.  rc is the filter's exit code (0 lines came out, 3 no time  *)
(* was recognised, 4 none is in range), st its statistics.                 *)
(***************************************************************************)
FilterActionFor(rc, st) ==
  CASE ~st.found -> "whole"
    [] st.found /\ rc = 4 -> "none"
    [] st.found /\ rc \notin {0, 4} -> "whole"
    [] st.found /\ rc = 0 ->
         IF st.lines > 0 /\ (st.emitted = 0 \/ st.dated * 10 < st.lines) THEN "whole"
         ELSE IF st.preTrunc = 0 /\ st.emitted = st.lines THEN "nocut" ELSE "filtered"

FilterVerdict(rc, st) ==
  CASE ~st.found \/ rc \notin {0, 3, 4} -> "failed"
    [] st.found /\ rc = 3 -> "whole"
    [] st.found /\ rc = 4 -> "none"
    [] st.found /\ rc = 0 ->
         IF st.lines > 0 /\ st.emitted = 0 THEN "whole"
         ELSE IF st.lines > 0 /\ 100 * st.dated < 10 * st.lines THEN "whole"
         ELSE IF st.preTrunc > 0 THEN "filtered"
         ELSE IF st.emitted = st.lines THEN "uncut" ELSE "filtered"

(***************************************************************************)
(* Directories of the servers of one archive.  A server is [id, name,      *)
(* addr], name the first of its names that can be sanitised; both are      *)
(* sequences of the parts around "_".                                     *)
(***************************************************************************)
ServerDirNames(servers) ==
  LET shared(s) == \E t \in ToSet(servers) : t.id # s.id /\ t.name = s.name
      Named(st, s) ==
        LET first == IF shared(s) /\ s.addr # <<>> THEN s.name \o s.addr ELSE s.name
            name == IF first \in Range(st) THEN first \o <<s.id>> ELSE first
        IN [d \in DOMAIN st \cup {s.id} |-> IF d = s.id THEN name ELSE st[d]]
  IN FoldLeft(Named, <<>>, servers)

(***************************************************************************)
(* A plan is honest.  Every ticked row is named in it or among the         *)
(* rejected, and only what the catalogue does not know is rejected; of a   *)
(* directory that was read, no file with a line in the window is missing,  *)
(* whatever its name claims of its content; of the modules that claim a    *)
(* file one takes it, and the others name one of those that claim it; no   *)
(* two files share a place in the archive, whether the host cuts them or   *)
(* not.                                                                    *)
(***************************************************************************)
Overlaps(f, from, to) == (from > 0 => f.last >= from) /\ (to > 0 => f.first <= to)

EntriesOf(plan, p) == {e \in ToSet(plan.entries) : e.cat = p.cat /\ e.mod = p.mod}

\* The claims on the file of the claim e that are not given up.
Takers(plan, e) ==
  {i \in DOMAIN plan.entries :
     ~plan.entries[i].cmd /\ plan.entries[i].src = e.src /\ plan.entries[i].dup = <<>>}

PlanRight(req, h, plan) ==
  plan.ok =>
    /\ \A p \in ToSet(req.picks) :
         IF Contains(plan.rejected, p)
         THEN p.cat \notin DOMAIN Catalog \/ ~(Def(p).cmd \/ PickAllowed(p))
         ELSE /\ EntriesOf(plan, p) # {}
              /\ ~Def(p).cmd /\ h.state[p.dir] = "there" =>
                   \A f \in h.files : Under(f, p.dir) /\ Overlaps(f, plan.from, plan.to) =>
                     \E e \in EntriesOf(plan, p) : e.src = f.path /\ (e.left => f.name = <<>>)
    /\ \A e \in ToSet(plan.entries) : ~e.cmd /\ e.src # "" =>
         /\ \E i \in DOMAIN plan.entries : Takers(plan, e) = {i}
         /\ e.dup # <<>> => \E s \in ToSet(plan.entries) :
              ~s.cmd /\ s.src = e.src /\ <<s.cat, s.mod>> = e.dup
    /\ \A i, j \in DOMAIN plan.entries :
         LET Places(e) == IF e.left \/ e.dup # <<>> THEN {} ELSE {e.whole, e.arch}
         IN i # j => Places(plan.entries[i]) \cap Places(plan.entries[j]) = {}

\* A claim that is given up names the one that is taken: fails where three modules claim a file.
DuplicatesNameTaker(plan) ==
  plan.ok => \A e \in ToSet(plan.entries) : e.dup # <<>> =>
    \E i \in Takers(plan, e) : <<plan.entries[i].cat, plan.entries[i].mod>> = e.dup

\* The script and the tool judge one run of the filter alike.
VerdictsAgree(rc, st) ==
  <<FilterActionFor(rc, st), FilterVerdict(rc, st)>> \in
    {<<"whole", "whole">>, <<"whole", "failed">>, <<"none", "none">>,
     <<"nocut", "uncut">>, <<"filtered", "filtered">>}
=============================================================================
