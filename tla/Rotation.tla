------------------------------ MODULE Rotation ------------------------------
(***************************************************************************)
(* Rotation of the managed passwords, root and liz, of one host            *)
(* (internal/monitor/passwd.go), with the journal of its steps             *)
(* (internal/pwledger/pwledger.go) and the stored login password that is   *)
(* brought up to date afterwards (app.go, internal/host/host.go).          *)
(*                                                                         *)
(* The app logs in as Login, an account that may or may not be managed;    *)
(* unless that is root, every command runs under sudo with the session's   *)
(* password.  Faults names what may go wrong in a run besides a refused    *)
(* command: "crash" of the app, "drop" of the link, "journal" writes that  *)
(* fail, a ledger or host "store" that fails the final reconciliation, and *)
(* calls that "overlap".                                                   *)
(***************************************************************************)
EXTENDS Integers, Sequences, FiniteSets

CONSTANTS
  Calls,       \* goroutines that call RenewPasswords or ChangePasswords
  Login,       \* Host.User
  Passwords,
  Temp,        \* Config.TempPassword
  None,        \* no session, no password
  MaxEntries,  \* bound: steps the ledger records
  Faults

ASSUME RotationAssumption ==
  /\ Temp \in Passwords /\ None \notin Passwords
  /\ MaxEntries \in Nat
  /\ Faults \subseteq {"crash", "drop", "journal", "store", "overlap"}

VARIABLES
  real,    \* password of each account on the host
  first,   \* what it was at the beginning
  sess,    \* session.password of the live session, None without one
  stored,  \* Host.Password in hosts.json
  ledger,  \* entries of pwledger.json, oldest first
  stage,   \* where each call is
  todo,    \* steps left to a call, the present one first
  entry,   \* ledger entry of a call's present step, 0 when it was not written
  cut,     \* calls whose session is gone
  was,     \* real, when a renewal began
  lost     \* history: entries of the steps that set Login's password unheard

vars == <<real, first, sess, stored, ledger, stage, todo, entry, cut, was, lost>>

Users == {"root", "liz", Login}

\* managedAccounts: the login account comes last.
managedAccounts == IF Login = "root" THEN <<"liz", "root">> ELSE <<"root", "liz">>

Step(a, p) == [account |-> a, pw |-> p]

Managed == Login \in {"root", "liz"}

Idle(c) == stage[c] = "idle"

Goto(c, l) == stage' = [stage EXCEPT ![c] = l]

Init ==
  /\ real \in [Users -> Passwords]
  /\ first = real
  /\ sess = None
  /\ stored = real[Login]
  /\ ledger = <<>>
  /\ stage = [c \in Calls |-> "idle"]
  /\ todo = [c \in Calls |-> <<>>]
  /\ entry = [c \in Calls |-> 0]
  /\ cut = {}
  /\ was = [c \in Calls |-> None]
  /\ lost = {}

-----------------------------------------------------------------------------
(* Defects: what a definition of the ledger would be with a plausible mistake.     *)

\* Begin writes nothing.
Append_Never(c, s) == entry' = [entry EXCEPT ![c] = 0] /\ UNCHANGED ledger

\* Begin returns the identifier of the entry after its own.
Append_Next(c, s) ==
  /\ ledger' = Append(ledger, [account |-> s.account, pw |-> s.pw, status |-> "pending"])
  /\ entry' = [entry EXCEPT ![c] = Len(ledger) + 2]

\* The status goes to the last entry of the ledger.
SetStatus_Last(c, st) ==
  ledger' = IF entry[c] = 0 THEN ledger ELSE [ledger EXCEPT ![Len(ledger)].status = st]

\* The newest entry of the login account is taken whatever its status.
OkLogin_AnyStatus == {i \in 1 .. Len(ledger) : ledger[i].account = Login}

-----------------------------------------------------------------------------
(* The ledger.                                                             *)

\* Append: a step about to run.  Its error is ignored, and then no identifier
\* is kept.
Append_(c, s) ==
  \/ /\ ledger' = Append(ledger, [account |-> s.account, pw |-> s.pw, status |-> "pending"])
     /\ entry' = [entry EXCEPT ![c] = Len(ledger) + 1]
  \/ /\ "journal" \in Faults
     /\ entry' = [entry EXCEPT ![c] = 0]
     /\ UNCHANGED ledger

\* SetStatus: nothing for an unknown identifier, and an ignored error.
SetStatus(c, st) ==
  \/ ledger' = IF entry[c] = 0 THEN ledger ELSE [ledger EXCEPT ![entry[c]].status = st]
  \/ "journal" \in Faults /\ UNCHANGED ledger

\* The entries that succeeded for an account.
OkOf(a) == {i \in 1 .. Len(ledger) : ledger[i].account = a /\ ledger[i].status = "ok"}

OkLogin == OkOf(Login)

\* reconcileLoginPassword: the newest of them, if any, is the password to store.
Newest(S) == CHOOSE i \in S : \A j \in S : j <= i

-----------------------------------------------------------------------------
(* Defects of the calls.                                                  *)

\* rotate leaves session.password alone.
Succeed_StaleSession(c) ==
  /\ stage[c] = "applied"
  /\ SetStatus(c, "ok")
  /\ todo' = [todo EXCEPT ![c] = Tail(@)]
  /\ Goto(c, IF Tail(todo[c]) = <<>> THEN "sync" ELSE "journal")
  /\ UNCHANGED <<real, first, sess, stored, entry, cut, was, lost>>

\* The two steps of a renewal in the wrong order.
RenewPlan_Swapped ==
  LET a == managedAccounts IN
  <<Step(a[1], sess), Step(a[1], Temp), Step(a[2], sess), Step(a[2], Temp)>>

-----------------------------------------------------------------------------
(* The calls.                                                              *)

\* current -> temporary -> current for each account.
RenewPlan ==
  LET a == managedAccounts IN
  <<Step(a[1], Temp), Step(a[1], sess), Step(a[2], Temp), Step(a[2], sess)>>

ChangePlan(p) == LET a == managedAccounts IN <<Step(a[1], p), Step(a[2], p)>>

\* Bound: the ledger has room for every step that calls have left.
Room(n) ==
  Len(ledger) + n + Cardinality(UNION {{c} \X DOMAIN todo[c] : c \in Calls}) <= MaxEntries

MayBegin(c) == Idle(c) /\ ("overlap" \in Faults \/ \A d \in Calls : Idle(d))

Plan(c, steps) ==
  /\ Room(Len(steps))
  /\ todo' = [todo EXCEPT ![c] = steps]
  /\ Goto(c, "journal")
  /\ UNCHANGED <<real, first, sess, stored, ledger, entry, cut, lost>>

RenewPasswords(c) ==
  /\ MayBegin(c)
  /\ sess # None /\ sess # Temp
  /\ was' = [was EXCEPT ![c] = real]
  /\ Plan(c, RenewPlan)

ChangePasswords(c, p) ==
  /\ MayBegin(c)
  /\ sess # None
  /\ UNCHANGED was
  /\ Plan(c, ChangePlan(p))

\* No session, or the temporary password is the present one: the call fails,
\* and still the stored password is reconciled.
Reject(c) ==
  /\ MayBegin(c)
  /\ sess \in {None, Temp}
  /\ Goto(c, "sync")
  /\ UNCHANGED <<real, first, sess, stored, ledger, todo, entry, cut, was, lost>>

\* PwRecorder.Begin.
Journal(c) ==
  /\ stage[c] = "journal"
  /\ Append_(c, Head(todo[c]))
  /\ Goto(c, "set")
  /\ UNCHANGED <<real, first, sess, stored, todo, cut, was, lost>>

\* setPassword: passwd runs as root, which needs the login account's password
\* unless Login is root.
Apply(c) ==
  /\ stage[c] = "set" /\ c \notin cut
  /\ Login # "root" => sess = real[Login]
  /\ real' = [real EXCEPT ![Head(todo[c]).account] = Head(todo[c]).pw]
  /\ Goto(c, "applied")
  /\ UNCHANGED <<first, sess, stored, ledger, todo, entry, cut, was, lost>>

\* No connection any more, no sudo, or passwd refuses.
Refuse(c) ==
  /\ stage[c] = "set"
  /\ Goto(c, "failed")
  /\ UNCHANGED <<real, first, sess, stored, ledger, todo, entry, cut, was, lost>>

\* Entries of the steps of C that set the login account's password and are not
\* marked yet.
Setting(C) ==
  {entry[c] : c \in {d \in C : stage[d] = "applied" /\ Head(todo[d]).account = Login}}

\* The answer does not arrive: the connection went down after the command.
LoseAnswer(c) ==
  /\ stage[c] = "applied" /\ c \in cut
  /\ Goto(c, "failed")
  /\ lost' = lost \cup Setting({c})
  /\ UNCHANGED <<real, first, sess, stored, ledger, todo, entry, cut, was>>

\* PwRecorder.Done "ok", session.password, and the next step.
Succeed(c) ==
  /\ stage[c] = "applied"
  /\ SetStatus(c, "ok")
  /\ sess' = IF Head(todo[c]).account = Login /\ c \notin cut THEN Head(todo[c]).pw ELSE sess
  /\ todo' = [todo EXCEPT ![c] = Tail(@)]
  /\ Goto(c, IF Tail(todo[c]) = <<>> THEN "sync" ELSE "journal")
  /\ UNCHANGED <<real, first, stored, entry, cut, was, lost>>

\* PwRecorder.Done "fail": the rotation stops here.
Fail(c) ==
  /\ stage[c] = "failed"
  /\ SetStatus(c, "fail")
  /\ Goto(c, "sync")
  /\ UNCHANGED <<real, first, sess, stored, todo, entry, cut, was, lost>>

\* The call ends.
Return(c) ==
  /\ stage[c] = "sync"
  /\ todo' = [todo EXCEPT ![c] = <<>>]
  /\ entry' = [entry EXCEPT ![c] = 0]
  /\ was' = [was EXCEPT ![c] = None]
  /\ cut' = cut \ {c}
  /\ Goto(c, "idle")
  /\ UNCHANGED <<real, first, sess, ledger, lost>>

\* reconcileLoginPassword.
Reconcile(c) ==
  /\ Return(c)
  /\ stored' = IF Managed /\ OkLogin # {} THEN ledger[Newest(OkLogin)].pw ELSE stored

\* The same when the ledger cannot be read, or UpdatePassword cannot read or
\* write hosts.json: nobody is told.
ReconcileFails(c) ==
  /\ "store" \in Faults
  /\ Return(c)
  /\ UNCHANGED stored

-----------------------------------------------------------------------------
(* The world around.                                                       *)

\* The user connects with the stored password.
Connect ==
  /\ sess = None /\ stored = real[Login]
  /\ sess' = stored
  /\ UNCHANGED <<real, first, stored, ledger, stage, todo, entry, cut, was, lost>>

\* The link goes down, or the user disconnects.
Drop ==
  /\ "drop" \in Faults
  /\ sess # None
  /\ sess' = None
  /\ cut' = {c \in Calls : ~Idle(c)}
  /\ UNCHANGED <<real, first, stored, ledger, stage, todo, entry, was, lost>>

\* The app dies and starts again: files and host stay.
Crash ==
  /\ "crash" \in Faults
  /\ sess' = None
  /\ stage' = [c \in Calls |-> "idle"]
  /\ todo' = [c \in Calls |-> <<>>]
  /\ entry' = [c \in Calls |-> 0]
  /\ cut' = {}
  /\ was' = [c \in Calls |-> None]
  /\ lost' = lost \cup Setting(Calls)
  /\ UNCHANGED <<real, first, stored, ledger>>

\* The user, unable to connect, finds the password and corrects the stored one.
SaveHost ==
  /\ sess = None /\ stored # real[Login]
  /\ stored' = real[Login]
  /\ UNCHANGED <<real, first, sess, ledger, stage, todo, entry, cut, was, lost>>

CallStep(c) ==
  \/ RenewPasswords(c) \/ Reject(c)
  \/ \E p \in Passwords : ChangePasswords(c, p)
  \/ Journal(c) \/ Apply(c) \/ Refuse(c) \/ LoseAnswer(c)
  \/ Succeed(c) \/ Fail(c) \/ Reconcile(c) \/ ReconcileFails(c)

Next ==
  \/ \E c \in Calls : CallStep(c)
  \/ Connect \/ Drop \/ Crash \/ SaveHost

Spec == Init /\ [][Next]_vars
-----------------------------------------------------------------------------
Entries == [account : {"root", "liz"}, pw : Passwords, status : {"pending", "ok", "fail"}]

TypeOK ==
  /\ real \in [Users -> Passwords] /\ first \in [Users -> Passwords]
  /\ sess \in Passwords \cup {None}
  /\ stored \in Passwords
  /\ ledger \in Seq(Entries)
  /\ stage \in [Calls -> {"idle", "journal", "set", "applied", "failed", "sync"}]
  /\ todo \in [Calls -> Seq([account : {"root", "liz"}, pw : Passwords])]
  /\ entry \in [Calls -> 0 .. Len(ledger)]
  /\ cut \subseteq Calls
  /\ was \in [Calls -> [Users -> Passwords] \cup {None}]
  /\ lost \subseteq 0 .. Len(ledger)

\* SetStatus flips the entry of the step that just ran, also when another call
\* has written to the ledger meanwhile.
JournalMatches ==
  \A c \in Calls : stage[c] \in {"set", "applied", "failed"} /\ entry[c] # 0 =>
    /\ ledger[entry[c]].account = Head(todo[c]).account
    /\ ledger[entry[c]].pw = Head(todo[c]).pw
    /\ ledger[entry[c]].status = "pending"

\* pwledger.go: whatever breaks midway, the engineer finds in the ledger the
\* password an account is sitting on.  It is one of those recorded since the
\* newest success of that account, that success included, or the first one.
Known(a) ==
  \/ real[a] = first[a] /\ OkOf(a) = {}
  \/ \E i \in 1 .. Len(ledger) :
       ledger[i].account = a /\ ledger[i].pw = real[a] /\ \A j \in OkOf(a) : j <= i

LedgerTells == \A a \in Users : Known(a)

\* passwd.go: a rotation never runs a command under a stale sudo password, in
\* the middle of changing that very password.
SudoWorks == \A c \in Calls : stage[c] = "set" /\ c \notin cut => sess = real[Login]

\* passwd.go: the login password is unchanged at the end of a renewal.
RenewKeepsLogin ==
  \A c \in Calls :
    stage[c] = "sync" /\ was[c] # None /\ todo[c] = <<>> => real[Login] = was[c][Login]

\* The login account's password was set by a step that the app never heard of,
\* newer than every success.  Its entry is not ok, and is in the ledger.
Unheard ==
  \E i \in lost \cap (1 .. Len(ledger)) :
    /\ ledger[i].account = Login /\ ledger[i].pw = real[Login]
    /\ \A j \in OkLogin : j < i

\* app.go: the stored password is brought to what the login account actually
\* ended on, even on a failure midway, and whatever crashed, was lost or could
\* not be stored before.  The one way to store another is a step whose effect
\* was never heard of; then the ledger has the password further up.
SyncsToReal ==
  [][\A c \in Calls : Reconcile(c) => stored' = real[Login] \/ Unheard]_vars

-----------------------------------------------------------------------------
(* Statements of the repository that the program does not keep.            *)

\* app.go: reconnects keep working.  A stored password that is right is not
\* replaced by one that is not.
ReconnectsWork ==
  [][\A c \in Calls : Reconcile(c) /\ stored = real[Login] => stored' = real[Login]]_vars
=============================================================================
