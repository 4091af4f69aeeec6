------------------------------ MODULE Nethogs ------------------------------
(***************************************************************************)
(* The network overlay of one host (internal/monitor/monitor.go,           *)
(* InstallNethogs to startNethogs): nethogs is installed when it is not    *)
(* there, streamed behind a heartbeat, and taken away again by undoing the *)
(* package transaction it came with, while administrators use dnf too.     *)
(* HostTools gives this part its initial state and its place beside        *)
(* Recording.                                                              *)
(*                                                                         *)
(* Abstractions.  A dnf call is one step: dnf holds a lock.  Of the        *)
(* figures nothing is kept but whether they are shown as live.             *)
(***************************************************************************)
EXTENDS Integers, Sequences, FiniteSets

CONSTANTS
  MaxTx,     \* bound: transactions in the package history
  NhFaults   \* what may go wrong, see AllNhFaults

AllNhFaults ==
  {"otherTx",    \* an administrator uses dnf between our look for nethogs and our look at the history
   "takeover"}   \* an administrator removes the nethogs that is ours and installs another

ASSUME NethogsAssumption == NhFaults \subseteq AllNhFaults /\ MaxTx \in Nat

VARIABLES
  txs,      \* dnf history: who ordered each transaction, and what it did
  package,  \* the transaction that brought the nethogs there is; 0: there is none
  session,  \* a session is connected
  byUs,     \* session: nhInstalledByUs
  txID,     \* session: nhTxID, 0 for none
  install,  \* how far an InstallNethogs call has come
  shown,    \* session: the overlay is live
  running,  \* a nethogs of ours runs on the host
  readers,  \* streams whose reader is still to report its end: the session's, one before it
  undone    \* history: transactions this program has undone

nhVars == <<txs, package, session, byUs, txID, install, shown, running, readers, undone>>

Tx(who, what) == [who |-> who, what |-> what]

\* nethogs may have been there before.
NhInit ==
  /\ \/ txs = <<Tx("admin", "other")>> /\ package = 0
     \/ txs = <<Tx("admin", "nethogs")>> /\ package = 1
  /\ session = TRUE /\ byUs = FALSE /\ txID = 0
  /\ install = "idle" /\ shown = FALSE
  /\ running = FALSE /\ readers = {} /\ undone = {}

\* what connecting makes of the session's fields
Fresh ==
  /\ byUs' = FALSE /\ txID' = 0
  /\ install' = "idle" /\ shown' = FALSE

-----------------------------------------------------------------------------
(* InstallNethogs *)

\* A nethogs that is there before is never ours.
FindsNethogs ==
  /\ session /\ install = "idle" /\ ~shown
  /\ IF package # 0
       THEN install' = "starting" /\ byUs' = FALSE
       ELSE install' = "absent" /\ UNCHANGED byUs
  /\ UNCHANGED <<txs, package, session, txID, shown, running, readers, undone>>

\* dnf install: without a transaction if nethogs has come meanwhile.
Installs ==
  /\ install = "absent" /\ Len(txs) < MaxTx
  /\ IF package = 0
       THEN txs' = Append(txs, Tx("us", "nethogs")) /\ package' = Len(txs')
       ELSE UNCHANGED <<txs, package>>
  /\ install' = "installed"
  /\ UNCHANGED <<session, byUs, txID, shown, running, readers, undone>>

InstallFails ==
  /\ install = "absent"
  /\ install' = "idle"
  /\ UNCHANGED <<txs, package, session, byUs, txID, shown, running, readers, undone>>

\* dnf history info last; without an answer the id stays empty.
NotesTransaction(answered) ==
  /\ install = "installed"
  /\ txID' = IF answered THEN Len(txs) ELSE 0
  /\ byUs' = TRUE
  /\ install' = "starting"
  /\ UNCHANGED <<txs, package, session, shown, running, readers, undone>>

\* startNethogs: pkill -x takes every nethogs on the host.
Starts ==
  /\ install = "starting"
  /\ install' = "idle"
  /\ running' = (package # 0)
  /\ readers' = {"cur"} \cup (IF readers # {} THEN {"old"} ELSE {})
  /\ shown' = TRUE
  /\ UNCHANGED <<txs, package, session, byUs, txID, undone>>

StartFails ==
  /\ install = "starting"
  /\ install' = "idle"
  /\ running' = FALSE
  /\ UNCHANGED <<txs, package, session, byUs, txID, shown, readers, undone>>

-----------------------------------------------------------------------------
(* the stream *)

\* nethogs ends; its wrapper goes on reading heartbeats.
ProcDies ==
  /\ running
  /\ running' = FALSE
  /\ UNCHANGED <<txs, package, session, byUs, txID, install, shown, readers, undone>>

\* The reader of a stream ends when its output does, and turns the overlay off:
\* that of a later stream too.
ReaderEnds(s) ==
  /\ s \in readers
  /\ s = "cur" => ~running
  /\ readers' = readers \ {s}
  /\ shown' = FALSE
  /\ UNCHANGED <<txs, package, session, byUs, txID, install, running, undone>>

-----------------------------------------------------------------------------
(* RollbackNethogs *)

\* A mistake: what is undone is the last transaction.
Target_Last == IF txID # 0 THEN Len(txs) ELSE package

\* dnf history undo of the transaction noted, dnf remove without one
Target == IF txID # 0 THEN txID ELSE package

Rolls == session /\ install = "idle"

RollbackOnlyStops ==
  /\ Rolls /\ ~byUs
  /\ shown' = FALSE
  /\ running' = FALSE
  /\ UNCHANGED <<txs, package, session, byUs, txID, install, readers, undone>>

RollbackUndoes ==
  LET takesNethogs == Target # 0 /\ txs[Target].what = "nethogs"
  IN  /\ Rolls /\ byUs
      /\ Len(txs) < MaxTx
      /\ shown' = FALSE /\ running' = FALSE
      /\ undone' = undone \cup ({Target} \ {0})
                          \cup (IF takesNethogs THEN {package} \ {0} ELSE {})
      /\ txs' = Append(txs, Tx("us", "undo"))
      /\ package' = IF takesNethogs THEN 0 ELSE package
      /\ byUs' = FALSE /\ txID' = 0
      /\ UNCHANGED <<session, install, readers>>

\* dnf refuses: the stream is over, the package stays and so does the note.
RollbackFails ==
  /\ Rolls /\ byUs
  /\ shown' = FALSE /\ running' = FALSE
  /\ UNCHANGED <<txs, package, session, byUs, txID, install, readers, undone>>

-----------------------------------------------------------------------------
(* sessions and administrators *)

\* The session is lost or ended; its nethogs runs on until the heartbeat is missed.
NhCut ==
  /\ session /\ session' = FALSE
  /\ readers' = {}
  /\ Fresh
  /\ UNCHANGED <<txs, package, running, undone>>

NhConnect ==
  /\ ~session /\ session' = TRUE
  /\ Fresh
  /\ UNCHANGED <<txs, package, running, readers, undone>>

NhReboot ==
  /\ running' = FALSE /\ readers' = {}
  /\ session' = FALSE
  /\ Fresh
  /\ UNCHANGED <<txs, package, undone>>

AdminMayAct == install \in {"absent", "installed"} => "otherTx" \in NhFaults

AdminInstalls(what) ==
  /\ AdminMayAct /\ Len(txs) < MaxTx
  /\ what = "nethogs" =>
       /\ package = 0
       /\ byUs => "takeover" \in NhFaults
  /\ txs' = Append(txs, Tx("admin", what))
  /\ package' = IF what = "nethogs" THEN Len(txs') ELSE package
  /\ UNCHANGED <<session, byUs, txID, install, shown, running, readers, undone>>

AdminRemoves ==
  /\ AdminMayAct /\ Len(txs) < MaxTx
  /\ package # 0
  /\ txs' = Append(txs, Tx("admin", "remove"))
  /\ package' = 0
  /\ running' = FALSE
  /\ UNCHANGED <<session, byUs, txID, install, shown, readers, undone>>

NhNext ==
  \/ FindsNethogs \/ Installs \/ InstallFails \/ Starts \/ StartFails
  \/ \E answered \in BOOLEAN : NotesTransaction(answered)
  \/ ProcDies \/ \E s \in {"cur", "old"} : ReaderEnds(s)
  \/ RollbackOnlyStops \/ RollbackUndoes \/ RollbackFails
  \/ \E what \in {"nethogs", "other"} : AdminInstalls(what)
  \/ AdminRemoves
  \/ NhCut \/ NhConnect \/ NhReboot

-----------------------------------------------------------------------------
(* A rollback undoes this program's own installation and nothing else: no  *)
(* transaction of an administrator and no nethogs an administrator put     *)
(* there, over reinstallations, failed rollbacks and lost sessions         *)
(* (InstallNethogs' note against RollbackNethogs).                         *)
OnlyOursUndone == \A t \in undone : txs[t] = Tx("us", "nethogs")
=============================================================================
