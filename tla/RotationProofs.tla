--------------------------- MODULE RotationProofs ---------------------------
(***************************************************************************)
(* Proofs about Rotation for any calls, passwords, login account and       *)
(* bound, and for every set of faults: each part of the strengthening says *)
(* which faults it survives.                                               *)
(***************************************************************************)
EXTENDS Rotation, SequenceTheorems, WellFoundedInduction, TLAPS

Running == {"set", "applied", "failed"}

\* A call in the middle of its plan has a step to take.
HasStep == \A c \in Calls : stage[c] \in Running \cup {"journal"} => todo[c] # <<>>

\* No two calls wait for the outcome of the same entry.
Distinct ==
  \A c, d \in Calls :
    stage[c] \in Running /\ stage[d] \in Running /\ entry[c] # 0 /\ entry[c] = entry[d] => c = d

Alone == \A c, d \in Calls : ~Idle(c) /\ ~Idle(d) => c = d

\* A step that was applied is still in effect.
InEffect ==
  \A c \in Calls : stage[c] = "applied" => real[Head(todo[c]).account] = Head(todo[c]).pw

\* The session's password is the login account's, except while the session
\* waits to hear that it changed.
SessionTrue ==
  /\ \A c \in Calls : ~Idle(c) /\ c \notin cut /\ stage[c] # "sync" => sess # None
  /\ sess # None =>
       \/ sess = real[Login]
       \/ \E c \in Calls : /\ c \notin cut /\ stage[c] = "applied"
                           /\ Head(todo[c]).account = Login

\* The last step of a renewal gives the login account its old password.
RenewEnds ==
  \A c \in Calls : was[c] # None =>
    /\ ~Idle(c)
    /\ IF Managed /\ todo[c] # <<>>
         THEN todo[c][Len(todo[c])] = Step(Login, was[c][Login])
         ELSE real[Login] = was[c][Login]

\* The present step has the last entry.
LastEntry ==
  \A c \in Calls : stage[c] \in Running => entry[c] = Len(ledger) /\ entry[c] # 0

\* The faults under which the ledger itself says nothing.
Quiet == "overlap" \notin Faults /\ "journal" \notin Faults

\* The newest success is the login account's password, except while a step that
\* was applied is not marked yet, or when it never will be.
Exact ==
  \/ \E c \in Calls : stage[c] = "applied" /\ Head(todo[c]).account = Login
  \/ Unheard
  \/ /\ OkLogin = {} => stored = real[Login]
     /\ \A i \in OkLogin : (\A j \in OkLogin : j <= i) => ledger[i].pw = real[Login]

IInv ==
  /\ TypeOK
  /\ HasStep
  /\ JournalMatches
  /\ Distinct
  /\ "overlap" \notin Faults => Alone /\ InEffect /\ SessionTrue /\ RenewEnds
  /\ "overlap" \notin Faults /\ "journal" \notin Faults => LastEntry /\ LedgerTells
  /\ Quiet => Exact

-----------------------------------------------------------------------------
(* What the writes of the ledger leave alone.                              *)

Stp == [account : {"root", "liz"}, pw : Passwords]

LEMMA AppendEffect ==
  ASSUME TypeOK, NEW c \in Calls, NEW s \in Stp, Append_(c, s)
  PROVE  /\ ledger' \in Seq(Entries)
         /\ entry' \in [Calls -> 0 .. Len(ledger')]
         /\ Len(ledger') >= Len(ledger)
         /\ \A i \in 1 .. Len(ledger) : ledger'[i] = ledger[i]
         /\ \A d \in Calls \ {c} : entry'[d] = entry[d]
         /\ \/ "journal" \in Faults /\ entry'[c] = 0 /\ ledger' = ledger
            \/ /\ entry'[c] = Len(ledger) + 1 /\ Len(ledger') = Len(ledger) + 1
               /\ ledger'[Len(ledger) + 1] =
                    [account |-> s.account, pw |-> s.pw, status |-> "pending"]
<1> DEFINE e == [account |-> s.account, pw |-> s.pw, status |-> "pending"]
<1>1. e \in Entries /\ ledger \in Seq(Entries) /\ Len(ledger) \in Nat
  BY DEF Entries, Stp, TypeOK
<1>2. CASE ledger' = Append(ledger, e) /\ entry' = [entry EXCEPT ![c] = Len(ledger) + 1]
  BY <1>1, <1>2, AppendProperties DEF TypeOK
<1>3. CASE "journal" \in Faults /\ entry' = [entry EXCEPT ![c] = 0] /\ ledger' = ledger
  BY <1>1, <1>3 DEF TypeOK
<1> QED
  BY <1>2, <1>3 DEF Append_

LEMMA StatusEffect ==
  ASSUME TypeOK, NEW c \in Calls, NEW st \in {"ok", "fail"}, SetStatus(c, st)
  PROVE  /\ ledger' \in Seq(Entries) /\ Len(ledger') = Len(ledger)
         /\ \A i \in 1 .. Len(ledger) :
              /\ ledger'[i].account = ledger[i].account /\ ledger'[i].pw = ledger[i].pw
              /\ i # entry[c] => ledger'[i].status = ledger[i].status
              /\ i = entry[c] /\ "journal" \notin Faults => ledger'[i].status = st
<1>1. ledger \in Seq(Entries) /\ Len(ledger) \in Nat /\ entry[c] \in 0 .. Len(ledger)
  BY DEF TypeOK
<1>2. CASE ledger' = ledger /\ ("journal" \in Faults \/ entry[c] = 0)
  BY <1>1, <1>2
<1>3. CASE entry[c] # 0 /\ ledger' = [ledger EXCEPT ![entry[c]].status = st]
  <2>1. ledger[entry[c]] \in Entries
    BY <1>1, <1>3, ElementOfSeq
  <2>2. [ledger[entry[c]] EXCEPT !.status = st] \in Entries
    BY <2>1 DEF Entries
  <2>3. ledger' = [ledger EXCEPT ![entry[c]] = [ledger[entry[c]] EXCEPT !.status = st]]
    BY <1>3
  <2>4. ledger' \in Seq(Entries) /\ Len(ledger') = Len(ledger)
    BY <1>1, <1>3, <2>2, <2>3, ExceptSeq
  <2>5. \A i \in 1 .. Len(ledger) :
          ledger'[i] = IF i = entry[c] THEN [ledger[i] EXCEPT !.status = st] ELSE ledger[i]
    BY <1>1, <1>3
  <2>6. \A i \in 1 .. Len(ledger) : ledger[i] \in Entries
    BY <1>1, ElementOfSeq
  <2> QED
    BY <2>4, <2>5, <2>6 DEF Entries
<1> QED
  BY <1>2, <1>3 DEF SetStatus

LEMMA StepTypes ==
  ASSUME TypeOK, NEW c \in Calls, todo[c] # <<>>
  PROVE  /\ todo[c] \in Seq(Stp) /\ Head(todo[c]) \in Stp /\ Len(todo[c]) \in Nat \ {0}
         /\ Head(todo[c]) = todo[c][1]
         /\ Tail(todo[c]) \in Seq(Stp) /\ Len(Tail(todo[c])) = Len(todo[c]) - 1
         /\ Tail(todo[c]) = <<>> <=> Len(todo[c]) = 1
         /\ Tail(todo[c]) # <<>> =>
              Tail(todo[c])[Len(Tail(todo[c]))] = todo[c][Len(todo[c])]
<1>1. todo[c] \in Seq(Stp)
  BY DEF TypeOK, Stp
<1>2. Len(todo[c]) \in Nat \ {0} /\ Head(todo[c]) = todo[c][1]
  BY <1>1, EmptySeq
<1>3. /\ Head(todo[c]) \in Stp
      /\ Tail(todo[c]) \in Seq(Stp) /\ Len(Tail(todo[c])) = Len(todo[c]) - 1
      /\ \A i \in 1 .. Len(Tail(todo[c])) : Tail(todo[c])[i] = todo[c][i + 1]
  BY <1>1, HeadTailProperties
<1>4. Tail(todo[c]) = <<>> <=> Len(todo[c]) = 1
  <2>1. Len(<<>>) = 0
    BY EmptySeq
  <2>2. Tail(todo[c]) # <<>> => Len(Tail(todo[c])) \in Nat \ {0}
    BY <1>3, EmptySeq
  <2>3. Tail(todo[c]) = <<>> => Len(Tail(todo[c])) = 0
    BY <2>1
  <2>4. Len(Tail(todo[c])) = 0 <=> Len(todo[c]) = 1
    BY <1>2, <1>3
  <2> QED
    BY <2>2, <2>3, <2>4
<1> QED
  BY <1>1, <1>2, <1>3, <1>4

LEMMA PlanTypes ==
  ASSUME TypeOK
  PROVE  /\ sess # None => /\ RenewPlan \in Seq(Stp) /\ RenewPlan # <<>> /\ Len(RenewPlan) = 4
                           /\ Managed => RenewPlan[4] = Step(Login, sess)
         /\ \A p \in Passwords : ChangePlan(p) \in Seq(Stp) /\ ChangePlan(p) # <<>>
<1> QED
  BY RotationAssumption DEF TypeOK, Stp, Step, RenewPlan, ChangePlan, managedAccounts, Managed

LEMMA SettingTypes ==
  ASSUME TypeOK, NEW C \in SUBSET Calls PROVE Setting(C) \subseteq 0 .. Len(ledger)
<1>1. \A c \in C : entry[c] \in 0 .. Len(ledger)
  BY DEF TypeOK
<1> QED
  BY <1>1 DEF Setting

\* Some entry is the newest.
LEMMA NewestIsLast ==
  ASSUME NEW n \in Nat, NEW S \in SUBSET (1 .. n), S # {}
  PROVE  Newest(S) \in S /\ \A j \in S : j <= Newest(S)
<1> DEFINE T == {n - i : i \in S}
<1>1. T \subseteq Nat /\ T # {}
  <2>1. \A i \in S : n - i \in Nat
    OBVIOUS
  <2>2. PICK i \in S : TRUE
    OBVIOUS
  <2>3. n - i \in T
    BY <2>2
  <2> QED
    BY <2>1, <2>3
<1>2. PICK x \in T : \A y \in T : <<y, x>> \notin OpToRel(<, Nat)
  BY <1>1, NatLessThanWellFounded, WFMin
<1>3. \A y \in T : ~(y < x)
  BY <1>1, <1>2 DEF OpToRel
<1>4. PICK i \in S : x = n - i
  BY <1>2
<1>5. \A j \in S : j <= i
  BY <1>3, <1>4
<1> QED
  BY <1>5 DEF Newest

-----------------------------------------------------------------------------
(* Each step preserves IInv.                                               *)

LEMMA RenewPasswordsIInv == ASSUME IInv, NEW c \in Calls, RenewPasswords(c) PROVE IInv'
<1>0. TypeOK
  BY DEF IInv
<1>p. /\ RenewPlan \in Seq(Stp) /\ RenewPlan # <<>> /\ Len(RenewPlan) = 4
      /\ Managed => RenewPlan[4] = Step(Login, sess)
  BY <1>0, PlanTypes DEF RenewPasswords
<1>1. TypeOK'
  BY <1>p, RotationAssumption DEF IInv, Idle, Goto, Running, RenewPasswords, MayBegin,
    Plan, TypeOK, Stp, Users
<1>2. HasStep'
  BY <1>p, RotationAssumption DEF IInv, Idle, Goto, Running, RenewPasswords, MayBegin,
    Plan, TypeOK, HasStep
<1>3. JournalMatches'
  BY <1>p, RotationAssumption DEF IInv, Idle, Goto, Running, RenewPasswords, MayBegin,
    Plan, TypeOK, HasStep, JournalMatches, Distinct
<1>4. Distinct'
  BY <1>p, RotationAssumption DEF IInv, Idle, Goto, Running, RenewPasswords, MayBegin,
    Plan, TypeOK, Distinct
<1>5. ("overlap" \notin Faults => Alone)'
  BY <1>p, RotationAssumption DEF IInv, Idle, Goto, Running, RenewPasswords, MayBegin,
    Plan, TypeOK, Alone
<1>6. ("overlap" \notin Faults => InEffect)'
  BY <1>p, RotationAssumption DEF IInv, Idle, Goto, Running, RenewPasswords, MayBegin,
    Plan, TypeOK, Alone, InEffect, Stp, Users
<1>7. ("overlap" \notin Faults => SessionTrue)'
  BY <1>p, RotationAssumption DEF IInv, Idle, Goto, Running, RenewPasswords, MayBegin,
    Plan, TypeOK, Alone, InEffect, SessionTrue, Stp, Users
<1>8. ("overlap" \notin Faults => RenewEnds)'
  BY <1>p, RotationAssumption DEF IInv, Idle, Goto, Running, RenewPasswords, MayBegin,
    Plan, TypeOK, Alone, InEffect, SessionTrue, RenewEnds, Managed, Step, Stp, Users
<1>9. ("overlap" \notin Faults /\ "journal" \notin Faults => LastEntry)'
  BY <1>p, RotationAssumption DEF IInv, Idle, Goto, Running, RenewPasswords, MayBegin,
    Plan, TypeOK, Alone, LastEntry
<1>10. ("overlap" \notin Faults /\ "journal" \notin Faults => LedgerTells)'
  BY DEF IInv, LedgerTells, Known, OkOf, RenewPasswords, Plan
<1>11. (Quiet => Exact)'
  BY <1>p, RotationAssumption DEF IInv, Idle, Goto, Running, RenewPasswords, MayBegin,
    Plan, TypeOK, Alone, InEffect, LastEntry, HasStep, OkLogin, OkOf, Quiet, Exact, Unheard,
    JournalMatches, SessionTrue, Stp, Users
<1> QED
  BY <1>1, <1>2, <1>3, <1>4, <1>5, <1>6, <1>7, <1>8, <1>9, <1>10, <1>11 DEF IInv

LEMMA ChangePasswordsIInv == ASSUME IInv, NEW c \in Calls, NEW p \in Passwords, ChangePasswords(c, p) PROVE IInv'
<1>0. TypeOK
  BY DEF IInv
<1>p. ChangePlan(p) \in Seq(Stp) /\ ChangePlan(p) # <<>>
  BY <1>0, PlanTypes
<1>1. TypeOK'
  BY <1>p, RotationAssumption DEF IInv, Idle, Goto, Running, ChangePasswords,
    MayBegin, Plan, TypeOK, Stp, Users
<1>2. HasStep'
  BY <1>p, RotationAssumption DEF IInv, Idle, Goto, Running, ChangePasswords,
    MayBegin, Plan, TypeOK, HasStep
<1>3. JournalMatches'
  BY <1>p, RotationAssumption DEF IInv, Idle, Goto, Running, ChangePasswords,
    MayBegin, Plan, TypeOK, HasStep, JournalMatches, Distinct
<1>4. Distinct'
  BY <1>p, RotationAssumption DEF IInv, Idle, Goto, Running, ChangePasswords,
    MayBegin, Plan, TypeOK, Distinct
<1>5. ("overlap" \notin Faults => Alone)'
  BY <1>p, RotationAssumption DEF IInv, Idle, Goto, Running, ChangePasswords,
    MayBegin, Plan, TypeOK, Alone
<1>6. ("overlap" \notin Faults => InEffect)'
  BY <1>p, RotationAssumption DEF IInv, Idle, Goto, Running, ChangePasswords,
    MayBegin, Plan, TypeOK, Alone, InEffect, Stp, Users
<1>7. ("overlap" \notin Faults => SessionTrue)'
  BY <1>p, RotationAssumption DEF IInv, Idle, Goto, Running, ChangePasswords,
    MayBegin, Plan, TypeOK, Alone, InEffect, SessionTrue, Stp, Users
<1>8. ("overlap" \notin Faults => RenewEnds)'
  BY <1>p, RotationAssumption DEF IInv, Idle, Goto, Running, ChangePasswords,
    MayBegin, Plan, TypeOK, Alone, InEffect, SessionTrue, RenewEnds, Managed, Step, Stp,
    Users
<1>9. ("overlap" \notin Faults /\ "journal" \notin Faults => LastEntry)'
  BY <1>p, RotationAssumption DEF IInv, Idle, Goto, Running, ChangePasswords,
    MayBegin, Plan, TypeOK, Alone, LastEntry
<1>10. ("overlap" \notin Faults /\ "journal" \notin Faults => LedgerTells)'
  BY DEF IInv, LedgerTells, Known, OkOf, ChangePasswords, Plan
<1>11. (Quiet => Exact)'
  BY <1>p, RotationAssumption DEF IInv, Idle, Goto, Running, ChangePasswords,
    MayBegin, Plan, TypeOK, Alone, InEffect, LastEntry, HasStep, OkLogin, OkOf, Quiet, Exact, Unheard,
    JournalMatches, SessionTrue, Stp, Users
<1> QED
  BY <1>1, <1>2, <1>3, <1>4, <1>5, <1>6, <1>7, <1>8, <1>9, <1>10, <1>11 DEF IInv

LEMMA RejectIInv == ASSUME IInv, NEW c \in Calls, Reject(c) PROVE IInv'
<1>1. TypeOK'
  BY RotationAssumption DEF IInv, Idle, Goto, Running, Reject, MayBegin, TypeOK, Stp,
    Users
<1>2. HasStep'
  BY RotationAssumption DEF IInv, Idle, Goto, Running, Reject, MayBegin, TypeOK,
    HasStep
<1>3. JournalMatches'
  BY RotationAssumption DEF IInv, Idle, Goto, Running, Reject, MayBegin, TypeOK,
    HasStep, JournalMatches, Distinct
<1>4. Distinct'
  BY RotationAssumption DEF IInv, Idle, Goto, Running, Reject, MayBegin, TypeOK,
    Distinct
<1>5. ("overlap" \notin Faults => Alone)'
  BY RotationAssumption DEF IInv, Idle, Goto, Running, Reject, MayBegin, TypeOK, Alone
<1>6. ("overlap" \notin Faults => InEffect)'
  BY RotationAssumption DEF IInv, Idle, Goto, Running, Reject, MayBegin, TypeOK,
    Alone, InEffect, Stp, Users
<1>7. ("overlap" \notin Faults => SessionTrue)'
  BY RotationAssumption DEF IInv, Idle, Goto, Running, Reject, MayBegin, TypeOK,
    Alone, InEffect, SessionTrue, Stp, Users
<1>8. ("overlap" \notin Faults => RenewEnds)'
  BY RotationAssumption DEF IInv, Idle, Goto, Running, Reject, MayBegin, TypeOK,
    Alone, InEffect, SessionTrue, RenewEnds, Managed, Step, Stp, Users
<1>9. ("overlap" \notin Faults /\ "journal" \notin Faults => LastEntry)'
  BY RotationAssumption DEF IInv, Idle, Goto, Running, Reject, MayBegin, TypeOK,
    Alone, LastEntry
<1>10. ("overlap" \notin Faults /\ "journal" \notin Faults => LedgerTells)'
  BY DEF IInv, LedgerTells, Known, OkOf, Reject
<1>11. (Quiet => Exact)'
  BY RotationAssumption DEF IInv, Idle, Goto, Running, Reject, MayBegin, TypeOK,
    Alone, InEffect, LastEntry, HasStep, OkLogin, OkOf, Quiet, Exact, Unheard, JournalMatches,
    SessionTrue, Stp, Users
<1> QED
  BY <1>1, <1>2, <1>3, <1>4, <1>5, <1>6, <1>7, <1>8, <1>9, <1>10, <1>11 DEF IInv

LEMMA JournalIInv == ASSUME IInv, NEW c \in Calls, Journal(c) PROVE IInv'
<1>a. TypeOK /\ todo[c] # <<>>
  BY DEF IInv, HasStep, Running, Journal
<1>b. /\ todo[c] \in Seq(Stp) /\ Head(todo[c]) \in Stp /\ Len(todo[c]) \in Nat \ {0}
      /\ Head(todo[c]) = todo[c][1]
      /\ Tail(todo[c]) \in Seq(Stp) /\ Len(Tail(todo[c])) = Len(todo[c]) - 1
      /\ Tail(todo[c]) = <<>> <=> Len(todo[c]) = 1
      /\ Tail(todo[c]) # <<>> =>
           Tail(todo[c])[Len(Tail(todo[c]))] = todo[c][Len(todo[c])]
  BY <1>a, StepTypes
<1>c. /\ ledger' \in Seq(Entries)
      /\ entry' \in [Calls -> 0 .. Len(ledger')]
      /\ Len(ledger') >= Len(ledger)
      /\ \A i \in 1 .. Len(ledger) : ledger'[i] = ledger[i]
      /\ \A d \in Calls \ {c} : entry'[d] = entry[d]
      /\ \/ "journal" \in Faults /\ entry'[c] = 0 /\ ledger' = ledger
         \/ /\ entry'[c] = Len(ledger) + 1 /\ Len(ledger') = Len(ledger) + 1
            /\ ledger'[Len(ledger) + 1] =
                 [account |-> Head(todo[c]).account, pw |-> Head(todo[c]).pw,
                  status |-> "pending"]
  BY <1>a, <1>b, AppendEffect DEF Journal
<1>d. Len(ledger) \in Nat /\ Len(ledger') \in Nat
  BY <1>a, <1>c DEF TypeOK
<1>1. TypeOK'
  BY <1>a, <1>b, <1>c, <1>d, RotationAssumption DEF IInv, Idle, Goto, Running,
    Journal, TypeOK, Stp, Users
<1>2. HasStep'
  BY <1>a, <1>b, <1>c, <1>d, RotationAssumption DEF IInv, Idle, Goto, Running,
    Journal, TypeOK, HasStep
<1>3. JournalMatches'
  BY <1>a, <1>b, <1>c, <1>d, RotationAssumption DEF IInv, Idle, Goto, Running,
    Journal, TypeOK, HasStep, JournalMatches, Distinct
<1>4. Distinct'
  BY <1>a, <1>b, <1>c, <1>d, RotationAssumption DEF IInv, Idle, Goto, Running,
    Journal, TypeOK, Distinct
<1>5. ("overlap" \notin Faults => Alone)'
  BY <1>a, <1>b, <1>c, <1>d, RotationAssumption DEF IInv, Idle, Goto, Running,
    Journal, TypeOK, Alone
<1>6. ("overlap" \notin Faults => InEffect)'
  BY <1>a, <1>b, <1>c, <1>d, RotationAssumption DEF IInv, Idle, Goto, Running,
    Journal, TypeOK, Alone, InEffect, Stp, Users
<1>7. ("overlap" \notin Faults => SessionTrue)'
  BY <1>a, <1>b, <1>c, <1>d, RotationAssumption DEF IInv, Idle, Goto, Running,
    Journal, TypeOK, Alone, InEffect, SessionTrue, Stp, Users
<1>8. ("overlap" \notin Faults => RenewEnds)'
  BY <1>a, <1>b, <1>c, <1>d, RotationAssumption DEF IInv, Idle, Goto, Running,
    Journal, TypeOK, Alone, InEffect, SessionTrue, RenewEnds, Managed, Step, Stp, Users
<1>9. ("overlap" \notin Faults /\ "journal" \notin Faults => LastEntry)'
  <2> SUFFICES ASSUME "overlap" \notin Faults, "journal" \notin Faults,
                      NEW d \in Calls, stage'[d] \in Running
               PROVE  entry'[d] = Len(ledger') /\ entry'[d] # 0
    BY DEF LastEntry
  <2>1. d = c
    BY <1>a DEF IInv, TypeOK, Alone, Idle, Journal, Goto, Running
  <2> QED
    BY <1>c, <1>d, <2>1
<1>10. ("overlap" \notin Faults /\ "journal" \notin Faults => LedgerTells)'
  <2> SUFFICES ASSUME "overlap" \notin Faults, "journal" \notin Faults, NEW a \in Users
               PROVE  Known(a)'
    BY DEF LedgerTells
  <2>1. OkOf(a)' = OkOf(a)
    BY <1>c, <1>d DEF OkOf
  <2>2. Known(a)
    BY DEF IInv, LedgerTells
  <2> QED
    BY <1>c, <1>d, <2>1, <2>2 DEF Known, Journal
<1>11. (Quiet => Exact)'
  <2> SUFFICES ASSUME Quiet' PROVE Exact'
    OBVIOUS
  <2>q. Quiet /\ "overlap" \notin Faults /\ "journal" \notin Faults
    BY DEF Quiet, Journal
  <2>1. OkLogin' = OkLogin /\ \A i \in OkLogin : ledger'[i] = ledger[i]
    BY <1>c, <1>d DEF OkLogin, OkOf
  <2>2. \A d \in Calls : stage[d] # "applied"
    BY <1>a, <2>q DEF IInv, TypeOK, Alone, Idle, Journal
  <2>3. Unheard => Unheard'
    BY <1>c, <1>d, <2>1 DEF Unheard, Journal
  <2> QED
    BY <2>1, <2>2, <2>3, <2>q DEF IInv, Exact, Journal
<1> QED
  BY <1>1, <1>2, <1>3, <1>4, <1>5, <1>6, <1>7, <1>8, <1>9, <1>10, <1>11 DEF IInv

LEMMA ApplyIInv == ASSUME IInv, NEW c \in Calls, Apply(c) PROVE IInv'
<1>a. TypeOK /\ todo[c] # <<>>
  BY DEF IInv, HasStep, Running, Apply
<1>b. /\ todo[c] \in Seq(Stp) /\ Head(todo[c]) \in Stp /\ Len(todo[c]) \in Nat \ {0}
      /\ Head(todo[c]) = todo[c][1]
      /\ Tail(todo[c]) \in Seq(Stp) /\ Len(Tail(todo[c])) = Len(todo[c]) - 1
      /\ Tail(todo[c]) = <<>> <=> Len(todo[c]) = 1
      /\ Tail(todo[c]) # <<>> =>
           Tail(todo[c])[Len(Tail(todo[c]))] = todo[c][Len(todo[c])]
  BY <1>a, StepTypes
<1>1. TypeOK'
  BY <1>a, <1>b, RotationAssumption DEF IInv, Idle, Goto, Running, Apply, TypeOK, Stp,
    Users
<1>2. HasStep'
  BY <1>a, <1>b, RotationAssumption DEF IInv, Idle, Goto, Running, Apply, TypeOK,
    HasStep
<1>3. JournalMatches'
  BY <1>a, <1>b, RotationAssumption DEF IInv, Idle, Goto, Running, Apply, TypeOK,
    HasStep, JournalMatches, Distinct
<1>4. Distinct'
  BY <1>a, <1>b, RotationAssumption DEF IInv, Idle, Goto, Running, Apply, TypeOK,
    Distinct
<1>5. ("overlap" \notin Faults => Alone)'
  BY <1>a, <1>b, RotationAssumption DEF IInv, Idle, Goto, Running, Apply, TypeOK,
    Alone
<1>6. ("overlap" \notin Faults => InEffect)'
  BY <1>a, <1>b, RotationAssumption DEF IInv, Idle, Goto, Running, Apply, TypeOK,
    Alone, InEffect, Stp, Users
<1>7. ("overlap" \notin Faults => SessionTrue)'
  BY <1>a, <1>b, RotationAssumption DEF IInv, Idle, Goto, Running, Apply, TypeOK,
    Alone, InEffect, SessionTrue, Stp, Users
<1>8. ("overlap" \notin Faults => RenewEnds)'
  BY <1>a, <1>b, RotationAssumption DEF IInv, Idle, Goto, Running, Apply, TypeOK,
    Alone, InEffect, SessionTrue, RenewEnds, Managed, Step, Stp, Users
<1>9. ("overlap" \notin Faults /\ "journal" \notin Faults => LastEntry)'
  BY <1>a, <1>b, RotationAssumption DEF IInv, Idle, Goto, Running, Apply, TypeOK,
    Alone, LastEntry
<1>10. ("overlap" \notin Faults /\ "journal" \notin Faults => LedgerTells)'
  <2> SUFFICES ASSUME "overlap" \notin Faults, "journal" \notin Faults, NEW a \in Users
               PROVE  Known(a)'
    BY DEF LedgerTells
  <2>1. Known(a) /\ OkOf(a)' = OkOf(a) /\ OkOf(a) \subseteq 1 .. Len(ledger)
    BY DEF IInv, LedgerTells, OkOf, Apply
  <2>2. entry[c] = Len(ledger) /\ entry[c] \in 1 .. Len(ledger)
    BY DEF IInv, TypeOK, LastEntry, Running, Apply
  <2>3. CASE a = Head(todo[c]).account
    <3>0. real'[a] = Head(todo[c]).pw
      BY <1>a, <2>3 DEF TypeOK, Apply
    <3>1. ledger'[Len(ledger)].account = a /\ ledger'[Len(ledger)].pw = real'[a]
      BY <2>2, <2>3, <3>0 DEF IInv, JournalMatches, Apply
    <3>2. \A j \in OkOf(a)' : j <= Len(ledger)
      BY <2>1, <2>2
    <3> QED
      BY <2>2, <3>1, <3>2 DEF Known, Apply
  <2>4. CASE a # Head(todo[c]).account
    BY <1>a, <2>1, <2>4 DEF Known, Apply, TypeOK
  <2> QED
    BY <2>3, <2>4
<1>11. (Quiet => Exact)'
  <2> SUFFICES ASSUME Quiet PROVE Exact'
    BY DEF Quiet
  <2>1. /\ OkLogin' = OkLogin /\ ledger' = ledger /\ stored' = stored
        /\ lost' = lost /\ todo' = todo /\ stage'[c] = "applied"
    BY <1>a DEF OkLogin, OkOf, Apply, Goto, TypeOK
  <2>2. CASE Head(todo[c]).account = Login
    BY <2>1, <2>2 DEF Exact
  <2>3. CASE Head(todo[c]).account # Login
    <3>1. real'[Login] = real[Login]
      BY <1>a, <2>3 DEF Apply, TypeOK, Users
    <3>2. \A d \in Calls : stage[d] # "applied"
      BY DEF IInv, Alone, Idle, Apply, Quiet
    <3> QED
      BY <2>1, <3>1, <3>2 DEF IInv, Exact, Unheard
  <2> QED
    BY <2>2, <2>3
<1> QED
  BY <1>1, <1>2, <1>3, <1>4, <1>5, <1>6, <1>7, <1>8, <1>9, <1>10, <1>11 DEF IInv

LEMMA RefuseIInv == ASSUME IInv, NEW c \in Calls, Refuse(c) PROVE IInv'
<1>1. TypeOK'
  BY RotationAssumption DEF IInv, Idle, Goto, Running, Refuse, TypeOK, Stp, Users
<1>2. HasStep'
  BY RotationAssumption DEF IInv, Idle, Goto, Running, Refuse, TypeOK, HasStep
<1>3. JournalMatches'
  BY RotationAssumption DEF IInv, Idle, Goto, Running, Refuse, TypeOK, HasStep,
    JournalMatches, Distinct
<1>4. Distinct'
  BY RotationAssumption DEF IInv, Idle, Goto, Running, Refuse, TypeOK, Distinct
<1>5. ("overlap" \notin Faults => Alone)'
  BY RotationAssumption DEF IInv, Idle, Goto, Running, Refuse, TypeOK, Alone
<1>6. ("overlap" \notin Faults => InEffect)'
  BY RotationAssumption DEF IInv, Idle, Goto, Running, Refuse, TypeOK, Alone,
    InEffect, Stp, Users
<1>7. ("overlap" \notin Faults => SessionTrue)'
  BY RotationAssumption DEF IInv, Idle, Goto, Running, Refuse, TypeOK, Alone,
    InEffect, SessionTrue, Stp, Users
<1>8. ("overlap" \notin Faults => RenewEnds)'
  BY RotationAssumption DEF IInv, Idle, Goto, Running, Refuse, TypeOK, Alone,
    InEffect, SessionTrue, RenewEnds, Managed, Step, Stp, Users
<1>9. ("overlap" \notin Faults /\ "journal" \notin Faults => LastEntry)'
  BY RotationAssumption DEF IInv, Idle, Goto, Running, Refuse, TypeOK, Alone,
    LastEntry
<1>10. ("overlap" \notin Faults /\ "journal" \notin Faults => LedgerTells)'
  BY DEF IInv, LedgerTells, Known, OkOf, Refuse
<1>11. (Quiet => Exact)'
  BY RotationAssumption DEF IInv, Idle, Goto, Running, Refuse, TypeOK, Alone,
    InEffect, LastEntry, HasStep, OkLogin, OkOf, Quiet, Exact, Unheard, JournalMatches, SessionTrue,
    Stp, Users
<1> QED
  BY <1>1, <1>2, <1>3, <1>4, <1>5, <1>6, <1>7, <1>8, <1>9, <1>10, <1>11 DEF IInv

LEMMA LoseAnswerIInv == ASSUME IInv, NEW c \in Calls, LoseAnswer(c) PROVE IInv'
<1>1. TypeOK'
  <2>1. lost' \subseteq 0 .. Len(ledger)
    BY SettingTypes DEF IInv, TypeOK, LoseAnswer
  <2> QED
    BY <2>1 DEF IInv, Goto, LoseAnswer, TypeOK
<1>2. HasStep'
  BY RotationAssumption DEF IInv, Idle, Goto, Running, LoseAnswer, TypeOK, HasStep
<1>3. JournalMatches'
  BY RotationAssumption DEF IInv, Idle, Goto, Running, LoseAnswer, TypeOK, HasStep,
    JournalMatches, Distinct
<1>4. Distinct'
  BY RotationAssumption DEF IInv, Idle, Goto, Running, LoseAnswer, TypeOK, Distinct
<1>5. ("overlap" \notin Faults => Alone)'
  BY RotationAssumption DEF IInv, Idle, Goto, Running, LoseAnswer, TypeOK, Alone
<1>6. ("overlap" \notin Faults => InEffect)'
  BY RotationAssumption DEF IInv, Idle, Goto, Running, LoseAnswer, TypeOK, Alone,
    InEffect, Stp, Users
<1>7. ("overlap" \notin Faults => SessionTrue)'
  BY RotationAssumption DEF IInv, Idle, Goto, Running, LoseAnswer, TypeOK, Alone,
    InEffect, SessionTrue, Stp, Users
<1>8. ("overlap" \notin Faults => RenewEnds)'
  BY RotationAssumption DEF IInv, Idle, Goto, Running, LoseAnswer, TypeOK, Alone,
    InEffect, SessionTrue, RenewEnds, Managed, Step, Stp, Users
<1>9. ("overlap" \notin Faults /\ "journal" \notin Faults => LastEntry)'
  BY RotationAssumption DEF IInv, Idle, Goto, Running, LoseAnswer, TypeOK, Alone,
    LastEntry
<1>10. ("overlap" \notin Faults /\ "journal" \notin Faults => LedgerTells)'
  BY DEF IInv, LedgerTells, Known, OkOf, LoseAnswer
<1>11. (Quiet => Exact)'
  <2> SUFFICES ASSUME Quiet PROVE Exact'
    BY DEF Quiet
  <2>1. /\ entry[c] = Len(ledger) /\ entry[c] \in 1 .. Len(ledger)
        /\ Len(ledger) \in Nat
    BY DEF IInv, TypeOK, LastEntry, Running, LoseAnswer, Quiet
  <2>2. /\ ledger[entry[c]].account = Head(todo[c]).account
        /\ ledger[entry[c]].pw = Head(todo[c]).pw
        /\ ledger[entry[c]].status = "pending"
        /\ real[Head(todo[c]).account] = Head(todo[c]).pw
    BY <2>1 DEF IInv, JournalMatches, InEffect, LoseAnswer, Quiet
  <2>3. \A d \in Calls : stage[d] = "applied" => d = c
    BY DEF IInv, Alone, Idle, LoseAnswer, Quiet
  <2>4. OkLogin' = OkLogin /\ ledger' = ledger /\ real' = real /\ stored' = stored
    BY DEF OkLogin, OkOf, LoseAnswer
  <2>5. CASE Head(todo[c]).account = Login
    <3>1. entry[c] \in lost'
      BY <2>5 DEF LoseAnswer, Setting
    <3>2. \A j \in OkLogin : j < entry[c]
      BY <2>1, <2>2 DEF OkLogin, OkOf
    <3> QED
      BY <2>1, <2>2, <2>4, <2>5, <3>1, <3>2 DEF Exact, Unheard
  <2>6. CASE Head(todo[c]).account # Login
    <3>1. Unheard => Unheard'
      BY <2>4 DEF Unheard, LoseAnswer
    <3> QED
      BY <2>3, <2>4, <2>6, <3>1 DEF IInv, Exact
  <2> QED
    BY <2>5, <2>6
<1> QED
  BY <1>1, <1>2, <1>3, <1>4, <1>5, <1>6, <1>7, <1>8, <1>9, <1>10, <1>11 DEF IInv

LEMMA SucceedIInv == ASSUME IInv, NEW c \in Calls, Succeed(c) PROVE IInv'
<1>a. TypeOK /\ todo[c] # <<>>
  BY DEF IInv, HasStep, Running, Succeed
<1>b. /\ todo[c] \in Seq(Stp) /\ Head(todo[c]) \in Stp /\ Len(todo[c]) \in Nat \ {0}
      /\ Head(todo[c]) = todo[c][1]
      /\ Tail(todo[c]) \in Seq(Stp) /\ Len(Tail(todo[c])) = Len(todo[c]) - 1
      /\ Tail(todo[c]) = <<>> <=> Len(todo[c]) = 1
      /\ Tail(todo[c]) # <<>> =>
           Tail(todo[c])[Len(Tail(todo[c]))] = todo[c][Len(todo[c])]
  BY <1>a, StepTypes
<1>c. /\ ledger' \in Seq(Entries) /\ Len(ledger') = Len(ledger)
      /\ \A i \in 1 .. Len(ledger) :
           /\ ledger'[i].account = ledger[i].account /\ ledger'[i].pw = ledger[i].pw
           /\ i # entry[c] => ledger'[i].status = ledger[i].status
           /\ i = entry[c] /\ "journal" \notin Faults => ledger'[i].status = "ok"
  BY <1>a, StatusEffect DEF Succeed
<1>d. Len(ledger) \in Nat /\ Len(ledger') \in Nat
  BY <1>a, <1>c DEF TypeOK
<1>1. TypeOK'
  BY <1>a, <1>b, <1>c, <1>d, RotationAssumption DEF IInv, Idle, Goto, Running,
    Succeed, TypeOK, Stp, Users
<1>2. HasStep'
  BY <1>a, <1>b, <1>c, <1>d, RotationAssumption DEF IInv, Idle, Goto, Running,
    Succeed, TypeOK, HasStep
<1>3. JournalMatches'
  <2>1. \A d \in Calls : stage'[d] \in Running => d # c /\ stage[d] = stage'[d]
    BY <1>a DEF TypeOK, Succeed, Goto, Running
  <2>2. \A d \in Calls :
          stage'[d] \in Running /\ entry'[d] # 0 =>
            /\ entry'[d] \in 1 .. Len(ledger) /\ entry'[d] = entry[d]
            /\ entry[d] # entry[c] /\ todo'[d] = todo[d]
    BY <1>a, <2>1 DEF IInv, TypeOK, Distinct, Succeed, Running
  <2> QED
    BY <1>c, <2>1, <2>2 DEF IInv, JournalMatches, Running
<1>4. Distinct'
  BY <1>a, <1>b, <1>c, <1>d, RotationAssumption DEF IInv, Idle, Goto, Running,
    Succeed, TypeOK, Distinct
<1>5. ("overlap" \notin Faults => Alone)'
  BY <1>a, <1>b, <1>c, <1>d, RotationAssumption DEF IInv, Idle, Goto, Running,
    Succeed, TypeOK, Alone
<1>6. ("overlap" \notin Faults => InEffect)'
  BY <1>a, <1>b, <1>c, <1>d, RotationAssumption DEF IInv, Idle, Goto, Running,
    Succeed, TypeOK, Alone, InEffect, Stp, Users
<1>7. ("overlap" \notin Faults => SessionTrue)'
  BY <1>a, <1>b, <1>c, <1>d, RotationAssumption DEF IInv, Idle, Goto, Running,
    Succeed, TypeOK, Alone, InEffect, SessionTrue, Stp, Users
<1>8. ("overlap" \notin Faults => RenewEnds)'
  <2> SUFFICES ASSUME "overlap" \notin Faults, NEW d \in Calls, was'[d] # None
               PROVE  /\ ~Idle(d)'
                      /\ IF Managed /\ todo'[d] # <<>>
                           THEN todo'[d][Len(todo'[d])] = Step(Login, was'[d][Login])
                           ELSE real'[Login] = was'[d][Login]
    BY DEF RenewEnds
  <2>1. d = c /\ was' = was /\ real' = real /\ todo'[d] = Tail(todo[c])
    BY <1>a DEF IInv, TypeOK, Alone, RenewEnds, Idle, Succeed
  <2>2. real[Head(todo[c]).account] = Head(todo[c]).pw
    BY DEF IInv, InEffect, Succeed
  <2>3. stage'[d] # "idle"
    BY <1>a, <2>1 DEF TypeOK, Succeed, Goto
  <2>4. CASE ~Managed
    BY <2>1, <2>3, <2>4 DEF IInv, RenewEnds, Idle
  <2>5. CASE Managed
    <3>1. todo[c][Len(todo[c])] = Step(Login, was[c][Login])
      BY <1>a, <2>1, <2>5 DEF IInv, RenewEnds
    <3>2. CASE Tail(todo[c]) # <<>>
      BY <1>b, <2>1, <2>3, <2>5, <3>1, <3>2 DEF Idle
    <3>3. CASE Tail(todo[c]) = <<>>
      BY <1>b, <2>1, <2>2, <2>3, <3>1, <3>3 DEF Idle, Step
    <3> QED
      BY <3>2, <3>3
  <2> QED
    BY <2>4, <2>5
<1>9. ("overlap" \notin Faults /\ "journal" \notin Faults => LastEntry)'
  BY <1>a, <1>b, <1>c, <1>d, RotationAssumption DEF IInv, Idle, Goto, Running,
    Succeed, TypeOK, Alone, LastEntry
<1>10. ("overlap" \notin Faults /\ "journal" \notin Faults => LedgerTells)'
  <2> SUFFICES ASSUME "overlap" \notin Faults, "journal" \notin Faults, NEW a \in Users
               PROVE  Known(a)'
    BY DEF LedgerTells
  <2>1. Known(a) /\ real' = real /\ first' = first
    BY DEF IInv, LedgerTells, Succeed
  <2>2. entry[c] = Len(ledger) /\ entry[c] \in 1 .. Len(ledger)
    BY DEF IInv, TypeOK, LastEntry, Running, Succeed
  <2>3. /\ ledger[Len(ledger)].account = Head(todo[c]).account
        /\ ledger[Len(ledger)].pw = Head(todo[c]).pw
        /\ ledger[Len(ledger)].status = "pending"
    BY <2>2 DEF IInv, JournalMatches, Succeed
  <2>4. OkOf(a)' \subseteq 1 .. Len(ledger)
    BY <1>c DEF OkOf
  <2>5. CASE a = Head(todo[c]).account
    <3>1. ledger'[Len(ledger)].account = a /\ ledger'[Len(ledger)].pw = real[a]
      BY <1>c, <2>2, <2>3, <2>5 DEF IInv, InEffect, Succeed
    <3>2. \A j \in OkOf(a)' : j <= Len(ledger)
      BY <1>d, <2>4
    <3> QED
      BY <1>c, <2>1, <2>2, <3>1, <3>2 DEF Known
  <2>6. CASE a # Head(todo[c]).account
    <3>1. OkOf(a)' = OkOf(a)
      BY <1>c, <2>2, <2>3, <2>6 DEF OkOf
    <3> QED
      BY <1>c, <2>1, <3>1 DEF Known
  <2> QED
    BY <2>5, <2>6
<1>11. (Quiet => Exact)'
  <2> SUFFICES ASSUME Quiet' PROVE Exact'
    OBVIOUS
  <2>q. Quiet /\ "overlap" \notin Faults /\ "journal" \notin Faults
    BY DEF Quiet, Succeed
  <2>2. entry[c] = Len(ledger) /\ entry[c] \in 1 .. Len(ledger)
    BY <2>q DEF IInv, TypeOK, LastEntry, Running, Succeed
  <2>3. /\ ledger[Len(ledger)].account = Head(todo[c]).account
        /\ ledger[Len(ledger)].pw = Head(todo[c]).pw
        /\ ledger[Len(ledger)].status = "pending"
    BY <2>2, <2>q DEF IInv, JournalMatches, Succeed
  <2>4. stage'[c] # "applied" /\ real' = real /\ stored' = stored
    BY <1>a DEF TypeOK, Succeed, Goto
  <2>5. CASE Head(todo[c]).account = Login
    <3>1. Len(ledger) \in OkLogin' /\ OkLogin' \subseteq 1 .. Len(ledger)
      BY <1>c, <2>q, <2>2, <2>3, <2>5 DEF OkLogin, OkOf
    <3>2. ledger'[Len(ledger)].pw = real[Login]
      BY <1>c, <2>2, <2>3, <2>5, <2>q DEF IInv, InEffect, Succeed
    <3>3. \A i \in OkLogin' : (\A j \in OkLogin' : j <= i) => i = Len(ledger)
      BY <1>d, <3>1
    <3> QED
      BY <2>4, <3>1, <3>2, <3>3 DEF Exact
  <2>6. CASE Head(todo[c]).account # Login
    <3>1. OkLogin' = OkLogin /\ \A i \in OkLogin : ledger'[i].pw = ledger[i].pw
      BY <1>c, <2>2, <2>3, <2>6 DEF OkLogin, OkOf
    <3>2. \A d \in Calls : stage[d] = "applied" => Head(todo[d]).account # Login
      BY <2>6, <2>q DEF IInv, Alone, Idle, Succeed
    <3>3. Unheard => Unheard'
      BY <1>c, <1>d, <3>1 DEF Unheard, Succeed
    <3> QED
      BY <2>4, <3>1, <3>2, <3>3, <2>q DEF IInv, Exact
  <2> QED
    BY <2>5, <2>6
<1> QED
  BY <1>1, <1>2, <1>3, <1>4, <1>5, <1>6, <1>7, <1>8, <1>9, <1>10, <1>11 DEF IInv

LEMMA FailIInv == ASSUME IInv, NEW c \in Calls, Fail(c) PROVE IInv'
<1>a. TypeOK /\ todo[c] # <<>>
  BY DEF IInv, HasStep, Running, Fail
<1>b. /\ todo[c] \in Seq(Stp) /\ Head(todo[c]) \in Stp /\ Len(todo[c]) \in Nat \ {0}
      /\ Head(todo[c]) = todo[c][1]
      /\ Tail(todo[c]) \in Seq(Stp) /\ Len(Tail(todo[c])) = Len(todo[c]) - 1
      /\ Tail(todo[c]) = <<>> <=> Len(todo[c]) = 1
      /\ Tail(todo[c]) # <<>> =>
           Tail(todo[c])[Len(Tail(todo[c]))] = todo[c][Len(todo[c])]
  BY <1>a, StepTypes
<1>c. /\ ledger' \in Seq(Entries) /\ Len(ledger') = Len(ledger)
      /\ \A i \in 1 .. Len(ledger) :
           /\ ledger'[i].account = ledger[i].account /\ ledger'[i].pw = ledger[i].pw
           /\ i # entry[c] => ledger'[i].status = ledger[i].status
           /\ i = entry[c] /\ "journal" \notin Faults => ledger'[i].status = "fail"
  BY <1>a, StatusEffect DEF Fail
<1>d. Len(ledger) \in Nat /\ Len(ledger') \in Nat
  BY <1>a, <1>c DEF TypeOK
<1>1. TypeOK'
  BY <1>a, <1>b, <1>c, <1>d, RotationAssumption DEF IInv, Idle, Goto, Running, Fail,
    TypeOK, Stp, Users
<1>2. HasStep'
  BY <1>a, <1>b, <1>c, <1>d, RotationAssumption DEF IInv, Idle, Goto, Running, Fail,
    TypeOK, HasStep
<1>3. JournalMatches'
  <2>1. \A d \in Calls : stage'[d] \in Running => d # c /\ stage[d] = stage'[d]
    BY <1>a DEF TypeOK, Fail, Goto, Running
  <2>2. \A d \in Calls :
          stage'[d] \in Running /\ entry'[d] # 0 =>
            /\ entry'[d] \in 1 .. Len(ledger) /\ entry'[d] = entry[d]
            /\ entry[d] # entry[c] /\ todo'[d] = todo[d]
    BY <1>a, <2>1 DEF IInv, TypeOK, Distinct, Fail, Running
  <2> QED
    BY <1>c, <2>1, <2>2 DEF IInv, JournalMatches, Running
<1>4. Distinct'
  BY <1>a, <1>b, <1>c, <1>d, RotationAssumption DEF IInv, Idle, Goto, Running, Fail,
    TypeOK, Distinct
<1>5. ("overlap" \notin Faults => Alone)'
  BY <1>a, <1>b, <1>c, <1>d, RotationAssumption DEF IInv, Idle, Goto, Running, Fail,
    TypeOK, Alone
<1>6. ("overlap" \notin Faults => InEffect)'
  BY <1>a, <1>b, <1>c, <1>d, RotationAssumption DEF IInv, Idle, Goto, Running, Fail,
    TypeOK, Alone, InEffect, Stp, Users
<1>7. ("overlap" \notin Faults => SessionTrue)'
  BY <1>a, <1>b, <1>c, <1>d, RotationAssumption DEF IInv, Idle, Goto, Running, Fail,
    TypeOK, Alone, InEffect, SessionTrue, Stp, Users
<1>8. ("overlap" \notin Faults => RenewEnds)'
  BY <1>a, <1>b, <1>c, <1>d, RotationAssumption DEF IInv, Idle, Goto, Running, Fail,
    TypeOK, Alone, InEffect, SessionTrue, RenewEnds, Managed, Step, Stp, Users
<1>9. ("overlap" \notin Faults /\ "journal" \notin Faults => LastEntry)'
  BY <1>a, <1>b, <1>c, <1>d, RotationAssumption DEF IInv, Idle, Goto, Running, Fail,
    TypeOK, Alone, LastEntry
<1>10. ("overlap" \notin Faults /\ "journal" \notin Faults => LedgerTells)'
  <2> SUFFICES ASSUME "overlap" \notin Faults, "journal" \notin Faults, NEW a \in Users
               PROVE  Known(a)'
    BY DEF LedgerTells
  <2>1. Known(a) /\ real' = real /\ first' = first
    BY DEF IInv, LedgerTells, Fail
  <2>2. entry[c] = Len(ledger) /\ entry[c] \in 1 .. Len(ledger)
    BY DEF IInv, TypeOK, LastEntry, Running, Fail
  <2>3. /\ ledger[Len(ledger)].account = Head(todo[c]).account
        /\ ledger[Len(ledger)].pw = Head(todo[c]).pw
        /\ ledger[Len(ledger)].status = "pending"
    BY <2>2 DEF IInv, JournalMatches, Fail
  <2>4. OkOf(a)' = OkOf(a)
    BY <1>c, <2>2, <2>3 DEF OkOf
  <2> QED
    BY <1>c, <2>1, <2>4 DEF Known
<1>11. (Quiet => Exact)'
  <2> SUFFICES ASSUME Quiet' PROVE Exact'
    OBVIOUS
  <2>q. Quiet /\ "overlap" \notin Faults /\ "journal" \notin Faults
    BY DEF Quiet, Fail
  <2>2. entry[c] = Len(ledger) /\ entry[c] \in 1 .. Len(ledger)
    BY <2>q DEF IInv, TypeOK, LastEntry, Running, Fail
  <2>3. /\ ledger[Len(ledger)].account = Head(todo[c]).account
        /\ ledger[Len(ledger)].pw = Head(todo[c]).pw
        /\ ledger[Len(ledger)].status = "pending"
    BY <2>2, <2>q DEF IInv, JournalMatches, Fail
  <2>4. OkLogin' = OkLogin /\ \A i \in OkLogin : ledger'[i].pw = ledger[i].pw
    BY <1>c, <2>q, <2>2, <2>3 DEF OkLogin, OkOf
  <2>5. \A d \in Calls : stage[d] # "applied"
    BY <2>q DEF IInv, Alone, Idle, Fail
  <2>6. Unheard => Unheard'
    BY <1>c, <1>d, <2>4 DEF Unheard, Fail
  <2> QED
    BY <2>4, <2>5, <2>6, <2>q DEF IInv, Exact, Fail
<1> QED
  BY <1>1, <1>2, <1>3, <1>4, <1>5, <1>6, <1>7, <1>8, <1>9, <1>10, <1>11 DEF IInv

LEMMA ReconcileIInv == ASSUME IInv, NEW c \in Calls, Reconcile(c) PROVE IInv'
<1>1. TypeOK'
  <2>1. Len(ledger) \in Nat /\ \A i \in 1 .. Len(ledger) : ledger[i].pw \in Passwords
    <3>1. ledger \in Seq(Entries)
      BY DEF IInv, TypeOK
    <3>2. \A i \in 1 .. Len(ledger) : ledger[i] \in Entries
      BY <3>1, ElementOfSeq
    <3> QED
      BY <3>1, <3>2, LenProperties DEF Entries
  <2>2. OkLogin # {} => Newest(OkLogin) \in OkLogin
    BY <2>1, NewestIsLast DEF OkLogin, OkOf
  <2>3. stored' \in Passwords
    BY <2>1, <2>2 DEF IInv, TypeOK, Reconcile, Return, OkLogin, OkOf
  <2>4. /\ real' = real /\ first' = first /\ sess' = sess /\ ledger' = ledger
        /\ stage' \in [Calls -> {"idle", "journal", "set", "applied", "failed", "sync"}]
        /\ entry' \in [Calls -> 0 .. Len(ledger')] /\ cut' \subseteq Calls
        /\ was' \in [Calls -> [Users -> Passwords] \cup {None}] /\ lost' = lost
    BY <2>1 DEF IInv, TypeOK, Reconcile, Return, Goto
  <2>5. todo' \in [Calls -> Seq([account : {"root", "liz"}, pw : Passwords])]
    BY EmptySeq DEF IInv, TypeOK, Reconcile, Return
  <2> QED
    BY <2>3, <2>4, <2>5 DEF IInv, TypeOK
<1>2. HasStep'
  BY RotationAssumption DEF IInv, Idle, Goto, Running, Reconcile, Return, TypeOK, HasStep
<1>3. JournalMatches'
  BY RotationAssumption DEF IInv, Idle, Goto, Running, Reconcile, Return, TypeOK, HasStep,
    JournalMatches, Distinct
<1>4. Distinct'
  BY RotationAssumption DEF IInv, Idle, Goto, Running, Reconcile, Return, TypeOK, Distinct
<1>5. ("overlap" \notin Faults => Alone)'
  BY RotationAssumption DEF IInv, Idle, Goto, Running, Reconcile, Return, TypeOK, Alone
<1>6. ("overlap" \notin Faults => InEffect)'
  BY RotationAssumption DEF IInv, Idle, Goto, Running, Reconcile, Return, TypeOK, Alone,
    InEffect, Stp, Users
<1>7. ("overlap" \notin Faults => SessionTrue)'
  BY RotationAssumption DEF IInv, Idle, Goto, Running, Reconcile, Return, TypeOK, Alone,
    InEffect, SessionTrue, Stp, Users
<1>8. ("overlap" \notin Faults => RenewEnds)'
  BY RotationAssumption DEF IInv, Idle, Goto, Running, Reconcile, Return, TypeOK, Alone,
    InEffect, SessionTrue, RenewEnds, Managed, Step, Stp, Users
<1>9. ("overlap" \notin Faults /\ "journal" \notin Faults => LastEntry)'
  BY RotationAssumption DEF IInv, Idle, Goto, Running, Reconcile, Return, TypeOK, Alone,
    LastEntry
<1>10. ("overlap" \notin Faults /\ "journal" \notin Faults => LedgerTells)'
  BY DEF IInv, LedgerTells, Known, OkOf, Reconcile, Return
<1>11. (Quiet => Exact)'
  <2> SUFFICES ASSUME Quiet' PROVE Exact'
    OBVIOUS
  <2>q. Quiet /\ "overlap" \notin Faults /\ "journal" \notin Faults
    BY DEF Quiet, Reconcile, Return
  <2>1. OkLogin' = OkLogin /\ ledger' = ledger /\ real' = real
    BY DEF OkLogin, OkOf, Reconcile, Return
  <2>2. \A d \in Calls : stage[d] # "applied"
    BY <2>q DEF IInv, Alone, Idle, Reconcile, Return
  <2>3. OkLogin = {} => stored' = stored
    BY DEF Reconcile, Return
  <2>4. Unheard => Unheard'
    BY <2>1 DEF Unheard, Reconcile, Return
  <2> QED
    BY <2>1, <2>2, <2>3, <2>4, <2>q DEF IInv, Exact
<1> QED
  BY <1>1, <1>2, <1>3, <1>4, <1>5, <1>6, <1>7, <1>8, <1>9, <1>10, <1>11 DEF IInv

LEMMA ReconcileFailsIInv == ASSUME IInv, NEW c \in Calls, ReconcileFails(c) PROVE IInv'
<1>1. TypeOK'
  <2>1. Len(ledger) \in Nat
    <3>1. ledger \in Seq(Entries)
      BY DEF IInv, TypeOK
    <3> QED
      BY <3>1, LenProperties
  <2>3. stored' \in Passwords
    BY DEF IInv, TypeOK, ReconcileFails
  <2>4. /\ real' = real /\ first' = first /\ sess' = sess /\ ledger' = ledger
        /\ stage' \in [Calls -> {"idle", "journal", "set", "applied", "failed", "sync"}]
        /\ entry' \in [Calls -> 0 .. Len(ledger')] /\ cut' \subseteq Calls
        /\ was' \in [Calls -> [Users -> Passwords] \cup {None}] /\ lost' = lost
    BY <2>1 DEF IInv, TypeOK, ReconcileFails, Return, Goto
  <2>5. todo' \in [Calls -> Seq([account : {"root", "liz"}, pw : Passwords])]
    BY EmptySeq DEF IInv, TypeOK, ReconcileFails, Return
  <2> QED
    BY <2>3, <2>4, <2>5 DEF IInv, TypeOK
<1>2. HasStep'
  BY RotationAssumption DEF IInv, Idle, Goto, Running, ReconcileFails, Return, TypeOK, HasStep
<1>3. JournalMatches'
  BY RotationAssumption DEF IInv, Idle, Goto, Running, ReconcileFails, Return, TypeOK, HasStep,
    JournalMatches, Distinct
<1>4. Distinct'
  BY RotationAssumption DEF IInv, Idle, Goto, Running, ReconcileFails, Return, TypeOK, Distinct
<1>5. ("overlap" \notin Faults => Alone)'
  BY RotationAssumption DEF IInv, Idle, Goto, Running, ReconcileFails, Return, TypeOK, Alone
<1>6. ("overlap" \notin Faults => InEffect)'
  BY RotationAssumption DEF IInv, Idle, Goto, Running, ReconcileFails, Return, TypeOK, Alone,
    InEffect, Stp, Users
<1>7. ("overlap" \notin Faults => SessionTrue)'
  BY RotationAssumption DEF IInv, Idle, Goto, Running, ReconcileFails, Return, TypeOK, Alone,
    InEffect, SessionTrue, Stp, Users
<1>8. ("overlap" \notin Faults => RenewEnds)'
  BY RotationAssumption DEF IInv, Idle, Goto, Running, ReconcileFails, Return, TypeOK, Alone,
    InEffect, SessionTrue, RenewEnds, Managed, Step, Stp, Users
<1>9. ("overlap" \notin Faults /\ "journal" \notin Faults => LastEntry)'
  BY RotationAssumption DEF IInv, Idle, Goto, Running, ReconcileFails, Return, TypeOK, Alone,
    LastEntry
<1>10. ("overlap" \notin Faults /\ "journal" \notin Faults => LedgerTells)'
  BY DEF IInv, LedgerTells, Known, OkOf, ReconcileFails, Return
<1>11. (Quiet => Exact)'
  <2> SUFFICES ASSUME Quiet' PROVE Exact'
    OBVIOUS
  <2>q. Quiet /\ "overlap" \notin Faults /\ "journal" \notin Faults
    BY DEF Quiet, ReconcileFails, Return
  <2>1. OkLogin' = OkLogin /\ ledger' = ledger /\ real' = real
    BY DEF OkLogin, OkOf, ReconcileFails, Return
  <2>2. \A d \in Calls : stage[d] # "applied"
    BY <2>q DEF IInv, Alone, Idle, ReconcileFails, Return
  <2>3. OkLogin = {} => stored' = stored
    BY DEF ReconcileFails, Return
  <2>4. Unheard => Unheard'
    BY <2>1 DEF Unheard, ReconcileFails, Return
  <2> QED
    BY <2>1, <2>2, <2>3, <2>4, <2>q DEF IInv, Exact
<1> QED
  BY <1>1, <1>2, <1>3, <1>4, <1>5, <1>6, <1>7, <1>8, <1>9, <1>10, <1>11 DEF IInv

LEMMA ConnectIInv == ASSUME IInv, Connect PROVE IInv'
<1>1. TypeOK'
  BY RotationAssumption DEF IInv, Idle, Goto, Running, Connect, TypeOK, Stp, Users
<1>2. HasStep'
  BY RotationAssumption DEF IInv, Idle, Goto, Running, Connect, TypeOK, HasStep
<1>3. JournalMatches'
  BY RotationAssumption DEF IInv, Idle, Goto, Running, Connect, TypeOK, HasStep,
    JournalMatches, Distinct
<1>4. Distinct'
  BY RotationAssumption DEF IInv, Idle, Goto, Running, Connect, TypeOK, Distinct
<1>5. ("overlap" \notin Faults => Alone)'
  BY RotationAssumption DEF IInv, Idle, Goto, Running, Connect, TypeOK, Alone
<1>6. ("overlap" \notin Faults => InEffect)'
  BY RotationAssumption DEF IInv, Idle, Goto, Running, Connect, TypeOK, Alone,
    InEffect, Stp, Users
<1>7. ("overlap" \notin Faults => SessionTrue)'
  BY RotationAssumption DEF IInv, Idle, Goto, Running, Connect, TypeOK, Alone,
    InEffect, SessionTrue, Stp, Users
<1>8. ("overlap" \notin Faults => RenewEnds)'
  BY RotationAssumption DEF IInv, Idle, Goto, Running, Connect, TypeOK, Alone,
    InEffect, SessionTrue, RenewEnds, Managed, Step, Stp, Users
<1>9. ("overlap" \notin Faults /\ "journal" \notin Faults => LastEntry)'
  BY RotationAssumption DEF IInv, Idle, Goto, Running, Connect, TypeOK, Alone,
    LastEntry
<1>10. ("overlap" \notin Faults /\ "journal" \notin Faults => LedgerTells)'
  BY DEF IInv, LedgerTells, Known, OkOf, Connect
<1>11. (Quiet => Exact)'
  BY RotationAssumption DEF IInv, Idle, Goto, Running, Connect, TypeOK, Alone,
    InEffect, LastEntry, HasStep, OkLogin, OkOf, Quiet, Exact, Unheard, JournalMatches, SessionTrue,
    Stp, Users
<1> QED
  BY <1>1, <1>2, <1>3, <1>4, <1>5, <1>6, <1>7, <1>8, <1>9, <1>10, <1>11 DEF IInv

LEMMA DropIInv == ASSUME IInv, Drop PROVE IInv'
<1>1. TypeOK'
  BY RotationAssumption DEF IInv, Idle, Goto, Running, Drop, TypeOK, Stp, Users
<1>2. HasStep'
  BY RotationAssumption DEF IInv, Idle, Goto, Running, Drop, TypeOK, HasStep
<1>3. JournalMatches'
  BY RotationAssumption DEF IInv, Idle, Goto, Running, Drop, TypeOK, HasStep,
    JournalMatches, Distinct
<1>4. Distinct'
  BY RotationAssumption DEF IInv, Idle, Goto, Running, Drop, TypeOK, Distinct
<1>5. ("overlap" \notin Faults => Alone)'
  BY RotationAssumption DEF IInv, Idle, Goto, Running, Drop, TypeOK, Alone
<1>6. ("overlap" \notin Faults => InEffect)'
  BY RotationAssumption DEF IInv, Idle, Goto, Running, Drop, TypeOK, Alone, InEffect,
    Stp, Users
<1>7. ("overlap" \notin Faults => SessionTrue)'
  BY RotationAssumption DEF IInv, Idle, Goto, Running, Drop, TypeOK, Alone, InEffect,
    SessionTrue, Stp, Users
<1>8. ("overlap" \notin Faults => RenewEnds)'
  BY RotationAssumption DEF IInv, Idle, Goto, Running, Drop, TypeOK, Alone, InEffect,
    SessionTrue, RenewEnds, Managed, Step, Stp, Users
<1>9. ("overlap" \notin Faults /\ "journal" \notin Faults => LastEntry)'
  BY RotationAssumption DEF IInv, Idle, Goto, Running, Drop, TypeOK, Alone, LastEntry
<1>10. ("overlap" \notin Faults /\ "journal" \notin Faults => LedgerTells)'
  BY DEF IInv, LedgerTells, Known, OkOf, Drop
<1>11. (Quiet => Exact)'
  BY RotationAssumption DEF IInv, Idle, Goto, Running, Drop, TypeOK, Alone, InEffect,
    LastEntry, HasStep, OkLogin, OkOf, Quiet, Exact, Unheard, JournalMatches, SessionTrue, Stp, Users
<1> QED
  BY <1>1, <1>2, <1>3, <1>4, <1>5, <1>6, <1>7, <1>8, <1>9, <1>10, <1>11 DEF IInv

LEMMA CrashIInv == ASSUME IInv, Crash PROVE IInv'
<1>1. TypeOK'
  <2>1. ledger' = ledger /\ real' = real /\ first' = first /\ stored' = stored
    BY DEF Crash
  <2>2. todo' \in [Calls -> Seq([account : {"root", "liz"}, pw : Passwords])]
    BY EmptySeq DEF Crash
  <2>3. /\ stage' \in [Calls -> {"idle", "journal", "set", "applied", "failed", "sync"}]
        /\ entry' \in [Calls -> 0 .. Len(ledger)] /\ cut' \subseteq Calls
        /\ was' \in [Calls -> [Users -> Passwords] \cup {None}]
        /\ sess' = None
    BY DEF IInv, TypeOK, Crash
  <2>4. lost' \subseteq 0 .. Len(ledger)
    BY SettingTypes DEF IInv, TypeOK, Crash
  <2> QED
    BY <2>1, <2>2, <2>3, <2>4 DEF IInv, TypeOK
<1>2. HasStep'
  BY RotationAssumption DEF IInv, Idle, Goto, Running, Crash, TypeOK, HasStep
<1>3. JournalMatches'
  BY RotationAssumption DEF IInv, Idle, Goto, Running, Crash, TypeOK, HasStep,
    JournalMatches, Distinct
<1>4. Distinct'
  BY RotationAssumption DEF IInv, Idle, Goto, Running, Crash, TypeOK, Distinct
<1>5. ("overlap" \notin Faults => Alone)'
  BY RotationAssumption DEF IInv, Idle, Goto, Running, Crash, TypeOK, Alone
<1>6. ("overlap" \notin Faults => InEffect)'
  BY RotationAssumption DEF IInv, Idle, Goto, Running, Crash, TypeOK, Alone, InEffect,
    Stp, Users
<1>7. ("overlap" \notin Faults => SessionTrue)'
  BY RotationAssumption DEF IInv, Idle, Goto, Running, Crash, TypeOK, Alone, InEffect,
    SessionTrue, Stp, Users
<1>8. ("overlap" \notin Faults => RenewEnds)'
  BY RotationAssumption DEF IInv, Idle, Goto, Running, Crash, TypeOK, Alone, InEffect,
    SessionTrue, RenewEnds, Managed, Step, Stp, Users
<1>9. ("overlap" \notin Faults /\ "journal" \notin Faults => LastEntry)'
  BY RotationAssumption DEF IInv, Idle, Goto, Running, Crash, TypeOK, Alone, LastEntry
<1>10. ("overlap" \notin Faults /\ "journal" \notin Faults => LedgerTells)'
  BY DEF IInv, LedgerTells, Known, OkOf, Crash
<1>11. (Quiet => Exact)'
  <2> SUFFICES ASSUME Quiet PROVE Exact'
    BY DEF Quiet
  <2>1. OkLogin' = OkLogin /\ ledger' = ledger /\ real' = real /\ stored' = stored
    BY DEF OkLogin, OkOf, Crash
  <2>2. ASSUME NEW c \in Calls, stage[c] = "applied", Head(todo[c]).account = Login
        PROVE  Unheard'
    <3>1. /\ entry[c] = Len(ledger) /\ entry[c] \in 1 .. Len(ledger)
          /\ Len(ledger) \in Nat
      BY <2>2 DEF IInv, TypeOK, LastEntry, Running, Quiet
    <3>2. /\ ledger[entry[c]].account = Login
          /\ ledger[entry[c]].pw = real[Login]
          /\ ledger[entry[c]].status = "pending"
      BY <2>2, <3>1 DEF IInv, JournalMatches, InEffect, Quiet
    <3>3. entry[c] \in lost'
      BY <2>2 DEF Crash, Setting
    <3>4. \A j \in OkLogin : j < entry[c]
      BY <3>1, <3>2 DEF OkLogin, OkOf
    <3> QED
      BY <2>1, <3>1, <3>2, <3>3, <3>4 DEF Unheard
  <2>3. Unheard => Unheard'
    BY <2>1 DEF Unheard, Crash
  <2> QED
    BY <2>1, <2>2, <2>3 DEF IInv, Exact
<1> QED
  BY <1>1, <1>2, <1>3, <1>4, <1>5, <1>6, <1>7, <1>8, <1>9, <1>10, <1>11 DEF IInv

LEMMA SaveHostIInv == ASSUME IInv, SaveHost PROVE IInv'
<1>1. TypeOK'
  BY RotationAssumption DEF IInv, Idle, Goto, Running, SaveHost, TypeOK, Stp, Users
<1>2. HasStep'
  BY RotationAssumption DEF IInv, Idle, Goto, Running, SaveHost, TypeOK, HasStep
<1>3. JournalMatches'
  BY RotationAssumption DEF IInv, Idle, Goto, Running, SaveHost, TypeOK, HasStep,
    JournalMatches, Distinct
<1>4. Distinct'
  BY RotationAssumption DEF IInv, Idle, Goto, Running, SaveHost, TypeOK, Distinct
<1>5. ("overlap" \notin Faults => Alone)'
  BY RotationAssumption DEF IInv, Idle, Goto, Running, SaveHost, TypeOK, Alone
<1>6. ("overlap" \notin Faults => InEffect)'
  BY RotationAssumption DEF IInv, Idle, Goto, Running, SaveHost, TypeOK, Alone,
    InEffect, Stp, Users
<1>7. ("overlap" \notin Faults => SessionTrue)'
  BY RotationAssumption DEF IInv, Idle, Goto, Running, SaveHost, TypeOK, Alone,
    InEffect, SessionTrue, Stp, Users
<1>8. ("overlap" \notin Faults => RenewEnds)'
  BY RotationAssumption DEF IInv, Idle, Goto, Running, SaveHost, TypeOK, Alone,
    InEffect, SessionTrue, RenewEnds, Managed, Step, Stp, Users
<1>9. ("overlap" \notin Faults /\ "journal" \notin Faults => LastEntry)'
  BY RotationAssumption DEF IInv, Idle, Goto, Running, SaveHost, TypeOK, Alone,
    LastEntry
<1>10. ("overlap" \notin Faults /\ "journal" \notin Faults => LedgerTells)'
  BY DEF IInv, LedgerTells, Known, OkOf, SaveHost
<1>11. (Quiet => Exact)'
  BY RotationAssumption DEF IInv, Idle, Goto, Running, SaveHost, TypeOK, Alone,
    InEffect, LastEntry, HasStep, OkLogin, OkOf, Quiet, Exact, Unheard, JournalMatches, SessionTrue,
    Stp, Users
<1> QED
  BY <1>1, <1>2, <1>3, <1>4, <1>5, <1>6, <1>7, <1>8, <1>9, <1>10, <1>11 DEF IInv

-----------------------------------------------------------------------------
LEMMA InitIInv == Init => IInv
<1> SUFFICES ASSUME Init PROVE IInv
  OBVIOUS
<1>1. Len(ledger) = 0 /\ ledger \in Seq(Entries) /\ \A c \in Calls : todo[c] \in Seq(Stp)
  BY EmptySeq DEF Init
<1>2. TypeOK
  BY <1>1, RotationAssumption DEF Init, TypeOK, Users, Stp
<1>3. HasStep /\ JournalMatches /\ Distinct /\ Alone /\ InEffect /\ LastEntry
  BY DEF Init, HasStep, JournalMatches, Distinct, Alone, InEffect, LastEntry, Idle, Running
<1>4. SessionTrue /\ RenewEnds
  BY DEF Init, SessionTrue, RenewEnds, Idle
<1>5. \A a \in Users : OkOf(a) = {}
  BY <1>1 DEF OkOf
<1>6. LedgerTells
  BY <1>5 DEF Init, LedgerTells, Known
<1>7. Exact
  BY <1>5 DEF Init, Exact, OkLogin, Users
<1> QED
  BY <1>2, <1>3, <1>4, <1>6, <1>7 DEF IInv

LEMMA NextIInv == IInv /\ [Next]_vars => IInv'
<1> SUFFICES ASSUME IInv, [Next]_vars PROVE IInv'
  OBVIOUS
<1>1. ASSUME NEW c \in Calls, CallStep(c) PROVE IInv'
  BY <1>1, RenewPasswordsIInv, ChangePasswordsIInv, RejectIInv, JournalIInv, ApplyIInv, RefuseIInv, LoseAnswerIInv, SucceedIInv, FailIInv, ReconcileIInv,
    ReconcileFailsIInv DEF CallStep
<1>2. CASE Connect \/ Drop \/ Crash \/ SaveHost
  BY <1>2, ConnectIInv, DropIInv, CrashIInv, SaveHostIInv
<1>3. CASE UNCHANGED vars
  <2> USE <1>3 DEF vars
  <2>1. (TypeOK /\ HasStep /\ JournalMatches /\ Distinct)'
    BY DEF IInv, TypeOK, HasStep, JournalMatches, Distinct
  <2>2. ("overlap" \notin Faults => Alone /\ InEffect /\ SessionTrue /\ RenewEnds)'
    BY DEF IInv, Alone, InEffect, SessionTrue, RenewEnds, Idle
  <2>3. ("overlap" \notin Faults /\ "journal" \notin Faults => LastEntry /\ LedgerTells)'
    BY DEF IInv, LastEntry, LedgerTells, Known, OkOf
  <2>4. (Quiet => Exact)'
    BY DEF IInv, Quiet, Exact, Unheard, OkLogin, OkOf
  <2> QED
    BY <2>1, <2>2, <2>3, <2>4 DEF IInv
<1> QED
  BY <1>1, <1>2, <1>3 DEF Next

LEMMA Inductive == Spec => []IInv
  BY InitIInv, NextIInv, PTL DEF Spec

\* The type invariant of Rotation, under any faults.
THEOREM Typing == Spec => []TypeOK
<1>1. IInv => TypeOK
  BY DEF IInv
<1> QED
  BY <1>1, Inductive, PTL

\* Every status goes to the entry of its own step (pwRecorder.Done), whatever
\* calls overlap and whatever writes fail.
THEOREM StatusesGoHome == Spec => []JournalMatches
<1>1. IInv => JournalMatches
  BY DEF IInv
<1> QED
  BY <1>1, Inductive, PTL

\* After any sequence of crashes, dropped links and refused commands the ledger
\* tells the password of each account, as long as its writes succeed and
\* rotations do not overlap.
THEOREM LedgerIsTruthful ==
  ASSUME "journal" \notin Faults, "overlap" \notin Faults
  PROVE  Spec => []LedgerTells
<1>1. IInv => LedgerTells
  BY DEF IInv
<1> QED
  BY <1>1, Inductive, PTL

\* rotate keeps session.password right for the sudo of its next command.
THEOREM SudoNeverStale == ASSUME "overlap" \notin Faults PROVE Spec => []SudoWorks
<1>1. IInv => SudoWorks
  BY DEF IInv, Alone, SessionTrue, SudoWorks, Idle
<1> QED
  BY <1>1, Inductive, PTL

\* A renewal that succeeds leaves the login account's password as it was.
THEOREM RenewalEndsWhereItBegan ==
  ASSUME "overlap" \notin Faults PROVE Spec => []RenewKeepsLogin
<1>1. IInv => RenewKeepsLogin
  BY DEF IInv, RenewEnds, RenewKeepsLogin
<1> QED
  BY <1>1, Inductive, PTL

\* After any sequence of crashes, dropped links, lost answers, refused commands
\* and reconciliations that failed, reconcileLoginPassword stores the login
\* account's password, unless a step that set it was never heard of; that step is
\* in the ledger, newer than every success.
THEOREM ReconcileIsExact ==
  ASSUME "journal" \notin Faults, "overlap" \notin Faults
  PROVE  Spec => SyncsToReal
<1>1. ASSUME IInv, NEW c \in Calls, Reconcile(c), ~Unheard PROVE stored' = real[Login]
  <2>1. \A d \in Calls : stage[d] # "applied"
    BY <1>1 DEF IInv, Alone, Idle, Reconcile, Return
  <2>2. /\ OkLogin = {} => stored = real[Login]
        /\ \A i \in OkLogin : (\A j \in OkLogin : j <= i) => ledger[i].pw = real[Login]
    BY <1>1, <2>1 DEF IInv, Quiet, Exact
  <2>3. Len(ledger) \in Nat /\ \A i \in 1 .. Len(ledger) : ledger[i].account \in {"root", "liz"}
    <3>1. ledger \in Seq(Entries)
      BY <1>1 DEF IInv, TypeOK
    <3>2. \A i \in 1 .. Len(ledger) : ledger[i] \in Entries
      BY <3>1, ElementOfSeq
    <3> QED
      BY <3>1, <3>2, LenProperties DEF Entries
  <2>4. OkLogin # {} => /\ Newest(OkLogin) \in OkLogin
                        /\ \A j \in OkLogin : j <= Newest(OkLogin)
    BY <2>3, NewestIsLast DEF OkLogin, OkOf
  <2>5. ~Managed => stored = real[Login]
    BY <2>2, <2>3 DEF Managed, OkLogin, OkOf
  <2> QED
    BY <1>1, <2>2, <2>4, <2>5 DEF Reconcile
<1>2. IInv /\ [Next]_vars =>
        [\A c \in Calls : Reconcile(c) => stored' = real[Login] \/ Unheard]_vars
  BY <1>1
<1> QED
  BY <1>2, Inductive, PTL DEF Spec, SyncsToReal
=============================================================================
