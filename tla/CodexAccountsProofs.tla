------------------------ MODULE CodexAccountsProofs ------------------------
(***************************************************************************)
(* Theorems of CodexAccounts, for any users, homes, commands and bounds.   *)
(***************************************************************************)
EXTENDS CodexAccounts, FiniteSetTheorems, WellFoundedInduction, TLAPS

-----------------------------------------------------------------------------
(* The first managed home of a set.                                        *)

\* Every non-empty set of numbers has a least one.
LEMMA LeastNat ==
    ASSUME NEW S, S \subseteq Nat, S # {}
    PROVE  \E m \in S : \A n \in S : m <= n
<1> DEFINE T == {0..n : n \in S}
<1>1. T \subseteq FiniteSubsetsOf(Nat)
  <2> SUFFICES ASSUME NEW n \in S PROVE 0..n \in SUBSET Nat /\ IsFiniteSet(0..n)
    BY DEF FiniteSubsetsOf
  <2>1. IsFiniteSet(0..n)
    BY FS_Interval
  <2> QED
    BY <2>1
<1>2. T # {}
  OBVIOUS
<1>3. IsWellFoundedOn(StrictSubsetOrdering(Nat), FiniteSubsetsOf(Nat))
  BY FS_StrictSubsetOrderingWellFounded
<1> HIDE DEF T
<1>4. PICK x \in T : \A y \in T : ~ (<<y, x>> \in StrictSubsetOrdering(Nat))
  BY <1>1, <1>2, <1>3, WFMin
<1>5. PICK m \in S : x = 0..m
  BY <1>4 DEF T
<1>6. ASSUME NEW n \in S, n < m PROVE FALSE
  <2>1. 0..n \in T
    BY DEF T
  <2>2. 0..n \subseteq 0..m /\ 0..n # 0..m
    BY <1>6
  <2>3. 0..n \in SUBSET Nat /\ 0..m \in SUBSET Nat
    OBVIOUS
  <2>4. <<0..n, 0..m>> \in StrictSubsetOrdering(Nat)
    BY <2>2, <2>3 DEF StrictSubsetOrdering
  <2> QED
    BY <1>4, <1>5, <2>1, <2>4
<1> QED
  BY <1>5, <1>6

\* So the first of some managed homes is one of them.
LEMMA FirstIsMember ==
    ASSUME NEW S, S \subseteq Homes, S # {} PROVE Min(S) \in S
<1>1. \E m \in S : \A n \in S : m <= n
  BY LeastNat, HomesAreNumbers
<1> QED
  BY <1>1 DEF Min

-----------------------------------------------------------------------------
(* Types.                                                                  *)

\* The locals a task may have in each phase.
GoodLocals ==
    {x \in LocalsOK :
        /\ x.at \in {"login", "signed"} => x.acct \in Accounts /\ x.acct.home \in Homes
        /\ x.at \in {"waiting", "fetch", "renewed", "switching", "adopting",
                     "backup", "copying", "removing"} => x.acct \in Accounts
        /\ x.at \in {"fetch", "renewed"} => x.cred \in Logins /\ x.base \in Logins
        /\ x.at = "adopting" => x.cred \in Logins}

FilesOK ==
    /\ auth \in [Places -> Contents]
    /\ dirs \subseteq made
    /\ made \subseteq Homes
    /\ backups \subseteq Logins
    /\ \A h \in Homes : auth[h] # NoFile => h \in dirs
ServerOK ==
    /\ live \subseteq Logins
    /\ issued \in 0..MaxLogins
TypeInv ==
    /\ FilesOK
    /\ ServerOK
    /\ accounts \in (SUBSET Accounts) \cup {Torn}
    /\ task \in [Tasks -> GoodLocals]
    /\ mixed \in BOOLEAN

LEMMA TypeInvImpliesTypeOK == TypeInv => TypeOK
<1> SUFFICES ASSUME TypeInv PROVE TypeOK
  OBVIOUS
<1>1. task \in [Tasks -> LocalsOK]
  BY DEF TypeInv, GoodLocals
<1> QED
  BY <1>1 DEF TypeInv, TypeOK, FilesOK, ServerOK

\* A task that takes other good locals leaves every task with good ones.
LEMMA BecomeGood ==
    ASSUME task \in [Tasks -> GoodLocals], NEW t \in Tasks,
           NEW new \in GoodLocals, Become(t, new)
    PROVE  task' \in [Tasks -> GoodLocals]
BY DEF Become

LEMMA IdleGood ==
    /\ Idle \in GoodLocals
    /\ Idle.at = "idle" /\ Idle.acct = None /\ Idle.cred = NoFile
    /\ Idle.base = NoFile /\ Idle.mat = None /\ Idle.list = {}
    /\ Idle.targets = {} /\ Idle.renewals = 0
BY DEF Idle, GoodLocals, LocalsOK, Phases, Contents

LEMMA PersistGood ==
    ASSUME NEW mat \in Accounts \cup {None}
    PROVE  [Idle EXCEPT !.at = "persisting", !.mat = mat] \in GoodLocals
BY IdleGood DEF GoodLocals, LocalsOK, Phases

LEMMA SaveGood ==
    ASSUME NEW list \in SUBSET Accounts
    PROVE  [Idle EXCEPT !.at = "saving", !.list = list] \in GoodLocals
BY IdleGood DEF GoodLocals, LocalsOK, Phases

\* A login that has been read or renewed.
LEMMA FetchGood ==
    ASSUME NEW x \in GoodLocals, x.acct \in Accounts, NEW c \in Logins
    PROVE  [x EXCEPT !.at = "fetch", !.cred = c, !.base = c, !.renewals = 2]
               \in GoodLocals
<1> DEFINE y == [x EXCEPT !.at = "fetch", !.cred = c, !.base = c, !.renewals = 2]
<1>1. y.at = "fetch" /\ y.cred = c /\ y.base = c /\ y.acct = x.acct
  BY DEF GoodLocals, LocalsOK
<1>2. y \in LocalsOK
  <2>1. c \in Contents /\ "fetch" \in Phases /\ 2 \in 0..2
    BY DEF Contents, Phases
  <2> QED
    BY <2>1 DEF GoodLocals, LocalsOK
<1> QED
  BY <1>1, <1>2 DEF GoodLocals

LEMMA RenewedGood ==
    ASSUME NEW x \in GoodLocals, x.acct \in Accounts, x.base \in Logins,
           NEW c \in Logins, x.renewals > 0
    PROVE  [x EXCEPT !.at = "renewed", !.cred = c, !.renewals = @ - 1] \in GoodLocals
<1> DEFINE y == [x EXCEPT !.at = "renewed", !.cred = c, !.renewals = @ - 1]
<1>1. y.at = "renewed" /\ y.cred = c /\ y.base = x.base /\ y.acct = x.acct
  BY DEF GoodLocals, LocalsOK
<1>2. y \in LocalsOK
  <2>1. c \in Contents /\ "renewed" \in Phases /\ x.renewals - 1 \in 0..2
    BY DEF Contents, Phases, GoodLocals, LocalsOK
  <2> QED
    BY <2>1 DEF GoodLocals, LocalsOK
<1> QED
  BY <1>1, <1>2 DEF GoodLocals

\* Everything a load lists is an account.
LEMMA ListedAreAccounts ==
    ASSUME TypeInv, Readable
    PROVE  Stored \subseteq Accounts /\ Listed \subseteq Accounts
<1>1. accounts \subseteq Accounts
  BY DEF TypeInv, Readable
<1>2. \A h \in dirs \cup {Ambient} : Intact(h) => AccountAt(h) \in Accounts
  BY DEF TypeInv, FilesOK, Intact, AccountAt, Accounts, Places, Logins
<1>3. ASSUME NEW r \in accounts PROVE Reconciled(r) \in Accounts
  <2>1. CASE FoundFor(r) = {}
    BY <1>1, <2>1 DEF Reconciled
  <2>2. CASE FoundFor(r) # {}
    <3>1. FoundFor(r) \subseteq Homes
      BY DEF FoundFor, TypeInv, FilesOK
    <3>2. Min(FoundFor(r)) \in FoundFor(r)
      BY <2>2, <3>1, FirstIsMember
    <3> QED
      BY <1>2, <2>2, <3>2 DEF Reconciled, FoundFor
  <2> QED
    BY <2>1, <2>2
<1>4. Stored \subseteq Accounts
  BY <1>3 DEF Stored
<1>5. \A p \in NewHomes \cup NewAmbient : AccountAt(p) \in Accounts
  BY <1>2 DEF NewHomes, NewAmbient
<1> QED
  BY <1>4, <1>5 DEF Listed

\* The files, the server and the tasks keep their types in every step.
LEMMA TypeStep ==
    ASSUME TypeInv, [Next]_vars PROVE TypeInv'
<1> USE DEF TypeInv
<1>1. CASE UNCHANGED vars
  BY <1>1 DEF vars, fileVars, serverVars, FilesOK, ServerOK
<1>2. ASSUME NEW t \in Tasks, NEW u \in Users, NEW h \in Homes, AddBegin(t, u, h)
      PROVE TypeInv'
  <2> DEFINE new == [Idle EXCEPT !.at = "login", !.acct = [who |-> u, home |-> h]]
  <2>1. new \in GoodLocals
    <3>1. [who |-> u, home |-> h] \in Accounts
      BY DEF Accounts, Places
    <3> QED
      BY <3>1, IdleGood DEF GoodLocals, LocalsOK, Phases
  <2>2. task' \in [Tasks -> GoodLocals]
    BY <1>2, <2>1, BecomeGood DEF AddBegin
  <2> QED
    BY <1>2, <2>2 DEF AddBegin, FilesOK, ServerOK, serverVars
<1>3. ASSUME NEW t \in Tasks, AddSigned(t) PROVE TypeInv'
  <2>1. task[t] \in GoodLocals /\ task[t].acct \in Accounts /\ task[t].acct.home \in Homes
    BY <1>3 DEF AddSigned, GoodLocals
  <2>2. NextLogin(task[t].acct.who) \in Logins /\ ServerOK'
    BY <1>3, <2>1, MaxLoginsIsNat DEF AddSigned, Issue, NextLogin, ServerOK, Accounts, Logins
  <2>3. [task[t] EXCEPT !.at = "signed"] \in GoodLocals
    BY <2>1 DEF GoodLocals, LocalsOK, Phases
  <2>4. task' \in [Tasks -> GoodLocals]
    BY <1>3, <2>3, BecomeGood DEF AddSigned, Move
  <2>5. FilesOK'
    BY <1>3, <2>1, <2>2 DEF AddSigned, FilesOK, Contents, Places
  <2> QED
    BY <1>3, <2>2, <2>4, <2>5 DEF AddSigned
<1>4. ASSUME NEW t \in Tasks, AddSucceed(t) PROVE TypeInv'
  BY <1>4, PersistGood, BecomeGood DEF AddSucceed, Persist, fileVars, serverVars, FilesOK, ServerOK
<1>5. ASSUME NEW t \in Tasks, AddFail(t) PROVE TypeInv'
  <2>1. task[t] \in GoodLocals /\ task[t].acct.home \in Homes
    BY <1>5 DEF AddFail, GoodLocals
  <2> QED
    BY <1>5, <2>1, IdleGood, BecomeGood
    DEF AddFail, DropHome, Stop, serverVars, FilesOK, ServerOK, Contents, Places
<1>6. ASSUME NEW t \in Tasks, NEW r \in Accounts, FetchBegin(t, r) PROVE TypeInv'
  <2>1. [Idle EXCEPT !.at = "waiting", !.acct = r] \in GoodLocals
    BY IdleGood DEF GoodLocals, LocalsOK, Phases
  <2> QED
    BY <1>6, <2>1, BecomeGood DEF FetchBegin, fileVars, serverVars, FilesOK, ServerOK
<1>7. ASSUME NEW t \in Tasks, LoadLogin(t) PROVE TypeInv'
  <2>1. task[t] \in GoodLocals /\ task[t].acct \in Accounts
    BY <1>7 DEF LoadLogin, GoodLocals
  <2> DEFINE c == auth[task[t].acct.home]
  <2>2. ASSUME c \in Logins
        PROVE  [task[t] EXCEPT !.at = "fetch", !.cred = c, !.base = c, !.renewals = 2]
                   \in GoodLocals
    BY <2>1, <2>2, FetchGood
  <2>3. task' \in [Tasks -> GoodLocals]
    BY <1>7, <2>2, IdleGood, BecomeGood DEF LoadLogin, Stop
  <2> QED
    BY <1>7, <2>3 DEF LoadLogin, fileVars, serverVars, FilesOK, ServerOK
<1>8. ASSUME NEW t \in Tasks, Renew(t) PROVE TypeInv'
  <2>1. task[t] \in GoodLocals /\ task[t].cred \in Logins /\ task[t].renewals \in 0..2
    BY <1>8 DEF Renew, GoodLocals, LocalsOK
  <2>2. NextLogin(task[t].cred.who) \in Logins /\ ServerOK'
    BY <1>8, <2>1, MaxLoginsIsNat DEF Renew, NextLogin, ServerOK, Logins
  <2>3. [task[t] EXCEPT !.at = "renewed", !.cred = NextLogin(task[t].cred.who),
                        !.renewals = @ - 1] \in GoodLocals
    <3>1. task[t].acct \in Accounts /\ task[t].base \in Logins /\ task[t].renewals > 0
      BY <1>8, <2>1 DEF Renew, GoodLocals
    <3> QED
      BY <2>1, <2>2, <3>1, RenewedGood
  <2>4. task' \in [Tasks -> GoodLocals]
    BY <1>8, <2>3, BecomeGood DEF Renew
  <2> QED
    BY <1>8, <2>2, <2>4 DEF Renew, fileVars, FilesOK
<1>9. ASSUME NEW t \in Tasks, RenewLost(t) PROVE TypeInv'
  <2>1. task[t] \in GoodLocals /\ task[t].renewals \in 0..2
    BY <1>9 DEF RenewLost, GoodLocals, LocalsOK
  <2>2. [task[t] EXCEPT !.renewals = @ - 1] \in GoodLocals
    BY <1>9, <2>1 DEF RenewLost, GoodLocals, LocalsOK
  <2>3. task' \in [Tasks -> GoodLocals]
    BY <1>9, <2>2, BecomeGood DEF RenewLost
  <2> QED
    BY <1>9, <2>3, MaxLoginsIsNat DEF RenewLost, fileVars, FilesOK, ServerOK
<1>10. ASSUME NEW t \in Tasks, SaveLogin(t) PROVE TypeInv'
  <2> DEFINE h == task[t].acct.home
             written == h = Ambient \/ h \in dirs
             base == IF written THEN task[t].cred ELSE task[t].base
  <2>1. task[t] \in GoodLocals /\ task[t].cred \in Logins /\ task[t].base \in Logins
        /\ h \in Places
    BY <1>10 DEF SaveLogin, GoodLocals, Accounts
  <2>2. [task[t] EXCEPT !.at = "fetch", !.base = base] \in GoodLocals
    <3>1. base \in Logins /\ base \in Contents
      BY <2>1 DEF Contents
    <3> HIDE DEF base
    <3> QED
      BY <1>10, <2>1, <3>1 DEF SaveLogin, GoodLocals, LocalsOK, Phases
  <2>3. Become(t, [task[t] EXCEPT !.at = "fetch", !.base = base])
    BY <1>10 DEF SaveLogin
  <2>4. task' \in [Tasks -> GoodLocals]
    BY <2>2, <2>3, BecomeGood
  <2>5. FilesOK'
    BY <1>10, <2>1, AmbientIsNoHome DEF SaveLogin, FilesOK, Contents, Places
  <2> QED
    BY <1>10, <2>4, <2>5 DEF SaveLogin, serverVars, ServerOK
<1>11. ASSUME NEW t \in Tasks, EndFetch(t) PROVE TypeInv'
  BY <1>11, IdleGood, PersistGood, BecomeGood
  DEF EndFetch, Stop, Persist, fileVars, serverVars, FilesOK, ServerOK
<1>12. ASSUME NEW t \in Tasks, NEW r \in Accounts, SwitchBegin(t, r) PROVE TypeInv'
  <2>1. [Idle EXCEPT !.at = "switching", !.acct = r] \in GoodLocals
    BY IdleGood DEF GoodLocals, LocalsOK, Phases
  <2> QED
    BY <1>12, <2>1, BecomeGood DEF SwitchBegin, fileVars, serverVars, FilesOK, ServerOK
<1>13. ASSUME NEW t \in Tasks, Inspect(t) PROVE TypeInv'
  <2>1. task[t] \in GoodLocals /\ task[t].acct \in Accounts
    BY <1>13 DEF Inspect, GoodLocals
  <2>2. [task[t] EXCEPT !.at = "backup"] \in GoodLocals
    BY <2>1 DEF GoodLocals, LocalsOK, Phases
  <2>3. ASSUME Intact(Ambient)
        PROVE  [task[t] EXCEPT !.at = "adopting", !.cred = auth[Ambient]] \in GoodLocals
    <3>1. auth[Ambient] \in Logins /\ auth[Ambient] \in Contents
      BY <2>3 DEF Intact, Contents
    <3> QED
      BY <2>1, <3>1 DEF GoodLocals, LocalsOK, Phases
  <2>4. task' \in [Tasks -> GoodLocals]
    BY <1>13, <2>2, <2>3, IdleGood, BecomeGood DEF Inspect, Stop, Move
  <2> QED
    BY <1>13, <2>4 DEF Inspect, fileVars, serverVars, FilesOK, ServerOK
<1>14. ASSUME NEW t \in Tasks, NEW h \in Homes, Materialize(t, h) PROVE TypeInv'
  <2>1. task[t] \in GoodLocals /\ task[t].acct \in Accounts /\ task[t].cred \in Logins
    BY <1>14 DEF Materialize, GoodLocals
  <2> DEFINE mat == [who |-> task[t].cred.who, home |-> h]
  <2>2. mat \in Accounts
    BY <2>1 DEF Logins, Accounts, Places
  <2>3. [task[t] EXCEPT !.at = "backup", !.cred = NoFile, !.mat = mat] \in GoodLocals
    <3> HIDE DEF mat
    <3> QED
      BY <2>1, <2>2 DEF GoodLocals, LocalsOK, Phases, Contents
  <2>4. task' \in [Tasks -> GoodLocals]
    BY <1>14, <2>3, BecomeGood DEF Materialize
  <2>5. FilesOK'
    BY <1>14 DEF Materialize, FilesOK, Contents, Places
  <2>6. mixed' \in BOOLEAN
    BY <1>14 DEF Materialize
  <2> QED
    BY <1>14, <2>4, <2>5, <2>6 DEF Materialize, serverVars, ServerOK
<1>15. ASSUME NEW t \in Tasks, NothingToAdopt(t) PROVE TypeInv'
  BY <1>15, IdleGood, BecomeGood
  DEF NothingToAdopt, Stop, fileVars, serverVars, FilesOK, ServerOK
<1>16. ASSUME NEW t \in Tasks, BackupAmbient(t) PROVE TypeInv'
  <2>1. task[t] \in GoodLocals /\ task[t].acct \in Accounts /\ auth[Ambient] \in Contents
    BY <1>16 DEF BackupAmbient, GoodLocals, FilesOK, Places
  <2>2. [task[t] EXCEPT !.at = "copying", !.base = auth[Ambient]] \in GoodLocals
    BY <2>1 DEF GoodLocals, LocalsOK, Phases
  <2>3. task' \in [Tasks -> GoodLocals]
    BY <1>16, <2>2, BecomeGood DEF BackupAmbient
  <2> QED
    BY <1>16, <2>3 DEF BackupAmbient, serverVars, FilesOK, ServerOK
<1>17. ASSUME NEW t \in Tasks, CopyTarget(t) PROVE TypeInv'
  <2>1. task[t].acct.home \in Places /\ task[t].mat \in Accounts \cup {None}
    BY <1>17 DEF CopyTarget, GoodLocals, LocalsOK, Accounts
  <2>2. task' \in [Tasks -> GoodLocals]
    BY <1>17, <2>1, IdleGood, PersistGood, BecomeGood DEF CopyTarget, Persist, Stop
  <2>3. FilesOK'
    BY <1>17, <2>1, AmbientIsNoHome DEF CopyTarget, FilesOK, Places
  <2> QED
    BY <1>17, <2>2, <2>3 DEF CopyTarget, serverVars, ServerOK
<1>18. ASSUME NEW t \in Tasks, NEW r \in Accounts, RemoveBegin(t, r) PROVE TypeInv'
  <2>1. Listed \ {r} \in SUBSET Accounts
    BY <1>18, ListedAreAccounts DEF RemoveBegin
  <2>2. [Idle EXCEPT !.at = "saving", !.list = Listed \ {r}] \in GoodLocals
    BY <2>1, SaveGood
  <2> DEFINE targets == {r.home} \cup SameUser(r)
  <2>3. ASSUME IsManaged(r)
        PROVE  [Idle EXCEPT !.at = "removing", !.acct = r, !.list = Listed \ {r},
                            !.targets = targets] \in GoodLocals
    <3>1. targets \in SUBSET Homes
      BY <2>3 DEF IsManaged, SameUser, FilesOK, Accounts, Places
    <3> HIDE DEF targets
    <3> QED
      BY <2>1, <3>1, IdleGood DEF GoodLocals, LocalsOK, Phases
  <2>4. task' \in [Tasks -> GoodLocals]
    BY <1>18, <2>2, <2>3, BecomeGood DEF RemoveBegin, Save
  <2> QED
    BY <1>18, <2>4 DEF RemoveBegin, fileVars, serverVars, FilesOK, ServerOK
<1>19. ASSUME NEW t \in Tasks, NEW h \in Homes, RemoveHome(t, h) PROVE TypeInv'
  <2>1. /\ task[t] \in GoodLocals
        /\ task[t].list \in SUBSET Accounts /\ task[t].targets \in SUBSET Homes
    BY <1>19 DEF RemoveHome, GoodLocals, LocalsOK
  <2>2. [task[t] EXCEPT !.targets = @ \ {h}] \in GoodLocals
    BY <2>1 DEF GoodLocals, LocalsOK
  <2>3. task' \in [Tasks -> GoodLocals]
    BY <1>19, <2>1, <2>2, SaveGood, BecomeGood DEF RemoveHome, Save
  <2>4. FilesOK'
    BY <1>19 DEF RemoveHome, DropHome, FilesOK, Contents, Places
  <2> QED
    BY <1>19, <2>3, <2>4 DEF RemoveHome, serverVars, ServerOK
<1>20. ASSUME NEW t \in Tasks, PersistLoad(t) PROVE TypeInv'
  <2>1. ASSUME Readable, NEW list \in Merges(Listed, task[t].mat)
        PROVE  list \in SUBSET Accounts
    <3>1. task[t].mat \in Accounts \cup {None}
      BY DEF GoodLocals, LocalsOK
    <3> QED
      BY <2>1, <3>1, ListedAreAccounts DEF Merges
  <2>2. task' \in [Tasks -> GoodLocals]
    BY <1>20, <2>1, IdleGood, SaveGood, BecomeGood DEF PersistLoad, Save, Stop
  <2> QED
    BY <1>20, <2>2 DEF PersistLoad, fileVars, serverVars, FilesOK, ServerOK
<1>21. ASSUME NEW t \in Tasks, PersistSave(t) PROVE TypeInv'
  <2>1. task[t].list \in SUBSET Accounts
    BY <1>21 DEF PersistSave, GoodLocals, LocalsOK
  <2> QED
    BY <1>21, <2>1, IdleGood, BecomeGood
    DEF PersistSave, Stop, fileVars, serverVars, FilesOK, ServerOK
<1>22. ASSUME NEW t \in Tasks, HalfDone(t), UNCHANGED <<dirs, made, backups>>
       PROVE  FilesOK' /\ accounts' \in (SUBSET Accounts) \cup {Torn}
  <2>1. task[t] \in GoodLocals
    BY <1>22
  <2>2. Writing(t) \subseteq dirs \cup {Ambient}
    BY DEF Writing
  <2>3. NextTargets(t) \subseteq Homes
    BY <2>1 DEF NextTargets, GoodLocals, LocalsOK
  <2>4. FilesOK'
    BY <1>22, <2>2, <2>3, AmbientIsNoHome DEF HalfDone, FilesOK, Contents, Places
  <2> QED
    BY <1>22, <2>4 DEF HalfDone
<1>23. ASSUME NEW t \in Tasks, Fails(t) PROVE TypeInv'
  <2>1. task[t] \in GoodLocals
    BY <1>23
  <2>2. ASSUME task[t].at = "renewed" PROVE [task[t] EXCEPT !.at = "fetch"] \in GoodLocals
    BY <2>1, <2>2 DEF GoodLocals, LocalsOK, Phases
  <2>3. task' \in [Tasks -> GoodLocals]
    BY <1>23, <2>2, IdleGood, BecomeGood DEF Fails, Stop, Move
  <2> QED
    BY <1>22, <1>23, <2>3 DEF Fails, serverVars, ServerOK
<1>24. ASSUME NEW t \in Tasks, Crash(t) PROVE TypeInv'
  BY <1>22, <1>24, IdleGood DEF Crash, serverVars, ServerOK
<1>25. ASSUME NEW u \in Users, CliLogin(u) PROVE TypeInv'
  <2>1. NextLogin(u) \in Logins /\ ServerOK'
    BY <1>25, MaxLoginsIsNat DEF CliLogin, Issue, NextLogin, ServerOK, Logins
  <2>2. FilesOK'
    BY <1>25, <2>1, AmbientIsNoHome DEF CliLogin, FilesOK, Contents, Places
  <2> QED
    BY <1>25, <2>1, <2>2 DEF CliLogin
<1>26. ASSUME CliRenew PROVE TypeInv'
  <2>1. auth[Ambient].who \in Users
    BY <1>26 DEF CliRenew, ServerOK, Logins
  <2>2. NextLogin(auth[Ambient].who) \in Logins /\ ServerOK'
    BY <1>26, <2>1, MaxLoginsIsNat DEF CliRenew, NextLogin, ServerOK, Logins
  <2>3. FilesOK'
    BY <1>26, <2>2, AmbientIsNoHome DEF CliRenew, FilesOK, Contents, Places
  <2> QED
    BY <1>26, <2>2, <2>3 DEF CliRenew
<1>27. ASSUME CliLogout PROVE TypeInv'
  BY <1>27, AmbientIsNoHome DEF CliLogout, serverVars, FilesOK, ServerOK, Contents, Places
<1> QED
  BY <1>1, <1>2, <1>3, <1>4, <1>5, <1>6, <1>7, <1>8, <1>9, <1>10, <1>11, <1>12,
     <1>13, <1>14, <1>15, <1>16, <1>17, <1>18, <1>19, <1>20, <1>21, <1>23, <1>24,
     <1>25, <1>26, <1>27
  DEF Next, Step

LEMMA TypeInit == Init => TypeInv
<1> SUFFICES ASSUME Init PROVE TypeInv
  OBVIOUS
<1>1. task \in [Tasks -> GoodLocals]
  BY IdleGood DEF Init
<1>2. FilesOK
  BY DEF Init, FilesOK, Contents, Places
<1>3. ServerOK
  BY MaxLoginsIsNat DEF Init, ServerOK
<1> QED
  BY <1>1, <1>2, <1>3 DEF Init, TypeInv

\* TypeOK: whatever the commands, the lanes, the CLI and the faults do, every
\* variable keeps its type and no login is written to a home that was removed.
THEOREM TypeCorrect == Spec => []TypeOK
<1>1. Spec => []TypeInv
  BY TypeInit, TypeStep, PTL DEF Spec
<1> QED
  BY <1>1, TypeInvImpliesTypeOK, PTL

-----------------------------------------------------------------------------
(* No login is lost.                                                       *)

\* What a task relies on: the file contents it may overwrite are a login that
\* is no longer accepted (a renewal), or are backed up (a switch).
Relies(x, count, accepted, copies) ==
    /\ x.at \in {"fetch", "renewed"} => x.cred.no <= count /\ x.base.no <= count
    /\ x.at = "fetch" => x.base = x.cred \/ x.base \notin accepted
    /\ x.at = "renewed" => x.base \notin accepted
    /\ x.at = "copying" /\ x.base \in Logins => x.base \in copies
IssuedOK ==
    /\ \A l \in live : l.no <= issued
    /\ \A p \in Places : Intact(p) => auth[p].no <= issued
KeepInv ==
    /\ IssuedOK
    /\ \A t \in Tasks : Relies(task[t], issued, live, backups)

\* Numbers of logins and backups only grow; a new login has the next number.
LEMMA ServerMoves ==
    ASSUME TypeInv, [Next]_vars
    PROVE  /\ issued' \in {issued, issued + 1}
           /\ backups \subseteq backups'
           /\ \A l \in live' : l \in live \/ (l.no = issued + 1 /\ issued' = issued + 1)
           /\ made \subseteq made'
<1>1. CASE UNCHANGED vars
  BY <1>1 DEF vars, fileVars, serverVars, TypeInv, ServerOK
<1> USE DEF TypeInv, ServerOK, fileVars, serverVars
<1>2. ASSUME NEW t \in Tasks,
             AddSucceed(t) \/ LoadLogin(t) \/ EndFetch(t) \/ Inspect(t)
             \/ NothingToAdopt(t) \/ PersistLoad(t) \/ PersistSave(t)
      PROVE  UNCHANGED <<serverVars, backups, made>>
  BY <1>2 DEF AddSucceed, LoadLogin, EndFetch, Inspect, NothingToAdopt, PersistLoad, PersistSave
<1>3. ASSUME NEW t \in Tasks, NEW r \in Accounts,
             FetchBegin(t, r) \/ SwitchBegin(t, r) \/ RemoveBegin(t, r)
      PROVE  UNCHANGED <<serverVars, backups, made>>
  BY <1>3 DEF FetchBegin, SwitchBegin, RemoveBegin
<1>4. ASSUME NEW t \in Tasks,
             AddFail(t) \/ SaveLogin(t) \/ CopyTarget(t) \/ Fails(t) \/ Crash(t)
      PROVE  UNCHANGED <<serverVars, backups, made>>
  BY <1>4 DEF AddFail, SaveLogin, CopyTarget, Fails, Crash
<1>5. ASSUME NEW t \in Tasks, NEW u \in Users, NEW h \in Homes,
             AddBegin(t, u, h) \/ Materialize(t, h)
      PROVE  UNCHANGED <<serverVars, backups>> /\ made \subseteq made'
  BY <1>5 DEF AddBegin, Materialize
<1>6. ASSUME NEW t \in Tasks, NEW h \in Homes, Materialize(t, h)
      PROVE  UNCHANGED <<serverVars, backups>> /\ made \subseteq made'
  BY <1>6 DEF Materialize
<1>7. ASSUME NEW t \in Tasks, NEW h \in Homes, RemoveHome(t, h)
      PROVE  UNCHANGED <<serverVars, backups, made>>
  BY <1>7 DEF RemoveHome
<1>8. ASSUME NEW t \in Tasks, BackupAmbient(t)
      PROVE  UNCHANGED <<serverVars, made>> /\ backups \subseteq backups'
  BY <1>8 DEF BackupAmbient
<1> DEFINE Issues == \A l \in live' : l \in live \/ (l.no = issued + 1 /\ issued' = issued + 1)
<1>9. ASSUME NEW t \in Tasks, AddSigned(t) \/ Renew(t) \/ RenewLost(t)
      PROVE  UNCHANGED <<backups, made>> /\ issued' = issued + 1 /\ Issues
  BY <1>9 DEF AddSigned, Renew, RenewLost, Issue, NextLogin
<1>10. ASSUME NEW u \in Users, CliLogin(u)
       PROVE  UNCHANGED <<backups, made>> /\ issued' = issued + 1 /\ Issues
  BY <1>10 DEF CliLogin, Issue, NextLogin
<1>11. ASSUME CliRenew
       PROVE  UNCHANGED <<backups, made>> /\ issued' = issued + 1 /\ Issues
  BY <1>11 DEF CliRenew, NextLogin
<1>12. ASSUME CliLogout PROVE UNCHANGED <<serverVars, backups, made>>
  BY <1>12 DEF CliLogout
<1>13. CASE Next
  BY <1>13, <1>2, <1>3, <1>4, <1>5, <1>6, <1>7, <1>8, <1>9, <1>10, <1>11, <1>12
  DEF Next, Step
<1> QED
  BY <1>1, <1>13

\* What a task relies on cannot be taken from it by another one.
LEMMA ReliesKept ==
    ASSUME TypeInv, [Next]_vars, NEW x \in GoodLocals, Relies(x, issued, live, backups)
    PROVE  Relies(x, issued', live', backups')
<1>1. x.at \in {"fetch", "renewed"} => x.cred.no \in Nat /\ x.base.no \in Nat
  BY DEF GoodLocals, Logins
<1>2. issued \in Nat /\ issued' \in {issued, issued + 1}
  BY ServerMoves DEF TypeInv, ServerOK
<1> QED
  BY <1>1, <1>2, ServerMoves DEF Relies

\* So only the task that moves has to be looked at.
LEMMA MoverRelies ==
    ASSUME TypeInv, KeepInv, [Next]_vars, NEW t \in Tasks, NEW new, Become(t, new),
           Relies(new, issued', live', backups')
    PROVE  \A s \in Tasks : Relies(task'[s], issued', live', backups')
<1> SUFFICES ASSUME NEW s \in Tasks PROVE Relies(task'[s], issued', live', backups')
  OBVIOUS
<1>1. CASE s = t
  BY <1>1 DEF Become, TypeInv
<1>2. CASE s # t
  <2>1. task'[s] = task[s] /\ task[s] \in GoodLocals
    BY <1>2 DEF Become, TypeInv
  <2>2. Relies(task[s], issued, live, backups)
    BY DEF KeepInv
  <2> QED
    BY <2>1, <2>2, ReliesKept
<1> QED
  BY <1>1, <1>2

LEMMA IdleRelies ==
    ASSUME NEW i, NEW l, NEW b PROVE Relies(Idle, i, l, b)
BY IdleGood DEF Relies

\* Locals of a phase that relies on nothing.
LEMMA FreshRelies ==
    ASSUME NEW i, NEW l, NEW b, NEW x,
           x.at \notin {"fetch", "renewed", "copying"}
    PROVE  Relies(x, i, l, b)
BY DEF Relies

LEMMA KeepStep ==
    ASSUME TypeInv, KeepInv, [Next]_vars PROVE KeepInv'
<1> DEFINE FilesIssued == \A p \in Places : auth'[p] \in Logins => auth'[p].no <= issued'
           AllRely     == \A s \in Tasks : Relies(task'[s], issued', live', backups')
<1>a. issued \in Nat /\ issued' \in {issued, issued + 1}
  BY ServerMoves DEF TypeInv, ServerOK
<1>b. \A p \in Places : auth[p] \in Logins => auth[p].no <= issued /\ auth[p].no \in Nat
  BY DEF KeepInv, IssuedOK, Intact, Logins
<1>c. \A p \in Places : auth[p] \in Logins => auth[p].no <= issued'
  BY <1>a, <1>b
<1>d. \A t \in Tasks : task[t] \in GoodLocals
  BY DEF TypeInv
<1>e. ASSUME NEW t \in Tasks, task[t].at \in {"fetch", "renewed"}
      PROVE  /\ task[t].cred \in Logins /\ task[t].cred.no \in Nat
             /\ task[t].base \in Logins /\ task[t].base.no \in Nat
             /\ task[t].cred.no <= issued /\ task[t].base.no <= issued
  <2>1. task[t].cred.no <= issued /\ task[t].base.no <= issued
    BY <1>e DEF KeepInv, Relies
  <2>2. task[t].cred \in Logins /\ task[t].base \in Logins
    BY <1>d, <1>e DEF GoodLocals
  <2> QED
    BY <2>1, <2>2 DEF Logins
<1>f. ASSUME NEW t \in Tasks, task[t].at \in {"waiting", "renewed", "copying"}
      PROVE  task[t].acct.home \in Places
  BY <1>d, <1>f DEF GoodLocals, Accounts
<1>1. CASE UNCHANGED vars
  BY <1>1 DEF vars, fileVars, serverVars, KeepInv, IssuedOK, Intact
<1>2. ASSUME NEW t \in Tasks, NEW u \in Users, NEW h \in Homes, AddBegin(t, u, h)
      PROVE  FilesIssued /\ AllRely
  <2> DEFINE new == [Idle EXCEPT !.at = "login", !.acct = [who |-> u, home |-> h]]
  <2>1. new.at = "login"
    BY IdleGood DEF GoodLocals, LocalsOK
  <2>2. AllRely
    BY <1>2, <2>1, FreshRelies, MoverRelies DEF AddBegin
  <2> QED
    BY <1>2, <1>c, <2>2 DEF AddBegin
<1>3. ASSUME NEW t \in Tasks, AddSigned(t) PROVE FilesIssued /\ AllRely
  <2>1. [task[t] EXCEPT !.at = "signed"].at = "signed"
    BY <1>d DEF GoodLocals, LocalsOK
  <2>2. AllRely
    BY <1>3, <2>1, FreshRelies, MoverRelies DEF AddSigned, Move
  <2>3. NextLogin(task[t].acct.who).no = issued + 1 /\ issued' = issued + 1
    BY <1>3 DEF AddSigned, Issue, NextLogin
  <2>4. FilesIssued
    BY <1>3, <1>c, <1>a, <2>3 DEF AddSigned, TypeInv, FilesOK
  <2> QED
    BY <2>2, <2>4
<1>4. ASSUME NEW t \in Tasks, NEW mat, Persist(t, mat) PROVE AllRely
  <2>1. [Idle EXCEPT !.at = "persisting", !.mat = mat].at = "persisting"
    BY IdleGood DEF GoodLocals, LocalsOK
  <2> QED
    BY <1>4, <2>1, FreshRelies, MoverRelies DEF Persist
<1>5. ASSUME NEW t \in Tasks, NEW list, Save(t, list) PROVE AllRely
  <2>1. [Idle EXCEPT !.at = "saving", !.list = list].at = "saving"
    BY IdleGood DEF GoodLocals, LocalsOK
  <2> QED
    BY <1>5, <2>1, FreshRelies, MoverRelies DEF Save
<1>6. ASSUME NEW t \in Tasks, Stop(t) PROVE AllRely
  BY <1>6, IdleRelies, MoverRelies DEF Stop
<1>7. ASSUME NEW t \in Tasks, AddSucceed(t) \/ EndFetch(t) \/ NothingToAdopt(t)
                                \/ PersistLoad(t) \/ PersistSave(t)
      PROVE  FilesIssued /\ AllRely
  BY <1>7, <1>4, <1>5, <1>6, <1>c
  DEF AddSucceed, EndFetch, NothingToAdopt, PersistLoad, PersistSave, fileVars
<1>8. ASSUME NEW t \in Tasks, AddFail(t) PROVE FilesIssued /\ AllRely
  <2>1. FilesIssued
    BY <1>8, <1>c, MarksAreNoLogins DEF AddFail, DropHome, TypeInv, FilesOK
  <2> QED
    BY <1>8, <1>6, <2>1 DEF AddFail
<1>9. ASSUME NEW t \in Tasks, NEW r \in Accounts,
             FetchBegin(t, r) \/ SwitchBegin(t, r)
      PROVE  FilesIssued /\ AllRely
  <2>1. /\ [Idle EXCEPT !.at = "waiting", !.acct = r].at = "waiting"
        /\ [Idle EXCEPT !.at = "switching", !.acct = r].at = "switching"
    BY IdleGood DEF GoodLocals, LocalsOK
  <2>2. AllRely
    BY <1>9, <2>1, FreshRelies, MoverRelies DEF FetchBegin, SwitchBegin
  <2> QED
    BY <1>9, <1>c, <2>2 DEF FetchBegin, SwitchBegin, fileVars
<1>10. ASSUME NEW t \in Tasks, LoadLogin(t) PROVE FilesIssued /\ AllRely
  <2> DEFINE c == auth[task[t].acct.home]
             new == [task[t] EXCEPT !.at = "fetch", !.cred = c, !.base = c, !.renewals = 2]
  <2>1. CASE c \in Logins
    <3>1. c.no <= issued
      BY <1>10, <1>b, <1>f, <2>1 DEF LoadLogin
    <3>2. new.at = "fetch" /\ new.cred = c /\ new.base = c
      BY <1>d DEF GoodLocals, LocalsOK
    <3>3. c.no <= issued'
      BY <1>10, <3>1 DEF LoadLogin, serverVars
    <3>4. Relies(new, issued', live', backups')
      BY <3>2, <3>3 DEF Relies
    <3>5. Become(t, new)
      BY <1>10, <2>1 DEF LoadLogin
    <3> HIDE DEF new
    <3> QED
      BY <1>10, <1>c, <3>4, <3>5, MoverRelies DEF LoadLogin, fileVars
  <2>2. CASE c \notin Logins
    BY <1>10, <1>6, <1>c, <2>2 DEF LoadLogin, fileVars
  <2> QED
    BY <2>1, <2>2
<1>11. ASSUME NEW t \in Tasks, Renew(t) PROVE FilesIssued /\ AllRely
  <2> DEFINE c   == task[t].cred
             c2  == NextLogin(c.who)
             new == [task[t] EXCEPT !.at = "renewed", !.cred = c2, !.renewals = @ - 1]
  <2>1. new.at = "renewed" /\ new.cred = c2 /\ new.base = task[t].base
    BY <1>d DEF GoodLocals, LocalsOK
  <2>2. c2.no = issued + 1 /\ issued' = issued + 1
    BY <1>11 DEF Renew, NextLogin
  <2>3. /\ task[t].base = c \/ task[t].base \notin live
        /\ task[t].base.no <= issued /\ task[t].base.no \in Nat
        /\ c.no <= issued /\ c.no \in Nat
    BY <1>11, <1>e DEF Renew, Relies, KeepInv
  <2>4. live' = (live \ {c}) \cup {c2}
    BY <1>11 DEF Renew
  <2>5. task[t].base \notin live'
    <3>1. task[t].base # c2 /\ c # c2
      BY <1>a, <2>2, <2>3
    <3> HIDE DEF c, c2
    <3> QED
      BY <2>3, <2>4, <3>1
  <2>6. Relies(new, issued', live', backups')
    <3> HIDE DEF new, c, c2
    <3> QED
      BY <1>a, <2>1, <2>2, <2>3, <2>5 DEF Relies
  <2>7. Become(t, new)
    BY <1>11 DEF Renew
  <2> HIDE DEF new
  <2> QED
    BY <1>11, <1>c, <2>6, <2>7, MoverRelies DEF Renew, fileVars
<1>12. ASSUME NEW t \in Tasks, RenewLost(t) PROVE FilesIssued /\ AllRely
  <2> DEFINE new == [task[t] EXCEPT !.renewals = @ - 1]
  <2>1. new.at = "fetch" /\ new.cred = task[t].cred /\ new.base = task[t].base
    BY <1>12, <1>d DEF RenewLost, GoodLocals, LocalsOK
  <2>2. /\ task[t].base = task[t].cred \/ task[t].base \notin live'
        /\ task[t].cred.no <= issued' /\ task[t].base.no <= issued'
    BY <1>12, <1>a, <1>e DEF RenewLost, Relies, KeepInv
  <2>3. Relies(new, issued', live', backups')
    <3> HIDE DEF new
    <3> QED
      BY <2>1, <2>2 DEF Relies
  <2>4. Become(t, new)
    BY <1>12 DEF RenewLost
  <2> HIDE DEF new
  <2> QED
    BY <1>12, <1>c, <2>3, <2>4, MoverRelies DEF RenewLost, fileVars
<1>13. ASSUME NEW t \in Tasks, SaveLogin(t) PROVE FilesIssued /\ AllRely
  <2> DEFINE h == task[t].acct.home
             written == h = Ambient \/ h \in dirs
             b == IF written THEN task[t].cred ELSE task[t].base
             new == [task[t] EXCEPT !.at = "fetch", !.base = b]
  <2>1. new.at = "fetch" /\ new.cred = task[t].cred /\ new.base = b
    BY <1>d DEF GoodLocals, LocalsOK
  <2>2. task[t].base \notin live /\ task[t].cred.no <= issued /\ task[t].base.no <= issued
        /\ UNCHANGED <<live, issued>>
    BY <1>13, <1>e DEF SaveLogin, Relies, KeepInv, serverVars
  <2>3. Relies(new, issued', live', backups')
    <3> HIDE DEF new
    <3> QED
      BY <2>1, <2>2 DEF Relies
  <2>4. Become(t, new)
    BY <1>13 DEF SaveLogin
  <2>5. FilesIssued
    BY <1>13, <1>c, <2>2 DEF SaveLogin, TypeInv, FilesOK
  <2> HIDE DEF new
  <2> QED
    BY <2>3, <2>4, <2>5, MoverRelies
<1>14. ASSUME NEW t \in Tasks, Inspect(t) PROVE FilesIssued /\ AllRely
  <2>1. [task[t] EXCEPT !.at = "adopting", !.cred = auth[Ambient]].at = "adopting"
    BY <1>d DEF GoodLocals, LocalsOK
  <2>2. [task[t] EXCEPT !.at = "backup"].at = "backup"
    BY <1>d DEF GoodLocals, LocalsOK
  <2>3. AllRely
    BY <1>14, <2>1, <2>2, <1>6, FreshRelies, MoverRelies DEF Inspect, Move
  <2> QED
    BY <1>14, <1>c, <2>3 DEF Inspect, fileVars
<1>15. ASSUME NEW t \in Tasks, NEW h \in Homes, Materialize(t, h)
       PROVE  FilesIssued /\ AllRely
  <2> DEFINE new == [task[t] EXCEPT !.at = "backup", !.cred = NoFile,
                        !.mat = [who |-> task[t].cred.who, home |-> h]]
  <2>1. new.at = "backup"
    BY <1>d DEF GoodLocals, LocalsOK
  <2>2. AllRely
    BY <1>15, <2>1, FreshRelies, MoverRelies DEF Materialize
  <2>3. FilesIssued
    BY <1>15, <1>c DEF Materialize, TypeInv, FilesOK, Places
  <2> QED
    BY <2>2, <2>3
<1>16. ASSUME NEW t \in Tasks, BackupAmbient(t) PROVE FilesIssued /\ AllRely
  <2> DEFINE new == [task[t] EXCEPT !.at = "copying", !.base = auth[Ambient]]
  <2>1. new.at = "copying" /\ new.base = auth[Ambient]
    BY <1>d DEF GoodLocals, LocalsOK
  <2>2. auth[Ambient] \in Logins => auth[Ambient] \in backups'
    BY <1>16 DEF BackupAmbient
  <2>3. Relies(new, issued', live', backups')
    <3> HIDE DEF new
    <3> QED
      BY <2>1, <2>2 DEF Relies
  <2>4. Become(t, new)
    BY <1>16 DEF BackupAmbient
  <2> HIDE DEF new
  <2> QED
    BY <1>16, <1>c, <2>3, <2>4, MoverRelies DEF BackupAmbient
<1>17. ASSUME NEW t \in Tasks, CopyTarget(t) PROVE FilesIssued /\ AllRely
  <2>1. FilesIssued
    BY <1>17, <1>c, <1>f DEF CopyTarget, TypeInv, FilesOK
  <2> QED
    BY <1>17, <1>4, <1>6, <2>1 DEF CopyTarget
<1>18. ASSUME NEW t \in Tasks, NEW r \in Accounts, RemoveBegin(t, r)
       PROVE  FilesIssued /\ AllRely
  <2>1. [Idle EXCEPT !.at = "removing", !.acct = r, !.list = Listed \ {r},
                     !.targets = {r.home} \cup SameUser(r)].at = "removing"
    BY IdleGood DEF GoodLocals, LocalsOK
  <2>2. AllRely
    BY <1>18, <1>5, <2>1, FreshRelies, MoverRelies DEF RemoveBegin
  <2> QED
    BY <1>18, <1>c, <2>2 DEF RemoveBegin, fileVars
<1>19. ASSUME NEW t \in Tasks, NEW h \in Homes, RemoveHome(t, h)
       PROVE  FilesIssued /\ AllRely
  <2>1. [task[t] EXCEPT !.targets = @ \ {h}].at = "removing"
    BY <1>19, <1>d DEF RemoveHome, GoodLocals, LocalsOK
  <2>2. AllRely
    BY <1>19, <1>5, <2>1, FreshRelies, MoverRelies DEF RemoveHome
  <2>3. FilesIssued
    BY <1>19, <1>c, MarksAreNoLogins DEF RemoveHome, DropHome, TypeInv, FilesOK
  <2> QED
    BY <2>2, <2>3
<1>20. ASSUME NEW t \in Tasks, HalfDone(t), UNCHANGED issued PROVE FilesIssued
  BY <1>20, <1>c, MarksAreNoLogins DEF HalfDone, TypeInv, FilesOK
<1>21. ASSUME NEW t \in Tasks, Fails(t) PROVE FilesIssued /\ AllRely
  <2>1. CASE task[t].at = "renewed"
    <3> DEFINE new == [task[t] EXCEPT !.at = "fetch"]
    <3>1. new.at = "fetch" /\ new.cred = task[t].cred /\ new.base = task[t].base
      BY <1>d DEF GoodLocals, LocalsOK
    <3>2. task[t].base \notin live' /\ task[t].cred.no <= issued' /\ task[t].base.no <= issued'
      BY <1>21, <2>1, <1>e DEF Fails, Relies, KeepInv, serverVars
    <3>3. Relies(new, issued', live', backups')
      <4> HIDE DEF new
      <4> QED
        BY <3>1, <3>2 DEF Relies
    <3>4. Become(t, new)
      BY <1>21, <2>1 DEF Fails, Move
    <3> HIDE DEF new
    <3> QED
      BY <1>20, <1>21, <3>3, <3>4, MoverRelies DEF Fails, serverVars
  <2>2. CASE task[t].at # "renewed"
    BY <1>20, <1>21, <1>6, <2>2 DEF Fails, serverVars
  <2> QED
    BY <2>1, <2>2
<1>22. ASSUME NEW t \in Tasks, Crash(t) PROVE FilesIssued /\ AllRely
  BY <1>20, <1>22, IdleRelies DEF Crash, serverVars
<1>23. ASSUME UNCHANGED task PROVE AllRely
  BY <1>23, <1>d, ReliesKept DEF KeepInv
<1>24. ASSUME NEW u \in Users, CliLogin(u) PROVE FilesIssued /\ AllRely
  <2>1. NextLogin(u).no <= issued'
    BY <1>24, <1>a DEF CliLogin, Issue, NextLogin
  <2> QED
    BY <1>24, <1>c, <1>23, <2>1 DEF CliLogin, TypeInv, FilesOK
<1>25. ASSUME CliRenew PROVE FilesIssued /\ AllRely
  <2>1. NextLogin(auth[Ambient].who).no <= issued'
    BY <1>25, <1>a DEF CliRenew, NextLogin
  <2> QED
    BY <1>25, <1>c, <1>23, <2>1 DEF CliRenew, TypeInv, FilesOK
<1>26. ASSUME CliLogout PROVE FilesIssued /\ AllRely
  BY <1>26, <1>c, <1>23, MarksAreNoLogins DEF CliLogout, TypeInv, FilesOK
<1>27. CASE Next
  <2>1. FilesIssued /\ AllRely
    BY <1>27, <1>2, <1>3, <1>7, <1>8, <1>9, <1>10, <1>11, <1>12, <1>13, <1>14, <1>15,
       <1>16, <1>17, <1>18, <1>19, <1>21, <1>22, <1>24, <1>25, <1>26
    DEF Next, Step
  <2>2. \A l \in live' : l.no <= issued'
    BY <1>a, ServerMoves DEF KeepInv, IssuedOK, TypeInv, ServerOK, Logins
  <2> QED
    BY <2>1, <2>2 DEF KeepInv, IssuedOK, Intact
<1> QED
  BY <1>1, <1>27

-----------------------------------------------------------------------------
(* Homes and their users.                                                  *)

\* A task takes home h for one of user u's.
KnownBy(x, u, h) ==
    \/ x.acct = [who |-> u, home |-> h]
    \/ x.mat = [who |-> u, home |-> h]
    \/ [who |-> u, home |-> h] \in x.list
    \/ x.acct # None /\ h \in x.targets /\ x.acct.who = u
    \/ x.at \in {"fetch", "renewed"} /\ x.acct.home = h /\ x.cred.who = u

\* The home's own login, the store or a task says that home h is user u's.
Known(u, h) ==
    \/ Intact(h) /\ auth[h].who = u
    \/ Readable /\ [who |-> u, home |-> h] \in accounts
    \/ \E t \in Tasks : KnownBy(task[t], u, h)

\* Only homes that were made are known, and all agree on whose they are,
\* unless a switch has copied another user's login than it had read.
HomeInv ==
    /\ \A u \in Users, h \in Homes : Known(u, h) => h \in made
    /\ ~mixed => \A u, v \in Users, h \in Homes : Known(u, h) /\ Known(v, h) => u = v

LEMMA IdleKnows ==
    ASSUME NEW u \in Users, NEW h \in Homes PROVE ~KnownBy(Idle, u, h)
<1>1. [who |-> u, home |-> h] \in Accounts
  BY DEF Accounts, Places
<1> QED
  BY <1>1, IdleGood, NoneIsNoAccount DEF KnownBy

\* What a load lists for a managed home is known before.
LEMMA ListedKnown ==
    ASSUME TypeInv, Readable, NEW u \in Users, NEW h \in Homes,
           [who |-> u, home |-> h] \in Listed
    PROVE  Known(u, h)
<1> DEFINE a == [who |-> u, home |-> h]
<1>1. \A p \in dirs \cup {Ambient} : Intact(p) /\ a = AccountAt(p) => Known(u, h)
  <2> SUFFICES ASSUME NEW p \in dirs \cup {Ambient}, Intact(p), a = AccountAt(p)
               PROVE  Known(u, h)
    OBVIOUS
  <2>1. a.home = p /\ a.who = auth[p].who
    BY DEF AccountAt
  <2>2. a.home = h /\ a.who = u
    OBVIOUS
  <2> QED
    BY <2>1, <2>2 DEF Known
<1>2. CASE a \in Stored
  <2>1. PICK r \in accounts : a = Reconciled(r)
    BY <1>2 DEF Stored
  <2>2. CASE FoundFor(r) = {}
    BY <2>1, <2>2 DEF Reconciled, Known
  <2>3. CASE FoundFor(r) # {}
    <3>1. FoundFor(r) \subseteq Homes
      BY DEF FoundFor, TypeInv, FilesOK
    <3>2. Min(FoundFor(r)) \in FoundFor(r)
      BY <2>3, <3>1, FirstIsMember
    <3> QED
      BY <1>1, <2>1, <2>3, <3>2 DEF Reconciled, FoundFor
  <2> QED
    BY <2>2, <2>3
<1>3. CASE a \notin Stored
  BY <1>1, <1>3 DEF Listed, NewHomes, NewAmbient
<1> QED
  BY <1>2, <1>3

LEMMA StoredListed == Stored \subseteq Listed
BY DEF Listed

\* A step whose files, store and new locals say nothing new of any home.
FilesFollow == \A u \in Users, h \in Homes : Intact(h)' /\ auth'[h].who = u => Known(u, h)
StoreFollows ==
    \A u \in Users, h \in Homes :
        Readable' /\ [who |-> u, home |-> h] \in accounts' => Known(u, h)
Follows(x) == \A u \in Users, h \in Homes : KnownBy(x, u, h) => Known(u, h)

LEMMA FilesStay ==
    ASSUME UNCHANGED auth PROVE FilesFollow
BY DEF FilesFollow, Known, Intact

LEMMA StoreStays ==
    ASSUME UNCHANGED accounts PROVE StoreFollows
BY DEF StoreFollows, Known, Readable

LEMMA NothingNewOf ==
    ASSUME TypeInv, NEW t \in Tasks, NEW new, Become(t, new),
           NEW u \in Users, NEW h \in Homes,
           Intact(h)' /\ auth'[h].who = u => Known(u, h),
           Readable' /\ [who |-> u, home |-> h] \in accounts' => Known(u, h),
           KnownBy(new, u, h) => Known(u, h)
    PROVE  Known(u, h)' => Known(u, h)
<1> SUFFICES ASSUME Known(u, h)' PROVE Known(u, h)
  OBVIOUS
<1>1. CASE \E s \in Tasks : KnownBy(task'[s], u, h)
  <2>1. PICK s \in Tasks : KnownBy(task'[s], u, h)
    BY <1>1
  <2>2. CASE s = t
    <3>1. task'[s] = new
      BY <2>2 DEF Become, TypeInv
    <3> QED
      BY <2>1, <3>1
  <2>3. CASE s # t
    <3>1. task'[s] = task[s]
      BY <2>3 DEF Become, TypeInv
    <3> QED
      BY <2>1, <3>1 DEF Known
  <2> QED
    BY <2>2, <2>3
<1>2. CASE ~ \E s \in Tasks : KnownBy(task'[s], u, h)
  <2>1. \A s \in Tasks : KnownBy(task[s], u, h)' <=> KnownBy(task'[s], u, h)
    BY DEF KnownBy
  <2> QED
    BY <1>2, <2>1 DEF Known
<1> QED
  BY <1>1, <1>2

LEMMA NothingNew ==
    ASSUME TypeInv, NEW t \in Tasks, NEW new, Become(t, new),
           FilesFollow, StoreFollows, Follows(new)
    PROVE  \A u \in Users, h \in Homes : Known(u, h)' => Known(u, h)
BY NothingNewOf DEF FilesFollow, StoreFollows, Follows

\* The locals of a command that has done its work name no new home.
LEMMA PersistFollows ==
    ASSUME NEW t \in Tasks, NEW mat, Persist(t, mat), mat = None \/ mat = task[t].mat,
           TypeInv
    PROVE  \E new : Become(t, new) /\ Follows(new)
<1> DEFINE new == [Idle EXCEPT !.at = "persisting", !.mat = mat]
<1>1. /\ new.at = "persisting" /\ new.mat = mat /\ new.acct = None
      /\ new.list = {} /\ new.targets = {}
  BY IdleGood DEF GoodLocals, LocalsOK
<1>2. \A u \in Users, h \in Homes : [who |-> u, home |-> h] # None
  BY NoneIsNoAccount DEF Accounts, Places
<1>3. Follows(new)
  <2> HIDE DEF new
  <2> SUFFICES ASSUME NEW u \in Users, NEW h \in Homes, KnownBy(new, u, h)
               PROVE  Known(u, h)
    BY DEF Follows
  <2>1. mat = [who |-> u, home |-> h]
    BY <1>1, <1>2 DEF KnownBy
  <2>2. KnownBy(task[t], u, h)
    BY <1>2, <2>1 DEF KnownBy
  <2> QED
    BY <2>2 DEF Known
<1>4. Become(t, new)
  BY DEF Persist
<1> QED
  BY <1>3, <1>4

LEMMA SaveFollows ==
    ASSUME NEW t \in Tasks, NEW list, Save(t, list),
           \A u \in Users, h \in Homes : [who |-> u, home |-> h] \in list => Known(u, h)
    PROVE  \E new : Become(t, new) /\ Follows(new)
<1> DEFINE new == [Idle EXCEPT !.at = "saving", !.list = list]
<1>1. /\ new.at = "saving" /\ new.mat = None /\ new.acct = None
      /\ new.list = list /\ new.targets = {}
  BY IdleGood DEF GoodLocals, LocalsOK
<1>2. \A u \in Users, h \in Homes : [who |-> u, home |-> h] # None
  BY NoneIsNoAccount DEF Accounts, Places
<1>3. Follows(new)
  <2> HIDE DEF new
  <2> QED
    BY <1>1, <1>2 DEF Follows, KnownBy
<1>4. Become(t, new)
  BY DEF Save
<1> QED
  BY <1>3, <1>4

LEMMA StopFollows ==
    ASSUME NEW t \in Tasks, Stop(t)
    PROVE  \E new : Become(t, new) /\ Follows(new)
BY IdleKnows DEF Stop, Follows

\* A task that goes on with what it has names no new home.
LEMMA SameFollows ==
    ASSUME NEW t \in Tasks, NEW new, Become(t, new),
           new.acct = task[t].acct, new.mat = task[t].mat, new.list = task[t].list,
           new.targets \subseteq task[t].targets,
           new.at \in {"fetch", "renewed"} =>
               task[t].at \in {"fetch", "renewed"} /\ new.cred.who = task[t].cred.who
    PROVE  \E x : Become(t, x) /\ Follows(x)
BY DEF Follows, Known, KnownBy

\* A task that takes up a listed account names no new home.
LEMMA NamesAccount ==
    ASSUME NEW t \in Tasks, NEW r \in Accounts, NEW new, Become(t, new),
           new.acct = r, new.mat = None, new.list = {}, new.targets = {},
           new.at \notin {"fetch", "renewed"}, TypeInv, Readable, r \in Listed
    PROVE  \E x : Become(t, x) /\ Follows(x)
<1>1. \A u \in Users, h \in Homes : [who |-> u, home |-> h] # None
  BY NoneIsNoAccount DEF Accounts, Places
<1>2. Follows(new)
  BY <1>1, ListedKnown DEF Follows, KnownBy
<1> QED
  BY <1>2

\* The homes in use after a step that names no new one agree as before.
LEMMA HomesStay ==
    ASSUME TypeInv, HomeInv, made \subseteq made', mixed => mixed',
           \A u \in Users, h \in Homes : Known(u, h)' => Known(u, h)
    PROVE  HomeInv'
BY DEF HomeInv

\* So they do after a step that makes a home for one user.
LEMMA HomeMade ==
    ASSUME TypeInv, HomeInv, NEW g \in Homes, g \notin made, made' = made \cup {g},
           mixed => mixed', NEW v \in Users,
           \A u \in Users, h \in Homes :
               h # g \/ (~mixed' /\ u # v) => (Known(u, h)' => Known(u, h))
    PROVE  HomeInv'
<1>1. ASSUME NEW u \in Users, NEW h \in Homes, Known(u, h)' PROVE h \in made'
  BY <1>1 DEF HomeInv
<1>2. ASSUME ~mixed', NEW u \in Users, NEW w \in Users, NEW h \in Homes,
             Known(u, h)', Known(w, h)'
      PROVE  u = w
  <2>1. CASE h # g
    BY <1>2, <2>1 DEF HomeInv
  <2>2. CASE h = g
    BY <1>2, <2>2 DEF HomeInv
  <2> QED
    BY <2>1, <2>2
<1> QED
  BY <1>1, <1>2 DEF HomeInv

LEMMA HomeStep ==
    ASSUME TypeInv, HomeInv, [Next]_vars PROVE HomeInv'
<1>g. \A t \in Tasks : task[t] \in GoodLocals
  BY DEF TypeInv
<1>n. \A u \in Users, h \in Homes : [who |-> u, home |-> h] # None
  BY NoneIsNoAccount DEF Accounts, Places
<1>m. made \subseteq made'
  BY ServerMoves
<1>s. ASSUME NEW t \in Tasks, \E new : Become(t, new) /\ Follows(new),
             FilesFollow, StoreFollows, mixed => mixed'
      PROVE  HomeInv'
  BY <1>s, <1>m, NothingNew, HomesStay
\* A home that loses or keeps its file names nobody new.
<1>d. ASSUME \A h \in Homes : auth'[h] \in {auth[h], NoFile, Torn}
      PROVE  FilesFollow
  BY <1>d, MarksAreNoLogins DEF FilesFollow, Known, Intact
<1>1. CASE UNCHANGED vars
  <2>1. \A u \in Users, h \in Homes : Known(u, h)' <=> Known(u, h)
    BY <1>1 DEF vars, fileVars, Known, KnownBy, Intact, Readable
  <2> QED
    BY <1>1, <1>m, <2>1, HomesStay DEF vars
<1>2. ASSUME NEW t \in Tasks, NEW v \in Users, NEW g \in Homes, AddBegin(t, v, g)
      PROVE HomeInv'
  <2> DEFINE new == [Idle EXCEPT !.at = "login", !.acct = [who |-> v, home |-> g]]
  <2>1. /\ new.at = "login" /\ new.acct = [who |-> v, home |-> g] /\ new.mat = None
        /\ new.list = {} /\ new.targets = {}
    BY IdleGood DEF GoodLocals, LocalsOK
  <2>2. Become(t, new) /\ UNCHANGED <<auth, accounts, mixed>>
        /\ g \notin made /\ made' = made \cup {g}
    BY <1>2 DEF AddBegin
  <2> HIDE DEF new
  <2>3. ASSUME NEW u \in Users, NEW h \in Homes, h # g \/ u # v, Known(u, h)'
        PROVE  Known(u, h)
    <3>1. ~KnownBy(new, u, h)
      <4>1. [who |-> u, home |-> h] # [who |-> v, home |-> g]
        BY <2>3
      <4> QED
        BY <1>n, <2>1, <4>1 DEF KnownBy
    <3> QED
      BY <2>2, <2>3, <3>1, NothingNewOf, FilesStay, StoreStays
      DEF FilesFollow, StoreFollows
  <2> QED
    BY <2>2, <2>3, HomeMade
<1>3. ASSUME NEW t \in Tasks, AddSigned(t) PROVE HomeInv'
  <2> DEFINE new == [task[t] EXCEPT !.at = "signed"]
             r == task[t].acct
  <2>1. new.at = "signed" /\ new.acct = r /\ new.mat = task[t].mat
        /\ new.list = task[t].list /\ new.targets = task[t].targets
    BY <1>g DEF GoodLocals, LocalsOK
  <2>2. Become(t, new) /\ UNCHANGED <<accounts, mixed>>
    BY <1>3 DEF AddSigned, Move
  <2>3. r \in Accounts /\ r.home \in Homes /\ r = [who |-> r.who, home |-> r.home]
    BY <1>3, <1>g DEF AddSigned, GoodLocals, Accounts
  <2>4. auth' = [auth EXCEPT ![r.home] = NextLogin(r.who)]
    BY <1>3 DEF AddSigned
  <2>5. Known(r.who, r.home)
    BY <2>3 DEF Known, KnownBy
  <2>6. FilesFollow
    <3> SUFFICES ASSUME NEW u \in Users, NEW h \in Homes, Intact(h)', auth'[h].who = u
                 PROVE  Known(u, h)
      BY DEF FilesFollow
    <3>1. CASE h = r.home
      <4>1. auth'[h] = NextLogin(r.who)
        BY <2>4, <3>1 DEF TypeInv, FilesOK, Places
      <4> QED
        BY <2>5, <3>1, <4>1 DEF NextLogin
    <3>2. CASE h # r.home
      BY <2>4, <3>2 DEF Known, Intact, TypeInv, FilesOK, Places
    <3> QED
      BY <3>1, <3>2
  <2> HIDE DEF new
  <2>7. \E x : Become(t, x) /\ Follows(x)
    BY <2>1, <2>2, SameFollows
  <2> QED
    BY <1>s, <2>2, <2>6, <2>7, StoreStays
<1>4. ASSUME NEW t \in Tasks, AddSucceed(t) \/ EndFetch(t) PROVE HomeInv'
  <2>1. Persist(t, None) \/ Stop(t)
    BY <1>4 DEF AddSucceed, EndFetch
  <2>2. UNCHANGED <<auth, accounts, mixed>>
    BY <1>4 DEF AddSucceed, EndFetch, fileVars
  <2> QED
    BY <1>s, <2>1, <2>2, PersistFollows, StopFollows, FilesStay, StoreStays
<1>5. ASSUME NEW t \in Tasks, AddFail(t) PROVE HomeInv'
  <2>1. FilesFollow
    BY <1>5, <1>d DEF AddFail, DropHome, TypeInv, FilesOK, Places
  <2> QED
    BY <1>5, <1>s, <2>1, StopFollows, StoreStays DEF AddFail
<1>6. ASSUME NEW t \in Tasks, NEW r \in Accounts,
             FetchBegin(t, r) \/ SwitchBegin(t, r)
      PROVE  HomeInv'
  <2> DEFINE a == [Idle EXCEPT !.at = "waiting", !.acct = r]
             b == [Idle EXCEPT !.at = "switching", !.acct = r]
  <2>1. /\ a.at = "waiting" /\ a.acct = r /\ a.mat = None /\ a.list = {} /\ a.targets = {}
        /\ b.at = "switching" /\ b.acct = r /\ b.mat = None /\ b.list = {} /\ b.targets = {}
    BY IdleGood DEF GoodLocals, LocalsOK
  <2>2. Become(t, a) \/ Become(t, b)
    BY <1>6 DEF FetchBegin, SwitchBegin
  <2>3. Readable /\ r \in Listed /\ UNCHANGED <<auth, accounts, mixed>>
    BY <1>6, StoredListed DEF FetchBegin, SwitchBegin, fileVars
  <2> HIDE DEF a, b
  <2>4. \E x : Become(t, x) /\ Follows(x)
    BY <2>1, <2>2, <2>3, NamesAccount
  <2> QED
    BY <1>s, <2>3, <2>4, FilesStay, StoreStays
<1>7. ASSUME NEW t \in Tasks, LoadLogin(t) PROVE HomeInv'
  <2> DEFINE r == task[t].acct
             c == auth[r.home]
             new == [task[t] EXCEPT !.at = "fetch", !.cred = c, !.base = c, !.renewals = 2]
  <2>1. new.acct = r /\ new.mat = task[t].mat /\ new.list = task[t].list
        /\ new.targets = task[t].targets /\ new.cred = c
    BY <1>g DEF GoodLocals, LocalsOK
  <2>2. UNCHANGED <<auth, accounts, mixed>>
    BY <1>7 DEF LoadLogin, fileVars
  <2>3. CASE c \in Logins
    <3>1. Become(t, new)
      BY <1>7, <2>3 DEF LoadLogin
    <3> HIDE DEF new
    <3>2. Follows(new)
      <4> SUFFICES ASSUME NEW u \in Users, NEW h \in Homes, KnownBy(new, u, h)
                   PROVE  Known(u, h)
        BY DEF Follows
      <4>1. CASE r.home = h /\ c.who = u
        BY <2>3, <4>1 DEF Known, Intact
      <4>2. CASE ~(r.home = h /\ c.who = u)
        <5>1. KnownBy(task[t], u, h)
          BY <2>1, <4>2 DEF KnownBy
        <5> QED
          BY <5>1 DEF Known
      <4> QED
        BY <4>1, <4>2
    <3> QED
      BY <1>s, <2>2, <3>1, <3>2, FilesStay, StoreStays
  <2>4. CASE c \notin Logins
    <3>1. Stop(t)
      BY <1>7, <2>4 DEF LoadLogin
    <3> QED
      BY <1>s, <2>2, <3>1, StopFollows, FilesStay, StoreStays
  <2> QED
    BY <2>3, <2>4
<1>8. ASSUME NEW t \in Tasks, Renew(t) PROVE HomeInv'
  <2> DEFINE c == NextLogin(task[t].cred.who)
             new == [task[t] EXCEPT !.at = "renewed", !.cred = c, !.renewals = @ - 1]
  <2>1. new.acct = task[t].acct /\ new.mat = task[t].mat /\ new.list = task[t].list
        /\ new.targets = task[t].targets /\ new.cred.who = task[t].cred.who
    BY <1>g DEF GoodLocals, LocalsOK, NextLogin
  <2>2. Become(t, new) /\ task[t].at = "fetch" /\ UNCHANGED <<auth, accounts, mixed>>
    BY <1>8 DEF Renew, fileVars
  <2> HIDE DEF new
  <2>3. \E x : Become(t, x) /\ Follows(x)
    BY <2>1, <2>2, SameFollows
  <2> QED
    BY <1>s, <2>2, <2>3, FilesStay, StoreStays
<1>9. ASSUME NEW t \in Tasks, RenewLost(t) PROVE HomeInv'
  <2> DEFINE new == [task[t] EXCEPT !.renewals = @ - 1]
  <2>1. new.acct = task[t].acct /\ new.mat = task[t].mat /\ new.list = task[t].list
        /\ new.targets = task[t].targets /\ new.cred = task[t].cred
    BY <1>g DEF GoodLocals, LocalsOK
  <2>2. Become(t, new) /\ task[t].at = "fetch" /\ UNCHANGED <<auth, accounts, mixed>>
    BY <1>9 DEF RenewLost, fileVars
  <2> HIDE DEF new
  <2>3. \E x : Become(t, x) /\ Follows(x)
    BY <2>1, <2>2, SameFollows
  <2> QED
    BY <1>s, <2>2, <2>3, FilesStay, StoreStays
<1>10. ASSUME NEW t \in Tasks, SaveLogin(t) PROVE HomeInv'
  <2> DEFINE g == task[t].acct.home
             written == g = Ambient \/ g \in dirs
             b == IF written THEN task[t].cred ELSE task[t].base
             new == [task[t] EXCEPT !.at = "fetch", !.base = b]
  <2>1. new.acct = task[t].acct /\ new.mat = task[t].mat /\ new.list = task[t].list
        /\ new.targets = task[t].targets /\ new.cred = task[t].cred
    BY <1>g DEF GoodLocals, LocalsOK
  <2>2. Become(t, new) /\ task[t].at = "renewed" /\ UNCHANGED <<accounts, mixed>>
        /\ auth' \in {auth, [auth EXCEPT ![g] = task[t].cred]}
    BY <1>10 DEF SaveLogin
  <2> HIDE DEF new
  <2>3. \E x : Become(t, x) /\ Follows(x)
    BY <2>1, <2>2, SameFollows
  <2>4. FilesFollow
    <3> SUFFICES ASSUME NEW u \in Users, NEW h \in Homes, Intact(h)', auth'[h].who = u
                 PROVE  Known(u, h)
      BY DEF FilesFollow
    <3>1. CASE auth'[h] = auth[h]
      BY <3>1 DEF Known, Intact
    <3>2. CASE auth'[h] # auth[h]
      <4>1. g = h /\ auth'[h] = task[t].cred
        BY <2>2, <3>2 DEF TypeInv, FilesOK, Places
      <4> QED
        BY <2>2, <4>1 DEF Known, KnownBy
    <3> QED
      BY <3>1, <3>2
  <2> QED
    BY <1>s, <2>2, <2>3, <2>4, StoreStays
<1>11. ASSUME NEW t \in Tasks, Inspect(t) PROVE HomeInv'
  <2> DEFINE a == [task[t] EXCEPT !.at = "adopting", !.cred = auth[Ambient]]
             b == [task[t] EXCEPT !.at = "backup"]
  <2>1. /\ a.at = "adopting" /\ a.acct = task[t].acct /\ a.mat = task[t].mat
        /\ a.list = task[t].list /\ a.targets = task[t].targets
        /\ b.at = "backup" /\ b.acct = task[t].acct /\ b.mat = task[t].mat
        /\ b.list = task[t].list /\ b.targets = task[t].targets
    BY <1>g DEF GoodLocals, LocalsOK
  <2>2. Stop(t) \/ Become(t, a) \/ Become(t, b)
    BY <1>11 DEF Inspect, Move
  <2>3. UNCHANGED <<auth, accounts, mixed>>
    BY <1>11 DEF Inspect, fileVars
  <2> HIDE DEF a, b
  <2>4. \E x : Become(t, x) /\ Follows(x)
    BY <2>1, <2>2, SameFollows, StopFollows
  <2> QED
    BY <1>s, <2>3, <2>4, FilesStay, StoreStays
<1>12. ASSUME NEW t \in Tasks, NEW g \in Homes, Materialize(t, g) PROVE HomeInv'
  <2> DEFINE v == task[t].cred.who
             mat == [who |-> v, home |-> g]
             new == [task[t] EXCEPT !.at = "backup", !.cred = NoFile, !.mat = mat]
  <2>1. new.at = "backup" /\ new.acct = task[t].acct /\ new.mat = mat
        /\ new.list = task[t].list /\ new.targets = task[t].targets
    BY <1>g DEF GoodLocals, LocalsOK
  <2>2. Become(t, new) /\ UNCHANGED accounts /\ g \notin made /\ made' = made \cup {g}
        /\ auth' = [auth EXCEPT ![g] = auth[Ambient]]
        /\ mixed' = (mixed \/ (Intact(Ambient) /\ auth[Ambient].who # v))
    BY <1>12 DEF Materialize
  <2>3. v \in Users
    BY <1>12, <1>g DEF Materialize, GoodLocals, Logins
  <2> HIDE DEF new
  <2>4. ASSUME NEW u \in Users, NEW h \in Homes, h # g \/ (~mixed' /\ u # v), Known(u, h)'
        PROVE  Known(u, h)
    <3>1. KnownBy(new, u, h) => Known(u, h)
      <4> SUFFICES ASSUME KnownBy(new, u, h) PROVE KnownBy(task[t], u, h)
        BY DEF Known
      <4>1. mat # [who |-> u, home |-> h]
        BY <2>4
      <4> QED
        BY <2>1, <4>1 DEF KnownBy
    <3>2. Intact(h)' /\ auth'[h].who = u => Known(u, h)
      <4>1. CASE h = g
        <5>1. auth'[h] = auth[Ambient]
          BY <2>2, <4>1 DEF TypeInv, FilesOK, Places
        <5> QED
          BY <2>2, <2>4, <4>1, <5>1 DEF Intact
      <4>2. CASE h # g
        BY <2>2, <4>2 DEF Known, Intact, TypeInv, FilesOK, Places
      <4> QED
        BY <4>1, <4>2
    <3> QED
      BY <2>2, <2>4, <3>1, <3>2, NothingNewOf, StoreStays DEF StoreFollows
  <2>5. mixed => mixed'
    BY <2>2
  <2> QED
    BY <2>2, <2>3, <2>4, <2>5, HomeMade
<1>13. ASSUME NEW t \in Tasks, NothingToAdopt(t) PROVE HomeInv'
  <2>1. Stop(t) /\ UNCHANGED <<auth, accounts, mixed>>
    BY <1>13 DEF NothingToAdopt, fileVars
  <2> QED
    BY <1>s, <2>1, StopFollows, FilesStay, StoreStays
<1>14. ASSUME NEW t \in Tasks, BackupAmbient(t) PROVE HomeInv'
  <2> DEFINE new == [task[t] EXCEPT !.at = "copying", !.base = auth[Ambient]]
  <2>1. new.at = "copying" /\ new.acct = task[t].acct /\ new.mat = task[t].mat
        /\ new.list = task[t].list /\ new.targets = task[t].targets
    BY <1>g DEF GoodLocals, LocalsOK
  <2>2. Become(t, new) /\ UNCHANGED <<auth, accounts, mixed>>
    BY <1>14 DEF BackupAmbient
  <2> HIDE DEF new
  <2>3. \E x : Become(t, x) /\ Follows(x)
    BY <2>1, <2>2, SameFollows
  <2> QED
    BY <1>s, <2>2, <2>3, FilesStay, StoreStays
<1>15. ASSUME NEW t \in Tasks, CopyTarget(t) PROVE HomeInv'
  <2>1. Persist(t, task[t].mat) \/ Stop(t)
    BY <1>15 DEF CopyTarget
  <2>2. FilesFollow /\ UNCHANGED <<accounts, mixed>>
    BY <1>15, <1>d, AmbientIsNoHome DEF CopyTarget, TypeInv, FilesOK, Places
  <2> QED
    BY <1>s, <2>1, <2>2, PersistFollows, StopFollows, StoreStays
<1>16. ASSUME NEW t \in Tasks, NEW r \in Accounts, RemoveBegin(t, r) PROVE HomeInv'
  <2> DEFINE targets == {r.home} \cup SameUser(r)
             new == [Idle EXCEPT !.at = "removing", !.acct = r, !.list = Listed \ {r},
                                 !.targets = targets]
  <2>1. /\ new.at = "removing" /\ new.acct = r /\ new.list = Listed \ {r}
        /\ new.targets = targets /\ new.mat = None
    BY IdleGood DEF GoodLocals, LocalsOK
  <2>2. Readable /\ r \in Listed /\ UNCHANGED <<auth, accounts, mixed>>
    BY <1>16, StoredListed DEF RemoveBegin, fileVars
  <2>3. CASE IsManaged(r)
    <3>1. Become(t, new)
      BY <1>16, <2>3 DEF RemoveBegin
    <3>2. Follows(new)
      <4> HIDE DEF new
      <4> SUFFICES ASSUME NEW u \in Users, NEW h \in Homes, KnownBy(new, u, h)
                   PROVE  Known(u, h)
        BY DEF Follows
      <4>1. CASE [who |-> u, home |-> h] \in Listed
        BY <2>2, <4>1, ListedKnown
      <4>2. CASE [who |-> u, home |-> h] \notin Listed
        <5>1. h \in targets /\ r.who = u
          BY <1>n, <2>1, <2>2, <4>2 DEF KnownBy
        <5>2. r = [who |-> r.who, home |-> r.home]
          BY DEF Accounts
        <5>3. h # r.home
          BY <2>2, <4>2, <5>1, <5>2
        <5>4. Intact(h) /\ auth[h].who = u
          BY <5>1, <5>3 DEF SameUser
        <5> QED
          BY <5>4 DEF Known
      <4> QED
        BY <4>1, <4>2
    <3> QED
      BY <1>s, <2>2, <3>1, <3>2, FilesStay, StoreStays
  <2>4. CASE ~IsManaged(r)
    <3>1. Save(t, Listed \ {r})
      BY <1>16, <2>4 DEF RemoveBegin
    <3>2. \E x : Become(t, x) /\ Follows(x)
      BY <2>2, <3>1, SaveFollows, ListedKnown
    <3> QED
      BY <1>s, <2>2, <3>2, FilesStay, StoreStays
  <2> QED
    BY <2>3, <2>4
<1>17. ASSUME NEW t \in Tasks, NEW g \in Homes, RemoveHome(t, g) PROVE HomeInv'
  <2> DEFINE new == [task[t] EXCEPT !.targets = @ \ {g}]
  <2>1. new.at = task[t].at /\ new.acct = task[t].acct /\ new.mat = task[t].mat
        /\ new.list = task[t].list /\ new.targets \subseteq task[t].targets
        /\ new.cred = task[t].cred
    BY <1>g DEF GoodLocals, LocalsOK
  <2>2. Save(t, task[t].list) \/ Become(t, new)
    BY <1>17 DEF RemoveHome
  <2>3. UNCHANGED <<accounts, mixed>>
    BY <1>17 DEF RemoveHome
  <2>4. FilesFollow
    BY <1>17, <1>d DEF RemoveHome, DropHome, TypeInv, FilesOK, Places
  <2> HIDE DEF new
  <2>5. \A u \in Users, h \in Homes :
            [who |-> u, home |-> h] \in task[t].list => Known(u, h)
    BY DEF Known, KnownBy
  <2>6. \E x : Become(t, x) /\ Follows(x)
    BY <2>1, <2>2, <2>5, SaveFollows, SameFollows
  <2> QED
    BY <1>s, <2>3, <2>4, <2>6, StoreStays
<1>18. ASSUME NEW t \in Tasks, PersistLoad(t) PROVE HomeInv'
  <2>1. UNCHANGED <<auth, accounts, mixed>>
    BY <1>18 DEF PersistLoad, fileVars
  <2>2. CASE Readable
    <3>1. PICK list \in Merges(Listed, task[t].mat) : Save(t, list)
      BY <1>18, <2>2 DEF PersistLoad
    <3>2. list \subseteq Listed \cup {task[t].mat}
      BY <3>1 DEF Merges
    <3>3. ASSUME NEW u \in Users, NEW h \in Homes, [who |-> u, home |-> h] \in list
          PROVE  Known(u, h)
      <4>1. CASE [who |-> u, home |-> h] \in Listed
        BY <2>2, <4>1, ListedKnown
      <4>2. CASE task[t].mat = [who |-> u, home |-> h]
        BY <4>2 DEF Known, KnownBy
      <4> QED
        BY <3>2, <3>3, <4>1, <4>2
    <3> QED
      BY <1>s, <2>1, <3>1, <3>3, SaveFollows, FilesStay, StoreStays
  <2>3. CASE ~Readable
    <3>1. Stop(t)
      BY <1>18, <2>3 DEF PersistLoad
    <3> QED
      BY <1>s, <2>1, <3>1, StopFollows, FilesStay, StoreStays
  <2> QED
    BY <2>2, <2>3
<1>19. ASSUME NEW t \in Tasks, PersistSave(t) PROVE HomeInv'
  <2>1. Stop(t) /\ UNCHANGED <<auth, mixed>>
    BY <1>19 DEF PersistSave, fileVars
  <2>2. StoreFollows
    BY <1>19 DEF PersistSave, StoreFollows, Known, KnownBy, Readable
  <2> QED
    BY <1>s, <2>1, <2>2, StopFollows, FilesStay
<1>20. ASSUME NEW t \in Tasks, HalfDone(t) PROVE FilesFollow /\ StoreFollows
  <2>1. FilesFollow
    BY <1>20, <1>d DEF HalfDone, TypeInv, FilesOK, Places
  <2> QED
    BY <1>20, <2>1, StoreStays DEF HalfDone, StoreFollows, Readable
<1>21. ASSUME NEW t \in Tasks, Fails(t) PROVE HomeInv'
  <2> DEFINE new == [task[t] EXCEPT !.at = "fetch"]
  <2>1. new.acct = task[t].acct /\ new.mat = task[t].mat /\ new.list = task[t].list
        /\ new.targets = task[t].targets /\ new.cred = task[t].cred
    BY <1>g DEF GoodLocals, LocalsOK
  <2>2. Stop(t) \/ (task[t].at = "renewed" /\ Become(t, new))
    BY <1>21 DEF Fails, Move
  <2>3. HalfDone(t) /\ UNCHANGED mixed
    BY <1>21 DEF Fails
  <2> HIDE DEF new
  <2>4. \E x : Become(t, x) /\ Follows(x)
    BY <2>1, <2>2, SameFollows, StopFollows
  <2> QED
    BY <1>s, <1>20, <2>3, <2>4
<1>22. ASSUME NEW t \in Tasks, Crash(t) PROVE HomeInv'
  <2>1. FilesFollow /\ StoreFollows /\ UNCHANGED mixed
        /\ task' = [s \in Tasks |-> Idle]
    BY <1>20, <1>22 DEF Crash
  <2>2. ASSUME NEW u \in Users, NEW h \in Homes, Known(u, h)' PROVE Known(u, h)
    <3>1. \A s \in Tasks : KnownBy(task[s], u, h)' <=> KnownBy(task'[s], u, h)
      BY DEF KnownBy
    <3>2. \A s \in Tasks : ~KnownBy(task'[s], u, h)
      BY <2>1, IdleKnows
    <3> QED
      BY <2>1, <2>2, <3>1, <3>2 DEF Known, FilesFollow, StoreFollows
  <2> QED
    BY <1>m, <2>1, <2>2, HomesStay
<1>23. ASSUME \A h \in Homes : auth'[h] = auth[h], UNCHANGED <<accounts, task, mixed>>
       PROVE  HomeInv'
  <2>1. \A u \in Users, h \in Homes : Known(u, h)' <=> Known(u, h)
    BY <1>23 DEF Known, KnownBy, Intact, Readable
  <2> QED
    BY <1>m, <1>23, <2>1, HomesStay
<1>24. ASSUME NEW u \in Users, CliLogin(u) PROVE HomeInv'
  BY <1>23, <1>24, AmbientIsNoHome DEF CliLogin, TypeInv, FilesOK, Places
<1>25. ASSUME CliRenew PROVE HomeInv'
  BY <1>23, <1>25, AmbientIsNoHome DEF CliRenew, TypeInv, FilesOK, Places
<1>26. ASSUME CliLogout PROVE HomeInv'
  BY <1>23, <1>26, AmbientIsNoHome DEF CliLogout, TypeInv, FilesOK, Places
<1> QED
  BY <1>1, <1>2, <1>3, <1>4, <1>5, <1>6, <1>7, <1>8, <1>9, <1>10, <1>11, <1>12,
     <1>13, <1>14, <1>15, <1>16, <1>17, <1>18, <1>19, <1>21, <1>22, <1>24, <1>25, <1>26
  DEF Next, Step

LEMMA HomeInit == Init => HomeInv
<1> SUFFICES ASSUME Init PROVE HomeInv
  OBVIOUS
<1>1. ASSUME NEW u \in Users, NEW h \in Homes PROVE ~Known(u, h)
  <2>1. \A t \in Tasks : task[t] = Idle
    BY DEF Init
  <2>2. ~Intact(h) /\ accounts = {}
    BY MarksAreNoLogins DEF Init, Intact, Places
  <2> QED
    BY <2>1, <2>2, IdleKnows DEF Known
<1> QED
  BY <1>1 DEF HomeInv

LEMMA KeepInit == Init => KeepInv
<1> SUFFICES ASSUME Init PROVE KeepInv
  OBVIOUS
<1>1. \A t \in Tasks : Relies(task[t], issued, live, backups)
  BY IdleRelies DEF Init
<1>2. IssuedOK
  BY MarksAreNoLogins DEF Init, IssuedOK, Intact
<1> QED
  BY <1>1, <1>2 DEF KeepInv

\* Who changes an auth.json: the CLI, or a task in one of these phases.
Changes(t, p) ==
    /\ task'[t] # task[t]
    /\ \/ task[t].at \in {"login", "signed", "renewed"} /\ task[t].acct.home = p
       \/ task[t].at = "copying" /\ p = Ambient
       \/ task[t].at = "removing" /\ p \in task[t].targets
       \/ auth[p] = NoFile

LEMMA Writers ==
    ASSUME TypeInv, [Next]_vars, NEW p \in Places, auth'[p] # auth[p]
    PROVE  CliWrote \/ \E t \in Tasks : Changes(t, p)
<1>g. \A t \in Tasks : task[t] \in GoodLocals
  BY DEF TypeInv
<1>m. ASSUME NEW t \in Tasks, NEW new, Become(t, new), new.at # task[t].at
      PROVE  task'[t] # task[t]
  BY <1>m DEF Become, TypeInv
<1>i. Idle.at = "idle" /\ \A mat : [Idle EXCEPT !.at = "persisting", !.mat = mat].at = "persisting"
  BY IdleGood DEF GoodLocals, LocalsOK
<1>1. ASSUME NEW t \in Tasks,
             AddSucceed(t) \/ LoadLogin(t) \/ Renew(t) \/ RenewLost(t) \/ EndFetch(t)
             \/ Inspect(t) \/ NothingToAdopt(t) \/ BackupAmbient(t) \/ PersistLoad(t)
             \/ PersistSave(t)
      PROVE  FALSE
  BY <1>1 DEF AddSucceed, LoadLogin, Renew, RenewLost, EndFetch, Inspect, NothingToAdopt,
     BackupAmbient, PersistLoad, PersistSave, fileVars
<1>2. ASSUME NEW t \in Tasks, NEW r \in Accounts,
             FetchBegin(t, r) \/ SwitchBegin(t, r) \/ RemoveBegin(t, r)
      PROVE  FALSE
  BY <1>2 DEF FetchBegin, SwitchBegin, RemoveBegin, fileVars
<1>3. ASSUME NEW t \in Tasks, NEW u \in Users, NEW h \in Homes, AddBegin(t, u, h)
      PROVE  FALSE
  BY <1>3 DEF AddBegin
<1>4. ASSUME NEW t \in Tasks, AddSigned(t) PROVE Changes(t, p)
  <2>1. [task[t] EXCEPT !.at = "signed"].at = "signed"
    BY <1>g DEF GoodLocals, LocalsOK
  <2>2. task'[t] # task[t]
    BY <1>4, <1>m, <2>1 DEF AddSigned, Move
  <2> QED
    BY <1>4, <2>2 DEF AddSigned, Changes, TypeInv, FilesOK
<1>5. ASSUME NEW t \in Tasks, AddFail(t) PROVE Changes(t, p)
  <2>1. task'[t] # task[t]
    BY <1>5, <1>m, <1>i DEF AddFail, Stop
  <2> QED
    BY <1>5, <2>1 DEF AddFail, DropHome, Changes, TypeInv, FilesOK
<1>6. ASSUME NEW t \in Tasks, SaveLogin(t) PROVE Changes(t, p)
  <2> DEFINE b == IF task[t].acct.home = Ambient \/ task[t].acct.home \in dirs
                  THEN task[t].cred ELSE task[t].base
             new == [task[t] EXCEPT !.at = "fetch", !.base = b]
  <2>1. new.at = "fetch"
    BY <1>g DEF GoodLocals, LocalsOK
  <2>2. Become(t, new)
    BY <1>6 DEF SaveLogin
  <2> HIDE DEF new
  <2>3. task'[t] # task[t]
    BY <1>6, <1>m, <2>1, <2>2 DEF SaveLogin
  <2> QED
    BY <1>6, <2>3 DEF SaveLogin, Changes, TypeInv, FilesOK
<1>7. ASSUME NEW t \in Tasks, NEW h \in Homes, Materialize(t, h) PROVE Changes(t, p)
  <2> DEFINE new == [task[t] EXCEPT !.at = "backup", !.cred = NoFile,
                        !.mat = [who |-> task[t].cred.who, home |-> h]]
  <2>1. new.at = "backup"
    BY <1>g DEF GoodLocals, LocalsOK
  <2>2. Become(t, new)
    BY <1>7 DEF Materialize
  <2> HIDE DEF new
  <2>3. task'[t] # task[t]
    BY <1>7, <1>m, <2>1, <2>2 DEF Materialize
  <2>4. p = h /\ auth[p] = NoFile
    BY <1>7 DEF Materialize, TypeInv, FilesOK
  <2> QED
    BY <2>3, <2>4 DEF Changes
<1>8. ASSUME NEW t \in Tasks, CopyTarget(t) PROVE Changes(t, p)
  <2>1. task'[t] # task[t]
    BY <1>8, <1>m, <1>i DEF CopyTarget, Stop, Persist
  <2> QED
    BY <1>8, <2>1 DEF CopyTarget, Changes, TypeInv, FilesOK
<1>9. ASSUME NEW t \in Tasks, NEW h \in Homes, RemoveHome(t, h) PROVE Changes(t, p)
  <2> DEFINE new == [task[t] EXCEPT !.targets = @ \ {h}]
             saved == [Idle EXCEPT !.at = "saving", !.list = task[t].list]
  <2>1. new.targets = task[t].targets \ {h} /\ saved.at = "saving"
    BY <1>g, IdleGood DEF GoodLocals, LocalsOK
  <2>2. h \in task[t].targets /\ task[t].at = "removing"
    BY <1>9 DEF RemoveHome, NextTargets
  <2>3. task'[t] = new \/ task'[t] = saved
    BY <1>9 DEF RemoveHome, Save, Become, TypeInv
  <2> HIDE DEF new, saved
  <2>4. task'[t] # task[t]
    BY <2>1, <2>2, <2>3
  <2>5. p = h
    BY <1>9 DEF RemoveHome, DropHome, TypeInv, FilesOK
  <2> QED
    BY <2>2, <2>4, <2>5 DEF Changes
<1>10. ASSUME NEW t \in Tasks, HalfDone(t), task'[t] # task[t] PROVE Changes(t, p)
  <2>1. CASE \E q \in Writing(t) : auth' = [auth EXCEPT ![q] = Torn]
    <3>1. p \in Writing(t)
      BY <2>1 DEF TypeInv, FilesOK
    <3> QED
      BY <1>10, <3>1 DEF Writing, Changes
  <2>2. CASE task[t].at = "removing" /\ \E h \in NextTargets(t) : auth' = [auth EXCEPT ![h] = NoFile]
    <3>1. p \in NextTargets(t)
      BY <2>2 DEF TypeInv, FilesOK
    <3> QED
      BY <1>10, <2>2, <3>1 DEF NextTargets, Changes
  <2> QED
    BY <1>10, <2>1, <2>2 DEF HalfDone
<1>11. ASSUME NEW t \in Tasks, Fails(t) PROVE Changes(t, p)
  <2>1. [task[t] EXCEPT !.at = "fetch"].at = "fetch"
    BY <1>g DEF GoodLocals, LocalsOK
  <2>2. task'[t] # task[t]
    BY <1>11, <1>m, <1>i, <2>1 DEF Fails, Stop, Move
  <2> QED
    BY <1>10, <1>11, <2>2 DEF Fails
<1>12. ASSUME NEW t \in Tasks, Crash(t) PROVE Changes(t, p)
  BY <1>10, <1>12 DEF Crash, Free
<1>13. ASSUME NEW u \in Users, CliLogin(u) PROVE CliWrote
  BY <1>13 DEF CliLogin, CliWrote
<1>14. ASSUME CliRenew \/ CliLogout PROVE CliWrote
  BY <1>14 DEF CliRenew, CliLogout, CliWrote
<1>15. CASE UNCHANGED vars
  BY <1>15 DEF vars, fileVars
<1> QED
  BY <1>1, <1>2, <1>3, <1>4, <1>5, <1>6, <1>7, <1>8, <1>9, <1>11, <1>12, <1>13,
     <1>14, <1>15
  DEF Next, Step

LEMMA LoginKept ==
    ASSUME TypeInv, KeepInv, HomeInv, [Next]_vars PROVE LoginsKeptStep
<1> SUFFICES ASSUME NEW l \in live \cap live', Held(l), ~Held(l)', ~CliWrote
             PROVE  \E t \in Tasks :
                        /\ task'[t] # task[t]
                        /\ Removed(t, l) \/ SaveFailed(t, l) \/ Overwrote(t)
  BY DEF LoginsKeptStep
<1>1. l \in Logins /\ l.who \in Users
  BY DEF TypeInv, ServerOK, Logins
<1>2. l \notin backups
  BY ServerMoves DEF Held
<1>3. CASE \E t \in Tasks : task[t].at = "renewed" /\ task[t].cred = l
  BY <1>3 DEF Held, SaveFailed
<1>4. CASE \E p \in Places : auth[p] = l
  <2>1. PICK p \in Places : auth[p] = l
    BY <1>4
  <2>2. auth'[p] # auth[p]
    BY <2>1 DEF Held
  <2>3. PICK t \in Tasks : Changes(t, p)
    BY <2>2, Writers
  <2>4. task'[t] # task[t] /\ auth[p] # NoFile /\ Intact(p)
    BY <1>1, <2>1, <2>3, MarksAreNoLogins DEF Changes, Intact
  <2>5. CASE task[t].at \in {"login", "signed"} /\ task[t].acct.home = p
    BY <2>1, <2>4, <2>5 DEF Removed
  <2>6. CASE task[t].at = "renewed" /\ task[t].acct.home = p
    <3>1. task[t].base \notin live
      BY <2>6 DEF KeepInv, Relies
    <3> QED
      BY <2>1, <2>4, <2>6, <3>1 DEF Overwrote
  <2>7. CASE task[t].at = "copying" /\ p = Ambient
    <3>1. task[t].base \in Logins => task[t].base \in backups
      BY <2>7 DEF KeepInv, Relies
    <3> QED
      BY <1>1, <1>2, <2>1, <2>4, <2>7, <3>1 DEF Overwrote
  <2>8. CASE task[t].at = "removing" /\ p \in task[t].targets
    <3>1. task[t].acct \in Accounts /\ p \in Homes
      BY <2>8 DEF TypeInv, GoodLocals, LocalsOK
    <3>2. task[t].acct.who \in Users /\ task[t].acct # None
      BY <3>1, NoneIsNoAccount DEF Accounts
    <3>3. Known(task[t].acct.who, p)
      BY <2>8, <3>2 DEF Known, KnownBy
    <3>4. Known(l.who, p)
      BY <2>1, <2>4 DEF Known
    <3>5. mixed \/ task[t].acct.who = l.who
      BY <1>1, <3>1, <3>2, <3>3, <3>4 DEF HomeInv
    <3> QED
      BY <2>4, <2>8, <3>5 DEF Removed
  <2> QED
    BY <2>3, <2>4, <2>5, <2>6, <2>7, <2>8 DEF Changes
<1> QED
  BY <1>2, <1>3, <1>4 DEF Held

\* LoginsKept: however commands, lanes, the CLI, failures and crashes interleave,
\* a login the server still accepts leaves the disk only in the named ways: the
\* backup is taken before the ambient file is replaced, a renewal replaces the
\* login it has made void, and a removal takes only its own user's homes.
THEOREM LoginsAreKept == Spec => LoginsKept
<1>1. Init => TypeInv /\ KeepInv /\ HomeInv
  BY TypeInit, KeepInit, HomeInit
<1>2. TypeInv /\ KeepInv /\ HomeInv /\ [Next]_vars => TypeInv' /\ KeepInv' /\ HomeInv'
  BY TypeStep, KeepStep, HomeStep
<1>3. TypeInv /\ KeepInv /\ HomeInv /\ [Next]_vars => [LoginsKeptStep]_vars
  BY LoginKept
<1> QED
  BY <1>1, <1>2, <1>3, PTL DEF Spec, LoginsKept

-----------------------------------------------------------------------------
(* The store names each account once.                                      *)

Distinct(list) == \A r, s \in list : Matches(r, s) => r = s
StoreInv ==
    ~mixed =>
        /\ Readable => Distinct(accounts)
        /\ \A t \in Tasks : Distinct(task[t].list)

\* A stored account keeps its user when it follows a home.
LEMMA ReconciledSame ==
    ASSUME TypeInv, HomeInv, Readable, ~mixed, NEW r \in accounts
    PROVE  /\ Reconciled(r).who = r.who
           /\ Reconciled(r).home = Ambient => Reconciled(r) = r
<1>1. r \in Accounts /\ r.who \in Users /\ r.home \in Places
      /\ r = [who |-> r.who, home |-> r.home]
  BY DEF TypeInv, Readable, Accounts
<1>2. CASE FoundFor(r) = {}
  BY <1>2 DEF Reconciled
<1>3. CASE FoundFor(r) # {}
  <2> DEFINE h == Min(FoundFor(r))
  <2>1. FoundFor(r) \subseteq Homes
    BY DEF FoundFor, TypeInv, FilesOK
  <2>2. h \in FoundFor(r)
    BY <1>3, <2>1, FirstIsMember
  <2>3. Reconciled(r) = AccountAt(h)
    BY <1>3 DEF Reconciled
  <2> HIDE DEF h
  <2>4. h \in Homes /\ Intact(h) /\ Matches(AccountAt(h), r)
    BY <2>1, <2>2 DEF FoundFor
  <2>5. AccountAt(h).who = auth[h].who /\ AccountAt(h).home = h /\ auth[h].who \in Users
    BY <2>4 DEF AccountAt, Intact, Logins
  <2>6. auth[h].who = r.who
    <3>1. CASE h = r.home
      <4>1. Known(auth[h].who, h) /\ Known(r.who, h)
        BY <1>1, <2>4, <3>1 DEF Known
      <4> QED
        BY <1>1, <2>4, <2>5, <4>1 DEF HomeInv
    <3>2. CASE h # r.home
      BY <2>4, <2>5, <3>2 DEF Matches
    <3> QED
      BY <3>1, <3>2
  <2> QED
    BY <2>3, <2>4, <2>5, <2>6, AmbientIsNoHome
<1> QED
  BY <1>2, <1>3

LEMMA StoredDistinct ==
    ASSUME TypeInv, HomeInv, Readable, ~mixed, Distinct(accounts)
    PROVE  Distinct(Stored)
<1> SUFFICES ASSUME NEW r \in accounts, NEW s \in accounts,
                    Matches(Reconciled(r), Reconciled(s))
             PROVE  Reconciled(r) = Reconciled(s)
  BY DEF Distinct, Stored
<1> DEFINE R == Reconciled(r)
           S == Reconciled(s)
<1>1. R.who = r.who /\ S.who = s.who
      /\ (R.home = Ambient => R = r) /\ (S.home = Ambient => S = s)
  BY ReconciledSame
<1>2. R \in Stored /\ S \in Stored
  BY DEF Stored
<1>3. R \in Listed /\ S \in Listed /\ R \in Accounts /\ S \in Accounts
  BY <1>2, ListedAreAccounts, StoredListed
<1> HIDE DEF R, S
<1>4. CASE r.who = s.who
  <2>1. r = s
    BY <1>4 DEF Distinct, Matches
  <2> QED
    BY <2>1
<1>5. CASE r.who # s.who
  <2>1. R.home = S.home
    BY <1>1, <1>5 DEF R, S, Matches
  <2>2. CASE R.home = Ambient
    BY <1>1, <1>5, <2>1, <2>2 DEF Distinct, Matches
  <2>3. CASE R.home # Ambient
    <3>1. R.home \in Homes /\ R.who \in Users /\ S.who \in Users
          /\ R = [who |-> R.who, home |-> R.home] /\ S = [who |-> S.who, home |-> R.home]
      BY <1>3, <2>1, <2>3 DEF Accounts, Places
    <3>2. Known(R.who, R.home) /\ Known(S.who, R.home)
      BY <1>3, <3>1, ListedKnown
    <3>3. R.who = S.who
      BY <3>1, <3>2 DEF HomeInv
    <3> QED
      BY <1>1, <1>5, <3>3
  <2> QED
    BY <2>2, <2>3
<1> QED
  BY <1>4, <1>5

LEMMA ListedDistinct ==
    ASSUME TypeInv, HomeInv, Readable, ~mixed, Distinct(accounts)
    PROVE  Distinct(Listed)
<1> DEFINE New == NewHomes \cup NewAmbient
<1>1. Distinct(Stored)
  BY StoredDistinct
<1>2. ASSUME NEW p \in New, NEW r \in Stored
      PROVE  ~Matches(AccountAt(p), r) /\ ~Matches(r, AccountAt(p))
  BY DEF NewHomes, NewAmbient, Unknown, Matches
<1>3. ASSUME NEW p \in New, NEW q \in New, Matches(AccountAt(p), AccountAt(q))
      PROVE  p = q
  <2>1. /\ \A x \in New : AccountAt(x).who = auth[x].who /\ AccountAt(x).home = x
        /\ p = q \/ auth[p].who = auth[q].who
    BY <1>3 DEF AccountAt, Matches
  <2>2. CASE p \in NewHomes /\ q \in NewHomes
    <3>1. p \in Nat /\ q \in Nat
      BY <2>2, HomesAreNumbers DEF NewHomes, TypeInv, FilesOK
    <3>2. auth[p].who = auth[q].who => p <= q /\ q <= p
      BY <2>2 DEF NewHomes, FirstOfUser
    <3> QED
      BY <2>1, <3>1, <3>2
  <2>3. CASE p \in NewAmbient \/ q \in NewAmbient
    BY <2>1, <2>3 DEF NewHomes, NewAmbient
  <2> QED
    BY <2>2, <2>3
<1> QED
  BY <1>1, <1>2, <1>3 DEF Listed, Distinct

LEMMA MergesDistinct ==
    ASSUME NEW list, Distinct(list), NEW mat, NEW merged \in Merges(list, mat)
    PROVE  Distinct(merged)
BY DEF Merges, Distinct, Matches

\* A task's list is what it was, empty, or made of the accounts just listed.
ListFrom(t) ==
    \/ task'[t].list \in {task[t].list, {}}
    \/ /\ Readable
       /\ \/ task'[t].list \subseteq Listed
          \/ task'[t].list \in Merges(Listed, task[t].mat)

LEMMA ListsFrom ==
    ASSUME TypeInv, [Next]_vars PROVE \A s \in Tasks : ListFrom(s)
<1>g. \A t \in Tasks : task[t] \in GoodLocals
  BY DEF TypeInv
<1>m. ASSUME NEW t \in Tasks, NEW new, Become(t, new),
             \/ new.list \in {task[t].list, {}}
             \/ Readable /\ (new.list \subseteq Listed \/ new.list \in Merges(Listed, task[t].mat))
      PROVE  \A s \in Tasks : ListFrom(s)
  BY <1>m DEF Become, TypeInv, ListFrom
<1>s. ASSUME NEW t \in Tasks, Stop(t) PROVE \A s \in Tasks : ListFrom(s)
  BY <1>s, <1>m, IdleGood DEF Stop
<1>v. ASSUME NEW t \in Tasks, NEW phase, Move(t, phase) PROVE \A s \in Tasks : ListFrom(s)
  <2>1. [task[t] EXCEPT !.at = phase].list = task[t].list
    BY <1>g DEF GoodLocals, LocalsOK
  <2> QED
    BY <1>v, <1>m, <2>1 DEF Move
<1>p. ASSUME NEW t \in Tasks, NEW mat, Persist(t, mat) PROVE \A s \in Tasks : ListFrom(s)
  <2>1. [Idle EXCEPT !.at = "persisting", !.mat = mat].list = {}
    BY IdleGood DEF GoodLocals, LocalsOK
  <2> QED
    BY <1>p, <1>m, <2>1 DEF Persist
<1>w. ASSUME NEW t \in Tasks, NEW list, Save(t, list),
             \/ list = task[t].list
             \/ Readable /\ (list \subseteq Listed \/ list \in Merges(Listed, task[t].mat))
      PROVE  \A s \in Tasks : ListFrom(s)
  <2> DEFINE new == [Idle EXCEPT !.at = "saving", !.list = list]
  <2>1. new.list = list
    BY IdleGood DEF GoodLocals, LocalsOK
  <2>2. Become(t, new)
    BY <1>w DEF Save
  <2> HIDE DEF new
  <2> QED
    BY <1>w, <1>m, <2>1, <2>2
<1>1. ASSUME NEW t \in Tasks, NEW u \in Users, NEW h \in Homes, AddBegin(t, u, h)
      PROVE  \A s \in Tasks : ListFrom(s)
  <2>1. [Idle EXCEPT !.at = "login", !.acct = [who |-> u, home |-> h]].list = {}
    BY IdleGood DEF GoodLocals, LocalsOK
  <2> QED
    BY <1>1, <1>m, <2>1 DEF AddBegin
<1>2. ASSUME NEW t \in Tasks,
             \/ AddSigned(t) \/ AddSucceed(t) \/ AddFail(t) \/ EndFetch(t)
             \/ NothingToAdopt(t) \/ CopyTarget(t) \/ PersistSave(t) \/ Fails(t)
      PROVE  \A s \in Tasks : ListFrom(s)
  BY <1>2, <1>s, <1>v, <1>p
  DEF AddSigned, AddSucceed, AddFail, EndFetch, NothingToAdopt, CopyTarget, PersistSave, Fails
<1>3. ASSUME NEW t \in Tasks, NEW r \in Accounts,
             FetchBegin(t, r) \/ SwitchBegin(t, r)
      PROVE  \A s \in Tasks : ListFrom(s)
  <2>1. /\ [Idle EXCEPT !.at = "waiting", !.acct = r].list = {}
        /\ [Idle EXCEPT !.at = "switching", !.acct = r].list = {}
    BY IdleGood DEF GoodLocals, LocalsOK
  <2> QED
    BY <1>3, <1>m, <2>1 DEF FetchBegin, SwitchBegin
<1>4. ASSUME NEW t \in Tasks, LoadLogin(t) PROVE \A s \in Tasks : ListFrom(s)
  <2> DEFINE c == auth[task[t].acct.home]
             new == [task[t] EXCEPT !.at = "fetch", !.cred = c, !.base = c, !.renewals = 2]
  <2>1. new.list = task[t].list
    BY <1>g DEF GoodLocals, LocalsOK
  <2>2. Stop(t) \/ Become(t, new)
    BY <1>4 DEF LoadLogin
  <2> HIDE DEF new
  <2> QED
    BY <1>m, <1>s, <2>1, <2>2
<1>5. ASSUME NEW t \in Tasks, Renew(t) PROVE \A s \in Tasks : ListFrom(s)
  <2> DEFINE new == [task[t] EXCEPT !.at = "renewed", !.cred = NextLogin(task[t].cred.who),
                                    !.renewals = @ - 1]
  <2>1. new.list = task[t].list
    BY <1>g DEF GoodLocals, LocalsOK
  <2>2. Become(t, new)
    BY <1>5 DEF Renew
  <2> HIDE DEF new
  <2> QED
    BY <1>m, <2>1, <2>2
<1>6. ASSUME NEW t \in Tasks, RenewLost(t) PROVE \A s \in Tasks : ListFrom(s)
  <2>1. [task[t] EXCEPT !.renewals = @ - 1].list = task[t].list
    BY <1>g DEF GoodLocals, LocalsOK
  <2> QED
    BY <1>6, <1>m, <2>1 DEF RenewLost
<1>7. ASSUME NEW t \in Tasks, SaveLogin(t) PROVE \A s \in Tasks : ListFrom(s)
  <2> DEFINE b == IF task[t].acct.home = Ambient \/ task[t].acct.home \in dirs
                  THEN task[t].cred ELSE task[t].base
             new == [task[t] EXCEPT !.at = "fetch", !.base = b]
  <2>1. new.list = task[t].list
    BY <1>g DEF GoodLocals, LocalsOK
  <2>2. Become(t, new)
    BY <1>7 DEF SaveLogin
  <2> HIDE DEF new
  <2> QED
    BY <1>m, <2>1, <2>2
<1>8. ASSUME NEW t \in Tasks, Inspect(t) PROVE \A s \in Tasks : ListFrom(s)
  <2>1. [task[t] EXCEPT !.at = "adopting", !.cred = auth[Ambient]].list = task[t].list
    BY <1>g DEF GoodLocals, LocalsOK
  <2> QED
    BY <1>8, <1>m, <1>s, <1>v, <2>1 DEF Inspect
<1>9. ASSUME NEW t \in Tasks, NEW h \in Homes, Materialize(t, h)
      PROVE  \A s \in Tasks : ListFrom(s)
  <2> DEFINE new == [task[t] EXCEPT !.at = "backup", !.cred = NoFile,
                        !.mat = [who |-> task[t].cred.who, home |-> h]]
  <2>1. new.list = task[t].list
    BY <1>g DEF GoodLocals, LocalsOK
  <2>2. Become(t, new)
    BY <1>9 DEF Materialize
  <2> HIDE DEF new
  <2> QED
    BY <1>m, <2>1, <2>2
<1>10. ASSUME NEW t \in Tasks, BackupAmbient(t) PROVE \A s \in Tasks : ListFrom(s)
  <2>1. [task[t] EXCEPT !.at = "copying", !.base = auth[Ambient]].list = task[t].list
    BY <1>g DEF GoodLocals, LocalsOK
  <2> QED
    BY <1>10, <1>m, <2>1 DEF BackupAmbient
<1>11. ASSUME NEW t \in Tasks, NEW r \in Accounts, RemoveBegin(t, r)
       PROVE  \A s \in Tasks : ListFrom(s)
  <2> DEFINE targets == {r.home} \cup SameUser(r)
             new == [Idle EXCEPT !.at = "removing", !.acct = r, !.list = Listed \ {r},
                                 !.targets = targets]
  <2>1. new.list = Listed \ {r}
    BY IdleGood DEF GoodLocals, LocalsOK
  <2>2. Readable /\ (Become(t, new) \/ Save(t, Listed \ {r}))
    BY <1>11 DEF RemoveBegin
  <2> HIDE DEF new
  <2> QED
    BY <1>m, <1>w, <2>1, <2>2
<1>12. ASSUME NEW t \in Tasks, NEW h \in Homes, RemoveHome(t, h)
       PROVE  \A s \in Tasks : ListFrom(s)
  <2>1. [task[t] EXCEPT !.targets = @ \ {h}].list = task[t].list
    BY <1>g DEF GoodLocals, LocalsOK
  <2> QED
    BY <1>12, <1>m, <1>w, <2>1 DEF RemoveHome
<1>13. ASSUME NEW t \in Tasks, PersistLoad(t) PROVE \A s \in Tasks : ListFrom(s)
  BY <1>13, <1>s, <1>w DEF PersistLoad
<1>14. ASSUME NEW t \in Tasks, Crash(t) PROVE \A s \in Tasks : ListFrom(s)
  BY <1>14, IdleGood DEF Crash, ListFrom
<1>15. ASSUME UNCHANGED task PROVE \A s \in Tasks : ListFrom(s)
  BY <1>15 DEF ListFrom
<1>16. ASSUME NEW u \in Users, CliLogin(u) \/ CliRenew \/ CliLogout
       PROVE  \A s \in Tasks : ListFrom(s)
  BY <1>15, <1>16 DEF CliLogin, CliRenew, CliLogout
<1>17. ASSUME CliRenew \/ CliLogout PROVE \A s \in Tasks : ListFrom(s)
  BY <1>15, <1>17 DEF CliRenew, CliLogout
<1>18. CASE UNCHANGED vars
  BY <1>15, <1>18 DEF vars
<1> QED
  BY <1>1, <1>2, <1>3, <1>4, <1>5, <1>6, <1>7, <1>8, <1>9, <1>10, <1>11, <1>12, <1>13,
     <1>14, <1>16, <1>17, <1>18
  DEF Next, Step

\* The store is left alone, cut short, or replaced by the list of a task.
LEMMA StoreFrom ==
    ASSUME [Next]_vars
    PROVE  /\ accounts' \in {accounts, Torn} \cup {task[t].list : t \in Tasks}
           /\ mixed => mixed'
<1>1. ASSUME NEW t \in Tasks,
             \/ AddSigned(t) \/ AddSucceed(t) \/ AddFail(t) \/ LoadLogin(t) \/ Renew(t)
             \/ RenewLost(t) \/ SaveLogin(t) \/ EndFetch(t) \/ Inspect(t)
             \/ NothingToAdopt(t) \/ BackupAmbient(t) \/ CopyTarget(t) \/ PersistLoad(t)
      PROVE  UNCHANGED <<accounts, mixed>>
  BY <1>1 DEF AddSigned, AddSucceed, AddFail, LoadLogin, Renew, RenewLost, SaveLogin,
     EndFetch, Inspect, NothingToAdopt, BackupAmbient, CopyTarget, PersistLoad
<1>2. ASSUME NEW t \in Tasks, NEW r \in Accounts,
             FetchBegin(t, r) \/ SwitchBegin(t, r) \/ RemoveBegin(t, r)
      PROVE  UNCHANGED <<accounts, mixed>>
  BY <1>2 DEF FetchBegin, SwitchBegin, RemoveBegin
<1>3. ASSUME NEW t \in Tasks, NEW u \in Users, NEW h \in Homes, AddBegin(t, u, h)
      PROVE  UNCHANGED <<accounts, mixed>>
  BY <1>3 DEF AddBegin
<1>4. ASSUME NEW t \in Tasks, NEW h \in Homes, RemoveHome(t, h)
      PROVE  UNCHANGED <<accounts, mixed>>
  BY <1>4 DEF RemoveHome
<1>5. ASSUME NEW t \in Tasks, NEW h \in Homes, Materialize(t, h)
      PROVE  UNCHANGED accounts /\ (mixed => mixed')
  BY <1>5 DEF Materialize
<1>6. ASSUME NEW t \in Tasks, PersistSave(t)
      PROVE  UNCHANGED mixed /\ accounts' \in {accounts, task[t].list}
  BY <1>6 DEF PersistSave
<1>7. ASSUME NEW t \in Tasks, Fails(t) \/ Crash(t)
      PROVE  UNCHANGED mixed /\ accounts' \in {accounts, Torn}
  BY <1>7 DEF Fails, Crash, HalfDone
<1>8. ASSUME NEW u \in Users, CliLogin(u) PROVE UNCHANGED <<accounts, mixed>>
  BY <1>8 DEF CliLogin
<1>9. ASSUME CliRenew \/ CliLogout PROVE UNCHANGED <<accounts, mixed>>
  BY <1>9 DEF CliRenew, CliLogout
<1>10. CASE UNCHANGED vars
  BY <1>10 DEF vars
<1> QED
  BY <1>1, <1>2, <1>3, <1>4, <1>5, <1>6, <1>7, <1>8, <1>9, <1>10 DEF Next, Step

LEMMA StoreStep ==
    ASSUME TypeInv, HomeInv, StoreInv, [Next]_vars PROVE StoreInv'
<1> SUFFICES ASSUME ~mixed'
             PROVE  /\ Readable' => Distinct(accounts)'
                    /\ \A t \in Tasks : Distinct(task'[t].list)
  BY DEF StoreInv, Distinct, Matches
<1>1. ~mixed
  BY StoreFrom
<1>2. ASSUME Readable PROVE Distinct(Listed)
  BY <1>1, <1>2, ListedDistinct DEF StoreInv
<1>3. ASSUME NEW t \in Tasks PROVE Distinct(task'[t].list)
  <2>1. CASE task'[t].list \in {task[t].list, {}}
    BY <1>1, <2>1 DEF StoreInv, Distinct
  <2>2. CASE Readable /\ task'[t].list \subseteq Listed
    BY <1>2, <2>2 DEF Distinct
  <2>3. CASE Readable /\ task'[t].list \in Merges(Listed, task[t].mat)
    BY <1>2, <2>3, MergesDistinct
  <2> QED
    BY <2>1, <2>2, <2>3, ListsFrom DEF ListFrom
<1>4. ASSUME Readable' PROVE Distinct(accounts)'
  <2>1. CASE accounts' = accounts
    BY <1>1, <1>4, <2>1 DEF StoreInv, Readable, Distinct, Matches
  <2>2. CASE \E t \in Tasks : accounts' = task[t].list
    BY <1>1, <2>2 DEF StoreInv, Distinct, Matches
  <2> QED
    BY <1>4, <2>1, <2>2, StoreFrom DEF Readable
<1> QED
  BY <1>3, <1>4

LEMMA StoreInit == Init => StoreInv
<1> SUFFICES ASSUME Init PROVE StoreInv
  OBVIOUS
<1>1. accounts = {} /\ \A t \in Tasks : task[t].list = {}
  BY IdleGood DEF Init
<1> QED
  BY <1>1 DEF StoreInv, Distinct

LEMMA SoundFromInv == TypeInv /\ HomeInv /\ StoreInv => RecordsSound
<1> SUFFICES ASSUME TypeInv, HomeInv, StoreInv, Readable, ~mixed,
                    NEW r \in accounts, r.home \in dirs, Intact(r.home)
             PROVE  auth[r.home].who = r.who
  BY DEF RecordsSound, StoreInv, Distinct
<1>1. r.home \in Homes /\ r.who \in Users /\ r = [who |-> r.who, home |-> r.home]
      /\ auth[r.home].who \in Users
  BY DEF TypeInv, FilesOK, Readable, Accounts, Intact, Logins
<1>2. Known(r.who, r.home) /\ Known(auth[r.home].who, r.home)
  BY <1>1 DEF Known
<1> QED
  BY <1>1, <1>2 DEF HomeInv

\* RecordsSound: whatever commands save the list they loaded, over the one that
\* another command saved meanwhile, the store never names an account twice nor
\* gives a user another's home, unless a switch copied a login it had not read.
THEOREM RecordsAreSound == Spec => []RecordsSound
<1>1. Init => TypeInv /\ HomeInv /\ StoreInv
  BY TypeInit, HomeInit, StoreInit
<1>2. TypeInv /\ HomeInv /\ StoreInv /\ [Next]_vars => TypeInv' /\ HomeInv' /\ StoreInv'
  BY TypeStep, HomeStep, StoreStep
<1>3. TypeInv /\ HomeInv /\ StoreInv => RecordsSound
  BY SoundFromInv
<1> QED
  BY <1>1, <1>2, <1>3, PTL DEF Spec

-----------------------------------------------------------------------------
(* What a login can be lost to when nobody interferes.                     *)

Others(t)  == Tasks \ {t}
Resting(S) == \A s \in S : task[s] = Idle

(* One task works at a time, the save of a renewed login succeeds, and the *)
(* CLI writes only while no task is at work.  Every other operation may    *)
(* fail, and the application may end anywhere else.                        *)
SoleStep(t) ==
    /\ Step(t)
    /\ Resting(Others(t))
    /\ task[t].at = "renewed" => SaveLogin(t)
CliStep == (\E u \in Users : CliLogin(u)) \/ CliRenew \/ CliLogout
QuietStep ==
    \/ \E t \in Tasks : SoleStep(t)
    \/ CliStep /\ Resting(Tasks)
Undisturbed == [][QuietStep]_vars

(* What the locals x rely on still stands in the files.                    *)
Rests(x, files) ==
    /\ x.at \in {"fetch", "renewed"} => files[x.acct.home] = x.base
    /\ x.at = "adopting" => files[Ambient] = x.cred
    /\ x.at = "copying" => files[Ambient] = x.base
SoleInv ==
    /\ \A t \in Tasks : Rests(task[t], auth)
    /\ mixed = FALSE

LEMMA IdleRests == ASSUME NEW files PROVE Rests(Idle, files)
BY IdleGood DEF Rests

LEMMA SoleBecome ==
    ASSUME TypeInv, NEW t \in Tasks, Resting(Others(t)), NEW x, Become(t, x),
           Rests(x, auth'), mixed' = FALSE
    PROVE  SoleInv'
<1>1. ASSUME NEW s \in Tasks PROVE Rests(task'[s], auth')
  <2>1. CASE s = t
    BY <2>1 DEF Become, TypeInv
  <2>2. CASE s # t
    BY <2>2, IdleRests DEF Become, TypeInv, Resting, Others
  <2> QED
    BY <2>1, <2>2
<1> QED
  BY <1>1 DEF SoleInv, Rests

LEMMA SoleTaskInv ==
    ASSUME TypeInv, SoleInv, NEW t \in Tasks, SoleStep(t)
    PROVE  SoleInv'
<1>g. task[t] \in GoodLocals /\ mixed = FALSE /\ Rests(task[t], auth) /\ Resting(Others(t))
  BY DEF TypeInv, SoleInv, SoleStep
<1>i. \A files : Rests(Idle, files)
  BY IdleRests
<1>k. ASSUME NEW x \in GoodLocals, NEW files,
             x.at \notin {"fetch", "renewed", "adopting", "copying"}
      PROVE  Rests(x, files)
  BY <1>k DEF Rests
<1>p. ASSUME NEW mat, NEW files
      PROVE  Rests([Idle EXCEPT !.at = "persisting", !.mat = mat], files)
  BY IdleGood DEF Rests, Idle
<1>s. ASSUME NEW list, NEW files
      PROVE  Rests([Idle EXCEPT !.at = "saving", !.list = list], files)
  BY IdleGood DEF Rests, Idle
<1>m. ASSUME NEW at, Move(t, at), at \notin {"fetch", "renewed", "adopting", "copying"},
             mixed' = FALSE
      PROVE  SoleInv'
  <2>1. Rests([task[t] EXCEPT !.at = at], auth')
    BY <1>g, <1>m DEF Rests, GoodLocals, LocalsOK
  <2> QED
    BY <1>g, <1>m, <2>1, SoleBecome DEF Move
<1>stop. ASSUME Stop(t), mixed' = FALSE PROVE SoleInv'
  BY <1>g, <1>i, <1>stop, SoleBecome DEF Stop
<1>persist. ASSUME NEW mat, Persist(t, mat), mixed' = FALSE PROVE SoleInv'
  BY <1>g, <1>p, <1>persist, SoleBecome DEF Persist
<1>save. ASSUME NEW list, Save(t, list), mixed' = FALSE PROVE SoleInv'
  BY <1>g, <1>s, <1>save, SoleBecome DEF Save
<1>1. ASSUME NEW u \in Users, NEW h \in Homes, AddBegin(t, u, h) PROVE SoleInv'
  <2> DEFINE x == [Idle EXCEPT !.at = "login", !.acct = [who |-> u, home |-> h]]
  <2>1. Rests(x, auth')
    BY DEF Rests, Idle
  <2>2. Become(t, x) /\ mixed' = FALSE
    BY <1>g, <1>1 DEF AddBegin
  <2> HIDE DEF x
  <2> QED
    BY <1>g, <2>1, <2>2, SoleBecome
<1>2. ASSUME AddSigned(t) PROVE SoleInv'
  BY <1>g, <1>m, <1>2 DEF AddSigned
<1>3. ASSUME AddSucceed(t) PROVE SoleInv'
  BY <1>g, <1>persist, <1>3 DEF AddSucceed
<1>4. ASSUME AddFail(t) PROVE SoleInv'
  BY <1>g, <1>stop, <1>4 DEF AddFail
<1>5. ASSUME NEW r \in Accounts, FetchBegin(t, r) PROVE SoleInv'
  <2> DEFINE x == [Idle EXCEPT !.at = "waiting", !.acct = r]
  <2>1. Rests(x, auth')
    BY DEF Rests, Idle
  <2>2. Become(t, x) /\ mixed' = FALSE
    BY <1>g, <1>5 DEF FetchBegin
  <2> HIDE DEF x
  <2> QED
    BY <1>g, <2>1, <2>2, SoleBecome
<1>6. ASSUME LoadLogin(t) PROVE SoleInv'
  <2> DEFINE c == auth[task[t].acct.home]
             x == [task[t] EXCEPT !.at = "fetch", !.cred = c, !.base = c, !.renewals = 2]
  <2>1. mixed' = FALSE /\ auth' = auth
    BY <1>g, <1>6 DEF LoadLogin, fileVars
  <2>2. x.at = "fetch" /\ x.base = c /\ x.acct = task[t].acct
    BY <1>g DEF GoodLocals, LocalsOK
  <2>3. Rests(x, auth')
    BY <2>1, <2>2 DEF Rests
  <2>4. Become(t, x) \/ Stop(t)
    BY <1>6 DEF LoadLogin
  <2> HIDE DEF x
  <2> QED
    BY <1>g, <1>stop, <2>1, <2>3, <2>4, SoleBecome
<1>7. ASSUME Renew(t) PROVE SoleInv'
  <2> DEFINE x == [task[t] EXCEPT !.at = "renewed",
                      !.cred = NextLogin(task[t].cred.who), !.renewals = @ - 1]
  <2>1. mixed' = FALSE /\ auth' = auth /\ task[t].at = "fetch" /\ Become(t, x)
    BY <1>g, <1>7 DEF Renew, fileVars
  <2>2. x.at = "renewed" /\ x.base = task[t].base /\ x.acct = task[t].acct
    BY <1>g DEF GoodLocals, LocalsOK
  <2>3. Rests(x, auth')
    BY <1>g, <2>1, <2>2 DEF Rests
  <2> HIDE DEF x
  <2> QED
    BY <1>g, <2>1, <2>3, SoleBecome
<1>8. ASSUME RenewLost(t) PROVE SoleInv'
  <2> DEFINE x == [task[t] EXCEPT !.renewals = @ - 1]
  <2>1. mixed' = FALSE /\ auth' = auth /\ task[t].at = "fetch" /\ Become(t, x)
    BY <1>g, <1>8 DEF RenewLost, fileVars
  <2>2. x.at = task[t].at /\ x.base = task[t].base /\ x.acct = task[t].acct
    BY <1>g DEF GoodLocals, LocalsOK
  <2>3. Rests(x, auth')
    BY <1>g, <2>1, <2>2 DEF Rests
  <2> HIDE DEF x
  <2> QED
    BY <1>g, <2>1, <2>3, SoleBecome
<1>9. ASSUME SaveLogin(t) PROVE SoleInv'
  <2> DEFINE h == task[t].acct.home
             written == h = Ambient \/ h \in dirs
             base == IF written THEN task[t].cred ELSE task[t].base
             x == [task[t] EXCEPT !.at = "fetch", !.base = base]
  <2>1. mixed' = FALSE /\ task[t].at = "renewed" /\ Become(t, x)
        /\ auth' = IF written THEN [auth EXCEPT ![h] = task[t].cred] ELSE auth
    BY <1>g, <1>9 DEF SaveLogin
  <2>2. x.at = "fetch" /\ x.base = base /\ x.acct = task[t].acct
    BY <1>g DEF GoodLocals, LocalsOK
  <2>3. h \in Places /\ auth[h] = task[t].base
    BY <1>g, <2>1 DEF GoodLocals, Accounts, Rests
  <2>4. auth'[h] = base
    BY <2>1, <2>3 DEF TypeInv, FilesOK
  <2>5. Rests(x, auth')
    BY <2>2, <2>4 DEF Rests
  <2> HIDE DEF x
  <2> QED
    BY <1>g, <2>1, <2>5, SoleBecome
<1>10. ASSUME EndFetch(t) PROVE SoleInv'
  BY <1>g, <1>stop, <1>persist, <1>10 DEF EndFetch
<1>11. ASSUME NEW r \in Accounts, SwitchBegin(t, r) PROVE SoleInv'
  <2> DEFINE x == [Idle EXCEPT !.at = "switching", !.acct = r]
  <2>1. Rests(x, auth')
    BY DEF Rests, Idle
  <2>2. Become(t, x) /\ mixed' = FALSE
    BY <1>g, <1>11 DEF SwitchBegin
  <2> HIDE DEF x
  <2> QED
    BY <1>g, <2>1, <2>2, SoleBecome
<1>12. ASSUME Inspect(t) PROVE SoleInv'
  <2> DEFINE x == [task[t] EXCEPT !.at = "adopting", !.cred = auth[Ambient]]
  <2>1. mixed' = FALSE /\ auth' = auth
    BY <1>g, <1>12 DEF Inspect, fileVars
  <2>2. x.at = "adopting" /\ x.cred = auth[Ambient]
    BY <1>g DEF GoodLocals, LocalsOK
  <2>3. Rests(x, auth')
    BY <2>1, <2>2 DEF Rests
  <2>4. Become(t, x) \/ Stop(t) \/ Move(t, "backup")
    BY <1>12 DEF Inspect
  <2> HIDE DEF x
  <2> QED
    BY <1>g, <1>m, <1>stop, <2>1, <2>3, <2>4, SoleBecome
<1>13. ASSUME NEW h \in Homes, Materialize(t, h) PROVE SoleInv'
  <2> DEFINE x == [task[t] EXCEPT !.at = "backup", !.cred = NoFile,
                       !.mat = [who |-> task[t].cred.who, home |-> h]]
  <2>1. task[t].at = "adopting" /\ Become(t, x)
    BY <1>13 DEF Materialize
  <2>2. auth[Ambient].who = task[t].cred.who
    BY <1>g, <2>1 DEF Rests
  <2>3. mixed' = FALSE
    BY <1>g, <1>13, <2>2 DEF Materialize
  <2>4. x.at = "backup"
    BY <1>g DEF GoodLocals, LocalsOK
  <2>5. Rests(x, auth')
    BY <2>4 DEF Rests
  <2> HIDE DEF x
  <2> QED
    BY <1>g, <2>1, <2>3, <2>5, SoleBecome
<1>14. ASSUME NothingToAdopt(t) PROVE SoleInv'
  BY <1>g, <1>stop, <1>14 DEF NothingToAdopt
<1>15. ASSUME BackupAmbient(t) PROVE SoleInv'
  <2> DEFINE x == [task[t] EXCEPT !.at = "copying", !.base = auth[Ambient]]
  <2>1. mixed' = FALSE /\ auth' = auth /\ Become(t, x)
    BY <1>g, <1>15 DEF BackupAmbient
  <2>2. x.at = "copying" /\ x.base = auth[Ambient]
    BY <1>g DEF GoodLocals, LocalsOK
  <2>3. Rests(x, auth')
    BY <2>1, <2>2 DEF Rests
  <2> HIDE DEF x
  <2> QED
    BY <1>g, <2>1, <2>3, SoleBecome
<1>16. ASSUME CopyTarget(t) PROVE SoleInv'
  BY <1>g, <1>stop, <1>persist, <1>16 DEF CopyTarget
<1>17. ASSUME NEW r \in Accounts, RemoveBegin(t, r) PROVE SoleInv'
  <2> DEFINE x == [Idle EXCEPT !.at = "removing", !.acct = r, !.list = Listed \ {r},
                       !.targets = {r.home} \cup SameUser(r)]
  <2>1. Rests(x, auth')
    BY DEF Rests, Idle
  <2>2. mixed' = FALSE /\ (Become(t, x) \/ Save(t, Listed \ {r}))
    BY <1>g, <1>17 DEF RemoveBegin
  <2> HIDE DEF x
  <2> QED
    BY <1>g, <1>save, <2>1, <2>2, SoleBecome
<1>18. ASSUME NEW h \in Homes, RemoveHome(t, h) PROVE SoleInv'
  <2> DEFINE x == [task[t] EXCEPT !.targets = @ \ {h}]
  <2>1. x.at = task[t].at /\ task[t].at = "removing"
    BY <1>g, <1>18 DEF GoodLocals, LocalsOK, RemoveHome
  <2>2. Rests(x, auth')
    BY <2>1 DEF Rests
  <2>3. mixed' = FALSE /\ (Become(t, x) \/ Save(t, task[t].list))
    BY <1>g, <1>18 DEF RemoveHome
  <2> HIDE DEF x
  <2> QED
    BY <1>g, <1>save, <2>2, <2>3, SoleBecome
<1>19. ASSUME PersistLoad(t) PROVE SoleInv'
  BY <1>g, <1>stop, <1>save, <1>19 DEF PersistLoad
<1>20. ASSUME PersistSave(t) PROVE SoleInv'
  BY <1>g, <1>stop, <1>20 DEF PersistSave
<1>21. ASSUME Fails(t) PROVE SoleInv'
  <2>1. CASE task[t].at = "renewed"
    BY <1>9, <2>1 DEF SoleStep
  <2>2. CASE task[t].at # "renewed"
    BY <1>g, <1>stop, <1>21, <2>2 DEF Fails
  <2> QED
    BY <2>1, <2>2
<1>22. ASSUME Crash(t) PROVE SoleInv'
  <2>1. mixed' = FALSE /\ \A s \in Tasks : task'[s] = Idle
    BY <1>g, <1>22 DEF Crash
  <2> QED
    BY <1>i, <2>1 DEF SoleInv, Rests
<1> HIDE DEF SoleInv
<1> QED
  BY <1>1, <1>2, <1>3, <1>4, <1>5, <1>6, <1>7, <1>8, <1>9, <1>10, <1>11, <1>12,
     <1>13, <1>14, <1>15, <1>16, <1>17, <1>18, <1>19, <1>20, <1>21, <1>22
  DEF SoleStep, Step

LEMMA SoleCliInv ==
    ASSUME SoleInv, CliStep, Resting(Tasks) PROVE SoleInv'
<1>1. task' = task /\ mixed' = mixed
  BY DEF CliStep, CliLogin, CliRenew, CliLogout
<1> QED
  BY <1>1, IdleRests DEF SoleInv, Resting

LEMMA SoleNextInv ==
    ASSUME TypeInv, SoleInv, [QuietStep]_vars PROVE SoleInv'
<1>1. CASE UNCHANGED vars
  BY <1>1 DEF vars, fileVars, SoleInv
<1> QED
  BY <1>1, SoleTaskInv, SoleCliInv DEF QuietStep

(* The ways that are left: the CLI replaces its own login, the user removes *)
(* the login's account, or a sign-in fails.                                 *)
RemovedByUser(t, l) ==
    \/ task[t].at = "removing" /\ task[t].acct.who = l.who
    \/ task[t].at \in {"login", "signed"} /\ auth[task[t].acct.home] = l
MeantStep ==
    \A l \in live \cap live' :
        \/ Held(l) => Held(l)'
        \/ CliWrote
        \/ \E t \in Tasks : RemovedByUser(t, l)
OnlyMeantLosses == [][MeantStep]_vars

LEMMA SoleKeeps ==
    ASSUME TypeInv, SoleInv, LoginsKeptStep, QuietStep PROVE MeantStep
<1> SUFFICES ASSUME NEW l \in live \cap live', Held(l), ~Held(l)', ~CliWrote
             PROVE  \E t \in Tasks : RemovedByUser(t, l)
  BY DEF MeantStep
<1>1. PICK t \in Tasks :
          task'[t] # task[t] /\ (Removed(t, l) \/ SaveFailed(t, l) \/ Overwrote(t))
  BY DEF LoginsKeptStep
<1>2. Rests(task[t], auth) /\ mixed = FALSE /\ task[t] \in GoodLocals
  BY DEF SoleInv, TypeInv
<1>3. ~Overwrote(t)
  BY <1>2 DEF Overwrote, Rests
<1>4. ~CliStep
  BY DEF CliStep, CliLogin, CliRenew, CliLogout, CliWrote
<1>5. PICK s \in Tasks : SoleStep(s)
  BY <1>4 DEF QuietStep
<1>6. ASSUME SaveFailed(t, l) PROVE FALSE
  <2>1. task[t].at = "renewed" /\ task[t].cred = l
    BY <1>6 DEF SaveFailed
  <2>2. s = t
    BY <1>5, <2>1, IdleGood DEF SoleStep, Resting, Others
  <2>3. SaveLogin(t)
    BY <1>5, <2>1, <2>2 DEF SoleStep
  <2> DEFINE h == task[t].acct.home
  <2>4. h \in Places /\ auth[h] \in Logins
    BY <1>2, <2>1 DEF Rests, GoodLocals, Accounts
  <2>5. h = Ambient \/ h \in dirs
    BY <2>4, MarksAreNoLogins DEF Places, TypeInv, FilesOK
  <2>6. auth'[h] = l
    BY <2>1, <2>3, <2>4, <2>5 DEF SaveLogin, TypeInv, FilesOK
  <2> QED
    BY <2>4, <2>6 DEF Held
<1> QED
  BY <1>1, <1>2, <1>3, <1>6 DEF Removed, RemovedByUser

(* RecordsSound without its exception.                                     *)
StoreSound ==
    Readable =>
        /\ \A r, s \in accounts : Matches(r, s) => r = s
        /\ \A r \in accounts :
               r.home \in dirs /\ Intact(r.home) => auth[r.home].who = r.who

\* The exceptions of LoginsKept and RecordsSound need somebody else: as long as
\* tasks follow one another, a renewed login can be saved and the CLI stays off
\* ~/.codex while a task works, a working login goes only when the CLI or the
\* user meant it to, and the store is sound, whatever else fails and wherever
\* else the application ends.
THEOREM LossNeedsInterference ==
    Spec /\ Undisturbed => OnlyMeantLosses /\ []StoreSound
<1>1. Init => SoleInv
  BY IdleRests DEF Init, SoleInv
<1>2. TypeInv /\ SoleInv /\ [QuietStep]_vars => SoleInv'
  BY SoleNextInv
<1>3. Init => TypeInv
  BY TypeInit
<1>4. TypeInv /\ [Next]_vars => TypeInv'
  BY TypeStep
<1>5. TypeInv /\ SoleInv /\ [LoginsKeptStep]_vars /\ [QuietStep]_vars
      => [MeantStep]_vars
  BY SoleKeeps
<1>6. SoleInv /\ RecordsSound => StoreSound
  BY DEF SoleInv, RecordsSound, StoreSound
<1> QED
  BY <1>1, <1>2, <1>3, <1>4, <1>5, <1>6, LoginsAreKept, RecordsAreSound, PTL
  DEF Spec, LoginsKept, OnlyMeantLosses, Undisturbed

-----------------------------------------------------------------------------
(* A task comes to an end.                                                 *)

(* A bound on the steps a task still has before it: a fetch may renew its  *)
(* login twice, each time with a save, and a removal has its homes to go.  *)
Rank ==
    [waiting |-> 20, switching |-> 12, adopting |-> 11, backup |-> 10,
     copying |-> 9, login |-> 8, signed |-> 7, persisting |-> 5, saving |-> 4,
     idle |-> 0, fetch |-> 10, renewed |-> 11, removing |-> 5]
Work(x) ==
    CASE x.at \in {"fetch", "renewed"} -> Rank[x.at] + 2 * x.renewals
      [] x.at = "removing" -> Rank[x.at] + Cardinality(x.targets)
      [] OTHER -> Rank[x.at]

LEMMA WorkIsNat ==
    ASSUME IsFiniteSet(Homes), NEW x \in GoodLocals PROVE Work(x) \in Nat
<1>1. x.at \in Phases /\ x.renewals \in 0..2 /\ x.targets \subseteq Homes
  BY DEF GoodLocals, LocalsOK
<1>2. IsFiniteSet(x.targets)
  BY <1>1, FS_Subset
<1>3. Cardinality(x.targets) \in Nat
  BY <1>2, FS_CardinalityType
<1> QED
  BY <1>1, <1>3 DEF Work, Rank, Phases

LEMMA WorkPositive ==
    ASSUME IsFiniteSet(Homes), NEW x \in GoodLocals, x.at # "idle" PROVE Work(x) # 0
<1>1. x.at \in Phases /\ x.renewals \in 0..2 /\ x.targets \subseteq Homes
  BY DEF GoodLocals, LocalsOK
<1>2. IsFiniteSet(x.targets)
  BY <1>1, FS_Subset
<1>3. Cardinality(x.targets) \in Nat
  BY <1>2, FS_CardinalityType
<1> QED
  BY <1>1, <1>3 DEF Work, Rank, Phases

LEMMA WorkFalls ==
    ASSUME IsFiniteSet(Homes), TypeInv, NEW t \in Tasks, Step(t), task[t].at # "idle"
    PROVE  Work(task'[t]) < Work(task[t])
<1>g. task[t] \in GoodLocals /\ task[t] \in LocalsOK
  BY DEF TypeInv, GoodLocals
<1>b. ASSUME NEW x, Become(t, x) PROVE task'[t] = x
  BY <1>b DEF Become, TypeInv
<1>i. Work(Idle) = 0
  BY IdleGood DEF Work, Rank
<1>p. ASSUME NEW mat, Persist(t, mat) PROVE Work(task'[t]) = 5
  <2> DEFINE x == [Idle EXCEPT !.at = "persisting", !.mat = mat]
  <2>1. x.at = "persisting"
    BY DEF Idle
  <2>2. Become(t, x)
    BY <1>p DEF Persist
  <2> HIDE DEF x
  <2>3. Work(x) = 5
    BY <2>1 DEF Work, Rank
  <2> QED
    BY <1>b, <2>2, <2>3
<1>s. ASSUME NEW list, Save(t, list) PROVE Work(task'[t]) = 4
  <2> DEFINE x == [Idle EXCEPT !.at = "saving", !.list = list]
  <2>1. x.at = "saving"
    BY DEF Idle
  <2>2. Become(t, x)
    BY <1>s DEF Save
  <2> HIDE DEF x
  <2>3. Work(x) = 4
    BY <2>1 DEF Work, Rank
  <2> QED
    BY <1>b, <2>2, <2>3
<1>m. ASSUME NEW at, Move(t, at), at \in {"signed", "backup"}
      PROVE  Work(task'[t]) = Rank[at]
  <2>1. task'[t].at = at
    BY <1>b, <1>g, <1>m DEF Move, LocalsOK
  <2> QED
    BY <1>m, <2>1 DEF Work
<1>w. Work(task[t]) \in Nat
  BY <1>g, WorkIsNat
<1>c. /\ task[t].at \in {"fetch", "renewed"}
           => Work(task[t]) = Rank[task[t].at] + 2 * task[t].renewals
      /\ task[t].at = "removing" => Work(task[t]) = 5 + Cardinality(task[t].targets)
      /\ task[t].at \notin {"fetch", "renewed", "removing"}
           => Work(task[t]) = Rank[task[t].at]
      /\ task[t].renewals \in 0..2 /\ Cardinality(task[t].targets) \in Nat
  <2>1. IsFiniteSet(task[t].targets)
    BY <1>g, FS_Subset DEF LocalsOK
  <2>2. Cardinality(task[t].targets) \in Nat
    BY <2>1, FS_CardinalityType
  <2> QED
    BY <1>g, <2>2 DEF Work, Rank, LocalsOK
<1>stop. ASSUME Stop(t), task[t].at \in Phases \ {"idle"}
         PROVE  Work(task'[t]) < Work(task[t])
  <2>1. task'[t] = Idle
    BY <1>b, <1>stop DEF Stop
  <2> QED
    BY <1>c, <1>i, <1>stop, <2>1 DEF Rank, Phases
<1>1. ASSUME NEW u \in Users, NEW h \in Homes, AddBegin(t, u, h) PROVE FALSE
  BY <1>1, IdleGood DEF AddBegin, Free
<1>2. ASSUME AddSigned(t) PROVE Work(task'[t]) < Work(task[t])
  BY <1>c, <1>m, <1>2 DEF AddSigned, Rank
<1>3. ASSUME AddSucceed(t) PROVE Work(task'[t]) < Work(task[t])
  BY <1>c, <1>p, <1>3 DEF AddSucceed, Rank
<1>4. ASSUME AddFail(t) PROVE Work(task'[t]) < Work(task[t])
  BY <1>stop, <1>4 DEF AddFail, Phases
<1>5. ASSUME NEW r \in Accounts, FetchBegin(t, r) PROVE FALSE
  BY <1>5, IdleGood DEF FetchBegin, Free
<1>6. ASSUME LoadLogin(t) PROVE Work(task'[t]) < Work(task[t])
  <2> DEFINE c == auth[task[t].acct.home]
             x == [task[t] EXCEPT !.at = "fetch", !.cred = c, !.base = c, !.renewals = 2]
  <2>1. task[t].at = "waiting" /\ (Become(t, x) \/ Stop(t))
    BY <1>6 DEF LoadLogin
  <2>2. x.at = "fetch" /\ x.renewals = 2
    BY <1>g DEF LocalsOK
  <2>3. Work(x) = 14
    BY <2>2 DEF Work, Rank
  <2> HIDE DEF x
  <2> QED
    BY <1>b, <1>c, <1>stop, <2>1, <2>3 DEF Rank, Phases
<1>7. ASSUME Renew(t) PROVE Work(task'[t]) < Work(task[t])
  <2> DEFINE x == [task[t] EXCEPT !.at = "renewed",
                      !.cred = NextLogin(task[t].cred.who), !.renewals = @ - 1]
  <2>1. task[t].at = "fetch" /\ Become(t, x)
    BY <1>7 DEF Renew
  <2>2. x.at = "renewed" /\ x.renewals = task[t].renewals - 1
    BY <1>g DEF LocalsOK
  <2>3. Work(x) = 11 + 2 * (task[t].renewals - 1)
    BY <2>2 DEF Work, Rank
  <2> HIDE DEF x
  <2> QED
    BY <1>b, <1>c, <2>1, <2>3 DEF Rank
<1>8. ASSUME RenewLost(t) PROVE Work(task'[t]) < Work(task[t])
  <2> DEFINE x == [task[t] EXCEPT !.renewals = @ - 1]
  <2>1. task[t].at = "fetch" /\ Become(t, x)
    BY <1>8 DEF RenewLost
  <2>2. x.at = "fetch" /\ x.renewals = task[t].renewals - 1
    BY <1>g, <2>1 DEF LocalsOK
  <2>3. Work(x) = 10 + 2 * (task[t].renewals - 1)
    BY <2>2 DEF Work, Rank
  <2> HIDE DEF x
  <2> QED
    BY <1>b, <1>c, <2>1, <2>3 DEF Rank
<1>9. ASSUME SaveLogin(t) PROVE Work(task'[t]) < Work(task[t])
  <2>1. task[t].at = "renewed"
    BY <1>9 DEF SaveLogin
  <2>2. task'[t].at = "fetch" /\ task'[t].renewals = task[t].renewals
    BY <1>b, <1>g, <1>9 DEF SaveLogin, LocalsOK
  <2>3. Work(task'[t]) = 10 + 2 * task[t].renewals
    BY <2>2 DEF Work, Rank
  <2> QED
    BY <1>c, <2>1, <2>3 DEF Rank
<1>10. ASSUME EndFetch(t) PROVE Work(task'[t]) < Work(task[t])
  <2>1. task[t].at = "fetch" /\ (Stop(t) \/ Persist(t, None))
    BY <1>10 DEF EndFetch
  <2> QED
    BY <1>c, <1>p, <1>stop, <2>1 DEF Rank, Phases
<1>11. ASSUME NEW r \in Accounts, SwitchBegin(t, r) PROVE FALSE
  BY <1>11, IdleGood DEF SwitchBegin, Free
<1>12. ASSUME Inspect(t) PROVE Work(task'[t]) < Work(task[t])
  <2> DEFINE x == [task[t] EXCEPT !.at = "adopting", !.cred = auth[Ambient]]
  <2>1. task[t].at = "switching" /\ (Become(t, x) \/ Stop(t) \/ Move(t, "backup"))
    BY <1>12 DEF Inspect
  <2>2. x.at = "adopting"
    BY <1>g DEF LocalsOK
  <2>3. Work(x) = 11
    BY <2>2 DEF Work, Rank
  <2> HIDE DEF x
  <2> QED
    BY <1>b, <1>c, <1>m, <1>stop, <2>1, <2>3 DEF Rank, Phases
<1>13. ASSUME NEW h \in Homes, Materialize(t, h) PROVE Work(task'[t]) < Work(task[t])
  <2>1. task[t].at = "adopting"
    BY <1>13 DEF Materialize
  <2>2. task'[t].at = "backup"
    BY <1>b, <1>g, <1>13 DEF Materialize, LocalsOK
  <2> QED
    BY <1>c, <2>1, <2>2 DEF Work, Rank
<1>14. ASSUME NothingToAdopt(t) PROVE Work(task'[t]) < Work(task[t])
  BY <1>stop, <1>14 DEF NothingToAdopt, Phases
<1>15. ASSUME BackupAmbient(t) PROVE Work(task'[t]) < Work(task[t])
  <2>1. task[t].at = "backup"
    BY <1>15 DEF BackupAmbient
  <2>2. task'[t].at = "copying"
    BY <1>b, <1>g, <1>15 DEF BackupAmbient, LocalsOK
  <2> QED
    BY <1>c, <2>1, <2>2 DEF Work, Rank
<1>16. ASSUME CopyTarget(t) PROVE Work(task'[t]) < Work(task[t])
  <2>1. task[t].at = "copying" /\ (Stop(t) \/ Persist(t, task[t].mat))
    BY <1>16 DEF CopyTarget
  <2> QED
    BY <1>c, <1>p, <1>stop, <2>1 DEF Rank, Phases
<1>17. ASSUME NEW r \in Accounts, RemoveBegin(t, r) PROVE FALSE
  BY <1>17, IdleGood DEF RemoveBegin, Free
<1>18. ASSUME NEW h \in Homes, RemoveHome(t, h) PROVE Work(task'[t]) < Work(task[t])
  <2> DEFINE S == task[t].targets
             x == [task[t] EXCEPT !.targets = S \ {h}]
  <2>1. task[t].at = "removing" /\ h \in S /\ (Become(t, x) \/ Save(t, task[t].list))
    BY <1>18 DEF RemoveHome, NextTargets
  <2>2. x.at = "removing" /\ x.targets = S \ {h}
    BY <1>g, <2>1 DEF LocalsOK
  <2>3. IsFiniteSet(S)
    BY <1>g, FS_Subset DEF LocalsOK
  <2>4. Cardinality(S \ {h}) = Cardinality(S) - 1
    BY <2>1, <2>3, FS_RemoveElement
  <2>5. Work(x) = 5 + (Cardinality(S) - 1)
    BY <2>2, <2>4 DEF Work, Rank
  <2>6. Work(task[t]) = 5 + Cardinality(S) /\ Cardinality(S) \in Nat
    BY <1>c, <2>1
  <2> HIDE DEF x, S
  <2>7. CASE Become(t, x)
    BY <1>b, <2>5, <2>6, <2>7
  <2>8. CASE Save(t, task[t].list)
    BY <1>s, <2>6, <2>8
  <2> QED
    BY <2>1, <2>7, <2>8
<1>19. ASSUME PersistLoad(t) PROVE Work(task'[t]) < Work(task[t])
  <2>1. task[t].at = "persisting" /\ (Stop(t) \/ \E list : Save(t, list))
    BY <1>19 DEF PersistLoad
  <2> QED
    BY <1>c, <1>s, <1>stop, <2>1 DEF Rank, Phases
<1>20. ASSUME PersistSave(t) PROVE Work(task'[t]) < Work(task[t])
  BY <1>stop, <1>20 DEF PersistSave, Phases
<1>21. ASSUME Fails(t) PROVE Work(task'[t]) < Work(task[t])
  <2>1. CASE task[t].at = "renewed"
    <3>1. task'[t].at = "fetch" /\ task'[t].renewals = task[t].renewals
      BY <1>b, <1>g, <1>21, <2>1 DEF Fails, Move, LocalsOK
    <3>2. Work(task'[t]) = 10 + 2 * task[t].renewals
      BY <3>1 DEF Work, Rank
    <3> QED
      BY <1>c, <2>1, <3>2 DEF Rank
  <2>2. CASE task[t].at # "renewed"
    BY <1>stop, <1>21, <2>2 DEF Fails, Phases
  <2> QED
    BY <2>1, <2>2
<1>22. ASSUME Crash(t) PROVE Work(task'[t]) < Work(task[t])
  <2>1. task'[t] = Idle
    BY <1>22 DEF Crash
  <2>2. Work(task[t]) # 0
    BY <1>g, WorkPositive
  <2> QED
    BY <1>i, <1>w, <2>1, <2>2
<1> QED
  BY <1>1, <1>2, <1>3, <1>4, <1>5, <1>6, <1>7, <1>8, <1>9, <1>10, <1>11, <1>12,
     <1>13, <1>14, <1>15, <1>16, <1>17, <1>18, <1>19, <1>20, <1>21, <1>22
  DEF Step

\* The other tasks leave it alone, or a crash frees it too.
LEMMA WorkOfOthers ==
    ASSUME IsFiniteSet(Homes), TypeInv, [Next]_vars, NEW t \in Tasks
    PROVE  task'[t] = task[t] \/ Step(t) \/ task'[t] = Idle
<1>1. CASE UNCHANGED vars
  BY <1>1 DEF vars
<1>2. CASE CliStep
  BY <1>2 DEF CliStep, CliLogin, CliRenew, CliLogout
<1>3. ASSUME NEW s \in Tasks, Step(s), s # t
      PROVE task'[t] = task[t] \/ task'[t] = Idle
  <2>1. CASE Crash(s)
    BY <2>1 DEF Crash
  <2>2. CASE ~Crash(s)
    <3>1. \A new : Become(s, new) => task'[t] = task[t]
      BY <1>3 DEF Become, TypeInv
    <3>2. \E new : Become(s, new)
      <4>1. \A mat, list, at :
               /\ Persist(s, mat) => \E new : Become(s, new)
               /\ Save(s, list) => \E new : Become(s, new)
               /\ Move(s, at) => \E new : Become(s, new)
               /\ Stop(s) => \E new : Become(s, new)
        BY DEF Persist, Save, Move, Stop
      <4> QED
        BY <1>3, <2>2, <4>1
        DEF Step, AddBegin, AddSigned, AddSucceed, AddFail, FetchBegin, LoadLogin,
            Renew, RenewLost, SaveLogin, EndFetch, SwitchBegin, Inspect, Materialize,
            NothingToAdopt, BackupAmbient, CopyTarget, RemoveBegin, RemoveHome,
            PersistLoad, PersistSave, Fails
    <3> QED
      BY <3>1, <3>2
  <2> QED
    BY <2>1, <2>2
<1> QED
  BY <1>1, <1>2, <1>3 DEF Next, CliStep

WorkStep ==
    \A t \in Tasks :
        task[t].at # "idle" =>
            /\ Step(t) => Work(task'[t]) < Work(task[t])
            /\ task'[t] = task[t] \/ Work(task'[t]) < Work(task[t])
WorkGoesDown == [][WorkStep]_vars
WorkBounded  == \A t \in Tasks : Work(task[t]) \in Nat

\* A command or a lane that has begun comes to its end in a bounded number of
\* its own steps, and nobody else's step sets it back: a renewal answered by
\* another `unauthorized` is not retried for ever, and a removal goes over its
\* homes once.  (That a step is taken at all is fairness, which TLC's runs state.)
THEOREM TasksAreFinite ==
    ASSUME IsFiniteSet(Homes)
    PROVE  Spec => WorkGoesDown /\ []WorkBounded
<1>1. TypeInv => WorkBounded
  BY WorkIsNat DEF TypeInv, WorkBounded
<1>2. TypeInv /\ [Next]_vars => WorkStep
  <2> SUFFICES ASSUME TypeInv, [Next]_vars, NEW t \in Tasks, task[t].at # "idle"
               PROVE  /\ Step(t) => Work(task'[t]) < Work(task[t])
                      /\ task'[t] = task[t] \/ Work(task'[t]) < Work(task[t])
    BY DEF WorkStep
  <2>1. Step(t) => Work(task'[t]) < Work(task[t])
    BY WorkFalls
  <2>2. ASSUME task'[t] = Idle PROVE Work(task'[t]) < Work(task[t])
    <3>1. task[t] \in GoodLocals /\ task[t].at \in Phases
      BY DEF TypeInv, GoodLocals, LocalsOK
    <3>2. Work(task[t]) # 0
      BY <3>1, WorkPositive
    <3>3. Work(task[t]) \in Nat /\ Work(Idle) = 0
      BY <3>1, WorkIsNat, IdleGood DEF Work, Rank
    <3> QED
      BY <2>2, <3>2, <3>3
  <2> QED
    BY <2>1, <2>2, WorkOfOthers
<1>3. Init => TypeInv
  BY TypeInit
<1>4. TypeInv /\ [Next]_vars => TypeInv'
  BY TypeStep
<1> QED
  BY <1>1, <1>2, <1>3, <1>4, PTL DEF Spec, WorkGoesDown

=============================================================================
