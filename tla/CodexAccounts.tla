--------------------------- MODULE CodexAccounts ---------------------------
(***************************************************************************)
(* The Codex accounts of the desktop shell: the commands that add, remove, *)
(* switch and fetch an account (src-tauri/src/commands/codex_accounts.rs), *)
(* the account lanes of a provider refresh, and the account manager, token *)
(* renewal and account store below them (rust/src/codex_accounts).         *)
(*                                                                         *)
(* What they share is files: an auth.json in the ambient ~/.codex and in   *)
(* every managed home, the backups of the ambient one, and accounts.json.  *)
(* No lock protects any of them and the Codex CLI writes the ambient one.  *)
(* One action is a stretch of code up to its next read or write of a file. *)
(*                                                                         *)
(* A login is a user and a number; the numbers are handed out by the       *)
(* server, and a renewal replaces a login by a new one (refresh tokens are *)
(* rotated).  Homes are numbers in the order the directory lists them.     *)
(* Account ids, names, dates and the desktop session are left out; backups *)
(* are taken to be at least a second apart, so none replaces another.      *)
(***************************************************************************)
EXTENDS Naturals, FiniteSetsExt

CONSTANTS
    Users,      \* the identities a login may belong to
    Homes,      \* directories under managed-homes, in listing order
    Ambient,    \* the home of the Codex CLI, ~/.codex
    Windows,    \* the commands of the windows that may run at once
    Lanes,      \* the account fetches of provider refreshes
    MaxLogins,  \* bound: logins the server hands out
    NoFile,     \* no auth.json
    Torn,       \* an auth.json or a copy that was cut short
    None        \* no account

ASSUME HomesAreNumbers == Homes \subseteq Nat
ASSUME AmbientIsNoHome == Ambient \notin Homes
ASSUME TasksDiffer == Windows \cap Lanes = {}
ASSUME MaxLoginsIsNat == MaxLogins \in Nat

Tasks    == Windows \cup Lanes
Places   == Homes \cup {Ambient}
Logins   == [who : Users, no : 1..MaxLogins]
Contents == Logins \cup {NoFile, Torn}
Accounts == [who : Users, home : Places]

ASSUME MarksAreNoLogins ==
    NoFile \notin Logins /\ Torn \notin Logins /\ NoFile # Torn
ASSUME NoneIsNoAccount == None \notin Accounts

VARIABLES
    auth,      \* contents of auth.json in each place
    dirs,      \* the managed homes that exist
    made,      \* the managed homes ever made; their names are never reused
    backups,   \* the ambient logins copied to auth-backups
    live,      \* the logins the server still accepts
    issued,    \* number of logins handed out
    accounts,  \* the accounts of accounts.json, or Torn
    task,      \* what each command and each lane is doing
    mixed      \* history: a home was given another user's login than was read

fileVars   == <<auth, dirs, made, backups>>
serverVars == <<live, issued>>
vars == <<fileVars, serverVars, accounts, task, mixed>>

(* The locals of a task: the account it works on, the login it has read or *)
(* renewed, the file contents it relies on, the account it has to merge    *)
(* into the store, the list it will save, the homes it still has to        *)
(* remove, and how many renewals it may still ask for.                     *)
Phases == {"idle", "login", "signed", "waiting", "fetch", "renewed",
           "switching", "adopting", "backup", "copying", "removing", "persisting",
           "saving"}
Idle == [at |-> "idle", acct |-> None, cred |-> NoFile, base |-> NoFile,
         mat |-> None, list |-> {}, targets |-> {}, renewals |-> 0]

-----------------------------------------------------------------------------
(* Discovery and reconciliation: load_codex_accounts *)

Readable == accounts # Torn

Intact(p)     == auth[p] \in Logins
IsManaged(r)  == r.home # Ambient
Matches(r, s) == r.home = s.home \/ r.who = s.who
AccountAt(p)  == [who |-> auth[p].who, home |-> p]

(* The managed homes that hold r's own auth.json or one of the same user. *)
FoundFor(r) ==
    {h \in dirs : Intact(h) /\ Matches(AccountAt(h), r)}

(* A stored account follows the first managed home found for it. *)
Reconciled(r) == IF FoundFor(r) = {} THEN r ELSE AccountAt(Min(FoundFor(r)))
Stored == {Reconciled(r) : r \in accounts}

(* Accounts found on disk and not in the store; of several for one user *)
(* the first is taken, managed homes before the ambient one.            *)
FirstOfUser(h) == \A g \in dirs : Intact(g) /\ auth[g].who = auth[h].who => h =< g
Unknown(p)     == \A r \in Stored : ~Matches(r, AccountAt(p))

(* Mutant: every home that is not in the store becomes an account. *)
EveryNewHome == {h \in dirs : Intact(h) /\ Unknown(h)}

NewHomes == {h \in dirs : Intact(h) /\ Unknown(h) /\ FirstOfUser(h)}

NewAmbient ==
    {p \in {Ambient} :
        /\ Intact(p)
        /\ Unknown(p)
        /\ \A h \in dirs : Intact(h) => auth[h].who # auth[p].who}
Listed == Stored \cup {AccountAt(p) : p \in NewHomes \cup NewAmbient}

(* The lists that may come of merging the account made of the ambient   *)
(* login: it replaces the account of its user, unless that one has been *)
(* authenticated later and has a managed home of its own.               *)
Merges(list, mat) ==
    IF mat = None THEN {list}
    ELSE LET same == {r \in list : Matches(r, mat)}
         IN  {(list \ same) \cup {mat}}
             \cup {l \in {list} : \E r \in same : IsManaged(r)}

-----------------------------------------------------------------------------
Init ==
    /\ auth = [p \in Places |-> NoFile]
    /\ dirs = {}
    /\ made = {}
    /\ backups = {}
    /\ live = {}
    /\ issued = 0
    /\ accounts = {}
    /\ task = [t \in Tasks |-> Idle]
    /\ mixed = FALSE

Become(t, locals) == task' = [task EXCEPT ![t] = locals]
Move(t, phase)    == Become(t, [task[t] EXCEPT !.at = phase])
Stop(t)           == Become(t, Idle)
Free(t)           == task[t] = Idle

(* A command that has done its work persists the accounts, with mat merged. *)
Persist(t, mat) == Become(t, [Idle EXCEPT !.at = "persisting", !.mat = mat])
Save(t, list)   == Become(t, [Idle EXCEPT !.at = "saving", !.list = list])

(* The server hands out a login for user u. *)
NextLogin(u) == [who |-> u, no |-> issued + 1]
Issue(u) ==
    /\ issued < MaxLogins
    /\ issued' = issued + 1
    /\ live' = live \cup {NextLogin(u)}

DropHome(h) ==
    /\ dirs' = dirs \ {h}
    /\ auth' = [auth EXCEPT ![h] = NoFile]

-----------------------------------------------------------------------------
(* codex_account_add *)

AddBegin(t, u, h) ==
    /\ t \in Windows
    /\ Free(t)
    /\ h \in Homes \ made
    /\ dirs' = dirs \cup {h}
    /\ made' = made \cup {h}
    /\ Become(t, [Idle EXCEPT !.at = "login", !.acct = [who |-> u, home |-> h]])
    /\ UNCHANGED <<auth, backups, serverVars, accounts, mixed>>

(* The codex login child process writes the new home's auth.json. *)
AddSigned(t) ==
    /\ task[t].at = "login"
    /\ LET r == task[t].acct
       IN  /\ r.home \in dirs
           /\ Issue(r.who)
           /\ auth' = [auth EXCEPT ![r.home] = NextLogin(r.who)]
    /\ Move(t, "signed")
    /\ UNCHANGED <<dirs, made, backups, accounts, mixed>>

AddSucceed(t) ==
    /\ task[t].at = "signed"
    /\ Intact(task[t].acct.home)
    /\ Persist(t, None)
    /\ UNCHANGED <<fileVars, serverVars, accounts, mixed>>

(* The sign-in failed, timed out or left nothing readable: the home is *)
(* removed, with the login it may already hold; a failure of that is   *)
(* ignored.                                                            *)
AddFail(t) ==
    /\ task[t].at \in {"login", "signed"}
    /\ \/ DropHome(task[t].acct.home)
       \/ UNCHANGED <<dirs, auth>>
    /\ Stop(t)
    /\ UNCHANGED <<made, backups, serverVars, accounts, mixed>>

-----------------------------------------------------------------------------
(* codex_account_fetch and the account lanes *)

(* A window names an account of the store, since the ids of others differ *)
(* from one load to the next; the lanes fetch every account they list.    *)
FetchBegin(t, r) ==
    /\ Free(t)
    /\ Readable
    /\ r \in (IF t \in Windows THEN Stored ELSE Listed)
    /\ Become(t, [Idle EXCEPT !.at = "waiting", !.acct = r])
    /\ UNCHANGED <<fileVars, serverVars, accounts, mixed>>

LoadLogin(t) ==
    /\ task[t].at = "waiting"
    /\ LET c == auth[task[t].acct.home]
       IN  IF c \in Logins
           THEN Become(t, [task[t] EXCEPT !.at = "fetch", !.cred = c,
                                          !.base = c, !.renewals = 2])
           ELSE Stop(t)
    /\ UNCHANGED <<fileVars, serverVars, accounts, mixed>>

(* The login is due for renewal, or the usage API answered unauthorized. *)
Renew(t) ==
    /\ task[t].at = "fetch"
    /\ task[t].renewals > 0
    /\ LET c == task[t].cred
       IN  /\ c \in live
           /\ issued < MaxLogins
           /\ issued' = issued + 1
           /\ live' = (live \ {c}) \cup {NextLogin(c.who)}
           /\ Become(t, [task[t] EXCEPT !.at = "renewed",
                                        !.cred = NextLogin(c.who),
                                        !.renewals = @ - 1])
    /\ UNCHANGED <<fileVars, accounts, mixed>>

(* The server has renewed the login, but its answer does not arrive. *)
RenewLost(t) ==
    /\ task[t].at = "fetch"
    /\ task[t].renewals > 0
    /\ task[t].cred \in live
    /\ issued < MaxLogins
    /\ issued' = issued + 1
    /\ live' = live \ {task[t].cred}
    /\ Become(t, [task[t] EXCEPT !.renewals = @ - 1])
    /\ UNCHANGED <<fileVars, accounts, mixed>>

(* Mutant: the save creates the directory it writes to. *)
SaveAnyway(t) ==
    /\ task[t].at = "renewed"
    /\ auth' = [auth EXCEPT ![task[t].acct.home] = task[t].cred]
    /\ Become(t, [task[t] EXCEPT !.at = "fetch", !.base = task[t].cred])
    /\ UNCHANGED <<dirs, made, backups, serverVars, accounts, mixed>>

(* save_credentials overwrites what the home holds by now; it fails when *)
(* the home has been removed in the meantime.                            *)
SaveLogin(t) ==
    /\ task[t].at = "renewed"
    /\ LET h == task[t].acct.home
           written == h = Ambient \/ h \in dirs
       IN  /\ auth' = IF written THEN [auth EXCEPT ![h] = task[t].cred] ELSE auth
           /\ Become(t, [task[t] EXCEPT !.at = "fetch",
                             !.base = IF written THEN task[t].cred ELSE @])
    /\ UNCHANGED <<dirs, made, backups, serverVars, accounts, mixed>>

EndFetch(t) ==
    /\ task[t].at = "fetch"
    /\ \/ Stop(t)
       \/ t \in Windows /\ Persist(t, None)
    /\ UNCHANGED <<fileVars, serverVars, accounts, mixed>>

-----------------------------------------------------------------------------
(* codex_account_switch *)

SwitchBegin(t, r) ==
    /\ t \in Windows
    /\ Free(t)
    /\ Readable
    /\ r \in Stored
    /\ Become(t, [Idle EXCEPT !.at = "switching", !.acct = r])
    /\ UNCHANGED <<fileVars, serverVars, accounts, mixed>>

(* The ambient login becomes a managed account before it is replaced,  *)
(* unless it is one of the account that is being switched to.          *)
Inspect(t) ==
    /\ task[t].at = "switching"
    /\ IF auth[task[t].acct.home] = NoFile THEN Stop(t)
       ELSE IF Intact(Ambient) /\ ~Matches(AccountAt(Ambient), task[t].acct)
       THEN Become(t, [task[t] EXCEPT !.at = "adopting", !.cred = auth[Ambient]])
       ELSE Move(t, "backup")
    /\ UNCHANGED <<fileVars, serverVars, accounts, mixed>>

(* materialize_as_managed copies the file as it is now. *)
Materialize(t, h) ==
    /\ task[t].at = "adopting"
    /\ h \in Homes \ made
    /\ auth[Ambient] # NoFile
    /\ dirs' = dirs \cup {h}
    /\ made' = made \cup {h}
    /\ auth' = [auth EXCEPT ![h] = auth[Ambient]]
    /\ mixed' = (mixed \/ (Intact(Ambient) /\ auth[Ambient].who # task[t].cred.who))
    /\ Become(t, [task[t] EXCEPT
           !.at = "backup",
           !.cred = NoFile,
           !.mat = [who |-> task[t].cred.who, home |-> h]])
    /\ UNCHANGED <<backups, serverVars, accounts>>

NothingToAdopt(t) ==
    /\ task[t].at = "adopting"
    /\ auth[Ambient] = NoFile
    /\ Stop(t)
    /\ UNCHANGED <<fileVars, serverVars, accounts, mixed>>

(* Mutant: no backup of a login of the account that is switched to, which *)
(* that account's home is thought to hold.                                *)
BackupOthers(t) ==
    /\ task[t].at = "backup"
    /\ backups' = backups \cup
           {l \in {auth[Ambient]} \cap Logins : l.who # task[t].acct.who}
    /\ Become(t, [task[t] EXCEPT !.at = "copying", !.base = auth[Ambient]])
    /\ UNCHANGED <<auth, dirs, made, serverVars, accounts, mixed>>

BackupAmbient(t) ==
    /\ task[t].at = "backup"
    /\ backups' = backups \cup ({auth[Ambient]} \cap Logins)
    /\ Become(t, [task[t] EXCEPT !.at = "copying", !.base = auth[Ambient]])
    /\ UNCHANGED <<auth, dirs, made, serverVars, accounts, mixed>>

(* The target's file may be gone, and a file cannot be copied onto itself. *)
CopyTarget(t) ==
    /\ task[t].at = "copying"
    /\ LET src == task[t].acct.home
           ok  == src # Ambient /\ auth[src] # NoFile
       IN  /\ auth' = IF ok THEN [auth EXCEPT ![Ambient] = auth[src]] ELSE auth
           /\ IF ok /\ task[t].mat # None THEN Persist(t, task[t].mat) ELSE Stop(t)
    /\ UNCHANGED <<dirs, made, backups, serverVars, accounts, mixed>>

-----------------------------------------------------------------------------
(* codex_account_remove *)

SameUser(r) == {h \in dirs : Intact(h) /\ auth[h].who = r.who}

RemoveBegin(t, r) ==
    /\ t \in Windows
    /\ Free(t)
    /\ Readable
    /\ r \in Stored
    /\ IF IsManaged(r)
       THEN Become(t, [Idle EXCEPT !.at = "removing", !.acct = r,
                                   !.list = Listed \ {r},
                                   !.targets = {r.home} \cup SameUser(r)])
       ELSE Save(t, Listed \ {r})
    /\ UNCHANGED <<fileVars, serverVars, accounts, mixed>>

(* One home after the other, the account's own first. *)
NextTargets(t) ==
    {h \in task[t].targets :
        task[t].acct.home \in task[t].targets => h = task[t].acct.home}

RemoveHome(t, h) ==
    /\ task[t].at = "removing"
    /\ h \in NextTargets(t)
    /\ DropHome(h)
    /\ IF task[t].targets = {h}
       THEN Save(t, task[t].list)
       ELSE Become(t, [task[t] EXCEPT !.targets = @ \ {h}])
    /\ UNCHANGED <<made, backups, serverVars, accounts, mixed>>

-----------------------------------------------------------------------------
(* Loading the accounts again and saving the whole list *)

PersistLoad(t) ==
    /\ task[t].at = "persisting"
    /\ IF Readable
       THEN \E list \in Merges(Listed, task[t].mat) : Save(t, list)
       ELSE Stop(t)
    /\ UNCHANGED <<fileVars, serverVars, accounts, mixed>>

PersistSave(t) ==
    /\ task[t].at = "saving"
    /\ accounts' = IF Readable THEN task[t].list ELSE accounts
    /\ Stop(t)
    /\ UNCHANGED <<fileVars, serverVars, mixed>>

-----------------------------------------------------------------------------
(* Faults and the Codex CLI *)

(* The files a task is writing in its current phase. *)
Writing(t) ==
    CASE task[t].at = "renewed" -> {task[t].acct.home} \cap (dirs \cup {Ambient})
      [] task[t].at = "copying" -> {Ambient}
      [] OTHER -> {}

(* What a write or a removal leaves that does not run to its end.  The home *)
(* of an adoption that failed is left out: discovery ignores a torn file.   *)
HalfDone(t) ==
    /\ \/ auth' = auth
       \/ \E p \in Writing(t) : auth' = [auth EXCEPT ![p] = Torn]
       \/ /\ task[t].at = "removing"
          /\ \E h \in NextTargets(t) : auth' = [auth EXCEPT ![h] = NoFile]
    /\ \/ accounts' = accounts
       \/ task[t].at = "saving" /\ accounts' = Torn

(* A file operation of a task fails.  Only save_credentials carries on. *)
Fails(t) ==
    /\ task[t].at \in {"renewed", "adopting", "backup", "copying", "removing",
                       "saving"}
    /\ HalfDone(t)
    /\ IF task[t].at = "renewed" THEN Move(t, "fetch") ELSE Stop(t)
    /\ UNCHANGED <<dirs, made, backups, serverVars, mixed>>

(* The application ends while task t is at work, and starts again. *)
Crash(t) ==
    /\ ~Free(t)
    /\ HalfDone(t)
    /\ task' = [s \in Tasks |-> Idle]
    /\ UNCHANGED <<dirs, made, backups, serverVars, mixed>>

CliLogin(u) ==
    /\ Issue(u)
    /\ auth' = [auth EXCEPT ![Ambient] = NextLogin(u)]
    /\ UNCHANGED <<dirs, made, backups, accounts, task, mixed>>

CliRenew ==
    /\ auth[Ambient] \in live
    /\ issued < MaxLogins
    /\ issued' = issued + 1
    /\ live' = (live \ {auth[Ambient]}) \cup {NextLogin(auth[Ambient].who)}
    /\ auth' = [auth EXCEPT ![Ambient] = NextLogin(auth[Ambient].who)]
    /\ UNCHANGED <<dirs, made, backups, accounts, task, mixed>>

CliLogout ==
    /\ auth' = [auth EXCEPT ![Ambient] = NoFile]
    /\ UNCHANGED <<dirs, made, backups, serverVars, accounts, task, mixed>>

Step(t) ==
    \/ \E u \in Users, h \in Homes : AddBegin(t, u, h)
    \/ AddSigned(t) \/ AddSucceed(t) \/ AddFail(t)
    \/ \E r \in Accounts : FetchBegin(t, r)
    \/ LoadLogin(t) \/ Renew(t) \/ RenewLost(t) \/ SaveLogin(t) \/ EndFetch(t)
    \/ \E r \in Accounts : SwitchBegin(t, r)
    \/ Inspect(t)
    \/ \E h \in Homes : Materialize(t, h)
    \/ NothingToAdopt(t) \/ BackupAmbient(t) \/ CopyTarget(t)
    \/ \E r \in Accounts : RemoveBegin(t, r)
    \/ \E h \in Homes : RemoveHome(t, h)
    \/ PersistLoad(t) \/ PersistSave(t)
    \/ Fails(t) \/ Crash(t)

Next ==
    \/ \E t \in Tasks : Step(t)
    \/ \E u \in Users : CliLogin(u)
    \/ CliRenew \/ CliLogout

Spec == Init /\ [][Next]_vars

-----------------------------------------------------------------------------
(* Properties *)

LocalsOK ==
    [at : Phases, acct : Accounts \cup {None}, cred : Contents,
     base : Contents, mat : Accounts \cup {None}, list : SUBSET Accounts,
     targets : SUBSET Homes, renewals : 0..2]

(* Every variable keeps its type, and only a home that exists and was *)
(* made by the application holds an auth.json.                        *)
TypeOK ==
    /\ auth \in [Places -> Contents]
    /\ dirs \subseteq made
    /\ made \subseteq Homes
    /\ backups \subseteq Logins
    /\ live \subseteq Logins
    /\ issued \in 0..MaxLogins
    /\ accounts \in (SUBSET Accounts) \cup {Torn}
    /\ task \in [Tasks -> LocalsOK]
    /\ mixed \in BOOLEAN
    /\ \A h \in Homes : auth[h] # NoFile => h \in dirs

(* The store names each account once, and an account stored with a managed *)
(* home is the user whose login that home holds, however the commands, the *)
(* lanes and the CLI interleave; the exception is a switch that copied the *)
(* ambient login after the CLI had changed its user.                       *)
RecordsSound ==
    Readable /\ ~mixed =>
        /\ \A r, s \in accounts : Matches(r, s) => r = s
        /\ \A r \in accounts :
               r.home \in dirs /\ Intact(r.home) => auth[r.home].who = r.who

(* A login can still be found: in a home or in a backup, or just renewed *)
(* and about to be saved.                                                *)
Held(l) ==
    \/ \E p \in Places : auth[p] = l
    \/ l \in backups
    \/ \E t \in Tasks : task[t].at = "renewed" /\ task[t].cred = l

(* The ways a login that still works may go: the CLI replaces its own; the *)
(* user removes the account or a sign-in fails; a renewed login cannot be  *)
(* saved; or a save or a switch overwrites a file that has been changed    *)
(* since the task read it or backed it up.                                 *)
CliWrote == task' = task
Removed(t, l) ==
    \/ task[t].at = "removing" /\ (mixed \/ task[t].acct.who = l.who)
    \/ task[t].at \in {"login", "signed"} /\ auth[task[t].acct.home] = l
SaveFailed(t, l) == task[t].at = "renewed" /\ task[t].cred = l
Overwrote(t) ==
    \/ task[t].at = "renewed" /\ auth[task[t].acct.home] # task[t].base
    \/ task[t].at = "copying" /\ auth[Ambient] # task[t].base

LoginsKeptStep ==
    \A l \in live \cap live' :
        \/ Held(l) => Held(l)'
        \/ CliWrote
        \/ \E t \in Tasks :
               /\ task'[t] # task[t]
               /\ Removed(t, l) \/ SaveFailed(t, l) \/ Overwrote(t)

(* A login that the server still accepts is never lost otherwise: a switch, *)
(* even one that fails or is cut short, leaves it in a home or a backup.    *)
LoginsKept == [][LoginsKeptStep]_vars

=============================================================================
