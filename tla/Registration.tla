---------------------------- MODULE Registration ----------------------------
(***************************************************************************)
(* The commands that bring logins into the registry: `cxi relogin`, which  *)
(* replaces the login of a saved account, `cxi add`, which saves a new     *)
(* browser login, and `cxi save-current`, which saves that of auth.json.   *)
(* Only the second half of a re-login holds the recovery operation lock;   *)
(* the other two take codex.lock for each change of accounts.json and let  *)
(* everybody in between, another command included.                         *)
(*                                                                         *)
(* A browser login waits in a private directory until it is stored: it is  *)
(* numbered, as the newest of its account, by the step that stores it.     *)
(***************************************************************************)
EXTENDS SharedAuth

CONSTANT Race   \* TRUE: another account may take over auth.json between the
                \* moment a command reads it and the moment it uses what it read

ASSUME RaceAssumption == Race \in BOOLEAN

VARIABLES
    rpc, rop,   \* the re-login
    apc, aop    \* `cxi add` or `cxi save-current`

reloginVars == <<rpc, rop>>
addVars == <<apc, aop>>
vars == <<sharedVars, reloginVars, addVars>>

IdleRelogin == [target |-> None, original |-> 0, isActive |-> FALSE, auth |-> None]

(* `login` is whose browser login is to be added, `tokens` what has been   *)
(* read from auth.json, `added` what went into the registry last, `first`  *)
(* that no account was active.                                             *)
IdleAdd == [login |-> None, tokens |-> None, added |-> None, first |-> FALSE]

NoAccounts == \A a \in Accounts : ~Registered(a)

Init ==
    /\ \/ SharedInit /\ active # None
       \/ /\ auth \in Maybe({Credential(a, 1) : a \in Accounts})
          /\ active = None /\ saved = [a \in Accounts |-> 0] /\ relogin = {}
          /\ desktop = "off" /\ session = None /\ marker = None
          /\ issued = [a \in Accounts |-> 1] /\ superseded = {}
    /\ rpc = "idle" /\ rop = IdleRelogin
    /\ apc = "idle" /\ aop = IdleAdd

Fresh(a) == Credential(a, issued[a] + 1)

(* The fresh login reaches a file.  One that only the registry holds is    *)
(* replaced by the next sync when auth.json keeps an older of its account. *)
Stores(a) ==
    /\ issued[a] < MaxVersion
    /\ issued' = [issued EXCEPT ![a] = @ + 1]
    /\ superseded' = IF auth' # None /\ auth'.acct = a /\ auth' # Fresh(a)
                     THEN superseded \union {a} ELSE superseded \ {a}

(* A quota poll finds the authorization of the polled tokens good or not.  *)
Inspected(a) == relogin' \in {relogin \ {a}, relogin \union {a}}

-----------------------------------------------------------------------------
(* relogin_account                                                         *)

ReloginReturn == rpc' = "idle" /\ rop' = IdleRelogin

ReloginStart(a) ==
    /\ rpc = "idle"
    /\ Registered(a)
    /\ active = a => ~WriterActive
    /\ rpc' = "browser"
    /\ rop' = [IdleRelogin EXCEPT !.target = a]
    /\ UNCHANGED <<sharedVars, addVars>>

(* The browser is done and the lock taken: the registry is read again.     *)
ReloginStage ==
    /\ rpc = "browser"
    /\ Registered(rop.target)
    /\ rop' = [rop EXCEPT !.original = saved[rop.target],
                          !.isActive = (active = rop.target)]
    /\ rpc' = IF active = rop.target THEN "read" ELSE "commit"
    /\ UNCHANGED <<sharedVars, addVars>>

(* validate_live_auth: auth.json belongs to the account of the re-login.   *)
ReloginRead ==
    /\ rpc = "read"
    /\ ~WriterActive
    /\ auth # None /\ auth.acct = rop.target
    /\ rop' = [rop EXCEPT !.auth = auth]
    /\ rpc' = "write"
    /\ UNCHANGED <<sharedVars, addVars>>

(* Mutant: whatever is in auth.json by now is replaced.                    *)
ReloginWriteUnchecked ==
    /\ rpc = "write"
    /\ ~WriterActive /\ auth # None
    /\ auth' = Fresh(rop.target)
    /\ Stores(rop.target)
    /\ rop' = [rop EXCEPT !.auth = auth']
    /\ rpc' = "commit"
    /\ UNCHANGED <<registryVars, processVars, addVars>>

(* compare_and_write_active_auth_json                                      *)
ReloginWrite ==
    /\ rpc = "write"
    /\ ~WriterActive
    /\ auth = rop.auth
    /\ auth' = Fresh(rop.target)
    /\ Stores(rop.target)
    /\ rop' = [rop EXCEPT !.auth = auth']
    /\ rpc' = "commit"
    /\ UNCHANGED <<registryVars, processVars, addVars>>

(* Mutant: auth.json is not read again under the registry lock.            *)
ReloginCommitActiveUnchecked ==
    /\ rpc = "commit" /\ rop.isActive
    /\ active = rop.target
    /\ saved' = [saved EXCEPT ![rop.target] = rop.auth.ver]
    /\ Inspected(rop.target)
    /\ ReloginReturn
    /\ UNCHANGED <<auth, active, processVars, outsideVars, addVars>>

(* ReloginRegistryCommitService::commit for the active account, with the   *)
(* read-back before it, which compares the same two documents.             *)
ReloginCommitActive ==
    /\ rpc = "commit" /\ rop.isActive
    /\ auth = rop.auth
    /\ active = rop.target
    /\ saved' = [saved EXCEPT ![rop.target] = rop.auth.ver]
    /\ Inspected(rop.target)
    /\ ReloginReturn
    /\ UNCHANGED <<auth, active, processVars, outsideVars, addVars>>

(* For another one, which must still have the tokens it had.               *)
ReloginCommitOther ==
    /\ rpc = "commit" /\ ~rop.isActive
    /\ active # rop.target
    /\ Registered(rop.target) /\ saved[rop.target] = rop.original
    /\ UNCHANGED <<auth, active, processVars, addVars>>
    /\ Stores(rop.target)
    /\ saved' = [saved EXCEPT ![rop.target] = issued'[rop.target]]
    /\ Inspected(rop.target)
    /\ ReloginReturn

(* A cancelled login, one of somebody else, a check that does not hold, a  *)
(* file that cannot be written; or the process dies.                       *)
ReloginFails ==
    /\ rpc # "idle"
    /\ ReloginReturn
    /\ UNCHANGED <<sharedVars, addVars>>

ReloginStep ==
    \/ \E a \in Accounts : ReloginStart(a)
    \/ ReloginStage \/ ReloginRead \/ ReloginWrite
    \/ ReloginCommitActive \/ ReloginCommitOther \/ ReloginFails

-----------------------------------------------------------------------------
(* login_and_add_account and save_current_as                               *)

AddReturn == apc' = "idle" /\ aop' = IdleAdd

SaveCurrent ==
    /\ apc = "idle"
    /\ auth # None
    /\ apc' = "save"
    /\ aop' = [IdleAdd EXCEPT !.tokens = auth]
    /\ UNCHANGED <<sharedVars, reloginVars>>

(* `codex login` has run.  A session that nobody saved is saved first.     *)
AddLogin(a) ==
    /\ apc = "idle"
    /\ IF NoAccounts /\ auth # None
       THEN /\ apc' = "save"
            /\ aop' = [IdleAdd EXCEPT !.login = a, !.tokens = auth]
       ELSE /\ apc' = "add"
            /\ aop' = [IdleAdd EXCEPT !.login = a, !.first = NoAccounts]
    /\ UNCHANGED <<sharedVars, reloginVars>>

(* add_account_to_accounts_file with preserve_active off: what was read    *)
(* from auth.json becomes the active account.                              *)
SaveTokens ==
    /\ apc = "save"
    /\ saved' = [saved EXCEPT ![aop.tokens.acct] = aop.tokens.ver]
    /\ active' = aop.tokens.acct
    /\ apc' = "inspect"
    /\ aop' = [aop EXCEPT !.added = aop.tokens]
    /\ UNCHANGED <<auth, relogin, processVars, outsideVars, reloginVars>>

(* Mutant: the account that is added never becomes active.                 *)
AddTokensPreserving ==
    /\ apc = "add"
    /\ UNCHANGED <<auth, active, relogin, processVars, reloginVars>>
    /\ Stores(aop.login)
    /\ saved' = [saved EXCEPT ![aop.login] = issued'[aop.login]]
    /\ apc' = "inspect"
    /\ aop' = [aop EXCEPT !.added = Fresh(aop.login), !.tokens = None]

(* With preserve_active: the fresh login becomes active when nothing is.   *)
AddTokens ==
    /\ apc = "add"
    /\ UNCHANGED <<auth, relogin, processVars, reloginVars>>
    /\ Stores(aop.login)
    /\ saved' = [saved EXCEPT ![aop.login] = issued'[aop.login]]
    /\ active' = IF active = None THEN aop.login ELSE active
    /\ apc' = "inspect"
    /\ aop' = [aop EXCEPT !.added = Fresh(aop.login), !.tokens = None]

(* The quota is polled without a lock and merged unless the tokens changed.*)
Inspect ==
    /\ apc = "inspect"
    /\ Registered(aop.added.acct)
    /\ IF saved[aop.added.acct] = aop.added.ver THEN Inspected(aop.added.acct)
                                                ELSE UNCHANGED relogin
    /\ \/ aop.login = None /\ AddReturn
       \/ /\ aop.login # None /\ aop.tokens # None
          /\ apc' = "add" /\ UNCHANGED aop
       \/ /\ aop.login # None /\ aop.tokens = None
          /\ IF aop.first THEN apc' = "first" /\ UNCHANGED aop ELSE AddReturn
    /\ UNCHANGED <<auth, active, saved, processVars, outsideVars, reloginVars>>

(* Nothing was active: the fresh login is to become that of auth.json too. *)
FirstCheck ==
    /\ apc = "first"
    /\ ~WriterActive /\ auth = None
    /\ apc' = "write"
    /\ UNCHANGED <<sharedVars, aop, reloginVars>>

(* write_active_auth_json compares neither auth.json nor the registry: what*)
(* was added may have been replaced by a newer login while it was polled.  *)
FirstWrite ==
    /\ apc = "write"
    /\ auth' = aop.added
    /\ superseded' = IF issued[auth'.acct] = auth'.ver THEN superseded
                     ELSE superseded \union {auth'.acct}
    /\ AddReturn
    /\ UNCHANGED <<registryVars, processVars, issued, reloginVars>>

AddFails ==
    /\ apc # "idle"
    /\ AddReturn
    /\ UNCHANGED <<sharedVars, reloginVars>>

AddStep ==
    \/ SaveCurrent \/ \E a \in Accounts : AddLogin(a)
    \/ SaveTokens \/ AddTokens \/ Inspect \/ FirstCheck \/ FirstWrite \/ AddFails

-----------------------------------------------------------------------------
(* Everybody else                                                          *)

(* A whole `cxi switch`, as DirectSwitch has it when nothing fails: the    *)
(* credentials of auth.json are saved and replaced by those of the target. *)
SwitchTo(t) ==
    /\ rpc \in {"idle", "browser"}
    /\ ~WriterActive
    /\ Registered(t) /\ t \notin relogin
    /\ IF auth = None
       THEN UNCHANGED <<saved, relogin>>
       ELSE /\ Registered(auth.acct) /\ auth.acct # t
            /\ saved' = [saved EXCEPT ![auth.acct] = auth.ver]
            /\ relogin' = IF saved' = saved THEN relogin ELSE relogin \ {auth.acct}
    /\ auth' = Credential(t, saved[t])
    /\ active' = t
    /\ UNCHANGED <<processVars, outsideVars>>

Unhindered == Race \/ apc \notin {"save", "write"}

Others ==
    /\ \/ UnlockedWriters
       \/ Rotate \/ UserLaunch \/ DesktopQuit \/ WriterQuit
       \/ Unhindered /\ (Logout \/ \E a \in Accounts : Login(a) \/ SwitchTo(a))
    /\ UNCHANGED <<reloginVars, addVars>>

Next == ReloginStep \/ AddStep \/ Others

Spec == Init /\ [][Next]_vars

-----------------------------------------------------------------------------
(* Properties                                                              *)

(* The type invariant; the registry has an active account exactly when it  *)
(* has an account.                                                         *)
TypeOK ==
    /\ SharedTypeOK
    /\ IF NoAccounts THEN active = None ELSE active # None /\ Registered(active)
    /\ rpc \in {"idle", "browser", "read", "write", "commit"}
    /\ rop \in [target : Maybe(Accounts), original : 0..MaxVersion,
                isActive : BOOLEAN, auth : Maybe(Credentials)]
    /\ apc \in {"idle", "save", "add", "inspect", "first", "write"}
    /\ aop \in [login : Maybe(Accounts), tokens : Maybe(Credentials),
                added : Maybe(Credentials), first : BOOLEAN]

Agree == auth # None /\ active # None => active = auth.acct

(* A step of a re-login never puts older tokens into the registry, and     *)
(* never makes the registry and auth.json name different accounts: whoever *)
(* logs in, rotates, syncs, switches or removes meanwhile, it gives way.   *)
(* (An added login whose account auth.json holds under an older one is     *)
(* lost in any case: the next sync replaces it.)                           *)
ReloginGivesWay ==
    [][rpc' # rpc => /\ \A a \in Accounts \ superseded : saved'[a] >= saved[a]
                     /\ Agree => Agree']_vars

=============================================================================
