----------------------------- MODULE SharedAuth -----------------------------
(***************************************************************************)
(* What every operation of the Monitor that moves credentials shares:      *)
(* auth.json, the accounts registry, ChatGPT Desktop with its session      *)
(* marker, and everybody who changes them without the recovery operation   *)
(* lock: the daemon, the registry commands, Desktop itself, the Codex CLI  *)
(* and the user.  DirectSwitch and Distribution add their own journal and  *)
(* their own steps.                                                        *)
(***************************************************************************)
EXTENDS Naturals

CONSTANTS
    Accounts,       \* saved account identities
    None,           \* no account, no credential, no journal
    MaxVersion,     \* bound on the token versions issued per account
    Logins,         \* TRUE: `codex login` and logout happen outside the Monitor
    Interference    \* TRUE: tokens rotate and accounts are polled and removed

ASSUME MaxVersionAssumption == MaxVersion \in Nat \ {0}
ASSUME EnvironmentAssumption == {Logins, Interference} \subseteq BOOLEAN

VARIABLES
    auth,           \* auth.json: a credential or None
    active,         \* accounts.json: active_account_id
    saved,          \* accounts.json: saved token version, 0 if not registered
    relogin,        \* accounts.json: accounts whose last_error needs a re-login
    desktop,        \* "off", "on", or "orphan": a bundled writer without its main
    session,        \* the account the live Desktop writer loaded
    marker,         \* the account desktop-app-session.json binds to that process
    issued,         \* newest token version the provider issued, per account
    superseded      \* accounts whose newest tokens an outside login replaced

registryVars == <<active, saved, relogin>>
processVars == <<desktop, session, marker>>
outsideVars == <<issued, superseded>>
sharedVars == <<auth, registryVars, processVars, outsideVars>>

-----------------------------------------------------------------------------
(* A credential is the token object of auth.json: whose it is and which    *)
(* rotation of it.  The rest of the document is carried unchanged.         *)
Credentials == [acct : Accounts, ver : 1..MaxVersion]
Credential(a, v) == [acct |-> a, ver |-> v]
Maybe(S) == S \union {None}

ASSUME NoneAssumption == None \notin Accounts \union Credentials

Registered(a) == saved[a] # 0
(* Mutant: only Desktop's main process counts as a writer.                 *)
MainProcessActive == desktop = "on"

WriterActive == desktop # "off"

SharedInit ==
    /\ \E a \in Accounts, others \in SUBSET Accounts :
         /\ a \in others
         /\ auth \in {None, Credential(a, 1)}
         /\ active = IF auth = None THEN None ELSE a
         /\ saved = [b \in Accounts |-> IF b \in others THEN 1 ELSE 0]
    /\ relogin = {}
    /\ desktop = "off" /\ session = None /\ marker = None
    /\ issued = [a \in Accounts |-> 1]
    /\ superseded = {}

-----------------------------------------------------------------------------
(* The steps the operations share                                          *)

(* Mutant: the registry records the credential as its active account.      *)
SyncRegistryWithCredential ==
    /\ auth # None /\ Registered(auth.acct)
    /\ active' = auth
    /\ UNCHANGED <<saved, relogin>>

(* ActiveAuthRegistrySyncService::reconcile under the registry lock: the   *)
(* account auth.json belongs to takes its tokens and becomes active.       *)
SyncRegistry ==
    /\ auth # None
    /\ Registered(auth.acct)
    /\ saved' = [saved EXCEPT ![auth.acct] = auth.ver]
    /\ active' = auth.acct
    /\ relogin' = IF saved[auth.acct] = auth.ver THEN relogin
                                                 ELSE relogin \ {auth.acct}

(* A Desktop that starts loads auth.json and makes an older marker stale.  *)
OpensDesktop ==
    /\ desktop' = "on"
    /\ session' = IF auth = None THEN None ELSE auth.acct
    /\ marker' = None

(* verified_cli_account_id: the registry's active account owns auth.json.  *)
VerifiedCli(a) == auth # None /\ Registered(auth.acct) /\ auth.acct = a /\ active = a

-----------------------------------------------------------------------------
(* The Monitor's other writers, none of which holds the operation lock     *)

(* DaemonAccountSyncService::sync_active_tokens; an unknown login is saved *)
(* as a new account.                                                       *)
DaemonSync ==
    /\ auth # None
    /\ \/ SyncRegistry
       \/ /\ ~Registered(auth.acct)
          /\ saved' = [saved EXCEPT ![auth.acct] = auth.ver]
          /\ active' = auth.acct
          /\ relogin' = relogin \ {auth.acct}
    /\ UNCHANGED <<auth, processVars, outsideVars>>

(* A quota poll of one account records or clears an authorization error.   *)
QuotaPoll(a) ==
    /\ Interference
    /\ Registered(a)
    /\ \E errors \in SUBSET {a} : relogin' = (relogin \ {a}) \union errors
    /\ UNCHANGED <<auth, active, saved, processVars, outsideVars>>

(* remove_account: the first remaining account becomes active.             *)
Remove(a) ==
    /\ Interference
    /\ Registered(a)
    /\ saved' = [saved EXCEPT ![a] = 0]
    /\ relogin' = relogin \ {a}
    /\ LET remaining == {b \in Accounts : saved'[b] # 0}
       IN active' \in IF active \in remaining THEN {active}
                      ELSE IF remaining = {} THEN {None} ELSE remaining
    /\ UNCHANGED <<auth, processVars, outsideVars>>

(* Browser re-login of an account that is not the registry's active one,   *)
(* under the operation lock: its users let it run only while that is free. *)
(* auth.json is not consulted: when it holds an older login of that        *)
(* account, the next sync puts that login back.                            *)
Relogin(a) ==
    /\ Interference
    /\ Registered(a) /\ active # a
    /\ issued[a] < MaxVersion
    /\ issued' = [issued EXCEPT ![a] = @ + 1]
    /\ saved' = [saved EXCEPT ![a] = issued'[a]]
    /\ relogin' = relogin \ {a}
    /\ superseded' = IF auth # None /\ auth.acct = a THEN superseded \union {a}
                                                    ELSE superseded \ {a}
    /\ UNCHANGED <<auth, active, processVars>>

(* DesktopExternalBindingService: under the operation lock, the daemon     *)
(* binds a Desktop somebody else started to the account whose unchanged    *)
(* credentials that process must have loaded.                              *)
InferBinding ==
    /\ desktop = "on" /\ marker = None
    /\ active # None /\ VerifiedCli(active)
    /\ saved[active] = auth.ver /\ session = active
    /\ marker' = active
    /\ UNCHANGED <<auth, registryVars, desktop, session, outsideVars>>

UnlockedWriters == DaemonSync \/ \E a \in Accounts : QuotaPoll(a) \/ Remove(a)

-----------------------------------------------------------------------------
(* ChatGPT Desktop, the Codex CLI and the user                             *)

(* Whoever holds auth.json refreshes it: the old refresh token is spent.   *)
Rotate ==
    /\ Interference
    /\ auth # None
    /\ auth.ver = issued[auth.acct] /\ auth.ver < MaxVersion
    /\ issued' = [issued EXCEPT ![auth.acct] = @ + 1]
    /\ auth' = [auth EXCEPT !.ver = @ + 1]
    /\ UNCHANGED <<registryVars, processVars, superseded>>

(* The credential an outside login or logout throws away.                  *)
Discarded(a) == auth # None /\ auth.acct = a /\ saved[a] # auth.ver

Login(a) ==
    /\ Logins
    /\ desktop # "orphan"
    /\ issued[a] < MaxVersion
    /\ issued' = [issued EXCEPT ![a] = @ + 1]
    /\ auth' = Credential(a, issued'[a])
    /\ session' = IF desktop = "on" THEN a ELSE None
    /\ superseded' = (superseded \union {b \in Accounts : Discarded(b)}) \ {a}
    /\ UNCHANGED <<registryVars, desktop, marker>>

Logout ==
    /\ Logins
    /\ desktop # "orphan"
    /\ auth # None
    /\ auth' = None
    /\ session' = None
    /\ superseded' = superseded \union {b \in Accounts : Discarded(b)}
    /\ UNCHANGED <<registryVars, desktop, marker, issued>>

UserLaunch ==
    /\ desktop # "on"
    /\ OpensDesktop
    /\ UNCHANGED <<auth, registryVars, outsideVars>>

(* Desktop's main process ends, with its bundled writer or before it.      *)
DesktopQuit ==
    /\ desktop = "on"
    /\ desktop' \in {"off", "orphan"}
    /\ session' = IF desktop' = "off" THEN None ELSE session
    /\ marker' = None
    /\ UNCHANGED <<auth, registryVars, outsideVars>>

WriterQuit ==
    /\ desktop = "orphan"
    /\ desktop' = "off" /\ session' = None
    /\ UNCHANGED <<auth, registryVars, marker, outsideVars>>

-----------------------------------------------------------------------------
(* Properties                                                              *)

(* The shared files and processes hold what their formats allow.           *)
SharedTypeOK ==
    /\ auth \in Maybe(Credentials)
    /\ active \in Maybe(Accounts)
    /\ saved \in [Accounts -> 0..MaxVersion]
    /\ relogin \subseteq Accounts
    /\ desktop \in {"off", "on", "orphan"}
    /\ session \in Maybe(Accounts)
    /\ marker \in Maybe(Accounts)
    /\ issued \in [Accounts -> 1..MaxVersion]
    /\ superseded \subseteq Accounts

(* The newest tokens the provider issued for a registered account are      *)
(* always in the registry or in auth.json: no interleaving of an operation,*)
(* its rollback, the daemon's sync and a crash overwrites the only copy.   *)
CredentialCustody ==
    \A a \in Accounts \ superseded : Registered(a) =>
        saved[a] = issued[a] \/ auth = Credential(a, issued[a])

(* No split brain: a live Desktop and auth.json name the same account.     *)
DesktopAgrees ==
    session # None /\ auth # None => session = auth.acct

(* The marker names the account the process it is bound to has loaded.     *)
MarkerTruth == marker # None => marker = session

(* CODEX.md: re-login and daemon sync use the same fresh locked merge, so  *)
(* that no save restores an old refresh token.                             *)
NoRefreshTokenRegression ==
    [][\A a \in Accounts : saved'[a] # 0 => saved'[a] >= saved[a]]_sharedVars

=============================================================================
