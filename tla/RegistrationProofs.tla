------------------------- MODULE RegistrationProofs -------------------------
(***************************************************************************)
(* Proofs about Registration for every set of accounts and every bound.    *)
(***************************************************************************)
EXTENDS Registration, SharedAuthProofs

(* What the commands carry from step to step.                              *)
CommandInv ==
    /\ rpc # "idle" => rop.target \in Accounts
    /\ rpc = "write" \/ (rpc = "commit" /\ rop.isActive) =>
          rop.auth # None /\ rop.auth.acct = rop.target
    /\ apc \in {"add", "first", "write"} => aop.login \in Accounts
    /\ apc = "save" => aop.tokens # None
    /\ apc \in {"inspect", "first", "write"} => aop.added # None

TypeInv == TypeOK /\ CommandInv

(* No version is ahead of the newest one of its account.                   *)
Known(c) == c # None => c.ver <= issued[c.acct]

VersionInv ==
    /\ \A a \in Accounts : saved[a] <= issued[a]
    /\ Known(auth) /\ Known(rop.auth) /\ Known(aop.tokens) /\ Known(aop.added)

(* auth.json holds the newest tokens of its account.                       *)
AuthNewest == auth # None /\ auth.acct \notin superseded => auth.ver = issued[auth.acct]

(* Nobody else's account takes over auth.json under a command that read it.*)
HeldInv ==
    /\ apc = "save" => auth # None /\ auth.acct = aop.tokens.acct
    /\ apc = "write" => auth = None

CustodyInv == VersionInv /\ CredentialCustody /\ AuthNewest /\ HeldInv

-----------------------------------------------------------------------------
(* Types                                                                   *)

LEMMA IdleTyped ==
    /\ IdleRelogin \in [target : Maybe(Accounts), original : 0..MaxVersion,
                        isActive : BOOLEAN, auth : Maybe(Credentials)]
    /\ IdleAdd \in [login : Maybe(Accounts), tokens : Maybe(Credentials),
                    added : Maybe(Credentials), first : BOOLEAN]
  BY MaxVersionAssumption DEF IdleRelogin, IdleAdd, Maybe

(* Storing a login issues a real version of it.                            *)
LEMMA StoresTyped ==
    ASSUME SharedTypeOK, NEW a \in Accounts, Stores(a)
    PROVE  /\ Fresh(a) \in Credentials /\ Fresh(a) # None
           /\ Fresh(a).acct = a /\ Fresh(a).ver = issued'[a]
           /\ issued'[a] = issued[a] + 1 /\ issued'[a] \in 1..MaxVersion
           /\ \A b \in Accounts \ {a} : issued'[b] = issued[b]
           /\ issued' \in [Accounts -> 1..MaxVersion]
           /\ superseded' \subseteq Accounts
<1>1. issued \in [Accounts -> 1..MaxVersion] /\ issued[a] \in 1..MaxVersion
  BY DEF SharedTypeOK
<1>2. issued[a] + 1 \in 1..MaxVersion
  BY <1>1, MaxVersionAssumption DEF Stores
<1>. QED
  BY <1>1, <1>2, NoneAssumption DEF Stores, SharedTypeOK, Fresh, Credential, Credentials

(* The initial states are well typed.                                      *)
THEOREM TypeInitial == Init => TypeInv
<1>. SUFFICES ASSUME Init PROVE TypeInv
  OBVIOUS
<1>. USE MaxVersionAssumption, NoneAssumption
<1>1. rpc = "idle" /\ rop = IdleRelogin /\ apc = "idle" /\ aop = IdleAdd
  BY DEF Init
<1>2. CommandInv
  BY <1>1 DEF CommandInv
<1>3. CASE SharedInit /\ active # None
  <2>1. PICK a \in Accounts, others \in SUBSET Accounts :
           /\ a \in others
           /\ auth \in {None, Credential(a, 1)}
           /\ active = IF auth = None THEN None ELSE a
           /\ saved = [b \in Accounts |-> IF b \in others THEN 1 ELSE 0]
    BY <1>3 DEF SharedInit
  <2>2. auth \in Maybe(Credentials) /\ active = a
    BY <1>3, <2>1 DEF Maybe, Credentials, Credential
  <2>3. SharedTypeOK
    BY <1>3, <2>1, <2>2 DEF SharedInit, SharedTypeOK, Maybe
  <2>4. active # None /\ Registered(active) /\ ~NoAccounts
    BY <2>1, <2>2 DEF Registered, NoAccounts
  <2>. QED
    BY <1>1, <1>2, <2>3, <2>4, IdleTyped DEF TypeInv, TypeOK
<1>4. CASE /\ auth \in Maybe({Credential(a, 1) : a \in Accounts})
           /\ active = None /\ saved = [a \in Accounts |-> 0] /\ relogin = {}
           /\ desktop = "off" /\ session = None /\ marker = None
           /\ issued = [a \in Accounts |-> 1] /\ superseded = {}
  <2>1. auth \in Maybe(Credentials)
    BY <1>4 DEF Maybe, Credentials, Credential
  <2>2. SharedTypeOK /\ NoAccounts
    BY <1>4, <2>1 DEF SharedTypeOK, Maybe, NoAccounts, Registered
  <2>. QED
    BY <1>1, <1>2, <1>4, <2>2, IdleTyped DEF TypeInv, TypeOK
<1>. QED
  BY <1>3, <1>4 DEF Init

(* The registry names an active account exactly when it has accounts.      *)
ActiveOK == IF NoAccounts THEN active = None ELSE active # None /\ Registered(active)

LEMMA ActiveRegistered ==
    ASSUME SharedTypeOK', NEW a \in Accounts, saved'[a] # 0, active' = a
    PROVE  ActiveOK'
  BY NoneAssumption DEF ActiveOK, NoAccounts, Registered

(* Steps of a re-login keep the types.                                     *)
LEMMA ReloginTyped ==
    ASSUME TypeInv, ReloginStep
    PROVE  TypeInv'
<1>. USE MaxVersionAssumption, NoneAssumption
     DEF TypeInv, TypeOK, CommandInv, registryVars, processVars, outsideVars,
         sharedVars, addVars
<1>1. CASE \E a \in Accounts : ReloginStart(a)
  <2>. PICK a \in Accounts : ReloginStart(a)
    BY <1>1
  <2>1. /\ rop' \in [target : Maybe(Accounts), original : 0..MaxVersion,
                     isActive : BOOLEAN, auth : Maybe(Credentials)]
        /\ rop'.target = a /\ rpc' = "browser"
    BY IdleTyped DEF ReloginStart, IdleRelogin, Maybe
  <2>2. UNCHANGED <<sharedVars, addVars>>
    BY DEF ReloginStart
  <2>. QED
    BY <2>1, <2>2 DEF SharedTypeOK, NoAccounts, Registered
<1>2. CASE ReloginStage
  <2>1. /\ rop.target \in Accounts /\ saved[rop.target] \in 0..MaxVersion
        /\ rpc' \in {"read", "commit"} /\ (rpc' = "commit" => active # rop.target)
    BY <1>2 DEF ReloginStage, SharedTypeOK
  <2>2. /\ rop' \in [target : Maybe(Accounts), original : 0..MaxVersion,
                     isActive : BOOLEAN, auth : Maybe(Credentials)]
        /\ rop'.target = rop.target /\ rop'.isActive = (active = rop.target)
    BY <1>2, <2>1 DEF ReloginStage
  <2>. QED
    BY <1>2, <2>1, <2>2 DEF ReloginStage, SharedTypeOK, NoAccounts, Registered
<1>3. CASE ReloginRead
  BY <1>3 DEF ReloginRead, SharedTypeOK, Maybe, NoAccounts, Registered
<1>4. CASE ReloginWrite
  <2>1. Stores(rop.target) /\ rop.target \in Accounts
    BY <1>4 DEF ReloginWrite
  <2>2. /\ auth' \in Credentials /\ auth' # None /\ auth'.acct = rop.target
        /\ issued' \in [Accounts -> 1..MaxVersion] /\ superseded' \subseteq Accounts
    BY <1>4, <2>1, StoresTyped DEF ReloginWrite
  <2>. QED
    BY <1>4, <2>2 DEF ReloginWrite, SharedTypeOK, Maybe, NoAccounts, Registered
<1>5. CASE ReloginCommitActive
  <2>1. /\ rop.target \in Accounts /\ rop.auth \in Credentials
        /\ rop.auth.ver \in 1..MaxVersion
    BY <1>5 DEF ReloginCommitActive, Maybe, Credentials
  <2>2. SharedTypeOK'
    BY <1>5, <2>1 DEF ReloginCommitActive, Inspected, SharedTypeOK
  <2>3. ActiveOK'
    BY <1>5, <2>1, <2>2, ActiveRegistered DEF ReloginCommitActive, SharedTypeOK
  <2>. QED
    BY <1>5, <2>2, <2>3, IdleTyped DEF ReloginCommitActive, ReloginReturn, ActiveOK
<1>6. CASE ReloginCommitOther
  <2>1. rop.target \in Accounts /\ Stores(rop.target)
    BY <1>6 DEF ReloginCommitOther
  <2>2. /\ issued'[rop.target] \in 1..MaxVersion /\ superseded' \subseteq Accounts
        /\ issued' \in [Accounts -> 1..MaxVersion]
    <3>1. SharedTypeOK
      OBVIOUS
    <3>. QED
      BY ONLY <2>1, <3>1, StoresTyped
  <2>3. SharedTypeOK'
    <3>1. saved' \in [Accounts -> 0..MaxVersion]
      BY <1>6, <2>1, <2>2 DEF ReloginCommitOther, SharedTypeOK
    <3>2. relogin' \subseteq Accounts
      BY <1>6, <2>1 DEF ReloginCommitOther, Inspected, SharedTypeOK
    <3>. QED
      BY <1>6, <2>2, <3>1, <3>2 DEF ReloginCommitOther, SharedTypeOK, Maybe
  <2>4. active \in Accounts /\ saved'[active] # 0
    BY <1>6, <2>1, <2>2 DEF ReloginCommitOther, NoAccounts, Registered, SharedTypeOK, Maybe
  <2>5. ActiveOK'
    BY <1>6, <2>3, <2>4, ActiveRegistered DEF ReloginCommitOther
  <2>. QED
    BY <1>6, <2>3, <2>5, IdleTyped DEF ReloginCommitOther, ReloginReturn, ActiveOK
<1>7. CASE ReloginFails
  BY <1>7, IdleTyped DEF ReloginFails, ReloginReturn, SharedTypeOK, NoAccounts, Registered
<1>. QED
  BY <1>1, <1>2, <1>3, <1>4, <1>5, <1>6, <1>7 DEF ReloginStep

(* Steps of the other two commands keep the types.                         *)
LEMMA AddTyped ==
    ASSUME TypeInv, AddStep
    PROVE  TypeInv'
<1>. USE MaxVersionAssumption, NoneAssumption
     DEF TypeInv, TypeOK, CommandInv, registryVars, processVars, outsideVars,
         sharedVars, reloginVars
<1>1. CASE SaveCurrent
  <2>1. /\ aop' \in [login : Maybe(Accounts), tokens : Maybe(Credentials),
                     added : Maybe(Credentials), first : BOOLEAN]
        /\ aop'.tokens # None
    BY <1>1, IdleTyped DEF SaveCurrent, SharedTypeOK, IdleAdd
  <2>. QED
    BY <1>1, <2>1 DEF SaveCurrent, SharedTypeOK, NoAccounts, Registered
<1>2. CASE \E a \in Accounts : AddLogin(a)
  <2>. PICK a \in Accounts : AddLogin(a)
    BY <1>2
  <2>1. NoAccounts \in BOOLEAN
    BY DEF NoAccounts
  <2>2. /\ aop' \in [login : Maybe(Accounts), tokens : Maybe(Credentials),
                     added : Maybe(Credentials), first : BOOLEAN]
        /\ aop'.login = a
        /\ (apc' = "save" /\ aop'.tokens # None) \/ apc' = "add"
    <3>1. CASE NoAccounts /\ auth # None
      <4>1. apc' = "save" /\ aop' = [IdleAdd EXCEPT !.login = a, !.tokens = auth]
        BY <3>1 DEF AddLogin
      <4>. QED
        BY <3>1, <4>1 DEF SharedTypeOK, IdleAdd, Maybe
    <3>2. CASE ~(NoAccounts /\ auth # None)
      BY <2>1, <3>2 DEF AddLogin, IdleAdd, Maybe
    <3>. QED
      BY <3>1, <3>2
  <2>3. UNCHANGED <<sharedVars, reloginVars>>
    BY DEF AddLogin
  <2>. QED
    BY <2>2, <2>3 DEF SharedTypeOK, NoAccounts, Registered
<1>3. CASE SaveTokens
  <2>1. /\ aop.tokens \in Credentials /\ aop.tokens.acct \in Accounts
        /\ aop.tokens.ver \in 1..MaxVersion
    BY <1>3 DEF SaveTokens, Maybe, Credentials
  <2>2. SharedTypeOK'
    BY <1>3, <2>1 DEF SaveTokens, SharedTypeOK, Maybe
  <2>3. ActiveOK'
    BY <1>3, <2>1, <2>2, ActiveRegistered DEF SaveTokens, SharedTypeOK
  <2>. QED
    BY <1>3, <2>1, <2>2, <2>3 DEF SaveTokens, ActiveOK
<1>4. CASE AddTokens
  <2>1. aop.login \in Accounts /\ Stores(aop.login) /\ SharedTypeOK
    BY <1>4 DEF AddTokens
  <2>2. /\ issued'[aop.login] \in 1..MaxVersion /\ superseded' \subseteq Accounts
        /\ issued' \in [Accounts -> 1..MaxVersion]
        /\ Fresh(aop.login) \in Credentials /\ Fresh(aop.login) # None
    BY ONLY <2>1, StoresTyped
  <2>3. SharedTypeOK'
    BY <1>4, <2>1, <2>2 DEF AddTokens, SharedTypeOK, Maybe
  <2>4. active' \in Accounts /\ saved'[active'] # 0
    BY <1>4, <2>1, <2>2 DEF AddTokens, NoAccounts, Registered, SharedTypeOK, Maybe
  <2>5. ActiveOK'
    BY <2>3, <2>4, ActiveRegistered
  <2>. QED
    BY <1>4, <2>1, <2>2, <2>3, <2>5 DEF AddTokens, ActiveOK, Maybe
<1>5. CASE Inspect
  <2>1. aop.added \in Credentials /\ aop.added.acct \in Accounts
    BY <1>5 DEF Inspect, Maybe, Credentials
  <2>2. SharedTypeOK'
    BY <1>5, <2>1 DEF Inspect, Inspected, SharedTypeOK
  <2>3. NoAccounts' = NoAccounts /\ (active # None => Registered(active)' = Registered(active))
    BY <1>5 DEF Inspect, NoAccounts, Registered
  <2>4. /\ aop' \in {aop, IdleAdd} /\ apc' \in {"idle", "add", "first"}
        /\ apc' # "idle" => aop' = aop /\ aop.login # None
    BY <1>5 DEF Inspect, AddReturn
  <2>. QED
    BY <1>5, <2>2, <2>3, <2>4, IdleTyped DEF Inspect, Maybe
<1>6. CASE FirstCheck
  BY <1>6 DEF FirstCheck, SharedTypeOK, NoAccounts, Registered
<1>7. CASE FirstWrite
  <2>1. aop.added \in Credentials /\ aop.added.acct \in Accounts
    BY <1>7 DEF FirstWrite, Maybe, Credentials
  <2>2. SharedTypeOK'
    BY <1>7, <2>1 DEF FirstWrite, SharedTypeOK, Maybe
  <2>. QED
    BY <1>7, <2>2, IdleTyped DEF FirstWrite, AddReturn, NoAccounts, Registered
<1>8. CASE AddFails
  BY <1>8, IdleTyped DEF AddFails, AddReturn, SharedTypeOK, NoAccounts, Registered
<1>. QED
  BY <1>1, <1>2, <1>3, <1>4, <1>5, <1>6, <1>7, <1>8 DEF AddStep

(* And so do everybody else's.                                             *)
LEMMA OthersTyped ==
    ASSUME TypeInv, Others
    PROVE  TypeInv'
<1>. USE MaxVersionAssumption, NoneAssumption
<1>1. SharedTypeOK /\ ActiveOK
  BY DEF TypeInv, TypeOK, ActiveOK
<1>2. CASE \E a \in Accounts : SwitchTo(a)
  <2>. PICK t \in Accounts : SwitchTo(t)
    BY <1>2
  <2>1. auth # None => auth.acct \in Accounts /\ auth.ver \in 1..MaxVersion
    BY <1>1 DEF SharedTypeOK, Maybe, Credentials
  <2>2. saved[t] \in 1..MaxVersion /\ Credential(t, saved[t]) \in Credentials
    BY <1>1 DEF SwitchTo, Registered, SharedTypeOK, Credential, Credentials
  <2>3. SharedTypeOK'
    BY <1>1, <2>1, <2>2 DEF SwitchTo, SharedTypeOK, Maybe, processVars, outsideVars
  <2>4. saved'[t] # 0 /\ active' = t
    BY <1>1, <2>1, <2>2 DEF SwitchTo, SharedTypeOK
  <2>5. ActiveOK'
    BY <2>3, <2>4, ActiveRegistered
  <2>. QED
    BY <2>3, <2>5 DEF Others, TypeInv, TypeOK, ActiveOK, CommandInv, reloginVars, addVars
<1>3. CASE ~\E a \in Accounts : SwitchTo(a)
  <2>0. \/ UnlockedWriters \/ Rotate \/ Logout
        \/ UserLaunch \/ DesktopQuit \/ WriterQuit
        \/ \E a \in Accounts : Login(a)
    BY <1>3 DEF Others
  <2>1. SharedTypeOK'
    BY <1>1, <2>0, SharedStep DEF Bystanders, Insiders, Outsiders
  <2>2. ASSUME DaemonSync PROVE ActiveOK'
    <3>1. auth.acct \in Accounts /\ saved'[auth.acct] # 0 /\ active' = auth.acct
      BY <1>1, <2>2 DEF DaemonSync, SyncRegistry, SharedTypeOK, Maybe, Credentials
    <3>. QED
      BY <2>1, <3>1, ActiveRegistered
  <2>3. ASSUME \E a \in Accounts : Remove(a) PROVE ActiveOK'
    <3>. PICK a \in Accounts : Remove(a)
      BY <2>3
    <3>1. saved' = [saved EXCEPT ![a] = 0] /\ saved[a] # 0
      BY DEF Remove, Registered
    <3>2. active # None
      BY <1>1, <3>1 DEF ActiveOK, NoAccounts, Registered
    <3>3. CASE \A b \in Accounts : saved'[b] = 0
      BY <1>1, <3>2, <3>3 DEF Remove, ActiveOK, NoAccounts, Registered
    <3>4. CASE \E b \in Accounts : saved'[b] # 0
      <4>1. active' \in Accounts /\ saved'[active'] # 0
        BY <3>4 DEF Remove
      <4>. QED
        BY <2>1, <4>1, ActiveRegistered
    <3>. QED
      BY <3>3, <3>4
  <2>4. ASSUME \/ \E a \in Accounts : QuotaPoll(a) \/ Login(a)
               \/ Rotate \/ Logout \/ UserLaunch \/ DesktopQuit \/ WriterQuit
        PROVE  ActiveOK'
    <3>1. UNCHANGED <<active, saved>>
      BY <2>4 DEF QuotaPoll, Login, Rotate, Logout, UserLaunch, DesktopQuit, WriterQuit, registryVars
    <3>. QED
      BY <1>1, <3>1 DEF ActiveOK, NoAccounts, Registered
  <2>5. ActiveOK'
    BY <2>0, <2>2, <2>3, <2>4 DEF UnlockedWriters
  <2>. QED
    BY <2>1, <2>5 DEF Others, TypeInv, TypeOK, ActiveOK, CommandInv, reloginVars, addVars
<1>. QED
  BY <1>2, <1>3

(* Every step keeps the types.                                             *)
THEOREM TypeStep == TypeInv /\ [Next]_vars => TypeInv'
<1>. SUFFICES ASSUME TypeInv, [Next]_vars PROVE TypeInv'
  OBVIOUS
<1>1. CASE UNCHANGED vars
  BY <1>1 DEF vars, sharedVars, registryVars, processVars, outsideVars, reloginVars,
     addVars, TypeInv, TypeOK, SharedTypeOK, CommandInv, NoAccounts, Registered
<1>. QED
  BY <1>1, ReloginTyped, AddTyped, OthersTyped DEF Next

(* The registry and the commands always hold what their formats and the    *)
(* steps of the code allow, and the registry has an active account exactly *)
(* when it has accounts.                                                   *)
THEOREM TypeCorrect == Spec => []TypeOK
<1>1. TypeInv => TypeOK
  BY DEF TypeInv
<1>. QED
  BY <1>1, TypeInitial, TypeStep, PTL DEF Spec

-----------------------------------------------------------------------------
(* Custody of the newest tokens                                            *)

(* What the steps below rely on, in the types' own terms.                  *)
LEMMA Facts ==
    ASSUME TypeInv
    PROVE  /\ auth # None => auth.acct \in Accounts /\ auth.ver \in 1..MaxVersion
           /\ saved \in [Accounts -> 0..MaxVersion]
           /\ issued \in [Accounts -> 1..MaxVersion]
           /\ superseded \subseteq Accounts
           /\ auth # None => auth = Credential(auth.acct, auth.ver)
           /\ rop.auth # None => rop.auth \in Credentials
           /\ aop.tokens # None => aop.tokens \in Credentials
           /\ aop.added # None => aop.added \in Credentials
  BY DEF TypeInv, TypeOK, SharedTypeOK, Maybe, Credentials, Credential

(* The initial states have every newest token in a file.                   *)
THEOREM CustodyInitial == Init => CustodyInv
<1>. SUFFICES ASSUME Init PROVE CustodyInv
  OBVIOUS
<1>1. /\ \A a \in Accounts : issued[a] = 1 /\ saved[a] \in {0, 1}
      /\ auth # None => auth.acct \in Accounts /\ auth.ver = 1
  <2>1. CASE SharedInit
    <3>1. PICK a \in Accounts, others \in SUBSET Accounts :
             /\ auth \in {None, Credential(a, 1)}
             /\ saved = [b \in Accounts |-> IF b \in others THEN 1 ELSE 0]
      BY <2>1 DEF SharedInit
    <3>. QED
      BY <2>1, <3>1 DEF SharedInit, Credential
  <2>2. CASE ~SharedInit
    <3>1. auth \in Maybe({Credential(a, 1) : a \in Accounts})
      BY <2>2 DEF Init
    <3>2. auth # None => auth.acct \in Accounts /\ auth.ver = 1
      BY <3>1 DEF Maybe, Credential
    <3>3. saved = [a \in Accounts |-> 0] /\ issued = [a \in Accounts |-> 1]
      BY <2>2 DEF Init
    <3>. QED
      BY <3>2, <3>3
  <2>. QED
    BY <2>1, <2>2
<1>2. /\ rop.auth = None /\ aop.tokens = None /\ aop.added = None /\ apc = "idle"
  BY DEF Init, IdleRelogin, IdleAdd
<1>. QED
  BY <1>1, <1>2
     DEF CustodyInv, VersionInv, Known, CredentialCustody, AuthNewest, HeldInv, Registered

(* A login that is stored is the newest, and known.                        *)
LEMMA StoredNewest ==
    ASSUME TypeInv, VersionInv, NEW a \in Accounts, Stores(a)
    PROVE  /\ Fresh(a) = Credential(a, issued'[a]) /\ Fresh(a).acct = a
           /\ Fresh(a).ver = issued'[a]
           /\ \A b \in Accounts : issued[b] <= issued'[b] /\ (b # a => issued'[b] = issued[b])
           /\ superseded' = IF auth' # None /\ auth'.acct = a /\ auth' # Fresh(a)
                            THEN superseded \union {a} ELSE superseded \ {a}
           /\ \A c \in Credentials : c.ver <= issued[c.acct] => c.ver <= issued'[c.acct]
           /\ issued' \in [Accounts -> 1..MaxVersion]
<1>1. issued \in [Accounts -> 1..MaxVersion] /\ SharedTypeOK
  BY DEF TypeInv, TypeOK, SharedTypeOK
<1>2. /\ Fresh(a).acct = a /\ Fresh(a).ver = issued'[a]
      /\ issued'[a] = issued[a] + 1
      /\ \A b \in Accounts \ {a} : issued'[b] = issued[b]
      /\ issued' \in [Accounts -> 1..MaxVersion]
  BY <1>1, StoresTyped
<1>3. \A b \in Accounts : issued[b] <= issued'[b]
  <2>. TAKE b \in Accounts
  <2>. issued[b] \in Nat
    BY <1>1
  <2>. QED
    BY <1>2
<1>4. \A c \in Credentials : c.ver <= issued[c.acct] => c.ver <= issued'[c.acct]
  <2>. TAKE c \in Credentials
  <2>. c.acct \in Accounts /\ c.ver \in Nat
    BY DEF Credentials
  <2>. issued[c.acct] \in Nat /\ issued'[c.acct] \in Nat
    BY <1>1, <1>2
  <2>. QED
    BY <1>3
<1>. QED
  BY <1>2, <1>3, <1>4 DEF Fresh, Credential, Stores

(* Steps of a re-login keep the newest tokens.                             *)
LEMMA ReloginKeepsCustody ==
    ASSUME TypeInv, CustodyInv, ReloginStep
    PROVE  CustodyInv'
<1>. USE Facts, NoneAssumption
     DEF CustodyInv, VersionInv, Known, CredentialCustody, AuthNewest, HeldInv,
         registryVars, processVars, outsideVars, sharedVars, addVars
<1>1. CASE \/ \E a \in Accounts : ReloginStart(a)
           \/ ReloginStage \/ ReloginRead \/ ReloginFails
  <2>1. UNCHANGED <<auth, saved, issued, superseded, apc, aop>>
    BY <1>1 DEF ReloginStart, ReloginStage, ReloginRead, ReloginFails
  <2>2. TypeOK
    BY DEF TypeInv
  <2>3. rop'.auth \in {None, auth, rop.auth}
    <3>1. ASSUME NEW a \in Accounts, ReloginStart(a) PROVE rop'.auth = None
      BY <3>1 DEF ReloginStart, IdleRelogin
    <3>2. ASSUME ReloginStage PROVE rop'.auth = rop.auth
      BY <2>2, <3>2 DEF ReloginStage, TypeOK
    <3>3. ASSUME ReloginRead PROVE rop'.auth = auth
      BY <2>2, <3>3 DEF ReloginRead, TypeOK
    <3>4. ASSUME ReloginFails PROVE rop'.auth = None
      BY <3>4 DEF ReloginFails, ReloginReturn, IdleRelogin
    <3>. QED
      BY <1>1, <3>1, <3>2, <3>3, <3>4
  <2>. QED
    BY <2>1, <2>3 DEF Registered
<1>2. CASE ReloginWrite
  <2>. DEFINE t == rop.target
  <2>1. t \in Accounts /\ Stores(t) /\ auth # None /\ auth.acct = t
    BY <1>2 DEF ReloginWrite, TypeInv, CommandInv
  <2>2. /\ auth' = Credential(t, issued'[t]) /\ auth'.acct = t /\ auth'.ver = issued'[t]
        /\ rop'.auth = auth' /\ saved' = saved /\ aop' = aop /\ apc' = apc
        /\ auth' # None /\ superseded' = superseded \ {t}
    BY <1>2, <2>1, StoredNewest, StoresTyped DEF ReloginWrite, TypeInv, TypeOK
  <2>3. VersionInv'
    BY <2>1, <2>2, StoredNewest
  <2>4. CredentialCustody'
    BY <2>1, <2>2, StoredNewest DEF Registered, Credential
  <2>. QED
    BY <2>1, <2>2, <2>3, <2>4
<1>3. CASE ReloginCommitActive
  <2>1. /\ rop.target \in Accounts /\ auth # None /\ auth.acct = rop.target
        /\ saved' = [saved EXCEPT ![auth.acct] = auth.ver]
        /\ UNCHANGED <<auth, issued, superseded, aop, apc>> /\ rop'.auth = None
    BY <1>3 DEF ReloginCommitActive, ReloginReturn, IdleRelogin, TypeInv, CommandInv
  <2>. QED
    BY <2>1 DEF Registered
<1>4. CASE ReloginCommitOther
  <2>. DEFINE t == rop.target
  <2>1. t \in Accounts /\ Stores(t)
    BY <1>4 DEF ReloginCommitOther, TypeInv, CommandInv
  <2>2. /\ saved' = [saved EXCEPT ![t] = issued'[t]]
        /\ UNCHANGED <<auth, aop, apc>> /\ rop'.auth = None
    BY <1>4 DEF ReloginCommitOther, ReloginReturn, IdleRelogin
  <2>3. VersionInv'
    BY <2>1, <2>2, StoredNewest
  <2>4. CredentialCustody'
    BY <2>1, <2>2, StoredNewest DEF Registered
  <2>5. AuthNewest'
    BY <2>1, <2>2, StoredNewest
  <2>. QED
    BY <2>2, <2>3, <2>4, <2>5
<1>. QED
  BY <1>1, <1>2, <1>3, <1>4 DEF ReloginStep

(* Steps of the other two commands keep them: what `save` writes belongs   *)
(* to the account auth.json still holds, which keeps newer tokens itself.  *)
LEMMA AddKeepsCustody ==
    ASSUME TypeInv, CustodyInv, AddStep
    PROVE  CustodyInv'
<1>. USE Facts, NoneAssumption
     DEF CustodyInv, VersionInv, Known, CredentialCustody, AuthNewest, HeldInv,
         registryVars, processVars, outsideVars, sharedVars, reloginVars
<1>0. TypeOK
  BY DEF TypeInv
<1>. DEFINE Carried ==
              /\ aop'.tokens \in {None, auth, aop.tokens}
              /\ aop'.added \in {None, aop.added}
              /\ apc' = "save" => auth # None /\ aop'.tokens = auth
              /\ apc' = "write" => auth = None
<1>1. CASE \/ SaveCurrent \/ \E a \in Accounts : AddLogin(a)
           \/ Inspect \/ FirstCheck \/ AddFails
  <2>1. UNCHANGED <<auth, saved, issued, superseded, rpc, rop>>
    BY <1>1 DEF SaveCurrent, AddLogin, Inspect, FirstCheck, AddFails
  <2>2. Carried
    <3>1. ASSUME SaveCurrent PROVE Carried
      BY <3>1 DEF SaveCurrent, IdleAdd
    <3>2. ASSUME NEW a \in Accounts, AddLogin(a) PROVE Carried
      BY <3>2 DEF AddLogin, IdleAdd
    <3>3. ASSUME Inspect \/ FirstCheck \/ AddFails PROVE Carried
      BY <3>3 DEF Inspect, FirstCheck, AddFails, AddReturn, IdleAdd
    <3>. QED
      BY <1>1, <3>1, <3>2, <3>3
  <2>. QED
    BY <2>1, <2>2 DEF Registered
<1>2. CASE SaveTokens
  <2>1. /\ auth # None /\ auth.acct = aop.tokens.acct /\ aop.tokens \in Credentials
        /\ saved' = [saved EXCEPT ![auth.acct] = aop.tokens.ver]
        /\ UNCHANGED <<auth, issued, superseded, rpc, rop>>
        /\ aop'.tokens = aop.tokens /\ aop'.added = aop.tokens /\ apc' = "inspect"
    BY <1>0, <1>2 DEF SaveTokens, TypeInv, TypeOK, CommandInv
  <2>2. aop.tokens.ver \in 1..MaxVersion
    BY <2>1 DEF Credentials
  <2>3. VersionInv'
    BY <2>1, <2>2
  <2>4. CredentialCustody'
    BY <2>1, <2>2 DEF Registered
  <2>. QED
    BY <2>1, <2>3, <2>4
<1>3. CASE AddTokens
  <2>. DEFINE t == aop.login
  <2>1. t \in Accounts /\ Stores(t)
    BY <1>3 DEF AddTokens, TypeInv, CommandInv
  <2>2. /\ saved' = [saved EXCEPT ![t] = issued'[t]]
        /\ UNCHANGED <<auth, rop>> /\ apc' = "inspect"
        /\ aop'.tokens = None /\ aop'.added = Fresh(t)
    BY <1>0, <1>3 DEF AddTokens, TypeOK
  <2>3. VersionInv'
    BY <2>1, <2>2, StoredNewest
  <2>4. CredentialCustody'
    BY <2>1, <2>2, StoredNewest DEF Registered
  <2>5. AuthNewest'
    BY <2>1, <2>2, StoredNewest
  <2>. QED
    BY <2>2, <2>3, <2>4, <2>5
<1>4. CASE FirstWrite
  <2>1. /\ auth = None /\ auth' = aop.added /\ aop.added \in Credentials
        /\ aop'.tokens = None /\ aop'.added = None /\ apc' = "idle"
        /\ UNCHANGED <<saved, issued, rop>>
        /\ superseded' = IF issued[auth'.acct] = auth'.ver THEN superseded
                         ELSE superseded \union {auth'.acct}
    BY <1>4 DEF FirstWrite, AddReturn, IdleAdd, TypeInv, CommandInv
  <2>2. aop.added.acct \in Accounts /\ aop.added.ver \in 1..MaxVersion
    BY <2>1 DEF Credentials
  <2>3. CredentialCustody'
    <3>. SUFFICES ASSUME NEW a \in Accounts, a \notin superseded', Registered(a)'
                  PROVE  saved'[a] = issued'[a]
      OBVIOUS
    <3>1. a \notin superseded /\ Registered(a)
      BY <2>1 DEF Registered
    <3>2. auth # Credential(a, issued[a])
      BY <2>1 DEF Credential, Credentials
    <3>. QED
      BY <2>1, <3>1, <3>2
  <2>. QED
    BY <2>1, <2>2, <2>3
<1>. QED
  BY <1>1, <1>2, <1>3, <1>4 DEF AddStep

(* And so do everybody else's, when nobody takes over auth.json in between *)
(* a command's reading it and using what it read.                          *)
LEMMA OthersKeepCustody ==
    ASSUME ~Race, TypeInv, CustodyInv, Others
    PROVE  CustodyInv'
<1>. USE Facts, NoneAssumption
     DEF CustodyInv, VersionInv, Known, CredentialCustody, AuthNewest, HeldInv,
         registryVars, processVars, outsideVars, sharedVars, reloginVars, addVars
<1>0. UNCHANGED <<rpc, rop, apc, aop>>
  BY DEF Others
<1>1. CASE DaemonSync
  <2>1. /\ auth # None /\ saved' = [saved EXCEPT ![auth.acct] = auth.ver]
        /\ UNCHANGED <<auth, issued, superseded>>
    BY <1>1 DEF DaemonSync, SyncRegistry
  <2>. QED
    BY <1>0, <2>1 DEF Registered
<1>2. CASE \/ \E a \in Accounts : QuotaPoll(a)
           \/ UserLaunch \/ DesktopQuit \/ WriterQuit
  <2>1. UNCHANGED <<auth, saved, issued, superseded>>
    BY <1>2 DEF QuotaPoll, UserLaunch, DesktopQuit, WriterQuit
  <2>. QED
    BY <1>0, <2>1 DEF Registered
<1>3. CASE \E a \in Accounts : Remove(a)
  <2>1. \E a \in Accounts : saved' = [saved EXCEPT ![a] = 0]
    BY <1>3 DEF Remove
  <2>2. UNCHANGED <<auth, issued, superseded>>
    BY <1>3 DEF Remove
  <2>. QED
    BY <1>0, <2>1, <2>2 DEF Registered
<1>4. CASE Rotate
  <2>. DEFINE x == auth.acct
  <2>1. /\ auth # None /\ x \in Accounts /\ auth.ver = issued[x]
        /\ issued' = [issued EXCEPT ![x] = @ + 1]
        /\ auth' = Credential(x, issued'[x]) /\ auth' # None
        /\ UNCHANGED <<saved, superseded>>
    <3>1. auth # None /\ auth = Credential(x, auth.ver) /\ x \in Accounts
      BY <1>4 DEF Rotate
    <3>2. issued' = [issued EXCEPT ![x] = @ + 1] /\ auth.ver = issued[x]
      BY <1>4 DEF Rotate
    <3>3. auth' = Credential(x, issued'[x])
      BY <1>4, <3>1, <3>2 DEF Rotate, Credential
    <3>4. auth' \in Credentials
      BY <1>4, <3>1, <3>2, <3>3, MaxVersionAssumption DEF Rotate, Credential, Credentials
    <3>. QED
      BY <1>4, <3>1, <3>2, <3>3, <3>4 DEF Rotate
  <2>2. auth'.acct = x /\ auth'.ver = issued'[x]
    BY <2>1 DEF Credential
  <2>3. \A b \in Accounts : issued[b] <= issued'[b] /\ (b # x => issued'[b] = issued[b])
    BY <2>1
  <2>4. \A c \in Credentials : c.ver <= issued[c.acct] => c.ver <= issued'[c.acct]
    <3>. TAKE c \in Credentials
    <3>1. c.acct \in Accounts /\ c.ver \in Nat
      BY DEF Credentials
    <3>. QED
      BY <2>1, <2>3, <3>1
  <2>5. VersionInv'
    <3>1. \A a \in Accounts : saved'[a] <= issued'[a]
      BY <2>1, <2>3
    <3>. QED
      BY <1>0, <2>1, <2>2, <2>4, <3>1
  <2>6. CredentialCustody'
    BY <2>1, <2>3 DEF Registered, Credential
  <2>. QED
    BY <1>0, <2>1, <2>2, <2>5, <2>6
<1>5. ASSUME Unhindered, Logout PROVE CustodyInv'
  <2>1. /\ auth # None /\ auth' = None /\ UNCHANGED <<saved, issued>>
        /\ superseded' = superseded \union {b \in Accounts : Discarded(b)}
        /\ apc \notin {"save", "write"}
    BY <1>5 DEF Logout, Unhindered
  <2>2. CredentialCustody'
    BY <2>1 DEF Registered, Discarded, Credential
  <2>. QED
    BY <1>0, <2>1, <2>2
<1>6. ASSUME NEW a \in Accounts, Unhindered, Login(a) PROVE CustodyInv'
  <2>1. /\ auth' = Credential(a, issued'[a]) /\ UNCHANGED saved
        /\ issued' = [issued EXCEPT ![a] = @ + 1]
        /\ superseded' = (superseded \union {b \in Accounts : Discarded(b)}) \ {a}
        /\ apc \notin {"save", "write"}
    BY <1>6 DEF Login, Unhindered
  <2>2. /\ auth'.acct = a /\ auth'.ver = issued'[a]
        /\ issued'[a] \in Nat /\ \A b \in Accounts : issued[b] <= issued'[b]
        /\ \A b \in Accounts \ {a} : issued'[b] = issued[b]
    BY <2>1 DEF Credential
  <2>3. \A c \in Credentials : c.ver <= issued[c.acct] => c.ver <= issued'[c.acct]
    <3>. TAKE c \in Credentials
    <3>1. c.acct \in Accounts /\ c.ver \in Nat
      BY DEF Credentials
    <3>. QED
      BY <2>1, <2>2, <3>1
  <2>4. VersionInv'
    <3>1. \A b \in Accounts : saved'[b] <= issued'[b]
      BY <2>1, <2>2
    <3>. QED
      BY <1>0, <2>1, <2>2, <2>3, <3>1
  <2>5. CredentialCustody'
    <3>. SUFFICES ASSUME NEW b \in Accounts, b \notin superseded', Registered(b)', b # a
                  PROVE  saved'[b] = issued'[b]
      BY <2>1
    <3>1. b \notin superseded /\ ~Discarded(b) /\ Registered(b)
      BY <2>1 DEF Registered
    <3>2. auth = Credential(b, issued[b]) => saved[b] = issued[b]
      <4>1. Credential(b, issued[b]) \in Credentials
        BY DEF Credential, Credentials
      <4>. QED
        BY <3>1, <4>1 DEF Discarded, Credential
    <3>. QED
      BY <2>1, <2>2, <3>1, <3>2
  <2>. QED
    BY <1>0, <2>1, <2>2, <2>4, <2>5
<1>7. ASSUME NEW t \in Accounts, Unhindered, SwitchTo(t) PROVE CustodyInv'
  <2>1. /\ auth' = Credential(t, saved[t]) /\ saved[t] # 0
        /\ UNCHANGED <<issued, superseded>>
        /\ apc \notin {"save", "write"}
    BY <1>7 DEF SwitchTo, Unhindered, Registered
  <2>2. auth'.acct = t /\ auth'.ver = saved[t]
    BY <2>1 DEF Credential
  <2>3. \/ auth = None /\ saved' = saved
        \/ /\ auth # None /\ auth.acct # t
           /\ saved' = [saved EXCEPT ![auth.acct] = auth.ver]
    BY <1>7 DEF SwitchTo
  <2>4. t \notin superseded => saved[t] = issued[t]
    <3>1. auth # Credential(t, issued[t])
      BY <2>3 DEF Credential, Credentials
    <3>. QED
      BY <2>1, <3>1 DEF Registered
  <2>5. VersionInv'
    BY <1>0, <2>1, <2>2, <2>3
  <2>6. CredentialCustody'
    <3>. SUFFICES ASSUME NEW b \in Accounts, b \notin superseded, Registered(b)'
                  PROVE  saved'[b] = issued[b]
      BY <2>1
    <3>1. CASE auth # None /\ b = auth.acct
      BY <2>3, <3>1
    <3>2. CASE b = t
      BY <2>3, <2>4, <3>2
    <3>3. CASE b # t /\ (auth = None \/ b # auth.acct)
      <4>1. auth # Credential(b, issued[b]) /\ saved'[b] = saved[b]
        BY <2>3, <3>3 DEF Credential, Credentials
      <4>. QED
        BY <4>1 DEF Registered
    <3>. QED
      BY <3>1, <3>2, <3>3
  <2>. QED
    BY <1>0, <2>1, <2>2, <2>4, <2>5, <2>6
<1>. QED
  BY <1>1, <1>2, <1>3, <1>4, <1>5, <1>6, <1>7 DEF Others, UnlockedWriters

(* Every step keeps the newest tokens in a file.                           *)
THEOREM CustodyStep ==
    ASSUME ~Race
    PROVE  TypeInv /\ CustodyInv /\ [Next]_vars => CustodyInv'
<1>. SUFFICES ASSUME TypeInv, CustodyInv, [Next]_vars PROVE CustodyInv'
  OBVIOUS
<1>1. CASE UNCHANGED vars
  BY <1>1 DEF vars, sharedVars, registryVars, processVars, outsideVars, reloginVars,
     addVars, CustodyInv, VersionInv, Known, CredentialCustody, AuthNewest, HeldInv,
     Registered
<1>. QED
  BY <1>1, ReloginKeepsCustody, AddKeepsCustody, OthersKeepCustody DEF Next

(* No interleaving of a re-login, an addition, a rotation, the daemon's    *)
(* sync and a removal overwrites the only copy of an account's newest      *)
(* tokens, when no other account takes over auth.json between a command's  *)
(* reading it and its using what it read.                                  *)
THEOREM NewestKept ==
    ASSUME ~Race
    PROVE  Spec => []CredentialCustody
<1>1. CustodyInv => CredentialCustody
  BY DEF CustodyInv
<1>. QED
  BY <1>1, TypeInitial, TypeStep, CustodyInitial, CustodyStep, PTL DEF Spec

(* What a step of a re-login may do to the registry and auth.json.         *)
GivesWay ==
    rpc' # rpc => /\ \A a \in Accounts \ superseded : saved'[a] >= saved[a]
                  /\ Agree => Agree'

LEMMA GivesWayStep ==
    ASSUME TypeInv, CustodyInv, [Next]_vars
    PROVE  GivesWay
<1>. USE Facts, NoneAssumption
     DEF registryVars, processVars, outsideVars, sharedVars, addVars
<1>1. CASE rpc' = rpc
  BY <1>1 DEF GivesWay
<1>2. CASE \/ \E a \in Accounts : ReloginStart(a)
           \/ ReloginStage \/ ReloginRead \/ ReloginFails
  <2>1. UNCHANGED <<auth, active, saved>>
    BY <1>2 DEF ReloginStart, ReloginStage, ReloginRead, ReloginFails
  <2>. QED
    BY <2>1 DEF GivesWay, Agree
<1>3. CASE ReloginWrite
  <2>1. /\ UNCHANGED <<active, saved>> /\ rop.target \in Accounts /\ Stores(rop.target)
        /\ auth # None /\ auth.acct = rop.target
    BY <1>3 DEF ReloginWrite, TypeInv, CommandInv
  <2>2. auth'.acct = auth.acct
    BY <1>3, <2>1, StoresTyped DEF ReloginWrite, TypeInv, TypeOK
  <2>. QED
    BY <2>1, <2>2 DEF GivesWay, Agree
<1>4. CASE ReloginCommitActive
  <2>1. /\ auth # None /\ saved' = [saved EXCEPT ![auth.acct] = auth.ver]
        /\ UNCHANGED <<auth, active>>
    BY <1>4 DEF ReloginCommitActive, TypeInv, CommandInv
  <2>2. auth.acct \notin superseded => auth.ver >= saved[auth.acct]
    BY <2>1 DEF CustodyInv, VersionInv, AuthNewest
  <2>. QED
    BY <2>1, <2>2 DEF GivesWay, Agree
<1>5. CASE ReloginCommitOther
  <2>1. /\ rop.target \in Accounts /\ Stores(rop.target) /\ UNCHANGED <<auth, active>>
        /\ saved' = [saved EXCEPT ![rop.target] = issued'[rop.target]]
    BY <1>5 DEF ReloginCommitOther, TypeInv, CommandInv
  <2>2. issued'[rop.target] >= saved[rop.target]
    BY <2>1, StoredNewest DEF CustodyInv, VersionInv
  <2>. QED
    BY <2>1, <2>2 DEF GivesWay, Agree
<1>6. CASE AddStep \/ Others \/ UNCHANGED vars
  <2>1. ASSUME AddStep PROVE rpc' = rpc
    BY <2>1 DEF AddStep, SaveCurrent, AddLogin, SaveTokens, AddTokens, Inspect,
       FirstCheck, FirstWrite, AddFails, reloginVars
  <2>. QED
    BY <1>1, <1>6, <2>1 DEF Others, vars, reloginVars
<1>. QED
  BY <1>2, <1>3, <1>4, <1>5, <1>6 DEF Next, ReloginStep

(* A re-login gives way to whoever changes auth.json or the registry while *)
(* it runs: no step of it puts older tokens into the registry or makes the *)
(* registry and auth.json name different accounts.                         *)
THEOREM ReloginAlwaysGivesWay ==
    ASSUME ~Race
    PROVE  Spec => ReloginGivesWay
<1>1. TypeInv /\ CustodyInv /\ [Next]_vars => [GivesWay]_vars
  BY GivesWayStep
<1>. QED
  BY <1>1, TypeInitial, TypeStep, CustodyInitial, CustodyStep, PTL
     DEF Spec, ReloginGivesWay, GivesWay

=============================================================================
