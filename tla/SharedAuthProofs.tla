-------------------------- MODULE SharedAuthProofs --------------------------
(***************************************************************************)
(* Lemmas about the shared files: what the steps of everybody outside the  *)
(* operation lock preserve, whatever operation they interleave with.       *)
(***************************************************************************)
EXTENDS SharedAuth, TLAPS

(* Switching to the owner of auth.json keeps the registry well typed.      *)
LEMMA SyncTyped ==
    ASSUME SharedTypeOK, SyncRegistry
    PROVE  /\ auth \in Credentials
           /\ saved' \in [Accounts -> 0..MaxVersion]
           /\ active' \in Accounts
           /\ relogin' \subseteq Accounts
           /\ \A a \in Accounts : saved[a] # 0 => saved'[a] # 0
  BY MaxVersionAssumption
     DEF SharedTypeOK, SyncRegistry, Maybe, Credentials, Registered

(* Everybody outside the operation lock: those whose tokens the Monitor    *)
(* knows, and whoever logs in or out behind its back.  A re-login waits    *)
(* for the lock.                                                           *)
Insiders ==
    \/ UnlockedWriters \/ InferBinding \/ Rotate
    \/ UserLaunch \/ DesktopQuit \/ WriterQuit

Outsiders == Logout \/ \E a \in Accounts : Login(a)

Bystanders == Insiders \/ Outsiders

LEMMA NoOutsiders == Logins = FALSE => ~Outsiders
  BY DEF Outsiders, Logout, Login

(* Nobody else's step breaks the types of the shared files.                *)
LEMMA SharedStep ==
    ASSUME SharedTypeOK, Bystanders \/ \E a \in Accounts : Relogin(a)
    PROVE  SharedTypeOK'
<1>. USE MaxVersionAssumption
     DEF SharedTypeOK, registryVars, processVars, outsideVars, Maybe, Credentials
<1>1. CASE DaemonSync
  BY <1>1 DEF DaemonSync, SyncRegistry, Registered
<1>2. CASE \E a \in Accounts : QuotaPoll(a) \/ Remove(a) \/ Relogin(a)
  BY <1>2 DEF QuotaPoll, Remove, Relogin
<1>3. CASE Rotate
  BY <1>3 DEF Rotate
<1>4. CASE \E a \in Accounts : Login(a)
  BY <1>4 DEF Login, Credential
<1>5. CASE InferBinding \/ Logout \/ UserLaunch \/ DesktopQuit \/ WriterQuit
  BY <1>5 DEF InferBinding, Logout, UserLaunch, DesktopQuit, WriterQuit, OpensDesktop
<1>. QED
  BY <1>1, <1>2, <1>3, <1>4, <1>5 DEF Bystanders, Insiders, Outsiders, UnlockedWriters

(* A saved account that auth.json belongs to is the active one.            *)
Agreement == auth # None /\ Registered(auth.acct) => active = auth.acct

(* Nobody breaks the agreement of the two files except somebody who logs   *)
(* in or out behind the Monitor's back.                                    *)
LEMMA SharedAgreement ==
    ASSUME SharedTypeOK, Agreement, Insiders \/ \E a \in Accounts : Relogin(a)
    PROVE  Agreement'
<1>. USE DEF Agreement
<1>0. auth # None => auth \in Credentials /\ auth.acct \in Accounts
  BY DEF SharedTypeOK, Maybe, Credentials
<1>1. CASE DaemonSync
  BY <1>1 DEF DaemonSync, SyncRegistry
<1>2. CASE \E a \in Accounts : QuotaPoll(a)
  BY <1>2 DEF QuotaPoll, Registered
<1>3. CASE \E a \in Accounts : Remove(a)
  <2>. PICK a \in Accounts : Remove(a)
    BY <1>3
  <2>1. \A b \in Accounts : saved'[b] # 0 =>
           saved[b] # 0 /\ (active = b => active' = b)
    BY DEF Remove, SharedTypeOK
  <2>. QED
    BY <1>0, <2>1 DEF Remove, Registered
<1>4. CASE \E a \in Accounts : Relogin(a)
  <2>. PICK a \in Accounts : Relogin(a)
    BY <1>4
  <2>1. \A b \in Accounts : saved'[b] # 0 => saved[b] # 0
    BY DEF Relogin, Registered, SharedTypeOK
  <2>. QED
    BY <1>0, <2>1 DEF Relogin, Registered
<1>5. CASE Rotate
  <2>1. auth' # None => auth # None /\ auth'.acct = auth.acct
    BY <1>0, <1>5 DEF Rotate, Credentials
  <2>. QED
    BY <1>5, <2>1 DEF Rotate, Registered, registryVars
<1>6. CASE InferBinding \/ UserLaunch \/ DesktopQuit \/ WriterQuit
  BY <1>6 DEF InferBinding, UserLaunch, DesktopQuit, WriterQuit, Registered, registryVars
<1>. QED
  BY <1>1, <1>2, <1>3, <1>4, <1>5, <1>6 DEF Insiders, UnlockedWriters

(* Nor does anybody else put another account into auth.json.               *)
LEMMA SharedIdentity ==
    ASSUME SharedTypeOK, Insiders \/ \E a \in Accounts : Relogin(a)
    PROVE  /\ auth' = None <=> auth = None
           /\ auth # None => auth'.acct = auth.acct
<1>1. CASE Rotate
  <2>1. auth \in Credentials /\ auth' = [auth EXCEPT !.ver = @ + 1] /\ auth.ver < MaxVersion
    BY <1>1 DEF Rotate, SharedTypeOK, Maybe, Credentials
  <2>2. auth' \in Credentials /\ auth'.acct = auth.acct
    BY <2>1, MaxVersionAssumption DEF Credentials
  <2>. QED
    BY <2>1, <2>2, NoneAssumption
<1>2. CASE ~Rotate
  BY <1>2 DEF Insiders, UnlockedWriters, DaemonSync, QuotaPoll, Remove, Relogin,
     InferBinding, UserLaunch, DesktopQuit, WriterQuit
<1>. QED
  BY <1>1, <1>2

-----------------------------------------------------------------------------
(* Who holds the newest tokens                                             *)

(* A credential nobody can have replaced but an outside login; one the     *)
(* registry has; one the provider issued.                                  *)
Newest(c) == c # None /\ c.acct \notin superseded => c.ver = issued[c.acct]

SavedCopy(c) ==
    c # None /\ c.acct \notin superseded /\ Registered(c.acct) => saved[c.acct] = c.ver

Issued(c) == c # None => c.ver <= issued[c.acct]

(* CredentialCustody made inductive: auth.json is never behind the         *)
(* registry, or the next sync would put an old login back.                 *)
Custody ==
    /\ CredentialCustody
    /\ Newest(auth) /\ Issued(auth)
    /\ \A a \in Accounts : saved[a] <= issued[a]

(* The first credentials are the newest ones, and Desktop is closed.       *)
LEMMA CustodyAtFirst == SharedInit => Custody
<1>. SUFFICES ASSUME SharedInit PROVE Custody
  OBVIOUS
<1>1. PICK a \in Accounts, others \in SUBSET Accounts :
         /\ a \in others
         /\ auth \in {None, Credential(a, 1)}
         /\ saved = [b \in Accounts |-> IF b \in others THEN 1 ELSE 0]
  BY DEF SharedInit
<1>2. issued = [b \in Accounts |-> 1]
  BY DEF SharedInit
<1>. QED
  BY <1>1, <1>2 DEF Custody, CredentialCustody, Newest, Issued, Registered, Credential

(* After a sync the registry has the newest tokens of every account, ...   *)
LEMMA CustodySync ==
    ASSUME SharedTypeOK, Custody, SyncRegistry, UNCHANGED <<auth, outsideVars>>
    PROVE  /\ Custody' /\ SavedCopy(auth)'
           /\ \A a \in Accounts \ superseded : saved'[a] # 0 => saved'[a] = issued[a]
<1>. USE DEF SharedTypeOK, Custody, CredentialCustody, Newest, Issued, SavedCopy,
         SyncRegistry, Registered, outsideVars, Maybe, Credentials, Credential
<1>1. Custody' /\ SavedCopy(auth)'
  OBVIOUS
<1>2. \A a \in Accounts \ superseded : saved'[a] # 0 => saved'[a] = issued[a]
  OBVIOUS
<1>. QED
  BY <1>1, <1>2

(* ... the write of a credential that is one throws nothing away when the  *)
(* registry has what it overwrites, ...                                    *)
LEMMA CustodyWrite ==
    ASSUME SharedTypeOK, Custody, SavedCopy(auth), SharedTypeOK',
           Newest(auth)', Issued(auth)', UNCHANGED <<saved, outsideVars>>
    PROVE  Custody'
  BY NoneAssumption
     DEF SharedTypeOK, Custody, CredentialCustody, Newest, Issued, SavedCopy,
     Registered, outsideVars, Maybe, Credentials, Credential

(* ... and nobody else leaves the newest tokens nowhere.                   *)
LEMMA SharedCustody ==
    ASSUME SharedTypeOK, Custody, Bystanders \/ \E a \in Accounts : Relogin(a)
    PROVE  Custody'
<1>. USE MaxVersionAssumption, NoneAssumption
     DEF SharedTypeOK, Custody, CredentialCustody, Newest, Issued, Registered,
         registryVars, processVars, outsideVars, Maybe, Credentials, Credential
<1>1. CASE DaemonSync
  BY <1>1 DEF DaemonSync, SyncRegistry
<1>2. CASE \E a \in Accounts : QuotaPoll(a) \/ Remove(a)
  BY <1>2 DEF QuotaPoll, Remove
<1>3. CASE \E a \in Accounts : Relogin(a)
  BY <1>3 DEF Relogin
<1>4. CASE Rotate
  BY <1>4 DEF Rotate
<1>5. CASE \E a \in Accounts : Login(a)
  BY <1>5 DEF Login, Discarded
<1>6. CASE Logout
  BY <1>6 DEF Logout, Discarded
<1>7. CASE InferBinding \/ UserLaunch \/ DesktopQuit \/ WriterQuit
  BY <1>7 DEF InferBinding, UserLaunch, DesktopQuit, WriterQuit
<1>. QED
  BY <1>1, <1>2, <1>3, <1>4, <1>5, <1>6, <1>7 DEF Bystanders, Insiders, Outsiders, UnlockedWriters

(* Whoever changes auth.json without the lock puts tokens there that are   *)
(* newer than any an operation can have seen, ...                          *)
LEMMA FreshTokens ==
    ASSUME SharedTypeOK, Custody, Bystanders
    PROVE  /\ \A a \in Accounts : issued'[a] >= issued[a]
           /\ auth' # auth /\ auth' # None =>
                auth'.acct \in Accounts /\ auth'.ver > issued[auth'.acct]
<1>. USE DEF SharedTypeOK, registryVars, processVars, outsideVars, Maybe, Credentials
<1>1. CASE Rotate
  <2>1. /\ auth \in Credentials /\ auth' = [auth EXCEPT !.ver = @ + 1]
        /\ auth.ver = issued[auth.acct]
        /\ issued' = [issued EXCEPT ![auth.acct] = @ + 1]
    BY <1>1 DEF Rotate
  <2>2. auth'.acct = auth.acct /\ auth'.ver = auth.ver + 1
    BY <2>1
  <2>. QED
    BY <2>1, <2>2
<1>2. CASE \E a \in Accounts : Login(a)
  <2>. PICK a \in Accounts : Login(a)
    BY <1>2
  <2>1. /\ issued' = [issued EXCEPT ![a] = @ + 1]
        /\ auth' = Credential(a, issued'[a])
    BY DEF Login
  <2>2. auth'.acct = a /\ auth'.ver = issued[a] + 1
    BY <2>1 DEF Credential
  <2>. QED
    BY <2>1, <2>2
<1>3. CASE UnlockedWriters \/ InferBinding \/ Logout \/ UserLaunch \/ DesktopQuit \/ WriterQuit
  <2>1. UNCHANGED issued /\ (UNCHANGED auth \/ auth' = None)
    BY <1>3 DEF UnlockedWriters, DaemonSync, QuotaPoll, Remove, InferBinding, Logout,
       UserLaunch, DesktopQuit, WriterQuit
  <2>. QED
    BY <2>1
<1>. QED
  BY <1>1, <1>2, <1>3 DEF Bystanders, Insiders, Outsiders

(* ... and while auth.json is what it was, nothing newer is issued and the *)
(* registry forgets an account or takes the tokens of auth.json.           *)
LEMMA SameTokens ==
    ASSUME SharedTypeOK, Custody, Bystanders, UNCHANGED auth
    PROVE  /\ UNCHANGED <<issued, superseded>>
           /\ \A a \in Accounts :
                \/ saved'[a] = saved[a]
                \/ saved'[a] = 0
                \/ auth # None /\ a = auth.acct /\ saved'[a] = auth.ver
<1>. USE NoneAssumption
     DEF SharedTypeOK, registryVars, processVars, outsideVars, Maybe, Credentials
<1>1. ~Rotate
  <2>1. auth \in Credentials /\ auth' = [auth EXCEPT !.ver = @ + 1] =>
           auth'.ver = auth.ver + 1 /\ auth.ver \in 1..MaxVersion
    OBVIOUS
  <2>. QED
    BY <2>1 DEF Rotate
<1>2. \A a \in Accounts : ~Login(a)
  <2>. SUFFICES ASSUME NEW a \in Accounts, Login(a) PROVE FALSE
    OBVIOUS
  <2>1. /\ issued[a] < MaxVersion /\ issued' = [issued EXCEPT ![a] = @ + 1]
        /\ auth' = Credential(a, issued'[a])
    BY DEF Login
  <2>2. auth'.acct = a /\ auth'.ver = issued[a] + 1 /\ auth' \in Credentials
    BY <2>1, MaxVersionAssumption DEF Credential
  <2>. QED
    BY <2>2 DEF Custody, Issued
<1>3. ~Logout
  BY DEF Logout
<1>4. CASE DaemonSync
  BY <1>4 DEF DaemonSync, SyncRegistry
<1>5. CASE \E a \in Accounts : QuotaPoll(a) \/ Remove(a)
  BY <1>5 DEF QuotaPoll, Remove
<1>6. CASE InferBinding \/ UserLaunch \/ DesktopQuit \/ WriterQuit
  BY <1>6 DEF InferBinding, UserLaunch, DesktopQuit, WriterQuit
<1>. QED
  BY <1>1, <1>2, <1>3, <1>4, <1>5, <1>6 DEF Bystanders, Insiders, Outsiders, UnlockedWriters

-----------------------------------------------------------------------------
(* What a live Desktop has loaded                                          *)

(* DesktopAgrees made inductive: a session belongs to a running writer,    *)
(* and a marker to its main process.                                       *)
Processes ==
    /\ DesktopAgrees
    /\ session # None => desktop # "off"
    /\ marker # None => desktop = "on"

LEMMA ProcessesAtFirst == SharedInit => Processes /\ MarkerTruth
  BY DEF SharedInit, Processes, DesktopAgrees, MarkerTruth

(* Whoever opens Desktop lets it load auth.json, without a marker, ...     *)
LEMMA ProcessesOpened ==
    ASSUME OpensDesktop, UNCHANGED auth
    PROVE  Processes' /\ MarkerTruth'
  BY DEF OpensDesktop, Processes, DesktopAgrees, MarkerTruth

(* ... nobody else leaves Desktop with other credentials than auth.json,   *)
(* not even a login, which Desktop follows, ...                            *)
LEMMA SharedProcesses ==
    ASSUME SharedTypeOK, Processes, Bystanders \/ \E a \in Accounts : Relogin(a)
    PROVE  Processes'
<1>. USE DEF SharedTypeOK, Processes, DesktopAgrees, registryVars, processVars,
         outsideVars, Maybe, Credentials
<1>1. CASE UnlockedWriters \/ \E a \in Accounts : Relogin(a)
  BY <1>1 DEF UnlockedWriters, DaemonSync, QuotaPoll, Remove, Relogin
<1>2. CASE Rotate
  <2>1. auth # None /\ auth'.acct = auth.acct
    BY <1>2 DEF Rotate
  <2>. QED
    BY <1>2, <2>1 DEF Rotate
<1>3. CASE Outsiders
  BY <1>3 DEF Outsiders, Login, Logout, Credential
<1>4. CASE UserLaunch
  BY <1>4, ProcessesOpened DEF UserLaunch
<1>5. CASE InferBinding \/ DesktopQuit \/ WriterQuit
  BY <1>5 DEF InferBinding, DesktopQuit, WriterQuit
<1>. QED
  BY <1>1, <1>2, <1>3, <1>4, <1>5 DEF Bystanders, Insiders

(* ... and nobody but a login moves Desktop away from its marker.          *)
LEMMA SharedMarker ==
    ASSUME SharedTypeOK, Processes, MarkerTruth,
           Insiders \/ \E a \in Accounts : Relogin(a)
    PROVE  MarkerTruth'
<1>. USE DEF SharedTypeOK, Processes, MarkerTruth, registryVars, processVars, outsideVars
<1>1. CASE UnlockedWriters \/ Rotate \/ \E a \in Accounts : Relogin(a)
  BY <1>1 DEF UnlockedWriters, DaemonSync, QuotaPoll, Remove, Relogin, Rotate
<1>2. CASE UserLaunch
  BY <1>2, ProcessesOpened DEF UserLaunch
<1>3. CASE InferBinding \/ DesktopQuit \/ WriterQuit
  BY <1>3 DEF InferBinding, DesktopQuit, WriterQuit
<1>. QED
  BY <1>1, <1>2, <1>3 DEF Insiders

=============================================================================
