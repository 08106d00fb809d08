------------------------- MODULE DirectSwitchProofs -------------------------
(***************************************************************************)
(* Proofs about DirectSwitch for every set of accounts and every bound.    *)
(***************************************************************************)
EXTENDS DirectSwitch, SharedAuthProofs

(* The steps that move the credentials to the target they have chosen.     *)
TargetSteps == {"preflight", "stop", "stopping", "prepare", "begin", "abort",
                "compare", "rename", "readback", "restore", "restoreRename",
                "commit", "verify"}

(* The steps that read or rely on the durable intent.                      *)
IntentSteps == {"confirmPrior", "commitIntent", "confirmTarget", "clear", "compare",
                "rename", "readback", "restore", "restoreRename", "commit", "verify"}

(* What holds at those steps: a real account and one of its saved versions *)
(* are chosen; the intent is on disk.                                      *)
AtSteps ==
    /\ pc = "resolve" => op.target \in Accounts
    /\ pc \in TargetSteps => op.target \in Accounts /\ op.selected # 0
    /\ pc \in IntentSteps => journal # None

TypeInv == TypeOK /\ AtSteps

(* The initial states are well typed.                                      *)
THEOREM TypeInitial == Init => TypeInv
<1> USE NoneAssumption, NoIntentAssumption, MaxVersionAssumption
<1>. SUFFICES ASSUME Init PROVE TypeInv
  OBVIOUS
<1>1. PICK a \in Accounts, others \in SUBSET Accounts :
         /\ auth \in {None, Credential(a, 1)}
         /\ active = IF auth = None THEN None ELSE a
         /\ saved = [b \in Accounts |-> IF b \in others THEN 1 ELSE 0]
  BY DEF Init, SharedInit
<1>2. auth \in Maybe(Credentials) /\ active \in Maybe(Accounts)
  BY <1>1 DEF Maybe, Credentials, Credential
<1>3. saved \in [Accounts -> 0..MaxVersion]
  BY <1>1
<1>4. op \in Operations
  BY DEF Init, SharedInit, IdleOp, Operations, Maybe, Callers
<1>. QED
  BY <1>2, <1>3, <1>4 DEF Init, SharedInit, TypeInv, TypeOK, SharedTypeOK, AtSteps, TargetSteps, IntentSteps, Maybe, Steps

(* Ending the operation leaves well-typed locals.                          *)
LEMMA ReturnTyped ==
    ASSUME Return
    PROVE  pc' = "idle" /\ op' \in Operations /\ AtSteps'
  BY MaxVersionAssumption
     DEF Return, IdleOp, Operations, Maybe, Callers, AtSteps, TargetSteps, IntentSteps

(* So does leaving the reconciliation.                                     *)
LEMMA AfterReconcileTyped ==
    ASSUME op \in Operations, AfterReconcile
    PROVE  /\ pc' \in {"idle", "resolve", "relaunch", "launch"}
           /\ op' \in Operations /\ AtSteps'
<1>1. CASE Return
  BY <1>1, ReturnTyped
<1>2. CASE op.caller = "entry" /\ op.target # None /\ Goto("resolve")
  BY <1>2 DEF Goto, Operations, Maybe, AtSteps, TargetSteps, IntentSteps
<1>3. CASE Goto("relaunch") \/ Goto("launch")
  BY <1>3 DEF Goto, AtSteps, TargetSteps, IntentSteps
<1>. QED
  BY <1>1, <1>2, <1>3 DEF AfterReconcile, Operations, Callers

(* The credential to be written is a real one.                             *)
LEMMA CommittedTyped ==
    ASSUME TypeInv, pc \in TargetSteps
    PROVE  /\ op.target \in Accounts /\ op.selected \in 1..MaxVersion
           /\ Committed \in Credentials
<1>1. op \in Operations /\ op.target \in Accounts /\ op.selected # 0
  BY DEF TypeInv, TypeOK, SharedTypeOK, AtSteps
<1>2. op.selected \in 1..MaxVersion
  BY <1>1, MaxVersionAssumption DEF Operations
<1>. QED
  BY <1>1, <1>2 DEF Committed, Credential, Credentials

(* The intent about to be recorded is a real one, unlike "no intent".      *)
LEMMA IntentTyped ==
    ASSUME TypeInv, pc = "begin"
    PROVE  Intent \in Intents /\ Intent # None
<1>1. /\ op \in Operations /\ op.target \in Accounts /\ op.selected # 0
  BY DEF TypeInv, TypeOK, SharedTypeOK, AtSteps, TargetSteps
<1>2. Committed \in Credentials
  BY <1>1, MaxVersionAssumption DEF Operations, Committed, Credential, Credentials
<1>3. Intent \in Intents
  BY <1>1, <1>2 DEF Intent, Intents, Operations
<1>. QED
  BY <1>3, NoIntentAssumption

(* Every step keeps the types.                                             *)
THEOREM TypeStep == TypeInv /\ [Next]_vars => TypeInv'
<1>. SUFFICES ASSUME TypeInv, [Next]_vars PROVE TypeInv'
  OBVIOUS
<1>. USE NoneAssumption, NoIntentAssumption, MaxVersionAssumption
     DEF TypeInv, TypeOK, SharedTypeOK, registryVars, processVars, outsideVars
<1>1. CASE \E t \in Maybe(Accounts), r \in BOOLEAN : Start(t, r)
  <2>. PICK t \in Maybe(Accounts), r \in BOOLEAN : Start(t, r)
    BY <1>1
  <2>1. op' = [IdleOp EXCEPT !.target = t, !.restart = r]
    BY DEF Start
  <2>2. IdleOp \in Operations
    BY DEF IdleOp, Operations, Maybe, Callers
  <2>3. op' \in Operations
    BY <2>1, <2>2 DEF Operations
  <2>. QED
    BY <2>3 DEF Start, Steps, AtSteps, TargetSteps, IntentSteps
<1>2. CASE ReconcileNothing
  <2>1. /\ pc' \in {"idle", "resolve", "relaunch", "launch"}
        /\ op' \in Operations /\ AtSteps'
    BY <1>2, AfterReconcileTyped DEF ReconcileNothing
  <2>. QED
    BY <1>2, <2>1 DEF ReconcileNothing, Steps
<1>3. CASE ReconcileInspect
  BY <1>3, ReturnTyped DEF ReconcileInspect, Goto, Steps, AtSteps, TargetSteps, IntentSteps
<1>4. CASE ReconcileCommit
  BY <1>4, ReturnTyped
     DEF ReconcileCommit, Goto, Steps, AtSteps, TargetSteps, IntentSteps, Intents, Maybe
<1>5. CASE ReconcileConfirm
  BY <1>5 DEF ReconcileConfirm, Goto, Steps, AtSteps, TargetSteps, IntentSteps
<1>6. CASE ReconcileRefuse
  BY <1>6, ReturnTyped DEF ReconcileRefuse, Steps
<1>7. CASE ReconcileClear
  <2>1. /\ pc' \in {"idle", "resolve", "relaunch", "launch"}
        /\ op' \in Operations /\ AtSteps'
    BY <1>7, ReturnTyped, AfterReconcileTyped DEF ReconcileClear
  <2>. QED
    BY <1>7, <2>1 DEF ReconcileClear, Steps, Maybe
<1>8. CASE Resolve
  <2>1. CASE Return /\ UNCHANGED registryVars
    BY <1>8, <2>1, ReturnTyped DEF Resolve, Steps
  <2>2. CASE auth = None /\ pc' = "preflight"
    <3>1. /\ op.target \in Accounts /\ saved[op.target] # 0
          /\ op' = [op EXCEPT !.selected = saved[op.target], !.from = active]
          /\ UNCHANGED <<auth, registryVars, journal, processVars, outsideVars>>
      BY <1>8, <2>2 DEF Resolve, SyncRegistry, Registered, Return, AtSteps
    <3>2. op' \in Operations /\ op'.target = op.target /\ op'.selected # 0
      BY <3>1 DEF Operations
    <3>. QED
      BY <2>2, <3>1, <3>2 DEF Steps, AtSteps, TargetSteps, IntentSteps
  <2>3. CASE SyncRegistry /\ Return
    BY <1>8, <2>3, ReturnTyped, SyncTyped DEF Resolve, Steps, Maybe
  <2>4. CASE SyncRegistry /\ pc' = "preflight"
    <3>1. /\ auth # None /\ op.target \in Accounts /\ saved[op.target] # 0
          /\ op' = [op EXCEPT !.selected = saved'[op.target],
                              !.from = auth.acct, !.previous = auth]
          /\ UNCHANGED <<auth, journal, processVars, outsideVars>>
      BY <1>8, <2>4 DEF Resolve, SyncRegistry, Registered, Return, AtSteps
    <3>2. /\ auth \in Credentials
          /\ saved' \in [Accounts -> 0..MaxVersion]
          /\ active' \in Accounts /\ relogin' \subseteq Accounts
          /\ saved'[op.target] \in 0..MaxVersion /\ saved'[op.target] # 0
      BY <2>4, <3>1, SyncTyped
    <3>3. op' \in Operations /\ op'.target = op.target /\ op'.selected # 0
      BY <3>1, <3>2 DEF Operations, Credentials, Maybe
    <3>. QED
      BY <2>4, <3>1, <3>2, <3>3 DEF Steps, Maybe, AtSteps, TargetSteps, IntentSteps
  <2>. QED
    BY <1>8, <2>1, <2>2, <2>3, <2>4 DEF Resolve
<1>9. CASE Preflight
  <2>1. CASE Return
    BY <1>9, <2>1, ReturnTyped DEF Preflight, Steps
  <2>2. CASE ~Return
    <3>1. /\ pc = "preflight" /\ pc' \in {"stop", "prepare"}
          /\ op' = [op EXCEPT !.running = (desktop = "on"), !.mine = (desktop = "on")]
      BY <1>9, <2>2 DEF Preflight
    <3>2. op' \in Operations /\ op'.target = op.target /\ op'.selected = op.selected
      BY <3>1 DEF Operations
    <3>. QED
      BY <1>9, <3>1, <3>2 DEF Preflight, Steps, AtSteps, TargetSteps, IntentSteps
  <2>. QED
    BY <2>1, <2>2
<1>10. CASE Stop \/ Stopped \/ StopFails
  <2>1. CASE Stop
    BY <2>1, ReturnTyped DEF Stop, Goto, Steps, AtSteps, TargetSteps, IntentSteps
  <2>2. CASE Stopped
    BY <2>2 DEF Stopped, Goto, Steps, AtSteps, TargetSteps, IntentSteps
  <2>3. CASE StopFails
    BY <2>3, ReturnTyped DEF StopFails, Goto, Steps, AtSteps, TargetSteps, IntentSteps
  <2>. QED
    BY <1>10, <2>1, <2>2, <2>3
<1>11. CASE PrepareStopped
  <2>1. CASE Goto("relaunch") /\ UNCHANGED registryVars
    BY <1>11, <2>1 DEF PrepareStopped, Goto, Steps, AtSteps, TargetSteps, IntentSteps
  <2>2. CASE SyncRegistry
    <3>1. /\ auth \in Credentials /\ active' \in Accounts
          /\ saved' \in [Accounts -> 0..MaxVersion] /\ relogin' \subseteq Accounts
      BY <2>2, SyncTyped
    <3>2. op' \in Operations /\ op'.target = op.target /\ op'.selected = op.selected
      <4>1. op' \in {op, [op EXCEPT !.from = auth.acct, !.previous = auth]}
        BY <1>11 DEF PrepareStopped, Goto
      <4>2. CASE op' = op
        BY <4>2
      <4>3. CASE op' = [op EXCEPT !.from = auth.acct, !.previous = auth]
        <5>1. auth \in Maybe(Credentials) /\ auth.acct \in Maybe(Accounts)
          BY <3>1 DEF Credentials, Maybe
        <5>2. op \in Operations
          OBVIOUS
        <5>. QED
          BY ONLY <4>3, <5>1, <5>2 DEF Operations
      <4>. QED
        BY <4>1, <4>2, <4>3
    <3>3. SharedTypeOK' /\ journal' = journal
      BY <1>11, <3>1 DEF PrepareStopped, Maybe
    <3>4. pc' \in {"begin", "abort", "relaunch"} /\ pc = "prepare"
      BY <1>11 DEF PrepareStopped, Goto
    <3>. QED
      BY <3>1, <3>2, <3>3, <3>4 DEF Steps, Maybe, AtSteps, TargetSteps, IntentSteps
  <2>. QED
    BY <1>11, <2>1, <2>2 DEF PrepareStopped
<1>12. CASE PrepareOffline
  BY <1>12, ReturnTyped DEF PrepareOffline, Goto, Steps, AtSteps, TargetSteps, IntentSteps
<1>13. CASE Begin
  <2>1. pc = "begin" => Intent \in Intents /\ Intent # None
    BY IntentTyped
  <2>. QED
    BY <1>13, <2>1 DEF Begin, Goto, Steps, AtSteps, TargetSteps, IntentSteps, Maybe
<1>14. CASE Abort \/ Compare
  BY <1>14, ReturnTyped
     DEF Abort, Compare, Goto, Steps, Operations, Callers, AtSteps, TargetSteps, IntentSteps
<1>15. CASE Rename
  <2>1. pc = "rename" => Committed \in Credentials
    BY DEF Operations, Committed, Credential, Credentials, AtSteps, TargetSteps, IntentSteps
  <2>. QED
    BY <1>15, <2>1 DEF Rename, Goto, Steps, Operations, Callers, Maybe, AtSteps,
       TargetSteps, IntentSteps
<1>16. CASE Readback \/ Restore \/ RestoreRename
  BY <1>16 DEF Readback, Restore, RestoreRename, Goto, Steps, Operations, Callers,
     AtSteps, TargetSteps, IntentSteps
<1>17. CASE Commit \/ Verify
  BY <1>17, ReturnTyped
     DEF Commit, Verify, Goto, Steps, Operations, Callers, AtSteps, TargetSteps, IntentSteps
<1>18. CASE Launch \/ Relaunch
  <2>1. op' \in Operations
    BY <1>18, ReturnTyped DEF Launch, Relaunch, Goto, Operations
  <2>2. desktop' \in {"off", "on", "orphan"}
        /\ session' \in Maybe(Accounts) /\ marker' \in Maybe(Accounts)
    BY <1>18 DEF Launch, Relaunch, OpensDesktop, Maybe, Credentials
  <2>3. pc' \in {"idle", "bind", "relaunch", "emergencyBind"}
    BY <1>18, ReturnTyped DEF Launch, Relaunch, Goto
  <2>. QED
    BY <1>18, <2>1, <2>2, <2>3
       DEF Launch, Relaunch, Steps, AtSteps, TargetSteps, IntentSteps
<1>19. CASE EmergencyBind \/ Bind \/ VerifyBind
  BY <1>19, ReturnTyped
     DEF EmergencyBind, Bind, VerifyBind, AfterBinding, Goto, Steps, Operations, Maybe,
         AtSteps, TargetSteps, IntentSteps
<1>20. CASE Crash
  BY <1>20, ReturnTyped DEF Crash, Steps
<1>21. CASE OtherWriters \/ Outside \/ WatchedDesktopQuit
  <2>1. SharedTypeOK'
    BY <1>21, SharedStep
       DEF OtherWriters, Outside, WatchedDesktopQuit, Bystanders, Insiders, Outsiders
  <2>2. op' \in Operations /\ op'.target = op.target /\ op'.selected = op.selected
    BY <1>21 DEF OtherWriters, Outside, WatchedDesktopQuit, Operations
  <2>. QED
    BY <1>21, <2>1, <2>2 DEF OtherWriters, Outside, WatchedDesktopQuit, AtSteps,
       TargetSteps, IntentSteps
<1>22. CASE UNCHANGED vars
  BY <1>22 DEF vars, sharedVars, AtSteps, TargetSteps, IntentSteps
<1>. QED
  BY <1>1, <1>2, <1>3, <1>4, <1>5, <1>6, <1>7, <1>8, <1>9, <1>10, <1>11, <1>12,
     <1>13, <1>14, <1>15, <1>16, <1>17, <1>18, <1>19, <1>20, <1>21, <1>22
     DEF Next, SwitchStep, Reconcile, ReplaceAuth, Reopen

(* Every reachable state is well typed, however the operation, the daemon, *)
(* Desktop, the user and crashes interleave.                               *)
THEOREM TypeCorrect == Spec => []TypeOK
<1>1. Init => TypeInv
  BY TypeInitial
<1>2. TypeInv /\ [Next]_vars => TypeInv'
  BY TypeStep
<1>3. TypeInv => TypeOK
  BY DEF TypeInv
<1>. QED
  BY <1>1, <1>2, <1>3, PTL DEF Spec

-----------------------------------------------------------------------------
(* Whose step it is                                                        *)

OwnStep == \/ \E t \in Maybe(Accounts), restart \in BOOLEAN : Start(t, restart)
           \/ SwitchStep
           \/ Crash

OthersStep == OtherWriters \/ Outside \/ WatchedDesktopQuit

(* What everybody else leaves alone.                                       *)
LEMMA OthersAct ==
    ASSUME OthersStep, op \in Operations
    PROVE  /\ Bystanders \/ \E a \in Accounts : Relogin(a) /\ pc = "idle"
           /\ UNCHANGED <<journal, pc>>
           /\ \/ UNCHANGED op
              \/ op' = [op EXCEPT !.mine = FALSE]
  BY DEF OthersStep, OtherWriters, Outside, WatchedDesktopQuit, Bystanders, Insiders, Outsiders

-----------------------------------------------------------------------------
(* The intent and the registry                                             *)

(* The intent names the account its committed credential belongs to; and   *)
(* when it is about to be removed, auth.json and the registry agree.       *)
IntentInv ==
    /\ TypeInv
    /\ journal # None => journal.committed.acct = journal.to
    /\ journal = None => Agreement
    /\ pc = "clear" => Agreement

(* Where the reconciliation continues.                                     *)
LEMMA ReconcileReturns ==
    ASSUME TypeInv, AfterReconcile \/ Return
    PROVE  pc' \in {"idle", "resolve", "relaunch", "launch"}
  BY AfterReconcileTyped, ReturnTyped DEF TypeInv, TypeOK, SharedTypeOK

(* The steps of the switch that change neither a file nor the point where  *)
(* the intent is removed.                                                  *)
LEMMA IntentFrame ==
    ASSUME IntentInv, TypeInv', pc' # "clear",
           UNCHANGED <<auth, active, saved, journal>>
    PROVE  IntentInv'
  BY DEF IntentInv, Agreement, Registered

(* A registry sync makes the registry agree with auth.json.                *)
LEMMA IntentSync ==
    ASSUME IntentInv, TypeInv', SyncRegistry, UNCHANGED <<auth, journal>>
    PROVE  IntentInv'
  BY DEF IntentInv, Agreement, SyncRegistry

(* No state starts with an unexplained divergence.                         *)
THEOREM IntentInitial == Init => IntentInv
<1>. SUFFICES ASSUME Init PROVE IntentInv
  OBVIOUS
<1>1. auth # None => active = auth.acct
  BY DEF Init, SharedInit, Credential
<1>. QED
  BY <1>1, TypeInitial DEF Init, SharedInit, IntentInv, Agreement

(* No step of the switch creates a divergence without an intent, or        *)
(* removes the intent of one, ...                                          *)
THEOREM IntentOwn ==
    ASSUME IntentInv, OwnStep
    PROVE  IntentInv'
<1>. USE NoneAssumption, NoIntentAssumption
<1>0. TypeInv /\ TypeInv'
  BY TypeStep DEF IntentInv, OwnStep, Next
<1>1. CASE \E t \in Maybe(Accounts), r \in BOOLEAN : Start(t, r)
  BY <1>0, <1>1, IntentFrame DEF Start, registryVars
<1>2. CASE ReconcileNothing \/ ReconcileInspect \/ ReconcileRefuse
  <2>1. pc' # "clear"
    BY <1>0, <1>2, ReconcileReturns
       DEF ReconcileNothing, ReconcileInspect, ReconcileRefuse, Return, Goto
  <2>. QED
    BY <1>0, <1>2, <2>1, IntentFrame
       DEF ReconcileNothing, ReconcileInspect, ReconcileRefuse, registryVars
<1>3. CASE ReconcileCommit
  <2>1. journal' # None /\ journal' = journal /\ pc' # "clear"
    BY <1>0, <1>3 DEF ReconcileCommit, TypeInv, AtSteps, IntentSteps, Return, Goto
  <2>. QED
    BY <1>0, <2>1 DEF IntentInv
<1>4. CASE ReconcileConfirm
  <2>1. journal # None
    BY <1>0, <1>4 DEF ReconcileConfirm, TypeInv, AtSteps, IntentSteps
  <2>2. Agreement
    BY <1>4, <2>1 DEF ReconcileConfirm, MatchesPrior, MatchesTarget, Agreement, IntentInv
  <2>3. UNCHANGED <<auth, active, saved, journal>>
    BY <1>4 DEF ReconcileConfirm, registryVars
  <2>. QED
    BY <1>0, <2>1, <2>2, <2>3 DEF IntentInv, Agreement, Registered
<1>5. CASE ReconcileClear
  <2>1. Agreement /\ pc' # "clear" /\ UNCHANGED <<auth, active, saved>>
    BY <1>0, <1>5, ReconcileReturns DEF ReconcileClear, IntentInv, registryVars
  <2>2. journal' = None \/ journal' = journal
    BY <1>5 DEF ReconcileClear
  <2>. QED
    BY <1>0, <2>1, <2>2 DEF IntentInv, Agreement, Registered
<1>6. CASE Resolve
  <2>1. CASE UNCHANGED registryVars
    BY <1>0, <1>6, <2>1, IntentFrame DEF Resolve, Return, registryVars
  <2>2. CASE SyncRegistry
    BY <1>0, <1>6, <2>2, IntentSync DEF Resolve
  <2>. QED
    BY <1>6, <2>1, <2>2 DEF Resolve
<1>7. CASE Preflight \/ Stop \/ Stopped \/ StopFails
  BY <1>0, <1>7, IntentFrame
     DEF Preflight, Stop, Stopped, StopFails, Return, Goto, registryVars
<1>8. CASE PrepareStopped
  <2>1. CASE UNCHANGED registryVars /\ Goto("relaunch")
    BY <1>0, <1>8, <2>1, IntentFrame DEF PrepareStopped, Goto, registryVars
  <2>2. CASE SyncRegistry
    BY <1>0, <1>8, <2>2, IntentSync DEF PrepareStopped
  <2>. QED
    BY <1>8, <2>1, <2>2 DEF PrepareStopped
<1>9. CASE PrepareOffline \/ Abort \/ Compare \/ Readback \/ Restore
  BY <1>0, <1>9, IntentFrame
     DEF PrepareOffline, Abort, Compare, Readback, Restore, Return, Goto, registryVars
<1>10. CASE Begin
  <2>1. CASE UNCHANGED journal
    BY <1>0, <1>10, <2>1, IntentFrame DEF Begin, Goto, registryVars
  <2>2. CASE journal' = Intent
    <3>1. journal'.committed.acct = journal'.to
      BY <2>2 DEF Intent, Committed, Credential
    <3>2. journal' # None
      BY <1>0, <1>10, <2>2, IntentTyped DEF Begin
    <3>. QED
      BY <1>0, <1>10, <3>1, <3>2 DEF Begin, Goto, IntentInv
  <2>. QED
    BY <1>10, <2>1, <2>2 DEF Begin
<1>11. CASE Rename \/ RestoreRename \/ Commit
  <2>1. journal # None /\ journal' = journal /\ pc' # "clear"
    BY <1>0, <1>11
       DEF Rename, RestoreRename, Commit, TypeInv, AtSteps, IntentSteps, Goto
  <2>. QED
    BY <1>0, <2>1 DEF IntentInv
<1>12. CASE Verify \/ Reopen \/ Crash
  BY <1>0, <1>12, IntentFrame
     DEF Verify, Reopen, Launch, Relaunch, EmergencyBind, Bind, VerifyBind,
         AfterBinding, Crash, Return, Goto, registryVars
<1>. QED
  BY <1>1, <1>2, <1>3, <1>4, <1>5, <1>6, <1>7, <1>8, <1>9, <1>10, <1>11, <1>12
     DEF OwnStep, SwitchStep, Reconcile, ReplaceAuth

(* ... and nobody else does, unless somebody logs in behind the Monitor's  *)
(* back.                                                                   *)
THEOREM IntentOthers ==
    ASSUME IntentInv, OthersStep,
           Insiders \/ \E a \in Accounts : Relogin(a)
    PROVE  IntentInv'
<1>0. TypeInv /\ TypeInv'
  BY TypeStep DEF IntentInv, OthersStep, Next
<1>1. Agreement => Agreement'
  BY <1>0, SharedAgreement DEF TypeInv, TypeOK
<1>. QED
  BY <1>0, <1>1, OthersAct DEF IntentInv, TypeInv, TypeOK

(* So every step keeps it, unless somebody logs in or out elsewhere.       *)
LEMMA IntentStays ==
    ASSUME IntentInv, UNCHANGED vars
    PROVE  IntentInv'
  BY TypeStep DEF vars, sharedVars, registryVars, IntentInv, Agreement, Registered

(* So every step keeps it, unless somebody logs in or out elsewhere.       *)
THEOREM IntentStep ==
    ASSUME Logins = FALSE, IntentInv, [Next]_vars
    PROVE  IntentInv'
<1>1. CASE UNCHANGED vars
  BY <1>1, IntentStays
<1>. QED
  BY <1>1, IntentOwn, IntentOthers, NoOutsiders, OthersAct
     DEF Next, OwnStep, OthersStep, Bystanders, IntentInv, TypeInv, TypeOK

(* Without logins and logouts behind the Monitor's back, auth.json never   *)
(* names a saved account other than the active one unless the durable      *)
(* intent that explains it is on disk, through every crash, I/O error and  *)
(* interleaving with the daemon and the registry commands, and even when   *)
(* Desktop slips between a writer check and the rename it guards.          *)
THEOREM DivergenceCovered ==
    ASSUME Logins = FALSE
    PROVE  Spec => []IntentCoversDivergence
<1>1. Init => IntentInv
  BY IntentInitial
<1>2. IntentInv /\ [Next]_vars => IntentInv'
  BY IntentStep
<1>3. IntentInv => IntentCoversDivergence
  BY DEF IntentInv, Agreement, IntentCoversDivergence
<1>. QED
  BY <1>1, <1>2, <1>3, PTL DEF Spec

-----------------------------------------------------------------------------
(* What a live Desktop has loaded                                          *)

WindowSteps == {"rename", "restoreRename"}

(* The process a switch watches lives; Desktop is closed when auth.json is *)
(* replaced.                                                               *)
ProcessInv ==
    /\ TypeInv
    /\ Processes
    /\ pc # "idle" /\ op.mine => desktop = "on"
    /\ pc \in WindowSteps => desktop = "off"

(* The reconciliation ends the operation or goes on with it.               *)
LEMMA ReconcileEnds ==
    ASSUME TypeInv, AfterReconcile
    PROVE  Return \/ Goto("resolve") \/ Goto("relaunch") \/ Goto("launch")
  BY DEF AfterReconcile, TypeInv, TypeOK, Operations, Callers

(* Only a few steps of a switch change which process it watches, ...       *)
LEMMA MineKept ==
    ASSUME TypeInv, OwnStep, ~Preflight, ~Launch, ~Relaunch
    PROVE  pc' = "idle" \/ ~op'.mine \/ op'.mine = op.mine
<1>. USE DEF TypeInv, TypeOK, Operations
<1>1. CASE \E t \in Maybe(Accounts), r \in BOOLEAN : Start(t, r)
  <2>. PICK t \in Maybe(Accounts), r \in BOOLEAN : Start(t, r)
    BY <1>1
  <2>1. op' = [IdleOp EXCEPT !.target = t, !.restart = r]
    BY DEF Start
  <2>. QED
    BY <2>1 DEF IdleOp
<1>2. CASE Reconcile \/ Crash
  <2>1. Return \/ UNCHANGED op
    BY <1>2, ReconcileEnds
       DEF Reconcile, ReconcileNothing, ReconcileInspect, ReconcileCommit,
           ReconcileConfirm, ReconcileRefuse, ReconcileClear, Crash, Goto
  <2>. QED
    BY <2>1 DEF Return
<1>3. CASE Resolve \/ Stop \/ Stopped \/ StopFails
  BY <1>3 DEF Resolve, Stop, Stopped, StopFails, Return, Goto
<1>4. CASE PrepareStopped \/ PrepareOffline \/ Begin \/ Abort \/ Compare
  BY <1>4 DEF PrepareStopped, PrepareOffline, Begin, Abort, Compare, Return, Goto
<1>5. CASE Rename \/ Readback \/ Restore \/ RestoreRename \/ Commit \/ Verify
  BY <1>5 DEF Rename, Readback, Restore, RestoreRename, Commit, Verify, Return, Goto
<1>6. CASE EmergencyBind \/ Bind \/ VerifyBind
  BY <1>6 DEF EmergencyBind, Bind, VerifyBind, AfterBinding, Return, Goto
<1>. QED
  BY <1>1, <1>2, <1>3, <1>4, <1>5, <1>6 DEF OwnStep, SwitchStep, ReplaceAuth, Reopen

(* ... and which changes auth.json.                                        *)
LEMMA AuthKept ==
    ASSUME OwnStep, ~Rename, ~RestoreRename
    PROVE  UNCHANGED auth
<1>1. CASE \E t \in Maybe(Accounts), r \in BOOLEAN : Start(t, r)
  BY <1>1 DEF Start
<1>2. CASE Reconcile \/ Crash
  BY <1>2 DEF Reconcile, ReconcileNothing, ReconcileInspect, ReconcileCommit,
     ReconcileConfirm, ReconcileRefuse, ReconcileClear, Crash
<1>3. CASE Resolve \/ Preflight \/ Stop \/ Stopped \/ StopFails
  BY <1>3 DEF Resolve, Preflight, Stop, Stopped, StopFails
<1>4. CASE PrepareStopped \/ PrepareOffline \/ Begin \/ Abort \/ Compare \/ Readback \/ Restore
  BY <1>4 DEF PrepareStopped, PrepareOffline, Begin, Abort, Compare, Readback, Restore
<1>5. CASE Commit \/ Verify \/ Reopen
  BY <1>5 DEF Commit, Verify, Reopen, Launch, Relaunch, EmergencyBind, Bind, VerifyBind
<1>. QED
  BY <1>1, <1>2, <1>3, <1>4, <1>5 DEF OwnStep, SwitchStep, ReplaceAuth

(* Neither does a step that does not open or bind Desktop change its state.*)
LEMMA DesktopKept ==
    ASSUME OwnStep, ~Reopen
    PROVE  UNCHANGED processVars
<1>1. CASE \E t \in Maybe(Accounts), r \in BOOLEAN : Start(t, r)
  BY <1>1 DEF Start
<1>2. CASE Reconcile \/ Crash
  BY <1>2 DEF Reconcile, ReconcileNothing, ReconcileInspect, ReconcileCommit,
     ReconcileConfirm, ReconcileRefuse, ReconcileClear, Crash
<1>3. CASE Resolve \/ Preflight \/ Stop \/ Stopped \/ StopFails
  BY <1>3 DEF Resolve, Preflight, Stop, Stopped, StopFails
<1>4. CASE ReplaceAuth \/ Commit \/ Verify
  BY <1>4 DEF ReplaceAuth, PrepareStopped, PrepareOffline, Begin, Abort, Compare, Rename,
     Readback, Restore, RestoreRename, Commit, Verify
<1>. QED
  BY <1>1, <1>2, <1>3, <1>4 DEF OwnStep, SwitchStep

(* The replacement of auth.json begins only with Desktop closed.           *)
LEMMA WindowEntry ==
    ASSUME TypeInv, OwnStep, pc' \in WindowSteps
    PROVE  Compare \/ Restore
<1>. USE DEF WindowSteps, Return, Goto, AfterBinding
<1>1. CASE \E t \in Maybe(Accounts), r \in BOOLEAN : Start(t, r)
  BY <1>1 DEF Start
<1>2. CASE Reconcile \/ Crash
  BY <1>2, ReconcileEnds
     DEF Reconcile, ReconcileNothing, ReconcileInspect, ReconcileCommit,
         ReconcileConfirm, ReconcileRefuse, ReconcileClear, Crash
<1>3. CASE Resolve \/ Preflight \/ Stop \/ Stopped \/ StopFails
  BY <1>3 DEF Resolve, Preflight, Stop, Stopped, StopFails
<1>4. CASE PrepareStopped \/ PrepareOffline \/ Begin \/ Abort
  BY <1>4 DEF PrepareStopped, PrepareOffline, Begin, Abort
<1>5. CASE Rename \/ Readback \/ RestoreRename \/ Commit \/ Verify
  BY <1>5 DEF Rename, Readback, RestoreRename, Commit, Verify
<1>6. CASE Reopen
  BY <1>6 DEF Reopen, Launch, Relaunch, EmergencyBind, Bind, VerifyBind
<1>. QED
  BY <1>1, <1>2, <1>3, <1>4, <1>5, <1>6 DEF OwnStep, SwitchStep, ReplaceAuth

(* At first no switch has Desktop closed.                                  *)
THEOREM ProcessInitial == Init => ProcessInv
  BY TypeInitial, ProcessesAtFirst DEF Init, ProcessInv, WindowSteps

(* A switch replaces auth.json under a closed Desktop, and opens Desktop   *)
(* on what auth.json then holds.                                           *)
THEOREM ProcessOwn ==
    ASSUME ProcessInv, OwnStep
    PROVE  ProcessInv'
<1>0. TypeInv /\ TypeInv'
  BY TypeStep DEF ProcessInv, OwnStep, Next
<1>. USE DEF Processes, DesktopAgrees, processVars
<1>1. CASE Launch \/ Relaunch
  <2>1. CASE ~OpensDesktop
    <3>1. UNCHANGED <<auth, desktop, session, marker>> /\ (Goto("relaunch") \/ Return)
      BY <1>1, <2>1 DEF Launch, Relaunch
    <3>2. pc # "idle"
      BY <1>1 DEF Launch, Relaunch
    <3>. QED
      BY <1>0, <3>1, <3>2 DEF Return, Goto, ProcessInv, WindowSteps
  <2>2. CASE OpensDesktop
    <3>1. pc' \notin WindowSteps /\ desktop' = "on"
      BY <1>1, <2>2 DEF Launch, Relaunch, Return, Goto, OpensDesktop, WindowSteps
    <3>. QED
      BY <1>0, <1>1, <2>2, <3>1, ProcessesOpened DEF Launch, Relaunch, ProcessInv
  <2>. QED
    BY <2>1, <2>2
<1>2. CASE Bind \/ VerifyBind \/ EmergencyBind
  <2>1. /\ UNCHANGED <<auth, desktop, session>>
        /\ marker' # None => marker' = marker \/ desktop = "on"
    BY <1>2 DEF Bind, VerifyBind, EmergencyBind
  <2>2. pc' \notin WindowSteps
    BY <1>2 DEF Bind, VerifyBind, EmergencyBind, AfterBinding, Return, Goto, WindowSteps
  <2>3. pc' = "idle" \/ ~op'.mine \/ op'.mine = op.mine
    BY <1>0, <1>2, MineKept
       DEF OwnStep, SwitchStep, Reopen, Bind, VerifyBind, EmergencyBind, Launch,
           Relaunch, Preflight
  <2>4. pc # "idle"
    BY <1>2 DEF Bind, VerifyBind, EmergencyBind
  <2>. QED
    BY <1>0, <2>1, <2>2, <2>3, <2>4 DEF ProcessInv
<1>3. CASE ~Reopen
  <2>1. UNCHANGED <<desktop, session, marker>>
    BY <1>3, DesktopKept
  <2>2. UNCHANGED auth \/ desktop = "off"
    BY AuthKept DEF ProcessInv, Rename, RestoreRename, WindowSteps
  <2>3. Processes'
    BY <2>1, <2>2 DEF ProcessInv
  <2>4. pc' \in WindowSteps => desktop = "off"
    BY <1>0, WindowEntry DEF Compare, Restore, WriterActive, Goto, WindowSteps
  <2>5. pc' # "idle" /\ op'.mine => desktop = "on"
    <3>1. CASE Preflight
      BY <1>0, <3>1 DEF Preflight, Return, TypeInv, TypeOK, Operations
    <3>2. CASE ~Preflight
      <4>1. pc = "idle" => ~op'.mine
        <5>1. pc = "idle" => \E t \in Maybe(Accounts), r \in BOOLEAN : Start(t, r)
          BY DEF OwnStep, SwitchStep, Reconcile, ReconcileNothing, ReconcileInspect,
             ReconcileCommit, ReconcileConfirm, ReconcileRefuse, ReconcileClear,
             Resolve, Preflight, Stop, Stopped, StopFails, ReplaceAuth,
             PrepareStopped, PrepareOffline, Begin, Abort, Compare, Rename, Readback,
             Restore, RestoreRename, Commit, Verify, Reopen, Launch, Relaunch,
             EmergencyBind, Bind, VerifyBind, Crash
        <5>. QED
          BY <5>1 DEF Start, IdleOp
      <4>2. pc' = "idle" \/ ~op'.mine \/ op'.mine = op.mine
        BY <1>0, <1>3, <3>2, MineKept DEF Reopen
      <4>. QED
        BY <4>1, <4>2 DEF ProcessInv
    <3>. QED
      BY <3>1, <3>2
  <2>. QED
    BY <1>0, <2>1, <2>3, <2>4, <2>5 DEF ProcessInv
<1>. QED
  BY <1>1, <1>2, <1>3 DEF Reopen

(* Nobody else opens Desktop on other credentials, as long as Desktop does *)
(* not start between the check for writers and the write.                  *)
THEOREM ProcessOthers ==
    ASSUME ProcessInv, OthersStep, Race = FALSE
    PROVE  ProcessInv'
<1>0. TypeInv /\ TypeInv' /\ op \in Operations
  BY TypeStep DEF ProcessInv, OthersStep, Next, TypeInv, TypeOK
<1>1. Processes'
  BY <1>0, OthersAct, SharedProcesses DEF ProcessInv, TypeInv, TypeOK
<1>2. UNCHANGED pc /\ (op'.mine => op.mine)
  BY <1>0, OthersAct DEF Operations
<1>3. pc \in WindowSteps => UNCHANGED desktop
  BY DEF OthersStep, OtherWriters, Outside, WatchedDesktopQuit, Unhindered, WindowOpen,
     WindowSteps, UnlockedWriters, DaemonSync, QuotaPoll, Remove, WriterQuit,
     DesktopQuit, ProcessInv, processVars
<1>4. op'.mine /\ op.mine /\ desktop = "on" => desktop' = "on"
  BY <1>0 DEF OthersStep, OtherWriters, Outside, WatchedDesktopQuit, Operations,
     UnlockedWriters, DaemonSync, QuotaPoll, Remove, Relogin, InferBinding, Rotate,
     Logout, Login, UserLaunch, WriterQuit, OpensDesktop, processVars
<1>. QED
  BY <1>0, <1>1, <1>2, <1>3, <1>4 DEF ProcessInv

(* A step that changes nothing changes none of this.                       *)
LEMMA ProcessStays ==
    ASSUME ProcessInv, UNCHANGED vars
    PROVE  ProcessInv'
  BY TypeStep
     DEF vars, sharedVars, processVars, ProcessInv, Processes, DesktopAgrees

(* No split brain during a switch: while Desktop does not slip between the *)
(* check for writers and the rename it guards, a live Desktop and          *)
(* auth.json name the same account, even after a login elsewhere.          *)
THEOREM NoSplitBrain ==
    ASSUME Race = FALSE
    PROVE  Spec => []DesktopAgrees
<1>1. ProcessInv /\ [Next]_vars => ProcessInv'
  <2>. SUFFICES ASSUME ProcessInv, [Next]_vars PROVE ProcessInv'
    OBVIOUS
  <2>1. CASE UNCHANGED vars
    BY <2>1, ProcessStays
  <2>. QED
    BY <2>1, ProcessOwn, ProcessOthers DEF Next, OwnStep, OthersStep
<1>2. ProcessInv => DesktopAgrees
  BY DEF ProcessInv, Processes
<1>. QED
  BY <1>1, <1>2, ProcessInitial, PTL DEF Spec

-----------------------------------------------------------------------------
(* What the marker says of that Desktop                                    *)

ReconcileSteps == {"reconcile", "confirmPrior", "commitIntent", "confirmTarget", "clear"}

(* auth.json holds the target, and Desktop is about to be opened on it.    *)
Switched == pc = "launch" \/ (op.caller = "final" /\ pc \in ReconcileSteps)

(* The account a switch is about to bind is the one the process it opened  *)
(* has loaded.                                                             *)
MarkerInv ==
    /\ ProcessInv
    /\ MarkerTruth
    /\ Switched => auth # None /\ auth.acct = op.target
    /\ pc = "bind" /\ op.mine => session = op.bind
    /\ pc = "emergencyBind" /\ op.mine /\ auth # None => session = auth.acct

(* At first the marker names the account Desktop runs with, or none.       *)
THEOREM MarkerInitial == Init => MarkerInv
  BY ProcessInitial, ProcessesAtFirst DEF Init, MarkerInv, Switched, ReconcileSteps

(* A step outside the reconciliation that does not end in it.              *)
LEMMA MarkerFrame ==
    ASSUME MarkerInv, ProcessInv', UNCHANGED <<session, marker>>,
           ~Switched', pc' \notin {"bind", "emergencyBind"}
    PROVE  MarkerInv'
  BY DEF MarkerInv, MarkerTruth

(* A switch binds the process it opened to the account that process loaded.*)
THEOREM MarkerOwn ==
    ASSUME MarkerInv, OwnStep
    PROVE  MarkerInv'
<1>0. TypeInv /\ op \in Operations /\ ProcessInv'
  BY ProcessOwn DEF MarkerInv, ProcessInv, TypeInv, TypeOK
<1>. USE DEF Switched, ReconcileSteps
<1>1. CASE Return /\ ~Reopen
  BY <1>0, <1>1, MarkerFrame, DesktopKept DEF Return, processVars
<1>2. CASE \E t \in Maybe(Accounts), r \in BOOLEAN : Start(t, r)
  <2>1. pc' = "reconcile" /\ op'.caller = "entry"
    BY <1>2 DEF Start, IdleOp
  <2>2. UNCHANGED <<session, marker>>
    BY <1>2 DEF Start, processVars
  <2>. QED
    BY <1>0, <2>1, <2>2, MarkerFrame
<1>3. CASE Reconcile /\ ~Return
  <2>1. UNCHANGED <<auth, op, session, marker>> /\ pc \in ReconcileSteps
    BY <1>0, <1>3, ReconcileEnds
       DEF Reconcile, ReconcileNothing, ReconcileInspect, ReconcileCommit,
           ReconcileConfirm, ReconcileRefuse, ReconcileClear, Goto, processVars
  <2>2. pc' \in ReconcileSteps \union {"launch", "resolve", "relaunch"}
    BY <1>0, <1>3, ReconcileEnds
       DEF Reconcile, ReconcileNothing, ReconcileInspect, ReconcileCommit,
           ReconcileConfirm, ReconcileRefuse, ReconcileClear, Goto
  <2>3. pc' = "launch" => op.caller = "final"
    BY <1>0, <1>3
       DEF Reconcile, ReconcileNothing, ReconcileInspect, ReconcileCommit, Operations,
           ReconcileConfirm, ReconcileRefuse, ReconcileClear, Goto, AfterReconcile, Callers
  <2>. QED
    BY <1>0, <2>1, <2>2, <2>3 DEF MarkerInv, MarkerTruth
<1>4. CASE Resolve \/ Preflight \/ Stop \/ Stopped \/ StopFails
  <2>1. pc' \in {"idle", "preflight", "stop", "stopping", "prepare", "relaunch"}
    BY <1>4 DEF Resolve, Preflight, Stop, Stopped, StopFails, Return, Goto
  <2>2. UNCHANGED <<session, marker>>
    BY <1>4 DEF Resolve, Preflight, Stop, Stopped, StopFails, processVars
  <2>. QED
    BY <1>0, <2>1, <2>2, MarkerFrame
<1>5. CASE ReplaceAuth
  <2>1. UNCHANGED <<session, marker>>
    BY <1>5 DEF ReplaceAuth, PrepareStopped, PrepareOffline, Begin, Abort, Compare, Rename,
       Readback, Restore, RestoreRename, processVars
  <2>2. /\ pc' \in TargetSteps \union IntentSteps \union {"idle", "relaunch", "reconcile"}
        /\ pc' \notin {"confirmPrior", "commitIntent", "confirmTarget", "clear"}
    BY <1>5 DEF ReplaceAuth, PrepareStopped, PrepareOffline, Begin, Abort, Compare, Rename,
       Readback, Restore, RestoreRename, Return, Goto, TargetSteps, IntentSteps
  <2>3. pc' = "reconcile" => op' = [op EXCEPT !.caller = "undo"]
    BY <1>5 DEF ReplaceAuth, PrepareStopped, PrepareOffline, Begin, Abort, Compare, Rename,
       Readback, Restore, RestoreRename, Return, Goto
  <2>4. pc' = "reconcile" => op'.caller = "undo"
    BY <1>0, <2>3 DEF Operations
  <2>. QED
    BY <1>0, <2>1, <2>2, <2>4, MarkerFrame DEF TargetSteps, IntentSteps
<1>6. CASE Commit
  BY <1>0, <1>6, MarkerFrame DEF Commit, Goto, processVars
<1>7. CASE Verify /\ ~Return
  <2>1. /\ auth = Committed /\ auth \in Credentials /\ auth' = auth
        /\ op' = [op EXCEPT !.caller = "final"] /\ pc' = "reconcile"
        /\ UNCHANGED <<session, marker>>
    <3>1. auth = Committed /\ Committed \in Credentials
      BY <1>0, <1>7, CommittedTyped DEF Verify, TargetSteps
    <3>. QED
      BY <1>7, <3>1 DEF Verify, processVars
  <2>2. auth # None /\ auth.acct = op.target
    BY <2>1, NoneAssumption DEF Committed, Credential
  <2>3. op'.target = op.target
    BY <1>0, <2>1 DEF Operations
  <2>. QED
    BY <1>0, <2>1, <2>2, <2>3 DEF MarkerInv, MarkerTruth
<1>8. CASE Launch
  <2>1. auth # None /\ auth.acct = op.target /\ UNCHANGED auth
    BY <1>8 DEF Launch, MarkerInv
  <2>2. CASE OpensDesktop
    <3>1. session' = op.target /\ MarkerTruth'
      BY <2>1, <2>2, ProcessesOpened DEF OpensDesktop
    <3>2. \/ pc' = "relaunch"
          \/ pc' = "bind" /\ op' = [op EXCEPT !.mine = TRUE, !.bind = op.target]
      BY <1>8, <2>2 DEF Launch, Goto
    <3>3. pc' = "bind" => op'.bind = op.target
      BY <1>0, <3>2 DEF Operations
    <3>. QED
      BY <1>0, <3>1, <3>2, <3>3 DEF MarkerInv
  <2>3. CASE ~OpensDesktop
    BY <1>0, <1>8, <2>3, MarkerFrame DEF Launch, Goto, processVars
  <2>. QED
    BY <2>2, <2>3
<1>9. CASE Relaunch
  <2>1. CASE OpensDesktop
    <3>1. /\ MarkerTruth' /\ UNCHANGED auth
          /\ auth # None => session' = auth.acct
      BY <1>9, <2>1, ProcessesOpened DEF OpensDesktop, Relaunch
    <3>2. pc' \in {"idle", "emergencyBind"}
      BY <1>9 DEF Relaunch, Return
    <3>. QED
      BY <1>0, <3>1, <3>2 DEF MarkerInv
  <2>2. CASE ~OpensDesktop
    BY <1>0, <1>9, <2>2, MarkerFrame DEF Relaunch, Return, processVars
  <2>. QED
    BY <2>1, <2>2
<1>10. CASE EmergencyBind
  <2>1. UNCHANGED <<session, marker>>
    BY <1>10 DEF EmergencyBind, processVars
  <2>2. CASE Return
    BY <1>0, <2>1, <2>2, MarkerFrame DEF Return
  <2>3. CASE ~Return
    <3>1. /\ auth # None /\ auth.acct = active
          /\ pc' = "bind" /\ op' = [op EXCEPT !.bind = active]
      BY <1>10, <2>3 DEF EmergencyBind, VerifiedCli
    <3>2. op'.bind = active /\ op'.mine = op.mine
      BY <1>0, <3>1 DEF Operations, TypeInv, TypeOK, SharedTypeOK
    <3>. QED
      BY <1>0, <1>10, <2>1, <3>1, <3>2 DEF EmergencyBind, MarkerInv, MarkerTruth
  <2>. QED
    BY <2>2, <2>3
<1>11. CASE Bind \/ VerifyBind
  <2>1. pc' \in {"idle", "relaunch", "verifyBind"} /\ UNCHANGED session
    BY <1>11 DEF Bind, VerifyBind, AfterBinding, Return, Goto
  <2>2. MarkerTruth'
    BY <1>11 DEF Bind, VerifyBind, MarkerInv, MarkerTruth
  <2>. QED
    BY <1>0, <2>1, <2>2 DEF MarkerInv
<1>. QED
  BY <1>1, <1>2, <1>3, <1>4, <1>5, <1>6, <1>7, <1>8, <1>9, <1>10, <1>11
     DEF OwnStep, SwitchStep, Reopen, Crash, Reconcile, ReconcileNothing,
         ReconcileInspect, ReconcileCommit, ReconcileConfirm, ReconcileRefuse,
         ReconcileClear

(* Nobody but a login elsewhere changes what that process has loaded.      *)
THEOREM MarkerOthers ==
    ASSUME MarkerInv, OthersStep, Race = FALSE,
           Insiders \/ \E a \in Accounts : Relogin(a)
    PROVE  MarkerInv'
<1>0. TypeInv /\ op \in Operations /\ ProcessInv'
  BY ProcessOthers DEF MarkerInv, ProcessInv, TypeInv, TypeOK
<1>1. MarkerTruth'
  BY <1>0, SharedMarker DEF MarkerInv, ProcessInv, TypeInv, TypeOK
<1>2. /\ auth' = None <=> auth = None
      /\ auth # None => auth'.acct = auth.acct
  BY <1>0, SharedIdentity DEF TypeInv, TypeOK
<1>3. /\ UNCHANGED pc /\ op'.target = op.target /\ op'.caller = op.caller
      /\ op'.bind = op.bind /\ (op'.mine => op.mine)
  BY <1>0, OthersAct DEF Operations
<1>4. pc # "idle" /\ op'.mine => UNCHANGED session
  BY <1>0, <1>3
     DEF MarkerInv, ProcessInv, Insiders, UnlockedWriters, DaemonSync, QuotaPoll, Remove,
         Relogin, InferBinding, Rotate, UserLaunch, DesktopQuit, WriterQuit, processVars
<1>. QED
  BY <1>0, <1>1, <1>2, <1>3, <1>4 DEF MarkerInv, Switched, ReconcileSteps

(* A step that changes nothing changes none of this.                       *)
LEMMA MarkerStays ==
    ASSUME MarkerInv, UNCHANGED vars
    PROVE  MarkerInv'
  BY TypeStep
     DEF vars, sharedVars, processVars, MarkerInv, ProcessInv, Processes,
         DesktopAgrees, MarkerTruth, Switched

(* Unless somebody logs in or out elsewhere, the marker a switch leaves    *)
(* names the account that the live Desktop has loaded.                     *)
THEOREM MarkerTrue ==
    ASSUME Race = FALSE, Logins = FALSE
    PROVE  Spec => []MarkerTruth
<1>1. MarkerInv /\ [Next]_vars => MarkerInv'
  <2>. SUFFICES ASSUME MarkerInv, [Next]_vars PROVE MarkerInv'
    OBVIOUS
  <2>1. CASE UNCHANGED vars
    BY <2>1, MarkerStays
  <2>. QED
    BY <2>1, MarkerOwn, MarkerOthers, NoOutsiders, OthersAct
       DEF Next, OwnStep, OthersStep, Bystanders, MarkerInv, ProcessInv, TypeInv, TypeOK
<1>2. MarkerInv => MarkerTruth
  BY DEF MarkerInv
<1>. QED
  BY <1>1, <1>2, MarkerInitial, PTL DEF Spec

-----------------------------------------------------------------------------
(* What a crash leaves to recover                                          *)

(* A switch that has not read auth.json yet remembers no credential.       *)
Unread == pc = "resolve" \/ (op.caller = "entry" /\ pc \in ReconcileSteps)

Fresh == Unread => op.previous = None

(* A step of the switch reads auth.json before it remembers a credential.  *)
LEMMA FreshOwn ==
    ASSUME TypeInv, Fresh, OwnStep
    PROVE  Fresh'
<1>0. op \in Operations
  BY DEF TypeInv, TypeOK
<1>. USE DEF Fresh, Unread, ReconcileSteps
<1>1. CASE Return
  BY <1>1 DEF Return
<1>2. CASE \E t \in Maybe(Accounts), r \in BOOLEAN : Start(t, r)
  <2>1. op'.previous = None
    BY <1>2 DEF Start, IdleOp
  <2>. QED
    BY <2>1
<1>3. CASE Reconcile /\ ~Return
  <2>1. UNCHANGED op /\ pc \in ReconcileSteps
    BY <1>3, ReconcileEnds
       DEF Reconcile, ReconcileNothing, ReconcileInspect, ReconcileCommit,
           ReconcileConfirm, ReconcileRefuse, ReconcileClear, Goto
  <2>2. pc' = "resolve" => op.caller = "entry"
    BY <1>0, <1>3
       DEF Reconcile, ReconcileNothing, ReconcileInspect, ReconcileCommit, Operations,
           ReconcileConfirm, ReconcileRefuse, ReconcileClear, Goto, AfterReconcile, Callers
  <2>. QED
    BY <2>1, <2>2
<1>4. CASE Resolve \/ Preflight \/ Stop \/ Stopped \/ StopFails
  BY <1>4 DEF Resolve, Preflight, Stop, Stopped, StopFails, Return, Goto
<1>5. CASE ReplaceAuth \/ Verify
  <2>1. pc' = "reconcile" => op'.caller # "entry"
    <3>1. pc' = "reconcile" =>
             op' = [op EXCEPT !.caller = "undo"] \/ op' = [op EXCEPT !.caller = "final"]
      BY <1>5 DEF ReplaceAuth, PrepareStopped, PrepareOffline, Begin, Abort, Compare, Rename,
         Readback, Restore, RestoreRename, Verify, Return, Goto
    <3>. QED
      BY <1>0, <3>1 DEF Operations
  <2>2. pc' \notin {"resolve", "confirmPrior", "commitIntent", "confirmTarget", "clear"}
    BY <1>5 DEF ReplaceAuth, PrepareStopped, PrepareOffline, Begin, Abort, Compare, Rename,
       Readback, Restore, RestoreRename, Verify, Return, Goto
  <2>. QED
    BY <2>1, <2>2
<1>6. CASE Commit \/ Reopen
  BY <1>6 DEF Commit, Reopen, Launch, Relaunch, EmergencyBind, Bind, VerifyBind,
     AfterBinding, Return, Goto
<1>. QED
  BY <1>1, <1>2, <1>3, <1>4, <1>5, <1>6 DEF OwnStep, SwitchStep, Crash, Reconcile

(* Nobody else touches what the switch remembers.                          *)
LEMMA FreshOthers ==
    ASSUME TypeInv, Fresh, OthersStep
    PROVE  Fresh'
<1>1. UNCHANGED pc /\ op'.caller = op.caller /\ op'.previous = op.previous
  BY OthersAct DEF TypeInv, TypeOK, Operations
<1>. QED
  BY <1>1 DEF Fresh, Unread

(* The registry has this credential.                                       *)
Held(c) == c # None => saved[c.acct] = c.ver

(* The steps before auth.json is written.                                  *)
BeforeSteps == {"preflight", "stop", "stopping", "prepare", "begin", "abort",
                "compare", "rename"}

(* The steps before the intent is recorded, and those that rely on it.     *)
UnjournaledSteps == {"resolve", "preflight", "stop", "stopping", "prepare", "begin"}

JournaledSteps == {"compare", "rename", "readback", "restore", "restoreRename",
                   "commit", "verify"}

(* Nothing is registered or refreshed, so the registry has every           *)
(* credential the switch or its intent names, and the intent names what    *)
(* auth.json holds before and after the write.                             *)
RecoverInv ==
    /\ TypeInv /\ Fresh
    /\ IntentRecoverable
    /\ Held(auth)
    /\ journal # None =>
         /\ Held(journal.prior) /\ Held(journal.committed)
         /\ journal.prior # None => journal.prior.acct = journal.from
         /\ journal.committed.acct = journal.to
    /\ pc \in BeforeSteps => auth = op.previous /\ Held(Committed)
    /\ pc \in BeforeSteps \ {"abort"} =>
         active = op.from /\ (auth # None => op.from = auth.acct)
    /\ pc \in UnjournaledSteps => journal = None
    /\ pc \in JournaledSteps => journal = Intent

(* At first there is no intent, and auth.json is what the registry saved.  *)
THEOREM RecoverInitial == Init => RecoverInv
<1>. SUFFICES ASSUME Init PROVE RecoverInv
  OBVIOUS
<1>1. Held(auth)
  <2>1. PICK a \in Accounts, others \in SUBSET Accounts :
           /\ a \in others
           /\ auth \in {None, Credential(a, 1)}
           /\ saved = [b \in Accounts |-> IF b \in others THEN 1 ELSE 0]
    BY DEF Init, SharedInit
  <2>. QED
    BY <2>1 DEF Held, Credential
<1>. QED
  BY <1>1, TypeInitial
     DEF Init, RecoverInv, Fresh, Unread, ReconcileSteps, IntentRecoverable,
         BeforeSteps, UnjournaledSteps, JournaledSteps

(* A sync finds nothing to save.                                           *)
LEMMA SyncHeld ==
    ASSUME SharedTypeOK, Held(auth), SyncRegistry
    PROVE  UNCHANGED saved /\ active' = auth.acct /\ auth # None
  BY DEF SharedTypeOK, Held, SyncRegistry

(* A step that leaves the files and the intent alone.                      *)
LEMMA RecoverFrame ==
    ASSUME RecoverInv, TypeInv', Fresh', UNCHANGED <<auth, active, saved, journal>>,
           pc' \notin BeforeSteps \union UnjournaledSteps \union JournaledSteps
    PROVE  RecoverInv'
  BY DEF RecoverInv, IntentRecoverable, Held

(* The next step of a switch that has chosen what to write.                *)
LEMMA RecoverNext ==
    ASSUME RecoverInv, TypeInv', Fresh', UNCHANGED <<auth, active, saved, journal>>,
           /\ op'.target = op.target /\ op'.selected = op.selected
           /\ op'.from = op.from /\ op'.previous = op.previous,
           pc' \in BeforeSteps => pc \in BeforeSteps \ {"abort"},
           pc' \in UnjournaledSteps => journal = None,
           pc' \in JournaledSteps => journal = Intent
    PROVE  RecoverInv'
  BY DEF RecoverInv, IntentRecoverable, Held, Committed, Credential, Intent

(* A step of the switch leaves an intent that the next start can resolve.  *)
THEOREM RecoverOwn ==
    ASSUME RecoverInv, OwnStep
    PROVE  RecoverInv'
<1>0. /\ TypeInv /\ SharedTypeOK /\ op \in Operations
      /\ TypeInv' /\ Fresh'
  BY TypeStep, FreshOwn DEF RecoverInv, TypeInv, TypeOK, OwnStep, Next
<1>. USE DEF BeforeSteps, UnjournaledSteps, JournaledSteps
<1>1. CASE \E t \in Maybe(Accounts), r \in BOOLEAN : Start(t, r)
  BY <1>0, <1>1, RecoverFrame DEF Start, registryVars
<1>2. CASE ReconcileNothing \/ ReconcileInspect \/ ReconcileConfirm \/ ReconcileRefuse
  <2>1. UNCHANGED <<auth, active, saved, journal>>
    BY <1>2 DEF ReconcileNothing, ReconcileInspect, ReconcileConfirm, ReconcileRefuse,
       registryVars
  <2>2. CASE pc' = "resolve"
    <3>1. ReconcileNothing /\ UNCHANGED op
      BY <1>0, <1>2, <2>2
         DEF ReconcileNothing, ReconcileInspect, ReconcileConfirm, ReconcileRefuse,
             AfterReconcile, Return, Goto, Operations, Callers
    <3>. QED
      BY <1>0, <2>1, <2>2, <3>1, RecoverNext DEF ReconcileNothing
  <2>3. CASE pc' # "resolve"
    <3>1. pc' \notin BeforeSteps \union UnjournaledSteps \union JournaledSteps
      BY <1>0, <1>2, <2>3, ReconcileEnds
         DEF ReconcileNothing, ReconcileInspect, ReconcileConfirm, ReconcileRefuse,
             Return, Goto
    <3>. QED
      BY <1>0, <2>1, <3>1, RecoverFrame
  <2>. QED
    BY <2>2, <2>3
<1>3. CASE ReconcileCommit
  <2>1. pc' \in {"idle", "confirmTarget"} /\ journal # None
    BY <1>0, <1>3 DEF ReconcileCommit, Return, Goto, TypeInv, AtSteps, IntentSteps
  <2>2. UNCHANGED <<auth, saved, journal>> /\ active' \in {active, journal.to}
    BY <1>3 DEF ReconcileCommit
  <2>. QED
    BY <1>0, <2>1, <2>2 DEF RecoverInv, IntentRecoverable, Held
<1>4. CASE ReconcileClear
  <2>1. UNCHANGED <<auth, active, saved>>
    BY <1>4 DEF ReconcileClear, registryVars
  <2>2. CASE pc' = "resolve"
    <3>1. journal' = None
      BY <1>4, <2>2 DEF ReconcileClear, Return
    <3>. QED
      BY <1>0, <2>1, <2>2, <3>1 DEF RecoverInv, IntentRecoverable, Held
  <2>3. CASE pc' # "resolve"
    <3>1. pc' \notin BeforeSteps \union UnjournaledSteps \union JournaledSteps
      BY <1>0, <1>4, <2>3, ReconcileEnds DEF ReconcileClear, Return, Goto
    <3>2. journal' = None \/ journal' = journal
      BY <1>4 DEF ReconcileClear
    <3>. QED
      BY <1>0, <2>1, <3>1, <3>2 DEF RecoverInv, IntentRecoverable, Held
  <2>. QED
    BY <2>2, <2>3
<1>5. CASE Resolve
  <2>1. /\ op.target \in Accounts /\ journal = None /\ op.previous = None
        /\ UNCHANGED <<auth, journal>> /\ pc' \in {"idle", "preflight"}
    BY <1>0, <1>5 DEF Resolve, Return, TypeInv, AtSteps, RecoverInv, Fresh, Unread
  <2>2. UNCHANGED saved
    BY <1>0, <1>5, SyncHeld DEF Resolve, RecoverInv, registryVars
  <2>3. CASE pc' = "idle"
    BY <1>0, <2>1, <2>2, <2>3 DEF RecoverInv, IntentRecoverable, Held
  <2>4. CASE pc' = "preflight" /\ auth = None
    <3>1. /\ UNCHANGED active
          /\ op' = [op EXCEPT !.selected = saved[op.target], !.from = active]
      BY <1>5, <2>4 DEF Resolve, SyncRegistry, Return, registryVars
    <3>2. /\ op'.target = op.target /\ op'.selected = saved'[op.target]
          /\ op'.from = active /\ op'.previous = op.previous
      BY <1>0, <2>2, <3>1 DEF Operations
    <3>. QED
      BY <1>0, <2>1, <2>2, <2>4, <3>1, <3>2
         DEF RecoverInv, IntentRecoverable, Held, Committed, Credential
  <2>5. CASE pc' = "preflight" /\ auth # None
    <3>1. /\ active' = auth.acct
          /\ op' = [op EXCEPT !.selected = saved'[op.target],
                              !.from = auth.acct, !.previous = auth]
      BY <1>5, <2>5 DEF Resolve, SyncRegistry, Return
    <3>2. /\ op'.target = op.target /\ op'.selected = saved'[op.target]
          /\ op'.from = auth.acct /\ op'.previous = auth
      BY <1>0, <3>1 DEF Operations
    <3>3. Held(auth)' /\ Held(Committed)'
      BY <2>1, <2>2, <3>2 DEF RecoverInv, Held, Committed, Credential
    <3>. QED
      BY <1>0, <2>1, <2>5, <3>1, <3>2, <3>3 DEF RecoverInv, IntentRecoverable
  <2>. QED
    BY <2>1, <2>3, <2>4, <2>5
<1>6. CASE Preflight \/ Stop \/ Stopped \/ StopFails \/ PrepareOffline
  <2>1. UNCHANGED <<auth, active, saved, journal>>
    BY <1>6 DEF Preflight, Stop, Stopped, StopFails, PrepareOffline, registryVars
  <2>2. CASE pc' \in {"idle", "relaunch"}
    BY <1>0, <2>1, <2>2, RecoverFrame
  <2>3. CASE pc' \notin {"idle", "relaunch"}
    <3>1. pc \in {"preflight", "stop", "stopping", "prepare"}
      BY <1>6 DEF Preflight, Stop, Stopped, StopFails, PrepareOffline
    <3>2. pc' \in UnjournaledSteps
      BY <1>6, <2>3 DEF Preflight, Stop, Stopped, StopFails, PrepareOffline, Return, Goto
    <3>3. /\ op'.target = op.target /\ op'.selected = op.selected
          /\ op'.from = op.from /\ op'.previous = op.previous
      BY <1>0, <1>6, <2>3
         DEF Preflight, Stop, Stopped, StopFails, PrepareOffline, Return, Goto, Operations
    <3>. QED
      BY <1>0, <2>1, <3>1, <3>2, <3>3, RecoverNext DEF RecoverInv
  <2>. QED
    BY <2>2, <2>3
<1>7. CASE PrepareStopped
  <2>1. CASE SyncRegistry /\ pc' \in {"begin", "abort"}
    <3>1. /\ UNCHANGED <<saved, auth, journal>> /\ active' = auth.acct /\ auth # None
          /\ op' = [op EXCEPT !.from = auth.acct, !.previous = auth]
          /\ journal = None
      BY <1>0, <1>7, <2>1, SyncHeld DEF PrepareStopped, RecoverInv, Goto
    <3>2. /\ op'.target = op.target /\ op'.selected = op.selected
          /\ op'.from = auth.acct /\ op'.previous = auth
      BY <1>0, <3>1 DEF Operations
    <3>. QED
      BY <1>0, <1>7, <2>1, <3>1, <3>2
         DEF PrepareStopped, RecoverInv, IntentRecoverable, Held, Committed, Credential
  <2>2. CASE Goto("relaunch") /\ UNCHANGED registryVars
    BY <1>0, <1>7, <2>2, RecoverFrame DEF PrepareStopped, Goto, registryVars
  <2>. QED
    BY <1>7, <2>1, <2>2 DEF PrepareStopped
<1>8. CASE Begin
  <2>1. CASE UNCHANGED journal /\ pc' = "abort"
    BY <1>0, <1>8, <2>1, RecoverNext DEF Begin, Goto, registryVars
  <2>2. CASE journal' = Intent
    <3>1. /\ UNCHANGED <<auth, active, saved, op>> /\ pc' \in {"compare", "abort"}
          /\ pc = "begin"
      BY <1>8, <2>2 DEF Begin, Goto, registryVars
    <3>2. /\ auth = op.previous /\ Held(auth) /\ Held(Committed) /\ active = op.from
          /\ auth # None => op.from = auth.acct
      BY <3>1 DEF RecoverInv
    <3>3. /\ Intent.prior = op.previous /\ Intent.committed = Committed
          /\ Intent.from = op.from /\ Intent.to = op.target
          /\ Committed.acct = op.target
          /\ Intent' = Intent /\ Committed' = Committed
      BY <3>1 DEF Intent, Committed, Credential
    <3>4. Held(auth)' /\ Held(Committed)' /\ Held(journal.prior)'
      BY <2>2, <3>1, <3>2, <3>3 DEF Held
    <3>5. IntentRecoverable'
      BY <2>2, <3>1, <3>2, <3>3, <3>4 DEF IntentRecoverable, Held
    <3>6. /\ Held(journal.committed)'
          /\ journal'.prior # None => journal'.prior.acct = journal'.from
          /\ journal'.committed.acct = journal'.to
      BY <2>2, <3>1, <3>2, <3>3 DEF Held
    <3>. QED
      BY <1>0, <2>2, <3>1, <3>2, <3>3, <3>4, <3>5, <3>6 DEF RecoverInv
  <2>. QED
    BY <1>8, <2>1, <2>2 DEF Begin, Goto
<1>9. CASE Abort \/ Verify \/ Crash \/ Reopen
  <2>1. UNCHANGED <<auth, active, saved, journal>>
    BY <1>9 DEF Abort, Verify, Crash, Reopen, Launch, Relaunch, EmergencyBind, Bind,
       VerifyBind, registryVars
  <2>2. pc' \notin BeforeSteps \union UnjournaledSteps \union JournaledSteps
    BY <1>9 DEF Abort, Verify, Crash, Reopen, Launch, Relaunch, EmergencyBind, Bind,
       VerifyBind, AfterBinding, Return, Goto
  <2>. QED
    BY <1>0, <2>1, <2>2, RecoverFrame
<1>10. CASE Compare \/ Readback \/ Restore
  <2>1. UNCHANGED <<auth, active, saved, journal>>
    BY <1>10 DEF Compare, Readback, Restore, registryVars
  <2>2. CASE pc' = "reconcile"
    BY <1>0, <2>1, <2>2, RecoverFrame
  <2>3. CASE pc' # "reconcile"
    BY <1>0, <1>10, <2>1, <2>3, RecoverNext
       DEF Compare, Readback, Restore, Goto, RecoverInv
  <2>. QED
    BY <2>2, <2>3
<1>11. CASE Rename \/ RestoreRename
  <2>1. /\ UNCHANGED <<active, saved, journal>> /\ journal = Intent /\ journal # None
        /\ auth' \in {auth, op.previous, Committed}
        /\ pc' \in {"readback", "reconcile"}
    BY <1>0, <1>11
       DEF Rename, RestoreRename, registryVars, RecoverInv, TypeInv, AtSteps, IntentSteps,
           Goto
  <2>2. Intent.prior = op.previous /\ Intent.committed = Committed
    BY DEF Intent
  <2>3. Held(auth)' /\ auth' \in {journal.prior, journal.committed}
    BY <2>1, <2>2 DEF RecoverInv, Held, IntentRecoverable
  <2>4. pc' = "readback" => UNCHANGED op
    BY <1>11 DEF Rename, RestoreRename, Goto
  <2>5. pc' = "readback" => journal' = Intent'
    BY <2>1, <2>4 DEF Intent, Committed, Credential
  <2>. QED
    BY <1>0, <2>1, <2>3, <2>5 DEF RecoverInv, IntentRecoverable, Held
<1>12. CASE Commit
  <2>1. /\ UNCHANGED <<auth, saved, journal, op>> /\ journal = Intent /\ journal # None
        /\ active' \in {active, op.target} /\ pc' \in {"verify", "restore"}
    BY <1>0, <1>12 DEF Commit, RecoverInv, TypeInv, AtSteps, IntentSteps, Goto
  <2>2. Intent.to = op.target /\ Intent' = Intent
    BY <2>1 DEF Intent, Committed, Credential
  <2>. QED
    BY <1>0, <2>1, <2>2 DEF RecoverInv, IntentRecoverable, Held
<1>. QED
  BY <1>1, <1>2, <1>3, <1>4, <1>5, <1>6, <1>7, <1>8, <1>9, <1>10, <1>11, <1>12
     DEF OwnStep, SwitchStep, Reconcile, ReplaceAuth

(* Nobody else changes a credential while nobody edits the registry, the   *)
(* tokens do not rotate, and nobody logs in or out elsewhere.              *)
THEOREM RecoverOthers ==
    ASSUME RecoverInv, OthersStep, Interference = FALSE, Logins = FALSE
    PROVE  RecoverInv'
<1>0. /\ TypeInv /\ SharedTypeOK /\ op \in Operations
      /\ TypeInv' /\ Fresh'
  BY TypeStep, FreshOthers DEF RecoverInv, TypeInv, TypeOK, OthersStep, Next
<1>1. /\ UNCHANGED <<journal, pc>>
      /\ op'.target = op.target /\ op'.selected = op.selected
      /\ op'.from = op.from /\ op'.previous = op.previous
  BY <1>0, OthersAct DEF Operations
<1>2. /\ ~Rotate /\ ~Outsiders
      /\ \A a \in Accounts : ~QuotaPoll(a) /\ ~Remove(a) /\ ~Relogin(a)
  BY NoOutsiders DEF Rotate, QuotaPoll, Remove, Relogin
<1>3. /\ UNCHANGED <<auth, saved>>
      /\ active' = active \/ (auth # None /\ active' = auth.acct)
  <2>1. CASE DaemonSync
    <3>1. auth # None => auth \in Credentials /\ saved[auth.acct] = auth.ver
      BY <1>0 DEF RecoverInv, Held, SharedTypeOK, Maybe
    <3>2. auth # None => Registered(auth.acct)
      BY <3>1 DEF Credentials, Registered
    <3>. QED
      BY <1>0, <2>1, <3>2, SyncHeld DEF DaemonSync, RecoverInv
  <2>2. CASE ~DaemonSync
    <3>1. InferBinding \/ UserLaunch \/ DesktopQuit \/ WriterQuit
      BY <1>2, <2>2
         DEF OthersStep, OtherWriters, Outside, WatchedDesktopQuit, UnlockedWriters,
             Outsiders
    <3>2. UNCHANGED <<auth, active, saved>>
      BY <3>1 DEF InferBinding, UserLaunch, DesktopQuit, WriterQuit, registryVars
    <3>. QED
      BY <3>2
  <2>. QED
    BY <2>1, <2>2
<1>4. Committed' = Committed /\ Intent' = Intent
  BY <1>1 DEF Committed, Credential, Intent
<1>5. journal # None => active' \in {journal.from, journal.to}
  BY <1>3 DEF RecoverInv, IntentRecoverable
<1>6. pc \in BeforeSteps \ {"abort"} => active' = op.from
  BY <1>3 DEF RecoverInv
<1>. QED
  BY <1>0, <1>1, <1>3, <1>4, <1>5, <1>6 DEF RecoverInv, IntentRecoverable, Held

(* While nobody rotates tokens or edits the registry, a crash anywhere in  *)
(* a switch or its rollback leaves an intent that names what auth.json     *)
(* holds, with every credential it names in the registry, even when        *)
(* Desktop slips between a writer check and the rename it guards.          *)
THEOREM IntentAlwaysRecoverable ==
    ASSUME Interference = FALSE, Logins = FALSE
    PROVE  Spec => []IntentRecoverable
<1>1. RecoverInv /\ [Next]_vars => RecoverInv'
  <2>. SUFFICES ASSUME RecoverInv, [Next]_vars PROVE RecoverInv'
    OBVIOUS
  <2>1. CASE UNCHANGED vars
    <3>1. TypeInv' /\ UNCHANGED <<auth, active, saved, journal, pc, op>>
      BY <2>1, TypeStep DEF vars, sharedVars, registryVars, RecoverInv
    <3>. QED
      BY <3>1 DEF RecoverInv, Fresh, Unread, IntentRecoverable, Held, Committed,
         Credential, Intent
  <2>. QED
    BY <2>1, RecoverOwn, RecoverOthers DEF Next, OwnStep, OthersStep
<1>2. RecoverInv => IntentRecoverable
  BY DEF RecoverInv
<1>. QED
  BY <1>1, <1>2, RecoverInitial, PTL DEF Spec

-----------------------------------------------------------------------------
(* The newest tokens                                                       *)

(* The steps between the write of auth.json and the end of its rollback.   *)
WrittenSteps == {"readback", "commit", "restore", "restoreRename"}

(* Before it writes, a switch has saved what it is about to overwrite, and *)
(* writes the newest tokens of the target; before it restores, it knows    *)
(* that the registry has the target's.                                     *)
CustodyInv ==
    /\ TypeInv /\ Fresh /\ Custody
    /\ pc # "idle" => Issued(op.previous)
    /\ pc # "idle" /\ op.target # None => op.selected <= issued[op.target]
    /\ pc \in {"stop", "stopping"} => op.previous # None
    /\ pc \in BeforeSteps \ {"abort"} /\ op.previous = None => auth = None
    /\ pc \in BeforeSteps \ {"abort"} /\ auth = op.previous =>
         SavedCopy(auth) /\ Newest(Committed)
    /\ pc = "rename" => auth = op.previous
    /\ pc = "restoreRename" => auth = Committed
    /\ pc \in WrittenSteps /\ auth = Committed =>
         Newest(op.previous) /\ SavedCopy(Committed)

(* At first auth.json holds the newest tokens of its account.              *)
THEOREM CustodyInitial == Init => CustodyInv
  BY TypeInitial, CustodyAtFirst
     DEF Init, CustodyInv, Fresh, Unread, ReconcileSteps, BeforeSteps, WrittenSteps

(* Only four steps of a switch touch auth.json or the saved tokens.        *)
LEMMA TokensKept ==
    ASSUME OwnStep, ~Resolve, ~PrepareStopped, ~Rename, ~RestoreRename
    PROVE  UNCHANGED <<auth, saved, outsideVars>>
<1>0. UNCHANGED auth
  BY AuthKept
<1>1. CASE \E t \in Maybe(Accounts), r \in BOOLEAN : Start(t, r)
  BY <1>0, <1>1 DEF Start, registryVars
<1>2. CASE Reconcile \/ Crash
  BY <1>0, <1>2 DEF Reconcile, ReconcileNothing, ReconcileInspect, ReconcileCommit,
     ReconcileConfirm, ReconcileRefuse, ReconcileClear, Crash, registryVars
<1>3. CASE Preflight \/ Stop \/ Stopped \/ StopFails
  BY <1>0, <1>3 DEF Preflight, Stop, Stopped, StopFails, registryVars
<1>4. CASE PrepareOffline \/ Begin \/ Abort \/ Compare \/ Readback \/ Restore
  BY <1>0, <1>4 DEF PrepareOffline, Begin, Abort, Compare, Readback, Restore, registryVars
<1>5. CASE Commit \/ Verify \/ Reopen
  BY <1>0, <1>5 DEF Commit, Verify, Reopen, Launch, Relaunch, EmergencyBind, Bind,
     VerifyBind, registryVars
<1>. QED
  BY <1>1, <1>2, <1>3, <1>4, <1>5 DEF OwnStep, SwitchStep, ReplaceAuth

(* A step that keeps all tokens and what the switch has chosen.            *)
LEMMA CustodyNext ==
    ASSUME CustodyInv, TypeInv', Fresh', UNCHANGED <<auth, saved, outsideVars>>,
           \/ pc' = "idle"
           \/ /\ pc # "idle"
              /\ op'.target = op.target /\ op'.selected = op.selected
              /\ op'.previous = op.previous,
           pc' \in BeforeSteps => pc \in BeforeSteps /\ (pc = "abort" => pc' = "abort"),
           pc' \in {"stop", "stopping"} => op.previous # None,
           pc' \in WrittenSteps => pc \in WrittenSteps,
           pc' = "rename" => auth = op.previous,
           pc' = "restoreRename" => auth = Committed
    PROVE  CustodyInv'
<1>1. Custody'
  BY DEF CustodyInv, Custody, CredentialCustody, Newest, Issued, Registered, outsideVars
<1>2. CASE pc' = "idle"
  BY <1>1, <1>2 DEF CustodyInv, BeforeSteps, WrittenSteps
<1>3. CASE pc' # "idle"
  <2>1. /\ op'.target = op.target /\ op'.selected = op.selected
        /\ op'.previous = op.previous
        /\ Committed' = Committed /\ pc # "idle"
    BY <1>3 DEF Committed, Credential
  <2>2. /\ Issued(op.previous)' <=> Issued(op.previous)
        /\ Newest(op.previous)' <=> Newest(op.previous)
        /\ Newest(Committed)' <=> Newest(Committed)
        /\ SavedCopy(Committed)' <=> SavedCopy(Committed)
        /\ SavedCopy(auth)' <=> SavedCopy(auth)
    BY <2>1 DEF Issued, Newest, SavedCopy, Registered, outsideVars
  <2>3. issued' = issued
    BY DEF outsideVars
  <2>4. pc' \in BeforeSteps \ {"abort"} =>
           /\ op'.previous = None => auth' = None
           /\ auth' = op'.previous =>
                SavedCopy(auth)' /\ Newest(Committed)'
    BY <2>1, <2>2 DEF CustodyInv
  <2>5. pc' \in WrittenSteps /\ auth' = Committed' =>
           Newest(op.previous)' /\ SavedCopy(Committed)'
    BY <2>1, <2>2 DEF CustodyInv
  <2>6. Issued(op.previous)' /\ (op'.target # None => op'.selected <= issued'[op'.target])
    BY <2>1, <2>2, <2>3 DEF CustodyInv
  <2>. QED
    BY <1>1, <2>1, <2>4, <2>5, <2>6 DEF CustodyInv
<1>. QED
  BY <1>2, <1>3

(* A switch overwrites no credential it has not saved, and writes only the *)
(* newest tokens.                                                          *)
THEOREM CustodyOwn ==
    ASSUME CustodyInv, OwnStep
    PROVE  CustodyInv'
<1>0. /\ TypeInv /\ SharedTypeOK /\ op \in Operations
      /\ TypeInv' /\ SharedTypeOK' /\ Fresh'
  BY TypeStep, FreshOwn DEF CustodyInv, TypeInv, TypeOK, OwnStep, Next
<1>. USE DEF BeforeSteps, WrittenSteps
<1>1. CASE \E t \in Maybe(Accounts), r \in BOOLEAN : Start(t, r)
  <2>1. PICK t \in Maybe(Accounts), r \in BOOLEAN : Start(t, r)
    BY <1>1
  <2>2. /\ UNCHANGED <<auth, saved, outsideVars>> /\ pc' = "reconcile"
        /\ op' = [IdleOp EXCEPT !.target = t, !.restart = r]
    BY <2>1 DEF Start, registryVars
  <2>3. op'.previous = None /\ op'.selected = 0
    BY <2>2 DEF IdleOp
  <2>4. Custody'
    BY <2>2 DEF CustodyInv, Custody, CredentialCustody, Newest, Issued, Registered, outsideVars
  <2>5. op'.target # None => op'.selected <= issued'[op'.target]
    BY <1>0, <2>3 DEF TypeInv, TypeOK, SharedTypeOK, Operations, Maybe
  <2>. QED
    BY <1>0, <2>2, <2>3, <2>4, <2>5 DEF CustodyInv, Issued
<1>2. CASE Reconcile \/ Crash
  <2>1. UNCHANGED <<auth, saved, outsideVars>>
    BY <1>2, TokensKept
       DEF Reconcile, ReconcileNothing, ReconcileInspect, ReconcileCommit, ReconcileConfirm,
           ReconcileRefuse, ReconcileClear, Crash, registryVars
  <2>2. \/ pc' = "idle"
        \/ /\ UNCHANGED op /\ pc \in ReconcileSteps
           /\ pc' \in ReconcileSteps \union {"resolve", "relaunch", "launch"}
    BY <1>0, <1>2, ReconcileEnds
       DEF Reconcile, ReconcileNothing, ReconcileInspect, ReconcileCommit,
           ReconcileConfirm, ReconcileRefuse, ReconcileClear, Crash, Return, Goto,
           ReconcileSteps
  <2>. QED
    BY <1>0, <2>1, <2>2, CustodyNext DEF ReconcileSteps
<1>3. CASE Preflight \/ Stop \/ Stopped \/ StopFails \/ PrepareOffline \/ Begin \/ Abort
  <2>1. UNCHANGED <<auth, saved, outsideVars>>
    BY <1>3 DEF Preflight, Stop, Stopped, StopFails, PrepareOffline, Begin, Abort, registryVars
  <2>2. pc \in BeforeSteps
    BY <1>3 DEF Preflight, Stop, Stopped, StopFails, PrepareOffline, Begin, Abort
  <2>3. CASE Preflight
    <3>1. /\ pc' \in {"idle", "stop", "prepare"}
          /\ pc' = "stop" => op.previous # None
      BY <2>3 DEF Preflight, Return
    <3>2. pc' # "idle" =>
             op' = [op EXCEPT !.running = (desktop = "on"), !.mine = (desktop = "on")]
      BY <2>3 DEF Preflight, Return
    <3>3. pc' # "idle" => /\ op'.target = op.target /\ op'.selected = op.selected
                          /\ op'.from = op.from /\ op'.previous = op.previous
      BY <1>0, <3>2 DEF Operations
    <3>. QED
      BY <1>0, <2>1, <2>3, <3>1, <3>3, CustodyNext DEF Preflight
  <2>4. CASE ~Preflight
    <3>1. pc' = "idle" \/ UNCHANGED op
      BY <1>3, <2>4 DEF Stop, Stopped, StopFails, PrepareOffline, Begin, Abort, Return, Goto
    <3>2. /\ pc' \in {"idle", "stopping", "prepare", "relaunch", "begin", "abort", "compare"}
          /\ pc = "abort" => pc' \in {"idle", "relaunch"}
          /\ pc' = "stopping" => pc = "stop"
      BY <1>3, <2>4 DEF Stop, Stopped, StopFails, PrepareOffline, Begin, Abort, Return, Goto
    <3>. QED
      BY <1>0, <2>1, <2>2, <3>1, <3>2, CustodyNext DEF CustodyInv
  <2>. QED
    BY <2>3, <2>4
<1>4. CASE Compare \/ Readback \/ Restore \/ Commit \/ Verify
  <2>1. UNCHANGED <<auth, saved, outsideVars>>
    BY <1>4 DEF Compare, Readback, Restore, Commit, Verify, registryVars
  <2>2. \/ pc' = "idle"
        \/ pc' = "reconcile" /\ op' = [op EXCEPT !.caller = "undo"]
        \/ pc' = "reconcile" /\ op' = [op EXCEPT !.caller = "final"]
        \/ UNCHANGED op
    BY <1>4 DEF Compare, Readback, Restore, Commit, Verify, Return, Goto
  <2>3. pc' # "idle" => /\ op'.target = op.target /\ op'.selected = op.selected
                        /\ op'.from = op.from /\ op'.previous = op.previous
    BY <1>0, <2>2 DEF Operations
  <2>4. /\ pc' \in {"idle", "reconcile", "rename", "commit", "restore", "restoreRename", "verify"}
        /\ pc' = "rename" => pc = "compare" /\ auth = op.previous
        /\ pc' = "restoreRename" => auth = Committed
        /\ pc' \in WrittenSteps => pc \in WrittenSteps
        /\ pc # "idle"
    BY <1>4 DEF Compare, Readback, Restore, Commit, Verify, Return, Goto
  <2>. QED
    BY <1>0, <2>1, <2>3, <2>4, CustodyNext DEF CustodyInv
<1>5. CASE Reopen
  <2>1. UNCHANGED <<auth, saved, outsideVars>>
    BY <1>5 DEF Reopen, Launch, Relaunch, EmergencyBind, Bind, VerifyBind, registryVars
  <2>2. \/ pc' = "idle"
        \/ op' \in {op, [op EXCEPT !.mine = TRUE, !.bind = op.target],
                    [op EXCEPT !.mine = TRUE, !.emergency = TRUE],
                    [op EXCEPT !.bind = active]}
    BY <1>5 DEF Reopen, Launch, Relaunch, EmergencyBind, Bind, VerifyBind, AfterBinding,
       Return, Goto
  <2>3. pc' # "idle" => /\ op'.target = op.target /\ op'.selected = op.selected
                        /\ op'.from = op.from /\ op'.previous = op.previous
    BY <1>0, <2>2 DEF Operations
  <2>4. pc # "idle" /\ pc' \in {"idle", "bind", "relaunch", "emergencyBind", "verifyBind"}
    BY <1>5 DEF Reopen, Launch, Relaunch, EmergencyBind, Bind, VerifyBind, AfterBinding,
       Return, Goto
  <2>. QED
    BY <1>0, <2>1, <2>3, <2>4, CustodyNext
<1>6. CASE Resolve
  <2>1. /\ op.target \in Accounts /\ op.previous = None
        /\ UNCHANGED <<auth, outsideVars>> /\ pc' \in {"idle", "preflight"}
    BY <1>0, <1>6 DEF Resolve, Return, TypeInv, AtSteps, CustodyInv, Fresh, Unread
  <2>2. CASE UNCHANGED registryVars /\ pc' = "idle"
    BY <1>0, <2>1, <2>2, CustodyNext DEF registryVars
  <2>3. CASE UNCHANGED registryVars /\ pc' = "preflight" /\ ~SyncRegistry
    <3>1. /\ auth = None /\ saved[op.target] # 0
          /\ op' = [op EXCEPT !.selected = saved[op.target], !.from = active]
      BY <1>6, <2>3 DEF Resolve, Return, Registered
    <3>2. op'.target = op.target /\ op'.selected = saved[op.target] /\ op'.previous = None
      BY <1>0, <2>1, <3>1 DEF Operations
    <3>3. /\ Custody' /\ saved[op.target] <= issued[op.target]
          /\ op.target \notin superseded => saved[op.target] = issued[op.target]
      <4>1. op.target \notin superseded => saved[op.target] = issued[op.target]
        <5>1. Credential(op.target, issued[op.target]) \in Credentials
          BY <1>0, <2>1 DEF SharedTypeOK, Credential, Credentials
        <5>. QED
          BY <2>1, <3>1, <5>1, NoneAssumption
             DEF CustodyInv, Custody, CredentialCustody, Registered
      <4>. QED
        BY <2>1, <2>3, <4>1
           DEF CustodyInv, Custody, CredentialCustody, Newest, Issued, Registered,
               registryVars, outsideVars
    <3>4. Newest(Committed)'
      BY <2>1, <3>2, <3>3 DEF Newest, Committed, Credential, outsideVars
    <3>5. SavedCopy(auth)'
      BY <2>1, <3>1 DEF SavedCopy
    <3>. QED
      BY <1>0, <2>1, <2>3, <3>1, <3>2, <3>3, <3>4, <3>5 DEF CustodyInv, Issued, outsideVars
  <2>4. CASE SyncRegistry
    <3>1. /\ Custody' /\ SavedCopy(auth)'
          /\ \A a \in Accounts \ superseded : saved'[a] # 0 => saved'[a] = issued[a]
      BY <1>0, <2>1, <2>4, CustodySync DEF CustodyInv
    <3>2. CASE pc' = "idle"
      BY <1>0, <3>1, <3>2 DEF CustodyInv
    <3>3. CASE pc' = "preflight"
      <4>1. /\ auth # None /\ auth' = auth /\ saved'[op.target] # 0
            /\ op' = [op EXCEPT !.selected = saved'[op.target],
                                !.from = auth.acct, !.previous = auth]
        BY <1>0, <1>6, <2>1, <2>4, <3>3, SyncTyped
           DEF Resolve, Return, SyncRegistry, Registered
      <4>2. /\ op'.target = op.target /\ op'.selected = saved'[op.target]
            /\ op'.from = auth'.acct /\ op'.previous = auth'
        BY <1>0, <4>1 DEF Operations
      <4>3. Newest(Committed)'
        BY <2>1, <3>1, <4>1, <4>2 DEF Newest, Committed, Credential, outsideVars
      <4>4. Issued(op.previous)' /\ op'.selected <= issued'[op'.target]
        BY <2>1, <3>1, <4>2 DEF Custody, Issued
      <4>. QED
        BY <1>0, <3>1, <3>3, <4>1, <4>2, <4>3, <4>4 DEF CustodyInv
    <3>. QED
      BY <2>1, <3>2, <3>3
  <2>. QED
    BY <1>6, <2>1, <2>2, <2>3, <2>4 DEF Resolve
<1>7. CASE PrepareStopped
  <2>1. CASE Goto("relaunch") /\ UNCHANGED registryVars
    BY <1>0, <1>7, <2>1, CustodyNext DEF PrepareStopped, Goto, registryVars
  <2>2. CASE SyncRegistry /\ ~Goto("relaunch")
    <3>1. /\ pc = "prepare" /\ UNCHANGED <<auth, outsideVars>> /\ auth # None
          /\ op' = [op EXCEPT !.from = auth.acct, !.previous = auth]
          /\ pc' = "abort" \/ (pc' = "begin" /\ saved'[op.target] = op.selected)
      BY <1>7, <2>2 DEF PrepareStopped, SyncRegistry, FreshTarget
    <3>2. /\ op'.target = op.target /\ op'.selected = op.selected
          /\ op'.from = auth'.acct /\ op'.previous = auth'
      BY <1>0, <3>1 DEF Operations
    <3>3. /\ Custody' /\ SavedCopy(auth)'
          /\ \A a \in Accounts \ superseded : saved'[a] # 0 => saved'[a] = issued[a]
      BY <1>0, <2>2, <3>1, CustodySync DEF CustodyInv
    <3>4. op.target \in Accounts /\ op.selected # 0
      BY <1>0, <3>1 DEF TypeInv, AtSteps, TargetSteps
    <3>5. pc' = "begin" => Newest(Committed)'
      BY <3>1, <3>2, <3>3, <3>4 DEF Newest, Committed, Credential, outsideVars
    <3>6. Issued(op.previous)' /\ op'.selected <= issued'[op'.target]
      <4>1. op.selected <= issued[op.target]
        BY <1>0, <3>1, <3>4, NoneAssumption DEF CustodyInv
      <4>. QED
        BY <3>1, <3>2, <3>3, <4>1 DEF Custody, Issued, outsideVars
    <3>7. pc' \in {"begin", "abort"} /\ auth' # None
      BY <3>1
    <3>8. CASE pc' = "abort"
      BY <1>0, <3>2, <3>3, <3>6, <3>7, <3>8 DEF CustodyInv
    <3>9. CASE pc' = "begin"
      BY <1>0, <3>2, <3>3, <3>5, <3>6, <3>7, <3>9 DEF CustodyInv
    <3>. QED
      BY <3>7, <3>8, <3>9
  <2>. QED
    BY <1>7, <2>1, <2>2 DEF PrepareStopped, Goto
<1>8. CASE Rename
  <2>1. CASE UNCHANGED auth /\ pc' = "reconcile"
    <3>1. op' = [op EXCEPT !.caller = "undo"] \/ UNCHANGED op
      BY <1>8, <2>1 DEF Rename, Goto
    <3>2. /\ op'.target = op.target /\ op'.selected = op.selected
          /\ op'.from = op.from /\ op'.previous = op.previous
      BY <1>0, <3>1 DEF Operations
    <3>. QED
      BY <1>0, <1>8, <2>1, <3>2, CustodyNext DEF Rename, registryVars
  <2>2. CASE auth' = Committed /\ Goto("readback")
    <3>1. /\ pc = "rename" /\ auth = op.previous /\ UNCHANGED <<op, saved, outsideVars>>
          /\ Committed' = Committed
      BY <1>8, <2>2 DEF Rename, Goto, CustodyInv, registryVars, Committed, Credential
    <3>2. /\ op.target \in Accounts /\ op.selected \in 1..MaxVersion
          /\ Committed.acct = op.target /\ Committed.ver = op.selected
      BY <1>0, <3>1, CommittedTyped DEF TargetSteps, Committed, Credential
    <3>3. SavedCopy(auth) /\ Newest(Committed)
      BY <3>1 DEF CustodyInv
    <3>4. op.selected <= issued[op.target]
      BY <3>1, <3>2, NoneAssumption DEF CustodyInv
    <3>5. Newest(auth)' /\ Issued(auth)'
      BY <2>2, <3>1, <3>2, <3>3, <3>4 DEF Newest, Issued, outsideVars
    <3>6. Custody'
      BY <1>0, <3>1, <3>3, <3>5, CustodyWrite DEF CustodyInv
    <3>7. SavedCopy(Committed)
      <4>1. auth = Credential(op.target, issued[op.target]) =>
               auth # None /\ auth.acct = op.target /\ auth.ver = issued[op.target]
        <5>1. Credential(op.target, issued[op.target]) \in Credentials
          BY <1>0, <3>2 DEF SharedTypeOK, Credential, Credentials
        <5>. QED
          BY <5>1, NoneAssumption DEF Credential
      <4>. QED
        BY <3>2, <3>3, <4>1 DEF SavedCopy, Newest, CustodyInv, Custody, CredentialCustody
    <3>8. Newest(op.previous)' /\ SavedCopy(Committed)'
      BY <3>1, <3>7 DEF CustodyInv, Custody, Newest, SavedCopy, Registered, outsideVars
    <3>9. Issued(op.previous)' /\ (op'.target # None => op'.selected <= issued'[op'.target])
      BY <3>1 DEF CustodyInv, Issued, outsideVars
    <3>. QED
      BY <1>0, <2>2, <3>6, <3>8, <3>9 DEF CustodyInv, Goto
  <2>. QED
    BY <1>8, <2>1, <2>2 DEF Rename
<1>9. CASE RestoreRename
  <2>1. /\ pc' = "reconcile" /\ pc = "restoreRename"
        /\ op' = [op EXCEPT !.caller = "undo"] /\ UNCHANGED <<saved, outsideVars>>
    BY <1>9 DEF RestoreRename, registryVars
  <2>2. /\ op'.target = op.target /\ op'.selected = op.selected
        /\ op'.from = op.from /\ op'.previous = op.previous
    BY <1>0, <2>1 DEF Operations
  <2>3. CASE UNCHANGED auth
    BY <1>0, <2>1, <2>2, <2>3, CustodyNext
  <2>4. CASE auth' = op.previous
    <3>1. /\ auth = Committed /\ Newest(op.previous) /\ SavedCopy(auth)
          /\ Issued(op.previous)
      BY <2>1 DEF CustodyInv
    <3>2. Newest(auth)' /\ Issued(auth)'
      BY <2>1, <2>4, <3>1 DEF Newest, Issued, outsideVars
    <3>3. Custody'
      BY <1>0, <2>1, <3>1, <3>2, CustodyWrite DEF CustodyInv
    <3>4. Issued(op.previous)' /\ (op'.target # None => op'.selected <= issued'[op'.target])
      BY <2>1, <2>2 DEF CustodyInv, Issued, outsideVars
    <3>. QED
      BY <1>0, <2>1, <3>3, <3>4 DEF CustodyInv
  <2>. QED
    BY <1>9, <2>3, <2>4 DEF RestoreRename
<1>. QED
  BY <1>1, <1>2, <1>3, <1>4, <1>5, <1>6, <1>7, <1>8, <1>9
     DEF OwnStep, SwitchStep, ReplaceAuth

(* Nobody else replaces tokens a switch is about to overwrite or to        *)
(* restore, as long as Desktop does not slip into the rename.              *)
THEOREM CustodyOthers ==
    ASSUME CustodyInv, OthersStep, Race = FALSE
    PROVE  CustodyInv'
<1>0. /\ TypeInv /\ SharedTypeOK /\ op \in Operations
      /\ TypeInv' /\ Fresh'
  BY TypeStep, FreshOthers DEF CustodyInv, TypeInv, TypeOK, OthersStep, Next
<1>1. /\ UNCHANGED pc /\ op'.target = op.target /\ op'.selected = op.selected
      /\ op'.from = op.from /\ op'.previous = op.previous
  BY <1>0, OthersAct DEF Operations
<1>2. Custody'
  BY <1>0, OthersAct, SharedCustody DEF CustodyInv
<1>3. CASE pc = "idle"
  BY <1>0, <1>1, <1>2, <1>3 DEF CustodyInv, BeforeSteps, WrittenSteps
<1>4. CASE pc # "idle"
  <2>1. Bystanders
    BY <1>0, <1>4, OthersAct
  <2>2. \A a \in Accounts : issued'[a] >= issued[a]
    BY <1>0, <2>1, FreshTokens DEF CustodyInv
  <2>3. /\ op.previous # None => op.previous \in Credentials /\ op.previous.acct \in Accounts
        /\ op.target # None => op.target \in Accounts
        /\ op.selected \in Nat
    BY <1>0, MaxVersionAssumption DEF Operations, Maybe, Credentials
  <2>4. Issued(op.previous)' /\ (op'.target # None => op'.selected <= issued'[op'.target])
    <3>1. \A a \in Accounts : issued[a] \in Nat /\ issued'[a] \in Nat
      BY <1>0 DEF SharedTypeOK, TypeInv, TypeOK
    <3>2. op.previous # None => op.previous.ver \in Nat
      BY <2>3 DEF Credentials
    <3>. QED
      BY <1>1, <1>4, <2>2, <2>3, <3>1, <3>2 DEF CustodyInv, Issued
  <2>5. pc \in BeforeSteps \union WrittenSteps => op.target \in Accounts
    BY <1>0, CommittedTyped DEF BeforeSteps, WrittenSteps, TargetSteps
  <2>6. pc \in {"rename", "restoreRename"} => UNCHANGED auth
    BY DEF OthersStep, OtherWriters, Outside, WatchedDesktopQuit, Unhindered, WindowOpen,
       UnlockedWriters, DaemonSync, QuotaPoll, Remove, WriterQuit, DesktopQuit
  <2>7. pc \in BeforeSteps \ {"abort"} /\ op.previous = None => auth' = None
    <3>. HAVE pc \in BeforeSteps \ {"abort"} /\ op.previous = None
    <3>1. auth = None /\ pc \notin {"stop", "stopping"}
      BY DEF CustodyInv
    <3>2. pc = "rename" \/ FirstSwitch
      BY <3>1 DEF BeforeSteps, FirstSwitch
    <3>3. UNCHANGED auth
      BY <1>4, <2>6, <3>1, <3>2
         DEF OthersStep, OtherWriters, Outside, WatchedDesktopQuit, UnlockedWriters,
             DaemonSync, QuotaPoll, Remove, InferBinding, Rotate, Logout, UserLaunch,
             WriterQuit, DesktopQuit
    <3>. QED
      BY <3>1, <3>3
  <2>8. pc \in BeforeSteps \ {"abort"} /\ auth' = op.previous => UNCHANGED auth
    BY <1>0, <1>4, <2>1, <2>3, <2>7, FreshTokens DEF CustodyInv, Issued, SharedTypeOK, Credentials
  <2>9. pc \in WrittenSteps /\ auth' = Committed => UNCHANGED auth
    <3>. HAVE pc \in WrittenSteps /\ auth' = Committed
    <3>1. /\ Committed \in Credentials /\ Committed # None /\ op.target # None
          /\ Committed.acct = op.target /\ Committed.ver = op.selected
      BY <1>0, CommittedTyped, NoneAssumption
         DEF WrittenSteps, TargetSteps, Committed, Credential
    <3>2. op.selected <= issued[op.target] /\ issued[op.target] \in Nat
      BY <1>0, <1>4, <2>3, <3>1 DEF CustodyInv, SharedTypeOK
    <3>. QED
      BY <1>0, <2>1, <2>3, <3>1, <3>2, FreshTokens DEF CustodyInv
  <2>10. ASSUME UNCHANGED auth
         PROVE  /\ SavedCopy(auth) => SavedCopy(auth)'
                /\ Newest(op.previous) => Newest(op.previous)'
                /\ Newest(Committed) => Newest(Committed)'
    <3>1. /\ UNCHANGED <<issued, superseded>>
          /\ \A a \in Accounts :
                \/ saved'[a] = saved[a]
                \/ saved'[a] = 0
                \/ auth # None /\ a = auth.acct /\ saved'[a] = auth.ver
      BY <1>0, <2>1, <2>10, SameTokens DEF CustodyInv
    <3>2. auth # None => auth.acct \in Accounts
      BY <1>0 DEF SharedTypeOK, Maybe, Credentials
    <3>3. Committed' = Committed
      BY <1>1 DEF Committed, Credential
    <3>. QED
      BY <1>1, <2>10, <3>1, <3>2, <3>3 DEF SavedCopy, Newest, Registered
  <2>11. Committed' = Committed
    BY <1>1 DEF Committed, Credential
  <2>12. pc \in BeforeSteps \ {"abort"} /\ auth' = op.previous =>
            SavedCopy(auth)' /\ Newest(Committed)'
    BY <2>8, <2>10 DEF CustodyInv
  <2>13. pc \in WrittenSteps /\ auth' = Committed =>
            Newest(op.previous)' /\ SavedCopy(Committed)'
    <3>. HAVE pc \in WrittenSteps /\ auth' = Committed
    <3>1. UNCHANGED auth /\ auth = Committed
      BY <2>9
    <3>2. SavedCopy(auth)' /\ Newest(op.previous)'
      BY <2>10, <3>1 DEF CustodyInv
    <3>. QED
      BY <2>11, <3>1, <3>2 DEF SavedCopy
  <2>. QED
    BY <1>0, <1>1, <1>2, <2>4, <2>6, <2>7, <2>11, <2>12, <2>13 DEF CustodyInv
<1>. QED
  BY <1>3, <1>4

(* A step that changes nothing changes none of this.                       *)
LEMMA CustodyStays ==
    ASSUME CustodyInv, UNCHANGED vars
    PROVE  CustodyInv'
<1>1. /\ TypeInv' /\ Fresh'
      /\ UNCHANGED <<auth, active, saved, issued, superseded, pc, op>>
  BY TypeStep
     DEF vars, sharedVars, registryVars, outsideVars, CustodyInv, Fresh, Unread
<1>. QED
  BY <1>1 DEF CustodyInv, Custody, CredentialCustody, Newest, Issued, SavedCopy,
     Registered, Committed, Credential

(* While Desktop does not slip between a writer check and the rename it    *)
(* guards, the newest tokens of every saved account are in the registry or *)
(* in auth.json, through every rotation, login elsewhere, sync, failed     *)
(* switch, rollback and crash.                                             *)
THEOREM NewestTokensKept ==
    ASSUME Race = FALSE
    PROVE  Spec => []CredentialCustody
<1>1. CustodyInv /\ [Next]_vars => CustodyInv'
  <2>. SUFFICES ASSUME CustodyInv, [Next]_vars PROVE CustodyInv'
    OBVIOUS
  <2>1. CASE UNCHANGED vars
    BY <2>1, CustodyStays
  <2>. QED
    BY <2>1, CustodyOwn, CustodyOthers DEF Next, OwnStep, OthersStep
<1>2. CustodyInv => CredentialCustody
  BY DEF CustodyInv, Custody
<1>. QED
  BY <1>1, <1>2, CustodyInitial, PTL DEF Spec

=============================================================================
