------------------------- MODULE DistributionProofs -------------------------
(***************************************************************************)
(* Proofs about Distribution for every set of accounts and every bound.    *)
(***************************************************************************)
EXTENDS Distribution, SharedAuthProofs

(* The steps from the choice of the target's tokens to their write.        *)
CommitSteps == {"markCommit", "compare", "rename", "readback"}

(* What those steps rely on: a real account with saved tokens.             *)
AtSteps ==
    /\ pc # "idle" => op.target \in Accounts
    /\ pc \in CommitSteps => op.selected # 0

TypeInv == TypeOK /\ AtSteps

(* The locals of an operation that has not begun.                          *)
LEMMA IdleTyped == IdleOp \in Operations
  BY MaxVersionAssumption DEF IdleOp, Operations, Maybe, Undone

(* The initial states are well typed.                                      *)
THEOREM TypeInitial == Init => TypeInv
<1> USE NoneAssumption, NoJournalAssumption, MaxVersionAssumption
<1>. SUFFICES ASSUME Init PROVE TypeInv
  OBVIOUS
<1>1. PICK a \in Accounts, others \in SUBSET Accounts :
         /\ auth \in {None, Credential(a, 1)}
         /\ active = IF auth = None THEN None ELSE a
         /\ saved = [b \in Accounts |-> IF b \in others THEN 1 ELSE 0]
  BY DEF Init, SharedInit
<1>2. auth \in Maybe(Credentials) /\ active \in Maybe(Accounts)
  BY <1>1 DEF Maybe, Credentials, Credential
<1>3. saved \in [Accounts -> 0..MaxVersion]
  BY <1>1
<1>4. SharedTypeOK
  BY <1>2, <1>3 DEF Init, SharedInit, SharedTypeOK, Maybe
<1>5. op \in Operations
  BY IdleTyped DEF Init
<1>. QED
  BY <1>4, <1>5 DEF Init, TypeInv, TypeOK, AtSteps, CommitSteps, Maybe, Steps

(* Where a step leaves the operation.                                      *)
Typed == pc' \in Steps /\ op' \in Operations /\ AtSteps'

(* Ending the operation leaves well-typed locals ...                       *)
LEMMA ReturnTyped ==
    ASSUME Return
    PROVE  Typed /\ pc' = "idle"
  BY IdleTyped DEF Return, Typed, AtSteps, CommitSteps, Steps

(* ... and so do giving Desktop back, undoing the write or a failed write, *)
LEMMA AbortTyped ==
    ASSUME op \in Operations, op.target \in Accounts,
           \/ Abort(TRUE) \/ Abort(FALSE) \/ WriteFails
           \/ Undo("relaunch") \/ Undo("registry") \/ Undo("marker")
    PROVE  Typed /\ pc' \in {"idle", "reopen", "undo"}
<1>1. CASE Return
  BY <1>1, ReturnTyped
<1>2. CASE ~Return
  <2>1. op' \in Operations /\ op'.target = op.target /\ pc' \in {"reopen", "undo"}
    BY <1>2 DEF Abort, Undo, WriteFails, Operations, Undone
  <2>. QED
    BY <2>1 DEF Typed, AtSteps, CommitSteps, Steps
<1>. QED
  BY <1>1, <1>2

(* and the next step of the same operation.                                *)
LEMMA GotoTyped ==
    ASSUME op \in Operations, op.target \in Accounts,
           NEW step \in Steps, Goto(step), step \in CommitSteps => op.selected # 0
    PROVE  Typed
  BY DEF Goto, Typed, AtSteps

(* The credential to be written is a real one.                             *)
LEMMA CommittedTyped ==
    ASSUME TypeInv, pc \in CommitSteps \/ (pc # "idle" /\ op.selected # 0)
    PROVE  /\ op.target \in Accounts /\ op.selected \in 1..MaxVersion
           /\ Committed \in Credentials /\ Committed # None
           /\ Committed.acct = op.target /\ Committed.ver = op.selected
<1>1. op \in Operations /\ op.target \in Accounts /\ op.selected # 0
  BY DEF TypeInv, TypeOK, AtSteps, CommitSteps
<1>2. op.selected \in 1..MaxVersion
  BY <1>1, MaxVersionAssumption DEF Operations
<1>3. Committed \in Credentials
  BY <1>1, <1>2 DEF Committed, Credential, Credentials
<1>. QED
  BY <1>1, <1>2, <1>3, NoneAssumption DEF Committed, Credential

(* A journal the operation writes is a real one.                           *)
LEMMA PhaseTyped ==
    ASSUME op.target \in Accounts, NEW phase \in Phases, Phase(phase)
    PROVE  dist' \in Journals /\ dist' # None /\ dist'.phase = phase
  BY NoJournalAssumption DEF Phase, Journals

(* Every step of a distribution keeps the types.                           *)
LEMMA DecideTyped ==
    ASSUME TypeInv, Decide
    PROVE  Typed /\ SharedTypeOK' /\ dist' \in Maybe(Journals) /\ closed' \in BOOLEAN
<1>. USE DEF TypeInv, TypeOK, AtSteps
<1>1. UNCHANGED <<files, closed>> /\ op.target \in Accounts
  BY DEF Decide, Gate, Plan, Create
<1>2. SharedTypeOK' /\ closed' \in BOOLEAN
  BY <1>1 DEF files, SharedTypeOK, registryVars, processVars, outsideVars
<1>3. CASE Gate
  <2>1. dist' \in Maybe(Journals)
    BY <1>3 DEF Gate, Maybe
  <2>2. Return \/ Goto("plan")
    BY <1>3 DEF Gate
  <2>. QED
    BY <1>1, <1>2, <2>1, <2>2, ReturnTyped, GotoTyped DEF Steps, CommitSteps
<1>4. CASE Plan
  <2>1. CASE Return
    BY <1>2, <1>4, <2>1, ReturnTyped DEF Plan
  <2>2. CASE pc' = "create"
    <3>1. PICK app \in BOOLEAN, cli \in BOOLEAN, restart \in BOOLEAN :
             op' = [op EXCEPT !.from = active, !.cli = cli, !.app = app,
                              !.restart = restart]
      <4>1. PICK change \in BOOLEAN :
               op' = [op EXCEPT !.from = active, !.cli = change,
                                !.app = change \/ desktop = "off",
                                !.restart = change /\ desktop = "on"]
        BY <1>4, <2>2 DEF Plan, Return
      <4>. QED
        BY <4>1
    <3>2. active \in Maybe(Accounts)
      BY DEF SharedTypeOK
    <3>3. op' \in Operations /\ op'.target = op.target
      BY <3>1, <3>2 DEF Operations
    <3>. QED
      BY <1>1, <1>2, <1>4, <2>2, <3>3 DEF Plan, Typed, Steps, CommitSteps
  <2>. QED
    BY <1>4, <2>1, <2>2 DEF Plan
<1>5. CASE Create
  <2>1. dist' \in Maybe(Journals)
    BY <1>1, <1>5, PhaseTyped DEF Create, Phases, Maybe
  <2>. QED
    BY <1>1, <1>2, <1>5, <2>1, ReturnTyped, GotoTyped DEF Create, Steps, CommitSteps
<1>. QED
  BY <1>3, <1>4, <1>5 DEF Decide

(* So do the steps that stop Desktop,                                      *)
LEMMA StopTyped ==
    ASSUME TypeInv, StopDesktop
    PROVE  Typed /\ SharedTypeOK' /\ dist' \in Maybe(Journals) /\ closed' \in BOOLEAN
<1>. USE DEF TypeInv, TypeOK, AtSteps
<1>1. op.target \in Accounts
  BY DEF StopDesktop, Mark, Capture, Stop, Stopped, StopFails, FinalizeAfterStop,
     Handoff, MarkCommit
<1>2. UNCHANGED files => SharedTypeOK'
  BY DEF files, SharedTypeOK, registryVars, processVars, outsideVars
<1>3. \A step \in Steps \ CommitSteps : Goto(step) => Typed
  BY <1>1, GotoTyped
<1>4. Abort(FALSE) \/ Abort(TRUE) => Typed
  BY <1>1, AbortTyped
<1>5. CASE Mark \/ MarkCommit
  <2>1. dist' \in Maybe(Journals)
    BY <1>1, <1>5, PhaseTyped DEF Mark, MarkCommit, Phases, Maybe
  <2>2. Return \/ Goto("capture") \/ Goto("compare") \/ Abort(FALSE)
    BY <1>5 DEF Mark, MarkCommit
  <2>3. Goto("compare") => Typed
    <3>1. Goto("compare") => op.selected # 0
      BY <1>5 DEF Mark, MarkCommit, Goto, CommitSteps, Return, Abort
    <3>. QED
      BY <1>1, <3>1, GotoTyped DEF Steps, CommitSteps
  <2>. QED
    BY <1>2, <1>3, <1>4, <1>5, <2>1, <2>2, <2>3, ReturnTyped
       DEF Mark, MarkCommit, Steps, CommitSteps
<1>6. CASE Capture
  <2>1. Typed
    <3>1. CASE Return
      BY <3>1, ReturnTyped
    <3>2. CASE pc' = "stop"
      <4>1. op' \in Operations /\ op'.target = op.target
        BY <1>6, <3>2 DEF Capture, Return, Operations
      <4>. QED
        BY <1>1, <3>2, <4>1 DEF Typed, Steps, CommitSteps
    <3>. QED
      BY <1>6, <3>1, <3>2 DEF Capture
  <2>. QED
    BY <1>2, <1>6, <2>1 DEF Capture, ClearJournal, Maybe
<1>7. CASE Stop
  BY <1>2, <1>3, <1>7, ReturnTyped DEF Stop, ClearJournal, Maybe, Steps, CommitSteps
<1>8. CASE Stopped \/ StopFails \/ FinalizeAfterStop
  BY <1>2, <1>3, <1>4, <1>8, ReturnTyped
     DEF Stopped, StopFails, FinalizeAfterStop, Steps, CommitSteps
<1>9. CASE Handoff
  <2>1. UNCHANGED <<auth, processVars, outsideVars, dist, closed>>
    BY <1>9 DEF Handoff
  <2>2. CASE SyncRegistry
    <3>1. /\ saved' \in [Accounts -> 0..MaxVersion] /\ active' \in Accounts
          /\ relogin' \subseteq Accounts
          /\ saved[op.target] # 0 => saved'[op.target] # 0
      BY <1>1, <2>2, SyncTyped
    <3>2. Typed
      <4>1. CASE Abort(FALSE) \/ Abort(TRUE)
        BY <1>4, <4>1
      <4>2. CASE /\ saved[op.target] # 0 /\ pc' = "markCommit"
                 /\ op' = [op EXCEPT !.selected = saved'[op.target]]
        <5>1. saved'[op.target] \in 0..MaxVersion
          BY <1>1, <3>1
        <5>2. op' \in Operations /\ op'.target = op.target /\ op'.selected # 0
          BY <3>1, <4>2, <5>1 DEF Operations
        <5>. QED
          BY <1>1, <4>2, <5>2 DEF Typed, Steps
      <4>. QED
        BY <1>9, <4>1, <4>2 DEF Handoff, Registered
    <3>. QED
      BY <2>1, <3>1, <3>2 DEF SharedTypeOK, Maybe, processVars, outsideVars
  <2>3. CASE Abort(TRUE) /\ UNCHANGED registryVars
    BY <1>2, <1>4, <2>1, <2>3 DEF files
  <2>. QED
    BY <1>9, <2>2, <2>3 DEF Handoff
<1>. QED
  BY <1>5, <1>6, <1>7, <1>8, <1>9 DEF StopDesktop

(* the steps that replace auth.json or undo it,                            *)
LEMMA ReplaceTyped ==
    ASSUME TypeInv, ReplaceAuth
    PROVE  Typed /\ SharedTypeOK' /\ dist' \in Maybe(Journals) /\ closed' \in BOOLEAN
<1>. USE DEF TypeInv, TypeOK, AtSteps
<1>1. op.target \in Accounts
  BY DEF ReplaceAuth, Compare, Rename, Readback, UndoCompare, UndoRename, UndoReadback
<1>2. auth' \in Maybe(Credentials)
  <2>1. pc = "rename" => Committed \in Credentials
    BY <1>1 DEF Committed, Credential, Credentials, CommitSteps, Operations
  <2>. QED
    BY <2>1 DEF ReplaceAuth, Compare, Rename, Readback, UndoCompare, UndoRename,
       UndoReadback, files, SharedTypeOK, Operations, Maybe
<1>3. SharedTypeOK' /\ dist' \in Maybe(Journals) /\ closed' \in BOOLEAN
  BY <1>2 DEF ReplaceAuth, Compare, Rename, Readback, UndoCompare, UndoRename,
     UndoReadback, files, SharedTypeOK, registryVars, processVars, outsideVars
<1>4. \A step \in Steps \ CommitSteps : Goto(step) => Typed
  BY <1>1, GotoTyped
<1>5. Return \/ WriteFails \/ Abort(FALSE) => Typed
  BY <1>1, AbortTyped, ReturnTyped
<1>6. CASE Compare
  <2>1. CASE WriteFails
    BY <1>3, <1>5, <2>1
  <2>2. CASE pc' = "rename" /\ op' = [op EXCEPT !.previous = auth]
    <3>1. op' \in Operations /\ op'.target = op.target /\ op'.selected = op.selected
      BY <2>2 DEF Operations, SharedTypeOK
    <3>. QED
      BY <1>1, <1>3, <1>6, <2>2, <3>1 DEF Compare, Typed, Steps, CommitSteps
  <2>. QED
    BY <1>6, <2>1, <2>2 DEF Compare
<1>7. CASE Rename \/ Readback
  <2>1. Goto("readback") => Typed
    <3>1. Goto("readback") => op.selected # 0
      BY <1>7 DEF Rename, Readback, Goto, WriteFails, Return, Abort, CommitSteps
    <3>. QED
      BY <1>1, <3>1, GotoTyped DEF Steps
  <2>. QED
    BY <1>3, <1>4, <1>5, <1>7, <2>1 DEF Rename, Readback, Steps, CommitSteps
<1>8. CASE UndoCompare \/ UndoRename
  BY <1>3, <1>4, <1>5, <1>8 DEF UndoCompare, UndoRename, Steps, CommitSteps
<1>9. CASE UndoReadback
  <2>1. Return \/ Abort(FALSE) \/ Goto("restoreRegistry")
    BY <1>9 DEF UndoReadback, Operations, Undone
  <2>. QED
    BY <1>3, <1>4, <1>5, <2>1 DEF Steps, CommitSteps
<1>. QED
  BY <1>6, <1>7, <1>8, <1>9 DEF ReplaceAuth

(* the steps that open Desktop again                                       *)
LEMMA OpenTyped ==
    ASSUME TypeInv, OpenDesktop
    PROVE  Typed /\ SharedTypeOK' /\ dist' \in Maybe(Journals) /\ closed' \in BOOLEAN
<1>. USE DEF TypeInv, TypeOK, AtSteps
<1>1. op.target \in Accounts
  BY DEF OpenDesktop, MarkRelaunch, Launch, Bind, VerifyLaunch, CommitLatest,
     Confirm, Reopen, Rebind
<1>2. /\ desktop' \in {"off", "on", "orphan"} /\ session' \in Maybe(Accounts)
      /\ closed' \in BOOLEAN
  BY DEF OpenDesktop, MarkRelaunch, Launch, Bind, VerifyLaunch, CommitLatest,
     Confirm, Reopen, Rebind, OpensDesktop, SharedTypeOK, files, processVars,
     Maybe, Credentials
<1>3. marker' \in Maybe(Accounts)
  BY DEF OpenDesktop, MarkRelaunch, Launch, Bind, VerifyLaunch, CommitLatest,
     Confirm, Reopen, Rebind, BindingFails, OpensDesktop, SharedTypeOK, files,
     processVars, Operations, Maybe
<1>4. UNCHANGED <<auth, outsideVars>>
  BY DEF OpenDesktop, MarkRelaunch, Launch, Bind, VerifyLaunch, CommitLatest,
     Confirm, Reopen, Rebind, files
<1>5. UNCHANGED registryVars \/ SyncRegistry
  BY DEF OpenDesktop, MarkRelaunch, Launch, Bind, VerifyLaunch, CommitLatest,
     Confirm, Reopen, Rebind, files
<1>6. SharedTypeOK'
  <2>1. /\ saved' \in [Accounts -> 0..MaxVersion] /\ active' \in Maybe(Accounts)
        /\ relogin' \subseteq Accounts
    BY <1>5, SyncTyped DEF SharedTypeOK, registryVars, Maybe
  <2>. QED
    BY <1>2, <1>3, <1>4, <2>1 DEF SharedTypeOK, outsideVars
<1>7. dist' \in Maybe(Journals)
  BY <1>1, PhaseTyped DEF OpenDesktop, MarkRelaunch, Launch, Bind, VerifyLaunch,
     CommitLatest, Confirm, Reopen, Rebind, Phases, Maybe
<1>8. \A step \in Steps \ CommitSteps : Goto(step) => Typed
  BY <1>1, GotoTyped
<1>9. Return \/ Undo("relaunch") => Typed
  BY <1>1, AbortTyped, ReturnTyped
<1>10. CASE MarkRelaunch \/ Bind \/ VerifyLaunch \/ Confirm \/ Rebind
  <2>1. \/ Return \/ Undo("relaunch") \/ Goto("launch") \/ Goto("verifyLaunch")
        \/ Goto("commitLatest") \/ Goto("clear")
    BY <1>10 DEF MarkRelaunch, Bind, VerifyLaunch, Confirm, Rebind, BindingFails
  <2>. QED
    BY <1>2, <1>6, <1>7, <1>8, <1>9, <2>1 DEF Steps, CommitSteps
<1>11. CASE Launch \/ CommitLatest \/ Reopen
  <2>1. CASE Return \/ Undo("relaunch")
    BY <1>2, <1>6, <1>7, <1>9, <2>1
  <2>2. CASE ~Return /\ ~Undo("relaunch")
    <3>1. /\ op' \in Operations /\ op'.target = op.target
          /\ pc' \in {"bind", "commitLatest", "confirm", "rebind"}
      BY <1>1, <1>11, <2>2
         DEF Launch, CommitLatest, Reopen, BindingFails, Operations, SharedTypeOK, Maybe
    <3>. QED
      BY <1>1, <1>2, <1>6, <1>7, <3>1 DEF Typed, Steps, CommitSteps
  <2>. QED
    BY <2>1, <2>2
<1>. QED
  BY <1>10, <1>11 DEF OpenDesktop

(* and the steps of the offline path.                                      *)
LEMMA OfflineTyped ==
    ASSUME TypeInv, Offline
    PROVE  Typed /\ SharedTypeOK' /\ dist' \in Maybe(Journals) /\ closed' \in BOOLEAN
<1>. USE DEF TypeInv, TypeOK, AtSteps
<1>1. op.target \in Accounts
  BY DEF Offline, Sync, MarkOffline, Commit, SaveMarker, MarkerFailed,
     RestoreRegistry, VerifyRestored, VerifyOffline
<1>2. UNCHANGED <<auth, desktop, session, outsideVars, closed>>
  BY DEF Offline, Sync, MarkOffline, Commit, SaveMarker, MarkerFailed,
     RestoreRegistry, VerifyRestored, VerifyOffline, files, processVars
<1>3. dist' \in Maybe(Journals)
  BY <1>1, PhaseTyped DEF Offline, Sync, MarkOffline, Commit, SaveMarker,
     MarkerFailed, RestoreRegistry, VerifyRestored, VerifyOffline, Phases, Maybe
<1>4. \A step \in Steps \ CommitSteps : Goto(step) => Typed
  BY <1>1, GotoTyped
<1>5. Return \/ Undo("registry") \/ Undo("marker") => Typed
  BY <1>1, AbortTyped, ReturnTyped
<1>6. CASE Sync
  <2>1. CASE UNCHANGED registryVars
    <3>1. Typed
      <4>1. CASE Return \/ Goto("saveMarker")
        BY <1>4, <1>5, <4>1 DEF Steps, CommitSteps
      <4>2. CASE SyncRegistry /\ pc' = "markOffline"
                 /\ op' = [op EXCEPT !.previous = auth, !.selected = saved'[op.target]]
        <5>1. auth \in Credentials /\ saved'[op.target] \in 0..MaxVersion
          BY <1>1, <4>2, SyncTyped
        <5>2. op' \in Operations /\ op'.target = op.target
          BY <4>2, <5>1 DEF Operations, Maybe
        <5>. QED
          BY <1>1, <4>2, <5>2 DEF Typed, Steps, CommitSteps
      <4>. QED
        BY <1>6, <4>1, <4>2 DEF Sync
    <3>. QED
      BY <1>2, <1>3, <1>6, <2>1, <3>1
         DEF Sync, SharedTypeOK, registryVars, processVars, outsideVars
  <2>2. CASE ~UNCHANGED registryVars
    <3>1. /\ SyncRegistry /\ pc' = "markOffline"
          /\ op' = [op EXCEPT !.previous = auth, !.selected = saved'[op.target]]
      BY <1>6, <2>2 DEF Sync
    <3>2. /\ auth \in Credentials /\ active' \in Accounts
          /\ saved' \in [Accounts -> 0..MaxVersion] /\ relogin' \subseteq Accounts
      BY <3>1, SyncTyped
    <3>3. saved'[op.target] \in 0..MaxVersion
      BY <1>1, <3>2
    <3>4. op' \in Operations /\ op'.target = op.target
      BY <3>1, <3>2, <3>3 DEF Operations, Maybe
    <3>. QED
      BY <1>1, <1>2, <1>3, <1>6, <3>1, <3>2, <3>4
         DEF Sync, SharedTypeOK, processVars, outsideVars, Maybe, Typed, Steps, CommitSteps
  <2>. QED
    BY <2>1, <2>2
<1>7. CASE MarkOffline
  <2>1. Goto("compare") => Typed
    <3>1. Goto("compare") => op.selected # 0
      BY <1>7 DEF MarkOffline, Goto, Return
    <3>. QED
      BY <1>1, <3>1, GotoTyped DEF Steps
  <2>2. SharedTypeOK'
    BY <1>7 DEF MarkOffline, files, SharedTypeOK, registryVars, processVars, outsideVars
  <2>. QED
    BY <1>2, <1>3, <1>5, <1>7, <2>1, <2>2 DEF MarkOffline
<1>8. CASE Commit \/ RestoreRegistry
  <2>1. active' \in Maybe(Accounts)
    BY <1>1, <1>8 DEF Commit, RestoreRegistry, SharedTypeOK, Operations, Maybe
  <2>2. SharedTypeOK'
    BY <1>8, <2>1 DEF Commit, RestoreRegistry, SharedTypeOK, processVars, outsideVars
  <2>. QED
    BY <1>2, <1>3, <1>4, <1>5, <1>8, <2>2 DEF Commit, RestoreRegistry, Steps, CommitSteps
<1>9. CASE SaveMarker \/ MarkerFailed \/ VerifyRestored \/ VerifyOffline
  <2>1. SharedTypeOK'
    BY <1>2, <1>9 DEF SaveMarker, MarkerFailed, VerifyRestored, VerifyOffline, files,
       SharedTypeOK, registryVars, processVars, outsideVars, Maybe
  <2>2. \/ Return \/ Undo("marker") \/ Goto("clear") \/ Goto("verifyOffline")
        \/ Goto("markerFailed")
    BY <1>9 DEF SaveMarker, MarkerFailed, VerifyRestored, VerifyOffline
  <2>. QED
    BY <1>2, <1>3, <1>4, <1>5, <2>1, <2>2 DEF Steps, CommitSteps
<1>. QED
  BY <1>6, <1>7, <1>8, <1>9 DEF Offline

(* Every step keeps the types.                                             *)
THEOREM TypeStep == TypeInv /\ [Next]_vars => TypeInv'
<1>. SUFFICES ASSUME TypeInv, [Next]_vars PROVE TypeInv'
  OBVIOUS
<1>. USE DEF TypeInv, TypeOK
<1>1. CASE \E t \in Accounts : Start(t)
  <2>. PICK t \in Accounts : Start(t)
    BY <1>1
  <2>1. op' \in Operations /\ op'.target = t
    BY IdleTyped DEF Start, Operations, IdleOp, Maybe
  <2>2. SharedTypeOK'
    BY DEF Start, files, SharedTypeOK, registryVars, processVars, outsideVars
  <2>. QED
    BY <2>1, <2>2 DEF Start, Steps, AtSteps, CommitSteps
<1>2. CASE Decide \/ StopDesktop \/ ReplaceAuth \/ OpenDesktop \/ Offline
  BY <1>2, DecideTyped, StopTyped, ReplaceTyped, OpenTyped, OfflineTyped DEF Typed
<1>3. CASE Clear \/ Crash
  <2>1. SharedTypeOK'
    BY <1>3 DEF Clear, Crash, files, SharedTypeOK, registryVars, processVars, outsideVars
  <2>. QED
    BY <1>3, <2>1, ReturnTyped DEF Clear, ClearJournal, Crash, Typed, Maybe
<1>4. CASE OtherWriters \/ Outside \/ UserOpensDesktop \/ WatchedDesktopQuit
  <2>1. SharedTypeOK'
    BY <1>4, SharedStep
       DEF OtherWriters, Outside, UserOpensDesktop, WatchedDesktopQuit, Bystanders,
           Insiders, Outsiders
  <2>2. op' \in Operations /\ op'.target = op.target /\ op'.selected = op.selected
    BY <1>4 DEF OtherWriters, Outside, UserOpensDesktop, WatchedDesktopQuit, Operations
  <2>3. closed' \in BOOLEAN /\ UNCHANGED <<dist, pc>>
    BY <1>4 DEF OtherWriters, Outside, UserOpensDesktop, WatchedDesktopQuit
  <2>. QED
    BY <2>1, <2>2, <2>3 DEF AtSteps, CommitSteps
<1>5. CASE UNCHANGED vars
  BY <1>5 DEF vars, sharedVars, SharedTypeOK, registryVars, processVars, outsideVars,
     AtSteps, CommitSteps
<1>. QED
  BY <1>1, <1>2, <1>3, <1>4, <1>5 DEF Next, DistributionStep

(* Every reachable state is well typed, however the distribution, its      *)
(* rollbacks, the daemon, Desktop, the user and crashes interleave.        *)
THEOREM TypeCorrect == Spec => []TypeOK
<1>1. Init => TypeInv
  BY TypeInitial
<1>2. TypeInv /\ [Next]_vars => TypeInv'
  BY TypeStep
<1>3. TypeInv => TypeOK
  BY DEF TypeInv
<1>. QED
  BY <1>1, <1>2, <1>3, PTL DEF Spec

-----------------------------------------------------------------------------
(* What the journal says of a stopped Desktop                              *)

WriteSteps == {"compare", "rename", "readback"}
UndoSteps == {"undo", "undoRename", "undoReadback"}

(* Desktop has been told to quit only at the steps before these.           *)
OpenSteps == {"plan", "create", "mark", "capture", "stop", "sync", "saveMarker",
              "markerFailed", "verifyOffline", "bind", "verifyLaunch",
              "commitLatest", "confirm", "rebind", "clear"}

(* The steps that only a restart of Desktop takes.                         *)
RestartSteps == {"mark", "capture", "stop", "stopping", "finalize", "handoff",
                 "markCommit"}

(* The steps that stop Desktop or leave auth.json and the registry apart.  *)
UncertainSteps == WriteSteps \union UndoSteps \union
    {"capture", "stop", "stopping", "finalize", "handoff", "markCommit",
     "markRelaunch", "launch", "bind", "verifyLaunch", "commitLatest", "confirm",
     "reopen", "rebind", "commit", "restoreRegistry", "verifyRestored"}

(* The operation writes auth.json with Desktop closed, or undoes that.     *)
OfflineWrite ==
    \/ pc \in {"markOffline", "commit", "restoreRegistry", "verifyRestored"}
    \/ ~op.restart /\ pc \in WriteSteps
    \/ op.cli /\ pc \in {"saveMarker", "markerFailed"}
    \/ op.undone = "marker" /\ pc \in UndoSteps

OfflineSaved == op.cli /\ pc \in {"saveMarker", "markerFailed"}

ClosedInv ==
    /\ TypeInv
    /\ closed => Uncertain
    /\ pc \in {"plan", "create"} => dist = None
    /\ pc \in OpenSteps \/ OfflineWrite => ~closed
    /\ pc \in RestartSteps => op.restart
    /\ pc \in UncertainSteps \/ OfflineSaved => Uncertain

(* The steps at which the two files agree whatever the journal says.       *)
AgreeSteps == {"mark", "capture", "stop", "sync", "saveMarker", "markerFailed",
               "verifyOffline", "clear"}

DivergenceInv ==
    /\ ClosedInv
    /\ Agreement \/ Uncertain
    /\ pc \in AgreeSteps => Agreement
    /\ pc = "commit" /\ auth # None => auth.acct = op.target
    /\ pc = "confirm" => op.previous # None /\ op.previous.acct = op.bind
    /\ OfflineWrite => op.previous # None /\ op.previous.acct = op.from

(* Nothing is uncertain before the first operation.                        *)
THEOREM ClosedInitial == Init => ClosedInv
  BY TypeInitial
     DEF Init, ClosedInv, OpenSteps, OfflineWrite, OfflineSaved, RestartSteps,
         UncertainSteps, WriteSteps, UndoSteps

(* An operation that returns leaves the journal, or had not told Desktop   *)
(* to quit.                                                                *)
LEMMA ClosedReturn ==
    ASSUME ClosedInv, TypeInv', Return, UNCHANGED closed,
           UNCHANGED dist \/ ~closed
    PROVE  ClosedInv'
  BY DEF Return, ClosedInv, Uncertain, OpenSteps, OfflineWrite, OfflineSaved,
     RestartSteps, UncertainSteps, WriteSteps, UndoSteps

(* Giving Desktop back and undoing a write keep the journal uncertain.     *)
LEMMA ClosedAbort ==
    ASSUME ClosedInv, TypeInv', UNCHANGED closed, Uncertain',
           \/ Abort(TRUE) \/ Abort(FALSE)
           \/ Undo("relaunch") \/ Undo("registry")
           \/ Undo("marker") /\ ~closed
    PROVE  ClosedInv'
<1>1. /\ pc' \in {"reopen", "undo"}
      /\ pc' = "undo" => op'.undone # "marker" \/ ~closed'
  BY DEF Abort, Undo, ClosedInv, TypeInv, TypeOK, Operations
<1>. QED
  BY <1>1 DEF ClosedInv, OpenSteps, OfflineWrite, OfflineSaved, RestartSteps,
     UncertainSteps, WriteSteps, UndoSteps

(* A journal the operation writes after its first phase is uncertain.      *)
LEMMA PhaseUncertain ==
    ASSUME op.target \in Accounts, NEW phase \in Phases \ {"initialized"}, Phase(phase)
    PROVE  Uncertain'
  BY PhaseTyped DEF Uncertain

(* No step forgets that Desktop was told to quit.                          *)
THEOREM ClosedStep == ClosedInv /\ [Next]_vars => ClosedInv'
<1>. SUFFICES ASSUME ClosedInv, [Next]_vars PROVE ClosedInv'
  OBVIOUS
<1>0. TypeInv /\ TypeInv' /\ op \in Operations /\ (pc # "idle" => op.target \in Accounts)
  BY TypeStep DEF ClosedInv, TypeInv, TypeOK, AtSteps
<1>. USE DEF OpenSteps, OfflineWrite, OfflineSaved, RestartSteps, UncertainSteps,
     WriteSteps, UndoSteps
<1>1. CASE \E t \in Accounts : Start(t)
  BY <1>0, <1>1 DEF Start, ClosedInv, Uncertain
<1>2. CASE Gate
  <2>1. dist # None /\ dist.phase = "initialized" => ~closed
    BY DEF ClosedInv, Uncertain
  <2>2. CASE Return
    BY <1>0, <1>2, <2>1, <2>2, ClosedReturn DEF Gate
  <2>3. CASE Goto("plan")
    BY <1>0, <1>2, <2>1, <2>3 DEF Gate, Goto, Return, ClosedInv, Uncertain
  <2>. QED
    BY <1>2, <2>2, <2>3 DEF Gate
<1>3. CASE Plan
  <2>1. CASE Return
    BY <1>0, <1>3, <2>1, ClosedReturn DEF Plan
  <2>2. CASE pc' = "create"
    BY <1>0, <1>3, <2>2 DEF Plan, ClosedInv
  <2>. QED
    BY <1>3, <2>1, <2>2 DEF Plan
<1>4. CASE Create
  <2>1. CASE Return
    BY <1>0, <1>4, <2>1, ClosedReturn DEF Create, ClosedInv
  <2>2. CASE Goto(IF op.restart THEN "mark" ELSE "sync")
    BY <1>0, <1>4, <2>2 DEF Create, Goto, ClosedInv
  <2>. QED
    BY <1>4, <2>1, <2>2 DEF Create
<1>5. CASE Mark
  <2>1. CASE Return
    BY <1>0, <1>5, <2>1, ClosedReturn DEF Mark, ClosedInv
  <2>2. CASE Phase("stopping_desktop") /\ Goto("capture")
    <3>1. Uncertain'
      BY <1>0, <1>5, <2>2, PhaseUncertain DEF Mark, Phases
    <3>. QED
      BY <1>0, <1>5, <2>2, <3>1 DEF Mark, Goto, ClosedInv
  <2>. QED
    BY <1>5, <2>1, <2>2 DEF Mark
<1>6. CASE Capture
  <2>1. CASE Return
    BY <1>0, <1>6, <2>1, ClosedReturn DEF Capture, ClosedInv
  <2>2. CASE pc' = "stop" /\ op' = [op EXCEPT !.mine = TRUE] /\ UNCHANGED <<dist, closed>>
    <3>1. op'.restart = op.restart /\ op'.undone = op.undone /\ op'.cli = op.cli
      BY <1>0, <2>2 DEF Operations
    <3>. QED
      BY <1>0, <1>6, <2>2, <3>1 DEF Capture, ClosedInv, Uncertain
  <2>. QED
    BY <1>6, <2>1, <2>2 DEF Capture
<1>7. CASE Stop
  <2>1. CASE Return
    BY <1>0, <1>7, <2>1, ClosedReturn DEF Stop, Return, Goto, ClosedInv
  <2>2. CASE Goto("stopping") /\ UNCHANGED dist
    BY <1>0, <1>7, <2>2 DEF Stop, Goto, ClosedInv, Uncertain
  <2>. QED
    BY <1>7, <2>1, <2>2 DEF Stop
<1>8. CASE Stopped \/ StopFails \/ FinalizeAfterStop
  <2>1. pc \in UncertainSteps /\ UNCHANGED <<dist, closed>> /\ Uncertain'
    BY <1>8 DEF Stopped, StopFails, FinalizeAfterStop, ClosedInv, Uncertain
  <2>2. CASE Return \/ Abort(FALSE)
    BY <1>0, <2>1, <2>2, ClosedReturn, ClosedAbort
  <2>3. CASE Goto("finalize") \/ Goto("handoff")
    BY <1>0, <1>8, <2>1, <2>3 DEF Stopped, StopFails, FinalizeAfterStop, Goto, ClosedInv
  <2>. QED
    BY <1>8, <2>2, <2>3 DEF Stopped, StopFails, FinalizeAfterStop
<1>9. CASE Handoff
  <2>1. Uncertain' /\ UNCHANGED <<dist, closed>>
    BY <1>9 DEF Handoff, ClosedInv, Uncertain
  <2>2. CASE Abort(TRUE) \/ Abort(FALSE)
    BY <1>0, <2>1, <2>2, ClosedAbort
  <2>3. CASE pc' = "markCommit" /\ op' = [op EXCEPT !.selected = saved'[op.target]]
    <3>1. op'.restart = op.restart
      BY <1>0, <2>3 DEF Operations
    <3>. QED
      BY <1>0, <1>9, <2>1, <2>3, <3>1 DEF Handoff, ClosedInv
  <2>. QED
    BY <1>9, <2>2, <2>3 DEF Handoff
<1>10. CASE MarkCommit
  <2>1. Uncertain' /\ UNCHANGED closed
    BY <1>0, <1>10, PhaseUncertain DEF MarkCommit, Phases, ClosedInv, Uncertain
  <2>2. CASE Abort(FALSE)
    BY <1>0, <2>1, <2>2, ClosedAbort
  <2>3. CASE Goto("compare")
    BY <1>0, <1>10, <2>1, <2>3 DEF MarkCommit, Goto, ClosedInv
  <2>. QED
    BY <1>10, <2>2, <2>3 DEF MarkCommit
<1>11. CASE Compare
  <2>1. Uncertain' /\ UNCHANGED <<dist, closed>>
    BY <1>11 DEF Compare, ClosedInv, Uncertain
  <2>2. CASE WriteFails
    BY <1>0, <2>1, <2>2, ClosedAbort, ClosedReturn DEF WriteFails
  <2>3. CASE pc' = "rename" /\ op' = [op EXCEPT !.previous = auth]
    <3>1. op'.restart = op.restart
      BY <1>0, <2>3 DEF Operations
    <3>. QED
      BY <1>0, <1>11, <2>1, <2>3, <3>1 DEF Compare, ClosedInv
  <2>. QED
    BY <1>11, <2>2, <2>3 DEF Compare
<1>12. CASE Rename \/ Readback \/ UndoCompare \/ UndoRename \/ UndoReadback
  <2>1. Uncertain' /\ UNCHANGED <<dist, closed>>
    BY <1>12 DEF Rename, Readback, UndoCompare, UndoRename, UndoReadback, files,
       ClosedInv, Uncertain
  <2>2. CASE Return \/ Abort(FALSE) \/ WriteFails
    BY <1>0, <2>1, <2>2, ClosedAbort, ClosedReturn DEF WriteFails
  <2>3. CASE Rename
    <3>1. CASE Goto("readback")
      BY <1>0, <2>1, <2>3, <3>1 DEF Rename, Goto, ClosedInv
    <3>. QED
      BY <2>2, <2>3, <3>1 DEF Rename
  <2>4. CASE Readback
    <3>1. CASE Goto(IF op.restart THEN "markRelaunch" ELSE "commit")
      BY <1>0, <2>1, <2>4, <3>1 DEF Readback, Goto, ClosedInv
    <3>. QED
      BY <2>2, <2>4, <3>1 DEF Readback
  <2>5. CASE UndoCompare
    <3>1. CASE Goto("undoRename")
      BY <1>0, <2>1, <2>5, <3>1 DEF UndoCompare, Goto, ClosedInv
    <3>. QED
      BY <2>2, <2>5, <3>1 DEF UndoCompare
  <2>6. CASE UndoRename
    <3>1. CASE Goto("undoReadback")
      BY <1>0, <2>1, <2>6, <3>1 DEF UndoRename, Goto, ClosedInv
    <3>. QED
      BY <2>2, <2>6, <3>1 DEF UndoRename
  <2>7. CASE UndoReadback
    <3>1. \/ Return \/ Abort(FALSE)
          \/ op.undone = "marker" /\ Goto("restoreRegistry")
      BY <1>0, <2>7 DEF UndoReadback, Operations, Undone
    <3>2. CASE op.undone = "marker" /\ Goto("restoreRegistry")
      BY <1>0, <2>1, <2>7, <3>2 DEF UndoReadback, Goto, ClosedInv
    <3>. QED
      BY <2>2, <3>1, <3>2
  <2>. QED
    BY <1>12, <2>3, <2>4, <2>5, <2>6, <2>7
<1>13. CASE MarkRelaunch
  <2>1. Uncertain' /\ UNCHANGED closed
    BY <1>0, <1>13, PhaseUncertain DEF MarkRelaunch, Phases, ClosedInv, Uncertain
  <2>2. CASE Undo("relaunch")
    BY <1>0, <2>1, <2>2, ClosedAbort
  <2>3. CASE Goto("launch")
    BY <1>0, <1>13, <2>1, <2>3 DEF MarkRelaunch, Goto, ClosedInv
  <2>. QED
    BY <1>13, <2>2, <2>3 DEF MarkRelaunch
<1>14. CASE Launch \/ Reopen
  <2>1. Uncertain' /\ UNCHANGED dist
    BY <1>14 DEF Launch, Reopen, ClosedInv, Uncertain
  <2>2. /\ pc' \in {"bind", "commitLatest", "rebind"} => ~closed'
        /\ pc' \in {"bind", "commitLatest", "rebind", "undo", "idle"}
        /\ pc' = "undo" => op'.undone = "relaunch"
    BY <1>0, <1>14 DEF Launch, Reopen, Undo, Return, Operations
  <2>. QED
    BY <1>0, <2>1, <2>2 DEF ClosedInv
<1>15. CASE Bind \/ VerifyLaunch \/ CommitLatest \/ Confirm \/ Rebind
  <2>1. UNCHANGED <<dist, closed>> /\ ~closed /\ Uncertain'
    BY <1>15 DEF Bind, VerifyLaunch, CommitLatest, Confirm, Rebind, ClosedInv, Uncertain
  <2>2. pc' \in {"idle", "verifyLaunch", "commitLatest", "confirm", "clear"}
    BY <1>15 DEF Bind, VerifyLaunch, CommitLatest, Confirm, Rebind, BindingFails,
       Return, Goto
  <2>. QED
    BY <1>0, <2>1, <2>2 DEF ClosedInv
<1>16. CASE Sync
  <2>1. ~closed' /\ UNCHANGED dist
    BY <1>16 DEF Sync, ClosedInv
  <2>2. /\ pc' \in {"idle", "markOffline", "saveMarker"}
        /\ pc' = "saveMarker" => ~op'.cli
    BY <1>0, <1>16 DEF Sync, Return, Goto
  <2>. QED
    BY <1>0, <2>1, <2>2 DEF ClosedInv
<1>17. CASE MarkOffline
  <2>1. ~closed' /\ UNCHANGED closed
    BY <1>17 DEF MarkOffline, ClosedInv
  <2>2. CASE Return
    BY <1>0, <2>1, <2>2, ClosedReturn
  <2>3. CASE Phase("auth_commit_cli") /\ Goto("compare")
    <3>1. Uncertain'
      BY <1>0, <1>17, <2>3, PhaseUncertain DEF MarkOffline, Phases
    <3>. QED
      BY <1>0, <2>1, <2>3, <3>1 DEF Goto, ClosedInv
  <2>. QED
    BY <1>17, <2>2, <2>3 DEF MarkOffline
<1>18. CASE Commit \/ RestoreRegistry
  <2>1. UNCHANGED <<dist, closed>> /\ ~closed /\ Uncertain'
    BY <1>18 DEF Commit, RestoreRegistry, ClosedInv, Uncertain
  <2>2. CASE Return \/ Undo("registry")
    BY <1>0, <2>1, <2>2, ClosedReturn, ClosedAbort
  <2>3. CASE Goto("saveMarker") \/ Goto("verifyRestored")
    BY <1>0, <2>1, <2>3 DEF Goto, ClosedInv
  <2>. QED
    BY <1>18, <2>2, <2>3 DEF Commit, RestoreRegistry
<1>19. CASE SaveMarker \/ MarkerFailed
  <2>1. UNCHANGED <<dist, closed>> /\ ~closed /\ (op.cli => Uncertain')
    BY <1>19 DEF SaveMarker, MarkerFailed, ClosedInv, Uncertain
  <2>2. CASE Return
    BY <1>0, <2>1, <2>2, ClosedReturn
  <2>3. CASE op.cli /\ Undo("marker")
    BY <1>0, <2>1, <2>3, ClosedAbort
  <2>4. CASE Goto("verifyOffline") \/ Goto("markerFailed") \/ Goto("clear")
    BY <1>0, <2>1, <2>4 DEF Goto, ClosedInv
  <2>. QED
    BY <1>19, <2>2, <2>3, <2>4 DEF SaveMarker, MarkerFailed
<1>20. CASE VerifyRestored \/ VerifyOffline
  <2>1. UNCHANGED <<dist, closed>> /\ ~closed
    BY <1>20 DEF VerifyRestored, VerifyOffline, ClosedInv
  <2>2. pc' \in {"idle", "clear"}
    BY <1>20 DEF VerifyRestored, VerifyOffline, Return, Goto
  <2>. QED
    BY <1>0, <2>1, <2>2 DEF ClosedInv
<1>21. CASE Clear \/ Crash
  BY <1>0, <1>21, ClosedReturn DEF Clear, Crash, ClosedInv
<1>22. CASE OtherWriters \/ Outside \/ UserOpensDesktop \/ WatchedDesktopQuit
  <2>1. UNCHANGED <<dist, pc>> /\ (closed' => closed)
    BY <1>22 DEF OtherWriters, Outside, UserOpensDesktop, WatchedDesktopQuit
  <2>2. /\ op'.restart = op.restart /\ op'.cli = op.cli /\ op'.undone = op.undone
    BY <1>0, <1>22 DEF OtherWriters, Outside, UserOpensDesktop, WatchedDesktopQuit,
       Operations
  <2>. QED
    BY <1>0, <2>1, <2>2 DEF ClosedInv, Uncertain
<1>23. CASE UNCHANGED vars
  BY <1>0, <1>23 DEF vars, ClosedInv, Uncertain
<1>. QED
  BY <1>1, <1>2, <1>3, <1>4, <1>5, <1>6, <1>7, <1>8, <1>9, <1>10, <1>11, <1>12,
     <1>13, <1>14, <1>15, <1>16, <1>17, <1>18, <1>19, <1>20, <1>21, <1>22, <1>23
     DEF Next, DistributionStep, Decide, StopDesktop, ReplaceAuth, OpenDesktop, Offline

(* A Desktop that a distribution told to quit has been opened again, or an *)
(* uncertain journal keeps every later distribution from going on, through *)
(* every error path, crash and interleaving.                               *)
THEOREM ClosedRecorded == Spec => []ClosedDesktopRecorded
<1>1. Init => ClosedInv
  BY ClosedInitial
<1>2. ClosedInv /\ [Next]_vars => ClosedInv'
  BY ClosedStep
<1>3. ClosedInv => ClosedDesktopRecorded
  BY DEF ClosedInv, ClosedDesktopRecorded
<1>. QED
  BY <1>1, <1>2, <1>3, PTL DEF Spec

-----------------------------------------------------------------------------
(* What the journal says of auth.json and the registry                     *)

(* Agreement depends on three variables only.                              *)
LEMMA AgreementFrame ==
    ASSUME UNCHANGED <<auth, active, saved>>
    PROVE  Agreement' <=> Agreement
  BY DEF Agreement, Registered

(* A registry that was synced from auth.json names the account it holds.   *)
LEMMA AgreementSync ==
    ASSUME SyncRegistry, UNCHANGED auth
    PROVE  Agreement'
  BY DEF Agreement, SyncRegistry

(* A step that leaves the two files alone keeps what is said of them,      *)
(* unless it removes the journal of a divergence.                          *)
LEMMA DivergenceFrame ==
    ASSUME DivergenceInv, ClosedInv', UNCHANGED <<auth, active, saved>>,
           UNCHANGED dist \/ Agreement \/ Uncertain',
           pc' \in AgreeSteps => Agreement,
           pc' \notin {"commit", "confirm"}, ~OfflineWrite'
    PROVE  DivergenceInv'
  BY AgreementFrame DEF DivergenceInv, Uncertain

(* At these steps the journal covers whatever the step did.                *)
LEMMA DivergenceUncertain ==
    ASSUME ClosedInv', pc' \in UncertainSteps,
           pc' \notin {"capture", "stop", "commit", "confirm"},
           OfflineWrite' => op'.previous # None /\ op'.previous.acct = op'.from
    PROVE  DivergenceInv'
  BY DEF ClosedInv, DivergenceInv, AgreeSteps, UncertainSteps, WriteSteps, UndoSteps

(* Returning, and giving Desktop back, are such steps.                     *)
LEMMA DivergenceReturn ==
    ASSUME DivergenceInv, ClosedInv', UNCHANGED <<auth, active, saved>>,
           UNCHANGED dist \/ Agreement \/ Uncertain',
           Return \/ Abort(TRUE) \/ Abort(FALSE) \/ Undo("relaunch") \/ Undo("registry")
    PROVE  DivergenceInv'
<1>1. pc' \in {"idle", "reopen", "undo"}
  BY DEF Return, Abort, Undo
<1>2. pc' = "undo" => op'.undone # "marker"
  BY DEF Return, Abort, Undo, DivergenceInv, ClosedInv, TypeInv, TypeOK, Operations
<1>3. ~OfflineWrite' /\ pc' \notin AgreeSteps
  BY <1>1, <1>2 DEF OfflineWrite, AgreeSteps, WriteSteps, UndoSteps
<1>. QED
  BY <1>1, <1>3, DivergenceFrame

(* No divergence at the start.                                             *)
THEOREM DivergenceInitial == Init => DivergenceInv
<1>. SUFFICES ASSUME Init PROVE DivergenceInv
  OBVIOUS
<1>1. auth # None => active = auth.acct
  BY DEF Init, SharedInit, Credential
<1>. QED
  BY <1>1, ClosedInitial
     DEF Init, DivergenceInv, Agreement, AgreeSteps, OfflineWrite, WriteSteps, UndoSteps

(* The steps up to the stop leave the files alone.                         *)
LEMMA DivergenceDecide ==
    ASSUME DivergenceInv, ClosedInv', Decide \/ Mark \/ Capture \/ Stop
    PROVE  DivergenceInv'
<1>1. UNCHANGED <<auth, active, saved>>
  BY DEF Decide, Gate, Plan, Create, Mark, Capture, Stop, files, registryVars
<1>2. dist = None \/ dist.phase = "initialized" => Agreement
  BY DEF DivergenceInv, Uncertain
<1>3. pc \in {"create", "mark", "capture", "stop"} => Agreement
  BY <1>2 DEF DivergenceInv, ClosedInv, AgreeSteps
<1>4. UNCHANGED dist \/ Agreement
  BY <1>2, <1>3 DEF Decide, Gate, Plan, Create, Mark, Capture, Stop
<1>5. /\ pc' \in {"idle", "plan", "create", "mark", "sync", "capture", "stop", "stopping"}
      /\ pc' \in AgreeSteps => Agreement
  BY <1>3 DEF Decide, Gate, Plan, Create, Mark, Capture, Stop, Return, Goto, AgreeSteps
<1>6. ~OfflineWrite'
  BY <1>5 DEF OfflineWrite, WriteSteps, UndoSteps
<1>. QED
  BY <1>1, <1>4, <1>5, <1>6, DivergenceFrame

(* The other steps of a stop run under an uncertain journal.               *)
LEMMA DivergenceStop ==
    ASSUME DivergenceInv, ClosedInv',
           Stopped \/ StopFails \/ FinalizeAfterStop \/ Handoff \/ MarkCommit
    PROVE  DivergenceInv'
<1>1. /\ pc' \in {"idle", "finalize", "handoff", "markCommit", "compare", "reopen"}
      /\ pc' = "idle" => UNCHANGED <<files, dist>>
      /\ pc' = "compare" => op'.restart
  BY DEF Stopped, StopFails, FinalizeAfterStop, Handoff, MarkCommit, Return, Goto,
     Abort, DivergenceInv, ClosedInv, RestartSteps
<1>2. ~OfflineWrite' /\ pc' \notin AgreeSteps
  BY <1>1 DEF OfflineWrite, AgreeSteps, WriteSteps, UndoSteps
<1>3. CASE pc' = "idle"
  BY <1>1, <1>2, <1>3, DivergenceFrame DEF files, registryVars
<1>4. CASE pc' # "idle"
  BY <1>1, <1>2, <1>4, DivergenceUncertain DEF UncertainSteps, WriteSteps
<1>. QED
  BY <1>3, <1>4

(* Writing auth.json and undoing it.                                       *)
LEMMA DivergenceReplace ==
    ASSUME DivergenceInv, ClosedInv', ReplaceAuth
    PROVE  DivergenceInv'
<1>0. op \in Operations
  BY DEF DivergenceInv, ClosedInv, TypeInv, TypeOK
<1>1. UNCHANGED <<active, saved, dist>>
  BY DEF ReplaceAuth, Compare, Rename, Readback, UndoCompare, UndoRename,
     UndoReadback, files, registryVars
<1>2. CASE UNCHANGED auth /\ (Return \/ Abort(FALSE) \/ WriteFails)
  BY <1>1, <1>2, DivergenceReturn DEF WriteFails
<1>3. CASE Compare /\ pc' = "rename"
  <2>1. op' = [op EXCEPT !.previous = auth]
    BY <1>3 DEF Compare, WriteFails, Return, Abort
  <2>2. op'.restart = op.restart /\ op'.previous = auth /\ op'.from = op.from
    BY <1>0, <2>1 DEF Operations
  <2>3. OfflineWrite' => OfflineWrite /\ auth = op.previous
    BY <1>3, <2>2 DEF Compare, WriteFails, Return, Abort, OfflineWrite, WriteSteps, UndoSteps
  <2>. QED
    BY <1>3, <2>2, <2>3, DivergenceUncertain DEF DivergenceInv, UncertainSteps, WriteSteps
<1>4. CASE /\ UNCHANGED op
           /\ \/ pc \in WriteSteps /\ pc' \in WriteSteps
              \/ /\ pc \in UndoSteps /\ pc' \in UndoSteps \union {"restoreRegistry"}
                 /\ pc' = "restoreRegistry" => op.undone = "marker"
              \/ pc' = "markRelaunch"
  <2>1. OfflineWrite' => OfflineWrite
    BY <1>4 DEF OfflineWrite, WriteSteps, UndoSteps
  <2>. QED
    BY <1>4, <2>1, DivergenceUncertain
       DEF DivergenceInv, UncertainSteps, WriteSteps, UndoSteps
<1>5. CASE Readback /\ Goto(IF op.restart THEN "markRelaunch" ELSE "commit")
  <2>1. CASE op.restart
    BY <1>4, <1>5, <2>1 DEF Goto
  <2>2. CASE ~op.restart
    <3>1. auth = Committed /\ UNCHANGED <<auth, op>> /\ OfflineWrite /\ pc' = "commit"
      BY <1>5, <2>2
         DEF Readback, WriteFails, Return, Goto, files, OfflineWrite, WriteSteps
    <3>. QED
      BY <3>1 DEF Committed, Credential, DivergenceInv, ClosedInv, AgreeSteps,
         UncertainSteps
  <2>. QED
    BY <2>1, <2>2
<1>6. CASE Compare
  BY <1>2, <1>3, <1>6 DEF Compare, files
<1>7. CASE Rename
  <2>1. CASE Goto("readback")
    <3>1. UNCHANGED op /\ pc \in WriteSteps /\ pc' \in WriteSteps
      BY <1>7, <2>1 DEF Rename, Goto, WriteSteps
    <3>. QED
      BY <1>4, <3>1
  <2>. QED
    BY <1>2, <1>7, <2>1 DEF Rename
<1>8. CASE Readback
  BY <1>2, <1>5, <1>8 DEF Readback, files
<1>9. CASE UndoCompare
  <2>1. CASE Goto("undoRename")
    BY <1>4, <1>9, <2>1 DEF UndoCompare, Goto, UndoSteps
  <2>. QED
    BY <1>2, <1>9, <2>1 DEF UndoCompare, files
<1>10. CASE UndoRename
  <2>1. CASE Goto("undoReadback")
    BY <1>4, <1>10, <2>1 DEF UndoRename, Goto, UndoSteps
  <2>. QED
    BY <1>2, <1>10, <2>1 DEF UndoRename
<1>11. CASE UndoReadback
  <2>1. \/ Return \/ Abort(FALSE)
        \/ op.undone = "marker" /\ Goto("restoreRegistry")
    BY <1>0, <1>11 DEF UndoReadback, Operations, Undone
  <2>2. CASE op.undone = "marker" /\ Goto("restoreRegistry")
    BY <1>4, <1>11, <2>2 DEF UndoReadback, Goto, UndoSteps
  <2>. QED
    BY <1>2, <1>11, <2>1, <2>2 DEF UndoReadback, files
<1>. QED
  BY <1>6, <1>7, <1>8, <1>9, <1>10, <1>11 DEF ReplaceAuth

(* Opening Desktop again.                                                  *)
LEMMA DivergenceOpen ==
    ASSUME DivergenceInv, ClosedInv', OpenDesktop
    PROVE  DivergenceInv'
<1>0. op \in Operations
  BY DEF DivergenceInv, ClosedInv, TypeInv, TypeOK
<1>1. /\ UNCHANGED auth
      /\ UNCHANGED registryVars \/ (SyncRegistry /\ pc' = "confirm")
  <2>1. CASE CommitLatest
    BY <1>0, <2>1 DEF CommitLatest, Operations
  <2>2. CASE MarkRelaunch \/ Launch \/ Bind \/ VerifyLaunch \/ Confirm \/ Reopen \/ Rebind
    BY <1>0, <2>2 DEF MarkRelaunch, Launch, Bind, VerifyLaunch, Confirm, Reopen, Rebind,
       files, Operations
  <2>. QED
    BY <2>1, <2>2 DEF OpenDesktop
<1>2. CASE pc' \in {"undo", "launch", "bind", "verifyLaunch", "commitLatest", "rebind"}
  <2>1. pc' = "undo" => op'.undone = "relaunch"
    BY <1>0 DEF OpenDesktop, MarkRelaunch, Launch, Bind, VerifyLaunch, CommitLatest,
       Confirm, Reopen, Rebind, BindingFails, Return, Goto, Undo, Operations
  <2>2. ~OfflineWrite'
    BY <1>2, <2>1 DEF OfflineWrite, WriteSteps, UndoSteps
  <2>. QED
    BY <1>2, <2>2, DivergenceUncertain DEF UncertainSteps, UndoSteps
<1>3. CASE pc' = "idle"
  <2>1. UNCHANGED dist /\ (Return \/ pc' # "idle")
    BY <1>3 DEF OpenDesktop, MarkRelaunch, Launch, Bind, VerifyLaunch, CommitLatest,
       Confirm, Reopen, Rebind, BindingFails, Return, Goto, Undo
  <2>. QED
    BY <1>1, <1>3, <2>1, DivergenceReturn DEF registryVars
<1>4. CASE CommitLatest /\ pc' = "confirm"
  <2>1. /\ SyncRegistry /\ auth.acct = op.bind
        /\ op' = [op EXCEPT !.previous = auth]
    BY <1>4 DEF CommitLatest, BindingFails, Return
  <2>2. auth # None /\ op'.previous = auth /\ op'.bind = op.bind
    BY <1>0, <2>1 DEF SyncRegistry, Operations
  <2>. QED
    BY <1>4, <2>1, <2>2 DEF DivergenceInv, ClosedInv, UncertainSteps, AgreeSteps,
       OfflineWrite, WriteSteps, UndoSteps
<1>5. CASE Confirm /\ pc' = "clear"
  <2>1. Agreement
    BY <1>5 DEF Confirm, BindingFails, Return, DivergenceInv, Agreement
  <2>2. UNCHANGED <<auth, active, saved, dist>>
    BY <1>5 DEF Confirm, registryVars
  <2>. QED
    BY <1>5, <2>1, <2>2, DivergenceFrame DEF OfflineWrite, WriteSteps, UndoSteps
<1>6. \/ pc' \in {"undo", "launch", "bind", "verifyLaunch", "commitLatest", "rebind"}
      \/ pc' = "idle"
      \/ CommitLatest /\ pc' = "confirm"
      \/ Confirm /\ pc' = "clear"
  <2>1. CASE CommitLatest
    BY <1>0, <2>1 DEF CommitLatest, BindingFails, Return, Operations
  <2>2. CASE Confirm
    BY <1>0, <2>2 DEF Confirm, BindingFails, Return, Goto, Operations
  <2>3. CASE MarkRelaunch \/ Launch \/ Bind \/ VerifyLaunch \/ Reopen \/ Rebind
    BY <1>0, <2>3 DEF MarkRelaunch, Launch, Bind, VerifyLaunch, Reopen, Rebind, Return,
       Goto, Undo, Operations
  <2>. QED
    BY <2>1, <2>2, <2>3 DEF OpenDesktop
<1>. QED
  BY <1>2, <1>3, <1>4, <1>5, <1>6

(* The offline path.                                                       *)
LEMMA DivergenceOffline ==
    ASSUME DivergenceInv, ClosedInv', Offline
    PROVE  DivergenceInv'
<1>0. op \in Operations
  BY DEF DivergenceInv, ClosedInv, TypeInv, TypeOK
<1>1. CASE Sync
  <2>1. CASE SyncRegistry /\ pc' = "markOffline"
    <3>1. /\ auth # None /\ auth.acct = op.from /\ UNCHANGED <<auth, dist>>
          /\ op' = [op EXCEPT !.previous = auth, !.selected = saved'[op.target]]
      BY <1>0, <1>1, <2>1 DEF Sync, SyncRegistry, Return, Goto
    <3>2. op'.previous = auth /\ op'.from = op.from
      BY <1>0, <3>1 DEF Operations
    <3>3. Agreement'
      BY <2>1, <3>1, AgreementSync
    <3>. QED
      BY <2>1, <3>1, <3>2, <3>3 DEF DivergenceInv
  <2>2. CASE Return /\ UNCHANGED registryVars
    BY <1>1, <2>2, DivergenceReturn DEF Sync, registryVars
  <2>3. CASE ~op.cli /\ Goto("saveMarker") /\ UNCHANGED registryVars
    <3>1. Agreement /\ pc' = "saveMarker" /\ ~op'.cli
      BY <1>1, <2>3 DEF Sync, Goto, DivergenceInv, AgreeSteps
    <3>. QED
      BY <1>1, <2>3, <3>1, DivergenceFrame
         DEF Sync, registryVars, OfflineWrite, WriteSteps, UndoSteps
  <2>. QED
    BY <1>1, <2>1, <2>2, <2>3 DEF Sync
<1>2. CASE MarkOffline
  <2>1. CASE Return
    <3>1. UNCHANGED dist \/ Uncertain'
      <4>1. op.target \in Accounts
        BY <1>2 DEF MarkOffline, DivergenceInv, ClosedInv, TypeInv, AtSteps
      <4>. QED
        BY <1>2, <4>1, PhaseUncertain DEF MarkOffline, Phases
    <3>. QED
      BY <1>2, <2>1, <3>1, DivergenceReturn DEF MarkOffline, files, registryVars
  <2>2. CASE Goto("compare")
    <3>1. OfflineWrite /\ UNCHANGED op /\ pc' = "compare"
      BY <1>2, <2>2 DEF MarkOffline, Goto, OfflineWrite
    <3>. QED
      BY <3>1, DivergenceUncertain DEF DivergenceInv, UncertainSteps, WriteSteps
  <2>. QED
    BY <1>2, <2>1, <2>2 DEF MarkOffline
<1>3. CASE Commit
  <2>1. CASE Undo("registry") /\ UNCHANGED active
    BY <1>3, <2>1, DivergenceReturn DEF Commit
  <2>2. CASE active' = op.target /\ Goto("saveMarker")
    <3>1. /\ Agreement' /\ OfflineWrite /\ UNCHANGED op /\ pc' = "saveMarker"
      BY <1>3, <2>2 DEF Commit, Goto, DivergenceInv, Agreement, OfflineWrite
    <3>. QED
      BY <3>1 DEF DivergenceInv
  <2>. QED
    BY <1>3, <2>1, <2>2 DEF Commit
<1>4. CASE SaveMarker \/ MarkerFailed \/ VerifyOffline
  <2>1. UNCHANGED <<auth, active, saved, dist>> /\ Agreement
    BY <1>4 DEF SaveMarker, MarkerFailed, VerifyOffline, files, registryVars,
       DivergenceInv, AgreeSteps
  <2>2. CASE Return
    BY <2>1, <2>2, DivergenceReturn
  <2>3. CASE Goto("verifyOffline") \/ Goto("clear")
    BY <2>1, <2>3, DivergenceFrame DEF Goto, OfflineWrite, WriteSteps, UndoSteps
  <2>4. CASE SaveMarker /\ Goto("markerFailed")
    <3>1. UNCHANGED op /\ pc' = "markerFailed" /\ (OfflineWrite' => OfflineWrite)
      BY <2>4 DEF SaveMarker, Goto, OfflineWrite, WriteSteps, UndoSteps
    <3>. QED
      BY <2>1, <3>1, AgreementFrame DEF DivergenceInv
  <2>5. CASE MarkerFailed /\ op.cli /\ Undo("marker")
    <3>1. OfflineWrite
      BY <2>5 DEF MarkerFailed, OfflineWrite
    <3>2. op'.previous = op.previous /\ op'.from = op.from /\ pc' = "undo"
      BY <1>0, <2>5 DEF Undo, Operations
    <3>. QED
      BY <3>1, <3>2, DivergenceUncertain DEF DivergenceInv, UncertainSteps, UndoSteps
  <2>6. SaveMarker => Goto("verifyOffline") \/ Goto("markerFailed")
    BY DEF SaveMarker
  <2>7. MarkerFailed => Return \/ Goto("clear") \/ (op.cli /\ Undo("marker"))
    BY DEF MarkerFailed
  <2>8. VerifyOffline => Return \/ Goto("clear")
    BY DEF VerifyOffline
  <2>. QED
    BY <1>4, <2>2, <2>3, <2>4, <2>5, <2>6, <2>7, <2>8
<1>5. CASE RestoreRegistry
  <2>1. CASE Return /\ UNCHANGED active
    BY <1>5, <2>1, DivergenceReturn DEF RestoreRegistry
  <2>2. CASE Goto("verifyRestored")
    <3>1. OfflineWrite /\ UNCHANGED op /\ pc' = "verifyRestored"
      BY <1>5, <2>2 DEF RestoreRegistry, Goto, OfflineWrite
    <3>. QED
      BY <3>1, DivergenceUncertain DEF DivergenceInv, UncertainSteps
  <2>. QED
    BY <1>5, <2>1, <2>2 DEF RestoreRegistry
<1>6. CASE VerifyRestored
  <2>1. UNCHANGED <<auth, active, saved, dist>>
    BY <1>6 DEF VerifyRestored, files, registryVars
  <2>2. CASE Return
    BY <2>1, <2>2, DivergenceReturn
  <2>3. CASE auth = op.previous /\ PreviousBinding(op.from) /\ Goto("clear")
    <3>1. Agreement
      BY <1>6, <2>3 DEF VerifyRestored, PreviousBinding, DivergenceInv, OfflineWrite,
         Agreement
    <3>. QED
      BY <2>1, <2>3, <3>1, DivergenceFrame DEF Goto, OfflineWrite, WriteSteps, UndoSteps
  <2>. QED
    BY <1>6, <2>2, <2>3 DEF VerifyRestored
<1>. QED
  BY <1>1, <1>2, <1>3, <1>4, <1>5, <1>6 DEF Offline

(* Whose step it is, and what everybody else leaves alone.                 *)
OwnStep == (\E t \in Accounts : Start(t)) \/ DistributionStep \/ Crash

OthersStep == OtherWriters \/ Outside \/ UserOpensDesktop \/ WatchedDesktopQuit

(* The other programs leave the distribution, its place and its journal    *)
(* alone; they may only close the Desktop it launched.                     *)
LEMMA OthersAct ==
    ASSUME OthersStep, op \in Operations
    PROVE  /\ Bystanders \/ \E a \in Accounts : Relogin(a) /\ pc = "idle"
           /\ UNCHANGED <<dist, pc>>
           /\ \/ UNCHANGED op
              \/ op' = [op EXCEPT !.mine = FALSE]
  BY DEF OthersStep, OtherWriters, Outside, UserOpensDesktop, WatchedDesktopQuit,
     Bystanders, Insiders, Outsiders

(* So what the distribution remembers stays, but for its hold on Desktop.  *)
LEMMA OthersKeep ==
    ASSUME OthersStep, op \in Operations
    PROVE  /\ op'.target = op.target /\ op'.restart = op.restart /\ op'.cli = op.cli
           /\ op'.app = op.app /\ op'.from = op.from /\ op'.selected = op.selected
           /\ op'.previous = op.previous /\ op'.bind = op.bind
           /\ op'.retain = op.retain /\ op'.undone = op.undone
           /\ op'.mine => op.mine
  BY OthersAct DEF Operations

(* No step of a distribution lets the two files diverge without an         *)
(* uncertain journal, or removes the journal of a divergence, ...          *)
THEOREM DivergenceOwn ==
    ASSUME DivergenceInv, OwnStep
    PROVE  DivergenceInv'
<1>0. ClosedInv /\ ClosedInv'
  BY ClosedStep DEF DivergenceInv, OwnStep, Next
<1>1. CASE \E t \in Accounts : Start(t)
  <2>1. pc' = "gate" /\ UNCHANGED <<auth, active, saved, dist>>
    BY <1>1 DEF Start, files, registryVars
  <2>. QED
    BY <1>0, <2>1, DivergenceFrame DEF AgreeSteps, OfflineWrite, WriteSteps, UndoSteps
<1>2. CASE Decide \/ Mark \/ Capture \/ Stop
  BY <1>0, <1>2, DivergenceDecide
<1>3. CASE Stopped \/ StopFails \/ FinalizeAfterStop \/ Handoff \/ MarkCommit
  BY <1>0, <1>3, DivergenceStop
<1>4. CASE ReplaceAuth
  BY <1>0, <1>4, DivergenceReplace
<1>5. CASE OpenDesktop
  BY <1>0, <1>5, DivergenceOpen
<1>6. CASE Offline
  BY <1>0, <1>6, DivergenceOffline
<1>7. CASE Clear \/ Crash
  <2>1. /\ UNCHANGED <<auth, active, saved>> /\ Return
        /\ UNCHANGED dist \/ Agreement
    BY <1>7 DEF Clear, ClearJournal, Crash, files, registryVars, DivergenceInv, AgreeSteps
  <2>. QED
    BY <1>0, <2>1, DivergenceReturn
<1>. QED
  BY <1>1, <1>2, <1>3, <1>4, <1>5, <1>6, <1>7 DEF OwnStep, DistributionStep, StopDesktop

(* ... and nobody else's does, unless somebody logs in behind the          *)
(* Monitor's back.                                                         *)
THEOREM DivergenceOthers ==
    ASSUME DivergenceInv, OthersStep,
           Insiders \/ \E a \in Accounts : Relogin(a)
    PROVE  DivergenceInv'
<1>0. ClosedInv /\ ClosedInv' /\ SharedTypeOK /\ op \in Operations
  BY ClosedStep DEF DivergenceInv, OthersStep, Next, ClosedInv, TypeInv, TypeOK
<1>1. Agreement => Agreement'
  BY <1>0, SharedAgreement
<1>2. auth' # None => auth # None /\ auth'.acct = auth.acct
  BY <1>0, SharedIdentity
<1>3. UNCHANGED <<dist, pc>>
  BY <1>0, OthersAct
<1>4. /\ op'.target = op.target /\ op'.previous = op.previous
      /\ op'.from = op.from /\ op'.bind = op.bind
      /\ (Uncertain' <=> Uncertain) /\ (OfflineWrite' <=> OfflineWrite)
  BY <1>0, <1>3, OthersKeep DEF Uncertain, OfflineWrite
<1>. QED
  BY <1>0, <1>1, <1>2, <1>3, <1>4 DEF DivergenceInv

(* So every step keeps it, unless somebody logs in or out elsewhere.       *)
LEMMA DivergenceStays ==
    ASSUME DivergenceInv, UNCHANGED vars
    PROVE  DivergenceInv'
  BY ClosedStep, AgreementFrame
     DEF vars, sharedVars, registryVars, DivergenceInv, Uncertain, OfflineWrite

(* Every step keeps it, unless somebody logs in or out elsewhere.          *)
THEOREM DivergenceStep ==
    ASSUME Logins = FALSE, DivergenceInv, [Next]_vars
    PROVE  DivergenceInv'
<1>1. CASE UNCHANGED vars
  BY <1>1, DivergenceStays
<1>. QED
  BY <1>1, DivergenceOwn, DivergenceOthers, NoOutsiders, OthersAct
     DEF Next, OwnStep, OthersStep, Bystanders, DivergenceInv, ClosedInv, TypeInv, TypeOK

(* Without logins and logouts behind the Monitor's back, auth.json never   *)
(* names a saved account other than the active one unless an uncertain     *)
(* journal keeps later distributions away, through both rollbacks, every   *)
(* crash, and the races the writer checks leave open.                      *)
THEOREM DivergenceCovered ==
    ASSUME Logins = FALSE
    PROVE  Spec => []JournalCoversDivergence
<1>1. Init => DivergenceInv
  BY DivergenceInitial
<1>2. DivergenceInv /\ [Next]_vars => DivergenceInv'
  BY DivergenceStep
<1>3. DivergenceInv => JournalCoversDivergence
  BY DEF DivergenceInv, Agreement, JournalCoversDivergence
<1>. QED
  BY <1>1, <1>2, <1>3, PTL DEF Spec

-----------------------------------------------------------------------------
(* What a live Desktop has loaded                                          *)

WindowSteps == {"rename", "undoRename"}

(* The process a distribution watches lives; Desktop is closed when        *)
(* auth.json is replaced.                                                  *)
ProcessInv ==
    /\ TypeInv
    /\ Processes
    /\ pc # "idle" /\ op.mine => desktop = "on"
    /\ pc \in WindowSteps => desktop = "off"

(* Two steps of a distribution write auth.json, ...                        *)
LEMMA AuthKept ==
    ASSUME OwnStep, ~Rename, ~UndoRename
    PROVE  UNCHANGED <<auth, outsideVars>>
<1>1. CASE (\E t \in Accounts : Start(t)) \/ Clear \/ Crash
  BY <1>1 DEF Start, Clear, Crash, files
<1>2. CASE Decide \/ StopDesktop
  BY <1>2 DEF Decide, Gate, Plan, Create, StopDesktop, Mark, Capture, Stop, Stopped,
     StopFails, FinalizeAfterStop, Handoff, MarkCommit, files
<1>3. CASE Compare \/ Readback \/ UndoCompare \/ UndoReadback
  BY <1>3 DEF Compare, Readback, UndoCompare, UndoReadback, files
<1>4. CASE OpenDesktop
  BY <1>4 DEF OpenDesktop, MarkRelaunch, Launch, Bind, VerifyLaunch, CommitLatest,
     Confirm, Reopen, Rebind, files
<1>5. CASE Offline
  BY <1>5 DEF Offline, Sync, MarkOffline, Commit, SaveMarker, MarkerFailed,
     RestoreRegistry, VerifyRestored, VerifyOffline, files
<1>. QED
  BY <1>1, <1>2, <1>3, <1>4, <1>5 DEF OwnStep, DistributionStep, ReplaceAuth

(* ... two open Desktop, and only while it is open does one bind it.       *)
LEMMA DesktopKept ==
    ASSUME OwnStep, ~Launch, ~Reopen
    PROVE  /\ UNCHANGED <<desktop, session>>
           /\ \/ marker' \in {marker, None}
              \/ /\ pc \in {"bind", "rebind"} /\ op.mine
                 /\ desktop = "on" /\ marker' = op.bind
<1>1. CASE (\E t \in Accounts : Start(t)) \/ Clear \/ Crash
  BY <1>1 DEF Start, Clear, Crash, files, processVars
<1>2. CASE Decide \/ StopDesktop
  BY <1>2 DEF Decide, Gate, Plan, Create, StopDesktop, Mark, Capture, Stop, Stopped,
     StopFails, FinalizeAfterStop, Handoff, MarkCommit, files, processVars
<1>3. CASE ReplaceAuth
  BY <1>3 DEF ReplaceAuth, Compare, Rename, Readback, UndoCompare, UndoRename,
     UndoReadback, files, processVars
<1>4. CASE MarkRelaunch \/ Bind \/ VerifyLaunch \/ CommitLatest \/ Confirm \/ Rebind
  BY <1>4 DEF MarkRelaunch, Bind, VerifyLaunch, CommitLatest, Confirm, Rebind,
     BindingFails, files, processVars
<1>5. CASE Offline
  BY <1>5 DEF Offline, Sync, MarkOffline, Commit, SaveMarker, MarkerFailed,
     RestoreRegistry, VerifyRestored, VerifyOffline, files, processVars
<1>. QED
  BY <1>1, <1>2, <1>3, <1>4, <1>5 DEF OwnStep, DistributionStep, OpenDesktop

(* A distribution watches the process it found, or the one it started.     *)
LEMMA MineKept ==
    ASSUME TypeInv, OwnStep, ~Capture, ~Launch, ~Reopen
    PROVE  pc' = "idle" \/ ~op'.mine \/ (pc # "idle" /\ op'.mine = op.mine)
<1>. USE DEF TypeInv, TypeOK, Operations, Return, Goto, Abort, Undo, WriteFails, BindingFails
<1>1. CASE \E t \in Accounts : Start(t)
  BY <1>1 DEF Start, IdleOp
<1>2. CASE Decide
  BY <1>2 DEF Decide, Gate, Plan, Create
<1>3. CASE Mark \/ Stop \/ Stopped \/ StopFails \/ FinalizeAfterStop \/ Handoff \/ MarkCommit
  BY <1>3 DEF Mark, Stop, Stopped, StopFails, FinalizeAfterStop, Handoff, MarkCommit
<1>4. CASE Compare \/ Rename \/ Readback
  BY <1>4 DEF Compare, Rename, Readback
<1>5. CASE UndoCompare \/ UndoRename \/ UndoReadback
  BY <1>5 DEF UndoCompare, UndoRename, UndoReadback, Undone
<1>6. CASE MarkRelaunch \/ Bind \/ VerifyLaunch \/ CommitLatest \/ Confirm \/ Rebind
  BY <1>6 DEF MarkRelaunch, Bind, VerifyLaunch, CommitLatest, Confirm, Rebind
<1>7. CASE Offline
  BY <1>7 DEF Offline, Sync, MarkOffline, Commit, SaveMarker, MarkerFailed,
     RestoreRegistry, VerifyRestored, VerifyOffline
<1>8. CASE Clear \/ Crash
  BY <1>8 DEF Clear, Crash
<1>. QED
  BY <1>1, <1>2, <1>3, <1>4, <1>5, <1>6, <1>7, <1>8
     DEF OwnStep, DistributionStep, StopDesktop, ReplaceAuth, OpenDesktop

(* The replacement of auth.json begins only with Desktop closed.           *)
LEMMA WindowEntry ==
    ASSUME TypeInv, OwnStep, pc' \in WindowSteps
    PROVE  (Compare \/ UndoCompare) /\ ~WriterActive
<1>. USE DEF WindowSteps, Return, Goto, Abort, Undo, WriteFails, BindingFails
<1>1. CASE (\E t \in Accounts : Start(t)) \/ Clear \/ Crash
  BY <1>1 DEF Start, Clear, Crash
<1>2. CASE Decide \/ StopDesktop
  BY <1>2 DEF Decide, Gate, Plan, Create, StopDesktop, Mark, Capture, Stop, Stopped,
     StopFails, FinalizeAfterStop, Handoff, MarkCommit
<1>3. CASE ReplaceAuth
  BY <1>3 DEF ReplaceAuth, Compare, Rename, Readback, UndoCompare, UndoRename,
     UndoReadback, TypeInv, TypeOK, Operations, Undone
<1>4. CASE OpenDesktop
  BY <1>4 DEF OpenDesktop, MarkRelaunch, Launch, Bind, VerifyLaunch, CommitLatest,
     Confirm, Reopen, Rebind
<1>5. CASE Offline
  BY <1>5 DEF Offline, Sync, MarkOffline, Commit, SaveMarker, MarkerFailed,
     RestoreRegistry, VerifyRestored, VerifyOffline
<1>. QED
  BY <1>1, <1>2, <1>3, <1>4, <1>5 DEF OwnStep, DistributionStep

(* At first no distribution has Desktop closed.                            *)
THEOREM ProcessInitial == Init => ProcessInv
  BY TypeInitial, ProcessesAtFirst DEF Init, ProcessInv, WindowSteps

(* A distribution replaces auth.json under a closed Desktop, and opens     *)
(* Desktop on what auth.json then holds.                                   *)
THEOREM ProcessOwn ==
    ASSUME ProcessInv, OwnStep
    PROVE  ProcessInv'
<1>0. TypeInv /\ TypeInv' /\ op \in Operations
  BY TypeStep DEF ProcessInv, OwnStep, Next, TypeInv, TypeOK
<1>1. CASE Launch \/ Reopen
  <2>1. pc' \notin WindowSteps /\ pc # "idle" /\ UNCHANGED auth
    BY <1>1 DEF Launch, Reopen, Return, Undo, WindowSteps
  <2>2. CASE OpensDesktop
    BY <1>0, <2>1, <2>2, ProcessesOpened DEF ProcessInv, OpensDesktop
  <2>3. CASE ~OpensDesktop
    <3>1. UNCHANGED processVars /\ (Return \/ Undo("relaunch"))
      BY <1>1, <2>3 DEF Launch, Reopen
    <3>2. pc' # "idle" => op'.mine = op.mine
      BY <1>0, <3>1 DEF Return, Undo, Operations
    <3>. QED
      BY <1>0, <2>1, <3>1, <3>2 DEF ProcessInv, Processes, DesktopAgrees, processVars
  <2>. QED
    BY <2>2, <2>3
<1>2. CASE ~Launch /\ ~Reopen
  <2>1. /\ UNCHANGED <<desktop, session>>
        /\ marker' # None => marker' = marker \/ desktop = "on"
    BY <1>2, DesktopKept
  <2>2. UNCHANGED auth \/ desktop = "off"
    BY AuthKept DEF ProcessInv, Rename, UndoRename, WindowSteps
  <2>3. Processes'
    BY <2>1, <2>2 DEF ProcessInv, Processes, DesktopAgrees
  <2>4. pc' \in WindowSteps => desktop = "off"
    BY <1>0, WindowEntry DEF WriterActive
  <2>5. pc' # "idle" /\ op'.mine => desktop = "on"
    <3>1. CASE Capture
      BY <1>0, <3>1 DEF Capture, Return
    <3>2. CASE ~Capture
      BY <1>0, <1>2, <3>2, MineKept DEF ProcessInv
    <3>. QED
      BY <3>1, <3>2
  <2>. QED
    BY <1>0, <2>1, <2>3, <2>4, <2>5 DEF ProcessInv
<1>. QED
  BY <1>1, <1>2

(* Nobody else opens Desktop on other credentials, as long as Desktop does *)
(* not start between the check for writers and the write.                  *)
THEOREM ProcessOthers ==
    ASSUME ProcessInv, OthersStep, Race = FALSE
    PROVE  ProcessInv'
<1>0. TypeInv /\ TypeInv' /\ op \in Operations
  BY TypeStep DEF ProcessInv, OthersStep, Next, TypeInv, TypeOK
<1>1. Processes'
  BY <1>0, OthersAct, SharedProcesses DEF ProcessInv, TypeInv, TypeOK
<1>2. UNCHANGED pc /\ (op'.mine => op.mine)
  BY <1>0, OthersAct, OthersKeep
<1>3. pc \in WindowSteps => UNCHANGED desktop
  BY DEF OthersStep, OtherWriters, Outside, UserOpensDesktop, WatchedDesktopQuit,
     Unhindered, WindowOpen, WindowSteps, UnlockedWriters, DaemonSync, QuotaPoll, Remove,
     WriterQuit, DesktopQuit, ProcessInv, processVars
<1>4. op'.mine /\ op.mine /\ desktop = "on" => desktop' = "on"
  BY <1>0 DEF OthersStep, OtherWriters, Outside, UserOpensDesktop, WatchedDesktopQuit,
     Operations, UnlockedWriters, DaemonSync, QuotaPoll, Remove, Relogin, InferBinding,
     Rotate, Logout, Login, UserLaunch, WriterQuit, OpensDesktop, processVars
<1>. QED
  BY <1>0, <1>1, <1>2, <1>3, <1>4 DEF ProcessInv

(* A step that changes nothing changes none of this.                       *)
LEMMA ProcessStays ==
    ASSUME ProcessInv, UNCHANGED vars
    PROVE  ProcessInv'
  BY TypeStep
     DEF vars, sharedVars, processVars, ProcessInv, Processes, DesktopAgrees

(* No split brain during a distribution: while Desktop does not slip       *)
(* between the check for writers and the rename it guards, a live Desktop  *)
(* and auth.json name the same account, even after a login elsewhere.      *)
THEOREM NoSplitBrain ==
    ASSUME Race = FALSE
    PROVE  Spec => []DesktopAgrees
<1>1. ProcessInv /\ [Next]_vars => ProcessInv'
  <2>. SUFFICES ASSUME ProcessInv, [Next]_vars PROVE ProcessInv'
    OBVIOUS
  <2>1. CASE UNCHANGED vars
    BY <2>1, ProcessStays
  <2>. QED
    BY <2>1, ProcessOwn, ProcessOthers DEF Next, OwnStep, OthersStep
<1>2. ProcessInv => DesktopAgrees
  BY DEF ProcessInv, Processes
<1>. QED
  BY <1>1, <1>2, ProcessInitial, PTL DEF Spec

-----------------------------------------------------------------------------
(* What the marker says of that Desktop                                    *)

(* Desktop is opened on the account a distribution is about to bind, and   *)
(* that is what it loads.                                                  *)
MarkerInv ==
    /\ ProcessInv
    /\ MarkerTruth
    /\ pc \in {"markRelaunch", "launch"} => auth # None /\ auth.acct = op.target
    /\ pc \in {"bind", "rebind"} /\ op.mine => session = op.bind

(* At first the marker names the account Desktop runs with, or none.       *)
THEOREM MarkerInitial == Init => MarkerInv
  BY ProcessInitial, ProcessesAtFirst DEF Init, MarkerInv

(* Which steps lead there.                                                 *)
LEMMA LaunchEntry ==
    ASSUME TypeInv, OwnStep, pc' \in {"markRelaunch", "launch", "bind", "rebind"}
    PROVE  \/ Readback /\ auth = Committed /\ UNCHANGED op /\ pc' = "markRelaunch"
           \/ MarkRelaunch /\ UNCHANGED op /\ pc' = "launch"
           \/ Launch /\ pc' = "bind"
           \/ Reopen /\ pc' = "rebind"
<1>. USE DEF Return, Goto, Abort, Undo, WriteFails, BindingFails
<1>1. CASE (\E t \in Accounts : Start(t)) \/ Clear \/ Crash
  BY <1>1 DEF Start, Clear, Crash
<1>2. CASE Decide \/ StopDesktop
  BY <1>2 DEF Decide, Gate, Plan, Create, StopDesktop, Mark, Capture, Stop, Stopped,
     StopFails, FinalizeAfterStop, Handoff, MarkCommit
<1>3. CASE ReplaceAuth
  BY <1>3 DEF ReplaceAuth, Compare, Rename, Readback, UndoCompare, UndoRename,
     UndoReadback, TypeInv, TypeOK, Operations, Undone
<1>4. CASE OpenDesktop
  BY <1>4 DEF OpenDesktop, MarkRelaunch, Launch, Bind, VerifyLaunch, CommitLatest,
     Confirm, Reopen, Rebind
<1>5. CASE Offline
  BY <1>5 DEF Offline, Sync, MarkOffline, Commit, SaveMarker, MarkerFailed,
     RestoreRegistry, VerifyRestored, VerifyOffline
<1>. QED
  BY <1>1, <1>2, <1>3, <1>4, <1>5 DEF OwnStep, DistributionStep

(* A distribution binds the process it opened to the account that process  *)
(* loaded.                                                                 *)
THEOREM MarkerOwn ==
    ASSUME MarkerInv, OwnStep
    PROVE  MarkerInv'
<1>0. TypeInv /\ op \in Operations /\ ProcessInv'
  BY ProcessOwn DEF MarkerInv, ProcessInv, TypeInv, TypeOK
<1>1. CASE Launch \/ Reopen
  <2>1. UNCHANGED auth
    BY <1>1 DEF Launch, Reopen
  <2>2. CASE OpensDesktop
    <3>1. MarkerTruth' /\ (auth # None => session' = auth.acct)
      BY <2>1, <2>2, ProcessesOpened DEF OpensDesktop
    <3>2. pc' \in {"idle", "undo", "commitLatest", "bind", "rebind"}
      BY <1>1 DEF Launch, Reopen, Undo, Return
    <3>3. CASE Launch /\ pc' = "bind"
      <4>1. op' = [op EXCEPT !.mine = TRUE, !.bind = op.target]
        BY <3>3 DEF Launch, Undo
      <4>2. op'.bind = op.target /\ auth # None /\ auth.acct = op.target
        BY <1>0, <3>3, <4>1 DEF Launch, MarkerInv, Operations
      <4>. QED
        BY <1>0, <3>1, <3>3, <4>2 DEF MarkerInv
    <3>4. CASE Reopen /\ pc' = "rebind"
      <4>1. op' = [op EXCEPT !.mine = TRUE, !.bind = op.from]
            /\ auth # None /\ auth.acct = op.from
        BY <3>4 DEF Reopen, Return
      <4>2. op'.bind = op.from
        BY <1>0, <4>1 DEF Operations
      <4>. QED
        BY <1>0, <3>1, <3>4, <4>1, <4>2 DEF MarkerInv
    <3>5. CASE pc' \notin {"bind", "rebind"}
      BY <1>0, <3>1, <3>2, <3>5 DEF MarkerInv
    <3>6. pc' = "bind" => Launch
      BY <1>1 DEF Launch, Reopen, Return
    <3>7. pc' = "rebind" => Reopen
      BY <1>1 DEF Launch, Reopen, Undo
    <3>. QED
      BY <3>3, <3>4, <3>5, <3>6, <3>7
  <2>3. CASE ~OpensDesktop
    <3>1. UNCHANGED processVars /\ pc' \in {"idle", "undo"}
      BY <1>1, <2>3 DEF Launch, Reopen, Return, Undo
    <3>. QED
      BY <1>0, <3>1 DEF MarkerInv, MarkerTruth, processVars
  <2>. QED
    BY <2>2, <2>3
<1>2. CASE ~Launch /\ ~Reopen
  <2>1. UNCHANGED session /\ MarkerTruth'
    BY <1>2, DesktopKept DEF MarkerInv, MarkerTruth
  <2>2. pc' \notin {"bind", "rebind"}
    BY <1>0, <1>2, LaunchEntry
  <2>3. pc' \in {"markRelaunch", "launch"} => auth' # None /\ auth'.acct = op'.target
    <3>. HAVE pc' \in {"markRelaunch", "launch"}
    <3>1. CASE Readback /\ auth = Committed /\ UNCHANGED op
      <4>1. Committed \in Credentials
        BY <1>0, <3>1, CommittedTyped DEF Readback, CommitSteps
      <4>2. UNCHANGED auth
        BY <3>1 DEF Readback, files
      <4>. QED
        BY <3>1, <4>1, <4>2, NoneAssumption DEF Committed, Credential
    <3>2. CASE MarkRelaunch /\ UNCHANGED op
      BY <3>2 DEF MarkRelaunch, files, MarkerInv
    <3>. QED
      BY <1>0, <1>2, <3>1, <3>2, LaunchEntry
  <2>. QED
    BY <1>0, <2>1, <2>2, <2>3 DEF MarkerInv
<1>. QED
  BY <1>1, <1>2

(* Nobody but a login elsewhere changes what that process has loaded.      *)
THEOREM MarkerOthers ==
    ASSUME MarkerInv, OthersStep, Race = FALSE,
           Insiders \/ \E a \in Accounts : Relogin(a)
    PROVE  MarkerInv'
<1>0. TypeInv /\ op \in Operations /\ ProcessInv'
  BY ProcessOthers DEF MarkerInv, ProcessInv, TypeInv, TypeOK
<1>1. MarkerTruth'
  BY <1>0, SharedMarker DEF MarkerInv, ProcessInv, TypeInv, TypeOK
<1>2. /\ auth' = None <=> auth = None
      /\ auth # None => auth'.acct = auth.acct
  BY <1>0, SharedIdentity DEF TypeInv, TypeOK
<1>3. UNCHANGED pc /\ op'.target = op.target /\ op'.bind = op.bind /\ (op'.mine => op.mine)
  BY <1>0, OthersAct, OthersKeep
<1>4. pc # "idle" /\ op'.mine => UNCHANGED session
  BY <1>0, <1>3
     DEF MarkerInv, ProcessInv, Insiders, UnlockedWriters, DaemonSync, QuotaPoll, Remove,
         Relogin, InferBinding, Rotate, UserLaunch, DesktopQuit, WriterQuit, processVars
<1>. QED
  BY <1>0, <1>1, <1>2, <1>3, <1>4 DEF MarkerInv

(* A step that changes nothing changes none of this.                       *)
LEMMA MarkerStays ==
    ASSUME MarkerInv, UNCHANGED vars
    PROVE  MarkerInv'
  BY TypeStep
     DEF vars, sharedVars, processVars, MarkerInv, ProcessInv, Processes,
         DesktopAgrees, MarkerTruth

(* Unless somebody logs in or out elsewhere, the marker a distribution     *)
(* leaves names the account that the live Desktop has loaded.              *)
THEOREM MarkerTrue ==
    ASSUME Race = FALSE, Logins = FALSE
    PROVE  Spec => []MarkerTruth
<1>1. MarkerInv /\ [Next]_vars => MarkerInv'
  <2>. SUFFICES ASSUME MarkerInv, [Next]_vars PROVE MarkerInv'
    OBVIOUS
  <2>1. CASE UNCHANGED vars
    BY <2>1, MarkerStays
  <2>. QED
    BY <2>1, MarkerOwn, MarkerOthers, NoOutsiders, OthersAct
       DEF Next, OwnStep, OthersStep, Bystanders, MarkerInv, ProcessInv, TypeInv, TypeOK
<1>2. MarkerInv => MarkerTruth
  BY DEF MarkerInv
<1>. QED
  BY <1>1, <1>2, MarkerInitial, PTL DEF Spec

-----------------------------------------------------------------------------
(* The newest tokens                                                       *)

(* The target's tokens have been written and may still be taken back.      *)
AfterWrite ==
    \/ pc \in {"readback", "markRelaunch", "launch", "commit", "undo", "undoRename"}
    \/ OfflineSaved

(* Before it writes, a distribution has saved what it is about to          *)
(* overwrite, and writes the newest tokens of the target; before it takes  *)
(* them back, it knows that the registry has them.                         *)
CustodyInv ==
    /\ ClosedInv /\ Custody
    /\ pc # "idle" => Issued(op.previous) /\ op.selected <= issued[op.target]
    /\ pc \in {"sync", "markOffline"} => ~op.restart
    /\ op.restart /\ pc \in {"markCommit", "compare"} =>
         SavedCopy(auth) /\ Newest(Committed)
    /\ ~op.restart /\ pc \in {"markOffline", "compare"}
         /\ auth # None /\ auth = op.previous =>
         SavedCopy(auth) /\ (op.selected # 0 => Newest(Committed))
    /\ pc = "rename" => auth = op.previous /\ SavedCopy(auth) /\ Newest(Committed)
    /\ pc = "undoRename" => auth = Committed
    /\ AfterWrite => op.selected # 0
    /\ AfterWrite /\ auth = Committed => Newest(op.previous) /\ SavedCopy(Committed)

(* At first auth.json holds the newest tokens of its account.              *)
THEOREM CustodyInitial == Init => CustodyInv
  BY ClosedInitial, CustodyAtFirst DEF Init, CustodyInv, AfterWrite, OfflineSaved

(* Five steps of a distribution touch auth.json or the saved tokens.       *)
LEMMA TokensKept ==
    ASSUME OwnStep, ~Handoff, ~Rename, ~UndoRename, ~CommitLatest, ~Sync
    PROVE  UNCHANGED <<auth, saved, outsideVars>>
<1>0. UNCHANGED <<auth, outsideVars>>
  BY AuthKept
<1>1. CASE (\E t \in Accounts : Start(t)) \/ Clear \/ Crash
  BY <1>0, <1>1 DEF Start, Clear, Crash, files, registryVars
<1>2. CASE Decide \/ StopDesktop
  BY <1>0, <1>2 DEF Decide, Gate, Plan, Create, StopDesktop, Mark, Capture, Stop, Stopped,
     StopFails, FinalizeAfterStop, MarkCommit, files, registryVars
<1>3. CASE Compare \/ Readback \/ UndoCompare \/ UndoReadback
  BY <1>0, <1>3 DEF Compare, Readback, UndoCompare, UndoReadback, files, registryVars
<1>4. CASE OpenDesktop
  BY <1>0, <1>4 DEF OpenDesktop, MarkRelaunch, Launch, Bind, VerifyLaunch, Confirm, Reopen,
     Rebind, files, registryVars
<1>5. CASE Offline
  BY <1>0, <1>5 DEF Offline, MarkOffline, Commit, SaveMarker, MarkerFailed,
     RestoreRegistry, VerifyRestored, VerifyOffline, files, registryVars
<1>. QED
  BY <1>1, <1>2, <1>3, <1>4, <1>5 DEF OwnStep, DistributionStep, ReplaceAuth

(* Others choose what to write and what to restore.                        *)
LEMMA ChoiceKept ==
    ASSUME TypeInv, OwnStep, ~Handoff, ~Compare, ~CommitLatest, ~Sync
    PROVE  \/ pc' = "idle"
           \/ pc = "idle"
           \/ /\ op'.target = op.target /\ op'.selected = op.selected
              /\ op'.previous = op.previous
<1>. USE DEF TypeInv, TypeOK, Operations, Return, Goto, Abort, Undo, WriteFails, BindingFails
<1>1. CASE (\E t \in Accounts : Start(t)) \/ Clear \/ Crash
  BY <1>1 DEF Start, Clear, Crash
<1>2. CASE Gate \/ Create
  BY <1>2 DEF Gate, Create
<1>3. CASE Plan
  <2>1. CASE Return
    BY <2>1
  <2>2. CASE ~Return
    <3>1. PICK change \in BOOLEAN :
             op' = [op EXCEPT !.from = active, !.cli = change,
                              !.app = change \/ desktop = "off",
                              !.restart = change /\ desktop = "on"]
      BY <1>3, <2>2 DEF Plan
    <3>. QED
      BY <3>1
  <2>. QED
    BY <2>1, <2>2
<1>4. CASE StopDesktop
  BY <1>4 DEF StopDesktop, Mark, Capture, Stop, Stopped, StopFails, FinalizeAfterStop,
     MarkCommit
<1>5. CASE Rename \/ Readback
  BY <1>5 DEF Rename, Readback
<1>6. CASE UndoCompare \/ UndoRename \/ UndoReadback
  BY <1>6 DEF UndoCompare, UndoRename, UndoReadback, Undone
<1>7. CASE MarkRelaunch \/ Launch \/ Bind \/ VerifyLaunch
  BY <1>7 DEF MarkRelaunch, Launch, Bind, VerifyLaunch
<1>8. CASE Confirm \/ Reopen \/ Rebind
  BY <1>8 DEF Confirm, Reopen, Rebind
<1>9. CASE Offline
  BY <1>9 DEF Offline, MarkOffline, Commit, SaveMarker, MarkerFailed,
     RestoreRegistry, VerifyRestored, VerifyOffline
<1>. QED
  BY <1>1, <1>2, <1>3, <1>4, <1>5, <1>6, <1>7, <1>8, <1>9
     DEF OwnStep, DistributionStep, Decide, ReplaceAuth, OpenDesktop

(* Where those other steps lead: nowhere that asks for more than is known. *)
LEMMA NextKept ==
    ASSUME ClosedInv, OwnStep, ~Handoff, ~Compare, ~Rename, ~CommitLatest, ~Sync
    PROVE  /\ pc' \notin {"markCommit", "markOffline", "rename"}
           /\ pc' = "sync" => ~op'.restart
           /\ pc' = "compare" => pc \in {"markCommit", "markOffline"} /\ UNCHANGED op
           /\ pc' = "undoRename" => auth = Committed
           /\ AfterWrite' => AfterWrite
<1>0. op \in Operations
  BY DEF ClosedInv, TypeInv, TypeOK
<1>. USE DEF AfterWrite, OfflineSaved, Return, Goto, Abort, Undo, WriteFails, BindingFails
<1>1. CASE (\E t \in Accounts : Start(t)) \/ Clear \/ Crash
  BY <1>1 DEF Start, Clear, Crash
<1>2. CASE Decide
  BY <1>2 DEF Decide, Gate, Plan, Create
<1>3. CASE StopDesktop
  BY <1>3 DEF StopDesktop, Mark, Capture, Stop, Stopped, StopFails, FinalizeAfterStop,
     MarkCommit
<1>4. CASE Readback \/ UndoCompare \/ UndoRename
  BY <1>4 DEF Readback, UndoCompare, UndoRename
<1>5. CASE UndoReadback
  BY <1>0, <1>5 DEF UndoReadback, Operations, Undone
<1>6. CASE OpenDesktop
  BY <1>6 DEF OpenDesktop, MarkRelaunch, Launch, Bind, VerifyLaunch, Confirm, Reopen, Rebind
<1>7. CASE MarkOffline \/ Commit \/ RestoreRegistry \/ VerifyRestored \/ VerifyOffline
  BY <1>7 DEF MarkOffline, Commit, RestoreRegistry, VerifyRestored, VerifyOffline
<1>8. CASE SaveMarker \/ MarkerFailed
  BY <1>8 DEF SaveMarker, MarkerFailed
<1>. QED
  BY <1>1, <1>2, <1>3, <1>4, <1>5, <1>6, <1>7, <1>8
     DEF OwnStep, DistributionStep, ReplaceAuth, Offline

(* What is known of the tokens stays known while nobody touches them.      *)
LEMMA CustodyNext ==
    ASSUME CustodyInv, ClosedInv', UNCHANGED <<auth, saved, outsideVars>>,
           \/ pc' = "idle"
           \/ /\ pc # "idle"
              /\ op'.target = op.target /\ op'.selected = op.selected
              /\ op'.previous = op.previous
              /\ pc' \notin {"markCommit", "markOffline", "rename"}
              /\ pc' = "sync" => ~op'.restart
              /\ pc' = "compare" => pc \in {"markCommit", "markOffline"} /\ UNCHANGED op
              /\ pc' = "undoRename" => auth = Committed
              /\ AfterWrite' => AfterWrite
    PROVE  CustodyInv'
<1>1. Custody'
  BY DEF CustodyInv, Custody, CredentialCustody, Newest, Issued, Registered, outsideVars
<1>2. CASE pc' = "idle"
  BY <1>1, <1>2 DEF CustodyInv, AfterWrite, OfflineSaved
<1>3. CASE pc' # "idle"
  <2>. USE <1>3
  <2>1. Committed' = Committed
    BY DEF Committed, Credential
  <2>2. Issued(op.previous)' /\ op'.selected <= issued'[op'.target]
    BY DEF CustodyInv, Issued, outsideVars
  <2>3. /\ SavedCopy(auth) => SavedCopy(auth)'
        /\ SavedCopy(Committed) => SavedCopy(Committed)'
        /\ Newest(Committed) => Newest(Committed)'
        /\ Newest(op.previous) => Newest(op.previous)'
    BY <2>1 DEF SavedCopy, Newest, Registered, outsideVars
  <2>4. pc' = "compare" => /\ UNCHANGED op
                           /\ pc = "markCommit" => op.restart
                           /\ pc = "markOffline" => ~op.restart
    BY DEF CustodyInv, ClosedInv, RestartSteps
  <2>5. op'.restart /\ pc' = "compare" => SavedCopy(auth)' /\ Newest(Committed)'
    BY <2>3, <2>4 DEF CustodyInv
  <2>6. ~op'.restart /\ pc' = "compare" /\ auth' # None /\ auth' = op'.previous =>
           SavedCopy(auth)' /\ (op'.selected # 0 => Newest(Committed)')
    BY <2>3, <2>4 DEF CustodyInv
  <2>7. AfterWrite' => op'.selected # 0
    BY DEF CustodyInv
  <2>8. AfterWrite' /\ auth' = Committed' => Newest(op.previous)' /\ SavedCopy(Committed)'
    BY <2>1, <2>3 DEF CustodyInv
  <2>9. pc' = "undoRename" => auth' = Committed'
    BY <2>1
  <2>. QED
    BY <1>1, <2>2, <2>5, <2>6, <2>7, <2>8, <2>9 DEF CustodyInv
<1>. QED
  BY <1>2, <1>3

(* A distribution has the newest tokens of both accounts in the registry   *)
(* when it writes those of the target, and takes them back only while they *)
(* are what it wrote.                                                      *)
THEOREM CustodyOwn ==
    ASSUME CustodyInv, OwnStep
    PROVE  CustodyInv'
<1>0. /\ TypeInv /\ SharedTypeOK /\ op \in Operations
      /\ ClosedInv /\ ClosedInv' /\ TypeInv' /\ SharedTypeOK'
  BY ClosedStep DEF CustodyInv, ClosedInv, TypeInv, TypeOK, OwnStep, Next
<1>1. CASE \E t \in Accounts : Start(t)
  <2>1. PICK t \in Accounts : Start(t)
    BY <1>1
  <2>2. /\ pc' = "gate" /\ UNCHANGED <<auth, saved, outsideVars>>
        /\ op'.target = t /\ op'.selected = 0 /\ op'.previous = None
    BY <2>1 DEF Start, IdleOp, files, registryVars
  <2>3. Custody'
    BY <2>2 DEF CustodyInv, Custody, CredentialCustody, Newest, Issued, Registered, outsideVars
  <2>4. op'.selected <= issued'[op'.target] /\ Issued(op.previous)'
    BY <1>0, <2>2 DEF SharedTypeOK, Issued
  <2>. QED
    BY <1>0, <2>2, <2>3, <2>4 DEF CustodyInv, AfterWrite, OfflineSaved
<1>2. CASE Handoff
  <2>1. UNCHANGED <<auth, outsideVars>> /\ pc # "idle"
    BY <1>2 DEF Handoff
  <2>2. CASE pc' = "reopen" /\ UNCHANGED registryVars
    <3>1. op' = [op EXCEPT !.retain = TRUE] \/ op' = [op EXCEPT !.retain = FALSE]
      BY <1>2, <2>2 DEF Handoff, Abort
    <3>2. /\ op'.target = op.target /\ op'.selected = op.selected
          /\ op'.previous = op.previous
      BY <1>0, <3>1 DEF Operations
    <3>. QED
      BY <1>0, <2>1, <2>2, <3>2, CustodyNext DEF AfterWrite, OfflineSaved, registryVars
  <2>3. CASE SyncRegistry
    <3>1. /\ Custody' /\ SavedCopy(auth)'
          /\ \A a \in Accounts \ superseded : saved'[a] # 0 => saved'[a] = issued[a]
      BY <1>0, <2>1, <2>3, CustodySync DEF CustodyInv
    <3>2. CASE Abort(TRUE) \/ Abort(FALSE)
      <4>1. /\ op'.target = op.target /\ op'.selected = op.selected
            /\ op'.previous = op.previous /\ pc' = "reopen"
        BY <1>0, <3>2 DEF Abort, Operations
      <4>2. Issued(op.previous)' /\ op'.selected <= issued'[op'.target]
        BY <2>1, <4>1 DEF CustodyInv, Issued, outsideVars
      <4>. QED
        BY <1>0, <3>1, <4>1, <4>2 DEF CustodyInv, AfterWrite, OfflineSaved
    <3>3. CASE ~Abort(TRUE) /\ ~Abort(FALSE)
      <4>1. /\ Registered(op.target) /\ pc' = "markCommit"
            /\ op' = [op EXCEPT !.selected = saved'[op.target]]
        BY <1>2, <3>3 DEF Handoff
      <4>2. /\ op'.target = op.target /\ op'.selected = saved'[op.target]
            /\ op'.previous = op.previous /\ op'.restart = op.restart
        BY <1>0, <4>1 DEF Operations
      <4>3. op.target \in Accounts /\ saved'[op.target] # 0
        BY <1>0, <1>2, <2>3, <4>1, SyncTyped
           DEF TypeInv, AtSteps, Handoff, Registered
      <4>4. Newest(Committed)'
        BY <2>1, <3>1, <4>2, <4>3 DEF Newest, Committed, Credential, outsideVars
      <4>5. Issued(op.previous)' /\ op'.selected <= issued'[op'.target]
        BY <2>1, <3>1, <4>2, <4>3 DEF CustodyInv, Custody, Issued, outsideVars
      <4>. QED
        BY <1>0, <3>1, <4>1, <4>4, <4>5 DEF CustodyInv, AfterWrite, OfflineSaved
    <3>. QED
      BY <3>2, <3>3
  <2>. QED
    BY <1>2, <2>2, <2>3 DEF Handoff, Abort
<1>3. CASE Compare
  <2>1. UNCHANGED <<auth, saved, outsideVars>> /\ pc # "idle"
    BY <1>3 DEF Compare, files, registryVars
  <2>2. CASE WriteFails
    <3>1. /\ pc' \in {"idle", "reopen"}
          /\ pc' = "reopen" => op' = [op EXCEPT !.retain = FALSE]
      BY <2>2 DEF WriteFails, Abort, Return
    <3>2. pc' # "idle" => /\ op'.target = op.target /\ op'.selected = op.selected
                          /\ op'.previous = op.previous
      BY <1>0, <3>1 DEF Operations
    <3>. QED
      BY <1>0, <2>1, <3>1, <3>2, CustodyNext DEF AfterWrite, OfflineSaved
  <2>3. CASE ~WriteFails
    <3>1. /\ pc = "compare" /\ pc' = "rename" /\ auth # None
          /\ op.restart \/ auth = op.previous
          /\ op' = [op EXCEPT !.previous = auth]
      BY <1>3, <2>3 DEF Compare
    <3>2. op'.target = op.target /\ op'.selected = op.selected /\ op'.previous = auth
      BY <1>0, <3>1 DEF Operations
    <3>3. Custody'
      BY <2>1 DEF CustodyInv, Custody, CredentialCustody, Newest, Issued, Registered,
         outsideVars
    <3>4. op.selected # 0
      BY <1>0, <3>1 DEF TypeInv, AtSteps, CommitSteps
    <3>5. SavedCopy(auth) /\ Newest(Committed)
      BY <3>1, <3>4 DEF CustodyInv
    <3>6. SavedCopy(auth)' /\ Newest(Committed)'
      BY <2>1, <3>2, <3>5
         DEF SavedCopy, Newest, Registered, Committed, Credential, outsideVars
    <3>7. Issued(op.previous)' /\ op'.selected <= issued'[op'.target]
      BY <2>1, <3>1, <3>2 DEF CustodyInv, Custody, Issued, outsideVars
    <3>. QED
      BY <1>0, <2>1, <3>1, <3>2, <3>3, <3>6, <3>7 DEF CustodyInv, AfterWrite, OfflineSaved
  <2>. QED
    BY <2>2, <2>3
<1>4. CASE Rename
  <2>1. pc = "rename" /\ UNCHANGED <<saved, outsideVars>>
    BY <1>4 DEF Rename, registryVars
  <2>2. CASE WriteFails /\ UNCHANGED auth
    <3>1. /\ pc' \in {"idle", "reopen"}
          /\ pc' = "reopen" => op' = [op EXCEPT !.retain = FALSE]
      BY <2>2 DEF WriteFails, Abort, Return
    <3>2. pc' # "idle" => /\ op'.target = op.target /\ op'.selected = op.selected
                          /\ op'.previous = op.previous
      BY <1>0, <3>1 DEF Operations
    <3>. QED
      BY <1>0, <2>1, <2>2, <3>1, <3>2, CustodyNext DEF AfterWrite, OfflineSaved
  <2>3. CASE auth' = Committed /\ Goto("readback")
    <3>1. /\ auth = op.previous /\ UNCHANGED op /\ pc' = "readback"
          /\ Committed' = Committed
      BY <2>1, <2>3 DEF Goto, CustodyInv, Committed, Credential
    <3>2. /\ op.target \in Accounts /\ op.selected \in 1..MaxVersion
          /\ Committed.acct = op.target /\ Committed.ver = op.selected
      BY <1>0, <2>1, CommittedTyped DEF CommitSteps
    <3>3. SavedCopy(auth) /\ Newest(Committed) /\ op.selected <= issued[op.target]
      BY <2>1 DEF CustodyInv
    <3>4. Newest(auth)' /\ Issued(auth)'
      BY <2>1, <2>3, <3>1, <3>2, <3>3 DEF Newest, Issued, outsideVars
    <3>5. Custody'
      BY <1>0, <2>1, <3>3, <3>4, CustodyWrite DEF CustodyInv
    <3>6. SavedCopy(Committed)
      <4>1. auth = Credential(op.target, issued[op.target]) =>
               auth # None /\ auth.acct = op.target /\ auth.ver = issued[op.target]
        <5>1. Credential(op.target, issued[op.target]) \in Credentials
          BY <1>0, <3>2 DEF SharedTypeOK, Credential, Credentials
        <5>. QED
          BY <5>1, NoneAssumption DEF Credential
      <4>. QED
        BY <3>2, <3>3, <4>1 DEF SavedCopy, Newest, CustodyInv, Custody, CredentialCustody
    <3>7. Newest(op.previous)' /\ SavedCopy(Committed)'
      BY <2>1, <3>1, <3>6 DEF CustodyInv, Custody, Newest, SavedCopy, Registered, outsideVars
    <3>8. Issued(op.previous)' /\ op'.selected <= issued'[op'.target] /\ op'.selected # 0
      BY <2>1, <3>1, <3>2 DEF CustodyInv, Issued, outsideVars
    <3>. QED
      BY <1>0, <3>1, <3>5, <3>7, <3>8 DEF CustodyInv
  <2>. QED
    BY <1>4, <2>2, <2>3 DEF Rename
<1>5. CASE UndoRename
  <2>1. pc = "undoRename" /\ UNCHANGED <<saved, outsideVars>>
    BY <1>5 DEF UndoRename, registryVars
  <2>2. CASE Return /\ UNCHANGED auth
    BY <1>0, <2>1, <2>2, CustodyNext DEF Return
  <2>3. CASE auth' = op.previous /\ Goto("undoReadback")
    <3>1. /\ auth = Committed /\ Newest(op.previous) /\ SavedCopy(auth)
          /\ Issued(op.previous)
      BY <2>1 DEF CustodyInv, AfterWrite
    <3>2. Newest(auth)' /\ Issued(auth)'
      BY <2>1, <2>3, <3>1 DEF Newest, Issued, outsideVars
    <3>3. Custody'
      BY <1>0, <2>1, <3>1, <3>2, CustodyWrite DEF CustodyInv
    <3>4. Issued(op.previous)' /\ op'.selected <= issued'[op'.target]
      BY <2>1, <2>3 DEF CustodyInv, Issued, outsideVars, Goto
    <3>. QED
      BY <1>0, <2>3, <3>3, <3>4 DEF CustodyInv, Goto, AfterWrite, OfflineSaved
  <2>. QED
    BY <1>5, <2>2, <2>3 DEF UndoRename
<1>6. CASE CommitLatest
  <2>1. UNCHANGED <<auth, outsideVars>> /\ pc # "idle"
    BY <1>6 DEF CommitLatest
  <2>2. CASE Return /\ UNCHANGED registryVars
    BY <1>0, <2>1, <2>2, CustodyNext DEF Return, registryVars
  <2>3. CASE SyncRegistry /\ pc' = "confirm" /\ op' = [op EXCEPT !.previous = auth]
    <3>1. Custody'
      BY <1>0, <2>1, <2>3, CustodySync DEF CustodyInv
    <3>2. op'.target = op.target /\ op'.selected = op.selected /\ op'.previous = auth'
      BY <1>0, <2>1, <2>3 DEF Operations
    <3>3. Issued(op.previous)' /\ op'.selected <= issued'[op'.target]
      BY <2>1, <3>1, <3>2 DEF CustodyInv, Custody, Issued, outsideVars
    <3>. QED
      BY <1>0, <2>3, <3>1, <3>3 DEF CustodyInv, AfterWrite, OfflineSaved
  <2>. QED
    BY <1>6, <2>2, <2>3 DEF CommitLatest, BindingFails
<1>7. CASE Sync
  <2>1. UNCHANGED <<auth, outsideVars>> /\ pc = "sync" /\ ~op.restart
    BY <1>7 DEF Sync, CustodyInv
  <2>2. CASE Return /\ UNCHANGED registryVars
    BY <1>0, <2>1, <2>2, CustodyNext DEF Return, registryVars
  <2>3. CASE ~op.cli /\ Goto("saveMarker") /\ UNCHANGED registryVars
    BY <1>0, <2>1, <2>3, CustodyNext DEF Goto, registryVars, AfterWrite, OfflineSaved
  <2>4. CASE /\ SyncRegistry /\ pc' = "markOffline"
             /\ op' = [op EXCEPT !.previous = auth, !.selected = saved'[op.target]]
    <3>1. /\ Custody' /\ SavedCopy(auth)'
          /\ \A a \in Accounts \ superseded : saved'[a] # 0 => saved'[a] = issued[a]
      BY <1>0, <2>1, <2>4, CustodySync DEF CustodyInv
    <3>2. /\ op'.target = op.target /\ op'.selected = saved'[op.target]
          /\ op'.previous = auth' /\ op'.restart = op.restart
      BY <1>0, <2>1, <2>4 DEF Operations
    <3>3. op.target \in Accounts
      BY <1>0, <2>1 DEF TypeInv, AtSteps
    <3>4. op'.selected # 0 => Newest(Committed)'
      BY <2>1, <3>1, <3>2, <3>3 DEF Newest, Committed, Credential, outsideVars
    <3>5. Issued(op.previous)' /\ op'.selected <= issued'[op'.target]
      BY <2>1, <3>1, <3>2, <3>3 DEF CustodyInv, Custody, Issued, outsideVars
    <3>. QED
      BY <1>0, <2>1, <2>4, <3>1, <3>2, <3>4, <3>5 DEF CustodyInv, AfterWrite, OfflineSaved
  <2>. QED
    BY <1>7, <2>2, <2>3, <2>4 DEF Sync
<1>8. CASE /\ ~(\E t \in Accounts : Start(t))
           /\ ~Handoff /\ ~Compare /\ ~Rename /\ ~UndoRename /\ ~CommitLatest /\ ~Sync
  <2>1. UNCHANGED <<auth, saved, outsideVars>>
    BY <1>8, TokensKept
  <2>2. \/ pc' = "idle"
        \/ pc = "idle"
        \/ /\ op'.target = op.target /\ op'.selected = op.selected
           /\ op'.previous = op.previous
    BY <1>0, <1>8, ChoiceKept
  <2>3. pc # "idle"
    BY <1>8 DEF OwnStep, DistributionStep, Decide, Gate, Plan, Create, StopDesktop, Mark,
       Capture, Stop, Stopped, StopFails, FinalizeAfterStop, MarkCommit, ReplaceAuth,
       Readback, UndoCompare, UndoReadback, OpenDesktop, MarkRelaunch, Launch, Bind,
       VerifyLaunch, Confirm, Reopen, Rebind, Offline, MarkOffline, Commit, SaveMarker,
       MarkerFailed, RestoreRegistry, VerifyRestored, VerifyOffline, Clear, Crash
  <2>. QED
    BY <1>0, <1>8, <2>1, <2>2, <2>3, NextKept, CustodyNext
<1>. QED
  BY <1>1, <1>2, <1>3, <1>4, <1>5, <1>6, <1>7, <1>8

(* Nobody else replaces tokens a distribution is about to overwrite or to  *)
(* take back, as long as Desktop slips neither into the rename nor between *)
(* the handoff and the write.                                              *)
THEOREM CustodyOthers ==
    ASSUME CustodyInv, OthersStep, Race = FALSE, HandoffRace = FALSE
    PROVE  CustodyInv'
<1>0. /\ TypeInv /\ SharedTypeOK /\ op \in Operations
      /\ ClosedInv' /\ TypeInv' /\ SharedTypeOK'
  BY ClosedStep DEF CustodyInv, ClosedInv, TypeInv, TypeOK, OthersStep, Next
<1>1. /\ UNCHANGED pc /\ op'.target = op.target /\ op'.selected = op.selected
      /\ op'.previous = op.previous /\ op'.restart = op.restart /\ op'.cli = op.cli
      /\ Committed' = Committed /\ (AfterWrite' <=> AfterWrite)
  BY <1>0, OthersAct, OthersKeep DEF Committed, Credential, AfterWrite, OfflineSaved
<1>2. Custody'
  BY <1>0, OthersAct, SharedCustody DEF CustodyInv
<1>3. CASE pc = "idle"
  BY <1>0, <1>1, <1>2, <1>3 DEF CustodyInv, AfterWrite, OfflineSaved
<1>4. CASE pc # "idle"
  <2>1. Bystanders
    BY <1>0, <1>4, OthersAct
  <2>2. /\ \A a \in Accounts : issued'[a] >= issued[a]
        /\ auth' # auth /\ auth' # None =>
             auth'.acct \in Accounts /\ auth'.ver > issued[auth'.acct]
    BY <1>0, <2>1, FreshTokens DEF CustodyInv
  <2>3. /\ op.previous # None => op.previous \in Credentials /\ op.previous.acct \in Accounts
        /\ op.target \in Accounts /\ op.selected \in Nat
        /\ op.previous # None => op.previous.ver \in Nat
        /\ \A a \in Accounts : issued[a] \in Nat /\ issued'[a] \in Nat
    BY <1>0, <1>4, MaxVersionAssumption
       DEF Operations, Maybe, Credentials, TypeInv, AtSteps, SharedTypeOK
  <2>4. Issued(op.previous)' /\ op'.selected <= issued'[op'.target]
    BY <1>1, <1>4, <2>2, <2>3 DEF CustodyInv, Issued
  <2>5. pc \in WindowSteps \/ (op.restart /\ pc \in {"markCommit", "compare"}) =>
           UNCHANGED auth
    BY DEF OthersStep, OtherWriters, Outside, UserOpensDesktop, WatchedDesktopQuit,
       Unhindered, WindowOpen, WindowSteps, HandoffOpen, UnlockedWriters, DaemonSync,
       QuotaPoll, Remove, WriterQuit, DesktopQuit
  <2>6. auth' # None /\ auth' = op.previous => UNCHANGED auth
    BY <1>4, <2>2, <2>3 DEF CustodyInv, Issued
  <2>7. AfterWrite /\ auth' = Committed => UNCHANGED auth
    <3>. HAVE AfterWrite /\ auth' = Committed
    <3>1. /\ Committed # None
          /\ Committed.acct = op.target /\ Committed.ver = op.selected
      BY <1>0, <1>4, CommittedTyped DEF CustodyInv
    <3>2. op.selected <= issued[op.target]
      BY <1>4 DEF CustodyInv
    <3>. QED
      BY <2>2, <2>3, <3>1, <3>2
  <2>8. ASSUME UNCHANGED auth
        PROVE  /\ SavedCopy(auth) => SavedCopy(auth)'
               /\ Newest(op.previous) => Newest(op.previous)'
               /\ Newest(Committed) => Newest(Committed)'
    <3>1. /\ UNCHANGED <<issued, superseded>>
          /\ \A a \in Accounts :
                \/ saved'[a] = saved[a]
                \/ saved'[a] = 0
                \/ auth # None /\ a = auth.acct /\ saved'[a] = auth.ver
      BY <1>0, <2>1, <2>8, SameTokens DEF CustodyInv
    <3>2. auth # None => auth.acct \in Accounts
      BY <1>0 DEF SharedTypeOK, Maybe, Credentials
    <3>. QED
      BY <1>1, <2>8, <3>1, <3>2 DEF SavedCopy, Newest, Registered
  <2>9. op'.restart /\ pc' \in {"markCommit", "compare"} =>
           SavedCopy(auth)' /\ Newest(Committed)'
    BY <1>1, <2>5, <2>8 DEF CustodyInv
  <2>10. ~op'.restart /\ pc' \in {"markOffline", "compare"}
            /\ auth' # None /\ auth' = op'.previous =>
            SavedCopy(auth)' /\ (op'.selected # 0 => Newest(Committed)')
    BY <1>1, <2>6, <2>8 DEF CustodyInv
  <2>11. pc' = "rename" => auth' = op'.previous /\ SavedCopy(auth)' /\ Newest(Committed)'
    BY <1>1, <2>5, <2>8 DEF CustodyInv, WindowSteps
  <2>12. pc' = "undoRename" => auth' = Committed'
    BY <1>1, <2>5 DEF CustodyInv, WindowSteps
  <2>13. AfterWrite' /\ auth' = Committed' => Newest(op.previous)' /\ SavedCopy(Committed)'
    <3>. HAVE AfterWrite' /\ auth' = Committed'
    <3>1. UNCHANGED auth /\ auth = Committed /\ AfterWrite
      BY <1>1, <2>7
    <3>2. SavedCopy(auth)' /\ Newest(op.previous)'
      BY <2>8, <3>1 DEF CustodyInv
    <3>. QED
      BY <1>1, <3>1, <3>2 DEF SavedCopy
  <2>. QED
    BY <1>0, <1>1, <1>2, <2>4, <2>9, <2>10, <2>11, <2>12, <2>13 DEF CustodyInv
<1>. QED
  BY <1>3, <1>4

(* A step that changes nothing changes none of this.                       *)
LEMMA CustodyStays ==
    ASSUME CustodyInv, UNCHANGED vars
    PROVE  CustodyInv'
<1>1. /\ ClosedInv'
      /\ UNCHANGED <<auth, active, saved, issued, superseded, pc, op>>
  BY ClosedStep DEF vars, sharedVars, registryVars, outsideVars, CustodyInv
<1>. QED
  BY <1>1 DEF CustodyInv, Custody, CredentialCustody, Newest, Issued, SavedCopy,
     Registered, Committed, Credential, AfterWrite, OfflineSaved

(* While Desktop slips neither between a writer check and the rename it    *)
(* guards nor between the handoff of its last tokens and the write, the    *)
(* newest tokens of every saved account are in the registry or in          *)
(* auth.json, through both commit paths, their rollbacks, logins elsewhere *)
(* and every crash.                                                        *)
THEOREM NewestTokensKept ==
    ASSUME Race = FALSE, HandoffRace = FALSE
    PROVE  Spec => []CredentialCustody
<1>1. CustodyInv /\ [Next]_vars => CustodyInv'
  <2>. SUFFICES ASSUME CustodyInv, [Next]_vars PROVE CustodyInv'
    OBVIOUS
  <2>1. CASE UNCHANGED vars
    BY <2>1, CustodyStays
  <2>. QED
    BY <2>1, CustodyOwn, CustodyOthers DEF Next, OwnStep, OthersStep
<1>2. CustodyInv => CredentialCustody
  BY DEF CustodyInv, Custody
<1>. QED
  BY <1>1, <1>2, CustodyInitial, PTL DEF Spec

=============================================================================
