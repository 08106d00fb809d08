-------------------------- MODULE OperationsProofs --------------------------
(***************************************************************************)
(* Proofs about Operations: what direct switches and distributions keep    *)
(* together, each starting from whatever a crash of the other left.        *)
(*                                                                         *)
(* The invariants are those of DirectSwitchProofs while a switch, or the   *)
(* reconciliation of its intent, may run, and those of DistributionProofs  *)
(* while a distribution runs; every step of one operation is a step of its *)
(* own module, and every other step one of both.                           *)
(***************************************************************************)
EXTENDS Operations, TLAPS

S == INSTANCE DirectSwitchProofs WITH pc <- spc, op <- sop
D == INSTANCE DistributionProofs WITH pc <- dpc, op <- dop

(* What the modules of the two operations assume of the constants.         *)
LEMMA SwitchAssumptions ==
    /\ MaxVersion \in Nat \ {0} /\ {Logins, Interference} \subseteq BOOLEAN
    /\ Race \in BOOLEAN
    /\ None \notin S!Intents
    /\ None \notin Accounts \union S!Credentials
  BY MaxVersionAssumption, EnvironmentAssumption, RacesAssumption, NoJournalsAssumption,
     NoneAssumption
     DEF S!Intents, Switch!Intents, Switch!Maybe, S!Maybe, Switch!Credentials,
         S!Credentials, Credentials

(* ... and what the proofs about a distribution assume.                    *)
LEMMA DistributionAssumptions ==
    /\ MaxVersion \in Nat \ {0} /\ {Logins, Interference} \subseteq BOOLEAN
    /\ {Race, HandoffRace} \subseteq BOOLEAN
    /\ None \notin D!Journals
    /\ None \notin Accounts \union D!Credentials
  BY MaxVersionAssumption, EnvironmentAssumption, RacesAssumption, NoJournalsAssumption,
     NoneAssumption
     DEF D!Journals, Distribution!Journals, D!Phases, Distribution!Phases,
         D!Credentials, Credentials

(* The shared files and processes are the same for both, and so is what    *)
(* the operations hand over to each other.                                 *)
SharedAlike ==
    /\ S!SharedTypeOK <=> D!SharedTypeOK
    /\ S!Agreement <=> D!Agreement
    /\ S!Processes <=> D!Processes
    /\ S!MarkerTruth <=> D!MarkerTruth
    /\ S!Custody <=> D!Custody

(* The two operations say the same of the files, the process and the       *)
(* marker they share,                                                      *)
LEMMA SameFiles == SharedAlike
<1>1. S!SharedTypeOK <=> D!SharedTypeOK
  BY DEF S!SharedTypeOK, D!SharedTypeOK, S!Maybe, D!Maybe, S!Credentials, D!Credentials
<1>2. S!Agreement <=> D!Agreement
  BY DEF S!Agreement, D!Agreement, S!Registered, D!Registered
<1>3. (S!Processes <=> D!Processes) /\ (S!MarkerTruth <=> D!MarkerTruth)
  BY DEF S!Processes, D!Processes, S!DesktopAgrees, D!DesktopAgrees,
     S!MarkerTruth, D!MarkerTruth
<1>4. S!Custody <=> D!Custody
  BY DEF S!Custody, D!Custody, S!CredentialCustody, D!CredentialCustody, S!Newest,
     D!Newest, S!Issued, D!Issued, S!Registered, D!Registered, S!Credential, D!Credential
<1>. QED
  BY <1>1, <1>2, <1>3, <1>4 DEF SharedAlike

(* and say the same of them in the next state.                             *)
LEMMA SameFilesNext == SharedAlike'
  BY SameFiles, PTL

-----------------------------------------------------------------------------
(* Whose step it is                                                        *)

(* A distribution has not taken over from the reconciliation yet.          *)
SwitchTurn == dpc \in {"idle", "reconcile"}

SwitchMove == \/ SwitchRequest \/ SwitchStep
              \/ DistributionRequest \/ ReconcileFirst \/ ReconcileCrash

Environment == OtherWriters \/ Tokens \/ Processes

(* The operations composed are those of the two modules.                   *)
LEMMA SameSwitch == Switch!SwitchStep \/ Switch!Crash => S!SwitchStep \/ S!Crash
  BY DEF Switch!SwitchStep, S!SwitchStep, Switch!Reconcile, S!Reconcile,
         Switch!ReconcileNothing, S!ReconcileNothing, Switch!ReconcileInspect,
         S!ReconcileInspect, Switch!ReconcileCommit, S!ReconcileCommit,
         Switch!ReconcileConfirm, S!ReconcileConfirm, Switch!ReconcileRefuse,
         S!ReconcileRefuse, Switch!ReconcileClear, S!ReconcileClear,
         Switch!AfterReconcile, S!AfterReconcile, Switch!Return, S!Return,
         Switch!Goto, S!Goto, Switch!IdleOp, S!IdleOp, Switch!MatchesPrior,
         S!MatchesPrior, Switch!MatchesTarget, S!MatchesTarget, Switch!WriterActive,
         S!WriterActive, Switch!Registered, S!Registered, Switch!SyncRegistry,
         S!SyncRegistry, Switch!Resolve, S!Resolve, Switch!SameAccount, S!SameAccount,
         Switch!Preflight, S!Preflight, Switch!Stop, S!Stop, Switch!Stopped,
         S!Stopped, Switch!StopFails, S!StopFails, Switch!ReplaceAuth, S!ReplaceAuth,
         Switch!PrepareStopped, S!PrepareStopped, Switch!FreshTarget, S!FreshTarget,
         Switch!PrepareOffline, S!PrepareOffline, Switch!Intent, S!Intent,
         Switch!Begin, S!Begin, Switch!Abort, S!Abort, Switch!Compare, S!Compare,
         Switch!Rename, S!Rename, Switch!Readback, S!Readback, Switch!Restore,
         S!Restore, Switch!RestoreRename, S!RestoreRename, Switch!Commit, S!Commit,
         Switch!Verify, S!Verify, Switch!Reopen, S!Reopen, Switch!Launch, S!Launch,
         Switch!Relaunch, S!Relaunch, Switch!EmergencyBind, S!EmergencyBind,
         Switch!Bind, S!Bind, Switch!VerifyBind, S!VerifyBind, Switch!AfterBinding,
         S!AfterBinding, Switch!OpensDesktop, S!OpensDesktop, Switch!VerifiedCli,
         S!VerifiedCli, Switch!Committed, S!Committed, Switch!Credential,
         S!Credential, Switch!Crash, S!Crash, Switch!registryVars, S!registryVars,
         Switch!processVars, S!processVars, Switch!outsideVars, S!outsideVars

(* A switch starts as in the proofs about it.                              *)
LEMMA SameStart ==
    ASSUME NEW t, NEW restart, Switch!Start(t, restart)
    PROVE  S!Start(t, restart)
  BY DEF Switch!Start, S!Start, Switch!IdleOp, S!IdleOp, Switch!registryVars,
         S!registryVars, Switch!processVars, S!processVars, Switch!outsideVars,
         S!outsideVars

(* The steps of a distribution are those of the proofs about it.           *)
LEMMA SameDistribution ==
    Distribution!DistributionStep \/ Distribution!Crash =>
        D!DistributionStep \/ D!Crash
  BY DEF Distribution!DistributionStep, D!DistributionStep, Distribution!Decide,
         D!Decide, Distribution!StopDesktop, D!StopDesktop, Distribution!ReplaceAuth,
         D!ReplaceAuth, Distribution!OpenDesktop, D!OpenDesktop, Distribution!Offline,
         D!Offline, Distribution!Gate, D!Gate, Distribution!Plan, D!Plan,
         Distribution!Create, D!Create, Distribution!Mark, D!Mark,
         Distribution!Capture, D!Capture, Distribution!Stop, D!Stop,
         Distribution!Stopped, D!Stopped, Distribution!StopFails, D!StopFails,
         Distribution!FinalizeAfterStop, D!FinalizeAfterStop, Distribution!Handoff,
         D!Handoff, Distribution!MarkCommit, D!MarkCommit, Distribution!WriteFails,
         D!WriteFails, Distribution!Compare, D!Compare, Distribution!Rename, D!Rename,
         Distribution!Readback, D!Readback, Distribution!Undo, D!Undo,
         Distribution!UndoCompare, D!UndoCompare, Distribution!UndoRename,
         D!UndoRename, Distribution!UndoReadback, D!UndoReadback,
         Distribution!MarkRelaunch, D!MarkRelaunch, Distribution!Launch, D!Launch,
         Distribution!Bind, D!Bind, Distribution!VerifyLaunch, D!VerifyLaunch,
         Distribution!Bound, D!Bound, Distribution!BindingFails, D!BindingFails,
         Distribution!CommitLatest, D!CommitLatest, Distribution!Confirm, D!Confirm,
         Distribution!Reopen, D!Reopen, Distribution!Rebind, D!Rebind,
         Distribution!Sync, D!Sync, Distribution!MarkOffline, D!MarkOffline,
         Distribution!Commit, D!Commit, Distribution!SaveMarker, D!SaveMarker,
         Distribution!PreviousBinding, D!PreviousBinding, Distribution!MarkerFailed,
         D!MarkerFailed, Distribution!RestoreRegistry, D!RestoreRegistry,
         Distribution!VerifyRestored, D!VerifyRestored, Distribution!VerifyOffline,
         D!VerifyOffline, Distribution!Clear, D!Clear, Distribution!Crash, D!Crash,
         Distribution!Return, D!Return, Distribution!Goto, D!Goto, Distribution!Phase,
         D!Phase, Distribution!ClearJournal, D!ClearJournal, Distribution!Abort,
         D!Abort, Distribution!IdleOp, D!IdleOp, Distribution!Committed, D!Committed,
         Distribution!Credential, D!Credential, Distribution!Registered, D!Registered,
         Distribution!WriterActive, D!WriterActive, Distribution!SyncRegistry,
         D!SyncRegistry, Distribution!OpensDesktop, D!OpensDesktop,
         Distribution!VerifiedCli, D!VerifiedCli, Distribution!registryVars,
         D!registryVars, Distribution!processVars, D!processVars,
         Distribution!outsideVars, D!outsideVars, Distribution!files, D!files

(* So are the conditions under which the others may act.                   *)
LEMMA SameUnhindered ==
    /\ Switch!Unhindered <=> S!Unhindered
    /\ Switch!FirstSwitch <=> S!FirstSwitch
    /\ Distribution!Unhindered <=> D!Unhindered
  BY DEF Switch!Unhindered, S!Unhindered, Switch!WindowOpen, S!WindowOpen,
         Switch!FirstSwitch, S!FirstSwitch, Distribution!Unhindered, D!Unhindered,
         Distribution!WindowOpen, D!WindowOpen, Distribution!HandoffOpen, D!HandoffOpen

(* Everybody else is the same to both, and to the composition.             *)
LEMMA SameBystanders ==
    /\ UnlockedWriters => S!UnlockedWriters /\ D!UnlockedWriters
    /\ InferBinding => S!InferBinding /\ D!InferBinding
    /\ \A a \in Accounts : Relogin(a) => S!Relogin(a) /\ D!Relogin(a)
    /\ Rotate => S!Rotate /\ D!Rotate
    /\ \A a \in Accounts : Login(a) => S!Login(a) /\ D!Login(a)
    /\ Logout => S!Logout /\ D!Logout
    /\ UserLaunch => S!UserLaunch /\ D!UserLaunch
    /\ DesktopQuit => S!DesktopQuit /\ D!DesktopQuit
    /\ WriterQuit => S!WriterQuit /\ D!WriterQuit
  BY DEF DaemonSync, S!DaemonSync, D!DaemonSync, SyncRegistry, S!SyncRegistry,
         D!SyncRegistry, Registered, S!Registered, D!Registered, QuotaPoll,
         S!QuotaPoll, D!QuotaPoll, Remove, S!Remove, D!Remove, Relogin, S!Relogin,
         D!Relogin, InferBinding, S!InferBinding, D!InferBinding, VerifiedCli,
         S!VerifiedCli, D!VerifiedCli, UnlockedWriters, S!UnlockedWriters,
         D!UnlockedWriters, Rotate, S!Rotate, D!Rotate, Logout, S!Logout, D!Logout,
         Login, S!Login, D!Login, Discarded, S!Discarded, D!Discarded, Credential,
         S!Credential, D!Credential, UserLaunch, S!UserLaunch, D!UserLaunch,
         OpensDesktop, S!OpensDesktop, D!OpensDesktop, DesktopQuit, S!DesktopQuit,
         D!DesktopQuit, WriterQuit, S!WriterQuit, D!WriterQuit, registryVars,
         S!registryVars, D!registryVars, processVars, S!processVars, D!processVars,
         outsideVars, S!outsideVars, D!outsideVars

(* A step of a switch, or of a reconciliation, leaves the distribution     *)
(* alone, unless it starts one.                                            *)
LEMMA SwitchMoves ==
    ASSUME SwitchMove
    PROVE  /\ SwitchTurn /\ S!OwnStep
           /\ UNCHANGED <<dist, outside>>
           /\ closed' \in {closed, closed /\ desktop' # "on"}
           /\ \/ SwitchTurn' /\ dop' \in {dop, D!IdleOp}
              \/ /\ dpc' = "gate" /\ spc' = "idle" /\ journal' = None
                 /\ \E t \in Accounts : dop' = [D!IdleOp EXCEPT !.target = t]
<1>1. CASE SwitchRequest
  BY <1>1, SameStart
     DEF SwitchRequest, LockFree, SwitchTurn, S!OwnStep, S!Maybe, distributionVars
<1>2. CASE SwitchStep
  BY <1>2, SameSwitch DEF SwitchStep, SwitchTurn, S!OwnStep, ClosedAfter
<1>3. CASE DistributionRequest
  BY <1>3, SameStart DEF DistributionRequest, LockFree, SwitchTurn, S!OwnStep, S!Maybe
<1>4. CASE ReconcileFirst
  BY <1>4, SameSwitch
     DEF ReconcileFirst, SwitchTurn, S!OwnStep, Switch!SwitchStep, Distribution!Return,
         Distribution!IdleOp, D!IdleOp
<1>5. CASE ReconcileCrash
  BY <1>5, SameSwitch
     DEF ReconcileCrash, SwitchTurn, S!OwnStep, Distribution!Return,
         Distribution!IdleOp, D!IdleOp
<1>. QED
  BY <1>1, <1>2, <1>3, <1>4, <1>5 DEF SwitchMove

(* A step of a distribution leaves the switch alone.                       *)
LEMMA DistributionMoves ==
    ASSUME DistributionStep
    PROVE  ~SwitchTurn /\ D!OwnStep /\ UNCHANGED <<switchVars, outside>>
<1>1. D!OwnStep /\ dpc # "reconcile" /\ UNCHANGED <<switchVars, outside>>
  BY SameDistribution DEF DistributionStep, D!OwnStep
<1>2. dpc # "idle"
  BY SameDistribution
     DEF DistributionStep, D!DistributionStep, D!Decide, D!Gate, D!Plan, D!Create,
         D!StopDesktop, D!Mark, D!Capture, D!Stop, D!Stopped, D!StopFails,
         D!FinalizeAfterStop, D!Handoff, D!MarkCommit, D!ReplaceAuth, D!Compare,
         D!Rename, D!Readback, D!UndoCompare, D!UndoRename, D!UndoReadback,
         D!OpenDesktop, D!MarkRelaunch, D!Launch, D!Bind, D!VerifyLaunch,
         D!CommitLatest, D!Confirm, D!Reopen, D!Rebind, D!Offline, D!Sync,
         D!MarkOffline, D!Commit, D!SaveMarker, D!MarkerFailed, D!RestoreRegistry,
         D!VerifyRestored, D!VerifyOffline, D!Clear, D!Crash
<1>. QED
  BY <1>1, <1>2 DEF SwitchTurn

(* Everybody else takes a step that both modules know, and says so when    *)
(* somebody logs in or out elsewhere.                                      *)
LEMMA EnvironmentMoves ==
    ASSUME Environment
    PROVE  /\ S!OthersStep /\ D!OthersStep
           /\ closed' \in {closed, FALSE}
           /\ UNCHANGED <<journal, spc, dist, dpc>>
           /\ dop' \in {dop, [dop EXCEPT !.mine = FALSE]}
           /\ \/ outside' = TRUE
              \/ /\ UNCHANGED outside
                 /\ S!Insiders \/ \E a \in Accounts : S!Relogin(a)
                 /\ D!Insiders \/ \E a \in Accounts : D!Relogin(a)
<1>. USE SameBystanders
     DEF S!OthersStep, D!OthersStep, S!OtherWriters, D!OtherWriters, S!Outside,
         D!Outside, S!Insiders, D!Insiders, switchVars, distributionVars
<1>1. CASE OtherWriters
  <2>1. \/ UnlockedWriters
        \/ LockFree /\ (InferBinding \/ \E a \in Accounts : Relogin(a))
    BY <1>1 DEF OtherWriters, UnlockedWriters
  <2>. QED
    BY <1>1, <2>1 DEF OtherWriters, LockFree
<1>2. CASE Tokens
  BY <1>2, SameUnhindered DEF Tokens, Unhindered
<1>3. CASE Processes
  BY <1>3, SameUnhindered
     DEF Processes, Unhindered, S!WatchedDesktopQuit, D!WatchedDesktopQuit,
         D!UserOpensDesktop
<1>. QED
  BY <1>1, <1>2, <1>3 DEF Environment

(* A step that changes nothing changes nothing of either operation.        *)
LEMMA StutterMoves ==
    ASSUME UNCHANGED vars
    PROVE  UNCHANGED S!vars /\ UNCHANGED D!vars /\ UNCHANGED <<switchVars, distributionVars, outside>>
  BY DEF vars, sharedVars, registryVars, processVars, outsideVars, switchVars,
     distributionVars, S!vars, S!sharedVars, S!registryVars, S!processVars,
     S!outsideVars, D!vars, D!sharedVars, D!registryVars, D!processVars, D!outsideVars

(* A step is one of a switch, of a distribution, or of the world around    *)
(* them.                                                                   *)
LEMMA Moves == Next => SwitchMove \/ DistributionStep \/ Environment
  BY DEF Next, SwitchMove, Environment

-----------------------------------------------------------------------------
(* Types, and the Desktop that was told to quit                            *)

(* While a distribution runs no switch does, and no intent is left: it     *)
(* began by reconciling it.                                                *)
TypeInv ==
    /\ S!TypeInv
    /\ dist \in D!Maybe(D!Journals) /\ closed \in BOOLEAN /\ dop \in D!Operations
    /\ closed => D!Uncertain
    /\ ~SwitchTurn => spc = "idle" /\ journal = None /\ D!ClosedInv

(* Both operations start as they do alone.                                 *)
LEMMA InitialBoth == Init => S!Init /\ D!Init
  BY DEF Init, Switch!Init, S!Init, Distribution!Init, D!Init, Switch!SharedInit,
     S!SharedInit, Distribution!SharedInit, D!SharedInit, Switch!Credential,
     S!Credential, Distribution!Credential, D!Credential, Switch!IdleOp, S!IdleOp,
     Distribution!IdleOp, D!IdleOp

(* At first no operation runs.                                             *)
THEOREM TypeInitial == Init => TypeInv
<1>. SUFFICES ASSUME Init PROVE TypeInv
  OBVIOUS
<1>1. S!TypeInv
  BY InitialBoth, S!TypeInitial, SwitchAssumptions
<1>2. D!TypeInv /\ dpc = "idle" /\ closed = FALSE
  BY InitialBoth, D!TypeInitial, DistributionAssumptions DEF D!Init
<1>. QED
  BY <1>1, <1>2 DEF TypeInv, SwitchTurn, D!TypeInv, D!TypeOK

(* A distribution begins with nothing but a target.                        *)
LEMMA Begins ==
    ASSUME S!TypeInv', dist' \in D!Maybe(D!Journals), closed' \in BOOLEAN,
           closed' => D!Uncertain', dpc' = "gate",
           NEW t \in Accounts, dop' = [D!IdleOp EXCEPT !.target = t]
    PROVE  /\ D!ClosedInv' /\ dop' \in D!Operations
           /\ dop'.target = t /\ dop'.selected = 0 /\ dop'.previous = None
<1>1. /\ dop' \in D!Operations /\ dop'.target = t /\ dop'.selected = 0
      /\ dop'.previous = None /\ ~dop'.cli /\ dop'.undone # "marker"
  <2>1. dop' \in D!Operations
    BY D!IdleTyped, DistributionAssumptions DEF D!Operations, D!Maybe
  <2>. QED
    BY <2>1 DEF D!IdleOp
<1>2. D!SharedTypeOK'
  BY SameFilesNext DEF SharedAlike, S!TypeInv, S!TypeOK
<1>3. D!TypeInv'
  BY <1>1, <1>2 DEF D!TypeInv, D!TypeOK, D!AtSteps, D!CommitSteps, D!Steps
<1>. QED
  BY <1>1, <1>3
     DEF D!ClosedInv, D!OpenSteps, D!OfflineWrite, D!OfflineSaved, D!RestartSteps,
         D!UncertainSteps, D!WriteSteps, D!UndoSteps

(* An operation keeps the types of its own, and the other is at rest       *)
(* meanwhile.                                                              *)
THEOREM TypeStep ==
    ASSUME TypeInv, [Next]_vars
    PROVE  TypeInv'
<1>1. CASE SwitchMove
  <2>1. S!TypeInv'
    BY <1>1, SwitchMoves, S!TypeStep, SwitchAssumptions DEF TypeInv, S!OwnStep, S!Next
  <2>2. /\ dist' \in D!Maybe(D!Journals) /\ closed' \in BOOLEAN
        /\ closed' => D!Uncertain'
    BY <1>1, SwitchMoves DEF TypeInv, D!Uncertain
  <2>3. CASE SwitchTurn' /\ dop' \in {dop, D!IdleOp}
    BY <2>1, <2>2, <2>3, D!IdleTyped, DistributionAssumptions DEF TypeInv
  <2>4. CASE /\ dpc' = "gate" /\ spc' = "idle" /\ journal' = None
             /\ \E t \in Accounts : dop' = [D!IdleOp EXCEPT !.target = t]
    BY <2>1, <2>2, <2>4, Begins DEF TypeInv
  <2>. QED
    BY <1>1, <2>3, <2>4, SwitchMoves
<1>2. CASE DistributionStep
  <2>1. ~SwitchTurn /\ D!OwnStep /\ UNCHANGED switchVars
    BY <1>2, DistributionMoves
  <2>2. D!ClosedInv'
    BY <2>1, D!ClosedStep, DistributionAssumptions DEF TypeInv, D!OwnStep, D!Next
  <2>3. /\ D!SharedTypeOK' /\ dist' \in D!Maybe(D!Journals) /\ closed' \in BOOLEAN
        /\ dop' \in D!Operations /\ (closed' => D!Uncertain')
    BY <2>2 DEF D!ClosedInv, D!TypeInv, D!TypeOK
  <2>4. S!TypeInv'
    BY <2>1, <2>3, SameFilesNext
       DEF SharedAlike, TypeInv, S!TypeInv, S!TypeOK, S!AtSteps, S!TargetSteps, S!IntentSteps,
           switchVars
  <2>. QED
    BY <2>1, <2>2, <2>3, <2>4 DEF TypeInv, switchVars
<1>3. CASE Environment
  <2>1. S!TypeInv'
    BY <1>3, EnvironmentMoves, S!TypeStep, SwitchAssumptions
       DEF TypeInv, S!OthersStep, S!Next
  <2>2. ~SwitchTurn => D!ClosedInv'
    BY <1>3, EnvironmentMoves, D!ClosedStep, DistributionAssumptions
       DEF TypeInv, D!OthersStep, D!Next
  <2>3. dop' \in D!Operations
    BY <1>3, EnvironmentMoves DEF TypeInv, D!Operations
  <2>4. /\ closed' \in {closed, FALSE}
        /\ UNCHANGED <<journal, spc, dist, dpc>>
    BY <1>3, EnvironmentMoves
  <2>5. dist' \in D!Maybe(D!Journals) /\ closed' \in BOOLEAN
    BY <2>4 DEF TypeInv
  <2>6. closed' => D!Uncertain'
    BY <2>4 DEF TypeInv, D!Uncertain
  <2>7. ~SwitchTurn' => spc' = "idle" /\ journal' = None /\ D!ClosedInv'
    BY <2>2, <2>4 DEF TypeInv, SwitchTurn
  <2>. QED
    BY <2>1, <2>3, <2>5, <2>6, <2>7 DEF TypeInv
<1>4. CASE UNCHANGED vars
  <2>1. S!TypeInv' /\ (D!ClosedInv => D!ClosedInv')
    BY <1>4, StutterMoves, S!TypeStep, D!ClosedStep, SwitchAssumptions,
       DistributionAssumptions DEF TypeInv
  <2>. QED
    BY <1>4, <2>1, StutterMoves
       DEF TypeInv, SwitchTurn, D!Uncertain, switchVars, distributionVars
<1>. QED
  BY <1>1, <1>2, <1>3, <1>4, Moves

(* Whatever operation or crash follows, a Desktop that a distribution told *)
(* to quit has been opened again, or its uncertain journal is still there. *)
THEOREM ClosedRecorded == Spec => []ClosedDesktopRecorded
<1>1. TypeInv => ClosedDesktopRecorded
  BY DEF TypeInv, ClosedDesktopRecorded, Distribution!Uncertain, D!Uncertain
<1>. QED
  BY <1>1, TypeInitial, TypeStep, PTL DEF Spec

-----------------------------------------------------------------------------
(* The two files and the two journals                                      *)

(* What either operation knows of the divergence of auth.json and the      *)
(* registry.  A switch that runs under the uncertain journal of a          *)
(* distribution knows nothing, and does not need to: it cannot remove that *)
(* journal.                                                                *)
DivergenceInv ==
    /\ TypeInv
    /\ \/ outside
       \/ SwitchTurn /\ (D!Uncertain \/ S!IntentInv)
       \/ ~SwitchTurn /\ D!DivergenceInv

(* At first auth.json and the registry agree.                              *)
THEOREM DivergenceInitial == Init => DivergenceInv
  BY TypeInitial, InitialBoth, S!IntentInitial, SwitchAssumptions
     DEF DivergenceInv, SwitchTurn, D!Init

(* A switch that ends, or that a distribution follows, leaves a divergence *)
(* explained.                                                              *)
LEMMA DivergenceHandover ==
    ASSUME DivergenceInv, SwitchMove, TypeInv', ~outside
    PROVE  DivergenceInv'
<1>1. /\ SwitchTurn /\ UNCHANGED <<dist, outside>>
      /\ (D!Uncertain' <=> D!Uncertain)
  BY SwitchMoves DEF D!Uncertain
<1>2. D!Uncertain' \/ S!IntentInv'
  BY <1>1, SwitchMoves, S!IntentOwn, SwitchAssumptions DEF DivergenceInv
<1>3. CASE SwitchTurn'
  BY <1>2, <1>3 DEF DivergenceInv
<1>4. CASE ~SwitchTurn'
  <2>1. dpc' = "gate" /\ journal' = None /\ D!ClosedInv'
    BY <1>4, SwitchMoves DEF TypeInv
  <2>2. PICK t \in Accounts : dop' = [D!IdleOp EXCEPT !.target = t]
    BY <1>4, SwitchMoves
  <2>3. ~dop'.cli /\ dop'.undone # "marker"
    BY <2>2 DEF D!IdleOp
  <2>4. S!IntentInv' => D!Agreement'
    BY <2>1, SameFilesNext DEF SharedAlike, S!IntentInv
  <2>. QED
    BY <1>2, <1>4, <2>1, <2>3, <2>4
       DEF DivergenceInv, D!DivergenceInv, D!AgreeSteps, D!OfflineWrite, D!WriteSteps,
           D!UndoSteps
<1>. QED
  BY <1>3, <1>4

(* Every step of either operation, of a crash and of the others keeps      *)
(* that.                                                                   *)
THEOREM DivergenceStep ==
    ASSUME DivergenceInv, [Next]_vars
    PROVE  DivergenceInv'
<1>0. TypeInv'
  BY TypeStep DEF DivergenceInv
<1>1. CASE outside' = TRUE
  BY <1>0, <1>1 DEF DivergenceInv
<1>2. CASE outside /\ UNCHANGED outside
  BY <1>0, <1>2 DEF DivergenceInv
<1>3. CASE ~outside /\ outside' # TRUE
  <2>1. CASE SwitchMove
    BY <1>0, <1>3, <2>1, DivergenceHandover
  <2>2. CASE DistributionStep
    <3>1. ~SwitchTurn /\ D!OwnStep /\ UNCHANGED switchVars
      BY <2>2, DistributionMoves
    <3>2. D!DivergenceInv'
      BY <1>3, <3>1, D!DivergenceOwn, DistributionAssumptions DEF DivergenceInv
    <3>3. journal' = None /\ spc' = "idle"
      BY <3>1 DEF DivergenceInv, TypeInv, switchVars
    <3>4. D!Uncertain' \/ S!IntentInv'
      <4>1. None \notin S!Intents
        BY SwitchAssumptions
      <4>. QED
        BY <1>0, <3>2, <3>3, SameFilesNext
           DEF SharedAlike, D!DivergenceInv, S!IntentInv, TypeInv
    <3>. QED
      BY <1>0, <3>2, <3>4 DEF DivergenceInv
  <2>3. CASE Environment
    <3>1. /\ S!Insiders \/ \E a \in Accounts : S!Relogin(a)
          /\ D!Insiders \/ \E a \in Accounts : D!Relogin(a)
          /\ S!OthersStep /\ D!OthersStep /\ UNCHANGED <<dist, dpc>>
      BY <1>3, <2>3, EnvironmentMoves
    <3>2. S!IntentInv => S!IntentInv'
      BY <3>1, S!IntentOthers, SwitchAssumptions
    <3>3. D!DivergenceInv => D!DivergenceInv'
      BY <3>1, D!DivergenceOthers, DistributionAssumptions
    <3>. QED
      BY <1>0, <1>3, <3>1, <3>2, <3>3 DEF DivergenceInv, SwitchTurn, D!Uncertain
  <2>4. CASE UNCHANGED vars
    <3>1. UNCHANGED S!vars /\ UNCHANGED D!vars /\ UNCHANGED <<dist, dpc>>
      BY <2>4, StutterMoves DEF distributionVars
    <3>2. S!IntentInv => S!IntentInv'
      BY <3>1, S!IntentStays, SwitchAssumptions
    <3>3. D!DivergenceInv => D!DivergenceInv'
      BY <3>1, D!DivergenceStays, DistributionAssumptions
    <3>. QED
      BY <1>0, <1>3, <3>1, <3>2, <3>3 DEF DivergenceInv, SwitchTurn, D!Uncertain
  <2>. QED
    BY <2>1, <2>2, <2>3, <2>4, Moves
<1>4. outside' = TRUE \/ UNCHANGED outside
  BY SwitchMoves, DistributionMoves, EnvironmentMoves, StutterMoves, Moves
<1>. QED
  BY <1>1, <1>2, <1>3, <1>4

(* Unless somebody logged in or out elsewhere, auth.json and the registry  *)
(* name different saved accounts only under the intent of a switch or the  *)
(* uncertain journal of a distribution, whichever of the two crashed in    *)
(* whose leftovers, and whatever slips between a writer check and a write. *)
THEOREM DivergenceAlwaysExplained == Spec => []DivergenceExplained
<1>1. DivergenceInv => DivergenceExplained
  <2>. SUFFICES ASSUME DivergenceInv, ~outside, Diverged, journal = None
                PROVE  Distribution!Uncertain
    BY DEF DivergenceExplained
  <2>1. ~S!Agreement /\ ~D!Agreement
    BY DEF Diverged, S!Agreement, D!Agreement, Registered, S!Registered, D!Registered
  <2>2. D!Uncertain
    BY <2>1 DEF DivergenceInv, S!IntentInv, D!DivergenceInv
  <2>. QED
    BY <2>2 DEF D!Uncertain, Distribution!Uncertain
<1>. QED
  BY <1>1, DivergenceInitial, DivergenceStep, PTL DEF Spec

-----------------------------------------------------------------------------
(* What a live Desktop has loaded                                          *)

ProcessInv ==
    /\ TypeInv
    /\ SwitchTurn => S!ProcessInv
    /\ ~SwitchTurn => D!ProcessInv

(* At first the Desktop that runs was opened on what auth.json holds.      *)
THEOREM ProcessInitial == Init => ProcessInv
  BY TypeInitial, InitialBoth, S!ProcessInitial, SwitchAssumptions
     DEF ProcessInv, SwitchTurn, D!Init

(* The next operation starts from whatever Desktop the last one left.      *)
THEOREM ProcessStep ==
    ASSUME ProcessInv, [Next]_vars, Race = FALSE
    PROVE  ProcessInv'
<1>0. TypeInv'
  BY TypeStep DEF ProcessInv
<1>1. CASE SwitchMove
  <2>1. SwitchTurn /\ S!ProcessInv'
    BY <1>1, SwitchMoves, S!ProcessOwn, SwitchAssumptions DEF ProcessInv
  <2>2. CASE SwitchTurn'
    BY <1>0, <2>1, <2>2 DEF ProcessInv
  <2>3. CASE ~SwitchTurn'
    <3>1. dpc' = "gate" /\ D!ClosedInv' /\ \E t \in Accounts : dop' = [D!IdleOp EXCEPT !.target = t]
      BY <1>0, <1>1, <2>3, SwitchMoves DEF TypeInv
    <3>2. ~dop'.mine /\ D!Processes'
      BY <2>1, <3>1, SameFilesNext DEF SharedAlike, S!ProcessInv, D!IdleOp
    <3>. QED
      BY <1>0, <2>3, <3>1, <3>2 DEF ProcessInv, D!ProcessInv, D!ClosedInv, D!WindowSteps
  <2>. QED
    BY <2>2, <2>3
<1>2. CASE DistributionStep
  <2>1. ~SwitchTurn /\ D!OwnStep /\ UNCHANGED switchVars
    BY <1>2, DistributionMoves
  <2>2. D!ProcessInv' /\ spc' = "idle"
    BY <2>1, D!ProcessOwn, DistributionAssumptions DEF ProcessInv, TypeInv, switchVars
  <2>3. S!ProcessInv'
    BY <1>0, <2>2, SameFilesNext
       DEF SharedAlike, D!ProcessInv, S!ProcessInv, S!WindowSteps, TypeInv
  <2>. QED
    BY <1>0, <2>2, <2>3 DEF ProcessInv
<1>3. CASE Environment
  <2>1. S!OthersStep /\ D!OthersStep /\ UNCHANGED dpc
    BY <1>3, EnvironmentMoves
  <2>2. /\ S!ProcessInv => S!ProcessInv'
        /\ D!ProcessInv => D!ProcessInv'
    BY <2>1, S!ProcessOthers, D!ProcessOthers, SwitchAssumptions, DistributionAssumptions
  <2>. QED
    BY <1>0, <2>1, <2>2 DEF ProcessInv, SwitchTurn
<1>4. CASE UNCHANGED vars
  <2>1. UNCHANGED S!vars /\ UNCHANGED D!vars /\ UNCHANGED dpc
    BY <1>4, StutterMoves DEF distributionVars
  <2>2. /\ S!ProcessInv => S!ProcessInv'
        /\ D!ProcessInv => D!ProcessInv'
    BY <2>1, S!ProcessStays, D!ProcessStays, SwitchAssumptions, DistributionAssumptions
  <2>. QED
    BY <1>0, <2>1, <2>2 DEF ProcessInv, SwitchTurn
<1>. QED
  BY <1>1, <1>2, <1>3, <1>4, Moves

(* No split brain across operations: while Desktop does not slip between a *)
(* writer check and the rename it guards, no switch and no distribution,   *)
(* in the leftovers of the other, leaves a live Desktop on another account *)
(* than auth.json.                                                         *)
THEOREM NoSplitBrain ==
    ASSUME Race = FALSE
    PROVE  Spec => []DesktopAgrees
<1>1. ProcessInv /\ [Next]_vars => ProcessInv'
  BY ProcessStep
<1>2. ProcessInv => DesktopAgrees
  BY DEF ProcessInv, S!ProcessInv, D!ProcessInv, S!Processes, D!Processes, DesktopAgrees,
     S!DesktopAgrees, D!DesktopAgrees
<1>. QED
  BY <1>1, <1>2, ProcessInitial, PTL DEF Spec

(* What the marker says of that Desktop, unless somebody logged in or out  *)
(* elsewhere.                                                              *)
MarkerInv ==
    /\ ProcessInv
    /\ \/ outside
       \/ SwitchTurn /\ S!MarkerInv
       \/ ~SwitchTurn /\ D!MarkerInv

(* At first the marker tells the truth.                                    *)
THEOREM MarkerInitial == Init => MarkerInv
  BY ProcessInitial, InitialBoth, S!MarkerInitial, SwitchAssumptions
     DEF MarkerInv, SwitchTurn, D!Init

(* The marker written by one operation is still true when the other        *)
(* starts.                                                                 *)
THEOREM MarkerStep ==
    ASSUME MarkerInv, [Next]_vars, Race = FALSE
    PROVE  MarkerInv'
<1>0. ProcessInv'
  BY ProcessStep DEF MarkerInv
<1>1. CASE outside' = TRUE
  BY <1>0, <1>1 DEF MarkerInv
<1>2. CASE outside /\ UNCHANGED outside
  BY <1>0, <1>2 DEF MarkerInv
<1>3. CASE ~outside /\ outside' # TRUE
  <2>1. CASE SwitchMove
    <3>1. SwitchTurn /\ S!MarkerInv'
      BY <1>3, <2>1, SwitchMoves, S!MarkerOwn, SwitchAssumptions DEF MarkerInv
    <3>2. CASE SwitchTurn'
      BY <1>0, <3>1, <3>2 DEF MarkerInv
    <3>3. CASE ~SwitchTurn'
      <4>1. dpc' = "gate" /\ D!ProcessInv' /\ D!MarkerTruth'
        BY <1>0, <2>1, <3>1, <3>3, SwitchMoves, SameFilesNext
           DEF SharedAlike, ProcessInv, S!MarkerInv
      <4>. QED
        BY <1>0, <3>3, <4>1 DEF MarkerInv, D!MarkerInv
    <3>. QED
      BY <3>2, <3>3
  <2>2. CASE DistributionStep
    <3>1. ~SwitchTurn /\ D!OwnStep /\ UNCHANGED switchVars
      BY <2>2, DistributionMoves
    <3>2. D!MarkerInv' /\ spc' = "idle"
      BY <1>3, <3>1, D!MarkerOwn, DistributionAssumptions
         DEF MarkerInv, ProcessInv, TypeInv, switchVars
    <3>3. SwitchTurn' => S!MarkerInv'
      BY <1>0, <3>2, SameFilesNext
         DEF SharedAlike, ProcessInv, D!MarkerInv, S!MarkerInv, S!Switched, S!ReconcileSteps
    <3>. QED
      BY <1>0, <3>2, <3>3 DEF MarkerInv
  <2>3. CASE Environment
    <3>1. /\ S!Insiders \/ \E a \in Accounts : S!Relogin(a)
          /\ D!Insiders \/ \E a \in Accounts : D!Relogin(a)
          /\ S!OthersStep /\ D!OthersStep /\ UNCHANGED dpc
      BY <1>3, <2>3, EnvironmentMoves
    <3>2. S!MarkerInv => S!MarkerInv'
      BY <3>1, S!MarkerOthers, SwitchAssumptions
    <3>3. D!MarkerInv => D!MarkerInv'
      BY <3>1, D!MarkerOthers, DistributionAssumptions
    <3>. QED
      BY <1>0, <1>3, <3>1, <3>2, <3>3 DEF MarkerInv, SwitchTurn
  <2>4. CASE UNCHANGED vars
    <3>1. UNCHANGED S!vars /\ UNCHANGED D!vars /\ UNCHANGED dpc
      BY <2>4, StutterMoves DEF distributionVars
    <3>2. S!MarkerInv => S!MarkerInv'
      BY <3>1, S!MarkerStays, SwitchAssumptions
    <3>3. D!MarkerInv => D!MarkerInv'
      BY <3>1, D!MarkerStays, DistributionAssumptions
    <3>. QED
      BY <1>0, <1>3, <3>1, <3>2, <3>3 DEF MarkerInv, SwitchTurn
  <2>. QED
    BY <2>1, <2>2, <2>3, <2>4, Moves
<1>4. outside' = TRUE \/ UNCHANGED outside
  BY SwitchMoves, DistributionMoves, EnvironmentMoves, StutterMoves, Moves
<1>. QED
  BY <1>1, <1>2, <1>3, <1>4

(* Until somebody logs in or out elsewhere, the marker that the next       *)
(* operation and the task recovery trust names the account that the live   *)
(* Desktop has loaded, whichever operation wrote it.                       *)
THEOREM SessionAlwaysTrue ==
    ASSUME Race = FALSE
    PROVE  Spec => []SessionTruth
<1>1. MarkerInv /\ [Next]_vars => MarkerInv'
  BY MarkerStep
<1>2. MarkerInv => SessionTruth
  BY DEF MarkerInv, S!MarkerInv, D!MarkerInv, SessionTruth, MarkerTruth, S!MarkerTruth,
     D!MarkerTruth
<1>. QED
  BY <1>1, <1>2, MarkerInitial, PTL DEF Spec

-----------------------------------------------------------------------------
(* The newest tokens                                                       *)

CustodyInv ==
    /\ TypeInv
    /\ SwitchTurn => S!CustodyInv
    /\ ~SwitchTurn => D!CustodyInv

(* At first auth.json holds the newest tokens of its account.              *)
THEOREM CustodyInitial == Init => CustodyInv
  BY TypeInitial, InitialBoth, S!CustodyInitial, SwitchAssumptions
     DEF CustodyInv, SwitchTurn, D!Init

(* A distribution starts with the newest tokens where a switch left them,  *)
(* and a switch where a distribution did.                                  *)
THEOREM CustodyStep ==
    ASSUME CustodyInv, [Next]_vars, Race = FALSE, HandoffRace = FALSE
    PROVE  CustodyInv'
<1>0. TypeInv'
  BY TypeStep DEF CustodyInv
<1>1. CASE SwitchMove
  <2>1. SwitchTurn /\ S!CustodyInv'
    BY <1>1, SwitchMoves, S!CustodyOwn, SwitchAssumptions DEF CustodyInv
  <2>2. CASE SwitchTurn'
    BY <1>0, <2>1, <2>2 DEF CustodyInv
  <2>3. CASE ~SwitchTurn'
    <3>1. /\ dpc' = "gate" /\ D!ClosedInv'
          /\ \E t \in Accounts : dop' = [D!IdleOp EXCEPT !.target = t]
      BY <1>0, <1>1, <2>3, SwitchMoves DEF TypeInv
    <3>2. PICK t \in Accounts : dop' = [D!IdleOp EXCEPT !.target = t]
      BY <3>1
    <3>3. dop'.target = t /\ dop'.selected = 0 /\ dop'.previous = None
      BY <3>2 DEF D!IdleOp
    <3>4. D!Custody' /\ issued'[t] \in Nat
      BY <2>1, <3>1, SameFilesNext, DistributionAssumptions
         DEF SharedAlike, S!CustodyInv, D!ClosedInv, D!TypeInv, D!TypeOK, D!SharedTypeOK
    <3>. QED
      BY <1>0, <2>3, <3>1, <3>3, <3>4
         DEF CustodyInv, D!CustodyInv, D!Issued, D!AfterWrite, D!OfflineSaved
  <2>. QED
    BY <2>2, <2>3
<1>2. CASE DistributionStep
  <2>1. ~SwitchTurn /\ D!OwnStep /\ UNCHANGED switchVars
    BY <1>2, DistributionMoves
  <2>2. D!CustodyInv' /\ spc' = "idle"
    BY <2>1, D!CustodyOwn, DistributionAssumptions DEF CustodyInv, TypeInv, switchVars
  <2>3. S!CustodyInv'
    BY <1>0, <2>2, SameFilesNext
       DEF SharedAlike, D!CustodyInv, S!CustodyInv, S!Fresh, S!Unread, S!ReconcileSteps,
           S!BeforeSteps, S!WrittenSteps, TypeInv
  <2>. QED
    BY <1>0, <2>2, <2>3 DEF CustodyInv
<1>3. CASE Environment
  <2>1. S!OthersStep /\ D!OthersStep /\ UNCHANGED dpc
    BY <1>3, EnvironmentMoves
  <2>2. /\ S!CustodyInv => S!CustodyInv'
        /\ D!CustodyInv => D!CustodyInv'
    BY <2>1, S!CustodyOthers, D!CustodyOthers, SwitchAssumptions, DistributionAssumptions
  <2>. QED
    BY <1>0, <2>1, <2>2 DEF CustodyInv, SwitchTurn
<1>4. CASE UNCHANGED vars
  <2>1. UNCHANGED S!vars /\ UNCHANGED D!vars /\ UNCHANGED dpc
    BY <1>4, StutterMoves DEF distributionVars
  <2>2. /\ S!CustodyInv => S!CustodyInv'
        /\ D!CustodyInv => D!CustodyInv'
    BY <2>1, S!CustodyStays, D!CustodyStays, SwitchAssumptions, DistributionAssumptions
  <2>. QED
    BY <1>0, <2>1, <2>2 DEF CustodyInv, SwitchTurn
<1>. QED
  BY <1>1, <1>2, <1>3, <1>4, Moves

(* While Desktop slips neither between a writer check and the rename it    *)
(* guards nor between the handoff of its last tokens and the write, no     *)
(* sequence of switches, distributions, crashes, syncs and logins loses    *)
(* the newest tokens of a saved account.                                   *)
THEOREM NewestTokensKept ==
    ASSUME Race = FALSE, HandoffRace = FALSE
    PROVE  Spec => []CredentialCustody
<1>1. CustodyInv /\ [Next]_vars => CustodyInv'
  BY CustodyStep
<1>2. CustodyInv => CredentialCustody
  BY DEF CustodyInv, S!CustodyInv, D!CustodyInv, S!Custody, D!Custody, CredentialCustody,
     S!CredentialCustody, D!CredentialCustody, Registered, S!Registered, D!Registered,
     Credential, S!Credential, D!Credential
<1>. QED
  BY <1>1, <1>2, CustodyInitial, PTL DEF Spec

=============================================================================
