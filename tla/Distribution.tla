---------------------------- MODULE Distribution ----------------------------
(***************************************************************************)
(* Account distribution: the operation that moves the shared credentials   *)
(* to the account the decision service chose, under the recovery operation *)
(* lock and its own journal, distribution-journal.json.  With ChatGPT      *)
(* Desktop running it captures and stops Desktop, replaces auth.json,      *)
(* starts Desktop again, binds the new process and only then commits the   *)
(* registry; with Desktop closed it replaces auth.json and the registry,   *)
(* the CLI's order.  Either path has its own rollback.                     *)
(*                                                                         *)
(* Unlike the intent of a direct switch, this journal cannot be replayed:  *)
(* it only says how far an operation came, and the gate of the next one    *)
(* refuses to go on unless nothing had been touched.                       *)
(***************************************************************************)
EXTENDS SharedAuth

CONSTANTS
    Race,           \* TRUE: Desktop may act between a writer check and a rename
    HandoffRace     \* TRUE: tokens may rotate after the stopped Desktop's were saved

ASSUME RacesAssumption == {Race, HandoffRace} \subseteq BOOLEAN

VARIABLES
    dist,           \* distribution-journal.json
    closed,         \* a distribution told Desktop to quit; it has not opened since
    pc, op          \* the distribution

vars == <<sharedVars, dist, closed, pc, op>>
files == <<auth, registryVars, processVars, outsideVars>>

-----------------------------------------------------------------------------
Phases == {"initialized", "stopping_desktop", "auth_commit_app",
           "relaunching_desktop", "auth_commit_cli"}
Journals == [phase : Phases, target : Accounts]

ASSUME NoJournalAssumption == None \notin Journals

(* What is undone: an auth write whose relaunch failed, whose registry     *)
(* commit failed, or whose marker could not be saved.                      *)
Undone == {"relaunch", "registry", "marker"}

IdleOp == [target |-> None, restart |-> FALSE, cli |-> FALSE, app |-> FALSE,
           from |-> None, selected |-> 0, previous |-> None, mine |-> FALSE,
           bind |-> None, retain |-> FALSE, undone |-> "relaunch"]

Operations ==
    [target : Maybe(Accounts), restart : BOOLEAN, cli : BOOLEAN, app : BOOLEAN,
     from : Maybe(Accounts), selected : 0..MaxVersion,
     previous : Maybe(Credentials), mine : BOOLEAN, bind : Maybe(Accounts),
     retain : BOOLEAN, undone : Undone]

Steps == {"idle", "gate", "plan", "create", "mark", "capture", "stop", "stopping",
          "finalize", "handoff", "markCommit", "compare", "rename", "readback",
          "markRelaunch", "launch", "bind", "verifyLaunch", "commitLatest",
          "confirm", "reopen", "rebind", "sync", "markOffline", "commit",
          "saveMarker", "markerFailed", "undo", "undoRename", "undoReadback",
          "restoreRegistry", "verifyRestored", "verifyOffline", "clear"}

Committed == Credential(op.target, op.selected)

Init ==
    /\ SharedInit
    /\ dist = None /\ closed = FALSE
    /\ pc = "idle" /\ op = IdleOp

(* Returning releases the lock.                                            *)
Return == pc' = "idle" /\ op' = IdleOp
Goto(step) == pc' = step /\ UNCHANGED op

(* update_phase: a failed save may or may not have replaced the document.  *)
Phase(phase) == dist' = [phase |-> phase, target |-> op.target]

(* DistributionJournal::clear, reported as failed when the directory       *)
(* cannot be synced.                                                       *)
ClearJournal == dist' \in {None, dist}

(* before_auth_commit: give Desktop back under the previous account.       *)
Abort(retain) == pc' = "reopen" /\ op' = [op EXCEPT !.retain = retain]

-----------------------------------------------------------------------------
(* DistributionCoordinator::execute up to the journal                      *)
Start(t) ==
    /\ pc = "idle"
    /\ pc' = "gate" /\ op' = [IdleOp EXCEPT !.target = t]
    /\ UNCHANGED <<files, dist, closed>>

(* Mutant: the age of a journal is enough to remove it.                    *)
GateAnyPhase ==
    /\ pc = "gate"
    /\ \/ dist = None /\ Goto("plan") /\ UNCHANGED dist
       \/ dist # None /\ Return /\ UNCHANGED dist
       \/ dist # None /\ dist' = None /\ (Goto("plan") \/ Return)
    /\ UNCHANGED <<files, closed>>

(* Mutant: no phase permits a cleanup.                                     *)
GateNeverCleans ==
    /\ pc = "gate"
    /\ \/ dist = None /\ Goto("plan") /\ UNCHANGED dist
       \/ dist # None /\ Return /\ UNCHANGED dist
    /\ UNCHANGED <<files, closed>>

(* DistributionJournalGateService::inspect.  Whether a journal is stale    *)
(* (its process is gone, or five minutes passed) is not known here; one    *)
(* that is not, or cannot be removed, or is not "initialized" any more,    *)
(* ends the operation.                                                     *)
Gate ==
    /\ pc = "gate"
    /\ \/ dist = None /\ Goto("plan") /\ UNCHANGED dist
       \/ dist # None /\ Return /\ UNCHANGED dist
       \/ /\ dist # None /\ dist.phase = "initialized"
          /\ dist' = None
          /\ (Goto("plan") \/ Return)
    /\ UNCHANGED <<files, closed>>

(* Cooldown, decision and backoff may end the operation here.  Otherwise   *)
(* the registry's active account owns auth.json and, with Desktop open,    *)
(* the marker binds Desktop to it.  A change is needed for another target, *)
(* and for the same one when it is depleted.  With Desktop open a change   *)
(* needs a restart; without one, a forced restart only writes and clears   *)
(* the journal.  With Desktop closed the marker is always written.         *)
Plan ==
    /\ pc = "plan"
    /\ \/ Return
       \/ /\ active # None /\ VerifiedCli(active) /\ Registered(op.target)
          /\ \/ desktop = "off"
             \/ desktop = "on" /\ marker = active
          /\ pc' = "create"
          /\ \E change \in BOOLEAN :
               /\ op.target # active => change
               /\ op' = [op EXCEPT !.from = active, !.cli = change,
                                   !.app = change \/ desktop = "off",
                                   !.restart = change /\ desktop = "on"]
    /\ UNCHANGED <<files, dist, closed>>

Create ==
    /\ pc = "create"
    /\ \/ Phase("initialized") /\ (Return \/ Goto(IF op.restart THEN "mark" ELSE "sync"))
       \/ Return /\ UNCHANGED dist
    /\ UNCHANGED <<files, closed>>

-----------------------------------------------------------------------------
(* DistributionDesktopSwitchService::run                                   *)

(* Mutant: the journal keeps its first phase while Desktop is stopped.     *)
MarkNothing ==
    /\ pc = "mark"
    /\ Goto("capture")
    /\ UNCHANGED <<files, dist, closed>>

Mark ==
    /\ pc = "mark"
    /\ \/ Phase("stopping_desktop") /\ (Goto("capture") \/ Return)
       \/ Return /\ UNCHANGED dist
    /\ UNCHANGED <<files, closed>>

(* Windows, tasks, recovery checkpoint and its channel, in that order, of  *)
(* the process found now; a failure clears the journal unless the prior    *)
(* checkpoint cannot be restored.                                          *)
Capture ==
    /\ pc = "capture"
    /\ \/ /\ desktop = "on"
          /\ pc' = "stop" /\ op' = [op EXCEPT !.mine = TRUE]
          /\ UNCHANGED dist
       \/ Return /\ ClearJournal
    /\ UNCHANGED <<files, closed>>

(* The captured process is asked to quit; a failure before the signal      *)
(* leaves nothing behind.                                                  *)
Stop ==
    /\ pc = "stop"
    /\ \/ op.mine /\ Goto("stopping") /\ closed' = TRUE /\ UNCHANGED dist
       \/ Return /\ ClearJournal /\ UNCHANGED closed
    /\ UNCHANGED files

Stopped ==
    /\ pc = "stopping" /\ ~WriterActive
    /\ Goto("finalize")
    /\ UNCHANGED <<files, dist, closed>>

StopFails ==
    /\ pc = "stopping"
    /\ Return
    /\ UNCHANGED <<files, dist, closed>>

FinalizeAfterStop ==
    /\ pc = "finalize"
    /\ Goto("handoff") \/ Abort(FALSE)
    /\ UNCHANGED <<files, dist, closed>>

(* preserve_after_stop: what Desktop wrote last goes to the registry; then *)
(* the target is looked up again.                                          *)
Handoff ==
    /\ pc = "handoff"
    /\ \/ /\ ~WriterActive /\ SyncRegistry /\ auth.acct = op.from
          /\ IF Registered(op.target)
             THEN pc' = "markCommit" /\ op' = [op EXCEPT !.selected = saved'[op.target]]
             ELSE Abort(FALSE)
       \/ Abort(TRUE) /\ UNCHANGED registryVars
    /\ UNCHANGED <<auth, processVars, outsideVars, dist, closed>>

MarkCommit ==
    /\ pc = "markCommit"
    /\ \/ Phase("auth_commit_app") /\ (Goto("compare") \/ Abort(FALSE))
       \/ Abort(FALSE) /\ UNCHANGED dist
    /\ UNCHANGED <<files, closed>>

-----------------------------------------------------------------------------
(* DistributionAccountCommitService::apply_auth_tokens                     *)
WriteFails == IF op.restart THEN Abort(FALSE) ELSE Return

(* Mutant: the offline path replaces whatever it reads, too.               *)
CompareAnyAuth ==
    /\ pc = "compare"
    /\ \/ /\ ~WriterActive /\ auth # None
          /\ pc' = "rename" /\ op' = [op EXCEPT !.previous = auth]
       \/ WriteFails
    /\ UNCHANGED <<files, dist, closed>>

(* The Desktop path replaces whatever it reads, the offline path only the  *)
(* document its sync read.                                                 *)
Compare ==
    /\ pc = "compare"
    /\ \/ /\ ~WriterActive /\ auth # None
          /\ op.restart \/ auth = op.previous
          /\ pc' = "rename" /\ op' = [op EXCEPT !.previous = auth]
       \/ WriteFails
    /\ UNCHANGED <<files, dist, closed>>

Rename ==
    /\ pc = "rename"
    /\ \/ auth' = Committed /\ Goto("readback")
       \/ WriteFails /\ UNCHANGED auth
    /\ UNCHANGED <<registryVars, processVars, outsideVars, dist, closed>>

(* verify_offline_auth                                                     *)
Readback ==
    /\ pc = "readback"
    /\ \/ /\ ~WriterActive /\ auth = Committed
          /\ Goto(IF op.restart THEN "markRelaunch" ELSE "commit")
       \/ WriteFails
    /\ UNCHANGED <<files, dist, closed>>

Undo(cause) == pc' = "undo" /\ op' = [op EXCEPT !.undone = cause]

(* restore_when_desktop_stopped                                            *)
UndoCompare ==
    /\ pc = "undo"
    /\ \/ ~WriterActive /\ auth = Committed /\ Goto("undoRename")
       \/ Return
    /\ UNCHANGED <<files, dist, closed>>

UndoRename ==
    /\ pc = "undoRename"
    /\ \/ auth' = op.previous /\ Goto("undoReadback")
       \/ Return /\ UNCHANGED auth
    /\ UNCHANGED <<registryVars, processVars, outsideVars, dist, closed>>

UndoReadback ==
    /\ pc = "undoReadback"
    /\ \/ /\ ~WriterActive /\ auth = op.previous
          /\ CASE op.undone = "relaunch" -> Abort(FALSE)
               [] op.undone = "registry" -> Return
               [] op.undone = "marker" -> Goto("restoreRegistry")
       \/ Return
    /\ UNCHANGED <<files, dist, closed>>

-----------------------------------------------------------------------------
(* Desktop opens again: DistributionDesktopRelaunchService::run with the   *)
(* target, relaunch_if_auth_identity_matches with the previous account     *)
MarkRelaunch ==
    /\ pc = "markRelaunch"
    /\ \/ Phase("relaunching_desktop") /\ (Goto("launch") \/ Undo("relaunch"))
       \/ Undo("relaunch") /\ UNCHANGED dist
    /\ UNCHANGED <<files, closed>>

(* A launch may report failure although Desktop has opened; one that       *)
(* produced no single stable process is not bound.                         *)
Launch ==
    /\ pc = "launch"
    /\ \/ /\ ~WriterActive /\ OpensDesktop /\ closed' = FALSE
          /\ pc' \in {"bind", "commitLatest"}
          /\ op' = [op EXCEPT !.mine = TRUE, !.bind = op.target]
       \/ ~WriterActive /\ OpensDesktop /\ closed' = FALSE /\ Undo("relaunch")
       \/ Undo("relaunch") /\ UNCHANGED <<processVars, closed>>
    /\ UNCHANGED <<auth, registryVars, outsideVars, dist>>

Bind ==
    /\ pc = "bind"
    /\ \/ op.mine /\ desktop = "on" /\ marker' = op.bind /\ Goto("verifyLaunch")
       \/ Goto("commitLatest") /\ UNCHANGED marker
    /\ UNCHANGED <<auth, registryVars, desktop, session, outsideVars, dist, closed>>

(* verify_after_launch, before every recovery request: a check that fails  *)
(* withdraws the marker, if it can.                                        *)
VerifyLaunch ==
    /\ pc = "verifyLaunch"
    /\ Goto("commitLatest")
    /\ UNCHANGED marker \/ marker' = None
    /\ UNCHANGED <<auth, registryVars, desktop, session, outsideVars, dist, closed>>

Bound == op.mine /\ desktop = "on" /\ marker = op.bind

(* The relaunched previous Desktop loses its marker again; a Desktop of    *)
(* the target keeps what it has, and the journal.                          *)
BindingFails ==
    /\ Return
    /\ IF op.bind = op.from /\ marker = op.bind THEN marker' \in {marker, None}
                                                ELSE UNCHANGED marker

(* commit_latest_desktop_auth: the registry takes what the bound Desktop   *)
(* wrote ...                                                               *)
CommitLatest ==
    /\ pc = "commitLatest"
    /\ \/ /\ Bound /\ SyncRegistry /\ auth.acct = op.bind
          /\ pc' = "confirm" /\ op' = [op EXCEPT !.previous = auth]
          /\ UNCHANGED marker
       \/ BindingFails /\ UNCHANGED registryVars
    /\ UNCHANGED <<auth, desktop, session, outsideVars, dist, closed>>

(* ... and nothing may have moved meanwhile.                               *)
Confirm ==
    /\ pc = "confirm"
    /\ \/ /\ Bound /\ auth = op.previous
          /\ active = op.bind /\ saved[op.bind] = auth.ver
          /\ IF op.bind = op.from /\ op.retain THEN Return ELSE Goto("clear")
          /\ UNCHANGED marker
       \/ BindingFails
    /\ UNCHANGED <<auth, registryVars, desktop, session, outsideVars, dist, closed>>

(* Mutant: the previous Desktop opens whoever auth.json belongs to.        *)
ReopenAnyAccount ==
    /\ pc = "reopen"
    /\ \/ /\ ~WriterActive
          /\ OpensDesktop /\ closed' = FALSE
          /\ \/ pc' = "rebind"
                /\ op' = [op EXCEPT !.mine = TRUE, !.bind = op.from]
             \/ Return
       \/ Return /\ UNCHANGED <<processVars, closed>>
    /\ UNCHANGED <<auth, registryVars, outsideVars, dist>>

(* Only under the previous account's credentials.                          *)
Reopen ==
    /\ pc = "reopen"
    /\ \/ /\ ~WriterActive /\ auth # None /\ auth.acct = op.from
          /\ OpensDesktop /\ closed' = FALSE
          /\ \/ /\ pc' = "rebind"
                /\ op' = [op EXCEPT !.mine = TRUE, !.bind = op.from]
             \/ Return
       \/ Return /\ UNCHANGED <<processVars, closed>>
    /\ UNCHANGED <<auth, registryVars, outsideVars, dist>>

Rebind ==
    /\ pc = "rebind"
    /\ \/ op.mine /\ desktop = "on" /\ marker' = op.bind /\ Goto("commitLatest")
       \/ Return /\ UNCHANGED marker
    /\ UNCHANGED <<auth, registryVars, desktop, session, outsideVars, dist, closed>>

-----------------------------------------------------------------------------
(* DistributionOfflineCommitService::run                                   *)

(* sync_expected_from_disk; the target's tokens are those of the same      *)
(* registry.                                                               *)
Sync ==
    /\ pc = "sync"
    /\ \/ /\ op.cli /\ ~WriterActive
          /\ active = op.from /\ SyncRegistry /\ auth.acct = op.from
          /\ pc' = "markOffline"
          /\ op' = [op EXCEPT !.previous = auth, !.selected = saved'[op.target]]
       \/ ~op.cli /\ Goto("saveMarker") /\ UNCHANGED registryVars
       \/ Return /\ UNCHANGED registryVars
    /\ UNCHANGED <<auth, processVars, outsideVars, dist, closed>>

MarkOffline ==
    /\ pc = "markOffline"
    /\ \/ /\ ~WriterActive /\ Phase("auth_commit_cli")
          /\ \/ op.selected # 0 /\ Goto("compare")
             \/ Return
       \/ Return /\ UNCHANGED dist
    /\ UNCHANGED <<files, closed>>

(* DistributionOfflineRegistryService::commit                              *)
Commit ==
    /\ pc = "commit"
    /\ \/ /\ active = op.from /\ saved[op.target] = op.selected
          /\ op.target \notin relogin
          /\ active' = op.target /\ Goto("saveMarker")
       \/ Undo("registry") /\ UNCHANGED active
    /\ UNCHANGED <<auth, saved, relogin, processVars, outsideVars, dist, closed>>

(* A marker without a process: no running Desktop is bound any more.       *)
SaveMarker ==
    /\ pc = "saveMarker"
    /\ \/ op.app /\ marker' = None /\ Goto("verifyOffline")
       \/ op.app /\ marker' \in {marker, None} /\ Goto("markerFailed")
       \/ ~op.app /\ Goto("verifyOffline") /\ UNCHANGED marker
    /\ UNCHANGED <<auth, registryVars, desktop, session, outsideVars, dist, closed>>

(* validate_previous_binding                                               *)
PreviousBinding(expected) ==
    active = expected /\ saved[op.from] = op.previous.ver

(* rollback_marker_failure; the marker is restored before the journal is   *)
(* cleared.                                                                *)
MarkerFailed ==
    /\ pc = "markerFailed"
    /\ \/ op.cli /\ PreviousBinding(op.target) /\ Undo("marker")
       \/ ~op.cli /\ Goto("clear")
       \/ Return
    /\ UNCHANGED <<files, dist, closed>>

(* Mutant: only auth.json is rolled back.                                  *)
RestoreRegistryNot ==
    /\ pc = "restoreRegistry"
    /\ Goto("clear")
    /\ UNCHANGED <<files, dist, closed>>

RestoreRegistry ==
    /\ pc = "restoreRegistry"
    /\ \/ /\ PreviousBinding(op.target)
          /\ active' = op.from /\ Goto("verifyRestored")
       \/ Return /\ UNCHANGED active
    /\ UNCHANGED <<auth, saved, relogin, processVars, outsideVars, dist, closed>>

VerifyRestored ==
    /\ pc = "verifyRestored"
    /\ \/ /\ ~WriterActive /\ auth = op.previous /\ PreviousBinding(op.from)
          /\ Goto("clear")
       \/ Return
    /\ UNCHANGED <<files, dist, closed>>

VerifyOffline ==
    /\ pc = "verifyOffline"
    /\ \/ /\ op.cli => (~WriterActive /\ auth = Committed)
          /\ Goto("clear")
       \/ op.cli /\ Return
    /\ UNCHANGED <<files, dist, closed>>

-----------------------------------------------------------------------------
Clear ==
    /\ pc = "clear"
    /\ ClearJournal /\ Return
    /\ UNCHANGED <<files, closed>>

(* The process dies between two steps; the lock goes with it.              *)
Crash ==
    /\ pc # "idle"
    /\ Return
    /\ UNCHANGED <<files, dist, closed>>

Decide == Gate \/ Plan \/ Create
StopDesktop == \/ Mark \/ Capture \/ Stop \/ Stopped \/ StopFails
               \/ FinalizeAfterStop \/ Handoff \/ MarkCommit
ReplaceAuth == \/ Compare \/ Rename \/ Readback
               \/ UndoCompare \/ UndoRename \/ UndoReadback
OpenDesktop == \/ MarkRelaunch \/ Launch \/ Bind \/ VerifyLaunch
               \/ CommitLatest \/ Confirm \/ Reopen \/ Rebind
Offline == \/ Sync \/ MarkOffline \/ Commit \/ SaveMarker \/ MarkerFailed
           \/ RestoreRegistry \/ VerifyRestored \/ VerifyOffline
DistributionStep == \/ Decide \/ StopDesktop \/ ReplaceAuth \/ OpenDesktop
                    \/ Offline \/ Clear

-----------------------------------------------------------------------------
(* Everybody else                                                          *)
WindowOpen == pc \in {"rename", "undoRename"}
HandoffOpen == op.restart /\ pc \in {"markCommit", "compare"}
Unhindered == (Race \/ ~WindowOpen) /\ (HandoffRace \/ ~HandoffOpen)

OtherWriters ==
    /\ \/ UnlockedWriters
       \/ pc = "idle" /\ InferBinding
       \/ pc = "idle" /\ \E a \in Accounts : Relogin(a)
    /\ UNCHANGED <<dist, closed, pc, op>>

Outside ==
    /\ \/ Unhindered /\ (Rotate \/ Logout)
       \/ Unhindered /\ \E a \in Accounts : Login(a)
       \/ WriterQuit
    /\ UNCHANGED <<dist, closed, pc, op>>

UserOpensDesktop ==
    /\ Unhindered /\ UserLaunch
    /\ closed' = FALSE
    /\ UNCHANGED <<dist, pc, op>>

WatchedDesktopQuit ==
    /\ DesktopQuit
    /\ op' = [op EXCEPT !.mine = FALSE]
    /\ UNCHANGED <<dist, closed, pc>>

Next == \/ \E t \in Accounts : Start(t)
        \/ DistributionStep
        \/ Crash
        \/ OtherWriters
        \/ Outside
        \/ UserOpensDesktop
        \/ WatchedDesktopQuit

Spec == Init /\ [][Next]_vars

(* Distributions keep being requested, a step that can be taken is, and    *)
(* the removal of a journal does not fail, or its process outlive it, for  *)
(* ever.                                                                   *)
Fairness == /\ WF_vars(\E t \in Accounts : Start(t))
            /\ WF_vars(DistributionStep)
            /\ SF_vars(Gate /\ dist # None /\ dist' = None)

FairSpec == Spec /\ Fairness

-----------------------------------------------------------------------------
(* Properties                                                              *)

(* The journal and the operation hold what the code can store in them.     *)
TypeOK ==
    /\ SharedTypeOK
    /\ dist \in Maybe(Journals)
    /\ closed \in BOOLEAN
    /\ pc \in Steps
    /\ op \in Operations

Uncertain == dist # None /\ dist.phase # "initialized"

(* When auth.json belongs to a saved account that is not the registry's    *)
(* active one, an uncertain distribution journal is there: no later        *)
(* distribution goes on from that state, and no age of the journal lets it.*)
JournalCoversDivergence ==
    auth # None /\ Registered(auth.acct) /\ active # auth.acct => Uncertain

(* A Desktop the Monitor told to quit has been opened again, or an         *)
(* uncertain journal says so: no error path and no crash closes it         *)
(* unnoticed.                                                              *)
ClosedDesktopRecorded == closed => Uncertain

(* A journal of an operation that touched nothing does not block the next  *)
(* ones for ever.                                                          *)
InitializedJournalResolves ==
    (dist # None /\ dist.phase = "initialized")
        ~> ~(dist # None /\ dist.phase = "initialized")

=============================================================================
