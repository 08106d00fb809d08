---------------------------- MODULE DirectSwitch ----------------------------
(***************************************************************************)
(* `cxi switch`: one operation that moves the shared credentials from one  *)
(* saved account to another.  It rewrites two durable files that no single *)
(* rename can change together, auth.json (what ChatGPT Desktop and the CLI *)
(* log in with) and accounts.json (the registry and its active account),   *)
(* under a third one, direct-switch-journal.json.                          *)
(*                                                                         *)
(* The recovery operation lock admits one operation at a time, so `pc` and *)
(* `op` are the program counter and the locals of that one operation, and  *)
(* a second caller that finds the lock taken changes nothing.  Everything  *)
(* else interleaves with it between any two steps: the daemon, which syncs *)
(* and polls without that lock; the registry commands; ChatGPT Desktop and *)
(* the Codex CLI, which honour no lock; the user; and a crash.             *)
(***************************************************************************)
EXTENDS SharedAuth

CONSTANT Race       \* TRUE: Desktop may act between a writer check and a rename

ASSUME RaceAssumption == Race \in BOOLEAN

VARIABLES
    journal,        \* direct-switch-journal.json
    pc, op          \* the switch operation

vars == <<sharedVars, journal, pc, op>>

-----------------------------------------------------------------------------
Intents == [from : Maybe(Accounts), to : Accounts,
            prior : Maybe(Credentials), committed : Credentials]

ASSUME NoIntentAssumption == None \notin Intents

(* "entry" and "final" may finish a target commit, "undo" may only confirm *)
(* the prior state.  An operation without a target is an account           *)
(* distribution, which reconciles the intent before anything else.         *)
Callers == {"entry", "undo", "final"}

IdleOp == [target |-> None, restart |-> FALSE, running |-> FALSE,
           selected |-> 0, from |-> None, previous |-> None,
           caller |-> "entry", mine |-> FALSE, bind |-> None,
           emergency |-> FALSE]

Operations ==
    [target : Maybe(Accounts), restart : BOOLEAN, running : BOOLEAN,
     selected : 0..MaxVersion, from : Maybe(Accounts),
     previous : Maybe(Credentials), caller : Callers, mine : BOOLEAN,
     bind : Maybe(Accounts), emergency : BOOLEAN]

Steps == {"idle", "reconcile", "confirmPrior", "commitIntent",
          "confirmTarget", "clear", "resolve", "preflight", "stop", "stopping", "prepare", "begin",
          "abort", "compare", "rename", "readback", "restore", "restoreRename",
          "commit", "verify", "launch", "relaunch", "emergencyBind", "bind",
          "verifyBind"}

Committed == Credential(op.target, op.selected)

Init ==
    /\ SharedInit
    /\ journal = None
    /\ pc = "idle" /\ op = IdleOp

-----------------------------------------------------------------------------
(* Outcomes of the operation.  Returning releases the lock.                *)
Return == pc' = "idle" /\ op' = IdleOp
Goto(step) == pc' = step /\ UNCHANGED op

Start(t, restart) ==
    /\ pc = "idle"
    /\ pc' = "reconcile"
    /\ op' = [IdleOp EXCEPT !.target = t, !.restart = restart]
    /\ UNCHANGED <<auth, registryVars, journal, processVars, outsideVars>>

-----------------------------------------------------------------------------
(* DirectSwitchJournal::reconcile_with                                     *)
MatchesPrior ==
    /\ active = journal.from
    /\ auth = journal.prior
    /\ auth # None => /\ auth.acct = active
                      /\ auth.ver = saved[auth.acct]

MatchesTarget ==
    /\ auth = journal.committed
    /\ saved[journal.to] = journal.committed.ver
    /\ journal.to \notin relogin

AfterReconcile ==
    CASE op.caller = "entry" -> IF op.target = None THEN Return ELSE Goto("resolve")
      [] op.caller = "undo"  -> IF op.running THEN Goto("relaunch") ELSE Return
      [] op.caller = "final" -> IF op.running THEN Goto("launch") ELSE Return

ReconcileNothing ==
    /\ pc = "reconcile" /\ journal = None
    /\ AfterReconcile
    /\ UNCHANGED <<auth, registryVars, journal, processVars, outsideVars>>

(* Mutant: a target the registry already made active is not recognised.    *)
ReconcileInspectUncommitted ==
    /\ pc = "reconcile" /\ journal # None
    /\ \/ Return
       \/ ~WriterActive /\ MatchesPrior /\ Goto("confirmPrior")
       \/ /\ ~WriterActive /\ ~MatchesPrior
          /\ op.caller # "undo" /\ MatchesTarget
          /\ active = journal.from /\ Goto("commitIntent")
    /\ UNCHANGED <<auth, registryVars, journal, processVars, outsideVars>>

(* Any unreadable file, and any state that is neither, returns an error.   *)
ReconcileInspect ==
    /\ pc = "reconcile" /\ journal # None
    /\ \/ Return
       \/ ~WriterActive /\ MatchesPrior /\ Goto("confirmPrior")
       \/ /\ ~WriterActive /\ ~MatchesPrior
          /\ op.caller # "undo" /\ MatchesTarget
          /\ \/ active = journal.from /\ Goto("commitIntent")
             \/ active = journal.to /\ Goto("confirmTarget")
    /\ UNCHANGED <<auth, registryVars, journal, processVars, outsideVars>>

ReconcileCommit ==
    /\ pc = "commitIntent"
    /\ \/ /\ active \in {journal.from, journal.to}
          /\ saved[journal.to] = journal.committed.ver
          /\ journal.to \notin relogin
          /\ active' = journal.to
          /\ Goto("confirmTarget")
       \/ Return /\ UNCHANGED active
    /\ UNCHANGED <<auth, saved, relogin, journal, processVars, outsideVars>>

(* The second read before the intent is removed.                           *)
ReconcileConfirm ==
    /\ \/ pc = "confirmPrior" /\ MatchesPrior
       \/ pc = "confirmTarget" /\ active = journal.to /\ MatchesTarget
    /\ ~WriterActive
    /\ Goto("clear")
    /\ UNCHANGED <<auth, registryVars, journal, processVars, outsideVars>>

ReconcileRefuse ==
    /\ pc \in {"confirmPrior", "confirmTarget"}
    /\ Return
    /\ UNCHANGED <<auth, registryVars, journal, processVars, outsideVars>>

(* clear_if_matches: the removal is reported as failed when the directory  *)
(* cannot be synced afterwards.                                            *)
ReconcileClear ==
    /\ pc = "clear"
    /\ \/ journal' = None /\ (AfterReconcile \/ Return)
       \/ Return /\ UNCHANGED journal
    /\ UNCHANGED <<auth, registryVars, processVars, outsideVars>>

-----------------------------------------------------------------------------
(* switch_to_account_with, up to the first change of a credential          *)

(* Resolve the target's stable ID, then save what Desktop rotated.  A      *)
(* target that needs a re-login is refused with the other preflight checks.*)
Resolve ==
    /\ pc = "resolve"
    /\ \/ Return /\ UNCHANGED registryVars
       \/ /\ auth = None
          /\ UNCHANGED registryVars
          /\ Registered(op.target) /\ op.target \notin relogin
          /\ pc' = "preflight"
          /\ op' = [op EXCEPT !.selected = saved[op.target], !.from = active]
       \/ /\ SyncRegistry
          /\ Registered(op.target)
          /\ IF op.target \in relogin' THEN Return
             ELSE /\ pc' = "preflight"
                  /\ op' = [op EXCEPT !.selected = saved'[op.target],
                                      !.from = auth.acct, !.previous = auth]
    /\ UNCHANGED <<auth, journal, processVars, outsideVars>>

SameAccount == op.from = op.target /\ op.previous = Committed

(* The preflight probes and the no-op decision.                            *)
Preflight ==
    /\ pc = "preflight"
    /\ IF \/ desktop = "orphan"
          \/ desktop = "on" /\ op.previous = None
          \/ desktop = "on" /\ ~op.restart
          \/ SameAccount /\ (desktop = "off" \/ marker = op.target)
       THEN Return
       ELSE /\ op' = [op EXCEPT !.running = (desktop = "on"),
                                !.mine = (desktop = "on")]
            /\ pc' = IF desktop = "on" THEN "stop" ELSE "prepare"
    /\ UNCHANGED <<auth, registryVars, journal, processVars, outsideVars>>

(* Banner, window snapshot and recovery checkpoint precede the signal; any *)
(* of them may refuse.  The signal is sent to the exact process.           *)
Stop ==
    /\ pc = "stop"
    /\ \/ Return
       \/ op.mine /\ Goto("stopping")
    /\ UNCHANGED <<auth, registryVars, journal, processVars, outsideVars>>

(* Both grace periods ended with every writer gone; the second recovery    *)
(* checkpoint may still fail.                                              *)
Stopped ==
    /\ pc = "stopping"
    /\ ~WriterActive
    /\ \/ Goto("prepare")
       \/ Goto("relaunch")
    /\ UNCHANGED <<auth, registryVars, journal, processVars, outsideVars>>

(* A grace period ran out, or the process inventory could not be read.     *)
StopFails ==
    /\ pc = "stopping"
    /\ Return
    /\ UNCHANGED <<auth, registryVars, journal, processVars, outsideVars>>

-----------------------------------------------------------------------------
(* AccountSwitchAuthService::replace                                       *)

FreshTarget == saved'[op.target] = op.selected /\ op.target \notin relogin'

(* After a shutdown the registry first takes what Desktop last wrote; a    *)
(* failure to do so relaunches Desktop at once.                            *)
PrepareStopped ==
    /\ pc = "prepare" /\ op.running
    /\ \/ /\ SyncRegistry
          /\ op' = [op EXCEPT !.from = auth.acct, !.previous = auth]
          /\ pc' = IF FreshTarget THEN "begin" ELSE "abort"
       \/ Goto("relaunch") /\ UNCHANGED registryVars
    /\ UNCHANGED <<auth, journal, processVars, outsideVars>>

PrepareOffline ==
    /\ pc = "prepare" /\ ~op.running
    /\ UNCHANGED registryVars
    /\ \/ active = op.from /\ FreshTarget /\ Goto("begin")
       \/ Return
    /\ UNCHANGED <<auth, journal, processVars, outsideVars>>

(* Mutant: the committed fingerprint is taken before the tokens change.    *)
IntentOfPrevious == [from |-> op.from, to |-> op.target,
                     prior |-> op.previous, committed |-> op.previous]

Intent == [from |-> op.from, to |-> op.target,
           prior |-> op.previous, committed |-> Committed]

(* Mutant: the auth write goes ahead without the durable intent.           *)
BeginUnjournaled ==
    /\ pc = "begin"
    /\ op.from # op.target /\ Goto("compare")
    /\ UNCHANGED <<auth, registryVars, journal, processVars, outsideVars>>

(* DirectSwitchJournal::begin.  An intent that names one account twice is  *)
(* invalid.  A failure after the hard link leaves the intent behind.       *)
Begin ==
    /\ pc = "begin"
    /\ \/ /\ op.from # op.target /\ journal = None
          /\ journal' = Intent
          /\ (Goto("compare") \/ Goto("abort"))
       \/ Goto("abort") /\ UNCHANGED journal
    /\ UNCHANGED <<auth, registryVars, processVars, outsideVars>>

(* abort_before_auth_write                                                 *)
Abort ==
    /\ pc = "abort"
    /\ IF /\ op.running
          /\ auth = op.previous
          /\ active = op.from
          /\ auth = Credential(op.from, saved[op.from])
       THEN Goto("relaunch") ELSE Return
    /\ UNCHANGED <<auth, registryVars, journal, processVars, outsideVars>>

(* Mutant: the writer check replaces the comparison of the document.       *)
CompareWriterOnly ==
    /\ pc = "compare"
    /\ \/ ~WriterActive /\ Goto("rename")
       \/ pc' = "reconcile" /\ op' = [op EXCEPT !.caller = "undo"]
    /\ UNCHANGED <<auth, registryVars, journal, processVars, outsideVars>>

(* The compare half of compare_and_write / write_if_absent.                *)
Compare ==
    /\ pc = "compare"
    /\ \/ ~WriterActive /\ auth = op.previous /\ Goto("rename")
       \/ pc' = "reconcile" /\ op' = [op EXCEPT !.caller = "undo"]
    /\ UNCHANGED <<auth, registryVars, journal, processVars, outsideVars>>

(* The rename replaces whatever is there; the hard link of a first login   *)
(* refuses to.                                                             *)
Rename ==
    /\ pc = "rename"
    /\ \/ /\ op.previous # None \/ auth = None
          /\ auth' = Committed
          /\ Goto("readback")
       \/ /\ UNCHANGED auth
          /\ pc' = "reconcile" /\ op' = [op EXCEPT !.caller = "undo"]
    /\ UNCHANGED <<registryVars, journal, processVars, outsideVars>>

Readback ==
    /\ pc = "readback"
    /\ \/ auth = Committed /\ Goto("commit")
       \/ Goto("restore")
    /\ UNCHANGED <<auth, registryVars, journal, processVars, outsideVars>>

(* restore_auth_without_relaunch: compare with the committed document,     *)
(* then put the previous one, or its absence, back.  Its own failures are  *)
(* only reported; the journal decides what follows.                        *)
Restore ==
    /\ pc = "restore"
    /\ \/ ~WriterActive /\ auth = Committed /\ Goto("restoreRename")
       \/ pc' = "reconcile" /\ op' = [op EXCEPT !.caller = "undo"]
    /\ UNCHANGED <<auth, registryVars, journal, processVars, outsideVars>>

RestoreRename ==
    /\ pc = "restoreRename"
    /\ \/ auth' = op.previous
       \/ UNCHANGED auth
    /\ pc' = "reconcile" /\ op' = [op EXCEPT !.caller = "undo"]
    /\ UNCHANGED <<registryVars, journal, processVars, outsideVars>>

-----------------------------------------------------------------------------
(* AccountSwitchCommitService                                              *)
Commit ==
    /\ pc = "commit"
    /\ \/ /\ active \in {op.from, op.target}
          /\ saved[op.target] = op.selected
          /\ op.target \notin relogin
          /\ active' = op.target
          /\ Goto("verify")
       \/ Goto("restore") /\ UNCHANGED active
    /\ UNCHANGED <<auth, saved, relogin, journal, processVars, outsideVars>>

Verify ==
    /\ pc = "verify"
    /\ \/ /\ auth = Committed
          /\ pc' = "reconcile" /\ op' = [op EXCEPT !.caller = "final"]
       \/ Return
    /\ UNCHANGED <<auth, registryVars, journal, processVars, outsideVars>>

-----------------------------------------------------------------------------
(* Launching Desktop again and binding its process to an account           *)
(* A launch may report failure although Desktop has opened.                *)
Launch ==
    /\ pc = "launch"
    /\ \/ /\ ~WriterActive /\ OpensDesktop
          /\ pc' = "bind"
          /\ op' = [op EXCEPT !.mine = TRUE, !.bind = op.target]
       \/ ~WriterActive /\ OpensDesktop /\ Goto("relaunch")
       \/ Goto("relaunch") /\ UNCHANGED processVars
    /\ UNCHANGED <<auth, registryVars, journal, outsideVars>>

(* relaunch_previous_state and keep_after_failure                          *)
Relaunch ==
    /\ pc = "relaunch"
    /\ \/ /\ ~WriterActive /\ OpensDesktop
          /\ pc' = "emergencyBind"
          /\ op' = [op EXCEPT !.mine = TRUE, !.emergency = TRUE]
       \/ ~WriterActive /\ OpensDesktop /\ Return
       \/ Return /\ UNCHANGED processVars
    /\ UNCHANGED <<auth, registryVars, journal, outsideVars>>

(* Mutant: an emergency relaunch is bound to the account asked for.        *)
EmergencyBindTarget ==
    /\ pc = "emergencyBind"
    /\ pc' = "bind" /\ op' = [op EXCEPT !.bind = op.target]
    /\ UNCHANGED <<auth, registryVars, journal, processVars, outsideVars>>

EmergencyBind ==
    /\ pc = "emergencyBind"
    /\ IF active # None /\ VerifiedCli(active)
       THEN pc' = "bind" /\ op' = [op EXCEPT !.bind = active]
       ELSE Return
    /\ UNCHANGED <<auth, registryVars, journal, processVars, outsideVars>>

AfterBinding == IF op.emergency THEN Return ELSE Goto("relaunch")

Bind ==
    /\ pc = "bind"
    /\ \/ /\ op.mine /\ desktop = "on"
          /\ marker' = op.bind
          /\ Goto("verifyBind")
       \/ AfterBinding /\ UNCHANGED marker
    /\ UNCHANGED <<auth, registryVars, journal, desktop, session, outsideVars>>

(* The marker is checked again before any recovery request; a mismatch     *)
(* withdraws it.  Recovery itself may fail afterwards.                     *)
VerifyBind ==
    /\ pc = "verifyBind"
    /\ IF op.mine /\ desktop = "on" /\ VerifiedCli(op.bind)
       THEN UNCHANGED marker /\ (Return \/ AfterBinding)
       ELSE marker' \in {marker, None} /\ AfterBinding
    /\ UNCHANGED <<auth, registryVars, journal, desktop, session, outsideVars>>

(* The process dies between two steps; the lock goes with it.              *)
Crash ==
    /\ pc # "idle"
    /\ Return
    /\ UNCHANGED <<auth, registryVars, journal, processVars, outsideVars>>

Reconcile == \/ ReconcileNothing \/ ReconcileInspect \/ ReconcileCommit
             \/ ReconcileConfirm \/ ReconcileRefuse \/ ReconcileClear
ReplaceAuth == \/ PrepareStopped \/ PrepareOffline \/ Begin \/ Abort \/ Compare
               \/ Rename \/ Readback \/ Restore \/ RestoreRename
Reopen == Launch \/ Relaunch \/ EmergencyBind \/ Bind \/ VerifyBind
SwitchStep == \/ Reconcile \/ Resolve \/ Preflight \/ Stop \/ Stopped
              \/ StopFails \/ ReplaceAuth \/ Commit \/ Verify \/ Reopen

-----------------------------------------------------------------------------
(* Everybody else                                                          *)
WindowOpen == pc \in {"rename", "restoreRename"}
Unhindered == Race \/ ~WindowOpen

(* A switch that found no auth.json and has not created one yet.           *)
FirstSwitch == op.previous = None /\ pc \in {"preflight", "prepare", "begin", "compare"}

(* Nobody else touches the switch, except that a Desktop that quits is no  *)
(* longer the process the switch watches.                                  *)
OtherWriters ==
    /\ \/ UnlockedWriters
       \/ pc = "idle" /\ InferBinding
       \/ pc = "idle" /\ \E a \in Accounts : Relogin(a)
    /\ UNCHANGED <<journal, pc, op>>

Outside ==
    /\ \/ Unhindered /\ (Rotate \/ Logout \/ UserLaunch)
       \/ Unhindered /\ (Race \/ ~FirstSwitch) /\ \E a \in Accounts : Login(a)
       \/ WriterQuit
    /\ UNCHANGED <<journal, pc, op>>

WatchedDesktopQuit ==
    /\ DesktopQuit
    /\ op' = [op EXCEPT !.mine = FALSE]
    /\ UNCHANGED <<journal, pc>>

Next == \/ \E t \in Maybe(Accounts), restart \in BOOLEAN : Start(t, restart)
        \/ SwitchStep
        \/ Crash
        \/ OtherWriters
        \/ Outside
        \/ WatchedDesktopQuit

Spec == Init /\ [][Next]_vars

(* Operations keep being requested, the daemon keeps ticking, and neither  *)
(* a crash nor an I/O error strikes at the same step of the reconciliation *)
(* every time.                                                             *)
Fairness == /\ WF_vars(\E t \in Maybe(Accounts), r \in BOOLEAN : Start(t, r))
            /\ WF_vars(SwitchStep)
            /\ WF_vars(DaemonSync /\ UNCHANGED <<journal, pc, op>>)
            /\ SF_vars(ReconcileInspect /\ pc' # "idle")
            /\ SF_vars(ReconcileCommit /\ pc' # "idle")
            /\ SF_vars(ReconcileConfirm)
            /\ SF_vars(ReconcileClear /\ journal' = None)

FairSpec == Spec /\ Fairness

-----------------------------------------------------------------------------
(* Properties                                                              *)

(* The files, the processes and the operation hold what their formats and  *)
(* the steps of the code allow: the type invariant.                        *)
TypeOK ==
    /\ SharedTypeOK
    /\ journal \in Maybe(Intents)
    /\ pc \in Steps
    /\ op \in Operations

(* When auth.json names a saved account that is not the registry's active  *)
(* one, the durable intent that explains it is still there: the next       *)
(* operation, and not a guess, decides which side wins.                    *)
IntentCoversDivergence ==
    auth # None /\ Registered(auth.acct) /\ active # auth.acct => journal # None

(* While nobody rotates tokens or edits the registry, auth.json holds one  *)
(* of the two credentials a pending intent names, the registry has that    *)
(* credential too, and its active account is one of the two: a crash       *)
(* anywhere in the switch or its rollback loses nothing.                   *)
IntentRecoverable ==
    journal # None =>
        /\ auth \in {journal.prior, journal.committed}
        /\ auth # None => saved[auth.acct] = auth.ver
        /\ active \in {journal.from, journal.to}

(* If Desktop stays closed, an intent that replaced an existing auth.json  *)
(* does not block switching for ever, whatever crashed and however often.  *)
(* (The rollback of a first login can be blocked: a sync between its write *)
(* and its removal makes the target active, and no auth.json undoes that.) *)
PendingIntentResolves ==
    <>[](desktop = "off") => []<>(journal = None \/ journal.prior = None)

=============================================================================
