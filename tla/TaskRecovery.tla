---------------------------- MODULE TaskRecovery ----------------------------
(***************************************************************************)
(* Recovery of interrupted tasks.  A restart of ChatGPT Desktop journals   *)
(* the tasks it is about to interrupt in desktop-recovery.json, stops and  *)
(* relaunches Desktop, and asks the new process, over its IPC, to continue *)
(* each task.  `cxi resume` does the last part alone; a request that could *)
(* not be made waits in the journal for a worker that probes every 15 s.   *)
(*                                                                         *)
(* The recovery operation lock admits one operation at a time, so `pc`,    *)
(* `op`, `tgt` and `mem` are its program counter and locals.  Desktop, the *)
(* user, other programs that log in, and a crash interleave with it.  The  *)
(* four hours after which a journaled task is too old are not reached.     *)
(***************************************************************************)
EXTENDS Rollout, FiniteSets

CONSTANTS
    Tasks, Accounts, None,
    MaxLog,             \* bound on the records of one rollout
    MaxRevision,        \* bound on the changes of one queue of follow-ups
    Commands,           \* the forms of `cxi resume`: "resume" <id>, "discover"
    Unreadable,         \* what a reading may fail on: "journal", "rollout"
    Race                \* TRUE: Desktop may act in the instants named below

ASSUME RecoveryAssumption ==
    /\ None \notin Accounts /\ None \notin Tasks /\ 0 # None
    /\ IsFiniteSet(Tasks)
    /\ MaxLog \in Nat \ {0} /\ MaxRevision \in Nat
    /\ Commands \subseteq {"resume", "discover"}
    /\ Unreadable \subseteq {"journal", "rollout"} /\ Race \in BOOLEAN

VARIABLES
    log, running, queue,    \* tasks: rollout, live turn (0: none), follow-ups
    desktop, acct, bound,   \* Desktop, the login of auth.json, the session marker
    inflight,               \* tasks with a request that Desktop has not taken yet
    manifest,               \* desktop-recovery.json
    pc, op, tgt, mem,       \* the operation: locals, targets, a manifest it holds
    owed, asked, resumed    \* history: tasks to be continued, tasks already asked,
                            \* tasks whose turn began since they were last named

taskVars == <<log, running, queue>>
sessionVars == <<desktop, acct, bound>>
opVars == <<pc, op, tgt, mem>>
history == <<owed, asked, resumed>>
vars == <<taskVars, sessionVars, inflight, manifest, opVars, history>>

-----------------------------------------------------------------------------
Maybe(S) == S \union {None}

Queues == [n : 0..1, rev : 0..MaxRevision]
Rotations == [to : Accounts, turn : 1..MaxLog, from : 1..MaxLog,
              rev : 0..MaxRevision, confirmed : BOOLEAN]
Entries == [off : 0..MaxLog, awaiting : BOOLEAN, captured : BOOLEAN,
            owner : Maybe(Accounts), auth : Maybe(Rotations)]
Manifests == [Tasks -> Maybe(Entries)]

(* An entry that waits names the account it waits for, or no worker could  *)
(* ever claim it; the evidence of a rotation belongs to a restart, or the  *)
(* reader refuses the whole journal (valid_unique_targets).                *)
WellFormed(e) == /\ e.awaiting <=> e.owner # None
                 /\ e.auth # None => e.captured

ASSUME NoEntryAssumption == None \notin Entries /\ None \notin Rotations

Modes == {"captured", "deferredOwned", "deferredCaptured", "explicit", "discovered"}
Deferred == {"deferredOwned", "deferredCaptured"}
PreservesCheckpoint(mode) == mode \in Deferred \union {"captured"}
AllowsActive(mode) == mode \in {"captured", "deferredCaptured", "explicit"}

Outcomes == {"open", "retry", "failed", "completed", "skipped"}

Targets == [base : 0..MaxLog, seen : 0..MaxLog, state : TailStates,
            queued : BOOLEAN, auth : BOOLEAN, outcome : Outcomes,
            sent : BOOLEAN, expected : 0..MaxLog]

NoTarget == [base |-> 0, seen |-> 0, state |-> "clean", queued |-> FALSE,
             auth |-> FALSE, outcome |-> "open", sent |-> FALSE, expected |-> 0]

NoOp == [mode |-> "captured", ids |-> {}, from |-> None, to |-> None,
         rotates |-> FALSE, revs |-> [t \in Tasks |-> 0], mine |-> FALSE,
         acct |-> None, claimed |-> {}, todo |-> {}, cur |-> None,
         rev |-> 0, entry |-> None, reply |-> 0]

Operations ==
    [mode : Modes, ids : SUBSET Tasks, from : Maybe(Accounts), to : Maybe(Accounts),
     rotates : BOOLEAN, revs : [Tasks -> 0..MaxRevision], mine : BOOLEAN,
     acct : Maybe(Accounts), claimed : SUBSET Tasks, todo : SUBSET Tasks,
     cur : Maybe(Tasks), rev : 0..MaxRevision, entry : Maybe(Entries),
     reply : 0..MaxLog]

NoManifest == [t \in Tasks |-> None]
NoTargets == [t \in Tasks |-> NoTarget]

Init ==
    /\ log = [t \in Tasks |-> <<Record("start", 1)>>]
    /\ running = [t \in Tasks |-> 1]
    /\ queue = [t \in Tasks |-> [n |-> 0, rev |-> 0]]
    /\ desktop = "on" /\ acct \in Accounts /\ bound \in {None, acct}
    /\ inflight = {} /\ manifest = NoManifest
    /\ pc = "idle" /\ op = NoOp /\ tgt = NoTargets /\ mem = NoManifest
    /\ owed = {} /\ asked = {} /\ resumed = Tasks

-----------------------------------------------------------------------------
(* The tasks as recovery reads them                                        *)

(* What the rollout of a task says, and what one who reads it learns.      *)
State(t) == TailState(log[t])
Inspected(t, blind) == InspectedState(log[t], t \notin blind)

(* The tasks whose rollout one pass over them cannot read.                 *)
Blind == IF "rollout" \in Unreadable THEN SUBSET Tasks ELSE {{}}

Resumable == {"active", "aborted", "quota"}

(* deferred_account_binding: the account of the live, verified Desktop.    *)
Binding == IF desktop = "on" /\ bound = acct THEN bound ELSE None

Entered(m) == {t \in Tasks : m[t] # None}
Awaiting(m) == {t \in Entered(m) : m[t].awaiting}

(* evidence of the account switch holds: its turn ended with the rejected  *)
(* login, and neither the rollout nor the queue has changed since.         *)
StillCurrent(t, a, to) ==
    /\ queue[t].rev = a.rev
    /\ ClosedByError(log[t], a.from, to, a.turn)

(* should_dispatch, should_resume_queued and their auth-rotation variants  *)
Eligible(state, n, mode, confirmed) ==
    \/ state = "quota"
    \/ /\ state = "error"
       /\ mode = "explicit" \/ (confirmed /\ mode \in {"captured", "deferredCaptured"})
    \/ state \in {"aborted", "active"} /\ AllowsActive(mode)
    \/ state = "clean" /\ n > 0 /\ mode # "discovered"

(* A deferred retry whose task has verified work after its checkpoint and  *)
(* no follow-up left is superseded.                                        *)
Superseded(t, e) ==
    Verified(Evidence(log[t], e.off, Len(log[t])), 0) /\ queue[t].n = 0

KeepsAwaiting(t, e) ==
    /\ State(t) = "error" =>
          e.auth # None /\ e.captured /\ e.auth.confirmed /\ e.owner = e.auth.to
    /\ ~Superseded(t, e)

(* ManifestPruneService: one pass examines one deferred entry, `probe`.    *)
(* An entry that waits outlives a reading that says nothing, any other is  *)
(* dropped by it.                                                          *)
Prune(m, probe, blind) ==
    [t \in Tasks |->
        IF m[t] = None THEN None
        ELSE IF m[t].awaiting
             THEN IF t = probe /\ t \notin blind /\ ~KeepsAwaiting(t, m[t])
                  THEN None ELSE m[t]
        ELSE IF \/ Inspected(t, blind) \in {"quota", "active", "aborted"}
                \/ Inspected(t, blind) = "clean" /\ queue[t].n > 0
             THEN m[t] ELSE None]

Fresh(t) == [off |-> Len(log[t]), awaiting |-> FALSE, captured |-> TRUE,
             owner |-> None, auth |-> None]

(* save_pending: deferred retries stay, every other older entry goes.      *)
Saved(ids, blind) ==
    [t \in Tasks |->
        IF t \in Awaiting(manifest) /\ (t \in ids \ blind => ~Superseded(t, manifest[t]))
        THEN manifest[t]
        ELSE IF t \in ids THEN Fresh(t) ELSE None]

(* Mutant: the tasks of an unfinished recovery are not looked up.          *)
DetectedRunning(mounted, readable, blind) ==
    {t \in Tasks \ blind : State(t) = "quota" \/ (t \in mounted /\ State(t) = "active")}
        \ Awaiting(manifest)

(* detect_in_progress_threads: a task whose writer lock Desktop holds, a   *)
(* recent quota failure, or an entry left by an unfinished recovery; never *)
(* one that waits for its owner.                                           *)
Detected(mounted, readable, blind) ==
    LET pending == IF readable THEN Entered(Prune(manifest, None, blind)) ELSE {}
    IN {t \in Tasks :
           \/ Inspected(t, blind) = "quota"
           \/ t \in mounted /\ Inspected(t, blind) = "active"
           \/ t \in pending /\ Inspected(t, blind) \in {"active", "aborted"}}
       \ Awaiting(manifest)

(* A running turn holds its task's lock; a task may be open without one.   *)
Mounts ==
    LET live == {t \in Tasks : running[t] # 0}
        open == IF desktop = "on" THEN Tasks ELSE {}
    IN {live \union more : more \in SUBSET open}

(* What a detection finds, and what it misses because it cannot read it.   *)
Detection(mounted, readable, blind) ==
    LET found == Detected(mounted, readable, blind)
    IN [found |-> found, missed |-> Detected(mounted, TRUE, {}) \ found]

Detections ==
    {d \in [found : SUBSET Tasks, missed : SUBSET Tasks] :
        \E mounted \in Mounts, readable \in {"journal" \notin Unreadable, TRUE}, blind \in Blind :
            d = Detection(mounted, readable, blind)}

-----------------------------------------------------------------------------
(* A restart, alone or to switch accounts                                  *)

Goto(step) == pc' = step

Return == /\ pc' = "idle" /\ op' = NoOp /\ tgt' = NoTargets /\ mem' = NoManifest

(* The turns of a Desktop that ends: each may flush what it had to say,    *)
(* an abort, or the error of a login that another program replaced.        *)
Flushed(kinds) ==
    {f \in [Tasks -> {<<>>} \union {<<k>> : k \in kinds}] :
        \A t \in Tasks :
            f[t] # <<>> => running[t] # 0 /\ Len(log[t]) < MaxLog}

DesktopEnds(kinds, stopped) ==
    /\ desktop' = "off" /\ bound' = None /\ inflight' = {}
    /\ running' = [t \in Tasks |-> 0] /\ resumed' = {}
    /\ \E f \in Flushed(kinds) :
          log' = [t \in Tasks |->
                     IF f[t] = <<>> THEN log[t]
                     ELSE Append(log[t], Record(f[t][1], running[t]))]
    /\ owed' = {t \in owed \union stopped : State(t)' \in Resumable}

(* A restart or the user names these tasks: they may be asked anew.        *)
Named(ids) ==
    /\ asked' = asked \ ids
    /\ resumed' = resumed \ ids

(* restart_and_recover, a direct switch, or (rotates) a distribution, up   *)
(* to the first checkpoint.  The primary task of the caller is added,      *)
(* whatever its state.  The manifest of before is kept in memory until     *)
(* Desktop is signalled.                                                   *)
StartRestart(to, rotates) ==
    /\ pc = "idle" /\ desktop = "on"
    /\ rotates => to # acct
    /\ \E detection \in Detections, primary \in Maybe(Tasks), blind \in Blind :
          LET ids == detection.found \union ({primary} \ {None})
          IN /\ op' = [NoOp EXCEPT !.ids = ids, !.from = acct, !.to = to,
                                   !.rotates = rotates, !.mine = TRUE,
                                   !.revs = [t \in Tasks |->
                                               IF rotates THEN queue[t].rev ELSE 0]]
             /\ manifest' = Saved(ids, blind)
             /\ Named({t \in ids : manifest'[t] = Fresh(t)})
             /\ owed' = owed \ (detection.missed \ ids)
    /\ mem' = manifest
    /\ Goto(IF rotates THEN "prepareRotation" ELSE "stop")
    /\ UNCHANGED <<taskVars, sessionVars, inflight, tgt>>

(* AuthRotationCheckpointService::prepare: remember the turn that runs.    *)
PrepareRotation ==
    /\ pc = "prepareRotation"
    /\ \E blind \in Blind :
          manifest' = [t \in Tasks |->
             IF /\ t \in op.ids /\ manifest[t] # None
                /\ ~manifest[t].awaiting /\ manifest[t].off = Len(log[t])
                /\ Inspected(t, blind) = "active" /\ ActiveTurn(log[t]) # 0
                /\ queue[t].rev = op.revs[t]
             THEN [manifest[t] EXCEPT !.auth =
                      [to |-> op.to, turn |-> ActiveTurn(log[t]), from |-> Len(log[t]),
                       rev |-> op.revs[t], confirmed |-> FALSE]]
             ELSE manifest[t]]
    /\ Goto("stop")
    /\ UNCHANGED <<taskVars, sessionVars, inflight, op, tgt, mem, history>>

(* RecoveryManifestSnapshot::rollback_error: any failure before the signal *)
RollBack ==
    /\ pc \in {"prepareRotation", "stop"}
    /\ manifest' = mem
    /\ Return
    /\ UNCHANGED <<taskVars, sessionVars, inflight, history>>

(* The quit signal; from here on the tasks that were journaled for it are  *)
(* to be continued.  An older retry keeps its own checkpoint.  Desktop     *)
(* exits, or the wait for it ends and the operation with it.               *)
Stop ==
    /\ pc = "stop" /\ op.mine
    /\ \/ /\ DesktopEnds({"abort", "error"}, op.ids \ Awaiting(manifest))
          /\ op' = [op EXCEPT !.mine = FALSE] /\ mem' = NoManifest
          /\ Goto("checkpoint")
          /\ UNCHANGED tgt
       \/ /\ Return
          /\ owed' = owed \union
                {t \in op.ids \ Awaiting(manifest) : State(t) \in Resumable}
          /\ UNCHANGED <<log, running, desktop, bound, inflight, resumed>>
    /\ UNCHANGED <<queue, acct, manifest, asked>>

(* relaunch_previous_state: bring Desktop back, recover nothing.           *)
Relaunch ==
    /\ desktop' = "on"
    /\ IF desktop = "on" THEN bound' = bound ELSE bound' \in {None, acct}
    /\ Return
    /\ UNCHANGED <<log, running, queue, acct, inflight>>

(* The second checkpoint, taken when nothing writes the rollouts any more. *)
Checkpoint ==
    /\ pc = "checkpoint"
    /\ \/ /\ mem' = manifest
          /\ \E blind \in Blind : manifest' = Saved(op.ids, blind)
          /\ Goto(IF op.rotates THEN "confirmRotation" ELSE "switch")
          /\ UNCHANGED <<taskVars, sessionVars, inflight, op, tgt>>
       \/ Relaunch /\ manifest' \in {manifest} \union {Saved(op.ids, blind) : blind \in Blind}
    /\ Named({t \in op.ids : manifest'[t] = Fresh(t)})
    /\ UNCHANGED owed

(* AuthRotationCheckpointService::finalize_after_stop, its second write:   *)
(* the evidence of before returns where the rejected login ended the turn. *)
ConfirmRotation ==
    /\ pc = "confirmRotation"
    /\ \/ /\ \E blind \in Blind :
                manifest' = [t \in Tasks |->
                   LET rotation == IF t \in op.ids /\ mem[t] # None
                                   THEN mem[t].auth ELSE None
                   IN IF /\ rotation # None /\ manifest[t] # None
                         /\ queue[t].rev = rotation.rev
                         /\ t \notin blind
                         /\ ClosedByError(log[t], rotation.from,
                                          manifest[t].off, rotation.turn)
                      THEN [manifest[t] EXCEPT !.auth =
                                          [rotation EXCEPT !.confirmed = TRUE]]
                      ELSE manifest[t]]
          /\ Goto("switch")
          /\ mem' = NoManifest
          /\ UNCHANGED <<taskVars, sessionVars, inflight, op, tgt>>
       \/ Relaunch /\ UNCHANGED manifest
    /\ UNCHANGED history

(* The account is compared, and for a switch replaced, while Desktop is    *)
(* closed.  A mismatch, or any failure of the switch, brings Desktop back. *)
Switch ==
    /\ pc = "switch"
    /\ \/ /\ acct = op.from
          /\ acct' = op.to
          /\ mem' = NoManifest
          /\ Goto("launch")
          /\ UNCHANGED <<log, running, queue, desktop, bound, inflight, op, tgt>>
       \/ Relaunch
    /\ UNCHANGED <<manifest, history>>

(* Desktop is launched and DesktopSessionBindingService::bind_then_recover *)
(* binds it, or fails to; what it bound is recovered.                      *)
Launch ==
    /\ pc = "launch"
    /\ \/ /\ desktop = "off" /\ acct = op.to
          /\ desktop' = "on" /\ bound' = op.to
          /\ op' = [NoOp EXCEPT !.ids = op.ids, !.mine = TRUE]
          /\ Goto("begin")
          /\ UNCHANGED <<tgt, mem>>
       \/ /\ desktop' \in {desktop, "on"}
          /\ bound' = IF desktop = "on" THEN bound ELSE None
          /\ Return
    /\ UNCHANGED <<taskVars, acct, inflight, manifest, history>>

RestartStep == \/ PrepareRotation \/ RollBack \/ Stop \/ Checkpoint
               \/ ConfirmRotation \/ Switch \/ Launch

-----------------------------------------------------------------------------
(* The other operations that recover tasks                                 *)

(* The identity the operation must keep is that of the running process.    *)
StartRecovery(mode, ids) ==
    /\ op' = [NoOp EXCEPT !.mode = mode, !.ids = ids, !.mine = TRUE]
    /\ Goto("begin")
    /\ desktop' = "on"
    /\ bound' = IF desktop = "on" THEN bound ELSE None

(* `cxi resume <id>`; a closed Desktop is launched first.                  *)
Resume(t) ==
    /\ pc = "idle" /\ "resume" \in Commands
    /\ StartRecovery("explicit", {t})
    /\ UNCHANGED <<taskVars, acct, inflight, manifest, tgt, mem, history>>

(* `cxi resume`, and what follows an applied reset credit.                 *)
Discover ==
    /\ pc = "idle" /\ "discover" \in Commands
    /\ \E detection \in Detections :
          detection.found # {} /\ StartRecovery("discovered", detection.found)
    /\ UNCHANGED <<taskVars, acct, inflight, manifest, tgt, mem, history>>

(* DeferredRecoveryService::run_once: an entry that waits for the account  *)
(* of the live Desktop is examined alone, then dropped or recovered.       *)
Probe(t) ==
    /\ pc = "idle"
    /\ t \in Awaiting(manifest) /\ Binding # None /\ manifest[t].owner = Binding
    /\ \/ /\ KeepsAwaiting(t, manifest[t]) \/ "rollout" \in Unreadable
          /\ StartRecovery(IF manifest[t].captured
                            THEN "deferredCaptured" ELSE "deferredOwned", {t})
          /\ UNCHANGED manifest
       \/ /\ ~KeepsAwaiting(t, manifest[t])
          /\ manifest' = [manifest EXCEPT ![t] = None]
          /\ UNCHANGED <<desktop, bound, pc, op>>
    /\ UNCHANGED <<taskVars, acct, inflight, tgt, mem, history>>

-----------------------------------------------------------------------------
(* recover_threads: checkpoint, scan, dispatch, observe                    *)

(* validate_target_account_binding; an entry that an explicit request      *)
(* claims is not bound by it.                                              *)
BoundHere(t) ==
    LET e == manifest[t]
    IN e # None /\ ~(op.mode = "explicit" /\ (e.awaiting \/ e.auth # None)) =>
          /\ e.auth # None /\ e.auth.confirmed => e.auth.to = acct
          /\ e.awaiting => e.owner = acct

(* checkpoint_targets: the journal with an entry for each task of the      *)
(* operation.  One that does not own its checkpoint starts from here.      *)
Checkpointed ==
    [t \in Tasks |->
        IF t \notin op.ids THEN manifest[t]
        ELSE IF manifest[t] = None
             THEN [Fresh(t) EXCEPT !.captured = op.mode = "captured"]
        ELSE IF ~PreservesCheckpoint(op.mode) /\ ~manifest[t].awaiting
             THEN [manifest[t] EXCEPT !.off = Len(log[t])]
        ELSE manifest[t]]

(* The claim of an explicit request lives in the operation only.           *)
Claims == IF op.mode = "explicit" THEN op.ids \intersect Awaiting(manifest) ELSE {}

View(t) == IF t \in Claims THEN Len(log[t]) ELSE Checkpointed[t].off

(* The checkpoint is taken, or the operation refuses before any write: no  *)
(* one Desktop, another account than the entries are bound to.             *)
Begin ==
    /\ pc = "begin"
    /\ \/ /\ desktop = "on" /\ op.mine
          /\ op.mode \in Deferred => Binding = acct
          /\ \A t \in op.ids : BoundHere(t)
          /\ manifest' = Checkpointed /\ mem' = Checkpointed
          /\ op' = [op EXCEPT !.acct = acct, !.claimed = Claims, !.todo = op.ids]
          /\ tgt' = [t \in Tasks |->
                        IF t \in op.ids
                        THEN [NoTarget EXCEPT !.base = View(t), !.seen = View(t)]
                        ELSE NoTarget]
          /\ \/ PreservesCheckpoint(op.mode) /\ UNCHANGED history
             \/ /\ op.mode = "explicit" /\ Named(op.ids)
                /\ owed' = owed \union {t \in op.ids \ Claims : State(t) \in Resumable}
             \/ /\ op.mode = "discovered"
                /\ asked' = asked \ op.ids
                /\ owed' = owed \union {t \in op.ids : State(t) = "quota"}
                /\ UNCHANGED resumed
          /\ Goto(IF op.ids = {} THEN "finalize" ELSE "prepare")
       \/ /\ Return
          /\ UNCHANGED <<manifest, history>>
    /\ UNCHANGED <<taskVars, sessionVars, inflight>>

(* record_target_state_with_budget: a rollout that grew after it had been  *)
(* read is refused until the request is sent.                              *)
Readable(t) == tgt[t].sent \/ tgt[t].seen = tgt[t].base \/ Len(log[t]) = tgt[t].seen

Read(t) == Evidence(log[t], tgt[t].base, Len(log[t]))

(* A woken queue is bound to the first turn seen after the request.        *)
ExpectedTurn(t) ==
    IF tgt[t].sent /\ tgt[t].queued /\ tgt[t].expected = 0 /\ Read(t).started
    THEN Read(t).turn ELSE tgt[t].expected

Refuted(t) ==
    \/ Read(t).failed
    \/ ExpectedTurn(t) # 0 /\ Read(t).started /\ Read(t).turn # ExpectedTurn(t)

Polled(t) ==
    [tgt[t] EXCEPT !.seen = Len(log[t]), !.expected = ExpectedTurn(t),
                   !.outcome = IF Refuted(t) THEN "failed" ELSE "open"]

(* What was read of a task is of no use once it is settled.                *)
Settle(t, outcome) ==
    tgt' = [tgt EXCEPT ![t] = [NoTarget EXCEPT !.outcome = outcome, !.sent = tgt[t].sent]]

(* The next step follows once every task had its turn.                     *)
Done(t, step, next) ==
    /\ op' = [op EXCEPT !.todo = IF @ = {t} THEN op.ids ELSE @ \ {t}]
    /\ Goto(IF op.todo = {t} THEN next ELSE step)

TargetStep == /\ op.todo # {}
              /\ UNCHANGED <<taskVars, sessionVars, inflight, manifest, mem, history>>

(* prepare_target; a task that ended well meanwhile is left alone.         *)
Prepare(t) ==
    /\ pc = "prepare" /\ t \in op.todo
    /\ \/ \E blind \in Blind :
             LET e == mem[t]
                 state == Inspected(t, blind)
                 rotated == /\ e.auth # None /\ e.auth.confirmed /\ e.auth.to = op.acct
                            /\ t \notin blind /\ StillCurrent(t, e.auth, tgt[t].base)
                 target == [Polled(t) EXCEPT !.state = state, !.auth = rotated,
                                             !.queued = queue[t].n > 0]
             IN tgt' = [tgt EXCEPT ![t] =
                    IF state = "clean" /\ queue[t].n = 0
                    THEN [target EXCEPT !.outcome = "skipped"] ELSE target]
       \/ Settle(t, "retry")
    /\ Done(t, "prepare", "scan")
    /\ TargetStep

(* ForegroundCheckpointService: read on for three seconds and more.        *)
Scan(t) ==
    /\ pc = "scan" /\ t \in op.todo
    /\ \/ tgt[t].outcome # "open" /\ UNCHANGED tgt
       \/ tgt[t].outcome = "open" /\ Readable(t) /\ tgt' = [tgt EXCEPT ![t] = Polled(t)]
       \/ tgt[t].outcome = "open" /\ Settle(t, "retry")
    /\ Done(t, "scan", "dispatch")
    /\ TargetStep

(* DesktopIpc::connect_with_retry fails: nothing was sent to any task.     *)
NoChannel ==
    /\ pc = "dispatch" /\ op.todo = op.ids
    /\ \E t \in op.ids : tgt[t].outcome = "open"
    /\ tgt' = [t \in Tasks |->
           IF t \notin op.ids \/ tgt[t].outcome \in {"retry", "skipped"} THEN tgt[t]
           ELSE IF Readable(t) /\ Read(t).started THEN Polled(t)
           ELSE [tgt[t] EXCEPT !.outcome = "retry"]]
    /\ Goto("observe")
    /\ UNCHANGED <<op, taskVars, sessionVars, inflight, manifest, mem, history>>

(* dispatch_if_needed, up to the search for the task's owner in Desktop,   *)
(* which may take 90 s and fail.                                           *)
Dispatch(t) ==
    /\ pc = "dispatch" /\ t \in op.todo
    /\ \/ /\ tgt[t].outcome # "open" \/ Evidence(log[t], tgt[t].base, tgt[t].seen).started
          /\ Done(t, "dispatch", "observe") /\ UNCHANGED tgt
       \/ /\ tgt[t].outcome = "open"
          /\ ~Evidence(log[t], tgt[t].base, tgt[t].seen).started
          /\ \/ /\ Eligible(tgt[t].state, queue[t].n, op.mode, tgt[t].auth)
                /\ op' = [op EXCEPT !.cur = t, !.rev = queue[t].rev]
                /\ tgt' = [tgt EXCEPT ![t].queued = queue[t].n > 0]
                /\ Goto("check")
             \/ Settle(t, "retry") /\ Done(t, "dispatch", "observe")
    /\ TargetStep

(* The task at hand is finished with.                                      *)
Leave(t) == /\ op' = [op EXCEPT !.todo = IF @ = {t} THEN op.ids ELSE @ \ {t},
                                !.cur = None, !.rev = 0, !.entry = None, !.reply = 0]
            /\ Goto(IF op.todo = {t} THEN "observe" ELSE "dispatch")

(* Mutant: the rollout is not read again after the owner was found.        *)
CheckQueueOnly ==
    /\ pc = "check"
    /\ LET t == op.cur
       IN IF queue[t].rev = op.rev THEN Goto("mark") /\ UNCHANGED <<op, tgt>>
          ELSE Settle(t, "retry") /\ Leave(t)
    /\ UNCHANGED <<taskVars, sessionVars, inflight, manifest, mem, history>>

(* revalidate_after_owner and revalidate_after_banner_gate                 *)
Check ==
    /\ pc = "check"
    /\ LET t == op.cur
       IN \/ /\ queue[t].rev = op.rev /\ Readable(t)
             /\ tgt' = [tgt EXCEPT ![t] = Polled(t)]
             /\ ~Read(t).started
             /\ Eligible(State(t), queue[t].n, op.mode, tgt[t].auth)
             /\ Goto("mark") /\ UNCHANGED op
          \/ /\ queue[t].rev = op.rev /\ Readable(t) /\ Read(t).started
             /\ tgt' = [tgt EXCEPT ![t] = Polled(t)]
             /\ Leave(t)
          \/ Settle(t, "retry") /\ Leave(t)
    /\ UNCHANGED <<taskVars, sessionVars, inflight, manifest, mem, history>>

SameIdentity == desktop = "on" /\ op.mine /\ acct = op.acct

(* Mutant: the entry is consumed under any account.                        *)
MarkUnbound ==
    /\ pc = "mark"
    /\ LET t == op.cur
       IN /\ manifest[t] # None
          /\ manifest' = [manifest EXCEPT ![t] = None]
          /\ op' = [op EXCEPT !.entry = manifest[t]]
          /\ Goto("confirm") /\ UNCHANGED tgt
    /\ UNCHANGED <<taskVars, sessionVars, inflight, mem, history>>

(* mark_dispatch_attempt: the durable entry is consumed before anything    *)
(* can leave for Desktop; whatever refuses or fails leaves it in place.    *)
Mark ==
    /\ pc = "mark"
    /\ LET t == op.cur
           e == manifest[t]
       IN \/ /\ e # None /\ SameIdentity
             /\ op.mode # "explicit" =>
                   /\ e.auth # None /\ e.auth.confirmed =>
                         Binding = e.auth.to /\ StillCurrent(t, e.auth, e.off)
                   /\ e.awaiting => Binding # None /\ e.owner = Binding
             /\ manifest' = [manifest EXCEPT ![t] = None]
             /\ op' = [op EXCEPT !.entry = e]
             /\ Goto("confirm") /\ UNCHANGED tgt
          \/ /\ Settle(t, "retry") /\ Leave(t)
             /\ UNCHANGED manifest
    /\ UNCHANGED <<taskVars, sessionVars, inflight, mem, history>>

(* Mutant: the entry is not put back when the identity has changed.        *)
ConfirmOnce ==
    /\ pc = "confirm"
    /\ LET t == op.cur
       IN IF SameIdentity
          THEN /\ tgt' = [tgt EXCEPT ![t].sent = TRUE]
               /\ Goto("send") /\ UNCHANGED op
          ELSE Settle(t, "retry") /\ Leave(t)
    /\ UNCHANGED <<taskVars, sessionVars, inflight, manifest, mem, history>>

(* mark_and_confirm, after the entry was consumed                          *)
Confirm ==
    /\ pc = "confirm"
    /\ LET t == op.cur
       IN IF SameIdentity
          THEN /\ tgt' = [tgt EXCEPT ![t].sent = TRUE]
               /\ Goto("send") /\ UNCHANGED <<op, manifest>>
          ELSE /\ manifest' = [manifest EXCEPT ![t] = op.entry]
               /\ Settle(t, "retry") /\ Leave(t)
    /\ UNCHANGED <<taskVars, sessionVars, inflight, mem, history>>

(* resume_interrupted_turn, or resume_existing_queue: the request leaves   *)
(* for Desktop, and whether it arrives is not known.                       *)
Send ==
    /\ pc = "send"
    /\ inflight' = IF desktop = "on" THEN inflight \union {op.cur} ELSE inflight
    /\ asked' = asked \union {op.cur}
    /\ owed' = owed \ {op.cur}
    /\ Goto("await")
    /\ UNCHANGED <<taskVars, sessionVars, manifest, op, tgt, mem, resumed>>

(* Mutant: a request that was not answered is put back for another try.    *)
AwaitRetried ==
    /\ pc = "await"
    /\ LET t == op.cur
       IN IF op.reply # 0
          THEN tgt' = [tgt EXCEPT ![t].expected = op.reply] /\ UNCHANGED manifest
          ELSE /\ tgt' = [tgt EXCEPT ![t].sent = FALSE, ![t].outcome = "retry"]
               /\ manifest' = [manifest EXCEPT ![t] = op.entry]
    /\ Leave(op.cur)
    /\ UNCHANGED <<taskVars, sessionVars, inflight, mem, history>>

(* The answer names the turn that started; that of a woken queue names     *)
(* none.  Without an answer the task is given up, never asked again.       *)
Await ==
    /\ pc = "await"
    /\ \/ tgt[op.cur].queued /\ UNCHANGED tgt
       \/ /\ ~tgt[op.cur].queued /\ op.reply # 0
          /\ tgt' = [tgt EXCEPT ![op.cur].expected = op.reply]
       \/ Settle(op.cur, "failed")
    /\ Leave(op.cur)
    /\ UNCHANGED <<taskVars, sessionVars, inflight, manifest, mem, history>>

Pending == {t \in op.ids : tgt[t].outcome = "open"}

(* One poll of a task until it is proved, refuted or out of time; an open  *)
(* task was sent a request or started a turn, so it has a deadline.        *)
Observe(t) ==
    /\ pc = "observe" /\ t \in Pending
    /\ IF ~Readable(t) THEN Settle(t, "failed")
       ELSE \/ /\ Verified(Read(t), ExpectedTurn(t)) /\ ~Refuted(t)
               /\ tgt' = [tgt EXCEPT ![t] = [Polled(t) EXCEPT !.outcome = "completed"]]
            \/ tgt' = [tgt EXCEPT ![t] = [Polled(t) EXCEPT !.outcome = "failed"]]
            \/ /\ Polled(t) # tgt[t] /\ ~Refuted(t)
               /\ tgt' = [tgt EXCEPT ![t] = Polled(t)]
    /\ UNCHANGED <<op, pc, taskVars, sessionVars, inflight, manifest, mem, history>>

(* Mutant: a task that waits does not say for which account.               *)
FinalizedOwnerless(t) ==
    IF t \notin op.ids THEN mem[t]
    ELSE IF tgt[t].outcome = "skipped" THEN None
    ELSE IF t \in op.claimed /\ ~tgt[t].sent THEN mem[t]
    ELSE IF tgt[t].outcome = "retry" THEN [mem[t] EXCEPT !.awaiting = TRUE]
    ELSE None

(* finalize_target: an explicit claim leaves the entry as it was, a task   *)
(* that could not be asked waits for this account's Desktop, any other is  *)
(* done with.                                                              *)
Finalized(t) ==
    IF t \notin op.ids THEN mem[t]
    ELSE IF tgt[t].outcome = "skipped" THEN None
    ELSE IF t \in op.claimed /\ ~tgt[t].sent THEN mem[t]
    ELSE IF tgt[t].outcome = "retry"
         THEN [mem[t] EXCEPT !.awaiting = TRUE, !.owner = op.acct]
    ELSE None

(* The journal the operation kept in memory is pruned and written.  A      *)
(* rollout that changes under the pass, or a queue that cannot be read,    *)
(* defers the pruning; a task whose rollout says nothing loses its entry.  *)
Finalize ==
    /\ pc \in {"finalize", "observe"} /\ Pending = {}
    /\ LET final == [t \in Tasks |-> Finalized(t)]
           probes == IF Awaiting(final) = {} THEN {None} ELSE Awaiting(final)
       IN \/ \E probe \in probes, blind \in Blind :
                /\ manifest' = Prune(final, probe, blind)
                /\ owed' = owed \ (Entered(Prune(final, probe, {})) \ Entered(manifest'))
          \/ manifest' = final /\ UNCHANGED owed
    /\ Return
    /\ UNCHANGED <<taskVars, sessionVars, inflight, asked, resumed>>

DispatchStep == Check \/ Mark \/ Confirm \/ Send \/ Await

TargetSteps == \E t \in Tasks : Prepare(t) \/ Scan(t) \/ Dispatch(t) \/ Observe(t)

OperationStep == RestartStep \/ Begin \/ NoChannel \/ TargetSteps \/ DispatchStep \/ Finalize

-----------------------------------------------------------------------------
(* A crash, Desktop, the user and other programs                           *)

Recording(t, kind, turn) ==
    /\ Len(log[t]) < MaxLog
    /\ log' = [log EXCEPT ![t] = Append(@, Record(kind, turn))]

TurnStarts(t) ==
    /\ desktop = "on" /\ running[t] = 0
    /\ Recording(t, "start", Len(log[t]) + 1)
    /\ running' = [running EXCEPT ![t] = Len(log[t]) + 1]
    /\ owed' = owed \ {t} /\ resumed' = resumed \union {t}

(* The process ends; the journal and the requests sent remain.  A restart  *)
(* worker that starts again finds its claim and exits.                     *)
Crash ==
    /\ pc # "idle"
    /\ Return
    /\ owed' = IF pc \in {"confirm", "send"} THEN owed \ {op.cur} ELSE owed
    /\ UNCHANGED <<taskVars, sessionVars, inflight, manifest, asked, resumed>>

(* The code cannot exclude two races, it keeps them short: between the     *)
(* last check and the send, and between an exit and the second checkpoint. *)
Unhurried(steps) == Race \/ pc \notin steps

(* The user, or Desktop going on with its queue, starts a turn.            *)
UserStart(t) ==
    /\ Unhurried({"mark", "confirm", "send"})
    /\ TurnStarts(t)
    /\ \/ UNCHANGED queue
       \/ /\ queue[t].n = 1
          /\ queue' = [queue EXCEPT ![t] = [n |-> 0, rev |-> @.rev + 1]]
    /\ UNCHANGED <<sessionVars, inflight, manifest, opVars, asked>>

Work(t) ==
    /\ running[t] # 0 /\ log[t][Len(log[t])].kind # "work"
    /\ Recording(t, "work", running[t])
    /\ UNCHANGED <<running, queue, sessionVars, inflight, manifest, opVars, history>>

(* It ends by itself, by the quota, by an error, or by the user.           *)
TurnEnds(t) ==
    /\ running[t] # 0
    /\ \E kind \in Ends : Recording(t, kind, running[t])
    /\ running' = [running EXCEPT ![t] = 0]
    /\ resumed' = resumed \ {t}
    /\ owed' = {u \in owed : State(u)' \in Resumable}
    /\ UNCHANGED <<queue, sessionVars, inflight, manifest, opVars, asked>>

UserQueues(t) ==
    /\ Unhurried({"mark", "confirm", "send"})
    /\ desktop = "on" /\ queue[t].n = 0 /\ queue[t].rev + 1 < MaxRevision
    /\ queue' = [queue EXCEPT ![t] = [n |-> 1, rev |-> @.rev + 1]]
    /\ UNCHANGED <<log, running, sessionVars, inflight, manifest, opVars, history>>

(* A request arrives, in time for the operation that waits or later.       *)
Deliver(t) ==
    /\ Unhurried({"mark", "confirm", "send"})
    /\ t \in inflight
    /\ TurnStarts(t)
    /\ inflight' = inflight \ {t}
    /\ queue' = IF queue[t].n = 0 THEN queue
                ELSE [queue EXCEPT ![t] = [n |-> 0, rev |-> @.rev + 1]]
    /\ IF pc = "await" /\ op.cur = t
       THEN op' \in {op, [op EXCEPT !.reply = Len(log[t]) + 1]} ELSE UNCHANGED op
    /\ UNCHANGED <<sessionVars, manifest, pc, tgt, mem, asked>>

(* ... or is refused, or lost.                                             *)
Lose(t) ==
    /\ t \in inflight
    /\ inflight' = inflight \ {t}
    /\ UNCHANGED <<taskVars, sessionVars, manifest, opVars, history>>

UserQuits ==
    /\ Unhurried({"send"})
    /\ desktop = "on"
    /\ DesktopEnds({"abort"}, {})
    /\ op' = [op EXCEPT !.mine = FALSE]
    /\ UNCHANGED <<queue, acct, manifest, pc, tgt, mem, asked>>

(* The daemon records the account of a Desktop it saw launched.            *)
UserLaunches ==
    /\ Unhurried({"checkpoint", "confirmRotation"})
    /\ desktop = "off"
    /\ desktop' = "on" /\ bound' \in {None, acct}
    /\ UNCHANGED <<taskVars, acct, inflight, manifest, opVars, history>>

(* Any program that writes auth.json without the operation lock.  It is    *)
(* taken where the operation looks at the account next.                    *)
Login(a) ==
    /\ pc \in {"idle", "switch", "launch", "begin", "mark", "confirm"} \union
                (IF Race THEN {"send"} ELSE {})
    /\ a # acct /\ acct' = a
    /\ UNCHANGED <<taskVars, desktop, bound, inflight, manifest, opVars, history>>

Environment ==
    \/ Crash \/ UserQuits \/ UserLaunches
    \/ \E a \in Accounts : Login(a)
    \/ \E t \in Tasks : \/ UserStart(t) \/ Work(t) \/ TurnEnds(t) \/ UserQueues(t)
                       \/ Deliver(t) \/ Lose(t)

Requests ==
    \/ \E to \in Accounts, rotates \in BOOLEAN : StartRestart(to, rotates)
    \/ \E t \in Tasks : Resume(t) \/ Probe(t)
    \/ Discover

Next == OperationStep \/ Requests \/ Environment

Spec == Init /\ [][Next]_vars

-----------------------------------------------------------------------------
(* Properties                                                              *)

(* Whatever crashes, the next process can read the journal and serve each  *)
(* entry of it (manifest_validation.rs).                                   *)
JournalServable == \A t \in Entered(manifest) : WellFormed(manifest[t])

(* The journal, the operation and the session hold what the code can put   *)
(* there, and the journal can be served: the type invariant.               *)
TypeOK ==
    /\ log \in [Tasks -> Seq([kind : Kinds, turn : 1..MaxLog])]
    /\ \A t \in Tasks : Len(log[t]) \in 1..MaxLog
    /\ running \in [Tasks -> 0..MaxLog] /\ queue \in [Tasks -> Queues]
    /\ desktop \in {"on", "off"} /\ acct \in Accounts /\ bound \in Maybe(Accounts)
    /\ inflight \subseteq Tasks
    /\ manifest \in Manifests /\ mem \in Manifests
    /\ JournalServable
    /\ op \in Operations /\ tgt \in [Tasks -> Targets]
    /\ owed \subseteq Tasks /\ asked \subseteq Tasks /\ resumed \subseteq Tasks

(* A request to continue a task may have reached Desktop although it was   *)
(* lost or never answered.  From then on no journal entry is left that     *)
(* would send a second one, whatever crashes: only a new interruption or   *)
(* the user brings one back (target_dispatch.rs, mark_dispatch_attempt).   *)
RequestConsumesCheckpoint ==
    \A t \in asked : manifest[t] = None /\ ~(pc \in {"confirm", "send"} /\ op.cur = t)

(* A task that an operation undertook to continue, that neither ran again  *)
(* nor was asked, and that no restart or pruning since failed to read, is  *)
(* still in the journal after any failure or crash.  (README: the journal  *)
(* survives a killed worker.)  Where a reading fails, the code drops the   *)
(* entry without an error (manifest_prune_service.rs:164), and the         *)
(* task is no longer in `owed`.                                            *)
InterruptedRecorded ==
    \A t \in owed :
        running[t] = 0 =>
            manifest[t] # None \/ (pc \in {"confirm", "send"} /\ op.cur = t)

(* An unattended request leaves only under the account its entry waits     *)
(* for, or whose login interrupted it, and for the very process that was   *)
(* verified, although logins and restarts race with the operation.         *)
BoundDispatch ==
    pc = "send" /\ op.mode # "explicit" =>
        /\ desktop = "on" /\ op.mine /\ acct = op.acct
        /\ op.entry.awaiting => op.entry.owner = acct /\ bound = acct
        /\ op.entry.auth # None /\ op.entry.auth.confirmed => op.entry.auth.to = acct

(* No request is sent unasked into a turn that began after the task's      *)
(* checkpoint, whoever began it: the user, Desktop itself, or an earlier   *)
(* request that was answered late (target_dispatch.rs, revalidation).      *)
NoTakeover == pc = "send" /\ op.mode # "explicit" => running[op.cur] <= op.entry.off

(* The same, counted from where a restart or the user last named the task, *)
(* wherever the checkpoint was moved to since (README.md, "it cannot       *)
(* duplicate or stop a task the user already resumed").                    *)
ResumedLeftAlone == pc = "send" /\ op.mode # "explicit" => op.cur \notin resumed

(* Evidence is incremental, forgets and ignores; what is reported as       *)
(* verified is what the rollout says when it is read as a whole: a turn    *)
(* that started after the checkpoint, the one that was asked for where it  *)
(* is known, is the last to start, has worked, and has not failed.         *)
Proved(l, from, to, expected) ==
    \E s \in Starts(l) :
        /\ s > from /\ expected \in {0, s}
        /\ \A i \in s + 1 .. to : i \notin Starts(l)
        /\ \E i \in s + 1 .. to : l[i].kind = "work"
        /\ \A i \in s + 1 .. to : l[i].kind \in {"abort", "quota", "error"} => l[i].turn # s

VerifiedTruth ==
    \A t \in op.ids : tgt[t].outcome = "completed" =>
        Proved(log[t], tgt[t].base, tgt[t].seen, tgt[t].expected)

=============================================================================
