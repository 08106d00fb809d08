------------------------- MODULE TaskRecoveryProofs -------------------------
(***************************************************************************)
(* Proofs about TaskRecovery for every set of tasks and accounts, every    *)
(* bound and every command.                                                *)
(***************************************************************************)
EXTENDS TaskRecovery, SequenceTheorems, WellFoundedInduction, TLAPS

(* The types.  What the polls of a rollout leave in a target is typed at the*)
(* end, together with what they tell (TargetsInv); here it is only a record.*)
Records == [kind : Kinds, turn : 1..MaxLog]

TasksTyped ==
    /\ log \in [Tasks -> Seq(Records)]
    /\ \A t \in Tasks : Len(log[t]) \in 1..MaxLog
    /\ running \in [Tasks -> 0..MaxLog]
    /\ queue \in [Tasks -> Queues]
    /\ \A t \in Tasks : queue[t].n = 1 => queue[t].rev < MaxRevision

SessionTyped ==
    /\ desktop \in {"on", "off"} /\ acct \in Accounts /\ bound \in Maybe(Accounts)

TargetTyped(r) ==
    /\ r = [base |-> r.base, seen |-> r.seen, state |-> r.state, queued |-> r.queued,
            auth |-> r.auth, outcome |-> r.outcome, sent |-> r.sent,
            expected |-> r.expected]
    /\ r.sent \in BOOLEAN

OperationTyped ==
    /\ op \in Operations
    /\ tgt = [t \in Tasks |-> tgt[t]]
    /\ \A t \in Tasks : TargetTyped(tgt[t])
    /\ mem \in Manifests

HistoryTyped == asked \subseteq Tasks

TypeInv == TasksTyped /\ SessionTyped /\ OperationTyped /\ manifest \in Manifests /\ HistoryTyped

-----------------------------------------------------------------------------
(* The inductive invariant                                                 *)

(* A restart knows the account it ends with.                               *)
Aimed ==
    pc \in {"prepareRotation", "stop", "checkpoint", "confirmRotation", "switch"} =>
        op.to \in Accounts

(* Before Desktop is signalled the journal can still be put back.          *)
RollBackSafe ==
    pc \in {"prepareRotation", "stop"} => asked \intersect Entered(mem) = {}

(* A recovery that keeps the checkpoints it finds, finds them.             *)
Covered ==
    \/ pc \in {"confirmRotation", "switch", "launch"}
    \/ pc = "begin" /\ PreservesCheckpoint(op.mode)
    => op.ids \subseteq Entered(manifest)

AtTask == {"check", "mark", "confirm", "send", "await"}
Looping == {"prepare", "scan", "dispatch"} \union AtTask
Recovering == Looping \union {"observe", "finalize"}

(* The journal in memory would not bring back an entry of a task that was  *)
(* asked: it has none, or the task counts as sent, not as to be retried.   *)
Accounted ==
    pc \in Recovering =>
        /\ op.acct \in Accounts /\ op.ids \subseteq Entered(mem)
        /\ \A t \in asked : IF t \in op.ids
                            THEN tgt[t].sent /\ tgt[t].outcome # "retry"
                            ELSE mem[t] = None

(* A task is asked while it is the one at hand and never met again.        *)
NotYetAsked ==
    /\ pc \in Looping => op.todo \subseteq op.ids
    /\ pc \in {"prepare", "scan"} => asked \intersect op.ids = {}
    /\ pc \in Looping \ {"await"} => asked \intersect op.todo = {}
    /\ pc = "await" => asked \intersect op.todo \subseteq {op.cur}

AtHand ==
    /\ pc \in AtTask => op.cur \in op.todo /\ tgt[op.cur].outcome # "retry"
    /\ pc \in {"send", "await"} => tgt[op.cur].sent
    /\ pc \in {"confirm", "send"} => manifest[op.cur] = None /\ op.entry \in Entries

(* Every entry can be served, in the journal, in memory, or consumed; the  *)
(* evidence of a rotation is given to entries of a restart only.           *)
Served ==
    /\ JournalServable
    /\ \A t \in Entered(mem) : WellFormed(mem[t])
    /\ pc \in {"confirm", "send"} => WellFormed(op.entry)
    /\ pc = "prepareRotation" =>
          \A t \in Entered(manifest) : manifest[t].awaiting \/ manifest[t].captured
    /\ pc = "confirmRotation" =>
          \A t \in Entered(manifest) : manifest[t] = mem[t] \/ manifest[t].captured

Control == Aimed /\ RollBackSafe /\ Covered /\ Accounted /\ NotYetAsked /\ AtHand

IInv == TypeInv /\ RequestConsumesCheckpoint /\ Control /\ Served

-----------------------------------------------------------------------------
(* What the journal's helpers return                                       *)

(* A new entry is well typed and can be served.                            *)
LEMMA FreshEntry ==
    ASSUME TasksTyped, NEW t \in Tasks
    PROVE  /\ Fresh(t) \in Entries /\ Fresh(t) # None /\ WellFormed(Fresh(t))
           /\ ~Fresh(t).awaiting /\ Fresh(t).captured
<1>1. Len(log[t]) \in 0..MaxLog
  BY DEF TasksTyped
<1>2. Fresh(t) \in Entries
  BY <1>1 DEF Fresh, Entries, Maybe
<1>. QED
  BY <1>2, NoEntryAssumption DEF Fresh, WellFormed

(* An entry that save_pending leaves is an older retry, as it was, or new; *)
(* every task that is saved has one.                                       *)
LEMMA SavedEntries ==
    ASSUME TasksTyped, manifest \in Manifests, NEW ids \in SUBSET Tasks, NEW blind
    PROVE  /\ Saved(ids, blind) \in Manifests
           /\ ids \subseteq Entered(Saved(ids, blind))
           /\ \A t \in Entered(Saved(ids, blind)) :
                 \/ t \in ids /\ Saved(ids, blind)[t] = Fresh(t)
                 \/ t \in Awaiting(manifest) /\ Saved(ids, blind)[t] = manifest[t]
<1>1. \A t \in Tasks : \/ Saved(ids, blind)[t] = None /\ t \notin ids
                       \/ t \in ids /\ Saved(ids, blind)[t] = Fresh(t)
                       \/ t \in Awaiting(manifest) /\ Saved(ids, blind)[t] = manifest[t]
  BY DEF Saved
<1>2. \A t \in Tasks : Saved(ids, blind)[t] \in Maybe(Entries)
  BY <1>1, FreshEntry DEF Manifests, Maybe
<1>3. Saved(ids, blind) \in Manifests
  BY <1>2 DEF Saved, Manifests
<1>4. ids \subseteq Entered(Saved(ids, blind))
  BY <1>1, FreshEntry DEF Entered, Awaiting
<1>. QED
  BY <1>1, <1>3, <1>4 DEF Entered

(* A detection finds tasks, and misses none that it finds.                 *)
LEMMA DetectionsFind ==
    ASSUME NEW detection \in Detections
    PROVE  /\ detection.found \subseteq Tasks \ Awaiting(manifest)
           /\ \E mounted : detection.missed = Detected(mounted, TRUE, {}) \ detection.found
<1>1. PICK mounted, readable, blind : detection = Detection(mounted, readable, blind)
  BY DEF Detections
<1>. QED
  BY <1>1 DEF Detection, Detected

(* What a reading says of a task is what its rollout says, or nothing.     *)
LEMMA InspectionSays == ASSUME NEW t, NEW blind PROVE Inspected(t, blind) \in {State(t), "unknown"}
  BY DEF Inspected, InspectedState, State

(* Pruning only removes entries.                                           *)
LEMMA PruneRemoves ==
    ASSUME NEW m \in Manifests, NEW probe, NEW blind
    PROVE  /\ Prune(m, probe, blind) \in Manifests
           /\ \A t \in Tasks : Prune(m, probe, blind)[t] \in {None, m[t]}
<1>1. \A t \in Tasks : Prune(m, probe, blind)[t] \in {None, m[t]}
  BY DEF Prune
<1>2. \A t \in Tasks : Prune(m, probe, blind)[t] \in Maybe(Entries)
  BY <1>1 DEF Manifests, Maybe
<1>. QED
  BY <1>1, <1>2 DEF Prune, Manifests

(* The first checkpoint of a recovery covers all its tasks and no other.   *)
LEMMA CheckpointEntries ==
    ASSUME TasksTyped, manifest \in Manifests, op \in Operations
    PROVE  /\ Checkpointed \in Manifests
           /\ op.ids \subseteq Entered(Checkpointed)
           /\ \A t \in Tasks \ op.ids : Checkpointed[t] = manifest[t]
           /\ JournalServable => \A t \in Entered(Checkpointed) : WellFormed(Checkpointed[t])
<1>. DEFINE new(t) == [Fresh(t) EXCEPT !.captured = op.mode = "captured"]
            moved(t) == [manifest[t] EXCEPT !.off = Len(log[t])]
<1>1. \A t \in Tasks : new(t) \in Entries /\ WellFormed(new(t))
  BY FreshEntry DEF Fresh, WellFormed, Entries
<1>2. ASSUME NEW t \in Tasks, manifest[t] # None
      PROVE  /\ moved(t) \in Entries
             /\ WellFormed(manifest[t]) => WellFormed(moved(t))
  <2>1. manifest[t] \in Entries /\ Len(log[t]) \in 0..MaxLog
    BY <1>2 DEF Manifests, Maybe, TasksTyped
  <2>. QED
    BY <2>1 DEF Entries, WellFormed
<1>3. \A t \in Tasks : \/ t \notin op.ids /\ Checkpointed[t] = manifest[t]
                       \/ t \in op.ids /\ Checkpointed[t] = new(t)
                       \/ /\ t \in op.ids /\ manifest[t] # None
                          /\ Checkpointed[t] \in {manifest[t], moved(t)}
  BY DEF Checkpointed
<1>. HIDE DEF new, moved
<1>4. \A t \in Tasks : Checkpointed[t] \in Maybe(Entries)
  BY <1>1, <1>2, <1>3 DEF Manifests, Maybe
<1>5. Checkpointed \in Manifests
  BY <1>4 DEF Checkpointed, Manifests
<1>6. op.ids \subseteq Entered(Checkpointed)
  BY <1>1, <1>2, <1>3, NoEntryAssumption DEF Entered, Operations
<1>7. JournalServable => \A t \in Entered(Checkpointed) : WellFormed(Checkpointed[t])
  BY <1>1, <1>2, <1>3 DEF Entered, JournalServable
<1>. QED
  BY <1>3, <1>5, <1>6, <1>7

(* The turn a rollout leaves running is one of its records.                *)
LEMMA ActiveTurnBound ==
    ASSUME TasksTyped, NEW t \in Tasks, ActiveTurn(log[t]) # 0
    PROVE  ActiveTurn(log[t]) \in 1..MaxLog
<1>. DEFINE open == {i \in Starts(log[t]) :
                        \A j \in i + 1 .. Len(log[t]) : log[t][j].kind = "work"}
<1>1. ActiveTurn(log[t]) = IF open = {} THEN 0 ELSE CHOOSE i \in open : TRUE
  BY DEF ActiveTurn
<1>2. DOMAIN log[t] = 1..Len(log[t]) /\ Len(log[t]) \in 1..MaxLog
  BY DEF TasksTyped
<1>3. open \subseteq 1..MaxLog
  BY <1>2, RecoveryAssumption DEF Starts
<1>. HIDE DEF open
<1>. QED
  BY <1>1, <1>3

-----------------------------------------------------------------------------
(* Tasks and session                                                       *)

(* A record is added to a rollout only where there is room for it.         *)
LEMMA RecordingTyped ==
    ASSUME TasksTyped, NEW t \in Tasks, NEW kind \in Kinds, NEW turn \in 1..MaxLog,
           Recording(t, kind, turn)
    PROVE  /\ log' \in [Tasks -> Seq(Records)]
           /\ \A u \in Tasks : Len(log'[u]) \in 1..MaxLog
<1>1. Record(kind, turn) \in Records
  BY DEF Record, Records
<1>2. log[t] \in Seq(Records) /\ Len(log[t]) \in 1..MaxLog /\ Len(log[t]) < MaxLog
  BY DEF TasksTyped, Recording
<1>3. /\ Append(log[t], Record(kind, turn)) \in Seq(Records)
      /\ Len(Append(log[t], Record(kind, turn))) = Len(log[t]) + 1
  BY <1>1, <1>2, AppendProperties
<1>4. log' = [log EXCEPT ![t] = Append(log[t], Record(kind, turn))]
  BY DEF Recording
<1>. QED
  BY <1>2, <1>3, <1>4, RecoveryAssumption DEF TasksTyped

(* A turn starts with a record that names it.                              *)
LEMMA TurnStartsTyped ==
    ASSUME TasksTyped, NEW t \in Tasks, TurnStarts(t)
    PROVE  /\ log' \in [Tasks -> Seq(Records)]
           /\ \A u \in Tasks : Len(log'[u]) \in 1..MaxLog
           /\ running' \in [Tasks -> 0..MaxLog]
           /\ Len(log[t]) + 1 \in 1..MaxLog
<1>1. Len(log[t]) \in 1..MaxLog /\ Len(log[t]) < MaxLog
  BY DEF TasksTyped, TurnStarts, Recording
<1>2. Len(log[t]) + 1 \in 1..MaxLog
  BY <1>1, RecoveryAssumption
<1>3. Recording(t, "start", Len(log[t]) + 1)
  BY DEF TurnStarts
<1>4. running' \in [Tasks -> 0..MaxLog]
  BY <1>2 DEF TurnStarts, TasksTyped
<1>. QED
  BY <1>2, <1>3, <1>4, RecordingTyped DEF Kinds

(* The turns of a Desktop that ends leave well-typed rollouts.             *)
LEMMA EndsTyped ==
    ASSUME TasksTyped, NEW kinds \in SUBSET Kinds, NEW stopped,
           DesktopEnds(kinds, stopped), UNCHANGED queue
    PROVE  TasksTyped'
<1>1. PICK f \in Flushed(kinds) :
         log' = [t \in Tasks |->
                    IF f[t] = <<>> THEN log[t]
                    ELSE Append(log[t], Record(f[t][1], running[t]))]
  BY DEF DesktopEnds
<1>2. ASSUME NEW t \in Tasks
      PROVE  log'[t] \in Seq(Records) /\ Len(log'[t]) \in 1..MaxLog
  <2>1. log[t] \in Seq(Records) /\ Len(log[t]) \in 1..MaxLog
    BY DEF TasksTyped
  <2>2. CASE f[t] = <<>>
    BY <1>1, <2>1, <2>2
  <2>3. CASE f[t] # <<>>
    <3>1. f[t][1] \in Kinds /\ running[t] \in 1..MaxLog /\ Len(log[t]) < MaxLog
      <4>1. PICK kind \in kinds : f[t] = <<kind>>
        BY <2>3 DEF Flushed
      <4>2. running[t] # 0 /\ Len(log[t]) < MaxLog
        BY <2>3 DEF Flushed
      <4>3. running[t] \in 1..MaxLog
        BY <4>2 DEF TasksTyped
      <4>. QED
        BY <4>1, <4>2, <4>3
    <3>2. Record(f[t][1], running[t]) \in Records
      BY <3>1 DEF Record, Records
    <3>3. /\ Append(log[t], Record(f[t][1], running[t])) \in Seq(Records)
          /\ Len(Append(log[t], Record(f[t][1], running[t]))) = Len(log[t]) + 1
      BY <2>1, <3>2, AppendProperties
    <3>. QED
      BY <1>1, <2>1, <2>3, <3>1, <3>3, RecoveryAssumption
  <2>. QED
    BY <2>2, <2>3
<1>3. running' \in [Tasks -> 0..MaxLog]
  BY RecoveryAssumption DEF DesktopEnds
<1>. QED
  BY <1>1, <1>2, <1>3 DEF TasksTyped

(* A step of one task keeps the tasks' types.                              *)
LEMMA TaskStepsTyped ==
    ASSUME TasksTyped, NEW t \in Tasks,
           UserStart(t) \/ Work(t) \/ TurnEnds(t) \/ UserQueues(t) \/ Deliver(t)
    PROVE  TasksTyped'
<1>1. queue[t] \in Queues /\ (queue[t].n = 1 => queue[t].rev < MaxRevision)
  BY DEF TasksTyped
<1>. DEFINE consumed == [n |-> 0, rev |-> queue[t].rev + 1]
<1>2. queue[t].n = 1 => consumed \in Queues
  BY <1>1, RecoveryAssumption DEF Queues
<1>3. ASSUME queue[t].n = 1, queue' = [queue EXCEPT ![t] = consumed]
      PROVE  /\ queue' \in [Tasks -> Queues]
             /\ \A u \in Tasks : queue'[u].n = 1 => queue'[u].rev < MaxRevision
  BY <1>2, <1>3 DEF TasksTyped
<1>4. CASE UserStart(t)
  <2>1. UNCHANGED queue \/ (queue[t].n = 1 /\ queue' = [queue EXCEPT ![t] = consumed])
    BY <1>4 DEF UserStart
  <2>. QED
    BY <1>3, <1>4, <2>1, TurnStartsTyped DEF UserStart, TasksTyped
<1>5. CASE Deliver(t)
  <2>1. UNCHANGED queue \/ (queue[t].n = 1 /\ queue' = [queue EXCEPT ![t] = consumed])
    BY <1>1, <1>5 DEF Deliver, Queues
  <2>. QED
    BY <1>3, <1>5, <2>1, TurnStartsTyped DEF Deliver, TasksTyped
<1>6. CASE Work(t)
  <2>1. running[t] \in 1..MaxLog
    BY <1>6 DEF Work, TasksTyped
  <2>. QED
    BY <1>6, <2>1, RecordingTyped DEF Work, TasksTyped, Kinds
<1>7. CASE TurnEnds(t)
  <2>1. PICK kind \in Ends : Recording(t, kind, running[t])
    BY <1>7 DEF TurnEnds
  <2>2. running[t] \in 1..MaxLog
    BY <1>7 DEF TurnEnds, TasksTyped
  <2>3. running' \in [Tasks -> 0..MaxLog]
    BY <1>7, RecoveryAssumption DEF TurnEnds, TasksTyped
  <2>. QED
    BY <1>7, <2>1, <2>2, <2>3, RecordingTyped DEF TurnEnds, TasksTyped, Kinds
<1>8. CASE UserQueues(t)
  <2>1. queue' = [queue EXCEPT ![t] = [n |-> 1, rev |-> queue[t].rev + 1]]
    BY <1>8 DEF UserQueues
  <2>2. queue[t].rev + 1 \in 0..MaxRevision /\ queue[t].rev + 1 < MaxRevision
    BY <1>1, <1>8, RecoveryAssumption DEF UserQueues, Queues
  <2>3. [n |-> 1, rev |-> queue[t].rev + 1] \in Queues
    BY <2>2 DEF Queues
  <2>. QED
    BY <1>8, <2>1, <2>2, <2>3 DEF UserQueues, TasksTyped
<1>. QED
  BY <1>4, <1>5, <1>6, <1>7, <1>8

(* Every step keeps the types of the tasks ...                             *)
LEMMA TasksKept ==
    ASSUME TypeInv, Next
    PROVE  TasksTyped'
<1>. USE DEF TypeInv
<1>1. UNCHANGED taskVars => TasksTyped'
  BY DEF taskVars, TasksTyped
<1>2. CASE OperationStep
  <2>1. CASE Stop
    <3>1. DesktopEnds({"abort", "error"}, op.ids \ Awaiting(manifest)) => TasksTyped'
      BY <2>1, EndsTyped DEF Stop, Kinds, Ends
    <3>. QED
      BY <1>1, <2>1, <3>1 DEF Stop, taskVars
  <2>2. CASE RestartStep /\ ~Stop
    BY <1>1, <2>2 DEF RestartStep, PrepareRotation, RollBack, Checkpoint, Relaunch,
       ConfirmRotation, Switch, Launch, taskVars
  <2>3. CASE Begin \/ NoChannel \/ Finalize
    BY <1>1, <2>3 DEF Begin, NoChannel, Finalize
  <2>4. CASE TargetSteps \/ DispatchStep
    BY <1>1, <2>4 DEF TargetSteps, Prepare, Scan, Dispatch, TargetStep, Observe,
       DispatchStep, Check, Mark, Confirm, Send, Await
  <2>. QED
    BY <1>2, <2>1, <2>2, <2>3, <2>4 DEF OperationStep
<1>3. CASE Requests
  BY <1>1, <1>3 DEF Requests, StartRestart, Resume, Probe, Discover
<1>4. CASE Environment
  <2>1. CASE UserQuits
    BY <2>1, EndsTyped DEF UserQuits, Kinds, Ends
  <2>2. CASE Crash \/ UserLaunches \/ \E a \in Accounts : Login(a)
    BY <1>1, <2>2 DEF Crash, UserLaunches, Login
  <2>3. CASE \E t \in Tasks : Lose(t)
    BY <1>1, <2>3 DEF Lose
  <2>4. CASE \E t \in Tasks : \/ UserStart(t) \/ Work(t) \/ TurnEnds(t)
                              \/ UserQueues(t) \/ Deliver(t)
    BY <2>4, TaskStepsTyped
  <2>. QED
    BY <1>4, <2>1, <2>2, <2>3, <2>4 DEF Environment
<1>. QED
  BY <1>2, <1>3, <1>4 DEF Next

(* ... and of the session.                                                 *)
LEMMA SessionKept ==
    ASSUME TypeInv, Aimed, Next
    PROVE  SessionTyped'
<1>. USE DEF TypeInv, SessionTyped, Maybe
<1>1. UNCHANGED sessionVars => SessionTyped'
  BY DEF sessionVars
<1>2. CASE OperationStep
  <2>1. CASE RestartStep
    <3>1. CASE Relaunch
      BY <3>1 DEF Relaunch
    <3>2. CASE Launch
      BY <3>2 DEF Launch
    <3>3. CASE Switch /\ ~Relaunch
      BY <3>3 DEF Switch, Aimed
    <3>4. CASE Stop
      BY <3>4 DEF Stop, DesktopEnds
    <3>. QED
      BY <1>1, <2>1, <3>1, <3>2, <3>3, <3>4 DEF RestartStep, PrepareRotation, RollBack,
         Checkpoint, ConfirmRotation, Switch
  <2>2. CASE Begin \/ NoChannel \/ Finalize
    BY <1>1, <2>2 DEF Begin, NoChannel, Finalize
  <2>3. CASE TargetSteps \/ DispatchStep
    BY <1>1, <2>3 DEF TargetSteps, Prepare, Scan, Dispatch, TargetStep, Observe,
       DispatchStep, Check, Mark, Confirm, Send, Await
  <2>. QED
    BY <1>2, <2>1, <2>2, <2>3 DEF OperationStep
<1>3. CASE Requests
  BY <1>1, <1>3 DEF Requests, StartRestart, Resume, Probe, Discover, StartRecovery,
     sessionVars
<1>4. CASE Environment
  <2>1. CASE Crash \/ UserQuits \/ UserLaunches \/ \E a \in Accounts : Login(a)
    BY <1>1, <2>1 DEF Crash, UserQuits, DesktopEnds, UserLaunches, Login
  <2>2. CASE \E t \in Tasks : \/ UserStart(t) \/ Work(t) \/ TurnEnds(t)
                              \/ UserQueues(t) \/ Deliver(t) \/ Lose(t)
    BY <1>1, <2>2 DEF UserStart, Work, TurnEnds, UserQueues, Deliver, Lose
  <2>. QED
    BY <1>4, <2>1, <2>2 DEF Environment
<1>. QED
  BY <1>2, <1>3, <1>4 DEF Next

-----------------------------------------------------------------------------
(* The operation and the journal                                           *)

Kept == /\ OperationTyped /\ manifest \in Manifests /\ HistoryTyped
        /\ RequestConsumesCheckpoint /\ Control /\ Served

(* The locals of an operation that has not begun.                          *)
LEMMA NoOpTyped == NoOp \in Operations
  BY RecoveryAssumption DEF NoOp, Operations, Modes, Maybe

LEMMA NoManifestTyped == NoManifest \in Manifests /\ Entered(NoManifest) = {}
  BY DEF NoManifest, Manifests, Maybe, Entered

LEMMA NoTargetsTyped ==
    /\ NoTargets = [t \in Tasks |-> NoTargets[t]]
    /\ \A t \in Tasks : TargetTyped(NoTargets[t])
  BY DEF NoTargets, NoTarget, TargetTyped

(* The end of an operation leaves nothing but the journal.                 *)
LEMMA ReturnKept ==
    ASSUME Return, manifest' \in Manifests, HistoryTyped', JournalServable',
           \A t \in asked' : manifest'[t] = None
    PROVE  Kept'
<1>1. OperationTyped'
  BY NoOpTyped, NoManifestTyped, NoTargetsTyped DEF Return, OperationTyped, TargetTyped
<1>2. Control'
  BY DEF Return, Control, Aimed, RollBackSafe, Covered, Accounted, NotYetAsked, AtHand,
     Recovering, Looping, AtTask
<1>3. Served'
  BY NoManifestTyped DEF Return, Served
<1>4. RequestConsumesCheckpoint'
  BY DEF Return, RequestConsumesCheckpoint
<1>. QED
  BY <1>1, <1>2, <1>3, <1>4 DEF Kept

(* What a checkpoint of a restart leaves of the older entries and of the   *)
(* tasks that were asked.                                                  *)
LEMMA SavedKept ==
    ASSUME TasksTyped, manifest \in Manifests, HistoryTyped, RequestConsumesCheckpoint,
           JournalServable, NEW ids \in SUBSET Tasks, NEW blind,
           manifest' = Saved(ids, blind),
           asked' = asked \ {t \in ids : manifest'[t] = Fresh(t)}
    PROVE  /\ manifest' \in Manifests /\ HistoryTyped' /\ JournalServable'
           /\ \A t \in asked' : manifest'[t] = None
           /\ ids \subseteq Entered(manifest')
           /\ \A t \in Entered(manifest') :
                 \/ manifest'[t].captured
                 \/ manifest'[t] = manifest[t] /\ manifest[t].awaiting
<1>1. /\ manifest' \in Manifests
      /\ ids \subseteq Entered(manifest')
      /\ \A t \in Entered(manifest') :
            \/ t \in ids /\ manifest'[t] = Fresh(t)
            \/ t \in Awaiting(manifest) /\ manifest'[t] = manifest[t]
  BY SavedEntries
<1>2. HistoryTyped'
  BY DEF HistoryTyped
<1>3. \A t \in asked' : manifest'[t] = None
  BY <1>1, <1>2 DEF HistoryTyped, RequestConsumesCheckpoint, Awaiting, Entered
<1>4. \A t \in Entered(manifest') : WellFormed(manifest'[t])
  BY <1>1, FreshEntry DEF JournalServable, Awaiting, Entered
<1>5. \A t \in Entered(manifest') :
         \/ manifest'[t].captured
         \/ manifest'[t] = manifest[t] /\ manifest[t].awaiting
  BY <1>1, FreshEntry DEF Awaiting, Entered
<1>6. JournalServable'
  BY <1>4 DEF JournalServable
<1>. QED
  BY <1>1, <1>2, <1>3, <1>5, <1>6

(* The first checkpoint of a restart.                                      *)
LEMMA StartRestartKept ==
    ASSUME IInv, NEW to \in Accounts, NEW rotates \in BOOLEAN,
           StartRestart(to, rotates)
    PROVE  Kept'
<1>. USE DEF IInv, TypeInv
<1>1. PICK detection \in Detections, primary \in Maybe(Tasks), blind \in Blind :
         LET ids == detection.found \union ({primary} \ {None})
         IN /\ op' = [NoOp EXCEPT !.ids = ids, !.from = acct, !.to = to,
                                  !.rotates = rotates, !.mine = TRUE,
                                  !.revs = [t \in Tasks |->
                                              IF rotates THEN queue[t].rev ELSE 0]]
            /\ manifest' = Saved(ids, blind)
            /\ Named({t \in ids : manifest'[t] = Fresh(t)})
  BY DEF StartRestart
<1>. DEFINE ids == detection.found \union ({primary} \ {None})
            revs == [t \in Tasks |-> IF rotates THEN queue[t].rev ELSE 0]
<1>2. ids \in SUBSET Tasks
  BY DetectionsFind DEF Maybe
<1>3. revs \in [Tasks -> 0..MaxRevision]
  BY RecoveryAssumption DEF TasksTyped, Queues
<1>. HIDE DEF ids, revs
<1>4. op' = [NoOp EXCEPT !.ids = ids, !.from = acct, !.to = to, !.rotates = rotates,
                         !.mine = TRUE, !.revs = revs]
  BY <1>1 DEF ids, revs
<1>5. op' \in Operations /\ op'.to \in Accounts /\ op'.ids = ids
  BY <1>2, <1>3, <1>4, NoOpTyped DEF Operations, SessionTyped, Maybe
<1>6. manifest' = Saved(ids, blind) /\ asked' = asked \ {t \in ids : manifest'[t] = Fresh(t)}
  BY <1>1 DEF ids, Named
<1>7. /\ manifest' \in Manifests /\ HistoryTyped' /\ JournalServable'
      /\ \A t \in asked' : manifest'[t] = None
      /\ \A t \in Entered(manifest') :
            \/ manifest'[t].captured
            \/ manifest'[t] = manifest[t] /\ manifest[t].awaiting
  BY <1>2, <1>6, SavedKept DEF Served
<1>8. mem' = manifest /\ pc' \in {"prepareRotation", "stop"} /\ UNCHANGED tgt
  BY DEF StartRestart, Goto
<1>9. OperationTyped'
  BY <1>5, <1>8 DEF OperationTyped, TargetTyped
<1>10. Control'
  BY <1>5, <1>6, <1>8 DEF Control, Aimed, RollBackSafe, Covered, Accounted, NotYetAsked,
     AtHand, Recovering, Looping, AtTask, RequestConsumesCheckpoint, Entered
<1>11. Served'
  BY <1>7, <1>8 DEF Served, JournalServable
<1>12. RequestConsumesCheckpoint'
  BY <1>7, <1>8 DEF RequestConsumesCheckpoint
<1>. QED
  BY <1>7, <1>9, <1>10, <1>11, <1>12 DEF Kept

(* What a rotation remembers is added to entries that stay as they are.    *)
LEMMA PrepareRotationEntries ==
    ASSUME IInv, PrepareRotation, NEW t \in Tasks
    PROVE  \/ manifest'[t] = manifest[t]
           \/ /\ manifest[t] # None /\ ~manifest[t].awaiting
              /\ manifest'[t] \in Entries /\ WellFormed(manifest'[t])
              /\ manifest'[t].captured /\ ~manifest'[t].awaiting
              /\ manifest'[t].off = manifest[t].off
<1>. USE DEF IInv, TypeInv
<1>. DEFINE turn == ActiveTurn(log[t])
            evidence == [to |-> op.to, turn |-> turn, from |-> Len(log[t]),
                         rev |-> op.revs[t], confirmed |-> FALSE]
            entry == [manifest[t] EXCEPT !.auth = evidence]
<1>1. \/ manifest'[t] = manifest[t]
      \/ /\ manifest'[t] = entry /\ turn # 0
         /\ manifest[t] # None /\ ~manifest[t].awaiting
  BY DEF PrepareRotation
<1>2. ASSUME turn # 0, manifest[t] # None, ~manifest[t].awaiting
      PROVE  /\ entry \in Entries /\ WellFormed(entry) /\ entry.captured
             /\ ~entry.awaiting /\ entry.off = manifest[t].off
  <2>1. manifest[t] \in Entries /\ WellFormed(manifest[t]) /\ manifest[t].captured
    BY <1>2 DEF Manifests, Maybe, Served, JournalServable, Entered, PrepareRotation
  <2>2. evidence \in Rotations
    BY <1>2, ActiveTurnBound
       DEF PrepareRotation, Control, Aimed, Rotations, TasksTyped, OperationTyped, Operations
  <2>. HIDE DEF evidence
  <2>. QED
    BY <1>2, <2>1, <2>2 DEF Entries, Maybe, WellFormed
<1>. QED
  BY <1>1, <1>2

(* A confirmation too changes nothing else of an entry.                    *)
LEMMA ConfirmRotationEntries ==
    ASSUME IInv, ConfirmRotation, NEW t \in Tasks
    PROVE  \/ manifest'[t] = manifest[t]
           \/ /\ manifest[t] # None
              /\ manifest'[t] \in Entries /\ WellFormed(manifest'[t])
              /\ manifest'[t].awaiting = manifest[t].awaiting
              /\ manifest'[t].off = manifest[t].off
<1>. USE DEF IInv, TypeInv
<1>1. CASE UNCHANGED manifest
  BY <1>1
<1>2. CASE ~UNCHANGED manifest
  <2>. DEFINE rotation == IF t \in op.ids /\ mem[t] # None THEN mem[t].auth ELSE None
              entry == [manifest[t] EXCEPT !.auth = [rotation EXCEPT !.confirmed = TRUE]]
  <2>1. \/ manifest'[t] = manifest[t]
        \/ manifest'[t] = entry /\ rotation # None /\ manifest[t] # None
    BY <1>2 DEF ConfirmRotation
  <2>2. ASSUME rotation # None, manifest[t] # None
        PROVE  /\ entry \in Entries /\ WellFormed(entry)
               /\ entry.awaiting = manifest[t].awaiting /\ entry.off = manifest[t].off
    <3>1. mem[t] # None /\ rotation = mem[t].auth
      BY <2>2
    <3>2. mem[t] \in Entries /\ manifest[t] \in Entries
      BY <2>2, <3>1 DEF OperationTyped, Manifests, Maybe
    <3>3. mem[t].captured
      BY <2>2, <3>1 DEF Served, WellFormed, Entered
    <3>4. manifest[t].captured /\ WellFormed(manifest[t])
      BY <2>2, <3>3 DEF Served, JournalServable, Entered, ConfirmRotation
    <3>5. rotation \in Rotations
      BY <2>2, <3>1, <3>2 DEF Entries, Maybe
    <3>6. [rotation EXCEPT !.confirmed = TRUE] \in Rotations
      BY <3>5 DEF Rotations
    <3>. HIDE DEF rotation
    <3>. QED
      BY <3>2, <3>4, <3>6 DEF Entries, Maybe, WellFormed
  <2>. QED
    BY <2>1, <2>2
<1>. QED
  BY <1>1, <1>2

(* The turn of a task is remembered; no entry comes or goes.               *)
LEMMA PrepareRotationKept ==
    ASSUME IInv, PrepareRotation
    PROVE  Kept'
<1>. USE DEF IInv, TypeInv
<1>1. \A t \in Tasks :
         \/ manifest'[t] = manifest[t]
         \/ /\ manifest'[t] \in Entries /\ WellFormed(manifest'[t])
            /\ manifest'[t].captured /\ manifest[t] # None
  BY PrepareRotationEntries
<1>2. \A t \in Tasks : manifest'[t] \in Maybe(Entries)
  BY <1>1 DEF Manifests, Maybe
<1>3. manifest' \in Manifests
  BY <1>2 DEF PrepareRotation, Manifests
<1>4. Entered(manifest') \subseteq Entered(manifest)
  BY <1>1 DEF Entered
<1>5. JournalServable'
  BY <1>1 DEF Entered, JournalServable, Served
<1>6. pc = "prepareRotation" /\ pc' = "stop" /\ UNCHANGED <<op, tgt, mem, history>>
  BY DEF PrepareRotation, Goto
<1>7. OperationTyped' /\ HistoryTyped'
  BY <1>6 DEF OperationTyped, TargetTyped, HistoryTyped, history
<1>8. Control'
  BY <1>6 DEF Control, Aimed, RollBackSafe, Covered, Accounted, NotYetAsked,
     AtHand, Recovering, Looping, AtTask, history
<1>9. Served'
  BY <1>5, <1>6 DEF Served
<1>10. RequestConsumesCheckpoint'
  BY <1>4, <1>6 DEF RequestConsumesCheckpoint, Entered, history, HistoryTyped
<1>. QED
  BY <1>3, <1>7, <1>8, <1>9, <1>10 DEF Kept

(* Before the signal the journal of before returns, after it the operation *)
(* goes on or ends.                                                        *)
LEMMA StopKept ==
    ASSUME IInv, RollBack \/ Stop
    PROVE  Kept'
<1>. USE DEF IInv, TypeInv
<1>1. CASE RollBack
  <2>1. manifest' = mem /\ asked' = asked /\ \A t \in asked : mem[t] = None
    BY <1>1 DEF RollBack, history, Control, RollBackSafe, Entered, HistoryTyped
  <2>2. manifest' \in Manifests /\ HistoryTyped' /\ JournalServable'
    BY <2>1 DEF OperationTyped, HistoryTyped, JournalServable, Served
  <2>. QED
    BY <1>1, <2>1, <2>2, ReturnKept DEF RollBack
<1>2. CASE Stop
  <2>1. UNCHANGED <<manifest, asked>> /\ pc = "stop"
    BY <1>2 DEF Stop
  <2>2. CASE Return
    BY <2>1, <2>2, ReturnKept DEF HistoryTyped, JournalServable, Served,
       RequestConsumesCheckpoint
  <2>3. CASE /\ op' = [op EXCEPT !.mine = FALSE] /\ mem' = NoManifest
             /\ pc' = "checkpoint" /\ UNCHANGED tgt
    <3>1. op' \in Operations /\ op'.to = op.to
      BY <2>3 DEF OperationTyped, Operations
    <3>2. OperationTyped' /\ HistoryTyped'
      BY <2>1, <2>3, <3>1, NoManifestTyped DEF OperationTyped, TargetTyped, HistoryTyped
    <3>3. Control'
      BY <2>1, <2>3, <3>1 DEF Control, Aimed, RollBackSafe, Covered, Accounted,
         NotYetAsked, AtHand, Recovering, Looping, AtTask
    <3>4. Served' /\ RequestConsumesCheckpoint'
      BY <2>1, <2>3, NoManifestTyped DEF Served, JournalServable, RequestConsumesCheckpoint
    <3>. QED
      BY <2>1, <3>2, <3>3, <3>4 DEF Kept
  <2>. QED
    BY <1>2, <2>2, <2>3 DEF Stop, Goto
<1>. QED
  BY <1>1, <1>2

(* The second checkpoint; the operation goes on, or brings Desktop back.   *)
LEMMA CheckpointKept ==
    ASSUME IInv, Checkpoint
    PROVE  Kept'
<1>. USE DEF IInv, TypeInv
<1>1. /\ op.ids \in SUBSET Tasks
      /\ asked' = asked \ {t \in op.ids : manifest'[t] = Fresh(t)}
      /\ pc = "checkpoint"
  BY DEF Checkpoint, Named, OperationTyped, Operations
<1>2. CASE manifest' = manifest /\ Return
  BY <1>1, <1>2, ReturnKept DEF HistoryTyped, JournalServable, Served,
     RequestConsumesCheckpoint
<1>3. CASE \E blind \in Blind : manifest' = Saved(op.ids, blind)
  <2>1. /\ manifest' \in Manifests /\ HistoryTyped' /\ JournalServable'
        /\ \A t \in asked' : manifest'[t] = None
        /\ op.ids \subseteq Entered(manifest')
        /\ \A t \in Entered(manifest') :
              manifest'[t].captured \/ manifest'[t] = manifest[t]
    BY <1>1, <1>3, SavedKept DEF Served
  <2>2. CASE Return
    BY <2>1, <2>2, ReturnKept
  <2>3. CASE /\ mem' = manifest /\ UNCHANGED <<op, tgt>>
             /\ pc' \in {"confirmRotation", "switch"}
    <3>1. OperationTyped'
      BY <2>3 DEF OperationTyped, TargetTyped
    <3>2. Control'
      BY <1>1, <2>1, <2>3 DEF Control, Aimed, RollBackSafe, Covered, Accounted,
         NotYetAsked, AtHand, Recovering, Looping, AtTask
    <3>3. Served' /\ RequestConsumesCheckpoint'
      BY <2>1, <2>3 DEF Served, JournalServable, RequestConsumesCheckpoint
    <3>. QED
      BY <2>1, <3>1, <3>2, <3>3 DEF Kept
  <2>. QED
    BY <2>2, <2>3 DEF Checkpoint, Relaunch, Goto
<1>. QED
  BY <1>2, <1>3 DEF Checkpoint, Relaunch

(* Evidence of the rotation goes to entries of the restart alone.          *)
LEMMA ConfirmRotationKept ==
    ASSUME IInv, ConfirmRotation
    PROVE  Kept'
<1>. USE DEF IInv, TypeInv
<1>1. pc = "confirmRotation" /\ UNCHANGED asked
  BY DEF ConfirmRotation, history
<1>2. CASE UNCHANGED manifest /\ Return
  BY <1>1, <1>2, ReturnKept DEF HistoryTyped, JournalServable, Served,
     RequestConsumesCheckpoint
<1>3. CASE ~(UNCHANGED manifest /\ Return)
  <2>1. \A t \in Tasks :
           \/ manifest'[t] = manifest[t]
           \/ /\ manifest'[t] \in Entries /\ WellFormed(manifest'[t])
              /\ manifest'[t].awaiting = manifest[t].awaiting /\ manifest[t] # None
    BY ConfirmRotationEntries
  <2>2. manifest' = [t \in Tasks |-> manifest'[t]]
    BY <1>3 DEF ConfirmRotation, Relaunch
  <2>3. \A t \in Tasks : manifest'[t] \in Maybe(Entries)
    BY <2>1 DEF Manifests, Maybe
  <2>4. manifest' \in Manifests
    BY <2>2, <2>3 DEF Manifests
  <2>5. Entered(manifest') = Entered(manifest)
    BY <2>1, NoEntryAssumption DEF Entered
  <2>6. JournalServable'
    BY <1>1, <2>1 DEF Entered, JournalServable, Served
  <2>7. mem' = NoManifest /\ pc' = "switch" /\ UNCHANGED <<op, tgt>>
    BY <1>3 DEF ConfirmRotation, Relaunch, Goto
  <2>8. OperationTyped' /\ HistoryTyped'
    BY <1>1, <2>7, NoManifestTyped DEF OperationTyped, TargetTyped, HistoryTyped
  <2>9. Control'
    BY <1>1, <2>5, <2>7 DEF Control, Aimed, RollBackSafe, Covered, Accounted, NotYetAsked,
       AtHand, Recovering, Looping, AtTask
  <2>10. Served'
    BY <2>6, <2>7, NoManifestTyped DEF Served
  <2>11. RequestConsumesCheckpoint'
    BY <1>1, <2>5, <2>7 DEF RequestConsumesCheckpoint, Entered, HistoryTyped
  <2>. QED
    BY <2>4, <2>8, <2>9, <2>10, <2>11 DEF Kept
<1>. QED
  BY <1>2, <1>3

(* The switch and the launch leave the journal to the recovery.            *)
LEMMA LaunchKept ==
    ASSUME IInv, Switch \/ Launch
    PROVE  Kept'
<1>. USE DEF IInv, TypeInv
<1>1. UNCHANGED <<manifest, asked>> /\ pc \in {"switch", "launch"}
  BY DEF Switch, Launch, history
<1>2. JournalServable' /\ HistoryTyped'
  BY <1>1 DEF JournalServable, Served, HistoryTyped
<1>3. CASE Return
  BY <1>1, <1>2, <1>3, ReturnKept DEF RequestConsumesCheckpoint
<1>4. CASE /\ pc' = "launch" /\ mem' = NoManifest /\ UNCHANGED <<op, tgt>>
  <2>1. OperationTyped'
    BY <1>4, NoManifestTyped DEF OperationTyped, TargetTyped
  <2>2. Control'
    BY <1>1, <1>4 DEF Control, Aimed, RollBackSafe, Covered, Accounted,
       NotYetAsked, AtHand, Recovering, Looping, AtTask
  <2>3. Served' /\ RequestConsumesCheckpoint'
    BY <1>1, <1>2, <1>4, NoManifestTyped DEF Served, RequestConsumesCheckpoint
  <2>. QED
    BY <1>1, <1>2, <2>1, <2>2, <2>3 DEF Kept
<1>5. CASE /\ op' = [NoOp EXCEPT !.ids = op.ids, !.mine = TRUE]
           /\ pc' = "begin" /\ UNCHANGED <<tgt, mem>>
  <2>1. op' \in Operations /\ op'.ids = op.ids
    BY <1>5, NoOpTyped DEF OperationTyped, Operations
  <2>2. OperationTyped'
    BY <1>5, <2>1 DEF OperationTyped, TargetTyped
  <2>3. Control'
    BY <1>1, <1>5, <2>1 DEF Control, Aimed, RollBackSafe, Covered, Accounted,
       NotYetAsked, AtHand, Recovering, Looping, AtTask
  <2>4. Served' /\ RequestConsumesCheckpoint'
    BY <1>1, <1>2, <1>5 DEF Served, RequestConsumesCheckpoint
  <2>. QED
    BY <1>1, <1>2, <2>2, <2>3, <2>4 DEF Kept
<1>. QED
  BY <1>3, <1>4, <1>5 DEF Switch, Launch, Relaunch, Goto

(* An operation that starts with a recovery.                               *)
LEMMA StartRecoveryKept ==
    ASSUME IInv, NEW mode \in Modes, NEW ids \in SUBSET Tasks, StartRecovery(mode, ids),
           PreservesCheckpoint(mode) => ids \subseteq Entered(manifest),
           UNCHANGED <<manifest, tgt, mem, history>>
    PROVE  Kept'
<1>. USE DEF IInv, TypeInv
<1>1. pc' = "begin" /\ op' = [NoOp EXCEPT !.mode = mode, !.ids = ids, !.mine = TRUE]
  BY DEF StartRecovery, Goto
<1>2. op' \in Operations /\ op'.ids = ids /\ op'.mode = mode
  BY <1>1, NoOpTyped DEF Operations
<1>3. OperationTyped' /\ HistoryTyped'
  BY <1>2 DEF OperationTyped, TargetTyped, HistoryTyped, history
<1>4. Control'
  BY <1>1, <1>2 DEF Control, Aimed, RollBackSafe, Covered, Accounted,
     NotYetAsked, AtHand, Recovering, Looping, AtTask
<1>5. Served' /\ RequestConsumesCheckpoint'
  BY <1>1 DEF Served, JournalServable, RequestConsumesCheckpoint, history
<1>. QED
  BY <1>3, <1>4, <1>5 DEF Kept

(* The requests that are no restart.                                       *)
LEMMA RequestsKept ==
    ASSUME IInv, Requests
    PROVE  Kept'
<1>. USE DEF IInv, TypeInv
<1>1. ASSUME NEW t \in Tasks, Resume(t) PROVE Kept'
  BY <1>1, StartRecoveryKept DEF Resume, Modes, PreservesCheckpoint, Deferred
<1>2. CASE Discover
  <2>1. PICK ids \in SUBSET Tasks : StartRecovery("discovered", ids)
    BY <1>2, DetectionsFind DEF Discover
  <2>. QED
    BY <1>2, <2>1, StartRecoveryKept
       DEF Discover, Modes, PreservesCheckpoint, Deferred
<1>3. ASSUME NEW t \in Tasks, Probe(t) PROVE Kept'
  <2>1. t \in Entered(manifest)
    BY <1>3 DEF Probe, Awaiting
  <2>2. CASE UNCHANGED manifest /\ pc' = "begin"
    <3>1. PICK mode \in Deferred : StartRecovery(mode, {t})
      BY <1>3, <2>2 DEF Probe, Deferred
    <3>. QED
      BY <1>3, <2>1, <2>2, <3>1, StartRecoveryKept DEF Probe, Modes, Deferred
  <2>3. CASE manifest' = [manifest EXCEPT ![t] = None] /\ UNCHANGED <<pc, op>>
    <3>1. UNCHANGED <<pc, op, tgt, mem, asked>> /\ pc = "idle"
      BY <1>3, <2>3 DEF Probe, history
    <3>2. manifest' \in Manifests /\ \A u \in Tasks : manifest'[u] \in {None, manifest[u]}
      BY <2>3 DEF Manifests, Maybe
    <3>3. OperationTyped' /\ HistoryTyped'
      BY <3>1 DEF OperationTyped, TargetTyped, HistoryTyped
    <3>4. Control'
      BY <3>1 DEF Control, Aimed, RollBackSafe, Covered, Accounted,
         NotYetAsked, AtHand, Recovering, Looping, AtTask
    <3>5. Served'
      BY <3>1, <3>2 DEF Served, JournalServable, Entered
    <3>6. RequestConsumesCheckpoint'
      BY <3>1, <3>2 DEF RequestConsumesCheckpoint, HistoryTyped
    <3>. QED
      BY <3>2, <3>3, <3>4, <3>5, <3>6 DEF Kept
  <2>. QED
    BY <1>3, <2>2, <2>3 DEF Probe, StartRecovery, Goto
<1>4. CASE \E to \in Accounts, rotates \in BOOLEAN : StartRestart(to, rotates)
  BY <1>4, StartRestartKept
<1>. QED
  BY <1>1, <1>2, <1>3, <1>4 DEF Requests

-----------------------------------------------------------------------------
(* recover_threads                                                         *)

(* Reading a task keeps what was sent to it ...                            *)
LEMMA PolledTyped ==
    ASSUME OperationTyped, NEW t \in Tasks
    PROVE  /\ TargetTyped(Polled(t)) /\ Polled(t).sent = tgt[t].sent
           /\ Polled(t).outcome \in {"open", "failed"}
<1>. DEFINE r == tgt[t]
            outcome == IF Refuted(t) THEN "failed" ELSE "open"
<1>1. TargetTyped(r)
  BY DEF OperationTyped
<1>2. Polled(t) = [r EXCEPT !.seen = Len(log[t]), !.expected = ExpectedTurn(t),
                            !.outcome = outcome]
  BY DEF Polled
<1>3. outcome \in {"open", "failed"}
  OBVIOUS
<1>. HIDE DEF r, outcome
<1>4. Polled(t) = [base |-> r.base, seen |-> Len(log[t]), state |-> r.state,
                   queued |-> r.queued, auth |-> r.auth, outcome |-> outcome,
                   sent |-> r.sent, expected |-> ExpectedTurn(t)]
  BY <1>1, <1>2 DEF TargetTyped
<1>5. TargetTyped(Polled(t))
  BY <1>1, <1>4 DEF TargetTyped
<1>. QED
  BY <1>3, <1>4, <1>5 DEF r

(* ... and so does settling it.                                            *)
LEMMA SettleTyped ==
    ASSUME OperationTyped, NEW t \in Tasks, NEW outcome, Settle(t, outcome)
    PROVE  /\ tgt' = [tgt EXCEPT ![t] = tgt'[t]]
           /\ TargetTyped(tgt'[t]) /\ tgt'[t].sent = tgt[t].sent
           /\ tgt'[t].outcome = outcome
<1>1. PICK r : r = [NoTarget EXCEPT !.outcome = outcome, !.sent = tgt[t].sent]
  OBVIOUS
<1>2. TargetTyped(NoTarget) /\ tgt[t].sent \in BOOLEAN
  BY DEF OperationTyped, NoTarget, TargetTyped
<1>3. r = [base |-> NoTarget.base, seen |-> NoTarget.seen, state |-> NoTarget.state,
           queued |-> NoTarget.queued, auth |-> NoTarget.auth, outcome |-> outcome,
           sent |-> tgt[t].sent, expected |-> NoTarget.expected]
  BY <1>1, <1>2 DEF TargetTyped
<1>4. TargetTyped(r) /\ r.sent = tgt[t].sent /\ r.outcome = outcome
  BY <1>2, <1>3 DEF TargetTyped
<1>5. tgt' = [tgt EXCEPT ![t] = r]
  BY <1>1 DEF Settle
<1>6. tgt'[t] = r
  BY <1>5 DEF OperationTyped
<1>. QED
  BY <1>4, <1>5, <1>6

(* What changes in one target keeps the others.                            *)
LEMMA OneTarget ==
    ASSUME OperationTyped, NEW t \in Tasks, NEW r, TargetTyped(r),
           tgt' = [tgt EXCEPT ![t] = r]
    PROVE  /\ tgt' = [u \in Tasks |-> tgt'[u]] /\ \A u \in Tasks : TargetTyped(tgt'[u])
           /\ tgt'[t] = r /\ \A u \in Tasks \ {t} : tgt'[u] = tgt[u]
  BY DEF OperationTyped

(* The checkpoint of a recovery; afterwards none of its tasks was asked.   *)
LEMMA BeginKept ==
    ASSUME IInv, Begin
    PROVE  Kept'
<1>. USE DEF IInv, TypeInv
<1>1. CASE Return /\ UNCHANGED <<manifest, history>>
  BY <1>1, ReturnKept DEF HistoryTyped, JournalServable, Served, history,
     RequestConsumesCheckpoint
<1>2. CASE ~(Return /\ UNCHANGED <<manifest, history>>)
  <2>1. /\ pc = "begin" /\ manifest' = Checkpointed /\ mem' = Checkpointed
        /\ op' = [op EXCEPT !.acct = acct, !.claimed = Claims, !.todo = op.ids]
        /\ tgt' = [t \in Tasks |->
                      IF t \in op.ids
                      THEN [NoTarget EXCEPT !.base = View(t), !.seen = View(t)]
                      ELSE NoTarget]
        /\ pc' = IF op.ids = {} THEN "finalize" ELSE "prepare"
        /\ \/ PreservesCheckpoint(op.mode) /\ UNCHANGED asked
           \/ asked' = asked \ op.ids
    BY <1>2 DEF Begin, Goto, Named, history
  <2>2. /\ Checkpointed \in Manifests /\ op.ids \subseteq Entered(Checkpointed)
        /\ \A t \in Tasks \ op.ids : Checkpointed[t] = manifest[t]
        /\ \A t \in Entered(Checkpointed) : WellFormed(Checkpointed[t])
    BY CheckpointEntries DEF OperationTyped, Served
  <2>3. op.ids \subseteq Tasks /\ Claims \subseteq Tasks
    BY DEF OperationTyped, Operations, Claims
  <2>4. /\ op' \in Operations /\ op'.acct \in Accounts
        /\ op'.ids = op.ids /\ op'.todo = op.ids
    BY <2>1, <2>3 DEF OperationTyped, Operations, SessionTyped, Maybe
  <2>5. \A t \in Tasks : TargetTyped(tgt'[t])
    BY <2>1 DEF NoTarget, TargetTyped
  <2>6. OperationTyped' /\ HistoryTyped'
    BY <2>1, <2>2, <2>4, <2>5 DEF OperationTyped, HistoryTyped
  <2>7. asked' \intersect op.ids = {} /\ asked' \subseteq asked
    BY <2>1, <2>3 DEF Control, Covered, RequestConsumesCheckpoint, Entered
  <2>8. \A t \in asked' : manifest'[t] = None
    BY <2>1, <2>2, <2>7 DEF RequestConsumesCheckpoint, HistoryTyped
  <2>9. Control'
    BY <2>1, <2>2, <2>4, <2>7, <2>8 DEF Control, Aimed, RollBackSafe, Covered, Accounted,
       NotYetAsked, AtHand, Recovering, Looping, AtTask
  <2>10. Served' /\ RequestConsumesCheckpoint'
    BY <2>1, <2>2, <2>8 DEF Served, JournalServable, RequestConsumesCheckpoint
  <2>. QED
    BY <2>1, <2>2, <2>6, <2>9, <2>10 DEF Kept
<1>. QED
  BY <1>1, <1>2

(* A step of one of the loops over the tasks leaves it to the next task,   *)
(* or to the next loop.                                                    *)
LEMMA LoopKept ==
    ASSUME IInv, NEW t \in Tasks, t \in op.todo, TargetStep,
           NEW r, TargetTyped(r), tgt' = [tgt EXCEPT ![t] = r],
           \/ pc = "prepare" /\ Done(t, "prepare", "scan")
           \/ pc = "scan" /\ Done(t, "scan", "dispatch")
           \/ pc = "dispatch" /\ Done(t, "dispatch", "observe")
    PROVE  Kept'
<1>. USE DEF IInv, TypeInv
<1>1. UNCHANGED <<manifest, mem, asked>>
  BY DEF TargetStep, history
<1>2. /\ op' = [op EXCEPT !.todo = IF op.todo = {t} THEN op.ids ELSE op.todo \ {t}]
      /\ \/ pc' = pc /\ pc \in {"prepare", "scan", "dispatch"} /\ op.todo # {t}
         \/ pc = "prepare" /\ pc' = "scan"
         \/ pc = "scan" /\ pc' = "dispatch"
         \/ pc = "dispatch" /\ pc' = "observe"
  BY DEF Done, Goto
<1>3. op \in Operations /\ op.ids \subseteq Tasks /\ op.todo \subseteq op.ids
  BY DEF OperationTyped, Operations, Control, NotYetAsked, Looping
<1>4. /\ op' \in Operations /\ op'.ids = op.ids /\ op'.acct = op.acct
      /\ op'.todo = IF op.todo = {t} THEN op.ids ELSE op.todo \ {t}
  BY <1>2, <1>3 DEF Operations
<1>5. OperationTyped' /\ HistoryTyped'
  BY <1>1, <1>4, OneTarget DEF OperationTyped, HistoryTyped
<1>6. t \notin asked /\ \A u \in asked : tgt'[u] = tgt[u]
  BY OneTarget DEF Control, NotYetAsked, Looping, HistoryTyped
<1>7. Control'
  BY <1>1, <1>2, <1>3, <1>4, <1>6 DEF Control, Aimed, RollBackSafe, Covered, Accounted,
     NotYetAsked, AtHand, Recovering, Looping, AtTask
<1>8. Served' /\ RequestConsumesCheckpoint'
  BY <1>1, <1>2 DEF Served, JournalServable, RequestConsumesCheckpoint
<1>. QED
  BY <1>1, <1>5, <1>7, <1>8 DEF Kept

(* A target stays one when a field other than the sent mark is set.        *)
LEMMA FieldTyped ==
    ASSUME NEW r, TargetTyped(r), NEW x, NEW y, NEW z
    PROVE  /\ TargetTyped([r EXCEPT !.outcome = x])
           /\ [r EXCEPT !.outcome = x].outcome = x
           /\ [r EXCEPT !.outcome = x].sent = r.sent
           /\ TargetTyped([r EXCEPT !.queued = x])
           /\ TargetTyped([r EXCEPT !.expected = x])
           /\ TargetTyped([r EXCEPT !.state = x, !.auth = y, !.queued = z])
<1>1. ASSUME NEW q, q = [r EXCEPT !.outcome = x]
      PROVE  TargetTyped(q) /\ q.outcome = x /\ q.sent = r.sent
  <2>1. q = [base |-> r.base, seen |-> r.seen, state |-> r.state, queued |-> r.queued,
             auth |-> r.auth, outcome |-> x, sent |-> r.sent, expected |-> r.expected]
    BY <1>1 DEF TargetTyped
  <2>. QED
    BY <2>1 DEF TargetTyped
<1>2. ASSUME NEW q, q = [r EXCEPT !.queued = x] PROVE TargetTyped(q)
  <2>1. q = [base |-> r.base, seen |-> r.seen, state |-> r.state, queued |-> x,
             auth |-> r.auth, outcome |-> r.outcome, sent |-> r.sent,
             expected |-> r.expected]
    BY <1>2 DEF TargetTyped
  <2>. QED
    BY <2>1 DEF TargetTyped
<1>3. ASSUME NEW q, q = [r EXCEPT !.expected = x] PROVE TargetTyped(q)
  <2>1. q = [base |-> r.base, seen |-> r.seen, state |-> r.state, queued |-> r.queued,
             auth |-> r.auth, outcome |-> r.outcome, sent |-> r.sent, expected |-> x]
    BY <1>3 DEF TargetTyped
  <2>. QED
    BY <2>1 DEF TargetTyped
<1>4. ASSUME NEW q, q = [r EXCEPT !.state = x, !.auth = y, !.queued = z]
      PROVE  TargetTyped(q)
  <2>1. q = [base |-> r.base, seen |-> r.seen, state |-> x, queued |-> z,
             auth |-> y, outcome |-> r.outcome, sent |-> r.sent, expected |-> r.expected]
    BY <1>4 DEF TargetTyped
  <2>. QED
    BY <2>1 DEF TargetTyped
<1>. QED
  BY <1>1, <1>2, <1>3, <1>4

(* The three loops.                                                        *)
LEMMA PrepareScanKept ==
    ASSUME IInv, NEW t \in Tasks, Prepare(t) \/ Scan(t)
    PROVE  Kept'
<1>1. OperationTyped /\ TargetTyped(tgt[t]) /\ tgt = [tgt EXCEPT ![t] = tgt[t]]
  BY DEF IInv, TypeInv, OperationTyped
<1>2. TargetTyped(Polled(t))
  BY <1>1, PolledTyped
<1>3. ASSUME NEW outcome, Settle(t, outcome)
      PROVE  \E r : TargetTyped(r) /\ tgt' = [tgt EXCEPT ![t] = r]
  BY <1>1, <1>3, SettleTyped
<1>4. CASE Prepare(t)
  <2>1. \E r : TargetTyped(r) /\ tgt' = [tgt EXCEPT ![t] = r]
    <3>1. CASE Settle(t, "retry")
      BY <1>3, <3>1
    <3>2. CASE ~Settle(t, "retry")
      <4>1. PICK blind, rotated :
              LET target == [Polled(t) EXCEPT !.state = Inspected(t, blind), !.auth = rotated,
                                              !.queued = queue[t].n > 0]
              IN tgt' = [tgt EXCEPT ![t] =
                           IF Inspected(t, blind) = "clean" /\ queue[t].n = 0
                           THEN [target EXCEPT !.outcome = "skipped"] ELSE target]
        BY <1>4, <3>2 DEF Prepare
      <4>. DEFINE target == [Polled(t) EXCEPT !.state = Inspected(t, blind), !.auth = rotated,
                                              !.queued = queue[t].n > 0]
      <4>2. TargetTyped(target)
        BY <1>2, FieldTyped
      <4>. HIDE DEF target
      <4>3. TargetTyped([target EXCEPT !.outcome = "skipped"])
        BY <4>2, FieldTyped
      <4>4. tgt' = [tgt EXCEPT ![t] = target]
            \/ tgt' = [tgt EXCEPT ![t] = [target EXCEPT !.outcome = "skipped"]]
        BY <4>1 DEF target
      <4>. QED
        BY <4>2, <4>3, <4>4
    <3>. QED
      BY <3>1, <3>2
  <2>2. t \in op.todo /\ TargetStep /\ pc = "prepare" /\ Done(t, "prepare", "scan")
    BY <1>4 DEF Prepare
  <2>. QED
    BY <2>1, <2>2, LoopKept
<1>5. CASE Scan(t)
  <2>1. \E r : TargetTyped(r) /\ tgt' = [tgt EXCEPT ![t] = r]
    BY <1>1, <1>2, <1>3, <1>5 DEF Scan
  <2>2. t \in op.todo /\ TargetStep /\ pc = "scan" /\ Done(t, "scan", "dispatch")
    BY <1>5 DEF Scan
  <2>. QED
    BY <2>1, <2>2, LoopKept
<1>. QED
  BY <1>4, <1>5

(* A task is taken at hand only where its outcome is open.                 *)
LEMMA DispatchKept ==
    ASSUME IInv, NEW t \in Tasks, Dispatch(t)
    PROVE  Kept'
<1>. USE DEF IInv, TypeInv
<1>1. /\ pc = "dispatch" /\ t \in op.todo /\ TargetStep
      /\ UNCHANGED <<manifest, mem, asked>>
  BY DEF Dispatch, TargetStep, history
<1>2. CASE Done(t, "dispatch", "observe")
  <2>1. \E r : TargetTyped(r) /\ tgt' = [tgt EXCEPT ![t] = r]
    <3>1. CASE UNCHANGED tgt
      BY <3>1 DEF OperationTyped
    <3>2. CASE Settle(t, "retry")
      BY <3>2, SettleTyped
    <3>3. UNCHANGED tgt \/ Settle(t, "retry")
      <4>1. Goto("check") => ~Done(t, "dispatch", "observe")
        BY DEF Goto, Done
      <4>. QED
        BY <1>2, <4>1 DEF Dispatch
    <3>. QED
      BY <3>1, <3>2, <3>3
  <2>. QED
    BY <1>1, <1>2, <2>1, LoopKept
<1>3. CASE /\ op' = [op EXCEPT !.cur = t, !.rev = queue[t].rev]
           /\ tgt' = [tgt EXCEPT ![t].queued = queue[t].n > 0]
           /\ pc' = "check" /\ tgt[t].outcome = "open"
  <2>1. op \in Operations /\ op.ids \subseteq Tasks /\ op.todo \subseteq op.ids
    BY <1>1 DEF OperationTyped, Operations, Control, NotYetAsked, Looping
  <2>2. /\ op' \in Operations /\ op'.ids = op.ids /\ op'.acct = op.acct
        /\ op'.todo = op.todo /\ op'.cur = t
    BY <1>3, <2>1 DEF Operations, TasksTyped, Queues, Maybe
  <2>. DEFINE r == [tgt[t] EXCEPT !.queued = queue[t].n > 0]
  <2>3. TargetTyped(r) /\ tgt' = [tgt EXCEPT ![t] = r]
    BY <1>3, FieldTyped DEF OperationTyped
  <2>4. r.outcome = "open"
    BY <1>3 DEF OperationTyped, TargetTyped
  <2>. HIDE DEF r
  <2>5. OperationTyped' /\ HistoryTyped'
    BY <1>1, <2>2, <2>3, OneTarget DEF OperationTyped, HistoryTyped
  <2>6. t \notin asked /\ tgt'[t].outcome # "retry" /\ \A u \in asked : tgt'[u] = tgt[u]
    BY <1>1, <2>3, <2>4, OneTarget DEF Control, NotYetAsked, Looping, HistoryTyped
  <2>7. Control'
    BY <1>1, <1>3, <2>1, <2>2, <2>6 DEF Control, Aimed, RollBackSafe, Covered, Accounted,
       NotYetAsked, AtHand, Recovering, Looping, AtTask
  <2>8. Served' /\ RequestConsumesCheckpoint'
    BY <1>1, <1>3 DEF Served, JournalServable, RequestConsumesCheckpoint
  <2>. QED
    BY <1>1, <2>5, <2>7, <2>8 DEF Kept
<1>. QED
  BY <1>2, <1>3 DEF Dispatch, Goto

(* Without a channel nothing was asked.                                    *)
LEMMA NoChannelKept ==
    ASSUME IInv, NoChannel
    PROVE  Kept'
<1>. USE DEF IInv, TypeInv
<1>1. /\ pc = "dispatch" /\ op.todo = op.ids /\ pc' = "observe"
      /\ UNCHANGED <<op, manifest, mem, asked>>
  BY DEF NoChannel, Goto, history
<1>2. \A t \in Tasks : /\ TargetTyped(tgt'[t])
                       /\ t \notin op.ids => tgt'[t] = tgt[t]
  BY PolledTyped, FieldTyped DEF NoChannel, OperationTyped
<1>3. tgt' = [t \in Tasks |-> tgt'[t]]
  BY DEF NoChannel
<1>4. OperationTyped' /\ HistoryTyped'
  BY <1>1, <1>2, <1>3 DEF OperationTyped, HistoryTyped
<1>5. asked \intersect op.ids = {}
  BY <1>1 DEF Control, NotYetAsked, Looping
<1>6. Control'
  BY <1>1, <1>2, <1>5 DEF Control, Aimed, RollBackSafe, Covered, Accounted,
     NotYetAsked, AtHand, Recovering, Looping, AtTask
<1>7. Served' /\ RequestConsumesCheckpoint'
  BY <1>1 DEF Served, JournalServable, RequestConsumesCheckpoint
<1>. QED
  BY <1>1, <1>4, <1>6, <1>7 DEF Kept

(* What holds of the task at hand.                                         *)
LEMMA TaskAtHand ==
    ASSUME IInv, pc \in AtTask
    PROVE  /\ op \in Operations /\ op.ids \subseteq Tasks /\ op.todo \subseteq op.ids
           /\ op.cur \in op.todo /\ op.cur \in Tasks
           /\ TargetTyped(tgt[op.cur]) /\ tgt[op.cur].outcome # "retry"
           /\ pc # "await" => op.cur \notin asked
  BY DEF IInv, TypeInv, OperationTyped, Operations, Control, NotYetAsked, AtHand,
     Looping, AtTask

(* Leaving a task that was not asked, or that counts as sent.              *)
LEMMA LeaveKept ==
    ASSUME IInv, pc \in AtTask, Leave(op.cur), UNCHANGED <<mem, asked>>,
           manifest' \in Manifests, JournalServable',
           \A t \in asked : manifest'[t] = None,
           NEW r, TargetTyped(r), tgt' = [tgt EXCEPT ![op.cur] = r],
           pc = "await" => r.sent /\ r.outcome # "retry"
    PROVE  Kept'
<1>. USE DEF IInv, TypeInv
<1>. DEFINE t == op.cur
<1>1. /\ op \in Operations /\ op.ids \subseteq Tasks /\ op.todo \subseteq op.ids
      /\ t \in op.todo /\ t \in Tasks
      /\ pc # "await" => t \notin asked
  BY TaskAtHand
<1>2. /\ op' = [op EXCEPT !.todo = IF op.todo = {t} THEN op.ids ELSE op.todo \ {t},
                          !.cur = None, !.rev = 0, !.entry = None, !.reply = 0]
      /\ \/ pc' = "observe"
         \/ pc' = "dispatch" /\ op.todo # {t}
  BY DEF Leave, Goto
<1>3. /\ op' \in Operations /\ op'.ids = op.ids /\ op'.acct = op.acct
      /\ op'.todo = IF op.todo = {t} THEN op.ids ELSE op.todo \ {t}
  <2>. DEFINE rest == IF op.todo = {t} THEN op.ids ELSE op.todo \ {t}
  <2>1. rest \in SUBSET Tasks /\ 0 \in 0..MaxRevision /\ 0 \in 0..MaxLog
    BY <1>1, RecoveryAssumption
  <2>2. op' = [op EXCEPT !.todo = rest, !.cur = None, !.rev = 0, !.entry = None,
                         !.reply = 0]
    BY <1>2
  <2>. HIDE DEF rest
  <2>3. op' \in Operations /\ op'.ids = op.ids /\ op'.acct = op.acct /\ op'.todo = rest
    BY <1>1, <2>1, <2>2 DEF Operations, Maybe
  <2>. QED
    BY <2>3 DEF rest
<1>4. OperationTyped' /\ HistoryTyped'
  BY <1>1, <1>3, OneTarget DEF OperationTyped, HistoryTyped
<1>5. tgt'[t] = r /\ \A u \in Tasks \ {t} : tgt'[u] = tgt[u]
  BY <1>1, OneTarget
<1>6. Accounted'
  BY <1>1, <1>2, <1>3, <1>5 DEF Control, Accounted, Recovering, Looping, AtTask,
     HistoryTyped
<1>7. NotYetAsked'
  BY <1>1, <1>2, <1>3 DEF Control, NotYetAsked, Looping, AtTask
<1>8. Control'
  BY <1>2, <1>6, <1>7 DEF Control, Aimed, RollBackSafe, Covered, AtHand, AtTask
<1>9. Served' /\ RequestConsumesCheckpoint'
  BY <1>2 DEF Served, JournalServable, RequestConsumesCheckpoint
<1>. QED
  BY <1>4, <1>8, <1>9 DEF Kept

(* The rollout is read again, and the task goes on to be marked or is left.*)
LEMMA CheckKept ==
    ASSUME IInv, Check
    PROVE  Kept'
<1>. USE DEF IInv, TypeInv
<1>1. pc = "check" /\ pc \in AtTask /\ UNCHANGED <<manifest, mem, asked>>
  BY DEF Check, AtTask, history
<1>2. op.cur \in Tasks /\ op.cur \notin asked
  BY <1>1, TaskAtHand
<1>3. /\ TargetTyped(Polled(op.cur)) /\ Polled(op.cur).outcome # "retry"
      /\ Polled(op.cur).sent = tgt[op.cur].sent
  BY <1>2, PolledTyped
<1>4. manifest' \in Manifests /\ JournalServable' /\ \A t \in asked : manifest'[t] = None
  BY <1>1 DEF Served, JournalServable, RequestConsumesCheckpoint
<1>5. CASE Settle(op.cur, "retry") /\ Leave(op.cur)
  BY <1>1, <1>2, <1>4, <1>5, SettleTyped, LeaveKept
<1>6. CASE tgt' = [tgt EXCEPT ![op.cur] = Polled(op.cur)] /\ Leave(op.cur)
  BY <1>1, <1>2, <1>3, <1>4, <1>6, LeaveKept
<1>7. CASE tgt' = [tgt EXCEPT ![op.cur] = Polled(op.cur)] /\ pc' = "mark" /\ op' = op
  <2>1. OperationTyped' /\ HistoryTyped'
    BY <1>1, <1>2, <1>3, <1>7, OneTarget DEF OperationTyped, HistoryTyped
  <2>2. /\ tgt'[op.cur] = Polled(op.cur)
        /\ \A u \in Tasks \ {op.cur} : tgt'[u] = tgt[u]
    BY <1>2, <1>3, <1>7, OneTarget
  <2>3. Control'
    BY <1>1, <1>2, <1>3, <1>7, <2>2 DEF Control, Aimed, RollBackSafe, Covered, Accounted,
       NotYetAsked, AtHand, Recovering, Looping, AtTask, HistoryTyped
  <2>4. Served' /\ RequestConsumesCheckpoint'
    BY <1>1, <1>7 DEF Served, JournalServable, RequestConsumesCheckpoint
  <2>. QED
    BY <1>1, <2>1, <2>3, <2>4 DEF Kept
<1>. QED
  BY <1>5, <1>6, <1>7 DEF Check, Goto

(* The entry moves from the journal into the operation ...                 *)
LEMMA MarkKept ==
    ASSUME IInv, Mark
    PROVE  Kept'
<1>. USE DEF IInv, TypeInv
<1>1. pc = "mark" /\ pc \in AtTask /\ UNCHANGED <<mem, asked>>
  BY DEF Mark, AtTask, history
<1>2. /\ op \in Operations /\ op.cur \in Tasks /\ op.cur \notin asked
      /\ tgt[op.cur].outcome # "retry"
  BY <1>1, TaskAtHand
<1>3. CASE Settle(op.cur, "retry") /\ Leave(op.cur) /\ UNCHANGED manifest
  <2>1. /\ manifest' \in Manifests /\ JournalServable'
        /\ \A t \in asked : manifest'[t] = None
    BY <1>1, <1>3 DEF Served, JournalServable, RequestConsumesCheckpoint
  <2>. QED
    BY <1>1, <1>2, <1>3, <2>1, SettleTyped, LeaveKept
<1>4. CASE /\ manifest[op.cur] # None
           /\ manifest' = [manifest EXCEPT ![op.cur] = None]
           /\ op' = [op EXCEPT !.entry = manifest[op.cur]]
           /\ pc' = "confirm" /\ UNCHANGED tgt
  <2>1. manifest[op.cur] \in Entries /\ WellFormed(manifest[op.cur])
    BY <1>2, <1>4 DEF Manifests, Maybe, Served, JournalServable, Entered
  <2>2. /\ op' \in Operations /\ op'.ids = op.ids /\ op'.acct = op.acct
        /\ op'.todo = op.todo /\ op'.cur = op.cur /\ op'.entry = manifest[op.cur]
    BY <1>2, <1>4, <2>1 DEF Operations, Maybe
  <2>3. /\ manifest' \in Manifests /\ manifest'[op.cur] = None
        /\ \A t \in Tasks : manifest'[t] \in {None, manifest[t]}
    BY <1>2, <1>4 DEF Manifests, Maybe
  <2>4. OperationTyped' /\ HistoryTyped'
    BY <1>1, <1>4, <2>2 DEF OperationTyped, TargetTyped, HistoryTyped
  <2>5. Control'
    BY <1>1, <1>2, <1>4, <2>1, <2>2, <2>3 DEF Control, Aimed, RollBackSafe, Covered,
       Accounted, NotYetAsked, AtHand, Recovering, Looping, AtTask
  <2>6. Served'
    BY <1>1, <1>4, <2>1, <2>2, <2>3 DEF Served, JournalServable, Entered
  <2>7. RequestConsumesCheckpoint'
    BY <1>1, <1>2, <1>4, <2>2, <2>3 DEF RequestConsumesCheckpoint, HistoryTyped
  <2>. QED
    BY <2>3, <2>4, <2>5, <2>6, <2>7 DEF Kept
<1>. QED
  BY <1>3, <1>4 DEF Mark, Goto

(* ... and back, or the task counts as sent before it is.                  *)
LEMMA ConfirmKept ==
    ASSUME IInv, Confirm
    PROVE  Kept'
<1>. USE DEF IInv, TypeInv
<1>1. pc = "confirm" /\ pc \in AtTask /\ UNCHANGED <<mem, asked>>
  BY DEF Confirm, AtTask, history
<1>2. /\ op.cur \in Tasks /\ op.cur \notin asked /\ TargetTyped(tgt[op.cur])
      /\ tgt[op.cur].outcome # "retry"
  BY <1>1, TaskAtHand
<1>3. op.entry \in Entries /\ WellFormed(op.entry) /\ manifest[op.cur] = None
  BY <1>1 DEF Control, AtHand, Served
<1>4. CASE /\ manifest' = [manifest EXCEPT ![op.cur] = op.entry]
           /\ Settle(op.cur, "retry") /\ Leave(op.cur)
  <2>1. manifest' \in Manifests
    BY <1>2, <1>3, <1>4 DEF Manifests, Maybe
  <2>2. JournalServable'
    BY <1>2, <1>3, <1>4 DEF Manifests, Served, JournalServable, Entered
  <2>3. \A t \in asked : manifest'[t] = None
    BY <1>2, <1>4 DEF Manifests, RequestConsumesCheckpoint, HistoryTyped
  <2>. QED
    BY <1>1, <1>2, <1>4, <2>1, <2>2, <2>3, SettleTyped, LeaveKept
<1>5. CASE /\ tgt' = [tgt EXCEPT ![op.cur].sent = TRUE]
           /\ pc' = "send" /\ UNCHANGED <<op, manifest>>
  <2>1. PICK r : r = [tgt[op.cur] EXCEPT !.sent = TRUE]
    OBVIOUS
  <2>2. r = [base |-> tgt[op.cur].base, seen |-> tgt[op.cur].seen,
             state |-> tgt[op.cur].state, queued |-> tgt[op.cur].queued,
             auth |-> tgt[op.cur].auth, outcome |-> tgt[op.cur].outcome,
             sent |-> TRUE, expected |-> tgt[op.cur].expected]
    BY <1>2, <2>1 DEF TargetTyped
  <2>3. TargetTyped(r) /\ r.sent /\ r.outcome = tgt[op.cur].outcome
    BY <2>2 DEF TargetTyped
  <2>4. tgt' = [tgt EXCEPT ![op.cur] = r]
    BY <1>5, <2>1
  <2>5. tgt'[op.cur] = r /\ \A u \in Tasks \ {op.cur} : tgt'[u] = tgt[u]
    BY <1>2, <2>3, <2>4, OneTarget
  <2>6. OperationTyped' /\ HistoryTyped'
    BY <1>1, <1>2, <1>5, <2>3, <2>4, OneTarget DEF OperationTyped, HistoryTyped
  <2>7. Control'
    BY <1>1, <1>2, <1>3, <1>5, <2>3, <2>5 DEF Control, Aimed, RollBackSafe, Covered,
       Accounted, NotYetAsked, AtHand, Recovering, Looping, AtTask, HistoryTyped
  <2>8. Served' /\ RequestConsumesCheckpoint'
    BY <1>1, <1>2, <1>3, <1>5 DEF Served, JournalServable, RequestConsumesCheckpoint
  <2>. QED
    BY <1>5, <2>6, <2>7, <2>8 DEF Kept
<1>. QED
  BY <1>4, <1>5 DEF Confirm, Goto

(* From the request on the task was asked, and has no entry anywhere.      *)
LEMMA SendKept ==
    ASSUME IInv, Send
    PROVE  Kept'
<1>. USE DEF IInv, TypeInv
<1>1. /\ pc = "send" /\ pc \in AtTask /\ pc' = "await"
      /\ UNCHANGED <<op, manifest, tgt, mem>>
      /\ asked' = asked \union {op.cur}
  BY DEF Send, AtTask, Goto
<1>2. /\ op.cur \in Tasks /\ op.cur \in op.todo /\ op.cur \in op.ids
      /\ tgt[op.cur].sent /\ tgt[op.cur].outcome # "retry" /\ manifest[op.cur] = None
  BY <1>1, TaskAtHand DEF Control, AtHand
<1>3. OperationTyped' /\ HistoryTyped'
  BY <1>1, <1>2 DEF OperationTyped, TargetTyped, HistoryTyped
<1>4. Control'
  BY <1>1, <1>2 DEF Control, Aimed, RollBackSafe, Covered, Accounted,
     NotYetAsked, AtHand, Recovering, Looping, AtTask
<1>5. Served' /\ RequestConsumesCheckpoint'
  BY <1>1, <1>2 DEF Served, JournalServable, RequestConsumesCheckpoint
<1>. QED
  BY <1>1, <1>3, <1>4, <1>5 DEF Kept

(* The answer, or none, only settles it.                                   *)
LEMMA AwaitKept ==
    ASSUME IInv, Await
    PROVE  Kept'
<1>. USE DEF IInv, TypeInv
<1>1. /\ pc = "await" /\ pc \in AtTask /\ Leave(op.cur)
      /\ UNCHANGED <<manifest, mem, asked>>
  BY DEF Await, AtTask, history
<1>2. /\ op.cur \in Tasks /\ TargetTyped(tgt[op.cur])
      /\ tgt[op.cur].sent /\ tgt[op.cur].outcome # "retry"
  BY <1>1, TaskAtHand DEF Control, AtHand
<1>3. manifest' \in Manifests /\ JournalServable' /\ \A t \in asked : manifest'[t] = None
  BY <1>1 DEF Served, JournalServable, RequestConsumesCheckpoint
<1>4. CASE UNCHANGED tgt
  <2>1. tgt' = [tgt EXCEPT ![op.cur] = tgt[op.cur]]
    BY <1>2, <1>4 DEF OperationTyped
  <2>. QED
    BY <1>1, <1>2, <1>3, <2>1, LeaveKept
<1>5. CASE Settle(op.cur, "failed")
  <2>1. /\ tgt' = [tgt EXCEPT ![op.cur] = tgt'[op.cur]]
        /\ TargetTyped(tgt'[op.cur])
        /\ tgt'[op.cur].sent = tgt[op.cur].sent
        /\ tgt'[op.cur].outcome = "failed"
    BY <1>2, <1>5, SettleTyped
  <2>. QED
    BY <1>1, <1>2, <1>3, <2>1, LeaveKept
<1>6. CASE tgt' = [tgt EXCEPT ![op.cur].expected = op.reply]
  <2>. DEFINE r == [tgt[op.cur] EXCEPT !.expected = op.reply]
  <2>1. TargetTyped(r)
    BY <1>2, FieldTyped
  <2>2. r.sent = tgt[op.cur].sent /\ r.outcome = tgt[op.cur].outcome
    BY <1>2 DEF TargetTyped
  <2>3. tgt' = [tgt EXCEPT ![op.cur] = r]
    BY <1>6
  <2>. HIDE DEF r
  <2>. QED
    BY <1>1, <1>2, <1>3, <2>1, <2>2, <2>3, LeaveKept
<1>. QED
  BY <1>4, <1>5, <1>6 DEF Await

(* A poll settles an open task, but never puts it back.                    *)
LEMMA ObserveKept ==
    ASSUME IInv, NEW t \in Tasks, Observe(t)
    PROVE  Kept'
<1>. USE DEF IInv, TypeInv
<1>1. pc = "observe" /\ UNCHANGED <<op, pc, manifest, mem, asked>>
  BY DEF Observe, history
<1>2. \E r : /\ TargetTyped(r) /\ tgt' = [tgt EXCEPT ![t] = r]
             /\ r.sent = tgt[t].sent /\ r.outcome # "retry"
  <2>1. /\ TargetTyped(Polled(t)) /\ Polled(t).sent = tgt[t].sent
        /\ Polled(t).outcome # "retry"
    BY PolledTyped
  <2>2. \A outcome : LET r == [Polled(t) EXCEPT !.outcome = outcome]
                     IN /\ TargetTyped(r) /\ r.sent = Polled(t).sent
                        /\ r.outcome = outcome
    BY <2>1, FieldTyped
  <2>3. CASE Settle(t, "failed")
    BY <2>3, SettleTyped
  <2>4. CASE \E outcome \in {"completed", "failed"} :
                tgt' = [tgt EXCEPT ![t] = [Polled(t) EXCEPT !.outcome = outcome]]
    BY <2>1, <2>2, <2>4
  <2>5. CASE tgt' = [tgt EXCEPT ![t] = Polled(t)]
    BY <2>1, <2>5
  <2>. QED
    BY <2>3, <2>4, <2>5 DEF Observe
<1>3. PICK r : /\ TargetTyped(r) /\ tgt' = [tgt EXCEPT ![t] = r]
               /\ r.sent = tgt[t].sent /\ r.outcome # "retry"
  BY <1>2
<1>4. tgt'[t] = r /\ \A u \in Tasks \ {t} : tgt'[u] = tgt[u]
  BY <1>3, OneTarget
<1>5. OperationTyped' /\ HistoryTyped'
  BY <1>1, <1>3, OneTarget DEF OperationTyped, HistoryTyped
<1>6. Control'
  BY <1>1, <1>3, <1>4 DEF Control, Aimed, RollBackSafe, Covered, Accounted,
     NotYetAsked, AtHand, Recovering, Looping, AtTask, HistoryTyped
<1>7. Served' /\ RequestConsumesCheckpoint'
  BY <1>1 DEF Served, JournalServable, RequestConsumesCheckpoint
<1>. QED
  BY <1>1, <1>5, <1>6, <1>7 DEF Kept

(* What is written at the end brings no task back that was asked.          *)
LEMMA FinalizeKept ==
    ASSUME IInv, Finalize
    PROVE  Kept'
<1>. USE DEF IInv, TypeInv
<1>. DEFINE final == [t \in Tasks |-> Finalized(t)]
            waits(t) == [mem[t] EXCEPT !.awaiting = TRUE, !.owner = op.acct]
<1>1. Return /\ UNCHANGED asked /\ pc \in Recovering
  BY DEF Finalize, Recovering, history
<1>2. op.acct \in Accounts /\ op.ids \subseteq Entered(mem)
  BY <1>1 DEF Control, Accounted
<1>3. ASSUME NEW t \in Tasks
      PROVE  \/ Finalized(t) = None
             \/ Finalized(t) = mem[t] /\ (t \in op.ids => ~tgt[t].sent)
             \/ Finalized(t) = waits(t) /\ t \in op.ids /\ tgt[t].outcome = "retry"
  BY DEF Finalized
<1>4. ASSUME NEW t \in Tasks, t \in op.ids
      PROVE  waits(t) \in Entries /\ WellFormed(waits(t))
  <2>1. mem[t] \in Entries /\ WellFormed(mem[t])
    BY <1>2, <1>4 DEF OperationTyped, Manifests, Maybe, Served, Entered
  <2>. QED
    BY <1>2, <2>1, RecoveryAssumption DEF Entries, Maybe, WellFormed
<1>. HIDE DEF waits
<1>5. \A t \in Tasks : Finalized(t) \in Maybe(Entries)
  BY <1>3, <1>4 DEF OperationTyped, Manifests, Maybe
<1>6. final \in Manifests
  BY <1>5 DEF Manifests
<1>7. \A t \in Tasks : final[t] # None => WellFormed(final[t])
  BY <1>3, <1>4 DEF Served, Entered
<1>8. \A t \in asked : final[t] = None
  BY <1>1, <1>3 DEF Control, Accounted, HistoryTyped
<1>9. manifest' = final \/ \E probe, blind : manifest' = Prune(final, probe, blind)
  BY DEF Finalize
<1>. HIDE DEF final
<1>10. /\ manifest' \in Manifests
       /\ \A t \in Tasks : manifest'[t] \in {None, final[t]}
  BY <1>6, <1>9, PruneRemoves
<1>11. JournalServable' /\ HistoryTyped' /\ \A t \in asked' : manifest'[t] = None
  BY <1>1, <1>7, <1>8, <1>10 DEF JournalServable, Entered, HistoryTyped
<1>. QED
  BY <1>1, <1>10, <1>11, ReturnKept

-----------------------------------------------------------------------------
(* The environment, and the invariant as a whole                           *)

(* Nobody else touches the journal or the operation, but for a crash, the  *)
(* process the operation watches, and the answer it waits for.             *)
LEMMA EnvironmentKept ==
    ASSUME IInv, Environment
    PROVE  Kept'
<1>. USE DEF IInv, TypeInv
<1>1. UNCHANGED <<manifest, asked>>
  BY DEF Environment, Crash, UserQuits, UserLaunches, Login, UserStart, Work, TurnEnds,
     UserQueues, Deliver, Lose, history
<1>2. JournalServable' /\ HistoryTyped'
  BY <1>1 DEF JournalServable, Served, HistoryTyped
<1>3. CASE Crash
  BY <1>1, <1>2, <1>3, ReturnKept DEF Crash, RequestConsumesCheckpoint
<1>4. CASE ~Crash
  <2>1. UNCHANGED <<pc, tgt, mem>>
    BY <1>4 DEF Environment, UserQuits, UserLaunches, Login, UserStart, Work, TurnEnds,
       UserQueues, Deliver, Lose, opVars
  <2>2. \/ UNCHANGED op
        \/ op' = [op EXCEPT !.mine = FALSE]
        \/ \E n \in 1..MaxLog : op' = [op EXCEPT !.reply = n]
    <3>1. CASE \E t \in Tasks : Deliver(t)
      BY <3>1, TurnStartsTyped DEF Deliver
    <3>2. CASE ~\E t \in Tasks : Deliver(t)
      BY <1>4, <3>2 DEF Environment, UserQuits, UserLaunches, Login, UserStart, Work,
         TurnEnds, UserQueues, Lose, opVars
    <3>. QED
      BY <3>1, <3>2
  <2>3. /\ op' \in Operations /\ op'.ids = op.ids /\ op'.acct = op.acct
        /\ op'.todo = op.todo /\ op'.cur = op.cur /\ op'.entry = op.entry
        /\ op'.to = op.to /\ op'.mode = op.mode
    <3>1. CASE op' = [op EXCEPT !.mine = FALSE]
      BY <3>1 DEF OperationTyped, Operations
    <3>2. ASSUME NEW n \in 1..MaxLog, op' = [op EXCEPT !.reply = n]
          PROVE  /\ op' \in Operations /\ op'.ids = op.ids /\ op'.acct = op.acct
                 /\ op'.todo = op.todo /\ op'.cur = op.cur /\ op'.entry = op.entry
                 /\ op'.to = op.to /\ op'.mode = op.mode
      <4>1. n \in 0..MaxLog
        BY RecoveryAssumption
      <4>. QED
        BY <3>2, <4>1 DEF OperationTyped, Operations
    <3>. QED
      BY <2>2, <3>1, <3>2 DEF OperationTyped
  <2>4. OperationTyped'
    BY <2>1, <2>3 DEF OperationTyped, TargetTyped
  <2>5. Control'
    BY <1>1, <2>1, <2>3 DEF Control, Aimed, RollBackSafe, Covered, Accounted,
       NotYetAsked, AtHand, Recovering, Looping, AtTask
  <2>6. Served' /\ RequestConsumesCheckpoint'
    BY <1>1, <1>2, <2>1, <2>3 DEF Served, RequestConsumesCheckpoint
  <2>. QED
    BY <1>1, <1>2, <2>4, <2>5, <2>6 DEF Kept
<1>. QED
  BY <1>3, <1>4

(* The first states of the journal and the operation.                      *)
LEMMA Initial == Init => IInv
<1>. SUFFICES ASSUME Init PROVE IInv
  OBVIOUS
<1>1. Record("start", 1) \in Records
  BY RecoveryAssumption DEF Record, Records, Kinds
<1>2. TasksTyped
  BY <1>1, RecoveryAssumption DEF Init, TasksTyped, Queues
<1>3. SessionTyped
  BY DEF Init, SessionTyped, Maybe
<1>4. OperationTyped /\ manifest \in Manifests /\ HistoryTyped /\ Entered(manifest) = {}
  BY NoOpTyped, NoManifestTyped, NoTargetsTyped DEF Init, OperationTyped, HistoryTyped,
     TargetTyped
<1>5. Control
  BY DEF Init, Control, Aimed, RollBackSafe, Covered, Accounted, NotYetAsked, AtHand,
     Recovering, Looping, AtTask
<1>6. Served /\ RequestConsumesCheckpoint
  BY <1>4, NoManifestTyped DEF Init, Served, JournalServable, RequestConsumesCheckpoint
<1>. QED
  BY <1>2, <1>3, <1>4, <1>5, <1>6 DEF IInv, TypeInv

(* Every step keeps the invariant.                                         *)
LEMMA Inductive == IInv /\ [Next]_vars => IInv'
<1>. SUFFICES ASSUME IInv, [Next]_vars PROVE IInv'
  OBVIOUS
<1>1. CASE UNCHANGED vars
  <2>1. UNCHANGED <<log, running, queue, desktop, acct, bound, manifest, pc, op, tgt,
                    mem, asked>>
    BY <1>1 DEF vars, taskVars, sessionVars, opVars, history
  <2>2. TypeInv'
    BY <2>1 DEF IInv, TypeInv, TasksTyped, SessionTyped, OperationTyped, TargetTyped,
       HistoryTyped
  <2>3. Control'
    BY <2>1 DEF IInv, Control, Aimed, RollBackSafe, Covered, Accounted, NotYetAsked, AtHand
  <2>4. Served' /\ RequestConsumesCheckpoint'
    BY <2>1 DEF IInv, Served, JournalServable, RequestConsumesCheckpoint
  <2>. QED
    BY <2>2, <2>3, <2>4 DEF IInv
<1>2. CASE Next
  <2>1. TasksTyped' /\ SessionTyped'
    BY <1>2, TasksKept, SessionKept DEF IInv, Control
  <2>2. RestartStep => Kept'
    BY PrepareRotationKept, StopKept, CheckpointKept, ConfirmRotationKept, LaunchKept
       DEF RestartStep
  <2>3. TargetSteps => Kept'
    BY PrepareScanKept, DispatchKept, ObserveKept DEF TargetSteps
  <2>4. DispatchStep => Kept'
    BY CheckKept, MarkKept, ConfirmKept, SendKept, AwaitKept DEF DispatchStep
  <2>5. Begin \/ NoChannel \/ Finalize => Kept'
    BY BeginKept, NoChannelKept, FinalizeKept
  <2>6. Kept'
    BY <1>2, <2>2, <2>3, <2>4, <2>5, RequestsKept, EnvironmentKept DEF Next, OperationStep
  <2>. QED
    BY <2>1, <2>6 DEF Kept, IInv, TypeInv
<1>. QED
  BY <1>1, <1>2

(* A request to continue a task leaves no journal entry behind that would  *)
(* send another, whatever crashes, is lost, or races with the operation.   *)
THEOREM AskedOnce == Spec => []RequestConsumesCheckpoint
<1>1. IInv => RequestConsumesCheckpoint
  BY DEF IInv
<1>. QED
  BY <1>1, Initial, Inductive, PTL DEF Spec

(* The journal is readable by, and every entry can be served by, the next  *)
(* process, after any crash.                                               *)
THEOREM JournalAlwaysServable == Spec => []JournalServable
<1>1. IInv => JournalServable
  BY DEF IInv, Served
<1>. QED
  BY <1>1, Initial, Inductive, PTL DEF Spec

-----------------------------------------------------------------------------
(* The account and the process of a request                                *)

(* From the consumed entry to the request: the entry was bound to the      *)
(* account the operation began under; as long as the process it watches    *)
(* lives, that process is bound too.                                       *)
Consumed ==
    pc \in {"confirm", "send"} /\ op.mode # "explicit" =>
        /\ op.entry.awaiting =>
              op.entry.owner = op.acct /\ (op.mine => bound = op.acct)
        /\ op.entry.auth # None /\ op.entry.auth.confirmed => op.entry.auth.to = op.acct
        /\ op.mine => desktop = "on"

Confirmed ==
    pc = "send" /\ op.mode # "explicit" =>
        desktop = "on" /\ op.mine /\ acct = op.acct

BoundInv == Consumed /\ Confirmed

(* An entry is consumed only where it was found bound.                     *)
LEMMA MarkBound ==
    ASSUME IInv, Mark
    PROVE  BoundInv'
<1>. USE DEF IInv, TypeInv
<1>1. pc = "mark" /\ pc \in AtTask /\ UNCHANGED <<desktop, acct, bound>>
  BY DEF Mark, AtTask, sessionVars
<1>2. op \in Operations /\ op.cur \in Tasks
  BY <1>1, TaskAtHand
<1>3. CASE Leave(op.cur)
  BY <1>3 DEF Leave, Goto, BoundInv, Consumed, Confirmed
<1>4. CASE ~Leave(op.cur)
  <2>. DEFINE e == manifest[op.cur]
  <2>1. /\ e # None /\ SameIdentity
        /\ op.mode # "explicit" =>
              /\ e.auth # None /\ e.auth.confirmed => Binding = e.auth.to
              /\ e.awaiting => Binding # None /\ e.owner = Binding
        /\ op' = [op EXCEPT !.entry = e] /\ pc' = "confirm"
    BY <1>4 DEF Mark, Goto
  <2>2. e \in Entries
    BY <1>2, <2>1 DEF Manifests, Maybe
  <2>. HIDE DEF e
  <2>3. /\ op'.entry = e /\ op'.acct = op.acct /\ op'.mine = op.mine /\ op'.mode = op.mode
    BY <1>2, <2>1 DEF Operations
  <2>4. desktop = "on" /\ acct = op.acct
    BY <2>1 DEF SameIdentity
  <2>5. Binding # None => bound = acct /\ Binding = acct
    BY DEF Binding
  <2>6. e.auth # None => e.auth.to # None
    BY <2>2, RecoveryAssumption DEF Entries, Maybe, Rotations
  <2>. QED
    BY <1>1, <2>1, <2>3, <2>4, <2>5, <2>6 DEF BoundInv, Consumed, Confirmed
<1>. QED
  BY <1>3, <1>4

(* Without the races the code cannot exclude, the request leaves under     *)
(* what was confirmed.                                                     *)
LEMMA BoundInductive ==
    ASSUME Race = FALSE, IInv, BoundInv, [Next]_vars
    PROVE  BoundInv'
<1>. USE DEF IInv, TypeInv
<1>. DEFINE Away == pc' \notin {"confirm", "send"}
<1>1. Away => BoundInv'
  BY DEF BoundInv, Consumed, Confirmed
<1>2. UNCHANGED <<desktop, acct, bound, op, pc>> => BoundInv'
  BY DEF BoundInv, Consumed, Confirmed
<1>3. CASE RestartStep \/ Requests
  <2>1. RestartStep => Away
    BY DEF RestartStep, PrepareRotation, RollBack, Stop, Checkpoint, ConfirmRotation,
       Switch, Launch, Relaunch, Return, Goto
  <2>2. Requests => Away
    BY DEF Requests, StartRestart, Resume, Probe, Discover, StartRecovery, Goto
  <2>. QED
    BY <1>1, <1>3, <2>1, <2>2
<1>4. CASE Begin \/ NoChannel \/ Finalize
  BY <1>1, <1>4 DEF Begin, NoChannel, Finalize, Return, Goto
<1>5. CASE TargetSteps
  BY <1>1, <1>5 DEF TargetSteps, Prepare, Scan, Dispatch, Observe, Done, Goto
<1>6. CASE DispatchStep
  <2>1. CASE Check \/ Send \/ Await
    BY <1>1, <2>1 DEF Check, Send, Await, Leave, Goto
  <2>2. CASE Confirm
    <3>1. CASE Leave(op.cur)
      BY <1>1, <3>1 DEF Leave, Goto
    <3>2. CASE ~Leave(op.cur)
      BY <2>2, <3>2 DEF Confirm, SameIdentity, Goto, BoundInv, Consumed, Confirmed,
         sessionVars
    <3>. QED
      BY <3>1, <3>2
  <2>. QED
    BY <1>6, <2>1, <2>2, MarkBound DEF DispatchStep
<1>7. CASE Environment
  <2>1. CASE Crash
    BY <1>1, <2>1 DEF Crash, Return
  <2>2. CASE UserQuits
    <3>1. pc # "send" /\ pc' = pc /\ op' = [op EXCEPT !.mine = FALSE]
      BY <2>2 DEF UserQuits, Unhurried
    <3>2. /\ ~op'.mine /\ op'.mode = op.mode /\ op'.entry = op.entry /\ op'.acct = op.acct
      BY <3>1 DEF OperationTyped, Operations
    <3>. QED
      BY <3>1, <3>2 DEF BoundInv, Consumed, Confirmed
  <2>3. CASE UserLaunches
    BY <2>3 DEF UserLaunches, opVars, BoundInv, Consumed, Confirmed
  <2>4. CASE \E a \in Accounts : Login(a)
    BY <2>4 DEF Login, opVars, BoundInv, Consumed, Confirmed
  <2>5. CASE \E t \in Tasks : Deliver(t)
    <3>1. CASE pc = "await"
      BY <1>1, <2>5, <3>1 DEF Deliver
    <3>2. CASE pc # "await"
      BY <1>2, <2>5, <3>2 DEF Deliver, sessionVars
    <3>. QED
      BY <3>1, <3>2
  <2>6. CASE \E t \in Tasks : \/ UserStart(t) \/ Work(t) \/ TurnEnds(t)
                              \/ UserQueues(t) \/ Lose(t)
    BY <1>2, <2>6 DEF UserStart, Work, TurnEnds, UserQueues, Lose, sessionVars, opVars
  <2>. QED
    BY <1>7, <2>1, <2>2, <2>3, <2>4, <2>5, <2>6 DEF Environment
<1>8. CASE UNCHANGED vars
  BY <1>2, <1>8 DEF vars, sessionVars, opVars
<1>. QED
  BY <1>3, <1>4, <1>5, <1>6, <1>7, <1>8 DEF Next, OperationStep

(* An unattended request leaves only under the account its entry is bound  *)
(* to, for the process that was verified, although logins and restarts     *)
(* race with every step but the send itself.                               *)
THEOREM DispatchBound == ASSUME Race = FALSE PROVE Spec => []BoundDispatch
<1>1. Init => BoundInv
  BY DEF Init, BoundInv, Consumed, Confirmed
<1>2. IInv /\ BoundInv /\ [Next]_vars => BoundInv'
  BY BoundInductive
<1>3. BoundInv => BoundDispatch
  BY DEF BoundInv, Consumed, Confirmed, BoundDispatch
<1>. QED
  BY <1>1, <1>2, <1>3, Initial, Inductive, PTL DEF Spec

-----------------------------------------------------------------------------
(* What is read from a rollout                                             *)

(* A set of natural numbers that is not empty has a least member; every    *)
(* induction below is a use of it.                                         *)
LEMMA Least ==
    ASSUME NEW S, S \subseteq Nat, S # {}
    PROVE  \E n \in S : \A m \in S : n <= m
<1>1. PICK n \in S : \A m \in S : ~(<<m, n>> \in OpToRel(<, Nat))
  BY NatLessThanWellFounded, WFMin
<1>2. \A m \in S : ~(m < n)
  <2>. TAKE m \in S
  <2>1. <<m, n>> \in Nat \X Nat
    OBVIOUS
  <2>. QED BY <1>1, <2>1 DEF OpToRel
<1>3. n \in Nat /\ \A m \in S : m \in Nat
  OBVIOUS
<1>4. \A m \in S : n <= m
  BY <1>2, <1>3
<1>. QED
  BY <1>4

(* The function that Evidence applies: what has been read after each       *)
(* record.                                                                 *)
Reading(l, from) ==
    CHOOSE read : read = [i \in Nat |-> IF i <= from THEN NoEvidence
                                         ELSE Event(read[i - 1], l[i])]

(* Evidence is what that function has read at the end,                     *)
LEMMA ReadingOf ==
    ASSUME NEW l, NEW from, NEW to
    PROVE  Evidence(l, from, to) = Reading(l, from)[to]
  BY DEF Evidence, Reading

(* A function that has read n records,                                     *)
IsPrefix(l, from, f, n) ==
    f = [i \in 0..n |-> IF i <= from THEN NoEvidence ELSE Event(f[i - 1], l[i])]

(* ... there is one for every n,                                           *)
LEMMA PrefixExists ==
    ASSUME NEW l, NEW from \in Nat, NEW n \in Nat
    PROVE  \E f : IsPrefix(l, from, f, n)
<1>. DEFINE S == {m \in Nat : ~\E f : IsPrefix(l, from, f, m)}
<1>1. SUFFICES ASSUME S # {} PROVE FALSE
  OBVIOUS
<1>2. PICK m \in S : \A k \in S : m <= k
  BY <1>1, Least
<1>3. m \in Nat /\ ~\E f : IsPrefix(l, from, f, m)
  OBVIOUS
<1>. HIDE DEF S
<1>4. CASE m = 0
  <2>. DEFINE f == [i \in 0..0 |-> NoEvidence]
  <2>1. IsPrefix(l, from, f, 0)
    BY DEF IsPrefix
  <2>. QED
    BY <1>3, <1>4, <2>1
<1>5. CASE m > 0
  <2>1. m - 1 \in Nat /\ m - 1 \notin S
    BY <1>2, <1>3, <1>5
  <2>2. PICK g : IsPrefix(l, from, g, m - 1)
    BY <2>1 DEF S
  <2>. DEFINE v(i) == IF i <= from THEN NoEvidence ELSE Event(g[i - 1], l[i])
  <2>. DEFINE f == [i \in 0..m |-> v(i)]
  <2>3. \A i \in 0..m - 1 : f[i] = g[i]
    BY <1>3, <2>1, <2>2 DEF IsPrefix
  <2>4. f = [i \in 0..m |-> IF i <= from THEN NoEvidence ELSE Event(f[i - 1], l[i])]
    <3>1. \A i \in 0..m : ~(i <= from) => f[i - 1] = g[i - 1]
      <4>1. \A i \in 0..m : ~(i <= from) => i - 1 \in 0..m - 1
        BY <1>3
      <4>. HIDE DEF f
      <4>. QED BY <2>3, <4>1
    <3>2. \A i \in 0..m :
             v(i) = IF i <= from THEN NoEvidence ELSE Event(f[i - 1], l[i])
      BY <3>1
    <3>. HIDE DEF v
    <3>. QED
      BY <3>2
  <2>5. IsPrefix(l, from, f, m)
    BY <2>4 DEF IsPrefix
  <2>. QED
    BY <1>3, <2>5
<1>. QED
  BY <1>3, <1>4, <1>5

(* ... and they agree wherever both have read.                             *)
LEMMA PrefixUnique ==
    ASSUME NEW l, NEW from \in Nat, NEW n \in Nat, NEW m \in Nat, n <= m,
           NEW f, NEW g, IsPrefix(l, from, f, n), IsPrefix(l, from, g, m)
    PROVE  \A i \in 0..n : f[i] = g[i]
<1>. DEFINE S == {i \in 0..n : f[i] # g[i]}
<1>1. SUFFICES ASSUME S # {} PROVE FALSE
  OBVIOUS
<1>0. S \subseteq Nat
  OBVIOUS
<1>2. PICK i \in S : \A k \in S : i <= k
  <2>. HIDE DEF S
  <2>. QED BY <1>0, <1>1, Least
<1>3. i \in 0..n /\ f[i] # g[i] /\ i \in 0..m
  OBVIOUS
<1>4. f[i] = IF i <= from THEN NoEvidence ELSE Event(f[i - 1], l[i])
  BY <1>3 DEF IsPrefix
<1>5. g[i] = IF i <= from THEN NoEvidence ELSE Event(g[i - 1], l[i])
  BY <1>3 DEF IsPrefix
<1>6. CASE i <= from
  BY <1>3, <1>4, <1>5, <1>6
<1>7. CASE ~(i <= from)
  <2>1. i - 1 \in 0..n /\ i - 1 \notin S
    BY <1>2, <1>3, <1>7
  <2>2. f[i - 1] = g[i - 1]
    BY <2>1
  <2>. QED
    BY <1>3, <1>4, <1>5, <1>7, <2>2
<1>. QED
  BY <1>6, <1>7

(* So the function satisfies its own definition,                           *)
LEMMA ReadingSteps ==
    ASSUME NEW l, NEW from \in Nat
    PROVE  Reading(l, from) = [i \in Nat |-> IF i <= from THEN NoEvidence
                                   ELSE Event(Reading(l, from)[i - 1], l[i])]
<1>. DEFINE F(n) == CHOOSE f : IsPrefix(l, from, f, n)
<1>. DEFINE h == [n \in Nat |-> F(n)[n]]
<1>1. \A n \in Nat : IsPrefix(l, from, F(n), n)
  BY PrefixExists
<1>. HIDE DEF F
<1>2. \A n \in Nat : h[n] = IF n <= from THEN NoEvidence ELSE Event(h[n - 1], l[n])
  <2>. TAKE n \in Nat
  <2>1. F(n)[n] = IF n <= from THEN NoEvidence ELSE Event(F(n)[n - 1], l[n])
    BY <1>1 DEF IsPrefix
  <2>2. CASE n <= from
    BY <2>1, <2>2
  <2>3. CASE ~(n <= from)
    <3>1. n - 1 \in Nat /\ n - 1 <= n
      BY <2>3
    <3>2. F(n - 1)[n - 1] = F(n)[n - 1]
      <4>1. \A i \in 0..n - 1 : F(n - 1)[i] = F(n)[i]
        BY <1>1, <3>1, PrefixUnique
      <4>. QED
        BY <3>1, <4>1
    <3>. QED
      BY <2>1, <2>3, <3>1, <3>2
  <2>. QED
    BY <2>2, <2>3
<1>3. h = [n \in Nat |-> IF n <= from THEN NoEvidence ELSE Event(h[n - 1], l[n])]
  <2>1. h = [n \in Nat |-> h[n]]
    OBVIOUS
  <2>. HIDE DEF h
  <2>. QED
    BY <1>2, <2>1
<1>. HIDE DEF h
<1>. QED
  BY <1>3 DEF Reading

(* and each record after the checkpoint is one event (Observer::poll_to).  *)
LEMMA EvidenceSteps ==
    ASSUME NEW l, NEW from \in Nat, NEW to \in Nat
    PROVE  Evidence(l, from, to) =
             IF to <= from THEN NoEvidence
             ELSE Event(Evidence(l, from, to - 1), l[to])
<1>1. /\ Evidence(l, from, to) = Reading(l, from)[to]
      /\ Evidence(l, from, to - 1) = Reading(l, from)[to - 1]
  BY ReadingOf
<1>2. Reading(l, from)[to] = IF to <= from THEN NoEvidence
                             ELSE Event(Reading(l, from)[to - 1], l[to])
  BY ReadingSteps
<1>. QED
  BY <1>1, <1>2

(* What the evidence can be.                                               *)
Evidences == [started : BOOLEAN, work : BOOLEAN, failed : BOOLEAN,
              aborted : BOOLEAN, turn : Nat]

(* The ends of a turn that count as a failure.                             *)
Fails == {"abort", "quota", "error"}

(* The evidence of the turn that started last, at record s.                *)
LastTurn(l, s, to, e) ==
    /\ l[s].kind = "start" /\ e.turn = l[s].turn
    /\ \A i \in s + 1 .. to : l[i].kind # "start"
    /\ e.work <=> \E i \in s + 1 .. to : l[i].kind = "work"
    /\ e.failed <=> \E i \in s + 1 .. to : l[i].kind \in Fails /\ l[i].turn = e.turn
    /\ e.aborted => e.failed

(* What the evidence says of the records after `from` up to `to`.          *)
Tells(l, from, to, e) ==
    /\ e \in Evidences
    /\ ~e.started => /\ ~e.failed /\ e.turn = 0
                     /\ \A i \in from + 1 .. to : l[i].kind # "start"
    /\ e.started => \E s \in from + 1 .. to : LastTurn(l, s, to, e)

(* What one event changes (Evidence::event).                               *)
LEMMA EventRead ==
    ASSUME NEW e \in Evidences, NEW r, r.kind \in Kinds, r.turn \in Nat
    PROVE  /\ Event(e, r) \in Evidences
           /\ r.kind = "start" =>
                /\ Event(e, r).started /\ Event(e, r).turn = r.turn
                /\ ~Event(e, r).work /\ ~Event(e, r).failed /\ ~Event(e, r).aborted
           /\ r.kind # "start" =>
                /\ Event(e, r).started = e.started /\ Event(e, r).turn = e.turn
                /\ Event(e, r).work <=> e.work \/ r.kind = "work"
                /\ Event(e, r).failed <=>
                      e.failed \/ (r.kind \in Fails /\ e.started /\ r.turn = e.turn)
                /\ Event(e, r).aborted <=>
                      e.aborted \/ (r.kind = "abort" /\ (~e.started \/ r.turn = e.turn))
<1>1. CASE r.kind = "start"
  BY <1>1 DEF Event, Evidences, NoEvidence
<1>2. CASE r.kind = "work"
  BY <1>2 DEF Event, Evidences, Fails
<1>3. CASE r.kind = "abort"
  BY <1>3 DEF Event, Evidences, Fails
<1>4. CASE r.kind \in {"quota", "error"}
  BY <1>4 DEF Event, Evidences, Fails
<1>5. CASE r.kind = "done"
  BY <1>5 DEF Event, Evidences, Fails
<1>. QED
  BY <1>1, <1>2, <1>3, <1>4, <1>5 DEF Kinds, Ends

(* The next record keeps the evidence true.                                *)
LEMMA TellsMore ==
    ASSUME NEW l, NEW from \in Nat, NEW to \in Nat, from <= to, NEW e,
           Tells(l, from, to, e), l[to + 1].kind \in Kinds, l[to + 1].turn \in Nat
    PROVE  Tells(l, from, to + 1, Event(e, l[to + 1]))
<1>. DEFINE r == l[to + 1]
            f == Event(e, r)
<1>. SUFFICES Tells(l, from, to + 1, f)
  OBVIOUS
<1>0. e \in Evidences /\ r.kind \in Kinds /\ r.turn \in Nat
  BY DEF Tells
<1>1. /\ f \in Evidences
      /\ r.kind = "start" =>
            f.started /\ f.turn = r.turn /\ ~f.work /\ ~f.failed /\ ~f.aborted
      /\ r.kind # "start" =>
            /\ f.started = e.started /\ f.turn = e.turn
            /\ f.work <=> e.work \/ r.kind = "work"
            /\ f.failed <=> e.failed \/ (r.kind \in Fails /\ e.started /\ r.turn = e.turn)
            /\ f.aborted <=> e.aborted \/ (r.kind = "abort" /\ (~e.started \/ r.turn = e.turn))
  <2>. HIDE DEF r
  <2>. QED
    BY <1>0, EventRead
<1>. HIDE DEF f
<1>2. CASE r.kind = "start"
  <2>1. LastTurn(l, to + 1, to + 1, f)
    BY <1>1, <1>2 DEF LastTurn
  <2>. QED
    BY <1>1, <1>2, <2>1 DEF Tells
<1>3. CASE r.kind # "start" /\ ~e.started
  <2>1. \A i \in from + 1 .. to + 1 : i \in from + 1 .. to \/ i = to + 1
    OBVIOUS
  <2>2. ~f.started /\ ~f.failed /\ f.turn = 0
    BY <1>1, <1>3 DEF Tells
  <2>3. \A i \in from + 1 .. to + 1 : l[i].kind # "start"
    BY <1>3, <2>1 DEF Tells
  <2>. QED
    BY <1>1, <2>2, <2>3 DEF Tells
<1>4. CASE r.kind # "start" /\ e.started
  <2>1. PICK s \in from + 1 .. to : LastTurn(l, s, to, e)
    BY <1>4 DEF Tells
  <2>2. /\ s \in from + 1 .. to + 1
        /\ s + 1 .. to + 1 = (s + 1 .. to) \union {to + 1}
    OBVIOUS
  <2>3. LastTurn(l, s, to + 1, f)
    <3>1. /\ l[s].kind = "start" /\ f.turn = l[s].turn
          /\ \A i \in s + 1 .. to + 1 : l[i].kind # "start"
      BY <1>1, <1>4, <2>1, <2>2 DEF LastTurn
    <3>2. f.work <=> \E i \in s + 1 .. to + 1 : l[i].kind = "work"
      BY <1>1, <1>4, <2>1, <2>2 DEF LastTurn
    <3>3. f.failed <=> \E i \in s + 1 .. to + 1 : l[i].kind \in Fails /\ l[i].turn = f.turn
      BY <1>1, <1>4, <2>1, <2>2 DEF LastTurn
    <3>4. f.aborted => f.failed
      BY <1>1, <1>4, <2>1 DEF LastTurn, Fails
    <3>. QED
      BY <3>1, <3>2, <3>3, <3>4 DEF LastTurn
  <2>. QED
    BY <1>1, <1>4, <2>2, <2>3 DEF Tells
<1>. QED
  BY <1>2, <1>3, <1>4

(* Evidence forgets, ignores, and is read one record at a time; for every  *)
(* rollout and every part of it, what it says at the end is what the       *)
(* records of that part say: whether a turn started, which one was the     *)
(* last, and whether that one has worked and has failed (evidence.rs).     *)
THEOREM EvidenceTells ==
    ASSUME NEW l, NEW from \in Nat, NEW to \in Nat,
           \A i \in from + 1 .. to : l[i].kind \in Kinds /\ l[i].turn \in Nat
    PROVE  Tells(l, from, to, Evidence(l, from, to))
<1>. DEFINE S == {n \in 0..to : ~Tells(l, from, n, Evidence(l, from, n))}
<1>1. SUFFICES ASSUME S # {} PROVE FALSE
  OBVIOUS
<1>2. PICK n \in S : \A k \in S : n <= k
  <2>1. S \subseteq Nat
    OBVIOUS
  <2>. HIDE DEF S
  <2>. QED
    BY <1>1, <2>1, Least
<1>3. n \in 0..to /\ ~Tells(l, from, n, Evidence(l, from, n))
  OBVIOUS
<1>4. CASE n <= from
  <2>1. Evidence(l, from, n) = NoEvidence
    BY <1>3, <1>4, EvidenceSteps
  <2>2. from + 1 .. n = {}
    BY <1>3, <1>4
  <2>3. Tells(l, from, n, NoEvidence)
    BY <2>2 DEF Tells, NoEvidence, Evidences
  <2>. QED
    BY <1>3, <2>1, <2>3
<1>5. CASE ~(n <= from)
  <2>1. n - 1 \in 0..to /\ n - 1 \notin S /\ n - 1 \in Nat /\ from <= n - 1 /\ (n - 1) + 1 = n
    BY <1>2, <1>3, <1>5
  <2>2. Tells(l, from, n - 1, Evidence(l, from, n - 1))
    BY <2>1
  <2>3. l[n].kind \in Kinds /\ l[n].turn \in Nat
    BY <1>3, <1>5
  <2>4. Evidence(l, from, n) = Event(Evidence(l, from, n - 1), l[n])
    BY <1>3, <1>5, EvidenceSteps
  <2>. HIDE DEF S
  <2>5. Tells(l, from, (n - 1) + 1, Event(Evidence(l, from, n - 1), l[(n - 1) + 1]))
    BY <2>1, <2>2, <2>3, TellsMore
  <2>. QED
    BY <1>3, <2>1, <2>4, <2>5
<1>. QED
  BY <1>4, <1>5

-----------------------------------------------------------------------------
(* Rollouts only grow                                                      *)

(* No turn starts after a record.                                          *)
NoStart(l, off) == \A i \in off + 1 .. Len(l) : l[i].kind # "start"

(* A turn is named by its first record; the live turn of a task is the     *)
(* last of its rollout and still open.                                     *)
LogsInv ==
    \A t \in Tasks :
        /\ \A i \in Starts(log[t]) : log[t][i].turn = i
        /\ running[t] # 0 => /\ running[t] \in Starts(log[t])
                             /\ NoStart(log[t], running[t])

(* A step writes at most one record of a task.  A turn that starts is no   *)
(* longer owed, and the operation is where such a turn may start.          *)
Grown(t) ==
    \/ log'[t] = log[t] /\ running'[t] \in {running[t], 0}
    \/ \E r \in Records :
          /\ log'[t] = Append(log[t], r)
          /\ \/ /\ r.kind = "start" /\ r.turn = Len(log[t]) + 1
                /\ running'[t] = r.turn
                /\ t \notin owed' /\ pc' = pc
                /\ Unhurried({"mark", "confirm", "send"})
             \/ r.kind # "start" /\ running'[t] \in {running[t], 0}

(* A step of a task ...                                                    *)
LEMMA TaskGrows ==
    ASSUME TasksTyped, NEW t \in Tasks, NEW u \in Tasks,
           UserStart(u) \/ Work(u) \/ TurnEnds(u) \/ Deliver(u)
    PROVE  Grown(t)
<1>1. log \in [Tasks -> Seq(Records)] /\ running \in [Tasks -> 0..MaxLog]
  BY DEF TasksTyped
<1>2. CASE t # u
  BY <1>1, <1>2 DEF UserStart, Work, TurnEnds, Deliver, TurnStarts, Recording, Grown
<1>3. CASE t = u /\ (UserStart(u) \/ Deliver(u))
  <2>. DEFINE r == Record("start", Len(log[t]) + 1)
  <2>1. TurnStarts(t) /\ pc' = pc /\ Unhurried({"mark", "confirm", "send"})
    BY <1>3 DEF UserStart, Deliver, opVars
  <2>2. Len(log[t]) + 1 \in 1..MaxLog
    BY <2>1, TurnStartsTyped
  <2>3. r \in Records /\ r.kind = "start" /\ r.turn = Len(log[t]) + 1
    BY <2>2 DEF Record, Records, Kinds
  <2>4. /\ log'[t] = Append(log[t], r) /\ running'[t] = Len(log[t]) + 1 /\ t \notin owed'
    BY <1>1, <2>1 DEF TurnStarts, Recording
  <2>. QED
    BY <2>1, <2>3, <2>4 DEF Grown
<1>4. CASE t = u /\ (Work(u) \/ TurnEnds(u))
  <2>1. PICK kind \in Kinds \ {"start"} : Recording(t, kind, running[t])
    BY <1>4 DEF Work, TurnEnds, Kinds, Ends
  <2>. DEFINE r == Record(kind, running[t])
  <2>2. running[t] \in 1..MaxLog /\ running'[t] \in {running[t], 0}
    BY <1>1, <1>4 DEF Work, TurnEnds
  <2>3. r \in Records /\ r.kind # "start"
    BY <2>2 DEF Record, Records
  <2>4. log'[t] = Append(log[t], r)
    BY <1>1, <2>1 DEF Recording
  <2>. QED
    BY <2>2, <2>3, <2>4 DEF Grown
<1>. QED
  BY <1>2, <1>3, <1>4

(* ... the end of Desktop, with what it flushes ...                        *)
LEMMA EndsGrow ==
    ASSUME TasksTyped, NEW kinds \in SUBSET Ends, NEW stopped,
           DesktopEnds(kinds, stopped), NEW t \in Tasks
    PROVE  Grown(t)
<1>1. PICK f \in Flushed(kinds) :
         log' = [u \in Tasks |->
                    IF f[u] = <<>> THEN log[u]
                    ELSE Append(log[u], Record(f[u][1], running[u]))]
  BY DEF DesktopEnds
<1>2. running'[t] = 0
  BY DEF DesktopEnds
<1>3. CASE f[t] = <<>>
  BY <1>1, <1>2, <1>3 DEF Grown
<1>4. CASE f[t] # <<>>
  <2>1. PICK kind \in kinds : f[t] = <<kind>>
    BY <1>4 DEF Flushed
  <2>2. running[t] \in 1..MaxLog
    BY <1>4 DEF Flushed, TasksTyped
  <2>3. Record(kind, running[t]) \in Records /\ Record(kind, running[t]).kind # "start"
    BY <2>2 DEF Record, Records, Kinds, Ends
  <2>4. log'[t] = Append(log[t], Record(kind, running[t]))
    <3>1. f[t][1] = kind
      BY <2>1
    <3>. QED
      BY <1>1, <1>4, <3>1, Zenon
  <2>. QED
    BY <1>2, <2>3, <2>4 DEF Grown
<1>. QED
  BY <1>3, <1>4

(* Every step only adds to the rollouts.                                   *)
LEMMA RolloutsGrow ==
    ASSUME TypeInv, [Next]_vars, NEW t \in Tasks
    PROVE  Grown(t)
<1>1. TasksTyped
  BY DEF TypeInv
<1>2. UNCHANGED <<log, running>> => Grown(t)
  BY DEF Grown
<1>3. CASE UNCHANGED vars
  BY <1>2, <1>3 DEF vars, taskVars
<1>4. CASE OperationStep
  <2>1. CASE Stop
    <3>1. DesktopEnds({"abort", "error"}, op.ids \ Awaiting(manifest)) => Grown(t)
      BY <1>1, EndsGrow DEF Ends
    <3>. QED
      BY <1>2, <2>1, <3>1 DEF Stop
  <2>2. CASE RestartStep /\ ~Stop
    BY <1>2, <2>2 DEF RestartStep, PrepareRotation, RollBack, Checkpoint, Relaunch,
       ConfirmRotation, Switch, Launch, taskVars
  <2>3. CASE Begin \/ NoChannel \/ Finalize
    BY <1>2, <2>3 DEF Begin, NoChannel, Finalize, taskVars
  <2>4. CASE TargetSteps \/ DispatchStep
    BY <1>2, <2>4 DEF TargetSteps, Prepare, Scan, Dispatch, TargetStep, Observe,
       DispatchStep, Check, Mark, Confirm, Send, Await, taskVars
  <2>. QED
    BY <1>4, <2>1, <2>2, <2>3, <2>4 DEF OperationStep
<1>5. CASE Requests
  BY <1>2, <1>5 DEF Requests, StartRestart, Resume, Probe, Discover, taskVars
<1>6. CASE Environment
  <2>1. CASE UserQuits
    BY <1>1, <2>1, EndsGrow DEF UserQuits, Ends
  <2>2. CASE Crash \/ UserLaunches \/ \E a \in Accounts : Login(a)
    BY <1>2, <2>2 DEF Crash, UserLaunches, Login, taskVars
  <2>3. CASE \E u \in Tasks : Lose(u) \/ UserQueues(u)
    BY <1>2, <2>3 DEF Lose, UserQueues, taskVars
  <2>4. CASE \E u \in Tasks : UserStart(u) \/ Work(u) \/ TurnEnds(u) \/ Deliver(u)
    BY <1>1, <2>4, TaskGrows
  <2>. QED
    BY <1>6, <2>1, <2>2, <2>3, <2>4 DEF Environment
<1>. QED
  BY <1>3, <1>4, <1>5, <1>6 DEF Next

(* What was read of a rollout stays there.                                 *)
LEMMA AppendKeeps ==
    ASSUME NEW l \in Seq(Records), NEW r \in Records
    PROVE  /\ Append(l, r) \in Seq(Records) /\ Len(Append(l, r)) = Len(l) + 1
           /\ Append(l, r)[Len(l) + 1] = r
           /\ \A i \in 1..Len(l) : Append(l, r)[i] = l[i]
           /\ \A i \in Starts(l) : i \in 1..Len(l) /\ i \in Starts(Append(l, r))
           /\ \A i \in Starts(Append(l, r)) :
                 \/ i \in Starts(l)
                 \/ i = Len(l) + 1 /\ r.kind = "start"
<1>1. /\ Append(l, r) \in Seq(Records) /\ Len(Append(l, r)) = Len(l) + 1
      /\ Append(l, r)[Len(l) + 1] = r
      /\ \A i \in 1..Len(l) : Append(l, r)[i] = l[i]
  BY AppendProperties
<1>2. Len(l) \in Nat /\ DOMAIN l = 1..Len(l) /\ DOMAIN Append(l, r) = 1..Len(l) + 1
  BY <1>1, LenProperties
<1>. QED
  BY <1>1, <1>2 DEF Starts

(* What is known of the rollouts stays known.                              *)
LEMMA LogsKept ==
    ASSUME TasksTyped, LogsInv, \A t \in Tasks : Grown(t)
    PROVE  LogsInv'
<1>. SUFFICES ASSUME NEW t \in Tasks
              PROVE  /\ \A i \in Starts(log'[t]) : log'[t][i].turn = i
                     /\ running'[t] # 0 => /\ running'[t] \in Starts(log'[t])
                                           /\ NoStart(log'[t], running'[t])
  BY DEF LogsInv
<1>1. /\ \A i \in Starts(log[t]) : log[t][i].turn = i
      /\ running[t] # 0 => /\ running[t] \in Starts(log[t])
                           /\ NoStart(log[t], running[t])
  BY DEF LogsInv
<1>2. log[t] \in Seq(Records) /\ Len(log[t]) \in Nat /\ running[t] \in Nat
  BY RecoveryAssumption DEF TasksTyped
<1>3. CASE log'[t] = log[t] /\ running'[t] \in {running[t], 0}
  BY <1>1, <1>3
<1>4. ASSUME NEW r \in Records, log'[t] = Append(log[t], r),
             \/ r.kind = "start" /\ r.turn = Len(log[t]) + 1 /\ running'[t] = r.turn
             \/ r.kind # "start" /\ running'[t] \in {running[t], 0}
      PROVE  /\ \A i \in Starts(log'[t]) : log'[t][i].turn = i
             /\ running'[t] # 0 => /\ running'[t] \in Starts(log'[t])
                                   /\ NoStart(log'[t], running'[t])
  <2>1. /\ Len(log'[t]) = Len(log[t]) + 1 /\ log'[t][Len(log[t]) + 1] = r
        /\ \A i \in 1..Len(log[t]) : log'[t][i] = log[t][i]
        /\ \A i \in Starts(log[t]) : i \in 1..Len(log[t]) /\ i \in Starts(log'[t])
        /\ \A i \in Starts(log'[t]) : \/ i \in Starts(log[t])
                                      \/ i = Len(log[t]) + 1 /\ r.kind = "start"
        /\ log'[t] \in Seq(Records)
    BY <1>2, <1>4, AppendKeeps
  <2>2. \A i \in Starts(log'[t]) : log'[t][i].turn = i
    BY <1>1, <1>4, <2>1
  <2>3. CASE r.kind = "start"
    <3>1. running'[t] = Len(log[t]) + 1
      BY <1>4, <2>3
    <3>2. Len(log[t]) + 1 \in DOMAIN log'[t]
      BY <1>2, <2>1
    <3>3. running'[t] \in Starts(log'[t])
      BY <2>1, <2>3, <3>1, <3>2 DEF Starts
    <3>4. NoStart(log'[t], running'[t])
      BY <1>2, <2>1, <3>1 DEF NoStart
    <3>. QED
      BY <2>2, <3>3, <3>4
  <2>4. CASE r.kind # "start"
    <3>1. running[t] # 0 => NoStart(log'[t], running[t])
      BY <1>1, <1>2, <2>1, <2>4 DEF NoStart
    <3>. QED
      BY <1>1, <1>4, <2>1, <2>2, <2>4, <3>1
  <2>. QED
    BY <2>3, <2>4
<1>5. Grown(t)
  OBVIOUS
<1>. QED
  BY <1>3, <1>4, <1>5 DEF Grown

(* What no turn followed is followed by none while it is still owed.       *)
LEMMA UntouchedKept ==
    ASSUME TasksTyped, NEW t \in Tasks, Grown(t), NEW off \in Nat, NoStart(log[t], off),
           \/ t \in owed'
           \/ Race = FALSE /\ pc' \in {"mark", "confirm", "send"}
    PROVE  NoStart(log'[t], off)
<1>1. log[t] \in Seq(Records) /\ Len(log[t]) \in Nat
  BY DEF TasksTyped
<1>2. CASE log'[t] = log[t]
  BY <1>2
<1>3. CASE log'[t] # log[t]
  <2>1. PICK r \in Records : log'[t] = Append(log[t], r) /\ r.kind # "start"
    BY <1>3 DEF Grown, Unhurried
  <2>2. /\ Len(log'[t]) = Len(log[t]) + 1 /\ log'[t][Len(log[t]) + 1] = r
        /\ \A i \in 1..Len(log[t]) : log'[t][i] = log[t][i]
    BY <1>1, <2>1, AppendKeeps
  <2>. QED
    BY <1>1, <2>1, <2>2 DEF NoStart
<1>. QED
  BY <1>2, <1>3

-----------------------------------------------------------------------------
(* What an operation says of its tasks                                     *)

(* A target is a record of its type, was read no further than its rollout  *)
(* goes, and what was reported as verified is so.                          *)
Good(l, r) ==
    /\ r \in Targets
    /\ r.seen = r.base \/ r.seen <= Len(l)
    /\ r.outcome = "completed" =>
          r.seen <= Len(l) /\ Proved(l, r.base, r.seen, r.expected)

TargetsInv ==
    \A t \in Tasks : /\ Good(log[t], tgt[t])
                     /\ tgt[t].outcome = "completed" => pc = "observe"

(* Whose request is under way, who is owed and who went on are tasks.      *)
SetsInv == inflight \subseteq Tasks /\ owed \subseteq Tasks /\ resumed \subseteq Tasks

(* What a proof showed of a rollout, a longer one shows too.               *)
LEMMA GoodStays ==
    ASSUME TasksTyped, NEW t \in Tasks, Grown(t), NEW r, Good(log[t], r)
    PROVE  Good(log'[t], r)
<1>1. log[t] \in Seq(Records) /\ Len(log[t]) \in Nat
  BY DEF TasksTyped
<1>2. CASE log'[t] = log[t]
  BY <1>2
<1>3. CASE log'[t] # log[t]
  <2>1. PICK q \in Records : log'[t] = Append(log[t], q)
    BY <1>3 DEF Grown
  <2>. DEFINE l == log'[t]
  <2>2. /\ Len(l) = Len(log[t]) + 1
        /\ \A i \in 1..Len(log[t]) : l[i] = log[t][i]
        /\ \A i \in Starts(log[t]) : i \in 1..Len(log[t]) /\ i \in Starts(l)
        /\ \A i \in Starts(l) : i \in Starts(log[t]) \/ i = Len(log[t]) + 1
    BY <1>1, <2>1, AppendKeeps
  <2>. HIDE DEF l
  <2>3. /\ r.base \in Nat /\ r.seen \in Nat
        /\ r.seen = r.base \/ r.seen <= Len(log[t])
        /\ r.outcome = "completed" =>
              r.seen <= Len(log[t]) /\ Proved(log[t], r.base, r.seen, r.expected)
    BY DEF Good, Targets
  <2>4. ASSUME r.outcome = "completed"
        PROVE  Proved(l, r.base, r.seen, r.expected)
    <3>1. PICK s \in Starts(log[t]) :
            /\ s > r.base /\ r.expected \in {0, s}
            /\ \A i \in s + 1 .. r.seen : i \notin Starts(log[t])
            /\ \E i \in s + 1 .. r.seen : log[t][i].kind = "work"
            /\ \A i \in s + 1 .. r.seen : log[t][i].kind \in {"abort", "quota", "error"} =>
                                             log[t][i].turn # s
      BY <2>3, <2>4 DEF Proved
    <3>2. s \in 1..Len(log[t]) /\ s \in Starts(l)
      BY <2>2
    <3>3. \A i \in s + 1 .. r.seen :
            i \in 1..Len(log[t]) /\ l[i] = log[t][i] /\ i \notin Starts(l)
      BY <1>1, <2>2, <2>3, <2>4, <3>1, <3>2
    <3>4. /\ \E i \in s + 1 .. r.seen : l[i].kind = "work"
          /\ \A i \in s + 1 .. r.seen : l[i].kind \in {"abort", "quota", "error"} =>
                                           l[i].turn # s
      BY <3>1, <3>3
    <3>. QED
      BY <3>1, <3>2, <3>3, <3>4 DEF Proved
  <2>5. Good(l, r)
    BY <1>1, <2>2, <2>3, <2>4 DEF Good
  <2>. QED
    BY <2>5 DEF l
<1>. QED
  BY <1>2, <1>3

(* The evidence that a task's rollout gives.                               *)
LEMMA ReadTells ==
    ASSUME TasksTyped, NEW t \in Tasks, NEW from \in Nat, NEW to \in Nat, to <= Len(log[t])
    PROVE  Tells(log[t], from, to, Evidence(log[t], from, to))
<1>1. log[t] \in Seq(Records) /\ Len(log[t]) \in Nat
  BY DEF TasksTyped
<1>2. ASSUME NEW i \in from + 1 .. to
      PROVE  log[t][i].kind \in Kinds /\ log[t][i].turn \in Nat
  <2>1. i \in 1..Len(log[t])
    BY <1>1
  <2>2. log[t][i] \in Records
    BY <1>1, <2>1, ElementOfSeq
  <2>. QED
    BY <2>2, RecoveryAssumption DEF Records
<1>. QED
  BY <1>2, EvidenceTells

(* What a poll makes of a task, and when it may call it verified.          *)
LEMMA PolledGood ==
    ASSUME TasksTyped, LogsInv, NEW t \in Tasks, Good(log[t], tgt[t])
    PROVE  /\ Polled(t) \in Targets /\ Polled(t).base = tgt[t].base
           /\ Polled(t).seen = Len(log[t]) /\ Polled(t).expected = ExpectedTurn(t)
           /\ Polled(t).sent = tgt[t].sent
           /\ Polled(t).outcome = IF Refuted(t) THEN "failed" ELSE "open"
           /\ Verified(Read(t), ExpectedTurn(t)) =>
                 Proved(log[t], tgt[t].base, Len(log[t]), ExpectedTurn(t))
<1>. DEFINE e == Read(t)
            n == Len(log[t])
            r == tgt[t]
<1>1. r \in Targets /\ r.base \in Nat /\ r.expected \in 0..MaxLog
  BY DEF Good, Targets
<1>2. log[t] \in Seq(Records) /\ n \in 0..MaxLog /\ n \in Nat
  BY DEF TasksTyped
<1>3. Tells(log[t], r.base, n, e)
  BY <1>1, <1>2, ReadTells DEF Read
<1>4. ASSUME e.started
      PROVE  \E s \in Starts(log[t]) : /\ s \in r.base + 1 .. n /\ LastTurn(log[t], s, n, e)
                                       /\ e.turn = s /\ s \in 1..MaxLog
  <2>1. PICK s \in r.base + 1 .. n : LastTurn(log[t], s, n, e)
    BY <1>3, <1>4 DEF Tells
  <2>2. s \in DOMAIN log[t] /\ s \in 1..MaxLog
    BY <1>1, <1>2, LenProperties, RecoveryAssumption
  <2>3. s \in Starts(log[t])
    BY <2>1, <2>2 DEF Starts, LastTurn
  <2>4. log[t][s].turn = s
    BY <2>3 DEF LogsInv
  <2>. QED
    BY <2>1, <2>2, <2>3, <2>4 DEF LastTurn
<1>. HIDE DEF e, n
<1>5. ExpectedTurn(t) \in 0..MaxLog
  BY <1>1, <1>4, RecoveryAssumption DEF ExpectedTurn, e
<1>6. /\ Polled(t) \in Targets /\ Polled(t).base = r.base /\ Polled(t).seen = n
      /\ Polled(t).expected = ExpectedTurn(t) /\ Polled(t).sent = r.sent
      /\ Polled(t).outcome = IF Refuted(t) THEN "failed" ELSE "open"
  <2>. DEFINE outcome == IF Refuted(t) THEN "failed" ELSE "open"
              q == [r EXCEPT !.seen = n, !.expected = ExpectedTurn(t), !.outcome = outcome]
  <2>1. Polled(t) = q
    BY DEF Polled, n
  <2>2. outcome \in Outcomes
    BY DEF Outcomes
  <2>. HIDE DEF outcome, r
  <2>3. /\ q \in Targets /\ q.base = r.base /\ q.seen = n
        /\ q.expected = ExpectedTurn(t) /\ q.sent = r.sent /\ q.outcome = outcome
    BY <1>1, <1>2, <1>5, <2>2 DEF Targets
  <2>. QED
    BY <2>1, <2>3 DEF outcome, n
<1>7. ASSUME Verified(e, ExpectedTurn(t))
      PROVE  Proved(log[t], r.base, n, ExpectedTurn(t))
  <2>1. e.started /\ ExpectedTurn(t) \in {0, e.turn} /\ e.work /\ ~e.failed
    BY <1>7 DEF Verified, MatchesExpected
  <2>2. PICK s \in Starts(log[t]) : /\ s \in r.base + 1 .. n /\ LastTurn(log[t], s, n, e)
                                    /\ e.turn = s
    BY <1>4, <2>1
  <2>3. \A i \in s + 1 .. n : i \notin Starts(log[t])
    BY <2>2 DEF LastTurn, Starts
  <2>4. \E i \in s + 1 .. n : log[t][i].kind = "work"
    BY <2>1, <2>2 DEF LastTurn
  <2>5. \A i \in s + 1 .. n : log[t][i].kind \in {"abort", "quota", "error"} =>
                                 log[t][i].turn # s
    BY <2>1, <2>2 DEF LastTurn, Fails
  <2>6. s > r.base
    BY <1>1, <1>2, <2>2
  <2>. QED
    BY <2>1, <2>2, <2>3, <2>4, <2>5, <2>6 DEF Proved
<1>. QED
  BY <1>6, <1>7 DEF e, n

(* A task that is settled, or whose recovery has just begun, is well typed.*)
LEMMA SettledGood ==
    ASSUME NEW t \in Tasks, tgt[t] \in Targets, NEW outcome \in Outcomes \ {"completed"},
           tgt = [u \in Tasks |-> tgt[u]], Settle(t, outcome)
    PROVE  /\ Good(log[t], tgt'[t]) /\ tgt'[t].outcome = outcome
           /\ \A u \in Tasks \ {t} : tgt'[u] = tgt[u]
<1>. DEFINE q == [NoTarget EXCEPT !.outcome = outcome, !.sent = tgt[t].sent]
<1>1. tgt'[t] = q /\ \A u \in Tasks \ {t} : tgt'[u] = tgt[u]
  BY DEF Settle
<1>2. NoTarget \in Targets /\ NoTarget.seen = 0 /\ NoTarget.base = 0
  BY RecoveryAssumption DEF NoTarget, Targets, TailStates, Outcomes
<1>3. tgt[t].sent \in BOOLEAN
  BY DEF Targets
<1>4. q \in Targets /\ q.seen = 0 /\ q.base = 0 /\ q.outcome = outcome
  <2>1. \A z \in Targets : \A b \in BOOLEAN :
          LET y == [z EXCEPT !.outcome = outcome, !.sent = b]
          IN y \in Targets /\ y.seen = z.seen /\ y.base = z.base /\ y.outcome = outcome
    BY DEF Targets
  <2>. QED
    BY <1>2, <1>3, <2>1
<1>. QED
  BY <1>1, <1>4 DEF Good

(* A target stays one when some of its fields are set.                     *)
LEMMA OutcomeGood ==
    ASSUME NEW l, NEW r \in Targets, r.seen = r.base \/ r.seen <= Len(l),
           NEW outcome \in Outcomes \ {"completed"}
    PROVE  /\ Good(l, [r EXCEPT !.outcome = outcome])
           /\ [r EXCEPT !.outcome = outcome].outcome = outcome
  BY DEF Good, Targets

(* No other field of a target bears on it.                                 *)
LEMMA QueuedGood ==
    ASSUME NEW l, NEW r \in Targets, Good(l, r), r.outcome # "completed", NEW x \in BOOLEAN
    PROVE  Good(l, [r EXCEPT !.queued = x]) /\ [r EXCEPT !.queued = x].outcome = r.outcome
  BY DEF Good, Targets

LEMMA SentGood ==
    ASSUME NEW l, NEW r \in Targets, Good(l, r), r.outcome # "completed"
    PROVE  Good(l, [r EXCEPT !.sent = TRUE]) /\ [r EXCEPT !.sent = TRUE].outcome = r.outcome
  BY DEF Good, Targets

LEMMA ExpectedGood ==
    ASSUME NEW l, NEW r \in Targets, Good(l, r), r.outcome # "completed",
           NEW x \in 0..MaxLog
    PROVE  /\ Good(l, [r EXCEPT !.expected = x])
           /\ [r EXCEPT !.expected = x].outcome = r.outcome
  BY DEF Good, Targets

(* What the last record says of a task is one of the five states.          *)
LEMMA StateTyped ==
    ASSUME TasksTyped, NEW t \in Tasks
    PROVE  State(t) \in TailStates
<1>1. log[t] \in Seq(Records) /\ Len(log[t]) \in 1..Len(log[t])
  BY DEF TasksTyped
<1>2. log[t][Len(log[t])] \in Records
  BY <1>1, ElementOfSeq
<1>3. log[t][Len(log[t])].kind \in Kinds
  BY <1>2 DEF Records
<1>. QED
  BY <1>3 DEF State, TailState, TailStates, Kinds, Ends

(* A target is good and, unless it is observed, not completed.             *)
Fine(t, r) == Good(log[t], r) /\ (r.outcome = "completed" => pc' = "observe")

(* Every step of recover_threads makes good targets of good ones.          *)
LEMMA PrepareScanGood ==
    ASSUME IInv, LogsInv, TargetsInv, NEW t \in Tasks, Prepare(t) \/ Scan(t)
    PROVE  \A u \in Tasks : Fine(u, tgt'[u])
<1>1. /\ TasksTyped /\ tgt = [u \in Tasks |-> tgt[u]] /\ pc \in {"prepare", "scan"}
      /\ \A u \in Tasks : queue[u] \in Queues
  BY DEF IInv, TypeInv, OperationTyped, Prepare, Scan, TasksTyped
<1>2. \A u \in Tasks : Good(log[u], tgt[u]) /\ tgt[u] \in Targets /\ tgt[u].outcome # "completed"
  BY <1>1 DEF TargetsInv, Good
<1>3. ASSUME Settle(t, "retry")
      PROVE  \A u \in Tasks : Fine(u, tgt'[u])
  BY <1>1, <1>2, <1>3, SettledGood DEF Outcomes, Fine
<1>4. /\ Polled(t) \in Targets /\ Polled(t).seen = Len(log[t])
      /\ Polled(t).outcome \in {"open", "failed"} /\ Len(log[t]) \in Nat
  BY <1>1, <1>2, PolledGood DEF TasksTyped
<1>5. Good(log[t], Polled(t))
  BY <1>4 DEF Good
<1>6. CASE Prepare(t) /\ ~Settle(t, "retry")
  <2>1. PICK blind \in Blind, rotated \in BOOLEAN :
          LET target == [Polled(t) EXCEPT !.state = Inspected(t, blind), !.auth = rotated,
                                          !.queued = queue[t].n > 0]
          IN tgt' = [tgt EXCEPT ![t] =
                       IF Inspected(t, blind) = "clean" /\ queue[t].n = 0
                       THEN [target EXCEPT !.outcome = "skipped"] ELSE target]
    BY <1>6 DEF Prepare
  <2>. DEFINE target == [Polled(t) EXCEPT !.state = Inspected(t, blind), !.auth = rotated,
                                          !.queued = queue[t].n > 0]
  <2>2. Inspected(t, blind) \in TailStates
    BY <1>1, StateTyped, InspectionSays DEF TailStates
  <2>3. /\ Good(log[t], target) /\ target \in Targets
        /\ target.outcome \in {"open", "failed"} /\ target.seen = Len(log[t])
    <3>1. target \in Targets /\ target.outcome = Polled(t).outcome
          /\ target.seen = Polled(t).seen
      <4>1. PICK p : p = Polled(t)
        OBVIOUS
      <4>2. PICK busy : busy = (queue[t].n > 0)
        OBVIOUS
      <4>3. p \in Targets /\ busy \in BOOLEAN
        BY <1>4, <4>1, <4>2
      <4>4. target = [p EXCEPT !.state = Inspected(t, blind), !.auth = rotated, !.queued = busy]
        BY <4>1, <4>2
      <4>. HIDE DEF target
      <4>5. target \in Targets /\ target.outcome = p.outcome /\ target.seen = p.seen
        BY <2>1, <2>2, <4>3, <4>4 DEF Targets
      <4>. QED
        BY <4>1, <4>5
    <3>. HIDE DEF target
    <3>. QED
      BY <1>4, <3>1 DEF Good
  <2>4. tgt' = [tgt EXCEPT ![t] = target]
        \/ tgt' = [tgt EXCEPT ![t] = [target EXCEPT !.outcome = "skipped"]]
    BY <2>1
  <2>. HIDE DEF target
  <2>5. /\ Good(log[t], [target EXCEPT !.outcome = "skipped"])
        /\ [target EXCEPT !.outcome = "skipped"].outcome = "skipped"
    <3>1. "skipped" \in Outcomes \ {"completed"}
      BY DEF Outcomes
    <3>2. target.seen <= Len(log[t])
      BY <1>4, <2>3
    <3>. QED
      BY <2>3, <3>1, <3>2, OutcomeGood
  <2>. QED
    BY <1>1, <1>2, <2>3, <2>4, <2>5 DEF Fine
<1>7. CASE Scan(t) /\ ~Settle(t, "retry")
  BY <1>1, <1>2, <1>4, <1>5, <1>7 DEF Scan, Fine
<1>. QED
  BY <1>3, <1>6, <1>7 DEF Prepare, Scan

(* a request that is found, taken back or put off ...                      *)
LEMMA DispatchGood ==
    ASSUME IInv, LogsInv, TargetsInv, (\E t \in Tasks : Dispatch(t)) \/ NoChannel
    PROVE  \A u \in Tasks : Fine(u, tgt'[u])
<1>1. /\ TasksTyped /\ tgt = [u \in Tasks |-> tgt[u]] /\ pc = "dispatch"
      /\ \A u \in Tasks : queue[u] \in Queues
      /\ op.ids \subseteq Tasks
  BY DEF IInv, TypeInv, OperationTyped, Operations, Dispatch, NoChannel, TasksTyped
<1>2. \A u \in Tasks : /\ Good(log[u], tgt[u]) /\ tgt[u] \in Targets
                       /\ tgt[u].outcome # "completed"
                       /\ tgt[u].seen = tgt[u].base \/ tgt[u].seen <= Len(log[u])
  BY <1>1 DEF TargetsInv, Good
<1>3. UNCHANGED tgt => \A u \in Tasks : Fine(u, tgt'[u])
  BY <1>2 DEF Fine
<1>4. "retry" \in Outcomes \ {"completed"}
  BY DEF Outcomes
<1>5. ASSUME NEW t \in Tasks, Dispatch(t)
      PROVE  \A u \in Tasks : Fine(u, tgt'[u])
  <2>1. CASE Settle(t, "retry")
    BY <1>1, <1>2, <1>4, <2>1, SettledGood DEF Fine
  <2>2. CASE tgt' = [tgt EXCEPT ![t].queued = queue[t].n > 0]
    <3>. DEFINE x == queue[t].n > 0
                q == [tgt[t] EXCEPT !.queued = x]
    <3>1. tgt'[t] = q /\ \A u \in Tasks \ {t} : tgt'[u] = tgt[u]
      BY <1>1, <2>2
    <3>2. Good(log[t], q) /\ q.outcome # "completed"
      <4>1. x \in BOOLEAN
        OBVIOUS
      <4>2. Good(log[t], tgt[t]) /\ tgt[t] \in Targets /\ tgt[t].outcome # "completed"
        BY <1>2
      <4>. HIDE DEF x
      <4>. QED
        BY <4>1, <4>2, QueuedGood
    <3>. QED
      BY <1>2, <3>1, <3>2 DEF Fine
  <2>. QED
    BY <1>3, <1>5, <2>1, <2>2 DEF Dispatch
<1>6. CASE NoChannel
  <2>1. ASSUME NEW u \in Tasks
        PROVE  Fine(u, tgt'[u])
    <3>1. tgt'[u] \in {tgt[u], Polled(u), [tgt[u] EXCEPT !.outcome = "retry"]}
      BY <1>6 DEF NoChannel
    <3>2. Good(log[u], Polled(u)) /\ Polled(u).outcome # "completed"
      <4>1. /\ Polled(u) \in Targets /\ Polled(u).seen = Len(log[u])
            /\ Polled(u).outcome # "completed"
        BY <1>1, <1>2, PolledGood
      <4>2. Len(log[u]) \in Nat
        BY <1>1 DEF TasksTyped
      <4>. QED
        BY <4>1, <4>2 DEF Good
    <3>3. /\ Good(log[u], [tgt[u] EXCEPT !.outcome = "retry"])
          /\ [tgt[u] EXCEPT !.outcome = "retry"].outcome = "retry"
      <4>1. tgt[u] \in Targets /\ (tgt[u].seen = tgt[u].base \/ tgt[u].seen <= Len(log[u]))
        BY <1>2
      <4>. QED
        BY <1>4, <4>1, OutcomeGood
    <3>. QED
      BY <1>2, <3>1, <3>2, <3>3 DEF Fine
  <2>. QED
    BY <2>1
<1>. QED
  BY <1>5, <1>6

(* the steps of a single task ...                                          *)
LEMMA TaskGood ==
    ASSUME IInv, LogsInv, TargetsInv, DispatchStep
    PROVE  \A u \in Tasks : Fine(u, tgt'[u])
<1>. DEFINE t == op.cur
<1>1. /\ TasksTyped /\ tgt = [u \in Tasks |-> tgt[u]] /\ pc \in AtTask
      /\ op \in Operations
  BY DEF IInv, TypeInv, OperationTyped, DispatchStep, Check, Mark, Confirm, Send, Await,
     AtTask
<1>2. t \in Tasks /\ op.reply \in 0..MaxLog
  <2>1. t \in op.todo /\ op.todo \subseteq op.ids /\ op.ids \subseteq Tasks
    BY <1>1 DEF IInv, Control, AtHand, NotYetAsked, Looping, Operations
  <2>. QED
    BY <1>1, <2>1 DEF Operations
<1>3. \A u \in Tasks : /\ Good(log[u], tgt[u]) /\ tgt[u] \in Targets
                       /\ tgt[u].outcome # "completed"
                       /\ tgt[u].seen = tgt[u].base \/ tgt[u].seen <= Len(log[u])
  BY <1>1 DEF TargetsInv, Good, AtTask
<1>. HIDE DEF t
<1>4. "retry" \in Outcomes \ {"completed"} /\ "failed" \in Outcomes \ {"completed"}
  BY DEF Outcomes
<1>5. Good(log[t], Polled(t)) /\ Polled(t).outcome # "completed"
  <2>1. /\ Polled(t) \in Targets /\ Polled(t).seen = Len(log[t])
        /\ Polled(t).outcome # "completed" /\ Len(log[t]) \in Nat
    BY <1>1, <1>2, <1>3, PolledGood DEF TasksTyped
  <2>. QED
    BY <2>1 DEF Good
<1>6. /\ Good(log[t], [tgt[t] EXCEPT !.sent = TRUE])
      /\ [tgt[t] EXCEPT !.sent = TRUE].outcome # "completed"
      /\ Good(log[t], [tgt[t] EXCEPT !.expected = op.reply])
      /\ [tgt[t] EXCEPT !.expected = op.reply].outcome # "completed"
  BY <1>2, <1>3, SentGood, ExpectedGood
<1>7. \/ UNCHANGED tgt
      \/ tgt' = [tgt EXCEPT ![t] = Polled(t)]
      \/ Settle(t, "retry") \/ Settle(t, "failed")
      \/ tgt' = [tgt EXCEPT ![t] = [tgt[t] EXCEPT !.sent = TRUE]]
      \/ tgt' = [tgt EXCEPT ![t] = [tgt[t] EXCEPT !.expected = op.reply]]
  BY DEF DispatchStep, Check, Mark, Confirm, Send, Await, t
<1>8. CASE Settle(t, "retry") \/ Settle(t, "failed")
  BY <1>1, <1>2, <1>3, <1>4, <1>8, SettledGood DEF Fine
<1>9. CASE ~(Settle(t, "retry") \/ Settle(t, "failed"))
  BY <1>1, <1>2, <1>3, <1>5, <1>6, <1>7, <1>9 DEF Fine
<1>. QED
  BY <1>8, <1>9

(* the polls that watch a turn to its end ...                              *)
LEMMA ObserveGood ==
    ASSUME IInv, LogsInv, TargetsInv, NEW t \in Tasks, Observe(t)
    PROVE  \A u \in Tasks : Fine(u, tgt'[u])
<1>1. /\ TasksTyped /\ tgt = [u \in Tasks |-> tgt[u]] /\ pc = "observe" /\ pc' = "observe"
      /\ \A u \in Tasks : Good(log[u], tgt[u]) /\ tgt[u] \in Targets
  BY DEF IInv, TypeInv, OperationTyped, Observe, TargetsInv, Good
<1>2. CASE Settle(t, "failed")
  BY <1>1, <1>2, SettledGood DEF Outcomes, Fine
<1>3. /\ Polled(t) \in Targets /\ Polled(t).seen = Len(log[t]) /\ Len(log[t]) \in Nat
      /\ Polled(t).base = tgt[t].base /\ Polled(t).expected = ExpectedTurn(t)
      /\ Polled(t).outcome # "completed"
      /\ Verified(Read(t), ExpectedTurn(t)) =>
            Proved(log[t], tgt[t].base, Len(log[t]), ExpectedTurn(t))
  BY <1>1, PolledGood DEF TasksTyped
<1>4. Good(log[t], Polled(t)) /\ Good(log[t], [Polled(t) EXCEPT !.outcome = "failed"])
  BY <1>3 DEF Good, Targets, Outcomes
<1>5. ASSUME Verified(Read(t), ExpectedTurn(t))
      PROVE  Good(log[t], [Polled(t) EXCEPT !.outcome = "completed"])
  <2>1. Proved(log[t], tgt[t].base, Len(log[t]), ExpectedTurn(t))
    BY <1>3, <1>5
  <2>. DEFINE q == [Polled(t) EXCEPT !.outcome = "completed"]
  <2>2. /\ q \in Targets /\ q.seen = Len(log[t]) /\ q.base = tgt[t].base
        /\ q.expected = ExpectedTurn(t)
    BY <1>3 DEF Targets, Outcomes
  <2>. HIDE DEF q
  <2>3. Good(log[t], q)
    BY <1>3, <2>1, <2>2 DEF Good
  <2>. QED
    BY <2>3 DEF q
<1>6. CASE ~Settle(t, "failed")
  <2>1. \E q : Good(log[t], q) /\ tgt' = [tgt EXCEPT ![t] = q]
    BY <1>4, <1>5, <1>6 DEF Observe
  <2>. QED
    BY <1>1, <2>1 DEF Fine
<1>. QED
  BY <1>2, <1>6

(* The targets a recovery begins with.                                     *)
LEMMA BeginGood ==
    ASSUME IInv, LogsInv, TargetsInv, Begin
    PROVE  \A u \in Tasks : Fine(u, tgt'[u])
<1>1. NoTarget \in Targets /\ NoTarget.seen = 0 /\ NoTarget.base = 0 /\ NoTarget.outcome = "open"
  BY RecoveryAssumption DEF NoTarget, Targets, TailStates, Outcomes
<1>2. CASE tgt' = NoTargets
  BY <1>1, <1>2 DEF NoTargets, Fine, Good
<1>3. CASE tgt' # NoTargets
  <2>1. tgt' = [t \in Tasks |->
                  IF t \in op.ids
                  THEN [NoTarget EXCEPT !.base = View(t), !.seen = View(t)]
                  ELSE NoTarget]
    BY <1>3 DEF Begin, Return
  <2>2. TasksTyped /\ manifest \in Manifests /\ op \in Operations
    BY DEF IInv, TypeInv, OperationTyped
  <2>3. \A u \in op.ids : Checkpointed[u] \in Entries
    BY <2>2, CheckpointEntries DEF Manifests, Maybe, Entered
  <2>4. \A u \in op.ids : u \in Tasks /\ View(u) \in 0..MaxLog
    BY <2>2, <2>3 DEF View, Operations, Entries, TasksTyped
  <2>5. ASSUME NEW v \in 0..MaxLog, NEW q, q = [NoTarget EXCEPT !.base = v, !.seen = v]
        PROVE  q \in Targets /\ q.seen = q.base /\ q.outcome = "open"
    BY <1>1, <2>5 DEF Targets
  <2>6. \A u \in Tasks : /\ tgt'[u] \in Targets /\ tgt'[u].seen = tgt'[u].base
                         /\ tgt'[u].outcome = "open"
    BY <1>1, <2>1, <2>4, <2>5
  <2>. QED
    BY <2>6 DEF Fine, Good
<1>. QED
  BY <1>2, <1>3

(* So every step keeps what the targets tell.                              *)
LEMMA TargetsKept ==
    ASSUME IInv, LogsInv, TargetsInv, [Next]_vars
    PROVE  TargetsInv'
<1>1. TypeInv /\ TasksTyped
  BY DEF IInv, TypeInv
<1>2. SUFFICES \A u \in Tasks : Fine(u, tgt'[u])
  <2>. SUFFICES ASSUME \A u \in Tasks : Fine(u, tgt'[u]) PROVE TargetsInv'
    OBVIOUS
  <2>. SUFFICES ASSUME NEW u \in Tasks
                PROVE  Good(log[u], tgt[u])' /\ (tgt'[u].outcome = "completed" => pc' = "observe")
    BY DEF TargetsInv
  <2>1. Fine(u, tgt'[u]) /\ Grown(u)
    BY <1>1, RolloutsGrow
  <2>2. Good(log'[u], tgt'[u])
    BY <1>1, <2>1, GoodStays DEF Fine
  <2>. QED
    BY <2>1, <2>2 DEF Fine, Good
<1>3. ASSUME UNCHANGED tgt, pc = "observe" => pc' = "observe"
      PROVE  \A u \in Tasks : Fine(u, tgt'[u])
  BY <1>3 DEF TargetsInv, Fine
<1>4. ASSUME Return
      PROVE  \A u \in Tasks : Fine(u, tgt'[u])
  <2>1. NoTarget \in Targets /\ NoTarget.seen = 0 /\ NoTarget.base = 0
        /\ NoTarget.outcome = "open"
    BY RecoveryAssumption DEF NoTarget, Targets, TailStates, Outcomes
  <2>. QED
    BY <1>4, <2>1 DEF Return, NoTargets, Fine, Good
<1>5. CASE UNCHANGED vars
  BY <1>3, <1>5 DEF vars, opVars
<1>6. CASE OperationStep
  <2>1. CASE RestartStep
    BY <1>3, <1>4, <2>1 DEF RestartStep, PrepareRotation, RollBack, Stop, Checkpoint,
       Relaunch, ConfirmRotation, Switch, Launch, Goto
  <2>2. CASE Begin
    BY <2>2, BeginGood
  <2>3. CASE Finalize
    BY <1>4, <2>3 DEF Finalize
  <2>4. CASE NoChannel \/ TargetSteps
    BY <2>4, DispatchGood, PrepareScanGood, ObserveGood DEF TargetSteps
  <2>5. CASE DispatchStep
    BY <2>5, TaskGood
  <2>. QED
    BY <1>6, <2>1, <2>2, <2>3, <2>4, <2>5 DEF OperationStep
<1>7. CASE Requests
  BY <1>3, <1>7 DEF Requests, StartRestart, Resume, Probe, Discover, StartRecovery, Goto
<1>8. CASE Environment
  BY <1>3, <1>4, <1>8 DEF Environment, Crash, UserQuits, UserLaunches, Login, UserStart,
     Work, TurnEnds, UserQueues, Deliver, Lose, opVars
<1>. QED
  BY <1>5, <1>6, <1>7, <1>8 DEF Next

(* Only tasks are asked, owed or resumed.                                  *)
LEMMA SetsKept ==
    ASSUME IInv, SetsInv, [Next]_vars
    PROVE  SetsInv'
<1>. USE DEF SetsInv
<1>1. op \in Operations /\ op.ids \subseteq Tasks
  BY DEF IInv, TypeInv, OperationTyped, Operations
<1>2. UNCHANGED <<inflight, owed, resumed>> => SetsInv'
  OBVIOUS
<1>3. CASE UNCHANGED vars
  BY <1>2, <1>3 DEF vars, history
<1>4. CASE RestartStep
  <2>1. CASE Stop
    BY <1>1, <2>1 DEF Stop, DesktopEnds
  <2>2. CASE RestartStep /\ ~Stop
    BY <1>2, <2>2 DEF RestartStep, PrepareRotation, RollBack, Checkpoint, Relaunch,
       ConfirmRotation, Switch, Launch, Named, history
  <2>. QED
    BY <1>4, <2>1, <2>2
<1>5. CASE Begin
  BY <1>1, <1>5 DEF Begin, Named, history
<1>6. CASE NoChannel \/ Finalize \/ TargetSteps
  BY <1>2, <1>6 DEF NoChannel, Finalize, TargetSteps, Prepare, Scan, Dispatch, TargetStep,
     Observe, history
<1>7. CASE DispatchStep
  <2>1. CASE Send
    <3>1. op.cur \in Tasks
      BY <1>1, <2>1 DEF Send, IInv, Control, AtHand, AtTask, NotYetAsked, Looping
    <3>. QED
      BY <2>1, <3>1 DEF Send
  <2>. QED
    BY <1>2, <1>7, <2>1 DEF DispatchStep, Check, Mark, Confirm, Await, history
<1>8. CASE Requests
  BY <1>2, <1>8 DEF Requests, StartRestart, Resume, Probe, Discover, Named, history
<1>9. CASE Environment
  <2>1. CASE UserQuits
    BY <2>1 DEF UserQuits, DesktopEnds
  <2>2. CASE ~UserQuits
    BY <1>2, <1>9, <2>2 DEF Environment, Crash, UserLaunches, Login, UserStart, Work,
       TurnEnds, UserQueues, Deliver, Lose, TurnStarts, history
  <2>. QED
    BY <2>1, <2>2
<1>. QED
  BY <1>3, <1>4, <1>5, <1>6, <1>7, <1>8, <1>9 DEF Next, OperationStep

(* Rollouts, targets and sets: the invariant about what recovery reads.    *)
Truth == LogsInv /\ TargetsInv /\ SetsInv

(* It holds at first, when each task has the one record of its live turn.  *)
LEMMA TruthInitial == Init => Truth
<1>. SUFFICES ASSUME Init PROVE Truth
  OBVIOUS
<1>1. NoTarget \in Targets /\ NoTarget.seen = 0 /\ NoTarget.base = 0
      /\ NoTarget.outcome = "open"
  BY RecoveryAssumption DEF NoTarget, Targets, TailStates, Outcomes
<1>2. TargetsInv
  BY <1>1 DEF Init, NoTargets, TargetsInv, Good
<1>3. LogsInv
  <2>. SUFFICES ASSUME NEW t \in Tasks
                PROVE  /\ \A i \in Starts(log[t]) : log[t][i].turn = i
                       /\ running[t] # 0 => /\ running[t] \in Starts(log[t])
                                            /\ NoStart(log[t], running[t])
    BY DEF LogsInv
  <2>1. log[t] = <<Record("start", 1)>> /\ running[t] = 1
    BY DEF Init
  <2>. QED
    BY <2>1 DEF Starts, NoStart, Record
<1>. QED
  BY <1>2, <1>3 DEF Init, Truth, SetsInv

(* Every step keeps it.                                                    *)
LEMMA TruthInductive == IInv /\ Truth /\ [Next]_vars => Truth'
<1>. SUFFICES ASSUME IInv, Truth, [Next]_vars PROVE Truth'
  OBVIOUS
<1>1. TasksTyped /\ \A t \in Tasks : Grown(t)
  BY RolloutsGrow DEF IInv, TypeInv
<1>. QED
  BY <1>1, LogsKept, TargetsKept, SetsKept DEF Truth

(* It holds with the one of the request.                                   *)
LEMMA AlwaysTrue == Spec => [](IInv /\ Truth)
<1>1. Init => IInv /\ Truth
  BY Initial, TruthInitial
<1>2. IInv /\ Truth /\ [Next]_vars => (IInv /\ Truth)'
  BY Inductive, TruthInductive
<1>. QED
  BY <1>1, <1>2, PTL DEF Spec

(* The journal, the operation and what it makes of its tasks are well      *)
(* typed in every reachable state, the turn read from a rollout included.  *)
THEOREM TypeCorrect == Spec => []TypeOK
<1>1. IInv /\ Truth => TypeOK
  <2>. SUFFICES ASSUME IInv, Truth PROVE TypeOK
    OBVIOUS
  <2>1. tgt \in [Tasks -> Targets]
    BY DEF IInv, TypeInv, OperationTyped, Truth, TargetsInv, Good
  <2>. QED
    BY <2>1 DEF IInv, TypeInv, TasksTyped, SessionTyped, OperationTyped, HistoryTyped,
       Served, Truth, SetsInv, TypeOK, Records
<1>. QED
  BY <1>1, AlwaysTrue, PTL

(* Whatever a rollout holds and however often it was read, what recovery   *)
(* reports as verified is what the rollout says as a whole.                *)
THEOREM VerifiedAlwaysTrue == Spec => []VerifiedTruth
<1>1. IInv /\ Truth => VerifiedTruth
  BY DEF IInv, TypeInv, OperationTyped, Operations, Truth, TargetsInv, Good, VerifiedTruth
<1>. QED
  BY <1>1, AlwaysTrue, PTL

-----------------------------------------------------------------------------
(* The checkpoint a request is sent from                                   *)

(* While tasks are recovered the journal holds what is kept in memory, or  *)
(* nothing where an entry was consumed.                                    *)
Held == /\ pc \in Recovering => \A t \in Tasks : manifest[t] \in {mem[t], None}
        /\ pc \in {"confirm", "send"} => op.entry = mem[op.cur]

(* An open task is read from its checkpoint on; no turn has started since  *)
(* when its request is about to leave.                                     *)
Based ==
    /\ pc \in Looping /\ op.mode # "explicit" =>
          \A t \in op.ids : tgt[t].outcome = "open" => tgt[t].base = mem[t].off
    /\ pc = "prepare" => \A t \in op.todo : tgt[t].outcome = "open"
    /\ pc \in AtTask => tgt[op.cur].outcome = "open"
    /\ Race = FALSE /\ pc \in {"mark", "confirm", "send"} =>
          NoStart(log[op.cur], tgt[op.cur].base)

(* The environment leaves the operation where it is, but for a crash.      *)
LEMMA EnvironmentLeaves ==
    ASSUME TypeInv, Environment, ~Crash
    PROVE  /\ UNCHANGED <<manifest, asked, pc, tgt, mem>>
           /\ op'.ids = op.ids /\ op'.acct = op.acct /\ op'.todo = op.todo
           /\ op'.cur = op.cur /\ op'.entry = op.entry /\ op'.to = op.to
           /\ op'.mode = op.mode /\ op'.claimed = op.claimed
<1>. op \in Operations
  BY DEF TypeInv, OperationTyped
<1>1. UNCHANGED <<manifest, asked, pc, tgt, mem>>
  BY DEF Environment, UserQuits, UserLaunches, Login, UserStart, Work, TurnEnds,
     UserQueues, Deliver, Lose, opVars, history
<1>2. \/ UNCHANGED op
      \/ op' = [op EXCEPT !.mine = FALSE]
      \/ \E n : op' = [op EXCEPT !.reply = n]
  BY DEF Environment, UserQuits, UserLaunches, Login, UserStart, Work, TurnEnds,
     UserQueues, Deliver, Lose, opVars
<1>. QED
  BY <1>1, <1>2 DEF Operations

(* Where a step of a loop leads.                                           *)
LEMMA DoneLeads ==
    ASSUME op \in Operations, NEW t, NEW step, NEW next, Done(t, step, next)
    PROVE  /\ op'.ids = op.ids /\ op'.mode = op.mode /\ op'.acct = op.acct
           /\ op'.claimed = op.claimed
           /\ \/ pc' = next /\ op'.todo = op.ids /\ op.todo = {t}
              \/ pc' = step /\ op'.todo = op.todo \ {t} /\ op.todo # {t}
  BY DEF Done, Goto, Operations

(* And where a task that is given up leads.                                *)
LEMMA LeaveLeads ==
    ASSUME op \in Operations, NEW t, Leave(t)
    PROVE  /\ op'.ids = op.ids /\ op'.mode = op.mode /\ op'.acct = op.acct
           /\ op'.claimed = op.claimed
           /\ \/ pc' = "observe" /\ op'.todo = op.ids /\ op.todo = {t}
              \/ pc' = "dispatch" /\ op'.todo = op.todo \ {t} /\ op.todo # {t}
  BY DEF Leave, Goto, Operations

(* A recovery keeps the journal it read and reads from its checkpoints.    *)
LEMMA BeginBased ==
    ASSUME IInv, Begin
    PROVE  Held' /\ Based'
<1>1. CASE pc' = "idle"
  BY <1>1 DEF Held, Based, Recovering, Looping, AtTask
<1>2. CASE pc' # "idle"
  <2>1. op \in Operations /\ op.ids \subseteq Tasks
    BY DEF IInv, TypeInv, OperationTyped, Operations
  <2>2. /\ manifest' = Checkpointed /\ mem' = Checkpointed
        /\ op' = [op EXCEPT !.acct = acct, !.claimed = Claims, !.todo = op.ids]
        /\ tgt' = [t \in Tasks |->
                      IF t \in op.ids
                      THEN [NoTarget EXCEPT !.base = View(t), !.seen = View(t)]
                      ELSE NoTarget]
        /\ pc' \in {"prepare", "finalize"}
    BY <1>2 DEF Begin, Return, Goto
  <2>3. op'.ids = op.ids /\ op'.mode = op.mode /\ op'.todo = op.ids
    BY <2>1, <2>2 DEF Operations
  <2>4. \A t \in op.ids : tgt'[t].outcome = "open" /\ tgt'[t].base = View(t)
    BY <2>1, <2>2 DEF NoTarget
  <2>5. op.mode # "explicit" => \A t \in op.ids : View(t) = mem'[t].off
    BY <2>2 DEF View, Claims
  <2>. QED
    BY <2>2, <2>3, <2>4, <2>5 DEF Held, Based, Recovering, Looping, AtTask
<1>. QED
  BY <1>1, <1>2

(* The passes over all tasks keep to them ...                              *)
LEMMA LoopBased ==
    ASSUME IInv, Truth, Held, Based, NEW t \in Tasks,
           Prepare(t) \/ Scan(t) \/ Dispatch(t)
    PROVE  Held' /\ Based'
<1>1. /\ op \in Operations /\ op.ids \subseteq Tasks /\ TasksTyped
      /\ op.todo \subseteq op.ids /\ t \in op.todo
      /\ tgt = [u \in Tasks |-> tgt[u]] /\ tgt[t] \in Targets
      /\ pc \in {"prepare", "scan", "dispatch"} /\ UNCHANGED <<log, manifest, mem>>
  BY DEF IInv, TypeInv, OperationTyped, Operations, Control, NotYetAsked, Looping, Truth,
     TargetsInv, Good, Prepare, Scan, Dispatch, TargetStep, taskVars
<1>2. Polled(t).base = tgt[t].base
  BY <1>1, PolledGood DEF Truth, TargetsInv
<1>3. pc \in {"prepare", "scan", "dispatch"} /\ pc \in Looping /\ pc \in Recovering
  BY <1>1 DEF Looping, Recovering
<1>4. ASSUME NEW step, NEW next, Done(t, step, next), step = pc,
             next \in {"scan", "dispatch", "observe"}, step = "prepare" => next = "scan",
             \A u \in Tasks \ {t} : tgt'[u] = tgt[u],
             tgt'[t].outcome = "open" =>
                tgt[t].outcome = "open" /\ tgt'[t].base = tgt[t].base
      PROVE  Held' /\ Based'
  <2>1. /\ op'.ids = op.ids /\ op'.mode = op.mode
        /\ \/ pc' = next /\ op'.todo = op.ids /\ op.todo = {t}
           \/ pc' = step /\ op'.todo = op.todo \ {t} /\ op.todo # {t}
    BY <1>1, <1>4, DoneLeads
  <2>2. pc' \notin AtTask /\ pc' # "finalize" /\ (pc' = "prepare" => pc = "prepare")
    BY <1>1, <1>4, <2>1 DEF AtTask
  <2>3. Held'
    BY <1>1, <1>3, <2>2 DEF Held, AtTask
  <2>4. /\ op.mode # "explicit" =>
              \A u \in op.ids : tgt'[u].outcome = "open" => tgt'[u].base = mem[u].off
        /\ pc' = "prepare" => \A u \in op'.todo : tgt'[u].outcome = "open"
    BY <1>1, <1>3, <1>4, <2>1, <2>2 DEF Based
  <2>. QED
    BY <1>1, <2>1, <2>2, <2>3, <2>4 DEF Based, AtTask
<1>5. ASSUME Settle(t, "retry")
      PROVE  /\ tgt'[t].outcome = "retry" /\ \A u \in Tasks \ {t} : tgt'[u] = tgt[u]
  BY <1>1, <1>5, SettledGood DEF Outcomes
<1>6. CASE Prepare(t)
  <2>1. Done(t, "prepare", "scan") /\ pc = "prepare" /\ tgt[t].outcome = "open"
    BY <1>1, <1>6 DEF Prepare, Based
  <2>2. CASE Settle(t, "retry")
    BY <1>4, <1>5, <2>1, <2>2
  <2>3. CASE ~Settle(t, "retry")
    <3>1. PICK blind, rotated :
            LET target == [Polled(t) EXCEPT !.state = Inspected(t, blind), !.auth = rotated,
                                            !.queued = queue[t].n > 0]
            IN tgt' = [tgt EXCEPT ![t] =
                         IF Inspected(t, blind) = "clean" /\ queue[t].n = 0
                         THEN [target EXCEPT !.outcome = "skipped"] ELSE target]
      BY <1>6, <2>3 DEF Prepare
    <3>2. /\ tgt'[t].base = Polled(t).base
          /\ \A u \in Tasks \ {t} : tgt'[u] = tgt[u]
      <4>1. Polled(t) \in Targets
        BY <1>1, PolledGood DEF Truth, TargetsInv
      <4>. QED
        BY <1>1, <3>1, <4>1 DEF Targets
    <3>. QED
      BY <1>2, <1>4, <2>1, <3>2
  <2>. QED
    BY <2>2, <2>3
<1>7. CASE Scan(t)
  <2>1. Done(t, "scan", "dispatch") /\ pc = "scan"
    BY <1>7 DEF Scan
  <2>2. CASE Settle(t, "retry")
    BY <1>4, <1>5, <2>1, <2>2
  <2>3. CASE ~Settle(t, "retry")
    <3>1. \/ UNCHANGED tgt
          \/ tgt[t].outcome = "open" /\ tgt' = [tgt EXCEPT ![t] = Polled(t)]
      BY <1>7, <2>3 DEF Scan
    <3>. QED
      BY <1>1, <1>2, <1>4, <2>1, <3>1
  <2>. QED
    BY <2>2, <2>3
<1>8. CASE Dispatch(t) /\ Done(t, "dispatch", "observe")
  <2>1. pc = "dispatch" /\ (UNCHANGED tgt \/ Settle(t, "retry"))
    <3>1. Goto("check") => ~Done(t, "dispatch", "observe")
      BY DEF Goto, Done
    <3>. QED
      BY <1>8, <3>1 DEF Dispatch
  <2>. QED
    BY <1>4, <1>5, <1>8, <2>1
<1>9. CASE Dispatch(t) /\ ~Done(t, "dispatch", "observe")
  <2>1. /\ pc = "dispatch" /\ tgt[t].outcome = "open" /\ pc' = "check"
        /\ op' = [op EXCEPT !.cur = t, !.rev = queue[t].rev]
        /\ tgt' = [tgt EXCEPT ![t].queued = queue[t].n > 0]
    BY <1>9 DEF Dispatch, Goto
  <2>2. op'.ids = op.ids /\ op'.mode = op.mode /\ op'.cur = t
    BY <1>1, <2>1 DEF Operations
  <2>3. /\ \A u \in Tasks \ {t} : tgt'[u] = tgt[u]
        /\ tgt'[t].base = tgt[t].base /\ tgt'[t].outcome = tgt[t].outcome
    BY <1>1, <2>1 DEF Targets
  <2>. QED
    BY <1>1, <1>3, <2>1, <2>2, <2>3 DEF Held, Based, Looping, AtTask, Recovering
<1>. QED
  BY <1>6, <1>7, <1>8, <1>9

(* The request of the task at hand.                                        *)
LEMMA TaskBased ==
    ASSUME IInv, Truth, Held, Based, DispatchStep
    PROVE  Held' /\ Based'
<1>. DEFINE t == op.cur
<1>1. /\ op \in Operations /\ op.ids \subseteq Tasks /\ TasksTyped
      /\ op.todo \subseteq op.ids /\ t \in op.todo /\ t \in Tasks
      /\ tgt = [u \in Tasks |-> tgt[u]] /\ tgt[t] \in Targets
      /\ pc \in AtTask /\ UNCHANGED <<log, mem>>
      /\ manifest \in Manifests
  <2>1. pc \in AtTask /\ UNCHANGED <<log, mem>>
    BY DEF DispatchStep, Check, Mark, Confirm, Send, Await, AtTask, taskVars
  <2>. QED
    BY <2>1 DEF IInv, TypeInv, OperationTyped, Operations, Control, NotYetAsked, AtHand,
       Looping, Truth, TargetsInv, Good
<1>2. /\ tgt[t].outcome = "open" /\ \A u \in Tasks : manifest[u] \in {mem[u], None}
      /\ op.mode # "explicit" =>
            \A u \in op.ids : tgt[u].outcome = "open" => tgt[u].base = mem[u].off
  BY <1>1 DEF Based, Held, Recovering, Looping
<1>. HIDE DEF t
<1>3. ASSUME Leave(t), \A u \in Tasks : manifest'[u] \in {mem[u], None},
             \A u \in Tasks \ {t} : tgt'[u] = tgt[u],
             tgt'[t].outcome = "open" => tgt'[t].base = tgt[t].base
      PROVE  Held' /\ Based'
  <2>1. op'.ids = op.ids /\ op'.mode = op.mode /\ pc' \in {"observe", "dispatch"}
    BY <1>1, <1>3, LeaveLeads
  <2>. QED
    BY <1>1, <1>2, <1>3, <2>1 DEF Held, Based, AtTask
<1>4. ASSUME NEW outcome, Settle(t, outcome), outcome \in {"retry", "failed"}
      PROVE  /\ tgt'[t].outcome # "open" /\ \A u \in Tasks \ {t} : tgt'[u] = tgt[u]
  BY <1>1, <1>4, SettledGood DEF Outcomes
<1>5. CASE Check
  <2>1. UNCHANGED manifest /\ pc = "check"
    BY <1>5 DEF Check
  <2>2. CASE Settle(t, "retry") /\ Leave(t)
    BY <1>2, <1>3, <1>4, <2>1, <2>2
  <2>3. CASE ~(Settle(t, "retry") /\ Leave(t))
    <3>1. /\ tgt' = [tgt EXCEPT ![t] = Polled(t)]
          /\ Leave(t) \/ (~Read(t).started /\ pc' = "mark" /\ UNCHANGED op)
      BY <1>5, <2>3 DEF Check, Goto, t
    <3>2. tgt'[t] = Polled(t) /\ \A u \in Tasks \ {t} : tgt'[u] = tgt[u]
      BY <1>1, <3>1
    <3>3. /\ Polled(t).base = tgt[t].base
          /\ Polled(t).outcome = IF Refuted(t) THEN "failed" ELSE "open"
      BY <1>1, PolledGood DEF Truth, TargetsInv
    <3>4. CASE Leave(t)
      BY <1>2, <1>3, <2>1, <3>2, <3>3, <3>4
    <3>5. CASE ~Leave(t)
      <4>1. Tells(log[t], tgt[t].base, Len(log[t]), Read(t))
        <5>1. tgt[t].base \in Nat /\ Len(log[t]) \in Nat
          BY <1>1 DEF Targets, TasksTyped
        <5>. QED
          BY <1>1, <5>1, ReadTells DEF Read
      <4>2. ~Read(t).failed /\ NoStart(log[t], tgt[t].base)
        BY <3>1, <3>5, <4>1 DEF Tells, NoStart
      <4>3. Polled(t).outcome = "open"
        BY <3>1, <3>3, <3>5, <4>2 DEF Refuted
      <4>4. op'.cur = t /\ op'.ids = op.ids /\ op'.mode = op.mode /\ pc' = "mark"
        BY <3>1, <3>5 DEF t
      <4>. QED
        BY <1>1, <1>2, <2>1, <3>2, <3>3, <4>2, <4>3, <4>4 DEF Held, Based
    <3>. QED
      BY <3>4, <3>5
  <2>. QED
    BY <2>2, <2>3
<1>6. CASE Mark
  <2>1. CASE Settle(t, "retry") /\ Leave(t) /\ UNCHANGED manifest
    BY <1>2, <1>3, <1>4, <2>1
  <2>2. CASE ~(Settle(t, "retry") /\ Leave(t) /\ UNCHANGED manifest)
    <3>1. /\ pc = "mark" /\ pc' = "confirm" /\ UNCHANGED tgt /\ manifest[t] # None
          /\ manifest' = [manifest EXCEPT ![t] = None]
          /\ op' = [op EXCEPT !.entry = manifest[t]]
      BY <1>6, <2>2 DEF Mark, Goto, t
    <3>2. /\ op'.cur = t /\ op'.ids = op.ids /\ op'.mode = op.mode
          /\ op'.entry = manifest[t]
      BY <1>1, <3>1 DEF Operations, t
    <3>3. \A u \in Tasks : manifest'[u] \in {mem[u], None}
      BY <1>1, <1>2, <3>1 DEF Manifests
    <3>4. op'.entry = mem[t]
      BY <1>1, <1>2, <3>1, <3>2
    <3>5. Held'
      BY <1>1, <3>1, <3>2, <3>3, <3>4 DEF Held
    <3>6. Based'
      BY <1>1, <1>2, <3>1, <3>2 DEF Based, t
    <3>. QED
      BY <3>5, <3>6
  <2>. QED
    BY <2>1, <2>2
<1>7. CASE Confirm
  <2>1. CASE SameIdentity
    <3>1. /\ pc = "confirm" /\ pc' = "send" /\ UNCHANGED <<op, manifest>>
          /\ tgt' = [tgt EXCEPT ![t].sent = TRUE]
      BY <1>7, <2>1 DEF Confirm, Goto, t
    <3>2. /\ tgt'[t].outcome = tgt[t].outcome /\ tgt'[t].base = tgt[t].base
          /\ \A u \in Tasks \ {t} : tgt'[u] = tgt[u]
      BY <1>1, <3>1 DEF Targets
    <3>. QED
      BY <1>1, <1>2, <3>1, <3>2 DEF Held, Based, t
  <2>2. CASE ~SameIdentity
    <3>1. /\ manifest' = [manifest EXCEPT ![t] = op.entry]
          /\ Settle(t, "retry") /\ Leave(t) /\ pc = "confirm"
      BY <1>7, <2>2 DEF Confirm, t
    <3>2. op.entry = mem[t]
      BY <3>1 DEF Held, t
    <3>3. \A u \in Tasks : manifest'[u] \in {mem[u], None}
      BY <1>1, <1>2, <3>1, <3>2 DEF Manifests
    <3>. QED
      BY <1>3, <1>4, <3>1, <3>3
  <2>. QED
    BY <2>1, <2>2
<1>8. CASE Send
  BY <1>1, <1>2, <1>8 DEF Send, Goto, Held, Based, t
<1>9. CASE Await
  <2>1. Leave(t) /\ UNCHANGED manifest
    BY <1>9 DEF Await, t
  <2>2. CASE Settle(t, "failed")
    BY <1>2, <1>3, <1>4, <2>1, <2>2
  <2>3. CASE UNCHANGED tgt
    BY <1>2, <1>3, <2>1, <2>3
  <2>4. CASE tgt' = [tgt EXCEPT ![t].expected = op.reply]
    <3>1. /\ tgt'[t].base = tgt[t].base /\ \A u \in Tasks \ {t} : tgt'[u] = tgt[u]
      BY <1>1, <2>4 DEF Targets
    <3>. QED
      BY <1>2, <1>3, <2>1, <3>1
  <2>. QED
    BY <1>9, <2>2, <2>3, <2>4 DEF Await, t
<1>. QED
  BY <1>5, <1>6, <1>7, <1>8, <1>9 DEF DispatchStep

(* Nothing else comes near a request that is about to leave.               *)
LEMMA BasedKept ==
    ASSUME IInv, Truth, Held, Based, [Next]_vars
    PROVE  Held' /\ Based'
<1>1. pc' \notin Recovering => Held' /\ Based'
  BY DEF Held, Based, Recovering, Looping, AtTask
<1>2. CASE UNCHANGED vars
  BY <1>2 DEF Held, Based, vars, opVars, taskVars
<1>3. CASE OperationStep
  <2>1. CASE RestartStep
    BY <1>1, <2>1 DEF RestartStep, PrepareRotation, RollBack, Stop, Checkpoint, Return,
       Relaunch, ConfirmRotation, Switch, Launch, Goto, Recovering, Looping, AtTask
  <2>2. CASE Begin
    BY <2>2, BeginBased
  <2>3. CASE Finalize
    BY <1>1, <2>3 DEF Finalize, Return, Recovering, Looping, AtTask
  <2>4. CASE NoChannel \/ \E t \in Tasks : Observe(t)
    BY <2>4 DEF NoChannel, Observe, Goto, Held, Based, Recovering, Looping, AtTask
  <2>5. CASE \E t \in Tasks : Prepare(t) \/ Scan(t) \/ Dispatch(t)
    BY <2>5, LoopBased
  <2>6. CASE DispatchStep
    BY <2>6, TaskBased
  <2>. QED
    BY <1>3, <2>1, <2>2, <2>3, <2>4, <2>5, <2>6 DEF OperationStep, TargetSteps
<1>4. CASE Requests
  <2>1. CASE pc' = "idle" \/ pc' \in {"prepareRotation", "stop", "begin"}
    BY <1>1, <2>1 DEF Recovering, Looping, AtTask
  <2>2. pc' \in {"idle", "prepareRotation", "stop", "begin"}
    BY <1>4 DEF Requests, StartRestart, Resume, Probe, Discover, StartRecovery, Goto
  <2>. QED
    BY <2>1, <2>2
<1>5. CASE Crash
  BY <1>1, <1>5 DEF Crash, Return, Recovering, Looping, AtTask
<1>6. CASE Environment /\ ~Crash
  <2>1. /\ UNCHANGED <<manifest, pc, tgt, mem>> /\ op'.ids = op.ids /\ op'.todo = op.todo
        /\ op'.cur = op.cur /\ op'.entry = op.entry /\ op'.mode = op.mode
    BY <1>6, EnvironmentLeaves DEF IInv
  <2>2. Held'
    BY <2>1 DEF Held
  <2>3. ASSUME Race = FALSE, pc \in {"mark", "confirm", "send"}
        PROVE  NoStart(log'[op.cur], tgt[op.cur].base)
    <3>1. NoStart(log[op.cur], tgt[op.cur].base)
      BY <2>3 DEF Based
    <3>2. op.cur \in Tasks
      BY <2>3 DEF IInv, TypeInv, OperationTyped, Operations, Control, AtHand, NotYetAsked,
         AtTask, Looping
    <3>3. Grown(op.cur) /\ TasksTyped /\ tgt[op.cur].base \in Nat
      BY <3>2, RolloutsGrow DEF IInv, TypeInv, Truth, TargetsInv, Good, Targets
    <3>. QED
      BY <2>1, <2>3, <3>1, <3>2, <3>3, UntouchedKept
  <2>4. Based'
    BY <2>1, <2>3 DEF Based
  <2>. QED
    BY <2>2, <2>4
<1>. QED
  BY <1>2, <1>3, <1>4, <1>5, <1>6 DEF Next

(* The checkpoints are the bases in every reachable state.                 *)
LEMMA AlwaysBased == Spec => [](IInv /\ Truth /\ Held /\ Based)
<1>1. Init => Held /\ Based
  BY DEF Init, Held, Based, Recovering, Looping, AtTask
<1>2. IInv /\ Truth /\ Held /\ Based /\ [Next]_vars => (Held /\ Based)'
  BY BasedKept
<1>. QED
  BY <1>1, <1>2, AlwaysTrue, PTL DEF Spec

(* Where no turn can start in the instants that the code keeps short, an   *)
(* unasked request is not sent into a turn that began after the task's     *)
(* checkpoint, whoever began it.                                           *)
THEOREM NoTurnTakenOver == ASSUME Race = FALSE PROVE Spec => []NoTakeover
<1>1. IInv /\ Truth /\ Held /\ Based => NoTakeover
  <2>. SUFFICES ASSUME IInv, Truth, Held, Based, pc = "send", op.mode # "explicit"
                PROVE  running[op.cur] <= op.entry.off
    BY DEF NoTakeover
  <2>1. op.cur \in op.ids /\ op.cur \in Tasks
    BY DEF IInv, TypeInv, OperationTyped, Operations, Control, AtHand, NotYetAsked,
       AtTask, Looping
  <2>2. tgt[op.cur].base = op.entry.off
    BY <2>1 DEF Held, Based, AtTask, Looping
  <2>3. NoStart(log[op.cur], op.entry.off)
    BY <2>2 DEF Based
  <2>4. op.entry.off \in Nat /\ running[op.cur] \in Nat
    BY <2>1, <2>2, RecoveryAssumption
       DEF Truth, TargetsInv, Good, Targets, IInv, TypeInv, TasksTyped
  <2>5. CASE running[op.cur] = 0
    BY <2>4, <2>5
  <2>6. CASE running[op.cur] # 0
    <3>1. running[op.cur] \in Starts(log[op.cur])
      BY <2>1, <2>6 DEF Truth, LogsInv
    <3>2. /\ running[op.cur] \in 1..Len(log[op.cur])
          /\ log[op.cur][running[op.cur]].kind = "start"
          /\ Len(log[op.cur]) \in Nat
      BY <2>1, <3>1 DEF Starts, IInv, TypeInv, TasksTyped
    <3>. QED
      BY <2>3, <2>4, <3>2 DEF NoStart
  <2>. QED
    BY <2>5, <2>6
<1>. QED
  BY <1>1, AlwaysBased, PTL

-----------------------------------------------------------------------------
(* The tasks that are to be continued                                      *)

(* An entry that brings a task with this rollout back: no worker takes it  *)
(* for one that went on.                                                   *)
Recorded(e, l) == e # None /\ (e.awaiting => NoStart(l, e.off))

(* A task that is owed can be continued and is recorded, in the journal or *)
(* by the operation that has just consumed its entry.                      *)
OwedKnown ==
    \A t \in owed :
        /\ State(t) \in Resumable
        /\ \/ Recorded(manifest[t], log[t])
           \/ pc \in {"confirm", "send"} /\ op.cur = t

(* Until Desktop is signalled the journal of before records them too; then *)
(* the entries that do not wait are those of the restart's own tasks.      *)
RestartOwes ==
    /\ pc \in {"prepareRotation", "stop"} =>
          \A t \in owed : Recorded(mem[t], log[t])
    /\ pc \in {"prepareRotation", "stop", "checkpoint"} =>
          /\ Entered(manifest) \subseteq op.ids \union Awaiting(manifest)
          /\ op.ids \subseteq Entered(manifest)
    /\ \/ pc \in {"confirmRotation", "switch", "launch"}
       \/ pc = "begin" /\ PreservesCheckpoint(op.mode)
       => \A t \in owed \intersect op.ids : NoStart(log[t], manifest[t].off)
    /\ pc = "begin" /\ op.mode = "discovered" =>
          op.ids \intersect Awaiting(manifest) = {}

(* What is written at the end will record them: they are put off, or still *)
(* open and without a turn since their checkpoint.                         *)
RecoveryOwes ==
    /\ pc \in Recovering =>
          /\ \A t \in owed : Recorded(mem[t], log[t])
          /\ \A t \in owed \intersect op.ids :
                /\ NoStart(log[t], mem[t].off)
                /\ \/ tgt[t].outcome = "retry"
                   \/ tgt[t].outcome = "open" /\ NoStart(log[t], tgt[t].base)
    /\ pc = "observe" => \A t \in owed \intersect op.ids : tgt[t].outcome = "retry"
    /\ pc \in AtTask \union {"dispatch"} =>
          \A t \in owed \intersect (op.ids \ op.todo) : tgt[t].outcome = "retry"
    /\ pc = "await" => op.cur \notin owed

(* The invariant of what is owed.                                          *)
Owes == OwedKnown /\ RestartOwes /\ RecoveryOwes

(* Where no turn started, the evidence says so.                            *)
LEMMA NotStarted ==
    ASSUME TasksTyped, NEW t \in Tasks, NEW from \in Nat, NEW to \in Nat,
           to = from \/ to <= Len(log[t]), NoStart(log[t], from)
    PROVE  ~Evidence(log[t], from, to).started /\ ~Evidence(log[t], from, to).failed
<1>1. Len(log[t]) \in Nat
  BY DEF TasksTyped
<1>2. CASE to <= Len(log[t])
  <2>1. Tells(log[t], from, to, Evidence(log[t], from, to))
    BY <1>2, ReadTells
  <2>2. \A s \in from + 1 .. to : log[t][s].kind # "start"
    BY <1>1, <1>2 DEF NoStart
  <2>. QED
    BY <2>1, <2>2 DEF Tells, LastTurn
<1>3. CASE to = from
  <2>1. from + 1 .. to = {}
    BY <1>3
  <2>2. Tells(log[t], from, to, Evidence(log[t], from, to))
    BY <2>1, EvidenceTells
  <2>. QED
    BY <2>1, <2>2 DEF Tells
<1>. QED
  BY <1>2, <1>3

(* A poll leaves such a task open.                                         *)
LEMMA PolledOpen ==
    ASSUME TasksTyped, LogsInv, NEW t \in Tasks, Good(log[t], tgt[t]),
           NoStart(log[t], tgt[t].base)
    PROVE  ~Read(t).started /\ Polled(t).outcome = "open" /\ Polled(t).base = tgt[t].base
<1>1. tgt[t].base \in Nat /\ Len(log[t]) \in Nat
  BY DEF Good, Targets, TasksTyped
<1>2. ~Read(t).started /\ ~Read(t).failed
  BY <1>1, NotStarted DEF Read
<1>. QED
  BY <1>2, PolledGood DEF Refuted

(* Pruning keeps the entry of a task that is to be continued.              *)
LEMMA KeepsRecorded ==
    ASSUME TasksTyped, NEW t \in Tasks, NEW e \in Entries, State(t) \in Resumable,
           NoStart(log[t], e.off)
    PROVE  KeepsAwaiting(t, e)
<1>1. e.off \in Nat /\ Len(log[t]) \in Nat
  BY DEF Entries, TasksTyped
<1>2. ~Evidence(log[t], e.off, Len(log[t])).started
  BY <1>1, NotStarted
<1>. QED
  BY <1>2 DEF KeepsAwaiting, Superseded, Verified, MatchesExpected, Resumable

(* ... so pruning that can read its rollout changes nothing of it.         *)
LEMMA PruneKeeps ==
    ASSUME TasksTyped, NEW m \in Manifests, NEW probe, NEW t \in Tasks,
           State(t) \in Resumable, Recorded(m[t], log[t])
    PROVE  Prune(m, probe, {})[t] = m[t]
<1>1. m[t] \in Entries
  BY DEF Manifests, Maybe, Recorded
<1>2. m[t].awaiting => KeepsAwaiting(t, m[t])
  BY <1>1, KeepsRecorded DEF Recorded
<1>. QED
  BY <1>2 DEF Prune, Recorded, Resumable, Inspected, InspectedState, State

(* A detection finds every recorded task that does not wait for its owner, *)
(* unless it misses it because it cannot read the journal or the rollout.  *)
LEMMA DetectsRecorded ==
    ASSUME TasksTyped, manifest \in Manifests,
           NEW detection \in Detections, NEW t \in Tasks,
           State(t) \in Resumable, Recorded(manifest[t], log[t]), ~manifest[t].awaiting
    PROVE  t \in detection.found \union detection.missed
<1>1. PICK mounted : detection.missed = Detected(mounted, TRUE, {}) \ detection.found
  BY DetectionsFind
<1>2. t \in Entered(Prune(manifest, None, {}))
  <2>1. Prune(manifest, None, {})[t] = manifest[t]
    BY PruneKeeps
  <2>. QED
    BY <2>1 DEF Recorded, Entered
<1>3. t \notin Awaiting(manifest) /\ Inspected(t, {}) = State(t)
  BY DEF Awaiting, Inspected, InspectedState, State
<1>4. t \in Detected(mounted, TRUE, {})
  BY <1>2, <1>3 DEF Detected, Resumable
<1>. QED
  BY <1>1, <1>4

(* A checkpoint that covers them records them; it follows the last turn of *)
(* its own tasks.                                                          *)
LEMMA SavedRecords ==
    ASSUME TasksTyped, manifest \in Manifests, NEW ids \in SUBSET Tasks, NEW blind,
           NEW t \in Tasks, Recorded(manifest[t], log[t]), t \in ids \/ manifest[t].awaiting
    PROVE  /\ Recorded(Saved(ids, blind)[t], log[t])
           /\ t \in ids => NoStart(log[t], Saved(ids, blind)[t].off)
<1>1. Len(log[t]) \in Nat
  BY DEF TasksTyped
<1>2. CASE Saved(ids, blind)[t] = manifest[t] /\ t \in Awaiting(manifest)
  BY <1>2 DEF Recorded, Awaiting
<1>3. CASE Saved(ids, blind)[t] = Fresh(t)
  <2>1. /\ Fresh(t) # None /\ ~Fresh(t).awaiting
    BY FreshEntry
  <2>2. NoStart(log[t], Fresh(t).off)
    BY <1>1 DEF NoStart, Fresh
  <2>. QED
    BY <1>3, <2>1, <2>2 DEF Recorded
<1>4. t \in Entered(Saved(ids, blind))
  <2>1. t \notin ids => Saved(ids, blind)[t] = manifest[t]
    BY DEF Saved, Entered, Awaiting, Recorded
  <2>2. t \in ids => t \in Entered(Saved(ids, blind))
    BY SavedEntries
  <2>. QED
    BY <2>1, <2>2 DEF Entered, Recorded
<1>5. \/ t \in ids /\ Saved(ids, blind)[t] = Fresh(t)
      \/ t \in Awaiting(manifest) /\ Saved(ids, blind)[t] = manifest[t]
  BY <1>4, SavedEntries
<1>. QED
  BY <1>2, <1>3, <1>5

(* ... and stays recorded while no turn of the task starts.                *)
LEMMA StaysRecorded ==
    ASSUME TasksTyped, NEW t \in Tasks, Grown(t), t \in owed',
           NEW e \in Maybe(Entries), Recorded(e, log[t])
    PROVE  Recorded(e, log'[t])
<1>1. e \in Entries /\ e.off \in Nat
  BY DEF Maybe, Recorded, Entries
<1>. QED
  BY <1>1, UntouchedKept DEF Recorded

(* What the steps below start from.                                        *)
Core == IInv /\ Truth /\ Held /\ Based

(* The facts that the steps below share.                                   *)
LEMMA CoreTypes ==
    ASSUME Core
    PROVE  /\ TasksTyped /\ LogsInv /\ manifest \in Manifests /\ mem \in Manifests
           /\ op \in Operations /\ op.ids \subseteq Tasks /\ owed \subseteq Tasks
           /\ tgt = [u \in Tasks |-> tgt[u]]
           /\ \A u \in Tasks : /\ Good(log[u], tgt[u]) /\ tgt[u] \in Targets
                               /\ tgt[u].base \in Nat /\ tgt[u].seen \in Nat
                               /\ tgt[u].seen = tgt[u].base \/ tgt[u].seen <= Len(log[u])
  BY DEF Core, IInv, TypeInv, OperationTyped, Operations, Truth, TargetsInv, SetsInv,
     Good, Targets

(* Outside of a request an owed task is recorded in the journal.           *)
LEMMA OwedRecorded ==
    ASSUME OwedKnown, NEW t \in owed, pc \notin {"confirm", "send"}
    PROVE  Recorded(manifest[t], log[t])
  BY DEF OwedKnown

(* A step that touches neither the rollouts nor what is owed.              *)
LEMMA OwedStill ==
    ASSUME OwedKnown, UNCHANGED log, owed' \subseteq owed,
           \A t \in owed' : \/ Recorded(manifest'[t], log[t])
                            \/ pc' \in {"confirm", "send"} /\ op'.cur = t
    PROVE  OwedKnown'
  BY DEF OwedKnown, State

(* An operation that ends owes what the journal records.                   *)
LEMMA ReturnOwes ==
    ASSUME Return
    PROVE  RestartOwes' /\ RecoveryOwes'
  BY DEF Return, RestartOwes, RecoveryOwes, Recovering, Looping, AtTask

(* A restart detects, journals and stops ...                               *)
LEMMA StartRestartOwes ==
    ASSUME Core, Owes, NEW to, NEW rotates, StartRestart(to, rotates)
    PROVE  Owes'
<1>0. /\ TasksTyped /\ manifest \in Manifests /\ owed \subseteq Tasks
  BY CoreTypes
<1>1. /\ pc = "idle" /\ mem' = manifest /\ UNCHANGED log
      /\ pc' \in {"prepareRotation", "stop"}
  BY DEF StartRestart, Goto, taskVars
<1>2. PICK detection \in Detections, primary \in Maybe(Tasks), blind \in Blind :
        LET ids == detection.found \union ({primary} \ {None})
        IN manifest' = Saved(ids, blind) /\ op'.ids = ids
           /\ owed' = owed \ (detection.missed \ ids)
  <2>1. PICK detection \in Detections, primary \in Maybe(Tasks), blind \in Blind :
          LET ids == detection.found \union ({primary} \ {None})
          IN /\ manifest' = Saved(ids, blind)
             /\ owed' = owed \ (detection.missed \ ids)
             /\ op' = [NoOp EXCEPT !.ids = ids, !.from = acct, !.to = to,
                                   !.rotates = rotates, !.mine = TRUE,
                                   !.revs = [t \in Tasks |->
                                               IF rotates THEN queue[t].rev ELSE 0]]
    BY DEF StartRestart
  <2>. QED
    BY <2>1 DEF NoOp
<1>. DEFINE ids == detection.found \union ({primary} \ {None})
<1>3. /\ manifest' = Saved(ids, blind) /\ op'.ids = ids /\ ids \in SUBSET Tasks
      /\ owed' = owed \ (detection.missed \ ids)
  BY <1>2, DetectionsFind DEF Maybe
<1>4. \A t \in owed : Recorded(manifest[t], log[t]) /\ State(t) \in Resumable
  BY <1>1, OwedRecorded DEF Owes, OwedKnown
<1>5. \A t \in owed' : t \in owed /\ (t \in ids \/ manifest[t].awaiting)
  BY <1>0, <1>3, <1>4, DetectsRecorded
<1>. HIDE DEF ids
<1>6. \A t \in owed' : Recorded(manifest'[t], log[t])
  BY <1>0, <1>3, <1>4, <1>5, SavedRecords
<1>7. OwedKnown'
  BY <1>1, <1>3, <1>6, OwedStill DEF Owes
<1>8. /\ ids \subseteq Entered(Saved(ids, blind))
      /\ Entered(Saved(ids, blind)) \subseteq ids \union Awaiting(Saved(ids, blind))
  <2>1. /\ ids \subseteq Entered(Saved(ids, blind))
        /\ \A t \in Entered(Saved(ids, blind)) :
              \/ t \in ids
              \/ t \in Awaiting(manifest) /\ Saved(ids, blind)[t] = manifest[t]
    BY <1>0, <1>3, SavedEntries
  <2>. QED
    BY <2>1 DEF Awaiting
<1>9. RestartOwes'
  BY <1>1, <1>3, <1>4, <1>5, <1>8 DEF RestartOwes, Awaiting, Entered
<1>. QED
  BY <1>1, <1>7, <1>9 DEF Owes, RecoveryOwes, Recovering, Looping, AtTask

(* The rotation is remembered in entries that record as before.            *)
LEMMA PrepareRotationOwes ==
    ASSUME Core, Owes, PrepareRotation
    PROVE  Owes'
<1>1. /\ TasksTyped /\ manifest \in Manifests /\ owed \subseteq Tasks /\ op.ids \subseteq Tasks
  BY CoreTypes
<1>2. /\ pc = "prepareRotation" /\ pc' = "stop" /\ UNCHANGED <<log, owed, op, mem>>
  BY DEF PrepareRotation, Goto, taskVars, history
<1>3. \A t \in Tasks : /\ manifest'[t] # None <=> manifest[t] # None
                       /\ manifest[t] # None => /\ manifest'[t].awaiting <=> manifest[t].awaiting
                                                /\ manifest'[t].off = manifest[t].off
  BY PrepareRotationEntries, NoEntryAssumption DEF Core
<1>4. \A t \in owed : Recorded(manifest[t], log[t])
  BY <1>2, OwedRecorded DEF Owes
<1>5. \A t \in owed : Recorded(manifest'[t], log[t])
  BY <1>1, <1>3, <1>4 DEF Recorded
<1>6. OwedKnown'
  BY <1>2, <1>5, OwedStill DEF Owes
<1>7. Entered(manifest') = Entered(manifest) /\ Awaiting(manifest') = Awaiting(manifest)
  BY <1>3 DEF Entered, Awaiting
<1>8. RestartOwes'
  BY <1>2, <1>7 DEF Owes, RestartOwes
<1>. QED
  BY <1>2, <1>6, <1>8 DEF Owes, RecoveryOwes, Recovering, Looping, AtTask

(* A restart that is rolled back restores entries that record its tasks.   *)
LEMMA RollBackOwes ==
    ASSUME Core, Owes, RollBack
    PROVE  Owes'
<1>1. UNCHANGED <<log, owed>> /\ Return /\ \A t \in owed : Recorded(manifest'[t], log[t])
  BY DEF RollBack, taskVars, history, Owes, RestartOwes
<1>. QED
  BY <1>1, OwedStill, ReturnOwes DEF Owes

(* The signal makes no task owed that the journal does not record.         *)
LEMMA StopOwes ==
    ASSUME Core, Owes, Stop
    PROVE  Owes'
<1>1. /\ TasksTyped /\ manifest \in Manifests /\ owed \subseteq Tasks /\ op.ids \subseteq Tasks
      /\ op \in Operations
  BY CoreTypes
<1>2. pc = "stop" /\ UNCHANGED manifest
  BY DEF Stop
<1>3. \A t \in owed : Recorded(manifest[t], log[t])
  BY <1>2, OwedRecorded DEF Owes
<1>4. \A t \in op.ids \ Awaiting(manifest) : Recorded(manifest[t], log[t]) /\ ~manifest[t].awaiting
  BY <1>1, <1>2 DEF Owes, RestartOwes, Recorded, Entered, Awaiting
<1>5. owed' \subseteq owed \union (op.ids \ Awaiting(manifest))
      /\ \A t \in owed' : t \in Tasks /\ TailState(log'[t]) \in Resumable
  <2>1. CASE DesktopEnds({"abort", "error"}, op.ids \ Awaiting(manifest))
    BY <1>1, <2>1 DEF DesktopEnds, State
  <2>2. CASE ~DesktopEnds({"abort", "error"}, op.ids \ Awaiting(manifest))
    BY <1>1, <2>2 DEF Stop, State, Owes, OwedKnown
  <2>. QED
    BY <2>1, <2>2
<1>6. \A t \in owed' : Recorded(manifest[t], log'[t])
  <2>. TAKE t \in owed'
  <2>1. t \in Tasks /\ Recorded(manifest[t], log[t]) /\ manifest[t] \in Maybe(Entries)
    BY <1>1, <1>3, <1>4, <1>5 DEF Manifests
  <2>2. Grown(t)
    <3>1. [Next]_vars
      BY DEF Next, OperationStep, RestartStep
    <3>. QED
      BY <2>1, <3>1, RolloutsGrow DEF Core, IInv
  <2>. QED
    BY <1>1, <2>1, <2>2, StaysRecorded
<1>7. OwedKnown'
  BY <1>2, <1>5, <1>6 DEF OwedKnown, State
<1>8. CASE Return
  BY <1>7, <1>8, ReturnOwes DEF Owes
<1>9. CASE ~Return
  <2>1. pc' = "checkpoint" /\ op'.ids = op.ids
    BY <1>1, <1>9 DEF Stop, Goto, Operations
  <2>2. RestartOwes'
    BY <1>2, <2>1 DEF Owes, RestartOwes, Entered, Awaiting
  <2>. QED
    BY <1>7, <2>1, <2>2 DEF Owes, RecoveryOwes, Recovering, Looping, AtTask
<1>. QED
  BY <1>8, <1>9

(* ... covers its tasks once more, and launches Desktop ...                *)
LEMMA CheckpointOwes ==
    ASSUME Core, Owes, Checkpoint
    PROVE  Owes'
<1>1. /\ TasksTyped /\ manifest \in Manifests /\ owed \subseteq Tasks /\ op.ids \subseteq Tasks
      /\ op \in Operations
  BY CoreTypes
<1>2. /\ pc = "checkpoint" /\ UNCHANGED <<log, owed>>
      /\ manifest' = manifest \/ \E blind : manifest' = Saved(op.ids, blind)
  BY DEF Checkpoint, Relaunch, taskVars
<1>3. \A t \in owed : Recorded(manifest[t], log[t])
  BY <1>2, OwedRecorded DEF Owes
<1>4. \A t \in owed : t \in op.ids \/ manifest[t].awaiting
  BY <1>1, <1>2, <1>3 DEF Owes, RestartOwes, Recorded, Entered, Awaiting
<1>5. ASSUME NEW blind, manifest' = Saved(op.ids, blind)
      PROVE  \A t \in owed : /\ Recorded(manifest'[t], log[t])
                             /\ t \in op.ids => NoStart(log[t], manifest'[t].off)
  BY <1>1, <1>3, <1>4, <1>5, SavedRecords
<1>6. OwedKnown'
  BY <1>2, <1>3, <1>5, OwedStill DEF Owes
<1>7. CASE Return
  BY <1>6, <1>7, ReturnOwes DEF Owes
<1>8. CASE ~Return
  <2>1. /\ pc' \in {"confirmRotation", "switch"} /\ UNCHANGED op
        /\ \E blind : manifest' = Saved(op.ids, blind)
    BY <1>8 DEF Checkpoint, Relaunch, Goto
  <2>2. RestartOwes'
    BY <1>2, <1>5, <2>1 DEF RestartOwes
  <2>. QED
    BY <1>6, <2>1, <2>2 DEF Owes, RecoveryOwes, Recovering, Looping, AtTask
<1>. QED
  BY <1>7, <1>8

(* A confirmed rotation records as before.                                 *)
LEMMA ConfirmRotationOwes ==
    ASSUME Core, Owes, ConfirmRotation
    PROVE  Owes'
<1>1. /\ TasksTyped /\ manifest \in Manifests /\ owed \subseteq Tasks /\ op.ids \subseteq Tasks
      /\ op \in Operations
  BY CoreTypes
<1>2. pc = "confirmRotation" /\ UNCHANGED <<log, owed>>
  BY DEF ConfirmRotation, Relaunch, taskVars, history
<1>3. \A t \in Tasks : /\ manifest'[t] # None <=> manifest[t] # None
                       /\ manifest[t] # None => /\ manifest'[t].awaiting = manifest[t].awaiting
                                                /\ manifest'[t].off = manifest[t].off
  BY ConfirmRotationEntries, NoEntryAssumption DEF Core
<1>4. \A t \in owed : Recorded(manifest[t], log[t])
  BY <1>2, OwedRecorded DEF Owes
<1>5. \A t \in owed : Recorded(manifest'[t], log[t])
  BY <1>1, <1>3, <1>4 DEF Recorded
<1>6. OwedKnown'
  BY <1>2, <1>5, OwedStill DEF Owes
<1>7. CASE Return
  BY <1>6, <1>7, ReturnOwes DEF Owes
<1>8. CASE ~Return
  <2>1. pc' = "switch" /\ UNCHANGED op
    BY <1>8 DEF ConfirmRotation, Relaunch, Goto
  <2>2. \A t \in owed \intersect op.ids : manifest'[t].off = manifest[t].off
    BY <1>1, <1>3, <1>4 DEF Recorded
  <2>3. RestartOwes'
    BY <1>2, <2>1, <2>2 DEF Owes, RestartOwes
  <2>. QED
    BY <1>6, <2>1, <2>3 DEF Owes, RecoveryOwes, Recovering, Looping, AtTask
<1>. QED
  BY <1>7, <1>8

(* The switch and the launch leave the journal as it is.                   *)
LEMMA SwitchLaunchOwes ==
    ASSUME Core, Owes, Switch \/ Launch
    PROVE  Owes'
<1>1. op \in Operations
  BY CoreTypes
<1>2. pc \in {"switch", "launch"} /\ UNCHANGED <<log, owed, manifest>>
  BY DEF Switch, Launch, Relaunch, taskVars, history
<1>3. \A t \in owed : Recorded(manifest[t], log[t])
  BY <1>2, OwedRecorded DEF Owes
<1>4. OwedKnown'
  BY <1>2, <1>3, OwedStill DEF Owes
<1>5. CASE Return
  BY <1>4, <1>5, ReturnOwes DEF Owes
<1>6. CASE ~Return
  <2>1. /\ op'.ids = op.ids
        /\ pc' = "launch" \/ (pc' = "begin" /\ op'.mode = "captured")
    BY <1>6 DEF Switch, Launch, Relaunch, Goto, NoOp
  <2>2. RestartOwes'
    BY <1>2, <2>1 DEF Owes, RestartOwes
  <2>. QED
    BY <1>4, <2>1, <2>2 DEF Owes, RecoveryOwes, Recovering, Looping, AtTask
<1>. QED
  BY <1>5, <1>6

(* The requests of the user and of the worker.                             *)
LEMMA RequestsOwe ==
    ASSUME Core, Owes, Requests
    PROVE  Owes'
<1>1. /\ TasksTyped /\ manifest \in Manifests /\ owed \subseteq Tasks
  BY CoreTypes
<1>2. CASE \E to \in Accounts, rotates \in BOOLEAN : StartRestart(to, rotates)
  BY <1>2, StartRestartOwes
<1>3. CASE ~\E to \in Accounts, rotates \in BOOLEAN : StartRestart(to, rotates)
  <2>1. pc = "idle" /\ UNCHANGED <<log, owed>>
    BY <1>3 DEF Requests, Resume, Probe, Discover, taskVars, history
  <2>2. \A t \in owed : Recorded(manifest[t], log[t]) /\ State(t) \in Resumable
    BY <2>1, OwedRecorded DEF Owes, OwedKnown
  <2>3. ASSUME NEW mode, NEW ids, StartRecovery(mode, ids), UNCHANGED manifest,
               mode \in Deferred => \A t \in owed \intersect ids : NoStart(log[t], manifest[t].off),
               mode = "discovered" => ids \intersect Awaiting(manifest) = {},
               mode \in {"explicit", "discovered"} \union Deferred
        PROVE  Owes'
    <3>1. OwedKnown'
      BY <2>1, <2>2, <2>3, OwedStill DEF Owes
    <3>2. pc' = "begin" /\ op'.mode = mode /\ op'.ids = ids
      BY <2>3 DEF StartRecovery, Goto, NoOp
    <3>3. RestartOwes'
      BY <2>1, <2>3, <3>2 DEF RestartOwes, PreservesCheckpoint, Deferred, Awaiting, Entered
    <3>. QED
      BY <3>1, <3>2, <3>3 DEF Owes, RecoveryOwes, Recovering, Looping, AtTask
  <2>4. CASE \E t \in Tasks : Resume(t)
    BY <2>3, <2>4 DEF Resume, Deferred
  <2>5. CASE Discover
    BY <2>3, <2>5, DetectionsFind DEF Discover, Deferred
  <2>6. ASSUME NEW t \in Tasks, Probe(t)
        PROVE  Owes'
    <3>1. t \in Awaiting(manifest) /\ manifest[t] \in Entries /\ manifest[t].awaiting
      BY <1>1, <2>6 DEF Probe, Awaiting, Entered, Manifests, Maybe
    <3>2. t \in owed => NoStart(log[t], manifest[t].off) /\ KeepsAwaiting(t, manifest[t])
      BY <1>1, <2>2, <3>1, KeepsRecorded DEF Recorded
    <3>3. CASE UNCHANGED manifest /\ pc' = "begin"
      BY <2>3, <2>6, <3>2, <3>3 DEF Probe, Deferred
    <3>4. CASE manifest' = [manifest EXCEPT ![t] = None] /\ ~KeepsAwaiting(t, manifest[t])
               /\ UNCHANGED <<pc, op>>
      <4>1. /\ manifest' = [manifest EXCEPT ![t] = None] /\ t \notin owed
            /\ UNCHANGED <<pc, op, mem, tgt>>
        BY <2>6, <3>2, <3>4 DEF Probe
      <4>2. \A u \in owed : manifest'[u] = manifest[u]
        BY <1>1, <4>1 DEF Manifests
      <4>3. OwedKnown'
        BY <2>1, <2>2, <4>2, OwedStill DEF Owes
      <4>. QED
        BY <2>1, <4>1, <4>3 DEF Owes, RestartOwes, RecoveryOwes, Recovering, Looping, AtTask
    <3>. QED
      BY <2>6, <3>3, <3>4 DEF Probe, StartRecovery, Goto
  <2>. QED
    BY <1>3, <2>4, <2>5, <2>6 DEF Requests
<1>. QED
  BY <1>2, <1>3

(* The first checkpoint of a recovery: an older retry keeps its own, and   *)
(* no turn of it has started; every other task is read from its end.       *)
LEMMA BeginOwes ==
    ASSUME Core, Owes, Begin
    PROVE  Owes'
<1>1. /\ TasksTyped /\ manifest \in Manifests /\ owed \subseteq Tasks /\ op.ids \subseteq Tasks
      /\ op \in Operations /\ pc = "begin" /\ UNCHANGED log
      /\ \A t \in Tasks : Len(log[t]) \in Nat
  <2>1. pc = "begin" /\ UNCHANGED log
    BY DEF Begin, taskVars
  <2>. QED
    BY <2>1, CoreTypes DEF TasksTyped
<1>2. \A t \in owed : Recorded(manifest[t], log[t]) /\ State(t) \in Resumable
  BY <1>1, OwedRecorded DEF Owes, OwedKnown
<1>3. CASE Return /\ UNCHANGED <<manifest, history>>
  <2>1. OwedKnown'
    BY <1>1, <1>2, <1>3, OwedStill DEF Owes, history
  <2>. QED
    BY <1>3, <2>1, ReturnOwes DEF Owes
<1>4. CASE ~(Return /\ UNCHANGED <<manifest, history>>)
  <2>1. /\ manifest' = Checkpointed /\ mem' = Checkpointed
        /\ op' = [op EXCEPT !.acct = acct, !.claimed = Claims, !.todo = op.ids]
        /\ tgt' = [t \in Tasks |->
                      IF t \in op.ids
                      THEN [NoTarget EXCEPT !.base = View(t), !.seen = View(t)]
                      ELSE NoTarget]
        /\ pc' \in {"prepare", "finalize"}
        /\ \/ PreservesCheckpoint(op.mode) /\ UNCHANGED owed
           \/ /\ op.mode = "explicit"
              /\ owed' = owed \union {t \in op.ids \ Claims : State(t) \in Resumable}
           \/ /\ op.mode = "discovered"
              /\ owed' = owed \union {t \in op.ids : State(t) = "quota"}
    BY <1>4 DEF Begin, Goto, history
  <2>2. op'.ids = op.ids
    BY <1>1, <2>1 DEF Operations
  <2>3. \A t \in op.ids : tgt'[t].outcome = "open" /\ tgt'[t].base = View(t)
    BY <1>1, <2>1 DEF NoTarget
  <2>4. /\ \A t \in op.ids : Checkpointed[t] # None
        /\ \A t \in Tasks \ op.ids : Checkpointed[t] = manifest[t]
    BY <1>1, CheckpointEntries DEF Entered
  <2>5. ASSUME NEW t \in op.ids
        PROVE  \/ manifest[t] # None /\ manifest[t].awaiting /\ Checkpointed[t] = manifest[t]
               \/ /\ PreservesCheckpoint(op.mode) /\ manifest[t] # None
                  /\ Checkpointed[t] = manifest[t]
               \/ ~Checkpointed[t].awaiting /\ NoStart(log[t], Checkpointed[t].off)
    <3>1. t \in Tasks
      BY <1>1
    <3>2. CASE manifest[t] = None
      BY <1>1, <3>1, <3>2 DEF Checkpointed, Fresh, NoStart
    <3>3. CASE manifest[t] # None /\ ~PreservesCheckpoint(op.mode) /\ ~manifest[t].awaiting
      <4>1. Checkpointed[t] = [manifest[t] EXCEPT !.off = Len(log[t])]
        BY <3>1, <3>3 DEF Checkpointed
      <4>2. manifest[t] \in Entries
        BY <1>1, <3>1, <3>3 DEF Manifests, Maybe
      <4>3. Checkpointed[t].off = Len(log[t]) /\ ~Checkpointed[t].awaiting
        BY <3>3, <4>1, <4>2 DEF Entries
      <4>. QED
        BY <1>1, <3>1, <4>3 DEF NoStart
    <3>4. CASE manifest[t] # None /\ (PreservesCheckpoint(op.mode) \/ manifest[t].awaiting)
      BY <3>1, <3>4 DEF Checkpointed
    <3>. QED
      BY <3>2, <3>3, <3>4
  <2>6. ASSUME NEW t \in op.ids
        PROVE  View(t) = Checkpointed[t].off \/ NoStart(log[t], View(t))
    BY <1>1 DEF View, NoStart
  <2>7. ASSUME NEW t \in owed'
        PROVE  /\ t \in Tasks /\ State(t) \in Resumable
               /\ Recorded(Checkpointed[t], log[t])
               /\ t \in op.ids => /\ NoStart(log[t], Checkpointed[t].off)
                                  /\ NoStart(log[t], View(t))
    <3>1. t \in Tasks /\ State(t) \in Resumable
      BY <1>1, <1>2, <2>1 DEF Resumable
    <3>2. CASE t \notin op.ids
      BY <1>2, <2>1, <2>4, <3>1, <3>2
    <3>3. CASE t \in op.ids
      <4>1. CASE /\ manifest[t] # None /\ manifest[t].awaiting
                 /\ Checkpointed[t] = manifest[t]
        <5>1. t \in Awaiting(manifest)
          BY <3>1, <4>1 DEF Awaiting, Entered
        <5>2. t \in owed
          BY <1>1, <2>1, <3>3, <5>1 DEF Claims, Owes, RestartOwes
        <5>. QED
          BY <1>2, <2>6, <3>1, <3>3, <4>1, <5>2 DEF Recorded
      <4>2. CASE /\ PreservesCheckpoint(op.mode) /\ manifest[t] # None
                 /\ Checkpointed[t] = manifest[t]
        <5>1. op.mode \notin {"explicit", "discovered"}
          BY <4>2 DEF PreservesCheckpoint, Deferred
        <5>2. t \in owed /\ NoStart(log[t], manifest[t].off)
          BY <1>1, <2>1, <3>3, <4>2, <5>1 DEF Owes, RestartOwes
        <5>. QED
          BY <1>2, <2>6, <3>1, <3>3, <4>2, <5>2
      <4>3. CASE ~Checkpointed[t].awaiting /\ NoStart(log[t], Checkpointed[t].off)
        BY <2>4, <2>6, <3>1, <3>3, <4>3 DEF Recorded
      <4>. QED
        BY <2>5, <3>3, <4>1, <4>2, <4>3
    <3>. QED
      BY <3>2, <3>3
  <2>8. OwedKnown'
    BY <1>1, <2>1, <2>7 DEF OwedKnown, State
  <2>9. RecoveryOwes'
    BY <1>1, <2>1, <2>2, <2>3, <2>7 DEF RecoveryOwes, AtTask
  <2>. QED
    BY <2>1, <2>8, <2>9 DEF Owes, RestartOwes
<1>. QED
  BY <1>3, <1>4

(* What a step of the loops must leave of the task it is about.            *)
StillOwes(t) ==
    t \in owed => \/ tgt'[t].outcome = "retry"
                  \/ tgt'[t].outcome = "open" /\ NoStart(log[t], tgt'[t].base)

(* A pass over all tasks leaves it of each.                                *)
LEMMA LoopOwes ==
    ASSUME Core, Owes, NEW t \in Tasks, Prepare(t) \/ Scan(t) \/ Dispatch(t)
    PROVE  Owes'
<1>1. /\ TasksTyped /\ LogsInv /\ owed \subseteq Tasks /\ op.ids \subseteq Tasks
      /\ op \in Operations /\ tgt = [u \in Tasks |-> tgt[u]]
      /\ Good(log[t], tgt[t]) /\ tgt[t] \in Targets
      /\ tgt[t].base \in Nat /\ tgt[t].seen \in Nat
      /\ tgt[t].seen = tgt[t].base \/ tgt[t].seen <= Len(log[t])
  BY CoreTypes
<1>2. /\ pc \in {"prepare", "scan", "dispatch"} /\ UNCHANGED <<log, manifest, mem, owed>>
      /\ op.todo \subseteq op.ids /\ t \in op.todo
  BY DEF Prepare, Scan, Dispatch, TargetStep, taskVars, history, Core, IInv, Control,
     NotYetAsked, Looping
<1>3. pc \in Recovering /\ pc \in Looping
  BY <1>2 DEF Recovering, Looping
<1>4. /\ \A u \in owed : Recorded(manifest[u], log[u]) /\ State(u) \in Resumable
      /\ \A u \in owed : Recorded(mem[u], log[u])
      /\ \A u \in owed \intersect op.ids :
            /\ NoStart(log[u], mem[u].off)
            /\ \/ tgt[u].outcome = "retry"
               \/ tgt[u].outcome = "open" /\ NoStart(log[u], tgt[u].base)
  BY <1>2, <1>3, OwedRecorded DEF Owes, OwedKnown, RecoveryOwes
<1>5. OwedKnown'
  BY <1>2, <1>4, OwedStill DEF Owes
<1>6. ASSUME \/ pc = "prepare" /\ Done(t, "prepare", "scan")
             \/ pc = "scan" /\ Done(t, "scan", "dispatch")
             \/ pc = "dispatch" /\ Done(t, "dispatch", "observe"),
             \A u \in Tasks \ {t} : tgt'[u] = tgt[u], StillOwes(t),
             pc = "dispatch" /\ t \in owed => tgt'[t].outcome = "retry"
      PROVE  Owes'
  <2>1. /\ op'.ids = op.ids
        /\ \/ pc' \in {"prepare", "scan"}
           \/ pc' = "dispatch" /\ pc = "scan" /\ op'.todo = op.ids
           \/ pc' = "dispatch" /\ pc = "dispatch" /\ op'.todo = op.todo \ {t}
           \/ pc' = "observe" /\ pc = "dispatch" /\ op.todo = {t}
    BY <1>1, <1>6, DoneLeads
  <2>2. pc' \in {"prepare", "scan", "dispatch", "observe"} /\ pc' \in Recovering
    BY <2>1 DEF Recovering, Looping
  <2>3. \A u \in owed \intersect op.ids :
           \/ tgt'[u].outcome = "retry"
           \/ tgt'[u].outcome = "open" /\ NoStart(log[u], tgt'[u].base)
    BY <1>1, <1>4, <1>6 DEF StillOwes
  <2>4. pc = "dispatch" =>
           \A u \in owed \intersect (op.ids \ (op.todo \ {t})) : tgt'[u].outcome = "retry"
    BY <1>1, <1>6 DEF Owes, RecoveryOwes
  <2>5. RecoveryOwes'
    BY <1>2, <1>4, <2>1, <2>2, <2>3, <2>4 DEF RecoveryOwes, AtTask
  <2>. QED
    BY <1>5, <2>2, <2>5 DEF Owes, RestartOwes
<1>7. ASSUME Settle(t, "retry")
      PROVE  /\ \A u \in Tasks \ {t} : tgt'[u] = tgt[u]
             /\ tgt'[t].outcome = "retry" /\ StillOwes(t)
  BY <1>1, <1>7, SettledGood DEF Outcomes, StillOwes
<1>8. ASSUME t \in owed, tgt[t].outcome = "open"
      PROVE  /\ Polled(t).outcome = "open" /\ Polled(t).base = tgt[t].base
             /\ NoStart(log[t], tgt[t].base)
             /\ ~Evidence(log[t], tgt[t].base, tgt[t].seen).started
  <2>1. NoStart(log[t], tgt[t].base)
    BY <1>2, <1>4, <1>8
  <2>. QED
    BY <1>1, <2>1, PolledOpen, NotStarted
<1>9. CASE Prepare(t)
  <2>1. Done(t, "prepare", "scan") /\ pc = "prepare" /\ tgt[t].outcome = "open"
    BY <1>2, <1>9 DEF Prepare, Core, Based
  <2>2. CASE Settle(t, "retry")
    BY <1>6, <1>7, <2>1, <2>2
  <2>3. CASE ~Settle(t, "retry")
    <3>1. PICK blind, rotated :
            LET target == [Polled(t) EXCEPT !.state = Inspected(t, blind), !.auth = rotated,
                                            !.queued = queue[t].n > 0]
            IN tgt' = [tgt EXCEPT ![t] =
                         IF Inspected(t, blind) = "clean" /\ queue[t].n = 0
                         THEN [target EXCEPT !.outcome = "skipped"] ELSE target]
      BY <1>9, <2>3 DEF Prepare
    <3>2. Polled(t) \in Targets
      BY <1>1, PolledGood
    <3>3. /\ \A u \in Tasks \ {t} : tgt'[u] = tgt[u]
          /\ Inspected(t, blind) # "clean" => /\ tgt'[t].base = Polled(t).base
                                            /\ tgt'[t].outcome = Polled(t).outcome
      BY <1>1, <3>1, <3>2 DEF Targets
    <3>4. StillOwes(t)
      BY <1>4, <1>8, <2>1, <3>3, InspectionSays DEF StillOwes, Resumable
    <3>. QED
      BY <1>6, <2>1, <3>3, <3>4
  <2>. QED
    BY <2>2, <2>3
<1>10. CASE Scan(t)
  <2>1. Done(t, "scan", "dispatch") /\ pc = "scan"
    BY <1>10 DEF Scan
  <2>2. CASE Settle(t, "retry")
    BY <1>6, <1>7, <2>1, <2>2
  <2>3. CASE ~Settle(t, "retry")
    <3>1. \/ UNCHANGED tgt
          \/ tgt[t].outcome = "open" /\ tgt' = [tgt EXCEPT ![t] = Polled(t)]
      BY <1>10, <2>3 DEF Scan
    <3>2. (\A u \in Tasks \ {t} : tgt'[u] = tgt[u]) /\ StillOwes(t)
      BY <1>1, <1>2, <1>4, <1>8, <3>1 DEF StillOwes
    <3>. QED
      BY <1>6, <2>1, <3>2
  <2>. QED
    BY <2>2, <2>3
<1>11. CASE Dispatch(t) /\ Done(t, "dispatch", "observe")
  <2>1. /\ pc = "dispatch"
        /\ \/ Settle(t, "retry")
           \/ /\ UNCHANGED tgt
              /\ \/ tgt[t].outcome # "open"
                 \/ Evidence(log[t], tgt[t].base, tgt[t].seen).started
    <3>1. Goto("check") => ~Done(t, "dispatch", "observe")
      BY DEF Goto, Done
    <3>. QED
      BY <1>11, <3>1 DEF Dispatch
  <2>2. CASE Settle(t, "retry")
    BY <1>6, <1>7, <1>11, <2>1, <2>2
  <2>3. CASE ~Settle(t, "retry")
    <3>1. t \in owed => tgt'[t].outcome = "retry"
      BY <1>2, <1>4, <1>8, <2>1, <2>3
    <3>. QED
      BY <1>6, <1>11, <2>1, <2>3, <3>1 DEF StillOwes
  <2>. QED
    BY <2>2, <2>3
<1>12. CASE Dispatch(t) /\ ~Done(t, "dispatch", "observe")
  <2>1. /\ pc = "dispatch" /\ tgt[t].outcome = "open" /\ pc' = "check"
        /\ op' = [op EXCEPT !.cur = t, !.rev = queue[t].rev]
        /\ tgt' = [tgt EXCEPT ![t].queued = queue[t].n > 0]
    BY <1>12 DEF Dispatch, Goto
  <2>2. op'.ids = op.ids /\ op'.todo = op.todo
    BY <1>1, <2>1 DEF Operations
  <2>3. /\ \A u \in Tasks \ {t} : tgt'[u] = tgt[u]
        /\ tgt'[t].base = tgt[t].base /\ tgt'[t].outcome = tgt[t].outcome
    BY <1>1, <2>1 DEF Targets
  <2>4. \A u \in Tasks : tgt'[u].base = tgt[u].base /\ tgt'[u].outcome = tgt[u].outcome
    BY <2>3
  <2>5. RecoveryOwes'
    BY <1>1, <1>2, <1>4, <2>1, <2>2, <2>4 DEF Owes, RecoveryOwes
  <2>. QED
    BY <1>5, <2>1, <2>5 DEF Owes, RestartOwes
<1>. QED
  BY <1>9, <1>10, <1>11, <1>12

(* Without a channel nothing was sent; a task that did not go on by itself *)
(* is put off.                                                             *)
LEMMA NoChannelOwes ==
    ASSUME Core, Owes, NoChannel
    PROVE  Owes'
<1>1. /\ TasksTyped /\ LogsInv /\ owed \subseteq Tasks /\ op.ids \subseteq Tasks
      /\ \A u \in Tasks : Good(log[u], tgt[u]) /\ tgt[u] \in Targets
  BY CoreTypes
<1>2. /\ pc = "dispatch" /\ pc' = "observe" /\ UNCHANGED <<log, manifest, mem, owed, op>>
      /\ pc \in Recovering
  BY DEF NoChannel, Goto, taskVars, history, Recovering, Looping
<1>3. \A u \in owed : Recorded(manifest[u], log[u]) /\ Recorded(mem[u], log[u])
  BY <1>2, OwedRecorded DEF Owes, RecoveryOwes
<1>4. ASSUME NEW u \in owed \intersect op.ids
      PROVE  NoStart(log[u], mem[u].off) /\ tgt'[u].outcome = "retry"
  <2>1. /\ NoStart(log[u], mem[u].off) /\ u \in Tasks
        /\ \/ tgt[u].outcome = "retry"
           \/ tgt[u].outcome = "open" /\ NoStart(log[u], tgt[u].base)
    BY <1>1, <1>2 DEF Owes, RecoveryOwes
  <2>2. tgt'[u] = IF u \notin op.ids \/ tgt[u].outcome \in {"retry", "skipped"} THEN tgt[u]
                  ELSE IF Readable(u) /\ Read(u).started THEN Polled(u)
                  ELSE [tgt[u] EXCEPT !.outcome = "retry"]
    BY <2>1 DEF NoChannel
  <2>3. tgt[u].outcome = "open" => ~Read(u).started
    BY <1>1, <2>1, PolledOpen
  <2>4. [tgt[u] EXCEPT !.outcome = "retry"].outcome = "retry"
    BY <1>1, <2>1 DEF Targets
  <2>. QED
    BY <2>1, <2>2, <2>3, <2>4
<1>5. OwedKnown'
  BY <1>2, <1>3, OwedStill DEF Owes
<1>6. RecoveryOwes'
  BY <1>2, <1>3, <1>4 DEF RecoveryOwes, AtTask
<1>. QED
  BY <1>2, <1>5, <1>6 DEF Owes, RestartOwes

(* The task at hand: its entry is consumed, and put back or asked for.     *)
LEMMA TaskOwes ==
    ASSUME Core, Owes, DispatchStep
    PROVE  Owes'
<1>. DEFINE t == op.cur
<1>1. /\ TasksTyped /\ LogsInv /\ owed \subseteq Tasks /\ op.ids \subseteq Tasks
      /\ op \in Operations /\ tgt = [u \in Tasks |-> tgt[u]] /\ manifest \in Manifests
      /\ \A u \in Tasks : Good(log[u], tgt[u]) /\ tgt[u] \in Targets
  BY CoreTypes
<1>2. /\ pc \in AtTask /\ pc \in Looping /\ pc \in Recovering /\ UNCHANGED <<log, mem>>
      /\ op.todo \subseteq op.ids /\ t \in op.todo /\ t \in Tasks /\ t \in op.ids
      /\ tgt[t].outcome = "open"
  <2>1. pc \in AtTask /\ UNCHANGED <<log, mem>>
    BY DEF DispatchStep, Check, Mark, Confirm, Send, Await, AtTask, taskVars
  <2>2. pc \in Looping /\ pc \in Recovering
    BY <2>1 DEF Looping, Recovering
  <2>. QED
    BY <1>1, <2>1, <2>2 DEF Core, IInv, Control, NotYetAsked, AtHand, Based
<1>3. /\ \A u \in owed : State(u) \in Resumable /\ Recorded(mem[u], log[u])
      /\ \A u \in owed : \/ Recorded(manifest[u], log[u])
                         \/ pc \in {"confirm", "send"} /\ u = t
      /\ \A u \in owed \intersect op.ids :
            /\ NoStart(log[u], mem[u].off)
            /\ \/ tgt[u].outcome = "retry"
               \/ tgt[u].outcome = "open" /\ NoStart(log[u], tgt[u].base)
      /\ \A u \in owed \intersect (op.ids \ op.todo) : tgt[u].outcome = "retry"
  BY <1>1, <1>2 DEF Owes, OwedKnown, RecoveryOwes
<1>. HIDE DEF t
<1>4. ASSUME Leave(t), UNCHANGED owed, \A u \in Tasks \ {t} : tgt'[u] = tgt[u],
             \A u \in owed : Recorded(manifest'[u], log[u]),
             t \in owed => tgt'[t].outcome = "retry"
      PROVE  Owes'
  <2>1. /\ op'.ids = op.ids
        /\ \/ pc' = "observe" /\ op.todo = {t}
           \/ pc' = "dispatch" /\ op'.todo = op.todo \ {t}
    BY <1>1, <1>4, LeaveLeads
  <2>2. \A u \in owed \intersect (op.ids \ (op.todo \ {t})) : tgt'[u].outcome = "retry"
    BY <1>1, <1>3, <1>4
  <2>3. \A u \in owed \intersect op.ids :
           \/ tgt'[u].outcome = "retry"
           \/ tgt'[u].outcome = "open" /\ NoStart(log[u], tgt'[u].base)
    BY <1>1, <1>3, <1>4
  <2>4. OwedKnown'
    BY <1>2, <1>4, OwedStill DEF Owes
  <2>5. RecoveryOwes'
    BY <1>2, <1>3, <1>4, <2>1, <2>2, <2>3 DEF RecoveryOwes, AtTask
  <2>. QED
    BY <2>1, <2>4, <2>5 DEF Owes, RestartOwes
<1>5. ASSUME NEW outcome, Settle(t, outcome), outcome \in {"retry", "failed"}
      PROVE  tgt'[t].outcome = outcome /\ \A u \in Tasks \ {t} : tgt'[u] = tgt[u]
  BY <1>1, <1>2, <1>5, SettledGood DEF Outcomes
<1>6. ASSUME pc' \in {"mark", "confirm", "send"}, UNCHANGED owed,
             op'.cur = t, op'.ids = op.ids, op'.todo = op.todo,
             \A u \in Tasks : /\ tgt'[u].outcome = tgt[u].outcome
                              /\ tgt'[u].base = tgt[u].base,
             \A u \in owed : \/ Recorded(manifest'[u], log[u])
                             \/ pc' \in {"confirm", "send"} /\ u = t
      PROVE  Owes'
  <2>1. OwedKnown'
    BY <1>2, <1>6, OwedStill DEF Owes
  <2>2. RecoveryOwes'
    <3>1. \A u \in owed \intersect op.ids :
             \/ tgt'[u].outcome = "retry"
             \/ tgt'[u].outcome = "open" /\ NoStart(log[u], tgt'[u].base)
      BY <1>1, <1>3, <1>6
    <3>2. \A u \in owed \intersect (op.ids \ op.todo) : tgt'[u].outcome = "retry"
      BY <1>1, <1>3, <1>6
    <3>. QED
      BY <1>1, <1>2, <1>3, <1>6, <3>1, <3>2 DEF RecoveryOwes, Recovering, Looping, AtTask
  <2>. QED
    BY <1>6, <2>1, <2>2 DEF Owes, RestartOwes
<1>7. CASE Check
  <2>1. UNCHANGED <<manifest, owed>> /\ pc = "check"
    BY <1>7 DEF Check, history
  <2>2. CASE Settle(t, "retry") /\ Leave(t)
    BY <1>3, <1>4, <1>5, <2>1, <2>2
  <2>3. CASE ~(Settle(t, "retry") /\ Leave(t))
    <3>1. /\ tgt' = [tgt EXCEPT ![t] = Polled(t)]
          /\ \/ Leave(t) /\ Read(t).started
             \/ pc' = "mark" /\ UNCHANGED op /\ ~Read(t).started
      BY <1>7, <2>3 DEF Check, Goto, t
    <3>2. tgt'[t] = Polled(t) /\ \A u \in Tasks \ {t} : tgt'[u] = tgt[u]
      BY <1>1, <1>2, <3>1
    <3>3. t \in owed => ~Read(t).started
      BY <1>1, <1>2, <1>3, PolledOpen
    <3>4. CASE Leave(t) /\ Read(t).started
      BY <1>3, <1>4, <2>1, <3>2, <3>3, <3>4
    <3>5. CASE pc' = "mark" /\ UNCHANGED op
      <4>1. Polled(t).base = tgt[t].base
        BY <1>1, <1>2, PolledGood
      <4>2. Polled(t).outcome = tgt[t].outcome
        <5>1. Based'
          BY TaskBased DEF Core
        <5>2. tgt'[op.cur].outcome = "open"
          BY <3>5, <5>1 DEF Based, AtTask
        <5>. QED
          BY <1>2, <3>2, <5>2 DEF t
      <4>3. \A u \in Tasks : tgt'[u].outcome = tgt[u].outcome /\ tgt'[u].base = tgt[u].base
        BY <3>2, <4>1, <4>2
      <4>4. op'.cur = t
        BY <3>5 DEF t
      <4>. QED
        BY <1>3, <1>6, <2>1, <3>5, <4>3, <4>4
    <3>. QED
      BY <3>1, <3>4, <3>5
  <2>. QED
    BY <2>2, <2>3
<1>8. CASE Mark
  <2>1. CASE Settle(t, "retry") /\ Leave(t) /\ UNCHANGED <<manifest, owed>> /\ pc = "mark"
    BY <1>3, <1>4, <1>5, <2>1
  <2>2. CASE ~(Settle(t, "retry") /\ Leave(t) /\ UNCHANGED <<manifest, owed>> /\ pc = "mark")
    <3>1. /\ pc = "mark" /\ pc' = "confirm" /\ UNCHANGED <<tgt, owed>>
          /\ manifest' = [manifest EXCEPT ![t] = None]
          /\ op' = [op EXCEPT !.entry = manifest[t]]
      BY <1>8, <2>2 DEF Mark, Goto, t, history
    <3>2. op'.cur = t /\ op'.ids = op.ids /\ op'.todo = op.todo
      BY <1>1, <3>1 DEF Operations, t
    <3>3. \A u \in owed : Recorded(manifest'[u], log[u]) \/ u = t
      BY <1>1, <1>3, <3>1 DEF Manifests
    <3>. QED
      BY <1>6, <3>1, <3>2, <3>3
  <2>. QED
    BY <2>1, <2>2
<1>9. CASE Confirm
  <2>1. CASE SameIdentity
    <3>1. /\ pc = "confirm" /\ pc' = "send" /\ UNCHANGED <<op, manifest, owed>>
          /\ tgt' = [tgt EXCEPT ![t].sent = TRUE]
      BY <1>9, <2>1 DEF Confirm, Goto, t, history
    <3>2. \A u \in Tasks : tgt'[u].outcome = tgt[u].outcome /\ tgt'[u].base = tgt[u].base
      <4>1. /\ tgt'[t].outcome = tgt[t].outcome /\ tgt'[t].base = tgt[t].base
            /\ \A u \in Tasks \ {t} : tgt'[u] = tgt[u]
        BY <1>1, <1>2, <3>1 DEF Targets
      <4>. QED
        BY <4>1
    <3>3. op'.cur = t
      BY <3>1 DEF t
    <3>. QED
      BY <1>3, <1>6, <3>1, <3>2, <3>3
  <2>2. CASE ~SameIdentity
    <3>1. /\ manifest' = [manifest EXCEPT ![t] = op.entry] /\ UNCHANGED owed
          /\ Settle(t, "retry") /\ Leave(t) /\ pc = "confirm"
      BY <1>9, <2>2 DEF Confirm, t, history
    <3>2. op.entry = mem[t]
      BY <3>1 DEF Core, Held, t
    <3>3. \A u \in owed : Recorded(manifest'[u], log[u])
      BY <1>1, <1>2, <1>3, <3>1, <3>2 DEF Manifests
    <3>. QED
      BY <1>4, <1>5, <3>1, <3>3
  <2>. QED
    BY <2>1, <2>2
<1>10. CASE Send
  <2>1. /\ pc = "send" /\ pc' = "await" /\ owed' = owed \ {t}
        /\ UNCHANGED <<manifest, op, tgt>>
    BY <1>10 DEF Send, Goto, t
  <2>2. OwedKnown'
    BY <1>2, <1>3, <2>1, OwedStill DEF Owes
  <2>3. op'.cur \notin owed'
    BY <2>1 DEF t
  <2>4. RecoveryOwes'
    BY <1>2, <1>3, <2>1, <2>3 DEF RecoveryOwes, Recovering, Looping, AtTask
  <2>. QED
    BY <2>1, <2>2, <2>4 DEF Owes, RestartOwes
<1>11. CASE Await
  <2>1. Leave(t) /\ UNCHANGED <<manifest, owed>> /\ pc = "await" /\ t \notin owed
    BY <1>11 DEF Await, t, history, Owes, RecoveryOwes
  <2>2. \A u \in Tasks \ {t} : tgt'[u] = tgt[u]
    <3>1. CASE Settle(t, "failed")
      BY <1>5, <3>1
    <3>2. CASE ~Settle(t, "failed")
      BY <1>1, <1>11, <3>2 DEF Await, t
    <3>. QED
      BY <3>1, <3>2
  <2>. QED
    BY <1>3, <1>4, <2>1, <2>2
<1>. QED
  BY <1>7, <1>8, <1>9, <1>10, <1>11 DEF DispatchStep

(* What is observed was sent or went on by itself.                         *)
LEMMA ObserveOwes ==
    ASSUME Core, Owes, NEW t \in Tasks, Observe(t)
    PROVE  Owes'
<1>1. /\ TasksTyped /\ owed \subseteq Tasks /\ op.ids \subseteq Tasks
      /\ tgt = [u \in Tasks |-> tgt[u]] /\ tgt[t] \in Targets
  BY CoreTypes
<1>2. /\ pc = "observe" /\ UNCHANGED <<log, manifest, mem, owed, op, pc>>
      /\ t \in op.ids /\ tgt[t].outcome = "open"
  BY DEF Observe, Pending, taskVars, history
<1>3. t \notin owed
  BY <1>2 DEF Owes, RecoveryOwes
<1>4. \A u \in Tasks \ {t} : tgt'[u] = tgt[u]
  <2>1. CASE Settle(t, "failed")
    BY <1>1, <2>1, SettledGood DEF Outcomes
  <2>2. CASE ~Settle(t, "failed")
    BY <1>1, <2>2 DEF Observe
  <2>. QED
    BY <2>1, <2>2
<1>5. OwedKnown'
  BY <1>2, OwedStill DEF Owes, OwedKnown
<1>6. RecoveryOwes'
  BY <1>1, <1>2, <1>3, <1>4 DEF Owes, RecoveryOwes, AtTask, Recovering
<1>. QED
  BY <1>2, <1>5, <1>6 DEF Owes, RestartOwes

(* What is written at the end records every task that is still owed.       *)
LEMMA FinalizeOwes ==
    ASSUME Core, Owes, Finalize
    PROVE  Owes'
<1>. DEFINE final == [t \in Tasks |-> Finalized(t)]
<1>1. /\ TasksTyped /\ owed \subseteq Tasks /\ op.ids \subseteq Tasks /\ mem \in Manifests
      /\ op \in Operations
  BY CoreTypes
<1>2. Return /\ UNCHANGED log /\ pc \in Recovering /\ op.acct \in Accounts
      /\ pc \notin {"confirm", "send"}
  BY DEF Finalize, taskVars, history, Recovering, Core, IInv, Control, Accounted
<1>3. ASSUME NEW t \in owed
      PROVE  /\ t \in Tasks /\ State(t) \in Resumable /\ Recorded(mem[t], log[t])
             /\ mem[t] \in Entries
             /\ t \in op.ids => NoStart(log[t], mem[t].off) /\ tgt[t].outcome = "retry"
  <2>1. t \in op.ids => tgt[t].outcome # "open"
    BY DEF Finalize, Pending
  <2>. QED
    BY <1>1, <1>2, <2>1 DEF Owes, OwedKnown, RecoveryOwes, Recorded, Manifests, Maybe
<1>4. ASSUME NEW t \in Tasks
      PROVE  Finalized(t) \in Maybe(Entries)
  <2>1. mem[t] \in Maybe(Entries) /\ (t \in op.ids => mem[t] \in Entries)
    BY <1>1, <1>2, <1>4 DEF Manifests, Maybe, Core, IInv, Control, Accounted, Entered
  <2>2. t \in op.ids => [mem[t] EXCEPT !.awaiting = TRUE, !.owner = op.acct] \in Entries
    BY <1>2, <2>1 DEF Entries, Maybe
  <2>. QED
    BY <2>1, <2>2 DEF Finalized, Maybe
<1>5. final \in Manifests
  BY <1>4 DEF Manifests
<1>6. ASSUME NEW t \in owed
      PROVE  Recorded(final[t], log[t])
  <2>1. final[t] = Finalized(t)
    BY <1>3
  <2>2. CASE t \notin op.ids \/ (t \in op.claimed /\ ~tgt[t].sent)
    BY <1>3, <2>1, <2>2 DEF Finalized
  <2>3. CASE ~(t \notin op.ids \/ (t \in op.claimed /\ ~tgt[t].sent))
    <3>1. final[t] = [mem[t] EXCEPT !.awaiting = TRUE, !.owner = op.acct]
      BY <1>3, <2>1, <2>3 DEF Finalized
    <3>2. [mem[t] EXCEPT !.awaiting = TRUE, !.owner = op.acct] \in Entries
      BY <1>2, <1>3 DEF Entries, Maybe
    <3>3. [mem[t] EXCEPT !.awaiting = TRUE, !.owner = op.acct].off = mem[t].off
      BY <1>3 DEF Entries
    <3>. QED
      BY <1>3, <2>3, <3>1, <3>2, <3>3, NoEntryAssumption DEF Recorded
  <2>. QED
    BY <2>2, <2>3
<1>7. \/ manifest' = final /\ owed' = owed
      \/ \E probe, blind :
            /\ manifest' = Prune(final, probe, blind)
            /\ owed' = owed \ (Entered(Prune(final, probe, {})) \ Entered(manifest'))
  BY DEF Finalize
<1>. HIDE DEF final
<1>8. \A t \in owed' : t \in owed /\ manifest'[t] = final[t]
  <2>1. CASE manifest' = final /\ owed' = owed
    BY <2>1
  <2>2. ASSUME NEW probe, NEW blind, manifest' = Prune(final, probe, blind),
               owed' = owed \ (Entered(Prune(final, probe, {})) \ Entered(manifest'))
        PROVE  \A t \in owed' : t \in owed /\ manifest'[t] = final[t]
    <3>1. \A t \in owed : Prune(final, probe, {})[t] = final[t] /\ final[t] # None /\ t \in Tasks
      BY <1>1, <1>3, <1>5, <1>6, PruneKeeps DEF Recorded
    <3>2. \A t \in owed' : t \in owed /\ manifest'[t] # None
      BY <2>2, <3>1 DEF Entered
    <3>. QED
      BY <1>5, <2>2, <3>1, <3>2, PruneRemoves
  <2>. QED
    BY <1>7, <2>1, <2>2
<1>9. OwedKnown'
  BY <1>2, <1>6, <1>8, OwedStill DEF Owes
<1>. QED
  BY <1>2, <1>9, ReturnOwes DEF Owes

(* A crash leaves the journal; what the environment does to a task it does *)
(* to its rollout.                                                         *)
LEMMA EnvironmentOwes ==
    ASSUME Core, Owes, Environment
    PROVE  Owes'
<1>1. /\ TasksTyped /\ owed \subseteq Tasks /\ op.ids \subseteq Tasks
      /\ manifest \in Manifests /\ mem \in Manifests
      /\ \A u \in Tasks : tgt[u].base \in Nat
  BY CoreTypes
<1>2. CASE Crash
  <2>1. UNCHANGED <<log, manifest>> /\ Return
        /\ owed' = IF pc \in {"confirm", "send"} THEN owed \ {op.cur} ELSE owed
    BY <1>2 DEF Crash, taskVars
  <2>2. OwedKnown'
    BY <2>1, OwedStill DEF Owes, OwedKnown
  <2>. QED
    BY <2>1, <2>2, ReturnOwes DEF Owes
<1>3. CASE ~Crash
  <2>1. /\ UNCHANGED <<manifest, pc, tgt, mem>> /\ op'.ids = op.ids /\ op'.todo = op.todo
        /\ op'.cur = op.cur /\ op'.mode = op.mode
    BY <1>3, EnvironmentLeaves DEF Core, IInv
  <2>2. \A t \in owed' : t \in owed /\ TailState(log'[t]) \in Resumable
    <3>1. \A t \in owed : TailState(log[t]) \in Resumable
      BY DEF Owes, OwedKnown, State
    <3>2. CASE UNCHANGED <<log, owed>>
      BY <3>1, <3>2
    <3>3. CASE UserQuits
      BY <3>3 DEF UserQuits, DesktopEnds, State
    <3>4. ASSUME NEW u \in Tasks, TurnEnds(u)
          PROVE  \A t \in owed' : t \in owed /\ TailState(log'[t]) \in Resumable
      BY <3>4 DEF TurnEnds, State
    <3>5. ASSUME NEW u \in Tasks, UserStart(u) \/ Deliver(u)
          PROVE  \A t \in owed' : t \in owed /\ TailState(log'[t]) \in Resumable
      <4>1. owed' = owed \ {u} /\ \A t \in Tasks \ {u} : log'[t] = log[t]
        BY <1>1, <3>5 DEF UserStart, Deliver, TurnStarts, Recording, TasksTyped
      <4>. QED
        BY <1>1, <3>1, <4>1
    <3>6. ASSUME NEW u \in Tasks, Work(u)
          PROVE  \A t \in owed' : t \in owed /\ TailState(log'[t]) \in Resumable
      <4>1. /\ owed' = owed /\ \A t \in Tasks \ {u} : log'[t] = log[t]
            /\ log'[u] = Append(log[u], Record("work", running[u]))
        BY <1>1, <3>6 DEF Work, Recording, TasksTyped, history
      <4>2. log[u] \in Seq(Records) /\ Record("work", running[u]) \in Records
        <5>1. running[u] \in 0..MaxLog /\ running[u] # 0
          BY <1>1, <3>6 DEF Work, TasksTyped
        <5>2. running[u] \in 1..MaxLog
          BY <5>1, RecoveryAssumption
        <5>. QED
          BY <1>1, <5>2 DEF TasksTyped, Record, Records, Kinds
      <4>3. log'[u][Len(log'[u])] = Record("work", running[u])
        BY <4>1, <4>2, AppendKeeps
      <4>4. TailState(log'[u]) = "active"
        BY <4>3 DEF TailState, Record
      <4>. QED
        BY <1>1, <3>1, <4>1, <4>4 DEF Resumable
    <3>. QED
      BY <1>3, <3>2, <3>3, <3>4, <3>5, <3>6
         DEF Environment, UserLaunches, Login, UserQueues, Lose, taskVars, history
  <2>3. ASSUME NEW t \in owed'
        PROVE  /\ t \in owed /\ t \in Tasks
               /\ \A off \in Nat : NoStart(log[t], off) => NoStart(log'[t], off)
               /\ \A e \in Maybe(Entries) : Recorded(e, log[t]) => Recorded(e, log'[t])
    <3>1. t \in owed /\ t \in Tasks
      BY <1>1, <2>2
    <3>2. Grown(t)
      <4>1. [Next]_vars
        BY DEF Next
      <4>. QED
        BY <3>1, <4>1, RolloutsGrow DEF Core, IInv
    <3>. QED
      BY <1>1, <3>1, <3>2, UntouchedKept, StaysRecorded
  <2>4. \A t \in Tasks : /\ manifest[t] \in Maybe(Entries) /\ mem[t] \in Maybe(Entries)
                         /\ manifest[t] # None => manifest[t].off \in Nat
                         /\ mem[t] # None => mem[t].off \in Nat
    BY <1>1 DEF Manifests, Maybe, Entries
  <2>5. OwedKnown'
    BY <2>1, <2>2, <2>3, <2>4 DEF Owes, OwedKnown, State
  <2>6. RestartOwes'
    <3>1. pc \in {"prepareRotation", "stop"} => \A t \in owed' : Recorded(mem[t], log'[t])
      BY <2>3, <2>4 DEF Owes, RestartOwes
    <3>2. \/ pc \in {"confirmRotation", "switch", "launch"}
          \/ pc = "begin" /\ PreservesCheckpoint(op.mode)
          => \A t \in owed' \intersect op.ids : NoStart(log'[t], manifest[t].off)
      BY <2>3, <2>4 DEF Owes, RestartOwes, Core, IInv, Control, Covered, Entered
    <3>. QED
      BY <2>1, <3>1, <3>2 DEF Owes, RestartOwes, Entered, Awaiting
  <2>7. RecoveryOwes'
    <3>1. pc \in Recovering =>
            /\ \A t \in owed' : Recorded(mem[t], log'[t])
            /\ \A t \in owed' \intersect op.ids :
                  /\ NoStart(log'[t], mem[t].off)
                  /\ \/ tgt[t].outcome = "retry"
                     \/ tgt[t].outcome = "open" /\ NoStart(log'[t], tgt[t].base)
      BY <1>1, <2>3, <2>4 DEF Owes, RecoveryOwes, Recorded
    <3>. QED
      BY <2>1, <2>3, <3>1 DEF Owes, RecoveryOwes
  <2>. QED
    BY <2>5, <2>6, <2>7 DEF Owes
<1>. QED
  BY <1>2, <1>3

(* Nothing is owed at first.                                               *)
LEMMA OwesInitial == Init => Owes
  BY DEF Init, Owes, OwedKnown, RestartOwes, RecoveryOwes, Recovering, Looping, AtTask

(* Every step keeps the invariant.                                         *)
LEMMA OwesInductive ==
    ASSUME Core, Owes, [Next]_vars
    PROVE  Owes'
<1>1. CASE UNCHANGED vars
  BY <1>1 DEF vars, taskVars, opVars, history, Owes, OwedKnown, RestartOwes, RecoveryOwes,
     State, Entered, Awaiting
<1>2. CASE OperationStep
  BY <1>2, PrepareRotationOwes, RollBackOwes, StopOwes, CheckpointOwes, ConfirmRotationOwes,
     SwitchLaunchOwes, BeginOwes, NoChannelOwes, LoopOwes, ObserveOwes, TaskOwes, FinalizeOwes
     DEF OperationStep, RestartStep, TargetSteps
<1>. QED
  BY <1>1, <1>2, RequestsOwe, EnvironmentOwes DEF Next

(* A task that an operation undertook to continue, and that no restart or  *)
(* pruning since failed to read, is in the journal, or in the request that *)
(* has just consumed its entry, after any failure or crash.                *)
THEOREM NothingForgotten == Spec => []InterruptedRecorded
<1>1. Init => IInv /\ Truth /\ Held /\ Based /\ Owes
  BY Initial, TruthInitial, OwesInitial
     DEF Init, Held, Based, Recovering, Looping, AtTask
<1>2. IInv /\ Truth /\ Held /\ Based /\ Owes /\ [Next]_vars
      => (IInv /\ Truth /\ Held /\ Based /\ Owes)'
  BY Inductive, TruthInductive, BasedKept, OwesInductive DEF Core
<1>3. Owes => InterruptedRecorded
  BY DEF Owes, OwedKnown, Recorded, InterruptedRecorded
<1>. QED
  BY <1>1, <1>2, <1>3, PTL DEF Spec
=============================================================================
