# openai-usage-monitor: a TLA+ model of the switcher

This directory specifies and checks the state-changing core of
`codex-switcher`, the Rust program behind the menu-bar app: the commands that
move the shared credentials between saved accounts, the daemon that watches
quotas and rotates accounts, the commands that bring logins into the registry, the
two paths that spend a rate-limit reset credit, and the recovery of the tasks that
a restart of ChatGPT Desktop interrupts. The models are written from the code; the
file and lines every definition stands for are listed in `PROJECT.json` under
`map`.

## 1. The system

Two programs and several processes share a handful of files under the Codex
home and ChatGPT Desktop, which obeys nobody.

| Component | State it keeps | Operations | What makes it correct |
|---|---|---|---|
| Direct switch (`switcher/account_switch_*`) | none of its own; rewrites `auth.json` and `accounts.json` | `cxi switch` | no only copy of a credential is overwritten; the two files never disagree silently |
| Direct-switch journal (`switcher/direct_switch_journal*`) | `direct-switch-journal.json` | begin, reconcile, clear | after any crash the next operation finishes or confirms the old state, never guesses |
| Registry sync (`switcher/active_auth_registry_sync_service`, `distribution/daemon_account_sync_service`) | `accounts.json` | reconcile, sync of active tokens | rotated tokens reach the registry before they are needed |
| Auth writers (`storage/active_auth_*`) | `auth.json` | compare-and-write, create, remove | never under a live writer, never over a document nobody read |
| Accounts registry (`storage/accounts_registry_transaction_service`, `storage.rs`) | `accounts.json`, `codex.lock` | locked update | no lost update |
| Desktop lifecycle and session binding (`switcher/codex_app_lifecycle`, `desktop_session_binding_service`) | `desktop-app-session.json` | stop, launch, bind, verify | the marker tells the truth about the process it names |
| Account distribution (`distribution/distribution_*`) | `distribution-journal.json`, recovery checkpoints | automatic and forced rotation, with Desktop or without | an interrupted one is never restarted blindly; every failure leaves an account that works |
| Distribution decision (`distribution_decision_service`, `strategy.rs`) | none | choose the account to rotate to | deterministic; never an exhausted or broken account |
| Automatic backoff (`automatic_distribution_backoff*`) | the last failure and its streak, in the daemon's memory | defer, observe | a failure repeated does not hammer Desktop; anything else that happens, or an hour, forgets it |
| Reset credits (`auto_reset/*`, `setup/account_reset_service`, `setup/manual_reset_*`) | `auto-reset-state.json`, `manual-reset-state.json` | the tick's weekly reset, `cxi reset` | one credit per exhausted pool, whatever answer gets lost |
| Private state files (`state_file/*`) | any private document | atomic, flushed replacement | what was reported written survives a power loss |
| Automation guard (`recovery/automation_guard`) | operation lock, cooldown, restart claim | lock, arm, cancel | one operation at a time; no rotation right after another |
| Task recovery (`recovery/*`, `switcher/recovery_command_service`) | `desktop-recovery.json`, checkpoints into the rollouts | checkpoint, confirm a rotation, scan, dispatch, observe, finalize, prune | an interrupted task is not forgotten, is asked at most once, under its account, and never over a turn somebody else began |
| Desktop IPC (`recovery/ipc_*`) | none | one framed request, its reply | an answer belongs to its request |
| Recovery banner, windows (`recovery_banner/*`, `window_*`) | banner session, window snapshot | show, replace, restore | a banner never outlives its owner |
| Registration, re-login (`setup/account_registration`, `relogin_*`) | `accounts.json` | add, save current, remove, re-login, deduplicate | a login is never replaced by an older one |
| Quota and OAuth (`quota.rs`, `oauth.rs`) | cached quota in `accounts.json` | poll, refresh | a poll changes only what it asked about |
| Task detection (`switcher/thread_*`) | none | read Codex's rollouts and writer locks | an interrupted task is recognised, a finished one left alone |
| Logs (`logger.rs`, `monitor_log_*`) | log files | append, rotate, clean, redact | no line of a live writer is removed |
| Commands, menu-bar app, notifier | none | parse, display | user interface |

How they interact:

- Every operation that replaces credentials or spends a credit takes the
  **recovery operation lock** (`AutomationGuard::operation_lock`), a file lock
  that dies with its process. A second caller gives up at once.
- Every change of `accounts.json` takes `codex.lock`, a different lock, for
  that change only. The daemon's sync and its quota polls take *only* this
  one, so they may run between any two steps of a switch.
- ChatGPT Desktop, the Codex CLI and the user take no lock. They rotate the
  tokens in `auth.json`, log in and out, start and quit at any time. The
  program defends itself by looking for live writers and by comparing the
  document it is about to replace.
- What must survive a crash is in journals: the direct-switch intent, the
  distribution journal, the two reset attempts, the recovery manifest.

What is hard: two files that no rename can change together; a writer that
cannot be locked out; an answer that never comes, or comes late; a crash between
any two steps; two operations that leave each other their ruins; decisions made on
a copy read before a lock was taken; a rollout that two programs read while a
third writes it. `PROJECT.json`
lists the places under `hazards`, each with the properties that watch it.

## 2. Modules

| Module | What it is |
|---|---|
| `SharedAuth` | `auth.json`, the registry, Desktop with its marker, and everybody who changes them without the operation lock: the daemon's sync and polls, the registry commands, Desktop, the CLI, the user |
| `SharedAuthProofs` | lemmas about those steps, used by the proof modules of the three that extend it |
| `DirectSwitch` | `cxi switch` with its journal, its rollbacks and crashes; extends `SharedAuth` |
| `DirectSwitchProofs` | its theorems |
| `Distribution` | account distribution with its journal, the Desktop and the offline path, their rollbacks and crashes; extends `SharedAuth` |
| `DistributionProofs` | its theorems |
| `Registration` | `cxi relogin`, `cxi add` and `cxi save-current`, step by step; extends `SharedAuth` |
| `RegistrationProofs` | its theorems |
| `ResetCredit` | the tick's weekly reset and `cxi reset`, their two attempt files, the service and its network, crashes, failed writes and power loss |
| `CreditLedger` | what `ResetCredit` promises about credits, with no file, process or lock in it |
| `ResetCreditProofs` | its theorems, the refinement of the ledger among them |
| `Operations` | switches and distributions together, under the one lock; instantiates `DirectSwitch` and `Distribution` over the same files |
| `OperationsProofs` | its theorems, from those of the two modules it instantiates |
| `Rollout` | what the code reads from a task's rollout: its tail state, evidence after a checkpoint, the turn an account switch ended |
| `TaskRecovery` | the journal of interrupted tasks with everybody who writes it, Desktop and its requests; extends `Rollout` |
| `TaskRecoveryProofs` | its theorems |
| `Automatic` | the automatic part of a daemon tick: the need to leave an account, the choice of the next one, the backoff |
| `AutomaticProofs` | its theorems |
| `MCDirectSwitch`, `MCDistribution`, `MCRegistration`, `MCOperations`, `MCResetCredit`, `MCTaskRecovery`, `MCAutomatic` | the symmetry sets and the finite sets of the runs |

### How the models correspond to the code

An operation that holds the recovery operation lock is one process: `pc` says
which call it is about to make, `op` holds its locals, and returning, like
dying, puts both back to their first value. A second caller that finds the lock
taken gives up without changing anything and is not modelled. Everything that
does not take the lock is an action enabled at every `pc`. A step of the model
ends where another process can observe or change something the next statement
of the code depends on; reads and checks with no effect in between are one
step. Wherever a call of the code can fail for a reason outside the model (I/O,
a subprocess, a window that cannot be captured), the step has a disjunct that
fails, and the failed call leaves what the code can leave.

**`SharedAuth`.** A credential is `[acct, ver]`: whose tokens, and which rotation
of them. `issued[a]` is the newest rotation the provider handed out; an older one
is spent. `saved` and `active` are the tokens and the active account in
`accounts.json`, `relogin` the accounts whose last error asks for a re-login.
`desktop` tells a running Desktop from a bundled writer whose main process is
gone (`"orphan"`), `session` is the account the live process has loaded, and
`marker` the account `desktop-app-session.json` binds to that very process (a
marker of another process is no marker). `SyncRegistry` is
`ActiveAuthRegistrySyncService::reconcile`, the step every operation and the
daemon share.

**`DirectSwitch`.** `reconcile_with` is entered from three callers: at the entry of
a switch or a distribution, after a rollback, and at the end. The write of
`auth.json` is three steps, `Compare`, `Rename`, `Readback`, because Desktop may
act between any two of them. `Race` opens the window between the last writer
check and the rename, which no lock can close.

**`Distribution`.** `dist` is the journal: its phase and its target. `op.restart`
selects the Desktop path (`Mark` to `Confirm`), otherwise the offline path
(`Sync` to `VerifyOffline`) runs. `compare`, `rename`, `readback` and the undo
steps are shared, as `DistributionAccountCommitService` is; `op.undone` records
what a rollback returns to. `closed` is a history variable: the Monitor told
Desktop to quit and nobody has opened it since. `HandoffRace` opens the window
between saving the stopped Desktop's tokens and the comparison of the write.

**`Registration`.** `rpc` and `rop` are one re-login, `apc` and `aop` one `cxi add` or `cxi
save-current`: the first takes the operation lock only when its browser login is
done, the second never, so both run beside each other and beside everybody else.
A login in its private directory is nobody's until `Stores` puts it into a file and
numbers it as the newest. What a command has read (`rop.original`, `rop.auth`,
`aop.tokens`) is kept until the step that compares or uses it. A whole switch is one
step, `SwitchTo`, because here it only takes over `auth.json` under the commands.
The initial states include a registry without accounts beside an `auth.json` nobody
saved. `Race` lets another account take over `auth.json` between a command's reading
it and its using what it read.

**`ResetCredit`.** The tick is poll, persist, check, lock, detect, preflight, mark or
withdraw, send, await, record, settle, rotate; the command is record, confirm,
send, await, commit, finish. The two attempt files are `[now, disk]`: what a
reader sees and what a power loss leaves. `Faults` says which file operations may
fail (`"rename"` before the file is visible, `"sync"` after, `"load"` when read).
`Skips` lets a tick pass without a look at its journal, as `handle_weekly_reset`
does (`daemon_tick_service.rs:225-231`) when the weekly reset is switched off, and when
the account's `auth.json` was not verified at `:55-56`. The binding that is verified
before the distribution (`:67`) is another, later reading, which may succeed, so
such a tick goes on to rotate.
`CreditLedger` is the abstract specification `ResetCredit` implements: per account
at most one request in doubt, and a credit leaves only for that request.

**`Operations`.** Nothing is modelled again: a step is a step of one of the two
instances while the other is idle, or a step of an outsider that both would have
to bear. What is new is in `DistributionRequest` and `ReconcileFirst`
(`DistributionCoordinator::execute`: reconcile the intent, then ask the gate) and in
`SwitchRequest`, which asks nobody. Either operation therefore starts from
whatever a crash of the other left.

**`Rollout`, `TaskRecovery`.** A rollout is a sequence of records: a turn's start, its
work, its end by completion, abort, quota or another error. Offsets into the file
are lengths of the sequence. `Evidence` reads the records after a checkpoint one at
a time (`Event`), as `Observer` does piece by piece. An entry of `manifest` has the
fields of `PendingTarget`. `pc` runs through three parts that share the journal:
a restart (`StartRestart` to `Launch`, with `PrepareRotation` and `ConfirmRotation` where a
distribution does it), `recover_threads` (`Begin`, `Prepare`, `Scan`, `Dispatch`, `Check`,
`Mark`, `Confirm`, `Send`, `Await`, `Observe`, `Finalize`), entered in one of five modes from a
restart, from `cxi resume` with or without an ID and from the deferred worker
(`Probe`); `mem` is the journal an operation carries in memory and writes at its end.
`inflight` holds requests Desktop has not taken yet: they survive the process that
sent them. `owed`, `asked` and `resumed` are history variables, no step of the code
reads them. `Unreadable` says what a reading may fail on: the journal a detection
prunes, and any rollout at any pass over it. A rollout that is missing, or whose last
record is unterminated or malformed, is in no state (`"unknown"`,
`thread_rollout_inspector.rs:100`, `:138`, `:203`, `:220`): a detection passes its task by,
and a pruning drops its entry unless that waits for its owner (`Prune`). `Blind` is the
set of such tasks in one pass, chosen anew at each; `Detection` says what was found and
what was missed.

**`Automatic`.** `reading` is what a poll left in the registry, `profile` and `settings` what the
user configured. `Decide` judges the active account as the daemon does before the
lock, `Evaluate` chooses as the coordinator does under it, from whatever the
registry says by then. `record` is `AutomaticDistributionBackoff`, with ages instead of
instants. `tries` is a history: how long ago the last `MaxTries + 1`
equal attempts failed, up to `StreakReset`.

## 3. What the runs check

| Run | Instance | What it shows |
|---|---|---|
| `SwitchRecovery` | 3 accounts, nobody rotates, the rename window open, fair | type invariant; a pending intent covers and is explained by the state, and is resolved if Desktop stays closed |
| `DistributionInterference` | 2 accounts, 2 versions, fair | type invariant, custody, the journal covers every disagreement and every closed Desktop, Desktop and marker agree; a journal of an operation that touched nothing does not block for ever |
| `Operations` | 2 accounts, 2 versions, logins and logouts, both operations | custody, every disagreement explained by one of the two journals, closed Desktop recorded, no split, marker true |
| `Registration` | 2 accounts, 3 versions, logins, rotations, switches, a re-login beside an addition | type invariant; custody; a re-login puts no older tokens into the registry and never parts it from `auth.json` |
| `ResetKeys` | 2 accounts, 2 keys, all file faults | no key in doubt is forgotten, no wrong outcome recorded, rotation held by every tick that looks at its journal and whose account did not move, the ledger implemented |
| `ResetWindows` | 1 account, 1 key, 2 weekly windows, 2 credits, all file faults, power loss, fair | across a reset of the window the cached count loses no credit; the first request of an attempt is recorded before it leaves, durably unless it retries an unflushed one, the command's record survives; the operation lock is always released |
| `RecoverySafety` | 1 task, 2 accounts, rollouts of 3 records, 2 changes of the queue, every operation of recovery, journal and rollouts unreadable at any reading | type invariant; at most one request per interruption; nothing owed is forgotten but by a failed reading; the right account and process; no turn taken over; verified means verified |
| `Automatic` | 2 accounts, 4 readings, 3 settings, delays 1 and 2 in a memory of 3, fair | type invariant; need and choice agree; no ping-pong; no better account passed over; equal failures bounded in time and retried for ever |

Four more runs end in a counterexample; see section 5.

**Bounds.** Three accounts are what the switch can tell apart: the previous one,
the target, and one somebody else makes active in between; the composition has
two, and needs a deep history instead. `MaxVersion` bounds the rotations of one
account's tokens: two are enough for one rotation in any window of an operation,
and each operation starts anew from whatever its predecessors left, because runs
do not bound the number of operations. In `Operations` quotas are polled only before
the first outside login: a poll changes nothing but the flag that asks for a
re-login, and its combinations with logins are those of two flags.

`MaxKey` bounds the redeem keys per account, `MaxWindow` the weekly windows and
`MaxCredits` the credits. Two keys of each of two accounts (`ResetKeys`) make a
confusion between an old and a new attempt possible, two windows and two credits
(`ResetWindows`) one between the pool an attempt was made for and the next, and
between a late effect and a new decision; what `ResetKeys` checks in one window the
theorems of section 4 show for any number.

In `Registration` three versions are the login an account had, one that a command
brings and one that rotates or logs in over it while the command runs.

In `RecoverySafety` tasks meet only in the operation that treats them one after the
other, so one task against every interleaving says more than two against few; the
same properties were explored with two tasks and shorter rollouts. An unreadable
rollout of one task while another is recovered, which `Finalize` may drop, needs two; the
theorem covers it. Three records
are a turn that starts, works and ends, or the interrupted turn and the start of
the next one; the journal's entry points into any of them. Two revisions of the
queue tell a follow-up added from one consumed. Two accounts are the one that was
interrupted and the one that logs in.

In `Automatic` a delay of 1 stands for 5 minutes and 2 for the 30 minutes at most, in
a memory of 3 for the hour: the order of the three is what the code depends on. A
streak of three failures has reached the longest delay; a longer one changes
nothing. Four attempts are what the delays leave room for: two at once, one each
after the first and the second hold.

Accounts and tasks are interchangeable; the runs that check only safety use
symmetry where their sets are large, those with a liveness property do not.

**Fairness.** `PendingIntentResolves`: operations keep being requested, the
daemon keeps ticking (it is a loop with a sleep), a step of a running process is
eventually taken, and an I/O failure or a crash does not hit the same step of
the reconciliation every time (strong fairness of the steps that finish it).
`InitializedJournalResolves`: distributions keep being requested, and the removal
of a journal, enabled again and again once its process died or five minutes
passed, does not fail for ever. `LockReleased`: each process takes its enabled
steps; in particular a request ends, because the HTTP client has a timeout of 20
seconds. `RetriedForEver`: the daemon ticks (it is a loop with a sleep of at most the
poll interval), time passes, an attempt ends, and whatever may refuse an attempt
that is not held back (the lock, the cooldown, a journal, an unverified Desktop)
does not do so at every tick, which is strong fairness of `Evaluate` and an
assumption about the environment. No run assumes fairness of the user, Desktop, the network or the
service.

**Environment.** `CredentialCustody` and `DesktopAgrees` hold with the rename
window closed (`Race = FALSE`): between its last check and the rename the code
cannot exclude Desktop, and says so. The properties of the journals hold with it
open, which the theorems of section 4 show for both operations and `SwitchRecovery`
for the switch. `SwitchRecovery` excludes token rotation: after a rotation no fingerprint of
an intent matches any more and the code keeps the intent for inspection, by
design. In `Registration` `Race` is another window: `save_current_as` reads `auth.json`
before it takes any lock (`account_registration.rs:198`), and `write_active_auth_json`
compares with nothing (`storage.rs:106`). A rotation or a sync in it does no harm,
because `auth.json` still holds the newer tokens and the next sync brings them back;
but when a switch, a login or a logout takes `auth.json` away from that account in
between, the registry is left with spent tokens: with `Race = TRUE` TLC finds custody
violated after a rotation and a switch. `TaskRecovery` has two such windows
(`Unhurried`): between the last check of a task and its request, and between the exit
of Desktop and the second checkpoint, where the user may act and nothing can stop
him; `NoTakeover` and `BoundDispatch` are checked with both closed.

## 4. What is proved

TLAPS checks every proof below for every set of accounts, every bound and, where
not said otherwise, every environment constant. The only assumptions are those
named in the modules: the bounds are positive numbers, the environment constants
are Booleans or sets of the faults named, `None` is not a value of the types it is
added to. In `Automatic` two more say what its bounds stand for: a streak of
`MaxFailures` has the longest delay (`StreakAssumption`), and `MaxTries + 1` attempts do not
fit into `StreakReset` (`TriesAssumption`); TLC evaluates both.

| Module | Theorem | Statement |
|---|---|---|
| `DirectSwitchProofs` | `TypeCorrect` | `Spec => []TypeOK` |
| `DirectSwitchProofs` | `DivergenceCovered` | without outside logins, `auth.json` and the registry name different saved accounts only under a durable intent |
| `DirectSwitchProofs` | `IntentAlwaysRecoverable` | with `Interference = FALSE` and `Logins = FALSE`, `auth.json` and the registry hold what an intent on disk says was or is to be there |
| `DirectSwitchProofs` | `NoSplitBrain` | with `Race = FALSE`, a live Desktop has the account of `auth.json` |
| `DirectSwitchProofs` | `MarkerTrue` | with `Race = FALSE` and `Logins = FALSE`, the marker names the account the live Desktop has loaded |
| `DirectSwitchProofs` | `NewestTokensKept` | with `Race = FALSE`, the newest tokens of every saved account are in the registry or in `auth.json` |
| `DistributionProofs` | `TypeCorrect` | `Spec => []TypeOK` |
| `DistributionProofs` | `ClosedRecorded` | a Desktop the distribution closed has opened again, or an uncertain journal says so |
| `DistributionProofs` | `DivergenceCovered` | without outside logins, the two files name different saved accounts only while an uncertain journal blocks the next distribution |
| `DistributionProofs` | `NoSplitBrain` | with `Race = FALSE`, a live Desktop has the account of `auth.json` |
| `DistributionProofs` | `MarkerTrue` | with `Race = FALSE` and `Logins = FALSE`, the marker names the account the live Desktop has loaded |
| `DistributionProofs` | `NewestTokensKept` | with `Race = FALSE` and `HandoffRace = FALSE`, `Spec => []CredentialCustody` |
| `OperationsProofs` | `ClosedRecorded` | whatever switch follows, a Desktop a distribution closed has opened again, or its journal is still there |
| `OperationsProofs` | `DivergenceAlwaysExplained` | until somebody logs in elsewhere, the two files name different saved accounts only under one of the two journals |
| `OperationsProofs` | `NoSplitBrain` | with `Race = FALSE`, a live Desktop has the account of `auth.json`, through any sequence of operations |
| `OperationsProofs` | `SessionAlwaysTrue` | with `Race = FALSE`, until somebody logs in elsewhere, the marker tells the truth |
| `OperationsProofs` | `NewestTokensKept` | with `Race = FALSE` and `HandoffRace = FALSE`, any sequence of operations keeps the newest tokens |
| `RegistrationProofs` | `TypeCorrect` | `Spec => []TypeOK` |
| `RegistrationProofs` | `NewestKept` | with `Race = FALSE`, `Spec => []CredentialCustody`: the newest tokens of every account are in the registry or in `auth.json` |
| `RegistrationProofs` | `ReloginAlwaysGivesWay` | with `Race = FALSE`, no step of a re-login puts older tokens into the registry or parts it from `auth.json` |
| `ResetCreditProofs` | `TypeCorrect` | `Spec => []TypeOK` |
| `ResetCreditProofs` | `RecordedBeforeSent` | the first request of an attempt leaves when a reader finds its key unresolved, and when a power loss cannot lose it, unless it is the retry of an attempt that was found unresolved |
| `ResetCreditProofs` | `CommandRecordSurvives` | the command's record of a request in doubt survives a power loss |
| `ResetCreditProofs` | `RotationStaysHeld` | rotation with the daemon's attempt in doubt only after the active account moved, or in a tick that never looked at the journal |
| `ResetCreditProofs` | `NoCreditLost` | the cached count of credits is never below the real one |
| `ResetCreditProofs` | `DoubtIsRecorded` | without power losses, a request in doubt is named by an unresolved attempt |
| `ResetCreditProofs` | `RecordsTellTruth` | without power losses, a settled record tells what the service decided |
| `ResetCreditProofs` | `ImplementsLedger` | without power losses, `ResetCredit` implements `CreditLedger` |
| `AutomaticProofs` | `TypeCorrect` | `Spec => []TypeOK` |
| `AutomaticProofs` | `NeedAlwaysMet` | an account the daemon wants to leave is never the best one |
| `AutomaticProofs` | `NoPingPong` | the chosen account is not left before something changes |
| `AutomaticProofs` | `ChoiceAlwaysUndominated` | no usable account is at least as good in everything and better in something |
| `AutomaticProofs` | `RetriesAlwaysBounded` | of `MaxTries + 1` consecutive equal attempts that failed before the signal, the first is longer ago than `StreakReset` |
| `TaskRecoveryProofs` | `TypeCorrect` | `Spec => []TypeOK` |
| `TaskRecoveryProofs` | `AskedOnce` | a task that was asked to continue has no entry left that would send a second request |
| `TaskRecoveryProofs` | `JournalAlwaysServable` | every entry of the recovery journal is one its validation accepts |
| `TaskRecoveryProofs` | `DispatchBound` | with nobody acting between the last check of a task and its request, a request leaves only for the account and the process it was meant for |
| `TaskRecoveryProofs` | `NoTurnTakenOver` | with the same hypothesis, `Race = FALSE`, no unasked request is sent into a turn that began after the task's checkpoint |
| `TaskRecoveryProofs` | `NothingForgotten` | a task that an operation undertook to continue is in the journal, or in the request that has just consumed its entry, unless a restart or a pruning could not read it |
| `TaskRecoveryProofs` | `EvidenceTells` | evidence read one record at a time says of any part of any rollout what its records say |
| `TaskRecoveryProofs` | `VerifiedAlwaysTrue` | what is reported as verified is true of the whole rollout |

*Types.* `TypeOK` is not inductive: the intent written by `Begin` and the credential
written by `Rename` are well typed only because a target and one of its saved
versions were chosen before. `TypeInv` adds what holds at those steps (`AtSteps`).

*The intent* (`IntentInv`). Saying "no disagreement without an intent" does not
survive the write of `auth.json` by itself. The invariant adds that the intent on
disk commits to its own target, that without an intent the files agree, and that
they agree again when it is about to be cleared. The write happens at steps that
hold an intent; the sync and the commit restore agreement; nobody else's step
breaks it (`SharedAgreement`), except an outside login, which is why the theorem
assumes `Logins = FALSE`. With logins the disagreement exists at once, without any
operation, until the next sync.

*The closed Desktop* (`ClosedInv`). The signal is sent only at steps where the
journal has left its first phase; the journal is removed only at steps where
Desktop has not been signalled, or has been opened and bound again, or by a path
that never signals. The invariant lists those steps. A gate that removed journals
by age alone, or a step that signalled before its phase was on disk, breaks it.

*The distribution journal* (`DivergenceInv`). The files agree or the journal is
uncertain; and they agree at the steps that may clear it. For that the invariant
carries, from step to step, whose credentials `op.previous` is, what `auth.json`
holds at the registry commit, and which account the binding confirmed. It holds
with both windows open: an overwritten rotation loses tokens, but never an account.

*The live Desktop and its marker* (`ProcessInv`, `MarkerInv` of both operations). Desktop
loads what `auth.json` holds when it is opened, and the account in `auth.json` changes only under a
closed Desktop or by a login inside it. The invariant says at which steps an operation
counts on Desktop being closed (`WindowSteps`): the rename is one of them, and
`Race = FALSE` says that nobody opens Desktop between the check and that rename. The
marker is truthful because what an operation binds, `op.bind`, is the account it
read from `auth.json` for the process it launched; for that `MarkerInv` follows whose
account `auth.json` holds from the write to the binding, through every rollback. An
outside logout under a running operation separates the two, hence `Logins = FALSE`;
in `Operations` the theorem holds until the first such event.

*The recoverable intent* (`RecoverInv`). `auth.json` is what the intent calls previous at the
steps before the rename and after an undo, what it calls next in between, and the
registry keeps a copy of both. The theorem assumes that nobody rotates tokens or logs
in: after that no fingerprint matches any more, and the code keeps the intent.

*The newest tokens of a switch and of a distribution* (`CustodyInv` of both). A
write of `auth.json` may overwrite the only copy of a rotation, so the invariant says
when there is a second copy (`SavedCopy`) and which credential is the newest
(`Newest`): the sync before the write saved what `auth.json` held, nobody rotated it
since (`HandoffRace = FALSE`; Desktop is closed, `Race = FALSE`), and what a rollback
puts back is the newest again. `DistributionHandoff` is the counterexample without
the second hypothesis.

*The composition* (`OperationsProofs`). One of the two operations is always at rest: it is
the switch's turn (`SwitchTurn`), or a distribution's, whose journals may be left from
before. The invariants are those of the switch in its turn and those of the
distribution otherwise; what is left to prove is the handover. A distribution starts
only after the reconciliation removed the intent, when the files agree; a switch asks
nobody, so it may run in the ruins of a distribution: there an uncertain journal
explains any divergence until the files agree again, and the closed Desktop that it
records stays recorded because no step of a switch touches that journal.

*The newest tokens* (`CustodyInv` of `RegistrationProofs`). Custody alone does not
survive a sync, which copies `auth.json` over the registry: the invariant adds that
`auth.json` holds the newest tokens of its account (`AuthNewest`), that no version a
command carries is ahead of the newest (`VersionInv`), and that `auth.json` still
belongs to the account a command read from it (`HeldInv`), which is what `Race = FALSE`
assumes. With these a stale save only overwrites what `auth.json` has newer. That a
re-login gives way follows from the same invariant: it commits what it has just
found again in `auth.json`.

*The credits* (`CoreInv` of `ResetCreditProofs`). What a program may do next depends
on what it carries from one step to the next (`TickAttempt`, `TickRequest`,
`CmdAttempt`, `CmdRequest`), on one program at a time being inside the lock
(`LockInv`) and on the keys (`KeyInv`): on record before they are sent, sent before
they are decided, and each in the file of one program only, among all documents a
power loss may leave. A new key is the least that no file ever held, which exists
because the natural numbers are well founded. `CoreInv` holds with power losses; on
it rest `DurableInv` (a key in doubt is all the command's disk may hold) and
`CreditInv` (the counts the programs carry are not below the real ones, and the
command's is above once its request was decided, so that its decrement is due).
`TruthInv` needs the assumption that no power loss happens, because the tick repeats
a request in doubt without flushing its file first. It adds what keeps the
two programs apart: a tick past its check holds the lock and found no manual
attempt, a command was started for another account than an automatic attempt in
doubt, and a key somebody settled by hand is out of both files and off the network.
From this the refinement follows: two requests in doubt for one account would have to
be in the two files (`OneDoubt`), a send finds no doubt for its account (`Asks`), and
the service can redeem only a key in doubt.

*The choice* (`NeedAnswered`, `ChosenStep`, `ChoiceUndominated`). The two judgements are
different functions of one registry; the proofs go through every error, threshold and
setting instead of the four readings of the run. `NoPingPong` is inductive as it
stands: a chosen account stays eligible until a poll, a setting or the user clears
`chosen`, and an eligible account is left only for a business account that would have
been ranked before it.

*The request* (`IInv` of `TaskRecoveryProofs`). The journal is not only what is on
disk. An operation carries a copy in memory, `mem`, and what it writes at its end, or
puts back when it fails, may return an entry of a task it has asked meanwhile. The
invariant follows that copy: before Desktop is signalled it holds no entry of an
asked task (`RollBackSafe`); while tasks are treated it either has none or the task
counts as sent and not to be retried, so that `Finalize` drops it (`Accounted`); the
tasks still to be treated never include an asked one, except the one at hand
(`NotYetAsked`); the entry goes from disk before its request leaves (`AtHand`). A scan
that could find a task a second time, a `Mark` after the request instead of before, or
an outcome reset to "retry" after sending breaks it. `DispatchBound` adds what each check
before the request has established (`BoundInv`). `JournalAlwaysServable` is the part
of `TypeOK` about the journal. `TypeInv` types all but what the polls of a rollout leave
in a target, which comes with the next invariant.

*What is read from a rollout* (`EvidenceTells`, `Truth`). `Evidence` is recursive; that it
is what its definition says, and that it `Tells` what the records say, is proved by
the least position at which it would not, for the prover has no induction over an
operator but knows that the natural numbers are well founded. The invariant rests on
two facts of the state: a rollout only grows, and a turn is named by its first record
and runs only at the end of it (`LogsInv`; `Grown` is what a step may do to it, `RolloutsGrow`
that every step does no more). So what a target has read of a rollout stays true of it
(`GoodStays`): a started turn that was the last one read is still there, and evidence
of work or failure refers to records that stay. A target is `Good` when it expects only a turn
that its rollout has, and when "completed" is backed by one. `TargetsInv` follows
it through every step of `recover_threads`.

*The checkpoint a request is sent from* (`Held`, `Based`). The request of a task is
justified by a poll that found no turn after `base`. `Held` says that the journal,
the journal in memory and the entry in hand are one while tasks are recovered,
`Based` that an open target is read from its entry's checkpoint on, so no evidence
of a turn in between was skipped. `Race = FALSE` closes the instants between that
poll and the request; with it open a turn may start in them, which no check of the
code can see.

*The tasks that are owed* (`Owes`). That an owed task is in the journal is not
inductive: every operation writes the journal whole. `OwedKnown` adds that its
entry does not wait for a turn that has started (`Recorded`), since a worker would drop it, and
that its rollout still can be resumed. `RestartOwes` says that what a restart
puts back when it is rolled back records every owed task too, and that the
checkpoint it writes instead covers them; `RecoveryOwes` that the journal in memory
does, and that each owed task that was treated is to be retried, so that `Finalize`
writes its entry again. A crash at any step leaves the journal of `OwedKnown`. A
reading that fails drops a task from the journal and from `owed` together;
`DetectionsFind` and `InspectionSays` say that nothing else is lost where a reading succeeds, or
fails for another task. The theorem has no hypothesis on the constants and
leaves the race open.

*The retries* (`RetriesInv`). A count of attempts cannot be bounded step by step: what
bounds it is the pace. `Paced` says that the attempts within `StreakReset` are counted by
the record, and that between two of them passed at least the delay due after as many
failures as are within it (`Wait`; delays do not shrink, `DelayGrows`). Dropping the oldest
attempt, like a streak that is forgotten, only weakens what is asked of the others. `MaxTries + 1`
attempts at that pace would be the schedule that `TriesAssumption` excludes; the
bound is the best one, in the run three attempts would not do. Only consecutive
equal attempts are counted: another failure, any other end of an attempt and a
restart of the daemon make the code forget the streak, and empty `tries`.

Model-checked only: the liveness properties (their fairness and `ENABLED` are out
of the prover's reach) and the documented claims that section 5 refutes. Every
invariant and every action property of the passing runs is proved, where the table
says so under a hypothesis that the run shares. The inductive invariants were
checked by TLC before they were proved.

## 5. Where the code and its documents disagree

| Run | What it shows |
|---|---|
| `SwitchReloginSync` | `CODEX.md:111-117`: re-login and daemon sync share one merge so that no stale save restores an old refresh token. The daemon's sync copies `auth.json` over the registry whatever is newer; after a re-login of an account that is not active, an `auth.json` that still holds its older login wins (`daemon_account_sync_service.rs:116`) |
| `DistributionHandoff` | `CODEX.md:51-53`, `README.md:278-279`: a concurrent credential change blocks the write. The Desktop path compares with a document it reads after the hand-off, so tokens rotated in between are overwritten (`distribution_account_commit_service.rs:34`); the offline path compares with what it saved |
| `ResetSuppression` | `README.md:876`: switching stays suppressed while an attempt is pending or unknown. A tick whose active account changed before it took the lock reports no suppression (`weekly_reset_service.rs:105`) |
| `RecoveryDiscovery` | `README.md:776`: discovery-only recovery refuses an active task so that it cannot duplicate or stop one the user already resumed. A discovery moves the checkpoint of an entry that a crashed or failed restart left (`recovery_checkpoint.rs:72`); when it fails, the entry waits as one of a restart, and the deferred worker sends its request into the user's turn |

Seen while reading, with no run: when the sync after the shutdown fails, `replace`
relaunches Desktop without reading the prior state back
(`account_switch_auth_service.rs:24`), although `CODEX.md:88-90` wants "exact prior
auth and registry readback" first; and `desktop_session_verification_service.rs:62` says
an explicit restart may repair a missing binding; the transaction then requires
the bound account (`distribution_transaction_service.rs:82-92`) and refuses. A retry of
a reset attempt that already reads as pending sends its request without flushing
what a crash between rename and flush, or between a failed flush and the withdrawal,
may have left unflushed (`reset_dispatch_service.rs:71`), although `README.md:876` wants
the journal flushed before the request: the tick cannot tell that no request ever
left. `FirstRequestRecorded` makes this one exception (`tick.doubt`) and demands that the
attempt is at least unresolved for a reader. A tick that passes by its journal because
the account's `auth.json` was not verified rotates under an unresolved attempt too
(`daemon_tick_service.rs:229`), a second way to what `ResetSuppression` shows; that run
closes it with `Skips = FALSE`, `RotationHeld` names both. A restart that cannot prune the
journal takes it for empty and then writes one without the tasks an earlier restart
left (`thread_detection_service.rs:182`), and where a rollout says nothing of its task,
be it for a record that is being written at that moment, the entry is dropped without
an error (`manifest_prune_service.rs:164`), although `README.md:617-618` says that the
journal survives a killed worker. `InterruptedRecorded` is checked with both, and no longer
asks for a task that such a reading missed, even if the restart that missed it is
rolled back and its entry returns. A task that was started after the detection and
before the signal is interrupted without an entry. The need the daemon found is not
judged again under the lock, and a manual switch arms the cooldown only where Desktop
runs (`account_switch_service.rs:115`, `:255`), so an automatic distribution may follow
it at once. `cxi add` of an account whose older login `auth.json` holds is undone by the
next sync, like the re-login of `SwitchReloginSync`; and `save_current_as` may save spent
tokens (section 3, *Environment*).

## 6. Abstractions

- The document of `auth.json` is its tokens; other fields are carried along and
  compared with them. File identities (inode, symbolic link, permissions) appear
  as the comparison that fails.
- Finding the account tokens belong to is equality of accounts; ambiguous
  identities are refusals.
- A registry transaction is one atomic step under `codex.lock`, or fails before its
  rename. A power loss is modelled only for the private state files.
- Banner and windows are steps that may refuse. In `DirectSwitch` and `Distribution` so
  are task checkpoints and recovery requests; `TaskRecovery` models them, with the
  switch of an account as one step.
- In `TaskRecovery` a checkpoint falls between two records of a rollout that exists, and
  the task has its row in Codex's index.
- `TaskRecovery` leaves out the four hours after which an entry is too old, the byte
  budgets of a scan (a rollout that cannot be read in time is one that cannot be
  read), the SQLite index, and the case in which marking an entry and putting it
  back both fail. A turn writes nothing after its end; Desktop keeps a request or
  loses it, and takes it at most once.
- `Automatic` has one active account, Desktop's and the CLI's; weekly quotas and resets
  are always known; equal candidates keep an order that is not modelled.
- A Desktop process is identified by `op.mine`: it becomes false when the process
  the operation watches ends. Signals reach only that process.
- `InferBinding` is the daemon's inference from process start and file times;
  its evidence is taken as sound: the process has loaded what it is bound to.
- A login while Desktop runs happens in Desktop, and none happens while only a
  bundled writer is left.
- `Distribution` starts after the direct-switch intent was reconciled, which
  `Operations` adds; cooldown, backoff, decision and the age of a journal are
  nondeterministic in it. `Operations` always lets a switch restart Desktop.
- In the modules other than `Registration`, a re-login is the atomic one of an account
  that is not active, and nothing is added. Canonical IDs, the repair of duplicates
  (`account_deduplication.rs`) and the renaming of accounts (`account_configuration.rs`)
  are not modelled: which saved account tokens belong to is equality of accounts.
- In `Registration` the compare-and-write of a re-login is one step; `DirectSwitch` has
  its parts and the window between them.
- The reset service keeps one decision per key and grants no credits; thresholds,
  blocked tasks and usage errors are nondeterministic; one daemon runs; whether the
  automatic reset is enabled may differ from tick to tick; the user settles an attempt by hand only while no operation
  holds the lock.

## 7. Plan

Done, in this order: what moves credentials; what spends credits; the two
operations together; what recovers tasks; when and where the daemon moves; what
brings logins into the registry. Next:

1. *Proofs*: that a switch, as `DirectSwitch` performs it, is to the commands of
   `Registration` the one step `SwitchTo` they take it for.
2. *Registration*: that the re-login of an account that is not active refines the
   atomic `Relogin` of the other modules; deduplication and ambiguous identities.
3. *Session binding* with process start and file times: the daemon's inference is
   sound, which `InferBinding` takes as given.
4. *Guards*: the cooldown with its file and the cancellation of a restart worker;
   the waiting budget of `codex.lock`.
5. *Banner*: the helper's session and who owns its process. *Logs*: rotation and
   cleanup under the lifecycle lock.

Not planned: the menu-bar app, argument parsing, printing, window geometry, HTTP
and token parsing, installation scripts. They hold no state the operations above
depend on.
