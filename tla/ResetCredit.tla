---------------------------- MODULE ResetCredit ----------------------------
(***************************************************************************)
(* Spending rate-limit reset credits.  Two programs may spend one: the     *)
(* daemon's tick, when the weekly pool of the active account is exhausted  *)
(* and a task is blocked, and `cxi reset`, when the user asks.  Both hold  *)
(* the recovery operation lock, and both write a private attempt file with *)
(* a fresh idempotency key before the request leaves: the tick             *)
(* auto-reset-state.json, the command manual-reset-state.json.  An attempt *)
(* whose answer never came stays unresolved there, and that record is all  *)
(* that stands between a lost answer and a second credit.                  *)
(*                                                                         *)
(* A file is what a reader sees and what a power loss may leave of it: the *)
(* rename of a new document is certain only when the directory entry has   *)
(* been flushed.                                                           *)
(***************************************************************************)
EXTENDS Naturals, FiniteSets

CONSTANTS
    Accounts,       \* saved account identities, one service route each
    None,           \* no account
    MaxKey,         \* bound on the attempts that get an idempotency key
    MaxWindow,      \* bound on the weekly windows of an account
    MaxCredits,     \* bound on the reset credits an account starts with
    Skips,          \* TRUE: a tick may pass without looking at its journal
    Faults,         \* which file operations may fail
    PowerLoss       \* TRUE: the machine may stop without flushing its files

ASSUME ResetBoundsAssumption == {MaxKey, MaxWindow, MaxCredits} \subseteq Nat \ {0}
ASSUME ResetFaultsAssumption ==
    Faults \subseteq {"rename", "sync", "load"} /\ {PowerLoss, Skips} \subseteq BOOLEAN
ASSUME ResetNoneAssumption == None \notin Accounts

VARIABLES
    quota,          \* the service: window, exhaustion and credits per account
    decided,        \* the service: what it decided for each key
    inflight,       \* keys whose request is on its way to the service
    cache,          \* accounts.json: the last polled copy of quota
    active,         \* accounts.json: active_account_id
    auto,           \* auto-reset-state.json
    manual,         \* manual-reset-state.json
    tick, cmd,      \* the daemon's tick and the running `cxi reset`
    route, sent,    \* the account each recorded key is for; keys ever sent
    learned         \* keys whose final answer the Monitor or its user has seen

serviceVars == <<quota, decided, inflight>>
registryVars == <<cache, active>>
fileVars == <<auto, manual>>
keyVars == <<route, sent, learned>>
vars == <<serviceVars, registryVars, fileVars, tick, cmd, keyVars>>

Keys == 1..MaxKey
Usage == [window : 1..MaxWindow, exhausted : BOOLEAN, credits : 0..MaxCredits]

AutoStates == {"ready", "pending", "unknown", "not_consumed", "applied",
               "waiting_for_desktop", "journal_error"}
AutoDocs == [state : AutoStates, key : 0..MaxKey,
             acct : Accounts \union {None}, window : 0..MaxWindow]
ManualStates == {"pending", "unknown", "applied_uncertain", "resolved"}
ManualDocs == [state : ManualStates, key : 0..MaxKey, acct : Accounts \union {None}]

(* A missing file reads as these.                                          *)
NoAttempt == [state |-> "ready", key |-> 0, acct |-> None, window |-> 0]
NoManual == [state |-> "resolved", key |-> 0, acct |-> None]

Unresolved(doc) == doc.state \in {"pending", "unknown"}
ManualUnresolved == manual.now.state # "resolved"

IdleTick == [pc |-> "idle", acct |-> None, window |-> 0, exhausted |-> FALSE,
             credits |-> 0, skips |-> FALSE, doc |-> NoAttempt, doubt |-> FALSE]
IdleCmd == [pc |-> "idle", doc |-> NoManual, before |-> 0]

TickLocked == {"detect", "clear", "preflight", "mark", "withdraw", "send", "await",
               "record", "applied", "settle", "resettle"}
TickSteps == TickLocked \union {"idle", "persist", "check", "lockClear", "lock", "rotate"}
CmdSteps == {"idle", "record", "confirm", "withdraw", "send", "await", "commit", "finish"}

LockFree == tick.pc \notin TickLocked /\ cmd.pc = "idle"

-----------------------------------------------------------------------------
(* PrivateStateFileWriteService::replace                                   *)
Document(d, disk) == [now |-> d, disk |-> IF PowerLoss THEN disk ELSE {d}]

(* Mutant: the directory is not flushed after the rename.                  *)
WrittenUnflushed(f, d) == Document(d, f.disk \union {d})

Written(f, d) == Document(d, {d})

(* Before the rename the old document stays; a failed directory flush      *)
(* leaves the new one visible and either of them on the disk.              *)
FailedWrites(f, d) ==
    (IF "rename" \in Faults THEN {f} ELSE {})
    \union (IF "sync" \in Faults THEN {Document(d, f.disk \union {d})} ELSE {})

LoadFails == "load" \in Faults

Init ==
    /\ quota \in [Accounts -> {[window |-> 1, exhausted |-> FALSE, credits |-> n]
                                 : n \in 0..MaxCredits}]
    /\ cache = quota
    /\ decided = [k \in Keys |-> "open"]
    /\ inflight = {}
    /\ active \in Accounts
    /\ auto = [now |-> NoAttempt, disk |-> {NoAttempt}]
    /\ manual = [now |-> NoManual, disk |-> {NoManual}]
    /\ tick = IdleTick /\ cmd = IdleCmd
    /\ route = [k \in Keys |-> None]
    /\ sent = {} /\ learned = {}

FreshKeys == {k \in Keys : route[k] = None}
NextKey == CHOOSE k \in FreshKeys : \A j \in FreshKeys : k <= j

-----------------------------------------------------------------------------
(* The daemon's tick: DaemonTickService::run up to the distribution.       *)

(* A tick that may not rotate ends at once; rotation has its own step.     *)
Hold == tick' = IdleTick
Allow == tick' = [IdleTick EXCEPT !.pc = "rotate"]
TickTo(step) == tick' = [tick EXCEPT !.pc = step]

(* The tick takes its own copy of the quota the service reports.           *)
TickPoll ==
    /\ tick.pc = "idle"
    /\ tick' = [IdleTick EXCEPT !.pc = "persist", !.acct = active,
                                !.window = quota[active].window,
                                !.exhausted = quota[active].exhausted,
                                !.credits = quota[active].credits]
    /\ UNCHANGED <<serviceVars, registryVars, fileVars, cmd, keyVars>>

(* The tick saves the quotas and reads the settings.  It passes by the      *)
(* journal when the weekly reset is switched off, and when the auth.json   *)
(* of the active account could not be verified: that reading is not the    *)
(* one of verify_live_active_binding, which may succeed after it.          *)
TickPersist ==
    /\ tick.pc = "persist"
    /\ cache' = [cache EXCEPT ![tick.acct] =
                    [window |-> tick.window, exhausted |-> tick.exhausted,
                     credits |-> tick.credits]]
    /\ \E skips \in {FALSE, Skips} : tick' = [tick EXCEPT !.pc = "check", !.skips = skips]
    /\ UNCHANGED <<serviceVars, active, fileVars, cmd, keyVars>>

(* same_episode: the account and the weekly window of the tick's own copy. *)
SameEpisode(doc) == doc.acct = tick.acct /\ doc.window = tick.window

(* The first look at the journal holds no lock.  A usage error or the      *)
(* remaining-time threshold may also stop the tick: it holds rotation only *)
(* for an attempt in doubt.  A tick that skips the journal may rotate.     *)
TickCheck ==
    /\ tick.pc = "check"
    /\ \/ tick.skips /\ Allow
       \/ ~tick.skips /\ Unresolved(auto.now) /\ Hold
       \/ /\ ~tick.skips
          /\ Unresolved(auto.now) => SameEpisode(auto.now)
          /\ tick.exhausted /\ tick.credits > 0
          /\ TickTo("lock")
       \/ /\ ~tick.skips /\ ~Unresolved(auto.now)
          /\ IF tick.exhausted THEN Allow ELSE TickTo("lockClear")
    /\ UNCHANGED <<serviceVars, registryVars, fileVars, cmd, keyVars>>

(* clear_completed_episode_if_restored under the operation lock.           *)
TickLockClear ==
    /\ tick.pc = "lockClear"
    /\ \/ ~LockFree /\ Hold
       \/ LockFree /\ TickTo("clear")
    /\ UNCHANGED <<serviceVars, registryVars, fileVars, cmd, keyVars>>

TickClear ==
    /\ tick.pc = "clear"
    /\ IF auto.now.key # 0 /\ ~Unresolved(auto.now)
       THEN \/ auto' = Written(auto, NoAttempt) /\ Allow
            \/ auto' \in FailedWrites(auto, NoAttempt) /\ Hold
       ELSE UNCHANGED auto /\ Allow
    /\ UNCHANGED <<serviceVars, registryVars, manual, cmd, keyVars>>

(* The lock is taken; journal, registry and manual attempt are read again. *)
(* An active account that moved since the tick's copy allows rotation,     *)
(* before the journal just loaded is looked at.                            *)
TickLock ==
    /\ tick.pc = "lock"
    /\ \/ ~LockFree /\ Hold
       \/ /\ LockFree
          /\ IF active # tick.acct THEN Allow
             ELSE IF \/ ManualUnresolved
                     \/ Unresolved(auto.now) /\ ~SameEpisode(auto.now)
             THEN Hold
             ELSE tick' = [tick EXCEPT !.pc = "detect", !.doc = auto.now]
    /\ UNCHANGED <<serviceVars, registryVars, fileVars, cmd, keyVars>>

(* Mutant: a task that is no longer blocked allows rotation.               *)
TickUnblockedAllows ==
    /\ tick.pc = "detect"
    /\ IF SameEpisode(tick.doc) /\ tick.doc.state = "applied" THEN Hold ELSE Allow
    /\ UNCHANGED <<serviceVars, registryVars, fileVars, cmd, keyVars>>

(* No blocked task is left, or not the one the attempt was made for.       *)
TickUnblocked ==
    /\ tick.pc = "detect"
    /\ IF /\ SameEpisode(tick.doc)
          /\ tick.doc.state = "applied" \/ Unresolved(tick.doc)
       THEN Hold ELSE Allow
    /\ UNCHANGED <<serviceVars, registryVars, fileVars, cmd, keyVars>>

(* Mutant: the retry of an attempt in doubt takes a new key.               *)
TickAnchoredNewKey ==
    /\ tick.pc = "detect" /\ FreshKeys # {}
    /\ IF SameEpisode(tick.doc) /\ tick.doc.state = "applied" THEN Hold
       ELSE tick' = [tick EXCEPT !.pc = "preflight", !.doubt = Unresolved(tick.doc),
                        !.doc = [state |-> "pending", key |-> NextKey,
                                 acct |-> tick.acct, window |-> tick.window]]
    /\ UNCHANGED <<serviceVars, registryVars, fileVars, cmd, keyVars>>

(* A task is blocked: settled episodes end here, an earlier attempt keeps  *)
(* its key, and a new one is kept in memory.                               *)
TickAnchored ==
    /\ tick.pc = "detect"
    /\ \/ /\ SameEpisode(tick.doc)
          /\ CASE tick.doc.state = "applied" -> Hold
               [] tick.doc.state = "not_consumed" -> Allow
               [] OTHER -> tick' = [tick EXCEPT !.pc = "preflight",
                                                !.doubt = Unresolved(tick.doc)]
       \/ /\ ~SameEpisode(tick.doc) /\ FreshKeys # {}
          /\ tick' = [tick EXCEPT !.pc = "preflight",
                         !.doc = [state |-> "ready", key |-> NextKey,
                                  acct |-> tick.acct, window |-> tick.window]]
    /\ UNCHANGED <<serviceVars, registryVars, fileVars, cmd, keyVars>>

(* ResetPreflightService::check reads the registry once more.              *)
Eligible == /\ active = tick.acct
            /\ cache[tick.acct].exhausted
            /\ cache[tick.acct].window = tick.window
            /\ cache[tick.acct].credits > 0

TickRefused ==
    /\ tick.pc = "preflight"
    /\ IF tick.doubt THEN Hold ELSE Allow
    /\ UNCHANGED <<serviceVars, registryVars, fileVars, cmd, keyVars>>

TickDesktopClosed ==
    /\ tick.pc = "preflight"
    /\ ~tick.doubt /\ Eligible
    /\ LET doc == [tick.doc EXCEPT !.state = "waiting_for_desktop"]
       IN \/ auto' = Written(auto, doc) /\ Allow
          \/ auto' \in FailedWrites(auto, doc) /\ Hold
    /\ route' = [route EXCEPT ![tick.doc.key] = tick.acct]
    /\ UNCHANGED <<serviceVars, registryVars, manual, cmd, sent, learned>>

TickReady ==
    /\ tick.pc = "preflight"
    /\ Eligible
    /\ TickTo(IF tick.doubt THEN "send" ELSE "mark")
    /\ UNCHANGED <<serviceVars, registryVars, fileVars, cmd, keyVars>>

(* ResetPendingMarkService::mark                                           *)
TickMark ==
    /\ tick.pc = "mark"
    /\ LET doc == [tick.doc EXCEPT !.state = "pending"]
       IN /\ \/ /\ auto' = Written(auto, doc)
                /\ tick' = [tick EXCEPT !.pc = "send", !.doc = doc]
             \/ /\ auto' \in FailedWrites(auto, doc)
                /\ tick' = [tick EXCEPT !.pc = "withdraw", !.doc = doc]
    /\ route' = [route EXCEPT ![tick.doc.key] = tick.acct]
    /\ UNCHANGED <<serviceVars, registryVars, manual, cmd, sent, learned>>

(* withdraw_unsent: nothing was sent.                                      *)
TickWithdraw ==
    /\ tick.pc = "withdraw"
    /\ LET doc == [tick.doc EXCEPT !.state = "journal_error"]
       IN IF auto.now = tick.doc
          THEN \/ auto' \in {Written(auto, doc)} \union FailedWrites(auto, doc)
               \/ LoadFails /\ UNCHANGED auto
          ELSE UNCHANGED auto
    /\ Hold
    /\ UNCHANGED <<serviceVars, registryVars, manual, cmd, keyVars>>

TickSend ==
    /\ tick.pc = "send"
    /\ sent' = sent \union {tick.doc.key}
    /\ inflight' = inflight \union {tick.doc.key}
    /\ TickTo("await")
    /\ UNCHANGED <<quota, decided, registryVars, fileVars, cmd, route, learned>>

TickReceive ==
    /\ tick.pc = "await"
    /\ decided[tick.doc.key] # "open"
    /\ learned' = learned \union {tick.doc.key}
    /\ tick' = IF decided[tick.doc.key] = "redeemed"
               THEN [tick EXCEPT !.pc = "applied", !.doc.state = "applied"]
               ELSE [tick EXCEPT !.pc = "record", !.doc.state = "not_consumed"]
    /\ UNCHANGED <<serviceVars, registryVars, fileVars, cmd, route, sent>>

(* Mutant: a request without an answer is taken for one without an effect. *)
TickTimeoutRefused ==
    /\ tick.pc = "await"
    /\ tick' = [tick EXCEPT !.pc = "record", !.doc.state = "not_consumed"]
    /\ UNCHANGED <<serviceVars, registryVars, fileVars, cmd, keyVars>>

(* The transport failed, or the answer could not be parsed.                *)
TickTimeout ==
    /\ tick.pc = "await"
    /\ tick' = [tick EXCEPT !.pc = "record", !.doc.state = "unknown"]
    /\ UNCHANGED <<serviceVars, registryVars, fileVars, cmd, keyVars>>

TickRecord ==
    /\ tick.pc = "record"
    /\ \/ /\ auto' = Written(auto, tick.doc)
          /\ IF tick.doc.state = "unknown" THEN Hold ELSE Allow
       \/ auto' \in FailedWrites(auto, tick.doc) /\ Hold
    /\ UNCHANGED <<serviceVars, registryVars, manual, cmd, keyVars>>

(* AppliedResetSettlementService::settle: the hand-off between two writes  *)
(* does not depend on the first, which is repeated when it failed or when  *)
(* the hand-off has a reason to report.                                    *)
TickApplied ==
    /\ tick.pc = "applied"
    /\ \/ auto' = Written(auto, tick.doc) /\ TickTo("settle")
       \/ auto' \in FailedWrites(auto, tick.doc) /\ TickTo("resettle")
    /\ UNCHANGED <<serviceVars, registryVars, manual, cmd, keyVars>>

TickSettle ==
    /\ tick.pc \in {"settle", "resettle"}
    /\ \/ tick.pc = "settle" /\ UNCHANGED auto
       \/ auto' \in {Written(auto, tick.doc)} \union FailedWrites(auto, tick.doc)
    /\ Hold
    /\ UNCHANGED <<serviceVars, registryVars, manual, cmd, keyVars>>

(* A registry, a journal or the process list that cannot be read is an     *)
(* error of the whole tick.                                                *)
TickFails ==
    /\ LoadFails
    /\ tick.pc \in {"check", "lock", "clear", "preflight"}
    /\ Hold
    /\ UNCHANGED <<serviceVars, registryVars, fileVars, cmd, keyVars>>

(* The distribution may choose another account.                            *)
TickRotate ==
    /\ tick.pc = "rotate"
    /\ tick' = IdleTick
    /\ active' \in Accounts
    /\ UNCHANGED <<serviceVars, cache, fileVars, cmd, keyVars>>

TickProgress ==
    \/ TickPersist \/ TickCheck \/ TickLockClear \/ TickClear \/ TickLock
    \/ TickUnblocked \/ TickAnchored \/ TickRefused \/ TickDesktopClosed
    \/ TickReady \/ TickMark \/ TickWithdraw \/ TickSend \/ TickReceive
    \/ TickTimeout \/ TickRecord \/ TickApplied \/ TickSettle \/ TickFails
    \/ TickRotate

-----------------------------------------------------------------------------
(* cxi reset: reset_account_transaction_with                               *)
(* Mutant: an automatic attempt in doubt does not stop the command.        *)
CmdStartDespiteAuto(a) ==
    /\ cmd.pc = "idle" /\ LockFree
    /\ ~ManualUnresolved
    /\ cache[a].credits > 0 /\ FreshKeys # {}
    /\ cmd' = [pc |-> "record", before |-> cache[a].credits,
               doc |-> [state |-> "pending", key |-> NextKey, acct |-> a]]
    /\ UNCHANGED <<serviceVars, registryVars, fileVars, tick, keyVars>>

CmdStart(a) ==
    /\ cmd.pc = "idle" /\ LockFree
    /\ ~ManualUnresolved
    /\ ~(Unresolved(auto.now) /\ auto.now.acct = a)
    /\ cache[a].credits > 0 /\ FreshKeys # {}
    /\ cmd' = [pc |-> "record", before |-> cache[a].credits,
               doc |-> [state |-> "pending", key |-> NextKey, acct |-> a]]
    /\ UNCHANGED <<serviceVars, registryVars, fileVars, tick, keyVars>>

CmdTo(step) == cmd' = [cmd EXCEPT !.pc = step]

(* Mutant: a failed write is trusted when it can be read back.             *)
CmdRecordReadback ==
    /\ cmd.pc = "record"
    /\ manual' \in {Written(manual, cmd.doc)} \union FailedWrites(manual, cmd.doc)
    /\ CmdTo("confirm")
    /\ route' = [route EXCEPT ![cmd.doc.key] = cmd.doc.acct]
    /\ UNCHANGED <<serviceVars, registryVars, auto, tick, sent, learned>>

(* ManualResetAttemptRecordService::record_pending: write, then read back. *)
CmdRecord ==
    /\ cmd.pc = "record"
    /\ \/ manual' = Written(manual, cmd.doc) /\ CmdTo("confirm")
       \/ manual' \in FailedWrites(manual, cmd.doc) /\ CmdTo("withdraw")
    /\ route' = [route EXCEPT ![cmd.doc.key] = cmd.doc.acct]
    /\ UNCHANGED <<serviceVars, registryVars, auto, tick, sent, learned>>

CmdConfirm ==
    /\ cmd.pc = "confirm"
    /\ \/ manual.now = cmd.doc /\ CmdTo("send")
       \/ (LoadFails \/ manual.now # cmd.doc) /\ CmdTo("withdraw")
    /\ UNCHANGED <<serviceVars, registryVars, fileVars, tick, keyVars>>

CmdWithdraw ==
    /\ cmd.pc = "withdraw"
    /\ LET doc == [cmd.doc EXCEPT !.state = "resolved"]
       IN IF manual.now = cmd.doc
          THEN \/ manual' \in {Written(manual, doc)} \union FailedWrites(manual, doc)
               \/ LoadFails /\ UNCHANGED manual
          ELSE UNCHANGED manual
    /\ cmd' = IdleCmd
    /\ UNCHANGED <<serviceVars, registryVars, auto, tick, keyVars>>

CmdSend ==
    /\ cmd.pc = "send"
    /\ sent' = sent \union {cmd.doc.key}
    /\ inflight' = inflight \union {cmd.doc.key}
    /\ CmdTo("await")
    /\ UNCHANGED <<quota, decided, registryVars, fileVars, tick, route, learned>>

(* Mutant: a refusal is recorded with the tick's word for it.              *)
CmdReceiveNotConsumed ==
    /\ cmd.pc = "await"
    /\ decided[cmd.doc.key] # "open"
    /\ learned' = learned \union {cmd.doc.key}
    /\ cmd' = IF decided[cmd.doc.key] = "redeemed" THEN [cmd EXCEPT !.pc = "commit"]
              ELSE [cmd EXCEPT !.pc = "finish", !.doc.state = "not_consumed"]
    /\ UNCHANGED <<serviceVars, registryVars, fileVars, tick, route, sent>>

CmdReceive ==
    /\ cmd.pc = "await"
    /\ decided[cmd.doc.key] # "open"
    /\ learned' = learned \union {cmd.doc.key}
    /\ cmd' = IF decided[cmd.doc.key] = "redeemed" THEN [cmd EXCEPT !.pc = "commit"]
              ELSE [cmd EXCEPT !.pc = "finish", !.doc.state = "resolved"]
    /\ UNCHANGED <<serviceVars, registryVars, fileVars, tick, route, sent>>

(* Mutant: the command waits for an answer without a timeout.              *)
CmdTimeoutNever ==
    /\ cmd.pc = "await" /\ decided[cmd.doc.key] # "open"
    /\ cmd' = [cmd EXCEPT !.pc = "finish", !.doc.state = "unknown"]
    /\ UNCHANGED <<serviceVars, registryVars, fileVars, tick, keyVars>>

CmdTimeout ==
    /\ cmd.pc = "await"
    /\ cmd' = [cmd EXCEPT !.pc = "finish", !.doc.state = "unknown"]
    /\ UNCHANGED <<serviceVars, registryVars, fileVars, tick, keyVars>>

(* Mutant: the decrement does not look at what the cache holds by now.     *)
CmdCommitUnchecked ==
    /\ cmd.pc = "commit"
    /\ cache' = [cache EXCEPT ![cmd.doc.acct].credits = IF @ = 0 THEN 0 ELSE @ - 1]
    /\ cmd' = [cmd EXCEPT !.pc = "finish", !.doc.state = "resolved"]
    /\ UNCHANGED <<serviceVars, active, fileVars, tick, keyVars>>

(* commit_consumed_credit: the cached count must still be the one the      *)
(* command started from.  The registry write itself may fail.              *)
CmdCommit ==
    /\ cmd.pc = "commit"
    /\ \/ /\ cache[cmd.doc.acct].credits = cmd.before
          /\ cache' = [cache EXCEPT ![cmd.doc.acct].credits = cmd.before - 1]
          /\ cmd' = [cmd EXCEPT !.pc = "finish", !.doc.state = "resolved"]
       \/ /\ cache[cmd.doc.acct].credits # cmd.before \/ Faults # {}
          /\ cmd' = [cmd EXCEPT !.pc = "finish", !.doc.state = "applied_uncertain"]
          /\ UNCHANGED cache
    /\ UNCHANGED <<serviceVars, active, fileVars, tick, keyVars>>

CmdFinish ==
    /\ cmd.pc = "finish"
    /\ manual' \in {Written(manual, cmd.doc)} \union FailedWrites(manual, cmd.doc)
    /\ cmd' = IdleCmd
    /\ UNCHANGED <<serviceVars, registryVars, auto, tick, keyVars>>

CmdProgress == \/ CmdRecord \/ CmdConfirm \/ CmdWithdraw \/ CmdSend \/ CmdReceive
               \/ CmdTimeout \/ CmdCommit \/ CmdFinish

-----------------------------------------------------------------------------
(* What else happens: a process dies, and the lock with it; the machine    *)
(* stops; and the user settles an attempt after looking at the service.    *)
TickCrash ==
    /\ tick.pc # "idle" /\ tick' = IdleTick
    /\ UNCHANGED <<serviceVars, registryVars, fileVars, cmd, keyVars>>

CmdCrash ==
    /\ cmd.pc # "idle" /\ cmd' = IdleCmd
    /\ UNCHANGED <<serviceVars, registryVars, fileVars, tick, keyVars>>

Survives(f) == {[now |-> d, disk |-> {d}] : d \in f.disk}

PowerOff ==
    /\ PowerLoss
    /\ auto' \in Survives(auto) /\ manual' \in Survives(manual)
    /\ tick' = IdleTick /\ cmd' = IdleCmd
    /\ UNCHANGED <<serviceVars, registryVars, keyVars>>

Quiet(k) == decided[k] # "open" \/ k \notin inflight

SettleAuto ==
    /\ LockFree /\ Unresolved(auto.now) /\ Quiet(auto.now.key)
    /\ auto' = Written(auto, NoAttempt)
    /\ learned' = learned \union {auto.now.key}
    /\ UNCHANGED <<serviceVars, registryVars, manual, tick, cmd, route, sent>>

SettleManual ==
    /\ LockFree /\ ManualUnresolved /\ Quiet(manual.now.key)
    /\ manual' = Written(manual, NoManual)
    /\ learned' = learned \union {manual.now.key}
    /\ UNCHANGED <<serviceVars, registryVars, auto, tick, cmd, route, sent>>

(* The service keeps one decision per key; a request may also be lost.     *)
Decide(k) ==
    /\ k \in inflight
    /\ inflight' = inflight \ {k}
    /\ LET q == quota[route[k]]
           redeems == decided[k] = "open" /\ q.exhausted /\ q.credits > 0
       IN /\ decided' = [decided EXCEPT ![k] = IF redeems THEN "redeemed"
                                               ELSE IF @ = "open" THEN "refused" ELSE @]
          /\ quota' = IF redeems
                      THEN [quota EXCEPT ![route[k]] = [q EXCEPT !.exhausted = FALSE,
                                                                 !.credits = @ - 1]]
                      ELSE quota
    /\ UNCHANGED <<registryVars, fileVars, tick, cmd, keyVars>>

Drop(k) ==
    /\ k \in inflight
    /\ inflight' = inflight \ {k}
    /\ UNCHANGED <<quota, decided, registryVars, fileVars, tick, cmd, keyVars>>

Exhaust(a) ==
    /\ ~quota[a].exhausted
    /\ quota' = [quota EXCEPT ![a].exhausted = TRUE]
    /\ UNCHANGED <<decided, inflight, registryVars, fileVars, tick, cmd, keyVars>>

WeeklyReset(a) ==
    /\ quota[a].window < MaxWindow
    /\ quota' = [quota EXCEPT ![a].window = @ + 1, ![a].exhausted = FALSE]
    /\ UNCHANGED <<decided, inflight, registryVars, fileVars, tick, cmd, keyVars>>

(* Another process polls an account, or switches to one.                   *)
Refresh(a) ==
    /\ cache' = [cache EXCEPT ![a] = quota[a]]
    /\ UNCHANGED <<serviceVars, active, fileVars, tick, cmd, keyVars>>

SwitchActive(a) ==
    /\ active' = a
    /\ UNCHANGED <<serviceVars, cache, fileVars, tick, cmd, keyVars>>

Environment ==
    \/ SettleAuto \/ SettleManual
    \/ \E k \in Keys : Decide(k) \/ Drop(k)
    \/ \E a \in Accounts : Exhaust(a) \/ WeeklyReset(a) \/ Refresh(a) \/ SwitchActive(a)

Next == \/ TickPoll \/ TickProgress
        \/ (\E a \in Accounts : CmdStart(a)) \/ CmdProgress
        \/ TickCrash \/ CmdCrash \/ PowerOff
        \/ Environment

Spec == Init /\ [][Next]_vars

(* Each program goes on with what it has begun.                            *)
Fairness == WF_vars(TickProgress) /\ WF_vars(CmdProgress)
FairSpec == Spec /\ Fairness

-----------------------------------------------------------------------------
(* Properties                                                              *)

(* The files hold what their formats allow and the programs are at one of  *)
(* their steps: the type invariant.                                        *)
TypeOK ==
    /\ quota \in [Accounts -> Usage] /\ cache \in [Accounts -> Usage]
    /\ decided \in [Keys -> {"open", "redeemed", "refused"}]
    /\ inflight \subseteq Keys
    /\ active \in Accounts
    /\ auto.now \in AutoDocs /\ auto.disk \subseteq AutoDocs /\ auto.disk # {}
    /\ manual.now \in ManualDocs /\ manual.disk \subseteq ManualDocs /\ manual.disk # {}
    /\ tick.pc \in TickSteps /\ tick.acct \in Accounts \union {None}
    /\ tick.window \in 0..MaxWindow /\ tick.doc \in AutoDocs /\ tick.skips \in BOOLEAN
    /\ cmd.pc \in CmdSteps /\ cmd.doc \in ManualDocs /\ cmd.before \in 0..MaxCredits
    /\ route \in [Keys -> Accounts \union {None}]
    /\ sent \subseteq Keys /\ learned \subseteq Keys

InDoubt == sent \ learned

(* A request that left and whose answer nobody has seen is named by an     *)
(* unresolved attempt in one of the two files, whichever write failed and  *)
(* whichever program died: its key is never forgotten.                     *)
InDoubtRecorded ==
    \A k \in InDoubt :
        \/ Unresolved(auto.now) /\ auto.now.key = k
        \/ manual.now.state \in {"pending", "unknown"} /\ manual.now.key = k

(* A settled record tells the truth about the credit: what is recorded as  *)
(* applied was redeemed, what is recorded as not consumed was not and will *)
(* not be, and what is recorded as never sent was never sent.              *)
SettledTruth ==
    LET doc == auto.now
        attempt == manual.now
    IN /\ doc.state = "applied" => decided[doc.key] = "redeemed"
       /\ doc.state = "not_consumed" => decided[doc.key] = "refused"
       /\ doc.state \in {"waiting_for_desktop", "journal_error"} => doc.key \notin sent
       /\ attempt.state = "applied_uncertain" => decided[attempt.key] = "redeemed"

(* Nothing but the service spends a credit: the cached count, which decides *)
(* whether an attempt is worth making, never falls below the real one,     *)
(* whatever polls land between the answer and its commit.                  *)
CreditsNotLost == \A a \in Accounts : cache[a].credits >= quota[a].credits

(* The abstract ledger: per account at most one request is in doubt, and a *)
(* credit is spent for no other.  The tick and the command, which know     *)
(* each other only through the two files, together keep it.                *)
DoubtOf(a) == LET keys == {k \in InDoubt : route[k] = a}
              IN IF keys = {} THEN 0 ELSE CHOOSE k \in keys : TRUE

Ledger == INSTANCE CreditLedger WITH
    doubt <- [a \in Accounts |-> DoubtOf(a)],
    asked <- sent,
    spent <- {k \in Keys : decided[k] = "redeemed"}

KeepsLedger == Ledger!Spec

(* The daemon rotates accounts while its own attempt is in doubt in two     *)
(* cases only: the active account moved before the tick took the lock, or  *)
(* the tick never looked at the journal, because the weekly reset is off   *)
(* or the active account's auth.json was not verified when it read it.     *)
RotationHeld ==
    [][tick.pc # "rotate" /\ tick'.pc = "rotate" /\ Unresolved(auto'.now)
         => active # tick.acct \/ tick.skips]_vars

(* No lost answer, late answer or crash leaves the operation lock taken    *)
(* for ever, and switching with it.                                        *)
LockReleased == []<>LockFree

(* The first request with a key leaves when a reader finds the key          *)
(* unresolved in the file of the program that sends it, and a power loss   *)
(* does too, except for one: a tick that finds its attempt unresolved      *)
(* takes it for a retry and does not write it again, although an earlier   *)
(* tick may have died before the flush and the request.                    *)
FirstRequestRecorded ==
    [][\A k \in sent' \ sent :
          \/ /\ Unresolved(auto'.now) /\ auto'.now.key = k
             /\ tick.doubt \/ \A d \in auto'.disk : Unresolved(d) /\ d.key = k
          \/ \A m \in manual'.disk : m.state = "pending" /\ m.key = k]_vars

(* The command's attempt in doubt survives a power loss: every document    *)
(* the disk may still hold names its key and is unresolved.                *)
ManualSurvives ==
    \A k \in InDoubt : manual.now.key = k =>
        \A m \in manual.disk : m.key = k /\ m.state # "resolved"

(* README.md: while an attempt is pending or unknown and a check of its    *)
(* retry fails, switching stays suppressed.                                *)
SuppressedWhileUnresolved ==
    [][tick.pc # "rotate" /\ tick'.pc = "rotate" => ~Unresolved(auto'.now)]_vars

=============================================================================
