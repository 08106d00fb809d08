-------------------------- MODULE ResetCreditProofs --------------------------
(***************************************************************************)
(* Proofs about ResetCredit for every set of accounts, every bound and     *)
(* every set of faults; with power losses where nothing else is said.      *)
(***************************************************************************)
EXTENDS ResetCredit, FiniteSetTheorems, TLAPS

(* The types: those of TypeOK, with every field of the locals, and the     *)
(* document a reader sees among those the disk may hold.                   *)
Maybe(S) == S \union {None}

Files(docs) == {f \in [now : docs, disk : SUBSET docs] : f.now \in f.disk}

Ticks == [pc : TickSteps, acct : Maybe(Accounts), window : 0..MaxWindow,
          exhausted : BOOLEAN, credits : 0..MaxCredits, skips : BOOLEAN,
          doc : AutoDocs, doubt : BOOLEAN]

Cmds == [pc : CmdSteps, doc : ManualDocs, before : 0..MaxCredits]

ServiceTyped ==
    /\ quota \in [Accounts -> Usage] /\ cache \in [Accounts -> Usage]
    /\ decided \in [Keys -> {"open", "redeemed", "refused"}]
    /\ inflight \subseteq Keys
    /\ active \in Accounts

MonitorTyped ==
    /\ auto \in Files(AutoDocs) /\ manual \in Files(ManualDocs)
    /\ tick \in Ticks /\ cmd \in Cmds
    /\ route \in [Keys -> Maybe(Accounts)]
    /\ sent \subseteq Keys /\ learned \subseteq Keys

TypeInv == ServiceTyped /\ MonitorTyped

-----------------------------------------------------------------------------
(* The keys: recorded before they are sent, sent before they are decided,  *)
(* and each in the file of one program only.                               *)
AutoRecorded(d) ==
    IF d.state = "ready" THEN d = NoAttempt
    ELSE d.key \in Keys /\ d.acct \in Accounts /\ route[d.key] = d.acct

ManualRecorded(m) ==
    IF m.key = 0 THEN m = NoManual
    ELSE m.key \in Keys /\ m.acct \in Accounts /\ route[m.key] = m.acct

KeyInv ==
    /\ \A k \in sent \union learned : route[k] # None
    /\ \A k \in Keys : k \in inflight \/ decided[k] # "open" => k \in sent
    /\ \A d \in auto.disk : AutoRecorded(d)
    /\ \A m \in manual.disk : ManualRecorded(m)
    /\ \A d \in auto.disk, m \in manual.disk : d.key = m.key => d.key = 0

(* One program at a time is inside the operation lock.                     *)
LockInv == tick.pc \in TickLocked => cmd.pc = "idle"

(* What the tick carries from one step to the next.                        *)
Unsettled == {"preflight", "mark"}
Answered == {"record", "applied", "settle", "resettle"}

TickAttempt ==
    /\ tick.pc \notin {"idle", "rotate"} => tick.acct \in Accounts
    /\ tick.pc \in {"lockClear", "clear"} => ~Unresolved(auto.now)
    /\ tick.pc = "detect" =>
          tick.doc = auto.now /\ (Unresolved(tick.doc) => SameEpisode(tick.doc))
    /\ tick.pc \in Unsettled \union {"withdraw", "send", "await"} \union Answered =>
          SameEpisode(tick.doc) /\ tick.doc.key \in Keys
    /\ tick.pc \in Unsettled /\ ~tick.doubt =>
          /\ ~Unresolved(auto.now)
          /\ \/ tick.doc.key \in FreshKeys
             \/ /\ tick.doc = auto.now
                /\ tick.doc.state \in {"waiting_for_desktop", "journal_error"}
    /\ tick.pc = "preflight" /\ tick.doubt => tick.doc = auto.now /\ Unresolved(tick.doc)
    /\ tick.pc = "persist" => tick.window > 0
    /\ tick.pc \in {"persist", "check", "lock", "detect", "mark", "withdraw"} => ~tick.doubt

TickRequest ==
    /\ tick.pc = "withdraw" =>
          /\ tick.doc.state = "pending" /\ route[tick.doc.key] = tick.acct
          /\ tick.doc = auto.now \/ ~Unresolved(auto.now)
    /\ tick.pc \in {"send", "await"} => tick.doc = auto.now /\ Unresolved(tick.doc)
    /\ tick.pc = "send" /\ ~tick.doubt => auto.disk = {tick.doc}
    /\ tick.pc \in Answered =>
          /\ tick.doc.key = auto.now.key /\ tick.doc.acct = auto.now.acct
          /\ tick.doc.state # "ready"
    /\ tick.pc \in Answered \union {"await"} => tick.doc.key \in sent
    /\ tick.pc = "record" =>
          \/ tick.doc.state = "unknown"
          \/ /\ tick.doc.state = "not_consumed" /\ tick.doc.key \in learned
             /\ decided[tick.doc.key] = "refused"
    /\ tick.pc \in Answered \ {"record"} =>
          /\ tick.doc.state = "applied" /\ tick.doc.key \in learned
          /\ decided[tick.doc.key] = "redeemed"

(* What the command carries from one step to the next.                     *)
CmdAttempt ==
    /\ cmd.pc # "idle" =>
          /\ cmd.doc.key \in Keys /\ cmd.doc.acct \in Accounts
          /\ cmd.before > 0
          /\ \A d \in auto.disk : d.key # cmd.doc.key
    /\ cmd.pc = "record" =>
          cmd.doc.key \in FreshKeys /\ manual.now.state = "resolved"
    /\ cmd.pc \notin {"idle", "record"} => route[cmd.doc.key] = cmd.doc.acct
    /\ cmd.pc \notin {"idle", "finish"} => cmd.doc.state = "pending"
    /\ cmd.pc \in {"confirm", "withdraw", "send"} => cmd.doc.key \notin sent

CmdRequest ==
    /\ cmd.pc \in {"confirm", "send", "await", "commit"} =>
          manual.now = cmd.doc /\ manual.disk = {cmd.doc}
    /\ cmd.pc = "withdraw" => manual.now = cmd.doc \/ manual.now.state = "resolved"
    /\ cmd.pc \in {"await", "commit", "finish"} => cmd.doc.key \in sent
    /\ cmd.pc = "commit" =>
          cmd.doc.key \in learned /\ decided[cmd.doc.key] = "redeemed"
    /\ cmd.pc = "finish" =>
          /\ manual.now.key = cmd.doc.key /\ manual.disk = {manual.now}
          /\ manual.now.state = "pending"
          /\ \/ cmd.doc.state = "unknown"
             \/ cmd.doc.state = "resolved" /\ cmd.doc.key \in learned
             \/ /\ cmd.doc.state = "applied_uncertain" /\ cmd.doc.key \in learned
                /\ decided[cmd.doc.key] = "redeemed"

CoreInv == TypeInv /\ KeyInv /\ LockInv /\ TickAttempt /\ TickRequest /\ CmdAttempt /\ CmdRequest

-----------------------------------------------------------------------------
(* A key in doubt on the command's disk is all the disk may hold.          *)
DurableInv ==
    \A k \in InDoubt, m \in manual.disk :
        m.key = k => \A n \in manual.disk : n.key = k /\ n.state # "resolved"

(* The counts of credits a program carries are not below the real ones.    *)
CreditInv ==
    /\ CreditsNotLost
    /\ tick.pc = "persist" => tick.credits >= quota[tick.acct].credits
    /\ cmd.pc # "idle" =>
          /\ cmd.before >= quota[cmd.doc.acct].credits
          /\ decided[cmd.doc.key] = "redeemed" =>
                cmd.before > quota[cmd.doc.acct].credits

(* Without power losses the files are the truth: what the programs do not  *)
(* resend is settled, and the two never hold attempts for one account.     *)
UnsentInv ==
    tick.pc \in Unsettled \union {"withdraw"} /\ ~tick.doubt => tick.doc.key \notin sent

HeldInv == tick.pc \in TickLocked \ {"clear"} => ~ManualUnresolved

SeparateInv ==
    Unresolved(auto.now) =>
        /\ ManualUnresolved => auto.now.acct # manual.now.acct
        /\ cmd.pc # "idle" => auto.now.acct # cmd.doc.acct

LearnedInv ==
    \A k \in learned : decided[k] = "open" =>
        k \notin inflight /\ k # auto.now.key /\ k # manual.now.key

TruthInv == InDoubtRecorded /\ SettledTruth /\ UnsentInv /\ HeldInv /\ SeparateInv /\ LearnedInv

-----------------------------------------------------------------------------
(* A non-empty set of natural numbers has a least element: the intervals   *)
(* below its elements are well-founded by inclusion.                       *)
LEMMA LeastElement ==
    ASSUME NEW S \in SUBSET Nat, S # {}
    PROVE  \E m \in S : \A n \in S : m <= n
<1>. DEFINE Below == {1..m : m \in S}
<1>1. Below \subseteq FiniteSubsetsOf(Nat)
  <2>1. ASSUME NEW m \in S PROVE 1..m \in SUBSET Nat /\ IsFiniteSet(1..m)
    BY FS_Interval
  <2>. QED
    BY <2>1 DEF FiniteSubsetsOf
<1>2. PICK b \in Below : \A c \in Below : <<c, b>> \notin StrictSubsetOrdering(Nat)
  <2>1. Below # {}
    OBVIOUS
  <2>. QED
    BY <1>1, <2>1, FS_StrictSubsetOrderingWellFounded, WFMin
<1>3. PICK m \in S : b = 1..m
  OBVIOUS
<1>4. ASSUME NEW n \in S PROVE m <= n
  <2>1. SUFFICES ASSUME n < m PROVE FALSE
    OBVIOUS
  <2>2. 1..n \subseteq 1..m /\ 1..n # 1..m
    <3>1. m \in 1..m /\ m \notin 1..n
      BY <2>1
    <3>. QED
      BY <2>1, <3>1
  <2>3. <<1..n, 1..m>> \in StrictSubsetOrdering(Nat)
    BY <2>2 DEF StrictSubsetOrdering
  <2>. QED
    BY <1>2, <1>3, <2>3
<1>. QED
  BY <1>4

(* A new attempt gets a key that no record has.                            *)
LEMMA NextKeyFresh == ASSUME FreshKeys # {} PROVE NextKey \in FreshKeys
<1>1. FreshKeys \in SUBSET Nat
  BY ResetBoundsAssumption DEF FreshKeys, Keys
<1>. QED
  BY <1>1, LeastElement DEF NextKey

(* What a replacement of a file leaves, whichever of its steps fails.      *)
LEMMA Rewritten ==
    ASSUME NEW docs, NEW f \in Files(docs), NEW d \in docs, NEW g,
           g \in {Written(f, d)} \union FailedWrites(f, d)
    PROVE  /\ g \in Files(docs)
           /\ g.disk \subseteq f.disk \union {d}
           /\ g.now \in {f.now, d}
<1>1. CASE g = Written(f, d)
  BY <1>1 DEF Written, Document, Files
<1>2. CASE g = f
  BY <1>2 DEF Files
<1>3. CASE g = Document(d, f.disk \union {d})
  BY <1>3 DEF Document, Files
<1>. QED
  BY <1>1, <1>2, <1>3 DEF FailedWrites

LEMMA Flushed ==
    ASSUME NEW f, NEW d
    PROVE  Written(f, d).now = d /\ Written(f, d).disk = {d}
BY DEF Written, Document

(* The empty documents are well typed, and the bounds are numbers.         *)
LEMMA Bounds == MaxKey \in Nat \ {0} /\ MaxWindow \in Nat \ {0} /\ MaxCredits \in Nat \ {0}
BY ResetBoundsAssumption

LEMMA EmptyDocuments ==
    /\ NoAttempt \in AutoDocs /\ NoManual \in ManualDocs
    /\ IdleTick \in Ticks /\ IdleCmd \in Cmds
BY Bounds DEF NoAttempt, NoManual, AutoDocs, ManualDocs, AutoStates, ManualStates,
     IdleTick, IdleCmd, Ticks, Cmds, TickSteps, CmdSteps, Maybe

-----------------------------------------------------------------------------
(* Steps that leave the files and the keys alone                           *)

(* A step of the tick that writes nothing: what the others hold stays, and *)
(* it is enough to look at the tick.                                       *)
LEMMA TickOnly ==
    ASSUME CoreInv,
           UNCHANGED <<serviceVars, fileVars, cmd, keyVars>>,
           cache' \in [Accounts -> Usage], active' \in Accounts,
           tick' \in Ticks, LockInv', TickAttempt', TickRequest'
    PROVE  CoreInv'
BY DEF CoreInv, TypeInv, ServiceTyped, MonitorTyped, KeyInv, AutoRecorded, ManualRecorded,
     CmdAttempt, CmdRequest, FreshKeys, serviceVars, fileVars, keyVars

LEMMA TickEndsKept ==
    ASSUME CoreInv, UNCHANGED <<serviceVars, fileVars, cmd, keyVars>>,
           cache' \in [Accounts -> Usage], active' \in Accounts,
           Hold \/ Allow
    PROVE  CoreInv'
<1>1. tick' \in Ticks /\ tick'.pc \in {"idle", "rotate"}
  <2>1. CASE Hold
    BY <2>1, EmptyDocuments DEF Hold, IdleTick
  <2>2. CASE Allow
    <3>1. PICK before : before = IdleTick
      OBVIOUS
    <3>2. before \in Ticks /\ tick' = [before EXCEPT !.pc = "rotate"]
      BY <2>2, <3>1, EmptyDocuments DEF Allow
    <3>. QED
      BY <3>2 DEF Ticks, TickSteps
  <2>. QED
    BY <2>1, <2>2
<1>2. LockInv' /\ TickAttempt' /\ TickRequest'
  BY <1>1 DEF LockInv, TickLocked, TickAttempt, TickRequest, Unsettled, Answered
<1>. QED
  BY <1>1, <1>2, TickOnly

(* Whether it will look at its journal is all the tick learns here.         *)
LEMMA TickPersisted ==
    ASSUME CoreInv, TickPersist
    PROVE  /\ tick' \in Ticks
           /\ \E skips \in BOOLEAN : tick' = [tick EXCEPT !.pc = "check", !.skips = skips]
<1>1. PICK skips \in BOOLEAN : tick' = [tick EXCEPT !.pc = "check", !.skips = skips]
  BY ResetFaultsAssumption DEF TickPersist
<1>. QED
  BY <1>1 DEF CoreInv, TypeInv, MonitorTyped, Ticks, TickSteps

LEMMA TickReadsKept ==
    ASSUME CoreInv,
           \/ TickPoll \/ TickPersist \/ TickCheck \/ TickLockClear \/ TickLock \/ TickUnblocked
           \/ TickAnchored \/ TickRefused \/ TickReady \/ TickFails \/ TickRotate \/ TickCrash
    PROVE  CoreInv'
<1>1. CASE TickPoll
  <2>1. tick' \in Ticks
    <3>1. PICK usage \in Usage, before \in Ticks :
             usage = quota[active] /\ before = IdleTick
      BY EmptyDocuments DEF CoreInv, TypeInv, ServiceTyped
    <3>2. tick' = [before EXCEPT !.pc = "persist", !.acct = active, !.window = usage.window,
                                 !.exhausted = usage.exhausted, !.credits = usage.credits]
      BY <1>1, <3>1 DEF TickPoll
    <3>3. active \in Maybe(Accounts)
      BY DEF CoreInv, TypeInv, ServiceTyped, Maybe
    <3>4. usage.window \in 0..MaxWindow /\ usage.exhausted \in BOOLEAN
          /\ usage.credits \in 0..MaxCredits
      BY Bounds DEF Usage
    <3>. QED
      BY <3>2, <3>3, <3>4 DEF Ticks, TickSteps
  <2>2. LockInv' /\ TickAttempt' /\ TickRequest'
    BY <1>1, Bounds DEF TickPoll, IdleTick, CoreInv, TypeInv, ServiceTyped, Usage, LockInv,
         TickLocked, TickAttempt, TickRequest, Unsettled, Answered
  <2>. QED
    BY <1>1, <2>1, <2>2, TickOnly DEF TickPoll, registryVars, CoreInv, TypeInv, ServiceTyped
<1>2. CASE TickPersist
  <2>1. cache' \in [Accounts -> Usage]
    <3>1. [window |-> tick.window, exhausted |-> tick.exhausted, credits |-> tick.credits]
             \in Usage
      BY <1>2, Bounds DEF TickPersist, CoreInv, TypeInv, MonitorTyped, Ticks, Usage, TickAttempt
    <3>. QED
      BY <1>2, <3>1 DEF TickPersist, CoreInv, TypeInv, ServiceTyped
  <2>2. tick' \in Ticks /\ LockInv' /\ TickAttempt' /\ TickRequest'
    <3>1. /\ tick' \in Ticks /\ tick'.pc = "check"
          /\ tick'.acct = tick.acct /\ tick'.doubt = tick.doubt
      BY <1>2, TickPersisted DEF CoreInv, TypeInv, MonitorTyped, Ticks
    <3>. QED
      BY <1>2, <3>1 DEF TickPersist, CoreInv, LockInv, TickLocked, TickAttempt, TickRequest,
         Unsettled, Answered
  <2>. QED
    BY <1>2, <2>1, <2>2, TickOnly DEF TickPersist, CoreInv, TypeInv, ServiceTyped
<1>3. CASE TickCheck
  <2>1. CASE Hold \/ Allow
    BY <1>3, <2>1, TickEndsKept DEF TickCheck, registryVars, CoreInv, TypeInv, ServiceTyped
  <2>2. CASE TickTo("lock") \/ (~Unresolved(auto.now) /\ TickTo("lockClear"))
    <3>1. /\ tick' \in Ticks /\ tick'.acct = tick.acct /\ tick'.doubt = tick.doubt
          /\ \/ tick'.pc = "lock"
             \/ tick'.pc = "lockClear" /\ ~Unresolved(auto.now)
      BY <2>2 DEF TickTo, CoreInv, TypeInv, MonitorTyped, Ticks, TickSteps
    <3>2. LockInv' /\ TickRequest'
      BY <3>1 DEF LockInv, TickLocked, TickRequest, Answered
    <3>3. TickAttempt'
      BY <1>3, <3>1 DEF TickCheck, CoreInv, TickAttempt, Unsettled, Answered, Unresolved, fileVars
    <3>. QED
      BY <1>3, <3>1, <3>2, <3>3, TickOnly
         DEF TickCheck, registryVars, CoreInv, TypeInv, ServiceTyped
  <2>. QED
    BY <1>3, <2>1, <2>2 DEF TickCheck
<1>4. CASE TickLockClear
  <2>1. CASE Hold
    BY <1>4, <2>1, TickEndsKept DEF TickLockClear, registryVars, CoreInv, TypeInv, ServiceTyped
  <2>2. CASE LockFree /\ TickTo("clear")
    <3>1. tick' \in Ticks /\ LockInv' /\ TickAttempt' /\ TickRequest'
      BY <1>4, <2>2 DEF TickLockClear, TickTo, CoreInv, TypeInv, MonitorTyped, Ticks, TickSteps,
           LockInv, LockFree, TickLocked, TickAttempt, TickRequest, Unsettled, Answered,
           Unresolved, fileVars
    <3>. QED
      BY <1>4, <3>1, TickOnly DEF TickLockClear, registryVars, CoreInv, TypeInv, ServiceTyped
  <2>. QED
    BY <1>4, <2>1, <2>2 DEF TickLockClear
<1>5. CASE TickLock
  <2>1. CASE Hold \/ Allow
    BY <1>5, <2>1, TickEndsKept DEF TickLock, registryVars, CoreInv, TypeInv, ServiceTyped
  <2>2. CASE /\ LockFree /\ ~ManualUnresolved
             /\ Unresolved(auto.now) => SameEpisode(auto.now)
             /\ tick' = [tick EXCEPT !.pc = "detect", !.doc = auto.now]
    <3>1. tick' \in Ticks
      BY <2>2 DEF CoreInv, TypeInv, MonitorTyped, Ticks, TickSteps, TickLocked, Files
    <3>2. tick'.pc = "detect" /\ tick'.doc = auto.now /\ tick'.acct = tick.acct
          /\ tick'.window = tick.window
      BY <2>2 DEF CoreInv, TypeInv, MonitorTyped, Ticks
    <3>3. TickAttempt'
      BY <1>5, <2>2, <3>2 DEF TickLock, CoreInv, TickAttempt, Unsettled, Answered, SameEpisode,
           Unresolved, fileVars
    <3>4. LockInv' /\ TickRequest'
      BY <1>5, <2>2, <3>2 DEF TickLock, LockInv, LockFree, TickRequest, Answered
    <3>. QED
      BY <1>5, <3>1, <3>3, <3>4, TickOnly
         DEF TickLock, registryVars, CoreInv, TypeInv, ServiceTyped
  <2>. QED
    BY <1>5, <2>1, <2>2 DEF TickLock
<1>6. CASE TickUnblocked \/ TickRefused \/ TickFails
  BY <1>6, TickEndsKept DEF TickUnblocked, TickRefused, TickFails, registryVars, CoreInv, TypeInv,
       ServiceTyped
<1>7. CASE TickAnchored
  <2>1. CASE Hold \/ Allow
    BY <1>7, <2>1, TickEndsKept DEF TickAnchored, registryVars, CoreInv, TypeInv, ServiceTyped
  <2>2. CASE /\ SameEpisode(tick.doc) /\ tick.doc.state \notin {"applied", "not_consumed"}
             /\ tick' = [tick EXCEPT !.pc = "preflight", !.doubt = Unresolved(tick.doc)]
    <3>1. tick' \in Ticks
      <4>1. Unresolved(tick.doc) \in BOOLEAN
        BY DEF Unresolved
      <4>. QED
        BY <2>2, <4>1 DEF CoreInv, TypeInv, MonitorTyped, Ticks, TickSteps, TickLocked
    <3>2. /\ tick'.pc = "preflight" /\ tick'.doc = tick.doc /\ tick'.acct = tick.acct
          /\ tick'.window = tick.window /\ tick'.doubt = Unresolved(tick.doc)
      BY <2>2 DEF CoreInv, TypeInv, MonitorTyped, Ticks
    <3>3. tick.pc = "detect" /\ tick.doc = auto.now /\ tick.acct \in Accounts
      BY <1>7 DEF TickAnchored, CoreInv, TickAttempt
    <3>4. AutoRecorded(tick.doc) /\ tick.doc \in AutoDocs
      BY <3>3 DEF CoreInv, KeyInv, TypeInv, MonitorTyped, Files
    <3>5. tick.doc.key \in Keys /\ tick.doc.state # "ready"
      BY <3>3, <3>4, <2>2, ResetNoneAssumption DEF AutoRecorded, SameEpisode, NoAttempt
    <3>6. Unresolved(tick.doc) \/ tick.doc.state \in {"waiting_for_desktop", "journal_error"}
      BY <3>4, <3>5, <2>2 DEF AutoDocs, AutoStates, Unresolved
    <3>7. TickAttempt'
      BY <1>7, <2>2, <3>2, <3>3, <3>5, <3>6 DEF TickAnchored, TickAttempt, Unsettled, Answered,
           SameEpisode, fileVars, Unresolved
    <3>8. LockInv' /\ TickRequest'
      BY <1>7, <3>2 DEF TickAnchored, CoreInv, LockInv, TickLocked, TickRequest, Answered
    <3>. QED
      BY <1>7, <3>1, <3>7, <3>8, TickOnly
         DEF TickAnchored, registryVars, CoreInv, TypeInv, ServiceTyped
  <2>3. CASE /\ ~SameEpisode(tick.doc) /\ FreshKeys # {}
             /\ tick' = [tick EXCEPT !.pc = "preflight",
                           !.doc = [state |-> "ready", key |-> NextKey,
                                    acct |-> tick.acct, window |-> tick.window]]
    <3>1. tick.pc = "detect" /\ tick.doc = auto.now /\ tick.acct \in Accounts
      BY <1>7 DEF TickAnchored, CoreInv, TickAttempt
    <3>2. NextKey \in FreshKeys /\ NextKey \in Keys
      BY <2>3, NextKeyFresh DEF FreshKeys
    <3>3. [state |-> "ready", key |-> NextKey, acct |-> tick.acct, window |-> tick.window]
             \in AutoDocs
      BY <3>1, <3>2, Bounds DEF AutoDocs, AutoStates, Keys, CoreInv, TypeInv, MonitorTyped, Ticks
    <3>4. tick' \in Ticks
      BY <2>3, <3>3 DEF CoreInv, TypeInv, MonitorTyped, Ticks, TickSteps, TickLocked
    <3>5. /\ tick'.pc = "preflight" /\ tick'.acct = tick.acct /\ tick'.window = tick.window
          /\ tick'.doc.key = NextKey /\ tick'.doc.acct = tick.acct
          /\ tick'.doc.window = tick.window /\ tick'.doubt = tick.doubt
      BY <2>3 DEF CoreInv, TypeInv, MonitorTyped, Ticks
    <3>6. ~Unresolved(auto.now) /\ ~tick.doubt
      BY <1>7, <2>3, <3>1 DEF TickAnchored, CoreInv, TickAttempt
    <3>7. TickAttempt'
      BY <1>7, <3>1, <3>2, <3>5, <3>6 DEF TickAnchored, TickAttempt, Unsettled, Answered,
           SameEpisode, fileVars, keyVars, Unresolved, FreshKeys
    <3>8. LockInv' /\ TickRequest'
      BY <1>7, <3>5 DEF TickAnchored, CoreInv, LockInv, TickLocked, TickRequest, Answered
    <3>. QED
      BY <1>7, <3>4, <3>7, <3>8, TickOnly
         DEF TickAnchored, registryVars, CoreInv, TypeInv, ServiceTyped
  <2>. QED
    BY <1>7, <2>1, <2>2, <2>3 DEF TickAnchored
<1>8. CASE TickReady
  <2>1. /\ tick' \in Ticks /\ tick'.pc = IF tick.doubt THEN "send" ELSE "mark"
        /\ tick'.acct = tick.acct /\ tick'.window = tick.window /\ tick'.doc = tick.doc
        /\ tick'.doubt = tick.doubt
    BY <1>8 DEF TickReady, TickTo, CoreInv, TypeInv, MonitorTyped, Ticks, TickSteps, TickLocked
  <2>2. TickAttempt' /\ TickRequest'
    BY <1>8, <2>1 DEF TickReady, CoreInv, TypeInv, MonitorTyped, Ticks, TickAttempt, TickRequest,
         Unsettled, Answered, SameEpisode, Unresolved, fileVars, keyVars, FreshKeys
  <2>3. LockInv'
    BY <1>8, <2>1 DEF TickReady, CoreInv, LockInv, TickLocked
  <2>. QED
    BY <1>8, <2>1, <2>2, <2>3, TickOnly DEF TickReady, registryVars, CoreInv, TypeInv, ServiceTyped
<1>9. CASE TickRotate
  BY <1>9, TickEndsKept DEF TickRotate, Hold, CoreInv, TypeInv, ServiceTyped
<1>10. CASE TickCrash
  BY <1>10, TickEndsKept DEF TickCrash, Hold, registryVars, CoreInv, TypeInv, ServiceTyped
<1>. QED
  BY <1>1, <1>2, <1>3, <1>4, <1>5, <1>6, <1>7, <1>8, <1>9, <1>10

-----------------------------------------------------------------------------
(* Steps of the tick that write its file, or its request                   *)

(* The tick replaces its file while it holds the lock.  A record keeps the *)
(* route of every key that has one.                                        *)
LEMMA AutoRewritten ==
    ASSUME CoreInv, tick.pc \in TickLocked,
           UNCHANGED <<serviceVars, registryVars, manual, cmd, sent, learned>>,
           NEW d \in AutoDocs,
           auto' \in {Written(auto, d)} \union FailedWrites(auto, d),
           AutoRecorded(d)',
           \A m \in manual.disk : d.key = m.key => d.key = 0,
           route' \in [Keys -> Maybe(Accounts)],
           \A k \in Keys : route[k] # None => route'[k] = route[k],
           tick' \in Ticks, LockInv', TickAttempt', TickRequest'
    PROVE  CoreInv'
<1>1. auto' \in Files(AutoDocs) /\ auto'.disk \subseteq auto.disk \union {d}
  BY Rewritten DEF CoreInv, TypeInv, MonitorTyped
<1>2. TypeInv'
  BY <1>1 DEF CoreInv, TypeInv, ServiceTyped, MonitorTyped, serviceVars, registryVars
<1>3. KeyInv'
  <2>1. \A k \in (sent \union learned)' : route'[k] # None
    BY DEF CoreInv, TypeInv, MonitorTyped, KeyInv
  <2>2. \A k \in Keys : k \in inflight' \/ decided'[k] # "open" => k \in sent'
    BY DEF CoreInv, KeyInv, serviceVars
  <2>3. \A e \in auto'.disk : AutoRecorded(e)'
    <3>1. ASSUME NEW e \in auto.disk PROVE AutoRecorded(e)'
      <4>1. AutoRecorded(e)
        BY DEF CoreInv, KeyInv
      <4>. QED
        BY <4>1, ResetNoneAssumption DEF AutoRecorded
    <3>. QED
      BY <1>1, <3>1
  <2>4. \A m \in manual'.disk : ManualRecorded(m)'
    <3>1. ASSUME NEW m \in manual.disk PROVE ManualRecorded(m)'
      <4>1. ManualRecorded(m)
        BY DEF CoreInv, KeyInv
      <4>. QED
        BY <4>1, ResetNoneAssumption DEF ManualRecorded
    <3>. QED
      BY <3>1
  <2>5. \A e \in auto'.disk, m \in manual'.disk : e.key = m.key => e.key = 0
    BY <1>1 DEF CoreInv, KeyInv
  <2>. QED
    BY <2>1, <2>2, <2>3, <2>4, <2>5 DEF KeyInv
<1>4. CmdAttempt' /\ CmdRequest'
  BY DEF CoreInv, LockInv, CmdAttempt, CmdRequest
<1>. QED
  BY <1>2, <1>3, <1>4 DEF CoreInv

(* The route of the key an attempt is recorded under.                      *)
LEMMA RouteRecorded ==
    ASSUME CoreInv, NEW k \in Keys, NEW a \in Accounts,
           route[k] = None \/ route[k] = a,
           route' = [route EXCEPT ![k] = a]
    PROVE  /\ route' \in [Keys -> Maybe(Accounts)]
           /\ \A j \in Keys : route[j] # None => route'[j] = route[j]
           /\ route'[k] = a
BY DEF CoreInv, TypeInv, MonitorTyped, Maybe

(* The key of an attempt that has not been marked.                         *)
LEMMA UnsettledKey ==
    ASSUME CoreInv, tick.pc \in Unsettled, ~tick.doubt
    PROVE  /\ tick.acct \in Accounts /\ tick.doc.key \in Keys
           /\ tick.doc.acct = tick.acct
           /\ route[tick.doc.key] \in {None, tick.acct}
           /\ \A m \in manual.disk : tick.doc.key # m.key
<1>1. tick.acct \in Accounts /\ tick.doc.key \in Keys /\ tick.doc.acct = tick.acct
  BY DEF CoreInv, TickAttempt, Unsettled, SameEpisode
<1>2. 0 \notin Keys
  BY Bounds DEF Keys
<1>3. CASE tick.doc.key \in FreshKeys
  BY <1>1, <1>2, <1>3, ResetNoneAssumption DEF CoreInv, KeyInv, ManualRecorded, FreshKeys
<1>4. CASE tick.doc = auto.now /\ tick.doc.state # "ready"
  <2>1. tick.doc \in auto.disk
    BY <1>4 DEF CoreInv, TypeInv, MonitorTyped, Files
  <2>. QED
    BY <1>1, <1>2, <1>4, <2>1 DEF CoreInv, KeyInv, AutoRecorded
<1>. QED
  BY <1>1, <1>3, <1>4 DEF CoreInv, TickAttempt

(* A document of the tick's attempt in another state.                      *)
LEMMA AttemptTyped ==
    ASSUME CoreInv, NEW state \in AutoStates
    PROVE  /\ [tick.doc EXCEPT !.state = state] \in AutoDocs
           /\ [tick.doc EXCEPT !.state = state].state = state
           /\ [tick.doc EXCEPT !.state = state].key = tick.doc.key
           /\ [tick.doc EXCEPT !.state = state].acct = tick.doc.acct
           /\ [tick.doc EXCEPT !.state = state].window = tick.doc.window
BY DEF CoreInv, TypeInv, MonitorTyped, Ticks, AutoDocs

LEMMA Ends ==
    ASSUME CoreInv, Hold \/ Allow
    PROVE  tick' \in Ticks /\ LockInv' /\ TickAttempt' /\ TickRequest'
<1>1. tick' \in Ticks /\ tick'.pc \in {"idle", "rotate"}
  <2>1. CASE Hold
    BY <2>1, EmptyDocuments DEF Hold, IdleTick
  <2>2. CASE Allow
    <3>1. PICK before : before = IdleTick
      OBVIOUS
    <3>2. before \in Ticks /\ tick' = [before EXCEPT !.pc = "rotate"]
      BY <2>2, <3>1, EmptyDocuments DEF Allow
    <3>. QED
      BY <3>2 DEF Ticks, TickSteps
  <2>. QED
    BY <2>1, <2>2
<1>2. LockInv' /\ TickAttempt' /\ TickRequest'
  BY <1>1 DEF LockInv, TickLocked, TickAttempt, TickRequest, Unsettled, Answered
<1>. QED
  BY <1>1, <1>2

LEMMA TickClearKept == ASSUME CoreInv, TickClear PROVE CoreInv'
<1>1. CASE UNCHANGED auto
  BY <1>1, TickEndsKept DEF TickClear, Hold, Allow, registryVars, fileVars, CoreInv, TypeInv,
       ServiceTyped
<1>2. CASE auto' \in {Written(auto, NoAttempt)} \union FailedWrites(auto, NoAttempt)
  <2>1. AutoRecorded(NoAttempt)' /\ NoAttempt.key = 0
    BY DEF AutoRecorded, NoAttempt
  <2>2. UNCHANGED <<serviceVars, registryVars, manual, cmd, sent, learned>>
        /\ route' = route /\ tick.pc \in TickLocked /\ (Hold \/ Allow)
    BY DEF TickClear, keyVars, TickLocked
  <2>. QED
    BY <1>2, <2>1, <2>2, AutoRewritten, Ends, EmptyDocuments DEF CoreInv, TypeInv, MonitorTyped
<1>. QED
  BY <1>1, <1>2 DEF TickClear

LEMMA TickDesktopClosedKept == ASSUME CoreInv, TickDesktopClosed PROVE CoreInv'
<1>1. PICK doc \in AutoDocs :
          /\ doc = [tick.doc EXCEPT !.state = "waiting_for_desktop"]
          /\ doc.state = "waiting_for_desktop"
          /\ doc.key = tick.doc.key /\ doc.acct = tick.doc.acct
  BY AttemptTyped DEF AutoStates
<1>2. /\ auto' \in {Written(auto, doc)} \union FailedWrites(auto, doc)
      /\ UNCHANGED <<serviceVars, registryVars, manual, cmd, sent, learned>>
      /\ route' = [route EXCEPT ![tick.doc.key] = tick.acct]
      /\ Hold \/ Allow
      /\ tick.pc \in TickLocked /\ tick.pc \in Unsettled /\ ~tick.doubt
  BY <1>1 DEF TickDesktopClosed, TickLocked, Unsettled
<1>3. /\ route' \in [Keys -> Maybe(Accounts)]
      /\ \A j \in Keys : route[j] # None => route'[j] = route[j]
      /\ route'[tick.doc.key] = tick.acct
  BY <1>2, UnsettledKey, RouteRecorded
<1>4. AutoRecorded(doc)' /\ \A m \in manual.disk : doc.key = m.key => doc.key = 0
  BY <1>2, <1>1, <1>3, UnsettledKey DEF AutoRecorded
<1>. QED
  BY <1>2, <1>1, <1>3, <1>4, AutoRewritten, Ends

LEMMA TickMarkKept == ASSUME CoreInv, TickMark PROVE CoreInv'
<1>1. PICK doc \in AutoDocs :
          /\ doc = [tick.doc EXCEPT !.state = "pending"]
          /\ doc.state = "pending" /\ doc.window = tick.doc.window
          /\ doc.key = tick.doc.key /\ doc.acct = tick.doc.acct
  BY AttemptTyped DEF AutoStates
<1>2. /\ \/ auto' = Written(auto, doc) /\ tick' = [tick EXCEPT !.pc = "send", !.doc = doc]
         \/ auto' \in FailedWrites(auto, doc)
            /\ tick' = [tick EXCEPT !.pc = "withdraw", !.doc = doc]
      /\ UNCHANGED <<serviceVars, registryVars, manual, cmd, sent, learned>>
      /\ route' = [route EXCEPT ![tick.doc.key] = tick.acct]
      /\ tick.pc = "mark" /\ tick.pc \in TickLocked /\ tick.pc \in Unsettled /\ ~tick.doubt
  BY <1>1 DEF TickMark, TickLocked, Unsettled, CoreInv, TickAttempt
<1>3. /\ route' \in [Keys -> Maybe(Accounts)]
      /\ \A j \in Keys : route[j] # None => route'[j] = route[j]
      /\ route'[tick.doc.key] = tick.acct
  BY <1>2, UnsettledKey, RouteRecorded
<1>4. AutoRecorded(doc)' /\ \A m \in manual.disk : doc.key = m.key => doc.key = 0
  BY <1>2, <1>1, <1>3, UnsettledKey DEF AutoRecorded
<1>5. /\ tick' \in Ticks /\ tick'.pc \in {"send", "withdraw"} /\ tick'.doc = doc
      /\ tick'.acct = tick.acct /\ tick'.window = tick.window /\ ~tick'.doubt
      /\ tick'.pc = "send" => auto' = Written(auto, doc)
  BY <1>2, <1>1 DEF CoreInv, TypeInv, MonitorTyped, Ticks, TickSteps, TickLocked
<1>6. SameEpisode(doc) /\ SameEpisode(tick.doc) /\ ~Unresolved(auto.now) /\ tick.acct \in Accounts
      /\ tick.doc.key \in Keys
  BY <1>2, <1>1 DEF CoreInv, TickAttempt, Unsettled, SameEpisode
<1>7. auto'.now \in {auto.now, doc} /\ (tick'.pc = "send" => auto'.now = doc /\ auto'.disk = {doc})
  BY <1>2, <1>1, <1>5, Rewritten, Flushed DEF CoreInv, TypeInv, MonitorTyped
<1>8. TickAttempt'
  BY <1>1, <1>5, <1>6 DEF TickAttempt, Unsettled, Answered, SameEpisode
<1>9. TickRequest'
  BY <1>1, <1>3, <1>5, <1>6, <1>7 DEF TickRequest, Answered, Unresolved
<1>10. LockInv'
  BY <1>2 DEF CoreInv, LockInv
<1>. QED
  BY <1>2, <1>1, <1>3, <1>4, <1>5, <1>8, <1>9, <1>10, AutoRewritten

LEMMA TickWithdrawKept == ASSUME CoreInv, TickWithdraw PROVE CoreInv'
<1>1. CASE UNCHANGED auto
  BY <1>1, TickEndsKept DEF TickWithdraw, registryVars, fileVars, CoreInv, TypeInv, ServiceTyped
<1>2. CASE auto.now = tick.doc /\ ~UNCHANGED auto
  <2>1. PICK doc \in AutoDocs :
            /\ doc = [tick.doc EXCEPT !.state = "journal_error"]
            /\ doc.state = "journal_error"
            /\ doc.key = tick.doc.key /\ doc.acct = tick.doc.acct
    BY AttemptTyped DEF AutoStates
  <2>2. /\ auto' \in {Written(auto, doc)} \union FailedWrites(auto, doc)
        /\ UNCHANGED <<serviceVars, registryVars, manual, cmd, sent, learned>>
        /\ route' = route /\ Hold
        /\ tick.pc \in TickLocked /\ tick.pc = "withdraw"
    BY <1>2, <2>1 DEF TickWithdraw, TickLocked, keyVars
  <2>3. tick.doc \in auto.disk /\ tick.doc.state = "pending"
    BY <1>2, <2>2 DEF CoreInv, TypeInv, MonitorTyped, Files, TickRequest
  <2>4. AutoRecorded(doc)' /\ \A m \in manual.disk : doc.key = m.key => doc.key = 0
    BY <2>2, <2>1, <2>3 DEF CoreInv, KeyInv, AutoRecorded
  <2>5. route' \in [Keys -> Maybe(Accounts)]
    BY <2>2 DEF CoreInv, TypeInv, MonitorTyped
  <2>. QED
    BY <2>2, <2>1, <2>4, <2>5, AutoRewritten, Ends
<1>. QED
  BY <1>1, <1>2 DEF TickWithdraw

(* The file of an answered attempt is written with what was answered.      *)
LEMMA AnswerWritten ==
    ASSUME CoreInv, tick.pc \in Answered,
           auto' \in {Written(auto, tick.doc)} \union FailedWrites(auto, tick.doc),
           UNCHANGED <<serviceVars, registryVars, manual, cmd, keyVars>>,
           \/ Hold \/ Allow
           \/ tick.pc = "applied" /\ (TickTo("settle") \/ TickTo("resettle"))
    PROVE  CoreInv'
<1>1. /\ tick.doc \in AutoDocs /\ tick.doc.state # "ready" /\ tick.doc.key = auto.now.key
      /\ SameEpisode(tick.doc) /\ tick.doc.key \in Keys /\ tick.acct \in Accounts
      /\ auto.now \in auto.disk /\ tick.pc \in TickLocked
  BY DEF CoreInv, TypeInv, MonitorTyped, Ticks, Files, TickAttempt, TickRequest, Answered,
       TickLocked
<1>2. AutoRecorded(auto.now) /\ auto.now.key # 0
  BY <1>1, Bounds DEF CoreInv, KeyInv, Keys
<1>3. tick.doc.acct = auto.now.acct
  BY DEF CoreInv, TickRequest
<1>4. PICK doc \in AutoDocs : doc = tick.doc
  BY <1>1
<1>5. AutoRecorded(doc)' /\ \A m \in manual.disk : doc.key # m.key
  BY <1>1, <1>2, <1>3, <1>4, ResetNoneAssumption
     DEF CoreInv, KeyInv, AutoRecorded, NoAttempt, keyVars
<1>6. auto'.now \in {auto.now, tick.doc}
  BY <1>1, Rewritten DEF CoreInv, TypeInv, MonitorTyped
<1>7. tick' \in Ticks /\ LockInv' /\ TickAttempt' /\ TickRequest'
  <2>1. CASE Hold \/ Allow
    BY <2>1, Ends
  <2>2. CASE tick.pc = "applied" /\ (TickTo("settle") \/ TickTo("resettle"))
    <3>1. /\ tick' \in Ticks /\ tick'.pc \in {"settle", "resettle"} /\ tick'.doc = tick.doc
          /\ tick'.acct = tick.acct /\ tick'.window = tick.window
      BY <2>2 DEF TickTo, CoreInv, TypeInv, MonitorTyped, Ticks, TickSteps, TickLocked
    <3>2. TickAttempt'
      BY <1>1, <3>1 DEF TickAttempt, Unsettled, Answered, SameEpisode
    <3>3. TickRequest'
      BY <1>1, <1>3, <1>6, <2>2, <3>1
         DEF CoreInv, TickRequest, Answered, serviceVars, keyVars
    <3>4. LockInv'
      BY <1>1 DEF CoreInv, LockInv
    <3>. QED
      BY <3>1, <3>2, <3>3, <3>4
  <2>. QED
    BY <2>1, <2>2
<1>. QED
  BY <1>1, <1>4, <1>7, <1>5, AutoRewritten DEF CoreInv, TypeInv, MonitorTyped, keyVars

LEMMA TickAnswerKept ==
    ASSUME CoreInv, TickRecord \/ TickApplied \/ TickSettle
    PROVE  CoreInv'
<1>1. CASE TickRecord
  BY <1>1, AnswerWritten DEF TickRecord, Answered
<1>2. CASE TickApplied
  BY <1>2, AnswerWritten DEF TickApplied, Answered
<1>3. CASE TickSettle /\ UNCHANGED auto
  BY <1>3, TickEndsKept DEF TickSettle, registryVars, fileVars, CoreInv, TypeInv, ServiceTyped
<1>4. CASE TickSettle /\ ~UNCHANGED auto
  BY <1>4, AnswerWritten DEF TickSettle, Answered
<1>. QED
  BY <1>1, <1>2, <1>3, <1>4

(* The request and its answer: the file stays as it is.                    *)
LEMMA TickSendKept == ASSUME CoreInv, TickSend PROVE CoreInv'
<1>1. /\ tick' \in Ticks /\ tick'.pc = "await" /\ tick'.doc = tick.doc
      /\ tick'.acct = tick.acct /\ tick'.window = tick.window /\ tick.pc = "send"
  BY DEF TickSend, TickTo, CoreInv, TypeInv, MonitorTyped, Ticks, TickSteps, TickLocked
<1>2. /\ SameEpisode(tick.doc) /\ tick.doc.key \in Keys /\ tick.acct \in Accounts
      /\ tick.doc = auto.now /\ Unresolved(tick.doc) /\ auto.now \in auto.disk
  BY <1>1 DEF CoreInv, TypeInv, MonitorTyped, Files, TickAttempt, TickRequest
<1>3. route[tick.doc.key] # None
  BY <1>2, ResetNoneAssumption DEF CoreInv, KeyInv, AutoRecorded, Unresolved
<1>4. TypeInv'
  BY <1>1, <1>2 DEF TickSend, CoreInv, TypeInv, ServiceTyped, MonitorTyped, registryVars, fileVars
<1>5. KeyInv'
  BY <1>2, <1>3 DEF TickSend, CoreInv, KeyInv, AutoRecorded, ManualRecorded, fileVars
<1>6. TickAttempt'
  BY <1>1, <1>2 DEF TickSend, TickAttempt, Unsettled, Answered, SameEpisode, fileVars
<1>7. TickRequest'
  BY <1>1, <1>2 DEF TickSend, TickRequest, Answered, Unresolved, fileVars
<1>8. LockInv' /\ CmdAttempt' /\ CmdRequest'
  BY <1>1 DEF TickSend, CoreInv, LockInv, TickLocked, CmdAttempt, CmdRequest
<1>. QED
  BY <1>4, <1>5, <1>6, <1>7, <1>8 DEF CoreInv

LEMMA TickReceiveKept == ASSUME CoreInv, TickReceive \/ TickTimeout PROVE CoreInv'
<1>1. /\ SameEpisode(tick.doc) /\ tick.doc.key \in Keys /\ tick.acct \in Accounts
      /\ tick.doc = auto.now /\ Unresolved(tick.doc) /\ tick.doc.key \in sent
      /\ tick.pc = "await"
  BY DEF TickReceive, TickTimeout, CoreInv, TickAttempt, TickRequest
<1>2. /\ tick' \in Ticks /\ tick'.acct = tick.acct /\ tick'.window = tick.window
      /\ tick'.doc.key = tick.doc.key /\ tick'.doc.acct = tick.doc.acct
      /\ tick'.doc.window = tick.doc.window
      /\ \/ tick'.pc = "record" /\ tick'.doc.state = "unknown" /\ learned' = learned
         \/ /\ tick'.pc = "record" /\ tick'.doc.state = "not_consumed"
            /\ learned' = learned \union {tick.doc.key}
            /\ decided[tick.doc.key] = "refused"
         \/ /\ tick'.pc = "applied" /\ tick'.doc.state = "applied"
            /\ learned' = learned \union {tick.doc.key}
            /\ decided[tick.doc.key] = "redeemed"
  <2>1. CASE TickTimeout
    BY <2>1 DEF TickTimeout, CoreInv, TypeInv, MonitorTyped, Ticks, TickSteps, TickLocked,
         AutoDocs, AutoStates, keyVars
  <2>2. CASE TickReceive /\ decided[tick.doc.key] = "redeemed"
    BY <2>2 DEF TickReceive, CoreInv, TypeInv, MonitorTyped, Ticks, TickSteps, TickLocked,
         AutoDocs, AutoStates
  <2>3. CASE TickReceive /\ decided[tick.doc.key] # "redeemed"
    <3>1. decided[tick.doc.key] = "refused"
      BY <1>1, <2>3 DEF TickReceive, CoreInv, TypeInv, ServiceTyped
    <3>. QED
      BY <2>3, <3>1 DEF TickReceive, CoreInv, TypeInv, MonitorTyped, Ticks, TickSteps, TickLocked,
           AutoDocs, AutoStates
  <2>. QED
    BY <2>1, <2>2, <2>3
<1>3. UNCHANGED <<serviceVars, registryVars, fileVars, cmd, route, sent>>
  BY DEF TickReceive, TickTimeout, keyVars
<1>4. TypeInv'
  BY <1>1, <1>2, <1>3 DEF CoreInv, TypeInv, ServiceTyped, MonitorTyped, serviceVars, registryVars,
       fileVars
<1>5. KeyInv'
  BY <1>1, <1>2, <1>3 DEF CoreInv, KeyInv, AutoRecorded, ManualRecorded, fileVars, serviceVars
<1>6. TickAttempt'
  BY <1>1, <1>2, <1>3 DEF TickAttempt, Unsettled, Answered, SameEpisode
<1>7. TickRequest'
  BY <1>1, <1>2, <1>3 DEF TickRequest, Answered, fileVars, serviceVars
<1>8. LockInv' /\ CmdAttempt' /\ CmdRequest'
  BY <1>1, <1>3 DEF CoreInv, LockInv, TickLocked, CmdAttempt, CmdRequest
<1>. QED
  BY <1>4, <1>5, <1>6, <1>7, <1>8 DEF CoreInv

-----------------------------------------------------------------------------
(* Steps of the command                                                    *)

(* While the command runs, the tick is outside the lock.                   *)
LEMMA TickOutside ==
    ASSUME CoreInv, tick.pc \notin TickLocked, UNCHANGED tick,
           UNCHANGED auto \/ ~Unresolved(auto'.now)
    PROVE  LockInv' /\ TickAttempt' /\ TickRequest'
BY DEF CoreInv, LockInv, TickAttempt, TickRequest, TickLocked, Unsettled, Answered

(* A step of the command that writes no file.                              *)
LEMMA CmdOnly ==
    ASSUME CoreInv, tick.pc \notin TickLocked,
           UNCHANGED <<serviceVars, active, fileVars, tick, keyVars>>,
           cache' \in [Accounts -> Usage],
           cmd' \in Cmds, CmdAttempt', CmdRequest'
    PROVE  CoreInv'
<1>1. TypeInv' /\ KeyInv'
  BY DEF CoreInv, TypeInv, ServiceTyped, MonitorTyped, KeyInv, AutoRecorded, ManualRecorded,
       serviceVars, fileVars, keyVars
<1>. QED
  BY <1>1, TickOutside DEF CoreInv, fileVars

(* The command replaces its file.                                          *)
LEMMA ManualRewritten ==
    ASSUME CoreInv, cmd.pc # "idle",
           UNCHANGED <<serviceVars, registryVars, auto, tick, sent, learned>>,
           NEW m \in ManualDocs,
           manual' \in {Written(manual, m)} \union FailedWrites(manual, m),
           ManualRecorded(m)',
           \A d \in auto.disk : d.key = m.key => d.key = 0,
           route' \in [Keys -> Maybe(Accounts)],
           \A k \in Keys : route[k] # None => route'[k] = route[k],
           cmd' \in Cmds, CmdAttempt', CmdRequest'
    PROVE  CoreInv'
<1>1. manual' \in Files(ManualDocs) /\ manual'.disk \subseteq manual.disk \union {m}
  BY Rewritten DEF CoreInv, TypeInv, MonitorTyped
<1>2. TypeInv'
  BY <1>1 DEF CoreInv, TypeInv, ServiceTyped, MonitorTyped, serviceVars, registryVars
<1>3. KeyInv'
  <2>1. \A k \in (sent \union learned)' : route'[k] # None
    BY DEF CoreInv, TypeInv, MonitorTyped, KeyInv
  <2>2. \A k \in Keys : k \in inflight' \/ decided'[k] # "open" => k \in sent'
    BY DEF CoreInv, KeyInv, serviceVars
  <2>3. \A e \in auto'.disk : AutoRecorded(e)'
    <3>1. ASSUME NEW e \in auto.disk PROVE AutoRecorded(e)'
      <4>1. AutoRecorded(e)
        BY DEF CoreInv, KeyInv
      <4>. QED
        BY <4>1, ResetNoneAssumption DEF AutoRecorded
    <3>. QED
      BY <3>1
  <2>4. \A n \in manual'.disk : ManualRecorded(n)'
    <3>1. ASSUME NEW n \in manual.disk PROVE ManualRecorded(n)'
      <4>1. ManualRecorded(n)
        BY DEF CoreInv, KeyInv
      <4>. QED
        BY <4>1, ResetNoneAssumption DEF ManualRecorded
    <3>. QED
      BY <1>1, <3>1
  <2>5. \A e \in auto'.disk, n \in manual'.disk : e.key = n.key => e.key = 0
    BY <1>1 DEF CoreInv, KeyInv
  <2>. QED
    BY <2>1, <2>2, <2>3, <2>4, <2>5 DEF KeyInv
<1>4. LockInv' /\ TickAttempt' /\ TickRequest'
  BY TickOutside DEF CoreInv, LockInv
<1>. QED
  BY <1>2, <1>3, <1>4 DEF CoreInv

LEMMA CmdEndsTyped ==
    ASSUME cmd' = IdleCmd
    PROVE  cmd' \in Cmds /\ CmdAttempt' /\ CmdRequest'
BY EmptyDocuments DEF IdleCmd, CmdAttempt, CmdRequest

LEMMA CmdStartKept ==
    ASSUME CoreInv, NEW a \in Accounts, CmdStart(a)
    PROVE  CoreInv'
<1>1. NextKey \in FreshKeys /\ NextKey \in Keys
  BY NextKeyFresh DEF CmdStart, FreshKeys
<1>2. PICK doc : doc = [state |-> "pending", key |-> NextKey, acct |-> a]
  OBVIOUS
<1>3. doc \in ManualDocs /\ doc.key = NextKey /\ doc.acct = a /\ doc.state = "pending"
  BY <1>1, <1>2, Bounds DEF ManualDocs, ManualStates, Keys
<1>4. PICK before : before = cache[a].credits
  OBVIOUS
<1>5. before \in 0..MaxCredits /\ before > 0
  BY <1>4 DEF CmdStart, CoreInv, TypeInv, ServiceTyped, Usage
<1>6. cmd' = [pc |-> "record", before |-> before, doc |-> doc]
  BY <1>2, <1>4 DEF CmdStart
<1>7. cmd' \in Cmds /\ cmd'.pc = "record" /\ cmd'.before = before /\ cmd'.doc = doc
  BY <1>3, <1>5, <1>6 DEF Cmds, CmdSteps
<1>8. \A d \in auto.disk : d.key # NextKey
  <2>1. 0 \notin Keys
    BY Bounds DEF Keys
  <2>. QED
    BY <1>1, <2>1, ResetNoneAssumption
       DEF CoreInv, KeyInv, AutoRecorded, NoAttempt, FreshKeys
<1>9. CmdAttempt' /\ CmdRequest'
  BY <1>1, <1>3, <1>5, <1>7, <1>8
     DEF CmdStart, CmdAttempt, CmdRequest, ManualUnresolved, FreshKeys, fileVars, keyVars
<1>. QED
  BY <1>7, <1>9, CmdOnly DEF CmdStart, LockFree, registryVars, CoreInv, TypeInv, ServiceTyped

(* What the command holds while it runs.                                   *)
LEMMA Attempted ==
    ASSUME CoreInv, cmd.pc # "idle"
    PROVE  /\ tick.pc \notin TickLocked
           /\ cmd.doc \in ManualDocs /\ cmd.doc.key \in Keys /\ cmd.doc.key # 0
           /\ cmd.doc.acct \in Accounts
           /\ \A d \in auto.disk : d.key # cmd.doc.key
BY Bounds DEF CoreInv, LockInv, TypeInv, MonitorTyped, Cmds, CmdAttempt, Keys

LEMMA CmdRecordKept == ASSUME CoreInv, CmdRecord PROVE CoreInv'
<1>1. PICK doc \in ManualDocs : doc = cmd.doc
  BY DEF CoreInv, TypeInv, MonitorTyped, Cmds
<1>2. /\ \/ manual' = Written(manual, doc) /\ CmdTo("confirm")
         \/ manual' \in FailedWrites(manual, doc) /\ CmdTo("withdraw")
      /\ UNCHANGED <<serviceVars, registryVars, auto, tick, sent, learned>>
      /\ route' = [route EXCEPT ![doc.key] = doc.acct] /\ cmd.pc = "record"
  BY <1>1 DEF CmdRecord
<1>3. /\ cmd' \in Cmds /\ cmd'.doc = doc /\ cmd'.before = cmd.before
      /\ cmd'.pc \in {"confirm", "withdraw"}
      /\ cmd'.pc = "confirm" => manual' = Written(manual, doc)
  BY <1>1, <1>2 DEF CmdTo, CoreInv, TypeInv, MonitorTyped, Cmds, CmdSteps
<1>4. /\ doc.key \in FreshKeys /\ doc.key \in Keys /\ doc.key # 0 /\ doc.acct \in Accounts
      /\ \A d \in auto.disk : d.key # doc.key
      /\ doc.state = "pending" /\ manual.now.state = "resolved" /\ cmd.before > 0
  BY <1>1, <1>2, Attempted DEF CoreInv, CmdAttempt
<1>5. doc.key \notin sent
  BY <1>4 DEF CoreInv, KeyInv, FreshKeys
<1>6. /\ route' \in [Keys -> Maybe(Accounts)]
      /\ \A j \in Keys : route[j] # None => route'[j] = route[j]
      /\ route'[doc.key] = doc.acct
  BY <1>2, <1>4, RouteRecorded DEF FreshKeys
<1>7. manual'.now \in {manual.now, doc}
      /\ (cmd'.pc = "confirm" => manual'.now = doc /\ manual'.disk = {doc})
  BY <1>2, <1>3, Rewritten, Flushed DEF CoreInv, TypeInv, MonitorTyped
<1>8. CmdAttempt' /\ CmdRequest'
  BY <1>2, <1>3, <1>4, <1>5, <1>6, <1>7 DEF CmdAttempt, CmdRequest
<1>9. ManualRecorded(doc)'
  BY <1>4, <1>6 DEF ManualRecorded
<1>. QED
  BY <1>2, <1>3, <1>4, <1>6, <1>8, <1>9, ManualRewritten

LEMMA CmdConfirmKept == ASSUME CoreInv, CmdConfirm PROVE CoreInv'
<1>1. /\ cmd' \in Cmds /\ cmd'.doc = cmd.doc /\ cmd'.before = cmd.before
      /\ cmd'.pc \in {"send", "withdraw"}
  BY DEF CmdConfirm, CmdTo, CoreInv, TypeInv, MonitorTyped, Cmds, CmdSteps
<1>2. CmdAttempt' /\ CmdRequest'
  BY <1>1 DEF CmdConfirm, CoreInv, CmdAttempt, CmdRequest, fileVars, keyVars
<1>. QED
  BY <1>1, <1>2, CmdOnly, Attempted
     DEF CmdConfirm, registryVars, CoreInv, TypeInv, ServiceTyped

LEMMA CmdWithdrawKept == ASSUME CoreInv, CmdWithdraw PROVE CoreInv'
<1>1. cmd' \in Cmds /\ CmdAttempt' /\ CmdRequest'
  BY CmdEndsTyped DEF CmdWithdraw
<1>2. CASE UNCHANGED manual
  BY <1>1, <1>2, CmdOnly, Attempted
     DEF CmdWithdraw, registryVars, fileVars, CoreInv, TypeInv, ServiceTyped
<1>3. CASE manual.now = cmd.doc /\ ~UNCHANGED manual
  <2>1. PICK doc : doc = [cmd.doc EXCEPT !.state = "resolved"]
    OBVIOUS
  <2>2. doc \in ManualDocs /\ doc.key = cmd.doc.key /\ doc.acct = cmd.doc.acct
    BY <2>1, Attempted DEF CmdWithdraw, ManualDocs, ManualStates
  <2>3. /\ manual' \in {Written(manual, doc)} \union FailedWrites(manual, doc)
        /\ UNCHANGED <<serviceVars, registryVars, auto, tick, keyVars>> /\ cmd.pc = "withdraw"
    BY <1>3, <2>1 DEF CmdWithdraw
  <2>4. ManualRecorded(doc)'
    BY <2>2, <2>3, Attempted DEF ManualRecorded, CoreInv, CmdAttempt, keyVars
  <2>. QED
    BY <1>1, <2>2, <2>3, <2>4, Attempted, ManualRewritten
       DEF CoreInv, TypeInv, MonitorTyped, keyVars
<1>. QED
  BY <1>2, <1>3 DEF CmdWithdraw

LEMMA CmdSendKept == ASSUME CoreInv, CmdSend PROVE CoreInv'
<1>1. /\ cmd' \in Cmds /\ cmd'.doc = cmd.doc /\ cmd'.before = cmd.before
      /\ cmd'.pc = "await" /\ cmd.pc = "send"
  BY DEF CmdSend, CmdTo, CoreInv, TypeInv, MonitorTyped, Cmds, CmdSteps
<1>2. route[cmd.doc.key] # None
  BY <1>1, Attempted, ResetNoneAssumption DEF CoreInv, CmdAttempt
<1>3. TypeInv'
  BY <1>1, Attempted
     DEF CmdSend, CoreInv, TypeInv, ServiceTyped, MonitorTyped, registryVars, fileVars
<1>4. KeyInv'
  BY <1>1, <1>2, Attempted DEF CmdSend, CoreInv, KeyInv, AutoRecorded, ManualRecorded, fileVars
<1>5. LockInv' /\ TickAttempt' /\ TickRequest'
  BY <1>1, TickOutside, Attempted DEF CmdSend, fileVars
<1>6. CmdAttempt' /\ CmdRequest'
  BY <1>1 DEF CmdSend, CoreInv, CmdAttempt, CmdRequest, fileVars
<1>. QED
  BY <1>3, <1>4, <1>5, <1>6 DEF CoreInv

LEMMA CmdReceiveKept == ASSUME CoreInv, CmdReceive \/ CmdTimeout PROVE CoreInv'
<1>1. /\ cmd.pc = "await"
      /\ UNCHANGED <<serviceVars, registryVars, fileVars, tick, route, sent>>
  BY DEF CmdReceive, CmdTimeout, keyVars
<1>2. /\ cmd' \in Cmds /\ cmd'.before = cmd.before
      /\ cmd'.doc.key = cmd.doc.key /\ cmd'.doc.acct = cmd.doc.acct
      /\ \/ cmd'.pc = "finish" /\ cmd'.doc.state = "unknown" /\ learned' = learned
         \/ /\ cmd'.pc = "finish" /\ cmd'.doc.state = "resolved"
            /\ learned' = learned \union {cmd.doc.key}
         \/ /\ cmd'.pc = "commit" /\ cmd'.doc = cmd.doc
            /\ learned' = learned \union {cmd.doc.key}
            /\ decided[cmd.doc.key] = "redeemed"
  <2>1. CASE CmdTimeout
    BY <2>1 DEF CmdTimeout, CoreInv, TypeInv, MonitorTyped, Cmds, CmdSteps, ManualDocs,
         ManualStates, keyVars
  <2>2. CASE CmdReceive /\ decided[cmd.doc.key] = "redeemed"
    BY <2>2 DEF CmdReceive, CoreInv, TypeInv, MonitorTyped, Cmds, CmdSteps
  <2>3. CASE CmdReceive /\ decided[cmd.doc.key] # "redeemed"
    BY <2>3 DEF CmdReceive, CoreInv, TypeInv, MonitorTyped, Cmds, CmdSteps, ManualDocs,
         ManualStates
  <2>. QED
    BY <2>1, <2>2, <2>3
<1>3. /\ manual.now = cmd.doc /\ manual.disk = {cmd.doc} /\ cmd.doc.state = "pending"
      /\ cmd.doc.key \in sent /\ route[cmd.doc.key] # None
  BY <1>1, Attempted, ResetNoneAssumption DEF CoreInv, CmdAttempt, CmdRequest
<1>4. TypeInv'
  BY <1>1, <1>2, Attempted DEF CoreInv, TypeInv, ServiceTyped, MonitorTyped, serviceVars,
       registryVars, fileVars
<1>5. KeyInv'
  BY <1>1, <1>2, <1>3 DEF CoreInv, KeyInv, AutoRecorded, ManualRecorded, fileVars, serviceVars
<1>6. LockInv' /\ TickAttempt' /\ TickRequest'
  BY <1>1, TickOutside, Attempted DEF fileVars
<1>7. CmdAttempt' /\ CmdRequest'
  BY <1>1, <1>2, <1>3 DEF CoreInv, CmdAttempt, CmdRequest, fileVars, serviceVars
<1>. QED
  BY <1>4, <1>5, <1>6, <1>7 DEF CoreInv

LEMMA CommitEffect ==
    ASSUME CoreInv, CmdCommit
    PROVE  /\ cmd.pc = "commit" /\ UNCHANGED <<serviceVars, active, fileVars, tick, keyVars>>
           /\ cmd' \in Cmds /\ cmd'.pc = "finish" /\ cmd'.before = cmd.before
           /\ cmd'.doc.key = cmd.doc.key /\ cmd'.doc.acct = cmd.doc.acct
           /\ cmd'.doc.state \in {"resolved", "applied_uncertain"}
<1>1. CASE cmd' = [cmd EXCEPT !.pc = "finish", !.doc.state = "resolved"]
  BY <1>1 DEF CmdCommit, CoreInv, TypeInv, MonitorTyped, Cmds, CmdSteps, ManualDocs, ManualStates
<1>2. CASE cmd' = [cmd EXCEPT !.pc = "finish", !.doc.state = "applied_uncertain"]
  BY <1>2 DEF CmdCommit, CoreInv, TypeInv, MonitorTyped, Cmds, CmdSteps, ManualDocs, ManualStates
<1>. QED
  BY <1>1, <1>2 DEF CmdCommit

LEMMA CmdCommitKept == ASSUME CoreInv, CmdCommit PROVE CoreInv'
<1>1. /\ cmd.pc = "commit" /\ UNCHANGED <<serviceVars, active, fileVars, tick, keyVars>>
      /\ cmd' \in Cmds /\ cmd'.pc = "finish" /\ cmd'.before = cmd.before
      /\ cmd'.doc.key = cmd.doc.key /\ cmd'.doc.acct = cmd.doc.acct
      /\ cmd'.doc.state \in {"resolved", "applied_uncertain"}
  BY CommitEffect
<1>2. cache' \in [Accounts -> Usage]
  <2>1. cmd.before \in 0..MaxCredits /\ cmd.before > 0
    BY <1>1 DEF CoreInv, TypeInv, MonitorTyped, Cmds, CmdAttempt
  <2>2. cmd.before - 1 \in 0..MaxCredits
    BY <2>1, Bounds
  <2>. QED
    BY <2>2 DEF CmdCommit, CoreInv, TypeInv, ServiceTyped, Usage
<1>3. CmdAttempt' /\ CmdRequest'
  BY <1>1 DEF CoreInv, CmdAttempt, CmdRequest, fileVars, keyVars, serviceVars
<1>. QED
  BY <1>1, <1>2, <1>3, CmdOnly, Attempted

LEMMA CmdFinishKept == ASSUME CoreInv, CmdFinish PROVE CoreInv'
<1>1. PICK doc \in ManualDocs : doc = cmd.doc
  BY DEF CoreInv, TypeInv, MonitorTyped, Cmds
<1>2. /\ manual' \in {Written(manual, doc)} \union FailedWrites(manual, doc)
      /\ UNCHANGED <<serviceVars, registryVars, auto, tick, keyVars>>
      /\ cmd.pc = "finish" /\ cmd' = IdleCmd
  BY <1>1 DEF CmdFinish
<1>3. ManualRecorded(doc)'
  BY <1>1, <1>2, Attempted DEF ManualRecorded, CoreInv, CmdAttempt, keyVars
<1>. QED
  BY <1>1, <1>2, <1>3, CmdEndsTyped, Attempted, ManualRewritten
     DEF CoreInv, TypeInv, MonitorTyped, keyVars

-----------------------------------------------------------------------------
(* Everybody else                                                          *)

(* The service and other processes change quotas and decisions, never the  *)
(* files; a decision is made once, for a request that was sent.            *)
LEMMA ServiceStep ==
    ASSUME CoreInv, UNCHANGED <<fileVars, tick, cmd, keyVars>>, ServiceTyped',
           \A k \in Keys : decided[k] # "open" => decided'[k] = decided[k],
           \A k \in Keys : decided'[k] # decided[k] => k \in inflight,
           inflight' \subseteq inflight
    PROVE  CoreInv'
<1>1. TypeInv'
  BY DEF CoreInv, TypeInv, MonitorTyped, fileVars, keyVars
<1>2. KeyInv'
  BY DEF CoreInv, TypeInv, ServiceTyped, KeyInv, AutoRecorded, ManualRecorded, fileVars, keyVars
<1>3. LockInv' /\ TickAttempt' /\ TickRequest'
  BY DEF CoreInv, LockInv, TickAttempt, TickRequest, SameEpisode, Unresolved, FreshKeys, fileVars,
       keyVars, Unsettled, Answered
<1>4. CmdAttempt' /\ CmdRequest'
  BY DEF CoreInv, CmdAttempt, CmdRequest, FreshKeys, fileVars, keyVars
<1>. QED
  BY <1>1, <1>2, <1>3, <1>4 DEF CoreInv

LEMMA DecideEffect ==
    ASSUME CoreInv, NEW k \in Keys, Decide(k)
    PROVE  /\ ServiceTyped'
           /\ \A j \in Keys : decided[j] # "open" => decided'[j] = decided[j]
           /\ \A j \in Keys : decided'[j] # decided[j] => j \in inflight
           /\ inflight' = inflight \ {k} /\ k \in inflight
           /\ UNCHANGED <<registryVars, fileVars, tick, cmd, keyVars>>
           /\ route[k] \in Accounts
           /\ \A a \in Accounts : quota'[a].credits <= quota[a].credits
           /\ decided'[k] = "redeemed" /\ decided[k] # "redeemed" =>
                 quota'[route[k]].credits < quota[route[k]].credits
<1>. DEFINE redeems == decided[k] = "open" /\ quota[route[k]].exhausted
                          /\ quota[route[k]].credits > 0
<1>1. k \in inflight /\ inflight' = inflight \ {k}
      /\ UNCHANGED <<registryVars, fileVars, tick, cmd, keyVars>>
  BY DEF Decide
<1>2. route[k] \in Accounts
  BY <1>1, ResetNoneAssumption DEF CoreInv, TypeInv, MonitorTyped, KeyInv, Maybe
<1>3. PICK u \in Usage : u = quota[route[k]]
  BY <1>2 DEF CoreInv, TypeInv, ServiceTyped
<1>4. \A a \in Accounts : quota[a].credits \in 0..MaxCredits
  BY DEF CoreInv, TypeInv, ServiceTyped, Usage
<1>5. CASE redeems
  <2>1. /\ decided' = [decided EXCEPT ![k] = "redeemed"]
        /\ quota' = [quota EXCEPT ![route[k]] = [u EXCEPT !.exhausted = FALSE, !.credits = @ - 1]]
    BY <1>3, <1>5 DEF Decide
  <2>2. [u EXCEPT !.exhausted = FALSE, !.credits = @ - 1] \in Usage
        /\ [u EXCEPT !.exhausted = FALSE, !.credits = @ - 1].credits = u.credits - 1
    <3>1. u.credits - 1 \in 0..MaxCredits
      BY <1>3, <1>5, Bounds DEF Usage
    <3>. QED
      BY <3>1 DEF Usage
  <2>3. ServiceTyped'
    BY <1>1, <1>2, <2>1, <2>2 DEF CoreInv, TypeInv, ServiceTyped, registryVars
  <2>4. \A a \in Accounts : quota'[a].credits =
           IF a = route[k] THEN quota[a].credits - 1 ELSE quota[a].credits
    BY <1>2, <1>3, <2>1, <2>2 DEF CoreInv, TypeInv, ServiceTyped
  <2>5. /\ \A j \in Keys : decided[j] # "open" => decided'[j] = decided[j]
        /\ \A j \in Keys : decided'[j] # decided[j] => j \in inflight
    BY <1>1, <1>5, <2>1 DEF CoreInv, TypeInv, ServiceTyped
  <2>. QED
    BY <1>1, <1>2, <1>4, <2>3, <2>4, <2>5
<1>6. CASE ~redeems
  <2>1. /\ decided' = [decided EXCEPT ![k] = IF decided[k] = "open" THEN "refused"
                                             ELSE decided[k]]
        /\ quota' = quota
    BY <1>6 DEF Decide
  <2>. QED
    BY <1>1, <1>2, <1>4, <2>1 DEF CoreInv, TypeInv, ServiceTyped, registryVars
<1>. QED
  BY <1>5, <1>6

LEMMA OutsiderKept ==
    ASSUME CoreInv,
           \/ \E k \in Keys : Decide(k) \/ Drop(k)
           \/ \E a \in Accounts : Exhaust(a) \/ WeeklyReset(a) \/ Refresh(a) \/ SwitchActive(a)
    PROVE  CoreInv'
<1>1. ASSUME NEW k \in Keys, Decide(k) PROVE CoreInv'
  BY <1>1, DecideEffect, ServiceStep
<1>2. ASSUME NEW k \in Keys, Drop(k) PROVE CoreInv'
  BY <1>2, ServiceStep DEF Drop, CoreInv, TypeInv, ServiceTyped, registryVars
<1>3. ASSUME NEW a \in Accounts, Exhaust(a) PROVE CoreInv'
  <2>1. ServiceTyped'
    BY <1>3 DEF Exhaust, CoreInv, TypeInv, ServiceTyped, registryVars, Usage
  <2>. QED
    BY <1>3, <2>1, ServiceStep DEF Exhaust
<1>4. ASSUME NEW a \in Accounts, WeeklyReset(a) PROVE CoreInv'
  <2>1. quota[a] \in Usage /\ quota[a].window + 1 \in 1..MaxWindow
    BY <1>4, Bounds DEF WeeklyReset, CoreInv, TypeInv, ServiceTyped, Usage
  <2>2. ServiceTyped'
    BY <1>4, <2>1 DEF WeeklyReset, CoreInv, TypeInv, ServiceTyped, registryVars, Usage
  <2>. QED
    BY <1>4, <2>2, ServiceStep DEF WeeklyReset
<1>5. ASSUME NEW a \in Accounts, Refresh(a) \/ SwitchActive(a) PROVE CoreInv'
  <2>1. ServiceTyped'
    BY <1>5 DEF Refresh, SwitchActive, CoreInv, TypeInv, ServiceTyped, serviceVars
  <2>. QED
    BY <1>5, <2>1, ServiceStep DEF Refresh, SwitchActive, serviceVars
<1>. QED
  BY <1>1, <1>2, <1>3, <1>4, <1>5

(* The user settles an attempt while nobody holds the lock.                *)
LEMMA SettleKept == ASSUME CoreInv, SettleAuto \/ SettleManual PROVE CoreInv'
<1>1. /\ tick.pc \notin TickLocked /\ cmd.pc = "idle"
      /\ UNCHANGED <<serviceVars, registryVars, tick, cmd, route, sent>>
  BY DEF SettleAuto, SettleManual, LockFree
<1>2. 0 \notin Keys /\ auto.now \in auto.disk /\ manual.now \in manual.disk
  BY Bounds DEF Keys, CoreInv, TypeInv, MonitorTyped, Files
<1>3. LockInv' /\ TickAttempt' /\ TickRequest' /\ CmdAttempt' /\ CmdRequest'
  <2>1. UNCHANGED auto \/ ~Unresolved(auto'.now)
    BY Flushed DEF SettleAuto, SettleManual, Unresolved, NoAttempt
  <2>. QED
    BY <1>1, <2>1, TickOutside DEF CmdAttempt, CmdRequest
<1>4. CASE SettleAuto
  <2>1. auto.now.key \in Keys /\ route[auto.now.key] # None
    BY <1>2, <1>4, ResetNoneAssumption DEF SettleAuto, Unresolved, CoreInv, KeyInv, AutoRecorded
  <2>2. auto' \in Files(AutoDocs) /\ auto'.now = NoAttempt /\ auto'.disk = {NoAttempt}
    BY <1>4, Rewritten, Flushed, EmptyDocuments DEF SettleAuto, CoreInv, TypeInv, MonitorTyped
  <2>3. TypeInv'
    BY <1>1, <1>4, <2>1, <2>2 DEF SettleAuto, CoreInv, TypeInv, ServiceTyped, MonitorTyped,
         serviceVars, registryVars
  <2>4. KeyInv'
    BY <1>1, <1>4, <2>1, <2>2 DEF SettleAuto, CoreInv, KeyInv, AutoRecorded, ManualRecorded,
         NoAttempt, serviceVars
  <2>. QED
    BY <1>3, <2>3, <2>4 DEF CoreInv
<1>5. CASE SettleManual
  <2>1. manual.now.key \in Keys /\ route[manual.now.key] # None
    BY <1>2, <1>5, ResetNoneAssumption
       DEF SettleManual, ManualUnresolved, NoManual, CoreInv, KeyInv, ManualRecorded
  <2>2. manual' \in Files(ManualDocs) /\ manual'.now = NoManual /\ manual'.disk = {NoManual}
    BY <1>5, Rewritten, Flushed, EmptyDocuments DEF SettleManual, CoreInv, TypeInv, MonitorTyped
  <2>3. TypeInv'
    BY <1>1, <1>5, <2>1, <2>2 DEF SettleManual, CoreInv, TypeInv, ServiceTyped, MonitorTyped,
         serviceVars, registryVars
  <2>4. KeyInv'
    BY <1>1, <1>5, <2>1, <2>2 DEF SettleManual, CoreInv, KeyInv, AutoRecorded, ManualRecorded,
         NoManual, serviceVars
  <2>. QED
    BY <1>3, <2>3, <2>4 DEF CoreInv
<1>. QED
  BY <1>4, <1>5

LEMMA StopsKept == ASSUME CoreInv, CmdCrash \/ PowerOff PROVE CoreInv'
<1>1. CASE CmdCrash
  BY <1>1, CmdEndsTyped, CmdOnly, Attempted
     DEF CmdCrash, registryVars, CoreInv, TypeInv, ServiceTyped
<1>2. CASE PowerOff
  <2>1. auto' \in Files(AutoDocs) /\ auto'.disk \subseteq auto.disk
    BY <1>2 DEF PowerOff, Survives, CoreInv, TypeInv, MonitorTyped, Files
  <2>2. manual' \in Files(ManualDocs) /\ manual'.disk \subseteq manual.disk
    BY <1>2 DEF PowerOff, Survives, CoreInv, TypeInv, MonitorTyped, Files
  <2>3. tick'.pc = "idle" /\ cmd'.pc = "idle"
    BY <1>2 DEF PowerOff, IdleTick, IdleCmd
  <2>4. TypeInv'
    BY <1>2, <2>1, <2>2, EmptyDocuments DEF PowerOff, CoreInv, TypeInv, ServiceTyped, MonitorTyped,
         serviceVars, registryVars, keyVars
  <2>5. KeyInv'
    BY <1>2, <2>1, <2>2 DEF PowerOff, CoreInv, KeyInv, AutoRecorded, ManualRecorded, serviceVars,
         keyVars
  <2>6. LockInv' /\ TickAttempt' /\ TickRequest' /\ CmdAttempt' /\ CmdRequest'
    BY <2>3 DEF LockInv, TickLocked, TickAttempt, TickRequest, Unsettled, Answered, CmdAttempt,
         CmdRequest
  <2>. QED
    BY <2>4, <2>5, <2>6 DEF CoreInv
<1>. QED
  BY <1>1, <1>2

-----------------------------------------------------------------------------
(* The core invariant                                                      *)

LEMMA Initial == Init => CoreInv
<1>. SUFFICES ASSUME Init PROVE CoreInv
  OBVIOUS
<1>1. TypeInv
  <2>1. \A n \in 0..MaxCredits : [window |-> 1, exhausted |-> FALSE, credits |-> n] \in Usage
    BY Bounds DEF Usage
  <2>2. ServiceTyped
    BY <2>1 DEF Init, ServiceTyped
  <2>3. MonitorTyped
    BY EmptyDocuments DEF Init, MonitorTyped, Files, Maybe
  <2>. QED
    BY <2>2, <2>3 DEF TypeInv
<1>2. KeyInv
  BY DEF Init, KeyInv, AutoRecorded, ManualRecorded, NoAttempt, NoManual
<1>3. LockInv /\ TickAttempt /\ TickRequest /\ CmdAttempt /\ CmdRequest
  BY DEF Init, IdleTick, IdleCmd, LockInv, TickLocked, TickAttempt, TickRequest, Unsettled,
       Answered, CmdAttempt, CmdRequest
<1>. QED
  BY <1>1, <1>2, <1>3 DEF CoreInv

LEMMA Inductive == CoreInv /\ [Next]_vars => CoreInv'
<1>. SUFFICES ASSUME CoreInv, [Next]_vars PROVE CoreInv'
  OBVIOUS
<1>1. CASE TickPoll \/ TickProgress \/ TickCrash
  BY <1>1, TickReadsKept, TickClearKept, TickDesktopClosedKept, TickMarkKept, TickWithdrawKept,
     TickAnswerKept, TickSendKept, TickReceiveKept DEF TickProgress
<1>2. CASE \E a \in Accounts : CmdStart(a)
  BY <1>2, CmdStartKept
<1>3. CASE CmdProgress
  BY <1>3, CmdRecordKept, CmdConfirmKept, CmdWithdrawKept, CmdSendKept, CmdReceiveKept,
     CmdCommitKept, CmdFinishKept DEF CmdProgress
<1>4. CASE CmdCrash \/ PowerOff \/ Environment
  BY <1>4, StopsKept, SettleKept, OutsiderKept DEF Environment
<1>5. CASE UNCHANGED vars
  <2>1. UNCHANGED <<serviceVars, registryVars, fileVars, tick, cmd, keyVars>>
    BY <1>5 DEF vars
  <2>. QED
    BY <2>1, ServiceStep DEF CoreInv, TypeInv, ServiceTyped, serviceVars, registryVars
<1>. QED
  BY <1>1, <1>2, <1>3, <1>4, <1>5 DEF Next

LEMMA CoreAlways == Spec => []CoreInv
<1>. QED
  BY Initial, Inductive, PTL DEF Spec

(* The files hold what their formats allow and the programs are at one of  *)
(* their steps, whatever fails and whatever is lost.                       *)
THEOREM TypeCorrect == Spec => []TypeOK
<1>1. CoreInv => TypeOK
  BY DEF CoreInv, TypeInv, ServiceTyped, MonitorTyped, TypeOK, Files, Ticks, Cmds, Maybe
<1>. QED
  BY <1>1, CoreAlways, PTL

-----------------------------------------------------------------------------
(* Requests, and the files that outlive a power loss                       *)

(* Who changes what.                                                       *)
LEMMA Senders == ASSUME [Next]_vars PROVE sent' = sent \/ TickSend \/ CmdSend
<1>1. CASE TickPoll \/ TickProgress \/ TickCrash
  BY <1>1 DEF TickPoll, TickProgress, TickCrash, TickPersist, TickCheck, TickLockClear, TickClear,
     TickLock, TickUnblocked, TickAnchored, TickRefused, TickDesktopClosed, TickReady, TickMark,
     TickWithdraw, TickReceive, TickTimeout, TickRecord, TickApplied, TickSettle, TickFails,
     TickRotate, keyVars
<1>2. CASE (\E a \in Accounts : CmdStart(a)) \/ CmdProgress \/ CmdCrash
  BY <1>2 DEF CmdStart, CmdProgress, CmdCrash, CmdRecord, CmdConfirm, CmdWithdraw, CmdReceive,
     CmdTimeout, CmdCommit, CmdFinish, keyVars
<1>3. CASE PowerOff \/ Environment
  BY <1>3 DEF PowerOff, Environment, SettleAuto, SettleManual, Decide, Drop, Exhaust, WeeklyReset,
     Refresh, SwitchActive, keyVars
<1>. QED
  BY <1>1, <1>2, <1>3 DEF Next, vars, keyVars

LEMMA ManualWriters ==
    ASSUME [Next]_vars
    PROVE  \/ UNCHANGED manual
           \/ CmdRecord \/ CmdWithdraw \/ CmdFinish \/ SettleManual \/ PowerOff
<1>1. CASE TickPoll \/ TickProgress \/ TickCrash
  BY <1>1 DEF TickPoll, TickProgress, TickCrash, TickPersist, TickCheck, TickLockClear, TickClear,
     TickLock, TickUnblocked, TickAnchored, TickRefused, TickDesktopClosed, TickReady, TickMark,
     TickWithdraw, TickSend, TickReceive, TickTimeout, TickRecord, TickApplied, TickSettle,
     TickFails, TickRotate, fileVars
<1>2. CASE (\E a \in Accounts : CmdStart(a)) \/ CmdProgress \/ CmdCrash
  BY <1>2 DEF CmdStart, CmdProgress, CmdCrash, CmdConfirm, CmdSend, CmdReceive, CmdTimeout,
     CmdCommit, fileVars
<1>3. CASE Environment
  BY <1>3 DEF Environment, SettleAuto, Decide, Drop, Exhaust, WeeklyReset, Refresh, SwitchActive,
     fileVars
<1>. QED
  BY <1>1, <1>2, <1>3 DEF Next, vars, fileVars

LEMMA AnswersStay == ASSUME [Next]_vars PROVE learned \subseteq learned'
<1>1. CASE TickPoll \/ TickProgress \/ TickCrash
  BY <1>1 DEF TickPoll, TickProgress, TickCrash, TickPersist, TickCheck, TickLockClear, TickClear,
     TickLock, TickUnblocked, TickAnchored, TickRefused, TickDesktopClosed, TickReady, TickMark,
     TickWithdraw, TickSend, TickReceive, TickTimeout, TickRecord, TickApplied, TickSettle,
     TickFails, TickRotate, keyVars
<1>2. CASE (\E a \in Accounts : CmdStart(a)) \/ CmdProgress \/ CmdCrash
  BY <1>2 DEF CmdStart, CmdProgress, CmdCrash, CmdRecord, CmdConfirm, CmdWithdraw, CmdSend,
     CmdReceive, CmdTimeout, CmdCommit, CmdFinish, keyVars
<1>3. CASE PowerOff \/ Environment
  BY <1>3 DEF PowerOff, Environment, SettleAuto, SettleManual, Decide, Drop, Exhaust, WeeklyReset,
     Refresh, SwitchActive, keyVars
<1>. QED
  BY <1>1, <1>2, <1>3 DEF Next, vars, keyVars

(* Where no request of the command is in doubt, its file may be replaced.  *)
LEMMA DurableRewritten ==
    ASSUME DurableInv, InDoubt' \subseteq InDoubt, NEW m,
           manual'.disk \subseteq manual.disk \union {m},
           \/ /\ m.key \notin InDoubt
              /\ \A n \in manual.disk : n.key \notin InDoubt
           \/ /\ m.state # "resolved" \/ m.key \notin InDoubt'
              /\ \A n \in manual.disk : n.key = m.key /\ n.state # "resolved"
    PROVE  DurableInv'
BY DEF DurableInv

LEMMA DurableInductive == CoreInv /\ DurableInv /\ [Next]_vars => DurableInv'
<1>. SUFFICES ASSUME CoreInv, DurableInv, [Next]_vars PROVE DurableInv'
  OBVIOUS
<1>1. manual.now \in manual.disk
  BY DEF CoreInv, TypeInv, MonitorTyped, Files
<1>2. CASE TickSend
  <2>1. tick.doc = auto.now /\ auto.now \in auto.disk /\ tick.doc.key \in Keys
    BY <1>2 DEF TickSend, CoreInv, TickRequest, TickAttempt, TypeInv, MonitorTyped, Files
  <2>2. \A m \in manual.disk : m.key # tick.doc.key
    BY <2>1, Bounds DEF CoreInv, KeyInv, Keys
  <2>. QED
    BY <1>2, <2>2 DEF TickSend, DurableInv, InDoubt, fileVars
<1>3. CASE CmdSend
  <2>1. manual.disk = {cmd.doc} /\ cmd.doc.state = "pending"
    BY <1>3 DEF CmdSend, CoreInv, CmdRequest, CmdAttempt
  <2>. QED
    BY <1>3, <2>1 DEF CmdSend, DurableInv, InDoubt, fileVars
<1>4. CASE sent' = sent
  <2>1. InDoubt' \subseteq InDoubt
    BY <1>4, AnswersStay DEF InDoubt
  <2>2. manual.now.state = "resolved" => \A n \in manual.disk : n.key \notin InDoubt
    BY <1>1 DEF DurableInv
  <2>3. CASE UNCHANGED manual
    BY <2>1, <2>3 DEF DurableInv
  <2>4. CASE CmdRecord
    <3>1. PICK doc \in ManualDocs : doc = cmd.doc
      BY DEF CoreInv, TypeInv, MonitorTyped, Cmds
    <3>2. manual'.disk \subseteq manual.disk \union {doc}
      BY <2>4, <3>1, Rewritten DEF CmdRecord, CoreInv, TypeInv, MonitorTyped
    <3>3. manual.now.state = "resolved" /\ doc.key \notin InDoubt
      BY <2>4, <3>1 DEF CmdRecord, CoreInv, CmdAttempt, KeyInv, FreshKeys, InDoubt
    <3>. QED
      BY <2>1, <2>2, <3>2, <3>3, DurableRewritten
  <2>5. CASE CmdWithdraw
    <3>1. PICK doc : doc = [cmd.doc EXCEPT !.state = "resolved"]
      OBVIOUS
    <3>2. doc \in ManualDocs /\ doc.key = cmd.doc.key
      BY <2>5, <3>1, Attempted DEF CmdWithdraw, ManualDocs, ManualStates
    <3>3. manual'.disk \subseteq manual.disk \union {doc}
      BY <2>5, <3>1, <3>2, Rewritten DEF CmdWithdraw, CoreInv, TypeInv, MonitorTyped
    <3>4. doc.key \notin InDoubt
      BY <2>5, <3>2 DEF CmdWithdraw, CoreInv, CmdAttempt, InDoubt
    <3>5. CASE manual.now = cmd.doc
      <4>1. \A n \in manual.disk : n.key \notin InDoubt
        BY <1>1, <3>2, <3>4, <3>5 DEF DurableInv
      <4>. QED
        BY <2>1, <3>3, <3>4, <4>1, DurableRewritten
    <3>6. CASE manual.now # cmd.doc
      BY <2>1, <2>5, <3>6 DEF CmdWithdraw, DurableInv
    <3>. QED
      BY <3>5, <3>6
  <2>6. CASE CmdFinish
    <3>1. PICK doc \in ManualDocs : doc = cmd.doc
      BY DEF CoreInv, TypeInv, MonitorTyped, Cmds
    <3>2. manual'.disk \subseteq manual.disk \union {doc}
      BY <2>6, <3>1, Rewritten DEF CmdFinish, CoreInv, TypeInv, MonitorTyped
    <3>3. \A n \in manual.disk : n.key = doc.key /\ n.state # "resolved"
      BY <2>6, <3>1 DEF CmdFinish, CoreInv, CmdRequest
    <3>4. doc.state # "resolved" \/ doc.key \notin InDoubt'
      BY <2>6, <3>1, AnswersStay DEF CmdFinish, CoreInv, CmdRequest, InDoubt
    <3>. QED
      BY <2>1, <3>2, <3>3, <3>4, DurableRewritten
  <2>7. CASE SettleManual
    <3>1. manual'.disk = {NoManual} /\ NoManual.key \notin Keys
      BY <2>7, Flushed, Bounds DEF SettleManual, NoManual, Keys
    <3>. QED
      BY <2>1, <3>1 DEF DurableInv, InDoubt, CoreInv, TypeInv, MonitorTyped
  <2>8. CASE PowerOff
    <3>1. manual'.disk \subseteq manual.disk
      BY <2>8 DEF PowerOff, Survives
    <3>. QED
      BY <2>1, <3>1 DEF DurableInv
  <2>. QED
    BY <2>3, <2>4, <2>5, <2>6, <2>7, <2>8, ManualWriters
<1>. QED
  BY <1>2, <1>3, <1>4, Senders

(* The command's record of a request in doubt survives a power loss: every *)
(* document its disk may hold names the key and is unresolved.             *)
THEOREM CommandRecordSurvives == Spec => []ManualSurvives
<1>1. Init => DurableInv
  BY DEF Init, DurableInv, InDoubt
<1>2. CoreInv /\ DurableInv => ManualSurvives
  BY DEF CoreInv, TypeInv, MonitorTyped, Files, DurableInv, ManualSurvives
<1>. QED
  BY <1>1, <1>2, DurableInductive, CoreAlways, PTL DEF Spec

(* The first request with a key leaves when a reader finds the key          *)
(* unresolved in the file of the program that sends it, and a power loss   *)
(* does too, unless the tick takes an attempt it found unresolved for one  *)
(* that was sent.                                                          *)
THEOREM RecordedBeforeSent == Spec => FirstRequestRecorded
<1>1. ASSUME CoreInv, [Next]_vars, NEW k \in sent' \ sent
      PROVE  \/ /\ Unresolved(auto'.now) /\ auto'.now.key = k
                /\ tick.doubt \/ \A d \in auto'.disk : Unresolved(d) /\ d.key = k
             \/ \A m \in manual'.disk : m.state = "pending" /\ m.key = k
  <2>1. CASE TickSend
    BY <1>1, <2>1 DEF TickSend, CoreInv, TickRequest, Unresolved, fileVars
  <2>2. CASE CmdSend
    BY <1>1, <2>2 DEF CmdSend, CoreInv, CmdRequest, CmdAttempt, fileVars
  <2>. QED
    BY <1>1, <2>1, <2>2, Senders
<1>2. CoreInv /\ [Next]_vars =>
         [\A k \in sent' \ sent :
             \/ /\ Unresolved(auto'.now) /\ auto'.now.key = k
                /\ tick.doubt \/ \A d \in auto'.disk : Unresolved(d) /\ d.key = k
             \/ \A m \in manual'.disk : m.state = "pending" /\ m.key = k]_vars
  BY <1>1
<1>. QED
  BY <1>2, CoreAlways, PTL DEF Spec, FirstRequestRecorded

(* Only a tick that is allowed to goes on to the rotation.                 *)
LEMMA RotationAllowed ==
    ASSUME CoreInv, [Next]_vars, tick.pc # "rotate", tick'.pc = "rotate"
    PROVE  Allow /\ (\/ TickCheck \/ TickClear \/ TickLock \/ TickUnblocked \/ TickAnchored
                     \/ TickRefused \/ TickDesktopClosed \/ TickRecord)
<1>1. ~Hold
  BY DEF Hold, IdleTick
<1>2. ASSUME NEW step, step # "rotate" PROVE ~TickTo(step)
  BY <1>2 DEF TickTo, CoreInv, TypeInv, MonitorTyped, Ticks
<1>3. CASE TickPoll \/ TickPersist \/ TickLockClear \/ TickReady \/ TickMark \/ TickWithdraw
  <2>1. ~TickPersist
    BY TickPersisted DEF CoreInv, TypeInv, MonitorTyped, Ticks
  <2>. QED
    BY <1>1, <1>2, <1>3, <2>1 DEF TickPoll, IdleTick, TickLockClear, TickReady, TickMark,
       TickWithdraw, CoreInv, TypeInv, MonitorTyped, Ticks
<1>4. CASE TickSend \/ TickApplied \/ TickSettle \/ TickFails \/ TickRotate \/ TickCrash
  BY <1>1, <1>2, <1>4 DEF TickSend, TickApplied, TickSettle, TickFails, TickRotate, TickCrash,
     IdleTick
<1>5. CASE TickReceive \/ TickTimeout
  <2>1. tick'.pc \in {"record", "applied"}
    BY <1>5 DEF TickReceive, TickTimeout, CoreInv, TypeInv, MonitorTyped, Ticks
  <2>. QED
    BY <2>1
<1>6. CASE (\E a \in Accounts : CmdStart(a)) \/ CmdProgress \/ CmdCrash
  BY <1>6 DEF CmdStart, CmdProgress, CmdCrash, CmdRecord, CmdConfirm, CmdWithdraw, CmdSend,
     CmdReceive, CmdTimeout, CmdCommit, CmdFinish
<1>7. CASE PowerOff \/ Environment
  <2>1. tick' = tick \/ Hold
    BY <1>7 DEF Hold, PowerOff, Environment, SettleAuto, SettleManual, Decide, Drop, Exhaust,
       WeeklyReset, Refresh, SwitchActive
  <2>. QED
    BY <1>1, <2>1
<1>8. CASE TickCheck \/ TickClear \/ TickLock \/ TickUnblocked \/ TickAnchored \/ TickRefused
           \/ TickDesktopClosed \/ TickRecord
  <2>1. ASSUME TickAnchored PROVE Allow
    BY <1>1, <2>1 DEF TickAnchored, CoreInv, TypeInv, MonitorTyped, Ticks
  <2>2. ASSUME TickLock PROVE Allow
    BY <1>1, <2>2 DEF TickLock, CoreInv, TypeInv, MonitorTyped, Ticks
  <2>3. ASSUME TickCheck PROVE Allow
    BY <1>1, <1>2, <2>3 DEF TickCheck
  <2>. QED
    BY <1>1, <1>8, <2>1, <2>2, <2>3
       DEF TickClear, TickUnblocked, TickRefused, TickDesktopClosed, TickRecord
<1>. QED
  BY <1>3, <1>4, <1>6, <1>7, <1>8, <1>5 DEF Next, TickProgress, vars

(* The tick lets accounts rotate while its own attempt is in doubt only    *)
(* when the active account moved before it took the lock, or when it never *)
(* looked at the journal: the weekly reset is off, or the auth.json of the *)
(* active account was not verified.                                        *)
THEOREM RotationStaysHeld == Spec => RotationHeld
<1>1. ASSUME CoreInv, [Next]_vars, tick.pc # "rotate", tick'.pc = "rotate", Unresolved(auto'.now)
      PROVE  active # tick.acct \/ tick.skips
  <2>1. Allow /\ ~Hold
    BY <1>1, RotationAllowed DEF Hold, IdleTick
  <2>2. CASE TickCheck
    BY <1>1, <2>1, <2>2 DEF TickCheck, Allow, Hold, TickTo, IdleTick, fileVars, CoreInv, TypeInv,
       MonitorTyped, Ticks
  <2>3. CASE TickLock
    BY <1>1, <2>1, <2>3 DEF TickLock, CoreInv, TypeInv, MonitorTyped, Ticks
  <2>4. CASE TickClear
    <3>1. auto'.now \in {auto.now, NoAttempt}
      BY <1>1, <2>4, Rewritten, EmptyDocuments DEF TickClear, CoreInv, TypeInv, MonitorTyped
    <3>2. ~Unresolved(auto.now)
      BY <1>1, <2>4 DEF TickClear, CoreInv, TickAttempt
    <3>3. ~Unresolved(NoAttempt)
      BY DEF Unresolved, NoAttempt
    <3>. QED
      BY <1>1, <3>1, <3>2, <3>3 DEF Unresolved
  <2>5. CASE TickUnblocked \/ TickRefused
    BY <1>1, <2>1, <2>5 DEF TickUnblocked, TickRefused, CoreInv, TickAttempt, Unsettled,
       Unresolved, fileVars
  <2>6. CASE TickAnchored
    <3>1. tick.pc = "detect" /\ auto' = auto /\ tick.doc.state = "not_consumed"
      BY <1>1, <2>1, <2>6 DEF TickAnchored, fileVars, CoreInv, TypeInv, MonitorTyped, Ticks
    <3>. QED
      BY <1>1, <3>1 DEF CoreInv, TickAttempt, Unresolved
  <2>7. CASE TickDesktopClosed
    <3>1. PICK doc : doc = [tick.doc EXCEPT !.state = "waiting_for_desktop"]
                     /\ doc.state = "waiting_for_desktop"
      BY <1>1, AttemptTyped DEF AutoStates
    <3>2. auto' = Written(auto, doc)
      BY <2>1, <2>7, <3>1 DEF TickDesktopClosed
    <3>3. auto'.now = doc
      BY <3>2, Flushed
    <3>. QED
      BY <1>1, <3>1, <3>3 DEF Unresolved
  <2>8. CASE TickRecord
    BY <1>1, <2>1, <2>8, Flushed DEF TickRecord, Unresolved, CoreInv, TickRequest
  <2>. QED
    BY <1>1, <2>2, <2>3, <2>4, <2>5, <2>7, <2>8, <2>6, RotationAllowed
<1>2. CoreInv /\ [Next]_vars =>
         [tick.pc # "rotate" /\ tick'.pc = "rotate" /\ Unresolved(auto'.now)
            => active # tick.acct \/ tick.skips]_vars
  BY <1>1
<1>. QED
  BY <1>2, CoreAlways, PTL DEF Spec, RotationHeld

-----------------------------------------------------------------------------
(* The cached counts                                                       *)

(* The steps of the tick between its poll and its next one.                *)
LEMMA TickCounts ==
    ASSUME CoreInv, TickProgress \/ TickCrash, ~TickPersist
    PROVE  /\ tick'.pc # "persist"
           /\ UNCHANGED <<quota, decided, cache, cmd>>
<1>1. (Hold \/ Allow) => tick'.pc # "persist"
  BY DEF Hold, Allow, IdleTick
<1>2. ASSUME NEW step, step # "persist", TickTo(step) PROVE tick'.pc # "persist"
  BY <1>2 DEF TickTo, CoreInv, TypeInv, MonitorTyped, Ticks
<1>3. CASE TickCheck \/ TickLockClear \/ TickClear \/ TickUnblocked \/ TickRefused \/ TickReady
           \/ TickDesktopClosed \/ TickWithdraw \/ TickSend
  BY <1>1, <1>2, <1>3 DEF TickCheck, TickLockClear, TickClear, TickUnblocked, TickRefused,
     TickReady, TickDesktopClosed, TickWithdraw, TickSend, serviceVars, registryVars
<1>4. CASE TickRecord \/ TickApplied \/ TickSettle \/ TickFails \/ TickRotate \/ TickCrash
  BY <1>1, <1>2, <1>4 DEF TickRecord, TickApplied, TickSettle, TickFails, TickRotate, TickCrash,
     IdleTick, serviceVars, registryVars
<1>5. CASE TickLock \/ TickAnchored
  <2>1. \/ Hold \/ Allow
        \/ tick' = [tick EXCEPT !.pc = "detect", !.doc = auto.now]
        \/ \E doubt : tick' = [tick EXCEPT !.pc = "preflight", !.doubt = doubt]
        \/ \E doc : tick' = [tick EXCEPT !.pc = "preflight", !.doc = doc]
    BY <1>5 DEF TickLock, TickAnchored
  <2>2. tick'.pc # "persist"
    BY <1>1, <2>1 DEF CoreInv, TypeInv, MonitorTyped, Ticks
  <2>. QED
    BY <1>5, <2>2 DEF TickLock, TickAnchored, serviceVars, registryVars
<1>6. CASE TickMark \/ TickReceive \/ TickTimeout
  <2>1. tick'.pc # "persist"
    BY <1>6 DEF TickMark, TickReceive, TickTimeout, CoreInv, TypeInv, MonitorTyped, Ticks
  <2>. QED
    BY <1>6, <2>1 DEF TickMark, TickReceive, TickTimeout, serviceVars, registryVars
<1>. QED
  BY <1>3, <1>4, <1>5, <1>6 DEF TickProgress

(* The steps of the command that neither start it nor commit its credit.   *)
LEMMA CmdCounts ==
    ASSUME CoreInv, CmdProgress \/ CmdCrash, ~CmdCommit
    PROVE  /\ UNCHANGED <<quota, decided, cache, tick>>
           /\ \/ cmd'.pc = "idle"
              \/ /\ cmd.pc # "idle" /\ cmd'.before = cmd.before
                 /\ cmd'.doc.key = cmd.doc.key /\ cmd'.doc.acct = cmd.doc.acct
<1>1. CASE CmdRecord \/ CmdConfirm \/ CmdSend
  BY <1>1 DEF CmdRecord, CmdConfirm, CmdSend, CmdTo, serviceVars, registryVars, CoreInv, TypeInv,
     MonitorTyped, Cmds
<1>2. CASE CmdWithdraw \/ CmdFinish \/ CmdCrash
  BY <1>2 DEF CmdWithdraw, CmdFinish, CmdCrash, IdleCmd, serviceVars, registryVars
<1>3. CASE CmdTimeout
  BY <1>3 DEF CmdTimeout, serviceVars, registryVars, CoreInv, TypeInv, MonitorTyped, Cmds,
     ManualDocs
<1>4. CASE CmdReceive /\ decided[cmd.doc.key] = "redeemed"
  BY <1>4 DEF CmdReceive, serviceVars, registryVars, CoreInv, TypeInv, MonitorTyped, Cmds,
     ManualDocs
<1>5. CASE CmdReceive /\ decided[cmd.doc.key] # "redeemed"
  BY <1>5 DEF CmdReceive, serviceVars, registryVars, CoreInv, TypeInv, MonitorTyped, Cmds,
     ManualDocs
<1>. QED
  BY <1>1, <1>2, <1>3, <1>4, <1>5 DEF CmdProgress

LEMMA CreditsTyped ==
    ASSUME CoreInv
    PROVE  /\ \A a \in Accounts : quota[a].credits \in Nat /\ cache[a].credits \in Nat
           /\ tick.credits \in Nat /\ cmd.before \in Nat
           /\ tick.pc = "persist" => tick.acct \in Accounts
           /\ cmd.pc # "idle" => cmd.doc.acct \in Accounts /\ cmd.doc.key \in Keys
BY DEF CoreInv, TypeInv, ServiceTyped, MonitorTyped, Usage, Ticks, Cmds, TickAttempt, CmdAttempt

(* The service only lowers what it has.                                    *)
LEMMA CreditsSpent ==
    ASSUME CoreInv, CreditInv, UNCHANGED <<cache, tick, cmd>>,
           \A a \in Accounts : quota'[a].credits \in Nat,
           \A a \in Accounts : quota'[a].credits <= quota[a].credits,
           cmd.pc # "idle" /\ decided'[cmd.doc.key] # decided[cmd.doc.key]
              /\ decided'[cmd.doc.key] = "redeemed" =>
                 quota'[cmd.doc.acct].credits < quota[cmd.doc.acct].credits
    PROVE  CreditInv'
<1>1. \A a \in Accounts : cache[a].credits >= quota'[a].credits
  BY CreditsTyped DEF CreditInv, CreditsNotLost
<1>2. tick.pc = "persist" => tick.credits >= quota'[tick.acct].credits
  BY CreditsTyped DEF CreditInv
<1>3. cmd.pc # "idle" => cmd.before >= quota'[cmd.doc.acct].credits
  BY CreditsTyped DEF CreditInv
<1>4. cmd.pc # "idle" /\ decided'[cmd.doc.key] = "redeemed" =>
         cmd.before > quota'[cmd.doc.acct].credits
  BY CreditsTyped DEF CreditInv
<1>. QED
  BY <1>1, <1>2, <1>3, <1>4 DEF CreditInv, CreditsNotLost

LEMMA CreditInductive == CoreInv /\ CreditInv /\ [Next]_vars => CreditInv'
<1>. SUFFICES ASSUME CoreInv, CreditInv, [Next]_vars PROVE CreditInv'
  OBVIOUS
<1>1. CASE TickPoll
  <2>1. /\ tick'.credits = quota[active].credits /\ tick'.acct = active /\ active \in Accounts
        /\ UNCHANGED <<quota, decided, cache, cmd>>
    BY <1>1 DEF TickPoll, IdleTick, CoreInv, TypeInv, ServiceTyped, serviceVars, registryVars
  <2>. QED
    BY <2>1, CreditsTyped DEF CreditInv, CreditsNotLost
<1>2. CASE TickPersist
  <2>1. /\ \A a \in Accounts : cache'[a].credits = IF a = tick.acct THEN tick.credits
                                                   ELSE cache[a].credits
        /\ tick'.pc = "check" /\ UNCHANGED <<quota, decided, cmd>> /\ tick.pc = "persist"
    <3>1. tick'.pc = "check"
      BY <1>2, TickPersisted DEF CoreInv, TypeInv, MonitorTyped, Ticks
    <3>. QED
      BY <1>2, <3>1 DEF TickPersist, CoreInv, TypeInv, ServiceTyped, serviceVars
  <2>. QED
    BY <2>1, CreditsTyped DEF CreditInv, CreditsNotLost
<1>3. CASE (TickProgress \/ TickCrash) /\ ~TickPersist
  <2>1. tick'.pc # "persist" /\ UNCHANGED <<quota, decided, cache, cmd>>
    BY <1>3, TickCounts
  <2>. QED
    BY <2>1 DEF CreditInv, CreditsNotLost
<1>4. ASSUME NEW a \in Accounts, CmdStart(a) PROVE CreditInv'
  <2>1. NextKey \in FreshKeys /\ NextKey \in Keys
    BY <1>4, NextKeyFresh DEF CmdStart, FreshKeys
  <2>2. decided[NextKey] = "open"
    BY <2>1 DEF CoreInv, KeyInv, FreshKeys
  <2>3. /\ cmd'.before = cache[a].credits /\ cmd'.doc.key = NextKey /\ cmd'.doc.acct = a
        /\ UNCHANGED <<quota, decided, cache, tick>>
    BY <1>4 DEF CmdStart, serviceVars, registryVars
  <2>. QED
    BY <2>2, <2>3, CreditsTyped DEF CreditInv, CreditsNotLost
<1>5. CASE (CmdProgress \/ CmdCrash) /\ ~CmdCommit
  BY <1>5, CmdCounts DEF CreditInv, CreditsNotLost
<1>6. CASE CmdCommit
  <2>1. /\ UNCHANGED <<quota, decided, tick>> /\ cmd.pc = "commit"
        /\ cmd'.before = cmd.before /\ cmd'.doc.key = cmd.doc.key /\ cmd'.doc.acct = cmd.doc.acct
    BY <1>6, CommitEffect DEF serviceVars
  <2>2. cmd.before > quota[cmd.doc.acct].credits
    BY <2>1 DEF CoreInv, CmdRequest, CreditInv
  <2>3. CASE UNCHANGED cache
    BY <2>1, <2>3 DEF CreditInv, CreditsNotLost
  <2>4. CASE cache' = [cache EXCEPT ![cmd.doc.acct].credits = cmd.before - 1]
    <3>1. \A a \in Accounts : cache'[a].credits = IF a = cmd.doc.acct THEN cmd.before - 1
                                                  ELSE cache[a].credits
      BY <2>4 DEF CoreInv, TypeInv, ServiceTyped, Usage
    <3>. QED
      BY <2>1, <2>2, <3>1, CreditsTyped DEF CreditInv, CreditsNotLost
  <2>. QED
    BY <1>6, <2>3, <2>4 DEF CmdCommit
<1>7. CASE PowerOff
  BY <1>7 DEF PowerOff, IdleTick, IdleCmd, CreditInv, CreditsNotLost, serviceVars, registryVars
<1>8. ASSUME NEW k \in Keys, Decide(k) PROVE CreditInv'
  <2>1. cmd.pc # "idle" /\ cmd.doc.key = k => route[k] = cmd.doc.acct
    BY <1>8 DEF Decide, CoreInv, KeyInv, CmdAttempt, FreshKeys
  <2>2. decided' = [decided EXCEPT ![k] = decided'[k]]
    BY <1>8 DEF Decide, CoreInv, TypeInv, ServiceTyped
  <2>3. \A a \in Accounts : quota'[a].credits \in Nat
    BY <1>8, DecideEffect DEF ServiceTyped, Usage
  <2>. QED
    BY <1>8, <2>1, <2>2, <2>3, DecideEffect, CreditsSpent, CreditsTyped
       DEF registryVars, CoreInv, TypeInv, ServiceTyped
<1>9. ASSUME NEW a \in Accounts, Exhaust(a) \/ WeeklyReset(a) PROVE CreditInv'
  <2>1. PICK u \in Usage : u = quota[a]
    BY DEF CoreInv, TypeInv, ServiceTyped
  <2>2. PICK v : v = [u EXCEPT !.exhausted = TRUE]
    OBVIOUS
  <2>3. PICK w : w = [u EXCEPT !.window = u.window + 1, !.exhausted = FALSE]
    OBVIOUS
  <2>4. v.credits = u.credits /\ w.credits = u.credits
    BY <2>2, <2>3 DEF Usage
  <2>5. quota' = [quota EXCEPT ![a] = v] \/ quota' = [quota EXCEPT ![a] = w]
    BY <1>9, <2>1, <2>2, <2>3 DEF Exhaust, WeeklyReset
  <2>6. \A b \in Accounts : quota'[b].credits = quota[b].credits
    BY <2>1, <2>4, <2>5 DEF CoreInv, TypeInv, ServiceTyped
  <2>. QED
    BY <1>9, <2>6, CreditsSpent, CreditsTyped DEF Exhaust, WeeklyReset, registryVars
<1>10. ASSUME NEW a \in Accounts, Refresh(a) PROVE CreditInv'
  <2>1. \A b \in Accounts : cache'[b].credits = IF b = a THEN quota[a].credits ELSE cache[b].credits
    BY <1>10 DEF Refresh, CoreInv, TypeInv, ServiceTyped
  <2>. QED
    BY <1>10, <2>1, CreditsTyped DEF Refresh, CreditInv, CreditsNotLost, serviceVars
<1>11. CASE SettleAuto \/ SettleManual \/ (\E k \in Keys : Drop(k))
            \/ (\E a \in Accounts : SwitchActive(a)) \/ UNCHANGED vars
  <2>1. UNCHANGED <<quota, decided, cache, tick, cmd>>
    BY <1>11 DEF SettleAuto, SettleManual, Drop, SwitchActive, vars, serviceVars, registryVars
  <2>. QED
    BY <2>1 DEF CreditInv, CreditsNotLost
<1>. QED
  BY <1>1, <1>2, <1>3, <1>4, <1>5, <1>6, <1>7, <1>8, <1>9, <1>10, <1>11
     DEF Next, Environment, TickProgress, CmdProgress

(* The cached count of an account never falls below the real one, whatever *)
(* polls land between an answer and its commit.                            *)
THEOREM NoCreditLost == Spec => []CreditsNotLost
<1>1. Init => CreditInv
  <2>. SUFFICES ASSUME Init PROVE CreditInv
    OBVIOUS
  <2>1. CoreInv
    BY Initial
  <2>. QED
    BY <2>1, CreditsTyped DEF Init, IdleTick, IdleCmd, CreditInv, CreditsNotLost
<1>2. CreditInv => CreditsNotLost
  BY DEF CreditInv
<1>. QED
  BY <1>1, <1>2, CreditInductive, CoreAlways, PTL DEF Spec

-----------------------------------------------------------------------------
(* The files without power losses                                          *)

LEMMA StillTrue ==
    ASSUME TruthInv, UNCHANGED <<auto, manual, sent, learned, decided>>,
           inflight' \subseteq inflight, UnsentInv', HeldInv', SeparateInv'
    PROVE  TruthInv'
BY DEF TruthInv, InDoubtRecorded, InDoubt, SettledTruth, LearnedInv

(* The steps of the tick that write nothing and send nothing.              *)
LEMMA TickReadsTrue ==
    ASSUME CoreInv, TruthInv,
           \/ TickPoll \/ TickPersist \/ TickCheck \/ TickLockClear \/ TickLock \/ TickUnblocked
           \/ TickAnchored \/ TickRefused \/ TickReady \/ TickTimeout \/ TickFails \/ TickRotate
           \/ TickCrash
    PROVE  TruthInv'
<1>1. UNCHANGED <<auto, manual, cmd, sent, learned, decided, inflight>>
  BY DEF TickPoll, TickPersist, TickCheck, TickLockClear, TickLock, TickUnblocked, TickAnchored,
     TickRefused, TickReady, TickTimeout, TickFails, TickRotate, TickCrash, serviceVars, fileVars,
     keyVars
<1>2. SeparateInv'
  BY <1>1 DEF TruthInv, SeparateInv, ManualUnresolved
<1>3. (Hold \/ Allow) => tick'.pc \in {"idle", "rotate"}
  BY DEF Hold, Allow, IdleTick
<1>4. tick \in Ticks
  BY DEF CoreInv, TypeInv, MonitorTyped
<1>5. ASSUME tick'.pc \notin TickLocked \ {"clear"} PROVE UnsentInv' /\ HeldInv'
  BY <1>5 DEF UnsentInv, HeldInv, Unsettled, TickLocked
<1>6. CASE TickPoll \/ TickPersist \/ TickCheck \/ TickLockClear \/ TickUnblocked \/ TickRefused
           \/ TickFails \/ TickRotate \/ TickCrash
  <2>1. (TickCheck \/ TickUnblocked \/ TickRefused \/ TickLockClear \/ TickFails) =>
           Hold \/ Allow \/ \E step \in {"lock", "lockClear", "clear"} : TickTo(step)
    BY DEF TickCheck, TickUnblocked, TickRefused, TickLockClear, TickFails
  <2>2. ASSUME NEW step, TickTo(step) PROVE tick'.pc = step
    BY <1>4, <2>2 DEF TickTo, Ticks
  <2>3. TickPoll => tick'.pc = "persist"
    <3>1. PICK before \in Ticks : before = IdleTick
      BY EmptyDocuments
    <3>. QED
      BY <3>1 DEF TickPoll, Ticks
  <2>4. tick'.pc \notin TickLocked \ {"clear"}
    <3>1. TickPersist => tick'.pc = "check"
      BY <1>4, TickPersisted DEF Ticks
    <3>2. ASSUME TickCheck \/ TickUnblocked \/ TickRefused \/ TickLockClear \/ TickFails
          PROVE  tick'.pc \in {"idle", "rotate", "lock", "lockClear", "clear"}
      BY <1>3, <2>1, <2>2, <3>2
    <3>. QED
      BY <1>6, <2>3, <3>1, <3>2 DEF TickRotate, TickCrash, IdleTick, TickLocked
  <2>. QED
    BY <1>1, <1>2, <1>5, <2>4, StillTrue
<1>7. CASE TickLock
  <2>1. \/ Hold \/ Allow
        \/ tick' = [tick EXCEPT !.pc = "detect", !.doc = auto.now] /\ ~ManualUnresolved
    BY <1>7 DEF TickLock
  <2>2. UnsentInv' /\ HeldInv'
    BY <1>1, <1>3, <1>4, <1>5, <2>1 DEF Ticks, UnsentInv, HeldInv, ManualUnresolved, Unsettled,
       TickLocked
  <2>. QED
    BY <1>1, <1>2, <2>2, StillTrue
<1>8. CASE TickReady
  <2>1. tick.pc = "preflight" /\ tick'.doc = tick.doc /\ tick'.doubt = tick.doubt
        /\ tick'.pc = IF tick.doubt THEN "send" ELSE "mark"
    BY <1>4, <1>8 DEF TickReady, TickTo, Ticks
  <2>2. UnsentInv' /\ HeldInv'
    BY <1>1, <2>1 DEF TruthInv, UnsentInv, HeldInv, ManualUnresolved, Unsettled, TickLocked
  <2>. QED
    BY <1>1, <1>2, <2>2, StillTrue
<1>9. CASE TickTimeout
  <2>1. tick.pc = "await" /\ tick'.pc = "record"
    BY <1>4, <1>9 DEF TickTimeout, Ticks
  <2>2. UnsentInv' /\ HeldInv'
    BY <1>1, <2>1 DEF TruthInv, UnsentInv, HeldInv, ManualUnresolved, Unsettled, TickLocked
  <2>. QED
    BY <1>1, <1>2, <2>2, StillTrue
<1>10. CASE TickAnchored
  <2>1. tick.pc = "detect" /\ tick.doc = auto.now
    BY <1>10 DEF TickAnchored, CoreInv, TickAttempt
  <2>2. HeldInv'
    BY <1>1, <2>1 DEF TruthInv, HeldInv, ManualUnresolved, TickLocked
  <2>3. CASE Hold \/ Allow
    BY <1>1, <1>2, <1>3, <1>5, <2>3, StillTrue DEF TickLocked
  <2>4. CASE ~SameEpisode(tick.doc)
    <3>1. PICK doc : doc = [state |-> "ready", key |-> NextKey, acct |-> tick.acct,
                            window |-> tick.window]
      OBVIOUS
    <3>2. FreshKeys # {} /\ tick' = [tick EXCEPT !.pc = "preflight", !.doc = doc]
      BY <1>10, <2>4, <3>1 DEF TickAnchored
    <3>3. NextKey \in FreshKeys /\ tick'.doc.key = NextKey
      BY <1>4, <3>1, <3>2, NextKeyFresh DEF Ticks
    <3>4. UnsentInv'
      BY <1>1, <3>3 DEF UnsentInv, CoreInv, KeyInv, FreshKeys
    <3>. QED
      BY <1>1, <1>2, <2>2, <3>4, StillTrue
  <2>5. CASE /\ SameEpisode(tick.doc) /\ tick.doc.state \notin {"applied", "not_consumed"}
             /\ \E doubt : tick' = [tick EXCEPT !.pc = "preflight", !.doubt = doubt]
                           /\ doubt = Unresolved(tick.doc)
    <3>1. PICK doubt : tick' = [tick EXCEPT !.pc = "preflight", !.doubt = doubt]
                       /\ doubt = Unresolved(tick.doc)
      BY <2>5
    <3>2. tick'.doc = auto.now /\ tick'.doubt = doubt /\ tick'.pc = "preflight"
      BY <1>4, <2>1, <3>1 DEF Ticks
    <3>3. ~Unresolved(auto.now) => auto.now.state \in {"waiting_for_desktop", "journal_error"}
      <4>1. auto.now \in AutoDocs /\ auto.now.acct \in Accounts /\ AutoRecorded(auto.now)
        BY <2>1, <2>5 DEF CoreInv, TypeInv, MonitorTyped, Files, KeyInv, TickAttempt, SameEpisode
      <4>2. auto.now.state # "ready"
        BY <4>1, ResetNoneAssumption DEF AutoRecorded, NoAttempt
      <4>. QED
        BY <2>1, <2>5, <4>1, <4>2 DEF AutoDocs, AutoStates, Unresolved
    <3>4. UnsentInv'
      BY <1>1, <2>1, <3>1, <3>2, <3>3 DEF UnsentInv, TruthInv, SettledTruth
    <3>. QED
      BY <1>1, <1>2, <2>2, <3>4, StillTrue
  <2>. QED
    BY <1>10, <2>3, <2>4, <2>5 DEF TickAnchored
<1>. QED
  BY <1>6, <1>7, <1>8, <1>9, <1>10

(* The steps of the tick that replace its file.                            *)
LEMMA AutoTrue ==
    ASSUME CoreInv, TruthInv, tick.pc \in TickLocked,
           UNCHANGED <<decided, inflight, manual, cmd, sent, learned>>,
           NEW d \in AutoDocs, auto' \in {Written(auto, d)} \union FailedWrites(auto, d),
           \A k \in InDoubt : Unresolved(auto.now) /\ auto.now.key = k =>
               Unresolved(d) /\ d.key = k,
           d.state = "applied" => decided[d.key] = "redeemed",
           d.state = "not_consumed" => decided[d.key] = "refused",
           d.state \in {"waiting_for_desktop", "journal_error"} => d.key \notin sent,
           d.key = auto.now.key \/ d.key \notin learned,
           Unresolved(d) => ~ManualUnresolved,
           UnsentInv', HeldInv'
    PROVE  TruthInv'
<1>1. auto'.now \in {auto.now, d}
  BY Rewritten DEF CoreInv, TypeInv, MonitorTyped
<1>2. cmd'.pc = "idle"
  BY DEF CoreInv, LockInv
<1>3. InDoubtRecorded' /\ SettledTruth'
  BY <1>1 DEF TruthInv, InDoubtRecorded, InDoubt, SettledTruth
<1>4. SeparateInv' /\ LearnedInv'
  BY <1>1, <1>2 DEF TruthInv, SeparateInv, LearnedInv, ManualUnresolved
<1>. QED
  BY <1>3, <1>4 DEF TruthInv

LEMMA EndsTrue ==
    ASSUME Hold \/ Allow
    PROVE  UnsentInv' /\ HeldInv'
BY DEF Hold, Allow, IdleTick, UnsentInv, HeldInv, Unsettled, TickLocked

LEMMA TickWritesTrue ==
    ASSUME CoreInv, TruthInv, TickClear \/ TickDesktopClosed \/ TickMark \/ TickWithdraw
    PROVE  TruthInv'
<1>1. /\ tick.pc \in TickLocked /\ UNCHANGED <<decided, inflight, manual, cmd, sent, learned>>
  BY DEF TickClear, TickDesktopClosed, TickMark, TickWithdraw, TickLocked, serviceVars, keyVars
<1>2. CASE UNCHANGED auto /\ (Hold \/ Allow)
  <2>1. SeparateInv'
    BY <1>1, <1>2 DEF TruthInv, SeparateInv, CoreInv, LockInv, ManualUnresolved
  <2>. QED
    BY <1>1, <1>2, <2>1, EndsTrue, StillTrue
<1>3. CASE TickClear
  <2>1. NoAttempt.state = "ready" /\ NoAttempt.key \notin learned
    BY Bounds DEF NoAttempt, CoreInv, TypeInv, MonitorTyped, Keys
  <2>2. CASE ~Unresolved(auto.now) /\ (Hold \/ Allow)
             /\ auto' \in {Written(auto, NoAttempt)} \union FailedWrites(auto, NoAttempt)
    BY <1>1, <2>1, <2>2, EmptyDocuments, EndsTrue, AutoTrue DEF Unresolved
  <2>. QED
    BY <1>2, <1>3, <2>2 DEF TickClear
<1>4. CASE TickDesktopClosed
  <2>1. PICK doc \in AutoDocs : /\ doc = [tick.doc EXCEPT !.state = "waiting_for_desktop"]
                                /\ doc.state = "waiting_for_desktop" /\ doc.key = tick.doc.key
    BY AttemptTyped DEF AutoStates
  <2>2. /\ auto' \in {Written(auto, doc)} \union FailedWrites(auto, doc)
        /\ Hold \/ Allow
        /\ tick.pc \in Unsettled /\ ~tick.doubt
    BY <1>4, <2>1 DEF TickDesktopClosed, Unsettled
  <2>3. ~Unresolved(auto.now) /\ tick.doc.key \notin sent
        /\ (tick.doc.key = auto.now.key \/ tick.doc.key \notin learned)
    BY <2>2 DEF TruthInv, UnsentInv, CoreInv, TickAttempt, KeyInv, FreshKeys
  <2>. QED
    BY <1>1, <2>1, <2>2, <2>3, EndsTrue, AutoTrue DEF Unresolved
<1>5. CASE TickMark
  <2>1. PICK doc \in AutoDocs : /\ doc = [tick.doc EXCEPT !.state = "pending"]
                                /\ doc.state = "pending" /\ doc.key = tick.doc.key
    BY AttemptTyped DEF AutoStates
  <2>2. /\ auto' \in {Written(auto, doc)} \union FailedWrites(auto, doc)
        /\ \/ tick' = [tick EXCEPT !.pc = "send", !.doc = doc]
           \/ tick' = [tick EXCEPT !.pc = "withdraw", !.doc = doc]
        /\ tick.pc = "mark" /\ tick.pc \in Unsettled /\ ~tick.doubt
    BY <1>5, <2>1 DEF TickMark, Unsettled, CoreInv, TickAttempt
  <2>3. /\ ~Unresolved(auto.now) /\ tick.doc.key \notin sent /\ ~ManualUnresolved
        /\ tick.doc.key = auto.now.key \/ tick.doc.key \notin learned
    BY <2>2 DEF TruthInv, UnsentInv, HeldInv, TickLocked, CoreInv, TickAttempt, KeyInv, FreshKeys
  <2>4. tick'.doc = doc /\ tick'.pc \in {"send", "withdraw"}
    BY <2>2 DEF CoreInv, TypeInv, MonitorTyped, Ticks
  <2>5. UnsentInv' /\ HeldInv'
    BY <1>1, <2>1, <2>3, <2>4 DEF UnsentInv, HeldInv, ManualUnresolved
  <2>. QED
    BY <1>1, <2>1, <2>2, <2>3, <2>5, AutoTrue DEF Unresolved
<1>6. CASE TickWithdraw
  <2>1. PICK doc \in AutoDocs : /\ doc = [tick.doc EXCEPT !.state = "journal_error"]
                                /\ doc.state = "journal_error" /\ doc.key = tick.doc.key
    BY AttemptTyped DEF AutoStates
  <2>2. CASE /\ auto' \in {Written(auto, doc)} \union FailedWrites(auto, doc)
             /\ Hold /\ tick.pc = "withdraw" /\ auto.now = tick.doc
    <3>1. tick.doc.key \notin sent
      BY <2>2 DEF TruthInv, UnsentInv, CoreInv, TickAttempt
    <3>2. \A k \in InDoubt : auto.now.key # k
      BY <2>2, <3>1 DEF InDoubt
    <3>. QED
      BY <1>1, <2>1, <2>2, <3>1, <3>2, EndsTrue, AutoTrue DEF Unresolved
  <2>. QED
    BY <1>2, <1>6, <2>1, <2>2 DEF TickWithdraw
<1>. QED
  BY <1>3, <1>4, <1>5, <1>6

LEMMA TickAnswersTrue ==
    ASSUME CoreInv, TruthInv, TickRecord \/ TickApplied \/ TickSettle
    PROVE  TruthInv'
<1>1. /\ tick.pc \in Answered /\ tick.pc \in TickLocked \ {"clear"}
      /\ UNCHANGED <<decided, inflight, manual, cmd, sent, learned>>
  BY DEF TickRecord, TickApplied, TickSettle, Answered, TickLocked, serviceVars, keyVars
<1>2. UnsentInv' /\ HeldInv'
  <2>1. CASE Hold \/ Allow
    BY <2>1, EndsTrue
  <2>2. CASE TickTo("settle") \/ TickTo("resettle")
    <3>1. tick'.pc \in {"settle", "resettle"}
      BY <2>2 DEF TickTo, CoreInv, TypeInv, MonitorTyped, Ticks
    <3>. QED
      BY <1>1, <3>1 DEF UnsentInv, HeldInv, TruthInv, ManualUnresolved, Unsettled
  <2>. QED
    BY <2>1, <2>2 DEF TickRecord, TickApplied, TickSettle
<1>3. CASE UNCHANGED auto
  <2>1. SeparateInv'
    BY <1>1, <1>3 DEF TruthInv, SeparateInv, ManualUnresolved
  <2>. QED
    BY <1>1, <1>2, <1>3, <2>1, StillTrue
<1>4. CASE auto' \in {Written(auto, tick.doc)} \union FailedWrites(auto, tick.doc)
  <2>1. tick.doc.key = auto.now.key /\ tick.doc \in AutoDocs /\ ~ManualUnresolved
    BY <1>1 DEF CoreInv, TickRequest, TypeInv, MonitorTyped, Ticks, TruthInv, HeldInv
  <2>2. \/ tick.doc.state = "unknown"
        \/ /\ tick.doc.state = "not_consumed" /\ tick.doc.key \in learned
           /\ decided[tick.doc.key] = "refused"
        \/ /\ tick.doc.state = "applied" /\ tick.doc.key \in learned
           /\ decided[tick.doc.key] = "redeemed"
    BY <1>1 DEF CoreInv, TickRequest, Answered
  <2>. QED
    BY <1>1, <1>2, <1>4, <2>1, <2>2, AutoTrue DEF Unresolved, InDoubt
<1>. QED
  BY <1>3, <1>4 DEF TickRecord, TickApplied, TickSettle

(* A request, and its final answer.                                        *)
LEMMA TickRequestsTrue ==
    ASSUME CoreInv, TruthInv, TickSend \/ TickReceive
    PROVE  TruthInv'
<1>1. /\ tick.pc \in {"send", "await"} /\ tick.doc = auto.now /\ Unresolved(auto.now)
      /\ UNCHANGED <<auto, manual, cmd, decided>> /\ ~ManualUnresolved
      /\ tick'.pc \in {"await", "record", "applied"}
  <2>1. tick.pc \in {"send", "await"} /\ UNCHANGED <<auto, manual, cmd, decided>>
        /\ tick'.pc \in {"await", "record", "applied"}
    BY DEF TickSend, TickReceive, TickTo, CoreInv, TypeInv, MonitorTyped, Ticks, fileVars,
       serviceVars
  <2>. QED
    BY <2>1 DEF CoreInv, TickRequest, TruthInv, HeldInv, TickLocked
<1>2. UnsentInv' /\ HeldInv' /\ SeparateInv'
  BY <1>1 DEF TruthInv, UnsentInv, HeldInv, SeparateInv, ManualUnresolved, Unsettled
<1>3. CASE TickSend
  <2>1. InDoubtRecorded' /\ SettledTruth'
    BY <1>1, <1>3 DEF TickSend, TruthInv, InDoubtRecorded, InDoubt, SettledTruth, Unresolved
  <2>2. LearnedInv'
    BY <1>1, <1>3 DEF TickSend, TruthInv, LearnedInv
  <2>. QED
    BY <1>2, <2>1, <2>2 DEF TruthInv
<1>4. CASE TickReceive
  <2>1. InDoubtRecorded' /\ SettledTruth'
    BY <1>1, <1>4 DEF TickReceive, TruthInv, InDoubtRecorded, InDoubt, SettledTruth
  <2>2. LearnedInv'
    BY <1>1, <1>4 DEF TickReceive, TruthInv, LearnedInv, serviceVars
  <2>. QED
    BY <1>2, <2>1, <2>2 DEF TruthInv
<1>. QED
  BY <1>3, <1>4

(* The command.                                                            *)
LEMMA CmdReadsTrue ==
    ASSUME CoreInv, TruthInv,
           \/ \E a \in Accounts : CmdStart(a)
           \/ CmdConfirm \/ CmdTimeout \/ CmdCommit \/ CmdCrash
    PROVE  TruthInv'
<1>1. UNCHANGED <<auto, manual, tick, sent, learned, decided, inflight>>
  BY DEF CmdStart, CmdConfirm, CmdTimeout, CmdCommit, CmdCrash, serviceVars, fileVars, keyVars
<1>2. UnsentInv' /\ HeldInv'
  BY <1>1 DEF TruthInv, UnsentInv, HeldInv, ManualUnresolved
<1>3. ASSUME NEW a \in Accounts, CmdStart(a) PROVE SeparateInv'
  <2>1. cmd'.doc.acct = a /\ ~(Unresolved(auto.now) /\ auto.now.acct = a) /\ ~ManualUnresolved
    BY <1>3 DEF CmdStart
  <2>. QED
    BY <1>1, <2>1 DEF SeparateInv, ManualUnresolved
<1>4. ASSUME cmd'.pc = "idle" \/ (cmd.pc # "idle" /\ cmd'.doc.acct = cmd.doc.acct)
      PROVE  SeparateInv'
  BY <1>1, <1>4 DEF TruthInv, SeparateInv, ManualUnresolved
<1>5. CASE CmdConfirm \/ CmdTimeout \/ CmdCommit \/ CmdCrash
  <2>1. cmd'.pc = "idle" \/ (cmd.pc # "idle" /\ cmd'.doc.acct = cmd.doc.acct)
    BY <1>5, CmdCounts, CommitEffect DEF CmdProgress, CmdCommit
  <2>. QED
    BY <1>1, <1>2, <1>4, <2>1, StillTrue
<1>. QED
  BY <1>1, <1>2, <1>3, <1>5, StillTrue

LEMMA ManualTrue ==
    ASSUME CoreInv, TruthInv, cmd.pc # "idle",
           UNCHANGED <<decided, inflight, auto, tick, sent, learned>>,
           NEW m \in ManualDocs, manual' \in {Written(manual, m)} \union FailedWrites(manual, m),
           \A k \in InDoubt : manual.now.state \in {"pending", "unknown"} /\ manual.now.key = k =>
               m.state \in {"pending", "unknown"} /\ m.key = k,
           m.state = "applied_uncertain" => decided[m.key] = "redeemed",
           m.key = manual.now.key \/ m.key \notin learned,
           m.acct = cmd.doc.acct,
           cmd'.pc = "idle" \/ cmd'.doc = cmd.doc
    PROVE  TruthInv'
<1>1. manual'.now \in {manual.now, m}
  BY Rewritten DEF CoreInv, TypeInv, MonitorTyped
<1>2. tick'.pc \notin TickLocked
  BY DEF CoreInv, LockInv
<1>3. InDoubtRecorded' /\ SettledTruth'
  BY <1>1 DEF TruthInv, InDoubtRecorded, InDoubt, SettledTruth
<1>4. UnsentInv' /\ HeldInv' /\ SeparateInv' /\ LearnedInv'
  BY <1>1, <1>2 DEF TruthInv, UnsentInv, HeldInv, SeparateInv, LearnedInv, ManualUnresolved,
     Unsettled, TickLocked
<1>. QED
  BY <1>3, <1>4 DEF TruthInv

LEMMA CmdWritesTrue ==
    ASSUME CoreInv, TruthInv, CmdRecord \/ CmdWithdraw \/ CmdFinish
    PROVE  TruthInv'
<1>1. /\ cmd.pc # "idle" /\ cmd.doc \in ManualDocs /\ cmd \in Cmds
      /\ UNCHANGED <<decided, inflight, auto, tick, sent, learned>>
  BY DEF CmdRecord, CmdWithdraw, CmdFinish, serviceVars, keyVars, CoreInv, TypeInv, MonitorTyped,
     Cmds
<1>2. CASE CmdRecord
  <2>1. /\ manual' \in {Written(manual, cmd.doc)} \union FailedWrites(manual, cmd.doc)
        /\ cmd'.doc = cmd.doc /\ cmd.pc = "record"
    BY <1>1, <1>2 DEF CmdRecord, CmdTo, Cmds
  <2>2. /\ manual.now.state = "resolved" /\ cmd.doc.state = "pending"
        /\ cmd.doc.key \notin learned
    BY <2>1 DEF CoreInv, CmdAttempt, KeyInv, FreshKeys
  <2>. QED
    BY <1>1, <2>1, <2>2, ManualTrue
<1>3. CASE CmdWithdraw
  <2>1. PICK m \in ManualDocs : /\ m = [cmd.doc EXCEPT !.state = "resolved"]
                                /\ m.state = "resolved" /\ m.key = cmd.doc.key
                                /\ m.acct = cmd.doc.acct
    <3>1. [cmd.doc EXCEPT !.state = "resolved"] \in ManualDocs
      BY <1>1 DEF ManualDocs, ManualStates
    <3>. QED
      BY <1>1, <3>1 DEF ManualDocs
  <2>2. cmd'.pc = "idle" /\ cmd.doc.key \notin sent
    BY <1>3 DEF CmdWithdraw, IdleCmd, CoreInv, CmdAttempt
  <2>3. CASE UNCHANGED manual
    <3>1. UnsentInv' /\ HeldInv' /\ SeparateInv'
      BY <1>1, <2>2, <2>3 DEF TruthInv, UnsentInv, HeldInv, SeparateInv, ManualUnresolved
    <3>. QED
      BY <1>1, <2>3, <3>1, StillTrue
  <2>4. CASE manual.now = cmd.doc
             /\ manual' \in {Written(manual, m)} \union FailedWrites(manual, m)
    BY <1>1, <2>1, <2>2, <2>4, ManualTrue DEF InDoubt
  <2>. QED
    BY <1>3, <2>1, <2>3, <2>4 DEF CmdWithdraw
<1>4. CASE CmdFinish
  <2>1. /\ manual' \in {Written(manual, cmd.doc)} \union FailedWrites(manual, cmd.doc)
        /\ cmd'.pc = "idle" /\ manual.now.key = cmd.doc.key
        /\ \/ cmd.doc.state = "unknown"
           \/ cmd.doc.state = "resolved" /\ cmd.doc.key \in learned
           \/ /\ cmd.doc.state = "applied_uncertain" /\ cmd.doc.key \in learned
              /\ decided[cmd.doc.key] = "redeemed"
    BY <1>4 DEF CmdFinish, IdleCmd, CoreInv, CmdRequest
  <2>. QED
    BY <1>1, <2>1, ManualTrue DEF InDoubt
<1>. QED
  BY <1>2, <1>3, <1>4

LEMMA CmdRequestsTrue ==
    ASSUME CoreInv, TruthInv, CmdSend \/ CmdReceive
    PROVE  TruthInv'
<1>1. /\ cmd.pc \in {"send", "await"} /\ manual.now = cmd.doc /\ cmd.doc.state = "pending"
      /\ UNCHANGED <<auto, manual, tick, decided>> /\ tick.pc \notin TickLocked
      /\ auto.now.key # cmd.doc.key
  BY DEF CmdSend, CmdReceive, CoreInv, TypeInv, MonitorTyped, Files, CmdAttempt, CmdRequest,
     LockInv, serviceVars, fileVars
<1>2. UnsentInv' /\ HeldInv'
  BY <1>1 DEF UnsentInv, HeldInv, Unsettled, TickLocked
<1>3. cmd'.doc.acct = cmd.doc.acct
  <2>1. cmd \in Cmds
    BY DEF CoreInv, TypeInv, MonitorTyped
  <2>2. \/ cmd' = [cmd EXCEPT !.pc = "await"] \/ cmd' = [cmd EXCEPT !.pc = "commit"]
        \/ cmd' = [cmd EXCEPT !.pc = "finish", !.doc.state = "resolved"]
    BY DEF CmdSend, CmdReceive, CmdTo
  <2>3. ASSUME NEW p, cmd' = [cmd EXCEPT !.pc = p] PROVE cmd'.doc = cmd.doc
    BY ONLY <2>1, <2>3 DEF Cmds
  <2>4. CASE cmd' = [cmd EXCEPT !.pc = "finish", !.doc.state = "resolved"]
    <3>1. cmd'.doc = [cmd.doc EXCEPT !.state = "resolved"] /\ cmd.doc \in ManualDocs
      BY ONLY <2>1, <2>4 DEF Cmds
    <3>. QED
      BY ONLY <3>1 DEF ManualDocs
  <2>. QED
    BY ONLY <2>2, <2>3, <2>4
<1>4. SeparateInv'
  BY <1>1, <1>3 DEF TruthInv, SeparateInv, ManualUnresolved
<1>5. CASE CmdSend
  <2>1. InDoubtRecorded' /\ SettledTruth'
    BY <1>1, <1>5 DEF CmdSend, TruthInv, InDoubtRecorded, InDoubt, SettledTruth
  <2>2. LearnedInv'
    BY <1>1, <1>5 DEF CmdSend, TruthInv, LearnedInv
  <2>. QED
    BY <1>2, <1>4, <2>1, <2>2 DEF TruthInv
<1>6. CASE CmdReceive
  <2>1. InDoubtRecorded' /\ SettledTruth'
    BY <1>1, <1>6 DEF CmdReceive, TruthInv, InDoubtRecorded, InDoubt, SettledTruth
  <2>2. LearnedInv'
    BY <1>1, <1>6 DEF CmdReceive, TruthInv, LearnedInv, serviceVars
  <2>. QED
    BY <1>2, <1>4, <2>1, <2>2 DEF TruthInv
<1>. QED
  BY <1>5, <1>6

(* The user settles an attempt, and the service decides.                   *)
LEMMA SettleTrue ==
    ASSUME CoreInv, TruthInv, SettleAuto \/ SettleManual
    PROVE  TruthInv'
<1>1. /\ tick.pc \notin TickLocked /\ UNCHANGED <<decided, inflight, tick, cmd, sent>>
      /\ cmd.pc = "idle"
  BY DEF SettleAuto, SettleManual, LockFree, serviceVars
<1>2. UnsentInv' /\ HeldInv'
  BY <1>1 DEF UnsentInv, HeldInv, Unsettled, TickLocked
<1>3. /\ auto.now \in auto.disk /\ manual.now \in manual.disk /\ learned \subseteq Keys
      /\ AutoRecorded(auto.now) /\ ManualRecorded(manual.now) /\ 0 \notin Keys
      /\ auto.now.key = manual.now.key => auto.now.key = 0
  BY Bounds DEF CoreInv, TypeInv, MonitorTyped, Files, KeyInv, Keys
<1>4. CASE SettleAuto
  <2>1. /\ auto'.now = NoAttempt /\ learned' = learned \union {auto.now.key}
        /\ UNCHANGED manual /\ auto.now.key \in Keys
        /\ decided[auto.now.key] # "open" \/ auto.now.key \notin inflight
    BY <1>3, <1>4, Flushed DEF SettleAuto, Quiet, AutoRecorded, Unresolved
  <2>2. InDoubtRecorded' /\ SettledTruth' /\ SeparateInv' /\ LearnedInv'
    BY <1>1, <1>3, <2>1 DEF TruthInv, InDoubtRecorded, InDoubt, SettledTruth, SeparateInv,
       LearnedInv, NoAttempt, Unresolved
  <2>. QED
    BY <1>2, <2>2 DEF TruthInv
<1>5. CASE SettleManual
  <2>1. /\ manual'.now = NoManual /\ learned' = learned \union {manual.now.key}
        /\ UNCHANGED auto /\ manual.now.key \in Keys
        /\ decided[manual.now.key] # "open" \/ manual.now.key \notin inflight
    BY <1>3, <1>5, Flushed
       DEF SettleManual, Quiet, ManualRecorded, ManualUnresolved, NoManual
  <2>2. InDoubtRecorded' /\ SettledTruth' /\ SeparateInv' /\ LearnedInv'
    BY <1>1, <1>3, <2>1 DEF TruthInv, InDoubtRecorded, InDoubt, SettledTruth, SeparateInv,
       LearnedInv, NoManual, ManualUnresolved
  <2>. QED
    BY <1>2, <2>2 DEF TruthInv
<1>. QED
  BY <1>4, <1>5

LEMMA ServiceTrue ==
    ASSUME CoreInv, TruthInv,
           \/ \E k \in Keys : Decide(k) \/ Drop(k)
           \/ \E a \in Accounts : Exhaust(a) \/ WeeklyReset(a) \/ Refresh(a) \/ SwitchActive(a)
           \/ UNCHANGED vars
    PROVE  TruthInv'
<1>1. /\ UNCHANGED <<auto, manual, tick, cmd, sent, learned>> /\ inflight' \subseteq inflight
      /\ \A k \in Keys : decided[k] # "open" => decided'[k] = decided[k]
  <2>1. ASSUME NEW k \in Keys, Decide(k)
        PROVE  /\ UNCHANGED <<auto, manual, tick, cmd, sent, learned>>
               /\ inflight' \subseteq inflight
               /\ \A j \in Keys : decided[j] # "open" => decided'[j] = decided[j]
    BY <2>1, DecideEffect DEF fileVars, keyVars
  <2>. QED
    BY <2>1 DEF Drop, Exhaust, WeeklyReset, Refresh, SwitchActive, vars, serviceVars, registryVars,
       fileVars, keyVars
<1>2. /\ auto.now \in auto.disk /\ manual.now \in manual.disk
      /\ learned \subseteq Keys /\ decided \in [Keys -> {"open", "redeemed", "refused"}]
      /\ AutoRecorded(auto.now) /\ ManualRecorded(manual.now)
  BY DEF CoreInv, TypeInv, ServiceTyped, MonitorTyped, Files, KeyInv
<1>3. auto.now.state # "ready" => auto.now.key \in Keys
  BY <1>2 DEF AutoRecorded
<1>4. ManualUnresolved => manual.now.key \in Keys
  BY <1>2 DEF ManualRecorded, ManualUnresolved, NoManual
<1>5. SettledTruth'
  BY <1>1, <1>3, <1>4 DEF TruthInv, SettledTruth, ManualUnresolved
<1>6. InDoubtRecorded' /\ UnsentInv' /\ HeldInv' /\ SeparateInv'
  BY <1>1 DEF TruthInv, InDoubtRecorded, InDoubt, UnsentInv, HeldInv, SeparateInv, ManualUnresolved
<1>7. LearnedInv'
  BY <1>1, <1>2 DEF TruthInv, LearnedInv
<1>. QED
  BY <1>5, <1>6, <1>7 DEF TruthInv

LEMMA TruthInductive ==
    ASSUME ~PowerLoss
    PROVE  CoreInv /\ TruthInv /\ [Next]_vars => TruthInv'
<1>. SUFFICES ASSUME CoreInv, TruthInv, [Next]_vars PROVE TruthInv'
  OBVIOUS
<1>1. CASE TickPoll \/ TickProgress \/ TickCrash
  BY <1>1, TickReadsTrue, TickWritesTrue, TickAnswersTrue, TickRequestsTrue DEF TickProgress
<1>2. CASE (\E a \in Accounts : CmdStart(a)) \/ CmdProgress \/ CmdCrash
  BY <1>2, CmdReadsTrue, CmdWritesTrue, CmdRequestsTrue DEF CmdProgress
<1>3. CASE PowerOff
  BY <1>3 DEF PowerOff
<1>4. CASE Environment \/ UNCHANGED vars
  BY <1>4, SettleTrue, ServiceTrue DEF Environment
<1>. QED
  BY <1>1, <1>2, <1>3, <1>4 DEF Next

LEMMA TruthAlways == ASSUME ~PowerLoss PROVE Spec => []TruthInv
<1>1. Init => TruthInv
  BY DEF Init, TruthInv, InDoubtRecorded, InDoubt, SettledTruth, UnsentInv, HeldInv, SeparateInv,
     LearnedInv, NoAttempt, NoManual, IdleTick, IdleCmd, Unresolved, ManualUnresolved, TickLocked,
     Unsettled
<1>. QED
  BY <1>1, TruthInductive, CoreAlways, PTL DEF Spec

(* Unless a power loss takes an unflushed file, a request in doubt is      *)
(* named by an unresolved attempt in one of the two files, whichever write *)
(* failed and whichever program died.                                      *)
THEOREM DoubtIsRecorded == ASSUME ~PowerLoss PROVE Spec => []InDoubtRecorded
<1>1. TruthInv => InDoubtRecorded
  BY DEF TruthInv
<1>. QED
  BY <1>1, TruthAlways, PTL

(* Unless a power loss takes an unflushed file, a settled record tells     *)
(* what the service decided, or that nothing was ever sent.                *)
THEOREM RecordsTellTruth == ASSUME ~PowerLoss PROVE Spec => []SettledTruth
<1>1. TruthInv => SettledTruth
  BY DEF TruthInv
<1>. QED
  BY <1>1, TruthAlways, PTL

-----------------------------------------------------------------------------
(* The ledger of credits                                                   *)

Doubts(a) == {k \in InDoubt : route[k] = a}
AnyOf(keys) == IF keys = {} THEN 0 ELSE CHOOSE k \in keys : TRUE
LedgerDoubt == [a \in Accounts |-> DoubtOf(a)]
LedgerSpent == {k \in Keys : decided[k] = "redeemed"}

LEMMA OneDoubt ==
    ASSUME CoreInv, TruthInv, NEW k \in InDoubt
    PROVE  /\ k \in Keys /\ k # 0 /\ route[k] \in Accounts
           /\ Doubts(route[k]) = {k} /\ LedgerDoubt[route[k]] = k
<1>1. k \in Keys /\ k # 0 /\ route[k] \in Accounts
  BY Bounds, ResetNoneAssumption
     DEF InDoubt, CoreInv, TypeInv, MonitorTyped, KeyInv, Keys, Maybe
<1>2. ASSUME NEW j \in InDoubt
      PROVE  \/ Unresolved(auto.now) /\ auto.now.key = j /\ auto.now.acct = route[j]
             \/ ManualUnresolved /\ manual.now.key = j /\ manual.now.acct = route[j]
  <2>1. /\ auto.now \in auto.disk /\ manual.now \in manual.disk /\ j \in Keys /\ j # 0
        /\ AutoRecorded(auto.now) /\ ManualRecorded(manual.now)
    BY Bounds DEF InDoubt, CoreInv, TypeInv, MonitorTyped, Files, KeyInv, Keys
  <2>. QED
    BY <2>1 DEF TruthInv, InDoubtRecorded, AutoRecorded, ManualRecorded, Unresolved,
       ManualUnresolved
<1>3. \A j \in InDoubt : route[j] = route[k] => j = k
  BY <1>2 DEF TruthInv, SeparateInv
<1>4. Doubts(route[k]) = {k}
  BY <1>3 DEF Doubts
<1>5. DoubtOf(route[k]) = k
  BY <1>4 DEF DoubtOf, Doubts
<1>. QED
  BY <1>1, <1>4, <1>5 DEF LedgerDoubt

LEMMA NoDoubt ==
    ASSUME NEW a \in Accounts, Doubts(a) = {}
    PROVE  LedgerDoubt[a] = 0
BY DEF LedgerDoubt, DoubtOf, Doubts

(* The account of a key that was sent never changes.                       *)
LEMMA RoutesStay == ASSUME CoreInv, [Next]_vars PROVE \A k \in sent : route'[k] = route[k]
<1>1. \A k \in sent : k \in Keys /\ route[k] # None
  BY DEF CoreInv, TypeInv, MonitorTyped, KeyInv
<1>2. CASE UNCHANGED route
  BY <1>2
<1>3. CASE TickDesktopClosed \/ TickMark
  <2>1. tick.pc \in Unsettled /\ ~tick.doubt /\ route' = [route EXCEPT ![tick.doc.key] = tick.acct]
    BY <1>3 DEF TickDesktopClosed, TickMark, Unsettled, CoreInv, TickAttempt
  <2>. QED
    BY <1>1, <2>1, UnsettledKey DEF CoreInv, TypeInv, MonitorTyped
<1>4. CASE CmdRecord
  BY <1>1, <1>4 DEF CmdRecord, CoreInv, TypeInv, MonitorTyped, CmdAttempt, FreshKeys
<1>5. CASE TickPoll \/ TickProgress \/ TickCrash
  BY <1>2, <1>3, <1>5 DEF TickPoll, TickProgress, TickCrash, TickPersist, TickCheck,
     TickLockClear, TickClear, TickLock, TickUnblocked, TickAnchored, TickRefused, TickReady,
     TickWithdraw, TickSend, TickReceive, TickTimeout, TickRecord, TickApplied, TickSettle,
     TickFails, TickRotate, keyVars
<1>6. CASE (\E a \in Accounts : CmdStart(a)) \/ CmdProgress \/ CmdCrash
  BY <1>2, <1>4, <1>6 DEF CmdStart, CmdProgress, CmdCrash, CmdConfirm, CmdWithdraw, CmdSend,
     CmdReceive, CmdTimeout, CmdCommit, CmdFinish, keyVars
<1>7. CASE PowerOff \/ Environment \/ UNCHANGED vars
  BY <1>2, <1>7 DEF PowerOff, Environment, SettleAuto, SettleManual, Decide, Drop, Exhaust,
     WeeklyReset, Refresh, SwitchActive, vars, keyVars
<1>. QED
  BY <1>5, <1>6, <1>7 DEF Next

LEMMA DoubtStays ==
    ASSUME NEW a \in Accounts, Doubts(a)' = Doubts(a)
    PROVE  DoubtOf(a)' = DoubtOf(a)
<1>1. DoubtOf(a) = AnyOf(Doubts(a)) /\ DoubtOf(a)' = AnyOf(Doubts(a)')
  BY DEF DoubtOf, Doubts, AnyOf
<1>. QED
  BY <1>1

LEMMA DoubtsStay ==
    ASSUME CoreInv, [Next]_vars, InDoubt' = InDoubt
    PROVE  LedgerDoubt' = LedgerDoubt
<1>1. \A a \in Accounts : Doubts(a)' = Doubts(a)
  BY RoutesStay DEF Doubts, InDoubt
<1>. QED
  BY <1>1, DoubtStays DEF LedgerDoubt

LEMMA Asks ==
    ASSUME NEW k \in Keys, UNCHANGED <<route, learned, decided>>,
           sent' = sent \union {k}, k \notin sent, k \notin learned,
           route[k] \in Accounts, Doubts(route[k]) = {}
    PROVE  Ledger!Ask(route[k], k)
<1>1. Doubts(route[k])' = {k}
  BY DEF Doubts, InDoubt
<1>2. DoubtOf(route[k])' = k
  BY <1>1 DEF DoubtOf, Doubts
<1>3. \A a \in Accounts \ {route[k]} : Doubts(a)' = Doubts(a)
  BY DEF Doubts, InDoubt
<1>4. LedgerDoubt' = [LedgerDoubt EXCEPT ![route[k]] = k]
  BY <1>2, <1>3, DoubtStays DEF LedgerDoubt
<1>5. LedgerDoubt[route[k]] = 0
  BY NoDoubt
<1>6. UNCHANGED LedgerSpent
  BY DEF LedgerSpent
<1>. QED
  BY <1>4, <1>5, <1>6 DEF Ledger!Ask, LedgerDoubt, LedgerSpent

LEMMA Answers ==
    ASSUME CoreInv, TruthInv, NEW k \in InDoubt, UNCHANGED <<route, sent, decided>>,
           learned' = learned \union {k}
    PROVE  Ledger!Answer(route[k])
<1>1. Doubts(route[k]) = {k} /\ LedgerDoubt[route[k]] = k /\ k # 0 /\ route[k] \in Accounts
  BY OneDoubt
<1>2. Doubts(route[k])' = {}
  BY <1>1 DEF Doubts, InDoubt
<1>3. DoubtOf(route[k])' = 0
  BY <1>2 DEF DoubtOf, Doubts
<1>4. \A a \in Accounts \ {route[k]} : Doubts(a)' = Doubts(a)
  BY DEF Doubts, InDoubt
<1>5. LedgerDoubt' = [LedgerDoubt EXCEPT ![route[k]] = 0]
  BY <1>3, <1>4, DoubtStays DEF LedgerDoubt
<1>6. UNCHANGED LedgerSpent
  BY DEF LedgerSpent
<1>. QED
  BY <1>1, <1>5, <1>6 DEF Ledger!Answer, LedgerDoubt, LedgerSpent

(* Every step keeps the ledger, asks, answers or spends.                   *)
LEMMA LedgerSteps ==
    ASSUME CoreInv, TruthInv, [Next]_vars
    PROVE  [Ledger!Next]_(Ledger!ledgerVars)
<1>1. ASSUME UNCHANGED <<sent, learned, decided>> PROVE UNCHANGED Ledger!ledgerVars
  <2>1. LedgerDoubt' = LedgerDoubt
    BY <1>1, DoubtsStay DEF InDoubt
  <2>2. LedgerSpent' = LedgerSpent
    BY <1>1 DEF LedgerSpent
  <2>. QED
    BY <1>1, <2>1, <2>2 DEF Ledger!ledgerVars, LedgerDoubt, LedgerSpent
<1>2. ASSUME NEW k \in Keys, UNCHANGED <<route, sent, decided>>, learned' = learned \union {k}
      PROVE  [Ledger!Next]_(Ledger!ledgerVars)
  <2>1. CASE k \in InDoubt
    <3>1. route[k] \in Accounts /\ Ledger!Answer(route[k])
      BY <1>2, <2>1, Answers, OneDoubt
    <3>. QED
      BY <3>1 DEF Ledger!Next
  <2>2. CASE k \notin InDoubt
    <3>1. LedgerDoubt' = LedgerDoubt
      BY <1>2, <2>2, DoubtsStay DEF InDoubt
    <3>2. LedgerSpent' = LedgerSpent
      BY <1>2 DEF LedgerSpent
    <3>. QED
      BY <1>2, <3>1, <3>2 DEF Ledger!ledgerVars, LedgerDoubt, LedgerSpent
  <2>. QED
    BY <2>1, <2>2
<1>3. ASSUME NEW k \in Keys, UNCHANGED <<route, learned, decided>>, sent' = sent \union {k},
             route[k] \in Accounts,
             k \notin sent => k \notin learned /\ Doubts(route[k]) = {}
      PROVE  [Ledger!Next]_(Ledger!ledgerVars)
  <2>1. CASE k \in sent
    BY <1>1, <1>3, <2>1
  <2>2. CASE k \notin sent
    <3>1. Ledger!Ask(route[k], k)
      BY <1>3, <2>2, Asks
    <3>. QED
      BY <1>3, <3>1 DEF Ledger!Next, Keys
  <2>. QED
    BY <2>1, <2>2
<1>4. /\ auto.now \in auto.disk /\ manual.now \in manual.disk
      /\ AutoRecorded(auto.now) /\ ManualRecorded(manual.now)
  BY DEF CoreInv, TypeInv, MonitorTyped, Files, KeyInv
<1>5. ASSUME NEW k \in Keys, k \notin sent, k \in learned
      PROVE  k # auto.now.key /\ k # manual.now.key
  BY <1>5 DEF TruthInv, LearnedInv, CoreInv, KeyInv
<1>6. CASE TickSend
  <2>1. /\ tick.doc = auto.now /\ Unresolved(auto.now) /\ auto.now.key \in Keys
        /\ route[auto.now.key] = auto.now.acct /\ auto.now.acct \in Accounts /\ ~ManualUnresolved
    BY <1>4, <1>6 DEF TickSend, CoreInv, TickAttempt, TickRequest, AutoRecorded, Unresolved,
       TruthInv, HeldInv, TickLocked
  <2>2. auto.now.key \notin sent => Doubts(auto.now.acct) = {}
    BY <2>1 DEF Doubts, InDoubt, TruthInv, InDoubtRecorded, ManualUnresolved
  <2>. QED
    BY <1>3, <1>5, <1>6, <2>1, <2>2 DEF TickSend
<1>7. CASE CmdSend
  <2>1. /\ manual.now = cmd.doc /\ cmd.doc.key \in Keys /\ cmd.doc.key \notin sent
        /\ route[cmd.doc.key] = cmd.doc.acct /\ cmd.doc.acct \in Accounts
        /\ Unresolved(auto.now) => auto.now.acct # cmd.doc.acct
    BY <1>7 DEF CmdSend, CoreInv, CmdAttempt, CmdRequest, TruthInv, SeparateInv
  <2>2. Doubts(cmd.doc.acct) = {}
    BY <1>4, <2>1 DEF Doubts, InDoubt, TruthInv, InDoubtRecorded, AutoRecorded, Unresolved
  <2>. QED
    BY <1>3, <1>5, <1>7, <2>1, <2>2 DEF CmdSend
<1>8. CASE TickReceive \/ CmdReceive \/ SettleAuto \/ SettleManual
  <2>1. PICK k \in Keys : UNCHANGED <<route, sent, decided>> /\ learned' = learned \union {k}
    <3>1. CASE TickReceive
      BY <3>1 DEF TickReceive, CoreInv, TickAttempt, serviceVars
    <3>2. CASE CmdReceive
      BY <3>2 DEF CmdReceive, CoreInv, CmdAttempt, serviceVars
    <3>3. CASE SettleAuto
      BY <1>4, <3>3 DEF SettleAuto, AutoRecorded, Unresolved, serviceVars
    <3>4. CASE SettleManual
      BY <1>4, <3>4 DEF SettleManual, ManualRecorded, ManualUnresolved, NoManual, serviceVars
    <3>. QED
      BY <1>8, <3>1, <3>2, <3>3, <3>4
  <2>. QED
    BY <1>2, <2>1
<1>9. ASSUME NEW k \in Keys, Decide(k) PROVE [Ledger!Next]_(Ledger!ledgerVars)
  <2>1. UNCHANGED <<sent, learned>> /\ LedgerDoubt' = LedgerDoubt /\ k \in inflight
    <3>1. UNCHANGED <<sent, learned, route>> /\ k \in inflight
      BY <1>9 DEF Decide, keyVars
    <3>. QED
      BY <3>1, DoubtsStay DEF InDoubt
  <2>2. \/ decided' = decided
        \/ /\ decided[k] = "open"
           /\ \/ decided' = [decided EXCEPT ![k] = "redeemed"]
              \/ decided' = [decided EXCEPT ![k] = "refused"]
    <3>1. PICK answer : decided' = [decided EXCEPT ![k] = answer]
                        /\ (decided[k] # "open" => answer = decided[k])
                        /\ answer \in {"redeemed", "refused"} \union {decided[k]}
      BY <1>9 DEF Decide
    <3>. QED
      BY <3>1 DEF CoreInv, TypeInv, ServiceTyped
  <2>3. CASE \/ decided' = decided
             \/ decided[k] = "open" /\ decided' = [decided EXCEPT ![k] = "refused"]
    <3>1. LedgerSpent' = LedgerSpent
      BY <2>3 DEF LedgerSpent, CoreInv, TypeInv, ServiceTyped
    <3>. QED
      BY <2>1, <3>1 DEF Ledger!ledgerVars, LedgerDoubt, LedgerSpent
  <2>4. CASE decided[k] = "open" /\ decided' = [decided EXCEPT ![k] = "redeemed"]
    <3>1. k \in InDoubt
      BY <2>1, <2>4 DEF InDoubt, CoreInv, KeyInv, TruthInv, LearnedInv
    <3>2. PICK a \in Accounts : LedgerDoubt[a] = k /\ k # 0
      BY <3>1, OneDoubt
    <3>3. k \notin LedgerSpent /\ LedgerSpent' = LedgerSpent \union {k}
      BY <2>4 DEF LedgerSpent, CoreInv, TypeInv, ServiceTyped
    <3>4. /\ LedgerDoubt[a] # 0 /\ LedgerDoubt[a] \notin LedgerSpent
          /\ LedgerSpent' = LedgerSpent \union {LedgerDoubt[a]}
      BY <3>2, <3>3
    <3>5. Ledger!Spend(a)
      BY <2>1, <3>4 DEF Ledger!Spend, LedgerDoubt, LedgerSpent
    <3>. QED
      BY <3>5 DEF Ledger!Next
  <2>. QED
    BY <2>2, <2>3, <2>4
<1>10. CASE ~(\/ TickSend \/ CmdSend \/ TickReceive \/ CmdReceive \/ SettleAuto \/ SettleManual
              \/ \E k \in Keys : Decide(k))
  <2>1. UNCHANGED <<sent, learned, decided>>
    <3>1. CASE TickPoll \/ TickProgress \/ TickCrash
      BY <1>10, <3>1 DEF TickPoll, TickProgress, TickCrash, TickPersist, TickCheck,
         TickLockClear, TickClear, TickLock, TickUnblocked, TickAnchored, TickRefused,
         TickDesktopClosed, TickReady, TickMark, TickWithdraw, TickTimeout, TickRecord,
         TickApplied, TickSettle, TickFails, TickRotate, serviceVars, keyVars
    <3>2. CASE (\E a \in Accounts : CmdStart(a)) \/ CmdProgress \/ CmdCrash
      BY <1>10, <3>2 DEF CmdStart, CmdProgress, CmdCrash, CmdRecord, CmdConfirm, CmdWithdraw,
         CmdTimeout, CmdCommit, CmdFinish, serviceVars, keyVars
    <3>3. CASE PowerOff \/ Environment \/ UNCHANGED vars
      BY <1>10, <3>3 DEF PowerOff, Environment, Drop, Exhaust, WeeklyReset, Refresh,
         SwitchActive, vars, serviceVars, keyVars
    <3>. QED
      BY <3>1, <3>2, <3>3 DEF Next
  <2>. QED
    BY <1>1, <2>1
<1>. QED
  BY <1>6, <1>7, <1>8, <1>9, <1>10

(* Unless a power loss takes an unflushed file, the tick and the command   *)
(* together keep the abstract ledger: at most one request per account is   *)
(* in doubt, no key is used twice, and no other request costs a credit.    *)
THEOREM ImplementsLedger == ASSUME ~PowerLoss PROVE Spec => KeepsLedger
<1>1. Init => Ledger!Init
  <2>. SUFFICES ASSUME Init PROVE Ledger!Init
    OBVIOUS
  <2>1. \A a \in Accounts : DoubtOf(a) = 0
    BY DEF Init, DoubtOf, InDoubt
  <2>. QED
    BY <2>1 DEF Init, Ledger!Init
<1>. QED
  BY <1>1, LedgerSteps, CoreAlways, TruthAlways, PTL DEF Spec, KeepsLedger, Ledger!Spec

=============================================================================
