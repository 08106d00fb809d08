------------------------------ MODULE Automatic ------------------------------
(***************************************************************************)
(* Automatic account distribution: how the daemon decides to leave the     *)
(* active account, where it goes, and how it holds a plan back that keeps  *)
(* failing before ChatGPT Desktop is signalled.                            *)
(*                                                                         *)
(* A tick decides from the accounts it has just polled whether the active  *)
(* one must be left, and why.  The coordinator then takes the operation    *)
(* lock, reads the registry again and chooses the target, without asking   *)
(* again whether the move is needed.  Polls, settings and manual switches  *)
(* come in between.  What an attempt does to the files is the module       *)
(* Distribution; here it only has an outcome.                              *)
(***************************************************************************)
EXTENDS Integers

CONSTANTS
    Accounts, None,
    Profiles,       \* what the registry may say of the accounts, not polled
    Settings,       \* the settings the user may choose
    Readings,       \* the results of a poll
    Threshold,      \* switch_threshold_percent
    Failures,       \* phases and messages of failures before the signal
    BaseDelay, MaxDelay, StreakReset,
    MaxFailures,    \* bound on a counted streak; a longer one changes no delay
    MaxTries        \* attempts that fit into StreakReset

Errors == {"none", "auth", "limit", "other"}

ASSUME DecisionAssumption ==
    /\ None \notin Accounts
    /\ Profiles \subseteq [Accounts -> [enabled : BOOLEAN, business : BOOLEAN,
                                        priority : Int]]
    /\ Settings \subseteq [auto : BOOLEAN, only : BOOLEAN, first : BOOLEAN,
                           highest : BOOLEAN]
    /\ Readings \subseteq [primary : Nat, weekly : Nat, credits : Nat,
                           reset : Nat, error : Errors]
    /\ Threshold \in Nat

ASSUME BackoffAssumption ==
    /\ BaseDelay \in Nat \ {0} /\ MaxDelay \in Nat /\ BaseDelay <= MaxDelay
    /\ StreakReset \in Nat /\ MaxDelay < StreakReset
    /\ MaxFailures \in Nat /\ MaxFailures >= 2
    /\ MaxTries \in Nat

VARIABLES
    profile, settings, reading,     \* accounts.json
    active,
    pc, cause, plan,    \* the tick: "idle", "decided", or at an "attempt"
    record,             \* AutomaticDistributionBackoff, in the daemon's memory
    chosen,             \* history: the last target, None once a poll, a setting
                        \* or the user changed what it was chosen by
    tried, tries        \* history: the last attempt that failed; how long ago it and
                        \* the equal ones right before it were, the latest first

registry == <<profile, settings, reading, active>>
tick == <<pc, cause, plan>>
history == <<chosen, tried, tries>>
vars == <<registry, tick, record, history>>

NoTries == [k \in 1..MaxTries + 1 |-> StreakReset + 1]

-----------------------------------------------------------------------------
(* strategy.rs: when an account is left                                    *)
WeeklySpent(r) == r.weekly <= Threshold /\ r.credits = 0

Depleted(a) ==
    \/ reading[a].error \in {"auth", "limit"}
    \/ reading[a].primary <= Threshold
    \/ WeeklySpent(reading[a])

(* Mutant: a business account is worth a return although it is disabled.   *)
ReturnsToDisabled(a) ==
    /\ settings.first /\ ~profile[a].business
    /\ \E b \in Accounts \ {a} : /\ profile[b].business
                                 /\ reading[b].error = "none" /\ ~Depleted(b)

(* The preemption of the business-priority mode.                           *)
Returns(a) ==
    /\ settings.first /\ ~profile[a].business
    /\ \E b \in Accounts \ {a} : /\ profile[b].enabled /\ profile[b].business
                                 /\ reading[b].error = "none" /\ ~Depleted(b)

NeedsSwitch(a) == Depleted(a) \/ Returns(a)

(* AutomaticDistributionService, classify_cause                            *)
Cause(a) ==
    IF reading[a].error = "limit" THEN "rate_limit"
    ELSE IF WeeklySpent(reading[a]) THEN "weekly_quota"
    ELSE IF reading[a].primary <= Threshold THEN "quota"
    ELSE IF Depleted(a) THEN "unavailable"
    ELSE "business_return"

Causes == {"rate_limit", "weekly_quota", "quota", "unavailable", "business_return"}

-----------------------------------------------------------------------------
(* DistributionDecisionService::evaluate: where an automatic one goes      *)

Eligible(a) ==
    /\ profile[a].enabled
    /\ reading[a].error = "none"
    /\ reading[a].primary > Threshold
    /\ ~WeeklySpent(reading[a])
    /\ settings.only => profile[a].business

(* Mutant: the preference for business accounts is left out.               *)
RankCreditsFirst(a) ==
    LET r == reading[a]
        quota == IF settings.highest THEN <<-r.primary, r.reset>>
                                     ELSE <<r.reset, -r.primary>>
    IN <<0, -r.credits, quota[1], quota[2], profile[a].priority>>

(* Mutant: the fewest reset credits come first.                            *)
RankFewestCredits(a) ==
    LET r == reading[a]
        quota == IF settings.highest THEN <<-r.primary, r.reset>>
                                     ELSE <<r.reset, -r.primary>>
    IN <<IF settings.first /\ ~profile[a].business THEN 1 ELSE 0,
         r.credits, quota[1], quota[2], profile[a].priority>>

(* The sort keys, the smallest first.                                      *)
Rank(a) ==
    LET r == reading[a]
        quota == IF settings.highest THEN <<-r.primary, r.reset>>
                                     ELSE <<r.reset, -r.primary>>
    IN <<IF settings.first /\ ~profile[a].business THEN 1 ELSE 0,
         -r.credits, quota[1], quota[2], profile[a].priority>>

Before(a, b) ==
    LET p == Rank(a)
        q == Rank(b)
    IN \E i \in 1..5 : p[i] < q[i] /\ \A j \in 1..i - 1 : p[j] = q[j]

(* Equal accounts keep the order of the registry, which is not modelled.   *)
Best == {a \in Accounts : /\ Eligible(a)
                          /\ \A b \in Accounts : Eligible(b) => ~Before(b, a)}

-----------------------------------------------------------------------------
(* AutomaticDistributionBackoff; ages and delays are awake time            *)
Plans == [cause : Causes, from : Accounts, to : Accounts]
Records == [plan : Plans, failure : Failures, failures : 1..MaxFailures,
            age : 0..StreakReset + 1]

ASSUME NoRecordAssumption == None \notin Records

(* BASE_DELAY after the second equal failure, doubled by each further one. *)
Doubled[n \in Nat] == IF n <= 2 THEN BaseDelay ELSE 2 * Doubled[n - 1]

Delay(n) == IF Doubled[n] < MaxDelay THEN Doubled[n] ELSE MaxDelay

ASSUME StreakAssumption == Delay(MaxFailures) = MaxDelay

(* One attempt more does not fit into StreakReset, at the earliest that    *)
(* the delays allow.                                                       *)
Wait(n) == IF n < 2 THEN 0 ELSE Delay(n)

ASSUME TriesAssumption ==
    ~\E at \in [1..MaxTries + 1 -> 0..StreakReset] :
        \A n \in 1..MaxTries : at[n + 1] >= at[n] + Wait(n)

(* Mutant: a plan is never held back again once it was retried.            *)
HeldOnce(p) == /\ record # None /\ record.plan = p /\ record.failures = 2
               /\ record.age < Delay(2)

(* Mutant: a hold does not end.                                            *)
HeldForEver(p) == record # None /\ record.plan = p /\ record.failures >= 2

Held(p) == /\ record # None /\ record.plan = p /\ record.failures >= 2
           /\ record.age < Delay(record.failures)

SameStreak(p, f) == /\ record # None /\ record.plan = p /\ record.failure = f
                    /\ record.age <= StreakReset

Streak(p, f) ==
    IF SameStreak(p, f)
    THEN IF record.failures < MaxFailures THEN record.failures + 1 ELSE MaxFailures
    ELSE 1

Init ==
    /\ profile \in Profiles /\ settings \in Settings
    /\ reading \in [Accounts -> Readings] /\ active \in Accounts
    /\ pc = "idle" /\ cause = None /\ plan = None
    /\ record = None
    /\ chosen = None /\ tried = None /\ tries = NoTries

-----------------------------------------------------------------------------
(* The tick                                                                *)
Return == pc' = "idle" /\ cause' = None /\ plan' = None

(* Mutant: the request does not say why the account has to be left.        *)
DecideWithoutCause ==
    /\ pc = "idle"
    /\ settings.auto /\ NeedsSwitch(active)
    /\ pc' = "decided" /\ cause' = None
    /\ UNCHANGED <<registry, plan, record, history>>

(* AutomaticDistributionService::request on the accounts of the tick       *)
Decide ==
    /\ pc = "idle"
    /\ settings.auto /\ NeedsSwitch(active)
    /\ pc' = "decided" /\ cause' = Cause(active)
    /\ UNCHANGED <<registry, plan, record, history>>

(* DistributionCoordinator::execute on the registry read under the lock.   *)
(* Where Desktop is closed or bound to another account, the plan may go to *)
(* the account that is active already.                                     *)
Evaluate ==
    /\ pc = "decided"
    /\ \E t \in Best :
          LET p == [cause |-> cause, from |-> active, to |-> t]
          IN ~Held(p) /\ plan' = p /\ chosen' = t
    /\ pc' = "attempt"
    /\ UNCHANGED <<registry, cause, record, tried, tries>>

(* The lock, a pending intent or journal, the cooldown, an unverified      *)
(* Desktop, no candidate, nothing to change, or a hold.                    *)
Refuse ==
    /\ pc = "decided"
    /\ Return
    /\ UNCHANGED <<registry, record, history>>

(* It failed before Desktop was signalled or a credential changed.         *)
Fails(f) ==
    /\ pc = "attempt"
    /\ record' = [plan |-> plan, failure |-> f, failures |-> Streak(plan, f),
                  age |-> 0]
    /\ tried' = <<plan, f>>
    /\ tries' = LET before == IF tried = tried' THEN tries ELSE NoTries
                IN [k \in 1..MaxTries + 1 |-> IF k = 1 THEN 0 ELSE before[k - 1]]
    /\ Return
    /\ UNCHANGED <<registry, chosen>>

(* Any other result: the switch, or a failure that came later.             *)
Ends ==
    /\ pc = "attempt"
    /\ record' = None
    /\ tried' = None /\ tries' = NoTries
    /\ active' \in {active, plan.to}
    /\ Return
    /\ UNCHANGED <<profile, settings, reading, chosen>>

-----------------------------------------------------------------------------
(* Polls, the user, and time                                               *)
Poll(a) ==
    /\ profile[a].enabled
    /\ \E r \in Readings \ {reading[a]} : reading' = [reading EXCEPT ![a] = r]
    /\ chosen' = None
    /\ UNCHANGED <<profile, settings, active, tick, record, tried, tries>>

Configure ==
    /\ settings' \in Settings \ {settings}
    /\ chosen' = None
    /\ UNCHANGED <<profile, reading, active, tick, record, tried, tries>>

(* `cxi switch`, while the lock is free                                    *)
ManualSwitch(a) ==
    /\ pc # "attempt" /\ a # active
    /\ active' = a
    /\ chosen' = None
    /\ UNCHANGED <<profile, settings, reading, tick, record, tried, tries>>

(* The backoff is not persistent: a new daemon retries at once, wherever   *)
(* the old one was.                                                        *)
DaemonRestart ==
    /\ Return
    /\ record' = None
    /\ tried' = None /\ tries' = NoTries
    /\ active' \in {active} \union (IF pc = "attempt" THEN {plan.to} ELSE {})
    /\ UNCHANGED <<profile, settings, reading, chosen>>

Older(age) == IF age > StreakReset THEN age ELSE age + 1

Pass ==
    /\ record # None
    /\ record' = [record EXCEPT !.age = Older(@)]
    /\ tries' = [k \in 1..MaxTries + 1 |-> Older(tries[k])]
    /\ UNCHANGED <<registry, tick, chosen, tried>>

TickStep == Decide \/ Evaluate \/ Refuse \/ Ends \/ \E f \in Failures : Fails(f)
Outside == Configure \/ DaemonRestart \/ \E a \in Accounts : Poll(a) \/ ManualSwitch(a)

Next == TickStep \/ Outside \/ Pass

Spec == Init /\ [][Next]_vars

(* The daemon ticks, time passes, an attempt ends, and what may refuse a   *)
(* distribution does not strike at every tick.                             *)
Fairness == /\ WF_vars(Decide) /\ WF_vars(Pass)
            /\ WF_vars(Ends \/ \E f \in Failures : Fails(f))
            /\ SF_vars(Evaluate)

FairSpec == Spec /\ Fairness

-----------------------------------------------------------------------------
(* Properties                                                              *)

(* The registry, the tick and the record hold what the code puts there:    *)
(* the type invariant.                                                     *)
TypeOK ==
    /\ profile \in Profiles /\ settings \in Settings
    /\ reading \in [Accounts -> Readings] /\ active \in Accounts
    /\ pc \in {"idle", "decided", "attempt"}
    /\ cause \in Causes \union {None} /\ (pc # "idle" => cause \in Causes)
    /\ plan \in Plans \union {None} /\ (pc = "attempt" => plan \in Plans)
    /\ record \in Records \union {None}
    /\ chosen \in Accounts \union {None}
    /\ tried \in (Plans \X Failures) \union {None}
    /\ tries \in [1..MaxTries + 1 -> 0..StreakReset + 1]

(* The two places that judge accounts agree: when the daemon finds that    *)
(* the active account must be left, the decision never answers that it is  *)
(* the best one, so the watchdog does not wake a tick every two seconds    *)
(* that does nothing.                                                      *)
NeedIsMet == NeedsSwitch(active) => active \notin Best

(* No ping-pong: an account that an automatic switch went to is not left   *)
(* again before a poll, a setting or the user gives a reason.              *)
QuietAfterSwitch == chosen # None /\ active = chosen => ~NeedsSwitch(active)

(* No account that may be used is as good as the chosen one by every       *)
(* criterion of the README and better by one.                              *)
AsGood(b, a) ==
    /\ settings.first /\ profile[a].business => profile[b].business
    /\ reading[b].credits >= reading[a].credits
    /\ reading[b].reset <= reading[a].reset
    /\ reading[b].primary >= reading[a].primary
    /\ profile[b].priority <= profile[a].priority

NeverDominated ==
    \A a \in Best, b \in Accounts : Eligible(b) /\ AsGood(b, a) => AsGood(a, b)

(* Equal attempts that fail before the signal, one right after the other   *)
(* as far as results go, are few in any stretch of StreakReset, whatever   *)
(* ticks, polls and changes of settings come between them.                 *)
RetriesBounded == tries[MaxTries + 1] > StreakReset

(* A hold ends: as long as the active account has to be left and there is  *)
(* an account to go to, attempts follow one another for ever.              *)
Wanted == settings.auto /\ NeedsSwitch(active) /\ Best # {}

RetriedForEver == <>[]Wanted => []<>(pc = "attempt")

=============================================================================
