--------------------------- MODULE AutomaticProofs ---------------------------
(***************************************************************************)
(* Proofs about Automatic for all accounts, profiles, settings, readings,  *)
(* thresholds and delays.                                                  *)
(***************************************************************************)
EXTENDS Automatic, WellFoundedInduction, TLAPS

(* The record and the history are well typed with the registry and tick.   *)
RecordTyped ==
    record \in Records \union {None}

-----------------------------------------------------------------------------
(* The initial states are well typed.                                      *)
THEOREM TypeInitial == Init => TypeOK
  BY BackoffAssumption DEF Init, TypeOK, NoTries

(* Returning leaves a well-typed tick.                                     *)
LEMMA ReturnTyped ==
    ASSUME Return
    PROVE  /\ pc' = "idle" /\ cause' = None /\ plan' = None
           /\ pc' \in {"idle", "decided", "attempt"}
  BY DEF Return

(* The streak counted for a failure is at least one, and bounded.          *)
LEMMA StreakTyped ==
    ASSUME RecordTyped, NEW p \in Plans, NEW f \in Failures
    PROVE  Streak(p, f) \in 1..MaxFailures
<1>1. CASE ~SameStreak(p, f)
  BY <1>1, BackoffAssumption DEF Streak
<1>2. CASE SameStreak(p, f)
  <2>1. CASE record \in Records
    BY <1>2, <2>1, BackoffAssumption DEF Streak, Records
  <2>. QED  BY <1>2, <2>1 DEF RecordTyped, SameStreak
<1>. QED  BY <1>1, <1>2

(* A failed attempt leaves a well-typed record and history.                *)
LEMMA FailsTyped ==
    ASSUME TypeOK, NEW f \in Failures, Fails(f)
    PROVE  TypeOK'
<1>1. plan \in Plans /\ pc = "attempt"
  BY DEF TypeOK, Fails
<1>2. Streak(plan, f) \in 1..MaxFailures
  BY <1>1, StreakTyped DEF TypeOK, RecordTyped
<1>3. record' \in Records
  BY <1>1, <1>2, BackoffAssumption DEF Fails, Records
<1>4. tries' \in [1..MaxTries + 1 -> 0..StreakReset + 1]
  <2>. DEFINE before == IF tried = tried' THEN tries ELSE NoTries
  <2>1. before \in [1..MaxTries + 1 -> 0..StreakReset + 1]
    BY BackoffAssumption DEF NoTries, TypeOK
  <2>2. tries' = [k \in 1..MaxTries + 1 |-> IF k = 1 THEN 0 ELSE before[k - 1]]
    BY DEF Fails
  <2>. HIDE DEF before
  <2>3. \A k \in 1..MaxTries + 1 : k = 1 \/ k - 1 \in 1..MaxTries + 1
    BY BackoffAssumption
  <2>4. \A k \in 1..MaxTries + 1 :
           (IF k = 1 THEN 0 ELSE before[k - 1]) \in 0..StreakReset + 1
    BY <2>1, <2>3, BackoffAssumption
  <2>. QED  BY <2>2, <2>4
<1>5. tried' \in Plans \X Failures
  BY <1>1 DEF Fails
<1>6. pc' = "idle" /\ cause' = None /\ plan' = None
  BY DEF Fails, Return
<1>7. UNCHANGED <<profile, settings, reading, active, chosen>>
  BY DEF Fails, registry
<1>. QED  BY <1>3, <1>4, <1>5, <1>6, <1>7 DEF TypeOK

(* Time only adds to the ages.                                             *)
LEMMA PassTyped == TypeOK /\ Pass => TypeOK'
<1> SUFFICES ASSUME TypeOK, Pass PROVE TypeOK'
  OBVIOUS
<1>1. record \in Records
  BY DEF Pass, TypeOK
<1>2. Older(record.age) \in 0..StreakReset + 1
  BY <1>1, BackoffAssumption DEF Older, Records
<1>3. record' \in Records
  BY <1>1, <1>2 DEF Pass, Records
<1>4. tries' \in [1..MaxTries + 1 -> 0..StreakReset + 1]
  BY BackoffAssumption DEF Pass, Older, TypeOK
<1>5. UNCHANGED <<profile, settings, reading, active, pc, cause, plan, chosen, tried>>
  BY DEF Pass, registry, tick
<1>. QED  BY <1>3, <1>4, <1>5 DEF TypeOK

(* Every step leaves the state well typed.                                 *)
THEOREM TypeStep == TypeOK /\ [Next]_vars => TypeOK'
<1> SUFFICES ASSUME TypeOK, [Next]_vars PROVE TypeOK'
  OBVIOUS
<1> USE DEF TypeOK
<1>1. CASE Decide
  BY <1>1 DEF Decide, Cause, Causes, registry, history
<1>2. CASE Evaluate
  <2>1. PICK t \in Best : /\ plan' = [cause |-> cause, from |-> active, to |-> t]
                          /\ chosen' = t
    BY <1>2 DEF Evaluate
  <2>2. t \in Accounts /\ cause \in Causes
    BY <1>2 DEF Best, Evaluate
  <2>3. plan' \in Plans
    BY <2>1, <2>2 DEF Plans
  <2>. QED  BY <1>2, <2>1, <2>2, <2>3 DEF Evaluate, registry
<1>3. CASE Refuse
  BY <1>3 DEF Refuse, Return, registry, history
<1>4. CASE Ends
  BY <1>4, BackoffAssumption DEF Ends, Return, Plans, NoTries
<1>5. ASSUME NEW f \in Failures, Fails(f) PROVE TypeOK'
  BY <1>5, FailsTyped
<1>6. CASE Configure
  BY <1>6 DEF Configure, tick
<1>7. CASE DaemonRestart
  BY <1>7, BackoffAssumption DEF DaemonRestart, Return, Plans, NoTries
<1>8. ASSUME NEW a \in Accounts, Poll(a) PROVE TypeOK'
  BY <1>8 DEF Poll, tick
<1>9. ASSUME NEW a \in Accounts, ManualSwitch(a) PROVE TypeOK'
  BY <1>9 DEF ManualSwitch, tick
<1>10. CASE Pass
  BY <1>10, PassTyped
<1>11. CASE UNCHANGED vars
  BY <1>11 DEF vars, registry, tick, history
<1>. QED
  BY <1>1, <1>2, <1>3, <1>4, <1>5, <1>6, <1>7, <1>8, <1>9, <1>10, <1>11
     DEF Next, TickStep, Outside

(* The registry, the tick and the record hold what the code puts there.    *)
THEOREM TypeCorrect == Spec => []TypeOK
  BY TypeInitial, TypeStep, PTL DEF Spec

-----------------------------------------------------------------------------
(* An account that a distribution may go to is not one that must be left   *)
(* for its own sake.                                                       *)
LEMMA EligibleNotDepleted ==
    ASSUME TypeOK, NEW a \in Accounts, Eligible(a)
    PROVE  ~Depleted(a)
<1>1. reading[a] \in Readings
  BY DEF TypeOK
<1>2. reading[a].primary \in Nat /\ Threshold \in Nat
  BY <1>1, DecisionAssumption
<1>. QED  BY <1>2 DEF Eligible, Depleted

(* A business account that the preemption returns to may be chosen.        *)
LEMMA ReturnTargetEligible ==
    ASSUME TypeOK, NEW b \in Accounts, profile[b].enabled, profile[b].business,
           reading[b].error = "none", ~Depleted(b)
    PROVE  Eligible(b)
<1>1. reading[b] \in Readings
  BY DEF TypeOK
<1>2. reading[b].primary \in Nat /\ Threshold \in Nat
  BY <1>1, DecisionAssumption
<1>. QED  BY <1>2 DEF Eligible, Depleted

(* Where the daemon finds a need, the decision finds another account, in   *)
(* every state of the registry (NeedIsMet).                                *)
THEOREM NeedAnswered == TypeOK => NeedIsMet
<1> SUFFICES ASSUME TypeOK, NeedsSwitch(active), active \in Best PROVE FALSE
  BY DEF NeedIsMet
<1>1. active \in Accounts /\ Eligible(active)
  BY DEF Best
<1>2. Returns(active)
  BY <1>1, EligibleNotDepleted DEF NeedsSwitch
<1>3. PICK b \in Accounts \ {active} :
         /\ profile[b].enabled /\ profile[b].business
         /\ reading[b].error = "none" /\ ~Depleted(b)
  BY <1>2 DEF Returns
<1>4. Eligible(b)
  BY <1>3, ReturnTargetEligible
<1>5. Rank(b)[1] = 0 /\ Rank(active)[1] = 1
  BY <1>2, <1>3 DEF Rank, Returns
<1>6. Before(b, active)
  BY <1>5 DEF Before
<1>. QED  BY <1>4, <1>6 DEF Best

(* ... and so in every state the daemon reaches.                           *)
THEOREM NeedAlwaysMet == Spec => []NeedIsMet
  BY TypeCorrect, NeedAnswered, PTL

-----------------------------------------------------------------------------
(* What an automatic switch chose stays the best choice until a poll, a    *)
(* setting or the user changes what it was chosen by.                      *)
ChosenInv == chosen # None => chosen \in Best

(* Best depends on the registry only.                                      *)
LEMMA BestUnchanged ==
    ASSUME UNCHANGED <<profile, settings, reading>>
    PROVE  Best' = Best
  BY DEF Best, Eligible, WeeklySpent, Before, Rank

(* Every step keeps it.                                                    *)
THEOREM ChosenStep == TypeOK /\ ChosenInv /\ [Next]_vars => ChosenInv'
<1> SUFFICES ASSUME TypeOK, ChosenInv, [Next]_vars PROVE ChosenInv'
  OBVIOUS
<1>1. CASE Evaluate
  <2>1. PICK t \in Best : chosen' = t
    BY <1>1 DEF Evaluate
  <2>2. Best' = Best
    BY <1>1, BestUnchanged DEF Evaluate, registry
  <2>. QED  BY <2>1, <2>2 DEF ChosenInv
<1>2. CASE Decide \/ Refuse \/ Ends \/ (\E f \in Failures : Fails(f))
           \/ DaemonRestart \/ Pass \/ UNCHANGED vars
  <2>1. UNCHANGED <<profile, settings, reading, chosen>>
    BY <1>2 DEF Decide, Refuse, Ends, Fails, DaemonRestart, Pass, registry, history, vars
  <2>. QED  BY <2>1, BestUnchanged DEF ChosenInv
<1>3. CASE Configure \/ (\E a \in Accounts : Poll(a) \/ ManualSwitch(a))
  BY <1>3 DEF Configure, Poll, ManualSwitch, ChosenInv
<1>. QED  BY <1>1, <1>2, <1>3 DEF Next, TickStep, Outside

(* No automatic switch goes to an account that the next tick would leave   *)
(* again: there is no ping-pong (QuietAfterSwitch).                        *)
THEOREM NoPingPong == Spec => []QuietAfterSwitch
<1>1. Init => ChosenInv
  BY DEF Init, ChosenInv
<1>2. TypeOK /\ ChosenInv => QuietAfterSwitch
  BY NeedAnswered DEF ChosenInv, QuietAfterSwitch, NeedIsMet
<1>. QED  BY <1>1, <1>2, ChosenStep, TypeCorrect, PTL DEF Spec

-----------------------------------------------------------------------------
(* The sort is faithful to its criteria: an account that is as good as     *)
(* another by all of them has no greater key anywhere.                     *)
LEMMA AsGoodRanks ==
    ASSUME TypeOK, NEW a \in Accounts, NEW b \in Accounts, AsGood(b, a)
    PROVE  \A i \in 1..5 : /\ Rank(b)[i] \in Int /\ Rank(a)[i] \in Int
                           /\ Rank(b)[i] <= Rank(a)[i]
<1>1. reading[a] \in Readings /\ reading[b] \in Readings
  BY DEF TypeOK
<1>2. /\ reading[a].credits \in Nat /\ reading[b].credits \in Nat
      /\ reading[a].reset \in Nat /\ reading[b].reset \in Nat
      /\ reading[a].primary \in Nat /\ reading[b].primary \in Nat
  BY <1>1, DecisionAssumption
<1>3. profile \in [Accounts -> [enabled : BOOLEAN, business : BOOLEAN, priority : Int]]
  BY DecisionAssumption DEF TypeOK
<1>4. profile[a].priority \in Int /\ profile[b].priority \in Int
  BY <1>3
<1>5. CASE settings.highest
  BY <1>2, <1>4, <1>5 DEF Rank, AsGood
<1>6. CASE ~settings.highest
  BY <1>2, <1>4, <1>6 DEF Rank, AsGood
<1>. QED  BY <1>5, <1>6

(* The chosen account is never dominated by another one that may be used.  *)
THEOREM ChoiceUndominated == TypeOK => NeverDominated
<1> SUFFICES ASSUME TypeOK, NEW a \in Best, NEW b \in Accounts,
                    Eligible(b), AsGood(b, a)
             PROVE  AsGood(a, b)
  BY DEF NeverDominated
<1>1. a \in Accounts /\ ~Before(b, a)
  BY DEF Best
<1>2. \A i \in 1..5 : /\ Rank(b)[i] \in Int /\ Rank(a)[i] \in Int
                      /\ Rank(b)[i] <= Rank(a)[i]
  BY <1>1, AsGoodRanks
<1>3. \A i \in 1..5 : ~(Rank(b)[i] < Rank(a)[i] /\ \A j \in 1..i - 1 : Rank(b)[j] = Rank(a)[j])
  BY <1>1 DEF Before
<1>4. Rank(b)[1] = Rank(a)[1]
  BY <1>2, <1>3
<1>5. Rank(b)[2] = Rank(a)[2]
  BY <1>2, <1>3, <1>4
<1>6. Rank(b)[3] = Rank(a)[3]
  BY <1>2, <1>3, <1>4, <1>5
<1>7. Rank(b)[4] = Rank(a)[4]
  BY <1>2, <1>3, <1>4, <1>5, <1>6
<1>8. Rank(b)[5] = Rank(a)[5]
  BY <1>2, <1>3, <1>4, <1>5, <1>6, <1>7
<1>9. reading[a] \in Readings /\ reading[b] \in Readings
  BY <1>1 DEF TypeOK
<1>10. /\ reading[a].credits \in Nat /\ reading[b].credits \in Nat
       /\ reading[a].reset \in Nat /\ reading[b].reset \in Nat
       /\ reading[a].primary \in Nat /\ reading[b].primary \in Nat
  BY <1>9, DecisionAssumption
<1>11. profile \in [Accounts -> [enabled : BOOLEAN, business : BOOLEAN, priority : Int]]
  BY DecisionAssumption DEF TypeOK
<1>12. profile[a].priority \in Int /\ profile[b].priority \in Int
  BY <1>1, <1>11
<1>13. settings.first /\ profile[b].business => profile[a].business
  BY <1>4 DEF Rank
<1>14. CASE settings.highest
  BY <1>5, <1>6, <1>7, <1>8, <1>10, <1>12, <1>13, <1>14 DEF Rank, AsGood
<1>15. CASE ~settings.highest
  BY <1>5, <1>6, <1>7, <1>8, <1>10, <1>12, <1>13, <1>15 DEF Rank, AsGood
<1>. QED  BY <1>14, <1>15

(* ... in every state the daemon reaches (NeverDominated).                 *)
THEOREM ChoiceAlwaysUndominated == Spec => []NeverDominated
  BY TypeCorrect, ChoiceUndominated, PTL

-----------------------------------------------------------------------------
(* The delays                                                              *)

(* A set of numbers has a least one.                                       *)
LEMMA Least ==
    ASSUME NEW S, S \subseteq Nat, S # {}
    PROVE  \E n \in S : \A m \in S : n <= m
<1>1. PICK n \in S : \A m \in S : ~(<<m, n>> \in OpToRel(<, Nat))
  BY NatLessThanWellFounded, WFMin
<1>2. \A m \in S : ~(m < n)
  <2>. TAKE m \in S
  <2>1. <<m, n>> \in Nat \X Nat
    OBVIOUS
  <2>. QED  BY <1>1, <2>1 DEF OpToRel
<1>3. n \in Nat /\ \A m \in S : m \in Nat
  OBVIOUS
<1>4. \A m \in S : n <= m
  BY <1>2, <1>3
<1>. QED  BY <1>4

(* The delays before the greatest one are doubled up to n failures.        *)
IsDoubled(f, n) == f = [i \in 0..n |-> IF i <= 2 THEN BaseDelay ELSE 2 * f[i - 1]]

(* They can be, for every n ...                                            *)
LEMMA DoubledExists == \A n \in Nat : \E f : IsDoubled(f, n)
<1>. DEFINE S == {m \in Nat : ~\E f : IsDoubled(f, m)}
<1>1. SUFFICES ASSUME S # {} PROVE FALSE
  OBVIOUS
<1>2. PICK m \in S : \A k \in S : m <= k
  BY <1>1, Least
<1>3. m \in Nat /\ ~\E f : IsDoubled(f, m)
  OBVIOUS
<1>. HIDE DEF S
<1>4. CASE m = 0
  <2>. DEFINE f == [i \in 0..0 |-> BaseDelay]
  <2>1. IsDoubled(f, 0)
    BY DEF IsDoubled
  <2>. QED  BY <1>3, <1>4, <2>1
<1>5. CASE m > 0
  <2>1. m - 1 \in Nat /\ m - 1 \notin S
    BY <1>2, <1>3, <1>5
  <2>2. PICK g : IsDoubled(g, m - 1)
    BY <2>1 DEF S
  <2>. DEFINE v(i) == IF i <= 2 THEN BaseDelay ELSE 2 * g[i - 1]
              f == [i \in 0..m |-> v(i)]
  <2>3. \A i \in 0..m - 1 : f[i] = g[i]
    BY <1>3, <2>1, <2>2 DEF IsDoubled
  <2>4. \A i \in 0..m : v(i) = IF i <= 2 THEN BaseDelay ELSE 2 * f[i - 1]
    <3>1. \A i \in 0..m : ~(i <= 2) => i - 1 \in 0..m - 1
      BY <1>3
    <3>. HIDE DEF f
    <3>. QED  BY <2>3, <3>1
  <2>5. f = [i \in 0..m |-> IF i <= 2 THEN BaseDelay ELSE 2 * f[i - 1]]
    <3>. HIDE DEF v
    <3>. QED  BY <2>4
  <2>6. IsDoubled(f, m)
    BY <2>5 DEF IsDoubled
  <2>. QED  BY <1>3, <2>6
<1>. QED  BY <1>3, <1>4, <1>5

(* ... in one way only.                                                    *)
LEMMA DoubledUnique ==
    ASSUME NEW n \in Nat, NEW m \in Nat, n <= m,
           NEW f, NEW g, IsDoubled(f, n), IsDoubled(g, m)
    PROVE  \A i \in 0..n : f[i] = g[i]
<1>. DEFINE S == {i \in 0..n : f[i] # g[i]}
<1>1. SUFFICES ASSUME S # {} PROVE FALSE
  OBVIOUS
<1>2. PICK i \in S : \A k \in S : i <= k
  <2>1. S \subseteq Nat
    OBVIOUS
  <2>. HIDE DEF S
  <2>. QED  BY <1>1, <2>1, Least
<1>3. i \in 0..n /\ f[i] # g[i] /\ i \in 0..m
  OBVIOUS
<1>4. /\ f[i] = IF i <= 2 THEN BaseDelay ELSE 2 * f[i - 1]
      /\ g[i] = IF i <= 2 THEN BaseDelay ELSE 2 * g[i - 1]
  BY <1>3 DEF IsDoubled
<1>5. CASE i <= 2
  BY <1>3, <1>4, <1>5
<1>6. CASE ~(i <= 2)
  <2>1. i - 1 \in 0..n /\ i - 1 \notin S
    BY <1>2, <1>3, <1>6
  <2>2. f[i - 1] = g[i - 1]
    BY <2>1
  <2>. QED  BY <1>3, <1>4, <1>6, <2>2
<1>. QED  BY <1>5, <1>6

(* So each failure after the second doubles the delay.                     *)
LEMMA DoubledSteps ==
    Doubled = [n \in Nat |-> IF n <= 2 THEN BaseDelay ELSE 2 * Doubled[n - 1]]
<1>. DEFINE F(n) == CHOOSE f : IsDoubled(f, n)
            h == [n \in Nat |-> F(n)[n]]
<1>1. \A n \in Nat : IsDoubled(F(n), n)
  BY DoubledExists
<1>. HIDE DEF F
<1>2. \A n \in Nat : h[n] = IF n <= 2 THEN BaseDelay ELSE 2 * h[n - 1]
  <2>. TAKE n \in Nat
  <2>1. F(n)[n] = IF n <= 2 THEN BaseDelay ELSE 2 * F(n)[n - 1]
    BY <1>1 DEF IsDoubled
  <2>2. CASE n <= 2
    BY <2>1, <2>2
  <2>3. CASE ~(n <= 2)
    <3>1. n - 1 \in Nat /\ n - 1 <= n
      BY <2>3
    <3>2. \A i \in 0..n - 1 : F(n - 1)[i] = F(n)[i]
      BY <1>1, <3>1, DoubledUnique
    <3>. QED  BY <2>1, <2>3, <3>1, <3>2
  <2>. QED  BY <2>2, <2>3
<1>3. h = [n \in Nat |-> IF n <= 2 THEN BaseDelay ELSE 2 * h[n - 1]]
  <2>1. h = [n \in Nat |-> h[n]]
    OBVIOUS
  <2>. HIDE DEF h
  <2>. QED  BY <1>2, <2>1
<1>. HIDE DEF h
<1>. QED  BY <1>3 DEF Doubled

(* The delays do not shrink as the failures add up (delay),                *)
LEMMA DelayGrows ==
    \A m \in Nat : /\ Doubled[m] \in Nat /\ Doubled[m] >= BaseDelay
                   /\ \A n \in 0..m : Doubled[n] <= Doubled[m]
<1>. DEFINE P(m) == /\ Doubled[m] \in Nat /\ Doubled[m] >= BaseDelay
                    /\ \A n \in 0..m : Doubled[n] <= Doubled[m]
            S == {m \in Nat : ~P(m)}
<1>1. SUFFICES ASSUME S # {} PROVE FALSE
  OBVIOUS
<1>2. PICK m \in S : \A k \in S : m <= k
  BY <1>1, Least
<1>3. m \in Nat /\ ~P(m) /\ \A k \in Nat : k < m => P(k)
  BY <1>2
<1>. HIDE DEF S
<1>4. \A n \in Nat : Doubled[n] = IF n <= 2 THEN BaseDelay ELSE 2 * Doubled[n - 1]
  BY DoubledSteps
<1>5. CASE m <= 2
  <2>1. \A n \in 0..m : Doubled[n] = BaseDelay
    BY <1>3, <1>4, <1>5
  <2>. QED  BY <1>3, <2>1, BackoffAssumption
<1>6. CASE ~(m <= 2)
  <2>1. m - 1 \in Nat /\ m - 1 < m
    BY <1>3, <1>6
  <2>2. P(m - 1)
    BY <1>3, <2>1
  <2>3. Doubled[m] = 2 * Doubled[m - 1]
    BY <1>3, <1>4, <1>6
  <2>4. Doubled[m] \in Nat /\ Doubled[m] >= Doubled[m - 1] /\ Doubled[m] >= BaseDelay
    BY <2>2, <2>3, BackoffAssumption
  <2>5. ASSUME NEW n \in 0..m PROVE Doubled[n] <= Doubled[m]
    <3>1. CASE n = m
      BY <2>4, <3>1
    <3>2. CASE n # m
      <4>1. n \in 0..m - 1 /\ n \in Nat /\ n < m
        BY <1>3, <3>2
      <4>2. Doubled[n] <= Doubled[m - 1] /\ Doubled[n] \in Nat
        BY <1>3, <2>2, <4>1
      <4>. QED  BY <2>2, <2>4, <4>2
    <3>. QED  BY <3>1, <3>2
  <2>. QED  BY <1>3, <2>4, <2>5
<1>. QED  BY <1>5, <1>6

(* nor does the wait between two attempts, and a streak longer than the    *)
(* model counts waits as long as one that it counts.                       *)
LEMMA WaitGrows ==
    ASSUME NEW m \in Nat, NEW n \in Nat
    PROVE  /\ Wait(m) \in Nat
           /\ m <= n => Wait(m) <= Wait(n)
           /\ Wait(m) <= Wait(MaxFailures)
<1>1. /\ \A i \in Nat : Doubled[i] \in Nat
      /\ \A i, j \in Nat : i <= j => Doubled[i] <= Doubled[j]
  BY DelayGrows
<1>2. /\ \A i \in Nat : Delay(i) \in Nat /\ Delay(i) <= MaxDelay
      /\ \A i, j \in Nat : i <= j => Delay(i) <= Delay(j)
  BY <1>1, BackoffAssumption DEF Delay
<1>3. Wait(MaxFailures) = MaxDelay
  BY StreakAssumption, BackoffAssumption DEF Wait
<1>. QED  BY <1>2, <1>3, BackoffAssumption DEF Wait

-----------------------------------------------------------------------------
(* The bound on retries                                                    *)

(* The record is of the last attempt that failed, which the history knows. *)
Tracked ==
    IF record = None THEN tried = None /\ tries = NoTries
    ELSE tried = <<record.plan, record.failure>> /\ tries[1] = record.age

(* An attempt is made when its plan is not held back; time only adds to    *)
(* the age of the record.                                                  *)
Unheld == pc = "attempt" => ~Held(plan)

(* The attempts, the latest first, were made one after the other.          *)
Sorted == \A i, j \in 1..MaxTries + 1 : i <= j => tries[i] <= tries[j]

(* Those within StreakReset are counted, and between two of them passed at *)
(* least the delay that is due after as many failures as are within it.    *)
Paced ==
    \A k \in 1..MaxTries + 1 : tries[k] <= StreakReset =>
        /\ record.failures >= k \/ record.failures = MaxFailures
        /\ \A p \in 2..k : tries[p] - tries[p - 1] >= Wait(k - p + 1)

RetriesInv == Tracked /\ Unheld /\ Sorted /\ Paced

(* A step that touches neither the record nor the history of attempts.     *)
LEMMA RetriesStill ==
    ASSUME RetriesInv, UNCHANGED <<record, tried, tries>>, Unheld'
    PROVE  RetriesInv'
  BY DEF RetriesInv, Tracked, Sorted, Paced

(* A forgotten streak.                                                     *)
LEMMA RetriesForgotten ==
    ASSUME record' = None, tried' = None, tries' = NoTries
    PROVE  RetriesInv'
<1>1. tries'[1] > StreakReset /\ \A k \in 1..MaxTries + 1 : tries'[k] = StreakReset + 1
  BY BackoffAssumption DEF NoTries
<1>. QED
  BY <1>1, BackoffAssumption DEF RetriesInv, Tracked, Unheld, Held, Sorted, Paced

(* Time passes for all attempts alike, up to StreakReset.                  *)
LEMMA RetriesPass ==
    ASSUME TypeOK, RetriesInv, Pass
    PROVE  RetriesInv'
<1>. DEFINE K == 1..MaxTries + 1
<1>1. record # None /\ record \in Records /\ record' \in Records
  <2>1. record # None /\ record \in Records
    BY DEF Pass, TypeOK
  <2>2. Older(record.age) \in 0..StreakReset + 1
    BY <2>1, BackoffAssumption DEF Older, Records
  <2>. QED  BY <2>1, <2>2 DEF Pass, Records
<1>2. /\ record' # None /\ record'.plan = record.plan /\ record'.failure = record.failure
      /\ record'.failures = record.failures /\ record'.age = Older(record.age)
      /\ record.age \in 0..StreakReset + 1
  BY <1>1, NoRecordAssumption DEF Pass, Records
<1>3. \A k \in K : /\ tries'[k] = Older(tries[k]) /\ tries[k] \in 0..StreakReset + 1
  BY DEF Pass, TypeOK
<1>4. 1 \in K /\ StreakReset \in Nat
  BY BackoffAssumption
<1>5. Tracked'
  BY <1>1, <1>2, <1>3, <1>4 DEF RetriesInv, Tracked, Pass
<1>6. Unheld'
  <2>. SUFFICES ASSUME pc' = "attempt", Held(plan)' PROVE FALSE
    BY DEF Unheld
  <2>1. UNCHANGED <<pc, plan>>
    BY DEF Pass, tick
  <2>2. record.plan = plan /\ record.failures >= 2 /\ Older(record.age) < Delay(record.failures)
    BY <1>2, <2>1 DEF Held
  <2>3. Delay(record.failures) \in Nat
    <3>1. record.failures \in Nat /\ ~(record.failures < 2)
      BY <1>1, <2>2, BackoffAssumption DEF Records
    <3>. QED  BY <3>1, WaitGrows DEF Wait
  <2>4. record.age < Delay(record.failures)
    BY <1>2, <1>4, <2>2, <2>3 DEF Older
  <2>. QED  BY <1>1, <2>1, <2>2, <2>4 DEF RetriesInv, Unheld, Held
<1>7. Sorted'
  BY <1>3, <1>4 DEF RetriesInv, Sorted, Older
<1>8. Paced'
  <2>. SUFFICES ASSUME NEW k \in K, tries'[k] <= StreakReset
                PROVE  /\ record'.failures >= k \/ record'.failures = MaxFailures
                       /\ \A p \in 2..k : tries'[p] - tries'[p - 1] >= Wait(k - p + 1)
    BY DEF Paced
  <2>1. tries[k] < StreakReset
    BY <1>3, <1>4 DEF Older
  <2>2. /\ record.failures >= k \/ record.failures = MaxFailures
        /\ \A p \in 2..k : tries[p] - tries[p - 1] >= Wait(k - p + 1)
    BY <1>3, <1>4, <2>1 DEF RetriesInv, Paced
  <2>3. ASSUME NEW p \in 2..k PROVE tries'[p] - tries'[p - 1] = tries[p] - tries[p - 1]
    <3>1. p \in K /\ p - 1 \in K /\ p <= k /\ p - 1 <= k
      BY BackoffAssumption
    <3>2. tries[p] <= tries[k] /\ tries[p - 1] <= tries[k]
      BY <3>1 DEF RetriesInv, Sorted
    <3>. QED  BY <1>3, <1>4, <2>1, <3>1, <3>2 DEF Older
  <2>. QED  BY <1>2, <2>2, <2>3
<1>. QED  BY <1>5, <1>6, <1>7, <1>8 DEF RetriesInv

(* An equal attempt that fails comes after the delay that was due.         *)
LEMMA RetriesFail ==
    ASSUME TypeOK, RetriesInv, NEW f \in Failures, Fails(f)
    PROVE  RetriesInv'
<1>. DEFINE K == 1..MaxTries + 1
            before == IF tried = tried' THEN tries ELSE NoTries
<1>1. /\ plan \in Plans /\ pc = "attempt" /\ pc' = "idle"
      /\ record' = [plan |-> plan, failure |-> f, failures |-> Streak(plan, f), age |-> 0]
      /\ tried' = <<plan, f>>
      /\ \A k \in K : tries'[k] = IF k = 1 THEN 0 ELSE before[k - 1]
  BY DEF Fails, Return, TypeOK
<1>2. record' # None
  <2>1. record' \in Records
    BY <1>1, StreakTyped, BackoffAssumption DEF TypeOK, RecordTyped, Records
  <2>. QED  BY <2>1, NoRecordAssumption
<1>3. 1 \in K /\ StreakReset \in Nat /\ MaxTries \in Nat /\ MaxFailures \in Nat
  BY BackoffAssumption
<1>4. \A k \in K : k = 1 \/ k - 1 \in K
  BY <1>3
<1>5. \A k \in K : NoTries[k] = StreakReset + 1
  BY DEF NoTries
<1>6. /\ \A k \in K : before[k] \in 0..StreakReset + 1
      /\ \A i, j \in K : i <= j => before[i] <= before[j]
  BY <1>3, <1>5 DEF TypeOK, RetriesInv, Sorted
<1>. HIDE DEF before
<1>7. Tracked'
  BY <1>1, <1>2, <1>3 DEF Tracked
<1>8. Unheld'
  BY <1>1 DEF Unheld
<1>9. Sorted'
  <2>. SUFFICES ASSUME NEW i \in K, NEW j \in K, i <= j
                PROVE  tries'[i] <= tries'[j]
    BY DEF Sorted
  <2>1. CASE i = 1
    BY <1>1, <1>3, <1>4, <1>6, <2>1
  <2>2. CASE i # 1
    <3>1. /\ j # 1 /\ i - 1 \in K /\ j - 1 \in K /\ i - 1 <= j - 1
      BY <1>4, <2>2
    <3>2. tries'[i] = before[i - 1] /\ tries'[j] = before[j - 1]
      BY <1>1, <2>2, <3>1
    <3>. QED  BY <1>6, <3>1, <3>2
  <2>. QED  BY <2>1, <2>2
<1>10. Paced'
  <2>. SUFFICES ASSUME NEW n \in K, tries'[n] <= StreakReset
                PROVE  /\ Streak(plan, f) >= n \/ Streak(plan, f) = MaxFailures
                       /\ \A p \in 2..n : tries'[p] - tries'[p - 1] >= Wait(n - p + 1)
    BY <1>1 DEF Paced
  <2>1. CASE n = 1
    <3>1. Streak(plan, f) \in 1..MaxFailures
      BY <1>1, StreakTyped DEF TypeOK, RecordTyped
    <3>. QED  BY <2>1, <3>1
  <2>2. CASE n # 1
    <3>. DEFINE k == n - 1
    <3>1. k \in K /\ k + 1 = n /\ tries'[n] = before[k]
      BY <1>1, <1>4, <2>2
    <3>2. before[k] <= StreakReset /\ before[k] # StreakReset + 1
      BY <1>3, <3>1
    <3>3. before = tries /\ tried = <<plan, f>> /\ tries # NoTries
      BY <1>1, <1>5, <3>1, <3>2 DEF before
    <3>4. /\ record # None /\ record \in Records
          /\ <<plan, f>> = <<record.plan, record.failure>> /\ tries[1] = record.age
      BY <3>3 DEF RetriesInv, Tracked, TypeOK
    <3>5. plan = record.plan /\ f = record.failure /\ record.failures \in 1..MaxFailures
          /\ record.age \in 0..StreakReset + 1
      BY <3>4 DEF Records
    <3>6. tries[1] <= tries[k] /\ tries[k] <= StreakReset
      BY <1>3, <3>1, <3>2, <3>3 DEF RetriesInv, Sorted
    <3>7. /\ record.failures >= k \/ record.failures = MaxFailures
          /\ \A p \in 2..k : tries[p] - tries[p - 1] >= Wait(k - p + 1)
      BY <3>1, <3>6 DEF RetriesInv, Paced
    <3>8. SameStreak(plan, f)
      <4>1. record.age <= StreakReset
        BY <1>3, <3>1, <3>4, <3>5, <3>6 DEF TypeOK
      <4>. QED  BY <3>4, <3>5, <4>1 DEF SameStreak
    <3>9. Streak(plan, f) >= n \/ Streak(plan, f) = MaxFailures
      BY <1>3, <3>1, <3>5, <3>7, <3>8 DEF Streak
    <3>10. record.age >= Wait(k)
      <4>1. Wait(k) \in Nat /\ Wait(record.failures) \in Nat
        BY <3>1, <3>5, WaitGrows
      <4>2. record.age >= Wait(record.failures)
        <5>1. CASE record.failures < 2
          BY <3>5, <5>1 DEF Wait
        <5>2. CASE ~(record.failures < 2)
          <6>1. Wait(record.failures) = Delay(record.failures) /\ record.failures >= 2
            BY <3>5, <5>2 DEF Wait
          <6>2. ~(record.age < Delay(record.failures))
            BY <1>1, <3>4, <3>5, <6>1 DEF RetriesInv, Unheld, Held
          <6>. QED  BY <3>5, <4>1, <6>1, <6>2
        <5>. QED  BY <5>1, <5>2
      <4>3. Wait(k) <= Wait(record.failures)
        <5>1. k \in Nat /\ record.failures \in Nat
          BY <3>1, <3>5
        <5>. QED  BY <3>7, <5>1, WaitGrows
      <4>. QED  BY <3>5, <4>1, <4>2, <4>3
    <3>11. ASSUME NEW p \in 2..n PROVE tries'[p] - tries'[p - 1] >= Wait(n - p + 1)
      <4>1. CASE p = 2
        <5>1. /\ 2 \in K /\ tries'[2] = tries[1] /\ tries'[1] = 0
          BY <1>1, <1>3, <3>3, <4>1
        <5>2. n - 2 + 1 = k /\ record.age - 0 = record.age
          BY <3>1, <3>5
        <5>. QED  BY <3>4, <3>10, <4>1, <5>1, <5>2
      <4>2. CASE p # 2
        <5>. DEFINE q == p - 1
        <5>1. /\ q \in 2..k /\ q - 1 \in K /\ n - p + 1 = k - q + 1
              /\ p \in K /\ q \in K /\ p # 1 /\ q # 1
          BY <1>3, <3>1, <4>2
        <5>2. tries'[p] = tries[q] /\ tries'[q] = tries[q - 1]
          BY <1>1, <3>3, <5>1
        <5>. QED  BY <3>7, <5>1, <5>2
      <4>. QED  BY <4>1, <4>2
    <3>. QED  BY <3>9, <3>11
  <2>. QED  BY <2>1, <2>2
<1>. QED  BY <1>7, <1>8, <1>9, <1>10 DEF RetriesInv

(* Every step keeps the pace of the attempts.                              *)
LEMMA RetriesInductive == TypeOK /\ RetriesInv /\ [Next]_vars => RetriesInv'
<1> SUFFICES ASSUME TypeOK, RetriesInv, [Next]_vars PROVE RetriesInv'
  OBVIOUS
<1>1. CASE Evaluate
  <2>1. Unheld'
    BY <1>1 DEF Evaluate, Unheld, Held
  <2>. QED  BY <1>1, <2>1, RetriesStill DEF Evaluate
<1>2. CASE Decide \/ Refuse \/ Configure \/ (\E a \in Accounts : Poll(a) \/ ManualSwitch(a))
           \/ UNCHANGED vars
  <2>1. /\ UNCHANGED <<record, tried, tries>>
        /\ UNCHANGED <<pc, plan>> \/ pc' # "attempt"
    BY <1>2 DEF Decide, Refuse, Return, Configure, Poll, ManualSwitch, vars, history, tick
  <2>2. Unheld'
    BY <2>1 DEF RetriesInv, Unheld, Held
  <2>. QED  BY <2>1, <2>2, RetriesStill
<1>3. CASE Ends \/ DaemonRestart
  BY <1>3, RetriesForgotten DEF Ends, DaemonRestart, Return
<1>4. CASE Pass
  BY <1>4, RetriesPass
<1>5. ASSUME NEW f \in Failures, Fails(f) PROVE RetriesInv'
  BY <1>5, RetriesFail
<1>. QED  BY <1>1, <1>2, <1>3, <1>4, <1>5 DEF Next, TickStep, Outside

(* Attempts at this pace are too few to reach MaxTries + 1 in StreakReset. *)
LEMMA PacedBounded ==
    ASSUME TypeOK, RetriesInv
    PROVE  RetriesBounded
<1>. DEFINE N == MaxTries + 1
<1>. SUFFICES ASSUME tries[N] <= StreakReset PROVE FALSE
  BY BackoffAssumption DEF RetriesBounded, TypeOK
<1>1. N \in 1..N /\ MaxTries \in Nat /\ StreakReset \in Nat
  BY BackoffAssumption
<1>2. \A k \in 1..N : tries[k] \in 0..StreakReset + 1 /\ tries[k] <= tries[N]
  BY <1>1 DEF TypeOK, RetriesInv, Sorted
<1>3. \A p \in 2..N : tries[p] - tries[p - 1] >= Wait(N - p + 1)
  BY <1>1 DEF RetriesInv, Paced
<1>. DEFINE at == [n \in 1..N |-> tries[N] - tries[N - n + 1]]
<1>4. at \in [1..N -> 0..StreakReset]
  <2>1. ASSUME NEW n \in 1..N PROVE tries[N] - tries[N - n + 1] \in 0..StreakReset
    <3>1. N - n + 1 \in 1..N
      BY <1>1
    <3>. QED  BY <1>1, <1>2, <3>1
  <2>. QED  BY <2>1
<1>5. ASSUME NEW n \in 1..MaxTries PROVE at[n + 1] >= at[n] + Wait(n)
  <2>. DEFINE p == N - n + 1
  <2>1. /\ p \in 2..N /\ N - p + 1 = n /\ N - (n + 1) + 1 = p - 1
        /\ n \in 1..N /\ n + 1 \in 1..N /\ p \in 1..N /\ p - 1 \in 1..N /\ n \in Nat
    BY <1>1
  <2>2. at[n] = tries[N] - tries[p] /\ at[n + 1] = tries[N] - tries[p - 1]
    BY <2>1
  <2>3. tries[p] - tries[p - 1] >= Wait(n)
    BY <1>3, <2>1
  <2>4. Wait(n) \in Nat
    BY <2>1, WaitGrows
  <2>5. tries[N] \in Nat /\ tries[p] \in Nat /\ tries[p - 1] \in Nat
    BY <1>1, <1>2, <2>1
  <2>. HIDE DEF at, p
  <2>. QED  BY <2>2, <2>3, <2>4, <2>5
<1>. HIDE DEF at
<1>. QED  BY <1>4, <1>5, TriesAssumption

(* However ticks, polls and settings come, consecutive equal attempts that *)
(* fail before the signal are few in any stretch of StreakReset            *)
(* (RetriesBounded).                                                       *)
THEOREM RetriesAlwaysBounded == Spec => []RetriesBounded
<1>1. Init => RetriesInv
  <2> SUFFICES ASSUME Init PROVE RetriesInv
    OBVIOUS
  <2>1. \A k \in 1..MaxTries + 1 : tries[k] = StreakReset + 1
    BY DEF Init, NoTries
  <2>. QED
    BY <2>1, BackoffAssumption DEF Init, RetriesInv, Tracked, Unheld, Sorted, Paced
<1>. QED
  BY <1>1, RetriesInductive, PacedBounded, TypeCorrect, PTL DEF Spec
=============================================================================
