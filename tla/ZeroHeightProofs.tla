-------------------------- MODULE ZeroHeightProofs --------------------------
(***************************************************************************)
(* The export for height zero, for any number of validators, delegations,   *)
(* blocks and exports, and for any shares and fractions.                    *)
(*                                                                          *)
(* Each of the four loops of the preparation is an induction over its       *)
(* rounds: what a round does to the validator or the delegation it is       *)
(* about, and what it leaves alone in the others.                           *)
(***************************************************************************)
EXTENDS ZeroHeight, FoldTheorems

StateType ==
  [bal : [Payees -> Int], module : Int, pool : Int,
   outstanding : [Validators -> Int], commission : [Validators -> Int],
   due : [Delegations -> Int],
   period : [Validators -> Int], history : [Validators -> SUBSET Int],
   start : [Delegations -> [period : Int, height : Int]],
   slashes : SUBSET [of : Validators, height : Int, period : Int],
   redelegations : SUBSET Int, unbondings : SUBSET Int,
   jailed : SUBSET Validators, unbondingHeight : [Validators -> Int],
   index : SUBSET Validators, bonded : SUBSET Validators,
   signing : [Validators -> Int]]

(* What x/staking and x/slashing keep, and the coins of x/distribution.       *)
SameStaking(s, t) ==
  /\ t.redelegations = s.redelegations /\ t.unbondings = s.unbondings
  /\ t.jailed = s.jailed /\ t.unbondingHeight = s.unbondingHeight
  /\ t.index = s.index /\ t.bonded = s.bonded /\ t.signing = s.signing
SameCoins(s, t) ==
  /\ t.bal = s.bal /\ t.module = s.module /\ t.pool = s.pool
  /\ t.outstanding = s.outstanding /\ t.commission = s.commission /\ t.due = s.due

(* The three parts of HistoryComplete.                                        *)
LastKept(s, V) == \A v \in V : s.period[v] - 1 \in s.history[v]
StartsKept(s, D) == \A d \in D : s.start[d].period \in s.history[d[2]]
SlashesKept(s) == \A e \in s.slashes : e.period \in s.history[e.of]

(* What someone owns or will be paid, in parts of a coin.                     *)
Worth(s, x) == s.bal[x] * Unit + Due(s, x)

-----------------------------------------------------------------------------
(* Arithmetic *)

(* An amount in parts is whole coins and less than a coin.                    *)
LEMMA InParts ==
  ASSUME NEW n \in Int
  PROVE  /\ n \div Unit \in Int /\ n % Unit \in Int
         /\ 0 <= n % Unit /\ n % Unit < Unit
         /\ n = (n \div Unit) * Unit + (n % Unit)
<1>1. /\ n \div Unit \in Int /\ n % Unit \in Int
      /\ 0 <= n % Unit /\ n % Unit < Unit
      /\ n = Unit * (n \div Unit) + (n % Unit)
  BY CoinsAreCounted
<1> QED
  BY <1>1, CoinsAreCounted

(* Coins are added and taken away in parts as they are in coins.              *)
LEMMA SumOfParts ==
  ASSUME NEW a \in Int, NEW b \in Int
  PROVE  /\ (a + b) * Unit = a * Unit + b * Unit /\ (a - b) * Unit = a * Unit - b * Unit
         /\ a * Unit \in Int /\ b * Unit \in Int
BY CoinsAreCounted

-----------------------------------------------------------------------------
(* x/distribution *)

(* Collected touches one history only.                                        *)
LEMMA CollectedFields ==
  ASSUME NEW s \in StateType, NEW v \in Validators
  PROVE  /\ Collected(s, v) \in StateType
         /\ SameStaking(s, Collected(s, v)) /\ SameCoins(s, Collected(s, v))
         /\ Collected(s, v).slashes = s.slashes
         /\ Collected(s, v).period = s.period /\ Collected(s, v).start = s.start
         /\ \A u \in Validators \ {v} : Collected(s, v).history[u] = s.history[u]
         /\ Collected(s, v).history[v] =
              {p \in s.history[v] : \/ p = s.period[v] - 1
                                    \/ \E d \in Of(v) : s.start[d].period = p
                                    \/ \E e \in s.slashes : e.of = v /\ e.period = p}
<1> DEFINE kept == {p \in s.history[v] :
                      \/ p = s.period[v] - 1
                      \/ \E d \in Of(v) : s.start[d].period = p
                      \/ \E e \in s.slashes : e.of = v /\ e.period = p}
           new == Collected(s, v)
<1>1. new = [s EXCEPT !.history[v] = kept]
  BY DEF Collected
<1>2. kept \in SUBSET Int
  BY DEF StateType
<1> HIDE DEF kept, new
<1>3. /\ new \in StateType
      /\ new.history = [s.history EXCEPT ![v] = kept]
      /\ new.slashes = s.slashes /\ new.period = s.period /\ new.start = s.start
  BY <1>1, <1>2 DEF StateType
<1>4. SameStaking(s, new) /\ SameCoins(s, new)
  BY <1>1 DEF StateType, SameStaking, SameCoins
<1>5. new.history[v] = kept /\ \A u \in Validators \ {v} : new.history[u] = s.history[u]
  BY <1>3 DEF StateType
<1> QED
  BY <1>3, <1>4, <1>5 DEF kept, new

(* Nothing that is looked up is dropped.                                      *)
LEMMA CollectedKeeps ==
  ASSUME NEW s \in StateType, NEW v \in Validators,
         NEW V \in SUBSET Validators, NEW D \in SUBSET Delegations
  PROVE  /\ LastKept(s, V) => LastKept(Collected(s, v), V)
         /\ StartsKept(s, D) => StartsKept(Collected(s, v), D)
         /\ SlashesKept(s) => SlashesKept(Collected(s, v))
<1> DEFINE new == Collected(s, v)
<1>1. /\ new.slashes = s.slashes /\ new.period = s.period /\ new.start = s.start
      /\ \A u \in Validators \ {v} : new.history[u] = s.history[u]
      /\ new.history[v] =
           {p \in s.history[v] : \/ p = s.period[v] - 1
                                 \/ \E d \in Of(v) : s.start[d].period = p
                                 \/ \E e \in s.slashes : e.of = v /\ e.period = p}
  BY CollectedFields
<1> HIDE DEF new
<1>2. ASSUME LastKept(s, V), NEW u \in V PROVE new.period[u] - 1 \in new.history[u]
  BY <1>1, <1>2 DEF LastKept
<1>3. ASSUME StartsKept(s, D), NEW d \in D PROVE new.start[d].period \in new.history[d[2]]
  <2>1. d[2] \in Validators /\ d \in Of(d[2]) /\ s.start[d].period \in s.history[d[2]]
    BY <1>3, DelegationsArePairs DEF Of, StartsKept
  <2> QED
    BY <1>1, <2>1
<1>4. ASSUME SlashesKept(s), NEW e \in s.slashes PROVE e.period \in new.history[e.of]
  <2>1. e.of \in Validators /\ e.period \in s.history[e.of]
    BY <1>4 DEF StateType, SlashesKept
  <2> QED
    BY <1>1, <2>1
<1> QED
  BY <1>1, <1>2, <1>3, <1>4 DEF LastKept, StartsKept, SlashesKept, new

(* The first half of NextPeriod.                                              *)
Closed(s, v) ==
  [s EXCEPT !.period[v] = @ + 1, !.history[v] = @ \cup {s.period[v]}]

(* What closing a period changes.                                             *)
LEMMA ClosedFields ==
  ASSUME NEW s \in StateType, NEW v \in Validators
  PROVE  /\ Closed(s, v) \in StateType
         /\ SameStaking(s, Closed(s, v)) /\ SameCoins(s, Closed(s, v))
         /\ Closed(s, v).slashes = s.slashes /\ Closed(s, v).start = s.start
         /\ Closed(s, v).period = [s.period EXCEPT ![v] = @ + 1]
         /\ Closed(s, v).history = [s.history EXCEPT ![v] = @ \cup {s.period[v]}]
<1> DEFINE period == [s.period EXCEPT ![v] = @ + 1]
           history == [s.history EXCEPT ![v] = @ \cup {s.period[v]}]
           new == Closed(s, v)
<1>1. period \in [Validators -> Int] /\ history \in [Validators -> SUBSET Int]
  <2>1. s.period \in [Validators -> Int] /\ s.history \in [Validators -> SUBSET Int]
    BY DEF StateType
  <2> QED
    BY <2>1
<1>2. new = [s EXCEPT !.period = period, !.history = history]
  BY DEF Closed, StateType
<1> HIDE DEF period, history, new
<1>3. /\ new \in StateType /\ new.slashes = s.slashes /\ new.start = s.start
      /\ new.period = period /\ new.history = history
  BY <1>1, <1>2 DEF StateType
<1>4. SameStaking(s, new) /\ SameCoins(s, new)
  BY <1>2 DEF StateType, SameStaking, SameCoins
<1> QED
  BY <1>3, <1>4 DEF period, history, new

(* NextPeriod leaves coins, staking, starts and slashes alone.                *)
LEMMA NextPeriodFields ==
  ASSUME NEW s \in StateType, NEW v \in Validators
  PROVE  /\ NextPeriod(s, v) \in StateType
         /\ SameStaking(s, NextPeriod(s, v)) /\ SameCoins(s, NextPeriod(s, v))
         /\ NextPeriod(s, v).slashes = s.slashes /\ NextPeriod(s, v).start = s.start
<1> DEFINE mid == Closed(s, v)
<1>1. NextPeriod(s, v) = Collected(mid, v)
  BY DEF NextPeriod, Closed
<1>2. /\ mid \in StateType /\ SameStaking(s, mid) /\ SameCoins(s, mid)
      /\ mid.slashes = s.slashes /\ mid.start = s.start
  BY ClosedFields
<1> HIDE DEF mid
<1> QED
  BY <1>1, <1>2, CollectedFields DEF SameStaking, SameCoins

(* The record of the period that is closed may be one that a new slash refers *)
(* to.                                                                        *)
LEMMA NextPeriodKeeps ==
  ASSUME NEW s \in StateType, NEW v \in Validators, NEW D \in SUBSET Delegations
  PROVE  /\ LastKept(s, Validators) => LastKept(NextPeriod(s, v), Validators)
         /\ StartsKept(s, D) => StartsKept(NextPeriod(s, v), D)
         /\ (\A e \in s.slashes : \/ e.period \in s.history[e.of]
                                  \/ e.of = v /\ e.period = s.period[v])
              => SlashesKept(NextPeriod(s, v))
<1> DEFINE mid == Closed(s, v)
<1>1. /\ mid \in StateType /\ mid.slashes = s.slashes /\ mid.start = s.start
      /\ mid.period = [s.period EXCEPT ![v] = @ + 1]
      /\ mid.history = [s.history EXCEPT ![v] = @ \cup {s.period[v]}]
  BY ClosedFields
<1>2. NextPeriod(s, v) = Collected(mid, v)
  BY DEF NextPeriod, Closed
<1> HIDE DEF mid
<1>3. /\ s.period \in [Validators -> Int] /\ s.history \in [Validators -> SUBSET Int]
      /\ \A e \in s.slashes : e.of \in Validators
  BY DEF StateType
<1>4. LastKept(s, Validators) => LastKept(mid, Validators)
  BY <1>1, <1>3 DEF LastKept
<1>5. StartsKept(s, D) => StartsKept(mid, D)
  BY <1>1, <1>3, DelegationsArePairs DEF StartsKept
<1>6. (\A e \in s.slashes : \/ e.period \in s.history[e.of]
                            \/ (e.of = v /\ e.period = s.period[v]))
        => SlashesKept(mid)
  BY <1>1, <1>3 DEF SlashesKept
<1> QED
  BY <1>1, <1>2, <1>4, <1>5, <1>6, CollectedKeeps

(* Initialize changes one start, and no coins.                                *)
LEMMA InitializeFields ==
  ASSUME NEW s \in StateType, NEW d \in Delegations, NEW h \in Int
  PROVE  /\ Initialize(s, d, h) \in StateType
         /\ SameStaking(s, Initialize(s, d, h)) /\ SameCoins(s, Initialize(s, d, h))
         /\ Initialize(s, d, h).slashes = s.slashes
         /\ Initialize(s, d, h).start[d].height = h
         /\ \A c \in Delegations \ {d} : Initialize(s, d, h).start[c] = s.start[c]
<1> DEFINE mid == [s EXCEPT !.start[d] = [period |-> s.period[d[2]] - 1, height |-> h]]
<1>1. d[2] \in Validators /\ s.period[d[2]] - 1 \in Int
  BY DelegationsArePairs DEF StateType
<1>2. /\ mid \in StateType /\ mid.slashes = s.slashes
      /\ mid.start[d].height = h /\ \A c \in Delegations \ {d} : mid.start[c] = s.start[c]
  BY <1>1 DEF StateType
<1>3. SameStaking(s, mid) /\ SameCoins(s, mid)
  BY DEF StateType, SameStaking, SameCoins
<1>4. Initialize(s, d, h) = Collected(mid, d[2])
  BY DEF Initialize
<1> HIDE DEF mid
<1> QED
  BY <1>1, <1>2, <1>3, <1>4, CollectedFields DEF SameStaking, SameCoins

(* The new start refers to the record of the last period.                     *)
LEMMA InitializeKeeps ==
  ASSUME NEW s \in StateType, NEW d \in Delegations, NEW h \in Int,
         NEW D \in SUBSET Delegations, LastKept(s, Validators)
  PROVE  /\ LastKept(Initialize(s, d, h), Validators)
         /\ StartsKept(s, D) => StartsKept(Initialize(s, d, h), D \cup {d})
         /\ SlashesKept(s) => SlashesKept(Initialize(s, d, h))
<1> DEFINE mid == [s EXCEPT !.start[d] = [period |-> s.period[d[2]] - 1, height |-> h]]
<1>1. d[2] \in Validators /\ s.period[d[2]] - 1 \in Int
  BY DelegationsArePairs DEF StateType
<1>2. /\ mid \in StateType /\ mid.slashes = s.slashes
      /\ mid.period = s.period /\ mid.history = s.history
      /\ mid.start[d].period = s.period[d[2]] - 1
      /\ \A c \in Delegations \ {d} : mid.start[c] = s.start[c]
  BY <1>1 DEF StateType
<1>3. Initialize(s, d, h) = Collected(mid, d[2])
  BY DEF Initialize
<1> HIDE DEF mid
<1>4. LastKept(mid, Validators) /\ (SlashesKept(s) => SlashesKept(mid))
  BY <1>2 DEF LastKept, SlashesKept
<1>5. StartsKept(s, D) => StartsKept(mid, D \cup {d})
  BY <1>1, <1>2 DEF StartsKept, LastKept
<1> QED
  BY <1>1, <1>2, <1>3, <1>4, <1>5, CollectedKeeps

-----------------------------------------------------------------------------
(* The invariants of x/distribution, as sums over functions *)

Holds(s) == s.module * Unit = Sum(s.outstanding, Validators) + s.pool
Covers(s, v) == s.commission[v] + Sum(s.due, Of(v)) <= s.outstanding[v]

(* AssertInvariants in terms of Sum, which the lemmas are about.              *)
LEMMA InvariantsAreSums ==
  ASSUME NEW s
  PROVE  AssertInvariants(s) <=> Holds(s) /\ \A v \in Validators : Covers(s, v)
<1>1. ModuleAccountHolds(s) <=> Holds(s)
  BY DEF ModuleAccountHolds, Holds, Sum
<1>2. CanWithdraw(s) <=> \A v \in Validators : Covers(s, v)
  BY DEF CanWithdraw, Covers, Sum
<1> QED
  BY <1>1, <1>2 DEF AssertInvariants

(* The books depend on the coins only.                                        *)
LEMMA SameCoinsSameDebts ==
  ASSUME NEW s, NEW t, SameCoins(s, t)
  PROVE  /\ AssertInvariants(s) => AssertInvariants(t)
         /\ \A x : Worth(t, x) = Worth(s, x)
<1>1. Holds(s) => Holds(t)
  BY DEF SameCoins, Holds
<1>2. \A v : Covers(s, v) => Covers(t, v)
  BY DEF SameCoins, Covers
<1>3. \A x : Worth(t, x) = Worth(s, x)
  BY DEF SameCoins, Worth, Due
<1> QED
  BY <1>1, <1>2, <1>3, InvariantsAreSums

(* The sums in the books are numbers.                                         *)
LEMMA SumsAreNumbers ==
  ASSUME NEW s \in StateType, NEW v \in Validators
  PROVE  /\ IsFiniteSet(Of(v)) /\ Of(v) \subseteq Delegations
         /\ Sum(s.outstanding, Validators) \in Int /\ Sum(s.due, Of(v)) \in Int
<1>1. IsFiniteSet(Of(v)) /\ Of(v) \subseteq Delegations
  BY PayeesAreFinite, FS_Subset DEF Of
<1>2. s.outstanding \in [Validators -> Int] /\ s.due \in [Delegations -> Int]
  BY DEF StateType
<1>3. Sum(s.outstanding, Validators) \in Int
  BY <1>2, PayeesAreFinite, SumType
<1>4. \A d \in Of(v) : s.due[d] \in Int
  BY <1>1, <1>2
<1>5. Sum(s.due, Of(v)) \in Int
  BY <1>1, <1>4, SumType
<1> QED
  BY <1>1, <1>3, <1>5

(* Commission is paid out of the module account and the outstanding rewards.  *)
LEMMA CommissionRound ==
  ASSUME NEW s \in StateType, NEW v \in Validators
  PROVE  LET new == WithdrawValidatorCommission(s, v)
         IN /\ new \in StateType /\ SameStaking(s, new)
            /\ \A u \in Validators \ {v} : new.commission[u] = s.commission[u]
            /\ 0 <= new.commission[v] /\ new.commission[v] < Unit
            /\ \A x \in Payees : Worth(new, x) = Worth(s, x)
            /\ AssertInvariants(s) => AssertInvariants(new)
<1> DEFINE coins == s.commission[v] \div Unit
           left == s.commission[v] % Unit
           parts == coins * Unit
           new == WithdrawValidatorCommission(s, v)
           bal == [s.bal EXCEPT ![v] = @ + coins]
           outstanding == [s.outstanding EXCEPT ![v] = @ - parts]
           commission == [s.commission EXCEPT ![v] = left]
<1>1. /\ s.bal \in [Payees -> Int] /\ s.module \in Int /\ s.pool \in Int
      /\ s.outstanding \in [Validators -> Int] /\ s.commission \in [Validators -> Int]
      /\ s.due \in [Delegations -> Int] /\ v \in Payees
  BY DEF StateType, Payees
<1>2. /\ coins \in Int /\ left \in Int /\ 0 <= left /\ left < Unit
      /\ s.commission[v] = parts + left
  BY <1>1, InParts
<1>3. parts \in Int
  BY <1>2, CoinsAreCounted
<1>4. /\ bal \in [Payees -> Int] /\ outstanding \in [Validators -> Int]
      /\ commission \in [Validators -> Int] /\ s.module - coins \in Int
  <2> HIDE DEF coins, left, parts
  <2> QED
    BY <1>1, <1>2, <1>3
<1>5. new = [s EXCEPT !.bal = bal, !.module = s.module - coins,
                      !.outstanding = outstanding, !.commission = commission]
  BY DEF WithdrawValidatorCommission, StateType
<1>6. /\ bal[v] = s.bal[v] + coins /\ \A x \in Payees \ {v} : bal[x] = s.bal[x]
      /\ outstanding[v] = s.outstanding[v] - parts
      /\ \A u \in Validators \ {v} : outstanding[u] = s.outstanding[u]
      /\ commission[v] = left /\ \A u \in Validators \ {v} : commission[u] = s.commission[u]
  <2> HIDE DEF coins, left, parts
  <2> QED
    BY <1>1
<1> HIDE DEF coins, left, new, bal, outstanding, commission
<1>7. /\ new \in StateType /\ SameStaking(s, new)
      /\ new.bal = bal /\ new.module = s.module - coins /\ new.pool = s.pool
      /\ new.outstanding = outstanding /\ new.commission = commission /\ new.due = s.due
  BY <1>4, <1>5 DEF StateType, SameStaking
<1>8. ASSUME NEW x \in Payees PROVE Worth(new, x) = Worth(s, x)
  <2>1. CASE x = v
    <3>1. (s.bal[v] + coins) * Unit = s.bal[v] * Unit + parts /\ s.bal[v] * Unit \in Int
      BY <1>1, <1>2, SumOfParts
    <3>2. Worth(new, v) = (s.bal[v] + coins) * Unit + left
      BY <1>6, <1>7 DEF Worth, Due
    <3>3. Worth(s, v) = s.bal[v] * Unit + s.commission[v]
      BY DEF Worth, Due
    <3> HIDE DEF parts
    <3> QED
      BY <1>2, <1>3, <2>1, <3>1, <3>2, <3>3
  <2>2. CASE x # v
    BY <1>6, <1>7, <2>2 DEF Worth, Due
  <2> QED
    BY <2>1, <2>2
<1>9. ASSUME Holds(s) PROVE Holds(new)
  <2>1. Sum(outstanding, Validators)
          = Sum(s.outstanding, Validators) - s.outstanding[v] + outstanding[v]
    BY <1>1, <1>4, <1>6, PayeesAreFinite, SumChange
  <2>2. (s.module - coins) * Unit = s.module * Unit - parts /\ s.module * Unit \in Int
    BY <1>1, <1>2, SumOfParts
  <2>3. Sum(s.outstanding, Validators) \in Int /\ s.outstanding[v] \in Int
    BY <1>1, SumsAreNumbers
  <2>4. Sum(outstanding, Validators) = Sum(s.outstanding, Validators) - parts
    <3> HIDE DEF parts
    <3> QED
      BY <1>3, <1>6, <2>1, <2>3
  <2> HIDE DEF parts
  <2> QED
    BY <1>1, <1>3, <1>7, <1>9, <2>2, <2>3, <2>4 DEF Holds
<1>10. ASSUME NEW u \in Validators, Covers(s, u) PROVE Covers(new, u)
  <2>1. Sum(s.due, Of(u)) \in Int /\ s.outstanding[u] \in Int
    BY <1>1, SumsAreNumbers
  <2> HIDE DEF parts
  <2>2. CASE u = v
    BY <1>2, <1>3, <1>6, <1>7, <1>10, <2>1, <2>2 DEF Covers
  <2>3. CASE u # v
    BY <1>6, <1>7, <1>10, <2>3 DEF Covers
  <2> QED
    BY <2>2, <2>3
<1>11. AssertInvariants(s) => AssertInvariants(new)
  BY <1>9, <1>10, InvariantsAreSums
<1> QED
  BY <1>2, <1>6, <1>7, <1>8, <1>11 DEF new

(* What a withdrawal does to the coins, before it closes the period.          *)
PaidOut(s, d) ==
  [s EXCEPT !.bal[d] = @ + (s.due[d] \div Unit), !.module = @ - (s.due[d] \div Unit),
            !.pool = @ + (s.due[d] % Unit),
            !.outstanding[d[2]] = @ - s.due[d], !.due[d] = 0]

LEMMA PaidOutFields ==
  ASSUME NEW s \in StateType, NEW d \in Delegations
  PROVE  LET new == PaidOut(s, d)
         IN /\ new \in StateType /\ SameStaking(s, new)
            /\ new.commission = s.commission /\ new.due = [s.due EXCEPT ![d] = 0]
            /\ new.period = s.period /\ new.history = s.history
            /\ new.start = s.start /\ new.slashes = s.slashes
            /\ \A x \in Payees \ {d} : Worth(new, x) = Worth(s, x)
            /\ Worth(new, d) > Worth(s, d) - Unit
            /\ AssertInvariants(s) => AssertInvariants(new)
<1> DEFINE v == d[2]
           due == s.due[d]
           coins == due \div Unit
           left == due % Unit
           parts == coins * Unit
           new == PaidOut(s, d)
           bal == [s.bal EXCEPT ![d] = @ + coins]
           outstanding == [s.outstanding EXCEPT ![v] = @ - due]
           dues == [s.due EXCEPT ![d] = 0]
<1>1. /\ s.bal \in [Payees -> Int] /\ s.module \in Int /\ s.pool \in Int
      /\ s.outstanding \in [Validators -> Int] /\ s.commission \in [Validators -> Int]
      /\ s.due \in [Delegations -> Int] /\ d \in Payees /\ v \in Validators
      /\ d \notin Validators /\ due \in Int
  BY PayeesAreFinite, DelegationsArePairs DEF StateType, Payees
<1>2. /\ coins \in Int /\ left \in Int /\ 0 <= left /\ left < Unit
      /\ due = parts + left
  BY <1>1, InParts
<1>3. parts \in Int /\ Unit \in Int
  BY <1>2, CoinsAreCounted
<1>4. /\ bal \in [Payees -> Int] /\ outstanding \in [Validators -> Int]
      /\ dues \in [Delegations -> Int]
      /\ s.module - coins \in Int /\ s.pool + left \in Int
  <2> HIDE DEF due, coins, left, v
  <2> QED
    BY <1>1, <1>2
<1>5. new = [s EXCEPT !.bal = bal, !.module = s.module - coins, !.pool = s.pool + left,
                      !.outstanding = outstanding, !.due = dues]
  BY DEF PaidOut, StateType
<1>6. /\ bal[d] = s.bal[d] + coins /\ \A x \in Payees \ {d} : bal[x] = s.bal[x]
      /\ outstanding[v] = s.outstanding[v] - due
      /\ \A u \in Validators \ {v} : outstanding[u] = s.outstanding[u]
      /\ dues[d] = 0 /\ \A c \in Delegations \ {d} : dues[c] = s.due[c]
  <2> HIDE DEF due, coins, left, v
  <2> QED
    BY <1>1
<1> HIDE DEF coins, left, new, bal, outstanding, dues
<1>7. /\ new \in StateType /\ SameStaking(s, new)
      /\ new.bal = bal /\ new.module = s.module - coins /\ new.pool = s.pool + left
      /\ new.outstanding = outstanding /\ new.commission = s.commission /\ new.due = dues
      /\ new.period = s.period /\ new.history = s.history
      /\ new.start = s.start /\ new.slashes = s.slashes
  BY <1>4, <1>5 DEF StateType, SameStaking
<1> HIDE DEF v
<1>8. Worth(new, d) > Worth(s, d) - Unit
  <2>1. (s.bal[d] + coins) * Unit = s.bal[d] * Unit + parts /\ s.bal[d] * Unit \in Int
    BY <1>1, <1>2, SumOfParts
  <2>2. Worth(new, d) = (s.bal[d] + coins) * Unit + 0
    BY <1>1, <1>6, <1>7 DEF Worth, Due
  <2>3. Worth(s, d) = s.bal[d] * Unit + due
    BY <1>1 DEF Worth, Due
  <2> HIDE DEF parts, due
  <2> QED
    BY <1>1, <1>2, <1>3, <2>1, <2>2, <2>3
<1>9. ASSUME NEW x \in Payees \ {d} PROVE Worth(new, x) = Worth(s, x)
  <2>1. x \in Validators \/ x \in Delegations \ {d}
    BY DEF Payees
  <2> QED
    BY <1>6, <1>7, <2>1 DEF Worth, Due
<1>10. ASSUME Holds(s) PROVE Holds(new)
  <2>1. Sum(outstanding, Validators)
          = Sum(s.outstanding, Validators) - s.outstanding[v] + outstanding[v]
    BY <1>1, <1>4, <1>6, PayeesAreFinite, SumChange
  <2>2. (s.module - coins) * Unit = s.module * Unit - parts /\ s.module * Unit \in Int
    BY <1>1, <1>2, SumOfParts
  <2>3. Sum(s.outstanding, Validators) \in Int /\ s.outstanding[v] \in Int
    BY <1>1, SumsAreNumbers
  <2>4. Sum(outstanding, Validators) = Sum(s.outstanding, Validators) - due
    <3> HIDE DEF due
    <3> QED
      BY <1>1, <1>6, <2>1, <2>3
  <2> HIDE DEF parts, due
  <2> QED
    BY <1>1, <1>2, <1>3, <1>7, <1>10, <2>2, <2>3, <2>4 DEF Holds
<1>11. ASSUME NEW u \in Validators, Covers(s, u) PROVE Covers(new, u)
  <2>1. /\ Sum(s.due, Of(u)) \in Int /\ s.outstanding[u] \in Int
        /\ IsFiniteSet(Of(u)) /\ Of(u) \subseteq Delegations /\ s.commission[u] \in Int
    BY <1>1, SumsAreNumbers
  <2>2. CASE u = v
    <3>1. d \in Of(u)
      BY <2>2 DEF Of, v
    <3>2. Sum(dues, Of(u)) = Sum(s.due, Of(u)) - s.due[d] + dues[d]
      BY <1>1, <1>4, <1>6, <2>1, <3>1, SumChange
    <3>3. Sum(dues, Of(u)) = Sum(s.due, Of(u)) - due
      BY <1>1, <1>6, <2>1, <3>2
    <3> HIDE DEF due
    <3> QED
      BY <1>1, <1>6, <1>7, <1>11, <2>1, <2>2, <3>3 DEF Covers
  <2>3. CASE u # v
    <3>1. d \notin Of(u)
      BY <2>3 DEF Of, v
    <3>2. \A c \in Of(u) : s.due[c] \in Int /\ dues[c] = s.due[c]
      BY <1>1, <1>6, <2>1, <3>1
    <3>3. Sum(dues, Of(u)) = Sum(s.due, Of(u))
      BY <2>1, <3>2, SumAgrees
    <3> QED
      BY <1>6, <1>7, <1>11, <2>3, <3>3 DEF Covers
  <2> QED
    BY <2>2, <2>3
<1>12. AssertInvariants(s) => AssertInvariants(new)
  BY <1>10, <1>11, InvariantsAreSums
<1> QED
  BY <1>7, <1>8, <1>9, <1>12 DEF new, dues

(* A delegation's rewards are paid in whole coins, and the rest goes to the    *)
(* pool; the delegation starts again at height h.                             *)
Pays(s, d, new) ==
  /\ new \in StateType /\ SameStaking(s, new)
  /\ new.commission = s.commission /\ new.due = [s.due EXCEPT ![d] = 0]
  /\ \A x \in Payees \ {d} : Worth(new, x) = Worth(s, x)
  /\ Worth(new, d) > Worth(s, d) - Unit
  /\ AssertInvariants(s) => AssertInvariants(new)
Restarts(s, d, h, new) ==
  /\ new.slashes = s.slashes /\ new.start[d].height = h
  /\ \A c \in Delegations \ {d} : new.start[c] = s.start[c]
  /\ LastKept(s, Validators) =>
       /\ LastKept(new, Validators)
       /\ StartsKept(s, Delegations) => StartsKept(new, Delegations)
       /\ SlashesKept(s) => SlashesKept(new)

LEMMA RewardRound ==
  ASSUME NEW s \in StateType, NEW d \in Delegations, NEW h \in Int
  PROVE  /\ Pays(s, d, WithdrawDelegationRewards(s, d, h))
         /\ Restarts(s, d, h, WithdrawDelegationRewards(s, d, h))
<1> DEFINE paid == PaidOut(s, d)
           mid == NextPeriod(paid, d[2])
           new == Initialize(mid, d, h)
<1>1. WithdrawDelegationRewards(s, d, h) = new
  BY DEF WithdrawDelegationRewards, PaidOut
<1>2. d[2] \in Validators
  BY DelegationsArePairs
<1>3. /\ paid \in StateType /\ SameStaking(s, paid)
      /\ paid.commission = s.commission /\ paid.due = [s.due EXCEPT ![d] = 0]
      /\ paid.period = s.period /\ paid.history = s.history
      /\ paid.start = s.start /\ paid.slashes = s.slashes
      /\ \A x \in Payees \ {d} : Worth(paid, x) = Worth(s, x)
      /\ Worth(paid, d) > Worth(s, d) - Unit
      /\ AssertInvariants(s) => AssertInvariants(paid)
  BY PaidOutFields
<1> HIDE DEF paid
<1>4. /\ mid \in StateType /\ SameStaking(paid, mid) /\ SameCoins(paid, mid)
      /\ mid.slashes = paid.slashes /\ mid.start = paid.start
  BY <1>2, <1>3, NextPeriodFields
<1>5. /\ LastKept(paid, Validators) => LastKept(mid, Validators)
      /\ StartsKept(paid, Delegations) => StartsKept(mid, Delegations)
      /\ SlashesKept(paid) => SlashesKept(mid)
  BY <1>2, <1>3, NextPeriodKeeps DEF SlashesKept
<1> HIDE DEF mid
<1>6. /\ new \in StateType /\ SameStaking(mid, new) /\ SameCoins(mid, new)
      /\ new.slashes = mid.slashes /\ new.start[d].height = h
      /\ \A c \in Delegations \ {d} : new.start[c] = mid.start[c]
  BY <1>4, InitializeFields
<1>7. LastKept(mid, Validators) =>
        /\ LastKept(new, Validators)
        /\ StartsKept(mid, Delegations) => StartsKept(new, Delegations)
        /\ SlashesKept(mid) => SlashesKept(new)
  <2>1. Delegations \cup {d} = Delegations
    OBVIOUS
  <2> QED
    BY <1>4, <2>1, InitializeKeeps
<1> HIDE DEF new
<1>8. /\ LastKept(s, Validators) => LastKept(paid, Validators)
      /\ StartsKept(s, Delegations) => StartsKept(paid, Delegations)
      /\ SlashesKept(s) => SlashesKept(paid)
  BY <1>3 DEF LastKept, StartsKept, SlashesKept
<1>9. SameStaking(s, new) /\ SameCoins(paid, new)
  BY <1>3, <1>4, <1>6 DEF SameStaking, SameCoins
<1>10. /\ AssertInvariants(s) => AssertInvariants(new)
       /\ \A x \in Payees \ {d} : Worth(new, x) = Worth(s, x)
       /\ Worth(new, d) > Worth(s, d) - Unit
  BY <1>3, <1>9, SameCoinsSameDebts
<1>11. new.commission = s.commission /\ new.due = [s.due EXCEPT ![d] = 0]
  BY <1>3, <1>9 DEF SameCoins
<1>12. /\ new.slashes = s.slashes
       /\ \A c \in Delegations \ {d} : new.start[c] = s.start[c]
  BY <1>3, <1>4, <1>6
<1>13. LastKept(s, Validators) =>
         /\ LastKept(new, Validators)
         /\ StartsKept(s, Delegations) => StartsKept(new, Delegations)
         /\ SlashesKept(s) => SlashesKept(new)
  BY <1>5, <1>7, <1>8
<1>14. Pays(s, d, new)
  BY <1>6, <1>9, <1>10, <1>11 DEF Pays
<1>15. Restarts(s, d, h, new)
  BY <1>6, <1>12, <1>13 DEF Restarts
<1> QED
  BY <1>1, <1>14, <1>15

Reinitialized(s, v) == AfterValidatorCreated([s EXCEPT !.pool = @ + s.outstanding[v]], v)

(* A validator starts again; what it has left over goes to the pool.          *)
LEMMA ValidatorRound ==
  ASSUME NEW s \in StateType, NEW v \in Validators
  PROVE  LET new == Reinitialized(s, v)
         IN /\ new \in StateType /\ SameStaking(s, new)
            /\ new.bal = s.bal /\ new.due = s.due /\ new.slashes = s.slashes
            /\ new.commission[v] = 0 /\ new.period[v] - 1 \in new.history[v]
            /\ \A u \in Validators \ {v} : /\ new.commission[u] = s.commission[u]
                                           /\ new.period[u] = s.period[u]
                                           /\ new.history[u] = s.history[u]
            /\ AssertInvariants(s) /\ (\A d \in Delegations : s.due[d] = 0)
                 => AssertInvariants(new)
<1> DEFINE new == Reinitialized(s, v)
           pool == s.pool + s.outstanding[v]
           outstanding == [s.outstanding EXCEPT ![v] = 0]
           commission == [s.commission EXCEPT ![v] = 0]
           period == [s.period EXCEPT ![v] = 1]
           history == [s.history EXCEPT ![v] = @ \cup {0}]
<1>1. /\ s.module \in Int /\ s.pool \in Int
      /\ s.outstanding \in [Validators -> Int] /\ s.commission \in [Validators -> Int]
      /\ s.due \in [Delegations -> Int] /\ s.period \in [Validators -> Int]
      /\ s.history \in [Validators -> SUBSET Int]
  BY DEF StateType
<1>2. /\ pool \in Int /\ outstanding \in [Validators -> Int]
      /\ commission \in [Validators -> Int] /\ period \in [Validators -> Int]
      /\ history \in [Validators -> SUBSET Int]
  BY <1>1
<1>3. new = [s EXCEPT !.pool = pool, !.outstanding = outstanding,
                      !.commission = commission, !.period = period, !.history = history]
  BY DEF Reinitialized, AfterValidatorCreated, StateType
<1>4. /\ outstanding[v] = 0 /\ commission[v] = 0 /\ period[v] = 1 /\ 0 \in history[v]
      /\ \A u \in Validators \ {v} : /\ outstanding[u] = s.outstanding[u]
                                     /\ commission[u] = s.commission[u]
                                     /\ period[u] = s.period[u] /\ history[u] = s.history[u]
  BY <1>1
<1> HIDE DEF new, outstanding, commission, period, history, pool
<1>5. /\ new \in StateType /\ SameStaking(s, new)
      /\ new.bal = s.bal /\ new.due = s.due /\ new.slashes = s.slashes
      /\ new.module = s.module /\ new.pool = pool /\ new.outstanding = outstanding
      /\ new.commission = commission /\ new.period = period /\ new.history = history
  BY <1>2, <1>3 DEF StateType, SameStaking
<1>6. new.period[v] - 1 \in new.history[v]
  BY <1>4, <1>5
<1>7. ASSUME Holds(s) PROVE Holds(new)
  <2>1. Sum(outstanding, Validators)
          = Sum(s.outstanding, Validators) - s.outstanding[v] + outstanding[v]
    BY <1>1, <1>2, <1>4, PayeesAreFinite, SumChange
  <2>2. Sum(s.outstanding, Validators) \in Int /\ s.outstanding[v] \in Int
    BY <1>1, SumsAreNumbers
  <2>3. Sum(outstanding, Validators) + pool = Sum(s.outstanding, Validators) + s.pool
    BY <1>1, <1>4, <2>1, <2>2 DEF pool
  <2> QED
    BY <1>5, <1>7, <2>3 DEF Holds
<1>8. ASSUME NEW u \in Validators, Covers(s, u), \A d \in Delegations : s.due[d] = 0
      PROVE  Covers(new, u)
  <2>1. CASE u = v
    <3>1. IsFiniteSet(Of(u)) /\ \A d \in Of(u) : s.due[d] = 0
      BY <1>8, SumsAreNumbers DEF Of
    <3>2. Sum(s.due, Of(u)) = 0
      BY <3>1, SumZero
    <3> QED
      BY <1>4, <1>5, <2>1, <3>2 DEF Covers
  <2>2. CASE u # v
    BY <1>4, <1>5, <1>8, <2>2 DEF Covers
  <2> QED
    BY <2>1, <2>2
<1>9. AssertInvariants(s) /\ (\A d \in Delegations : s.due[d] = 0) => AssertInvariants(new)
  BY <1>7, <1>8, InvariantsAreSums
<1> QED
  BY <1>4, <1>5, <1>6, <1>9 DEF new

(* A delegation that is due nothing starts again.                             *)
LEMMA DelegationRound ==
  ASSUME NEW s \in StateType, NEW d \in Delegations, NEW h \in Int
  PROVE  LET new == AfterDelegationCreated(s, d, h)
         IN /\ new \in StateType /\ SameStaking(s, new)
            /\ new.slashes = s.slashes /\ new.start[d].height = h
            /\ \A c \in Delegations \ {d} : new.start[c] = s.start[c]
            /\ s.due[d] = 0 => SameCoins(s, new)
            /\ LastKept(s, Validators) =>
                 /\ LastKept(new, Validators)
                 /\ \A D \in SUBSET Delegations :
                      StartsKept(s, D) => StartsKept(new, D \cup {d})
<1> DEFINE mid == NextPeriod(s, d[2])
           none == [mid EXCEPT !.due[d] = 0]
           new == Initialize(none, d, h)
<1>1. AfterDelegationCreated(s, d, h) = new
  BY DEF AfterDelegationCreated
<1>2. d[2] \in Validators
  BY DelegationsArePairs
<1>3. /\ mid \in StateType /\ SameStaking(s, mid) /\ SameCoins(s, mid)
      /\ mid.slashes = s.slashes /\ mid.start = s.start
  BY <1>2, NextPeriodFields
<1>4. /\ LastKept(s, Validators) => LastKept(mid, Validators)
      /\ \A D \in SUBSET Delegations : StartsKept(s, D) => StartsKept(mid, D)
  BY <1>2, NextPeriodKeeps
<1> HIDE DEF mid
<1>5. /\ none \in StateType /\ none.slashes = mid.slashes /\ none.start = mid.start
      /\ none.period = mid.period /\ none.history = mid.history
      /\ mid.due[d] = 0 => none.due = mid.due
  <2> DEFINE due == [mid.due EXCEPT ![d] = 0]
  <2>1. mid.due \in [Delegations -> Int]
    BY <1>3 DEF StateType
  <2>2. due \in [Delegations -> Int] /\ (mid.due[d] = 0 => due = mid.due)
    BY <2>1
  <2>3. none = [mid EXCEPT !.due = due]
    BY <1>3 DEF StateType
  <2> HIDE DEF none, due
  <2> QED
    BY <1>3, <2>2, <2>3 DEF StateType
<1>6. SameStaking(mid, none) /\ (mid.due[d] = 0 => SameCoins(mid, none))
  BY <1>3, <1>5 DEF StateType, SameStaking, SameCoins
<1> HIDE DEF none
<1>7. /\ LastKept(mid, Validators) => LastKept(none, Validators)
      /\ \A D : StartsKept(mid, D) => StartsKept(none, D)
  BY <1>5 DEF LastKept, StartsKept
<1>8. /\ new \in StateType /\ SameStaking(none, new) /\ SameCoins(none, new)
      /\ new.slashes = none.slashes /\ new.start[d].height = h
      /\ \A c \in Delegations \ {d} : new.start[c] = none.start[c]
  BY <1>5, InitializeFields
<1>9. LastKept(none, Validators) =>
        /\ LastKept(new, Validators)
        /\ \A D \in SUBSET Delegations :
             StartsKept(none, D) => StartsKept(new, D \cup {d})
  BY <1>5, InitializeKeeps
<1> HIDE DEF new
<1>10. SameStaking(s, new) /\ (s.due[d] = 0 => SameCoins(s, new))
  BY <1>3, <1>6, <1>8 DEF SameStaking, SameCoins
<1>11. /\ new.slashes = s.slashes
       /\ \A c \in Delegations \ {d} : new.start[c] = s.start[c]
  BY <1>3, <1>5, <1>8
<1>12. LastKept(s, Validators) =>
         /\ LastKept(new, Validators)
         /\ \A D \in SUBSET Delegations :
              StartsKept(s, D) => StartsKept(new, D \cup {d})
  BY <1>4, <1>7, <1>9
<1> QED
  BY <1>1, <1>8, <1>10, <1>11, <1>12

-----------------------------------------------------------------------------
(* The loops of the preparation, as their rounds *)

(* The commission of all validators.                                          *)
LEMMA CommissionRounds ==
  ASSUME NEW s \in StateType
  PROVE  \E f : /\ f[{}] = s /\ WithdrawCommissions(s) = f[Validators]
                /\ \A t \in SUBSET Validators : f[t] \in StateType
                /\ \A t \in SUBSET Validators :
                     t # {} => f[t] = WithdrawValidatorCommission(f[t \ {Pick(t)}], Pick(t))
<1> DEFINE body == [p \in Validators \X StateType |-> WithdrawValidatorCommission(p[2], p[1])]
           Round(f, t) ==
             IF t = {} THEN s ELSE WithdrawValidatorCommission(f[t \ {Pick(t)}], Pick(t))
           IsLoop(f) == f = [t \in SUBSET Validators |-> Round(f, t)]
           loop == CHOOSE f : IsLoop(f)
<1>1. WithdrawCommissions(s) = loop[Validators]
  BY DEF WithdrawCommissions, FoldSet, MapThenFoldSet, Pick
<1>2. \A x \in Validators, r \in StateType : WithdrawValidatorCommission(r, x) \in StateType
  BY CommissionRound
<1>3. body \in [Validators \X StateType -> StateType]
  BY <1>2
<1>4. PICK g \in [SUBSET Validators -> StateType] : IsFold(g, Validators, s, body)
  <2> HIDE DEF body
  <2> QED
    BY <1>3, PayeesAreFinite, TypedFoldExists
<1>5. IsLoop(g)
  <2>1. ASSUME NEW t \in SUBSET Validators, t # {}
        PROVE  body[<<Pick(t), g[t \ {Pick(t)}]>>] = Round(g, t)
    <3>1. Pick(t) \in Validators /\ g[t \ {Pick(t)}] \in StateType
      BY <2>1, PickIsIn
    <3> QED
      BY <2>1, <3>1
  <2> HIDE DEF body
  <2> QED
    BY <1>4, <2>1 DEF IsFold
<1>6. IsLoop(loop)
  <2> HIDE DEF IsLoop
  <2> QED
    BY <1>5
<1> HIDE DEF loop
<1>7. /\ loop[{}] = s
      /\ \A t \in SUBSET Validators :
           t # {} => loop[t] = WithdrawValidatorCommission(loop[t \ {Pick(t)}], Pick(t))
  BY <1>6
<1>8. \A t \in SUBSET Validators : loop[t] \in StateType
  <2>1. ASSUME NEW t \in SUBSET Validators, t # {}, loop[t \ {Pick(t)}] \in StateType
        PROVE  loop[t] \in StateType
    <3>1. Pick(t) \in Validators
      BY <2>1, PickIsIn
    <3>2. loop[t] = WithdrawValidatorCommission(loop[t \ {Pick(t)}], Pick(t))
      BY <1>7, <2>1
    <3> QED
      BY <1>2, <2>1, <3>1, <3>2
  <2> QED
    BY <1>7, <2>1, PayeesAreFinite, FoldCloses
<1> QED
  BY <1>1, <1>7, <1>8

(* The rewards of all delegations.                                            *)
LEMMA RewardRounds ==
  ASSUME NEW s \in StateType, NEW h \in Int
  PROVE  \E f : /\ f[{}] = s /\ WithdrawRewards(s, h) = f[Delegations]
                /\ \A t \in SUBSET Delegations : f[t] \in StateType
                /\ \A t \in SUBSET Delegations :
                     t # {} => f[t] = WithdrawDelegationRewards(f[t \ {Pick(t)}], Pick(t), h)
<1> DEFINE body == [p \in Delegations \X StateType |-> WithdrawDelegationRewards(p[2], p[1], h)]
           Round(f, t) ==
             IF t = {} THEN s ELSE WithdrawDelegationRewards(f[t \ {Pick(t)}], Pick(t), h)
           IsLoop(f) == f = [t \in SUBSET Delegations |-> Round(f, t)]
           loop == CHOOSE f : IsLoop(f)
<1>1. WithdrawRewards(s, h) = loop[Delegations]
  BY DEF WithdrawRewards, FoldSet, MapThenFoldSet, Pick
<1>2. \A x \in Delegations, r \in StateType : WithdrawDelegationRewards(r, x, h) \in StateType
  BY RewardRound DEF Pays
<1>3. body \in [Delegations \X StateType -> StateType]
  BY <1>2
<1>4. PICK g \in [SUBSET Delegations -> StateType] : IsFold(g, Delegations, s, body)
  <2> HIDE DEF body
  <2> QED
    BY <1>3, PayeesAreFinite, TypedFoldExists
<1>5. IsLoop(g)
  <2>1. ASSUME NEW t \in SUBSET Delegations, t # {}
        PROVE  body[<<Pick(t), g[t \ {Pick(t)}]>>] = Round(g, t)
    <3>1. Pick(t) \in Delegations /\ g[t \ {Pick(t)}] \in StateType
      BY <2>1, PickIsIn
    <3> QED
      BY <2>1, <3>1
  <2> HIDE DEF body
  <2> QED
    BY <1>4, <2>1 DEF IsFold
<1>6. IsLoop(loop)
  <2> HIDE DEF IsLoop
  <2> QED
    BY <1>5
<1> HIDE DEF loop
<1>7. /\ loop[{}] = s
      /\ \A t \in SUBSET Delegations :
           t # {} => loop[t] = WithdrawDelegationRewards(loop[t \ {Pick(t)}], Pick(t), h)
  BY <1>6
<1>8. \A t \in SUBSET Delegations : loop[t] \in StateType
  <2>1. ASSUME NEW t \in SUBSET Delegations, t # {}, loop[t \ {Pick(t)}] \in StateType
        PROVE  loop[t] \in StateType
    <3>1. Pick(t) \in Delegations
      BY <2>1, PickIsIn
    <3>2. loop[t] = WithdrawDelegationRewards(loop[t \ {Pick(t)}], Pick(t), h)
      BY <1>7, <2>1
    <3> QED
      BY <1>2, <2>1, <3>1, <3>2
  <2> QED
    BY <1>7, <2>1, PayeesAreFinite, FoldCloses
<1> QED
  BY <1>1, <1>7, <1>8

(* All validators start again.                                                *)
LEMMA ValidatorRounds ==
  ASSUME NEW s \in StateType
  PROVE  \E f : /\ f[{}] = s /\ ReinitValidators(s) = f[Validators]
                /\ \A t \in SUBSET Validators : f[t] \in StateType
                /\ \A t \in SUBSET Validators :
                     t # {} => f[t] = Reinitialized(f[t \ {Pick(t)}], Pick(t))
<1> DEFINE body == [p \in Validators \X StateType |-> Reinitialized(p[2], p[1])]
           Round(f, t) ==
             IF t = {} THEN s ELSE Reinitialized(f[t \ {Pick(t)}], Pick(t))
           IsLoop(f) == f = [t \in SUBSET Validators |-> Round(f, t)]
           loop == CHOOSE f : IsLoop(f)
<1>1. ReinitValidators(s) = loop[Validators]
  BY DEF ReinitValidators, Reinitialized, FoldSet, MapThenFoldSet, Pick
<1>2. \A x \in Validators, r \in StateType : Reinitialized(r, x) \in StateType
  BY ValidatorRound
<1>3. body \in [Validators \X StateType -> StateType]
  BY <1>2
<1>4. PICK g \in [SUBSET Validators -> StateType] : IsFold(g, Validators, s, body)
  <2> HIDE DEF body
  <2> QED
    BY <1>3, PayeesAreFinite, TypedFoldExists
<1>5. IsLoop(g)
  <2>1. ASSUME NEW t \in SUBSET Validators, t # {}
        PROVE  body[<<Pick(t), g[t \ {Pick(t)}]>>] = Round(g, t)
    <3>1. Pick(t) \in Validators /\ g[t \ {Pick(t)}] \in StateType
      BY <2>1, PickIsIn
    <3> QED
      BY <2>1, <3>1
  <2> HIDE DEF body
  <2> QED
    BY <1>4, <2>1 DEF IsFold
<1>6. IsLoop(loop)
  <2> HIDE DEF IsLoop
  <2> QED
    BY <1>5
<1> HIDE DEF loop
<1>7. /\ loop[{}] = s
      /\ \A t \in SUBSET Validators :
           t # {} => loop[t] = Reinitialized(loop[t \ {Pick(t)}], Pick(t))
  BY <1>6
<1>8. \A t \in SUBSET Validators : loop[t] \in StateType
  <2>1. ASSUME NEW t \in SUBSET Validators, t # {}, loop[t \ {Pick(t)}] \in StateType
        PROVE  loop[t] \in StateType
    <3>1. Pick(t) \in Validators
      BY <2>1, PickIsIn
    <3>2. loop[t] = Reinitialized(loop[t \ {Pick(t)}], Pick(t))
      BY <1>7, <2>1
    <3> QED
      BY <1>2, <2>1, <3>1, <3>2
  <2> QED
    BY <1>7, <2>1, PayeesAreFinite, FoldCloses
<1> QED
  BY <1>1, <1>7, <1>8

(* All delegations start again.                                               *)
LEMMA DelegationRounds ==
  ASSUME NEW s \in StateType, NEW h \in Int
  PROVE  \E f : /\ f[{}] = s /\ ReinitDelegations(s, h) = f[Delegations]
                /\ \A t \in SUBSET Delegations : f[t] \in StateType
                /\ \A t \in SUBSET Delegations :
                     t # {} => f[t] = AfterDelegationCreated(f[t \ {Pick(t)}], Pick(t), h)
<1> DEFINE body == [p \in Delegations \X StateType |-> AfterDelegationCreated(p[2], p[1], h)]
           Round(f, t) ==
             IF t = {} THEN s ELSE AfterDelegationCreated(f[t \ {Pick(t)}], Pick(t), h)
           IsLoop(f) == f = [t \in SUBSET Delegations |-> Round(f, t)]
           loop == CHOOSE f : IsLoop(f)
<1>1. ReinitDelegations(s, h) = loop[Delegations]
  BY DEF ReinitDelegations, FoldSet, MapThenFoldSet, Pick
<1>2. \A x \in Delegations, r \in StateType : AfterDelegationCreated(r, x, h) \in StateType
  BY DelegationRound
<1>3. body \in [Delegations \X StateType -> StateType]
  BY <1>2
<1>4. PICK g \in [SUBSET Delegations -> StateType] : IsFold(g, Delegations, s, body)
  <2> HIDE DEF body
  <2> QED
    BY <1>3, PayeesAreFinite, TypedFoldExists
<1>5. IsLoop(g)
  <2>1. ASSUME NEW t \in SUBSET Delegations, t # {}
        PROVE  body[<<Pick(t), g[t \ {Pick(t)}]>>] = Round(g, t)
    <3>1. Pick(t) \in Delegations /\ g[t \ {Pick(t)}] \in StateType
      BY <2>1, PickIsIn
    <3> QED
      BY <2>1, <3>1
  <2> HIDE DEF body
  <2> QED
    BY <1>4, <2>1 DEF IsFold
<1>6. IsLoop(loop)
  <2> HIDE DEF IsLoop
  <2> QED
    BY <1>5
<1> HIDE DEF loop
<1>7. /\ loop[{}] = s
      /\ \A t \in SUBSET Delegations :
           t # {} => loop[t] = AfterDelegationCreated(loop[t \ {Pick(t)}], Pick(t), h)
  BY <1>6
<1>8. \A t \in SUBSET Delegations : loop[t] \in StateType
  <2>1. ASSUME NEW t \in SUBSET Delegations, t # {}, loop[t \ {Pick(t)}] \in StateType
        PROVE  loop[t] \in StateType
    <3>1. Pick(t) \in Delegations
      BY <2>1, PickIsIn
    <3>2. loop[t] = AfterDelegationCreated(loop[t \ {Pick(t)}], Pick(t), h)
      BY <1>7, <2>1
    <3> QED
      BY <1>2, <2>1, <3>1, <3>2
  <2> QED
    BY <1>7, <2>1, PayeesAreFinite, FoldCloses
<1> QED
  BY <1>1, <1>7, <1>8

-----------------------------------------------------------------------------
(* What the loops achieve *)

(* After the first loop less than a coin of commission is left to anyone, and *)
(* no one has lost anything.                                                  *)
LEMMA CommissionsLoop ==
  ASSUME NEW s \in StateType
  PROVE  LET new == WithdrawCommissions(s)
         IN /\ new \in StateType /\ SameStaking(s, new)
            /\ \A v \in Validators : 0 <= new.commission[v] /\ new.commission[v] < Unit
            /\ \A x \in Payees : Worth(new, x) = Worth(s, x)
            /\ AssertInvariants(s) => AssertInvariants(new)
<1>1. PICK f : /\ f[{}] = s /\ WithdrawCommissions(s) = f[Validators]
               /\ \A t \in SUBSET Validators : f[t] \in StateType
               /\ \A t \in SUBSET Validators :
                    t # {} => f[t] = WithdrawValidatorCommission(f[t \ {Pick(t)}], Pick(t))
  BY CommissionRounds
<1> DEFINE J(t, r) == /\ SameStaking(s, r)
                      /\ \A v \in t : 0 <= r.commission[v] /\ r.commission[v] < Unit
                      /\ \A x \in Payees : Worth(r, x) = Worth(s, x)
                      /\ AssertInvariants(s) => AssertInvariants(r)
           Q == {p \in (SUBSET Validators) \X StateType : J(p[1], p[2])}
<1>2. \A t \in SUBSET Validators : <<t, f[t]>> \in Q <=> J(t, f[t])
  <2> HIDE DEF J
  <2> QED
    BY <1>1
<1>3. J({}, f[{}])
  BY <1>1 DEF SameStaking
<1>4. ASSUME NEW t \in SUBSET Validators, t # {}, J(t \ {Pick(t)}, f[t \ {Pick(t)}])
      PROVE  J(t, f[t])
  <2> DEFINE x == Pick(t)
             old == f[t \ {x}]
  <2>1. x \in t /\ x \in Validators /\ old \in StateType
    BY <1>1, <1>4, PickIsIn
  <2>2. f[t] = WithdrawValidatorCommission(old, x)
    BY <1>1, <1>4
  <2> HIDE DEF x, old
  <2>3. /\ SameStaking(old, f[t])
        /\ \A u \in Validators \ {x} : f[t].commission[u] = old.commission[u]
        /\ 0 <= f[t].commission[x] /\ f[t].commission[x] < Unit
        /\ \A y \in Payees : Worth(f[t], y) = Worth(old, y)
        /\ AssertInvariants(old) => AssertInvariants(f[t])
    BY <2>1, <2>2, CommissionRound
  <2>4. J(t \ {x}, old)
    BY <1>4 DEF x, old
  <2>5. SameStaking(s, f[t])
    BY <2>3, <2>4 DEF SameStaking
  <2>6. \A v \in t : 0 <= f[t].commission[v] /\ f[t].commission[v] < Unit
    BY <2>3, <2>4
  <2> QED
    BY <2>3, <2>4, <2>5, <2>6
<1> HIDE DEF J, Q
<1>5. \A t \in SUBSET Validators : J(t, f[t])
  <2>1. <<{}, f[{}]>> \in Q
    BY <1>2, <1>3
  <2>2. \A t \in SUBSET Validators :
          t # {} /\ <<t \ {Pick(t)}, f[t \ {Pick(t)}]>> \in Q => <<t, f[t]>> \in Q
    BY <1>2, <1>4
  <2>3. \A t \in SUBSET Validators : <<t, f[t]>> \in Q
    BY <2>1, <2>2, PayeesAreFinite, FoldInduction
  <2> QED
    BY <1>2, <2>3
<1>6. J(Validators, f[Validators])
  BY <1>5
<1> QED
  BY <1>1, <1>6 DEF J

(* After the second loop no delegation is due anything, and none has lost a   *)
(* whole coin.                                                                *)
LEMMA RewardsLoop ==
  ASSUME NEW s \in StateType, NEW h \in Int
  PROVE  LET new == WithdrawRewards(s, h)
         IN /\ new \in StateType /\ SameStaking(s, new) /\ new.commission = s.commission
            /\ \A d \in Delegations : new.due[d] = 0
            /\ \A v \in Validators : Worth(new, v) = Worth(s, v)
            /\ \A d \in Delegations : Worth(new, d) > Worth(s, d) - Unit
            /\ AssertInvariants(s) => AssertInvariants(new)
<1>1. PICK f : /\ f[{}] = s /\ WithdrawRewards(s, h) = f[Delegations]
               /\ \A t \in SUBSET Delegations : f[t] \in StateType
               /\ \A t \in SUBSET Delegations :
                    t # {} => f[t] = WithdrawDelegationRewards(f[t \ {Pick(t)}], Pick(t), h)
  BY RewardRounds
<1> DEFINE J(t, r) == /\ SameStaking(s, r) /\ r.commission = s.commission
                      /\ \A d \in t : r.due[d] = 0
                      /\ \A x \in Payees \ t : Worth(r, x) = Worth(s, x)
                      /\ \A d \in t : Worth(r, d) > Worth(s, d) - Unit
                      /\ AssertInvariants(s) => AssertInvariants(r)
           Q == {p \in (SUBSET Delegations) \X StateType : J(p[1], p[2])}
<1>2. \A t \in SUBSET Delegations : <<t, f[t]>> \in Q <=> J(t, f[t])
  <2> HIDE DEF J
  <2> QED
    BY <1>1
<1>3. J({}, f[{}])
  BY <1>1 DEF SameStaking
<1>4. ASSUME NEW t \in SUBSET Delegations, t # {}, J(t \ {Pick(t)}, f[t \ {Pick(t)}])
      PROVE  J(t, f[t])
  <2> DEFINE d == Pick(t)
             old == f[t \ {d}]
  <2>1. d \in t /\ d \in Delegations /\ d \in Payees /\ old \in StateType
    BY <1>1, <1>4, PickIsIn DEF Payees
  <2>2. f[t] = WithdrawDelegationRewards(old, d, h)
    BY <1>1, <1>4
  <2> HIDE DEF d, old
  <2>3. /\ SameStaking(old, f[t]) /\ f[t].commission = old.commission
        /\ f[t].due = [old.due EXCEPT ![d] = 0]
        /\ \A x \in Payees \ {d} : Worth(f[t], x) = Worth(old, x)
        /\ Worth(f[t], d) > Worth(old, d) - Unit
        /\ AssertInvariants(old) => AssertInvariants(f[t])
    BY <2>1, <2>2, RewardRound DEF Pays
  <2>4. J(t \ {d}, old)
    BY <1>4 DEF d, old
  <2>5. SameStaking(s, f[t])
    BY <2>3, <2>4 DEF SameStaking
  <2>6. old.due \in [Delegations -> Int]
    BY <2>1 DEF StateType
  <2>7. \A c \in t : f[t].due[c] = 0
    BY <2>3, <2>4, <2>6
  <2>8. Worth(old, d) = Worth(s, d)
    BY <2>1, <2>4
  <2>9. \A x \in Payees \ t : Worth(f[t], x) = Worth(s, x)
    BY <2>1, <2>3, <2>4
  <2>10. ASSUME NEW c \in t PROVE Worth(f[t], c) > Worth(s, c) - Unit
    <3>1. CASE c = d
      BY <2>3, <2>8, <3>1
    <3>2. CASE c # d
      <4>1. c \in Payees \ {d} /\ c \in t \ {d}
        BY <3>2 DEF Payees
      <4> QED
        BY <2>3, <2>4, <4>1
    <3> QED
      BY <3>1, <3>2
  <2> QED
    BY <2>3, <2>4, <2>5, <2>7, <2>9, <2>10
<1> HIDE DEF J, Q
<1>5. \A t \in SUBSET Delegations : J(t, f[t])
  <2>1. <<{}, f[{}]>> \in Q
    BY <1>2, <1>3
  <2>2. \A t \in SUBSET Delegations :
          t # {} /\ <<t \ {Pick(t)}, f[t \ {Pick(t)}]>> \in Q => <<t, f[t]>> \in Q
    BY <1>2, <1>4
  <2>3. \A t \in SUBSET Delegations : <<t, f[t]>> \in Q
    BY <2>1, <2>2, PayeesAreFinite, FoldInduction
  <2> QED
    BY <1>2, <2>3
<1>6. J(Delegations, f[Delegations])
  BY <1>5
<1>7. Validators \subseteq Payees \ Delegations
  BY PayeesAreFinite DEF Payees
<1> QED
  BY <1>1, <1>6, <1>7 DEF J

(* After the third loop no validator has commission, what was outstanding is in *)
(* the pool, and the first record of each history is there again.             *)
LEMMA ValidatorsLoop ==
  ASSUME NEW s \in StateType, \A d \in Delegations : s.due[d] = 0
  PROVE  LET new == ReinitValidators(s)
         IN /\ new \in StateType /\ SameStaking(s, new)
            /\ new.bal = s.bal /\ new.due = s.due /\ new.slashes = s.slashes
            /\ \A v \in Validators : new.commission[v] = 0
            /\ LastKept(new, Validators)
            /\ AssertInvariants(s) => AssertInvariants(new)
<1>1. PICK f : /\ f[{}] = s /\ ReinitValidators(s) = f[Validators]
               /\ \A t \in SUBSET Validators : f[t] \in StateType
               /\ \A t \in SUBSET Validators :
                    t # {} => f[t] = Reinitialized(f[t \ {Pick(t)}], Pick(t))
  BY ValidatorRounds
<1> DEFINE J(t, r) == /\ SameStaking(s, r)
                      /\ r.bal = s.bal /\ r.due = s.due /\ r.slashes = s.slashes
                      /\ \A v \in t : r.commission[v] = 0
                      /\ LastKept(r, t)
                      /\ AssertInvariants(s) => AssertInvariants(r)
           Q == {p \in (SUBSET Validators) \X StateType : J(p[1], p[2])}
<1>2. \A t \in SUBSET Validators : <<t, f[t]>> \in Q <=> J(t, f[t])
  <2> HIDE DEF J
  <2> QED
    BY <1>1
<1>3. J({}, f[{}])
  BY <1>1 DEF SameStaking, LastKept
<1>4. ASSUME NEW t \in SUBSET Validators, t # {}, J(t \ {Pick(t)}, f[t \ {Pick(t)}])
      PROVE  J(t, f[t])
  <2> DEFINE x == Pick(t)
             old == f[t \ {x}]
  <2>1. x \in t /\ x \in Validators /\ old \in StateType
    BY <1>1, <1>4, PickIsIn
  <2>2. f[t] = Reinitialized(old, x)
    BY <1>1, <1>4
  <2> HIDE DEF x, old
  <2>3. /\ SameStaking(old, f[t])
        /\ f[t].bal = old.bal /\ f[t].due = old.due /\ f[t].slashes = old.slashes
        /\ f[t].commission[x] = 0 /\ f[t].period[x] - 1 \in f[t].history[x]
        /\ \A u \in Validators \ {x} : /\ f[t].commission[u] = old.commission[u]
                                       /\ f[t].period[u] = old.period[u]
                                       /\ f[t].history[u] = old.history[u]
        /\ AssertInvariants(old) /\ (\A d \in Delegations : old.due[d] = 0)
             => AssertInvariants(f[t])
    BY <2>1, <2>2, ValidatorRound
  <2>4. J(t \ {x}, old)
    BY <1>4 DEF x, old
  <2>5. SameStaking(s, f[t])
    BY <2>3, <2>4 DEF SameStaking
  <2>6. \A v \in t : f[t].commission[v] = 0
    BY <2>3, <2>4
  <2>7. LastKept(f[t], t)
    BY <2>3, <2>4 DEF LastKept
  <2>8. AssertInvariants(s) => AssertInvariants(f[t])
    BY <2>3, <2>4
  <2> QED
    BY <2>3, <2>4, <2>5, <2>6, <2>7, <2>8
<1> HIDE DEF J, Q
<1>5. \A t \in SUBSET Validators : J(t, f[t])
  <2>1. <<{}, f[{}]>> \in Q
    BY <1>2, <1>3
  <2>2. \A t \in SUBSET Validators :
          t # {} /\ <<t \ {Pick(t)}, f[t \ {Pick(t)}]>> \in Q => <<t, f[t]>> \in Q
    BY <1>2, <1>4
  <2>3. \A t \in SUBSET Validators : <<t, f[t]>> \in Q
    BY <2>1, <2>2, PayeesAreFinite, FoldInduction
  <2> QED
    BY <1>2, <2>3
<1>6. J(Validators, f[Validators])
  BY <1>5
<1> QED
  BY <1>1, <1>6 DEF J

(* After the last loop every delegation starts at height h, from a record that *)
(* is there. No coins have moved.                                             *)
LEMMA DelegationsLoop ==
  ASSUME NEW s \in StateType, NEW h \in Int, LastKept(s, Validators),
         \A d \in Delegations : s.due[d] = 0
  PROVE  LET new == ReinitDelegations(s, h)
         IN /\ new \in StateType /\ SameStaking(s, new) /\ SameCoins(s, new)
            /\ new.slashes = s.slashes
            /\ LastKept(new, Validators) /\ StartsKept(new, Delegations)
            /\ \A d \in Delegations : new.start[d].height = h
<1>1. PICK f : /\ f[{}] = s /\ ReinitDelegations(s, h) = f[Delegations]
               /\ \A t \in SUBSET Delegations : f[t] \in StateType
               /\ \A t \in SUBSET Delegations :
                    t # {} => f[t] = AfterDelegationCreated(f[t \ {Pick(t)}], Pick(t), h)
  BY DelegationRounds
<1> DEFINE J(t, r) == /\ SameStaking(s, r) /\ SameCoins(s, r) /\ r.slashes = s.slashes
                      /\ LastKept(r, Validators) /\ StartsKept(r, t)
                      /\ \A d \in t : r.start[d].height = h
           Q == {p \in (SUBSET Delegations) \X StateType : J(p[1], p[2])}
<1>2. \A t \in SUBSET Delegations : <<t, f[t]>> \in Q <=> J(t, f[t])
  <2> HIDE DEF J
  <2> QED
    BY <1>1
<1>3. J({}, f[{}])
  BY <1>1 DEF SameStaking, SameCoins, StartsKept
<1>4. ASSUME NEW t \in SUBSET Delegations, t # {}, J(t \ {Pick(t)}, f[t \ {Pick(t)}])
      PROVE  J(t, f[t])
  <2> DEFINE d == Pick(t)
             rest == t \ {d}
             old == f[rest]
  <2>1. /\ d \in t /\ d \in Delegations /\ old \in StateType
        /\ rest \in SUBSET Delegations /\ rest \cup {d} = t
    BY <1>1, <1>4, PickIsIn
  <2>2. f[t] = AfterDelegationCreated(old, d, h)
    BY <1>1, <1>4
  <2>3. J(rest, old)
    BY <1>4
  <2>4. \A c \in t : c = d \/ c \in rest
    OBVIOUS
  <2>5. \A c \in rest : c \in Delegations \ {d}
    OBVIOUS
  <2> HIDE DEF d, old, rest
  <2>6. old.due[d] = 0
    BY <2>1, <2>3 DEF SameCoins
  <2>7. /\ SameStaking(old, f[t]) /\ SameCoins(old, f[t])
        /\ f[t].slashes = old.slashes /\ f[t].start[d].height = h
        /\ \A c \in Delegations \ {d} : f[t].start[c] = old.start[c]
        /\ LastKept(old, Validators) =>
             /\ LastKept(f[t], Validators)
             /\ \A D \in SUBSET Delegations :
                  StartsKept(old, D) => StartsKept(f[t], D \cup {d})
    BY <2>1, <2>2, <2>6, DelegationRound
  <2>8. SameStaking(s, f[t]) /\ SameCoins(s, f[t])
    BY <2>3, <2>7 DEF SameStaking, SameCoins
  <2>9. StartsKept(f[t], t)
    BY <2>1, <2>3, <2>7
  <2>10. \A c \in t : f[t].start[c].height = h
    BY <2>3, <2>4, <2>5, <2>7
  <2> QED
    BY <2>3, <2>7, <2>8, <2>9, <2>10
<1> HIDE DEF J, Q
<1>5. \A t \in SUBSET Delegations : J(t, f[t])
  <2>1. <<{}, f[{}]>> \in Q
    BY <1>2, <1>3
  <2>2. \A t \in SUBSET Delegations :
          t # {} /\ <<t \ {Pick(t)}, f[t \ {Pick(t)}]>> \in Q => <<t, f[t]>> \in Q
    BY <1>2, <1>4
  <2>3. \A t \in SUBSET Delegations : <<t, f[t]>> \in Q
    BY <2>1, <2>2, PayeesAreFinite, FoldInduction
  <2> QED
    BY <1>2, <2>3
<1>6. J(Delegations, f[Delegations])
  BY <1>5
<1> QED
  BY <1>1, <1>6 DEF J

(* Clearing slashes and history moves no coins.                               *)
LEMMA ClearedFields ==
  ASSUME NEW s \in StateType
  PROVE  /\ ClearHistory(s) \in StateType /\ ClearHistory(s).slashes = {}
         /\ SameStaking(s, ClearHistory(s)) /\ SameCoins(s, ClearHistory(s))
<1> DEFINE history == [v \in Validators |-> {}]
           new == ClearHistory(s)
<1>1. history \in [Validators -> SUBSET Int]
  OBVIOUS
<1>2. new = [s EXCEPT !.slashes = {}, !.history = history]
  BY DEF ClearHistory
<1> HIDE DEF history, new
<1>3. new \in StateType /\ new.slashes = {}
  BY <1>1, <1>2 DEF StateType
<1>4. SameStaking(s, new) /\ SameCoins(s, new)
  BY <1>2 DEF StateType, SameStaking, SameCoins
<1> QED
  BY <1>3, <1>4 DEF new

(* The four loops together: everyone is paid all but a fraction, the books    *)
(* balance, and nothing of the old chain's history is referred to.            *)
LEMMA RewardsPrepared ==
  ASSUME NEW s \in StateType, NEW h \in Int, AssertInvariants(s)
  PROVE  LET new == PreparedRewards(s, h)
         IN /\ new \in StateType /\ SameStaking(s, new) /\ AssertInvariants(new)
            /\ \A x \in Payees : Worth(new, x) > Worth(s, x) - Unit
            /\ new.slashes = {} /\ \A d \in Delegations : new.start[d].height = 0
            /\ LastKept(new, Validators) /\ StartsKept(new, Delegations)
<1> DEFINE paid == WithdrawCommissions(s)
           due == WithdrawRewards(paid, h)
           clear == ClearHistory(due)
           vals == ReinitValidators(clear)
           new == ReinitDelegations(vals, 0)
<1>1. PreparedRewards(s, h) = new
  BY DEF PreparedRewards
<1>2. /\ paid \in StateType /\ SameStaking(s, paid)
      /\ \A v \in Validators : 0 <= paid.commission[v] /\ paid.commission[v] < Unit
      /\ \A x \in Payees : Worth(paid, x) = Worth(s, x)
      /\ AssertInvariants(paid)
  BY CommissionsLoop
<1> HIDE DEF paid
<1>3. /\ due \in StateType /\ SameStaking(paid, due) /\ due.commission = paid.commission
      /\ \A d \in Delegations : due.due[d] = 0
      /\ \A v \in Validators : Worth(due, v) = Worth(paid, v)
      /\ \A d \in Delegations : Worth(due, d) > Worth(paid, d) - Unit
      /\ AssertInvariants(due)
  BY <1>2, RewardsLoop
<1> HIDE DEF due
<1>4. /\ clear \in StateType /\ clear.slashes = {}
      /\ SameStaking(due, clear) /\ SameCoins(due, clear)
  BY <1>3, ClearedFields
<1>5. AssertInvariants(clear)
  BY <1>3, <1>4, SameCoinsSameDebts
<1> HIDE DEF clear
<1>6. \A d \in Delegations : clear.due[d] = 0
  BY <1>3, <1>4 DEF SameCoins
<1>7. /\ vals \in StateType /\ SameStaking(clear, vals)
      /\ vals.bal = clear.bal /\ vals.due = clear.due /\ vals.slashes = clear.slashes
      /\ \A v \in Validators : vals.commission[v] = 0
      /\ LastKept(vals, Validators) /\ AssertInvariants(vals)
  BY <1>4, <1>5, <1>6, ValidatorsLoop
<1> HIDE DEF vals
<1>8. /\ new \in StateType /\ SameStaking(vals, new) /\ SameCoins(vals, new)
      /\ new.slashes = vals.slashes
      /\ LastKept(new, Validators) /\ StartsKept(new, Delegations)
      /\ \A d \in Delegations : new.start[d].height = 0
  BY <1>6, <1>7, DelegationsLoop
<1> HIDE DEF new
<1>9. AssertInvariants(new)
  BY <1>7, <1>8, SameCoinsSameDebts
<1>10. SameStaking(s, new)
  BY <1>2, <1>3, <1>4, <1>7, <1>8 DEF SameStaking
<1>11. new.bal = due.bal /\ new.due = due.due /\ \A v \in Validators : new.commission[v] = 0
  BY <1>4, <1>7, <1>8 DEF SameCoins
<1>12. ASSUME NEW d \in Delegations PROVE Worth(new, d) > Worth(s, d) - Unit
  <2>1. d \notin Validators /\ d \in Payees
    BY PayeesAreFinite DEF Payees
  <2>2. Worth(new, d) = Worth(due, d)
    BY <1>11, <2>1 DEF Worth, Due
  <2> QED
    BY <1>2, <1>3, <2>1, <2>2
<1>13. ASSUME NEW v \in Validators PROVE Worth(new, v) > Worth(s, v) - Unit
  <2>1. v \in Payees /\ Worth(due, v) = Worth(s, v)
    BY <1>2, <1>3 DEF Payees
  <2>2. due.bal[v] \in Int /\ due.commission[v] \in Int
    BY <1>3, <2>1 DEF StateType
  <2>3. due.commission[v] < Unit
    BY <1>2, <1>3
  <2>4. Worth(new, v) = due.bal[v] * Unit + 0
    BY <1>11 DEF Worth, Due
  <2>5. Worth(due, v) = due.bal[v] * Unit + due.commission[v]
    BY DEF Worth, Due
  <2>6. due.bal[v] * Unit \in Int /\ Unit \in Int
    BY <2>2, CoinsAreCounted
  <2> QED
    BY <2>1, <2>2, <2>3, <2>4, <2>5, <2>6
<1> QED
  BY <1>1, <1>4, <1>7, <1>8, <1>9, <1>10, <1>12, <1>13 DEF Payees

-----------------------------------------------------------------------------
(* x/staking *)

(* NoFutureHeights, of a state and a height.                                  *)
NoneAfter(s, h) ==
  /\ \A d \in Delegations : s.start[d].height <= h
  /\ \A e \in s.slashes : e.height <= h
  /\ \A g \in s.redelegations \cup s.unbondings : g <= h
  /\ \A v \in Validators : s.unbondingHeight[v] <= h /\ s.signing[v] <= h

(* The power index has those that are not jailed, and those that are bonded   *)
(* are the first of it: an export finds no one who has to leave the set.      *)
Placed(s) == s.index = Validators \ s.jailed /\ s.bonded \subseteq Top(s)

(* All that the chain relies on.                                              *)
Sound(s, h) ==
  /\ s \in StateType /\ AssertInvariants(s)
  /\ LastKept(s, Validators) /\ StartsKept(s, Delegations) /\ SlashesKept(s)
  /\ NoneAfter(s, h)

(* What someone owns is a number of parts.                                    *)
LEMMA WorthType ==
  ASSUME NEW s \in StateType, NEW x \in Payees
  PROVE  Worth(s, x) \in Int /\ Unit \in Int /\ Unit > 0
<1>1. s.bal[x] \in Int /\ Due(s, x) \in Int
  BY DEF StateType, Payees, Due
<1> QED
  BY <1>1, CoinsAreCounted DEF Worth

(* Later is no closer to the future.                                          *)
LEMMA NoneLater ==
  ASSUME NEW s \in StateType, NEW h \in Int, NoneAfter(s, h)
  PROVE  NoneAfter(s, h + 1)
<1>1. /\ \A d \in Delegations : s.start[d].height \in Int
      /\ \A e \in s.slashes : e.height \in Int
      /\ \A g \in s.redelegations \cup s.unbondings : g \in Int
      /\ \A v \in Validators : s.unbondingHeight[v] \in Int /\ s.signing[v] \in Int
  BY DEF StateType
<1>2. \A g \in Int : g <= h => g <= h + 1
  OBVIOUS
<1> QED
  BY <1>1, <1>2 DEF NoneAfter

(* The first of the index depend on the index only.                           *)
LEMMA TopOfIndex ==
  ASSUME NEW s, NEW t, t.index = s.index
  PROVE  Top(t) = Top(s)
BY DEF Top

(* What is bonded after the set is updated is the first of the index; only a  *)
(* validator that leaves starts to unbond.                                    *)
LEMMA SetUpdated ==
  ASSUME NEW s \in StateType, NEW h \in Int
  PROVE  LET new == WithValidatorSet(s, h)
         IN /\ new \in StateType /\ SameCoins(s, new)
            /\ new.period = s.period /\ new.history = s.history
            /\ new.start = s.start /\ new.slashes = s.slashes
            /\ new.redelegations = s.redelegations /\ new.unbondings = s.unbondings
            /\ new.jailed = s.jailed /\ new.index = s.index /\ new.bonded = Top(s)
            /\ \A v \in Validators : /\ new.unbondingHeight[v] \in {h, s.unbondingHeight[v]}
                                     /\ new.signing[v] \in {h, s.signing[v]}
            /\ s.bonded \subseteq Top(s) => new.unbondingHeight = s.unbondingHeight
<1> DEFINE new == WithValidatorSet(s, h)
           first == Top(s)
           unbonding == [v \in Validators |->
                           IF v \in s.bonded \ first THEN h ELSE s.unbondingHeight[v]]
           signing == [v \in Validators |->
                         IF v \in first \ s.bonded THEN h ELSE s.signing[v]]
<1>1. s.unbondingHeight \in [Validators -> Int] /\ s.signing \in [Validators -> Int]
  BY DEF StateType
<1>2. first \in SUBSET Validators
  BY DEF StateType, Top
<1>3. new = [s EXCEPT !.unbondingHeight = unbonding, !.signing = signing, !.bonded = first]
  BY DEF WithValidatorSet, StateType
<1> HIDE DEF first
<1>4. /\ unbonding \in [Validators -> Int] /\ signing \in [Validators -> Int]
      /\ \A v \in Validators : /\ unbonding[v] \in {h, s.unbondingHeight[v]}
                               /\ signing[v] \in {h, s.signing[v]}
      /\ s.bonded \subseteq first => unbonding = s.unbondingHeight
  BY <1>1
<1> HIDE DEF new, unbonding, signing
<1>5. /\ new \in StateType
      /\ new.period = s.period /\ new.history = s.history
      /\ new.start = s.start /\ new.slashes = s.slashes
      /\ new.redelegations = s.redelegations /\ new.unbondings = s.unbondings
      /\ new.jailed = s.jailed /\ new.index = s.index /\ new.bonded = first
      /\ new.unbondingHeight = unbonding /\ new.signing = signing
  BY <1>2, <1>3, <1>4 DEF StateType
<1>6. SameCoins(s, new)
  BY <1>3 DEF StateType, SameCoins
<1> QED
  BY <1>4, <1>5, <1>6 DEF new, first

(* An update of the validator set keeps the chain sound, and places everyone. *)
LEMMA SetUpdateKeeps ==
  ASSUME NEW s, NEW h \in Int, Sound(s, h), s.index = Validators \ s.jailed
  PROVE  LET new == WithValidatorSet(s, h)
         IN Sound(new, h) /\ Placed(new) /\ SameCoins(s, new) /\ new.jailed = s.jailed
<1> DEFINE new == WithValidatorSet(s, h)
<1>1. /\ s \in StateType /\ AssertInvariants(s) /\ LastKept(s, Validators)
      /\ StartsKept(s, Delegations) /\ SlashesKept(s) /\ NoneAfter(s, h)
  BY DEF Sound
<1>2. /\ new \in StateType /\ SameCoins(s, new)
      /\ new.period = s.period /\ new.history = s.history
      /\ new.start = s.start /\ new.slashes = s.slashes
      /\ new.redelegations = s.redelegations /\ new.unbondings = s.unbondings
      /\ new.jailed = s.jailed /\ new.index = s.index /\ new.bonded = Top(s)
      /\ \A v \in Validators : /\ new.unbondingHeight[v] \in {h, s.unbondingHeight[v]}
                               /\ new.signing[v] \in {h, s.signing[v]}
  BY <1>1, SetUpdated
<1> HIDE DEF new
<1>3. AssertInvariants(new)
  BY <1>1, <1>2, SameCoinsSameDebts
<1>4. LastKept(new, Validators) /\ StartsKept(new, Delegations) /\ SlashesKept(new)
  BY <1>1, <1>2 DEF LastKept, StartsKept, SlashesKept
<1>5. NoneAfter(new, h)
  BY <1>1, <1>2 DEF NoneAfter
<1>6. Placed(new)
  BY <1>2, TopOfIndex DEF Placed
<1> QED
  BY <1>2, <1>3, <1>4, <1>5, <1>6 DEF Sound, new

-----------------------------------------------------------------------------
(* The blocks of the chain *)

(* What a step takes from no one: all but a fraction of a coin.               *)
Fair(s, t) == \A x \in Payees : Worth(t, x) > Worth(s, x) - Unit

(* A step that moves no coins takes nothing.                                  *)
LEMMA SameCoinsAreFair ==
  ASSUME NEW s \in StateType, NEW t, SameCoins(s, t)
  PROVE  Fair(s, t)
<1>1. ASSUME NEW x \in Payees PROVE Worth(t, x) > Worth(s, x) - Unit
  BY SameCoinsSameDebts, WorthType
<1> QED
  BY <1>1 DEF Fair

(* A delegation is paid before it changes.                                    *)
LEMMA RewardsPaid ==
  ASSUME NEW s, NEW h \in Int, Sound(s, h), Placed(s), NEW d \in Delegations
  PROVE  LET new == WithdrawDelegationRewards(s, d, h + 1)
         IN Sound(new, h + 1) /\ SameStaking(s, new) /\ Fair(s, new)
<1> DEFINE new == WithdrawDelegationRewards(s, d, h + 1)
<1>1. /\ s \in StateType /\ AssertInvariants(s) /\ LastKept(s, Validators)
      /\ StartsKept(s, Delegations) /\ SlashesKept(s) /\ NoneAfter(s, h + 1)
  BY NoneLater DEF Sound
<1>2. /\ new \in StateType /\ SameStaking(s, new)
      /\ new.slashes = s.slashes /\ new.start[d].height = h + 1
      /\ \A c \in Delegations \ {d} : new.start[c] = s.start[c]
      /\ \A x \in Payees \ {d} : Worth(new, x) = Worth(s, x)
      /\ Worth(new, d) > Worth(s, d) - Unit
      /\ AssertInvariants(new)
      /\ LastKept(new, Validators) /\ StartsKept(new, Delegations) /\ SlashesKept(new)
  <2>1. Pays(s, d, new) /\ Restarts(s, d, h + 1, new)
    BY <1>1, RewardRound
  <2> HIDE DEF new
  <2> QED
    BY <1>1, <2>1 DEF Pays, Restarts
<1> HIDE DEF new
<1>3. NoneAfter(new, h + 1)
  <2>1. \A c \in Delegations : new.start[c].height <= h + 1
    BY <1>1, <1>2 DEF NoneAfter
  <2> QED
    BY <1>1, <1>2, <2>1 DEF NoneAfter, SameStaking
<1>4. ASSUME NEW x \in Payees PROVE Worth(new, x) > Worth(s, x) - Unit
  BY <1>1, <1>2, WorthType
<1> QED
  BY <1>2, <1>3, <1>4 DEF Sound, Fair, new

(* A slash is recorded with the period it closes.                             *)
Struck(s, h, v) ==
  [NextPeriod([s EXCEPT !.slashes = @ \cup
                 {[of |-> v, height |-> h + 1, period |-> s.period[v]]}], v)
     EXCEPT !.jailed = @ \cup {v}, !.index = @ \ {v}]

LEMMA Slashed ==
  ASSUME NEW s, NEW h \in Int, Sound(s, h), Placed(s), NEW v \in Validators
  PROVE  LET new == Struck(s, h, v)
         IN /\ Sound(new, h + 1) /\ SameCoins(s, new)
            /\ new.jailed = s.jailed \cup {v} /\ new.index = Validators \ new.jailed
<1> DEFINE slash == [of |-> v, height |-> h + 1, period |-> s.period[v]]
           slashes == s.slashes \cup {slash}
           hit == [s EXCEPT !.slashes = slashes]
           mid == NextPeriod(hit, v)
           jailed == mid.jailed \cup {v}
           index == mid.index \ {v}
           new == [mid EXCEPT !.jailed = jailed, !.index = index]
<1>1. /\ s \in StateType /\ AssertInvariants(s) /\ LastKept(s, Validators)
      /\ StartsKept(s, Delegations) /\ SlashesKept(s) /\ NoneAfter(s, h + 1)
  BY NoneLater DEF Sound
<1>2. slashes \in SUBSET [of : Validators, height : Int, period : Int]
  BY <1>1 DEF StateType
<1>3. /\ slash.of = v /\ slash.height = h + 1 /\ slash.period = s.period[v]
      /\ \A e \in slashes : e \in s.slashes \/ e = slash
  OBVIOUS
<1> HIDE DEF slash, slashes
<1>4. /\ hit \in StateType /\ hit.slashes = slashes
      /\ hit.period = s.period /\ hit.history = s.history /\ hit.start = s.start
  BY <1>1, <1>2 DEF StateType
<1>5. SameStaking(s, hit) /\ SameCoins(s, hit)
  BY <1>1 DEF StateType, SameStaking, SameCoins
<1> HIDE DEF hit
<1>6. LastKept(hit, Validators) /\ StartsKept(hit, Delegations)
  BY <1>1, <1>4 DEF LastKept, StartsKept
<1>7. \A e \in hit.slashes : \/ e.period \in hit.history[e.of]
                             \/ e.of = v /\ e.period = hit.period[v]
  BY <1>1, <1>3, <1>4 DEF SlashesKept
<1>8. /\ mid \in StateType /\ SameStaking(hit, mid) /\ SameCoins(hit, mid)
      /\ mid.slashes = hit.slashes /\ mid.start = hit.start
  BY <1>4, NextPeriodFields
<1>9. LastKept(mid, Validators) /\ StartsKept(mid, Delegations) /\ SlashesKept(mid)
  BY <1>4, <1>6, <1>7, NextPeriodKeeps
<1> HIDE DEF mid
<1>10. jailed \in SUBSET Validators /\ index \in SUBSET Validators
  BY <1>8 DEF StateType
<1> HIDE DEF jailed, index
<1>11. /\ new \in StateType /\ new.slashes = mid.slashes /\ new.start = mid.start
       /\ new.period = mid.period /\ new.history = mid.history
       /\ new.redelegations = mid.redelegations /\ new.unbondings = mid.unbondings
       /\ new.unbondingHeight = mid.unbondingHeight /\ new.signing = mid.signing
       /\ new.jailed = jailed /\ new.index = index
  BY <1>8, <1>10 DEF StateType
<1>12. SameCoins(mid, new)
  BY <1>8 DEF StateType, SameCoins
<1> HIDE DEF new
<1>13. SameCoins(s, new)
  BY <1>5, <1>8, <1>12 DEF SameCoins
<1>14. AssertInvariants(new)
  BY <1>1, <1>13, SameCoinsSameDebts
<1>15. LastKept(new, Validators) /\ StartsKept(new, Delegations) /\ SlashesKept(new)
  BY <1>9, <1>11 DEF LastKept, StartsKept, SlashesKept
<1>16. NoneAfter(new, h + 1)
  <2>1. \A e \in new.slashes : e.height <= h + 1
    BY <1>1, <1>3, <1>4, <1>8, <1>11 DEF NoneAfter
  <2>2. /\ new.start = s.start
        /\ new.redelegations = s.redelegations /\ new.unbondings = s.unbondings
        /\ new.unbondingHeight = s.unbondingHeight /\ new.signing = s.signing
    BY <1>4, <1>5, <1>8, <1>11 DEF SameStaking
  <2> QED
    BY <1>1, <2>1, <2>2 DEF NoneAfter
<1>17. new.jailed = s.jailed \cup {v} /\ new.index = Validators \ new.jailed
  <2>1. mid.jailed = s.jailed /\ mid.index = Validators \ s.jailed
    BY <1>5, <1>8 DEF SameStaking, Placed
  <2> QED
    BY <1>11, <2>1 DEF jailed, index
<1> QED
  BY <1>11, <1>13, <1>14, <1>15, <1>16, <1>17
     DEF Sound, Struck, new, mid, hit, slashes, slash, jailed, index

(* A block's fees go to the module account, the commission and the dues.      *)
Allocated(s, signers) ==
  [s EXCEPT
    !.module = @ + Fee * Cardinality(signers),
    !.outstanding = [v \in Validators |-> IF v \in signers THEN @[v] + Fee * Unit ELSE @[v]],
    !.commission = [v \in Validators |->
       IF v \in signers THEN @[v] + CommissionShare ELSE @[v]],
    !.due = [d \in Delegations |-> IF d[2] \in signers THEN @[d] + RewardShare ELSE @[d]]]

(* Fees in coins are the same in parts.                                       *)
LEMMA Distributed ==
  ASSUME NEW m \in Int, NEW n \in Int
  PROVE  (m + Fee * n) * Unit = m * Unit + (Fee * Unit) * n
BY CoinsAreCounted

(* An allocation covers commission and dues, by SharesLeaveAFraction.         *)
LEMMA TokensAllocated ==
  ASSUME NEW s, NEW h \in Int, Sound(s, h), NEW signers \in SUBSET Validators
  PROVE  LET new == Allocated(s, signers)
         IN Sound(new, h + 1) /\ SameStaking(s, new) /\ Fair(s, new)
<1> DEFINE new == Allocated(s, signers)
           many == Cardinality(signers)
           parts == Fee * Unit
           module == s.module + Fee * many
           outstanding == [v \in Validators |->
                             IF v \in signers THEN s.outstanding[v] + parts
                                              ELSE s.outstanding[v]]
           commission == [v \in Validators |->
                            IF v \in signers THEN s.commission[v] + CommissionShare
                                             ELSE s.commission[v]]
           due == [d \in Delegations |->
                     IF d[2] \in signers THEN s.due[d] + RewardShare ELSE s.due[d]]
<1>1. /\ s \in StateType /\ AssertInvariants(s) /\ LastKept(s, Validators)
      /\ StartsKept(s, Delegations) /\ SlashesKept(s) /\ NoneAfter(s, h + 1)
  BY NoneLater DEF Sound
<1>2. /\ s.bal \in [Payees -> Int] /\ s.module \in Int /\ s.pool \in Int
      /\ s.outstanding \in [Validators -> Int] /\ s.commission \in [Validators -> Int]
      /\ s.due \in [Delegations -> Int]
  BY <1>1 DEF StateType
<1>3. IsFiniteSet(signers) /\ many \in Nat
  BY PayeesAreFinite, FS_Subset, FS_CardinalityType
<1>4. parts \in Int /\ Fee * many \in Int
  BY <1>3, CoinsAreCounted
<1>5. new = [s EXCEPT !.module = module, !.outstanding = outstanding,
                      !.commission = commission, !.due = due]
  BY <1>1 DEF Allocated, StateType
<1> HIDE DEF parts, many, new
<1>6. /\ module \in Int /\ outstanding \in [Validators -> Int]
      /\ commission \in [Validators -> Int] /\ due \in [Delegations -> Int]
  BY <1>2, <1>4, CoinsAreCounted
<1>7. \A v \in Validators :
        /\ outstanding[v] = IF v \in signers THEN s.outstanding[v] + parts
                                             ELSE s.outstanding[v]
        /\ commission[v] = IF v \in signers THEN s.commission[v] + CommissionShare
                                            ELSE s.commission[v]
  OBVIOUS
<1>8. \A d \in Delegations :
        due[d] = IF d[2] \in signers THEN s.due[d] + RewardShare ELSE s.due[d]
  OBVIOUS
<1> HIDE DEF outstanding, commission, due, module
<1>9. /\ new \in StateType /\ SameStaking(s, new) /\ new.bal = s.bal /\ new.pool = s.pool
      /\ new.module = module /\ new.outstanding = outstanding
      /\ new.commission = commission /\ new.due = due
      /\ new.period = s.period /\ new.history = s.history
      /\ new.start = s.start /\ new.slashes = s.slashes
  BY <1>1, <1>5, <1>6 DEF StateType, SameStaking
<1>10. Holds(new)
  <2>1. Sum(outstanding, Validators) = Sum(s.outstanding, Validators) + parts * many
    BY <1>2, <1>4, <1>7, PayeesAreFinite, SumGrows DEF many
  <2>2. module * Unit = s.module * Unit + parts * many
    BY <1>2, <1>3, Distributed DEF module, parts
  <2>3. s.module * Unit = Sum(s.outstanding, Validators) + s.pool
    BY <1>1, InvariantsAreSums DEF Holds
  <2>4. Sum(s.outstanding, Validators) \in Int
    BY <1>2, PayeesAreFinite, SumType
  <2>5. parts * many \in Int
    BY <1>3, <1>4
  <2> QED
    BY <1>2, <1>9, <2>1, <2>2, <2>3, <2>4, <2>5 DEF Holds
<1>11. ASSUME NEW v \in Validators PROVE Covers(new, v)
  <2> DEFINE size == Cardinality(Of(v))
             earned == RewardShare * size
  <2>1. /\ IsFiniteSet(Of(v)) /\ Of(v) \subseteq Delegations
        /\ Sum(s.due, Of(v)) \in Int
    BY <1>1, SumsAreNumbers
  <2>2. Covers(s, v)
    BY <1>1, InvariantsAreSums
  <2>3. \A d \in Of(v) : s.due[d] \in Int /\ d[2] = v
    BY <1>2, <2>1 DEF Of
  <2>4. CASE v \in signers
    <3>1. size \in Nat
      BY <2>1, FS_CardinalityType
    <3>2. CommissionShare + earned <= parts /\ earned \in Int
      <4>1. CommissionShare + size * RewardShare <= parts
        BY SharesLeaveAFraction DEF parts
      <4>2. size * RewardShare = earned /\ earned \in Int
        BY <3>1, CoinsAreCounted
      <4> QED
        BY <4>1, <4>2
    <3>3. \A d \in Of(v) : due[d] = IF d \in Of(v) THEN s.due[d] + RewardShare ELSE s.due[d]
      BY <1>8, <2>1, <2>3, <2>4
    <3>4. Sum(due, Of(v)) = Sum(s.due, Of(v)) + earned
      <4> DEFINE S == Of(v)
                 old == s.due
                 U == Of(v)
      <4>1. /\ IsFiniteSet(S) /\ U \in SUBSET S /\ RewardShare \in Int
            /\ \A d \in S : old[d] \in Int
            /\ \A d \in S : due[d] = IF d \in U THEN old[d] + RewardShare ELSE old[d]
        BY <2>1, <2>3, <3>3, CoinsAreCounted
      <4> HIDE DEF S, U, old
      <4>2. Sum(due, S) = Sum(old, S) + RewardShare * Cardinality(U)
        BY <4>1, SumGrows
      <4> QED
        BY <4>2 DEF S, U, old
    <3>5. /\ commission[v] = s.commission[v] + CommissionShare
          /\ outstanding[v] = s.outstanding[v] + parts
      BY <1>7, <2>4
    <3>6. s.commission[v] + Sum(s.due, Of(v)) <= s.outstanding[v]
      BY <2>2 DEF Covers
    <3>7. s.commission[v] \in Int /\ s.outstanding[v] \in Int /\ CommissionShare \in Int
      BY <1>2, CoinsAreCounted
    <3> HIDE DEF earned
    <3>8. commission[v] + Sum(due, Of(v)) <= outstanding[v]
      BY <1>4, <2>1, <3>2, <3>4, <3>5, <3>6, <3>7
    <3> QED
      BY <1>9, <3>8 DEF Covers
  <2>5. CASE v \notin signers
    <3>1. \A d \in Of(v) : s.due[d] \in Int /\ due[d] = s.due[d]
      BY <1>8, <2>1, <2>3, <2>5
    <3>2. Sum(due, Of(v)) = Sum(s.due, Of(v))
      BY <2>1, <3>1, SumAgrees
    <3> QED
      BY <1>7, <1>9, <2>2, <2>5, <3>2 DEF Covers
  <2> QED
    BY <2>4, <2>5
<1>12. AssertInvariants(new)
  BY <1>10, <1>11, InvariantsAreSums
<1>13. LastKept(new, Validators) /\ StartsKept(new, Delegations) /\ SlashesKept(new)
  BY <1>1, <1>9 DEF LastKept, StartsKept, SlashesKept
<1>14. NoneAfter(new, h + 1)
  BY <1>1, <1>9 DEF NoneAfter, SameStaking
<1>15. ASSUME NEW x \in Payees PROVE Worth(new, x) > Worth(s, x) - Unit
  <2>1. /\ s.bal[x] * Unit \in Int /\ Unit \in Int /\ Unit > 0
        /\ CommissionShare \in Nat /\ RewardShare \in Nat
    BY <1>2, CoinsAreCounted
  <2>2. CASE x \in Validators
    <3>1. commission[x] \in Int /\ s.commission[x] \in Int /\ commission[x] >= s.commission[x]
      BY <1>2, <1>6, <1>7, <2>1, <2>2
    <3>2. Worth(new, x) = s.bal[x] * Unit + commission[x]
      BY <1>9, <2>2 DEF Worth, Due
    <3>3. Worth(s, x) = s.bal[x] * Unit + s.commission[x]
      BY <2>2 DEF Worth, Due
    <3> QED
      BY <2>1, <3>1, <3>2, <3>3
  <2>3. CASE x \in Delegations
    <3>1. due[x] \in Int /\ s.due[x] \in Int /\ due[x] >= s.due[x]
      BY <1>2, <1>6, <1>8, <2>1, <2>3
    <3>2. Worth(new, x) = s.bal[x] * Unit + due[x]
      BY <1>9, <2>3, PayeesAreFinite DEF Worth, Due
    <3>3. Worth(s, x) = s.bal[x] * Unit + s.due[x]
      BY <2>3, PayeesAreFinite DEF Worth, Due
    <3> QED
      BY <2>1, <3>1, <3>2, <3>3
  <2> QED
    BY <2>2, <2>3 DEF Payees
<1> QED
  BY <1>9, <1>12, <1>13, <1>14, <1>15 DEF Sound, Fair, new

-----------------------------------------------------------------------------
(* The inductive invariant *)

ZeroInv ==
  /\ height \in Int /\ Sound(st, height) /\ Placed(st)
  /\ barred \subseteq st.jailed

(* No more validators are ahead of one than its rank says.                    *)
LEMMA FewAhead ==
  ASSUME NEW v \in Validators
  PROVE  LET ahead == {u \in Validators : Rank[u] < Rank[v]}
         IN IsFiniteSet(ahead) /\ Cardinality(ahead) < Rank[v]
<1> DEFINE ahead == {u \in Validators : Rank[u] < Rank[v]}
           places == 1..(Rank[v] - 1)
           f == [u \in ahead |-> Rank[u]]
<1>1. /\ Rank[v] \in Nat \ {0}
      /\ \A u \in ahead : Rank[u] \in Nat \ {0}
      /\ \A u, w \in ahead : Rank[u] = Rank[w] => u = w
  BY RanksDiffer
<1>2. f \in Injection(ahead, places)
  <2>1. f \in [ahead -> places]
    BY <1>1
  <2>2. \A u, w \in ahead : f[u] = f[w] => u = w
    BY <1>1
  <2> QED
    BY <2>1, <2>2 DEF Injection, IsInjective
<1>3. IsFiniteSet(places) /\ Cardinality(places) = Rank[v] - 1
  <2> DEFINE last == Rank[v] - 1
  <2>1. 1 \in Int /\ last \in Nat
    BY <1>1
  <2> HIDE DEF last
  <2>2. IsFiniteSet(1..last) /\ Cardinality(1..last) = IF 1 > last THEN 0 ELSE last - 1 + 1
    BY <2>1, FS_Interval
  <2>3. Cardinality(1..last) = last
    BY <2>1, <2>2
  <2> QED
    BY <2>2, <2>3 DEF last
<1>4. IsFiniteSet(ahead) /\ Cardinality(ahead) <= Cardinality(places)
  BY <1>2, <1>3, FS_Injection, FS_Subset, PayeesAreFinite
<1>5. Cardinality(ahead) \in Nat
  BY <1>4, FS_CardinalityType
<1> QED
  BY <1>1, <1>3, <1>4, <1>5

(* The first chain starts sound.                                              *)
LEMMA InitIsSound == Init => ZeroInv
<1> SUFFICES ASSUME Init PROVE ZeroInv
  OBVIOUS
<1>1. /\ height = 0 /\ barred = {}
      /\ st.bal = [x \in Payees |-> 0] /\ st.module = 0 /\ st.pool = 0
      /\ st.outstanding = [v \in Validators |-> 0]
      /\ st.commission = [v \in Validators |-> 0] /\ st.due = [d \in Delegations |-> 0]
      /\ st.period = [v \in Validators |-> 1] /\ st.history = [v \in Validators |-> {0}]
      /\ st.start = [d \in Delegations |-> [period |-> 0, height |-> 0]]
      /\ st.slashes = {} /\ st.redelegations = {} /\ st.unbondings = {}
      /\ st.jailed = {} /\ st.unbondingHeight = [v \in Validators |-> 0]
      /\ st.index = Validators
      /\ st.bonded = {v \in Validators : Rank[v] <= MaxValidators}
      /\ st.signing = [v \in Validators |-> 0]
  BY DEF Init
<1>2. st \in StateType
  BY DEF Init, StateType
<1>3. AssertInvariants(st)
  <2>1. Sum(st.outstanding, Validators) = 0
    BY <1>1, PayeesAreFinite, SumZero
  <2>2. Holds(st)
    BY <1>1, <2>1, CoinsAreCounted DEF Holds
  <2>3. ASSUME NEW v \in Validators PROVE Covers(st, v)
    <3>1. IsFiniteSet(Of(v)) /\ \A d \in Of(v) : st.due[d] = 0
      BY <1>1, <1>2, SumsAreNumbers
    <3>2. Sum(st.due, Of(v)) = 0
      BY <3>1, SumZero
    <3> QED
      BY <1>1, <3>2 DEF Covers
  <2> QED
    BY <2>2, <2>3, InvariantsAreSums
<1>4. LastKept(st, Validators) /\ StartsKept(st, Delegations) /\ SlashesKept(st)
  BY <1>1, DelegationsArePairs DEF LastKept, StartsKept, SlashesKept
<1>5. NoneAfter(st, height)
  BY <1>1 DEF NoneAfter
<1>6. Placed(st)
  <2>1. ASSUME NEW v \in st.bonded PROVE v \in Top(st)
    <3> DEFINE ahead == {u \in Validators : Rank[u] < Rank[v]}
    <3>1. v \in Validators /\ Rank[v] <= MaxValidators /\ Rank[v] \in Nat
      BY <1>1, RanksDiffer
    <3>2. IsFiniteSet(ahead) /\ Cardinality(ahead) < Rank[v]
      BY <3>1, FewAhead
    <3>3. Cardinality(ahead) \in Nat
      BY <3>2, FS_CardinalityType
    <3>4. Cardinality(ahead) < MaxValidators
      BY <3>1, <3>2, <3>3, Bounds
    <3> QED
      BY <1>1, <3>1, <3>4 DEF Top
  <2> QED
    BY <1>1, <2>1 DEF Placed
<1> QED
  BY <1>1, <1>2, <1>3, <1>4, <1>5, <1>6 DEF ZeroInv, Sound

-----------------------------------------------------------------------------
(* The export *)

(* What the staking part of the preparation leaves: no height of the old      *)
(* chain, since no one leaves the set when it is updated.                     *)
LEMMA StakingPrepared ==
  ASSUME NEW s \in StateType, NEW h \in Int, NEW whiteList \in SUBSET Validators,
         s.bonded \subseteq Top(s)
  PROVE  LET new == ResetSigningInfos(PreparedStaking(s, whiteList, h))
         IN /\ new \in StateType /\ SameCoins(s, new)
            /\ new.period = s.period /\ new.history = s.history
            /\ new.start = s.start /\ new.slashes = s.slashes
            /\ \A g \in new.redelegations \cup new.unbondings : g = 0
            /\ \A v \in Validators : new.unbondingHeight[v] = 0 /\ new.signing[v] = 0
            /\ new.jailed = JailUnlisted(s, whiteList).jailed
            /\ new.bonded = Top(s)
<1> DEFINE reset == ResetCreationHeights(s)
           out == IF whiteList = {} THEN s.jailed ELSE s.jailed \cup (Validators \ whiteList)
           none == [v \in Validators |-> 0]
           jail == JailUnlisted(reset, whiteList)
           set == WithValidatorSet(jail, h)
           new == ResetSigningInfos(set)
<1>1. ResetSigningInfos(PreparedStaking(s, whiteList, h)) = new
  BY DEF PreparedStaking
<1>2. none \in [Validators -> Int] /\ \A v \in Validators : none[v] = 0
  OBVIOUS
<1>3. out \in SUBSET Validators
  BY DEF StateType
<1>4. Zeroed(s.redelegations) \in SUBSET {0} /\ Zeroed(s.unbondings) \in SUBSET {0}
  BY DEF Zeroed
<1>5. /\ reset \in StateType /\ SameCoins(s, reset)
      /\ reset.period = s.period /\ reset.history = s.history
      /\ reset.start = s.start /\ reset.slashes = s.slashes
      /\ reset.redelegations = Zeroed(s.redelegations)
      /\ reset.unbondings = Zeroed(s.unbondings)
      /\ reset.jailed = s.jailed /\ reset.index = s.index /\ reset.bonded = s.bonded
  <2> DEFINE red == Zeroed(s.redelegations)
             unb == Zeroed(s.unbondings)
  <2>1. reset = [s EXCEPT !.redelegations = red, !.unbondings = unb]
    BY DEF ResetCreationHeights, StateType
  <2>2. red \in SUBSET Int /\ unb \in SUBSET Int
    BY <1>4
  <2> HIDE DEF red, unb, reset
  <2>3. SameCoins(s, reset)
    BY <2>1 DEF StateType, SameCoins
  <2>4. /\ reset \in StateType
        /\ reset.period = s.period /\ reset.history = s.history
        /\ reset.start = s.start /\ reset.slashes = s.slashes
        /\ reset.redelegations = red /\ reset.unbondings = unb
        /\ reset.jailed = s.jailed /\ reset.index = s.index /\ reset.bonded = s.bonded
    BY <2>1, <2>2 DEF StateType
  <2> QED
    BY <2>3, <2>4 DEF red, unb
<1> HIDE DEF reset, none
<1>6. jail = [reset EXCEPT !.unbondingHeight = none, !.jailed = out]
  BY <1>5 DEF JailUnlisted, StateType, none
<1>7. JailUnlisted(s, whiteList).jailed = out
  BY DEF JailUnlisted, StateType
<1> HIDE DEF out, jail
<1>8. /\ jail \in StateType
      /\ jail.period = s.period /\ jail.history = s.history
      /\ jail.start = s.start /\ jail.slashes = s.slashes
      /\ jail.redelegations = Zeroed(s.redelegations)
      /\ jail.unbondings = Zeroed(s.unbondings)
      /\ jail.jailed = out /\ jail.index = s.index /\ jail.bonded = s.bonded
      /\ jail.unbondingHeight = none
  BY <1>2, <1>3, <1>5, <1>6 DEF StateType
<1>9. SameCoins(s, jail)
  BY <1>5, <1>6 DEF StateType, SameCoins
<1>10. Top(jail) = Top(s)
  BY <1>8, TopOfIndex
<1>11. /\ set \in StateType /\ SameCoins(jail, set)
       /\ set.period = jail.period /\ set.history = jail.history
       /\ set.start = jail.start /\ set.slashes = jail.slashes
       /\ set.redelegations = jail.redelegations /\ set.unbondings = jail.unbondings
       /\ set.jailed = jail.jailed /\ set.bonded = Top(s)
       /\ set.unbondingHeight = none
  BY <1>8, <1>10, SetUpdated
<1> HIDE DEF set
<1>12. new = [set EXCEPT !.signing = none]
  BY DEF ResetSigningInfos, none
<1> HIDE DEF new
<1>13. /\ new \in StateType
       /\ new.period = s.period /\ new.history = s.history
       /\ new.start = s.start /\ new.slashes = s.slashes
       /\ new.redelegations = Zeroed(s.redelegations)
       /\ new.unbondings = Zeroed(s.unbondings)
       /\ new.jailed = out /\ new.bonded = Top(s)
       /\ new.unbondingHeight = none /\ new.signing = none
  BY <1>2, <1>8, <1>11, <1>12 DEF StateType
<1>14. SameCoins(s, new)
  BY <1>9, <1>11, <1>12 DEF StateType, SameCoins
<1> QED
  BY <1>1, <1>2, <1>4, <1>7, <1>13, <1>14

(* The first of the old index are the first of the new one, which has no one  *)
(* else: if none of them is jailed, no one is bonded who should not be.       *)
LEMMA TopStays ==
  ASSUME NEW s, NEW t, IsFiniteSet(s.index), t.index \subseteq s.index,
         Top(s) \subseteq t.index
  PROVE  Top(s) \subseteq Top(t)
<1> SUFFICES ASSUME NEW v \in Top(s) PROVE v \in Top(t)
  OBVIOUS
<1> DEFINE Ahead(r) == {u \in r.index : Rank[u] < Rank[v]}
<1>1. v \in t.index /\ Cardinality(Ahead(s)) < MaxValidators
  BY DEF Top
<1>2. IsFiniteSet(Ahead(s)) /\ Ahead(t) \subseteq Ahead(s)
  BY FS_Subset
<1> HIDE DEF Ahead
<1>3. Cardinality(Ahead(t)) <= Cardinality(Ahead(s))
  BY <1>2, FS_Subset
<1>4. Cardinality(Ahead(t)) \in Nat /\ Cardinality(Ahead(s)) \in Nat
  BY <1>2, FS_Subset, FS_CardinalityType
<1>5. Cardinality(Ahead(t)) < MaxValidators
  BY <1>1, <1>3, <1>4, Bounds
<1> QED
  BY <1>1, <1>5 DEF Top, Ahead

(* An export that does not fail leaves a sound chain at height 0, in which all *)
(* who are not on the whitelist are jailed.                                   *)
LEMMA Exported ==
  ASSUME NEW s, NEW h \in Int, Sound(s, h), Placed(s),
         NEW whiteList \in SUBSET Validators, ~ExportFails(s, whiteList)
  PROVE  LET out == JailUnlisted(s, whiteList).jailed
             new == [PrepForZeroHeightGenesis(s, whiteList, h) EXCEPT
                       !.index = Validators \ out]
         IN /\ Sound(new, 0) /\ Placed(new) /\ Fair(s, new)
            /\ whiteList # {} => Validators \ whiteList \subseteq new.jailed
<1> DEFINE out == JailUnlisted(s, whiteList).jailed
           rew == PreparedRewards(s, h)
           prep == ResetSigningInfos(PreparedStaking(rew, whiteList, h))
           index == Validators \ out
           new == [prep EXCEPT !.index = index]
<1>1. PrepForZeroHeightGenesis(s, whiteList, h) = prep
  BY DEF PrepForZeroHeightGenesis
<1>2. s \in StateType /\ AssertInvariants(s)
  BY DEF Sound
<1>3. /\ rew \in StateType /\ SameStaking(s, rew) /\ AssertInvariants(rew)
      /\ \A x \in Payees : Worth(rew, x) > Worth(s, x) - Unit
      /\ rew.slashes = {} /\ \A d \in Delegations : rew.start[d].height = 0
      /\ LastKept(rew, Validators) /\ StartsKept(rew, Delegations)
  BY <1>2, RewardsPrepared
<1> HIDE DEF rew
<1>4. Top(rew) = Top(s) /\ rew.bonded \subseteq Top(rew)
  BY <1>3, TopOfIndex DEF SameStaking, Placed
<1>5. /\ out = IF whiteList = {} THEN s.jailed ELSE s.jailed \cup (Validators \ whiteList)
      /\ JailUnlisted(rew, whiteList).jailed = out
  BY <1>2, <1>3 DEF JailUnlisted, StateType, SameStaking
<1> HIDE DEF out
<1>6. /\ prep \in StateType /\ SameCoins(rew, prep)
      /\ prep.period = rew.period /\ prep.history = rew.history
      /\ prep.start = rew.start /\ prep.slashes = rew.slashes
      /\ \A g \in prep.redelegations \cup prep.unbondings : g = 0
      /\ \A v \in Validators : prep.unbondingHeight[v] = 0 /\ prep.signing[v] = 0
      /\ prep.jailed = out /\ prep.bonded = Top(s)
  BY <1>3, <1>4, <1>5, StakingPrepared
<1> HIDE DEF prep
<1>7. index \in SUBSET Validators
  OBVIOUS
<1> HIDE DEF index
<1>8. /\ new \in StateType
      /\ new.period = rew.period /\ new.history = rew.history
      /\ new.start = rew.start /\ new.slashes = rew.slashes
      /\ new.redelegations = prep.redelegations /\ new.unbondings = prep.unbondings
      /\ new.unbondingHeight = prep.unbondingHeight /\ new.signing = prep.signing
      /\ new.jailed = out /\ new.bonded = Top(s) /\ new.index = index
  BY <1>6, <1>7 DEF StateType
<1>9. SameCoins(rew, new)
  BY <1>6 DEF StateType, SameCoins
<1> HIDE DEF new
<1>10. AssertInvariants(new) /\ Fair(s, new)
  BY <1>3, <1>9, SameCoinsSameDebts DEF Fair
<1>11. LastKept(new, Validators) /\ StartsKept(new, Delegations) /\ SlashesKept(new)
  BY <1>3, <1>8 DEF LastKept, StartsKept, SlashesKept
<1>12. NoneAfter(new, 0)
  <2>1. /\ \A d \in Delegations : new.start[d].height = 0
        /\ \A g \in new.redelegations \cup new.unbondings : g = 0
        /\ \A v \in Validators : new.unbondingHeight[v] = 0 /\ new.signing[v] = 0
        /\ new.slashes = {}
    BY <1>3, <1>6, <1>8
  <2> QED
    BY <2>1 DEF NoneAfter
<1>13. Placed(new)
  <2>1. /\ s.index = Validators \ s.jailed /\ s.jailed \subseteq out
        /\ IsFiniteSet(s.index)
    BY <1>5, PayeesAreFinite, FS_Subset DEF Placed
  <2>2. Top(s) \cap out = {} /\ Top(s) \subseteq s.index
    BY DEF ExportFails, Top, out
  <2>3. new.index \subseteq s.index /\ Top(s) \subseteq new.index
    BY <1>8, <2>1, <2>2 DEF index
  <2>4. Top(s) \subseteq Top(new)
    BY <2>1, <2>3, TopStays
  <2> QED
    BY <1>8, <2>4 DEF Placed, index
<1>14. whiteList # {} => Validators \ whiteList \subseteq new.jailed
  BY <1>5, <1>8
<1>15. Sound(new, 0)
  BY <1>8, <1>10, <1>11, <1>12 DEF Sound
<1> QED
  BY <1>1, <1>10, <1>13, <1>14, <1>15 DEF new, index, out

-----------------------------------------------------------------------------
(* Every step *)

(* What Undelegate and Redelegate record.                                     *)
WithRecords(s, red, unb) == [s EXCEPT !.redelegations = red, !.unbondings = unb]

LEMMA Recorded ==
  ASSUME NEW s, NEW h \in Int, Sound(s, h), NEW red \in SUBSET Int, NEW unb \in SUBSET Int,
         \A g \in red \cup unb : g <= h
  PROVE  LET new == WithRecords(s, red, unb)
         IN /\ Sound(new, h) /\ SameCoins(s, new) /\ new.jailed = s.jailed
            /\ Placed(s) => Placed(new)
<1> DEFINE new == [s EXCEPT !.redelegations = red, !.unbondings = unb]
<1>1. /\ s \in StateType /\ AssertInvariants(s) /\ LastKept(s, Validators)
      /\ StartsKept(s, Delegations) /\ SlashesKept(s) /\ NoneAfter(s, h)
  BY DEF Sound
<1>2. /\ new \in StateType
      /\ new.period = s.period /\ new.history = s.history
      /\ new.start = s.start /\ new.slashes = s.slashes
      /\ new.redelegations = red /\ new.unbondings = unb
      /\ new.unbondingHeight = s.unbondingHeight /\ new.signing = s.signing
      /\ new.jailed = s.jailed /\ new.index = s.index /\ new.bonded = s.bonded
  BY <1>1 DEF StateType
<1>3. SameCoins(s, new)
  BY <1>1 DEF StateType, SameCoins
<1> HIDE DEF new
<1>4. AssertInvariants(new)
  BY <1>1, <1>3, SameCoinsSameDebts
<1>5. LastKept(new, Validators) /\ StartsKept(new, Delegations) /\ SlashesKept(new)
  BY <1>1, <1>2 DEF LastKept, StartsKept, SlashesKept
<1>6. NoneAfter(new, h)
  BY <1>1, <1>2 DEF NoneAfter
<1>7. Placed(s) => Placed(new)
  BY <1>2, TopOfIndex DEF Placed
<1> QED
  BY <1>2, <1>3, <1>4, <1>5, <1>6, <1>7 DEF Sound, WithRecords, new

(* A fair step, and then one that moves no coins.                             *)
LEMMA FairThenSame ==
  ASSUME NEW s, NEW t, NEW r, Fair(s, t), SameCoins(t, r)
  PROVE  Fair(s, r)
BY SameCoinsSameDebts DEF Fair

(* A step that leaves staking alone leaves everyone in place.                 *)
LEMMA SameStakingPlaced ==
  ASSUME NEW s, NEW t, SameStaking(s, t), Placed(s)
  PROVE  Placed(t) /\ t.jailed = s.jailed
BY TopOfIndex DEF SameStaking, Placed

(* The steps, one by one.                                                     *)
LEMMA AllocateKeeps ==
  ASSUME ZeroInv, NEW signers \in SUBSET st.bonded, AllocateTokens(signers)
  PROVE  ZeroInv' /\ Fair(st, st')
<1>1. height \in Int /\ Sound(st, height) /\ Placed(st) /\ barred \subseteq st.jailed
  BY DEF ZeroInv
<1>2. signers \in SUBSET Validators
  BY <1>1 DEF Sound, StateType
<1>3. st' = Allocated(st, signers) /\ height' = height + 1 /\ barred' = barred
  BY DEF AllocateTokens, Block, Allocated
<1>4. Sound(st', height + 1) /\ SameStaking(st, st') /\ Fair(st, st')
  BY <1>1, <1>2, <1>3, TokensAllocated
<1>5. Placed(st') /\ st'.jailed = st.jailed
  BY <1>1, <1>4, SameStakingPlaced
<1> QED
  BY <1>1, <1>3, <1>4, <1>5 DEF ZeroInv

LEMMA SlashKeeps ==
  ASSUME ZeroInv, NEW v \in Validators, SlashAndJail(v)
  PROVE  ZeroInv' /\ Fair(st, st')
<1> DEFINE mid == Struck(st, height, v)
<1>1. height \in Int /\ Sound(st, height) /\ Placed(st) /\ barred \subseteq st.jailed
  BY DEF ZeroInv
<1>2. st' = WithValidatorSet(mid, height + 1) /\ height' = height + 1 /\ barred' = barred
  BY DEF SlashAndJail, Block, Struck
<1>3. /\ Sound(mid, height + 1) /\ SameCoins(st, mid)
      /\ mid.jailed = st.jailed \cup {v} /\ mid.index = Validators \ mid.jailed
  BY <1>1, Slashed
<1> HIDE DEF mid
<1>4. Sound(st', height + 1) /\ Placed(st') /\ SameCoins(mid, st') /\ st'.jailed = mid.jailed
  BY <1>1, <1>2, <1>3, SetUpdateKeeps
<1>5. SameCoins(st, st') /\ st \in StateType
  BY <1>1, <1>3, <1>4 DEF SameCoins, Sound
<1>6. Fair(st, st')
  BY <1>5, SameCoinsAreFair
<1>7. barred' \subseteq st'.jailed
  BY <1>1, <1>2, <1>3, <1>4
<1> QED
  BY <1>1, <1>2, <1>4, <1>6, <1>7 DEF ZeroInv

LEMMA UnjailKeeps ==
  ASSUME ZeroInv, NEW v \in Validators, Unjail(v)
  PROVE  ZeroInv' /\ Fair(st, st')
<1> DEFINE jailed == st.jailed \ {v}
           index == st.index \cup {v}
           mid == [st EXCEPT !.jailed = jailed, !.index = index]
<1>1. /\ height \in Int /\ Sound(st, height) /\ Placed(st) /\ barred \subseteq st.jailed
      /\ st \in StateType
  BY DEF ZeroInv, Sound
<1>2. st' = WithValidatorSet(mid, height + 1) /\ height' = height + 1 /\ barred' = barred \ {v}
  BY <1>1 DEF Unjail, Block, StateType
<1>3. /\ jailed \in SUBSET Validators /\ index \in SUBSET Validators
      /\ index = Validators \ jailed
  BY <1>1 DEF StateType, Placed
<1> HIDE DEF jailed, index
<1>4. /\ mid \in StateType
      /\ mid.period = st.period /\ mid.history = st.history
      /\ mid.start = st.start /\ mid.slashes = st.slashes
      /\ mid.redelegations = st.redelegations /\ mid.unbondings = st.unbondings
      /\ mid.unbondingHeight = st.unbondingHeight /\ mid.signing = st.signing
      /\ mid.jailed = jailed /\ mid.index = index
  BY <1>1, <1>3 DEF StateType
<1>5. SameCoins(st, mid)
  BY <1>1 DEF StateType, SameCoins
<1> HIDE DEF mid
<1>6. Sound(mid, height + 1)
  <2>1. /\ AssertInvariants(st) /\ LastKept(st, Validators)
        /\ StartsKept(st, Delegations) /\ SlashesKept(st) /\ NoneAfter(st, height + 1)
    BY <1>1, NoneLater DEF Sound
  <2>2. AssertInvariants(mid)
    BY <1>5, <2>1, SameCoinsSameDebts
  <2>3. LastKept(mid, Validators) /\ StartsKept(mid, Delegations) /\ SlashesKept(mid)
    BY <1>4, <2>1 DEF LastKept, StartsKept, SlashesKept
  <2>4. NoneAfter(mid, height + 1)
    BY <1>4, <2>1 DEF NoneAfter
  <2> QED
    BY <1>4, <2>2, <2>3, <2>4 DEF Sound
<1>7. Sound(st', height + 1) /\ Placed(st') /\ SameCoins(mid, st') /\ st'.jailed = mid.jailed
  BY <1>1, <1>2, <1>3, <1>4, <1>6, SetUpdateKeeps
<1>8. SameCoins(st, st')
  BY <1>5, <1>7 DEF SameCoins
<1>9. Fair(st, st')
  BY <1>1, <1>8, SameCoinsAreFair
<1>10. barred' \subseteq st'.jailed
  BY <1>1, <1>2, <1>4, <1>7 DEF jailed
<1> QED
  BY <1>1, <1>2, <1>7, <1>9, <1>10 DEF ZeroInv

LEMMA DelegationKeeps ==
  ASSUME ZeroInv, NEW d \in Delegations, Undelegate(d) \/ Redelegate(d)
  PROVE  ZeroInv' /\ Fair(st, st')
<1> DEFINE mid == WithdrawDelegationRewards(st, d, height + 1)
           now == height + 1
<1>1. height \in Int /\ Sound(st, height) /\ Placed(st) /\ barred \subseteq st.jailed
  BY DEF ZeroInv
<1>2. Sound(mid, height + 1) /\ SameStaking(st, mid) /\ Fair(st, mid)
  BY <1>1, RewardsPaid
<1>3. Placed(mid) /\ mid.jailed = st.jailed
  BY <1>1, <1>2, SameStakingPlaced
<1>4. height' = now /\ now \in Int /\ barred' = barred
  BY <1>1 DEF Undelegate, Redelegate, Block
<1>5. PICK red, unb :
        /\ red \in {mid.redelegations, mid.redelegations \cup {now}}
        /\ unb \in {mid.unbondings, mid.unbondings \cup {now}}
        /\ st' = WithRecords(mid, red, unb)
  <2>1. mid \in StateType
    BY <1>2 DEF Sound
  <2>2. \/ st' = [mid EXCEPT !.unbondings = @ \cup {now}]
        \/ st' = [mid EXCEPT !.redelegations = @ \cup {now}]
    BY DEF Undelegate, Redelegate, Block
  <2> HIDE DEF mid, now
  <2>3. CASE st' = [mid EXCEPT !.unbondings = @ \cup {now}]
    <3>1. st' = WithRecords(mid, mid.redelegations, mid.unbondings \cup {now})
      BY <2>1, <2>3 DEF StateType, WithRecords
    <3> QED
      BY <3>1
  <2>4. CASE st' = [mid EXCEPT !.redelegations = @ \cup {now}]
    <3>1. st' = WithRecords(mid, mid.redelegations \cup {now}, mid.unbondings)
      BY <2>1, <2>4 DEF StateType, WithRecords
    <3> QED
      BY <3>1
  <2> QED
    BY <2>2, <2>3, <2>4
<1>6. Sound(mid, now)
  BY <1>2
<1> HIDE DEF mid, now
<1>7. /\ red \in SUBSET Int /\ unb \in SUBSET Int
      /\ \A g \in red \cup unb : g <= now
  <2>1. /\ mid.redelegations \in SUBSET Int /\ mid.unbondings \in SUBSET Int
        /\ \A g \in mid.redelegations \cup mid.unbondings : g <= now
    BY <1>6 DEF Sound, StateType, NoneAfter
  <2> QED
    BY <1>4, <1>5, <2>1
<1>8. Sound(st', now) /\ SameCoins(mid, st') /\ st'.jailed = mid.jailed /\ Placed(st')
  BY <1>3, <1>4, <1>5, <1>6, <1>7, Recorded
<1>9. Fair(st, st')
  BY <1>2, <1>8, FairThenSame DEF now
<1> QED
  BY <1>1, <1>3, <1>4, <1>8, <1>9 DEF ZeroInv

LEMMA ExportKeeps ==
  ASSUME ZeroInv, NEW whiteList \in SUBSET Validators, ExportAppStateAndValidators(whiteList)
  PROVE  ZeroInv' /\ Fair(st, st')
<1>1. height \in Int /\ Sound(st, height) /\ Placed(st)
  BY DEF ZeroInv
<1>2. /\ ~ExportFails(st, whiteList) /\ height' = 0
      /\ st' = [PrepForZeroHeightGenesis(st, whiteList, height) EXCEPT
                  !.index = Validators \ JailUnlisted(st, whiteList).jailed]
      /\ barred' = IF whiteList = {} THEN {} ELSE Validators \ whiteList
  BY DEF ExportAppStateAndValidators
<1>3. /\ Sound(st', 0) /\ Placed(st') /\ Fair(st, st')
      /\ whiteList # {} => Validators \ whiteList \subseteq st'.jailed
  BY <1>1, <1>2, Exported
<1> QED
  BY <1>2, <1>3 DEF ZeroInv

(* Every step keeps the invariant and takes no whole coin from anyone.        *)
LEMMA EveryStepKeeps ==
  ZeroInv /\ [Next]_vars => ZeroInv' /\ (Fair(st, st') \/ UNCHANGED vars)
<1> SUFFICES ASSUME ZeroInv, [Next]_vars
             PROVE  ZeroInv' /\ (Fair(st, st') \/ UNCHANGED vars)
  OBVIOUS
<1>1. ASSUME NEW signers \in SUBSET st.bonded \ {{}}, AllocateTokens(signers)
      PROVE  ZeroInv' /\ Fair(st, st')
  BY <1>1, AllocateKeeps
<1>2. ASSUME NEW v \in Validators, SlashAndJail(v) \/ Unjail(v)
      PROVE  ZeroInv' /\ Fair(st, st')
  BY <1>2, SlashKeeps, UnjailKeeps
<1>3. ASSUME NEW d \in Delegations, Undelegate(d) \/ Redelegate(d)
      PROVE  ZeroInv' /\ Fair(st, st')
  BY <1>3, DelegationKeeps
<1>4. ASSUME NEW whiteList \in SUBSET Validators, ExportAppStateAndValidators(whiteList)
      PROVE  ZeroInv' /\ Fair(st, st')
  BY <1>4, ExportKeeps
<1>5. CASE UNCHANGED vars
  BY <1>5 DEF vars, ZeroInv
<1> QED
  BY <1>1, <1>2, <1>3, <1>4, <1>5 DEF Next

(* ZeroInv holds on every chain, over all its exports.                        *)
THEOREM ZeroHeightInvariant == Spec => []ZeroInv
BY InitIsSound, EveryStepKeeps, PTL DEF Spec

(* The books of x/distribution balance at every height of every chain, after  *)
(* any number of prepForZeroHeightGenesis: the module account holds exactly   *)
(* what is outstanding and the community pool, and each validator's           *)
(* outstanding rewards cover its commission and the dues of its delegations.  *)
THEOREM AlwaysSolvent == Spec => []Solvent
<1>1. ZeroInv => Solvent
  BY DEF ZeroInv, Sound, Solvent
<1> QED
  BY <1>1, ZeroHeightInvariant, PTL

(* No record that a withdrawal looks up is ever missing, though the export    *)
(* deletes all of them before it sets validators and delegations up again.    *)
THEOREM HistoryIsComplete == Spec => []HistoryComplete
<1>1. ZeroInv => HistoryComplete
  BY DEF ZeroInv, Sound, HistoryComplete, LastKept, StartsKept, SlashesKept
<1> QED
  BY <1>1, ZeroHeightInvariant, PTL

(* A chain that starts at height 0 has nothing from a later height: neither   *)
(* the loops nor the update of the validator set leave one behind.            *)
THEOREM NoHeightIsInTheFuture == Spec => []NoFutureHeights
<1>1. ZeroInv => NoFutureHeights
  BY DEF ZeroInv, Sound, NoFutureHeights, NoneAfter
<1> QED
  BY <1>1, ZeroHeightInvariant, PTL

(* Who is not on the whitelist is jailed and not bonded until it unjails,     *)
(* though the export leaves the power index of the old chain as it is.        *)
THEOREM BarredValidatorsStayOut == Spec => []BarredStayOut
<1>1. ZeroInv => BarredStayOut
  BY DEF ZeroInv, Placed, Top, BarredStayOut
<1> QED
  BY <1>1, ZeroHeightInvariant, PTL

(* No step, the four loops of an export included, takes a whole coin from a   *)
(* validator or a delegation.                                                 *)
THEOREM NoCoinIsForfeited == Spec => NothingForfeited
<1>1. ZeroInv /\ [Next]_vars =>
        [\A x \in Payees :
           st'.bal[x] * Unit + Due(st', x) > st.bal[x] * Unit + Due(st, x) - Unit]_vars
  <2> SUFFICES ASSUME ZeroInv, [Next]_vars, ~UNCHANGED vars, NEW x \in Payees
               PROVE  st'.bal[x] * Unit + Due(st', x) > st.bal[x] * Unit + Due(st, x) - Unit
    OBVIOUS
  <2>1. Fair(st, st')
    BY EveryStepKeeps
  <2>2. Worth(st', x) > Worth(st, x) - Unit
    BY <2>1 DEF Fair
  <2>3. /\ Worth(st', x) = st'.bal[x] * Unit + Due(st', x)
        /\ Worth(st, x) = st.bal[x] * Unit + Due(st, x)
    BY Zenon DEF Worth
  <2>4. /\ st.bal[x] * Unit \in Int /\ Due(st, x) \in Int /\ Unit \in Int
    <3>1. st.bal[x] \in Int /\ Due(st, x) \in Int
      BY DEF ZeroInv, Sound, StateType, Payees, Due
    <3> QED
      BY <3>1, CoinsAreCounted
  <2>5. st.bal[x] * Unit + Due(st, x) - Unit = Worth(st, x) - Unit
    BY <2>3, <2>4
  <2> QED
    BY <2>2, <2>3, <2>5
<1> QED
  BY <1>1, ZeroHeightInvariant, PTL DEF Spec, NothingForfeited

=============================================================================
