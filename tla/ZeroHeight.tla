----------------------------- MODULE ZeroHeight -----------------------------
(***************************************************************************)
(* export --for-zero-height: the state is prepared for a new chain that     *)
(* starts at height 0, and started from. The preparation touches what three *)
(* modules of the SDK keep: the rewards of x/distribution, the validators   *)
(* and unbondings of x/staking and the signing infos of x/slashing. They    *)
(* are external; the chain's own blocks are modelled as far as they leave   *)
(* behind what the preparation must deal with.                              *)
(*                                                                          *)
(* Rewards are decimal fractions of coins (here: of Unit parts) until they  *)
(* are withdrawn, in whole coins. What a delegation is due is the           *)
(* difference of two records of its validator's history, those of the       *)
(* period it started in and of the last one; each slash in between is       *)
(* looked up by its height, and in the same history.                        *)
(***************************************************************************)
EXTENDS Integers, FiniteSets, FiniteSetsExt

CONSTANTS
  Validators,
  Rank,             \* the place of each in the order of voting power
  Delegations,      \* pairs of a delegator and a validator
  MaxValidators,    \* how many validators are bonded
  Unit,             \* the parts of a coin
  Fee,              \* coins a validator is allocated in a block, of these
  CommissionShare,  \*   in parts: its commission
  RewardShare,      \*   in parts: the due of each of its delegations
  MaxHeight,        \* bound: blocks of one chain
  MaxExports        \* bound: exports

Of(v) == {d \in Delegations : d[2] = v}

ASSUME PayeesAreFinite ==
  IsFiniteSet(Validators) /\ IsFiniteSet(Delegations) /\ Validators \cap Delegations = {}
ASSUME RanksDiffer ==
  \A v, u \in Validators : Rank[v] \in Nat \ {0} /\ (Rank[v] = Rank[u] => v = u)
ASSUME DelegationsArePairs == \A d \in Delegations : d[2] \in Validators
ASSUME CoinsAreCounted ==
  Unit \in Nat \ {0} /\ Fee \in Nat /\ CommissionShare \in Nat /\ RewardShare \in Nat
ASSUME SharesLeaveAFraction ==
  \A v \in Validators :
    CommissionShare + Cardinality(Of(v)) * RewardShare <= Fee * Unit
ASSUME Bounds == MaxHeight \in Nat /\ MaxExports \in Nat /\ MaxValidators \in Nat

VARIABLES
  height,   \* the last block of the chain
  st,       \* the stores of the three modules and the balances
  exports,  \* how often the chain was restarted from an export
  barred    \* those the last whitelist left out and who have not unjailed

vars == <<height, st, exports, barred>>

Payees == Validators \cup Delegations

(* The period after genesis is 1, its history starts with period 0.         *)
Init ==
  /\ height = 0 /\ exports = 0 /\ barred = {}
  /\ st = [bal |-> [x \in Payees |-> 0], module |-> 0, pool |-> 0,
           outstanding |-> [v \in Validators |-> 0],
           commission  |-> [v \in Validators |-> 0],
           due     |-> [d \in Delegations |-> 0],
           period  |-> [v \in Validators |-> 1],
           history |-> [v \in Validators |-> {0}],
           start   |-> [d \in Delegations |-> [period |-> 0, height |-> 0]],
           slashes |-> {}, redelegations |-> {}, unbondings |-> {},
           jailed  |-> {}, unbondingHeight |-> [v \in Validators |-> 0],
           index   |-> Validators,
           bonded  |-> {v \in Validators : Rank[v] <= MaxValidators},
           signing |-> [v \in Validators |-> 0]]

---------------------------------------------------------------------------
(* x/distribution *)

(* A record that nothing refers to is dropped.                              *)
Collected(s, v) ==
  [s EXCEPT !.history[v] =
     {p \in @ : \/ p = s.period[v] - 1
                \/ \E d \in Of(v) : s.start[d].period = p
                \/ \E e \in s.slashes : e.of = v /\ e.period = p}]

(* IncrementValidatorPeriod closes the current period.                      *)
NextPeriod(s, v) ==
  Collected([s EXCEPT !.period[v] = @ + 1, !.history[v] = @ \cup {s.period[v]}], v)

(* initializeDelegation, at height h.                                       *)
Initialize(s, d, h) ==
  Collected([s EXCEPT !.start[d] = [period |-> s.period[d[2]] - 1, height |-> h]], d[2])

(* Whole coins are paid; the fraction goes to the community pool, or stays  *)
(* with the commission.                                                     *)
WithdrawDelegationRewards(s, d, h) ==
  LET coins == s.due[d] \div Unit
  IN Initialize(
       NextPeriod(
         [s EXCEPT !.bal[d] = @ + coins, !.module = @ - coins,
                   !.pool = @ + (s.due[d] % Unit),
                   !.outstanding[d[2]] = @ - s.due[d], !.due[d] = 0],
         d[2]), d, h)

WithdrawValidatorCommission(s, v) ==
  LET coins == s.commission[v] \div Unit
  IN [s EXCEPT !.bal[v] = @ + coins, !.module = @ - coins,
               !.outstanding[v] = @ - coins * Unit,
               !.commission[v] = @ % Unit]

(* Hooks().AfterValidatorCreated and, for a delegation, BeforeDelegation-   *)
(* Created and AfterDelegationModified.                                     *)
AfterValidatorCreated(s, v) ==
  [s EXCEPT !.period[v] = 1, !.history[v] = @ \cup {0},
            !.outstanding[v] = 0, !.commission[v] = 0]
AfterDelegationCreated(s, d, h) ==
  Initialize([NextPeriod(s, d[2]) EXCEPT !.due[d] = 0], d, h)

---------------------------------------------------------------------------
(* x/staking and the blocks of the chain *)

Top(s) ==
  {v \in s.index : Cardinality({u \in s.index : Rank[u] < Rank[v]}) < MaxValidators}

(* ApplyAndReturnValidatorSetUpdates takes the first of the power index. A  *)
(* validator that leaves the set starts to unbond, one that enters it gets  *)
(* a new signing info.                                                      *)
WithValidatorSet(s, h) ==
  [s EXCEPT
     !.unbondingHeight = [v \in Validators |->
        IF v \in s.bonded \ Top(s) THEN h ELSE @[v]],
     !.signing = [v \in Validators |-> IF v \in Top(s) \ s.bonded THEN h ELSE @[v]],
     !.bonded = Top(s)]

Block(s) ==
  height < MaxHeight /\ height' = height + 1 /\ st' = s /\ UNCHANGED exports

AllocateTokens(signers) ==
  UNCHANGED barred /\ Block([st EXCEPT
    !.module = @ + Fee * Cardinality(signers),
    !.outstanding = [v \in Validators |-> IF v \in signers THEN @[v] + Fee * Unit ELSE @[v]],
    !.commission = [v \in Validators |->
       IF v \in signers THEN @[v] + CommissionShare ELSE @[v]],
    !.due = [d \in Delegations |-> IF d[2] \in signers THEN @[d] + RewardShare ELSE @[d]]])

(* A bonded validator is slashed and jailed, which takes it out of the      *)
(* power index. The slash closes a period.                                  *)
SlashAndJail(v) ==
  /\ v \in st.bonded /\ Cardinality(st.index) > 1 /\ UNCHANGED barred
  /\ Block(WithValidatorSet(
       [NextPeriod([st EXCEPT !.slashes = @ \cup
                      {[of |-> v, height |-> height + 1, period |-> st.period[v]]}], v)
          EXCEPT !.jailed = @ \cup {v}, !.index = @ \ {v}], height + 1))

Unjail(v) ==
  /\ v \in st.jailed /\ barred' = barred \ {v}
  /\ Block(WithValidatorSet(
       [st EXCEPT !.jailed = @ \ {v}, !.index = @ \cup {v}], height + 1))

(* A part of a delegation is taken away, or moved to another validator: its *)
(* rewards are withdrawn first.                                             *)
Undelegate(d) ==
  UNCHANGED barred /\ Block([WithdrawDelegationRewards(st, d, height + 1) EXCEPT
           !.unbondings = @ \cup {height + 1}])
Redelegate(d) ==
  UNCHANGED barred /\ Block([WithdrawDelegationRewards(st, d, height + 1) EXCEPT
           !.redelegations = @ \cup {height + 1}])

---------------------------------------------------------------------------
(* prepForZeroHeightGenesis *)

WithdrawCommissions(s) ==
  FoldSet(LAMBDA v, t : WithdrawValidatorCommission(t, v), s, Validators)

WithdrawNothing(s, h) == s
WithdrawRewards(s, h) ==
  FoldSet(LAMBDA d, t : WithdrawDelegationRewards(t, d, h), s, Delegations)

ClearHistory(s) ==
  [s EXCEPT !.slashes = {}, !.history = [v \in Validators |-> {}]]

(* What no one can withdraw is donated to the community pool.               *)
ReinitValidatorsKeepingScraps(s) ==
  FoldSet(LAMBDA v, t : AfterValidatorCreated(t, v), s, Validators)
ReinitValidators(s) ==
  FoldSet(LAMBDA v, t :
            AfterValidatorCreated([t EXCEPT !.pool = @ + t.outstanding[v]], v),
          s, Validators)

ReinitDelegations(s, h) ==
  FoldSet(LAMBDA d, t : AfterDelegationCreated(t, d, h), s, Delegations)

Zeroed(heights) == {0 : h \in heights}
ResetCreationHeights(s) ==
  [s EXCEPT !.redelegations = Zeroed(@), !.unbondings = Zeroed(@)]

(* A whitelist with nothing on it is none. SetValidator stores the          *)
(* validator and leaves the power index as it is.                           *)
JailNone(s, whiteList) ==
  [s EXCEPT !.unbondingHeight = [v \in Validators |-> 0]]
JailUnlisted(s, whiteList) ==
  [s EXCEPT !.unbondingHeight = [v \in Validators |-> 0],
            !.jailed = IF whiteList = {} THEN @ ELSE @ \cup (Validators \ whiteList)]

ResetSigningInfos(s) == [s EXCEPT !.signing = [v \in Validators |-> 0]]

(* Slash events and history go before the validators and delegations are    *)
(* set up again, and that happens at height 0.                              *)
RewardsClearedLast(s, h) ==
  ClearHistory(
    ReinitDelegations(ReinitValidators(WithdrawRewards(WithdrawCommissions(s), h)), 0))
RewardsAtOldHeight(s, h) ==
  ReinitDelegations(
    ReinitValidators(ClearHistory(WithdrawRewards(WithdrawCommissions(s), h))), h)
PreparedRewards(s, h) ==
  ReinitDelegations(
    ReinitValidators(ClearHistory(WithdrawRewards(WithdrawCommissions(s), h))), 0)

PreparedStaking(s, whiteList, h) ==
  WithValidatorSet(JailUnlisted(ResetCreationHeights(s), whiteList), h)

PrepForZeroHeightGenesis(s, whiteList, h) ==
  ResetSigningInfos(PreparedStaking(PreparedRewards(s, h), whiteList, h))

(* The invariants of x/distribution, which x/crisis asserts at the start.   *)
ModuleAccountHolds(s) ==
  s.module * Unit = MapThenSumSet(LAMBDA v : s.outstanding[v], Validators) + s.pool
CanWithdraw(s) ==
  \A v \in Validators :
    s.commission[v] + MapThenSumSet(LAMBDA d : s.due[d], Of(v)) <= s.outstanding[v]
AssertInvariants(s) == ModuleAccountHolds(s) /\ CanWithdraw(s)

(* WithdrawValidatorCommission returns an error if there is none, which is  *)
(* log.Fatal here; a jailed validator in the power index is a panic. Either *)
(* way nothing is written, as when an address of the whitelist cannot be    *)
(* read, which is not modelled.                                             *)
ExportFails(s, whiteList) ==
  \/ ~AssertInvariants(s)
  \/ \E v \in Validators : s.commission[v] = 0
  \/ Top(s) \cap JailUnlisted(s, whiteList).jailed # {}

(* The new chain's InitGenesis takes over what was exported, and fills the  *)
(* power index with the validators that are not jailed.                     *)
ExportAppStateAndValidators(whiteList) ==
  /\ exports < MaxExports /\ ~ExportFails(st, whiteList)
  /\ st' = [PrepForZeroHeightGenesis(st, whiteList, height) EXCEPT
              !.index = Validators \ JailUnlisted(st, whiteList).jailed]
  /\ height' = 0 /\ exports' = exports + 1
  /\ barred' = IF whiteList = {} THEN {} ELSE Validators \ whiteList

Next ==
  \/ \E signers \in SUBSET st.bonded \ {{}} : AllocateTokens(signers)
  \/ \E v \in Validators : SlashAndJail(v) \/ Unjail(v)
  \/ \E d \in Delegations : Undelegate(d) \/ Redelegate(d)
  \/ \E whiteList \in SUBSET Validators : ExportAppStateAndValidators(whiteList)

Spec == Init /\ [][Next]_vars

---------------------------------------------------------------------------

(* The new chain can pay what it owes, to the last part of a coin: an       *)
(* export at any moment leaves the invariants of x/distribution true, which *)
(* x/crisis halts the chain on and the next export asserts first.           *)
Solvent == AssertInvariants(st)

(* Rewards can be withdrawn on the new chain as on the old: every record    *)
(* the calculation looks up exists, that of the last period, that each      *)
(* delegation started from, and that of each slash.                         *)
HistoryComplete ==
  /\ \A v \in Validators : st.period[v] - 1 \in st.history[v]
  /\ \A d \in Delegations : st.start[d].period \in st.history[d[2]]
  /\ \A e \in st.slashes : e.period \in st.history[e.of]

(* Nothing that is left from the old chain happened at a height the new one *)
(* has yet to reach: such a delegation would have started later than its    *)
(* rewards, such a slash would hit a second time, an unbonding would be     *)
(* spared from a slash, and a validator would not be watched.               *)
NoFutureHeights ==
  \A h \in {st.start[d].height : d \in Delegations} \cup {e.height : e \in st.slashes}
           \cup st.redelegations \cup st.unbondings
           \cup {st.unbondingHeight[v] : v \in Validators}
           \cup {st.signing[v] : v \in Validators} :
    h <= height

(* No one loses more than the fraction of a coin in any step: what a        *)
(* delegation or a validator is due is paid before it is forgotten.         *)
Due(s, x) == IF x \in Validators THEN s.commission[x] ELSE s.due[x]
NothingForfeited ==
  [][\A x \in Payees :
       st'.bal[x] * Unit + Due(st', x) > st.bal[x] * Unit + Due(st, x) - Unit]_vars

(* A validator that the whitelist leaves out signs no block of the new      *)
(* chain before it unjails itself, whoever else is jailed meanwhile.        *)
BarredStayOut == barred \subseteq st.jailed /\ barred \cap st.bonded = {}

=============================================================================
