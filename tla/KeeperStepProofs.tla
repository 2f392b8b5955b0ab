-------------------------- MODULE KeeperStepProofs --------------------------
(***************************************************************************)
(* What one step of a transaction does to its store and its calls, and what *)
(* follows from it over whole transactions: who pays, who writes, which     *)
(* addresses are given out, and that the committed store implements the     *)
(* abstract ledger.                                                         *)
(***************************************************************************)
EXTENDS KeeperProofs, FoldTheorems

(* Coins moved from actor, none were made or lost, and nothing else than     *)
(* accounts and balances changed. Module accounts have neither paid nor been *)
(* paid.                                                                     *)
PaidBy(st, new, actor) ==
  /\ new.codes = st.codes /\ new.contracts = st.contracts /\ new.state = st.state
  /\ new.lastCodeID = st.lastCodeID /\ new.lastInstanceID = st.lastInstanceID
  /\ st.accts \subseteq new.accts
  /\ new.bal \in [Addr -> Nat]
  /\ \A a \in Addr : new.bal[a] < st.bal[a] => a = actor
  /\ \A m \in ModuleAccts : new.bal[m] = st.bal[m]
  /\ Sum(new.bal, Addr) = Sum(st.bal, Addr)

SameCalls(calls) ==
  /\ calls \in Seq(Frame) /\ Len(calls) = Len(stack)
  /\ \A i \in 1 .. Len(stack) :
       calls[i].kind = stack[i].kind /\ calls[i].contract = stack[i].contract

(* The three things a handler that does not fail can do with the calls.      *)
Quiet ==
  /\ SameCalls(stack')
  /\ store'.contracts = store.contracts /\ store'.state = store.state
  /\ store'.lastInstanceID = store.lastInstanceID

Called(calls, f, data) ==
  /\ SameCalls(calls) /\ stack' = Append(calls, f)
  /\ store'.contracts = store.contracts
  /\ store'.state = [store.state EXCEPT ![f.contract] = data]
  /\ \/ /\ f.kind = "execute" /\ f.contract \in DOMAIN store.contracts
        /\ store'.lastInstanceID = store.lastInstanceID
     \/ /\ f.kind = "instantiate" /\ f.contract \notin store.accts
        /\ f.code \in DOMAIN store.codes
        /\ f.contract = ContractAddress(f.code, NextID(store.lastInstanceID))
        /\ store'.lastInstanceID = Bump(store.lastInstanceID)

Returned ==
  /\ stack # <<>> /\ stack' = Popped
  /\ store'.state = store.state /\ store'.lastInstanceID = store.lastInstanceID
  /\ IF Top.kind = "instantiate"
     THEN \E info : store'.contracts = Put(store.contracts, Top.contract, info)
     ELSE store'.contracts = store.contracts

Effect(actor) ==
  /\ phase' = "running" /\ committed' = committed /\ signer' = signer
  /\ Ledger!Extends(store.codes, store'.codes)
  /\ store'.lastCodeID \in {store.lastCodeID, Bump(store.lastCodeID)}
  /\ store.accts \subseteq store'.accts
  /\ \A a \in Addr : store'.bal[a] < store.bal[a] => a = actor
  /\ \A m \in ModuleAccts : store'.bal[m] = store.bal[m]
  /\ Sum(store'.bal, Addr) = Sum(store.bal, Addr)
  /\ \/ Quiet
     \/ \E calls \in Seq(Frame), f \in Frame, data \in ContractState : Called(calls, f, data)
     \/ Returned

-----------------------------------------------------------------------------
(* The operators on stores *)

LEMMA AddressesAreFinite == IsFiniteSet(Addr)
<1>1. IsFiniteSet(ContractAddrs)
  BY IdSpanIsPositive, FS_Interval DEF ContractAddrs
<1> QED
  BY <1>1, AccountsAreFinite, FS_Union DEF Addr

(* A transfer conserves the sum of the balances, also one to oneself.        *)
LEMMA TransferConserves ==
  ASSUME NEW bal \in [Addr -> Nat], NEW from \in Addr, NEW to \in Addr, NEW amt \in Nat
  PROVE  Sum([[bal EXCEPT ![from] = @ - amt] EXCEPT ![to] = @ + amt], Addr) = Sum(bal, Addr)
<1> DEFINE mid == [bal EXCEPT ![from] = @ - amt]
           new == [mid EXCEPT ![to] = @ + amt]
<1>1. mid \in [Addr -> Int] /\ new \in [Addr -> Int] /\ bal \in [Addr -> Int]
  OBVIOUS
<1>2. /\ mid[from] = bal[from] - amt /\ \A a \in Addr : a # from => mid[a] = bal[a]
      /\ new[to] = mid[to] + amt /\ \A a \in Addr : a # to => new[a] = mid[a]
  OBVIOUS
<1> HIDE DEF mid, new
<1>3. Sum(mid, Addr) = Sum(bal, Addr) - bal[from] + mid[from]
  BY <1>1, <1>2, AddressesAreFinite, SumChange
<1>4. Sum(new, Addr) = Sum(mid, Addr) - mid[to] + new[to]
  BY <1>1, <1>2, AddressesAreFinite, SumChange
<1>5. Sum(bal, Addr) \in Int /\ Sum(mid, Addr) \in Int
  BY <1>1, AddressesAreFinite, SumType
<1>6. bal[from] \in Int /\ mid[to] \in Int
  BY <1>1
<1>7. Sum(new, Addr) = Sum(bal, Addr)
  BY <1>2, <1>3, <1>4, <1>5, <1>6
<1> QED
  BY <1>7 DEF new, mid

(* SendCoins takes coins from the sender alone, and pays no module account   *)
(* unless it is asked to.                                                    *)
LEMMA SendIsPaid ==
  ASSUME NEW st, NEW dir, NEW from \in Addr, NEW to \in Addr,
         NEW amt \in Coins \cup {0}, StoreInv(st, dir), CanSend(st, from, amt),
         from \notin ModuleAccts, to \notin ModuleAccts
  PROVE  PaidBy(st, SendCoins(st, from, to, amt), from)
<1> DEFINE new == SendCoins(st, from, to, amt)
<1>1. amt \in Nat
  <2>1. CASE amt \in Amounts
    BY <2>1, CoinsAreNatural
  <2>2. CASE amt = InvalidCoins
    BY <2>2 DEF InvalidCoins, CanSend
  <2>3. CASE amt = 0
    BY <2>3
  <2> QED
    BY <2>1, <2>2, <2>3 DEF Coins
<1>2. /\ st.bal \in [Addr -> Nat] /\ st.bal[from] >= amt
      /\ new.bal = [[st.bal EXCEPT ![from] = @ - amt] EXCEPT ![to] = @ + amt]
      /\ new.codes = st.codes /\ new.contracts = st.contracts /\ new.state = st.state
      /\ new.lastCodeID = st.lastCodeID /\ new.lastInstanceID = st.lastInstanceID
      /\ new.accts = st.accts \cup {from, to}
  BY DEF SendCoins, CanSend, StoreInv, StoreOK, StoreShape
<1> HIDE DEF new
<1>3. new.bal \in [Addr -> Nat]
  BY <1>1, <1>2
<1>4. \A a \in Addr : new.bal[a] < st.bal[a] => a = from
  BY <1>1, <1>2
<1>5. \A m \in ModuleAccts : new.bal[m] = st.bal[m]
  BY <1>1, <1>2 DEF Addr
<1>6. Sum(new.bal, Addr) = Sum(st.bal, Addr)
  BY <1>1, <1>2, TransferConserves
<1> QED
  BY <1>2, <1>3, <1>4, <1>5, <1>6 DEF PaidBy, new

(* Payments of one actor add up.                                             *)
LEMMA PaidTwice ==
  ASSUME NEW st, NEW mid, NEW new, NEW actor, st.bal \in [Addr -> Nat],
         PaidBy(st, mid, actor), PaidBy(mid, new, actor)
  PROVE  PaidBy(st, new, actor)
<1>1. /\ new.codes = st.codes /\ new.contracts = st.contracts /\ new.state = st.state
      /\ new.lastCodeID = st.lastCodeID /\ new.lastInstanceID = st.lastInstanceID
      /\ st.accts \subseteq new.accts
      /\ new.bal \in [Addr -> Nat] /\ mid.bal \in [Addr -> Nat]
  BY DEF PaidBy
<1>2. ASSUME NEW a \in Addr, new.bal[a] < st.bal[a] PROVE a = actor
  <2>1. new.bal[a] \in Nat /\ mid.bal[a] \in Nat /\ st.bal[a] \in Nat
    BY <1>1
  <2>2. mid.bal[a] < st.bal[a] \/ new.bal[a] < mid.bal[a]
    BY <1>2, <2>1
  <2> QED
    BY <2>2 DEF PaidBy
<1>3. /\ \A m \in ModuleAccts : new.bal[m] = st.bal[m]
      /\ Sum(new.bal, Addr) = Sum(st.bal, Addr)
  BY DEF PaidBy
<1> QED
  BY <1>1, <1>2, <1>3 DEF PaidBy

(* Paying nothing.                                                           *)
LEMMA PaidNothing ==
  ASSUME NEW st, NEW actor, st.bal \in [Addr -> Nat]
  PROVE  PaidBy(st, st, actor)
<1>1. \A a \in Addr : st.bal[a] \in Nat
  OBVIOUS
<1>2. \A a \in Addr : ~(st.bal[a] < st.bal[a])
  BY <1>1
<1> QED
  BY <1>2 DEF PaidBy

-----------------------------------------------------------------------------
(* The handlers *)

(* A call that ran a contract on a store that differs from the cached one    *)
(* by payments, and by the instance id it took.                              *)
LEMMA RunHasEffect ==
  ASSUME KeeperInv, phase = "running",
         NEW st, NEW calls \in Seq(Frame), SameCalls(calls), NEW actor,
         StoreInv(st, wasmDir),
         NEW kind \in {"instantiate", "execute"}, NEW addr \in ContractAddrs,
         NEW codeID \in Nat, NEW caller \in Addr,
         RunContract(st, kind, addr, codeID, caller, calls),
         st.codes = store.codes, st.contracts = store.contracts, st.state = store.state,
         st.lastCodeID = store.lastCodeID, store.accts \subseteq st.accts,
         \A a \in Addr : st.bal[a] < store.bal[a] => a = actor,
         \A m \in ModuleAccts : st.bal[m] = store.bal[m],
         Sum(st.bal, Addr) = Sum(store.bal, Addr),
         \/ /\ kind = "execute" /\ addr \in DOMAIN store.contracts
            /\ st.lastInstanceID = store.lastInstanceID
         \/ /\ kind = "instantiate" /\ addr \notin store.accts
            /\ codeID \in DOMAIN store.codes
            /\ addr = ContractAddress(codeID, NextID(store.lastInstanceID))
            /\ st.lastInstanceID = Bump(store.lastInstanceID)
  PROVE  Abort \/ Effect(actor)
<1> SUFFICES ASSUME ~Abort PROVE Effect(actor)
  OBVIOUS
<1>1. PICK r \in StoreCosts, w \in StoreCosts \cup {0} :
        \E used \in 0 .. GasForContract(gas + r), data \in ContractState, n \in 0 .. MaxEmit :
          Finish(r + w + SdkGas(used), WithData(st, addr, data),
                 Append(calls, [kind |-> kind, contract |-> addr, code |-> codeID,
                                caller |-> caller, left |-> n]))
  BY DEF RunContract
<1> PICK used \in 0 .. GasForContract(gas + r), data \in ContractState, n \in 0 .. MaxEmit :
        Finish(r + w + SdkGas(used), WithData(st, addr, data),
               Append(calls, [kind |-> kind, contract |-> addr, code |-> codeID,
                              caller |-> caller, left |-> n]))
  BY <1>1
<1> DEFINE f == [kind |-> kind, contract |-> addr, code |-> codeID,
                 caller |-> caller, left |-> n]
           new == WithData(st, addr, data)
<1>2. f \in Frame /\ f.kind = kind /\ f.contract = addr /\ f.code = codeID
  BY BoundsAreNatural DEF Frame
<1>3. /\ new.codes = st.codes /\ new.contracts = st.contracts /\ new.accts = st.accts
      /\ new.bal = st.bal
      /\ new.lastCodeID = st.lastCodeID /\ new.lastInstanceID = st.lastInstanceID
      /\ new.state = [st.state EXCEPT ![addr] = data]
  BY DEF WithData, StoreInv, StoreOK, StoreShape
<1>4. /\ store' = new /\ stack' = Append(calls, f)
      /\ committed' = committed /\ phase' = phase /\ signer' = signer
  BY DEF Finish
<1> HIDE DEF f, new
<1>5. Called(calls, f, data)
  BY <1>2, <1>3, <1>4 DEF Called
<1>6. Ledger!Extends(store.codes, store'.codes)
  BY <1>3, <1>4 DEF Ledger!Extends
<1> QED
  BY <1>2, <1>3, <1>4, <1>5, <1>6 DEF Effect

(* A handler that finishes after payments.                                   *)
LEMMA PaymentHasEffect ==
  ASSUME phase = "running", NEW st, NEW calls, SameCalls(calls), NEW actor, NEW c,
         PaidBy(store, st, actor), Finish(c, st, calls)
  PROVE  Abort \/ Effect(actor)
<1> SUFFICES ASSUME ~Abort PROVE Effect(actor)
  OBVIOUS
<1>1. /\ store' = st /\ stack' = calls
      /\ committed' = committed /\ phase' = phase /\ signer' = signer
  BY DEF Finish
<1>2. Quiet
  BY <1>1 DEF Quiet, PaidBy
<1>3. Ledger!Extends(store.codes, store'.codes)
  BY <1>1 DEF Ledger!Extends, PaidBy
<1> QED
  BY <1>1, <1>2, <1>3 DEF Effect, PaidBy

(* StoreCode puts its code under an id that no code has.                     *)
LEMMA StoreCodeHasEffect ==
  ASSUME KeeperInv, phase = "running", NEW calls, SameCalls(calls), NEW actor,
         NEW w \in Wasms, StoreCode(actor, w, calls)
  PROVE  Abort \/ Effect(actor)
<1> SUFFICES ASSUME ~Abort PROVE Effect(actor)
  OBVIOUS
<1> DEFINE new == WithCode(store, actor, w)
           id == NextID(store.lastCodeID)
<1>1. PICK c \in StoreCosts : Finish(c, new, calls)
  BY DEF StoreCode
<1>2. /\ new.contracts = store.contracts /\ new.state = store.state
      /\ new.accts = store.accts /\ new.bal = store.bal
      /\ new.lastCodeID = Bump(store.lastCodeID)
      /\ new.lastInstanceID = store.lastInstanceID
      /\ new.codes = Put(store.codes, id, [hash |-> w, creator |-> actor])
  BY DEF WithCode, KeeperInv, StoreInv, StoreOK, StoreShape
<1>3. id \notin DOMAIN store.codes
  <2>1. id \in Nat /\ DOMAIN store.codes = 1 .. (id - 1)
    BY DEF KeeperInv, StoreInv, StoreOK, StoreShape, NextID
  <2> QED
    BY <2>1
<1>4. store.bal \in [Addr -> Nat]
  BY DEF KeeperInv, StoreInv, StoreOK, StoreShape
<1> HIDE DEF new, id
<1>5. Ledger!Extends(store.codes, new.codes)
  BY <1>2, <1>3 DEF Ledger!Extends, Put
<1>6. /\ store' = new /\ stack' = calls
      /\ committed' = committed /\ phase' = phase /\ signer' = signer
  BY <1>1 DEF Finish
<1>7. Quiet
  BY <1>2, <1>6 DEF Quiet
<1>8. \A a \in Addr : ~(store'.bal[a] < store.bal[a])
  BY <1>2, <1>4, <1>6, PaidNothing DEF PaidBy
<1> QED
  BY <1>2, <1>5, <1>6, <1>7, <1>8 DEF Effect

(* Instantiate: the sender pays the deposit to an address nobody had.        *)
LEMMA InstantiateHasEffect ==
  ASSUME KeeperInv, phase = "running", NEW calls \in Seq(Frame), SameCalls(calls),
         NEW actor \in Addr, actor \notin ModuleAccts,
         NEW codeID \in CodeIDs, NEW deposit \in Coins,
         Instantiate(actor, codeID, deposit, calls)
  PROVE  Abort \/ Effect(actor)
<1> DEFINE addr == ContractAddress(codeID, NextID(store.lastInstanceID))
           st == WithInstanceID(store)
           new == SendCoins(st, actor, addr, deposit)
<1> SUFFICES ASSUME addr \notin st.accts, CanSend(st, actor, deposit),
                    codeID \in DOMAIN st.codes,
                    RunContract(new, "instantiate", addr, codeID, actor, calls)
             PROVE  Abort \/ Effect(actor)
  BY DEF Instantiate, AddressTaken, OpenAccount
<1>1. codeID \in Nat /\ addr \in ContractAddrs
  <2>1. codeID \in Nat /\ NextID(store.lastInstanceID) \in Nat
    BY BoundsAreNatural DEF CodeIDs, NextID, KeeperInv, StoreInv, StoreOK, StoreShape
  <2> QED
    BY <2>1, AddressInRange
<1>2. addr \in Addr /\ addr \notin ModuleAccts
  BY <1>1, KindsOfAddress DEF Addr
<1>3. StoreInv(st, wasmDir)
  BY CounterKeepsStore DEF KeeperInv
<1>4. /\ st.codes = store.codes /\ st.contracts = store.contracts
      /\ st.accts = store.accts /\ st.bal = store.bal /\ st.state = store.state
      /\ st.lastCodeID = store.lastCodeID
      /\ st.lastInstanceID = Bump(store.lastInstanceID)
  BY DEF WithInstanceID, KeeperInv, StoreInv, StoreOK, StoreShape
<1>5. addr = ContractAddress(codeID, NextID(store.lastInstanceID))
  OBVIOUS
<1> HIDE DEF addr, st
<1>6. StoreInv(new, wasmDir) /\ PaidBy(st, new, actor)
  BY <1>2, <1>3, SendKeepsStore, SendIsPaid
<1> HIDE DEF new
<1>7. /\ new.codes = store.codes /\ new.contracts = store.contracts
      /\ new.state = store.state /\ store.accts \subseteq new.accts
      /\ new.lastCodeID = store.lastCodeID
      /\ new.lastInstanceID = Bump(store.lastInstanceID)
      /\ \A a \in Addr : new.bal[a] < store.bal[a] => a = actor
      /\ \A m \in ModuleAccts : new.bal[m] = store.bal[m]
      /\ Sum(new.bal, Addr) = Sum(store.bal, Addr)
  BY <1>4, <1>6 DEF PaidBy
<1>8. addr \notin store.accts /\ codeID \in DOMAIN store.codes
  BY <1>4
<1> QED
  BY <1>1, <1>5, <1>6, <1>7, <1>8, RunHasEffect

(* Execute, after payments of the same actor: what it runs exists.           *)
LEMMA ExecuteHasEffect ==
  ASSUME KeeperInv, phase = "running", NEW calls \in Seq(Frame), SameCalls(calls),
         NEW actor \in Addr, actor \notin ModuleAccts,
         NEW st, StoreInv(st, wasmDir), PaidBy(store, st, actor),
         NEW addr \in Addr, NEW coins \in Coins \cup {0},
         Execute(st, actor, addr, coins, calls)
  PROVE  Abort \/ Effect(actor)
<1> DEFINE new == SendCoins(st, actor, addr, coins)
           codeID == st.contracts[addr].code
<1> SUFFICES ASSUME HasInstance(st, addr), CanSend(st, actor, coins),
                    RunContract(new, "execute", addr, codeID, actor, calls)
             PROVE  Abort \/ Effect(actor)
  BY DEF Execute
<1>1. addr \in DOMAIN st.contracts /\ addr \in ContractAddrs /\ codeID \in Nat
  BY DEF HasInstance, StoreInv, StoreOK, IsPartialMap
<1>2. addr \notin ModuleAccts
  BY <1>1, KindsOfAddress
<1> HIDE DEF codeID
<1>3. StoreInv(new, wasmDir) /\ PaidBy(st, new, actor)
  BY <1>2, SendKeepsStore, SendIsPaid
<1>4. store.bal \in [Addr -> Nat]
  BY DEF KeeperInv, StoreInv, StoreOK, StoreShape
<1> HIDE DEF new
<1>5. PaidBy(store, new, actor)
  BY <1>3, <1>4, PaidTwice
<1>6. addr \in DOMAIN store.contracts
  BY <1>1 DEF PaidBy
<1>7. /\ new.codes = store.codes /\ new.contracts = store.contracts
      /\ new.state = store.state /\ store.accts \subseteq new.accts
      /\ new.lastCodeID = store.lastCodeID
      /\ new.lastInstanceID = store.lastInstanceID
      /\ \A a \in Addr : new.bal[a] < store.bal[a] => a = actor
      /\ \A m \in ModuleAccts : new.bal[m] = store.bal[m]
      /\ Sum(new.bal, Addr) = Sum(store.bal, Addr)
  BY <1>5 DEF PaidBy
<1> QED
  BY <1>1, <1>3, <1>6, <1>7, RunHasEffect

(* The bank handler's MsgSend.                                               *)
LEMMA AllowedIsPaid ==
  ASSUME KeeperInv, NEW actor \in Addr, actor \notin ModuleAccts,
         NEW to \in Addr, NEW amt \in Coins, MsgSendAllowed(store, actor, to, amt)
  PROVE  /\ PaidBy(store, SendCoins(store, actor, to, amt), actor)
         /\ StoreInv(SendCoins(store, actor, to, amt), wasmDir)
<1>1. CanSend(store, actor, amt) /\ to \notin ModuleAccts /\ StoreInv(store, wasmDir)
  BY DEF MsgSendAllowed, KeeperInv
<1> QED
  BY <1>1, SendIsPaid, SendKeepsStore

(* A message given to the router for the account it acts for.                *)
LEMMA RouteHasEffect ==
  ASSUME KeeperInv, phase = "running", NEW calls \in Seq(Frame), SameCalls(calls),
         NEW actor \in Addr, actor \notin ModuleAccts, Route(actor, calls)
  PROVE  Abort \/ Effect(actor)
<1>1. ASSUME NEW w \in Wasms, StoreCode(actor, w, calls) PROVE Abort \/ Effect(actor)
  BY <1>1, StoreCodeHasEffect
<1>2. ASSUME NEW codeID \in CodeIDs, NEW deposit \in Coins,
             Instantiate(actor, codeID, deposit, calls)
      PROVE  Abort \/ Effect(actor)
  BY <1>2, InstantiateHasEffect
<1>3. ASSUME NEW addr \in Addr, NEW coins \in Coins,
             Execute(store, actor, addr, coins, calls)
      PROVE  Abort \/ Effect(actor)
  <2>1. StoreInv(store, wasmDir) /\ store.bal \in [Addr -> Nat]
    BY DEF KeeperInv, StoreInv, StoreOK, StoreShape
  <2>2. PaidBy(store, store, actor)
    BY <2>1, PaidNothing
  <2> QED
    BY <1>3, <2>1, <2>2, ExecuteHasEffect
<1>4. ASSUME NEW to \in Addr, NEW amt \in Coins, MsgSend(actor, to, amt, calls)
      PROVE  Abort \/ Effect(actor)
  <2> SUFFICES ASSUME MsgSendAllowed(store, actor, to, amt), NEW c \in StoreCosts,
                      Finish(c, SendCoins(store, actor, to, amt), calls)
               PROVE  Abort \/ Effect(actor)
    BY <1>4 DEF MsgSend
  <2> QED
    BY AllowedIsPaid, PaymentHasEffect
<1> QED
  BY <1>1, <1>2, <1>3, <1>4 DEF Route

-----------------------------------------------------------------------------
(* Steps *)

(* Handing out a message leaves the calls as they are but for a count, and   *)
(* the contract that emitted it is the one the step acts for.                *)
LEMMA DispatchingActs ==
  ASSUME KeeperInv, Dispatching
  PROVE  /\ phase = "running" /\ SameCalls(Dispatched) /\ Dispatched \in Seq(Frame)
         /\ Actor = Top.contract /\ Actor \in Addr /\ Actor \notin ModuleAccts
<1>1. phase = "running" /\ stack # <<>> /\ Top.left > 0 /\ CallsInv(store, stack)
  BY DEF Dispatching, KeeperInv
<1>2. CallsInv(store, Dispatched) /\ Len(Dispatched) = Len(stack)
  BY <1>1, DispatchedKeepsCalls
<1>3. stack \in Seq(Frame) /\ Dispatched \in Seq(Frame)
  BY <1>1, <1>2 DEF CallsInv
<1>4. \A i \in 1 .. Len(stack) : /\ Dispatched[i].kind = stack[i].kind
                                 /\ Dispatched[i].contract = stack[i].contract
  <2> DEFINE n == Len(stack)
  <2>1. n \in Nat \ {0} /\ stack[n] \in Frame
    BY <1>1, <1>3
  <2>2. Dispatched = [stack EXCEPT ![n] = [stack[n] EXCEPT !.left = @ - 1]]
    BY DEF Dispatched
  <2> QED
    BY <1>3, <2>1, <2>2 DEF Frame
<1>5. Top \in Frame
  BY <1>1, <1>3 DEF Top
<1>6. Actor = Top.contract /\ Top.contract \in ContractAddrs
  BY <1>1, <1>5 DEF Actor, Frame
<1> QED
  BY <1>1, <1>2, <1>3, <1>4, <1>6, KindsOfAddress DEF SameCalls, Addr

(* The tokens of a contract's message: refused, none, or its own.            *)
LEMMA TokensArePaid ==
  ASSUME KeeperInv, NEW from \in Addr, NEW actor \in Addr, actor \notin ModuleAccts,
         NEW to \in Addr, NEW amt \in Coins,
         ~TokensRefused(store, actor, from, to, amt)
  PROVE  /\ PaidBy(store, SendTokens(store, from, to, amt), actor)
         /\ StoreInv(SendTokens(store, from, to, amt), wasmDir)
<1>1. CASE amt = 0
  <2>1. StoreInv(store, wasmDir) /\ store.bal \in [Addr -> Nat]
    BY DEF KeeperInv, StoreInv, StoreOK, StoreShape
  <2>2. PaidBy(store, store, actor)
    BY <2>1, PaidNothing
  <2> QED
    BY <1>1, <2>1, <2>2 DEF SendTokens
<1>2. CASE amt # 0
  <2>1. from = actor /\ MsgSendAllowed(store, from, to, amt)
    BY <1>2 DEF TokensRefused, SignedBy
  <2> QED
    BY <1>2, <2>1, AllowedIsPaid DEF SendTokens
<1> QED
  BY <1>1, <1>2

(* Nothing is ever removed from wasmer's directory.                          *)
LEMMA DirOnlyGrows == [Next]_vars => wasmDir \subseteq wasmDir'
<1>1. ASSUME NEW sender, NEW calls, Route(sender, calls) PROVE wasmDir \subseteq wasmDir'
  BY <1>1 DEF Route, StoreCode
<1> QED
  BY <1>1 DEF Next, RunTx, Dispatch, DeliverMsg, DispatchSend, DispatchContract,
              DispatchOpaque, DispatchMalformed, Return, CommitTx, BeginTx, vars

(* Every step of a node: it begins, commits or aborts a transaction, or it   *)
(* is a handler's, for the account that the running message acts for.        *)
LEMMA StepCases ==
  ASSUME KeeperInv, [Next]_vars
  PROVE  \/ UNCHANGED vars
         \/ \E u \in Users, l \in GasLimits : BeginTx(u, l)
         \/ CommitTx
         \/ phase = "running" /\ (Abort \/ Effect(Actor))
<1>1. ASSUME DeliverMsg PROVE phase = "running" /\ (Abort \/ Effect(Actor))
  <2>1. phase = "running" /\ stack = <<>> /\ Route(signer, <<>>)
    BY <1>1 DEF DeliverMsg
  <2>2. Actor = signer /\ signer \in Users
    BY <2>1 DEF Actor, KeeperInv, PhaseInv
  <2>3. signer \in Addr /\ signer \notin ModuleAccts
    BY <2>2, KindsOfAddress DEF Addr
  <2>4. SameCalls(<<>>) /\ <<>> \in Seq(Frame)
    BY <2>1 DEF SameCalls
  <2> QED
    BY <2>1, <2>2, <2>3, <2>4, RouteHasEffect
<1>2. ASSUME DispatchSend PROVE phase = "running" /\ (Abort \/ Effect(Actor))
  <2>1. Dispatching
    BY <1>2 DEF DispatchSend
  <2>2. /\ phase = "running" /\ SameCalls(Dispatched)
        /\ Actor = Top.contract /\ Actor \in Addr /\ Actor \notin ModuleAccts
    BY <2>1, DispatchingActs
  <2>3. ASSUME NEW from \in Addr, NEW to \in Addr, NEW amt \in Coins,
               ~TokensRefused(store, Top.contract, from, to, amt), NEW c \in StoreCosts,
               Finish(c, SendTokens(store, from, to, amt), Dispatched)
        PROVE  Abort \/ Effect(Actor)
    BY <2>2, <2>3, TokensArePaid, PaymentHasEffect
  <2> QED
    BY <1>2, <2>2, <2>3 DEF DispatchSend
<1>3. ASSUME DispatchContract PROVE phase = "running" /\ (Abort \/ Effect(Actor))
  <2>1. Dispatching
    BY <1>3 DEF DispatchContract
  <2>2. /\ phase = "running" /\ SameCalls(Dispatched) /\ Dispatched \in Seq(Frame)
        /\ Actor = Top.contract /\ Actor \in Addr /\ Actor \notin ModuleAccts
    BY <2>1, DispatchingActs
  <2>3. ASSUME NEW target \in Addr, NEW amt \in Coins,
               ~TokensRefused(store, Top.contract, Top.contract, target, amt),
               Execute(SendTokens(store, Top.contract, target, amt),
                       Top.contract, target, 0, Dispatched)
        PROVE  Abort \/ Effect(Actor)
    <3>1. /\ PaidBy(store, SendTokens(store, Actor, target, amt), Actor)
          /\ StoreInv(SendTokens(store, Actor, target, amt), wasmDir)
      BY <2>2, <2>3, TokensArePaid
    <3>2. Execute(SendTokens(store, Actor, target, amt), Actor, target, 0, Dispatched)
      BY <2>2, <2>3
    <3> QED
      BY <2>2, <3>1, <3>2, ExecuteHasEffect
  <2> QED
    BY <1>3, <2>2, <2>3 DEF DispatchContract
<1>4. ASSUME DispatchOpaque PROVE phase = "running" /\ (Abort \/ Effect(Actor))
  <2>1. Dispatching
    BY <1>4 DEF DispatchOpaque
  <2>2. /\ phase = "running" /\ SameCalls(Dispatched) /\ Dispatched \in Seq(Frame)
        /\ Actor = Top.contract /\ Actor \in Addr /\ Actor \notin ModuleAccts
    BY <2>1, DispatchingActs
  <2>3. ASSUME NEW sender \in Addr, SignedBy(Top.contract, sender), Route(sender, Dispatched)
        PROVE  Abort \/ Effect(Actor)
    <3>1. sender = Actor
      BY <2>2, <2>3 DEF SignedBy
    <3> QED
      BY <2>2, <2>3, <3>1, RouteHasEffect
  <2> QED
    BY <1>4, <2>2, <2>3 DEF DispatchOpaque
<1>5. ASSUME DispatchMalformed PROVE phase = "running" /\ (Abort \/ Effect(Actor))
  BY <1>5 DEF DispatchMalformed, Dispatching
<1>6. ASSUME Return PROVE phase = "running" /\ (Abort \/ Effect(Actor))
  <2>1. phase = "running" /\ stack # <<>>
    BY <1>6 DEF Return
  <2> DEFINE After(msg) == IF Top.kind = "instantiate" THEN Persisted(store, Top, msg) ELSE store
  <2>a. PICK c \in Nat : \E msg : Finish(c, After(msg), Popped)
    BY <1>6, StoreAccessIsNeverFree DEF Return
  <2>0. PICK msg : Finish(c, After(msg), Popped)
    BY <2>a
  <2> DEFINE new == After(msg)
             info == [code |-> Top.code, creator |-> Top.caller, initMsg |-> msg]
  <2>2. Finish(c, new, Popped)
    BY <2>0
  <2>3. /\ new.codes = store.codes /\ new.state = store.state /\ new.bal = store.bal
        /\ new.accts = store.accts /\ new.lastCodeID = store.lastCodeID
        /\ new.lastInstanceID = store.lastInstanceID
        /\ new.contracts =
             IF Top.kind = "instantiate"
             THEN Put(store.contracts, Top.contract, info) ELSE store.contracts
    BY DEF Persisted, KeeperInv, StoreInv, StoreOK, StoreShape
  <2>4. \A a \in Addr : ~(store.bal[a] < store.bal[a])
    <3>1. \A a \in Addr : store.bal[a] \in Nat
      BY DEF KeeperInv, StoreInv, StoreOK, StoreShape
    <3> QED
      BY <3>1
  <2> HIDE DEF new
  <2> SUFFICES ASSUME ~Abort PROVE Effect(Actor)
    BY <2>1
  <2>5. /\ store' = new /\ stack' = Popped
        /\ committed' = committed /\ phase' = phase /\ signer' = signer
    BY <2>2 DEF Finish
  <2>6. Returned
    BY <2>1, <2>3, <2>5 DEF Returned
  <2>7. Ledger!Extends(store.codes, store'.codes)
    BY <2>3, <2>5 DEF Ledger!Extends
  <2> QED
    BY <2>1, <2>3, <2>4, <2>5, <2>6, <2>7 DEF Effect
<1> QED
  BY <1>1, <1>2, <1>3, <1>4, <1>5, <1>6 DEF Next, RunTx, Dispatch

-----------------------------------------------------------------------------
(* Who pays and who writes *)

(* Inside a transaction only the account a step acts for loses coins, for    *)
(* every set of users, of contracts and of messages, and at every depth of   *)
(* calls; DispatchContract pays twice in one step.                           *)
THEOREM OnlyTheActorPays == Spec => OnlyActorPays
<1>1. KeeperInv /\ [Next]_vars =>
        [phase = "running" /\ phase' = "running" =>
           \A a \in Addr : store'.bal[a] < store.bal[a] => a = Actor]_vars
  <2> SUFFICES ASSUME KeeperInv, [Next]_vars, phase = "running", phase' = "running",
                      ~UNCHANGED vars
               PROVE  \A a \in Addr : store'.bal[a] < store.bal[a] => a = Actor
    OBVIOUS
  <2>1. Effect(Actor)
    BY StepCases DEF BeginTx, CommitTx, Abort, EndTx
  <2> QED
    BY <2>1 DEF Effect
<1> QED
  BY <1>1, KeeperInvariant, PTL DEF Spec, OnlyActorPays

(* A contract's data changes only in the step that runs this contract: the   *)
(* payments, uploads and returns around it leave every prefix alone.         *)
THEOREM OnlyTheOwnerWrites == Spec => OnlyOwnerWrites
<1>1. KeeperInv /\ [Next]_vars =>
        [phase = "running" /\ phase' = "running" =>
           \A a \in ContractAddrs : store'.state[a] # store.state[a] =>
             Len(stack') = Len(stack) + 1 /\ stack'[Len(stack')].contract = a]_vars
  <2> SUFFICES ASSUME KeeperInv, [Next]_vars, phase = "running", phase' = "running",
                      ~UNCHANGED vars,
                      NEW a \in ContractAddrs, store'.state[a] # store.state[a]
               PROVE  Len(stack') = Len(stack) + 1 /\ stack'[Len(stack')].contract = a
    OBVIOUS
  <2>1. Effect(Actor)
    BY StepCases DEF BeginTx, CommitTx, Abort, EndTx
  <2>2. PICK calls \in Seq(Frame), f \in Frame, data \in ContractState :
          Called(calls, f, data)
    BY <2>1 DEF Effect, Quiet, Returned
  <2>3. /\ Len(calls) = Len(stack) /\ stack' = Append(calls, f)
        /\ store'.state = [store.state EXCEPT ![f.contract] = data]
    BY <2>2 DEF Called, SameCalls
  <2>4. Len(stack') = Len(stack) + 1 /\ stack'[Len(stack')] = f
    BY <2>3
  <2>5. store.state \in [ContractAddrs -> ContractState]
    BY DEF KeeperInv, StoreInv, StoreOK, StoreShape
  <2>6. a = f.contract
    BY <2>3, <2>5
  <2> QED
    BY <2>4, <2>6
<1> QED
  BY <1>1, KeeperInvariant, PTL DEF Spec, OnlyOwnerWrites

(* No message, of a user or of a contract, pays a module account: neither    *)
(* through the bank's handler nor through the keeper's own SendCoins.        *)
THEOREM ModulesAreUntouched == Spec => []ModuleAcctsUntouched
<1>1. Init => ModuleAcctsUntouched
  BY KindsOfAddress DEF Init, InitStore, ModuleAcctsUntouched, Addr
<1>2. KeeperInv /\ ModuleAcctsUntouched /\ [Next]_vars => ModuleAcctsUntouched'
  <2> SUFFICES ASSUME KeeperInv, ModuleAcctsUntouched, [Next]_vars
               PROVE  ModuleAcctsUntouched'
    OBVIOUS
  <2>1. CASE UNCHANGED vars \/ \E u \in Users, l \in GasLimits : BeginTx(u, l)
    BY <2>1 DEF vars, BeginTx, ModuleAcctsUntouched
  <2>2. CASE CommitTx \/ Abort
    BY <2>2 DEF CommitTx, Abort, ModuleAcctsUntouched
  <2>3. CASE Effect(Actor)
    BY <2>3 DEF Effect, ModuleAcctsUntouched
  <2> QED
    BY <2>1, <2>2, <2>3, StepCases
<1> QED
  BY <1>1, <1>2, KeeperInvariant, PTL DEF Spec

LEMMA SupplyIsSum ==
  ASSUME NEW st
  PROVE  Supply(st) = Sum(st.bal, Addr)
BY DEF Supply, Sum

(* Coins are neither made nor lost: a transfer takes from one account what   *)
(* it gives to another, also where both are the same, a call that fails in   *)
(* between takes all of it back, and nothing else touches a balance.         *)
THEOREM SupplyIsConserved == Spec => []SupplyConserved
<1> DEFINE total == UserFunds * Cardinality(Users)
           Conserved == Sum(committed.bal, Addr) = total /\ Sum(store.bal, Addr) = total
<1>1. Init => Conserved
  <2> SUFFICES ASSUME Init PROVE Conserved
    OBVIOUS
  <2> DEFINE none == [a \in Addr |-> 0]
             bal == [a \in Addr |-> IF a \in Users THEN UserFunds ELSE 0]
  <2>1. committed.bal = bal /\ store.bal = bal
    BY DEF Init, InitStore
  <2>2. Users \in SUBSET Addr /\ UserFunds \in Int
    BY CoinsAreNatural DEF Addr
  <2>3. /\ \A a \in Addr : none[a] \in Int
        /\ \A a \in Addr : bal[a] = IF a \in Users THEN none[a] + UserFunds ELSE none[a]
    BY <2>2
  <2>4. Sum(none, Addr) = 0
    <3>1. \A a \in Addr : none[a] = 0
      OBVIOUS
    <3> HIDE DEF none
    <3> QED
      BY <3>1, AddressesAreFinite, SumZero
  <2>5. Sum(bal, Addr) = Sum(none, Addr) + UserFunds * Cardinality(Users)
    <3> HIDE DEF none, bal, Conserved, total
    <3> QED
      BY <2>2, <2>3, AddressesAreFinite, SumGrows
  <2>6. total \in Int
    BY <2>2, AccountsAreFinite, FS_CardinalityType
  <2> HIDE DEF none, bal
  <2> QED
    BY <2>1, <2>4, <2>5, <2>6
<1>2. KeeperInv /\ Conserved /\ [Next]_vars => Conserved'
  <2> SUFFICES ASSUME KeeperInv, Conserved, [Next]_vars
               PROVE  Conserved'
    OBVIOUS
  <2>1. CASE UNCHANGED vars \/ \E u \in Users, l \in GasLimits : BeginTx(u, l)
    BY <2>1 DEF vars, BeginTx
  <2>2. CASE CommitTx \/ Abort
    BY <2>2 DEF CommitTx, Abort
  <2>3. CASE Effect(Actor)
    BY <2>3 DEF Effect
  <2> QED
    BY <2>1, <2>2, <2>3, StepCases
<1>3. Conserved => SupplyConserved
  BY SupplyIsSum DEF SupplyConserved
<1> QED
  BY <1>1, <1>2, <1>3, KeeperInvariant, PTL DEF Spec

-----------------------------------------------------------------------------
(* What follows about the calls after a step *)

(* The pending instantiations after a step that keeps, adds or removes a     *)
(* call.                                                                     *)
LEMMA PendingAfter ==
  ASSUME KeeperInv, Effect(Actor)
  PROVE  \/ /\ Quiet
            /\ \A i \in Pending' : i \in Pending /\ stack'[i].contract = stack[i].contract
            /\ \A i \in Pending : i \in Pending' /\ stack'[i].contract = stack[i].contract
         \/ \E calls \in Seq(Frame), f \in Frame, data \in ContractState :
              /\ Called(calls, f, data)
              /\ \A i \in Pending' :
                   \/ i \in Pending /\ stack'[i].contract = stack[i].contract
                   \/ f.kind = "instantiate" /\ stack'[i].contract = f.contract
              /\ \A i \in Pending : i \in Pending' /\ stack'[i].contract = stack[i].contract
              /\ f.kind = "instantiate" =>
                   \E i \in Pending' : stack'[i].contract = f.contract
         \/ /\ Returned
            /\ \A i \in Pending' : i \in Pending /\ stack'[i].contract = stack[i].contract
            /\ \A i \in Pending :
                 \/ i \in Pending' /\ stack'[i].contract = stack[i].contract
                 \/ i = Len(stack) /\ Top.kind = "instantiate"
<1>1. stack \in Seq(Frame) /\ Len(stack) \in Nat
  BY DEF KeeperInv, CallsInv
<1>2. CASE Quiet
  BY <1>2 DEF Quiet, SameCalls, Pending
<1>3. ASSUME NEW calls \in Seq(Frame), NEW f \in Frame, NEW data \in ContractState,
             Called(calls, f, data)
      PROVE  /\ \A i \in Pending' :
                   \/ i \in Pending /\ stack'[i].contract = stack[i].contract
                   \/ f.kind = "instantiate" /\ stack'[i].contract = f.contract
             /\ \A i \in Pending : i \in Pending' /\ stack'[i].contract = stack[i].contract
             /\ f.kind = "instantiate" =>
                   \E i \in Pending' : stack'[i].contract = f.contract
  <2>1. /\ Len(calls) = Len(stack) /\ stack' = Append(calls, f)
        /\ \A i \in 1 .. Len(stack) : /\ calls[i].kind = stack[i].kind
                                      /\ calls[i].contract = stack[i].contract
    BY <1>3 DEF Called, SameCalls
  <2>2. /\ Len(stack') = Len(stack) + 1 /\ stack'[Len(stack) + 1] = f
        /\ \A i \in 1 .. Len(stack) : stack'[i] = calls[i]
    BY <1>1, <2>1
  <2>3. Len(stack) + 1 \in 1 .. Len(stack')
    BY <1>1, <2>2
  <2>4. f.kind = "instantiate" => Len(stack) + 1 \in Pending'
    BY <2>2, <2>3 DEF Pending
  <2>5. \A i \in 1 .. Len(stack') : i \in 1 .. Len(stack) \/ i = Len(stack) + 1
    BY <1>1, <2>2
  <2>6. \A i \in 1 .. Len(stack) : i \in 1 .. Len(stack')
    BY <1>1, <2>2
  <2>7. \A i \in Pending' :
          \/ i \in Pending /\ stack'[i].contract = stack[i].contract
          \/ f.kind = "instantiate" /\ stack'[i].contract = f.contract
    BY <2>1, <2>2, <2>5 DEF Pending
  <2>8. \A i \in Pending : i \in Pending' /\ stack'[i].contract = stack[i].contract
    BY <2>1, <2>2, <2>6 DEF Pending
  <2> QED
    BY <2>2, <2>4, <2>7, <2>8
<1>4. CASE Returned
  <2>1. stack # <<>> /\ stack' = Popped
    BY <1>4 DEF Returned
  <2>2. /\ Len(stack') = Len(stack) - 1
        /\ \A i \in 1 .. Len(stack') : stack'[i] = stack[i]
    BY <2>1, PoppedKeepsCalls DEF KeeperInv
  <2>3. \A i \in 1 .. Len(stack) : i \in 1 .. Len(stack') \/ i = Len(stack)
    BY <1>1, <2>2
  <2>4. \A i \in 1 .. Len(stack') : i \in 1 .. Len(stack)
    BY <1>1, <2>2
  <2> QED
    BY <1>4, <2>2, <2>3, <2>4 DEF Pending, Top
<1> QED
  BY <1>2, <1>3, <1>4 DEF Effect

-----------------------------------------------------------------------------
(* Data without an instance *)

(* Every prefix with data belongs to an instance, or to one in the making,   *)
(* at every depth of nested instantiations; an aborted one leaves nothing.   *)
THEOREM NoStateIsOrphaned == Spec => []NoOrphanState
<1>1. Init => NoOrphanState
  BY DEF Init, InitStore, NoOrphanState
<1>2. KeeperInv /\ NoOrphanState /\ [Next]_vars => NoOrphanState'
  <2> SUFFICES ASSUME KeeperInv, NoOrphanState, [Next]_vars
               PROVE  NoOrphanState'
    OBVIOUS
  <2>1. CASE UNCHANGED vars \/ \E u \in Users, l \in GasLimits : BeginTx(u, l)
    BY <2>1 DEF vars, BeginTx, NoOrphanState, Pending
  <2>2. CASE CommitTx
    <3>1. stack = <<>> /\ committed' = store /\ store' = store
      BY <2>2 DEF CommitTx
    <3>2. Pending = {}
      BY <3>1 DEF Pending
    <3> QED
      BY <3>1, <3>2 DEF NoOrphanState
  <2>3. CASE Abort
    BY <2>3 DEF Abort, NoOrphanState
  <2>4. CASE Effect(Actor)
    <3> SUFFICES ASSUME NEW a \in ContractAddrs, store'.state[a] # [k \in Keys |-> Nil]
                 PROVE  a \in DOMAIN store'.contracts \/ \E i \in Pending' : stack'[i].contract = a
      BY <2>4 DEF Effect, NoOrphanState
    <3>1. CASE /\ Quiet
               /\ \A i \in Pending : i \in Pending' /\ stack'[i].contract = stack[i].contract
      BY <3>1 DEF Quiet, NoOrphanState
    <3>2. ASSUME NEW calls, NEW f \in Frame, NEW data, Called(calls, f, data),
                 \A i \in Pending : i \in Pending' /\ stack'[i].contract = stack[i].contract,
                 f.kind = "instantiate" => \E i \in Pending' : stack'[i].contract = f.contract
          PROVE  a \in DOMAIN store'.contracts \/ \E i \in Pending' : stack'[i].contract = a
      <4>1. /\ store'.contracts = store.contracts
            /\ store'.state = [store.state EXCEPT ![f.contract] = data]
            /\ f.kind # "instantiate" => f.contract \in DOMAIN store.contracts
        BY <3>2 DEF Called
      <4>2. CASE a = f.contract
        BY <3>2, <4>1, <4>2
      <4>3. CASE a # f.contract
        <5>1. store'.state[a] = store.state[a]
          BY <4>1, <4>3 DEF KeeperInv, StoreInv, StoreOK, StoreShape
        <5> QED
          BY <3>2, <4>1, <5>1 DEF NoOrphanState
      <4> QED
        BY <4>2, <4>3
    <3>3. CASE /\ Returned
               /\ \A i \in Pending :
                    \/ i \in Pending' /\ stack'[i].contract = stack[i].contract
                    \/ i = Len(stack) /\ Top.kind = "instantiate"
      <4>1. /\ store'.state = store.state
            /\ DOMAIN store.contracts \subseteq DOMAIN store'.contracts
            /\ Top.kind = "instantiate" => Top.contract \in DOMAIN store'.contracts
        BY <3>3 DEF Returned, Put
      <4> QED
        BY <3>3, <4>1 DEF NoOrphanState, Top
    <3> QED
      BY <2>4, <3>1, <3>2, <3>3, PendingAfter
  <2> QED
    BY <2>1, <2>2, <2>3, <2>4, StepCases
<1> QED
  BY <1>1, <1>2, KeeperInvariant, PTL DEF Spec

-----------------------------------------------------------------------------
(* The addresses that were given out *)

(* An address that some code and some earlier instance id yield.             *)
Given(st, a) ==
  \E codeID \in DOMAIN st.codes, id \in 1 .. (NextID(st.lastInstanceID) - 1) :
    a = ContractAddress(codeID, id)

AddressInv ==
  /\ \A a \in DOMAIN committed.contracts : Given(committed, a)
  /\ \A a \in DOMAIN store.contracts : Given(store, a)
  /\ \A i \in Pending : Given(store, stack[i].contract)

(* Below the bounds of their 32 bits, two pairs of ids have two addresses.   *)
LEMMA AddressesDiffer ==
  ASSUME NEW c \in Nat, NEW i \in Nat, NEW d \in Nat, NEW j \in Nat,
         c < IdSpan, i < IdSpan, d < IdSpan, j < IdSpan,
         ContractAddress(c, i) = ContractAddress(d, j)
  PROVE  c = d /\ i = j
<1> DEFINE S == IdSpan
<1>1. S \in Nat \ {0}
  BY IdSpanIsPositive
<1> HIDE DEF S
<1>2. ASSUME NEW x \in Nat, NEW y \in Nat, x < S, y < S
      PROVE  x * S + y \in Nat /\ x * S + y < S * S
  <2> DEFINE k == S - 1 - x
  <2>1. k \in Nat /\ S = x + 1 + k
    BY <1>1, <1>2
  <2> HIDE DEF k
  <2>2. S * S = x * S + S + k * S /\ k * S \in Nat /\ x * S \in Nat
    BY <1>1, <2>1
  <2> QED
    BY <1>1, <1>2, <2>2
<1>3. ASSUME NEW n \in Nat, NEW m \in Nat \ {0}, n < m PROVE n % m = n
  BY <1>3
<1>4. S * S \in Nat \ {0}
  BY <1>1
<1>5. c * S + i = d * S + j
  <2>1. (c * S + i) % (S * S) = c * S + i /\ (d * S + j) % (S * S) = d * S + j
    BY <1>2, <1>3, <1>4 DEF S
  <2> QED
    BY <2>1 DEF ContractAddress, S
<1>6. ASSUME NEW x \in Nat, NEW y \in Nat, NEW z \in Nat, NEW u \in Nat,
             u < S, x < z, x * S + u = z * S + y
      PROVE  FALSE
  <2> DEFINE k == z - 1 - x
  <2>1. k \in Nat /\ z = x + 1 + k
    BY <1>6
  <2> HIDE DEF k
  <2>2. z * S = x * S + S + k * S /\ k * S \in Nat /\ x * S \in Nat
    BY <1>1, <2>1
  <2> QED
    BY <1>1, <1>6, <2>2
<1>7. c = d
  BY <1>5, <1>6 DEF S
<1> QED
  BY <1>1, <1>5, <1>7

(* A store with more codes and a later counter has given out as much.        *)
LEMMA GivenGrows ==
  ASSUME NEW st, NEW new, NEW a, Given(st, a), DOMAIN st.codes \subseteq DOMAIN new.codes,
         NextID(st.lastInstanceID) \in Nat, NextID(new.lastInstanceID) \in Nat,
         NextID(st.lastInstanceID) <= NextID(new.lastInstanceID)
  PROVE  Given(new, a)
BY DEF Given

(* Every step keeps the origin of every address.                             *)
LEMMA AddressKeeps ==
  ASSUME KeeperInv, AddressInv, [Next]_vars
  PROVE  AddressInv'
<1>1. CASE UNCHANGED vars \/ \E u \in Users, l \in GasLimits : BeginTx(u, l)
  BY <1>1 DEF vars, BeginTx, AddressInv, Pending, Given
<1>2. CASE CommitTx
  <2>1. committed' = store /\ store' = store /\ stack' = <<>>
    BY <1>2 DEF CommitTx, EndTx
  <2>2. Pending' = {}
    BY <2>1 DEF Pending
  <2> QED
    BY <2>1, <2>2 DEF AddressInv, Given
<1>3. CASE Abort
  <2>1. committed' = committed /\ store' = committed /\ stack' = <<>>
    BY <1>3 DEF Abort, EndTx
  <2>2. Pending' = {}
    BY <2>1 DEF Pending
  <2> QED
    BY <2>1, <2>2 DEF AddressInv, Given
<1>4. CASE Effect(Actor)
  <2>1. /\ committed' = committed /\ DOMAIN store.codes \subseteq DOMAIN store'.codes
    BY <1>4 DEF Effect, Ledger!Extends
  <2> DEFINE old == NextID(store.lastInstanceID)
             next == NextID(store'.lastInstanceID)
  <2>2. old \in Nat \ {0} /\ NextID(Bump(store.lastInstanceID)) = old + 1
    BY NilIsNoValue DEF NextID, Bump, KeeperInv, StoreInv, StoreOK, StoreShape
  <2>3. store'.lastInstanceID = store.lastInstanceID
        \/ store'.lastInstanceID = Bump(store.lastInstanceID)
    BY <1>4 DEF Effect, Quiet, Called, Returned
  <2>4. next \in Nat /\ old <= next
    BY <2>2, <2>3
  <2> HIDE DEF old, next
  <2>5. ASSUME NEW a, Given(store, a) PROVE Given(store', a)
    BY <2>1, <2>2, <2>4, <2>5, GivenGrows DEF old, next
  <2>6. CASE /\ Quiet
             /\ \A i \in Pending' : i \in Pending /\ stack'[i].contract = stack[i].contract
    <3>1. store'.contracts = store.contracts
      BY <2>6 DEF Quiet
    <3>2. \A a \in DOMAIN store'.contracts : Given(store', a)
      BY <2>5, <3>1 DEF AddressInv
    <3>3. \A i \in Pending' : Given(store', stack'[i].contract)
      BY <2>5, <2>6 DEF AddressInv
    <3> QED
      BY <2>1, <3>2, <3>3 DEF AddressInv, Given
  <2>7. ASSUME NEW calls, NEW f \in Frame, NEW data, Called(calls, f, data),
               \A i \in Pending' :
                  \/ i \in Pending /\ stack'[i].contract = stack[i].contract
                  \/ f.kind = "instantiate" /\ stack'[i].contract = f.contract
        PROVE  AddressInv'
    <3>1. store'.contracts = store.contracts
      BY <2>7 DEF Called
    <3>2. \A a \in DOMAIN store'.contracts : Given(store', a)
      BY <2>5, <3>1 DEF AddressInv
    <3>3. ASSUME f.kind = "instantiate" PROVE Given(store', f.contract)
      <4>1. /\ f.contract = ContractAddress(f.code, old) /\ f.code \in DOMAIN store'.codes
            /\ store'.lastInstanceID = Bump(store.lastInstanceID)
        BY <2>1, <2>7, <3>3 DEF Called, old
      <4>2. old \in 1 .. (NextID(store'.lastInstanceID) - 1)
        BY <2>2, <4>1
      <4> QED
        BY <4>1, <4>2 DEF Given
    <3>4. \A i \in Pending' : Given(store', stack'[i].contract)
      BY <2>5, <2>7, <3>3 DEF AddressInv
    <3> QED
      BY <2>1, <3>2, <3>4 DEF AddressInv, Given
  <2>8. CASE /\ Returned
             /\ \A i \in Pending' : i \in Pending /\ stack'[i].contract = stack[i].contract
    <3>1. Top.kind = "instantiate" => Given(store, Top.contract)
      <4>1. stack # <<>> /\ stack \in Seq(Frame)
        BY <2>8 DEF Returned, KeeperInv, CallsInv
      <4>2. Len(stack) \in 1 .. Len(stack)
        BY <4>1
      <4> QED
        BY <4>2 DEF AddressInv, Pending, Top
    <3>2. \A a \in DOMAIN store'.contracts :
            a \in DOMAIN store.contracts \/ (Top.kind = "instantiate" /\ a = Top.contract)
      BY <2>8 DEF Returned, Put
    <3>3. \A a \in DOMAIN store'.contracts : Given(store', a)
      BY <2>5, <3>1, <3>2 DEF AddressInv
    <3>4. \A i \in Pending' : Given(store', stack'[i].contract)
      BY <2>5, <2>8 DEF AddressInv
    <3> QED
      BY <2>1, <3>3, <3>4 DEF AddressInv, Given
  <2> QED
    BY <1>4, <2>6, <2>7, <2>8, PendingAfter
<1> QED
  BY <1>1, <1>2, <1>3, <1>4, StepCases

(* What the comment of generateContractAddress promises follows from the     *)
(* origin of the addresses.                                                  *)
LEMMA GivenOnceBelowOverflow ==
  ASSUME StoreInv(committed, wasmDir),
         \A a \in DOMAIN committed.contracts : Given(committed, a)
  PROVE  DuplicateOnlyOnOverflow
<1> SUFFICES ASSUME NEW codeID \in DOMAIN committed.codes,
                    ContractAddress(codeID, NextID(committed.lastInstanceID))
                      \in DOMAIN committed.contracts,
                    ~(NextID(committed.lastInstanceID) >= IdSpan),
                    \A c \in DOMAIN committed.codes : ~(c >= IdSpan)
             PROVE  FALSE
  BY DEF DuplicateOnlyOnOverflow
<1> DEFINE next == NextID(committed.lastInstanceID)
<1>1. PICK c \in DOMAIN committed.codes, id \in 1 .. (next - 1) :
        ContractAddress(codeID, next) = ContractAddress(c, id)
  BY DEF Given
<1>2. next \in Nat /\ codeID \in Nat /\ c \in Nat
  BY DEF NextID, StoreInv, StoreOK, StoreShape, IsPartialMap
<1>3. IdSpan \in Nat
  BY IdSpanIsPositive
<1> HIDE DEF next
<1>4. next < IdSpan /\ codeID < IdSpan /\ c < IdSpan
  BY <1>2, <1>3 DEF next
<1>5. id \in Nat /\ id < next /\ id < IdSpan
  BY <1>2, <1>3, <1>4
<1> QED
  BY <1>1, <1>2, <1>4, <1>5, AddressesDiffer

(* AddressInv holds in every state of every behaviour of the keeper.         *)
THEOREM AddressInvariant == Spec => []AddressInv
<1>1. Init => AddressInv
  BY DEF Init, InitStore, AddressInv, Pending
<1>2. KeeperInv /\ AddressInv /\ [Next]_vars => AddressInv'
  BY AddressKeeps
<1> QED
  BY <1>1, <1>2, KeeperInvariant, PTL DEF Spec

(* keeper.go:403 is right about a chain that was never exported: for every   *)
(* width of the ids, and with instantiations that nest, fail and are rolled  *)
(* back, an address comes up twice only after an id has outgrown its width.  *)
THEOREM DuplicatesNeedOverflow == Spec => []DuplicateOnlyOnOverflow
<1>1. KeeperInv /\ AddressInv => DuplicateOnlyOnOverflow
  BY GivenOnceBelowOverflow DEF KeeperInv, AddressInv
<1> QED
  BY <1>1, KeeperInvariant, AddressInvariant, PTL

-----------------------------------------------------------------------------
(* The refinement of the abstract ledger *)

(* How the cached store of the running transaction relates to the committed  *)
(* one. What the transaction has created, or is creating, lies on addresses  *)
(* that nobody had when it began; only its signer and contracts have paid.   *)
LedgerInv ==
  /\ Ledger!Extends(committed.codes, store.codes)
  /\ Ledger!Extends(committed.contracts, store.contracts)
  /\ committed.accts \subseteq store.accts
  /\ \A a \in DOMAIN store.contracts \ DOMAIN committed.contracts : a \notin committed.accts
  /\ \A i \in Pending : stack[i].contract \notin committed.accts
  /\ \A v \in Users \ {signer} : store.bal[v] >= committed.bal[v]

(* A cached store without changes.                                           *)
LEMMA LedgerStarts ==
  ASSUME store = committed, stack = <<>>, StoreInv(committed, wasmDir)
  PROVE  LedgerInv
<1>1. Pending = {}
  BY DEF Pending
<1>2. \A v \in Users : committed.bal[v] >= committed.bal[v]
  <2>1. \A v \in Users : committed.bal[v] \in Nat
    BY DEF StoreInv, StoreOK, StoreShape, Addr
  <2> QED
    BY <2>1
<1> QED
  BY <1>1, <1>2 DEF LedgerInv, Ledger!Extends

(* Every step keeps the relation.                                            *)
LEMMA LedgerKeeps ==
  ASSUME KeeperInv, KeeperInv', LedgerInv, [Next]_vars
  PROVE  LedgerInv'
<1>1. CASE UNCHANGED vars
  BY <1>1 DEF vars, LedgerInv, Pending
<1>2. ASSUME (store = committed)', (stack = <<>>)' PROVE LedgerInv'
  <2>1. StoreInv(committed, wasmDir)'
    BY DEF KeeperInv
  <2>2. Pending' = {}
    BY <1>2 DEF Pending
  <2>3. \A v \in Users : (committed.bal[v] >= committed.bal[v])'
    <3>1. \A v \in Users : committed'.bal[v] \in Nat
      BY <2>1 DEF StoreInv, StoreOK, StoreShape, Addr
    <3> QED
      BY <3>1
  <2> QED
    BY <1>2, <2>2, <2>3 DEF LedgerInv, Ledger!Extends
<1>3. ASSUME NEW u \in Users, NEW l \in GasLimits, BeginTx(u, l) PROVE LedgerInv'
  BY <1>2, <1>3 DEF BeginTx, KeeperInv, PhaseInv
<1>4. CASE CommitTx \/ Abort
  BY <1>2, <1>4 DEF CommitTx, Abort, EndTx
<1>5. CASE phase = "running" /\ Effect(Actor)
  <2>1. /\ committed' = committed /\ signer' = signer
        /\ Ledger!Extends(store.codes, store'.codes) /\ store.accts \subseteq store'.accts
        /\ \A a \in Addr : store'.bal[a] < store.bal[a] => a = Actor
    BY <1>5 DEF Effect
  <2>2. Ledger!Extends(committed.codes, store'.codes)
    BY <2>1 DEF LedgerInv, Ledger!Extends
  <2>3. committed.accts \subseteq store'.accts
    BY <2>1 DEF LedgerInv
  <2>4. ASSUME NEW v \in Users \ {signer} PROVE store'.bal[v] >= committed.bal[v]
    <3>1. v # Actor
      <4>1. stack # <<>> => Top \in Frame
        BY DEF KeeperInv, CallsInv, Top
      <4> QED
        BY <4>1, KindsOfAddress DEF Actor, Frame
    <3>2. /\ v \in Addr /\ committed.bal[v] \in Nat /\ store.bal[v] \in Nat
          /\ store'.bal[v] \in Nat
      BY DEF KeeperInv, StoreInv, StoreOK, StoreShape, Addr
    <3>3. store.bal[v] >= committed.bal[v]
      BY DEF LedgerInv
    <3> QED
      BY <2>1, <3>1, <3>2, <3>3
  <2>5. ASSUME Ledger!Extends(store.contracts, store'.contracts),
               \A a \in DOMAIN store'.contracts \ DOMAIN store.contracts : a \notin committed.accts,
               \A i \in Pending' : stack'[i].contract \notin committed.accts
        PROVE  LedgerInv'
    <3>1. Ledger!Extends(committed.contracts, store'.contracts)
      BY <2>5 DEF LedgerInv, Ledger!Extends
    <3>2. \A a \in DOMAIN store'.contracts \ DOMAIN committed.contracts : a \notin committed.accts
      BY <2>5 DEF LedgerInv
    <3> QED
      BY <2>1, <2>2, <2>3, <2>4, <2>5, <3>1, <3>2 DEF LedgerInv
  <2>6. CASE /\ Quiet
             /\ \A i \in Pending' : i \in Pending /\ stack'[i].contract = stack[i].contract
    BY <2>5, <2>6 DEF Quiet, LedgerInv, Ledger!Extends
  <2>7. ASSUME NEW calls, NEW f \in Frame, NEW data, Called(calls, f, data),
               \A i \in Pending' :
                  \/ i \in Pending /\ stack'[i].contract = stack[i].contract
                  \/ f.kind = "instantiate" /\ stack'[i].contract = f.contract
        PROVE  LedgerInv'
    <3>1. store'.contracts = store.contracts
      BY <2>7 DEF Called
    <3>2. f.kind = "instantiate" => f.contract \notin committed.accts
      BY <2>7 DEF Called, LedgerInv
    <3> QED
      BY <2>5, <2>7, <3>1, <3>2 DEF LedgerInv, Ledger!Extends
  <2>8. CASE /\ Returned
             /\ \A i \in Pending' : i \in Pending /\ stack'[i].contract = stack[i].contract
    <3>1. stack # <<>> /\ stack \in Seq(Frame)
      BY <2>8 DEF Returned, KeeperInv, CallsInv
    <3>2. Len(stack) \in 1 .. Len(stack)
      BY <3>1
    <3>3. Top.kind = "instantiate" =>
            Top.contract \notin committed.accts /\ Top.contract \notin DOMAIN store.contracts
      BY <3>2 DEF LedgerInv, Pending, Top, KeeperInv, CallsInv
    <3>4. /\ Ledger!Extends(store.contracts, store'.contracts)
          /\ \A a \in DOMAIN store'.contracts \ DOMAIN store.contracts : a \notin committed.accts
      BY <2>8, <3>3 DEF Returned, Put, Ledger!Extends
    <3>5. \A i \in Pending' : stack'[i].contract \notin committed.accts
      BY <2>8 DEF LedgerInv
    <3> QED
      BY <2>5, <3>4, <3>5
  <2> QED
    BY <1>5, <2>6, <2>7, <2>8, PendingAfter
<1> QED
  BY <1>1, <1>3, <1>4, <1>5, StepCases

(* LedgerInv holds in every state of every behaviour of the keeper.          *)
THEOREM LedgerInvariant == Spec => []LedgerInv
<1>1. Init /\ KeeperInv => LedgerInv
  BY LedgerStarts DEF Init, KeeperInv
<1>2. KeeperInv /\ KeeperInv' /\ LedgerInv /\ [Next]_vars => LedgerInv'
  BY LedgerKeeps
<1> QED
  BY <1>1, <1>2, KeeperInvariant, PTL DEF Spec

(* A committed transaction is one step of the ledger, signed by its signer;  *)
(* every other step leaves the ledger as it is.                              *)
LEMMA StepIsTransaction ==
  ASSUME KeeperInv, KeeperInv', LedgerInv, [Next]_vars
  PROVE  [Ledger!Next]_committed
<1> SUFFICES ASSUME committed' # committed PROVE Ledger!Next
  OBVIOUS
<1>1. CommitTx
  BY StepCases DEF vars, BeginTx, Abort, Effect
<1>2. committed' = store /\ phase = "running"
  BY <1>1 DEF CommitTx
<1>3. signer \in Users
  BY <1>2 DEF KeeperInv, PhaseInv
<1>4. Ledger!Numbered(store.codes)
  <2>1. NextID(store.lastCodeID) \in Nat /\ DOMAIN store.codes = 1 .. (NextID(store.lastCodeID) - 1)
    BY DEF KeeperInv, StoreInv, StoreOK, StoreShape, NextID
  <2> QED
    BY <2>1 DEF Ledger!Numbered
<1>5. \A a \in DOMAIN store.contracts \ DOMAIN committed.contracts :
        /\ a \notin committed.accts /\ a \in store.accts
        /\ store.contracts[a].code \in DOMAIN store.codes
  BY DEF LedgerInv, KeeperInv, StoreInv
<1>6. Ledger!Transaction(signer)
  BY <1>2, <1>4, <1>5 DEF Ledger!Transaction, LedgerInv
<1> QED
  BY <1>3, <1>6 DEF Ledger!Next

(* The keeper implements the ledger, for all constants: whatever messages    *)
(* contracts emit and wherever a transaction fails, the committed store only *)
(* moves from one state of the ledger to another by a whole transaction,     *)
(* which overwrites no code and no contract, takes no address that was in    *)
(* use, and spends no other user's coins.                                    *)
THEOREM LedgerRefinement == Spec => LedgerSpec
<1>1. Init => Ledger!Init
  BY DEF Init, InitStore, Ledger!Init
<1>2. KeeperInv /\ KeeperInv' /\ LedgerInv /\ [Next]_vars => [Ledger!Next]_committed
  BY StepIsTransaction
<1> QED
  BY <1>1, <1>2, KeeperInvariant, LedgerInvariant, PTL DEF Spec, LedgerSpec, Ledger!Spec

=============================================================================
