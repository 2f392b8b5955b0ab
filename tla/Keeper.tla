------------------------------ MODULE Keeper ------------------------------
(***************************************************************************)
(* The x/wasm keeper and handler, as the state machine application runs     *)
(* them: one transaction at a time, on a cached copy of the store that is   *)
(* written back only when every message of the transaction, and every       *)
(* message a contract emits on the way, has succeeded.                      *)
(*                                                                          *)
(* The calls of the keeper nest: Instantiate and Execute run a contract,    *)
(* then dispatchMessages hands each message the contract returned to        *)
(* another handler, which may run another contract. The Go call stack is    *)
(* the variable stack; a frame is a call whose contract has returned and    *)
(* whose messages are being dispatched.                                     *)
(*                                                                          *)
(* A contract is any program: what it writes under its own prefix, how much *)
(* wasm gas it uses, whether it fails and which messages it returns are     *)
(* free choices. A frame keeps only the number of its messages that are     *)
(* still to be dispatched: nothing looks at a message before its turn, so   *)
(* its contents are chosen then.                                            *)
(*                                                                          *)
(* Some definitions are preceded by a variant that nothing uses, with a     *)
(* name that says what is wrong with it: a mistake the code could contain,  *)
(* on which the properties are tried.                                       *)
(***************************************************************************)
EXTENDS Integers, Sequences, Bank, Registry

CONSTANTS
  Users,          \* accounts that sign transactions
  ModuleAccts,    \* module accounts, which the bank handler refuses to pay
  Wasms,          \* byte codes, named by their hash
  Keys, Vals,     \* what a contract keeps under its prefix
  InitMsgs,       \* the messages instances are created with
  IdSpan,         \* the codeID is shifted by this factor (2^32 in the code)
  WordSize,       \* uint64 arithmetic of gas is modulo this number
  GasMultiplier,  \* wasm gas per unit of sdk gas
  MaxGas,         \* the most wasm gas one call is given
  GasLimits,      \* the gas limits transactions carry
  StoreCosts,     \* what the store accesses of one handler can cost
  Amounts,        \* the amounts of coins a message can carry
  UserFunds,      \* what each user owns at the start
  MaxEmit,        \* bound: messages one call returns
  MaxMsgs,        \* bound: messages of one transaction
  MaxCodes,       \* bound: codes stored
  MaxInstances    \* bound: instances created

ContractAddrs == 0 .. (IdSpan * IdSpan - 1)
Addr == Users \cup ModuleAccts \cup ContractAddrs
CodeIDs == 1 .. MaxCodes
Coins == Amounts \cup {InvalidCoins}
ContractState == [Keys -> Vals \cup {Nil}]

ASSUME KindsOfAddress ==
  /\ Users \cap ContractAddrs = {}
  /\ ModuleAccts \cap (Users \cup ContractAddrs) = {}
ASSUME IdSpanIsPositive == IdSpan \in Nat \ {0}
ASSUME GasIsCounted ==
  /\ WordSize \in Nat \ {0} /\ GasMultiplier \in Nat \ {0} /\ MaxGas \in Nat
  /\ GasLimits \subseteq Nat
ASSUME StoreAccessIsNeverFree == StoreCosts \subseteq Nat \ {0}
ASSUME CoinsAreNatural == Amounts \subseteq Nat /\ UserFunds \in Nat
ASSUME BoundsAreNatural ==
  MaxEmit \in Nat /\ MaxMsgs \in Nat /\ MaxCodes \in Nat /\ MaxInstances \in Nat
ASSUME NilIsNoValue == Nil \notin Vals /\ Nil \notin Addr /\ Nil \notin Nat

VARIABLES
  committed,  \* the store the block has reached: what other transactions see
  store,      \* the cached store of the running transaction
  wasmDir,    \* the byte codes in wasmer's data directory, which is not
              \* part of any store and has no rollback
  phase,      \* "idle" between transactions, "running" inside one
  signer,     \* who signed the running transaction
  nmsgs,      \* messages of the transaction that have been delivered
  stack,      \* the calls that are dispatching messages, innermost last
  gas, limit  \* the gas meter of the transaction

txVars == <<phase, signer, nmsgs, stack, gas, limit>>
vars == <<committed, store, wasmDir, phase, signer, nmsgs, stack, gas, limit>>

CodeInfo == [hash : Wasms, creator : Addr]
ContractInfo == [code : Nat, creator : Addr, initMsg : InitMsgs]
Frame == [kind : {"instantiate", "execute"}, contract : ContractAddrs,
          code : Nat, caller : Addr, left : Nat]

InitStore ==
  [lastCodeID |-> Nil, lastInstanceID |-> Nil,
   codes |-> [i \in {} |-> Nil], contracts |-> [a \in {} |-> Nil],
   state |-> [a \in ContractAddrs |-> [k \in Keys |-> Nil]],
   accts |-> Users \cup ModuleAccts,
   bal |-> [a \in Addr |-> IF a \in Users THEN UserFunds ELSE 0]]

Init ==
  /\ committed = InitStore /\ store = InitStore /\ wasmDir = {}
  /\ phase = "idle" /\ signer = Nil /\ nmsgs = 0 /\ stack = <<>>
  /\ gas = 0 /\ limit = 0

---------------------------------------------------------------------------
(* Addresses *)

(* generateContractAddress; addrFromUint64 hashes the 64-bit contractID and *)
(* is taken to be injective.                                                *)
AddressUnshifted(codeID, instanceID) ==
  (codeID + instanceID) % (IdSpan * IdSpan)
ContractAddress(codeID, instanceID) ==
  (codeID * IdSpan + instanceID) % (IdSpan * IdSpan)

---------------------------------------------------------------------------
(* The transaction around the handlers (baseapp) *)

EndTx ==
  /\ phase' = "idle" /\ signer' = Nil /\ nmsgs' = 0 /\ stack' = <<>>
  /\ gas' = 0 /\ limit' = 0

(* A handler's error travels up through every dispatchMessages to baseapp,  *)
(* which drops the cached store; a panic (out of gas, an unknown CosmosMsg) *)
(* is recovered there to the same effect.                                   *)
AbortKeepingWrites == EndTx /\ committed' = store /\ store' = store
Abort == EndTx /\ committed' = committed /\ store' = committed

(* ConsumeGas panics once the meter has passed its limit.                   *)
OutOfGasTooLate(c) == gas > limit
OutOfGas(c) == gas + c > limit

(* The handler has finished with the store st after accesses that cost c.   *)
Finish(c, st, newStack) ==
  IF OutOfGas(c)
  THEN Abort
  ELSE /\ gas' = gas + c /\ store' = st /\ stack' = newStack
       /\ UNCHANGED <<committed, phase, signer, limit>>

BeginTx(u, l) ==
  /\ phase = "idle"
  /\ phase' = "running" /\ signer' = u /\ limit' = l
  /\ UNCHANGED <<committed, store, wasmDir, nmsgs, stack, gas>>

CommitTx ==
  /\ phase = "running" /\ stack = <<>> /\ nmsgs > 0
  /\ committed' = store /\ store' = store
  /\ EndTx
  /\ UNCHANGED wasmDir

---------------------------------------------------------------------------
(* Gas *)

GasForWholeLimit(c) ==
  LET remaining == (limit * GasMultiplier) % WordSize
  IN IF remaining > MaxGas THEN MaxGas ELSE remaining

(* gasForContract, when c has been consumed: uint64 arithmetic wraps.       *)
GasForContract(c) ==
  LET remaining == ((limit - c) * GasMultiplier) % WordSize
  IN IF remaining > MaxGas THEN MaxGas ELSE remaining

(* consumeGas *)
SdkGas(wasmGas) == wasmGas \div GasMultiplier

---------------------------------------------------------------------------
(* Running a contract *)

Top == stack[Len(stack)]
PoppedUnlessExecute ==
  IF Top.kind = "execute" THEN stack ELSE SubSeq(stack, 1, Len(stack) - 1)
Popped == SubSeq(stack, 1, Len(stack) - 1)
Dispatched == [stack EXCEPT ![Len(stack)].left = @ - 1]

(* The contract's writes go through a store with its own prefix.            *)
WithDataUnprefixed(st, addr, data) ==
  [st EXCEPT !.state = [a \in ContractAddrs |-> data]]
WithData(st, addr, data) == [st EXCEPT !.state[addr] = data]

(* wasmer.Instantiate or wasmer.Execute on the store st, the gas around it, *)
(* and the start of dispatchMessages: r was spent on the store before the   *)
(* contract ran, w is spent by its own accesses. wasmer fails when the code *)
(* is not in its directory, and whenever the contract does.                 *)
RunContract(st, kind, addr, codeID, caller, newStack) ==
  \/ Abort
  \/ /\ st.codes[codeID].hash \in wasmDir
     /\ \E r \in StoreCosts, w \in StoreCosts \cup {0} :
          /\ gas + r <= limit
          /\ \E used \in 0 .. GasForContract(gas + r),
                data \in ContractState, n \in 0 .. MaxEmit :
               Finish(r + w + SdkGas(used),
                      WithData(st, addr, data),
                      Append(newStack,
                             [kind |-> kind, contract |-> addr, code |-> codeID,
                              caller |-> caller, left |-> n]))

---------------------------------------------------------------------------
(* The keeper's operations. Each handler starts from the store st and leaves *)
(* newStack behind it, with a frame on top if it ran a contract.            *)

(* handleStoreCode and Create. The message is refused by ValidateBasic (its *)
(* size, its builder tag, or a source URL that does not answer), by         *)
(* uncompress or by wasmer. Otherwise wasmer has put the byte code in its   *)
(* directory for good, whatever becomes of the transaction.                 *)
StoreCodeCleansUp(sender, w, newStack) ==
  \/ Abort /\ wasmDir' = wasmDir \ {w}
  \/ /\ NextID(store.lastCodeID) <= MaxCodes
     /\ wasmDir' = wasmDir \cup {w}
     /\ \E c \in StoreCosts : Finish(c, WithCode(store, sender, w), newStack)
StoreCode(sender, w, newStack) ==
  \/ Abort /\ UNCHANGED wasmDir
  \/ /\ NextID(store.lastCodeID) <= MaxCodes
     /\ wasmDir' = wasmDir \cup {w}
     /\ \E c \in StoreCosts : Finish(c, WithCode(store, sender, w), newStack)

(* The check that stands between a generated address and an account that    *)
(* is already there.                                                        *)
AddressUnchecked(st, addr) == FALSE
AddressTaken(st, addr) == addr \in st.accts

(* The new instance's account: the deposit creates it.                      *)
OpenAccountAndPersist(st, sender, addr, codeID, deposit) ==
  [SendCoins(st, sender, addr, deposit) EXCEPT
     !.contracts = Put(@, addr, [code |-> codeID, creator |-> sender,
                                 initMsg |-> CHOOSE m \in InitMsgs : TRUE])]
OpenAccount(st, sender, addr, codeID, deposit) ==
  SendCoins(st, sender, addr, deposit)

(* handleInstantiate and Instantiate, up to the dispatch of the messages.   *)
Instantiate(sender, codeID, deposit, newStack) ==
  LET addr == ContractAddress(codeID, NextID(store.lastInstanceID))
      st   == WithInstanceID(store)
  IN IF \/ AddressTaken(st, addr)
        \/ ~CanSend(st, sender, deposit)
        \/ codeID \notin DOMAIN st.codes
     THEN Abort
     ELSE \/ Abort
          \/ /\ NextID(store.lastInstanceID) <= MaxInstances
             /\ RunContract(OpenAccount(st, sender, addr, codeID, deposit),
                            "instantiate", addr, codeID, sender, newStack)

(* contractInstance: the contract and its code must both be found.          *)
HasInstance(st, addr) ==
  addr \in DOMAIN st.contracts /\ st.contracts[addr].code \in DOMAIN st.codes

(* handleExecute and Execute, up to the dispatch of the messages.           *)
Execute(st, caller, addr, coins, newStack) ==
  IF ~HasInstance(st, addr) \/ ~CanSend(st, caller, coins)
  THEN Abort
  ELSE RunContract(SendCoins(st, caller, addr, coins),
                   "execute", addr, st.contracts[addr].code, caller, newStack)

(* The bank module's handler of MsgSend.                                    *)
MsgSendAllowedToAll(st, from, to, amt) == CanSend(st, from, amt)
MsgSendAllowed(st, from, to, amt) ==
  to \notin ModuleAccts /\ CanSend(st, from, amt)

(* baseapp calls ValidateBasic on the messages of a transaction, and that   *)
(* of MsgSend refuses an empty list; handleSdkMessage does not call it.     *)
MsgSend(from, to, amt, newStack) ==
  IF (stack = <<>> /\ amt = 0) \/ ~MsgSendAllowed(store, from, to, amt)
  THEN Abort
  ELSE \E c \in StoreCosts : Finish(c, SendCoins(store, from, to, amt), newStack)

(* The router: the handler of the message's route, run for its sender. Of   *)
(* the application's routes the model has wasm and bank.                    *)
Route(sender, newStack) ==
  \/ \E w \in Wasms : StoreCode(sender, w, newStack)
  \/ /\ \/ \E codeID \in CodeIDs, deposit \in Coins :
             Instantiate(sender, codeID, deposit, newStack)
        \/ \E addr \in Addr, coins \in Coins :
             Execute(store, sender, addr, coins, newStack)
        \/ \E to \in Addr, amt \in Coins : MsgSend(sender, to, amt, newStack)
     /\ UNCHANGED wasmDir

(* The next message of the running transaction. The ante handler has        *)
(* verified that its sender signed it.                                      *)
DeliverMsg ==
  /\ phase = "running" /\ stack = <<>> /\ nmsgs < MaxMsgs
  /\ Route(signer, <<>>)
  /\ nmsgs' = IF phase' = "running" THEN nmsgs + 1 ELSE 0

---------------------------------------------------------------------------
(* dispatchMessages: the messages a contract returned, one by one *)

Dispatching ==
  phase = "running" /\ stack # <<>> /\ Top.left > 0

(* The check of handleSdkMessage on every signer of the message.            *)
SignedByAnyone(contract, sender) == TRUE
SignedBy(contract, sender) == sender = contract

KeepCount == nmsgs' = IF phase' = "running" THEN nmsgs ELSE 0

(* sendTokens: nothing happens, and nothing is checked, for an empty list;  *)
(* else a MsgSend goes through handleSdkMessage.                            *)
TokensRefused(st, contract, from, to, amt) ==
  amt # 0 /\ ~(SignedBy(contract, from) /\ MsgSendAllowed(st, from, to, amt))
SendTokens(st, from, to, amt) ==
  IF amt = 0 THEN st ELSE SendCoins(st, from, to, amt)

DispatchSend ==
  /\ Dispatching
  /\ \E from, to \in Addr, amt \in Coins :
       IF TokensRefused(store, Top.contract, from, to, amt)
       THEN Abort
       ELSE \E c \in StoreCosts :
              Finish(c, SendTokens(store, from, to, amt), Dispatched)
  /\ KeepCount /\ UNCHANGED wasmDir

(* The tokens go first; the callee is then executed with no coins at all.   *)
DispatchContract ==
  /\ Dispatching
  /\ \E target \in Addr, amt \in Coins :
       IF TokensRefused(store, Top.contract, Top.contract, target, amt)
       THEN Abort
       ELSE Execute(SendTokens(store, Top.contract, target, amt),
                    Top.contract, target, 0, Dispatched)
  /\ KeepCount /\ UNCHANGED wasmDir

(* An sdk.Msg the contract has encoded, with any sender it likes.           *)
DispatchOpaque ==
  /\ Dispatching
  /\ \E sender \in Addr :
       IF SignedBy(Top.contract, sender)
       THEN Route(sender, Dispatched)
       ELSE Abort /\ UNCHANGED wasmDir
  /\ KeepCount

(* An address, an amount or an opaque message that does not parse, a route  *)
(* the application does not have, or a CosmosMsg with no variant set.       *)
DispatchMalformed ==
  Dispatching /\ Abort /\ UNCHANGED wasmDir

(* dispatchMessages has run out of messages: the call returns, and only now *)
(* does Instantiate persist the instance. Its init message is part of the   *)
(* info; as contracts are any programs, nothing has depended on it before,  *)
(* and the model chooses it here.                                           *)
Persisted(st, frame, initMsg) ==
  [st EXCEPT !.contracts =
     Put(@, frame.contract,
         [code |-> frame.code, creator |-> frame.caller, initMsg |-> initMsg])]

Return ==
  /\ phase = "running" /\ stack # <<>> /\ Top.left = 0
  /\ IF Top.kind = "instantiate"
     THEN \E c \in StoreCosts, msg \in InitMsgs :
            Finish(c, Persisted(store, Top, msg), Popped)
     ELSE Finish(0, store, Popped)
  /\ KeepCount /\ UNCHANGED wasmDir

---------------------------------------------------------------------------

Dispatch ==
  DispatchSend \/ DispatchContract \/ DispatchOpaque \/ DispatchMalformed

RunTx == DeliverMsg \/ Dispatch \/ Return \/ CommitTx

Next == RunTx \/ \E u \in Users, l \in GasLimits : BeginTx(u, l)

(* A node that has started a transaction finishes it: the application runs  *)
(* on one goroutine and nothing in a transaction waits for another actor.   *)
Spec == Init /\ [][Next]_vars
FairSpec == Spec /\ WF_vars(RunTx)

===========================================================================
