---------------------------- MODULE KeeperProofs ----------------------------
(***************************************************************************)
(* The keeper's invariants, for all values of the constants.                *)
(*                                                                          *)
(* None of them is inductive by itself. KeeperInv adds what a step needs    *)
(* to know: that the bytes of EVERY code are on disk, and not just those    *)
(* of codes in use; that every call on the stack runs known code for an     *)
(* address with an account, so that the address Instantiate generates next  *)
(* differs from all of them once AddressTaken has refused it; and that an   *)
(* idle node has no cached writes.                                          *)
(***************************************************************************)
EXTENDS KeeperProps, SequenceTheorems, TLAPS

StoreInv(st, dir) ==
  /\ StoreOK(st)
  /\ DOMAIN st.codes = 1 .. (NextID(st.lastCodeID) - 1)
  /\ \A i \in DOMAIN st.codes : st.codes[i].hash \in dir
  /\ \A a \in DOMAIN st.contracts :
       a \in st.accts /\ st.contracts[a].code \in DOMAIN st.codes

CallsInv(st, calls) ==
  /\ calls \in Seq(Frame)
  /\ \A i \in 1 .. Len(calls) :
       /\ calls[i].contract \in st.accts
       /\ calls[i].code \in DOMAIN st.codes
       /\ calls[i].kind = "instantiate" =>
            /\ calls[i].contract \notin DOMAIN st.contracts
            /\ \A j \in 1 .. Len(calls) : j > i => calls[j].contract # calls[i].contract

MeterInv ==
  /\ nmsgs \in Nat /\ gas \in Nat /\ limit \in Nat
  /\ Len(stack) <= gas /\ gas <= limit

PhaseInv ==
  /\ phase \in {"idle", "running"} /\ wasmDir \subseteq Wasms
  /\ signer \in Users \cup {Nil} /\ (phase = "running" => signer \in Users)
  /\ phase = "idle" => /\ store = committed /\ stack = <<>>
                       /\ gas = 0 /\ limit = 0 /\ nmsgs = 0

KeeperInv ==
  /\ StoreInv(committed, wasmDir) /\ StoreInv(store, wasmDir)
  /\ CallsInv(store, stack) /\ MeterInv /\ PhaseInv

-----------------------------------------------------------------------------
(* Arithmetic *)

(* A generated address is one of the addresses a 64-bit contractID has.      *)
LEMMA AddressInRange ==
  ASSUME NEW codeID \in Nat, NEW id \in Nat
  PROVE  ContractAddress(codeID, id) \in ContractAddrs
<1>1. IdSpan * IdSpan \in Nat \ {0}
  BY IdSpanIsPositive
<1>2. codeID * IdSpan + id \in Nat
  BY IdSpanIsPositive
<1>3. ASSUME NEW n \in Nat, NEW m \in Nat \ {0} PROVE n % m \in 0 .. (m - 1)
  OBVIOUS
<1> QED
  BY <1>1, <1>2, <1>3 DEF ContractAddress, ContractAddrs

(* The wasm gas of a call and its price are natural numbers.                 *)
LEMMA GrantIsNatural ==
  ASSUME NEW c \in Nat, limit \in Nat, c <= limit
  PROVE  /\ GasForContract(c) \in Nat
         /\ \A used \in 0 .. GasForContract(c) : SdkGas(used) \in Nat
<1>1. (limit - c) * GasMultiplier \in Nat
  BY GasIsCounted
<1>2. ASSUME NEW n \in Nat, NEW m \in Nat \ {0} PROVE n % m \in Nat /\ n \div m \in Nat
  OBVIOUS
<1>3. GasForContract(c) \in Nat
  BY <1>1, <1>2, GasIsCounted DEF GasForContract
<1> QED
  BY <1>2, <1>3, GasIsCounted DEF SdkGas

-----------------------------------------------------------------------------
(* What the operators on stores preserve *)

(* StoreShape of a record whose maps are known by other names.               *)
ShapeWith(st, codes, contracts) ==
  st \in [lastCodeID : (Nat \ {0}) \cup {Nil},
          lastInstanceID : (Nat \ {0}) \cup {Nil},
          codes : {codes}, contracts : {contracts},
          state : [ContractAddrs -> ContractState],
          accts : SUBSET Addr, bal : [Addr -> Nat]]

(* SendCoins touches accounts and balances only, and no balance becomes      *)
(* negative.                                                                 *)
LEMMA SendKeepsStore ==
  ASSUME NEW st, NEW dir, NEW from \in Addr, NEW to \in Addr,
         NEW amt \in Coins \cup {0}, StoreInv(st, dir), CanSend(st, from, amt)
  PROVE  /\ StoreInv(SendCoins(st, from, to, amt), dir)
         /\ SendCoins(st, from, to, amt).codes = st.codes
         /\ SendCoins(st, from, to, amt).contracts = st.contracts
         /\ SendCoins(st, from, to, amt).accts = st.accts \cup {from, to}
<1> DEFINE new == SendCoins(st, from, to, amt)
<1>1. amt \in Nat
  <2>1. CASE amt \in Amounts
    BY <2>1, CoinsAreNatural
  <2>2. CASE amt = InvalidCoins
    BY <2>2 DEF InvalidCoins, CanSend
  <2>3. CASE amt = 0
    BY <2>3
  <2> QED
    BY <2>1, <2>2, <2>3 DEF Coins
<1>2. new.bal \in [Addr -> Nat]
  BY <1>1 DEF SendCoins, CanSend, StoreInv, StoreOK, StoreShape
<1>3. /\ new.lastCodeID = st.lastCodeID /\ new.lastInstanceID = st.lastInstanceID
      /\ new.codes = st.codes /\ new.contracts = st.contracts /\ new.state = st.state
      /\ new.accts = st.accts \cup {from, to}
  BY DEF SendCoins, StoreInv, StoreOK, StoreShape
<1>4. ShapeWith(new, st.codes, st.contracts)
  BY <1>2, <1>3 DEF SendCoins, StoreInv, StoreOK, StoreShape, ShapeWith
<1> HIDE DEF new
<1>5. StoreInv(new, dir)
  BY <1>3, <1>4 DEF StoreInv, StoreOK, StoreShape, ShapeWith
<1> QED
  BY <1>3, <1>5 DEF new

(* Create adds the next code in line, whose bytes are on disk.               *)
LEMMA CodeKeepsStore ==
  ASSUME NEW st, NEW dir, NEW creator \in Addr, NEW w \in Wasms, StoreInv(st, dir)
  PROVE  /\ StoreInv(WithCode(st, creator, w), dir \cup {w})
         /\ DOMAIN st.codes \subseteq DOMAIN WithCode(st, creator, w).codes
         /\ WithCode(st, creator, w).contracts = st.contracts
         /\ WithCode(st, creator, w).accts = st.accts
<1> DEFINE new == WithCode(st, creator, w)
           id == NextID(st.lastCodeID)
           codes == Put(st.codes, id, [hash |-> w, creator |-> creator])
<1>1. id \in Nat \ {0} /\ Bump(st.lastCodeID) = id + 1 /\ id + 1 # Nil
  BY NilIsNoValue DEF NextID, Bump, StoreInv, StoreOK, StoreShape
<1>2. new = [st EXCEPT !.lastCodeID = id + 1, !.codes = codes]
  BY <1>1 DEF WithCode
<1> HIDE DEF new, id, codes
<1>3. /\ ShapeWith(new, codes, st.contracts)
      /\ new.lastCodeID = id + 1 /\ new.codes = codes
      /\ new.contracts = st.contracts /\ new.accts = st.accts
  <2> DEFINE next == id + 1
  <2>1. next \in (Nat \ {0}) \cup {Nil}
    BY <1>1
  <2>2. new = [st EXCEPT !.lastCodeID = next, !.codes = codes]
    BY <1>2
  <2> HIDE DEF next
  <2>3. /\ ShapeWith(new, codes, st.contracts)
        /\ new.lastCodeID = next /\ new.codes = codes
        /\ new.contracts = st.contracts /\ new.accts = st.accts
    BY <2>1, <2>2 DEF StoreInv, StoreOK, StoreShape, ShapeWith
  <2> QED
    BY <2>3 DEF next
<1>4. /\ DOMAIN codes = DOMAIN st.codes \cup {id}
      /\ codes = [x \in DOMAIN codes |-> codes[x]]
      /\ \A i \in DOMAIN codes :
           codes[i] = IF i = id THEN [hash |-> w, creator |-> creator] ELSE st.codes[i]
  BY DEF Put, codes
<1>5. DOMAIN codes = 1 .. (NextID(new.lastCodeID) - 1)
  <2>1. NextID(new.lastCodeID) = id + 1
    BY <1>1, <1>3 DEF NextID
  <2>2. DOMAIN st.codes = 1 .. (id - 1)
    BY DEF StoreInv, id
  <2> QED
    BY <1>1, <1>4, <2>1, <2>2
<1>6. [hash |-> w, creator |-> creator] \in CodeInfo
  BY DEF CodeInfo
<1>7. StoreOK(new)
  BY <1>1, <1>3, <1>4, <1>6 DEF StoreInv, StoreOK, StoreShape, ShapeWith, IsPartialMap
<1>8. \A i \in DOMAIN codes : codes[i].hash \in dir \cup {w}
  BY <1>4 DEF StoreInv
<1>9. StoreInv(new, dir \cup {w})
  BY <1>3, <1>4, <1>5, <1>7, <1>8 DEF StoreInv
<1> QED
  BY <1>3, <1>4, <1>9 DEF new

(* A contract's writes stay under its own prefix.                            *)
LEMMA DataKeepsStore ==
  ASSUME NEW st, NEW dir, NEW addr \in ContractAddrs, NEW data \in ContractState,
         StoreInv(st, dir)
  PROVE  /\ StoreInv(WithData(st, addr, data), dir)
         /\ WithData(st, addr, data).codes = st.codes
         /\ WithData(st, addr, data).contracts = st.contracts
         /\ WithData(st, addr, data).accts = st.accts
<1> DEFINE new == WithData(st, addr, data)
<1>1. ShapeWith(new, st.codes, st.contracts)
  BY DEF WithData, StoreInv, StoreOK, StoreShape, ShapeWith
<1>2. /\ new.lastCodeID = st.lastCodeID /\ new.codes = st.codes
      /\ new.contracts = st.contracts /\ new.accts = st.accts
  BY DEF WithData, StoreInv, StoreOK, StoreShape
<1> HIDE DEF new
<1>3. StoreInv(new, dir)
  BY <1>1, <1>2 DEF StoreInv, StoreOK, StoreShape, ShapeWith
<1> QED
  BY <1>2, <1>3 DEF new

(* Taking an instance id changes the counter only.                           *)
LEMMA CounterKeepsStore ==
  ASSUME NEW st, NEW dir, StoreInv(st, dir)
  PROVE  /\ StoreInv(WithInstanceID(st), dir)
         /\ WithInstanceID(st).codes = st.codes
         /\ WithInstanceID(st).contracts = st.contracts
         /\ WithInstanceID(st).accts = st.accts
<1> DEFINE id == Bump(st.lastInstanceID)
           new == WithInstanceID(st)
<1>1. id \in (Nat \ {0}) \cup {Nil}
  BY NilIsNoValue DEF NextID, Bump, StoreInv, StoreOK, StoreShape
<1>2. new = [st EXCEPT !.lastInstanceID = id]
  BY DEF WithInstanceID
<1> HIDE DEF id, new
<1>3. ShapeWith(new, st.codes, st.contracts)
  BY <1>1, <1>2 DEF StoreInv, StoreOK, StoreShape, ShapeWith
<1>4. /\ new.lastCodeID = st.lastCodeID /\ new.codes = st.codes
      /\ new.contracts = st.contracts /\ new.accts = st.accts
  BY <1>2 DEF StoreInv, StoreOK, StoreShape
<1>5. StoreInv(new, dir)
  BY <1>3, <1>4 DEF StoreInv, StoreOK, StoreShape, ShapeWith
<1> QED
  BY <1>4, <1>5 DEF new

(* Persisting an instance of known code at an address with an account.       *)
LEMMA PersistKeepsStore ==
  ASSUME NEW st, NEW dir, NEW f \in Frame, NEW msg \in InitMsgs, StoreInv(st, dir),
         f.contract \in st.accts, f.code \in DOMAIN st.codes
  PROVE  /\ StoreInv(Persisted(st, f, msg), dir)
         /\ Persisted(st, f, msg).codes = st.codes
         /\ DOMAIN Persisted(st, f, msg).contracts = DOMAIN st.contracts \cup {f.contract}
         /\ Persisted(st, f, msg).accts = st.accts
<1> DEFINE info == [code |-> f.code, creator |-> f.caller, initMsg |-> msg]
           contracts == Put(st.contracts, f.contract, info)
           new == Persisted(st, f, msg)
<1>1. new = [st EXCEPT !.contracts = contracts]
  BY DEF Persisted
<1>2. info \in ContractInfo /\ info.code \in DOMAIN st.codes
  BY DEF Frame, ContractInfo
<1> HIDE DEF new, info
<1>3. /\ DOMAIN contracts = DOMAIN st.contracts \cup {f.contract}
      /\ contracts = [x \in DOMAIN contracts |-> contracts[x]]
      /\ \A a \in DOMAIN contracts :
           contracts[a] = IF a = f.contract THEN info ELSE st.contracts[a]
  BY DEF Put
<1> HIDE DEF contracts
<1>4. /\ ShapeWith(new, st.codes, contracts)
      /\ new.lastCodeID = st.lastCodeID /\ new.codes = st.codes
      /\ new.contracts = contracts /\ new.accts = st.accts
  BY <1>1 DEF StoreInv, StoreOK, StoreShape, ShapeWith
<1>5. f.contract \in ContractAddrs
  BY DEF Frame
<1>6. StoreOK(new)
  BY <1>2, <1>3, <1>4, <1>5 DEF StoreInv, StoreOK, StoreShape, ShapeWith, IsPartialMap
<1>7. StoreInv(new, dir)
  BY <1>2, <1>3, <1>4, <1>6 DEF StoreInv
<1> QED
  BY <1>3, <1>4, <1>7 DEF new

-----------------------------------------------------------------------------
(* What the operators on the call stack preserve *)

(* Calls care about a store only through its accounts, codes and contracts.  *)
LEMMA CallsCarryOver ==
  ASSUME NEW st, NEW st2, NEW calls, CallsInv(st, calls),
         st.accts \subseteq st2.accts, DOMAIN st.codes \subseteq DOMAIN st2.codes,
         DOMAIN st2.contracts = DOMAIN st.contracts
  PROVE  CallsInv(st2, calls)
BY DEF CallsInv

(* A new call does not collide with an Instantiate below it.                 *)
LEMMA PushKeepsCalls ==
  ASSUME NEW st, NEW calls, NEW f \in Frame, CallsInv(st, calls),
         f.contract \in st.accts, f.code \in DOMAIN st.codes,
         f.kind = "instantiate" => f.contract \notin DOMAIN st.contracts,
         \A i \in 1 .. Len(calls) :
           calls[i].kind = "instantiate" => calls[i].contract # f.contract
  PROVE  /\ CallsInv(st, Append(calls, f))
         /\ Len(Append(calls, f)) = Len(calls) + 1
<1> DEFINE new == Append(calls, f)
<1>1. calls \in Seq(Frame)
  BY DEF CallsInv
<1>2. /\ new \in Seq(Frame) /\ Len(new) = Len(calls) + 1
      /\ \A i \in 1 .. Len(calls) : new[i] = calls[i]
      /\ new[Len(calls) + 1] = f
  BY <1>1
<1>3. Len(calls) \in Nat
  BY <1>1
<1> HIDE DEF new
<1>4. ASSUME NEW i \in 1 .. Len(new)
      PROVE  /\ new[i].contract \in st.accts
             /\ new[i].code \in DOMAIN st.codes
             /\ new[i].kind = "instantiate" =>
                  /\ new[i].contract \notin DOMAIN st.contracts
                  /\ \A j \in 1 .. Len(new) : j > i => new[j].contract # new[i].contract
  <2>1. CASE i \in 1 .. Len(calls)
    <3>1. new[i] = calls[i]
      BY <1>2, <2>1
    <3>2. ASSUME NEW j \in 1 .. Len(new), j > i, new[i].kind = "instantiate"
          PROVE  new[j].contract # new[i].contract
      <4>1. CASE j \in 1 .. Len(calls)
        BY <1>2, <2>1, <3>1, <3>2, <4>1 DEF CallsInv
      <4>2. CASE j = Len(calls) + 1
        BY <1>2, <2>1, <3>1, <3>2, <4>2
      <4> QED
        BY <1>2, <1>3, <4>1, <4>2
    <3> QED
      BY <2>1, <3>1, <3>2 DEF CallsInv
  <2>2. CASE i = Len(calls) + 1
    BY <1>2, <1>3, <2>2
  <2> QED
    BY <1>2, <1>3, <2>1, <2>2
<1>5. CallsInv(st, new)
  BY <1>2, <1>4 DEF CallsInv
<1> QED
  BY <1>2, <1>5 DEF new

(* Dispatching a message leaves every call as it is but for its count.       *)
LEMMA DispatchedKeepsCalls ==
  ASSUME NEW st, CallsInv(st, stack), stack # <<>>, Top.left > 0
  PROVE  CallsInv(st, Dispatched) /\ Len(Dispatched) = Len(stack)
<1> DEFINE n == Len(stack)
<1>1. stack \in Seq(Frame) /\ n \in Nat \ {0} /\ stack[n] \in Frame
  BY DEF CallsInv
<1>2. [stack[n] EXCEPT !.left = @ - 1] \in Frame
  <2> DEFINE less == stack[n].left - 1
  <2>1. less \in Nat
    BY <1>1 DEF Frame, Top
  <2> HIDE DEF less
  <2>2. [stack[n] EXCEPT !.left = less] \in Frame
    BY <1>1, <2>1 DEF Frame
  <2> QED
    BY <2>2 DEF less
<1>3. Dispatched = [stack EXCEPT ![n] = [stack[n] EXCEPT !.left = @ - 1]]
  BY DEF Dispatched
<1>4. Dispatched \in Seq(Frame) /\ Len(Dispatched) = n
  BY <1>1, <1>2, <1>3
<1>5. \A i \in 1 .. n : /\ Dispatched[i].contract = stack[i].contract
                        /\ Dispatched[i].code = stack[i].code
                        /\ Dispatched[i].kind = stack[i].kind
  BY <1>1, <1>3 DEF Frame
<1> QED
  BY <1>4, <1>5 DEF CallsInv

(* Returning from a call removes the innermost one.                          *)
LEMMA PoppedKeepsCalls ==
  ASSUME NEW st, CallsInv(st, stack), stack # <<>>
  PROVE  /\ CallsInv(st, Popped)
         /\ Len(Popped) = Len(stack) - 1
         /\ \A i \in 1 .. Len(Popped) : Popped[i] = stack[i]
<1>1. stack \in Seq(Frame) /\ Len(stack) \in Nat \ {0}
  BY DEF CallsInv
<1>2. /\ Popped \in Seq(Frame) /\ Len(Popped) = Len(stack) - 1
      /\ \A i \in 1 .. Len(Popped) : Popped[i] = stack[i]
  <2> DEFINE m == Len(stack) - 1
  <2>1. m \in Nat /\ m \in Int /\ 1 \in Int /\ \A i \in 1 .. m : stack[i] \in Frame
    BY <1>1
  <2> HIDE DEF m
  <2>2. /\ SubSeq(stack, 1, m) \in Seq(Frame)
        /\ Len(SubSeq(stack, 1, m)) = IF 1 <= m THEN m - 1 + 1 ELSE 0
        /\ \A i \in 1 .. m - 1 + 1 : SubSeq(stack, 1, m)[i] = stack[1 + i - 1]
    BY <2>1, SubSeqProperties
  <2>3. Popped = SubSeq(stack, 1, m)
    BY DEF Popped, m
  <2>4. Len(Popped) = m
    BY <2>1, <2>2, <2>3
  <2>5. \A i \in 1 .. m : Popped[i] = stack[i]
    BY <2>1, <2>2, <2>3
  <2> QED
    BY <2>2, <2>3, <2>4, <2>5 DEF m
<1> QED
  BY <1>1, <1>2 DEF CallsInv

-----------------------------------------------------------------------------
(* What the two ends of a handler preserve *)

(* wasmer's directory only grows under a store.                              *)
LEMMA DirGrows ==
  ASSUME NEW st, NEW dir, NEW dir2, StoreInv(st, dir), dir \subseteq dir2
  PROVE  StoreInv(st, dir2)
BY DEF StoreInv

(* An abort restores the committed store and empties the stack.              *)
LEMMA AbortKeeps ==
  ASSUME KeeperInv, Abort, wasmDir \subseteq wasmDir', wasmDir' \subseteq Wasms
  PROVE  KeeperInv'
<1>1. /\ committed' = committed /\ store' = committed /\ stack' = <<>>
      /\ phase' = "idle" /\ signer' = Nil /\ nmsgs' = 0 /\ gas' = 0 /\ limit' = 0
  BY DEF Abort, EndTx
<1>2. StoreInv(committed, wasmDir')
  BY DirGrows DEF KeeperInv
<1>3. CallsInv(committed, <<>>)
  BY DEF CallsInv
<1> QED
  BY <1>1, <1>2, <1>3 DEF KeeperInv, MeterInv, PhaseInv

(* A handler that finishes with a good store and a good stack, and that has  *)
(* paid for the call it added, keeps the invariant, or runs out of gas.      *)
LEMMA FinishKeeps ==
  ASSUME NEW c \in Nat, NEW st, NEW calls, Finish(c, st, calls),
         KeeperInv, phase = "running",
         wasmDir \subseteq wasmDir', wasmDir' \subseteq Wasms,
         StoreInv(st, wasmDir'), CallsInv(st, calls), Len(calls) <= gas + c,
         nmsgs' \in Nat
  PROVE  KeeperInv'
<1>1. CASE gas + c > limit
  BY <1>1, AbortKeeps DEF Finish, OutOfGas
<1>2. CASE ~(gas + c > limit)
  <2>1. /\ gas' = gas + c /\ store' = st /\ stack' = calls
        /\ committed' = committed /\ phase' = phase /\ signer' = signer /\ limit' = limit
    BY <1>2 DEF Finish, OutOfGas
  <2>2. StoreInv(committed, wasmDir')
    BY DirGrows DEF KeeperInv
  <2>3. MeterInv'
    BY <1>2, <2>1 DEF KeeperInv, MeterInv
  <2>4. PhaseInv'
    BY <2>1 DEF KeeperInv, PhaseInv
  <2>5. StoreInv(store', wasmDir') /\ CallsInv(store', stack')
    BY <2>1
  <2>6. StoreInv(committed', wasmDir')
    BY <2>1, <2>2
  <2> QED
    BY <2>3, <2>4, <2>5, <2>6 DEF KeeperInv
<1> QED
  BY <1>1, <1>2

-----------------------------------------------------------------------------
(* The handlers. calls is the stack a handler starts from: that of the       *)
(* state, with one message less to dispatch.                                 *)

GoodStart(st, calls) ==
  /\ StoreInv(st, wasmDir) /\ CallsInv(st, calls) /\ Len(calls) = Len(stack)

(* A call that ran a contract it was entitled to run.                        *)
LEMMA RunKeeps ==
  ASSUME KeeperInv, phase = "running", UNCHANGED wasmDir, nmsgs' \in Nat,
         NEW st, NEW calls, GoodStart(st, calls),
         NEW kind \in {"instantiate", "execute"}, NEW addr \in ContractAddrs,
         NEW codeID \in DOMAIN st.codes, NEW caller \in Addr, addr \in st.accts,
         kind = "instantiate" => addr \notin DOMAIN st.contracts,
         \A i \in 1 .. Len(calls) :
           calls[i].kind = "instantiate" => calls[i].contract # addr,
         RunContract(st, kind, addr, codeID, caller, calls)
  PROVE  KeeperInv'
<1>1. CASE Abort
  BY <1>1, AbortKeeps DEF KeeperInv, PhaseInv
<1>2. ASSUME NEW r \in StoreCosts, NEW w \in StoreCosts \cup {0}, gas + r <= limit,
             NEW used \in 0 .. GasForContract(gas + r),
             NEW data \in ContractState, NEW n \in 0 .. MaxEmit,
             Finish(r + w + SdkGas(used), WithData(st, addr, data),
                    Append(calls, [kind |-> kind, contract |-> addr, code |-> codeID,
                                   caller |-> caller, left |-> n]))
      PROVE  KeeperInv'
  <2> DEFINE f == [kind |-> kind, contract |-> addr, code |-> codeID,
                   caller |-> caller, left |-> n]
             new == WithData(st, addr, data)
             c == r + w + SdkGas(used)
  <2>1. gas \in Nat /\ limit \in Nat /\ Len(stack) <= gas
    BY DEF KeeperInv, MeterInv
  <2>2. r \in Nat /\ r >= 1 /\ w \in Nat
    <3>1. r \in Nat \ {0}
      BY StoreAccessIsNeverFree
    <3>2. w \in Nat
      BY StoreAccessIsNeverFree
    <3> QED
      BY <3>1, <3>2
  <2>3. SdkGas(used) \in Nat
    BY <1>2, <2>1, <2>2, GrantIsNatural
  <2>4. c \in Nat /\ c >= 1
    BY <2>2, <2>3
  <2>5. codeID \in Nat
    BY DEF GoodStart, StoreInv, StoreOK, IsPartialMap
  <2>6. f \in Frame
    BY <2>5, BoundsAreNatural DEF Frame
  <2>7. /\ StoreInv(new, wasmDir) /\ new.codes = st.codes
        /\ new.contracts = st.contracts /\ new.accts = st.accts
    BY DataKeepsStore DEF GoodStart
  <2>8. Finish(c, new, Append(calls, f))
    BY <1>2
  <2> HIDE DEF new, c
  <2>9. CallsInv(new, calls)
    BY <2>7, CallsCarryOver DEF GoodStart
  <2>10. /\ f.kind = kind /\ f.contract = addr /\ f.code = codeID
    OBVIOUS
  <2> HIDE DEF f
  <2>11. CallsInv(new, Append(calls, f)) /\ Len(Append(calls, f)) = Len(calls) + 1
    BY <2>6, <2>7, <2>9, <2>10, PushKeepsCalls
  <2>12. Len(Append(calls, f)) <= gas + c
    <3>1. Len(calls) = Len(stack) /\ Len(calls) \in Nat
      BY DEF GoodStart, CallsInv
    <3> QED
      BY <2>1, <2>4, <2>11, <3>1
  <2>13. StoreInv(new, wasmDir') /\ wasmDir \subseteq wasmDir' /\ wasmDir' \subseteq Wasms
    BY <2>7 DEF KeeperInv, PhaseInv
  <2> QED
    BY <2>4, <2>8, <2>11, <2>12, <2>13, FinishKeeps
<1> QED
  BY <1>1, <1>2 DEF RunContract

(* StoreCode keeps the invariant.                                            *)
LEMMA StoreCodeKeeps ==
  ASSUME KeeperInv, phase = "running", nmsgs' \in Nat,
         NEW calls, GoodStart(store, calls),
         NEW sender \in Addr, NEW w \in Wasms, StoreCode(sender, w, calls)
  PROVE  KeeperInv'
<1>1. CASE Abort /\ UNCHANGED wasmDir
  BY <1>1, AbortKeeps DEF KeeperInv, PhaseInv
<1>2. ASSUME wasmDir' = wasmDir \cup {w}, NEW c \in StoreCosts,
             Finish(c, WithCode(store, sender, w), calls)
      PROVE  KeeperInv'
  <2> DEFINE new == WithCode(store, sender, w)
  <2>1. /\ StoreInv(new, wasmDir \cup {w})
        /\ DOMAIN store.codes \subseteq DOMAIN new.codes
        /\ new.contracts = store.contracts /\ new.accts = store.accts
    BY CodeKeepsStore DEF GoodStart
  <2> HIDE DEF new
  <2>2. CallsInv(new, calls)
    BY <2>1, CallsCarryOver DEF GoodStart
  <2>3. c \in Nat /\ gas \in Nat /\ Len(calls) <= gas + c
    <3>1. c \in Nat /\ gas \in Nat /\ Len(calls) <= gas /\ Len(calls) \in Nat
      BY StoreAccessIsNeverFree DEF KeeperInv, MeterInv, GoodStart, CallsInv
    <3> QED
      BY <3>1
  <2>4. wasmDir \subseteq wasmDir' /\ wasmDir' \subseteq Wasms /\ StoreInv(new, wasmDir')
    BY <1>2, <2>1 DEF KeeperInv, PhaseInv
  <2>5. Finish(c, new, calls)
    BY <1>2 DEF new
  <2> QED
    BY <2>2, <2>3, <2>4, <2>5, FinishKeeps
<1> QED
  BY <1>1, <1>2 DEF StoreCode

(* Instantiate keeps the invariant: AddressTaken makes the new address       *)
(* different from all contracts and all calls, which have accounts.          *)
LEMMA InstantiateKeeps ==
  ASSUME KeeperInv, phase = "running", nmsgs' \in Nat, UNCHANGED wasmDir,
         NEW calls, GoodStart(store, calls),
         NEW sender \in Addr, NEW codeID \in CodeIDs, NEW deposit \in Coins,
         Instantiate(sender, codeID, deposit, calls)
  PROVE  KeeperInv'
<1> DEFINE addr == ContractAddress(codeID, NextID(store.lastInstanceID))
           st == WithInstanceID(store)
           new == SendCoins(st, sender, addr, deposit)
<1>1. CASE Abort
  BY <1>1, AbortKeeps DEF KeeperInv, PhaseInv
<1>2. ASSUME addr \notin st.accts, CanSend(st, sender, deposit), codeID \in DOMAIN st.codes,
             RunContract(new, "instantiate", addr, codeID, sender, calls)
      PROVE  KeeperInv'
  <2>1. addr \in ContractAddrs
    <3>1. codeID \in Nat /\ NextID(store.lastInstanceID) \in Nat
      BY BoundsAreNatural DEF CodeIDs, NextID, GoodStart, StoreInv, StoreOK, StoreShape
    <3> QED
      BY <3>1, AddressInRange
  <2>2. addr \in Addr
    BY <2>1 DEF Addr
  <2>3. /\ StoreInv(st, wasmDir) /\ st.codes = store.codes
        /\ st.contracts = store.contracts /\ st.accts = store.accts
    BY CounterKeepsStore DEF GoodStart
  <2> HIDE DEF addr, st
  <2>4. /\ StoreInv(new, wasmDir) /\ new.codes = st.codes
        /\ new.contracts = st.contracts /\ new.accts = st.accts \cup {sender, addr}
    BY <1>2, <2>2, <2>3, SendKeepsStore
  <2> HIDE DEF new
  <2>5. CallsInv(new, calls)
    BY <2>3, <2>4, CallsCarryOver DEF GoodStart
  <2>6. GoodStart(new, calls)
    BY <2>4, <2>5 DEF GoodStart
  <2>7. addr \notin DOMAIN new.contracts
    BY <1>2, <2>3, <2>4 DEF StoreInv
  <2>8. \A i \in 1 .. Len(calls) :
          calls[i].kind = "instantiate" => calls[i].contract # addr
    BY <1>2, <2>3 DEF GoodStart, CallsInv
  <2>9. addr \in new.accts /\ codeID \in DOMAIN new.codes
    BY <1>2, <2>4
  <2> QED
    BY <1>2, <2>1, <2>6, <2>7, <2>8, <2>9, RunKeeps
<1> QED
  BY <1>1, <1>2 DEF Instantiate, AddressTaken, OpenAccount

(* Execute keeps the invariant: what it runs has been persisted, and so is   *)
(* not one of the instances in the making.                                   *)
LEMMA ExecuteKeeps ==
  ASSUME KeeperInv, phase = "running", nmsgs' \in Nat, UNCHANGED wasmDir,
         NEW st, NEW calls, GoodStart(st, calls),
         NEW caller \in Addr, NEW addr \in Addr, NEW coins \in Coins \cup {0},
         Execute(st, caller, addr, coins, calls)
  PROVE  KeeperInv'
<1> DEFINE new == SendCoins(st, caller, addr, coins)
<1>1. CASE Abort
  BY <1>1, AbortKeeps DEF KeeperInv, PhaseInv
<1>2. ASSUME HasInstance(st, addr), CanSend(st, caller, coins),
             RunContract(new, "execute", addr, st.contracts[addr].code, caller, calls)
      PROVE  KeeperInv'
  <2>1. addr \in DOMAIN st.contracts /\ addr \in ContractAddrs
    BY <1>2 DEF HasInstance, GoodStart, StoreInv, StoreOK, IsPartialMap
  <2>2. /\ StoreInv(new, wasmDir) /\ new.codes = st.codes
        /\ new.contracts = st.contracts /\ new.accts = st.accts \cup {caller, addr}
    BY <1>2, SendKeepsStore DEF GoodStart
  <2> HIDE DEF new
  <2>3. CallsInv(new, calls)
    BY <2>2, CallsCarryOver DEF GoodStart
  <2>4. GoodStart(new, calls)
    BY <2>2, <2>3 DEF GoodStart
  <2>5. \A i \in 1 .. Len(calls) :
          calls[i].kind = "instantiate" => calls[i].contract # addr
    BY <2>1 DEF GoodStart, CallsInv
  <2>6. addr \in new.accts /\ st.contracts[addr].code \in DOMAIN new.codes
    BY <1>2, <2>2 DEF HasInstance
  <2> QED
    BY <1>2, <2>1, <2>4, <2>5, <2>6, RunKeeps
<1> QED
  BY <1>1, <1>2 DEF Execute

(* A handler that finishes after moving coins, or nothing, in the store.     *)
LEMMA MoveKeeps ==
  ASSUME KeeperInv, phase = "running", nmsgs' \in Nat, UNCHANGED wasmDir,
         NEW st, NEW calls, GoodStart(st, calls), NEW c \in StoreCosts,
         Finish(c, st, calls)
  PROVE  KeeperInv'
<1>1. c \in Nat /\ gas \in Nat /\ Len(calls) <= gas /\ Len(calls) \in Nat
  BY StoreAccessIsNeverFree DEF KeeperInv, MeterInv, GoodStart, CallsInv
<1>2. Len(calls) <= gas + c
  BY <1>1
<1>3. /\ StoreInv(st, wasmDir') /\ CallsInv(st, calls)
      /\ wasmDir \subseteq wasmDir' /\ wasmDir' \subseteq Wasms
  BY DEF GoodStart, KeeperInv, PhaseInv
<1> QED
  BY <1>1, <1>2, <1>3, FinishKeeps

(* Sending coins is a good start for whatever comes after it.                *)
LEMMA SendIsGoodStart ==
  ASSUME NEW calls, GoodStart(store, calls), NEW from \in Addr, NEW to \in Addr,
         NEW amt \in Coins, CanSend(store, from, amt)
  PROVE  GoodStart(SendCoins(store, from, to, amt), calls)
<1> DEFINE new == SendCoins(store, from, to, amt)
<1>1. /\ StoreInv(new, wasmDir) /\ new.codes = store.codes
      /\ new.contracts = store.contracts /\ new.accts = store.accts \cup {from, to}
  BY SendKeepsStore DEF GoodStart
<1> HIDE DEF new
<1>2. CallsInv(new, calls)
  BY <1>1, CallsCarryOver DEF GoodStart
<1> QED
  BY <1>1, <1>2 DEF GoodStart, new

(* A message given to the router for a sender keeps the invariant.           *)
LEMMA RouteKeeps ==
  ASSUME KeeperInv, phase = "running", nmsgs' \in Nat,
         NEW calls, GoodStart(store, calls), NEW sender \in Addr, Route(sender, calls)
  PROVE  KeeperInv'
<1>1. ASSUME NEW w \in Wasms, StoreCode(sender, w, calls) PROVE KeeperInv'
  BY <1>1, StoreCodeKeeps
<1>2. ASSUME UNCHANGED wasmDir, NEW codeID \in CodeIDs, NEW deposit \in Coins,
             Instantiate(sender, codeID, deposit, calls)
      PROVE  KeeperInv'
  BY <1>2, InstantiateKeeps
<1>3. ASSUME UNCHANGED wasmDir, NEW addr \in Addr, NEW coins \in Coins,
             Execute(store, sender, addr, coins, calls)
      PROVE  KeeperInv'
  BY <1>3, ExecuteKeeps
<1>4. ASSUME UNCHANGED wasmDir, NEW to \in Addr, NEW amt \in Coins,
             MsgSend(sender, to, amt, calls)
      PROVE  KeeperInv'
  <2>1. CASE Abort
    BY <1>4, <2>1, AbortKeeps DEF KeeperInv, PhaseInv
  <2>2. ASSUME CanSend(store, sender, amt), NEW c \in StoreCosts,
               Finish(c, SendCoins(store, sender, to, amt), calls)
        PROVE  KeeperInv'
    BY <1>4, <2>2, SendIsGoodStart, MoveKeeps
  <2> QED
    BY <1>4, <2>1, <2>2 DEF MsgSend, MsgSendAllowed
<1> QED
  BY <1>1, <1>2, <1>3, <1>4 DEF Route

-----------------------------------------------------------------------------
(* The invariant *)

(* The store of a fresh chain.                                               *)
LEMMA InitKeeps == Init => KeeperInv
<1> SUFFICES ASSUME Init PROVE KeeperInv
  OBVIOUS
<1>1. ShapeWith(InitStore, [i \in {} |-> Nil], [a \in {} |-> Nil])
  <2>1. [a \in ContractAddrs |-> [k \in Keys |-> Nil]] \in [ContractAddrs -> ContractState]
    BY DEF ContractState
  <2>2. [a \in Addr |-> IF a \in Users THEN UserFunds ELSE 0] \in [Addr -> Nat]
    BY CoinsAreNatural
  <2>3. Users \cup ModuleAccts \in SUBSET Addr
    BY DEF Addr
  <2> QED
    BY <2>1, <2>2, <2>3 DEF InitStore, ShapeWith
<1>2. /\ InitStore.codes = [i \in {} |-> Nil] /\ InitStore.contracts = [a \in {} |-> Nil]
      /\ InitStore.lastCodeID = Nil
  BY DEF InitStore
<1>3. DOMAIN InitStore.codes = {} /\ DOMAIN InitStore.contracts = {}
  BY <1>2
<1>4. StoreOK(InitStore)
  BY <1>1, <1>2, <1>3 DEF StoreOK, StoreShape, ShapeWith, IsPartialMap
<1>5. DOMAIN InitStore.codes = 1 .. (NextID(InitStore.lastCodeID) - 1)
  BY <1>2, <1>3 DEF NextID
<1>6. StoreInv(InitStore, {})
  BY <1>3, <1>4, <1>5 DEF StoreInv
<1>7. CallsInv(InitStore, <<>>)
  BY DEF CallsInv
<1> QED
  BY <1>6, <1>7 DEF Init, KeeperInv, MeterInv, PhaseInv

(* Every step of every transaction keeps the invariant.                      *)
LEMMA NextKeeps == KeeperInv /\ [Next]_vars => KeeperInv'
<1> SUFFICES ASSUME KeeperInv, [Next]_vars PROVE KeeperInv'
  OBVIOUS
<1>1. CASE UNCHANGED vars
  <2>1. /\ StoreInv(committed, wasmDir)' /\ StoreInv(store, wasmDir)'
        /\ CallsInv(store, stack)'
    BY <1>1 DEF vars, KeeperInv
  <2>2. MeterInv' /\ PhaseInv'
    BY <1>1 DEF vars, KeeperInv, MeterInv, PhaseInv
  <2> QED
    BY <2>1, <2>2 DEF KeeperInv
<1>2. ASSUME NEW u \in Users, NEW l \in GasLimits, BeginTx(u, l) PROVE KeeperInv'
  <2>1. /\ StoreInv(committed, wasmDir)' /\ StoreInv(store, wasmDir)'
        /\ CallsInv(store, stack)'
    BY <1>2 DEF BeginTx, KeeperInv
  <2>2. MeterInv' /\ PhaseInv'
    BY <1>2, GasIsCounted DEF BeginTx, KeeperInv, MeterInv, PhaseInv
  <2> QED
    BY <2>1, <2>2 DEF KeeperInv
<1>3. CASE CommitTx
  <2>1. /\ committed' = store /\ store' = store /\ wasmDir' = wasmDir /\ stack' = <<>>
        /\ phase' = "idle" /\ signer' = Nil /\ nmsgs' = 0 /\ gas' = 0 /\ limit' = 0
    BY <1>3 DEF CommitTx, EndTx
  <2>2. CallsInv(store, <<>>)
    BY DEF CallsInv
  <2> QED
    BY <2>1, <2>2 DEF KeeperInv, MeterInv, PhaseInv
<1>4. CASE DeliverMsg
  <2>1. phase = "running" /\ stack = <<>> /\ Route(signer, <<>>) /\ nmsgs' \in Nat
    BY <1>4 DEF DeliverMsg, KeeperInv, MeterInv
  <2>2. signer \in Addr
    BY <2>1 DEF KeeperInv, PhaseInv, Addr
  <2>3. GoodStart(store, <<>>)
    BY <2>1 DEF KeeperInv, GoodStart
  <2> QED
    BY <2>1, <2>2, <2>3, RouteKeeps
<1>5. ASSUME Dispatching, KeepCount
      PROVE  /\ phase = "running" /\ stack # <<>> /\ nmsgs' \in Nat
             /\ GoodStart(store, Dispatched) /\ Top.contract \in Addr
  <2>1. phase = "running" /\ stack # <<>> /\ Top.left > 0 /\ nmsgs' \in Nat
    BY <1>5 DEF Dispatching, KeepCount, KeeperInv, MeterInv
  <2>2. GoodStart(store, Dispatched)
    BY <2>1, DispatchedKeepsCalls DEF KeeperInv, GoodStart
  <2>3. Top \in Frame
    BY <2>1 DEF Top, KeeperInv, CallsInv
  <2> QED
    BY <2>1, <2>2, <2>3 DEF Frame, Addr
<1>6. CASE DispatchSend
  <2>1. Dispatching /\ KeepCount /\ UNCHANGED wasmDir
    BY <1>6 DEF DispatchSend
  <2>2. CASE Abort
    BY <2>1, <2>2, AbortKeeps DEF KeeperInv, PhaseInv
  <2>3. ASSUME NEW from \in Addr, NEW to \in Addr, NEW amt \in Coins,
               ~TokensRefused(store, Top.contract, from, to, amt), NEW c \in StoreCosts,
               Finish(c, SendTokens(store, from, to, amt), Dispatched)
        PROVE  KeeperInv'
    <3>1. CASE amt = 0
      BY <1>5, <2>1, <2>3, <3>1, MoveKeeps DEF SendTokens
    <3>2. CASE amt # 0
      <4>1. CanSend(store, from, amt)
        BY <2>3, <3>2 DEF TokensRefused, MsgSendAllowed
      <4>2. GoodStart(SendCoins(store, from, to, amt), Dispatched)
        BY <1>5, <2>1, <2>3, <4>1, SendIsGoodStart
      <4> QED
        BY <1>5, <2>1, <2>3, <3>2, <4>2, MoveKeeps DEF SendTokens
    <3> QED
      BY <3>1, <3>2
  <2> QED
    BY <1>6, <2>2, <2>3 DEF DispatchSend
<1>7. CASE DispatchContract
  <2>1. Dispatching /\ KeepCount /\ UNCHANGED wasmDir
    BY <1>7 DEF DispatchContract
  <2>2. CASE Abort
    BY <2>1, <2>2, AbortKeeps DEF KeeperInv, PhaseInv
  <2>3. ASSUME NEW target \in Addr, NEW amt \in Coins,
               ~TokensRefused(store, Top.contract, Top.contract, target, amt),
               Execute(SendTokens(store, Top.contract, target, amt),
                       Top.contract, target, 0, Dispatched)
        PROVE  KeeperInv'
    <3>1. GoodStart(SendTokens(store, Top.contract, target, amt), Dispatched)
      <4>1. CASE amt = 0
        BY <1>5, <2>1, <4>1 DEF SendTokens
      <4>2. CASE amt # 0
        <5>1. CanSend(store, Top.contract, amt)
          BY <2>3, <4>2 DEF TokensRefused, MsgSendAllowed
        <5> QED
          BY <1>5, <2>1, <2>3, <4>2, <5>1, SendIsGoodStart DEF SendTokens
      <4> QED
        BY <4>1, <4>2
    <3> QED
      BY <1>5, <2>1, <2>3, <3>1, ExecuteKeeps
  <2> QED
    BY <1>7, <2>2, <2>3 DEF DispatchContract
<1>8. CASE DispatchOpaque
  <2>1. Dispatching /\ KeepCount
    BY <1>8 DEF DispatchOpaque
  <2>2. CASE Abort /\ UNCHANGED wasmDir
    BY <2>2, AbortKeeps DEF KeeperInv, PhaseInv
  <2>3. ASSUME NEW sender \in Addr, Route(sender, Dispatched) PROVE KeeperInv'
    BY <1>5, <2>1, <2>3, RouteKeeps
  <2> QED
    BY <1>8, <2>2, <2>3 DEF DispatchOpaque
<1>9. CASE DispatchMalformed
  BY <1>9, AbortKeeps DEF DispatchMalformed, KeeperInv, PhaseInv
<1>10. CASE Return
  <2>1. /\ phase = "running" /\ stack # <<>> /\ UNCHANGED wasmDir /\ nmsgs' \in Nat
    BY <1>10 DEF Return, KeepCount, KeeperInv, MeterInv
  <2>2. /\ CallsInv(store, Popped) /\ Len(Popped) = Len(stack) - 1
        /\ \A i \in 1 .. Len(Popped) : Popped[i] = stack[i]
    BY <2>1, PoppedKeepsCalls DEF KeeperInv
  <2>3. /\ gas \in Nat /\ Len(stack) <= gas /\ Len(stack) \in Nat \ {0}
        /\ Top \in Frame /\ Top.contract \in store.accts /\ Top.code \in DOMAIN store.codes
    BY <2>1 DEF KeeperInv, MeterInv, CallsInv, Top
  <2>4. wasmDir \subseteq wasmDir' /\ wasmDir' \subseteq Wasms
    BY <2>1 DEF KeeperInv, PhaseInv
  <2>5. CASE Top.kind = "instantiate"
    <3>0. PICK c \in StoreCosts, msg \in InitMsgs : Finish(c, Persisted(store, Top, msg), Popped)
      BY <1>10, <2>5 DEF Return
    <3> DEFINE new == Persisted(store, Top, msg)
    <3>1. Finish(c, new, Popped)
      BY <3>0
    <3>2. /\ StoreInv(new, wasmDir) /\ new.codes = store.codes
          /\ DOMAIN new.contracts = DOMAIN store.contracts \cup {Top.contract}
          /\ new.accts = store.accts
      BY <2>3, PersistKeepsStore DEF KeeperInv
    <3> HIDE DEF new
    <3>3. \A i \in 1 .. Len(Popped) :
            Popped[i].kind = "instantiate" => Popped[i].contract # Top.contract
      BY <2>2, <2>3 DEF KeeperInv, CallsInv, Top
    <3>4. CallsInv(new, Popped)
      BY <2>2, <3>2, <3>3 DEF CallsInv
    <3>5. c \in Nat
      BY StoreAccessIsNeverFree
    <3>6. Len(Popped) <= gas + c
      BY <2>2, <2>3, <3>5
    <3>7. StoreInv(new, wasmDir')
      BY <2>1, <3>2
    <3> QED
      BY <2>1, <2>4, <3>1, <3>4, <3>5, <3>6, <3>7, FinishKeeps
  <2>6. CASE Top.kind # "instantiate"
    <3>1. Finish(0, store, Popped)
      BY <1>10, <2>6 DEF Return
    <3>2. Len(Popped) <= gas + 0 /\ 0 \in Nat
      BY <2>2, <2>3
    <3>3. StoreInv(store, wasmDir')
      BY <2>1 DEF KeeperInv
    <3> QED
      BY <2>1, <2>2, <2>4, <3>1, <3>2, <3>3, FinishKeeps
  <2> QED
    BY <2>5, <2>6
<1> QED
  BY <1>1, <1>2, <1>3, <1>4, <1>6, <1>7, <1>8, <1>9, <1>10 DEF Next, RunTx, Dispatch

(* KeeperInv holds in every state of every behaviour of the keeper.          *)
THEOREM KeeperInvariant == Spec => []KeeperInv
BY InitKeeps, NextKeeps, PTL DEF Spec

-----------------------------------------------------------------------------
(* The properties *)

(* Every reachable state is well typed; in particular no balance is ever     *)
(* negative, although a Contract message moves coins before its target is    *)
(* looked up.                                                                *)
THEOREM TypeCorrect == Spec => []TypeOK
<1>1. KeeperInv => TypeOK
  BY DEF KeeperInv, StoreInv, CallsInv, MeterInv, PhaseInv, TypeOK
<1> QED
  BY <1>1, KeeperInvariant, PTL

(* Codes are numbered without gaps, so the code list query is complete and   *)
(* ExportGenesis never dereferences a missing code.                          *)
THEOREM CodesAreContiguous == Spec => []CodesContiguous
<1>1. KeeperInv => CodesContiguous
  BY DEF KeeperInv, StoreInv, CodesContiguous
<1> QED
  BY <1>1, KeeperInvariant, PTL

(* Every contract, committed or cached, has its account, its code and the    *)
(* bytes of its code, whatever uploads were rolled back.                     *)
THEOREM ContractsAreRunnable == Spec => []ContractsRunnable
<1>1. KeeperInv => ContractsRunnable
  BY DEF KeeperInv, StoreInv, ContractsRunnable
<1> QED
  BY <1>1, KeeperInvariant, PTL

(* No call, at any depth, reaches a contract whose Instantiate is still      *)
(* dispatching its messages, and no two of these share an address, for       *)
(* every width of the instance id.                                           *)
THEOREM PendingAreHidden == Spec => []PendingHidden
<1>1. KeeperInv => PendingHidden
  BY DEF KeeperInv, CallsInv, PendingHidden, Pending
<1> QED
  BY <1>1, KeeperInvariant, PTL

(* The depth of nested calls never exceeds the gas consumed, nor that the    *)
(* limit, for every gas limit and every price of the store.                  *)
THEOREM DepthIsBoundedByGas == Spec => []DepthBoundedByGas
<1>1. KeeperInv => DepthBoundedByGas
  BY DEF KeeperInv, MeterInv, DepthBoundedByGas
<1> QED
  BY <1>1, KeeperInvariant, PTL

(* Wasm gas of at most m times what the meter has left costs no more than    *)
(* that: consumeGas rounds down.                                             *)
LEMMA PriceIsCovered ==
  ASSUME NEW x \in Nat, NEW m \in Nat \ {0}, NEW g \in Nat, g <= x * m
  PROVE  g \div m <= x
<1>1. g \div m \in Nat /\ m * (g \div m) <= g
  OBVIOUS
<1>2. SUFFICES ASSUME g \div m >= x + 1 PROVE FALSE
  BY <1>1
<1> DEFINE q == g \div m
<1>3. q \in Nat /\ q >= x + 1 /\ m * q <= x * m
  BY <1>1, <1>2
<1> HIDE DEF q
<1> DEFINE d == q - (x + 1)
<1>4. d \in Nat /\ q = x + 1 + d
  BY <1>3
<1> HIDE DEF d
<1>5. m * q = m * x + m + m * d
  BY <1>4
<1>6. m * d \in Nat /\ m * x \in Nat /\ x * m = m * x
  BY <1>4
<1> QED
  BY <1>3, <1>5, <1>6

(* The wasm gas a call is given is always worth no more than what the meter  *)
(* has left, for every word size, multiplier and limit: where the product    *)
(* of gasForContract wraps, the call is given less and never more.           *)
THEOREM GrantsAreCovered == Spec => []GrantIsCovered
<1>1. KeeperInv => GrantIsCovered
  <2> SUFFICES ASSUME KeeperInv, NEW c \in gas .. limit
               PROVE  SdkGas(GasForContract(c)) <= limit - c
    BY DEF GrantIsCovered
  <2>1. gas \in Nat /\ limit \in Nat
    BY DEF KeeperInv, MeterInv
  <2>2. c \in Nat /\ c <= limit /\ limit - c \in Nat
    BY <2>1
  <2>3. GasForContract(c) \in Nat
    BY <2>1, <2>2, GrantIsNatural
  <2>4. (limit - c) * GasMultiplier \in Nat
    BY <2>2, GasIsCounted
  <2>5. ASSUME NEW n \in Nat, NEW w \in Nat \ {0} PROVE n % w \in Nat /\ n % w <= n
    OBVIOUS
  <2>6. GasForContract(c) <= (limit - c) * GasMultiplier
    BY <2>4, <2>5, GasIsCounted DEF GasForContract
  <2> QED
    BY <2>2, <2>3, <2>6, PriceIsCovered, GasIsCounted DEF SdkGas
<1> QED
  BY <1>1, KeeperInvariant, PTL

=============================================================================
