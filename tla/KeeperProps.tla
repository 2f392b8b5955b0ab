---------------------------- MODULE KeeperProps ----------------------------
(***************************************************************************)
(* What the keeper must guarantee, whatever contracts do.                   *)
(***************************************************************************)
EXTENDS Keeper, FiniteSets, FiniteSetsExt

ASSUME AccountsAreFinite == IsFiniteSet(Users) /\ IsFiniteSet(ModuleAccts)

IsPartialMap(f, D, R) ==
  /\ f = [x \in DOMAIN f |-> f[x]]
  /\ DOMAIN f \subseteq D
  /\ \A x \in DOMAIN f : f[x] \in R

StoreShape(st) ==
     st \in [lastCodeID : (Nat \ {0}) \cup {Nil},
             lastInstanceID : (Nat \ {0}) \cup {Nil},
             codes : {st.codes}, contracts : {st.contracts},
             state : [ContractAddrs -> ContractState],
             accts : SUBSET Addr, bal : [Addr -> Nat]]

StoreOK(st) ==
  /\ StoreShape(st)
  /\ IsPartialMap(st.codes, Nat, CodeInfo)
  /\ IsPartialMap(st.contracts, ContractAddrs, ContractInfo)

(* The stores hold what the keeper's codecs can read back, no balance is     *)
(* negative, every call is one of the keeper's two, and the meter counts.   *)
TypeOK ==
  /\ StoreOK(committed) /\ StoreOK(store)
  /\ wasmDir \subseteq Wasms
  /\ phase \in {"idle", "running"}
  /\ signer \in Users \cup {Nil}
  /\ nmsgs \in Nat /\ gas \in Nat /\ limit \in Nat
  /\ stack \in Seq(Frame)

(* Codes are numbered 1, 2, 3, ... without a gap, in every store: the code  *)
(* list query stops at the first id it does not find, and ExportGenesis     *)
(* dereferences every id below GetNextCodeID.                               *)
CodesContiguous ==
  \A st \in {committed, store} :
    DOMAIN st.codes = 1 .. (NextID(st.lastCodeID) - 1)

(* Whatever was committed can be run: the contract's account exists, its    *)
(* code is known and its byte code is still in wasmer's directory, although *)
(* that directory takes no part in commits and rollbacks.                   *)
ContractsRunnable ==
  \A st \in {committed, store} :
    \A a \in DOMAIN st.contracts :
      /\ a \in st.accts
      /\ st.contracts[a].code \in DOMAIN st.codes
      /\ st.codes[st.contracts[a].code].hash \in wasmDir

Pending == {i \in 1 .. Len(stack) : stack[i].kind = "instantiate"}

(* While the messages of an Instantiate are dispatched, however deep, its   *)
(* contract is not found by anyone: contractInstance knows it only after    *)
(* the last of them succeeded. No two such calls share an address.          *)
PendingHidden ==
  \A i \in Pending :
    /\ stack[i].contract \notin DOMAIN store.contracts
    /\ \A j \in 1 .. Len(stack) :
         j > i => stack[j].contract # stack[i].contract

(* Data under a contract's prefix belongs to an instance that exists, or to *)
(* one that is being made: a failed Instantiate leaves nothing behind.      *)
NoOrphanState ==
  \A a \in ContractAddrs :
    /\ committed.state[a] # [k \in Keys |-> Nil] => a \in DOMAIN committed.contracts
    /\ store.state[a] # [k \in Keys |-> Nil] =>
         a \in DOMAIN store.contracts \/ \E i \in Pending : stack[i].contract = a

(* Gas bounds the nesting of calls: each call on the stack has paid for its *)
(* own store accesses out of the transaction's limit, so a contract cannot  *)
(* call itself for ever.                                                    *)
DepthBoundedByGas == Len(stack) <= gas /\ gas <= limit

(* generateContractAddress, keeper.go:403: an address is generated twice    *)
(* only when an id overflows its 32 bits.                                   *)
DuplicateOnlyOnOverflow ==
  \A codeID \in DOMAIN committed.codes :
    LET id == NextID(committed.lastInstanceID)
    IN ContractAddress(codeID, id) \in DOMAIN committed.contracts =>
         id >= IdSpan \/ \E c \in DOMAIN committed.codes : c >= IdSpan

(* Module accounts are paid by no one: the bank handler refuses them, and   *)
(* the keeper's own SendCoins, which skips that handler, pays contracts.    *)
ModuleAcctsUntouched ==
  \A m \in ModuleAccts : committed.bal[m] = 0 /\ store.bal[m] = 0

(* Coins are moved and never made or lost, in any message a contract emits. *)
Supply(st) == MapThenSumSet(LAMBDA a : st.bal[a], Addr)
SupplyConserved ==
  /\ Supply(committed) = UserFunds * Cardinality(Users)
  /\ Supply(store) = UserFunds * Cardinality(Users)

(* Inside a transaction the only account that loses coins in a step is the  *)
(* one the step acts for: the signer at the top level, and below it the     *)
(* contract whose messages are dispatched.                                  *)
Actor == IF stack = <<>> THEN signer ELSE Top.contract
OnlyActorPays ==
  [][phase = "running" /\ phase' = "running" =>
       \A a \in Addr : store'.bal[a] < store.bal[a] => a = Actor]_vars

(* A contract's data changes only in a step that runs that very contract,   *)
(* and an abort restores it.                                                *)
OnlyOwnerWrites ==
  [][phase = "running" /\ phase' = "running" =>
       \A a \in ContractAddrs : store'.state[a] # store.state[a] =>
         Len(stack') = Len(stack) + 1 /\ stack'[Len(stack')].contract = a]_vars

(* The wasm gas a call is given, converted back, is gas the meter still has, *)
(* also where the uint64 product wraps: a contract that keeps off the store *)
(* cannot run out of the transaction's gas in the middle of its call.       *)
GrantIsCovered ==
  \A c \in gas .. limit : SdkGas(GasForContract(c)) <= limit - c

(* The committed store behaves as the abstract ledger: every transaction is *)
(* one step of it or none, whatever happened in between.                    *)
Ledger == INSTANCE ContractLedger WITH ledger <- committed
LedgerSpec == Ledger!Spec

(* A started transaction ends, committed or aborted.                        *)
Termination == phase = "running" ~> phase = "idle"

============================================================================
