---------------------------- MODULE GenesisFiles ----------------------------
(***************************************************************************)
(* The commands that write genesis files: testnet, which fills the homes of *)
(* several nodes, and add-genesis-account. (main.go has testnet in its      *)
(* table of commands, commented out.)                                       *)
(*                                                                          *)
(* testnet writes file after file. It can fail or be killed at each of      *)
(* them; some errors remove the output directory and others leave what is   *)
(* there, and the command is then run again, with as many nodes or with     *)
(* fewer or more, and with the same prefix of the nodes' directories or     *)
(* with another. What a run creates (a key, an account, a signature) is     *)
(* named by the number of the run and the index of the node.                *)
(***************************************************************************)
EXTENDS Integers, FiniteSets

CONSTANTS
  Nil, Cut,    \* no file; a file whose writing was interrupted
  Prefixes,    \* prefixes of the names of node directories
  NoIP,        \* a starting address that is not IPv4
  HostIP,      \* no starting address: the host's own is taken
  StartIPs,    \* last bytes of starting addresses
  ByteSize,    \* a byte is counted modulo this number
  Users,       \* addresses add-genesis-account is called with
  Coins,       \* amounts of coins,
  Vestings,    \*   and of coins to be vested; 0 is a flag that is not given
  Times,       \* vesting times; 0 is a flag that is not given
  MaxNodes,    \* bound: nodes of a testnet
  MaxRuns      \* bound: runs of testnet

ASSUME Bounds ==
  /\ MaxNodes \in Nat /\ MaxRuns \in Nat
  /\ ByteSize \in Nat \ {0} /\ StartIPs \subseteq Nat
ASSUME AmountsAndTimes ==
  Coins \subseteq Nat /\ Vestings \subseteq Nat /\ Times \subseteq Nat

Indices == 0 .. (MaxNodes - 1)

(* A node's directory and its file in gentxs have a name made of a prefix   *)
(* and an index. (Prefixes of which one is another with digits after it can *)
(* give two nodes one name; these are left out.)                            *)
Names == Prefixes \X Indices

(* What the files can hold: accounts of users and of keys that a run has     *)
(* made for a node, the nodes' transactions, and genesis documents.         *)
AccountType ==
  [addr : Users \cup (Nat \X Nat), coins : Nat, kind : {"base", "continuous", "delayed"},
   vesting : Nat, start : Nat, end : Nat]
TxType ==
  [acct : Nat \X Nat, signer : (Nat \cup {Nil}) \X Nat,
   node : (Nat \cup {Nil}) \X Nat, ip : Nat \cup {HostIP}]
DocType ==
  [accounts : SUBSET AccountType, gentxs : SUBSET TxType, time : (Nat \X Nat) \cup {Nil}]
ASSUME NoFileIsADocument ==
  Nil \notin DocType /\ Cut \notin DocType /\ Nil \notin TxType /\ Nil \notin Nat

VARIABLES
  nodeKey,      \* on disk, for each name: the run that made the node key,
  coinKey,      \*   the run that made the key in the keyring,
  seed,         \*   the run whose seed words are saved,
  gentx,        \*   the file in the directory gentxs,
  genesis,      \*   genesis.json
  run, size, prefix, startIP,  \* the command: its number and its flags
  pc, at,       \* where it is, and at which node
  genAccounts,  \* the accounts it has made
  appState      \* the canonical state of collectGenFiles

disk == <<nodeKey, coinKey, seed, gentx, genesis>>
flags == <<run, size, prefix, startIP>>
vars == <<disk, flags, pc, at, genAccounts, appState>>

NoFiles == [n \in Names |-> Nil]

Init ==
  /\ nodeKey = NoFiles /\ coinKey = NoFiles /\ seed = NoFiles
  /\ gentx = NoFiles /\ genesis = NoFiles
  /\ run = 0 /\ size = 0 /\ prefix \in Prefixes /\ startIP = 0
  /\ pc = "ended" /\ at = 0 /\ genAccounts = {} /\ appState = Nil

---------------------------------------------------------------------------
(* InitTestnet: the loop over the nodes *)

InitTestnet ==
  /\ pc \in {"ended", "success", "refused"} /\ run < MaxRuns
  /\ run' = run + 1 /\ size' \in 1 .. MaxNodes
  /\ prefix' \in Prefixes /\ startIP' \in StartIPs \cup {HostIP, NoIP}
  /\ pc' = "node" /\ at' = 0 /\ genAccounts' = {} /\ appState' = Nil
  /\ UNCHANGED disk

NodeDir(i) == <<prefix, i>>

(* The next node at this step, or the step that follows the last node.      *)
Loop(first, after) ==
  IF at + 1 < size THEN at' = at + 1 /\ pc' = first ELSE at' = 0 /\ pc' = after

RemoveAll ==
  /\ nodeKey' = NoFiles /\ coinKey' = NoFiles /\ seed' = NoFiles
  /\ gentx' = NoFiles /\ genesis' = NoFiles
  /\ pc' = "ended"
  /\ UNCHANGED <<flags, at, genAccounts, appState>>

(* The last byte of the address wraps. Without a starting address every     *)
(* node gets that of the host.                                              *)
GetIP(i) == IF startIP = HostIP THEN HostIP ELSE (startIP + i) % ByteSize

(* The directories, and the node's keys unless it has some from before.     *)
InitializeNode ==
  /\ pc = "node" /\ startIP # NoIP
  /\ nodeKey' = [nodeKey EXCEPT ![NodeDir(at)] = IF @ = Nil THEN run ELSE @]
  /\ pc' = "key"
  /\ UNCHANGED <<coinKey, seed, gentx, genesis, flags, at, genAccounts, appState>>

(* A key under the node's name is overwritten.                              *)
GenerateSaveCoinKey ==
  /\ pc = "key"
  /\ coinKey' = [coinKey EXCEPT ![NodeDir(at)] = run]
  /\ pc' = "seed"
  /\ UNCHANGED <<nodeKey, seed, gentx, genesis, flags, at, genAccounts, appState>>

Account(addr, coins) ==
  [addr |-> addr, coins |-> coins, kind |-> "base", vesting |-> 0, start |-> 0, end |-> 0]

(* 500 and 100 units of consensus power.                                    *)
NodeCoins == 5
SelfDelegation == 1

WriteSeed ==
  /\ pc = "seed"
  /\ seed' = [seed EXCEPT ![NodeDir(at)] = run]
  /\ genAccounts' = genAccounts \cup {Account(<<run, at>>, NodeCoins)}
  /\ pc' = "gentx"
  /\ UNCHANGED <<nodeKey, coinKey, gentx, genesis, flags, at, appState>>

(* The MsgCreateValidator of the node, from the account that was made for   *)
(* it, signed with the key that the keyring has under the node's name.      *)
SignedTxFirstKey(i) ==
  [acct |-> <<run, i>>, signer |-> <<coinKey[NodeDir(i)], i>>,
   node |-> <<nodeKey[NodeDir(0)], 0>>, ip |-> GetIP(i)]
SignedTx(i) ==
  [acct |-> <<run, i>>, signer |-> <<coinKey[NodeDir(i)], i>>,
   node |-> <<nodeKey[NodeDir(i)], i>>, ip |-> GetIP(i)]

(* The file has the node's name.                                            *)
KeepOldTx(old, i) == IF old = Nil THEN SignedTx(i) ELSE old
OverwriteTx(old, i) == SignedTx(i)
WriteGenTx ==
  /\ pc = "gentx"
  /\ gentx' = [gentx EXCEPT ![NodeDir(at)] = OverwriteTx(@, at)]
  /\ Loop("node", "init")
  /\ UNCHANGED <<nodeKey, coinKey, seed, genesis, flags, genAccounts, appState>>

---------------------------------------------------------------------------
(* The genesis files *)

Doc(accounts, gentxs, time) == [accounts |-> accounts, gentxs |-> gentxs, time |-> time]
IsDoc(file) == file \notin {Nil, Cut}

(* A document is read with the present time if it has none.                 *)
Now == <<run, at>>

InitGenFiles ==
  /\ pc = "init"
  /\ genesis' = [genesis EXCEPT ![NodeDir(at)] = Doc(genAccounts, {}, Nil)]
  /\ Loop("init", "collect")
  /\ UNCHANGED <<nodeKey, coinKey, seed, gentx, flags, genAccounts, appState>>

Addrs(accounts) == {a.addr : a \in accounts}
GenTxs == {gentx[n] : n \in Names} \ {Nil}

(* CollectStdTxs takes every file of the directory, and refuses one whose   *)
(* account the genesis does not have, or with too few coins.                *)
CollectStdTxs(doc) ==
  \A tx \in GenTxs : \E a \in doc.accounts :
    a.addr = tx.acct /\ a.coins >= SelfDelegation

(* GenAppStateFromConfig reads the node's genesis file and writes it back   *)
(* with the transactions. The first node's state is that of all.            *)
GenAppState ==
  /\ pc = "collect" /\ IsDoc(genesis[NodeDir(at)])
  /\ IF CollectStdTxs(genesis[NodeDir(at)])
     THEN LET doc == Doc(genesis[NodeDir(at)].accounts, GenTxs, Now)
          IN /\ genesis' = [genesis EXCEPT ![NodeDir(at)] = doc]
             /\ appState' = IF appState = Nil THEN doc ELSE appState
             /\ pc' = "export"
     ELSE pc' = "refused" /\ UNCHANGED <<genesis, appState>>
  /\ UNCHANGED <<nodeKey, coinKey, seed, gentx, flags, at, genAccounts>>

(* The genesis time is taken once, before the loop.                         *)
TimeInLoop(i) == <<run, i>>
GenTime(i) == <<run, MaxNodes>>
ExportGenesisFileWithTime ==
  /\ pc = "export"
  /\ genesis' = [genesis EXCEPT
       ![NodeDir(at)] = Doc(appState.accounts, appState.gentxs, GenTime(at))]
  /\ Loop("collect", "success")
  /\ UNCHANGED <<nodeKey, coinKey, seed, gentx, flags, genAccounts, appState>>

---------------------------------------------------------------------------
(* Errors *)

(* Those of the directories, the address, the node's files, the coin key,   *)
(* the signature and the gentx file remove everything, the files of earlier *)
(* runs too.                                                                *)
FailAndRemoveAll == pc \in {"node", "key", "gentx"} /\ RemoveAll

(* Those of the keyring, the seed file and all that follows the loop leave  *)
(* the files, as does a kill at any moment; a genesis file that was being   *)
(* written is then incomplete.                                              *)
FailOrKill ==
  /\ pc \notin {"ended", "success", "refused"}
  /\ genesis' \in {genesis} \cup
       (IF pc \in {"init", "collect", "export"} THEN {[genesis EXCEPT ![NodeDir(at)] = Cut]} ELSE {})
  /\ pc' = "ended"
  /\ UNCHANGED <<nodeKey, coinKey, seed, gentx, flags, at, genAccounts, appState>>

---------------------------------------------------------------------------
(* add-genesis-account, on the home of a node *)

(* The account the flags ask for, Nil if they are refused. Without an       *)
(* amount the times are ignored. NewBaseVestingAccount wants no more vested *)
(* than there is, and Validate start before end.                            *)
Continuous(addr, coins, vesting, start, end) ==
  [Account(addr, coins) EXCEPT
     !.kind = "continuous", !.vesting = vesting, !.start = start, !.end = end]
Delayed(addr, coins, vesting, end) ==
  [Account(addr, coins) EXCEPT !.kind = "delayed", !.vesting = vesting, !.end = end]
DelayedByDefault(addr, coins, vesting, start, end) ==
  CASE vesting = 0 -> Account(addr, coins)
    [] vesting \in 1 .. coins /\ 0 < start /\ start < end ->
         Continuous(addr, coins, vesting, start, end)
    [] vesting \in 1 .. coins /\ (start = 0 \/ end = 0) -> Delayed(addr, coins, vesting, end)
    [] OTHER -> Nil
GenAccount(addr, coins, vesting, start, end) ==
  CASE vesting = 0 -> Account(addr, coins)
    [] vesting \in 1 .. coins /\ 0 < start /\ start < end ->
         Continuous(addr, coins, vesting, start, end)
    [] vesting \in 1 .. coins /\ start = 0 /\ end # 0 -> Delayed(addr, coins, vesting, end)
    [] OTHER -> Nil

(* The accounts are those of users, or the node's own, by the name of the   *)
(* key in its keyring.                                                      *)
NamedAddrs(n) == Users \cup (IF coinKey[n] = Nil THEN {} ELSE {<<coinKey[n], n[2]>>})

GenAccounts(addr) ==
  {GenAccount(addr, coins, vesting, start, end) :
     coins \in Coins, vesting \in Vestings, start \in Times, end \in Times} \ {Nil}

AddGenesisAccount(n) ==
  /\ pc \in {"ended", "success", "refused"} /\ IsDoc(genesis[n])
  /\ \E addr \in NamedAddrs(n) \ Addrs(genesis[n].accounts) :
       \E file \in {Cut} \cup
            {Doc(genesis[n].accounts \cup {acct}, genesis[n].gentxs,
                 IF genesis[n].time = Nil THEN <<run, n[2]>> ELSE genesis[n].time) :
               acct \in GenAccounts(addr)} :
         genesis' = [genesis EXCEPT ![n] = file]
  /\ pc' = "ended"
  /\ UNCHANGED <<nodeKey, coinKey, seed, gentx, flags, at, genAccounts, appState>>

---------------------------------------------------------------------------

Next ==
  \/ InitTestnet
  \/ InitializeNode \/ GenerateSaveCoinKey \/ WriteSeed \/ WriteGenTx
  \/ InitGenFiles \/ GenAppState \/ ExportGenesisFileWithTime
  \/ FailAndRemoveAll \/ FailOrKill
  \/ \E n \in Names : AddGenesisAccount(n)

Spec == Init /\ [][Next]_vars

---------------------------------------------------------------------------

(* A testnet that was initialized successfully starts as one chain: all     *)
(* nodes have the same document, whatever earlier runs have left in the     *)
(* directory and wherever they stopped.                                     *)
OneGenesis ==
  pc = "success" =>
    \A i, j \in 0 .. (size - 1) :
      IsDoc(genesis[NodeDir(i)]) /\ genesis[NodeDir(i)] = genesis[NodeDir(j)]

(* Its validators are the nodes on disk: there is one transaction for each  *)
(* node, it names the node's own key, and its account, which the genesis    *)
(* has, is that of the key that signed it, that the keyring holds and that  *)
(* the seed restores. No two peers have the same address, unless there was  *)
(* no starting address or they are a whole byte apart.                      *)
KeysFit ==
  pc = "success" =>
    LET doc == genesis[NodeDir(0)]
    IN /\ Cardinality(doc.gentxs) = size
       /\ \A i \in 0 .. (size - 1) : \E tx \in doc.gentxs :
            /\ tx.node = <<nodeKey[NodeDir(i)], i>>
            /\ tx.acct = <<coinKey[NodeDir(i)], i>> /\ tx.signer = tx.acct
            /\ seed[NodeDir(i)] = coinKey[NodeDir(i)]
            /\ tx.acct \in Addrs(doc.accounts)
       /\ \A t, u \in doc.gentxs :
            t.ip = u.ip /\ t # u =>
              \/ startIP = HostIP
              \/ t.acct[2] - u.acct[2] >= ByteSize \/ u.acct[2] - t.acct[2] >= ByteSize

(* A run is refused for what is in the directory only if an earlier one has *)
(* left a transaction there under a name that this one does not use, as it  *)
(* had more nodes or another prefix: any other run gets through, whatever   *)
(* has happened before.                                                     *)
RefusedOnlyForLeftovers ==
  pc = "refused" =>
    \E n \in Names : gentx[n] # Nil /\ (n[1] # prefix \/ n[2] >= size)

(* Every complete genesis file is consistent, also after accounts were      *)
(* added to it in any way: an address has one account, the signers of the   *)
(* transactions have theirs, and what is vested is released at some time.   *)
GenesisUsable ==
  \A n \in Names : IsDoc(genesis[n]) =>
    LET accounts == genesis[n].accounts
    IN /\ Cardinality(Addrs(accounts)) = Cardinality(accounts)
       /\ \A tx \in genesis[n].gentxs : tx.acct \in Addrs(accounts)
       /\ \A a \in accounts : a.vesting > 0 => a.vesting <= a.coins /\ a.start < a.end

=============================================================================
