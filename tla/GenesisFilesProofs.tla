------------------------- MODULE GenesisFilesProofs -------------------------
(***************************************************************************)
(* The genesis files, for any number of nodes, runs and accounts.           *)
(*                                                                          *)
(* FilesInv says how far the running testnet has come: of each node, which  *)
(* files are from this run; which accounts it has made; what the genesis    *)
(* files before and after the current one hold. Of what earlier runs left   *)
(* behind it says that a transaction in gentxs has an account that was made  *)
(* for the node of that index, by this run only under this run's prefix,    *)
(* and that every document is usable.                                       *)
(***************************************************************************)
EXTENDS GenesisFiles, FiniteSetTheorems, TLAPS

MakingNode == {"node", "key", "seed", "gentx"}
MakingDocs == {"init", "collect", "export"}
Pcs == MakingNode \cup MakingDocs \cup {"ended", "success", "refused"}

FlagsInv ==
  /\ pc \in Pcs /\ run \in Nat
  /\ pc # "ended" => size \in 1 .. MaxNodes /\ at \in 0 .. (size - 1)
  /\ prefix \in Prefixes
  /\ pc = "node" => startIP \in StartIPs \cup {HostIP, NoIP}
  /\ pc \notin {"ended", "node"} => startIP \in StartIPs \cup {HostIP}

(* A consistent document.                                                    *)
GoodDoc(doc) ==
  /\ IsFiniteSet(doc.accounts)
  /\ \A a, b \in doc.accounts : a.addr = b.addr => a = b
  /\ \A tx \in doc.gentxs : tx.acct \in Addrs(doc.accounts)
  /\ \A a \in doc.accounts : a.vesting > 0 => a.vesting <= a.coins /\ a.start < a.end

KeysInv ==
  /\ nodeKey \in [Names -> Nat \cup {Nil}]
  /\ coinKey \in [Names -> Nat \cup {Nil}]
  /\ seed \in [Names -> Nat \cup {Nil}]

TxsInv ==
  /\ gentx \in [Names -> TxType \cup {Nil}]
  /\ \A n \in Names : gentx[n] # Nil =>
       /\ gentx[n].acct[2] = n[2] /\ gentx[n].acct[1] <= run
       /\ gentx[n].acct[1] = run => n[1] = prefix

UsableInv ==
  /\ genesis \in [Names -> DocType \cup {Nil, Cut}]
  /\ \A n \in Names : IsDoc(genesis[n]) => GoodDoc(genesis[n])

DiskInv == KeysInv /\ TxsInv /\ UsableInv

AccountsOf(k) == {Account(<<run, i>>, NodeCoins) : i \in 0 .. (k - 1)}
NodeDone(i) ==
  /\ coinKey[NodeDir(i)] = run /\ seed[NodeDir(i)] = run
  /\ gentx[NodeDir(i)] = SignedTx(i)

LoopInv ==
  /\ pc \in {"node", "key", "seed"} => genAccounts = AccountsOf(at)
  /\ pc = "gentx" => genAccounts = AccountsOf(at + 1) /\ seed[NodeDir(at)] = run
  /\ pc \in {"seed", "gentx"} => coinKey[NodeDir(at)] = run
  /\ pc \in MakingNode => \A i \in 0 .. (at - 1) : NodeDone(i)
  /\ pc \in MakingDocs \cup {"success", "refused"} =>
       genAccounts = AccountsOf(size) /\ \A i \in 0 .. (size - 1) : NodeDone(i)

FirstDoc == Doc(genAccounts, {}, Nil)
LastDoc == Doc(genAccounts, GenTxs, <<run, MaxNodes>>)
Collected == \A tx \in GenTxs : tx.acct \in Addrs(genAccounts)

DocsInv ==
  /\ pc \in MakingNode \cup {"init"} => appState = Nil
  /\ pc = "init" => \A i \in 0 .. (at - 1) : genesis[NodeDir(i)] = FirstDoc
  /\ pc = "collect" =>
       /\ \A i \in at .. (size - 1) : genesis[NodeDir(i)] = FirstDoc
       /\ at = 0 => appState = Nil
  /\ pc = "export" => \A i \in (at + 1) .. (size - 1) : genesis[NodeDir(i)] = FirstDoc
  /\ pc \in {"collect", "export"} => \A i \in 0 .. (at - 1) : genesis[NodeDir(i)] = LastDoc
  /\ (pc = "collect" /\ at > 0) \/ pc = "export" =>
       appState = Doc(genAccounts, GenTxs, <<run, 0>>) /\ Collected
  /\ pc = "success" =>
       (\A i \in 0 .. (size - 1) : genesis[NodeDir(i)] = LastDoc) /\ Collected

FilesInv == FlagsInv /\ DiskInv /\ LoopInv /\ DocsInv /\ RefusedOnlyForLeftovers

-----------------------------------------------------------------------------
(* The accounts and transactions of a run *)

(* The accounts of the first k nodes: finitely many, one for each address,   *)
(* and nothing vested.                                                       *)
LEMMA RunsAccounts ==
  ASSUME NEW k \in Nat, run \in Nat
  PROVE  /\ AccountsOf(k) \subseteq AccountType /\ IsFiniteSet(AccountsOf(k))
         /\ \A a, b \in AccountsOf(k) : a.addr = b.addr => a = b
         /\ \A a \in AccountsOf(k) : a.vesting = 0 /\ a.coins = NodeCoins
         /\ Addrs(AccountsOf(k)) = {<<run, i>> : i \in 0 .. (k - 1)}
<1> DEFINE S == 0 .. (k - 1)
           acct(i) == Account(<<run, i>>, NodeCoins)
           f == [i \in S |-> acct(i)]
<1>1. \A i \in S : /\ acct(i) \in AccountType /\ acct(i).addr = <<run, i>>
                   /\ acct(i).vesting = 0 /\ acct(i).coins = NodeCoins
  BY DEF Account, AccountType, NodeCoins
<1>2. AccountsOf(k) = {acct(i) : i \in S}
  BY DEF AccountsOf
<1> HIDE DEF acct, S
<1>3. f \in Surjection(S, AccountsOf(k))
  BY <1>2 DEF Surjection
<1>4. IsFiniteSet(S)
  BY FS_Interval DEF S
<1>5. IsFiniteSet(AccountsOf(k))
  BY <1>3, <1>4, FS_Surjection
<1>6. \A a, b \in AccountsOf(k) : a.addr = b.addr => a = b
  BY <1>1, <1>2
<1>7. Addrs(AccountsOf(k)) = {<<run, i>> : i \in S}
  BY <1>1, <1>2 DEF Addrs
<1> QED
  BY <1>1, <1>2, <1>5, <1>6, <1>7 DEF S

(* The loop adds one account at a time.                                      *)
LEMMA OneMoreAccount ==
  ASSUME NEW k \in Nat
  PROVE  /\ AccountsOf(0) = {}
         /\ AccountsOf(k + 1) = AccountsOf(k) \cup {Account(<<run, k>>, NodeCoins)}
<1>1. 0 .. ((k + 1) - 1) = 0 .. (k - 1) \cup {k} /\ 0 .. (0 - 1) = {}
  OBVIOUS
<1> QED
  BY <1>1 DEF AccountsOf

(* Each node has a directory of its own, of a name with its index.           *)
LEMMA DirsOfNodes ==
  ASSUME prefix \in Prefixes
  PROVE  /\ \A i \in Indices :
              NodeDir(i) \in Names /\ NodeDir(i)[1] = prefix /\ NodeDir(i)[2] = i
         /\ \A i, j : NodeDir(i) = NodeDir(j) => i = j
BY DEF NodeDir, Names

LEMMA SameDirs ==
  ASSUME prefix' = prefix
  PROVE  \A i : NodeDir(i)' = NodeDir(i)
BY DEF NodeDir

(* The transaction of a node is signed by a key of that node.                *)
LEMMA SignedTxIsTx ==
  ASSUME NEW i \in Indices, run \in Nat, KeysInv, prefix \in Prefixes,
         startIP \in StartIPs \cup {HostIP}
  PROVE  /\ SignedTx(i) \in TxType /\ SignedTx(i) # Nil
         /\ SignedTx(i).acct = <<run, i>>
         /\ SignedTx(i).signer = <<coinKey[NodeDir(i)], i>>
         /\ SignedTx(i).node = <<nodeKey[NodeDir(i)], i>>
         /\ SignedTx(i).ip = GetIP(i)
<1>1. i \in Nat /\ ByteSize \in Nat \ {0} /\ StartIPs \subseteq Nat
  BY Bounds DEF Indices
<1>2. ASSUME NEW n \in Nat, NEW m \in Nat \ {0} PROVE n % m \in Nat
  OBVIOUS
<1>3. GetIP(i) \in Nat \cup {HostIP}
  BY <1>1, <1>2 DEF GetIP
<1>4. NodeDir(i) \in Names
  BY DirsOfNodes
<1>5. coinKey[NodeDir(i)] \in Nat \cup {Nil} /\ nodeKey[NodeDir(i)] \in Nat \cup {Nil}
  BY <1>4 DEF KeysInv
<1>6. SignedTx(i) \in TxType
  BY <1>1, <1>3, <1>5 DEF SignedTx, TxType
<1> QED
  BY <1>6, NoFileIsADocument DEF SignedTx

(* A document of well-typed parts is one, and is told from no file and from  *)
(* a cut one.                                                                *)
LEMMA DocIsDoc ==
  ASSUME NEW accounts \in SUBSET AccountType, NEW gentxs \in SUBSET TxType,
         NEW time \in (Nat \X Nat) \cup {Nil}
  PROVE  /\ Doc(accounts, gentxs, time) \in DocType
         /\ IsDoc(Doc(accounts, gentxs, time))
         /\ Doc(accounts, gentxs, time) # Nil
         /\ Doc(accounts, gentxs, time).accounts = accounts
         /\ Doc(accounts, gentxs, time).gentxs = gentxs
         /\ Doc(accounts, gentxs, time).time = time
<1>1. Doc(accounts, gentxs, time) \in DocType
  BY DEF Doc, DocType
<1> QED
  BY <1>1, NoFileIsADocument DEF Doc, IsDoc

-----------------------------------------------------------------------------
(* The flags and the position *)

LEMMA FirstIsInside ==
  \A n \in 1 .. MaxNodes : n \in Nat /\ 0 \in 0 .. (n - 1)
BY Bounds

(* The loop stays among the nodes.                                           *)
LEMMA LoopStaysInside ==
  ASSUME NEW first, NEW after, size \in 1 .. MaxNodes, at \in 0 .. (size - 1),
         Loop(first, after)
  PROVE  /\ at' \in 0 .. (size - 1)
         /\ \/ pc' = first /\ at' = at + 1 /\ at + 1 < size
            \/ pc' = after /\ at' = 0 /\ at + 1 = size
<1>1. MaxNodes \in Nat /\ size \in Nat /\ at \in Nat
  BY Bounds
<1> QED
  BY <1>1 DEF Loop

(* Every step keeps the flags and the position in range.                     *)
LEMMA FlagsKeep ==
  ASSUME FlagsInv, [Next]_vars
  PROVE  FlagsInv'
<1> USE DEF FlagsInv, Pcs, MakingNode, MakingDocs, flags
<1>1. CASE UNCHANGED vars
  BY <1>1 DEF vars
<1>2. CASE InitTestnet
  <2>1. /\ run' = run + 1 /\ size' \in 1 .. MaxNodes /\ at' = 0 /\ pc' = "node"
        /\ prefix' \in Prefixes /\ startIP' \in StartIPs \cup {HostIP, NoIP}
    BY <1>2 DEF InitTestnet
  <2>3. at' \in 0 .. (size' - 1)
    BY ONLY <2>1, FirstIsInside
  <2>4. run' \in Nat
    BY <2>1
  <2> QED
    BY <2>1, <2>3, <2>4
<1>3. CASE InitializeNode
  BY <1>3 DEF InitializeNode
<1>4. CASE GenerateSaveCoinKey \/ WriteSeed
  BY <1>4 DEF GenerateSaveCoinKey, WriteSeed
<1>5. CASE WriteGenTx
  BY <1>5, LoopStaysInside DEF WriteGenTx
<1>6. CASE InitGenFiles
  BY <1>6, LoopStaysInside DEF InitGenFiles
<1>7. CASE GenAppState
  BY <1>7 DEF GenAppState
<1>8. CASE ExportGenesisFileWithTime
  BY <1>8, LoopStaysInside DEF ExportGenesisFileWithTime
<1>9. CASE FailAndRemoveAll \/ FailOrKill
  BY <1>9 DEF FailAndRemoveAll, RemoveAll, FailOrKill
<1>10. ASSUME NEW n \in Names, AddGenesisAccount(n) PROVE FlagsInv'
  BY <1>10 DEF AddGenesisAccount
<1> QED
  BY <1>1, <1>2, <1>3, <1>4, <1>5, <1>6, <1>7, <1>8, <1>9, <1>10 DEF Next

-----------------------------------------------------------------------------
(* The disk *)

LEMMA PositionIsIndex ==
  ASSUME FlagsInv, pc # "ended"
  PROVE  /\ size \in Nat \ {0} /\ at \in Nat /\ at < size /\ at \in Indices
         /\ 0 .. (size - 1) \subseteq Indices /\ NodeDir(at) \in Names
         /\ \A i \in Indices : NodeDir(i) \in Names
         /\ \A i, j : NodeDir(i) = NodeDir(j) => i = j
<1>1. size \in Nat \ {0} /\ at \in Nat /\ at < size /\ at \in Indices
      /\ 0 .. (size - 1) \subseteq Indices
  BY Bounds DEF FlagsInv, Indices
<1> QED
  BY <1>1, DirsOfNodes DEF FlagsInv

LEMMA NoFilesAreFiles ==
  ASSUME NEW S PROVE NoFiles \in [Names -> S \cup {Nil}] /\ \A n \in Names : NoFiles[n] = Nil
BY DEF NoFiles

(* Every step keeps the keys.                                                *)
LEMMA KeysKeep ==
  ASSUME FlagsInv, KeysInv, [Next]_vars
  PROVE  KeysInv'
<1> USE DEF KeysInv
<1>1. CASE UNCHANGED <<nodeKey, coinKey, seed>>
  BY <1>1
<1>2. CASE InitializeNode
  BY <1>2 DEF InitializeNode, FlagsInv
<1>3. CASE GenerateSaveCoinKey
  BY <1>3 DEF GenerateSaveCoinKey, FlagsInv
<1>4. CASE WriteSeed
  BY <1>4 DEF WriteSeed, FlagsInv
<1>5. CASE FailAndRemoveAll
  BY <1>5, NoFilesAreFiles DEF FailAndRemoveAll, RemoveAll
<1> QED
  BY <1>1, <1>2, <1>3, <1>4, <1>5
  DEF Next, vars, disk, InitTestnet, WriteGenTx, InitGenFiles, GenAppState,
      ExportGenesisFileWithTime, FailOrKill, AddGenesisAccount

(* Every step keeps the transactions, each signed by a key of its node.      *)
LEMMA TxsKeep ==
  ASSUME FlagsInv, KeysInv, TxsInv, [Next]_vars
  PROVE  TxsInv'
<1>1. CASE UNCHANGED <<gentx, run, prefix>>
  BY <1>1 DEF TxsInv
<1>2. CASE InitTestnet
  <2>1. run' = run + 1 /\ gentx' = gentx /\ run \in Nat
    BY <1>2 DEF InitTestnet, disk, FlagsInv
  <2>2. ASSUME NEW n \in Names, gentx[n] # Nil
        PROVE  /\ gentx[n].acct[2] = n[2] /\ gentx[n].acct[1] <= run'
               /\ gentx[n].acct[1] # run'
    <3>1. gentx[n].acct[2] = n[2] /\ gentx[n].acct[1] <= run /\ gentx[n].acct[1] \in Nat
      BY <2>2 DEF TxsInv, TxType
    <3> QED
      BY <2>1, <3>1
  <2> QED
    BY <2>1, <2>2 DEF TxsInv
<1>3. CASE WriteGenTx
  <2>1. /\ pc = "gentx" /\ at \in Indices /\ NodeDir(at) \in Names
        /\ run' = run /\ prefix' = prefix /\ run \in Nat /\ prefix \in Prefixes
        /\ gentx' = [gentx EXCEPT ![NodeDir(at)] = SignedTx(at)]
    BY <1>3, PositionIsIndex DEF WriteGenTx, OverwriteTx, FlagsInv, flags
  <2>2. SignedTx(at) \in TxType /\ SignedTx(at).acct = <<run, at>>
    BY <2>1, SignedTxIsTx DEF FlagsInv
  <2>3. NodeDir(at)[1] = prefix /\ NodeDir(at)[2] = at
    BY <2>1, DirsOfNodes
  <2>4. SignedTx(at).acct[2] = at /\ SignedTx(at).acct[1] = run /\ run <= run
    BY <2>1, <2>2
  <2> QED
    BY <2>1, <2>2, <2>3, <2>4 DEF TxsInv
<1>4. CASE FailAndRemoveAll
  BY <1>4, NoFilesAreFiles DEF FailAndRemoveAll, RemoveAll, TxsInv
<1> QED
  BY <1>1, <1>2, <1>3, <1>4
  DEF Next, vars, disk, flags, InitializeNode, GenerateSaveCoinKey, WriteSeed,
      InitGenFiles, GenAppState, ExportGenesisFileWithTime, FailOrKill, AddGenesisAccount

LEMMA GenTxsAreTxs ==
  ASSUME TxsInv
  PROVE  GenTxs \in SUBSET TxType
BY DEF TxsInv, GenTxs

(* A document with the accounts of a run is consistent if they include the   *)
(* signers of its transactions.                                              *)
LEMMA RunsDocIsGood ==
  ASSUME run \in Nat, NEW k \in Nat, NEW txs \in SUBSET TxType,
         NEW time \in (Nat \X Nat) \cup {Nil},
         \A tx \in txs : tx.acct \in Addrs(AccountsOf(k))
  PROVE  /\ Doc(AccountsOf(k), txs, time) \in DocType
         /\ IsDoc(Doc(AccountsOf(k), txs, time))
         /\ GoodDoc(Doc(AccountsOf(k), txs, time))
<1> DEFINE A == AccountsOf(k)
           d == Doc(A, txs, time)
<1>1. /\ A \in SUBSET AccountType /\ IsFiniteSet(A)
      /\ \A a, b \in A : a.addr = b.addr => a = b
      /\ \A a \in A : a.vesting = 0
      /\ \A tx \in txs : tx.acct \in Addrs(A)
  BY RunsAccounts
<1> HIDE DEF A
<1>2. d \in DocType /\ IsDoc(d) /\ d.accounts = A /\ d.gentxs = txs
  BY <1>1, DocIsDoc
<1> HIDE DEF d
<1>3. GoodDoc(d)
  BY <1>1, <1>2 DEF GoodDoc
<1> QED
  BY <1>2, <1>3 DEF d, A

(* An account that the flags ask for has its address, and vests what it has  *)
(* over some time.                                                           *)
LEMMA GenAccountIsGood ==
  ASSUME NEW addr \in Users \cup (Nat \X Nat), NEW acct \in GenAccounts(addr)
  PROVE  /\ acct \in AccountType /\ acct.addr = addr
         /\ acct.vesting > 0 => acct.vesting <= acct.coins /\ acct.start < acct.end
<1>1. PICK coins \in Coins, vesting \in Vestings, start \in Times, end \in Times :
        acct = GenAccount(addr, coins, vesting, start, end)
  BY DEF GenAccounts
<1>2. acct # Nil
  BY DEF GenAccounts
<1>3. coins \in Nat /\ vesting \in Nat /\ start \in Nat /\ end \in Nat
  BY AmountsAndTimes
<1>4. CASE vesting = 0
  <2>1. acct = Account(addr, coins)
    BY <1>1, <1>3, <1>4 DEF GenAccount
  <2> QED
    BY <2>1, <1>3 DEF Account, AccountType
<1>5. CASE vesting \in 1 .. coins /\ 0 < start /\ start < end
  <2>1. acct = Continuous(addr, coins, vesting, start, end)
    BY <1>1, <1>3, <1>5 DEF GenAccount
  <2>2. acct = [addr |-> addr, coins |-> coins, kind |-> "continuous",
                vesting |-> vesting, start |-> start, end |-> end]
    BY <2>1 DEF Continuous, Account
  <2> QED
    BY <2>2, <1>3, <1>5 DEF AccountType
<1>6. CASE vesting \in 1 .. coins /\ start = 0 /\ end # 0
  <2>1. acct = Delayed(addr, coins, vesting, end)
    BY <1>1, <1>3, <1>6 DEF GenAccount
  <2>2. acct = [addr |-> addr, coins |-> coins, kind |-> "delayed", vesting |-> vesting,
                start |-> 0, end |-> end]
    BY <2>1 DEF Delayed, Account
  <2> QED
    BY <2>2, <1>3, <1>6 DEF AccountType
<1> QED
  BY <1>1, <1>2, <1>4, <1>5, <1>6 DEF GenAccount

(* Adding an account of a new address to a usable document leaves a usable   *)
(* one.                                                                      *)
LEMMA OneMoreAccountIsGood ==
  ASSUME NEW doc \in DocType, GoodDoc(doc), NEW addr \in Users \cup (Nat \X Nat),
         addr \notin Addrs(doc.accounts), NEW acct \in GenAccounts(addr),
         NEW time \in Nat \X Nat
  PROVE  LET new == Doc(doc.accounts \cup {acct}, doc.gentxs,
                        IF doc.time = Nil THEN time ELSE doc.time)
         IN new \in DocType /\ GoodDoc(new)
<1> DEFINE A == doc.accounts \cup {acct}
           t == IF doc.time = Nil THEN time ELSE doc.time
           new == Doc(A, doc.gentxs, t)
<1>1. /\ doc.accounts \in SUBSET AccountType /\ doc.gentxs \in SUBSET TxType
      /\ t \in (Nat \X Nat) \cup {Nil}
  BY DEF DocType
<1>2. acct \in AccountType /\ acct.addr = addr
      /\ (acct.vesting > 0 => acct.vesting <= acct.coins /\ acct.start < acct.end)
  BY GenAccountIsGood
<1>3. IsFiniteSet(A)
  BY FS_AddElement DEF GoodDoc
<1>4. A \in SUBSET AccountType
  BY <1>1, <1>2
<1>5. \A a \in doc.accounts : a.addr # addr
  BY DEF Addrs
<1>6. \A a, b \in A : a.addr = b.addr => a = b
  BY <1>2, <1>5 DEF GoodDoc
<1>7. \A tx \in doc.gentxs : tx.acct \in Addrs(A)
  BY DEF GoodDoc, Addrs
<1>8. \A a \in A : a.vesting > 0 => a.vesting <= a.coins /\ a.start < a.end
  BY <1>2 DEF GoodDoc
<1> HIDE DEF A, t
<1>9. new \in DocType /\ new.accounts = A /\ new.gentxs = doc.gentxs
  BY <1>1, <1>4, DocIsDoc
<1> HIDE DEF new
<1>10. GoodDoc(new)
  BY <1>3, <1>6, <1>7, <1>8, <1>9 DEF GoodDoc
<1> QED
  BY <1>9, <1>10 DEF new, A, t

(* Writing a document over a node's genesis file.                            *)
LEMMA WrittenIsUsable ==
  ASSUME UsableInv, NEW n \in Names, NEW file \in DocType \cup {Nil, Cut},
         IsDoc(file) => GoodDoc(file), genesis' = [genesis EXCEPT ![n] = file]
  PROVE  UsableInv'
BY DEF UsableInv, IsDoc

(* Every step keeps every genesis file usable, or cuts it.                   *)
LEMMA UsableKeep ==
  ASSUME FilesInv, [Next]_vars
  PROVE  UsableInv'
<1> USE DEF FilesInv, DiskInv
<1>1. CASE UNCHANGED genesis
  BY <1>1 DEF UsableInv
<1>2. CASE InitGenFiles
  <2>1. /\ pc = "init" /\ size \in Nat /\ NodeDir(at) \in Names /\ run \in Nat
        /\ genesis' = [genesis EXCEPT ![NodeDir(at)] = Doc(AccountsOf(size), {}, Nil)]
    BY <1>2, PositionIsIndex DEF InitGenFiles, FlagsInv, LoopInv, MakingDocs
  <2> QED
    BY <2>1, RunsDocIsGood, WrittenIsUsable
<1>3. CASE GenAppState /\ genesis' # genesis
  <2>1. /\ pc = "collect" /\ size \in Nat /\ NodeDir(at) \in Names /\ at \in Nat /\ run \in Nat
        /\ at \in at .. (size - 1)
        /\ genAccounts = AccountsOf(size) /\ CollectStdTxs(genesis[NodeDir(at)])
        /\ genesis' = [genesis EXCEPT
             ![NodeDir(at)] = Doc(genesis[NodeDir(at)].accounts, GenTxs, Now)]
    BY <1>3, PositionIsIndex DEF GenAppState, FlagsInv, LoopInv, MakingDocs
  <2>2. AccountsOf(size) \in SUBSET AccountType
    BY <2>1, RunsAccounts
  <2>3. genesis[NodeDir(at)].accounts = AccountsOf(size)
    BY <2>1, <2>2, DocIsDoc DEF DocsInv, FirstDoc
  <2>4. \A tx \in GenTxs : tx.acct \in Addrs(AccountsOf(size))
    BY <2>1, <2>3 DEF CollectStdTxs, Addrs
  <2>5. Now \in Nat \X Nat
    BY <2>1 DEF Now
  <2> QED
    BY <2>1, <2>3, <2>4, <2>5, GenTxsAreTxs, RunsDocIsGood, WrittenIsUsable
<1>4. CASE ExportGenesisFileWithTime
  <2>1. /\ pc = "export" /\ size \in Nat /\ NodeDir(at) \in Names /\ run \in Nat
        /\ genAccounts = AccountsOf(size) /\ Collected
        /\ appState = Doc(AccountsOf(size), GenTxs, <<run, 0>>)
        /\ genesis' = [genesis EXCEPT
             ![NodeDir(at)] = Doc(appState.accounts, appState.gentxs, <<run, MaxNodes>>)]
    BY <1>4, PositionIsIndex
    DEF ExportGenesisFileWithTime, GenTime, FlagsInv, LoopInv, DocsInv, MakingDocs
  <2>2. AccountsOf(size) \in SUBSET AccountType /\ <<run, 0>> \in Nat \X Nat
    BY <2>1, RunsAccounts
  <2>3. appState.accounts = AccountsOf(size) /\ appState.gentxs = GenTxs
    BY <2>1, <2>2, GenTxsAreTxs, DocIsDoc
  <2>4. <<run, MaxNodes>> \in Nat \X Nat
    BY <2>1, Bounds
  <2> QED
    BY <2>1, <2>3, <2>4, GenTxsAreTxs, RunsDocIsGood, WrittenIsUsable DEF Collected
<1>5. CASE FailAndRemoveAll
  BY <1>5, NoFilesAreFiles DEF FailAndRemoveAll, RemoveAll, UsableInv, IsDoc
<1>6. CASE FailOrKill /\ genesis' # genesis
  <2>1. NodeDir(at) \in Names /\ genesis' = [genesis EXCEPT ![NodeDir(at)] = Cut]
    BY <1>6, PositionIsIndex DEF FailOrKill
  <2> QED
    BY <2>1, WrittenIsUsable DEF IsDoc
<1>7. ASSUME NEW n \in Names, AddGenesisAccount(n) PROVE UsableInv'
  <2>1. PICK addr \in NamedAddrs(n) \ Addrs(genesis[n].accounts) :
          \E file \in {Cut} \cup
            {Doc(genesis[n].accounts \cup {acct}, genesis[n].gentxs,
                 IF genesis[n].time = Nil THEN <<run, n[2]>> ELSE genesis[n].time) :
               acct \in GenAccounts(addr)} :
            genesis' = [genesis EXCEPT ![n] = file]
    BY <1>7 DEF AddGenesisAccount
  <2>2. genesis[n] \in DocType /\ GoodDoc(genesis[n])
    BY <1>7 DEF AddGenesisAccount, UsableInv, IsDoc
  <2>3. addr \in Users \cup (Nat \X Nat)
    BY DEF NamedAddrs, KeysInv, Names, Indices
  <2>4. <<run, n[2]>> \in Nat \X Nat
    BY DEF FlagsInv, Names, Indices
  <2>5. CASE genesis' = [genesis EXCEPT ![n] = Cut]
    BY <2>5, WrittenIsUsable DEF IsDoc
  <2>6. ASSUME NEW acct \in GenAccounts(addr),
               genesis' = [genesis EXCEPT ![n] =
                 Doc(genesis[n].accounts \cup {acct}, genesis[n].gentxs,
                     IF genesis[n].time = Nil THEN <<run, n[2]>> ELSE genesis[n].time)]
        PROVE  UsableInv'
    BY <2>2, <2>3, <2>4, <2>6, OneMoreAccountIsGood, WrittenIsUsable
  <2> QED
    BY <2>1, <2>5, <2>6
<1> QED
  BY <1>1, <1>2, <1>3, <1>4, <1>5, <1>6, <1>7
  DEF Next, vars, disk, InitTestnet, InitializeNode, GenerateSaveCoinKey, WriteSeed,
      WriteGenTx

-----------------------------------------------------------------------------
(* The nodes that are done *)

(* A node that is done stays so while its files and the flags are the same.  *)
LEMMA NodeStaysDone ==
  ASSUME NEW i, NodeDone(i), run' = run, prefix' = prefix, startIP' = startIP,
         nodeKey'[NodeDir(i)] = nodeKey[NodeDir(i)],
         coinKey'[NodeDir(i)] = coinKey[NodeDir(i)],
         seed'[NodeDir(i)] = seed[NodeDir(i)], gentx'[NodeDir(i)] = gentx[NodeDir(i)]
  PROVE  NodeDone(i)'
BY DEF NodeDone, SignedTx, GetIP, NodeDir

(* Every step keeps the record of what this run has made.                    *)
LEMMA LoopKeep ==
  ASSUME FlagsInv, KeysInv, TxsInv, LoopInv, [Next]_vars
  PROVE  LoopInv'
<1> USE DEF LoopInv, MakingNode, MakingDocs, flags
<1>1. CASE UNCHANGED vars
  BY <1>1 DEF vars, disk, AccountsOf, NodeDone, SignedTx, GetIP, NodeDir
<1>2. CASE pc' = "ended"
  BY <1>2
<1>3. CASE InitTestnet
  <2>1. pc' = "node" /\ at' = 0 /\ genAccounts' = {}
    BY <1>3 DEF InitTestnet
  <2>2. AccountsOf(at)' = {} /\ 0 .. (at' - 1) = {}
    BY <2>1 DEF AccountsOf
  <2> QED
    BY <2>1, <2>2
<1> DEFINE Same(i) ==
      /\ nodeKey'[NodeDir(i)] = nodeKey[NodeDir(i)]
      /\ coinKey'[NodeDir(i)] = coinKey[NodeDir(i)]
      /\ seed'[NodeDir(i)] = seed[NodeDir(i)]
      /\ gentx'[NodeDir(i)] = gentx[NodeDir(i)]
<1>D. /\ \A i \in Indices : NodeDir(i) \in Names
      /\ \A i, j : NodeDir(i) = NodeDir(j) => i = j
      /\ UNCHANGED flags => \A i : NodeDir(i)' = NodeDir(i)
  BY DirsOfNodes, SameDirs DEF FlagsInv
<1>4. ASSUME pc \in {"node", "key", "seed"}, at' = at, UNCHANGED flags,
             \A i \in Indices : i # at => Same(i)
      PROVE  \A i \in 0 .. (at' - 1) : NodeDone(i)'
  <2>1. \A i \in 0 .. (at - 1) : i \in Indices /\ i # at
    BY <1>4, PositionIsIndex
  <2> QED
    BY <1>4, <2>1, NodeStaysDone
<1>5. CASE InitializeNode
  <2>1. pc = "node" /\ pc' = "key" /\ at' = at /\ UNCHANGED <<flags, genAccounts>>
        /\ \A i \in Indices : i # at => Same(i)
    BY <1>D, <1>5, PositionIsIndex DEF InitializeNode, KeysInv
  <2> QED
    BY <1>4, <2>1 DEF AccountsOf
<1>6. CASE GenerateSaveCoinKey
  <2>1. pc = "key" /\ pc' = "seed" /\ at' = at /\ UNCHANGED <<flags, genAccounts>>
        /\ (\A i \in Indices : i # at => Same(i)) /\ coinKey'[NodeDir(at)] = run
    BY <1>D, <1>6, PositionIsIndex DEF GenerateSaveCoinKey, KeysInv
  <2> QED
    BY <1>D, <1>4, <2>1 DEF AccountsOf
<1>7. CASE WriteSeed
  <2>1. /\ pc = "seed" /\ pc' = "gentx" /\ at' = at /\ UNCHANGED flags
        /\ (\A i \in Indices : i # at => Same(i)) /\ seed'[NodeDir(at)] = run
        /\ coinKey' = coinKey
        /\ genAccounts' = AccountsOf(at) \cup {Account(<<run, at>>, NodeCoins)}
    BY <1>D, <1>7, PositionIsIndex DEF WriteSeed, KeysInv
  <2>2. genAccounts' = AccountsOf(at + 1)
    BY <2>1, PositionIsIndex, OneMoreAccount
  <2>3. seed[NodeDir(at)]' = run' /\ coinKey[NodeDir(at)]' = run'
    BY <1>D, <2>1
  <2>4. genAccounts' = AccountsOf(at + 1)'
    BY <2>1, <2>2 DEF AccountsOf
  <2> QED
    BY <1>4, <2>1, <2>3, <2>4
<1>8. CASE WriteGenTx
  <2>1. /\ pc = "gentx" /\ at \in Nat /\ at \in Indices /\ size \in Nat
        /\ 0 .. (size - 1) \subseteq Indices
        /\ UNCHANGED <<flags, nodeKey, coinKey, seed, genAccounts>>
        /\ gentx' = [gentx EXCEPT ![NodeDir(at)] = SignedTx(at)]
        /\ \/ pc' = "node" /\ at' = at + 1 /\ at + 1 < size
           \/ pc' = "init" /\ at' = 0 /\ at + 1 = size
    BY <1>8, PositionIsIndex, LoopStaysInside
    DEF WriteGenTx, OverwriteTx, FlagsInv
  <2>2. ASSUME NEW i \in 0 .. at PROVE NodeDone(i)'
    <3>1. CASE i = at
      BY <1>D, <2>1, <3>1 DEF NodeDone, TxsInv, SignedTx, GetIP
    <3>2. CASE i # at
      <4>1. i \in 0 .. (at - 1) /\ i \in Indices
        BY <2>1, <3>2
      <4>2. gentx'[NodeDir(i)] = gentx[NodeDir(i)]
        BY <1>D, <2>1, <3>2, <4>1 DEF TxsInv
      <4> QED
        BY <2>1, <4>1, <4>2, NodeStaysDone
    <3> QED
      BY <3>1, <3>2
  <2>3. genAccounts' = {Account(<<run', i>>, NodeCoins) : i \in 0 .. at}
    <3>1. 0 .. ((at + 1) - 1) = 0 .. at
      BY <2>1
    <3> QED
      BY <2>1, <3>1 DEF AccountsOf
  <2>4. CASE pc' = "node"
    <3>1. at' = at + 1 /\ 0 .. (at' - 1) = 0 .. at
      BY <2>1, <2>4
    <3>2. genAccounts' = AccountsOf(at)'
      BY <2>3, <3>1 DEF AccountsOf
    <3> QED
      BY <2>2, <2>4, <3>1, <3>2
  <2>5. CASE pc' = "init"
    <3>1. size' = at + 1 /\ 0 .. (size' - 1) = 0 .. at
      BY <2>1, <2>5
    <3>2. genAccounts' = AccountsOf(size)'
      BY <2>3, <3>1 DEF AccountsOf
    <3> QED
      BY <2>2, <2>5, <3>1, <3>2
  <2> QED
    BY <2>1, <2>4, <2>5
<1>9. CASE UNCHANGED <<flags, nodeKey, coinKey, seed, gentx, genAccounts>>
           /\ pc \in MakingDocs /\ pc' \in MakingDocs \cup {"success", "refused"}
  BY <1>9 DEF AccountsOf, NodeDone, SignedTx, GetIP, NodeDir
<1>10. CASE InitGenFiles \/ GenAppState \/ ExportGenesisFileWithTime
  BY <1>9, <1>10
  DEF InitGenFiles, GenAppState, ExportGenesisFileWithTime, Loop
<1> QED
  BY <1>1, <1>2, <1>3, <1>5, <1>6, <1>7, <1>8, <1>10
  DEF Next, FailAndRemoveAll, RemoveAll, FailOrKill, AddGenesisAccount

-----------------------------------------------------------------------------
(* The genesis files of a run *)

(* What this run collects, and the documents it writes, do not change while  *)
(* it writes them.                                                           *)
LEMMA DocsAreFixed ==
  ASSUME UNCHANGED <<flags, gentx, genAccounts>>
  PROVE  GenTxs' = GenTxs /\ FirstDoc' = FirstDoc /\ LastDoc' = LastDoc
         /\ Collected' = Collected /\ \A i : NodeDir(i)' = NodeDir(i)
BY DEF flags, GenTxs, FirstDoc, LastDoc, Collected, NodeDir

(* Each node's file is the first document before it is collected.            *)
LEMMA CollectingFirstDoc ==
  ASSUME FilesInv, GenAppState
  PROVE  /\ pc = "collect" /\ run \in Nat /\ size \in Nat /\ at \in Nat /\ at < size
         /\ at \in Indices /\ 0 .. (size - 1) \subseteq Indices
         /\ genAccounts = AccountsOf(size) /\ genesis[NodeDir(at)] = FirstDoc
         /\ genesis[NodeDir(at)].accounts = genAccounts
         /\ \A i \in Indices : NodeDir(i) \in Names
         /\ \A i, j : NodeDir(i) = NodeDir(j) => i = j
<1>1. /\ pc = "collect" /\ run \in Nat /\ size \in Nat /\ at \in Nat /\ at < size
      /\ at \in Indices /\ 0 .. (size - 1) \subseteq Indices
      /\ genAccounts = AccountsOf(size)
      /\ \A i \in Indices : NodeDir(i) \in Names
      /\ \A i, j : NodeDir(i) = NodeDir(j) => i = j
  BY PositionIsIndex DEF FilesInv, FlagsInv, LoopInv, MakingDocs, GenAppState
<1>2. at \in at .. (size - 1)
  BY <1>1
<1>3. genesis[NodeDir(at)] = FirstDoc
  BY <1>1, <1>2 DEF FilesInv, DocsInv
<1>4. genAccounts \in SUBSET AccountType
  BY <1>1, RunsAccounts
<1> QED
  BY <1>1, <1>3, <1>4, DocIsDoc DEF FirstDoc

LEMMA InitWritesFirstDoc ==
  ASSUME FilesInv, InitGenFiles
  PROVE  DocsInv'
<1> USE DEF FilesInv, DiskInv
<1>1. /\ pc = "init" /\ at \in Nat /\ at \in Indices /\ size \in Nat
      /\ 0 .. (size - 1) \subseteq Indices
      /\ \A i \in Indices : NodeDir(i) \in Names
      /\ \A i, j : NodeDir(i) = NodeDir(j) => i = j
      /\ UNCHANGED <<flags, gentx, genAccounts, appState>>
      /\ genesis' = [genesis EXCEPT ![NodeDir(at)] = FirstDoc]
      /\ \/ pc' = "init" /\ at' = at + 1 /\ at + 1 < size
         \/ pc' = "collect" /\ at' = 0 /\ at + 1 = size
  BY PositionIsIndex, LoopStaysInside DEF InitGenFiles, FirstDoc, FlagsInv
<1>2. appState' = Nil /\ size' = size
  BY <1>1 DEF DocsInv, flags
<1>3. \A i \in 0 .. at : i \in Indices /\ genesis[NodeDir(i)]' = FirstDoc'
  <2>1. \A i \in 0 .. at : i \in Indices /\ (i = at \/ i \in 0 .. (at - 1))
    BY <1>1
  <2>2. \A i \in 0 .. (at - 1) : genesis[NodeDir(i)] = FirstDoc
    BY <1>1 DEF DocsInv
  <2> QED
    BY <1>1, <2>1, <2>2, DocsAreFixed DEF UsableInv
<1>4. CASE pc' = "init"
  <2>1. 0 .. (at' - 1) = 0 .. at
    BY <1>1, <1>4
  <2> QED
    BY <1>2, <1>3, <1>4, <2>1 DEF DocsInv, MakingNode
<1>5. CASE pc' = "collect"
  <2>1. at' .. (size' - 1) = 0 .. at /\ 0 .. (at' - 1) = {} /\ ~(at' > 0)
    BY <1>1, <1>2, <1>5
  <2> QED
    BY <1>2, <1>3, <1>5, <2>1 DEF DocsInv, MakingNode
<1> QED
  BY <1>1, <1>4, <1>5

LEMMA CollectKeepsDocs ==
  ASSUME FilesInv, GenAppState
  PROVE  DocsInv'
<1> USE DEF FilesInv, DiskInv
<1>1. CASE pc' = "refused"
  BY <1>1 DEF DocsInv, MakingNode
<1>2. CASE pc' # "refused"
  <2> DEFINE doc == Doc(genAccounts, GenTxs, Now)
  <2>1. /\ pc' = "export" /\ at' = at /\ UNCHANGED <<flags, gentx, genAccounts>>
        /\ CollectStdTxs(genesis[NodeDir(at)])
        /\ genesis' = [genesis EXCEPT ![NodeDir(at)] = doc]
        /\ appState' = IF appState = Nil THEN doc ELSE appState
    BY <1>2, CollectingFirstDoc DEF GenAppState
  <2>2. size' = size /\ run' = run
    BY <2>1 DEF flags
  <2>3. Collected
    BY <2>1, CollectingFirstDoc DEF Collected, CollectStdTxs, Addrs
  <2>4. appState' = Doc(genAccounts', GenTxs', <<run', 0>>)
    <3>1. CASE at = 0
      BY <2>1, <2>2, <3>1, CollectingFirstDoc, DocsAreFixed DEF DocsInv, Now
    <3>2. CASE at # 0
      <4>1. at > 0
        BY <3>2, CollectingFirstDoc
      <4>2. appState = Doc(genAccounts, GenTxs, <<run, 0>>)
        BY <4>1, CollectingFirstDoc DEF DocsInv
      <4>3. genAccounts \in SUBSET AccountType /\ <<run, 0>> \in Nat \X Nat
        BY CollectingFirstDoc, RunsAccounts
      <4>4. appState # Nil
        BY <4>2, <4>3, GenTxsAreTxs, DocIsDoc
      <4> QED
        BY <2>1, <2>2, <4>2, <4>4, DocsAreFixed
    <3> QED
      BY <3>1, <3>2
  <2>5. \A i \in 0 .. (at' - 1) : genesis[NodeDir(i)]' = LastDoc'
    <3>1. \A i \in 0 .. (at - 1) : i \in Indices /\ i # at /\ genesis[NodeDir(i)] = LastDoc
      BY CollectingFirstDoc DEF DocsInv
    <3> QED
      BY <2>1, <3>1, CollectingFirstDoc, DocsAreFixed DEF UsableInv
  <2>6. \A i \in (at' + 1) .. (size' - 1) : genesis[NodeDir(i)]' = FirstDoc'
    <3>1. \A i \in (at + 1) .. (size - 1) :
             i \in Indices /\ i # at /\ i \in at .. (size - 1)
      BY CollectingFirstDoc
    <3>2. \A i \in (at + 1) .. (size - 1) : genesis[NodeDir(i)] = FirstDoc
      BY <3>1, CollectingFirstDoc DEF DocsInv
    <3> QED
      BY <2>1, <2>2, <3>1, <3>2, CollectingFirstDoc, DocsAreFixed DEF UsableInv
  <2> QED
    BY <2>1, <2>3, <2>4, <2>5, <2>6, DocsAreFixed DEF DocsInv, MakingNode
<1> QED
  BY <1>1, <1>2

LEMMA ExportWritesLastDoc ==
  ASSUME FilesInv, ExportGenesisFileWithTime
  PROVE  DocsInv'
<1> USE DEF FilesInv, DiskInv
<1>1. /\ pc = "export" /\ at \in Nat /\ at \in Indices /\ size \in Nat /\ run \in Nat
      /\ 0 .. (size - 1) \subseteq Indices /\ genAccounts = AccountsOf(size)
      /\ \A i \in Indices : NodeDir(i) \in Names
      /\ \A i, j : NodeDir(i) = NodeDir(j) => i = j
      /\ UNCHANGED <<flags, gentx, genAccounts, appState>>
      /\ genesis' = [genesis EXCEPT
           ![NodeDir(at)] = Doc(appState.accounts, appState.gentxs, <<run, MaxNodes>>)]
      /\ \/ pc' = "collect" /\ at' = at + 1 /\ at + 1 < size
         \/ pc' = "success" /\ at' = 0 /\ at + 1 = size
  BY PositionIsIndex, LoopStaysInside
  DEF ExportGenesisFileWithTime, GenTime, FlagsInv, LoopInv, MakingDocs
<1>2. appState = Doc(genAccounts, GenTxs, <<run, 0>>) /\ Collected /\ size' = size
      /\ run' = run
  BY <1>1 DEF DocsInv, flags
<1>3. appState.accounts = genAccounts /\ appState.gentxs = GenTxs
  <2>1. genAccounts \in SUBSET AccountType /\ <<run, 0>> \in Nat \X Nat
    BY <1>1, RunsAccounts
  <2> QED
    BY <1>2, <2>1, GenTxsAreTxs, DocIsDoc
<1>4. genesis' = [genesis EXCEPT ![NodeDir(at)] = LastDoc]
  BY <1>1, <1>3 DEF LastDoc
<1>5. \A i \in 0 .. at : genesis[NodeDir(i)]' = LastDoc'
  <2>1. \A i \in 0 .. at : i \in Indices /\ (i = at \/ i \in 0 .. (at - 1))
    BY <1>1
  <2>2. \A i \in 0 .. (at - 1) : genesis[NodeDir(i)] = LastDoc
    BY <1>1 DEF DocsInv
  <2> QED
    BY <1>1, <1>4, <2>1, <2>2, DocsAreFixed DEF UsableInv
<1>6. Collected' /\ appState' = Doc(genAccounts', GenTxs', <<run', 0>>)
  BY <1>1, <1>2, DocsAreFixed
<1>7. CASE pc' = "collect"
  <2>1. 0 .. (at' - 1) = 0 .. at /\ at' # 0
        /\ at' .. (size' - 1) = (at + 1) .. (size - 1)
    BY <1>1, <1>2, <1>7
  <2>2. \A i \in (at + 1) .. (size - 1) :
          i \in Indices /\ i # at /\ genesis[NodeDir(i)] = FirstDoc
    BY <1>1 DEF DocsInv
  <2>3. \A i \in (at + 1) .. (size - 1) : genesis[NodeDir(i)]' = FirstDoc'
    BY <1>1, <1>4, <2>2, DocsAreFixed DEF UsableInv
  <2> QED
    BY <1>5, <1>6, <1>7, <2>1, <2>3 DEF DocsInv, MakingNode
<1>8. CASE pc' = "success"
  <2>1. 0 .. (size' - 1) = 0 .. at
    BY <1>1, <1>2, <1>8
  <2> QED
    BY <1>5, <1>6, <1>8, <2>1 DEF DocsInv, MakingNode
<1> QED
  BY <1>1, <1>7, <1>8

(* Every step keeps the record of the documents.                             *)
LEMMA DocsKeep ==
  ASSUME FilesInv, [Next]_vars
  PROVE  DocsInv'
<1>1. CASE UNCHANGED vars
  BY <1>1 DEF FilesInv, vars, disk, flags, DocsInv, FirstDoc, LastDoc, Collected, GenTxs,
         NodeDir
<1>2. CASE pc' = "ended"
  BY <1>2 DEF DocsInv, MakingNode
<1>3. CASE InitTestnet
  BY <1>3 DEF InitTestnet, DocsInv
<1>4. CASE InitializeNode \/ GenerateSaveCoinKey \/ WriteSeed
  BY <1>4
  DEF InitializeNode, GenerateSaveCoinKey, WriteSeed, FilesInv, DocsInv, MakingNode
<1>5. CASE WriteGenTx
  <2>1. size \in 1 .. MaxNodes /\ at \in 0 .. (size - 1) /\ appState = Nil
    BY <1>5 DEF WriteGenTx, FilesInv, FlagsInv, DocsInv, MakingNode
  <2>2. appState' = Nil /\ (pc' = "node" \/ (pc' = "init" /\ at' = 0))
    BY <1>5, <2>1, LoopStaysInside DEF WriteGenTx
  <2>3. at' = 0 => 0 .. (at' - 1) = {}
    <3>1. 0 .. (0 - 1) = {}
      OBVIOUS
    <3> QED
      BY ONLY <3>1
  <2> QED
    BY <2>2, <2>3 DEF DocsInv, MakingNode
<1> QED
  BY <1>1, <1>2, <1>3, <1>4, <1>5, InitWritesFirstDoc, CollectKeepsDocs,
     ExportWritesLastDoc
  DEF Next, FailAndRemoveAll, RemoveAll, FailOrKill, AddGenesisAccount

-----------------------------------------------------------------------------
(* The invariant *)

(* A run is refused when a transaction has no account in the genesis; those  *)
(* of its own nodes have one.                                                *)
LEMMA RefusedKeep ==
  ASSUME FilesInv, [Next]_vars
  PROVE  RefusedOnlyForLeftovers'
<1>1. CASE UNCHANGED vars
  BY <1>1 DEF FilesInv, vars, disk, flags, RefusedOnlyForLeftovers
<1>2. CASE pc' # "refused"
  BY <1>2 DEF RefusedOnlyForLeftovers
<1>3. CASE GenAppState /\ pc' = "refused"
  <2>1. ~CollectStdTxs(genesis[NodeDir(at)]) /\ UNCHANGED <<flags, gentx>>
    BY <1>3 DEF GenAppState
  <2>2. PICK tx \in GenTxs : ~\E a \in genAccounts : a.addr = tx.acct /\ a.coins >= SelfDelegation
    BY <1>3, <2>1, CollectingFirstDoc DEF CollectStdTxs
  <2>3. PICK n \in Names : tx = gentx[n] /\ gentx[n] # Nil
    BY DEF GenTxs
  <2>4. n[1] # prefix \/ n[2] >= size
    <3>1. SUFFICES ASSUME n[1] = prefix, ~(n[2] >= size) PROVE FALSE
      OBVIOUS
    <3> DEFINE i == n[2]
    <3>2. i \in 0 .. (size - 1) /\ run \in Nat /\ size \in Nat /\ n = NodeDir(i)
      BY <1>3, <3>1, CollectingFirstDoc DEF Names, Indices, NodeDir
    <3> HIDE DEF i
    <3>3. gentx[NodeDir(i)] = SignedTx(i)
      BY <1>3, <3>2, CollectingFirstDoc DEF FilesInv, LoopInv, MakingDocs, NodeDone
    <3>4. tx.acct = <<run, i>>
      BY <2>3, <3>2, <3>3 DEF SignedTx
    <3>5. Account(<<run, i>>, NodeCoins) \in genAccounts
      BY <1>3, <3>2, CollectingFirstDoc DEF AccountsOf
    <3>6. /\ Account(<<run, i>>, NodeCoins).addr = <<run, i>>
          /\ Account(<<run, i>>, NodeCoins).coins >= SelfDelegation
      BY DEF Account, NodeCoins, SelfDelegation
    <3> QED
      BY <2>2, <3>4, <3>5, <3>6
  <2> QED
    BY <2>1, <2>3, <2>4 DEF RefusedOnlyForLeftovers, flags
<1> QED
  BY <1>1, <1>2, <1>3
  DEF Next, InitTestnet, InitializeNode, GenerateSaveCoinKey, WriteSeed, WriteGenTx,
      InitGenFiles, ExportGenesisFileWithTime, FailAndRemoveAll, RemoveAll, FailOrKill,
      AddGenesisAccount, Loop

(* FilesInv holds of the genesis files, whatever is run on them and wherever *)
(* it stops.                                                                 *)
THEOREM FilesInvariant == Spec => []FilesInv
<1>1. Init => FilesInv
  <2>1. SUFFICES ASSUME Init PROVE FilesInv
    OBVIOUS
  <2>2. FlagsInv
    BY <2>1 DEF Init, FlagsInv, Pcs
  <2>3. DiskInv
    BY <2>1, NoFilesAreFiles DEF Init, DiskInv, KeysInv, TxsInv, UsableInv, IsDoc
  <2>4. LoopInv /\ DocsInv /\ RefusedOnlyForLeftovers
    BY <2>1
    DEF Init, LoopInv, DocsInv, RefusedOnlyForLeftovers, MakingNode, MakingDocs
  <2> QED
    BY <2>2, <2>3, <2>4 DEF FilesInv
<1>2. FilesInv /\ [Next]_vars => FilesInv'
  BY FlagsKeep, KeysKeep, TxsKeep, UsableKeep, LoopKeep, DocsKeep, RefusedKeep
  DEF FilesInv, DiskInv
<1> QED
  BY <1>1, <1>2, PTL DEF Spec

-----------------------------------------------------------------------------
(* What the runs check *)

LEMMA SuccessIsOneGenesis ==
  ASSUME FilesInv
  PROVE  OneGenesis
<1>1. SUFFICES ASSUME pc = "success", NEW i \in 0 .. (size - 1), NEW j \in 0 .. (size - 1)
               PROVE  IsDoc(genesis[NodeDir(i)]) /\ genesis[NodeDir(i)] = genesis[NodeDir(j)]
  BY DEF OneGenesis
<1>2. genesis[NodeDir(i)] = LastDoc /\ genesis[NodeDir(j)] = LastDoc
  BY <1>1 DEF FilesInv, DocsInv
<1>3. /\ genAccounts = AccountsOf(size) /\ size \in Nat /\ run \in Nat
      /\ <<run, MaxNodes>> \in Nat \X Nat
  BY <1>1, PositionIsIndex, Bounds DEF FilesInv, LoopInv, FlagsInv
<1>4. genAccounts \in SUBSET AccountType
  BY <1>3, RunsAccounts
<1>5. IsDoc(LastDoc)
  BY <1>3, <1>4, GenTxsAreTxs, DocIsDoc DEF LastDoc, FilesInv, DiskInv
<1> QED
  BY <1>2, <1>5

(* All nodes of a testnet that was initialized successfully have the same    *)
(* genesis document, whatever earlier runs have left and wherever they       *)
(* stopped: the first state that is collected is written for all, with one   *)
(* time (testnet.go, collectGenFiles).                                       *)
THEOREM SuccessMeansOneGenesis == Spec => []OneGenesis
BY FilesInvariant, SuccessIsOneGenesis, PTL

(* A run is refused for what is in the directory only if an earlier run of   *)
(* more nodes or with another prefix has left transactions there             *)
(* (testnet.go, GenAppStateFromConfig on the directory gentxs).              *)
THEOREM RefusalNeedsLeftovers == Spec => []RefusedOnlyForLeftovers
BY FilesInvariant, PTL DEF FilesInv

LEMMA DocsAreUsable ==
  ASSUME FilesInv
  PROVE  GenesisUsable
<1>1. SUFFICES ASSUME NEW n \in Names, IsDoc(genesis[n])
               PROVE  LET accounts == genesis[n].accounts
                      IN /\ Cardinality(Addrs(accounts)) = Cardinality(accounts)
                         /\ \A tx \in genesis[n].gentxs : tx.acct \in Addrs(accounts)
                         /\ \A a \in accounts :
                              a.vesting > 0 => a.vesting <= a.coins /\ a.start < a.end
  BY DEF GenesisUsable
<1> DEFINE A == genesis[n].accounts
           f == [a \in A |-> a.addr]
<1>2. GoodDoc(genesis[n])
  BY <1>1 DEF FilesInv, DiskInv, UsableInv
<1>3. IsFiniteSet(A) /\ \A a, b \in A : a.addr = b.addr => a = b
  BY <1>2 DEF GoodDoc
<1> HIDE DEF A
<1>4. f \in Surjection(A, Addrs(A))
  BY DEF Addrs, Surjection
<1>5. \A a, b \in A : f[a] = f[b] => a = b
  BY <1>3
<1> HIDE DEF f
<1>6. f \in Injection(A, Addrs(A))
  BY <1>4, <1>5 DEF Surjection, Injection, IsInjective
<1>7. Cardinality(Addrs(A)) = Cardinality(A)
  BY <1>3, <1>4, <1>6, FS_Surjection
<1> QED
  BY <1>2, <1>7 DEF GoodDoc, A

(* Every complete genesis file is consistent: an address has one account,    *)
(* the signers of the transactions have theirs, and what is vested is        *)
(* released (genaccounts.go, testnet.go).                                    *)
THEOREM EveryGenesisIsUsable == Spec => []GenesisUsable
BY FilesInvariant, DocsAreUsable, PTL

(* Division with remainder, for a divisor that is not a number.               *)
LEMMA DivMod ==
  ASSUME NEW n \in Nat, NEW B \in Nat \ {0}
  PROVE  \E p \in Int : n = B * p + (n % B)
<1>1. n \div B \in Int /\ n = B * (n \div B) + (n % B)
  OBVIOUS
<1> QED
  BY <1>1

(* Successive addresses differ as long as they are less than a byte apart.   *)
LEMMA AddressesDiffer ==
  ASSUME NEW B \in Nat \ {0}, NEW s \in Nat, NEW i \in Nat, NEW j \in Nat,
         i - j < B, j - i < B, (s + i) % B = (s + j) % B
  PROVE  i = j
<1> DEFINE m == s + i
           n == s + j
<1>1. m \in Nat /\ n \in Nat /\ m % B \in Int /\ n % B = m % B /\ i - j = m - n
  OBVIOUS
<1> HIDE DEF m, n
<1>2. PICK p \in Int : m = B * p + (m % B)
  BY <1>1, DivMod
<1>3. PICK q \in Int : n = B * q + (n % B)
  BY <1>1, DivMod
<1>4. n = B * q + (m % B)
  BY <1>1, <1>3
<1>5. i - j = B * p - B * q
  BY <1>1, <1>2, <1>4
<1>6. B * p - B * q = B * (p - q)
  OBVIOUS
<1>7. p - q >= 1 => B * (p - q) >= B
  OBVIOUS
<1>8. p - q <= -1 => B * (p - q) <= -B
  OBVIOUS
<1>9. p = q
  BY <1>5, <1>6, <1>7, <1>8
<1> QED
  BY <1>5, <1>9

(* After a successful run the directory holds the transactions of its nodes  *)
(* and no others: an older one would have no account.                        *)
LEMMA SuccessHasOwnTxs ==
  ASSUME FilesInv, pc = "success"
  PROVE  /\ size \in Nat \ {0} /\ run \in Nat /\ startIP \in Nat \cup {HostIP}
         /\ genesis[NodeDir(0)] = LastDoc
         /\ genesis[NodeDir(0)].gentxs = GenTxs /\ genesis[NodeDir(0)].accounts = AccountsOf(size)
         /\ GenTxs = {SignedTx(i) : i \in 0 .. (size - 1)}
         /\ \A i \in 0 .. (size - 1) :
              /\ NodeDone(i) /\ SignedTx(i).acct = <<run, i>>
              /\ SignedTx(i).signer = <<coinKey[NodeDir(i)], i>>
              /\ SignedTx(i).node = <<nodeKey[NodeDir(i)], i>> /\ SignedTx(i).ip = GetIP(i)
              /\ <<run, i>> \in Addrs(AccountsOf(size))
<1> USE DEF FilesInv, DiskInv
<1>1. /\ size \in Nat \ {0} /\ run \in Nat /\ startIP \in StartIPs \cup {HostIP}
      /\ 0 .. (size - 1) \subseteq Indices /\ 0 \in 0 .. (size - 1)
      /\ <<run, MaxNodes>> \in Nat \X Nat /\ prefix \in Prefixes
      /\ \A i \in Indices : NodeDir(i) \in Names
  BY PositionIsIndex, Bounds DEF FlagsInv
<1>2. genesis[NodeDir(0)] = LastDoc /\ Collected
  BY <1>1 DEF DocsInv
<1>3. genAccounts = AccountsOf(size) /\ \A i \in 0 .. (size - 1) : NodeDone(i)
  BY DEF LoopInv
<1>4. /\ genAccounts \in SUBSET AccountType
      /\ Addrs(genAccounts) = {<<run, i>> : i \in 0 .. (size - 1)}
  BY <1>1, <1>3, RunsAccounts
<1>5. genesis[NodeDir(0)].gentxs = GenTxs /\ genesis[NodeDir(0)].accounts = AccountsOf(size)
  BY <1>1, <1>2, <1>3, <1>4, GenTxsAreTxs, DocIsDoc DEF LastDoc
<1>6. \A i \in 0 .. (size - 1) :
        /\ SignedTx(i) # Nil /\ SignedTx(i).acct = <<run, i>>
        /\ SignedTx(i).signer = <<coinKey[NodeDir(i)], i>>
        /\ SignedTx(i).node = <<nodeKey[NodeDir(i)], i>> /\ SignedTx(i).ip = GetIP(i)
  BY <1>1, SignedTxIsTx
<1>7. ASSUME NEW tx \in GenTxs PROVE tx \in {SignedTx(i) : i \in 0 .. (size - 1)}
  <2>1. PICK n \in Names : tx = gentx[n] /\ gentx[n] # Nil
    BY DEF GenTxs
  <2>2. PICK j \in 0 .. (size - 1) : tx.acct = <<run, j>>
    BY <1>2, <1>4 DEF Collected
  <2>3. tx.acct[1] = run /\ tx.acct[2] = j
    BY <2>2
  <2>4. n[1] = prefix /\ n[2] = j
    BY <2>1, <2>3 DEF TxsInv
  <2>5. n = NodeDir(j)
    BY <2>4 DEF Names, NodeDir
  <2> QED
    BY <1>3, <2>1, <2>5 DEF NodeDone
<1>8. ASSUME NEW i \in 0 .. (size - 1) PROVE SignedTx(i) \in GenTxs
  BY <1>1, <1>3, <1>6 DEF GenTxs, NodeDone
<1> QED
  BY <1>1, <1>2, <1>3, <1>4, <1>5, <1>6, <1>7, <1>8, Bounds

LEMMA KeysFitOnSuccess ==
  ASSUME FilesInv
  PROVE  KeysFit
<1>1. SUFFICES ASSUME pc = "success"
               PROVE  /\ Cardinality(genesis[NodeDir(0)].gentxs) = size
                      /\ \A i \in 0 .. (size - 1) : \E tx \in genesis[NodeDir(0)].gentxs :
                           /\ tx.node = <<nodeKey[NodeDir(i)], i>>
                           /\ tx.acct = <<coinKey[NodeDir(i)], i>> /\ tx.signer = tx.acct
                           /\ seed[NodeDir(i)] = coinKey[NodeDir(i)]
                           /\ tx.acct \in Addrs(genesis[NodeDir(0)].accounts)
                      /\ \A t, u \in genesis[NodeDir(0)].gentxs :
                           t.ip = u.ip /\ t # u =>
                             \/ startIP = HostIP
                             \/ t.acct[2] - u.acct[2] >= ByteSize
                             \/ u.acct[2] - t.acct[2] >= ByteSize
  BY DEF KeysFit
<1> DEFINE S == 0 .. (size - 1)
           txs == genesis[NodeDir(0)].gentxs
           f == [i \in S |-> SignedTx(i)]
<1>2. txs = {SignedTx(i) : i \in S} /\ size \in Nat \ {0}
  BY <1>1, SuccessHasOwnTxs
<1>3. Cardinality(txs) = size
  <2>1. IsFiniteSet(S) /\ Cardinality(S) = size
    BY <1>2, FS_Interval
  <2>2. \A i, j \in S : SignedTx(i) = SignedTx(j) => i = j
    <3>1. \A i \in S : SignedTx(i).acct = <<run, i>>
      BY <1>1, SuccessHasOwnTxs
    <3> QED
      BY <3>1
  <2> HIDE DEF S, txs
  <2>3. f \in Surjection(S, txs)
    BY <1>2 DEF Surjection
  <2>4. f \in Injection(S, txs)
    BY <1>2, <2>2 DEF Injection, IsInjective
  <2> HIDE DEF f
  <2> QED
    BY <2>1, <2>3, <2>4, FS_Surjection
<1>4. ASSUME NEW i \in S
      PROVE  \E tx \in txs :
               /\ tx.node = <<nodeKey[NodeDir(i)], i>>
               /\ tx.acct = <<coinKey[NodeDir(i)], i>> /\ tx.signer = tx.acct
               /\ seed[NodeDir(i)] = coinKey[NodeDir(i)]
               /\ tx.acct \in Addrs(genesis[NodeDir(0)].accounts)
  <2>1. /\ SignedTx(i) \in txs /\ SignedTx(i).node = <<nodeKey[NodeDir(i)], i>>
        /\ SignedTx(i).signer = <<coinKey[NodeDir(i)], i>>
        /\ SignedTx(i).acct = <<run, i>>
        /\ coinKey[NodeDir(i)] = run /\ seed[NodeDir(i)] = run
        /\ <<run, i>> \in Addrs(genesis[NodeDir(0)].accounts)
    BY <1>1, <1>2, SuccessHasOwnTxs DEF NodeDone
  <2> QED
    BY <2>1
<1>5. ASSUME NEW t \in txs, NEW u \in txs, t.ip = u.ip, t # u, startIP # HostIP
      PROVE  t.acct[2] - u.acct[2] >= ByteSize \/ u.acct[2] - t.acct[2] >= ByteSize
  <2>1. PICK i \in S : t = SignedTx(i)
    BY <1>2
  <2>2. PICK j \in S : u = SignedTx(j)
    BY <1>2
  <2>3. startIP \in Nat /\ t.ip = (startIP + i) % ByteSize /\ u.ip = (startIP + j) % ByteSize
    BY <1>1, <1>5, <2>1, <2>2, SuccessHasOwnTxs DEF GetIP
  <2>4. t.acct[2] = i /\ u.acct[2] = j
    <3>1. t.acct = <<run, i>> /\ u.acct = <<run, j>>
      BY <1>1, <2>1, <2>2, SuccessHasOwnTxs
    <3> QED
      BY <3>1
  <2>5. i \in Nat /\ j \in Nat /\ ByteSize \in Nat \ {0} /\ i # j
    BY <1>2, <1>5, <2>1, <2>2, Bounds
  <2>6. ~(i - j < ByteSize /\ j - i < ByteSize)
    BY <1>5, <2>3, <2>5, AddressesDiffer
  <2> QED
    BY <2>4, <2>5, <2>6
<1> QED
  BY <1>3, <1>4, <1>5

(* The validators of a testnet that was initialized successfully are the     *)
(* nodes on disk, with the keys and seeds that are there, and their          *)
(* addresses differ unless no starting address was given or the nodes are a  *)
(* whole byte apart (testnet.go).                                            *)
THEOREM SuccessMeansKeysFit == Spec => []KeysFit
BY FilesInvariant, KeysFitOnSuccess, PTL

=============================================================================
