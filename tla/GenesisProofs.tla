---------------------------- MODULE GenesisProofs ----------------------------
(***************************************************************************)
(* The chain over exports, imports and queries, for all values of the       *)
(* constants. GenesisInv carries the keeper's invariants over an import,    *)
(* which replaces the store and wasmer's directory together, and says of    *)
(* the kept version of the store what they say of the last one: it is a     *)
(* good store over TODAY's directory, and today's store extends it. Of what *)
(* users have seen, on this chain or on the ones before, it says that       *)
(* today's store has it, up to what JSON makes of an init message.          *)
(***************************************************************************)
EXTENDS Querier, KeeperStepProofs, FiniteSetTheorems

CounterInv(st) == st.lastCodeID # 1

(* The infos of an imported store.                                           *)
JsonInfos(contracts) == [a \in DOMAIN contracts |-> JsonInfo(contracts[a])]

VersionInv ==
  /\ StoreInv(version, wasmDir)
  /\ Ledger!Extends(version.codes, committed.codes)
  /\ Ledger!Extends(version.contracts, committed.contracts)

(* st holds, up to what JSON changes, what the users have seen, old.         *)
Holds(st, old) ==
  /\ Ledger!Extends(old.codes, st.codes)
  /\ \A a \in DOMAIN old.contracts :
       /\ a \in DOMAIN st.contracts /\ old.contracts[a] \in ContractInfo
       /\ JsonInfo(old.contracts[a]) = JsonInfo(st.contracts[a])
SeenInv == Holds(committed, seen) /\ Holds(version, seen)

GenesisInv ==
  /\ KeeperInv /\ LedgerInv /\ VersionInv /\ SeenInv
  /\ CounterInv(committed) /\ CounterInv(store) /\ CounterInv(version)
  /\ imports \in Nat /\ (imports = 0 => AddressInv)

-----------------------------------------------------------------------------
(* Export and import *)

(* An info keeps its code and creator in JSON, and a second passage changes  *)
(* nothing more.                                                             *)
LEMMA JsonInfoKeeps ==
  ASSUME NEW info \in ContractInfo
  PROVE  /\ JsonInfo(info) \in ContractInfo
         /\ JsonInfo(info).code = info.code /\ JsonInfo(info).creator = info.creator
         /\ info.initMsg \in Utf8 => JsonInfo(info).initMsg = info.initMsg
         /\ JsonInfo(JsonInfo(info)) = JsonInfo(info)
<1>1. JsonMsg(info.initMsg) \in InitMsgs
  BY JsonStringsAreUtf8 DEF ContractInfo, JsonMsg
<1>2. JsonMsg(JsonMsg(info.initMsg)) = JsonMsg(info.initMsg)
  BY JsonStringsAreUtf8 DEF JsonMsg
<1>3. info.initMsg \in Utf8 => JsonMsg(info.initMsg) = info.initMsg
  BY DEF JsonMsg
<1> QED
  BY <1>1, <1>2, <1>3 DEF ContractInfo, JsonInfo

(* The document holds all codes of a good store, as a sequence.              *)
LEMMA ExportIsComplete ==
  ASSUME NEW st, StoreInv(st, wasmDir)
  PROVE  /\ ~ExportPanics(st)
         /\ LastExported(st) \in Nat
         /\ DOMAIN st.codes = 1 .. LastExported(st)
         /\ ExportGenesis(st).codes = st.codes
         /\ ExportGenesis(st).contracts = st.contracts
         /\ ExportGenesis(st).state = [a \in DOMAIN st.contracts |-> st.state[a]]
         /\ Len(ExportGenesis(st).codes) = LastExported(st)
<1>1. LastExported(st) \in Nat /\ DOMAIN st.codes = 1 .. LastExported(st)
  BY DEF LastExported, NextID, StoreInv, StoreOK, StoreShape
<1>2. ~ExportPanics(st)
  BY <1>1 DEF ExportPanics, StoreInv
<1>3. st.codes = [i \in 1 .. LastExported(st) |-> st.codes[i]]
  BY <1>1 DEF StoreInv, StoreOK, IsPartialMap
<1>4. /\ ExportGenesis(st).codes = [i \in 1 .. LastExported(st) |-> st.codes[i]]
      /\ ExportGenesis(st).contracts = st.contracts
      /\ ExportGenesis(st).state = [a \in DOMAIN st.contracts |-> st.state[a]]
  BY DEF ExportGenesis
<1>5. Len([i \in 1 .. LastExported(st) |-> st.codes[i]]) = LastExported(st)
  BY <1>1
<1> QED
  BY <1>1, <1>2, <1>3, <1>4, <1>5

(* A store that an import makes of st, over the directory it fills.          *)
Imported(new, dir, st, data) ==
  /\ StoreInv(new, dir) /\ dir \subseteq Wasms
  /\ new.codes = st.codes /\ new.lastCodeID = st.lastCodeID
  /\ new.contracts = JsonInfos(st.contracts)
  /\ \A a \in DOMAIN st.contracts : new.state[a] = data[a]

(* InitGenesis makes a good store over the directory it fills.               *)
LEMMA ImportIsGood ==
  ASSUME NEW st, StoreInv(st, wasmDir), CounterInv(st),
         NEW data \in [DOMAIN st.contracts -> ContractState]
  PROVE  LET gen == ExportGenesis(st)
         IN  Imported(InitGenesis(gen, data, [accts |-> st.accts, bal |-> st.bal]),
                      {gen.codes[i].hash : i \in DOMAIN gen.codes}, st, data)
<1> DEFINE gen == ExportGenesis(st)
           new == InitGenesis(gen, data, [accts |-> st.accts, bal |-> st.bal])
           n == LastExported(st)
           dir == {gen.codes[i].hash : i \in DOMAIN gen.codes}
           infos == [a \in DOMAIN st.contracts |-> JsonInfo(st.contracts[a])]
           state == [a \in ContractAddrs |-> IF a \in DOMAIN data THEN data[a]
                                             ELSE [k \in Keys |-> Nil]]
<1>1. /\ n \in Nat /\ DOMAIN st.codes = 1 .. n /\ gen.codes = st.codes
      /\ gen.contracts = st.contracts /\ Len(gen.codes) = n
  BY ExportIsComplete
<1>2. CounterAfter(n) = st.lastCodeID
  BY DEF CounterAfter, LastExported, NextID, CounterInv, StoreInv, StoreOK, StoreShape
<1>3. st.codes = [i \in 1 .. n |-> st.codes[i]]
  BY <1>1 DEF StoreInv, StoreOK, IsPartialMap
<1>4. new = [lastCodeID |-> st.lastCodeID, lastInstanceID |-> Nil, codes |-> st.codes,
             contracts |-> infos, state |-> state, accts |-> st.accts, bal |-> st.bal]
  BY <1>1, <1>2, <1>3 DEF InitGenesis, NumberedAnew
<1>5. state \in [ContractAddrs -> ContractState]
  BY DEF ContractState
<1>6. \A a \in DOMAIN st.contracts : a \in ContractAddrs /\ state[a] = data[a]
  BY DEF StoreInv, StoreOK, IsPartialMap
<1>7. /\ DOMAIN infos = DOMAIN st.contracts /\ infos = [x \in DOMAIN infos |-> infos[x]]
       /\ \A a \in DOMAIN infos :
            /\ a \in ContractAddrs /\ a \in st.accts
            /\ infos[a] \in ContractInfo /\ infos[a].code \in DOMAIN st.codes
  BY JsonInfoKeeps DEF StoreInv, StoreOK, IsPartialMap
<1> HIDE DEF new, gen, state, n, infos
<1>8. dir \subseteq Wasms /\ \A i \in DOMAIN st.codes : st.codes[i].hash \in dir
  <2>1. dir = {st.codes[i].hash : i \in DOMAIN st.codes}
    BY <1>1
  <2>2. \A i \in DOMAIN st.codes : st.codes[i].hash \in Wasms
    BY DEF StoreInv, StoreOK, IsPartialMap, CodeInfo
  <2> QED
    BY <2>1, <2>2
<1> HIDE DEF dir
<1>9. ShapeWith(new, st.codes, infos)
  BY <1>4, <1>5 DEF ShapeWith, StoreInv, StoreOK, StoreShape
<1>10. /\ new.codes = st.codes /\ new.contracts = infos /\ new.accts = st.accts
      /\ new.lastCodeID = st.lastCodeID /\ new.state = state
  BY <1>4
<1>11. StoreOK(new)
  BY <1>9, <1>10, <1>7 DEF StoreInv, StoreOK, StoreShape, ShapeWith, IsPartialMap
<1>12. StoreInv(new, dir)
  BY <1>8, <1>10, <1>7, <1>11 DEF StoreInv
<1> QED
  BY <1>6, <1>8, <1>10, <1>12 DEF new, gen, dir, infos, JsonInfos, Imported

(* What JSON strings keep: a key that is UTF-8 and not the replacement       *)
(* character's keeps its value if that is UTF-8, or stays without one.       *)
LEMMA JsonKeepsText ==
  ASSUME NEW s \in ContractState, NEW t \in ThroughJson(s),
         NEW k \in (Keys \cap Utf8) \ {MangledKey}, s[k] \in Utf8 \cup {Nil}
  PROVE  t[k] = s[k]
<1> DEFINE from == {j \in Keys : s[j] # Nil /\ JsonKey(j) = k}
<1>1. IF from = {} THEN t[k] = Nil ELSE \E j \in from : t[k] = JsonVal(s[j])
  BY DEF ThroughJson
<1>2. from \subseteq {k}
  BY DEF JsonKey
<1>3. CASE s[k] = Nil
  BY <1>1, <1>2, <1>3
<1>4. CASE s[k] # Nil
  <2>1. k \in from
    BY <1>4 DEF JsonKey
  <2>2. JsonVal(s[k]) = s[k]
    BY <1>4 DEF JsonVal
  <2> QED
    BY <1>1, <1>2, <2>1, <2>2
<1> QED
  BY <1>3, <1>4

(* What an import starts the new chain from, in terms of the exported store. *)
LEMMA ImportedStore ==
  ASSUME NEW st, StoreInv(st, wasmDir), CounterInv(st), ExportImport(st)
  PROVE  /\ StoreInv(committed', wasmDir') /\ wasmDir' \subseteq Wasms
         /\ committed'.codes = st.codes
         /\ committed'.contracts = JsonInfos(st.contracts)
         /\ committed'.lastCodeID = st.lastCodeID
         /\ \A a \in DOMAIN st.contracts : committed'.state[a] \in ThroughJson(st.state[a])
         /\ store' = committed' /\ version' = committed' /\ imports' = imports + 1
         /\ phase = "idle" /\ UNCHANGED <<txVars, seen>>
<1> DEFINE gen == ExportGenesis(st)
<1>1. gen.contracts = st.contracts /\ gen.state = [a \in DOMAIN st.contracts |-> st.state[a]]
  BY ExportIsComplete
<1> HIDE DEF gen
<1>2. PICK data \in [DOMAIN gen.contracts -> ContractState] :
        /\ \A a \in DOMAIN data : data[a] \in ThroughJson(gen.state[a])
        /\ committed' = InitGenesis(gen, data, [accts |-> st.accts, bal |-> st.bal])
        /\ wasmDir' = {gen.codes[i].hash : i \in DOMAIN gen.codes}
  BY DEF ExportImport, gen
<1>3. data \in [DOMAIN st.contracts -> ContractState]
  BY <1>1
<1>4. Imported(committed', wasmDir', st, data)
  BY <1>2, <1>3, ImportIsGood DEF gen
<1>5. \A a \in DOMAIN st.contracts : data[a] \in ThroughJson(st.state[a])
  BY <1>1, <1>2, <1>3
<1> QED
  BY <1>4, <1>5 DEF ExportImport, Imported

-----------------------------------------------------------------------------
(* The invariant *)

(* A step of the keeper: the directory grows under the kept version, and the *)
(* committed store stays or becomes the cached one.                          *)
LEMMA KeeperStepKeeps ==
  ASSUME GenesisInv, [Next]_vars, UNCHANGED <<imports, version, seen>>
  PROVE  GenesisInv'
<1>1. KeeperInv' /\ LedgerInv' /\ (imports' = 0 => AddressInv')
  BY NextKeeps, LedgerKeeps, AddressKeeps DEF GenesisInv
<1>2. StoreInv(version', wasmDir')
  BY DirOnlyGrows, DirGrows DEF GenesisInv, VersionInv
<1>3. committed' = committed \/ committed' = store
  BY StepCases DEF GenesisInv, vars, BeginTx, CommitTx, Abort, Effect
<1>4. VersionInv'
  <2>1. CASE committed' = committed
    BY <1>2, <2>1 DEF GenesisInv, VersionInv
  <2>2. CASE committed' = store
    BY <1>2, <2>2 DEF GenesisInv, VersionInv, LedgerInv, Ledger!Extends
  <2> QED
    BY <1>3, <2>1, <2>2
<1>5. SeenInv'
  <2>1. CASE committed' = committed
    BY <2>1 DEF GenesisInv, SeenInv
  <2>2. CASE committed' = store
    <3>1. /\ Ledger!Extends(seen.codes, store.codes)
          /\ \A a \in DOMAIN committed.contracts :
               a \in DOMAIN store.contracts /\ store.contracts[a] = committed.contracts[a]
      BY DEF GenesisInv, SeenInv, Holds, LedgerInv, Ledger!Extends
    <3>2. Holds(store, seen)
      BY <3>1 DEF GenesisInv, SeenInv, Holds
    <3> QED
      BY <2>2, <3>2 DEF GenesisInv, SeenInv
  <2> QED
    BY <1>3, <2>1, <2>2
<1>6. CounterInv(committed') /\ CounterInv(version')
  BY <1>3 DEF GenesisInv
<1>7. CounterInv(store')
  <2>1. Bump(store.lastCodeID) # 1
    <3>1. NextID(store.lastCodeID) \in Nat \ {0}
      BY DEF NextID, GenesisInv, KeeperInv, StoreInv, StoreOK, StoreShape
    <3> QED
      BY <3>1 DEF Bump
  <2>2. \/ store' = store \/ store' = committed
        \/ store'.lastCodeID \in {store.lastCodeID, Bump(store.lastCodeID)}
    BY StepCases DEF GenesisInv, vars, BeginTx, CommitTx, Abort, Effect
  <2> QED
    BY <2>1, <2>2 DEF GenesisInv, CounterInv
<1> QED
  BY <1>1, <1>4, <1>6, <1>7, <1>5 DEF GenesisInv

(* An import: everything the invariant says is said anew of the new chain.   *)
LEMMA ImportKeeps ==
  ASSUME GenesisInv, NEW st \in {committed, version}, StoreInv(st, wasmDir),
         CounterInv(st), ExportImport(st)
  PROVE  GenesisInv'
<1>1. /\ StoreInv(committed', wasmDir') /\ wasmDir' \subseteq Wasms
      /\ committed'.lastCodeID = st.lastCodeID
      /\ store' = committed' /\ version' = committed' /\ imports' = imports + 1
      /\ phase = "idle" /\ UNCHANGED txVars
  BY ImportedStore
<1>2. /\ phase' = "idle" /\ stack' = <<>> /\ signer' = signer
      /\ nmsgs' = 0 /\ gas' = 0 /\ limit' = 0
  BY <1>1 DEF GenesisInv, KeeperInv, PhaseInv, txVars
<1>3. CallsInv(store', stack')
  BY <1>2 DEF CallsInv
<1>4. MeterInv'
  BY <1>2 DEF MeterInv
<1>5. PhaseInv'
  BY <1>1, <1>2 DEF GenesisInv, KeeperInv, PhaseInv
<1>6. KeeperInv'
  BY <1>1, <1>3, <1>4, <1>5 DEF KeeperInv
<1>7. LedgerInv'
  <2>1. Pending' = {}
    BY <1>2 DEF Pending
  <2>2. \A v \in Users : committed'.bal[v] \in Nat
    BY <1>1 DEF StoreInv, StoreOK, StoreShape, Addr
  <2>3. \A v \in Users : committed'.bal[v] >= committed'.bal[v]
    BY <2>2
  <2> QED
    BY <1>1, <2>1, <2>3 DEF LedgerInv, Ledger!Extends
<1>8. VersionInv'
  BY <1>1 DEF VersionInv, Ledger!Extends
<1>9. imports' \in Nat /\ imports' # 0
  BY <1>1 DEF GenesisInv
<1>10. SeenInv'
  <2>1. /\ seen' = seen /\ committed'.codes = st.codes
        /\ committed'.contracts = JsonInfos(st.contracts)
    BY ImportedStore
  <2>2. Holds(st, seen)
    BY DEF GenesisInv, SeenInv
  <2>3. ASSUME NEW a \in DOMAIN seen.contracts
        PROVE  /\ a \in DOMAIN st.contracts /\ seen.contracts[a] \in ContractInfo
               /\ JsonInfo(seen.contracts[a]) = JsonInfo(JsonInfo(st.contracts[a]))
    <3>1. /\ a \in DOMAIN st.contracts /\ seen.contracts[a] \in ContractInfo
          /\ JsonInfo(seen.contracts[a]) = JsonInfo(st.contracts[a])
      BY <2>2 DEF Holds
    <3>2. st.contracts[a] \in ContractInfo
      BY <3>1 DEF StoreInv, StoreOK, IsPartialMap
    <3> QED
      BY <3>1, <3>2, JsonInfoKeeps
  <2>4. \A a \in DOMAIN seen.contracts :
          /\ a \in DOMAIN committed'.contracts /\ seen.contracts[a] \in ContractInfo
          /\ JsonInfo(seen.contracts[a]) = JsonInfo(committed'.contracts[a])
    BY <2>1, <2>3 DEF JsonInfos
  <2>5. Holds(committed', seen)
    BY <2>1, <2>2, <2>4 DEF Holds
  <2> QED
    BY <1>1, <2>1, <2>5 DEF SeenInv
<1> QED
  BY <1>1, <1>6, <1>7, <1>8, <1>9, <1>10 DEF GenesisInv, CounterInv

(* What users have just seen of a store is in it.                            *)
LEMMA RegisteredIsHeld ==
  ASSUME NEW st, NEW dir, StoreInv(st, dir)
  PROVE  Holds(st, Registered(st))
<1>1. Registered(st).codes = st.codes /\ Registered(st).contracts = st.contracts
  BY DEF Registered
<1>2. \A a \in DOMAIN st.contracts : st.contracts[a] \in ContractInfo
  BY DEF StoreInv, StoreOK, IsPartialMap
<1> QED
  BY <1>1, <1>2 DEF Holds, Ledger!Extends

(* Every step keeps the invariant.                                           *)
LEMMA GenesisKeeps == GenesisInv /\ [GenesisNext]_genesisVars => GenesisInv'
<1> SUFFICES ASSUME GenesisInv, [GenesisNext]_genesisVars PROVE GenesisInv'
  OBVIOUS
<1>1. CASE [Next]_vars /\ UNCHANGED <<imports, version, seen>>
  BY <1>1, KeeperStepKeeps
<1>2. CASE KeepVersion
  <2>1. version' = committed /\ seen' = Registered(committed) /\ UNCHANGED <<vars, imports>>
    BY <1>2 DEF KeepVersion
  <2>2. [Next]_vars /\ UNCHANGED imports /\ committed' = committed /\ wasmDir' = wasmDir
        /\ store' = store
    BY <2>1 DEF vars
  <2>3. KeeperInv' /\ LedgerInv' /\ (imports' = 0 => AddressInv')
    BY <2>2, NextKeeps, LedgerKeeps, AddressKeeps DEF GenesisInv
  <2>4. VersionInv'
    BY <2>1, <2>2 DEF VersionInv, GenesisInv, KeeperInv, Ledger!Extends
  <2>5. SeenInv'
    BY <2>1, <2>2, RegisteredIsHeld DEF GenesisInv, KeeperInv, SeenInv
  <2> QED
    BY <2>1, <2>2, <2>3, <2>4, <2>5 DEF GenesisInv
<1>3. ASSUME NEW st \in {committed, version}, ExportImport(st) PROVE GenesisInv'
  <2>1. StoreInv(st, wasmDir) /\ CounterInv(st)
    BY DEF GenesisInv, KeeperInv, VersionInv
  <2> QED
    BY <1>3, <2>1, ImportKeeps
<1> QED
  BY <1>1, <1>2, <1>3 DEF GenesisNext, ExportAppStateAndTMValidators, genesisVars

(* GenesisInv holds in every state of every chain, over all its restarts.    *)
THEOREM GenesisInvariant == GenesisSpec => []GenesisInv
<1>1. GenesisInit => GenesisInv
  <2> SUFFICES ASSUME GenesisInit PROVE GenesisInv
    OBVIOUS
  <2>1. /\ Init /\ imports = 0 /\ version = committed /\ store = committed /\ stack = <<>>
        /\ committed = InitStore /\ seen = Registered(InitStore)
    BY DEF GenesisInit, Init
  <2>2. KeeperInv
    BY <2>1, InitKeeps
  <2>3. LedgerInv
    BY <2>1, <2>2, LedgerStarts DEF KeeperInv
  <2>4. AddressInv
    BY <2>1 DEF InitStore, AddressInv, Pending
  <2>5. CounterInv(InitStore)
    BY NilIsNoValue DEF CounterInv, InitStore
  <2>6. VersionInv
    BY <2>1, <2>2 DEF VersionInv, KeeperInv, Ledger!Extends
  <2>7. SeenInv
    BY <2>1, <2>2, RegisteredIsHeld DEF SeenInv, KeeperInv
  <2> QED
    BY <2>1, <2>2, <2>3, <2>4, <2>5, <2>6, <2>7 DEF GenesisInv
<1> QED
  BY <1>1, GenesisKeeps, PTL DEF GenesisSpec

-----------------------------------------------------------------------------
(* The properties of export and import *)

(* ExportGenesis never panics between transactions, on the last store or on  *)
(* an earlier one, whatever was uploaded, rolled back or imported before.    *)
THEOREM ExportIsSafe == GenesisSpec => []ExportNeverPanics
<1>1. GenesisInv => ExportNeverPanics
  BY ExportIsComplete DEF GenesisInv, KeeperInv, VersionInv, ExportNeverPanics
<1> QED
  BY <1>1, GenesisInvariant, PTL

(* On a chain that may be restarted from an export, an address is generated  *)
(* twice only after an import or an overflow, for every width of the ids.    *)
THEOREM DuplicatesNeedOverflowOrImport == GenesisSpec => []DuplicateOnlyOnOverflowOrImport
<1>1. GenesisInv => DuplicateOnlyOnOverflowOrImport
  <2> SUFFICES ASSUME GenesisInv, ~(imports > 0) PROVE DuplicateOnlyOnOverflow
    BY DEF DuplicateOnlyOnOverflowOrImport
  <2>1. imports = 0
    BY DEF GenesisInv
  <2> QED
    BY <2>1, GivenOnceBelowOverflow DEF GenesisInv, KeeperInv, AddressInv
<1> QED
  BY <1>1, GenesisInvariant, PTL

(* An import, of the last or of an earlier store, keeps the numbers of the   *)
(* codes, the counter, and of the contracts the address, code and creator    *)
(* and what is UTF-8 of their init message and data.                         *)
THEOREM RegistryIsKept == GenesisSpec => RegistrySurvives
<1>1. GenesisInv /\ [GenesisNext]_genesisVars =>
        [imports' # imports => \E st \in {committed, version} : SurvivesFrom(st)]_genesisVars
  <2> SUFFICES ASSUME GenesisInv, GenesisNext, imports' # imports
               PROVE  \E st \in {committed, version} : SurvivesFrom(st)
    BY DEF genesisVars
  <2>1. PICK st \in {committed, version} : ExportImport(st)
    BY DEF GenesisNext, KeepVersion, ExportAppStateAndTMValidators
  <2>2. StoreInv(st, wasmDir) /\ CounterInv(st)
    BY DEF GenesisInv, KeeperInv, VersionInv
  <2>3. /\ committed'.codes = st.codes
        /\ committed'.contracts = JsonInfos(st.contracts)
        /\ committed'.lastCodeID = st.lastCodeID
        /\ \A a \in DOMAIN st.contracts : committed'.state[a] \in ThroughJson(st.state[a])
    BY <2>1, <2>2, ImportedStore
  <2>4. ASSUME NEW a \in DOMAIN st.contracts, NEW k \in (Keys \cap Utf8) \ {MangledKey},
               st.state[a][k] \in Utf8 \cup {Nil}
        PROVE  committed'.state[a][k] = st.state[a][k]
    <3>1. st.state[a] \in ContractState
      BY <2>2 DEF StoreInv, StoreOK, StoreShape, IsPartialMap
    <3> QED
      BY <2>3, <2>4, <3>1, JsonKeepsText
  <2>5. \A a \in DOMAIN st.contracts :
          /\ committed'.contracts[a].code = st.contracts[a].code
          /\ committed'.contracts[a].creator = st.contracts[a].creator
          /\ st.contracts[a].initMsg \in Utf8 =>
               committed'.contracts[a].initMsg = st.contracts[a].initMsg
    <3>1. \A a \in DOMAIN st.contracts : st.contracts[a] \in ContractInfo
      BY <2>2 DEF StoreInv, StoreOK, IsPartialMap
    <3> QED
      BY <2>3, <3>1, JsonInfoKeeps DEF JsonInfos
  <2>6. DOMAIN committed'.contracts = DOMAIN st.contracts
    BY <2>3 DEF JsonInfos
  <2> QED
    BY <2>3, <2>4, <2>5, <2>6 DEF SurvivesFrom
<1> QED
  BY <1>1, GenesisInvariant, PTL DEF GenesisSpec, RegistrySurvives

-----------------------------------------------------------------------------
(* The properties of the queries *)

(* list-code does not stop early on a good store.                            *)
LEMMA ListIsComplete ==
  ASSUME NEW st, StoreInv(st, wasmDir)
  PROVE  /\ DOMAIN QueryCodeList(st) = DOMAIN st.codes
         /\ \A id \in DOMAIN st.codes : /\ GetCodeInfo(st, id) = st.codes[id]
                                        /\ GetCodeInfo(st, id) # Nil
                                        /\ QueryCodeList(st)[id] = st.codes[id]
<1>1. \A id \in DOMAIN st.codes : /\ GetCodeInfo(st, id) = st.codes[id]
                                  /\ GetCodeInfo(st, id) # Nil
  BY NoAnswerIsNilOrFailed DEF GetCodeInfo, StoreInv, StoreOK, IsPartialMap
<1>2. \A i \in DOMAIN st.codes : \A j \in 1 .. i : j \in DOMAIN st.codes
  <2>1. NextID(st.lastCodeID) \in Nat /\ DOMAIN st.codes = 1 .. (NextID(st.lastCodeID) - 1)
    BY DEF NextID, StoreInv, StoreOK, StoreShape
  <2> QED
    BY <2>1
<1>3. {i \in DOMAIN st.codes : \A j \in 1 .. i : GetCodeInfo(st, j) # Nil} = DOMAIN st.codes
  BY <1>1, <1>2
<1> QED
  BY <1>1, <1>3 DEF QueryCodeList

(* An argument is decoded to its key under the flag of its encoding, and     *)
(* without a flag if the command's default is that encoding.                 *)
LEMMA ArgumentIsUnderstood ==
  ASSUME NEW arg \in Args, NEW default
  PROVE  /\ DecodeString({arg.enc}, default, arg) = {arg.key}
         /\ default = arg.enc => DecodeString({}, default, arg) = {arg.key}
<1>1. Cardinality({arg.enc}) = 1 /\ Cardinality({}) = 0
  BY FS_Singleton, FS_EmptySet
<1>2. Decode(arg.enc, arg) = {arg.key}
  BY DEF Decode
<1>3. (CHOOSE dec \in {arg.enc} : TRUE) = arg.enc
  OBVIOUS
<1> QED
  BY <1>1, <1>2, <1>3 DEF DecodeString

(* A user who follows the answers of the queries on any version meets no     *)
(* dead end, for every history of transactions, aborts and restarts.         *)
THEOREM EveryListedIsServed == GenesisSpec => []ListedIsServed
<1>1. GenesisInv => ListedIsServed
  <2> SUFFICES ASSUME GenesisInv PROVE ListedIsServed
    OBVIOUS
  <2> DEFINE list == QueryCodeList(version)
  <2>1. StoreInv(version, wasmDir)
    BY DEF GenesisInv, VersionInv
  <2>2. /\ DOMAIN list = DOMAIN version.codes
        /\ \A id \in DOMAIN list : /\ list[id] = version.codes[id]
                                   /\ GetCodeInfo(version, id) # Nil
    BY <2>1, ListIsComplete
  <2> HIDE DEF list
  <2>3. ASSUME NEW id \in DOMAIN list
        PROVE  GetCmdQueryCode(version, id) = list[id].hash
    <3>1. version.codes[id].hash \in wasmDir /\ version.codes[id].hash \in Wasms
      BY <2>1, <2>2 DEF StoreInv, StoreOK, IsPartialMap, CodeInfo
    <3>2. GetByteCode(version, id) = version.codes[id].hash
      BY <2>2, <3>1 DEF GetByteCode
    <3> QED
      BY <2>2, <3>1, <3>2, NoAnswerIsNilOrFailed DEF GetCmdQueryCode, QueryCode
  <2>4. ASSUME NEW a \in QueryContractList(version)
        PROVE  /\ QueryContractInfo(version, a).code \in DOMAIN list
               /\ \A arg \in Args : arg.enc = "ascii" =>
                    GetCmdGetContractStateSmart(version, a, {}, arg) = {arg.key}
    <3>1. /\ a \in DOMAIN version.contracts
          /\ version.contracts[a].code \in DOMAIN version.codes
          /\ version.codes[version.contracts[a].code].hash \in wasmDir
      BY <2>1 DEF QueryContractList, ListContractInfo, StoreInv
    <3>2. QueryContractInfo(version, a).code \in DOMAIN list
      <4>1. version.contracts[a] \in ContractInfo
        BY <2>1, <3>1 DEF StoreInv, StoreOK, IsPartialMap
      <4> QED
        BY <2>2, <3>1, <4>1, JsonInfoKeeps, NoAnswerIsNilOrFailed
           DEF QueryContractInfo, GetContractInfo
    <3>3. \A query : QuerySmart(version, a, query) = query
      BY <3>1 DEF QuerySmart, HasInstance
    <3>4. ASSUME NEW arg \in Args, arg.enc = "ascii"
          PROVE  GetCmdGetContractStateSmart(version, a, {}, arg) = {arg.key}
      <4>1. DecodeString({}, "ascii", arg) = {arg.key}
        BY <3>4, ArgumentIsUnderstood
      <4>2. arg.key # Failed
        BY NoAnswerIsNilOrFailed DEF Args
      <4> QED
        BY <3>3, <4>1, <4>2 DEF GetCmdGetContractStateSmart
    <3> QED
      BY <3>2, <3>4
  <2> QED
    BY <2>2, <2>3, <2>4 DEF ListedIsServed, list
<1> QED
  BY <1>1, GenesisInvariant, PTL

(* Ids and addresses are never given to another code or contract: what a     *)
(* query has answered is still true, on every chain that was started from an *)
(* export of that height or of a later one, over any number of restarts.     *)
THEOREM AnswersAreKept == GenesisSpec => []AnswersLast
<1>1. GenesisInv => AnswersLast
  <2> SUFFICES ASSUME GenesisInv PROVE AnswersLast
    OBVIOUS
  <2> DEFINE now == QueryCodeList(committed)
             then == QueryCodeList(seen)
  <2>1. StoreInv(committed, wasmDir) /\ SeenInv
    BY DEF GenesisInv, KeeperInv
  <2>2. /\ DOMAIN now = DOMAIN committed.codes
        /\ \A id \in DOMAIN now : now[id] = committed.codes[id]
    BY <2>1, ListIsComplete
  <2>3. \A id \in DOMAIN then : id \in DOMAIN seen.codes /\ then[id] = seen.codes[id]
    BY DEF QueryCodeList, GetCodeInfo
  <2> HIDE DEF now, then
  <2>4. \A id \in DOMAIN then : id \in DOMAIN now /\ now[id] = then[id]
    BY <2>1, <2>2, <2>3 DEF SeenInv, Holds, Ledger!Extends
  <2>5. ASSUME NEW a \in QueryContractList(seen)
        PROVE  QueryContractInfo(committed, a) = QueryContractInfo(seen, a)
    <3>1. /\ a \in DOMAIN seen.contracts /\ a \in DOMAIN committed.contracts
          /\ seen.contracts[a] \in ContractInfo
          /\ JsonInfo(seen.contracts[a]) = JsonInfo(committed.contracts[a])
      BY <2>1 DEF SeenInv, Holds, QueryContractList, ListContractInfo
    <3>2. committed.contracts[a] \in ContractInfo
      BY <2>1, <3>1 DEF StoreInv, StoreOK, IsPartialMap
    <3> QED
      BY <3>1, <3>2, NoAnswerIsNilOrFailed DEF QueryContractInfo, GetContractInfo
  <2> QED
    BY <2>4, <2>5 DEF AnswersLast, now, then
<1> QED
  BY <1>1, GenesisInvariant, PTL

(* A text in ascii is its key under the flag --ascii, and never without it.  *)
LEMMA OnlyAsciiIsUnderstood ==
  ASSUME NEW key \in Keys, NEW flags \in SUBSET Encodings
  PROVE  LET read == DecodeString(flags, "hex", [enc |-> "ascii", key |-> key])
         IN  IF flags = {"ascii"} THEN read = {key}
             ELSE read \subseteq (Keys \ {key}) \cup {Nil, Failed}
<1> DEFINE arg == [enc |-> "ascii", key |-> key]
<1>1. Cardinality({"ascii"}) = 1
  BY FS_Singleton
<1>2. CASE flags = {"ascii"}
  <2>1. (CHOOSE dec \in flags : TRUE) = "ascii"
    BY <1>2
  <2> QED
    BY <1>1, <1>2, <2>1 DEF DecodeString, Decode
<1>3. CASE flags # {"ascii"}
  <2>1. CASE Cardinality(flags) > 1
    BY <1>3, <2>1 DEF DecodeString
  <2>2. CASE ~(Cardinality(flags) > 1)
    <3> DEFINE dec == IF flags = {} THEN "hex" ELSE CHOOSE d \in flags : TRUE
    <3>1. dec # "ascii"
      <4> SUFFICES ASSUME dec = "ascii" PROVE FALSE
        OBVIOUS
      <4>1. "ascii" \in flags
        OBVIOUS
      <4>3. IsFiniteSet(flags)
        <5>1. IsFiniteSet({"ascii"} \cup {"hex"} \cup {"b64"})
          BY FS_Singleton, FS_Union
        <5>2. flags \in SUBSET ({"ascii"} \cup {"hex"} \cup {"b64"})
          BY DEF Encodings
        <5> QED
          BY <5>1, <5>2, FS_Subset
      <4>4. Cardinality(flags) = 0 \/ Cardinality(flags) = 1
        <5>1. Cardinality(flags) \in Nat
          BY <4>3, FS_CardinalityType
        <5> QED
          BY <2>2, <5>1
      <4>5. Cardinality(flags) # 0
        BY <4>1, <4>3, FS_EmptySet
      <4>6. PICK x : flags = {x}
        BY <4>3, <4>4, <4>5, FS_Singleton
      <4> QED
        BY <1>3, <4>1, <4>6
    <3>2. DecodeString(flags, "hex", arg) = Decode(dec, arg)
      BY <2>2 DEF DecodeString
    <3> HIDE DEF dec
    <3> QED
      BY <1>3, <3>1, <3>2 DEF Decode
  <2> QED
    BY <2>1, <2>2
<1> QED
  BY <1>2, <1>3

(* What is under a contract's prefix after an import: every key is one that  *)
(* JSON made of a key, with what JSON made of that one's value.              *)
LEMMA ImportedData ==
  ASSUME NEW s \in ContractState, NEW t \in ThroughJson(s)
  PROVE  /\ \A k \in Keys : t[k] # Nil =>
              /\ JsonKey(k) = k /\ JsonVal(t[k]) = t[k] /\ t[k] \in Vals
              /\ \E j \in Keys : s[j] # Nil /\ JsonKey(j) = k /\ JsonVal(s[j]) = t[k]
         /\ \A j \in Keys : s[j] # Nil => JsonKey(j) \in Keys /\ t[JsonKey(j)] # Nil
<1>1. \A j \in Keys : s[j] # Nil =>
        /\ JsonKey(j) \in Keys /\ JsonKey(JsonKey(j)) = JsonKey(j)
        /\ JsonVal(s[j]) \in Vals /\ JsonVal(JsonVal(s[j])) = JsonVal(s[j])
  BY JsonStringsAreUtf8 DEF JsonKey, JsonVal, ContractState
<1> DEFINE from(k) == {j \in Keys : s[j] # Nil /\ JsonKey(j) = k}
<1>2. \A k \in Keys :
        IF from(k) = {} THEN t[k] = Nil ELSE \E j \in from(k) : t[k] = JsonVal(s[j])
  BY DEF ThroughJson
<1>3. ASSUME NEW k \in Keys, t[k] # Nil
      PROVE  \E j \in Keys : s[j] # Nil /\ JsonKey(j) = k /\ JsonVal(s[j]) = t[k]
  BY <1>2, <1>3
<1>4. ASSUME NEW j \in Keys, s[j] # Nil PROVE t[JsonKey(j)] # Nil
  <2>1. JsonKey(j) \in Keys /\ j \in from(JsonKey(j))
    BY <1>1, <1>4
  <2>2. PICK i \in from(JsonKey(j)) : t[JsonKey(j)] = JsonVal(s[i])
    BY <1>2, <2>1
  <2> QED
    BY <1>1, <2>2, NilIsNoValue
<1> QED
  BY <1>1, <1>3, <1>4

(* contract-state all shows no new entry after an import and no key less;    *)
(* as its keys are now text, contract-state raw finds each with --ascii, and *)
(* with no other choice of flags: for all keys, values and encoders.         *)
THEOREM ShownIsKept == GenesisSpec => ShownSurvives
<1>1. GenesisInv /\ [GenesisNext]_genesisVars =>
        [imports' # imports => \E st \in {committed, version} : ShownFrom(st)]_genesisVars
  <2> SUFFICES ASSUME GenesisInv, GenesisNext, imports' # imports
               PROVE  \E st \in {committed, version} : ShownFrom(st)
    BY DEF genesisVars
  <2>1. PICK st \in {committed, version} : ExportImport(st)
    BY DEF GenesisNext, KeepVersion, ExportAppStateAndTMValidators
  <2>2. StoreInv(st, wasmDir) /\ CounterInv(st)
    BY DEF GenesisInv, KeeperInv, VersionInv
  <2> SUFFICES ASSUME NEW a \in QueryContractList(st)
               PROVE  LET old == QueryContractStateAll(st, a)
                          new == QueryContractStateAll(committed', a)
                      IN /\ new \subseteq old /\ {m.key : m \in new} = {m.key : m \in old}
                         /\ \A m \in new, flags \in SUBSET Encodings :
                              LET answers == GetCmdGetContractStateRaw(
                                    committed', a, flags, [enc |-> "ascii", key |-> m.key])
                              IN IF flags = {"ascii"} THEN answers = {{m}} ELSE {m} \notin answers
    BY DEF ShownFrom
  <2> DEFINE s == st.state[a]
             t == committed'.state[a]
             old == QueryContractStateAll(st, a)
             new == QueryContractStateAll(committed', a)
             M(key, value) == [key |-> key, value |-> value]
  <2>3. s \in ContractState /\ t \in ThroughJson(s)
    <3>1. a \in DOMAIN st.contracts
      BY DEF QueryContractList, ListContractInfo
    <3> QED
      BY <2>1, <2>2, <3>1, ImportedStore DEF StoreInv, StoreOK, StoreShape, IsPartialMap
  <2>4. /\ old = {M(JsonKey(k), JsonVal(s[k])) : k \in {k \in Keys : s[k] # Nil}}
        /\ new = {M(JsonKey(k), JsonVal(t[k])) : k \in {k \in Keys : t[k] # Nil}}
    BY DEF QueryContractStateAll, GetContractState, Model
  <2>5. \A key : QueryRaw(committed', a, key) =
                   IF key \in Keys /\ t[key] # Nil THEN {M(JsonKey(key), JsonVal(t[key]))} ELSE {}
    BY DEF QueryRaw, GetContractState, Model
  <2> HIDE DEF s, t, old, new
  <2>6. /\ \A k \in Keys : t[k] # Nil =>
             /\ JsonKey(k) = k /\ JsonVal(t[k]) = t[k] /\ t[k] \in Vals
             /\ \E j \in Keys : s[j] # Nil /\ JsonKey(j) = k /\ JsonVal(s[j]) = t[k]
        /\ \A j \in Keys : s[j] # Nil => JsonKey(j) \in Keys /\ t[JsonKey(j)] # Nil
    BY <2>3, ImportedData
  <2>7. new = {M(k, t[k]) : k \in {k \in Keys : t[k] # Nil}}
    BY <2>4, <2>6
  <2>8. new \subseteq old
    BY <2>4, <2>6, <2>7
  <2>9. {m.key : m \in new} = {m.key : m \in old}
    <3>1. {m.key : m \in new} \subseteq {m.key : m \in old}
      BY <2>8
    <3>2. ASSUME NEW m \in old PROVE \E n \in new : n.key = m.key
      <4>1. PICK j \in Keys : s[j] # Nil /\ m = M(JsonKey(j), JsonVal(s[j]))
        BY <2>4
      <4>2. M(JsonKey(j), t[JsonKey(j)]) \in new
        BY <2>6, <2>7, <4>1
      <4> QED
        BY <4>1, <4>2
    <3> QED
      BY <3>1, <3>2
  <2>10. ASSUME NEW m \in new, NEW flags \in SUBSET Encodings
         PROVE  LET answers == GetCmdGetContractStateRaw(
                                 committed', a, flags, [enc |-> "ascii", key |-> m.key])
                IN IF flags = {"ascii"} THEN answers = {{m}} ELSE {m} \notin answers
    <3> DEFINE read == DecodeString(flags, "hex", [enc |-> "ascii", key |-> m.key])
    <3>1. PICK k \in Keys : t[k] # Nil /\ m = M(k, t[k])
      BY <2>7
    <3>2. m.key = k /\ k # Failed /\ k # Nil
      BY <3>1, NoAnswerIsNilOrFailed
    <3>3. IF flags = {"ascii"} THEN read = {k} ELSE read \subseteq (Keys \ {k}) \cup {Nil, Failed}
      BY <3>2, OnlyAsciiIsUnderstood
    <3>4. GetCmdGetContractStateRaw(committed', a, flags, [enc |-> "ascii", key |-> m.key])
            = {IF key = Failed THEN Failed ELSE QueryRaw(committed', a, key) : key \in read}
      BY DEF GetCmdGetContractStateRaw
    <3> HIDE DEF read
    <3>5. CASE flags = {"ascii"}
      <4>1. QueryRaw(committed', a, k) = {m}
        BY <2>5, <2>6, <3>1
      <4> QED
        BY <3>2, <3>3, <3>4, <3>5, <4>1
    <3>6. CASE flags # {"ascii"}
      <4>1. {m} # Failed
        BY <2>6, <3>1, NoAnswerIsNilOrFailed DEF Models
      <4>2. ASSUME NEW key \in (Keys \ {k}) \cup {Nil}
            PROVE  QueryRaw(committed', a, key) # {m}
        <5>1. CASE key \in Keys /\ t[key] # Nil
          <6>1. QueryRaw(committed', a, key) = {M(key, t[key])}
            BY <2>5, <2>6, <5>1
          <6>2. key # k
            BY <5>1, NoAnswerIsNilOrFailed
          <6>3. M(key, t[key]) # m
            BY <3>1, <6>2
          <6> QED
            BY <6>1, <6>3
        <5>2. CASE ~(key \in Keys /\ t[key] # Nil)
          BY <2>5, <5>2
        <5> QED
          BY <5>1, <5>2
      <4> QED
        BY <3>3, <3>4, <3>6, <4>1, <4>2
    <3> QED
      BY <3>5, <3>6
  <2> QED
    BY <2>8, <2>9, <2>10 DEF old, new
<1> QED
  BY <1>1, GenesisInvariant, PTL DEF GenesisSpec, ShownSurvives

=============================================================================
