------------------------------ MODULE Genesis ------------------------------
(***************************************************************************)
(* The keeper's chain together with its export and import: at any point     *)
(* between transactions the state is written to a genesis document and a    *)
(* new chain, with an empty wasmer directory, is started from it.           *)
(*                                                                          *)
(* A node keeps earlier versions of its store: export --height and queries  *)
(* with a height read them. There is one wasmer directory for all of them.  *)
(*                                                                          *)
(* The document is JSON. Its byte fields are base64, but the keys and       *)
(* values of a contract's state and its init message are Go strings, and    *)
(* the JSON encoder replaces what is not UTF-8 in a string.                 *)
(***************************************************************************)
EXTENDS KeeperProps

CONSTANTS
  Utf8,                    \* the keys, values and messages that are UTF-8
  MangledKey, MangledVal,  \* what the encoder makes of a key, a value
  MangledMsg,              \*   and an init message that is not
  MaxImports               \* bound: restarts from an export

ASSUME JsonStringsAreUtf8 ==
  /\ MangledKey \in Keys \cap Utf8 /\ MangledVal \in Vals \cap Utf8
  /\ MangledMsg \in InitMsgs \cap Utf8
ASSUME MaxImportsIsNatural == MaxImports \in Nat

VARIABLES
  imports,  \* how often the chain was restarted from an export
  version,  \* an earlier version of this chain's committed store
  seen      \* the codes and contracts of a version of this chain, or of one
            \* that was exported since, as users have seen them

genesisVars == <<vars, imports, version, seen>>

Registered(st) == [codes |-> st.codes, contracts |-> st.contracts]

GenesisInit ==
  Init /\ imports = 0 /\ version = InitStore /\ seen = Registered(InitStore)

(* Any version can be asked for, so the model keeps one, of any moment.     *)
KeepVersion ==
  /\ version' = committed /\ seen' = Registered(committed)
  /\ UNCHANGED <<vars, imports>>

JsonKey(k) == IF k \in Utf8 THEN k ELSE MangledKey
JsonVal(v) == IF v \in Utf8 THEN v ELSE MangledVal
JsonMsg(m) == IF m \in Utf8 THEN m ELSE MangledMsg
JsonInfo(info) == [info EXCEPT !.initMsg = JsonMsg(@)]

(* ExportGenesis dereferences the info of every code below GetNextCodeID,   *)
(* and loads its bytes from wasmer's directory.                             *)
LastExportedLessOne(st) == NextID(st.lastCodeID) - 2
LastExported(st) == NextID(st.lastCodeID) - 1
ExportPanics(st) ==
  \E i \in 1 .. LastExported(st) :
    i \notin DOMAIN st.codes \/ st.codes[i].hash \notin wasmDir

ExportGenesis(st) ==
  [codes     |-> [i \in 1 .. LastExported(st) |-> st.codes[i]],
   contracts |-> st.contracts,
   state     |-> [a \in DOMAIN st.contracts |-> st.state[a]]]

(* What setContractState can leave under a contract's prefix when the       *)
(* exported data s went through JSON. Keys that became equal overwrite each *)
(* other, in an order the model leaves open.                                *)
ThroughJsonIfText(s) ==
  {[k \in Keys |-> IF k \in Utf8 /\ s[k] # Nil THEN JsonVal(s[k]) ELSE Nil]}
ThroughJson(s) ==
  {t \in ContractState : \A k \in Keys :
     LET from == {j \in Keys : s[j] # Nil /\ JsonKey(j) = k}
     IN IF from = {} THEN t[k] = Nil ELSE \E j \in from : t[k] = JsonVal(s[j])}

(* Create numbers the codes of the document in their order, from 1.         *)
CodesNewestFirst(codes) == [i \in 1 .. Len(codes) |-> codes[Len(codes) + 1 - i]]
NumberedAnew(codes) == [i \in 1 .. Len(codes) |-> codes[i]]

(* The counter that a chain has after n calls of autoIncrementID.           *)
CounterAfter(n) == IF n = 0 THEN Nil ELSE n + 1

(* InitGenesis on a fresh store: Create stores the codes; contracts and     *)
(* their state are set as they are in the document; nothing writes          *)
(* KeyLastInstanceID. x/auth has restored the accounts before.              *)
InitGenesis(gen, data, accounts) ==
  [lastCodeID |-> CounterAfter(Len(gen.codes)), lastInstanceID |-> Nil,
   codes |-> NumberedAnew(gen.codes),
   contracts |-> [a \in DOMAIN gen.contracts |-> JsonInfo(gen.contracts[a])],
   state |-> [a \in ContractAddrs |-> IF a \in DOMAIN data THEN data[a]
                                                     ELSE [k \in Keys |-> Nil]],
   accts |-> accounts.accts, bal |-> accounts.bal]

ExportImport(st) ==
  /\ phase = "idle" /\ imports < MaxImports /\ ~ExportPanics(st)
  /\ LET gen == ExportGenesis(st)
     IN \E data \in [DOMAIN gen.contracts -> ContractState] :
          /\ \A a \in DOMAIN data : data[a] \in ThroughJson(gen.state[a])
          /\ committed' = InitGenesis(gen, data, [accts |-> st.accts, bal |-> st.bal])
          /\ wasmDir' = {gen.codes[i].hash : i \in DOMAIN gen.codes}
  /\ store' = committed' /\ version' = committed'
  /\ imports' = imports + 1
  /\ UNCHANGED <<txVars, seen>>

(* export --height loads the version of that height first.                  *)
ExportAppStateAndTMValidators ==
  \E st \in {committed, version} : ExportImport(st)

GenesisNext ==
  \/ Next /\ UNCHANGED <<imports, version, seen>>
  \/ KeepVersion
  \/ ExportAppStateAndTMValidators

GenesisSpec == GenesisInit /\ [][GenesisNext]_genesisVars

---------------------------------------------------------------------------

(* Between transactions the state can always be exported, at the last and   *)
(* at every earlier height: no code below GetNextCodeID is missing from the *)
(* store of that height, or from today's wasmer directory, not even after   *)
(* transactions that uploaded code and failed.                              *)
ExportNeverPanics ==
  phase = "idle" => ~ExportPanics(committed) /\ ~ExportPanics(version)

(* An address is generated twice only when an id overflows its 32 bits, as  *)
(* the comment of generateContractAddress says, or on a chain that was      *)
(* started from an export: whatever was uploaded and created in between,    *)
(* in transactions that succeeded and in such that failed.                  *)
DuplicateOnlyOnOverflowOrImport == imports > 0 \/ DuplicateOnlyOnOverflow

(* Over an export and import codes keep their numbers, contracts their      *)
(* address, code and creator, and their init message and data keep what is  *)
(* UTF-8 of them.                                                           *)
SurvivesFrom(st) ==
  /\ committed'.codes = st.codes
  /\ committed'.lastCodeID = st.lastCodeID
  /\ DOMAIN committed'.contracts = DOMAIN st.contracts
  /\ \A a \in DOMAIN st.contracts :
       LET old == st.contracts[a]
           new == committed'.contracts[a]
       IN /\ new.code = old.code /\ new.creator = old.creator
          /\ old.initMsg \in Utf8 => new.initMsg = old.initMsg
  /\ \A a \in DOMAIN st.contracts, k \in (Keys \cap Utf8) \ {MangledKey} :
       st.state[a][k] \in Utf8 \cup {Nil} => committed'.state[a][k] = st.state[a][k]
RegistrySurvives ==
  [][imports' # imports => \E st \in {committed, version} : SurvivesFrom(st)]_genesisVars

(* genesis_test.go:124,147: contract state is the same on the new chain.    *)
StateSurvives ==
  [][imports' # imports =>
       \E st \in {committed, version} : committed'.state = st.state]_genesisVars

============================================================================
