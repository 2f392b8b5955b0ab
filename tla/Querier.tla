------------------------------ MODULE Querier ------------------------------
(***************************************************************************)
(* The queries of x/wasm, from the command line to the keeper: what each    *)
(* one answers on a version st of the committed store. A query runs on a    *)
(* cached copy of that version, which is thrown away; what it shares with   *)
(* the running transaction is wasmer's directory.                           *)
(*                                                                          *)
(* A user goes from one query to the next (the list of codes, the download  *)
(* of one of them; all data of a contract, the value under one key), with   *)
(* blocks, aborted uploads and a restart of the chain in between.           *)
(***************************************************************************)
EXTENDS Genesis, FiniteSets

CONSTANT Failed  \* an error instead of an answer

Models == [key : Keys, value : Vals]

ASSUME NoAnswerIsNilOrFailed ==
  /\ Nil \notin Wasms /\ Nil \notin CodeInfo /\ Nil \notin ContractInfo
  /\ {Nil, Failed} \cap Keys = {}
  /\ \A models \in SUBSET Models : Failed # models

---------------------------------------------------------------------------
(* The keeper *)

GetCodeInfo(st, id) == IF id \in DOMAIN st.codes THEN st.codes[id] ELSE Nil

(* wasmer has the byte code of a known id, or this is an error.             *)
GetByteCode(st, id) ==
  CASE GetCodeInfo(st, id) = Nil -> Nil
    [] st.codes[id].hash \in wasmDir -> st.codes[id].hash
    [] OTHER -> Failed

GetContractInfo(st, a) == IF a \in DOMAIN st.contracts THEN st.contracts[a] ELSE Nil

(* The iterator over the prefix of the contract infos.                      *)
ListContractInfo(st) == DOMAIN st.contracts

(* The iterator over a contract's prefix; the order of the keys is left out. *)
GetContractState(st, a) == {k \in Keys : st.state[a][k] # Nil}

(* Models are JSON strings.                                                 *)
Model(st, a, key) == [key |-> JsonKey(key), value |-> JsonVal(st.state[a][key])]

(* No key, or one that holds nothing, gives an empty list.                  *)
QueryRaw(st, a, key) ==
  IF key \in GetContractState(st, a) THEN {Model(st, a, key)} ELSE {}

(* The answer is the contract's own: here, whether the query gets to it.    *)
QuerySmart(st, a, query) ==
  IF HasInstance(st, a) /\ st.codes[st.contracts[a].code].hash \in wasmDir
  THEN query ELSE Failed

---------------------------------------------------------------------------
(* The querier *)

(* queryCodeList counts from 1 and stops at the first id without an info.   *)
CodeListFromZero(st) ==
  [i \in {i \in DOMAIN st.codes : \A j \in 0 .. i : GetCodeInfo(st, j) # Nil} |->
     GetCodeInfo(st, i)]
QueryCodeList(st) ==
  [i \in {i \in DOMAIN st.codes : \A j \in 1 .. i : GetCodeInfo(st, j) # Nil} |->
     GetCodeInfo(st, i)]

(* An unknown code or contract is no error: the answer is null. Infos are   *)
(* JSON, with the init message as a string.                                 *)
QueryCode(st, id) == GetByteCode(st, id)
QueryContractInfo(st, a) ==
  LET info == GetContractInfo(st, a) IN IF info = Nil THEN Nil ELSE JsonInfo(info)

QueryContractList(st) == ListContractInfo(st)

QueryContractStateAll(st, a) == {Model(st, a, k) : k \in GetContractState(st, a)}

---------------------------------------------------------------------------
(* The command line *)

Encodings == {"ascii", "hex", "b64"}

(* An argument is the text that stands for a key in one of the encodings. A *)
(* key that is not text cannot be typed in ascii.                           *)
Args == {arg \in [enc : Encodings, key : Keys] :
           arg.enc = "ascii" => arg.key \in Utf8}

(* The bytes that the text can be read as. In another encoding than its own *)
(* it has another length in bytes, so these are some other key, of the      *)
(* model or none of it; ascii reads any text, hex and base64 may refuse it. *)
(* No key of the model is empty, so the check for an empty argument passes. *)
Decode(dec, arg) ==
  IF dec = arg.enc THEN {arg.key}
  ELSE (Keys \ {arg.key}) \cup {Nil} \cup (IF dec = "ascii" THEN {} ELSE {Failed})

DecodeString(flags, default, arg) ==
  IF Cardinality(flags) > 1 THEN {Failed}
  ELSE Decode(IF flags = {} THEN default ELSE CHOOSE dec \in flags : TRUE, arg)

(* contract-state raw expects hex unless a flag says otherwise, and         *)
(* contract-state smart ascii.                                              *)
GetCmdGetContractStateRaw(st, a, flags, arg) ==
  {IF key = Failed THEN Failed ELSE QueryRaw(st, a, key) :
     key \in DecodeString(flags, "hex", arg)}

GetCmdGetContractStateSmart(st, a, flags, arg) ==
  {IF query = Failed THEN Failed ELSE QuerySmart(st, a, query) :
     query \in DecodeString(flags, "ascii", arg)}

(* code writes what it gets to a file: a null code is an error here.        *)
GetCmdQueryCode(st, id) ==
  LET code == QueryCode(st, id) IN IF code = Nil THEN Failed ELSE code

---------------------------------------------------------------------------

(* A user who walks through the answers of any version meets no dead end,   *)
(* also while a transaction runs and after others were rolled back:         *)
(* list-code names every code there is, each can be downloaded and is what  *)
(* its hash says; each listed contract has an info, its code is in the      *)
(* list, and a smart query reaches the contract as it was typed.            *)
ListedIsServed ==
  LET list == QueryCodeList(version)
  IN /\ DOMAIN list = DOMAIN version.codes
     /\ \A id \in DOMAIN list : GetCmdQueryCode(version, id) = list[id].hash
     /\ \A a \in QueryContractList(version) :
          /\ QueryContractInfo(version, a).code \in DOMAIN list
          /\ \A arg \in Args : arg.enc = "ascii" =>
               GetCmdGetContractStateSmart(version, a, {}, arg) = {arg.key}

(* What a query has answered about a code or a contract stays the answer,   *)
(* on this chain and on one that is started from its export at that height  *)
(* or a later one, where the codes are numbered anew and the infos have     *)
(* gone through JSON: ids and addresses always mean the same.               *)
AnswersLast ==
  /\ LET now == QueryCodeList(committed)
         then == QueryCodeList(seen)
     IN \A id \in DOMAIN then : id \in DOMAIN now /\ now[id] = then[id]
  /\ \A a \in QueryContractList(seen) :
       QueryContractInfo(committed, a) = QueryContractInfo(seen, a)

(* contract-state all shows on the new chain no entry that it did not show  *)
(* on the old one, and all its keys, as the document mangles them as the    *)
(* answer did. A key can now be typed as it is shown, which was not so for  *)
(* bytes that are not UTF-8: contract-state raw finds the entry if --ascii  *)
(* is given, and only then: without a flag, or with another, the text is    *)
(* refused or read as another key.                                          *)
ShownFrom(st) ==
  \A a \in QueryContractList(st) :
    LET old == QueryContractStateAll(st, a)
        new == QueryContractStateAll(committed', a)
    IN /\ new \subseteq old /\ {m.key : m \in new} = {m.key : m \in old}
       /\ \A m \in new, flags \in SUBSET Encodings :
            LET answers == GetCmdGetContractStateRaw(
                             committed', a, flags, [enc |-> "ascii", key |-> m.key])
            IN IF flags = {"ascii"} THEN answers = {{m}} ELSE {m} \notin answers
ShownSurvives ==
  [][imports' # imports => \E st \in {committed, version} : ShownFrom(st)]_genesisVars

============================================================================
