--------------------------- MODULE ReplicasProofs ---------------------------
(***************************************************************************)
(* The nodes hold the same stores, for any number of nodes, blocks, crashes *)
(* and replays, unless an upload names a source on the web.                 *)
(*                                                                          *)
(* What a block does to a store is a fact about the block alone (Run): what *)
(* else a node looks at, wasmer's directory and the web, makes no           *)
(* difference. AgreeInv says that every node is somewhere on the run of its *)
(* next block, and that the stores in the headers are the ends of runs. Two *)
(* runs of a block from one store end in one store, by induction.           *)
(***************************************************************************)
EXTENDS Replicas, FoldTheorems

-----------------------------------------------------------------------------
(* What a block does to a store *)

(* What a message makes of a store, if it names no source and wasmer has the  *)
(* byte code of the codes in the store.                                       *)
Result(st, msg) ==
  IF msg.type = "store"
  THEN LET code == Uncompress(msg.code)
       IN IF ValidateBasic(msg, [u \in Sources |-> "ok"]) /\ code.fmt = "wasm"
          THEN WithCode(st, Nil, code.of) ELSE st
  ELSE IF msg.codeID \in DOMAIN st.codes
  THEN WithContract(st, msg.codeID) ELSE st

(* The first k messages of a block lead from the store s to the store t.      *)
Run(block, k, s, t) ==
  \E T : /\ T[0] = s /\ T[k] = t
         /\ \A i \in 0 .. (k - 1) : T[i + 1] = Result(T[i], block[i + 1])

LEMMA RunStarts ==
  ASSUME NEW block, NEW s
  PROVE  Run(block, 0, s, s)
<1> DEFINE T == [i \in {0} |-> s]
<1>1. T[0] = s /\ 0 .. (0 - 1) = {}
  OBVIOUS
<1> QED
  BY <1>1 DEF Run

LEMMA RunGoesOn ==
  ASSUME NEW block, NEW k \in Nat, NEW s, NEW t, Run(block, k, s, t)
  PROVE  Run(block, k + 1, s, Result(t, block[k + 1]))
<1>1. PICK T : /\ T[0] = s /\ T[k] = t
               /\ \A i \in 0 .. (k - 1) : T[i + 1] = Result(T[i], block[i + 1])
  BY DEF Run
<1> DEFINE U == [i \in 0 .. (k + 1) |-> IF i = k + 1 THEN Result(t, block[k + 1]) ELSE T[i]]
<1>2. U[k + 1] = Result(t, block[k + 1]) /\ \A i \in 0 .. k : U[i] = T[i]
  OBVIOUS
<1> HIDE DEF U
<1>3. U[0] = s
  BY <1>1, <1>2
<1>4. ASSUME NEW i \in 0 .. ((k + 1) - 1) PROVE U[i + 1] = Result(U[i], block[i + 1])
  <2>1. CASE i = k
    BY <1>1, <1>2, <2>1
  <2>2. CASE i # k
    <3>1. i \in 0 .. (k - 1) /\ i \in 0 .. k /\ i + 1 \in 0 .. k
      BY <2>2
    <3> QED
      BY <1>1, <1>2, <3>1
  <2> QED
    BY <2>1, <2>2
<1> QED
  BY <1>2, <1>3, <1>4 DEF Run

(* A block leads from one store to one store.                                 *)
LEMMA RunIsUnique ==
  ASSUME NEW block, NEW k \in Nat, NEW s, NEW t, NEW u,
         Run(block, k, s, t), Run(block, k, s, u)
  PROVE  t = u
<1>1. PICK T : /\ T[0] = s /\ T[k] = t
               /\ \A i \in 0 .. (k - 1) : T[i + 1] = Result(T[i], block[i + 1])
  BY DEF Run
<1>2. PICK U : /\ U[0] = s /\ U[k] = u
               /\ \A i \in 0 .. (k - 1) : U[i + 1] = Result(U[i], block[i + 1])
  BY DEF Run
<1> DEFINE S == {i \in Nat : i <= k => T[i] = U[i]}
<1>3. 0 \in S
  BY <1>1, <1>2
<1>4. ASSUME NEW i \in Nat, i \in S PROVE i + 1 \in S
  <2>1. CASE i + 1 <= k
    <3>1. i \in 0 .. (k - 1) /\ T[i] = U[i]
      BY <1>4, <2>1
    <3>2. T[i + 1] = U[i + 1]
      BY <1>1, <1>2, <3>1
    <3> QED
      BY <3>2
  <2>2. CASE ~(i + 1 <= k)
    BY <2>2
  <2> QED
    BY <2>1, <2>2
<1>5. k \in S
  <2> HIDE DEF S
  <2> QED
    BY <1>3, <1>4, InductionOnSet
<1> QED
  BY <1>1, <1>2, <1>5

-----------------------------------------------------------------------------
(* The invariants *)

Msgs == ForeignMsgs \cup Instantiations

(* Ids are counted upwards: the next one is new.                              *)
StoreInv(st) ==
  /\ st \in [lastCodeID : Nat \cup {Nil}, lastInstanceID : Nat \cup {Nil},
             codes : {st.codes}, contracts : {st.contracts}]
  /\ \A c \in DOMAIN st.codes : c \in Nat /\ c < NextID(st.lastCodeID)

PositionInv ==
  /\ chain \in Seq(Seq(Msgs))
  /\ height \in [Nodes -> Nat] /\ pos \in [Nodes -> Nat]
  /\ home \in [Nodes -> Nodes] /\ misled \subseteq Nodes
  /\ \A n \in Nodes : height[n] <= Len(chain)
  /\ \A n \in Nodes : pos[n] > 0 => height[n] < Len(chain) /\ pos[n] <= Len(Block(n))

StoresInv ==
  /\ DOMAIN committed = Nodes /\ DOMAIN store = Nodes
  /\ \A n \in Nodes : StoreInv(committed[n]) /\ StoreInv(store[n])

(* An upload that the limits allow is in the stores of the nodes that have    *)
(* executed it.                                                               *)
Has(st, msg) ==
  Allowed(msg) => \E c \in DOMAIN st.codes : st.codes[c].hash = msg.code.of.of
UploadsInv ==
  \A n \in Nodes :
    /\ \A h \in 1 .. height[n] : \A i \in 1 .. Len(chain[h]) :
         Has(committed[n], chain[h][i]) /\ Has(store[n], chain[h][i])
    /\ \A i \in 1 .. pos[n] : Has(store[n], Block(n)[i])

(* A node that was never replayed under another home has the byte code of     *)
(* its codes.                                                                 *)
CodesOnDisk(st, d) == \A c \in DOMAIN st.codes : st.codes[c].hash \in d
DirInv ==
  /\ DOMAIN dir = Nodes
  /\ \A n \in Nodes \ misled :
       home[n] = n /\ CodesOnDisk(committed[n], dir[n]) /\ CodesOnDisk(store[n], dir[n])

After(h) == IF h = 0 THEN EmptyStore ELSE appHash[h]

HeadersInv ==
  /\ appHash \in Seq(Range(appHash)) /\ Len(appHash) <= Len(chain)
  /\ \A n \in Nodes \ misled : height[n] <= Len(appHash)

AgreeInv ==
  /\ \A h \in 1 .. Len(appHash) :
       Run(chain[h], Len(chain[h]), After(h - 1), appHash[h])
  /\ \A n \in Nodes \ misled :
       committed[n] = After(height[n]) /\ Run(Block(n), pos[n], committed[n], store[n])

ReplicasInv ==
  /\ PositionInv /\ StoresInv /\ UploadsInv /\ DirInv /\ HeadersInv
  /\ NoSourceAsked => AgreeInv

-----------------------------------------------------------------------------
(* Stores and messages *)

(* WithCode adds a code under a new id.                                       *)
LEMMA CodeIsAdded ==
  ASSUME NEW st, StoreInv(st), NEW creator, NEW w
  PROVE  LET new == WithCode(st, creator, w)
         IN /\ StoreInv(new)
            /\ \A c \in DOMAIN st.codes :
                 c \in DOMAIN new.codes /\ new.codes[c] = st.codes[c]
            /\ \E c \in DOMAIN new.codes : new.codes[c].hash = w
            /\ \A c \in DOMAIN new.codes :
                 new.codes[c].hash = w \/
                 (c \in DOMAIN st.codes /\ new.codes[c] = st.codes[c])
<1> DEFINE id == NextID(st.lastCodeID)
           codes == Put(st.codes, id, [hash |-> w, creator |-> creator])
           new == WithCode(st, creator, w)
<1>1. id \in Nat /\ NextID(id + 1) = id + 1 /\ id + 1 \in Nat
  BY NamesAreNoOthers DEF StoreInv, NextID
<1>2. \A c \in DOMAIN st.codes : c \in Nat /\ c < id
  BY DEF StoreInv
<1>3. /\ new.lastCodeID = id + 1 /\ new.codes = codes
      /\ new.lastInstanceID = st.lastInstanceID /\ new.contracts = st.contracts
  BY DEF StoreInv, WithCode, Bump
<1>4. new \in [lastCodeID : Nat \cup {Nil}, lastInstanceID : Nat \cup {Nil},
               codes : {codes}, contracts : {st.contracts}]
  BY <1>1 DEF StoreInv, WithCode, Bump
<1>5. /\ DOMAIN codes = DOMAIN st.codes \cup {id} /\ codes[id].hash = w
      /\ \A c \in DOMAIN st.codes : c # id => codes[c] = st.codes[c]
  BY DEF Put
<1> HIDE DEF id, codes, new
<1>6. \A c \in DOMAIN st.codes : codes[c] = st.codes[c]
  BY <1>1, <1>2, <1>5
<1>7. \A c \in DOMAIN codes : c \in Nat /\ c < id + 1
  BY <1>1, <1>2, <1>5
<1>8. StoreInv(new)
  BY <1>1, <1>3, <1>4, <1>7 DEF StoreInv
<1> QED
  BY <1>3, <1>5, <1>6, <1>8 DEF new

(* An instantiation leaves the codes.                                         *)
LEMMA ContractIsAdded ==
  ASSUME NEW st, StoreInv(st), NEW codeID
  PROVE  /\ StoreInv(WithContract(st, codeID))
         /\ WithContract(st, codeID).codes = st.codes
<1> DEFINE contracts ==
             Put(st.contracts, <<codeID, NextID(st.lastInstanceID)>>, codeID)
           new == WithContract(st, codeID)
<1>1. NextID(st.lastInstanceID) + 1 \in Nat
  BY DEF StoreInv, NextID
<1>2. /\ new.lastCodeID = st.lastCodeID /\ new.codes = st.codes
      /\ new.contracts = contracts
  BY DEF StoreInv, WithContract, WithInstanceID, Bump
<1>3. new \in [lastCodeID : Nat \cup {Nil}, lastInstanceID : Nat \cup {Nil},
               codes : {st.codes}, contracts : {contracts}]
  BY <1>1 DEF StoreInv, WithContract, WithInstanceID, Bump
<1> HIDE DEF contracts, new
<1>4. StoreInv(new)
  BY <1>2, <1>3 DEF StoreInv
<1> QED
  BY <1>2, <1>4 DEF new

(* What the limits allow passes ValidateBasic and is uncompressed to the      *)
(* module it was made of.                                                     *)
LEMMA AllowedIsAccepted ==
  ASSUME NEW msg, Allowed(msg), NEW w
  PROVE  /\ ValidateBasic(msg, w) /\ Uncompress(msg.code).fmt = "wasm"
         /\ Uncompress(msg.code).of = msg.code.of.of
<1>1. PICK m \in Wasms : WasmSize[m] <= MaxSize /\ msg.code \in GzipIt(Module(m))
  BY DEF Allowed
<1>2. WasmSize[m] \in Nat \ {0}
  BY ModulesHaveSizes
<1>3. PICK k \in {1, WasmSize[m] + GzipOverhead} :
        msg.code = [fmt |-> "gzip", size |-> k, of |-> Module(m), intact |-> TRUE]
  BY <1>1 DEF GzipIt, ZipSizes, Gzip, Module
<1>4. k > 0 /\ k <= MaxWasmSize
  BY <1>1, <1>2, SizesAreNatural, LimitsLeaveRoom
<1>5. ValidateBasic(msg, w)
  BY <1>3, <1>4, NamesAreNoOthers DEF Allowed, ValidateBasic
<1>6. ~(Module(m).size > MaxSize) /\ Module(m).fmt = "wasm" /\ Module(m).of = m
  BY <1>1, <1>2, SizesAreNatural DEF Module
<1>7. Uncompress(msg.code) = Module(m) /\ msg.code.of = Module(m)
  BY <1>3, <1>6 DEF Uncompress, IsGzip
<1> QED
  BY <1>5, <1>6, <1>7

(* Without a source, ValidateBasic does not depend on the web.                *)
LEMMA OfflineIsAnswered ==
  ASSUME NEW msg, msg.source \notin Sources, NEW v, NEW w
  PROVE  ValidateBasic(msg, v) = ValidateBasic(msg, w)
BY DEF ValidateBasic

(* The clients make no messages that others could not.                        *)
LEMMA UploadsAreMsgs == Uploads \subseteq ForeignMsgs
<1>1. ASSUME NEW f \in Files PROVE Compressed(f) \subseteq Files
  <2>1. CASE IsWasm(f)
    <3>1. f \in Plain
      BY <1>1, <2>1 DEF Files, Gzip, IsWasm
    <3>2. ASSUME NEW z \in GzipIt(f) PROVE z \in Files
      <4>1. PICK k \in ZipSizes(f) : z = Gzip(f, k, TRUE)
        BY <3>2 DEF GzipIt
      <4>2. z \in {Gzip(f, m, i) : m \in ZipSizes(f), i \in BOOLEAN}
        <5>1. TRUE \in BOOLEAN
          OBVIOUS
        <5>2. \E m \in ZipSizes(f) : \E i \in BOOLEAN : z = Gzip(f, m, i)
          BY <4>1, <5>1, Zenon
        <5> QED
          BY <5>2, SMT
      <4> QED
        BY <3>1, <4>2 DEF Files
    <3> QED
      BY <2>1, <3>2 DEF Compressed
  <2>2. CASE ~IsWasm(f)
    BY <1>1, <2>2 DEF Compressed
  <2> QED
    BY <2>1, <2>2
<1>2. ASSUME NEW f \in Files
      PROVE  StoreCodeCmd(f, web) \subseteq ForeignMsgs
             /\ StoreCodeHandlerFn(f, web) \subseteq ForeignMsgs
  BY <1>1, <1>2
  DEF StoreCodeCmd, StoreCodeHandlerFn, ForeignMsgs, StoreMsgs, Urls, Builders
<1> QED
  BY <1>2 DEF Uploads

(* One message, on one node: the codes of its store stay, and an allowed      *)
(* upload is added; on a node with its own directory the result is the one    *)
(* the message has on every such node, if no source is asked.                 *)
LEMMA Delivered ==
  ASSUME NEW n \in Nodes, PositionInv, StoresInv, DirInv, DeliverTx(n)
  PROVE  /\ height[n] < Len(chain) /\ pos[n] < Len(Block(n))
         /\ Block(n) \in Seq(Msgs) /\ Len(Block(n)) \in Nat
         /\ pos' = [pos EXCEPT ![n] = pos[n] + 1]
         /\ DOMAIN store' = Nodes /\ \A m \in Nodes : m # n => store'[m] = store[m]
         /\ StoreInv(store'[n])
         /\ \A c \in DOMAIN store[n].codes :
              c \in DOMAIN store'[n].codes /\ store'[n].codes[c] = store[n].codes[c]
         /\ Has(store'[n], Msg(n))
         /\ DOMAIN dir' = Nodes /\ \A m \in Nodes : dir[m] \subseteq dir'[m]
         /\ n \notin misled => CodesOnDisk(store'[n], dir'[n])
         /\ n \notin misled /\ (Msg(n).type = "store" => Msg(n).source \notin Sources) =>
              store'[n] = Result(store[n], Msg(n))
<1> DEFINE msg == Msg(n)
<1>1. /\ height[n] < Len(chain) /\ pos[n] < Len(Block(n))
      /\ pos' = [pos EXCEPT ![n] = pos[n] + 1]
  BY DEF DeliverTx, Executing
<1>2. Block(n) \in Seq(Msgs) /\ Len(Block(n)) \in Nat
  BY <1>1 DEF PositionInv, Block
<1>3. CASE msg.type = "store" /\ StoreCode(n, msg)
  <2> DEFINE code == Uncompress(msg.code)
  <2>1. CASE ValidateBasic(msg, web) /\ WasmerAccepts(code, Dir(n))
    <3>1. /\ store' = [store EXCEPT ![n] = WithCode(store[n], Nil, code.of)]
          /\ dir' = [dir EXCEPT ![home[n]] = dir[home[n]] \cup {code.of}]
      BY <1>3, <2>1 DEF StoreCode
    <3>2. /\ store'[n] = WithCode(store[n], Nil, code.of)
          /\ DOMAIN store' = Nodes /\ \A m \in Nodes : m # n => store'[m] = store[m]
      BY <3>1 DEF StoresInv
    <3>3. home[n] \in Nodes /\ DOMAIN dir = Nodes
      BY DEF PositionInv, DirInv
    <3>4. /\ DOMAIN dir' = Nodes /\ \A m \in Nodes : dir[m] \subseteq dir'[m]
          /\ code.of \in dir'[home[n]]
      BY <3>1, <3>3
    <3>5. /\ StoreInv(store'[n])
          /\ \A c \in DOMAIN store[n].codes :
               c \in DOMAIN store'[n].codes /\ store'[n].codes[c] = store[n].codes[c]
          /\ \E c \in DOMAIN store'[n].codes : store'[n].codes[c].hash = code.of
          /\ \A c \in DOMAIN store'[n].codes :
               store'[n].codes[c].hash = code.of \/
               (c \in DOMAIN store[n].codes /\ store'[n].codes[c] = store[n].codes[c])
      BY <3>2, CodeIsAdded DEF StoresInv
    <3>6. Has(store'[n], msg)
      BY <3>5, AllowedIsAccepted DEF Has
    <3>7. n \notin misled => CodesOnDisk(store'[n], dir'[n])
      BY <3>4, <3>5 DEF DirInv, CodesOnDisk
    <3>8. msg.source \notin Sources => store'[n] = Result(store[n], msg)
      BY <1>3, <2>1, <3>2, OfflineIsAnswered DEF Result, WasmerAccepts
    <3> QED
      BY <1>1, <1>2, <1>3, <3>2, <3>4, <3>5, <3>6, <3>7, <3>8
  <2>2. CASE ~(ValidateBasic(msg, web) /\ WasmerAccepts(code, Dir(n)))
    <3>1. store' = store /\ dir' = dir
      BY <1>3, <2>2 DEF StoreCode
    <3>2. Has(store'[n], msg)
      BY <2>2, AllowedIsAccepted DEF Has, WasmerAccepts
    <3>3. msg.source \notin Sources => store'[n] = Result(store[n], msg)
      BY <1>3, <2>2, <3>1, OfflineIsAnswered DEF Result, WasmerAccepts
    <3> QED
      BY <1>1, <1>2, <1>3, <3>1, <3>2, <3>3 DEF StoresInv, DirInv
  <2> QED
    BY <2>1, <2>2
<1>4. CASE msg.type = "instantiate" /\ Instantiate(n, msg.codeID) /\ UNCHANGED dir
  <2> DEFINE new == WithContract(store[n], msg.codeID)
  <2>1. Has(store'[n], msg)
    BY <1>4 DEF Has, Allowed
  <2>2. CASE msg.codeID \in DOMAIN store[n].codes
             /\ store[n].codes[msg.codeID].hash \in Dir(n)
    <3>1. store' = [store EXCEPT ![n] = new]
      BY <1>4, <2>2 DEF Instantiate
    <3>2. StoreInv(new) /\ new.codes = store[n].codes
      BY ContractIsAdded DEF StoresInv
    <3>3. new = Result(store[n], msg)
      BY <1>4, <2>2 DEF Result
    <3> HIDE DEF new
    <3>4. /\ store'[n] = new
          /\ DOMAIN store' = Nodes /\ \A m \in Nodes : m # n => store'[m] = store[m]
      BY <3>1 DEF StoresInv
    <3> QED
      BY <1>1, <1>2, <1>4, <2>1, <3>2, <3>3, <3>4 DEF DirInv, CodesOnDisk
  <2>3. CASE ~(msg.codeID \in DOMAIN store[n].codes
               /\ store[n].codes[msg.codeID].hash \in Dir(n))
    <3>1. store' = store
      BY <1>4, <2>3 DEF Instantiate
    <3>2. n \notin misled => msg.codeID \notin DOMAIN store[n].codes
      BY <2>3 DEF DirInv, CodesOnDisk, Dir
    <3>3. n \notin misled => store'[n] = Result(store[n], msg)
      BY <1>4, <3>1, <3>2 DEF Result
    <3> QED
      BY <1>1, <1>2, <1>4, <2>1, <3>1, <3>3 DEF StoresInv, DirInv
  <2> QED
    BY <2>2, <2>3
<1> QED
  BY <1>3, <1>4 DEF DeliverTx

-----------------------------------------------------------------------------
(* Each step keeps each part *)

(* The chain grows at its end.                                                *)
LEMMA Proposed ==
  ASSUME chain \in Seq(Seq(Msgs)), Propose
  PROVE  /\ chain' \in Seq(Seq(Msgs)) /\ Len(chain') = Len(chain) + 1
         /\ \A h \in 1 .. Len(chain) : chain'[h] = chain[h]
         /\ UNCHANGED <<web, nodeVars>>
<1>1. PICK k \in 1 .. MaxTxs : \E block \in [1 .. k -> Uploads \cup Instantiations] :
        chain' = Append(chain, block)
  BY DEF Propose
<1>2. PICK block \in [1 .. k -> Uploads \cup Instantiations] : chain' = Append(chain, block)
  BY <1>1
<1>3. k \in Nat
  BY BoundsAreNatural
<1>4. block \in [1 .. k -> Msgs]
  BY UploadsAreMsgs DEF Msgs
<1>5. block \in Seq(Msgs)
  BY <1>3, <1>4
<1> QED
  BY <1>2, <1>5 DEF Propose

(* A position that a node can be in after its application was opened.         *)
LEMMA Opened ==
  ASSUME NEW n \in Nodes, NEW h \in Nodes, PositionInv, StoresInv, OpenApp(n, h)
  PROVE  /\ UNCHANGED <<chain, height, committed, dir, appHash>>
         /\ pos' \in [Nodes -> Nat] /\ pos'[n] = 0 /\ home' \in [Nodes -> Nodes]
         /\ home'[n] = h /\ DOMAIN store' = Nodes /\ store'[n] = committed[n]
         /\ \A m \in Nodes \ {n} :
              pos'[m] = pos[m] /\ store'[m] = store[m] /\ home'[m] = home[m]
BY DEF OpenApp, PositionInv, StoresInv

LEMMA Committed ==
  ASSUME NEW n \in Nodes, PositionInv, StoresInv, Commit(n)
  PROVE  /\ UNCHANGED <<chain, store, dir, home, misled>>
         /\ height[n] < Len(chain) /\ pos[n] = Len(Block(n))
         /\ height' \in [Nodes -> Nat] /\ height'[n] = height[n] + 1
         /\ pos' \in [Nodes -> Nat] /\ pos'[n] = 0
         /\ DOMAIN committed' = Nodes /\ committed'[n] = store[n]
         /\ \A m \in Nodes \ {n} :
              height'[m] = height[m] /\ pos'[m] = pos[m] /\ committed'[m] = committed[m]
BY DEF Commit, PositionInv, StoresInv

LEMMA PositionKeep ==
  ASSUME ReplicasInv, [Next]_vars
  PROVE  PositionInv'
<1> USE DEF ReplicasInv
<1>1. CASE UNCHANGED <<chain, nodeVars>>
  BY <1>1 DEF nodeVars, PositionInv, Block
<1>2. CASE Propose
  <2>1. UNCHANGED <<height, pos, home, misled>> /\ Len(chain) \in Nat
    BY <1>2, Proposed DEF PositionInv, nodeVars
  <2>2. /\ chain' \in Seq(Seq(Msgs)) /\ Len(chain') = Len(chain) + 1
        /\ \A h \in 1 .. Len(chain) : chain'[h] = chain[h]
    BY <1>2, Proposed DEF PositionInv
  <2>3. ASSUME NEW n \in Nodes, height[n] < Len(chain)
        PROVE  chain'[height[n] + 1] = chain[height[n] + 1]
    <3>1. height[n] \in Nat
      BY DEF PositionInv
    <3>2. height[n] + 1 \in 1 .. Len(chain)
      BY <2>1, <2>3, <3>1
    <3> QED
      BY <2>2, <3>2
  <2>4. \A n \in Nodes : height'[n] <= Len(chain')
    BY <2>1, <2>2 DEF PositionInv
  <2>5. ASSUME NEW n \in Nodes, pos'[n] > 0
        PROVE  height'[n] < Len(chain') /\ pos'[n] <= Len(chain'[height'[n] + 1])
    <3>1. height[n] \in Nat /\ height[n] < Len(chain) /\ pos[n] <= Len(chain[height[n] + 1])
      BY <2>1, <2>5 DEF PositionInv, Block
    <3> QED
      BY <2>1, <2>2, <2>3, <3>1
  <2> QED
    BY <2>1, <2>2, <2>4, <2>5 DEF PositionInv, Block
<1>3. ASSUME NEW n \in Nodes, DeliverTx(n) PROVE PositionInv'
  <2>1. UNCHANGED <<chain, height, home, misled>>
    BY <1>3 DEF DeliverTx
  <2>2. /\ height[n] < Len(chain) /\ pos[n] < Len(Block(n)) /\ Len(Block(n)) \in Nat
        /\ pos' = [pos EXCEPT ![n] = pos[n] + 1] /\ pos[n] \in Nat
    BY <1>3, Delivered DEF PositionInv
  <2>3. pos' \in [Nodes -> Nat] /\ pos'[n] <= Len(Block(n))
    BY <2>2 DEF PositionInv
  <2>4. \A m \in Nodes : m # n => pos'[m] = pos[m]
    BY <2>2 DEF PositionInv
  <2>5. ASSUME NEW m \in Nodes, pos'[m] > 0
        PROVE  height[m] < Len(chain) /\ pos'[m] <= Len(Block(m))
    BY <2>2, <2>3, <2>4, <2>5 DEF PositionInv
  <2> QED
    BY <2>1, <2>3, <2>5 DEF PositionInv, Block
<1>4. ASSUME NEW n \in Nodes, Commit(n) PROVE PositionInv'
  <2>1. /\ UNCHANGED <<chain, home, misled>> /\ height[n] < Len(chain)
        /\ height' \in [Nodes -> Nat] /\ height'[n] = height[n] + 1
        /\ pos' \in [Nodes -> Nat] /\ pos'[n] = 0
        /\ \A m \in Nodes : m # n => height'[m] = height[m] /\ pos'[m] = pos[m]
    BY <1>4, Committed
  <2>2. Len(chain) \in Nat /\ height[n] \in Nat
    BY DEF PositionInv
  <2>3. height'[n] <= Len(chain)
    BY <2>1, <2>2
  <2>4. ASSUME NEW m \in Nodes, m # n
        PROVE  /\ height'[m] <= Len(chain')
               /\ pos'[m] > 0 => height'[m] < Len(chain') /\ pos'[m] <= Len(chain'[height'[m] + 1])
    BY <2>1, <2>4 DEF PositionInv, Block
  <2> QED
    BY <2>1, <2>3, <2>4 DEF PositionInv, Block
<1>5. ASSUME NEW n \in Nodes, NEW h \in Nodes, OpenApp(n, h), misled' \subseteq Nodes
      PROVE  PositionInv'
  <2>1. /\ UNCHANGED <<chain, height>> /\ home' \in [Nodes -> Nodes]
        /\ pos' \in [Nodes -> Nat] /\ pos'[n] = 0
        /\ \A m \in Nodes : m # n => pos'[m] = pos[m]
    BY <1>5, Opened
  <2>2. ASSUME NEW m \in Nodes, m # n
        PROVE  pos'[m] > 0 => height'[m] < Len(chain') /\ pos'[m] <= Len(chain'[height'[m] + 1])
    BY <2>1, <2>2 DEF PositionInv, Block
  <2> QED
    BY <1>5, <2>1, <2>2 DEF PositionInv, Block
<1>6. ASSUME NEW n \in Nodes, Restart(n) PROVE PositionInv'
  BY <1>5, <1>6 DEF Restart, PositionInv
<1>7. ASSUME NEW n \in Nodes, NEW h \in Nodes, ReplayTxs(n, h) PROVE PositionInv'
  BY <1>5, <1>7 DEF ReplayTxs, PositionInv
<1> QED
  BY <1>1, <1>2, <1>3, <1>4, <1>6, <1>7 DEF Next, vars, WebChanges

LEMMA StoresKeep ==
  ASSUME ReplicasInv, [Next]_vars
  PROVE  StoresInv'
<1> USE DEF ReplicasInv
<1>1. CASE UNCHANGED <<committed, store>>
  BY <1>1 DEF StoresInv
<1>2. ASSUME NEW n \in Nodes, DeliverTx(n) PROVE StoresInv'
  <2>1. committed' = committed
    BY <1>2 DEF DeliverTx
  <2> QED
    BY <1>2, <2>1, Delivered DEF StoresInv
<1>3. ASSUME NEW n \in Nodes, Commit(n) PROVE StoresInv'
  BY <1>3, Committed DEF StoresInv
<1>4. ASSUME NEW n \in Nodes, NEW h \in Nodes, OpenApp(n, h) PROVE StoresInv'
  BY <1>4, Opened DEF StoresInv
<1> QED
  BY <1>1, <1>2, <1>3, <1>4
  DEF Next, vars, nodeVars, Propose, WebChanges, Restart, ReplayTxs

LEMMA DirKeep ==
  ASSUME ReplicasInv, [Next]_vars
  PROVE  DirInv'
<1> USE DEF ReplicasInv
<1>1. CASE UNCHANGED nodeVars
  BY <1>1 DEF nodeVars, DirInv
<1>2. ASSUME NEW n \in Nodes, DeliverTx(n) PROVE DirInv'
  <2>1. UNCHANGED <<committed, home, misled>>
    BY <1>2 DEF DeliverTx
  <2>2. ASSUME NEW m \in Nodes \ misled
        PROVE  CodesOnDisk(committed'[m], dir'[m]) /\ CodesOnDisk(store'[m], dir'[m])
    <3>1. dir[m] \subseteq dir'[m] /\ (m # n => store'[m] = store[m])
      BY <1>2, Delivered
    <3>2. CodesOnDisk(committed[m], dir[m]) /\ CodesOnDisk(store[m], dir[m])
      BY DEF DirInv
    <3>3. CodesOnDisk(committed[m], dir'[m]) /\ CodesOnDisk(store[m], dir'[m])
      BY <3>1, <3>2 DEF CodesOnDisk
    <3>4. m = n => CodesOnDisk(store'[m], dir'[m])
      BY <1>2, Delivered
    <3> QED
      BY <2>1, <3>1, <3>3, <3>4
  <2> QED
    BY <1>2, <2>1, <2>2, Delivered DEF DirInv
<1>3. ASSUME NEW n \in Nodes, Commit(n) PROVE DirInv'
  BY <1>3, Committed DEF DirInv
<1>4. ASSUME NEW n \in Nodes, Restart(n) PROVE DirInv'
  <2>1. OpenApp(n, n) /\ misled' = misled
    BY <1>4 DEF Restart
  <2> QED
    BY <2>1, Opened DEF DirInv
<1>5. ASSUME NEW n \in Nodes, NEW h \in Nodes, ReplayTxs(n, h) PROVE DirInv'
  <2>1. OpenApp(n, h) /\ misled' = misled \cup {n}
    BY <1>5 DEF ReplayTxs
  <2> QED
    BY <2>1, Opened DEF DirInv
<1> QED
  BY <1>1, <1>2, <1>3, <1>4, <1>5 DEF Next, vars, Propose, WebChanges

(* A store that only gains codes still has what it had.                       *)
LEMMA HasStays ==
  ASSUME NEW st, NEW new, NEW msg, Has(st, msg),
         \A c \in DOMAIN st.codes : c \in DOMAIN new.codes /\ new.codes[c] = st.codes[c]
  PROVE  Has(new, msg)
BY DEF Has

(* What a node has executed stays the same when the chain grows.              *)
LEMMA PastIsFixed ==
  ASSUME PositionInv, Propose
  PROVE  /\ \A n \in Nodes : \A h \in 1 .. height[n] : chain'[h] = chain[h]
         /\ \A n \in Nodes : height[n] < Len(chain) => Block(n)' = Block(n)
<1>1. /\ UNCHANGED height /\ Len(chain) \in Nat
      /\ \A h \in 1 .. Len(chain) : chain'[h] = chain[h]
  BY Proposed DEF PositionInv, nodeVars
<1>2. ASSUME NEW n \in Nodes, NEW h \in 1 .. height[n] PROVE h \in 1 .. Len(chain)
  BY <1>1 DEF PositionInv
<1>3. ASSUME NEW n \in Nodes, height[n] < Len(chain) PROVE height[n] + 1 \in 1 .. Len(chain)
  BY <1>1, <1>3 DEF PositionInv
<1> QED
  BY <1>1, <1>2, <1>3 DEF Block

LEMMA UploadsKeep ==
  ASSUME ReplicasInv, [Next]_vars
  PROVE  UploadsInv'
<1> USE DEF ReplicasInv
<1>1. CASE UNCHANGED <<chain, nodeVars>>
  BY <1>1 DEF nodeVars, UploadsInv, Block
<1>2. CASE Propose
  <2>1. UNCHANGED <<height, pos, committed, store>>
    BY <1>2 DEF Propose, nodeVars
  <2>2. ASSUME NEW n \in Nodes, NEW h \in 1 .. height[n], NEW i \in 1 .. Len(chain'[h])
        PROVE  Has(committed[n], chain'[h][i]) /\ Has(store[n], chain'[h][i])
    BY <1>2, PastIsFixed DEF UploadsInv
  <2>3. ASSUME NEW n \in Nodes, NEW i \in 1 .. pos[n] PROVE Has(store[n], Block(n)'[i])
    <3>1. pos[n] \in Nat /\ pos[n] > 0
      BY DEF PositionInv
    <3>2. Block(n)' = Block(n)
      BY <1>2, <3>1, PastIsFixed DEF PositionInv
    <3> QED
      BY <3>2 DEF UploadsInv
  <2> QED
    BY <2>1, <2>2, <2>3 DEF UploadsInv
<1>3. ASSUME NEW n \in Nodes, DeliverTx(n) PROVE UploadsInv'
  <2>1. UNCHANGED <<chain, height, committed>>
    BY <1>3 DEF DeliverTx
  <2>2. /\ pos'[n] = pos[n] + 1 /\ pos[n] \in Nat
        /\ \A m \in Nodes : m # n => pos'[m] = pos[m] /\ store'[m] = store[m]
        /\ Has(store'[n], Block(n)[pos[n] + 1])
        /\ \A c \in DOMAIN store[n].codes :
             c \in DOMAIN store'[n].codes /\ store'[n].codes[c] = store[n].codes[c]
    BY <1>3, Delivered DEF PositionInv, Msg
  <2>3. \A msg : Has(store[n], msg) => Has(store'[n], msg)
    BY <2>2, HasStays
  <2>4. ASSUME NEW i \in 1 .. pos'[n] PROVE Has(store'[n], Block(n)[i])
    <3>1. i = pos[n] + 1 \/ i \in 1 .. pos[n]
      BY <2>2
    <3> QED
      BY <2>2, <2>3, <3>1 DEF UploadsInv
  <2> QED
    BY <2>1, <2>2, <2>3, <2>4 DEF UploadsInv, Block
<1>4. ASSUME NEW n \in Nodes, Commit(n) PROVE UploadsInv'
  <2>1. /\ UNCHANGED <<chain, store>> /\ height[n] \in Nat
        /\ height'[n] = height[n] + 1 /\ pos[n] = Len(Block(n)) /\ pos'[n] = 0
        /\ committed'[n] = store[n]
        /\ \A m \in Nodes : m # n => /\ height'[m] = height[m] /\ pos'[m] = pos[m]
                                     /\ committed'[m] = committed[m]
    BY <1>4, Committed DEF PositionInv
  <2>2. ASSUME NEW h \in 1 .. height'[n], NEW i \in 1 .. Len(chain[h])
        PROVE  Has(store[n], chain[h][i])
    <3>1. CASE h = height[n] + 1
      BY <2>1, <3>1 DEF UploadsInv, Block
    <3>2. CASE h \in 1 .. height[n]
      BY <3>2 DEF UploadsInv
    <3> QED
      BY <2>1, <3>1, <3>2
  <2>3. 1 .. pos'[n] = {}
    BY <2>1
  <2> QED
    BY <2>1, <2>2, <2>3 DEF UploadsInv, Block
<1>5. ASSUME NEW n \in Nodes, NEW h \in Nodes, OpenApp(n, h) PROVE UploadsInv'
  <2>1. /\ UNCHANGED <<chain, height, committed>>
        /\ pos'[n] = 0 /\ store'[n] = committed[n]
        /\ \A m \in Nodes : m # n => pos'[m] = pos[m] /\ store'[m] = store[m]
    BY <1>5, Opened
  <2>2. 1 .. pos'[n] = {}
    BY <2>1
  <2> QED
    BY <2>1, <2>2 DEF UploadsInv, Block
<1> QED
  BY <1>1, <1>2, <1>3, <1>4, <1>5 DEF Next, vars, WebChanges, Restart, ReplayTxs

LEMMA HeaderIsAppended ==
  ASSUME NEW s, s \in Seq(Range(s)), NEW e
  PROVE  /\ Append(s, e) \in Seq(Range(Append(s, e))) /\ Len(s) \in Nat
         /\ Len(Append(s, e)) = Len(s) + 1 /\ Append(s, e)[Len(s) + 1] = e
         /\ \A i \in 1 .. Len(s) : Append(s, e)[i] = s[i]
<1> DEFINE S == Range(s) \cup {e}
           t == Append(s, e)
<1>1. s \in Seq(S)
  OBVIOUS
<1> HIDE DEF S
<1>2. /\ t \in Seq(S) /\ Len(s) \in Nat /\ Len(t) = Len(s) + 1 /\ t[Len(s) + 1] = e
      /\ \A i \in 1 .. Len(s) : t[i] = s[i]
  BY <1>1 DEF S
<1> HIDE DEF t
<1>3. t \in [1 .. Len(t) -> Range(t)]
  BY <1>2 DEF Range
<1>4. t \in Seq(Range(t))
  BY <1>2, <1>3
<1> QED
  BY <1>2, <1>4 DEF t

(* Commit by a node with its own home.                                        *)
LEMMA CommitExtends ==
  ASSUME NEW n \in Nodes, ReplicasInv, Commit(n)
  PROVE  /\ appHash' \in Seq(Range(appHash')) /\ Len(appHash) \in Nat
         /\ \/ appHash' = appHash /\ (n \notin misled => height[n] < Len(appHash))
            \/ /\ n \notin misled /\ Len(appHash) = height[n]
               /\ Len(appHash') = Len(appHash) + 1
               /\ appHash'[Len(appHash) + 1] = store[n]
         /\ \A h \in 1 .. Len(appHash) : appHash'[h] = appHash[h]
<1> USE DEF ReplicasInv
<1>1. appHash \in Seq(Range(appHash)) /\ Len(appHash) \in Nat /\ height[n] \in Nat
  BY HeaderIsAppended DEF HeadersInv, PositionInv
<1>2. CASE Len(appHash) = height[n] /\ n \notin misled
  <2>1. appHash' = Append(appHash, store[n])
    BY <1>2 DEF Commit
  <2> QED
    BY <1>1, <1>2, <2>1, HeaderIsAppended
<1>3. CASE ~(Len(appHash) = height[n] /\ n \notin misled)
  <2>1. appHash' = appHash
    BY <1>3 DEF Commit
  <2>2. n \notin misled => height[n] < Len(appHash)
    BY <1>1, <1>3 DEF HeadersInv
  <2> QED
    BY <1>1, <2>1, <2>2
<1> QED
  BY <1>2, <1>3

LEMMA HeadersKeep ==
  ASSUME ReplicasInv, [Next]_vars
  PROVE  HeadersInv'
<1> USE DEF ReplicasInv
<1>0. Len(appHash) \in Nat /\ Len(chain) \in Nat
  BY HeaderIsAppended DEF HeadersInv, PositionInv
<1>1. CASE UNCHANGED <<chain, nodeVars>>
  BY <1>1 DEF nodeVars, HeadersInv
<1>2. CASE Propose
  <2>1. UNCHANGED <<height, appHash, misled>> /\ Len(chain') = Len(chain) + 1
    BY <1>2, Proposed DEF PositionInv, nodeVars
  <2> QED
    BY <1>0, <2>1 DEF HeadersInv
<1>3. ASSUME NEW n \in Nodes, DeliverTx(n) PROVE HeadersInv'
  BY <1>3 DEF DeliverTx, HeadersInv
<1>4. ASSUME NEW n \in Nodes, Commit(n) PROVE HeadersInv'
  <2>1. /\ UNCHANGED <<chain, misled>> /\ height[n] < Len(chain) /\ height[n] \in Nat
        /\ height'[n] = height[n] + 1
        /\ \A m \in Nodes : m # n => height'[m] = height[m]
    BY <1>4, Committed DEF PositionInv
  <2>2. Len(appHash') \in Nat /\ Len(appHash) <= Len(appHash') /\ Len(appHash') <= Len(chain)
    BY <1>0, <1>4, <2>1, CommitExtends DEF HeadersInv
  <2>3. ASSUME NEW m \in Nodes \ misled PROVE height'[m] <= Len(appHash')
    <3>1. CASE m = n
      BY <1>0, <1>4, <2>1, <3>1, CommitExtends
    <3>2. CASE m # n
      BY <1>0, <2>1, <2>2, <3>2 DEF HeadersInv, PositionInv
    <3> QED
      BY <3>1, <3>2
  <2> QED
    BY <1>4, <2>1, <2>2, <2>3, CommitExtends DEF HeadersInv
<1>5. ASSUME NEW n \in Nodes, Restart(n) PROVE HeadersInv'
  BY <1>5 DEF Restart, OpenApp, HeadersInv
<1>6. ASSUME NEW n \in Nodes, NEW h \in Nodes, ReplayTxs(n, h) PROVE HeadersInv'
  BY <1>6 DEF ReplayTxs, OpenApp, HeadersInv
<1> QED
  BY <1>1, <1>2, <1>3, <1>4, <1>5, <1>6 DEF Next, vars, WebChanges

(* No source was asked before if none is now.                                 *)
LEMMA NoSourceBefore ==
  ASSUME ReplicasInv, [Next]_vars, NoSourceAsked'
  PROVE  NoSourceAsked
<1>1. CASE UNCHANGED chain
  BY <1>1 DEF NoSourceAsked
<1>2. CASE Propose
  <2>1. /\ Len(chain) \in Nat /\ Len(chain') = Len(chain) + 1
        /\ \A h \in 1 .. Len(chain) : chain'[h] = chain[h]
    BY <1>2, Proposed DEF ReplicasInv, PositionInv
  <2>2. \A h \in 1 .. Len(chain) : h \in 1 .. Len(chain')
    BY <2>1
  <2> QED
    BY <2>1, <2>2 DEF NoSourceAsked
<1> QED
  BY <1>1, <1>2
  DEF Next, vars, WebChanges, DeliverTx, Commit, Restart, ReplayTxs, OpenApp

(* A node that commits a block commits the store the header has or gets.      *)
LEMMA CommitAgrees ==
  ASSUME NEW n \in Nodes, ReplicasInv, AgreeInv, Commit(n), n \notin misled
  PROVE  /\ store[n] = appHash'[height[n] + 1]
         /\ Run(Block(n), Len(Block(n)), After(height[n]), store[n])
<1> USE DEF ReplicasInv
<1>1. /\ height[n] < Len(chain) /\ pos[n] = Len(Block(n)) /\ height[n] \in Nat
      /\ Len(Block(n)) \in Nat
  BY Committed DEF PositionInv
<1>2. Run(Block(n), Len(Block(n)), After(height[n]), store[n])
  BY <1>1 DEF AgreeInv
<1>3. CASE height[n] < Len(appHash) /\ appHash' = appHash
  <2>1. Len(appHash) \in Nat
    BY CommitExtends
  <2>2. height[n] + 1 \in 1 .. Len(appHash) /\ (height[n] + 1) - 1 = height[n]
    BY <1>1, <1>3, <2>1
  <2>3. Run(Block(n), Len(Block(n)), After(height[n]), appHash[height[n] + 1])
    BY <2>2 DEF AgreeInv, Block
  <2> QED
    BY <1>1, <1>2, <1>3, <2>3, RunIsUnique
<1>4. CASE Len(appHash) = height[n] /\ appHash'[Len(appHash) + 1] = store[n]
  BY <1>2, <1>4
<1> QED
  BY <1>3, <1>4, CommitExtends

LEMMA AgreeKeep ==
  ASSUME ReplicasInv, AgreeInv, NoSourceAsked, [Next]_vars
  PROVE  AgreeInv'
<1> USE DEF ReplicasInv
<1>0. Len(appHash) \in Nat /\ Len(chain) \in Nat /\ Len(appHash) <= Len(chain)
  BY HeaderIsAppended DEF HeadersInv, PositionInv
<1>1. CASE UNCHANGED <<chain, nodeVars>>
  BY <1>1 DEF nodeVars, AgreeInv, After, Block
<1>2. CASE Propose
  <2>1. UNCHANGED <<height, pos, committed, store, appHash, misled>>
    BY <1>2 DEF Propose, nodeVars
  <2>2. \A h \in 1 .. Len(appHash) : chain'[h] = chain[h]
    BY <1>0, <1>2, Proposed DEF PositionInv
  <2>3. ASSUME NEW n \in Nodes \ misled
        PROVE  Run(Block(n)', pos[n], committed[n], store[n])
    <3>1. CASE pos[n] > 0
      BY <1>2, <3>1, PastIsFixed DEF PositionInv, AgreeInv
    <3>2. CASE ~(pos[n] > 0)
      <4>1. pos[n] = 0
        BY <3>2 DEF PositionInv
      <4>2. store[n] = committed[n]
        BY <4>1 DEF AgreeInv, Run
      <4> QED
        BY <4>1, <4>2, RunStarts
    <3> QED
      BY <3>1, <3>2
  <2> QED
    BY <2>1, <2>2, <2>3 DEF AgreeInv, After
<1>3. ASSUME NEW n \in Nodes, DeliverTx(n) PROVE AgreeInv'
  <2>1. UNCHANGED <<chain, height, committed, appHash, misled>>
    BY <1>3 DEF DeliverTx
  <2>2. /\ pos'[n] = pos[n] + 1 /\ pos[n] \in Nat
        /\ \A m \in Nodes : m # n => pos'[m] = pos[m] /\ store'[m] = store[m]
        /\ height[n] < Len(chain) /\ pos[n] < Len(Block(n)) /\ Len(Block(n)) \in Nat
        /\ height[n] \in Nat
    BY <1>3, Delivered DEF PositionInv
  <2>3. height[n] + 1 \in 1 .. Len(chain) /\ pos[n] + 1 \in 1 .. Len(Block(n))
    BY <1>0, <2>2
  <2>4. Msg(n).type = "store" => Msg(n).source \notin Sources
    BY <2>3 DEF NoSourceAsked, Msg, Block
  <2>5. n \notin misled => Run(Block(n), pos'[n], committed[n], store'[n])
    BY <1>3, <2>2, <2>4, Delivered, RunGoesOn DEF AgreeInv, Msg
  <2> QED
    BY <2>1, <2>2, <2>5 DEF AgreeInv, After, Block
<1>4. ASSUME NEW n \in Nodes, Commit(n) PROVE AgreeInv'
  <2>1. /\ UNCHANGED <<chain, store, misled>> /\ height[n] \in Nat
        /\ height'[n] = height[n] + 1 /\ pos'[n] = 0 /\ committed'[n] = store[n]
        /\ \A m \in Nodes : m # n => /\ height'[m] = height[m] /\ pos'[m] = pos[m]
                                     /\ committed'[m] = committed[m]
    BY <1>4, Committed DEF PositionInv
  <2>2. \A h \in 0 .. Len(appHash) : After(h)' = After(h)
    BY <1>4, CommitExtends DEF After
  <2>3. ASSUME NEW h \in 1 .. Len(appHash')
        PROVE  Run(chain[h], Len(chain[h]), After(h - 1)', appHash'[h])
    <3>1. CASE h \in 1 .. Len(appHash)
      <4>1. After(h - 1)' = After(h - 1) /\ appHash'[h] = appHash[h]
        <5>1. h - 1 \in 0 .. Len(appHash)
          BY <1>0, <3>1
        <5> QED
          BY <1>4, <2>2, <3>1, <5>1, CommitExtends DEF After
      <4> QED
        BY <3>1, <4>1 DEF AgreeInv
    <3>2. CASE h \notin 1 .. Len(appHash)
      <4>1. /\ n \notin misled /\ Len(appHash) = height[n] /\ h = height[n] + 1
            /\ h - 1 = height[n] /\ height[n] \in 0 .. Len(appHash)
        BY <1>0, <1>4, <2>1, <3>2, CommitExtends
      <4>2. /\ store[n] = appHash'[h]
            /\ Run(chain[h], Len(chain[h]), After(height[n]), store[n])
        BY <1>4, <4>1, CommitAgrees DEF Block
      <4>3. (IF h - 1 = 0 THEN EmptyStore ELSE appHash'[h - 1]) = After(height[n])
        BY <1>4, <4>1, CommitExtends DEF After
      <4> QED
        BY <4>2, <4>3 DEF After
    <3> QED
      BY <3>1, <3>2
  <2>4. ASSUME NEW m \in Nodes \ misled PROVE committed'[m] = After(height[m])'
    <3>1. CASE m = n
      <4>1. committed'[n] = appHash'[height[n] + 1] /\ height[n] + 1 # 0
        BY <1>4, <2>1, <3>1, CommitAgrees
      <4> QED
        BY <2>1, <3>1, <4>1 DEF After
    <3>2. CASE m # n
      <4>1. height[m] \in 0 .. Len(appHash) /\ committed[m] = After(height[m])
        BY <1>0 DEF AgreeInv, HeadersInv, PositionInv
      <4>2. (IF height[m] = 0 THEN EmptyStore ELSE appHash'[height[m]]) = After(height[m])
        BY <1>4, <4>1, CommitExtends DEF After
      <4> QED
        BY <2>1, <3>2, <4>1, <4>2 DEF After
    <3> QED
      BY <3>1, <3>2
  <2>5. ASSUME NEW m \in Nodes \ misled
        PROVE  Run(Block(m)', pos'[m], committed'[m], store'[m])
    <3>1. CASE m = n
      BY <2>1, <3>1, RunStarts
    <3>2. CASE m # n
      BY <2>1, <3>2 DEF AgreeInv, Block
    <3> QED
      BY <3>1, <3>2
  <2> QED
    BY <2>1, <2>3, <2>4, <2>5 DEF AgreeInv
<1>5. ASSUME NEW n \in Nodes, NEW h \in Nodes, OpenApp(n, h), misled \subseteq misled'
      PROVE  AgreeInv'
  <2>1. /\ UNCHANGED <<chain, height, committed, appHash>>
        /\ pos'[n] = 0 /\ store'[n] = committed[n]
        /\ \A m \in Nodes : m # n => pos'[m] = pos[m] /\ store'[m] = store[m]
    BY <1>5, Opened
  <2>2. Run(Block(n), 0, committed[n], committed[n])
    BY RunStarts
  <2> QED
    BY <1>5, <2>1, <2>2 DEF AgreeInv, After, Block
<1> QED
  BY <1>1, <1>2, <1>3, <1>4, <1>5 DEF Next, vars, WebChanges, Restart, ReplayTxs

-----------------------------------------------------------------------------
(* The theorems *)

(* ReplicasInv holds of the nodes, whatever crashes and whoever replays.      *)
THEOREM ReplicasInvariant == Spec => []ReplicasInv
<1>1. Init => ReplicasInv
  <2>1. SUFFICES ASSUME Init PROVE ReplicasInv
    OBVIOUS
  <2>2. PositionInv
    BY <2>1 DEF Init, PositionInv
  <2>3. StoreInv(EmptyStore) /\ DOMAIN EmptyStore.codes = {}
    BY DEF StoreInv, EmptyStore
  <2>4. StoresInv
    BY <2>1, <2>3 DEF Init, StoresInv
  <2>5. UploadsInv
    BY <2>1 DEF Init, UploadsInv
  <2>6. DirInv
    BY <2>1, <2>3 DEF Init, DirInv, CodesOnDisk
  <2>7. HeadersInv
    BY <2>1 DEF Init, HeadersInv
  <2>8. AgreeInv
    <3>1. appHash = <<>> /\ \A n \in Nodes : /\ height[n] = 0 /\ pos[n] = 0
                                             /\ committed[n] = EmptyStore
                                             /\ store[n] = EmptyStore
      BY <2>1 DEF Init
    <3>2. \A n \in Nodes : Run(Block(n), 0, EmptyStore, EmptyStore)
      BY RunStarts
    <3> QED
      BY <3>1, <3>2 DEF AgreeInv, After
  <2> QED
    BY <2>2, <2>4, <2>5, <2>6, <2>7, <2>8 DEF ReplicasInv
<1>2. ReplicasInv /\ [Next]_vars => ReplicasInv'
  <2>1. SUFFICES ASSUME ReplicasInv, [Next]_vars PROVE ReplicasInv'
    OBVIOUS
  <2>2. NoSourceAsked' => AgreeInv'
    BY <2>1, NoSourceBefore, AgreeKeep DEF ReplicasInv
  <2> QED
    BY <2>1, <2>2, PositionKeep, StoresKeep, UploadsKeep, DirKeep, HeadersKeep
    DEF ReplicasInv
<1> QED
  BY <1>1, <1>2, PTL DEF Spec

(* All nodes that keep to their own home commit the same store at the same    *)
(* height, whatever has crashed in between, as long as no upload names a      *)
(* source: what the interrupted execution of a block leaves in wasmer's       *)
(* directory makes no difference (keeper.go, Create and Instantiate).         *)
THEOREM AgreeUnlessASourceIsAsked == Spec => [](NoSourceAsked => ReplicasAgree)
<1>1. ReplicasInv => (NoSourceAsked => ReplicasAgree)
  <2>1. SUFFICES ASSUME ReplicasInv, NoSourceAsked, NEW n \in Nodes \ misled, height[n] > 0
                 PROVE  committed[n] = appHash[height[n]]
    BY DEF ReplicasAgree
  <2>2. height[n] # 0
    BY <2>1 DEF ReplicasInv, PositionInv
  <2> QED
    BY <2>1, <2>2 DEF ReplicasInv, AgreeInv, After
<1> QED
  BY <1>1, ReplicasInvariant, PTL

(* A file the limits allow ends up in the store of every node: an allowed     *)
(* upload passes ValidateBasic and uncompress (msg.go, ioutil.go), and its    *)
(* code is never overwritten (keeper.go, autoIncrementID).                    *)
THEOREM GoodUploadsAreStored == Spec => []GoodUploadIsStored
<1>1. ReplicasInv => GoodUploadIsStored
  BY DEF ReplicasInv, UploadsInv, Has, GoodUploadIsStored
<1> QED
  BY <1>1, ReplicasInvariant, PTL

=============================================================================
