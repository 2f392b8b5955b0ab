------------------------------ MODULE Replicas ------------------------------
(***************************************************************************)
(* Several nodes execute the same chain of blocks, each at its own speed.   *)
(* A node may stop at any point; it then starts again from the store of the *)
(* last block it has committed and executes the interrupted block anew.     *)
(* Two things it touches are not part of that store: wasmer's directory,    *)
(* which keeps what the interrupted block has written, and the web, which   *)
(* ValidateBasic asks for the source of an upload.                          *)
(*                                                                          *)
(* wasmd replay executes the blocks a stopped node still has, on that       *)
(* node's databases. The application it runs takes wasmer's directory from  *)
(* the home flag, which may be the home of another node.                    *)
(*                                                                          *)
(* A transaction is one message, an upload or an instantiation; contracts   *)
(* are deterministic programs. What transactions of several messages and    *)
(* what contracts can do is the subject of the module Keeper.               *)
(***************************************************************************)
EXTENDS Upload, SequencesExt

CONSTANTS
  Nodes,
  MaxTxs,       \* bound: transactions on the chain
  MaxBlocks,    \* bound: blocks
  MaxCrashes,   \* bound: crashes of all nodes together
  MaxChanges    \* bound: changes of the web

ASSUME BoundsAreNatural ==
  MaxTxs \in Nat /\ MaxBlocks \in Nat /\ MaxCrashes \in Nat /\ MaxChanges \in Nat

VARIABLES
  chain,      \* the blocks, each a sequence of messages
  web,        \* how each source answers: "ok", "down", or not at all
  height,     \* the last block each node has committed
  committed,  \* its store at that height
  pos,        \* how many messages of the next block it has executed
  store,      \* its store with these
  dir,        \* its wasmer directory, on disk
  appHash,    \* the store after each block, as the next block's header has it
  home,       \* the home whose wasmer directory its process has opened
  misled,     \* the nodes that were replayed under the home of another
  crashes, changes

nodeVars == <<height, committed, pos, store, dir, appHash, home, misled>>
vars == <<chain, web, nodeVars, crashes, changes>>

Answers == {"ok", "down", "silent"}

EmptyStore == [lastCodeID |-> Nil, lastInstanceID |-> Nil,
               codes |-> [i \in {} |-> Nil], contracts |-> [a \in {} |-> Nil]]

Init ==
  /\ chain = <<>> /\ web \in [Sources -> Answers]
  /\ height = [n \in Nodes |-> 0] /\ pos = [n \in Nodes |-> 0]
  /\ committed = [n \in Nodes |-> EmptyStore]
  /\ store = [n \in Nodes |-> EmptyStore]
  /\ dir = [n \in Nodes |-> {}] /\ appHash = <<>>
  /\ home = [n \in Nodes |-> n] /\ misled = {}
  /\ crashes = 0 /\ changes = 0

---------------------------------------------------------------------------

Uploads ==
  ForeignMsgs \cup UNION {StoreCodeCmd(f, web) \cup StoreCodeHandlerFn(f, web) : f \in Files}
Instantiations == [type : {"instantiate"}, codeID : 1 .. MaxTxs]

NumTxs == FoldSeq(LAMBDA b, n : Len(b) + n, 0, chain)

(* Consensus, which is not the application's: a block of transactions that  *)
(* clients have made. What a client checked was the web of that moment.     *)
Propose ==
  /\ Len(chain) < MaxBlocks
  /\ \E k \in 1 .. MaxTxs :
       /\ NumTxs + k <= MaxTxs
       /\ \E block \in [1 .. k -> Uploads \cup Instantiations] :
            chain' = Append(chain, block)
  /\ UNCHANGED <<web, nodeVars, crashes, changes>>

(* A source goes down, comes up, or accepts connections without an answer.  *)
WebChanges ==
  /\ changes < MaxChanges
  /\ \E u \in Sources, answer \in Answers :
       web[u] # answer /\ web' = [web EXCEPT ![u] = answer]
  /\ changes' = changes + 1
  /\ UNCHANGED <<chain, nodeVars, crashes>>

---------------------------------------------------------------------------
(* A node *)

Block(n) == chain[height[n] + 1]
Dir(n) == dir[home[n]]

(* ApplyBlock validates a block before it executes it: the header holds the *)
(* hash of the store after the block before.                                *)
HeaderMatches(n) ==
  height[n] > 0 => Len(appHash) >= height[n] /\ committed[n] = appHash[height[n]]
Executing(n) ==
  height[n] < Len(chain) /\ pos[n] < Len(Block(n)) /\ HeaderMatches(n)
Msg(n) == Block(n)[pos[n] + 1]

(* http.Get has no timeout: DeliverTx waits for as long as a source keeps   *)
(* it waiting.                                                              *)
AnsweredOk(msg) == msg.source \in Sources => web[msg.source] = "ok"
Answered(msg) == msg.source \in Sources => web[msg.source] # "silent"

(* handleStoreCode and Create, on node n.                                   *)
StoreCode(n, msg) ==
  LET code == Uncompress(msg.code)
  IN IF ValidateBasic(msg, web) /\ WasmerAccepts(code, Dir(n))
     THEN /\ store' = [store EXCEPT ![n] = WithCode(@, Nil, code.of)]
          /\ dir' = [dir EXCEPT ![home[n]] = @ \cup {code.of}]
     ELSE UNCHANGED <<store, dir>>

(* Instantiate: the code must be known, and wasmer must have it. The        *)
(* contracts of this module start without failing, deposit or messages.     *)
WithContract(st, codeID) ==
  [WithInstanceID(st) EXCEPT
     !.contracts = Put(@, <<codeID, NextID(st.lastInstanceID)>>, codeID)]
Instantiate(n, codeID) ==
  IF codeID \in DOMAIN store[n].codes /\ store[n].codes[codeID].hash \in Dir(n)
  THEN store' = [store EXCEPT ![n] = WithContract(@, codeID)]
  ELSE UNCHANGED store

DeliverTx(n) ==
  /\ Executing(n)
  /\ \/ /\ Msg(n).type = "store" /\ Answered(Msg(n))
        /\ StoreCode(n, Msg(n))
     \/ /\ Msg(n).type = "instantiate"
        /\ Instantiate(n, Msg(n).codeID)
        /\ UNCHANGED dir
  /\ pos' = [pos EXCEPT ![n] = @ + 1]
  /\ UNCHANGED <<chain, web, height, committed, appHash, home, misled, crashes, changes>>

(* The first node to commit a block determines the header of the next; a    *)
(* replay takes no part in consensus. The application's commit and          *)
(* Tendermint's record of it are one step: after a crash between them       *)
(* Tendermint's handshake finds the application ahead and does not execute  *)
(* the block again.                                                         *)
Commit(n) ==
  /\ height[n] < Len(chain) /\ pos[n] = Len(Block(n))
  /\ height' = [height EXCEPT ![n] = @ + 1]
  /\ committed' = [committed EXCEPT ![n] = store[n]]
  /\ pos' = [pos EXCEPT ![n] = 0]
  /\ appHash' = IF Len(appHash) = height[n] /\ n \notin misled
                THEN Append(appHash, store[n]) ELSE appHash
  /\ UNCHANGED <<chain, web, store, dir, home, misled, crashes, changes>>

(* The process ends and NewWasmApp opens the same home: LoadLatestVersion   *)
(* finds the last committed store, wasmer its directory as it was.          *)
OpenApp(n, h) ==
  /\ store' = [store EXCEPT ![n] = committed[n]]
  /\ pos' = [pos EXCEPT ![n] = 0]
  /\ home' = [home EXCEPT ![n] = h]
  /\ UNCHANGED <<chain, web, height, committed, dir, appHash, changes>>

Restart(n) ==
  /\ crashes < MaxCrashes
  /\ pos[n] > 0 \/ home[n] # n
  /\ OpenApp(n, n)
  /\ crashes' = crashes + 1
  /\ UNCHANGED misled

(* replayTxs on the databases of n, by a user whose home is that of h. The  *)
(* blocks that n has and has not applied are executed; then, or when a      *)
(* block does not fit, replay ends. The copy of the databases, of which the *)
(* code speaks, is switched off (if false).                                 *)
ReplayTxs(n, h) ==
  /\ crashes < MaxCrashes /\ height[n] < Len(chain) /\ home[n] # h
  /\ OpenApp(n, h)
  /\ crashes' = crashes + 1
  /\ misled' = misled \cup {n}

Next ==
  \/ Propose \/ WebChanges
  \/ \E n \in Nodes : DeliverTx(n) \/ Commit(n) \/ Restart(n)
  \/ \E n \in Nodes : \E h \in Nodes \ {n} : ReplayTxs(n, h)

Spec == Init /\ [][Next]_vars

(* A running node executes the blocks it has: Tendermint calls it for each  *)
(* that fits its store, and then waits for nothing but its answers.         *)
FairSpec == Spec /\ \A n \in Nodes : WF_vars(DeliverTx(n) \/ Commit(n))

---------------------------------------------------------------------------

(* Every node that has executed a block holds the store the others hold:    *)
(* the result does not depend on when a node executes the block, nor on     *)
(* what an interrupted attempt, or the replay of another node's blocks, has *)
(* left in wasmer's directory. A node that was itself replayed under another *)
(* home may miss byte code afterwards; it is left out.                      *)
(* app/sim_test.go:619 asserts it of two runs of the application.           *)
ReplicasAgree ==
  \A n \in Nodes \ misled : height[n] > 0 => committed[n] = appHash[height[n]]

(* A file the limits allow ends up in the store of every node: the limits   *)
(* of the REST server, of ValidateBasic and of uncompress, which are        *)
(* constants of three packages, fit together.                               *)
Allowed(msg) ==
  /\ msg.type = "store" /\ msg.source = "none" /\ msg.builder # "invalid"
  /\ \E w \in Wasms : WasmSize[w] <= MaxSize /\ msg.code \in GzipIt(Module(w))
GoodUploadIsStored ==
  \A n \in Nodes : \A h \in 1 .. height[n] : \A i \in 1 .. Len(chain[h]) :
    Allowed(chain[h][i]) =>
      \E c \in DOMAIN committed[n].codes :
        committed[n].codes[c].hash = chain[h][i].code.of.of

(* keeper/ioutil_test.go:60: a stream that expands to more than maxSize     *)
(* bytes is an error, and not cut off.                                      *)
BigOutputRefused ==
  \A h \in 1 .. Len(chain) : \A i \in 1 .. Len(chain[h]) :
    LET msg == chain[h][i]
    IN /\ msg.type = "store" /\ ValidateBasic(msg, web)
       /\ IsGzip(msg.code) /\ msg.code.of.size > MaxSize
       => Uncompress(msg.code) = Failed

(* No upload on the chain asks the web for its source.                      *)
NoSourceAsked ==
  \A i \in 1 .. Len(chain) : \A j \in 1 .. Len(chain[i]) :
    chain[i][j].type = "store" => chain[i][j].source \notin Sources

(* DeliverTx is inside http.Get, and the source does not answer.            *)
WaitsForSource(n) ==
  /\ Executing(n) /\ Msg(n).type = "store"
  /\ Msg(n).source \in Sources /\ web[Msg(n).source] = "silent"

(* Every node executes every block, whatever the others do and however      *)
(* often it is started again, but for two things that an upload with a      *)
(* source can do to it: http.Get may keep it waiting for ever, and an       *)
(* answer other than the one that others got may put its store at odds with *)
(* theirs, so that it refuses the next block. (A node that was replayed     *)
(* under another home is left out, as in ReplicasAgree.)                    *)
CatchUp ==
  \A n \in Nodes : \A h \in 1 .. MaxBlocks :
    Len(chain) >= h ~>
      \/ height[n] >= h \/ n \in misled
      \/ []WaitsForSource(n) \/ (~NoSourceAsked /\ ~HeaderMatches(n))

=============================================================================
