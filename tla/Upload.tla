------------------------------- MODULE Upload -------------------------------
(***************************************************************************)
(* The way of a wasm file into the chain: what the command line and the     *)
(* REST server make of it, what MsgStoreCode.ValidateBasic lets through,    *)
(* and what uncompress hands to wasmer.                                     *)
(*                                                                          *)
(* Contents are described by their format, their length and what they are   *)
(* made of: a wasm module, the first bytes of one that was cut off, a gzip  *)
(* stream of some other content, or anything else. A stream is intact if    *)
(* what uncompress reads of it is: that is all of it, with the checksum at  *)
(* its end, unless it expands to more than MaxSize bytes; damage behind     *)
(* these goes unnoticed.                                                    *)
(***************************************************************************)
EXTENDS Registry

CONSTANTS
  Wasms,         \* wasm modules, named by their hash
  WasmSize,      \* the length of each
  JunkSizes,     \* lengths of contents that are neither wasm nor gzip
  MaxSize,       \* what uncompress reads of a stream, and REST of a file
  MaxWasmSize,   \* what ValidateBasic lets a message carry
  GzipOverhead,  \* by how much compression can lengthen a file
  Sources        \* URLs an uploader can name

ASSUME ModulesHaveSizes == WasmSize \in [Wasms -> Nat \ {0}]
ASSUME SizesAreNatural ==
  /\ JunkSizes \subseteq Nat /\ GzipOverhead \in Nat
  /\ MaxSize \in Nat \ {0} /\ MaxWasmSize \in Nat
ASSUME NamesAreNoOthers == Nil \notin Nat /\ {"none", "invalid"} \cap Sources = {}
(* 400 KiB and some bytes of gzip framing against 500 KiB.                  *)
ASSUME LimitsLeaveRoom == MaxSize + GzipOverhead <= MaxWasmSize

Module(w) == [fmt |-> "wasm", size |-> WasmSize[w], of |-> w, intact |-> TRUE]
Junk(n) == [fmt |-> "junk", size |-> n, of |-> Nil, intact |-> TRUE]
Plain == {Module(w) : w \in Wasms} \cup {Junk(n) : n \in JunkSizes}

Gzip(b, n, intact) == [fmt |-> "gzip", size |-> n, of |-> b, intact |-> intact]

(* The best and the worst that compression can make of b.                   *)
ZipSizes(b) == {1, b.size + GzipOverhead}
Files ==
  Plain \cup UNION {{Gzip(b, n, i) : n \in ZipSizes(b), i \in BOOLEAN} : b \in Plain}

---------------------------------------------------------------------------
(* The clients *)

(* They look at the first bytes only. (With fewer bytes than that the       *)
(* command panics, which makes no message either.)                          *)
IsWasm(b) == b.fmt = "wasm"
IsGzip(b) == b.fmt = "gzip"

GzipIt(b) == {Gzip(b, n, TRUE) : n \in ZipSizes(b)}

(* A wasm file is compressed, a gzip file is passed on, others are refused. *)
Compressed(file) ==
  IF IsWasm(file) THEN GzipIt(file) ELSE {file} \cap {f \in Files : IsGzip(f)}

(* No builder is valid, and so is a docker tag with the right prefix.       *)
Builders == {"valid", "invalid"}
Urls == Sources \cup {"none", "invalid"}

(* MsgStoreCode.ValidateBasic. It fetches the source, so that its result    *)
(* depends on the state of the web at the moment of the call.               *)
ValidateBasic(msg, web) ==
  /\ msg.code.size > 0 /\ msg.code.size <= MaxWasmSize
  /\ msg.source # "invalid"
  /\ msg.source \in Sources => web[msg.source] = "ok"
  /\ msg.builder # "invalid"

StoreMsgs(codes, sources, builders) ==
  [type : {"store"}, code : codes, source : sources, builder : builders]

StoreCodeCmd(file, web) ==
  {m \in StoreMsgs(Compressed(file), Urls, Builders) : ValidateBasic(m, web)}

(* The REST server limits the file and knows neither source nor builder.    *)
StoreCodeHandlerFn(file, web) ==
  {m \in StoreMsgs(Compressed(file), {"none"}, {"valid"}) :
     file.size <= MaxSize /\ ValidateBasic(m, web)}

(* Messages of other programs carry what they like: here, what this module  *)
(* can describe, compressed or not.                                         *)
ForeignMsgs == StoreMsgs(Files, Urls, Builders)

---------------------------------------------------------------------------
(* The chain *)

Failed == [fmt |-> "error", size |-> 0, of |-> Nil, intact |-> FALSE]

Cut(b) == [b EXCEPT !.fmt = "cut", !.size = MaxSize]

(* What is not gzip is taken as it is, whatever its length. Of a stream     *)
(* MaxSize bytes are read, and reaching that limit is not an error; damage  *)
(* to the stream within these bytes is.                                     *)
UncompressShort(b) ==
  IF ~IsGzip(b) THEN b
  ELSE IF ~b.intact THEN Failed
  ELSE IF b.of.size >= MaxSize THEN Cut(b.of) ELSE b.of
Uncompress(b) ==
  IF ~IsGzip(b) THEN b
  ELSE IF ~b.intact THEN Failed
  ELSE IF b.of.size > MaxSize THEN Cut(b.of) ELSE b.of

(* wasmer.Create compiles the module: one that was cut off is refused. It   *)
(* does not mind a module it already has.                                   *)
WasmerRefusesKnown(b, dir) ==
  b.fmt = "wasm" /\ b.of \notin dir
WasmerAccepts(b, dir) == b.fmt = "wasm"

=============================================================================
