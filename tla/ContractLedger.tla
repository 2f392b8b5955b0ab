--------------------------- MODULE ContractLedger ---------------------------
(***************************************************************************)
(* What x/wasm promises the rest of the chain: a ledger of codes, contracts *)
(* and balances on which a transaction is one atomic step. Codes and        *)
(* contracts are only ever added, codes get consecutive numbers, a contract *)
(* is created on an address nobody has used, and nobody's coins are spent   *)
(* but those of the account that signed and of contracts.                   *)
(***************************************************************************)
EXTENDS Integers

CONSTANT Users

VARIABLE ledger  \* a record with (at least) codes, contracts, accts, bal

Extends(old, new) ==
  /\ DOMAIN old \subseteq DOMAIN new
  /\ \A x \in DOMAIN old : new[x] = old[x]

Numbered(codes) ==
  \A i \in DOMAIN codes : i >= 1 /\ (i > 1 => i - 1 \in DOMAIN codes)

Init == DOMAIN ledger.codes = {} /\ DOMAIN ledger.contracts = {}

Transaction(u) ==
  /\ Extends(ledger.codes, ledger'.codes) /\ Numbered(ledger'.codes)
  /\ Extends(ledger.contracts, ledger'.contracts)
  /\ \A a \in DOMAIN ledger'.contracts \ DOMAIN ledger.contracts :
       /\ a \notin ledger.accts /\ a \in ledger'.accts
       /\ ledger'.contracts[a].code \in DOMAIN ledger'.codes
  /\ ledger.accts \subseteq ledger'.accts
  /\ \A v \in Users \ {u} : ledger'.bal[v] >= ledger.bal[v]

Next == \E u \in Users : Transaction(u)

Spec == Init /\ [][Next]_ledger

=============================================================================
