------------------------------- MODULE Bank -------------------------------
(***************************************************************************)
(* The parts of the SDK's x/auth and x/bank that x/wasm calls, as           *)
(* operators over a store record with the fields                            *)
(*                                                                          *)
(*    accts  the addresses that have an account                             *)
(*    bal    the balance of every address, in one denomination              *)
(*                                                                          *)
(* A list of coins is one integer: 0 is the empty list, a positive number   *)
(* a valid list, and InvalidCoins any list that fails Coins.IsValid         *)
(* (negative, zero-valued or unsorted coins).                               *)
(***************************************************************************)
EXTENDS Integers

InvalidCoins == -1

(* Coins.IsValid and the balance check of SubtractCoins.                    *)
CanSendAnything(st, from, amt) == amt >= 0
CanSend(st, from, amt) == amt >= 0 /\ st.bal[from] >= amt

(* bankKeeper.SendCoins: SubtractCoins, then AddCoins. SetCoins creates the  *)
(* accounts it does not find, also when the list of coins is empty.         *)
SendCoinsFromSnapshot(st, from, to, amt) ==
  [st EXCEPT !.accts = @ \cup {from, to},
             !.bal = [st.bal EXCEPT ![from] = @ - amt, ![to] = st.bal[to] + amt]]
SendCoins(st, from, to, amt) ==
  [st EXCEPT !.accts = @ \cup {from, to},
             !.bal = [[st.bal EXCEPT ![from] = @ - amt] EXCEPT ![to] = @ + amt]]

===========================================================================
