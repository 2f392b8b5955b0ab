------------------------------ MODULE Registry ------------------------------
(***************************************************************************)
(* How x/wasm numbers what it stores: the counters under KeyLastCodeID and  *)
(* KeyLastInstanceID, and the codes by their ids.                           *)
(***************************************************************************)
EXTENDS Integers

CONSTANT Nil  \* no value

(* store.Set *)
Put(f, k, v) == [x \in DOMAIN f \cup {k} |-> IF x = k THEN v ELSE f[x]]

(* The id the counter under KeyLastCodeID or KeyLastInstanceID yields next: *)
(* a counter nobody has written stands for 1.                               *)
NextID(counter) == IF counter = Nil THEN 1 ELSE counter

(* autoIncrementID hands out NextID and stores the id after it.             *)
BumpFromStored(counter) == IF counter = Nil THEN 1 ELSE counter + 1
Bump(counter) == NextID(counter) + 1

(* The end of Create: a new id and the code's info under it.                *)
WithCode(st, creator, w) ==
  [st EXCEPT !.lastCodeID = Bump(@),
             !.codes = Put(@, NextID(st.lastCodeID), [hash |-> w, creator |-> creator])]

(* generateContractAddress takes the next instance id.                      *)
WithInstanceID(st) == [st EXCEPT !.lastInstanceID = Bump(@)]

=============================================================================
