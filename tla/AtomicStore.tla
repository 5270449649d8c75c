---------------------------- MODULE AtomicStore -----------------------------
(***************************************************************************)
(* What src/storage promises its callers: a map from keys to values that   *)
(* changes one key at a time, from one whole value to another, and never   *)
(* again for a key written with write_once.  Module Store implements it.   *)
(***************************************************************************)
CONSTANTS Keys, Values, OnceKeys, Missing

VARIABLE contents  \* what read(key) returns, or Missing (MissingKeyError)

Init == contents = [k \in Keys |-> Missing]

\* write, or write_once for the keys of OnceKeys.
Write(k, v) ==
  /\ k \in OnceKeys => contents[k] = Missing
  /\ contents' = [contents EXCEPT ![k] = v]

Next == \E k \in Keys, v \in Values : Write(k, v)

Spec == Init /\ [][Next]_contents
=============================================================================
