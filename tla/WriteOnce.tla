------------------------------ MODULE WriteOnce ------------------------------
(***************************************************************************)
(* What the bundle store promises its clients: a growing map from urls to  *)
(* contents.  A put adds one url that was not there; nothing is changed or *)
(* removed, whatever the processes that store files go through.            *)
(***************************************************************************)
VARIABLE stored  \* set of pairs <<url, data>>

Init == stored = {}

Put(e) ==
  /\ \A x \in stored : x[1] # e[1]
  /\ stored' = stored \cup {e}

Next == \E e \in stored' \ stored : Put(e)

Spec == Init /\ [][Next]_stored
=============================================================================
