------------------------------ MODULE MCPortal ------------------------------
(***************************************************************************)
(* The portal's parts on small instances.                                  *)
(***************************************************************************)
EXTENDS Portal

\* Two spellings of one address, and another address.
MCLower == [s \in {"ada@x", "Ada@x", "bob@x"} |-> IF s = "bob@x" THEN "bob@x" ELSE "ada@x"]

\* Two tabs share a browser.
MCHome == [t \in {"t1", "t2", "t3"} |-> IF t = "t3" THEN "browser2" ELSE "browser1"]

\* Two views that have a row in common.
MCListed == [v \in {"v1", "v2"} |-> IF v = "v1" THEN {1, 2, 3} ELSE {3}]

\* One voter with the key file in two tabs; the other key image is somebody else's.
MCKeys == [b \in {"b1", "b2"} |-> {"k1"}]

\* Two selections of one view, and one of another.
MCScreen == {[view |-> "v1", people |-> {"ann"}], [view |-> "v1", people |-> {"ben"}],
             [view |-> "v2", people |-> {"ann", "ben"}]}

\* A swap, a candidate named twice, and a rotation.
MCOrders == {<<2, 1>>, <<1, 1>>, <<3, 1, 2>>}

\* Two groups that share a voter, of different sizes and orders.
MCGroup == [g \in {"g1", "g2"} |-> IF g = "g1" THEN <<1, 2>> ELSE <<2, 4, 1>>]

\* A clock behind by some minutes, and two instants it gives one reading.
MCClock == <<2, 3, 3>>
=============================================================================
