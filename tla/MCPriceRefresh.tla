---------------------------- MODULE MCPriceRefresh ----------------------------
(* An instance of PriceRefresh for TLC: every meter starts with one SKU, on   *)
(* the first page, and a card that agrees with the lists.                    *)
EXTENDS PriceRefresh, TLC

CONSTANTS r1, r2

Asked == {<<"azure", "aws">>, <<"gcp">>, <<"other">>}
Keys == {{"aws"}}
Processes == Permutations({r1, r2})

MCInit ==
  /\ listing = [m \in Meters |-> {<<1, 1>>}]
  /\ file \in {[rates |-> [m \in Cells |-> 1], asOf |-> [c \in Clouds |-> 0],
                marked |-> Clouds]}
  /\ Init

MCSpec == MCInit /\ [][Next]_vars
=============================================================================
