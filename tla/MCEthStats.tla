----------------------------- MODULE MCEthStats ----------------------------
(* Frames of three EtherTypes, which come in any order.                    *)
EXTENDS EthStats

Kinds ==
    { [type |-> 2, dst |-> "me", len |-> 3],
      [type |-> 1, dst |-> "multicast", len |-> 4],
      [type |-> 2, dst |-> "other", len |-> 4],
      [type |-> 3, dst |-> "me", len |-> 3] }

NegativeLen == {-1}
=============================================================================
