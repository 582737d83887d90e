----------------------------- MODULE MCBookFeed -----------------------------
(***************************************************************************)
(* A small instance of BookFeed: three bids, of which two scale to the     *)
(* same integer, and two asks; quantities that scale exactly, that lose a  *)
(* unit, that are off by several units up or down, and that are too large; *)
(* packets of two items.  The products are those of a floating-point       *)
(* format with 8 bits of precision in place of 53, so that 2^7 stands for  *)
(* 2^52, and a field of 10 bits in place of 63.                            *)
(***************************************************************************)
EXTENDS BookFeed

MCPrices == {58, 59, 61, 63, 65}

MCQuantities == {0, 1, 31, 523, 529, 2000}

MCProduct ==
  [k \in MCPrices \cup MCQuantities |->
     CASE k = 31  -> 30
       [] k = 59  -> 58
       [] k = 523 -> 520
       [] k = 529 -> 532
       [] OTHER   -> k]

L(p, q) == [price |-> p, quantity |-> q]

\* Unsorted lists, whole and partial packets, removals, one side only.
MCUpdates ==
  {[bids |-> << L(58, 1), L(61, 31) >>, asks |-> << L(65, 523), L(63, 2000) >>],
   [bids |-> << L(61, 529), L(58, 31), L(59, 1) >>, asks |-> << L(63, 0), L(65, 31) >>],
   [bids |-> << L(61, 0) >>, asks |-> << L(63, 31) >>],
   [bids |-> << L(61, 2000), L(59, 0) >>, asks |-> << >>],
   [bids |-> << >>, asks |-> << L(65, 0), L(63, 0) >>]}
=============================================================================
