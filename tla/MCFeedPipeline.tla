--------------------------- MODULE MCFeedPipeline ---------------------------
(***************************************************************************)
(* Small instances of FeedPipeline: two sessions, a default and one other  *)
(* port.                                                                   *)
(***************************************************************************)
EXTENDS FeedPipeline

CONSTANTS s1, s2

MCSessions == {s1, s2}

MCPorts == {"default", "other"}

\* One session on the default socket, one on a socket of the cache.
TwoPorts == [s \in MCSessions |-> IF s = s1 THEN "default" ELSE "other"]

\* Both sessions race for the same entry of the socket cache.
OneOtherPort == [s \in MCSessions |-> "other"]

\* A Binance session and one of an exchange whose parser is the stub.
MixedExchanges == [s \in MCSessions |->
                     IF s = s1 THEN "BinanceSpot" ELSE "OkxSpot"]

BothBinance == [s \in MCSessions |-> "BinanceSpot"]

\* A message of two packets.
SplitMessages == {[event |-> "depthUpdate", items |-> 81]}

\* Every event type; a depth update without a positive level builds nothing.
AllMessages == {[event |-> "depthUpdate", items |-> 81],
                [event |-> "depthUpdate", items |-> 0]}
               \cup [event : EventTypes \ {"depthUpdate"}, items : {0}]

AllFaults == FaultKinds

OneJobEach == [s \in MCSessions |-> 1]

TwoJobsEach == [s \in MCSessions |-> 2]
=============================================================================
