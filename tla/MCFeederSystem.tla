--------------------------- MODULE MCFeederSystem ---------------------------
(***************************************************************************)
(* Small instances of FeederSystem: one session on a cached socket; two    *)
(* sessions of one exchange on the default port, as the symbol_config.ini  *)
(* of the repository has them.                                             *)
(***************************************************************************)
EXTENDS FeederSystem, TLC

CONSTANTS s1, s2

OneSession == {s1}

TwoSessions == {s1, s2}

OnOtherPort == [s \in OneSession |-> "other"]

OnDefaultPort == [s \in TwoSessions |-> "default"]

OfOneExchange == [s \in Sessions |-> "OkxSpot"]

MCRawMessages == {[event |-> "trade", items |-> 0]}

AllUsable == [s \in Sessions |-> "usable"]

\* Two sessions that share everything can change places.
AlikeSessions == Permutations(TwoSessions)
=============================================================================
