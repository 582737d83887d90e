------------------------ MODULE MCConnectionManager -------------------------
(***************************************************************************)
(* Small instances of ConnectionManager: two sessions, the code's limit of *)
(* ten attempts.                                                           *)
(***************************************************************************)
EXTENDS ConnectionManager

CONSTANTS s1, s2

MCSessions == {s1, s2}

BothUsable == [s \in MCSessions |-> "usable"]

OneInvalid == [s \in MCSessions |-> IF s = s1 THEN "usable" ELSE "invalid"]
=============================================================================
