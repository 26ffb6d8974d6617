---------------------------- MODULE MCGuardScan ----------------------------
(* Every list of at most MaxInput samples over a pool of two systems in    *)
(* which each repair can happen, alone and after another one.              *)
EXTENDS GuardScan

CONSTANTS MaxInput

MCSystems == <<"a", "b">>
MCName == {"m", "n", guardMetric}
MCHelp == {"h1", "h2", guardHelp}
MCGoodKey == {systemLabel, reasonLabel, "k"}
MCKey == MCGoodKey \cup {"bad-key"}
MCGoodValue == {"a", "b", "v"} \cup Reason
MCValue == MCGoodValue \cup {"not-utf8"}

Raw(n, t, h, labels, v) ==
  [name |-> n, help |-> h, type |-> t, labels |-> labels, value |-> v]
kv(k, v) == [key |-> k, value |-> v]

(* The same two labels in either order are one series. *)
Series1(sys, h, v) == Raw("m", "Gauge", h, <<kv("k", "v"), kv(systemLabel, sys)>>, v)
Series1Swapped(sys) == Raw("m", "Gauge", "h1", <<kv(systemLabel, sys), kv("k", "v")>>, 2)

Pool ==
  { Series1("a", "h1", 1), Series1("b", "h2", 1), Series1Swapped("a"),
    withSystem(Raw("m", "Counter", "h1", <<kv("k", "v")>>, 3), "b"),
    withSystem(Raw("m", "Gauge", "h1", <<>>, 4), "b"),
    withSystem(Raw("n", "Counter", "h1", <<kv("k", "v")>>, 5), "a"),
    withSystem(Raw("m", "Counter", "h2", <<kv("bad-key", "v")>>, 6), "a"),
    withSystem(Raw("n", "Gauge", "h2", <<kv("k", "not-utf8")>>, 7), "b"),
    withSystem(Raw("n", "Gauge", "h2", <<kv("k", "v"), kv("k", "a")>>, 8), "b") }

MCInputs == UNION {[1..n -> Pool] : n \in 0..MaxInput}
=============================================================================
