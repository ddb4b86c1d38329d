---------------------------- MODULE MCTeslaRound ----------------------------
(* One packet in each of two intervals; the key of interval i leaves in     *)
(* interval i + 1.                                                          *)
EXTENDS TeslaRound

MCSkews == {-1, 1}

(* Nothing depends on the absolute time: the round is ordered at tick 0.    *)
OrderedAtOnce == manager.start = 0 /\ manager'.start # 0 => now = 0

MCSpec == Init /\ [][Next /\ OrderedAtOnce]_vars
=============================================================================
