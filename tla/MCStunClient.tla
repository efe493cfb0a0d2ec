----------------------------- MODULE MCStunClient -----------------------------
(* Instances of StunClient for TLC. *)
EXTENDS StunClient

CONSTANTS first, second

MCThreads == {first, second}
MCEphemeral == {40000, 65535}

\* Bound: lost and strange datagrams and failed sends are explored in runs that
\* do not overlap.  What is cut off are states with an overlap, where RunsEnd asks
\* for nothing more.
FaultsAlone == overlap => lost + noise + sendFailed = 0

\* The runs are alike: the first to begin is called first.
InOrder == pc[first] = "idle" => pc[second] = "idle"
===============================================================================
