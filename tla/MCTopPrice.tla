---------------------------- MODULE MCTopPrice ----------------------------
(* One pair, two consumers, two hours.                                     *)
EXTENDS TopPrice

CONSTANTS w1, w2
MCWorkers == {w1, w2}
=============================================================================
