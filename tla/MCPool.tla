------------------------------- MODULE MCPool -------------------------------
(* Two miners, two share requests at a time and one restart.  For every     *)
(* template, one miner has a plain share and the other one a block.         *)
EXTENDS Pool

CONSTANTS m1, m2, h1, h2

MCSolutions == {<<m1, 1>>, <<m2, 2>>}

=============================================================================
