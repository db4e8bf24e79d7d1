--------------------------- MODULE MCTunnelSession ---------------------------
(***************************************************************************)
(* Values of TunnelSession's constants for TLC.                            *)
(***************************************************************************)
EXTENDS TunnelSession, TLC

(* No answer, "infinite", and a budget of one unit.                         *)
AnyLimit == {None, -1, 1}

(* No answer or a budget of one unit: for runs about the processes rather   *)
(* than the choice of the limit.                                            *)
OneLimit == {None, 1}

(* Processes of a kind are interchangeable (MayCrash holds all of a kind or *)
(* none).                                                                   *)
Symmetry == Permutations(Operators) \cup Permutations(Runners)
==============================================================================
