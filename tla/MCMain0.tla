------------------------------ MODULE MCMain0 ------------------------------
(* Screens with an odd and an even number of lines, with words beyond the  *)
(* visible ones and without.                                               *)
EXTENDS Main0

MCModes == {[width |-> 4, height |-> 3, pitch |-> 5],
            [width |-> 5, height |-> 4, pitch |-> 5]}
=============================================================================
