------------------------------- MODULE MCDma -------------------------------
(* Two lines of source, of which the copies begin and end in the middle,   *)
(* and two of destination; the lines are of two words.                     *)
EXTENDS Dma

MCJobs == << [src |-> 3, dst |-> 6, len |-> 2],
             [src |-> 3, dst |-> 7, len |-> 3] >>
=============================================================================
