----------------------------- MODULE MCMailbox -----------------------------
(* The shapes of the requests of the repository: one tag with a one-word   *)
(* value (vpu_malloc's lock), two tags of different sizes (fb_init), the   *)
(* same with a tag the callback refuses, and one that is too large.        *)
EXTENDS Mailbox

MCRequests ==
  { [words |-> <<0, 0, 3, 4, 0, 7, 0>>, tags |-> {2}],
    [words |-> <<0, 0, 4, 8, 0, 7, 7, 3, 4, 0, 7, 0>>, tags |-> {2, 7}],
    [words |-> <<0, 0, 3, 4, 0, 7, 5, 4, 0, 7, 0>>, tags |-> {2, 6}],
    [words |-> <<0, 0, 4, 8, 0, 7, 7, 4, 8, 0, 7, 7, 0>>, tags |-> {2, 7}] }
=============================================================================
