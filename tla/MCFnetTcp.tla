------------------------------ MODULE MCFnetTcp ------------------------------
(* Instances of FnetTcp for TLC.                                            *)
EXTENDS FnetTcp

\* A connection that mostly sends, to a peer that closes its window, or that
\* offers less than a segment; one that receives more than its buffer holds; and
\* one that does both.
MCLoads == {[out |-> 3, in |-> 0, windows |-> {0, 4}],
            [out |-> 2, in |-> 0, windows |-> {1, 4}],
            [out |-> 0, in |-> 6, windows |-> {4}],
            [out |-> 2, in |-> 1, windows |-> {4}]}
=============================================================================
