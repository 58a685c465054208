-------------------------- MODULE MCRemoteDispatch --------------------------
(***************************************************************************)
(* Three submissions, one of them malformed, over two workers.  The two    *)
(* well-formed tasks are interchangeable, and so are the workers.          *)
(***************************************************************************)
EXTENDS RemoteDispatch, TLC

CONSTANTS t1, t2, bad

Alike == Permutations({t1, t2}) \cup Permutations(Worker)

=============================================================================
