---------------------------- MODULE MCRemoteproc ----------------------------
(***************************************************************************)
(* Model-checking instance of the life cycle of a remote processor.        *)
(***************************************************************************)
EXTENDS Remoteproc

\* Ids are left to the parser, except that one table asks for an id that does
\* not exist.
Vdev(n)  == [type |-> "vdev", ids |-> [i \in 1 .. n |-> ANY]]
BadVring == [type |-> "vdev", ids |-> <<ANY, ANY, BITS>>]
Ignored  == [type |-> "ignored", ids |-> <<>>]
Bad      == [type |-> "bad", ids |-> <<>>]

SmallTables == {<<Ignored, Vdev(2)>>, <<BadVring>>, <<Vdev(1), Bad>>}

\* Two clients keep a table, one of which is always rejected.
SmallOwn == [p \in Places |-> IF p = "good" THEN <<Vdev(1), Vdev(1)>> ELSE <<BadVring>>]
=============================================================================
