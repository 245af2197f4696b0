------------------------------ MODULE MCReplay ------------------------------
(* Every document of up to two entries a list over two versions, duplicate *)
(* and unsorted lists included, and three-entry ones over three versions.  *)
EXTENDS Replay

Short == BoundedSeq({1, 2}, 2)
MCInputs ==
    {[items |-> i, quarantine |-> q] : i \in Short, q \in Short}
    \cup {[items |-> <<1, 2, 3>>, quarantine |-> q] : q \in {<<1>>, <<1, 3>>, <<2, 3>>, <<1, 2, 3>>}}
=============================================================================
