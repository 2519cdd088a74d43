------------------------------ MODULE MCReplay ------------------------------
(***************************************************************************)
(* Instances of Replay for TLC.                                            *)
(***************************************************************************)
EXTENDS Replay, TLC

Symmetry == Permutations(Calls)

\* The runner when nobody kills the process and every write succeeds: what is
\* left are halts, rejections and reruns of the same command.
GracefulSpec ==
  Init /\ [][Next /\ main' # "idle" /\ \A c \in Calls : pc'[c] # "failed"]_vars

=============================================================================
