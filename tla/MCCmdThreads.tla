---------------------------- MODULE MCCmdThreads ----------------------------
(* Symmetry for the runs of CmdThreads.                                    *)
EXTENDS CmdThreads, TLC

\* The calling threads are interchangeable.
CallerSymmetry == Permutations(Callers)
=============================================================================
