--------------------------- MODULE MCCmdProtocol ----------------------------
(* Model values and symmetry for the runs of CmdProtocol.                  *)
EXTENDS CmdProtocol, TLC

\* Descriptors are interchangeable; used by the safety runs only.
FdSymmetry == Permutations(Fds)
=============================================================================
