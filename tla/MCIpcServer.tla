----------------------------- MODULE MCIpcServer -----------------------------
EXTENDS IpcServer, TLC

\* Connections are interchangeable.
ConnectionSymmetry == Permutations(Connections)
=============================================================================
