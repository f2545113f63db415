--------------------------- MODULE MCRemoteCalls ---------------------------
(* Instances of RemoteCalls for TLC.                                        *)
EXTENDS RemoteCalls
=============================================================================
