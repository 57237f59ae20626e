--------------------------- MODULE MCMockGateway ---------------------------
(* Small instances of MockGateway for TLC.                                 *)
EXTENDS MockGateway, TLC

Symmetric == Permutations(Key) \cup Permutations(Caller)
=============================================================================
