------------------------ MODULE MCRegistryArtifacts ------------------------
(* RegistryArtifacts with two requests in one process and one in another.  *)
EXTENDS RegistryArtifacts

CONSTANTS t1, t2, t3, p1, p2

MCProcessOf == [t \in Tasks |-> IF t = t3 THEN p2 ELSE p1]
=============================================================================
