----------------------------- MODULE MCPairedLan -----------------------------
(* Two peers, one of which finds the registry full, and one code, which    *)
(* all pairings share: the worst case.  A run of the service allows two    *)
(* pairing attempts; the number of runs, crashes and reconnections is not  *)
(* bounded.                                                                *)
EXTENDS PairedLan
=============================================================================
