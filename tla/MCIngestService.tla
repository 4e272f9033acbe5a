--------------------------- MODULE MCIngestService ---------------------------
(***************************************************************************)
(* Instances of IngestService for TLC.                                     *)
(***************************************************************************)
EXTENDS IngestService, TLC

CONSTANTS j1, j2, s1, s2

\* Jobs are interchangeable, and so are searches.
Symmetry == Permutations(Jobs) \cup Permutations(Searches)
=============================================================================
