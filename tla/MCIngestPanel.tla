---------------------------- MODULE MCIngestPanel ----------------------------
(***************************************************************************)
(* The API while imagery is ingested, for TLC: with searches beside the    *)
(* jobs, or with the panel that starts the jobs and follows them.          *)
(***************************************************************************)
EXTENDS IngestPanel, TLC

VARIABLE family \* which of them runs

\* Jobs are interchangeable, and so are searches.
Symmetry == Permutations(Jobs) \cup Permutations(Searches)

MCInit == family \in {"searches", "panel"} /\ Init /\ PanelInit
MCNext ==
  /\ \/ family = "searches" /\ Next /\ UNCHANGED panelVars
     \/ family = "panel" /\ PanelNext
  /\ UNCHANGED family
MCSpec == MCInit /\ [][MCNext]_<<family, vars, panelVars>>
=============================================================================
