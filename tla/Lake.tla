--------------------------------- MODULE Lake ---------------------------------
(***************************************************************************)
(* The programs of the lake and of its index, and the connection through   *)
(* which the API reads the lake, side by side.  They share nothing but      *)
(* files that a reader finds whole.                                         *)
(***************************************************************************)
EXTENDS LakeIngest, IndexScripts, LakeConnection

LakeInit == ProgramsInit /\ IndexInit /\ ConnectionInit
LakeNext ==
  \/ ProgramsNext /\ UNCHANGED <<indexVars, lakeVars>>
  \/ (RefreshNext \/ RewriteNext) /\ UNCHANGED <<programVars, lakeVars>>
  \/ ConnectionNext /\ UNCHANGED <<programVars, indexVars>>
LakeSpec == LakeInit /\ [][LakeNext]_<<programVars, indexVars, lakeVars>>

\* refresh_manifest_index.py: "merges only those partitions into the target index"; what the
\* index has is as its refresh promises, and both programs keep their types.
IndexRefreshed == TypeOK /\ IndexTypeOK /\ IndexIsCurrent
=============================================================================
