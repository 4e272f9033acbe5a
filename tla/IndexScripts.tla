----------------------------- MODULE IndexScripts -----------------------------
(***************************************************************************)
(* The programs that maintain the published index of COG keys: its refresh *)
(* from the live bucket (app/api/refresh_manifest_index.py) and the        *)
(* re-encoding of its files (app/api/rewrite_index_layout.py).  Each       *)
(* replaces objects that are being read, one at a time, and may be killed  *)
(* between two of them and run again.                                      *)
(***************************************************************************)
EXTENDS Integers, Sequences, FiniteSets, SequencesExt

CONSTANTS
  Live,       \* the keys of the live bucket: [state, year, n]
  Known,      \* the keys the index has at first
  Roots,      \* the roots of the index in the order they are given, each "local" or "s3"
  YearsFrom,  \* --years-from
  Published,  \* the versions of one file of the index that are published: each
              \* [rows, groups], rows a sequence
  VectorSize, \* VECTOR_SIZE (2048)
  Nothing     \* no object

VARIABLES
  index,   \* index[r][p][f]: the keys of file f of partition p under root r
  refresh, \* the refresh: what it has left to do
  unremoved, \* the <<root, partition>>s whose last removal failed (history)
  object,  \* the live file of the index
  staged,  \* the file under the staging prefix
  rewrite, \* the rewriting: where it stands, what it knows of the file
  republished \* whether the file was published again since it was verified (history)

refreshVars == <<index, refresh, unremoved>>
rewriteVars == <<object, staged, rewrite, republished>>
indexVars == <<refreshVars, rewriteVars>>

ASSUME IndexAssumption ==
  /\ Roots \in Seq({"local", "s3"}) /\ VectorSize \in Nat \ {0}
  /\ \A o \in Published :
       /\ o = [rows |-> o.rows, groups |-> o.groups] /\ o.groups \in 1..3
       /\ o.rows \in Seq(ToSet(o.rows)) /\ o.rows # <<>>

PartitionOf(k) == <<k.state, k.year>>
IndexPartitions == {PartitionOf(k) : k \in Live \cup Known}
FileOf(n) == IF n % 2 = 0 THEN "data_0" ELSE "data_1"
IndexFiles == {"data_0", "data_1"}

\* The files that hold the keys of a partition.
Filed(keys, p) == [f \in IndexFiles |-> {k \in keys : PartitionOf(k) = p /\ FileOf(k.n) = f}]

Resting(at) == [at |-> at, todo |-> {}, root |-> 1, copy |-> {}]

IndexTypeOK ==
  /\ index \in [1..Len(Roots) -> [IndexPartitions -> [IndexFiles -> SUBSET (Live \cup Known)]]]
  /\ refresh.at \in {"idle", "merging", "copying", "done"}
  /\ unremoved \subseteq (1..Len(Roots)) \X IndexPartitions
  /\ refresh.at \in {"merging", "copying"} => refresh.root \in 1..Len(Roots)
  /\ refresh.todo \subseteq IndexPartitions /\ refresh.copy \subseteq IndexPartitions \X IndexFiles
  /\ object.groups \in 1..3 /\ \E o \in Published : ToSet(object.rows) \subseteq ToSet(o.rows)
  /\ rewrite.at \in {"idle", "staged", "verified", "copied", "done"}

IndexInit ==
  /\ index = [r \in 1..Len(Roots) |-> [p \in IndexPartitions |-> Filed(Known, p)]]
  /\ refresh = Resting("idle")
  /\ unremoved = {}
  /\ object \in Published
  /\ staged = Nothing
  /\ rewrite = [at |-> "idle", before |-> Nothing]
  /\ republished = FALSE

-----------------------------------------------------------------------------
(* Refresh.                                                                *)

\* The partitions of recent years that the live bucket has keys in.
discover == {PartitionOf(k) : k \in {k \in Live : k.year >= YearsFrom}}

RefreshStarts ==
  /\ refresh.at \in {"idle", "done"} /\ Roots # <<>>
  /\ refresh' = IF discover = {} THEN Resting("done") ELSE [Resting("merging") EXCEPT !.todo = discover]
  /\ UNCHANGED <<index, unremoved, rewriteVars>>

\* build_manifest_index: the files a partition is built as.
Built(p) == Filed(Live, p)

\* Mutant of Removed: the tree of the state goes.
Removed_State(root, p, left) ==
  [q \in IndexPartitions |-> IF q[1] = p[1] THEN [f \in IndexFiles |-> {}] ELSE index[root][q]]

\* The files of the partition go, but for those whose removal fails.
Removed(root, p, left) ==
  [index[root] EXCEPT ![p] = [f \in IndexFiles |-> IF f \in left THEN @[f] ELSE {}]]

\* _merge_partition removes the former files; for a local root a failure ends the
\* program, in the bucket nobody looks...
RemovePartition ==
  /\ refresh.at = "merging"
  /\ \E p \in refresh.todo, left \in SUBSET IndexFiles :
       /\ index' = [index EXCEPT ![refresh.root] = Removed(refresh.root, p, left)]
       /\ unremoved' = IF left = {} THEN unremoved \ {<<refresh.root, p>>}
                       ELSE unremoved \cup {<<refresh.root, p>>}
       /\ refresh' = IF left # {} /\ Roots[refresh.root] = "local" THEN Resting("idle")
                     ELSE [refresh EXCEPT !.at = "copying", !.todo = @ \ {p},
                             !.copy = {<<p, f>> : f \in {f \in IndexFiles : Built(p)[f] # {}}}]
  /\ UNCHANGED rewriteVars

\* After a partition the next, after the last the next root.
AfterCopy(copy) ==
  IF copy # {} THEN [refresh EXCEPT !.copy = copy]
  ELSE IF refresh.todo # {} THEN [refresh EXCEPT !.copy = {}, !.at = "merging"]
  ELSE IF refresh.root < Len(Roots)
    THEN [refresh EXCEPT !.copy = {}, !.at = "merging", !.root = @ + 1, !.todo = discover]
  ELSE Resting("done")

\* ... and copies the new ones, file by file.
CopyFile ==
  /\ refresh.at = "copying"
  /\ \E file \in refresh.copy :
       /\ index' = [index EXCEPT ![refresh.root][file[1]][file[2]] = Built(file[1])[file[2]]]
       /\ refresh' = AfterCopy(refresh.copy \ {file})
  /\ UNCHANGED <<unremoved, rewriteVars>>

\* A command fails or the program is killed; it can be run again.
RefreshCrashes ==
  /\ refresh.at \in {"merging", "copying"}
  /\ refresh' = Resting("idle")
  /\ UNCHANGED <<index, unremoved, rewriteVars>>

RefreshNext == RefreshStarts \/ RemovePartition \/ CopyFile \/ RefreshCrashes

-----------------------------------------------------------------------------
(* Re-encoding.                                                            *)

CeilDiv(a, b) == (a + b - 1) \div b

\* The smallest multiple of the vector size that makes at most two groups.
row_group_size_for(rows) == VectorSize * CeilDiv(CeilDiv(rows, 2), VectorSize)

\* The groups DuckDB emits: a last one below the vector size is folded.
Groups(rows, size) ==
  LET full == rows \div size
      rest == rows % size
  IN IF full = 0 THEN 1 ELSE IF rest < VectorSize THEN full ELSE full + 1

\* What DuckDB makes of a file: its rows, or, read in parallel, in another order,
\* and a number of groups that need not be the one asked for.
Rewritten(o) ==
  {[rows |-> rows, groups |-> g] :
     rows \in {o.rows, Reverse(o.rows), SubSeq(o.rows, 1, Len(o.rows) - 1)},
     g \in {3, Groups(Len(o.rows), row_group_size_for(Len(o.rows)))}}

\* A file of three groups or more is described and staged in its new layout.
Stage ==
  /\ rewrite.at \in {"idle", "done"}
  /\ object.groups >= 3
  /\ staged' \in Rewritten(object)
  /\ rewrite' = [at |-> "staged", before |-> object]
  /\ UNCHANGED <<object, republished, refreshVars>>

\* Mutant of Agrees: the order of the rows is not compared.
Agrees_Counts(before) ==
  /\ Len(staged.rows) = Len(before.rows)
  /\ staged.groups <= 2

\* Rows are counted against what was described, and their order compared with the
\* live file as it is by then.
Agrees(before) ==
  /\ Len(staged.rows) = Len(before.rows)
  /\ staged.groups <= 2 /\ staged.groups < before.groups
  /\ staged.rows = object.rows

\* On a mismatch the live file is untouched and the staged one left behind.
Verify ==
  /\ rewrite.at = "staged"
  /\ rewrite' = [rewrite EXCEPT !.at = IF Agrees(rewrite.before) THEN "verified" ELSE "done"]
  /\ republished' = FALSE
  /\ UNCHANGED <<object, staged, refreshVars>>

CopyOver ==
  /\ rewrite.at = "verified"
  /\ object' = staged
  /\ rewrite' = [rewrite EXCEPT !.at = "copied"]
  /\ UNCHANGED <<staged, republished, refreshVars>>

DeleteStaged ==
  /\ rewrite.at = "copied"
  /\ staged' = Nothing
  /\ rewrite' = [at |-> "done", before |-> Nothing]
  /\ UNCHANGED <<object, republished, refreshVars>>

RewriteCrashes ==
  /\ rewrite.at \in {"staged", "verified", "copied"}
  /\ rewrite' = [at |-> "idle", before |-> Nothing]
  /\ UNCHANGED <<object, staged, republished, refreshVars>>

\* The index is built again from the lake meanwhile (app/api/build_stac_index.py).
Republish ==
  /\ object' \in Published
  /\ republished' = TRUE
  /\ UNCHANGED <<staged, rewrite, refreshVars>>

RewriteNext == Stage \/ Verify \/ CopyOver \/ DeleteStaged \/ RewriteCrashes \/ Republish

-----------------------------------------------------------------------------
(* Properties.                                                             *)

\* "Merges only those partitions into the target index, leaving the frozen-manifest
\* history untouched": under every root the files of former years stay as they were,
\* and when a refresh ends, after whatever crashes, those of recent years hold the keys
\* of the live bucket; but for a partition whose removal failed, that may keep former
\* files besides, of names that the new ones have not.
IndexIsCurrent ==
  \A r \in 1..Len(Roots), p \in IndexPartitions, f \in IndexFiles :
    /\ p \notin discover => index[r][p][f] = Filed(Known, p)[f]
    /\ (refresh.at = "done" /\ p \in discover) =>
         \/ index[r][p][f] = Built(p)[f]
         \/ Built(p)[f] = {} /\ Roots[r] = "s3" /\ <<r, p>> \in unremoved

\* "What it does not change: same row order": a file is replaced by one with the same
\* rows in the same order and at most two groups, unless it is published again between
\* its verification and the copy.
LayoutOnly ==
  [][(rewrite.at = "verified" /\ rewrite'.at = "copied" /\ ~republished) =>
       /\ object'.rows = object.rows
       /\ object'.groups <= 2]_rewriteVars
=============================================================================
