----------------------------- MODULE MCTileReads -----------------------------
(***************************************************************************)
(* Instances of TileReads for TLC.                                         *)
(***************************************************************************)
EXTENDS TileReads

CONSTANTS c1, c2

At(offset, length) == [offset |-> offset, length |-> length]
Gone == At(0, 0)

\* Ranges of a file are equal or disjoint.
Apart(r, s) == r = s \/ End(r) <= s.offset \/ End(s) <= r.offset

\* Files of three tiles in one band, stored in every order of a few places,
\* cut short or missing; a file with two bands stored apart; and files with
\* masks, one of them sparse.
SingleBand ==
  {[bands |-> 1, data |-> <<<<r>>, <<s>>, <<t>>>>, mask |-> None] :
     r \in {At(1, 1), At(5, 1)},
     s \in {At(1, 1), At(6, 2), At(7, 2), Gone},
     t \in {At(2, 2), At(4, 1)}}
Files0 ==
  {f \in SingleBand : \A i, k \in 1..3 : Apart(f.data[i][1], f.data[k][1])} \cup
  {[bands |-> 2, mask |-> None,
    data  |-> <<<<At(1, 1), At(5, 1)>>, <<At(2, 1), At(6, 1)>>, <<At(1, 1), At(6, 1)>>>>]} \cup
  {[bands |-> 1, mask |-> <<At(8, 1), Gone, At(3, 1)>>,
    data  |-> <<<<At(1, 1)>>, <<At(2, 1)>>, <<At(5, 1)>>>>],
   [bands |-> 1, mask |-> <<At(3, 1), Gone, At(6, 1)>>,
    data  |-> <<<<At(1, 1)>>, <<At(2, 1)>>, <<At(5, 1)>>>>]}

Requests0 == (c1 :> {<<3, 1, 2>>}) @@ (c2 :> {<<2>>, <<>>})
=============================================================================
