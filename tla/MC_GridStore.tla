---------------------------- MODULE MC_GridStore ----------------------------
(* Model-checking instance of GridStore: a 2 x 2 grid (even, like the      *)
(* 100 of constants/index.ts), the 16-color palette, three colors whose    *)
(* nibbles differ, and frames one step outside the valid ranges.           *)
EXTENDS GridStore

MCColors == {0, 1, 12}
MCUpdateXs == {0, 1, 2}
MCUpdateYs == {0, 1}
MCUpdateColors == {1, 16}
MCSnapshotLengths == {1, 2, 3}

=============================================================================
