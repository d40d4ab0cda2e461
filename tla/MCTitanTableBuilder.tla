------------------------ MODULE MCTitanTableBuilder ------------------------
(* A build of three records over two old blob files, with room for three  *)
(* new blob files (a target size of two records makes the first one fill *)
(* up and be finished inside Add).                                         *)
EXTENDS TitanTableBuilder

MCFileNums == 1..5
MCOldFiles == {1, 2}
MCSizes == 1..4
=============================================================================
