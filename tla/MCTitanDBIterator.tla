------------------------- MODULE MCTitanDBIterator -------------------------
(* TitanDBIterator with two blob files and two keys, so the view can hold *)
(* an inline value and indexes into two different files, and a Scan can  *)
(* cross from one file to the other.                                      *)
EXTENDS TitanDBIterator

MCFileNums == 1..2
MCKeys == 1..2
MCSizes == {1}
=============================================================================
