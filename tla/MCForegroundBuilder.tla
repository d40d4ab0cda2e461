------------------------- MODULE MCForegroundBuilder -------------------------
(* Two clients, two shards, keys 0 (the empty key), 1 and 2, files of two  *)
(* records, one Flush.                                                      *)
EXTENDS ForegroundBuilder

MCFileNums == 1..3
MCKeys == 0..2
MCSizes == 1..2
MCClients == {1, 2}
=============================================================================
