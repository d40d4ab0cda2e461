--------------------------- MODULE MCBlobStorage ---------------------------
(* BlobStorage with two file numbers, two keys (so two files can share a *)
(* smallest key), two levels plus the unsorted slot and sequence numbers up to 2.              *)
EXTENDS BlobStorage

MCFileNums == 1..2
MCKeys == 1..2
MCSizes == {1, 2}

\* The state space stays finite: discardable sizes and sequence numbers are
\* bounded by Sizes and MaxSeq.
=============================================================================
