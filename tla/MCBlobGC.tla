------------------------------ MODULE MCBlobGC ------------------------------
(* The GC picker over three file numbers, so that a batch can stop with a  *)
(* candidate left behind; one key, since ranges play no part in picking.   *)
EXTENDS BlobGC

MCFileNums == 1..3
MCKeys == {1}
MCSizes == {1, 2}
=============================================================================
