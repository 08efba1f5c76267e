--------------------------- MODULE MCEthernetW6100 --------------------------
(* A small instance of EthernetW6100: two frames that differ in length and *)
(* content, in a memory that two of them nearly fill.                      *)
EXTENDS EthernetW6100

TwoFrames == {<<1>>, <<2, 3>>}
=============================================================================
