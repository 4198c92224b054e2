---------------------------- MODULE MCMd5Stream ----------------------------
(***************************************************************************)
(* Md5Stream for TLC, with short blocks and small words, so that the files *)
(* are longer than a word can count, and than two.                         *)
(***************************************************************************)
EXTENDS Md5Stream
=============================================================================
