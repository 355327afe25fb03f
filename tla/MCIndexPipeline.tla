---------------------------- MODULE MCIndexPipeline ---------------------------
(* A tree of three files, one of two segments and two heavy ones, so that the  *)
(* queue and a slice fill; the pool holds two of them and is refilled once.    *)
EXTENDS IndexPipeline

TreeParts  == <<2, 1, 1>>
TreeWeight == <<1, 2, 2>>
=============================================================================
