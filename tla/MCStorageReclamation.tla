------------------------ MODULE MCStorageReclamation -------------------------
(* Two collections, of code and of documents; two points, so that contents may *)
(* change without their number.                                               *)
EXTENDS StorageReclamation
=============================================================================
