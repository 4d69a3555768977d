---------------------------- MODULE MCBlobStore ----------------------------
(* Small instances of BlobStore for TLC. *)
EXTENDS BlobStore, TLC
=============================================================================
