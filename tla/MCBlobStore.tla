----------------------------- MODULE MCBlobStore -----------------------------
(* Small instances of BlobStore for TLC. *)
EXTENDS BlobStore, TLC

CONSTANTS paper, picture

\* A picture fills the whole quota.
Sizes == (paper :> 1) @@ (picture :> 2)

=============================================================================
