------------------------------ MODULE BlobStore ------------------------------
(***************************************************************************)
(* The content-addressed blob store beside the metadata (blob.sqlite).  A  *)
(* blob is its hash: put is idempotent and durable when it returns.  It is *)
(* a database of its own: no transaction covers it and the metadata.       *)
(***************************************************************************)
EXTENDS Snapshots

VARIABLE cas   \* hashes of the blobs stored

PutBlob(b) == cas' = cas \cup {b}

RemoveBlob(b) == cas' = cas \ {b}

\* The blobs some delta row names.
Referenced == {r.blob : r \in chunkHistory} \ {Tombstone}
=============================================================================
