------------------------------ MODULE BlobStore ------------------------------
(***************************************************************************)
(* LocalBlobStore: content-addressed files.  A content that is not there   *)
(* yet is written to a temporary file of its own and moved to its place in *)
(* one step; threads storing the same content at once do so independently. *)
(* Contents are compared by their digest, which stands for the blob_ref.   *)
(***************************************************************************)
CONSTANT Contents

VARIABLE blobs   \* content -> its file: "absent", "partial" or "whole"

BlobInit == blobs = [c \in Contents |-> "absent"]

\* path.exists().
BlobExists(c) == blobs[c] # "absent"

\* Mutant: the bytes go to the file's own path.
WriteInPlace(c) == blobs' = [blobs EXCEPT ![c] = "partial"]

\* The bytes go to the temporary file.
WriteTemporary(c) == UNCHANGED blobs

\* os.replace, durable once the directory is synced.
PublishBlob(c) == blobs' = [blobs EXCEPT ![c] = "whole"]
==============================================================================
