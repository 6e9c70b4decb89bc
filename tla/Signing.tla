------------------------------ MODULE Signing ------------------------------
(***************************************************************************)
(* Signatures and hashes as the code in jolt-core uses them.  A signature  *)
(* is its key and the bytes it was made over, so it verifies under no other *)
(* key and over no other bytes; a hash is the bytes it was taken of.       *)
(***************************************************************************)
Sign(key, bytes) == [key |-> key, bytes |-> bytes]

verify(key, bytes, signature) == signature = Sign(key, bytes)

blake3(bytes) == [digest |-> bytes]
=============================================================================
