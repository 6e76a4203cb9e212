-------------------------------- MODULE Gcm --------------------------------
(***************************************************************************)
(* AES-256-GCM as the programs use it, symbolically: a ciphertext is a     *)
(* record of the key and the plaintext.  Every record is encrypted with    *)
(* the same IV, so equal plaintexts under one key have equal ciphertexts   *)
(* and tags.                                                               *)
(***************************************************************************)

Enc(key, text) == [key |-> key, text |-> text]

\* What read() leaves in the buffers at end of file: no valid ciphertext.
Garbage == [key |-> "none"]

\* gcm_decrypt returns a length, and not -1.
Opens(key, cipher) == cipher.key = key
=============================================================================
