--------------------------- MODULE MCEncryptedVault ---------------------------
(* Instance of EncryptedVault for TLC: two threads, two passwords and the    *)
(* empty one, a key file or none.  The sizes are just below the minimum and  *)
(* at it (two sectors), the iterations just below and at what a header may   *)
(* have.                                                                     *)
EXTENDS EncryptedVault

MCCredentials == [password : {"p"}, keyFile : {"none", "k"}]
                 \cup {[password |-> w, keyFile |-> "none"] : w \in {"", "q"}}
=============================================================================
