---------------------------- MODULE MCDecryptWal ----------------------------
(***************************************************************************)
(* Instances of DecryptWal for TLC: two threads, two message ids and two   *)
(* ciphertexts, so that one id can be reused for another ciphertext and    *)
(* two calls can race for one secret.                                      *)
(***************************************************************************)
EXTENDS DecryptWal, TLC

CONSTANTS g1, m1, m2, c1, c2

MCGroups == {g1}
MCMsgIds == {m1, m2}
MCCiphertexts == {c1, c2}
MCGroupOf == [c \in MCCiphertexts |-> g1]

OneId == {m1}
OneCiphertext == {c1}
OneGroupOf == [c \in OneCiphertext |-> g1]

Symmetry == Permutations(Threads)
=============================================================================
