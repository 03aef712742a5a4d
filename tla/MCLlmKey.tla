----------------------------- MODULE MCLlmKey ------------------------------
(* LlmKey for TLC: users and requests are alike; all keys end in the same    *)
(* four characters, the worst that can happen to a fingerprint.              *)
EXTENDS LlmKey, TLC

CONSTANT tail

SameTail == [t \in Texts |-> tail]

LlmSymmetry == Permutations(Users) \cup Permutations(Handlers)

=============================================================================
