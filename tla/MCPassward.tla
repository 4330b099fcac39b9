----------------------------- MODULE MCPassward -----------------------------
(* An instance of Passward for TLC: the bytes and factors at the ends and  *)
(* around the middle of their ranges, texts of one and of two bytes.       *)
EXTENDS Passward

Bytes == {1, 2, 127, 253, 254}
MCTexts == {<<b>> : b \in Bytes} \cup {<<b, c>> : b, c \in {1, 2, 254}}
MCFactors == {0, 1, 2, 128, 253, 254}
=============================================================================
