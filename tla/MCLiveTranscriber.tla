-------------------------- MODULE MCLiveTranscriber --------------------------
(* LiveTranscriber for TLC: which word is which makes no difference. *)
EXTENDS LiveTranscriber, TLC

TextSymmetry == Permutations(Texts)
=============================================================================
