---------------------------- MODULE MCParseContext ----------------------------
(* Bounded texts for ParseContext. *)
EXTENDS ParseContext, SequencesExt

CONSTANTS MaxText, word, ws, semi, brace, bad

MCTexts == BoundedSeq(Tokens \cup {Bad}, MaxText)
================================================================================
