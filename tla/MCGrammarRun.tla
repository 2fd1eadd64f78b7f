----------------------------- MODULE MCGrammarRun -----------------------------
(* Bounded texts and small grammars for GrammarRun. *)
EXTENDS GrammarRun, SequencesExt

CONSTANTS MaxText, Forms, Stricts, key, open, close, sep, ws, bad

MCTexts == BoundedSeq(Tokens \cup {Bad}, MaxText)
MCGrammars == [form : Forms, interleaved : BOOLEAN, recovers : BOOLEAN, strict : Stricts]
================================================================================
