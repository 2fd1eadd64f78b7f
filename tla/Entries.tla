-------------------------------- MODULE Entries --------------------------------
(***************************************************************************)
(* Tokens, and what a rule looks at: an entry is a type and a value,       *)
(* AnyValue where it does not matter.                                      *)
(***************************************************************************)

AnyValue == "*"

Entry(type, value) == [type |-> type, value |-> value]

Word(text) == Entry("ident", text)

Words(texts) == {Word(text) : text \in texts}

Punc(value) == Entry("punc", value)

OfType(type) == Entry(type, AnyValue)
================================================================================
