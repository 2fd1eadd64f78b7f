------------------------------- MODULE MCLexer -------------------------------
(***************************************************************************)
(* A small lexer of the shape the tests use: keywords of one and of three  *)
(* words, punctuation with a common prefix, and each kind of reader with   *)
(* all that it can be asked for, in the root mode; a template mode that    *)
(* backticks, ${ and } switch.                                             *)
(***************************************************************************)
EXTENDS Literals, SequencesExt

CONSTANTS
  a, b, nl, eq, slash, apos, tick, dollar, brace, ecarb, zero, dot, e, minus, under, x, star, at_,
  bslash, lbr, rbr

MCChars ==
  {a, b, nl, eq, slash, apos, tick, dollar, brace, ecarb, zero, dot, e, minus, under, x, star, at_,
   bslash, lbr, rbr}

MCInherited == {<<b>>}

Line == [kind |-> "line", type |-> "comment", prefix |-> <<slash, slash>>]

Block ==
  [kind |-> "block", type |-> "block", open |-> <<slash, star>>, close |-> <<star, slash>>,
   nested |-> TRUE]

Escaped ==
  [kind |-> "string", type |-> "escaped", prefix |-> <<e>>, quote |-> apos, fence |-> <<>>,
   blockType |-> "fenced", doubling |-> TRUE, backslash |-> {bslash},
   decoded |-> [[char \in MCChars |-> char] EXCEPT ![a] = nl]]

Plain ==
  [Escaped EXCEPT !.type = "string", !.prefix = <<>>, !.fence = <<apos, apos, apos>>,
                  !.doubling = FALSE, !.backslash = {}]

Dollar == [kind |-> "dollar", type |-> "dollar", dollar |-> dollar, start |-> {a}, part |-> {a, zero}]

Number ==
  [kind |-> "number", type |-> "number", digits |-> {zero}, signs |-> {minus}, points |-> {dot},
   leading |-> {dot}, exponents |-> {e}, expSigns |-> {minus}, separators |-> {under},
   zero |-> zero, radix |-> {[marker |-> x, digits |-> {zero, e}]}]

Regex ==
  [kind |-> "regex", type |-> "regex", slash |-> slash, backslash |-> bslash, open |-> lbr,
   close |-> rbr, flags |-> {a}, after |-> {"punc", "operator"}]

Operator ==
  [kind |-> "operator", type |-> "operator", chars |-> {slash, star, minus, at_},
   stops |-> {<<slash, slash>>, <<slash, star>>}, trailing |-> {minus}, strong |-> {at_}]

Chunk ==
  [kind |-> "chunk", type |-> "chunk", stops |-> {<<tick>>, <<dollar, brace>>}, escape |-> slash]

RootMode ==
  [space |-> {nl}, start |-> {a, b, e, x}, part |-> {a, b, e, x, zero},
   keywords |-> {<<<<a>>>>, <<<<a>>, <<a>>, <<a>>>>},
   punctuation |-> {<<eq>>, <<eq, eq, eq>>, <<tick>>, <<brace>>, <<ecarb>>},
   readers |-> <<Line, Block, Escaped, Plain, Dollar, Number, Regex, Operator>>]

TemplateMode ==
  [space |-> {}, start |-> {}, part |-> {}, keywords |-> {},
   punctuation |-> {<<tick>>, <<dollar, brace>>}, readers |-> <<Chunk>>]

MCModes == {"default", "template"}
MCMode == [name \in MCModes |-> IF name = "default" THEN RootMode ELSE TemplateMode]

On(value, inMode, action, name) ==
  [type |-> "punc", value |-> value, inMode |-> {inMode}, when |-> Types \cup {"none"},
   action |-> action, mode |-> name]

\* The table of lexer.test.ts:494.
MCTransitions ==
  << On(<<tick>>, "default", "push", "template"),
     On(<<tick>>, "template", "pop", "default"),
     On(<<dollar, brace>>, "template", "push", "default"),
     On(<<brace>>, "default", "push", "default"),
     On(<<ecarb>>, "default", "pop", "default") >>

\* A text may go on behind a beginning that is of interest.
Behind(beginning, texts) == {beginning \o rest : rest \in texts}

MCTexts ==
  BoundedSeq({a, b, nl, eq, slash}, 4)
    \cup BoundedSeq({a, apos, nl, eq}, 4)
    \cup BoundedSeq({a, tick, dollar, brace, ecarb}, 5)
    \cup BoundedSeq({zero, dot, e, minus}, 5)
    \cup BoundedSeq({zero, under, dot, x}, 5)
    \cup BoundedSeq({minus, at_, slash, star}, 5)
    \cup BoundedSeq({slash, star}, 8)
    \cup Behind(<<e, apos>>, BoundedSeq({a, apos, bslash}, 5))
    \cup Behind(<<apos, apos>>, BoundedSeq({a, apos}, 5))
    \cup Behind(<<dollar>>, BoundedSeq({a, dollar}, 6))
    \cup Behind(<<eq, slash>>, BoundedSeq({slash, lbr, rbr, bslash}, 5))
================================================================================
