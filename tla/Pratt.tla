--------------------------------- MODULE Pratt ---------------------------------
(***************************************************************************)
(* pratt of packages/core/src/pratt.ts: precedence climbing, one call of   *)
(* parseExpression per level. A tree keeps the operator and the group of   *)
(* each node; spans and values are abstracted.                             *)
(*                                                                         *)
(* A group is a record: its operators, its bp, assoc, and the pairs of the *)
(* left operand's operator and the token behind the operator for which its *)
(* guard declines. What comes after the operator is a sequence of reads:   *)
(* operands, each with the bp it is read at, and tokens.                   *)
(***************************************************************************)
EXTENDS Integers, SequencesExt

CONSTANTS
  prefix, infix, postfix,  \* the groups of a pratt table, in order
  atom,                         \* the tokens that an atom is
  Texts                          \* the texts to read

\* One member of prefix, infix or postfix.
PrattGroup ==
  [ops : SUBSET (STRING \ {""}), bp : Int, assoc : {"left", "right", "nonassoc"}, custom : BOOLEAN,
   tail : Seq([bp : Int, token : STRING]), declines : SUBSET (STRING \X STRING)]

\* The empty string stands for the end of the text, which is no token.
ASSUME TableAssumption ==
  /\ {prefix, infix, postfix} \subseteq Seq(PrattGroup)
  /\ atom \subseteq STRING \ {""}
  /\ Texts \subseteq Seq(STRING \ {""})

VARIABLES
  text,
  pos,      \* how many tokens are consumed
  levels,   \* the calls of parseExpression, the innermost first
  outcome   \* "reading", "croaked" or "done"

vars == <<text, pos, levels, outcome>>

End == ""

Operand(bp) == [bp |-> bp, token |-> End]
Keyword(token) == [bp |-> 0, token |-> token]

ReadsSlip(group) ==
  IF group.custom THEN group.tail ELSE <<Operand(group.bp)>>

\* The groups of ops alone, and those with a tail of their own.
Reads(group) ==
  IF group.custom THEN group.tail
  ELSE <<Operand(IF group.assoc = "right" THEN group.bp ELSE group.bp + 1)>>

Node(kind, group, op, args) == [kind |-> kind, group |-> group, op |-> op, args |-> args]

NoTree == Node("none", 0, End, <<>>)

\* A level reads an operand, then goes round its loop; in between it reads what
\* belongs to the operator it has open.
Level(minBp) ==
  [start |-> pos, minBp |-> minBp, at |-> "operand", left |-> NoTree, open |-> NoTree, reads |-> <<>>]

-------------------------------------------------------------------------------
top == Head(levels)

Token(i) == IF i \in DOMAIN text THEN text[i] ELSE End

\* peek and peekAhead(1).
next == Token(pos + 1)
second == Token(pos + 2)

Accepts(group, left) == <<left.op, second>> \notin group.declines

Applies(group, left) == next \in group.ops /\ Accepts(group, left)

\* The first group in order, 0 if there is none.
prefixGroup == SelectInSeq(prefix, LAMBDA group : next \in group.ops)

postfixGroup ==
  SelectInSeq(postfix, LAMBDA group : group.bp >= top.minBp /\ Applies(group, top.left))

infixGroupSlip ==
  LET first == SelectInSeq(infix, LAMBDA group : next \in group.ops)
  IN  IF first # 0 /\ Accepts(infix[first], top.left) THEN first ELSE 0

infixGroup == SelectInSeq(infix, LAMBDA group : Applies(group, top.left))

GoesOnSlip == infixGroup # 0 /\ infix[infixGroup].bp > top.minBp

GoesOn == infixGroup # 0 /\ infix[infixGroup].bp >= top.minBp

ChainsSlip(tree) ==
  /\ tree.kind = "infix"
  /\ infix[tree.group].assoc = "nonassoc"
  /\ next \in infix[tree.group].ops

\* A chain of the operators of one nonassoc group, its guard asked again with
\* the whole left operand.
Chains(tree) ==
  /\ tree.kind = "infix"
  /\ infix[tree.group].assoc = "nonassoc"
  /\ Applies(infix[tree.group], tree)

-------------------------------------------------------------------------------
At(place) == outcome = "reading" /\ top.at = place

Becomes(level) == levels' = <<level>> \o Tail(levels)

Consume == pos' = pos + 1

Croak == outcome' = "croaked" /\ UNCHANGED <<text, pos, levels>>

Opens(kind, group, args, reads) ==
  /\ Becomes([top EXCEPT !.at = "tail", !.open = Node(kind, group, next, args), !.reads = reads])
  /\ Consume
  /\ UNCHANGED <<text, outcome>>

Prefix ==
  /\ At("operand")
  /\ prefixGroup # 0
  /\ Opens("prefix", prefixGroup, <<>>, <<Operand(prefix[prefixGroup].bp)>>)

Atom ==
  /\ At("operand")
  /\ prefixGroup = 0
  /\ next \in atom
  /\ Becomes([top EXCEPT !.at = "loop", !.left = Node("atom", 0, next, <<>>)])
  /\ Consume
  /\ UNCHANGED <<text, outcome>>

NoAtom == At("operand") /\ prefixGroup = 0 /\ next \notin atom /\ Croak

Postfix ==
  /\ At("loop")
  /\ postfixGroup # 0
  /\ Opens("postfix", postfixGroup, <<top.left>>, postfix[postfixGroup].tail)

Infix ==
  /\ At("loop")
  /\ postfixGroup = 0
  /\ GoesOn
  /\ Opens("infix", infixGroup, <<top.left>>, Reads(infix[infixGroup]))

\* parseExpression returns its left; the first call ends the expression.
Break ==
  /\ At("loop")
  /\ postfixGroup = 0
  /\ ~GoesOn
  /\ IF Len(levels) = 1
     THEN outcome' = "done" /\ UNCHANGED levels
     ELSE /\ LET caller == levels[2]
             IN  levels' = <<[caller EXCEPT !.open.args = Append(@, top.left), !.reads = Tail(@)]>>
                             \o Tail(Tail(levels))
          /\ UNCHANGED outcome
  /\ UNCHANGED <<text, pos>>

Reading(what) == At("tail") /\ top.reads # <<>> /\ what = (Head(top.reads).token # End)

ReadKeyword ==
  /\ Reading(TRUE)
  /\ IF next = Head(top.reads).token
     THEN Becomes([top EXCEPT !.reads = Tail(@)]) /\ Consume /\ UNCHANGED <<text, outcome>>
     ELSE Croak

ReadOperand ==
  /\ Reading(FALSE)
  /\ levels' = <<Level(Head(top.reads).bp)>> \o levels
  /\ UNCHANGED <<text, pos, outcome>>

Close ==
  /\ At("tail")
  /\ top.reads = <<>>
  /\ IF Chains(top.open)
     THEN Croak
     ELSE /\ Becomes([top EXCEPT !.at = "loop", !.left = top.open, !.open = NoTree])
          /\ UNCHANGED <<text, pos, outcome>>

Ended == outcome # "reading" /\ UNCHANGED vars

-------------------------------------------------------------------------------
Init == text \in Texts /\ pos = 0 /\ levels = <<Level(0)>> /\ outcome = "reading"

Next ==
  Prefix \/ Atom \/ NoAtom \/ Postfix \/ Infix \/ Break \/ ReadKeyword \/ ReadOperand \/ Close \/ Ended

Spec == Init /\ [][Next]_vars
================================================================================
