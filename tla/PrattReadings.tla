----------------------------- MODULE PrattReadings -----------------------------
(***************************************************************************)
(* The readings of a text by a pratt table, without a parser: trees over   *)
(* stretches of the text, built from those over shorter ones in any order. *)
(* What the parser returns is held against them.                           *)
(*                                                                         *)
(* An operator may have an operand on its left when none of the operands   *)
(* that end there, further inside, would take it; and an operand may be    *)
(* read at a bp when each operator on its left edge is one that an operand *)
(* of that bp takes.                                                       *)
(***************************************************************************)
EXTENDS Pratt, FiniteSets

-------------------------------------------------------------------------------
(* Who takes an operator. left is the operator of the operand before it,   *)
(* behind the token behind it.                                             *)

Fits(group, left, op, behind) == op \in group.ops /\ <<left, behind>> \notin group.declines

Postfixes(bp, left, op, behind) ==
  {g \in DOMAIN postfix : postfix[g].bp >= bp /\ Fits(postfix[g], left, op, behind)}

Infixes(left, op, behind) == {g \in DOMAIN infix : Fits(infix[g], left, op, behind)}

IsFirst(g, groups) == g \in groups /\ \A other \in groups : g <= other

\* An operand read at bp takes the operator as one of this group.
Takes(bp, left, op, behind, kind, g) ==
  LET postfixes == Postfixes(bp, left, op, behind)
  IN  IF kind = "postfix" THEN IsFirst(g, postfixes)
      ELSE postfixes = {} /\ IsFirst(g, Infixes(left, op, behind)) /\ infix[g].bp >= bp

\* It takes it as one of none.
Leaves(bp, left, op, behind) ==
  LET infixes == Infixes(left, op, behind)
  IN  /\ Postfixes(bp, left, op, behind) = {}
      /\ \A g \in infixes : IsFirst(g, infixes) => infix[g].bp < bp

\* The bp of the operand behind a left-associative operator is one more, so
\* that of two operators of one bp the left one has the operand between them.
ReadsOf(kind, g) ==
  CASE kind = "prefix"  -> <<Operand(prefix[g].bp)>>
    [] kind = "postfix" -> postfix[g].tail
    [] kind = "infix"   ->
         IF infix[g].custom THEN infix[g].tail
         ELSE IF infix[g].assoc = "right" THEN <<Operand(infix[g].bp)>>
         ELSE <<Operand(infix[g].bp + 1)>>

-------------------------------------------------------------------------------
(* A reading has the place of its first word, its tree, what is still to   *)
(* be read of it, the operators on its left edge, and the operands that    *)
(* end where it ends, each with the bp it was read at.                     *)

Partial(from, tree, reads, lefts, rights) ==
  [from |-> from, tree |-> tree, reads |-> reads, lefts |-> lefts, rights |-> rights]

Word(words, i) == IF i \in DOMAIN words THEN words[i] ELSE End

Bears(reading, bp) == \A o \in reading.lefts : Takes(bp, o.left, o.op, o.behind, o.kind, o.group)

\* As an operand that is read at bp.
MayBe(reading, bp) == reading.reads = <<>> /\ Bears(reading, bp)

Waits(reading, token) == reading.reads # <<>> /\ Head(reading.reads).token = token

Atoms(words, i) ==
  {Partial(i, Node("atom", 0, x, <<>>), <<>>, {}, {}) :
     x \in ({words[i]} \cap atom) \ UNION {prefix[g].ops : g \in DOMAIN prefix}}

Prefixed(words, i) ==
  {Partial(i, Node("prefix", g, words[i], <<>>), ReadsOf("prefix", g), {}, {}) :
     g \in {g \in DOMAIN prefix : IsFirst(g, {h \in DOMAIN prefix : words[i] \in prefix[h].ops})}}

\* None of the operands at its end takes the operator.
IsLeftTo(left, op, behind) ==
  left.reads = <<>> /\ \A edge \in left.rights : Leaves(edge.bp, edge.tree.op, op, behind)

\* No operator of a nonassoc group has one of the group on its left.
MayHave(left, op, behind, kind, g) ==
  /\ Fits((IF kind = "postfix" THEN postfix ELSE infix)[g], left.tree.op, op, behind)
  /\ ~(kind = "infix" /\ infix[g].assoc = "nonassoc" /\ left.tree.kind = "infix" /\ left.tree.group = g)

Opened(left, op, behind, kind, g) ==
  Partial(left.from,
          Node(kind, g, op, <<left.tree>>),
          ReadsOf(kind, g),
          left.lefts \cup {[kind |-> kind, group |-> g, left |-> left.tree.op, op |-> op, behind |-> behind]},
          {})

Groups == ({"postfix"} \X DOMAIN postfix) \cup ({"infix"} \X DOMAIN infix)

OpenedOn(left, op, behind) ==
  {Opened(left, op, behind, group[1], group[2]) :
     group \in {group \in Groups : IsLeftTo(left, op, behind) /\ MayHave(left, op, behind, group[1], group[2])}}

WithKeyword(reading) ==
  Partial(reading.from, reading.tree, Tail(reading.reads), reading.lefts, {})

WithOperand(reading, operand) ==
  Partial(reading.from,
          [reading.tree EXCEPT !.args = Append(@, operand.tree)],
          Tail(reading.reads),
          reading.lefts,
          operand.rights \cup {[bp |-> Head(reading.reads).bp, tree |-> operand.tree]})

\* With the word behind it, or with one of the operands behind it.
WithWord(words, reading, i) ==
  IF i \notin DOMAIN words THEN {}
  ELSE OpenedOn(reading, words[i], Word(words, i + 1))
         \cup (IF Waits(reading, words[i]) THEN {WithKeyword(reading)} ELSE {})

WithOperands(reading, operands, from) ==
  IF ~Waits(reading, End) THEN {}
  ELSE {WithOperand(reading, x) : x \in {x \in operands : x.from = from /\ MayBe(x, Head(reading.reads).bp)}}

\* The readings of n words, by those of fewer.
ReadingsOf(words, shorter, n) ==
  (IF n = 1 THEN UNION {Atoms(words, i) \cup Prefixed(words, i) : i \in DOMAIN words}
   ELSE UNION {WithWord(words, r, r.from + n - 1) : r \in shorter[n - 1]})
    \cup UNION {UNION {WithOperands(r, shorter[n - m], r.from + m) : r \in shorter[m]} : m \in 1..(n - 1)}

\* Of one word, of two, and so on.
Readings(words) ==
  LET upTo[n \in 0..Len(words)] ==
        IF n = 0 THEN <<>>
        ELSE LET shorter == upTo[n - 1] IN Append(shorter, ReadingsOf(words, shorter, n))
  IN  upTo[Len(words)]

\* The expressions that the first n tokens are, for each n.
Expressions ==
  LET readings == Readings(text)
  IN  [n \in 1..Len(text) |-> {r \in readings[n] : r.from = 1 /\ MayBe(r, 0)}]

-------------------------------------------------------------------------------
(* What a table is to keep to, which the code does not ask for.            *)

BeginsOperand(token) == token \in atom \cup UNION {prefix[g].ops : g \in DOMAIN prefix}

Awaits(reading, token) ==
  reading.reads # <<>>
    /\ LET read == Head(reading.reads).token
       IN  IF read = End THEN BeginsOperand(token) ELSE read = token

\* No operand takes what comes when a tail waits for it: a word of the tail, or
\* the beginning of another operand.
OperandsStop ==
  \A words \in Texts :
    LET readings == Readings(words)
    IN  \A n \in 1..Len(words) : \A r \in readings[n] :
          Awaits(r, Word(words, r.from + n)) =>
            \A edge \in r.rights :
              Leaves(edge.bp, edge.tree.op, Word(words, r.from + n), Word(words, r.from + n + 1))

\* Where an operator of a nonassoc group goes on in a chain, no other group has
\* it before that one.
ChainsAreTheirs ==
  LET tokens == UNION {{words[i] : i \in DOMAIN words} : words \in Texts}
  IN  \A g \in DOMAIN infix, left, op \in tokens, behind \in tokens \cup {End} :
        infix[g].assoc = "nonassoc" /\ Fits(infix[g], left, op, behind) =>
          /\ \A h \in DOMAIN postfix : ~Fits(postfix[h], left, op, behind)
          /\ IsFirst(g, Infixes(left, op, behind))

-------------------------------------------------------------------------------
\* An operator of a nonassoc group, and another one of the group, which its
\* guard accepts, comes.
IsChain(tree) ==
  /\ tree.kind = "infix"
  /\ infix[tree.group].assoc = "nonassoc"
  /\ Fits(infix[tree.group], tree.op, next, second)

EndsInChain(r) == IsChain(r.tree) \/ \E edge \in r.rights : IsChain(edge.tree)

\* No operand that ends where the reading does, itself included, would take the
\* operator that comes.
IsLeftAlone(r) ==
  \A edge \in r.rights \cup {[bp |-> 0, tree |-> r.tree]} : Leaves(edge.bp, edge.tree.op, next, second)

\* What the parser returns is a reading of the tokens it took, in which every
\* operand belongs to the tighter of the two operators it stands between; the
\* operator that comes is none that an operand at its end would have, and no
\* chain of a nonassoc group is cut in two.
TightestWins ==
  outcome = "done" =>
    \E r \in Expressions[pos] : r.tree = top.left /\ IsLeftAlone(r) /\ ~EndsInChain(r)

\* There is no other reading of them.
NoOtherReading == outcome = "done" => \A r \in Expressions[pos] : r.tree = top.left

\* The parser stops only where no reading goes on: it leaves no operator that
\* the expression could have, and croaks at no text that has a reading.
ReadsOn ==
  outcome # "reading" =>
    LET expressions == Expressions IN \A n \in DOMAIN expressions : n > pos => expressions[n] = {}

\* An expression that could end where it is refused ends in a chain.
OnlyChainsAreRefused ==
  outcome = "croaked" /\ pos > 0 => \A r \in Expressions[pos] : EndsInChain(r)
================================================================================
