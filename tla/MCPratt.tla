-------------------------------- MODULE MCPratt --------------------------------
(***************************************************************************)
(* A table with what the tables of the tests and of the two examples have: *)
(* the sign and NOT, a right and a nonassoc group, BETWEEN with its AND,   *)
(* `? :`, twins that differ by their guards, a postfix operator that its   *)
(* guard leaves to an infix group.                                         *)
(***************************************************************************)
EXTENDS PrattReadings

CONSTANTS MaxText, MaxChain

Group(ops, bp, assoc) ==
  [ops |-> ops, bp |-> bp, assoc |-> assoc, custom |-> FALSE, tail |-> <<>>, declines |-> {}]

Tailed(group, reads) == [group EXCEPT !.custom = TRUE, !.tail = reads]

MCAtoms == {"a", "0"}

OperatorTokens == {"-", "not", "^", "*", "=", "between", "and", "?", ":", "<-", "!", "is", "isnull", "[", "]"}

Everything == MCAtoms \cup OperatorTokens \cup {"", "any"}

MCPrefixes == << Group({"-"}, 13, "left"), Group({"not"}, 6, "left") >>

MCPostfixes ==
  << Tailed(Group({"["}, 19, "left"), <<Operand(0), Keyword("]")>>),
     [Group({"!"}, 17, "left") EXCEPT !.declines = Everything \X MCAtoms],
     Tailed(Group({"is"}, 8, "left"), <<Operand(9)>>),
     Group({"isnull"}, 8, "left") >>

MCInfixes ==
  << [Tailed(Group({"*", "^"}, 12, "left"), <<Keyword("any")>>)
        EXCEPT !.declines = Everything \X (Everything \ {"any"})],
     Group({"^"}, 14, "right"),
     [Group({"*"}, 12, "left") EXCEPT !.declines = (Everything \ {"0"}) \X Everything],
     Group({"*"}, 12, "left"),
     Group({"!"}, 11, "left"),
     Tailed(Group({"between"}, 10, "left"), <<Operand(11), Keyword("and"), Operand(11)>>),
     \* A chain may go on before a sign, see the test of declined chains.
     [Group({"="}, 9, "nonassoc") EXCEPT !.declines = {"="} \X {"-"}],
     Group({"and"}, 4, "left"),
     Tailed(Group({"?"}, 3, "left"), <<Operand(0), Keyword(":"), Operand(0)>>),
     Group({"<-"}, 2, "right") >>

\* A parser reads no further than two atoms in a row, or than a first token that
\* begins nothing: beyond four tokens no text has them.
Longer(words) ==
  /\ words[1] \in MCAtoms \cup {"-", "not"}
  /\ \A i \in 2..Len(words) : ~({words[i - 1], words[i]} \subseteq MCAtoms)

TextsOf(tokens, max) == {words \in BoundedSeq(tokens, max) : Len(words) > 4 => Longer(words)}

MCTexts ==
  TextsOf({"a", "-", "^", "*"}, MaxText)
    \cup TextsOf({"a", "=", "not", "and"}, MaxText)
    \cup TextsOf({"a", "=", "-", "is"}, MaxText)
    \cup TextsOf({"a", "not", "between", "and"}, MaxChain)
    \cup TextsOf({"a", "?", ":", "<-"}, MaxChain)
    \cup TextsOf({"a", "0", "*", "!"}, MaxText)
    \cup TextsOf({"a", "^", "*", "any", "="}, MaxText - 1)
    \cup TextsOf({"a", "[", "]", "not", "isnull"}, MaxText)

\* The table keeps to what the theorems ask for.
ASSUME TableIsRegular == OperandsStop /\ ChainsAreTheirs
================================================================================
