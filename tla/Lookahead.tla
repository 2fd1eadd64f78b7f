------------------------------- MODULE Lookahead -------------------------------
(***************************************************************************)
(* Whether a grammar meets the condition of Prediction: the places of its  *)
(* rules are computed from the ways that the rules go on, beginning with a *)
(* text and the end behind it. A rule has a place for each set of tokens   *)
(* that may come behind it.                                                *)
(***************************************************************************)
EXTENDS Prediction, TLC

RECURSIVE Heads(_, _), Reached(_, _, _)

\* The first n of the tokens that rules stand for.
Heads(rules, n) ==
  IF n = 0 \/ rules = <<>> THEN {<<>>}
  ELSE IF Head(rules).kind = "token"
       THEN {<<next>> \o tokens : next \in Said(Head(rules)), tokens \in Heads(Tail(rules), n - 1)}
       ELSE UNION {Heads(way.rules \o Tail(rules), n) : way \in Ways(Head(rules))}

At(r, behind) == [rule |-> r, behind |-> behind]

AheadAt(at, k) ==
  UNION {IF Len(tokens) = k THEN {tokens} ELSE {Cut(tokens \o more, k) : more \in at.behind}
           : tokens \in Heads(<<at.rule>>, k)}

\* Where each of rules is that have these tokens behind them.
Each(rules, behind, k) ==
  FoldRight(LAMBDA r, ats : <<At(r, IF ats = <<>> THEN behind ELSE AheadAt(Head(ats), k))>> \o ats,
            rules, <<>>)

Within(at, k) ==
  IF at.rule.kind = "token" THEN {}
  ELSE UNION {Range(Each(way.rules, at.behind, k)) : way \in Ways(at.rule)}

\* What is known, and what is reached from what is new.
Reached(known, new, k) ==
  IF new = {} THEN known
  ELSE LET all == known \cup new
       IN  Reached(all, UNION {Within(at, k) : at \in new} \ all, k)

\* The places of the rules that these texts reach (@@ keeps them, once computed).
PlacesFrom(texts, k) ==
  LET ats == Reached({}, UNION {Range(Each(text, {<<>>}, k)) : text \in texts}, k)
  IN  [r \in {at.rule : at \in ats} |->
         {Place(AheadAt(at, k), at.behind) : at \in {each \in ats : each.rule = r}}] @@ <<>>

\* The texts of a root, as one alone and as the statements of a script, can be read
\* by looking k tokens ahead, and its choices are checked.
ReadableBy(root, k) ==
  LET texts == {Text(root)} \cup {Item(each) : each \in FramedRoots \cap {root}}
      places == PlacesFrom(texts, k)
  IN  /\ \A text \in texts : Starts(places, text)
      /\ Predicts(places, k)
      /\ Disjoint(places)
================================================================================
