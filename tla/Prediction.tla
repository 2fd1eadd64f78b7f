------------------------------ MODULE Prediction ------------------------------
(***************************************************************************)
(* When a grammar can be read by looking k tokens ahead: the parser then   *)
(* takes every text of it as it was derived, however long it is. What may  *)
(* come is given as places: a place of a rule has the tokens that may be   *)
(* ahead there, and those behind what the rule stands for, no more than k  *)
(* of them. The condition is about the rules, for one at a time; that it is*)
(* enough is proved in ScriptProofs.                                       *)
(***************************************************************************)
EXTENDS Scripts

\* Tokens, and the entries of a pattern.
EntrySet == [type : STRING, value : STRING]

\* The first k of the tokens.
Cut(tokens, k) == SubSeq(tokens, 1, IF Len(tokens) < k THEN Len(tokens) ELSE k)

-------------------------------------------------------------------------------
(* Tests and tokens.                                                       *)

\* A pattern may match these tokens and what comes behind them.
Agrees(pattern, tokens) ==
  \A i \in DOMAIN pattern \cap DOMAIN tokens : MatchesToken(pattern[i], tokens[i])

Left(look, tokens) == {p \in look.patterns : Agrees(p, tokens)}

\* The tokens settle a test as it was derived, or leave it open.
Passes(test, tokens) ==
  /\ test.must => \E i \in DOMAIN test.looks : Left(test.looks[i], tokens) # {}
  /\ \A i \in DOMAIN test.looks :
       /\ \A j \in 1..(i - 1) : Left(test.looks[j], tokens) = {}
       /\ \E p \in Left(test.looks[i], tokens) : Len(p) <= Len(tokens)
       => test.looks[i].mine

Looks == [patterns : SUBSET Seq(EntrySet), mine : BOOLEAN]

Tests == [must : BOOLEAN, looks : Seq(Looks)]

\* No pattern of a test is longer than k tokens.
IsTest(test, k) ==
  /\ test \in Tests
  /\ \A i \in DOMAIN test.looks : \A p \in test.looks[i].patterns : Len(p) <= k

-------------------------------------------------------------------------------
(* Places.                                                                 *)

Place(ahead, behind) == [ahead |-> ahead, behind |-> behind]

\* What is ahead of the i-th of rules at these places, or of what is behind them.
AheadOf(places, i, behind) == IF i \in DOMAIN places THEN places[i].ahead ELSE behind

\* These are places of the rules, one behind the other.
Placed(Places, rules, behind, places) ==
  /\ rules \in Seq(DOMAIN Places)
  /\ DOMAIN places = DOMAIN rules
  /\ \A i \in DOMAIN rules :
       /\ places[i] \in Places[rules[i]]
       /\ AheadOf(places, i + 1, behind) \subseteq places[i].behind

\* The places that rules have before these tokens.
PlacesOf(Places, rules, behind) ==
  FoldRight(LAMBDA r, places :
              <<CHOOSE p \in Places[r] : p.behind = AheadOf(places, 1, behind)>> \o places,
            rules, <<>>)

\* The ways that a rule may go on.
NoTest == Unwanted({})

Ways(r) ==
  CASE r.kind = "seq" -> {Way(r.rules, NoTest)}
    [] r.kind = "ref" -> {Way(<<Grammar(r.name)>>, NoTest)}
    [] r.kind \in {"custom", "attempt"} -> {Way(<<r.rule>>, NoTest)}
    [] r.kind = "oneOf" -> {BranchWay(r, i) : i \in Sound(r.rules)}
    [] r.kind = "optional" -> {OptionWay(r, there) : there \in BOOLEAN}
    [] r.kind = "switch" -> {CaseWay(r, i) : i \in CasesOf(r)}
    [] r.kind = "many" -> {RoundWay(r, FirstOf(r.rule), FALSE, round) : round \in BOOLEAN}
    [] r.kind = "loop" -> {RoundWay(r, r.patterns, r.stop, round) : round \in BOOLEAN}
    [] r.kind = "clauses" ->
         {ClauseWay(r, i) : i \in {n \in Open(r) : Comes(r, n)}} \cup {LastClause(r)}
    [] r.kind = "ends" -> {EndWay(r)}

-------------------------------------------------------------------------------
(* The condition.                                                          *)

\* A token that is taken is ahead, before what is behind.
ReadsOn(r, place, k) ==
  /\ Said(r) \subseteq EntrySet
  /\ \A next \in Said(r), tokens \in place.behind : Cut(<<next>> \o tokens, k) \in place.ahead

\* Where a rule goes on this way, what may come passes the test of it.
GoesOn(Places, way, place, k) ==
  LET places == PlacesOf(Places, way.rules, place.behind)
      ahead == AheadOf(places, 1, place.behind)
  IN  /\ Placed(Places, way.rules, place.behind, places)
      /\ ahead \subseteq place.ahead
      /\ IsTest(way.test, k)
      /\ \A tokens \in ahead : Passes(way.test, tokens)

Predicts(Places, k) ==
  \A r \in DOMAIN Places : \A place \in Places[r] :
    /\ place.ahead # {} /\ place.ahead \cup place.behind \subseteq Seq(EntrySet)
    /\ IF r.kind = "token"
       THEN ReadsOn(r, place, k)
       ELSE \A way \in Ways(r) : GoesOn(Places, way, place, k)

\* A text starts at a place, with nothing behind it.
Starts(Places, rules) == Placed(Places, rules, {<<>>}, PlacesOf(Places, rules, {<<>>}))

\* So do all texts, and the statements of a script.
Begins(Places) ==
  \A rules \in {Text(root) : root \in Roots} \cup {Item(root) : root \in FramedRoots} :
    Starts(Places, rules)

\* No choice has branches that overlap.
Disjoint(Places) == \A r \in DOMAIN Places : r.kind = "oneOf" => Validates(r.rules)
================================================================================
