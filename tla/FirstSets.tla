------------------------------- MODULE FirstSets -------------------------------
(***************************************************************************)
(* The first sets that the combinators declare. nullable and backtracks    *)
(* are lost behind lazy and custom.                                        *)
(***************************************************************************)
EXTENDS Rules

RECURSIVE Nullable(_), FirstIn(_, _)

\* A leading optional hides what follows it.
NullableSlip(rule) == FALSE

Nullable(rule) ==
  CASE rule.kind = "optional" -> TRUE
    [] rule.kind = "attempt" -> Nullable(rule.rule)
    [] rule.kind = "oneOf" -> \E i \in DOMAIN rule.rules : Nullable(rule.rules[i])
    [] OTHER -> FALSE

\* The first set of a sequence extends across leading nullable items. That of a
\* lazy rule is the one of the rule it stands for in the grammar.
FirstIn(grammar, rule) ==
  CASE rule.kind = "token" -> Ahead(rule.first)
    [] rule.kind = "seq" ->
         LET leads == {i \in DOMAIN rule.rules : \A n \in 1..(i - 1) : Nullable(rule.rules[n])}
         IN  UNION {FirstIn(grammar, rule.rules[i]) : i \in leads}
    [] rule.kind = "oneOf" -> UNION {FirstIn(grammar, rule.rules[i]) : i \in DOMAIN rule.rules}
    [] rule.kind \in {"optional", "attempt", "many"} -> FirstIn(grammar, rule.rule)
    [] rule.kind = "custom" -> rule.first
    [] rule.kind = "ref" -> FirstIn(grammar, grammar[rule.name])

\* Of a rule that no lazy one leads.
First(rule) == FirstIn(<<>>, rule)

\* Parts in their order, each of which may be left out, but not all of them.
someOf(parts) ==
  Switch([i \in DOMAIN parts |->
            Case(First(parts[i]),
                 seq(<<parts[i]>> \o [n \in 1..(Len(parts) - i) |-> optional(parts[i + n])]))],
         Croak)
================================================================================
