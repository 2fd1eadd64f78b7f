------------------------------ MODULE GrammarRun ------------------------------
(***************************************************************************)
(* One run of a grammar: parse, diagnose and parseValue of                 *)
(* packages/core/src/grammar.ts, with the two loops that recover (repeat   *)
(* and the loop of the expressions form) and delimited lists, which        *)
(* recover inside an item.                                                 *)
(*                                                                         *)
(* The run is a client of the parse context: every step of it that touches *)
(* the context is a step of ParseContext, so what is proved there holds    *)
(* here. The items are any rules of these parts: one may consume tokens,   *)
(* fail, try a branch and roll it back, or contain lists, nested at will.  *)
(* None calls peekAhead or describe, which are met in ParseContext, and    *)
(* none holds a loop that recovers. The only contract is that an item of a *)
(* loop consumes a token when it succeeds.                                 *)
(*                                                                         *)
(* The rule that is running is a stack of frames, one per open tryParse    *)
(* and one per open list. An exception unwinds it from the top.            *)
(***************************************************************************)
EXTENDS ParseContext, FiniteSets

CONSTANTS
  First,                   \* kinds an item of a loop may begin with
  Until,                   \* kinds that end a repeat
  Open, Close, Separator,  \* the tokens of a delimited list
  Grammars,                \* the grammars to run
  MaxTries                 \* bound on the tryParse calls of one run

\* form: the root is a repeat, the loop of the expressions form, or any other
\* rule; or parseValue runs a rule on its own. interleaved: lists are written
\* with commas, not as separator-terminated lines. recovers: delimited's
\* recover. strict: the grammar's strictDelimited.
Grammar == [form : {"repeat", "expressions", "rule", "value"},
            interleaved : BOOLEAN, recovers : BOOLEAN, strict : BOOLEAN]

ASSUME GrammarAssumption ==
  /\ First \subseteq Tokens /\ Until \subseteq Tokens
  /\ {Open, Close, Separator} \subseteq Tokens
  /\ Open # Close /\ Open # Separator /\ Close # Separator
  /\ Grammars \subseteq Grammar
  /\ \A g \in Grammars : g.form = "value" => ~Collect
  /\ MaxTries \in Nat

VARIABLES
  grammar,   \* the grammar of this run
  stage,     \* where the run stands
  frames,    \* the open lists and branches of the running rule
  began,     \* consumed() when the current turn of the loop began
  before,    \* consumed() when the loop caught an error
  tries,     \* tryParse calls made
  trailing,  \* the run found input left over after the root
  skipped,   \* history: recovery passed a token no rule consumed
  outcome    \* the error parse or diagnose threw

run == <<grammar, stage, frames, began, before, tries, trailing, skipped, outcome>>
context == <<stream, cursor, reports, control>>
allVars == <<vars, run>>

Stages == {"enter", "loop", "head", "reject", "item", "resume", "trail", "leftover", "done", "threw"}

\* The root is a loop that recovers.
Loops == grammar.form \in {"repeat", "expressions"}

Branch == [kind |-> "try", phase |-> "item", first |-> FALSE, depth |-> 0, from |-> 0]

\* A list whose open token is the last one consumed, once next() returns.
List == [kind |-> "list", phase |-> IF grammar.interleaved THEN "head" ELSE "soft",
         first |-> TRUE, depth |-> 0, from |-> count + 1]

TopFrame == frames[Len(frames)]
Below == SubSeq(frames, 1, Len(frames) - 1)
SetTop(frame) == frames' = [frames EXCEPT ![Len(frames)] = frame]

\* The token at the cursor, of one of these kinds; the head must be known.
HeadIn(kinds) == HeadKnown /\ Peeked # 0 /\ text[Peeked] \in kinds
HeadOther(kinds) == HeadKnown /\ Peeked # 0 /\ text[Peeked] \notin kinds
HeadNull == HeadKnown /\ Peeked = 0

InStage(s) == InClient /\ stage = s
\* The parts of the run that only a few steps touch.
still == <<grammar, tries, trailing, outcome>>
Goes(s) == stage' = s /\ UNCHANGED <<still, frames, began, before, skipped>>

-------------------------------------------------------------------------------
(* The context at work for the run.                                        *)

\* Any peek of the run.
Peek ==
  /\ stage \in {"enter", "head", "item", "leftover"}
  /\ stage = "enter" => grammar.form = "expressions"
  /\ call = Idle
  /\ FetchHead \/ FetchThrows
  /\ UNCHANGED run

\* An iteration of skipTrivia or recover. What recover passes is skipped.
ContextLoop ==
  /\ LoopStep
  /\ skipped' = (skipped \/ (call.op = "recover" /\ count' > count))
  /\ UNCHANGED <<still, stage, frames, began, before>>

-------------------------------------------------------------------------------
(* The loops: repeat().parse and root.parse of the expressions form.       *)

\* The expressions form asks for the position, which peeks, before its try;
\* parseValue skips trivia before its rule.
Enter ==
  /\ InStage("enter")
  /\ \/ grammar.form = "expressions" /\ HeadKnown /\ Goes("loop") /\ UNCHANGED context
     \/ grammar.form = "repeat" /\ Goes("loop") /\ UNCHANGED context
     \/ grammar.form = "rule" /\ Goes("item") /\ UNCHANGED context
     \/ grammar.form = "value" /\ Goes("item") /\ StartSkipTrivia

LoopTurn ==
  /\ InStage("loop")
  /\ StartSkipTrivia
  /\ stage' = "head"
  /\ began' = count
  /\ UNCHANGED <<still, frames, before, skipped>>

\* skipTrivia is done: this is where the item of this turn would begin.
LoopEnds ==
  /\ InStage("head")
  /\ HeadNull \/ (grammar.form = "repeat" /\ HeadIn(Until))
  /\ Goes("trail")
  /\ UNCHANGED context

LoopItem ==
  /\ InStage("head")
  /\ began' = count
  /\ stage' = "item"
  /\ UNCHANGED <<still, frames, before, skipped>>
  /\ \/ grammar.form = "repeat" /\ HeadIn(First \ Until) /\ UNCHANGED context
     \/ grammar.form = "expressions" /\ HeadIn(First) /\ NextToken

\* repeat croaks on the token, the expressions form consumes it first.
LoopMismatch ==
  /\ InStage("head")
  /\ began' = count
  /\ UNCHANGED <<still, frames, before, skipped>>
  /\ \/ grammar.form = "repeat" /\ HeadOther(First \cup Until) /\ Croak /\ stage' = "loop"
     \/ grammar.form = "expressions" /\ HeadOther(First) /\ NextToken /\ stage' = "reject"

Reject ==
  /\ InStage("reject")
  /\ ThrowBuilt
  /\ Goes("loop")

\* The loop catches what its try threw: record it, go to a sync point.
LoopCatches ==
  /\ thrown # NoError /\ frames = <<>>
  /\ Loops /\ stage \in {"loop", "head", "item"}
  /\ StartRecover
  /\ stage' = "resume"
  /\ before' = count
  /\ UNCHANGED <<still, frames, began, skipped>>

\* Where nothing was skipped one token is passed, so that the loop moves on.
LoopResumes ==
  /\ InStage("resume")
  /\ stage' = "loop"
  /\ IF count = before /\ Peeked # 0
     THEN NextToken /\ skipped' = TRUE
     ELSE UNCHANGED <<context, skipped>>
  /\ UNCHANGED <<still, frames, began, before>>

-------------------------------------------------------------------------------
(* Rules at work. The rule of the top frame runs in an item.               *)

\* A rule runs: the loop's item, an item of a list, or what a branch tries.
Phase == IF frames = <<>> THEN "item" ELSE TopFrame.phase
InItem == InStage("item") /\ Phase = "item"

Runs == UNCHANGED <<still, stage, began, before, skipped>>

ItemNext ==
  /\ InItem
  /\ HeadKnown
  /\ NextToken
  /\ Runs /\ UNCHANGED frames

ItemCroaks ==
  /\ InItem
  /\ HeadKnown
  /\ Croak
  /\ Runs /\ UNCHANGED frames

ItemTries ==
  /\ InItem
  /\ tries < MaxTries
  /\ TryParse
  /\ tries' = tries + 1
  /\ frames' = Append(frames, Branch)
  /\ UNCHANGED <<grammar, stage, began, before, trailing, skipped, outcome>>

ItemCommits ==
  /\ InItem
  /\ frames # <<>> /\ TopFrame.kind = "try"
  /\ Commit
  /\ frames' = Below
  /\ Runs

\* The loop's item, or the root rule, returns.
ItemReturns ==
  /\ InItem
  /\ frames = <<>>
  /\ \/ ~Loops /\ Goes("trail")
     \/ Loops /\ count > began /\ Goes("loop")
  /\ UNCHANGED context

\* A rule threw inside tryParse: rolled back, or a tagged lexer error that
\* passes on through the next frame.
BranchUnwinds ==
  /\ frames # <<>> /\ TopFrame.kind = "try"
  /\ RollBack \/ Rethrow
  /\ frames' = Below
  /\ Runs

-------------------------------------------------------------------------------
(* delimited().parse                                                       *)

InList(phase) ==
  /\ InStage("item")
  /\ frames # <<>> /\ TopFrame.kind = "list" /\ TopFrame.phase = phase

To(phase) == SetTop([TopFrame EXCEPT !.phase = phase])

\* eatMatch(open) succeeds. Its failure is ItemCroaks.
ListOpens ==
  /\ InItem
  /\ HeadIn({Open})
  /\ NextToken
  /\ frames' = Append(frames, List)
  /\ Runs

\* skipSoftSeparator: trivia, one separator, then any run of both.
SoftTrivia ==
  /\ InList("soft")
  /\ StartSkipTrivia
  /\ To("softSeparator")
  /\ Runs

SoftSeparator ==
  /\ InList("softSeparator")
  /\ \/ HeadIn({Separator}) /\ NextToken /\ To("softRun")
     \/ HeadNull /\ Croak /\ UNCHANGED frames
     \/ HeadOther({Separator}) /\ Croak /\ UNCHANGED frames
  /\ Runs

SoftRun ==
  /\ InList("softRun")
  /\ \/ HeadIn(Trivia \cup {Separator}) /\ NextToken /\ UNCHANGED frames
     \/ HeadNull /\ To("head") /\ UNCHANGED context
     \/ HeadOther(Trivia \cup {Separator}) /\ To("head") /\ UNCHANGED context
  /\ Runs

\* The end of the text closes a list, unless the grammar is strict.
ListAtEnd ==
  /\ InList("head")
  /\ HeadNull
  /\ IF grammar.strict
     THEN Croak /\ UNCHANGED frames
     ELSE frames' = Below /\ UNCHANGED context
  /\ Runs

ListCloses ==
  /\ InList("head")
  /\ HeadIn({Close})
  /\ NextToken
  /\ frames' = Below
  /\ Runs

ListItem ==
  /\ InList("head")
  /\ HeadOther({Close})
  /\ IF grammar.interleaved /\ ~TopFrame.first
     THEN \/ HeadIn({Separator}) /\ NextToken /\ To("item")
          \/ HeadOther({Separator}) /\ Croak /\ UNCHANGED frames
     ELSE To("item") /\ UNCHANGED context
  /\ Runs

ListItemReturns ==
  /\ InList("item")
  /\ SetTop([TopFrame EXCEPT !.phase = IF grammar.interleaved THEN "head" ELSE "soft",
                             !.first = FALSE])
  /\ Runs /\ UNCHANGED context

\* Only what an item threw is caught; what the list itself threw, also while
\* it was skipping, goes on to the frame below.
ListCatches ==
  /\ frames # <<>> /\ TopFrame.kind = "list" /\ TopFrame.phase = "item"
  /\ grammar.recovers
  /\ Report
  /\ SetTop([TopFrame EXCEPT !.phase = "skip", !.depth = 0])
  /\ Runs

ListUnwinds ==
  /\ thrown # NoError
  /\ frames # <<>> /\ TopFrame.kind = "list"
  /\ ~(TopFrame.phase = "item" /\ grammar.recovers /\ Collect)
  /\ frames' = Below
  /\ Runs /\ UNCHANGED context

SkipEndsSlip ==
  \/ HeadNull
  \/ TopFrame.depth = 0 /\ HeadIn({Separator})

\* What ends the skip: the separator or the close at its own level.
SkipEnds ==
  \/ HeadNull
  \/ TopFrame.depth = 0 /\ HeadIn({Close, Separator})

ListSkipSlip ==
  /\ InList("skip")
  /\ HeadKnown /\ ~SkipEnds
  /\ IF HeadIn({Separator}) THEN UNCHANGED context ELSE NextToken
  /\ SetTop([TopFrame EXCEPT !.depth = @ + (IF HeadIn({Open}) THEN 1 ELSE 0)
                                         - (IF HeadIn({Close}) THEN 1 ELSE 0)])
  /\ skipped' = TRUE
  /\ UNCHANGED <<still, stage, began, before>>

ListSkip ==
  /\ InList("skip")
  /\ HeadKnown /\ ~SkipEnds
  /\ NextToken
  /\ SetTop([TopFrame EXCEPT !.depth = @ + (IF HeadIn({Open}) THEN 1 ELSE 0)
                                         - (IF HeadIn({Close}) THEN 1 ELSE 0)])
  /\ skipped' = TRUE
  /\ UNCHANGED <<still, stage, began, before>>

ListSkipped ==
  /\ InList("skip")
  /\ SkipEnds
  /\ SetTop([TopFrame EXCEPT
       !.phase = IF ~grammar.interleaved /\ HeadIn({Separator}) THEN "soft" ELSE "head",
       !.first = FALSE])
  /\ Runs /\ UNCHANGED context

-------------------------------------------------------------------------------
(* run(): after the root, and what leaves it.                              *)

Trail ==
  /\ InStage("trail")
  /\ StartSkipTrivia
  /\ Goes("leftover")

FinishSlip ==
  /\ InStage("leftover")
  /\ HeadKnown
  /\ Goes("done") /\ UNCHANGED context

\* Input left over is an error: collected, or thrown.
Finish ==
  /\ InStage("leftover")
  /\ \/ HeadNull /\ Goes("done") /\ UNCHANGED context
     \/ /\ HeadKnown /\ Peeked # 0 /\ Collect
        /\ stage' = "done" /\ trailing' = TRUE
        /\ UNCHANGED <<grammar, frames, began, before, tries, skipped, outcome, context>>
     \/ /\ HeadKnown /\ Peeked # 0 /\ ~Collect
        /\ IF grammar.form = "value" THEN Croak ELSE ThrowBuilt
        /\ UNCHANGED run

EscapesAsThrownSlip ==
  /\ thrown # NoError /\ frames = <<>>
  /\ stage \in {"enter", "leftover"} \/ ~Loops \/ ~Collect
  /\ stage # "threw"
  /\ stage' = "threw"
  /\ outcome' = thrown
  /\ UNCHANGED <<context, grammar, frames, began, before, tries, trailing, skipped>>

EscapesBetweenItemsSlip ==
  /\ thrown # NoError /\ frames = <<>>
  /\ stage \in {"enter", "head", "leftover"} \/ ~Loops \/ ~Collect
  /\ stage # "threw"
  /\ stage' = "threw"
  /\ outcome' = thrown
  /\ UNCHANGED <<context, grammar, frames, began, before, tries, trailing, skipped>>

\* What no frame and no loop catches leaves the run; what the root threw gives
\* way to the farthest croak.
Escapes ==
  /\ thrown # NoError /\ frames = <<>>
  /\ stage \in {"enter", "leftover"} \/ ~Loops \/ ~Collect
  /\ stage # "threw"
  /\ stage' = "threw"
  /\ outcome' = IF Deeper(thrown) /\ stage # "leftover" /\ grammar.form # "value"
                THEN farthest ELSE thrown
  /\ UNCHANGED <<context, grammar, frames, began, before, tries, trailing, skipped>>

Ended == stage \in {"done", "threw"} /\ UNCHANGED allVars

-------------------------------------------------------------------------------
RunInit ==
  /\ Init
  /\ grammar \in Grammars
  /\ stage = "enter" /\ frames = <<>>
  /\ began = 0 /\ before = 0
  /\ tries = 0 /\ trailing = FALSE /\ skipped = FALSE /\ outcome = NoError

RunStep ==
  \/ Peek \/ ContextLoop
  \/ Enter \/ LoopTurn \/ LoopEnds \/ LoopItem \/ LoopMismatch \/ Reject
  \/ LoopCatches \/ LoopResumes
  \/ ItemNext \/ ItemCroaks \/ ItemTries \/ ItemCommits \/ ItemReturns \/ BranchUnwinds
  \/ ListOpens \/ SoftTrivia \/ SoftSeparator \/ SoftRun
  \/ ListAtEnd \/ ListCloses \/ ListItem \/ ListItemReturns
  \/ ListCatches \/ ListUnwinds \/ ListSkip \/ ListSkipped
  \/ Trail \/ Finish \/ Escapes

RunNext == RunStep \/ Ended

\* The run is one synchronous call.
RunSpec == RunInit /\ [][RunNext]_allVars /\ WF_allVars(RunStep)

-------------------------------------------------------------------------------
Frame == [kind : {"try", "list"},
          phase : {"item", "head", "soft", "softSeparator", "softRun", "skip"},
          first : BOOLEAN, depth : Nat, from : Nat]

RunTypeOK ==
  /\ grammar \in Grammars
  /\ stage \in Stages
  /\ frames \in Seq(Frame)
  /\ began \in Nat /\ before \in Nat /\ tries \in 0..MaxTries
  /\ trailing \in BOOLEAN /\ skipped \in BOOLEAN
  /\ outcome \in Error

\* parse and diagnose end for every text: each turn of a recovering loop and
\* each skip of a list consumes something, whatever its items do.
Finishes == <>(stage \in {"done", "threw"})

\* diagnose of a repeat throws nothing: every error, also one the lexer raises
\* between two items or while a list skips, is caught by the loop.
RepeatCollects == Collect /\ grammar.form = "repeat" => stage # "threw"

\* A diagnose without diagnostics is a parse that succeeded: rules and trivia
\* consumed every token of the text, and recovery none of them.
CleanMeansParsed ==
  Collect /\ stage = "done" /\ errors = <<>> /\ ~trailing =>
    /\ ~skipped
    /\ AtEnd /\ count = Len(produced)
    /\ Propagate => \A i \in 1..Len(text) : text[i] # Bad

\* Every tryParse the run left was popped, also by an exception that unwound
\* lists on its way, so that none keeps the buffer alive after the run.
BranchesAreClosed ==
  /\ Cardinality({i \in 1..Len(frames) : frames[i].kind = "try"}) = Len(snapshots)
  /\ stage \in {"loop", "resume", "done", "threw"} /\ thrown = NoError => snapshots = <<>>

\* With preferFarthest, what parse throws is the deepest failure of all the
\* branches it tried, when it is a failure of a rule.
ThrowsDeepest ==
  stage = "threw" /\ PreferFarthest /\ grammar.form # "value" /\ Stamped(outcome)
    => outcome.consumed = deepest

\* rule.ts:54 on sync points: "false resumes on it (construct keywords)". The
\* construct such a token begins is lost when the loop skips the token without
\* having tried to parse an item there.
ResumesOnKeep ==
  [][stage = "resume" /\ count' > count /\ began < count => text[last'] \notin SyncKeep]_allVars

\* grammar.ts, as the README has it: diagnose "returns { ast, errors }".
DiagnoseReturns == Collect => stage # "threw"

\* combinators.ts:407: the skip goes "to this list's own next separator or
\* close, counting nested open/close pairs so an inner list's delimiters don't
\* end the skip".
NestingSince(n) ==
  Cardinality({i \in (n + 1)..count : text[produced[i]] = Open})
    - Cardinality({i \in (n + 1)..count : text[produced[i]] = Close})

SkipEndsAtOwnLevel ==
  InList("skip") /\ SkipEnds /\ Peeked # 0 => NestingSince(TopFrame.from) = 0
================================================================================
