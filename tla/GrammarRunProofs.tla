--------------------------- MODULE GrammarRunProofs ---------------------------
(***************************************************************************)
(* What holds of the runs of every grammar, over every text: each step of  *)
(* a run is a step its parse context allows, so the theorems of            *)
(* ParseContextProofs hold in it; diagnose of a repeat throws nothing; and *)
(* what the caller of parse and diagnose learns of a text that does not    *)
(* parse: the error thrown is the deepest, no error of the lexer is        *)
(* missing from the diagnostics, and no diagnostics means a clean parse.   *)
(***************************************************************************)
EXTENDS GrammarRun, ParseContextProofs, FiniteSetTheorems

-------------------------------------------------------------------------------
(* The run as a client of the context.                                     *)

LEMMA RunStepsContext == [RunNext]_allVars => [Next]_vars
<1> SUFFICES ASSUME [RunNext]_allVars PROVE [Next]_vars
  OBVIOUS
<1> USE DEF Next, LoopStep, ClientStep
<1>1. CASE UNCHANGED context
  BY <1>1 DEF context, vars
<1>2. CASE Peek
  BY <1>2 DEF Peek
<1>3. CASE ContextLoop
  BY <1>3 DEF ContextLoop
<1>4. CASE Enter
  BY <1>1, <1>4 DEF Enter
<1>5. CASE LoopTurn \/ Trail \/ SoftTrivia
  BY <1>5 DEF LoopTurn, Trail, SoftTrivia
<1>6. CASE LoopEnds \/ ItemReturns \/ ListItemReturns \/ ListUnwinds \/ ListSkipped \/ Escapes
  BY <1>1, <1>6 DEF LoopEnds, ItemReturns, ListItemReturns, ListUnwinds, ListSkipped, Escapes
<1>7. CASE LoopItem \/ LoopMismatch \/ LoopResumes
  BY <1>1, <1>7 DEF LoopItem, LoopMismatch, LoopResumes
<1>8. CASE Reject \/ LoopCatches \/ ListCatches
  BY <1>8 DEF Reject, LoopCatches, ListCatches
<1>9. CASE ItemNext \/ ItemCroaks \/ ItemTries \/ ItemCommits \/ BranchUnwinds
  BY <1>9 DEF ItemNext, ItemCroaks, ItemTries, ItemCommits, BranchUnwinds
<1>10. CASE ListOpens \/ ListCloses \/ ListSkip
  BY <1>10 DEF ListOpens, ListCloses, ListSkip
<1>11. CASE SoftSeparator \/ SoftRun \/ ListAtEnd \/ ListItem
  BY <1>1, <1>11 DEF SoftSeparator, SoftRun, ListAtEnd, ListItem
<1>12. CASE Finish
  BY <1>1, <1>12 DEF Finish
<1>13. CASE Ended \/ UNCHANGED allVars
  BY <1>1, <1>13 DEF Ended, allVars, vars, context
<1> QED
  BY <1>2, <1>3, <1>4, <1>5, <1>6, <1>7, <1>8, <1>9, <1>10, <1>11, <1>12, <1>13
  DEF RunNext, RunStep

\* The invariant of the context holds in every run of every grammar.
THEOREM ContextInvariance == RunSpec => []IInv
<1>1. RunInit => IInv
  BY InitIInv DEF RunInit
<1>2. IInv /\ [RunNext]_allVars => IInv'
  BY RunStepsContext, StepsMove, MovesKeep, StepReports DEF IInv
<1> QED
  BY <1>1, <1>2, PTL DEF RunSpec

\* The rules of a grammar run on a plain rewindable tape of tokens: the runs of
\* parse, diagnose and parseValue implement the abstract cursor.
THEOREM RunRefinement == RunSpec => CursorSpec
<1>1. RunInit => Cursor!Init
  <2> SUFFICES ASSUME RunInit PROVE Cursor!Init
    OBVIOUS
  <2>1. MarksOf(snapshots) = <<>>
    BY DEF RunInit, Init, MarksOf
  <2> QED
    BY <2>1 DEF RunInit, Init, Cursor!Init, MarksOf
<1>2. IInv /\ [RunNext]_allVars => [Cursor!Next]_(Cursor!vars)
  BY RunStepsContext, StepsMove, MovesRefine DEF IInv
<1> QED
  BY <1>1, <1>2, ContextInvariance, PTL DEF RunSpec, CursorSpec, Cursor!Spec

-------------------------------------------------------------------------------
(* diagnose of a repeat.                                                   *)

\* Nothing is left to lex before a rule or the end of the run.
Settled == HeadKnown /\ (Peeked = 0 \/ ~IsTrivia(Peeked))

\* What the run does outside the loop's try finds the head known: the trailing
\* skipTrivia and eof of run() lex nothing.
Quiet ==
  /\ stage # "threw"
  /\ stage = "enter" => thrown = NoError /\ call = Idle
  /\ stage \in {"head", "trail", "leftover"} => call = Idle \/ call.op = "skipTrivia"
  /\ stage = "head" /\ call = Idle /\ thrown = NoError => Settled
  /\ stage \in {"trail", "leftover"} => thrown = NoError /\ Settled

QuietInv == Collect /\ grammar.form = "repeat" => Quiet

\* Where skipTrivia ends, and what it may do before.
LEMMA SkipTriviaStep ==
  ASSUME LoopStep, call.op = "skipTrivia"
  PROVE  /\ call' = Idle \/ call'.op = "skipTrivia"
         /\ call' = Idle /\ thrown' = NoError => Settled'
         /\ Settled /\ thrown = NoError => Settled' /\ thrown' = NoError
<1> USE DEF Idle, InLoop
<1>1. CASE FetchHead
  BY <1>1 DEF FetchHead, Settled, control
<1>2. CASE FetchThrows
  BY <1>2 DEF FetchThrows, Settled, LexerError, NoError
<1>3. CASE SkipTrivia
  <2>1. CASE Peeked # 0 /\ IsTrivia(Peeked)
    BY <1>3, <2>1 DEF SkipTrivia, Settled
  <2>2. CASE ~(Peeked # 0 /\ IsTrivia(Peeked))
    BY <1>3, <2>2
    DEF SkipTrivia, Settled, stream, cursor, HeadKnown, Peeked, Buffered, AtEnd, IsTrivia
  <2> QED
    BY <2>1, <2>2
<1> QED
  BY <1>1, <1>2, <1>3
  DEF LoopStep, PullAhead, PullAheadThrows, EndPeekAhead, RecoverLexerError,
      RecoverAtSync, RecoverSkip

LEMMA SettledStays == Settled /\ UNCHANGED <<stream, cursor>> => Settled'
BY DEF Settled, stream, cursor, HeadKnown, Peeked, Buffered, AtEnd, IsTrivia

\* Lists and branches are open only while an item runs.
Bare == stage # "item" => frames = <<>>

LEMMA BareStep ==
  ASSUME Bare, [RunNext]_allVars
  PROVE  Bare'
<1> USE DEF Bare
<1>1. CASE Ended \/ UNCHANGED allVars \/ Peek
  BY <1>1 DEF Ended, allVars, run, Peek
<1>2. CASE ContextLoop
  BY <1>2 DEF ContextLoop
<1>3. CASE Enter \/ LoopEnds \/ Reject \/ Trail
  <2>1. stage # "item" /\ UNCHANGED frames
    BY <1>3 DEF Enter, LoopEnds, Reject, Trail, InStage, Goes
  <2> QED
    BY <2>1
<1>4. CASE LoopTurn \/ LoopItem \/ LoopMismatch \/ LoopResumes
  <2>1. stage # "item" /\ UNCHANGED frames
    BY <1>4 DEF LoopTurn, LoopItem, LoopMismatch, LoopResumes, InStage
  <2> QED
    BY <2>1
<1>5. CASE LoopCatches \/ Escapes
  <2>1. frames = <<>> /\ UNCHANGED frames
    BY <1>5 DEF LoopCatches, Escapes
  <2> QED
    BY <2>1
<1>6. CASE ItemReturns
  <2>1. frames = <<>> /\ UNCHANGED frames
    BY <1>6 DEF ItemReturns, Goes
  <2> QED
    BY <2>1
<1>7. CASE Finish
  <2>1. stage # "item" /\ UNCHANGED frames
    BY <1>7 DEF Finish, InStage, Goes, run
  <2> QED
    BY <2>1
<1>8. CASE ItemNext \/ ItemCroaks \/ ItemTries \/ ItemCommits
  <2>1. stage = "item" /\ stage' = stage
    BY <1>8 DEF ItemNext, ItemCroaks, ItemTries, ItemCommits, InItem, InStage, Runs
  <2> QED
    BY <2>1
<1>9. CASE BranchUnwinds \/ ListCatches \/ ListUnwinds
  <2>1. frames # <<>> /\ stage' = stage
    BY <1>9 DEF BranchUnwinds, ListCatches, ListUnwinds, Runs
  <2> QED
    BY <2>1
<1>10. CASE ListOpens \/ SoftTrivia \/ SoftSeparator \/ SoftRun \/ ListAtEnd \/ ListCloses
            \/ ListItem \/ ListItemReturns \/ ListSkip \/ ListSkipped
  <2>1. stage = "item" /\ stage' = stage
    BY <1>10 DEF ListOpens, SoftTrivia, SoftSeparator, SoftRun, ListAtEnd, ListCloses,
                 ListItem, ListItemReturns, ListSkip, ListSkipped, InItem, InList,
                 InStage, Runs
  <2> QED
    BY <2>1
<1> QED
  BY <1>1, <1>2, <1>3, <1>4, <1>5, <1>6, <1>7, <1>8, <1>9, <1>10 DEF RunNext, RunStep

LEMMA QuietStep ==
  ASSUME QuietInv, Bare, [RunNext]_allVars
  PROVE  QuietInv'
<1> SUFFICES ASSUME Collect, grammar.form = "repeat", Quiet, grammar' = grammar
             PROVE  Quiet'
  <2>1. grammar' = grammar
    BY DEF RunNext, RunStep, Ended, allVars, run, still, Goes, Runs, Peek, ContextLoop,
           Enter, LoopTurn, LoopEnds, LoopItem, LoopMismatch, Reject, LoopCatches,
           LoopResumes, ItemNext, ItemCroaks, ItemTries, ItemCommits, ItemReturns,
           BranchUnwinds, ListOpens, SoftTrivia, SoftSeparator, SoftRun, ListAtEnd,
           ListCloses, ListItem, ListItemReturns, ListCatches, ListUnwinds, ListSkip,
           ListSkipped, Trail, Finish, Escapes
  <2> QED
    BY <2>1 DEF QuietInv
<1> USE DEF Quiet
<1>1. CASE Ended \/ UNCHANGED allVars
  <2>1. UNCHANGED allVars
    BY <1>1 DEF Ended
  <2> QED
    BY <2>1, SettledStays DEF allVars, vars, run, control
<1>2. CASE Peek
  <2>1. stage \in {"head", "item", "leftover"} /\ ~HeadKnown /\ stage' = stage /\ call = Idle
    BY <1>2 DEF Peek, FetchHead, FetchThrows, run
  <2>2. stage # "leftover" /\ (stage = "head" => thrown # NoError)
    BY <2>1 DEF Settled
  <2>3. thrown = NoError
    BY <1>2 DEF Peek, FetchHead, FetchThrows
  <2> QED
    BY <2>1, <2>2, <2>3
<1>3. CASE ContextLoop
  <2>1. LoopStep /\ stage' = stage
    BY <1>3 DEF ContextLoop
  <2>2. call # Idle
    BY <2>1 DEF LoopStep, PullAhead, PullAheadThrows, EndPeekAhead, SkipTrivia,
                RecoverLexerError, RecoverAtSync, RecoverSkip, InLoop, Idle
  <2>3. CASE stage \in {"head", "trail", "leftover"}
    <3>1. call.op = "skipTrivia"
      BY <2>2, <2>3
    <3> QED
      BY <2>1, <2>3, <3>1, SkipTriviaStep
  <2>4. CASE stage \notin {"head", "trail", "leftover"}
    BY <2>1, <2>2, <2>4
  <2> QED
    BY <2>3, <2>4
<1>4. CASE Enter \/ Reject \/ LoopCatches \/ LoopResumes \/ ItemReturns
  <2>1. stage' \in {"loop", "item", "resume", "trail"} /\ (stage' = "trail" => ~Loops)
    BY <1>4 DEF Enter, Reject, LoopCatches, LoopResumes, ItemReturns, Goes
  <2>2. Loops
    BY DEF Loops
  <2> QED
    BY <2>1, <2>2
<1>5. CASE LoopItem \/ LoopMismatch
  BY <1>5 DEF LoopItem, LoopMismatch
<1>6. CASE LoopTurn
  BY <1>6 DEF LoopTurn, StartSkipTrivia, Idle
<1>7. CASE LoopEnds
  <2>1. Settled /\ UNCHANGED <<stream, cursor, control>>
    BY <1>7 DEF LoopEnds, InStage, InClient, context
  <2>2. stage' = "trail" /\ thrown' = NoError /\ call' = Idle
    BY <1>7, <2>1 DEF LoopEnds, InStage, InClient, Goes, control
  <2> QED
    BY <2>1, <2>2, SettledStays
<1>8. CASE Trail
  <2>1. Settled /\ UNCHANGED <<stream, cursor, thrown>> /\ call'.op = "skipTrivia"
    BY <1>8 DEF Trail, StartSkipTrivia, InStage
  <2>2. stage' = "leftover" /\ thrown' = NoError
    BY <1>8, <2>1 DEF Trail, InStage, InClient, Goes
  <2> QED
    BY <2>1, <2>2, SettledStays
<1>9. CASE Finish
  BY <1>9 DEF Finish, Goes
<1>10. CASE Escapes
  BY <1>10 DEF Escapes, Loops
<1>11. CASE ItemNext \/ ItemCroaks \/ ItemTries \/ ItemCommits
  BY <1>11 DEF ItemNext, ItemCroaks, ItemTries, ItemCommits, InItem, InStage, Runs
<1>12. CASE BranchUnwinds \/ ListCatches \/ ListUnwinds
  <2>1. frames # <<>> /\ stage' = stage
    BY <1>12 DEF BranchUnwinds, ListCatches, ListUnwinds, Runs
  <2> QED
    BY <2>1 DEF Bare
<1>13. CASE ListOpens \/ SoftTrivia \/ SoftSeparator \/ SoftRun \/ ListAtEnd \/ ListCloses
            \/ ListItem \/ ListItemReturns \/ ListSkip \/ ListSkipped
  <2>1. stage = "item" /\ stage' = stage
    BY <1>13 DEF ListOpens, SoftTrivia, SoftSeparator, SoftRun, ListAtEnd, ListCloses,
                 ListItem, ListItemReturns, ListSkip, ListSkipped, InItem, InList,
                 InStage, Runs
  <2> QED
    BY <2>1
<1> QED
  BY <1>1, <1>2, <1>3, <1>4, <1>5, <1>6, <1>7, <1>8, <1>9, <1>10, <1>11, <1>12, <1>13
  DEF RunNext, RunStep

\* diagnose of a grammar whose root is a repeat always returns its diagnostics:
\* no error, of a rule or of the lexer, escapes it, whatever the text.
THEOREM RepeatNeverThrows == RunSpec => []RepeatCollects
<1>1. RunInit => Bare /\ QuietInv
  BY DEF RunInit, Init, Bare, QuietInv, Quiet
<1>2. Bare /\ QuietInv /\ [RunNext]_allVars => (Bare /\ QuietInv)'
  BY BareStep, QuietStep
<1>3. Bare /\ QuietInv => RepeatCollects
  BY DEF QuietInv, Quiet, RepeatCollects
<1> QED
  BY <1>1, <1>2, <1>3, PTL DEF RunSpec

-------------------------------------------------------------------------------
(* Frames: each open branch of the run has its snapshot in the context.    *)

Pushes(f) ==
  /\ frames' = Append(frames, f)
  /\ IF f.kind = "try" THEN \E s : snapshots' = Append(snapshots, s) ELSE UNCHANGED snapshots

Pops ==
  /\ frames # <<>>
  /\ frames' = Below
  /\ IF TopFrame.kind = "try"
     THEN snapshots # <<>> /\ snapshots' = Popped
     ELSE UNCHANGED snapshots

Sets(f) ==
  /\ frames # <<>> /\ TopFrame.kind = "list" /\ f.kind = "list"
  /\ SetTop(f)
  /\ UNCHANGED snapshots

FramesMove ==
  \/ UNCHANGED <<frames, snapshots>>
  \/ \E f \in Frame : Pushes(f)
  \/ Pops
  \/ \E f \in Frame : Sets(f)

\* Of the calls a run makes, only tryParse opens and closes snapshots.
LEMMA SnapshotsStay ==
  ASSUME \/ FetchHead \/ FetchThrows \/ LoopStep \/ NextToken \/ Croak \/ ThrowBuilt
         \/ StartSkipTrivia \/ StartRecover \/ Report \/ UNCHANGED context
  PROVE  UNCHANGED snapshots
<1> USE DEF cursor
<1>1. Advance => UNCHANGED snapshots
  BY DEF Advance, Passed
<1> QED
  BY <1>1 DEF FetchHead, FetchThrows, LoopStep, PullAhead, PullAheadThrows, EndPeekAhead,
              SkipTrivia, RecoverLexerError, RecoverAtSync, RecoverSkip, NextToken, Croak,
              ThrowBuilt, StartSkipTrivia, StartRecover, Report, context

\* What Below and SetTop make of the frames.
LEMMA FrameFacts ==
  ASSUME frames \in Seq(Frame), frames # <<>>
  PROVE  \E n \in Nat :
           /\ Len(frames) = n + 1
           /\ TopFrame = frames[n + 1] /\ TopFrame \in Frame
           /\ Below \in Seq(Frame) /\ Len(Below) = n
           /\ \A i \in 1..n : Below[i] = frames[i]
           /\ \A f \in Frame : SetTop(f) =>
                /\ frames' \in Seq(Frame) /\ Len(frames') = n + 1
                /\ frames'[n + 1] = f
                /\ \A i \in 1..n : frames'[i] = frames[i]
<1>1. Len(frames) \in Nat \ {0}
  BY EmptySeq
<1>2. PICK n \in Nat : Len(frames) = n + 1
  <2>1. Len(frames) - 1 \in Nat /\ Len(frames) = (Len(frames) - 1) + 1
    BY <1>1
  <2> QED
    BY <2>1
<1>3. TopFrame = frames[n + 1] /\ TopFrame \in Frame
  BY <1>2 DEF TopFrame
<1>4. Below = SubSeq(frames, 1, n)
  BY <1>2 DEF Below
<1>5. Below \in Seq(Frame) /\ Len(Below) = n /\ \A i \in 1..n : Below[i] = frames[i]
  BY <1>2, <1>4, FrontFacts
<1>6. ASSUME NEW f \in Frame, SetTop(f)
      PROVE  /\ frames' \in Seq(Frame) /\ Len(frames') = n + 1
             /\ frames'[n + 1] = f
             /\ \A i \in 1..n : frames'[i] = frames[i]
  <2>1. frames' = [frames EXCEPT ![n + 1] = f]
    BY <1>2, <1>6 DEF SetTop
  <2> QED
    BY <1>2, <2>1
<1> QED
  BY <1>2, <1>3, <1>5, <1>6

LEMMA StepFrames ==
  ASSUME IInv, frames \in Seq(Frame), [RunNext]_allVars
  PROVE  FramesMove
<1> USE DEF FramesMove
<1>1. CASE Ended \/ UNCHANGED allVars \/ Escapes \/ Enter \/ LoopEnds \/ ItemReturns
  BY <1>1, SnapshotsStay
  DEF Ended, allVars, vars, cursor, run, Escapes, Enter, LoopEnds, ItemReturns, Goes
<1>2. CASE Peek \/ ContextLoop
  BY <1>2, SnapshotsStay DEF Peek, run, ContextLoop
<1>3. CASE LoopTurn \/ LoopItem \/ LoopMismatch \/ Reject \/ LoopCatches \/ LoopResumes
           \/ Trail \/ Finish
  BY <1>3, SnapshotsStay
  DEF LoopTurn, LoopItem, LoopMismatch, Reject, LoopCatches, LoopResumes, Trail, Finish,
      Goes, run
<1>4. CASE ItemNext \/ ItemCroaks
  BY <1>4, SnapshotsStay DEF ItemNext, ItemCroaks
<1>5. CASE ItemTries
  <2>1. Branch \in Frame /\ Branch.kind = "try"
    BY DEF Branch, Frame
  <2>2. Pushes(Branch)
    BY <1>5, <2>1 DEF ItemTries, TryParse, Pushes
  <2> QED
    BY <2>1, <2>2
<1>6. CASE ItemCommits \/ BranchUnwinds
  BY <1>6 DEF ItemCommits, BranchUnwinds, Commit, RollBack, Rethrow, Pops
<1>7. CASE ListOpens
  <2>1. List \in Frame /\ List.kind = "list"
    BY DEF List, Frame, IInv, CursorInv, CursorTypeOK
  <2>2. Pushes(List)
    BY <1>7, <2>1, SnapshotsStay DEF ListOpens, Pushes
  <2> QED
    BY <2>1, <2>2
<1>8. ASSUME frames # <<>>, TopFrame.kind = "list", UNCHANGED snapshots,
             NEW f \in Frame, f.kind = "list", SetTop(f)
      PROVE  FramesMove
  BY <1>8 DEF Sets
<1>9. ASSUME frames # <<>>, TopFrame.kind = "list"
      PROVE  \A p \in {"item", "head", "soft", "softSeparator", "softRun", "skip"} :
               \A b \in BOOLEAN, d \in Nat :
                 /\ [TopFrame EXCEPT !.phase = p] \in Frame
                 /\ [TopFrame EXCEPT !.phase = p].kind = "list"
                 /\ [TopFrame EXCEPT !.phase = p, !.first = b] \in Frame
                 /\ [TopFrame EXCEPT !.phase = p, !.first = b].kind = "list"
                 /\ [TopFrame EXCEPT !.phase = p, !.depth = d] \in Frame
                 /\ [TopFrame EXCEPT !.phase = p, !.depth = d].kind = "list"
                 /\ [TopFrame EXCEPT !.depth = d] \in Frame
                 /\ [TopFrame EXCEPT !.depth = d].kind = "list"
  <2>1. TopFrame \in Frame
    BY <1>9, FrameFacts
  <2> QED
    BY <1>9, <2>1 DEF Frame
<1>10. CASE SoftTrivia \/ SoftSeparator \/ SoftRun
  BY <1>8, <1>9, <1>10, SnapshotsStay DEF SoftTrivia, SoftSeparator, SoftRun, InList, To
<1>11. CASE ListAtEnd \/ ListCloses
  BY <1>11, SnapshotsStay DEF ListAtEnd, ListCloses, InList, Pops
<1>12. CASE ListItem
  BY <1>8, <1>9, <1>12, SnapshotsStay DEF ListItem, InList, To
<1>13. CASE ListItemReturns \/ ListSkipped \/ ListCatches
  BY <1>8, <1>9, <1>13, SnapshotsStay DEF ListItemReturns, ListSkipped, ListCatches, InList
<1>14. CASE ListUnwinds
  BY <1>14, SnapshotsStay DEF ListUnwinds, Pops
<1>15. CASE ListSkip
  <2>1. frames # <<>> /\ TopFrame.kind = "list" /\ UNCHANGED snapshots
    BY <1>15, SnapshotsStay DEF ListSkip, InList
  <2>2. TopFrame \in Frame
    BY <2>1, FrameFacts
  <2> DEFINE d == TopFrame.depth + (IF HeadIn({Open}) THEN 1 ELSE 0)
                                 - (IF HeadIn({Close}) THEN 1 ELSE 0)
  <2>3. d \in Nat
    <3>1. TopFrame.depth \in Nat
      BY <2>2 DEF Frame
    <3>2. TopFrame.depth = 0 => ~HeadIn({Close})
      BY <1>15 DEF ListSkip, SkipEnds, HeadIn
    <3> QED
      BY <3>1, <3>2
  <2>4. SetTop([TopFrame EXCEPT !.depth = d])
    BY <1>15 DEF ListSkip
  <2> HIDE DEF d
  <2> QED
    BY <1>8, <1>9, <2>1, <2>3, <2>4
<1> QED
  BY <1>1, <1>2, <1>3, <1>4, <1>5, <1>6, <1>7, <1>10, <1>11, <1>12, <1>13, <1>14, <1>15
  DEF RunNext, RunStep

LEMMA FramesTyped ==
  ASSUME frames \in Seq(Frame), FramesMove
  PROVE  frames' \in Seq(Frame)
<1>1. ASSUME NEW f \in Frame, Pushes(f) PROVE frames' \in Seq(Frame)
  BY <1>1 DEF Pushes
<1>2. CASE Pops
  BY <1>2, FrameFacts DEF Pops
<1>3. ASSUME NEW f \in Frame, Sets(f) PROVE frames' \in Seq(Frame)
  BY <1>3, FrameFacts DEF Sets
<1> QED
  BY <1>1, <1>2, <1>3 DEF FramesMove

LEMMA RunTyped ==
  ASSUME IInv, RunTypeOK, [RunNext]_allVars
  PROVE  RunTypeOK'
<1>1. frames' \in Seq(Frame)
  BY StepFrames, FramesTyped DEF RunTypeOK
<1>2. /\ count \in Nat /\ count' \in Nat /\ thrown \in Error /\ farthest \in Error
      /\ MaxTries \in Nat
  <2>1. IInv'
    BY RunStepsContext, StepsMove, MovesKeep, StepReports DEF IInv
  <2> QED
    BY <2>1, GrammarAssumption DEF IInv, CursorInv, CursorTypeOK, ReportsOK
<1>3. /\ grammar' \in Grammars /\ stage' \in Stages
      /\ began' \in Nat /\ before' \in Nat /\ tries' \in 0..MaxTries
      /\ trailing' \in BOOLEAN /\ skipped' \in BOOLEAN /\ outcome' \in Error
  <2> USE <1>2 DEF RunTypeOK, still
  <2>1. CASE Ended \/ UNCHANGED allVars \/ Peek
    BY <2>1 DEF Ended, allVars, run, Peek
  <2>2. CASE ContextLoop
    BY <2>2 DEF ContextLoop
  <2>3. CASE Enter \/ LoopEnds \/ Reject \/ ItemReturns \/ Trail
    BY <2>3 DEF Enter, LoopEnds, Reject, ItemReturns, Trail, Goes, Stages
  <2>4. CASE LoopTurn \/ LoopItem \/ LoopMismatch \/ LoopCatches \/ LoopResumes
    BY <2>4 DEF LoopTurn, LoopItem, LoopMismatch, LoopCatches, LoopResumes, Stages
  <2>5. CASE ItemTries
    BY <2>5 DEF ItemTries
  <2>6. CASE ItemNext \/ ItemCroaks \/ ItemCommits \/ BranchUnwinds \/ ListOpens
             \/ SoftTrivia \/ SoftSeparator \/ SoftRun \/ ListAtEnd \/ ListCloses
             \/ ListItem \/ ListItemReturns \/ ListCatches \/ ListUnwinds \/ ListSkipped
    <3>1. Runs
      BY <2>6 DEF ItemNext, ItemCroaks, ItemCommits, BranchUnwinds, ListOpens,
                  SoftTrivia, SoftSeparator, SoftRun, ListAtEnd, ListCloses, ListItem,
                  ListItemReturns, ListCatches, ListUnwinds, ListSkipped
    <3> QED
      BY <3>1 DEF Runs
  <2>7. CASE ListSkip
    BY <2>7 DEF ListSkip
  <2>8. CASE Finish
    BY <2>8 DEF Finish, Goes, run, Stages
  <2>9. CASE Escapes
    BY <2>9 DEF Escapes, Stages
  <2> QED
    BY <2>1, <2>2, <2>3, <2>4, <2>5, <2>6, <2>7, <2>8, <2>9 DEF RunNext, RunStep
<1> QED
  BY <1>1, <1>3 DEF RunTypeOK

\* The run keeps its types: no list skips below its own level, no stage is
\* entered that the code does not have.
THEOREM RunTypeCorrect == RunSpec => []RunTypeOK
<1>1. RunInit => RunTypeOK
  <2> SUFFICES ASSUME RunInit PROVE RunTypeOK
    OBVIOUS
  <2>1. outcome \in Error
    BY DEF RunInit, NoError, Error, Kinds
  <2>2. tries \in 0..MaxTries
    BY GrammarAssumption DEF RunInit
  <2>3. frames \in Seq(Frame)
    BY DEF RunInit
  <2> QED
    BY <2>1, <2>2, <2>3 DEF RunInit, RunTypeOK, Stages
<1>2. IInv /\ RunTypeOK /\ [RunNext]_allVars => RunTypeOK'
  BY RunTyped
<1> QED
  BY <1>1, <1>2, ContextInvariance, PTL DEF RunSpec

-------------------------------------------------------------------------------
(* Every branch is closed.                                                 *)

BranchesIn(stack) == {i \in 1..Len(stack) : stack[i].kind = "try"}

\* As many snapshots are open as branches.
Paired == Cardinality(BranchesIn(frames)) = Len(snapshots)

LEMMA BranchesFinite ==
  ASSUME NEW stack, Len(stack) \in Nat
  PROVE  IsFiniteSet(BranchesIn(stack)) /\ Cardinality(BranchesIn(stack)) \in Nat
<1>1. IsFiniteSet(1..Len(stack)) /\ BranchesIn(stack) \in SUBSET (1..Len(stack))
  BY FS_Interval DEF BranchesIn
<1>2. IsFiniteSet(BranchesIn(stack))
  BY <1>1, FS_Subset
<1> QED
  BY <1>2, FS_CardinalityType

\* One frame more on the stack is one branch more if it is a branch.
LEMMA BranchesGrow ==
  ASSUME NEW short, NEW long, NEW n \in Nat, Len(short) = n, Len(long) = n + 1,
         \A i \in 1..n : long[i] = short[i]
  PROVE  Cardinality(BranchesIn(long)) =
           Cardinality(BranchesIn(short)) + (IF long[n + 1].kind = "try" THEN 1 ELSE 0)
<1>1. IsFiniteSet(BranchesIn(short)) /\ Cardinality(BranchesIn(short)) \in Nat
  BY BranchesFinite
<1>2. n + 1 \notin BranchesIn(short)
  BY DEF BranchesIn
<1>3. CASE long[n + 1].kind = "try"
  <2>1. BranchesIn(long) = BranchesIn(short) \cup {n + 1}
    BY <1>3 DEF BranchesIn
  <2>2. Cardinality(BranchesIn(short) \cup {n + 1}) = Cardinality(BranchesIn(short)) + 1
    BY <1>1, <1>2, FS_AddElement
  <2> QED
    BY <1>3, <2>1, <2>2
<1>4. CASE long[n + 1].kind # "try"
  <2>1. BranchesIn(long) = BranchesIn(short)
    BY <1>4 DEF BranchesIn
  <2> QED
    BY <1>1, <1>4, <2>1
<1> QED
  BY <1>3, <1>4

LEMMA PairedStep ==
  ASSUME IInv, frames \in Seq(Frame), Paired, FramesMove
  PROVE  Paired'
<1>1. snapshots \in Seq(Snapshot) /\ Len(snapshots) \in Nat
  BY DEF IInv, CursorInv, CursorTypeOK
<1>2. CASE UNCHANGED <<frames, snapshots>>
  BY <1>2 DEF Paired
<1>3. ASSUME NEW f \in Frame, Pushes(f) PROVE Paired'
  <2>1. PICK n \in Nat : n = Len(frames)
    OBVIOUS
  <2>2. /\ Len(frames') = n + 1 /\ frames'[n + 1] = f
        /\ \A i \in 1..n : frames'[i] = frames[i]
    BY <1>3, <2>1, AppendFacts DEF Pushes
  <2>3. Cardinality(BranchesIn(frames')) =
          Cardinality(BranchesIn(frames)) + (IF f.kind = "try" THEN 1 ELSE 0)
    BY <2>1, <2>2, BranchesGrow
  <2>4. Len(snapshots') = Len(snapshots) + (IF f.kind = "try" THEN 1 ELSE 0)
    BY <1>1, <1>3 DEF Pushes
  <2> QED
    BY <2>3, <2>4 DEF Paired
<1>4. CASE Pops
  <2>1. PICK n \in Nat : /\ Len(frames) = n + 1 /\ TopFrame = frames[n + 1]
                         /\ Len(frames') = n /\ \A i \in 1..n : frames'[i] = frames[i]
    BY <1>4, FrameFacts DEF Pops
  <2>2. Cardinality(BranchesIn(frames)) =
          Cardinality(BranchesIn(frames')) + (IF TopFrame.kind = "try" THEN 1 ELSE 0)
    BY <2>1, BranchesGrow
  <2>3. Len(snapshots) = Len(snapshots') + (IF TopFrame.kind = "try" THEN 1 ELSE 0)
        /\ Len(snapshots') \in Nat
    BY <1>1, <1>4, PoppedFacts DEF Pops
  <2>4. Cardinality(BranchesIn(frames')) \in Nat
    BY <2>1, BranchesFinite
  <2>5. Cardinality(BranchesIn(frames)) = Len(snapshots)
    BY DEF Paired
  <2>6. Cardinality(BranchesIn(frames')) = Len(snapshots')
    <3>1. CASE TopFrame.kind = "try"
      BY <2>2, <2>3, <2>4, <2>5, <3>1
    <3>2. CASE TopFrame.kind # "try"
      BY <2>2, <2>3, <2>4, <2>5, <3>2
    <3> QED
      BY <3>1, <3>2
  <2> QED
    BY <2>6 DEF Paired
<1>5. ASSUME NEW f \in Frame, Sets(f) PROVE Paired'
  <2>1. PICK n \in Nat : /\ Len(frames) = n + 1 /\ TopFrame = frames[n + 1]
                         /\ Len(frames') = n + 1 /\ frames'[n + 1] = f
                         /\ \A i \in 1..n : frames'[i] = frames[i]
    BY <1>5, FrameFacts DEF Sets
  <2>2. BranchesIn(frames') = BranchesIn(frames)
    BY <1>5, <2>1 DEF Sets, BranchesIn
  <2> QED
    BY <1>5, <2>2 DEF Sets, Paired
<1> QED
  BY <1>2, <1>3, <1>4, <1>5 DEF FramesMove

LEMMA PairedImplies ==
  ASSUME IInv, Paired, Bare
  PROVE  BranchesAreClosed
<1>1. Cardinality({i \in 1..Len(frames) : frames[i].kind = "try"}) = Len(snapshots)
  BY DEF Paired, BranchesIn
<1>2. ASSUME stage # "item" PROVE snapshots = <<>>
  <2>1. BranchesIn(frames) = {}
    BY <1>2 DEF Bare, BranchesIn
  <2>2. Len(snapshots) = 0
    BY <2>1, FS_EmptySet DEF Paired
  <2> QED
    BY <2>2, EmptySeq DEF IInv, CursorInv, CursorTypeOK
<1> QED
  BY <1>1, <1>2 DEF BranchesAreClosed

\* No tryParse stays open behind the rule that opened it, whichever way an
\* exception unwinds the branches and lists between (rule.ts: tryParse;
\* combinators.ts: delimited).
THEOREM BranchesClose == RunSpec => []BranchesAreClosed
<1>1. RunInit => Paired /\ Bare
  <2> SUFFICES ASSUME RunInit PROVE Paired /\ Bare
    OBVIOUS
  <2>1. BranchesIn(frames) = {} /\ Len(snapshots) = 0 /\ frames = <<>>
    BY DEF RunInit, Init, BranchesIn
  <2> QED
    BY <2>1, FS_EmptySet DEF Paired, Bare
<1>2. IInv /\ RunTypeOK /\ Paired /\ Bare /\ [RunNext]_allVars => (Paired /\ Bare)'
  BY StepFrames, PairedStep, BareStep DEF RunTypeOK
<1>3. IInv /\ Paired /\ Bare => BranchesAreClosed
  BY PairedImplies
<1> QED
  BY <1>1, <1>2, <1>3, ContextInvariance, RunTypeCorrect, PTL DEF RunSpec

-------------------------------------------------------------------------------
(* What the context guarantees of errors holds in every run.               *)

ErrorInv == IInv /\ SurfaceInv /\ MarkInv

\* The invariants about errors hold in every run of every grammar.
THEOREM ErrorInvariance == RunSpec => []ErrorInv
<1>1. RunInit => SurfaceInv /\ MarkInv
  <2> SUFFICES ASSUME RunInit PROVE SurfaceInv /\ MarkInv
    OBVIOUS
  <2>1. MarkInv
    BY DEF RunInit, Init, MarkInv, Stamped, NoError
  <2> QED
    BY <2>1, SurfaceInit DEF RunInit
<1>2. IInv /\ SurfaceInv /\ MarkInv /\ [RunNext]_allVars => (SurfaceInv /\ MarkInv)'
  BY RunStepsContext, SurfaceStep, MarkStep
<1> QED
  BY <1>1, <1>2, ContextInvariance, PTL DEF RunSpec, ErrorInv

-------------------------------------------------------------------------------
(* parse throws the deepest failure.                                       *)

\* After the root only the lexer, or the run itself, can throw, and neither
\* error bears a depth; what has been thrown to the caller stays.
Thrown ==
  /\ stage = "leftover" /\ grammar.form # "value" => ~Stamped(thrown)
  /\ stage = "threw" => thrown # NoError

\* How a run that is not stuck in its last stage treats the error and the mark.
LEMMA ThrewStays ==
  ASSUME Thrown, Bare, stage = "threw", [RunNext]_allVars
  PROVE  UNCHANGED <<stage, thrown, deepest, outcome, grammar>>
<1>1. thrown # NoError /\ frames = <<>>
  BY DEF Thrown, Bare
<1>2. ~LoopStep
  BY <1>1 DEF LoopStep, FetchHead, FetchThrows, PullAhead, PullAheadThrows, EndPeekAhead,
              SkipTrivia, RecoverLexerError, RecoverAtSync, RecoverSkip, InLoop
<1>3. UNCHANGED allVars
  BY <1>1, <1>2
  DEF RunNext, RunStep, Ended, Peek, ContextLoop, Enter, LoopTurn, LoopEnds, LoopItem,
      LoopMismatch, Reject, LoopCatches, LoopResumes, ItemNext, ItemCroaks, ItemTries,
      ItemCommits, ItemReturns, BranchUnwinds, ListOpens, SoftTrivia, SoftSeparator,
      SoftRun, ListAtEnd, ListCloses, ListItem, ListItemReturns, ListCatches, ListUnwinds,
      ListSkip, ListSkipped, Trail, Finish, Escapes, InStage, InClient, InItem, InList
<1> QED
  BY <1>3 DEF allVars, vars, run, reports, control

\* Into the last stages a run goes by Trail and by Escapes alone.
LEMMA StageSteps ==
  ASSUME [RunNext]_allVars
  PROVE  /\ stage' = "leftover" => stage = "leftover" \/ Trail
         /\ stage' = "threw" => stage = "threw" \/ Escapes
         /\ stage' = "done" => stage = "done" \/ Finish
         /\ stage' = "resume" => stage = "resume" \/ LoopCatches
<1>1. CASE Ended \/ UNCHANGED allVars \/ Peek
  BY <1>1 DEF Ended, allVars, run, Peek
<1>2. CASE ContextLoop
  BY <1>2 DEF ContextLoop
<1>3. CASE Enter \/ LoopEnds \/ Reject \/ ItemReturns \/ Trail
  BY <1>3 DEF Enter, LoopEnds, Reject, ItemReturns, Trail, Goes
<1>4. CASE LoopTurn \/ LoopItem \/ LoopMismatch \/ LoopCatches \/ LoopResumes
  BY <1>4 DEF LoopTurn, LoopItem, LoopMismatch, LoopCatches, LoopResumes
<1>5. CASE ItemNext \/ ItemCroaks \/ ItemTries \/ ItemCommits \/ BranchUnwinds \/ ListOpens
           \/ SoftTrivia \/ SoftSeparator \/ SoftRun \/ ListAtEnd \/ ListCloses
           \/ ListItem \/ ListItemReturns \/ ListCatches \/ ListUnwinds \/ ListSkipped
           \/ ListSkip
  <2>1. stage' = stage
    BY <1>5 DEF ItemNext, ItemCroaks, ItemTries, ItemCommits, BranchUnwinds, ListOpens,
                SoftTrivia, SoftSeparator, SoftRun, ListAtEnd, ListCloses, ListItem,
                ListItemReturns, ListCatches, ListUnwinds, ListSkipped, ListSkip, Runs
  <2> QED
    BY <2>1
<1>6. CASE Finish \/ Escapes
  BY <1>6 DEF Finish, Escapes, Goes, run
<1> QED
  BY <1>1, <1>2, <1>3, <1>4, <1>5, <1>6 DEF RunNext, RunStep

LEMMA GrammarStays == [RunNext]_allVars => grammar' = grammar
BY DEF RunNext, RunStep, Ended, allVars, run, still, Goes, Runs, Peek, ContextLoop,
       Enter, LoopTurn, LoopEnds, LoopItem, LoopMismatch, Reject, LoopCatches,
       LoopResumes, ItemNext, ItemCroaks, ItemTries, ItemCommits, ItemReturns,
       BranchUnwinds, ListOpens, SoftTrivia, SoftSeparator, SoftRun, ListAtEnd,
       ListCloses, ListItem, ListItemReturns, ListCatches, ListUnwinds, ListSkip,
       ListSkipped, Trail, Finish, Escapes

LEMMA ThrownStep ==
  ASSUME Thrown, Bare, [RunNext]_allVars
  PROVE  Thrown'
<1>1. grammar' = grammar
  BY GrammarStays
<1>2. ASSUME stage' = "leftover", grammar.form # "value" PROVE ~Stamped(thrown')
  <2>1. CASE Trail
    BY <2>1 DEF Trail, InStage, InClient, StartSkipTrivia, Stamped, NoError
  <2>2. CASE stage = "leftover"
    <3>1. frames = <<>> /\ ~Stamped(thrown)
      BY <1>2, <2>2 DEF Bare, Thrown
    <3>2. CASE Peek
      BY <3>1, <3>2 DEF Peek, FetchHead, FetchThrows, control, Stamped, LexerError
    <3>3. CASE ContextLoop
      BY <3>1, <3>3 DEF ContextLoop, LoopStep, FetchHead, FetchThrows, PullAhead,
                        PullAheadThrows, EndPeekAhead, SkipTrivia, RecoverLexerError,
                        RecoverAtSync, RecoverSkip, control, Stamped, LexerError
    <3>4. CASE Finish
      BY <1>2, <3>1, <3>4 DEF Finish, context, control, ThrowBuilt, Stamped, BuiltError
    <3>5. CASE Escapes
      BY <1>2, <3>5 DEF Escapes
    <3>6. CASE Ended \/ UNCHANGED allVars
      BY <3>1, <3>6 DEF Ended, allVars, vars, control
    <3>7. ~(Ended \/ UNCHANGED allVars \/ Peek \/ ContextLoop \/ Finish \/ Escapes) => FALSE
      BY <2>2, <3>1
      DEF RunNext, RunStep, Enter, LoopTurn, LoopEnds, LoopItem, LoopMismatch, Reject,
          LoopCatches, LoopResumes, ItemNext, ItemCroaks, ItemTries, ItemCommits,
          ItemReturns, BranchUnwinds, ListOpens, SoftTrivia, SoftSeparator, SoftRun,
          ListAtEnd, ListCloses, ListItem, ListItemReturns, ListCatches, ListUnwinds,
          ListSkip, ListSkipped, Trail, InStage, InItem, InList
    <3> QED
      BY <3>2, <3>3, <3>4, <3>5, <3>6, <3>7
  <2> QED
    BY <1>2, <2>1, <2>2, StageSteps
<1>3. ASSUME stage' = "threw" PROVE thrown' # NoError
  <2>1. CASE Escapes
    BY <2>1 DEF Escapes, context, control
  <2>2. CASE stage = "threw"
    BY <2>2, ThrewStays DEF Thrown
  <2> QED
    BY <1>3, <2>1, <2>2, StageSteps
<1> QED
  BY <1>1, <1>2, <1>3 DEF Thrown, Stamped

LEMMA DeepestStep ==
  ASSUME IInv, MarkInv, Thrown, Bare, ThrowsDeepest, [RunNext]_allVars
  PROVE  ThrowsDeepest'
<1> SUFFICES ASSUME stage' = "threw", PreferFarthest, grammar'.form # "value",
                    Stamped(outcome')
             PROVE  outcome'.consumed = deepest'
  BY DEF ThrowsDeepest, Stamped
<1>1. grammar' = grammar
  BY GrammarStays
<1>2. CASE stage = "threw"
  BY <1>2, ThrewStays DEF ThrowsDeepest, Stamped
<1>3. CASE Escapes
  <2>1. /\ deepest' = deepest
        /\ outcome' = IF Deeper(thrown) /\ stage # "leftover" THEN farthest ELSE thrown
    BY <1>1, <1>3 DEF Escapes, context, reports
  <2>2. /\ thrown \in Error /\ farthest \in Error
        /\ thrown.consumed \in Nat /\ farthest.consumed \in Nat
    BY DEF IInv, ReportsOK, Error
  <2>3. CASE Deeper(thrown) /\ stage # "leftover"
    BY <2>1, <2>3 DEF Deeper, MarkInv
  <2>4. CASE ~(Deeper(thrown) /\ stage # "leftover")
    <3>1. Stamped(thrown) /\ outcome' = thrown
      BY <2>1, <2>4
    <3>2. farthest # NoError /\ farthest.consumed = deepest /\ thrown.consumed <= deepest
      BY <3>1 DEF MarkInv
    <3>3. ~(farthest.consumed > thrown.consumed)
      BY <1>1, <2>4, <3>1, <3>2 DEF Deeper, Thrown
    <3> QED
      BY <2>1, <2>2, <3>1, <3>2, <3>3
  <2> QED
    BY <2>3, <2>4
<1> QED
  BY <1>2, <1>3, StageSteps

\* With preferFarthest the failure parse throws is the deepest one of all the
\* branches the run tried since the last record (grammar.ts: run; rule.ts: croak).
THEOREM ThrowsTheDeepest == RunSpec => []ThrowsDeepest
<1>1. RunInit => Bare /\ Thrown /\ ThrowsDeepest
  BY DEF RunInit, Bare, Thrown, ThrowsDeepest
<1>2. /\ ErrorInv /\ Bare /\ Thrown /\ ThrowsDeepest /\ [RunNext]_allVars
      => (Bare /\ Thrown /\ ThrowsDeepest)'
  BY BareStep, ThrownStep, DeepestStep DEF ErrorInv
<1> QED
  BY <1>1, <1>2, ErrorInvariance, PTL DEF RunSpec

-------------------------------------------------------------------------------
(* A diagnose without diagnostics is a clean parse.                        *)

Skipping == \E i \in 1..Len(frames) : frames[i].phase = "skip"

\* Recovery leaves a diagnostic before it passes its first token.
Confesses ==
  skipped \/ call.op = "recover" \/ stage = "resume" \/ Skipping => errors # <<>>

\* A run that is done has stopped with nothing running, at the end of the text
\* or before what it reports as trailing.
Stopped == stage = "done" => thrown = NoError /\ call = Idle /\ (trailing \/ HeadNull)

LEMMA ErrorsStay ==
  ASSUME IInv, [Next]_vars, errors # <<>>
  PROVE  errors' # <<>>
<1>1. errors \in Seq(Error)
  BY DEF IInv, ReportsOK
<1>2. ASSUME NEW e, errors' = Append(errors, e) PROVE errors' # <<>>
  BY <1>1, <1>2
<1> QED
  BY <1>2, StepMeets
  DEF Meets, Ignores, Throws, Croaks, CroakAt, Builds, Records, Record, Collects, reports

LEMMA RecordLeavesOne ==
  ASSUME IInv, NEW e, Record(e)
  PROVE  errors' # <<>>
BY DEF IInv, ReportsOK, Record

\* Only StartRecover enters the loop of recover.
LEMMA RecoverBegins == [Next]_vars /\ call'.op = "recover" => call.op = "recover" \/ StartRecover
<1> USE DEF control, Idle
<1>1. CASE UNCHANGED vars \/ Escaped
  BY <1>1 DEF vars, Escaped
<1> QED
  BY <1>1
  DEF Next, LoopStep, ClientStep, FetchHead, FetchThrows, PullAhead, PullAheadThrows,
      EndPeekAhead, SkipTrivia, RecoverLexerError, RecoverAtSync, RecoverSkip,
      StartPeekAhead, NextToken, StartSkipTrivia, TryParse, Commit, RollBack, Rethrow,
      Croak, ThrowBuilt, Relabel, RelabelThrows, Report

\* A frame begins to skip by no step that pushes, pops or sets another phase.
LEMMA NoneBeginsToSkip ==
  ASSUME frames \in Seq(Frame),
         \/ UNCHANGED frames
         \/ \E f \in Frame : f.phase # "skip" /\ frames' = Append(frames, f)
         \/ frames # <<>> /\ frames' = Below
         \/ /\ frames # <<>>
            /\ \E f \in Frame : (f.phase = "skip" => TopFrame.phase = "skip") /\ SetTop(f)
  PROVE  Skipping' => Skipping
<1>1. CASE UNCHANGED frames
  BY <1>1 DEF Skipping
<1>2. ASSUME NEW f \in Frame, f.phase # "skip", frames' = Append(frames, f)
      PROVE  Skipping' => Skipping
  <2>1. PICK n \in Nat : n = Len(frames)
    OBVIOUS
  <2>2. /\ Len(frames') = n + 1 /\ frames'[n + 1] = f
        /\ \A i \in 1..n : frames'[i] = frames[i]
    BY <1>2, <2>1, AppendFacts
  <2>3. \A i \in 1..(n + 1) : i = n + 1 \/ i \in 1..n
    OBVIOUS
  <2> QED
    BY <1>2, <2>1, <2>2, <2>3 DEF Skipping
<1>3. CASE frames # <<>> /\ frames' = Below
  <2>1. PICK n \in Nat : /\ Len(frames) = n + 1
                         /\ Len(frames') = n /\ \A i \in 1..n : frames'[i] = frames[i]
    BY <1>3, FrameFacts
  <2>2. \A i \in 1..n : i \in 1..(n + 1)
    OBVIOUS
  <2> QED
    BY <2>1, <2>2 DEF Skipping
<1>4. ASSUME frames # <<>>, NEW f \in Frame, f.phase = "skip" => TopFrame.phase = "skip",
             SetTop(f)
      PROVE  Skipping' => Skipping
  <2>1. PICK n \in Nat : /\ Len(frames) = n + 1 /\ TopFrame = frames[n + 1]
                         /\ Len(frames') = n + 1 /\ frames'[n + 1] = f
                         /\ \A i \in 1..n : frames'[i] = frames[i]
    BY <1>4, FrameFacts
  <2>2. \A i \in 1..(n + 1) : i = n + 1 \/ i \in 1..n
    OBVIOUS
  <2>3. n + 1 \in 1..(n + 1)
    OBVIOUS
  <2> QED
    BY <1>4, <2>1, <2>2, <2>3 DEF Skipping
<1> QED
  BY <1>1, <1>2, <1>3, <1>4

LEMMA SkippingBegins ==
  ASSUME IInv, frames \in Seq(Frame), [RunNext]_allVars, Skipping'
  PROVE  Skipping \/ ListCatches
<1>1. CASE UNCHANGED frames
  BY <1>1 DEF Skipping
<1>2. ASSUME frames # <<>> PROVE TopFrame \in Frame
  BY <1>2, FrameFacts
<1>3. ASSUME frames # <<>>
      PROVE  \A p \in {"item", "head", "soft", "softSeparator", "softRun"}, b \in BOOLEAN :
               /\ [TopFrame EXCEPT !.phase = p] \in Frame
               /\ [TopFrame EXCEPT !.phase = p].phase = p
               /\ [TopFrame EXCEPT !.phase = p, !.first = b] \in Frame
               /\ [TopFrame EXCEPT !.phase = p, !.first = b].phase = p
  BY <1>2, <1>3 DEF Frame
<1>4. CASE ItemTries \/ ListOpens
  <2>1. Branch \in Frame /\ List \in Frame /\ Branch.phase # "skip" /\ List.phase # "skip"
    BY DEF Branch, List, Frame, IInv, CursorInv, CursorTypeOK
  <2> QED
    BY <1>4, <2>1, NoneBeginsToSkip DEF ItemTries, ListOpens
<1>5. CASE ItemCommits \/ BranchUnwinds \/ ListUnwinds \/ ListCloses
  BY <1>5, NoneBeginsToSkip DEF ItemCommits, BranchUnwinds, ListUnwinds, ListCloses, InList
<1>6. CASE ListAtEnd
  BY <1>1, <1>6, NoneBeginsToSkip DEF ListAtEnd, InList
<1>7. CASE SoftTrivia \/ SoftSeparator \/ SoftRun \/ ListItem
  BY <1>1, <1>3, <1>7, NoneBeginsToSkip DEF SoftTrivia, SoftSeparator, SoftRun, ListItem, InList, To
<1>8. CASE ListItemReturns \/ ListSkipped
  BY <1>3, <1>8, NoneBeginsToSkip DEF ListItemReturns, ListSkipped, InList
<1>9. CASE ListSkip
  <2>1. frames # <<>> /\ TopFrame.phase = "skip"
    BY <1>9 DEF ListSkip, InList
  <2>2. PICK n \in Nat : Len(frames) = n + 1 /\ TopFrame = frames[n + 1]
    BY <2>1, FrameFacts
  <2> QED
    BY <2>1, <2>2 DEF Skipping
<1>10. CASE Ended \/ UNCHANGED allVars \/ Escapes \/ Enter \/ LoopEnds \/ ItemReturns
            \/ Peek \/ ContextLoop \/ LoopTurn \/ LoopItem \/ LoopMismatch \/ Reject
            \/ LoopCatches \/ LoopResumes \/ Trail \/ Finish \/ ItemNext \/ ItemCroaks
  <2>1. UNCHANGED frames
    BY <1>10 DEF Ended, allVars, run, Escapes, Enter, LoopEnds, ItemReturns, Goes, Peek,
                 ContextLoop, LoopTurn, LoopItem, LoopMismatch, Reject, LoopCatches,
                 LoopResumes, Trail, Finish, ItemNext, ItemCroaks
  <2> QED
    BY <1>1, <2>1
<1> QED
  BY <1>4, <1>5, <1>6, <1>7, <1>8, <1>9, <1>10 DEF RunNext, RunStep

LEMMA SkippedSteps ==
  ASSUME frames \in Seq(Frame), [RunNext]_allVars, skipped'
  PROVE  skipped \/ call.op = "recover" \/ stage = "resume" \/ Skipping
<1>1. CASE Ended \/ UNCHANGED allVars \/ Peek
  BY <1>1 DEF Ended, allVars, run, Peek
<1>2. CASE ContextLoop
  BY <1>2 DEF ContextLoop
<1>3. CASE Enter \/ LoopEnds \/ Reject \/ ItemReturns \/ Trail
  BY <1>3 DEF Enter, LoopEnds, Reject, ItemReturns, Trail, Goes
<1>4. CASE LoopTurn \/ LoopItem \/ LoopMismatch \/ LoopCatches \/ ItemTries \/ Escapes
  BY <1>4 DEF LoopTurn, LoopItem, LoopMismatch, LoopCatches, ItemTries, Escapes
<1>5. CASE LoopResumes
  BY <1>5 DEF LoopResumes, InStage
<1>6. CASE ItemNext \/ ItemCroaks \/ ItemCommits \/ BranchUnwinds \/ ListOpens
           \/ SoftTrivia \/ SoftSeparator \/ SoftRun \/ ListAtEnd \/ ListCloses
           \/ ListItem \/ ListItemReturns \/ ListCatches \/ ListUnwinds \/ ListSkipped
  <2>1. skipped' = skipped
    BY <1>6 DEF ItemNext, ItemCroaks, ItemCommits, BranchUnwinds, ListOpens,
                SoftTrivia, SoftSeparator, SoftRun, ListAtEnd, ListCloses, ListItem,
                ListItemReturns, ListCatches, ListUnwinds, ListSkipped, Runs
  <2> QED
    BY <2>1
<1>7. CASE ListSkip
  <2>1. frames # <<>> /\ TopFrame.phase = "skip"
    BY <1>7 DEF ListSkip, InList
  <2>2. PICK n \in Nat : Len(frames) = n + 1 /\ TopFrame = frames[n + 1]
    BY <2>1, FrameFacts
  <2> QED
    BY <2>1, <2>2 DEF Skipping
<1>8. CASE Finish
  BY <1>8 DEF Finish, Goes, run
<1> QED
  BY <1>1, <1>2, <1>3, <1>4, <1>5, <1>6, <1>7, <1>8 DEF RunNext, RunStep

LEMMA ConfessesStep ==
  ASSUME IInv, frames \in Seq(Frame), Confesses, [RunNext]_allVars
  PROVE  Confesses'
<1> SUFFICES ASSUME skipped' \/ call'.op = "recover" \/ stage' = "resume" \/ Skipping'
             PROVE  errors' # <<>>
  BY DEF Confesses
<1>1. [Next]_vars
  BY RunStepsContext
<1>2. CASE skipped \/ call.op = "recover" \/ stage = "resume" \/ Skipping
  BY <1>1, <1>2, ErrorsStay DEF Confesses
<1>3. CASE StartRecover \/ ListCatches \/ LoopCatches
  BY <1>3, RecordLeavesOne DEF StartRecover, ListCatches, LoopCatches, Report
<1> QED
  BY <1>1, <1>2, <1>3, SkippedSteps, RecoverBegins, StageSteps, SkippingBegins

LEMMA StoppedStep ==
  ASSUME Bare, Stopped, [RunNext]_allVars
  PROVE  Stopped'
<1>1. CASE stage = "done"
  <2>1. call = Idle /\ frames = <<>> /\ thrown = NoError
    BY <1>1 DEF Stopped, Bare
  <2>2. ~LoopStep
    BY <2>1 DEF LoopStep, PullAhead, PullAheadThrows, EndPeekAhead, SkipTrivia,
                RecoverLexerError, RecoverAtSync, RecoverSkip, InLoop, Idle
  <2>3. UNCHANGED allVars
    BY <1>1, <2>1, <2>2
    DEF RunNext, RunStep, Ended, Peek, ContextLoop, Enter, LoopTurn, LoopEnds, LoopItem,
        LoopMismatch, Reject, LoopCatches, LoopResumes, ItemNext, ItemCroaks, ItemTries,
        ItemCommits, ItemReturns, BranchUnwinds, ListOpens, SoftTrivia, SoftSeparator,
        SoftRun, ListAtEnd, ListCloses, ListItem, ListItemReturns, ListCatches,
        ListUnwinds, ListSkip, ListSkipped, Trail, Finish, Escapes, InStage, InItem, InList
  <2> QED
    BY <2>3 DEF Stopped, allVars, vars, run, control, stream, cursor, HeadNull, HeadKnown,
                Peeked, Buffered, AtEnd
<1>2. CASE Finish
  BY <1>2 DEF Finish, InStage, InClient, Stopped, context, stream, cursor, control, run, Goes,
              HeadNull, HeadKnown, Peeked, Buffered, AtEnd
<1> QED
  BY <1>1, <1>2, StageSteps DEF Stopped

LEMMA CleanImplies ==
  ASSUME IInv, SurfaceInv, Confesses, Stopped
  PROVE  CleanMeansParsed
<1> SUFFICES ASSUME Collect, stage = "done", errors = <<>>, ~trailing
             PROVE  /\ ~skipped
                    /\ AtEnd /\ count = Len(produced)
                    /\ Propagate => \A i \in 1..Len(text) : text[i] # Bad
  BY DEF CleanMeansParsed
<1>1. ~skipped
  BY DEF Confesses
<1>2. HeadNull /\ thrown = NoError
  BY DEF Stopped
<1>3. count = Len(produced)
  BY <1>2, InvImplies DEF HeadNull, HeadIsNextToken
<1>4. AtEnd
  <2>1. ASSUME Buffered PROVE FALSE
    <3>1. bufferPos + 1 \in 1..Len(buffer) /\ buffer \in Seq(Token)
      BY <2>1 DEF Buffered, IInv, CursorInv, CursorTypeOK
    <3>2. Peeked \in Token
      BY <2>1, <3>1 DEF Peeked
    <3> QED
      BY <1>2, <3>2 DEF HeadNull, Token
  <2> QED
    BY <1>2, <2>1 DEF HeadNull, HeadKnown, Peeked
<1>5. ASSUME Propagate, NEW i \in 1..Len(text), text[i] = Bad PROVE FALSE
  <2>1. thrown = LexerError(i) \/ Collected(LexerError(i))
    BY <1>4, <1>5 DEF SurfaceInv, Surfaced, AtEnd
  <2> QED
    BY <1>2, <2>1 DEF Collected, NoError, LexerError
<1> QED
  BY <1>1, <1>3, <1>4, <1>5

\* A diagnose that reports nothing has consumed the whole text by its rules:
\* nothing was skipped, nothing trails, no item of it failed to lex
\* (grammar.ts: diagnose; combinators.ts: repeat, delimited).
THEOREM CleanIsParsed == RunSpec => []CleanMeansParsed
<1>1. RunInit => Bare /\ Confesses /\ Stopped
  BY DEF RunInit, Init, Idle, Bare, Confesses, Skipping, Stopped
<1>2. /\ ErrorInv /\ RunTypeOK /\ Bare /\ Confesses /\ Stopped /\ [RunNext]_allVars
      => (Bare /\ Confesses /\ Stopped)'
  BY BareStep, ConfessesStep, StoppedStep DEF ErrorInv, RunTypeOK
<1>3. ErrorInv /\ Confesses /\ Stopped => CleanMeansParsed
  BY CleanImplies DEF ErrorInv
<1> QED
  BY <1>1, <1>2, <1>3, ErrorInvariance, RunTypeCorrect, PTL DEF RunSpec

-------------------------------------------------------------------------------
(* What is recorded, in a run.                                             *)

\* With preferFarthest each diagnostic of diagnose that is a failure of a rule
\* is the deepest since the diagnostic before it (rule.ts: record).
THEOREM RunRecordsTheDeepest == RunSpec => RecordedIsDeepest
<1>1. ErrorInv /\ [RunNext]_allVars =>
        [PreferFarthest /\ Stamped(thrown) /\ Len(errors') > Len(errors)
           => errors'[Len(errors')].consumed = deepest]_vars
  BY RunStepsContext, RecordsDeepest DEF ErrorInv
<1> QED
  BY <1>1, ErrorInvariance, PTL DEF RunSpec, RecordedIsDeepest

\* With propagateLexerErrors diagnose lists every item the lexer could not read,
\* once, whatever lists and branches it was met in (grammar.ts: diagnose).
THEOREM RunLosesNoLexerError == RunSpec => []LexerErrorsSurface
<1>1. ErrorInv => LexerErrorsSurface
  BY SurfaceImplies DEF ErrorInv
<1> QED
  BY <1>1, ErrorInvariance, PTL
================================================================================
