------------------------------- MODULE Scripts -------------------------------
(***************************************************************************)
(* The statements of a psql script and the two programs that frame them:   *)
(* both follow each statement that Derivation derives, token by token.     *)
(*                                                                         *)
(* A framed statement is of one of FramedRoots, with its semicolon behind  *)
(* it.                                                                     *)
(***************************************************************************)
EXTENDS Derivation, Framing

CONSTANTS
  FramedRoots,  \* the names of the rules that a statement of a script may be of
  Names,        \* words that a name of such a statement may be
  BodyLoop,     \* the rule that reads the statements of a BEGIN ATOMIC body
  MaxBlocks     \* bound: the blocks that a broken statement has open

VARIABLES
  framed,      \* the text is a statement of a script
  fromClient,  \* history: the grammar has taken the STDIN of COPY FROM STDIN
  clientName,  \* history: it has taken a name that is spelled like it
  body         \* parseAtomicBody: the level of its statements, and whether one is skipped

framing == <<framed, routine, copying, dataPending, splitter, apart, fromClient, clientName>>

scriptVars == <<vars, framing, body>>

-------------------------------------------------------------------------------
(* A script.                                                               *)

Item(root) == <<Ref(root), punc(";")>>

NoBody == [level |-> 0, skipping |-> FALSE]

NewFraming ==
  /\ NewScript
  /\ fromClient = FALSE /\ clientName = FALSE
  /\ body = NoBody

ScriptInit ==
  /\ tests = {}
  /\ NewFraming
  /\ \/ framed = FALSE /\ \E root \in Roots : todo = Text(root)
     \/ framed = TRUE /\ \E root \in FramedRoots : todo = Item(root)

\* The tokens of a terminal, with the names that a script has.
Said(r) == IF PlainWord \in r.emits THEN r.emits \cup Words(Names) ELSE r.emits

FollowToken ==
  /\ framed /\ ~body.skipping
  /\ Doing("token")
  /\ \E next \in Said(rule) :
       /\ Takes(next)
       /\ Follow(next)
       /\ fromClient' = (fromClient \/ rule = kw("stdin"))
       /\ clientName' = (clientName \/ (next = Word("stdin") /\ rule # kw("stdin")))
  /\ body' = IF rule = kw("atomic") THEN [body EXCEPT !.level = routine.depth] ELSE body
  /\ UNCHANGED framed

\* A meta-command on a line of its own, behind the first token. It ends a
\* statement that has no semicolon yet, for the lexer and the parser, which goes to
\* the line also from within a body (bodyCut, cutShort); the splitter reads on.
MetaCommand ==
  /\ framed
  /\ todo # <<>> /\ ~copying.leading
  /\ \E root \in FramedRoots : todo' = Item(root)
  /\ tests' = {}
  /\ Follow(MetaLine)
  /\ fromClient' = FALSE /\ clientName' = FALSE
  /\ body' = NoBody
  /\ UNCHANGED framed

\* The next statement of the script, behind the rows of the last one.
NextItem ==
  /\ framed
  /\ todo = <<>>
  /\ \E root \in FramedRoots : todo' = Item(root)
  /\ tests' = {}
  /\ dataPending' = FALSE /\ fromClient' = FALSE /\ clientName' = FALSE /\ body' = NoBody
  /\ UNCHANGED <<framed, routine, copying, splitter, apart>>

-------------------------------------------------------------------------------
(* diagnose() of a script with a broken statement in the body of a routine. *)

\* What is left of the statement.
BrokenTokens == {PlainWord, Punc(";")} \cup Words({"begin", "case", "end"})

\* The parser croaks inside of a body and reports it: it will resume in the loop
\* over the statements of the body. A parenthesis that the statement has opened is
\* closed, since psql counts no word behind an open one.
Breaks ==
  /\ framed /\ ~body.skipping
  /\ body.level > 0 /\ routine.parens = 0
  /\ \E i \in DOMAIN todo : todo[i] = BodyLoop /\ todo' = SubSeq(todo, i, Len(todo))
  /\ tests' = {}
  /\ body' = [body EXCEPT !.skipping = TRUE]
  /\ UNCHANGED framing

\* The END of the body: it is left for the loop to take.
ClosesBody(next) == next = Word("end") /\ observe(next).depth = body.level - 1

EndsBrokenSlip(next) == next = Punc(";")

EndsBroken(next) == next = Punc(";") /\ observe(next).depth = body.level

SkipToken ==
  /\ body.skipping
  /\ \E next \in BrokenTokens :
       /\ ~ClosesBody(next)
       /\ observe(next).depth <= MaxBlocks
       /\ Follow(next)
       /\ body' = [body EXCEPT !.skipping = ~EndsBroken(next)]
  /\ UNCHANGED <<vars, framed, fromClient, clientName>>

ResumeAtEnd ==
  /\ body.skipping
  /\ ClosesBody(Word("end"))
  /\ Goes(<<>>)
  /\ body' = [body EXCEPT !.skipping = FALSE]
  /\ UNCHANGED <<tests, framing>>

-------------------------------------------------------------------------------
Derives == ~body.skipping /\ (Choose \/ Sequence \/ Enter \/ Return)

ScriptNext ==
  \/ MetaCommand \/ NextItem
  \/ Derives /\ UNCHANGED <<framing, body>>
  \/ ~framed /\ (TakeToken \/ Restart) /\ UNCHANGED <<framing, body>>
  \/ FollowToken
  \/ Breaks \/ SkipToken \/ ResumeAtEnd

ScriptSpec == ScriptInit /\ [][ScriptNext]_scriptVars /\ WF_scriptVars(ScriptNext)

-------------------------------------------------------------------------------
AtSemicolon == framed /\ ~body.skipping /\ todo # <<>> /\ rule = punc(";")

\* The statement is derived but for its semicolon.
AtEndOfStatement == todo = <<punc(";")>>

\* The lexer ends a statement where the grammar does: a semicolon of a BEGIN ATOMIC
\* body ends none, whatever CASE and END the body has, and the one behind it does,
\* also where a meta-command has cut a statement short before, and where the parser
\* has skipped the rest of a broken statement in the body.
BodiesStayWhole == AtSemicolon => (routine.depth = 0 <=> AtEndOfStatement)

\* The lexer reads rows behind the statements that take them from the client, and
\* behind no other: not where STDIN is the name of a table or a column, nor where
\* a COPY was cut short before its semicolon.
RowsFollowTheirCopy == framed /\ todo = <<>> => (dataPending <=> fromClient)

\* The splitter ends statements where the lexer does, and has rows where it has: but for
\* a statement with a name spelled stdin, which it may have for the client's.
SplitsAlike ==
  AtSemicolon /\ ~apart =>
    /\ SplitsHere <=> routine.depth = 0
    /\ SplitsHere /\ ~clientName => (splitter.copyIn <=> copying.copyIn)

\* A step that takes a token from the text.
ReadsToken ==
  \/ Doing("token") /\ todo' = Tail(todo) /\ ~body'.skipping
  \/ body.skipping /\ UNCHANGED todo

\* The parser goes round neither in the rules nor in the recovery of a body without
\* taking a token: no rule calls itself before it has taken one, no loop repeats what
\* may be empty, and a body does not fail again where it has just resumed.
Advances == []<><<ReadsToken>>_scriptVars
================================================================================
