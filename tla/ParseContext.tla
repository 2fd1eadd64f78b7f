----------------------------- MODULE ParseContext -----------------------------
(***************************************************************************)
(* createParseContext of packages/core/src/rule.ts: the cursor every rule  *)
(* runs on. It adds to the token stream the replay buffer of peekAhead and *)
(* tryParse, the stack of snapshots, the high-water mark of failures and   *)
(* the collector of diagnostics.                                           *)
(*                                                                         *)
(* The client is any parser: between two calls it may make any other call  *)
(* the ParseContext interface offers. A call that begins with a peek is    *)
(* split there: FetchHead and FetchThrows are the lexing a peek may have   *)
(* to do (peek is itself a call), and the rest of the call runs once the   *)
(* head of the stream is known. The loops of peekAhead, skipTrivia and     *)
(* recover run one iteration at a time, with `call` saying which one.      *)
(*                                                                         *)
(* A definition named ...Slip is the one below it after a plausible wrong  *)
(* edit of the code; no specification uses it. Each property is checked to *)
(* fail when a slip takes the place of its original.                       *)
(*                                                                         *)
(* A text is the sequence of items the lexer makes of it: a token, or Bad  *)
(* where lexing throws. Whitespace between items and the values of tokens  *)
(* are abstracted. A token is named by the place of its item, and that     *)
(* place also stands for its end position; 0 is null.                      *)
(***************************************************************************)
EXTENDS Integers, Sequences

CONSTANTS
  Tokens,         \* the kinds of token
  Bad,            \* an item the lexer cannot read: it consumes it and croaks
  Trivia,         \* kinds the grammar lets stand anywhere
  SyncSkip,       \* sync points with consume: true
  SyncKeep,       \* sync points with consume: false
  Texts,          \* the texts that may be parsed
  Propagate,      \* errorReporting.propagateLexerErrors
  PreferFarthest, \* errorReporting.preferFarthest
  Collect,        \* an error collector is installed (diagnose, not parse)
  MaxDepth,       \* bound on nested tryParse calls
  MaxAhead,       \* bound on the argument of peekAhead
  MaxErrors       \* bound on the diagnostics the client records

ASSUME KindsAssumption ==
  /\ Bad \notin Tokens
  /\ Trivia \subseteq Tokens
  /\ SyncSkip \subseteq Tokens /\ SyncKeep \subseteq Tokens
  /\ SyncSkip \cap SyncKeep = {}
  /\ \A text \in Texts : text \in Seq(Tokens \cup {Bad})

ASSUME FlagsAssumption ==
  /\ Propagate \in BOOLEAN /\ PreferFarthest \in BOOLEAN /\ Collect \in BOOLEAN
  /\ MaxDepth \in Nat /\ MaxAhead \in Nat /\ MaxErrors \in Nat

VARIABLES
  \* the token stream
  text,      \* the items of the text
  lexed,     \* how many of them the lexer has consumed
  current,   \* the token cached by the stream's own peek
  produced,  \* history: the tokens the lexer has made
  \* the context
  buffer, bufferPos,   \* tokens pulled off the stream and kept for replay
  snapshots,           \* one per open tryParse
  last, count, lastSig,
  farthest,            \* the deepest croak since the last record
  errors,              \* the collector
  deepest,             \* history: the depth of that croak, -1 for none
  \* control
  thrown,    \* the error in flight
  call       \* the loop of the context that is running

stream == <<text, lexed, current, produced>>
cursor == <<buffer, bufferPos, snapshots, last, count, lastSig>>
reports == <<farthest, errors, deepest>>
control == <<thrown, call>>
vars == <<stream, cursor, reports, control>>

-------------------------------------------------------------------------------
(* Errors. Only ctx.croak stamps `consumed`; only the stream's are tagged  *)
(* fromLexer, and only with propagateLexerErrors.                          *)

Kinds == {"none", "croak", "built", "lexer"}
Error == [kind : Kinds, consumed : Nat, item : Nat]

NoError == [kind |-> "none", consumed |-> 0, item |-> 0]
CroakError == [kind |-> "croak", consumed |-> count, item |-> 0]
BuiltError == [kind |-> "built", consumed |-> 0, item |-> 0]
LexerError(i) == [kind |-> "lexer", consumed |-> 0, item |-> i]

Stamped(error) == error.kind = "croak"
FromLexer(error) == Propagate /\ error.kind = "lexer"

-------------------------------------------------------------------------------
(* The token stream, as far as the context sees it.                        *)

\* produce() reads an item that is a token.
LexToken ==
  /\ lexed < Len(text)
  /\ text[lexed + 1] # Bad
  /\ lexed' = lexed + 1
  /\ produced' = Append(produced, lexed + 1)
  /\ UNCHANGED text

\* produce() reads an item it cannot lex: the item is consumed all the same.
LexError ==
  /\ lexed < Len(text)
  /\ text[lexed + 1] = Bad
  /\ lexed' = lexed + 1
  /\ UNCHANGED <<text, current, produced>>

AtEnd == lexed = Len(text)
IsTrivia(token) == text[token] \in Trivia

-------------------------------------------------------------------------------
(* peek                                                                    *)

Buffered == bufferPos < Len(buffer)

\* peek() returns without lexing, and returns this.
HeadKnown == Buffered \/ current # 0 \/ AtEnd
Peeked == IF Buffered THEN buffer[bufferPos + 1] ELSE current

Idle == [op |-> "client", n |-> 0]
InClient == thrown = NoError /\ call = Idle
InLoop(op) == thrown = NoError /\ call.op = op

\* peek() does not throw: the head is known, or one token is lexed and cached.
Peeks ==
  \/ HeadKnown /\ UNCHANGED stream
  \/ ~HeadKnown /\ LexToken /\ current' = lexed + 1

FetchHead ==
  /\ thrown = NoError /\ call.op # "peekAhead"
  /\ ~HeadKnown
  /\ LexToken
  /\ current' = lexed + 1
  /\ UNCHANGED <<cursor, reports, control>>

FetchThrows ==
  /\ thrown = NoError /\ call.op \in {"client", "skipTrivia"}
  /\ ~HeadKnown
  /\ LexError
  /\ thrown' = LexerError(lexed + 1)
  /\ call' = Idle
  /\ UNCHANGED <<cursor, reports>>

-------------------------------------------------------------------------------
(* peekAhead(n): pull until n + 1 tokens lie ahead or the text ends.       *)

StartPeekAhead ==
  /\ InClient
  /\ \E n \in 0..MaxAhead : call' = [op |-> "peekAhead", n |-> n]
  /\ UNCHANGED <<stream, cursor, reports, thrown>>

WantsMoreSlip == Len(buffer) - bufferPos < call.n

WantsMore == Len(buffer) - bufferPos <= call.n

PullAhead ==
  /\ InLoop("peekAhead")
  /\ WantsMore
  /\ \/ /\ current # 0
        /\ buffer' = Append(buffer, current)
        /\ current' = 0
        /\ UNCHANGED <<text, lexed, produced>>
     \/ /\ current = 0
        /\ LexToken
        /\ buffer' = Append(buffer, lexed + 1)
        /\ UNCHANGED current
  /\ UNCHANGED <<bufferPos, snapshots, last, count, lastSig, reports, control>>

PullAheadThrows ==
  /\ InLoop("peekAhead")
  /\ WantsMore
  /\ current = 0
  /\ LexError
  /\ thrown' = LexerError(lexed + 1)
  /\ call' = Idle
  /\ UNCHANGED <<cursor, reports>>

EndPeekAheadSlip ==
  /\ InLoop("peekAhead")
  /\ IF WantsMore
     THEN current = 0 /\ AtEnd /\ UNCHANGED vars
     ELSE call' = Idle /\ UNCHANGED <<stream, cursor, reports, thrown>>

EndPeekAhead ==
  /\ InLoop("peekAhead")
  /\ ~WantsMore \/ (current = 0 /\ AtEnd)
  /\ call' = Idle
  /\ UNCHANGED <<stream, cursor, reports, thrown>>

-------------------------------------------------------------------------------
(* next                                                                    *)

DrainSlip ==
  IF bufferPos + 1 = Len(buffer)
  THEN buffer' = <<>> /\ bufferPos' = 0
  ELSE bufferPos' = bufferPos + 1 /\ UNCHANGED buffer

DrainKeepsSlip == bufferPos' = bufferPos + 1 /\ UNCHANGED buffer

\* The cursor passes a buffered token; the buffer goes once it is replayed
\* and no snapshot can want it back.
Drain ==
  IF snapshots = <<>> /\ bufferPos + 1 = Len(buffer)
  THEN buffer' = <<>> /\ bufferPos' = 0
  ELSE bufferPos' = bufferPos + 1 /\ UNCHANGED buffer

KeepSlip(token) ==
  IF snapshots = <<>>
  THEN UNCHANGED <<buffer, bufferPos>>
  ELSE bufferPos' = bufferPos + 1 /\ UNCHANGED buffer

\* A token comes straight off the stream, and is kept only for a snapshot.
Keep(token) ==
  IF snapshots = <<>>
  THEN UNCHANGED <<buffer, bufferPos>>
  ELSE buffer' = Append(buffer, token) /\ bufferPos' = bufferPos + 1

Passed(token) ==
  /\ last' = token
  /\ count' = count + 1
  /\ lastSig' = IF IsTrivia(token) THEN lastSig ELSE token
  /\ UNCHANGED snapshots

\* next() when it returns a token.
Advance ==
  \/ /\ Buffered
     /\ Drain
     /\ Passed(buffer[bufferPos + 1])
     /\ UNCHANGED stream
  \/ /\ ~Buffered /\ current # 0
     /\ Keep(current)
     /\ Passed(current)
     /\ current' = 0
     /\ UNCHANGED <<text, lexed, produced>>
  \/ /\ ~Buffered /\ current = 0
     /\ LexToken
     /\ Keep(lexed + 1)
     /\ Passed(lexed + 1)
     /\ UNCHANGED current

\* next() of the client. At the end of the text it returns null and changes
\* nothing; on a Bad item it throws as FetchThrows does.
NextToken ==
  /\ InClient
  /\ Advance
  /\ UNCHANGED <<reports, control>>

-------------------------------------------------------------------------------
(* skipTrivia                                                              *)

StartSkipTrivia ==
  /\ InClient
  /\ call' = [op |-> "skipTrivia", n |-> 0]
  /\ UNCHANGED <<stream, cursor, reports, thrown>>

SkipTrivia ==
  /\ InLoop("skipTrivia")
  /\ HeadKnown
  /\ IF Peeked # 0 /\ IsTrivia(Peeked)
     THEN Advance /\ UNCHANGED call
     ELSE call' = Idle /\ UNCHANGED <<stream, cursor>>
  /\ UNCHANGED <<reports, thrown>>

-------------------------------------------------------------------------------
(* tryParse                                                                *)

Top == snapshots[Len(snapshots)]
Popped == SubSeq(snapshots, 1, Len(snapshots) - 1)

CompactSlip(from) ==
  IF Popped = <<>> /\ buffer # <<>>
  THEN buffer' = SubSeq(buffer, from + 1, Len(buffer)) /\ bufferPos' = from
  ELSE bufferPos' = from /\ UNCHANGED buffer

\* compact() after the pop, with bufferPos at `from`.
Compact(from) ==
  IF Popped = <<>> /\ buffer # <<>>
  THEN buffer' = SubSeq(buffer, from + 1, Len(buffer)) /\ bufferPos' = 0
  ELSE bufferPos' = from /\ UNCHANGED buffer

TryParse ==
  /\ InClient
  /\ Len(snapshots) < MaxDepth
  /\ snapshots' = Append(snapshots,
       [pos |-> bufferPos, last |-> last, count |-> count, lastSig |-> lastSig])
  /\ UNCHANGED <<stream, buffer, bufferPos, last, count, lastSig, reports, control>>

\* The rule returned a value.
Commit ==
  /\ InClient
  /\ snapshots # <<>>
  /\ snapshots' = Popped
  /\ Compact(bufferPos)
  /\ UNCHANGED <<stream, last, count, lastSig, reports, control>>

RestoreSlip ==
  /\ last' = Top.last
  /\ count' = Top.count
  /\ UNCHANGED lastSig

Restore ==
  /\ last' = Top.last
  /\ count' = Top.count
  /\ lastSig' = Top.lastSig

\* The rule threw: tryParse undoes the branch and answers null.
RollBack ==
  /\ thrown # NoError
  /\ snapshots # <<>>
  /\ ~FromLexer(thrown)
  /\ snapshots' = Popped
  /\ Restore
  /\ Compact(Top.pos)
  /\ thrown' = NoError
  /\ UNCHANGED <<stream, reports, call>>

RethrowSlip ==
  /\ thrown # NoError
  /\ snapshots # <<>>
  /\ FromLexer(thrown)
  /\ UNCHANGED <<stream, cursor, reports, control>>

\* It threw an error the stream was tagged with: tryParse lets it through
\* with the cursor where the lexer stopped.
Rethrow ==
  /\ thrown # NoError
  /\ snapshots # <<>>
  /\ FromLexer(thrown)
  /\ snapshots' = Popped
  /\ Compact(bufferPos)
  /\ UNCHANGED <<stream, last, count, lastSig, reports, control>>

-------------------------------------------------------------------------------
(* croak, and the errors rules build by hand                               *)

CroakAtSlip ==
  /\ Peeks
  /\ thrown' = CroakError
  /\ farthest' = CroakError
  /\ deepest' = IF count > deepest THEN count ELSE deepest
  /\ UNCHANGED errors

\* The mark moves only for a strictly deeper failure.
CroakAt ==
  /\ Peeks
  /\ thrown' = CroakError
  /\ farthest' = IF farthest = NoError \/ count > farthest.consumed
                 THEN CroakError ELSE farthest
  /\ deepest' = IF count > deepest THEN count ELSE deepest
  /\ UNCHANGED errors

Croak ==
  /\ InClient
  /\ CroakAt
  /\ UNCHANGED <<cursor, call>>

\* throw new ParseError(...), as the top-level loop of a grammar does.
ThrowBuilt ==
  /\ InClient
  /\ thrown' = BuiltError
  /\ UNCHANGED <<stream, cursor, reports, call>>

RelabelSlip ==
  /\ thrown # NoError
  /\ CroakAt
  /\ UNCHANGED <<cursor, call>>

\* describe(): a failure on its rule's first token is croaked again under the
\* rule's label; a tagged lexer error keeps its own message.
Relabel ==
  /\ thrown # NoError
  /\ ~FromLexer(thrown)
  /\ CroakAt
  /\ UNCHANGED <<cursor, call>>

\* The croak of describe() peeks, and that may throw in its place.
RelabelThrows ==
  /\ thrown # NoError
  /\ ~FromLexer(thrown)
  /\ ~HeadKnown
  /\ LexError
  /\ thrown' = LexerError(lexed + 1)
  /\ UNCHANGED <<cursor, reports, call>>

-------------------------------------------------------------------------------
(* record, report and recover                                              *)

\* The mark starts anew, so an old deep failure hides no later error.
Clear ==
  /\ farthest' = NoError
  /\ deepest' = -1

Deeper(error) ==
  /\ PreferFarthest
  /\ farthest # NoError
  /\ Stamped(error)
  /\ farthest.consumed > error.consumed

Record(error) ==
  /\ Collect
  /\ Len(errors) < MaxErrors
  /\ errors' = Append(errors, IF Deeper(error) THEN farthest ELSE error)
  /\ Clear

\* A rule catches the error and only records it.
Report ==
  /\ thrown # NoError
  /\ Record(thrown)
  /\ thrown' = NoError
  /\ UNCHANGED <<stream, cursor, call>>

\* A rule catches the error, records it and skips to the next sync point.
StartRecover ==
  /\ thrown # NoError
  /\ Record(thrown)
  /\ thrown' = NoError
  /\ call' = [op |-> "recover", n |-> 0]
  /\ UNCHANGED <<stream, cursor>>

\* A lexer error on the way is recorded too, and the loop goes on.
RecoverLexerError ==
  /\ InLoop("recover")
  /\ ~HeadKnown
  /\ LexError
  /\ errors' = Append(errors, LexerError(lexed + 1))
  /\ UNCHANGED <<cursor, farthest, deepest, control>>

\* The end of the text or a sync point ends the skip.
RecoverAtSync ==
  /\ InLoop("recover")
  /\ HeadKnown
  /\ \/ Peeked = 0 /\ UNCHANGED <<stream, cursor>>
     \/ Peeked # 0 /\ text[Peeked] \in SyncKeep /\ UNCHANGED <<stream, cursor>>
     \/ Peeked # 0 /\ text[Peeked] \in SyncSkip /\ Advance
  /\ call' = Idle
  /\ UNCHANGED <<reports, thrown>>

RecoverSkip ==
  /\ InLoop("recover")
  /\ HeadKnown
  /\ Peeked # 0 /\ text[Peeked] \notin SyncKeep \cup SyncSkip
  /\ Advance
  /\ UNCHANGED <<reports, control>>

\* Nothing catches the error: it leaves the parse, which is over.
Escaped ==
  /\ thrown # NoError
  /\ snapshots = <<>>
  /\ UNCHANGED vars
-------------------------------------------------------------------------------
Init ==
  /\ text \in Texts
  /\ lexed = 0 /\ current = 0 /\ produced = <<>>
  /\ buffer = <<>> /\ bufferPos = 0 /\ snapshots = <<>>
  /\ last = 0 /\ count = 0 /\ lastSig = 0
  /\ farthest = NoError /\ deepest = -1 /\ errors = <<>>
  /\ thrown = NoError /\ call = Idle

\* One iteration of a loop of the context.
LoopStep ==
  \/ call # Idle /\ (FetchHead \/ FetchThrows)
  \/ PullAhead \/ PullAheadThrows \/ EndPeekAhead
  \/ SkipTrivia
  \/ RecoverLexerError \/ RecoverAtSync \/ RecoverSkip

\* One call of the client, or the way an error in flight is met.
ClientStep ==
  \/ call = Idle /\ (FetchHead \/ FetchThrows)
  \/ StartPeekAhead \/ NextToken \/ StartSkipTrivia
  \/ TryParse \/ Commit \/ RollBack \/ Rethrow
  \/ Croak \/ ThrowBuilt \/ Relabel \/ RelabelThrows
  \/ Report \/ StartRecover
  \/ Escaped

Next == LoopStep \/ ClientStep

\* A loop of the context is straight-line JavaScript: nothing else runs until
\* it returns or throws. The client may stop calling at any time.
Spec == Init /\ [][Next]_vars /\ WF_vars(LoopStep)

-------------------------------------------------------------------------------
Token == Nat \ {0}
Snapshot == [pos : Nat, last : Nat, count : Nat, lastSig : Nat]

TypeOK ==
  /\ text \in Texts
  /\ lexed \in 0..Len(text)
  /\ current \in Nat
  /\ produced \in Seq(Token)
  /\ buffer \in Seq(Token)
  /\ bufferPos \in 0..Len(buffer)
  /\ snapshots \in Seq(Snapshot)
  /\ last \in Nat /\ count \in Nat /\ lastSig \in Nat
  /\ farthest \in Error /\ thrown \in Error
  /\ errors \in Seq(Error)
  /\ deepest \in Nat \cup {-1}
  /\ call \in [op : {"client", "peekAhead", "skipTrivia", "recover"}, n : Nat]

\* What peek answers is the token after the consumed ones, in the order the
\* lexer made them, and it answers null only when all are consumed: neither
\* lookahead, nor a rollback, nor a discarded buffer loses, repeats or
\* reorders a token (the handover between `current`, `buffer` and the stream).
HeadIsNextToken ==
  /\ HeadKnown /\ Peeked = 0 => count = Len(produced)
  /\ HeadKnown /\ Peeked # 0 => count < Len(produced) /\ Peeked = produced[count + 1]

\* newlineBefore() compares with the last significant token before the cursor:
\* every token after that anchor is trivia, also after a rollback.
LastSigAnchors ==
  /\ lastSig # 0 => /\ ~IsTrivia(lastSig)
                    /\ \E i \in 1..count : produced[i] = lastSig
  /\ \A i \in 1..count : produced[i] > lastSig => IsTrivia(produced[i])

\* peekAhead(n) answers the token n places past the cursor, and null only
\* when the text has no such token.
LookaheadIsExact ==
  InLoop("peekAhead") /\ (~WantsMore \/ (current = 0 /\ AtEnd)) =>
    IF bufferPos + call.n < Len(buffer)
    THEN /\ count + call.n < Len(produced)
         /\ buffer[bufferPos + call.n + 1] = produced[count + call.n + 1]
    ELSE AtEnd /\ count + call.n >= Len(produced)

\* The buffer holds tokens only for a snapshot or for lookahead that is still
\* to be consumed: once drained with no tryParse open it is empty, so that a
\* long text does not pile up in it.
BufferIsDrained ==
  snapshots = <<>> /\ bufferPos = Len(buffer) => buffer = <<>>

\* The context implements the buffer-free cursor: every step of every call,
\* rollbacks included, is one the abstract cursor allows.
Cursor == INSTANCE TokenCursor WITH
  tape <- produced,
  cursor <- count,
  marks <- [i \in 1..Len(snapshots) |-> snapshots[i].count]

CursorSpec == Cursor!Spec

\* With preferFarthest, a recorded croak is as deep as the deepest croak since
\* the record before it, and no deeper: the failures of abandoned branches
\* count, and those from before that record do not.
RecordedIsDeepest ==
  [][PreferFarthest /\ Stamped(thrown) /\ Len(errors') > Len(errors)
       => errors'[Len(errors')].consumed = deepest]_vars

\* With propagateLexerErrors no branch, label or substitution swallows an
\* error of the lexer: each item it could not read is in the diagnostics, once,
\* or is the error in flight.
LexerErrorsSurface ==
  Propagate =>
    /\ \A i \in 1..lexed : text[i] = Bad =>
         thrown = LexerError(i) \/ \E j \in 1..Len(errors) : errors[j] = LexerError(i)
    /\ \A j, k \in 1..Len(errors) :
         errors[j].kind = "lexer" /\ errors[j] = errors[k] => j = k

\* peekAhead, skipTrivia and recover come back, whatever the text, the buffer and the
\* branches that are open: peekAhead past the end of the text as well, and recover()
\* passes errors of the lexer because the lexer consumes what it cannot read.
LoopsReturn == (call # Idle) ~> (call = Idle)
================================================================================
