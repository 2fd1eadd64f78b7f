-------------------------- MODULE ParseContextProofs --------------------------
(***************************************************************************)
(* What ParseContext guarantees for every text, every bound and every      *)
(* setting of the flags.                                                   *)
(*                                                                         *)
(* The invariant relates the three places a token may wait in to the tape  *)
(* of produced tokens: Base tokens are gone for good, then come those of   *)
(* the buffer, then the one the stream has cached. Upon it rest the        *)
(* guarantees about the errors it collects: an error of the lexer is never *)
(* swallowed when the grammar propagates it, and what is recorded of a     *)
(* failed rule is its deepest failure.                                     *)
(***************************************************************************)
EXTENDS ParseContext, SequenceTheorems, TLAPS

Base == Len(produced) - Len(buffer) - (IF current = 0 THEN 0 ELSE 1)

At(tape, n) == IF n = 0 THEN 0 ELSE tape[n]

\* s is the last significant one among the first n tokens of the tape.
Anchors(items, tape, s, n) ==
  /\ s # 0 => items[s] \notin Trivia /\ \E i \in 1..n : tape[i] = s
  /\ \A i \in 1..n : tape[i] > s => items[tape[i]] \in Trivia

StreamOK ==
  /\ text \in Texts
  /\ lexed \in 0..Len(text)
  /\ current \in Nat
  /\ produced \in Seq(Token)
  /\ \A i \in 1..Len(produced) : produced[i] <= lexed
  /\ \A i, j \in 1..Len(produced) : i < j => produced[i] < produced[j]

CursorTypeOK ==
  /\ buffer \in Seq(Token)
  /\ bufferPos \in 0..Len(buffer)
  /\ snapshots \in Seq(Snapshot)
  /\ last \in Nat /\ count \in Nat /\ lastSig \in Nat

Window ==
  /\ Base \in Nat
  /\ count = Base + bufferPos
  /\ \A i \in 1..Len(buffer) : buffer[i] = produced[Base + i]
  /\ current # 0 => current = produced[Len(produced)]

Marks ==
  /\ \A k \in 1..Len(snapshots) :
       /\ snapshots[k].count = Base + snapshots[k].pos
       /\ snapshots[k].pos <= bufferPos
       /\ snapshots[k].last = At(produced, snapshots[k].count)
       /\ Anchors(text, produced, snapshots[k].lastSig, snapshots[k].count)
  /\ \A j, k \in 1..Len(snapshots) : j < k => snapshots[j].pos <= snapshots[k].pos

Follows == last = At(produced, count) /\ Anchors(text, produced, lastSig, count)

CursorInv ==
  /\ StreamOK /\ CursorTypeOK /\ Window /\ Marks /\ Follows /\ BufferIsDrained

ReportsOK ==
  /\ farthest \in Error /\ thrown \in Error
  /\ errors \in Seq(Error)
  /\ deepest \in Nat \cup {-1}
  /\ call \in [op : {"client", "peekAhead", "skipTrivia", "recover"}, n : Nat]

IInv == CursorInv /\ ReportsOK

-------------------------------------------------------------------------------
(* How a step can move the stream and the cursor.                          *)

Stays == UNCHANGED <<stream, cursor>>
Skips == LexError /\ UNCHANGED cursor
Fetches ==
  /\ ~Buffered /\ current = 0
  /\ LexToken
  /\ current' = lexed + 1
  /\ UNCHANGED cursor
Pulls ==
  /\ \/ /\ current # 0
        /\ buffer' = Append(buffer, current)
        /\ current' = 0
        /\ UNCHANGED <<text, lexed, produced>>
     \/ /\ current = 0
        /\ LexToken
        /\ buffer' = Append(buffer, lexed + 1)
        /\ UNCHANGED current
  /\ InLoop("peekAhead") /\ WantsMore
  /\ UNCHANGED <<bufferPos, snapshots, last, count, lastSig>>
Opens ==
  /\ snapshots' = Append(snapshots,
       [pos |-> bufferPos, last |-> last, count |-> count, lastSig |-> lastSig])
  /\ UNCHANGED <<stream, buffer, bufferPos, last, count, lastSig>>
Closes ==
  /\ snapshots # <<>>
  /\ snapshots' = Popped
  /\ Compact(bufferPos)
  /\ UNCHANGED <<stream, last, count, lastSig>>
Returns ==
  /\ snapshots # <<>>
  /\ snapshots' = Popped
  /\ Restore
  /\ Compact(Top.pos)
  /\ UNCHANGED stream

Moves == Stays \/ Skips \/ Fetches \/ Pulls \/ Advance \/ Opens \/ Closes \/ Returns

\* Every step moves the stream and the cursor in one of these ways.
LEMMA StepsMove == [Next]_vars => Moves
<1> USE DEF stream, cursor, reports, control, Moves, Stays
<1> SUFFICES ASSUME [Next]_vars PROVE Moves
  OBVIOUS
<1>1. CASE UNCHANGED vars
  BY <1>1 DEF vars
<1>2. CASE FetchHead
  BY <1>2 DEF FetchHead, Fetches, HeadKnown
<1>3. CASE FetchThrows \/ PullAheadThrows \/ RelabelThrows \/ RecoverLexerError
  BY <1>3 DEF FetchThrows, PullAheadThrows, RelabelThrows, RecoverLexerError, Skips
<1>4. CASE PullAhead
  BY <1>4 DEF PullAhead, Pulls
<1>5. CASE EndPeekAhead \/ StartPeekAhead \/ StartSkipTrivia \/ ThrowBuilt
           \/ Report \/ StartRecover \/ Escaped
  BY <1>5 DEF EndPeekAhead, StartPeekAhead, StartSkipTrivia, ThrowBuilt, Report,
              StartRecover, Escaped, vars
<1>6. CASE SkipTrivia
  BY <1>6 DEF SkipTrivia
<1>7. CASE RecoverAtSync \/ RecoverSkip \/ NextToken
  BY <1>7 DEF RecoverAtSync, RecoverSkip, NextToken
<1>8. CASE TryParse
  BY <1>8 DEF TryParse, Opens
<1>9. CASE Commit \/ Rethrow
  BY <1>9 DEF Commit, Rethrow, Closes
<1>10. CASE RollBack
  BY <1>10 DEF RollBack, Returns
<1>11. CASE Croak \/ Relabel
  BY <1>11 DEF Croak, Relabel, CroakAt, Peeks, Fetches, HeadKnown
<1> QED
  BY <1>1, <1>2, <1>3, <1>4, <1>5, <1>6, <1>7, <1>8, <1>9, <1>10, <1>11
  DEF Next, LoopStep, ClientStep

-------------------------------------------------------------------------------
(* Each way keeps the invariant.                                           *)

\* A token lexed: the tape grows at its end and keeps what it held.
LEMMA LexTokenGrows ==
  ASSUME StreamOK, LexToken
  PROVE  /\ text' = text /\ lexed' = lexed + 1 /\ lexed' \in 0..Len(text)
         /\ produced' \in Seq(Token)
         /\ Len(produced') = Len(produced) + 1
         /\ produced'[Len(produced) + 1] = lexed + 1
         /\ \A i \in 1..Len(produced) : produced'[i] = produced[i]
         /\ \A i \in 1..Len(produced') : produced'[i] <= lexed'
         /\ \A i, j \in 1..Len(produced') : i < j => produced'[i] < produced'[j]
<1> Len(text) \in Nat
  BY KindsAssumption DEF StreamOK
<1>1. /\ produced' = Append(produced, lexed + 1)
      /\ text' = text /\ lexed' = lexed + 1 /\ lexed' \in 0..Len(text)
      /\ lexed + 1 \in Token
  BY DEF LexToken, StreamOK, Token
<1>2. /\ produced' \in Seq(Token)
      /\ Len(produced') = Len(produced) + 1
      /\ produced'[Len(produced) + 1] = lexed + 1
      /\ \A i \in 1..Len(produced) : produced'[i] = produced[i]
  BY <1>1 DEF StreamOK
<1>3. ASSUME NEW i \in 1..Len(produced')
      PROVE  produced'[i] <= lexed'
  <2>1. CASE i = Len(produced) + 1
    BY <1>1, <1>2, <2>1 DEF StreamOK
  <2>2. CASE i \in 1..Len(produced)
    BY <1>1, <1>2, <2>2 DEF StreamOK, Token
  <2> QED
    BY <1>2, <2>1, <2>2 DEF StreamOK
<1>4. ASSUME NEW i \in 1..Len(produced'), NEW j \in 1..Len(produced'), i < j
      PROVE  produced'[i] < produced'[j]
  <2>1. i \in 1..Len(produced) /\ produced'[i] = produced[i] /\ produced[i] \in Nat
    BY <1>2, <1>4 DEF StreamOK, Token
  <2>2. CASE j = Len(produced) + 1
    BY <1>1, <1>2, <2>1, <2>2 DEF StreamOK
  <2>3. CASE j \in 1..Len(produced)
    BY <1>2, <1>4, <2>1, <2>3 DEF StreamOK
  <2> QED
    BY <1>2, <2>2, <2>3 DEF StreamOK
<1> QED
  BY <1>1, <1>2, <1>3, <1>4

\* What is said of a prefix of the tape stays true when the tape grows.
LEMMA PrefixStable ==
  ASSUME StreamOK, LexToken
  PROVE  \A n \in 0..Len(produced) :
           /\ At(produced', n) = At(produced, n)
           /\ \A s \in Nat : Anchors(text, produced, s, n) => Anchors(text', produced', s, n)
<1> SUFFICES ASSUME NEW n \in 0..Len(produced), NEW s \in Nat
             PROVE  /\ At(produced', n) = At(produced, n)
                    /\ Anchors(text, produced, s, n) => Anchors(text', produced', s, n)
  OBVIOUS
<1>1. \A i \in 1..n : i \in 1..Len(produced) /\ produced'[i] = produced[i]
  BY LexTokenGrows DEF StreamOK
<1>2. At(produced', n) = At(produced, n)
  BY <1>1 DEF At
<1>3. text' = text
  BY LexTokenGrows
<1> QED
  BY <1>1, <1>2, <1>3 DEF Anchors

LEMMA StaysKeeps == CursorInv /\ Stays => CursorInv'
BY DEF CursorInv, Stays, stream, cursor, StreamOK, CursorTypeOK, Window, Marks, Follows,
       BufferIsDrained, Base, At

LEMMA SkipsKeeps == CursorInv /\ Skips => CursorInv'
<1> SUFFICES ASSUME CursorInv, Skips PROVE CursorInv'
  OBVIOUS
<1>1. Len(text) \in Nat
  BY KindsAssumption DEF CursorInv, StreamOK
<1>2. StreamOK'
  BY <1>1 DEF CursorInv, Skips, LexError, StreamOK, Token
<1>3. /\ UNCHANGED <<text, current, produced, buffer, bufferPos>>
      /\ UNCHANGED <<snapshots, last, count, lastSig>>
  BY DEF Skips, LexError, cursor
<1> QED
  BY <1>2, <1>3 DEF CursorInv, CursorTypeOK, Window, Marks, Follows, BufferIsDrained,
                    Base, At

\* Facts about the tape the invariant gives.
LEMMA TapeFacts ==
  ASSUME CursorInv
  PROVE  /\ Len(produced) \in Nat /\ Len(buffer) \in Nat /\ Len(snapshots) \in Nat
         /\ Base \in Nat /\ bufferPos \in 0..Len(buffer)
         /\ count = Base + bufferPos /\ count \in 0..Len(produced)
         /\ Base + Len(buffer) = Len(produced) - (IF current = 0 THEN 0 ELSE 1)
         /\ \A i \in 1..Len(produced) : produced[i] \in Token
         /\ \A k \in 1..Len(snapshots) :
              /\ snapshots[k] \in Snapshot
              /\ snapshots[k].count \in 0..Len(produced)
<1>1. /\ Len(produced) \in Nat /\ Len(buffer) \in Nat /\ Len(snapshots) \in Nat
      /\ Base \in Nat /\ bufferPos \in 0..Len(buffer)
      /\ count = Base + bufferPos
      /\ Base + Len(buffer) = Len(produced) - (IF current = 0 THEN 0 ELSE 1)
  BY DEF CursorInv, StreamOK, CursorTypeOK, Window, Base
<1>2. count \in 0..Len(produced)
  BY <1>1
<1>3. \A i \in 1..Len(produced) : produced[i] \in Token
  BY DEF CursorInv, StreamOK
<1>4. ASSUME NEW k \in 1..Len(snapshots)
      PROVE  snapshots[k] \in Snapshot /\ snapshots[k].count \in 0..Len(produced)
  <2>1. snapshots[k] \in Snapshot
    BY DEF CursorInv, CursorTypeOK
  <2>2. /\ snapshots[k].count \in Nat /\ snapshots[k].pos \in Nat
    BY <2>1 DEF Snapshot
  <2>3. snapshots[k].count = Base + snapshots[k].pos /\ snapshots[k].pos <= bufferPos
    BY DEF CursorInv, Marks
  <2> QED
    BY <1>1, <1>2, <2>1, <2>2, <2>3
<1> QED
  BY <1>1, <1>2, <1>3, <1>4

\* Only the tape grows, and each conjunct speaks of a prefix of it.
LEMMA MarksStable ==
  ASSUME CursorInv, LexToken,
         Base' = Base, bufferPos' \in Nat, bufferPos <= bufferPos', UNCHANGED snapshots
  PROVE  Marks'
<1>1. \A k \in 1..Len(snapshots) :
        /\ snapshots[k] \in Snapshot
        /\ snapshots[k].count \in 0..Len(produced)
        /\ bufferPos \in Nat
  BY TapeFacts
<1>2. \A n \in 0..Len(produced) :
        /\ At(produced', n) = At(produced, n)
        /\ \A s \in Nat : Anchors(text, produced, s, n) => Anchors(text', produced', s, n)
  BY PrefixStable DEF CursorInv
<1>3. \A k \in 1..Len(snapshots) :
        snapshots[k].lastSig \in Nat /\ snapshots[k].pos \in Nat
  BY <1>1 DEF Snapshot
<1>4. ASSUME NEW k \in 1..Len(snapshots)
      PROVE  /\ snapshots[k].count = Base' + snapshots[k].pos
             /\ snapshots[k].pos <= bufferPos'
             /\ snapshots[k].last = At(produced', snapshots[k].count)
             /\ Anchors(text', produced', snapshots[k].lastSig, snapshots[k].count)
  BY <1>1, <1>2, <1>3 DEF CursorInv, Marks
<1> QED
  BY <1>4 DEF CursorInv, Marks

LEMMA FetchesKeeps == CursorInv /\ Fetches => CursorInv'
<1> SUFFICES ASSUME CursorInv, Fetches PROVE CursorInv'
  OBVIOUS
<1>1. /\ LexToken /\ current = 0 /\ current' = lexed + 1
      /\ UNCHANGED <<buffer, bufferPos, snapshots, last, count, lastSig>>
  BY DEF Fetches, cursor
<1>2. StreamOK /\ lexed + 1 # 0 /\ lexed + 1 \in Nat
  BY DEF CursorInv, StreamOK
<1>3. StreamOK'
  BY <1>1, <1>2, LexTokenGrows DEF StreamOK
<1>4. Base' = Base
  <2>1. Len(produced') = Len(produced) + 1
    BY <1>1, <1>2, LexTokenGrows
  <2>2. Len(produced) \in Nat /\ Len(buffer) \in Nat
    BY TapeFacts
  <2> QED
    BY <1>1, <1>2, <2>1, <2>2 DEF Base
<1>5. Window'
  <2>1. ASSUME NEW i \in 1..Len(buffer)
        PROVE  buffer[i] = produced'[Base + i]
    <3>1. Base + i \in 1..Len(produced)
      BY TapeFacts
    <3>2. produced'[Base + i] = produced[Base + i]
      BY <1>1, <1>2, <3>1, LexTokenGrows
    <3> QED
      BY <3>2 DEF CursorInv, Window
  <2> QED
    BY <1>1, <1>2, <1>4, <2>1, LexTokenGrows, TapeFacts DEF CursorInv, Window
<1>6. Marks'
  BY <1>1, <1>4, MarksStable, TapeFacts
<1>7. Follows'
  BY <1>1, <1>2, TapeFacts, PrefixStable DEF CursorInv, CursorTypeOK, Follows
<1> QED
  BY <1>1, <1>3, <1>5, <1>6, <1>7 DEF CursorInv, CursorTypeOK, BufferIsDrained

\* What Append returns.
LEMMA AppendFacts ==
  ASSUME NEW S, NEW s \in Seq(S), NEW e \in S, NEW n \in Nat, Len(s) = n
  PROVE  /\ Append(s, e) \in Seq(S) /\ Len(Append(s, e)) = n + 1
         /\ Append(s, e)[n + 1] = e
         /\ \A i \in 1..n : Append(s, e)[i] = s[i]
OBVIOUS

\* The token behind the buffer moves into it.
LEMMA BufferExtends ==
  ASSUME CursorInv, NEW token \in Token, buffer' = Append(buffer, token), Base' = Base,
         Base + Len(buffer) + 1 = Len(produced'), token = produced'[Len(produced')],
         \A i \in 1..Len(produced) : produced'[i] = produced[i]
  PROVE  /\ buffer' \in Seq(Token) /\ Len(buffer') = Len(buffer) + 1
         /\ \A i \in 1..Len(buffer') : buffer'[i] = produced'[Base' + i]
<1>1. /\ buffer \in Seq(Token) /\ Len(buffer) \in Nat /\ Base \in Nat
      /\ \A i \in 1..Len(buffer) : buffer[i] = produced[Base + i]
      /\ \A i \in 1..Len(buffer) : Base + i \in 1..Len(produced)
  BY TapeFacts DEF CursorInv, CursorTypeOK, Window
<1>2. /\ buffer' \in Seq(Token) /\ Len(buffer') = Len(buffer) + 1
      /\ buffer'[Len(buffer) + 1] = token
      /\ \A i \in 1..Len(buffer) : buffer'[i] = buffer[i]
  BY <1>1, AppendFacts
<1>3. ASSUME NEW i \in 1..(Len(buffer) + 1)
      PROVE  buffer'[i] = produced'[Base + i]
  <2>1. CASE i = Len(buffer) + 1
    <3>1. Base + i = Len(produced')
      BY <1>1, <2>1
    <3> QED
      BY <1>2, <2>1, <3>1
  <2>2. CASE i \in 1..Len(buffer)
    <3>1. buffer'[i] = buffer[i] /\ buffer[i] = produced[Base + i]
      BY <1>1, <1>2, <2>2
    <3>2. produced'[Base + i] = produced[Base + i]
      BY <1>1, <2>2
    <3> QED
      BY <3>1, <3>2
  <2> QED
    BY <1>1, <2>1, <2>2
<1> QED
  BY <1>2, <1>3

LEMMA PullsKeeps == CursorInv /\ Pulls => CursorInv'
<1> SUFFICES ASSUME CursorInv, Pulls PROVE CursorInv'
  OBVIOUS
<1> USE TapeFacts
<1>0. /\ StreamOK
      /\ UNCHANGED <<bufferPos, snapshots, last, count, lastSig>>
  BY DEF CursorInv, Pulls
<1>1. CASE /\ current # 0
           /\ buffer' = Append(buffer, current)
           /\ current' = 0
           /\ UNCHANGED <<text, lexed, produced>>
  <2>1. current \in Token /\ current = produced[Len(produced)]
    BY <1>1 DEF CursorInv, StreamOK, Window, Token
  <2>2. Len(buffer') = Len(buffer) + 1
    BY <1>1, <2>1 DEF CursorInv, CursorTypeOK
  <2>3. Base' = Base
    BY <1>1, <2>2 DEF Base
  <2>4. /\ buffer' \in Seq(Token)
        /\ \A i \in 1..Len(buffer') : buffer'[i] = produced'[Base' + i]
    BY <1>1, <2>1, <2>3, BufferExtends
  <2>5. Window'
    BY <1>0, <1>1, <2>3, <2>4 DEF Window
  <2>6. Marks' /\ Follows'
    BY <1>0, <1>1, <2>3 DEF CursorInv, Marks, Follows
  <2>7. StreamOK' /\ CursorTypeOK'
    BY <1>0, <1>1, <2>2, <2>4 DEF CursorInv, StreamOK, CursorTypeOK
  <2>8. BufferIsDrained'
    BY <1>0, <2>2 DEF BufferIsDrained
  <2> QED
    BY <2>5, <2>6, <2>7, <2>8 DEF CursorInv
<1>2. CASE /\ current = 0
           /\ LexToken
           /\ buffer' = Append(buffer, lexed + 1)
           /\ UNCHANGED current
  <2>1. StreamOK' /\ lexed + 1 \in Token
    BY <1>0, <1>2, LexTokenGrows DEF StreamOK, Token
  <2>2. /\ Len(produced') = Len(produced) + 1 /\ produced'[Len(produced')] = lexed + 1
        /\ \A i \in 1..Len(produced) : produced'[i] = produced[i]
    BY <1>0, <1>2, LexTokenGrows
  <2>3. Len(buffer') = Len(buffer) + 1
    BY <1>2, <2>1 DEF CursorInv, CursorTypeOK
  <2>4. Base' = Base
    BY <1>2, <2>2, <2>3 DEF Base
  <2>5. Base + Len(buffer) + 1 = Len(produced')
    BY <1>2, <2>2
  <2>6. /\ buffer' \in Seq(Token)
        /\ \A i \in 1..Len(buffer') : buffer'[i] = produced'[Base' + i]
    BY <1>2, <2>1, <2>2, <2>4, <2>5, BufferExtends
  <2>7. Window'
    BY <1>0, <1>2, <2>4, <2>6 DEF Window
  <2>8. Marks'
    BY <1>0, <1>2, <2>4, MarksStable
  <2>9. Follows'
    BY <1>0, <1>2, PrefixStable DEF CursorInv, CursorTypeOK, Follows
  <2>10. CursorTypeOK' /\ BufferIsDrained'
    BY <1>0, <2>3, <2>6 DEF CursorInv, CursorTypeOK, BufferIsDrained
  <2> QED
    BY <2>1, <2>7, <2>8, <2>9, <2>10 DEF CursorInv
<1> QED
  BY <1>1, <1>2 DEF Pulls

\* Consuming: the new last token is the one after the tokens consumed before.
LEMMA AdvanceToken ==
  ASSUME CursorInv, Advance
  PROVE  /\ count' = count + 1 /\ count' \in 1..Len(produced')
         /\ last' = produced'[count'] /\ last' \in Token
         /\ lastSig' = IF IsTrivia(last') THEN lastSig ELSE last'
         /\ UNCHANGED <<text, snapshots>>
         /\ StreamOK'
         /\ \A i \in 1..Len(produced) : produced'[i] = produced[i]
         /\ \/ UNCHANGED produced
            \/ LexToken /\ count = Len(produced)
<1> USE TapeFacts
<1>1. CASE Buffered /\ Drain /\ Passed(buffer[bufferPos + 1]) /\ UNCHANGED stream
  <2>1. /\ bufferPos + 1 \in 1..Len(buffer) /\ count + 1 = Base + (bufferPos + 1)
        /\ count + 1 \in 1..Len(produced)
    BY <1>1 DEF Buffered
  <2>2. buffer[bufferPos + 1] = produced[count + 1]
    BY <2>1 DEF CursorInv, Window
  <2> QED
    BY <1>1, <2>1, <2>2 DEF Passed, stream, CursorInv, StreamOK
<1>2. CASE /\ ~Buffered /\ current # 0
           /\ Keep(current) /\ Passed(current)
           /\ current' = 0
           /\ UNCHANGED <<text, lexed, produced>>
  <2>1. count + 1 = Len(produced)
    BY <1>2 DEF Buffered
  <2>2. current = produced[count + 1]
    BY <1>2, <2>1 DEF CursorInv, Window
  <2>3. StreamOK'
    BY <1>2 DEF CursorInv, StreamOK
  <2> QED
    BY <1>2, <2>1, <2>2, <2>3 DEF Passed
<1>3. CASE /\ ~Buffered /\ current = 0
           /\ LexToken
           /\ Keep(lexed + 1) /\ Passed(lexed + 1)
           /\ UNCHANGED current
  <2>1. StreamOK /\ lexed + 1 \in Token /\ count = Len(produced)
    BY <1>3 DEF CursorInv, StreamOK, Token, Buffered
  <2>2. StreamOK'
    BY <1>3, <2>1, LexTokenGrows DEF StreamOK
  <2> QED
    BY <1>3, <2>1, <2>2, LexTokenGrows DEF Passed
<1> QED
  BY <1>1, <1>2, <1>3 DEF Advance

\* The anchor moves with the cursor.
LEMMA AdvanceFollows ==
  ASSUME CursorInv, Advance
  PROVE  Follows'
<1>1. /\ count' = count + 1 /\ count \in 0..Len(produced)
      /\ last' = produced'[count'] /\ last' \in Token
      /\ lastSig' = IF IsTrivia(last') THEN lastSig ELSE last'
      /\ lastSig \in Nat /\ text' = text
      /\ StreamOK' /\ count' \in 1..Len(produced')
      /\ \A i \in 1..count : produced'[i] = produced[i]
  BY AdvanceToken, TapeFacts DEF CursorInv, CursorTypeOK
<1>2. last' = At(produced', count')
  BY <1>1 DEF At
<1>3. Anchors(text, produced, lastSig, count)
  BY DEF CursorInv, Follows
<1> SUFFICES Anchors(text', produced', lastSig', count')
  BY <1>2 DEF Follows
<1>4. CASE IsTrivia(last')
  <2>1. lastSig' = lastSig /\ text[produced'[count']] \in Trivia
    BY <1>1, <1>4 DEF IsTrivia
  <2>2. \A i \in 1..count' : i \in 1..count \/ i = count'
    BY <1>1
  <2>3. lastSig # 0 => text[lastSig] \notin Trivia /\ \E i \in 1..count' : produced'[i] = lastSig
    BY <1>1, <1>3 DEF Anchors
  <2>4. \A i \in 1..count' : produced'[i] > lastSig => text[produced'[i]] \in Trivia
    BY <1>1, <1>3, <2>1, <2>2 DEF Anchors
  <2> QED
    BY <1>1, <2>1, <2>3, <2>4 DEF Anchors
<1>5. CASE ~IsTrivia(last')
  <2>1. lastSig' = last' /\ text[last'] \notin Trivia
    BY <1>1, <1>5 DEF IsTrivia
  <2>2. ASSUME NEW i \in 1..count'
        PROVE  ~(produced'[i] > last')
    <3>1. i \in 1..Len(produced') /\ produced'[i] \in Nat /\ produced'[count'] \in Nat
      BY <1>1 DEF StreamOK, Token
    <3>2. CASE i = count'
      BY <1>1, <3>1, <3>2
    <3>3. CASE i < count'
      BY <1>1, <3>1, <3>3 DEF StreamOK
    <3> QED
      BY <1>1, <3>2, <3>3
  <2> QED
    BY <1>1, <2>1, <2>2 DEF Anchors
<1> QED
  BY <1>4, <1>5

\* The tokens the buffer holds afterwards are still a window of the tape.
LEMMA AdvanceWindow ==
  ASSUME CursorInv, Advance
  PROVE  /\ buffer' \in Seq(Token) /\ bufferPos' \in 0..Len(buffer')
         /\ Window' /\ BufferIsDrained'
         /\ snapshots # <<>> => Base' = Base /\ bufferPos' = bufferPos + 1
<1> USE TapeFacts
<1>0. /\ count' = count + 1 /\ snapshots' = snapshots
      /\ buffer \in Seq(Token) /\ StreamOK
      /\ \A i \in 1..Len(buffer) : buffer[i] = produced[Base + i]
      /\ current # 0 => current = produced[Len(produced)]
      /\ \A i \in 1..Len(produced) : produced'[i] = produced[i]
  BY AdvanceToken DEF CursorInv, CursorTypeOK, Window
<1>1. CASE Buffered /\ Drain /\ Passed(buffer[bufferPos + 1]) /\ UNCHANGED stream
  <2>0. UNCHANGED <<produced, current>>
    BY <1>1 DEF stream
  <2>1. CASE snapshots = <<>> /\ bufferPos + 1 = Len(buffer)
    <3>1. buffer' = <<>> /\ bufferPos' = 0
      BY <1>1, <2>1 DEF Drain
    <3>2. Base' = count'
      BY <1>0, <2>0, <2>1, <3>1 DEF Base
    <3> QED
      BY <1>0, <2>0, <2>1, <3>1, <3>2 DEF Window, BufferIsDrained
  <2>2. CASE ~(snapshots = <<>> /\ bufferPos + 1 = Len(buffer))
    <3>1. buffer' = buffer /\ bufferPos' = bufferPos + 1 /\ bufferPos < Len(buffer)
      BY <1>1, <2>2 DEF Drain, Buffered
    <3>2. Base' = Base
      BY <2>0, <3>1 DEF Base
    <3> QED
      BY <1>0, <2>0, <2>2, <3>1, <3>2 DEF Window, BufferIsDrained
  <2> QED
    BY <2>1, <2>2
<1>2. ASSUME NEW token \in Token, ~Buffered, Keep(token),
             current' = 0, token = produced'[Len(produced')],
             \/ current # 0 /\ Len(produced') = Len(produced)
             \/ current = 0 /\ Len(produced') = Len(produced) + 1
      PROVE  /\ buffer' \in Seq(Token) /\ bufferPos' \in 0..Len(buffer')
             /\ Window' /\ BufferIsDrained'
             /\ snapshots # <<>> => Base' = Base /\ bufferPos' = bufferPos + 1
  <2>0. bufferPos = Len(buffer)
    BY <1>2 DEF Buffered
  <2>1. CASE snapshots = <<>>
    <3>1. buffer' = <<>> /\ bufferPos' = 0 /\ buffer = <<>> /\ bufferPos = 0
      BY <1>0, <1>2, <2>0, <2>1 DEF Keep, CursorInv, BufferIsDrained
    <3>2. Len(produced') = count'
      BY <1>0, <1>2, <3>1 DEF Base
    <3>3. Base' = count' /\ Len(buffer') = 0
      BY <1>2, <3>1, <3>2 DEF Base
    <3> QED
      BY <1>0, <1>2, <2>1, <3>1, <3>3 DEF Window, BufferIsDrained
  <2>2. CASE snapshots # <<>>
    <3>1. buffer' = Append(buffer, token) /\ bufferPos' = bufferPos + 1
      BY <1>2, <2>2 DEF Keep
    <3>2. Len(buffer') = Len(buffer) + 1
      BY <1>0, <1>2, <3>1
    <3>3. Base + Len(buffer) + 1 = Len(produced')
      BY <1>2
    <3>4. Base' = Base
      BY <1>2, <3>2, <3>3 DEF Base
    <3>5. /\ buffer' \in Seq(Token)
          /\ \A i \in 1..Len(buffer') : buffer'[i] = produced'[Base' + i]
      BY <1>0, <1>2, <3>1, <3>3, <3>4, BufferExtends
    <3>6. Base' \in Nat /\ count' = Base' + bufferPos' /\ bufferPos' \in 0..Len(buffer')
      BY <1>0, <2>0, <3>1, <3>2, <3>4
    <3>7. Window'
      BY <1>2, <3>5, <3>6 DEF Window
    <3>8. BufferIsDrained'
      BY <1>0, <2>2 DEF BufferIsDrained
    <3> QED
      BY <3>1, <3>4, <3>5, <3>6, <3>7, <3>8
  <2> QED
    BY <2>1, <2>2
<1>3. CASE /\ ~Buffered /\ current # 0
           /\ Keep(current) /\ Passed(current)
           /\ current' = 0
           /\ UNCHANGED <<text, lexed, produced>>
  <2>1. current \in Token
    BY <1>3 DEF CursorInv, StreamOK, Token
  <2> QED
    BY <1>0, <1>2, <1>3, <2>1
<1>4. CASE /\ ~Buffered /\ current = 0
           /\ LexToken
           /\ Keep(lexed + 1) /\ Passed(lexed + 1)
           /\ UNCHANGED current
  <2>1. /\ lexed + 1 \in Token
        /\ Len(produced') = Len(produced) + 1
        /\ produced'[Len(produced) + 1] = lexed + 1
    BY <1>0, <1>4, LexTokenGrows DEF StreamOK, Token
  <2> QED
    BY <1>2, <1>4, <2>1
<1> QED
  BY <1>1, <1>3, <1>4 DEF Advance

LEMMA AdvanceKeeps == CursorInv /\ Advance => CursorInv'
<1> SUFFICES ASSUME CursorInv, Advance PROVE CursorInv'
  OBVIOUS
<1>1. CursorTypeOK'
  BY AdvanceToken, AdvanceWindow, TapeFacts DEF CursorInv, CursorTypeOK, Token
<1>2. Marks'
  <2>1. CASE snapshots = <<>>
    BY <2>1, AdvanceToken DEF Marks
  <2>2. CASE snapshots # <<>>
    <3>1. /\ Base' = Base /\ bufferPos' = bufferPos + 1 /\ bufferPos \in Nat
          /\ UNCHANGED <<text, snapshots>>
      BY <2>2, AdvanceWindow, AdvanceToken, TapeFacts
    <3>2. CASE UNCHANGED produced
      <4>1. \A k \in 1..Len(snapshots) : snapshots[k].pos \in Nat
        BY TapeFacts DEF Snapshot
      <4> QED
        BY <3>1, <3>2, <4>1 DEF CursorInv, Marks
    <3>3. CASE LexToken
      BY <3>1, <3>3, MarksStable
    <3> QED
      BY <3>2, <3>3, AdvanceToken
  <2> QED
    BY <2>1, <2>2
<1> QED
  BY <1>1, <1>2, AdvanceToken, AdvanceWindow, AdvanceFollows DEF CursorInv

LEMMA OpensKeeps == CursorInv /\ Opens => CursorInv'
<1> SUFFICES ASSUME CursorInv, Opens PROVE CursorInv'
  OBVIOUS
<1> DEFINE mark == [pos |-> bufferPos, last |-> last, count |-> count, lastSig |-> lastSig]
<1>1. /\ snapshots' = Append(snapshots, mark)
      /\ UNCHANGED <<text, lexed, current, produced>>
      /\ UNCHANGED <<buffer, bufferPos, last, count, lastSig>>
  BY DEF Opens, stream
<1>2. StreamOK' /\ CursorTypeOK' /\ Window' /\ Follows' /\ Base' = Base
  BY <1>1 DEF CursorInv, StreamOK, CursorTypeOK, Window, Follows, Base, Snapshot
<1>3. /\ snapshots \in Seq(Snapshot) /\ Len(snapshots') = Len(snapshots) + 1
      /\ snapshots'[Len(snapshots) + 1] = mark
      /\ \A k \in 1..Len(snapshots) : snapshots'[k] = snapshots[k]
  BY <1>1 DEF CursorInv, CursorTypeOK
<1>4. ASSUME NEW k \in 1..Len(snapshots')
      PROVE  /\ snapshots'[k].count = Base + snapshots'[k].pos
             /\ snapshots'[k].pos <= bufferPos /\ snapshots'[k].pos \in Nat
             /\ snapshots'[k].last = At(produced, snapshots'[k].count)
             /\ Anchors(text, produced, snapshots'[k].lastSig, snapshots'[k].count)
  <2>1. CASE k = Len(snapshots) + 1
    BY <1>3, <2>1, TapeFacts DEF CursorInv, Window, Follows
  <2>2. CASE k \in 1..Len(snapshots)
    BY <1>3, <2>2, TapeFacts DEF CursorInv, Marks, Snapshot
  <2> QED
    BY <1>3, <2>1, <2>2
<1>5. ASSUME NEW j \in 1..Len(snapshots'), NEW k \in 1..Len(snapshots'), j < k
      PROVE  snapshots'[j].pos <= snapshots'[k].pos
  <2>1. j \in 1..Len(snapshots)
    BY <1>3, <1>5
  <2>2. CASE k = Len(snapshots) + 1
    BY <1>3, <1>4, <2>1, <2>2
  <2>3. CASE k \in 1..Len(snapshots)
    BY <1>3, <1>5, <2>1, <2>3 DEF CursorInv, Marks
  <2> QED
    BY <1>3, <2>2, <2>3
<1>6. Marks'
  BY <1>1, <1>2, <1>4, <1>5 DEF Marks
<1> QED
  BY <1>1, <1>2, <1>3, <1>6 DEF CursorInv, BufferIsDrained

\* A sequence without its last element.
LEMMA FrontFacts ==
  ASSUME NEW S, NEW s \in Seq(S), NEW n \in Nat, Len(s) = n + 1
  PROVE  /\ SubSeq(s, 1, n) \in Seq(S)
         /\ Len(SubSeq(s, 1, n)) = n
         /\ \A i \in 1..n : SubSeq(s, 1, n)[i] = s[i]
<1>1. \A i \in 1..n : s[i] \in S
  OBVIOUS
<1>2. /\ SubSeq(s, 1, n) \in Seq(S)
      /\ Len(SubSeq(s, 1, n)) = IF 1 <= n THEN n - 1 + 1 ELSE 0
      /\ \A i \in 1..(n - 1 + 1) : SubSeq(s, 1, n)[i] = s[1 + i - 1]
  BY <1>1, SubSeqProperties
<1>3. (IF 1 <= n THEN n - 1 + 1 ELSE 0) = n
  OBVIOUS
<1>4. \A i \in 1..n : i \in 1..(n - 1 + 1) /\ 1 + i - 1 = i
  OBVIOUS
<1> QED
  BY <1>2, <1>3, <1>4

LEMMA PoppedFacts ==
  ASSUME snapshots \in Seq(Snapshot), snapshots # <<>>
  PROVE  /\ Len(snapshots) \in Nat \ {0}
         /\ Popped \in Seq(Snapshot) /\ Len(Popped) = Len(snapshots) - 1
         /\ \A k \in 1..Len(Popped) : Popped[k] = snapshots[k]
<1>1. Len(snapshots) \in Nat \ {0}
  BY EmptySeq
<1>2. PICK n \in Nat : n = Len(snapshots) - 1
  BY <1>1
<1>3. Len(snapshots) = n + 1
  BY <1>1, <1>2
<1>4. Popped = SubSeq(snapshots, 1, n)
  BY <1>2 DEF Popped
<1>5. /\ Popped \in Seq(Snapshot) /\ Len(Popped) = n
      /\ \A k \in 1..n : Popped[k] = snapshots[k]
  BY <1>3, <1>4, FrontFacts
<1> QED
  BY <1>1, <1>2, <1>5

\* A pop that puts the cursor at `from`, and slices the buffer there when no
\* snapshot is left.
LEMMA PopWindow ==
  ASSUME CursorInv, snapshots # <<>>, snapshots' = Popped, UNCHANGED stream,
         NEW from \in 0..bufferPos, Compact(from), count' = Base + from,
         \A k \in 1..Len(snapshots) : k < Len(snapshots) => snapshots[k].pos <= from
  PROVE  /\ buffer' \in Seq(Token) /\ bufferPos' \in 0..Len(buffer')
         /\ snapshots' \in Seq(Snapshot)
         /\ Window' /\ Marks' /\ BufferIsDrained'
<1> USE TapeFacts
<1>0. /\ UNCHANGED <<text, lexed, current, produced>>
      /\ buffer \in Seq(Token) /\ snapshots \in Seq(Snapshot)
      /\ \A i \in 1..Len(buffer) : buffer[i] = produced[Base + i]
      /\ current # 0 => current = produced[Len(produced)]
  BY DEF stream, CursorInv, CursorTypeOK, Window
<1>1. /\ Len(snapshots) \in Nat \ {0}
      /\ Popped \in Seq(Snapshot) /\ Len(Popped) = Len(snapshots) - 1
      /\ \A k \in 1..Len(Popped) : Popped[k] = snapshots[k]
  BY <1>0, PoppedFacts
<1>2. CASE Popped = <<>> /\ buffer # <<>>
  <2>1. buffer' = SubSeq(buffer, from + 1, Len(buffer)) /\ bufferPos' = 0
    BY <1>2 DEF Compact
  <2>2. /\ buffer' \in Seq(Token) /\ Len(buffer') = Len(buffer) - from
        /\ \A i \in 1..Len(buffer') : buffer'[i] = buffer[i + from]
    BY <1>0, <2>1
  <2>3. Base' = Base + from
    BY <1>0, <2>2 DEF Base
  <2>4. ASSUME NEW i \in 1..Len(buffer')
        PROVE  buffer'[i] = produced[Base' + i]
    <3>1. i + from \in 1..Len(buffer) /\ Base' + i = Base + (i + from)
      BY <2>2, <2>3
    <3> QED
      BY <1>0, <2>2, <3>1
  <2>5. Window'
    BY <1>0, <2>1, <2>2, <2>3, <2>4 DEF Window
  <2>6. Marks'
    <3>1. Len(snapshots') = 0
      BY <1>2
    <3> QED
      BY <3>1 DEF Marks
  <2>7. BufferIsDrained'
    BY <2>1, <2>2 DEF BufferIsDrained
  <2> QED
    BY <1>1, <2>1, <2>2, <2>5, <2>6, <2>7
<1>3. CASE ~(Popped = <<>> /\ buffer # <<>>)
  <2>1. buffer' = buffer /\ bufferPos' = from
    BY <1>3 DEF Compact
  <2>2. Base' = Base
    BY <1>0, <2>1 DEF Base
  <2>3. Window'
    <3>1. Base' \in Nat /\ count' = Base' + bufferPos'
      BY <2>1, <2>2
    <3>2. \A i \in 1..Len(buffer') : buffer'[i] = produced'[Base' + i]
      BY <1>0, <2>1, <2>2
    <3>3. current' # 0 => current' = produced'[Len(produced')]
      BY <1>0
    <3> QED
      BY <3>1, <3>2, <3>3 DEF Window
  <2>4. Marks'
    <3>1. ASSUME NEW k \in 1..Len(Popped)
          PROVE  /\ k \in 1..Len(snapshots) /\ k < Len(snapshots)
                 /\ Popped[k] = snapshots[k]
      <4>1. PICK n \in Nat : n = Len(snapshots) - 1
        BY <1>1
      <4>2. Len(snapshots) = n + 1 /\ Len(Popped) = n
        BY <1>1, <4>1
      <4>3. k \in 1..n
        BY <4>2
      <4> QED
        BY <1>1, <4>2, <4>3
    <3> QED
      BY <1>0, <2>1, <2>2, <3>1 DEF CursorInv, Marks
  <2>5. BufferIsDrained'
    BY <1>3, <2>1 DEF BufferIsDrained
  <2> QED
    BY <1>0, <1>1, <2>1, <2>3, <2>4, <2>5
<1> QED
  BY <1>2, <1>3

LEMMA ClosesKeeps == CursorInv /\ Closes => CursorInv'
<1> SUFFICES ASSUME CursorInv, Closes PROVE CursorInv'
  OBVIOUS
<1>1. /\ snapshots # <<>> /\ snapshots' = Popped /\ Compact(bufferPos)
      /\ UNCHANGED <<stream, last, count, lastSig>>
  BY DEF Closes
<1>2. bufferPos \in 0..bufferPos /\ count' = Base + bufferPos
  BY <1>1, TapeFacts
<1>3. \A k \in 1..Len(snapshots) : snapshots[k].pos <= bufferPos
  BY DEF CursorInv, Marks
<1>4. /\ buffer' \in Seq(Token) /\ bufferPos' \in 0..Len(buffer')
      /\ snapshots' \in Seq(Snapshot)
      /\ Window' /\ Marks' /\ BufferIsDrained'
  BY <1>1, <1>2, <1>3, PopWindow
<1> QED
  BY <1>1, <1>4 DEF CursorInv, StreamOK, CursorTypeOK, Follows, stream

LEMMA ReturnsKeeps == CursorInv /\ Returns => CursorInv'
<1> SUFFICES ASSUME CursorInv, Returns PROVE CursorInv'
  OBVIOUS
<1>1. /\ snapshots # <<>> /\ snapshots' = Popped /\ Compact(Top.pos)
      /\ last' = Top.last /\ count' = Top.count /\ lastSig' = Top.lastSig
      /\ UNCHANGED stream
  BY DEF Returns, Restore
<1>2. Len(snapshots) \in 1..Len(snapshots) /\ Top \in Snapshot
  BY <1>1 DEF Top, CursorInv, CursorTypeOK
<1>3. /\ Top.pos \in 0..bufferPos /\ count' = Base + Top.pos
      /\ last' = At(produced, count') /\ Anchors(text, produced, lastSig', count')
      /\ last' \in Nat /\ count' \in Nat /\ lastSig' \in Nat
  BY <1>1, <1>2, TapeFacts DEF Top, CursorInv, Marks, Snapshot
<1>4. \A k \in 1..Len(snapshots) : k < Len(snapshots) => snapshots[k].pos <= Top.pos
  BY <1>2 DEF Top, CursorInv, Marks
<1>5. /\ buffer' \in Seq(Token) /\ bufferPos' \in 0..Len(buffer')
      /\ snapshots' \in Seq(Snapshot)
      /\ Window' /\ Marks' /\ BufferIsDrained'
  BY <1>1, <1>3, <1>4, PopWindow
<1> QED
  BY <1>1, <1>3, <1>5 DEF CursorInv, StreamOK, CursorTypeOK, Follows, stream

-------------------------------------------------------------------------------
(* The inductive invariant.                                                *)

LEMMA InitIInv == Init => IInv
<1> SUFFICES ASSUME Init PROVE IInv
  OBVIOUS
<1>1. Len(text) \in Nat
  BY KindsAssumption DEF Init
<1>2. StreamOK
  BY <1>1 DEF Init, StreamOK
<1>3. CursorTypeOK /\ Window /\ BufferIsDrained
  BY DEF Init, CursorTypeOK, Window, Base, BufferIsDrained
<1>4. Marks /\ Follows
  BY DEF Init, Marks, Follows, At, Anchors
<1>5. ReportsOK
  BY DEF Init, ReportsOK, NoError, Error, Kinds, Idle
<1> QED
  BY <1>2, <1>3, <1>4, <1>5 DEF IInv, CursorInv

LEMMA MovesKeep == CursorInv /\ Moves => CursorInv'
BY StaysKeeps, SkipsKeeps, FetchesKeeps, PullsKeeps, AdvanceKeeps, OpensKeeps,
   ClosesKeeps, ReturnsKeeps DEF Moves

LEMMA StepReports == IInv /\ [Next]_vars => ReportsOK'
<1> SUFFICES ASSUME IInv, [Next]_vars PROVE ReportsOK'
  OBVIOUS
<1> USE DEF ReportsOK, reports, control, Idle
<1>1. lexed \in Nat /\ count \in Nat
  BY KindsAssumption DEF IInv, CursorInv, StreamOK, CursorTypeOK
<1>2. /\ NoError \in Error /\ CroakError \in Error /\ BuiltError \in Error
      /\ LexerError(lexed + 1) \in Error
  BY <1>1 DEF NoError, CroakError, BuiltError, LexerError, Error, Kinds
<1>3. ReportsOK
  BY DEF IInv
<1>4. CASE UNCHANGED <<reports, control>>
  BY <1>3, <1>4
<1>5. CASE FetchThrows \/ PullAheadThrows \/ RelabelThrows
  BY <1>2, <1>3, <1>5 DEF FetchThrows, PullAheadThrows, RelabelThrows
<1>6. CASE UNCHANGED <<reports, thrown>> /\ call' = Idle
  BY <1>3, <1>6
<1>7. CASE StartPeekAhead \/ StartSkipTrivia
  <2>1. 0..MaxAhead \subseteq Nat
    BY FlagsAssumption
  <2> QED
    BY <1>3, <1>7, <2>1 DEF StartPeekAhead, StartSkipTrivia
<1>8. CASE RollBack \/ ThrowBuilt
  BY <1>2, <1>3, <1>8 DEF RollBack, ThrowBuilt
<1>9. CASE Croak \/ Relabel
  BY <1>1, <1>2, <1>3, <1>9 DEF Croak, Relabel, CroakAt
<1>10. CASE Report \/ StartRecover
  BY <1>2, <1>3, <1>10 DEF Report, StartRecover, Record, Clear
<1>11. CASE RecoverLexerError
  BY <1>2, <1>3, <1>11 DEF RecoverLexerError
<1>12. CASE PullAhead \/ FetchHead \/ NextToken \/ TryParse \/ Commit \/ Rethrow
            \/ RecoverSkip \/ Escaped \/ UNCHANGED vars
  BY <1>4, <1>12 DEF PullAhead, FetchHead, NextToken, TryParse, Commit, Rethrow,
                     RecoverSkip, Escaped, vars
<1>13. CASE SkipTrivia \/ RecoverAtSync \/ EndPeekAhead
  BY <1>3, <1>13 DEF SkipTrivia, RecoverAtSync, EndPeekAhead
<1> QED
  BY <1>5, <1>7, <1>8, <1>9, <1>10, <1>11, <1>12, <1>13 DEF Next, LoopStep, ClientStep

\* The invariant the theorems below rest on holds in every reachable state.
THEOREM Invariance == Spec => []IInv
<1>1. Init => IInv
  BY InitIInv
<1>2. IInv /\ [Next]_vars => IInv'
  BY StepsMove, MovesKeep, StepReports DEF IInv
<1> QED
  BY <1>1, <1>2, PTL DEF Spec

-------------------------------------------------------------------------------
(* The theorems about the cursor.                                          *)

LEMMA InvImplies ==
  ASSUME IInv
  PROVE  TypeOK /\ HeadIsNextToken /\ LastSigAnchors /\ LookaheadIsExact /\ BufferIsDrained
<1>0. CursorInv /\ ReportsOK
  BY DEF IInv
<1> USE <1>0, TapeFacts
<1>1. TypeOK
  BY DEF TypeOK, CursorInv, StreamOK, CursorTypeOK, ReportsOK
<1>2. HeadIsNextToken
  <2>1. CASE Buffered
    <3>1. bufferPos + 1 \in 1..Len(buffer) /\ Base + (bufferPos + 1) = count + 1
      BY <2>1 DEF Buffered
    <3>2. Peeked = produced[count + 1] /\ count + 1 \in 1..Len(produced)
      BY <2>1, <3>1 DEF Peeked, CursorInv, Window
    <3> QED
      BY <3>2 DEF HeadIsNextToken, Token
  <2>2. CASE ~Buffered
    <3>1. Peeked = current /\ bufferPos = Len(buffer)
      BY <2>2 DEF Buffered, Peeked
    <3> QED
      BY <3>1 DEF HeadIsNextToken, CursorInv, Window
  <2> QED
    BY <2>1, <2>2
<1>3. LastSigAnchors
  BY DEF LastSigAnchors, CursorInv, Follows, Anchors, IsTrivia
<1>4. LookaheadIsExact
  <2> SUFFICES ASSUME InLoop("peekAhead"), ~WantsMore \/ (current = 0 /\ AtEnd)
               PROVE  IF bufferPos + call.n < Len(buffer)
                      THEN /\ count + call.n < Len(produced)
                           /\ buffer[bufferPos + call.n + 1] = produced[count + call.n + 1]
                      ELSE AtEnd /\ count + call.n >= Len(produced)
    BY DEF LookaheadIsExact
  <2>0. call.n \in Nat
    BY DEF ReportsOK
  <2>1. CASE bufferPos + call.n < Len(buffer)
    <3>1. PICK i \in 1..Len(buffer) : i = bufferPos + call.n + 1
      BY <2>0, <2>1
    <3>2. Base + i \in 1..Len(produced)
      OBVIOUS
    <3>3. Base + i = count + call.n + 1
      BY <2>0, <3>1
    <3>4. buffer[i] = produced[Base + i]
      BY DEF CursorInv, Window
    <3>5. count + call.n < Len(produced)
      BY <2>0, <3>2, <3>3
    <3> QED
      BY <2>1, <3>1, <3>3, <3>4, <3>5
  <2>2. CASE ~(bufferPos + call.n < Len(buffer))
    <3>1. WantsMore
      BY <2>0, <2>2 DEF WantsMore
    <3> QED
      BY <2>0, <2>2, <3>1
  <2> QED
    BY <2>1, <2>2
<1> QED
  BY <1>1, <1>2, <1>3, <1>4 DEF CursorInv

\* Every variable of the context keeps its type; bufferPos stays inside the
\* buffer through every compaction and rollback.
THEOREM TypeCorrect == Spec => []TypeOK
BY Invariance, InvImplies, PTL

\* peek answers the token after the consumed ones, whatever was looked ahead
\* to, replayed or rolled back before (rule.ts: peek, next, tryParse).
THEOREM HeadIsNext == Spec => []HeadIsNextToken
BY Invariance, InvImplies, PTL

\* The anchor of newlineBefore() survives backtracking.
THEOREM AnchorIsRight == Spec => []LastSigAnchors
BY Invariance, InvImplies, PTL

\* peekAhead(n) answers the token n places ahead, or null at the end.
THEOREM LookaheadIsRight == Spec => []LookaheadIsExact
BY Invariance, InvImplies, PTL

\* No drained token stays in the buffer once no tryParse is open.
THEOREM BufferDrains == Spec => []BufferIsDrained
BY Invariance, InvImplies, PTL

-------------------------------------------------------------------------------
(* The context implements the abstract cursor.                             *)

MarksOf(snaps) == [i \in 1..Len(snaps) |-> snaps[i].count]

LEMMA MarksOfSeq ==
  ASSUME NEW snaps \in Seq(Snapshot)
  PROVE  MarksOf(snaps) \in Seq(Nat) /\ Len(MarksOf(snaps)) = Len(snaps)
<1>1. Len(snaps) \in Nat /\ \A i \in 1..Len(snaps) : snaps[i].count \in Nat
  <2>1. Len(snaps) \in Nat /\ \A i \in 1..Len(snaps) : snaps[i] \in Snapshot
    OBVIOUS
  <2> QED
    BY <2>1 DEF Snapshot
<1>2. PICK n \in Nat : n = Len(snaps)
  BY <1>1
<1> QED
  BY <1>1, <1>2 DEF MarksOf

LEMMA MarksOfAppend ==
  ASSUME NEW snaps \in Seq(Snapshot), NEW s \in Snapshot
  PROVE  MarksOf(Append(snaps, s)) = Append(MarksOf(snaps), s.count)
<1> DEFINE longer == Append(snaps, s)
           marks == MarksOf(snaps)
           more == Append(marks, s.count)
<1>0. PICK n \in Nat : Len(snaps) = n
  OBVIOUS
<1>1. /\ longer \in Seq(Snapshot) /\ Len(longer) = n + 1 /\ longer[n + 1] = s
      /\ \A i \in 1..n : longer[i] = snaps[i]
  BY <1>0, AppendFacts
<1>2. marks \in Seq(Nat) /\ Len(marks) = n /\ s.count \in Nat
  <2>1. s.count \in Nat
    BY DEF Snapshot
  <2> QED
    BY <1>0, <2>1, MarksOfSeq
<1>3. /\ more \in Seq(Nat) /\ Len(more) = n + 1 /\ more[n + 1] = s.count
      /\ \A i \in 1..n : more[i] = marks[i]
  BY <1>2, AppendFacts
<1>4. MarksOf(longer) \in Seq(Nat) /\ Len(MarksOf(longer)) = n + 1
  BY <1>1, MarksOfSeq
<1>5. \A i \in 1..(n + 1) : MarksOf(longer)[i] = longer[i].count
  BY <1>1 DEF MarksOf
<1>6. \A i \in 1..n : marks[i] = snaps[i].count
  BY <1>0 DEF MarksOf
<1> HIDE DEF longer, marks, more
<1>7. ASSUME NEW i \in 1..(n + 1) PROVE MarksOf(longer)[i] = more[i]
  <2>1. CASE i = n + 1
    BY <1>1, <1>3, <1>5, <2>1
  <2>2. CASE i \in 1..n
    BY <1>1, <1>3, <1>5, <1>6, <2>2
  <2> QED
    BY <2>1, <2>2
<1>8. MarksOf(longer) = more
  BY <1>3, <1>4, <1>7, SeqEqual
<1> QED
  BY <1>8 DEF longer, marks, more

LEMMA MarksOfPopped ==
  ASSUME snapshots \in Seq(Snapshot), snapshots # <<>>
  PROVE  MarksOf(Popped) = SubSeq(MarksOf(snapshots), 1, Len(MarksOf(snapshots)) - 1)
<1>1. PICK n \in Nat : Len(snapshots) = n + 1
  <2>1. Len(snapshots) \in Nat \ {0}
    BY EmptySeq
  <2> QED
    BY <2>1
<1>2. /\ Popped \in Seq(Snapshot) /\ Len(Popped) = n
      /\ \A k \in 1..n : Popped[k] = snapshots[k]
  BY <1>1, PoppedFacts
<1>3. MarksOf(snapshots) \in Seq(Nat) /\ Len(MarksOf(snapshots)) = n + 1
  BY <1>1, MarksOfSeq
<1>4. /\ SubSeq(MarksOf(snapshots), 1, n) \in Seq(Nat)
      /\ Len(SubSeq(MarksOf(snapshots), 1, n)) = n
      /\ \A k \in 1..n : SubSeq(MarksOf(snapshots), 1, n)[k] = MarksOf(snapshots)[k]
  BY <1>3, FrontFacts
<1>5. MarksOf(Popped) \in Seq(Nat) /\ Len(MarksOf(Popped)) = n
  BY <1>2, MarksOfSeq
<1>6. \A k \in 1..n : MarksOf(Popped)[k] = MarksOf(snapshots)[k]
  BY <1>1, <1>2 DEF MarksOf
<1>7. MarksOf(Popped) = SubSeq(MarksOf(snapshots), 1, n)
  BY <1>4, <1>5, <1>6, SeqEqual
<1> QED
  BY <1>3, <1>7

\* A move of the context is a step of the abstract cursor, or changes nothing
\* the abstract cursor sees.
LEMMA LexTokenRefines == StreamOK /\ LexToken => Cursor!Grows
<1> SUFFICES ASSUME StreamOK, LexToken PROVE Cursor!Grows
  OBVIOUS
<1>1. Len(produced') = Len(produced) + 1 /\ Len(produced) \in Nat
  BY LexTokenGrows DEF StreamOK
<1>2. ASSUME NEW i \in 1..Len(produced)
      PROVE  produced'[i] = produced[i] /\ produced[i] < produced'[Len(produced')]
  <2>1. produced'[i] = produced[i]
    BY LexTokenGrows
  <2>2. i \in 1..Len(produced') /\ Len(produced') \in 1..Len(produced') /\ i < Len(produced')
    BY <1>1
  <2> QED
    BY <2>1, <2>2, LexTokenGrows
<1> QED
  BY <1>1, <1>2 DEF Cursor!Grows

LEMMA AdvanceRefines == CursorInv /\ Advance => Cursor!Consume
<1> SUFFICES ASSUME CursorInv, Advance PROVE Cursor!Consume
  OBVIOUS
<1>1. /\ count' = count + 1 /\ count' \in 1..Len(produced') /\ last' = produced'[count']
      /\ UNCHANGED snapshots
      /\ UNCHANGED produced \/ (LexToken /\ count = Len(produced))
  BY AdvanceToken
<1>2. /\ StreamOK /\ count \in Nat /\ Len(produced) \in Nat
  BY TapeFacts DEF CursorInv
<1>3. CASE UNCHANGED produced
  BY <1>1, <1>2, <1>3 DEF Cursor!Consume
<1>4. CASE LexToken /\ count = Len(produced)
  <2>1. Cursor!Grows
    BY <1>2, <1>4, LexTokenRefines
  <2> QED
    BY <1>1, <1>4, <2>1 DEF Cursor!Consume
<1> QED
  BY <1>1, <1>3, <1>4

LEMMA OpensRefines == CursorInv /\ Opens => Cursor!Mark
<1> SUFFICES ASSUME CursorInv, Opens PROVE Cursor!Mark
  OBVIOUS
<1> DEFINE mark == [pos |-> bufferPos, last |-> last, count |-> count, lastSig |-> lastSig]
<1>1. snapshots \in Seq(Snapshot) /\ mark \in Snapshot /\ mark.count = count
  BY DEF CursorInv, CursorTypeOK, Snapshot
<1>2. snapshots' = Append(snapshots, mark) /\ UNCHANGED <<produced, count, last>>
  BY DEF Opens, stream
<1> HIDE DEF mark
<1>3. MarksOf(snapshots') = Append(MarksOf(snapshots), count)
  <2>1. MarksOf(Append(snapshots, mark)) = Append(MarksOf(snapshots), mark.count)
    BY <1>1, MarksOfAppend
  <2> QED
    BY <1>1, <1>2, <2>1
<1> QED
  BY <1>2, <1>3 DEF Cursor!Mark, MarksOf

LEMMA PopRefines ==
  ASSUME CursorInv, snapshots # <<>>, snapshots' = Popped
  PROVE  /\ MarksOf(snapshots) # <<>>
         /\ MarksOf(snapshots') = SubSeq(MarksOf(snapshots), 1, Len(MarksOf(snapshots)) - 1)
         /\ MarksOf(snapshots)[Len(MarksOf(snapshots))] = Top.count
<1>1. snapshots \in Seq(Snapshot)
  BY DEF CursorInv, CursorTypeOK
<1>2. Len(snapshots) \in Nat \ {0}
  BY <1>1, PoppedFacts
<1>3. MarksOf(snapshots) \in Seq(Nat) /\ Len(MarksOf(snapshots)) = Len(snapshots)
  BY <1>1, MarksOfSeq
<1>4. MarksOf(Popped) = SubSeq(MarksOf(snapshots), 1, Len(MarksOf(snapshots)) - 1)
  BY <1>1, MarksOfPopped
<1>5. MarksOf(snapshots)[Len(snapshots)] = Top.count
  BY <1>2 DEF MarksOf, Top
<1>6. MarksOf(snapshots) # <<>>
  BY <1>2, <1>3
<1> QED
  BY <1>3, <1>4, <1>5, <1>6

LEMMA ClosesRefines == CursorInv /\ Closes => Cursor!Release
<1> SUFFICES ASSUME CursorInv, Closes PROVE Cursor!Release
  OBVIOUS
<1>1. /\ snapshots # <<>> /\ snapshots' = Popped
      /\ UNCHANGED <<produced, count, last>>
  BY DEF Closes, stream
<1> QED
  BY <1>1, PopRefines DEF Cursor!Release, MarksOf

LEMMA ReturnsRefines == CursorInv /\ Returns => Cursor!Rollback
<1> SUFFICES ASSUME CursorInv, Returns PROVE Cursor!Rollback
  OBVIOUS
<1>1. /\ snapshots # <<>> /\ snapshots' = Popped
      /\ last' = Top.last /\ count' = Top.count /\ produced' = produced
  BY DEF Returns, Restore, stream
<1>2. Len(snapshots) \in 1..Len(snapshots)
  BY <1>1, PoppedFacts DEF CursorInv, CursorTypeOK
<1>3. Top.last = At(produced, Top.count)
  BY <1>2 DEF Top, CursorInv, Marks
<1>4. last' = Cursor!At(count')
  BY <1>1, <1>3 DEF At, Cursor!At
<1> QED
  BY <1>1, <1>4, PopRefines DEF Cursor!Rollback, MarksOf

LEMMA MovesRefine == CursorInv /\ Moves => [Cursor!Next]_(Cursor!vars)
<1> SUFFICES ASSUME CursorInv, Moves PROVE [Cursor!Next]_(Cursor!vars)
  OBVIOUS
<1>0. StreamOK
  BY DEF CursorInv
<1>1. CASE Stays \/ Skips
  <2>1. UNCHANGED <<produced, count, snapshots, last>>
    BY <1>1 DEF Stays, Skips, LexError, stream, cursor
  <2> QED
    BY <2>1 DEF Cursor!vars
<1>2. CASE Fetches
  <2>1. LexToken /\ UNCHANGED <<count, snapshots, last>>
    BY <1>2 DEF Fetches, cursor
  <2>2. Cursor!Reveal
    BY <1>0, <2>1, LexTokenRefines DEF Cursor!Reveal
  <2> QED
    BY <2>2 DEF Cursor!Next
<1>3. CASE Pulls
  <2>1. UNCHANGED <<count, snapshots, last>>
    BY <1>3 DEF Pulls
  <2>2. CASE UNCHANGED produced
    BY <2>1, <2>2 DEF Cursor!vars
  <2>3. CASE LexToken
    <3>1. Cursor!Reveal
      BY <1>0, <2>1, <2>3, LexTokenRefines DEF Cursor!Reveal
    <3> QED
      BY <3>1 DEF Cursor!Next
  <2> QED
    BY <1>3, <2>2, <2>3 DEF Pulls
<1>4. CASE Advance
  BY <1>4, AdvanceRefines DEF Cursor!Next
<1>5. CASE Opens
  BY <1>5, OpensRefines DEF Cursor!Next
<1>6. CASE Closes
  BY <1>6, ClosesRefines DEF Cursor!Next
<1>7. CASE Returns
  BY <1>7, ReturnsRefines DEF Cursor!Next
<1> QED
  BY <1>1, <1>2, <1>3, <1>4, <1>5, <1>6, <1>7 DEF Moves

\* The context implements the cursor without buffers: a rule that runs on it
\* cannot tell lookahead, replay and compaction from a plain rewindable tape.
THEOREM Refinement == Spec => CursorSpec
<1>1. Init => Cursor!Init
  <2> SUFFICES ASSUME Init PROVE Cursor!Init
    OBVIOUS
  <2>1. MarksOf(snapshots) = <<>>
    BY DEF Init, MarksOf
  <2> QED
    BY <2>1 DEF Init, Cursor!Init, MarksOf
<1>2. IInv /\ [Next]_vars => [Cursor!Next]_(Cursor!vars)
  BY StepsMove, MovesRefine DEF IInv
<1> QED
  BY <1>1, <1>2, Invariance, PTL DEF Spec, CursorSpec, Cursor!Spec

-------------------------------------------------------------------------------
(* What a step can do to the error in flight and to the collector.         *)

\* Lexes at most one item, and one that is a token.
Reads == text' = text /\ (lexed' = lexed \/ (lexed' = lexed + 1 /\ text[lexed + 1] # Bad))

Ignores == Reads /\ UNCHANGED <<reports, thrown>>
Throws ==
  /\ LexError
  /\ ~FromLexer(thrown)
  /\ thrown' = LexerError(lexed + 1)
  /\ UNCHANGED reports
Croaks == ~FromLexer(thrown) /\ Reads /\ CroakAt
Builds == ~FromLexer(thrown) /\ Reads /\ thrown' \in {NoError, BuiltError} /\ UNCHANGED reports
Records == thrown # NoError /\ Record(thrown) /\ thrown' = NoError /\ UNCHANGED <<text, lexed>>
Collects ==
  /\ LexError
  /\ thrown = NoError /\ thrown' = NoError
  /\ errors' = Append(errors, LexerError(lexed + 1))
  /\ UNCHANGED <<farthest, deepest>>

Meets == Ignores \/ Throws \/ Croaks \/ Builds \/ Records \/ Collects

LEMMA NoErrorIsNoLexers == ~FromLexer(NoError)
BY DEF FromLexer, NoError

LEMMA AdvanceReads == Advance => Reads
BY DEF Advance, LexToken, Reads, stream

LEMMA PeeksRead == Peeks => Reads
BY DEF Peeks, LexToken, Reads, stream

\* Every step meets the errors in one of these ways.
LEMMA StepMeets == [Next]_vars => Meets
<1> USE NoErrorIsNoLexers DEF stream, cursor, reports, control, Meets
<1> SUFFICES ASSUME [Next]_vars PROVE Meets
  OBVIOUS
<1>1. CASE UNCHANGED vars \/ Escaped
  BY <1>1 DEF vars, Escaped, Ignores, Reads
<1>2. CASE FetchHead \/ PullAhead
  BY <1>2 DEF FetchHead, PullAhead, LexToken, Ignores, Reads
<1>3. CASE FetchThrows \/ PullAheadThrows \/ RelabelThrows
  BY <1>3 DEF FetchThrows, PullAheadThrows, InLoop, RelabelThrows, Throws
<1>4. CASE EndPeekAhead \/ StartPeekAhead \/ StartSkipTrivia \/ TryParse \/ Commit \/ Rethrow
  BY <1>4 DEF EndPeekAhead, StartPeekAhead, StartSkipTrivia, TryParse, Commit, Rethrow,
              Ignores, Reads
<1>5. CASE SkipTrivia \/ RecoverAtSync \/ RecoverSkip \/ NextToken
  <2>1. (Advance \/ UNCHANGED stream) /\ UNCHANGED <<reports, thrown>>
    BY <1>5 DEF SkipTrivia, RecoverAtSync, RecoverSkip, NextToken
  <2> QED
    BY <2>1, AdvanceReads DEF Ignores, Reads
<1>6. CASE RollBack \/ ThrowBuilt
  BY <1>6 DEF RollBack, ThrowBuilt, InClient, Builds, Reads
<1>7. CASE Croak \/ Relabel
  <2>1. ~FromLexer(thrown) /\ CroakAt
    BY <1>7 DEF Croak, Relabel, InClient
  <2> QED
    BY <2>1, PeeksRead DEF CroakAt, Croaks
<1>8. CASE Report \/ StartRecover
  BY <1>8 DEF Report, StartRecover, Records
<1>9. CASE RecoverLexerError
  BY <1>9 DEF RecoverLexerError, InLoop, Collects
<1> QED
  BY <1>1, <1>2, <1>3, <1>4, <1>5, <1>6, <1>7, <1>8, <1>9 DEF Next, LoopStep, ClientStep

-------------------------------------------------------------------------------
(* No error of the lexer is lost or recorded twice.                        *)

Collected(error) == \E j \in 1..Len(errors) : errors[j] = error

Surfaced == \A i \in 1..lexed : text[i] = Bad => thrown = LexerError(i) \/ Collected(LexerError(i))

Once == \A j, k \in 1..Len(errors) : errors[j].kind = "lexer" /\ errors[j] = errors[k] => j = k

\* An error of the lexer names an item it has consumed, so the next one is new;
\* the mark, which a record may put in an error's place, is never one.
Past ==
  /\ \A j \in 1..Len(errors) : errors[j].kind = "lexer" => errors[j].item <= lexed
  /\ thrown.kind = "lexer" => thrown.item <= lexed /\ ~Collected(thrown)
  /\ farthest.kind # "lexer"

SurfaceInv == Propagate => Surfaced /\ Once /\ Past

\* What the collector holds once an error is added.
LEMMA CollectorGrows ==
  ASSUME errors \in Seq(Error), NEW error \in Error, errors' = Append(errors, error)
  PROVE  /\ Len(errors) \in Nat /\ Len(errors') = Len(errors) + 1
         /\ errors'[Len(errors) + 1] = error
         /\ \A j \in 1..Len(errors) : errors'[j] = errors[j]
         /\ \A e : Collected(e)' <=> Collected(e) \/ e = error
<1>1. PICK n \in Nat : n = Len(errors)
  OBVIOUS
<1>2. /\ Len(errors') = n + 1 /\ errors'[n + 1] = error
      /\ \A j \in 1..n : errors'[j] = errors[j]
  BY <1>1, AppendFacts
<1>3. ASSUME NEW e PROVE (\E j \in 1..(n + 1) : errors'[j] = e)
                           <=> (\E j \in 1..n : errors[j] = e) \/ e = error
  <2>1. ASSUME NEW j \in 1..(n + 1), errors'[j] = e
        PROVE (\E k \in 1..n : errors[k] = e) \/ e = error
    <3>1. j = n + 1 \/ j \in 1..n
      OBVIOUS
    <3> QED
      BY <1>2, <2>1, <3>1
  <2>2. ASSUME NEW j \in 1..n, errors[j] = e
        PROVE \E k \in 1..(n + 1) : errors'[k] = e
    <3>1. j \in 1..(n + 1)
      OBVIOUS
    <3> QED
      BY <1>2, <2>2, <3>1
  <2>3. n + 1 \in 1..(n + 1)
    OBVIOUS
  <2> QED
    BY <1>2, <2>1, <2>2, <2>3
<1> QED
  BY <1>1, <1>2, <1>3 DEF Collected

\* A lexer error that is new to the collector keeps it free of duplicates.
LEMMA CollectorKeepsOnce ==
  ASSUME errors \in Seq(Error), NEW error \in Error, errors' = Append(errors, error),
         Once, error.kind = "lexer" => ~Collected(error)
  PROVE  Once'
<1>1. PICK n \in Nat : n = Len(errors)
  OBVIOUS
<1>2. /\ Len(errors') = n + 1 /\ errors'[n + 1] = error
      /\ \A j \in 1..n : errors'[j] = errors[j]
  BY <1>1, CollectorGrows
<1>3. \A j, k \in 1..n : errors[j].kind = "lexer" /\ errors[j] = errors[k] => j = k
  BY <1>1 DEF Once
<1>4. error.kind = "lexer" => \A j \in 1..n : errors[j] # error
  BY <1>1 DEF Collected
<1>5. ASSUME NEW j \in 1..(n + 1), NEW k \in 1..(n + 1),
             errors'[j].kind = "lexer", errors'[j] = errors'[k]
      PROVE  j = k
  <2>1. (j = n + 1 \/ j \in 1..n) /\ (k = n + 1 \/ k \in 1..n)
    OBVIOUS
  <2> QED
    BY <1>2, <1>3, <1>4, <1>5, <2>1
<1> QED
  BY <1>2, <1>5 DEF Once

LEMMA SurfaceStep ==
  ASSUME IInv, SurfaceInv, [Next]_vars
  PROVE  SurfaceInv'
<1> SUFFICES ASSUME Propagate, Surfaced, Once, Past
             PROVE  Surfaced' /\ Once' /\ Past'
  BY DEF SurfaceInv
<1>1. /\ lexed \in Nat /\ errors \in Seq(Error) /\ thrown \in Error /\ farthest \in Error
      /\ count \in Nat
  BY KindsAssumption DEF IInv, CursorInv, CursorTypeOK, StreamOK, ReportsOK
<1>2. \A e \in Error : e.item \in Nat
  BY DEF Error
<1>3. FromLexer(thrown) <=> thrown.kind = "lexer"
  BY DEF FromLexer
<1>4. \A j \in 1..Len(errors) : errors[j] \in Error
  BY <1>1
<1>5. Reads => lexed' \in Nat /\ lexed <= lexed'
               /\ \A i \in 1..lexed' : text'[i] = Bad => i \in 1..lexed /\ text[i] = Bad
  BY <1>1 DEF Reads
<1>6. LexError => /\ text' = text /\ lexed' = lexed + 1
                  /\ \A i \in 1..lexed' : i = lexed + 1 \/ i \in 1..lexed
  BY <1>1 DEF LexError
<1>7. LexerError(lexed + 1) \in Error /\ ~Collected(LexerError(lexed + 1))
  <2>1. LexerError(lexed + 1) \in Error
    BY <1>1 DEF LexerError, Error, Kinds
  <2>2. LexerError(lexed + 1).kind = "lexer" /\ LexerError(lexed + 1).item = lexed + 1
    BY DEF LexerError
  <2>3. ASSUME NEW j \in 1..Len(errors), errors[j] = LexerError(lexed + 1) PROVE FALSE
    BY <1>1, <2>2, <2>3 DEF Past
  <2> QED
    BY <2>1, <2>3 DEF Collected
<1>8. ASSUME thrown.kind # "lexer"
      PROVE  \A i \in 1..lexed : text[i] = Bad => Collected(LexerError(i))
  <2>1. \A i \in 1..lexed : LexerError(i).kind = "lexer"
    BY DEF LexerError
  <2> QED
    BY <1>8, <2>1 DEF Surfaced
<1>9. CASE Ignores
  BY <1>1, <1>2, <1>4, <1>5, <1>9 DEF Ignores, reports, Surfaced, Once, Past, Collected
<1>10. CASE Throws
  <2>1. thrown.kind # "lexer" /\ thrown' = LexerError(lexed + 1) /\ errors' = errors
        /\ farthest' = farthest /\ farthest.kind # "lexer"
    BY <1>3, <1>10 DEF Throws, reports, Past
  <2>2. text' = text /\ lexed' = lexed + 1
        /\ \A i \in 1..lexed' : i = lexed + 1 \/ i \in 1..lexed
    BY <1>6, <1>10 DEF Throws
  <2>3. Surfaced'
    BY <1>8, <2>1, <2>2 DEF Surfaced, Collected, LexerError
  <2>4. Once'
    BY <2>1 DEF Once
  <2>5. (thrown.item <= lexed /\ ~Collected(thrown))'
    <3>1. thrown'.item = lexed + 1
      BY <2>1 DEF LexerError
    <3>2. \A j \in 1..Len(errors') : errors'[j] # thrown'
      BY <1>7, <2>1 DEF Collected
    <3> QED
      BY <1>1, <2>2, <3>1, <3>2 DEF Collected
  <2>6. ASSUME NEW j \in 1..Len(errors), errors[j].kind = "lexer"
        PROVE  errors[j].item <= lexed + 1
    BY <1>1, <1>2, <1>4, <2>6 DEF Past
  <2> QED
    BY <2>1, <2>2, <2>3, <2>4, <2>5, <2>6 DEF Past
<1>11. CASE Croaks \/ Builds
  <2>1. /\ thrown.kind # "lexer" /\ errors' = errors /\ thrown'.kind # "lexer"
        /\ farthest'.kind # "lexer" /\ Reads
    BY <1>3, <1>11 DEF Croaks, Builds, CroakAt, reports, NoError, BuiltError, CroakError, Past
  <2> QED
    BY <1>1, <1>2, <1>4, <1>5, <1>8, <2>1 DEF Surfaced, Once, Past, Collected, LexerError
<1>12. CASE Records
  <2> DEFINE error == IF Deeper(thrown) THEN farthest ELSE thrown
  <2>1. /\ errors' = Append(errors, error) /\ farthest' = NoError /\ thrown' = NoError
        /\ text' = text /\ lexed' = lexed
    BY <1>12 DEF Records, Record, Clear
  <2>2. /\ error \in Error /\ (error.kind = "lexer" => error = thrown)
        /\ (thrown.kind = "lexer" => error = thrown)
    BY <1>1 DEF Deeper, Stamped, Past
  <2> HIDE DEF error
  <2>3. /\ Len(errors) \in Nat /\ Len(errors') = Len(errors) + 1
        /\ errors'[Len(errors) + 1] = error
        /\ \A j \in 1..Len(errors) : errors'[j] = errors[j]
        /\ \A e : Collected(e)' <=> Collected(e) \/ e = error
    BY <1>1, <2>1, <2>2, CollectorGrows
  <2>4. Once'
    BY <1>1, <2>1, <2>2, CollectorKeepsOnce DEF Past
  <2>5. Surfaced'
    <3>1. ASSUME NEW i \in 1..lexed, text[i] = Bad PROVE Collected(LexerError(i))'
      <4>1. LexerError(i).kind = "lexer"
        BY DEF LexerError
      <4>2. thrown = LexerError(i) \/ Collected(LexerError(i))
        BY <3>1 DEF Surfaced
      <4>3. Collected(LexerError(i))' <=> Collected(LexerError(i)) \/ LexerError(i) = error
        BY <2>3 DEF Collected, LexerError
      <4> QED
        BY <2>2, <4>1, <4>2, <4>3
    <3> QED
      BY <2>1, <3>1 DEF Surfaced
  <2>6. ASSUME NEW j \in 1..Len(errors'), errors'[j].kind = "lexer"
        PROVE  errors'[j].item <= lexed
    <3>1. j = Len(errors) + 1 \/ j \in 1..Len(errors)
      BY <2>3
    <3> QED
      BY <2>2, <2>3, <2>6, <3>1 DEF Past
  <2> QED
    BY <2>1, <2>4, <2>5, <2>6 DEF Past, NoError
<1>13. CASE Collects
  <2> DEFINE error == LexerError(lexed + 1)
  <2>1. /\ errors' = Append(errors, error) /\ farthest' = farthest
        /\ thrown = NoError /\ thrown' = NoError
        /\ text' = text /\ lexed' = lexed + 1
        /\ \A i \in 1..lexed' : i = lexed + 1 \/ i \in 1..lexed
    BY <1>6, <1>13 DEF Collects
  <2>2. error \in Error /\ ~Collected(error) /\ error.item = lexed + 1
    BY <1>7 DEF LexerError
  <2> HIDE DEF error
  <2>3. /\ Len(errors) \in Nat /\ Len(errors') = Len(errors) + 1
        /\ errors'[Len(errors) + 1] = error
        /\ \A j \in 1..Len(errors) : errors'[j] = errors[j]
        /\ \A e : Collected(e)' <=> Collected(e) \/ e = error
    BY <1>1, <2>1, <2>2, CollectorGrows
  <2>4. Once'
    BY <1>1, <2>1, <2>2, CollectorKeepsOnce
  <2>5. Surfaced'
    <3>1. ASSUME NEW i \in 1..lexed', text[i] = Bad PROVE Collected(LexerError(i))'
      <4>1. Collected(LexerError(i))' <=> Collected(LexerError(i)) \/ LexerError(i) = error
        BY <2>3 DEF Collected, LexerError
      <4>2. CASE i = lexed + 1
        BY <4>1, <4>2 DEF error
      <4>3. CASE i \in 1..lexed
        <5>1. thrown.kind # "lexer"
          BY <2>1 DEF NoError
        <5> QED
          BY <1>8, <3>1, <4>1, <4>3, <5>1
      <4> QED
        BY <2>1, <4>2, <4>3
    <3> QED
      BY <2>1, <3>1 DEF Surfaced
  <2>6. ASSUME NEW j \in 1..Len(errors'), errors'[j].kind = "lexer"
        PROVE  errors'[j].item <= lexed'
    <3>1. j = Len(errors) + 1 \/ j \in 1..Len(errors)
      BY <2>3
    <3>2. CASE j = Len(errors) + 1
      BY <1>1, <2>1, <2>2, <2>3, <3>2
    <3>3. CASE j \in 1..Len(errors)
      BY <1>1, <1>2, <1>4, <2>1, <2>3, <2>6, <3>3 DEF Past
    <3> QED
      BY <3>1, <3>2, <3>3
  <2> QED
    BY <2>1, <2>4, <2>5, <2>6 DEF Past, NoError
<1> QED
  BY StepMeets, <1>9, <1>10, <1>11, <1>12, <1>13 DEF Meets

LEMMA SurfaceInit == Init => SurfaceInv
BY KindsAssumption DEF Init, SurfaceInv, Surfaced, Once, Past, Collected, NoError

LEMMA SurfaceImplies == SurfaceInv => LexerErrorsSurface
BY DEF SurfaceInv, Surfaced, Once, Collected, LexerErrorsSurface

\* With propagateLexerErrors each item the lexer could not read is in the
\* diagnostics exactly once or in flight, through every branch, label, record
\* and recovery of any client (rule.ts: tryParse, record, report, recover).
THEOREM NoLexerErrorIsLost == Spec => []LexerErrorsSurface
<1>1. IInv /\ SurfaceInv /\ [Next]_vars => SurfaceInv'
  BY SurfaceStep
<1> QED
  BY <1>1, SurfaceInit, SurfaceImplies, Invariance, PTL DEF Spec

-------------------------------------------------------------------------------
(* What is recorded is the deepest failure.                                *)

\* The mark is the deepest croak since the last record, and what is in flight
\* is no deeper.
MarkInv ==
  /\ deepest = -1 <=> farthest = NoError
  /\ farthest # NoError => Stamped(farthest) /\ farthest.consumed = deepest
  /\ Stamped(thrown) => farthest # NoError /\ thrown.consumed <= deepest

LEMMA MarkStep ==
  ASSUME IInv, MarkInv, [Next]_vars
  PROVE  MarkInv'
<1>1. /\ thrown \in Error /\ farthest \in Error /\ count \in Nat /\ deepest \in Nat \cup {-1}
  BY DEF IInv, CursorInv, CursorTypeOK, ReportsOK
<1>2. \A e \in Error : e.consumed \in Nat
  BY DEF Error
<1>3. CASE Ignores
  BY <1>3 DEF Ignores, reports, MarkInv, Stamped
<1>4. CASE Throws \/ Builds
  BY <1>4 DEF Throws, Builds, reports, MarkInv, Stamped, LexerError, NoError, BuiltError
<1>5. CASE Croaks
  <2>1. Stamped(CroakError) /\ CroakError.consumed = count /\ CroakError # NoError
    BY DEF CroakError, NoError, Stamped
  <2>2. /\ thrown' = CroakError
        /\ farthest' = IF farthest = NoError \/ count > farthest.consumed
                       THEN CroakError ELSE farthest
        /\ deepest' = IF count > deepest THEN count ELSE deepest
    BY <1>5 DEF Croaks, CroakAt
  <2>3. CASE farthest = NoError
    BY <1>1, <2>1, <2>2, <2>3 DEF MarkInv
  <2>4. CASE farthest # NoError
    <3>1. farthest.consumed = deepest /\ deepest \in Nat /\ Stamped(farthest)
      BY <1>1, <1>2, <2>4 DEF MarkInv
    <3>2. CASE count > deepest
      BY <1>1, <2>1, <2>2, <3>1, <3>2 DEF MarkInv
    <3>3. CASE ~(count > deepest)
      BY <1>1, <2>1, <2>2, <2>4, <3>1, <3>3 DEF MarkInv
    <3> QED
      BY <3>2, <3>3
  <2> QED
    BY <2>3, <2>4
<1>6. CASE Records
  BY <1>6 DEF Records, Record, Clear, MarkInv, Stamped, NoError
<1>7. CASE Collects
  BY <1>7 DEF Collects, MarkInv, Stamped
<1> QED
  BY StepMeets, <1>3, <1>4, <1>5, <1>6, <1>7 DEF Meets

\* An error recorded in place of a shallower one is as deep as the mark.
LEMMA RecordsDeepest ==
  ASSUME IInv, MarkInv, [Next]_vars, PreferFarthest, Stamped(thrown),
         Len(errors') > Len(errors)
  PROVE  errors'[Len(errors')].consumed = deepest
<1>1. /\ thrown \in Error /\ farthest \in Error /\ errors \in Seq(Error)
  BY DEF IInv, ReportsOK
<1>2. Len(errors) \in Nat /\ thrown.consumed \in Nat
  BY <1>1 DEF Error
<1>3. errors' # errors /\ thrown # NoError
  BY <1>2 DEF Stamped, NoError
<1>4. Records
  BY <1>3, StepMeets DEF Meets, Ignores, Throws, Croaks, CroakAt, Builds, Collects, reports
<1> DEFINE error == IF Deeper(thrown) THEN farthest ELSE thrown
<1>5. error \in Error /\ errors' = Append(errors, error)
  BY <1>1, <1>4 DEF Records, Record
<1>6. error.consumed = deepest
  <2>1. farthest # NoError /\ farthest.consumed = deepest /\ thrown.consumed <= deepest
    BY DEF MarkInv
  <2>2. farthest.consumed \in Nat
    BY <1>1 DEF Error
  <2> QED
    BY <1>2, <2>1, <2>2 DEF Deeper
<1> HIDE DEF error
<1>7. errors'[Len(errors')] = error
  BY <1>1, <1>5, CollectorGrows
<1> QED
  BY <1>6, <1>7

\* With preferFarthest a recorded failure of a rule is as deep as the deepest
\* failure since the record before it (rule.ts: croak, record).
THEOREM RecordsTheDeepest == Spec => RecordedIsDeepest
<1>1. Init => MarkInv
  BY DEF Init, MarkInv, Stamped, NoError
<1>2. IInv /\ MarkInv /\ [Next]_vars => MarkInv'
  BY MarkStep
<1>3. IInv /\ MarkInv /\ [Next]_vars =>
        [PreferFarthest /\ Stamped(thrown) /\ Len(errors') > Len(errors)
           => errors'[Len(errors')].consumed = deepest]_vars
  BY RecordsDeepest
<1> QED
  BY <1>1, <1>2, <1>3, Invariance, PTL DEF Spec, RecordedIsDeepest
================================================================================
