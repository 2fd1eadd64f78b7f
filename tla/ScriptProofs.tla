----------------------------- MODULE ScriptProofs -----------------------------
(***************************************************************************)
(* The script lexer and splitPsqlScript frame the statements of a script   *)
(* alike, whatever grammar derives them; and a grammar of which every rule,*)
(* taken by itself, can be read by looking k tokens ahead is read as it    *)
(* was derived, however long a text of it is.                              *)
(***************************************************************************)
EXTENDS Prediction, TLAPS

\* The letters of the words that may lead a routine, or none.
HeadLetters == {"", "c", "o", "r", "f", "p"}

LeadingWords == {heads \in Seq(HeadLetters) : Len(heads) <= 4}

Routines == [heads : LeadingWords, depth : Nat, parens : Nat]

Copies(texts) ==
  [leading : BOOLEAN, isCopy : BOOLEAN, depth : Nat, previous : texts,
   afterDot : BOOLEAN, located : BOOLEAN, copyIn : BOOLEAN]

Splits(texts) ==
  [parenDepth : Nat, beginDepth : Nat, words : LeadingWords,
   firstWord : texts, prevTopWord : texts, copyIn : BOOLEAN]

\* The state, where the words seen so far are of these texts: nothing is closed that
\* was not opened, and no more than four words are kept.
FramingTypeOK(texts) ==
  /\ "" \in texts
  /\ routine \in Routines
  /\ copying \in Copies(texts)
  /\ dataPending \in BOOLEAN
  /\ splitter \in Splits(texts)
  /\ apart \in BOOLEAN

\* Only a routine has blocks, and a COPY has none, whatever words it has: the first
\* semicolon that the lexer sees in it ends it, and the rows begin behind that one.
BlocksAreOfRoutines == routine.depth > 0 => inRoutine(routine.heads) /\ ~copying.isCopy

\* Between statements nothing is left of the last one.
StartsAfresh == copying.leading => routine = NewRoutine /\ copying = NewStatement

\* A COPY has a first word that leads no routine.
LedByCopy == copying.isCopy => routine.heads # <<>> /\ routine.heads[1] = ""

\* Up to its location a COPY is followed by three counts of parentheses.
CountsAlike ==
  ~apart /\ Tracks(copying) =>
    /\ copying.depth = routine.parens
    /\ copying.previous = "from" => splitter.prevTopWord = "from"

\* The splitter knows that it reads a COPY.
CopiesAlike == ~apart /\ copying.isCopy => splitter.firstWord = "copy"

FramingInv(texts) ==
  /\ FramingTypeOK(texts)
  /\ FramesAlike
  /\ RowsAreSplit
  /\ BlocksAreOfRoutines
  /\ StartsAfresh
  /\ LedByCopy
  /\ CountsAlike
  /\ CopiesAlike

USE DEF Routines, Copies, Splits

-------------------------------------------------------------------------------
(* The words that lead, and what is counted.                               *)

\* The words that are looked at are among psql's, or none.
LEMMA HeadIsLetter ==
  ASSUME NEW word
  PROVE  Head1(word) \in HeadLetters
<1>1. CASE word \notin DOMAIN ROUTINE_HEAD_WORDS
  BY <1>1 DEF Head1, HeadLetters
<1>2. CASE word \in DOMAIN ROUTINE_HEAD_WORDS
  <2>1. word \in {"create", "or", "replace", "function", "procedure"}
    BY <1>2 DEF ROUTINE_HEAD_WORDS
  <2>2. /\ ROUTINE_HEAD_WORDS["create"] = "c" /\ ROUTINE_HEAD_WORDS["or"] = "o"
        /\ ROUTINE_HEAD_WORDS["replace"] = "r" /\ ROUTINE_HEAD_WORDS["function"] = "f"
        /\ ROUTINE_HEAD_WORDS["procedure"] = "p"
    BY DEF ROUTINE_HEAD_WORDS
  <2>3. ROUTINE_HEAD_WORDS[word] \in HeadLetters
    BY <2>1, <2>2 DEF HeadLetters
  <2> QED
    BY <1>2, <2>3 DEF Head1
<1> QED
  BY <1>1, <1>2

LEMMA CopyLeadsNoRoutine == Head1("copy") = ""
BY DEF Head1, ROUTINE_HEAD_WORDS

LEMMA NoWordsLead == <<>> \in LeadingWords
BY DEF LeadingWords

\* A further word is kept behind those before it, or not at all.
LEMMA WordsAreKept ==
  ASSUME NEW heads \in LeadingWords, NEW word
  PROVE  /\ WithHead(heads, word) \in LeadingWords
         /\ WithHead(heads, word) # <<>>
         /\ heads = <<>> => WithHead(heads, word)[1] = Head1(word)
         /\ heads # <<>> => WithHead(heads, word)[1] = heads[1]
BY HeadIsLetter DEF WithHead, LeadingWords

LEMMA RoutinesAreCreated ==
  ASSUME NEW heads \in LeadingWords, inRoutine(heads)
  PROVE  heads # <<>> /\ heads[1] = "c"
<1>1. PICK kind \in {"f", "p"} : IsPrefix(<<"c", kind>>, heads) \/ heads = <<"c", "o", "r", kind>>
  BY DEF inRoutine
<1>2. CASE heads = <<"c", "o", "r", kind>>
  BY <1>2
<1>3. CASE IsPrefix(<<"c", kind>>, heads)
  BY <1>3 DEF IsPrefix, LeadingWords
<1> QED
  BY <1>1, <1>2, <1>3

\* What is a routine stays one.
LEMMA RoutinesStay ==
  ASSUME NEW heads \in LeadingWords, NEW word, inRoutine(heads)
  PROVE  inRoutine(WithHead(heads, word))
<1>1. PICK kind \in {"f", "p"} : IsPrefix(<<"c", kind>>, heads) \/ heads = <<"c", "o", "r", kind>>
  BY DEF inRoutine
<1>2. CASE heads = <<"c", "o", "r", kind>>
  BY <1>1, <1>2 DEF WithHead, inRoutine
<1>3. CASE IsPrefix(<<"c", kind>>, heads)
  <2>1. IsPrefix(<<"c", kind>>, WithHead(heads, word))
    BY <1>3 DEF IsPrefix, WithHead, LeadingWords
  <2> QED
    BY <2>1 DEF inRoutine
<1> QED
  BY <1>1, <1>2, <1>3

\* Nothing is closed that is not open; only a CASE or a BEGIN opens a block.
LEMMA CountsAreNat ==
  ASSUME NEW count \in Nat, NEW next
  PROVE  Opened(count, next) \in Nat /\ Counted(count, next) \in Nat
BY DEF Opened, Counted

LEMMA NoneIsOpen ==
  ASSUME NEW count \in Nat
  PROVE  count > 0 <=> count # 0
OBVIOUS

-------------------------------------------------------------------------------
(* The initial state and the steps.                                        *)

LEMMA StartsRight == NewScript => FramingInv({""})
<1> SUFFICES ASSUME NewScript
             PROVE  FramingInv({""})
  OBVIOUS
<1> USE DEF NewScript
<1>1. FramingTypeOK({""})
  <2>1. NewRoutine \in Routines
    BY DEF NewRoutine, LeadingWords
  <2>2. <<>> \in LeadingWords
    BY NoWordsLead
  <2> QED
    BY <2>1, <2>2 DEF NewStatement, NewSplit, FramingTypeOK
<1>2. FramesAlike /\ RowsAreSplit
  BY DEF NewRoutine, NewStatement, NewSplit, FramesAlike, RowsAreSplit
<1>3. BlocksAreOfRoutines /\ StartsAfresh
  BY DEF NewRoutine, BlocksAreOfRoutines, StartsAfresh
<1>4. LedByCopy /\ CountsAlike /\ CopiesAlike
  BY DEF NewStatement, LedByCopy, CountsAlike, CopiesAlike, Tracks
<1> QED
  BY <1>1, <1>2, <1>3, <1>4 DEF FramingInv

\* A further word does no harm.
LEMMA TextsMayBeMore ==
  ASSUME NEW texts, NEW more, texts \subseteq more, FramingInv(texts)
  PROVE  FramingInv(more)
<1>1. FramingTypeOK(more)
  BY DEF FramingInv, FramingTypeOK
<1> QED
  BY <1>1 DEF FramingInv

LEMMA NothingIsLeft ==
  ASSUME NEW texts, FramingInv(texts), copying.leading
  PROVE  /\ copying.depth = 0 /\ copying.previous = "" /\ ~copying.isCopy /\ ~copying.copyIn
         /\ routine.heads = <<>> /\ routine.depth = 0 /\ routine.parens = 0
<1>1. copying = NewStatement /\ routine = NewRoutine
  BY DEF FramingInv, StartsAfresh
<1>2. copying.depth = 0 /\ copying.previous = "" /\ ~copying.isCopy /\ ~copying.copyIn
  BY <1>1 DEF NewStatement
<1>3. routine.heads = <<>> /\ routine.depth = 0 /\ routine.parens = 0
  BY <1>1 DEF NewRoutine
<1> QED
  BY <1>2, <1>3

\* The invariant does not depend on the rows that are pending.
LEMMA RowsKeep ==
  ASSUME NEW texts, FramingInv(texts), UNCHANGED <<routine, copying, splitter, apart>>,
         dataPending' \in BOOLEAN
  PROVE  FramingInv(texts)'
<1>1. FramingTypeOK(texts)'
  BY DEF FramingInv, FramingTypeOK
<1>2. FramesAlike' /\ RowsAreSplit' /\ BlocksAreOfRoutines' /\ StartsAfresh'
  BY DEF FramingInv, FramesAlike, RowsAreSplit, BlocksAreOfRoutines, StartsAfresh
<1>3. LedByCopy' /\ CountsAlike' /\ CopiesAlike'
  BY DEF FramingInv, LedByCopy, CountsAlike, CopiesAlike
<1> QED
  BY <1>1, <1>2, <1>3 DEF FramingInv

\* What the lexer makes of a token that does not end the statement, about a COPY.
LEMMA TrackStep ==
  ASSUME NEW texts, FramingInv(texts), NEW next, next.value \in texts, copying' = trackCopy(next)
  PROVE  /\ copying' \in Copies(texts) /\ ~copying'.leading
         /\ copying'.isCopy => copying.isCopy \/ (copying.leading /\ next = Word("copy"))
         /\ copying'.copyIn => copying.copyIn \/ /\ Tracks(copying) /\ copying.previous = "from"
                                                 /\ copying.depth = 0
                                                 /\ next.type = "ident" /\ next.value = "stdin"
         /\ Tracks(copying') =>
              /\ Tracks(copying) \/ copying.leading
              /\ copying'.depth = Opened(copying.depth, next)
              /\ copying'.previous = "from" =>
                   \/ copying.previous = "from" /\ (copying.depth > 0 \/ next.type # "ident")
                   \/ copying.depth = 0 /\ next.type = "ident" /\ next.value = "from"
<1> DEFINE now == IF copying.leading
                  THEN [copying EXCEPT !.leading = FALSE, !.isCopy = next = Word("copy")]
                  ELSE copying
<1>1. /\ copying \in Copies(texts)
      /\ copying.leading => copying.previous = "" /\ ~copying.isCopy /\ ~copying.copyIn
  BY NothingIsLeft DEF FramingInv, FramingTypeOK
<1>2. /\ now \in Copies(texts) /\ ~now.leading
      /\ now.depth = copying.depth /\ now.previous = copying.previous
      /\ now.located <=> copying.located
      /\ now.copyIn <=> copying.copyIn
      /\ now.isCopy => copying.isCopy \/ (copying.leading /\ next = Word("copy"))
      /\ copying.previous = "from" => (now.isCopy <=> copying.isCopy)
  BY <1>1
<1> HIDE DEF now
<1> DEFINE paren == next \in {Punc("("), Punc(")")}
<1>3. copying' = CASE Tracks(now) /\ paren -> [now EXCEPT !.depth = Opened(@, next)]
                   [] Tracks(now) /\ ~paren /\ now.depth = 0 -> located(now, next)
                   [] OTHER -> now
  BY DEF trackCopy, now
<1>4. CASE ~Tracks(now)
  <2>1. copying' = now
    BY <1>3, <1>4
  <2>2. ~Tracks(copying')
    BY <1>4, <2>1
  <2> QED
    BY <1>2, <2>1, <2>2
<1>5. CASE Tracks(now) /\ paren
  <2>1. copying' = [now EXCEPT !.depth = Opened(now.depth, next)]
    BY <1>3, <1>5
  <2>2. Opened(now.depth, next) \in Nat /\ next.type # "ident"
    BY <1>2, <1>5, CountsAreNat DEF Punc, Entry
  <2> QED
    BY <1>2, <1>5, <2>1, <2>2 DEF Tracks
<1>6. CASE Tracks(now) /\ ~paren
  <2>1. Tracks(copying) \/ copying.leading
    BY <1>2, <1>6 DEF Tracks
  <2>2. Opened(copying.depth, next) = copying.depth
    BY <1>6 DEF Opened
  <2>3. CASE now.depth # 0
    <3>1. copying' = now
      BY <1>3, <1>6, <2>3
    <3>2. copying.depth > 0
      BY <1>2, <2>3
    <3> QED
      BY <1>2, <2>1, <2>2, <3>1, <3>2
  <2>4. CASE now.depth = 0
    <3> DEFINE named == now.previous = "copy" \/ now.afterDot
               word == IF next.type = "ident" /\ ~named THEN next.value ELSE ""
               decides == now.previous \in {"from", "to"} /\ next # Punc(".")
    <3>1. copying' = [now EXCEPT !.afterDot = next = Punc("."), !.previous = word, !.located = decides,
                                 !.copyIn = decides /\ now.previous = "from" /\ word = "stdin"]
      BY <1>3, <1>6, <2>4 DEF located
    <3>2. word \in texts
      BY DEF FramingInv, FramingTypeOK
    <3>3. /\ word = "stdin" => next.type = "ident" /\ next.value = "stdin"
          /\ word = "from" => next.type = "ident" /\ next.value = "from"
      OBVIOUS
    <3> HIDE DEF word, decides
    <3>4. /\ copying' \in Copies(texts) /\ ~copying'.leading
          /\ copying'.isCopy <=> now.isCopy
          /\ copying'.depth = now.depth /\ copying'.previous = word
          /\ copying'.copyIn <=> decides /\ now.previous = "from" /\ word = "stdin"
      BY <1>2, <3>1, <3>2 DEF decides
    <3>5. copying'.copyIn => Tracks(copying)
      BY <1>2, <1>6, <3>4 DEF Tracks
    <3> QED
      BY <1>2, <2>1, <2>2, <2>4, <3>3, <3>4, <3>5
  <2> QED
    BY <2>3, <2>4
<1> QED
  BY <1>4, <1>5, <1>6

\* The splitter goes on with what the lexer reads, or it is in another statement now, or
\* both meet at the start of one.
LEMMA FollowStep ==
  ASSUME NEW next, Follow(next)
  PROVE  /\ track(next)
         /\ \/ /\ splitter' = NewSplit /\ apart' \in BOOLEAN
               /\ apart' \/ copying'.leading
            \/ /\ ~apart /\ ~Parts(next)
               /\ splitter' = split(next) /\ ~apart' /\ apart' \in BOOLEAN
<1>1. CASE apart \/ Parts(next)
  <2>1. splitter' = NewSplit /\ apart' \in IF apart /\ copying'.leading THEN BOOLEAN ELSE {TRUE}
    BY <1>1 DEF Follow
  <2> QED
    BY <2>1 DEF Follow
<1>2. CASE ~(apart \/ Parts(next))
  <2>1. splitter' = split(next) /\ apart' = FALSE
    BY <1>2 DEF Follow
  <2> QED
    BY <1>2, <2>1 DEF Follow
<1> QED
  BY <1>1, <1>2

\* Nothing is asked of a splitter that is apart, and nothing is left at the start of a
\* statement.
LEMMA PartingKeeps ==
  ASSUME NEW texts, "" \in texts, splitter' = NewSplit, apart' \in BOOLEAN,
         apart' \/ copying'.leading,
         routine' \in Routines,
         copying' \in Copies(texts),
         dataPending' \in BOOLEAN,
         LedByCopy', BlocksAreOfRoutines', StartsAfresh'
  PROVE  FramingInv(texts)'
<1>1. splitter' \in Splits(texts)
  BY NoWordsLead DEF NewSplit
<1>2. FramingTypeOK(texts)'
  BY <1>1 DEF FramingTypeOK
<1>3. CASE apart'
  BY <1>2, <1>3 DEF FramingInv, FramesAlike, RowsAreSplit, CountsAlike, CopiesAlike
<1>4. CASE copying'.leading
  <2>1. routine' = NewRoutine /\ copying' = NewStatement
    BY <1>4 DEF StartsAfresh
  <2>2. FramesAlike'
    BY <2>1 DEF FramesAlike, NewRoutine, NewSplit
  <2>3. RowsAreSplit' /\ CountsAlike' /\ CopiesAlike'
    BY <2>1 DEF RowsAreSplit, CountsAlike, CopiesAlike, Tracks, NewStatement
  <2> QED
    BY <1>2, <2>2, <2>3 DEF FramingInv
<1> QED
  BY <1>3, <1>4

\* What a word does to the heuristic: it is one word more, and counts where it counts.
LEMMA WordStep ==
  ASSUME NEW texts, FramingInv(texts), NEW next, next.value \in texts, next.type = "ident",
         Follow(next)
  PROVE  FramingInv(texts)'
<1> DEFINE word == next.value
           heads == WithHead(routine.heads, word)
           counts == routine.parens = 0 /\ inRoutine(heads)
           depth == IF counts THEN Counted(routine.depth, word) ELSE routine.depth
<1>1. /\ routine \in Routines
      /\ splitter \in Splits(texts)
      /\ dataPending \in BOOLEAN /\ "" \in texts
  BY DEF FramingInv, FramingTypeOK
<1>2. /\ next \notin {Punc(";"), Punc("("), Punc(")"), MetaLine} /\ word \in texts
      /\ \A count : Opened(count, next) = count
  <2>1. next \notin {Punc(";"), Punc("("), Punc(")")}
    <3>1. Punc(";").type = "punc" /\ Punc("(").type = "punc" /\ Punc(")").type = "punc"
      BY DEF Punc, Entry
    <3> QED
      BY <3>1
  <2>2. next # MetaLine
    BY DEF MetaLine, OfType, Entry
  <2> QED
    BY <2>1, <2>2 DEF Opened
<1>3. /\ heads \in LeadingWords /\ heads # <<>>
      /\ routine.heads = <<>> => heads[1] = Head1(word)
      /\ routine.heads # <<>> => heads[1] = routine.heads[1]
      /\ inRoutine(routine.heads) => inRoutine(heads)
      /\ inRoutine(heads) => heads[1] = "c"
      /\ depth \in Nat
  BY <1>1, WordsAreKept, RoutinesStay, RoutinesAreCreated, CountsAreNat
<1>4. /\ routine' = [routine EXCEPT !.heads = heads, !.depth = depth]
      /\ copying' = trackCopy(next)
      /\ dataPending' = dataPending
  <2>1. observe(next) = observeWord(word)
    BY <1>2 DEF observe
  <2>2. observeWord(word) = [routine EXCEPT !.heads = heads, !.depth = depth]
    BY DEF observeWord
  <2> QED
    BY <1>2, <2>1, <2>2 DEF Follow, track
<1> HIDE DEF depth, heads
<1>5. /\ routine' \in Routines
      /\ routine'.heads = heads /\ routine'.depth = depth /\ routine'.parens = routine.parens
  BY <1>1, <1>3, <1>4
<1>6. LedByCopy'
  <2>1. CASE copying.isCopy
    BY <1>3, <1>5, <2>1 DEF FramingInv, LedByCopy
  <2>2. CASE copying'.isCopy /\ ~copying.isCopy
    <3>1. copying.leading /\ next = Word("copy")
      BY <1>4, <2>2, TrackStep
    <3>2. routine.heads = <<>> /\ word = "copy"
      BY <3>1 DEF FramingInv, StartsAfresh, NewRoutine, Word, Entry
    <3> QED
      BY <1>3, <1>5, <3>2, CopyLeadsNoRoutine DEF LedByCopy
  <2> QED
    BY <2>1, <2>2 DEF LedByCopy
<1>7. BlocksAreOfRoutines'
  <2>1. depth > 0 => inRoutine(heads)
    BY <1>1, <1>3 DEF FramingInv, BlocksAreOfRoutines, depth
  <2> QED
    BY <1>3, <1>5, <1>6, <2>1 DEF BlocksAreOfRoutines, LedByCopy
<1>8. StartsAfresh'
  BY <1>4, TrackStep DEF StartsAfresh
<1>9. CASE splitter' = NewSplit /\ apart' \in BOOLEAN /\ (apart' \/ copying'.leading)
  BY <1>1, <1>4, <1>5, <1>6, <1>7, <1>8, <1>9, PartingKeeps, TrackStep
<1>10. CASE ~apart /\ ~Parts(next) /\ splitter' = split(next) /\ ~apart' /\ apart' \in BOOLEAN
  <2>1. /\ splitter.parenDepth = routine.parens /\ splitter.beginDepth = routine.depth
        /\ splitter.words = routine.heads
    BY <1>10 DEF FramingInv, FramesAlike
  <2> DEFINE first == IF splitter.words = <<>> THEN word ELSE splitter.firstWord
             top == splitter.parenDepth = 0
             stdin == top /\ first = "copy" /\ splitter.prevTopWord = "from" /\ word = "stdin"
  <2>2. splitter' = [splitter EXCEPT !.words = heads, !.firstWord = first, !.copyIn = @ \/ stdin,
                                     !.prevTopWord = IF top THEN word ELSE @, !.beginDepth = depth]
    <3>1. splitter' = splitWord(word)
      BY <1>2, <1>10 DEF split
    <3> QED
      BY <2>1, <3>1 DEF splitWord, heads, depth
  <2> HIDE DEF first, stdin
  <2>3. first \in texts
    BY <1>1, <1>2 DEF first
  <2>4. /\ splitter' \in Splits(texts)
        /\ splitter'.parenDepth = splitter.parenDepth /\ splitter'.beginDepth = depth
        /\ splitter'.words = heads /\ splitter'.firstWord = first
        /\ splitter'.prevTopWord = IF top THEN word ELSE splitter.prevTopWord
        /\ splitter'.copyIn <=> splitter.copyIn \/ stdin
    BY <1>1, <1>2, <1>3, <2>2, <2>3
  <2>5. FramingTypeOK(texts)' /\ FramesAlike'
    BY <1>1, <1>4, <1>5, <1>10, <2>1, <2>4, TrackStep DEF FramingTypeOK, FramesAlike
  <2>6. copying.isCopy => splitter.firstWord = "copy" /\ first = "copy"
    BY <1>10, <2>1 DEF FramingInv, CopiesAlike, LedByCopy, first
  <2>7. CopiesAlike'
    <3>1. copying.leading /\ next = Word("copy") => first = "copy"
      BY <2>1 DEF FramingInv, StartsAfresh, NewRoutine, Word, Entry, first
    <3> QED
      BY <1>4, <2>4, <2>6, <3>1, TrackStep DEF CopiesAlike
  <2>8. RowsAreSplit'
    <3>1. CASE copying.copyIn
      BY <1>10, <2>4, <3>1 DEF FramingInv, RowsAreSplit
    <3>2. CASE /\ Tracks(copying) /\ copying.previous = "from" /\ copying.depth = 0
               /\ word = "stdin"
      <4>1. splitter.prevTopWord = "from" /\ top
        BY <1>10, <2>1, <3>2 DEF FramingInv, CountsAlike
      <4>2. first = "copy"
        BY <2>6, <3>2 DEF Tracks
      <4> QED
        BY <2>4, <3>2, <4>1, <4>2 DEF RowsAreSplit, stdin
    <3> QED
      BY <1>4, <3>1, <3>2, TrackStep DEF RowsAreSplit
  <2>9. CountsAlike'
    <3> SUFFICES ASSUME Tracks(copying')
                 PROVE  /\ copying'.depth = routine'.parens
                        /\ copying'.previous = "from" => splitter'.prevTopWord = "from"
      BY DEF CountsAlike
    <3>1. copying.depth = routine.parens
      <4>1. CASE Tracks(copying)
        BY <1>10, <4>1 DEF FramingInv, CountsAlike
      <4>2. CASE copying.leading
        BY <4>2, NothingIsLeft
      <4> QED
        BY <1>4, <4>1, <4>2, TrackStep
    <3>2. copying'.depth = routine'.parens
      <4>1. copying'.depth = Opened(copying.depth, next)
        BY <1>2, <1>4, TrackStep
      <4>2. Opened(copying.depth, next) = copying.depth
        BY <1>2
      <4> QED
        BY <1>5, <3>1, <4>1, <4>2
    <3>3. CASE copying'.previous = "from" /\ copying.previous = "from" /\ copying.depth > 0
      <4>1. Tracks(copying)
        BY <1>4, <3>3, NothingIsLeft, TrackStep
      <4>2. splitter.prevTopWord = "from" /\ ~top
        <5>1. splitter.prevTopWord = "from"
          BY <1>10, <3>3, <4>1 DEF FramingInv, CountsAlike
        <5>2. splitter.parenDepth > 0
          BY <2>1, <3>1, <3>3
        <5>3. splitter.parenDepth # 0
          <6>1. splitter.parenDepth \in Nat
            BY <1>1
          <6> QED
            BY <5>2, <6>1, NoneIsOpen
        <5> QED
          BY <5>1, <5>3
      <4> QED
        BY <2>4, <3>2, <4>2
    <3>4. CASE ~(copying'.previous = "from" /\ copying.previous = "from" /\ copying.depth > 0)
      <4>1. copying'.previous = "from" => top /\ word = "from"
        BY <1>4, <2>1, <3>1, <3>4, TrackStep
      <4> QED
        BY <2>4, <3>2, <4>1
    <3> QED
      BY <3>3, <3>4
  <2> QED
    BY <1>6, <1>7, <1>8, <2>5, <2>7, <2>8, <2>9 DEF FramingInv
<1> QED
  BY <1>9, <1>10, FollowStep

\* Neither does any other token, but for a parenthesis.
LEMMA OtherStep ==
  ASSUME NEW texts, FramingInv(texts), NEW next, next.value \in texts, next.type # "ident",
         next # MetaLine, ~(next = Punc(";") /\ routine.depth = 0), Follow(next)
  PROVE  FramingInv(texts)'
<1>1. /\ routine \in Routines
      /\ splitter \in Splits(texts)
      /\ dataPending \in BOOLEAN /\ "" \in texts
  BY DEF FramingInv, FramingTypeOK
<1>2. /\ next # MetaLine /\ next # Word("copy")
      /\ Opened(routine.parens, next) \in Nat
  <2>1. next # Word("copy")
    <3>1. Word("copy").type = "ident"
      BY DEF Word, Entry
    <3> QED
      BY <3>1
  <2> QED
    BY <1>1, <2>1, CountsAreNat
<1>3. /\ routine' = [routine EXCEPT !.parens = Opened(routine.parens, next)]
      /\ copying' = trackCopy(next)
      /\ dataPending' = dataPending
  <2>1. observe(next) = [routine EXCEPT !.parens = Opened(routine.parens, next)]
    BY <1>2 DEF observe
  <2>2. ~(next = Punc(";") /\ observe(next).depth = 0)
    BY <1>1, <2>1
  <2> QED
    BY <1>2, <2>1, <2>2 DEF Follow, track
<1>4. /\ routine' \in Routines
      /\ routine'.heads = routine.heads /\ routine'.depth = routine.depth
      /\ routine'.parens = Opened(routine.parens, next)
  BY <1>1, <1>2, <1>3
<1>5. copying'.isCopy => copying.isCopy
  BY <1>2, <1>3, TrackStep
<1>6. LedByCopy' /\ BlocksAreOfRoutines'
  BY <1>4, <1>5 DEF FramingInv, LedByCopy, BlocksAreOfRoutines
<1>7. StartsAfresh'
  BY <1>3, TrackStep DEF StartsAfresh
<1>8. CASE splitter' = NewSplit /\ apart' \in BOOLEAN /\ (apart' \/ copying'.leading)
  BY <1>1, <1>3, <1>4, <1>6, <1>7, <1>8, PartingKeeps, TrackStep
<1>9. CASE ~apart /\ ~Parts(next) /\ splitter' = split(next) /\ ~apart' /\ apart' \in BOOLEAN
  <2>1. /\ splitter.parenDepth = routine.parens /\ splitter.beginDepth = routine.depth
        /\ splitter.words = routine.heads
    BY <1>9 DEF FramingInv, FramesAlike
  <2>2. splitter' = [splitter EXCEPT !.parenDepth = Opened(routine.parens, next)]
    <3>1. ~(next = Punc(";") /\ SplitsHere)
      BY <2>1 DEF SplitsHere
    <3> QED
      BY <1>9, <2>1, <3>1 DEF split
  <2>3. /\ splitter' \in Splits(texts)
        /\ splitter'.parenDepth = Opened(routine.parens, next)
        /\ splitter'.beginDepth = splitter.beginDepth /\ splitter'.words = splitter.words
        /\ splitter'.firstWord = splitter.firstWord /\ splitter'.prevTopWord = splitter.prevTopWord
        /\ splitter'.copyIn <=> splitter.copyIn
    BY <1>1, <1>2, <2>2
  <2>4. FramingTypeOK(texts)' /\ FramesAlike'
    BY <1>1, <1>3, <1>4, <1>9, <2>1, <2>3, TrackStep DEF FramingTypeOK, FramesAlike
  <2>5. CopiesAlike'
    BY <1>5, <1>9, <2>3 DEF FramingInv, CopiesAlike
  <2>6. RowsAreSplit'
    <3>1. copying'.copyIn => copying.copyIn
      BY <1>3, TrackStep
    <3> QED
      BY <1>9, <2>3, <3>1 DEF FramingInv, RowsAreSplit
  <2>7. CountsAlike'
    <3> SUFFICES ASSUME Tracks(copying')
                 PROVE  /\ copying'.depth = routine'.parens
                        /\ copying'.previous = "from" => splitter'.prevTopWord = "from"
      BY DEF CountsAlike
    <3>1. Tracks(copying)
      BY <1>2, <1>3, NothingIsLeft, TrackStep DEF Tracks
    <3>2. /\ copying.depth = routine.parens
          /\ copying.previous = "from" => splitter.prevTopWord = "from"
      BY <1>9, <3>1 DEF FramingInv, CountsAlike
    <3>3. copying'.depth = routine'.parens
      BY <1>3, <1>4, <3>2, TrackStep
    <3>4. copying'.previous = "from" => copying.previous = "from"
      BY <1>3, TrackStep
    <3> QED
      BY <2>3, <3>2, <3>3, <3>4
  <2> QED
    BY <1>6, <1>7, <2>4, <2>5, <2>6, <2>7 DEF FramingInv
<1> QED
  BY <1>8, <1>9, FollowStep

\* Where the lexer ends a statement the splitter does too, or they part there.
LEMMA BetweenStatements ==
  ASSUME NEW texts, "" \in texts, routine' = NewRoutine, copying' = NewStatement,
         dataPending' \in BOOLEAN,
         splitter' = NewSplit, apart' \in BOOLEAN
  PROVE  FramingInv(texts)'
<1>1. <<>> \in LeadingWords
  BY NoWordsLead
<1>2. routine' \in Routines /\ routine'.depth = 0
  BY <1>1 DEF NewRoutine
<1>3. /\ copying' \in Copies(texts)
      /\ ~copying'.isCopy /\ ~copying'.copyIn
  BY DEF NewStatement
<1>4. LedByCopy' /\ BlocksAreOfRoutines' /\ StartsAfresh'
  <2>1. LedByCopy'
    BY <1>3 DEF LedByCopy
  <2>2. BlocksAreOfRoutines'
    <3>1. ~(routine'.depth > 0)
      <4>1. routine'.depth \in Nat /\ routine'.depth = 0
        BY <1>2
      <4> QED
        BY <4>1, NoneIsOpen
    <3> QED
      BY <3>1 DEF BlocksAreOfRoutines
  <2>3. StartsAfresh'
    BY DEF StartsAfresh
  <2> QED
    BY <2>1, <2>2, <2>3
<1>5. copying'.leading
  BY DEF NewStatement
<1> QED
  BY <1>2, <1>3, <1>4, <1>5, PartingKeeps

LEMMA SemicolonStep ==
  ASSUME NEW texts, FramingInv(texts), NEW next, next = Punc(";"), routine.depth = 0, Follow(next)
  PROVE  FramingInv(texts)'
<1>1. next.type # "ident"
  BY DEF Punc, Entry
<1>2. observe(next) = NewRoutine
  BY <1>1 DEF observe
<1>3. copying' = NewStatement /\ routine' = NewRoutine /\ dataPending' = copying.copyIn
  <2>1. NewRoutine.depth = 0
    BY DEF NewRoutine
  <2> QED
    BY <1>2, <2>1 DEF Follow, track, endStatement
<1>4. copying.copyIn \in BOOLEAN /\ "" \in texts
  BY DEF FramingInv, FramingTypeOK
<1>5. splitter' = NewSplit /\ apart' \in BOOLEAN
  <2>1. CASE splitter' = NewSplit /\ apart' \in BOOLEAN /\ (apart' \/ copying'.leading)
    BY <2>1
  <2>2. CASE ~apart /\ ~Parts(next) /\ splitter' = split(next) /\ ~apart' /\ apart' \in BOOLEAN
    <3>1. splitter.parenDepth = routine.parens /\ splitter.beginDepth = 0
      BY <2>2 DEF FramingInv, FramesAlike
    <3>2. routine.parens = 0
      <4>1. routine.parens \in Nat
        BY DEF FramingInv, FramingTypeOK
      <4>2. ~(routine.parens > 0)
        BY <2>2, Zenon DEF Parts
      <4> QED
        BY <4>1, <4>2, NoneIsOpen
    <3>3. SplitsHere
      BY <3>1, <3>2 DEF SplitsHere
    <3> QED
      BY <1>1, <2>2, <3>3 DEF split, finish
  <2> QED
    BY <2>1, <2>2, FollowStep
<1> QED
  BY <1>3, <1>4, <1>5, BetweenStatements

\* Between statements a meta-command changes nothing.
LEMMA MetaStep ==
  ASSUME NEW texts, FramingInv(texts), Follow(MetaLine)
  PROVE  FramingInv(texts)'
<1>1. MetaLine # Punc(";") /\ MetaLine.type # "ident" /\ MetaLine \notin {Punc("("), Punc(")")}
  BY DEF MetaLine, OfType, Punc, Entry
<1>2. routine' = NewRoutine /\ copying' = NewStatement /\ dataPending' = dataPending
  BY <1>1 DEF Follow, track, observe, endStatement
<1>3. dataPending \in BOOLEAN /\ apart \in BOOLEAN /\ splitter \in Splits(texts) /\ "" \in texts
  BY DEF FramingInv, FramingTypeOK
<1>4. CASE splitter' = NewSplit /\ apart' \in BOOLEAN /\ (apart' \/ copying'.leading)
  BY <1>2, <1>3, <1>4, BetweenStatements
<1>5. CASE ~apart /\ ~Parts(MetaLine) /\ splitter' = split(MetaLine) /\ ~apart' /\ apart' \in BOOLEAN
  <2>1. routine = NewRoutine /\ copying = NewStatement
    BY <1>5 DEF Parts, FramingInv, StartsAfresh
  <2>2. splitter' = splitter
    BY <1>1, <1>3, <1>5 DEF split, Opened
  <2> QED
    BY <1>2, <1>3, <1>5, <2>1, <2>2, RowsKeep
<1> QED
  BY <1>4, <1>5, FollowStep

\* Any token at all.
LEMMA TokenStep ==
  ASSUME NEW texts, FramingInv(texts), NEW next, next.value \in texts, Follow(next)
  PROVE  FramingInv(texts)'
<1>1. CASE next = MetaLine
  BY <1>1, MetaStep
<1>2. CASE next # MetaLine /\ next.type = "ident"
  BY <1>2, WordStep
<1>3. CASE next = Punc(";") /\ routine.depth = 0
  BY <1>3, SemicolonStep
<1>4. CASE next # MetaLine /\ next.type # "ident" /\ ~(next = Punc(";") /\ routine.depth = 0)
  BY <1>4, OtherStep
<1> QED
  BY <1>1, <1>2, <1>3, <1>4

\* The statements of a script are framed by the tokens that are taken or skipped,
\* and by nothing else.
LEMMA ScriptStep ==
  ASSUME [ScriptNext]_scriptVars
  PROVE  \/ \E next : Follow(next)
         \/ dataPending' \in {dataPending, FALSE} /\ UNCHANGED <<routine, copying, splitter, apart>>
<1>1. CASE MetaCommand
  BY <1>1 DEF MetaCommand
<1>2. CASE NextItem
  BY <1>2 DEF NextItem
<1>3. CASE FollowToken
  BY <1>3 DEF FollowToken
<1>4. CASE SkipToken
  BY <1>4 DEF SkipToken
<1>5. CASE UNCHANGED framing
  BY <1>5 DEF framing
<1>6. CASE Breaks \/ ResumeAtEnd
  BY <1>6 DEF Breaks, ResumeAtEnd, framing
<1> QED
  BY <1>1, <1>2, <1>3, <1>4, <1>5, <1>6 DEF ScriptNext, scriptVars

\* The inductive invariant, for every grammar: whatever tokens it gives the two
\* programs, and wherever it breaks off.
THEOREM FramingInvariance == ScriptSpec => [](\E texts : FramingInv(texts))
<1>1. ScriptInit => \E texts : FramingInv(texts)
  BY StartsRight DEF ScriptInit, NewFraming
<1>2. (\E texts : FramingInv(texts)) /\ [ScriptNext]_scriptVars => (\E texts : FramingInv(texts))'
  <2> SUFFICES ASSUME NEW texts, FramingInv(texts), [ScriptNext]_scriptVars
               PROVE  (\E more : FramingInv(more))'
    OBVIOUS
  <2>1. CASE \E next : Follow(next)
    <3>1. PICK next : Follow(next)
      BY <2>1
    <3>2. PICK more : texts \subseteq more /\ next.value \in more
      <4>1. texts \subseteq texts \cup {next.value} /\ next.value \in texts \cup {next.value}
        OBVIOUS
      <4> QED
        BY <4>1
    <3>3. FramingInv(more)
      BY <3>2, TextsMayBeMore
    <3> QED
      BY <3>1, <3>2, <3>3, TokenStep
  <2>2. CASE dataPending' \in {dataPending, FALSE} /\ UNCHANGED <<routine, copying, splitter, apart>>
    <3>1. dataPending' \in BOOLEAN
      BY <2>2 DEF FramingInv, FramingTypeOK
    <3> QED
      BY <2>2, <3>1, RowsKeep
  <2> QED
    BY <2>1, <2>2, ScriptStep
<1> QED
  BY <1>1, <1>2, PTL DEF ScriptSpec

\* The script lexer and psql-split count the same parentheses and blocks and keep the
\* same leading words after every token that a grammar gives them: they end each
\* statement at the same semicolon.
THEOREM FramedAlike == ScriptSpec => []FramesAlike
<1>1. (\E texts : FramingInv(texts)) => FramesAlike
  BY DEF FramingInv
<1> QED
  BY <1>1, FramingInvariance, PTL

\* psql-split has rows wherever sqlScriptParseLexer has: it takes none for statements.
THEOREM RowsAreFound == ScriptSpec => []RowsAreSplit
<1>1. (\E texts : FramingInv(texts)) => RowsAreSplit
  BY DEF FramingInv
<1> QED
  BY <1>1, FramingInvariance, PTL

\* In sqlScriptParseLexer a COPY opens no block, so that its semicolon ends it.
THEOREM CopiesHaveNoBlocks == ScriptSpec => []BlocksAreOfRoutines
<1>1. (\E texts : FramingInv(texts)) => BlocksAreOfRoutines
  BY DEF FramingInv
<1> QED
  BY <1>1, FramingInvariance, PTL

-------------------------------------------------------------------------------
(* Prediction: tests and tokens.                                           *)

\* Beyond its length a pattern does not look.
LEMMA CutAgrees ==
  ASSUME NEW S, NEW p \in Seq(S), NEW tokens \in Seq(S), NEW k \in Nat, Len(p) <= k
  PROVE  /\ Cut(tokens, k) \in Seq(S)
         /\ Agrees(p, Cut(tokens, k)) <=> Agrees(p, tokens)
         /\ Len(p) <= Len(Cut(tokens, k)) <=> Len(p) <= Len(tokens)
<1> DEFINE n == IF Len(tokens) < k THEN Len(tokens) ELSE k
           cut == SubSeq(tokens, 1, n)
<1>1. n \in Nat /\ n <= Len(tokens) /\ n <= k
  OBVIOUS
<1>2. cut \in Seq(S) /\ Len(cut) = n /\ \A i \in 1..n : cut[i] = tokens[i]
  BY <1>1
<1>3. n = k \/ n = Len(tokens)
  OBVIOUS
<1> HIDE DEF n, cut
<1>4. DOMAIN p \cap DOMAIN cut = DOMAIN p \cap DOMAIN tokens
  BY <1>1, <1>2, <1>3
<1>5. \A i \in DOMAIN p \cap DOMAIN cut : cut[i] = tokens[i]
  BY <1>2
<1>6. Agrees(p, cut) <=> Agrees(p, tokens)
  BY <1>4, <1>5 DEF Agrees
<1>7. Len(p) <= Len(cut) <=> Len(p) <= Len(tokens)
  BY <1>1, <1>2, <1>3
<1> QED
  BY <1>2, <1>6, <1>7 DEF Cut, cut, n

\* What a sequence has is of its set.
LEMMA Elements ==
  ASSUME NEW S, NEW s \in Seq(S), NEW i \in DOMAIN s
  PROVE  s[i] \in S /\ 1..(i - 1) \subseteq DOMAIN s
OBVIOUS

\* The looks of a test are of sequences of entries.
LEMMA LooksOfTests ==
  ASSUME NEW test \in Tests, NEW i \in DOMAIN test.looks
  PROVE  /\ test.looks[i] \in Looks
         /\ test.looks[i].patterns \subseteq Seq(EntrySet)
         /\ 1..(i - 1) \subseteq DOMAIN test.looks
<1>1. test.looks \in Seq(Looks)
  BY DEF Tests
<1>2. test.looks[i] \in Looks /\ 1..(i - 1) \subseteq DOMAIN test.looks
  BY <1>1, Elements
<1> QED
  BY <1>2 DEF Looks

\* A test as a token leaves it.
LEMMA LooksRead ==
  ASSUME NEW test \in Tests, NEW next
  PROVE  /\ Read(test, next).must <=> test.must
         /\ Read(test, next).must \in BOOLEAN
         /\ Read(test, next) = [must |-> Read(test, next).must, looks |-> Read(test, next).looks]
         /\ Read(test, next).looks =
              [i \in DOMAIN test.looks |-> Seen(After(test.looks[i].patterns, next), test.looks[i].mine)]
<1> DEFINE looks == [i \in DOMAIN test.looks |-> Seen(After(test.looks[i].patterns, next), test.looks[i].mine)]
<1>1. Read(test, next) = [test EXCEPT !.looks = looks]
  BY DEF Read
<1> HIDE DEF looks
<1>2. PICK must \in BOOLEAN, old \in Seq(Looks) : test = [must |-> must, looks |-> old]
  BY DEF Tests
<1>3. Read(test, next) = [must |-> must, looks |-> looks]
  BY <1>1, <1>2
<1>4. (Read(test, next).must <=> must) /\ Read(test, next).must \in BOOLEAN
  BY <1>3
<1>5. test.must <=> must
  BY <1>2
<1>6. Read(test, next).looks = looks
  BY <1>3
<1>7. Read(test, next) = [must |-> Read(test, next).must, looks |-> Read(test, next).looks]
  BY <1>3, <1>6
<1> QED
  BY <1>4, <1>5, <1>6, <1>7 DEF looks

\* No test sees more than the first k tokens.
LEMMA CutPasses ==
  ASSUME NEW k \in Nat, NEW test, IsTest(test, k), NEW tokens \in Seq(EntrySet),
         Passes(test, Cut(tokens, k))
  PROVE  Passes(test, tokens)
<1>1. \A i \in DOMAIN test.looks : \A p \in test.looks[i].patterns : p \in Seq(EntrySet) /\ Len(p) <= k
  BY LooksOfTests DEF IsTest
<1>2. ASSUME NEW i \in DOMAIN test.looks
      PROVE  Left(test.looks[i], Cut(tokens, k)) = Left(test.looks[i], tokens)
  <2>1. \A p \in test.looks[i].patterns : Agrees(p, Cut(tokens, k)) <=> Agrees(p, tokens)
    BY <1>1, CutAgrees
  <2> QED
    BY <2>1 DEF Left
<1>3. ASSUME NEW i \in DOMAIN test.looks, NEW p \in test.looks[i].patterns
      PROVE  Len(p) <= Len(Cut(tokens, k)) <=> Len(p) <= Len(tokens)
  BY <1>1, CutAgrees
<1>4. \A i \in DOMAIN test.looks : 1..(i - 1) \subseteq DOMAIN test.looks
  BY LooksOfTests DEF IsTest
<1>5. test.must => \E i \in DOMAIN test.looks : Left(test.looks[i], tokens) # {}
  BY <1>2 DEF Passes
<1>6. ASSUME NEW i \in DOMAIN test.looks,
             \A j \in 1..(i - 1) : Left(test.looks[j], tokens) = {},
             NEW p \in Left(test.looks[i], tokens), Len(p) <= Len(tokens)
      PROVE  test.looks[i].mine
  <2>1. \A j \in 1..(i - 1) : Left(test.looks[j], Cut(tokens, k)) = {}
    BY <1>2, <1>4, <1>6
  <2>2. p \in Left(test.looks[i], Cut(tokens, k)) /\ Len(p) <= Len(Cut(tokens, k))
    BY <1>2, <1>3, <1>6 DEF Left
  <2> QED
    BY <2>1, <2>2 DEF Passes
<1> QED
  BY <1>5, <1>6 DEF Passes

\* What a pattern agrees with, it still does where the first token is read.
LEMMA TailAgrees ==
  ASSUME NEW S, NEW p \in Seq(S), p # <<>>, NEW next \in S, NEW tokens \in Seq(S)
  PROVE  /\ Agrees(p, <<next>> \o tokens) <=> MatchesToken(Head(p), next) /\ Agrees(Tail(p), tokens)
         /\ Len(p) <= Len(<<next>> \o tokens) <=> Len(Tail(p)) <= Len(tokens)
<1> DEFINE longer == <<next>> \o tokens
           rest == Tail(p)
<1>1. /\ longer \in Seq(S) /\ Len(longer) = Len(tokens) + 1 /\ longer[1] = next
      /\ \A i \in 1..Len(tokens) : longer[i + 1] = tokens[i]
  OBVIOUS
<1>2. /\ rest \in Seq(S) /\ Len(p) = Len(rest) + 1 /\ p[1] = Head(p)
      /\ \A i \in 1..Len(rest) : p[i + 1] = rest[i]
  OBVIOUS
<1> HIDE DEF longer, rest
<1>3. ASSUME Agrees(p, longer)
      PROVE  MatchesToken(Head(p), next) /\ Agrees(rest, tokens)
  <2>1. 1 \in DOMAIN p \cap DOMAIN longer
    BY <1>1, <1>2
  <2>2. MatchesToken(p[1], longer[1])
    BY <1>3, <2>1 DEF Agrees
  <2>3. ASSUME NEW i \in DOMAIN rest \cap DOMAIN tokens
        PROVE  MatchesToken(rest[i], tokens[i])
    <3>1. i + 1 \in DOMAIN p \cap DOMAIN longer /\ p[i + 1] = rest[i] /\ longer[i + 1] = tokens[i]
      BY <1>1, <1>2
    <3>2. MatchesToken(p[i + 1], longer[i + 1])
      BY <1>3, <3>1 DEF Agrees
    <3> QED
      BY <3>1, <3>2
  <2> QED
    BY <1>1, <1>2, <2>2, <2>3 DEF Agrees
<1>4. ASSUME MatchesToken(Head(p), next), Agrees(rest, tokens)
      PROVE  Agrees(p, longer)
  <2> SUFFICES ASSUME NEW i \in DOMAIN p \cap DOMAIN longer
               PROVE  MatchesToken(p[i], longer[i])
    BY DEF Agrees
  <2>1. CASE i = 1
    BY <1>1, <1>2, <1>4, <2>1
  <2>2. CASE i # 1
    <3>1. i - 1 \in DOMAIN rest \cap DOMAIN tokens /\ (i - 1) + 1 = i
      BY <1>1, <1>2, <2>2
    <3>2. MatchesToken(rest[i - 1], tokens[i - 1])
      BY <1>4, <3>1 DEF Agrees
    <3>3. p[i] = rest[i - 1] /\ longer[i] = tokens[i - 1]
      <4>1. i - 1 \in 1..Len(rest) /\ i - 1 \in 1..Len(tokens)
        BY <1>1, <1>2, <3>1
      <4> QED
        BY <1>1, <1>2, <3>1, <4>1
    <3> QED
      BY <3>2, <3>3
  <2> QED
    BY <2>1, <2>2
<1>5. Len(p) <= Len(longer) <=> Len(rest) <= Len(tokens)
  BY <1>1, <1>2
<1> QED
  BY <1>3, <1>4, <1>5 DEF longer, rest

\* What a token leaves of a look.
LEMMA ReadLeft ==
  ASSUME NEW patterns \in SUBSET Seq(EntrySet), NEW mine, NEW next \in EntrySet,
         NEW tokens \in Seq(EntrySet)
  PROVE  LET before == Left(Seen(patterns, mine), <<next>> \o tokens)
             after == Left(Seen(After(patterns, next), mine), tokens)
         IN  /\ before = {} <=> after = {}
             /\ (\E p \in after : Len(p) <= Len(tokens))
                  => \E p \in before : Len(p) <= Len(<<next>> \o tokens)
<1> DEFINE longer == <<next>> \o tokens
           before == Left(Seen(patterns, mine), longer)
           after == Left(Seen(After(patterns, next), mine), tokens)
<1>1. /\ \A p : p \in before <=> p \in patterns /\ Agrees(p, longer)
      /\ \A p : p \in after <=> p \in After(patterns, next) /\ Agrees(p, tokens)
  BY DEF Left, Seen
<1>2. Agrees(<<>>, longer) /\ Agrees(<<>>, tokens) /\ Len(<<>>) <= Len(longer)
  BY DEF Agrees
<1>3. ASSUME NEW p \in before
      PROVE  after # {}
  <2>1. CASE p = <<>>
    BY <1>1, <1>2, <2>1 DEF After
  <2>2. CASE p # <<>>
    <3>1. MatchesToken(Head(p), next) /\ Agrees(Tail(p), tokens)
      BY <1>1, <2>2, TailAgrees
    <3>2. Tail(p) \in After(patterns, next)
      BY <1>1, <2>2, <3>1 DEF After
    <3> QED
      BY <1>1, <3>1, <3>2
  <2> QED
    BY <2>1, <2>2
<1>4. ASSUME NEW q \in after
      PROVE  \E p \in before : Len(q) <= Len(tokens) => Len(p) <= Len(longer)
  <2>1. q \in After(patterns, next) /\ Agrees(q, tokens)
    BY <1>1
  <2>2. CASE q = <<>> /\ q \in patterns
    BY <1>1, <1>2, <2>2
  <2>3. CASE \E p \in patterns : p # <<>> /\ MatchesToken(Head(p), next) /\ q = Tail(p)
    <3>1. PICK p \in patterns : p # <<>> /\ MatchesToken(Head(p), next) /\ q = Tail(p)
      BY <2>3
    <3>2. Agrees(p, longer) /\ (Len(p) <= Len(longer) <=> Len(q) <= Len(tokens))
      BY <2>1, <3>1, TailAgrees
    <3> QED
      BY <1>1, <3>1, <3>2
  <2> QED
    BY <2>1, <2>2, <2>3 DEF After
<1> HIDE DEF before, after
<1>5. before = {} <=> after = {}
  BY <1>3, <1>4
<1>6. (\E p \in after : Len(p) <= Len(tokens)) => \E p \in before : Len(p) <= Len(longer)
  BY <1>4
<1> QED
  BY <1>5, <1>6 DEF before, after

\* A test that the tokens pass is passed by the rest of them behind the first.
LEMMA ReadPasses ==
  ASSUME NEW k \in Nat, NEW test, IsTest(test, k), NEW next \in EntrySet,
         NEW tokens \in Seq(EntrySet), Passes(test, <<next>> \o tokens)
  PROVE  Passes(Read(test, next), tokens)
<1> DEFINE read == Read(test, next)
           looks == [i \in DOMAIN test.looks |-> Seen(After(test.looks[i].patterns, next), test.looks[i].mine)]
           longer == <<next>> \o tokens
<1>1. test \in Tests
  BY DEF IsTest
<1>2. /\ read.must <=> test.must
      /\ read.looks = looks
  BY <1>1, LooksRead
<1>3. ASSUME NEW i \in DOMAIN test.looks
      PROVE  /\ read.looks[i].mine <=> test.looks[i].mine
             /\ Left(test.looks[i], longer) = {} <=> Left(read.looks[i], tokens) = {}
             /\ (\E p \in Left(read.looks[i], tokens) : Len(p) <= Len(tokens))
                  => \E p \in Left(test.looks[i], longer) : Len(p) <= Len(longer)
  <2> DEFINE patterns == test.looks[i].patterns
             mine == test.looks[i].mine
  <2>1. patterns \in SUBSET Seq(EntrySet) /\ test.looks[i] = Seen(patterns, mine)
    BY <1>1, LooksOfTests DEF Looks, Seen
  <2>2. looks[i] = Seen(After(patterns, next), mine)
    OBVIOUS
  <2>3. read.looks[i] = Seen(After(patterns, next), mine)
    BY <1>2, <2>2
  <2> HIDE DEF patterns, mine, read, looks
  <2>4. (read.looks[i].mine <=> mine) /\ (test.looks[i].mine <=> mine)
    BY <2>1, <2>3 DEF Seen
  <2> QED
    BY <2>1, <2>3, <2>4, ReadLeft
<1>4. \A i \in DOMAIN test.looks : 1..(i - 1) \subseteq DOMAIN test.looks
  BY <1>1, LooksOfTests
<1>5. DOMAIN read.looks = DOMAIN test.looks
  BY <1>2
<1> HIDE DEF read, longer, looks
<1>6. read.must => \E i \in DOMAIN read.looks : Left(read.looks[i], tokens) # {}
  BY <1>2, <1>3, <1>5 DEF Passes, longer
<1>7. ASSUME NEW i \in DOMAIN read.looks,
             \A j \in 1..(i - 1) : Left(read.looks[j], tokens) = {},
             \E p \in Left(read.looks[i], tokens) : Len(p) <= Len(tokens)
      PROVE  read.looks[i].mine
  <2>1. \A j \in 1..(i - 1) : Left(test.looks[j], longer) = {}
    BY <1>3, <1>4, <1>5, <1>7
  <2>2. \E p \in Left(test.looks[i], longer) : Len(p) <= Len(longer)
    BY <1>3, <1>5, <1>7
  <2>3. test.looks[i].mine
    BY <1>5, <2>1, <2>2 DEF Passes, longer
  <2> QED
    BY <1>3, <1>5, <2>3
<1> QED
  BY <1>6, <1>7 DEF Passes, read

\* A token makes no pattern longer.
LEMMA ReadIsTest ==
  ASSUME NEW k \in Nat, NEW test, IsTest(test, k), NEW next
  PROVE  IsTest(Read(test, next), k)
<1> DEFINE read == Read(test, next)
           looks == [i \in DOMAIN test.looks |-> Seen(After(test.looks[i].patterns, next), test.looks[i].mine)]
<1>1. test \in Tests
  BY DEF IsTest
<1>2. /\ read = [must |-> read.must, looks |-> read.looks] /\ read.must \in BOOLEAN
      /\ read.looks = looks
  BY <1>1, LooksRead
<1>3. ASSUME NEW i \in DOMAIN test.looks
      PROVE  /\ read.looks[i] \in Looks
             /\ \A p \in read.looks[i].patterns : Len(p) <= k
  <2> DEFINE patterns == test.looks[i].patterns
  <2>1. /\ test.looks[i] \in Looks
        /\ patterns \subseteq Seq(EntrySet) /\ \A p \in patterns : Len(p) <= k
    BY <1>1, LooksOfTests DEF IsTest
  <2>2. ASSUME NEW p \in patterns, p # <<>>
        PROVE  Tail(p) \in Seq(EntrySet) /\ Len(Tail(p)) <= k
    <3>1. p \in Seq(EntrySet) /\ Len(p) <= k
      BY <2>1
    <3> QED
      BY <2>2, <3>1
  <2>3. \A p \in After(patterns, next) : p \in Seq(EntrySet) /\ Len(p) <= k
    BY <2>1, <2>2 DEF After
  <2>4. read.looks[i] = Seen(After(patterns, next), test.looks[i].mine)
    <3>1. looks[i] = Seen(After(patterns, next), test.looks[i].mine)
      OBVIOUS
    <3> QED
      BY <1>2, <3>1
  <2>5. test.looks[i].mine \in BOOLEAN
    BY <2>1 DEF Looks
  <2> HIDE DEF patterns, read, looks
  <2> QED
    BY <2>3, <2>4, <2>5 DEF Seen, Looks
<1>4. read.looks \in Seq(Looks)
  <2>1. test.looks \in Seq(Looks)
    BY <1>1 DEF Tests
  <2>2. PICK n \in Nat : DOMAIN test.looks = 1..n
    BY <2>1
  <2>3. looks = [i \in 1..n |-> looks[i]]
    BY <2>2
  <2>4. \A i \in 1..n : read.looks[i] \in Looks
    BY <1>3, <2>2
  <2> HIDE DEF read, looks
  <2> QED
    BY <1>2, <2>3, <2>4
<1>5. DOMAIN read.looks = DOMAIN test.looks
  BY <1>2
<1> HIDE DEF read, looks
<1>6. read \in Tests
  BY <1>2, <1>4 DEF Tests
<1> QED
  BY <1>3, <1>5, <1>6 DEF IsTest, read

\* A test that any tokens pass has not come out the other way.
LEMMA PassesNow ==
  ASSUME NEW test \in Tests, NEW tokens \in Seq(EntrySet), Passes(test, tokens)
  PROVE  /\ test.must => ~Failed(test)
         /\ \A i \in DOMAIN test.looks : MatchedBy(test, i) => test.looks[i].mine
<1>1. test.must => ~Failed(test)
  BY DEF Passes, Failed, Left
<1>2. ASSUME NEW i \in DOMAIN test.looks, MatchedBy(test, i)
      PROVE  test.looks[i].mine
  <2>1. \A j \in 1..(i - 1) : Left(test.looks[j], tokens) = {}
    BY <1>2 DEF MatchedBy, Left
  <2>2. <<>> \in Left(test.looks[i], tokens)
    BY <1>2 DEF MatchedBy, Left, Agrees
  <2>3. Len(<<>>) <= Len(tokens)
    OBVIOUS
  <2> QED
    BY <2>1, <2>2, <2>3 DEF Passes
<1> QED
  BY <1>1, <1>2

-------------------------------------------------------------------------------
(* Prediction: places.                                                     *)

\* The rules behind some of them are at their places.
LEMMA RestIsPlaced ==
  ASSUME NEW Places, NEW behind, NEW rules, NEW places, Placed(Places, rules, behind, places),
         NEW i \in 1..(Len(rules) + 1)
  PROVE  \E rest : /\ Placed(Places, SubSeq(rules, i, Len(rules)), behind, rest)
                   /\ AheadOf(rest, 1, behind) = AheadOf(places, i, behind)
<1> DEFINE later == SubSeq(rules, i, Len(rules))
           n == Len(rules) + 1 - i
           rest == [j \in 1..n |-> places[j + i - 1]]
<1>1. /\ rules \in Seq(DOMAIN Places) /\ DOMAIN places = 1..Len(rules) /\ Len(rules) \in Nat
      /\ \A j \in 1..Len(rules) : /\ places[j] \in Places[rules[j]]
                                 /\ AheadOf(places, j + 1, behind) \subseteq places[j].behind
  BY DEF Placed
<1>2. /\ n \in Nat /\ later \in Seq(DOMAIN Places) /\ DOMAIN later = 1..n
      /\ \A j \in 1..n : j + i - 1 \in 1..Len(rules) /\ later[j] = rules[j + i - 1]
  BY <1>1
<1>3. ASSUME NEW j \in 1..(n + 1)
      PROVE  AheadOf(rest, j, behind) = AheadOf(places, j + i - 1, behind)
  <2>1. j \in 1..n <=> j + i - 1 \in 1..Len(rules)
    BY <1>1
  <2> QED
    BY <1>1, <2>1 DEF AheadOf
<1>4. ASSUME NEW j \in DOMAIN later
      PROVE  /\ rest[j] \in Places[later[j]]
             /\ AheadOf(rest, j + 1, behind) \subseteq rest[j].behind
  <2>1. j \in 1..n /\ j + 1 \in 1..(n + 1) /\ (j + 1) + i - 1 = (j + i - 1) + 1
    BY <1>2
  <2>2. AheadOf(rest, j + 1, behind) = AheadOf(places, (j + i - 1) + 1, behind)
    BY <1>3, <2>1
  <2>3. rest[j] = places[j + i - 1]
    BY <2>1
  <2> HIDE DEF rest, later, n
  <2> QED
    BY <1>1, <1>2, <2>1, <2>2, <2>3
<1>5. DOMAIN rest = DOMAIN later
  BY <1>2
<1>6. AheadOf(rest, 1, behind) = AheadOf(places, i, behind)
  <2>1. 1 \in 1..(n + 1) /\ 1 + i - 1 = i
    BY <1>2
  <2> QED
    BY <1>3, <2>1
<1> HIDE DEF rest, later, n
<1>7. Placed(Places, later, behind, rest)
  BY <1>2, <1>4, <1>5 DEF Placed
<1> QED
  BY <1>6, <1>7 DEF later

\* Rules and more behind them are at their places.
LEMMA BothArePlaced ==
  ASSUME NEW Places, NEW behind, NEW between, NEW rules, NEW more, NEW first, NEW second,
         Placed(Places, rules, between, first), Placed(Places, more, behind, second),
         AheadOf(second, 1, behind) \subseteq between
  PROVE  \E places : /\ Placed(Places, rules \o more, behind, places)
                     /\ AheadOf(places, 1, behind) \subseteq AheadOf(first, 1, between)
<1> DEFINE n == Len(rules)
           m == Len(more)
           both == rules \o more
           places == [i \in 1..(n + m) |-> IF i <= n THEN first[i] ELSE second[i - n]]
<1>1. /\ rules \in Seq(DOMAIN Places) /\ n \in Nat /\ DOMAIN first = 1..n
      /\ \A i \in 1..n : /\ first[i] \in Places[rules[i]]
                        /\ AheadOf(first, i + 1, between) \subseteq first[i].behind
  BY DEF Placed
<1>2. /\ more \in Seq(DOMAIN Places) /\ m \in Nat /\ DOMAIN second = 1..m
      /\ \A i \in 1..m : /\ second[i] \in Places[more[i]]
                        /\ AheadOf(second, i + 1, behind) \subseteq second[i].behind
  BY DEF Placed
<1>3. /\ both \in Seq(DOMAIN Places) /\ DOMAIN both = 1..(n + m)
      /\ \A i \in 1..n : both[i] = rules[i]
      /\ \A i \in 1..m : both[i + n] = more[i]
  BY <1>1, <1>2
<1>4. /\ DOMAIN places = 1..(n + m)
      /\ \A i \in 1..n : places[i] = first[i]
      /\ \A i \in 1..m : places[i + n] = second[i]
  BY <1>1, <1>2
<1> HIDE DEF n, m, both, places
<1>5. ASSUME NEW i \in 1..(m + 1)
      PROVE  AheadOf(places, i + n, behind) = AheadOf(second, i, behind)
  <2>1. i \in 1..m <=> i + n \in 1..(n + m)
    BY <1>1, <1>2
  <2> QED
    BY <1>2, <1>4, <2>1 DEF AheadOf
<1>6. ASSUME NEW i \in 1..(n + 1)
      PROVE  AheadOf(places, i, behind) \subseteq AheadOf(first, i, between)
  <2>1. CASE i = n + 1
    <3>1. 1 \in 1..(m + 1) /\ i = 1 + n /\ i \notin 1..n
      BY <1>1, <1>2, <2>1
    <3>2. AheadOf(places, i, behind) = AheadOf(second, 1, behind)
      BY <1>5, <3>1
    <3>3. AheadOf(first, i, between) = between
      BY <1>1, <3>1 DEF AheadOf
    <3> QED
      BY <3>2, <3>3
  <2>2. CASE i # n + 1
    <3>1. i \in 1..n /\ i \in 1..(n + m)
      BY <1>1, <1>2, <2>2
    <3> QED
      BY <1>1, <1>4, <3>1 DEF AheadOf
  <2> QED
    BY <2>1, <2>2
<1>7. ASSUME NEW i \in DOMAIN both
      PROVE  places[i] \in Places[both[i]] /\ AheadOf(places, i + 1, behind) \subseteq places[i].behind
  <2>1. CASE i \in 1..n
    <3>1. i + 1 \in 1..(n + 1)
      BY <1>1, <2>1
    <3>2. AheadOf(places, i + 1, behind) \subseteq AheadOf(first, i + 1, between)
      BY <1>6, <3>1
    <3> QED
      BY <1>1, <1>3, <1>4, <2>1, <3>2
  <2>2. CASE i \notin 1..n
    <3>1. /\ i - n \in 1..m /\ (i - n) + 1 \in 1..(m + 1)
          /\ ((i - n) + 1) + n = i + 1 /\ (i - n) + n = i
      BY <1>1, <1>2, <1>3, <2>2
    <3>2. AheadOf(places, i + 1, behind) = AheadOf(second, (i - n) + 1, behind)
      <4>1. AheadOf(places, ((i - n) + 1) + n, behind) = AheadOf(second, (i - n) + 1, behind)
        BY <1>5, <3>1
      <4> QED
        BY <3>1, <4>1
    <3>3. places[i] = second[i - n] /\ both[i] = more[i - n]
      <4>1. places[(i - n) + n] = second[i - n] /\ both[(i - n) + n] = more[i - n]
        BY <1>3, <1>4, <3>1
      <4> QED
        BY <3>1, <4>1
    <3> QED
      BY <1>2, <3>1, <3>2, <3>3
  <2> QED
    BY <2>1, <2>2
<1>8. Placed(Places, both, behind, places)
  BY <1>3, <1>4, <1>7 DEF Placed
<1>9. AheadOf(places, 1, behind) \subseteq AheadOf(first, 1, between)
  <2>1. 1 \in 1..(n + 1)
    BY <1>1
  <2> QED
    BY <1>6, <2>1
<1> QED
  BY <1>8, <1>9 DEF both

-------------------------------------------------------------------------------
(* Prediction: what is left of a text is at its places, and what may come  *)
(* there passes every test that is open.                                   *)

AtPlaces(Places, k, places) ==
  /\ Placed(Places, todo, {<<>>}, places)
  /\ \A test \in tests, tokens \in AheadOf(places, 1, {<<>>}) : Passes(test, tokens)

BodyTypeOK ==
  /\ body = [level |-> body.level, skipping |-> body.skipping]
  /\ body.skipping \in BOOLEAN

\* While the parser skips a broken statement nothing is looked for, and the loop over
\* the statements of the body is what it comes back to.
SkipsToLoop == body.skipping => framed /\ tests = {} /\ todo # <<>>

Predicted(Places, k) ==
  /\ BodyTypeOK
  /\ SkipsToLoop
  /\ \A test \in tests : IsTest(test, k)
  /\ \E places : AtPlaces(Places, k, places)

\* Something is always ahead, if only the end.
LEMMA SomethingIsAhead ==
  ASSUME NEW k \in Nat, NEW Places, Predicts(Places, k), NEW places, AtPlaces(Places, k, places)
  PROVE  AheadOf(places, 1, {<<>>}) \subseteq Seq(EntrySet) /\ AheadOf(places, 1, {<<>>}) # {}
<1>1. CASE 1 \in DOMAIN places
  <2>1. todo[1] \in DOMAIN Places /\ places[1] \in Places[todo[1]]
    BY <1>1 DEF AtPlaces, Placed
  <2>2. places[1].ahead # {} /\ places[1].ahead \subseteq Seq(EntrySet)
    BY <2>1 DEF Predicts
  <2>3. AheadOf(places, 1, {<<>>}) = places[1].ahead
    BY <1>1 DEF AheadOf
  <2> QED
    BY <2>2, <2>3
<1>2. CASE 1 \notin DOMAIN places
  <2>1. AheadOf(places, 1, {<<>>}) = {<<>>}
    BY <1>2 DEF AheadOf
  <2>2. <<>> \in Seq(EntrySet)
    OBVIOUS
  <2>3. {<<>>} \subseteq Seq(EntrySet) /\ {<<>>} # {}
    BY <2>2
  <2> QED
    BY <2>1, <2>3
<1> QED
  BY <1>1, <1>2

\* The rule that is next, at its place, and the rest behind it.
LEMMA NextPlace ==
  ASSUME NEW k \in Nat, NEW Places, Predicts(Places, k), NEW places,
         AtPlaces(Places, k, places), todo # <<>>
  PROVE  /\ rule \in DOMAIN Places /\ places[1] \in Places[rule]
         /\ AheadOf(places, 1, {<<>>}) = places[1].ahead
         /\ \E rest : /\ Placed(Places, Tail(todo), {<<>>}, rest)
                      /\ AheadOf(rest, 1, {<<>>}) \subseteq places[1].behind
<1>1. /\ todo \in Seq(DOMAIN Places) /\ DOMAIN places = DOMAIN todo
      /\ 1 \in DOMAIN todo
      /\ 2 \in 1..(Len(todo) + 1) /\ Tail(todo) = SubSeq(todo, 2, Len(todo))
  BY DEF AtPlaces, Placed
<1>2. /\ todo[1] \in DOMAIN Places /\ places[1] \in Places[todo[1]]
      /\ AheadOf(places, 1 + 1, {<<>>}) \subseteq places[1].behind
  BY <1>1 DEF AtPlaces, Placed
<1>3. rule = todo[1]
  BY <1>1 DEF rule
<1>4. \E rest : /\ Placed(Places, SubSeq(todo, 2, Len(todo)), {<<>>}, rest)
                /\ AheadOf(rest, 1, {<<>>}) = AheadOf(places, 2, {<<>>})
  BY <1>1, RestIsPlaced DEF AtPlaces
<1>5. AheadOf(places, 1, {<<>>}) = places[1].ahead
  BY <1>1 DEF AheadOf
<1>6. AheadOf(places, 2, {<<>>}) \subseteq places[1].behind
  BY <1>2
<1>7. PICK rest : /\ Placed(Places, Tail(todo), {<<>>}, rest)
                  /\ AheadOf(rest, 1, {<<>>}) = AheadOf(places, 2, {<<>>})
  BY <1>1, <1>4, Zenon
<1>8. AheadOf(rest, 1, {<<>>}) \subseteq places[1].behind
  BY <1>6, <1>7, Zenon
<1>9. rule \in DOMAIN Places /\ places[1] \in Places[rule]
  BY <1>2, <1>3, Zenon
<1> QED
  BY <1>5, <1>7, <1>8, <1>9, Zenon

\* The rule goes on in one of its ways.
LEMMA RuleStep ==
  ASSUME NEW k \in Nat, NEW Places, Predicts(Places, k), Predicted(Places, k),
         Doing(rule.kind), rule.kind # "token", NEW way \in Ways(rule),
         Goes(way.rules), tests' \subseteq tests \cup {way.test}
  PROVE  /\ \A test \in tests' : IsTest(test, k)
         /\ \E places : AtPlaces(Places, k, places)'
<1>1. PICK places : AtPlaces(Places, k, places)
  BY DEF Predicted
<1>2. todo # <<>>
  BY DEF Doing
<1>3. PICK rest : /\ Placed(Places, Tail(todo), {<<>>}, rest)
                  /\ AheadOf(rest, 1, {<<>>}) \subseteq places[1].behind
  BY <1>1, <1>2, NextPlace
<1> DEFINE place == places[1]
           own == PlacesOf(Places, way.rules, place.behind)
           ahead == AheadOf(own, 1, place.behind)
<1>4. GoesOn(Places, way, place, k)
  BY <1>1, <1>2, NextPlace DEF Predicts
<1>5. /\ Placed(Places, way.rules, place.behind, own)
      /\ ahead \subseteq place.ahead
      /\ IsTest(way.test, k)
      /\ \A tokens \in ahead : Passes(way.test, tokens)
  BY <1>4 DEF GoesOn
<1> HIDE DEF own
<1>6. PICK both : /\ Placed(Places, way.rules \o Tail(todo), {<<>>}, both)
                  /\ AheadOf(both, 1, {<<>>}) \subseteq ahead
  BY <1>3, <1>5, BothArePlaced
<1>7. AheadOf(places, 1, {<<>>}) = place.ahead
  BY <1>1, <1>2, NextPlace
<1>8. \A test \in tests', tokens \in AheadOf(both, 1, {<<>>}) : Passes(test, tokens)
  BY <1>1, <1>5, <1>6, <1>7 DEF AtPlaces
<1>9. AtPlaces(Places, k, both)'
  BY <1>6, <1>8 DEF Goes, AtPlaces
<1>10. \A test \in tests' : IsTest(test, k)
  BY <1>5 DEF Predicted
<1> QED
  BY <1>9, <1>10

\* A token is taken.
LEMMA TokenTaken ==
  ASSUME NEW k \in Nat, NEW Places, Predicts(Places, k), Predicted(Places, k),
         Doing("token"), NEW next \in Said(rule), Takes(next)
  PROVE  /\ \A test \in tests' : IsTest(test, k)
         /\ \E places : AtPlaces(Places, k, places)'
<1>1. PICK places : AtPlaces(Places, k, places)
  BY DEF Predicted
<1>2. todo # <<>> /\ rule.kind = "token"
  BY DEF Doing
<1>3. PICK rest : /\ Placed(Places, Tail(todo), {<<>>}, rest)
                  /\ AheadOf(rest, 1, {<<>>}) \subseteq places[1].behind
  BY <1>1, <1>2, NextPlace
<1>4. ReadsOn(rule, places[1], k) /\ places[1].behind \subseteq Seq(EntrySet)
  BY <1>1, <1>2, NextPlace DEF Predicts
<1>5. next \in EntrySet
  BY <1>4 DEF ReadsOn
<1>6. \A test \in tests' : \E each \in tests : test = Read(each, next)
  BY DEF Takes
<1>7. ASSUME NEW test \in tests'
      PROVE  IsTest(test, k)
  BY <1>6, ReadIsTest DEF Predicted
<1>8. ASSUME NEW test \in tests', NEW tokens \in AheadOf(rest, 1, {<<>>})
      PROVE  Passes(test, tokens)
  <2>1. PICK each \in tests : test = Read(each, next)
    BY <1>6
  <2>2. tokens \in Seq(EntrySet) /\ tokens \in places[1].behind
    BY <1>3, <1>4
  <2>3. Cut(<<next>> \o tokens, k) \in AheadOf(places, 1, {<<>>})
    BY <1>1, <1>2, <1>4, <2>2, NextPlace DEF ReadsOn
  <2>4. Passes(each, Cut(<<next>> \o tokens, k)) /\ IsTest(each, k)
    BY <1>1, <2>3 DEF AtPlaces, Predicted
  <2>5. <<next>> \o tokens \in Seq(EntrySet)
    BY <1>5, <2>2
  <2>6. Passes(each, <<next>> \o tokens)
    BY <2>4, <2>5, CutPasses
  <2> QED
    BY <1>5, <2>1, <2>2, <2>4, <2>6, ReadPasses
<1>9. todo' = Tail(todo)
  <2>1. Tail(todo) \in Seq(DOMAIN Places)
    BY <1>3 DEF Placed
  <2> QED
    BY <2>1 DEF Takes, Goes
<1>10. AtPlaces(Places, k, rest)'
  BY <1>3, <1>8, <1>9 DEF AtPlaces
<1> QED
  BY <1>7, <1>10

\* A new text.
LEMMA TextStarts ==
  ASSUME NEW k \in Nat, NEW Places, Begins(Places),
         NEW rules \in {Text(root) : root \in Roots} \cup {Item(root) : root \in FramedRoots}
  PROVE  \E places : Placed(Places, rules, {<<>>}, places)
BY DEF Begins, Starts

\* Each step of the derivation is one of the ways of its rule, or takes a token.
LEMMA WaysAreTaken ==
  ASSUME Choose \/ Sequence \/ Enter \/ Return
  PROVE  /\ Doing(rule.kind) /\ rule.kind # "token"
         /\ \E way \in Ways(rule) : Goes(way.rules) /\ tests' \subseteq tests \cup {way.test}
<1>1. ASSUME NEW way, Commits(way)
      PROVE  Goes(way.rules) /\ tests' \subseteq tests \cup {way.test}
  BY <1>1 DEF Commits, Tested
<1>2. CASE Branch
  <2>1. PICK i \in Sound(rule.rules) : Commits(BranchWay(rule, i))
    BY <1>2 DEF Branch
  <2>2. BranchWay(rule, i) \in Ways(rule) /\ Doing("oneOf")
    BY <1>2 DEF Ways, Branch, Doing
  <2> QED
    BY <1>1, <2>1, <2>2 DEF Doing
<1>3. CASE Optional
  <2>1. PICK there \in BOOLEAN : Commits(OptionWay(rule, there))
    BY <1>3 DEF Optional
  <2>2. OptionWay(rule, there) \in Ways(rule) /\ Doing("optional")
    BY <1>3 DEF Ways, Optional, Doing
  <2> QED
    BY <1>1, <2>1, <2>2 DEF Doing
<1>4. CASE Decide
  <2>1. PICK i \in CasesOf(rule) : Commits(CaseWay(rule, i))
    BY <1>4 DEF Decide
  <2>2. CaseWay(rule, i) \in Ways(rule) /\ Doing("switch")
    BY <1>4 DEF Ways, Decide, Doing
  <2> QED
    BY <1>1, <2>1, <2>2 DEF Doing
<1>5. CASE Loop
  <2>1. CASE Doing("many") /\ \E round \in BOOLEAN : Commits(RoundWay(rule, FirstOf(rule.rule), FALSE, round))
    <3>1. PICK round \in BOOLEAN : Commits(RoundWay(rule, FirstOf(rule.rule), FALSE, round))
      BY <2>1
    <3>2. RoundWay(rule, FirstOf(rule.rule), FALSE, round) \in Ways(rule)
      BY <2>1 DEF Ways, Doing
    <3> QED
      BY <1>1, <2>1, <3>1, <3>2 DEF Doing
  <2>2. CASE Doing("loop") /\ \E round \in BOOLEAN : Commits(RoundWay(rule, rule.patterns, rule.stop, round))
    <3>1. PICK round \in BOOLEAN : Commits(RoundWay(rule, rule.patterns, rule.stop, round))
      BY <2>2
    <3>2. RoundWay(rule, rule.patterns, rule.stop, round) \in Ways(rule)
      BY <2>2 DEF Ways, Doing
    <3> QED
      BY <1>1, <2>2, <3>1, <3>2 DEF Doing
  <2> QED
    BY <1>5, <2>1, <2>2 DEF Loop
<1>6. CASE NextClause
  <2>1. Doing("clauses")
    BY <1>6 DEF NextClause
  <2>2. Ways(rule) = {ClauseWay(rule, i) : i \in {n \in Open(rule) : Comes(rule, n)}} \cup {LastClause(rule)}
    BY <2>1 DEF Ways, Doing
  <2>3. \E way \in Ways(rule) : Commits(way)
    <3>1. CASE Commits(LastClause(rule))
      BY <2>2, <3>1
    <3>2. CASE \E i \in {n \in Open(rule) : Comes(rule, n)} : Commits(ClauseWay(rule, i))
      BY <2>2, <3>2
    <3> QED
      BY <1>6, <3>1, <3>2 DEF NextClause
  <2> QED
    BY <1>1, <2>1, <2>3 DEF Doing
<1>7. CASE Sequence
  <2>1. Way(rule.rules, NoTest) \in Ways(rule)
    BY <1>7 DEF Sequence, Ways, Doing
  <2> QED
    BY <1>7, <2>1 DEF Sequence, Way, Doing
<1>8. CASE Enter
  <2>1. CASE Doing("ref") /\ Goes(<<Grammar(rule.name)>>)
    <3>1. Way(<<Grammar(rule.name)>>, NoTest) \in Ways(rule)
      BY <2>1 DEF Ways, Doing
    <3> QED
      BY <1>8, <2>1, <3>1 DEF Enter, Way, Doing
  <2>2. CASE (Doing("custom") \/ Doing("attempt")) /\ Goes(<<rule.rule>>)
    <3>1. Way(<<rule.rule>>, NoTest) \in Ways(rule)
      BY <2>2 DEF Ways, Doing
    <3> QED
      BY <1>8, <2>2, <3>1 DEF Enter, Way, Doing
  <2> QED
    BY <1>8, <2>1, <2>2 DEF Enter
<1>9. CASE Return
  <2>1. EndWay(rule) \in Ways(rule)
    BY <1>9 DEF Return, Ways, Doing
  <2> QED
    BY <1>1, <1>9, <2>1 DEF Return, Doing
<1> QED
  BY <1>2, <1>3, <1>4, <1>5, <1>6, <1>7, <1>8, <1>9 DEF Choose

\* What has begun at places stays at places, however the parser goes on.
LEMMA PredictedStep ==
  ASSUME NEW k \in Nat, NEW Places, Predicts(Places, k), Begins(Places),
         Predicted(Places, k), [ScriptNext]_scriptVars
  PROVE  Predicted(Places, k)'
<1>1. BodyTypeOK /\ SkipsToLoop
  BY DEF Predicted
<1>2. ASSUME tests' = {},
             NEW rules \in {Text(root) : root \in Roots} \cup {Item(root) : root \in FramedRoots},
             todo' = rules, BodyTypeOK', ~body'.skipping
      PROVE  Predicted(Places, k)'
  <2>1. PICK places : Placed(Places, rules, {<<>>}, places)
    BY <1>2, TextStarts
  <2>2. AtPlaces(Places, k, places)'
    BY <1>2, <2>1 DEF AtPlaces
  <2> QED
    BY <1>2, <2>2 DEF Predicted, SkipsToLoop
<1>3. CASE MetaCommand \/ NextItem
  <2>1. PICK root \in FramedRoots : todo' = Item(root)
    BY <1>3 DEF MetaCommand, NextItem
  <2>2. tests' = {} /\ body' = NoBody
    BY <1>3 DEF MetaCommand, NextItem
  <2>3. BodyTypeOK' /\ ~body'.skipping
    BY <2>2 DEF NoBody, BodyTypeOK
  <2> QED
    BY <1>2, <2>1, <2>2, <2>3
<1>4. CASE Restart /\ UNCHANGED body
  <2>1. PICK root \in Roots : todo' = Text(root)
    BY <1>4 DEF Restart
  <2>2. tests' = {} /\ todo = <<>>
    BY <1>4 DEF Restart
  <2>3. BodyTypeOK' /\ ~body'.skipping
    BY <1>1, <1>4, <2>2 DEF BodyTypeOK, SkipsToLoop
  <2> QED
    BY <1>2, <2>1, <2>2, <2>3
<1>5. CASE Derives /\ UNCHANGED body
  <2>1. ~body.skipping /\ (Choose \/ Sequence \/ Enter \/ Return)
    BY <1>5 DEF Derives
  <2>2. /\ \A test \in tests' : IsTest(test, k)
        /\ \E places : AtPlaces(Places, k, places)'
    BY <2>1, WaysAreTaken, RuleStep
  <2> QED
    BY <1>1, <1>5, <2>1, <2>2 DEF Predicted, BodyTypeOK, SkipsToLoop
<1>6. ASSUME NEW next \in Said(rule), Doing("token"), Takes(next), BodyTypeOK', ~body'.skipping
      PROVE  Predicted(Places, k)'
  <2>1. /\ \A test \in tests' : IsTest(test, k)
        /\ \E places : AtPlaces(Places, k, places)'
    BY <1>6, TokenTaken
  <2> QED
    BY <1>6, <2>1 DEF Predicted, SkipsToLoop
<1>7. CASE ~framed /\ TakeToken /\ UNCHANGED <<framing, body>>
  <2>1. PICK next \in rule.emits : Takes(next) /\ Doing("token")
    BY <1>7 DEF TakeToken
  <2>2. next \in Said(rule)
    BY DEF Said
  <2>3. BodyTypeOK' /\ ~body'.skipping
    BY <1>1, <1>7 DEF BodyTypeOK, SkipsToLoop
  <2> QED
    BY <1>6, <2>1, <2>2, <2>3
<1>8. CASE FollowToken
  <2>1. PICK next \in Said(rule) : Takes(next)
    BY <1>8 DEF FollowToken
  <2>2. /\ Doing("token") /\ ~body.skipping
        /\ body' = IF rule = kw("atomic") THEN [body EXCEPT !.level = routine.depth] ELSE body
    BY <1>8 DEF FollowToken
  <2>3. BodyTypeOK' /\ ~body'.skipping
    BY <1>1, <2>2 DEF BodyTypeOK
  <2> QED
    BY <1>6, <2>1, <2>2, <2>3
<1>9. CASE Breaks
  <2>1. PICK i \in DOMAIN todo : todo[i] = BodyLoop /\ todo' = SubSeq(todo, i, Len(todo))
    BY <1>9 DEF Breaks
  <2>2. PICK places : AtPlaces(Places, k, places)
    BY DEF Predicted
  <2>3. todo \in Seq(DOMAIN Places) /\ i \in 1..Len(todo) /\ i \in 1..(Len(todo) + 1)
    BY <2>1, <2>2 DEF AtPlaces, Placed
  <2>4. PICK rest : Placed(Places, SubSeq(todo, i, Len(todo)), {<<>>}, rest)
    BY <2>2, <2>3, RestIsPlaced DEF AtPlaces
  <2>5. tests' = {} /\ framed' /\ body' = [body EXCEPT !.skipping = TRUE]
    BY <1>9 DEF Breaks, framing
  <2>6. AtPlaces(Places, k, rest)'
    BY <2>1, <2>4, <2>5 DEF AtPlaces
  <2>7. SubSeq(todo, i, Len(todo)) # <<>>
    <3>1. i \in Nat /\ Len(todo) \in Nat /\ i <= Len(todo)
      BY <2>3
    <3>2. Len(SubSeq(todo, i, Len(todo))) = Len(todo) - i + 1
      BY <2>3, <3>1
    <3> QED
      BY <3>1, <3>2
  <2>8. SkipsToLoop'
    BY <2>1, <2>5, <2>7 DEF SkipsToLoop
  <2>9. BodyTypeOK'
    BY <1>1, <2>5 DEF BodyTypeOK
  <2> QED
    BY <2>5, <2>6, <2>8, <2>9 DEF Predicted
<1>10. CASE ResumeAtEnd
  <2>1. /\ tests = {} /\ todo # <<>> /\ tests' = tests
        /\ body' = [body EXCEPT !.skipping = FALSE]
    BY <1>1, <1>10 DEF ResumeAtEnd, SkipsToLoop
  <2>2. PICK places : AtPlaces(Places, k, places)
    BY DEF Predicted
  <2>3. PICK rest : Placed(Places, Tail(todo), {<<>>}, rest)
    BY <2>1, <2>2, NextPlace
  <2>4. todo' = Tail(todo)
    <3>1. Tail(todo) \in Seq(DOMAIN Places)
      BY <2>3 DEF Placed
    <3> QED
      BY <1>10, <3>1 DEF ResumeAtEnd, Goes
  <2>5. AtPlaces(Places, k, rest)'
    BY <2>1, <2>3, <2>4 DEF AtPlaces
  <2>6. BodyTypeOK' /\ SkipsToLoop'
    BY <1>1, <2>1 DEF BodyTypeOK, SkipsToLoop
  <2> QED
    BY <2>1, <2>5, <2>6 DEF Predicted
<1>11. ASSUME UNCHANGED vars, BodyTypeOK', SkipsToLoop'
       PROVE  Predicted(Places, k)'
  <2>1. PICK places : AtPlaces(Places, k, places)
    BY DEF Predicted
  <2>2. AtPlaces(Places, k, places)'
    BY <1>11, <2>1 DEF AtPlaces, vars
  <2> QED
    BY <1>11, <2>2 DEF Predicted, vars
<1>12. CASE SkipToken
  <2>1. /\ body.skipping /\ UNCHANGED <<todo, tests, framed>>
        /\ \E next : body' = [body EXCEPT !.skipping = ~EndsBroken(next)]
    BY <1>12 DEF SkipToken, vars
  <2>2. BodyTypeOK' /\ SkipsToLoop'
    BY <1>1, <2>1 DEF BodyTypeOK, SkipsToLoop
  <2> QED
    BY <1>11, <2>1, <2>2 DEF vars
<1>13. CASE UNCHANGED scriptVars
  <2>1. BodyTypeOK' /\ SkipsToLoop'
    BY <1>1, <1>13 DEF BodyTypeOK, SkipsToLoop, scriptVars, vars, framing
  <2> QED
    BY <1>11, <1>13, <2>1 DEF scriptVars
<1> QED
  BY <1>3, <1>4, <1>5, <1>7, <1>8, <1>9, <1>10, <1>12, <1>13 DEF ScriptNext

\* A grammar that can be read by looking k tokens ahead, for any k: of every text that it
\* derives, of any length and depth, what is left stays at its places, and passes what
\* the parser looks for.
THEOREM TextsAreRead ==
  ASSUME NEW k \in Nat, NEW Places, Predicts(Places, k), Begins(Places)
  PROVE  ScriptSpec => []Predicted(Places, k)
<1>1. ScriptInit => Predicted(Places, k)
  <2> SUFFICES ASSUME ScriptInit
               PROVE  Predicted(Places, k)
    OBVIOUS
  <2>1. /\ tests = {} /\ body = NoBody
        /\ todo \in {Text(root) : root \in Roots} \cup {Item(root) : root \in FramedRoots}
    BY DEF ScriptInit, NewFraming
  <2>2. \E places : AtPlaces(Places, k, places)
    BY <2>1, TextStarts DEF AtPlaces
  <2>3. BodyTypeOK /\ SkipsToLoop
    BY <2>1 DEF NoBody, BodyTypeOK, SkipsToLoop
  <2> QED
    BY <2>1, <2>2, <2>3 DEF Predicted
<1>2. Predicted(Places, k) /\ [ScriptNext]_scriptVars => Predicted(Places, k)'
  BY PredictedStep
<1> QED
  BY <1>1, <1>2, PTL DEF ScriptSpec

\* Where what is ahead passes the tests, none has come out the other way.
LEMMA PredictedIsTaken ==
  ASSUME NEW k \in Nat, NEW Places, Predicts(Places, k), Predicted(Places, k)
  PROVE  BranchIsTaken /\ NothingIsSwallowed
<1>1. PICK places : AtPlaces(Places, k, places)
  BY DEF Predicted
<1>2. PICK tokens \in AheadOf(places, 1, {<<>>}) : tokens \in Seq(EntrySet)
  BY <1>1, SomethingIsAhead
<1>3. \A test \in tests : test \in Tests /\ Passes(test, tokens)
  BY <1>1, <1>2 DEF AtPlaces, Predicted, IsTest
<1> QED
  BY <1>2, <1>3, PassesNow DEF BranchIsTaken, NothingIsSwallowed

\* In such a grammar every branch that is derived is the one that the parser takes.
THEOREM EachBranchIsTaken ==
  ASSUME NEW k \in Nat, NEW Places, Predicts(Places, k), Begins(Places)
  PROVE  ScriptSpec => []BranchIsTaken
<1>1. Predicted(Places, k) => BranchIsTaken
  BY PredictedIsTaken
<1>2. ScriptSpec => []Predicted(Places, k)
  BY TextsAreRead
<1> QED
  BY <1>1, <1>2, PTL

\* In such a grammar no optional clause, loop or earlier branch takes what comes after it.
THEOREM NoneIsSwallowed ==
  ASSUME NEW k \in Nat, NEW Places, Predicts(Places, k), Begins(Places)
  PROVE  ScriptSpec => []NothingIsSwallowed
<1>1. Predicted(Places, k) => NothingIsSwallowed
  BY PredictedIsTaken
<1>2. ScriptSpec => []Predicted(Places, k)
  BY TextsAreRead
<1> QED
  BY <1>1, <1>2, PTL

\* The choices of a grammar that are all checked beforehand never throw later.
THEOREM NoChoiceThrows ==
  ASSUME NEW k \in Nat, NEW Places, Predicts(Places, k), Begins(Places), Disjoint(Places)
  PROVE  ScriptSpec => []ChoicesAreDisjoint
<1>1. Predicted(Places, k) => ChoicesAreDisjoint
  <2> SUFFICES ASSUME Predicted(Places, k), Doing("oneOf")
               PROVE  Validates(rule.rules)
    BY DEF ChoicesAreDisjoint
  <2>1. PICK places : AtPlaces(Places, k, places)
    BY DEF Predicted
  <2>2. rule \in DOMAIN Places
    BY <2>1, NextPlace DEF Doing
  <2> QED
    BY <2>2 DEF Disjoint, Doing
<1>2. ScriptSpec => []Predicted(Places, k)
  BY TextsAreRead
<1> QED
  BY <1>1, <1>2, PTL
================================================================================
