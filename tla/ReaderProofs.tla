----------------------------- MODULE ReaderProofs -----------------------------
(***************************************************************************)
(* What a reader makes of a text, whatever the text and the options of the *)
(* reader are: a token or an error that takes at least one character, with *)
(* a span within what it takes, or null.                                   *)
(***************************************************************************)
EXTENDS Readers, Induction

-------------------------------------------------------------------------------
(* What the scans find. *)

TextOK == text \in Seq(Chars)

LEMMA CharFacts ==
  ASSUME TextOK, NEW p \in Nat
  PROVE  /\ Len(text) \in Nat
         /\ p < Len(text) => Char(p) \in Chars
         /\ p >= Len(text) => Char(p) = Nothing
         /\ Char(p) \in Chars <=> p < Len(text)
<1>1. Len(text) \in Nat /\ (p < Len(text) => text[p + 1] \in Chars)
  BY DEF TextOK
<1> QED
  BY <1>1, CharsAssumption DEF Char

LEMMA LargestIs ==
  ASSUME NEW N \in Nat, NEW numbers, numbers \subseteq 0..N, numbers # {}
  PROVE  Largest(numbers) \in numbers /\ \A m \in numbers : m <= Largest(numbers)
BY Greatest DEF Largest

LEMMA RunIs ==
  ASSUME TextOK, NEW p \in Nat, NEW class, class \subseteq Chars
  PROVE  /\ RunOf(p, class) \in 0..Len(text)
         /\ \A i \in 0..(RunOf(p, class) - 1) : Char(p + i) \in class
         /\ Char(p + RunOf(p, class)) \notin class
         /\ p <= Len(text) => p + RunOf(p, class) <= Len(text)
         /\ Char(p) \in class => RunOf(p, class) > 0
<1> DEFINE Ends == {n \in Nat : Char(p + n) \notin class}
           IsRun(n) == /\ \A i \in 0..(n - 1) : Char(p + i) \in class
                       /\ Char(p + n) \notin class
<1>1. Len(text) \in Ends /\ Len(text) \in Nat
  <2>1. Len(text) \in Nat /\ p + Len(text) \in Nat /\ p + Len(text) >= Len(text)
    BY CharFacts
  <2>2. Char(p + Len(text)) \notin Chars
    BY <2>1, CharFacts
  <2> QED
    BY <2>1, <2>2
<1>2. PICK n \in Ends : \A m \in Ends : n <= m
  <2>1. Ends \subseteq Nat /\ Ends # {}
    BY <1>1
  <2> HIDE DEF Ends
  <2> QED
    BY <2>1, Least
<1>3. n \in 0..Len(text)
  BY <1>1, <1>2
<1>4. IsRun(n)
  <2>1. ASSUME NEW i \in 0..(n - 1) PROVE Char(p + i) \in class
    <3>1. i \notin Ends /\ i \in Nat
      BY <1>2, <2>1
    <3> QED
      BY <3>1
  <2> QED
    BY <1>2, <2>1
<1>5. RunOf(p, class) \in 0..Len(text) /\ IsRun(RunOf(p, class))
  <2>1. RunOf(p, class) = CHOOSE k \in 0..Len(text) : IsRun(k)
    BY DEF RunOf
  <2> HIDE DEF IsRun
  <2> QED
    BY <1>3, <1>4, <2>1
<1> DEFINE run == RunOf(p, class)
<1> HIDE DEF run
<1>6. run \in 0..Len(text) /\ IsRun(run)
  BY <1>5 DEF run
<1>7. p <= Len(text) => p + run <= Len(text)
  <2>1. CASE run = 0
    BY <2>1
  <2>2. CASE run > 0
    <3>1. run - 1 \in 0..(run - 1) /\ p + (run - 1) \in Nat
      BY <1>1, <1>6, <2>2
    <3>2. Char(p + (run - 1)) \in Chars
      BY <1>6, <3>1
    <3>3. p + (run - 1) < Len(text)
      BY <3>1, <3>2, CharFacts
    <3> QED
      BY <1>1, <1>6, <3>3
  <2> QED
    BY <1>1, <1>6, <2>1, <2>2
<1>8. Char(p) \in class => run > 0
  <2>1. run = 0 => p + run = p
    OBVIOUS
  <2> QED
    BY <1>1, <1>6, <2>1
<1> QED
  BY <1>6, <1>7, <1>8 DEF run

LEMMA StartsWithin ==
  ASSUME TextOK, NEW p \in Nat, NEW seq \in Seq(Chars), seq # <<>>, StartsWith(p, seq)
  PROVE  p + Len(seq) <= Len(text)
<1>1. Len(seq) \in 1..Len(seq) /\ Len(seq) \in Nat /\ seq[Len(seq)] \in Chars
  OBVIOUS
<1>2. Char(p + Len(seq) - 1) \in Chars /\ p + Len(seq) - 1 \in Nat
  BY <1>1 DEF StartsWith
<1> QED
  BY <1>1, <1>2, CharFacts

LEMMA FindIs ==
  ASSUME TextOK, NEW p \in Nat, p <= Len(text), NEW seq
  PROVE  /\ Find(p, seq) \in p..Len(text)
         /\ Find(p, seq) # Len(text) => StartsWith(Find(p, seq), seq)
         /\ \A i \in p..(Find(p, seq) - 1) : ~StartsWith(i, seq)
<1> DEFINE Places == {q \in p..Len(text) : q = Len(text) \/ StartsWith(q, seq)}
           IsFirst(q) == /\ q = Len(text) \/ StartsWith(q, seq)
                         /\ \A i \in p..(q - 1) : ~StartsWith(i, seq)
<1>1. Len(text) \in Nat
  BY CharFacts
<1>2. PICK q \in Places : \A i \in Places : q <= i
  <2>1. Places \subseteq Nat /\ Len(text) \in Places
    BY <1>1
  <2> HIDE DEF Places
  <2> QED
    BY <2>1, Least
<1>3. q \in p..Len(text) /\ IsFirst(q)
  <2>1. ASSUME NEW i \in p..(q - 1) PROVE ~StartsWith(i, seq)
    <3>1. i \in p..Len(text) /\ i < q
      BY <1>1, <1>2
    <3> QED
      BY <1>1, <1>2, <3>1
  <2> QED
    BY <1>2, <2>1
<1>4. Find(p, seq) = CHOOSE i \in p..Len(text) : IsFirst(i)
  BY DEF Find
<1>5. Find(p, seq) \in p..Len(text) /\ IsFirst(Find(p, seq))
  <2> HIDE DEF IsFirst
  <2> QED
    BY <1>3, <1>4
<1> QED
  BY <1>5

LEMMA PartOfText ==
  ASSUME TextOK, NEW p \in Nat, NEW q \in Nat, q <= Len(text)
  PROVE  Between(p, q) \in Seq(Chars)
BY DEF TextOK, Between

-------------------------------------------------------------------------------
(* Numbers. *)

\* What Without keeps of a beginning of the value.
IsKept(value, class, kept) ==
  \A n \in 0..Len(value) :
    /\ kept[n] \in Seq(Chars)
    /\ kept[n] = IF n = 0 THEN <<>>
                 ELSE IF value[n] \in class THEN kept[n - 1] ELSE Append(kept[n - 1], value[n])

LEMMA WithoutScan ==
  ASSUME NEW value \in Seq(Chars), NEW class
  PROVE  \E kept : Without(value, class) = kept[Len(value)] /\ IsKept(value, class, kept)
<1> DEFINE L == Len(value)
           D == 0..L
           V == Seq(Chars)
           Right(f) == [n \in D |-> IF n = 0 THEN <<>>
                                    ELSE IF value[n] \in class THEN f[n - 1]
                                    ELSE Append(f[n - 1], value[n])]
           step == [f \in [D -> V] |-> Right(f)]
           kept == CHOOSE f : f = Right(f)
           Typed == {n \in D : kept[n] \in V}
<1>1. /\ IsRange(D, L) /\ L \in D /\ V # {} /\ <<>> \in V
      /\ \A n \in D : n # 0 => n - 1 \in D /\ n - 1 < n /\ value[n] \in Chars
  <2>1. <<>> \in V
    OBVIOUS
  <2> QED
    BY <2>1 DEF IsRange
<1>2. ASSUME NEW f, NEW n \in D
      PROVE  Right(f)[n] = IF n = 0 THEN <<>>
                           ELSE IF value[n] \in class THEN f[n - 1] ELSE Append(f[n - 1], value[n])
  BY <1>2, Zenon
<1>3. ASSUME NEW f PROVE Right(f) = [n \in D |-> Right(f)[n]]
  BY Zenon
<1>4. Without(value, class) = kept[L]
  BY Zenon DEF Without
<1> HIDE DEF Right
<1>5. ASSUME NEW f, NEW n \in D, n # 0 => f[n - 1] \in V PROVE Right(f)[n] \in V
  <2>1. n # 0 => Append(f[n - 1], value[n]) \in V
    BY <1>1, <1>5
  <2> HIDE DEF V, D
  <2> QED
    BY <1>1, <1>2, <1>5, <2>1, Zenon
<1>6. \E f \in [D -> V] : f = step[f]
  <2>1. IsStep(D, V, step)
    <3>1. ASSUME NEW f \in [D -> V], NEW n \in D PROVE Right(f)[n] \in V
      <4> HIDE DEF V, D
      <4> QED
        BY <1>1, <1>5, <3>1
    <3> QED
      BY <1>3, <3>1 DEF IsStep
  <2>2. LooksBack(D, V, step)
    <3>1. ASSUME NEW f \in [D -> V], NEW g \in [D -> V], NEW n \in D,
                 \A m \in D : m < n => f[m] = g[m]
          PROVE  step[f][n] = step[g][n]
      <4>1. n # 0 => f[n - 1] = g[n - 1]
        <5> HIDE DEF V, D
        <5> QED
          BY <1>1, <3>1
      <4>2. Right(f)[n] = Right(g)[n]
        BY <1>2, <3>1, <4>1, Zenon
      <4> QED
        BY <3>1, <4>2
    <3> QED
      BY <3>1 DEF LooksBack
  <2> HIDE DEF L, D, V, step
  <2> QED
    BY <1>1, <2>1, <2>2, Upward
<1>7. kept = Right(kept)
  <2>1. \E f : f = Right(f)
    BY <1>6
  <2> QED
    BY <2>1, Zenon
<1> HIDE DEF kept
<1>8. D \subseteq Typed
  <2>1. ASSUME NEW n \in D, \A m \in D : m < n => m \in Typed PROVE n \in Typed
    <3>1. n # 0 => kept[n - 1] \in V
      <4>1. n # 0 => n - 1 \in Typed
        <5> HIDE DEF V, D, Typed
        <5> QED
          BY <1>1, <2>1
      <4> QED
        BY <4>1
    <3>2. Right(kept)[n] \in V
      BY <1>5, <2>1, <3>1
    <3> QED
      BY <1>7, <2>1, <3>2
  <2>2. \A n \in D : (\A m \in D : m < n => m \in Typed) => n \in Typed
    BY <2>1
  <2> HIDE DEF Typed, L, D
  <2> QED
    BY <1>1, <2>2, UpInduction
<1>9. ASSUME NEW n \in D
      PROVE  /\ kept[n] \in V
             /\ kept[n] = IF n = 0 THEN <<>>
                          ELSE IF value[n] \in class THEN kept[n - 1] ELSE Append(kept[n - 1], value[n])
  BY <1>2, <1>7, <1>8, <1>9, Zenon
<1> QED
  BY <1>4, <1>9 DEF IsKept

LEMMA WithoutIs ==
  ASSUME NEW value \in Seq(Chars), NEW class
  PROVE  Without(value, class) \in Seq(Chars)
<1>1. PICK kept : Without(value, class) = kept[Len(value)] /\ IsKept(value, class, kept)
  BY WithoutScan
<1>2. Len(value) \in 0..Len(value)
  OBVIOUS
<1> QED
  BY <1>1, <1>2, Zenon DEF IsKept

Runs == [value : Seq(Chars), pos : 0..Len(text), slot : Nat]

\* A run of digits goes on at p, and is all of p..q.
HasDigit(r, digits, p) ==
  Char(p) \in digits \/ (Char(p) \in r.separators /\ Char(p + 1) \in digits)

IsDigits(r, digits, p, q) ==
  /\ q \in p..Len(text) /\ ~HasDigit(r, digits, q)
  /\ \A i \in p..(q - 1) : HasDigit(r, digits, i)

\* What readDigitRun makes of a run, up to end.
IsDigitRun(r, run, digits, end, last) ==
  /\ readDigitRun(r, run, digits) =
       [value |-> run.value \o Without(Between(run.pos, end), r.separators),
        pos |-> end, slot |-> last]
  /\ end \in run.pos..Len(text) /\ last \in Nat
  /\ Char(run.pos) \in digits => end > run.pos /\ IsDigits(r, digits, run.pos, end)
  /\ Char(run.pos) \notin digits => end = run.pos
  /\ end = run.pos => last = run.slot

LEMMA DigitScan ==
  ASSUME TextOK, NEW r, NEW run \in Runs, NEW digits, digits \subseteq Chars
  PROVE  \E end, last : IsDigitRun(r, run, digits, end, last)
<1> DEFINE L == Len(text)
           D == 0..L
           GoesOn(p) == HasDigit(r, digits, p)
           Right(f) == [p \in D |->
                          IF Char(p) \in digits \/ (Char(p) \in r.separators /\ Char(p + 1) \in digits)
                          THEN f[p + 1] ELSE p]
           step == [f \in [D -> D] |-> Right(f)]
           ends == CHOOSE f : f = Right(f)
           Behind == {p \in D : IsDigits(r, digits, p, ends[p])}
<1>1. L \in Nat /\ IsRange(D, L) /\ D # {} /\ run.pos \in D /\ \A p \in D : p \in Nat /\ p <= L
  BY CharFacts DEF IsRange, Runs
<1>2. ASSUME NEW p \in D, GoesOn(p) PROVE p + 1 \in D /\ p + 1 > p
  <2>1. p < L
    BY <1>1, <1>2, CharFacts DEF HasDigit
  <2> QED
    BY <1>1, <2>1
<1>3. ASSUME NEW f PROVE Right(f) = [p \in D |-> IF GoesOn(p) THEN f[p + 1] ELSE p]
  BY Zenon DEF HasDigit
<1> DEFINE end == IF Char(run.pos) \in digits THEN ends[run.pos] ELSE run.pos
           looked == {p \in (run.pos + 1)..end : Char(p) \in r.separators}
           last == IF looked = {} THEN run.slot ELSE Largest(looked)
<1>4. readDigitRun(r, run, digits) =
        [value |-> run.value \o Without(Between(run.pos, end), r.separators),
         pos |-> end, slot |-> last]
  BY Zenon DEF readDigitRun
<1> HIDE DEF Right, GoesOn
<1>5. \E f \in [D -> D] : f = step[f]
  <2>1. IsStep(D, D, step)
    <3>1. ASSUME NEW f \in [D -> D] PROVE Right(f) \in [D -> D]
      BY <1>2, <1>3
    <3> QED
      BY <3>1 DEF IsStep
  <2>2. LooksAhead(D, D, step)
    <3>1. ASSUME NEW f \in [D -> D], NEW g \in [D -> D], NEW p \in D,
                 \A q \in D : q > p => f[q] = g[q]
          PROVE  step[f][p] = step[g][p]
      <4>1. GoesOn(p) => f[p + 1] = g[p + 1]
        BY <1>2, <3>1
      <4>2. Right(f)[p] = Right(g)[p]
        BY <1>3, <3>1, <4>1, Zenon
      <4> QED
        BY <3>1, <4>2
    <3> QED
      BY <3>1 DEF LooksAhead
  <2> HIDE DEF L, D, step
  <2> QED
    BY <1>1, <2>1, <2>2, Downward
<1>6. \A p \in D : ends[p] = IF GoesOn(p) THEN ends[p + 1] ELSE p
  <2>1. ends = Right(ends)
    BY <1>5
  <2> HIDE DEF ends
  <2>2. Right(ends) = [p \in D |-> IF GoesOn(p) THEN ends[p + 1] ELSE p]
    BY <1>3
  <2> QED
    BY <2>1, <2>2
<1> HIDE DEF ends
<1>7. ASSUME NEW p \in D, \A q \in D : q > p => q \in Behind PROVE p \in Behind
  <2>1. CASE GoesOn(p)
    <3>1. ends[p] = ends[p + 1] /\ p + 1 \in D /\ p + 1 > p
      BY <1>2, <1>6, <1>7, <2>1
    <3>2. IsDigits(r, digits, p + 1, ends[p])
      BY <1>7, <3>1
    <3>3. ends[p] \in p..L /\ ~HasDigit(r, digits, ends[p])
      BY <1>1, <1>7, <3>2 DEF IsDigits
    <3>4. ASSUME NEW i \in p..(ends[p] - 1) PROVE HasDigit(r, digits, i)
      <4>1. CASE i = p
        BY <2>1, <4>1 DEF GoesOn
      <4>2. CASE i # p
        <5>1. i \in (p + 1)..(ends[p] - 1)
          BY <1>1, <1>7, <3>3, <3>4, <4>2
        <5> QED
          BY <3>2, <5>1 DEF IsDigits
      <4> QED
        BY <4>1, <4>2
    <3> QED
      BY <1>7, <3>3, <3>4 DEF IsDigits
  <2>2. CASE ~GoesOn(p)
    <3>1. ends[p] = p /\ p \in p..L /\ p - 1 < p
      BY <1>1, <1>6, <1>7, <2>2
    <3>2. IsDigits(r, digits, p, p)
      BY <1>1, <1>7, <2>2, <3>1 DEF IsDigits, GoesOn
    <3> QED
      BY <1>7, <3>1, <3>2
  <2> QED
    BY <2>1, <2>2
<1>8. D \subseteq Behind
  <2>1. \A p \in D : (\A q \in D : q > p => q \in Behind) => p \in Behind
    BY <1>7
  <2> HIDE DEF Behind, L, D
  <2> QED
    BY <1>1, <2>1, DownInduction
<1>9. /\ end \in run.pos..L
      /\ Char(run.pos) \in digits => end > run.pos /\ IsDigits(r, digits, run.pos, end)
      /\ Char(run.pos) \notin digits => end = run.pos
  <2>1. CASE Char(run.pos) \in digits
    <3>1. GoesOn(run.pos)
      BY <2>1 DEF GoesOn, HasDigit
    <3>2. IsDigits(r, digits, run.pos, ends[run.pos])
      BY <1>1, <1>8
    <3>3. ends[run.pos] \in run.pos..L /\ ~HasDigit(r, digits, ends[run.pos])
      BY <3>2 DEF IsDigits
    <3>4. ends[run.pos] # run.pos
      BY <3>1, <3>3 DEF GoesOn
    <3> QED
      BY <1>1, <2>1, <3>2, <3>3, <3>4
  <2>2. CASE Char(run.pos) \notin digits
    BY <1>1, <2>2
  <2> QED
    BY <2>1, <2>2
<1> HIDE DEF end
<1>10. last \in Nat /\ (end = run.pos => last = run.slot)
  <2>1. looked \subseteq 0..end /\ end \in Nat
    BY <1>1, <1>9
  <2>2. end = run.pos => looked = {}
    BY <1>1
  <2>3. looked # {} => Largest(looked) \in looked
    <3> HIDE DEF looked
    <3> QED
      BY <2>1, LargestIs
  <2>4. run.slot \in Nat
    BY DEF Runs
  <2>5. looked # {} => Largest(looked) \in Nat
    BY <2>1, <2>3
  <2> HIDE DEF looked
  <2> QED
    BY <2>2, <2>4, <2>5
<1> HIDE DEF last
<1> QED
  BY <1>4, <1>9, <1>10 DEF IsDigitRun

\* A run of digits that begins with one is not empty, and a snapshot is taken
\* only behind its beginning.
LEMMA DigitRun ==
  ASSUME TextOK, NEW r, NEW run \in Runs, NEW digits, digits \subseteq Chars,
         r.separators \subseteq Chars
  PROVE  /\ readDigitRun(r, run, digits) \in Runs
         /\ run.pos <= readDigitRun(r, run, digits).pos
         /\ Char(run.pos) \in digits => readDigitRun(r, run, digits).pos > run.pos
         /\ readDigitRun(r, run, digits).pos = run.pos => readDigitRun(r, run, digits).slot = run.slot
<1>1. PICK end, last : IsDigitRun(r, run, digits, end, last)
  BY DigitScan
<1> DEFINE value == run.value \o Without(Between(run.pos, end), r.separators)
<1>2. run.pos \in Nat /\ end \in 0..Len(text) /\ run.pos <= end /\ end <= Len(text) /\ end \in Nat
  BY <1>1, CharFacts DEF Runs, IsDigitRun
<1>3. value \in Seq(Chars)
  <2>1. Between(run.pos, end) \in Seq(Chars)
    BY <1>2, PartOfText
  <2>2. Without(Between(run.pos, end), r.separators) \in Seq(Chars)
    BY <2>1, WithoutIs
  <2> QED
    BY <2>2 DEF Runs
<1> HIDE DEF value
<1>4. readDigitRun(r, run, digits) = [value |-> value, pos |-> end, slot |-> last]
  BY <1>1 DEF IsDigitRun, value
<1>5. /\ last \in Nat /\ (Char(run.pos) \in digits => end > run.pos)
      /\ end = run.pos => last = run.slot
  BY <1>1 DEF IsDigitRun
<1> QED
  BY <1>2, <1>3, <1>4, <1>5 DEF Runs

\* A part that goes on with the number never ends before its lead; where digits
\* follow the lead, it ends behind it.
LEMMA PartContinues ==
  ASSUME TextOK, NEW r, NEW run \in Runs, NEW lead \in {1, 2}, run.pos + lead <= Len(text),
         NEW digits, digits \subseteq Chars, r.separators \subseteq Chars
  PROVE  /\ Continued(r, run, lead, digits) \in Runs
         /\ run.pos <= Continued(r, run, lead, digits).pos
         /\ Char(run.pos + lead) \in digits => Continued(r, run, lead, digits).pos > run.pos
<1> DEFINE tried == Provisional(run, lead)
           read == readDigitRun(r, tried, digits)
<1>1. Len(text) \in Nat /\ run.pos \in Nat /\ run.value \in Seq(Chars)
  BY CharFacts DEF Runs
<1>2. Ahead(run.pos, lead) \in Seq(Chars)
  BY <1>1 DEF Ahead, TextOK
<1>3. tried \in Runs /\ tried.pos = run.pos + lead /\ tried.slot = run.pos
  BY <1>1, <1>2 DEF Provisional, Runs
<1> HIDE DEF tried
<1>4. /\ read \in Runs /\ tried.pos <= read.pos
      /\ Char(tried.pos) \in digits => read.pos > tried.pos
      /\ read.pos = tried.pos => read.slot = tried.slot
  BY <1>3, DigitRun
<1>5. Continued(r, run, lead, digits) = Reloaded(run, lead, read)
  BY DEF Continued, tried
<1> HIDE DEF read
<1>6. CASE read.pos > run.pos + lead
  BY <1>1, <1>3, <1>4, <1>5, <1>6 DEF Reloaded, Runs
<1>7. CASE ~(read.pos > run.pos + lead)
  <2>1. read.pos = tried.pos /\ read.slot = run.pos
    BY <1>1, <1>3, <1>4, <1>7 DEF Runs
  <2>2. Reloaded(run, lead, read) = [value |-> run.value, pos |-> run.pos, slot |-> run.pos]
    BY <1>7, <2>1 DEF Reloaded
  <2> QED
    BY <1>1, <1>3, <1>4, <1>5, <1>7, <2>2 DEF Runs
<1> QED
  BY <1>6, <1>7

LEMMA NumberOptions ==
  ASSUME NEW r, r \in NumberReader
  PROVE  /\ r.digits \subseteq Chars /\ r.signs \subseteq Chars /\ r.points \subseteq Chars
         /\ r.leading \subseteq Chars /\ r.exponents \subseteq Chars /\ r.expSigns \subseteq Chars
         /\ r.separators \subseteq Chars /\ r.zero \in Chars
         /\ \A form \in r.radix : form.marker \in Chars /\ form.digits \subseteq Chars
BY DEF NumberReader

LEMMA UnsignedIs ==
  ASSUME TextOK, NEW r, r \in NumberReader, r.leading \subseteq r.points, NEW begin \in Runs
  PROVE  /\ readSigned(r, begin) \in Runs /\ begin.pos <= readSigned(r, begin).pos
         /\ \/ Char(begin.pos) \in r.digits
            \/ Char(begin.pos) \in r.leading /\ Char(begin.pos + 1) \in r.digits
            => readSigned(r, begin).pos > begin.pos
<1> DEFINE radix == readRadix(r, begin)
           int == readDigitRun(r, radix, r.digits)
           mantissa == readFraction(r, int)
<1> USE NumberOptions
<1>1. Len(text) \in Nat /\ \A run \in Runs : run.pos \in 0..Len(text) /\ run.pos \in Nat
  BY CharFacts DEF Runs
<1>2. \A p \in 0..Len(text) : /\ Char(p) \in Chars => p + 1 <= Len(text)
                              /\ Char(p + 1) \in Chars => p + 2 <= Len(text)
  BY <1>1, CharFacts
<1>3. radix \in Runs /\ begin.pos <= radix.pos
  <2> DEFINE forms == radixForms(r, begin.pos)
  <2>1. CASE forms = {}
    BY <1>1, <2>1 DEF readRadix
  <2>2. CASE forms # {}
    <3>1. PICK form \in forms : form = CHOOSE f \in forms : TRUE
      BY <2>2
    <3>2. form.digits \subseteq Chars /\ begin.pos + 2 <= Len(text)
      BY <1>1, <1>2, <3>1 DEF radixForms
    <3>3. radix = Continued(r, begin, 2, form.digits)
      BY <2>2, <3>1 DEF readRadix
    <3> HIDE DEF radix
    <3> QED
      BY <3>2, <3>3, PartContinues
  <2> QED
    BY <2>1, <2>2
<1> HIDE DEF radix
<1>4. /\ int \in Runs /\ radix.pos <= int.pos
      /\ Char(radix.pos) \in r.digits => int.pos > radix.pos
  BY <1>3, DigitRun
<1> HIDE DEF int
<1>5. /\ mantissa \in Runs /\ int.pos <= mantissa.pos
      /\ Char(int.pos) \in r.points /\ Char(int.pos + 1) \in r.digits => mantissa.pos > int.pos
  <2>1. CASE Char(int.pos) \in r.points
    <3>1. mantissa = Continued(r, int, 1, r.digits) /\ int.pos + 1 <= Len(text)
      BY <1>1, <1>2, <1>4, <2>1 DEF readFraction
    <3> HIDE DEF mantissa
    <3> QED
      BY <1>4, <3>1, PartContinues
  <2>2. CASE Char(int.pos) \notin r.points
    BY <1>1, <1>4, <2>2 DEF readFraction
  <2> QED
    BY <2>1, <2>2
<1> HIDE DEF mantissa
<1> DEFINE exponent == readExponent(r, radix, mantissa)
<1>6. exponent \in Runs /\ mantissa.pos <= exponent.pos
  <2> DEFINE lead == IF Char(mantissa.pos + 1) \in r.expSigns THEN 2 ELSE 1
  <2>1. CASE mantissa.pos > radix.pos /\ Char(mantissa.pos) \in r.exponents
    <3>1. exponent = Continued(r, mantissa, lead, r.digits)
      BY <2>1 DEF readExponent
    <3>2. lead \in {1, 2} /\ mantissa.pos + lead <= Len(text)
      BY <1>1, <1>2, <1>5, <2>1
    <3> HIDE DEF exponent, lead
    <3> QED
      BY <1>5, <3>1, <3>2, PartContinues
  <2>2. CASE ~(mantissa.pos > radix.pos /\ Char(mantissa.pos) \in r.exponents)
    BY <1>1, <1>5, <2>2 DEF readExponent
  <2> QED
    BY <2>1, <2>2
<1>7. readSigned(r, begin) = IF radix.pos > begin.pos THEN radix ELSE exponent
  BY DEF readSigned, readUnsigned, radix, int, mantissa
<1> HIDE DEF exponent
<1>8. CASE radix.pos > begin.pos
  BY <1>1, <1>3, <1>7, <1>8
<1>9. CASE ~(radix.pos > begin.pos)
  <2>1. radix.pos = begin.pos /\ readSigned(r, begin) = exponent
    BY <1>1, <1>3, <1>7, <1>9
  <2>2. begin.pos <= exponent.pos
    BY <1>1, <1>3, <1>4, <1>5, <1>6, <2>1
  <2>3. Char(begin.pos) \in r.digits => exponent.pos > begin.pos
    BY <1>1, <1>3, <1>4, <1>5, <1>6, <2>1
  <2>4. ASSUME Char(begin.pos) \in r.leading, Char(begin.pos + 1) \in r.digits
        PROVE  exponent.pos > begin.pos
    <3>1. CASE int.pos = radix.pos
      BY <1>1, <1>3, <1>4, <1>5, <1>6, <2>1, <2>4, <3>1
    <3>2. CASE int.pos # radix.pos
      BY <1>1, <1>3, <1>4, <1>5, <1>6, <2>1, <3>2
    <3> QED
      BY <3>1, <3>2
  <2> QED
    BY <1>6, <2>1, <2>2, <2>3, <2>4
<1> QED
  BY <1>8, <1>9

-------------------------------------------------------------------------------
(* What a reader may answer. *)

TypesOf(r) == IF r.kind = "string" THEN {r.type, r.blockType} ELSE {r.type}

IsSpan(start, end, to) ==
  /\ start \in Nat /\ end \in Nat /\ to \in Nat
  /\ at.pos <= start /\ start <= end /\ end <= to /\ at.pos < to

IsToken(r, result) ==
  \E type \in TypesOf(r), value \in Seq(Chars), start, end, to \in Nat :
    result = Token(type, value, start, end, to) /\ IsSpan(start, end, to)

IsError(result) ==
  \E start, to \in Nat : result = Unterminated(start, to) /\ IsSpan(start, to, to)

IsAnswer(r, result) == result = Null \/ IsToken(r, result) \/ IsError(result)

\* A reader is asked where there is a character.
Reading == TextOK /\ at \in Place /\ slot \in Place /\ ~Eof

LEMMA ReadingAt ==
  ASSUME Reading
  PROVE  /\ at.pos \in Nat /\ slot.pos \in Nat /\ Len(text) \in Nat
         /\ at.pos < Len(text) /\ at.pos + 1 <= Len(text)
<1>1. at.pos \in Nat /\ slot.pos \in Nat
  BY DEF Reading, Place
<1> QED
  BY <1>1, CharFacts DEF Reading, Eof

LEMMA SpanningIs ==
  ASSUME NEW r, r.type \in TypesOf(r), at.pos \in Nat, NEW value \in Seq(Chars),
         NEW to \in Nat, at.pos < to
  PROVE  IsAnswer(r, Spanning(r, value, to))
<1>1. Spanning(r, value, to) = Token(r.type, value, at.pos, to, to)
  BY DEF Spanning
<1>2. IsSpan(at.pos, to, to)
  BY DEF IsSpan
<1> QED
  BY <1>1, <1>2, Zenon DEF IsAnswer, IsToken

LEMMA OwnType == ASSUME NEW r PROVE r.type \in TypesOf(r)
BY DEF TypesOf

LEMMA NumberIs ==
  ASSUME Reading, NEW r, r \in NumberReader, r.leading \subseteq r.points
  PROVE  IsAnswer(r, number(r))
<1> DEFINE sign == IF Char(at.pos) \in r.signs THEN 1 ELSE 0
           begin == [value |-> Ahead(at.pos, sign), pos |-> at.pos + sign, slot |-> slot.pos]
           read == readSigned(r, begin)
<1>1. sign \in {0, 1} /\ at.pos + sign <= Len(text) /\ (sign = 1 <=> Char(at.pos) \in r.signs)
  BY ReadingAt
<1> HIDE DEF sign
<1>2. begin \in Runs /\ begin.pos = at.pos + sign
  <2>1. Ahead(at.pos, sign) \in Seq(Chars)
    BY <1>1, ReadingAt DEF Ahead, Reading, TextOK
  <2> QED
    BY <1>1, <2>1, ReadingAt DEF Runs
<1> HIDE DEF begin
<1>3. number(r) = IF startsNumber(r) THEN Spanning(r, read.value, read.pos) ELSE Null
  BY DEF number, sign, begin
<1>4. /\ read \in Runs /\ begin.pos <= read.pos
      /\ \/ Char(begin.pos) \in r.digits
         \/ Char(begin.pos) \in r.leading /\ Char(begin.pos + 1) \in r.digits
         => read.pos > begin.pos
  BY <1>2, UnsignedIs DEF Reading
<1> HIDE DEF read
<1>5. read.value \in Seq(Chars) /\ read.pos \in Nat
  BY <1>4 DEF Runs
<1>6. CASE startsNumber(r)
  <2>1. at.pos < read.pos
    <3>1. CASE sign = 1
      BY <1>2, <1>4, <1>5, <3>1, ReadingAt
    <3>2. CASE sign = 0
      <4>1. begin.pos = at.pos
        BY <1>2, <3>2, ReadingAt
      <4> QED
        BY <1>1, <1>4, <1>6, <3>2, <4>1 DEF startsNumber
    <3> QED
      BY <1>1, <3>1, <3>2
  <2> QED
    BY <1>3, <1>5, <1>6, <2>1, SpanningIs, OwnType, ReadingAt
<1> QED
  BY <1>3, <1>6 DEF IsAnswer

LEMMA ErrorIs ==
  ASSUME NEW r, NEW start \in Nat, NEW to \in Nat, at.pos <= start, start <= to, at.pos < to
  PROVE  IsAnswer(r, Unterminated(start, to))
<1>1. IsSpan(start, to, to)
  BY DEF IsSpan
<1> QED
  BY <1>1 DEF IsAnswer, IsError

LEMMA LineIs ==
  ASSUME Reading, NEW r, r.prefix \in Seq(Chars) \ {<<>>}
  PROVE  IsAnswer(r, lineComment(r))
<1> DEFINE from == at.pos + Len(r.prefix)
           to == from + RunOf(from, Chars \ {NewLine})
<1>1. lineComment(r) = IF StartsWith(at.pos, r.prefix) THEN Spanning(r, Between(from, to), to) ELSE Null
  BY DEF lineComment
<1>2. CASE StartsWith(at.pos, r.prefix)
  <2>1. from \in Nat /\ at.pos < from /\ from <= Len(text)
    BY <1>2, ReadingAt, StartsWithin DEF Reading
  <2>2. to \in Nat /\ from <= to /\ to <= Len(text)
    <3>1. Chars \ {NewLine} \subseteq Chars
      OBVIOUS
    <3>2. /\ RunOf(from, Chars \ {NewLine}) \in 0..Len(text)
          /\ from + RunOf(from, Chars \ {NewLine}) <= Len(text)
      BY <2>1, <3>1, RunIs DEF Reading
    <3> QED
      BY <2>1, <3>2, ReadingAt
  <2> HIDE DEF from, to
  <2>3. Between(from, to) \in Seq(Chars)
    BY <2>1, <2>2, PartOfText DEF Reading
  <2>4. at.pos < to
    BY <2>1, <2>2, ReadingAt
  <2> QED
    BY <1>1, <1>2, <2>2, <2>3, <2>4, SpanningIs, OwnType, ReadingAt
<1> QED
  BY <1>1, <1>2 DEF IsAnswer

LEMMA OperatorIs ==
  ASSUME Reading, NEW r, r.chars \subseteq Chars
  PROVE  IsAnswer(r, operator(r))
<1> DEFINE run == RunOf(at.pos, r.chars)
           stops == {n \in 0..run : \E stop \in r.stops :
                       n + Len(stop) <= run /\ StartsWith(at.pos + n, stop)}
           cuts == {n \in 0..run : \A m \in stops : n <= m}
           cut == Largest(cuts)
           strong == \E n \in 0..(cut - 1) : Char(at.pos + n) \in r.strong
           ends == {n \in 0..cut : n <= 1 \/ Char(at.pos + n - 1) \notin r.trailing}
           length == lengthOf(r, run)
<1>1. run \in Nat /\ at.pos + run <= Len(text)
  BY RunIs, ReadingAt DEF Reading
<1>2. cut \in 0..run
  <2>1. cuts \subseteq 0..run /\ 0 \in cuts
    BY <1>1
  <2> HIDE DEF run, cuts
  <2> QED
    BY <1>1, <2>1, LargestIs
<1>3. length = IF strong THEN cut ELSE Largest(ends)
  BY DEF lengthOf
<1> HIDE DEF cut, run, strong
<1>4. Largest(ends) \in 0..cut
  <2>1. ends \subseteq 0..cut /\ 0 \in ends /\ cut \in Nat
    BY <1>1, <1>2
  <2> HIDE DEF ends
  <2> QED
    BY <2>1, LargestIs
<1> HIDE DEF ends
<1>5. length \in 0..run
  BY <1>1, <1>2, <1>3, <1>4
<1>6. operator(r) = IF length = 0 THEN Null ELSE Spanning(r, Ahead(at.pos, length), at.pos + length)
  BY DEF operator, run
<1> HIDE DEF length
<1>7. Ahead(at.pos, length) \in Seq(Chars)
  BY <1>1, <1>5, ReadingAt DEF Ahead, Reading, TextOK
<1>8. length # 0 => at.pos + length \in Nat /\ at.pos < at.pos + length
  BY <1>1, <1>5, ReadingAt
<1> QED
  BY <1>6, <1>7, <1>8, SpanningIs, OwnType, ReadingAt DEF IsAnswer

LEMMA TokenIs ==
  ASSUME NEW r, NEW type \in TypesOf(r), NEW value \in Seq(Chars), NEW start, NEW end, NEW to,
         IsSpan(start, end, to)
  PROVE  IsAnswer(r, Token(type, value, start, end, to))
<1>1. start \in Nat /\ end \in Nat /\ to \in Nat
  BY DEF IsSpan
<1> QED
  BY <1>1, Zenon DEF IsAnswer, IsToken

LEMMA DollarIs ==
  ASSUME Reading, NEW r, r.dollar \in Chars, r.part \subseteq Chars
  PROVE  IsAnswer(r, dollarString(r))
<1> DEFINE tag == IF Char(at.pos + 1) \in r.start THEN 1 + RunOf(at.pos + 2, r.part) ELSE 0
           start == at.pos + tag + 2
           end == Find(start, Ahead(at.pos, tag + 2))
           to == end + tag + 2
           Opens == Char(at.pos) = r.dollar /\ Char(at.pos + tag + 1) = r.dollar
<1>1. dollarString(r) = IF ~Opens THEN Null
                        ELSE IF end = Len(text) THEN Unterminated(start, end)
                        ELSE Token(r.type, Between(start, end), start, end, to)
  BY DEF dollarString
<1>2. tag \in Nat
  <2>1. RunOf(at.pos + 2, r.part) \in 0..Len(text)
    BY RunIs, ReadingAt DEF Reading
  <2> QED
    BY <2>1, ReadingAt
<1> HIDE DEF tag
<1>3. CASE Opens
  <2>1. start \in Nat /\ at.pos < start /\ start <= Len(text)
    <3>1. Char(at.pos + tag + 1) \in Chars /\ at.pos + tag + 1 \in Nat
      BY <1>2, <1>3, ReadingAt
    <3> QED
      BY <1>2, <3>1, CharFacts, ReadingAt DEF Reading
  <2> HIDE DEF start
  <2>2. end \in start..Len(text)
    BY <2>1, FindIs DEF Reading
  <2> HIDE DEF end
  <2>3. Between(start, end) \in Seq(Chars)
    BY <2>1, <2>2, PartOfText, ReadingAt DEF Reading
  <2>4. CASE end = Len(text)
    BY <1>1, <1>3, <2>1, <2>2, <2>4, ErrorIs, ReadingAt
  <2>5. CASE end # Len(text)
    <3>1. IsSpan(start, end, to)
      BY <1>2, <2>1, <2>2, ReadingAt DEF IsSpan
    <3> QED
      BY <1>1, <1>3, <2>3, <2>5, <3>1, TokenIs, OwnType
  <2> QED
    BY <2>4, <2>5
<1> QED
  BY <1>1, <1>3 DEF IsAnswer

-------------------------------------------------------------------------------
(* Strings. *)

LEMMA PrefixedIs ==
  ASSUME NEW D, NEW v \in [value : Seq(Chars), end : D, open : BOOLEAN], NEW c \in Chars
  PROVE  /\ Prefixed(c, v) \in [value : Seq(Chars), end : D, open : BOOLEAN]
         /\ Prefixed(c, v).end = v.end
<1>1. Prefixed(c, v) = [v EXCEPT !.value = <<c>> \o v.value]
  BY DEF Prefixed
<1>2. v.value \in Seq(Chars) /\ <<c>> \in Seq(Chars)
  OBVIOUS
<1>3. <<c>> \o v.value \in Seq(Chars)
  BY <1>2
<1> DEFINE value == <<c>> \o v.value
<1> HIDE DEF value
<1>4. Prefixed(c, v) = [v EXCEPT !.value = value] /\ value \in Seq(Chars)
  BY <1>1, <1>3 DEF value
<1> QED
  BY <1>4

\* What the scan of a string does at p: the quote or the text ends, a backslash
\* hangs at the end of the text, or a character is read and it goes on.
BodyEnds(r, p) == p = Len(text) \/ (Char(p) = r.quote /\ ~(r.doubling /\ Char(p + 1) = r.quote))

BodyHangs(r, p) == Char(p) # r.quote /\ Char(p) \in r.backslash /\ p + 1 = Len(text)

CharRead(r, p) ==
  IF Char(p) = r.quote THEN r.quote
  ELSE IF Char(p) \in r.backslash THEN r.decoded[Char(p + 1)] ELSE Char(p)

AfterRead(r, p) == IF Char(p) = r.quote \/ Char(p) \in r.backslash THEN p + 2 ELSE p + 1

LEMMA CharIsRead ==
  ASSUME TextOK, NEW r, r.quote \in Chars, r.decoded \in [Chars -> Chars],
         NEW p \in 0..Len(text), ~BodyEnds(r, p), ~BodyHangs(r, p)
  PROVE  /\ CharRead(r, p) \in Chars /\ AfterRead(r, p) \in (p + 1)..Len(text)
         /\ p < Len(text) /\ Char(p) \in Chars
<1> USE DEF BodyEnds, BodyHangs, CharRead, AfterRead
<1>1. p < Len(text) /\ Char(p) \in Chars /\ Len(text) \in Nat /\ p \in Nat
  BY CharFacts
<1>2. CASE Char(p) = r.quote
  <2>1. Char(p + 1) \in Chars
    BY <1>1, <1>2
  <2>2. p + 1 < Len(text)
    BY <1>1, <2>1, CharFacts
  <2> QED
    BY <1>1, <1>2, <2>2
<1>3. CASE Char(p) # r.quote /\ Char(p) \in r.backslash
  <2>1. p + 1 < Len(text)
    BY <1>1, <1>3
  <2>2. Char(p + 1) \in Chars
    BY <1>1, <2>1, CharFacts
  <2> QED
    BY <1>1, <1>3, <2>1, <2>2
<1>4. CASE Char(p) # r.quote /\ Char(p) \notin r.backslash
  BY <1>1, <1>4
<1> QED
  BY <1>2, <1>3, <1>4

IsBodyScan(r, body) ==
  \A p \in 0..Len(text) :
    /\ body[p] \in [value : Seq(Chars), end : p..Len(text), open : BOOLEAN]
    /\ body[p] = IF BodyEnds(r, p) THEN [value |-> <<>>, end |-> p, open |-> FALSE]
                 ELSE IF BodyHangs(r, p) THEN [value |-> <<>>, end |-> p + 1, open |-> TRUE]
                 ELSE Prefixed(CharRead(r, p), body[AfterRead(r, p)])

LEMMA BodyScan ==
  ASSUME TextOK, NEW r, r.quote \in Chars, r.decoded \in [Chars -> Chars]
  PROVE  \E body : /\ \A start \in 0..Len(text) : bodyOf(r, start) = body[start]
                   /\ IsBodyScan(r, body)
<1> DEFINE L == Len(text)
           D == 0..L
           V == [value : Seq(Chars), end : D, open : BOOLEAN]
           Ends(p) == BodyEnds(r, p)
           Right(f) ==
             [p \in D |->
               IF p = Len(text) \/ (Char(p) = r.quote /\ ~(r.doubling /\ Char(p + 1) = r.quote))
               THEN [value |-> <<>>, end |-> p, open |-> FALSE]
               ELSE IF Char(p) = r.quote THEN Prefixed(r.quote, f[p + 2])
               ELSE IF Char(p) \notin r.backslash THEN Prefixed(Char(p), f[p + 1])
               ELSE IF p + 1 = Len(text) THEN [value |-> <<>>, end |-> p + 1, open |-> TRUE]
               ELSE Prefixed(r.decoded[Char(p + 1)], f[p + 2])]
           step == [f \in [D -> V] |-> Right(f)]
           body == CHOOSE f : f = Right(f)
           Hangs(p) == BodyHangs(r, p)
           char(p) == CharRead(r, p)
           next(p) == AfterRead(r, p)
           Good == {p \in D : body[p] \in V /\ p <= body[p].end}
<1>1. /\ L \in Nat /\ IsRange(D, L) /\ \A p \in D : p \in Nat /\ p <= L
      /\ 0 \in D
  BY CharFacts DEF IsRange
<1>2. ASSUME NEW p \in D, ~Ends(p), ~Hangs(p)
      PROVE  char(p) \in Chars /\ next(p) \in D /\ next(p) > p
  BY <1>1, <1>2, CharIsRead
<1>3. ASSUME NEW f, NEW p \in D
      PROVE  Right(f)[p] = IF Ends(p) THEN [value |-> <<>>, end |-> p, open |-> FALSE]
                           ELSE IF Hangs(p) THEN [value |-> <<>>, end |-> p + 1, open |-> TRUE]
                           ELSE Prefixed(char(p), f[next(p)])
  BY Zenon DEF BodyEnds, BodyHangs, CharRead, AfterRead
<1>4. ASSUME NEW p \in D
      PROVE  /\ Ends(p) => [value |-> <<>>, end |-> p, open |-> FALSE] \in V
             /\ ~Ends(p) /\ Hangs(p) => p + 1 \in D /\ [value |-> <<>>, end |-> p + 1, open |-> TRUE] \in V
  <2>1. Hangs(p) => p + 1 \in D
    BY <1>1 DEF BodyHangs
  <2>2. <<>> \in Seq(Chars)
    OBVIOUS
  <2> QED
    BY <2>1, <2>2
<1>5. \A v \in V, c \in Chars : Prefixed(c, v) \in V /\ Prefixed(c, v).end = v.end
  <2> HIDE DEF D
  <2> QED
    BY PrefixedIs, Zenon
<1>6. [value |-> <<>>, end |-> 0, open |-> FALSE] \in V
  <2>1. <<>> \in Seq(Chars)
    OBVIOUS
  <2> QED
    BY <1>1, <2>1
<1>7. ASSUME NEW f PROVE Right(f) = [p \in D |-> Right(f)[p]]
  BY Zenon
<1> HIDE DEF V, Right, char, next, Ends, Hangs
<1>8. \E f \in [D -> V] : f = step[f]
  <2>1. IsStep(D, V, step)
    <3>1. ASSUME NEW f \in [D -> V] PROVE Right(f) \in [D -> V]
      <4>1. ASSUME NEW p \in D PROVE Right(f)[p] \in V
        <5>1. CASE ~Ends(p) /\ ~Hangs(p)
          <6>1. f[next(p)] \in V
            BY <1>2, <3>1, <4>1, <5>1
          <6> QED
            BY <1>2, <1>3, <1>5, <4>1, <5>1, <6>1
        <5> QED
          BY <1>3, <1>4, <4>1, <5>1
      <4> QED
        BY <1>7, <4>1
    <3> QED
      BY <3>1 DEF IsStep
  <2>2. LooksAhead(D, V, step)
    <3>1. ASSUME NEW f \in [D -> V], NEW g \in [D -> V], NEW p \in D,
                 \A q \in D : q > p => f[q] = g[q]
          PROVE  step[f][p] = step[g][p]
      <4>1. ~Ends(p) /\ ~Hangs(p) => f[next(p)] = g[next(p)]
        BY <1>2, <3>1
      <4>2. Right(f)[p] = Right(g)[p]
        BY <1>3, <3>1, <4>1, Zenon
      <4> QED
        BY <3>1, <4>2
    <3> QED
      BY <3>1 DEF LooksAhead
  <2>3. V # {}
    BY <1>6
  <2> HIDE DEF L, D, step
  <2> QED
    BY <1>1, <2>1, <2>2, <2>3, Downward
<1>9. body = Right(body)
  BY <1>8
<1>10. \A start : bodyOf(r, start) = body[start]
  BY Zenon DEF bodyOf, Right
<1> HIDE DEF body
<1>11. ASSUME NEW p \in D, \A q \in D : q > p => q \in Good PROVE p \in Good
  <2>1. body[p] = Right(body)[p]
    BY <1>9
  <2>2. CASE Ends(p)
    <3>1. body[p] = [value |-> <<>>, end |-> p, open |-> FALSE]
      BY <1>3, <1>11, <2>1, <2>2
    <3>2. body[p].end = p
      BY <3>1
    <3>3. body[p] \in V
      BY <1>4, <1>11, <2>2, <3>1
    <3>4. p <= body[p].end
      BY <1>1, <1>11, <3>2
    <3> QED
      BY <1>11, <3>3, <3>4
  <2>3. CASE ~Ends(p) /\ Hangs(p)
    <3>1. body[p] = [value |-> <<>>, end |-> p + 1, open |-> TRUE]
      BY <1>3, <1>11, <2>1, <2>3
    <3>2. body[p].end = p + 1
      BY <3>1
    <3>3. body[p] \in V
      BY <1>4, <1>11, <2>3, <3>1
    <3>4. p <= body[p].end
      BY <1>1, <1>11, <3>2
    <3> QED
      BY <1>11, <3>3, <3>4
  <2>4. CASE ~Ends(p) /\ ~Hangs(p)
    <3>1. body[p] = Prefixed(char(p), body[next(p)])
      BY <1>3, <1>11, <2>1, <2>4
    <3>2. body[next(p)] \in V /\ next(p) <= body[next(p)].end /\ body[next(p)].end \in D
      BY <1>2, <1>11, <2>4 DEF V
    <3>3. body[p] \in V /\ body[p].end = body[next(p)].end
      BY <1>2, <1>5, <1>11, <2>4, <3>1, <3>2
    <3> QED
      BY <1>1, <1>2, <1>11, <2>4, <3>2, <3>3
  <2> QED
    BY <2>2, <2>3, <2>4
<1>12. D \subseteq Good
  <2>1. \A p \in D : (\A q \in D : q > p => q \in Good) => p \in Good
    BY <1>11
  <2> HIDE DEF Good, L, D
  <2> QED
    BY <1>1, <2>1, DownInduction
<1>13. ASSUME NEW p \in D
       PROVE  /\ body[p] \in [value : Seq(Chars), end : p..L, open : BOOLEAN]
              /\ body[p] = IF Ends(p) THEN [value |-> <<>>, end |-> p, open |-> FALSE]
                           ELSE IF Hangs(p) THEN [value |-> <<>>, end |-> p + 1, open |-> TRUE]
                           ELSE Prefixed(char(p), body[next(p)])
  <2>1. body[p] \in V /\ p <= body[p].end
    BY <1>12
  <2>2. body[p] = Right(body)[p]
    BY <1>9
  <2>3. body[p] \in [value : Seq(Chars), end : p..L, open : BOOLEAN]
    BY <1>1, <2>1 DEF V
  <2> QED
    BY <1>3, <2>2, <2>3
<1> QED
  BY <1>10, <1>13 DEF IsBodyScan, Ends, Hangs, char, next

LEMMA BodyIs ==
  ASSUME TextOK, NEW r, r.quote \in Chars, r.decoded \in [Chars -> Chars],
         NEW start \in 0..Len(text)
  PROVE  /\ bodyOf(r, start).value \in Seq(Chars)
         /\ bodyOf(r, start).end \in start..Len(text)
BY BodyScan DEF IsBodyScan

LEMMA StringOptions ==
  ASSUME NEW r, r \in StringReader
  PROVE  /\ r.kind = "string" /\ r.prefix \in Seq(Chars) /\ r.quote \in Chars
         /\ r.fence \in Seq(Chars) /\ r.decoded \in [Chars -> Chars]
         /\ r.type \in TypesOf(r) /\ r.blockType \in TypesOf(r)
BY DEF StringReader, TypesOf

LEMMA BlockStringIs ==
  ASSUME Reading, NEW r, r \in StringReader, r.fence # <<>>,
         NEW start \in Nat, at.pos < start, start <= Len(text), StartsWith(start, Tail(r.fence))
  PROVE  IsAnswer(r, readBlock(r, start))
<1> DEFINE from == start + Len(r.fence) - 1
           end == Find(from, r.fence)
           to == end + Len(r.fence)
<1>1. readBlock(r, start) = IF end = Len(text) THEN Unterminated(start, end)
                            ELSE Token(r.blockType, Between(from, end), start, to, to)
  BY DEF readBlock
<1>2. from \in Nat /\ start <= from /\ from <= Len(text) /\ Len(r.fence) \in Nat
  <2>1. /\ Tail(r.fence) \in Seq(Chars) /\ Len(Tail(r.fence)) = Len(r.fence) - 1
        /\ Len(r.fence) \in Nat /\ Len(r.fence) > 0
    BY StringOptions
  <2> DEFINE rest == Tail(r.fence)
  <2>2. Len(rest) \in Nat /\ from = start + Len(rest)
    BY <2>1
  <2>3. start + Len(rest) <= Len(text)
    <3>1. rest \in Seq(Chars) /\ StartsWith(start, rest) /\ TextOK
      BY <2>1 DEF Reading
    <3> HIDE DEF rest
    <3>2. rest = <<>> => Len(rest) = 0
      OBVIOUS
    <3>3. rest # <<>> => start + Len(rest) <= Len(text)
      BY <3>1, StartsWithin
    <3> QED
      BY <3>2, <3>3
  <2> HIDE DEF rest
  <2> QED
    BY <2>1, <2>2, <2>3
<1> HIDE DEF from
<1>3. end \in from..Len(text)
  BY <1>2, FindIs DEF Reading
<1> HIDE DEF end
<1>4. Between(from, end) \in Seq(Chars)
  BY <1>2, <1>3, PartOfText, ReadingAt DEF Reading
<1>5. CASE end = Len(text)
  BY <1>1, <1>2, <1>3, <1>5, ErrorIs, ReadingAt
<1>6. CASE end # Len(text)
  <2>1. IsSpan(start, to, to)
    BY <1>2, <1>3, ReadingAt DEF IsSpan
  <2> QED
    BY <1>1, <1>4, <1>6, <2>1, TokenIs, StringOptions
<1> QED
  BY <1>5, <1>6

LEMMA StringIs ==
  ASSUME Reading, NEW r, r \in StringReader
  PROVE  IsAnswer(r, string(r))
<1> DEFINE opening == Append(r.prefix, r.quote)
           start == at.pos + Len(opening)
           body == bodyOf(r, start)
<1>1. string(r) = IF ~StartsWith(at.pos, opening) THEN Null
                  ELSE IF r.fence # <<>> /\ StartsWith(start, Tail(r.fence)) THEN readBlock(r, start)
                  ELSE IF body.open THEN Unterminated(start, body.end)
                  ELSE Token(r.type, body.value, start, body.end, body.end + 1)
  BY DEF string
<1>2. CASE StartsWith(at.pos, opening)
  <2>1. opening \in Seq(Chars) /\ opening # <<>> /\ Len(opening) \in Nat /\ Len(opening) > 0
    BY StringOptions
  <2>2. start \in Nat /\ at.pos < start /\ start <= Len(text)
    <3> HIDE DEF opening
    <3> QED
      BY <1>2, <2>1, StartsWithin, ReadingAt DEF Reading
  <2> HIDE DEF opening, start
  <2>3. /\ body.value \in Seq(Chars)
        /\ body.end \in start..Len(text)
    BY <2>2, BodyIs, StringOptions, ReadingAt DEF Reading
  <2> HIDE DEF body
  <2>4. CASE r.fence # <<>> /\ StartsWith(start, Tail(r.fence))
    BY <1>1, <1>2, <2>2, <2>4, BlockStringIs
  <2>5. CASE ~(r.fence # <<>> /\ StartsWith(start, Tail(r.fence))) /\ body.open
    BY <1>1, <1>2, <2>2, <2>3, <2>5, ErrorIs, ReadingAt
  <2>6. CASE ~(r.fence # <<>> /\ StartsWith(start, Tail(r.fence))) /\ ~body.open
    <3>1. IsSpan(start, body.end, body.end + 1)
      BY <2>2, <2>3, ReadingAt DEF IsSpan
    <3>2. string(r) = Token(r.type, body.value, start, body.end, body.end + 1)
      BY <1>1, <1>2, <2>6
    <3> QED
      BY <2>3, <3>1, <3>2, TokenIs, StringOptions
  <2> QED
    BY <2>4, <2>5, <2>6
<1> QED
  BY <1>1, <1>2 DEF IsAnswer

-------------------------------------------------------------------------------
(* Template text, comments and regular expressions. *)

LEMMA ChunkIs ==
  ASSUME Reading, NEW r
  PROVE  IsAnswer(r, templateChunk(r))
<1> DEFINE L == Len(text)
           D == 0..L
           Stops(p) == p = Len(text) \/ \E stop \in r.stops : StartsWith(p, stop)
           Skips(p) == Char(p) = r.escape /\ p + 1 < Len(text)
           Right(f) == [p \in D |-> IF Stops(p) THEN p ELSE IF Skips(p) THEN f[p + 2] ELSE f[p + 1]]
           step == [f \in [D -> D] |-> Right(f)]
           ends == CHOOSE f : f = Right(f)
           next(p) == IF Skips(p) THEN p + 2 ELSE p + 1
           Behind == {p \in D : ends[p] \in D /\ p <= ends[p]}
           end == ends[at.pos]
<1>1. /\ L \in Nat /\ IsRange(D, L) /\ D # {} /\ at.pos \in D
      /\ \A p \in D : p \in Nat /\ p <= L
  BY ReadingAt DEF IsRange
<1>2. ASSUME NEW p \in D, ~Stops(p) PROVE next(p) \in D /\ next(p) > p
  BY <1>1, <1>2
<1>3. ASSUME NEW f, NEW p \in D PROVE Right(f)[p] = IF Stops(p) THEN p ELSE f[next(p)]
  BY Zenon
<1>4. ASSUME NEW f PROVE Right(f) = [p \in D |-> Right(f)[p]]
  BY Zenon
<1>5. templateChunk(r) = IF end = Len(text) THEN Unterminated(at.pos, end)
                         ELSE IF end = at.pos THEN Null
                         ELSE Spanning(r, Between(at.pos, end), end)
  BY Zenon DEF templateChunk
<1> HIDE DEF Right, Stops, next
<1>6. \E f \in [D -> D] : f = step[f]
  <2>1. IsStep(D, D, step)
    <3>1. ASSUME NEW f \in [D -> D] PROVE Right(f) \in [D -> D]
      <4>1. ASSUME NEW p \in D PROVE Right(f)[p] \in D
        BY <1>2, <1>3, <3>1, <4>1
      <4> QED
        BY <1>4, <4>1
    <3> QED
      BY <3>1 DEF IsStep
  <2>2. LooksAhead(D, D, step)
    <3>1. ASSUME NEW f \in [D -> D], NEW g \in [D -> D], NEW p \in D,
                 \A q \in D : q > p => f[q] = g[q]
          PROVE  step[f][p] = step[g][p]
      <4>1. Right(f)[p] = Right(g)[p]
        BY <1>2, <1>3, <3>1
      <4> QED
        BY <3>1, <4>1
    <3> QED
      BY <3>1 DEF LooksAhead
  <2> HIDE DEF L, D, step
  <2> QED
    BY <1>1, <2>1, <2>2, Downward
<1>7. ends = Right(ends)
  BY <1>6
<1> HIDE DEF ends
<1>8. ASSUME NEW p \in D, \A q \in D : q > p => q \in Behind PROVE p \in Behind
  <2>1. ends[p] = IF Stops(p) THEN p ELSE ends[next(p)]
    BY <1>3, <1>7, <1>8
  <2>2. CASE Stops(p)
    BY <1>1, <1>8, <2>1, <2>2
  <2>3. CASE ~Stops(p)
    <3>1. next(p) \in Behind /\ next(p) > p /\ next(p) \in D
      BY <1>2, <1>8, <2>3
    <3> QED
      BY <1>1, <1>8, <2>1, <2>3, <3>1
  <2> QED
    BY <2>2, <2>3
<1>9. end \in D /\ at.pos <= end
  <2>1. \A p \in D : (\A q \in D : q > p => q \in Behind) => p \in Behind
    BY <1>8
  <2>2. D \subseteq Behind
    <3> HIDE DEF Behind, L, D
    <3> QED
      BY <1>1, <2>1, DownInduction
  <2> QED
    BY <1>1, <2>2
<1> HIDE DEF end
<1>10. Between(at.pos, end) \in Seq(Chars) /\ end \in Nat
  BY <1>1, <1>9, PartOfText, ReadingAt DEF Reading
<1>11. CASE end = Len(text)
  BY <1>5, <1>9, <1>10, <1>11, ErrorIs, ReadingAt
<1>12. CASE end # Len(text) /\ end # at.pos
  <2>1. at.pos < end
    BY <1>9, <1>10, <1>12, ReadingAt
  <2> QED
    BY <1>5, <1>10, <1>12, <2>1, SpanningIs, OwnType, ReadingAt
<1>13. CASE end # Len(text) /\ end = at.pos
  BY <1>5, <1>13 DEF IsAnswer
<1> QED
  BY <1>11, <1>12, <1>13

\* What the scan for the close of a comment does at p, with that many closes
\* to come: it ends there, or goes on.
ClosesHere(r, p, depth) == p = Len(text) \/ (StartsWith(p, r.close) /\ depth = 1)

AfterClose(r, p) ==
  IF StartsWith(p, r.close) THEN p + Len(r.close)
  ELSE IF r.nested /\ StartsWith(p, r.open) THEN p + Len(r.open) ELSE p + 1

DepthAfter(r, p, depth) ==
  IF StartsWith(p, r.close) THEN depth - 1
  ELSE IF r.nested /\ StartsWith(p, r.open) THEN depth + 1 ELSE depth

IsCloseScan(r, closes) ==
  \A p \in 0..Len(text), depth \in Nat \ {0} :
    /\ closes[p][depth] \in p..Len(text)
    /\ closes[p][depth] = IF ClosesHere(r, p, depth) THEN p
                          ELSE closes[AfterClose(r, p)][DepthAfter(r, p, depth)]

LEMMA CloseScan ==
  ASSUME TextOK, NEW r, r.open \in Seq(Chars) \ {<<>>}, r.close \in Seq(Chars) \ {<<>>}
  PROVE  \E closes :
           /\ \A from \in 0..Len(text) : ClosedAt(r, from) = closes[from][1]
           /\ IsCloseScan(r, closes)
<1> DEFINE L == Len(text)
           D == 0..L
           Depths == Nat \ {0}
           V == [Depths -> D]
           Closes(p, depth) == ClosesHere(r, p, depth)
           Right(f) ==
             [p \in D |-> [depth \in Depths |->
                IF p = Len(text) THEN p
                ELSE IF StartsWith(p, r.close)
                THEN IF depth = 1 THEN p ELSE f[p + Len(r.close)][depth - 1]
                ELSE IF r.nested /\ StartsWith(p, r.open) THEN f[p + Len(r.open)][depth + 1]
                ELSE f[p + 1][depth]]]
           step == [f \in [D -> V] |-> Right(f)]
           closes == CHOOSE f : f = Right(f)
           next(p) == AfterClose(r, p)
           inside(p, depth) == DepthAfter(r, p, depth)
           Behind == {p \in D : \A depth \in Depths : closes[p][depth] \in D /\ p <= closes[p][depth]}
<1>1. /\ L \in Nat /\ IsRange(D, L) /\ D # {}
      /\ \A p \in D : p \in Nat /\ p <= L
  BY CharFacts DEF IsRange
<1>2. ASSUME NEW p \in D, NEW depth \in Depths, ~Closes(p, depth)
      PROVE  next(p) \in D /\ next(p) > p /\ inside(p, depth) \in Depths
  <2>1. Len(r.open) \in Nat /\ Len(r.open) > 0 /\ Len(r.close) \in Nat /\ Len(r.close) > 0
    OBVIOUS
  <2>2. /\ StartsWith(p, r.close) => p + Len(r.close) <= L
        /\ StartsWith(p, r.open) => p + Len(r.open) <= L
    BY <1>1, StartsWithin
  <2>3. next(p) \in D /\ next(p) > p
    BY <1>1, <1>2, <2>1, <2>2 DEF ClosesHere, AfterClose
  <2>4. inside(p, depth) \in Depths
    BY <1>2 DEF ClosesHere, DepthAfter
  <2> QED
    BY <2>3, <2>4
<1>3. ASSUME NEW f, NEW p \in D, NEW depth \in Depths
      PROVE  Right(f)[p][depth] = IF Closes(p, depth) THEN p ELSE f[next(p)][inside(p, depth)]
  BY Zenon DEF ClosesHere, AfterClose, DepthAfter
<1>4. ASSUME NEW f
      PROVE  /\ Right(f) = [p \in D |-> Right(f)[p]]
             /\ \A p \in D : Right(f)[p] = [depth \in Depths |-> Right(f)[p][depth]]
  BY Zenon
<1>5. \A from : ClosedAt(r, from) = closes[from][1]
  BY Zenon DEF ClosedAt
<1> HIDE DEF Right, Closes, next, inside
<1>6. \E f \in [D -> V] : f = step[f]
  <2>1. IsStep(D, V, step)
    <3>1. ASSUME NEW f \in [D -> V] PROVE Right(f) \in [D -> V]
      <4>1. ASSUME NEW p \in D PROVE Right(f)[p] \in V
        <5>1. ASSUME NEW depth \in Depths PROVE Right(f)[p][depth] \in D
          <6>1. Right(f)[p][depth] = IF Closes(p, depth) THEN p ELSE f[next(p)][inside(p, depth)]
            <7> HIDE DEF D, Depths, V
            <7> QED
              BY <1>3, <4>1, <5>1
          <6>2. ~Closes(p, depth) => f[next(p)] \in V /\ inside(p, depth) \in Depths
            BY <1>2, <3>1, <4>1, <5>1
          <6> HIDE DEF D, Depths
          <6> QED
            BY <4>1, <6>1, <6>2
        <5>2. Right(f)[p] = [depth \in Depths |-> Right(f)[p][depth]]
          BY <1>4, <4>1, Zenon
        <5> HIDE DEF D, Depths
        <5> QED
          BY <5>1, <5>2
      <4> QED
        BY <1>4, <4>1
    <3> QED
      BY <3>1 DEF IsStep
  <2>2. LooksAhead(D, V, step)
    <3>1. ASSUME NEW f \in [D -> V], NEW g \in [D -> V], NEW p \in D,
                 \A q \in D : q > p => f[q] = g[q]
          PROVE  step[f][p] = step[g][p]
      <4>1. ASSUME NEW depth \in Depths PROVE Right(f)[p][depth] = Right(g)[p][depth]
        <5>1. /\ Right(f)[p][depth] = IF Closes(p, depth) THEN p ELSE f[next(p)][inside(p, depth)]
              /\ Right(g)[p][depth] = IF Closes(p, depth) THEN p ELSE g[next(p)][inside(p, depth)]
          <6> HIDE DEF D, Depths, V
          <6> QED
            BY <1>3, <3>1, <4>1
        <5>2. ~Closes(p, depth) => f[next(p)] = g[next(p)]
          BY <1>2, <3>1, <4>1
        <5> QED
          BY <5>1, <5>2
      <4>2. Right(f)[p] = Right(g)[p]
        <5>1. p \in D
          BY <3>1
        <5>2. /\ Right(f)[p] = [depth \in Depths |-> Right(f)[p][depth]]
              /\ Right(g)[p] = [depth \in Depths |-> Right(g)[p][depth]]
          BY <1>4, <5>1, Zenon
        <5> HIDE DEF Depths
        <5> QED
          BY <4>1, <5>2
      <4> QED
        BY <3>1, <4>2
    <3> QED
      BY <3>1 DEF LooksAhead
  <2>3. V # {}
    <3>1. [depth \in Depths |-> 0] \in V
      BY <1>1
    <3> QED
      BY <3>1
  <2> HIDE DEF L, D, V, step
  <2> QED
    BY <1>1, <2>1, <2>2, <2>3, Downward
<1>7. closes = Right(closes)
  BY <1>6
<1> HIDE DEF closes
<1>8. ASSUME NEW p \in D, \A q \in D : q > p => q \in Behind PROVE p \in Behind
  <2>1. ASSUME NEW depth \in Depths PROVE closes[p][depth] \in D /\ p <= closes[p][depth]
    <3>1. closes[p][depth] = IF Closes(p, depth) THEN p ELSE closes[next(p)][inside(p, depth)]
      <4>1. Right(closes)[p][depth] = IF Closes(p, depth) THEN p ELSE closes[next(p)][inside(p, depth)]
        BY <1>3, <1>8, <2>1
      <4> QED
        BY <1>7, <4>1
    <3>2. CASE Closes(p, depth)
      BY <1>1, <1>8, <3>1, <3>2
    <3>3. CASE ~Closes(p, depth)
      <4>1. next(p) \in Behind /\ next(p) > p /\ next(p) \in D /\ inside(p, depth) \in Depths
        BY <1>2, <1>8, <2>1, <3>3
      <4> QED
        BY <1>1, <1>8, <3>1, <3>3, <4>1
    <3> QED
      BY <3>2, <3>3
  <2> QED
    BY <1>8, <2>1
<1>9. D \subseteq Behind
  <2>1. \A p \in D : (\A q \in D : q > p => q \in Behind) => p \in Behind
    BY <1>8
  <2> HIDE DEF Behind, L, D
  <2> QED
    BY <1>1, <2>1, DownInduction
<1>10. ASSUME NEW p \in D, NEW depth \in Depths
       PROVE  /\ closes[p][depth] \in p..L
              /\ closes[p][depth] = IF Closes(p, depth) THEN p ELSE closes[next(p)][inside(p, depth)]
  <2>1. closes[p][depth] \in p..L
    BY <1>1, <1>9
  <2>2. Right(closes)[p][depth] = IF Closes(p, depth) THEN p ELSE closes[next(p)][inside(p, depth)]
    BY <1>3
  <2> QED
    BY <1>7, <2>1, <2>2
<1> QED
  BY <1>5, <1>10 DEF Closes, next, inside, IsCloseScan

LEMMA CloseIs ==
  ASSUME TextOK, NEW r, r.open \in Seq(Chars) \ {<<>>}, r.close \in Seq(Chars) \ {<<>>},
         NEW from \in 0..Len(text)
  PROVE  ClosedAt(r, from) \in from..Len(text)
BY CloseScan DEF IsCloseScan

LEMMA BlockIs ==
  ASSUME Reading, NEW r, r.open \in Seq(Chars) \ {<<>>}, r.close \in Seq(Chars) \ {<<>>}
  PROVE  IsAnswer(r, blockComment(r))
<1> DEFINE from == at.pos + Len(r.open)
           end == ClosedAt(r, from)
           to == IF end = Len(text) THEN end ELSE end + Len(r.close)
<1>1. blockComment(r) = IF StartsWith(at.pos, r.open) THEN Spanning(r, Between(from, end), to) ELSE Null
  BY DEF blockComment
<1>2. CASE StartsWith(at.pos, r.open)
  <2>1. from \in 0..Len(text) /\ at.pos < from /\ Len(r.close) \in Nat
    BY <1>2, StartsWithin, ReadingAt DEF Reading
  <2> HIDE DEF from
  <2>2. end \in from..Len(text)
    BY <2>1, CloseIs DEF Reading
  <2> HIDE DEF end
  <2>3. Between(from, end) \in Seq(Chars)
    BY <2>1, <2>2, PartOfText, ReadingAt DEF Reading
  <2>4. to \in Nat /\ at.pos < to
    BY <2>1, <2>2, ReadingAt
  <2> QED
    BY <1>1, <1>2, <2>3, <2>4, SpanningIs, OwnType, ReadingAt
<1> QED
  BY <1>1, <1>2 DEF IsAnswer

\* What the scan of a regex does at p, in a class or not: the line or the text
\* ends, the slash comes, or it goes on.
BreaksOff(r, p) ==
  \/ Char(p) \in {NewLine, Nothing}
  \/ Char(p) = r.backslash /\ Char(p + 1) \in {NewLine, Nothing}

BrokenAt(p) == IF Char(p) \in {NewLine, Nothing} THEN p ELSE p + 1

SlashEnds(r, p, inClass) == Char(p) # r.backslash /\ Char(p) = r.slash /\ ~inClass

BehindFlags(r, p) == p + 1 + RunOf(p + 1, r.flags)

AfterEscaped(r, p) == IF Char(p) = r.backslash THEN p + 2 ELSE p + 1

ClassAfter(r, p, inClass) ==
  IF Char(p) = r.backslash THEN inClass
  ELSE Char(p) = r.open \/ (inClass /\ Char(p) # r.close)

LEMMA RegexGoesOn ==
  ASSUME TextOK, NEW r, r.flags \subseteq Chars, NEW p \in 0..Len(text)
  PROVE  /\ BreaksOff(r, p) => BrokenAt(p) \in p..Len(text)
         /\ ~BreaksOff(r, p) => Char(p) \in Chars \ {NewLine}
         /\ Char(p) \in Chars \ {NewLine} => BehindFlags(r, p) \in (p + 1)..Len(text)
         /\ ~BreaksOff(r, p) => AfterEscaped(r, p) \in (p + 1)..Len(text)
<1> DEFINE breaks == {NewLine, Nothing}
           L == Len(text)
<1>1. L \in Nat /\ p \in Nat /\ p <= L /\ Char(L) = Nothing
  BY CharFacts
<1>2. Char(p) \notin breaks => p < L
  BY <1>1
<1>3. p < L => Char(p) \in Chars
  BY <1>1, CharFacts
<1>4. p < L /\ Char(p + 1) \notin breaks => p + 1 < L
  BY <1>1
<1>5. p < L => RunOf(p + 1, r.flags) \in Nat /\ p + 1 + RunOf(p + 1, r.flags) <= L
  BY <1>1, RunIs
<1>6. Char(p) \in Chars \ {NewLine} => p < L /\ Char(p) \notin breaks
  BY <1>1, CharsAssumption
<1> HIDE DEF breaks, L
<1>7. BreaksOff(r, p) <=> Char(p) \in breaks \/ (Char(p) = r.backslash /\ Char(p + 1) \in breaks)
  BY DEF BreaksOff, breaks
<1>8. BrokenAt(p) = IF Char(p) \in breaks THEN p ELSE p + 1
  BY DEF BrokenAt, breaks
<1>9. BreaksOff(r, p) => BrokenAt(p) \in p..L
  BY <1>1, <1>2, <1>7, <1>8
<1>10. ~BreaksOff(r, p) => Char(p) \in Chars \ {NewLine}
  BY <1>2, <1>3, <1>7 DEF breaks
<1>11. Char(p) \in Chars \ {NewLine} => BehindFlags(r, p) \in (p + 1)..L
  BY <1>1, <1>5, <1>6 DEF BehindFlags
<1>12. ~BreaksOff(r, p) => AfterEscaped(r, p) \in (p + 1)..L
  BY <1>1, <1>2, <1>4, <1>7 DEF AfterEscaped
<1> QED
  BY <1>9, <1>10, <1>11, <1>12 DEF L

IsRegexScan(r, ends) ==
  \A p \in 0..Len(text), inClass \in BOOLEAN :
    ends[p][inClass] =
      IF BreaksOff(r, p) THEN Unterminated(at.pos, BrokenAt(p))
      ELSE IF SlashEnds(r, p, inClass)
      THEN Spanning(r, Between(at.pos, BehindFlags(r, p)), BehindFlags(r, p))
      ELSE ends[AfterEscaped(r, p)][ClassAfter(r, p, inClass)]

LEMMA RegexScan ==
  ASSUME Reading, NEW r, r.slash \in Chars, r.flags \subseteq Chars, NEW lastType
  PROVE  \E ends :
           /\ regex(r, lastType) = IF Char(at.pos) = r.slash /\ lastType \in r.after
                                   THEN ends[at.pos + 1][FALSE] ELSE Null
           /\ IsRegexScan(r, ends)
<1> DEFINE L == Len(text)
           D == 0..L
           Broken(end) == Unterminated(at.pos, end)
           Whole(to) == Spanning(r, Between(at.pos, to), to)
           A == {Broken(end) : end \in D} \cup {Whole(to) : to \in D}
           V == [BOOLEAN -> A]
           breaks == {NewLine, Nothing}
           Right(f) ==
             [p \in D |-> [inClass \in BOOLEAN |->
                IF Char(p) \in breaks THEN Unterminated(at.pos, p)
                ELSE IF Char(p) = r.backslash
                THEN IF Char(p + 1) \in breaks THEN Unterminated(at.pos, p + 1) ELSE f[p + 2][inClass]
                ELSE IF Char(p) = r.slash /\ ~inClass
                THEN LET to == p + 1 + RunOf(p + 1, r.flags) IN Spanning(r, Between(at.pos, to), to)
                ELSE f[p + 1][Char(p) = r.open \/ (inClass /\ Char(p) # r.close)]]]
           step == [f \in [D -> V] |-> Right(f)]
           ends == CHOOSE f : f = Right(f)
           Breaks(p) == BreaksOff(r, p)
           Closes(p, inClass) == SlashEnds(r, p, inClass)
           next(p) == AfterEscaped(r, p)
           inside(p, inClass) == ClassAfter(r, p, inClass)
           broken(p) == BrokenAt(p)
           behind(p) == BehindFlags(r, p)
<1>1. /\ L \in Nat /\ IsRange(D, L) /\ D # {} /\ at.pos \in Nat /\ at.pos + 1 \in D
      /\ \A p \in D : p \in Nat /\ p <= L
  BY ReadingAt DEF IsRange
<1>2. ASSUME NEW p \in D
      PROVE  /\ Breaks(p) => broken(p) \in D /\ broken(p) >= p
             /\ Char(p) \notin breaks /\ Char(p) = r.slash => behind(p) \in D /\ behind(p) > p
             /\ ~Breaks(p) => next(p) \in D /\ next(p) > p
  BY <1>1, RegexGoesOn DEF Reading
<1>3. ASSUME NEW f, NEW p \in D, NEW inClass \in BOOLEAN
      PROVE  Right(f)[p][inClass] =
               IF Breaks(p) THEN Broken(broken(p))
               ELSE IF Closes(p, inClass) THEN Whole(behind(p))
               ELSE f[next(p)][inside(p, inClass)]
  BY Zenon DEF BreaksOff, BrokenAt, SlashEnds, BehindFlags, AfterEscaped, ClassAfter
<1>4. ASSUME NEW f
      PROVE  /\ Right(f) = [p \in D |-> Right(f)[p]]
             /\ \A p \in D : Right(f)[p] = [inClass \in BOOLEAN |-> Right(f)[p][inClass]]
  BY Zenon
<1>5. regex(r, lastType) = IF Char(at.pos) = r.slash /\ lastType \in r.after
                           THEN ends[at.pos + 1][FALSE] ELSE Null
  BY Zenon DEF regex
<1>6. ASSUME NEW p \in D, NEW inClass \in BOOLEAN PROVE inside(p, inClass) \in BOOLEAN
  BY Zenon DEF ClassAfter
<1>7. ASSUME NEW q \in D PROVE Broken(q) \in A /\ Whole(q) \in A
  BY <1>7, Zenon
<1>9. ASSUME NEW p \in D, NEW inClass \in BOOLEAN
      PROVE  /\ Closes(p, inClass) => Char(p) = r.slash
             /\ ~Breaks(p) => Char(p) \notin breaks
  BY DEF SlashEnds, BreaksOff
<1> HIDE DEF A, Right, Breaks, Closes, next, inside, broken, behind, Broken, Whole, breaks
<1>10. \E f \in [D -> V] : f = step[f]
  <2>1. IsStep(D, V, step)
    <3>1. ASSUME NEW f \in [D -> V] PROVE Right(f) \in [D -> V]
      <4>1. ASSUME NEW p \in D PROVE Right(f)[p] \in V
        <5>1. ASSUME NEW inClass \in BOOLEAN PROVE Right(f)[p][inClass] \in A
          <6>1. CASE Breaks(p)
            BY <1>2, <1>3, <1>7, <4>1, <5>1, <6>1, Zenon
          <6>2. CASE ~Breaks(p) /\ Closes(p, inClass)
            <7>1. behind(p) \in D
              BY <1>2, <1>9, <4>1, <5>1, <6>2, Zenon
            <7> QED
              BY <1>3, <1>7, <4>1, <5>1, <6>2, <7>1, Zenon
          <6>3. CASE ~Breaks(p) /\ ~Closes(p, inClass)
            <7>1. f[next(p)] \in V
              BY <1>2, <3>1, <4>1, <6>3
            <7>2. f[next(p)][inside(p, inClass)] \in A
              BY <1>6, <4>1, <5>1, <7>1, Zenon
            <7> QED
              BY <1>3, <4>1, <5>1, <6>3, <7>2, Zenon
          <6> QED
            BY <6>1, <6>2, <6>3
        <5> QED
          BY <1>4, <4>1, <5>1, Zenon
      <4> QED
        BY <1>4, <4>1, Zenon
    <3> QED
      BY <3>1 DEF IsStep
  <2>2. LooksAhead(D, V, step)
    <3>1. ASSUME NEW f \in [D -> V], NEW g \in [D -> V], NEW p \in D,
                 \A q \in D : q > p => f[q] = g[q]
          PROVE  step[f][p] = step[g][p]
      <4>1. ~Breaks(p) => f[next(p)] = g[next(p)]
        BY <1>2, <3>1
      <4>2. ASSUME NEW inClass \in BOOLEAN PROVE Right(f)[p][inClass] = Right(g)[p][inClass]
        <5>1. Right(f)[p][inClass] = IF Breaks(p) THEN Broken(broken(p))
                                     ELSE IF Closes(p, inClass) THEN Whole(behind(p))
                                     ELSE f[next(p)][inside(p, inClass)]
          BY <1>3, <3>1, <4>2, Zenon
        <5>2. Right(g)[p][inClass] = IF Breaks(p) THEN Broken(broken(p))
                                     ELSE IF Closes(p, inClass) THEN Whole(behind(p))
                                     ELSE g[next(p)][inside(p, inClass)]
          BY <1>3, <3>1, <4>2, Zenon
        <5> QED
          BY <4>1, <5>1, <5>2, Zenon
      <4>3. Right(f)[p] = Right(g)[p]
        <5>1. Right(f)[p] = [inClass \in BOOLEAN |-> Right(f)[p][inClass]]
          BY <1>4, <3>1, Zenon
        <5>2. Right(g)[p] = [inClass \in BOOLEAN |-> Right(g)[p][inClass]]
          BY <1>4, <3>1, Zenon
        <5>3. [inClass \in BOOLEAN |-> Right(f)[p][inClass]] = [inClass \in BOOLEAN |-> Right(g)[p][inClass]]
          BY <4>2, Zenon
        <5> QED
          BY <5>1, <5>2, <5>3, Zenon
      <4> QED
        BY <3>1, <4>3
    <3> QED
      BY <3>1 DEF LooksAhead
  <2>3. V # {}
    <3>1. [inClass \in BOOLEAN |-> Broken(at.pos + 1)] \in V
      BY <1>1, <1>7, Zenon
    <3> QED
      BY <3>1
  <2> HIDE DEF L, D, V, step
  <2> QED
    BY <1>1, <2>1, <2>2, <2>3, Downward
<1>11. ends = Right(ends)
  BY <1>10
<1> HIDE DEF ends
<1>12. ASSUME NEW p \in D, NEW inClass \in BOOLEAN
       PROVE  ends[p][inClass] = IF Breaks(p) THEN Broken(broken(p))
                                 ELSE IF Closes(p, inClass) THEN Whole(behind(p))
                                 ELSE ends[next(p)][inside(p, inClass)]
  <2>1. Right(ends)[p][inClass] = IF Breaks(p) THEN Broken(broken(p))
                                  ELSE IF Closes(p, inClass) THEN Whole(behind(p))
                                  ELSE ends[next(p)][inside(p, inClass)]
    BY <1>3, <1>12, Zenon
  <2> QED
    BY <1>11, <2>1, Zenon
<1> QED
  BY <1>5, <1>12 DEF IsRegexScan, Breaks, Closes, next, inside, broken, behind, Broken, Whole

LEMMA RegexIs ==
  ASSUME Reading, NEW r, r.slash \in Chars, r.flags \subseteq Chars, NEW lastType
  PROVE  IsAnswer(r, regex(r, lastType))
<1>1. PICK ends :
        /\ regex(r, lastType) = IF Char(at.pos) = r.slash /\ lastType \in r.after
                                THEN ends[at.pos + 1][FALSE] ELSE Null
        /\ IsRegexScan(r, ends)
  BY RegexScan
<1> DEFINE D == 0..Len(text)
           Good == {p \in D : p > at.pos => \A inClass \in BOOLEAN : IsAnswer(r, ends[p][inClass])}
<1>2. /\ IsRange(D, Len(text)) /\ at.pos \in Nat /\ at.pos + 1 \in D
      /\ \A p \in D : p \in Nat /\ p <= Len(text)
  BY ReadingAt DEF IsRange
<1>3. ASSUME NEW p \in D, p > at.pos, NEW inClass \in BOOLEAN, \A q \in D : q > p => q \in Good
      PROVE  IsAnswer(r, ends[p][inClass])
  <2>1. CASE BreaksOff(r, p)
    <3>1. BrokenAt(p) \in p..Len(text)
      BY <1>3, <2>1, RegexGoesOn DEF Reading
    <3>2. IsAnswer(r, Unterminated(at.pos, BrokenAt(p)))
      BY <1>2, <1>3, <3>1, ErrorIs
    <3> QED
      BY <1>1, <1>3, <2>1, <3>2, Zenon DEF IsRegexScan
  <2>2. CASE ~BreaksOff(r, p) /\ SlashEnds(r, p, inClass)
    <3>1. BehindFlags(r, p) \in (p + 1)..Len(text)
      BY <1>3, <2>2, RegexGoesOn DEF Reading
    <3>2. BehindFlags(r, p) \in Nat /\ BehindFlags(r, p) <= Len(text)
      BY <1>2, <1>3, <3>1
    <3>3. Between(at.pos, BehindFlags(r, p)) \in Seq(Chars)
      BY <1>2, <3>2, PartOfText DEF Reading
    <3>4. IsAnswer(r, Spanning(r, Between(at.pos, BehindFlags(r, p)), BehindFlags(r, p)))
      BY <1>2, <1>3, <3>1, <3>3, SpanningIs, OwnType
    <3> QED
      BY <1>1, <1>3, <2>2, <3>4, Zenon DEF IsRegexScan
  <2>3. CASE ~BreaksOff(r, p) /\ ~SlashEnds(r, p, inClass)
    <3>1. AfterEscaped(r, p) \in (p + 1)..Len(text) /\ ClassAfter(r, p, inClass) \in BOOLEAN
      <4>1. ClassAfter(r, p, inClass) \in BOOLEAN
        BY <1>3, Zenon DEF ClassAfter
      <4> QED
        BY <1>3, <2>3, <4>1, RegexGoesOn DEF Reading
    <3>2. AfterEscaped(r, p) \in Good /\ AfterEscaped(r, p) > at.pos
      BY <1>2, <1>3, <3>1
    <3>3. IsAnswer(r, ends[AfterEscaped(r, p)][ClassAfter(r, p, inClass)])
      BY <3>1, <3>2, Zenon
    <3> QED
      BY <1>1, <1>3, <2>3, <3>3, Zenon DEF IsRegexScan
  <2> QED
    BY <2>1, <2>2, <2>3
<1>4. D \subseteq Good
  <2>1. \A p \in D : (\A q \in D : q > p => q \in Good) => p \in Good
    BY <1>3
  <2> HIDE DEF Good, D
  <2> QED
    BY <1>2, <2>1, DownInduction
<1>5. IsAnswer(r, ends[at.pos + 1][FALSE])
  <2>1. at.pos + 1 \in Good /\ at.pos + 1 > at.pos
    BY <1>2, <1>4
  <2> QED
    BY <2>1, Zenon
<1> QED
  BY <1>1, <1>5, Zenon DEF IsAnswer

LEMMA ReaderOptions ==
  ASSUME NEW r, r \in Reader
  PROVE  /\ r.kind \in {"number", "string", "dollar", "line", "block", "operator", "regex", "chunk"}
         /\ r.kind = "number" => r \in NumberReader
         /\ r.kind = "string" => r \in StringReader
         /\ r.kind = "dollar" => r.dollar \in Chars /\ r.part \subseteq Chars
         /\ r.kind = "line" => r.prefix \in Seq(Chars) \ {<<>>}
         /\ r.kind = "block" => r.open \in Seq(Chars) \ {<<>>} /\ r.close \in Seq(Chars) \ {<<>>}
         /\ r.kind = "operator" => r.chars \subseteq Chars
         /\ r.kind = "regex" => r.slash \in Chars /\ r.flags \subseteq Chars
BY DEF Reader, NumberReader, StringReader

\* Whatever its options and the text: a reader answers null, or takes at least
\* one character and gives a span within what it takes.
THEOREM ReadersAnswer ==
  ASSUME Reading, NEW r, IsReader(r), NEW lastType
  PROVE  IsAnswer(r, readBy(r, lastType))
<1>1. r \in Reader /\ (r.kind = "number" => r.leading \subseteq r.points)
  BY DEF IsReader
<1>2. CASE r.kind = "number"
  BY <1>1, <1>2, ReaderOptions, NumberIs DEF readBy
<1>3. CASE r.kind = "string"
  BY <1>1, <1>3, ReaderOptions, StringIs DEF readBy
<1>4. CASE r.kind = "dollar"
  BY <1>1, <1>4, ReaderOptions, DollarIs DEF readBy
<1>5. CASE r.kind = "line"
  BY <1>1, <1>5, ReaderOptions, LineIs DEF readBy
<1>6. CASE r.kind = "block"
  BY <1>1, <1>6, ReaderOptions, BlockIs DEF readBy
<1>7. CASE r.kind = "operator"
  BY <1>1, <1>7, ReaderOptions, OperatorIs DEF readBy
<1>8. CASE r.kind = "regex"
  BY <1>1, <1>8, ReaderOptions, RegexIs DEF readBy
<1>9. CASE r.kind = "chunk"
  BY <1>9, ChunkIs DEF readBy
<1> QED
  BY <1>1, <1>2, <1>3, <1>4, <1>5, <1>6, <1>7, <1>8, <1>9, ReaderOptions
================================================================================
