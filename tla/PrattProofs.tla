------------------------------ MODULE PrattProofs ------------------------------
(***************************************************************************)
(* What pratt returns is a reading of the tokens that it took, for every   *)
(* table and every text: the stack of calls, each with its minBp, its left *)
(* and its open operator, holds readings all the way. It is the only one,  *)
(* and none goes on where pratt stops: for each expression that the text   *)
(* begins with, every level is on its way to a reading that its caller can *)
(* take as an operand, up to the expression itself.                        *)
(***************************************************************************)
EXTENDS PrattReadings, SequenceTheorems, Induction

-------------------------------------------------------------------------------
(* Readings, unfolded: those of n words are made of those of fewer.        *)

LEMMA OfFewer ==
  ASSUME NEW words, NEW f, NEW g, NEW n \in Nat \ {0}, \A m \in 1..(n - 1) : f[m] = g[m]
  PROVE  ReadingsOf(words, f, n) = ReadingsOf(words, g, n)
<1>1. n # 1 => n - 1 \in 1..(n - 1)
  OBVIOUS
<1>2. \A m \in 1..(n - 1) : n - m \in 1..(n - 1)
  OBVIOUS
<1>3. n # 1 => f[n - 1] = g[n - 1]
  BY <1>1
<1>4. \A m \in 1..(n - 1) : f[m] = g[m] /\ f[n - m] = g[n - m]
  BY <1>2
<1>5. UNION {UNION {WithOperands(r, f[n - m], r.from + m) : r \in f[m]} : m \in 1..(n - 1)}
        = UNION {UNION {WithOperands(r, g[n - m], r.from + m) : r \in g[m]} : m \in 1..(n - 1)}
  <2>1. \A m \in 1..(n - 1) :
          UNION {WithOperands(r, f[n - m], r.from + m) : r \in f[m]}
            = UNION {WithOperands(r, g[n - m], r.from + m) : r \in g[m]}
    BY <1>4
  <2> QED
    BY <2>1
<1> QED
  BY <1>3, <1>5, Zenon DEF ReadingsOf

LEMMA ReadingsAre ==
  ASSUME NEW words, Len(words) \in Nat
  PROVE  \A n \in 1..Len(words) : Readings(words)[n] = ReadingsOf(words, Readings(words), n)
<1> DEFINE N == Len(words)
           Grown(f, m) == IF m = 0 THEN <<>> ELSE Append(f[m - 1], ReadingsOf(words, f[m - 1], m))
           upTo == CHOOSE f : f = [m \in 0..N |-> Grown(f, m)]
           Solved == {n \in Nat : \E f : f = [m \in 0..n |-> Grown(f, m)]}
<1>1. Readings(words) = upTo[N]
  BY Zenon DEF Readings
<1>2. \A f, g, m : (m # 0 => f[m - 1] = g[m - 1]) => Grown(f, m) = Grown(g, m)
  BY Zenon
<1>3. \A f : Grown(f, 0) = <<>>
  BY Zenon
<1>4. \A f, m : m # 0 => Grown(f, m) = Append(f[m - 1], ReadingsOf(words, f[m - 1], m))
  BY Zenon
<1> HIDE DEF Grown
<1>5. N \in Solved
  <2>1. 0 \in Solved
    <3> DEFINE f == [m \in 0..0 |-> Grown(<<>>, m)]
    <3>1. \A m \in 0..0 : m = 0
      OBVIOUS
    <3>2. f = [m \in 0..0 |-> Grown(f, m)]
      <4>1. \A m \in 0..0 : Grown(<<>>, m) = Grown(f, m)
        BY <1>3, <3>1
      <4> QED
        BY <4>1, Zenon
    <3> QED
      BY <3>2
  <2>2. ASSUME NEW n \in Nat, n \in Solved PROVE n + 1 \in Solved
    <3>1. PICK f : f = [m \in 0..n |-> Grown(f, m)]
      BY <2>2
    <3> DEFINE g == [m \in 0..(n + 1) |-> IF m <= n THEN f[m] ELSE Grown(f, m)]
    <3>2. \A m \in 0..(n + 1) : m # 0 => g[m - 1] = f[m - 1]
      OBVIOUS
    <3>3. \A m \in 0..(n + 1) : g[m] = Grown(f, m)
      <4>1. \A m \in 0..n : f[m] = Grown(f, m)
        BY <3>1, Zenon
      <4> QED
        BY <4>1
    <3>4. \A m \in 0..(n + 1) : Grown(f, m) = Grown(g, m)
      <4> HIDE DEF g
      <4> QED
        BY <1>2, <3>2
    <3>5. g = [m \in 0..(n + 1) |-> g[m]]
      OBVIOUS
    <3> HIDE DEF g
    <3>6. g = [m \in 0..(n + 1) |-> Grown(g, m)]
      BY <3>3, <3>4, <3>5
    <3> QED
      BY <3>6
  <2>3. \A n \in Nat : n \in Solved => n + 1 \in Solved
    BY <2>2
  <2> HIDE DEF Solved
  <2> QED
    BY <2>1, <2>3, SetInduction
<1>6. upTo = [m \in 0..N |-> Grown(upTo, m)]
  <2>1. \E f : f = [m \in 0..N |-> Grown(f, m)]
    BY <1>5
  <2> QED
    BY <2>1, Zenon
<1> HIDE DEF upTo
<1> DEFINE Row(m) == ReadingsOf(words, upTo[m - 1], m)
           S == {Row(m) : m \in 1..N}
           Lists(n) == upTo[n] \in Seq(S) /\ Len(upTo[n]) = n /\ \A i \in 1..n : upTo[n][i] = Row(i)
           Good == {n \in Nat : n <= N => Lists(n)}
<1>7. \A n \in 0..N : Lists(n)
  <2>1. 0 \in Good
    <3>1. 0 \in 0..N
      OBVIOUS
    <3>2. upTo[0] = <<>>
      BY <1>3, <1>6, <3>1
    <3>3. <<>> \in Seq(S) /\ Len(<<>>) = 0 /\ 1..0 = {}
      BY EmptySeq
    <3>4. Lists(0)
      BY <3>2, <3>3, Zenon
    <3> HIDE DEF Lists
    <3> QED
      BY <3>4
  <2>2. ASSUME NEW n \in Nat, n \in Good PROVE n + 1 \in Good
    <3> SUFFICES ASSUME n + 1 <= N PROVE Lists(n + 1)
      OBVIOUS
    <3>1. Lists(n)
      BY <2>2
    <3>2. upTo[n + 1] = Append(upTo[n], Row(n + 1))
      <4>1. n + 1 \in 0..N /\ n + 1 # 0 /\ (n + 1) - 1 = n
        OBVIOUS
      <4> QED
        BY <1>4, <1>6, <4>1
    <3>3. Row(n + 1) \in S
      OBVIOUS
    <3> HIDE DEF S, Row
    <3>4. /\ upTo[n + 1] \in Seq(S)
          /\ Len(upTo[n + 1]) = n + 1
          /\ \A i \in 1..n : upTo[n + 1][i] = upTo[n][i]
          /\ upTo[n + 1][n + 1] = Row(n + 1)
      BY <3>1, <3>2, <3>3, AppendProperties
    <3>5. \A i \in 1..(n + 1) : upTo[n + 1][i] = Row(i)
      BY <3>1, <3>4
    <3> QED
      BY <3>4, <3>5
  <2>3. \A n \in Nat : n \in Good => n + 1 \in Good
    BY <2>2
  <2>4. Nat \subseteq Good
    <3> HIDE DEF Good
    <3> QED
      BY <2>1, <2>3, SetInduction
  <2> HIDE DEF Lists
  <2> QED
    BY <2>4
<1> HIDE DEF S
<1>8. ASSUME NEW n \in 1..N PROVE upTo[N][n] = ReadingsOf(words, upTo[N], n)
  <2>1. n - 1 \in 0..N /\ N \in 0..N /\ n \in Nat \ {0} /\ \A m \in 1..(n - 1) : m \in 1..N
    OBVIOUS
  <2>2. upTo[N][n] = Row(n) /\ \A m \in 1..(n - 1) : upTo[n - 1][m] = upTo[N][m]
    BY <1>7, <2>1
  <2>3. ReadingsOf(words, upTo[n - 1], n) = ReadingsOf(words, upTo[N], n)
    BY <2>1, <2>2, OfFewer
  <2> QED
    BY <2>2, <2>3
<1> QED
  BY <1>1, <1>8

-------------------------------------------------------------------------------
(* What a reading may begin with, and how it may go on.                    *)

LEMMA Begins ==
  ASSUME NEW words, Len(words) \in Nat, DOMAIN words = 1..Len(words), NEW i \in DOMAIN words,
         NEW r \in Atoms(words, i) \cup Prefixed(words, i)
  PROVE  r \in Readings(words)[1]
<1>1. 1 \in 1..Len(words)
  OBVIOUS
<1>2. Readings(words)[1] = ReadingsOf(words, Readings(words), 1)
  BY <1>1, ReadingsAre
<1> QED
  BY <1>2, Zenon DEF ReadingsOf

LEMMA GoesOnByWord ==
  ASSUME NEW words, Len(words) \in Nat, DOMAIN words = 1..Len(words),
         NEW n \in Nat \ {0}, n + 1 <= Len(words),
         NEW left \in Readings(words)[n], NEW i \in DOMAIN words, i = left.from + n,
         NEW r \in WithWord(words, left, i)
  PROVE  r \in Readings(words)[n + 1]
<1>1. n + 1 \in 1..Len(words) /\ n + 1 # 1 /\ (n + 1) - 1 = n
  OBVIOUS
<1>2. Readings(words)[n + 1] = ReadingsOf(words, Readings(words), n + 1)
  BY <1>1, ReadingsAre
<1>3. left.from + (n + 1) - 1 = i
  <2>1. i \in Nat
    OBVIOUS
  <2> QED
    BY <2>1
<1>4. r \in UNION {WithWord(words, x, x.from + (n + 1) - 1) : x \in Readings(words)[(n + 1) - 1]}
  BY <1>1, <1>3, Zenon
<1> QED
  BY <1>1, <1>2, <1>4, Zenon DEF ReadingsOf

LEMMA GoesOnByOperand ==
  ASSUME NEW words, Len(words) \in Nat,
         NEW m \in Nat \ {0}, NEW n \in Nat \ {0}, m + n <= Len(words),
         NEW left \in Readings(words)[m], NEW operand \in Readings(words)[n],
         operand.from = left.from + m,
         Waits(left, End), MayBe(operand, Head(left.reads).bp)
  PROVE  WithOperand(left, operand) \in Readings(words)[m + n]
<1>1. m + n \in 1..Len(words) /\ m \in 1..(m + n - 1) /\ (m + n) - m = n
  OBVIOUS
<1>2. Readings(words)[m + n] = ReadingsOf(words, Readings(words), m + n)
  BY <1>1, ReadingsAre
<1>3. WithOperand(left, operand) \in WithOperands(left, Readings(words)[n], left.from + m)
  BY Zenon DEF WithOperands
<1>4. WithOperand(left, operand)
        \in UNION {WithOperands(r, Readings(words)[(m + n) - m], r.from + m) : r \in Readings(words)[m]}
  BY <1>1, <1>3, Zenon
<1> DEFINE Pairs(k) ==
             UNION {UNION {WithOperands(r, Readings(words)[k - j], r.from + j) : r \in Readings(words)[j]} :
                      j \in 1..(k - 1)}
<1>5. WithOperand(left, operand) \in Pairs(m + n)
  <2>1. WithOperand(left, operand)
          \in UNION {UNION {WithOperands(r, Readings(words)[(m + n) - j], r.from + j) : r \in Readings(words)[j]}
                       : j \in 1..(m + n - 1)}
    BY <1>1, <1>4, ZenonT(40)
  <2> QED
    BY <2>1
<1>6. ASSUME NEW k PROVE Pairs(k) \subseteq ReadingsOf(words, Readings(words), k)
  BY Zenon DEF ReadingsOf
<1> HIDE DEF Pairs
<1> QED
  BY <1>2, <1>5, <1>6

-------------------------------------------------------------------------------
(* Which group the code finds.                                             *)

LEMMA MinIs ==
  ASSUME NEW T, T \subseteq Nat, T # {}
  PROVE  IsFirst(Min(T), T)
<1>1. \E x \in T : \A y \in T : x <= y
  BY Least
<1> QED
  BY <1>1, Zenon DEF Min, IsFirst

LEMMA TableIs ==
  /\ DOMAIN prefix = 1..Len(prefix) /\ Len(prefix) \in Nat
  /\ DOMAIN infix = 1..Len(infix) /\ Len(infix) \in Nat
  /\ DOMAIN postfix = 1..Len(postfix) /\ Len(postfix) \in Nat
  /\ \A g \in DOMAIN prefix : prefix[g] \in PrattGroup
  /\ \A g \in DOMAIN infix : infix[g] \in PrattGroup
  /\ \A g \in DOMAIN postfix : postfix[g] \in PrattGroup
<1>1. ASSUME NEW groups \in {prefix, infix, postfix}
      PROVE  /\ DOMAIN groups = 1..Len(groups) /\ Len(groups) \in Nat
             /\ \A g \in DOMAIN groups : groups[g] \in PrattGroup
  <2>1. groups \in Seq(PrattGroup)
    BY TableAssumption, Zenon
  <2> QED
    BY <2>1, LenProperties, ElementOfSeq
<1> QED
  BY <1>1

LEMMA GroupIs ==
  ASSUME NEW group \in PrattGroup
  PROVE  group.bp \in Int /\ group.tail \in Seq([bp : Int, token : STRING]) /\ "" \notin group.ops
BY DEF PrattGroup

LEMMA PrefixIs ==
  LET groups == {h \in DOMAIN prefix : next \in prefix[h].ops}
  IN  IF groups = {} THEN prefixGroup = 0 ELSE IsFirst(prefixGroup, groups) /\ prefixGroup \in Nat \ {0}
<1> DEFINE groups == {h \in DOMAIN prefix : next \in prefix[h].ops}
<1>1. groups \subseteq Nat \ {0} /\ groups = {i \in 1..Len(prefix) : next \in prefix[i].ops}
  BY TableIs
<1>2. prefixGroup = IF groups # {} THEN Min(groups) ELSE 0
  BY <1>1, Zenon DEF prefixGroup, SelectInSeq
<1> HIDE DEF groups
<1>3. groups # {} => IsFirst(Min(groups), groups)
  BY <1>1, MinIs
<1>4. IF groups = {} THEN prefixGroup = 0 ELSE IsFirst(prefixGroup, groups) /\ prefixGroup \in Nat \ {0}
  BY <1>1, <1>2, <1>3 DEF IsFirst
<1> QED
  BY <1>4 DEF groups

LEMMA PostfixIs ==
  LET groups == Postfixes(top.minBp, top.left.op, next, second)
  IN  IF groups = {} THEN postfixGroup = 0 ELSE IsFirst(postfixGroup, groups) /\ postfixGroup \in Nat \ {0}
<1> DEFINE groups == Postfixes(top.minBp, top.left.op, next, second)
<1>1. /\ groups \subseteq Nat \ {0}
      /\ groups = {i \in 1..Len(postfix) : postfix[i].bp >= top.minBp /\ Applies(postfix[i], top.left)}
  BY TableIs DEF Postfixes, Fits, Applies, Accepts
<1>2. postfixGroup = IF groups # {} THEN Min(groups) ELSE 0
  BY <1>1, Zenon DEF postfixGroup, SelectInSeq
<1> HIDE DEF groups
<1>3. groups # {} => IsFirst(Min(groups), groups)
  BY <1>1, MinIs
<1>4. IF groups = {} THEN postfixGroup = 0 ELSE IsFirst(postfixGroup, groups) /\ postfixGroup \in Nat \ {0}
  BY <1>1, <1>2, <1>3 DEF IsFirst
<1> QED
  BY <1>4 DEF groups

LEMMA InfixIs ==
  LET groups == Infixes(top.left.op, next, second)
  IN  IF groups = {} THEN infixGroup = 0 ELSE IsFirst(infixGroup, groups) /\ infixGroup \in Nat \ {0}
<1> DEFINE groups == Infixes(top.left.op, next, second)
<1>1. groups \subseteq Nat \ {0} /\ groups = {i \in 1..Len(infix) : Applies(infix[i], top.left)}
  BY TableIs DEF Infixes, Fits, Applies, Accepts
<1>2. infixGroup = IF groups # {} THEN Min(groups) ELSE 0
  BY <1>1, Zenon DEF infixGroup, SelectInSeq
<1> HIDE DEF groups
<1>3. groups # {} => IsFirst(Min(groups), groups)
  BY <1>1, MinIs
<1>4. IF groups = {} THEN infixGroup = 0 ELSE IsFirst(infixGroup, groups) /\ infixGroup \in Nat \ {0}
  BY <1>1, <1>2, <1>3 DEF IsFirst
<1> QED
  BY <1>4 DEF groups

\* What the loop of a level does with an operator is what an operand read at
\* its minBp does.
LEMMA LoopTakes ==
  ASSUME top.minBp \in Int
  PROVE  /\ postfixGroup # 0 =>
              /\ postfixGroup \in DOMAIN postfix
              /\ Takes(top.minBp, top.left.op, next, second, "postfix", postfixGroup)
              /\ Fits(postfix[postfixGroup], top.left.op, next, second)
         /\ postfixGroup = 0 /\ GoesOn =>
              /\ infixGroup \in DOMAIN infix
              /\ Takes(top.minBp, top.left.op, next, second, "infix", infixGroup)
              /\ Fits(infix[infixGroup], top.left.op, next, second)
         /\ postfixGroup = 0 /\ ~GoesOn => Leaves(top.minBp, top.left.op, next, second)
<1> DEFINE ps == Postfixes(top.minBp, top.left.op, next, second)
           is == Infixes(top.left.op, next, second)
<1>1. IF ps = {} THEN postfixGroup = 0 ELSE IsFirst(postfixGroup, ps) /\ postfixGroup # 0
  BY PostfixIs, Zenon
<1>2. IF is = {} THEN infixGroup = 0 ELSE IsFirst(infixGroup, is) /\ infixGroup # 0
  BY InfixIs, Zenon
<1>3. \A g \in ps : g \in DOMAIN postfix /\ Fits(postfix[g], top.left.op, next, second)
  BY DEF Postfixes
<1>4. \A g \in is : g \in DOMAIN infix /\ g \in Nat /\ infix[g].bp \in Int /\ Fits(infix[g], top.left.op, next, second)
  <2>1. ASSUME NEW g \in DOMAIN infix PROVE g \in Nat /\ infix[g].bp \in Int
    <3>1. g \in 1..Len(infix) /\ Len(infix) \in Nat /\ infix[g] \in PrattGroup
      BY TableIs, Zenon
    <3>2. infix[g].bp \in Int
      BY <3>1, GroupIs, Zenon
    <3> QED
      BY <3>1, <3>2
  <2> QED
    BY <2>1 DEF Infixes
<1>5. Leaves(top.minBp, top.left.op, next, second)
        <=> ps = {} /\ \A g \in is : IsFirst(g, is) => infix[g].bp < top.minBp
  BY Zenon DEF Leaves
<1>6. \A g : /\ Takes(top.minBp, top.left.op, next, second, "postfix", g) <=> IsFirst(g, ps)
             /\ Takes(top.minBp, top.left.op, next, second, "infix", g)
                  <=> ps = {} /\ IsFirst(g, is) /\ infix[g].bp >= top.minBp
  BY DEF Takes
<1> HIDE DEF ps, is
<1>7. postfixGroup # 0 => IsFirst(postfixGroup, ps) /\ postfixGroup \in ps
  BY <1>1 DEF IsFirst
<1>8. postfixGroup = 0 => ps = {}
  BY <1>1
<1>9. infixGroup # 0 => IsFirst(infixGroup, is) /\ infixGroup \in is
  BY <1>2 DEF IsFirst
<1>10. ASSUME postfixGroup = 0, ~GoesOn, NEW g \in is, IsFirst(g, is) PROVE infix[g].bp < top.minBp
  <2>1. infixGroup \in is /\ infixGroup = g
    BY <1>2, <1>4, <1>10 DEF IsFirst
  <2>2. infixGroup # 0
    BY <1>2, <1>10
  <2> QED
    BY <1>4, <1>10, <2>1, <2>2 DEF GoesOn
<1> QED
  BY <1>3, <1>4, <1>5, <1>6, <1>7, <1>8, <1>9, <1>10 DEF GoesOn

-------------------------------------------------------------------------------
(* The stack of calls.                                                     *)

LEMMA OwnSeq ==
  ASSUME NEW S, NEW s \in Seq(S)
  PROVE  s \in Seq({s[k] : k \in DOMAIN s})
<1>1. s \in [1..Len(s) -> S] /\ Len(s) \in Nat /\ DOMAIN s = 1..Len(s)
  BY LenProperties
<1>2. \A k \in 1..Len(s) : s[k] \in {s[j] : j \in DOMAIN s}
  BY <1>1
<1> DEFINE T == {s[j] : j \in DOMAIN s}
<1>3. s \in [1..Len(s) -> T]
  BY <1>1, <1>2
<1> HIDE DEF T
<1>4. s \in Seq(T)
  BY <1>1, <1>3
<1> QED
  BY <1>4 DEF T

LEMMA ReplaceTop ==
  ASSUME NEW S, NEW s \in Seq(S), s # <<>>, NEW x, NEW t, t = <<x>> \o Tail(s)
  PROVE  /\ t \in Seq(S \cup {x})
         /\ Len(t) = Len(s) /\ t[1] = x /\ Head(t) = x
         /\ \A k \in 2..Len(s) : t[k] = s[k]
<1>1. Tail(s) \in Seq(S) /\ Len(Tail(s)) = Len(s) - 1 /\ \A i \in 1..(Len(s) - 1) : Tail(s)[i] = s[i + 1]
  BY HeadTailProperties
<1>2. Len(s) \in Nat \ {0}
  BY EmptySeq
<1>3. <<x>> \in Seq(S \cup {x}) /\ Tail(s) \in Seq(S \cup {x}) /\ Len(<<x>>) = 1 /\ <<x>>[1] = x
  BY <1>1, SeqMonotonic
<1>4. /\ t \in Seq(S \cup {x})
      /\ Len(t) = 1 + (Len(s) - 1)
      /\ \A i \in 1..(1 + (Len(s) - 1)) : t[i] = IF i <= 1 THEN <<x>>[i] ELSE Tail(s)[i - 1]
  BY <1>1, <1>3, ConcatProperties
<1>5. Len(t) = Len(s) /\ t[1] = x /\ \A k \in 2..Len(s) : t[k] = s[k]
  BY <1>1, <1>2, <1>3, <1>4
<1>6. Head(t) = t[1]
  BY <1>2, <1>4
<1> QED
  BY <1>4, <1>5, <1>6

LEMMA PushTop ==
  ASSUME NEW S, NEW s \in Seq(S), NEW x, NEW t, t = <<x>> \o s
  PROVE  /\ t \in Seq(S \cup {x})
         /\ Len(t) = Len(s) + 1 /\ t[1] = x /\ Head(t) = x
         /\ \A k \in 2..(Len(s) + 1) : t[k] = s[k - 1]
<1>1. <<x>> \in Seq(S \cup {x}) /\ s \in Seq(S \cup {x}) /\ Len(<<x>>) = 1 /\ <<x>>[1] = x /\ Len(s) \in Nat
  BY SeqMonotonic
<1>2. /\ t \in Seq(S \cup {x})
      /\ Len(t) = 1 + Len(s)
      /\ \A i \in 1..(1 + Len(s)) : t[i] = IF i <= 1 THEN <<x>>[i] ELSE s[i - 1]
  BY <1>1, ConcatProperties
<1>3. Len(t) = Len(s) + 1 /\ t[1] = x /\ \A k \in 2..(Len(s) + 1) : t[k] = s[k - 1]
  BY <1>1, <1>2
<1>4. Head(t) = t[1]
  BY <1>1, <1>2
<1> QED
  BY <1>2, <1>3, <1>4

-------------------------------------------------------------------------------
(* The invariant: each level holds a reading of the tokens from its start  *)
(* to the start of the level that it has called, or to the cursor.         *)

Read == [bp : Int, token : STRING \cup {End}]

LEMMA OperandIsRead ==
  \A bp \in Int : Operand(bp) \in Read /\ <<Operand(bp)>> \in Seq(Read)
<1>1. \A bp \in Int : Operand(bp) \in Read
  BY DEF Operand, Read
<1> QED
  BY <1>1

LEMMA TailIsRead ==
  ASSUME NEW group \in PrattGroup
  PROVE  group.tail \in Seq(Read)
<1>1. group.tail \in Seq([bp : Int, token : STRING])
  BY GroupIs, Zenon
<1>2. [bp : Int, token : STRING] \subseteq Read
  BY DEF Read
<1> QED
  BY <1>1, <1>2, SeqMonotonic

IsLevel(v) ==
  /\ v = [start |-> v.start, minBp |-> v.minBp, at |-> v.at, left |-> v.left, open |-> v.open, reads |-> v.reads]
  /\ v.start \in Nat
  /\ v.minBp \in Int
  /\ v.reads \in Seq(Read)

\* The reading is of the tokens up to this one, and fit for the level's minBp.
Holds(words, v, to, r) ==
  /\ to \in Nat
  /\ v.start < to
  /\ to <= Len(words)
  /\ r \in Readings(words)[to - v.start]
  /\ r.from = v.start + 1
  /\ Bears(r, v.minBp)

HoldsLeft(words, v, to, r) == Holds(words, v, to, r) /\ r.tree = v.left /\ r.reads = <<>>

HoldsOpen(words, v, to, r) == Holds(words, v, to, r) /\ r.tree = v.open /\ r.reads = v.reads

Cuts(tree, op, behind) ==
  /\ tree.kind = "infix"
  /\ infix[tree.group].assoc = "nonassoc"
  /\ Fits(infix[tree.group], tree.op, op, behind)

\* No operand at its end would take the operator, or go on in a chain.
Settled(r, op, behind) ==
  \A edge \in r.rights : Leaves(edge.bp, edge.tree.op, op, behind) /\ ~Cuts(edge.tree, op, behind)

TopOK(words, v, p) ==
  LET op == Word(words, p + 1)
      behind == Word(words, p + 2)
  IN  \/ v.at = "operand" /\ v.start = p
      \/ /\ v.at = "loop"
         /\ ~Cuts(v.left, op, behind)
         /\ \E r : HoldsLeft(words, v, p, r) /\ Settled(r, op, behind)
      \/ /\ v.at = "tail"
         /\ \E r : HoldsOpen(words, v, p, r) /\ (v.reads = <<>> => Settled(r, op, behind))

CallerOK(words, v, called) ==
  /\ v.at = "tail"
  /\ v.reads # <<>>
  /\ Head(v.reads) = Operand(called.minBp)
  /\ \E r : HoldsOpen(words, v, called.start, r)

StackOK(words, stack, p) ==
  /\ p \in 0..Len(words)
  /\ stack \in Seq({stack[k] : k \in DOMAIN stack})
  /\ stack # <<>>
  /\ \A k \in 1..Len(stack) : IsLevel(stack[k])
  /\ stack[Len(stack)].start = 0 /\ stack[Len(stack)].minBp = 0
  /\ TopOK(words, stack[1], p)
  /\ \A k \in 2..Len(stack) : CallerOK(words, stack[k], stack[k - 1])

PrattInv ==
  /\ text \in Texts
  /\ StackOK(text, levels, pos)
  /\ outcome = "done" => /\ Len(levels) = 1
                         /\ top.at = "loop"
                         /\ Leaves(0, top.left.op, next, second)

Fields(a, b, c, d, e, f) == [start : {a}, minBp : {b}, at : {c}, left : {d}, open : {e}, reads : {f}]

LEMMA FieldsAre ==
  ASSUME NEW a \in Nat, NEW b \in Int, NEW c, NEW d, NEW e, NEW f \in Seq(Read), NEW v \in Fields(a, b, c, d, e, f)
  PROVE  /\ IsLevel(v)
         /\ v.start = a /\ v.minBp = b /\ v.at = c /\ v.left = d /\ v.open = e /\ v.reads = f
BY DEF Fields, IsLevel

LEMMA StackIs ==
  ASSUME NEW words, NEW stack, NEW p, StackOK(words, stack, p)
  PROVE  /\ Len(stack) \in Nat \ {0} /\ DOMAIN stack = 1..Len(stack)
         /\ Head(stack) = stack[1] /\ IsLevel(stack[1])
<1>1. stack \in Seq({stack[k] : k \in DOMAIN stack}) /\ stack # <<>>
  BY DEF StackOK
<1>2. Len(stack) \in Nat \ {0} /\ DOMAIN stack = 1..Len(stack)
  BY <1>1, EmptySeq, LenProperties
<1>3. Head(stack) = stack[1]
  BY <1>1, <1>2
<1> QED
  BY <1>2, <1>3 DEF StackOK

\* The top changes and keeps its start and its minBp.
LEMMA Replaces ==
  ASSUME NEW words, NEW stack, NEW p, StackOK(words, stack, p),
         NEW v, IsLevel(v), v.start = stack[1].start, v.minBp = stack[1].minBp,
         NEW q \in 0..Len(words), TopOK(words, v, q)
  PROVE  StackOK(words, <<v>> \o Tail(stack), q)
<1> DEFINE new == <<v>> \o Tail(stack)
<1>1. Len(stack) \in Nat \ {0}
  BY StackIs
<1>2. PICK S : stack \in Seq(S) /\ stack # <<>>
  BY DEF StackOK
<1>0. new = <<v>> \o Tail(stack)
  OBVIOUS
<1> HIDE DEF new
<1>3. new \in Seq(S \cup {v}) /\ Len(new) = Len(stack) /\ new[1] = v /\ \A k \in 2..Len(stack) : new[k] = stack[k]
  BY <1>0, <1>2, ReplaceTop
<1>4. new \in Seq({new[k] : k \in DOMAIN new}) /\ new # <<>>
  BY <1>1, <1>3, OwnSeq
<1>5. \A k \in 1..Len(new) : IsLevel(new[k])
  BY <1>1, <1>3 DEF StackOK
<1>6. new[Len(new)].start = 0 /\ new[Len(new)].minBp = 0
  BY <1>1, <1>3 DEF StackOK
<1>7. ASSUME NEW k \in 2..Len(new) PROVE CallerOK(words, new[k], new[k - 1])
  <2>1. k \in 2..Len(stack) /\ new[k] = stack[k] /\ CallerOK(words, stack[k], stack[k - 1])
    BY <1>3, <1>7 DEF StackOK
  <2>2. new[k - 1].start = stack[k - 1].start /\ new[k - 1].minBp = stack[k - 1].minBp
    <3>1. k - 1 = 1 \/ k - 1 \in 2..Len(stack)
      BY <1>1, <2>1
    <3>2. k - 1 \in 2..Len(stack) => new[k - 1] = stack[k - 1]
      BY <1>3
    <3> QED
      BY <1>3, <3>1, <3>2
  <2> QED
    BY <2>1, <2>2 DEF CallerOK
<1>8. TopOK(words, new[1], q)
  BY <1>3
<1> QED
  BY <1>4, <1>5, <1>6, <1>7, <1>8 DEF StackOK, new

\* The top calls a level for the operand that it waits for.
LEMMA Pushes ==
  ASSUME NEW words, NEW stack, NEW p, StackOK(words, stack, p),
         stack[1].at = "tail", stack[1].reads # <<>>, Head(stack[1].reads).token = End,
         NEW v, IsLevel(v), v.start = p, v.minBp = Head(stack[1].reads).bp, v.at = "operand"
  PROVE  StackOK(words, <<v>> \o stack, p)
<1> DEFINE new == <<v>> \o stack
<1>0. new = <<v>> \o stack
  OBVIOUS
<1> HIDE DEF new
<1>1. Len(stack) \in Nat \ {0} /\ IsLevel(stack[1])
  BY StackIs
<1>2. PICK S : stack \in Seq(S) /\ stack # <<>>
  BY DEF StackOK
<1>3. /\ new \in Seq(S \cup {v})
      /\ Len(new) = Len(stack) + 1
      /\ new[1] = v
      /\ \A k \in 2..(Len(stack) + 1) : new[k] = stack[k - 1]
  BY <1>0, <1>2, PushTop
<1>4. new \in Seq({new[k] : k \in DOMAIN new}) /\ new # <<>>
  BY <1>1, <1>3, OwnSeq
<1>5. ASSUME NEW k \in 1..Len(new) PROVE IsLevel(new[k])
  <2>1. k = 1 \/ (k \in 2..(Len(stack) + 1) /\ k - 1 \in 1..Len(stack))
    BY <1>1, <1>3
  <2> QED
    BY <1>3, <2>1 DEF StackOK
<1>6. new[Len(new)].start = 0 /\ new[Len(new)].minBp = 0
  <2>1. Len(new) \in 2..(Len(stack) + 1) /\ Len(new) - 1 = Len(stack)
    BY <1>1, <1>3
  <2> QED
    BY <1>3, <2>1 DEF StackOK
<1>7. TopOK(words, new[1], p)
  BY <1>3 DEF TopOK
<1>8. CallerOK(words, stack[1], v)
  <2>1. PICK r : HoldsOpen(words, stack[1], p, r)
    BY Zenon DEF StackOK, TopOK
  <2>2. Head(stack[1].reads) = Operand(v.minBp)
    <3>1. stack[1].reads \in Seq(Read)
      BY <1>1 DEF IsLevel
    <3>2. Head(stack[1].reads) \in Read
      BY <3>1
    <3> QED
      BY <3>2 DEF Read, Operand
  <2> QED
    BY <2>1, <2>2, Zenon DEF CallerOK
<1>9. ASSUME NEW k \in 2..Len(new) PROVE CallerOK(words, new[k], new[k - 1])
  <2>1. k = 2 \/ (k \in 3..(Len(stack) + 1) /\ k - 1 \in 2..(Len(stack) + 1) /\ k - 1 \in 2..Len(stack))
    BY <1>1, <1>3
  <2>2. CASE k = 2
    <3>1. new[2] = stack[1] /\ k - 1 = 1
      BY <1>1, <1>3, <2>2
    <3> QED
      BY <1>3, <1>8, <2>2, <3>1
  <2>3. CASE k \in 3..(Len(stack) + 1) /\ k - 1 \in 2..(Len(stack) + 1) /\ k - 1 \in 2..Len(stack)
    <3>1. new[k] = stack[k - 1] /\ new[k - 1] = stack[(k - 1) - 1]
      BY <1>3, <2>3
    <3>2. CallerOK(words, stack[k - 1], stack[(k - 1) - 1])
      BY <2>3, Zenon DEF StackOK
    <3> QED
      BY <3>1, <3>2
  <2> QED
    BY <2>1, <2>2, <2>3
<1>10. p \in 0..Len(words)
  BY DEF StackOK
<1> QED
  BY <1>0, <1>4, <1>5, <1>6, <1>7, <1>9, <1>10 DEF StackOK

\* The reading of the operand completes what its caller has open.
LEMMA TakesOperand ==
  ASSUME NEW words, Len(words) \in Nat, NEW p \in Nat, NEW called, IsLevel(called), NEW caller, IsLevel(caller),
         CallerOK(words, caller, called),
         called.at = "loop", TopOK(words, called, p),
         Leaves(called.minBp, called.left.op, Word(words, p + 1), Word(words, p + 2)),
         NEW v, v.start = caller.start, v.minBp = caller.minBp, v.at = "tail",
         v.open = [caller.open EXCEPT !.args = Append(@, called.left)], v.reads = Tail(caller.reads)
  PROVE  TopOK(words, v, p)
<1> DEFINE op == Word(words, p + 1)
           behind == Word(words, p + 2)
           m == called.start - caller.start
           n == p - called.start
<1>1. PICK left : HoldsOpen(words, caller, called.start, left)
  BY DEF CallerOK
<1>2. PICK operand : HoldsLeft(words, called, p, operand) /\ Settled(operand, op, behind)
  BY Zenon DEF TopOK
<1>3. ~Cuts(called.left, op, behind)
  BY Zenon DEF TopOK
<1>4. /\ caller.start \in Nat /\ called.start \in Nat /\ m \in Nat \ {0} /\ n \in Nat \ {0}
      /\ m + n = p - caller.start /\ m + n <= Len(words)
      /\ caller.start < p /\ p <= Len(words)
  <2>1. caller.start \in Nat /\ called.start \in Nat
    BY Zenon DEF IsLevel
  <2>2. caller.start < called.start /\ called.start < p /\ p <= Len(words)
    BY <1>1, <1>2, Zenon DEF HoldsOpen, HoldsLeft, Holds
  <2> QED
    BY <2>1, <2>2
<1>5. left \in Readings(words)[m] /\ operand \in Readings(words)[n]
  BY <1>1, <1>2, Zenon DEF HoldsOpen, HoldsLeft, Holds
<1>6. operand.from = left.from + m /\ left.from = caller.start + 1
  <2>1. operand.from = called.start + 1 /\ left.from = caller.start + 1
    BY <1>1, <1>2, Zenon DEF HoldsOpen, HoldsLeft, Holds
  <2>2. called.start + 1 = (caller.start + 1) + m
    BY <1>4, SMTT(20)
  <2> QED
    BY <2>1, <2>2, Zenon
<1>7. /\ left.reads # <<>> /\ Head(left.reads) = Operand(called.minBp) /\ left.reads = caller.reads
      /\ left.tree = caller.open
  BY <1>1, Zenon DEF HoldsOpen, CallerOK
<1>8. Waits(left, End) /\ Head(left.reads).bp = called.minBp
  <2>1. Operand(called.minBp).token = End /\ Operand(called.minBp).bp = called.minBp
    BY DEF Operand
  <2> QED
    BY <1>7, <2>1, Zenon DEF Waits
<1>9. MayBe(operand, Head(left.reads).bp)
  BY <1>2, <1>8 DEF HoldsLeft, Holds, MayBe
<1> DEFINE r == WithOperand(left, operand)
<1> HIDE DEF m, n, op, behind
<1>10. r \in Readings(words)[m + n]
  BY <1>4, <1>5, <1>6, <1>8, <1>9, GoesOnByOperand
<1>11. /\ r.from = left.from /\ r.reads = Tail(left.reads) /\ r.lefts = left.lefts
       /\ r.tree = [left.tree EXCEPT !.args = Append(@, operand.tree)]
       /\ r.rights = operand.rights \cup {[bp |-> called.minBp, tree |-> operand.tree]}
  BY <1>8 DEF WithOperand, Partial
<1> HIDE DEF r
<1>12. operand.tree = called.left
  BY <1>2 DEF HoldsLeft
<1>13. Bears(r, v.minBp)
  BY <1>1, <1>11 DEF HoldsOpen, Holds, Bears
<1>14. HoldsOpen(words, v, p, r)
  <2>1. r \in Readings(words)[p - v.start]
    BY <1>4, <1>10
  <2>2. r.tree = v.open /\ r.reads = v.reads /\ r.from = v.start + 1
    BY <1>6, <1>7, <1>11, <1>12
  <2> QED
    BY <1>4, <1>13, <2>1, <2>2 DEF HoldsOpen, Holds
<1>15. Settled(r, op, behind)
  <2>1. Leaves(called.minBp, operand.tree.op, op, behind) /\ ~Cuts(operand.tree, op, behind)
    BY <1>3, <1>12 DEF op, behind
  <2>2. ASSUME NEW edge \in r.rights
        PROVE  Leaves(edge.bp, edge.tree.op, op, behind) /\ ~Cuts(edge.tree, op, behind)
    <3>1. edge \in operand.rights \/ (edge.bp = called.minBp /\ edge.tree = operand.tree)
      BY <1>11
    <3> QED
      BY <1>2, <2>1, <3>1 DEF Settled
  <2> QED
    BY <2>2 DEF Settled
<1> QED
  BY <1>14, <1>15 DEF TopOK, op, behind

\* The top returns to its caller.
LEMMA Pops ==
  ASSUME NEW words, Len(words) \in Nat, NEW stack, NEW p, StackOK(words, stack, p), Len(stack) # 1,
         stack[1].at = "loop",
         Leaves(stack[1].minBp, stack[1].left.op, Word(words, p + 1), Word(words, p + 2)),
         NEW v, IsLevel(v), v.start = stack[2].start, v.minBp = stack[2].minBp, v.at = "tail",
         v.open = [stack[2].open EXCEPT !.args = Append(@, stack[1].left)], v.reads = Tail(stack[2].reads)
  PROVE  StackOK(words, <<v>> \o Tail(Tail(stack)), p)
<1> DEFINE new == <<v>> \o Tail(Tail(stack))
<1>0. new = <<v>> \o Tail(Tail(stack))
  OBVIOUS
<1> HIDE DEF new
<1>1. Len(stack) \in Nat /\ Len(stack) >= 2 /\ IsLevel(stack[1])
  <2>1. Len(stack) \in Nat /\ Len(stack) # 0
    BY StackIs
  <2>2. IsLevel(stack[1])
    BY StackIs
  <2>3. \A n \in Nat : n # 0 /\ n # 1 => n >= 2
    OBVIOUS
  <2> QED
    BY <2>1, <2>2, <2>3
<1>2. PICK S : stack \in Seq(S) /\ stack # <<>>
  BY DEF StackOK
<1>3. /\ Tail(stack) \in Seq(S) /\ Len(Tail(stack)) = Len(stack) - 1
      /\ \A k \in 1..(Len(stack) - 1) : Tail(stack)[k] = stack[k + 1]
  BY <1>2, HeadTailProperties
<1> DEFINE rest == Tail(stack)
<1>4. rest # <<>> /\ rest \in Seq(S) /\ new = <<v>> \o Tail(rest)
  <2>1. Len(<<>>) = 0
    BY EmptySeq
  <2>2. Len(rest) # 0 /\ rest \in Seq(S)
    BY <1>1, <1>3
  <2>3. new = <<v>> \o Tail(rest)
    BY <1>0
  <2> HIDE DEF rest
  <2> QED
    BY <2>1, <2>2, <2>3
<1> HIDE DEF rest
<1>5. /\ new \in Seq(S \cup {v})
      /\ Len(new) = Len(rest)
      /\ new[1] = v
      /\ \A k \in 2..Len(rest) : new[k] = rest[k]
  BY <1>4, ReplaceTop
<1>6. Len(new) = Len(stack) - 1 /\ \A k \in 2..(Len(stack) - 1) : new[k] = stack[k + 1]
  BY <1>1, <1>3, <1>5 DEF rest
<1>7. new \in Seq({new[k] : k \in DOMAIN new}) /\ new # <<>>
  BY <1>1, <1>5, <1>6, OwnSeq
<1>8. ASSUME NEW k \in 1..Len(new) PROVE IsLevel(new[k])
  <2>1. k = 1 \/ (k \in 2..(Len(stack) - 1) /\ k + 1 \in 1..Len(stack))
    BY <1>1, <1>6
  <2> QED
    BY <1>5, <1>6, <2>1 DEF StackOK
<1>9. new[Len(new)].start = 0 /\ new[Len(new)].minBp = 0
  <2>1. CASE Len(stack) = 2
    BY <1>5, <1>6, <2>1 DEF StackOK
  <2>2. CASE Len(stack) # 2
    <3>1. Len(new) \in 2..(Len(stack) - 1) /\ Len(new) + 1 = Len(stack)
      BY <1>1, <1>6, <2>2
    <3> QED
      BY <1>6, <3>1 DEF StackOK
  <2> QED
    BY <2>1, <2>2
<1>10. TopOK(words, new[1], p)
  <2>1. 2 \in 2..Len(stack) /\ 2 \in 1..Len(stack) /\ 2 - 1 = 1
    BY <1>1
  <2>3. p \in 0..Len(words)
    BY DEF StackOK
  <2>4. p \in Nat
    BY <2>3
  <2>2. IsLevel(stack[2]) /\ CallerOK(words, stack[2], stack[1]) /\ TopOK(words, stack[1], p)
    BY <2>1 DEF StackOK
  <2>5. TopOK(words, v, p)
    BY <1>1, <2>2, <2>4, TakesOperand
  <2> QED
    BY <1>5, <2>5
<1>11. ASSUME NEW k \in 2..Len(new) PROVE CallerOK(words, new[k], new[k - 1])
  <2>1. k + 1 \in 2..Len(stack) /\ new[k] = stack[k + 1] /\ (k + 1) - 1 = k
    BY <1>1, <1>6
  <2>2. CallerOK(words, stack[k + 1], stack[k])
    BY <2>1, Zenon DEF StackOK
  <2>3. new[k - 1].start = stack[k].start /\ new[k - 1].minBp = stack[k].minBp
    <3>1. k = 2 \/ (k - 1 \in 2..(Len(stack) - 1) /\ (k - 1) + 1 = k)
      BY <1>1, <1>6
    <3>2. k - 1 \in 2..(Len(stack) - 1) => new[k - 1] = stack[(k - 1) + 1]
      BY <1>6
    <3> QED
      BY <1>5, <3>1, <3>2
  <2> QED
    BY <2>1, <2>2, <2>3 DEF CallerOK
<1>12. p \in 0..Len(words)
  BY DEF StackOK
<1> QED
  BY <1>0, <1>7, <1>8, <1>9, <1>10, <1>11, <1>12 DEF StackOK

-------------------------------------------------------------------------------
(* The steps.                                                              *)

LEMMA Here ==
  ASSUME PrattInv
  PROVE  /\ Len(text) \in Nat /\ DOMAIN text = 1..Len(text)
         /\ pos \in 0..Len(text)
         /\ top = levels[1] /\ IsLevel(top) /\ TopOK(text, top, pos)
         /\ next = Word(text, pos + 1) /\ second = Word(text, pos + 2)
         /\ Len(levels) \in Nat \ {0}
<1>1. text \in Seq(STRING \ {""})
  BY TableAssumption, Zenon DEF PrattInv
<1>2. StackOK(text, levels, pos)
  BY DEF PrattInv
<1>3. top = levels[1] /\ IsLevel(top) /\ Len(levels) \in Nat \ {0}
  BY <1>2, StackIs DEF top
<1>4. pos \in 0..Len(text) /\ TopOK(text, top, pos)
  BY <1>2, <1>3 DEF StackOK
<1>5. pos + 1 + 1 = pos + 2
  BY <1>4
<1>6. next = Word(text, pos + 1) /\ second = Word(text, pos + 2)
  BY DEF next, second, Token, Word
<1> QED
  BY <1>1, <1>3, <1>4, <1>6, LenProperties

LEMMA InText ==
  ASSUME PrattInv, next # End
  PROVE  pos + 1 \in DOMAIN text /\ text[pos + 1] = next /\ pos + 1 \in 0..Len(text)
<1>1. pos + 1 \in DOMAIN text /\ text[pos + 1] = next
  BY DEF next, Token
<1> QED
  BY <1>1, Here

\* The top becomes another level in the same place.
Turns(v) == Becomes(v) /\ IsLevel(v) /\ v.start = top.start /\ v.minBp = top.minBp

LEMMA Becoming ==
  ASSUME PrattInv, NEW v, Turns(v), text' = text, outcome' # "done", pos' \in 0..Len(text), TopOK(text, v, pos')
  PROVE  PrattInv'
<1>1. StackOK(text, levels, pos) /\ text \in Texts /\ top = levels[1]
  BY Here DEF PrattInv
<1>2. StackOK(text, <<v>> \o Tail(levels), pos')
  BY <1>1, Replaces DEF Turns
<1>3. levels' = <<v>> \o Tail(levels)
  BY DEF Turns, Becomes
<1>4. StackOK(text', levels', pos')
  BY <1>2, <1>3
<1> QED
  BY <1>1, <1>4 DEF PrattInv

LEMMA OpensLevel ==
  ASSUME PrattInv, NEW kind, NEW group, NEW args, NEW reads, reads \in Seq(Read), Opens(kind, group, args, reads)
  PROVE  \E v : Turns(v) /\ v.at = "tail" /\ v.open = Node(kind, group, next, args) /\ v.reads = reads
<1> DEFINE node == Node(kind, group, next, args)
           v == [top EXCEPT !.at = "tail", !.open = node, !.reads = reads]
<1>1. Becomes(v)
  BY DEF Opens
<1>2. IsLevel(top)
  BY Here
<1> HIDE DEF node
<1>3. v \in Fields(top.start, top.minBp, "tail", top.left, node, reads)
  BY <1>2 DEF IsLevel, Fields
<1> HIDE DEF v
<1>4. /\ IsLevel(v) /\ v.start = top.start /\ v.minBp = top.minBp /\ v.at = "tail"
      /\ v.open = node /\ v.reads = reads
  BY <1>2, <1>3, FieldsAre DEF IsLevel
<1> QED
  BY <1>1, <1>4 DEF Turns, node

LEMMA AtomLevel ==
  ASSUME PrattInv, Atom
  PROVE  \E v : Turns(v) /\ v.at = "loop" /\ v.left = Node("atom", 0, next, <<>>)
<1> DEFINE node == Node("atom", 0, next, <<>>)
           v == [top EXCEPT !.at = "loop", !.left = node]
<1>1. Becomes(v)
  BY DEF Atom
<1>2. IsLevel(top)
  BY Here
<1> HIDE DEF node
<1>3. v \in Fields(top.start, top.minBp, "loop", node, top.open, top.reads)
  BY <1>2 DEF IsLevel, Fields
<1> HIDE DEF v
<1>4. IsLevel(v) /\ v.start = top.start /\ v.minBp = top.minBp /\ v.at = "loop" /\ v.left = node
  BY <1>2, <1>3, FieldsAre DEF IsLevel
<1> QED
  BY <1>1, <1>4 DEF Turns, node

LEMMA KeywordLevel ==
  ASSUME PrattInv, ReadKeyword, ~Croak
  PROVE  \E v : Turns(v) /\ v.at = "tail" /\ v.open = top.open /\ v.reads = Tail(top.reads)
<1> DEFINE rest == Tail(top.reads)
           v == [top EXCEPT !.reads = rest]
<1>1. Becomes(v) /\ top.at = "tail" /\ top.reads # <<>>
  BY DEF ReadKeyword, Reading, At
<1>2. IsLevel(top)
  BY Here
<1>3. rest \in Seq(Read)
  <2>1. top.reads \in Seq(Read)
    BY <1>2 DEF IsLevel
  <2> QED
    BY <1>1, <2>1
<1> HIDE DEF rest
<1>4. v \in Fields(top.start, top.minBp, "tail", top.left, top.open, rest)
  BY <1>1, <1>2 DEF IsLevel, Fields
<1> HIDE DEF v
<1>5. /\ IsLevel(v) /\ v.start = top.start /\ v.minBp = top.minBp /\ v.at = "tail"
      /\ v.open = top.open /\ v.reads = rest
  BY <1>2, <1>3, <1>4, FieldsAre DEF IsLevel
<1> QED
  BY <1>1, <1>5 DEF Turns, rest

LEMMA CloseLevel ==
  ASSUME PrattInv, Close, ~Croak
  PROVE  \E v : Turns(v) /\ v.at = "loop" /\ v.left = top.open
<1> DEFINE v == [top EXCEPT !.at = "loop", !.left = top.open, !.open = NoTree]
<1>1. Becomes(v)
  BY DEF Close
<1>2. IsLevel(top)
  BY Here
<1>3. v \in Fields(top.start, top.minBp, "loop", top.open, NoTree, top.reads)
  <2> HIDE DEF NoTree
  <2> QED
    BY <1>2 DEF IsLevel, Fields
<1> HIDE DEF v
<1>4. IsLevel(v) /\ v.start = top.start /\ v.minBp = top.minBp /\ v.at = "loop" /\ v.left = top.open
  BY <1>2, <1>3, FieldsAre DEF IsLevel
<1> QED
  BY <1>1, <1>4 DEF Turns

LEMMA CallLevel ==
  ASSUME PrattInv, ReadOperand
  PROVE  \E v : /\ levels' = <<v>> \o levels
               /\ IsLevel(v) /\ v.start = pos /\ v.minBp = Head(top.reads).bp /\ v.at = "operand"
<1> DEFINE bp == Head(top.reads).bp
           v == Level(bp)
<1>1. levels' = <<v>> \o levels /\ top.reads # <<>>
  BY DEF ReadOperand, Reading
<1>2. IsLevel(top) /\ pos \in Nat
  BY Here
<1>3. bp \in Int
  <2>1. top.reads \in Seq(Read)
    BY <1>2 DEF IsLevel
  <2>2. Head(top.reads) \in Read
    BY <1>1, <2>1
  <2> QED
    BY <2>2 DEF Read
<1>4. v.start = pos /\ v.minBp = bp /\ v.at = "operand" /\ IsLevel(v)
  <2>1. <<>> \in Seq(Read)
    OBVIOUS
  <2> HIDE DEF bp
  <2> QED
    BY <1>2, <1>3, <2>1 DEF Level, IsLevel
<1> QED
  BY <1>1, <1>4

LEMMA ReturnLevel ==
  ASSUME PrattInv, Break, Len(levels) # 1
  PROVE  \E v : /\ levels' = <<v>> \o Tail(Tail(levels))
               /\ IsLevel(v) /\ v.start = levels[2].start /\ v.minBp = levels[2].minBp /\ v.at = "tail"
               /\ v.open = [levels[2].open EXCEPT !.args = Append(@, top.left)]
               /\ v.reads = Tail(levels[2].reads)
<1> DEFINE caller == levels[2]
           open == [caller.open EXCEPT !.args = Append(@, top.left)]
           reads == Tail(caller.reads)
           v == [caller EXCEPT !.open.args = Append(@, top.left), !.reads = Tail(@)]
<1>1. levels' = <<v>> \o Tail(Tail(levels))
  BY DEF Break
<1>2. IsLevel(caller) /\ CallerOK(text, caller, levels[1])
  <2>1. 2 \in 1..Len(levels) /\ 2 \in 2..Len(levels) /\ 2 - 1 = 1
    <3>1. \A n \in Nat \ {0} : n # 1 => 2 \in 1..n /\ 2 \in 2..n
      OBVIOUS
    <3>2. Len(levels) \in Nat \ {0}
      BY Here
    <3> QED
      BY <3>1, <3>2
  <2> QED
    BY <2>1 DEF PrattInv, StackOK
<1>3. /\ caller = [start |-> caller.start, minBp |-> caller.minBp, at |-> caller.at, left |-> caller.left,
                   open |-> caller.open, reads |-> caller.reads]
      /\ caller.start \in Nat /\ caller.minBp \in Int /\ caller.at = "tail"
  BY <1>2 DEF IsLevel, CallerOK
<1>4. reads \in Seq(Read)
  <2>1. caller.reads \in Seq(Read) /\ caller.reads # <<>>
    BY <1>2 DEF IsLevel, CallerOK
  <2> QED
    BY <2>1
<1> HIDE DEF caller
<1>5. v \in Fields(caller.start, caller.minBp, caller.at, caller.left, open, reads)
  <2>1. v = [[caller EXCEPT !.open.args = Append(@, top.left)] EXCEPT !.reads = reads]
    OBVIOUS
  <2>2. [caller EXCEPT !.open.args = Append(@, top.left)] = [caller EXCEPT !.open = open]
    OBVIOUS
  <2> HIDE DEF v, open, reads
  <2>3. v = [[caller EXCEPT !.open = open] EXCEPT !.reads = reads]
    BY <2>1, <2>2
  <2>4. v = [caller EXCEPT !.open = open, !.reads = reads]
    BY <2>3
  <2>5. [caller EXCEPT !.open = open, !.reads = reads]
          \in Fields(caller.start, caller.minBp, caller.at, caller.left, open, reads)
    BY <1>3 DEF Fields
  <2> QED
    BY <2>4, <2>5
<1> HIDE DEF v, reads, open
<1>6. /\ IsLevel(v) /\ v.start = caller.start /\ v.minBp = caller.minBp /\ v.at = "tail"
      /\ v.open = open /\ v.reads = reads
  BY <1>3, <1>4, <1>5, FieldsAre
<1> QED
  BY <1>1, <1>6 DEF open, reads, caller

\* The top opens an operator, with what its group reads.
LEMMA OpensOK ==
  ASSUME PrattInv, NEW kind, NEW group, NEW args, NEW reads, reads \in Seq(Read), At("operand") \/ At("loop"),
         Opens(kind, group, args, reads), next # End,
         NEW r, r \in Readings(text)[pos + 1 - top.start], r.from = top.start + 1, top.start <= pos,
         Bears(r, top.minBp), r.tree = Node(kind, group, next, args), r.reads = reads, r.rights = {}
  PROVE  PrattInv'
<1>1. PICK v : /\ Turns(v) /\ v.at = "tail"
               /\ v.open = Node(kind, group, next, args) /\ v.reads = reads
  BY OpensLevel
<1>2. pos' = pos + 1 /\ text' = text /\ outcome' # "done"
  BY DEF Opens, Consume, At
<1>3. pos + 1 \in 0..Len(text) /\ pos \in Nat /\ IsLevel(v) /\ v.start = top.start /\ v.minBp = top.minBp
  BY <1>1, Here, InText DEF Turns
<1>4. HoldsOpen(text, v, pos + 1, r)
  BY <1>1, <1>3 DEF HoldsOpen, Holds, IsLevel
<1>5. \A op, behind : Settled(r, op, behind)
  BY DEF Settled
<1>6. TopOK(text, v, pos')
  BY <1>1, <1>2, <1>4, <1>5 DEF TopOK
<1> QED
  BY <1>1, <1>2, <1>3, <1>6, Becoming

LEMMA PrefixStep == PrattInv /\ Prefix => PrattInv'
<1> SUFFICES ASSUME PrattInv, Prefix PROVE PrattInv'
  OBVIOUS
<1> DEFINE g == prefixGroup
           reads == <<Operand(prefix[g].bp)>>
           r == Partial(pos + 1, Node("prefix", g, next, <<>>), ReadsOf("prefix", g), {}, {})
<1>1. At("operand") /\ g # 0 /\ Opens("prefix", g, <<>>, reads)
  BY DEF Prefix
<1>2. IsFirst(g, {h \in DOMAIN prefix : next \in prefix[h].ops})
  BY <1>1, PrefixIs
<1>3. g \in DOMAIN prefix /\ next \in prefix[g].ops
  BY <1>2 DEF IsFirst
<1>4. prefix[g].bp \in Int /\ next # End
  <2>1. prefix[g] \in PrattGroup
    BY <1>3, TableIs, Zenon
  <2> QED
    BY <1>3, <2>1, GroupIs DEF End
<1>5. ReadsOf("prefix", g) = reads
  BY DEF ReadsOf
<1>6. reads \in Seq(Read)
  BY <1>4, OperandIsRead
<1>7. pos + 1 \in DOMAIN text /\ text[pos + 1] = next /\ Len(text) \in Nat /\ DOMAIN text = 1..Len(text) /\ pos \in Nat
  BY <1>4, InText, Here
<1>8. r \in Prefixed(text, pos + 1)
  BY <1>2, <1>3, <1>7 DEF Prefixed
<1>9. r \in Readings(text)[1]
  BY <1>7, <1>8, Begins
<1>10. top.start = pos
  BY <1>1, Here DEF TopOK, At
<1>11. /\ r.from = pos + 1 /\ r.tree = Node("prefix", g, next, <<>>) /\ r.reads = reads
       /\ r.lefts = {} /\ r.rights = {}
  BY <1>5 DEF Partial
<1>12. Bears(r, top.minBp)
  BY <1>11 DEF Bears
<1>13. pos + 1 - top.start = 1
  BY <1>7, <1>10
<1> HIDE DEF r, reads, g
<1> QED
  BY <1>1, <1>4, <1>6, <1>7, <1>9, <1>10, <1>11, <1>12, <1>13, OpensOK

\* An operator behind a whole left operand.
OpensOperator(kind, g) ==
  /\ At("loop")
  /\ g \in DOMAIN (IF kind = "postfix" THEN postfix ELSE infix)
  /\ Takes(top.minBp, top.left.op, next, second, kind, g)
  /\ Fits((IF kind = "postfix" THEN postfix ELSE infix)[g], top.left.op, next, second)
  /\ Opens(kind, g, <<top.left>>, ReadsOf(kind, g))
  /\ ReadsOf(kind, g) \in Seq(Read)

LEMMA OperatorStep ==
  ASSUME PrattInv, NEW kind \in {"postfix", "infix"}, NEW g, OpensOperator(kind, g)
  PROVE  PrattInv'
<1> USE DEF OpensOperator
<1> DEFINE group == (IF kind = "postfix" THEN postfix ELSE infix)[g]
<1>1. next # End
  <2>1. group \in PrattGroup
    BY TableIs, Zenon
  <2> QED
    BY <2>1, GroupIs DEF End, Fits
<1>2. /\ pos + 1 \in DOMAIN text /\ text[pos + 1] = next /\ Len(text) \in Nat /\ DOMAIN text = 1..Len(text)
      /\ pos \in Nat /\ IsLevel(top)
      /\ next = Word(text, pos + 1) /\ second = Word(text, (pos + 1) + 1)
  <2>1. (pos + 1) + 1 = pos + 2
    BY Here
  <2> QED
    BY <1>1, <2>1, InText, Here
<1>3. /\ ~Cuts(top.left, next, second)
      /\ \E r : HoldsLeft(text, top, pos, r) /\ Settled(r, next, second)
  BY Here DEF TopOK, At
<1>4. PICK left : HoldsLeft(text, top, pos, left) /\ Settled(left, next, second)
  BY <1>3
<1> DEFINE n == pos - top.start
           r == Opened(left, next, second, kind, g)
<1>5. /\ n \in Nat \ {0} /\ n + 1 <= Len(text) /\ pos + 1 = left.from + n /\ n + 1 = pos + 1 - top.start
      /\ top.start \in Nat /\ top.start <= pos /\ left.from = top.start + 1
  <2>1. top.start \in Nat
    BY <1>2, Zenon DEF IsLevel
  <2>2. top.start < pos /\ left.from = top.start + 1
    BY <1>4, Zenon DEF HoldsLeft, Holds
  <2>3. pos + 1 <= Len(text) /\ pos \in Nat /\ Len(text) \in Nat
    BY <1>2
  <2>4. n \in Nat \ {0} /\ n + 1 <= Len(text) /\ n + 1 = pos + 1 - top.start /\ pos + 1 = (top.start + 1) + n
    BY <2>1, <2>2, <2>3
  <2> HIDE DEF n
  <2> QED
    BY <2>1, <2>2, <2>3, <2>4
<1>6. left \in Readings(text)[n] /\ left.tree = top.left /\ left.reads = <<>> /\ Bears(left, top.minBp)
  BY <1>4 DEF HoldsLeft, Holds
<1>7. IsLeftTo(left, next, second)
  BY <1>4, <1>6 DEF IsLeftTo, Settled
<1>8. MayHave(left, next, second, kind, g)
  <2>1. ~(kind = "infix" /\ infix[g].assoc = "nonassoc" /\ left.tree.kind = "infix" /\ left.tree.group = g)
    BY <1>3, <1>6 DEF Cuts
  <2> QED
    BY <1>6, <2>1 DEF MayHave
<1>9. r \in OpenedOn(left, next, second)
  <2>1. <<kind, g>> \in Groups
    BY DEF Groups
  <2>2. <<kind, g>>[1] = kind /\ <<kind, g>>[2] = g
    OBVIOUS
  <2> QED
    BY <1>7, <1>8, <2>1, <2>2, Zenon DEF OpenedOn
<1>10. r \in WithWord(text, left, pos + 1)
  BY <1>2, <1>9 DEF WithWord
<1> HIDE DEF n, r
<1>11. r \in Readings(text)[n + 1]
  BY <1>2, <1>5, <1>6, <1>10, GoesOnByWord
<1>12. /\ r.from = left.from /\ r.tree = Node(kind, g, next, <<top.left>>) /\ r.reads = ReadsOf(kind, g)
       /\ r.rights = {}
       /\ r.lefts = left.lefts \cup {[kind |-> kind, group |-> g, left |-> top.left.op, op |-> next, behind |-> second]}
  BY <1>6 DEF r, Opened, Partial
<1>13. Bears(r, top.minBp)
  BY <1>6, <1>12 DEF Bears
<1> QED
  BY <1>1, <1>5, <1>11, <1>12, <1>13, OpensOK

LEMMA PostfixOpens ==
  ASSUME PrattInv, Postfix
  PROVE  OpensOperator("postfix", postfixGroup)
<1>1. At("loop") /\ postfixGroup # 0 /\ Opens("postfix", postfixGroup, <<top.left>>, postfix[postfixGroup].tail)
  BY DEF Postfix
<1>2. top.minBp \in Int
  BY Here DEF IsLevel
<1>3. /\ postfixGroup \in DOMAIN postfix
      /\ Takes(top.minBp, top.left.op, next, second, "postfix", postfixGroup)
      /\ Fits(postfix[postfixGroup], top.left.op, next, second)
  BY <1>1, <1>2, LoopTakes
<1>4. ReadsOf("postfix", postfixGroup) = postfix[postfixGroup].tail
  BY DEF ReadsOf
<1>5. postfix[postfixGroup].tail \in Seq(Read)
  BY <1>3, TableIs, TailIsRead, Zenon
<1> QED
  BY <1>1, <1>3, <1>4, <1>5 DEF OpensOperator

LEMMA InfixOpens ==
  ASSUME PrattInv, Infix
  PROVE  OpensOperator("infix", infixGroup)
<1>1. /\ At("loop") /\ postfixGroup = 0 /\ GoesOn
      /\ Opens("infix", infixGroup, <<top.left>>, Reads(infix[infixGroup]))
  BY DEF Infix
<1>2. top.minBp \in Int
  BY Here DEF IsLevel
<1>3. /\ infixGroup \in DOMAIN infix
      /\ Takes(top.minBp, top.left.op, next, second, "infix", infixGroup)
      /\ Fits(infix[infixGroup], top.left.op, next, second)
  BY <1>1, <1>2, LoopTakes
<1>4. ReadsOf("infix", infixGroup) = Reads(infix[infixGroup])
  BY DEF ReadsOf, Reads
<1>5. infix[infixGroup].bp \in Int /\ infix[infixGroup].tail \in Seq(Read)
  BY <1>3, TableIs, GroupIs, TailIsRead, Zenon
<1>6. Reads(infix[infixGroup]) \in Seq(Read)
  <2>1. \A bp \in Int : <<Operand(bp)>> \in Seq(Read)
    BY OperandIsRead
  <2>2. infix[infixGroup].bp + 1 \in Int
    BY <1>5
  <2> QED
    BY <1>5, <2>1, <2>2 DEF Reads
<1> QED
  BY <1>1, <1>3, <1>4, <1>6 DEF OpensOperator

LEMMA PostfixStep == PrattInv /\ Postfix => PrattInv'
BY PostfixOpens, OperatorStep

LEMMA InfixStep == PrattInv /\ Infix => PrattInv'
BY InfixOpens, OperatorStep

LEMMA AtomStep == PrattInv /\ Atom => PrattInv'
<1> SUFFICES ASSUME PrattInv, Atom PROVE PrattInv'
  OBVIOUS
<1> DEFINE node == Node("atom", 0, next, <<>>)
           r == Partial(pos + 1, node, <<>>, {}, {})
<1>1. /\ At("operand") /\ prefixGroup = 0 /\ next \in atom
      /\ pos' = pos + 1 /\ text' = text /\ outcome' # "done"
  BY DEF Atom, Consume, At
<1>2. next # End
  BY <1>1, TableAssumption DEF End
<1>3. /\ pos + 1 \in DOMAIN text /\ text[pos + 1] = next /\ pos + 1 \in 0..Len(text)
      /\ Len(text) \in Nat /\ DOMAIN text = 1..Len(text) /\ pos \in Nat /\ IsLevel(top)
  BY <1>2, InText, Here
<1>4. top.start = pos
  BY <1>1, Here DEF TopOK, At
<1>5. \A g \in DOMAIN prefix : next \notin prefix[g].ops
  <2>1. {h \in DOMAIN prefix : next \in prefix[h].ops} = {}
    BY <1>1, PrefixIs DEF IsFirst
  <2> QED
    BY <2>1
<1>6. r \in Atoms(text, pos + 1)
  BY <1>1, <1>3, <1>5 DEF Atoms
<1>7. r \in Readings(text)[1]
  BY <1>3, <1>6, Begins
<1> HIDE DEF node
<1>8. r.from = pos + 1 /\ r.tree = node /\ r.reads = <<>> /\ r.lefts = {} /\ r.rights = {}
  BY DEF Partial
<1>9. PICK v : Turns(v) /\ v.at = "loop" /\ v.left = node
  BY AtomLevel DEF node
<1> HIDE DEF r
<1>10. IsLevel(v) /\ v.start = top.start /\ v.minBp = top.minBp
  BY <1>9 DEF Turns
<1>11. HoldsLeft(text, v, pos + 1, r)
  <2>1. pos + 1 - v.start = 1 /\ v.start < pos + 1 /\ pos + 1 \in Nat /\ pos + 1 <= Len(text)
    BY <1>3, <1>4, <1>10
  <2>3. r \in Readings(text)[pos + 1 - v.start] /\ r.from = v.start + 1
    BY <1>4, <1>7, <1>8, <1>10, <2>1, Zenon
  <2>2. Bears(r, v.minBp)
    BY <1>8 DEF Bears
  <2> QED
    <3>1. Holds(text, v, pos + 1, r)
      BY <1>3, <1>4, <1>10, <2>1, <2>2, <2>3 DEF Holds
    <3>2. r.tree = v.left /\ r.reads = <<>>
      BY <1>8, <1>9
    <3> QED
      BY <3>1, <3>2 DEF HoldsLeft
<1>12. \A op, behind : Settled(r, op, behind) /\ ~Cuts(node, op, behind)
  BY <1>8 DEF Settled, Cuts, Node, node
<1>13. TopOK(text, v, pos')
  BY <1>1, <1>9, <1>11, <1>12 DEF TopOK
<1> QED
  BY <1>1, <1>3, <1>9, <1>13, Becoming

LEMMA StillStep ==
  ASSUME PrattInv, text' = text, pos' = pos, levels' = levels, outcome' = outcome \/ outcome' = "croaked"
  PROVE  PrattInv'
BY DEF PrattInv, top, next, second, Token

LEMMA ReadKeywordStep == PrattInv /\ ReadKeyword => PrattInv'
<1> SUFFICES ASSUME PrattInv, ReadKeyword PROVE PrattInv'
  OBVIOUS
<1>1. CASE Croak
  BY <1>1, StillStep DEF Croak
<1>2. CASE ~Croak
  <2>1. /\ At("tail") /\ top.reads # <<>> /\ Head(top.reads).token # End /\ next = Head(top.reads).token
        /\ pos' = pos + 1 /\ text' = text /\ outcome' # "done"
    BY <1>2 DEF ReadKeyword, Reading, Consume, At
  <2>2. PICK v : Turns(v) /\ v.at = "tail" /\ v.open = top.open /\ v.reads = Tail(top.reads)
    BY <1>2, KeywordLevel
  <2>3. /\ pos + 1 \in DOMAIN text /\ text[pos + 1] = next /\ pos + 1 \in 0..Len(text)
        /\ Len(text) \in Nat /\ DOMAIN text = 1..Len(text) /\ pos \in Nat /\ IsLevel(top)
    BY <2>1, InText, Here
  <2>4. PICK left : HoldsOpen(text, top, pos, left)
    BY <2>1, Here DEF TopOK, At
  <2>5. top.reads \in Seq(Read) /\ top.start \in Nat
    BY <2>3 DEF IsLevel
  <2>8. IsLevel(v) /\ v.start = top.start /\ v.minBp = top.minBp
    BY <2>2 DEF Turns
  <2> DEFINE n == pos - top.start
             r == WithKeyword(left)
  <2>9. /\ n \in Nat \ {0} /\ n + 1 <= Len(text) /\ pos + 1 = left.from + n /\ n + 1 = pos + 1 - top.start
        /\ top.start < pos /\ left.from = top.start + 1
    <3>1. top.start < pos /\ left.from = top.start + 1
      BY <2>4, Zenon DEF HoldsOpen, Holds
    <3>2. pos + 1 <= Len(text)
      BY <2>3
    <3> QED
      BY <2>3, <2>5, <3>1, <3>2
  <2>10. /\ left \in Readings(text)[n] /\ left.tree = top.open /\ left.reads = top.reads /\ Bears(left, top.minBp)
    BY <2>4 DEF HoldsOpen, Holds
  <2>11. r \in WithWord(text, left, pos + 1)
    BY <2>1, <2>3, <2>10 DEF WithWord, Waits
  <2>12. /\ r.from = left.from /\ r.tree = left.tree /\ r.reads = Tail(left.reads)
         /\ r.lefts = left.lefts /\ r.rights = {}
    BY DEF WithKeyword, Partial
  <2> HIDE DEF n, r
  <2>13. r \in Readings(text)[n + 1]
    BY <2>3, <2>9, <2>10, <2>11, GoesOnByWord
  <2>14. Bears(r, top.minBp)
    BY <2>10, <2>12 DEF Bears
  <2>15. HoldsOpen(text, v, pos + 1, r)
    <3>1. pos + 1 \in Nat /\ v.start < pos + 1 /\ pos + 1 <= Len(text)
      BY <2>3, <2>5, <2>8, <2>9
    <3>2. r \in Readings(text)[pos + 1 - v.start] /\ r.from = v.start + 1
      BY <2>8, <2>9, <2>12, <2>13
    <3> QED
      <4>1. Bears(r, v.minBp)
        BY <2>8, <2>14
      <4>2. Holds(text, v, pos + 1, r)
        BY <2>3, <2>5, <2>8, <3>1, <3>2, <4>1 DEF Holds
      <4>3. r.tree = v.open /\ r.reads = v.reads
        BY <2>2, <2>10, <2>12
      <4> QED
        BY <4>2, <4>3 DEF HoldsOpen
  <2>16. \A op, behind : Settled(r, op, behind)
    BY <2>12 DEF Settled
  <2>17. TopOK(text, v, pos')
    BY <2>1, <2>2, <2>15, <2>16 DEF TopOK
  <2> QED
    BY <2>1, <2>2, <2>3, <2>17, Becoming
<1> QED
  BY <1>1, <1>2

LEMMA ReadOperandStep == PrattInv /\ ReadOperand => PrattInv'
<1> SUFFICES ASSUME PrattInv, ReadOperand PROVE PrattInv'
  OBVIOUS
<1>1. /\ At("tail") /\ top.reads # <<>> /\ Head(top.reads).token = End
      /\ pos' = pos /\ text' = text /\ outcome' # "done"
  BY DEF ReadOperand, Reading, At
<1>2. /\ StackOK(text, levels, pos) /\ text \in Texts /\ top = levels[1]
  BY Here DEF PrattInv
<1>3. PICK v : /\ levels' = <<v>> \o levels
               /\ IsLevel(v) /\ v.start = pos /\ v.minBp = Head(top.reads).bp /\ v.at = "operand"
  BY CallLevel
<1>4. StackOK(text, <<v>> \o levels, pos)
  BY <1>1, <1>2, <1>3, Pushes DEF At
<1> QED
  BY <1>1, <1>2, <1>3, <1>4 DEF PrattInv

LEMMA CloseStep == PrattInv /\ Close => PrattInv'
<1> SUFFICES ASSUME PrattInv, Close PROVE PrattInv'
  OBVIOUS
<1>1. CASE Croak
  BY <1>1, StillStep DEF Croak
<1>2. CASE ~Croak
  <2>1. /\ At("tail") /\ top.reads = <<>> /\ ~Chains(top.open)
        /\ pos' = pos /\ text' = text /\ outcome' # "done"
    BY <1>2 DEF Close, At
  <2>2. pos \in 0..Len(text) /\ IsLevel(top) /\ next = Word(text, pos + 1) /\ second = Word(text, pos + 2)
    BY Here
  <2>3. PICK r : HoldsOpen(text, top, pos, r) /\ Settled(r, next, second)
    BY <2>1, Here DEF TopOK, At
  <2>4. PICK v : Turns(v) /\ v.at = "loop" /\ v.left = top.open
    BY <1>2, CloseLevel
  <2>5. IsLevel(v) /\ v.start = top.start /\ v.minBp = top.minBp
    BY <2>4 DEF Turns
  <2>6. HoldsLeft(text, v, pos, r)
    BY <2>1, <2>3, <2>4, <2>5 DEF HoldsLeft, HoldsOpen, Holds
  <2>7. ~Cuts(v.left, next, second)
    BY <2>1, <2>4 DEF Cuts, Chains, Applies, Accepts, Fits
  <2>8. TopOK(text, v, pos')
    BY <2>1, <2>2, <2>3, <2>4, <2>6, <2>7 DEF TopOK
  <2> QED
    BY <2>1, <2>2, <2>4, <2>8, Becoming
<1> QED
  BY <1>1, <1>2

LEMMA BreakStep == PrattInv /\ Break => PrattInv'
<1> SUFFICES ASSUME PrattInv, Break PROVE PrattInv'
  OBVIOUS
<1>1. At("loop") /\ postfixGroup = 0 /\ ~GoesOn /\ text' = text /\ pos' = pos
  BY DEF Break
<1>2. /\ StackOK(text, levels, pos) /\ text \in Texts /\ top = levels[1] /\ IsLevel(top)
      /\ Len(text) \in Nat /\ Len(levels) \in Nat \ {0}
      /\ next = Word(text, pos + 1) /\ second = Word(text, pos + 2)
  BY Here DEF PrattInv
<1>3. Leaves(top.minBp, top.left.op, next, second)
  BY <1>1, <1>2, LoopTakes DEF IsLevel
<1>4. CASE Len(levels) = 1
  <2>1. levels' = levels /\ outcome' = "done"
    BY <1>4 DEF Break
  <2>2. top.minBp = 0 /\ top.at = "loop"
    BY <1>1, <1>2, <1>4 DEF StackOK, At
  <2>3. top' = top /\ next' = next /\ second' = second
    BY <1>1, <2>1 DEF top, next, second, Token
  <2>4. /\ Len(levels') = 1 /\ top'.at = "loop" /\ Leaves(0, top'.left.op, next', second')
    BY <1>3, <1>4, <2>1, <2>2, <2>3
  <2> QED
    BY <1>1, <1>2, <2>1, <2>4 DEF PrattInv, Leaves
<1>5. CASE Len(levels) # 1
  <2>1. PICK v : /\ levels' = <<v>> \o Tail(Tail(levels))
                 /\ IsLevel(v) /\ v.start = levels[2].start /\ v.minBp = levels[2].minBp /\ v.at = "tail"
                 /\ v.open = [levels[2].open EXCEPT !.args = Append(@, top.left)]
                 /\ v.reads = Tail(levels[2].reads)
    BY <1>5, ReturnLevel
  <2>2. StackOK(text, <<v>> \o Tail(Tail(levels)), pos)
    BY <1>1, <1>2, <1>3, <1>5, <2>1, Pops DEF At
  <2>3. outcome' # "done"
    BY <1>5 DEF Break, At
  <2> QED
    BY <1>1, <1>2, <2>1, <2>2, <2>3 DEF PrattInv
<1> QED
  BY <1>4, <1>5

LEMMA FirstLevel == Init => PrattInv
<1> SUFFICES ASSUME Init PROVE PrattInv
  OBVIOUS
<1> DEFINE v == Level(0)
<1>1. text \in Texts /\ pos = 0 /\ levels = <<v>> /\ outcome = "reading"
  BY DEF Init
<1>2. text \in Seq(STRING \ {""})
  BY <1>1, TableAssumption
<1>3. pos \in 0..Len(text)
  <2>1. Len(text) \in Nat
    BY <1>2, LenProperties
  <2> QED
    BY <1>1, <2>1
<1>4. v.start = 0 /\ v.minBp = 0 /\ v.at = "operand" /\ IsLevel(v)
  <2>1. <<>> \in Seq(Read)
    OBVIOUS
  <2> QED
    BY <1>1, <2>1 DEF Level, IsLevel
<1> HIDE DEF v
<1>5. /\ levels \in Seq({v}) /\ levels # <<>> /\ Len(levels) = 1 /\ levels[1] = v
  BY <1>1
<1>6. levels \in Seq({levels[k] : k \in DOMAIN levels})
  BY <1>5, OwnSeq
<1>7. TopOK(text, levels[1], pos)
  BY <1>1, <1>4, <1>5 DEF TopOK
<1>8. 1..Len(levels) = {1} /\ 2..Len(levels) = {}
  BY <1>5
<1>9. StackOK(text, levels, pos)
  BY <1>3, <1>4, <1>5, <1>6, <1>7, <1>8 DEF StackOK
<1> QED
  BY <1>1, <1>9 DEF PrattInv

\* Each call of parseExpression holds a reading of the tokens that it took.
THEOREM PrattInvariance == Spec => []PrattInv
<1>1. PrattInv /\ [Next]_vars => PrattInv'
  <2> SUFFICES ASSUME PrattInv, [Next]_vars PROVE PrattInv'
    OBVIOUS
  <2>1. ASSUME NoAtom PROVE PrattInv'
    BY <2>1, StillStep DEF NoAtom, Croak
  <2>2. ASSUME Ended \/ UNCHANGED vars PROVE PrattInv'
    BY <2>2, StillStep DEF Ended, vars
  <2> QED
    BY <2>1, <2>2, PrefixStep, AtomStep, PostfixStep, InfixStep, BreakStep, ReadKeywordStep, ReadOperandStep,
       CloseStep DEF Next
<1> QED
  BY FirstLevel, <1>1, PTL DEF Spec

LEMMA DoneIsRead == PrattInv => TightestWins
<1> SUFFICES ASSUME PrattInv, outcome = "done"
             PROVE  \E r \in Expressions[pos] : r.tree = top.left /\ IsLeftAlone(r) /\ ~EndsInChain(r)
  BY DEF TightestWins
<1>1. Len(levels) = 1 /\ top.at = "loop" /\ Leaves(0, top.left.op, next, second)
  BY DEF PrattInv
<1>2. /\ TopOK(text, top, pos) /\ top = levels[1] /\ pos \in 0..Len(text) /\ Len(text) \in Nat
      /\ next = Word(text, pos + 1) /\ second = Word(text, pos + 2)
  BY Here
<1>3. top.start = 0 /\ top.minBp = 0
  BY <1>1, <1>2 DEF PrattInv, StackOK
<1>4. PICK r : HoldsLeft(text, top, pos, r) /\ Settled(r, next, second)
  BY <1>1, <1>2 DEF TopOK
<1>5. ~Cuts(top.left, next, second)
  BY <1>1, <1>2 DEF TopOK
<1>6. /\ pos \in 1..Len(text) /\ r \in Readings(text)[pos] /\ r.from = 1
      /\ MayBe(r, 0) /\ r.tree = top.left
  BY <1>2, <1>3, <1>4 DEF HoldsLeft, Holds, MayBe
<1>7. r \in Expressions[pos]
  BY <1>6, Zenon DEF Expressions
<1>8. IsLeftAlone(r)
  BY <1>1, <1>4, <1>6 DEF IsLeftAlone, Settled
<1>9. ~EndsInChain(r)
  BY <1>4, <1>5, <1>6 DEF EndsInChain, IsChain, Settled, Cuts
<1> QED
  BY <1>6, <1>7, <1>8, <1>9

\* Whatever pratt returns, for every table and every text, is a reading of the
\* tokens it took in which each operand belongs to the tighter of the operators
\* it stands between; the operator that comes is none of the expression's, and
\* no chain of a nonassoc group is cut in two.
THEOREM OperandsGoToTheTighter == Spec => []TightestWins
BY PrattInvariance, DoneIsRead, PTL

-------------------------------------------------------------------------------
(* How a reading grows, by a word or by an operand at a time.              *)

IsReading(words, m, r) == m \in 1..Len(words) /\ r \in Readings(words)[m]

AllReadings(words) == UNION {{m} \X Readings(words)[m] : m \in 1..Len(words)}

GrowsOnce(words, m, r, k, s) ==
  \/ k = m + 1 /\ s \in WithWord(words, r, r.from + m)
  \/ /\ m < k
     /\ \E o \in Readings(words)[k - m] :
          /\ o.from = r.from + m
          /\ Waits(r, End)
          /\ MayBe(o, Head(r.reads).bp)
          /\ s = WithOperand(r, o)

ClosedUnder(words, S) ==
  \A m, r, k, s :
    IsReading(words, m, r) /\ IsReading(words, k, s) /\ <<m, r>> \in S /\ GrowsOnce(words, m, r, k, s)
      => <<k, s>> \in S

Grows(words, m, r, q, x) ==
  \A S \in SUBSET AllReadings(words) : <<m, r>> \in S /\ ClosedUnder(words, S) => <<q, x>> \in S

LEMMA AreReadings ==
  ASSUME NEW words, NEW m, NEW r
  PROVE  <<m, r>> \in AllReadings(words) <=> IsReading(words, m, r)
BY DEF AllReadings, IsReading

LEMMA GrowthInduction ==
  ASSUME NEW words, NEW S, NEW m, NEW r, NEW q, NEW x, IsReading(words, m, r), <<m, r>> \in S,
         ClosedUnder(words, S), Grows(words, m, r, q, x)
  PROVE  <<q, x>> \in S
<1> DEFINE T == S \cap AllReadings(words)
<1>1. T \in SUBSET AllReadings(words) /\ <<m, r>> \in T
  BY AreReadings
<1>2. \A k, s : <<k, s>> \in T <=> <<k, s>> \in S /\ IsReading(words, k, s)
  BY AreReadings
<1>3. ClosedUnder(words, T)
  <2> HIDE DEF T
  <2> QED
    BY <1>2, Zenon DEF ClosedUnder
<1>4. <<q, x>> \in T
  <2> HIDE DEF T
  <2> QED
    BY <1>1, <1>3, Zenon DEF Grows
<1> QED
  BY <1>4

LEMMA GrowsSelf ==
  ASSUME NEW words, NEW m, NEW r
  PROVE  Grows(words, m, r, m, r)
BY Zenon DEF Grows

LEMMA GrowsOn ==
  ASSUME NEW words, NEW m, NEW r, NEW q, NEW x, NEW k, NEW s, Grows(words, m, r, q, x),
         IsReading(words, q, x), IsReading(words, k, s), GrowsOnce(words, q, x, k, s)
  PROVE  Grows(words, m, r, k, s)
BY Zenon DEF Grows, ClosedUnder

LEMMA GrowsFirst ==
  ASSUME NEW words, NEW m, NEW r, NEW q, NEW x, IsReading(words, m, r), Grows(words, m, r, q, x),
         <<m, r>> # <<q, x>>
  PROVE  \E k, s : IsReading(words, k, s) /\ GrowsOnce(words, m, r, k, s) /\ Grows(words, k, s, q, x)
<1> DEFINE Behind(l, y) ==
             \E k, s : IsReading(words, k, s) /\ GrowsOnce(words, m, r, k, s) /\ Grows(words, k, s, l, y)
           S == {p \in AllReadings(words) : p = <<m, r>> \/ Behind(p[1], p[2])}
<1>1. \A l, y : <<l, y>> \in S <=> IsReading(words, l, y) /\ (<<l, y>> = <<m, r>> \/ Behind(l, y))
  <2>1. \A l, y : <<l, y>>[1] = l /\ <<l, y>>[2] = y
    OBVIOUS
  <2> HIDE DEF Behind
  <2> QED
    BY <2>1, AreReadings
<1> HIDE DEF S
<1>2. ClosedUnder(words, S)
  <2> SUFFICES ASSUME NEW l, NEW y, NEW k, NEW s, IsReading(words, l, y), IsReading(words, k, s),
                      <<l, y>> \in S, GrowsOnce(words, l, y, k, s)
               PROVE  Behind(k, s)
    BY <1>1 DEF ClosedUnder
  <2>1. CASE <<l, y>> = <<m, r>>
    <3>1. l = m /\ y = r
      BY <2>1
    <3> QED
      BY <3>1, GrowsSelf
  <2>2. CASE Behind(l, y)
    BY <2>2, GrowsOn
  <2> QED
    BY <1>1, <2>1, <2>2
<1>3. <<m, r>> \in S
  BY <1>1
<1>4. <<q, x>> \in S
  BY <1>2, <1>3, GrowthInduction
<1> QED
  BY <1>1, <1>4

LEMMA StepKeeps ==
  ASSUME NEW words, NEW m, NEW r, NEW k, NEW s, m \in Nat, k \in Nat, GrowsOnce(words, m, r, k, s)
  PROVE  s.from = r.from /\ r.lefts \subseteq s.lefts /\ m < k
<1>1. CASE k = m + 1 /\ s \in WithWord(words, r, r.from + m)
  <2>1. s = WithKeyword(r) \/ \E op, behind, kind, g : s = Opened(r, op, behind, kind, g)
    BY <1>1 DEF WithWord, OpenedOn
  <2> QED
    BY <1>1, <2>1 DEF WithKeyword, Opened, Partial
<1>2. CASE m < k /\ \E o : s = WithOperand(r, o)
  BY <1>2 DEF WithOperand, Partial
<1> QED
  BY <1>1, <1>2 DEF GrowsOnce

LEMMA GrowsKeeps ==
  ASSUME NEW words, Len(words) \in Nat, NEW m, NEW r, NEW q, NEW x, IsReading(words, m, r), Grows(words, m, r, q, x)
  PROVE  x.from = r.from /\ r.lefts \subseteq x.lefts /\ (m < q \/ (m = q /\ r = x))
<1> DEFINE Kept(p) == p[2].from = r.from /\ r.lefts \subseteq p[2].lefts /\ (m < p[1] \/ p = <<m, r>>)
           S == {p \in AllReadings(words) : Kept(p)}
<1>1. \A l, y : <<l, y>>[1] = l /\ <<l, y>>[2] = y
  OBVIOUS
<1>2. \A l, y : <<l, y>> \in S <=> /\ IsReading(words, l, y)
                                  /\ y.from = r.from /\ r.lefts \subseteq y.lefts /\ (m < l \/ <<l, y>> = <<m, r>>)
  BY <1>1, AreReadings
<1> HIDE DEF S
<1>3. ClosedUnder(words, S)
  <2> SUFFICES ASSUME NEW l, NEW y, NEW k, NEW s, IsReading(words, l, y), IsReading(words, k, s),
                      <<l, y>> \in S, GrowsOnce(words, l, y, k, s)
               PROVE  <<k, s>> \in S
    BY DEF ClosedUnder
  <2>1. l \in Nat /\ k \in Nat /\ m \in Nat
    BY DEF IsReading
  <2>2. s.from = y.from /\ y.lefts \subseteq s.lefts /\ l < k
    BY <2>1, StepKeeps
  <2>3. m <= l
    <3>1. m < l \/ <<l, y>> = <<m, r>>
      BY <1>2
    <3> QED
      BY <2>1, <3>1
  <2> QED
    BY <1>2, <2>1, <2>2, <2>3
<1>4. <<m, r>> \in S
  BY <1>2
<1>5. <<q, x>> \in S
  BY <1>3, <1>4, GrowthInduction
<1> QED
  BY <1>2, <1>5

\* What every reading begins with.
LEMMA GrowsFromStart ==
  ASSUME NEW words, Len(words) \in Nat, DOMAIN words = 1..Len(words), NEW q, NEW x, IsReading(words, q, x)
  PROVE  /\ x.from \in DOMAIN words
         /\ \E s \in Atoms(words, x.from) \cup Prefixed(words, x.from) : Grows(words, 1, s, q, x)
<1> DEFINE Begun(l, y) ==
             /\ y.from \in DOMAIN words
             /\ \E s \in Atoms(words, y.from) \cup Prefixed(words, y.from) : Grows(words, 1, s, l, y)
           T == {l \in 1..Len(words) : \A y : IsReading(words, l, y) => Begun(l, y)}
<1>1. ASSUME NEW l \in 1..Len(words), \A k \in 1..Len(words) : k < l => k \in T PROVE l \in T
  <2> SUFFICES ASSUME NEW y, IsReading(words, l, y) PROVE Begun(l, y)
    OBVIOUS
  <2>1. l \in 1..Len(words) /\ y \in ReadingsOf(words, Readings(words), l)
    BY ReadingsAre DEF IsReading
  <2>2. ASSUME NEW k, NEW r, IsReading(words, k, r), GrowsOnce(words, k, r, l, y) PROVE Begun(l, y)
    <3>1. k \in 1..Len(words) /\ k \in Nat /\ l \in Nat
      BY <2>2 DEF IsReading
    <3>2. y.from = r.from /\ k < l
      BY <2>2, <3>1, StepKeeps
    <3>3. Begun(k, r)
      BY <1>1, <2>2, <3>1, <3>2
    <3>4. ASSUME NEW s, Grows(words, 1, s, k, r) PROVE Grows(words, 1, s, l, y)
      BY <2>2, <3>4, GrowsOn
    <3> QED
      BY <3>2, <3>3, <3>4
  <2>3. CASE \E m \in 1..(l - 1) : \E r \in Readings(words)[m] :
               y \in WithOperands(r, Readings(words)[l - m], r.from + m)
    <3>0. PICK m \in 1..(l - 1) : \E r \in Readings(words)[m] :
            y \in WithOperands(r, Readings(words)[l - m], r.from + m)
      BY <2>3
    <3>1. PICK r \in Readings(words)[m] : y \in WithOperands(r, Readings(words)[l - m], r.from + m)
      BY <3>0
    <3>2. m \in 1..Len(words) /\ m < l
      BY <2>1
    <3>3. GrowsOnce(words, m, r, l, y)
      BY <3>1, <3>2, Zenon DEF WithOperands, GrowsOnce
    <3> QED
      BY <2>2, <3>2, <3>3 DEF IsReading
  <2>4. CASE l = 1 /\ \E i \in DOMAIN words : y \in Atoms(words, i) \cup Prefixed(words, i)
    <3>1. PICK i \in DOMAIN words : y \in Atoms(words, i) \cup Prefixed(words, i)
      BY <2>4
    <3>2. \A tree, reads, lefts, rights : Partial(i, tree, reads, lefts, rights).from = i
      BY DEF Partial
    <3>3. \E tree, reads : y = Partial(i, tree, reads, {}, {})
      BY <3>1, Zenon DEF Atoms, Prefixed
    <3>4. y.from = i
      BY <3>2, <3>3
    <3> QED
      BY <2>4, <3>1, <3>4, GrowsSelf
  <2>5. CASE l # 1 /\ \E r \in Readings(words)[l - 1] : y \in WithWord(words, r, r.from + l - 1)
    <3>1. PICK r \in Readings(words)[l - 1] : y \in WithWord(words, r, r.from + l - 1)
      BY <2>5
    <3>2. l - 1 \in 1..Len(words) /\ l = (l - 1) + 1
      BY <2>1, <2>5
    <3>3. r.from + l - 1 = r.from + (l - 1)
      <4>1. r.from \in Int
        <5>1. Begun(l - 1, r)
          BY <1>1, <3>2 DEF IsReading
        <5> QED
          BY <5>1
      <4> QED
        BY <4>1
    <3>4. GrowsOnce(words, l - 1, r, l, y)
      BY <3>1, <3>2, <3>3, Zenon DEF GrowsOnce
    <3> QED
      BY <2>2, <3>2, <3>4 DEF IsReading
  <2>6. \/ l = 1 /\ y \in UNION {Atoms(words, i) \cup Prefixed(words, i) : i \in DOMAIN words}
        \/ l # 1 /\ y \in UNION {WithWord(words, r, r.from + l - 1) : r \in Readings(words)[l - 1]}
        \/ y \in UNION {UNION {WithOperands(r, Readings(words)[l - m], r.from + m) : r \in Readings(words)[m]} :
                          m \in 1..(l - 1)}
    BY <2>1, Zenon DEF ReadingsOf
  <2> HIDE DEF Begun
  <2> QED
    BY <2>3, <2>4, <2>5, <2>6
<1>2. 1..Len(words) \subseteq T
  <2> DEFINE N == Len(words)
             D == 1..N
  <2>1. IsRange(D, N)
    BY DEF IsRange
  <2>2. \A l \in D : (\A k \in D : k < l => k \in T) => l \in T
    BY <1>1
  <2> HIDE DEF T, D, N
  <2>3. D \subseteq T
    BY <2>1, <2>2, UpInduction
  <2> QED
    BY <2>3 DEF D, N
<1> QED
  BY <1>2 DEF IsReading

\* A whole reading goes on by an operator.
LEMMA GoesOnByOperator ==
  ASSUME NEW words, NEW m, NEW r, NEW k, NEW s, IsReading(words, m, r), GrowsOnce(words, m, r, k, s), r.reads = <<>>
  PROVE  /\ k = m + 1 /\ r.from + m \in DOMAIN words
         /\ IsLeftTo(r, Word(words, r.from + m), Word(words, r.from + m + 1))
         /\ \E kind, g : /\ <<kind, g>> \in Groups
                         /\ MayHave(r, Word(words, r.from + m), Word(words, r.from + m + 1), kind, g)
                         /\ s = Opened(r, Word(words, r.from + m), Word(words, r.from + m + 1), kind, g)
<1>1. k = m + 1 /\ s \in WithWord(words, r, r.from + m)
  BY DEF GrowsOnce, Waits
<1>2. /\ r.from + m \in DOMAIN words
      /\ s \in OpenedOn(r, words[r.from + m], Word(words, r.from + m + 1))
  BY <1>1 DEF WithWord, Waits
<1>3. words[r.from + m] = Word(words, r.from + m)
  BY <1>2 DEF Word
<1> DEFINE op == Word(words, r.from + m)
           behind == Word(words, r.from + m + 1)
<1>4. s \in OpenedOn(r, op, behind)
  BY <1>2, <1>3
<1> HIDE DEF op, behind
<1>5. PICK group \in Groups : /\ IsLeftTo(r, op, behind)
                              /\ MayHave(r, op, behind, group[1], group[2])
                              /\ s = Opened(r, op, behind, group[1], group[2])
  BY <1>4, Zenon DEF OpenedOn
<1>6. group = <<group[1], group[2]>>
  BY DEF Groups
<1>7. <<group[1], group[2]>> \in Groups
  BY <1>6, Zenon
<1> QED
  BY <1>1, <1>2, <1>5, <1>7 DEF op, behind

\* One that waits for a word goes on by that word, one that waits for an
\* operand by an operand.
LEMMA GoesOnByRead ==
  ASSUME NEW words, NEW m, NEW r, NEW k, NEW s, IsReading(words, m, r), GrowsOnce(words, m, r, k, s),
         r.reads # <<>>, \A i \in DOMAIN words : words[i] # End
  PROVE  IF Head(r.reads).token # End
         THEN /\ k = m + 1 /\ r.from + m \in DOMAIN words /\ words[r.from + m] = Head(r.reads).token
              /\ s = WithKeyword(r)
         ELSE /\ m < k
              /\ \E o \in Readings(words)[k - m] :
                   o.from = r.from + m /\ MayBe(o, Head(r.reads).bp) /\ s = WithOperand(r, o)
<1>1. CASE k = m + 1 /\ s \in WithWord(words, r, r.from + m)
  <2>1. /\ r.from + m \in DOMAIN words
        /\ Waits(r, words[r.from + m])
        /\ s = WithKeyword(r)
    BY <1>1 DEF WithWord, OpenedOn, IsLeftTo
  <2>2. words[r.from + m] = Head(r.reads).token /\ words[r.from + m] # End
    BY <2>1 DEF Waits
  <2> QED
    BY <1>1, <2>1, <2>2
<1>2. CASE /\ m < k
           /\ \E o \in Readings(words)[k - m] :
                /\ o.from = r.from + m /\ Waits(r, End) /\ MayBe(o, Head(r.reads).bp) /\ s = WithOperand(r, o)
  BY <1>2, Zenon DEF Waits
<1> QED
  BY <1>1, <1>2 DEF GrowsOnce

LEMMA OneTakes ==
  ASSUME NEW bp, NEW left, NEW op, NEW behind, NEW kind, NEW g,
         bp \in Int, kind \in {"postfix", "infix"}, Takes(bp, left, op, behind, kind, g)
  PROVE  /\ ~Leaves(bp, left, op, behind)
         /\ \A other, h :
              other \in {"postfix", "infix"} /\ Takes(bp, left, op, behind, other, h) => other = kind /\ h = g
<1> DEFINE ps == Postfixes(bp, left, op, behind)
           is == Infixes(left, op, behind)
<1>1. ps \subseteq Nat /\ is \subseteq Nat
  BY TableIs DEF Postfixes, Infixes
<1>2. \A k, h : Takes(bp, left, op, behind, k, h)
                  <=> IF k = "postfix" THEN IsFirst(h, ps) ELSE ps = {} /\ IsFirst(h, is) /\ infix[h].bp >= bp
  BY DEF Takes
<1>3. Leaves(bp, left, op, behind) <=> ps = {} /\ \A h \in is : IsFirst(h, is) => infix[h].bp < bp
  BY DEF Leaves
<1> HIDE DEF ps, is
<1>4. \A S \in {ps, is} : \A a, b : IsFirst(a, S) /\ IsFirst(b, S) => a = b
  BY <1>1 DEF IsFirst
<1>5. \A S \in {ps, is} : \A a : IsFirst(a, S) => a \in S
  BY DEF IsFirst
<1>6. \A h \in is : infix[h].bp \in Int
  BY TableIs, GroupIs, Zenon DEF is, Infixes
<1>7. ~Leaves(bp, left, op, behind)
  <2>1. CASE kind = "postfix"
    BY <1>2, <1>3, <1>5, <2>1
  <2>2. CASE kind = "infix"
    <3>1. g \in is /\ IsFirst(g, is) /\ infix[g].bp >= bp /\ infix[g].bp \in Int
      BY <1>2, <1>5, <1>6, <2>2
    <3>2. ~(infix[g].bp < bp)
      BY <3>1
    <3> QED
      BY <1>3, <3>1, <3>2
  <2> QED
    BY <2>1, <2>2
<1>8. ASSUME NEW other, NEW h, other \in {"postfix", "infix"}, Takes(bp, left, op, behind, other, h)
      PROVE  other = kind /\ h = g
  <2>1. CASE kind = "postfix"
    BY <1>2, <1>4, <1>5, <1>8, <2>1
  <2>2. CASE kind = "infix"
    BY <1>2, <1>4, <1>5, <1>8, <2>2
  <2> QED
    BY <2>1, <2>2
<1> QED
  BY <1>7, <1>8

\* The operator of an infix tree is a word of the text, and is on its left edge.
IsRooted(words, r) ==
  /\ r.tree = Node(r.tree.kind, r.tree.group, r.tree.op, r.tree.args)
  /\ r.tree.kind = "infix" =>
       /\ r.tree.op \in {words[i] : i \in DOMAIN words}
       /\ \E o \in r.lefts : o.kind = "infix" /\ o.group = r.tree.group

LEMMA RootsStay ==
  ASSUME NEW words, NEW m, NEW r, NEW k, NEW s, GrowsOnce(words, m, r, k, s), IsRooted(words, r)
  PROVE  IsRooted(words, s)
<1>1. ASSUME s = WithKeyword(r) PROVE IsRooted(words, s)
  <2>1. s.tree = r.tree /\ s.lefts = r.lefts
    BY <1>1 DEF WithKeyword, Partial
  <2> QED
    BY <2>1 DEF IsRooted
<1>2. ASSUME NEW o, s = WithOperand(r, o) PROVE IsRooted(words, s)
  <2> DEFINE args == Append(r.tree.args, o.tree)
  <2>1. s.tree = [r.tree EXCEPT !.args = args] /\ s.lefts = r.lefts
    BY <1>2 DEF WithOperand, Partial
  <2> HIDE DEF args
  <2>2. r.tree = [kind |-> r.tree.kind, group |-> r.tree.group, op |-> r.tree.op, args |-> r.tree.args]
    BY DEF IsRooted, Node
  <2>3. s.tree = [kind |-> r.tree.kind, group |-> r.tree.group, op |-> r.tree.op, args |-> args]
    BY <2>1, <2>2
  <2>4. s.tree.kind = r.tree.kind /\ s.tree.group = r.tree.group /\ s.tree.op = r.tree.op /\ s.tree.args = args
    BY <2>3
  <2>5. s.tree = Node(s.tree.kind, s.tree.group, s.tree.op, s.tree.args)
    BY <2>3, <2>4 DEF Node
  <2> QED
    BY <2>1, <2>4, <2>5 DEF IsRooted
<1>3. ASSUME r.from + m \in DOMAIN words,
             NEW op, op \in {words[i] : i \in DOMAIN words}, NEW behind, NEW kind, NEW g,
             s = Opened(r, op, behind, kind, g)
      PROVE  IsRooted(words, s)
  <2> DEFINE args == <<r.tree>>
             left == [kind |-> kind, group |-> g, left |-> r.tree.op, op |-> op, behind |-> behind]
  <2>1. /\ s.tree = [kind |-> kind, group |-> g, op |-> op, args |-> args]
        /\ s.lefts = r.lefts \cup {left}
    BY <1>3 DEF Opened, Partial, Node
  <2>2. left.kind = kind /\ left.group = g
    OBVIOUS
  <2> HIDE DEF args, left
  <2>3. s.tree.kind = kind /\ s.tree.group = g /\ s.tree.op = op /\ s.tree.args = args
    BY <2>1
  <2>4. s.tree = Node(s.tree.kind, s.tree.group, s.tree.op, s.tree.args)
    BY <2>1, <2>3 DEF Node
  <2> QED
    BY <1>3, <2>1, <2>2, <2>3, <2>4 DEF IsRooted
<1>4. CASE s \in WithWord(words, r, r.from + m)
  <2>1. r.from + m \in DOMAIN words
    BY <1>4 DEF WithWord
  <2>2. words[r.from + m] \in {words[i] : i \in DOMAIN words}
    BY <2>1
  <2>3. s = WithKeyword(r)
          \/ \E kind, g : s = Opened(r, words[r.from + m], Word(words, r.from + m + 1), kind, g)
    BY <1>4, <2>1 DEF WithWord, OpenedOn
  <2> QED
    BY <1>1, <1>3, <2>1, <2>2, <2>3
<1> QED
  BY <1>2, <1>4 DEF GrowsOnce

LEMMA AllAreRooted ==
  ASSUME NEW words, Len(words) \in Nat, DOMAIN words = 1..Len(words), NEW q, NEW x, IsReading(words, q, x)
  PROVE  IsRooted(words, x)
<1>1. PICK s \in Atoms(words, x.from) \cup Prefixed(words, x.from) : Grows(words, 1, s, q, x)
  BY GrowsFromStart, Zenon
<1>2. x.from \in DOMAIN words
  BY GrowsFromStart, Zenon
<1>3. IsReading(words, 1, s)
  BY <1>1, <1>2, Begins DEF IsReading
<1>4. IsRooted(words, s)
  <2>1. \E kind, g, op : kind # "infix" /\ s.tree = Node(kind, g, op, <<>>)
    <3>1. \A tree, reads : Partial(x.from, tree, reads, {}, {}).tree = tree
      BY DEF Partial
    <3>2. (\E op, reads : s = Partial(x.from, Node("atom", 0, op, <<>>), reads, {}, {}))
            \/ \E g, op, reads : s = Partial(x.from, Node("prefix", g, op, <<>>), reads, {}, {})
      BY <1>1, Zenon DEF Atoms, Prefixed
    <3> QED
      BY <3>1, <3>2
  <2> QED
    BY <2>1 DEF IsRooted, Node
<1> DEFINE S == {p \in AllReadings(words) : IsRooted(words, p[2])}
<1>5. \A k, r : <<k, r>> \in S <=> IsReading(words, k, r) /\ IsRooted(words, r)
  <2>1. \A k, r : <<k, r>>[2] = r
    OBVIOUS
  <2> QED
    BY <2>1, AreReadings
<1> HIDE DEF S
<1>6. ClosedUnder(words, S)
  BY <1>5, RootsStay DEF ClosedUnder
<1>7. <<q, x>> \in S
  BY <1>1, <1>3, <1>4, <1>5, <1>6, GrowthInduction
<1> QED
  BY <1>5, <1>7

-------------------------------------------------------------------------------
(* The parser nears every expression that is still ahead: for each there   *)
(* is a reading for each level, its aim, which the level's own reading is  *)
(* on the way to, and which its caller is to take as the operand.          *)

\* An expression that the first n words are.
Whole(words, n, e) == IsReading(words, n, e) /\ e.from = 1 /\ MayBe(e, 0)

\* The operands that end where the reading does, itself included.
Edges(r, bp) == r.rights \cup {[bp |-> bp, tree |-> r.tree]}

\* No operand at the end of the aim takes what comes; where the whole
\* expression ends, they are of those at its end.
Ends(words, bp, a, n, e) ==
  IF a.to < n
  THEN \A edge \in Edges(a.reading, bp) :
         Leaves(edge.bp, edge.tree.op, Word(words, a.to + 1), Word(words, a.to + 2))
  ELSE Edges(a.reading, bp) \subseteq Edges(e, 0)

Aim(words, v, a, n, e) ==
  /\ Holds(words, v, a.to, a.reading)
  /\ a.reading.reads = <<>>
  /\ a.to <= n
  /\ Ends(words, v.minBp, a, n, e)

TopNears(words, v, p, a) ==
  \/ v.at = "operand"
  \/ /\ v.at = "loop"
     /\ \E r : HoldsLeft(words, v, p, r) /\ Grows(words, p - v.start, r, a.to - v.start, a.reading)
  \/ /\ v.at = "tail"
     /\ \E r : HoldsOpen(words, v, p, r) /\ Grows(words, p - v.start, r, a.to - v.start, a.reading)

\* By the aim b of the level that it called.
CallerNears(words, v, called, b, a) ==
  \E r : /\ HoldsOpen(words, v, called.start, r)
         /\ IsReading(words, b.to - v.start, WithOperand(r, b.reading))
         /\ Grows(words, b.to - v.start, WithOperand(r, b.reading), a.to - v.start, a.reading)

Nears(words, stack, p, n, e, f) ==
  /\ \A k \in 1..Len(stack) : Aim(words, stack[k], f[k], n, e)
  /\ f[Len(stack)].to = n /\ f[Len(stack)].reading = e
  /\ TopNears(words, stack[1], p, f[1])
  /\ \A k \in 2..Len(stack) : CallerNears(words, stack[k], stack[k - 1], f[k - 1], f[k])

NearsAll ==
  \A n, e : Whole(text, n, e) /\ pos <= n => \E f : Nears(text, levels, pos, n, e, f)

LEMMA NearsByReplacing ==
  ASSUME NEW words, NEW stack, NEW p, StackOK(words, stack, p),
         NEW n, NEW e, NEW f, Nears(words, stack, p, n, e, f),
         NEW v, v.start = stack[1].start, v.minBp = stack[1].minBp,
         NEW q, TopNears(words, v, q, f[1])
  PROVE  Nears(words, <<v>> \o Tail(stack), q, n, e, f)
<1> DEFINE new == <<v>> \o Tail(stack)
<1>1. Len(stack) \in Nat \ {0}
  BY StackIs
<1>2. PICK S : stack \in Seq(S) /\ stack # <<>>
  BY DEF StackOK
<1>3. new = <<v>> \o Tail(stack)
  OBVIOUS
<1> HIDE DEF new
<1>4. Len(new) = Len(stack) /\ new[1] = v /\ \A k \in 2..Len(stack) : new[k] = stack[k]
  BY <1>2, <1>3, ReplaceTop
<1>5. \A k \in 1..Len(new) : new[k].start = stack[k].start /\ new[k].minBp = stack[k].minBp
  <2>1. \A k \in 1..Len(new) : k = 1 \/ k \in 2..Len(stack)
    BY <1>1, <1>4
  <2> QED
    BY <1>4, <2>1
<1>6. ASSUME NEW k \in 1..Len(new) PROVE Aim(words, new[k], f[k], n, e)
  <2>1. Aim(words, stack[k], f[k], n, e)
    BY <1>4 DEF Nears
  <2> QED
    BY <1>5, <2>1 DEF Aim, Holds
<1>7. ASSUME NEW k \in 2..Len(new) PROVE CallerNears(words, new[k], new[k - 1], f[k - 1], f[k])
  <2>1. CallerNears(words, stack[k], stack[k - 1], f[k - 1], f[k]) /\ new[k] = stack[k]
    BY <1>4 DEF Nears
  <2>2. new[k - 1].start = stack[k - 1].start
    <3>1. k - 1 \in 1..Len(new)
      BY <1>1, <1>4
    <3> QED
      BY <1>5, <3>1
  <2> QED
    BY <2>1, <2>2 DEF CallerNears
<1>8. TopNears(words, new[1], q, f[1])
  BY <1>4
<1>9. f[Len(new)].to = n /\ f[Len(new)].reading = e
  BY <1>4 DEF Nears
<1> QED
  BY <1>6, <1>7, <1>8, <1>9 DEF Nears, new

LEMMA NearsByCalling ==
  ASSUME NEW words, NEW stack, NEW p, StackOK(words, stack, p),
         NEW n, NEW e, NEW f, Nears(words, stack, p, n, e, f),
         NEW v, v.at = "operand", NEW b, Aim(words, v, b, n, e), CallerNears(words, stack[1], v, b, f[1])
  PROVE  \E g : Nears(words, <<v>> \o stack, p, n, e, g)
<1> DEFINE new == <<v>> \o stack
           g == [k \in 1..(Len(stack) + 1) |-> IF k = 1 THEN b ELSE f[k - 1]]
<1>1. Len(stack) \in Nat \ {0}
  BY StackIs
<1>2. PICK S : stack \in Seq(S) /\ stack # <<>>
  BY DEF StackOK
<1>3. new = <<v>> \o stack
  OBVIOUS
<1> HIDE DEF new
<1>4. Len(new) = Len(stack) + 1 /\ new[1] = v /\ \A k \in 2..(Len(stack) + 1) : new[k] = stack[k - 1]
  BY <1>2, <1>3, PushTop
<1>5. g[1] = b /\ \A k \in 2..(Len(stack) + 1) : g[k] = f[k - 1]
  BY <1>1
<1> HIDE DEF g
<1>6. ASSUME NEW k \in 1..Len(new) PROVE Aim(words, new[k], g[k], n, e)
  <2>1. k = 1 \/ (k \in 2..(Len(stack) + 1) /\ k - 1 \in 1..Len(stack))
    BY <1>1, <1>4
  <2>2. CASE k = 1
    BY <1>4, <1>5, <2>2
  <2>3. CASE k \in 2..(Len(stack) + 1) /\ k - 1 \in 1..Len(stack)
    <3>1. Aim(words, stack[k - 1], f[k - 1], n, e)
      BY <2>3 DEF Nears
    <3> QED
      BY <1>4, <1>5, <2>3, <3>1
  <2> QED
    BY <2>1, <2>2, <2>3
<1>7. ASSUME NEW k \in 2..Len(new) PROVE CallerNears(words, new[k], new[k - 1], g[k - 1], g[k])
  <2>1. k = 2 \/ (k - 1 \in 2..(Len(stack) + 1) /\ k - 1 \in 2..Len(stack))
    BY <1>1, <1>4
  <2>2. CASE k = 2
    <3>1. k - 1 = 1 /\ 2 \in 2..(Len(stack) + 1)
      BY <1>1, <2>2
    <3>2. new[2] = stack[1] /\ g[2] = f[1]
      <4>1. new[2] = stack[2 - 1] /\ g[2] = f[2 - 1]
        BY <1>4, <1>5, <3>1
      <4> QED
        BY <4>1
    <3> QED
      BY <1>4, <1>5, <2>2, <3>1, <3>2
  <2>3. CASE k - 1 \in 2..(Len(stack) + 1) /\ k - 1 \in 2..Len(stack)
    <3>1. CallerNears(words, stack[k - 1], stack[(k - 1) - 1], f[(k - 1) - 1], f[k - 1])
      BY <2>3 DEF Nears
    <3>2. k \in 2..(Len(stack) + 1)
      BY <1>4
    <3> QED
      BY <1>4, <1>5, <2>3, <3>1, <3>2
  <2> QED
    BY <2>1, <2>2, <2>3
<1>8. TopNears(words, new[1], p, g[1])
  BY <1>4 DEF TopNears
<1>9. g[Len(new)].to = n /\ g[Len(new)].reading = e
  <2>1. Len(new) \in 2..(Len(stack) + 1) /\ Len(new) - 1 = Len(stack)
    BY <1>1, <1>4
  <2> QED
    BY <1>5, <2>1 DEF Nears
<1> QED
  BY <1>6, <1>7, <1>8, <1>9 DEF Nears, new

LEMMA NearsByReturning ==
  ASSUME NEW words, NEW stack, NEW p, StackOK(words, stack, p), Len(stack) # 1,
         NEW n, NEW e, NEW f, Nears(words, stack, p, n, e, f),
         NEW v, v.start = stack[2].start, v.minBp = stack[2].minBp, TopNears(words, v, p, f[2])
  PROVE  \E g : Nears(words, <<v>> \o Tail(Tail(stack)), p, n, e, g)
<1> DEFINE new == <<v>> \o Tail(Tail(stack))
           g == [k \in 1..(Len(stack) - 1) |-> f[k + 1]]
<1>1. Len(stack) \in Nat /\ Len(stack) >= 2
  <2>1. Len(stack) \in Nat \ {0}
    BY StackIs
  <2>2. \A l \in Nat \ {0} : l # 1 => l \in Nat /\ l >= 2
    OBVIOUS
  <2> QED
    BY <2>1, <2>2
<1>2. PICK S : stack \in Seq(S) /\ stack # <<>>
  BY DEF StackOK
<1>3. Tail(stack) \in Seq(S) /\ Len(Tail(stack)) = Len(stack) - 1
      /\ \A k \in 1..(Len(stack) - 1) : Tail(stack)[k] = stack[k + 1]
  BY <1>2, HeadTailProperties
<1> DEFINE rest == Tail(stack)
<1>4. rest # <<>> /\ rest \in Seq(S) /\ new = <<v>> \o Tail(rest)
  <2>1. Len(<<>>) = 0
    BY EmptySeq
  <2>2. Len(rest) # 0 /\ rest \in Seq(S)
    BY <1>1, <1>3
  <2>3. new = <<v>> \o Tail(rest)
    OBVIOUS
  <2> HIDE DEF rest, new
  <2> QED
    BY <2>1, <2>2, <2>3
<1> HIDE DEF new, rest
<1>5. Len(new) = Len(rest) /\ new[1] = v /\ \A k \in 2..Len(rest) : new[k] = rest[k]
  BY <1>4, ReplaceTop
<1>6. Len(new) = Len(stack) - 1 /\ \A k \in 2..(Len(stack) - 1) : new[k] = stack[k + 1]
  BY <1>1, <1>3, <1>5 DEF rest
<1>7. \A k \in 1..(Len(stack) - 1) : g[k] = f[k + 1]
  OBVIOUS
<1> HIDE DEF g
<1>8. \A k \in 1..Len(new) : new[k].start = stack[k + 1].start /\ new[k].minBp = stack[k + 1].minBp
  <2>1. \A k \in 1..Len(new) : k = 1 \/ k \in 2..(Len(stack) - 1)
    BY <1>1, <1>6
  <2> QED
    BY <1>5, <1>6, <2>1
<1>9. ASSUME NEW k \in 1..Len(new) PROVE Aim(words, new[k], g[k], n, e)
  <2>1. k + 1 \in 1..Len(stack) /\ g[k] = f[k + 1]
    BY <1>1, <1>6, <1>7
  <2>2. Aim(words, stack[k + 1], f[k + 1], n, e)
    BY <2>1 DEF Nears
  <2> QED
    BY <1>8, <2>1, <2>2 DEF Aim, Holds
<1>10. ASSUME NEW k \in 2..Len(new) PROVE CallerNears(words, new[k], new[k - 1], g[k - 1], g[k])
  <2>1. /\ k + 1 \in 2..Len(stack) /\ (k + 1) - 1 = k /\ (k - 1) + 1 = k
        /\ k - 1 \in 1..Len(new) /\ k - 1 \in 1..(Len(stack) - 1) /\ k \in 1..(Len(stack) - 1)
    BY <1>1, <1>6
  <2>2. CallerNears(words, stack[k + 1], stack[k], f[k], f[k + 1])
    BY <2>1 DEF Nears
  <2>3. g[k - 1] = f[k] /\ g[k] = f[k + 1] /\ new[k] = stack[k + 1]
    BY <1>6, <1>7, <2>1
  <2>4. new[k - 1].start = stack[k].start
    BY <1>8, <2>1
  <2> QED
    BY <2>2, <2>3, <2>4 DEF CallerNears
<1>11. TopNears(words, new[1], p, g[1])
  <2>1. g[1] = f[2]
    <3>1. 1 \in 1..(Len(stack) - 1) /\ 1 + 1 = 2
      BY <1>1
    <3> QED
      BY <1>7, <3>1
  <2> QED
    BY <1>5, <2>1
<1>12. g[Len(new)].to = n /\ g[Len(new)].reading = e
  <2>1. Len(new) \in 1..(Len(stack) - 1) /\ Len(new) + 1 = Len(stack)
    BY <1>1, <1>6
  <2> QED
    BY <1>7, <2>1 DEF Nears
<1> QED
  BY <1>9, <1>10, <1>11, <1>12 DEF Nears, new

LEMMA OfHolds ==
  ASSUME NEW words, Len(words) \in Nat, NEW v, IsLevel(v), NEW to, NEW r, Holds(words, v, to, r)
  PROVE  /\ IsReading(words, to - v.start, r) /\ to \in Nat /\ v.start \in Nat /\ v.start < to /\ to <= Len(words)
         /\ r.from = v.start + 1
<1>1. v.start \in Nat /\ to \in Nat /\ v.start < to /\ to <= Len(words)
  BY Zenon DEF IsLevel, Holds
<1>2. to - v.start \in 1..Len(words)
  BY <1>1
<1> QED
  BY <1>1, <1>2, Zenon DEF Holds, IsReading

\* A reading on the way to what the level may hold is one that it may hold.
LEMMA OnTheWay ==
  ASSUME NEW words, Len(words) \in Nat, NEW v, IsLevel(v), NEW to, NEW x, Holds(words, v, to, x),
         NEW k, NEW s, IsReading(words, k, s), Grows(words, k, s, to - v.start, x)
  PROVE  Holds(words, v, v.start + k, s) /\ v.start + k <= to
<1>1. x.from = s.from /\ s.lefts \subseteq x.lefts /\ (k < to - v.start \/ k = to - v.start)
  BY GrowsKeeps
<1>2. k \in Nat \ {0} /\ s \in Readings(words)[k]
  BY DEF IsReading
<1>3. v.start \in Nat /\ to \in Nat /\ to <= Len(words) /\ x.from = v.start + 1
  BY OfHolds
<1>4. (v.start + k) - v.start = k /\ v.start + k \in Nat /\ v.start < v.start + k /\ v.start + k <= to
  BY <1>1, <1>2, <1>3
<1>5. v.start + k <= Len(words)
  BY <1>3, <1>4
<1>6. Bears(s, v.minBp)
  BY <1>1 DEF Holds, Bears
<1> QED
  BY <1>1, <1>2, <1>3, <1>4, <1>5, <1>6 DEF Holds

LEMMA NoWordIsEnd ==
  ASSUME PrattInv
  PROVE  \A i \in DOMAIN text : text[i] # End
<1>1. text \in Seq(STRING \ {""})
  BY TableAssumption, Zenon DEF PrattInv
<1>2. \A i \in DOMAIN text : text[i] \in STRING \ {""}
  BY <1>1, Here, ElementOfSeq
<1> QED
  BY <1>2 DEF End

\* A whole reading is the aim, or goes on by an operator that the level takes.
LEMMA EndsOrGoesOn ==
  ASSUME PrattInv, NEW n, NEW e, NEW a, Aim(text, top, a, n, e),
         NEW r, Holds(text, top, pos, r), r.reads = <<>>,
         Grows(text, pos - top.start, r, a.to - top.start, a.reading)
  PROVE  \/ pos = a.to /\ r = a.reading
         \/ \E kind, g :
              LET s == Opened(r, next, second, kind, g)
              IN  /\ kind \in {"postfix", "infix"}
                  /\ pos + 1 <= a.to
                  /\ Holds(text, top, pos + 1, s)
                  /\ Grows(text, (pos + 1) - top.start, s, a.to - top.start, a.reading)
                  /\ MayHave(r, next, second, kind, g)
                  /\ Takes(top.minBp, r.tree.op, next, second, kind, g)
<1>1. /\ Len(text) \in Nat /\ IsLevel(top) /\ next = Word(text, pos + 1) /\ second = Word(text, pos + 2)
  BY Here
<1> DEFINE m == pos - top.start
           l == a.to - top.start
<1>2. /\ IsReading(text, m, r) /\ pos \in Nat /\ top.start \in Nat /\ top.start < pos /\ r.from = top.start + 1
      /\ IsReading(text, l, a.reading) /\ a.to \in Nat
  BY <1>1, OfHolds DEF Aim
<1>3. CASE <<m, r>> = <<l, a.reading>>
  <2>1. m = l /\ r = a.reading
    BY <1>3
  <2> QED
    BY <1>2, <2>1
<1>4. CASE <<m, r>> # <<l, a.reading>>
  <2>1. PICK k, s : IsReading(text, k, s) /\ GrowsOnce(text, m, r, k, s) /\ Grows(text, k, s, l, a.reading)
    <3> HIDE DEF m, l
    <3> QED
      BY <1>2, <1>4, GrowsFirst DEF m, l
  <2>2. r.from + m = pos + 1 /\ r.from + m + 1 = pos + 2
    BY <1>2
  <2>3. /\ k = m + 1
        /\ \E kind, g : /\ <<kind, g>> \in Groups
                        /\ MayHave(r, next, second, kind, g)
                        /\ s = Opened(r, next, second, kind, g)
    <3> HIDE DEF m
    <3>1. IsReading(text, m, r)
      BY <1>2
    <3>2. GrowsOnce(text, m, r, k, s)
      BY <2>1
    <3>3. /\ k = m + 1
          /\ \E kind, g :
               /\ <<kind, g>> \in Groups
               /\ MayHave(r, Word(text, r.from + m), Word(text, r.from + m + 1), kind, g)
               /\ s = Opened(r, Word(text, r.from + m), Word(text, r.from + m + 1), kind, g)
      BY <3>1, <3>2, GoesOnByOperator
    <3> QED
      BY <1>1, <2>2, <3>3
  <2>4. PICK kind, g : /\ <<kind, g>> \in Groups
                       /\ MayHave(r, next, second, kind, g)
                       /\ s = Opened(r, next, second, kind, g)
    BY <2>3
  <2>5. kind \in {"postfix", "infix"}
    BY <2>4 DEF Groups
  <2>6. k = (pos + 1) - top.start /\ top.start + k = pos + 1
    <3>1. pos \in Nat /\ top.start \in Nat /\ k = (pos - top.start) + 1
      BY <1>2, <2>3
    <3> QED
      BY <3>1
  <2>7. Holds(text, top, pos + 1, s) /\ pos + 1 <= a.to
    BY <1>1, <2>1, <2>6, OnTheWay DEF Aim
  <2>8. [kind |-> kind, group |-> g, left |-> r.tree.op, op |-> next, behind |-> second] \in a.reading.lefts
    <3>1. s.lefts \subseteq a.reading.lefts
      BY <1>1, <2>1, GrowsKeeps
    <3> QED
      BY <2>4, <3>1 DEF Opened, Partial
  <2>9. Takes(top.minBp, r.tree.op, next, second, kind, g)
    BY <2>8 DEF Aim, Holds, Bears
  <2> QED
    BY <2>1, <2>4, <2>5, <2>6, <2>7, <2>9
<1> QED
  BY <1>3, <1>4

\* One that waits goes on by what it waits for.
LEMMA ReadsOnward ==
  ASSUME PrattInv, NEW n, NEW e, NEW a, Aim(text, top, a, n, e),
         NEW r, Holds(text, top, pos, r), r.reads # <<>>,
         Grows(text, pos - top.start, r, a.to - top.start, a.reading)
  PROVE  \E k, s :
           /\ IsReading(text, k, s)
           /\ Grows(text, k, s, a.to - top.start, a.reading)
           /\ Holds(text, top, top.start + k, s) /\ top.start + k <= a.to
           /\ IF Head(r.reads).token # End
              THEN top.start + k = pos + 1 /\ next = Head(r.reads).token /\ s = WithKeyword(r)
              ELSE \E o : /\ IsReading(text, top.start + k - pos, o) /\ pos < top.start + k
                          /\ o.from = pos + 1 /\ MayBe(o, Head(r.reads).bp) /\ s = WithOperand(r, o)
<1>1. /\ Len(text) \in Nat /\ IsLevel(top) /\ next = Word(text, pos + 1) /\ DOMAIN text = 1..Len(text)
  BY Here
<1> DEFINE m == pos - top.start
           l == a.to - top.start
<1>2. /\ IsReading(text, m, r) /\ pos \in Nat /\ top.start \in Nat /\ top.start < pos /\ r.from = top.start + 1
      /\ IsReading(text, l, a.reading) /\ a.to \in Nat
  BY <1>1, OfHolds DEF Aim
<1>3. <<m, r>> # <<l, a.reading>>
  <2>1. r # a.reading
    BY DEF Aim
  <2> QED
    BY <2>1
<1>4. \A i \in DOMAIN text : text[i] # End
  BY NoWordIsEnd
<1>5. PICK k, s : IsReading(text, k, s) /\ GrowsOnce(text, m, r, k, s) /\ Grows(text, k, s, l, a.reading)
  <2> HIDE DEF m, l
  <2> QED
    BY <1>2, <1>3, GrowsFirst DEF m, l
<1>6. Holds(text, top, top.start + k, s) /\ top.start + k <= a.to
  BY <1>1, <1>5, OnTheWay DEF Aim
<1>7. r.from + m = pos + 1 /\ k \in Nat
  BY <1>2, <1>5 DEF IsReading
<1>8. IF Head(r.reads).token # End
      THEN /\ k = m + 1 /\ pos + 1 \in DOMAIN text /\ text[pos + 1] = Head(r.reads).token
           /\ s = WithKeyword(r)
      ELSE /\ m < k
           /\ \E o \in Readings(text)[k - m] :
                o.from = pos + 1 /\ MayBe(o, Head(r.reads).bp) /\ s = WithOperand(r, o)
  <2> DEFINE at == r.from + m
  <2> HIDE DEF m
  <2>1. IF Head(r.reads).token # End
        THEN /\ k = m + 1 /\ at \in DOMAIN text /\ text[at] = Head(r.reads).token
             /\ s = WithKeyword(r)
        ELSE /\ m < k
             /\ \E o \in Readings(text)[k - m] :
                  o.from = at /\ MayBe(o, Head(r.reads).bp) /\ s = WithOperand(r, o)
    BY <1>2, <1>4, <1>5, GoesOnByRead
  <2>2. at = pos + 1
    BY <1>7
  <2> HIDE DEF at
  <2> QED
    BY <2>1, <2>2
<1>9. CASE Head(r.reads).token # End
  <2>1. top.start + k = pos + 1
    BY <1>2, <1>8, <1>9
  <2>2. next = Head(r.reads).token
    BY <1>1, <1>8, <1>9 DEF Word
  <2> QED
    BY <1>5, <1>6, <1>8, <1>9, <2>1, <2>2
<1>10. CASE Head(r.reads).token = End
  <2>1. PICK o \in Readings(text)[k - m] :
          o.from = pos + 1 /\ MayBe(o, Head(r.reads).bp) /\ s = WithOperand(r, o)
    BY <1>8, <1>10
  <2>2. m < k
    BY <1>8, <1>10
  <2>3. k - m = top.start + k - pos /\ pos < top.start + k /\ k - m \in 1..Len(text)
    <3>1. k \in 1..Len(text)
      BY <1>5 DEF IsReading
    <3> QED
      BY <1>1, <1>2, <2>2, <3>1
  <2>4. IsReading(text, top.start + k - pos, o)
    BY <2>1, <2>3 DEF IsReading
  <2> QED
    BY <1>5, <1>6, <1>10, <2>1, <2>3, <2>4
<1> QED
  BY <1>9, <1>10

\* A step that changes the top only.
LEMMA NearsOn ==
  ASSUME PrattInv, NearsAll, NEW v, Turns(v), text' = text, pos' \in Nat, pos <= pos',
         \A n, e, a :
           Whole(text, n, e) /\ pos' <= n /\ Aim(text, top, a, n, e) /\ TopNears(text, top, pos, a)
             => TopNears(text, v, pos', a)
  PROVE  NearsAll'
<1>1. StackOK(text, levels, pos) /\ top = levels[1] /\ pos \in Nat /\ Len(levels) \in Nat \ {0}
  BY Here DEF PrattInv
<1>2. ASSUME NEW n, NEW e, Whole(text, n, e), pos' <= n PROVE \E f : Nears(text, levels', pos', n, e, f)
  <2>1. n \in Nat /\ pos <= n
    <3>1. n \in Nat
      BY <1>2 DEF Whole, IsReading
    <3> QED
      BY <1>1, <1>2, <3>1
  <2>2. PICK f : Nears(text, levels, pos, n, e, f)
    BY <1>2, <2>1 DEF NearsAll
  <2>3. Aim(text, top, f[1], n, e) /\ TopNears(text, top, pos, f[1])
    <3>1. 1 \in 1..Len(levels)
      BY <1>1
    <3> QED
      BY <1>1, <2>2, <3>1 DEF Nears
  <2>4. TopNears(text, v, pos', f[1])
    BY <1>2, <2>3
  <2>5. Nears(text, <<v>> \o Tail(levels), pos', n, e, f)
    BY <1>1, <2>2, <2>4, NearsByReplacing DEF Turns
  <2> QED
    BY <2>5 DEF Turns, Becomes
<1> QED
  BY <1>2 DEF NearsAll

\* What a reading waits for comes, where it goes on.
LEMMA AwaitedComes ==
  ASSUME NEW words, Len(words) \in Nat, DOMAIN words = 1..Len(words), \A i \in DOMAIN words : words[i] # End,
         NEW m, NEW r, NEW k, NEW s, IsReading(words, m, r), IsReading(words, k, s), GrowsOnce(words, m, r, k, s),
         r.reads # <<>>
  PROVE  Awaits(r, Word(words, r.from + m))
<1> DEFINE at == r.from + m
<1>1. IF Head(r.reads).token # End
      THEN at \in DOMAIN words /\ words[at] = Head(r.reads).token
      ELSE m < k /\ \E o \in Readings(words)[k - m] : o.from = at
  BY GoesOnByRead
<1>2. CASE Head(r.reads).token # End
  <2> HIDE DEF at
  <2> QED
    BY <1>1, <1>2 DEF Awaits, Word, at
<1>3. CASE Head(r.reads).token = End
  <2>1. PICK o \in Readings(words)[k - m] : o.from = at
    BY <1>1, <1>3
  <2>2. IsReading(words, k - m, o)
    <3>1. m \in 1..Len(words) /\ k \in 1..Len(words) /\ m < k
      BY <1>1, <1>3 DEF IsReading
    <3> QED
      BY <2>1, <3>1 DEF IsReading
  <2>3. at \in DOMAIN words /\ \E y \in Atoms(words, at) \cup Prefixed(words, at) : TRUE
    BY <2>1, <2>2, GrowsFromStart
  <2> HIDE DEF at
  <2>4. words[at] \in atom \cup UNION {prefix[g].ops : g \in DOMAIN prefix}
    BY <2>3 DEF Atoms, Prefixed, IsFirst
  <2> QED
    BY <1>3, <2>3, <2>4 DEF Awaits, BeginsOperand, Word, at
<1> QED
  BY <1>2, <1>3

\* The operand that leads to the aim leaves what comes behind it.
LEMMA OperandEnds ==
  ASSUME OperandsStop, PrattInv, NEW n, NEW e, NEW a, Aim(text, top, a, n, e),
         NEW k, NEW y, IsReading(text, k, y), Grows(text, k, y, a.to - top.start, a.reading),
         Holds(text, top, top.start + k, y),
         NEW b, b.to = top.start + k, NEW bp, Edges(b.reading, bp) = y.rights,
         Whole(text, n, e)
  PROVE  Ends(text, bp, b, n, e)
<1> DEFINE l == a.to - top.start
           op == Word(text, b.to + 1)
           behind == Word(text, b.to + 2)
<1>1. /\ Len(text) \in Nat /\ DOMAIN text = 1..Len(text) /\ IsLevel(top) /\ top.start \in Nat
      /\ \A i \in DOMAIN text : text[i] # End
  BY Here, NoWordIsEnd DEF IsLevel
<1>2. IsReading(text, l, a.reading) /\ a.to \in Nat /\ k \in Nat /\ n \in Nat /\ y.from = top.start + 1 /\ a.to <= n
  <2>1. k \in Nat /\ n \in Nat
    BY DEF IsReading, Whole
  <2>2. Holds(text, top, a.to, a.reading) /\ a.to <= n
    BY DEF Aim
  <2>3. IsReading(text, l, a.reading) /\ a.to \in Nat
    BY <1>1, <2>2, OfHolds
  <2>4. y.from = top.start + 1
    BY <1>1, OfHolds
  <2> QED
    BY <2>1, <2>2, <2>3, <2>4
<1>3. CASE <<k, y>> = <<l, a.reading>>
  <2>1. b.to = a.to /\ y = a.reading
    BY <1>1, <1>2, <1>3
  <2>2. Edges(b.reading, bp) \subseteq Edges(a.reading, top.minBp)
    BY <2>1 DEF Edges
  <2>3. Ends(text, top.minBp, a, n, e)
    BY DEF Aim
  <2> QED
    BY <2>1, <2>2, <2>3, Zenon DEF Ends
<1>4. CASE <<k, y>> # <<l, a.reading>>
  <2>1. PICK m, s : IsReading(text, m, s) /\ GrowsOnce(text, k, y, m, s) /\ Grows(text, m, s, l, a.reading)
    <3> HIDE DEF l
    <3> QED
      BY <1>2, <1>4, GrowsFirst DEF l
  <2>2. b.to < n
    <3>1. k < l
      BY <1>1, <1>4, GrowsKeeps
    <3> QED
      BY <1>1, <1>2, <3>1
  <2>3. y.from + k = b.to + 1 /\ (b.to + 1) + 1 = b.to + 2 /\ y.from + k + 1 = b.to + 2
    BY <1>1, <1>2
  <2>4. ASSUME NEW edge \in y.rights PROVE Leaves(edge.bp, edge.tree.op, op, behind)
    <3>1. CASE y.reads = <<>>
      <4>1. IsLeftTo(y, Word(text, y.from + k), Word(text, y.from + k + 1))
        BY <2>1, <3>1, GoesOnByOperator
      <4>2. IsLeftTo(y, op, behind)
        BY <2>3, <4>1
      <4> QED
        BY <2>4, <4>2 DEF IsLeftTo
    <3>2. CASE y.reads # <<>>
      <4>1. Awaits(y, Word(text, y.from + k))
        BY <1>1, <2>1, <3>2, AwaitedComes
      <4>2. text \in Texts /\ k \in 1..Len(text) /\ y \in Readings(text)[k]
        BY DEF PrattInv, IsReading
      <4>3. Leaves(edge.bp, edge.tree.op, Word(text, y.from + k), Word(text, y.from + k + 1))
        BY <2>4, <4>1, <4>2, Zenon DEF OperandsStop
      <4> QED
        BY <2>3, <4>3
    <3> QED
      BY <3>1, <3>2
  <2> QED
    BY <2>2, <2>4 DEF Ends
<1> QED
  BY <1>3, <1>4

LEMMA Turned ==
  ASSUME NEW v, Turns(v), NEW to, NEW r, Holds(text, top, to, r)
  PROVE  Holds(text, v, to, r)
BY DEF Turns, Holds

LEMMA NearsAtTail ==
  ASSUME NEW words, NEW v, v.at = "tail", NEW p, NEW a, NEW r, HoldsOpen(words, v, p, r),
         Grows(words, p - v.start, r, a.to - v.start, a.reading)
  PROVE  TopNears(words, v, p, a)
BY DEF TopNears

LEMMA NearsAtLoop ==
  ASSUME NEW words, NEW v, v.at = "loop", NEW p, NEW a, NEW r, HoldsLeft(words, v, p, r),
         Grows(words, p - v.start, r, a.to - v.start, a.reading)
  PROVE  TopNears(words, v, p, a)
BY DEF TopNears

\* What a level begins with on the way to its aim.
LEMMA AtOperand ==
  ASSUME PrattInv, top.at = "operand", NEW n, NEW e, NEW a, Aim(text, top, a, n, e)
  PROVE  \E s : /\ Holds(text, top, pos + 1, s)
                /\ Grows(text, (pos + 1) - top.start, s, a.to - top.start, a.reading)
                /\ \/ /\ prefixGroup = 0 /\ next \in atom
                      /\ s.tree = Node("atom", 0, next, <<>>) /\ s.reads = <<>>
                   \/ /\ prefixGroup # 0
                      /\ s.tree = Node("prefix", prefixGroup, next, <<>>)
                      /\ s.reads = <<Operand(prefix[prefixGroup].bp)>>
<1>1. /\ Len(text) \in Nat /\ DOMAIN text = 1..Len(text) /\ IsLevel(top) /\ pos \in Nat
      /\ next = Word(text, pos + 1)
  BY Here
<1>2. top.start = pos
  BY Here DEF TopOK
<1>3. IsReading(text, a.to - top.start, a.reading) /\ a.reading.from = pos + 1
  BY <1>1, <1>2, OfHolds DEF Aim
<1>4. /\ pos + 1 \in DOMAIN text
      /\ \E s \in Atoms(text, pos + 1) \cup Prefixed(text, pos + 1) :
           Grows(text, 1, s, a.to - top.start, a.reading)
  BY <1>1, <1>3, GrowsFromStart
<1>5. PICK s \in Atoms(text, pos + 1) \cup Prefixed(text, pos + 1) :
        Grows(text, 1, s, a.to - top.start, a.reading)
  BY <1>4
<1>6. text[pos + 1] = next
  BY <1>1, <1>4 DEF Word
<1>7. IsReading(text, 1, s)
  BY <1>1, <1>4, <1>5, Begins DEF IsReading
<1>8. Holds(text, top, pos + 1, s) /\ (pos + 1) - top.start = 1
  <2>1. Holds(text, top, top.start + 1, s)
    BY <1>1, <1>5, <1>7, OnTheWay DEF Aim
  <2> QED
    BY <1>1, <1>2, <2>1
<1> DEFINE groups == {h \in DOMAIN prefix : next \in prefix[h].ops}
<1>9. /\ IF groups = {} THEN prefixGroup = 0 ELSE IsFirst(prefixGroup, groups) /\ prefixGroup # 0
      /\ groups \subseteq Nat
  <2>1. IF groups = {} THEN prefixGroup = 0 ELSE IsFirst(prefixGroup, groups) /\ prefixGroup # 0
    BY PrefixIs, Zenon
  <2>2. groups \subseteq Nat
    BY TableIs
  <2> QED
    BY <2>1, <2>2
<1>10. CASE s \in Atoms(text, pos + 1)
  <2>1. next \in atom /\ next \notin UNION {prefix[h].ops : h \in DOMAIN prefix}
    BY <1>6, <1>10 DEF Atoms
  <2>2. s = Partial(pos + 1, Node("atom", 0, next, <<>>), <<>>, {}, {})
    BY <1>6, <1>10 DEF Atoms
  <2>3. groups = {}
    BY <2>1
  <2>4. s.tree = Node("atom", 0, next, <<>>) /\ s.reads = <<>>
    BY <2>2 DEF Partial
  <2> QED
    BY <1>5, <1>8, <1>9, <2>1, <2>3, <2>4
<1>11. CASE s \in Prefixed(text, pos + 1)
  <2>1. PICK h : /\ IsFirst(h, groups)
                 /\ s = Partial(pos + 1, Node("prefix", h, next, <<>>), ReadsOf("prefix", h), {}, {})
    BY <1>6, <1>11 DEF Prefixed
  <2> HIDE DEF groups
  <2>2. h = prefixGroup /\ prefixGroup # 0
    <3>1. h \in groups /\ \A g \in groups : h <= g
      BY <2>1 DEF IsFirst
    <3>2. prefixGroup # 0 /\ prefixGroup \in groups /\ \A g \in groups : prefixGroup <= g
      BY <1>9, <3>1 DEF IsFirst
    <3> QED
      BY <1>9, <3>1, <3>2
  <2>3. s.tree = Node("prefix", h, next, <<>>) /\ s.reads = <<Operand(prefix[h].bp)>>
    BY <2>1 DEF Partial, ReadsOf
  <2> QED
    BY <1>5, <1>8, <2>2, <2>3
<1> QED
  BY <1>5, <1>10, <1>11

LEMMA PrefixNears == PrattInv /\ NearsAll /\ Prefix => NearsAll'
<1> SUFFICES ASSUME PrattInv, NearsAll, Prefix PROVE NearsAll'
  OBVIOUS
<1> DEFINE reads == <<Operand(prefix[prefixGroup].bp)>>
<1>1. /\ top.at = "operand" /\ prefixGroup # 0 /\ text' = text /\ pos' = pos + 1
      /\ Opens("prefix", prefixGroup, <<>>, reads)
  BY DEF Prefix, At, Opens, Consume
<1>2. pos \in Nat
  BY Here
<1>3. reads \in Seq(Read)
  <2>1. prefix[prefixGroup].bp \in Int
    <3>1. prefixGroup \in DOMAIN prefix
      BY <1>1, PrefixIs DEF IsFirst
    <3> QED
      BY <3>1, TableIs, GroupIs, Zenon
  <2> QED
    BY <2>1, OperandIsRead
<1>4. PICK v : /\ Turns(v) /\ v.at = "tail"
               /\ v.open = Node("prefix", prefixGroup, next, <<>>) /\ v.reads = reads
  <2> HIDE DEF reads
  <2> QED
    BY <1>1, <1>3, OpensLevel
<1>5. ASSUME NEW n, NEW e, NEW a, Aim(text, top, a, n, e) PROVE TopNears(text, v, pos + 1, a)
  <2>1. PICK s : /\ Holds(text, top, pos + 1, s)
                 /\ Grows(text, (pos + 1) - top.start, s, a.to - top.start, a.reading)
                 /\ s.tree = v.open /\ s.reads = v.reads
    BY <1>1, <1>4, <1>5, AtOperand
  <2>2. Holds(text, v, pos + 1, s) /\ v.start = top.start
    BY <1>4, <2>1, Turned DEF Turns
  <2>3. HoldsOpen(text, v, pos + 1, s)
    BY <2>1, <2>2 DEF HoldsOpen
  <2>4. Grows(text, (pos + 1) - v.start, s, a.to - v.start, a.reading)
    BY <2>1, <2>2
  <2> QED
    BY <1>4, <2>3, <2>4, NearsAtTail
<1> QED
  BY <1>1, <1>2, <1>4, <1>5, NearsOn

LEMMA AtomNears == PrattInv /\ NearsAll /\ Atom => NearsAll'
<1> SUFFICES ASSUME PrattInv, NearsAll, Atom PROVE NearsAll'
  OBVIOUS
<1>1. top.at = "operand" /\ prefixGroup = 0 /\ text' = text /\ pos' = pos + 1
  BY DEF Atom, At, Consume
<1>2. pos \in Nat
  BY Here
<1>3. PICK v : Turns(v) /\ v.at = "loop" /\ v.left = Node("atom", 0, next, <<>>)
  BY AtomLevel
<1>4. ASSUME NEW n, NEW e, NEW a, Aim(text, top, a, n, e) PROVE TopNears(text, v, pos + 1, a)
  <2>1. PICK s : /\ Holds(text, top, pos + 1, s)
                 /\ Grows(text, (pos + 1) - top.start, s, a.to - top.start, a.reading)
                 /\ s.tree = v.left /\ s.reads = <<>>
    BY <1>1, <1>3, <1>4, AtOperand
  <2>2. Holds(text, v, pos + 1, s) /\ v.start = top.start
    BY <1>3, <2>1, Turned DEF Turns
  <2>3. HoldsLeft(text, v, pos + 1, s)
    BY <2>1, <2>2 DEF HoldsLeft
  <2>4. Grows(text, (pos + 1) - v.start, s, a.to - v.start, a.reading)
    BY <2>1, <2>2
  <2> QED
    BY <1>3, <2>3, <2>4, NearsAtLoop
<1> QED
  BY <1>1, <1>2, <1>3, <1>4, NearsOn

LEMMA OperatorNears ==
  ASSUME PrattInv, NearsAll, NEW kind \in {"postfix", "infix"}, NEW g, OpensOperator(kind, g)
  PROVE  NearsAll'
<1>1. /\ top.at = "loop" /\ text' = text /\ pos' = pos + 1
      /\ Opens(kind, g, <<top.left>>, ReadsOf(kind, g)) /\ ReadsOf(kind, g) \in Seq(Read)
      /\ Takes(top.minBp, top.left.op, next, second, kind, g)
  BY DEF OpensOperator, At, Opens, Consume
<1>2. pos \in Nat /\ top.minBp \in Int /\ next = Word(text, pos + 1) /\ second = Word(text, pos + 2)
  BY Here DEF IsLevel
<1>3. PICK v : /\ Turns(v) /\ v.at = "tail"
               /\ v.open = Node(kind, g, next, <<top.left>>) /\ v.reads = ReadsOf(kind, g)
  BY <1>1, OpensLevel
<1>4. ASSUME NEW n, NEW e, NEW a, Whole(text, n, e), pos + 1 <= n, Aim(text, top, a, n, e), TopNears(text, top, pos, a)
      PROVE  TopNears(text, v, pos + 1, a)
  <2>1. PICK r : HoldsLeft(text, top, pos, r) /\ Grows(text, pos - top.start, r, a.to - top.start, a.reading)
    BY <1>1, <1>4 DEF TopNears
  <2>2. ~(pos = a.to /\ r = a.reading)
    <3> SUFFICES ASSUME pos = a.to, r = a.reading PROVE FALSE
      OBVIOUS
    <3>1. a.to < n
      <4>1. n \in Nat
        BY <1>4 DEF Whole, IsReading
      <4> QED
        BY <1>2, <1>4, <4>1
    <3>2. [bp |-> top.minBp, tree |-> r.tree] \in Edges(a.reading, top.minBp)
      BY DEF Edges
    <3>3. Leaves(top.minBp, r.tree.op, Word(text, a.to + 1), Word(text, a.to + 2))
      BY <1>4, <3>1, <3>2 DEF Aim, Ends
    <3>4. Leaves(top.minBp, top.left.op, next, second)
      BY <1>2, <2>1, <3>3 DEF HoldsLeft
    <3> QED
      BY <1>1, <1>2, <3>4, OneTakes
  <2>3. PICK other, h :
          LET s == Opened(r, next, second, other, h)
          IN  /\ other \in {"postfix", "infix"}
              /\ Holds(text, top, pos + 1, s)
              /\ Grows(text, (pos + 1) - top.start, s, a.to - top.start, a.reading)
              /\ Takes(top.minBp, r.tree.op, next, second, other, h)
    <3>1. Holds(text, top, pos, r) /\ r.reads = <<>>
      BY <2>1 DEF HoldsLeft
    <3> QED
      BY <1>4, <2>1, <2>2, <3>1, EndsOrGoesOn
  <2>4. r.tree = top.left
    BY <2>1 DEF HoldsLeft
  <2>5. other = kind /\ h = g
    <3>1. Takes(top.minBp, top.left.op, next, second, other, h)
      BY <2>3, <2>4
    <3> DEFINE bp == top.minBp
               left == top.left.op
    <3>2. bp \in Int /\ Takes(bp, left, next, second, kind, g) /\ Takes(bp, left, next, second, other, h)
      BY <1>1, <1>2, <3>1
    <3>3. other \in {"postfix", "infix"}
      BY <2>3
    <3> HIDE DEF bp, left
    <3> QED
      BY <3>2, <3>3, OneTakes
  <2> DEFINE s == Opened(r, next, second, kind, g)
  <2>6. s.tree = v.open /\ s.reads = v.reads
    BY <1>3, <2>4 DEF Opened, Partial
  <2>7. Holds(text, top, pos + 1, s) /\ Grows(text, (pos + 1) - top.start, s, a.to - top.start, a.reading)
    BY <2>3, <2>5
  <2> HIDE DEF s
  <2>8. Holds(text, v, pos + 1, s) /\ v.start = top.start
    BY <1>3, <2>7, Turned DEF Turns
  <2>9. HoldsOpen(text, v, pos + 1, s)
    BY <2>6, <2>8 DEF HoldsOpen
  <2>10. Grows(text, (pos + 1) - v.start, s, a.to - v.start, a.reading)
    BY <2>7, <2>8
  <2> QED
    BY <1>3, <2>9, <2>10, NearsAtTail
<1> QED
  BY <1>1, <1>2, <1>3, <1>4, NearsOn

LEMMA KeywordNears == PrattInv /\ NearsAll /\ ReadKeyword /\ ~Croak => NearsAll'
<1> SUFFICES ASSUME PrattInv, NearsAll, ReadKeyword, ~Croak PROVE NearsAll'
  OBVIOUS
<1>1. /\ top.at = "tail" /\ top.reads # <<>> /\ Head(top.reads).token # End
      /\ text' = text /\ pos' = pos + 1
  BY DEF ReadKeyword, Reading, At, Consume
<1>2. pos \in Nat
  BY Here
<1>3. PICK v : Turns(v) /\ v.at = "tail" /\ v.open = top.open /\ v.reads = Tail(top.reads)
  BY KeywordLevel
<1>4. ASSUME NEW n, NEW e, NEW a, Aim(text, top, a, n, e), TopNears(text, top, pos, a)
      PROVE  TopNears(text, v, pos + 1, a)
  <2>1. PICK r : HoldsOpen(text, top, pos, r) /\ Grows(text, pos - top.start, r, a.to - top.start, a.reading)
    BY <1>1, <1>4 DEF TopNears
  <2>2. Holds(text, top, pos, r) /\ r.tree = top.open /\ r.reads = top.reads
    BY <2>1 DEF HoldsOpen
  <2>3. PICK k, s : /\ Grows(text, k, s, a.to - top.start, a.reading)
                    /\ Holds(text, top, top.start + k, s)
                    /\ top.start + k = pos + 1 /\ s = WithKeyword(r) /\ IsReading(text, k, s)
    BY <1>1, <1>4, <2>1, <2>2, ReadsOnward
  <2>4. s.tree = v.open /\ s.reads = v.reads
    BY <1>3, <2>2, <2>3 DEF WithKeyword, Partial
  <2>5. Holds(text, v, pos + 1, s) /\ v.start = top.start
    BY <1>3, <2>3, Turned DEF Turns
  <2>6. k = (pos + 1) - top.start
    <3>1. k \in Nat /\ top.start \in Nat
      BY <2>3, Here DEF IsReading, IsLevel
    <3> QED
      BY <1>2, <2>3, <3>1
  <2>7. HoldsOpen(text, v, pos + 1, s)
    BY <2>4, <2>5 DEF HoldsOpen
  <2>8. Grows(text, (pos + 1) - v.start, s, a.to - v.start, a.reading)
    BY <2>3, <2>5, <2>6
  <2> QED
    BY <1>3, <2>7, <2>8, NearsAtTail
<1> QED
  BY <1>1, <1>2, <1>3, <1>4, NearsOn

LEMMA CloseNears == PrattInv /\ NearsAll /\ Close /\ ~Croak => NearsAll'
<1> SUFFICES ASSUME PrattInv, NearsAll, Close, ~Croak PROVE NearsAll'
  OBVIOUS
<1>1. top.at = "tail" /\ top.reads = <<>> /\ text' = text /\ pos' = pos
  BY DEF Close, At
<1>2. pos \in Nat
  BY Here
<1>3. PICK v : Turns(v) /\ v.at = "loop" /\ v.left = top.open
  BY CloseLevel
<1>4. ASSUME NEW n, NEW e, NEW a, TopNears(text, top, pos, a) PROVE TopNears(text, v, pos, a)
  <2>1. PICK r : HoldsOpen(text, top, pos, r) /\ Grows(text, pos - top.start, r, a.to - top.start, a.reading)
    BY <1>1, <1>4 DEF TopNears
  <2>2. HoldsLeft(text, v, pos, r) /\ v.start = top.start
    BY <1>1, <1>3, <2>1, Turned DEF Turns, HoldsOpen, HoldsLeft
  <2> QED
    BY <1>3, <2>1, <2>2 DEF TopNears
<1> QED
  BY <1>1, <1>2, <1>3, <1>4, NearsOn

LEMMA CallNears ==
  ASSUME OperandsStop, PrattInv, NearsAll, ReadOperand
  PROVE  NearsAll'
<1>1. /\ top.at = "tail" /\ top.reads # <<>> /\ Head(top.reads).token = End
      /\ text' = text /\ pos' = pos
  BY DEF ReadOperand, Reading, At
<1>2. /\ StackOK(text, levels, pos) /\ top = levels[1] /\ pos \in Nat /\ Len(levels) \in Nat \ {0}
      /\ IsLevel(top) /\ top.start \in Nat /\ Len(text) \in Nat
  BY Here DEF PrattInv, IsLevel
<1>3. PICK v : /\ levels' = <<v>> \o levels
               /\ IsLevel(v) /\ v.start = pos /\ v.minBp = Head(top.reads).bp /\ v.at = "operand"
  BY CallLevel
<1>4. ASSUME NEW n, NEW e, Whole(text, n, e), pos <= n
      PROVE  \E f : Nears(text, <<v>> \o levels, pos, n, e, f)
  <2>1. PICK f : Nears(text, levels, pos, n, e, f)
    BY <1>4 DEF NearsAll
  <2> DEFINE a == f[1]
  <2>2. Aim(text, top, a, n, e) /\ TopNears(text, top, pos, a)
    <3>1. 1 \in 1..Len(levels)
      BY <1>2
    <3> QED
      BY <1>2, <2>1, <3>1 DEF Nears
  <2> HIDE DEF a
  <2>3. PICK r : HoldsOpen(text, top, pos, r) /\ Grows(text, pos - top.start, r, a.to - top.start, a.reading)
    BY <1>1, <2>2 DEF TopNears
  <2>4. Holds(text, top, pos, r) /\ r.reads = top.reads
    BY <2>3 DEF HoldsOpen
  <2>5. PICK k, s : /\ IsReading(text, k, s)
                    /\ Grows(text, k, s, a.to - top.start, a.reading)
                    /\ Holds(text, top, top.start + k, s) /\ top.start + k <= a.to
                    /\ \E o : /\ IsReading(text, top.start + k - pos, o) /\ pos < top.start + k
                              /\ o.from = pos + 1 /\ MayBe(o, Head(r.reads).bp) /\ s = WithOperand(r, o)
    BY <1>1, <2>2, <2>3, <2>4, ReadsOnward
  <2>6. PICK o : /\ IsReading(text, top.start + k - pos, o) /\ pos < top.start + k
                 /\ o.from = pos + 1 /\ MayBe(o, Head(r.reads).bp) /\ s = WithOperand(r, o)
    BY <2>5
  <2> DEFINE b == [to |-> top.start + k, reading |-> o]
  <2>7. b.to = top.start + k /\ b.reading = o
    OBVIOUS
  <2> HIDE DEF b
  <2>8. k \in Nat /\ n \in Nat /\ a.to \in Nat /\ a.to <= n /\ a.to <= Len(text)
    <3>1. k \in Nat /\ n \in Nat
      BY <1>4, <2>5 DEF IsReading, Whole
    <3>2. Holds(text, top, a.to, a.reading) /\ a.to <= n
      BY <2>2 DEF Aim
    <3> QED
      BY <1>2, <3>1, <3>2, OfHolds
  <2>9. /\ b.to \in Nat /\ v.start < b.to /\ b.to <= Len(text) /\ b.to <= n
        /\ b.to - top.start = k /\ b.to - v.start = top.start + k - pos
    <3>1. /\ b.to = top.start + k /\ v.start = pos /\ pos < top.start + k /\ top.start + k <= a.to
          /\ k \in Nat /\ top.start \in Nat /\ pos \in Nat /\ n \in Nat /\ a.to \in Nat
          /\ a.to <= n /\ a.to <= Len(text) /\ Len(text) \in Nat
      BY <1>2, <1>3, <2>5, <2>6, <2>7, <2>8
    <3> QED
      BY <3>1
  <2>10. Holds(text, v, b.to, b.reading) /\ b.reading.reads = <<>>
    <3>1. o \in Readings(text)[b.to - v.start]
      BY <2>6, <2>9 DEF IsReading
    <3>2. Bears(o, v.minBp) /\ o.reads = <<>> /\ o.from = v.start + 1
      BY <1>3, <2>4, <2>6 DEF MayBe
    <3> QED
      BY <2>7, <2>9, <3>1, <3>2 DEF Holds
  <2>11. Edges(b.reading, v.minBp) = s.rights
    BY <1>3, <2>4, <2>6, <2>7 DEF Edges, WithOperand, Partial
  <2>12. Ends(text, v.minBp, b, n, e)
    BY <1>4, <2>2, <2>5, <2>7, <2>11, OperandEnds
  <2>13. Aim(text, v, b, n, e)
    BY <2>9, <2>10, <2>12 DEF Aim
  <2>14. CallerNears(text, levels[1], v, b, f[1])
    <3>1. HoldsOpen(text, top, v.start, r)
      BY <1>3, <2>3
    <3>2. /\ IsReading(text, b.to - top.start, WithOperand(r, b.reading))
          /\ Grows(text, b.to - top.start, WithOperand(r, b.reading), a.to - top.start, a.reading)
      BY <2>5, <2>6, <2>7, <2>9
    <3>3. CallerNears(text, top, v, b, a)
      BY <3>1, <3>2, Zenon DEF CallerNears
    <3> QED
      BY <1>2, <3>3 DEF a
  <2> QED
    BY <1>2, <1>3, <2>1, <2>13, <2>14, NearsByCalling
<1> QED
  BY <1>1, <1>3, <1>4 DEF NearsAll

\* A level that nobody at its end can go on from has reached its aim.
LEMMA EndsAtAim ==
  ASSUME PrattInv, Leaves(top.minBp, top.left.op, next, second), top.at = "loop",
         NEW n, NEW e, NEW a, Aim(text, top, a, n, e), TopNears(text, top, pos, a)
  PROVE  \E r : HoldsLeft(text, top, pos, r) /\ pos = a.to /\ r = a.reading
<1>1. PICK r : HoldsLeft(text, top, pos, r) /\ Grows(text, pos - top.start, r, a.to - top.start, a.reading)
  BY DEF TopNears
<1>2. Holds(text, top, pos, r) /\ r.reads = <<>> /\ r.tree = top.left
  BY <1>1 DEF HoldsLeft
<1>3. ASSUME NEW kind \in {"postfix", "infix"}, NEW g, Takes(top.minBp, r.tree.op, next, second, kind, g)
      PROVE  FALSE
  <2>1. top.minBp \in Int
    BY Here DEF IsLevel
  <2> QED
    BY <1>2, <1>3, <2>1, OneTakes
<1>4. pos = a.to /\ r = a.reading
  BY <1>1, <1>2, <1>3, EndsOrGoesOn
<1> QED
  BY <1>1, <1>4

LEMMA ReturnNears ==
  ASSUME PrattInv, NearsAll, Break, Len(levels) # 1
  PROVE  NearsAll'
<1> DEFINE caller == levels[2]
<1>1. top.at = "loop" /\ postfixGroup = 0 /\ ~GoesOn /\ text' = text /\ pos' = pos
  BY DEF Break, At
<1>2. /\ StackOK(text, levels, pos) /\ top = levels[1] /\ pos \in Nat /\ Len(levels) \in Nat \ {0}
      /\ Len(text) \in Nat /\ IsLevel(top)
  BY Here DEF PrattInv
<1>3. Leaves(top.minBp, top.left.op, next, second)
  BY <1>1, <1>2, LoopTakes DEF IsLevel
<1>4. PICK v : /\ levels' = <<v>> \o Tail(Tail(levels))
               /\ IsLevel(v) /\ v.start = caller.start /\ v.minBp = caller.minBp /\ v.at = "tail"
               /\ v.open = [caller.open EXCEPT !.args = Append(@, top.left)]
               /\ v.reads = Tail(caller.reads)
  BY ReturnLevel
<1>5. 1 \in 1..Len(levels) /\ 2 \in 1..Len(levels) /\ 2 \in 2..Len(levels) /\ 2 - 1 = 1
  <2> DEFINE l == Len(levels)
  <2>1. l \in Nat /\ l # 0 /\ l # 1
    BY <1>2
  <2> HIDE DEF l
  <2>2. 1 \in 1..l /\ 2 \in 1..l /\ 2 \in 2..l /\ 2 - 1 = 1
    BY <2>1
  <2> QED
    BY <2>2 DEF l
<1>6. IsLevel(caller)
  BY <1>2, <1>5 DEF StackOK
<1>7. ASSUME NEW n, NEW e, Whole(text, n, e), pos <= n
      PROVE  \E f : Nears(text, <<v>> \o Tail(Tail(levels)), pos, n, e, f)
  <2>1. PICK f : Nears(text, levels, pos, n, e, f)
    BY <1>7 DEF NearsAll
  <2> DEFINE a == f[1]
             b == f[2]
  <2>2. /\ Aim(text, top, a, n, e) /\ TopNears(text, top, pos, a)
        /\ Aim(text, caller, b, n, e) /\ CallerNears(text, caller, top, a, b)
    BY <1>2, <1>5, <2>1 DEF Nears
  <2> HIDE DEF a, b, caller
  <2>3. PICK r : HoldsLeft(text, top, pos, r) /\ pos = a.to /\ r = a.reading
    BY <1>1, <1>3, <2>2, EndsAtAim
  <2>4. PICK left : /\ HoldsOpen(text, caller, top.start, left)
                    /\ IsReading(text, pos - caller.start, WithOperand(left, r))
                    /\ Grows(text, pos - caller.start, WithOperand(left, r), b.to - caller.start, b.reading)
    BY <2>2, <2>3 DEF CallerNears
  <2> DEFINE s == WithOperand(left, r)
  <2>5. s.tree = v.open /\ s.reads = v.reads
    <3>1. left.tree = caller.open /\ left.reads = caller.reads /\ r.tree = top.left
      BY <2>3, <2>4 DEF HoldsOpen, HoldsLeft
    <3> QED
      BY <1>4, <3>1 DEF WithOperand, Partial
  <2> HIDE DEF s
  <2>6. Holds(text, caller, pos, s)
    <3>1. Holds(text, caller, caller.start + (pos - caller.start), s)
      BY <1>2, <1>6, <2>2, <2>4, OnTheWay DEF Aim, s, caller
    <3>2. caller.start + (pos - caller.start) = pos
      BY <1>2, <1>6 DEF IsLevel, caller
    <3> QED
      BY <3>1, <3>2
  <2>7. HoldsOpen(text, v, pos, s)
    BY <1>4, <2>5, <2>6 DEF HoldsOpen, Holds, caller
  <2>8. Grows(text, pos - v.start, s, b.to - v.start, b.reading)
    BY <1>4, <2>4 DEF s, caller
  <2>9. TopNears(text, v, pos, b)
    BY <1>4, <2>7, <2>8, NearsAtTail
  <2> QED
    BY <1>2, <1>4, <2>1, <2>9, NearsByReturning DEF b, caller
<1> QED
  BY <1>1, <1>4, <1>7 DEF NearsAll

LEMMA StillNears ==
  ASSUME NearsAll, text' = text, pos' = pos, levels' = levels
  PROVE  NearsAll'
BY DEF NearsAll

LEMMA FirstNears == Init => NearsAll
<1> SUFFICES ASSUME Init PROVE NearsAll
  OBVIOUS
<1>1. PrattInv
  BY FirstLevel
<1>2. /\ text \in Texts /\ pos = 0 /\ levels = <<Level(0)>> /\ Len(text) \in Nat
  BY <1>1, Here DEF Init
<1>3. ASSUME NEW n, NEW e, Whole(text, n, e) PROVE \E f : Nears(text, levels, pos, n, e, f)
  <2> DEFINE v == Level(0)
             a == [to |-> n, reading |-> e]
             f == [k \in {1} |-> a]
  <2>1. v.start = 0 /\ v.minBp = 0 /\ v.at = "operand"
    BY <1>2 DEF Level
  <2>2. Len(levels) = 1 /\ levels[1] = v
    BY <1>2
  <2>3. f[1] = a /\ a.to = n /\ a.reading = e
    OBVIOUS
  <2> HIDE DEF v, f, a
  <2>4. n \in 1..Len(text) /\ e \in Readings(text)[n] /\ e.from = 1 /\ e.reads = <<>> /\ Bears(e, 0)
    BY <1>3 DEF Whole, IsReading, MayBe
  <2>5. n \in Nat /\ 0 < n /\ n <= Len(text) /\ n - 0 = n /\ ~(n < n)
    BY <1>2, <2>4
  <2>6. Holds(text, v, n, e)
    BY <2>1, <2>4, <2>5 DEF Holds
  <2>7. Ends(text, 0, a, n, e)
    BY <2>3, <2>5 DEF Ends
  <2>8. Aim(text, v, a, n, e)
    BY <2>1, <2>3, <2>4, <2>5, <2>6, <2>7 DEF Aim
  <2>9. TopNears(text, v, pos, a)
    BY <2>1 DEF TopNears
  <2>10. 1..Len(levels) = {1} /\ 2..Len(levels) = {}
    BY <2>2
  <2>11. Nears(text, levels, pos, n, e, f)
    BY <2>2, <2>3, <2>8, <2>9, <2>10 DEF Nears
  <2> QED
    BY <2>11
<1> QED
  BY <1>3 DEF NearsAll

-------------------------------------------------------------------------------
(* Where the parser stops.                                                 *)

\* Why it croaks.
Stuck ==
  \/ top.at = "operand" /\ prefixGroup = 0 /\ next \notin atom
  \/ top.at = "tail" /\ top.reads # <<>> /\ Head(top.reads).token # End /\ next # Head(top.reads).token
  \/ top.at = "tail" /\ top.reads = <<>> /\ Chains(top.open)

CompleteInv ==
  /\ PrattInv
  /\ NearsAll
  /\ outcome \in {"reading", "croaked", "done"}
  /\ outcome = "croaked" => Stuck

LEMMA StillStuck ==
  ASSUME text' = text, pos' = pos, levels' = levels
  PROVE  Stuck' <=> Stuck
<1>1. top' = top /\ next' = next /\ second' = second
  BY DEF top, next, second, Token
<1>2. prefixGroup' = prefixGroup
  BY <1>1 DEF prefixGroup, SelectInSeq
<1>3. Chains(top.open)' <=> Chains(top.open)
  BY <1>1 DEF Chains, Applies, Accepts
<1> QED
  BY <1>1, <1>2, <1>3 DEF Stuck

LEMMA CroakIsStuck ==
  ASSUME CompleteInv, Croak, Stuck
  PROVE  NearsAll' /\ outcome' \in {"reading", "croaked", "done"} /\ (outcome' = "croaked" => Stuck')
BY StillNears, StillStuck DEF Croak, CompleteInv

\* The parser nears every expression that is still ahead, and croaks for a
\* reason.
LEMMA CompleteInvariance ==
  ASSUME OperandsStop
  PROVE  Spec => []CompleteInv
<1> DEFINE Kept == NearsAll' /\ outcome' \in {"reading", "croaked", "done"} /\ (outcome' = "croaked" => Stuck')
<1>1. Init => CompleteInv
  <2> SUFFICES ASSUME Init PROVE CompleteInv
    OBVIOUS
  <2>1. outcome = "reading"
    BY DEF Init
  <2> QED
    BY <2>1, FirstLevel, FirstNears DEF CompleteInv
<1>2. CompleteInv /\ [Next]_vars => Kept
  <2> SUFFICES ASSUME CompleteInv, [Next]_vars PROVE Kept
    OBVIOUS
  <2> HIDE DEF Kept
  <2>1. PrattInv /\ NearsAll
    BY DEF CompleteInv
  <2>2. ASSUME NearsAll', outcome' \in {"reading", "done"} PROVE Kept
    BY <2>2 DEF Kept
  <2>3. ASSUME Prefix PROVE Kept
    BY <2>1, <2>2, <2>3, PrefixNears DEF Prefix, Opens, At
  <2>4. ASSUME Atom PROVE Kept
    BY <2>1, <2>2, <2>4, AtomNears DEF Atom, At
  <2>5. ASSUME NoAtom PROVE Kept
    BY <2>5, CroakIsStuck DEF NoAtom, At, Stuck, Kept
  <2>6. ASSUME Postfix PROVE Kept
    <3>1. NearsAll'
      BY <2>1, <2>6, PostfixOpens, OperatorNears
    <3> QED
      BY <2>2, <2>6, <3>1 DEF Postfix, Opens, At
  <2>7. ASSUME Infix PROVE Kept
    <3>1. NearsAll'
      BY <2>1, <2>7, InfixOpens, OperatorNears
    <3> QED
      BY <2>2, <2>7, <3>1 DEF Infix, Opens, At
  <2>8. ASSUME Break PROVE Kept
    <3>1. CASE Len(levels) = 1
      <4>1. text' = text /\ pos' = pos /\ levels' = levels /\ outcome' = "done"
        BY <2>8, <3>1 DEF Break
      <4> QED
        BY <2>1, <2>2, <4>1, StillNears
    <3>2. CASE Len(levels) # 1
      <4>1. outcome' = "reading"
        BY <2>8, <3>2 DEF Break, At
      <4> QED
        BY <2>1, <2>2, <2>8, <3>2, <4>1, ReturnNears
    <3> QED
      BY <3>1, <3>2
  <2>9. ASSUME ReadKeyword PROVE Kept
    <3>1. CASE Croak
      <4>1. next # Head(top.reads).token
        BY <2>9, <3>1 DEF ReadKeyword, Croak, Reading, At
      <4> QED
        BY <2>9, <3>1, <4>1, CroakIsStuck DEF ReadKeyword, Reading, At, Stuck, Kept
    <3>2. CASE ~Croak
      BY <2>1, <2>2, <2>9, <3>2, KeywordNears DEF ReadKeyword, Reading, At
    <3> QED
      BY <3>1, <3>2
  <2>10. ASSUME ReadOperand PROVE Kept
    BY <2>1, <2>2, <2>10, CallNears DEF ReadOperand, Reading, At
  <2>11. ASSUME Close PROVE Kept
    <3>1. CASE Croak
      <4>1. Chains(top.open)
        BY <2>11, <3>1 DEF Close, Croak, At
      <4> QED
        BY <2>11, <3>1, <4>1, CroakIsStuck DEF Close, At, Stuck, Kept
    <3>2. CASE ~Croak
      BY <2>1, <2>2, <2>11, <3>2, CloseNears DEF Close, At
    <3> QED
      BY <3>1, <3>2
  <2>12. ASSUME Ended \/ UNCHANGED vars PROVE Kept
    BY <2>12, StillNears, StillStuck DEF Ended, vars, CompleteInv, Kept
  <2> QED
    BY <2>3, <2>4, <2>5, <2>6, <2>7, <2>8, <2>9, <2>10, <2>11, <2>12 DEF Next
<1>3. CompleteInv /\ [Next]_vars /\ PrattInv' => CompleteInv'
  BY <1>2 DEF CompleteInv
<1> QED
  BY <1>1, <1>3, PrattInvariance, PTL DEF Spec

LEMMA ExpressionsAre ==
  ASSUME NEW n, NEW e
  PROVE  n \in 1..Len(text) => (e \in Expressions[n] <=> Whole(text, n, e))
BY DEF Expressions, Whole, IsReading

LEMMA TookSome ==
  ASSUME PrattInv, outcome = "done"
  PROVE  pos \in 1..Len(text)
<1>1. TopOK(text, top, pos) /\ top.at = "loop" /\ IsLevel(top) /\ Len(text) \in Nat
  BY Here DEF PrattInv
<1>2. PICK r : Holds(text, top, pos, r)
  BY <1>1 DEF TopOK, HoldsLeft
<1> QED
  BY <1>1, <1>2, OfHolds

LEMMA DoneIsAll ==
  ASSUME CompleteInv, outcome = "done", NEW n, NEW e, Whole(text, n, e), pos <= n
  PROVE  pos = n /\ e.tree = top.left
<1>1. /\ Len(levels) = 1 /\ top.at = "loop" /\ Leaves(0, top.left.op, next, second)
      /\ top = levels[1] /\ PrattInv /\ top.minBp = 0
  BY Here DEF PrattInv, CompleteInv, StackOK
<1>2. PICK f : Nears(text, levels, pos, n, e, f)
  BY DEF CompleteInv, NearsAll
<1>3. Aim(text, top, f[1], n, e) /\ TopNears(text, top, pos, f[1]) /\ f[1].to = n /\ f[1].reading = e
  <2>1. 1 \in 1..Len(levels)
    BY <1>1
  <2> QED
    BY <1>1, <1>2, <2>1 DEF Nears
<1>4. PICK r : HoldsLeft(text, top, pos, r) /\ pos = n /\ r = e
  BY <1>1, <1>3, EndsAtAim
<1> QED
  BY <1>4 DEF HoldsLeft

\* The group of an infix tree is on its left edge.
LEMMA InfixIsOnEdge ==
  ASSUME PrattInv, NEW r, Holds(text, top, pos, r), r.tree.kind = "infix"
  PROVE  /\ r.tree.group \in DOMAIN infix
         /\ infix[r.tree.group].bp >= top.minBp
         /\ r.tree.op \in {text[i] : i \in DOMAIN text}
<1>1. IsRooted(text, r)
  BY Here, OfHolds, AllAreRooted
<1>2. PICK o \in r.lefts : o.kind = "infix" /\ o.group = r.tree.group
  BY <1>1 DEF IsRooted
<1>3. Takes(top.minBp, o.left, o.op, o.behind, "infix", r.tree.group)
  BY <1>2 DEF Holds, Bears
<1>4. r.tree.group \in DOMAIN infix /\ infix[r.tree.group].bp >= top.minBp
  BY <1>3 DEF Takes, IsFirst, Infixes
<1> QED
  BY <1>1, <1>4 DEF IsRooted

LEMMA StuckIsChain ==
  ASSUME ChainsAreTheirs, CompleteInv, outcome = "croaked", NEW n, NEW e, Whole(text, n, e), pos <= n
  PROVE  pos = n /\ EndsInChain(e)
<1>1. /\ PrattInv /\ Stuck /\ top = levels[1] /\ pos \in Nat /\ IsLevel(top) /\ Len(levels) \in Nat \ {0}
      /\ Len(text) \in Nat /\ DOMAIN text = 1..Len(text)
      /\ next = Word(text, pos + 1) /\ second = Word(text, pos + 2) /\ n \in Nat
  BY Here DEF CompleteInv, Whole, IsReading
<1>2. PICK f : Nears(text, levels, pos, n, e, f)
  BY DEF CompleteInv, NearsAll
<1> DEFINE a == f[1]
<1>3. Aim(text, top, a, n, e) /\ TopNears(text, top, pos, a)
  <2>1. 1 \in 1..Len(levels)
    BY <1>1
  <2> QED
    BY <1>1, <1>2, <2>1 DEF Nears
<1> HIDE DEF a
<1>4. CASE top.at = "operand" /\ prefixGroup = 0 /\ next \notin atom
  BY <1>1, <1>3, <1>4, AtOperand
<1>5. CASE top.at = "tail"
  <2>1. PICK r : HoldsOpen(text, top, pos, r) /\ Grows(text, pos - top.start, r, a.to - top.start, a.reading)
    BY <1>3, <1>5 DEF TopNears
  <2>2. Holds(text, top, pos, r) /\ r.tree = top.open /\ r.reads = top.reads
    BY <2>1 DEF HoldsOpen
  <2>3. CASE top.reads # <<>>
    <3>1. Head(top.reads).token # End /\ next # Head(top.reads).token
      BY <1>1, <1>5, <2>3 DEF Stuck
    <3> QED
      BY <1>1, <1>3, <2>1, <2>2, <2>3, <3>1, ReadsOnward
  <2>4. CASE top.reads = <<>>
    <3> DEFINE g == top.open.group
    <3>1. /\ top.open.kind = "infix" /\ infix[g].assoc = "nonassoc" /\ Fits(infix[g], top.open.op, next, second)
      BY <1>1, <1>5, <2>4 DEF Stuck, Chains, Applies, Accepts, Fits
    <3>2. /\ g \in DOMAIN infix /\ infix[g].bp >= top.minBp /\ top.open.op \in {text[i] : i \in DOMAIN text}
      BY <1>1, <2>2, <3>1, InfixIsOnEdge
    <3> HIDE DEF g
    <3>3. infix[g].bp \in Int /\ top.minBp \in Int /\ next # End
      <4>1. infix[g] \in PrattGroup
        BY <3>2, TableIs, Zenon
      <4> QED
        BY <1>1, <3>1, <4>1, GroupIs DEF Fits, End, IsLevel
    <3>4. /\ \A h \in DOMAIN postfix : ~Fits(postfix[h], top.open.op, next, second)
          /\ IsFirst(g, Infixes(top.open.op, next, second))
      <4> DEFINE tokens == UNION {{words[i] : i \in DOMAIN words} : words \in Texts}
      <4>1. \A i \in DOMAIN text : text[i] \in tokens
        BY <1>1 DEF PrattInv
      <4>2. top.open.op \in tokens
        BY <3>2, <4>1
      <4>3. next \in tokens
        BY <1>1, <3>3, <4>1 DEF Word
      <4>4. second \in tokens \cup {End}
        BY <1>1, <4>1 DEF Word
      <4>5. \A i \in DOMAIN infix, left, op \in tokens, behind \in tokens \cup {End} :
              infix[i].assoc = "nonassoc" /\ Fits(infix[i], left, op, behind) =>
                /\ \A h \in DOMAIN postfix : ~Fits(postfix[h], left, op, behind)
                /\ IsFirst(i, Infixes(left, op, behind))
        BY Zenon DEF ChainsAreTheirs
      <4> HIDE DEF tokens
      <4> QED
        BY <3>1, <3>2, <4>2, <4>3, <4>4, <4>5, Zenon
    <3>5. CASE pos = a.to /\ r = a.reading
      <4>1. [bp |-> top.minBp, tree |-> top.open] \in Edges(a.reading, top.minBp)
        BY <2>2, <3>5 DEF Edges
      <4>2. ~Leaves(top.minBp, top.open.op, next, second)
        <5>1. g \in Infixes(top.open.op, next, second)
          BY <3>4 DEF IsFirst
        <5>2. ~(infix[g].bp < top.minBp)
          BY <3>2, <3>3
        <5> QED
          BY <3>4, <5>1, <5>2, Zenon DEF Leaves
      <4>3. ~(a.to < n) /\ Edges(a.reading, top.minBp) \subseteq Edges(e, 0)
        BY <1>1, <1>3, <3>5, <4>1, <4>2 DEF Aim, Ends
      <4>4. pos = n
        BY <1>1, <3>5, <4>3
      <4>5. IsChain(top.open)
        BY <3>1 DEF IsChain, g
      <4>6. top.open = e.tree \/ \E edge \in e.rights : edge.tree = top.open
        BY <4>1, <4>3 DEF Edges
      <4> QED
        BY <4>4, <4>5, <4>6 DEF EndsInChain
    <3>6. CASE \E kind, h :
                 /\ kind \in {"postfix", "infix"}
                 /\ MayHave(r, next, second, kind, h)
                 /\ Takes(top.minBp, r.tree.op, next, second, kind, h)
      <4>1. PICK kind, h :
              /\ kind \in {"postfix", "infix"}
              /\ MayHave(r, next, second, kind, h)
              /\ Takes(top.minBp, r.tree.op, next, second, kind, h)
        BY <3>6
      <4>2. kind = "postfix" \/ kind = "infix"
        BY <4>1
      <4>3. CASE kind = "postfix"
        <5>1. h \in Postfixes(top.minBp, top.open.op, next, second)
          BY <2>2, <4>1, <4>3 DEF Takes, IsFirst
        <5> QED
          BY <3>4, <5>1 DEF Postfixes
      <4>4. CASE kind = "infix"
        <5>1. IsFirst(h, Infixes(top.open.op, next, second))
          BY <2>2, <4>1, <4>4 DEF Takes
        <5>2. Infixes(top.open.op, next, second) \subseteq Nat
          BY TableIs DEF Infixes
        <5>3. h = g
          BY <3>4, <5>1, <5>2 DEF IsFirst
        <5> QED
          BY <2>2, <3>1, <4>1, <4>4, <5>3 DEF MayHave, g
      <4> QED
        BY <4>2, <4>3, <4>4
    <3> QED
      BY <1>1, <1>3, <2>1, <2>2, <2>4, <3>5, <3>6, EndsOrGoesOn
  <2> QED
    BY <2>3, <2>4
<1> QED
  BY <1>1, <1>4, <1>5 DEF Stuck

\* Where pratt returns an expression, the tokens that it took have no other
\* reading: it depends on the table alone, not on the order in which the parser
\* tries the groups.
THEOREM NoReadingIsAnother ==
  ASSUME OperandsStop
  PROVE  Spec => []NoOtherReading
<1>1. CompleteInv => NoOtherReading
  <2> SUFFICES ASSUME CompleteInv, outcome = "done", NEW e \in Expressions[pos] PROVE e.tree = top.left
    BY DEF NoOtherReading
  <2>1. pos \in 1..Len(text)
    BY TookSome DEF CompleteInv
  <2>2. pos <= pos
    BY <2>1
  <2> QED
    BY <2>1, <2>2, ExpressionsAre, DoneIsAll
<1> QED
  BY <1>1, CompleteInvariance, PTL

\* Where pratt stops, in an answer or in a croak, no reading goes on: no text that
\* has a reading is refused or read in part, whatever the guards and the order of
\* the groups.
THEOREM NothingIsLeft ==
  ASSUME OperandsStop, ChainsAreTheirs
  PROVE  Spec => []ReadsOn
<1>1. CompleteInv => ReadsOn
  <2> SUFFICES ASSUME CompleteInv, outcome # "reading",
                      NEW n \in DOMAIN Expressions, n > pos, NEW e \in Expressions[n]
               PROVE  FALSE
    BY Zenon DEF ReadsOn
  <2>1. n \in 1..Len(text)
    BY DEF Expressions
  <2>2. n \in Nat /\ pos \in Nat
    BY <2>1, Here DEF CompleteInv
  <2>3. Whole(text, n, e)
    BY <2>1, ExpressionsAre
  <2>4. pos <= n /\ pos # n
    BY <2>2
  <2> QED
    BY <2>3, <2>4, DoneIsAll, StuckIsChain DEF CompleteInv
<1> QED
  BY <1>1, CompleteInvariance, PTL

\* An expression that could end where pratt croaks ends in a chain of a nonassoc
\* group: nothing else is refused that could be read.
THEOREM ChainsAreRefused ==
  ASSUME OperandsStop, ChainsAreTheirs
  PROVE  Spec => []OnlyChainsAreRefused
<1>1. CompleteInv => OnlyChainsAreRefused
  <2> SUFFICES ASSUME CompleteInv, outcome = "croaked", pos > 0, NEW e \in Expressions[pos]
               PROVE  EndsInChain(e)
    BY DEF OnlyChainsAreRefused
  <2>1. pos \in 1..Len(text) /\ pos <= pos
    BY Here DEF CompleteInv
  <2>2. Whole(text, pos, e)
    BY <2>1, ExpressionsAre
  <2> QED
    BY <2>1, <2>2, StuckIsChain
<1> QED
  BY <1>1, CompleteInvariance, PTL
================================================================================
