------------------------ MODULE GraphNotesText_proofs ------------------------
(***************************************************************************)
(* More proofs about GraphNotes, for any runs, devices, names, words and   *)
(* edits: what the runs leave of the words that people wrote, and that the *)
(* notes never hold a second or a broken block.                            *)
(***************************************************************************)
EXTENDS GraphNotes_proofs, FiniteSetTheorems, SequenceTheorems

-----------------------------------------------------------------------------
(* Words: its recursion equations, and what it does to joined sequences.   *)

\* Induction over the naturals, for a set rather than for a predicate.
LEMMA SetInduction ==
  ASSUME NEW S, 0 \in S, \A n \in Nat : n \in S => n + 1 \in S
  PROVE  Nat \subseteq S
<1> DEFINE Less == {ss \in Nat \X Nat : ss[1] < ss[2]}
           Out == Nat \ S
<1>1. IsWellFoundedOn(Less, Nat)
  BY NatLessThanWellFounded DEF OpToRel
<1> SUFFICES ASSUME Out # {} PROVE FALSE
  OBVIOUS
<1>2. PICK n \in Out : \A k \in Out : <<k, n>> \notin Less
  <2> HIDE DEF Less
  <2> QED
    BY <1>1, WFMin
<1>3. n \in Nat /\ n \notin S /\ n - 1 \in Nat
  BY <1>2
<1>4. n - 1 \in S
  <2>1. <<n - 1, n>> \in Less
    BY <1>3
  <2> HIDE DEF Less
  <2>2. n - 1 \notin Out
    BY <1>2, <2>1
  <2>3. QED
    BY <1>3, <2>2
<1>5. QED
  BY <1>3, <1>4

\* The words among the first tokens of s, for every number of them.
Kept(s) ==
  LET kept[i \in 0..Len(s)] ==
        IF i = 0 THEN <<>>
        ELSE IF s[i] \in Word THEN Append(kept[i - 1], s[i]) ELSE kept[i - 1]
  IN  kept

\* The next token goes on the words so far, if it is a word.
With(k, t) == IF t \in Word THEN Append(k, t) ELSE k

LEMMA KeptDef ==
  ASSUME NEW s, Len(s) \in Nat
  PROVE  Kept(s) = [i \in 0..Len(s) |-> IF i = 0 THEN <<>> ELSE With(Kept(s)[i - 1], s[i])]
<1> DEFINE Is(f, n) == f = [i \in 0..n |-> IF i = 0 THEN <<>> ELSE With(f[i - 1], s[i])]
           S == {n \in Nat : \E f : Is(f, n)}
<1>1. 0 \in S
  <2> DEFINE f == [i \in 0..0 |-> <<>>]
  <2>1. Is(f, 0)
    OBVIOUS
  <2>2. QED
    BY <2>1
<1>2. ASSUME NEW n \in Nat, n \in S PROVE n + 1 \in S
  <2>1. PICK f : Is(f, n)
    BY <1>2
  <2> DEFINE g == [i \in 0..n + 1 |-> IF i = n + 1 THEN With(f[n], s[n + 1]) ELSE f[i]]
  <2>2. ASSUME NEW i \in 0..n + 1
        PROVE  g[i] = IF i = 0 THEN <<>> ELSE With(g[i - 1], s[i])
    <3>1. CASE i = n + 1
      <4>1. g[i] = With(f[n], s[i]) /\ i # 0 /\ i - 1 = n /\ n \in 0..n + 1 /\ n # n + 1
        BY <3>1
      <4>2. QED
        BY <4>1
    <3>2. CASE i \in 0..n
      <4>1. g[i] = f[i] /\ f[i] = IF i = 0 THEN <<>> ELSE With(f[i - 1], s[i])
        BY <2>1, <3>2
      <4>2. i # 0 => g[i - 1] = f[i - 1]
        BY <3>2
      <4>3. QED
        BY <4>1, <4>2
    <3>3. QED
      BY <3>1, <3>2
  <2>3. Is(g, n + 1)
    BY <2>2
  <2> HIDE DEF g, Is
  <2>4. QED
    BY <2>3
<1> HIDE DEF S
<1>3. Len(s) \in S
  BY <1>1, <1>2, SetInduction
<1>4. PICK f : Is(f, Len(s))
  BY <1>3 DEF S
<1> DEFINE Eq(g) == g = [i \in 0..Len(s) |->
                       IF i = 0 THEN <<>>
                       ELSE IF s[i] \in Word THEN Append(g[i - 1], s[i]) ELSE g[i - 1]]
<1>5. Eq(f)
  BY <1>4 DEF With
<1>6. Kept(s) = CHOOSE g : Eq(g)
  BY DEF Kept
<1> HIDE DEF Eq
<1>7. Eq(Kept(s))
  BY <1>5, <1>6
<1>8. QED
  BY <1>7 DEF Eq, With

LEMMA WordsKept ==
  ASSUME NEW s \in Seq(Token)
  PROVE  Words(s) = Kept(s)[Len(s)]
BY DEF Words, Kept

\* The equations, one token at a time.
LEMMA KeptStep ==
  ASSUME NEW s \in Seq(Token)
  PROVE  /\ Kept(s)[0] = <<>>
         /\ \A n \in Nat : n + 1 <= Len(s) => Kept(s)[n + 1] = With(Kept(s)[n], s[n + 1])
<1>1. Len(s) \in Nat
  OBVIOUS
<1>2. Kept(s) = [i \in 0..Len(s) |-> IF i = 0 THEN <<>> ELSE With(Kept(s)[i - 1], s[i])]
  BY <1>1, KeptDef
<1> DEFINE k == Kept(s)
<1> HIDE DEF k
<1>3. k = [i \in 0..Len(s) |-> IF i = 0 THEN <<>> ELSE With(k[i - 1], s[i])]
  BY <1>2 DEF k
<1>4. k[0] = <<>>
  BY <1>1, <1>3
<1>5. ASSUME NEW n \in Nat, n + 1 <= Len(s) PROVE k[n + 1] = With(k[n], s[n + 1])
  <2>1. n + 1 \in 0..Len(s) /\ n + 1 # 0 /\ (n + 1) - 1 = n
    BY <1>1, <1>5
  <2>2. k[n + 1] = IF n + 1 = 0 THEN <<>> ELSE With(k[(n + 1) - 1], s[n + 1])
    BY <1>3, <2>1
  <2>3. QED
    BY <2>1, <2>2
<1>6. QED
  BY <1>4, <1>5 DEF k

LEMMA WordTokens == \A s \in Seq(Word) : s \in Seq(Token)
BY DEF Token

LEMMA WithType ==
  ASSUME NEW k \in Seq(Word), NEW t
  PROVE  With(k, t) \in Seq(Word)
BY DEF With

LEMMA KeptType ==
  ASSUME NEW s \in Seq(Token)
  PROVE  \A n \in 0..Len(s) : Kept(s)[n] \in Seq(Word)
<1> DEFINE S == {n \in Nat : n <= Len(s) => Kept(s)[n] \in Seq(Word)}
<1>1. 0 \in S
  <2>1. Kept(s)[0] = <<>> /\ <<>> \in Seq(Word)
    BY KeptStep
  <2>2. Kept(s)[0] \in Seq(Word)
    BY <2>1
  <2>3. QED
    BY <2>2
<1>2. ASSUME NEW n \in Nat, n \in S PROVE n + 1 \in S
  <2>1. ASSUME n + 1 <= Len(s) PROVE Kept(s)[n + 1] \in Seq(Word)
    <3>1. n <= Len(s)
      BY <2>1
    <3>2. Kept(s)[n] \in Seq(Word)
      BY <1>2, <3>1
    <3>3. Kept(s)[n + 1] = With(Kept(s)[n], s[n + 1])
      BY <2>1, KeptStep
    <3>4. QED
      BY <3>2, <3>3, WithType
  <2>2. QED
    BY <2>1
<1> HIDE DEF S
<1>3. Nat \subseteq S
  BY <1>1, <1>2, SetInduction
<1>4. QED
  BY <1>3 DEF S

LEMMA WordsType ==
  ASSUME NEW s \in Seq(Token)
  PROVE  Words(s) \in Seq(Word)
<1>1. Len(s) \in 0..Len(s)
  OBVIOUS
<1>2. QED
  BY <1>1, KeptType, WordsKept

LEMMA WithConcat ==
  ASSUME NEW k \in Seq(Word), NEW l \in Seq(Word), NEW t
  PROVE  With(k \o l, t) = k \o With(l, t)
<1>1. CASE t \in Word
  <2>1. Append(k \o l, t) = k \o Append(l, t)
    BY <1>1
  <2>2. QED
    BY <1>1, <2>1 DEF With
<1>2. CASE t \notin Word
  BY <1>2 DEF With
<1>3. QED
  BY <1>1, <1>2

\* The words of two sequences that are joined are their words, joined.
LEMMA WordsConcat ==
  ASSUME NEW s \in Seq(Token), NEW t \in Seq(Token)
  PROVE  Words(s \o t) = Words(s) \o Words(t)
<1> DEFINE u == s \o t
<1>1. /\ u \in Seq(Token) /\ Len(u) = Len(s) + Len(t)
      /\ \A i \in 1..Len(s) + Len(t) : u[i] = IF i <= Len(s) THEN s[i] ELSE t[i - Len(s)]
  BY Concat
<1> HIDE DEF u
<1> DEFINE S == {n \in Nat : n <= Len(s) => Kept(u)[n] = Kept(s)[n]}
           T == {n \in Nat : n <= Len(t) => Kept(u)[Len(s) + n] = Words(s) \o Kept(t)[n]}
<1>2. Len(s) \in Nat /\ Len(t) \in Nat
  OBVIOUS
<1>3. 0 \in S
  <2>1. Kept(u)[0] = <<>> /\ Kept(s)[0] = <<>>
    BY <1>1, KeptStep
  <2>2. QED
    BY <2>1
<1>4. ASSUME NEW n \in Nat, n \in S PROVE n + 1 \in S
  <2>1. ASSUME n + 1 <= Len(s) PROVE Kept(u)[n + 1] = Kept(s)[n + 1]
    <3>1. n + 1 <= Len(u) /\ u[n + 1] = s[n + 1] /\ n <= Len(s)
      BY <1>1, <1>2, <2>1
    <3>2. Kept(u)[n] = Kept(s)[n]
      BY <1>4, <3>1
    <3>3. Kept(u)[n + 1] = With(Kept(u)[n], u[n + 1])
      BY <1>1, <3>1, KeptStep
    <3>4. Kept(s)[n + 1] = With(Kept(s)[n], s[n + 1])
      BY <2>1, KeptStep
    <3>5. QED
      BY <3>1, <3>2, <3>3, <3>4
  <2>2. QED
    BY <2>1
<1> HIDE DEF S
<1>5. Nat \subseteq S
  BY <1>3, <1>4, SetInduction
<1>6. Kept(u)[Len(s)] = Words(s)
  BY <1>2, <1>5, WordsKept DEF S
<1>7. 0 \in T
  <2>1. Kept(t)[0] = <<>> /\ Words(s) \in Seq(Word) /\ Len(s) + 0 = Len(s)
    BY <1>2, KeptStep, WordsType
  <2>2. Words(s) \o <<>> = Words(s)
    BY <2>1
  <2>3. QED
    BY <1>6, <2>1, <2>2
<1>8. ASSUME NEW n \in Nat, n \in T PROVE n + 1 \in T
  <2>1. ASSUME n + 1 <= Len(t)
        PROVE  Kept(u)[Len(s) + (n + 1)] = Words(s) \o Kept(t)[n + 1]
    <3> DEFINE k == Len(s) + n
    <3>1. /\ k \in Nat /\ k + 1 = Len(s) + (n + 1) /\ k + 1 <= Len(u) /\ n <= Len(t)
          /\ u[k + 1] = t[n + 1]
      <4>1. k \in Nat /\ k + 1 = Len(s) + (n + 1) /\ k + 1 <= Len(u) /\ n <= Len(t)
        BY <1>1, <1>2, <2>1
      <4>2. k + 1 \in 1..Len(s) + Len(t) /\ ~(k + 1 <= Len(s)) /\ (k + 1) - Len(s) = n + 1
        BY <1>1, <1>2, <4>1
      <4>3. QED
        BY <1>1, <4>1, <4>2
    <3>2. Kept(u)[k] = Words(s) \o Kept(t)[n]
      BY <1>8, <3>1
    <3> HIDE DEF k
    <3>3. Kept(u)[k + 1] = With(Kept(u)[k], u[k + 1])
      BY <1>1, <3>1, KeptStep
    <3>4. Kept(t)[n + 1] = With(Kept(t)[n], t[n + 1])
      BY <2>1, KeptStep
    <3>5. Kept(t)[n] \in Seq(Word) /\ Words(s) \in Seq(Word)
      <4>1. n \in 0..Len(t)
        BY <3>1
      <4>2. QED
        BY <4>1, KeptType, WordsType
    <3>6. Kept(u)[k + 1] = Words(s) \o Kept(t)[n + 1]
      <4> DEFINE w == Words(s)
                 a == Kept(t)[n]
                 x == t[n + 1]
      <4>1. Kept(u)[k + 1] = With(w \o a, x)
        BY <3>1, <3>2, <3>3
      <4>2. w \in Seq(Word) /\ a \in Seq(Word)
        BY <3>5
      <4>3. Kept(t)[n + 1] = With(a, x)
        BY <3>4
      <4> HIDE DEF w, a, x
      <4>4. With(w \o a, x) = w \o With(a, x)
        BY <4>2, WithConcat
      <4>5. QED
        BY <4>1, <4>3, <4>4 DEF w
    <3>7. QED
      BY <3>1, <3>6
  <2>2. QED
    BY <2>1
<1> HIDE DEF T
<1>9. Nat \subseteq T
  BY <1>7, <1>8, SetInduction
<1>10. Kept(u)[Len(s) + Len(t)] = Words(s) \o Kept(t)[Len(t)]
  BY <1>2, <1>9 DEF T
<1>11. Words(u) = Words(s) \o Words(t)
  BY <1>1, <1>10, WordsKept
<1>12. QED
  BY <1>11 DEF u

\* Words alone are left as they are.
LEMMA WordsOfWords ==
  ASSUME NEW p \in Seq(Word)
  PROVE  Words(p) = p
<1> DEFINE S == {n \in Nat : n <= Len(p) => Kept(p)[n] = SubSeq(p, 1, n)}
<1>1. p \in Seq(Token)
  BY WordTokens
<1>2. 0 \in S
  <2>1. Kept(p)[0] = <<>> /\ SubSeq(p, 1, 0) = <<>>
    BY <1>1, KeptStep
  <2>2. QED
    BY <2>1
<1>3. ASSUME NEW n \in Nat, n \in S PROVE n + 1 \in S
  <2>1. ASSUME n + 1 <= Len(p) PROVE Kept(p)[n + 1] = SubSeq(p, 1, n + 1)
    <3>1. Kept(p)[n + 1] = With(Kept(p)[n], p[n + 1])
      BY <1>1, <2>1, KeptStep
    <3>2. n <= Len(p) /\ p[n + 1] \in Word
      BY <2>1
    <3>3. Kept(p)[n] = SubSeq(p, 1, n)
      BY <1>3, <3>2
    <3>4. Append(SubSeq(p, 1, n), p[n + 1]) = SubSeq(p, 1, n + 1)
      BY <2>1
    <3>5. QED
      BY <3>1, <3>2, <3>3, <3>4 DEF With
  <2>2. QED
    BY <2>1
<1> HIDE DEF S
<1>4. Nat \subseteq S
  BY <1>2, <1>3, SetInduction
<1>5. Kept(p)[Len(p)] = SubSeq(p, 1, Len(p))
  BY <1>4 DEF S
<1>6. SubSeq(p, 1, Len(p)) = p
  OBVIOUS
<1>7. QED
  BY <1>1, <1>5, <1>6, WordsKept

\* A block has no words.
LEMMA WordsOfBlock ==
  ASSUME NEW d \in Device
  PROVE  Block(d) \in Seq(Token) /\ Words(Block(d)) = <<>>
<1> DEFINE b == Block(d)
<1>1. b \in Seq(Token) /\ Len(b) = 3 /\ b[1] = BEGIN /\ b[2] = d /\ b[3] = END
  BY DEF Block, Token
<1>2. BEGIN \notin Word /\ d \notin Word /\ END \notin Word
  BY TokenAssumption DEF BEGIN, END
<1> HIDE DEF b
<1>3. Kept(b)[0] = <<>>
  BY <1>1, KeptStep
<1>4. /\ 0 \in Nat /\ 1 \in Nat /\ 2 \in Nat /\ 0 + 1 = 1 /\ 1 + 1 = 2 /\ 2 + 1 = 3
      /\ 1 <= Len(b) /\ 2 <= Len(b) /\ 3 <= Len(b)
  BY <1>1
<1>5. Kept(b)[1] = With(Kept(b)[0], b[1])
  BY <1>1, <1>4, KeptStep
<1>6. Kept(b)[2] = With(Kept(b)[1], b[2])
  BY <1>1, <1>4, KeptStep
<1>7. Kept(b)[3] = With(Kept(b)[2], b[3])
  BY <1>1, <1>4, KeptStep
<1>8. Words(b) = <<>>
  BY <1>1, <1>2, <1>3, <1>5, <1>6, <1>7, WordsKept DEF With
<1>9. QED
  BY <1>1, <1>8 DEF b

-----------------------------------------------------------------------------
(* Notes with at most one block, whole, in between words.                  *)

\* What follows the first b elements of s.
LEMMA TailOf ==
  ASSUME NEW S, NEW s \in Seq(S), NEW b \in 0..Len(s)
  PROVE  LET c == SubSeq(s, b + 1, Len(s)) IN
         c \in Seq(S) /\ Len(c) = Len(s) - b /\ \A i \in 1..Len(s) - b : c[i] = s[b + i]
OBVIOUS

\* Where the tokens of p, of the block and of q are.
LaidOut(s, p, d, q) ==
  /\ s \in Seq(Token) /\ Len(s) = Len(p) + 3 + Len(q)
  /\ \A i \in 1..Len(s) : s[i] = BEGIN <=> i = Len(p) + 1
  /\ \A i \in 1..Len(s) : s[i] = END <=> i = Len(p) + 3
  /\ SubSeq(s, 1, Len(p)) = p
  /\ SubSeq(s, Len(p) + 1, Len(p) + 3) = Block(d)
  /\ SubSeq(s, Len(p) + 4, Len(s)) = q

LEMMA Layout ==
  ASSUME NEW p \in Seq(Word), NEW q \in Seq(Word), NEW d \in Device,
         NEW s, s = p \o Block(d) \o q
  PROVE  LaidOut(s, p, d, q)
<1> DEFINE b == Block(d)
           f == p \o b
           n == Len(p)
           k == Len(q)
<1>1. b \in Seq(Token) /\ Len(b) = 3 /\ b[1] = BEGIN /\ b[2] = d /\ b[3] = END
  BY DEF Block, Token
<1>2. /\ BEGIN # END /\ d \notin {BEGIN, END}
      /\ \A i \in 1..n : p[i] \notin {BEGIN, END}
      /\ \A j \in 1..k : q[j] \notin {BEGIN, END}
  BY TokenAssumption DEF BEGIN, END
<1>3. p \in Seq(Token) /\ q \in Seq(Token) /\ n \in Nat /\ k \in Nat
  BY WordTokens
<1> HIDE DEF b
<1>4. f \in Seq(Token) /\ Len(f) = n + 3
      /\ \A i \in 1..n + 3 : f[i] = IF i <= n THEN p[i] ELSE b[i - n]
  <2>1. f \in Seq(Token) /\ Len(f) = n + Len(b)
        /\ \A i \in 1..n + Len(b) : f[i] = IF i <= n THEN p[i] ELSE b[i - n]
    BY <1>1, <1>3, Concat
  <2>2. QED
    BY <1>1, <2>1
<1>5. s = f \o q
  BY DEF b
<1> HIDE DEF f
<1>6. s \in Seq(Token) /\ Len(s) = n + 3 + k
      /\ \A i \in 1..n + 3 + k : s[i] = IF i <= n + 3 THEN f[i] ELSE q[i - (n + 3)]
  <2> DEFINE g == f \o q
  <2>1. g \in Seq(Token) /\ Len(g) = Len(f) + k
        /\ \A i \in 1..Len(f) + k : g[i] = IF i <= Len(f) THEN f[i] ELSE q[i - Len(f)]
    BY <1>3, <1>4, Concat
  <2>2. s = g
    BY <1>5
  <2> HIDE DEF g, n, k
  <2>3. Len(f) = n + 3
    BY <1>4
  <2>4. QED
    BY <2>1, <2>2, <2>3
<1> HIDE DEF n, k
<1>7. /\ \A i \in 1..n : s[i] = p[i]
      /\ s[n + 1] = BEGIN /\ s[n + 2] = d /\ s[n + 3] = END
      /\ \A j \in 1..k : s[n + 3 + j] = q[j]
  <2>1. ASSUME NEW i \in 1..n PROVE s[i] = p[i]
    <3>1. i \in 1..n + 3 + k /\ i <= n + 3 /\ i \in 1..n + 3 /\ i <= n
      BY <1>3
    <3>2. QED
      BY <1>4, <1>6, <3>1
  <2>2. ASSUME NEW i \in 1..3 PROVE s[n + i] = b[i]
    <3>1. n + i \in 1..n + 3 + k /\ n + i <= n + 3 /\ n + i \in 1..n + 3 /\ ~(n + i <= n)
          /\ (n + i) - n = i
      BY <1>3
    <3>2. QED
      BY <1>4, <1>6, <3>1
  <2>3. ASSUME NEW j \in 1..k PROVE s[n + 3 + j] = q[j]
    <3>1. n + 3 + j \in 1..n + 3 + k /\ ~(n + 3 + j <= n + 3) /\ (n + 3 + j) - (n + 3) = j
      BY <1>3
    <3>2. QED
      BY <1>6, <3>1
  <2>4. s[n + 1] = b[1] /\ s[n + 2] = b[2] /\ s[n + 3] = b[3]
    <3>1. 1 \in 1..3 /\ 2 \in 1..3 /\ 3 \in 1..3
      OBVIOUS
    <3>2. QED
      BY <2>2, <3>1
  <2>5. QED
    BY <1>1, <2>1, <2>3, <2>4
<1>8. ASSUME NEW i \in 1..Len(s)
      PROVE  (s[i] = BEGIN <=> i = n + 1) /\ (s[i] = END <=> i = n + 3)
  <2>1. CASE i \in 1..n
    <3>1. s[i] \notin {BEGIN, END}
      BY <1>2, <1>7, <2>1 DEF n
    <3>2. QED
      BY <1>3, <2>1, <3>1
  <2>2. CASE i \in {n + 1, n + 2, n + 3}
    BY <1>2, <1>3, <1>7, <2>2
  <2>3. CASE i > n + 3
    <3> DEFINE j == i - (n + 3)
    <3>1. j \in 1..k /\ i = n + 3 + j
      BY <1>3, <1>6, <2>3
    <3> HIDE DEF j
    <3>2. s[i] = q[j]
      BY <1>7, <3>1
    <3>3. q[j] \notin {BEGIN, END}
      BY <1>2, <3>1
    <3>4. i # n + 1 /\ i # n + 3
      BY <1>3, <1>6, <2>3
    <3>5. QED
      BY <3>2, <3>3, <3>4
  <2>4. i \in 1..n \/ i \in {n + 1, n + 2, n + 3} \/ i > n + 3
    BY <1>3, <1>6
  <2>5. QED
    BY <2>1, <2>2, <2>3, <2>4
<1>9. SubSeq(s, 1, n) = p
  BY <1>3, <1>6, <1>7 DEF n
<1>10. SubSeq(s, n + 1, n + 3) = b
  <2> DEFINE c == SubSeq(s, n + 1, n + 3)
  <2>1. n + 1 \in 1..Len(s) /\ n + 3 \in 1..Len(s) /\ n + 1 <= n + 3
    BY <1>3, <1>6
  <2>2. c \in Seq(Token) /\ Len(c) = 3
    BY <1>3, <1>6, <2>1
  <2>3. c[1] = s[n + 1] /\ c[2] = s[n + 2] /\ c[3] = s[n + 3]
    <3>1. \A i \in 1..3 : c[i] = s[(n + 1) + i - 1]
      BY <1>3, <1>6, <2>1, SubSeqProperties
    <3>2. (n + 1) + 1 - 1 = n + 1 /\ (n + 1) + 2 - 1 = n + 2 /\ (n + 1) + 3 - 1 = n + 3
          /\ 1 \in 1..3 /\ 2 \in 1..3 /\ 3 \in 1..3
      BY <1>3
    <3> HIDE DEF c
    <3>3. QED
      BY <3>1, <3>2
  <2> HIDE DEF c
  <2>4. \A i \in 1..3 : c[i] = b[i]
    BY <1>1, <1>7, <2>3
  <2>5. c = b
    BY <1>1, <2>2, <2>4, SeqEqual
  <2>6. QED
    BY <2>5 DEF c
<1>11. SubSeq(s, n + 4, Len(s)) = q
  <2> DEFINE c == SubSeq(s, n + 4, Len(s))
  <2>1. c \in Seq(Token) /\ Len(c) = k /\ \A i \in 1..k : c[i] = s[n + 3 + i]
    <3> DEFINE a == n + 3
    <3>1. a \in 0..Len(s) /\ Len(s) - a = k
      BY <1>3, <1>6
    <3>2. c = SubSeq(s, a + 1, Len(s))
      <4>1. n + 4 = a + 1
        BY <1>3
      <4>2. QED
        BY <4>1
    <3> HIDE DEF a, c
    <3>3. c \in Seq(Token) /\ Len(c) = Len(s) - a /\ \A i \in 1..Len(s) - a : c[i] = s[a + i]
      BY <1>6, <3>1, <3>2, TailOf
    <3>4. QED
      BY <3>1, <3>3 DEF a
  <2> HIDE DEF c
  <2>2. \A i \in 1..k : c[i] = q[i]
    BY <1>7, <2>1
  <2>3. c = q
    BY <1>3, <2>1, <2>2, SeqEqual DEF k
  <2>4. QED
    BY <2>3 DEF c
<1>12. QED
  BY <1>6, <1>8, <1>9, <1>10, <1>11 DEF n, k, b, LaidOut

\* s is t, words alone, or t with one whole block somewhere in it.
Clean(s, t) ==
  \/ s \in Seq(Word) /\ t = s
  \/ \E p, q \in Seq(Word), d \in Device : s = p \o Block(d) \o q /\ t = p \o q

LEMMA CleanWords ==
  ASSUME NEW s, NEW t, Clean(s, t)
  PROVE  s \in Seq(Token) /\ t \in Seq(Word) /\ Words(s) = t
<1>1. CASE s \in Seq(Word) /\ t = s
  BY <1>1, WordTokens, WordsOfWords
<1>2. ASSUME NEW p \in Seq(Word), NEW q \in Seq(Word), NEW d \in Device,
             s = p \o Block(d) \o q, t = p \o q
      PROVE  s \in Seq(Token) /\ t \in Seq(Word) /\ Words(s) = t
  <2> DEFINE f == p \o Block(d)
  <2>1. p \in Seq(Token) /\ q \in Seq(Token) /\ Block(d) \in Seq(Token)
    BY WordTokens, WordsOfBlock
  <2>2. f \in Seq(Token)
    BY <2>1, Concat
  <2>3. s \in Seq(Token) /\ t \in Seq(Word)
    BY <1>2, <2>1, <2>2, Concat
  <2>4. Words(f) = Words(p) \o Words(Block(d))
    BY <2>1, WordsConcat
  <2>5. Words(p) = p /\ Words(q) = q /\ Words(Block(d)) = <<>>
    BY WordsOfWords, WordsOfBlock
  <2>6. p \o <<>> = p
    OBVIOUS
  <2>7. Words(f) = p
    BY <2>4, <2>5, <2>6
  <2> HIDE DEF f
  <2>8. Words(f \o q) = Words(f) \o Words(q)
    BY <2>1, <2>2, WordsConcat
  <2>9. s = f \o q
    BY <1>2 DEF f
  <2>10. QED
    BY <1>2, <2>3, <2>5, <2>7, <2>8, <2>9
<1>3. QED
  BY <1>1, <1>2 DEF Clean

LEMMA MinOne ==
  ASSUME NEW n \in Nat
  PROVE  Min({n}) = n
<1>1. {n} \subseteq Nat /\ {n} # {}
  OBVIOUS
<1>2. Min({n}) \in {n}
  BY <1>1, MinIn
<1>3. QED
  BY <1>2

\* Where there is no block the new one comes last ...
LEMMA UpsertWords ==
  ASSUME NEW s \in Seq(Word), NEW d \in Device
  PROVE  Upsert(s, d) = s \o Block(d) \o <<>>
<1>1. Begins(s) = {}
  <2>1. \A i \in 1..Len(s) : s[i] # BEGIN
    BY TokenAssumption DEF BEGIN
  <2>2. QED
    BY <2>1 DEF Begins
<1>2. Upsert(s, d) = s \o Block(d)
  BY <1>1 DEF Upsert
<1>3. (s \o Block(d)) \o <<>> = s \o Block(d)
  <2> DEFINE f == s \o Block(d)
  <2>1. f \in Seq(Token)
    BY WordTokens, WordsOfBlock, Concat
  <2> HIDE DEF f
  <2>2. f \o <<>> = f
    BY <2>1
  <2>3. QED
    BY <2>2 DEF f
<1>4. QED
  BY <1>2, <1>3

\* ... and where there is one it takes its place.
LEMMA UpsertBlock ==
  ASSUME NEW p \in Seq(Word), NEW q \in Seq(Word), NEW e \in Device, NEW d \in Device
  PROVE  Upsert(p \o Block(e) \o q, d) = p \o Block(d) \o q
<1> DEFINE s == p \o Block(e) \o q
           n == Len(p)
           k == Len(q)
<1>1. n \in Nat /\ k \in Nat
  OBVIOUS
<1>2. /\ Len(s) = n + 3 + k
      /\ \A i \in 1..Len(s) : s[i] = BEGIN <=> i = n + 1
      /\ \A i \in 1..Len(s) : s[i] = END <=> i = n + 3
      /\ SubSeq(s, 1, n) = p
      /\ SubSeq(s, n + 4, Len(s)) = q
  <2>1. LaidOut(s, p, e, q)
    BY Layout
  <2>2. QED
    BY <2>1 DEF LaidOut
<1> HIDE DEF s, n, k
<1>3. n + 1 \in 1..Len(s) /\ n + 3 \in 1..Len(s) /\ n + 3 \in n + 1..Len(s)
      /\ n + 1 \in Nat /\ n + 3 \in Nat /\ (n + 1) - 1 = n /\ (n + 3) + 1 = n + 4
  BY <1>1, <1>2
<1>4. Begins(s) = {n + 1}
  BY <1>2, <1>3 DEF Begins
<1>5. Min(Begins(s)) = n + 1
  BY <1>3, <1>4, MinOne
<1>6. {j \in n + 1..Len(s) : s[j] = END} = {n + 3}
  <2>1. \A j \in n + 1..Len(s) : j \in 1..Len(s)
    BY <1>1, <1>2
  <2>2. QED
    BY <1>2, <1>3, <2>1
<1>7. EndOf(s, n + 1) = n + 3
  BY <1>3, <1>6, MinOne DEF EndOf
<1>8. Upsert(s, d) = SubSeq(s, 1, n) \o Block(d) \o SubSeq(s, n + 4, Len(s))
  <2>1. Begins(s) # {}
    BY <1>4
  <2>2. Upsert(s, d) = SubSeq(s, 1, (n + 1) - 1) \o Block(d) \o SubSeq(s, (n + 3) + 1, Len(s))
    BY <1>5, <1>7, <2>1 DEF Upsert
  <2>3. QED
    BY <1>3, <2>2
<1>9. QED
  BY <1>2, <1>8 DEF s

\* A stamp leaves notes clean, and the words in them what they were.
LEMMA UpsertClean ==
  ASSUME NEW s, NEW t, Clean(s, t), NEW d \in Device
  PROVE  Clean(Upsert(s, d), t)
<1>1. CASE s \in Seq(Word) /\ t = s
  <2>1. <<>> \in Seq(Word) /\ s \o <<>> = s
    BY <1>1
  <2>2. Upsert(s, d) = s \o Block(d) \o <<>> /\ t = s \o <<>>
    BY <1>1, <2>1, UpsertWords
  <2>3. QED
    BY <1>1, <2>1, <2>2 DEF Clean
<1>2. ASSUME NEW p \in Seq(Word), NEW q \in Seq(Word), NEW e \in Device,
             s = p \o Block(e) \o q, t = p \o q
      PROVE  Clean(Upsert(s, d), t)
  <2>1. Upsert(s, d) = p \o Block(d) \o q
    BY <1>2, UpsertBlock
  <2>2. QED
    BY <1>2, <2>1 DEF Clean
<1>3. QED
  BY <1>1, <1>2 DEF Clean

\* Of two stamps the last stands alone.
LEMMA UpsertTwice ==
  ASSUME NEW s, NEW t, Clean(s, t), NEW d \in Device, NEW e \in Device
  PROVE  Upsert(Upsert(s, e), d) = Upsert(s, d)
<1>1. CASE s \in Seq(Word)
  <2>1. <<>> \in Seq(Word)
    OBVIOUS
  <2>2. Upsert(s, e) = s \o Block(e) \o <<>> /\ Upsert(s, d) = s \o Block(d) \o <<>>
    BY <1>1, UpsertWords
  <2>3. Upsert(s \o Block(e) \o <<>>, d) = s \o Block(d) \o <<>>
    BY <1>1, <2>1, UpsertBlock
  <2>4. QED
    BY <2>2, <2>3
<1>2. ASSUME NEW p \in Seq(Word), NEW q \in Seq(Word), NEW c \in Device,
             s = p \o Block(c) \o q
      PROVE  Upsert(Upsert(s, e), d) = Upsert(s, d)
  <2>1. Upsert(s, e) = p \o Block(e) \o q /\ Upsert(s, d) = p \o Block(d) \o q
    BY <1>2, UpsertBlock
  <2>2. Upsert(p \o Block(e) \o q, d) = p \o Block(d) \o q
    BY UpsertBlock
  <2>3. QED
    BY <2>1, <2>2
<1>3. QED
  BY <1>1, <1>2 DEF Clean

\* Tokens counted one by one.
LEMMA CountOne ==
  ASSUME NEW s \in Seq(Token), NEW t, NEW n \in 1..Len(s),
         \A i \in 1..Len(s) : s[i] = t <=> i = n
  PROVE  Count(s, t) = 1
<1>1. {i \in DOMAIN s : s[i] = t} = {n}
  OBVIOUS
<1>2. QED
  BY <1>1, FS_Singleton DEF Count

LEMMA CountNone ==
  ASSUME NEW s \in Seq(Token), NEW t
  PROVE  Count(s, t) = 0 <=> \A i \in 1..Len(s) : s[i] # t
<1> DEFINE S == {i \in DOMAIN s : s[i] = t}
<1>1. Len(s) \in Nat /\ DOMAIN s = 1..Len(s)
  OBVIOUS
<1>2. S \subseteq 1..Len(s) /\ IsFiniteSet(1..Len(s))
  BY <1>1, FS_Interval
<1>3. IsFiniteSet(S)
  BY <1>2, FS_Subset
<1>4. Cardinality(S) = 0 <=> S = {}
  BY <1>3, FS_EmptySet
<1>5. S = {} <=> \A i \in 1..Len(s) : s[i] # t
  BY <1>1
<1>6. QED
  BY <1>4, <1>5 DEF Count

\* Without its end marker a block is only half a block.
LEMMA HalfBlock ==
  ASSUME NEW p \in Seq(Word), NEW q \in Seq(Word), NEW d \in Device,
         NEW s, s = p \o Block(d) \o q,
         NEW i \in 1..Len(s), s[i] = END
  PROVE  Count(RemoveAt(s, i), BEGIN) # Count(RemoveAt(s, i), END)
<1> DEFINE n == Len(p)
           k == Len(q)
           e == RemoveAt(s, i)
           f == SubSeq(s, 1, n + 2)
<1>1. n \in Nat /\ k \in Nat /\ q \in Seq(Token) /\ \A j \in 1..k : q[j] # END
  BY WordTokens, TokenAssumption DEF END
<1>2. /\ s \in Seq(Token) /\ Len(s) = n + 3 + k
      /\ \A j \in 1..Len(s) : s[j] = BEGIN <=> j = n + 1
      /\ \A j \in 1..Len(s) : s[j] = END <=> j = n + 3
      /\ SubSeq(s, n + 4, Len(s)) = q
  <2>1. LaidOut(s, p, d, q)
    BY Layout
  <2>2. QED
    BY <2>1 DEF LaidOut
<1> HIDE DEF n
<1>3. i = n + 3
  BY <1>2
<1>4. e = f \o q
  <2>1. i - 1 = n + 2 /\ i + 1 = n + 4
    BY <1>1, <1>3
  <2>2. QED
    BY <1>2, <2>1 DEF RemoveAt
<1>5. f \in Seq(Token) /\ Len(f) = n + 2 /\ \A j \in 1..n + 2 : f[j] = s[j]
  BY <1>1, <1>2
<1> HIDE DEF f, e
<1>6. /\ e \in Seq(Token) /\ Len(e) = n + 2 + k
      /\ \A j \in 1..n + 2 + k : e[j] = IF j <= n + 2 THEN f[j] ELSE q[j - (n + 2)]
  <2> DEFINE g == f \o q
  <2>1. /\ g \in Seq(Token) /\ Len(g) = Len(f) + k
        /\ \A j \in 1..Len(f) + k : g[j] = IF j <= Len(f) THEN f[j] ELSE q[j - Len(f)]
    BY <1>1, <1>5, Concat
  <2>2. e = g
    BY <1>4
  <2> HIDE DEF g, k
  <2>3. QED
    BY <1>5, <2>1, <2>2
<1> HIDE DEF k
<1>7. n + 1 \in 1..Len(e) /\ e[n + 1] = BEGIN
  <2>1. n + 1 \in 1..n + 2 /\ n + 1 \in 1..n + 2 + k /\ n + 1 <= n + 2 /\ n + 1 \in 1..Len(s)
    BY <1>1, <1>2
  <2>2. e[n + 1] = f[n + 1] /\ f[n + 1] = s[n + 1]
    BY <1>5, <1>6, <2>1
  <2>3. QED
    BY <1>2, <1>6, <2>1, <2>2
<1>8. ASSUME NEW j \in 1..Len(e) PROVE e[j] # END
  <2>1. CASE j <= n + 2
    <3>1. j \in 1..n + 2 /\ j \in 1..n + 2 + k /\ j \in 1..Len(s) /\ j # n + 3
      BY <1>1, <1>2, <1>6, <2>1
    <3>2. e[j] = f[j] /\ f[j] = s[j]
      BY <1>5, <1>6, <2>1, <3>1
    <3>3. QED
      BY <1>2, <3>1, <3>2
  <2>2. CASE ~(j <= n + 2)
    <3>1. j \in 1..n + 2 + k /\ j - (n + 2) \in 1..k
      BY <1>1, <1>6, <2>2
    <3>2. e[j] = q[j - (n + 2)]
      BY <1>6, <2>2, <3>1
    <3>3. QED
      BY <1>1, <3>1, <3>2
  <2>3. QED
    BY <2>1, <2>2
<1>9. Count(e, END) = 0
  BY <1>6, <1>8, CountNone
<1>10. Count(e, BEGIN) # 0
  BY <1>6, <1>7, CountNone
<1>11. QED
  BY <1>9, <1>10 DEF e

\* What a person makes of clean notes is clean again, unless half a block is left.
LEMMA EditedClean ==
  ASSUME NEW s, NEW t, Clean(s, t), NEW e \in Edited(s), Count(e, BEGIN) = Count(e, END)
  PROVE  Clean(e, Words(e))
<1> SUFFICES \E u : Clean(e, u)
  BY CleanWords
<1>1. CASE s \in Seq(Word) /\ t = s
  <2>1. \A i \in DOMAIN s : s[i] # END
    BY <1>1, TokenAssumption DEF END
  <2>2. e \in {<<w>> \o s : w \in Word} \cup {s \o <<w>> : w \in Word} \cup {<<>>}
    BY <2>1 DEF Edited
  <2>3. e \in Seq(Word)
    <3>1. ASSUME NEW w \in Word PROVE <<w>> \o s \in Seq(Word) /\ s \o <<w>> \in Seq(Word)
      BY <1>1
    <3>2. <<>> \in Seq(Word)
      OBVIOUS
    <3>3. QED
      BY <2>2, <3>1, <3>2
  <2>4. QED
    BY <2>3 DEF Clean
<1>2. ASSUME NEW p \in Seq(Word), NEW q \in Seq(Word), NEW d \in Device,
             s = p \o Block(d) \o q, t = p \o q
      PROVE  \E u : Clean(e, u)
  <2> DEFINE b == Block(d)
  <2>1. p \in Seq(Token) /\ q \in Seq(Token) /\ b \in Seq(Token)
    BY WordTokens, WordsOfBlock
  <2> HIDE DEF b
  <2>2. ASSUME NEW w \in Word, e = <<w>> \o s PROVE \E u : Clean(e, u)
    <3> DEFINE v == <<w>>
    <3>1. v \in Seq(Word) /\ v \in Seq(Token)
      BY DEF Token
    <3> HIDE DEF v
    <3>2. v \o (p \o b \o q) = (v \o p) \o b \o q
      BY <2>1, <3>1
    <3>3. v \o p \in Seq(Word)
      BY <3>1
    <3>4. e = (v \o p) \o Block(d) \o q
      BY <1>2, <2>2, <3>2 DEF v, b
    <3>5. QED
      BY <3>3, <3>4 DEF Clean
  <2>3. ASSUME NEW w \in Word, e = s \o <<w>> PROVE \E u : Clean(e, u)
    <3> DEFINE v == <<w>>
    <3>1. v \in Seq(Word) /\ v \in Seq(Token)
      BY DEF Token
    <3> HIDE DEF v
    <3>2. (p \o b \o q) \o v = p \o b \o (q \o v)
      BY <2>1, <3>1
    <3>3. q \o v \in Seq(Word)
      BY <3>1
    <3>4. e = p \o Block(d) \o (q \o v)
      BY <1>2, <2>3, <3>2 DEF v, b
    <3>5. QED
      BY <3>3, <3>4 DEF Clean
  <2>4. CASE e = <<>>
    <3>1. e \in Seq(Word)
      BY <2>4
    <3>2. QED
      BY <3>1 DEF Clean
  <2>5. ASSUME NEW i \in DOMAIN s, s[i] = END, e = RemoveAt(s, i) PROVE FALSE
    <3>1. i \in 1..Len(s)
      BY <1>2, CleanWords DEF Clean
    <3>2. QED
      BY <1>2, <2>5, <3>1, HalfBlock
  <2>6. QED
    BY <2>2, <2>3, <2>4, <2>5 DEF Edited
<1>3. QED
  BY <1>1, <1>2 DEF Clean

\* Clean notes have one whole block, or none.
LEMMA CleanOneBlock ==
  ASSUME NEW s, NEW t, Clean(s, t)
  PROVE  \/ Words(s) = s
         \/ \E i \in 1..Len(s) - 2, d \in Device :
              /\ SubSeq(s, i, i + 2) = Block(d)
              /\ Count(s, BEGIN) = 1 /\ Count(s, END) = 1
<1>1. CASE s \in Seq(Word) /\ t = s
  BY <1>1, WordsOfWords
<1>2. ASSUME NEW p \in Seq(Word), NEW q \in Seq(Word), NEW d \in Device,
             s = p \o Block(d) \o q
      PROVE  \E i \in 1..Len(s) - 2 :
               /\ SubSeq(s, i, i + 2) = Block(d)
               /\ Count(s, BEGIN) = 1 /\ Count(s, END) = 1
  <2> DEFINE n == Len(p)
             k == Len(q)
  <2>1. n \in Nat /\ k \in Nat
    OBVIOUS
  <2>2. /\ s \in Seq(Token) /\ Len(s) = n + 3 + k
        /\ \A j \in 1..Len(s) : s[j] = BEGIN <=> j = n + 1
        /\ \A j \in 1..Len(s) : s[j] = END <=> j = n + 3
        /\ SubSeq(s, n + 1, n + 3) = Block(d)
    <3>1. LaidOut(s, p, d, q)
      BY <1>2, Layout
    <3>2. QED
      BY <3>1 DEF LaidOut
  <2> HIDE DEF n, k
  <2>3. n + 1 \in 1..Len(s) /\ n + 3 \in 1..Len(s) /\ n + 1 \in 1..Len(s) - 2
        /\ (n + 1) + 2 = n + 3
    BY <2>1, <2>2
  <2>4. Count(s, BEGIN) = 1 /\ Count(s, END) = 1
    BY <2>2, <2>3, CountOne
  <2>5. QED
    BY <2>2, <2>3, <2>4
<1>3. QED
  BY <1>1, <1>2 DEF Clean

-----------------------------------------------------------------------------
(* The inductive invariant: as long as nobody spoiled the notes of m, not  *)
(* only they are clean and of the words people left, but also whatever a   *)
(* run or a late PATCH is about to put in their place.                     *)

Sound(s, m) == m \notin spoiled => Clean(s, text[m])

TextOK ==
  /\ \A m \in Managed : Sound(notes[m], m)
  /\ \A r \in Run : run[r].pc = "patch" => Sound(run[r].read, run[r].to)
  /\ \A l \in late : Sound(l.notes, l.to)

\* A step of one run.
LEMMA TextRun ==
  ASSUME IInv, TextOK, NEW r \in Run, NEW q, run' = [run EXCEPT ![r] = q],
         q.pc = "patch" => Sound(q.read, q.to),
         UNCHANGED <<text, spoiled>>,
         \A m \in Managed : Sound(notes'[m], m),
         \A l \in late' : Sound(l.notes, l.to)
  PROVE  TextOK'
<1>1. \A p \in Run : run'[p] = IF p = r THEN q ELSE run[p]
  BY DEF IInv, RunsOK
<1>2. \A p \in Run : run'[p].pc = "patch" => Sound(run'[p].read, run'[p].to)
  BY <1>1 DEF TextOK
<1>3. QED
  BY <1>2 DEF TextOK, Sound

\* A step of one run that touches nothing else and does not end with notes read.
LEMMA TextQuiet ==
  ASSUME IInv, TextOK, NEW r \in Run, NEW q, run' = [run EXCEPT ![r] = q],
         q.pc # "patch", UNCHANGED <<notes, late, text, spoiled>>
  PROVE  TextOK'
<1>1. \A m \in Managed : Sound(notes'[m], m)
  BY DEF TextOK
<1>2. \A l \in late' : Sound(l.notes, l.to)
  BY DEF TextOK
<1>3. QED
  BY <1>1, <1>2, TextRun

LEMMA TextSame ==
  ASSUME TextOK, UNCHANGED <<notes, run, late, text, spoiled>>
  PROVE  TextOK'
BY DEF TextOK, Sound

LEMMA TextExit ==
  ASSUME IInv, TextOK, NEW r \in Run, NEW code, Exit(r, code),
         UNCHANGED <<text, spoiled>>,
         \A m \in Managed : Sound(notes'[m], m),
         \A l \in late' : Sound(l.notes, l.to)
  PROVE  TextOK'
<1> DEFINE q == IF code = 0 THEN [Returned(r) EXCEPT !.pc = "ended"]
                ELSE [Idle EXCEPT !.pc = "ended", !.exit = code]
<1>1. run' = [run EXCEPT ![r] = q]
  BY DEF Exit
<1>2. q.pc = "ended"
  <2>1. run[r] \in RunState
    BY DEF IInv, RunsOK
  <2>2. QED
    BY <2>1 DEF Returned, Idle, RunState
<1> HIDE DEF q
<1>3. QED
  BY <1>1, <1>2, TextRun

LEMMA TextFail ==
  ASSUME IInv, TextOK, NEW r \in Run,
         run' = [run EXCEPT ![r] = [Returned(r) EXCEPT !.ok = FALSE]],
         UNCHANGED <<text, spoiled>>,
         \A m \in Managed : Sound(notes'[m], m),
         \A l \in late' : Sound(l.notes, l.to)
  PROVE  TextOK'
<1> DEFINE q == [Returned(r) EXCEPT !.ok = FALSE]
<1>1. q.pc = "next"
  <2>1. run[r] \in RunState
    BY DEF IInv, RunsOK
  <2>2. QED
    BY <2>1 DEF Returned, RunState
<1>2. run' = [run EXCEPT ![r] = q]
  OBVIOUS
<1> HIDE DEF q
<1>3. QED
  BY <1>1, <1>2, TextRun

\* The notes a run has computed are sound where those it read were.
LEMMA ComputedSound ==
  ASSUME IInv, TextOK, NEW r \in Run, run[r].pc = "patch"
  PROVE  /\ run[r].to \in Managed
         /\ Sound(Upsert(run[r].read, run[r].row[1]), run[r].to)
<1> DEFINE d == run[r].row[1]
<1>1. run[r].to \in Managed /\ run[r].row \in Row
  BY ComputedOK
<1>2. d \in Device
  BY <1>1 DEF Row
<1> HIDE DEF d
<1>3. Sound(run[r].read, run[r].to)
  BY DEF TextOK
<1>4. Sound(Upsert(run[r].read, d), run[r].to)
  BY <1>2, <1>3, UpsertClean DEF Sound
<1>5. QED
  BY <1>1, <1>4 DEF d

LEMMA TextBegin ==
  ASSUME IInv, TextOK, NEW r \in Run,
         List(r) \/ Refused(r) \/ Find(r) \/ FindFails(r) \/ \E row \in Row : Manual(r, row)
  PROVE  TextOK'
<1> DEFINE p == run[r]
<1>1. p \in RunState /\ run \in [Run -> RunState]
  BY DEF IInv, RunsOK
<1>2. (\A m \in Managed : Sound(notes[m], m)) /\ \A l \in late : Sound(l.notes, l.to)
  BY DEF TextOK
<1>3. CASE List(r)
  <2> DEFINE rows == {<<d, hostname[d]>> : d \in {e \in Device : hostname[e] # None}}
             q == [Idle EXCEPT !.pc = "next", !.todo = rows, !.total = rows]
  <2>1. run' = [run EXCEPT ![r] = q] /\ UNCHANGED <<notes, late, text, spoiled>>
    BY <1>3 DEF List
  <2> HIDE DEF rows
  <2>2. q.pc # "patch"
    BY DEF Idle
  <2> HIDE DEF q
  <2>3. QED
    BY <2>1, <2>2, TextQuiet
<1>4. CASE Refused(r)
  <2>1. Exit(r, 2) /\ UNCHANGED <<notes, late, text, spoiled>>
    BY <1>4 DEF Refused
  <2>2. QED
    BY <1>2, <2>1, TextExit
<1>5. CASE Find(r)
  <2>1. PICK row \in p.todo, m \in Managed :
          /\ NameOf[m] = row[2]
          /\ run' = [run EXCEPT ![r].pc = "get", ![r].row = row, ![r].to = m,
                                ![r].todo = @ \ {row}]
    BY <1>5 DEF Find
  <2> DEFINE q == [p EXCEPT !.pc = "get", !.row = row, !.to = m, !.todo = p.todo \ {row}]
  <2>2. run' = [run EXCEPT ![r] = q] /\ UNCHANGED <<notes, late, text, spoiled>>
    BY <1>1, <1>5, <2>1 DEF Find, RunState
  <2>3. q.pc # "patch"
    BY <1>1 DEF RunState
  <2> HIDE DEF q, p
  <2>4. QED
    BY <2>2, <2>3, TextQuiet
<1>6. CASE FindFails(r)
  <2>1. PICK row \in p.todo : run' = [run EXCEPT ![r].ok = FALSE, ![r].todo = @ \ {row}]
    BY <1>6 DEF FindFails
  <2> DEFINE q == [p EXCEPT !.ok = FALSE, !.todo = p.todo \ {row}]
  <2>2. run' = [run EXCEPT ![r] = q] /\ UNCHANGED <<notes, late, text, spoiled>>
    BY <1>1, <1>6, <2>1 DEF FindFails, RunState
  <2>3. q.pc # "patch"
    BY <1>1, <1>6 DEF FindFails, RunState
  <2> HIDE DEF q, p
  <2>4. QED
    BY <2>2, <2>3, TextQuiet
<1>7. ASSUME NEW row \in Row, Manual(r, row) PROVE TextOK'
  <2> DEFINE q == [Idle EXCEPT !.pc = "next", !.todo = {row}, !.total = {row}]
  <2>1. run' = [run EXCEPT ![r] = q] /\ UNCHANGED <<notes, late, text, spoiled>>
    BY <1>7 DEF Manual
  <2>2. q.pc # "patch"
    BY DEF Idle
  <2> HIDE DEF q
  <2>3. QED
    BY <2>1, <2>2, TextQuiet
<1>8. QED
  BY <1>3, <1>4, <1>5, <1>6, <1>7

LEMMA TextGet ==
  ASSUME IInv, TextOK, NEW r \in Run, Get(r)
  PROVE  TextOK'
<1> DEFINE p == run[r]
           q == [p EXCEPT !.pc = "patch", !.read = notes[p.to]]
<1>1. p \in RunState /\ p.to \in Managed
  BY DEF IInv, RunsOK, RunOK, InHand, Get
<1>2. run' = [run EXCEPT ![r] = q] /\ UNCHANGED <<notes, late, text, spoiled>>
  BY <1>1 DEF Get, IInv, RunsOK, RunState
<1>3. q.read = notes[p.to] /\ q.to = p.to
  BY <1>1 DEF RunState
<1> HIDE DEF q, p
<1>4. Sound(q.read, q.to)
  BY <1>1, <1>3 DEF TextOK
<1>5. (\A m \in Managed : Sound(notes'[m], m)) /\ \A l \in late' : Sound(l.notes, l.to)
  BY <1>2 DEF TextOK
<1>6. QED
  BY <1>2, <1>4, <1>5, TextRun

LEMMA TextPatch ==
  ASSUME IInv, TextOK, NEW r \in Run, Patch(r)
  PROVE  TextOK'
<1> DEFINE p == run[r]
           s == Upsert(p.read, p.row[1])
           q == [Returned(r) EXCEPT !.stamped = p.stamped \cup {<<p.row, p.to>>}]
<1>1. p \in RunState /\ p.pc = "patch"
  BY DEF IInv, RunsOK, Patch
<1>2. p.to \in Managed /\ Sound(s, p.to)
  BY <1>1, ComputedSound
<1>3. run' = [run EXCEPT ![r] = q] /\ notes' = [notes EXCEPT ![p.to] = s]
      /\ UNCHANGED <<late, text, spoiled>>
  <2>1. Returned(r).stamped = p.stamped
    BY <1>1 DEF Returned, RunState
  <2>2. QED
    BY <2>1 DEF Patch
<1>4. q.pc # "patch"
  BY <1>1 DEF Returned, RunState
<1> HIDE DEF q, s, p
<1>5. \A m \in Managed : Sound(notes'[m], m)
  BY <1>2, <1>3 DEF TextOK, IInv, NotesOK
<1>6. \A l \in late' : Sound(l.notes, l.to)
  BY <1>3 DEF TextOK
<1>7. QED
  BY <1>3, <1>4, <1>5, <1>6, TextRun

LEMMA TextUnanswered ==
  ASSUME IInv, TextOK, NEW r \in Run, Unanswered(r)
  PROVE  TextOK'
<1> DEFINE s == Upsert(run[r].read, run[r].row[1])
           l == [to |-> run[r].to, notes |-> s]
<1>1. Sound(s, run[r].to)
  BY ComputedSound DEF Unanswered
<1>2. late' = late \cup {l} /\ UNCHANGED <<notes, text, spoiled>>
  BY DEF Unanswered
<1>3. run' = [run EXCEPT ![r] = [Returned(r) EXCEPT !.ok = FALSE]] \/ Exit(r, 1)
  BY DEF Unanswered
<1> HIDE DEF s
<1>4. Sound(l.notes, l.to)
  BY <1>1
<1> HIDE DEF l
<1>5. (\A m \in Managed : Sound(notes'[m], m)) /\ \A k \in late' : Sound(k.notes, k.to)
  BY <1>2, <1>4 DEF TextOK
<1>6. QED
  BY <1>2, <1>3, <1>5, TextFail, TextExit

LEMMA TextEdit ==
  ASSUME IInv, TextOK, NEW m \in Managed, Edit(m)
  PROVE  TextOK'
<1>1. PICK s \in Edited(notes[m]) :
        /\ notes' = [notes EXCEPT ![m] = s]
        /\ text' = [text EXCEPT ![m] = Words(s)]
        /\ spoiled' = IF Busy(m) \/ Count(s, BEGIN) # Count(s, END)
                      THEN spoiled \cup {m} ELSE spoiled
  BY DEF Edit
<1>2. UNCHANGED <<run, late>>
  BY DEF Edit
<1>3. \A n \in Managed : /\ notes'[n] = IF n = m THEN s ELSE notes[n]
                         /\ text'[n] = IF n = m THEN Words(s) ELSE text[n]
  BY <1>1 DEF IInv, NotesOK, RestOK
<1>4. spoiled \subseteq spoiled'
  BY <1>1
<1>5. ASSUME m \notin spoiled'
      PROVE  Clean(s, Words(s)) /\ ~Busy(m)
  <2>1. ~Busy(m) /\ Count(s, BEGIN) = Count(s, END)
    BY <1>1, <1>5
  <2>2. Clean(notes[m], text[m])
    BY <1>4, <1>5 DEF TextOK, Sound
  <2>3. QED
    BY <1>1, <2>1, <2>2, EditedClean
<1>6. ASSUME NEW n \in Managed, n \notin spoiled' PROVE Clean(notes'[n], text'[n])
  <2>1. CASE n = m
    BY <1>3, <1>5, <1>6, <2>1
  <2>2. CASE n # m
    BY <1>3, <1>4, <1>6, <2>2 DEF TextOK, Sound
  <2>3. QED
    BY <2>1, <2>2
<1>7. ASSUME NEW n, NEW t, n \in Managed, n \notin spoiled', Sound(t, n), n = m => Busy(m)
      PROVE  Clean(t, text'[n])
  <2>1. n # m
    BY <1>5, <1>7
  <2>2. QED
    BY <1>3, <1>4, <1>7, <2>1 DEF Sound
<1>8. ASSUME NEW r \in Run, run[r].pc = "patch", run[r].to \notin spoiled'
      PROVE  Clean(run[r].read, text'[run[r].to])
  <2>1. run[r].to \in Managed
    BY <1>8 DEF IInv, RunsOK, RunOK, InHand
  <2>2. Sound(run[r].read, run[r].to)
    BY <1>8 DEF TextOK
  <2>3. run[r].to = m => Busy(m)
    BY <1>8 DEF Busy
  <2>4. QED
    BY <1>7, <1>8, <2>1, <2>2, <2>3
<1>9. ASSUME NEW l \in late, l.to \notin spoiled'
      PROVE  Clean(l.notes, text'[l.to])
  <2>1. l.to \in Managed
    BY DEF IInv, NotesOK
  <2>2. Sound(l.notes, l.to)
    BY DEF TextOK
  <2>3. l.to = m => Busy(m)
    BY DEF Busy
  <2>4. QED
    BY <1>7, <1>9, <2>1, <2>2, <2>3
<1>10. QED
  BY <1>2, <1>6, <1>8, <1>9 DEF TextOK, Sound

LEMMA TextLate ==
  ASSUME IInv, TextOK, NEW l \in late, LatePatch(l)
  PROVE  TextOK'
<1>1. late' = late \ {l} /\ notes' \in {notes, [notes EXCEPT ![l.to] = l.notes]}
      /\ UNCHANGED <<run, text, spoiled>>
  BY DEF LatePatch
<1>2. l.to \in Managed /\ Sound(l.notes, l.to)
  BY DEF IInv, NotesOK, TextOK
<1>3. \A n \in Managed : notes'[n] = notes[n] \/ (n = l.to /\ notes'[n] = l.notes)
  BY <1>1, <1>2 DEF IInv, NotesOK
<1>4. \A n \in Managed : Sound(notes'[n], n)
  BY <1>2, <1>3 DEF TextOK
<1>5. QED
  BY <1>1, <1>4 DEF TextOK, Sound

-----------------------------------------------------------------------------
(* The specification.                                                      *)

LEMMA InitText == Init => TextOK
<1> SUFFICES ASSUME Init PROVE TextOK
  OBVIOUS
<1>1. Clean(<<>>, <<>>)
  BY DEF Clean
<1>2. \A m \in Managed : notes[m] = <<>> /\ text[m] = <<>>
  BY DEF Init
<1>3. \A r \in Run : run[r].pc # "patch"
  BY DEF Init, Idle
<1>4. late = {}
  BY DEF Init
<1>5. QED
  BY <1>1, <1>2, <1>3, <1>4 DEF TextOK, Sound

LEMMA NextText == IInv /\ TextOK /\ [Next]_vars => TextOK'
<1> SUFFICES ASSUME IInv, TextOK, [Next]_vars PROVE TextOK'
  OBVIOUS
<1>1. (\A m \in Managed : Sound(notes[m], m)) /\ \A l \in late : Sound(l.notes, l.to)
  BY DEF TextOK
<1>2. ASSUME NEW r \in Run, Die(r) \/ Finish(r) PROVE TextOK'
  <2>1. /\ \E code \in {0, 1} : Exit(r, code)
        /\ UNCHANGED <<notes, late, text, spoiled>>
    BY <1>2 DEF Die, Finish
  <2>2. QED
    BY <1>1, <2>1, TextExit
<1>3. ASSUME NEW r \in Run, Fail(r) PROVE TextOK'
  <2>1. /\ run' = [run EXCEPT ![r] = [Returned(r) EXCEPT !.ok = FALSE]]
        /\ UNCHANGED <<notes, late, text, spoiled>>
    BY <1>3 DEF Fail
  <2>2. QED
    BY <1>1, <2>1, TextFail
<1>4. ASSUME NEW d \in Device, NEW h \in Host, Enroll(d, h) PROVE TextOK'
  BY <1>4, TextSame DEF Enroll
<1>5. CASE UNCHANGED vars
  BY <1>5, TextSame DEF vars
<1>6. QED
  BY <1>2, <1>3, <1>4, <1>5, TextBegin, TextGet, TextPatch, TextUnanswered, TextEdit,
     TextLate DEF Next

LEMMA TextInvariance == Spec => [](IInv /\ TextOK)
<1>1. Init => IInv /\ TextOK
  BY InitIInv, InitText
<1>2. (IInv /\ TextOK) /\ [Next]_vars => (IInv /\ TextOK)'
  BY NextIInv, NextText
<1>3. QED
  BY <1>1, <1>2, PTL DEF Spec

\* The words of the notes are those people left, whatever runs have done, at the
\* same time or long after they gave up, unless a person edited under a run or
\* left half a block.
THEOREM WordsAreKept == Spec => []HumanTextKept
<1>1. TextOK => HumanTextKept
  BY CleanWords DEF TextOK, Sound, HumanTextKept
<1>2. QED
  BY <1>1, TextInvariance, PTL

\* However many runs stamped the notes, and in whatever order their requests came,
\* there is one block in them, whole, or none.
THEOREM OneBlockOnly == Spec => []OneBlock
<1>1. TextOK => OneBlock
  BY CleanOneBlock DEF TextOK, Sound, OneBlock
<1>2. QED
  BY <1>1, TextInvariance, PTL

\* Stamping again is as good as stamping once: of all the runs over the same notes
\* only the last can be told from them.
THEOREM RestampsIdempotent == Spec => []LastStampStands
<1>1. TextOK => LastStampStands
  BY UpsertTwice DEF TextOK, Sound, LastStampStands
<1>2. QED
  BY <1>1, TextInvariance, PTL
=============================================================================
