----------------------------- MODULE TextProofs -----------------------------
(***************************************************************************)
(* What the operators on texts compute, for texts of any length over any   *)
(* set: the searches, the parts that they cut out, the pieces of a split   *)
(* text, and what the parser makes of a text.  Induction is over sets of   *)
(* texts (TextInduction) or positions (FirstPosition).                     *)
(***************************************************************************)
EXTENDS QueryText, StoreMessages, SequenceTheorems, WellFoundedInduction, NaturalsInduction, TLAPS

-----------------------------------------------------------------------------
(* Positions.                                                              *)

\* A set of positions that is not empty has a first one.
LEMMA FirstPosition ==
    ASSUME NEW I \in SUBSET Nat, I # {}
    PROVE  Min(I) \in I /\ \A i \in I : Min(I) <= i
  <1> DEFINE R == {ss \in Nat \X Nat : ss[1] < ss[2]}
  <1>1. IsWellFoundedOn(R, Nat)
    BY NatLessThanWellFounded DEF OpToRel
  <1>2. \E m \in I : \A i \in I : << i, m >> \notin R
    <2> HIDE DEF R
    <2> QED BY <1>1, WFMin
  <1>3. PICK m \in I : \A i \in I : << i, m >> \notin R
    BY <1>2
  <1>4. ASSUME NEW i \in I PROVE m <= i
    <2>1. i \in Nat /\ m \in Nat /\ ~(i < m)
      BY <1>3
    <2> QED BY <2>1
  <1> QED BY <1>4 DEF Min

\* find returns the first position of the character, or NPos.
LEMMA FindFacts ==
    ASSUME NEW s, NEW ch, NEW from \in Nat \ {0}, Len(s) \in Nat
    PROVE  LET n == find(s, ch, from) IN
           /\ n \in Nat
           /\ n = NPos => \A i \in from..Len(s) : s[i] # ch
           /\ n # NPos => /\ n \in from..Len(s)
                          /\ s[n] = ch
                          /\ \A i \in from..(n - 1) : s[i] # ch
  <1> DEFINE I == {i \in from..Len(s) : s[i] = ch}
  <1>1. find(s, ch, from) = IF I # {} THEN Min(I) ELSE 0
    BY DEF find, SelectInSubSeq
  <1>2. I \in SUBSET Nat
    OBVIOUS
  <1>3. I # {} => Min(I) \in I /\ \A i \in I : Min(I) <= i
    <2> HIDE DEF I
    <2> QED BY <1>2, FirstPosition
  <1>4. PICK n : n = find(s, ch, from)
    OBVIOUS
  <1>5. CASE I = {}
    BY <1>1, <1>5 DEF NPos
  <1>6. CASE I # {}
    <2>1. n \in I /\ \A i \in I : n <= i
      <3> HIDE DEF I
      <3> QED BY <1>1, <1>3, <1>4, <1>6
    <2> QED BY <1>4, <2>1 DEF NPos
  <1> QED BY <1>5, <1>6

\* The last position of a set of positions.
LEMMA MaxIs ==
    ASSUME NEW I \in SUBSET Nat, NEW m \in I, \A i \in I : i <= m
    PROVE  Max(I) = m
  <1>1. \A i \in I : m >= i
    OBVIOUS
  <1>2. ASSUME NEW x \in I, \A i \in I : x >= i PROVE x = m
    <2>1. x \in Nat /\ m \in Nat /\ x >= m /\ x <= m
      BY <1>2
    <2> QED BY <2>1
  <1>3. Max(I) \in I /\ \A i \in I : Max(I) >= i
    BY <1>1 DEF Max
  <1> QED BY <1>2, <1>3

\* A set of positions of a text that is not empty has a last one.
LEMMA LastPosition ==
    ASSUME NEW n \in Nat, NEW I \in SUBSET (1..n), I # {}
    PROVE  Max(I) \in I /\ \A i \in I : i <= Max(I)
  <1> DEFINE J == {n - i : i \in I}
  <1>1. J \in SUBSET Nat /\ J # {}
    <2>1. \A i \in I : n - i \in Nat
      OBVIOUS
    <2> QED BY <2>1
  <1>2. PICK j : j = Min(J)
    OBVIOUS
  <1>3. j \in J /\ \A i \in J : j <= i
    <2> HIDE DEF J
    <2> QED BY <1>1, <1>2, FirstPosition
  <1>4. PICK m \in I : j = n - m
    BY <1>3
  <1>5. ASSUME NEW i \in I PROVE i <= m
    <2>1. i \in Nat /\ m \in Nat /\ n - m <= n - i
      BY <1>3, <1>4
    <2> QED BY <2>1
  <1>6. I \in SUBSET Nat
    OBVIOUS
  <1>7. Max(I) = m
    BY <1>5, <1>6, MaxIs
  <1> QED BY <1>5, <1>7

(***************************************************************************)
(* Two folds are behind the parsers: a text is split at a character, and   *)
(* the pieces of a query are processed as predicates.  Folding is the      *)
(* equation that defines the function through which FoldLeft computes.     *)
(***************************************************************************)
Start(fold) == IF fold = "split" THEN << << >> >> ELSE NewQuery

FoldStep(fold, ch, acc, x) ==
    IF fold = "split"
    THEN IF x = ch THEN Append(acc, << >>) ELSE [acc EXCEPT ![Len(acc)] = Append(@, x)]
    ELSE process_predicate(acc, x)

Folding(fold, ch, p, n, f) ==
    f = [s \in SUBSET (1..n) |->
            IF s = {} THEN Start(fold) ELSE FoldStep(fold, ch, f[s \ {Max(s)}], p[Max(s)])]

Folded(fold, ch, p, n) == (CHOOSE f : Folding(fold, ch, p, n, f))[1..n]

LEMMA FoldingExists ==
    ASSUME NEW fold, NEW ch, NEW p, NEW n \in Nat
    PROVE  \E f : Folding(fold, ch, p, n, f)
  <1> DEFINE Bad == {k \in Nat : ~\E f : Folding(fold, ch, p, k, f)}
  <1> SUFFICES ASSUME Bad # {} PROVE FALSE
    OBVIOUS
  <1>1. PICK k : k = Min(Bad)
    OBVIOUS
  <1>2. k \in Bad /\ \A i \in Bad : k <= i
    <2>1. Bad \in SUBSET Nat
      OBVIOUS
    <2> HIDE DEF Bad
    <2> QED BY <1>1, <2>1, FirstPosition
  <1>3. CASE k = 0
    <2> DEFINE g == [s \in SUBSET (1..0) |-> Start(fold)]
    <2>1. \A s \in SUBSET (1..0) : s = {}
      OBVIOUS
    <2>2. Folding(fold, ch, p, 0, g)
      BY <2>1 DEF Folding
    <2> QED BY <1>2, <1>3, <2>2
  <1>4. CASE k # 0
    <2>1. k \in Nat /\ k - 1 \in Nat /\ ~(k <= k - 1)
      BY <1>2, <1>4
    <2>2. PICK f : Folding(fold, ch, p, k - 1, f)
      BY <1>2, <2>1
    <2> DEFINE g == [s \in SUBSET (1..k) |->
                        IF k \in s THEN FoldStep(fold, ch, f[s \ {k}], p[k]) ELSE f[s]]
    <2>3. ASSUME NEW s \in SUBSET (1..k)
          PROVE  g[s] = IF s = {} THEN Start(fold)
                        ELSE FoldStep(fold, ch, g[s \ {Max(s)}], p[Max(s)])
      <3>1. CASE k \in s
        <4>1. Max(s) = k
          <5>1. s \in SUBSET Nat /\ \A i \in s : i <= k
            BY <2>1
          <5> QED BY <3>1, <5>1, MaxIs
        <4>2. s \ {k} \in SUBSET (1..k) /\ k \notin s \ {k}
          OBVIOUS
        <4>3. g[s \ {k}] = f[s \ {k}]
          BY <4>2
        <4> QED BY <3>1, <4>1, <4>3
      <3>2. CASE k \notin s
        <4>1. s \in SUBSET (1..(k - 1))
          BY <2>1, <3>2
        <4>2. f[s] = IF s = {} THEN Start(fold) ELSE FoldStep(fold, ch, f[s \ {Max(s)}], p[Max(s)])
          BY <2>2, <4>1 DEF Folding
        <4>3. g[s] = f[s] /\ g[s \ {Max(s)}] = f[s \ {Max(s)}]
          BY <3>2
        <4> QED BY <4>2, <4>3
      <3> QED BY <3>1, <3>2
    <2>4. Folding(fold, ch, p, k, g)
      <3>1. g = [s \in SUBSET (1..k) |-> g[s]]
        OBVIOUS
      <3> HIDE DEF g
      <3> QED BY <2>3, <3>1 DEF Folding
    <2> QED BY <1>2, <2>1, <2>4
  <1> QED BY <1>3, <1>4

\* What the fold has computed after its first k elements.
Running(fold, ch, p, n, h) ==
    /\ h[0] = Start(fold)
    /\ \A k \in 1..n : h[k] = FoldStep(fold, ch, h[k - 1], p[k])

\* FoldLeft goes through the sequence from its first element to its last.
LEMMA FoldRuns ==
    ASSUME NEW fold, NEW ch, NEW n \in Nat, NEW p
    PROVE  \E h : Running(fold, ch, p, n, h) /\ h[n] = Folded(fold, ch, p, n)
  <1>1. PICK f : f = CHOOSE g : Folding(fold, ch, p, n, g)
    OBVIOUS
  <1>2. Folding(fold, ch, p, n, f) /\ Folded(fold, ch, p, n) = f[1..n]
    BY <1>1, FoldingExists DEF Folded
  <1> DEFINE h == [k \in 0..n |-> f[1..k]]
  <1>3. h[0] = Start(fold)
    <2>1. 1..0 = {} /\ {} \in SUBSET (1..n)
      OBVIOUS
    <2>2. f[{}] = Start(fold)
      BY <1>2, <2>1 DEF Folding
    <2> QED BY <2>1, <2>2
  <1>4. ASSUME NEW k \in 1..n PROVE h[k] = FoldStep(fold, ch, h[k - 1], p[k])
    <2>1. 1..k \in SUBSET (1..n) /\ 1..k # {} /\ (1..k) \ {k} = 1..(k - 1) /\ k - 1 \in 0..n
      OBVIOUS
    <2>2. Max(1..k) = k
      <3>1. PICK I : I = 1..k
        OBVIOUS
      <3>2. I \in SUBSET Nat /\ k \in I /\ \A i \in I : i <= k
        BY <3>1
      <3>3. Max(I) = k
        BY <3>2, MaxIs
      <3> QED BY <3>1, <3>3
    <2>3. f[1..k] = FoldStep(fold, ch, f[(1..k) \ {Max(1..k)}], p[Max(1..k)])
      BY <1>2, <2>1 DEF Folding
    <2>4. h[k] = f[1..k] /\ h[k - 1] = f[1..(k - 1)]
      BY <2>1
    <2> HIDE DEF h
    <2> QED BY <2>1, <2>2, <2>3, <2>4
  <1>5. h[n] = f[1..n]
    OBVIOUS
  <1> HIDE DEF h
  <1> QED BY <1>2, <1>3, <1>4, <1>5 DEF Running

\* One more element is one more step.
LEMMA FoldAppend ==
    ASSUME NEW fold, NEW ch, NEW n \in Nat, NEW p, NEW q, \A i \in 1..n : q[i] = p[i]
    PROVE  /\ Folded(fold, ch, p, 0) = Start(fold)
           /\ Folded(fold, ch, q, n + 1) = FoldStep(fold, ch, Folded(fold, ch, p, n), q[n + 1])
  <1>1. Folded(fold, ch, p, 0) = Start(fold)
    <2>1. PICK h : Running(fold, ch, p, 0, h) /\ h[0] = Folded(fold, ch, p, 0)
      BY FoldRuns
    <2> QED BY <2>1 DEF Running
  <1>2. PICK h : Running(fold, ch, p, n, h) /\ h[n] = Folded(fold, ch, p, n)
    BY FoldRuns
  <1>3. n + 1 \in Nat
    OBVIOUS
  <1>4. PICK g : Running(fold, ch, q, n + 1, g) /\ g[n + 1] = Folded(fold, ch, q, n + 1)
    BY <1>3, FoldRuns
  <1> DEFINE Bad == {k \in 0..n : g[k] # h[k]}
  <1>5. ASSUME Bad # {} PROVE FALSE
    <2>1. PICK k : k = Min(Bad)
      OBVIOUS
    <2>2. k \in Bad /\ \A i \in Bad : k <= i
      <3>1. Bad \in SUBSET Nat
        OBVIOUS
      <3> HIDE DEF Bad
      <3> QED BY <1>5, <2>1, <3>1, FirstPosition
    <2>3. CASE k = 0
      BY <1>2, <1>4, <2>2, <2>3 DEF Running
    <2>4. CASE k # 0
      <3>1. k \in 1..n /\ k \in 1..(n + 1) /\ k - 1 \in 0..n /\ ~(k <= k - 1)
        BY <2>2, <2>4
      <3>2. g[k - 1] = h[k - 1] /\ q[k] = p[k]
        BY <2>2, <3>1
      <3>3. h[k] = FoldStep(fold, ch, h[k - 1], p[k]) /\ g[k] = FoldStep(fold, ch, g[k - 1], q[k])
        BY <1>2, <1>4, <3>1 DEF Running
      <3> QED BY <2>2, <3>2, <3>3
    <2> QED BY <2>3, <2>4
  <1>6. g[n] = h[n]
    BY <1>5
  <1>7. n + 1 \in 1..(n + 1) /\ (n + 1) - 1 = n
    OBVIOUS
  <1>8. g[n + 1] = FoldStep(fold, ch, g[(n + 1) - 1], q[n + 1])
    BY <1>4, <1>7 DEF Running
  <1> QED BY <1>1, <1>2, <1>4, <1>6, <1>7, <1>8

-----------------------------------------------------------------------------
(* Texts.                                                                  *)

\* A set of texts that has the empty one and, with a text, its continuations,
\* has every text.
LEMMA TextInduction ==
    ASSUME NEW S, NEW T, << >> \in T, \A s \in Seq(S), x \in S : s \in T => Append(s, x) \in T
    PROVE  \A s \in Seq(S) : s \in T
  <1> SUFFICES ASSUME NEW t \in Seq(S), t \notin T PROVE FALSE
    OBVIOUS
  <1> DEFINE Bad == {k \in Nat : \E s \in Seq(S) : Len(s) = k /\ s \notin T}
  <1>1. Len(t) \in Bad
    OBVIOUS
  <1>2. PICK k : k = Min(Bad)
    OBVIOUS
  <1>3. k \in Bad /\ \A i \in Bad : k <= i
    <2>1. Bad \in SUBSET Nat
      OBVIOUS
    <2> HIDE DEF Bad
    <2> QED BY <1>1, <1>2, <2>1, FirstPosition
  <1>4. PICK s \in Seq(S) : Len(s) = k /\ s \notin T
    BY <1>3
  <1>5. s # << >>
    BY <1>4
  <1>6. PICK r \in Seq(S), x \in S : s = Append(r, x)
    BY <1>5, SequenceEmptyOrAppend
  <1>7. Len(s) = Len(r) + 1 /\ Len(r) \in Nat
    BY <1>6, AppendProperties
  <1>8. Len(r) \notin Bad
    BY <1>3, <1>4, <1>7
  <1>9. r \in T
    BY <1>7, <1>8
  <1> QED BY <1>4, <1>6, <1>9

\* The elements of two texts one after the other.
LEMMA ConcatFacts ==
    ASSUME NEW S, NEW a \in Seq(S), NEW b \in Seq(S)
    PROVE  /\ a \o b \in Seq(S)
           /\ Len(a \o b) = Len(a) + Len(b)
           /\ \A i \in 1..Len(a) : (a \o b)[i] = a[i]
           /\ \A i \in 1..Len(b) : (a \o b)[Len(a) + i] = b[i]
  <1>1. /\ a \o b \in Seq(S)
        /\ Len(a \o b) = Len(a) + Len(b)
        /\ \A i \in 1..(Len(a) + Len(b)) : (a \o b)[i] = IF i <= Len(a) THEN a[i] ELSE b[i - Len(a)]
    BY ConcatProperties
  <1>2. Len(a) \in Nat /\ Len(b) \in Nat
    OBVIOUS
  <1>3. ASSUME NEW i \in 1..Len(a) PROVE (a \o b)[i] = a[i]
    <2>1. i \in 1..(Len(a) + Len(b)) /\ i <= Len(a)
      BY <1>2
    <2> QED BY <1>1, <2>1
  <1>4. ASSUME NEW i \in 1..Len(b) PROVE (a \o b)[Len(a) + i] = b[i]
    <2>1. Len(a) + i \in 1..(Len(a) + Len(b)) /\ ~(Len(a) + i <= Len(a)) /\ (Len(a) + i) - Len(a) = i
      BY <1>2
    <2> QED BY <1>1, <2>1
  <1> QED BY <1>1, <1>3, <1>4

-----------------------------------------------------------------------------
(* The pieces of a text.                                                   *)

LEMMA SplitIsFold ==
    ASSUME NEW ch, NEW p, NEW n \in Nat, DOMAIN p = 1..n
    PROVE  split(p, ch) = Folded("split", ch, p, n)
  <1>1. split(p, ch) =
           (CHOOSE f : f = [s \in SUBSET (1..n) |->
                IF s = {} THEN << << >> >> ELSE
                IF p[Max(s)] = ch THEN Append(f[s \ {Max(s)}], << >>)
                ELSE [f[s \ {Max(s)}] EXCEPT ![Len(f[s \ {Max(s)}])] = Append(@, p[Max(s)])]])[1..n]
    BY DEF split, FoldLeft, MapThenFoldSet
  <1> QED BY <1>1 DEF Folded, Folding, FoldStep, Start

LEMMA SplitEmpty ==
    ASSUME NEW ch
    PROVE  split(<< >>, ch) = << << >> >>
  <1>1. PICK p : p = << >>
    OBVIOUS
  <1>2. split(p, ch) = Folded("split", ch, p, 0)
    <2>1. DOMAIN p = 1..0
      BY <1>1
    <2> QED BY <2>1, SplitIsFold
  <1>3. Folded("split", ch, p, 0) = Start("split")
    BY FoldAppend
  <1> QED BY <1>1, <1>2, <1>3 DEF Start

\* The last piece grows, or a new one begins.
LEMMA SplitAppend ==
    ASSUME NEW S, NEW ch, NEW s \in Seq(S), NEW x \in S
    PROVE  split(Append(s, x), ch) =
              IF x = ch THEN Append(split(s, ch), << >>)
              ELSE [split(s, ch) EXCEPT ![Len(split(s, ch))] = Append(@, x)]
  <1>1. PICK n \in Nat : n = Len(s)
    OBVIOUS
  <1>2. PICK q : q = Append(s, x)
    OBVIOUS
  <1>3. /\ DOMAIN s = 1..n
        /\ DOMAIN q = 1..(n + 1)
        /\ q[n + 1] = x
        /\ \A i \in 1..n : q[i] = s[i]
    BY <1>1, <1>2
  <1>4. split(s, ch) = Folded("split", ch, s, n)
    BY <1>3, SplitIsFold
  <1>5. split(q, ch) = Folded("split", ch, q, n + 1)
    <2>1. n + 1 \in Nat
      OBVIOUS
    <2> QED BY <1>3, <2>1, SplitIsFold
  <1>6. Folded("split", ch, q, n + 1) = FoldStep("split", ch, Folded("split", ch, s, n), q[n + 1])
    BY <1>3, FoldAppend
  <1>7. split(q, ch) = FoldStep("split", ch, split(s, ch), x)
    BY <1>3, <1>4, <1>5, <1>6
  <1>8. \A acc : FoldStep("split", ch, acc, x) = IF x = ch THEN Append(acc, << >>)
                                              ELSE [acc EXCEPT ![Len(acc)] = Append(@, x)]
    BY DEF FoldStep
  <1> QED BY <1>2, <1>7, <1>8

\* A text without the character.
Free(s, ch) == \A i \in 1..Len(s) : s[i] # ch

\* There is at least one piece, and no piece has the character.
Pieces(S, ch, p) ==
    /\ p \in Seq(Seq(S))
    /\ Len(p) >= 1
    /\ \A i \in 1..Len(p) : Free(p[i], ch)

LEMMA SplitPieces ==
    ASSUME NEW S, NEW ch, NEW s \in Seq(S)
    PROVE  Pieces(S, ch, split(s, ch))
  <1> DEFINE T == {t \in Seq(S) : Pieces(S, ch, split(t, ch))}
  <1>1. << >> \in T
    <2>1. PICK p : p = << << >> >>
      OBVIOUS
    <2>2. p \in Seq(Seq(S)) /\ Len(p) = 1 /\ p[1] = << >>
      BY <2>1
    <2>3. Pieces(S, ch, p)
      BY <2>2 DEF Pieces, Free
    <2>4. split(<< >>, ch) = p
      BY <2>1, SplitEmpty
    <2> QED BY <2>3, <2>4
  <1>2. ASSUME NEW t \in Seq(S), NEW x \in S, t \in T PROVE Append(t, x) \in T
    <2>1. PICK p : p = split(t, ch)
      OBVIOUS
    <2>2. Pieces(S, ch, p)
      BY <1>2, <2>1
    <2>3. p \in Seq(Seq(S)) /\ Len(p) \in 1..Len(p) /\ \A i \in 1..Len(p) : Free(p[i], ch)
      BY <2>2 DEF Pieces
    <2>4. PICK r : r = split(Append(t, x), ch)
      OBVIOUS
    <2>5. CASE x = ch
      <3>1. r = Append(p, << >>)
        BY <2>1, <2>4, <2>5, SplitAppend
      <3>2. /\ r \in Seq(Seq(S)) /\ Len(r) = Len(p) + 1
            /\ \A i \in 1..Len(p) : r[i] = p[i]
            /\ r[Len(p) + 1] = << >>
        BY <2>3, <3>1
      <3>3. Free(<< >>, ch)
        BY DEF Free
      <3>4. ASSUME NEW i \in 1..Len(r) PROVE Free(r[i], ch)
        <4>1. i \in 1..Len(p) \/ i = Len(p) + 1
          BY <2>3, <3>2
        <4> QED BY <2>3, <3>2, <3>3, <4>1
      <3>5. Len(r) >= 1
        BY <2>3, <3>2
      <3>6. Pieces(S, ch, r)
        BY <3>2, <3>4, <3>5 DEF Pieces
      <3> QED BY <2>4, <3>6
    <2>6. CASE x # ch
      <3>1. PICK y : y = Append(p[Len(p)], x)
        OBVIOUS
      <3>2. p[Len(p)] \in Seq(S)
        BY <2>3
      <3>3. y \in Seq(S) /\ Free(y, ch)
        <4>1. /\ y \in Seq(S) /\ Len(y) = Len(p[Len(p)]) + 1
              /\ \A i \in 1..Len(p[Len(p)]) : y[i] = p[Len(p)][i]
              /\ y[Len(p[Len(p)]) + 1] = x
          BY <3>1, <3>2, AppendProperties
        <4>2. Free(p[Len(p)], ch) /\ Len(p[Len(p)]) \in Nat
          BY <2>3, <3>2
        <4> QED BY <2>6, <4>1, <4>2 DEF Free
      <3>4. r = [p EXCEPT ![Len(p)] = y]
        BY <2>1, <2>4, <2>6, <3>1, SplitAppend
      <3>5. /\ [p EXCEPT ![Len(p)] = y] \in Seq(Seq(S))
            /\ Len([p EXCEPT ![Len(p)] = y]) = Len(p)
            /\ \A j \in 1..Len(p) : [p EXCEPT ![Len(p)] = y][j] = IF j = Len(p) THEN y ELSE p[j]
        BY <2>3, <3>3, ExceptSeq
      <3>6. ASSUME NEW i \in 1..Len(r) PROVE Free(r[i], ch)
        BY <2>3, <3>3, <3>4, <3>5
      <3>7. Len(r) >= 1
        BY <2>3, <3>4, <3>5
      <3>8. Pieces(S, ch, r)
        BY <3>4, <3>5, <3>6, <3>7 DEF Pieces
      <3> QED BY <2>4, <3>8
    <2> QED BY <2>5, <2>6
  <1>3. \A t \in Seq(S) : t \in T
    <2> HIDE DEF T
    <2> QED BY <1>1, <1>2, TextInduction
  <1> QED BY <1>3

\* A text without the character is its only piece.
LEMMA SplitFree ==
    ASSUME NEW S, NEW ch, NEW s \in Seq(S), Free(s, ch)
    PROVE  split(s, ch) = << s >>
  <1> DEFINE T == {t \in Seq(S) : Free(t, ch) => split(t, ch) = << t >>}
  <1>1. << >> \in T
    BY SplitEmpty
  <1>2. ASSUME NEW t \in Seq(S), NEW x \in S, t \in T PROVE Append(t, x) \in T
    <2> SUFFICES ASSUME Free(Append(t, x), ch) PROVE split(Append(t, x), ch) = << Append(t, x) >>
      OBVIOUS
    <2>1. Free(t, ch) /\ x # ch
      <3>1. /\ Len(Append(t, x)) = Len(t) + 1 /\ Len(t) \in Nat
            /\ \A i \in 1..Len(t) : Append(t, x)[i] = t[i]
            /\ Append(t, x)[Len(t) + 1] = x
        BY AppendProperties
      <3> QED BY <3>1 DEF Free
    <2>2. split(t, ch) = << t >>
      BY <1>2, <2>1
    <2>3. PICK p, y : p = << t >> /\ y = Append(t, x)
      OBVIOUS
    <2>4. split(Append(t, x), ch) = [p EXCEPT ![Len(p)] = Append(@, x)]
      BY <2>1, <2>2, <2>3, SplitAppend
    <2>5. [p EXCEPT ![Len(p)] = Append(@, x)] = << y >>
      BY <2>3
    <2> QED BY <2>3, <2>4, <2>5
  <1>3. \A t \in Seq(S) : t \in T
    <2> HIDE DEF T
    <2> QED BY <1>1, <1>2, TextInduction
  <1> QED BY <1>3

\* Appending after joining.
LEMMA ConcatAppend ==
    ASSUME NEW S, NEW a \in Seq(S), NEW b \in Seq(S), NEW x \in S
    PROVE  a \o Append(b, x) = Append(a \o b, x)
  <1>1. PICK e : e = << x >>
    OBVIOUS
  <1>2. e \in Seq(S)
    BY <1>1
  <1>3. a \o b \in Seq(S)
    BY ConcatProperties
  <1>4. Append(b, x) = b \o e /\ Append(a \o b, x) = (a \o b) \o e
    BY <1>1, <1>3, AppendIsConcat
  <1>5. (a \o b) \o e = a \o (b \o e)
    BY <1>2, ConcatAssociative
  <1> QED BY <1>4, <1>5

\* Changing the end of what follows.
LEMMA ConcatExcept ==
    ASSUME NEW S, NEW a \in Seq(S), NEW b \in Seq(S), Len(b) >= 1, NEW y \in S
    PROVE  [a \o b EXCEPT ![Len(a \o b)] = y] = a \o [b EXCEPT ![Len(b)] = y]
  <1>1. PICK c : c = a \o b
    OBVIOUS
  <1>2. PICK d : d = [b EXCEPT ![Len(b)] = y]
    OBVIOUS
  <1>3. /\ c \in Seq(S)
        /\ Len(c) = Len(a) + Len(b)
        /\ \A i \in 1..(Len(a) + Len(b)) : c[i] = IF i <= Len(a) THEN a[i] ELSE b[i - Len(a)]
    BY <1>1, ConcatProperties
  <1>4. Len(a) \in Nat /\ Len(b) \in Nat /\ Len(b) \in 1..Len(b) /\ Len(c) \in 1..Len(c)
    BY <1>3
  <1>5. d \in Seq(S) /\ Len(d) = Len(b) /\ \A j \in 1..Len(b) : d[j] = IF j = Len(b) THEN y ELSE b[j]
    BY <1>2, <1>4, ExceptSeq
  <1>6. /\ a \o d \in Seq(S)
        /\ Len(a \o d) = Len(a) + Len(d)
        /\ \A i \in 1..(Len(a) + Len(d)) : (a \o d)[i] = IF i <= Len(a) THEN a[i] ELSE d[i - Len(a)]
    BY <1>5, ConcatProperties
  <1>7. PICK e : e = [c EXCEPT ![Len(c)] = y]
    OBVIOUS
  <1>8. e \in Seq(S) /\ Len(e) = Len(c) /\ \A j \in 1..Len(c) : e[j] = IF j = Len(c) THEN y ELSE c[j]
    BY <1>3, <1>4, <1>7, ExceptSeq
  <1>9. ASSUME NEW i \in 1..Len(e) PROVE e[i] = (a \o d)[i]
    <2>1. CASE i <= Len(a)
      BY <1>3, <1>4, <1>5, <1>6, <1>8, <2>1
    <2>2. CASE ~(i <= Len(a))
      <3>1. PICK j : j = i - Len(a)
        OBVIOUS
      <3>2. j \in 1..Len(b) /\ (j = Len(b) <=> i = Len(c)) /\ i \in 1..(Len(a) + Len(b))
        BY <1>3, <1>4, <1>8, <2>2, <3>1
      <3>3. (a \o d)[i] = d[j] /\ c[i] = b[j]
        BY <1>3, <1>5, <1>6, <2>2, <3>1, <3>2
      <3> QED BY <1>3, <1>5, <1>8, <3>2, <3>3
    <2> QED BY <2>1, <2>2
  <1>10. e = a \o d
    BY <1>3, <1>5, <1>6, <1>8, <1>9, SeqEqual
  <1> QED BY <1>1, <1>2, <1>7, <1>10

\* The pieces on both sides of the character.
LEMMA SplitConcat ==
    ASSUME NEW S, NEW ch \in S, NEW s \in Seq(S), NEW t \in Seq(S)
    PROVE  split(s \o << ch >> \o t, ch) = split(s, ch) \o split(t, ch)
  <1>1. PICK a : a = s \o << ch >>
    OBVIOUS
  <1>2. PICK P : P = split(s, ch)
    OBVIOUS
  <1>3. P \in Seq(Seq(S))
    BY <1>2, SplitPieces DEF Pieces
  <1>4. a = Append(s, ch) /\ a \in Seq(S)
    BY <1>1, AppendIsConcat, AppendProperties
  <1>5. split(a, ch) = Append(P, << >>)
    BY <1>2, <1>4, SplitAppend
  <1> DEFINE T == {u \in Seq(S) : split(a \o u, ch) = P \o split(u, ch)}
  <1>6. << >> \in T
    <2>1. a \o << >> = a
      BY <1>4, ConcatEmptySeq
    <2>2. PICK e : e = << >>
      OBVIOUS
    <2>3. e \in Seq(S)
      BY <2>2
    <2>4. Append(P, e) = P \o << e >>
      BY <1>3, <2>3, AppendIsConcat
    <2>5. split(<< >>, ch) = << e >>
      BY <2>2, SplitEmpty
    <2> QED BY <1>5, <2>1, <2>2, <2>3, <2>4, <2>5
  <1>7. ASSUME NEW u \in Seq(S), NEW x \in S, u \in T PROVE Append(u, x) \in T
    <2>1. PICK Q : Q = split(u, ch)
      OBVIOUS
    <2>2. Q \in Seq(Seq(S)) /\ Len(Q) >= 1
      BY <2>1, SplitPieces DEF Pieces
    <2>8. PICK b : b = a \o u
      OBVIOUS
    <2>3. a \o Append(u, x) = Append(b, x) /\ b \in Seq(S) /\ Append(u, x) \in Seq(S)
      BY <1>4, <2>8, ConcatAppend, ConcatProperties, AppendProperties
    <2>4. PICK R : R = P \o Q
      OBVIOUS
    <2>5. split(b, ch) = R /\ R \in Seq(Seq(S)) /\ Len(R) = Len(P) + Len(Q)
      BY <1>3, <1>7, <2>1, <2>2, <2>4, <2>8, ConcatProperties
    <2>6. CASE x = ch
      <3>1. split(Append(b, x), ch) = Append(R, << >>)
        BY <2>3, <2>5, <2>6, SplitAppend
      <3>2. split(Append(u, x), ch) = Append(Q, << >>)
        BY <2>1, <2>6, SplitAppend
      <3>3. PICK e : e = << >>
        OBVIOUS
      <3>4. e \in Seq(S)
        BY <3>3
      <3>5. P \o Append(Q, e) = Append(P \o Q, e)
        BY <1>3, <2>2, <3>4, ConcatAppend
      <3> QED BY <2>3, <2>4, <3>1, <3>2, <3>3, <3>5
    <2>7. CASE x # ch
      <3>1. split(Append(b, x), ch) = [R EXCEPT ![Len(R)] = Append(@, x)]
        <4>1. split(b, ch) = R /\ b \in Seq(S)
          BY <2>3, <2>5
        <4> QED BY <2>7, <4>1, SplitAppend
      <3>2. split(Append(u, x), ch) = [Q EXCEPT ![Len(Q)] = Append(@, x)]
        BY <2>1, <2>7, SplitAppend
      <3>3. Len(P) \in Nat /\ Len(Q) \in Nat /\ R[Len(R)] = Q[Len(Q)] /\ Q[Len(Q)] \in Seq(S)
        <4>1. \A i \in 1..Len(Q) : (P \o Q)[Len(P) + i] = Q[i]
          BY <1>3, <2>2, ConcatFacts
        <4>2. Len(P) \in Nat /\ Len(Q) \in Nat /\ Len(Q) \in 1..Len(Q)
          BY <1>3, <2>2
        <4> QED BY <2>2, <2>4, <2>5, <4>1, <4>2
      <3>4. PICK y : y = Append(Q[Len(Q)], x)
        OBVIOUS
      <3>5. y \in Seq(S)
        BY <3>3, <3>4, AppendProperties
      <3>6. [R EXCEPT ![Len(R)] = Append(@, x)] = [R EXCEPT ![Len(R)] = y]
        BY <3>3, <3>4
      <3>7. [Q EXCEPT ![Len(Q)] = Append(@, x)] = [Q EXCEPT ![Len(Q)] = y]
        BY <3>4
      <3>8. [P \o Q EXCEPT ![Len(P \o Q)] = y] = P \o [Q EXCEPT ![Len(Q)] = y]
        BY <1>3, <2>2, <3>5, ConcatExcept
      <3> QED BY <2>3, <2>4, <3>1, <3>2, <3>6, <3>7, <3>8
    <2> QED BY <2>6, <2>7
  <1>8. \A u \in Seq(S) : u \in T
    <2> HIDE DEF T
    <2> QED BY <1>6, <1>7, TextInduction
  <1> QED BY <1>1, <1>2, <1>8

\* What stands in front of the first piece is joined to it.
LEMMA SplitPrefix ==
    ASSUME NEW S, NEW ch, NEW w \in Seq(S), Free(w, ch), NEW t \in Seq(S)
    PROVE  split(w \o t, ch) = [split(t, ch) EXCEPT ![1] = w \o @]
  <1> DEFINE T == {u \in Seq(S) : split(w \o u, ch) = [split(u, ch) EXCEPT ![1] = w \o @]}
  <1>1. << >> \in T
    <2>1. PICK e : e = << >>
      OBVIOUS
    <2>2. w \o e = w /\ e \in Seq(S)
      BY <2>1, ConcatEmptySeq
    <2>3. split(w, ch) = << w >>
      BY SplitFree
    <2>4. PICK p : p = << e >>
      OBVIOUS
    <2>5. [p EXCEPT ![1] = w \o @] = << w >>
      <3>1. p[1] = e /\ w \o p[1] = w
        BY <2>2, <2>4
      <3>2. [p EXCEPT ![1] = w] = << w >>
        BY <2>4
      <3> QED BY <3>1, <3>2
    <2>6. split(e, ch) = p
      BY <2>1, <2>4, SplitEmpty
    <2> QED BY <2>1, <2>2, <2>3, <2>5, <2>6
  <1>2. ASSUME NEW u \in Seq(S), NEW x \in S, u \in T PROVE Append(u, x) \in T
    <2>1. PICK Q : Q = split(u, ch)
      OBVIOUS
    <2>2. Q \in Seq(Seq(S)) /\ Len(Q) \in Nat /\ Len(Q) >= 1 /\ Q[1] \in Seq(S)
      BY <2>1, SplitPieces DEF Pieces
    <2>12. PICK b : b = w \o u
      OBVIOUS
    <2>3. w \o Append(u, x) = Append(b, x) /\ b \in Seq(S) /\ Append(u, x) \in Seq(S)
      BY <2>12, ConcatAppend, ConcatProperties, AppendProperties
    <2>4. PICK R : R = [Q EXCEPT ![1] = w \o @]
      OBVIOUS
    <2>5. w \o Q[1] \in Seq(S)
      BY <2>2, ConcatProperties
    <2>6. /\ R \in Seq(Seq(S)) /\ Len(R) = Len(Q)
          /\ \A j \in 1..Len(Q) : R[j] = IF j = 1 THEN w \o Q[1] ELSE Q[j]
      <3>1. PICK y : y = w \o Q[1]
        OBVIOUS
      <3>2. R = [Q EXCEPT ![1] = y] /\ y \in Seq(S) /\ 1 \in 1..Len(Q)
        BY <2>2, <2>4, <2>5, <3>1
      <3> QED BY <2>2, <3>1, <3>2, ExceptSeq
    <2>7. split(b, ch) = R
      BY <1>2, <2>1, <2>4, <2>12
    <2>8. PICK Q2 : Q2 = split(Append(u, x), ch)
      OBVIOUS
    <2>9. PICK R2 : R2 = split(Append(b, x), ch)
      OBVIOUS
    <2>10. CASE x = ch
      <3>1. R2 = Append(R, << >>) /\ Q2 = Append(Q, << >>)
        BY <2>1, <2>3, <2>7, <2>8, <2>9, <2>10, SplitAppend
      <3>2. [Append(Q, << >>) EXCEPT ![1] = w \o @] = Append(R, << >>)
        <4>1. PICK e \in Seq(S) : e = << >>
          BY EmptySeq
        <4>2. /\ Append(Q, e) \in Seq(Seq(S)) /\ Len(Append(Q, e)) = Len(Q) + 1
              /\ \A i \in 1..Len(Q) : Append(Q, e)[i] = Q[i]
              /\ Append(Q, e)[Len(Q) + 1] = e
          BY <2>2, AppendProperties
        <4>3. /\ Append(R, e) \in Seq(Seq(S)) /\ Len(Append(R, e)) = Len(R) + 1
              /\ \A i \in 1..Len(R) : Append(R, e)[i] = R[i]
              /\ Append(R, e)[Len(R) + 1] = e
          BY <2>6, AppendProperties
        <4>4. PICK A, y : A = Append(Q, e) /\ y = w \o Q[1]
          OBVIOUS
        <4>5. A \in Seq(Seq(S)) /\ 1 \in 1..Len(A) /\ y \in Seq(S) /\ A[1] = Q[1]
          BY <2>2, <2>5, <4>2, <4>4
        <4>6. PICK B : B = [A EXCEPT ![1] = y]
          OBVIOUS
        <4>7. B \in Seq(Seq(S)) /\ Len(B) = Len(A) /\ \A j \in 1..Len(A) : B[j] = IF j = 1 THEN y ELSE A[j]
          BY <4>5, <4>6, ExceptSeq
        <4>8. ASSUME NEW i \in 1..Len(B) PROVE B[i] = Append(R, e)[i]
          <5>1. CASE i = Len(Q) + 1
            BY <2>2, <2>6, <4>2, <4>3, <4>4, <4>7, <5>1
          <5>2. CASE i # Len(Q) + 1
            <6>1. i \in 1..Len(Q) /\ i \in 1..Len(A)
              BY <2>2, <4>2, <4>4, <4>7, <5>2
            <6> QED BY <2>6, <4>2, <4>3, <4>4, <4>7, <6>1
          <5> QED BY <5>1, <5>2
        <4>9. B = Append(R, e)
          <5>1. Append(R, e) \in Seq(Seq(S)) /\ B \in Seq(Seq(S)) /\ Len(B) = Len(Append(R, e))
            BY <2>6, <4>2, <4>3, <4>4, <4>7
          <5> QED BY <4>8, <5>1, SeqEqual
        <4> QED BY <4>1, <4>4, <4>5, <4>6, <4>9
      <3> QED BY <2>3, <2>8, <2>9, <3>1, <3>2
    <2>11. CASE x # ch
      <3>1. R2 = [R EXCEPT ![Len(R)] = Append(@, x)] /\ Q2 = [Q EXCEPT ![Len(Q)] = Append(@, x)]
        <4>1. b \in Seq(S) /\ split(b, ch) = R
          BY <2>3, <2>7
        <4>2. R2 = [R EXCEPT ![Len(R)] = Append(@, x)]
          BY <2>9, <2>11, <4>1, SplitAppend
        <4> QED BY <2>1, <2>8, <2>11, <4>2, SplitAppend
      <3>2. DOMAIN R = 1..Len(Q) /\ DOMAIN Q = 1..Len(Q)
        BY <2>2, <2>6
      <3>3. w \o Append(Q[1], x) = Append(w \o Q[1], x)
        BY <2>2, ConcatAppend
      <3>4. ASSUME NEW i \in 1..Len(Q) PROVE R2[i] = [Q2 EXCEPT ![1] = w \o @][i]
        <4>1. Q2[i] = IF i = Len(Q) THEN Append(Q[i], x) ELSE Q[i]
          BY <3>1, <3>2
        <4>2. R2[i] = IF i = Len(Q) THEN Append(R[i], x) ELSE R[i]
          BY <2>6, <3>1, <3>2
        <4>3. DOMAIN Q2 = 1..Len(Q)
          BY <3>1, <3>2
        <4>4. [Q2 EXCEPT ![1] = w \o @][i] = IF i = 1 THEN w \o Q2[i] ELSE Q2[i]
          BY <4>3
        <4>5. R[i] = IF i = 1 THEN w \o Q[1] ELSE Q[i]
          BY <2>6
        <4>6. CASE i = 1
          BY <3>3, <4>1, <4>2, <4>4, <4>5, <4>6
        <4>7. CASE i # 1
          BY <4>1, <4>2, <4>4, <4>5, <4>7
        <4> QED BY <4>6, <4>7
      <3>5. R2 = [Q2 EXCEPT ![1] = w \o @]
        BY <3>1, <3>2, <3>4
      <3> QED BY <2>3, <2>8, <2>9, <3>5
    <2> QED BY <2>10, <2>11
  <1>3. \A u \in Seq(S) : u \in T
    <2> HIDE DEF T
    <2> QED BY <1>1, <1>2, TextInduction
  <1> QED BY <1>3

(***************************************************************************)
(* FlattenSeq, with which the writers put a text together, computes        *)
(* through the function that this equation defines.                        *)
(***************************************************************************)
Flattening(p, n, f) == f = [i \in 1..n |-> IF i = 1 THEN p[i] ELSE f[i - 1] \o p[i]]

LEMMA FlatteningExists ==
    ASSUME NEW p, NEW n \in Nat
    PROVE  \E f : Flattening(p, n, f)
  <1> DEFINE Bad == {k \in Nat : ~\E f : Flattening(p, k, f)}
  <1> SUFFICES ASSUME Bad # {} PROVE FALSE
    OBVIOUS
  <1>1. PICK k : k = Min(Bad)
    OBVIOUS
  <1>2. k \in Bad /\ \A i \in Bad : k <= i
    <2>1. Bad \in SUBSET Nat
      OBVIOUS
    <2> HIDE DEF Bad
    <2> QED BY <1>1, <2>1, FirstPosition
  <1>3. CASE k = 0
    <2> DEFINE g == [i \in 1..0 |-> p[i]]
    <2>1. Flattening(p, 0, g)
      BY DEF Flattening
    <2> QED BY <1>2, <1>3, <2>1
  <1>4. CASE k # 0
    <2>1. k \in Nat /\ k - 1 \in Nat /\ ~(k <= k - 1)
      BY <1>2, <1>4
    <2>2. PICK f : Flattening(p, k - 1, f)
      BY <1>2, <2>1
    <2> DEFINE g == [i \in 1..k |-> IF i = 1 THEN p[i] ELSE f[i - 1] \o p[i]]
    <2>3. ASSUME NEW i \in 1..k
          PROVE  g[i] = IF i = 1 THEN p[i] ELSE g[i - 1] \o p[i]
      <3>1. CASE i = 1
        BY <3>1
      <3>2. CASE i # 1
        <4>1. i - 1 \in 1..(k - 1) /\ i - 1 \in 1..k
          BY <2>1, <3>2
        <4>2. f[i - 1] = IF i - 1 = 1 THEN p[i - 1] ELSE f[(i - 1) - 1] \o p[i - 1]
          BY <2>2, <4>1 DEF Flattening
        <4>3. g[i - 1] = f[i - 1]
          BY <4>1, <4>2
        <4> QED BY <3>2, <4>3
      <3> QED BY <3>1, <3>2
    <2>4. Flattening(p, k, g)
      <3>1. g = [i \in 1..k |-> g[i]]
        OBVIOUS
      <3> HIDE DEF g
      <3> QED BY <2>3, <3>1 DEF Flattening
    <2> QED BY <1>2, <2>1, <2>4
  <1> QED BY <1>3, <1>4

LEMMA FlattenRuns ==
    ASSUME NEW p, NEW n \in Nat, n # 0, Len(p) = n
    PROVE  \E f : Flattening(p, n, f) /\ f[n] = FlattenSeq(p)
  <1>1. FlattenSeq(p) = (CHOOSE f : Flattening(p, n, f))[n]
    BY DEF FlattenSeq, Flattening
  <1>2. PICK f : f = CHOOSE g : Flattening(p, n, g)
    OBVIOUS
  <1>3. Flattening(p, n, f)
    BY <1>2, FlatteningExists
  <1> QED BY <1>1, <1>2, <1>3

\* One more text is joined at the end.
LEMMA FlattenAppend ==
    ASSUME NEW S, NEW p \in Seq(Seq(S)), NEW x \in Seq(S)
    PROVE  FlattenSeq(Append(p, x)) = FlattenSeq(p) \o x
  <1>1. PICK n : n = Len(p)
    OBVIOUS
  <1>2. PICK q : q = Append(p, x)
    OBVIOUS
  <1>3. /\ n \in Nat /\ n + 1 \in Nat /\ n + 1 # 0 /\ Len(q) = n + 1
        /\ \A i \in 1..n : q[i] = p[i]
        /\ q[n + 1] = x
    BY <1>1, <1>2, AppendProperties
  <1>4. PICK g : Flattening(q, n + 1, g) /\ g[n + 1] = FlattenSeq(q)
    BY <1>3, FlattenRuns
  <1>5. \A i \in 1..(n + 1) : g[i] = IF i = 1 THEN q[i] ELSE g[i - 1] \o q[i]
    BY <1>4 DEF Flattening
  <1>6. CASE n = 0
    <2>1. p = << >>
      BY <1>1, <1>6, EmptySeq
    <2>2. FlattenSeq(p) = << >>
      BY <2>1 DEF FlattenSeq
    <2>3. FlattenSeq(q) = x
      BY <1>3, <1>4, <1>5, <1>6
    <2> QED BY <1>2, <2>2, <2>3, ConcatEmptySeq
  <1>7. CASE n # 0
    <2>1. PICK f : Flattening(p, n, f) /\ f[n] = FlattenSeq(p)
      BY <1>1, <1>3, <1>7, FlattenRuns
    <2>2. \A i \in 1..n : f[i] = IF i = 1 THEN p[i] ELSE f[i - 1] \o p[i]
      BY <2>1 DEF Flattening
    <2> DEFINE Bad == {k \in 1..n : g[k] # f[k]}
    <2>3. ASSUME Bad # {} PROVE FALSE
      <3>1. PICK k : k = Min(Bad)
        OBVIOUS
      <3>2. k \in Bad /\ \A i \in Bad : k <= i
        <4>1. Bad \in SUBSET Nat
          OBVIOUS
        <4> HIDE DEF Bad
        <4> QED BY <2>3, <3>1, <4>1, FirstPosition
      <3>3. k \in 1..n /\ k \in 1..(n + 1) /\ q[k] = p[k] /\ g[k] # f[k]
        BY <1>3, <3>2
      <3>4. CASE k = 1
        BY <1>5, <2>2, <3>3, <3>4
      <3>5. CASE k # 1
        <4>1. k - 1 \in 1..n /\ ~(k <= k - 1)
          BY <1>3, <3>3, <3>5
        <4>2. g[k - 1] = f[k - 1]
          BY <3>2, <4>1
        <4> QED BY <1>5, <2>2, <3>3, <3>5, <4>2
      <3> QED BY <3>4, <3>5
    <2>4. n \in 1..n /\ n + 1 \in 1..(n + 1) /\ n + 1 # 1 /\ (n + 1) - 1 = n
      BY <1>3, <1>7
    <2>5. g[n] = f[n]
      BY <2>3, <2>4
    <2>6. g[n + 1] = g[n] \o x
      BY <1>3, <1>5, <2>4
    <2> QED BY <1>2, <1>4, <2>1, <2>5, <2>6
  <1> QED BY <1>6, <1>7

LEMMA FlattenEmpty == FlattenSeq(<< >>) = << >>
  BY DEF FlattenSeq

LEMMA FlattenText ==
    ASSUME NEW S, NEW p \in Seq(Seq(S))
    PROVE  FlattenSeq(p) \in Seq(S)
  <1> DEFINE T == {q \in Seq(Seq(S)) : FlattenSeq(q) \in Seq(S)}
  <1>1. << >> \in T
    <2>1. << >> \in Seq(S) /\ << >> \in Seq(Seq(S))
      BY EmptySeq
    <2> QED BY <2>1, FlattenEmpty
  <1>2. ASSUME NEW q \in Seq(Seq(S)), NEW x \in Seq(S), q \in T PROVE Append(q, x) \in T
    <2>1. FlattenSeq(Append(q, x)) = FlattenSeq(q) \o x
      BY FlattenAppend
    <2>2. FlattenSeq(q) \in Seq(S) /\ Append(q, x) \in Seq(Seq(S))
      BY <1>2, AppendProperties
    <2> QED BY <2>1, <2>2, ConcatProperties
  <1>3. \A q \in Seq(Seq(S)) : q \in T
    <2> HIDE DEF T
    <2> QED BY <1>1, <1>2, TextInduction
  <1> QED BY <1>3

-----------------------------------------------------------------------------
(* What the searches find in a text that was put together.                 *)

\* The two parts of a text.
LEMMA ConcatParts ==
    ASSUME NEW S, NEW a \in Seq(S), NEW b \in Seq(S)
    PROVE  /\ SubSeq(a \o b, 1, Len(a)) = a
           /\ SubSeq(a \o b, Len(a) + 1, Len(a) + Len(b)) = b
  <1>1. PICK c : c = a \o b
    OBVIOUS
  <1>2. /\ c \in Seq(S)
        /\ Len(c) = Len(a) + Len(b)
        /\ \A i \in 1..Len(a) : c[i] = a[i]
        /\ \A i \in 1..Len(b) : c[Len(a) + i] = b[i]
    BY <1>1, ConcatFacts
  <1>3. Len(a) \in Nat /\ Len(b) \in Nat
    OBVIOUS
  <1>4. SubSeq(c, 1, Len(a)) = a
    <2>1. \A i \in 1..Len(a) : c[i] \in S
      BY <1>2
    <2>2. /\ SubSeq(c, 1, Len(a)) \in Seq(S)
          /\ Len(SubSeq(c, 1, Len(a))) = IF 1 <= Len(a) THEN Len(a) - 1 + 1 ELSE 0
          /\ \A i \in 1..(Len(a) - 1 + 1) : SubSeq(c, 1, Len(a))[i] = c[1 + i - 1]
      BY <1>3, <2>1, SubSeqProperties
    <2>3. Len(SubSeq(c, 1, Len(a))) = Len(a) /\ \A i \in 1..Len(a) : SubSeq(c, 1, Len(a))[i] = a[i]
      BY <1>2, <1>3, <2>2
    <2> QED BY <2>2, <2>3, SeqEqual
  <1>5. SubSeq(c, Len(a) + 1, Len(a) + Len(b)) = b
    <2>1. PICK m : m = Len(a) + 1
      OBVIOUS
    <2>2. PICK k : k = Len(a) + Len(b)
      OBVIOUS
    <2>3. m \in Int /\ k \in Int /\ k - m + 1 = Len(b) /\ Len(c) = k
      BY <1>2, <1>3, <2>1, <2>2
    <2>4. \A i \in m..k : c[i] \in S
      <3>1. \A i \in m..k : i \in 1..Len(c)
        BY <1>3, <2>1, <2>3
      <3> QED BY <1>2, <3>1, ElementOfSeq
    <2>5. /\ SubSeq(c, m, k) \in Seq(S)
          /\ Len(SubSeq(c, m, k)) = IF m <= k THEN k - m + 1 ELSE 0
          /\ \A i \in 1..(k - m + 1) : SubSeq(c, m, k)[i] = c[m + i - 1]
      BY <2>3, <2>4, SubSeqProperties
    <2>6. Len(SubSeq(c, m, k)) = Len(b)
      BY <1>3, <2>1, <2>2, <2>5
    <2>7. ASSUME NEW i \in 1..Len(b) PROVE SubSeq(c, m, k)[i] = b[i]
      <3>1. m + i - 1 = Len(a) + i
        BY <1>3, <2>1
      <3> QED BY <1>2, <2>3, <2>5, <3>1
    <2>8. SubSeq(c, m, k) = b
      BY <2>5, <2>6, <2>7, SeqEqual
    <2> QED BY <2>1, <2>2, <2>8
  <1> QED BY <1>1, <1>4, <1>5

\* find returns the first occurrence from a position on.
LEMMA FindFirst ==
    ASSUME NEW s, NEW ch, NEW from \in Nat \ {0}, Len(s) \in Nat, NEW n \in from..Len(s),
           s[n] = ch, \A i \in from..(n - 1) : s[i] # ch
    PROVE  find(s, ch, from) = n
  <1>1. PICK m : m = find(s, ch, from)
    OBVIOUS
  <1>2. /\ m \in Nat
        /\ m = NPos => \A i \in from..Len(s) : s[i] # ch
        /\ m # NPos => /\ m \in from..Len(s)
                       /\ s[m] = ch
                       /\ \A i \in from..(m - 1) : s[i] # ch
    BY <1>1, FindFacts
  <1>3. m # NPos
    BY <1>2
  <1>4. ~(m < n) /\ ~(n < m)
    BY <1>2, <1>3
  <1>5. m = n
    BY <1>2, <1>3, <1>4
  <1> QED BY <1>1, <1>5

LEMMA FindNone ==
    ASSUME NEW s, NEW ch, NEW from \in Nat \ {0}, Len(s) \in Nat, \A i \in from..Len(s) : s[i] # ch
    PROVE  find(s, ch, from) = NPos
  <1>1. PICK m : m = find(s, ch, from)
    OBVIOUS
  <1>2. m # NPos => m \in from..Len(s) /\ s[m] = ch
    BY <1>1, FindFacts
  <1> QED BY <1>1, <1>2

\* rfind returns the last occurrence.
LEMMA RfindLast ==
    ASSUME NEW s, NEW ch, Len(s) \in Nat, NEW n \in 1..Len(s),
           s[n] = ch, \A i \in (n + 1)..Len(s) : s[i] # ch
    PROVE  rfind(s, ch) = n
  <1> DEFINE I == {i \in 1..Len(s) : s[i] = ch}
  <1>1. rfind(s, ch) = IF I # {} THEN Max(I) ELSE 0
    BY DEF rfind, SelectLastInSeq
  <1>2. n \in I /\ I \in SUBSET Nat /\ \A i \in I : i <= n
    OBVIOUS
  <1>3. Max(I) = n
    <2> HIDE DEF I
    <2> QED BY <1>2, MaxIs
  <1> QED BY <1>1, <1>2, <1>3

LEMMA RfindNone ==
    ASSUME NEW s, NEW ch, \A i \in 1..Len(s) : s[i] # ch
    PROVE  rfind(s, ch) = NPos
  BY DEF rfind, SelectLastInSeq, NPos

\* A text that is split in two at its last occurrence of a character.
LEMMA RfindConcat ==
    ASSUME NEW S, NEW ch \in S, NEW a \in Seq(S), NEW b \in Seq(S), Free(b, ch)
    PROVE  /\ a \o << ch >> \o b \in Seq(S)
           /\ Len(a \o << ch >> \o b) = Len(a) + 1 + Len(b)
           /\ rfind(a \o << ch >> \o b, ch) = Len(a) + 1
           /\ SubSeq(a \o << ch >> \o b, 1, Len(a)) = a
           /\ SubSeq(a \o << ch >> \o b, Len(a) + 2, Len(a) + 1 + Len(b)) = b
  <1>1. PICK e : e = << ch >>
    OBVIOUS
  <1>2. e \in Seq(S) /\ Len(e) = 1 /\ e[1] = ch
    BY <1>1
  <1>3. PICK c : c = a \o e
    OBVIOUS
  <1>4. /\ c \in Seq(S)
        /\ Len(c) = Len(a) + 1
        /\ \A i \in 1..Len(a) : c[i] = a[i]
        /\ c[Len(a) + 1] = ch
    <2>1. /\ a \o e \in Seq(S)
          /\ Len(a \o e) = Len(a) + Len(e)
          /\ \A i \in 1..Len(a) : (a \o e)[i] = a[i]
          /\ \A i \in 1..Len(e) : (a \o e)[Len(a) + i] = e[i]
      <3>1. e \in Seq(S)
        BY <1>2
      <3> QED BY <3>1, ConcatFacts
    <2> QED BY <1>2, <1>3, <2>1
  <1>5. PICK s : s = c \o b
    OBVIOUS
  <1>6. /\ s \in Seq(S)
        /\ Len(s) = Len(c) + Len(b)
        /\ \A i \in 1..Len(c) : s[i] = c[i]
        /\ \A i \in 1..Len(b) : s[Len(c) + i] = b[i]
    <2>1. c \in Seq(S)
      BY <1>4
    <2> QED BY <1>5, <2>1, ConcatFacts
  <1>7. PICK n : n = Len(a) + 1
    OBVIOUS
  <1>8. n \in Nat /\ Len(b) \in Nat /\ n \in 1..Len(s) /\ n \in 1..Len(c) /\ s[n] = ch
    BY <1>4, <1>6, <1>7
  <1>9. ASSUME NEW i \in (n + 1)..Len(s) PROVE s[i] # ch
    <2>1. i - n \in 1..Len(b) /\ n + (i - n) = i
      BY <1>4, <1>6, <1>7, <1>8
    <2>2. s[i] = b[i - n]
      BY <1>4, <1>6, <1>7, <2>1
    <2> QED BY <2>1, <2>2 DEF Free
  <1>10. rfind(s, ch) = n
    <2>1. Len(s) \in Nat
      BY <1>6
    <2> QED BY <1>8, <1>9, <2>1, RfindLast
  <1>11. SubSeq(s, Len(c) + 1, Len(c) + Len(b)) = b
    BY <1>4, <1>5, ConcatParts
  <1>12. SubSeq(s, 1, Len(a)) = a
    <2>1. PICK d : d = e \o b
      OBVIOUS
    <2>2. s = a \o d /\ d \in Seq(S)
      BY <1>2, <1>3, <1>5, <2>1, ConcatAssociative, ConcatProperties
    <2> QED BY <2>2, ConcatParts
  <1>13. Len(c) + 1 = Len(a) + 2 /\ Len(c) + Len(b) = Len(a) + 1 + Len(b)
    BY <1>4, <1>8
  <1> QED BY <1>1, <1>3, <1>5, <1>6, <1>7, <1>10, <1>11, <1>12, <1>13

\* A part of a text is a text.
LEMMA BetweenText ==
    ASSUME NEW S, NEW s \in Seq(S), NEW from \in Nat \ {0}, NEW to \in Nat, to <= Len(s) + 1
    PROVE  between(s, from, to) \in Seq(S)
  <1>1. PICK m : m = IF to = NPos \/ to < from THEN Len(s) ELSE to - 1
    OBVIOUS
  <1>2. m \in Int /\ m <= Len(s)
    BY <1>1 DEF NPos
  <1>3. \A i \in from..m : s[i] \in S
    BY <1>2
  <1>4. SubSeq(s, from, m) \in Seq(S)
    BY <1>2, <1>3, SubSeqProperties
  <1> QED BY <1>1, <1>4 DEF between

LEMMA FindPosition ==
    ASSUME NEW S, NEW s \in Seq(S), NEW ch, NEW from \in Nat \ {0}
    PROVE  find(s, ch, from) \in 0..Len(s)
  <1>1. Len(s) \in Nat
    OBVIOUS
  <1> QED BY <1>1, FindFacts DEF NPos

LEMMA RfindPosition ==
    ASSUME NEW S, NEW s \in Seq(S), NEW ch
    PROVE  rfind(s, ch) \in 0..Len(s)
  <1> DEFINE I == {i \in 1..Len(s) : s[i] = ch}
  <1>1. rfind(s, ch) = IF I # {} THEN Max(I) ELSE 0
    BY DEF rfind, SelectLastInSeq
  <1>2. Len(s) \in Nat /\ I \in SUBSET (1..Len(s))
    OBVIOUS
  <1>3. I # {} => Max(I) \in 1..Len(s)
    <2> HIDE DEF I
    <2> QED BY <1>2, LastPosition
  <1> QED BY <1>1, <1>2, <1>3

-----------------------------------------------------------------------------
(* The parser.                                                             *)

\* A key or a value is a part of the text, or empty.
LEMMA QuotedText ==
    ASSUME NEW S, NEW s \in Seq(S)
    PROVE  extract_key(s) \in Seq(S) /\ extract_value(s) \in Seq(S)
  <1>1. \A from \in 0..Len(s) : find(s, Quote, from + 1) \in 0..Len(s)
    BY FindPosition
  <1>2. \A a \in 0..Len(s), b \in 0..Len(s) : Quoted(s, a, b) \in Seq(S)
    <2> SUFFICES ASSUME NEW a \in 0..Len(s), NEW b \in 0..Len(s)
                 PROVE  Quoted(s, a, b) \in Seq(S)
      OBVIOUS
    <2>1. between(s, a + 1, b) \in Seq(S)
      BY BetweenText
    <2> QED BY <2>1 DEF Quoted
  <1>3. find(s, Quote, 1) \in 0..Len(s)
    BY FindPosition
  <1>4. extract_key(s) \in Seq(S)
    BY <1>1, <1>2, <1>3 DEF extract_key
  <1>5. extract_value(s) \in Seq(S)
    BY <1>1, <1>2, <1>3 DEF extract_value
  <1> QED BY <1>4, <1>5

QueryFields == {"cmd", "key", "value", "log_key", "opts", "throws"}

\* A query whose key and value are texts.
IsQuery(S, q) ==
    /\ DOMAIN q = QueryFields
    /\ q.key \in Seq(S)
    /\ q.value \in Seq(S)

LEMMA PredicateText ==
    ASSUME NEW S, NEW q, IsQuery(S, q), NEW s \in Seq(S)
    PROVE  IsQuery(S, process_predicate(q, s))
  <1>1. PICK attr_end : attr_end = find(s, "(", 1)
    OBVIOUS
  <1>2. attr_end \in 0..Len(s)
    BY <1>1, FindPosition
  <1>3. PICK val : val = between(s, attr_end + 1, rfind(s, ")"))
    OBVIOUS
  <1>4. val \in Seq(S)
    <2>1. rfind(s, ")") \in 0..Len(s)
      BY RfindPosition
    <2> QED BY <1>2, <1>3, <2>1, BetweenText
  <1>5. IsQuery(S, Throw(q))
    BY DEF IsQuery, Throw, QueryFields
  <1>6. IsQuery(S, parse_query(q, val))
    <2>1. PICK key, value : key = extract_key(val) /\ value = extract_value(val)
      OBVIOUS
    <2>2. key \in Seq(S) /\ value \in Seq(S)
      BY <1>4, <2>1, QuotedText
    <2>3. PICK cmd_ : cmd_ = tolower(between(val, 1, find(val, "(", 1)))
      OBVIOUS
    <2>4. PICK r : r = [q EXCEPT !.cmd = cmd_]
      OBVIOUS
    <2>5. IsQuery(S, r)
      BY <2>4 DEF IsQuery, QueryFields
    <2>6. \/ parse_query(q, val) = r
          \/ parse_query(q, val) = [r EXCEPT !.log_key = key]
          \/ parse_query(q, val) = [r EXCEPT !.value = value, !.key = key]
          \/ parse_query(q, val) = [r EXCEPT !.key = key]
      BY <2>1, <2>3, <2>4 DEF parse_query
    <2> QED BY <2>2, <2>5, <2>6 DEF IsQuery, QueryFields
  <1>7. ASSUME NEW attr, NEW v PROVE IsQuery(S, parse_option(q, attr, v))
    <2>1. PICK number, names : number = stoi(v) /\ names = set_bitmap(split_comma_string(v))
      OBVIOUS
    <2>2. \/ parse_option(q, attr, v) = Throw(q)
          \/ parse_option(q, attr, v) = [q EXCEPT !.opts[attr] = {v}]
          \/ parse_option(q, attr, v) = [q EXCEPT !.opts[attr] = {number}]
          \/ parse_option(q, attr, v) = [q EXCEPT !.opts[attr] = {names}]
          \/ parse_option(q, attr, v) = [q EXCEPT !.opts[attr] = {names \cup UNION @}]
      BY <2>1 DEF parse_option
    <2> QED BY <1>5, <2>2 DEF IsQuery, QueryFields
  <1>8. \/ process_predicate(q, s) = q
        \/ process_predicate(q, s) = parse_query(q, val)
        \/ process_predicate(q, s) = Throw(q)
        \/ \E attr, v : process_predicate(q, s) = parse_option(q, attr, v)
    BY <1>1, <1>3 DEF process_predicate
  <1> QED BY <1>5, <1>6, <1>7, <1>8

\* The predicates of a query, one after the other.
Predicates(p) == FoldLeft(process_predicate, NewQuery, p)

LEMMA PredicatesFold ==
    ASSUME NEW p, NEW n \in Nat, DOMAIN p = 1..n
    PROVE  Predicates(p) = Folded("predicates", "&", p, n)
  <1>1. FoldLeft(process_predicate, NewQuery, p) =
           (CHOOSE f : f = [s \in SUBSET (1..n) |->
                IF s = {} THEN NewQuery ELSE process_predicate(f[s \ {Max(s)}], p[Max(s)])])[1..n]
    BY DEF FoldLeft, MapThenFoldSet
  <1> QED BY <1>1 DEF Predicates, Folded, Folding, FoldStep, Start

LEMMA PredicatesEmpty == Predicates(<< >>) = NewQuery
  <1>1. PICK p : p = << >>
    OBVIOUS
  <1>2. DOMAIN p = 1..0
    BY <1>1
  <1>3. Predicates(p) = Folded("predicates", "&", p, 0)
    BY <1>2, PredicatesFold
  <1>4. Folded("predicates", "&", p, 0) = Start("predicates")
    BY FoldAppend
  <1> QED BY <1>1, <1>3, <1>4 DEF Start

LEMMA PredicatesAppend ==
    ASSUME NEW S, NEW p \in Seq(S), NEW x \in S
    PROVE  Predicates(Append(p, x)) = process_predicate(Predicates(p), x)
  <1>1. PICK n \in Nat : n = Len(p)
    OBVIOUS
  <1>2. PICK q : q = Append(p, x)
    OBVIOUS
  <1>3. /\ DOMAIN p = 1..n
        /\ DOMAIN q = 1..(n + 1)
        /\ q[n + 1] = x
        /\ \A i \in 1..n : q[i] = p[i]
    BY <1>1, <1>2
  <1>4. Predicates(p) = Folded("predicates", "&", p, n)
    BY <1>3, PredicatesFold
  <1>5. Predicates(q) = Folded("predicates", "&", q, n + 1)
    <2>1. n + 1 \in Nat
      OBVIOUS
    <2> QED BY <1>3, <2>1, PredicatesFold
  <1>6. Folded("predicates", "&", q, n + 1)
           = FoldStep("predicates", "&", Folded("predicates", "&", p, n), q[n + 1])
    BY <1>3, FoldAppend
  <1>7. Predicates(q) = FoldStep("predicates", "&", Predicates(p), x)
    BY <1>3, <1>4, <1>5, <1>6
  <1>8. \A acc : FoldStep("predicates", "&", acc, x) = process_predicate(acc, x)
    BY DEF FoldStep
  <1> QED BY <1>2, <1>7, <1>8

\* A text without "&" is one predicate; after an "&" it is one more.
LEMMA ParseOne ==
    ASSUME NEW S, NEW t \in Seq(S), Free(t, "&")
    PROVE  Parse(t) = process_predicate(NewQuery, t)
  <1>1. split(t, "&") = << t >>
    BY SplitFree
  <1>2. PICK e : e = << >>
    OBVIOUS
  <1>3. e \in Seq(Seq(S))
    BY <1>2
  <1>4. Append(e, t) = << t >>
    BY <1>2
  <1>5. Predicates(Append(e, t)) = process_predicate(Predicates(e), t)
    BY <1>3, PredicatesAppend
  <1> QED BY <1>1, <1>2, <1>4, <1>5, PredicatesEmpty DEF Parse, Predicates

LEMMA ParseMore ==
    ASSUME NEW S, "&" \in S, NEW s \in Seq(S), NEW t \in Seq(S), Free(t, "&")
    PROVE  Parse(s \o << "&" >> \o t) = process_predicate(Parse(s), t)
  <1>1. PICK p : p = split(s, "&")
    OBVIOUS
  <1>2. p \in Seq(Seq(S))
    BY <1>1, SplitPieces DEF Pieces
  <1>3. split(t, "&") = << t >>
    BY SplitFree
  <1>4. split(s \o << "&" >> \o t, "&") = p \o << t >>
    <2>1. PICK ch \in S : ch = "&"
      OBVIOUS
    <2>2. split(s \o << ch >> \o t, ch) = split(s, ch) \o split(t, ch)
      BY SplitConcat
    <2> QED BY <1>1, <1>3, <2>1, <2>2
  <1>5. p \o << t >> = Append(p, t)
    BY <1>2, AppendIsConcat
  <1>6. Predicates(Append(p, t)) = process_predicate(Predicates(p), t)
    BY <1>2, PredicatesAppend
  <1>7. Parse(s \o << "&" >> \o t) = Predicates(Append(p, t)) /\ Parse(s) = Predicates(p)
    BY <1>1, <1>4, <1>5 DEF Parse, Predicates
  <1> QED BY <1>6, <1>7

\* The parser is total, and its keys and values are texts.
LEMMA ParseText ==
    ASSUME NEW S, NEW t \in Seq(S)
    PROVE  IsQuery(S, Parse(t))
  <1> DEFINE T == {p \in Seq(Seq(S)) : IsQuery(S, Predicates(p))}
  <1>1. << >> \in T
    <2>1. << >> \in Seq(S) /\ << >> \in Seq(Seq(S))
      BY EmptySeq
    <2>2. IsQuery(S, NewQuery)
      BY <2>1 DEF IsQuery, NewQuery, QueryFields
    <2> QED BY <2>1, <2>2, PredicatesEmpty
  <1>2. ASSUME NEW p \in Seq(Seq(S)), NEW x \in Seq(S), p \in T PROVE Append(p, x) \in T
    <2>1. IsQuery(S, process_predicate(Predicates(p), x))
      BY <1>2, PredicateText
    <2>2. Predicates(Append(p, x)) = process_predicate(Predicates(p), x)
      BY PredicatesAppend
    <2>3. Append(p, x) \in Seq(Seq(S))
      BY AppendProperties
    <2> QED BY <2>1, <2>2, <2>3
  <1>3. \A p \in Seq(Seq(S)) : p \in T
    <2> HIDE DEF T
    <2> QED BY <1>1, <1>2, TextInduction
  <1>4. split(t, "&") \in Seq(Seq(S))
    BY SplitPieces DEF Pieces
  <1> QED BY <1>3, <1>4 DEF Parse, Predicates

-----------------------------------------------------------------------------
(* The requests to the store.                                             *)

\* A request starts with its command, then a space, its key and what follows it.
Serialized(S, raw, command, key, value, n) ==
    /\ raw \in Seq(S)
    /\ Len(raw) >= 2 + n /\ raw[1] = command /\ raw[2] = Space
    /\ \A i \in 1..n : raw[2 + i] = key[i]
    /\ value # << >> => /\ Len(raw) = n + 3 + Len(value)
                        /\ raw[n + 3] = Space
                        /\ \A i \in 1..Len(value) : raw[n + 3 + i] = value[i]

LEMMA SerializeFacts ==
    ASSUME NEW S, Space \in S, NEW command \in S, NEW key \in Seq(S), NEW value \in Seq(S),
           NEW n \in Nat, n = Len(key), NEW raw, raw = serialize(Message(command, key, value))
    PROVE  Serialized(S, raw, command, key, value, n)
  <1>1. PICK head : head = << command, Space >>
    OBVIOUS
  <1>2. head \in Seq(S) /\ Len(head) = 2 /\ head[1] = command /\ head[2] = Space
    BY <1>1
  <1>3. PICK sp : sp = << Space >>
    OBVIOUS
  <1>4. sp \in Seq(S) /\ Len(sp) = 1 /\ sp[1] = Space
    BY <1>3
  <1>5. PICK rest : rest = IF value = << >> THEN << >> ELSE sp \o value
    OBVIOUS
  <1>6. /\ sp \o value \in Seq(S)
        /\ Len(sp \o value) = Len(sp) + Len(value)
        /\ \A i \in 1..Len(sp) : (sp \o value)[i] = sp[i]
        /\ \A i \in 1..Len(value) : (sp \o value)[Len(sp) + i] = value[i]
    <2>1. sp \in Seq(S)
      BY <1>4
    <2> QED BY <2>1, ConcatFacts
  <1>7. /\ rest \in Seq(S)
        /\ value # << >> => /\ Len(rest) = 1 + Len(value)
                            /\ rest[1] = Space
                            /\ \A i \in 1..Len(value) : rest[1 + i] = value[i]
    <2>1. CASE value = << >>
      BY <1>5, <2>1
    <2>2. CASE value # << >>
      BY <1>4, <1>5, <1>6, <2>2
    <2> QED BY <2>1, <2>2
  <1>8. PICK front : front = head \o key
    OBVIOUS
  <1>9. /\ head \o key \in Seq(S)
        /\ Len(head \o key) = Len(head) + Len(key)
        /\ \A i \in 1..Len(head) : (head \o key)[i] = head[i]
        /\ \A i \in 1..Len(key) : (head \o key)[Len(head) + i] = key[i]
    <2>1. head \in Seq(S)
      BY <1>2
    <2> QED BY <2>1, ConcatFacts
  <1>10. /\ front \in Seq(S)
         /\ Len(front) = n + 2
         /\ front[1] = command /\ front[2] = Space
         /\ \A i \in 1..n : front[2 + i] = key[i]
    BY <1>2, <1>8, <1>9
  <1>11. raw = front \o rest
    BY <1>1, <1>3, <1>5, <1>8 DEF serialize, Message
  <1>12. /\ front \o rest \in Seq(S)
         /\ Len(front \o rest) = Len(front) + Len(rest)
         /\ \A i \in 1..Len(front) : (front \o rest)[i] = front[i]
         /\ \A i \in 1..Len(rest) : (front \o rest)[Len(front) + i] = rest[i]
    <2>1. front \in Seq(S) /\ rest \in Seq(S)
      BY <1>7, <1>10
    <2> QED BY <2>1, ConcatFacts
  <1>13. /\ raw \in Seq(S)
         /\ Len(raw) = n + 2 + Len(rest)
         /\ \A i \in 1..(n + 2) : raw[i] = front[i]
         /\ \A i \in 1..Len(rest) : raw[n + 2 + i] = rest[i]
    BY <1>10, <1>11, <1>12
  <1>14. Len(rest) \in Nat /\ Len(value) \in Nat
    BY <1>7
  <1>15. Len(raw) >= 2 + n /\ raw[1] = command /\ raw[2] = Space
    BY <1>10, <1>13, <1>14
  <1>16. \A i \in 1..n : raw[2 + i] = key[i]
    BY <1>10, <1>13
  <1>17. ASSUME value # << >>
         PROVE  /\ Len(raw) = n + 3 + Len(value)
                /\ raw[n + 3] = Space
                /\ \A i \in 1..Len(value) : raw[n + 3 + i] = value[i]
    <2>1. Len(rest) = 1 + Len(value) /\ rest[1] = Space /\ \A i \in 1..Len(value) : rest[1 + i] = value[i]
      BY <1>7, <1>17
    <2>2. raw[n + 2 + 1] = Space
      BY <1>13, <1>14, <2>1
    <2>3. ASSUME NEW i \in 1..Len(value) PROVE raw[n + 3 + i] = value[i]
      <3>1. PICK j : j = 1 + i
        OBVIOUS
      <3>2. j \in 1..Len(rest) /\ n + 2 + j = n + 3 + i
        BY <1>14, <2>1, <3>1
      <3>3. raw[n + 2 + j] = rest[j]
        BY <1>13, <3>2
      <3>4. rest[j] = value[i]
        BY <2>1, <3>1
      <3> QED BY <3>2, <3>3, <3>4
    <2> QED BY <1>13, <1>14, <2>1, <2>2, <2>3
  <1> QED BY <1>13, <1>15, <1>16, <1>17 DEF Serialized

-----------------------------------------------------------------------------
(* Parts of texts and of sequences.                                        *)

\* rfind returns the last position of the character, or NPos.
LEMMA RfindFacts ==
    ASSUME NEW s, NEW ch, Len(s) \in Nat
    PROVE  LET n == rfind(s, ch) IN
           /\ n \in 0..Len(s)
           /\ n = NPos => \A i \in 1..Len(s) : s[i] # ch
           /\ n # NPos => /\ s[n] = ch
                          /\ \A i \in (n + 1)..Len(s) : s[i] # ch
  <1> DEFINE I == {i \in 1..Len(s) : s[i] = ch}
  <1>1. rfind(s, ch) = IF I # {} THEN Max(I) ELSE 0
    BY DEF rfind, SelectLastInSeq
  <1>2. I \in SUBSET (1..Len(s))
    OBVIOUS
  <1>3. PICK n : n = rfind(s, ch)
    OBVIOUS
  <1>4. CASE I = {}
    BY <1>1, <1>4 DEF NPos
  <1>5. CASE I # {}
    <2>1. n \in I /\ \A i \in I : i <= n
      <3> HIDE DEF I
      <3> QED BY <1>1, <1>2, <1>3, <1>5, LastPosition
    <2>2. \A i \in (n + 1)..Len(s) : i \in 1..Len(s) /\ ~(i <= n)
      BY <2>1
    <2> QED BY <1>3, <2>1, <2>2 DEF NPos
  <1> QED BY <1>4, <1>5

Associative(X) == \A f, g, h \in Seq(X) : (f \o g) \o h = f \o (g \o h)

LEMMA Concats ==
    ASSUME NEW X
    PROVE  Associative(X)
  BY ConcatAssociative DEF Associative

\* A part of a text between two positions.
LEMMA BetweenFacts ==
    ASSUME NEW S, NEW s \in Seq(S), NEW from \in Nat \ {0}, NEW to \in from..(Len(s) + 1)
    PROVE  /\ between(s, from, to) = SubSeq(s, from, to - 1)
           /\ between(s, from, to) \in Seq(S)
           /\ Len(between(s, from, to)) = to - from
           /\ \A i \in 1..(to - from) : between(s, from, to)[i] = s[from + i - 1]
  <1>1. PICK m : m = to - 1
    OBVIOUS
  <1>2. Len(s) \in Nat /\ m \in Int /\ from \in Int /\ to # NPos /\ ~(to < from)
    BY <1>1 DEF NPos
  <1>3. between(s, from, to) = SubSeq(s, from, m)
    BY <1>1, <1>2 DEF between
  <1>4. \A i \in from..m : s[i] \in S
    BY <1>1, <1>2
  <1>5. /\ SubSeq(s, from, m) \in Seq(S)
        /\ Len(SubSeq(s, from, m)) = IF from <= m THEN m - from + 1 ELSE 0
        /\ \A i \in 1..(m - from + 1) : SubSeq(s, from, m)[i] = s[from + i - 1]
    BY <1>2, <1>4, SubSeqProperties
  <1>6. m - from + 1 = to - from /\ (IF from <= m THEN m - from + 1 ELSE 0) = to - from
    BY <1>1, <1>2
  <1> QED BY <1>1, <1>3, <1>5, <1>6

\* The part that ends at the first occurrence of a character has none.
LEMMA BetweenFree ==
    ASSUME NEW S, NEW s \in Seq(S), NEW from \in Nat \ {0}, NEW to \in from..(Len(s) + 1),
           NEW ch, \A i \in from..(to - 1) : s[i] # ch
    PROVE  Free(between(s, from, to), ch)
  <1>1. PICK b : b = between(s, from, to)
    OBVIOUS
  <1>2. Len(b) = to - from /\ \A i \in 1..(to - from) : b[i] = s[from + i - 1]
    BY <1>1, BetweenFacts
  <1>3. ASSUME NEW i \in 1..Len(b) PROVE b[i] # ch
    <2>1. Len(s) \in Nat
      OBVIOUS
    <2>2. i \in 1..(to - from) /\ from + i - 1 \in from..(to - 1)
      BY <1>2, <2>1
    <2> QED BY <1>2, <2>2
  <1> QED BY <1>1, <1>3 DEF Free

\* The beginning of a sequence of tokens.
LEMMA StartOf ==
    ASSUME NEW S, NEW p \in Seq(S), NEW n \in 0..Len(p)
    PROVE  /\ SubSeq(p, 1, n) \in Seq(S) /\ Len(SubSeq(p, 1, n)) = n
           /\ \A i \in 1..n : SubSeq(p, 1, n)[i] = p[i]
  <1>1. PICK one : one = 1
    OBVIOUS
  <1>2. one \in Int /\ n \in Int /\ n >= 0 /\ \A i \in one..n : p[i] \in S
    BY <1>1
  <1>3. /\ SubSeq(p, one, n) \in Seq(S)
        /\ Len(SubSeq(p, one, n)) = IF one <= n THEN n - one + 1 ELSE 0
        /\ \A i \in 1..(n - one + 1) : SubSeq(p, one, n)[i] = p[one + i - 1]
    BY <1>2, SubSeqProperties
  <1>4. (IF one <= n THEN n - one + 1 ELSE 0) = n /\ n - one + 1 = n
        /\ \A i \in 1..n : one + i - 1 = i
    BY <1>1, <1>2
  <1> QED BY <1>1, <1>3, <1>4

LEMMA FrontText ==
    ASSUME NEW X, NEW q \in Seq(X), Len(q) >= 1
    PROVE  Front(q) \in Seq(X) /\ Len(Front(q)) = Len(q) - 1
  <1>1. PICK n : n = Len(q) - 1
    OBVIOUS
  <1>2. n \in 0..Len(q)
    BY <1>1
  <1>3. SubSeq(q, 1, n) \in Seq(X) /\ Len(SubSeq(q, 1, n)) = n
    BY <1>2, StartOf
  <1> QED BY <1>1, <1>3 DEF Front

LEMMA FrontAppend ==
    ASSUME NEW X, NEW q \in Seq(X), NEW x \in X
    PROVE  Front(Append(q, x)) = q /\ Last(Append(q, x)) = x /\ Append(q, x) = q \o << x >>
  <1>1. PICK c : c = Append(q, x)
    OBVIOUS
  <1>2. /\ c \in Seq(X) /\ Len(c) = Len(q) + 1 /\ (\A i \in 1..Len(q) : c[i] = q[i])
        /\ c[Len(q) + 1] = x
    BY <1>1, AppendProperties
  <1>3. PICK n : n = Len(q)
    OBVIOUS
  <1>4. n \in Nat /\ n \in 0..Len(c) /\ Len(c) - 1 = n
    BY <1>2, <1>3
  <1>5. PICK g : g = SubSeq(c, 1, n)
    OBVIOUS
  <1>6. g \in Seq(X) /\ Len(g) = n /\ \A i \in 1..n : g[i] = c[i]
    BY <1>2, <1>4, <1>5, StartOf
  <1>7. \A i \in 1..n : g[i] = q[i]
    BY <1>2, <1>3, <1>6
  <1>8. g = q
    BY <1>3, <1>6, <1>7, SeqEqual
  <1>9. Last(c) = x
    BY <1>2, <1>3, <1>4 DEF Last
  <1>10. Front(c) = g
    BY <1>4, <1>5 DEF Front
  <1>11. Append(q, x) = q \o << x >>
    OBVIOUS
  <1> QED BY <1>1, <1>8, <1>9, <1>10, <1>11

\* What follows eight tokens is determined by them.
LEMMA SameBehind ==
    ASSUME NEW X, NEW q \in Seq(X), NEW g \in Seq(X), NEW c \in Seq(X), NEW v \in Seq(X)
    PROVE  Len(q) = 8 /\ Len(g) = 8 /\ q \o c = g \o v => c = v /\ q = g
  <1>0. SUFFICES ASSUME Len(q) = 8, Len(g) = 8, q \o c = g \o v PROVE c = v /\ q = g
    OBVIOUS
  <1>1. /\ SubSeq(q \o c, 1, Len(q)) = q
        /\ SubSeq(q \o c, Len(q) + 1, Len(q) + Len(c)) = c
        /\ Len(q \o c) = Len(q) + Len(c)
    BY ConcatParts, ConcatFacts
  <1>2. /\ SubSeq(g \o v, 1, Len(g)) = g
        /\ SubSeq(g \o v, Len(g) + 1, Len(g) + Len(v)) = v
        /\ Len(g \o v) = Len(g) + Len(v)
    BY ConcatParts, ConcatFacts
  <1>3. Len(q) = Len(g)
    BY <1>0
  <1>4. Len(q) + Len(c) = Len(g) + Len(v)
    BY <1>0, <1>1, <1>2
  <1> QED BY <1>0, <1>1, <1>2, <1>3, <1>4

\* The first and the last ch of a text with two pieces or more.
FirstCut(S, ch, s) ==
    \E x \in Seq(S), t \in Seq(S) : /\ Free(x, ch)
                                    /\ s = x \o << ch >> \o t
                                    /\ split(s, ch) = << x >> \o split(t, ch)

LastCut(S, ch, s) ==
    \E a \in Seq(S), b \in Seq(S) : /\ Free(b, ch)
                                    /\ s = a \o << ch >> \o b
                                    /\ split(s, ch) = Append(split(a, ch), b)

LEMMA FirstToken ==
    ASSUME NEW S, NEW ch \in S, NEW s \in Seq(S), Len(split(s, ch)) >= 2
    PROVE  FirstCut(S, ch, s)
  <1>1. ~Free(s, ch)
    <2>1. ASSUME Free(s, ch) PROVE FALSE
      <3>1. split(s, ch) = << s >>
        BY <2>1, SplitFree
      <3>2. Len(<< s >>) = 1
        OBVIOUS
      <3> QED BY <3>1, <3>2
    <2> QED BY <2>1
  <1>2. PICK one, l : one = 1 /\ l = Len(s)
    OBVIOUS
  <1>3. one \in Nat \ {0} /\ l \in Nat
    BY <1>2
  <1>4. PICK k : k = find(s, ch, one)
    OBVIOUS
  <1>5. /\ k = NPos => \A i \in one..l : s[i] # ch
        /\ k # NPos => /\ k \in one..l
                       /\ s[k] = ch
                       /\ \A i \in one..(k - 1) : s[i] # ch
    BY <1>2, <1>3, <1>4, FindFacts
  <1>6. k # NPos
    BY <1>1, <1>2, <1>5 DEF Free
  <1>7. PICK j, m : j = k - 1 /\ m = k + 1
    OBVIOUS
  <1>8. k \in 1..l /\ j \in 0..l /\ m \in 1..(l + 1) /\ s[k] = ch /\ \A i \in 1..j : s[i] # ch
    BY <1>2, <1>3, <1>5, <1>6, <1>7
  <1>9. PICK x, t, c : x = SubSeq(s, 1, j) /\ t = SubSeq(s, m, l) /\ c = << ch >>
    OBVIOUS
  <1>10. /\ x \in Seq(S) /\ Len(x) = j
         /\ \A i \in 1..j : x[i] = s[i]
    <2>1. one \in Int /\ j \in Int /\ \A i \in one..j : s[i] \in S
      BY <1>2, <1>8
    <2>2. /\ SubSeq(s, one, j) \in Seq(S)
          /\ Len(SubSeq(s, one, j)) = IF one <= j THEN j - one + 1 ELSE 0
          /\ \A i \in 1..(j - one + 1) : SubSeq(s, one, j)[i] = s[one + i - 1]
      BY <2>1, SubSeqProperties
    <2>3. (IF one <= j THEN j - one + 1 ELSE 0) = j /\ j - one + 1 = j
          /\ \A i \in 1..j : one + i - 1 = i
      BY <1>2, <1>8
    <2> QED BY <1>2, <1>9, <2>2, <2>3
  <1>11. t \in Seq(S) /\ c \in Seq(S)
    <2>1. m \in Int /\ l \in Int /\ \A i \in m..l : s[i] \in S
      BY <1>2, <1>3, <1>8
    <2>2. t \in Seq(S)
      BY <1>9, <2>1, SubSeqProperties
    <2> QED BY <1>9, <2>2
  <1>12. Free(x, ch)
    BY <1>8, <1>10 DEF Free
  <1>13. s = (x \o c) \o t
    <2>1. s = SubSeq(s, 1, l)
      BY <1>2, SubSeqFull
    <2>2. SubSeq(s, 1, k) = SubSeq(s, 1, j) \o << s[k] >>
      BY <1>2, <1>7, <1>8, SubSeqRecursiveSecond
    <2>3. SubSeq(s, one, k) \o SubSeq(s, k + 1, l) = SubSeq(s, one, l)
      <3>1. one \in 1..(Len(s) + 1) /\ k \in (one - 1)..Len(s) /\ l \in k..Len(s)
        BY <1>2, <1>3, <1>8
      <3> QED BY <3>1, ConcatAdjacentSubSeq
    <2> QED BY <1>2, <1>7, <1>8, <1>9, <2>1, <2>2, <2>3
  <1>14. split(x \o << ch >> \o t, ch) = split(x, ch) \o split(t, ch)
    BY <1>10, <1>11, SplitConcat
  <1>15. split(x, ch) = << x >>
    BY <1>10, <1>12, SplitFree
  <1> QED BY <1>9, <1>10, <1>11, <1>12, <1>13, <1>14, <1>15 DEF FirstCut

LEMMA LastToken ==
    ASSUME NEW S, NEW ch \in S, NEW s \in Seq(S), Len(split(s, ch)) >= 2
    PROVE  LastCut(S, ch, s)
  <1>1. ~Free(s, ch)
    <2>1. ASSUME Free(s, ch) PROVE FALSE
      <3>1. split(s, ch) = << s >>
        BY <2>1, SplitFree
      <3>2. Len(<< s >>) = 1
        OBVIOUS
      <3> QED BY <3>1, <3>2
    <2> QED BY <2>1
  <1>2. PICK one, l : one = 1 /\ l = Len(s)
    OBVIOUS
  <1>3. one \in Nat \ {0} /\ l \in Nat
    BY <1>2
  <1>4. PICK k : k = rfind(s, ch)
    OBVIOUS
  <1>5. /\ k \in 0..l
        /\ k = NPos => \A i \in 1..l : s[i] # ch
        /\ k # NPos => s[k] = ch /\ \A i \in (k + 1)..l : s[i] # ch
    BY <1>2, <1>3, <1>4, RfindFacts
  <1>6. k # NPos
    BY <1>1, <1>2, <1>5 DEF Free
  <1>7. PICK j, m : j = k - 1 /\ m = k + 1
    OBVIOUS
  <1>8. k \in 1..l /\ j \in 0..l /\ m \in 1..(l + 1) /\ s[k] = ch /\ \A i \in m..l : s[i] # ch
    BY <1>2, <1>3, <1>5, <1>6, <1>7 DEF NPos
  <1>9. PICK a, b, c : a = SubSeq(s, 1, j) /\ b = SubSeq(s, m, l) /\ c = << ch >>
    OBVIOUS
  <1>10. b \in Seq(S) /\ Free(b, ch)
    <2>1. m \in Int /\ l \in Int /\ \A i \in m..l : s[i] \in S
      BY <1>2, <1>3, <1>8
    <2>2. /\ b \in Seq(S)
          /\ Len(b) = IF m <= l THEN l - m + 1 ELSE 0
          /\ \A i \in 1..(l - m + 1) : b[i] = s[m + i - 1]
      BY <1>9, <2>1, SubSeqProperties
    <2>3. ASSUME NEW i \in 1..Len(b) PROVE b[i] # ch
      <3>1. m <= l
        BY <2>2
      <3>2. i \in 1..(l - m + 1) /\ m + i - 1 \in m..l
        BY <1>3, <1>8, <2>2, <3>1
      <3> QED BY <1>8, <2>2, <3>2
    <2> QED BY <2>2, <2>3 DEF Free
  <1>11. a \in Seq(S) /\ c \in Seq(S)
    <2>1. one \in Int /\ j \in Int /\ \A i \in one..j : s[i] \in S
      BY <1>2, <1>8
    <2>2. SubSeq(s, one, j) \in Seq(S)
      BY <2>1, SubSeqProperties
    <2> QED BY <1>2, <1>9, <2>2
  <1>13. s = (a \o c) \o b
    <2>1. s = SubSeq(s, 1, l)
      BY <1>2, SubSeqFull
    <2>2. SubSeq(s, 1, k) = SubSeq(s, 1, j) \o << s[k] >>
      BY <1>2, <1>7, <1>8, SubSeqRecursiveSecond
    <2>3. SubSeq(s, one, k) \o SubSeq(s, k + 1, l) = SubSeq(s, one, l)
      <3>1. one \in 1..(Len(s) + 1) /\ k \in (one - 1)..Len(s) /\ l \in k..Len(s)
        BY <1>2, <1>3, <1>8
      <3> QED BY <3>1, ConcatAdjacentSubSeq
    <2> QED BY <1>2, <1>7, <1>8, <1>9, <2>1, <2>2, <2>3
  <1>14. split(a \o << ch >> \o b, ch) = split(a, ch) \o split(b, ch)
    BY <1>10, <1>11, SplitConcat
  <1>15. split(b, ch) = << b >>
    BY <1>10, SplitFree
  <1>16. Append(split(a, ch), b) = split(a, ch) \o << b >>
    <2>1. Pieces(S, ch, split(a, ch))
      BY <1>11, SplitPieces
    <2>2. PICK p : p = split(a, ch)
      OBVIOUS
    <2>3. p \in Seq(Seq(S)) /\ b \in Seq(S)
      BY <1>10, <2>1, <2>2 DEF Pieces
    <2>4. Append(p, b) = p \o << b >>
      BY <2>3, AppendIsConcat
    <2> QED BY <2>2, <2>4
  <1> QED BY <1>9, <1>10, <1>11, <1>13, <1>14, <1>15, <1>16 DEF LastCut

=============================================================================
