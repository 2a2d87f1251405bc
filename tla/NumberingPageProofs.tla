------------------------- MODULE NumberingPageProofs -------------------------
(***************************************************************************)
(* Proofs about how reference numbers are written and read back, and about *)
(* the configuration page, for every number, width and alphabet.           *)
(*                                                                         *)
(* The formats that end in digits are letters, zeros and the decimal       *)
(* digits of the number.  Each digit of Decimal multiplies what was before *)
(* it by ten and so does each step of Value, so the digits are worth the   *)
(* number (ValueOfDecimal), zeros before them change nothing, and the last *)
(* run of digits is where the letters end (LastDigits).  Hence reading     *)
(* undoes writing (ReadBack).  The alpha format, which pads with the       *)
(* letter of 1, is not among them: run NumberingAlpha refutes it.          *)
(*                                                                         *)
(* Facts about recursive functions are proved by their least               *)
(* counterexample (Least), after showing that the functions exist.         *)
(***************************************************************************)
EXTENDS NumberingPage, SequenceTheorems, WellFoundedInduction, TLAPS

-----------------------------------------------------------------------------
(***************************************************************************)
(* Recursion                                                               *)
(***************************************************************************)

\* A set of numbers that is not empty has a least one.
LEMMA Least ==
    ASSUME NEW T \in SUBSET Nat, T # {}
    PROVE  \E n \in T : \A m \in T : n <= m
<1>1. PICK n \in T : \A m \in T : <<m, n>> \notin OpToRel(<, Nat)
    <2> T \subseteq Nat OBVIOUS
    <2> QED BY NatLessThanWellFounded, WFMin
<1>2. \A m \in T : ~(m < n)
    BY <1>1 DEF OpToRel
<1> QED BY <1>2

\* What is defined by recursion on smaller numbers exists: g obeys the
\* recursion up to N.
Obeys(g, N, V, b, S, q) ==
    /\ g \in [Nat -> V]
    /\ \A n \in Nat : n <= N => g[n] = IF n = 0 THEN b ELSE S[<<g[q[n]], n>>]

Solves(f, b, S, q) ==
    \A n \in Nat : f[n] = IF n = 0 THEN b ELSE S[<<f[q[n]], n>>]

LEMMA RecursionExists ==
    ASSUME NEW V, NEW b \in V, NEW S \in [V \X Nat -> V],
           NEW q \in [Nat -> Nat], \A n \in Nat : n # 0 => q[n] < n
    PROVE  \E f \in [Nat -> V] : Solves(f, b, S, q)
<1> DEFINE Upto(g, N) == Obeys(g, N, V, b, S, q)
<1>1. ASSUME NEW M \in Nat, NEW N \in Nat, NEW g, NEW h,
             Upto(g, M), Upto(h, N), NEW n \in Nat, n <= M, n <= N
      PROVE  g[n] = h[n]
    <2> DEFINE Bad == {k \in Nat : k <= M /\ k <= N /\ g[k] # h[k]}
    <2> SUFFICES ASSUME Bad # {} PROVE FALSE
        BY <1>1
    <2>1. PICK k \in Bad : \A m \in Bad : k <= m
        BY Least
    <2>2. /\ g[k] = IF k = 0 THEN b ELSE S[<<g[q[k]], k>>]
          /\ h[k] = IF k = 0 THEN b ELSE S[<<h[q[k]], k>>]
        BY <1>1, <2>1 DEF Obeys
    <2>3. CASE k = 0
        BY <2>1, <2>2, <2>3
    <2>4. CASE k # 0
        <3>1. q[k] \in Nat /\ q[k] < k
            BY <2>1, <2>4
        <3>2. q[k] \notin Bad
            BY <2>1, <3>1
        <3>3. g[q[k]] = h[q[k]]
            BY <2>1, <3>1, <3>2
        <3> QED BY <2>1, <2>2, <2>4, <3>3
    <2> QED BY <2>3, <2>4
<1>2. ASSUME NEW N \in Nat PROVE \E g : Upto(g, N)
    <2> DEFINE Bad == {k \in Nat : \A g : ~Upto(g, k)}
    <2> SUFFICES ASSUME Bad # {} PROVE FALSE
        BY <1>2
    <2>1. PICK k \in Bad : \A m \in Bad : k <= m
        BY Least
    <2>2. CASE k = 0
        <3>1. Upto([n \in Nat |-> b], 0)
            BY DEF Obeys
        <3> QED BY <2>1, <2>2, <3>1
    <2>3. CASE k # 0
        <3>1. PICK g : Upto(g, k - 1)
            <4>1. k - 1 \in Nat /\ k - 1 \notin Bad
                BY <2>1, <2>3
            <4> QED BY <4>1
        <3>2. k \in Nat /\ q[k] \in Nat /\ q[k] < k
            BY <2>1, <2>3
        <3>3. g \in [Nat -> V]
            BY <3>1 DEF Obeys
        <3> DEFINE s == S[<<g[q[k]], k>>]
                   h == [g EXCEPT ![k] = s]
        <3>4. s \in V
            BY <3>2, <3>3
        <3> HIDE DEF s
        <3>5. h \in [Nat -> V] /\ h[k] = s /\ \A n \in Nat : n # k => h[n] = g[n]
            BY <3>2, <3>3, <3>4
        <3> HIDE DEF h
        <3>6. ASSUME NEW n \in Nat, n <= k
              PROVE  h[n] = IF n = 0 THEN b ELSE S[<<h[q[n]], n>>]
            <4>1. CASE n = k
                BY <2>3, <3>2, <3>5, <4>1 DEF s
            <4>2. CASE n # k
                <5>1. n <= k - 1
                    BY <3>2, <3>6, <4>2
                <5>2. g[n] = IF n = 0 THEN b ELSE S[<<g[q[n]], n>>]
                    BY <3>1, <5>1 DEF Obeys
                <5>3. n # 0 => h[q[n]] = g[q[n]]
                    <6> SUFFICES ASSUME n # 0 PROVE h[q[n]] = g[q[n]]
                        OBVIOUS
                    <6>1. q[n] \in Nat /\ q[n] < n
                        OBVIOUS
                    <6>2. q[n] # k
                        BY <3>2, <3>6, <6>1
                    <6> QED BY <3>5, <6>1, <6>2
                <5> QED BY <3>5, <4>2, <5>2, <5>3
            <4> QED BY <4>1, <4>2
        <3>7. Upto(h, k)
            BY <3>5, <3>6 DEF Obeys
        <3> QED BY <2>1, <3>7
    <2> QED BY <2>2, <2>3
<1> DEFINE G == [N \in Nat |-> CHOOSE g : Upto(g, N)]
           f == [n \in Nat |-> G[n][n]]
<1>3. ASSUME NEW n \in Nat PROVE Upto(G[n], n)
    <2> HIDE DEF Upto
    <2> QED BY <1>2
<1> HIDE DEF G
<1>4. f \in [Nat -> V]
    BY <1>3 DEF Obeys
<1>5. ASSUME NEW n \in Nat PROVE f[n] = IF n = 0 THEN b ELSE S[<<f[q[n]], n>>]
    <2>1. G[n][n] = IF n = 0 THEN b ELSE S[<<G[n][q[n]], n>>]
        BY <1>3 DEF Obeys
    <2>2. ASSUME n # 0 PROVE f[q[n]] = G[n][q[n]]
        <3>1. q[n] \in Nat /\ q[n] <= n /\ q[n] <= q[n]
            BY <2>2
        <3> HIDE DEF Upto
        <3>2. Upto(G[n], n) /\ Upto(G[q[n]], q[n])
            BY <1>3, <3>1
        <3>3. G[n][q[n]] = G[q[n]][q[n]]
            BY <1>1, <3>1, <3>2
        <3> QED BY <3>1, <3>3
    <2> QED BY <2>1, <2>2
<1>6. Solves(f, b, S, q)
    BY <1>5 DEF Solves
<1> QED BY <1>4, <1>6

-----------------------------------------------------------------------------
(***************************************************************************)
(* How numbers are written                                                 *)
(***************************************************************************)

\* The characters of the two kinds of runs.
Digits == 0 .. 9
Chars  == {c \in Nat : c >= LetterA}

LEMMA TextsAreNumbers == Seq(Digits) \subseteq Seq(Nat) /\ Seq(Chars) \subseteq Seq(Nat)
<1>1. Digits \subseteq Nat /\ Chars \subseteq Nat
    BY DEF Digits, Chars
<1> QED BY <1>1, SeqMonotonic

LEMMA DecimalEquation ==
    \A n \in Nat : Decimal[n] = IF n = 0 THEN <<>>
                                ELSE Append(Decimal[n \div 10], n % 10)
<1> DEFINE V == Seq(Nat)
           e == <<>>
           S == [p \in V \X Nat |-> Append(p[1], p[2] % 10)]
           q == [n \in Nat |-> n \div 10]
<1>1. S \in [V \X Nat -> V] /\ e \in V
    OBVIOUS
<1>2. q \in [Nat -> Nat] /\ \A n \in Nat : n # 0 => q[n] < n
    OBVIOUS
<1> HIDE DEF S, q, V, e
<1>3. PICK f \in [Nat -> V] : Solves(f, e, S, q)
    BY <1>1, <1>2, RecursionExists
<1>4. \A n \in Nat : S[<<f[q[n]], n>>] = Append(f[n \div 10], n % 10)
    BY <1>2, <1>3 DEF S, q, V
<1>5. f = [n \in Nat |-> IF n = 0 THEN <<>> ELSE Append(f[n \div 10], n % 10)]
    BY <1>3, <1>4 DEF e, Solves
<1>6. Decimal = [n \in Nat |-> IF n = 0 THEN <<>>
                               ELSE Append(Decimal[n \div 10], n % 10)]
    BY <1>5 DEF Decimal
<1> QED BY <1>6

\* A number is written in decimal digits, at least one of them.
LEMMA DecimalType ==
    \A n \in Nat : Decimal[n] \in Seq(Digits) /\ (n # 0 => Decimal[n] # <<>>)
<1> DEFINE Bad == {n \in Nat : Decimal[n] \notin Seq(Digits)}
<1>1. Bad = {}
    <2> SUFFICES ASSUME Bad # {} PROVE FALSE
        OBVIOUS
    <2>1. PICK k \in Bad : \A m \in Bad : k <= m
        BY Least
    <2>2. k # 0
        BY <2>1, DecimalEquation, EmptySeq
    <2>3. k \div 10 \in Nat /\ k \div 10 < k /\ k % 10 \in Digits
        BY <2>1, <2>2 DEF Digits
    <2>4. Decimal[k \div 10] \in Seq(Digits)
        BY <2>1, <2>3
    <2>5. Append(Decimal[k \div 10], k % 10) \in Seq(Digits)
        BY <2>3, <2>4
    <2> QED BY <2>1, <2>2, <2>5, DecimalEquation
<1>2. ASSUME NEW n \in Nat, n # 0 PROVE Decimal[n] # <<>>
    <2>1. n \div 10 \in Nat /\ n % 10 \in Digits
        BY DEF Digits
    <2>2. Decimal[n \div 10] \in Seq(Digits)
        BY <1>1, <2>1
    <2>3. Append(Decimal[n \div 10], n % 10) # <<>>
        BY <2>1, <2>2, AppendProperties
    <2> QED BY <1>2, <2>3, DecimalEquation
<1> QED BY <1>1, <1>2

\* One digit of an alpha number leaves a smaller number to write.
LEMMA LettersDivide ==
    ASSUME NEW n \in Nat, n # 0
    PROVE  /\ (n - 1) \div Letters \in Nat /\ (n - 1) \div Letters < n
           /\ (n - 1) % Letters \in Nat
<1>1. \A m \in Nat, d \in Nat : d # 0 => m \div d \in Nat /\ m \div d <= m /\ m % d \in Nat
    OBVIOUS
<1>2. Letters \in Nat /\ Letters # 0 /\ n - 1 \in Nat
    BY LettersAssumption
<1> QED BY <1>1, <1>2

LEMMA AlphaEquation ==
    \A n \in Nat : IntToAlpha[n] =
        IF n = 0 THEN <<>>
        ELSE Append(IntToAlpha[(n - 1) \div Letters], LetterA + ((n - 1) % Letters))
<1> DEFINE c == [n \in Nat |-> IF n = 0 THEN 0 ELSE LetterA + ((n - 1) % Letters)]
           V == Seq(Nat)
           e == <<>>
           S == [p \in V \X Nat |-> Append(p[1], c[p[2]])]
           q == [n \in Nat |-> IF n = 0 THEN 0 ELSE (n - 1) \div Letters]
<1>1. c \in [Nat -> Nat]
    <2>1. ASSUME NEW n \in Nat, n # 0 PROVE LetterA + ((n - 1) % Letters) \in Nat
        <3>1. (n - 1) % Letters \in Nat
            BY <2>1, LettersDivide
        <3> QED BY <3>1 DEF LetterA
    <2> QED BY <2>1
<1>2. q \in [Nat -> Nat] /\ \A n \in Nat : n # 0 => q[n] < n
    BY LettersDivide
<1>3. S \in [V \X Nat -> V] /\ e \in V
    <2>1. \A n \in Nat : c[n] \in Nat
        BY <1>1
    <2> HIDE DEF c
    <2>2. ASSUME NEW p \in V \X Nat PROVE Append(p[1], c[p[2]]) \in V
        <3>1. p[1] \in Seq(Nat) /\ p[2] \in Nat
            OBVIOUS
        <3>2. c[p[2]] \in Nat
            BY <2>1, <3>1
        <3> QED BY <3>1, <3>2
    <2> QED BY <2>2
<1> HIDE DEF S, q, V, e
<1>4. PICK f \in [Nat -> V] : Solves(f, e, S, q)
    BY <1>2, <1>3, RecursionExists
<1>5. ASSUME NEW n \in Nat, n # 0
      PROVE  S[<<f[q[n]], n>>] =
                Append(f[(n - 1) \div Letters], LetterA + ((n - 1) % Letters))
    <2>1. q[n] = (n - 1) \div Letters /\ c[n] = LetterA + ((n - 1) % Letters)
        BY <1>5 DEF q
    <2>2. f[q[n]] \in Seq(Nat)
        BY <1>2, <1>4 DEF V
    <2> HIDE DEF c
    <2> QED BY <2>1, <2>2 DEF S, V
<1>6. f = [n \in Nat |-> IF n = 0 THEN <<>>
              ELSE Append(f[(n - 1) \div Letters], LetterA + ((n - 1) % Letters))]
    BY <1>4, <1>5 DEF e, Solves
<1>7. IntToAlpha = [n \in Nat |-> IF n = 0 THEN <<>>
              ELSE Append(IntToAlpha[(n - 1) \div Letters], LetterA + ((n - 1) % Letters))]
    BY <1>6 DEF IntToAlpha
<1> QED BY <1>7

\* The letters of a number are letters.
LEMMA AlphaType == \A n \in Nat : IntToAlpha[n] \in Seq(Chars)
<1> DEFINE Bad == {n \in Nat : IntToAlpha[n] \notin Seq(Chars)}
<1> SUFFICES ASSUME Bad # {} PROVE FALSE
    OBVIOUS
<1>1. PICK k \in Bad : \A m \in Bad : k <= m
    BY Least
<1>2. k # 0
    BY <1>1, AlphaEquation, EmptySeq
<1>3. /\ (k - 1) \div Letters \in Nat /\ (k - 1) \div Letters < k
      /\ LetterA + ((k - 1) % Letters) \in Chars
    <2>1. (k - 1) % Letters \in Nat
        BY <1>1, <1>2, LettersDivide
    <2>2. LetterA + ((k - 1) % Letters) \in Chars
        BY <2>1 DEF Chars, LetterA
    <2> QED BY <1>1, <1>2, <2>2, LettersDivide
<1>4. IntToAlpha[(k - 1) \div Letters] \in Seq(Chars)
    BY <1>1, <1>3
<1>5. Append(IntToAlpha[(k - 1) \div Letters], LetterA + ((k - 1) % Letters)) \in Seq(Chars)
    BY <1>3, <1>4
<1> QED BY <1>1, <1>2, <1>5, AlphaEquation

-----------------------------------------------------------------------------
(***************************************************************************)
(* What a run of digits is worth                                           *)
(***************************************************************************)

\* The values of the prefixes of s.
Sums(u, s) ==
    u = [i \in 0 .. Len(s) |-> IF i = 0 THEN 0 ELSE 10 * u[i - 1] + s[i]]

LEMMA ValueIsSum ==
    ASSUME NEW s \in Seq(Nat)
    PROVE  \E u : Sums(u, s) /\ Value(s) = u[Len(s)]
<1> DEFINE V == Nat
           e == 0
           d == [n \in Nat |-> IF n \in 1 .. Len(s) THEN s[n] ELSE 0]
           S == [p \in V \X Nat |-> 10 * p[1] + d[p[2]]]
           q == [n \in Nat |-> IF n = 0 THEN 0 ELSE n - 1]
<1>1. d \in [Nat -> Nat]
    OBVIOUS
<1>2. q \in [Nat -> Nat] /\ \A n \in Nat : n # 0 => q[n] < n
    OBVIOUS
<1>3. S \in [V \X Nat -> V] /\ e \in V
    <2> HIDE DEF d
    <2>1. ASSUME NEW p \in V \X Nat PROVE 10 * p[1] + d[p[2]] \in V
        <3>1. p[1] \in Nat /\ d[p[2]] \in Nat
            BY <1>1
        <3> QED BY <3>1
    <2> QED BY <2>1
<1> HIDE DEF S, q, V, e
<1>4. PICK f \in [Nat -> V] : Solves(f, e, S, q)
    BY <1>2, <1>3, RecursionExists
<1>5. ASSUME NEW n \in 1 .. Len(s) PROVE f[n] = 10 * f[n - 1] + s[n]
    <2>1. n \in Nat /\ n # 0 /\ q[n] = n - 1 /\ n - 1 \in Nat /\ d[n] = s[n]
        BY DEF q
    <2>2. f[n - 1] \in Nat
        BY <1>4, <2>1 DEF V
    <2>3. f[n] = S[<<f[n - 1], n>>]
        BY <1>4, <2>1 DEF Solves
    <2> HIDE DEF d
    <2> QED BY <2>1, <2>2, <2>3 DEF S, V
<1>6. f[0] = 0
    BY <1>4 DEF Solves, e
<1> DEFINE u == [i \in 0 .. Len(s) |-> f[i]]
<1>7. Sums(u, s)
    <2>1. ASSUME NEW i \in 0 .. Len(s), i # 0 PROVE u[i] = 10 * u[i - 1] + s[i]
        BY <1>5, <2>1
    <2> QED BY <1>6, <2>1 DEF Sums
<1> HIDE DEF u
<1> DEFINE U == CHOOSE upTo : Sums(upTo, s)
<1>8. Sums(U, s)
    BY <1>7
<1>9. Value(s) = U[Len(s)]
    BY DEF Value, Sums
<1> QED BY <1>8, <1>9

\* Two texts that agree up to N have prefixes of the same values.
LEMMA SumsAgree ==
    ASSUME NEW s \in Seq(Nat), NEW t \in Seq(Nat), NEW u, NEW v,
           Sums(u, s), Sums(v, t),
           NEW N \in Nat, N <= Len(s), N <= Len(t), \A i \in 1 .. N : s[i] = t[i]
    PROVE  u[N] = v[N]
<1> DEFINE Bad == {k \in Nat : k <= N /\ u[k] # v[k]}
<1> SUFFICES ASSUME Bad # {} PROVE FALSE
    OBVIOUS
<1>1. PICK k \in Bad : \A m \in Bad : k <= m
    BY Least
<1>2. k \in 0 .. Len(s) /\ k \in 0 .. Len(t)
    BY <1>1
<1>3. /\ u[k] = IF k = 0 THEN 0 ELSE 10 * u[k - 1] + s[k]
      /\ v[k] = IF k = 0 THEN 0 ELSE 10 * v[k - 1] + t[k]
    BY <1>2 DEF Sums
<1>4. k # 0
    BY <1>1, <1>3
<1>5. u[k - 1] = v[k - 1]
    <2>1. k - 1 \in Nat /\ k - 1 <= N /\ ~(k <= k - 1)
        BY <1>1, <1>4
    <2> QED BY <1>1, <2>1
<1>6. s[k] = t[k]
    BY <1>1, <1>4
<1> QED BY <1>1, <1>3, <1>4, <1>5, <1>6

LEMMA ValueOfNothing == Value(<<>>) = 0
<1>1. <<>> \in Seq(Nat) /\ Len(<<>>) = 0
    OBVIOUS
<1>2. PICK u : Sums(u, <<>>) /\ Value(<<>>) = u[Len(<<>>)]
    BY <1>1, ValueIsSum
<1> QED BY <1>1, <1>2 DEF Sums

LEMMA ValueOfAppend ==
    ASSUME NEW s \in Seq(Nat), NEW d \in Nat
    PROVE  Value(Append(s, d)) = 10 * Value(s) + d
<1> DEFINE t == Append(s, d)
<1>1. /\ t \in Seq(Nat) /\ Len(t) = Len(s) + 1 /\ t[Len(t)] = d
      /\ \A i \in 1 .. Len(s) : t[i] = s[i]
    BY AppendProperties
<1> HIDE DEF t
<1>2. PICK u : Sums(u, s) /\ Value(s) = u[Len(s)]
    BY ValueIsSum
<1>3. PICK v : Sums(v, t) /\ Value(t) = v[Len(t)]
    BY <1>1, ValueIsSum
<1>4. u[Len(s)] = v[Len(s)]
    <2> DEFINE N == Len(s)
    <2>1. N \in Nat /\ N <= Len(s) /\ N <= Len(t) /\ \A i \in 1 .. N : s[i] = t[i]
        BY <1>1
    <2> HIDE DEF N
    <2>2. u[N] = v[N]
        BY <1>1, <1>2, <1>3, <2>1, SumsAgree
    <2> QED BY <2>2 DEF N
<1>5. v[Len(t)] = 10 * v[Len(s)] + d
    <2>1. Len(t) \in 0 .. Len(t) /\ Len(t) # 0 /\ Len(t) - 1 = Len(s)
        BY <1>1
    <2> QED BY <1>1, <1>3, <2>1 DEF Sums
<1> QED BY <1>2, <1>3, <1>4, <1>5 DEF t

\* What pads a number on the left.
Zeros(k) == [i \in 1 .. k |-> 0]

LEMMA ZerosType ==
    ASSUME NEW k \in Nat
    PROVE  Zeros(k) \in Seq(Nat) /\ Zeros(k) \in Seq(Digits) /\ Len(Zeros(k)) = k
BY DEF Zeros, Digits

LEMMA ZerosAreNothing == \A k \in Nat : Value(Zeros(k)) = 0
<1> DEFINE Bad == {k \in Nat : Value(Zeros(k)) # 0}
<1> SUFFICES ASSUME Bad # {} PROVE FALSE
    OBVIOUS
<1>1. PICK k \in Bad : \A m \in Bad : k <= m
    BY Least
<1>2. CASE k = 0
    <2>1. Zeros(0) = <<>>
        BY DEF Zeros
    <2> QED BY <1>1, <1>2, <2>1, ValueOfNothing
<1>3. CASE k # 0
    <2>1. k - 1 \in Nat /\ k - 1 \notin Bad
        BY <1>1, <1>3
    <2>2. Zeros(k) = Append(Zeros(k - 1), 0)
        BY <2>1 DEF Zeros
    <2>3. Value(Append(Zeros(k - 1), 0)) = 10 * Value(Zeros(k - 1)) + 0
        BY <2>1, ZerosType, ValueOfAppend
    <2>4. Value(Zeros(k - 1)) = 0
        BY <2>1
    <2>5. Value(Zeros(k)) = 0
        BY <2>2, <2>3, <2>4
    <2> QED BY <1>1, <2>5
<1> QED BY <1>2, <1>3

\* A number, written with any zeros before it, is worth what it is.
LEMMA ValueOfDecimal ==
    ASSUME NEW k \in Nat
    PROVE  \A n \in Nat : Value(Zeros(k) \o Decimal[n]) = n
<1> DEFINE Bad == {n \in Nat : Value(Zeros(k) \o Decimal[n]) # n}
<1> SUFFICES ASSUME Bad # {} PROVE FALSE
    OBVIOUS
<1>1. PICK n \in Bad : \A m \in Bad : n <= m
    BY Least
<1>2. CASE n = 0
    <2>1. Zeros(k) \o Decimal[0] = Zeros(k)
        BY DecimalEquation, ZerosType, ConcatEmptySeq
    <2> QED BY <1>1, <1>2, <2>1, ZerosAreNothing
<1>3. CASE n # 0
    <2>0. n \in Nat /\ n # 0
        BY <1>1, <1>3
    <2>1. /\ n \div 10 \in Nat /\ n \div 10 < n /\ n % 10 \in Nat
          /\ n = 10 * (n \div 10) + (n % 10)
        BY <2>0
    <2> DEFINE s == Decimal[n \div 10]
    <2>2. s \in Seq(Nat)
        BY <2>1, DecimalType, TextsAreNumbers
    <2>3. Value(Zeros(k) \o s) = n \div 10
        BY <1>1, <2>1
    <2>4. Decimal[n] = Append(s, n % 10)
        BY <1>1, <1>3, DecimalEquation
    <2> HIDE DEF s
    <2>5. Zeros(k) \o Append(s, n % 10) = Append(Zeros(k) \o s, n % 10)
        <3> DEFINE z == Zeros(k)
                   d == n % 10
        <3>1. z \in Seq(Nat) /\ d \in Nat
            BY <2>1, ZerosType
        <3> HIDE DEF z, d
        <3>2. z \o Append(s, d) = Append(z \o s, d)
            BY <2>2, <3>1
        <3> QED BY <3>2 DEF z, d
    <2>6. Zeros(k) \o s \in Seq(Nat)
        BY <2>2, ZerosType
    <2>7. Value(Append(Zeros(k) \o s, n % 10)) = 10 * Value(Zeros(k) \o s) + (n % 10)
        BY <2>1, <2>6, ValueOfAppend
    <2>8. Value(Zeros(k) \o Decimal[n]) = n
        BY <2>1, <2>3, <2>4, <2>5, <2>7
    <2> QED BY <1>1, <2>8
<1> QED BY <1>2, <1>3

-----------------------------------------------------------------------------
(***************************************************************************)
(* What is written is read back                                            *)
(***************************************************************************)

\* The digits at the end of a text are found behind the letters before them.
LEMMA LastDigits ==
    ASSUME NEW h \in Seq(Chars), NEW z \in Seq(Digits), z # <<>>
    PROVE  LastRun(h \o z, TRUE) = z
<1> DEFINE s == h \o z
           from(i) == /\ \A j \in i .. Len(s) : IsDigit(s[j]) = TRUE
                      /\ i > 1 => IsDigit(s[i - 1]) # TRUE
<1>1. /\ h \in Seq(Nat) /\ z \in Seq(Nat) /\ Len(h) \in Nat /\ Len(z) \in Nat \ {0}
      /\ \A i \in 1 .. Len(h) : h[i] \in Chars
      /\ \A i \in 1 .. Len(z) : z[i] \in Digits
    BY TextsAreNumbers, EmptySeq
<1>2. /\ s \in Seq(Nat) /\ Len(s) = Len(h) + Len(z)
      /\ \A i \in 1 .. Len(s) : s[i] = IF i <= Len(h) THEN h[i] ELSE z[i - Len(h)]
    BY <1>1, ConcatProperties
<1> HIDE DEF s
<1>3. ASSUME NEW i \in 1 .. Len(s) PROVE IsDigit(s[i]) <=> i > Len(h)
    <2>1. CASE i <= Len(h)
        <3>1. i \in 1 .. Len(h) /\ s[i] = h[i]
            BY <1>2, <2>1
        <3>2. s[i] \in Chars
            BY <1>1, <3>1
        <3>3. ~IsDigit(s[i])
            BY <3>2 DEF Chars, IsDigit, LetterA
        <3> QED BY <1>1, <2>1, <3>3
    <2>2. CASE i > Len(h)
        <3>1. i - Len(h) \in 1 .. Len(z)
            BY <1>1, <1>2, <2>2
        <3>2. s[i] = z[i - Len(h)]
            BY <1>1, <1>2, <2>2
        <3>3. s[i] \in Digits
            BY <1>1, <3>1, <3>2
        <3> QED BY <2>2, <3>3 DEF Digits, IsDigit, LetterA
    <2> QED BY <1>1, <2>1, <2>2
<1> DEFINE first == Len(h) + 1
<1>4. first \in 1 .. Len(s) + 1 /\ from(first)
    <2>1. first \in 1 .. Len(s) + 1
        BY <1>1, <1>2
    <2>2. ASSUME NEW j \in first .. Len(s) PROVE IsDigit(s[j])
        <3>1. j \in 1 .. Len(s) /\ j > Len(h)
            BY <1>1, <1>2
        <3> QED BY <1>3, <3>1
    <2>3. ASSUME first > 1 PROVE ~IsDigit(s[first - 1])
        <3>1. first - 1 \in 1 .. Len(s) /\ ~(first - 1 > Len(h))
            BY <1>1, <1>2, <2>3
        <3> QED BY <1>3, <3>1
    <2> QED BY <2>1, <2>2, <2>3
<1>5. ASSUME NEW i \in 1 .. Len(s) + 1, from(i) PROVE i = first
    <2>1. CASE i < first
        <3>1. i \in i .. Len(s) /\ i \in 1 .. Len(s) /\ ~(i > Len(h))
            BY <1>1, <1>2, <2>1
        <3> QED BY <1>3, <1>5, <3>1
    <2>2. CASE i > first
        <3>1. i > 1 /\ i - 1 \in 1 .. Len(s) /\ i - 1 > Len(h)
            BY <1>1, <1>2, <2>2
        <3> QED BY <1>3, <1>5, <3>1
    <2>3. i \in Nat /\ first \in Nat
        BY <1>1, <1>2
    <2> HIDE DEF first, from
    <2> QED BY <2>1, <2>2, <2>3
<1>6. LastRun(s, TRUE) = SubSeq(s, first, Len(s))
    <2> HIDE DEF first
    <2>1. (CHOOSE i \in 1 .. Len(s) + 1 : from(i)) = first
        <3> HIDE DEF from
        <3> QED BY <1>4, <1>5
    <2> QED BY <2>1 DEF LastRun
<1>7. SubSeq(s, first, Len(s)) = SubSeq(z, 1, Len(z))
    <2>1. first \in Len(h) + 1 .. Len(h) + Len(z) /\ Len(s) \in Len(h) + 1 .. Len(h) + Len(z)
        BY <1>1, <1>2
    <2>2. SubSeq(s, first, Len(s)) = SubSeq(z, first - Len(h), Len(s) - Len(h))
        BY <1>1, <2>1, SubSeqOfConcat2 DEF s
    <2>3. first - Len(h) = 1 /\ Len(s) - Len(h) = Len(z)
        BY <1>1, <1>2
    <2> QED BY <2>2, <2>3
<1> QED BY <1>1, <1>6, <1>7, SubSeqFull DEF s

LEMMA PaddedWithZeros ==
    ASSUME NEW s \in Seq(Digits), NEW w \in Nat \ {0}
    PROVE  \E k \in Nat : Pad(s, w, 0) = Zeros(k) \o s /\ Zeros(k) \o s # <<>>
<1>1. Len(s) \in Nat
    OBVIOUS
<1>2. CASE Len(s) >= w
    <2>1. Zeros(0) = <<>>
        BY DEF Zeros
    <2>2. Zeros(0) \o s = s
        BY <2>1, ConcatEmptySeq
    <2>3. s # <<>>
        BY <1>2
    <2> QED BY <1>2, <2>2, <2>3 DEF Pad
<1>3. CASE ~(Len(s) >= w)
    <2>1. w - Len(s) \in Nat /\ w - Len(s) # 0
        BY <1>1, <1>3
    <2>2. Pad(s, w, 0) = Zeros(w - Len(s)) \o s
        BY <1>3 DEF Pad, Zeros
    <2>3. Len(Zeros(w - Len(s)) \o s) # 0
        BY <1>1, <2>1, ZerosType, ConcatProperties
    <2>4. Zeros(w - Len(s)) \o s # <<>>
        BY <2>3
    <2> QED BY <2>1, <2>2, <2>4
<1> QED BY <1>2, <1>3

\* The formats that end in the digits of the number.
Decimals == {"numeric", "alphanumeric"}

\* A text of these formats is letters and then the number, with zeros before it.
LEMMA RenderedDigits ==
    ASSUME NEW f \in Decimals, NEW d \in Nat \ {0}, NEW n \in Nat
    PROVE  \E h \in Seq(Chars), k \in Nat :
              /\ Render(f, d, n) = h \o (Zeros(k) \o Decimal[n])
              /\ Zeros(k) \o Decimal[n] # <<>>
<1>1. Decimal[n] \in Seq(Digits)
    BY DecimalType
<1>2. CASE f = "numeric"
    <2>1. PICK k \in Nat : /\ Pad(Decimal[n], d, 0) = Zeros(k) \o Decimal[n]
                           /\ Zeros(k) \o Decimal[n] # <<>>
        BY <1>1, PaddedWithZeros
    <2>2. Zeros(k) \o Decimal[n] \in Seq(Digits)
        BY <1>1, ZerosType, ConcatProperties
    <2>3. <<>> \o (Zeros(k) \o Decimal[n]) = Zeros(k) \o Decimal[n]
        BY <2>2, ConcatEmptySeq
    <2>4. Render(f, d, n) = <<>> \o (Zeros(k) \o Decimal[n])
        BY <1>2, <2>1, <2>3 DEF Render
    <2>5. <<>> \in Seq(Chars)
        BY EmptySeq
    <2> QED BY <2>1, <2>4, <2>5
<1>3. CASE f = "alphanumeric"
    <2> DEFINE w == IF d > 1 THEN d - 1 ELSE 1
    <2>1. w \in Nat \ {0}
        OBVIOUS
    <2>2. PICK k \in Nat : /\ Pad(Decimal[n], w, 0) = Zeros(k) \o Decimal[n]
                           /\ Zeros(k) \o Decimal[n] # <<>>
        BY <1>1, <2>1, PaddedWithZeros
    <2>3. Render(f, d, n) = IntToAlpha[n] \o (Zeros(k) \o Decimal[n])
        BY <1>3, <2>2 DEF Render
    <2> QED BY <2>2, <2>3, AlphaType
<1> QED BY <1>2, <1>3 DEF Decimals

\* Reading a number written in these formats gives that number, under
\* whatever format and width it is read (parse_formatted_sequence).
THEOREM ReadBack ==
    ASSUME NEW f \in Decimals, NEW d \in Nat \ {0}, NEW n \in Nat,
           NEW g \in Decimals, NEW e, NEW bound
    PROVE  Parse(g, e, Render(f, d, n), bound) = n
<1>1. PICK h \in Seq(Chars), k \in Nat :
          /\ Render(f, d, n) = h \o (Zeros(k) \o Decimal[n])
          /\ Zeros(k) \o Decimal[n] # <<>>
    BY RenderedDigits
<1> DEFINE z == Zeros(k) \o Decimal[n]
<1>2. z \in Seq(Digits) /\ z # <<>>
    BY <1>1, DecimalType, ZerosType, ConcatProperties
<1>3. Value(z) = n
    BY ValueOfDecimal
<1> HIDE DEF z
<1>4. LastRun(Render(f, d, n), TRUE) = z
    BY <1>1, <1>2, LastDigits DEF z
<1> QED BY <1>2, <1>3, <1>4 DEF Parse, Decimals

\* Hence no two numbers are written alike, not even under different formats of
\* these and widths (format_sequence_value).
THEOREM NumbersAreDistinct ==
    ASSUME NEW f \in Decimals, NEW d \in Nat \ {0},
           NEW g \in Decimals, NEW e \in Nat \ {0}
    PROVE  \A i, j \in Nat : Render(f, d, i) = Render(g, e, j) => i = j
<1> SUFFICES ASSUME NEW i \in Nat, NEW j \in Nat, Render(f, d, i) = Render(g, e, j)
             PROVE  i = j
    OBVIOUS
<1>1. Parse(f, d, Render(f, d, i), 0) = i
    BY ReadBack
<1>2. Parse(f, d, Render(g, e, j), 0) = j
    BY ReadBack
<1> QED BY <1>1, <1>2

-----------------------------------------------------------------------------
(***************************************************************************)
(* The page                                                                *)
(***************************************************************************)

\* The types of the page: the counter stays a number from 1.
PageTypeOK ==
    /\ format \in PageFormats /\ digits \in 1 .. MaxDigits
    /\ next \in Nat \ {0} /\ shown \in Nat

LEMMA SaveReadsBack ==
    ASSUME "alpha" \notin PageFormats, PageTypeOK,
           NEW f \in PageFormats, NEW d \in 1 .. MaxDigits, Save(f, d)
    PROVE  next' = shown /\ shown # 0 /\ shown' = 0 /\ format' = f /\ digits' = d
<1>1. f \in Decimals /\ d \in Nat \ {0}
    BY PageAssumption DEF Decimals, Formats
<1>2. shown \in Nat \ {0}
    BY DEF PageTypeOK, Save, NotLoaded
<1>3. Parse(f, d, Render(f, d, shown), MaxNumber) = shown
    BY <1>1, <1>2, ReadBack
<1> QED BY <1>2, <1>3 DEF Save, NotLoaded, Unread

LEMMA PageNext ==
    ASSUME "alpha" \notin PageFormats, PageTypeOK, [Next]_vars
    PROVE  PageTypeOK'
<1>1. CASE Take
    BY <1>1 DEF PageTypeOK, Take
<1>2. CASE Load
    BY <1>2 DEF PageTypeOK, Load
<1>3. ASSUME NEW f \in PageFormats, NEW d \in 1 .. MaxDigits, Save(f, d)
      PROVE  PageTypeOK'
    BY <1>3, SaveReadsBack DEF PageTypeOK
<1>4. CASE UNCHANGED vars
    BY <1>4 DEF PageTypeOK, vars
<1> QED BY <1>1, <1>2, <1>3, <1>4 DEF Next

\* The configuration page keeps the counter a number from 1, under formats
\* that end in digits.
THEOREM PageTypeCorrect ==
    ASSUME "alpha" \notin PageFormats
    PROVE  Spec => []PageTypeOK
<1>1. Init => PageTypeOK
    BY DEF Init, PageTypeOK, NotLoaded
<1>2. PageTypeOK /\ [Next]_vars => PageTypeOK'
    BY PageNext
<1> QED BY <1>1, <1>2, PTL DEF Spec

\* No number taken before is written like the counter, whatever formats that
\* end in digits, and whatever widths, the form had and has
\* (format_sequence_value).
THEOREM NumbersAreWrittenApart ==
    ASSUME "alpha" \notin PageFormats
    PROVE  Spec => []WrittenApart
<1>1. ASSUME PageTypeOK PROVE WrittenApart
    <2> SUFFICES ASSUME NEW f \in PageFormats, NEW d \in 1 .. MaxDigits,
                        NEW i \in 1 .. next - 1,
                        Render(f, d, i) = Render(format, digits, next)
                 PROVE  FALSE
        BY DEF WrittenApart
    <2>1. PageFormats \subseteq Decimals
        BY PageAssumption DEF Decimals, Formats
    <2>2. /\ f \in Decimals /\ format \in Decimals /\ d \in Nat \ {0} /\ digits \in Nat \ {0}
          /\ i \in Nat /\ next \in Nat /\ i # next
        BY <1>1, <2>1 DEF PageTypeOK
    <2> QED BY <2>2, NumbersAreDistinct
<1> QED BY <1>1, PageTypeCorrect, PTL

\* Saving the page sets the counter to the number the page shows, under
\* formats that end in digits (parse_formatted_sequence).
THEOREM PageSavesWhatIsShown ==
    ASSUME "alpha" \notin PageFormats
    PROVE  Spec => SavesWhatIsShown
<1>1. ASSUME PageTypeOK, [Next]_vars
      PROVE  [shown # NotLoaded /\ shown' = NotLoaded => next' = shown]_vars
    <2>1. CASE Take
        BY <2>1 DEF Take
    <2>2. CASE Load
        BY <2>2 DEF Load
    <2>3. ASSUME NEW f \in PageFormats, NEW d \in 1 .. MaxDigits, Save(f, d)
          PROVE  next' = shown
        BY <1>1, <2>3, SaveReadsBack
    <2>4. CASE UNCHANGED vars
        BY <2>4
    <2> QED BY <1>1, <2>1, <2>2, <2>3, <2>4 DEF Next
<1> QED BY <1>1, PageTypeCorrect, PTL DEF Spec, SavesWhatIsShown
=============================================================================
