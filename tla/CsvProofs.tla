------------------------------ MODULE CsvProofs ------------------------------
(***************************************************************************)
(* Proofs about Csv: reading undoes writing, for tables of any size with   *)
(* any cells.  Induction is over sets of numbers, as a set can be given to *)
(* a lemma where an operator cannot.                                       *)
(***************************************************************************)
EXTENDS Csv, WellFoundedInduction, SequenceTheorems, TLAPS

-----------------------------------------------------------------------------
(* Induction, and the two recursive functions.                             *)

LEMMA SmallestOf ==
    ASSUME NEW T, T \subseteq Nat, T # {}
    PROVE  \E n \in T : \A m \in T : n <= m
  <1> DEFINE R == OpToRel(<, Nat)
  <1>1. IsWellFoundedOn(R, Nat)
    BY NatLessThanWellFounded
  <1>2. \A m, n \in Nat : <<m, n>> \in R <=> m < n
    BY DEF OpToRel
  <1> HIDE DEF R
  <1>3. PICK n \in T : \A m \in T : <<m, n>> \notin R
    BY <1>1, WFMin
  <1>4. \A m \in T : m \in Nat /\ n \in Nat /\ ~(m < n)
    BY <1>2, <1>3
  <1> QED
    BY <1>3, <1>4

\* What holds of the first number of an interval, and of each one's successor,
\* holds of all.
LEMMA Induction ==
    ASSUME NEW m \in Nat, NEW n \in Nat, NEW T, m \in T,
           \A i \in m .. (n - 1) : i \in T => i + 1 \in T
    PROVE  \A i \in m .. n : i \in T
  <1> DEFINE Left == (m .. n) \ T
  <1> SUFFICES ASSUME Left # {} PROVE FALSE
    OBVIOUS
  <1>1. PICK k \in Left : \A i \in Left : k <= i
    <2>1. Left \subseteq Nat
      OBVIOUS
    <2> HIDE DEF Left
    <2> QED
      BY <2>1, SmallestOf
  <1>2. k # m /\ k - 1 \in m .. (n - 1) /\ k - 1 \notin Left
    BY <1>1
  <1>3. k - 1 \in T
    BY <1>2
  <1>4. (k - 1) + 1 \in T
    BY <1>2, <1>3
  <1> QED
    BY <1>1, <1>4

\* The parts of FlattenSeq, joined one after the other.
LEMMA FlattenSteps ==
    ASSUME NEW S, NEW parts \in Seq(Seq(S)), parts # <<>>
    PROVE  \E f : /\ f[1] = parts[1]
                  /\ \A i \in 2 .. Len(parts) : f[i] = f[i - 1] \o parts[i]
                  /\ FlattenSeq(parts) = f[Len(parts)]
  <1> DEFINE n == Len(parts)
             Def(f, k) == f = [i \in 1 .. k |-> IF i = 1 THEN parts[i] ELSE f[i - 1] \o parts[i]]
             T == {k \in Nat : \E f : Def(f, k)}
  <1>1. n \in Nat \ {0}
    BY EmptySeq
  <1>2. 1 \in T
    <2> DEFINE f == [i \in 1 .. 1 |-> parts[1]]
    <2>1. Def(f, 1)
      OBVIOUS
    <2> QED
      BY <2>1
  <1>3. ASSUME NEW k \in 1 .. (n - 1), k \in T
        PROVE  k + 1 \in T
    <2>1. PICK f : Def(f, k)
      BY <1>3
    <2> DEFINE e == f[k] \o parts[k + 1]
               g == [i \in 1 .. (k + 1) |-> IF i = k + 1 THEN e ELSE f[i]]
    <2> HIDE DEF e
    <2>4. g[k + 1] = e /\ k \in 1 .. k
          /\ \A i \in 1 .. k : i \in 1 .. (k + 1) /\ i # k + 1 /\ g[i] = f[i]
      BY <1>3
    <2>2. ASSUME NEW i \in 1 .. (k + 1)
          PROVE  g[i] = IF i = 1 THEN parts[i] ELSE g[i - 1] \o parts[i]
      <3> HIDE DEF g
      <3>1. CASE i = k + 1
        <4>1. i # 1 /\ i - 1 = k
          BY <3>1, <1>3
        <4> QED
          BY <2>4, <3>1, <4>1 DEF e
      <3>2. CASE i # k + 1
        <4>1. i \in 1 .. k /\ g[i] = f[i]
          BY <1>3, <2>4, <3>2
        <4>2. f[i] = IF i = 1 THEN parts[i] ELSE f[i - 1] \o parts[i]
          BY <2>1, <4>1
        <4>3. i # 1 => g[i - 1] = f[i - 1]
          BY <1>3, <2>4, <4>1
        <4> QED
          BY <4>1, <4>2, <4>3
      <3> QED
        BY <3>1, <3>2
    <2>3. Def(g, k + 1)
      BY <2>2, Zenon
    <2>5. k + 1 \in Nat
      BY <1>3
    <2> HIDE DEF Def, g
    <2> QED
      BY <2>3, <2>5
  <1>4. n \in T
    <2>1. n \in Nat /\ 1 \in Nat /\ n \in 1 .. n
      BY <1>1
    <2>2. \A k \in 1 .. (n - 1) : k \in T => k + 1 \in T
      BY <1>3
    <2> HIDE DEF T, n, Def
    <2>3. \A i \in 1 .. n : i \in T
      BY <1>2, <2>1, <2>2, Induction
    <2> QED
      BY <2>1, <2>3
  <1> DEFINE F == CHOOSE f : f = [i \in 1 .. n |-> IF i = 1 THEN parts[i] ELSE f[i - 1] \o parts[i]]
  <1>5. Def(F, n)
    BY <1>4, Zenon
  <1>6. FlattenSeq(parts) = F[n]
    BY <1>1 DEF FlattenSeq
  <1> HIDE DEF F
  <1>7. \A i \in 1 .. n : F[i] = IF i = 1 THEN parts[i] ELSE F[i - 1] \o parts[i]
    BY <1>5
  <1>8. F[1] = parts[1] /\ \A i \in 2 .. n : F[i] = F[i - 1] \o parts[i]
    <2>1. 1 \in 1 .. n /\ \A i \in 2 .. n : i \in 1 .. n /\ i # 1
      BY <1>1
    <2> HIDE DEF n
    <2> QED
      BY <1>7, <2>1
  <1> QED
    BY <1>6, <1>8

\* The characters, which are STRING: the prover does not know that "," is a string.
Char == STRING \cup {Quote, Comma, CR, LF}

LEMMA ParsingSteps ==
    ASSUME NEW t \in Seq(Char)
    PROVE  /\ Parsing(t)[0] = Start
           /\ \A i \in 1 .. Len(t) : Parsing(t)[i] = step(t, Parsing(t)[i - 1], i)
  <1> DEFINE n == Len(t)
             Def(f, k) == f = [i \in 0 .. k |-> IF i = 0 THEN Start ELSE step(t, f[i - 1], i)]
             T == {k \in Nat : \E f : Def(f, k)}
  <1>1. n \in Nat
    BY EmptySeq
  <1>2. 0 \in T
    <2> DEFINE f == [i \in 0 .. 0 |-> Start]
    <2>1. Def(f, 0)
      OBVIOUS
    <2> QED
      BY <2>1
  <1>3. ASSUME NEW k \in 0 .. (n - 1), k \in T
        PROVE  k + 1 \in T
    <2>1. PICK f : Def(f, k)
      BY <1>3
    <2> DEFINE g == [i \in 0 .. (k + 1) |-> IF i = k + 1 THEN step(t, f[k], k + 1) ELSE f[i]]
    <2>4. g[k + 1] = step(t, f[k], k + 1) /\ k \in 0 .. k
          /\ \A i \in 0 .. k : i \in 0 .. (k + 1) /\ i # k + 1 /\ g[i] = f[i]
      BY <1>3
    <2>2. ASSUME NEW i \in 0 .. (k + 1)
          PROVE  g[i] = IF i = 0 THEN Start ELSE step(t, g[i - 1], i)
      <3> HIDE DEF g
      <3>1. CASE i = k + 1
        <4>1. i # 0 /\ i - 1 = k
          BY <3>1, <1>3
        <4> QED
          BY <2>4, <3>1, <4>1
      <3>2. CASE i # k + 1
        <4>1. i \in 0 .. k /\ g[i] = f[i]
          BY <1>3, <2>4, <3>2
        <4>2. f[i] = IF i = 0 THEN Start ELSE step(t, f[i - 1], i)
          BY <2>1, <4>1
        <4>3. i # 0 => g[i - 1] = f[i - 1]
          BY <1>3, <2>4, <4>1
        <4> QED
          BY <4>1, <4>2, <4>3
      <3> QED
        BY <3>1, <3>2
    <2>3. Def(g, k + 1)
      BY <2>2, Zenon
    <2>5. k + 1 \in Nat
      BY <1>3
    <2> HIDE DEF Def, g
    <2> QED
      BY <2>3, <2>5
  <1>4. n \in T
    <2>1. n \in Nat /\ 0 \in Nat /\ n \in 0 .. n
      BY <1>1
    <2>2. \A k \in 0 .. (n - 1) : k \in T => k + 1 \in T
      BY <1>3
    <2> HIDE DEF T, n, Def
    <2>3. \A i \in 0 .. n : i \in T
      BY <1>2, <2>1, <2>2, Induction
    <2> QED
      BY <2>1, <2>3
  <1> DEFINE F == CHOOSE f : f = [i \in 0 .. n |-> IF i = 0 THEN Start ELSE step(t, f[i - 1], i)]
  <1>5. Def(F, n)
    BY <1>4, Zenon
  <1>6. Parsing(t) = F
    BY DEF Parsing
  <1> HIDE DEF F
  <1>7. \A i \in 0 .. n : F[i] = IF i = 0 THEN Start ELSE step(t, F[i - 1], i)
    BY <1>5
  <1> QED
    BY <1>1, <1>6, <1>7


-----------------------------------------------------------------------------
(* What the parser does with a piece of text, wherever it stands.          *)

\* The parser outside of an escape.
At(R, r, f, q) == [rows |-> R, row |-> r, field |-> f, inQuotes |-> q, skip |-> FALSE]

Occurs(u, t, k) == k + Len(u) <= Len(t) /\ \A i \in 1 .. Len(u) : t[k + i] = u[i]

\* u leads from p to q unless it is followed by a character of F.
Reads(p, u, q, F) ==
    \A t \in Seq(Char), k \in Nat :
        Occurs(u, t, k) /\ next(t, k + Len(u)) \notin F /\ Parsing(t)[k] = p
            => Parsing(t)[k + Len(u)] = q

LEMMA ReadsConcat ==
    ASSUME NEW p, NEW q, NEW r, NEW F, NEW G, NEW u \in Seq(Char), NEW v \in Seq(Char),
           Reads(p, u, q, F), Reads(q, v, r, G), F \subseteq G,
           F = {} \/ v = <<>> \/ v[1] \notin F
    PROVE  Reads(p, u \o v, r, G)
  <1> SUFFICES ASSUME NEW t \in Seq(Char), NEW k \in Nat,
                      Occurs(u \o v, t, k), next(t, k + Len(u \o v)) \notin G, Parsing(t)[k] = p
               PROVE  Parsing(t)[k + Len(u \o v)] = r
    BY DEF Reads
  <1>1. /\ Len(u) \in Nat /\ Len(v) \in Nat /\ Len(u \o v) = Len(u) + Len(v) /\ Len(t) \in Nat
        /\ \A i \in 1 .. Len(u) + Len(v) : (u \o v)[i] = IF i <= Len(u) THEN u[i] ELSE v[i - Len(u)]
    BY ConcatProperties, LenProperties
  <1>2. Occurs(u, t, k)
    BY <1>1 DEF Occurs
  <1>3. Occurs(v, t, k + Len(u))
    <2> SUFFICES ASSUME NEW i \in 1 .. Len(v)
                 PROVE  t[k + Len(u) + i] = v[i]
      BY <1>1 DEF Occurs
    <2>1. Len(u) + i \in 1 .. Len(u) + Len(v) /\ ~(Len(u) + i <= Len(u)) /\ (Len(u) + i) - Len(u) = i
      BY <1>1
    <2>2. k + (Len(u) + i) = k + Len(u) + i
      BY <1>1
    <2>3. t[k + (Len(u) + i)] = (u \o v)[Len(u) + i]
      BY <1>1, <2>1 DEF Occurs
    <2> QED
      BY <1>1, <2>1, <2>2, <2>3
  <1>4. next(t, k + Len(u)) \notin F
    <2>1. CASE v = <<>>
      BY <1>1, <2>1, k + Len(u) + 0 = k + Len(u), EmptySeq
    <2>2. CASE v # <<>> /\ F # {}
      <3>1. 1 \in 1 .. Len(v)
        BY <1>1, <2>2, EmptySeq
      <3>2. t[k + Len(u) + 1] = v[1]
        BY <1>3, <3>1 DEF Occurs
      <3>3. k + Len(u) < Len(t)
        BY <1>1, <1>3, <3>1 DEF Occurs
      <3> QED
        BY <2>2, <3>2, <3>3 DEF next
    <2> QED
      BY <2>1, <2>2
  <1>5. Parsing(t)[k + Len(u)] = q
    BY <1>2, <1>4 DEF Reads
  <1>6. k + Len(u) \in Nat /\ (k + Len(u)) + Len(v) = k + Len(u \o v)
    BY <1>1
  <1>7. Parsing(t)[(k + Len(u)) + Len(v)] = r
    BY <1>3, <1>5, <1>6 DEF Reads
  <1> QED
    BY <1>6, <1>7

LEMMA ReadsThen ==
    ASSUME NEW p, NEW q, NEW r, NEW G, NEW u \in Seq(Char), NEW v \in Seq(Char),
           Reads(p, u, q, {}), Reads(q, v, r, G)
    PROVE  u \o v \in Seq(Char) /\ Reads(p, u \o v, r, G)
  <1>1. {} \subseteq G
    OBVIOUS
  <1> QED
    BY <1>1, ReadsConcat, ConcatProperties

\* Texts joined one after the other, the parser being at Q[i] after the i-th.
LEMMA ReadsAll ==
    ASSUME NEW n \in Nat \ {0}, NEW f, NEW parts, NEW Q, NEW F,
           \A i \in 1 .. n : parts[i] \in Seq(Char),
           f[1] = parts[1],
           \A i \in 2 .. n : f[i] = f[i - 1] \o parts[i],
           \A i \in 1 .. n : Reads(Q[i - 1], parts[i], Q[i], F),
           \A i \in 2 .. n : F = {} \/ parts[i] = <<>> \/ parts[i][1] \notin F
    PROVE  Reads(Q[0], f[n], Q[n], F) /\ f[n] \in Seq(Char)
  <1> DEFINE T == {i \in Nat : f[i] \in Seq(Char) /\ Reads(Q[0], f[i], Q[i], F)}
  <1>1. 1 \in T
    BY 1 - 1 = 0, 1 \in 1 .. n
  <1>2. ASSUME NEW i \in 1 .. (n - 1), i \in T
        PROVE  i + 1 \in T
    <2> DEFINE j == i + 1
    <2>1. j \in 2 .. n /\ j \in 1 .. n /\ j - 1 = i /\ j \in Nat
      OBVIOUS
    <2> HIDE DEF j
    <2>2. f[j] = f[i] \o parts[j] /\ parts[j] \in Seq(Char) /\ f[i] \in Seq(Char)
      BY <1>2, <2>1
    <2>3. Reads(Q[0], f[i], Q[i], F) /\ Reads(Q[i], parts[j], Q[j], F)
      BY <1>2, <2>1
    <2>4. F = {} \/ parts[j] = <<>> \/ parts[j][1] \notin F
      BY <2>1
    <2>5. Reads(Q[0], f[i] \o parts[j], Q[j], F)
      BY <2>2, <2>3, <2>4, ReadsConcat
    <2>6. f[i] \o parts[j] \in Seq(Char)
      BY <2>2, ConcatProperties
    <2>7. j \in T
      BY <2>1, <2>2, <2>5, <2>6
    <2> QED
      BY <2>7 DEF j
  <1>3. n \in Nat /\ n \in 1 .. n
    OBVIOUS
  <1> HIDE DEF T
  <1>4. n \in T
    BY <1>1, <1>2, <1>3, Induction
  <1> QED
    BY <1>4 DEF T

\* A single character.
LEMMA ReadsChar ==
    ASSUME NEW c \in Char, NEW p, NEW q, NEW F,
           \A t \in Seq(Char) : \A i \in 1 .. Len(t) :
               t[i] = c /\ next(t, i) \notin F => step(t, p, i) = q
    PROVE  Reads(p, <<c>>, q, F)
  <1> SUFFICES ASSUME NEW t \in Seq(Char), NEW k \in Nat,
                      Occurs(<<c>>, t, k), next(t, k + Len(<<c>>)) \notin F, Parsing(t)[k] = p
               PROVE  Parsing(t)[k + Len(<<c>>)] = q
    BY DEF Reads
  <1>1. Len(<<c>>) = 1 /\ Len(t) \in Nat /\ 1 \in 1 .. 1 /\ <<c>>[1] = c
    BY LenProperties
  <1>2. k + 1 \in 1 .. Len(t) /\ t[k + 1] = c /\ (k + 1) - 1 = k
    <2>1. k + 1 <= Len(t) /\ \A i \in 1 .. 1 : t[k + i] = <<c>>[i]
      BY <1>1 DEF Occurs
    <2> QED
      BY <1>1, <2>1
  <1>3. Parsing(t)[k + 1] = step(t, p, k + 1)
    BY <1>2, ParsingSteps
  <1> QED
    BY <1>1, <1>2, <1>3

Special == {Quote, Comma, CR, LF}

LEMMA ReadsUnquoted ==
    ASSUME NEW R, NEW r, NEW f
    PROVE  /\ Reads(At(R, r, f, FALSE), <<Quote>>, At(R, r, f, TRUE), {})
           /\ Reads(At(R, r, f, FALSE), <<Comma>>, At(R, Append(r, f), <<>>, FALSE), {})
           /\ Reads(At(R, r, f, FALSE), <<CR>>, At(R, r, f, FALSE), {})
           /\ Reads(At(R, r, f, FALSE), <<LF>>, At(Append(R, Append(r, f)), <<>>, <<>>, FALSE), {})
           /\ \A c \in Char \ Special :
                  Reads(At(R, r, f, FALSE), <<c>>, At(R, r, Append(f, c), FALSE), {})
  <1> DEFINE p == At(R, r, f, FALSE)
  <1>1. \A t \in Seq(Char) : \A i \in 1 .. Len(t) : step(t, p, i) = unquoted(p, t[i])
    BY DEF step, At
  <1>2. unquoted(p, Quote) = At(R, r, f, TRUE)
    BY DEF unquoted, At, Comma, Quote, CR, LF
  <1>3. unquoted(p, Comma) = At(R, Append(r, f), <<>>, FALSE)
    BY DEF unquoted, At, endField, Comma, Quote, CR, LF
  <1>4. unquoted(p, CR) = p
    BY DEF unquoted, Comma, Quote, CR, LF
  <1>5. unquoted(p, LF) = At(Append(R, Append(r, f)), <<>>, <<>>, FALSE)
    BY DEF unquoted, At, endRow, endField, Comma, Quote, CR, LF
  <1>6. \A c \in Char \ Special : unquoted(p, c) = At(R, r, Append(f, c), FALSE)
    BY DEF unquoted, At, add, Special
  <1>7. {Quote, Comma, CR, LF} \subseteq Char
    BY DEF Char
  <1> HIDE DEF p
  <1> USE <1>1, <1>7
  <1>8. Reads(p, <<Quote>>, At(R, r, f, TRUE), {})
    BY <1>2, ReadsChar
  <1>9. Reads(p, <<Comma>>, At(R, Append(r, f), <<>>, FALSE), {})
    BY <1>3, ReadsChar
  <1>10. Reads(p, <<CR>>, p, {})
    BY <1>4, ReadsChar
  <1>11. Reads(p, <<LF>>, At(Append(R, Append(r, f)), <<>>, <<>>, FALSE), {})
    BY <1>5, ReadsChar
  <1>12. \A c \in Char \ Special : Reads(p, <<c>>, At(R, r, Append(f, c), FALSE), {})
    BY <1>6, ReadsChar
  <1> QED
    BY <1>8, <1>9, <1>10, <1>11, <1>12 DEF p

LEMMA ReadsQuoted ==
    ASSUME NEW R, NEW r, NEW f
    PROVE  /\ Reads(At(R, r, f, TRUE), <<Quote>>, At(R, r, f, FALSE), {Quote})
           /\ Reads(At(R, r, f, TRUE), <<Quote, Quote>>, At(R, r, Append(f, Quote), TRUE), {})
           /\ \A c \in Char \ {Quote} :
                  Reads(At(R, r, f, TRUE), <<c>>, At(R, r, Append(f, c), TRUE), {})
  <1> DEFINE p == At(R, r, f, TRUE)
             m == [rows |-> R, row |-> r, field |-> Append(f, Quote), inQuotes |-> TRUE, skip |-> TRUE]
  <1>1. \A t \in Seq(Char) : \A i \in 1 .. Len(t) : step(t, p, i) = inQuoted(p, t[i], next(t, i))
    BY DEF step, At
  <1>2. \A c \in Char \ {Quote} : \A d : inQuoted(p, c, d) = At(R, r, Append(f, c), TRUE)
    BY DEF inQuoted, At, add
  <1>3. \A d : d # Quote => inQuoted(p, Quote, d) = At(R, r, f, FALSE)
    BY DEF inQuoted, At
  <1>4. inQuoted(p, Quote, Quote) = m
    BY DEF inQuoted, At, add
  <1>5. \A t \in Seq(Char) : \A i \in 1 .. Len(t) : step(t, m, i) = At(R, r, Append(f, Quote), TRUE)
    BY DEF step, At
  <1>6. Quote \in Char
    BY DEF Char
  <1> HIDE DEF p, m
  <1>7. Reads(p, <<Quote>>, At(R, r, f, FALSE), {Quote})
    <2>1. ASSUME NEW t \in Seq(Char), NEW i \in 1 .. Len(t), t[i] = Quote, next(t, i) \notin {Quote}
          PROVE  step(t, p, i) = At(R, r, f, FALSE)
      BY <1>1, <1>3, <2>1
    <2> QED
      BY <1>6, <2>1, ReadsChar
  <1>8. \A c \in Char \ {Quote} : Reads(p, <<c>>, At(R, r, Append(f, c), TRUE), {})
    <2> SUFFICES ASSUME NEW c \in Char \ {Quote}
                 PROVE  Reads(p, <<c>>, At(R, r, Append(f, c), TRUE), {})
      OBVIOUS
    <2>1. ASSUME NEW t \in Seq(Char), NEW i \in 1 .. Len(t), t[i] = c
          PROVE  step(t, p, i) = At(R, r, Append(f, c), TRUE)
      BY <1>1, <1>2, <2>1
    <2> QED
      BY <2>1, ReadsChar
  <1>9. Reads(p, <<Quote, Quote>>, At(R, r, Append(f, Quote), TRUE), {})
    <2> SUFFICES ASSUME NEW t \in Seq(Char), NEW k \in Nat, Occurs(<<Quote, Quote>>, t, k),
                        Parsing(t)[k] = p
                 PROVE  Parsing(t)[k + 2] = At(R, r, Append(f, Quote), TRUE)
      BY DEF Reads
    <2>1. k + 2 <= Len(t) /\ t[k + 1] = Quote /\ t[k + 2] = Quote /\ Len(t) \in Nat
      BY LenProperties DEF Occurs
    <2>2. /\ k + 1 \in 1 .. Len(t) /\ k + 2 \in 1 .. Len(t) /\ (k + 1) + 1 = k + 2
          /\ (k + 1) - 1 = k /\ (k + 2) - 1 = k + 1 /\ k + 1 < Len(t)
      BY <2>1
    <2>3. next(t, k + 1) = Quote
      BY <2>1, <2>2 DEF next
    <2>4. Parsing(t)[k + 1] = m
      BY <1>1, <1>4, <2>1, <2>2, <2>3, ParsingSteps
    <2> QED
      BY <1>5, <2>2, <2>4, ParsingSteps
  <1> QED
    BY <1>7, <1>8, <1>9 DEF p

LEMMA ReadsNothing ==
    ASSUME NEW p, NEW F
    PROVE  Reads(p, <<>>, p, F)
  <1>1. \A k \in Nat : k + Len(<<>>) = k
    BY EmptySeq
  <1> QED
    BY <1>1 DEF Reads

LEMMA GrowingPrefix ==
    ASSUME NEW S, NEW s \in Seq(S)
    PROVE  /\ Len(s) \in Nat
           /\ SubSeq(s, 1, 0) = <<>>
           /\ SubSeq(s, 1, Len(s)) = s
           /\ s # <<>> => SubSeq(s, 1, 1) = Append(<<>>, s[1])
           /\ \A i \in 0 .. Len(s) : SubSeq(s, 1, i) \in Seq(S)
           /\ \A i \in 1 .. Len(s) : SubSeq(s, 1, i) = Append(SubSeq(s, 1, i - 1), s[i])
  <1>1. Len(s) \in Nat /\ \A i \in 1 .. Len(s) : s[i] \in S
    BY LenProperties, ElementOfSeq
  <1>2. \A i \in 0 .. Len(s) : SubSeq(s, 1, i) \in Seq(S)
    <2> TAKE i \in 0 .. Len(s)
    <2>1. 1 \in Int /\ i \in Int /\ \A j \in 1 .. i : s[j] \in S
      BY <1>1
    <2> QED
      BY <2>1, SubSeqProperties
  <1>3. \A i \in 1 .. Len(s) : SubSeq(s, 1, i) = Append(SubSeq(s, 1, i - 1), s[i])
    <2> TAKE i \in 1 .. Len(s)
    <2>1. 1 \in 1 .. Len(s) /\ i \in 1 .. Len(s) /\ i - 1 \in 0 .. Len(s)
      BY <1>1
    <2>2. SubSeq(s, 1, i) = SubSeq(s, 1, i - 1) \o <<s[i]>>
      BY <2>1, SubSeqRecursiveSecond
    <2> QED
      BY <1>1, <1>2, <2>1, <2>2, AppendIsConcat
  <1>4. SubSeq(s, 1, 0) = <<>>
    BY SubSeqEmpty
  <1>5. s # <<>> => SubSeq(s, 1, 1) = Append(<<>>, s[1])
    BY <1>3, <1>4, EmptySeq, 1 - 1 = 0, Len(s) \in Nat \ {0} => 1 \in 1 .. Len(s)
  <1> QED
    BY <1>1, <1>2, <1>3, <1>4, <1>5, SubSeqFull

\* A function on 1 .. n is a sequence.
LEMMA SequenceOf ==
    ASSUME NEW S, NEW n \in Nat \ {0}, NEW f, f = [i \in 1 .. n |-> f[i]], \A i \in 1 .. n : f[i] \in S
    PROVE  f \in Seq(S) /\ Len(f) = n /\ f # <<>>
  <1>1. f \in [1 .. n -> S]
    BY Zenon
  <1>2. f \in Seq(S) /\ Len(f) = n
    BY <1>1
  <1> QED
    BY <1>2, EmptySeq

LEMMA SpecialChars ==
    /\ <<Quote>> \in Seq(Char) /\ <<Comma>> \in Seq(Char) /\ <<CR>> \in Seq(Char) /\ <<LF>> \in Seq(Char)
    /\ Comma # Quote /\ CR # Quote /\ LF # Quote
  <1>1. Quote \in Char /\ Comma \in Char /\ CR \in Char /\ LF \in Char
    BY DEF Char
  <1>2. Comma # Quote /\ CR # Quote /\ LF # Quote
    BY DEF Comma, CR, LF, Quote
  <1> QED
    BY <1>1, <1>2

-----------------------------------------------------------------------------
(* Cells, rows and tables as they are written lead to where they stood.    *)

\* A cell without special characters is read as it is.
LEMMA ReadsPlainCell ==
    ASSUME NEW R, NEW r, NEW c \in Seq(Char), ToSet(c) \cap Special = {}
    PROVE  Reads(At(R, r, <<>>, FALSE), c, At(R, r, c, FALSE), {})
  <1> DEFINE n == Len(c)
             f == [i \in 1 .. n |-> SubSeq(c, 1, i)]
             parts == [i \in 1 .. n |-> <<c[i]>>]
             Q == [i \in 0 .. n |-> At(R, r, SubSeq(c, 1, i), FALSE)]
  <1>1. CASE c = <<>>
    BY <1>1, ReadsNothing
  <1>2. CASE c # <<>>
    <2>1. n \in Nat \ {0}
      BY <1>2, EmptySeq
    <2>2. \A i \in 1 .. n : c[i] \in Char \ Special
      BY LenProperties, ElementOfSeq DEF ToSet
    <2>3. \A i \in 1 .. n : parts[i] \in Seq(Char)
      BY <2>2
    <2>4. f[1] = parts[1]
      <3>1. 1 \in 1 .. n /\ SubSeq(c, 1, 1) = Append(<<>>, c[1])
        BY <1>2, <2>1, GrowingPrefix
      <3> QED
        BY <3>1
    <2>5. \A i \in 2 .. n : f[i] = f[i - 1] \o parts[i]
      <3> TAKE i \in 2 .. n
      <3>1. i \in 1 .. n /\ i - 1 \in 1 .. n /\ i - 1 \in 0 .. n
        BY <2>1
      <3>2. SubSeq(c, 1, i) = Append(SubSeq(c, 1, i - 1), c[i]) /\ SubSeq(c, 1, i - 1) \in Seq(Char)
        BY <3>1, GrowingPrefix
      <3> QED
        BY <2>2, <3>1, <3>2, AppendIsConcat
    <2>6. \A i \in 1 .. n : Reads(Q[i - 1], parts[i], Q[i], {})
      <3> TAKE i \in 1 .. n
      <3>1. i \in 0 .. n /\ i - 1 \in 0 .. n
        BY <2>1
      <3>2. SubSeq(c, 1, i) = Append(SubSeq(c, 1, i - 1), c[i])
        BY GrowingPrefix
      <3> QED
        BY <2>2, <3>1, <3>2, ReadsUnquoted
    <2>7. Q[0] = At(R, r, <<>>, FALSE) /\ Q[n] = At(R, r, c, FALSE) /\ f[n] = c
      <3>1. 0 \in 0 .. n /\ n \in 0 .. n /\ n \in 1 .. n
        BY <2>1
      <3>2. SubSeq(c, 1, 0) = <<>> /\ SubSeq(c, 1, n) = c
        BY GrowingPrefix
      <3> QED
        BY <3>1, <3>2
    <2> HIDE DEF n, f, parts, Q
    <2>8. Reads(Q[0], f[n], Q[n], {})
      BY <2>1, <2>3, <2>4, <2>5, <2>6, ReadsAll
    <2> QED
      BY <2>7, <2>8
  <1> QED
    BY <1>1, <1>2

\* A quoted cell: each quote in it stands twice.
LEMMA ReadsQuotedCell ==
    ASSUME NEW R, NEW r, NEW c \in Seq(Char), c # <<>>
    PROVE  LET body  == FlattenSeq([i \in DOMAIN c |-> IF c[i] = Quote THEN <<Quote, Quote>> ELSE <<c[i]>>])
               whole == <<Quote>> \o body \o <<Quote>>
           IN  whole \in Seq(Char) /\ Reads(At(R, r, <<>>, FALSE), whole, At(R, r, c, FALSE), {Quote})
  <1> DEFINE n == Len(c)
             parts == [i \in DOMAIN c |-> IF c[i] = Quote THEN <<Quote, Quote>> ELSE <<c[i]>>]
             body == FlattenSeq(parts)
             Q == [i \in 0 .. n |-> At(R, r, SubSeq(c, 1, i), TRUE)]
  <1>1. n \in Nat \ {0} /\ DOMAIN c = 1 .. n
    BY EmptySeq, LenProperties
  <1>2. \A i \in 1 .. n : c[i] \in Char
    BY ElementOfSeq
  <1>3. Quote \in Char
    BY DEF Char
  <1>4. \A i \in 1 .. n : parts[i] \in Seq(Char)
    BY <1>1, <1>2, <1>3
  <1>5. parts \in Seq(Seq(Char)) /\ Len(parts) = n /\ parts # <<>>
    BY <1>1, <1>4
  <1>6. \A i \in 1 .. n : Reads(Q[i - 1], parts[i], Q[i], {})
    <2> TAKE i \in 1 .. n
    <2>1. i \in 0 .. n /\ i - 1 \in 0 .. n /\ parts[i] = IF c[i] = Quote THEN <<Quote, Quote>> ELSE <<c[i]>>
      BY <1>1
    <2>2. SubSeq(c, 1, i) = Append(SubSeq(c, 1, i - 1), c[i])
      BY GrowingPrefix
    <2>3. Q[i - 1] = At(R, r, SubSeq(c, 1, i - 1), TRUE) /\ Q[i] = At(R, r, Append(SubSeq(c, 1, i - 1), c[i]), TRUE)
      BY <2>1, <2>2
    <2>4. CASE c[i] = Quote
      BY <2>1, <2>3, <2>4, ReadsQuoted
    <2>5. CASE c[i] # Quote
      BY <1>2, <2>1, <2>3, <2>5, ReadsQuoted
    <2> QED
      BY <2>4, <2>5
  <1>7. Q[0] = At(R, r, <<>>, TRUE) /\ Q[n] = At(R, r, c, TRUE)
    <2>1. 0 \in 0 .. n /\ n \in 0 .. n
      BY <1>1
    <2>2. SubSeq(c, 1, 0) = <<>> /\ SubSeq(c, 1, n) = c
      BY GrowingPrefix
    <2> QED
      BY <2>1, <2>2
  <1> HIDE DEF n, parts, Q
  <1>8. PICK f : /\ f[1] = parts[1]
                 /\ \A i \in 2 .. n : f[i] = f[i - 1] \o parts[i]
                 /\ body = f[n]
    BY <1>5, FlattenSteps
  <1>9. body \in Seq(Char) /\ Reads(Q[0], body, Q[n], {})
    BY <1>1, <1>4, <1>6, <1>8, ReadsAll
  <1> HIDE DEF body
  <1>10. <<Quote>> \in Seq(Char) /\ <<Quote>> \o body \in Seq(Char)
    BY <1>3, <1>9, ConcatProperties
  <1>11. Reads(At(R, r, <<>>, FALSE), <<Quote>> \o body, Q[n], {})
    <2>1. Reads(At(R, r, <<>>, FALSE), <<Quote>>, Q[0], {})
      BY <1>7, ReadsUnquoted
    <2> QED
      BY <1>9, <1>10, <2>1, ReadsThen
  <1>12. Reads(At(R, r, <<>>, FALSE), (<<Quote>> \o body) \o <<Quote>>, At(R, r, c, FALSE), {Quote})
    <2>1. Reads(Q[n], <<Quote>>, At(R, r, c, FALSE), {Quote})
      BY <1>7, ReadsQuoted
    <2> QED
      BY <1>10, <1>11, <2>1, ReadsThen
  <1>13. (<<Quote>> \o body) \o <<Quote>> \in Seq(Char)
    BY <1>10, ConcatProperties
  <1> QED
    BY <1>12, <1>13 DEF body, parts

LEMMA ReadsCell ==
    ASSUME NEW R, NEW r, NEW c \in Seq(Char)
    PROVE  /\ writeCell(c) \in Seq(Char)
           /\ Reads(At(R, r, <<>>, FALSE), writeCell(c), At(R, r, c, FALSE), {Quote})
  <1>1. CASE ToSet(c) \cap {Quote, Comma, CR, LF} = {}
    <2>1. writeCell(c) = c
      BY <1>1 DEF writeCell
    <2>2. Reads(At(R, r, <<>>, FALSE), c, At(R, r, c, FALSE), {})
      BY <1>1, ReadsPlainCell DEF Special
    <2>3. Reads(At(R, r, <<>>, FALSE), c, At(R, r, c, FALSE), {Quote})
      BY <2>2 DEF Reads
    <2> QED
      BY <2>1, <2>3
  <1>2. CASE ToSet(c) \cap {Quote, Comma, CR, LF} # {}
    <2>1. c # <<>>
      BY <1>2 DEF ToSet
    <2> QED
      BY <1>2, <2>1, ReadsQuotedCell DEF writeCell
  <1> QED
    BY <1>1, <1>2

\* What a separator and the texts between it lead to.
LEMMA ReadsJoin ==
    ASSUME NEW texts \in Seq(Seq(Char)), texts # <<>>, NEW sep \in Seq(Char), sep # <<>>, sep[1] # Quote,
           NEW Q, NEW M,
           Reads(Q[0], texts[1], Q[1], {Quote}),
           \A i \in 2 .. Len(texts) : /\ Reads(Q[i - 1], sep, M[i], {})
                                      /\ Reads(M[i], texts[i], Q[i], {Quote})
    PROVE  /\ Join(texts, sep) \in Seq(Char)
           /\ Reads(Q[0], Join(texts, sep), Q[Len(texts)], {Quote})
  <1> DEFINE n == Len(texts)
             parts == [i \in DOMAIN texts |-> IF i = 1 THEN texts[i] ELSE sep \o texts[i]]
  <1>1. n \in Nat \ {0} /\ DOMAIN texts = 1 .. n /\ 1 \in 1 .. n
    BY EmptySeq, LenProperties
  <1>2. \A i \in 1 .. n : texts[i] \in Seq(Char)
    BY ElementOfSeq
  <1>3. parts[1] = texts[1] /\ \A i \in 2 .. n : parts[i] = sep \o texts[i]
    <2>1. \A i \in 2 .. n : i \in 1 .. n /\ i # 1
      BY <1>1
    <2> QED
      BY <1>1, <2>1
  <1>4. \A i \in 2 .. n : sep \o texts[i] \in Seq(Char) /\ (sep \o texts[i])[1] = sep[1]
    <2> TAKE i \in 2 .. n
    <2>1. texts[i] \in Seq(Char) /\ Len(sep) \in Nat \ {0} /\ Len(texts[i]) \in Nat
      BY <1>1, <1>2, EmptySeq, LenProperties
    <2>2. 1 \in 1 .. Len(sep) + Len(texts[i]) /\ 1 <= Len(sep)
      BY <2>1
    <2> QED
      BY <2>1, <2>2, ConcatProperties
  <1>5. \A i \in 1 .. n : parts[i] \in Seq(Char)
    BY <1>1, <1>2, <1>3, <1>4
  <1>6. DOMAIN parts = 1 .. n /\ parts = [i \in 1 .. n |-> parts[i]]
    BY <1>1
  <1>7. Join(texts, sep) = FlattenSeq(parts)
    BY DEF Join
  <1> HIDE DEF parts
  <1>8. parts \in Seq(Seq(Char)) /\ Len(parts) = n /\ parts # <<>>
    BY <1>1, <1>5, <1>6
  <1>9. \A i \in 2 .. n : Reads(Q[i - 1], parts[i], Q[i], {Quote})
    <2> TAKE i \in 2 .. n
    <2>1. texts[i] \in Seq(Char)
      BY <1>1, <1>2
    <2>2. Reads(Q[i - 1], sep, M[i], {}) /\ Reads(M[i], texts[i], Q[i], {Quote})
      OBVIOUS
    <2>3. Reads(Q[i - 1], sep \o texts[i], Q[i], {Quote})
      BY <2>1, <2>2, ReadsThen
    <2> QED
      BY <1>3, <2>3
  <1>10. \A i \in 1 .. n : Reads(Q[i - 1], parts[i], Q[i], {Quote})
    <2> TAKE i \in 1 .. n
    <2>1. CASE i = 1
      BY <1>3, <2>1, 1 - 1 = 0
    <2>2. CASE i # 1
      BY <1>1, <1>9, <2>2, i \in 2 .. n
    <2> QED
      BY <2>1, <2>2
  <1> HIDE DEF n
  <1>11. PICK f : /\ f[1] = parts[1]
                  /\ \A i \in 2 .. n : f[i] = f[i - 1] \o parts[i]
                  /\ FlattenSeq(parts) = f[n]
    BY <1>8, FlattenSteps
  <1>12. \A i \in 2 .. n : parts[i][1] \notin {Quote}
    BY <1>3, <1>4
  <1>13. Reads(Q[0], f[n], Q[n], {Quote}) /\ f[n] \in Seq(Char)
    BY <1>1, <1>5, <1>10, <1>11, <1>12, ReadsAll
  <1> QED
    BY <1>7, <1>11, <1>13 DEF n

LEMMA ReadsRow ==
    ASSUME NEW R, NEW row \in Seq(Seq(Char)), row # <<>>
    PROVE  /\ writeRow(row) \in Seq(Char)
           /\ Reads(At(R, <<>>, <<>>, FALSE), writeRow(row),
                    At(R, SubSeq(row, 1, Len(row) - 1), row[Len(row)], FALSE), {Quote})
  <1> DEFINE n == Len(row)
             texts == [i \in DOMAIN row |-> writeCell(row[i])]
             Q == [i \in 0 .. n |-> IF i = 0 THEN At(R, <<>>, <<>>, FALSE)
                                    ELSE At(R, SubSeq(row, 1, i - 1), row[i], FALSE)]
             M == [i \in 1 .. n |-> At(R, SubSeq(row, 1, i - 1), <<>>, FALSE)]
  <1>1. n \in Nat \ {0} /\ DOMAIN row = 1 .. n
    BY EmptySeq, LenProperties
  <1>2. \A i \in 1 .. n : row[i] \in Seq(Char)
    BY ElementOfSeq
  <1>3. \A i \in 1 .. n : writeCell(row[i]) \in Seq(Char) /\ texts[i] = writeCell(row[i])
    BY <1>1, <1>2, ReadsCell
  <1>4. texts = [i \in 1 .. n |-> texts[i]]
    BY <1>1
  <1>5. \A i \in 1 .. n : /\ Q[i] = At(R, SubSeq(row, 1, i - 1), row[i], FALSE)
                          /\ M[i] = At(R, SubSeq(row, 1, i - 1), <<>>, FALSE)
    <2>1. \A i \in 1 .. n : i \in 0 .. n /\ i # 0
      BY <1>1
    <2> HIDE DEF n
    <2> QED
      BY <2>1
  <1>6. Q[0] = At(R, <<>>, <<>>, FALSE)
    BY <1>1
  <1>7. writeRow(row) = Join(texts, <<Comma>>)
    BY DEF writeRow
  <1> HIDE DEF texts, Q, M
  <1>8. texts \in Seq(Seq(Char)) /\ Len(texts) = n /\ texts # <<>>
    <2> HIDE DEF n
    <2>1. \A i \in 1 .. n : texts[i] \in Seq(Char)
      BY <1>3
    <2> QED
      BY <1>1, <1>4, <2>1, SequenceOf
  <1>9. \A i \in 1 .. n : Reads(M[i], texts[i], Q[i], {Quote})
    BY <1>2, <1>3, <1>5, ReadsCell
  <1>10. Reads(Q[0], texts[1], Q[1], {Quote})
    <2>1. 1 \in 1 .. n /\ SubSeq(row, 1, 1 - 1) = <<>>
      BY <1>1, GrowingPrefix, 1 - 1 = 0
    <2> QED
      BY <1>5, <1>6, <1>9, <2>1
  <1>11. \A i \in 2 .. n : Reads(Q[i - 1], <<Comma>>, M[i], {})
    <2> TAKE i \in 2 .. n
    <2> DEFINE j == i - 1
    <2>1. j \in 1 .. n /\ i \in 1 .. n
      BY <1>1
    <2>2. M[i] = At(R, SubSeq(row, 1, j), <<>>, FALSE)
      BY <1>5, <2>1
    <2> HIDE DEF j
    <2>3. SubSeq(row, 1, j) = Append(SubSeq(row, 1, j - 1), row[j])
      BY <2>1, GrowingPrefix
    <2>4. Reads(Q[j], <<Comma>>, M[i], {})
      BY <1>5, <2>1, <2>2, <2>3, ReadsUnquoted
    <2> QED
      BY <2>4 DEF j
  <1>12. <<Comma>> \in Seq(Char) /\ <<Comma>> # <<>> /\ <<Comma>>[1] # Quote
    BY SpecialChars
  <1>13. \A i \in 2 .. n : Reads(M[i], texts[i], Q[i], {Quote})
    <2>1. \A i \in 2 .. n : i \in 1 .. n
      BY <1>1
    <2> QED
      BY <1>9, <2>1
  <1>14. Join(texts, <<Comma>>) \in Seq(Char) /\ Reads(Q[0], Join(texts, <<Comma>>), Q[n], {Quote})
    BY <1>8, <1>10, <1>11, <1>12, <1>13, ReadsJoin
  <1>15. Q[n] = At(R, SubSeq(row, 1, n - 1), row[n], FALSE)
    BY <1>1, <1>5, n \in 1 .. n
  <1> QED
    BY <1>6, <1>7, <1>14, <1>15

LineEnds == {<<LF>>, <<CR, LF>>}

LEMMA ReadsLineEnd ==
    ASSUME NEW R, NEW r, NEW f, NEW sep \in LineEnds
    PROVE  /\ sep \in Seq(Char) /\ sep # <<>> /\ sep[1] # Quote
           /\ Reads(At(R, r, f, FALSE), sep, At(Append(R, Append(r, f)), <<>>, <<>>, FALSE), {})
  <1>1. <<LF>> \in Seq(Char) /\ <<CR>> \in Seq(Char) /\ <<CR>> \o <<LF>> = <<CR, LF>>
    <2>1. <<CR>> \o <<LF>> = Append(<<CR>>, LF)
      <3>1. LF \in Char
        BY DEF Char
      <3> QED
        BY <3>1, SpecialChars, AppendIsConcat
    <2>2. Append(<<CR>>, LF) = <<CR, LF>>
      <3>1. LF \in Char /\ CR \in Char
        BY DEF Char
      <3> HIDE DEF CR, LF
      <3>2. <<CR, LF>> \in Seq(Char) /\ Len(<<CR, LF>>) = 2
        BY <3>1
      <3>3. /\ Append(<<CR>>, LF) \in Seq(Char) /\ Len(Append(<<CR>>, LF)) = 2
            /\ Append(<<CR>>, LF)[1] = CR /\ Append(<<CR>>, LF)[2] = LF
        BY <3>1, AppendProperties
      <3>4. \A i \in 1 .. 2 : Append(<<CR>>, LF)[i] = <<CR, LF>>[i]
        BY <3>3
      <3> QED
        BY <3>2, <3>3, <3>4, SeqEqual
    <2> QED
      BY <2>1, <2>2, SpecialChars
  <1>2. Reads(At(R, r, f, FALSE), <<CR, LF>>, At(Append(R, Append(r, f)), <<>>, <<>>, FALSE), {})
    <2>1. Reads(At(R, r, f, FALSE), <<CR>>, At(R, r, f, FALSE), {})
      BY ReadsUnquoted
    <2>2. Reads(At(R, r, f, FALSE), <<LF>>, At(Append(R, Append(r, f)), <<>>, <<>>, FALSE), {})
      BY ReadsUnquoted
    <2>3. Reads(At(R, r, f, FALSE), <<CR>> \o <<LF>>, At(Append(R, Append(r, f)), <<>>, <<>>, FALSE), {})
      BY <1>1, <2>1, <2>2, ReadsThen
    <2> QED
      BY <1>1, <2>3
  <1>3. sep \in Seq(Char) /\ sep # <<>> /\ sep[1] # Quote
    <2>1. CASE sep = <<LF>>
      BY <2>1, SpecialChars
    <2>2. CASE sep = <<CR, LF>>
      <3>1. sep \in Seq(Char)
        BY <1>1, <2>2, ConcatProperties
      <3> QED
        BY <2>2, <3>1, SpecialChars
    <2> QED
      BY <2>1, <2>2 DEF LineEnds
  <1> QED
    BY <1>2, <1>3, ReadsUnquoted DEF LineEnds

\* The rows of a table: each has a cell.
Row == Seq(Seq(Char)) \ {<<>>}

Written(table, sep) == Join([i \in DOMAIN table |-> writeRow(table[i])], sep)

\* The parser before the end of a row.
Before(R, row) == At(R, SubSeq(row, 1, Len(row) - 1), row[Len(row)], FALSE)

LEMMA RowIsWhole ==
    ASSUME NEW row \in Row
    PROVE  Append(SubSeq(row, 1, Len(row) - 1), row[Len(row)]) = row
  <1>1. row \in Seq(Seq(Char)) /\ Len(row) \in Nat \ {0}
    BY EmptySeq DEF Row
  <1>2. Len(row) \in 1 .. Len(row)
    BY <1>1
  <1> QED
    BY <1>1, <1>2, GrowingPrefix

LEMMA ReadsTable ==
    ASSUME NEW table \in Seq(Row), table # <<>>, NEW sep \in LineEnds
    PROVE  /\ Written(table, sep) \in Seq(Char)
           /\ Reads(Start, Written(table, sep),
                    Before(SubSeq(table, 1, Len(table) - 1), table[Len(table)]), {Quote})
  <1> DEFINE n == Len(table)
             texts == [i \in DOMAIN table |-> writeRow(table[i])]
             Q == [i \in 0 .. n |-> IF i = 0 THEN Start ELSE Before(SubSeq(table, 1, i - 1), table[i])]
             M == [i \in 1 .. n |-> At(SubSeq(table, 1, i - 1), <<>>, <<>>, FALSE)]
  <1>1. n \in Nat \ {0} /\ DOMAIN table = 1 .. n
    BY EmptySeq, LenProperties
  <1>2. \A i \in 1 .. n : table[i] \in Row
    BY ElementOfSeq
  <1>3. \A i \in 1 .. n : writeRow(table[i]) \in Seq(Char) /\ texts[i] = writeRow(table[i])
    BY <1>1, <1>2, ReadsRow DEF Row
  <1>4. texts = [i \in 1 .. n |-> texts[i]]
    BY <1>1
  <1>5. \A i \in 1 .. n : /\ Q[i] = Before(SubSeq(table, 1, i - 1), table[i])
                          /\ M[i] = At(SubSeq(table, 1, i - 1), <<>>, <<>>, FALSE)
    <2>1. \A i \in 1 .. n : i \in 0 .. n /\ i # 0
      BY <1>1
    <2> HIDE DEF n
    <2> QED
      BY <2>1
  <1>6. Q[0] = Start
    BY <1>1
  <1>7. Written(table, sep) = Join(texts, sep)
    BY DEF Written
  <1> HIDE DEF texts, Q, M
  <1>8. texts \in Seq(Seq(Char)) /\ Len(texts) = n /\ texts # <<>>
    <2> HIDE DEF n
    <2>1. \A i \in 1 .. n : texts[i] \in Seq(Char)
      BY <1>3
    <2> QED
      BY <1>1, <1>4, <2>1, SequenceOf
  <1>9. \A i \in 1 .. n : Reads(M[i], texts[i], Q[i], {Quote})
    <2> TAKE i \in 1 .. n
    <2>1. table[i] \in Seq(Seq(Char)) /\ table[i] # <<>>
      BY <1>2 DEF Row
    <2> QED
      BY <1>3, <1>5, <2>1, ReadsRow DEF Before
  <1>10. Reads(Q[0], texts[1], Q[1], {Quote})
    <2>1. 1 \in 1 .. n /\ SubSeq(table, 1, 1 - 1) = <<>>
      BY <1>1, GrowingPrefix, 1 - 1 = 0
    <2>2. M[1] = Start
      BY <1>5, <2>1 DEF At, Start
    <2> QED
      BY <1>6, <1>9, <2>1, <2>2
  <1>11. \A i \in 2 .. n : Reads(Q[i - 1], sep, M[i], {})
    <2> TAKE i \in 2 .. n
    <2> DEFINE j == i - 1
    <2>1. j \in 1 .. n /\ i \in 1 .. n
      BY <1>1
    <2>2. M[i] = At(SubSeq(table, 1, j), <<>>, <<>>, FALSE)
      BY <1>5, <2>1
    <2> HIDE DEF j
    <2>3. SubSeq(table, 1, j) = Append(SubSeq(table, 1, j - 1), table[j])
      BY <2>1, GrowingPrefix
    <2>4. Reads(Q[j], sep, M[i], {})
      <3> DEFINE r == SubSeq(table[j], 1, Len(table[j]) - 1)
                 f == table[j][Len(table[j])]
      <3>1. Append(r, f) = table[j]
        BY <1>2, <2>1, RowIsWhole
      <3>2. Q[j] = At(SubSeq(table, 1, j - 1), r, f, FALSE)
        BY <1>5, <2>1 DEF Before
      <3> HIDE DEF r, f
      <3> QED
        BY <2>2, <2>3, <3>1, <3>2, ReadsLineEnd
    <2> QED
      BY <2>4 DEF j
  <1>12. sep \in Seq(Char) /\ sep # <<>> /\ sep[1] # Quote
    BY ReadsLineEnd
  <1>13. \A i \in 2 .. n : Reads(M[i], texts[i], Q[i], {Quote})
    <2>1. \A i \in 2 .. n : i \in 1 .. n
      BY <1>1
    <2> QED
      BY <1>9, <2>1
  <1>14. Join(texts, sep) \in Seq(Char) /\ Reads(Q[0], Join(texts, sep), Q[n], {Quote})
    BY <1>8, <1>10, <1>11, <1>12, <1>13, ReadsJoin
  <1>15. Q[n] = Before(SubSeq(table, 1, n - 1), table[n])
    BY <1>1, <1>5, n \in 1 .. n
  <1> QED
    BY <1>6, <1>7, <1>14, <1>15

-----------------------------------------------------------------------------
(* The whole text, and the rows that are kept of it.                       *)

LEMMA ReadsToTheEnd ==
    ASSUME NEW t \in Seq(Char), NEW q, NEW F, F \subseteq {Quote}, Reads(Start, t, q, F)
    PROVE  Parsing(t)[Len(t)] = q
  <1>1. Len(t) \in Nat /\ 0 + Len(t) = Len(t) /\ \A i \in 1 .. Len(t) : 0 + i = i
    BY LenProperties
  <1>2. Occurs(t, t, 0)
    BY <1>1 DEF Occurs
  <1>3. next(t, 0 + Len(t)) \notin F
    <2>1. next(t, Len(t)) = "end"
      BY <1>1 DEF next
    <2>2. "end" # Quote
      BY DEF Quote
    <2> QED
      BY <1>1, <2>1, <2>2
  <1>4. Parsing(t)[0] = Start
    BY ParsingSteps
  <1>5. Parsing(t)[0 + Len(t)] = q
    BY <1>2, <1>3, <1>4 DEF Reads
  <1> QED
    BY <1>1, <1>5

LEMMA FlattenAppend ==
    ASSUME NEW S, NEW parts \in Seq(Seq(S)), NEW e \in Seq(S)
    PROVE  FlattenSeq(parts) \in Seq(S) /\ FlattenSeq(Append(parts, e)) = FlattenSeq(parts) \o e
  <1> DEFINE n == Len(parts)
             more == Append(parts, e)
  <1>1. /\ more \in Seq(Seq(S)) /\ more # <<>> /\ n \in Nat /\ Len(more) = n + 1
        /\ more[n + 1] = e /\ \A i \in 1 .. n : more[i] = parts[i]
    BY AppendProperties, LenProperties
  <1> HIDE DEF more
  <1>2. PICK g : /\ g[1] = more[1]
                 /\ \A i \in 2 .. (n + 1) : g[i] = g[i - 1] \o more[i]
                 /\ FlattenSeq(more) = g[n + 1]
    BY <1>1, FlattenSteps
  <1>3. CASE parts = <<>>
    <2>1. n = 0 /\ FlattenSeq(parts) = <<>>
      BY <1>3 DEF FlattenSeq
    <2>2. FlattenSeq(more) = e
      BY <1>1, <1>2, <2>1
    <2> QED
      BY <2>1, <2>2, ConcatEmptySeq DEF more
  <1>4. CASE parts # <<>>
    <2>1. n \in Nat \ {0}
      BY <1>4, EmptySeq
    <2>2. PICK f : /\ f[1] = parts[1]
                   /\ \A i \in 2 .. n : f[i] = f[i - 1] \o parts[i]
                   /\ FlattenSeq(parts) = f[n]
      BY <1>4, FlattenSteps
    <2> DEFINE T == {i \in Nat : g[i] = f[i] /\ f[i] \in Seq(S)}
    <2>3. \A i \in 1 .. n : parts[i] \in Seq(S)
      BY ElementOfSeq
    <2>4. 1 \in T
      <3>1. 1 \in 1 .. n
        BY <2>1
      <3> QED
        BY <1>1, <1>2, <2>2, <2>3, <3>1
    <2>5. ASSUME NEW i \in 1 .. (n - 1), i \in T
          PROVE  i + 1 \in T
      <3> DEFINE j == i + 1
      <3>1. j \in 2 .. n /\ j \in 2 .. (n + 1) /\ j \in 1 .. n /\ j - 1 = i /\ j \in Nat
        BY <2>1
      <3> HIDE DEF j
      <3>2. g[j] = g[i] \o more[j] /\ f[j] = f[i] \o parts[j] /\ more[j] = parts[j]
        BY <1>1, <1>2, <2>2, <3>1
      <3>3. g[i] = f[i] /\ f[i] \in Seq(S) /\ parts[j] \in Seq(S)
        BY <2>3, <2>5, <3>1
      <3>4. f[i] \o parts[j] \in Seq(S)
        BY <3>3, ConcatProperties
      <3>5. j \in T
        BY <3>1, <3>2, <3>3, <3>4
      <3> QED
        BY <3>5 DEF j
    <2>6. 1 \in Nat /\ n \in Nat /\ n \in 1 .. n
      BY <2>1
    <2>7. \A i \in 1 .. (n - 1) : i \in T => i + 1 \in T
      BY <2>5
    <2> HIDE DEF T, n
    <2>8. \A i \in 1 .. n : i \in T
      BY <2>4, <2>6, <2>7, Induction
    <2>9. g[n] = f[n] /\ f[n] \in Seq(S)
      BY <2>6, <2>8 DEF T
    <2>10. g[n + 1] = g[n] \o e
      <3>1. n + 1 \in 2 .. (n + 1) /\ (n + 1) - 1 = n
        BY <2>1
      <3> QED
        BY <1>1, <1>2, <3>1
    <2> QED
      BY <1>2, <2>2, <2>9, <2>10 DEF more
  <1> QED
    BY <1>3, <1>4

\* A row that is blank may be missing at the end.
LEMMA BlankEndIsDropped ==
    ASSUME NEW S, NEW rows \in Seq(S), NEW row \in S, Blank(row)
    PROVE  NonBlank(Append(rows, row)) = NonBlank(rows)
  <1> DEFINE Kept(s) == [i \in DOMAIN s |-> IF Blank(s[i]) THEN <<>> ELSE <<s[i]>>]
             more == Append(rows, row)
             n == Len(rows)
  <1>1. /\ more \in Seq(S) /\ n \in Nat /\ Len(more) = n + 1 /\ DOMAIN more = 1 .. (n + 1)
        /\ DOMAIN rows = 1 .. n /\ more[n + 1] = row /\ \A i \in 1 .. n : more[i] = rows[i]
    BY AppendProperties, LenProperties
  <1> HIDE DEF more
  <1>2. \A i \in 1 .. n : rows[i] \in S
    BY ElementOfSeq
  <1>3. Kept(rows) \in Seq(Seq(S)) /\ Len(Kept(rows)) = n
    <2>1. Kept(rows) \in [1 .. n -> Seq(S)]
      BY <1>1, <1>2
    <2> QED
      BY <1>1, <2>1
  <1>4. Kept(more) = Append(Kept(rows), <<>>)
    <2>1. Kept(more) \in Seq(Seq(S)) /\ Len(Kept(more)) = n + 1
      <3>1. \A i \in 1 .. (n + 1) : more[i] \in S
        BY <1>1, ElementOfSeq
      <3>2. Kept(more) \in [1 .. (n + 1) -> Seq(S)]
        BY <1>1, <3>1
      <3> QED
        BY <1>1, <3>2
    <2>2. <<>> \in Seq(S)
      OBVIOUS
    <2>3. /\ Append(Kept(rows), <<>>) \in Seq(Seq(S)) /\ Len(Append(Kept(rows), <<>>)) = n + 1
          /\ Append(Kept(rows), <<>>)[n + 1] = <<>>
          /\ \A i \in 1 .. n : Append(Kept(rows), <<>>)[i] = Kept(rows)[i]
      BY <1>3, <2>2, AppendProperties
    <2>4. Kept(more)[n + 1] = <<>> /\ \A i \in 1 .. n : Kept(more)[i] = Kept(rows)[i]
      BY <1>1
    <2>5. \A i \in 1 .. (n + 1) : Kept(more)[i] = Append(Kept(rows), <<>>)[i]
      BY <1>1, <2>3, <2>4
    <2> HIDE DEF Kept
    <2> QED
      BY <2>1, <2>3, <2>5, SeqEqual
  <1>5. NonBlank(more) = FlattenSeq(Kept(more)) /\ NonBlank(rows) = FlattenSeq(Kept(rows))
    BY DEF NonBlank
  <1> HIDE DEF Kept
  <1>6. <<>> \in Seq(S)
    OBVIOUS
  <1>7. FlattenSeq(Append(Kept(rows), <<>>)) = FlattenSeq(Kept(rows)) \o <<>> /\ FlattenSeq(Kept(rows)) \in Seq(S)
    BY <1>3, <1>6, FlattenAppend
  <1> QED
    BY <1>4, <1>5, <1>7, ConcatEmptySeq DEF more

LEMMA EmptyCellIsBlank == Blank(<<<<>>>>)
  <1>1. Trim(<<>>) = <<>>
    <2>1. {i \in DOMAIN <<>> : <<>>[i] \notin {Space, CR, LF}} = {}
      OBVIOUS
    <2> QED
      BY <2>1 DEF Trim
  <1> QED
    BY <1>1 DEF Blank


\* The text ends with the last row, without a line end.
LEMMA ReadsUnended ==
    ASSUME NEW table \in Seq(Row)
    PROVE  parseCsv(rowsToCsv(table)) = NonBlank(table)
  <1> DEFINE t == Written(table, <<LF>>)
  <1>1. rowsToCsv(table) = t
    BY DEF rowsToCsv, Written
  <1>2. CASE table = <<>>
    <2>1. t = <<>>
      BY <1>2 DEF Written, Join, FlattenSeq
    <2>2. <<>> \in Seq(Char) /\ Len(<<>>) = 0
      OBVIOUS
    <2>3. Parsing(<<>>)[0] = Start
      BY <2>2, ParsingSteps
    <2>4. AllRows(Start) = <<>>
      BY DEF AllRows, Start
    <2> QED
      BY <1>1, <1>2, <2>1, <2>2, <2>3, <2>4 DEF parseCsv
  <1>3. CASE table # <<>>
    <2> DEFINE n == Len(table)
               R == SubSeq(table, 1, n - 1)
               row == table[n]
               r == SubSeq(row, 1, Len(row) - 1)
               f == row[Len(row)]
    <2>1. n \in Nat \ {0} /\ n \in 1 .. n
      BY <1>3, EmptySeq
    <2>2. row \in Row /\ R \in Seq(Row) /\ table = Append(R, row)
      <3>1. SubSeq(table, 1, n) = table /\ SubSeq(table, 1, n) = Append(R, row)
        BY <2>1, GrowingPrefix
      <3>2. n - 1 \in 0 .. n
        BY <2>1
      <3> QED
        BY <2>1, <3>1, <3>2, GrowingPrefix, ElementOfSeq
    <2>3. Append(r, f) = row
      BY <2>2, RowIsWhole
    <2>4. Parsing(t)[Len(t)] = At(R, r, f, FALSE)
      <3>1. <<LF>> \in LineEnds
        BY DEF LineEnds
      <3>2. t \in Seq(Char) /\ Reads(Start, t, Before(R, row), {Quote})
        BY <1>3, <3>1, ReadsTable
      <3>3. {Quote} \subseteq {Quote}
        OBVIOUS
      <3>4. Parsing(t)[Len(t)] = Before(R, row)
        BY <3>2, <3>3, ReadsToTheEnd
      <3> QED
        BY <3>4 DEF Before
    <2> HIDE DEF n, R, row, r, f, t
    <2>5. AllRows(At(R, r, f, FALSE)) = IF f # <<>> \/ r # <<>> THEN Append(R, Append(r, f)) ELSE R
      BY DEF AllRows, endRow, endField, At
    <2>6. CASE f # <<>> \/ r # <<>>
      BY <1>1, <2>2, <2>3, <2>4, <2>5, <2>6 DEF parseCsv
    <2>7. CASE f = <<>> /\ r = <<>>
      <3>1. Append(<<>>, <<>>) = <<<<>>>>
        OBVIOUS
      <3>2. row = <<<<>>>>
        BY <2>3, <2>7, <3>1
      <3>3. NonBlank(Append(R, row)) = NonBlank(R)
        BY <2>2, <3>2, BlankEndIsDropped, EmptyCellIsBlank
      <3> QED
        BY <1>1, <2>2, <2>4, <2>5, <2>7, <3>3 DEF parseCsv
    <2> QED
      BY <2>6, <2>7
  <1> QED
    BY <1>2, <1>3

\* The text ends with a line end.
LEMMA ReadsEnded ==
    ASSUME NEW table \in Seq(Row)
    PROVE  parseCsv(Written(table, <<CR, LF>>) \o <<CR, LF>>) = NonBlank(table)
  <1> DEFINE sep == <<CR, LF>>
             w == Written(table, sep)
             t == w \o sep
  <1>1. sep \in LineEnds
    BY DEF LineEnds
  <1>2. \A R, r, f : Reads(At(R, r, f, FALSE), sep, At(Append(R, Append(r, f)), <<>>, <<>>, FALSE), {Quote})
    <2> TAKE R, r, f
    <2>1. Reads(At(R, r, f, FALSE), sep, At(Append(R, Append(r, f)), <<>>, <<>>, FALSE), {})
      BY <1>1, ReadsLineEnd
    <2> QED
      BY <2>1 DEF Reads
  <1>3. sep \in Seq(Char) /\ sep[1] # Quote
    BY <1>1, ReadsLineEnd
  <1>4. \A R : AllRows(At(R, <<>>, <<>>, FALSE)) = R
    BY DEF AllRows, At
  <1>5. {Quote} \subseteq {Quote}
    OBVIOUS
  <1>6. CASE table = <<>>
    <2>1. w = <<>>
      BY <1>6 DEF Written, Join, FlattenSeq
    <2> HIDE DEF sep, w
    <2>2. t = sep
      BY <1>3, <2>1, ConcatEmptySeq
    <2>3. Start = At(<<>>, <<>>, <<>>, FALSE) /\ Append(<<>>, <<>>) = <<<<>>>>
      BY DEF At, Start
    <2>4. Reads(Start, sep, At(Append(<<>>, <<<<>>>>), <<>>, <<>>, FALSE), {Quote})
      BY <1>2, <2>3
    <2>5. Parsing(t)[Len(t)] = At(Append(<<>>, <<<<>>>>), <<>>, <<>>, FALSE)
      BY <1>3, <1>5, <2>2, <2>4, ReadsToTheEnd
    <2>6. NonBlank(Append(<<>>, <<<<>>>>)) = NonBlank(<<>>)
      <3>1. <<>> \in Seq({<<<<>>>>}) /\ <<<<>>>> \in {<<<<>>>>}
        OBVIOUS
      <3> QED
        BY <3>1, BlankEndIsDropped, EmptyCellIsBlank
    <2> QED
      BY <1>4, <1>6, <2>5, <2>6 DEF parseCsv, sep, w
  <1>7. CASE table # <<>>
    <2> DEFINE n == Len(table)
               R == SubSeq(table, 1, n - 1)
               row == table[n]
               r == SubSeq(row, 1, Len(row) - 1)
               f == row[Len(row)]
    <2>1. n \in Nat \ {0} /\ n \in 1 .. n
      BY <1>7, EmptySeq
    <2>2. row \in Row /\ table = Append(R, row)
      <3>1. SubSeq(table, 1, n) = table /\ SubSeq(table, 1, n) = Append(R, row)
        BY <2>1, GrowingPrefix
      <3> QED
        BY <2>1, <3>1, ElementOfSeq
    <2>3. Append(r, f) = row
      BY <2>2, RowIsWhole
    <2>4. w \in Seq(Char) /\ Reads(Start, w, At(R, r, f, FALSE), {Quote})
      BY <1>1, <1>7, ReadsTable DEF Before
    <2> HIDE DEF n, R, row, r, f, w, sep
    <2>5. Reads(At(R, r, f, FALSE), sep, At(table, <<>>, <<>>, FALSE), {Quote})
      BY <1>2, <2>2, <2>3
    <2>6. t \in Seq(Char) /\ Reads(Start, t, At(table, <<>>, <<>>, FALSE), {Quote})
      <3>1. sep[1] \notin {Quote}
        BY <1>3
      <3> QED
        BY <1>3, <1>5, <2>4, <2>5, <3>1, ReadsConcat, ConcatProperties
    <2>7. Parsing(t)[Len(t)] = At(table, <<>>, <<>>, FALSE)
      BY <1>5, <2>6, ReadsToTheEnd
    <2> QED
      BY <1>4, <2>7 DEF parseCsv, w, sep
  <1> QED
    BY <1>6, <1>7

\* Reading the text of a table gives its rows, but for the blank ones: with
\* either line end, whatever quotes, commas, line ends and spaces are in the cells
\* (csv.ts:7-68 and 78-91).
THEOREM ReadingUndoesWriting ==
    ASSUME NEW table \in Seq(Seq(Seq(STRING)) \ {<<>>})
    PROVE  /\ parseCsv(rowsToCsv(table)) = NonBlank(table)
           /\ parseCsv(Written(table, <<CR, LF>>) \o <<CR, LF>>) = NonBlank(table)
  <1>1. STRING \subseteq Char
    BY DEF Char
  <1>2. Seq(STRING) \subseteq Seq(Char)
    BY <1>1, SeqMonotonic
  <1>3. Seq(Seq(STRING)) \subseteq Seq(Seq(Char))
    BY <1>2, SeqMonotonic
  <1>4. Seq(Seq(STRING)) \ {<<>>} \subseteq Row
    BY <1>3 DEF Row
  <1>5. table \in Seq(Row)
    BY <1>4, SeqMonotonic
  <1> QED
    BY <1>5, ReadsUnended, ReadsEnded
=============================================================================
