------------------------ MODULE TestValidationProofs -------------------------
(***************************************************************************)
(* What the loops of TestValidation compute, for every input: the lines    *)
(* that are kept, the lines of all test cases, and the cursor over them.   *)
(***************************************************************************)
EXTENDS TestValidation, FiniteSetTheorems, SequenceTheorems, WellFoundedInduction, TLAPS

(***************************************************************************)
(* Induction and recursion                                                 *)
(***************************************************************************)
\* The library states induction for an operator, which no prover here can
\* instantiate; for a set it follows from the least element of what is left out.
LEMMA Smallest ==
  ASSUME NEW T, T \subseteq Nat, T # {}
  PROVE  \E n \in T : \A m \in T : n <= m
<1> DEFINE R == {ss \in Nat \X Nat : ss[1] < ss[2]}
<1>1. IsWellFoundedOn(R, Nat)
  BY NatLessThanWellFounded DEF OpToRel
<1> HIDE DEF R
<1>2. PICK n \in T : \A m \in T : ~(<<m, n>> \in R)
  BY <1>1, WFMin
<1>3. \A m \in T : <<m, n>> \in Nat \X Nat
  OBVIOUS
<1>4. \A m \in T : ~(m < n)
  BY <1>2, <1>3 DEF R
<1> QED BY <1>4

LEMMA Induction ==
  ASSUME NEW S, 0 \in S, \A n \in Nat : n \in S => n + 1 \in S
  PROVE  Nat \subseteq S
<1> SUFFICES ASSUME Nat \ S # {} PROVE FALSE
  OBVIOUS
<1>1. PICK n \in Nat \ S : \A m \in Nat \ S : n <= m
  BY Smallest
<1>2. n # 0 /\ n - 1 \in Nat
  BY <1>1
<1>3. n - 1 \in S
  BY <1>1, <1>2
<1> QED BY <1>2, <1>3

\* A recursive function on 0..N, its steps given as a function of the index and
\* the value before.
Steps(N, X) == [(1..N) \X X -> X]

Runs(f, N, X, b, G) ==
  f \in [0..N -> X] /\ f[0] = b /\ \A n \in 1..N : f[n] = G[<<n, f[n - 1]>>]

LEMMA Recursion ==
  ASSUME NEW X, NEW N \in Nat, NEW b \in X, NEW G \in Steps(N, X)
  PROVE  \E f : Runs(f, N, X, b, G)
<1> DEFINE Good == {m \in Nat : m <= N => \E f : Runs(f, m, X, b, G)}
<1>1. 0 \in Good
  <2>1. Runs([n \in 0..0 |-> b], 0, X, b, G)
    BY DEF Runs
  <2> QED BY <2>1
<1>2. ASSUME NEW m \in Nat, m \in Good PROVE m + 1 \in Good
  <2> SUFFICES ASSUME m + 1 <= N PROVE \E f : Runs(f, m + 1, X, b, G)
    OBVIOUS
  <2>1. PICK f : Runs(f, m, X, b, G)
    BY <1>2
  <2> DEFINE g == [n \in 0..(m + 1) |-> IF n = m + 1 THEN G[<<n, f[m]>>] ELSE f[n]]
  <2>2. <<m + 1, f[m]>> \in (1..N) \X X
    BY <2>1 DEF Runs
  <2>3. g \in [0..(m + 1) -> X]
    BY <2>1, <2>2 DEF Runs, Steps
  <2>4. g[0] = b
    BY <2>1 DEF Runs
  <2>5. ASSUME NEW n \in 1..(m + 1) PROVE g[n] = G[<<n, g[n - 1]>>]
    <3>1. CASE n = m + 1
      BY <3>1
    <3>2. CASE n # m + 1
      <4>1. n \in 1..m /\ n - 1 \in 0..m
        BY <3>2
      <4> QED BY <4>1, <2>1 DEF Runs
    <3> QED BY <3>1, <3>2
  <2> HIDE DEF g
  <2> QED BY <2>3, <2>4, <2>5 DEF Runs
<1> HIDE DEF Good
<1>3. N \in Good
  BY <1>1, <1>2, Induction
<1> QED BY <1>3 DEF Good

\* What holds of its first value and is kept by its steps holds of all values.
LEMMA RunStays ==
  ASSUME NEW X, NEW N \in Nat, NEW f, f[0] \in X,
         \A n \in 1..N : f[n - 1] \in X => f[n] \in X
  PROVE  \A n \in 0..N : f[n] \in X
<1> DEFINE Good == {m \in Nat : m <= N => f[m] \in X}
<1>1. 0 \in Good
  OBVIOUS
<1>2. ASSUME NEW m \in Nat, m \in Good PROVE m + 1 \in Good
  <2> SUFFICES ASSUME m + 1 <= N PROVE f[m + 1] \in X
    OBVIOUS
  <2>1. m + 1 \in 1..N /\ (m + 1) - 1 = m /\ f[m] \in X
    BY <1>2
  <2> QED BY <2>1
<1> HIDE DEF Good
<1>3. Nat \subseteq Good
  BY <1>1, <1>2, Induction
<1> QED BY <1>3 DEF Good

(***************************************************************************)
(* Lines                                                                   *)
(***************************************************************************)
\* Line after line is kept or left out.
LEMMA NonblankRuns ==
  ASSUME NEW T, NEW lines \in Seq(T)
  PROVE  \E f : /\ \A n \in 0..Len(lines) : f[n] \in Seq(T \ {Blank})
                /\ f[0] = <<>>
                /\ \A n \in 1..Len(lines) :
                     f[n] = IF lines[n] = Blank THEN f[n - 1] ELSE Append(f[n - 1], lines[n])
                /\ Nonblank(lines) = f[Len(lines)]
<1> DEFINE N == Len(lines)
           X == Seq(T \ {Blank})
           Step(n, s) == IF lines[n] = Blank THEN s ELSE Append(s, lines[n])
           G == [q \in (1..N) \X X |-> Step(q[1], q[2])]
           K(f) == [n \in 0..N |-> IF n = 0 THEN <<>> ELSE Step(n, f[n - 1])]
           kept == CHOOSE f : f = K(f)
<1>1. N \in Nat /\ <<>> \in X
  OBVIOUS
<1>2. ASSUME NEW n \in 1..N, NEW s \in X
      PROVE  Step(n, s) \in X
  <2>1. lines[n] \in T
    OBVIOUS
  <2>2. CASE lines[n] # Blank
    BY <2>1, <2>2, AppendProperties
  <2> QED BY <2>2
<1>3. Nonblank(lines) = kept[N]
  BY DEF Nonblank
<1> HIDE DEF N, X, Step
<1>4. kept = K(kept)
  <2>1. G \in Steps(N, X) /\ \A n \in 1..N, s \in X : G[<<n, s>>] = Step(n, s)
    BY <1>2 DEF Steps
  <2> HIDE DEF G, K
  <2>2. PICK f : Runs(f, N, X, <<>>, G)
    BY <1>1, <2>1, Recursion
  <2>3. ASSUME NEW n \in 0..N, n # 0 PROVE f[n] = Step(n, f[n - 1])
    <3>1. n \in 1..N /\ n - 1 \in 0..N
      BY <1>1, <2>3
    <3> QED BY <2>1, <2>2, <3>1 DEF Runs
  <2>4. f = K(f)
    BY <2>2, <2>3 DEF Runs, K
  <2> QED BY <2>4
<1> HIDE DEF kept
<1>5. kept[0] = <<>> /\ \A n \in 1..N : kept[n] = Step(n, kept[n - 1])
  BY <1>1, <1>4
<1>6. \A n \in 0..N : kept[n] \in X
  BY <1>1, <1>2, <1>5, RunStays
<1> QED BY <1>3, <1>5, <1>6 DEF N, X, Step

\* The lines that are kept are lines, and none of them is blank.
LEMMA NonblankLines ==
  ASSUME NEW T, NEW lines \in Seq(T)
  PROVE  Nonblank(lines) \in Seq(T \ {Blank})
<1>1. Len(lines) \in 0..Len(lines)
  BY LenProperties
<1> QED BY <1>1, NonblankRuns

\* If one line is kept, it is the one that is not blank.
LEMMA OneLineKept ==
  ASSUME NEW T, NEW lines \in Seq(T), Len(Nonblank(lines)) = 1
  PROVE  \E j \in 1..Len(lines) :
           /\ Nonblank(lines) = <<lines[j]>>
           /\ \A i \in 1..Len(lines) : lines[i] # Blank <=> i = j
<1> DEFINE N == Len(lines)
<1>1. N \in Nat
  BY LenProperties
<1>2. PICK f : /\ \A n \in 0..N : f[n] \in Seq(T \ {Blank})
               /\ f[0] = <<>>
               /\ \A n \in 1..N :
                    f[n] = IF lines[n] = Blank THEN f[n - 1] ELSE Append(f[n - 1], lines[n])
               /\ Nonblank(lines) = f[N]
  BY NonblankRuns
<1>3. \A n \in 1..N : lines[n] \in T
  BY ElementOfSeq
<1> HIDE DEF N
<1> DEFINE No(n) == f[n] = <<>> /\ \A i \in 1..n : lines[i] = Blank
           One(n) == \E j \in 1..n : /\ f[n] = <<lines[j]>>
                                    /\ \A i \in 1..n : lines[i] # Blank <=> i = j
           More(n) == Len(f[n]) > 1
           Good == {m \in Nat : m <= N => No(m) \/ One(m) \/ More(m)}
<1>4. 0 \in Good
  BY <1>2
<1>5. ASSUME NEW m \in Nat, m \in Good PROVE m + 1 \in Good
  <2> SUFFICES ASSUME m + 1 <= N PROVE No(m + 1) \/ One(m + 1) \/ More(m + 1)
    OBVIOUS
  <2>1. PICK n \in 1..N : n = m + 1
    BY <1>1
  <2>2. n - 1 = m /\ m \in 0..N
    BY <1>1, <2>1
  <2>3. No(m) \/ One(m) \/ More(m)
    BY <1>1, <1>5, <2>2
  <2>4. f[n] = IF lines[n] = Blank THEN f[m] ELSE Append(f[m], lines[n])
    BY <1>2, <2>2
  <2>5. 1..n = (1..m) \union {n} /\ n \notin 1..m
    BY <2>1
  <2>6. CASE lines[n] = Blank
    <3>1. f[n] = f[m]
      BY <2>4, <2>6
    <3>2. No(m) => No(n)
      BY <2>5, <2>6, <3>1
    <3>3. One(m) => One(n)
      BY <2>5, <2>6, <3>1
    <3> QED BY <2>1, <2>3, <3>1, <3>2, <3>3
  <2>7. CASE lines[n] # Blank
    <3>1. f[n] = Append(f[m], lines[n])
      BY <2>4, <2>7
    <3>2. ASSUME No(m) PROVE One(n)
      <4>1. f[n] = <<lines[n]>>
        BY <3>1, <3>2
      <4>2. \A i \in 1..n : lines[i] # Blank <=> i = n
        BY <2>5, <2>7, <3>2
      <4> QED BY <2>5, <4>1, <4>2
    <3>3. f[m] \in Seq(T) /\ lines[n] \in T
      <4>1. f[m] \in Seq(T \ {Blank})
        BY <1>2, <2>2
      <4> QED BY <1>3, <4>1, SeqMonotonic
    <3>4. Len(f[n]) = Len(f[m]) + 1 /\ Len(f[m]) \in Nat /\ f[n] \in Seq(T)
      BY <3>1, <3>3, AppendProperties, LenProperties
    <3>5. One(m) => Len(f[m]) = 1
      OBVIOUS
    <3>6. One(m) \/ More(m) => More(n)
      <4> SUFFICES ASSUME One(m) \/ More(m) PROVE Len(f[n]) > 1
        OBVIOUS
      <4>1. Len(f[m]) = 1 \/ Len(f[m]) > 1
        BY <3>5
      <4> HIDE DEF One, More
      <4> QED BY <3>3, <3>4, <4>1
    <3> QED BY <2>1, <2>3, <3>2, <3>6
  <2> QED BY <2>6, <2>7
<1>6. N \in Good
  <2> HIDE DEF Good
  <2> QED BY <1>1, <1>4, <1>5, Induction
<1>7. One(N)
  <2>1. No(N) \/ One(N) \/ More(N)
    BY <1>1, <1>6
  <2>2. Len(f[N]) = 1
    BY <1>2 DEF N
  <2>3. ~No(N)
    <3>1. Len(<<>>) = 0
      OBVIOUS
    <3>2. ASSUME f[N] = <<>> PROVE FALSE
      <4>1. Len(f[N]) = 0
        BY <3>1, <3>2
      <4>2. 0 # 1
        OBVIOUS
      <4> QED BY <2>2, <4>1, <4>2, Zenon
    <3> QED BY <3>2
  <2>4. ~More(N)
    BY <2>2
  <2> QED BY <2>1, <2>3, <2>4
<1> QED BY <1>2, <1>7 DEF N

Cases == Seq([id : Nat, output : Seq(Lines)])

LEMMA LineCounts ==
  ASSUME NEW cases \in Cases, NEW k \in 1..Len(cases)
  PROVE  /\ Nonblank(cases[k].output) \in Seq(Lines \ {Blank})
         /\ LineCount(cases[k]) \in Nat
<1>1. cases[k] \in [id : Nat, output : Seq(Lines)]
  BY ElementOfSeq DEF Cases
<1>2. cases[k].output \in Seq(Lines)
  BY <1>1
<1> QED BY <1>2, NonblankLines DEF LineCount

\* The cursor starts at zero and moves by the lines of each test case.
LEMMA CursorMoves ==
  ASSUME NEW cases \in Cases
  PROVE  /\ \A k \in 0..Len(cases) : Cursor(cases, k) \in Nat
         /\ Cursor(cases, 0) = 0
         /\ \A k \in 1..Len(cases) :
              Cursor(cases, k) = Cursor(cases, k - 1) + LineCount(cases[k])
<1> DEFINE N == Len(cases)
           Count(n) == LineCount(cases[n])
           G == [q \in (1..N) \X Nat |-> q[2] + Count(q[1])]
           K(f) == [n \in 0..N |-> IF n = 0 THEN 0 ELSE f[n - 1] + Count(n)]
           cursor == CHOOSE f : f = K(f)
<1>1. N \in Nat
  BY DEF Cases
<1>2. \A n \in 1..N : Count(n) \in Nat
  BY LineCounts
<1>3. \A k : Cursor(cases, k) = cursor[k]
  BY DEF Cursor
<1> HIDE DEF N, Count
<1>4. cursor = K(cursor)
  <2>1. G \in Steps(N, Nat) /\ \A n \in 1..N, s \in Nat : G[<<n, s>>] = s + Count(n)
    BY <1>2 DEF Steps
  <2> HIDE DEF G, K
  <2>2. PICK f : Runs(f, N, Nat, 0, G)
    BY <1>1, <2>1, Recursion
  <2>3. ASSUME NEW n \in 0..N, n # 0 PROVE f[n] = f[n - 1] + Count(n)
    <3>1. n \in 1..N /\ n - 1 \in 0..N
      BY <1>1, <2>3
    <3> QED BY <2>1, <2>2, <3>1 DEF Runs
  <2>4. f = K(f)
    BY <2>2, <2>3 DEF Runs, K
  <2> QED BY <2>4
<1> HIDE DEF cursor
<1>5. cursor[0] = 0 /\ \A n \in 1..N : cursor[n] = cursor[n - 1] + Count(n)
  BY <1>1, <1>4
<1>6. \A n \in 0..N : cursor[n] \in Nat
  <2> DEFINE X == Nat
  <2>1. cursor[0] \in X /\ \A n \in 1..N : cursor[n - 1] \in X => cursor[n] \in X
    BY <1>2, <1>5
  <2> HIDE DEF X
  <2>2. \A n \in 0..N : cursor[n] \in X
    BY <1>1, <2>1, RunStays
  <2> QED BY <2>2 DEF X
<1> QED BY <1>3, <1>5, <1>6 DEF N, Count

(***************************************************************************)
(* Sequences of sequences                                                  *)
(***************************************************************************)
\* FlattenSeq appends one sequence after the other.
LEMMA FlattenRuns ==
  ASSUME NEW T, NEW seqs \in Seq(Seq(T))
  PROVE  \E f : /\ \A n \in 0..Len(seqs) : f[n] \in Seq(T)
                /\ f[0] = <<>>
                /\ \A n \in 1..Len(seqs) : f[n] = f[n - 1] \o seqs[n]
                /\ FlattenSeq(seqs) = f[Len(seqs)]
<1> DEFINE N == Len(seqs)
           X == Seq(T)
           Step(n, s) == s \o seqs[n]
           G == [q \in (1..N) \X X |-> Step(q[1], q[2])]
           K(f) == [n \in 1..N |-> IF n = 1 THEN seqs[n] ELSE f[n - 1] \o seqs[n]]
           flat == CHOOSE f : f = K(f)
<1>1. N \in Nat /\ <<>> \in X
  OBVIOUS
<1>2. \A n \in 1..N : seqs[n] \in X
  OBVIOUS
<1>3. FlattenSeq(seqs) = IF N = 0 THEN <<>> ELSE flat[N]
  <2>1. N = 0 => seqs = <<>>
    OBVIOUS
  <2> QED BY <2>1 DEF FlattenSeq
<1>4. /\ \A n \in 1..N, s \in X : s \o seqs[n] \in X
      /\ \A n \in 1..N : <<>> \o seqs[n] = seqs[n]
  BY <1>2, ConcatProperties, ConcatEmptySeq
<1> HIDE DEF N, X
<1>5. flat = K(flat)
  <2>1. G \in Steps(N, X) /\ \A n \in 1..N, s \in X : G[<<n, s>>] = s \o seqs[n]
    BY <1>4 DEF Steps
  <2> HIDE DEF G, K
  <2>2. PICK f : Runs(f, N, X, <<>>, G)
    BY <1>1, <2>1, Recursion
  <2> DEFINE g == [n \in 1..N |-> f[n]]
  <2>3. ASSUME NEW n \in 1..N PROVE f[n] = f[n - 1] \o seqs[n]
    <3>1. n - 1 \in 0..N
      BY <1>1, <2>3
    <3> QED BY <2>1, <2>2, <3>1 DEF Runs
  <2>4. ASSUME NEW n \in 1..N PROVE g[n] = IF n = 1 THEN seqs[n] ELSE g[n - 1] \o seqs[n]
    <3>1. CASE n = 1
      <4>1. f[n - 1] = <<>>
        BY <2>2, <3>1 DEF Runs
      <4>2. g[n] = f[n - 1] \o seqs[n]
        BY <2>3
      <4> QED BY <1>4, <3>1, <4>1, <4>2
    <3>2. CASE n # 1
      <4>1. n - 1 \in 1..N
        BY <1>1, <3>2
      <4> QED BY <2>3, <3>2, <4>1
    <3> QED BY <3>1, <3>2
  <2>5. g = [n \in 1..N |-> g[n]]
    OBVIOUS
  <2> HIDE DEF g
  <2>6. g = K(g)
    BY <2>4, <2>5 DEF K
  <2> QED BY <2>6
<1> HIDE DEF flat
<1> DEFINE f == [n \in 0..N |-> IF n = 0 THEN <<>> ELSE flat[n]]
<1>6. f[0] = <<>> /\ FlattenSeq(seqs) = f[N]
  BY <1>1, <1>3
<1>7. ASSUME NEW n \in 1..N PROVE f[n] = f[n - 1] \o seqs[n]
  <2>1. flat[n] = IF n = 1 THEN seqs[n] ELSE flat[n - 1] \o seqs[n]
    BY <1>1, <1>5
  <2>2. f[n] = flat[n] /\ f[n - 1] = IF n = 1 THEN <<>> ELSE flat[n - 1]
    BY <1>1
  <2> HIDE DEF f
  <2> QED BY <1>4, <2>1, <2>2
<1> HIDE DEF f
<1>8. \A n \in 0..N : f[n] \in X
  <2>1. \A n \in 1..N : f[n - 1] \in X => f[n] \in X
    BY <1>4, <1>7
  <2> QED BY <1>1, <1>6, <2>1, RunStays
<1> QED BY <1>6, <1>7, <1>8 DEF N, X

\* Where the elements of each sequence are, given the length of all before it.
Located(seqs, off) ==
  \A k \in 1..Len(seqs) :
    /\ off[k] <= off[Len(seqs)]
    /\ \A i \in 1..off[k] :
         i > off[k - 1] => FlattenSeq(seqs)[i] = seqs[k][i - off[k - 1]]

LEMMA FlattenedAt ==
  ASSUME NEW T, NEW seqs \in Seq(Seq(T)), NEW off, off[0] = 0,
         \A k \in 0..Len(seqs) : off[k] \in Nat,
         \A k \in 1..Len(seqs) : off[k] = off[k - 1] + Len(seqs[k])
  PROVE  /\ FlattenSeq(seqs) \in Seq(T)
         /\ Len(FlattenSeq(seqs)) = off[Len(seqs)]
         /\ Located(seqs, off)
<1> DEFINE N == Len(seqs)
           S(k) == seqs[k]
<1>1. N \in Nat /\ \A k \in 1..N : S(k) \in Seq(T)
  OBVIOUS
<1>2. PICK f : /\ \A n \in 0..N : f[n] \in Seq(T)
               /\ f[0] = <<>>
               /\ \A n \in 1..N : f[n] = f[n - 1] \o S(n)
               /\ FlattenSeq(seqs) = f[N]
  BY FlattenRuns
<1>3. /\ \A k \in 0..N : off[k] \in Nat
      /\ \A k \in 1..N : off[k] = off[k - 1] + Len(S(k))
  OBVIOUS
<1> DEFINE At(m, k) == /\ off[k] <= off[m]
                       /\ \A i \in 1..off[k] : i > off[k - 1] => f[m][i] = S(k)[i - off[k - 1]]
           Good == {m \in Nat : m <= N => Len(f[m]) = off[m] /\ \A k \in 1..m : At(m, k)}
<1> HIDE DEF N, S
<1>4. 0 \in Good
  BY <1>2
<1>5. ASSUME NEW m \in Nat, m \in Good PROVE m + 1 \in Good
  <2> SUFFICES ASSUME m + 1 <= N
               PROVE  Len(f[m + 1]) = off[m + 1] /\ \A k \in 1..(m + 1) : At(m + 1, k)
    OBVIOUS
  <2>1. Len(f[m]) = off[m] /\ \A k \in 1..m : At(m, k)
    BY <1>1, <1>5
  <2>2. PICK n \in 1..N : n = m + 1
    BY <1>1
  <2>3. n \in 0..N /\ m \in 0..N /\ n - 1 = m
    BY <1>1, <2>2
  <2>4. f[n] = f[m] \o S(n) /\ off[n] = off[m] + Len(S(n))
    BY <1>2, <1>3, <2>3
  <2>5. off[m] \in Nat /\ off[n] \in Nat /\ f[m] \in Seq(T) /\ S(n) \in Seq(T)
    BY <1>1, <1>2, <1>3, <2>3
  <2>6. Len(S(n)) \in Nat /\ off[m] <= off[n]
    BY <2>4, <2>5, LenProperties
  <2>7. /\ Len(f[n]) = off[n]
        /\ \A i \in 1..off[n] : f[n][i] = IF i <= off[m] THEN f[m][i] ELSE S(n)[i - off[m]]
    <3>1. Len(f[m]) = off[m]
      BY <2>1
    <3> HIDE DEF S
    <3> QED BY <2>4, <2>5, <3>1, ConcatProperties
  <2>8. At(n, n)
    BY <2>3, <2>5, <2>7
  <2>9. ASSUME NEW k \in 1..m PROVE At(n, k)
    <3>1. k \in 0..N /\ k \in 1..N
      BY <1>1, <2>3
    <3>2. off[k] \in Nat /\ off[k] <= off[m] /\ At(m, k)
      BY <1>3, <2>1, <3>1
    <3>3. \A i \in 1..off[k] : i \in 1..off[n] /\ i <= off[m]
      BY <2>5, <2>6, <3>2
    <3>4. off[k] <= off[n]
      BY <2>5, <2>6, <3>2
    <3>5. \A i \in 1..off[k] : i > off[k - 1] => f[n][i] = S(k)[i - off[k - 1]]
      BY <2>7, <3>2, <3>3
    <3> QED BY <3>4, <3>5
  <2> HIDE DEF At
  <2>10. ASSUME NEW k \in 1..n PROVE At(n, k)
    <3>1. k = n \/ k \in 1..m
      BY <2>3
    <3> QED BY <2>8, <2>9, <3>1
  <2> QED BY <2>2, <2>7, <2>10
<1>6. N \in Good
  <2> HIDE DEF Good
  <2> QED BY <1>1, <1>4, <1>5, Induction
<1>7. N \in 0..N /\ Len(f[N]) = off[N] /\ \A k \in 1..N : At(N, k)
  BY <1>1, <1>6
<1> QED BY <1>2, <1>7 DEF N, S, Located

\* The expected lines of all test cases are as many as the cursor counts, and
\* those of a test case follow where the cursor is before it.
LEMMA ExpectedLines ==
  ASSUME NEW cases \in Cases
  PROVE  /\ Expected(cases) \in Seq(Lines \ {Blank})
         /\ Len(Expected(cases)) = Cursor(cases, Len(cases))
         /\ \A k \in 1..Len(cases) :
              /\ Cursor(cases, k) <= Len(Expected(cases))
              /\ \A i \in 1..Cursor(cases, k) : i > Cursor(cases, k - 1) =>
                   Expected(cases)[i] = Nonblank(cases[k].output)[i - Cursor(cases, k - 1)]
<1> DEFINE T == Lines \ {Blank}
           N == Len(cases)
           Of(k) == Nonblank(cases[k].output)
           seqs == [k \in DOMAIN cases |-> Of(k)]
           off == [k \in 0..N |-> Cursor(cases, k)]
<1>1. N \in Nat /\ DOMAIN cases = 1..N
  BY DEF Cases
<1>2. \A k \in 1..N : Of(k) \in Seq(T) /\ LineCount(cases[k]) = Len(Of(k))
  BY LineCounts DEF LineCount
<1>3. Expected(cases) = FlattenSeq(seqs)
  BY DEF Expected
<1>4. \A k \in 0..N : Cursor(cases, k) \in Nat
  BY CursorMoves
<1>5. off[0] = 0 /\ \A k \in 1..N : off[k] = off[k - 1] + LineCount(cases[k])
  <2>1. ASSUME NEW k \in 1..N PROVE off[k] = off[k - 1] + LineCount(cases[k])
    <3>1. k \in 0..N /\ k - 1 \in 0..N
      BY <1>1
    <3>2. Cursor(cases, k) = Cursor(cases, k - 1) + LineCount(cases[k])
      BY CursorMoves
    <3> QED BY <3>1, <3>2
  <2> QED BY <1>1, <2>1, CursorMoves
<1>6. \A k \in 0..N : off[k] = Cursor(cases, k) /\ off[k] \in Nat
  BY <1>1, <1>4
<1>7. \A k \in 1..N : k \in 0..N /\ k - 1 \in 0..N
  BY <1>1
<1> HIDE DEF T, N, Of, off
<1>8. seqs \in Seq(Seq(T)) /\ Len(seqs) = N /\ \A k \in 1..N : seqs[k] = Of(k)
  BY <1>1, <1>2
<1> HIDE DEF seqs
<1>9. /\ \A k \in 0..Len(seqs) : off[k] \in Nat
      /\ \A k \in 1..Len(seqs) : off[k] = off[k - 1] + Len(seqs[k])
  BY <1>2, <1>5, <1>6, <1>8
<1>10. /\ FlattenSeq(seqs) \in Seq(T) /\ Len(FlattenSeq(seqs)) = off[Len(seqs)]
       /\ Located(seqs, off)
  BY <1>5, <1>8, <1>9, FlattenedAt
<1>11. N \in 0..N
  BY <1>1
<1>12. /\ Expected(cases) \in Seq(T)
       /\ Len(Expected(cases)) = Cursor(cases, N)
       /\ \A k \in 1..N :
            /\ off[k] <= off[N]
            /\ \A i \in 1..off[k] : i > off[k - 1] => Expected(cases)[i] = Of(k)[i - off[k - 1]]
  BY <1>3, <1>6, <1>8, <1>10, <1>11 DEF Located
<1>13. \A k \in 1..N :
         /\ Cursor(cases, k) <= Cursor(cases, N)
         /\ \A i \in 1..Cursor(cases, k) : i > Cursor(cases, k - 1) =>
              Expected(cases)[i] = Of(k)[i - Cursor(cases, k - 1)]
  BY <1>6, <1>7, <1>11, <1>12
<1> QED BY <1>12, <1>13 DEF T, N, Of

\* If each expected line is labelled with something of its test case, the label
\* of the i-th line is that of the first test case that the cursor has not
\* passed before it.
Labels(cases, label) ==
  FlattenSeq([k \in DOMAIN cases |->
    [j \in DOMAIN Nonblank(cases[k].output) |-> label[k]]])

LEMMA LabelledLines ==
  ASSUME NEW cases \in Cases, NEW label, \A k \in 1..Len(cases) : label[k] \in Nat
  PROVE  /\ Len(Labels(cases, label)) = Len(Expected(cases))
         /\ \A k \in 1..Len(cases) : \A i \in 1..Cursor(cases, k) :
              i > Cursor(cases, k - 1) => Labels(cases, label)[i] = label[k]
<1> DEFINE T == Nat
           N == Len(cases)
           Of(k) == [j \in DOMAIN Nonblank(cases[k].output) |-> label[k]]
           seqs == [k \in DOMAIN cases |-> Of(k)]
           off == [k \in 0..N |-> Cursor(cases, k)]
<1>1. N \in Nat /\ DOMAIN cases = 1..N
  BY DEF Cases
<1>2. ASSUME NEW k \in 1..N
      PROVE  /\ Of(k) \in Seq(T) /\ LineCount(cases[k]) = Len(Of(k)) /\ Len(Of(k)) \in Nat
             /\ \A j \in 1..Len(Of(k)) : Of(k)[j] = label[k]
  <2>1. Nonblank(cases[k].output) \in Seq(Lines \ {Blank})
    BY LineCounts
  <2>2. PICK n \in Nat : Len(Nonblank(cases[k].output)) = n /\ DOMAIN Nonblank(cases[k].output) = 1..n
    BY <2>1
  <2>3. Of(k) = [j \in 1..n |-> label[k]] /\ LineCount(cases[k]) = n
    BY <2>2 DEF LineCount
  <2>4. label[k] \in T
    OBVIOUS
  <2> QED BY <2>3, <2>4
<1>3. \A k \in 0..N : Cursor(cases, k) \in Nat
  BY CursorMoves
<1>4. off[0] = 0 /\ \A k \in 1..N : off[k] = off[k - 1] + LineCount(cases[k])
  <2>1. ASSUME NEW k \in 1..N PROVE off[k] = off[k - 1] + LineCount(cases[k])
    <3>1. k \in 0..N /\ k - 1 \in 0..N
      BY <1>1
    <3>2. Cursor(cases, k) = Cursor(cases, k - 1) + LineCount(cases[k])
      BY CursorMoves
    <3> QED BY <3>1, <3>2
  <2> QED BY <1>1, <2>1, CursorMoves
<1>5. \A k \in 0..N : off[k] = Cursor(cases, k) /\ off[k] \in Nat
  BY <1>1, <1>3
<1> HIDE DEF N, Of, off
<1>6. seqs \in Seq(Seq(T)) /\ Len(seqs) = N /\ \A k \in 1..N : seqs[k] = Of(k)
  BY <1>1, <1>2
<1> HIDE DEF seqs
<1>7. /\ \A k \in 0..Len(seqs) : off[k] \in Nat
      /\ \A k \in 1..Len(seqs) : off[k] = off[k - 1] + Len(seqs[k])
  BY <1>2, <1>4, <1>5, <1>6
<1>8. /\ Len(FlattenSeq(seqs)) = off[N]
      /\ \A k \in 1..N : \A i \in 1..off[k] :
           i > off[k - 1] => FlattenSeq(seqs)[i] = seqs[k][i - off[k - 1]]
  <2>1. Len(FlattenSeq(seqs)) = off[Len(seqs)] /\ Located(seqs, off)
    BY <1>4, <1>6, <1>7, FlattenedAt
  <2> QED BY <1>6, <2>1 DEF Located
<1>9. Len(FlattenSeq(seqs)) = Len(Expected(cases))
  BY <1>1, <1>5, <1>8, ExpectedLines DEF N
<1>10. ASSUME NEW k \in 1..N, NEW i \in 1..off[k], i > off[k - 1]
       PROVE  FlattenSeq(seqs)[i] = label[k]
  <2>1. k - 1 \in 0..N /\ k \in 0..N
    BY <1>1
  <2>2. i - off[k - 1] \in 1..Len(Of(k))
    BY <1>2, <1>4, <1>5, <1>10, <2>1
  <2> QED BY <1>2, <1>6, <1>8, <1>10, <2>2
<1>11. \A k \in 1..N : k \in 0..N /\ k - 1 \in 0..N
  BY <1>1
<1> QED BY <1>5, <1>9, <1>10, <1>11 DEF N, seqs, Of, Labels

\* Where the first test case is whose lines the cursor counts up to i.
LEMMA BlamedCase ==
  ASSUME NEW cases \in Cases, NEW i \in 1..Len(Expected(cases))
  PROVE  \E k \in 1..Len(cases) :
           /\ FailedCase(cases, i) = cases[k]
           /\ i \in 1..Cursor(cases, k) /\ i > Cursor(cases, k - 1)
<1> DEFINE N == Len(cases)
           upto == {k \in DOMAIN cases : i <= Cursor(cases, k)}
<1>1. N \in Nat /\ DOMAIN cases = 1..N
  BY DEF Cases
<1>2. /\ i <= Cursor(cases, N) /\ i \in Nat /\ i >= 1
      /\ \A k \in 0..N : Cursor(cases, k) \in Nat
      /\ Cursor(cases, 0) = 0
  BY ExpectedLines, CursorMoves, <1>1
<1>3. N \in upto /\ upto \subseteq Nat
  BY <1>1, <1>2
<1>4. PICK k \in upto : \A j \in upto : k <= j
  BY <1>3, Smallest
<1> DEFINE m == Min(upto)
<1>5. m \in upto /\ \A j \in upto : m <= j
  BY <1>4 DEF Min
<1>6. FailedCase(cases, i) = cases[m]
  BY <1>3 DEF FailedCase
<1> HIDE DEF m
<1>7. m \in 1..N /\ i <= Cursor(cases, m) /\ m - 1 \in 0..N /\ m - 1 \notin upto
  <2>1. m \in 1..N /\ i <= Cursor(cases, m)
    BY <1>1, <1>5
  <2>2. ~(m <= m - 1) /\ m - 1 \in 0..N
    BY <1>1, <2>1
  <2>3. m - 1 \notin upto
    <3> HIDE DEF upto
    <3> QED BY <1>5, <2>2
  <2> QED BY <2>1, <2>2, <2>3
<1>8. i > Cursor(cases, m - 1)
  BY <1>1, <1>2, <1>7
<1>9. Cursor(cases, m) \in Nat
  BY <1>2, <1>7
<1> QED BY <1>2, <1>6, <1>7, <1>8, <1>9 DEF N

(***************************************************************************)
(* Comparison                                                              *)
(***************************************************************************)
\* The loop over the expected lines returns at the first difference; up to it,
\* or up to the end of the expected lines, there is a line for each of them.
LEMMA FirstDifference ==
  ASSUME NEW U, NEW T, NEW lines \in Seq(U), NEW expected \in Seq(T), Blank \notin T
  PROVE  LET wrong == FirstWrong(lines, expected)
         IN  \/ /\ wrong = 0 /\ Len(expected) <= Len(lines)
                /\ \A i \in 1..Len(expected) : lines[i] = expected[i]
             \/ /\ wrong \in 1..Len(expected)
                /\ LineAt(lines, wrong) # expected[wrong]
                /\ wrong - 1 <= Len(lines)
                /\ \A i \in 1..(wrong - 1) : lines[i] = expected[i]
<1> DEFINE N == Len(expected)
           M == Len(lines)
           wrong == {i \in DOMAIN expected : LineAt(lines, i) # expected[i]}
           w == FirstWrong(lines, expected)
<1>1. /\ N \in Nat /\ DOMAIN expected = 1..N /\ \A i \in 1..N : expected[i] # Blank
      /\ M \in Nat /\ DOMAIN lines = 1..M
  BY LenProperties, ElementOfSeq
<1>2. \A i \in 1..N : LineAt(lines, i) = expected[i] => i <= M /\ lines[i] = expected[i]
  BY <1>1 DEF LineAt
<1>3. CASE wrong = {}
  <2>1. w = 0
    BY <1>3 DEF FirstWrong
  <2>2. \A i \in 1..N : LineAt(lines, i) = expected[i]
    BY <1>1, <1>3
  <2> HIDE DEF N, M, w
  <2>3. N <= M
    BY <1>1, <1>2, <2>2
  <2> QED BY <1>2, <2>1, <2>2, <2>3 DEF N, M, w
<1>4. CASE wrong # {}
  <2>1. w = Min(wrong)
    BY <1>4 DEF FirstWrong
  <2>2. wrong \subseteq Nat
    BY <1>1
  <2>3. PICK m \in wrong : \A i \in wrong : m <= i
    BY <1>4, <2>2, Smallest
  <2>4. w \in wrong /\ \A i \in wrong : w <= i
    BY <2>1, <2>3 DEF Min
  <2> HIDE DEF N, M, w
  <2>5. w \in 1..N /\ LineAt(lines, w) # expected[w]
    BY <1>1, <2>4
  <2>6. ASSUME NEW i \in 1..(w - 1) PROVE i \in 1..N /\ LineAt(lines, i) = expected[i]
    <3>1. i \in 1..N /\ ~(w <= i)
      BY <1>1, <2>5
    <3>2. i \notin wrong
      BY <2>4, <3>1
    <3> QED BY <1>1, <3>1, <3>2
  <2>7. w - 1 <= M /\ \A i \in 1..(w - 1) : lines[i] = expected[i]
    <3>1. \A i \in 1..(w - 1) : i <= M /\ lines[i] = expected[i]
      BY <1>2, <2>6
    <3>2. w - 1 = 0 \/ w - 1 \in 1..(w - 1)
      BY <1>1, <2>5
    <3> QED BY <1>1, <3>1, <3>2
  <2> QED BY <2>5, <2>7 DEF N, M, w
<1> QED BY <1>3, <1>4

LEMMA Beginning ==
  ASSUME NEW T, NEW s \in Seq(T), NEW l \in 0..Len(s)
  PROVE  /\ SubSeq(s, 1, l) \in Seq(T) /\ Len(SubSeq(s, 1, l)) = l
         /\ \A i \in 1..l : SubSeq(s, 1, l)[i] = s[i]
<1>1. Len(s) \in Nat /\ l \in Int /\ l \in Nat
  BY LenProperties
<1>2. \A i \in 1..l : s[i] \in T
  BY <1>1, ElementOfSeq
<1> QED BY <1>1, <1>2, SubSeqProperties

\* How long the longest common prefix is of two sequences that differ after n
\* elements.
LEMMA CommonLength ==
  ASSUME NEW T, NEW s \in Seq(T), NEW t \in Seq(T), NEW n \in Nat,
         n <= Len(s), n <= Len(t), \A i \in 1..n : s[i] = t[i],
         n = Len(s) \/ n = Len(t) \/ s[n + 1] # t[n + 1]
  PROVE  Len(LongestCommonPrefix({s, t})) = n
<1>1. Len(s) \in Nat /\ Len(t) \in Nat
  BY LenProperties
<1> DEFINE p == SubSeq(s, 1, n)
<1>2. /\ p \in Seq(T) /\ Len(p) = n /\ \A i \in 1..n : p[i] = s[i]
      /\ SubSeq(t, 1, n) \in Seq(T) /\ Len(SubSeq(t, 1, n)) = n
      /\ \A i \in 1..n : SubSeq(t, 1, n)[i] = t[i]
  BY <1>1, Beginning
<1>3. p \in CommonPrefixes({s, t})
  <2>1. p \in Prefixes(s)
    BY <1>1 DEF Prefixes
  <2>2. SubSeq(p, 1, n) = p
    BY <1>2, SubSeqFull
  <2>3. p = SubSeq(t, 1, n)
    BY <1>2, SeqEqual
  <2>4. IsPrefix(p, s) /\ IsPrefix(p, t)
    BY <1>2, <2>2, <2>3 DEF IsPrefix
  <2> HIDE DEF p
  <2> QED BY <2>1, <2>4 DEF CommonPrefixes
<1>4. ASSUME NEW q \in CommonPrefixes({s, t}) PROVE Len(q) \in Nat /\ Len(q) <= n
  <2>1. q \in Prefixes(s) \union Prefixes(t) /\ IsPrefix(q, s) /\ IsPrefix(q, t)
    BY DEF CommonPrefixes
  <2>2. PICK l \in Nat : \/ q = SubSeq(s, 1, l) /\ l \in 0..Len(s)
                         \/ q = SubSeq(t, 1, l) /\ l \in 0..Len(t)
    BY <1>1, <2>1 DEF Prefixes
  <2>3. q \in Seq(T) /\ Len(q) \in Nat
    <3>1. q \in Seq(T)
      BY <2>2, Beginning
    <3> QED BY <3>1, LenProperties
  <2>4. Len(q) <= Len(s) /\ Len(q) <= Len(t)
    BY <2>1 DEF IsPrefix
  <2>5. SubSeq(s, 1, Len(q)) = SubSeq(t, 1, Len(q))
    BY <2>1 DEF IsPrefix
  <2>6. /\ \A i \in 1..Len(q) : SubSeq(s, 1, Len(q))[i] = s[i]
        /\ \A i \in 1..Len(q) : SubSeq(t, 1, Len(q))[i] = t[i]
    <3>1. Len(q) \in 0..Len(s) /\ Len(q) \in 0..Len(t)
      BY <1>1, <2>3, <2>4
    <3> QED BY <3>1, Beginning
  <2>7. ASSUME ~(Len(q) <= n) PROVE FALSE
    <3>1. n + 1 \in 1..Len(q)
      BY <2>3, <2>7
    <3>2. s[n + 1] = t[n + 1]
      BY <2>5, <2>6, <3>1
    <3>3. n # Len(s) /\ n # Len(t)
      BY <1>1, <2>3, <2>4, <2>7
    <3> QED BY <3>2, <3>3
  <2> QED BY <2>3, <2>7
<1> DEFINE longest == LongestCommonPrefix({s, t})
<1>5. longest \in CommonPrefixes({s, t}) /\ Len(p) <= Len(longest)
  <2> DEFINE C == CommonPrefixes({s, t})
  <2>1. \A q \in C : Len(q) <= Len(p)
    BY <1>2, <1>4
  <2>2. longest = CHOOSE q \in C : \A r \in C : Len(r) <= Len(q)
    BY DEF LongestCommonPrefix
  <2>3. p \in C
    BY <1>3
  <2> HIDE DEF C, p, longest
  <2>4. longest \in C /\ \A r \in C : Len(r) <= Len(longest)
    BY <2>1, <2>2, <2>3
  <2> QED BY <2>3, <2>4 DEF C
<1> HIDE DEF p, longest
<1>6. Len(longest) \in Nat /\ Len(longest) <= n /\ n <= Len(longest)
  BY <1>2, <1>4, <1>5
<1> QED BY <1>6 DEF longest

(***************************************************************************)
(* Test cases that expect one line                                         *)
(***************************************************************************)
LEMMA NonblankOfOne ==
  ASSUME NEW b
  PROVE  Nonblank(<<b>>) = IF b = Blank THEN <<>> ELSE <<b>>
<1> DEFINE s == <<b>>
<1>1. s \in Seq({b}) /\ Len(s) = 1 /\ s[1] = b /\ Append(<<>>, b) = s
  OBVIOUS
<1> HIDE DEF s
<1>2. PICK f : /\ f[0] = <<>>
               /\ \A n \in 1..Len(s) : f[n] = IF s[n] = Blank THEN f[n - 1] ELSE Append(f[n - 1], s[n])
               /\ Nonblank(s) = f[Len(s)]
  BY <1>1, NonblankRuns
<1>3. f[1] = IF s[1] = Blank THEN f[0] ELSE Append(f[0], s[1])
  <2>1. 1 \in 1..Len(s) /\ 1 - 1 = 0
    BY <1>1
  <2> QED BY <1>2, <2>1
<1>4. Nonblank(s) = f[1]
  BY <1>1, <1>2
<1> QED BY <1>1, <1>2, <1>3, <1>4 DEF s

\* The two ways to normalise an expected output agree on a single line.
LEMMA SingleLine ==
  ASSUME NEW T, NEW lines \in Seq(T), Len(Nonblank(lines)) = 1
  PROVE  \E x \in T \ {Blank} : Nonblank(lines) = <<x>> /\ Trim(lines) = <<x>>
<1>1. PICK j \in 1..Len(lines) :
        /\ Nonblank(lines) = <<lines[j]>>
        /\ \A i \in 1..Len(lines) : lines[i] # Blank <=> i = j
  BY OneLineKept
<1>2. Len(lines) \in Nat /\ DOMAIN lines = 1..Len(lines) /\ lines[j] \in T \ {Blank}
  BY <1>1, LenProperties, ElementOfSeq
<1>3. {i \in DOMAIN lines : lines[i] # Blank} = {j}
  BY <1>1, <1>2
<1>4. Min({j}) = j /\ Max({j}) = j
  BY <1>2 DEF Min, Max
<1>5. Trim(lines) = SubSeq(lines, j, j)
  BY <1>3, <1>4 DEF Trim
<1>6. SubSeq(lines, j, j) = <<lines[j]>>
  <2> DEFINE u == SubSeq(lines, j, j)
             t == <<lines[j]>>
  <2>1. j \in Int /\ \A i \in j..j : lines[i] \in T
    BY <1>2
  <2>2. u \in Seq(T) /\ Len(u) = 1 /\ u[1] = lines[j]
    BY <2>1, SubSeqProperties
  <2>3. t \in Seq(T) /\ Len(t) = 1 /\ t[1] = lines[j]
    BY <1>2
  <2> HIDE DEF u, t
  <2>4. \A i \in 1..Len(u) : u[i] = t[i]
    BY <2>2, <2>3
  <2>5. u = t
    BY <2>2, <2>3, <2>4, SeqEqual
  <2> QED BY <2>5 DEF u, t
<1> QED BY <1>1, <1>2, <1>5, <1>6

\* If every test case expects one line, the k-th line is that of the k-th.
LEMMA SingleLineCases ==
  ASSUME NEW cases \in Cases, \A k \in 1..Len(cases) : LineCount(cases[k]) = 1,
         NEW k \in 1..Len(cases)
  PROVE  /\ k \in 1..Len(Expected(cases))
         /\ Expected(cases)[k] # Blank
         /\ Trim(cases[k].output) = <<Expected(cases)[k]>>
<1>1. Len(cases) \in Nat
  BY LenProperties DEF Cases
<1>2. Cursor(cases, k) = k /\ Cursor(cases, k - 1) = k - 1
  <2> DEFINE N == Len(cases)
             Good == {m \in Nat : m <= N => Cursor(cases, m) = m}
  <2>1. 0 \in Good
    BY CursorMoves
  <2>2. ASSUME NEW m \in Nat, m \in Good PROVE m + 1 \in Good
    <3> SUFFICES ASSUME m + 1 <= N PROVE Cursor(cases, m + 1) = m + 1
      OBVIOUS
    <3>1. PICK n \in 1..N : n = m + 1
      BY <1>1
    <3>2. n - 1 = m /\ Cursor(cases, m) = m
      BY <1>1, <2>2, <3>1
    <3>3. Cursor(cases, n) = Cursor(cases, n - 1) + LineCount(cases[n]) /\ LineCount(cases[n]) = 1
      BY CursorMoves
    <3>4. Cursor(cases, n) = n
      BY <3>1, <3>2, <3>3
    <3> QED BY <3>1, <3>4
  <2> HIDE DEF Good
  <2>3. k \in Good /\ k - 1 \in Good
    <3>1. k \in Nat /\ k - 1 \in Nat
      BY <1>1
    <3> QED BY <2>1, <2>2, <3>1, Induction
  <2> QED BY <1>1, <2>3 DEF Good
<1>3. /\ k <= Len(Expected(cases))
      /\ Expected(cases)[k] = Nonblank(cases[k].output)[1]
  <2>1. k \in 1..Cursor(cases, k) /\ k > Cursor(cases, k - 1) /\ k - Cursor(cases, k - 1) = 1
    BY <1>1, <1>2
  <2>2. /\ Cursor(cases, k) <= Len(Expected(cases))
        /\ Expected(cases)[k] = Nonblank(cases[k].output)[k - Cursor(cases, k - 1)]
    BY <2>1, ExpectedLines
  <2> QED BY <1>2, <2>1, <2>2
<1>4. PICK x \in Lines \ {Blank} : Nonblank(cases[k].output) = <<x>> /\ Trim(cases[k].output) = <<x>>
  <2>1. cases[k] \in [id : Nat, output : Seq(Lines)]
    BY ElementOfSeq DEF Cases
  <2>2. cases[k].output \in Seq(Lines) /\ Len(Nonblank(cases[k].output)) = 1
    BY <2>1 DEF LineCount
  <2> QED BY <2>2, SingleLine
<1>5. Len(Expected(cases)) \in Nat
  BY ExpectedLines, LenProperties
<1> QED BY <1>1, <1>3, <1>4, <1>5
==============================================================================
