----------------------------- MODULE FoldProofs -----------------------------
(***************************************************************************)
(* Folds from the left over a sequence, for any operator: what is true of  *)
(* every FoldLeft of the model.  FoldLeft recurses over sets of indices    *)
(* and takes the greatest one off each time; Fold is the same recursion.   *)
(***************************************************************************)
EXTENDS SequenceTheorems, NaturalsInduction, WellFoundedInduction, TLAPS

CONSTANTS
  Op(_, _),   (* what the fold applies                                     *)
  Rel(_, _)   (* a relation between the base and every intermediate result *)

\* Every nonempty set of natural numbers has a least element.
LEMMA LeastNatural ==
  ASSUME NEW S, S \subseteq Nat, S # {}
  PROVE  \E x \in S : \A y \in S : x <= y
<1>1. \E x \in S : \A y \in S : ~ (<<y, x>> \in OpToRel(<, Nat))
  BY NatLessThanWellFounded, WFMin
<1>2. PICK x \in S : \A y \in S : ~ (<<y, x>> \in OpToRel(<, Nat))
  BY <1>1
<1>3. \A y \in S : ~ (y < x)
  BY <1>2 DEF OpToRel
<1> QED
  BY <1>3

\* Every nonempty set of natural numbers below a bound has a greatest element.
LEMMA GreatestNatural ==
  ASSUME NEW n \in Nat, NEW S, S \subseteq 0..n, S # {}
  PROVE  \E x \in S : \A y \in S : y <= x
<1> DEFINE T == {n - x : x \in S}
<1>1. \A x \in S : x \in Nat /\ n - x \in Nat
  BY DEF T
<1>2. T \subseteq Nat
  BY <1>1
<1>3. T # {}
  <2>1. PICK x \in S : TRUE
    OBVIOUS
  <2>2. n - x \in T
    BY <2>1
  <2> QED
    BY <2>2
<1>4. PICK t \in T : \A u \in T : t <= u
  BY <1>2, <1>3, LeastNatural
<1>5. PICK x \in S : t = n - x
  BY <1>4
<1>6. \A y \in S : t <= n - y
  BY <1>4
<1> HIDE DEF T
<1>7. \A y \in S : y <= x
  BY <1>1, <1>5, <1>6
<1> QED
  BY <1>7

Greatest(s) == CHOOSE x \in s : \A y \in s : x >= y

Recursion(base, seq, iter) ==
  iter = [s \in SUBSET DOMAIN seq |->
            IF s = {} THEN base ELSE Op(iter[s \ {Greatest(s)}], seq[Greatest(s)])]

Fold(base, seq) == (CHOOSE iter : Recursion(base, seq, iter))[DOMAIN seq]

LEMMA GreatestOf ==
  ASSUME NEW n \in Nat, NEW s \in SUBSET (1..n), s # {}
  PROVE  Greatest(s) \in s /\ \A x \in s : x <= Greatest(s)
<1>1. \A x \in s : x \in Nat
  OBVIOUS
<1>2. \E x \in s : \A y \in s : x >= y
  <2>1. s \subseteq 0..n
    OBVIOUS
  <2>2. PICK x \in s : \A y \in s : y <= x
    BY <2>1, GreatestNatural
  <2> QED
    BY <1>1, <2>2
<1> QED
  BY <1>1, <1>2 DEF Greatest

LEMMA RecursionExists ==
  ASSUME NEW S, NEW base, NEW seq \in Seq(S)
  PROVE  \E iter : Recursion(base, seq, iter)
<1> DEFINE Good(a) == \E iter : Recursion(base, a, iter)
           bad == {n \in Nat : \E a \in Seq(S) : Len(a) = n /\ ~Good(a)}
<1>1. SUFFICES ASSUME bad # {} PROVE FALSE
  BY LenProperties
<1>2. PICK n \in bad : \A m \in bad : n <= m
  BY <1>1, LeastNatural
<1>3. PICK a \in Seq(S) : Len(a) = n /\ ~Good(a)
  OBVIOUS
<1>4. CASE n = 0
  <2>1. DOMAIN a = {}
    BY <1>3, <1>4, LenProperties
  <2> DEFINE iter == [s \in SUBSET DOMAIN a |-> base]
  <2>2. Recursion(base, a, iter)
    BY <2>1 DEF Recursion
  <2> HIDE DEF iter
  <2> QED
    BY <1>3, <2>2
<1>5. CASE n # 0
  <2>1. n \in Nat /\ n - 1 \in Nat /\ DOMAIN a = 1..n
    BY <1>3, <1>5, LenProperties
  <2> DEFINE front == [i \in 1..(n - 1) |-> a[i]]
  <2>2. front \in Seq(S) /\ Len(front) = n - 1 /\ DOMAIN front = 1..(n - 1)
    <3>1. \A i \in 1..(n - 1) : a[i] \in S
      BY <1>3, <2>1, ElementOfSeq
    <3> QED
      BY <2>1, <3>1
  <2>3. \A i \in 1..(n - 1) : front[i] = a[i]
    OBVIOUS
  <2> HIDE DEF front
  <2>4. Good(front)
    <3>1. n - 1 \notin bad
      <4> HIDE DEF bad
      <4> QED
        BY <1>2, <2>1
    <3> HIDE DEF Good
    <3> QED
      BY <2>1, <2>2, <3>1
  <2>5. PICK old : Recursion(base, front, old)
    BY <2>4
  <2> DEFINE iter == [s \in SUBSET DOMAIN a |->
                        IF n \in s THEN Op(old[s \ {n}], a[n]) ELSE old[s]]
  <2>6. \A s \in SUBSET DOMAIN a : s \ {n} \in SUBSET DOMAIN front
                                   /\ (n \notin s => s \in SUBSET DOMAIN front)
    BY <2>1, <2>2
  <2>8. \A s \in SUBSET DOMAIN a :
          iter[s] = IF s = {} THEN base ELSE Op(iter[s \ {Greatest(s)}], a[Greatest(s)])
    <3> TAKE s \in SUBSET DOMAIN a
    <3>1. CASE s = {}
      <4>1. old[{}] = base
        BY <2>5 DEF Recursion
      <4> QED
        BY <3>1, <4>1
    <3>2. CASE n \in s
      <4>1. Greatest(s) = n
        <5>1. s \in SUBSET (1..n) /\ s # {}
          BY <2>1, <3>2
        <5>2. Greatest(s) \in s /\ n <= Greatest(s)
          BY <2>1, <3>2, <5>1, GreatestOf
        <5>3. Greatest(s) \in 1..n
          BY <5>1, <5>2
        <5> QED
          BY <2>1, <5>2, <5>3
      <4>2. iter[s \ {n}] = old[s \ {n}]
        OBVIOUS
      <4> QED
        BY <3>2, <4>1, <4>2
    <3>3. CASE s # {} /\ n \notin s
      <4>1. s \in SUBSET DOMAIN front
        BY <2>6, <3>3
      <4>2. Greatest(s) \in s
        <5>1. s \in SUBSET (1..n) /\ s # {}
          BY <2>1, <3>3
        <5> QED
          BY <2>1, <5>1, GreatestOf
      <4>3. old[s] = Op(old[s \ {Greatest(s)}], front[Greatest(s)])
        BY <2>5, <3>3, <4>1 DEF Recursion
      <4>4. front[Greatest(s)] = a[Greatest(s)]
        BY <2>2, <2>3, <4>1, <4>2
      <4>5. iter[s] = old[s] /\ iter[s \ {Greatest(s)}] = old[s \ {Greatest(s)}]
        BY <3>3
      <4> QED
        BY <3>3, <4>3, <4>4, <4>5
    <3> QED
      BY <3>1, <3>2, <3>3
  <2>9. Recursion(base, a, iter)
    <3>1. iter = [s \in SUBSET DOMAIN a |-> iter[s]]
      OBVIOUS
    <3> HIDE DEF iter
    <3> QED
      BY <2>8, <3>1 DEF Recursion
  <2> HIDE DEF iter
  <2> QED
    BY <1>3, <2>9
<1> QED
  BY <1>4, <1>5

\* The recursion has one solution, and on a common prefix the same one.
LEMMA RecursionAgrees ==
  ASSUME NEW S, NEW base, NEW short \in Seq(S), NEW long \in Seq(S), Len(short) <= Len(long),
         \A i \in 1..Len(short) : short[i] = long[i],
         NEW f, Recursion(base, short, f), NEW g, Recursion(base, long, g)
  PROVE  f[DOMAIN short] = g[DOMAIN short]
<1> DEFINE bad == {n \in 0..Len(short) : \E s \in SUBSET (1..n) : f[s] # g[s]}
<1>0. /\ Len(short) \in Nat /\ Len(long) \in Nat
      /\ DOMAIN short = 1..Len(short) /\ DOMAIN long = 1..Len(long)
  BY LenProperties
<1>1. SUFFICES ASSUME bad # {} PROVE FALSE
  <2>1. SUFFICES ASSUME f[DOMAIN short] # g[DOMAIN short] PROVE bad # {}
    OBVIOUS
  <2>2. Len(short) \in 0..Len(short) /\ DOMAIN short \in SUBSET (1..Len(short))
    BY <1>0
  <2> QED
    BY <2>1, <2>2
<1>2. PICK n \in bad : \A m \in bad : n <= m
  <2>1. bad \subseteq Nat
    BY <1>0
  <2> HIDE DEF bad
  <2> QED
    BY <1>1, <2>1, LeastNatural
<1>3. PICK s \in SUBSET (1..n) : f[s] # g[s]
  OBVIOUS
<1>4. s \in SUBSET DOMAIN short /\ s \in SUBSET DOMAIN long /\ n \in Nat
  BY <1>0, <1>3
<1>5. s # {}
  BY <1>3, <1>4 DEF Recursion
<1>6. /\ f[s] = Op(f[s \ {Greatest(s)}], short[Greatest(s)])
      /\ g[s] = Op(g[s \ {Greatest(s)}], long[Greatest(s)])
  BY <1>4, <1>5 DEF Recursion
<1>7. Greatest(s) \in s /\ (\A x \in s : x <= Greatest(s)) /\ Greatest(s) \in 1..n
  BY <1>3, <1>4, <1>5, GreatestOf
<1>8. short[Greatest(s)] = long[Greatest(s)]
  BY <1>0, <1>4, <1>7
<1>9. s \ {Greatest(s)} \in SUBSET (1..(Greatest(s) - 1))
  <2>1. \A x \in s \ {Greatest(s)} : x \in 1..(Greatest(s) - 1)
    <3> TAKE x \in s \ {Greatest(s)}
    <3>1. x \in 1..n /\ x <= Greatest(s) /\ x # Greatest(s) /\ Greatest(s) \in 1..n
      BY <1>3, <1>7
    <3> QED
      BY <1>4, <3>1
  <2> QED
    BY <2>1
<1>10. Greatest(s) - 1 \in 0..Len(short) /\ Greatest(s) - 1 < n
  BY <1>0, <1>7
<1>11. Greatest(s) - 1 \notin bad
  BY <1>2, <1>10
<1>12. f[s \ {Greatest(s)}] = g[s \ {Greatest(s)}]
  BY <1>9, <1>10, <1>11
<1> QED
  BY <1>3, <1>6, <1>8, <1>12

\* The fold of the empty sequence is the base.
LEMMA FoldEmpty ==
  ASSUME NEW base
  PROVE  Fold(base, <<>>) = base
<1> DEFINE chosen == CHOOSE iter : Recursion(base, <<>>, iter)
<1>1. <<>> \in Seq(Nat) /\ DOMAIN <<>> = {}
  OBVIOUS
<1>2. Recursion(base, <<>>, chosen)
  BY <1>1, RecursionExists
<1> HIDE DEF chosen
<1>3. chosen[{}] = base
  BY <1>1, <1>2 DEF Recursion
<1> QED
  BY <1>1, <1>3 DEF chosen, Fold

\* One more element is one more application.
LEMMA FoldAppend ==
  ASSUME NEW S, NEW base, NEW seq \in Seq(S), NEW x \in S
  PROVE  Fold(base, Append(seq, x)) = Op(Fold(base, seq), x)
<1> DEFINE longer == Append(seq, x)
           n == Len(seq)
           f == CHOOSE iter : Recursion(base, seq, iter)
           g == CHOOSE iter : Recursion(base, longer, iter)
<1>1. /\ n \in Nat /\ DOMAIN seq = 1..n
      /\ longer \in Seq(S) /\ Len(longer) = n + 1 /\ DOMAIN longer = 1..(n + 1)
      /\ longer[n + 1] = x /\ \A i \in 1..n : longer[i] = seq[i]
  BY AppendProperties, LenProperties
<1> HIDE DEF longer, n
<1>2. Recursion(base, seq, f)
  BY RecursionExists
<1>3. Recursion(base, longer, g)
  BY <1>1, RecursionExists
<1>4. Fold(base, seq) = f[1..n] /\ Fold(base, longer) = g[1..(n + 1)]
  BY <1>1 DEF Fold
<1> HIDE DEF f, g
<1>5. f[1..n] = g[1..n]
  <2>1. f[DOMAIN seq] = g[DOMAIN seq]
    BY <1>1, <1>2, <1>3, RecursionAgrees DEF n
  <2> QED
    BY <1>1, <2>1
<1>7. Greatest(1..(n + 1)) = n + 1
  <2>1. n + 1 \in Nat /\ 1..(n + 1) # {} /\ n + 1 \in 1..(n + 1)
    BY <1>1
  <2>2. Greatest(1..(n + 1)) \in 1..(n + 1) /\ n + 1 <= Greatest(1..(n + 1))
    BY <2>1, GreatestOf
  <2> QED
    BY <1>1, <2>2
<1>8. (1..(n + 1)) \ {n + 1} = 1..n /\ 1..(n + 1) # {}
  <2>1. \A y : y \in 1..(n + 1) /\ y # n + 1 <=> y \in 1..n
    BY <1>1
  <2>2. 1 \in 1..(n + 1)
    BY <1>1
  <2> QED
    BY <2>1, <2>2
<1>9. g[1..(n + 1)] = Op(g[(1..(n + 1)) \ {Greatest(1..(n + 1))}],
                         longer[Greatest(1..(n + 1))])
  BY <1>1, <1>3, <1>8 DEF Recursion
<1> QED
  BY <1>1, <1>4, <1>5, <1>7, <1>8, <1>9 DEF longer

\* What holds between the base and itself, and is kept by each application, holds
\* between the base and the fold.
LEMMA FoldKeeps ==
  ASSUME NEW S, NEW base, NEW seq \in Seq(S), Rel(base, base),
         \A acc : \A i \in DOMAIN seq : Rel(base, acc) => Rel(base, Op(acc, seq[i]))
  PROVE  Rel(base, Fold(base, seq))
<1> DEFINE front(n) == SubSeq(seq, 1, n)
           bad == {n \in 0..Len(seq) : ~Rel(base, Fold(base, front(n)))}
<1>0. Len(seq) \in Nat /\ DOMAIN seq = 1..Len(seq)
  BY LenProperties
<1>1. SUFFICES ASSUME bad # {} PROVE FALSE
  <2>1. front(Len(seq)) = seq /\ Len(seq) \in 0..Len(seq)
    BY <1>0
  <2> QED
    BY <2>1
<1>2. PICK n \in bad : \A m \in bad : n <= m
  <2>1. bad \subseteq Nat
    BY <1>0
  <2> HIDE DEF bad
  <2> QED
    BY <1>1, <2>1, LeastNatural
<1>3. n \in 0..Len(seq) /\ ~Rel(base, Fold(base, front(n)))
  OBVIOUS
<1>4. CASE n = 0
  <2>1. front(n) = <<>>
    BY <1>0, <1>4
  <2> QED
    BY <1>3, <2>1, FoldEmpty
<1>5. CASE n # 0
  <2>1. n - 1 \in 0..Len(seq) /\ n - 1 \notin bad /\ n \in 1..Len(seq)
    <3>1. n - 1 \in 0..Len(seq) /\ n - 1 < n /\ n \in 1..Len(seq)
      BY <1>0, <1>3, <1>5
    <3> QED
      BY <1>2, <3>1
  <2>2. Rel(base, Fold(base, front(n - 1)))
    BY <2>1
  <2>3. front(n) = Append(front(n - 1), seq[n])
    BY <1>0, <2>1
  <2>4. front(n - 1) \in Seq(S) /\ seq[n] \in S
    BY <1>0, <2>1, ElementOfSeq
  <2> HIDE DEF front, bad
  <2>5. Fold(base, front(n)) = Op(Fold(base, front(n - 1)), seq[n])
    BY <2>3, <2>4, FoldAppend
  <2> QED
    BY <1>0, <1>3, <2>1, <2>2, <2>5
<1> QED
  BY <1>4, <1>5

Partials(base, seq) == {Fold(base, SubSeq(seq, 1, n)) : n \in 0..Len(seq)}

\* What one application brings about for its element, and no application undoes,
\* the fold brings about for every element.
LEMMA FoldReaches ==
  ASSUME NEW S, NEW base, NEW seq \in Seq(S),
         \A acc \in Partials(base, seq) : \A i \in DOMAIN seq : Rel(seq[i], Op(acc, seq[i])),
         \A acc \in Partials(base, seq) : \A i, j \in DOMAIN seq :
           Rel(seq[i], acc) => Rel(seq[i], Op(acc, seq[j]))
  PROVE  \A i \in DOMAIN seq : Rel(seq[i], Fold(base, seq))
<1> DEFINE front(n) == SubSeq(seq, 1, n)
           bad == {n \in 0..Len(seq) : \E i \in 1..n : ~Rel(seq[i], Fold(base, front(n)))}
<1>0. Len(seq) \in Nat /\ DOMAIN seq = 1..Len(seq)
  BY LenProperties
<1>1. SUFFICES ASSUME bad # {} PROVE FALSE
  <2>1. front(Len(seq)) = seq /\ Len(seq) \in 0..Len(seq)
    BY <1>0
  <2> QED
    BY <1>0, <2>1
<1>2. PICK n \in bad : \A m \in bad : n <= m
  <2>1. bad \subseteq Nat
    BY <1>0
  <2> HIDE DEF bad
  <2> QED
    BY <1>1, <2>1, LeastNatural
<1>3. n \in 0..Len(seq) /\ \E i \in 1..n : ~Rel(seq[i], Fold(base, front(n)))
  OBVIOUS
<1>4. PICK i \in 1..n : ~Rel(seq[i], Fold(base, front(n)))
  BY <1>3
<1>5. /\ n - 1 \in 0..Len(seq) /\ n - 1 \notin bad /\ n \in 1..Len(seq)
      /\ i \in 1..Len(seq)
  <2>1. n - 1 \in 0..Len(seq) /\ n - 1 < n /\ n \in 1..Len(seq) /\ i \in 1..Len(seq)
    BY <1>0, <1>3, <1>4
  <2> QED
    BY <1>2, <2>1
<1>6. \A j \in 1..(n - 1) : Rel(seq[j], Fold(base, front(n - 1)))
  BY <1>5
<1>7. front(n) = Append(front(n - 1), seq[n])
  BY <1>0, <1>5
<1>8. front(n - 1) \in Seq(S) /\ seq[n] \in S
  BY <1>0, <1>5, ElementOfSeq
<1>12. Fold(base, front(n - 1)) \in Partials(base, seq)
  BY <1>5 DEF Partials
<1> HIDE DEF front, bad
<1>9. Fold(base, front(n)) = Op(Fold(base, front(n - 1)), seq[n])
  BY <1>7, <1>8, FoldAppend
<1>10. CASE i = n
  BY <1>0, <1>4, <1>5, <1>9, <1>10, <1>12
<1>11. CASE i # n
  <2>1. i \in 1..(n - 1)
    BY <1>0, <1>4, <1>5, <1>11
  <2> QED
    BY <1>0, <1>4, <1>5, <1>6, <1>9, <1>12, <2>1
<1> QED
  BY <1>10, <1>11

\* acc[n] is what is reached after n elements.
Steps(base, seq, acc) ==
  acc[0] = base /\ \A n \in 1..Len(seq) : acc[n] = Op(acc[n - 1], seq[n])

\* The fold is what is reached after all.
LEMMA FoldIs ==
  ASSUME NEW S, NEW base, NEW seq \in Seq(S), NEW acc, Steps(base, seq, acc)
  PROVE  Fold(base, seq) = acc[Len(seq)]
<1> DEFINE front(n) == SubSeq(seq, 1, n)
           bad == {n \in 0..Len(seq) : Fold(base, front(n)) # acc[n]}
<1>0. Len(seq) \in Nat /\ DOMAIN seq = 1..Len(seq)
  BY LenProperties
<1>1. SUFFICES ASSUME bad # {} PROVE FALSE
  <2>1. front(Len(seq)) = seq /\ Len(seq) \in 0..Len(seq)
    BY <1>0
  <2> QED
    BY <1>0, <2>1
<1>2. PICK n \in bad : \A m \in bad : n <= m
  <2>1. bad \subseteq Nat
    BY <1>0
  <2> HIDE DEF bad
  <2> QED
    BY <1>1, <2>1, LeastNatural
<1>3. n \in 0..Len(seq) /\ Fold(base, front(n)) # acc[n]
  OBVIOUS
<1>4. n # 0
  <2>1. front(0) = <<>>
    BY <1>0
  <2> HIDE DEF front
  <2> QED
    BY <1>3, <2>1, FoldEmpty DEF Steps
<1>5. n - 1 \in 0..Len(seq) /\ n - 1 \notin bad /\ n \in 1..Len(seq)
  <2>1. n - 1 \in 0..Len(seq) /\ n - 1 < n /\ n \in 1..Len(seq)
    BY <1>0, <1>3, <1>4
  <2> QED
    BY <1>2, <2>1
<1>6. Fold(base, front(n - 1)) = acc[n - 1]
  BY <1>5
<1>7. front(n) = Append(front(n - 1), seq[n])
  BY <1>0, <1>5
<1>8. front(n - 1) \in Seq(S) /\ seq[n] \in S
  BY <1>0, <1>5, ElementOfSeq
<1> HIDE DEF front, bad
<1>9. Fold(base, front(n)) = Op(Fold(base, front(n - 1)), seq[n])
  BY <1>7, <1>8, FoldAppend
<1> QED
  BY <1>3, <1>5, <1>6, <1>9 DEF Steps

\* To fold two sequences one after the other is to fold them joined.
LEMMA FoldConcat ==
  ASSUME NEW S, NEW base, NEW first \in Seq(S), NEW second \in Seq(S)
  PROVE  Fold(base, first \o second) = Fold(Fold(base, first), second)
<1> DEFINE m == Len(first)
           n == Len(second)
           both == first \o second
           front(i) == SubSeq(first, 1, i)
           back(i) == SubSeq(second, 1, i)
           done == Fold(base, first)
           acc == [i \in 0..(m + n) |->
                     IF i <= m THEN Fold(base, front(i)) ELSE Fold(done, back(i - m))]
<1>1. /\ m \in Nat /\ n \in Nat /\ both \in Seq(S) /\ Len(both) = m + n
      /\ \A i \in 1..m : both[i] = first[i] /\ first[i] \in S
      /\ \A i \in 1..n : both[m + i] = second[i] /\ second[i] \in S
  <2>1. m \in Nat /\ n \in Nat /\ DOMAIN first = 1..m /\ DOMAIN second = 1..n
    BY LenProperties
  <2>2. \A i \in 1..m : first[i] \in S
    BY <2>1, ElementOfSeq
  <2>3. \A i \in 1..n : second[i] \in S
    BY <2>1, ElementOfSeq
  <2>4. both \in Seq(S) /\ Len(both) = m + n
    BY ConcatProperties
  <2>5. \A i \in 1..(m + n) : both[i] = IF i <= m THEN first[i] ELSE second[i - m]
    BY ConcatProperties
  <2> HIDE DEF both, m, n
  <2> QED
    BY <2>1, <2>2, <2>3, <2>4, <2>5
<1>2. front(0) = <<>> /\ front(m) = first
  BY <1>1
<1>3. back(0) = <<>> /\ back(n) = second
  BY <1>1
<1>4. \A i \in 1..m : front(i - 1) \in Seq(S) /\ front(i) = Append(front(i - 1), first[i])
  BY <1>1
<1>5. \A i \in 1..n : back(i - 1) \in Seq(S) /\ back(i) = Append(back(i - 1), second[i])
  BY <1>1
<1> HIDE DEF both, m, n, front, back
<1>6. acc[0] = base
  BY <1>1, <1>2, FoldEmpty
<1>7. \A i \in 0..n : acc[m + i] = Fold(done, back(i))
  <2> TAKE i \in 0..n
  <2>1. CASE i = 0
    BY <1>1, <1>2, <1>3, <2>1, FoldEmpty
  <2>2. CASE i # 0
    BY <1>1, <2>2
  <2> QED
    BY <2>1, <2>2
<1>8. \A i \in 0..m : acc[i] = Fold(base, front(i))
  BY <1>1
<1> HIDE DEF acc, done
<1>9. \A i \in 1..(m + n) : acc[i] = Op(acc[i - 1], both[i])
  <2> TAKE i \in 1..(m + n)
  <2>1. CASE i <= m
    <3>1. i \in 1..m /\ i \in 0..m /\ i - 1 \in 0..m
      BY <1>1, <2>1
    <3>2. Fold(base, front(i)) = Op(Fold(base, front(i - 1)), first[i])
      <4>1. front(i - 1) \in Seq(S) /\ first[i] \in S
        BY <1>1, <1>4, <3>1
      <4>2. front(i) = Append(front(i - 1), first[i])
        BY <1>4, <3>1
      <4> QED
        BY <4>1, <4>2, FoldAppend
    <3> QED
      BY <1>1, <1>8, <3>1, <3>2
  <2>2. CASE i > m
    <3>1. PICK j \in 1..n : i = m + j
      <4>1. i - m \in 1..n /\ i = m + (i - m)
        BY <1>1, <2>2
      <4> QED
        BY <4>1
    <3>2. j \in 0..n /\ j - 1 \in 0..n /\ i - 1 = m + (j - 1)
      BY <1>1, <3>1
    <3>3. Fold(done, back(j)) = Op(Fold(done, back(j - 1)), second[j])
      <4>1. back(j - 1) \in Seq(S) /\ second[j] \in S
        BY <1>1, <1>5, <3>1
      <4>2. back(j) = Append(back(j - 1), second[j])
        BY <1>5, <3>1
      <4> QED
        BY <4>1, <4>2, FoldAppend
    <3> QED
      BY <1>1, <1>7, <3>1, <3>2, <3>3
  <2> QED
    BY <1>1, <2>1, <2>2
<1>10. Fold(base, both) = acc[Len(both)]
  <2>1. both \in Seq(S) /\ Steps(base, both, acc)
    BY <1>1, <1>6, <1>9 DEF Steps
  <2> QED
    BY <2>1, FoldIs
<1>11. n \in 0..n
  BY <1>1
<1> QED
  BY <1>1, <1>3, <1>7, <1>10, <1>11 DEF both, done
==============================================================================
