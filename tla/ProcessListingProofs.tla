------------------------ MODULE ProcessListingProofs ------------------------
(***************************************************************************)
(* Proofs about ProcessListing: get_child_processes() as a whole, for any  *)
(* number of processes, whatever of them end while /proc is read.          *)
(*                                                                         *)
(* First the text: a number that the kernel writes is the number that      *)
(* strtol() reads, and a line of /proc/<pid>/stat is understood unless the *)
(* name has ") " inside (ReadsParents).  Then, where the text was          *)
(* understood, what is built from it: processes only ever move to init, so *)
(* that the set of those that were below the command at first stays closed *)
(* under what is read.                                                     *)
(* Last, the two steps in which ProcessTree tells all this are justified   *)
(* (ListingImplementsTree).                                                *)
(***************************************************************************)
EXTENDS ProcessListing, DescendantScanProofs

-----------------------------------------------------------------------------
(* Induction. *)

\* The induction theorems of the library take an operator, which the provers
\* cannot instantiate; a least counterexample serves the same purpose.
LEMMA LeastElement ==
  ASSUME NEW T \in SUBSET Nat, T # {}
  PROVE  \E n \in T : \A m \in T : n <= m
<1> DEFINE Segments == {0 .. n : n \in T}
<1>1. Segments \subseteq FiniteSubsetsOf(Nat) /\ Segments # {}
  <2>1. ASSUME NEW n \in T PROVE 0 .. n \in FiniteSubsetsOf(Nat)
    <3>1. 0 \in Int /\ n \in Int
      OBVIOUS
    <3>2. IsFiniteSet(0 .. n)
      BY <3>1, FS_Interval
    <3>3. 0 .. n \in SUBSET Nat
      OBVIOUS
    <3> QED
      BY <3>2, <3>3 DEF FiniteSubsetsOf
  <2> QED
    BY <2>1
<1>2. IsWellFoundedOn(StrictSubsetOrdering(Nat), FiniteSubsetsOf(Nat))
  BY FS_StrictSubsetOrderingWellFounded
<1>3. PICK least \in Segments : \A s \in Segments : <<s, least>> \notin StrictSubsetOrdering(Nat)
  <2> HIDE DEF Segments
  <2> QED
    BY <1>1, <1>2, WFMin
<1>4. PICK n \in T : least = 0 .. n
  OBVIOUS
<1>5. ASSUME NEW m \in T PROVE n <= m
  <2> SUFFICES ASSUME m < n PROVE FALSE
    OBVIOUS
  <2>1. 0 .. m \subseteq 0 .. n /\ 0 .. m # 0 .. n
    <3>1. n \in 0 .. n /\ n \notin 0 .. m
      OBVIOUS
    <3> QED
      BY <3>1
  <2>2. <<0 .. m, 0 .. n>> \in StrictSubsetOrdering(Nat)
    BY <2>1 DEF StrictSubsetOrdering
  <2> QED
    BY <1>3, <1>4, <2>2
<1> QED
  BY <1>5

\* A function on D whose value at x depends on its value at pred[x].
IsRecursive(f, S, D, base, pred, step) ==
  \A x \in S : f[x] = IF x \in D THEN base[x] ELSE step[x][f[pred[x]]]

\* There is such a function if whatever it depends on has a lower rank.
LEMMA RecursiveFunctionExists ==
  ASSUME NEW D, NEW R, NEW B \in SUBSET D, NEW rank \in [D -> Nat],
         NEW base \in [D -> R], NEW pred \in [D -> D], NEW step \in [D -> [R -> R]],
         \A x \in D \ B : rank[pred[x]] < rank[x]
  PROVE  \E f \in [D -> R] : IsRecursive(f, D, B, base, pred, step)
<1> DEFINE Below(n) == {x \in D : rank[x] < n}
           Approximations(n) == {f \in [D -> R] : IsRecursive(f, Below(n), B, base, pred, step)}
           Missing == {n \in Nat : Approximations(n) = {}}
<1>1. \A n \in Nat : Approximations(n) # {}
  <2> SUFFICES ASSUME Missing # {} PROVE FALSE
    OBVIOUS
  <2>1. PICK n \in Missing : \A m \in Missing : n <= m
    <3>1. Missing \in SUBSET Nat
      OBVIOUS
    <3> HIDE DEF Missing
    <3> QED
      BY <3>1, LeastElement
  <2>2. CASE n = 0
    <3>1. Below(0) = {}
      OBVIOUS
    <3>2. base \in Approximations(0)
      BY <3>1 DEF IsRecursive
    <3> QED
      BY <2>1, <2>2, <3>2
  <2>3. CASE n # 0
    <3>1. n - 1 \in Nat /\ n - 1 \notin Missing
      BY <2>1, <2>3
    <3>2. PICK f \in Approximations(n - 1) : TRUE
      BY <3>1
    <3> DEFINE g == [x \in D |-> IF x \in B THEN base[x] ELSE step[x][f[pred[x]]]]
    <3>3. g \in [D -> R]
      BY <3>2
    <3>4. \A x \in Below(n - 1) : g[x] = f[x]
      BY <3>2 DEF IsRecursive
    <3>5. \A x \in Below(n) \ B : pred[x] \in Below(n - 1)
      OBVIOUS
    <3>6. IsRecursive(g, Below(n), B, base, pred, step)
      BY <3>4, <3>5 DEF IsRecursive
    <3> QED
      BY <2>1, <3>3, <3>6
  <2> QED
    BY <2>2, <2>3
<1>2. ASSUME NEW n \in Nat, NEW m \in Nat, n <= m,
             NEW f \in Approximations(n), NEW g \in Approximations(m)
      PROVE  \A x \in Below(n) : f[x] = g[x]
  <2> DEFINE Different == {x \in Below(n) : f[x] # g[x]}
             Ranks == {rank[x] : x \in Different}
  <2> SUFFICES ASSUME Different # {} PROVE FALSE
    OBVIOUS
  <2>1. PICK r \in Ranks : \A q \in Ranks : r <= q
    <3>1. Ranks \in SUBSET Nat /\ Ranks # {}
      OBVIOUS
    <3> HIDE DEF Ranks
    <3> QED
      BY <3>1, LeastElement
  <2>2. PICK x \in Different : rank[x] = r
    OBVIOUS
  <2>3. x \in Below(n) /\ x \in Below(m)
    <3>1. x \in D /\ rank[x] < n
      OBVIOUS
    <3>2. rank[x] \in Nat
      BY <3>1
    <3>3. rank[x] < m
      BY <1>2, <3>1, <3>2
    <3> QED
      BY <3>1, <3>3
  <2>4. /\ f[x] = IF x \in B THEN base[x] ELSE step[x][f[pred[x]]]
        /\ g[x] = IF x \in B THEN base[x] ELSE step[x][g[pred[x]]]
    <3>1. /\ IsRecursive(f, Below(n), B, base, pred, step)
          /\ IsRecursive(g, Below(m), B, base, pred, step)
      OBVIOUS
    <3> HIDE DEF Below, Different
    <3> QED
      BY <2>3, <3>1 DEF IsRecursive
  <2>5. x \notin B /\ f[pred[x]] # g[pred[x]]
    BY <2>4
  <2>6. rank[pred[x]] < rank[x] /\ pred[x] \in Below(n)
    BY <2>5
  <2>7. rank[pred[x]] \in Ranks
    BY <2>5, <2>6
  <2>8. rank[x] \in Nat /\ rank[pred[x]] \in Nat
    BY <2>3
  <2> HIDE DEF Ranks, Different, Below
  <2> QED
    BY <2>1, <2>2, <2>6, <2>7, <2>8
<1> DEFINE up == [x \in D |-> CHOOSE f : f \in Approximations(rank[x] + 1)]
           F == [x \in D |-> up[x][x]]
<1>3. ASSUME NEW x \in D
      PROVE  up[x] \in Approximations(rank[x] + 1) /\ x \in Below(rank[x] + 1)
  <2>1. Approximations(rank[x] + 1) # {}
    <3>1. rank[x] + 1 \in Nat
      OBVIOUS
    <3> HIDE DEF Approximations
    <3> QED
      BY <1>1, <3>1
  <2>2. up[x] = CHOOSE f : f \in Approximations(rank[x] + 1)
    OBVIOUS
  <2>3. x \in Below(rank[x] + 1)
    OBVIOUS
  <2> HIDE DEF Approximations, up, Below
  <2> QED
    BY <2>1, <2>2, <2>3
<1>4. F \in [D -> R]
  <2>1. \A x \in D : up[x] \in [D -> R]
    BY <1>3
  <2> HIDE DEF up
  <2> QED
    BY <2>1
<1>5. ASSUME NEW x \in D PROVE F[x] = IF x \in B THEN base[x] ELSE step[x][F[pred[x]]]
  <2>1. up[x][x] = IF x \in B THEN base[x] ELSE step[x][up[x][pred[x]]]
    <3>1. IsRecursive(up[x], Below(rank[x] + 1), B, base, pred, step)
      BY <1>3
    <3> QED
      BY <1>3, <3>1 DEF IsRecursive
  <2>2. ASSUME x \notin B PROVE up[x][pred[x]] = F[pred[x]]
    <3>1. PICK y \in D : y = pred[x] /\ rank[y] < rank[x]
      BY <2>2
    <3>2. up[y] \in Approximations(rank[y] + 1) /\ y \in Below(rank[y] + 1)
      BY <1>3
    <3>3. up[x] \in Approximations(rank[x] + 1)
      BY <1>3
    <3>4. rank[y] + 1 \in Nat /\ rank[x] + 1 \in Nat /\ rank[y] + 1 <= rank[x] + 1
      BY <3>1
    <3>5. F[y] = up[y][y]
      OBVIOUS
    <3> HIDE DEF Below, Approximations, up, F
    <3> QED
      BY <1>2, <3>1, <3>2, <3>3, <3>4, <3>5
  <2>3. F[x] = up[x][x]
    OBVIOUS
  <2> HIDE DEF up, F
  <2> QED
    BY <2>1, <2>2, <2>3
<1>6. IsRecursive(F, D, B, base, pred, step)
  <2> HIDE DEF F
  <2> QED
    BY <1>5 DEF IsRecursive
<1> QED
  BY <1>4, <1>6

-----------------------------------------------------------------------------
(* Numbers in decimal. *)

LEMMA DigitsHaveValues ==
  /\ digits \in Seq(Digits) /\ Len(digits) = 10
  /\ \A k \in 0 .. 9 : digits[k + 1] \in Digits /\ ValueOf[digits[k + 1]] = k
  /\ ValueOf \in [Digits -> 0 .. 9]
<1>1. Len(digits) = 10 /\ DOMAIN digits = 1 .. 10 /\ digits \in Seq(Digits)
  BY DEF digits, Digits
<1>2. \A k, m \in 1 .. 10 : digits[k] = digits[m] => k = m
  BY DEF digits
<1>3. Digits = {digits[k] : k \in 1 .. 10}
  BY <1>1 DEF Digits
<1>4. ASSUME NEW k \in 1 .. 10 PROVE digits[k] \in Digits /\ ValueOf[digits[k]] = k - 1
  <2>1. digits[k] \in Digits
    BY <1>3
  <2>2. (CHOOSE m \in DOMAIN digits : digits[m] = digits[k]) = k
    BY <1>1, <1>2
  <2> QED
    BY <2>1, <2>2 DEF ValueOf
<1>5. \A d \in Digits : ValueOf[d] \in 0 .. 9
  BY <1>3, <1>4
<1>6. ASSUME NEW k \in 0 .. 9 PROVE digits[k + 1] \in Digits /\ ValueOf[digits[k + 1]] = k
  <2>1. k + 1 \in 1 .. 10
    OBVIOUS
  <2> QED
    BY <1>4, <2>1
<1>7. ValueOf \in [Digits -> 0 .. 9]
  BY <1>5 DEF ValueOf
<1> QED
  BY <1>1, <1>6, <1>7

LEMMA DivMod ==
  ASSUME NEW n \in Nat, n >= 10
  PROVE  \E q \in Nat, r \in 0 .. 9 : q = n \div 10 /\ r = n % 10 /\ q < n /\ n = 10 * q + r
<1>1. n \div 10 \in Nat
  OBVIOUS
<1>2. n % 10 \in 0 .. 9
  OBVIOUS
<1>3. n % 10 = n - 10 * (n \div 10)
  OBVIOUS
<1>4. PICK q \in Nat, r \in 0 .. 9 : q = n \div 10 /\ r = n % 10
  BY <1>1, <1>2
<1>5. n = 10 * q + r
  BY <1>3, <1>4
<1>6. q < n
  BY <1>5
<1> QED
  BY <1>4, <1>5, <1>6

DecimalBody(f) ==
  [n \in Nat |-> IF n < 10 THEN <<digits[n + 1]>>
                 ELSE Append(f[n \div 10], digits[(n % 10) + 1])]

LEMMA DecimalEquation ==
  \A n \in Nat : decimal[n] = IF n < 10 THEN <<digits[n + 1]>>
                              ELSE Append(decimal[n \div 10], digits[(n % 10) + 1])
<1> DEFINE B == 0 .. 9
           rank == [n \in Nat |-> n]
           base == [n \in Nat |-> IF n < 10 THEN <<digits[n + 1]>> ELSE <<>>]
           pred == [n \in Nat |-> n \div 10]
           step == [n \in Nat |-> [text \in Seq(Digits) |-> Append(text, digits[(n % 10) + 1])]]
<1>1. \A n \in Nat : digits[(n % 10) + 1] \in Digits
  <2>1. \A n \in Nat : n % 10 \in 0 .. 9
    OBVIOUS
  <2> QED
    BY <2>1, DigitsHaveValues
<1>2. B \in SUBSET Nat /\ rank \in [Nat -> Nat]
  OBVIOUS
<1>3. base \in [Nat -> Seq(Digits)]
  <2>1. ASSUME NEW n \in Nat, n < 10 PROVE <<digits[n + 1]>> \in Seq(Digits)
    BY <2>1, DigitsHaveValues
  <2> QED
    BY <2>1
<1>4. pred \in [Nat -> Nat] /\ \A n \in Nat \ B : rank[pred[n]] < rank[n]
  <2>1. ASSUME NEW k \in Nat PROVE k \div 10 \in Nat /\ (k >= 10 => k \div 10 < k)
    BY DivMod
  <2> QED
    BY <2>1
<1>5. step \in [Nat -> [Seq(Digits) -> Seq(Digits)]]
  BY <1>1
<1>6. PICK f \in [Nat -> Seq(Digits)] : IsRecursive(f, Nat, B, base, pred, step)
  <2> HIDE DEF B, rank, base, pred, step
  <2> QED
    BY <1>2, <1>3, <1>4, <1>5, RecursiveFunctionExists
<1>7. ASSUME NEW m \in Nat
      PROVE  f[m] = IF m < 10 THEN <<digits[m + 1]>>
                    ELSE Append(f[m \div 10], digits[(m % 10) + 1])
  <2>1. f[m] = IF m \in B THEN base[m] ELSE step[m][f[pred[m]]]
    BY <1>6 DEF IsRecursive
  <2>2. CASE m < 10
    <3>1. m \in B
      BY <2>2
    <3> QED
      BY <2>1, <2>2, <3>1
  <2>3. CASE ~(m < 10)
    <3>1. m \notin B /\ f[pred[m]] = f[m \div 10] /\ f[pred[m]] \in Seq(Digits)
      BY <2>3, <1>4
    <3> QED
      BY <2>1, <2>3, <3>1
  <2> QED
    BY <2>2, <2>3
<1>8. f = DecimalBody(f)
  BY <1>6, <1>7 DEF DecimalBody
<1>9. decimal = CHOOSE g : g = DecimalBody(g)
  BY DEF decimal, DecimalBody
<1>10. decimal = DecimalBody(decimal)
  BY <1>8, <1>9
<1> QED
  BY <1>10 DEF DecimalBody

LEMMA DecimalType == \A n \in Nat : decimal[n] \in Seq(Digits)
<1> DEFINE Untyped == {n \in Nat : decimal[n] \notin Seq(Digits)}
<1> SUFFICES ASSUME Untyped # {} PROVE FALSE
  OBVIOUS
<1>1. PICK n \in Untyped : \A m \in Untyped : n <= m
  <2>1. Untyped \in SUBSET Nat
    OBVIOUS
  <2> HIDE DEF Untyped
  <2> QED
    BY <2>1, LeastElement
<1>2. n \in Nat /\ decimal[n] \notin Seq(Digits)
  OBVIOUS
<1>3. CASE n < 10
  <2>1. decimal[n] = <<digits[n + 1]>>
    BY <1>2, <1>3, DecimalEquation
  <2>2. PICK d \in Digits : d = digits[n + 1]
    BY <1>2, <1>3, DigitsHaveValues
  <2> QED
    BY <1>2, <2>1, <2>2
<1>4. CASE n >= 10
  <2>1. n \div 10 \in Nat /\ n \div 10 < n /\ n % 10 \in 0 .. 9
    BY <1>2, <1>4, DivMod, Zenon
  <2>2. decimal[n] = Append(decimal[n \div 10], digits[(n % 10) + 1])
    <3>1. decimal[n] = IF n < 10 THEN <<digits[n + 1]>>
                       ELSE Append(decimal[n \div 10], digits[(n % 10) + 1])
      BY <1>2, DecimalEquation
    <3>2. ~(n < 10)
      BY <1>2, <1>4
    <3> QED
      BY <3>1, <3>2
  <2>3. PICK d \in Digits : d = digits[(n % 10) + 1]
    BY <2>1, DigitsHaveValues
  <2>4. decimal[n \div 10] \in Seq(Digits)
    <3>1. n \div 10 \notin Untyped
      BY <1>1, <1>2, <2>1
    <3> QED
      BY <2>1, <3>1
  <2> QED
    BY <1>2, <2>2, <2>3, <2>4
<1> QED
  BY <1>2, <1>3, <1>4

LEMMA DecimalIsNotEmpty == \A n \in Nat : decimal[n] # <<>>
<1> SUFFICES ASSUME NEW n \in Nat PROVE decimal[n] # <<>>
  OBVIOUS
<1>1. decimal[n] = IF n < 10 THEN <<digits[n + 1]>>
                   ELSE Append(decimal[n \div 10], digits[(n % 10) + 1])
  BY DecimalEquation
<1>2. CASE n < 10
  BY <1>1, <1>2
<1>3. CASE ~(n < 10)
  <2>1. n \div 10 \in Nat
    BY DivMod, <1>3
  <2>2. PICK t \in Seq(Digits) : t = decimal[n \div 10]
    BY <2>1, DecimalType
  <2>3. PICK r \in 0 .. 9 : r = n % 10
    BY DivMod, <1>3
  <2>4. PICK d \in Digits : d = digits[r + 1]
    BY DigitsHaveValues
  <2>5. decimal[n] = Append(t, d)
    BY <1>1, <1>3, <2>2, <2>3, <2>4
  <2>6. Len(Append(t, d)) # 0
    OBVIOUS
  <2> QED
    BY <2>5, <2>6
<1> QED
  BY <1>2, <1>3

StrtolBody(f) ==
  [text \in Seq(Digits) |->
     IF text = <<>> THEN 0
     ELSE LET k == Len(text) IN 10 * f[SubSeq(text, 1, k - 1)] + ValueOf[text[k]]]

LEMMA StrtolIsDefined ==
  ASSUME NEW text \in Seq(Digits)
  PROVE  strtol[text] = IF text = <<>> THEN 0
                        ELSE 10 * strtol[SubSeq(text, 1, Len(text) - 1)] + ValueOf[text[Len(text)]]
<1> DEFINE T == Seq(Digits)
           B == {<<>>}
           rank == [t \in T |-> Len(t)]
           base == [t \in T |-> 0]
           pred == [t \in T |-> IF t = <<>> THEN t ELSE SubSeq(t, 1, Len(t) - 1)]
           step == [t \in T |-> [n \in Nat |->
                      10 * n + IF t = <<>> THEN 0 ELSE ValueOf[t[Len(t)]]]]
<1>1. ASSUME NEW t \in T, t # <<>>
      PROVE  /\ SubSeq(t, 1, Len(t) - 1) \in T /\ Len(SubSeq(t, 1, Len(t) - 1)) < Len(t)
             /\ ValueOf[t[Len(t)]] \in Nat
  <2>1. Len(t) \in Nat \ {0}
    BY <1>1
  <2>2. t[Len(t)] \in Digits
    BY <2>1
  <2>3. ValueOf[t[Len(t)]] \in 0 .. 9
    BY <2>2, DigitsHaveValues
  <2> QED
    BY <2>1, <2>3
<1>2. B \in SUBSET T /\ rank \in [T -> Nat] /\ base \in [T -> Nat]
  OBVIOUS
<1>3. pred \in [T -> T] /\ \A t \in T \ B : rank[pred[t]] < rank[t]
  BY <1>1
<1>4. step \in [T -> [Nat -> Nat]]
  BY <1>1
<1>5. PICK f \in [T -> Nat] : IsRecursive(f, T, B, base, pred, step)
  <2> HIDE DEF T, B, rank, base, pred, step
  <2> QED
    BY <1>2, <1>3, <1>4, RecursiveFunctionExists
<1>6. ASSUME NEW t \in T
      PROVE  f[t] = IF t = <<>> THEN 0
                    ELSE LET k == Len(t) IN 10 * f[SubSeq(t, 1, k - 1)] + ValueOf[t[k]]
  <2>1. f[t] = IF t \in B THEN base[t] ELSE step[t][f[pred[t]]]
    BY <1>5 DEF IsRecursive
  <2>2. CASE t = <<>>
    BY <2>1, <2>2
  <2>3. CASE t # <<>>
    <3>1. pred[t] = SubSeq(t, 1, Len(t) - 1) /\ f[pred[t]] \in Nat
      BY <2>3, <1>3
    <3> QED
      BY <2>1, <2>3, <3>1
  <2> QED
    BY <2>2, <2>3
<1>7. f = StrtolBody(f)
  BY <1>5, <1>6 DEF StrtolBody
<1>8. strtol = CHOOSE g : g = StrtolBody(g)
  BY DEF strtol, StrtolBody
<1>9. strtol = StrtolBody(strtol)
  BY <1>7, <1>8
<1> QED
  BY <1>9 DEF StrtolBody

\* strtol() reads back what printf() wrote.
LEMMA StrtolReadsDecimal ==
  \A n \in Nat : strtol[decimal[n]] = n
<1> DEFINE Misread == {n \in Nat : strtol[decimal[n]] # n}
<1> SUFFICES ASSUME Misread # {} PROVE FALSE
  OBVIOUS
<1>1. PICK n \in Misread : \A m \in Misread : n <= m
  <2>1. Misread \in SUBSET Nat
    OBVIOUS
  <2> HIDE DEF Misread
  <2> QED
    BY <2>1, LeastElement
<1>2. n \in Nat /\ decimal[n] \in Seq(Digits) /\ strtol[decimal[n]] # n
  BY DecimalType
<1>3. CASE n < 10
  <2> DEFINE d == digits[n + 1]
  <2>1. d \in Digits /\ ValueOf[d] = n
    BY <1>2, <1>3, DigitsHaveValues
  <2>2. decimal[n] = <<d>>
    BY <1>2, <1>3, DecimalEquation
  <2> HIDE DEF d
  <2>3. /\ <<d>> \in Seq(Digits) /\ <<d>> # <<>> /\ Len(<<d>>) = 1 /\ <<d>>[1] = d
        /\ SubSeq(<<d>>, 1, 0) = <<>> /\ <<>> \in Seq(Digits)
    BY <2>1
  <2>4. strtol[<<>>] = 0
    BY <2>3, StrtolIsDefined
  <2>5. strtol[<<d>>] = 10 * 0 + n
    <3>1. strtol[<<d>>] =
            10 * strtol[SubSeq(<<d>>, 1, Len(<<d>>) - 1)] + ValueOf[<<d>>[Len(<<d>>)]]
      BY <2>3, StrtolIsDefined
    <3>2. Len(<<d>>) - 1 = 0 /\ Len(<<d>>) = 1
      BY <2>3
    <3>3. strtol[<<d>>] = 10 * strtol[SubSeq(<<d>>, 1, 0)] + ValueOf[<<d>>[1]]
      BY <3>1, <3>2
    <3>4. ValueOf[<<d>>[1]] = n /\ strtol[SubSeq(<<d>>, 1, 0)] = 0
      BY <2>1, <2>3, <2>4
    <3> QED
      BY <3>3, <3>4
  <2> QED
    BY <1>2, <2>2, <2>5
<1>4. CASE n >= 10
  <2>1. PICK m \in Nat, r \in 0 .. 9 :
          m = n \div 10 /\ r = n % 10 /\ m < n /\ n = 10 * m + r
    BY <1>2, <1>4, DivMod
  <2>2. m \notin Misread
    <3> HIDE DEF Misread
    <3> QED
      BY <1>1, <1>2, <2>1
  <2>3. strtol[decimal[m]] = m
    BY <2>2
  <2>4. PICK d \in Digits : d = digits[r + 1] /\ ValueOf[d] = r
    BY DigitsHaveValues
  <2>5. PICK t \in Seq(Digits) : t = decimal[m]
    BY DecimalType
  <2>6. decimal[n] = Append(t, d)
    <3>1. decimal[n] = IF n < 10 THEN <<digits[n + 1]>>
                       ELSE Append(decimal[n \div 10], digits[(n % 10) + 1])
      BY <1>2, DecimalEquation
    <3>2. ~(n < 10)
      BY <1>2, <1>4
    <3> QED
      BY <2>1, <2>4, <2>5, <3>1, <3>2
  <2>7. /\ Append(t, d) \in Seq(Digits) /\ Append(t, d) # <<>>
        /\ Len(Append(t, d)) = Len(t) + 1 /\ Append(t, d)[Len(t) + 1] = d
        /\ SubSeq(Append(t, d), 1, Len(t)) = t
    OBVIOUS
  <2>8. Len(t) \in Nat
    OBVIOUS
  <2>9. strtol[Append(t, d)] = 10 * strtol[t] + ValueOf[d]
    <3> DEFINE s == Append(t, d)
    <3>1. strtol[s] = 10 * strtol[SubSeq(s, 1, Len(s) - 1)] + ValueOf[s[Len(s)]]
      <4> HIDE DEF s
      <4> QED
        BY <2>7, StrtolIsDefined DEF s
    <3>2. Len(s) - 1 = Len(t)
      BY <2>7, <2>8
    <3> QED
      BY <2>7, <3>1, <3>2
  <2> QED
    BY <1>2, <2>1, <2>3, <2>4, <2>5, <2>6, <2>9
<1> QED
  BY <1>2, <1>3, <1>4

-----------------------------------------------------------------------------
(* The line of /proc/<pid>/stat. *)

LEMMA MinIsLeast ==
  ASSUME NEW S, S \subseteq Int, NEW least \in S, \A k \in S : least <= k
  PROVE  Sets!Min(S) = least
<1>1. Sets!Min(S) \in S /\ \A k \in S : Sets!Min(S) <= k
  BY DEF Sets!Min
<1>2. PICK m \in Int : m = Sets!Min(S) /\ m <= least /\ least <= m
  BY <1>1
<1>3. m = least
  BY <1>2
<1> QED
  BY <1>2, <1>3

\* The solver cannot read these as literals.
space == " "
opening == "("
closing == ")"

LineOf(pid, name, ppid) ==
  pid \o <<space, opening>> \o name \o <<closing, space, "S", space>> \o ppid \o <<space, "3">>

\* What stands where in a line "pid (name) S parent 3".
IsLaidOut(line, pid, name, ppid) ==
  LET at == Len(pid) + Len(name) + 3 IN
  /\ Len(line) = at + 3 + Len(ppid) + 2
  /\ \A k \in 1 .. Len(pid) : line[k] = pid[k]
  /\ line[Len(pid) + 1] = space /\ line[Len(pid) + 2] = opening
  /\ \A k \in 1 .. Len(name) : line[Len(pid) + 2 + k] = name[k]
  /\ line[at] = closing /\ line[at + 1] = space /\ line[at + 2] = "S" /\ line[at + 3] = space
  /\ \A k \in 1 .. Len(ppid) : line[at + 3 + k] = ppid[k]
  /\ line[at + 3 + Len(ppid) + 1] = space

LEMMA LineLayout ==
  ASSUME NEW Characters, Digits \cup {space, opening, closing, "S", "3"} \subseteq Characters,
         NEW pid \in Seq(Digits), NEW name \in Seq(Characters), NEW ppid \in Seq(Digits)
  PROVE  /\ LineOf(pid, name, ppid) \in Seq(Characters)
         /\ IsLaidOut(LineOf(pid, name, ppid), pid, name, ppid)
<1> DEFINE t1 == <<space, opening>>
           t2 == <<closing, space, "S", space>>
           t3 == <<space, "3">>
           s1 == pid \o t1
           s2 == s1 \o name
           s3 == s2 \o t2
           s4 == s3 \o ppid
           s5 == s4 \o t3
           a == Len(pid)
           b == Len(name)
           c == Len(ppid)
<1>1. Digits \subseteq Characters /\ {space, opening, closing, "S", "3"} \subseteq Characters
  OBVIOUS
<1>2. pid \in Seq(Characters) /\ ppid \in Seq(Characters)
  BY <1>1
<1>3. /\ t1 \in Seq(Characters) /\ Len(t1) = 2
      /\ t2 \in Seq(Characters) /\ Len(t2) = 4
      /\ t3 \in Seq(Characters) /\ Len(t3) = 2
      /\ t1[1] = space /\ t1[2] = opening
      /\ t2[1] = closing /\ t2[2] = space /\ t2[3] = "S" /\ t2[4] = space
      /\ t3[1] = space
  BY <1>1
<1>4. a \in Nat /\ b \in Nat /\ c \in Nat
  OBVIOUS
<1>5. LineOf(pid, name, ppid) = s5
  BY Zenon DEF LineOf
<1> HIDE DEF t1, t2, t3
<1>6. /\ s1 \in Seq(Characters) /\ Len(s1) = Len(pid) + Len(t1)
      /\ \A k \in 1 .. Len(pid) : s1[k] = pid[k]
      /\ \A k \in 1 .. Len(t1) : s1[Len(pid) + k] = t1[k]
  <2>1. pid \in Seq(Characters) /\ t1 \in Seq(Characters)
    BY <1>2, <1>3
  <2> QED
    BY <2>1
<1> HIDE DEF s1
<1>7. /\ s2 \in Seq(Characters) /\ Len(s2) = Len(s1) + Len(name)
      /\ \A k \in 1 .. Len(s1) : s2[k] = s1[k]
      /\ \A k \in 1 .. Len(name) : s2[Len(s1) + k] = name[k]
  <2>1. s1 \in Seq(Characters) /\ name \in Seq(Characters)
    BY <1>6
  <2> QED
    BY <2>1
<1> HIDE DEF s2
<1>8. /\ s3 \in Seq(Characters) /\ Len(s3) = Len(s2) + Len(t2)
      /\ \A k \in 1 .. Len(s2) : s3[k] = s2[k]
      /\ \A k \in 1 .. Len(t2) : s3[Len(s2) + k] = t2[k]
  <2>1. s2 \in Seq(Characters) /\ t2 \in Seq(Characters)
    BY <1>3, <1>7
  <2> QED
    BY <2>1
<1> HIDE DEF s3
<1>9. /\ s4 \in Seq(Characters) /\ Len(s4) = Len(s3) + Len(ppid)
      /\ \A k \in 1 .. Len(s3) : s4[k] = s3[k]
      /\ \A k \in 1 .. Len(ppid) : s4[Len(s3) + k] = ppid[k]
  <2>1. s3 \in Seq(Characters) /\ ppid \in Seq(Characters)
    BY <1>2, <1>8
  <2> QED
    BY <2>1
<1> HIDE DEF s4
<1>10. /\ s5 \in Seq(Characters) /\ Len(s5) = Len(s4) + Len(t3)
       /\ \A k \in 1 .. Len(s4) : s5[k] = s4[k]
       /\ \A k \in 1 .. Len(t3) : s5[Len(s4) + k] = t3[k]
  <2>1. s4 \in Seq(Characters) /\ t3 \in Seq(Characters)
    BY <1>3, <1>9
  <2> QED
    BY <2>1
<1> HIDE DEF s5
<1>11. /\ Len(s1) = a + 2 /\ Len(s2) = a + 2 + b /\ Len(s3) = a + 2 + b + 4
       /\ Len(s4) = a + 2 + b + 4 + c /\ Len(s5) = a + 2 + b + 4 + c + 2
  BY <1>3, <1>4, <1>6, <1>7, <1>8, <1>9, <1>10
<1> HIDE DEF a, b, c
<1>12. \A k \in 1 .. a + 2 + b + 4 : s5[k] = s3[k]
  <2>1. \A k \in 1 .. a + 2 + b + 4 : k \in 1 .. a + 2 + b + 4 + c
    BY <1>4
  <2> QED
    BY <1>9, <1>10, <1>11, <2>1
<1>13. \A k \in 1 .. a + 2 + b : s5[k] = s2[k]
  <2>1. \A k \in 1 .. a + 2 + b : k \in 1 .. a + 2 + b + 4
    BY <1>4
  <2> QED
    BY <1>8, <1>11, <1>12, <2>1
<1>14. \A k \in 1 .. a + 2 : s5[k] = s1[k]
  <2>1. \A k \in 1 .. a + 2 : k \in 1 .. a + 2 + b
    BY <1>4
  <2> QED
    BY <1>7, <1>11, <1>13, <2>1
<1>15. \A k \in 1 .. a : s5[k] = pid[k]
  BY <1>4, <1>6, <1>14 DEF a
<1>16. \A k \in 1 .. 2 : s5[a + k] = t1[k]
  <2>1. \A k \in 1 .. 2 : s1[a + k] = t1[k] /\ a + k \in 1 .. a + 2
    BY <1>3, <1>4, <1>6 DEF a
  <2> QED
    BY <1>14, <2>1
<1>17. \A k \in 1 .. b : s5[a + 2 + k] = name[k]
  <2>1. \A k \in 1 .. b : s2[a + 2 + k] = name[k]
    BY <1>7, <1>11 DEF b
  <2>2. \A k \in 1 .. b : a + 2 + k \in 1 .. a + 2 + b
    BY <1>4
  <2> QED
    BY <1>13, <2>1, <2>2
<1>18. \A k \in 1 .. 4 : s5[a + 2 + b + k] = t2[k]
  <2>1. \A k \in 1 .. 4 : s3[a + 2 + b + k] = t2[k]
    BY <1>3, <1>8, <1>11
  <2>2. \A k \in 1 .. 4 : a + 2 + b + k \in 1 .. a + 2 + b + 4
    BY <1>4
  <2> QED
    BY <1>12, <2>1, <2>2
<1>19. \A k \in 1 .. c : s5[a + 2 + b + 4 + k] = ppid[k]
  <2>1. \A k \in 1 .. c : s4[a + 2 + b + 4 + k] = ppid[k]
    BY <1>9, <1>11 DEF c
  <2>2. \A k \in 1 .. c : a + 2 + b + 4 + k \in 1 .. a + 2 + b + 4 + c
    BY <1>4
  <2> QED
    BY <1>10, <1>11, <2>1, <2>2
<1>20. s5[a + 2 + b + 4 + c + 1] = space
  BY <1>3, <1>4, <1>10, <1>11
<1>21. /\ s5[a + 1] = space /\ s5[a + 2] = opening
       /\ s5[a + 2 + b + 1] = closing /\ s5[a + 2 + b + 2] = space
       /\ s5[a + 2 + b + 3] = "S" /\ s5[a + 2 + b + 4] = space
  BY <1>3, <1>16, <1>18
<1>22. /\ a + b + 3 = a + 2 + b + 1 /\ a + b + 3 + 1 = a + 2 + b + 2
       /\ a + b + 3 + 2 = a + 2 + b + 3 /\ a + b + 3 + 3 = a + 2 + b + 4
       /\ a + b + 3 + 3 + c + 1 = a + 2 + b + 4 + c + 1
       /\ a + b + 3 + 3 + c + 2 = a + 2 + b + 4 + c + 2
  BY <1>4
<1> QED
  BY <1>5, <1>10, <1>11, <1>15, <1>17, <1>19, <1>20, <1>21, <1>22 DEF a, b, c, IsLaidOut

LEMMA CharactersDiffer ==
  space # closing /\ opening # closing /\ {space, closing} \cap Digits = {}
<1>1. space # closing /\ opening # closing
  BY Zenon DEF space, opening, closing
<1>2. ASSUME NEW k \in 1 .. 10 PROVE digits[k] # space /\ digits[k] # closing
  <2>1. /\ digits[1] = "0" /\ digits[2] = "1" /\ digits[3] = "2" /\ digits[4] = "3"
        /\ digits[5] = "4" /\ digits[6] = "5" /\ digits[7] = "6" /\ digits[8] = "7"
        /\ digits[9] = "8" /\ digits[10] = "9"
    BY DEF digits
  <2>2. \A d \in {"0", "1", "2", "3", "4", "5", "6", "7", "8", "9"} : d # space /\ d # closing
    BY Zenon DEF space, closing
  <2>3. digits[k] \in {"0", "1", "2", "3", "4", "5", "6", "7", "8", "9"}
    BY <2>1
  <2> QED
    BY <2>2, <2>3
<1>3. DOMAIN digits = 1 .. 10
  BY DEF digits
<1>4. Digits = {digits[k] : k \in 1 .. 10}
  BY <1>3 DEF Digits
<1> QED
  BY <1>1, <1>2, <1>4

LEMMA ClosingParenthesesAre ==
  ASSUME NEW text
  PROVE  closing_parentheses(text) =
           {k \in 4 .. Len(text) - 1 : text[k] = closing /\ text[k + 1] = space}
BY Zenon DEF closing_parentheses, closing, space

LEMMA FirstNumberIs ==
  ASSUME NEW text
  PROVE  FirstNumber(text) =
           LET from == Sets!Min({k \in DOMAIN text : text[k] # space})
               to == Sets!Min({k \in from .. Len(text) + 1 :
                                 k = Len(text) + 1 \/ text[k] \notin Digits})
           IN SubSeq(text, from, to - 1)
BY Zenon DEF FirstNumber, space

LEMMA RestOfText ==
  ASSUME NEW S, NEW s \in Seq(S), NEW m \in Nat, m < Len(s)
  PROVE  /\ SubSeq(s, m + 1, Len(s)) \in Seq(S)
         /\ Len(SubSeq(s, m + 1, Len(s))) = Len(s) - m
         /\ \A k \in 1 .. Len(s) - m : SubSeq(s, m + 1, Len(s))[k] = s[m + k]
<1>1. SubSeq(s, m + 1, Len(s)) \in Seq(S)
  OBVIOUS
<1>2. Len(SubSeq(s, m + 1, Len(s))) = Len(s) - m
  OBVIOUS
<1>3. \A k \in 1 .. Len(s) - m : SubSeq(s, m + 1, Len(s))[k] = s[m + k]
  OBVIOUS
<1> QED
  BY <1>1, <1>2, <1>3

\* A number that ends with the text or a space after it.
LEMMA NumberIsFirst ==
  ASSUME NEW S, NEW text \in Seq(S), NEW number \in Seq(Digits), number # <<>>,
         Digits \subseteq S, 1 + Len(number) <= Len(text), text[1] = space,
         \A k \in 1 .. Len(number) : text[1 + k] = number[k],
         Len(number) + 2 <= Len(text) => text[Len(number) + 2] = space
  PROVE  FirstNumber(text) = number
<1> DEFINE c == Len(number)
           From == {k \in DOMAIN text : text[k] # space}
           To == {k \in 2 .. Len(text) + 1 : k = Len(text) + 1 \/ text[k] \notin Digits}
<1>1. c \in Nat \ {0} /\ Len(text) \in Nat /\ DOMAIN text = 1 .. Len(text)
  OBVIOUS
<1>2. \A k \in 1 .. c : number[k] \in Digits
  OBVIOUS
<1>3. Sets!Min(From) = 2
  <2>1. 2 \in From
    <3>1. text[2] = number[1] /\ number[1] \in Digits
      BY <1>1, <1>2
    <3> QED
      BY <1>1, <3>1, CharactersDiffer
  <2>2. \A k \in From : 2 <= k
    BY <1>1
  <2>3. From \subseteq Int
    BY <1>1
  <2> HIDE DEF From
  <2> QED
    BY <2>1, <2>2, <2>3, MinIsLeast
<1>4. Sets!Min(To) = c + 2
  <2>1. c + 2 \in To
    BY <1>1, CharactersDiffer
  <2>2. ASSUME NEW k \in To PROVE c + 2 <= k
    <3> SUFFICES ASSUME k < c + 2 PROVE FALSE
      BY <1>1
    <3>1. k - 1 \in 1 .. c /\ text[1 + (k - 1)] = text[k]
      BY <1>1
    <3>2. text[k] \in Digits
      BY <1>2, <3>1
    <3> QED
      BY <1>1, <3>1, <3>2
  <2>3. To \subseteq Int
    BY <1>1
  <2> HIDE DEF To
  <2> QED
    BY <2>1, <2>2, <2>3, MinIsLeast
<1>5. FirstNumber(text) = SubSeq(text, 2, (c + 2) - 1)
  <2> HIDE DEF c
  <2> QED
    BY <1>3, <1>4, FirstNumberIs, Zenon
<1>6. SubSeq(text, 2, c + 1) = number
  BY <1>1, <1>2
<1>7. (c + 2) - 1 = c + 1
  BY <1>1
<1> QED
  BY <1>5, <1>6, <1>7

\* A line that is cut off after the parent at the earliest.
LEMMA LineIsRead ==
  ASSUME NEW Characters, Digits \cup {space, opening, closing, "S", "3"} \subseteq Characters,
         NEW pid \in Seq(Digits), NEW name \in Seq(Characters), NEW ppid \in Seq(Digits),
         pid # <<>>, ppid # <<>>,
         \A k \in 1 .. Len(name) - 1 : ~(name[k] = closing /\ name[k + 1] = space),
         NEW cut \in Nat, cut <= Len(LineOf(pid, name, ppid)),
         Len(pid) + Len(name) + 6 + Len(ppid) <= cut
  PROVE  LET text == SubSeq(LineOf(pid, name, ppid), 1, cut)
             at == Len(pid) + Len(name) + 3
         IN  /\ closing_parentheses(text) # {} /\ Sets!Min(closing_parentheses(text)) = at
             /\ FirstNumber(SubSeq(text, at + 3, Len(text))) = ppid
<1> DEFINE line == LineOf(pid, name, ppid)
           text == SubSeq(line, 1, cut)
           a == Len(pid)
           b == Len(name)
           c == Len(ppid)
           at == a + b + 3
           tail == SubSeq(text, at + 3, Len(text))
<1>1. /\ a \in Nat \ {0} /\ b \in Nat /\ c \in Nat \ {0}
      /\ \A k \in 1 .. a : pid[k] \in Digits
  OBVIOUS
<1>2. /\ line \in Seq(Characters) /\ Len(line) = at + 3 + c + 2
      /\ \A k \in 1 .. a : line[k] = pid[k]
      /\ line[a + 1] = space /\ line[a + 2] = opening
      /\ \A k \in 1 .. b : line[a + 2 + k] = name[k]
      /\ line[at] = closing /\ line[at + 1] = space /\ line[at + 2] = "S" /\ line[at + 3] = space
      /\ \A k \in 1 .. c : line[at + 3 + k] = ppid[k]
      /\ line[at + 3 + c + 1] = space
  <2>1. line \in Seq(Characters) /\ IsLaidOut(line, pid, name, ppid)
    BY LineLayout
  <2> HIDE DEF line
  <2> QED
    BY <2>1 DEF IsLaidOut
<1>3. cut <= Len(line) /\ at + 3 + c <= cut
  BY <1>1
<1>4. \A k \in 1 .. b - 1 : ~(name[k] = closing /\ name[k + 1] = space)
  OBVIOUS
<1> HIDE DEF line
<1>5. /\ text \in Seq(Characters) /\ Len(text) = cut
      /\ \A k \in 1 .. cut : text[k] = line[k]
  BY <1>2, <1>3
<1> HIDE DEF text, a, b, c
<1>6. closing_parentheses(text) =
        {k \in 4 .. cut - 1 : text[k] = closing /\ text[k + 1] = space}
  BY <1>5, ClosingParenthesesAre
<1>7. at \in closing_parentheses(text)
  <2>1. at \in 4 .. cut - 1 /\ at \in 1 .. cut /\ at + 1 \in 1 .. cut
    BY <1>1, <1>3
  <2> QED
    BY <1>2, <1>5, <1>6, <2>1
<1>8. ASSUME NEW k \in closing_parentheses(text) PROVE at <= k
  <2>1. k \in 4 .. cut - 1 /\ text[k] = closing /\ text[k + 1] = space
    BY <1>6
  <2>2. line[k] = closing /\ line[k + 1] = space
    BY <1>5, <2>1
  <2> SUFFICES ASSUME k < at PROVE FALSE
    BY <1>1, <2>1
  <2>3. CASE k <= a
    <3>1. k \in 1 .. a
      BY <1>1, <2>1, <2>3
    <3> QED
      BY <1>1, <1>2, <2>2, <3>1, CharactersDiffer
  <2>4. CASE k = a + 1
    BY <1>2, <2>2, <2>4, CharactersDiffer
  <2>5. CASE k = a + 2
    BY <1>2, <2>2, <2>5, CharactersDiffer
  <2>6. CASE k = a + 2 + b /\ b # 0
    <3>1. k + 1 = at
      BY <1>1, <2>6
    <3> QED
      BY <1>2, <2>2, <3>1, CharactersDiffer
  <2>7. CASE k > a + 2 /\ k < a + 2 + b
    <3>1. PICK m \in 1 .. b - 1 : k = a + 2 + m
      <4>1. k - (a + 2) \in 1 .. b - 1
        BY <1>1, <2>1, <2>7
      <4>2. k = a + 2 + (k - (a + 2))
        BY <1>1, <2>1
      <4> QED
        BY <4>1, <4>2
    <3>2. m \in 1 .. b /\ m + 1 \in 1 .. b /\ k + 1 = a + 2 + (m + 1)
      BY <1>1, <3>1
    <3>3. name[m] = closing /\ name[m + 1] = space
      BY <1>2, <2>2, <3>1, <3>2
    <3> QED
      BY <1>4, <3>3
  <2> QED
    BY <1>1, <2>1, <2>3, <2>4, <2>5, <2>6, <2>7
<1>9. Sets!Min(closing_parentheses(text)) = at
  <2>1. closing_parentheses(text) \subseteq Int
    BY <1>1, <1>3, <1>6
  <2> QED
    BY <1>7, <1>8, <2>1, MinIsLeast
<1>10. /\ tail \in Seq(Characters) /\ Len(tail) = cut - (at + 2)
       /\ \A k \in 1 .. Len(tail) : tail[k] = line[at + 2 + k]
  <2>1. /\ SubSeq(text, at + 3, cut) \in Seq(Characters)
        /\ Len(SubSeq(text, at + 3, cut)) = cut - (at + 2)
        /\ \A k \in 1 .. cut - (at + 2) : SubSeq(text, at + 3, cut)[k] = text[at + 2 + k]
    <3>1. PICK m \in Nat : m = at + 2 /\ at + 3 = m + 1 /\ m < cut
      BY <1>1, <1>3
    <3> HIDE DEF at
    <3>2. text \in Seq(Characters) /\ m < Len(text)
      BY <1>5, <3>1
    <3>3. /\ SubSeq(text, m + 1, Len(text)) \in Seq(Characters)
          /\ Len(SubSeq(text, m + 1, Len(text))) = Len(text) - m
          /\ \A k \in 1 .. Len(text) - m : SubSeq(text, m + 1, Len(text))[k] = text[m + k]
      BY <3>1, <3>2, RestOfText
    <3> QED
      BY <1>5, <3>1, <3>3
  <2>2. \A k \in 1 .. cut - (at + 2) : at + 2 + k \in 1 .. cut
    BY <1>1, <1>3
  <2> QED
    BY <1>5, <2>1, <2>2
<1> HIDE DEF tail
<1>11. FirstNumber(tail) = ppid
  <2>1. 1 + c <= Len(tail) /\ Len(tail) \in Nat
    BY <1>1, <1>3, <1>10
  <2>2. tail[1] = space
    <3>1. tail[1] = line[at + 2 + 1] /\ at + 2 + 1 = at + 3
      BY <1>1, <1>10, <2>1
    <3> QED
      BY <1>2, <3>1
  <2>3. ASSUME NEW k \in 1 .. c PROVE tail[1 + k] = ppid[k]
    <3>1. 1 + k \in 1 .. Len(tail) /\ at + 2 + (1 + k) = at + 3 + k
      BY <1>1, <2>1
    <3>2. tail[1 + k] = line[at + 2 + (1 + k)]
      BY <1>10, <3>1
    <3> QED
      BY <1>2, <3>1, <3>2
  <2>4. c + 2 <= Len(tail) => tail[c + 2] = space
    <3>1. at + 2 + (c + 2) = at + 3 + c + 1 /\ (c + 2 <= Len(tail) => c + 2 \in 1 .. Len(tail))
      BY <1>1, <2>1
    <3> QED
      BY <1>2, <1>10, <3>1
  <2>5. Digits \subseteq Characters
    OBVIOUS
  <2> QED
    BY <1>10, <2>1, <2>2, <2>3, <2>4, <2>5, NumberIsFirst DEF c
<1> QED
  BY <1>7, <1>9, <1>11 DEF line, text, a, b, tail

ReadTypes ==
  /\ alive \subseteq Pids /\ unread \subseteq Pids
  /\ parent \in [Pids -> Pids \cup {0}]
  /\ comm \in Comms

LEMMA ParentIsNumber ==
  ASSUME ReadTypes, NEW p \in Pids
  PROVE  p \in Nat /\ parent[p] \in Nat /\ (parent[p] = 0 \/ parent[p] \in Pids)
<1>1. \A q \in Pids : q \in Nat
  BY ListingAssumption
<1>2. parent[p] = 0 \/ parent[p] \in Pids
  BY DEF ReadTypes
<1> QED
  BY <1>1, <1>2

LEMMA TextFits ==
  ASSUME NamesAreReadable, ReadTypes, NEW p \in Pids
  PROVE  /\ closing_parentheses(file_contents(p)) # {}
         /\ LET text == file_contents(p) IN
              FirstNumber(SubSeq(text, Sets!Min(closing_parentheses(text)) + 3, Len(text)))
                = decimal[parent[p]]
<1> DEFINE pid == decimal[p]
           name == comm[p]
           ppid == decimal[parent[p]]
           line == LineOf(pid, name, ppid)
           cut == Sets!Min({Len(line), MAX_STAT_FILE_READ_LENGTH - 1})
           Characters == Digits \cup {space, opening, closing, "S", "3"} \cup STRING
           at == Len(pid) + Len(name) + 3
<1>1. p \in Nat /\ parent[p] \in Nat /\ (parent[p] = 0 \/ parent[p] \in Pids)
  BY ParentIsNumber
<1>2. pid \in Seq(Digits) /\ ppid \in Seq(Digits) /\ pid # <<>> /\ ppid # <<>>
  BY <1>1, DecimalType, DecimalIsNotEmpty
<1>3. name \in Seq(STRING) /\ Len(name) <= MaxCommLength
  BY TextAssumption DEF ReadTypes
<1>4. name \in Seq(Characters)
  BY <1>3
<1>5. Len(pid) <= MaxPidLength /\ Len(ppid) <= MaxPidLength
  <2>1. \A q \in Pids : Len(decimal[q]) <= MaxPidLength
    BY TextAssumption
  <2>2. CASE parent[p] \in Pids
    BY <2>1, <2>2
  <2>3. CASE parent[p] = 0
    <3>1. Len(ppid) = 1
      <4>1. decimal[0] = IF 0 < 10 THEN <<digits[0 + 1]>>
                         ELSE Append(decimal[0 \div 10], digits[(0 % 10) + 1])
        BY DecimalEquation
      <4>2. decimal[0] = <<digits[0 + 1]>>
        BY <4>1
      <4> QED
        BY <2>3, <4>2
    <3>2. Len(pid) \in Nat \ {0} /\ Len(pid) <= MaxPidLength
      BY <1>2, <2>1
    <3> QED
      BY <3>1, <3>2, TextAssumption
  <2> QED
    BY <1>1, <2>1, <2>2, <2>3
<1>6. \A k \in 1 .. Len(name) - 1 : ~(name[k] = closing /\ name[k + 1] = space)
  <2>1. comm \in Comms
    BY DEF ReadTypes
  <2> QED
    BY <2>1, Zenon DEF NamesAreReadable, closing, space
<1>7. stat_file(p) = line /\ file_contents(p) = SubSeq(line, 1, cut)
  BY Zenon DEF stat_file, file_contents, LineOf, space, opening, closing
<1>8. Digits \cup {space, opening, closing, "S", "3"} \subseteq Characters
  OBVIOUS
<1> HIDE DEF pid, name, ppid, line, Characters
<1>9. Len(line) = at + 3 + Len(ppid) + 2
  <2>1. IsLaidOut(line, pid, name, ppid)
    BY <1>2, <1>4, <1>8, LineLayout DEF line
  <2> QED
    BY <2>1 DEF IsLaidOut
<1>10. Len(pid) \in Nat /\ Len(name) \in Nat /\ Len(ppid) \in Nat
  BY <1>2, <1>3
<1>11. cut \in Nat /\ cut <= Len(line) /\ Len(pid) + Len(name) + 6 + Len(ppid) <= cut
  <2> DEFINE m == MAX_STAT_FILE_READ_LENGTH - 1
  <2>1. m \in Nat /\ Len(pid) + Len(name) + 6 + Len(ppid) <= m
    BY <1>3, <1>5, <1>10, TextAssumption DEF MAX_STAT_FILE_READ_LENGTH
  <2>2. Len(line) \in Nat /\ Len(pid) + Len(name) + 6 + Len(ppid) <= Len(line)
    BY <1>9, <1>10
  <2> HIDE DEF m
  <2>3. Sets!Min({Len(line), m}) = IF Len(line) <= m THEN Len(line) ELSE m
    <3> DEFINE S == {Len(line), m}
    <3>1. S \subseteq Int /\ Len(line) \in S /\ m \in S
      BY <2>1, <2>2
    <3>2. CASE Len(line) <= m
      <4>1. \A k \in S : Len(line) <= k
        BY <2>1, <2>2, <3>2
      <4> HIDE DEF S
      <4>2. Sets!Min(S) = Len(line)
        BY <3>1, <4>1, MinIsLeast
      <4> QED
        BY <3>2, <4>2 DEF S
    <3>3. CASE ~(Len(line) <= m)
      <4>1. \A k \in S : m <= k
        BY <2>1, <2>2, <3>3
      <4> HIDE DEF S
      <4>2. Sets!Min(S) = m
        BY <3>1, <4>1, MinIsLeast
      <4> QED
        BY <3>3, <4>2 DEF S
    <3> QED
      BY <3>2, <3>3
  <2> QED
    BY <2>1, <2>2, <2>3 DEF m
<1> HIDE DEF cut
<1>12. LET text == SubSeq(line, 1, cut) IN
         /\ closing_parentheses(text) # {} /\ Sets!Min(closing_parentheses(text)) = at
         /\ FirstNumber(SubSeq(text, at + 3, Len(text))) = ppid
  BY <1>2, <1>4, <1>6, <1>8, <1>11, LineIsRead DEF line
<1> HIDE DEF at
<1> QED
  BY <1>7, <1>12, Zenon DEF ppid

LEMMA ParentIsRead ==
  ASSUME NamesAreReadable, ReadTypes, NEW p \in Pids
  PROVE  read_parent_process_id(p) = IF p \in alive THEN parent[p] ELSE 0
<1>1. parent[p] \in Nat
  BY ParentIsNumber
<1>2. strtol[decimal[parent[p]]] = parent[p]
  BY <1>1, StrtolReadsDecimal
<1> QED
  BY <1>2, TextFits, Zenon DEF read_parent_process_id


-----------------------------------------------------------------------------
(* The array of stage 1. *)

USE ListingAssumption

\* What all_processes holds, whatever was misread.
IsArray == \E S : all_processes \in Seq(S)

LEMMA EntryIsAdded ==
  ASSUME IsArray, NEW e
  PROVE  /\ {Append(all_processes, e)[k] : k \in DOMAIN Append(all_processes, e)}
              = {all_processes[k] : k \in DOMAIN all_processes} \cup {e}
         /\ Len(Append(all_processes, e)) = total_processes + 1
         /\ total_processes \in Nat
         /\ \E S : Append(all_processes, e) \in Seq(S)
<1>1. PICK S : all_processes \in Seq(S)
  BY DEF IsArray
<1> DEFINE T == S \cup {e}
           s == Append(all_processes, e)
           n == Len(all_processes)
<1>2. all_processes \in Seq(T)
  BY <1>1
<1>3. n \in Nat /\ DOMAIN all_processes = 1 .. n
  BY <1>2
<1>4. /\ s \in Seq(T) /\ Len(s) = n + 1 /\ DOMAIN s = 1 .. n + 1
      /\ \A k \in 1 .. n : s[k] = all_processes[k]
      /\ s[n + 1] = e
  <2> HIDE DEF T
  <2>1. e \in T
    BY DEF T
  <2> QED
    BY <1>2, <2>1
<1> HIDE DEF s, n
<1>5. {s[k] : k \in DOMAIN s} = {all_processes[k] : k \in DOMAIN all_processes} \cup {e}
  <2>1. \A k \in 1 .. n + 1 : k \in 1 .. n \/ k = n + 1
    BY <1>3
  <2>2. \A k \in 1 .. n : k \in 1 .. n + 1
    BY <1>3
  <2>3. n + 1 \in 1 .. n + 1
    BY <1>3
  <2> QED
    BY <1>3, <1>4, <2>1, <2>2, <2>3
<1> QED
  BY <1>3, <1>4, <1>5 DEF s, n, total_processes

LEMMA ReadTypesStep == ReadTypes /\ [ListNext]_allVars => ReadTypes'
<1> SUFFICES ASSUME ReadTypes, [ListNext]_allVars PROVE ReadTypes'
  OBVIOUS
<1>1. CASE ProcessEnds
  <2>1. PICK p \in alive \ {InitProcess, Self} :
          /\ alive' = alive \ {p}
          /\ parent' = [q \in Pids |-> IF parent[q] = p THEN InitProcess ELSE parent[q]]
          /\ comm' = comm /\ unread' = unread
    BY <1>1 DEF ProcessEnds
  <2>2. parent' \in [Pids -> Pids \cup {0}]
    BY <2>1 DEF ReadTypes
  <2> QED
    BY <2>1, <2>2 DEF ReadTypes
<1>2. CASE ReadEntry
  BY <1>2 DEF ReadEntry, ReadTypes
<1>3. CASE SkipEntry \/ AllocationFails \/ StartScan \/ Scan \/ UNCHANGED allVars
  BY <1>3 DEF SkipEntry, AllocationFails, StartScan, Scan, allVars, listVars, ReadTypes
<1> QED
  BY <1>1, <1>2, <1>3 DEF ListNext

\* Nothing but reading an entry changes the array or what it is compared with.
LEMMA OthersKeepArray ==
  ASSUME [ListNext]_allVars, ~ReadEntry
  PROVE  all_processes' = all_processes /\ truth' = truth /\ total_processes' = total_processes
<1>1. all_processes' = all_processes /\ truth' = truth
  <2>1. CASE Scan
    BY <2>1 DEF Scan, listVars, Next, CheckEntry, NextPass
  <2>2. CASE ProcessEnds \/ SkipEntry \/ AllocationFails \/ StartScan \/ UNCHANGED allVars
    BY <2>2 DEF ProcessEnds, SkipEntry, AllocationFails, StartScan, allVars, listVars, vars
  <2> QED
    BY <2>1, <2>2 DEF ListNext
<1> QED
  BY <1>1 DEF total_processes

\* Whatever is read, one entry is added at most.
LEMMA ReadAdds ==
  ASSUME ReadEntry
  PROVE  \/ all_processes' = all_processes
         \/ \E e : all_processes' = Append(all_processes, e)
BY DEF ReadEntry, Record

LEMMA ArrayStep == IsArray /\ [ListNext]_allVars => IsArray'
<1> SUFFICES ASSUME IsArray, [ListNext]_allVars PROVE IsArray'
  OBVIOUS
<1>1. CASE ~ReadEntry
  BY <1>1, OthersKeepArray DEF IsArray
<1>2. CASE ReadEntry /\ all_processes' = all_processes
  BY <1>2 DEF IsArray
<1>3. ASSUME NEW e, all_processes' = Append(all_processes, e) PROVE IsArray'
  BY <1>3, EntryIsAdded DEF IsArray
<1> QED
  BY <1>1, <1>2, <1>3, ReadAdds

LEMMA RealParentStep ==
  ASSUME NamesAreReadable, ReadTypes, IsArray, ReadsRealParent, [ListNext]_allVars
  PROVE  ReadsRealParent'
<1>1. CASE ~ReadEntry
  BY <1>1, OthersKeepArray DEF ReadsRealParent
<1>2. CASE ReadEntry
  <2>1. PICK p \in unread :
          /\ Record(p, read_parent_process_id(p))
          /\ truth' = IF p \in alive /\ parent[p] # 0
                      THEN truth \cup {[process_id |-> p, parent_process_id |-> parent[p]]}
                      ELSE truth
    BY <1>2 DEF ReadEntry
  <2>2. p \in Pids
    BY DEF ReadTypes
  <2>3. read_parent_process_id(p) = IF p \in alive THEN parent[p] ELSE 0
    BY <2>2, ParentIsRead
  <2>4. CASE p \in alive /\ parent[p] # 0
    <3> DEFINE e == [process_id |-> p, parent_process_id |-> parent[p]]
    <3>1. all_processes' = Append(all_processes, e) /\ truth' = truth \cup {e}
      BY <2>1, <2>3, <2>4 DEF Record
    <3> HIDE DEF e
    <3>2. {all_processes'[k] : k \in DOMAIN all_processes'}
            = {all_processes[k] : k \in DOMAIN all_processes} \cup {e}
      BY <3>1, EntryIsAdded
    <3> QED
      BY <3>1, <3>2 DEF ReadsRealParent
  <2>5. CASE ~(p \in alive /\ parent[p] # 0)
    <3>1. all_processes' = all_processes /\ truth' = truth
      BY <2>1, <2>3, <2>5 DEF Record
    <3> QED
      BY <3>1 DEF ReadsRealParent
  <2> QED
    BY <2>4, <2>5
<1> QED
  BY <1>1, <1>2

\* The array as far as its size goes.
SizeInv ==
  /\ IsArray
  /\ processes_allocated \in Nat \ {0} /\ total_processes <= processes_allocated

LEMMA SizeStep == SizeInv /\ [ListNext]_allVars => SizeInv'
<1> SUFFICES ASSUME SizeInv, [ListNext]_allVars PROVE SizeInv'
  OBVIOUS
<1>1. IsArray'
  BY ArrayStep DEF SizeInv
<1>2. total_processes \in Nat
  BY EntryIsAdded DEF SizeInv
<1>3. \/ Grow
      \/ processes_allocated' = processes_allocated
  BY DEF ListNext, ReadEntry, SkipEntry, AllocationFails, StartScan, Scan, ProcessEnds,
         allVars, listVars
<1>4. processes_allocated' \in Nat \ {0} /\ processes_allocated <= processes_allocated'
  BY <1>3 DEF Grow, SizeInv
<1>5. CASE total_processes' = total_processes
  BY <1>1, <1>2, <1>4, <1>5 DEF SizeInv
<1>6. ASSUME NEW e, ReadEntry, all_processes' = Append(all_processes, e)
      PROVE  SizeInv'
  <2>1. total_processes' = total_processes + 1
    BY <1>6, EntryIsAdded DEF SizeInv, total_processes
  <2>2. Grow
    BY <1>6 DEF ReadEntry
  <2>3. total_processes + 1 <= processes_allocated'
    BY <1>2, <2>2 DEF Grow, SizeInv
  <2> QED
    BY <1>1, <1>4, <2>1, <2>3 DEF SizeInv
<1>7. CASE ~ReadEntry
  BY <1>5, <1>7, OthersKeepArray
<1>8. CASE all_processes' = all_processes
  BY <1>5, <1>8 DEF total_processes
<1> QED
  BY <1>6, <1>7, <1>8, ReadAdds

LEMMA ReadingBegins ==
  ListInit => ReadTypes /\ ReadsRealParent /\ SizeInv
<1> SUFFICES ASSUME ListInit PROVE ReadTypes /\ ReadsRealParent /\ SizeInv
  OBVIOUS
<1>1. all_processes = <<>> /\ truth = {} /\ processes_allocated = InitiallyAllocated
  BY DEF ListInit
<1>2. all_processes \in Seq({}) /\ DOMAIN all_processes = {} /\ Len(all_processes) = 0
  BY <1>1
<1>3. ReadTypes
  BY DEF ListInit, ReadTypes
<1>4. ReadsRealParent
  BY <1>1, <1>2 DEF ReadsRealParent
<1>5. SizeInv
  BY <1>1, <1>2 DEF SizeInv, IsArray, total_processes
<1> QED
  BY <1>3, <1>4, <1>5

-----------------------------------------------------------------------------
(* The invariant. *)

ListTypes ==
  /\ all_processes \in Seq(ProcessInfo)
  /\ alive \subseteq Pids /\ unread \subseteq Pids
  /\ parent \in [Pids -> Pids \cup {0}]
  /\ comm \in Comms
  /\ processes_allocated \in Nat \ {0}
  /\ stage \in {"list", "scan", "failed"}
  /\ \A e \in truth : e \in ProcessInfo
  /\ ends \in 0 .. MaxEnds

ListedOnce ==
  /\ \A k \in 1 .. total_processes : Id(k) \notin unread
  /\ \A k, m \in 1 .. total_processes : Id(k) = Id(m) => k = m

SelfIsListed ==
  /\ Self \in alive /\ parent[Self] # 0
  /\ Self \notin unread => \E e \in truth : e.process_id = Self

FamilyIsKept ==
  \E S \in SUBSET Pids : IsBelow(S, RelationOf(parent)) /\ IsBelow(S, truth)

Listing ==
  /\ ListTypes /\ ListedOnce /\ SelfIsListed /\ FamilyIsKept
  /\ total_processes <= processes_allocated

\* The scan has not begun, or is where its own invariant says.
Handover ==
  /\ stage # "scan" => Untouched
  /\ stage = "scan" => IInv

ListInv == Listing /\ Handover

-----------------------------------------------------------------------------
(* Stage 1. *)

LEMMA ListingBegins == ListInit => ListInv
<1> SUFFICES ASSUME ListInit PROVE ListInv
  OBVIOUS
<1>1. ListTypes
  <2>1. all_processes \in Seq(ProcessInfo)
    BY DEF ListInit
  <2>2. 0 \in 0 .. MaxEnds
    OBVIOUS
  <2> QED
    BY <2>1, <2>2 DEF ListInit, ListTypes
<1>2. total_processes = 0
  BY DEF ListInit, total_processes
<1>3. ListedOnce
  <2>1. 1 .. total_processes = {}
    BY <1>2
  <2> QED
    BY <2>1 DEF ListedOnce
<1>4. SelfIsListed
  BY DEF ListInit, SelfIsListed
<1>5. FamilyIsKept
  <2>1. PICK S \in SUBSET Pids : IsBelow(S, RelationOf(parent))
    BY DEF ListInit
  <2>2. IsBelow(S, truth)
    BY <2>1 DEF ListInit, IsBelow
  <2> QED
    BY <2>1, <2>2 DEF FamilyIsKept
<1>6. total_processes <= processes_allocated
  BY <1>2 DEF ListInit
<1>7. Handover
  BY DEF ListInit, Handover, Untouched
<1> QED
  BY <1>1, <1>3, <1>4, <1>5, <1>6, <1>7 DEF ListInv, Listing

LEMMA ProcessEndsStep == ListInv /\ ProcessEnds => ListInv'
<1> SUFFICES ASSUME ListInv, ProcessEnds PROVE ListInv'
  OBVIOUS
<1>1. PICK p \in alive \ {InitProcess, Self} :
        /\ alive' = alive \ {p}
        /\ parent' = [q \in Pids |-> IF parent[q] = p THEN InitProcess ELSE parent[q]]
  BY DEF ProcessEnds
<1>2. /\ UNCHANGED <<vars, comm, unread, processes_allocated, stage, truth>>
      /\ ends' = ends + 1 /\ ends < MaxEnds /\ stage = "list"
  BY DEF ProcessEnds
<1>3. all_processes' = all_processes /\ total_processes' = total_processes
  BY <1>2 DEF vars, total_processes
<1>4. ListTypes'
  <2>1. ends' \in 0 .. MaxEnds
    BY <1>2 DEF ListInv, Listing, ListTypes
  <2>2. parent' \in [Pids -> Pids \cup {0}]
    BY <1>1 DEF ListInv, Listing, ListTypes
  <2>3. alive' \subseteq Pids
    BY <1>1 DEF ListInv, Listing, ListTypes
  <2> QED
    BY <1>2, <1>3, <2>1, <2>2, <2>3 DEF ListInv, Listing, ListTypes
<1>5. ListedOnce'
  BY <1>2, <1>3 DEF ListInv, Listing, ListedOnce, Id
<1>6. SelfIsListed'
  <2>1. Self \in alive'
    BY <1>1 DEF ListInv, Listing, SelfIsListed
  <2>2. parent'[Self] # 0
    <3>1. InitProcess # 0
      OBVIOUS
    <3> QED
      BY <1>1, <3>1 DEF ListInv, Listing, SelfIsListed
  <2> QED
    BY <1>2, <2>1, <2>2 DEF ListInv, Listing, SelfIsListed
<1>7. FamilyIsKept'
  <2>1. PICK S \in SUBSET Pids : IsBelow(S, RelationOf(parent)) /\ IsBelow(S, truth)
    BY DEF ListInv, Listing, FamilyIsKept
  <2>2. IsBelow(S, RelationOf(parent'))
    <3> SUFFICES ASSUME NEW q \in Pids, parent'[q] \in S \cup {Root} PROVE q \in S
      BY <2>1 DEF IsBelow, RelationOf
    <3>1. InitProcess \notin S \cup {Root}
      BY <2>1 DEF IsBelow
    <3>2. parent'[q] = parent[q]
      BY <1>1, <3>1
    <3> DEFINE e == [process_id |-> q, parent_process_id |-> parent[q]]
    <3>3. e \in RelationOf(parent) /\ e.parent_process_id \in S \cup {Root}
      BY <3>2 DEF RelationOf
    <3> QED
      BY <2>1, <3>3 DEF IsBelow
  <2>3. IsBelow(S, truth')
    BY <1>2, <2>1
  <2> QED
    BY <2>2, <2>3 DEF FamilyIsKept, IsBelow, RelationOf
<1>8. Handover'
  BY <1>2 DEF ListInv, Handover, Untouched, vars
<1>9. (total_processes <= processes_allocated)'
  BY <1>2, <1>3 DEF ListInv, Listing
<1> QED
  BY <1>4, <1>5, <1>6, <1>7, <1>8, <1>9 DEF ListInv, Listing

\* What an entry adds to the array, if it adds anything, is what was true.
LEMMA ReadAppends ==
  ASSUME ListInv, ReadEntry, ReadsRealParent'
  PROVE  \E p \in unread :
           /\ unread' = unread \ {p}
           /\ truth' = IF p \in alive /\ parent[p] # 0
                       THEN truth \cup {[process_id |-> p, parent_process_id |-> parent[p]]}
                       ELSE truth
           /\ \/ all_processes' = all_processes
              \/ \E e \in truth' : e.process_id = p /\ all_processes' = Append(all_processes, e)
<1>1. PICK p \in unread :
        /\ unread' = unread \ {p}
        /\ Record(p, read_parent_process_id(p))
        /\ truth' = IF p \in alive /\ parent[p] # 0
                    THEN truth \cup {[process_id |-> p, parent_process_id |-> parent[p]]}
                    ELSE truth
  BY DEF ReadEntry
<1> DEFINE e == [process_id |-> p, parent_process_id |-> read_parent_process_id(p)]
<1>2. all_processes' = all_processes \/ all_processes' = Append(all_processes, e)
  BY <1>1 DEF Record
<1>3. e.process_id = p
  OBVIOUS
<1> HIDE DEF e
<1>4. ASSUME all_processes' = Append(all_processes, e) PROVE e \in truth'
  <2>1. all_processes \in Seq(ProcessInfo)
    BY DEF ListInv, Listing, ListTypes
  <2>2. /\ Len(all_processes) + 1 \in DOMAIN Append(all_processes, e)
        /\ Append(all_processes, e)[Len(all_processes) + 1] = e
    BY <2>1
  <2> QED
    BY <1>4, <2>2 DEF ReadsRealParent
<1> QED
  BY <1>1, <1>2, <1>3, <1>4

LEMMA ReadEntryStep == ListInv /\ ReadEntry /\ ReadsRealParent' => ListInv'
<1> SUFFICES ASSUME ListInv, ReadEntry, ReadsRealParent' PROVE ListInv'
  OBVIOUS
<1>1. PICK p \in unread :
        /\ unread' = unread \ {p}
        /\ truth' = IF p \in alive /\ parent[p] # 0
                    THEN truth \cup {[process_id |-> p, parent_process_id |-> parent[p]]}
                    ELSE truth
        /\ \/ all_processes' = all_processes
           \/ \E e \in truth' : e.process_id = p /\ all_processes' = Append(all_processes, e)
  BY ReadAppends
<1>2. /\ UNCHANGED <<found, checked_process_id, pass, entry, done, alive, parent, comm, stage, ends>>
      /\ stage = "list" /\ Grow
  BY DEF ReadEntry
<1>3. ListTypes /\ ListedOnce /\ SelfIsListed /\ FamilyIsKept /\ Handover
  BY DEF ListInv, Listing
<1>4. p \in Pids
  BY <1>3 DEF ListTypes
<1>5. \A e \in truth' : e \in ProcessInfo
  <2>1. parent[p] \in Pids \cup {0}
    BY <1>3, <1>4 DEF ListTypes
  <2>2. parent[p] # 0 =>
          [process_id |-> p, parent_process_id |-> parent[p]] \in ProcessInfo
    BY <1>4, <2>1 DEF ProcessInfo
  <2> QED
    BY <1>1, <1>3, <2>2 DEF ListTypes
<1>6. /\ total_processes \in Nat
      /\ DOMAIN all_processes = 1 .. total_processes
  BY <1>3 DEF ListTypes, total_processes
<1>7. processes_allocated \in Nat \ {0} /\ total_processes <= processes_allocated
  BY DEF ListInv, Listing, ListTypes
<1>8. /\ processes_allocated' \in Nat \ {0}
      /\ total_processes + 1 <= processes_allocated'
      /\ total_processes <= processes_allocated'
  BY <1>2, <1>6, <1>7 DEF Grow
<1>9. /\ all_processes' \in Seq(ProcessInfo)
      /\ total_processes' <= processes_allocated'
      /\ ListedOnce'
  <2>1. CASE all_processes' = all_processes
    <3>1. total_processes' = total_processes
      BY <2>1 DEF total_processes
    <3>2. ListedOnce'
      BY <1>1, <1>3, <2>1, <3>1 DEF ListedOnce, Id
    <3> QED
      BY <1>3, <1>8, <2>1, <3>1, <3>2 DEF ListTypes
  <2>2. ASSUME NEW e \in truth', e.process_id = p,
               all_processes' = Append(all_processes, e)
        PROVE  /\ all_processes' \in Seq(ProcessInfo)
               /\ total_processes' <= processes_allocated'
               /\ ListedOnce'
    <3>1. e \in ProcessInfo
      BY <1>5
    <3>2. all_processes \in Seq(ProcessInfo)
      BY <1>3 DEF ListTypes
    <3>3. all_processes' \in Seq(ProcessInfo)
      BY <2>2, <3>1, <3>2
    <3>4. total_processes' = total_processes + 1
      BY <2>2, <3>2 DEF total_processes
    <3>5. PICK n \in Nat : n = total_processes
      BY <1>6
    <3>6. /\ \A k \in 1 .. n : all_processes'[k] = all_processes[k]
          /\ all_processes'[n + 1] = e
      BY <2>2, <3>2, <3>5 DEF total_processes
    <3>7. \A k \in 1 .. n : Id(k)' = Id(k) /\ Id(k) \notin unread
      BY <1>3, <3>5, <3>6 DEF Id, ListedOnce
    <3>8. Id(n + 1)' = p
      BY <2>2, <3>6 DEF Id
    <3>9. \A k \in 1 .. total_processes' : k \in 1 .. n \/ k = n + 1
      BY <3>4, <3>5
    <3>10. p \in unread /\ unread' = unread \ {p}
      BY <1>1
    <3>11. ASSUME NEW k \in 1 .. total_processes' PROVE Id(k)' \notin unread'
      <4>1. CASE k \in 1 .. n
        BY <3>7, <3>10, <4>1
      <4>2. CASE k = n + 1
        BY <3>8, <3>10, <4>2
      <4> QED
        BY <3>9, <4>1, <4>2
    <3>12. ASSUME NEW k \in 1 .. total_processes', NEW m \in 1 .. total_processes',
                  Id(k)' = Id(m)'
           PROVE  k = m
      <4>1. CASE k \in 1 .. n /\ m \in 1 .. n
        <5>1. Id(k) = Id(m)
          BY <3>7, <3>12, <4>1
        <5> QED
          BY <1>3, <3>5, <4>1, <5>1 DEF ListedOnce
      <4>2. CASE k \in 1 .. n /\ m = n + 1
        BY <3>7, <3>8, <3>10, <3>12, <4>2
      <4>3. CASE k = n + 1 /\ m \in 1 .. n
        BY <3>7, <3>8, <3>10, <3>12, <4>3
      <4> QED
        BY <3>9, <4>1, <4>2, <4>3
    <3>13. ListedOnce'
      BY <3>11, <3>12 DEF ListedOnce
    <3> QED
      BY <1>8, <3>3, <3>4, <3>13
  <2> QED
    BY <1>1, <2>1, <2>2
<1>10. SelfIsListed'
  <2>1. CASE p = Self
    <3> DEFINE e == [process_id |-> Self, parent_process_id |-> parent[Self]]
    <3>1. Self \in alive /\ parent[Self] # 0
      BY <1>3 DEF SelfIsListed
    <3>2. e \in truth' /\ e.process_id = Self
      BY <1>1, <2>1, <3>1
    <3> QED
      BY <1>2, <3>1, <3>2 DEF SelfIsListed
  <2>2. CASE p # Self
    <3>1. Self \in unread => Self \in unread'
      BY <1>1, <2>2
    <3>2. truth \subseteq truth'
      BY <1>1
    <3> QED
      BY <1>2, <1>3, <3>1, <3>2 DEF SelfIsListed
  <2> QED
    BY <2>1, <2>2
<1>11. FamilyIsKept'
  <2>1. PICK S \in SUBSET Pids : IsBelow(S, RelationOf(parent)) /\ IsBelow(S, truth)
    BY <1>3 DEF FamilyIsKept
  <2>2. [process_id |-> p, parent_process_id |-> parent[p]] \in RelationOf(parent)
    BY <1>4 DEF RelationOf
  <2>3. IsBelow(S, truth')
    BY <1>1, <2>1, <2>2 DEF IsBelow
  <2>4. IsBelow(S, RelationOf(parent'))
    BY <1>2, <2>1
  <2> QED
    BY <2>3, <2>4 DEF FamilyIsKept, IsBelow, RelationOf
<1>12. ListTypes'
  <2>1. unread' \subseteq Pids
    BY <1>1, <1>3 DEF ListTypes
  <2> QED
    BY <1>2, <1>3, <1>5, <1>8, <1>9, <2>1 DEF ListTypes
<1>13. Handover'
  BY <1>2, <1>3 DEF Handover, Untouched
<1> QED
  BY <1>9, <1>10, <1>11, <1>12, <1>13 DEF ListInv, Listing
LEMMA QuietStep == ListInv /\ (SkipEntry \/ AllocationFails) => ListInv'
<1> SUFFICES ASSUME ListInv, SkipEntry \/ AllocationFails PROVE ListInv'
  OBVIOUS
<1>1. /\ UNCHANGED <<vars, alive, parent, comm, unread, truth, ends>>
      /\ stage = "list" /\ stage' \in {"list", "failed"}
  BY DEF SkipEntry, AllocationFails
<1>2. total_processes' = total_processes /\ total_processes \in Nat
  BY <1>1 DEF vars, total_processes, ListInv, Listing, ListTypes
<1>3. processes_allocated' \in Nat \ {0} /\ total_processes' <= processes_allocated'
  BY <1>2 DEF SkipEntry, AllocationFails, Grow, ListInv, Listing, ListTypes
<1>4. ListTypes'
  BY <1>1, <1>3 DEF vars, ListInv, Listing, ListTypes
<1>5. ListedOnce'
  BY <1>1, <1>2 DEF vars, ListInv, Listing, ListedOnce, Id
<1>6. SelfIsListed'
  BY <1>1 DEF ListInv, Listing, SelfIsListed
<1>7. FamilyIsKept'
  BY <1>1 DEF ListInv, Listing, FamilyIsKept, IsBelow, RelationOf
<1>8. Handover'
  BY <1>1 DEF vars, ListInv, Handover, Untouched
<1> QED
  BY <1>3, <1>4, <1>5, <1>6, <1>7, <1>8 DEF ListInv, Listing

-----------------------------------------------------------------------------
(* From stage 1 to stage 2. *)

LEMMA TableIsRead ==
  ASSUME Listing, ReadsRealParent, unread \cap alive = {}
  PROVE  IsProcessTable(all_processes)
<1>1. /\ all_processes \in Seq(ProcessInfo)
      /\ DOMAIN all_processes = 1 .. total_processes
  BY DEF Listing, ListTypes, total_processes
<1>2. \A k, m \in DOMAIN all_processes :
        all_processes[k].process_id = all_processes[m].process_id => k = m
  BY <1>1 DEF Listing, ListedOnce, Id
<1>3. PICK S \in SUBSET Pids : IsBelow(S, truth)
  BY DEF Listing, FamilyIsKept
<1>4. \A k \in DOMAIN all_processes :
        all_processes[k].parent_process_id \in S \cup {Root} => all_processes[k].process_id \in S
  BY <1>3 DEF ReadsRealParent, IsBelow
<1>5. Descendants(all_processes) \subseteq S
  BY <1>4 DEF Descendants
<1>6. Root \notin Descendants(all_processes)
  BY <1>3, <1>5 DEF IsBelow
<1>7. PICK e \in truth : e.process_id = Self
  BY DEF Listing, SelfIsListed
<1>8. PICK k \in DOMAIN all_processes : all_processes[k] = e
  BY DEF ReadsRealParent
<1>9. all_processes[k].process_id \notin Descendants(all_processes)
  BY <1>3, <1>5, <1>7, <1>8 DEF IsBelow
<1> QED
  BY <1>1, <1>2, <1>6, <1>9 DEF IsProcessTable

LEMMA ListingFrame ==
  ASSUME Listing, stage' \in {"list", "scan", "failed"},
         UNCHANGED <<all_processes, alive, parent, comm, unread, processes_allocated, truth, ends>>
  PROVE  Listing'
<1>1. total_processes' = total_processes
  BY DEF total_processes
<1>2. ListTypes'
  BY DEF Listing, ListTypes
<1>3. ListedOnce'
  BY <1>1 DEF Listing, ListedOnce, Id
<1>4. SelfIsListed'
  BY DEF Listing, SelfIsListed
<1>5. FamilyIsKept'
  BY DEF Listing, FamilyIsKept, IsBelow, RelationOf
<1> QED
  BY <1>1, <1>2, <1>3, <1>4, <1>5 DEF Listing

LEMMA StartScanStep == ListInv /\ ReadsRealParent /\ StartScan => ListInv'
<1> SUFFICES ASSUME ListInv, ReadsRealParent, StartScan PROVE ListInv'
  OBVIOUS
<1>1. /\ UNCHANGED <<vars, alive, parent, comm, unread, processes_allocated, truth, ends>>
      /\ stage = "list" /\ stage' = "scan" /\ unread \cap alive = {}
  BY DEF StartScan
<1>2. IInv
  BY <1>1, TableIsRead, BeginIInv DEF ListInv, Handover
<1>3. IInv'
  BY <1>1, <1>2, StepIInv
<1>4. Handover'
  BY <1>1, <1>3 DEF Handover
<1>5. Listing'
  BY <1>1, ListingFrame DEF vars, ListInv
<1> QED
  BY <1>4, <1>5 DEF ListInv

LEMMA UnchangedStep == ListInv /\ UNCHANGED allVars => ListInv'
<1> SUFFICES ASSUME ListInv, UNCHANGED allVars PROVE ListInv'
  OBVIOUS
<1>1. /\ UNCHANGED vars
      /\ UNCHANGED <<all_processes, found, checked_process_id, pass, entry, done>>
      /\ UNCHANGED <<alive, parent, comm, unread, processes_allocated, stage, truth, ends>>
  BY DEF allVars, listVars, vars
<1>2. Listing'
  BY <1>1, ListingFrame DEF ListInv, Listing, ListTypes
<1>3. stage' # "scan" => Untouched'
  BY <1>1 DEF ListInv, Handover, Untouched
<1>4. stage' = "scan" => IInv'
  <2>1. stage = "scan" => IInv
    BY DEF ListInv, Handover
  <2> QED
    BY <1>1, <2>1, StepIInv
<1>5. Handover'
  BY <1>3, <1>4 DEF Handover
<1> QED
  BY <1>2, <1>5 DEF ListInv

LEMMA ScanStep == ListInv /\ Scan => ListInv'
<1> SUFFICES ASSUME ListInv, Scan PROVE ListInv'
  OBVIOUS
<1>1. /\ Next /\ stage = "scan" /\ stage' = "scan"
      /\ UNCHANGED <<alive, parent, comm, unread, processes_allocated, stage, truth, ends>>
  BY DEF Scan, listVars
<1>2. all_processes' = all_processes
  BY <1>1 DEF Next, CheckEntry, NextPass
<1>3. Listing'
  BY <1>1, <1>2, ListingFrame DEF ListInv
<1>4. IInv
  BY <1>1 DEF ListInv, Handover
<1>5. IInv'
  BY <1>1, <1>4, StepIInv
<1>6. Handover'
  BY <1>1, <1>5 DEF Handover
<1> QED
  BY <1>3, <1>6 DEF ListInv

LEMMA ListInvariance == ListSpec /\ []ReadsRealParent => []ListInv
<1>1. ListInit => ListInv
  BY ListingBegins
<1>2. ListInv /\ ReadsRealParent /\ ReadsRealParent' /\ [ListNext]_allVars => ListInv'
  BY ProcessEndsStep, ReadEntryStep, QuietStep, StartScanStep, ScanStep, UnchangedStep DEF ListNext
<1> QED
  BY <1>1, <1>2, PTL DEF ListSpec

-----------------------------------------------------------------------------
(* What follows from the invariant. *)

LEMMA ListTypeOKHolds == ListInv => ListTypeOK
<1> SUFFICES ASSUME ListInv PROVE ListTypeOK
  OBVIOUS
<1>1. TypeOK
  <2>1. CASE stage = "scan"
    BY <2>1, TypeOKHolds DEF ListInv, Handover
  <2>2. CASE stage # "scan"
    <3>1. Untouched /\ all_processes \in Seq(ProcessInfo)
      BY <2>2 DEF ListInv, Listing, ListTypes, Handover
    <3>2. found \in Seq(Pids)
      BY <3>1 DEF Untouched
    <3>3. checked_process_id \in Pids \cup {Uninitialized}
      BY <3>1 DEF Untouched
    <3>4. pass \in Nat \ {0} /\ entry \in Nat \ {0}
      BY <3>1 DEF Untouched
    <3>5. done \in BOOLEAN
      BY <3>1 DEF Untouched
    <3> QED
      BY <3>1, <3>2, <3>3, <3>4, <3>5 DEF TypeOK
  <2> QED
    BY <2>1, <2>2
<1> QED
  BY <1>1 DEF ListInv, Listing, ListTypes, ListTypeOK

LEMMA ScanHolds ==
  ListInv => StaysInsideArray /\ NeverComparesUninitialized /\ FindsDescendants
<1> SUFFICES ASSUME ListInv
             PROVE  StaysInsideArray /\ NeverComparesUninitialized /\ FindsDescendants
  OBVIOUS
<1>1. CASE stage = "scan"
  BY <1>1, StaysInsideHolds, NeverComparesHolds, FindsDescendantsHolds DEF ListInv, Handover
<1>2. CASE stage # "scan"
  <2>1. Untouched
    BY <1>2 DEF ListInv, Handover
  <2>2. total_processes \in Nat
    BY DEF ListInv, Listing, ListTypes, total_processes
  <2>3. Len(found) = 0 /\ pass = 1
    BY <2>1 DEF Untouched
  <2>4. StaysInsideArray
    BY <2>2, <2>3 DEF StaysInsideArray
  <2>5. NeverComparesUninitialized /\ FindsDescendants
    BY <2>1 DEF Untouched, NeverComparesUninitialized, FindsDescendants
  <2> QED
    BY <2>4, <2>5
<1> QED
  BY <1>1, <1>2

\* What a step of the program does in stage 2.
ScanComesCloser == stage = "scan" => ScanRank \in Nat /\ ScanRank' < ScanRank

LEMMA RankIsUsed == ListInv /\ [ListNext]_allVars => [ScanComesCloser]_allVars
<1> SUFFICES ASSUME ListInv, ListNext, stage = "scan"
             PROVE  ScanRank \in Nat /\ ScanRank' < ScanRank
  BY DEF ScanComesCloser
<1>1. Scan
  BY DEF ListNext, ReadEntry, SkipEntry, AllocationFails, StartScan, ProcessEnds
<1>2. IInv /\ Next
  BY <1>1 DEF Scan, ListInv, Handover
<1> QED
  BY <1>2, RankIsNatural, StepsUseRank

-----------------------------------------------------------------------------
(* That ProcessTree says of the scan what becomes of it. *)

\* What ProcessTree supposes of its constants is so.
LEMMA TreeIsFit ==
  /\ Root \in Others /\ {Self} \subseteq Others \ {Root} /\ {} \subseteq Others \ {Root}
  /\ InitProcess \notin Others /\ 0 \notin Others /\ InitProcess # 0
BY ListingAssumption DEF Others

LEMMA ParentsReadAre ==
  ASSUME ListTypes, ListedOnce, NEW p \in Others
  PROVE  /\ \A k \in 1 .. total_processes :
              Id(k) = p => ParentsIn(all_processes)[p] = Parent(k)
         /\ (\A k \in 1 .. total_processes : Id(k) # p) => ParentsIn(all_processes)[p] = 0
<1> DEFINE at == {k \in DOMAIN all_processes : all_processes[k].process_id = p}
<1>1. DOMAIN all_processes = 1 .. total_processes
  BY DEF ListTypes, total_processes
<1>2. at = {k \in 1 .. total_processes : Id(k) = p}
  BY <1>1 DEF Id
<1>3. ParentsIn(all_processes)[p] =
        IF at = {} THEN 0 ELSE all_processes[CHOOSE k \in at : TRUE].parent_process_id
  BY DEF ParentsIn
<1> HIDE DEF at
<1>4. ASSUME NEW k \in 1 .. total_processes, Id(k) = p
      PROVE  ParentsIn(all_processes)[p] = Parent(k)
  <2>1. k \in at
    BY <1>2, <1>4
  <2>2. (CHOOSE m \in at : TRUE) \in at
    BY <2>1
  <2>3. (CHOOSE m \in at : TRUE) = k
    BY <1>2, <1>4, <2>2 DEF ListedOnce
  <2> QED
    BY <1>3, <2>1, <2>3 DEF Parent
<1>5. (\A k \in 1 .. total_processes : Id(k) # p) => at = {}
  BY <1>2
<1> QED
  BY <1>3, <1>4, <1>5

\* One more entry of the array is one more parent that ProcessTree knows.
LEMMA ParentIsAdded ==
  ASSUME NEW table \in Seq(ProcessInfo), NEW e \in ProcessInfo,
         \A k \in DOMAIN table : table[k].process_id # e.process_id
  PROVE  ParentsIn(Append(table, e)) =
           [ParentsIn(table) EXCEPT ![e.process_id] = e.parent_process_id]
<1> DEFINE n == Len(table)
           longer == Append(table, e)
           at(t, p) == {k \in DOMAIN t : t[k].process_id = p}
           parentIn(t, p) ==
             IF at(t, p) = {} THEN 0 ELSE t[CHOOSE k \in at(t, p) : TRUE].parent_process_id
<1>1. /\ n \in Nat /\ DOMAIN table = 1 .. n /\ DOMAIN longer = 1 .. n + 1
      /\ \A k \in 1 .. n : longer[k] = table[k]
      /\ longer[n + 1] = e
  OBVIOUS
<1>2. \A t : ParentsIn(t) = [p \in Others |-> parentIn(t, p)]
  BY DEF ParentsIn
<1> HIDE DEF n, longer
<1>3. ASSUME NEW p, p # e.process_id PROVE parentIn(longer, p) = parentIn(table, p)
  <2>1. at(longer, p) = at(table, p)
    BY <1>1, <1>3
  <2>2. CASE at(table, p) = {}
    BY <2>1, <2>2
  <2>3. CASE at(table, p) # {}
    <3>1. (CHOOSE k \in at(table, p) : TRUE) \in at(table, p)
      BY <2>3
    <3> DEFINE m == CHOOSE k \in at(table, p) : TRUE
    <3>2. longer[m] = table[m]
      BY <1>1, <3>1
    <3>3. parentIn(longer, p) = longer[m].parent_process_id
      BY <2>1, <2>3
    <3>4. parentIn(table, p) = table[m].parent_process_id
      BY <2>3
    <3> QED
      BY <3>2, <3>3, <3>4
  <2> QED
    BY <2>2, <2>3
<1>4. parentIn(longer, e.process_id) = e.parent_process_id
  <2>1. at(longer, e.process_id) = {n + 1}
    BY <1>1
  <2>2. (CHOOSE k \in {n + 1} : TRUE) = n + 1
    OBVIOUS
  <2> QED
    BY <1>1, <2>1, <2>2
<1> HIDE DEF parentIn
<1>5. ParentsIn(longer) = [p \in Others |-> parentIn(longer, p)]
  BY <1>2
<1>6. ParentsIn(table) = [p \in Others |-> parentIn(table, p)]
  BY <1>2
<1>7. ParentsIn(longer) = [ParentsIn(table) EXCEPT ![e.process_id] = e.parent_process_id]
  BY <1>3, <1>4, <1>5, <1>6
<1> QED
  BY <1>7 DEF longer

\* The set that ProcessTree chooses from a table of parents is the one that this
\* module's table determines: init, which ProcessTree does without, is in neither.
LEMMA SameDescendants ==
  ASSUME Listing, Types, ReadsRealParent
  PROVE  Descendants(all_processes) = Tree!Descendants(ParentsIn(all_processes))
<1>1. ListTypes /\ ListedOnce /\ FamilyIsKept
  BY DEF Listing
<1>2. /\ DOMAIN all_processes = 1 .. total_processes
      /\ \A k \in 1 .. total_processes : Id(k) \in Pids /\ Parent(k) \in Pids
  BY TableFacts
<1>3. PICK F \in SUBSET (Pids \ {InitProcess, Root, Self}) : IsBelow(F, truth)
  BY <1>1 DEF FamilyIsKept, IsBelow
<1>4. \A k \in 1 .. total_processes : Parent(k) \in F \cup {Root} => Id(k) \in F
  BY <1>2, <1>3 DEF IsBelow, ReadsRealParent, Id, Parent
<1>5. ASSUME NEW S \in SUBSET Others,
             \A c \in Others : ParentsIn(all_processes)[c] \in S \cup {Root} => c \in S
      PROVE  Descendants(all_processes) \subseteq S \cap F
  <2>1. S \cap F \in SUBSET Pids
    BY <1>3
  <2>2. ASSUME NEW k \in 1 .. total_processes, Parent(k) \in (S \cap F) \cup {Root}
        PROVE  Id(k) \in S \cap F
    <3>1. Id(k) \in F /\ Id(k) \in Others
      BY <1>3, <1>4, <2>2 DEF Others
    <3>2. ParentsIn(all_processes)[Id(k)] = Parent(k)
      BY <1>1, <3>1, ParentsReadAre
    <3> QED
      BY <1>5, <2>2, <3>1, <3>2
  <2> QED
    BY <2>1, <2>2, DescendantsLeast
<1>6. Descendants(all_processes) \subseteq Tree!Descendants(ParentsIn(all_processes))
  <2>1. Descendants(all_processes) \subseteq Others
    <3>1. \A c \in Others : ParentsIn(all_processes)[c] \in Others \cup {Root} => c \in Others
      OBVIOUS
    <3> QED
      BY <1>5, <3>1
  <2> QED
    BY <1>5, <2>1 DEF Tree!Descendants
<1>7. ASSUME NEW p \in Tree!Descendants(ParentsIn(all_processes))
      PROVE  p \in Descendants(all_processes)
  <2> DEFINE S == Descendants(all_processes) \cap Others
  <2>1. ASSUME NEW c \in Others, ParentsIn(all_processes)[c] \in S \cup {Root} PROVE c \in S
    <3>1. ParentsIn(all_processes)[c] \in Pids /\ 0 \notin Pids
      BY <2>1, ListingAssumption DEF Descendants
    <3>2. PICK k \in 1 .. total_processes : Id(k) = c
      BY <1>1, <3>1, ParentsReadAre
    <3>3. Parent(k) = ParentsIn(all_processes)[c]
      BY <1>1, <3>2, ParentsReadAre
    <3>4. Id(k) \in Descendants(all_processes)
      BY <2>1, <3>3, ChildrenDescend
    <3> QED
      BY <3>2, <3>4
  <2>2. S \in SUBSET Others
    OBVIOUS
  <2>3. p \in S
    <3> HIDE DEF S
    <3> QED
      BY <2>1, <2>2 DEF Tree!Descendants
  <2> QED
    BY <2>3
<1> QED
  BY <1>6, <1>7

\* Nothing that is alive is left unread when stage 2 begins.
AllAreRead == stage = "scan" => unread \cap alive = {}

LEMMA AllAreReadStep == AllAreRead /\ [ListNext]_allVars => AllAreRead'
BY DEF AllAreRead, ListNext, ReadEntry, SkipEntry, AllocationFails, StartScan, Scan,
       ProcessEnds, listVars, allVars

\* What is read adds one right entry, or none.
LEMMA ReadsOne ==
  ASSUME ListInv, ReadEntry, ReadsRealParent, ReadsRealParent'
  PROVE  \E p \in unread :
           /\ unread' = unread \ {p}
           /\ all_processes' =
                IF p \in alive /\ parent[p] # 0
                THEN Append(all_processes,
                            [process_id |-> p, parent_process_id |-> parent[p]])
                ELSE all_processes
<1>1. PICK p \in unread :
        /\ unread' = unread \ {p}
        /\ truth' = IF p \in alive /\ parent[p] # 0
                    THEN truth \cup {[process_id |-> p, parent_process_id |-> parent[p]]}
                    ELSE truth
        /\ \/ all_processes' = all_processes
           \/ \E e \in truth' : e.process_id = p /\ all_processes' = Append(all_processes, e)
  BY ReadAppends
<1> DEFINE new == [process_id |-> p, parent_process_id |-> parent[p]]
<1>2. DOMAIN all_processes = 1 .. total_processes
  BY DEF ListInv, Listing, ListTypes, total_processes
<1>3. \A e \in truth : e.process_id # p
  BY <1>1, <1>2 DEF ReadsRealParent, ListInv, Listing, ListedOnce, Id
<1>4. new.process_id = p
  OBVIOUS
<1>5. CASE p \in alive /\ parent[p] # 0
  <2>1. new \in truth' /\ new \notin truth /\ truth' = truth \cup {new}
    BY <1>1, <1>3, <1>4, <1>5
  <2> HIDE DEF new
  <2>2. all_processes' # all_processes
    BY <2>1 DEF ReadsRealParent
  <2>3. all_processes' = Append(all_processes, new)
    BY <1>1, <1>3, <2>1, <2>2
  <2> QED
    BY <1>1, <1>5, <2>3 DEF new
<1>6. CASE ~(p \in alive /\ parent[p] # 0)
  BY <1>1, <1>3, <1>6
<1> QED
  BY <1>1, <1>5, <1>6

\* A step that leaves alone what is mapped is no step of ProcessTree.
LEMMA TreeFrame ==
  UNCHANGED <<all_processes, found, done, alive, parent, unread>> => UNCHANGED Tree!vars
BY DEF Tree!vars, Tree!kernelVars, Tree!programVars, Tree!scanVars

LEMMA ReadEntryIsTreeStep ==
  ASSUME ListInv, ListInv', ReadEntry, ReadsRealParent, ReadsRealParent'
  PROVE  \/ \E p \in Others : Tree!read_parent_process_id(p)
         \/ UNCHANGED Tree!vars
<1>1. PICK p \in unread :
        /\ unread' = unread \ {p}
        /\ all_processes' = IF p \in alive /\ parent[p] # 0
                            THEN Append(all_processes,
                                        [process_id |-> p, parent_process_id |-> parent[p]])
                            ELSE all_processes
  BY ReadsOne
<1>2. UNCHANGED <<found, alive, parent, done>> /\ ~done
  BY DEF ReadEntry, ListInv, Handover, Untouched
<1>3. ListTypes /\ ListedOnce /\ ListTypes' /\ ListedOnce' /\ p \in Pids
  BY <1>1 DEF ListInv, Listing, ListTypes
<1>4. total_processes \in Nat
  BY <1>3 DEF ListTypes, total_processes
<1>5. \A k \in 1 .. total_processes : Id(k) # p
  BY <1>1, <1>3 DEF ListedOnce
<1>6. ASSUME p \in alive
      PROVE  ParentsIn(all_processes') = [ParentsIn(all_processes) EXCEPT ![p] = parent[p]]
  <2>1. all_processes \in Seq(ProcessInfo) /\ parent[p] \in Pids \cup {0}
    BY <1>3 DEF ListTypes
  <2>2. CASE parent[p] # 0
    <3> DEFINE e == [process_id |-> p, parent_process_id |-> parent[p]]
    <3>1. e \in ProcessInfo /\ e.process_id = p /\ e.parent_process_id = parent[p]
      BY <1>3, <2>1, <2>2 DEF ProcessInfo
    <3>2. \A k \in DOMAIN all_processes : all_processes[k].process_id # e.process_id
      BY <1>5, <2>1, <3>1 DEF total_processes, Id
    <3>3. all_processes' = Append(all_processes, e)
      BY <1>1, <1>6, <2>2
    <3> HIDE DEF e
    <3> QED
      BY <2>1, <3>1, <3>2, <3>3, ParentIsAdded
  <2>3. CASE parent[p] = 0
    <3>1. p \in Others => ParentsIn(all_processes)[p] = 0
      BY <1>3, <1>5, ParentsReadAre
    <3>2. all_processes' = all_processes
      BY <1>1, <2>3
    <3>3. ParentsIn(all_processes) = [q \in Others |-> ParentsIn(all_processes)[q]]
      BY DEF ParentsIn
    <3> QED
      BY <2>3, <3>1, <3>2, <3>3
  <2> QED
    BY <2>2, <2>3
<1>7. CASE p \notin alive
  <2>1. unread' \cap alive \cap Others = unread \cap alive \cap Others
    BY <1>1, <1>7
  <2> QED
    BY <1>1, <1>2, <1>7, <2>1 DEF Tree!vars, Tree!kernelVars, Tree!programVars, Tree!scanVars
<1>8. CASE p \in alive /\ p \notin Others
  <2>1. unread' \cap alive \cap Others = unread \cap alive \cap Others
    BY <1>1, <1>8
  <2>2. ParentsIn(all_processes') = ParentsIn(all_processes)
    BY <1>6, <1>8 DEF ParentsIn
  <2> QED
    BY <1>2, <2>1, <2>2 DEF Tree!vars, Tree!kernelVars, Tree!programVars, Tree!scanVars
<1>9. CASE p \in alive /\ p \in Others
  <2>1. unread' \cap alive \cap Others = (unread \cap alive \cap Others) \ {p}
    BY <1>1
  <2>2. Tree!Exists(p)
    BY <1>9 DEF Tree!Exists
  <2>3. Tree!read_parent_process_id(p)
    BY <1>1, <1>2, <1>6, <1>9, <2>1, <2>2
       DEF Tree!read_parent_process_id, Tree!kernelVars, Tree!programVars
  <2> QED
    BY <1>9, <2>3
<1> QED
  BY <1>7, <1>8, <1>9

LEMMA ScanIsTreeStep ==
  ASSUME ListInv, AllAreRead, ReadsRealParent, FindsDescendants', Scan
  PROVE  Tree!get_child_processes \/ UNCHANGED Tree!vars
<1>1. /\ stage = "scan" /\ Next /\ ~done
      /\ UNCHANGED <<all_processes, alive, parent, unread>>
  BY DEF Scan, Next, CheckEntry, NextPass, listVars
<1>2. unread \cap alive \cap Others = {}
  BY <1>1 DEF AllAreRead
<1>3. CASE ~done'
  BY <1>1, <1>3
     DEF Tree!vars, Tree!kernelVars, Tree!programVars, Tree!scanVars
<1>4. CASE done'
  <2>1. Listing /\ Types
    BY <1>1 DEF ListInv, Handover, IInv
  <2>2. {found'[k] : k \in DOMAIN found'} = Descendants(all_processes)
    BY <1>1, <1>4 DEF FindsDescendants
  <2>3. {found'[k] : k \in DOMAIN found'} = Tree!Descendants(ParentsIn(all_processes))
    BY <2>1, <2>2, SameDescendants
  <2> QED
    BY <1>1, <1>2, <1>4, <2>3 DEF Tree!get_child_processes, Tree!kernelVars
<1> QED
  BY <1>3, <1>4

LEMMA TreeIsOpened ==
  ListInit => /\ ParentsIn(all_processes) = [p \in Others |-> 0]
              /\ unread \cap alive \cap Others = {p \in Others : Tree!Exists(p)}
<1> SUFFICES ASSUME ListInit
             PROVE  /\ ParentsIn(all_processes) = [p \in Others |-> 0]
                    /\ unread \cap alive \cap Others = {p \in Others : Tree!Exists(p)}
  OBVIOUS
<1>1. DOMAIN all_processes = {} /\ alive = Pids /\ unread = Pids
  BY DEF ListInit
<1>2. ParentsIn(all_processes) = [p \in Others |-> 0]
  BY <1>1 DEF ParentsIn
<1>3. \A p \in Others : p \in Pids /\ Tree!Exists(p)
  BY <1>1 DEF Others, Tree!Exists
<1>4. unread \cap alive \cap Others = {p \in Others : Tree!Exists(p)}
  BY <1>1, <1>3
<1> QED
  BY <1>2, <1>4

LEMMA StepIsTreeStep ==
  /\ ListInv /\ ListInv' /\ AllAreRead /\ ReadsRealParent /\ ReadsRealParent'
  /\ FindsDescendants' /\ [ListNext]_allVars
  => [TreeStep]_allVars
<1> SUFFICES ASSUME ListInv, ListInv', AllAreRead, ReadsRealParent, ReadsRealParent',
                    FindsDescendants', ListNext
             PROVE  TreeStep
  OBVIOUS
<1>1. CASE ReadEntry
  BY <1>1, ReadEntryIsTreeStep DEF TreeStep
<1>2. CASE SkipEntry \/ AllocationFails \/ StartScan
  BY <1>2, TreeFrame DEF SkipEntry, AllocationFails, StartScan, vars, TreeStep
<1>3. CASE Scan
  BY <1>3, ScanIsTreeStep DEF TreeStep
<1>4. CASE ProcessEnds
  BY <1>4 DEF TreeStep
<1> QED
  BY <1>1, <1>2, <1>3, <1>4 DEF ListNext

-----------------------------------------------------------------------------
\* read_parent_process_id() returns the parent that the kernel wrote, whatever
\* the PIDs and the names are, unless a name has ") " inside.
THEOREM ReadsParents == ASSUME NamesAreReadable PROVE ListSpec => []ReadsRealParent
<1>1. ListInit => ReadTypes /\ IsArray /\ ReadsRealParent
  BY ReadingBegins DEF SizeInv
<1>2. /\ ReadTypes /\ IsArray /\ ReadsRealParent /\ [ListNext]_allVars
      => ReadTypes' /\ IsArray' /\ ReadsRealParent'
  BY ReadTypesStep, ArrayStep, RealParentStep
<1> QED
  BY <1>1, <1>2, PTL DEF ListSpec

\* The array of stage 1 of get_child_processes() is as large as it has to be,
\* from whatever size it starts and whatever was read.
THEOREM GrowsInTime == ListSpec => []StaysInsideAllocation
<1>1. ListInit => SizeInv
  BY ReadingBegins
<1>2. SizeInv /\ [ListNext]_allVars => SizeInv'
  BY SizeStep
<1>3. SizeInv => StaysInsideAllocation
  BY DEF SizeInv, StaysInsideAllocation
<1> QED
  BY <1>1, <1>2, <1>3, PTL DEF ListSpec

\* What get_child_processes() reads and builds keeps its types.
THEOREM ListTypeCorrect == ListSpec /\ []ReadsRealParent => []ListTypeOK
  BY ListInvariance, ListTypeOKHolds, PTL

\* Stage 1 of get_child_processes() gives stage 2 a table that it can work with,
\* whichever processes end while it reads.
THEOREM HandsOver == ListSpec /\ []ReadsRealParent => []HandsOverTable
<1>1. ListInv => HandsOverTable
  BY DEF ListInv, Handover, HandsOverTable, IInv, Types
<1> QED
  BY <1>1, ListInvariance, PTL

\* After any stage 1, the array of get_child_processes() is large enough.
THEOREM ScanStaysInside == ListSpec /\ []ReadsRealParent => []StaysInsideArray
  BY ListInvariance, ScanHolds, PTL

\* After any stage 1, nothing uninitialized is compared.
THEOREM ScanNeverUninitialized ==
  ListSpec /\ []ReadsRealParent => []NeverComparesUninitialized
  BY ListInvariance, ScanHolds, PTL

\* get_child_processes() returns the descendants in what was read, once each,
\* parents first.
THEOREM ReturnsDescendants == ListSpec /\ []ReadsRealParent => []FindsDescendants
  BY ListInvariance, ScanHolds, PTL

\* In stage 2 of get_child_processes() every step of the program uses up one of a
\* bounded number of steps, after any stage 1.
THEOREM ListScanRunsOut == ListSpec /\ []ReadsRealParent => [][ScanComesCloser]_allVars
<1>1. ListInv /\ [ListNext]_allVars => [ScanComesCloser]_allVars
  BY RankIsUsed
<1> QED
  BY <1>1, ListInvariance, PTL DEF ListSpec

\* What ProcessTree makes one step of, the reading of a parent and the choice of the
\* processes to signal, is what the text, the arrays and the loops come to.
THEOREM ListingImplementsTree == ListSpec /\ []ReadsRealParent => ImplementsTree
<1>1. ListInit => AllAreRead
  BY DEF ListInit, AllAreRead
<1>2. ListInv => FindsDescendants
  BY ScanHolds
<1> QED
  BY <1>1, <1>2, TreeIsOpened, ListInvariance, AllAreReadStep, StepIsTreeStep, PTL
     DEF ListSpec, ImplementsTree

\* As long as no name has ") " inside, all of this is so.
THEOREM ListingIsCorrect ==
  ASSUME NamesAreReadable
  PROVE  ListSpec => /\ []ListTypeOK /\ []HandsOverTable
                     /\ []StaysInsideArray /\ []NeverComparesUninitialized
                     /\ []FindsDescendants /\ [][ScanComesCloser]_allVars
                     /\ ImplementsTree
  BY ReadsParents, ListTypeCorrect, HandsOver, ScanStaysInside, ScanNeverUninitialized,
     ReturnsDescendants, ListScanRunsOut, ListingImplementsTree, PTL
=============================================================================
