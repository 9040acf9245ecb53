----------------------------- MODULE DataLemmas -----------------------------
(***************************************************************************)
(* Facts about the data of the model.  Sequences: the queues of the        *)
(* dialogs and the tables of the backend hold elements of one set, however *)
(* they are appended to, joined and cut.  Sums: what a sum over a finite   *)
(* set is when one element is taken out, added or changed, and how the     *)
(* sums of two functions compare.                                          *)
(***************************************************************************)
EXTENDS SequencesExt, SequenceTheorems, FiniteSetTheorems, TLAPS

\* A sequence without one of its elements.
LEMMA Removed ==
  ASSUME NEW S, NEW s \in Seq(S), NEW i \in DOMAIN s
  PROVE  s[i] \in S /\ RemoveAt(s, i) \in Seq(S)
<1>1. /\ Len(s) \in Nat /\ i \in 1..Len(s)
      /\ \A j \in 1..Len(s) : s[j] \in S
  BY LenProperties, ElementOfSeq
<1>2. SubSeq(s, 1, i - 1) \in Seq(S)
  <2>1. 1 \in Int /\ i - 1 \in Int /\ \A j \in 1..(i - 1) : s[j] \in S
    BY <1>1
  <2> QED
    BY <2>1, SubSeqProperties
<1>3. SubSeq(s, i + 1, Len(s)) \in Seq(S)
  <2>1. i + 1 \in Int /\ Len(s) \in Int /\ \A j \in (i + 1)..Len(s) : s[j] \in S
    BY <1>1
  <2> QED
    BY <2>1, SubSeqProperties
<1> QED
  BY <1>1, <1>2, <1>3, ConcatProperties DEF RemoveAt

\* A sequence with one more element.
LEMMA Appended ==
  ASSUME NEW S, NEW s \in Seq(S), NEW e \in S
  PROVE  Append(s, e) \in Seq(S)
  OBVIOUS

\* A sequence with one element replaced.
LEMMA Replaced ==
  ASSUME NEW S, NEW s \in Seq(S), NEW i \in DOMAIN s, NEW e \in S
  PROVE  [s EXCEPT ![i] = e] \in Seq(S)
<1>1. i \in 1..Len(s)
  BY LenProperties
<1> QED
  BY <1>1, ExceptSeq

-----------------------------------------------------------------------------
\* A sequence of whatever elements.
IsSeq(s) == \E S : s \in Seq(S)

\* Its indices.
LEMMA Indices ==
  ASSUME NEW s, IsSeq(s)
  PROVE  Len(s) \in Nat /\ DOMAIN s = 1..Len(s)
  BY LenProperties DEF IsSeq

\* A function on the first n naturals is a sequence.
LEMMA FunctionIsSeq ==
  ASSUME NEW n \in Nat, NEW s, s = [i \in 1..n |-> s[i]]
  PROVE  IsSeq(s) /\ Len(s) = n
<1> DEFINE S == {s[i] : i \in 1..n}
<1>1. s \in [1..n -> S]
  OBVIOUS
<1>2. s \in Seq(S)
  BY <1>1
<1>3. DOMAIN s = 1..n /\ DOMAIN s = 1..Len(s) /\ Len(s) \in Nat
  BY <1>2, LenProperties
<1>4. Len(s) = n
  BY <1>3
<1>5. IsSeq(s)
  BY <1>2 DEF IsSeq
<1> QED
  BY <1>4, <1>5

\* Two sequences have a set in common that holds their elements.
LEMMA CommonSet ==
  ASSUME NEW s, NEW t, IsSeq(s), IsSeq(t)
  PROVE  \E S : s \in Seq(S) /\ t \in Seq(S)
<1>1. PICK A : s \in Seq(A)
  BY DEF IsSeq
<1>2. PICK B : t \in Seq(B)
  BY DEF IsSeq
<1> QED
  BY <1>1, <1>2, SeqMonotonic, A \subseteq A \cup B, B \subseteq A \cup B

\* One sequence after another.
LEMMA Joined ==
  ASSUME NEW s, NEW t, IsSeq(s), IsSeq(t)
  PROVE  /\ IsSeq(s \o t) /\ Len(s \o t) = Len(s) + Len(t)
         /\ \A i \in 1..Len(s) : (s \o t)[i] = s[i]
         /\ \A i \in 1..Len(t) : (s \o t)[Len(s) + i] = t[i]
<1>1. PICK S : s \in Seq(S) /\ t \in Seq(S)
  BY CommonSet
<1>2. Len(s) \in Nat /\ Len(t) \in Nat
  BY Indices
<1>3. \A i \in 1..Len(s) + Len(t) :
        (s \o t)[i] = IF i <= Len(s) THEN s[i] ELSE t[i - Len(s)]
  BY <1>1, ConcatProperties
<1>4. IsSeq(s \o t) /\ Len(s \o t) = Len(s) + Len(t)
  BY <1>1, ConcatProperties DEF IsSeq
<1>5. ASSUME NEW i \in 1..Len(t)
      PROVE  (s \o t)[Len(s) + i] = t[i]
  <2>1. Len(s) + i \in 1..Len(s) + Len(t) /\ ~(Len(s) + i <= Len(s))
        /\ (Len(s) + i) - Len(s) = i
    BY <1>2
  <2> QED
    BY <1>3, <2>1
<1> QED
  BY <1>2, <1>3, <1>4, <1>5

\* One more element of any kind.
LEMMA Extended ==
  ASSUME NEW s, NEW e, IsSeq(s)
  PROVE  IsSeq(Append(s, e))
<1>1. PICK S : s \in Seq(S)
  BY DEF IsSeq
<1>2. s \in Seq(S \cup {e})
  BY <1>1, SeqMonotonic
<1> QED
  BY <1>2, Appended DEF IsSeq

-----------------------------------------------------------------------------
(***************************************************************************)
(* Induction over finite sets.                                             *)
(***************************************************************************)
\* Any subsets of a finite set have a smallest one: what induction is here.
LEMMA SmallestSet ==
  ASSUME NEW S, IsFiniteSet(S), NEW C, C \subseteq SUBSET S, C # {}
  PROVE  \E T \in C : \A U \in C : U \subseteq T => U = T
<1> DEFINE R == StrictSubsetOrdering(S)
<1>1. IsWellFoundedOn(R, SUBSET S)
  BY FS_StrictSubsetOrderingWellFounded, FS_FiniteSubsetsOfFinite
<1> HIDE DEF R
<1>2. PICK T \in C : \A U \in C : ~(<<U, T>> \in R)
  BY <1>1, WFMin
<1> QED
  BY <1>2 DEF R, StrictSubsetOrdering

\* What holds of the empty set, and of a set with one more element when it holds
\* of the set, holds of a finite set.
LEMMA SetInduction ==
  ASSUME NEW S, IsFiniteSet(S), NEW G, {} \in G,
         \A T \in SUBSET S : \A x \in S \ T : T \in G => T \cup {x} \in G
  PROVE  S \in G
<1> DEFINE C == {T \in SUBSET S : T \notin G}
<1>1. SUFFICES ASSUME C # {} PROVE FALSE
  OBVIOUS
<1>2. PICK T \in C : \A U \in C : U \subseteq T => U = T
  <2>1. C \subseteq SUBSET S
    OBVIOUS
  <2> HIDE DEF C
  <2> QED
    BY <1>1, <2>1, SmallestSet
<1>3. PICK x \in T : TRUE
  BY <1>2
<1>4. T \ {x} \in G /\ (T \ {x}) \cup {x} = T /\ T \ {x} \in SUBSET S /\ x \in S \ (T \ {x})
  BY <1>2, <1>3
<1> QED
  BY <1>2, <1>4

\* A finite set has an element that ranks highest.
LEMMA HighestOf ==
  ASSUME NEW S, IsFiniteSet(S), S # {}, NEW f, \A x \in S : f[x] \in Int
  PROVE  \E x \in S : \A y \in S : f[y] <= f[x]
<1> DEFINE G == {T \in SUBSET S : T # {} => \E x \in T : \A y \in T : f[y] <= f[x]}
<1>1. {} \in G
  OBVIOUS
<1>2. ASSUME NEW T \in SUBSET S, NEW x \in S \ T, T \in G
      PROVE  T \cup {x} \in G
  <2>1. CASE T = {}
    BY <2>1
  <2>2. CASE T # {}
    <3>1. PICK y \in T : \A z \in T : f[z] <= f[y]
      BY <1>2, <2>2
    <3>2. CASE f[x] <= f[y]
      BY <3>1, <3>2
    <3>3. CASE f[y] <= f[x]
      <4>1. \A z \in T \cup {x} : f[z] <= f[x]
        BY <3>1, <3>3
      <4> QED
        BY <4>1
    <3> QED
      BY <3>2, <3>3
  <2> QED
    BY <2>1, <2>2
<1> HIDE DEF G
<1>3. S \in G
  BY <1>1, <1>2, SetInduction
<1> QED
  BY <1>3 DEF G

\* A finite set of integers has a least element.
LEMMA LeastOf ==
  ASSUME NEW S, IsFiniteSet(S), S \subseteq Int, S # {}
  PROVE  \E i \in S : \A j \in S : i <= j
<1> DEFINE f == [i \in S |-> -i]
<1>1. \A i \in S : f[i] \in Int /\ f[i] = -i
  OBVIOUS
<1> HIDE DEF f
<1>2. PICK i \in S : \A j \in S : f[j] <= f[i]
  BY <1>1, HighestOf
<1>3. \A j \in S : i <= j
  BY <1>1, <1>2
<1> QED
  BY <1>3

\* What holds of 0, and of each number after one it holds of, holds of all numbers.
LEMMA Counting ==
  ASSUME NEW S, 0 \in S, \A n \in Nat : n \in S => n + 1 \in S
  PROVE  Nat \subseteq S
<1> SUFFICES ASSUME NEW n \in Nat, n \notin S PROVE FALSE
  OBVIOUS
<1>1. PICK C : C = (0..n) \ S
  OBVIOUS
<1>2. IsFiniteSet(C) /\ C \subseteq Int /\ C # {}
  <2>1. IsFiniteSet(0..n)
    BY FS_Interval
  <2>2. IsFiniteSet(C)
    BY <1>1, <2>1, FS_Subset
  <2> QED
    BY <1>1, <2>2
<1>3. PICK k \in C : \A j \in C : k <= j
  BY <1>2, LeastOf
<1>4. k \in 0..n /\ k # 0 /\ k \notin S
  BY <1>1
<1>5. k - 1 \in Nat /\ k - 1 \in 0..n /\ (k - 1) + 1 = k /\ ~(k <= k - 1)
  BY <1>4
<1>6. k - 1 \in S
  BY <1>1, <1>3, <1>5
<1> QED
  BY <1>4, <1>5, <1>6

-----------------------------------------------------------------------------
(***************************************************************************)
(* Sums.                                                                   *)
(***************************************************************************)
AnElement(s) == CHOOSE x \in s : TRUE

\* What SumFunctionOnSet defines recursively, for the subsets of S.
Sums(S, f, iter) ==
  iter = [s \in SUBSET S |-> IF s = {} THEN 0 ELSE f[AnElement(s)] + iter[s \ {AnElement(s)}]]

\* The prover sees a recursive function as the choice of one.
LEMMA SumIsChosen ==
  ASSUME NEW f, NEW S
  PROVE  SumFunctionOnSet(f, S) = (CHOOSE iter : Sums(S, f, iter))[S]
  BY Zenon DEF SumFunctionOnSet, FoldFunctionOnSet, MapThenFoldSet, Sums, AnElement

\* There is at most one such function.
LEMMA SumsAgree ==
  ASSUME NEW f, NEW S, IsFiniteSet(S), NEW T, NEW g, NEW h,
         Sums(S, f, g), Sums(T, f, h), NEW U, U \subseteq S, U \subseteq T
  PROVE  g[U] = h[U]
<1> DEFINE C == {V \in SUBSET U : g[V] # h[V]}
<1>0. IsFiniteSet(U)
  BY FS_Subset
<1>1. SUFFICES ASSUME C # {} PROVE FALSE
  OBVIOUS
<1>2. PICK V \in C : \A W \in C : W \subseteq V => W = V
  <2>1. C \subseteq SUBSET U
    OBVIOUS
  <2> HIDE DEF C
  <2> QED
    BY <1>0, <1>1, <2>1, SmallestSet
<1>3. V \in SUBSET S /\ V \in SUBSET T
  OBVIOUS
<1>4. g[V] = IF V = {} THEN 0 ELSE f[AnElement(V)] + g[V \ {AnElement(V)}]
  BY <1>3 DEF Sums
<1>5. h[V] = IF V = {} THEN 0 ELSE f[AnElement(V)] + h[V \ {AnElement(V)}]
  BY <1>3 DEF Sums
<1>6. V # {} => AnElement(V) \in V
  BY DEF AnElement
<1>7. V # {} => g[V \ {AnElement(V)}] = h[V \ {AnElement(V)}]
  BY <1>2, <1>6
<1> QED
  BY <1>4, <1>5, <1>7

\* There is one.
LEMMA SumsExist ==
  ASSUME NEW f, NEW S, IsFiniteSet(S)
  PROVE  \E iter : Sums(S, f, iter)
<1> DEFINE C == {T \in SUBSET S : ~ \E iter : Sums(T, f, iter)}
<1>1. SUFFICES ASSUME C # {} PROVE FALSE
  OBVIOUS
<1>2. PICK T \in C : \A U \in C : U \subseteq T => U = T
  <2>1. C \subseteq SUBSET S
    OBVIOUS
  <2> HIDE DEF C
  <2> QED
    BY <1>1, <2>1, SmallestSet
<1> DEFINE Known(U) == SumFunctionOnSet(f, U)
           iter == [s \in SUBSET T |-> IF s = {} THEN 0
                                       ELSE f[AnElement(s)] + Known(s \ {AnElement(s)})]
<1>3. ASSUME NEW U \in SUBSET T, U # T
      PROVE  Known(U) = IF U = {} THEN 0 ELSE f[AnElement(U)] + Known(U \ {AnElement(U)})
  <2> DEFINE g == CHOOSE g : Sums(U, f, g)
  <2>1. Sums(U, f, g)
    BY <1>2, <1>3
  <2>2. Known(U) = g[U]
    BY SumIsChosen
  <2>3. g[U] = IF U = {} THEN 0 ELSE f[AnElement(U)] + g[U \ {AnElement(U)}]
    BY <2>1 DEF Sums
  <2>4. ASSUME U # {} PROVE g[U \ {AnElement(U)}] = Known(U \ {AnElement(U)})
    <3> DEFINE W == U \ {AnElement(U)}
               h == CHOOSE h : Sums(W, f, h)
    <3>1. W \in SUBSET T /\ W # T /\ W \subseteq U
      BY <1>3
    <3>2. Sums(W, f, h)
      BY <1>2, <3>1
    <3>3. IsFiniteSet(W) /\ IsFiniteSet(U)
      BY FS_Subset, <3>1
    <3> HIDE DEF W, h, g
    <3>4. h[W] = g[W]
      BY <3>1, <3>2, <3>3, <2>1, SumsAgree
    <3>5. Known(W) = h[W]
      BY SumIsChosen DEF h
    <3> QED
      BY <3>4, <3>5 DEF W
  <2> QED
    BY <2>2, <2>3, <2>4
<1>4. ASSUME NEW s \in SUBSET T, s # {}
      PROVE  iter[s \ {AnElement(s)}] = Known(s \ {AnElement(s)})
  <2>1. AnElement(s) \in s
    BY <1>4 DEF AnElement
  <2>2. s \ {AnElement(s)} \in SUBSET T /\ s \ {AnElement(s)} # T
    BY <2>1
  <2> QED
    BY <2>2, <1>3
<1>5. Sums(T, f, iter)
  <2> HIDE DEF Known
  <2> QED
    BY <1>4 DEF Sums
<1> QED
  BY <1>2, <1>5

\* The sum over a finite set satisfies its equation.
LEMMA SumUnfolds ==
  ASSUME NEW f, NEW S, IsFiniteSet(S)
  PROVE  SumFunctionOnSet(f, S) = IF S = {} THEN 0
           ELSE f[AnElement(S)] + SumFunctionOnSet(f, S \ {AnElement(S)})
<1> DEFINE W == S \ {AnElement(S)}
<1>1. PICK g : Sums(S, f, g) /\ SumFunctionOnSet(f, S) = g[S]
  BY SumsExist, SumIsChosen
<1>2. IsFiniteSet(W) /\ W \subseteq W /\ W \subseteq S
  BY FS_Subset
<1>3. PICK h : Sums(W, f, h) /\ SumFunctionOnSet(f, W) = h[W]
  BY <1>2, SumsExist, SumIsChosen
<1> HIDE DEF W
<1>4. h[W] = g[W]
  BY <1>1, <1>2, <1>3, SumsAgree
<1>5. g[S] = IF S = {} THEN 0 ELSE f[AnElement(S)] + g[S \ {AnElement(S)}]
  BY <1>1 DEF Sums
<1> QED
  BY <1>1, <1>3, <1>4, <1>5 DEF W

-----------------------------------------------------------------------------
\* A sum of integers is an integer, of naturals a natural.
LEMMA SumType ==
  ASSUME NEW S, IsFiniteSet(S), NEW f, \A x \in S : f[x] \in Int
  PROVE  /\ SumFunctionOnSet(f, S) \in Int
         /\ (\A x \in S : f[x] >= 0) => SumFunctionOnSet(f, S) >= 0
<1> DEFINE OK(T) == /\ SumFunctionOnSet(f, T) \in Int
                    /\ (\A x \in T : f[x] >= 0) => SumFunctionOnSet(f, T) >= 0
           C == {T \in SUBSET S : ~OK(T)}
<1>1. SUFFICES ASSUME C # {} PROVE FALSE
  OBVIOUS
<1>2. PICK T \in C : \A U \in C : U \subseteq T => U = T
  <2>1. C \subseteq SUBSET S
    OBVIOUS
  <2> HIDE DEF C
  <2> QED
    BY <1>1, <2>1, SmallestSet
<1> DEFINE x == AnElement(T)
<1>3. SumFunctionOnSet(f, T) = IF T = {} THEN 0 ELSE f[x] + SumFunctionOnSet(f, T \ {x})
  BY FS_Subset, SumUnfolds
<1>4. T # {} => x \in T
  BY DEF AnElement
<1>5. T # {} => OK(T \ {x})
  BY <1>2, <1>4
<1> HIDE DEF x
<1> QED
  BY <1>2, <1>3, <1>4, <1>5

\* Any element may be taken out of a sum.
LEMMA SumWithout ==
  ASSUME NEW S, IsFiniteSet(S), NEW f, \A x \in S : f[x] \in Int, NEW x \in S
  PROVE  SumFunctionOnSet(f, S) = f[x] + SumFunctionOnSet(f, S \ {x})
<1> DEFINE OK(T) == \A y \in T : SumFunctionOnSet(f, T)
                                   = f[y] + SumFunctionOnSet(f, T \ {y})
           C == {T \in SUBSET S : ~OK(T)}
<1>1. SUFFICES ASSUME C # {} PROVE FALSE
  OBVIOUS
<1>2. PICK T \in C : \A U \in C : U \subseteq T => U = T
  <2>1. C \subseteq SUBSET S
    OBVIOUS
  <2> HIDE DEF C
  <2> QED
    BY <1>1, <2>1, SmallestSet
<1>3. PICK y \in T : SumFunctionOnSet(f, T) # f[y] + SumFunctionOnSet(f, T \ {y})
  BY <1>2
<1> DEFINE p == AnElement(T)
<1>4. p \in T /\ SumFunctionOnSet(f, T) = f[p] + SumFunctionOnSet(f, T \ {p})
  BY <1>3, FS_Subset, SumUnfolds DEF AnElement
<1> HIDE DEF p
<1>5. p # y
  BY <1>3, <1>4
<1>6. OK(T \ {p}) /\ OK(T \ {y})
  BY <1>2, <1>3, <1>4
<1>7. (T \ {p}) \ {y} = (T \ {y}) \ {p} /\ p \in T \ {y} /\ y \in T \ {p}
  BY <1>4, <1>5
<1>8. SumFunctionOnSet(f, (T \ {p}) \ {y}) \in Int
  BY FS_Subset, SumType
<1>9. f[p] \in Int /\ f[y] \in Int
  BY <1>4
<1> DEFINE rest == SumFunctionOnSet(f, (T \ {p}) \ {y})
<1>10. SumFunctionOnSet(f, T \ {p}) = f[y] + rest
  BY <1>6, <1>7
<1>11. SumFunctionOnSet(f, T \ {y}) = f[p] + rest
  BY <1>6, <1>7
<1> HIDE DEF rest
<1> QED
  BY <1>3, <1>4, <1>8, <1>9, <1>10, <1>11 DEF rest

\* A sum depends on what is summed only.
LEMMA SumAgree ==
  ASSUME NEW S, IsFiniteSet(S), NEW f, NEW g, \A x \in S : f[x] \in Int /\ f[x] = g[x]
  PROVE  SumFunctionOnSet(f, S) = SumFunctionOnSet(g, S)
<1> DEFINE G == {T \in SUBSET S : SumFunctionOnSet(f, T) = SumFunctionOnSet(g, T)}
<1>1. {} \in G
  BY FS_EmptySet, SumUnfolds
<1>2. ASSUME NEW T \in SUBSET S, NEW x \in S \ T, T \in G
      PROVE  T \cup {x} \in G
  <2>1. IsFiniteSet(T \cup {x}) /\ (T \cup {x}) \ {x} = T /\ x \in T \cup {x}
    BY FS_Subset
  <2>2. SumFunctionOnSet(f, T \cup {x}) = f[x] + SumFunctionOnSet(f, T)
    BY <2>1, SumWithout
  <2>3. SumFunctionOnSet(g, T \cup {x}) = g[x] + SumFunctionOnSet(g, T)
    BY <2>1, SumWithout
  <2> QED
    BY <1>2, <2>2, <2>3
<1> HIDE DEF G
<1>3. S \in G
  BY <1>1, <1>2, SetInduction
<1> QED
  BY <1>3 DEF G

\* The empty sum.
LEMMA SumOfNone == ASSUME NEW f PROVE SumFunctionOnSet(f, {}) = 0
BY FS_EmptySet, SumUnfolds

\* One more element.
LEMMA SumWith ==
  ASSUME NEW S, IsFiniteSet(S), NEW f, NEW x, x \notin S,
         \A y \in S \cup {x} : f[y] \in Int
  PROVE  /\ IsFiniteSet(S \cup {x})
         /\ SumFunctionOnSet(f, S \cup {x}) = f[x] + SumFunctionOnSet(f, S)
<1>1. IsFiniteSet(S \cup {x})
  BY FS_AddElement
<1>2. (S \cup {x}) \ {x} = S /\ x \in S \cup {x}
  OBVIOUS
<1>3. SumFunctionOnSet(f, S \cup {x})
        = f[x] + SumFunctionOnSet(f, (S \cup {x}) \ {x})
  BY <1>1, <1>2, SumWithout
<1> QED
  BY <1>1, <1>2, <1>3

\* One element alone.
LEMMA SumOfOne ==
  ASSUME NEW f, NEW x, f[x] \in Int
  PROVE  SumFunctionOnSet(f, {x}) = f[x]
<1>1. /\ IsFiniteSet({x}) /\ {x} \ {x} = {} /\ x \in {x}
      /\ \A y \in {x} : f[y] \in Int
  BY FS_Singleton
<1>2. SumFunctionOnSet(f, {x}) = f[x] + SumFunctionOnSet(f, {})
  BY <1>1, SumWithout
<1> QED
  BY <1>2, SumOfNone

\* Two elements changed.
LEMMA SumTwoChanged ==
  ASSUME NEW S, IsFiniteSet(S), NEW f, NEW g, NEW x \in S, NEW y \in S, x # y,
         \A z \in S : f[z] \in Int /\ g[z] \in Int,
         \A z \in S \ {x, y} : g[z] = f[z]
  PROVE  /\ SumFunctionOnSet(f, S) \in Int
         /\ SumFunctionOnSet(g, S)
              = SumFunctionOnSet(f, S) - f[x] - f[y] + g[x] + g[y]
<1> DEFINE T == S \ {x}
           U == T \ {y}
<1>1. /\ IsFiniteSet(T) /\ IsFiniteSet(U) /\ y \in T
      /\ \A z \in T : f[z] \in Int /\ g[z] \in Int
      /\ \A z \in U : f[z] \in Int /\ f[z] = g[z]
  BY FS_Subset
<1>2. /\ SumFunctionOnSet(f, S) = f[x] + SumFunctionOnSet(f, T)
      /\ SumFunctionOnSet(g, S) = g[x] + SumFunctionOnSet(g, T)
  BY SumWithout
<1> HIDE DEF T
<1>3. /\ SumFunctionOnSet(f, T) = f[y] + SumFunctionOnSet(f, U)
      /\ SumFunctionOnSet(g, T) = g[y] + SumFunctionOnSet(g, U)
  BY <1>1, SumWithout
<1> HIDE DEF U
<1>4. SumFunctionOnSet(f, U) = SumFunctionOnSet(g, U)
  BY <1>1, SumAgree
<1>5. SumFunctionOnSet(f, U) \in Int
  BY <1>1, SumType
<1> QED
  BY <1>2, <1>3, <1>4, <1>5

\* One element changed.
LEMMA SumChanged ==
  ASSUME NEW S, IsFiniteSet(S), NEW f, NEW g, NEW x \in S,
         \A y \in S : f[y] \in Int /\ g[y] \in Int /\ (y # x => g[y] = f[y])
  PROVE  SumFunctionOnSet(g, S) = SumFunctionOnSet(f, S) - f[x] + g[x]
<1>1. IsFiniteSet(S \ {x})
  BY FS_Subset
<1>2. SumFunctionOnSet(f, S \ {x}) = SumFunctionOnSet(g, S \ {x})
  BY <1>1, SumAgree
<1>3. SumFunctionOnSet(f, S) = f[x] + SumFunctionOnSet(f, S \ {x})
  BY SumWithout
<1>4. SumFunctionOnSet(g, S) = g[x] + SumFunctionOnSet(g, S \ {x})
  BY SumWithout
<1>5. SumFunctionOnSet(f, S \ {x}) \in Int
  BY <1>1, SumType
<1> QED
  BY <1>2, <1>3, <1>4, <1>5

\* Two sets without common elements.
LEMMA SumOfBoth ==
  ASSUME NEW S, IsFiniteSet(S), NEW T, IsFiniteSet(T), S \cap T = {},
         NEW f, \A x \in S \cup T : f[x] \in Int
  PROVE  /\ IsFiniteSet(S \cup T)
         /\ SumFunctionOnSet(f, S \cup T)
              = SumFunctionOnSet(f, S) + SumFunctionOnSet(f, T)
<1> DEFINE G == {U \in SUBSET T :
                   SumFunctionOnSet(f, S \cup U)
                     = SumFunctionOnSet(f, S) + SumFunctionOnSet(f, U)}
<1>1. {} \in G
  <2>1. S \cup {} = S /\ SumFunctionOnSet(f, S) \in Int
    BY SumType
  <2> QED
    BY <2>1, SumOfNone
<1>2. ASSUME NEW U \in SUBSET T, NEW x \in T \ U, U \in G
      PROVE  U \cup {x} \in G
  <2>1. IsFiniteSet(U) /\ IsFiniteSet(S \cup U)
    BY FS_Subset, FS_Union
  <2>2. SumFunctionOnSet(f, U \cup {x}) = f[x] + SumFunctionOnSet(f, U)
    BY <2>1, SumWith
  <2>3. x \notin S \cup U
    OBVIOUS
  <2>4. SumFunctionOnSet(f, S \cup (U \cup {x})) = f[x] + SumFunctionOnSet(f, S \cup U)
    <3> DEFINE V == S \cup U
    <3>1. S \cup (U \cup {x}) = V \cup {x} /\ \A y \in V \cup {x} : f[y] \in Int
      OBVIOUS
    <3>2. SumFunctionOnSet(f, V \cup {x}) = f[x] + SumFunctionOnSet(f, V)
      <4> HIDE DEF V
      <4> QED
        BY <2>1, <2>3, <3>1, SumWith DEF V
    <3> QED
      BY <3>1, <3>2
  <2>5. SumFunctionOnSet(f, S) \in Int /\ SumFunctionOnSet(f, U) \in Int
        /\ f[x] \in Int
    BY <2>1, SumType
  <2>6. SumFunctionOnSet(f, S \cup U)
          = SumFunctionOnSet(f, S) + SumFunctionOnSet(f, U)
    BY <1>2
  <2>7. SumFunctionOnSet(f, S \cup (U \cup {x}))
          = SumFunctionOnSet(f, S) + SumFunctionOnSet(f, U \cup {x})
    BY <2>2, <2>4, <2>5, <2>6
  <2> QED
    BY <2>7
<1> HIDE DEF G
<1>3. T \in G
  BY <1>1, <1>2, SetInduction
<1> QED
  BY <1>3, FS_Union DEF G

\* What is no more in any element is no more in sum.
LEMMA SumMonotone ==
  ASSUME NEW S, IsFiniteSet(S), NEW f, NEW g,
         \A x \in S : f[x] \in Int /\ g[x] \in Int /\ f[x] <= g[x]
  PROVE  SumFunctionOnSet(f, S) <= SumFunctionOnSet(g, S)
<1> DEFINE G == {T \in SUBSET S : SumFunctionOnSet(f, T) <= SumFunctionOnSet(g, T)}
<1>1. {} \in G
  BY SumOfNone
<1>2. ASSUME NEW T \in SUBSET S, NEW x \in S \ T, T \in G
      PROVE  T \cup {x} \in G
  <2>1. IsFiniteSet(T)
    BY FS_Subset
  <2>2. SumFunctionOnSet(f, T \cup {x}) = f[x] + SumFunctionOnSet(f, T)
    BY <2>1, SumWith
  <2>3. SumFunctionOnSet(g, T \cup {x}) = g[x] + SumFunctionOnSet(g, T)
    BY <2>1, SumWith
  <2>4. SumFunctionOnSet(f, T) \in Int /\ SumFunctionOnSet(g, T) \in Int
    BY <2>1, SumType
  <2> QED
    BY <1>2, <2>2, <2>3, <2>4
<1> HIDE DEF G
<1>3. S \in G
  BY <1>1, <1>2, SetInduction
<1> QED
  BY <1>3 DEF G

\* An element of a sum of naturals is no more than the sum.
LEMMA SumOfNaturals ==
  ASSUME NEW S, IsFiniteSet(S), NEW f, \A x \in S : f[x] \in Nat, NEW x \in S
  PROVE  f[x] <= SumFunctionOnSet(f, S)
<1>1. IsFiniteSet(S \ {x})
  BY FS_Subset
<1>2. SumFunctionOnSet(f, S) = f[x] + SumFunctionOnSet(f, S \ {x})
  BY SumWithout
<1>3. SumFunctionOnSet(f, S \ {x}) \in Int /\ SumFunctionOnSet(f, S \ {x}) >= 0
  BY <1>1, SumType
<1> QED
  BY <1>2, <1>3

\* Multiples.
LEMMA SumOfMultiples ==
  ASSUME NEW S, IsFiniteSet(S), NEW f, NEW g, NEW c \in Int,
         \A x \in S : f[x] \in Int /\ g[x] = f[x] * c
  PROVE  SumFunctionOnSet(g, S) = SumFunctionOnSet(f, S) * c
<1> DEFINE G == {T \in SUBSET S :
                   SumFunctionOnSet(g, T) = SumFunctionOnSet(f, T) * c}
<1>0. \A a, b \in Int : a * c \in Int /\ (a + b) * c = a * c + b * c
  OBVIOUS
<1>1. {} \in G
  BY SumOfNone
<1>2. ASSUME NEW T \in SUBSET S, NEW x \in S \ T, T \in G
      PROVE  T \cup {x} \in G
  <2>1. IsFiniteSet(T)
    BY FS_Subset
  <2>2. SumFunctionOnSet(f, T \cup {x}) = f[x] + SumFunctionOnSet(f, T)
    BY <2>1, SumWith
  <2>3. \A y \in S : g[y] \in Int
    BY <1>0
  <2>4. SumFunctionOnSet(g, T \cup {x}) = g[x] + SumFunctionOnSet(g, T)
    BY <2>1, <2>3, SumWith
  <2>5. SumFunctionOnSet(f, T) \in Int /\ f[x] \in Int
    BY <2>1, SumType
  <2>6. (f[x] + SumFunctionOnSet(f, T)) * c = f[x] * c + SumFunctionOnSet(f, T) * c
    BY <1>0, <2>5
  <2> QED
    BY <1>2, <2>2, <2>4, <2>6
<1> HIDE DEF G
<1>3. S \in G
  BY <1>1, <1>2, SetInduction
<1> QED
  BY <1>3 DEF G

\* Indices moved up.
LEMMA SumMoved ==
  ASSUME NEW m \in Nat, NEW n \in Nat, NEW f, NEW g,
         \A i \in 1..m : f[i] \in Int /\ g[n + i] = f[i]
  PROVE  SumFunctionOnSet(g, (n + 1)..(n + m)) = SumFunctionOnSet(f, 1..m)
<1> DEFINE Up(T) == {n + i : i \in T}
           G == {T \in SUBSET (1..m) :
                   SumFunctionOnSet(g, Up(T)) = SumFunctionOnSet(f, T)}
<1>0. IsFiniteSet(1..m) /\ IsFiniteSet((n + 1)..(n + m))
  BY FS_Interval
<1>1. {} \in G
  <2>1. Up({}) = {}
    OBVIOUS
  <2> QED
    BY <2>1, SumOfNone
<1>2. ASSUME NEW T \in SUBSET (1..m), NEW x \in (1..m) \ T, T \in G
      PROVE  T \cup {x} \in G
  <2>1. IsFiniteSet(T)
    BY <1>0, FS_Subset
  <2>2. Up(T) \subseteq (n + 1)..(n + m) /\ Up(T \cup {x}) = Up(T) \cup {n + x}
    OBVIOUS
  <2>3. n + x \notin Up(T)
    OBVIOUS
  <2>4. SumFunctionOnSet(f, T \cup {x}) = f[x] + SumFunctionOnSet(f, T)
    BY <2>1, SumWith
  <2>5. IsFiniteSet(Up(T))
    BY <1>0, <2>2, FS_Subset
  <2>6. \A y \in Up(T) \cup {n + x} : g[y] \in Int
    OBVIOUS
  <2> HIDE DEF Up
  <2>7. SumFunctionOnSet(g, Up(T) \cup {n + x}) = g[n + x] + SumFunctionOnSet(g, Up(T))
    BY <2>3, <2>5, <2>6, SumWith
  <2> QED
    BY <1>2, <2>2, <2>4, <2>7
<1>3. 1..m \in G
  <2> HIDE DEF G
  <2> QED
    BY <1>0, <1>1, <1>2, SetInduction
<1>4. Up(1..m) = (n + 1)..(n + m)
  <2>1. ASSUME NEW j \in (n + 1)..(n + m) PROVE j \in Up(1..m)
    <3>1. j - n \in 1..m /\ n + (j - n) = j
      OBVIOUS
    <3> QED
      BY <3>1
  <2> QED
    BY <2>1
<1> QED
  BY <1>3, <1>4

-----------------------------------------------------------------------------
\* Products of integers, for the provers know little of them.
LEMMA Products ==
  /\ \A a, b \in Int : a * b \in Int
  /\ \A a, b \in Nat : a * b \in Nat
OBVIOUS

\* A quotient of integers.
LEMMA Quotients ==
  \A a \in Int, d \in Nat \ {0} : a \div d \in Int /\ (a >= 0 => a \div d >= 0)
OBVIOUS

\* How multiples compare.
LEMMA Multiples ==
  ASSUME NEW d \in Nat \ {0}, NEW u \in Int, NEW v \in Int
  PROVE  /\ d * u \in Int /\ d * v \in Int
         /\ d * u <= d * v <=> u <= v
         /\ d * u < d * v <=> u < v
         /\ d * (u + v) = d * u + d * v /\ d * (u - v) = d * u - d * v
OBVIOUS

\* A quotient is the last multiple not above.
LEMMA QuotientBounds ==
  ASSUME NEW a \in Int, NEW d \in Nat \ {0}
  PROVE  a \div d \in Int /\ d * (a \div d) <= a /\ a < d * (a \div d) + d
OBVIOUS

=============================================================================
