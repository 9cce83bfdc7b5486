----------------------------- MODULE SumProofs -----------------------------
(***************************************************************************)
(* Sums over finite sets, as reports and balances take them: what          *)
(* SumFunctionOnSet comes to, in whatever order it takes the elements.     *)
(* It is defined by recursion, so that each lemma needs an induction over  *)
(* the sets added up: it is by a smallest part of the set for which the    *)
(* lemma fails (SmallestPart), which there is because the strict subsets   *)
(* of a finite set are well-founded.  So are the initial parts of an       *)
(* interval, by which whatever counts up to a number is reasoned about.    *)
(***************************************************************************)
EXTENDS Integers, Functions, FiniteSets, FiniteSetTheorems, WellFoundedInduction, TLAPS

-----------------------------------------------------------------------------
(* The recursion *)

\* The element the recursion takes first.
Chosen(s) == CHOOSE x \in s : TRUE

\* g adds up f over every part of S, taking the chosen element first.
Adds(f, g, S) ==
  g = [s \in SUBSET S |-> IF s = {} THEN 0 ELSE f[Chosen(s)] + g[s \ {Chosen(s)}]]

\* SumFunctionOnSet takes some function that adds up f.
LEMMA SumIsChosen ==
  ASSUME NEW f, NEW S
  PROVE  SumFunctionOnSet(f, S) = (CHOOSE g : Adds(f, g, S))[S]
  BY Zenon DEF SumFunctionOnSet, FoldFunctionOnSet, MapThenFoldSet, Adds, Chosen

\* Of the parts of a finite set that have something in common, one is smallest.
LEMMA SmallestPart ==
  ASSUME NEW S, IsFiniteSet(S), NEW Bad \in SUBSET SUBSET S, Bad # {}
  PROVE  \E T \in Bad : \A U \in Bad : U \subseteq T => U = T
<1>1. IsWellFoundedOn(StrictSubsetOrdering(S), FiniteSubsetsOf(S))
  BY FS_StrictSubsetOrderingWellFounded
<1>2. Bad \subseteq FiniteSubsetsOf(S)
  BY FS_Subset DEF FiniteSubsetsOf
<1>3. PICK T \in Bad : \A U \in Bad : ~ (<<U, T>> \in StrictSubsetOrdering(S))
  BY <1>1, <1>2, WFMin
<1> QED
  BY <1>3 DEF StrictSubsetOrdering

\* A set that is not empty has its chosen element.
LEMMA ChosenIn == ASSUME NEW s, s # {} PROVE Chosen(s) \in s
  BY Zenon DEF Chosen

\* Whatever adds up f over the parts of S and of T agrees on what they share.
LEMMA AddsAgree ==
  ASSUME NEW f, NEW S, NEW T, IsFiniteSet(S), NEW g, NEW h, Adds(f, g, S), Adds(f, h, T), T \subseteq S
  PROVE  \A s \in SUBSET T : g[s] = h[s]
<1> DEFINE Bad == {s \in SUBSET T : g[s] # h[s]}
<1> SUFFICES ASSUME Bad # {} PROVE FALSE
  OBVIOUS
<1>1. PICK s \in Bad : \A u \in Bad : u \subseteq s => u = s
  <2>1. Bad \in SUBSET SUBSET S
    OBVIOUS
  <2> HIDE DEF Bad
  <2> QED
    BY <2>1, SmallestPart
<1>2. /\ g[s] = IF s = {} THEN 0 ELSE f[Chosen(s)] + g[s \ {Chosen(s)}]
      /\ h[s] = IF s = {} THEN 0 ELSE f[Chosen(s)] + h[s \ {Chosen(s)}]
  BY <1>1 DEF Adds
<1>3. s # {}
  BY <1>1, <1>2
<1>4. s \ {Chosen(s)} \in SUBSET T /\ s \ {Chosen(s)} # s
  BY <1>1, <1>3, ChosenIn
<1>5. g[s \ {Chosen(s)}] = h[s \ {Chosen(s)}]
  BY <1>1, <1>4
<1> QED
  BY <1>1, <1>2, <1>5

\* And something does.
LEMMA AddsExists ==
  ASSUME NEW f, NEW S, IsFiniteSet(S)
  PROVE  \E g : Adds(f, g, S)
<1> DEFINE Bad == {T \in SUBSET S : ~ \E g : Adds(f, g, T)}
<1> SUFFICES ASSUME Bad # {} PROVE FALSE
  OBVIOUS
<1>1. PICK T \in Bad : \A U \in Bad : U \subseteq T => U = T
  <2>1. Bad \in SUBSET SUBSET S
    OBVIOUS
  <2> HIDE DEF Bad
  <2> QED
    BY <2>1, SmallestPart
<1> DEFINE H(u) == (CHOOSE g : Adds(f, g, u))[u]
           G    == [s \in SUBSET T |-> IF s = {} THEN 0 ELSE f[Chosen(s)] + H(s \ {Chosen(s)})]
<1>2. \A U \in SUBSET T : U # T => Adds(f, CHOOSE g : Adds(f, g, U), U)
  BY <1>1
<1>3. \A U \in SUBSET T : U # T => G[U] = H(U)
  <2> SUFFICES ASSUME NEW U \in SUBSET T, U # T PROVE G[U] = H(U)
    OBVIOUS
  <2> DEFINE h == CHOOSE g : Adds(f, g, U)
             V == U \ {Chosen(U)}
             k == CHOOSE g : Adds(f, g, V)
  <2>1. Adds(f, h, U)
    BY <1>2
  <2>2. H(U) = IF U = {} THEN 0 ELSE f[Chosen(U)] + h[V]
    BY <2>1 DEF Adds
  <2>3. G[U] = IF U = {} THEN 0 ELSE f[Chosen(U)] + k[V]
    OBVIOUS
  <2>4. ASSUME U # {} PROVE h[V] = k[V]
    <3>1. V \subseteq U /\ V \in SUBSET T /\ V # T
      BY <2>4
    <3>2. Adds(f, k, V)
      BY <3>1, <1>2
    <3>3. IsFiniteSet(U)
      BY <1>1, FS_Subset
    <3> HIDE DEF h, k, V
    <3>4. \A s \in SUBSET V : h[s] = k[s]
      BY <2>1, <3>1, <3>2, <3>3, AddsAgree
    <3> QED
      BY <3>4
  <2> HIDE DEF H, G, h, k, V
  <2> QED
    BY <2>2, <2>3, <2>4
<1>4. Adds(f, G, T)
  <2>1. \A s \in SUBSET T : s # {} => G[s \ {Chosen(s)}] = H(s \ {Chosen(s)})
    <3> SUFFICES ASSUME NEW s \in SUBSET T, s # {}
                 PROVE  s \ {Chosen(s)} \in SUBSET T /\ s \ {Chosen(s)} # T
      BY <1>3
    <3> QED
      BY ChosenIn
  <2>2. G = [s \in SUBSET T |-> IF s = {} THEN 0 ELSE f[Chosen(s)] + G[s \ {Chosen(s)}]]
    <3> HIDE DEF H
    <3> SUFFICES [s \in SUBSET T |-> IF s = {} THEN 0 ELSE f[Chosen(s)] + H(s \ {Chosen(s)})]
               = [s \in SUBSET T |-> IF s = {} THEN 0 ELSE f[Chosen(s)] + G[s \ {Chosen(s)}]]
      OBVIOUS
    <3> HIDE DEF G
    <3> QED
      BY <2>1
  <2> HIDE DEF G
  <2> QED
    BY <2>2 DEF Adds
<1> QED
  BY <1>1, <1>4

\* A sum is what any function that adds up f says it is.
LEMMA SumIs ==
  ASSUME NEW f, NEW S, IsFiniteSet(S), NEW g, Adds(f, g, S)
  PROVE  \A T \in SUBSET S : SumFunctionOnSet(f, T) = g[T]
<1> SUFFICES ASSUME NEW T \in SUBSET S PROVE SumFunctionOnSet(f, T) = g[T]
  OBVIOUS
<1> DEFINE h == CHOOSE k : Adds(f, k, T)
<1>1. Adds(f, h, T)
  <2>1. \E k : Adds(f, k, T)
    BY AddsExists, FS_Subset
  <2> QED
    BY <2>1
<1>2. SumFunctionOnSet(f, T) = h[T]
  BY SumIsChosen
<1>3. T \subseteq S
  OBVIOUS
<1> HIDE DEF h
<1>4. \A k : Adds(f, k, T) => \A s \in SUBSET T : g[s] = k[s]
  BY <1>3, AddsAgree
<1> QED
  BY <1>1, <1>2, <1>4

-----------------------------------------------------------------------------
(* What a sum comes to *)

\* Of nothing, zero ...
LEMMA SumOfNone == ASSUME NEW f PROVE SumFunctionOnSet(f, {}) = 0
<1>1. PICK g : Adds(f, g, {})
  BY AddsExists, FS_EmptySet
<1>2. g[{}] = 0
  BY <1>1 DEF Adds
<1> QED
  BY <1>1, <1>2, SumIs, FS_EmptySet

LEMMA SumOfChosen ==
  ASSUME NEW f, NEW S, IsFiniteSet(S), S # {}
  PROVE  SumFunctionOnSet(f, S) = f[Chosen(S)] + SumFunctionOnSet(f, S \ {Chosen(S)})
<1>1. PICK g : Adds(f, g, S)
  BY AddsExists
<1>2. g[S] = f[Chosen(S)] + g[S \ {Chosen(S)}]
  BY <1>1 DEF Adds
<1> QED
  BY <1>1, <1>2, SumIs

\* ... of numbers, a number ...
LEMMA SumIsNumber ==
  ASSUME NEW f, NEW S, IsFiniteSet(S), \A x \in S : f[x] \in Int
  PROVE  SumFunctionOnSet(f, S) \in Int
<1> DEFINE Bad == {T \in SUBSET S : SumFunctionOnSet(f, T) \notin Int}
<1> SUFFICES ASSUME Bad # {} PROVE FALSE
  OBVIOUS
<1>1. PICK T \in Bad : \A U \in Bad : U \subseteq T => U = T
  <2>1. Bad \in SUBSET SUBSET S
    OBVIOUS
  <2> HIDE DEF Bad
  <2> QED
    BY <2>1, SmallestPart
<1>2. T # {}
  <2> SUFFICES ASSUME T = {} PROVE FALSE
    OBVIOUS
  <2>1. SumFunctionOnSet(f, T) = 0
    BY Zenon, SumOfNone
  <2> QED
    BY <1>1, <2>1
<1>3. IsFiniteSet(T) /\ Chosen(T) \in T
  BY <1>2, ChosenIn, FS_Subset
<1>4. SumFunctionOnSet(f, T) = f[Chosen(T)] + SumFunctionOnSet(f, T \ {Chosen(T)})
  BY <1>2, <1>3, SumOfChosen
<1>5. SumFunctionOnSet(f, T \ {Chosen(T)}) \in Int
  BY <1>1, <1>3
<1> QED
  BY <1>1, <1>3, <1>4, <1>5

\* ... and any element may be taken first.
LEMMA SumOfOne ==
  ASSUME NEW f, NEW S, IsFiniteSet(S), \A x \in S : f[x] \in Int, NEW a \in S
  PROVE  SumFunctionOnSet(f, S) = f[a] + SumFunctionOnSet(f, S \ {a})
<1> DEFINE Bad == {T \in SUBSET S : \E b \in T : SumFunctionOnSet(f, T) # f[b] + SumFunctionOnSet(f, T \ {b})}
<1> SUFFICES ASSUME Bad # {} PROVE FALSE
  OBVIOUS
<1>1. PICK T \in Bad : \A U \in Bad : U \subseteq T => U = T
  <2>1. Bad \in SUBSET SUBSET S
    OBVIOUS
  <2> HIDE DEF Bad
  <2> QED
    BY <2>1, SmallestPart
<1>2. PICK b \in T : SumFunctionOnSet(f, T) # f[b] + SumFunctionOnSet(f, T \ {b})
  BY <1>1
<1> DEFINE c == Chosen(T)
<1>3. c \in T /\ IsFiniteSet(T) /\ IsFiniteSet(T \ {b}) /\ IsFiniteSet(T \ {c}) /\ IsFiniteSet((T \ {b}) \ {c})
  <2>1. T \subseteq S /\ c \in T
    BY <1>2, ChosenIn
  <2> QED
    BY <2>1, FS_Subset
<1>4. SumFunctionOnSet(f, T) = f[c] + SumFunctionOnSet(f, T \ {c})
  BY <1>3, SumOfChosen
<1>5. b # c
  BY <1>2, <1>4
<1> HIDE DEF c
<1>6. T \ {c} \notin Bad /\ T \ {b} \notin Bad
  BY <1>1, <1>3
<1>7. SumFunctionOnSet(f, T \ {c}) = f[b] + SumFunctionOnSet(f, (T \ {c}) \ {b})
  BY <1>3, <1>5, <1>6
<1>8. SumFunctionOnSet(f, T \ {b}) = f[c] + SumFunctionOnSet(f, (T \ {b}) \ {c})
  BY <1>3, <1>5, <1>6
<1>9. SumFunctionOnSet(f, (T \ {b}) \ {c}) \in Int /\ (T \ {b}) \ {c} = (T \ {c}) \ {b}
  BY <1>3, SumIsNumber
<1>10. f[b] \in Int /\ f[c] \in Int
  BY <1>3
<1>11. f[c] + (f[b] + SumFunctionOnSet(f, (T \ {b}) \ {c})) = f[b] + (f[c] + SumFunctionOnSet(f, (T \ {b}) \ {c}))
  BY <1>9, <1>10
<1> QED
  BY <1>2, <1>4, <1>7, <1>8, <1>9, <1>11

\* A sum of natural numbers is one.
LEMMA SumIsNatural ==
  ASSUME NEW f, NEW S, IsFiniteSet(S), \A x \in S : f[x] \in Nat
  PROVE  SumFunctionOnSet(f, S) \in Nat
<1> DEFINE Bad == {T \in SUBSET S : SumFunctionOnSet(f, T) \notin Nat}
<1> SUFFICES ASSUME Bad # {} PROVE FALSE
  OBVIOUS
<1>1. PICK T \in Bad : \A U \in Bad : U \subseteq T => U = T
  <2>1. Bad \in SUBSET SUBSET S
    OBVIOUS
  <2> HIDE DEF Bad
  <2> QED
    BY <2>1, SmallestPart
<1>2. T # {}
  <2> SUFFICES ASSUME T = {} PROVE FALSE
    OBVIOUS
  <2>1. SumFunctionOnSet(f, T) = 0
    BY Zenon, SumOfNone
  <2> QED
    BY <1>1, <2>1
<1>3. PICK x \in T : x \in S
  BY <1>1, <1>2
<1>4. IsFiniteSet(T) /\ \A y \in T : f[y] \in Int
  BY <1>1, FS_Subset
<1> QED
  <2>1. SumFunctionOnSet(f, T) = f[x] + SumFunctionOnSet(f, T \ {x})
    BY <1>3, <1>4, SumOfOne
  <2>2. SumFunctionOnSet(f, T \ {x}) \in Nat
    BY <1>1, <1>3
  <2> QED
    BY <1>1, <1>3, <2>1, <2>2

\* Of one element, itself.
LEMMA SumOfSingle ==
  ASSUME NEW f, NEW a, f[a] \in Int
  PROVE  SumFunctionOnSet(f, {a}) = f[a]
<1>1. {a} \ {a} = {} /\ IsFiniteSet({a}) /\ a \in {a} /\ \A x \in {a} : f[x] \in Int
  BY FS_Singleton
<1>2. SumFunctionOnSet(f, {a}) = f[a] + SumFunctionOnSet(f, {a} \ {a})
  BY Zenon, <1>1, SumOfOne
<1>3. SumFunctionOnSet(f, {a} \ {a}) = 0
  BY Zenon, <1>1, SumOfNone
<1> QED
  BY <1>2, <1>3

\* A sum only looks at what it adds up.
LEMMA SumsAgree ==
  ASSUME NEW S, IsFiniteSet(S), NEW f, NEW g, \A x \in S : f[x] = g[x]
  PROVE  SumFunctionOnSet(f, S) = SumFunctionOnSet(g, S)
<1> DEFINE Bad == {T \in SUBSET S : SumFunctionOnSet(f, T) # SumFunctionOnSet(g, T)}
<1> SUFFICES ASSUME Bad # {} PROVE FALSE
  OBVIOUS
<1>1. PICK T \in Bad : \A U \in Bad : U \subseteq T => U = T
  <2>1. Bad \in SUBSET SUBSET S
    OBVIOUS
  <2> HIDE DEF Bad
  <2> QED
    BY <2>1, SmallestPart
<1>2. T # {}
  BY <1>1, SumOfNone
<1>3. IsFiniteSet(T) /\ Chosen(T) \in T
  BY <1>2, ChosenIn, FS_Subset
<1>4. /\ SumFunctionOnSet(f, T) = f[Chosen(T)] + SumFunctionOnSet(f, T \ {Chosen(T)})
      /\ SumFunctionOnSet(g, T) = g[Chosen(T)] + SumFunctionOnSet(g, T \ {Chosen(T)})
  BY <1>2, <1>3, SumOfChosen
<1>5. SumFunctionOnSet(f, T \ {Chosen(T)}) = SumFunctionOnSet(g, T \ {Chosen(T)})
  BY <1>1, <1>3
<1>6. f[Chosen(T)] = g[Chosen(T)]
  BY <1>3
<1> QED
  BY <1>1, <1>4, <1>5, <1>6

\* An element more.
LEMMA SumOfMore ==
  ASSUME NEW f, NEW S, IsFiniteSet(S), NEW a, a \notin S, \A x \in S \cup {a} : f[x] \in Int
  PROVE  SumFunctionOnSet(f, S \cup {a}) = SumFunctionOnSet(f, S) + f[a]
<1>1. IsFiniteSet(S \cup {a}) /\ (S \cup {a}) \ {a} = S
  BY FS_AddElement
<1>2. SumFunctionOnSet(f, S \cup {a}) = f[a] + SumFunctionOnSet(f, S)
  BY <1>1, SumOfOne
<1>3. SumFunctionOnSet(f, S) \in Int /\ f[a] \in Int
  BY SumIsNumber
<1> QED
  BY <1>2, <1>3

\* Two parts add up to the whole.
LEMMA SumOfParts ==
  ASSUME NEW f, NEW S, NEW T, IsFiniteSet(S), IsFiniteSet(T), S \cap T = {},
         \A x \in S \cup T : f[x] \in Int
  PROVE  SumFunctionOnSet(f, S \cup T) = SumFunctionOnSet(f, S) + SumFunctionOnSet(f, T)
<1> DEFINE Bad == {U \in SUBSET S : SumFunctionOnSet(f, U \cup T)
                                      # SumFunctionOnSet(f, U) + SumFunctionOnSet(f, T)}
<1> SUFFICES ASSUME Bad # {} PROVE FALSE
  OBVIOUS
<1>1. PICK U \in Bad : \A V \in Bad : V \subseteq U => V = U
  <2>1. Bad \in SUBSET SUBSET S
    OBVIOUS
  <2> HIDE DEF Bad
  <2> QED
    BY <2>1, SmallestPart
<1>2. SumFunctionOnSet(f, T) \in Int
  BY SumIsNumber
<1>3. U # {}
  <2> SUFFICES ASSUME U = {} PROVE FALSE
    OBVIOUS
  <2>1. SumFunctionOnSet(f, U) = 0
    BY Zenon, SumOfNone
  <2>2. U \cup T = T
    OBVIOUS
  <2> HIDE DEF Bad
  <2>3. SumFunctionOnSet(f, T) # 0 + SumFunctionOnSet(f, T)
    BY Zenon, <1>1, <2>1, <2>2 DEF Bad
  <2> QED
    BY <1>2, <2>3
<1>4. PICK a \in U : TRUE
  BY <1>3
<1> DEFINE V == U \ {a}
<1>5. IsFiniteSet(V) /\ IsFiniteSet(V \cup T)
  <2>1. IsFiniteSet(V)
    BY <1>1, FS_Subset
  <2> QED
    BY <2>1, FS_Union
<1>6. V \cup {a} = U /\ (V \cup T) \cup {a} = U \cup T /\ a \notin V /\ a \notin V \cup T
  BY <1>1, <1>4
<1>7. (\A x \in V \cup {a} : f[x] \in Int) /\ \A x \in (V \cup T) \cup {a} : f[x] \in Int
  BY <1>1, <1>4
<1>8. SumFunctionOnSet(f, V \cup T) = SumFunctionOnSet(f, V) + SumFunctionOnSet(f, T)
  BY <1>1, <1>6
<1> HIDE DEF V
<1>9. SumFunctionOnSet(f, U) = SumFunctionOnSet(f, V) + f[a]
  BY <1>5, <1>6, <1>7, SumOfMore
<1>10. SumFunctionOnSet(f, U \cup T) = SumFunctionOnSet(f, V \cup T) + f[a]
  BY <1>5, <1>6, <1>7, SumOfMore
<1>11. SumFunctionOnSet(f, V) \in Int /\ f[a] \in Int
  BY <1>5, <1>7, SumIsNumber
<1> QED
  BY <1>1, <1>2, <1>8, <1>9, <1>10, <1>11

\* Elements may be renamed.
LEMMA SumRenamed ==
  ASSUME NEW S, IsFiniteSet(S), NEW h, NEW f, \A x \in S : f[h[x]] \in Int,
         \A x, y \in S : h[x] = h[y] => x = y
  PROVE  /\ IsFiniteSet({h[x] : x \in S})
         /\ SumFunctionOnSet(f, {h[x] : x \in S}) = SumFunctionOnSet([x \in S |-> f[h[x]]], S)
<1> DEFINE g == [x \in S |-> f[h[x]]]
           Image(U) == {h[x] : x \in U}
           Bad == {U \in SUBSET S : ~ (IsFiniteSet(Image(U))
                                       /\ SumFunctionOnSet(f, Image(U)) = SumFunctionOnSet(g, U))}
<1> SUFFICES ASSUME Bad # {} PROVE FALSE
  OBVIOUS
<1>1. PICK U \in Bad : \A V \in Bad : V \subseteq U => V = U
  <2>1. Bad \in SUBSET SUBSET S
    OBVIOUS
  <2> HIDE DEF Bad
  <2> QED
    BY <2>1, SmallestPart
<1>2. U # {}
  <2>1. Image({}) = {}
    OBVIOUS
  <2> HIDE DEF g
  <2> QED
    BY <1>1, <2>1, SumOfNone, FS_EmptySet
<1>3. PICK a \in U : TRUE
  BY <1>2
<1> DEFINE V == U \ {a}
<1>4. IsFiniteSet(V) /\ V \subseteq S /\ a \in S /\ a \notin V /\ V \cup {a} = U
  BY <1>1, <1>3, FS_Subset
<1>5. IsFiniteSet(Image(V)) /\ SumFunctionOnSet(f, Image(V)) = SumFunctionOnSet(g, V)
  <2>1. V \notin Bad
    BY <1>1, <1>4
  <2> HIDE DEF V, g
  <2> QED
    BY <1>4, <2>1
<1>6. h[a] \notin Image(V) /\ Image(U) = Image(V) \cup {h[a]} /\ \A y \in Image(U) : f[y] \in Int
  BY <1>1, <1>4
<1>7. g[a] = f[h[a]] /\ \A x \in V \cup {a} : g[x] \in Int
  BY <1>4
<1> HIDE DEF g, V, Image
<1>8. SumFunctionOnSet(g, U) = SumFunctionOnSet(g, V) + g[a]
  BY <1>4, <1>7, SumOfMore
<1>9. SumFunctionOnSet(f, Image(U)) = SumFunctionOnSet(f, Image(V)) + f[h[a]]
  BY <1>5, <1>6, SumOfMore
<1>10. IsFiniteSet(Image(U))
  BY <1>5, <1>6, FS_AddElement
<1> QED
  BY <1>1, <1>5, <1>7, <1>8, <1>9, <1>10

\* What moves from one element to another does not change the sum.
LEMMA SumMoved ==
  ASSUME NEW S, IsFiniteSet(S), NEW f, NEW g, \A x \in S : f[x] \in Int /\ g[x] \in Int,
         NEW a \in S, NEW b \in S, a # b, f[a] + f[b] = g[a] + g[b],
         \A x \in S \ {a, b} : f[x] = g[x]
  PROVE  SumFunctionOnSet(f, S) = SumFunctionOnSet(g, S)
<1> DEFINE T == S \ {a}
           U == T \ {b}
<1>1. IsFiniteSet(T) /\ IsFiniteSet(U) /\ b \in T
  <2>1. T \subseteq S /\ U \subseteq S
    OBVIOUS
  <2> QED
    BY <2>1, FS_Subset
<1>2. /\ SumFunctionOnSet(f, S) = f[a] + SumFunctionOnSet(f, T)
      /\ SumFunctionOnSet(g, S) = g[a] + SumFunctionOnSet(g, T)
  BY SumOfOne
<1>3. (\A x \in T : f[x] \in Int /\ g[x] \in Int) /\ (\A x \in U : f[x] = g[x])
  OBVIOUS
<1>4. U \subseteq S
  OBVIOUS
<1> HIDE DEF T
<1>5. /\ SumFunctionOnSet(f, T) = f[b] + SumFunctionOnSet(f, U)
      /\ SumFunctionOnSet(g, T) = g[b] + SumFunctionOnSet(g, U)
  BY <1>1, <1>3, SumOfOne
<1> HIDE DEF U
<1>6. SumFunctionOnSet(f, U) = SumFunctionOnSet(g, U)
  BY <1>1, <1>3, SumsAgree
<1>7. SumFunctionOnSet(f, U) \in Int
  BY <1>1, <1>4, SumIsNumber
<1> QED
  BY <1>2, <1>5, <1>6, <1>7

\* A sum changes by what one of its elements does.
LEMMA SumChanged ==
  ASSUME NEW S, IsFiniteSet(S), NEW f, NEW g, NEW a \in S,
         \A x \in S : f[x] \in Int /\ g[x] \in Int, \A x \in S \ {a} : f[x] = g[x]
  PROVE  SumFunctionOnSet(g, S) = SumFunctionOnSet(f, S) + g[a] - f[a]
<1> DEFINE T == S \ {a}
<1>1. IsFiniteSet(T) /\ \A x \in T : f[x] = g[x] /\ f[x] \in Int
  BY FS_Subset
<1>2. /\ SumFunctionOnSet(f, S) = f[a] + SumFunctionOnSet(f, T)
      /\ SumFunctionOnSet(g, S) = g[a] + SumFunctionOnSet(g, T)
  BY SumOfOne
<1> HIDE DEF T
<1>3. SumFunctionOnSet(f, T) = SumFunctionOnSet(g, T) /\ SumFunctionOnSet(f, T) \in Int
  BY <1>1, SumsAgree, SumIsNumber
<1> QED
  BY <1>2, <1>3

\* A sum of sums, element by element, is the sum of the two.
LEMMA SumOfSums ==
  ASSUME NEW S, IsFiniteSet(S), NEW f, NEW g, NEW h,
         \A x \in S : f[x] \in Int /\ g[x] \in Int /\ h[x] = f[x] + g[x]
  PROVE  SumFunctionOnSet(h, S) = SumFunctionOnSet(f, S) + SumFunctionOnSet(g, S)
<1> DEFINE Bad == {T \in SUBSET S : SumFunctionOnSet(h, T)
                                      # SumFunctionOnSet(f, T) + SumFunctionOnSet(g, T)}
<1> SUFFICES ASSUME Bad # {} PROVE FALSE
  OBVIOUS
<1>1. PICK T \in Bad : \A U \in Bad : U \subseteq T => U = T
  <2>1. Bad \in SUBSET SUBSET S
    OBVIOUS
  <2> HIDE DEF Bad
  <2> QED
    BY <2>1, SmallestPart
<1>2. T # {}
  <2> SUFFICES ASSUME T = {} PROVE FALSE
    OBVIOUS
  <2>1. SumFunctionOnSet(f, T) = 0 /\ SumFunctionOnSet(g, T) = 0 /\ SumFunctionOnSet(h, T) = 0
    BY Zenon, SumOfNone
  <2> QED
    BY <1>1, <2>1
<1>3. PICK a \in T : TRUE
  BY <1>2
<1>4. IsFiniteSet(T) /\ IsFiniteSet(T \ {a}) /\ T \subseteq S
  BY <1>1, FS_Subset
<1>5. \A x \in T : f[x] \in Int /\ g[x] \in Int /\ h[x] \in Int /\ h[x] = f[x] + g[x]
  BY <1>4
<1>6. /\ SumFunctionOnSet(f, T) = f[a] + SumFunctionOnSet(f, T \ {a})
      /\ SumFunctionOnSet(g, T) = g[a] + SumFunctionOnSet(g, T \ {a})
      /\ SumFunctionOnSet(h, T) = h[a] + SumFunctionOnSet(h, T \ {a})
  BY <1>4, <1>5, SumOfOne
<1>7. SumFunctionOnSet(f, T \ {a}) \in Int /\ SumFunctionOnSet(g, T \ {a}) \in Int
  BY <1>4, <1>5, SumIsNumber
<1>8. SumFunctionOnSet(h, T \ {a}) = SumFunctionOnSet(f, T \ {a}) + SumFunctionOnSet(g, T \ {a})
  BY <1>1, <1>3
<1> QED
  BY <1>1, <1>3, <1>5, <1>6, <1>7, <1>8

\* What is nothing need not be added.
LEMMA SumWithoutZeros ==
  ASSUME NEW S, IsFiniteSet(S), NEW T \in SUBSET S, NEW f,
         \A x \in S : f[x] \in Int, \A x \in S \ T : f[x] = 0
  PROVE  SumFunctionOnSet(f, S) = SumFunctionOnSet(f, T)
<1> DEFINE Z == S \ T
<1>1. IsFiniteSet(T) /\ IsFiniteSet(Z) /\ T \cap Z = {} /\ S = T \cup Z
  <2>1. Z \in SUBSET S /\ T \cap Z = {} /\ S = T \cup Z
    OBVIOUS
  <2> HIDE DEF Z
  <2> QED
    BY <2>1, FS_Subset
<1>2. \A x \in Z : f[x] \in Int /\ f[x] = f[x] + f[x]
  OBVIOUS
<1>3. \A x \in T \cup Z : f[x] \in Int
  BY <1>1
<1> HIDE DEF Z
<1>4. SumFunctionOnSet(f, Z) = SumFunctionOnSet(f, Z) + SumFunctionOnSet(f, Z)
  BY <1>1, <1>2, SumOfSums
<1>5. SumFunctionOnSet(f, T \cup Z) = SumFunctionOnSet(f, T) + SumFunctionOnSet(f, Z)
  BY <1>1, <1>3, SumOfParts
<1>6. SumFunctionOnSet(f, Z) \in Int /\ SumFunctionOnSet(f, T) \in Int
  BY <1>1, <1>2, <1>3, SumIsNumber
<1>7. SumFunctionOnSet(f, T \cup Z) = SumFunctionOnSet(f, T)
  <2>1. PICK z \in Int, t \in Int : z = SumFunctionOnSet(f, Z) /\ t = SumFunctionOnSet(f, T)
    BY <1>6
  <2>2. z = z + z
    BY <1>4, <2>1
  <2>3. z = 0
    BY <2>2
  <2> QED
    BY <1>5, <2>1, <2>3
<1> QED
  BY Zenon, <1>1, <1>7

\* Opposite elements have opposite sums.
LEMMA SumOfOpposites ==
  ASSUME NEW S, IsFiniteSet(S), NEW f, NEW g, \A x \in S : f[x] \in Int /\ g[x] = -f[x]
  PROVE  SumFunctionOnSet(g, S) = -SumFunctionOnSet(f, S)
<1> DEFINE Bad == {T \in SUBSET S : SumFunctionOnSet(g, T) # -SumFunctionOnSet(f, T)}
<1> SUFFICES ASSUME Bad # {} PROVE FALSE
  OBVIOUS
<1>1. PICK T \in Bad : \A U \in Bad : U \subseteq T => U = T
  <2>1. Bad \in SUBSET SUBSET S
    OBVIOUS
  <2> HIDE DEF Bad
  <2> QED
    BY <2>1, SmallestPart
<1>2. T # {}
  <2> SUFFICES ASSUME T = {} PROVE FALSE
    OBVIOUS
  <2>1. SumFunctionOnSet(f, T) = 0 /\ SumFunctionOnSet(g, T) = 0
    BY Zenon, SumOfNone
  <2> QED
    BY <1>1, <2>1
<1>3. PICK a \in T : TRUE
  BY <1>2
<1>4. IsFiniteSet(T) /\ IsFiniteSet(T \ {a}) /\ T \subseteq S
  BY <1>1, FS_Subset
<1>5. /\ SumFunctionOnSet(f, T) = f[a] + SumFunctionOnSet(f, T \ {a})
      /\ SumFunctionOnSet(g, T) = g[a] + SumFunctionOnSet(g, T \ {a})
  BY <1>4, SumOfOne
<1>6. SumFunctionOnSet(f, T \ {a}) \in Int
  BY <1>4, SumIsNumber
<1>7. SumFunctionOnSet(g, T \ {a}) = -SumFunctionOnSet(f, T \ {a})
  BY <1>1, <1>3
<1> QED
  BY <1>1, <1>3, <1>4, <1>5, <1>6, <1>7

\* Elements that each have an opposite of their own add up to nothing with them.
LEMMA SumOfPairs ==
  ASSUME NEW A, IsFiniteSet(A), NEW h, NEW f, \A x \in A : f[x] \in Int /\ f[h[x]] = -f[x],
         \A x, y \in A : h[x] = h[y] => x = y, \A x \in A : h[x] \notin A
  PROVE  /\ IsFiniteSet({h[x] : x \in A})
         /\ SumFunctionOnSet(f, A \cup {h[x] : x \in A}) = 0
<1> DEFINE B == {h[x] : x \in A}
           g == [x \in A |-> f[h[x]]]
<1>1. /\ \A x \in A : f[h[x]] \in Int /\ g[x] = -f[x]
      /\ \A x \in A \cup B : f[x] \in Int
      /\ A \cap B = {}
  OBVIOUS
<1>2. IsFiniteSet(B) /\ SumFunctionOnSet(f, B) = SumFunctionOnSet(g, A)
  BY <1>1, SumRenamed
<1> HIDE DEF B, g
<1>3. SumFunctionOnSet(g, A) = -SumFunctionOnSet(f, A) /\ SumFunctionOnSet(f, A) \in Int
  BY <1>1, SumOfOpposites, SumIsNumber
<1>4. SumFunctionOnSet(f, A \cup B) = SumFunctionOnSet(f, A) + SumFunctionOnSet(f, B)
  BY <1>1, <1>2, SumOfParts
<1> QED
  BY <1>2, <1>3, <1>4 DEF B

\* The row r of the table f, whose columns are C.
TableRow(f, C, r) == [c \in C |-> f[<<r, c>>]]

\* Two tables with the same sum in every row have the same sum.
LEMMA SumOfRows ==
  ASSUME NEW R, NEW C, IsFiniteSet(R), IsFiniteSet(C), NEW f, NEW g,
         \A r \in R : \A c \in C : f[<<r, c>>] \in Int /\ g[<<r, c>>] \in Int,
         \A r \in R : SumFunctionOnSet(TableRow(f, C, r), C) = SumFunctionOnSet(TableRow(g, C, r), C)
  PROVE  SumFunctionOnSet(f, R \X C) = SumFunctionOnSet(g, R \X C)
<1> DEFINE Bad == {U \in SUBSET R : ~ (IsFiniteSet(U \X C)
                                       /\ SumFunctionOnSet(f, U \X C) = SumFunctionOnSet(g, U \X C))}
<1> SUFFICES ASSUME Bad # {} PROVE FALSE
  OBVIOUS
<1>1. PICK U \in Bad : \A V \in Bad : V \subseteq U => V = U
  <2>1. Bad \in SUBSET SUBSET R
    OBVIOUS
  <2> HIDE DEF Bad
  <2> QED
    BY <2>1, SmallestPart
<1>2. U # {}
  <2>1. {} \X C = {}
    OBVIOUS
  <2> QED
    BY <1>1, <2>1, SumOfNone, FS_EmptySet
<1>3. PICK a \in U : TRUE
  BY <1>2
<1> DEFINE V == U \ {a}
           h == [c \in C |-> <<a, c>>]
           H == {h[c] : c \in C}
           Of(k) == [c \in C |-> k[h[c]]]
<1>4. a \in R /\ U \X C = (V \X C) \cup H /\ (V \X C) \cap H = {} /\ V \subseteq R
  BY <1>1, <1>3
<1>5. IsFiniteSet(V \X C) /\ SumFunctionOnSet(f, V \X C) = SumFunctionOnSet(g, V \X C)
  <2>1. V \notin Bad
    BY <1>1, <1>3
  <2> HIDE DEF V
  <2> QED
    BY <1>4, <2>1
<1>6. /\ \A c \in C : f[h[c]] \in Int /\ g[h[c]] \in Int
      /\ \A c, d \in C : h[c] = h[d] => c = d
  BY <1>4
<1>7. \A x \in (V \X C) \cup H : f[x] \in Int /\ g[x] \in Int
  BY <1>4
<1>8. SumFunctionOnSet(Of(f), C) = SumFunctionOnSet(Of(g), C)
  <2>1. Of(f) = TableRow(f, C, a) /\ Of(g) = TableRow(g, C, a)
    BY <1>4 DEF TableRow
  <2> HIDE DEF Of, h
  <2> QED
    BY <1>4, <2>1
<1> HIDE DEF V, h
<1>9. /\ IsFiniteSet(H)
      /\ SumFunctionOnSet(f, H) = SumFunctionOnSet(Of(f), C)
      /\ SumFunctionOnSet(g, H) = SumFunctionOnSet(Of(g), C)
  BY ZenonT(40), <1>6, SumRenamed
<1> HIDE DEF H, Of
<1>10. /\ SumFunctionOnSet(f, U \X C) = SumFunctionOnSet(f, V \X C) + SumFunctionOnSet(f, H)
       /\ SumFunctionOnSet(g, U \X C) = SumFunctionOnSet(g, V \X C) + SumFunctionOnSet(g, H)
  BY <1>4, <1>5, <1>7, <1>9, SumOfParts
<1>11. IsFiniteSet(U \X C)
  <2>1. IsFiniteSet((V \X C) \cup H)
    BY <1>5, <1>9, FS_Union
  <2> QED
    BY <1>4, <2>1
<1> QED
  BY <1>1, <1>5, <1>8, <1>9, <1>10, <1>11

-----------------------------------------------------------------------------
(* Counting up *)

\* Whatever holds of 0, and of each number up to n if of the one before, holds
\* of all of them: an induction over what a recursion counts through.
LEMMA CountingUp ==
  ASSUME NEW n \in Nat, NEW P, 0 \in P, \A k \in 1..n : k - 1 \in P => k \in P
  PROVE  0..n \subseteq P
<1> DEFINE Bad == {0..k : k \in {j \in 0..n : j \notin P}}
<1> SUFFICES ASSUME Bad # {} PROVE FALSE
  OBVIOUS
<1>1. PICK T \in Bad : \A U \in Bad : U \subseteq T => U = T
  <2>1. \A T \in Bad : T \subseteq 0..n
    OBVIOUS
  <2>2. PICK S : S = 0..n /\ IsFiniteSet(S)
    BY FS_Interval
  <2>3. Bad \in SUBSET SUBSET S
    BY <2>1, <2>2
  <2>4. IsFiniteSet(S)
    BY <2>2
  <2> HIDE DEF Bad
  <2> QED
    BY <2>3, <2>4, SmallestPart
<1>2. PICK k \in 0..n : T = 0..k /\ k \notin P
  BY <1>1
<1>3. k \in 1..n /\ k - 1 \in 0..n
  BY <1>2
<1>4. k - 1 \in P
  <2> SUFFICES ASSUME k - 1 \notin P PROVE FALSE
    OBVIOUS
  <2>1. 0..(k - 1) \in Bad
    BY <1>3
  <2>2. 0..(k - 1) \subseteq T /\ k \in T /\ k \notin 0..(k - 1)
    BY <1>2, <1>3
  <2> QED
    BY <1>1, <2>1, <2>2
<1> QED
  BY <1>2, <1>3, <1>4

\* g starts at base and goes on from each value to the next by step.
Iterates(g, n, base, step) ==
  g = [k \in 0..n |-> IF k = 0 THEN base ELSE step[<<k, g[k - 1]>>]]

\* There is such a function, however far it goes.
LEMMA IterationExists ==
  ASSUME NEW n \in Nat, NEW base, NEW step
  PROVE  \E g : Iterates(g, n, base, step)
<1> DEFINE P == {k \in 0..n : \E g : Iterates(g, k, base, step)}
<1>1. 0 \in P
  <2>1. PICK g : g = [k \in 0..0 |-> base]
    OBVIOUS
  <2>2. Iterates(g, 0, base, step)
    BY <2>1 DEF Iterates
  <2> QED
    BY <2>2
<1>2. ASSUME NEW k \in 1..n, k - 1 \in P
      PROVE  k \in P
  <2>1. PICK g : Iterates(g, k - 1, base, step)
    BY <1>2
  <2>2. PICK h : h = [j \in 0..k |-> IF j = k THEN step[<<k, g[k - 1]>>] ELSE g[j]]
    OBVIOUS
  <2>3. \A j \in 0..(k - 1) : h[j] = g[j] /\ g[j] = IF j = 0 THEN base ELSE step[<<j, g[j - 1]>>]
    BY <2>1, <2>2 DEF Iterates
  <2>4. ASSUME NEW j \in 0..k
        PROVE  h[j] = IF j = 0 THEN base ELSE step[<<j, h[j - 1]>>]
    <3>1. CASE j = k
      <4>1. k # 0 /\ k - 1 \in 0..(k - 1)
        OBVIOUS
      <4> QED
        BY <2>2, <2>3, <3>1, <4>1
    <3>2. CASE j # k
      <4>1. j \in 0..(k - 1) /\ (j # 0 => j - 1 \in 0..(k - 1))
        BY <3>2
      <4> QED
        BY <2>3, <4>1
    <3> QED
      BY <3>1, <3>2
  <2>5. h = [j \in 0..k |-> IF j = 0 THEN base ELSE step[<<j, h[j - 1]>>]]
    BY <2>2, <2>4
  <2>6. Iterates(h, k, base, step)
    BY Zenon, <2>5 DEF Iterates
  <2> QED
    BY <2>6
<1> HIDE DEF P
<1>3. n \in P
  BY <1>1, <1>2, CountingUp
<1> QED
  BY <1>3 DEF P

\* Some of the numbers up to n are not without a largest.
LEMMA LargestExists ==
  ASSUME NEW n \in Nat, NEW S \in SUBSET (1..n), S # {}
  PROVE  \E m \in S : \A x \in S : m >= x
<1> DEFINE P == {k \in 0..n : \A x \in S : x <= k => \E m \in S : m <= k /\ \A y \in S : y <= k => m >= y}
<1>1. 0 \in P
  OBVIOUS
<1>2. ASSUME NEW k \in 1..n, k - 1 \in P
      PROVE  k \in P
  <2>1. CASE k \in S
    BY <2>1
  <2>2. CASE k \notin S
    <3>1. \A x \in S : x <= k <=> x <= k - 1
      BY <2>2
    <3> QED
      BY <1>2, <3>1
  <2> QED
    BY <2>1, <2>2
<1>3. n \in P
  <2> HIDE DEF P
  <2> QED
    BY <1>1, <1>2, CountingUp
<1>4. PICK x \in S : TRUE
  OBVIOUS
<1>5. \A y \in S : y \in Nat /\ y <= n
  OBVIOUS
<1>6. \E m \in S : m <= n /\ \A y \in S : y <= n => m >= y
  BY <1>3, <1>4, <1>5
<1> QED
  BY <1>5, <1>6

\* Numbers are not without a least.
LEMMA LeastExists ==
  ASSUME NEW S \in SUBSET Nat, S # {}
  PROVE  \E m \in S : \A x \in S : m <= x
<1>1. PICK n \in S : n \in Nat
  OBVIOUS
<1> DEFINE P == {k \in 0..n : (\A x \in S : x > k) \/ \E m \in S : \A x \in S : m <= x}
<1>2. 0 \in P
  OBVIOUS
<1>3. ASSUME NEW k \in 1..n, k - 1 \in P
      PROVE  k \in P
  <2>1. CASE \A x \in S : x > k - 1
    <3>1. \A x \in S : x >= k
      BY <2>1
    <3>2. (\A x \in S : x > k) \/ k \in S
      BY <3>1
    <3> QED
      BY <3>1, <3>2
  <2> QED
    BY <1>3, <2>1
<1>4. n \in P
  <2> HIDE DEF P
  <2> QED
    BY <1>1, <1>2, <1>3, CountingUp
<1> QED
  BY <1>1, <1>4

-----------------------------------------------------------------------------
(* Sets in an order *)

\* R says of any two elements of S which comes first.
Orders(R, S) ==
  /\ \A x \in S : <<x, x>> \notin R
  /\ \A x, y, z \in S : <<x, y>> \in R /\ <<y, z>> \in R => <<x, z>> \in R
  /\ \A x, y \in S : x = y \/ <<x, y>> \in R \/ <<y, x>> \in R

\* The elements that come before x, and the sequence they make of S.
Lower(R, S, x) == {y \in S : <<y, x>> \in R}
Listed(R, S)   == [n \in 1..Cardinality(S) |-> CHOOSE x \in S : Cardinality(Lower(R, S, x)) = n - 1]

LEMMA RanksAre ==
  ASSUME NEW S, IsFiniteSet(S), NEW R, Orders(R, S)
  PROVE  /\ \A x \in S : Cardinality(Lower(R, S, x)) \in 0..(Cardinality(S) - 1)
         /\ \A x, y \in S : <<x, y>> \in R => Cardinality(Lower(R, S, x)) < Cardinality(Lower(R, S, y))
<1>1. \A x \in S : /\ IsFiniteSet(Lower(R, S, x)) /\ Lower(R, S, x) \in SUBSET S
                   /\ Cardinality(Lower(R, S, x)) \in Nat
  <2> SUFFICES ASSUME NEW x \in S PROVE IsFiniteSet(Lower(R, S, x)) /\ Lower(R, S, x) \in SUBSET S
    BY FS_CardinalityType
  <2>1. Lower(R, S, x) \in SUBSET S
    BY DEF Lower
  <2> QED
    BY <2>1, FS_Subset
<1>2. ASSUME NEW x \in S
      PROVE  Cardinality(Lower(R, S, x)) \in 0..(Cardinality(S) - 1)
  <2>1. Lower(R, S, x) # S
    BY DEF Lower, Orders
  <2>2. Cardinality(Lower(R, S, x)) <= Cardinality(S) /\ Cardinality(Lower(R, S, x)) # Cardinality(S)
    BY <1>1, <2>1, FS_Subset
  <2>3. Cardinality(S) \in Nat
    BY FS_CardinalityType
  <2> QED
    BY <1>1, <2>2, <2>3
<1>3. ASSUME NEW x \in S, NEW y \in S, <<x, y>> \in R
      PROVE  Cardinality(Lower(R, S, x)) < Cardinality(Lower(R, S, y))
  <2>1. Lower(R, S, x) \in SUBSET Lower(R, S, y)
    BY <1>3 DEF Lower, Orders
  <2>2. Lower(R, S, x) # Lower(R, S, y)
    <3>1. x \in Lower(R, S, y) /\ x \notin Lower(R, S, x)
      BY <1>3 DEF Lower, Orders
    <3> QED
      BY <3>1
  <2>3. /\ Cardinality(Lower(R, S, x)) <= Cardinality(Lower(R, S, y))
        /\ Cardinality(Lower(R, S, x)) # Cardinality(Lower(R, S, y))
    BY <1>1, <2>1, <2>2, FS_Subset
  <2> QED
    BY <1>1, <2>3
<1> QED
  BY <1>2, <1>3

\* The sequence has each element once, and has them in their order.
LEMMA ListedIs ==
  ASSUME NEW S, IsFiniteSet(S), NEW R, Orders(R, S)
  PROVE  /\ DOMAIN Listed(R, S) = 1..Cardinality(S) /\ Cardinality(S) \in Nat
         /\ \A n \in 1..Cardinality(S) : Listed(R, S)[n] \in S
         /\ \A x \in S : \E n \in 1..Cardinality(S) : Listed(R, S)[n] = x
         /\ \A m, n \in 1..Cardinality(S) : m < n => <<Listed(R, S)[m], Listed(R, S)[n]>> \in R
         /\ \A m, n \in 1..Cardinality(S) : Listed(R, S)[m] = Listed(R, S)[n] => m = n
         /\ \A n \in 1..Cardinality(S) :
              /\ Cardinality(Lower(R, S, Listed(R, S)[n])) = n - 1
              /\ \A x \in S : Cardinality(Lower(R, S, x)) = n - 1 => x = Listed(R, S)[n]
<1> DEFINE r(x) == Cardinality(Lower(R, S, x))
<1>1. PICK N \in Nat : N = Cardinality(S)
  BY FS_CardinalityType
<1>2. PICK rank : rank = [x \in S |-> r(x)]
  OBVIOUS
<1>3. /\ \A x \in S : r(x) \in 0..(N - 1)
      /\ \A x, y \in S : <<x, y>> \in R => r(x) < r(y)
  BY <1>1, RanksAre
<1>4. \A x, y \in S : r(x) = r(y) => x = y
  <2> SUFFICES ASSUME NEW x \in S, NEW y \in S, x # y PROVE r(x) # r(y)
    OBVIOUS
  <2>1. r(x) < r(y) \/ r(y) < r(x)
    BY <1>3 DEF Orders
  <2>2. r(x) \in Int /\ r(y) \in Int
    BY <1>3
  <2> HIDE DEF r
  <2> QED
    BY <2>1, <2>2
<1> HIDE DEF r
<1>5. rank \in Injection(S, 0..(N - 1))
  <2>1. rank \in [S -> 0..(N - 1)]
    BY <1>2, <1>3
  <2>2. \A x, y \in S : rank[x] = rank[y] => x = y
    BY <1>2, <1>4
  <2> QED
    BY <2>1, <2>2 DEF Injection, IsInjective
<1>6. rank \in Surjection(S, 0..(N - 1))
  <2>1. IsFiniteSet(0..(N - 1)) /\ Cardinality(0..(N - 1)) = N
    <3>1. 0 \in Int /\ N - 1 \in Int
      OBVIOUS
    <3>2. /\ IsFiniteSet(0..(N - 1))
          /\ Cardinality(0..(N - 1)) = IF 0 > N - 1 THEN 0 ELSE (N - 1) - 0 + 1
      BY <3>1, FS_Interval
    <3> QED
      BY <3>2
  <2> QED
    BY <1>1, <1>5, <2>1, FS_Injection
<1>7. \A n \in 1..N : \E x \in S : r(x) = n - 1
  <2> SUFFICES ASSUME NEW n \in 1..N PROVE \E x \in S : rank[x] = n - 1
    BY <1>2
  <2>1. n - 1 \in 0..(N - 1)
    OBVIOUS
  <2> QED
    BY <1>6, <2>1 DEF Surjection
<1>8. /\ Listed(R, S) = [n \in 1..N |-> CHOOSE x \in S : r(x) = n - 1]
  BY <1>1 DEF Listed, r
<1>9. \A n \in 1..N : Listed(R, S)[n] \in S /\ r(Listed(R, S)[n]) = n - 1
  BY <1>7, <1>8
<1>10. \A x \in S : \E n \in 1..N : Listed(R, S)[n] = x
  <2> SUFFICES ASSUME NEW x \in S PROVE \E n \in 1..N : Listed(R, S)[n] = x
    OBVIOUS
  <2>1. PICK n \in 1..N : n = r(x) + 1
    BY <1>3
  <2>2. r(Listed(R, S)[n]) = r(x) /\ Listed(R, S)[n] \in S
    BY <1>3, <1>9, <2>1
  <2> QED
    BY <1>4, <2>1, <2>2
<1>11. \A m, n \in 1..N : m < n => <<Listed(R, S)[m], Listed(R, S)[n]>> \in R
  <2> SUFFICES ASSUME NEW m \in 1..N, NEW n \in 1..N, m < n
               PROVE  <<Listed(R, S)[m], Listed(R, S)[n]>> \in R
    OBVIOUS
  <2>1. PICK x, y : x = Listed(R, S)[m] /\ y = Listed(R, S)[n]
    OBVIOUS
  <2>2. x \in S /\ y \in S /\ r(x) = m - 1 /\ r(y) = n - 1
    BY <1>9, <2>1
  <2>3. x # y /\ ~ (r(y) < r(x))
    BY <2>2
  <2> QED
    BY <1>3, <2>1, <2>2, <2>3 DEF Orders
<1>12. \A m, n \in 1..N : Listed(R, S)[m] = Listed(R, S)[n] => m = n
  <2> SUFFICES ASSUME NEW m \in 1..N, NEW n \in 1..N, Listed(R, S)[m] = Listed(R, S)[n] PROVE m = n
    OBVIOUS
  <2>1. m - 1 = n - 1
    BY <1>9
  <2> QED
    BY <2>1
<1>13. \A n \in 1..N : /\ r(Listed(R, S)[n]) = n - 1
                      /\ \A x \in S : r(x) = n - 1 => x = Listed(R, S)[n]
  BY <1>4, <1>9
<1>14. \A n \in 1..N : /\ Cardinality(Lower(R, S, Listed(R, S)[n])) = n - 1
                      /\ \A x \in S : Cardinality(Lower(R, S, x)) = n - 1 => x = Listed(R, S)[n]
  BY <1>13 DEF r
<1> QED
  BY <1>1, <1>8, <1>9, <1>10, <1>11, <1>12, <1>14

\* A sum over the sequence is a sum over the set.
LEMMA SumListed ==
  ASSUME NEW S, IsFiniteSet(S), NEW R, Orders(R, S), NEW T \in SUBSET S, NEW f, \A x \in S : f[x] \in Int
  PROVE  SumFunctionOnSet([n \in DOMAIN Listed(R, S) |-> f[Listed(R, S)[n]]],
                          {n \in DOMAIN Listed(R, S) : Listed(R, S)[n] \in T})
           = SumFunctionOnSet(f, T)
<1> DEFINE s == Listed(R, S)
           D == DOMAIN s
           U == {n \in D : s[n] \in T}
           g == [n \in D |-> f[s[n]]]
           h == [n \in U |-> f[s[n]]]
<1>1. /\ D = 1..Cardinality(S) /\ Cardinality(S) \in Nat /\ \A n \in D : s[n] \in S
      /\ \A x \in S : \E n \in D : s[n] = x
      /\ \A m, n \in D : s[m] = s[n] => m = n
  BY ListedIs
<1> HIDE DEF s, D
<1>2. IsFiniteSet(U)
  <2>1. IsFiniteSet(D) /\ U \subseteq D
    BY <1>1, FS_Interval
  <2> HIDE DEF U
  <2> QED
    BY <2>1, FS_Subset
<1>3. {s[n] : n \in U} = T
  BY <1>1
<1>4. (\A n \in U : f[s[n]] \in Int) /\ \A m, n \in U : s[m] = s[n] => m = n
  BY <1>1
<1>5. \A n \in U : g[n] = h[n]
  OBVIOUS
<1> HIDE DEF U, g
<1>6. SumFunctionOnSet(f, {s[n] : n \in U}) = SumFunctionOnSet(h, U)
  BY <1>2, <1>4, SumRenamed
<1> HIDE DEF h
<1>7. SumFunctionOnSet(g, U) = SumFunctionOnSet(h, U)
  BY <1>2, <1>5, SumsAgree
<1>8. SumFunctionOnSet(g, U) = SumFunctionOnSet(f, T)
  BY <1>3, <1>6, <1>7
<1> QED
  BY <1>8 DEF g, U, D, s

\* What is added up class by class is added up.
LEMMA SumByClass ==
  ASSUME NEW S, IsFiniteSet(S), NEW c, NEW f, \A x \in S : f[x] \in Int
  PROVE  SumFunction([k \in {c[x] : x \in S} |-> SumFunctionOnSet(f, {x \in S : c[x] = k})])
           = SumFunctionOnSet(f, S)
<1> DEFINE K      == {c[x] : x \in S}
           Of(U)  == {x \in S : c[x] \in U}
           g      == [k \in K |-> SumFunctionOnSet(f, {x \in S : c[x] = k})]
           Bad    == {U \in SUBSET K : SumFunctionOnSet(g, U) # SumFunctionOnSet(f, Of(U))}
<1>1. IsFiniteSet(K)
  <2>1. PICK h : h = [x \in S |-> c[x]]
    OBVIOUS
  <2>2. h \in Surjection(S, K)
    BY <2>1 DEF Surjection
  <2> HIDE DEF K
  <2> QED
    BY <2>2, FS_Surjection
<1>2. \A U \in SUBSET K : IsFiniteSet(Of(U)) /\ IsFiniteSet(U) /\ \A x \in Of(U) : f[x] \in Int
  <2> SUFFICES ASSUME NEW U \in SUBSET K PROVE IsFiniteSet(Of(U)) /\ IsFiniteSet(U)
    OBVIOUS
  <2>1. Of(U) \in SUBSET S
    OBVIOUS
  <2> HIDE DEF Of, K
  <2> QED
    BY <1>1, <2>1, FS_Subset
<1>3. \A k \in K : g[k] = SumFunctionOnSet(f, Of({k})) /\ g[k] \in Int
  <2> SUFFICES ASSUME NEW k \in K PROVE g[k] = SumFunctionOnSet(f, Of({k})) /\ g[k] \in Int
    OBVIOUS
  <2>1. Of({k}) = {x \in S : c[x] = k} /\ {k} \in SUBSET K
    OBVIOUS
  <2>2. g[k] = SumFunctionOnSet(f, Of({k}))
    BY <2>1
  <2> HIDE DEF g, Of, K
  <2>3. SumFunctionOnSet(f, Of({k})) \in Int
    BY <1>2, <2>1, SumIsNumber
  <2> QED
    BY <2>2, <2>3
<1> HIDE DEF g
<1>4. ASSUME Bad # {} PROVE FALSE
  <2>1. PICK U \in Bad : \A V \in Bad : V \subseteq U => V = U
    <3>1. Bad \in SUBSET SUBSET K
      OBVIOUS
    <3> HIDE DEF Bad, K
    <3> QED
      BY <1>1, <1>4, <3>1, SmallestPart
  <2>2. U # {}
    <3> SUFFICES ASSUME U = {} PROVE FALSE
      OBVIOUS
    <3>1. Of(U) = {}
      OBVIOUS
    <3> HIDE DEF Of
    <3>2. SumFunctionOnSet(g, {}) = 0 /\ SumFunctionOnSet(f, {}) = 0
      BY Zenon, SumOfNone
    <3> QED
      BY <2>1, <3>1, <3>2
  <2>3. PICK k \in U : TRUE
    BY <2>2
  <2>4. PICK V \in SUBSET K : V = U \ {k} /\ k \in K /\ k \notin V /\ U = V \cup {k}
    <3>1. U \in SUBSET K
      BY <2>1
    <3> HIDE DEF K
    <3>2. PICK V : V = U \ {k}
      OBVIOUS
    <3> QED
      BY <2>3, <3>1, <3>2
  <2>5. Of(U) = Of(V) \cup Of({k}) /\ Of(V) \cap Of({k}) = {}
    BY <2>4
  <2>6. SumFunctionOnSet(g, V) = SumFunctionOnSet(f, Of(V))
    BY <2>1, <2>3, <2>4
  <2>7. {k} \in SUBSET K
    BY <2>4
  <2> HIDE DEF Of, K, Bad
  <2>8. SumFunctionOnSet(f, Of(U)) = SumFunctionOnSet(f, Of(V)) + SumFunctionOnSet(f, Of({k}))
    <3>1. /\ IsFiniteSet(Of(V)) /\ IsFiniteSet(Of({k}))
          /\ \A x \in Of(V) \cup Of({k}) : f[x] \in Int
      BY <1>2, <2>4, <2>7
    <3>2. SumFunctionOnSet(f, Of(V) \cup Of({k})) = SumFunctionOnSet(f, Of(V)) + SumFunctionOnSet(f, Of({k}))
      BY <2>5, <3>1, SumOfParts
    <3> QED
      BY <2>5, <3>2
  <2>9. SumFunctionOnSet(g, V \cup {k}) = SumFunctionOnSet(g, V) + g[k]
    <3>1. IsFiniteSet(V) /\ \A x \in V \cup {k} : g[x] \in Int
      BY <1>2, <1>3, <2>4
    <3> QED
      BY <2>4, <3>1, SumOfMore
  <2>10. SumFunctionOnSet(g, U) = SumFunctionOnSet(f, Of(U))
    BY <1>3, <2>4, <2>6, <2>8, <2>9
  <2> QED
    BY <2>1, <2>10 DEF Bad
<1>5. SumFunctionOnSet(g, K) = SumFunctionOnSet(f, Of(K))
  <2>1. K \notin Bad /\ K \in SUBSET K
    BY <1>4
  <2> HIDE DEF Of, K
  <2> QED
    BY <2>1
<1>6. Of(K) = S
  OBVIOUS
<1>7. SumFunction(g) = SumFunctionOnSet(g, K)
  <2>1. DOMAIN g = K
    BY DEF g
  <2> HIDE DEF K
  <2> QED
    BY <2>1 DEF SumFunction
<1> QED
  BY <1>5, <1>6, <1>7 DEF g
=============================================================================
