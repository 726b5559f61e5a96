--------------------------- MODULE WebbenchProofs ---------------------------
(***************************************************************************)
(* Theorems about Webbench, for any number of children and of requests:    *)
(* what a child reports, and that the parent's sums are the children's.    *)
(***************************************************************************)
EXTENDS Webbench, FiniteSetTheorems, TLAPS

-----------------------------------------------------------------------------
(* Sums over finite sets.  The fold is a function that is defined by       *)
(* recursion on the subsets; what it adds up is proved by induction on     *)
(* them, in the form of a smallest subset that would be an exception.      *)

\* g adds up f over every subset of S, in the order the fold does
Adds(g, f, S) ==
    g = [s \in SUBSET S |->
            IF s = {} THEN 0
            ELSE LET x == CHOOSE x \in s : TRUE IN f[x] + g[s \ {x}]]

Chosen(s) == CHOOSE x \in s : TRUE

LEMMA SumIs ==
    ASSUME NEW f, NEW S
    PROVE  Sum(f, S) = (CHOOSE g : Adds(g, f, S))[S]
BY DEF Sum, SumFunctionOnSet, FoldFunctionOnSet, MapThenFoldSet, Adds

\* induction on subsets: of some subsets of a finite set, one has no other below it
LEMMA Smallest ==
    ASSUME NEW S, IsFiniteSet(S), NEW F, F \subseteq SUBSET S, F # {}
    PROVE  \E s \in F : \A t \in F : t \subseteq s => t = s
<1>1. IsWellFoundedOn(StrictSubsetOrdering(S), SUBSET S)
    BY FS_StrictSubsetOrderingWellFounded, FS_FiniteSubsetsOfFinite
<1>2. PICK s \in F : \A t \in F : <<t, s>> \notin StrictSubsetOrdering(S)
    BY <1>1, WFMin, Zenon
<1>3. \A t \in F : t \subseteq s => t = s
    BY <1>2 DEF StrictSubsetOrdering
<1> QED
    BY <1>3

LEMMA AddsAt ==
    ASSUME NEW f, NEW g, NEW S, Adds(g, f, S), NEW s \in SUBSET S
    PROVE  /\ s = {} => g[s] = 0
           /\ s # {} => g[s] = f[Chosen(s)] + g[s \ {Chosen(s)}]
BY Zenon DEF Adds, Chosen

LEMMA ChosenIn ==
    ASSUME NEW s, s # {}
    PROVE  Chosen(s) \in s
BY DEF Chosen

\* there is no more than one such function
LEMMA AddsSame ==
    ASSUME NEW S, IsFiniteSet(S), NEW f, NEW g, NEW h, NEW G, NEW H,
           S \subseteq G, S \subseteq H, Adds(g, f, G), Adds(h, f, H)
    PROVE  g[S] = h[S]
<1> DEFINE F == {s \in SUBSET S : g[s] # h[s]}
<1> SUFFICES ASSUME F # {} PROVE FALSE
    OBVIOUS
<1>1. PICK s \in F : \A t \in F : t \subseteq s => t = s
  <2>1. F \subseteq SUBSET S
    OBVIOUS
  <2> HIDE DEF F
  <2> QED
    BY <2>1, Smallest
<1>2. s \in SUBSET G /\ s \in SUBSET H
    OBVIOUS
<1>3. CASE s = {}
  <2>1. g[s] = 0 /\ h[s] = 0
    BY <1>2, <1>3, AddsAt
  <2> QED
    BY <2>1
<1>4. CASE s # {}
  <2> DEFINE x == Chosen(s)
  <2>1. s \ {x} \in SUBSET S /\ s \ {x} # s
    BY <1>4, ChosenIn
  <2>2. g[s \ {x}] = h[s \ {x}]
    BY <1>1, <2>1
  <2>3. g[s] = f[x] + g[s \ {x}] /\ h[s] = f[x] + h[s \ {x}]
    BY <1>2, <1>4, AddsAt
  <2> QED
    BY <2>2, <2>3
<1> QED
    BY <1>3, <1>4

\* and there is one, put together from those for the smaller sets
LEMMA AddsThere ==
    ASSUME NEW S, IsFiniteSet(S), NEW f
    PROVE  \E g : Adds(g, f, S)
<1> DEFINE F == {s \in SUBSET S : ~ \E g : Adds(g, f, s)}
<1> SUFFICES ASSUME F # {} PROVE FALSE
    BY Zenon
<1>1. PICK s \in F : \A t \in F : t \subseteq s => t = s
  <2>1. F \subseteq SUBSET S
    OBVIOUS
  <2> HIDE DEF F
  <2> QED
    BY <2>1, Smallest
<1> DEFINE G(t) == CHOOSE g : Adds(g, f, t)
           H(t) == IF t = {} THEN 0 ELSE f[Chosen(t)] + G(t \ {Chosen(t)})[t \ {Chosen(t)}]
           h == [t \in SUBSET s |-> H(t)]
<1>2. ASSUME NEW t \in SUBSET s, t # s
      PROVE  IsFiniteSet(t) /\ Adds(G(t), f, t)
  <2>1. t \notin F /\ t \in SUBSET S
    BY <1>1, <1>2
  <2>2. \E g : Adds(g, f, t)
    BY <2>1
  <2> QED
    BY <2>1, <2>2, FS_Subset, Zenon
<1> HIDE DEF G
<1>3. ASSUME NEW t \in SUBSET s, t # s
      PROVE  H(t) = G(t)[t]
  <2> DEFINE u == t \ {Chosen(t)}
  <2>1. t \in SUBSET t /\ Adds(G(t), f, t)
    BY <1>2, <1>3, Zenon
  <2>2. CASE t = {}
    <3>1. G(t)[t] = 0
        BY <2>1, <2>2, AddsAt
    <3> QED
        BY <2>2, <3>1
  <2>3. CASE t # {}
    <3>1. u \in SUBSET s /\ u # s /\ u \subseteq t
        BY <1>3, <2>3, ChosenIn
    <3>2. IsFiniteSet(u) /\ Adds(G(u), f, u)
        BY <1>2, <3>1, Zenon
    <3>3. G(t)[u] = G(u)[u]
        BY <2>1, <3>1, <3>2, AddsSame
    <3>4. G(t)[t] = f[Chosen(t)] + G(t)[u]
        BY <2>1, <2>3, AddsAt
    <3> QED
        BY <2>3, <3>3, <3>4, Zenon
  <2> QED
    BY <2>2, <2>3
<1>4. ASSUME NEW t \in SUBSET s
      PROVE  H(t) = IF t = {} THEN 0 ELSE f[Chosen(t)] + h[t \ {Chosen(t)}]
  <2>1. CASE t # {}
    <3>1. t \ {Chosen(t)} \in SUBSET s /\ t \ {Chosen(t)} # s
        BY <2>1, ChosenIn
    <3>2. h[t \ {Chosen(t)}] = G(t \ {Chosen(t)})[t \ {Chosen(t)}]
        BY <1>3, <3>1, Zenon
    <3> QED
        BY <2>1, <3>2, Zenon
  <2> QED
    BY <2>1
<1>5. Adds(h, f, s)
  <2> HIDE DEF H
  <2>1. h = [t \in SUBSET s |-> H(t)]
    OBVIOUS
  <2> HIDE DEF h
  <2> QED
    BY <1>4, <2>1 DEF Adds, Chosen
<1> QED
    BY <1>5, <1>1, Zenon

\* the equations of a sum, with the summand the fold chooses
LEMMA SumChosen ==
    ASSUME NEW S, IsFiniteSet(S), NEW f
    PROVE  /\ S = {} => Sum(f, S) = 0
           /\ S # {} => Sum(f, S) = f[Chosen(S)] + Sum(f, S \ {Chosen(S)})
<1> DEFINE G(t) == CHOOSE g : Adds(g, f, t)
           u == S \ {Chosen(S)}
<1>1. IsFiniteSet(u) /\ u \subseteq S /\ S \in SUBSET S
    BY FS_Subset
<1>2. Adds(G(S), f, S) /\ Adds(G(u), f, u)
    BY <1>1, AddsThere, Zenon
<1>3. Sum(f, S) = G(S)[S] /\ Sum(f, u) = G(u)[u]
    BY SumIs
<1> HIDE DEF G
<1>4. G(S)[u] = G(u)[u]
    BY <1>1, <1>2, AddsSame
<1>5. S = {} => G(S)[S] = 0
    BY <1>1, <1>2, AddsAt, Zenon
<1>6. S # {} => G(S)[S] = f[Chosen(S)] + G(S)[u]
  <2>1. ASSUME NEW g, Adds(g, f, S), S # {} PROVE g[S] = f[Chosen(S)] + g[u]
    BY <1>1, <2>1, AddsAt
  <2> QED
    BY <1>2, <2>1
<1> QED
    BY <1>3, <1>4, <1>5, <1>6

\* a sum of natural numbers is one
LEMMA SumType ==
    ASSUME NEW S, IsFiniteSet(S), NEW f, \A x \in S : f[x] \in Nat
    PROVE  Sum(f, S) \in Nat
<1> DEFINE F == {s \in SUBSET S : Sum(f, s) \notin Nat}
<1> SUFFICES ASSUME F # {} PROVE FALSE
    OBVIOUS
<1>1. PICK s \in F : \A t \in F : t \subseteq s => t = s
  <2>1. F \subseteq SUBSET S
    OBVIOUS
  <2> HIDE DEF F
  <2> QED
    BY <2>1, Smallest
<1>2. IsFiniteSet(s)
    BY FS_Subset
<1>3. s # {}
  <2>1. s = {} => Sum(f, s) = 0
    BY <1>2, SumChosen, Zenon
  <2> QED
    BY <2>1
<1>4. Chosen(s) \in s /\ s \ {Chosen(s)} \in SUBSET S /\ s \ {Chosen(s)} # s
    BY <1>3, ChosenIn
<1>5. Sum(f, s \ {Chosen(s)}) \in Nat /\ f[Chosen(s)] \in Nat
    BY <1>1, <1>4
<1> QED
    BY <1>2, <1>3, <1>5, SumChosen

\* any summand may be taken first
LEMMA SumTake ==
    ASSUME NEW S, IsFiniteSet(S), NEW f, \A x \in S : f[x] \in Nat, NEW x \in S
    PROVE  Sum(f, S) = f[x] + Sum(f, S \ {x})
<1> DEFINE F == {s \in SUBSET S : \E y \in s : Sum(f, s) # f[y] + Sum(f, s \ {y})}
<1> SUFFICES ASSUME F # {} PROVE FALSE
    OBVIOUS
<1>1. PICK s \in F : \A t \in F : t \subseteq s => t = s
  <2>1. F \subseteq SUBSET S
    OBVIOUS
  <2> HIDE DEF F
  <2> QED
    BY <2>1, Smallest
<1>2. PICK y \in s : Sum(f, s) # f[y] + Sum(f, s \ {y})
    OBVIOUS
<1> DEFINE c == Chosen(s)
<1>3. c \in s
    BY <1>2, ChosenIn
<1>4. s \in SUBSET S /\ IsFiniteSet(s)
    BY FS_Subset
<1>5. Sum(f, s) = f[c] + Sum(f, s \ {c})
    BY <1>2, <1>4, SumChosen
<1>6. c # y
    BY <1>2, <1>5
<1>7. s \ {c} \notin F /\ s \ {y} \notin F
    BY <1>1, <1>2, <1>3
<1>8. s \ {c} \in SUBSET S /\ s \ {y} \in SUBSET S
    BY <1>4
<1>9. /\ Sum(f, s \ {c}) = f[y] + Sum(f, (s \ {c}) \ {y})
      /\ Sum(f, s \ {y}) = f[c] + Sum(f, (s \ {y}) \ {c})
    BY <1>2, <1>3, <1>6, <1>7, <1>8
<1>10. (s \ {c}) \ {y} = (s \ {y}) \ {c}
    OBVIOUS
<1>11. IsFiniteSet((s \ {c}) \ {y}) /\ \A z \in (s \ {c}) \ {y} : f[z] \in Nat
    BY <1>4, FS_Subset
<1>12. Sum(f, (s \ {c}) \ {y}) \in Nat /\ f[c] \in Nat /\ f[y] \in Nat
    BY <1>2, <1>3, <1>4, <1>11, SumType
<1> DEFINE B == Sum(f, (s \ {c}) \ {y})
<1>13. Sum(f, s) = f[c] + (f[y] + B) /\ Sum(f, s \ {y}) = f[c] + B
    BY <1>5, <1>9, <1>10, Zenon
<1>14. B \in Nat /\ f[c] \in Nat /\ f[y] \in Nat
    BY <1>12
<1> HIDE DEF F, c, B
<1> QED
    BY <1>2, <1>13, <1>14

\* one summand more
LEMMA SumAdd ==
    ASSUME NEW S, IsFiniteSet(S), NEW x, x \notin S, NEW f, \A y \in S \cup {x} : f[y] \in Nat
    PROVE  Sum(f, S \cup {x}) = Sum(f, S) + f[x]
<1>1. IsFiniteSet(S \cup {x})
    BY FS_AddElement
<1>2. x \in S \cup {x} /\ (S \cup {x}) \ {x} = S
    OBVIOUS
<1>3. Sum(f, S \cup {x}) = f[x] + Sum(f, S)
  <2> DEFINE T == S \cup {x}
  <2>1. IsFiniteSet(T) /\ x \in T /\ T \ {x} = S /\ \A y \in T : f[y] \in Nat
    BY <1>1, <1>2
  <2> HIDE DEF T
  <2>2. Sum(f, T) = f[x] + Sum(f, T \ {x})
    BY <2>1, SumTake
  <2> QED
    BY <2>1, <2>2 DEF T
<1>4. Sum(f, S) \in Nat /\ f[x] \in Nat
    BY SumType
<1> QED
    BY <1>3, <1>4

\* a sum depends on its summands only, and not on what they are called
LEMMA SumRenamed ==
    ASSUME NEW S, IsFiniteSet(S), NEW f, NEW h, NEW T, NEW r \in Bijection(S, T),
           \A x \in S : f[x] \in Nat /\ h[r[x]] = f[x]
    PROVE  Sum(h, T) = Sum(f, S)
<1> DEFINE Img(s) == {r[x] : x \in s}
           F == {s \in SUBSET S : Sum(h, Img(s)) # Sum(f, s)}
<1>0. Img(S) = T /\ \A x, y \in S : r[x] = r[y] => x = y
    BY DEF Bijection, Injection, Surjection, IsInjective
<1> SUFFICES ASSUME F # {} PROVE FALSE
    BY <1>0
<1>1. PICK s \in F : \A t \in F : t \subseteq s => t = s
  <2>1. F \subseteq SUBSET S
    OBVIOUS
  <2> HIDE DEF F
  <2> QED
    BY <2>1, Smallest
<1>2. s \in SUBSET S /\ IsFiniteSet(s)
    BY FS_Subset
<1>3. s # {}
  <2>1. Img({}) = {} /\ IsFiniteSet({})
    BY FS_EmptySet
  <2>2. Sum(h, {}) = 0 /\ Sum(f, {}) = 0
    BY <2>1, SumChosen
  <2> QED
    BY <2>1, <2>2
<1>4. PICK x \in s : TRUE
    BY <1>3
<1>5. s \ {x} \in SUBSET S /\ s \ {x} \notin F
    BY <1>1, <1>2, <1>4
<1>6. Sum(h, Img(s \ {x})) = Sum(f, s \ {x})
    BY <1>5
<1>7. r[x] \in Img(s) /\ Img(s) \ {r[x]} = Img(s \ {x})
    BY <1>0, <1>2, <1>4
<1>8. IsFiniteSet(Img(s)) /\ \A y \in Img(s) : h[y] \in Nat
  <2> DEFINE g == [y \in s |-> r[y]]
  <2>1. g \in Surjection(s, Img(s))
    BY DEF Surjection
  <2>2. IsFiniteSet(Img(s))
    BY <1>2, <2>1, FS_Surjection
  <2> QED
    BY <1>2, <2>2
<1>9. Sum(f, s) = f[x] + Sum(f, s \ {x})
    BY <1>2, <1>4, SumTake
<1>10. Sum(h, Img(s)) = h[r[x]] + Sum(h, Img(s) \ {r[x]})
  <2> HIDE DEF Img
  <2> QED
    BY <1>7, <1>8, SumTake
<1>11. h[r[x]] = f[x]
    BY <1>2, <1>4
<1> QED
    BY <1>6, <1>7, <1>9, <1>10, <1>11

LEMMA SumSame ==
    ASSUME NEW S, IsFiniteSet(S), NEW f, NEW h, \A x \in S : f[x] \in Nat /\ h[x] = f[x]
    PROVE  Sum(h, S) = Sum(f, S)
<1> DEFINE r == [x \in S |-> x]
<1>1. r \in Bijection(S, S)
    BY DEF Bijection, Injection, Surjection, IsInjective
<1>2. \A x \in S : f[x] \in Nat /\ h[r[x]] = f[x]
    OBVIOUS
<1> HIDE DEF r
<1> QED
    BY <1>1, <1>2, SumRenamed

LEMMA FirstNumbers ==
    ASSUME NEW n \in Nat
    PROVE  /\ IsFiniteSet(1 .. n) /\ IsFiniteSet(1 .. n + 1)
           /\ 1 .. n + 1 = (1 .. n) \cup {n + 1} /\ n + 1 \notin 1 .. n
           /\ (1 .. n + 1) \ {1} = 2 .. n + 1 /\ 1 \in 1 .. n + 1
<1>1. IsFiniteSet(1 .. n) /\ IsFiniteSet(1 .. n + 1)
  <2>1. 1 \in Int /\ n \in Int /\ n + 1 \in Int
    OBVIOUS
  <2> QED
    BY <2>1, FS_Interval
<1>2. 1 .. n + 1 = (1 .. n) \cup {n + 1} /\ n + 1 \notin 1 .. n
    OBVIOUS
<1>3. (1 .. n + 1) \ {1} = 2 .. n + 1 /\ 1 \in 1 .. n + 1
    OBVIOUS
<1> QED
    BY <1>1, <1>2, <1>3

\* the sum over a queue when it grows
LEMMA SumAppend ==
    ASSUME NEW n \in Nat, NEW f, NEW h,
           \A i \in 1 .. n : f[i] \in Nat /\ h[i] = f[i], h[n + 1] \in Nat
    PROVE  Sum(h, 1 .. n + 1) = Sum(f, 1 .. n) + h[n + 1]
<1>1. IsFiniteSet(1 .. n) /\ n + 1 \notin 1 .. n /\ 1 .. n + 1 = (1 .. n) \cup {n + 1}
    BY FirstNumbers
<1>2. Sum(h, 1 .. n) = Sum(f, 1 .. n)
    BY <1>1, SumSame
<1>3. \A i \in (1 .. n) \cup {n + 1} : h[i] \in Nat
    OBVIOUS
<1>4. Sum(h, (1 .. n) \cup {n + 1}) = Sum(h, 1 .. n) + h[n + 1]
    BY <1>1, <1>3, SumAdd
<1> QED
    BY <1>1, <1>2, <1>4

\* and when its head is taken
LEMMA SumTail ==
    ASSUME NEW n \in Nat, NEW f, NEW h,
           \A i \in 1 .. n : f[i] \in Nat /\ h[i + 1] = f[i], h[1] \in Nat
    PROVE  Sum(h, 1 .. n + 1) = h[1] + Sum(f, 1 .. n)
<1> DEFINE r == [i \in 1 .. n |-> i + 1]
<1>1. IsFiniteSet(1 .. n + 1) /\ 1 \in 1 .. n + 1 /\ (1 .. n + 1) \ {1} = 2 .. n + 1
    BY FirstNumbers
<1>2. r \in Bijection(1 .. n, 2 .. n + 1)
  <2>1. r \in [1 .. n -> 2 .. n + 1] /\ \A i, j \in 1 .. n : r[i] = r[j] => i = j
    OBVIOUS
  <2>2. \A j \in 2 .. n + 1 : j - 1 \in 1 .. n /\ r[j - 1] = j
    OBVIOUS
  <2> HIDE DEF r
  <2> QED
    BY <2>1, <2>2 DEF Bijection, Injection, Surjection, IsInjective
<1>3. Sum(h, 2 .. n + 1) = Sum(f, 1 .. n)
  <2> DEFINE S == 1 .. n
             T == 2 .. n + 1
  <2>1. IsFiniteSet(S) /\ \A i \in S : f[i] \in Nat /\ h[r[i]] = f[i]
    BY FirstNumbers
  <2>2. r \in Bijection(S, T)
    BY <1>2
  <2> HIDE DEF r, S, T
  <2>3. Sum(h, T) = Sum(f, S)
    BY <2>1, <2>2, SumRenamed
  <2> QED
    BY <2>3 DEF S, T
<1>4. \A i \in 1 .. n + 1 : h[i] \in Nat
  <2>1. \A i \in 2 .. n + 1 : i - 1 \in 1 .. n /\ h[(i - 1) + 1] = f[i - 1] /\ (i - 1) + 1 = i
    OBVIOUS
  <2> QED
    BY <2>1
<1>5. Sum(h, 1 .. n + 1) = h[1] + Sum(h, (1 .. n + 1) \ {1})
    BY <1>1, <1>4, SumTake
<1> QED
    BY <1>1, <1>3, <1>5

-----------------------------------------------------------------------------
(* The invariant.                                                          *)

USE ClientsAssumption

Counts == [speed : Nat, failed : Nat]

Places == {"unborn", "sleep", "top", "connect", "write", "check", "read", "close", "cut",
           "report", "gone", "dead"}

Typed ==
    /\ force \in BOOLEAN
    /\ parent \in [at : {"probe", "fork", "collect", "done", "failed"},
                   left : Int, speed : Nat, failed : Nat]
    /\ pipe \in Seq(Counts)
    /\ at \in [Children -> Places] /\ alarm \in [Children -> {"unset", "set", "fired"}]
    /\ count \in [Children -> Counts]
    /\ whole \in [Children -> Nat] /\ refused \in [Children -> Nat]

Less(k) == IF refused[k] > 0 THEN refused[k] - 1 ELSE 0

Exact(k) == count[k].speed = whole[k] /\ count[k].failed = refused[k]

\* how a child's counts differ from what happened to its requests: until the alarm
\* in nothing, then by the request it ended, and in the end by what was taken back
CountedAt(k) ==
    CASE at[k] \in {"report", "gone"} ->
            \/ Exact(k)
            \/ count[k].speed \in {whole[k], whole[k] + 1} /\ count[k].failed = Less(k)
      [] at[k] = "dead" -> TRUE
      [] at[k] \notin {"report", "gone", "dead"} /\ alarm[k] # "fired" ->
            Exact(k) /\ at[k] # "cut"
      [] OTHER ->
            \/ Exact(k)
            \/ /\ at[k] = "top"
               /\ \/ count[k].speed = whole[k] /\ count[k].failed = refused[k] + 1
                  \/ count[k].speed = whole[k] + 1 /\ count[k].failed = refused[k]

Counted == \A k \in Children : CountedAt(k)

\* what has been reported is with the parent or in the pipe
Balance ==
    /\ Len(pipe) <= Cardinality(Gone)
    /\ parent.left = Clients - (Cardinality(Gone) - Len(pipe))
    /\ parent.at = "done" <=> parent.left = 0
    /\ parent.speed + Sum(Speeds(pipe), DOMAIN pipe) = Sum(Speeds(count), Gone)
    /\ parent.failed + Sum(Failures(pipe), DOMAIN pipe) = Sum(Failures(count), Gone)

Safe == Typed /\ Counted /\ Balance

\* there are as many children as clients
LEMMA ManyChildren ==
    /\ IsFiniteSet(Children) /\ Cardinality(Children) = Clients
    /\ \A S \in SUBSET Children :
          /\ IsFiniteSet(S) /\ Cardinality(S) \in 0 .. Clients
          /\ Cardinality(S) = Clients => S = Children
<1>1. IsFiniteSet(Children) /\ Cardinality(Children) = Clients
  <2>1. 1 \in Int /\ Clients \in Int /\ ~(1 > Clients)
    OBVIOUS
  <2> QED
    BY <2>1, FS_Interval DEF Children
<1>2. ASSUME NEW S \in SUBSET Children
      PROVE  /\ IsFiniteSet(S) /\ Cardinality(S) \in 0 .. Clients
             /\ Cardinality(S) = Clients => S = Children
    BY <1>1, FS_Subset, FS_CardinalityType
<1> QED
    BY <1>1, <1>2

LEMMA InitSafe == Init => Safe
<1> SUFFICES ASSUME Init PROVE Safe
    OBVIOUS
<1> USE DEF Init
<1>1. Typed
  <2>1. pipe \in Seq(Counts)
    OBVIOUS
  <2> QED
    BY <2>1 DEF Typed, Counts, Places
<1>2. Counted
    BY DEF Counted, CountedAt, Exact
<1>3. Balance
  <2>1. Gone = {} /\ DOMAIN pipe = {} /\ Len(pipe) = 0
    BY DEF Gone
  <2>2. Cardinality({}) = 0 /\ IsFiniteSet({})
    BY FS_EmptySet
  <2>3. \A f : Sum(f, {}) = 0
    BY <2>2, SumChosen
  <2> QED
    BY <2>1, <2>2, <2>3 DEF Balance
<1> QED
    BY <1>1, <1>2, <1>3 DEF Safe

-----------------------------------------------------------------------------
(* A child.                                                                *)

\* a step of k's own, which is not its report
Local(k) ==
    /\ UNCHANGED <<force, parent, pipe>>
    /\ k \in Alive /\ at'[k] # "gone"
    /\ Typed'
    /\ \A j \in Children \ {k} :
          UNCHANGED <<at[j], alarm[j], count[j], whole[j], refused[j]>>

ChildStep(k) == \/ SetAlarm(k) \/ Top(k) \/ Connect(k) \/ Write(k) \/ Check(k) \/ Read(k)
                \/ Close(k) \/ Alarm(k) \/ Die(k)

\* nothing of another child's, and k's own of the right type
Moving(k) == /\ at' \in [Children -> Places] /\ k \in Alive /\ at'[k] # "gone"
              /\ \A j \in Children \ {k} : at'[j] = at[j]

Counting(k) == /\ count' \in [Children -> Counts] /\ refused' \in [Children -> Nat]
               /\ \A j \in Children \ {k} : count'[j] = count[j] /\ refused'[j] = refused[j]

\* a count of a child's
LEMMA CountOne ==
    ASSUME NEW f \in [Children -> Counts], NEW k \in Children, NEW n \in Nat
    PROVE  /\ [f EXCEPT ![k].failed = n] \in [Children -> Counts]
           /\ [f EXCEPT ![k].speed = n] \in [Children -> Counts]
           /\ \A j \in Children \ {k} : /\ [f EXCEPT ![k].failed = n][j] = f[j]
                                        /\ [f EXCEPT ![k].speed = n][j] = f[j]
BY DEF Counts

LEMMA FailsCounting ==
    ASSUME Typed, NEW k \in Children, Fails(k)
    PROVE  Counting(k)
<1> USE DEF Typed
<1>1. count[k].failed + 1 \in Nat
    BY DEF Counts
<1>2. count' = [count EXCEPT ![k].failed = count[k].failed + 1]
    BY DEF Fails
<1>3. count' \in [Children -> Counts] /\ \A j \in Children \ {k} : count'[j] = count[j]
    BY <1>1, <1>2, CountOne
<1> QED
    BY <1>3 DEF Fails, Counting

LEMMA SameCounting ==
    ASSUME Typed, NEW k \in Children, UNCHANGED <<count, refused>>
    PROVE  Counting(k)
BY DEF Typed, Counting

LEMMA GoesMoving ==
    ASSUME Typed, NEW k \in Children, NEW from \in Places \ {"unborn", "gone", "dead"},
           NEW to \in Places \ {"gone"}, Goes(k, from, to)
    PROVE  Moving(k)
BY DEF Typed, Moving, Goes, Alive, Places

LEMMA ChildLocal ==
    ASSUME Typed, NEW k \in Children, ChildStep(k)
    PROVE  Local(k)
<1> USE DEF Typed
<1>1. CASE SetAlarm(k)
    BY <1>1 DEF SetAlarm, Goes, Alive, Places, Local
<1>2. CASE Top(k)
  <2>1. Moving(k)
    BY <1>2, GoesMoving DEF Top, Places
  <2>2. Counting(k)
    <3>1. CASE UNCHANGED count
        BY <1>2, <3>1, SameCounting DEF Top
    <3>2. CASE count' = [count EXCEPT ![k].failed = IF @ > 0 THEN @ - 1 ELSE @]
        <4> DEFINE n == IF count[k].failed > 0 THEN count[k].failed - 1 ELSE count[k].failed
        <4>1. n \in Nat
            BY DEF Counts
        <4>2. count' = [count EXCEPT ![k].failed = n]
            BY <3>2
        <4> HIDE DEF n
        <4>3. /\ count' \in [Children -> Counts]
              /\ \A j \in Children \ {k} : count'[j] = count[j]
            BY <4>1, <4>2, CountOne
        <4> QED
            BY <1>2, <4>3 DEF Top, Counting
    <3> QED
        BY <1>2, <3>1, <3>2 DEF Top
  <2> QED
    BY <1>2, <2>1, <2>2 DEF Top, Only, Local, Moving, Counting
<1>3. CASE Connect(k)
  <2>1. Moving(k)
    BY <1>3, GoesMoving DEF Connect, Places
  <2>2. Counting(k)
    BY <1>3, FailsCounting, SameCounting DEF Connect
  <2> QED
    BY <1>3, <2>1, <2>2 DEF Connect, Only, Local, Moving, Counting
<1>4. CASE Write(k)
  <2>1. Moving(k)
    BY <1>4, GoesMoving DEF Write, Places
  <2>2. Counting(k)
    BY <1>4, FailsCounting, SameCounting DEF Write
  <2> QED
    BY <1>4, <2>1, <2>2 DEF Write, Only, Local, Moving, Counting
<1>5. CASE Check(k)
    BY <1>5 DEF Check, Goes, Only, Alive, Places, Local
<1>6. CASE Read(k)
  <2>1. Moving(k)
    BY <1>6, GoesMoving DEF Read, Places
  <2>2. Counting(k)
    BY <1>6, FailsCounting, SameCounting DEF Read
  <2> QED
    BY <1>6, <2>1, <2>2 DEF Read, Only, Local, Moving, Counting
<1>7. CASE Close(k)
  <2>1. Moving(k)
    BY <1>7 DEF Close, Moving, Alive, Places
  <2>2. CASE Fails(k) /\ UNCHANGED whole
    <3>1. Counting(k)
        BY <2>2, FailsCounting
    <3> QED
        BY <1>7, <2>1, <2>2, <3>1 DEF Close, Only, Local, Moving, Counting
  <2>3. CASE /\ count' = [count EXCEPT ![k].speed = @ + 1]
             /\ whole' = [whole EXCEPT ![k] = IF at[k] = "close" THEN @ + 1 ELSE @]
             /\ UNCHANGED refused
    <3>1. count[k].speed + 1 \in Nat
        BY DEF Counts
    <3>2. count' = [count EXCEPT ![k].speed = count[k].speed + 1]
        BY <2>3
    <3>3. count' \in [Children -> Counts] /\ \A j \in Children \ {k} : count'[j] = count[j]
        BY <3>1, <3>2, CountOne
    <3>4. whole' \in [Children -> Nat] /\ \A j \in Children \ {k} : whole'[j] = whole[j]
        BY <2>3
    <3> QED
        BY <1>7, <2>1, <2>3, <3>3, <3>4 DEF Close, Only, Local, Moving
  <2> QED
    BY <1>7, <2>2, <2>3 DEF Close
<1>8. CASE Alarm(k)
  <2>1. Moving(k)
    BY <1>8 DEF Alarm, Moving, Alive, Places
  <2>2. count' \in [Children -> Counts] /\ \A j \in Children \ {k} : count'[j] = count[j]
    <3>1. count[k].failed + 1 \in Nat
        BY DEF Counts
    <3>2. CASE count' = count
        BY <3>2
    <3>3. CASE count' = [count EXCEPT ![k].failed = count[k].failed + 1]
        BY <3>1, <3>3, CountOne
    <3> QED
        BY <1>8, <3>2, <3>3 DEF Alarm
  <2>3. /\ alarm' \in [Children -> {"unset", "set", "fired"}]
        /\ \A j \in Children \ {k} : alarm'[j] = alarm[j]
    BY <1>8 DEF Alarm
  <2> QED
    BY <1>8, <2>1, <2>2, <2>3 DEF Alarm, Local, Moving
<1>9. CASE Die(k)
    BY <1>9 DEF Die, Alive, Places, Local
<1> QED
    BY <1>1, <1>2, <1>3, <1>4, <1>5, <1>6, <1>7, <1>8, <1>9 DEF ChildStep

LEMMA ChildCounted ==
    ASSUME Typed, NEW k \in Children, CountedAt(k), ChildStep(k)
    PROVE  CountedAt(k)'
<1> USE DEF Typed, Goes, Only, Places, Alive, Counts, CountedAt, Exact
<1>1. CASE SetAlarm(k)
    BY <1>1 DEF SetAlarm
<1>2. CASE Top(k)
    BY <1>2 DEF Top, Less
<1>3. CASE Connect(k)
    BY <1>3 DEF Connect, Fails
<1>4. CASE Write(k)
    BY <1>4 DEF Write, Fails
<1>5. CASE Check(k)
    BY <1>5 DEF Check
<1>6. CASE Read(k)
    BY <1>6 DEF Read, Fails
<1>7. CASE Close(k)
    BY <1>7 DEF Close, Fails
<1>8. CASE Alarm(k)
  <2>1. /\ alarm[k] = "set" /\ alarm'[k] = "fired" /\ k \in Alive
        /\ at[k] # "report" => Exact(k) /\ at[k] # "cut"
        /\ whole'[k] = whole[k] /\ refused'[k] = refused[k]
    BY <1>8 DEF Alarm
  <2>2. CASE UNCHANGED <<at, count>>
    BY <2>1, <2>2 DEF Less
  <2>3. CASE /\ at[k] \in {"connect", "read"} /\ at' = [at EXCEPT ![k] = "top"]
             /\ count' = [count EXCEPT ![k].failed = @ + 1]
    <3>1. at'[k] = "top"
        BY <2>3
    <3>2. count'[k].speed = count[k].speed /\ count'[k].failed = count[k].failed + 1
        BY <2>3
    <3> QED
        BY <2>1, <2>3, <3>1, <3>2
  <2> QED
    BY <1>8, <2>2, <2>3 DEF Alarm
<1>9. CASE Die(k)
    BY <1>9 DEF Die
<1> QED
    BY <1>1, <1>2, <1>3, <1>4, <1>5, <1>6, <1>7, <1>8, <1>9 DEF ChildStep

-----------------------------------------------------------------------------
(* The balance.                                                            *)

\* a step that nobody reports in keeps it
LEMMA BalanceSame ==
    ASSUME Typed, Typed', Balance, Gone' = Gone, UNCHANGED <<parent, pipe>>,
           \A j \in Gone : count'[j] = count[j]
    PROVE  Balance'
<1>1. IsFiniteSet(Gone)
    BY ManyChildren DEF Gone
<1>2. \A j \in Gone : j \in Children
    BY DEF Gone
<1>3. /\ \A j \in Gone : Speeds(count)[j] \in Nat /\ Speeds(count')[j] = Speeds(count)[j]
      /\ \A j \in Gone : Failures(count)[j] \in Nat /\ Failures(count')[j] = Failures(count)[j]
  <2>1. ASSUME NEW j \in Gone
        PROVE  count[j] \in Counts /\ j \in DOMAIN count /\ j \in DOMAIN count'
    BY <1>2 DEF Typed
  <2> QED
    BY <2>1 DEF Counts, Speeds, Failures
<1>4. /\ Sum(Speeds(count'), Gone) = Sum(Speeds(count), Gone)
      /\ Sum(Failures(count'), Gone) = Sum(Failures(count), Gone)
    BY <1>1, <1>3, SumSame
<1> QED
    BY <1>4 DEF Balance

\* a local step, of a child that is not gone
LEMMA LocalSafe ==
    ASSUME Safe, NEW k \in Children, ChildStep(k)
    PROVE  Safe'
<1> USE DEF Safe
<1>1. Local(k)
    BY ChildLocal
<1>2. Counted'
  <2>1. CountedAt(k)'
    BY ChildCounted DEF Counted
  <2>2. ASSUME NEW j \in Children \ {k} PROVE CountedAt(j)'
    BY <1>1, <2>2 DEF Local, Counted, CountedAt, Exact, Less
  <2> QED
    BY <2>1, <2>2 DEF Counted
<1>3. Balance'
  <2>1. Gone' = Gone /\ k \notin Gone
    BY <1>1 DEF Local, Gone, Alive
  <2> QED
    BY <1>1, <2>1, BalanceSame DEF Local, Gone
<1> QED
    BY <1>1, <1>2, <1>3 DEF Local

\* the fields of the children's counts, and of what lies in a pipe
LEMMA Fields ==
    ASSUME Typed, NEW j \in Children
    PROVE  /\ Speeds(count)[j] = count[j].speed /\ count[j].speed \in Nat
           /\ Failures(count)[j] = count[j].failed /\ count[j].failed \in Nat
<1>1. count[j] \in Counts /\ j \in DOMAIN count
    BY DEF Typed
<1> QED
    BY <1>1 DEF Counts, Speeds, Failures

LEMMA PipeFields ==
    ASSUME NEW r \in Seq(Counts), NEW i \in 1 .. Len(r)
    PROVE  /\ Speeds(r)[i] = r[i].speed /\ r[i].speed \in Nat
           /\ Failures(r)[i] = r[i].failed /\ r[i].failed \in Nat
<1>1. r[i] \in Counts /\ i \in DOMAIN r
    OBVIOUS
<1> QED
    BY <1>1 DEF Counts, Speeds, Failures

LEMMA ReportSafe ==
    ASSUME Safe, NEW k \in Children, Report(k)
    PROVE  Safe'
<1> USE DEF Safe
<1>0. /\ at[k] = "report" /\ UNCHANGED <<force, parent, alarm, count, whole, refused>>
      /\ at' = [at EXCEPT ![k] = "gone"]
      /\ at' \in [Children -> Places] /\ \A j \in Children \ {k} : at'[j] = at[j]
      /\ at'[k] = "gone"
    BY DEF Report, Goes, Typed, Places
<1>1. Typed'
  <2>1. pipe' \in Seq(Counts)
    BY DEF Report, Typed
  <2> QED
    BY <1>0, <2>1 DEF Typed
<1>2. Counted'
  <2>1. ASSUME NEW j \in Children PROVE CountedAt(j)'
    BY <1>0 DEF Counted, CountedAt, Exact, Less
  <2> QED
    BY <2>1 DEF Counted
<1>3. Balance'
  <2>1. Gone' = Gone \cup {k} /\ k \notin Gone /\ pipe' = Append(pipe, count[k])
    BY <1>0 DEF Gone, Report
  <2>2. IsFiniteSet(Gone) /\ Cardinality(Gone) \in Nat
    BY ManyChildren DEF Gone
  <2>3. Cardinality(Gone') = Cardinality(Gone) + 1
    BY <2>1, <2>2, FS_AddElement
  <2>4. PICK n \in Nat : n = Len(pipe)
    BY DEF Typed
  <2>5. /\ DOMAIN pipe = 1 .. n /\ DOMAIN pipe' = 1 .. n + 1
        /\ Len(pipe') = n + 1 /\ pipe'[n + 1] = count[k]
        /\ \A i \in 1 .. n : pipe'[i] = pipe[i]
    BY <2>1, <2>4 DEF Typed
  <2>6. PICK p, q, c, pf, qf, cf :
           /\ p = Speeds(pipe) /\ q = Speeds(pipe') /\ c = Speeds(count)
           /\ pf = Failures(pipe) /\ qf = Failures(pipe') /\ cf = Failures(count)
    OBVIOUS
  <2>7. PICK S : S = Gone
    OBVIOUS
  <2>8. ASSUME NEW i \in 1 .. n
        PROVE  p[i] \in Nat /\ q[i] = p[i] /\ pf[i] \in Nat /\ qf[i] = pf[i]
    <3>1. i \in 1 .. Len(pipe) /\ i \in 1 .. Len(pipe') /\ pipe'[i] = pipe[i]
        BY <2>4, <2>5
    <3>2. pipe \in Seq(Counts) /\ pipe' \in Seq(Counts)
        BY <1>1 DEF Typed
    <3> QED
        BY <2>6, <3>1, <3>2, PipeFields
  <2>9. q[n + 1] = c[k] /\ qf[n + 1] = cf[k]
    <3>1. n + 1 \in 1 .. Len(pipe') /\ pipe'[n + 1] = count[k] /\ pipe' \in Seq(Counts)
        BY <1>1, <2>5 DEF Typed
    <3>2. q[n + 1] = pipe'[n + 1].speed /\ qf[n + 1] = pipe'[n + 1].failed
        BY <2>6, <3>1, PipeFields
    <3> QED
        BY <2>6, <3>1, <3>2, Fields
  <2>10. /\ \A j \in S \cup {k} : c[j] \in Nat /\ cf[j] \in Nat
        /\ IsFiniteSet(S) /\ k \notin S
    BY <2>1, <2>2, <2>6, <2>7, Fields DEF Gone
  <2>11. /\ parent.speed \in Nat /\ parent.speed + Sum(p, 1 .. n) = Sum(c, S)
        /\ parent.failed \in Nat /\ parent.failed + Sum(pf, 1 .. n) = Sum(cf, S)
    BY <2>5, <2>6, <2>7 DEF Balance, Typed
  <2>12. parent.speed + Sum(q, 1 .. n + 1) = Sum(c, S \cup {k})
    <3>1. \A i \in 1 .. n : p[i] \in Nat /\ q[i] = p[i]
        BY <2>8
    <3>2. \A j \in S \cup {k} : c[j] \in Nat
        BY <2>10
    <3>3. PICK a \in Nat : a = parent.speed
        BY <2>11
    <3>4. a + Sum(p, 1 .. n) = Sum(c, S)
        BY <2>11, <3>3
    <3>5. Sum(q, 1 .. n + 1) = Sum(p, 1 .. n) + q[n + 1]
        <4>1. q[n + 1] \in Nat
            BY <2>9, <3>2
        <4> QED
            BY <3>1, <4>1, SumAppend
    <3>6. Sum(c, S \cup {k}) = Sum(c, S) + c[k]
        BY <2>10, <3>2, SumAdd
    <3>7. Sum(p, 1 .. n) \in Nat /\ Sum(c, S) \in Nat /\ c[k] \in Nat
        BY <2>10, <3>1, <3>2, FirstNumbers, SumType
    <3> QED
        BY <2>9, <3>3, <3>4, <3>5, <3>6, <3>7
  <2>13. parent.failed + Sum(qf, 1 .. n + 1) = Sum(cf, S \cup {k})
    <3>1. \A i \in 1 .. n : pf[i] \in Nat /\ qf[i] = pf[i]
        BY <2>8
    <3>2. \A j \in S \cup {k} : cf[j] \in Nat
        BY <2>10
    <3>3. PICK a \in Nat : a = parent.failed
        BY <2>11
    <3>4. a + Sum(pf, 1 .. n) = Sum(cf, S)
        BY <2>11, <3>3
    <3>5. Sum(qf, 1 .. n + 1) = Sum(pf, 1 .. n) + qf[n + 1]
        <4>1. qf[n + 1] \in Nat
            BY <2>9, <3>2
        <4> QED
            BY <3>1, <4>1, SumAppend
    <3>6. Sum(cf, S \cup {k}) = Sum(cf, S) + cf[k]
        BY <2>10, <3>2, SumAdd
    <3>7. Sum(pf, 1 .. n) \in Nat /\ Sum(cf, S) \in Nat /\ cf[k] \in Nat
        BY <2>10, <3>1, <3>2, FirstNumbers, SumType
    <3> QED
        BY <2>9, <3>3, <3>4, <3>5, <3>6, <3>7
  <2>14. /\ Len(pipe') <= Cardinality(Gone')
        /\ parent.left = Clients - (Cardinality(Gone') - Len(pipe'))
    BY <2>2, <2>3, <2>5, <2>4 DEF Balance
  <2> QED
    BY <1>0, <2>1, <2>5, <2>14, <2>12, <2>13, <2>6, <2>7 DEF Balance
<1> QED
    BY <1>1, <1>2, <1>3

LEMMA CollectSafe ==
    ASSUME Safe, Collect
    PROVE  Safe'
<1> USE DEF Safe
<1>1. UNCHANGED <<force, at, alarm, count, whole, refused>> /\ Gone' = Gone
    BY DEF Collect, child, Gone
<1>2. PICK n \in Nat : Len(pipe) = n + 1
  <2>1. Len(pipe) \in Nat /\ Len(pipe) # 0
    BY DEF Typed, Collect
  <2>2. Len(pipe) - 1 \in Nat /\ Len(pipe) = (Len(pipe) - 1) + 1
    BY <2>1
  <2> QED
    BY <2>2
<1>3. /\ Len(pipe) = n + 1 /\ Head(pipe) = pipe[1] /\ pipe[1] \in Counts
      /\ pipe' \in Seq(Counts) /\ Len(pipe') = n /\ \A i \in 1 .. n : pipe'[i] = pipe[i + 1]
    BY <1>2 DEF Typed, Collect
<1>4. /\ parent'.left = parent.left - 1 /\ parent'.at = Ends(parent.left - 1)
      /\ parent'.speed = parent.speed + pipe[1].speed
      /\ parent'.failed = parent.failed + pipe[1].failed
    BY <1>3 DEF Collect
<1>5. Typed'
  <2>1. parent' \in [at : {"probe", "fork", "collect", "done", "failed"},
                     left : Int, speed : Nat, failed : Nat]
    BY <1>3 DEF Collect, Ends, Typed, Counts
  <2> QED
    BY <1>1, <1>3, <2>1 DEF Typed
<1>6. Counted'
    BY <1>1 DEF Counted, CountedAt, Exact, Less
<1>7. Balance'
  <2>1. Cardinality(Gone) \in Nat
    BY ManyChildren DEF Gone
  <2>2. /\ Len(pipe') <= Cardinality(Gone')
        /\ parent'.left = Clients - (Cardinality(Gone') - Len(pipe'))
        /\ parent'.at = "done" <=> parent'.left = 0
    BY <1>1, <1>3, <1>4, <2>1 DEF Balance, Ends
  <2>3. DOMAIN pipe = 1 .. n + 1 /\ DOMAIN pipe' = 1 .. n
    BY <1>3 DEF Typed
  <2>4. PICK p, q, pf, qf : /\ p = Speeds(pipe) /\ q = Speeds(pipe')
                            /\ pf = Failures(pipe) /\ qf = Failures(pipe')
    OBVIOUS
  <2>5. pipe \in Seq(Counts)
    BY DEF Typed
  <2>6. ASSUME NEW i \in 1 .. n
        PROVE  q[i] \in Nat /\ p[i + 1] = q[i] /\ qf[i] \in Nat /\ pf[i + 1] = qf[i]
    <3>1. /\ i + 1 \in 1 .. Len(pipe) /\ i \in 1 .. Len(pipe') /\ pipe'[i] = pipe[i + 1]
        BY <1>3
    <3> QED
        <4>1. q[i] = pipe'[i].speed /\ q[i] \in Nat /\ qf[i] = pipe'[i].failed /\ qf[i] \in Nat
            BY <1>3, <2>4, <3>1, PipeFields
        <4>2. p[i + 1] = pipe[i + 1].speed /\ pf[i + 1] = pipe[i + 1].failed
            BY <2>5, <2>4, <3>1, PipeFields
        <4> QED
            BY <3>1, <4>1, <4>2
  <2>7. /\ p[1] = pipe[1].speed /\ p[1] \in Nat /\ pf[1] = pipe[1].failed /\ pf[1] \in Nat
    <3>1. 1 \in 1 .. Len(pipe)
        BY <1>3
    <3> QED
        BY <2>5, <2>4, <3>1, PipeFields
  <2>8. parent.speed \in Nat /\ parent.failed \in Nat
    BY DEF Typed
  <2>9. (parent.speed + p[1]) + Sum(q, 1 .. n) = parent.speed + Sum(p, 1 .. n + 1)
    <3>1. \A i \in 1 .. n : q[i] \in Nat /\ p[i + 1] = q[i]
        BY <2>6
    <3>2. PICK a \in Nat : a = parent.speed
        BY <2>8
    <3>3. Sum(p, 1 .. n + 1) = p[1] + Sum(q, 1 .. n)
        BY <2>7, <3>1, SumTail
    <3>4. Sum(q, 1 .. n) \in Nat
        BY <3>1, FirstNumbers, SumType
    <3> QED
        BY <2>7, <3>2, <3>3, <3>4
  <2>10. (parent.failed + pf[1]) + Sum(qf, 1 .. n) = parent.failed + Sum(pf, 1 .. n + 1)
    <3>1. \A i \in 1 .. n : qf[i] \in Nat /\ pf[i + 1] = qf[i]
        BY <2>6
    <3>2. PICK a \in Nat : a = parent.failed
        BY <2>8
    <3>3. Sum(pf, 1 .. n + 1) = pf[1] + Sum(qf, 1 .. n)
        BY <2>7, <3>1, SumTail
    <3>4. Sum(qf, 1 .. n) \in Nat
        BY <3>1, FirstNumbers, SumType
    <3> QED
        BY <2>7, <3>2, <3>3, <3>4
  <2>11. /\ parent'.speed + Sum(q, DOMAIN pipe') = Sum(Speeds(count), Gone)
         /\ parent'.failed + Sum(qf, DOMAIN pipe') = Sum(Failures(count), Gone)
    BY <1>4, <2>3, <2>7, <2>9, <2>10, <2>4 DEF Balance
  <2> QED
    BY <1>1, <2>2, <2>11, <2>4 DEF Balance
<1> QED
    BY <1>5, <1>6, <1>7

\* the parent's other steps, and none
LEMMA ParentSafe ==
    ASSUME Safe, Probe \/ Fork \/ UNCHANGED vars
    PROVE  Safe'
<1> USE DEF Safe
<1>1. /\ UNCHANGED <<force, pipe, alarm, count, whole, refused>>
      /\ \/ UNCHANGED at
         \/ \E k \in Children : at[k] = "unborn" /\ at' = [at EXCEPT ![k] = "sleep"]
    BY DEF Probe, Fork, vars, child
<1>2. \/ parent' = parent
      \/ /\ parent.at \in {"probe", "fork"}
         /\ \E p \in {"fork", "collect", "failed"} : parent' = [parent EXCEPT !.at = p]
    BY DEF Probe, Fork, vars
<1>3. /\ parent' \in [at : {"probe", "fork", "collect", "done", "failed"},
                      left : Int, speed : Nat, failed : Nat]
      /\ parent'.left = parent.left /\ parent'.speed = parent.speed
      /\ parent'.failed = parent.failed /\ (parent'.at = "done" <=> parent.at = "done")
    BY <1>2 DEF Typed
<1>4. at' \in [Children -> Places] /\ Gone' = Gone
    BY <1>1 DEF Typed, Places, Gone
<1>5. Typed'
    BY <1>1, <1>3, <1>4 DEF Typed
<1>6. Counted'
  <2>1. ASSUME NEW j \in Children PROVE CountedAt(j)'
    BY <1>1 DEF Typed, Counted, CountedAt, Exact, Less
  <2> QED
    BY <2>1 DEF Counted
<1>7. Balance'
  <2>1. Speeds(count') = Speeds(count) /\ Failures(count') = Failures(count)
    BY <1>1, Zenon
  <2>2. Speeds(pipe') = Speeds(pipe) /\ Failures(pipe') = Failures(pipe) /\ pipe' = pipe
    BY <1>1, Zenon
  <2>3. /\ parent'.left = Clients - (Cardinality(Gone) - Len(pipe))
        /\ parent'.at = "done" <=> parent'.left = 0
        /\ parent'.speed + Sum(Speeds(pipe), DOMAIN pipe) = Sum(Speeds(count), Gone)
        /\ parent'.failed + Sum(Failures(pipe), DOMAIN pipe) = Sum(Failures(count), Gone)
    <3>1. PICK x, y, u, v, w : /\ x = Sum(Speeds(pipe), DOMAIN pipe)
                               /\ y = Sum(Failures(pipe), DOMAIN pipe)
                               /\ u = Sum(Speeds(count), Gone)
                               /\ v = Sum(Failures(count), Gone)
                               /\ w = Clients - (Cardinality(Gone) - Len(pipe))
        OBVIOUS
    <3>2. /\ parent.left = w /\ (parent.at = "done" <=> parent.left = 0)
          /\ parent.speed + x = u /\ parent.failed + y = v
        BY <3>1 DEF Balance
    <3> QED
        BY <1>3, <3>1, <3>2
  <2> QED
    BY <1>4, <2>1, <2>2, <2>3, Zenon DEF Balance
<1> QED
    BY <1>5, <1>6, <1>7

LEMMA StepSafe == Safe /\ [Next]_vars => Safe'
<1>1. ASSUME Safe, Next PROVE Safe'
    BY <1>1, LocalSafe, ReportSafe, CollectSafe, ParentSafe
    DEF Next, Own, ParentStep, ChildStep
<1> QED
    BY <1>1, ParentSafe

LEMMA AlwaysSafe == Spec => []Safe
BY InitSafe, StepSafe, PTL DEF Spec

-----------------------------------------------------------------------------
(* No count is below zero, and no more lies in the pipe than the parent    *)
(* waits for, however many children there are: TypeOK.                     *)
THEOREM TypeCorrect == Spec => []TypeOK
<1>1. Safe => TypeOK
  <2> SUFFICES ASSUME Safe PROVE TypeOK
    OBVIOUS
  <2>1. Cardinality(Gone) \in 0 .. Clients
    BY ManyChildren DEF Gone
  <2>2. Len(pipe) \in Nat /\ \A i \in DOMAIN pipe : pipe[i] \in Counts
    BY DEF Safe, Typed
  <2>3. Len(pipe) <= Clients /\ parent.left \in 0 .. Clients
    BY <2>1, <2>2 DEF Safe, Balance
  <2>4. parent \in [at : {"probe", "fork", "collect", "done", "failed"},
                   left : 0 .. Clients, speed : Nat, failed : Nat]
    BY <2>3 DEF Safe, Typed
  <2> QED
    BY <2>2, <2>3, <2>4 DEF Safe, Typed, TypeOK, Counts, Places
<1> QED
    BY <1>1, AlwaysSafe, PTL

(* A child's report is off by at most one page and one failure, whatever   *)
(* the server answers and wherever its alarm falls: Corrected              *)
(* (webbench.c:417-420, 434, 450).                                         *)
THEOREM ChildrenCorrected == Spec => []Corrected
<1>1. Safe => Corrected
  <2> SUFFICES ASSUME Safe, NEW k \in Gone
      PROVE  LET less == IF refused[k] > 0 THEN refused[k] - 1 ELSE 0
             IN  \/ count[k] = [speed |-> whole[k], failed |-> refused[k]]
                 \/ count[k] \in [speed : {whole[k], whole[k] + 1}, failed : {less}]
    BY DEF Corrected
  <2>1. k \in Children /\ at[k] = "gone"
    BY DEF Gone
  <2>2. count[k] \in Counts
    BY <2>1 DEF Safe, Typed
  <2>3. count[k] = [speed |-> count[k].speed, failed |-> count[k].failed]
    BY <2>2 DEF Counts
  <2>4. \/ Exact(k)
        \/ count[k].speed \in {whole[k], whole[k] + 1} /\ count[k].failed = Less(k)
    BY <2>1 DEF Safe, Counted, CountedAt
  <2> QED
    BY <2>3, <2>4 DEF Exact, Less
<1> QED
    BY <1>1, AlwaysSafe, PTL

(* What the parent prints is the sum of its children's reports, each once  *)
(* and none left out, in whatever order they come, for any number of       *)
(* children: Totals (webbench.c:375-385).                                  *)
THEOREM TotalsAdd == Spec => []Totals
<1>1. Safe => Totals
  <2> SUFFICES ASSUME Safe PROVE Totals
    OBVIOUS
  <2>1. ASSUME parent.at = "done" PROVE Gone = Children
    <3>1. Cardinality(Gone) \in 0 .. Clients /\ Len(pipe) \in Nat
        BY ManyChildren DEF Gone, Safe, Typed
    <3>2. parent.left = 0
        BY <2>1 DEF Safe, Balance
    <3>3. Clients = Cardinality(Gone) - Len(pipe)
        BY <3>1, <3>2 DEF Safe, Balance
    <3>4. Cardinality(Gone) = Clients
        BY <3>1, <3>3
    <3> QED
        BY <3>4, ManyChildren DEF Gone
  <2> QED
    BY <2>1 DEF Safe, Balance, Totals
<1> QED
    BY <1>1, AlwaysSafe, PTL
=============================================================================
