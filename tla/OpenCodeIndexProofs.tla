------------------------- MODULE OpenCodeIndexProofs ------------------------
(***************************************************************************)
(* OpenCodeIndex for any processes, usages, environments and bounds: what  *)
(* the checkpoint stands for, what a scan reports, and what failures leave *)
(* of the history.                                                         *)
(***************************************************************************)
EXTENDS OpenCodeIndex, FiniteSetTheorems, NaturalsInduction, TLAPS

Value == Nat \cup {Unknown}
Models == {k.model : k \in Kinds}
Parts == [id : Nat, time : Nat, model : Models, input : Value, total : Value, ok : BOOLEAN]
Panels == [kind : {"loading", "ready", "empty", "unavailable", "stale"},
           rows : SUBSET Row, of : Int]

IsIndex(x) ==
    /\ x = [file |-> x.file, day |-> x.day, watermark |-> x.watermark, id |-> x.id,
            seen |-> x.seen, totals |-> x.totals, rebuilt |-> x.rebuilt,
            base |-> x.base, drift |-> x.drift]
    /\ x.day \in Int /\ x.rebuilt \in Nat /\ x.drift \in BOOLEAN
IsTask(t) ==
    /\ t = [now |-> t.now, snap |-> t.snap, file |-> t.file, next |-> t.next,
            old |-> t.old]
    /\ t.now \in Nat /\ t.old \subseteq Row /\ IsIndex(t.next)
IsDb(x) == x = [file |-> x.file, rows |-> x.rows] /\ x.file \in Nat

\* Types, and: rows are ready or stale only where there are some.
Typed ==
    /\ env \in Environments
    /\ clock \in 0 .. env.maxTime
    /\ IsDb(db) /\ IsDb(copy)
    /\ IsIndex(index)
    /\ pc \in [Procs -> {"idle", "snapshot", "save"}]
    /\ task = [p \in Procs |-> task[p]] /\ \A p \in Procs : IsTask(task[p])
    /\ panel \in [Procs -> Panels]
    /\ \A p \in Procs : panel[p].kind \in {"ready", "stale"} => panel[p].rows # {}
    /\ hist \in [Days -> [rows : SUBSET Row, of : Int]]
    /\ left \in [parts : Nat, changes : Nat, faults : Nat]
    /\ left.parts <= env.parts

Issued == env.parts - left.parts

\* A table of parts: their identifiers grow with their rowids, and an identifier tells
\* when its part was written.
Table(rows, n, born) ==
    /\ IsFiniteSet(DOMAIN rows) /\ DOMAIN rows \subseteq Nat \ {0}
    /\ \A r \in DOMAIN rows :
          rows[r] \in Parts /\ rows[r].id \in 1 .. n /\ rows[r].time = born[rows[r].id]
    /\ \A r, s \in DOMAIN rows : r < s => rows[r].id < rows[s].id

\* What is known of a checkpoint, also of one that no longer describes the database.
Sound(x, n, born) ==
    /\ Table(x.base, n, born)
    /\ x.day \in Nat
    /\ x.watermark = Top(x.base) /\ x.id = IdAt(x.base, x.watermark)
    /\ x.totals \subseteq Row /\ IsFiniteSet(x.totals)
    /\ \A row \in x.totals : row.total <= Limit

\* The rows a checkpoint has counted lie on its day or before.
Past(x, calm, now) ==
    calm => /\ x.day <= Day(now)
            /\ \A r \in DOMAIN x.base : Day(x.base[r].time) <= x.day

\* It stands for all the parts of its day, every one of them well formed.
Exact(x) ==
    ~x.drift =>
        /\ \A part \in PartsOf(x.base, 0, x.day) : part.ok
        /\ x.totals = Aggregate(Items(PartsOf(x.base, 0, x.day)))
        /\ x.seen = {part.id : part \in PartsOf(x.base, 0, x.day)}

Kept(x, n, born, calm, now) == Sound(x, n, born) /\ Past(x, calm, now) /\ Exact(x)

\* Parts are written one after the other.
Ordered(n, born, now) ==
    \A i \in 1 .. n : born[i] <= now /\ \A j \in 1 .. i : born[j] <= born[i]

\* A scan at work: its snapshot, and the checkpoint it is about to save.
Working(t, stage, n, born, calm, now) ==
    /\ Table(t.snap, n, born)
    /\ calm /\ stage # "idle" => t.now = now
    /\ stage = "save" =>
          /\ Kept(t.next, n, born, calm, now)
          /\ t.next.base = t.snap /\ t.next.day = Day(t.now)

\* Everything is explained by when each part was written.
Explained(born) ==
    /\ env.calm => Ordered(Issued, born, clock)
    /\ Table(db.rows, Issued, born) /\ Table(copy.rows, Issued, born)
    /\ index = NoIndex \/ Kept(index, Issued, born, env.calm, clock)
    /\ \A p \in Procs : Working(task[p], pc[p], Issued, born, env.calm, clock)

IInv == Typed /\ \E born \in [1 .. env.parts -> 0 .. env.maxTime] : Explained(born)
-----------------------------------------------------------------------------
(* Sums over finite sets.                                                  *)

LEMMA LeastNat == ASSUME NEW T \in SUBSET Nat, T # {} PROVE \E m \in T : \A n \in T : m <= n
  <1> DEFINE R == OpToRel(<, Nat)
  <1>1. IsWellFoundedOn(R, Nat)
    BY NatLessThanWellFounded
  <1>2. \A x, y \in Nat : y < x => <<y, x>> \in R
    BY DEF OpToRel
  <1> HIDE DEF R
  <1>3. \E x \in T : \A y \in T : ~(<<y, x>> \in R)
    BY <1>1, WFMin
  <1>4. PICK x \in T : \A y \in T : ~(<<y, x>> \in R)
    BY <1>3
  <1>5. \A y \in T : ~(y < x)
    BY <1>2, <1>4
  <1> QED
    BY <1>5

\* Induction over finite sets, with a set for the property: what holds of the empty set
\* and of every set that holds of it without one of its elements.
LEMMA SubsetInduction ==
    ASSUME NEW S, IsFiniteSet(S), NEW P \in SUBSET SUBSET S, {} \in P,
           \A s \in SUBSET S : s # {} /\ (\A x \in s : s \ {x} \in P) => s \in P
    PROVE  \A s \in SUBSET S : s \in P
  <1> DEFINE Left == (SUBSET S) \ P
             Sizes == {Cardinality(s) : s \in Left}
  <1> SUFFICES ASSUME Left # {} PROVE FALSE
    OBVIOUS
  <1>1. \A s \in SUBSET S : IsFiniteSet(s) /\ Cardinality(s) \in Nat
    BY FS_Subset, FS_CardinalityType
  <1>2. Sizes \in SUBSET Nat /\ Sizes # {}
    BY <1>1
  <1>3. PICK m \in Sizes : \A n \in Sizes : m <= n
    BY <1>2, LeastNat
  <1>4. PICK s \in Left : m = Cardinality(s)
    BY <1>3
  <1>5. \A x \in s : s \ {x} \in P
    <2> SUFFICES ASSUME NEW x \in s, s \ {x} \notin P PROVE FALSE
      OBVIOUS
    <2>1. Cardinality(s \ {x}) = m - 1
      BY <1>1, <1>4, FS_RemoveElement
    <2>2. s \ {x} \in Left
      OBVIOUS
    <2>3. m - 1 \in Sizes
      BY <2>1, <2>2
    <2> HIDE DEF Sizes
    <2> QED
      BY <1>2, <1>3, <2>3
  <1> QED
    BY <1>4, <1>5

\* The equation of the function that SumFunction is made of has a solution.
Any(s) == CHOOSE x \in s : TRUE
SumStep(f, g, s) == IF s = {} THEN 0 ELSE f[Any(s)] + g[s \ {Any(s)}]
Sums(f, g) == g = [s \in SUBSET DOMAIN f |-> SumStep(f, g, s)]

LEMMA SumsExist ==
    ASSUME NEW f, IsFiniteSet(DOMAIN f)
    PROVE  \E g : Sums(f, g)
  <1> DEFINE S == DOMAIN f
             Upto(m) == {s \in SUBSET S : Cardinality(s) <= m}
             T == {m \in Nat : \E g : g = [s \in Upto(m) |-> SumStep(f, g, s)]}
  <1>1. \A s \in SUBSET S : IsFiniteSet(s) /\ Cardinality(s) \in Nat /\ Cardinality(s) <= Cardinality(S)
    BY FS_Subset, FS_CardinalityType
  <1>2. \A s \in SUBSET S : s # {} => /\ Any(s) \in s /\ s \ {Any(s)} \in SUBSET S
                                      /\ Cardinality(s \ {Any(s)}) = Cardinality(s) - 1
    <2> SUFFICES ASSUME NEW s \in SUBSET S, s # {}
                 PROVE  /\ Any(s) \in s /\ s \ {Any(s)} \in SUBSET S
                        /\ Cardinality(s \ {Any(s)}) = Cardinality(s) - 1
      OBVIOUS
    <2>1. Any(s) \in s
      BY DEF Any
    <2> QED
      BY <1>1, <2>1, FS_RemoveElement
  <1>3. \A s \in SUBSET S : s # {} => Cardinality(s) # 0
    BY <1>1, FS_EmptySet
  <1> HIDE DEF S
  <1>4. 0 \in T
    <2> DEFINE g == [s \in Upto(0) |-> 0]
    <2>1. \A s \in Upto(0) : SumStep(f, g, s) = 0
      BY <1>1, <1>3 DEF SumStep
    <2>2. g = [s \in Upto(0) |-> SumStep(f, g, s)]
      BY <2>1
    <2> QED
      BY <2>2
  <1>5. ASSUME NEW m \in Nat, m \in T PROVE m + 1 \in T
    <2>1. PICK g : g = [s \in Upto(m) |-> SumStep(f, g, s)]
      BY <1>5
    <2> DEFINE h == [s \in Upto(m + 1) |-> SumStep(f, g, s)]
    <2>2. \A s \in Upto(m) : s \in Upto(m + 1)
      BY <1>1
    <2>3. \A s \in Upto(m) : h[s] = g[s]
      BY <2>1, <2>2
    <2>4. \A s \in Upto(m + 1) : s # {} => s \ {Any(s)} \in Upto(m)
      BY <1>1, <1>2
    <2>5. \A s \in Upto(m + 1) : SumStep(f, h, s) = SumStep(f, g, s)
      <3> HIDE DEF h, Upto
      <3> QED
        BY <2>3, <2>4 DEF SumStep
    <2>6. h = [s \in Upto(m + 1) |-> SumStep(f, h, s)]
      BY <2>5
    <2> HIDE DEF h
    <2> QED
      BY <2>6
  <1>6. Nat \subseteq T
    <2> SUFFICES ASSUME Nat \ T # {} PROVE FALSE
      OBVIOUS
    <2> HIDE DEF T
    <2>1. PICK m \in Nat \ T : \A n \in Nat \ T : m <= n
      BY LeastNat
    <2>2. m - 1 \in Nat
      BY <2>1, <1>4
    <2>3. m - 1 \in T
      BY <2>1, <2>2
    <2> QED
      BY <2>1, <2>2, <2>3, <1>5
  <1>7. Cardinality(S) \in T
    <2> HIDE DEF T
    <2>1. Cardinality(S) \in Nat
      BY <1>1
    <2> QED
      BY <1>6, <2>1
  <1>8. Upto(Cardinality(S)) = SUBSET S
    BY <1>1
  <1>9. PICK g : g = [s \in Upto(Cardinality(S)) |-> SumStep(f, g, s)]
    BY <1>7
  <1>10. g = [s \in SUBSET S |-> SumStep(f, g, s)]
    BY <1>8, <1>9
  <1> QED
    BY <1>10 DEF Sums, S

LEMMA SumIs ==
    ASSUME NEW f, IsFiniteSet(DOMAIN f)
    PROVE  \E g : Sums(f, g) /\ SumFunction(f) = g[DOMAIN f]
  <1> DEFINE iter[s \in SUBSET DOMAIN f] ==
            IF s = {} THEN 0
            ELSE LET x == CHOOSE x \in s : TRUE IN f[x] + iter[s \ {x}]
  <1>1. iter = CHOOSE g : g = [s \in SUBSET DOMAIN f |->
            IF s = {} THEN 0 ELSE LET x == CHOOSE x \in s : TRUE IN f[x] + g[s \ {x}]]
    OBVIOUS
  <1>2. SumFunction(f) = iter[DOMAIN f]
    BY DEF SumFunction, SumFunctionOnSet, FoldFunctionOnSet, MapThenFoldSet
  <1> HIDE DEF iter
  <1>3. \E g : g = [s \in SUBSET DOMAIN f |->
            IF s = {} THEN 0 ELSE LET x == CHOOSE x \in s : TRUE IN f[x] + g[s \ {x}]]
    BY SumsExist DEF Sums, SumStep, Any
  <1>4. iter = [s \in SUBSET DOMAIN f |->
            IF s = {} THEN 0 ELSE LET x == CHOOSE x \in s : TRUE IN f[x] + iter[s \ {x}]]
    BY <1>1, <1>3
  <1>5. Sums(f, iter)
    BY <1>4 DEF Sums, SumStep, Any
  <1> QED
    BY <1>2, <1>5

\* A sum over a finite set of naturals is one.
LEMMA SumsNat ==
    ASSUME NEW S, IsFiniteSet(S), NEW f \in [S -> Nat], NEW g, Sums(f, g)
    PROVE  \A s \in SUBSET S : g[s] \in Nat
  <1> DEFINE P == {s \in SUBSET S : g[s] \in Nat}
  <1>1. DOMAIN f = S /\ \A s \in SUBSET S : g[s] = SumStep(f, g, s)
    BY DEF Sums
  <1>2. {} \in P
    <2>1. g[{}] = 0
      BY <1>1 DEF SumStep
    <2> QED
      BY <2>1
  <1>3. ASSUME NEW s \in SUBSET S, s # {}, \A x \in s : s \ {x} \in P PROVE s \in P
    <2>1. Any(s) \in s
      BY <1>3 DEF Any
    <2>2. f[Any(s)] \in Nat /\ g[s \ {Any(s)}] \in Nat
      BY <1>3, <2>1
    <2>3. g[s] = f[Any(s)] + g[s \ {Any(s)}]
      BY <1>1, <1>3 DEF SumStep
    <2> QED
      BY <2>2, <2>3
  <1> HIDE DEF P
  <1>4. \A s \in SUBSET S : s \in P
    <2>1. P \in SUBSET SUBSET S
      BY DEF P
    <2> QED
      BY <1>2, <1>3, <2>1, SubsetInduction
  <1> QED
    BY <1>4 DEF P

\* Any element may be taken out of a sum, not only the one that CHOOSE takes.
LEMMA SumsTake ==
    ASSUME NEW S, IsFiniteSet(S), NEW f \in [S -> Nat], NEW g, Sums(f, g),
           NEW t \in SUBSET S, NEW z \in t
    PROVE  g[t] = f[z] + g[t \ {z}]
  <1> DEFINE P == {s \in SUBSET S : \A x \in s : g[s] = f[x] + g[s \ {x}]}
  <1>1. DOMAIN f = S /\ \A s \in SUBSET S : g[s] = SumStep(f, g, s)
    BY DEF Sums
  <1>2. {} \in P
    OBVIOUS
  <1>3. ASSUME NEW s \in SUBSET S, s # {}, \A x \in s : s \ {x} \in P PROVE s \in P
    <2> DEFINE a == Any(s)
    <2>1. a \in s
      BY <1>3 DEF Any
    <2>2. g[s] = f[a] + g[s \ {a}]
      BY <1>1, <1>3 DEF SumStep
    <2> HIDE DEF a
    <2>3. ASSUME NEW x \in s, x # a PROVE g[s] = f[x] + g[s \ {x}]
      <3> DEFINE rest == (s \ {a}) \ {x}
      <3>1. s \ {a} \in P /\ s \ {x} \in P /\ x \in s \ {a} /\ a \in s \ {x}
        BY <1>3, <2>1, <2>3
      <3>2. (s \ {x}) \ {a} = rest
        OBVIOUS
      <3>3. g[s \ {a}] = f[x] + g[rest] /\ g[s \ {x}] = f[a] + g[rest]
        BY <3>1, <3>2
      <3>4. g[rest] \in Nat /\ f[x] \in Nat /\ f[a] \in Nat
        BY <2>1, <2>3, SumsNat
      <3> HIDE DEF rest
      <3> QED
        BY <2>2, <3>3, <3>4
    <2> QED
      BY <2>2, <2>3
  <1> HIDE DEF P
  <1>4. \A s \in SUBSET S : s \in P
    <2>1. P \in SUBSET SUBSET S
      BY DEF P
    <2> QED
      BY <1>2, <1>3, <2>1, SubsetInduction
  <1> QED
    BY <1>4 DEF P

\* The sum over a subset is that of the function restricted to it.
LEMMA SumOfSubset ==
    ASSUME NEW S, IsFiniteSet(S), NEW f \in [S -> Nat], NEW g, Sums(f, g), NEW A \in SUBSET S
    PROVE  SumFunction([x \in A |-> f[x]]) = g[A]
  <1> DEFINE r == [x \in A |-> f[x]]
  <1>1. IsFiniteSet(A) /\ DOMAIN r = A
    BY FS_Subset
  <1>2. PICK h : Sums(r, h) /\ SumFunction(r) = h[A]
    BY <1>1, SumIs
  <1> DEFINE P == {s \in SUBSET A : h[s] = g[s]}
  <1>3. /\ \A s \in SUBSET A : h[s] = SumStep(r, h, s)
        /\ \A s \in SUBSET A : g[s] = SumStep(f, g, s)
    BY <1>1, <1>2 DEF Sums
  <1>4. {} \in P
    <2>1. h[{}] = 0 /\ g[{}] = 0
      BY <1>3 DEF SumStep
    <2> QED
      BY <2>1
  <1>5. ASSUME NEW s \in SUBSET A, s # {}, \A x \in s : s \ {x} \in P PROVE s \in P
    <2>1. Any(s) \in s
      BY <1>5 DEF Any
    <2>2. r[Any(s)] = f[Any(s)] /\ h[s \ {Any(s)}] = g[s \ {Any(s)}]
      BY <1>5, <2>1
    <2> QED
      BY <1>3, <1>5, <2>2 DEF SumStep
  <1> HIDE DEF P
  <1>6. \A s \in SUBSET A : s \in P
    <2>1. P \in SUBSET SUBSET A
      BY DEF P
    <2> QED
      BY <1>1, <1>4, <1>5, <2>1, SubsetInduction
  <1>7. h[A] = g[A]
    BY <1>6 DEF P
  <1> QED
    BY <1>2, <1>7

\* The sum over two sets that have nothing in common.
LEMMA SumOfParts ==
    ASSUME NEW A, NEW B, IsFiniteSet(A), IsFiniteSet(B), A \cap B = {},
           NEW f \in [A \cup B -> Nat]
    PROVE  /\ SumFunction([x \in A |-> f[x]]) \in Nat
           /\ SumFunction([x \in B |-> f[x]]) \in Nat
           /\ SumFunction(f) = SumFunction([x \in A |-> f[x]]) + SumFunction([x \in B |-> f[x]])
  <1> DEFINE S == A \cup B
  <1>1. IsFiniteSet(S) /\ DOMAIN f = S
    BY FS_Union
  <1>2. PICK g : Sums(f, g) /\ SumFunction(f) = g[S]
    BY <1>1, SumIs
  <1>3. /\ SumFunction([x \in A |-> f[x]]) = g[A]
        /\ SumFunction([x \in B |-> f[x]]) = g[B]
    BY <1>1, <1>2, SumOfSubset
  <1>4. \A s \in SUBSET S : g[s] \in Nat /\ \A x \in s : g[s] = f[x] + g[s \ {x}]
    <2>1. ASSUME NEW s \in SUBSET S, NEW x \in s PROVE g[s] = f[x] + g[s \ {x}]
      BY <1>1, <1>2, SumsTake
    <2> QED
      BY <1>1, <1>2, <2>1, SumsNat
  <1> DEFINE P == {s \in SUBSET B : g[A \cup s] = g[A] + g[s]}
  <1>5. {} \in P
    <2>1. g[{}] = 0
      BY <1>1, <1>2 DEF Sums, SumStep
    <2>2. A \cup {} = A /\ g[A] \in Nat
      BY <1>4
    <2> QED
      BY <2>1, <2>2
  <1>6. ASSUME NEW s \in SUBSET B, s # {}, \A x \in s : s \ {x} \in P PROVE s \in P
    <2>1. PICK x \in s : TRUE
      BY <1>6
    <2>2. (A \cup s) \ {x} = A \cup (s \ {x})
      BY <2>1
    <2>3. g[A \cup s] = f[x] + g[(A \cup s) \ {x}] /\ g[s] = f[x] + g[s \ {x}]
      BY <1>4, <2>1
    <2>4. g[A \cup (s \ {x})] = g[A] + g[s \ {x}]
      BY <1>6, <2>1
    <2>5. g[A] \in Nat /\ g[s \ {x}] \in Nat /\ f[x] \in Nat
      BY <1>4, <2>1
    <2>6. g[A \cup s] = g[A] + g[s]
      <3>1. g[A \cup s] = f[x] + (g[A] + g[s \ {x}])
        BY <2>2, <2>3, <2>4, Zenon
      <3>2. \A i, j, k \in Nat : i + (j + k) = j + (i + k)
        OBVIOUS
      <3>3. f[x] + (g[A] + g[s \ {x}]) = g[A] + (f[x] + g[s \ {x}])
        BY <2>5, <3>2, Zenon
      <3> QED
        BY <2>3, <3>1, <3>3, Zenon
    <2> QED
      BY <2>6
  <1> HIDE DEF P
  <1>7. \A s \in SUBSET B : s \in P
    <2>1. P \in SUBSET SUBSET B
      BY DEF P
    <2> QED
      BY <1>5, <1>6, <2>1, SubsetInduction
  <1>8. g[A \cup B] = g[A] + g[B]
    BY <1>7 DEF P
  <1> QED
    BY <1>2, <1>3, <1>4, <1>8

\* The sum over one element.
LEMMA SumOfOne ==
    ASSUME NEW S, IsFiniteSet(S), NEW f \in [S -> Nat], NEW x \in S
    PROVE  S \ {x} = {} => SumFunction(f) = f[x]
  <1>1. DOMAIN f = S
    OBVIOUS
  <1>2. PICK g : Sums(f, g) /\ SumFunction(f) = g[S]
    BY <1>1, SumIs
  <1>3. g[S] = f[x] + g[S \ {x}]
    BY <1>2, SumsTake
  <1>4. g[{}] = 0 /\ f[x] \in Nat
    BY <1>1, <1>2 DEF Sums, SumStep
  <1> QED
    BY <1>2, <1>3, <1>4
\* A sum of naturals is one.
LEMMA SumNat ==
    ASSUME NEW S, IsFiniteSet(S), NEW f \in [S -> Nat]
    PROVE  SumFunction(f) \in Nat
  <1>1. DOMAIN f = S
    OBVIOUS
  <1>2. PICK g : Sums(f, g) /\ SumFunction(f) = g[S]
    BY <1>1, SumIs
  <1> QED
    BY <1>2, SumsNat

\* What a function makes of a finite set is finite.
LEMMA FiniteImage ==
    ASSUME NEW S, IsFiniteSet(S), NEW f
    PROVE  IsFiniteSet({f[x] : x \in S})
  <1> DEFINE T == {f[x] : x \in S}
             g == [x \in S |-> f[x]]
  <1>1. g \in [S -> T] /\ \A y \in T : \E x \in S : g[x] = y
    OBVIOUS
  <1> HIDE DEF g
  <1>2. g \in Surjection(S, T)
    BY <1>1 DEF Surjection
  <1> HIDE DEF T
  <1> QED
    <2>1. IsFiniteSet(T)
      BY <1>2, FS_Surjection
    <2> QED
      BY <2>1 DEF T

\* A sum of values that may be absent is such a value.
LEMMA OptionalSum ==
    ASSUME NEW S, IsFiniteSet(S), NEW f \in [S -> Value]
    PROVE  SumOptional(f) \in Value
  <1>1. CASE \E x \in S : f[x] = Unknown
    BY <1>1 DEF SumOptional, Value
  <1>2. CASE ~ \E x \in S : f[x] = Unknown
    <2>1. f \in [S -> Nat] /\ DOMAIN f = S
      BY <1>2 DEF Value
    <2>2. SumFunction(f) \in Nat
      BY <2>1, SumNat
    <2>3. SumOptional(f) = SumFunction(f)
      BY <1>2, <2>1 DEF SumOptional
    <2> QED
      BY <2>2, <2>3 DEF Value
  <1> QED
    BY <1>1, <1>2

Plus(a, b) == IF a = Unknown \/ b = Unknown THEN Unknown ELSE a + b

\* The sum over two sets that have nothing in common, absent values included.
LEMMA OptionalParts ==
    ASSUME NEW A, NEW B, IsFiniteSet(A), IsFiniteSet(B), A \cap B = {},
           NEW f \in [A \cup B -> Value]
    PROVE  SumOptional(f) =
             Plus(SumOptional([x \in A |-> f[x]]), SumOptional([x \in B |-> f[x]]))
  <1> DEFINE a == [x \in A |-> f[x]]
             b == [x \in B |-> f[x]]
  <1>1. DOMAIN a = A /\ DOMAIN b = B /\ DOMAIN f = A \cup B
    OBVIOUS
  <1>2. /\ \A x \in A : a[x] = f[x]
        /\ \A x \in B : b[x] = f[x]
    OBVIOUS
  <1>3. CASE \E x \in A \cup B : f[x] = Unknown
    <2>1. SumOptional(f) = Unknown
      BY <1>1, <1>3 DEF SumOptional
    <2>2. SumOptional(a) = Unknown \/ SumOptional(b) = Unknown
      <3> HIDE DEF a, b
      <3> QED
        BY <1>1, <1>2, <1>3 DEF SumOptional
    <2> QED
      BY <2>1, <2>2 DEF Plus
  <1>4. CASE ~ \E x \in A \cup B : f[x] = Unknown
    <2>1. f \in [A \cup B -> Nat]
      BY <1>4 DEF Value
    <2>2. /\ SumFunction(a) \in Nat /\ SumFunction(b) \in Nat
          /\ SumFunction(f) = SumFunction(a) + SumFunction(b)
      <3> HIDE <1>4
      <3> QED
        BY <2>1, SumOfParts
    <2> HIDE DEF a, b
    <2>3. SumOptional(f) = SumFunction(f) /\ SumOptional(a) = SumFunction(a)
          /\ SumOptional(b) = SumFunction(b)
      BY <1>1, <1>2, <1>4 DEF SumOptional
    <2>4. \A i \in Nat : i # Unknown
      BY DEF Unknown
    <2>5. Plus(SumFunction(a), SumFunction(b)) = SumFunction(a) + SumFunction(b)
      BY <2>2, <2>4, Zenon DEF Plus
    <2>6. SumOptional(f) = Plus(SumOptional(a), SumOptional(b))
      BY <2>2, <2>3, <2>5, Zenon
    <2> QED
      BY <2>6 DEF a, b
  <1> QED
    BY <1>3, <1>4

\* The sum over one element, and over none.
LEMMA OptionalOne ==
    ASSUME NEW x, NEW f \in [{x} -> Value]
    PROVE  SumOptional(f) = f[x]
  <1>1. CASE f[x] = Unknown
    BY <1>1 DEF SumOptional
  <1>2. CASE f[x] # Unknown
    <2>1. f \in [{x} -> Nat]
      BY <1>2 DEF Value
    <2>2. IsFiniteSet({x}) /\ x \in {x} /\ {x} \ {x} = {}
      BY FS_Singleton
    <2>3. SumFunction(f) = f[x]
      BY <2>1, <2>2, SumOfOne
    <2> QED
      BY <1>2, <2>3 DEF SumOptional
  <1> QED
    BY <1>1, <1>2
-----------------------------------------------------------------------------
(* Aggregates.                                                             *)

ItemSet == [id : Nat, model : Models, input : Value, total : Value]

\* A total is absent only where the components are.
LEMMA Effective ==
    ASSUME NEW x \in ItemSet
    PROVE  EffectiveTotal(x) \in Value /\ (EffectiveTotal(x) = Unknown => x.input = Unknown)
  BY DEF ItemSet, EffectiveTotal

\* The items of one model, and their values.
LEMMA OfModelTyped ==
    ASSUME NEW S \in SUBSET ItemSet, IsFiniteSet(S), NEW m
    PROVE  /\ OfModel(S, m) \subseteq S /\ IsFiniteSet(OfModel(S, m))
           /\ [x \in OfModel(S, m) |-> x.input] \in [OfModel(S, m) -> Value]
           /\ [x \in OfModel(S, m) |-> EffectiveTotal(x)] \in [OfModel(S, m) -> Value]
  <1>1. OfModel(S, m) \subseteq S
    BY DEF OfModel
  <1>2. \A x \in OfModel(S, m) : x.input \in Value /\ EffectiveTotal(x) \in Value
    BY <1>1, Effective DEF ItemSet
  <1> QED
    BY <1>1, <1>2, FS_Subset

LEMMA RowTyped ==
    ASSUME NEW S \in SUBSET ItemSet, IsFiniteSet(S), NEW m \in Models
    PROVE  /\ RowOf(S, m) \in Row
           /\ RowOf(S, m).model = m
           /\ RowOf(S, m).input = SumOptional([x \in OfModel(S, m) |-> x.input])
           /\ RowOf(S, m).total = SumOptional([x \in OfModel(S, m) |-> EffectiveTotal(x)])
           /\ RowOf(S, m).total = Unknown => RowOf(S, m).input = Unknown
  <1> DEFINE in == [x \in OfModel(S, m) |-> x.input]
             all == [x \in OfModel(S, m) |-> EffectiveTotal(x)]
  <1>1. RowOf(S, m) = [model |-> m, input |-> SumOptional(in), total |-> SumOptional(all)]
    BY DEF RowOf
  <1>2. SumOptional(in) \in Value /\ SumOptional(all) \in Value
    BY OfModelTyped, OptionalSum
  <1>3. ASSUME SumOptional(all) = Unknown PROVE SumOptional(in) = Unknown
    <2>1. all \in [OfModel(S, m) -> Value] /\ IsFiniteSet(OfModel(S, m))
      BY OfModelTyped
    <2>2. \E x \in OfModel(S, m) : all[x] = Unknown
      <3> SUFFICES ASSUME ~ \E x \in OfModel(S, m) : all[x] = Unknown PROVE FALSE
        OBVIOUS
      <3> HIDE DEF all
      <3>1. all \in [OfModel(S, m) -> Nat] /\ DOMAIN all = OfModel(S, m)
        BY <2>1 DEF Value
      <3>2. SumFunction(all) \in Nat
        BY <2>1, <3>1, SumNat
      <3>3. SumOptional(all) = SumFunction(all)
        BY <3>1 DEF SumOptional
      <3> QED
        BY <1>3, <3>2, <3>3 DEF Unknown
    <2>3. PICK x \in OfModel(S, m) : EffectiveTotal(x) = Unknown
      BY <2>2
    <2>4. x.input = Unknown
      BY <2>3, OfModelTyped, Effective
    <2> QED
      BY <2>3, <2>4 DEF SumOptional
  <1> HIDE DEF in, all
  <1>4. RowOf(S, m) \in Row
    BY <1>1, <1>2 DEF Row, Value, Models
  <1>5. RowOf(S, m).model = m /\ RowOf(S, m).input = SumOptional(in)
        /\ RowOf(S, m).total = SumOptional(all)
    BY <1>1
  <1> QED
    BY <1>3, <1>4, <1>5 DEF in, all

\* Rows are finitely many and have their types.
LEMMA AggregateTyped ==
    ASSUME NEW S \in SUBSET ItemSet, IsFiniteSet(S)
    PROVE  Aggregate(S) \subseteq Row /\ IsFiniteSet(Aggregate(S))
  <1> DEFINE M == {x.model : x \in S}
  <1>1. M \subseteq Models
    BY DEF ItemSet
  <1>2. IsFiniteSet(M)
    <2> DEFINE f == [x \in S |-> x.model]
    <2>1. IsFiniteSet({f[x] : x \in S})
      BY FiniteImage
    <2> QED
      BY <2>1
  <1>3. Aggregate(S) = {RowOf(S, m) : m \in M}
    BY DEF Aggregate
  <1> HIDE DEF M
  <1>4. IsFiniteSet({RowOf(S, m) : m \in M})
    <2> DEFINE f == [m \in M |-> RowOf(S, m)]
    <2>1. IsFiniteSet({f[m] : m \in M})
      BY <1>2, FiniteImage
    <2>2. \A m \in M : f[m] = RowOf(S, m)
      OBVIOUS
    <2> HIDE DEF f
    <2>3. {f[m] : m \in M} = {RowOf(S, m) : m \in M}
      BY <2>2
    <2> QED
      BY <2>1, <2>3
  <1>5. \A m \in M : RowOf(S, m) \in Row
    BY <1>1, RowTyped
  <1> QED
    BY <1>3, <1>4, <1>5

\* The row of two groups of items adds up their rows.
LEMMA RowOfParts ==
    ASSUME NEW A \in SUBSET ItemSet, NEW B \in SUBSET ItemSet, IsFiniteSet(A), IsFiniteSet(B),
           A \cap B = {}, NEW m \in Models
    PROVE  /\ RowOf(A \cup B, m).input = Plus(RowOf(A, m).input, RowOf(B, m).input)
           /\ RowOf(A \cup B, m).total = Plus(RowOf(A, m).total, RowOf(B, m).total)
  <1> DEFINE S == OfModel(A, m)
             T == OfModel(B, m)
             U == OfModel(A \cup B, m)
             in == [x \in U |-> x.input]
             all == [x \in U |-> EffectiveTotal(x)]
  <1>1. A \cup B \in SUBSET ItemSet /\ IsFiniteSet(A \cup B)
    BY FS_Union
  <1>2. U = S \cup T /\ S \cap T = {} /\ IsFiniteSet(S) /\ IsFiniteSet(T)
    <2>1. IsFiniteSet(S) /\ IsFiniteSet(T)
      BY OfModelTyped
    <2>2. U = S \cup T /\ S \cap T = {}
      BY DEF OfModel
    <2> QED
      BY <2>1, <2>2
  <1>3. in \in [U -> Value] /\ all \in [U -> Value]
    <2> DEFINE AB == A \cup B
    <2> HIDE DEF AB
    <2>1. /\ [x \in OfModel(AB, m) |-> x.input] \in [OfModel(AB, m) -> Value]
          /\ [x \in OfModel(AB, m) |-> EffectiveTotal(x)] \in [OfModel(AB, m) -> Value]
      BY <1>1, OfModelTyped DEF AB
    <2> QED
      BY <2>1 DEF AB
  <1>4. /\ \A x \in S : in[x] = x.input /\ all[x] = EffectiveTotal(x)
        /\ \A x \in T : in[x] = x.input /\ all[x] = EffectiveTotal(x)
    BY <1>2
  <1>5. /\ RowOf(A \cup B, m).input = SumOptional(in)
        /\ RowOf(A \cup B, m).total = SumOptional(all)
    BY <1>1, RowTyped
  <1> HIDE DEF in, all, U
  <1>6. /\ [x \in S |-> in[x]] = [x \in S |-> x.input]
        /\ [x \in T |-> in[x]] = [x \in T |-> x.input]
        /\ [x \in S |-> all[x]] = [x \in S |-> EffectiveTotal(x)]
        /\ [x \in T |-> all[x]] = [x \in T |-> EffectiveTotal(x)]
    BY <1>4
  <1>7. /\ SumOptional([x \in S |-> in[x]]) = RowOf(A, m).input
        /\ SumOptional([x \in T |-> in[x]]) = RowOf(B, m).input
        /\ SumOptional([x \in S |-> all[x]]) = RowOf(A, m).total
        /\ SumOptional([x \in T |-> all[x]]) = RowOf(B, m).total
    BY <1>6, RowTyped
  <1> HIDE DEF S, T
  <1>8. /\ SumOptional(in) = Plus(SumOptional([x \in S |-> in[x]]), SumOptional([x \in T |-> in[x]]))
        /\ SumOptional(all) = Plus(SumOptional([x \in S |-> all[x]]), SumOptional([x \in T |-> all[x]]))
    <2>1. IsFiniteSet(S \cup T) /\ in \in [S \cup T -> Value] /\ all \in [S \cup T -> Value]
      BY <1>2, <1>3, FS_Union
    <2>2. SumOptional(in) = Plus(SumOptional([x \in S |-> in[x]]), SumOptional([x \in T |-> in[x]]))
      BY <1>2, <2>1, OptionalParts
    <2>3. SumOptional(all) = Plus(SumOptional([x \in S |-> all[x]]), SumOptional([x \in T |-> all[x]]))
      BY <1>2, <2>1, OptionalParts
    <2> QED
      BY <2>2, <2>3
  <1> QED
    BY <1>5, <1>7, <1>8

\* The rows of an earlier sum count like the items they were made of.
LEMMA Resummed ==
    ASSUME NEW A \in SUBSET ItemSet, IsFiniteSet(A), NEW m \in Models,
           NEW Z, Z = {Item(0, x) : x \in Aggregate(A)}
    PROVE  RowOf(Z, m).input = RowOf(A, m).input /\ RowOf(Z, m).total = RowOf(A, m).total
  <1> DEFINE row == RowOf(A, m)
             one == Item(0, row)
  <1>1. /\ row \in Row /\ row.model = m
        /\ row.total = Unknown => row.input = Unknown
    BY RowTyped
  <1>2. /\ RowOf(Z, m).input = SumOptional([x \in OfModel(Z, m) |-> x.input])
        /\ RowOf(Z, m).total = SumOptional([x \in OfModel(Z, m) |-> EffectiveTotal(x)])
        /\ RowOf(A, m).input = SumOptional([x \in OfModel(A, m) |-> x.input])
        /\ RowOf(A, m).total = SumOptional([x \in OfModel(A, m) |-> EffectiveTotal(x)])
    BY DEF RowOf
  <1>3. \A n : RowOf(A, n).model = n
    BY DEF RowOf
  <1>4. CASE m \in {x.model : x \in A}
    <2>1. row \in Aggregate(A)
      BY <1>4 DEF Aggregate
    <2>2. ASSUME NEW z \in Z, z.model = m PROVE z = one
      <3>1. PICK n \in {x.model : x \in A} : z = Item(0, RowOf(A, n))
        BY DEF Aggregate
      <3>2. z.model = n
        BY <1>3, <3>1 DEF Item
      <3> QED
        BY <2>2, <3>1, <3>2
    <2>3. one \in Z /\ one.model = m
      BY <1>1, <2>1 DEF Item
    <2>4. OfModel(Z, m) = {one}
      BY <2>2, <2>3 DEF OfModel
    <2>5. one.input = row.input /\ one.total = row.total
      BY DEF Item
    <2>6. row.input \in Value /\ row.total \in Value
      BY <1>1 DEF Row, Value
    <2>7. EffectiveTotal(one) = row.total
      BY <1>1, <2>5 DEF EffectiveTotal
    <2> HIDE DEF one, row
    <2>8. SumOptional([x \in {one} |-> x.input]) = row.input
      <3> DEFINE f == [x \in {one} |-> x.input]
      <3>1. f \in [{one} -> Value] /\ f[one] = row.input
        BY <2>5, <2>6
      <3> HIDE DEF f
      <3>2. SumOptional(f) = row.input
        BY <3>1, OptionalOne
      <3> QED
        BY <3>2 DEF f
    <2>9. SumOptional([x \in {one} |-> EffectiveTotal(x)]) = row.total
      <3> DEFINE f == [x \in {one} |-> EffectiveTotal(x)]
      <3>1. f \in [{one} -> Value] /\ f[one] = row.total
        BY <2>6, <2>7
      <3> HIDE DEF f
      <3>2. SumOptional(f) = row.total
        BY <3>1, OptionalOne
      <3> QED
        BY <3>2 DEF f
    <2> QED
      BY <1>2, <2>4, <2>8, <2>9 DEF row
  <1>5. CASE m \notin {x.model : x \in A}
    <2>1. OfModel(A, m) = {}
      BY <1>5 DEF OfModel
    <2>2. ASSUME NEW z \in Z, z.model = m PROVE FALSE
      <3>1. PICK n \in {x.model : x \in A} : z = Item(0, RowOf(A, n))
        BY DEF Aggregate
      <3>2. z.model = n
        BY <1>3, <3>1 DEF Item
      <3> QED
        BY <1>5, <2>2, <3>1, <3>2
    <2>3. OfModel(Z, m) = {}
      BY <2>2 DEF OfModel
    <2> QED
      BY <1>2, <2>1, <2>3
  <1> QED
    BY <1>4, <1>5

\* merge_rows: adding new items to the rows of the old ones gives the rows of all.
LEMMA AddUp ==
    ASSUME NEW A \in SUBSET ItemSet, NEW B \in SUBSET ItemSet, IsFiniteSet(A), IsFiniteSet(B),
           A \cap B = {}, \A x \in B : x.id # 0
    PROVE  Aggregate({Item(0, x) : x \in Aggregate(A)} \cup B) = Aggregate(A \cup B)
  <1> DEFINE Z == {Item(0, x) : x \in Aggregate(A)}
             M(S) == {x.model : x \in S}
  <1>1. Aggregate(A) \subseteq Row /\ IsFiniteSet(Aggregate(A))
    BY AggregateTyped
  <1>2. \A x \in Row : Item(0, x) \in ItemSet /\ Item(0, x).id = 0 /\ Item(0, x).model = x.model
    BY DEF Item, ItemSet, Row, Models, Value
  <1>3. Z \in SUBSET ItemSet /\ Z \cap B = {}
    <2>1. \A z \in Z : z \in ItemSet /\ z.id = 0
      BY <1>1, <1>2
    <2> HIDE DEF Z
    <2> QED
      BY <2>1
  <1>4. IsFiniteSet(Z)
    <2> DEFINE f == [x \in Aggregate(A) |-> Item(0, x)]
    <2>2. \A x \in Aggregate(A) : f[x] = Item(0, x)
      OBVIOUS
    <2> HIDE DEF f
    <2>1. IsFiniteSet({f[x] : x \in Aggregate(A)})
      BY <1>1, FiniteImage
    <2>3. {f[x] : x \in Aggregate(A)} = Z
      BY <2>2
    <2> QED
      BY <2>1, <2>3
  <1>5. M(Z) = M(A)
    <2>1. \A m : RowOf(A, m).model = m
      BY DEF RowOf
    <2>2. \A z \in Z : z.model \in M(A)
      BY <1>1, <1>2, <2>1 DEF Aggregate
    <2>3. ASSUME NEW m \in M(A) PROVE m \in M(Z)
      <3>1. RowOf(A, m) \in Aggregate(A)
        BY DEF Aggregate
      <3>2. Item(0, RowOf(A, m)) \in Z /\ Item(0, RowOf(A, m)).model = m
        BY <1>1, <1>2, <2>1, <3>1
      <3> QED
        BY <3>2
    <2> QED
      BY <2>2, <2>3
  <1>6. M(Z \cup B) = M(A \cup B) /\ M(A \cup B) \subseteq Models
    BY <1>5 DEF ItemSet
  <1> HIDE DEF Z
  <1>7. ASSUME NEW m \in Models PROVE RowOf(Z \cup B, m) = RowOf(A \cup B, m)
    <2>1. /\ RowOf(Z, m).input = RowOf(A, m).input
          /\ RowOf(Z, m).total = RowOf(A, m).total
      BY Resummed DEF Z
    <2>2. /\ RowOf(Z \cup B, m).input = Plus(RowOf(Z, m).input, RowOf(B, m).input)
          /\ RowOf(Z \cup B, m).total = Plus(RowOf(Z, m).total, RowOf(B, m).total)
      BY <1>3, <1>4, RowOfParts
    <2>3. /\ RowOf(A \cup B, m).input = Plus(RowOf(A, m).input, RowOf(B, m).input)
          /\ RowOf(A \cup B, m).total = Plus(RowOf(A, m).total, RowOf(B, m).total)
      BY RowOfParts
    <2>4. \A S : RowOf(S, m) = [model |-> m, input |-> RowOf(S, m).input,
                                total |-> RowOf(S, m).total]
      BY DEF RowOf
    <2>5. /\ RowOf(Z \cup B, m).input = RowOf(A \cup B, m).input
          /\ RowOf(Z \cup B, m).total = RowOf(A \cup B, m).total
      BY <2>1, <2>2, <2>3
    <2> QED
      BY <2>4, <2>5, Zenon
  <1>8. Aggregate(Z \cup B) = {RowOf(Z \cup B, m) : m \in M(Z \cup B)}
        /\ Aggregate(A \cup B) = {RowOf(A \cup B, m) : m \in M(A \cup B)}
    BY DEF Aggregate
  <1> HIDE DEF M
  <1>9. Aggregate(Z \cup B) = Aggregate(A \cup B)
    BY <1>6, <1>7, <1>8
  <1> QED
    BY <1>9 DEF Z

-----------------------------------------------------------------------------
(* Tables of parts.                                                        *)

\* The largest rowid is one of a row, or zero.
LEMMA TopIs ==
    ASSUME NEW rows, IsFiniteSet(DOMAIN rows), DOMAIN rows \subseteq Nat \ {0}
    PROVE  /\ Top(rows) \in Nat /\ Top(rows) \in DOMAIN rows \cup {0}
           /\ \A r \in DOMAIN rows : r <= Top(rows)
  <1> DEFINE S == DOMAIN rows \cup {0}
             P == {s \in SUBSET S : s = {} \/ \E m \in s : \A r \in s : r <= m}
  <1>1. IsFiniteSet(S) /\ S \subseteq Nat
    BY FS_AddElement
  <1> HIDE DEF S
  <1>2. {} \in P
    OBVIOUS
  <1>3. ASSUME NEW s \in SUBSET S, s # {}, \A x \in s : s \ {x} \in P PROVE s \in P
    <2>1. PICK x \in s : TRUE
      BY <1>3
    <2>2. CASE s \ {x} = {}
      <3>1. \A r \in s : r <= x
        BY <1>1, <2>1, <2>2
      <3> QED
        BY <2>1, <3>1
    <2>3. CASE s \ {x} # {}
      <3>1. PICK m \in s \ {x} : \A r \in s \ {x} : r <= m
        BY <1>3, <2>1, <2>3
      <3>2. CASE x <= m
        BY <2>1, <3>1, <3>2
      <3>3. CASE ~(x <= m)
        <4>1. \A r \in s : r <= x
          BY <1>1, <2>1, <3>1, <3>3
        <4> QED
          BY <2>1, <4>1
      <3> QED
        BY <3>2, <3>3
    <2> QED
      BY <2>2, <2>3
  <1> HIDE DEF P
  <1>4. S \in P
    <2>1. P \in SUBSET SUBSET S
      BY DEF P
    <2> QED
      BY <1>1, <1>2, <1>3, <2>1, SubsetInduction
  <1>5. \E m \in S : \A r \in S : r <= m
    BY <1>4 DEF P, S
  <1>6. \E m \in S : \A r \in S : m >= r
    BY <1>1, <1>5
  <1>7. Top(rows) \in S /\ \A r \in S : Top(rows) >= r
    BY <1>6 DEF Top, Max, S
  <1>8. \A r \in S : r <= Top(rows)
    BY <1>1, <1>7
  <1> QED
    BY <1>1, <1>7, <1>8 DEF S

\* The parts of a table.
LEMMA PartsTyped ==
    ASSUME NEW n, NEW born, NEW rows, Table(rows, n, born), NEW from, NEW d
    PROVE  /\ PartsOf(rows, from, d) \subseteq Parts /\ IsFiniteSet(PartsOf(rows, from, d))
           /\ \A x \in PartsOf(rows, from, d) : x.id \in 1 .. n
  <1> DEFINE D == {r \in DOMAIN rows : r > from /\ Day(rows[r].time) = d}
             f == [r \in D |-> rows[r]]
  <1>1. IsFiniteSet(D)
    <2>1. IsFiniteSet(DOMAIN rows) /\ D \subseteq DOMAIN rows
      BY DEF Table
    <2> HIDE DEF D
    <2> QED
      BY <2>1, FS_Subset
  <1>2. IsFiniteSet({f[r] : r \in D})
    <2> HIDE DEF D, f
    <2> QED
      BY <1>1, FiniteImage
  <1>3. {f[r] : r \in D} = PartsOf(rows, from, d)
    BY DEF PartsOf
  <1>4. \A r \in D : rows[r] \in Parts /\ rows[r].id \in 1 .. n
    BY DEF Table
  <1> QED
    BY <1>2, <1>3, <1>4 DEF PartsOf

\* Items made of parts.
LEMMA ItemsTyped ==
    ASSUME NEW S \in SUBSET Parts, IsFiniteSet(S)
    PROVE  Items(S) \in SUBSET ItemSet /\ IsFiniteSet(Items(S))
  <1> DEFINE f == [x \in S |-> Item(x.id, x)]
  <1>1. IsFiniteSet({f[x] : x \in S})
    BY FiniteImage
  <1>2. {f[x] : x \in S} = Items(S)
    BY DEF Items
  <1>3. \A x \in S : Item(x.id, x) \in ItemSet
    BY DEF Item, Parts, ItemSet
  <1> HIDE DEF f
  <1> QED
    BY <1>1, <1>2, <1>3 DEF Items

\* Where all are well formed, a full reading leaves nothing out.
LEMMA AllDaysIs ==
    ASSUME NEW rows, NEW d, \A x \in PartsOf(rows, 0, d) : x.ok
    PROVE  AllDays(rows, d) = Aggregate(Items(PartsOf(rows, 0, d)))
  <1>1. {WellFormed(x) : x \in PartsOf(rows, 0, d)} = PartsOf(rows, 0, d)
    BY DEF WellFormed
  <1> QED
    BY <1>1 DEF AllDays

Ids(S) == {x.id : x \in S}
Before(rows, w, d) == PartsOf(UpTo(rows, w), 0, d)

\* Parts at different rowids have different identifiers.
LEMMA SplitAt ==
    ASSUME NEW n, NEW born, NEW rows, Table(rows, n, born), NEW w \in Nat, NEW d
    PROVE  /\ PartsOf(rows, 0, d) = Before(rows, w, d) \cup PartsOf(rows, w, d)
           /\ Ids(Before(rows, w, d)) \cap Ids(PartsOf(rows, w, d)) = {}
           /\ Before(rows, w, d) \subseteq PartsOf(rows, 0, d)
  <1> DEFINE early == {r \in DOMAIN rows : r > 0 /\ r <= w /\ Day(rows[r].time) = d}
             late == {r \in DOMAIN rows : r > w /\ Day(rows[r].time) = d}
             both == {r \in DOMAIN rows : r > 0 /\ Day(rows[r].time) = d}
  <1>1. DOMAIN rows \subseteq Nat \ {0}
    BY DEF Table
  <1>2. Before(rows, w, d) = {rows[r] : r \in early}
    <2>1. /\ DOMAIN UpTo(rows, w) = {r \in DOMAIN rows : r <= w}
          /\ \A r \in DOMAIN rows : r <= w => UpTo(rows, w)[r] = rows[r]
      BY DEF UpTo
    <2>2. {r \in DOMAIN UpTo(rows, w) : r > 0 /\ Day(UpTo(rows, w)[r].time) = d} = early
      BY <2>1
    <2> QED
      BY <2>1, <2>2 DEF Before, PartsOf
  <1>3. PartsOf(rows, w, d) = {rows[r] : r \in late} /\ PartsOf(rows, 0, d) = {rows[r] : r \in both}
    BY DEF PartsOf
  <1>4. both = early \cup late
    BY <1>1
  <1>5. \A r \in early, s \in late : r < s
    BY <1>1
  <1>6. \A r \in early, s \in late : rows[r].id # rows[s].id
    <2> SUFFICES ASSUME NEW r \in early, NEW s \in late PROVE rows[r].id # rows[s].id
      OBVIOUS
    <2>1. r \in DOMAIN rows /\ s \in DOMAIN rows /\ r < s
      BY <1>5
    <2>2. rows[r].id < rows[s].id /\ rows[r] \in Parts /\ rows[s] \in Parts
      BY <2>1 DEF Table
    <2> QED
      BY <2>2 DEF Parts
  <1> HIDE DEF early, late, both
  <1> QED
    BY <1>2, <1>3, <1>4, <1>6 DEF Ids

\* The parts behind a cursor that were not counted before.
Fresh(rows, w, d, seen) == {x \in PartsOf(rows, w, d) : x.id \notin seen}

\* A sum that stands for the rows up to the cursor goes on to stand for them all: nothing
\* behind the cursor was counted before, and nothing before it is missed.
LEMMA GoesOn ==
    ASSUME NEW n, NEW born, NEW rows, Table(rows, n, born), NEW w \in Nat, NEW d,
           NEW totals, totals = Aggregate(Items(Before(rows, w, d))),
           NEW seen, seen = Ids(Before(rows, w, d)),
           NEW fresh, fresh = Fresh(rows, w, d, seen)
    PROVE  /\ Merge(totals, fresh) = Aggregate(Items(PartsOf(rows, 0, d)))
           /\ seen \cup Ids(fresh) = Ids(PartsOf(rows, 0, d))
  <1> DEFINE A == Before(rows, w, d)
             B == PartsOf(rows, w, d)
  <1>1. /\ PartsOf(rows, 0, d) = A \cup B /\ Ids(A) \cap Ids(B) = {}
        /\ A \subseteq PartsOf(rows, 0, d)
    BY SplitAt
  <1>2. /\ PartsOf(rows, 0, d) \subseteq Parts /\ IsFiniteSet(PartsOf(rows, 0, d))
        /\ B \subseteq Parts /\ IsFiniteSet(B) /\ \A x \in B : x.id \in 1 .. n
    BY PartsTyped
  <1> HIDE DEF A, B
  <1>3. A \in SUBSET Parts /\ B \in SUBSET Parts /\ IsFiniteSet(A) /\ IsFiniteSet(B)
    BY <1>1, <1>2, FS_Subset
  <1>4. fresh = B
    BY <1>1 DEF Fresh, Ids, A, B
  <1>5. /\ Items(A) \in SUBSET ItemSet /\ IsFiniteSet(Items(A))
        /\ Items(B) \in SUBSET ItemSet /\ IsFiniteSet(Items(B))
    BY <1>3, ItemsTyped
  <1>6. \A x : Item(x.id, x).id = x.id
    BY DEF Item
  <1>7. Items(A) \cap Items(B) = {}
    BY <1>1, <1>6 DEF Items, Ids
  <1>8. \A i \in Items(B) : i.id # 0
    BY <1>2, <1>6 DEF Items
  <1>9. Merge(totals, fresh) = Aggregate(Items(A) \cup Items(B))
    <2>1. totals = Aggregate(Items(A))
      BY DEF A
    <2>2. Merge(totals, fresh) = Aggregate({Item(0, x) : x \in Aggregate(Items(A))} \cup Items(B))
      BY <1>4, <2>1 DEF Merge
    <2> QED
      BY <1>5, <1>7, <1>8, <2>2, AddUp
  <1>10. Items(A) \cup Items(B) = Items(A \cup B)
    BY DEF Items
  <1>11. Ids(A) \cup Ids(B) = Ids(A \cup B)
    BY DEF Ids
  <1>12. seen = Ids(A)
    BY DEF A
  <1> QED
    BY <1>1, <1>4, <1>9, <1>10, <1>11, <1>12

-----------------------------------------------------------------------------
(* Where a scan starts.                                                    *)

LEMMA DayGrows ==
    ASSUME NEW a \in Nat, NEW b \in Nat
    PROVE  /\ Day(a) \in Nat
           /\ a <= b => Day(a) <= Day(b)
  BY OpenCodeAssumption DEF Day

\* Nothing is counted yet.
LEMMA NothingCounted ==
    ASSUME NEW rows, NEW w, NEW d, Before(rows, w, d) = {}
    PROVE  {} = Aggregate(Items(Before(rows, w, d))) /\ {} = Ids(Before(rows, w, d))
  BY DEF Aggregate, Items, Ids

LEMMA NothingAtZero ==
    ASSUME NEW n, NEW born, NEW rows, Table(rows, n, born), NEW d
    PROVE  Before(rows, 0, d) = {}
  <1>1. DOMAIN UpTo(rows, 0) = {}
    BY DEF UpTo, Table
  <1> QED
    BY <1>1 DEF Before, PartsOf

\* When the clock only advances and no scan runs across midnight, the rows behind the
\* cursor of an earlier day are all of earlier days.
LEMMA NothingToday ==
    ASSUME NEW n, NEW born, NEW x, NEW rows, NEW now \in Nat,
           Kept(x, n, born, TRUE, now), Table(rows, n, born), Ordered(n, born, now),
           x.id = IdAt(rows, x.watermark), x.day # Day(now)
    PROVE  Before(rows, x.watermark, Day(now)) = {}
  <1> DEFINE w == x.watermark
  <1>1. /\ Table(x.base, n, born) /\ w = Top(x.base) /\ x.id = IdAt(x.base, w)
        /\ x.day \in Nat
    BY DEF Kept, Sound
  <1>2. x.day <= Day(now) /\ \A r \in DOMAIN x.base : Day(x.base[r].time) <= x.day
    BY DEF Kept, Past
  <1>3. Day(now) \in Nat
    BY DayGrows
  <1>4. w \in Nat /\ w \in DOMAIN x.base \cup {0}
    BY <1>1, TopIs DEF Table
  <1> SUFFICES ASSUME NEW r \in DOMAIN rows, r <= w, r > 0, Day(rows[r].time) = Day(now)
               PROVE  FALSE
    BY DEF Before, PartsOf, UpTo
  <1> HIDE DEF w
  <1>5. w \in DOMAIN x.base
    BY <1>4 DEF Table
  <1>6. x.base[w] \in Parts /\ x.base[w].id \in 1 .. n /\ x.base[w].time = born[x.base[w].id]
    BY <1>1, <1>5 DEF Table
  <1>7. x.id = x.base[w].id
    BY <1>1, <1>5 DEF IdAt
  <1>8. w \in DOMAIN rows /\ rows[w].id = x.id
    BY <1>6, <1>7 DEF IdAt, w
  <1>9. /\ rows[r] \in Parts /\ rows[r].id \in 1 .. n /\ rows[r].time = born[rows[r].id]
        /\ r \in Nat
    BY DEF Table
  <1>10. rows[r].id <= rows[w].id
    <2>1. CASE r = w
      BY <1>9, <2>1
    <2>2. CASE r < w
      <3>1. rows[r].id < rows[w].id
        BY <1>8, <2>2 DEF Table
      <3> QED
        BY <1>6, <1>7, <1>8, <1>9, <3>1
    <2> QED
      BY <1>4, <1>9, <2>1, <2>2
  <1>11. rows[r].id \in 1 .. x.base[w].id
    BY <1>6, <1>7, <1>8, <1>9, <1>10
  <1>12. born[rows[r].id] <= born[x.base[w].id]
    BY <1>6, <1>11 DEF Ordered
  <1>13. rows[r].time <= x.base[w].time /\ rows[r].time \in Nat /\ x.base[w].time \in Nat
    BY <1>6, <1>9, <1>12 DEF Parts
  <1>14. Day(rows[r].time) <= Day(x.base[w].time) /\ Day(x.base[w].time) \in Nat
    BY <1>13, DayGrows
  <1> QED
    BY <1>1, <1>2, <1>3, <1>5, <1>14

\* What is known where a scan starts to count.
LEMMA StartTyped ==
    ASSUME NEW born, Typed, Explained(born), NEW p \in Procs
    PROVE  LET from == From(index, task[p])
           IN  /\ from.watermark \in Nat /\ from.rebuilt \in Nat
               /\ from.totals \subseteq Row /\ IsFiniteSet(from.totals)
  <1> DEFINE t == task[p]
             from == From(index, t)
  <1>1. t.now \in Nat
    BY DEF Typed, IsTask
  <1>2. CASE Rebuilds(index, t)
    <2>1. from.watermark = 0 /\ from.rebuilt = t.now /\ from.totals = {}
      BY <1>2 DEF From, NoIndex
    <2> QED
      BY <1>1, <2>1, FS_EmptySet
  <1>3. CASE ~Rebuilds(index, t)
    <2>1. index # NoIndex
      BY <1>3 DEF Rebuilds, Valid
    <2>2. Sound(index, Issued, born)
      BY <2>1 DEF Explained, Kept
    <2>3. index.watermark \in Nat
      BY <2>2, TopIs DEF Sound, Table
    <2>4. index.totals \subseteq Row /\ IsFiniteSet(index.totals) /\ index.rebuilt \in Nat
      BY <2>2 DEF Sound, Typed, IsIndex
    <2>5. CASE RolledOver(index, t)
      <3>1. from = [index EXCEPT !.day = Day(t.now), !.seen = {}, !.totals = {}]
        BY <1>3, <2>5 DEF From, Rollover
      <3>2. /\ from.watermark = index.watermark /\ from.rebuilt = index.rebuilt
            /\ from.totals = {}
        BY <3>1 DEF Typed, IsIndex
      <3> QED
        BY <2>3, <2>4, <3>2, FS_EmptySet
    <2>6. CASE ~RolledOver(index, t)
      <3>1. from = index
        BY <1>3, <2>6 DEF From
      <3> QED
        BY <2>3, <2>4, <3>1
    <2> QED
      BY <2>5, <2>6
  <1> QED
    BY <1>2, <1>3

\* Without drift, it starts from what the rows up to the cursor add up to.
LEMMA StartExact ==
    ASSUME NEW born, Typed, Explained(born), NEW p \in Procs, pc[p] = "snapshot",
           ~Drifts(index, task[p])
    PROVE  LET from == From(index, task[p])
               early == Before(task[p].snap, from.watermark, Day(task[p].now))
           IN  /\ from.totals = Aggregate(Items(early)) /\ from.seen = Ids(early)
               /\ \A x \in early : x.ok
  <1> DEFINE t == task[p]
             from == From(index, t)
             d == Day(t.now)
             early == Before(t.snap, from.watermark, d)
  <1>1. t.now \in Nat /\ Table(t.snap, Issued, born)
    BY DEF Typed, IsTask, Explained, Working
  <1>2. CASE Rebuilds(index, t)
    <2>1. from.watermark = 0 /\ from.seen = {} /\ from.totals = {}
      BY <1>2 DEF From, NoIndex
    <2>2. early = {}
      BY <1>1, <2>1, NothingAtZero
    <2> QED
      BY <2>1, <2>2, NothingCounted
  <1>3. CASE ~Rebuilds(index, t)
    <2>1. Valid(index, t) /\ index # NoIndex
      BY <1>3 DEF Rebuilds, Valid
    <2>2. Kept(index, Issued, born, env.calm, clock)
      BY <2>1 DEF Explained
    <2>3. CASE RolledOver(index, t)
      <3>1. from = [index EXCEPT !.day = d, !.seen = {}, !.totals = {}]
        BY <1>3, <2>3 DEF From, Rollover
      <3>2. from.watermark = index.watermark /\ from.seen = {} /\ from.totals = {}
        BY <3>1 DEF Typed, IsIndex
      <3>3. early = {}
        <4>1. CASE ~env.calm
          BY <1>3, <2>3, <3>2, <4>1 DEF Drifts, Before
        <4>2. CASE env.calm
          <5>1. t.now = clock /\ Ordered(Issued, born, clock)
            BY <4>2 DEF Explained, Working
          <5>2. index.id = IdAt(t.snap, index.watermark)
            BY <2>1 DEF Valid
          <5>3. index.day # Day(clock) /\ clock \in Nat
            BY <1>1, <2>3, <5>1 DEF RolledOver
          <5>4. Kept(index, Issued, born, TRUE, clock)
            BY <2>2, <4>2 DEF Kept, Past
          <5>5. Before(t.snap, index.watermark, Day(clock)) = {}
            <6> HIDE DEF t
            <6> QED
              BY <1>1, <5>1, <5>2, <5>3, <5>4, NothingToday
          <5> QED
            BY <3>2, <5>1, <5>5
        <4> QED
          BY <4>1, <4>2
      <3> QED
        BY <3>2, <3>3, NothingCounted
    <2>4. CASE ~RolledOver(index, t)
      <3>1. from = index
        BY <1>3, <2>4 DEF From
      <3>2. index.day = d
        BY <2>1, <2>4 DEF RolledOver
      <3>3. ~index.drift /\ index.base = UpTo(t.snap, index.watermark)
        BY <1>3, <2>1, <2>4 DEF Drifts, Undetectable, Valid, SameFile
      <3>4. early = PartsOf(index.base, 0, index.day)
        BY <3>1, <3>2, <3>3 DEF Before
      <3> QED
        BY <2>2, <3>1, <3>3, <3>4 DEF Kept, Exact, Ids
    <2> QED
      BY <2>3, <2>4
  <1> QED
    BY <1>2, <1>3

-----------------------------------------------------------------------------
(* What a scan saves.                                                      *)

\* Rows and new parts are merged into rows.
LEMMA MergeTyped ==
    ASSUME NEW old \in SUBSET Row, IsFiniteSet(old),
           NEW fresh \in SUBSET Parts, IsFiniteSet(fresh)
    PROVE  Merge(old, fresh) \subseteq Row /\ IsFiniteSet(Merge(old, fresh))
  <1> DEFINE Z == {Item(0, x) : x \in old}
             f == [x \in old |-> Item(0, x)]
  <1>1. IsFiniteSet({f[x] : x \in old})
    BY FiniteImage
  <1>2. {f[x] : x \in old} = Z
    OBVIOUS
  <1>3. \A x \in old : Item(0, x) \in ItemSet
    BY DEF Item, ItemSet, Row, Models, Value
  <1> HIDE DEF f
  <1>4. Z \in SUBSET ItemSet /\ IsFiniteSet(Z)
    BY <1>1, <1>2, <1>3
  <1>5. Items(fresh) \in SUBSET ItemSet /\ IsFiniteSet(Items(fresh))
    BY ItemsTyped
  <1>6. Z \cup Items(fresh) \in SUBSET ItemSet /\ IsFiniteSet(Z \cup Items(fresh))
    BY <1>4, <1>5, FS_Union
  <1>7. Merge(old, fresh) = Aggregate(Z \cup Items(fresh))
    BY DEF Merge
  <1> HIDE DEF Z
  <1> QED
    BY <1>6, <1>7, AggregateTyped

\* The checkpoint of a scan that read the whole suffix.
Saved(p) ==
    LET t == task[p]
        from == From(index, t)
        fresh == {x \in PartsOf(t.snap, from.watermark, Day(t.now)) : x.id \notin from.seen}
    IN  [file |-> t.file, day |-> Day(t.now), watermark |-> Top(t.snap),
         id |-> IdAt(t.snap, Top(t.snap)), seen |-> SeenWith(from, fresh),
         totals |-> Merge(from.totals, fresh), rebuilt |-> from.rebuilt,
         base |-> t.snap, drift |-> Drifts(index, t)]

\* It is sound, and exact if nothing drifted.
LEMMA SavedIsKept ==
    ASSUME NEW born, Typed, Explained(born), NEW p \in Procs, pc[p] = "snapshot",
           \A x \in PartsOf(task[p].snap, From(index, task[p]).watermark, Day(task[p].now)) :
               x.ok,
           ~Overflows(Saved(p).totals)
    PROVE  IsIndex(Saved(p)) /\ Kept(Saved(p), Issued, born, env.calm, clock)
  <1> DEFINE t == task[p]
             d == Day(t.now)
             from == From(index, t)
             suffix == PartsOf(t.snap, from.watermark, d)
             fresh == {x \in suffix : x.id \notin from.seen}
             next == Saved(p)
  <1>1. t.now \in Nat /\ d \in Nat
    BY DayGrows DEF Typed, IsTask
  <1>2. Table(t.snap, Issued, born) /\ (env.calm => t.now = clock)
    BY DEF Explained, Working
  <1>3. /\ from.watermark \in Nat /\ from.rebuilt \in Nat
        /\ from.totals \subseteq Row /\ IsFiniteSet(from.totals)
    BY StartTyped
  <1>4. Drifts(index, t) \in BOOLEAN
    BY DEF Drifts, Typed, IsIndex
  <1>5. /\ next.file = t.file /\ next.day = d /\ next.watermark = Top(t.snap)
        /\ next.id = IdAt(t.snap, Top(t.snap)) /\ next.seen = SeenWith(from, fresh)
        /\ next.totals = Merge(from.totals, fresh) /\ next.rebuilt = from.rebuilt
        /\ next.base = t.snap /\ next.drift = Drifts(index, t)
        /\ next = [file |-> next.file, day |-> next.day, watermark |-> next.watermark,
                   id |-> next.id, seen |-> next.seen, totals |-> next.totals,
                   rebuilt |-> next.rebuilt, base |-> next.base, drift |-> next.drift]
    BY DEF Saved
  <1>6. /\ \A x \in suffix : x.ok
        /\ ~Overflows(next.totals)
    OBVIOUS
  <1> HIDE DEF t, d, from, next
  <1>7. suffix \subseteq Parts /\ IsFiniteSet(suffix)
    BY <1>2, PartsTyped
  <1>8. fresh \in SUBSET Parts /\ IsFiniteSet(fresh)
    BY <1>7, FS_Subset
  <1>9. next.totals \subseteq Row /\ IsFiniteSet(next.totals)
    <2> HIDE DEF fresh
    <2> QED
      BY <1>3, <1>5, <1>8, MergeTyped
  <1>10. \A row \in next.totals : row.total <= Limit
    <2> SUFFICES ASSUME NEW row \in next.totals PROVE row.total <= Limit
      OBVIOUS
    <2>1. row \in Row
      BY <1>9
    <2>2. row.total \in Int
      BY <2>1 DEF Row, Unknown
    <2>3. ~(row.total > Limit)
      BY <1>6 DEF Overflows
    <2>4. Limit \in Int
      BY OpenCodeAssumption
    <2> QED
      BY <2>2, <2>3, <2>4
  <1>11. Sound(next, Issued, born)
    BY <1>1, <1>2, <1>5, <1>9, <1>10 DEF Sound
  <1>12. Past(next, env.calm, clock)
    <2> SUFFICES ASSUME env.calm
                 PROVE  /\ next.day <= Day(clock)
                        /\ \A r \in DOMAIN next.base : Day(next.base[r].time) <= next.day
      BY DEF Past
    <2>1. t.now = clock /\ next.day = Day(clock) /\ clock \in Nat
      BY <1>1, <1>2, <1>5 DEF d
    <2>2. ASSUME NEW r \in DOMAIN t.snap PROVE Day(t.snap[r].time) <= Day(clock)
      <3>1. /\ t.snap[r] \in Parts /\ t.snap[r].id \in 1 .. Issued
            /\ t.snap[r].time = born[t.snap[r].id]
        BY <1>2 DEF Table
      <3>2. born[t.snap[r].id] <= clock
        BY <3>1 DEF Explained, Ordered
      <3>3. t.snap[r].time \in Nat /\ t.snap[r].time <= clock
        BY <3>1, <3>2 DEF Parts
      <3> QED
        BY <2>1, <3>3, DayGrows
    <2>3. Day(clock) \in Nat
      BY <2>1, DayGrows
    <2> QED
      BY <1>5, <2>1, <2>2, <2>3
  <1>13. Exact(next)
    <2> SUFFICES ASSUME ~Drifts(index, t)
                 PROVE  /\ \A x \in PartsOf(next.base, 0, next.day) : x.ok
                        /\ next.totals = Aggregate(Items(PartsOf(next.base, 0, next.day)))
                        /\ next.seen = Ids(PartsOf(next.base, 0, next.day))
      BY <1>5 DEF Exact, Ids
    <2> DEFINE early == Before(t.snap, from.watermark, d)
    <2>1. /\ from.totals = Aggregate(Items(early)) /\ from.seen = Ids(early)
          /\ \A x \in early : x.ok
      BY StartExact DEF t, from, d
    <2>2. PartsOf(t.snap, 0, d) = early \cup suffix
      BY <1>2, <1>3, SplitAt
    <2>3. \A x \in PartsOf(t.snap, 0, d) : x.ok
      BY <1>6, <2>1, <2>2
    <2>4. /\ Merge(from.totals, fresh) = Aggregate(Items(PartsOf(t.snap, 0, d)))
          /\ from.seen \cup Ids(fresh) = Ids(PartsOf(t.snap, 0, d))
      <3> DEFINE w == from.watermark
                 totals == from.totals
                 seen == from.seen
                 rows == t.snap
      <3>1. /\ w \in Nat /\ Table(rows, Issued, born)
            /\ totals = Aggregate(Items(Before(rows, w, d))) /\ seen = Ids(Before(rows, w, d))
            /\ fresh = Fresh(rows, w, d, seen)
        BY <1>2, <1>3, <2>1 DEF Fresh
      <3>2. d \in Nat
        BY <1>1
      <3> HIDE DEF w, totals, seen, rows, fresh, suffix, early
      <3>3. /\ Merge(totals, fresh) = Aggregate(Items(PartsOf(rows, 0, d)))
            /\ seen \cup Ids(fresh) = Ids(PartsOf(rows, 0, d))
        BY <3>1, GoesOn
      <3> QED
        BY <3>3 DEF totals, seen, rows
    <2>5. SeenWith(from, fresh) = from.seen \cup Ids(fresh)
      BY DEF SeenWith, Ids
    <2> HIDE DEF fresh, early, suffix
    <2> QED
      BY <1>5, <2>3, <2>4, <2>5
  <1>14. IsIndex(next)
    BY <1>1, <1>3, <1>4, <1>5 DEF IsIndex
  <1> QED
    BY <1>11, <1>12, <1>13, <1>14 DEF Kept, next

-----------------------------------------------------------------------------
(* Delivery.                                                               *)

Lefts == [parts : Nat, changes : Nat, faults : Nat]

\* An idle process has nothing to explain.
LEMMA NoTaskFits ==
    ASSUME NEW n, NEW born, NEW calm, NEW now
    PROVE  IsTask(NoTask) /\ IsIndex(NoIndex) /\ Working(NoTask, "idle", n, born, calm, now)
  <1>1. IsIndex(NoIndex)
    BY DEF NoIndex, IsIndex
  <1>2. /\ NoTask.now = 0 /\ NoTask.old = {} /\ NoTask.next = NoIndex /\ NoTask.snap = <<>>
        /\ NoTask = [now |-> NoTask.now, snap |-> NoTask.snap, file |-> NoTask.file,
                     next |-> NoTask.next, old |-> NoTask.old]
    BY DEF NoTask
  <1>3. IsTask(NoTask)
    BY <1>1, <1>2 DEF IsTask
  <1>4. DOMAIN <<>> = {}
    OBVIOUS
  <1>5. Table(<<>>, n, born)
    BY <1>4, FS_EmptySet DEF Table
  <1> QED
    BY <1>1, <1>2, <1>3, <1>5 DEF Working

LEMMA FaultTyped ==
    ASSUME Typed, Fault
    PROVE  left' \in Lefts /\ left'.parts = left.parts
  BY DEF Typed, Fault, Lefts

\* Results have their types, and rows where they are ready or stale.
LEMMA ResultsTyped ==
    ASSUME NEW rows \in SUBSET Row, NEW d \in Int
    PROVE  /\ Ready(rows, d) \in Panels /\ StaleOrUnavailable(rows, d) \in Panels
           /\ Ready(rows, d).kind \in {"ready", "stale"} => Ready(rows, d).rows # {}
           /\ StaleOrUnavailable(rows, d).kind \in {"ready", "stale"} =>
                  StaleOrUnavailable(rows, d).rows # {}
  BY DEF Ready, StaleOrUnavailable, Panels

LEMMA MergedTyped ==
    ASSUME Typed, NEW p \in Procs, NEW result \in Panels,
           result.kind \in {"ready", "stale"} => result.rows # {}
    PROVE  /\ Merged(p, result) \in Panels
           /\ Merged(p, result).kind \in {"ready", "stale"} => Merged(p, result).rows # {}
           /\ \/ Merged(p, result) = result
              \/ p \in Tuis /\ Merged(p, result).kind = "stale"
  <1>1. panel[p] \in Panels /\ (panel[p].kind \in {"ready", "stale"} => panel[p].rows # {})
    BY DEF Typed
  <1>2. CASE /\ p \in Tuis /\ result.kind = "unavailable"
             /\ panel[p].kind \in {"ready", "stale"}
    <2>1. Merged(p, result) = [panel[p] EXCEPT !.kind = "stale"]
      BY <1>2 DEF Merged
    <2> QED
      BY <1>1, <1>2, <2>1 DEF Panels
  <1>3. CASE ~(/\ p \in Tuis /\ result.kind = "unavailable"
               /\ panel[p].kind \in {"ready", "stale"})
    BY <1>3 DEF Merged
  <1> QED
    BY <1>2, <1>3

LEMMA DeliveredTyped ==
    ASSUME Typed, NEW p \in Procs, NEW result \in Panels,
           result.kind \in {"ready", "stale"} => result.rows # {},
           Deliver(p, result), UNCHANGED outside, IsIndex(index'),
           left' \in Lefts, left'.parts = left.parts
    PROVE  Typed'
  <1> DEFINE state == Merged(p, result)
  <1>1. state \in Panels /\ (state.kind \in {"ready", "stale"} => state.rows # {})
    BY MergedTyped
  <1>2. /\ panel' = [panel EXCEPT ![p] = IF p \in Tuis THEN state ELSE Loading]
        /\ hist' = IF Recorded(p, state)
                   THEN [hist EXCEPT ![Day(clock)] = [rows |-> state.rows, of |-> state.of]]
                   ELSE hist
        /\ pc' = [pc EXCEPT ![p] = "idle"] /\ task' = [task EXCEPT ![p] = NoTask]
    BY DEF Deliver
  <1> HIDE DEF state
  <1>3. Loading \in Panels /\ Loading.kind = "loading"
    BY DEF Loading, Panels
  <1>4. panel' \in [Procs -> Panels]
    BY <1>1, <1>2, <1>3 DEF Typed
  <1>5. ASSUME NEW q \in Procs, panel'[q].kind \in {"ready", "stale"} PROVE panel'[q].rows # {}
    <2>1. panel \in [Procs -> Panels] /\ (panel[q].kind \in {"ready", "stale"} => panel[q].rows # {})
      BY DEF Typed
    <2>2. CASE q # p
      BY <1>2, <1>5, <2>1, <2>2
    <2>3. CASE q = p
      <3>1. panel'[p] = IF p \in Tuis THEN state ELSE Loading
        BY <1>2, <2>1
      <3> QED
        BY <1>1, <1>3, <1>5, <2>3, <3>1
    <2> QED
      BY <2>2, <2>3
  <1>6. hist' \in [Days -> [rows : SUBSET Row, of : Int]]
    <2>1. [rows |-> state.rows, of |-> state.of] \in [rows : SUBSET Row, of : Int]
      BY <1>1 DEF Panels
    <2>2. hist \in [Days -> [rows : SUBSET Row, of : Int]]
      BY DEF Typed
    <2> QED
      BY <1>2, <2>1, <2>2
  <1>7. pc' \in [Procs -> {"idle", "snapshot", "save"}]
    BY <1>2 DEF Typed
  <1>8. task' = [q \in Procs |-> task'[q]] /\ \A q \in Procs : IsTask(task'[q])
    <2>1. task = [q \in Procs |-> task[q]] /\ \A q \in Procs : IsTask(task[q])
      BY DEF Typed
    <2>2. \A q \in Procs : task'[q] = IF q = p THEN NoTask ELSE task[q]
      BY <1>2, <2>1
    <2>3. task' = [q \in Procs |-> task'[q]]
      BY <1>2, <2>1
    <2> QED
      BY <2>1, <2>2, <2>3, NoTaskFits
  <1>9. env' = env /\ clock' = clock /\ db' = db /\ copy' = copy
    BY DEF outside
  <1>10. /\ env \in Environments /\ clock \in 0 .. env.maxTime /\ IsDb(db) /\ IsDb(copy)
         /\ left.parts <= env.parts
    BY DEF Typed
  <1>11. left' \in [parts : Nat, changes : Nat, faults : Nat]
    BY DEF Lefts
  <1> QED
    BY <1>4, <1>5, <1>6, <1>7, <1>8, <1>9, <1>10, <1>11 DEF Typed

LEMMA DeliveredExplained ==
    ASSUME NEW born, Typed, Explained(born), NEW p \in Procs, NEW result,
           Deliver(p, result), UNCHANGED outside, left'.parts = left.parts,
           index' = NoIndex \/ Kept(index', Issued, born, env.calm, clock)
    PROVE  Explained(born)'
  <1>1. env' = env /\ clock' = clock /\ db' = db /\ copy' = copy /\ Issued' = Issued
    BY DEF outside, Issued
  <1>2. pc' = [pc EXCEPT ![p] = "idle"] /\ task' = [task EXCEPT ![p] = NoTask]
    BY DEF Deliver
  <1>3. ASSUME NEW q \in Procs
        PROVE  Working(task'[q], pc'[q], Issued, born, env.calm, clock)
    <2>1. CASE q = p
      <3>1. task'[q] = NoTask /\ pc'[q] = "idle"
        BY <1>2, <2>1 DEF Typed
      <3> QED
        BY <3>1, NoTaskFits
    <2>2. CASE q # p
      <3>1. task'[q] = task[q] /\ pc'[q] = pc[q]
        BY <1>2, <2>2 DEF Typed
      <3> QED
        BY <3>1 DEF Explained
    <2> QED
      BY <2>1, <2>2
  <1> QED
    BY <1>1, <1>3 DEF Explained

-----------------------------------------------------------------------------
(* Scans.                                                                  *)

\* The locals of a scan with the snapshot that was taken.
LEMMA SnapshotTaken ==
    ASSUME NEW u, u = [now |-> u.now, snap |-> u.snap, file |-> u.file, next |-> u.next,
                       old |-> u.old],
           NEW a, NEW b, NEW c, NEW v, v = [u EXCEPT !.now = a, !.snap = b, !.file = c]
    PROVE  v = [now |-> a, snap |-> b, file |-> c, next |-> u.next, old |-> u.old]
  <1> DEFINE S == {u.now, u.snap, u.file, u.next, u.old, a, b, c}
             R == [now : S, snap : S, file : S, next : S, old : S]
  <1>1. u \in R /\ a \in S /\ b \in S /\ c \in S
    OBVIOUS
  <1> HIDE DEF S
  <1>2. v \in R /\ v.now = a /\ v.snap = b /\ v.file = c /\ v.next = u.next /\ v.old = u.old
    BY <1>1
  <1>3. v = [now |-> v.now, snap |-> v.snap, file |-> v.file, next |-> v.next, old |-> v.old]
    BY <1>2
  <1> QED
    BY <1>2, <1>3

\* And with the checkpoint that was prepared.
LEMMA CheckpointPrepared ==
    ASSUME NEW u, u = [now |-> u.now, snap |-> u.snap, file |-> u.file, next |-> u.next,
                       old |-> u.old],
           NEW a, NEW b, NEW v, v = [u EXCEPT !.old = a, !.next = b]
    PROVE  v = [now |-> u.now, snap |-> u.snap, file |-> u.file, next |-> b, old |-> a]
  <1> DEFINE S == {u.now, u.snap, u.file, u.next, u.old, a, b}
             R == [now : S, snap : S, file : S, next : S, old : S]
  <1>1. u \in R /\ a \in S /\ b \in S
    OBVIOUS
  <1> HIDE DEF S
  <1>2. v \in R /\ v.now = u.now /\ v.snap = u.snap /\ v.file = u.file /\ v.next = b /\ v.old = a
    BY <1>1
  <1>3. v = [now |-> v.now, snap |-> v.snap, file |-> v.file, next |-> v.next, old |-> v.old]
    BY <1>2
  <1> QED
    BY <1>2, <1>3

\* A step of one process that goes on with its scan.
LEMMA OneWorks ==
    ASSUME NEW born, Typed, Explained(born), NEW p \in Procs, NEW t, NEW stage,
           stage \in {"idle", "snapshot", "save"}, IsTask(t),
           task' = [task EXCEPT ![p] = t], pc' = [pc EXCEPT ![p] = stage],
           Working(t, stage, Issued, born, env.calm, clock),
           UNCHANGED <<outside, index, panel, hist, left>>
    PROVE  Typed' /\ Explained(born)'
  <1>1. /\ env' = env /\ clock' = clock /\ db' = db /\ copy' = copy /\ index' = index
        /\ panel' = panel /\ hist' = hist /\ left' = left /\ Issued' = Issued
    BY DEF outside, Issued
  <1>2. task = [q \in Procs |-> task[q]] /\ \A q \in Procs : IsTask(task[q])
    BY DEF Typed
  <1>3. \A q \in Procs : task'[q] = IF q = p THEN t ELSE task[q]
    BY <1>2
  <1>4. task' = [q \in Procs |-> task'[q]] /\ \A q \in Procs : IsTask(task'[q])
    <2>1. task' = [q \in Procs |-> task'[q]]
      BY <1>2
    <2> QED
      BY <1>2, <1>3, <2>1
  <1>5. pc' \in [Procs -> {"idle", "snapshot", "save"}]
    BY DEF Typed
  <1>6. Typed'
    BY <1>1, <1>4, <1>5 DEF Typed
  <1>7. ASSUME NEW q \in Procs
        PROVE  Working(task'[q], pc'[q], Issued, born, env.calm, clock)
    <2>1. CASE q = p
      BY <1>3, <2>1 DEF Typed
    <2>2. CASE q # p
      <3>1. task'[q] = task[q] /\ pc'[q] = pc[q]
        BY <1>3, <2>2 DEF Typed
      <3> QED
        BY <3>1 DEF Explained
    <2> QED
      BY <2>1, <2>2
  <1> QED
    BY <1>1, <1>6, <1>7 DEF Explained

LEMMA OpenHolds ==
    ASSUME NEW born, Typed, Explained(born), NEW p \in Procs, Open(p)
    PROVE  Typed' /\ Explained(born)'
  <1>1. PICK now \in {clock} \cup IF env.calm \/ clock = 0 THEN {} ELSE {clock - 1} :
          \/ /\ pc' = [pc EXCEPT ![p] = "snapshot"]
             /\ task' = [task EXCEPT ![p].now = now, ![p].snap = db.rows,
                                     ![p].file = db.file]
             /\ UNCHANGED <<panel, hist, left>>
          \/ /\ Fault
             /\ Deliver(p, StaleOrUnavailable({}, Day(now)))
    BY DEF Open
  <1>2. clock \in Nat
    BY OpenCodeAssumption DEF Typed
  <1>3. now \in Nat /\ (env.calm => now = clock)
    BY <1>1, <1>2
  <1>4. pc[p] = "idle" /\ UNCHANGED outside /\ index' = index
    BY DEF Open
  <1>5. CASE /\ pc' = [pc EXCEPT ![p] = "snapshot"]
             /\ task' = [task EXCEPT ![p].now = now, ![p].snap = db.rows,
                                     ![p].file = db.file]
             /\ UNCHANGED <<panel, hist, left>>
    <2> DEFINE t == [task[p] EXCEPT !.now = now, !.snap = db.rows, !.file = db.file]
    <2>1. task' = [task EXCEPT ![p] = t]
      BY <1>5 DEF Typed
    <2>2. IsTask(task[p])
      BY DEF Typed
    <2>3. t = [now |-> now, snap |-> db.rows, file |-> db.file, next |-> task[p].next,
               old |-> task[p].old]
      <3> DEFINE u == task[p]
                 rows == db.rows
                 file == db.file
      <3>1. /\ u = [now |-> u.now, snap |-> u.snap, file |-> u.file, next |-> u.next,
                    old |-> u.old]
            /\ t = [u EXCEPT !.now = now, !.snap = rows, !.file = file]
        BY <2>2 DEF IsTask
      <3> HIDE DEF t, u, rows, file
      <3>2. t = [now |-> now, snap |-> rows, file |-> file, next |-> u.next, old |-> u.old]
        BY <3>1, SnapshotTaken
      <3> QED
        BY <3>2 DEF u, rows, file
    <2> HIDE DEF t
    <2>4. IsTask(t) /\ t.now = now /\ t.snap = db.rows
      BY <1>3, <2>2, <2>3 DEF IsTask
    <2>5. Working(t, "snapshot", Issued, born, env.calm, clock)
      BY <1>3, <2>4 DEF Working, Explained
    <2>6. UNCHANGED <<outside, index, panel, hist, left>>
      BY <1>4, <1>5
    <2> QED
      BY <1>5, <2>1, <2>4, <2>5, <2>6, OneWorks
  <1>6. CASE Fault /\ Deliver(p, StaleOrUnavailable({}, Day(now)))
    <2>1. left' \in Lefts /\ left'.parts = left.parts
      BY <1>6, FaultTyped
    <2>2. Day(now) \in Int
      BY <1>3, DayGrows
    <2> DEFINE result == StaleOrUnavailable({}, Day(now))
    <2>3. result \in Panels /\ (result.kind \in {"ready", "stale"} => result.rows # {})
      BY <2>2, ResultsTyped
    <2>4. IsIndex(index') /\ (index' = NoIndex \/ Kept(index', Issued, born, env.calm, clock))
      BY <1>4 DEF Typed, Explained
    <2>5. Deliver(p, result)
      BY <1>6
    <2> HIDE DEF result
    <2>6. Typed'
      BY <1>4, <2>1, <2>3, <2>4, <2>5, DeliveredTyped
    <2>7. Explained(born)'
      BY <1>4, <2>1, <2>4, <2>5, DeliveredExplained
    <2> QED
      BY <2>6, <2>7
  <1> QED
    BY <1>1, <1>5, <1>6

\* What Project does, in terms of the checkpoint it prepares.
LEMMA ProjectDoes ==
    ASSUME Typed, NEW p \in Procs, Project(p)
    PROVE  LET from == From(index, task[p])
               suffix == PartsOf(task[p].snap, from.watermark, Day(task[p].now))
           IN  /\ pc[p] = "snapshot" /\ UNCHANGED <<outside, index, left>>
               /\ \/ Deliver(p, StaleOrUnavailable(from.totals, Day(task[p].now)))
                  \/ /\ \A x \in suffix : x.ok
                     /\ ~Overflows(Saved(p).totals)
                     /\ pc' = [pc EXCEPT ![p] = "save"]
                     /\ task' = [task EXCEPT ![p].old = from.totals, ![p].next = Saved(p)]
                     /\ UNCHANGED <<panel, hist>>
  BY DEF Project, Saved

LEMMA ProjectHolds ==
    ASSUME NEW born, Typed, Explained(born), NEW p \in Procs, Project(p)
    PROVE  Typed' /\ Explained(born)'
  <1> DEFINE from == From(index, task[p])
             suffix == PartsOf(task[p].snap, from.watermark, Day(task[p].now))
  <1>1. pc[p] = "snapshot" /\ UNCHANGED outside /\ index' = index /\ left' = left
    BY ProjectDoes
  <1>2. from.totals \in SUBSET Row
    BY StartTyped
  <1>3. IsTask(task[p]) /\ task[p].now \in Nat
    BY DEF Typed, IsTask
  <1>4. left' \in Lefts /\ left'.parts = left.parts
    BY <1>1 DEF Typed, Lefts
  <1>5. CASE Deliver(p, StaleOrUnavailable(from.totals, Day(task[p].now)))
    <2> DEFINE result == StaleOrUnavailable(from.totals, Day(task[p].now))
    <2>1. Day(task[p].now) \in Int
      BY <1>3, DayGrows
    <2>2. result \in Panels /\ (result.kind \in {"ready", "stale"} => result.rows # {})
      <3> HIDE DEF from
      <3> QED
        BY <1>2, <2>1, ResultsTyped
    <2>3. IsIndex(index') /\ (index' = NoIndex \/ Kept(index', Issued, born, env.calm, clock))
      BY <1>1 DEF Typed, Explained
    <2>4. Deliver(p, result)
      BY <1>5
    <2> HIDE DEF result
    <2>5. Typed'
      BY <1>1, <1>4, <2>2, <2>3, <2>4, DeliveredTyped
    <2>6. Explained(born)'
      BY <1>1, <1>4, <2>3, <2>4, DeliveredExplained
    <2> QED
      BY <2>5, <2>6
  <1>6. CASE /\ \A x \in suffix : x.ok
             /\ ~Overflows(Saved(p).totals)
             /\ pc' = [pc EXCEPT ![p] = "save"]
             /\ task' = [task EXCEPT ![p].old = from.totals, ![p].next = Saved(p)]
             /\ UNCHANGED <<panel, hist>>
    <2>1. IsIndex(Saved(p)) /\ Kept(Saved(p), Issued, born, env.calm, clock)
      BY <1>1, <1>6, SavedIsKept
    <2>2. Saved(p).base = task[p].snap /\ Saved(p).day = Day(task[p].now)
      BY DEF Saved
    <2> DEFINE t == [task[p] EXCEPT !.old = from.totals, !.next = Saved(p)]
    <2>3. task' = [task EXCEPT ![p] = t]
      BY <1>6 DEF Typed
    <2>4. t = [now |-> task[p].now, snap |-> task[p].snap, file |-> task[p].file,
               next |-> Saved(p), old |-> from.totals]
      BY <1>3, CheckpointPrepared DEF IsTask
    <2> HIDE DEF t, from
    <2>5. IsTask(t) /\ t.now = task[p].now /\ t.snap = task[p].snap /\ t.next = Saved(p)
      BY <1>2, <1>3, <2>1, <2>4 DEF IsTask
    <2>6. Working(t, "save", Issued, born, env.calm, clock)
      <3>1. Working(task[p], "snapshot", Issued, born, env.calm, clock)
        BY <1>1 DEF Explained
      <3> QED
        BY <2>1, <2>2, <2>5, <3>1 DEF Working
    <2>7. UNCHANGED <<outside, index, panel, hist, left>>
      BY <1>1, <1>6
    <2> QED
      BY <1>6, <2>3, <2>5, <2>6, <2>7, OneWorks
  <1> QED
    BY <1>5, <1>6, ProjectDoes

LEMMA SaveHolds ==
    ASSUME NEW born, Typed, Explained(born), NEW p \in Procs, Save(p)
    PROVE  Typed' /\ Explained(born)'
  <1> DEFINE t == task[p]
  <1>1. pc[p] = "save" /\ UNCHANGED outside
    BY DEF Save
  <1>2. IsTask(t) /\ IsIndex(t.next)
    BY DEF Typed, IsTask
  <1>3. Kept(t.next, Issued, born, env.calm, clock)
    BY <1>1 DEF Explained, Working
  <1>4. t.next.totals \in SUBSET Row /\ t.old \in SUBSET Row /\ t.next.day \in Int
    BY <1>2, <1>3 DEF Kept, Sound, IsTask, IsIndex
  <1>5. IsIndex(index) /\ (index = NoIndex \/ Kept(index, Issued, born, env.calm, clock))
    BY DEF Typed, Explained
  <1>6. ASSUME NEW result \in Panels, result.kind \in {"ready", "stale"} => result.rows # {},
               Deliver(p, result), index' \in {index, t.next},
               left' \in Lefts, left'.parts = left.parts
        PROVE  Typed' /\ Explained(born)'
    <2>1. IsIndex(index') /\ (index' = NoIndex \/ Kept(index', Issued, born, env.calm, clock))
      BY <1>2, <1>3, <1>5, <1>6
    <2>2. Typed'
      BY <1>1, <1>6, <2>1, DeliveredTyped
    <2>3. Explained(born)'
      BY <1>1, <1>6, <2>1, DeliveredExplained
    <2> QED
      BY <2>2, <2>3
  <1>7. CASE /\ index' = t.next /\ Deliver(p, Ready(t.next.totals, t.next.day))
             /\ UNCHANGED left
    <2>1. left' \in Lefts /\ left'.parts = left.parts
      BY <1>7 DEF Typed, Lefts
    <2> DEFINE result == Ready(t.next.totals, t.next.day)
    <2>2. result \in Panels /\ (result.kind \in {"ready", "stale"} => result.rows # {})
      <3> HIDE DEF t
      <3> QED
        BY <1>4, ResultsTyped
    <2>3. Deliver(p, result) /\ index' \in {index, t.next}
      BY <1>7
    <2> HIDE DEF result
    <2> QED
      BY <1>6, <2>1, <2>2, <2>3
  <1>8. CASE /\ Fault /\ index' \in {index, t.next}
             /\ Deliver(p, StaleOrUnavailable(t.old, t.next.day))
    <2>1. left' \in Lefts /\ left'.parts = left.parts
      BY <1>8, FaultTyped
    <2> DEFINE result == StaleOrUnavailable(t.old, t.next.day)
    <2>2. result \in Panels /\ (result.kind \in {"ready", "stale"} => result.rows # {})
      <3> HIDE DEF t
      <3> QED
        BY <1>4, ResultsTyped
    <2>3. Deliver(p, result)
      BY <1>8
    <2> HIDE DEF result
    <2> QED
      BY <1>6, <1>8, <2>1, <2>2, <2>3
  <1> QED
    BY <1>7, <1>8 DEF Save

LEMMA RestartHolds ==
    ASSUME NEW born, Typed, Explained(born), NEW p \in Procs, Restart(p)
    PROVE  Typed' /\ Explained(born)'
  <1>1. /\ left' \in Lefts /\ left'.parts = left.parts
    BY FaultTyped DEF Restart
  <1>2. /\ pc' = [pc EXCEPT ![p] = "idle"] /\ task' = [task EXCEPT ![p] = NoTask]
        /\ panel' = [panel EXCEPT ![p] = Loading]
        /\ env' = env /\ clock' = clock /\ db' = db /\ copy' = copy
        /\ index' = index /\ hist' = hist /\ Issued' = Issued
    BY <1>1 DEF Restart, outside, Issued
  <1>3. ASSUME NEW q \in Procs
        PROVE  /\ IsTask(task'[q]) /\ Working(task'[q], pc'[q], Issued, born, env.calm, clock)
               /\ panel'[q].kind \in {"ready", "stale"} => panel'[q].rows # {}
    <2>1. CASE q = p
      <3>1. task'[q] = NoTask /\ pc'[q] = "idle" /\ panel'[q] = Loading
        BY <1>2, <2>1 DEF Typed
      <3>2. Loading.kind = "loading"
        BY DEF Loading
      <3> QED
        BY <3>1, <3>2, NoTaskFits
    <2>2. CASE q # p
      <3>1. task'[q] = task[q] /\ pc'[q] = pc[q] /\ panel'[q] = panel[q]
        BY <1>2, <2>2 DEF Typed
      <3> QED
        BY <3>1 DEF Explained, Typed
    <2> QED
      BY <2>1, <2>2
  <1>4. Loading \in Panels
    BY DEF Loading, Panels
  <1>5. /\ panel' \in [Procs -> Panels] /\ pc' \in [Procs -> {"idle", "snapshot", "save"}]
        /\ task' = [q \in Procs |-> task'[q]]
    BY <1>2, <1>4 DEF Typed
  <1>6. Typed'
    BY <1>1, <1>2, <1>3, <1>5 DEF Typed, Lefts
  <1> QED
    BY <1>2, <1>3, <1>6 DEF Explained

-----------------------------------------------------------------------------
(* OpenCode and the clock.                                                 *)

\* A table stays one when more parts are written elsewhere.
LEMMA TableGrows ==
    ASSUME NEW n \in Nat, NEW m \in Nat, n <= m, NEW born, NEW born2,
           \A i \in 1 .. n : born2[i] = born[i], NEW rows, Table(rows, n, born)
    PROVE  Table(rows, m, born2)
  <1>1. \A r \in DOMAIN rows : /\ rows[r] \in Parts /\ rows[r].id \in 1 .. m
                               /\ rows[r].time = born2[rows[r].id]
    BY DEF Table
  <1> QED
    BY <1>1 DEF Table

\* So does a checkpoint, also when time goes on.
LEMMA KeptGrows ==
    ASSUME NEW n \in Nat, NEW m \in Nat, n <= m, NEW born, NEW born2,
           \A i \in 1 .. n : born2[i] = born[i], NEW calm, NEW now \in Nat, NEW now2 \in Nat,
           calm => now <= now2, NEW x, Kept(x, n, born, calm, now)
    PROVE  Kept(x, m, born2, calm, now2)
  <1>1. Sound(x, m, born2)
    <2>1. Table(x.base, n, born)
      BY DEF Kept, Sound
    <2>2. Table(x.base, m, born2)
      BY <2>1, TableGrows
    <2> QED
      BY <2>2 DEF Kept, Sound
  <1>2. Past(x, calm, now2)
    <2> SUFFICES ASSUME calm PROVE x.day <= Day(now2)
      BY DEF Kept, Past
    <2>1. x.day <= Day(now) /\ x.day \in Nat
      BY DEF Kept, Past, Sound
    <2>2. Day(now) <= Day(now2) /\ Day(now) \in Nat /\ Day(now2) \in Nat
      BY DayGrows
    <2> QED
      BY <2>1, <2>2
  <1> QED
    BY <1>1, <1>2 DEF Kept

LEMMA WorkingGrows ==
    ASSUME NEW n \in Nat, NEW m \in Nat, n <= m, NEW born, NEW born2,
           \A i \in 1 .. n : born2[i] = born[i], NEW calm, NEW now \in Nat, NEW now2 \in Nat,
           NEW t, NEW stage, calm => now = now2 \/ stage = "idle",
           Working(t, stage, n, born, calm, now)
    PROVE  Working(t, stage, m, born2, calm, now2)
  <1>1. Table(t.snap, m, born2)
    BY TableGrows DEF Working
  <1>2. ASSUME stage = "save" PROVE Kept(t.next, m, born2, calm, now2)
    <2>1. Kept(t.next, n, born, calm, now) /\ (calm => now <= now2)
      BY <1>2 DEF Working
    <2> QED
      BY <2>1, KeptGrows
  <1> QED
    BY <1>1, <1>2 DEF Working

LEMMA EnvTyped ==
    ASSUME Typed
    PROVE  /\ env.parts \in Nat /\ env.maxTime \in Nat /\ env.calm \in BOOLEAN
           /\ env.kinds \subseteq Kinds /\ clock \in Nat /\ clock <= env.maxTime
           /\ Issued \in Nat /\ Issued <= env.parts
  <1>1. env \in [procs : SUBSET Procs, kinds : SUBSET Kinds, calm : BOOLEAN, maxTime : Nat,
                 parts : Nat, changes : Nat, faults : Nat]
    BY OpenCodeAssumption DEF Typed
  <1>2. left.parts \in Nat /\ left.parts <= env.parts /\ clock \in 0 .. env.maxTime
    BY DEF Typed
  <1> QED
    BY <1>1, <1>2 DEF Issued

\* A change of the database alone.
LEMMA DbWith ==
    ASSUME NEW u, IsDb(u), NEW r, NEW v, v = [u EXCEPT !.rows = r]
    PROVE  IsDb(v) /\ v.rows = r
  <1> DEFINE S == {u.file, u.rows, r}
             R == [file : S, rows : S]
  <1>1. u \in R /\ r \in S /\ u.file \in Nat
    BY DEF IsDb
  <1> HIDE DEF S
  <1>2. v \in R /\ v.file = u.file /\ v.rows = r
    BY <1>1
  <1>3. v = [file |-> v.file, rows |-> v.rows]
    BY <1>2
  <1> QED
    BY <1>1, <1>2, <1>3 DEF IsDb

\* Outside a scan only the database, its copy and the clock change.
LEMMA OutsideTyped ==
    ASSUME Typed, UNCHANGED inside, IsDb(db'), IsDb(copy'), clock' \in 0 .. env.maxTime,
           left' \in Lefts, left'.parts <= env.parts
    PROVE  Typed'
  BY DEF Typed, inside, Lefts

\* The newest part goes to a rowid of its own after all the others.
LEMMA TableWith ==
    ASSUME NEW n \in Nat, NEW born, NEW rows, Table(rows, n, born),
           NEW part \in Parts, part.id = n + 1, part.time = born[n + 1],
           NEW r \in Nat \ {0}, \A s \in DOMAIN rows : s < r,
           NEW new, DOMAIN new = DOMAIN rows \cup {r}, new[r] = part,
           \A s \in DOMAIN rows : new[s] = rows[s]
    PROVE  Table(new, n + 1, born)
  <1>1. IsFiniteSet(DOMAIN rows) /\ DOMAIN rows \subseteq Nat \ {0}
    BY DEF Table
  <1>2. DOMAIN new = DOMAIN rows \cup {r} /\ r \notin DOMAIN rows
    BY <1>1
  <1>3. IsFiniteSet(DOMAIN new) /\ DOMAIN new \subseteq Nat \ {0}
    BY <1>1, <1>2, FS_AddElement
  <1>4. new[r] = part /\ \A s \in DOMAIN rows : new[s] = rows[s]
    OBVIOUS
  <1>5. ASSUME NEW s \in DOMAIN rows
        PROVE  /\ rows[s] \in Parts /\ rows[s].id \in Nat /\ rows[s].id <= n
               /\ rows[s].id \in 1 .. n + 1 /\ rows[s].time = born[rows[s].id]
    <2>1. rows[s] \in Parts /\ rows[s].id \in 1 .. n /\ rows[s].time = born[rows[s].id]
      BY DEF Table
    <2> QED
      BY <2>1
  <1>6. n + 1 \in 1 .. n + 1
    OBVIOUS
  <1>7. ASSUME NEW s \in DOMAIN new
        PROVE  new[s] \in Parts /\ new[s].id \in 1 .. n + 1 /\ new[s].time = born[new[s].id]
    BY <1>2, <1>4, <1>5, <1>6
  <1>8. ASSUME NEW s \in DOMAIN new, NEW u \in DOMAIN new, s < u
        PROVE  new[s].id < new[u].id
    <2>1. CASE u = r
      <3>1. s \in DOMAIN rows
        BY <1>2, <1>8, <2>1
      <3>2. new[s].id \in Nat /\ new[s].id <= n
        BY <1>4, <1>5, <3>1
      <3>3. new[u].id = n + 1
        BY <1>4, <2>1
      <3> QED
        BY <3>2, <3>3
    <2>2. CASE u # r
      <3>1. u \in DOMAIN rows /\ u < r /\ u \in Nat /\ s \in Nat
        BY <1>2, <1>3, <2>2
      <3>2. s \in DOMAIN rows
        BY <1>2, <1>8, <3>1
      <3> QED
        BY <1>4, <1>8, <3>1, <3>2 DEF Table
    <2> QED
      BY <2>1, <2>2
  <1> QED
    BY <1>3, <1>7, <1>8 DEF Table

LEMMA OrderedWith ==
    ASSUME NEW n \in Nat, NEW born, NEW now \in Nat, Ordered(n, born, now),
           NEW later, \A i \in 1 .. n : later[i] = born[i], later[n + 1] = now
    PROVE  Ordered(n + 1, later, now)
  <1> SUFFICES ASSUME NEW i \in 1 .. n + 1
               PROVE  later[i] <= now /\ \A j \in 1 .. i : later[j] <= later[i]
    BY DEF Ordered
  <1>1. \A a \in 1 .. n : later[a] <= now /\ \A b \in 1 .. a : later[b] <= later[a]
    <2> SUFFICES ASSUME NEW a \in 1 .. n
                 PROVE  later[a] <= now /\ \A b \in 1 .. a : later[b] <= later[a]
      OBVIOUS
    <2>1. \A b \in 1 .. a : b \in 1 .. n
      OBVIOUS
    <2> QED
      BY <2>1 DEF Ordered
  <1>2. CASE i = n + 1
    <2>1. \A j \in 1 .. i : j = n + 1 \/ j \in 1 .. n
      BY <1>2
    <2> QED
      BY <1>1, <1>2, <2>1
  <1>3. CASE i # n + 1
    <2>1. i \in 1 .. n
      BY <1>3
    <2> QED
      BY <1>1, <2>1
  <1> QED
    BY <1>2, <1>3

\* Nothing else changes outside the scans.
LEMMA OutsideExplained ==
    ASSUME NEW born, Typed, Explained(born), UNCHANGED <<inside, clock>>, NEW m \in Nat,
           Issued' = m, Issued <= m,
           NEW later, \A i \in 1 .. Issued : later[i] = born[i],
           env.calm => Ordered(m, later, clock),
           Table(db'.rows, m, later), Table(copy'.rows, m, later)
    PROVE  Explained(later)'
  <1> DEFINE n == Issued
  <1>1. /\ env' = env /\ clock' = clock /\ index' = index /\ pc' = pc /\ task' = task
    BY DEF inside
  <1>2. n \in Nat /\ n <= m /\ clock \in Nat /\ \A i \in 1 .. n : later[i] = born[i]
    BY EnvTyped
  <1>3. /\ index = NoIndex \/ Kept(index, n, born, env.calm, clock)
        /\ \A p \in Procs : Working(task[p], pc[p], n, born, env.calm, clock)
    BY DEF Explained
  <1> DEFINE calm == env.calm
  <1> HIDE DEF n, calm
  <1>4. index = NoIndex \/ Kept(index, m, later, calm, clock)
    <2>1. calm => clock <= clock
      BY <1>2
    <2>2. index = NoIndex \/ Kept(index, n, born, calm, clock)
      BY <1>3 DEF calm
    <2> QED
      BY <1>2, <2>1, <2>2, KeptGrows
  <1>5. ASSUME NEW p \in Procs PROVE Working(task[p], pc[p], m, later, calm, clock)
    <2> DEFINE t == task[p]
               stage == pc[p]
    <2>1. Working(t, stage, n, born, calm, clock)
      BY <1>3 DEF calm
    <2> HIDE DEF t, stage
    <2>2. Working(t, stage, m, later, calm, clock)
      BY <1>2, <2>1, WorkingGrows
    <2> QED
      BY <2>2 DEF t, stage
  <1>6. db'.rows = (db.rows)' /\ copy'.rows = (copy.rows)'
    OBVIOUS
  <1> QED
    BY <1>1, <1>4, <1>5, <1>6 DEF Explained, calm

\* A part is written: it is the newest of all, wherever the others are.
LEMMA AddPartHolds ==
    ASSUME NEW born \in [1 .. env.parts -> 0 .. env.maxTime], Typed, Explained(born), AddPart
    PROVE  Typed' /\ \E b \in [1 .. env.parts -> 0 .. env.maxTime] : Explained(b)'
  <1> DEFINE n == Issued
             r == Top(db.rows) + 1
  <1>1. PICK k \in env.kinds :
            db' = [db EXCEPT !.rows = [x \in DOMAIN @ \cup {r} |->
                       IF x = r THEN Part(NextId, k) ELSE @[x]]]
    BY DEF AddPart
  <1> DEFINE new == [x \in DOMAIN db.rows \cup {r} |->
                        IF x = r THEN Part(NextId, k) ELSE db.rows[x]]
  <1>2. left.parts > 0 /\ left' = [left EXCEPT !.parts = @ - 1]
    BY DEF AddPart
  <1>3. UNCHANGED <<inside, clock>> /\ env' = env /\ clock' = clock /\ copy' = copy
    BY DEF AddPart, inside
  <1>4. /\ env.parts \in Nat /\ clock \in Nat /\ clock \in 0 .. env.maxTime
        /\ n \in Nat /\ n <= env.parts
    BY EnvTyped DEF Typed
  <1>5. left \in Lefts
    BY DEF Typed, Lefts
  <1>6. left' \in Lefts /\ left'.parts = left.parts - 1
    BY <1>2, <1>5 DEF Lefts
  <1>7. left.parts \in Nat /\ left.parts <= env.parts /\ n = env.parts - left.parts
    BY <1>5 DEF Lefts, Typed, Issued
  <1>8. Issued' = env.parts - left'.parts
    BY <1>3 DEF Issued
  <1>9. Issued' = n + 1 /\ NextId = n + 1
    <2>1. NextId = env.parts - left.parts + 1
      BY DEF NextId
    <2> HIDE DEF n
    <2> QED
      BY <1>4, <1>6, <1>7, <1>8, <2>1
  <1>10. n + 1 \in 1 .. env.parts /\ left'.parts <= env.parts
    <2> HIDE DEF n
    <2> QED
      BY <1>2, <1>4, <1>6, <1>7
  <1>11. IsDb(db') /\ db'.rows = new
    <2>1. db' = [db EXCEPT !.rows = new] /\ IsDb(db)
      BY <1>1 DEF Typed
    <2> HIDE DEF new
    <2> QED
      BY <2>1, DbWith
  <1>12. Typed'
    BY <1>3, <1>4, <1>6, <1>10, <1>11, OutsideTyped DEF Typed
  <1>13. PICK later \in [1 .. env.parts -> 0 .. env.maxTime] :
             later[n + 1] = clock /\ \A i \in 1 .. n : later[i] = born[i]
    <2> DEFINE f == [born EXCEPT ![n + 1] = clock]
    <2> HIDE DEF n
    <2>1. f \in [1 .. env.parts -> 0 .. env.maxTime]
      BY <1>4
    <2>2. f[n + 1] = clock
      BY <1>10
    <2>3. \A i \in 1 .. n : f[i] = born[i]
      BY <1>4
    <2> QED
      BY <2>1, <2>2, <2>3
  <1>14. Table(db.rows, n, born) /\ Table(copy.rows, n, born)
    BY DEF Explained
  <1>15. Table(db.rows, n + 1, later) /\ Table(copy.rows, n + 1, later)
         /\ Table(db.rows, n, later)
    <2> DEFINE m == n + 1
               there == db.rows
               here == copy.rows
    <2>1. n \in Nat /\ m \in Nat /\ n <= m /\ n <= n
      BY <1>4
    <2>2. Table(there, n, born) /\ Table(here, n, born) /\ \A i \in 1 .. n : later[i] = born[i]
      BY <1>13, <1>14
    <2> HIDE DEF n, m, there, here
    <2>3. Table(there, m, later) /\ Table(here, m, later) /\ Table(there, n, later)
      BY <2>1, <2>2, TableGrows
    <2> QED
      BY <2>3 DEF m, there, here
  <1>16. /\ r \in Nat \ {0} /\ \A s \in DOMAIN db.rows : s < r
    <2> DEFINE rows == db.rows
    <2>1. IsFiniteSet(DOMAIN rows) /\ DOMAIN rows \subseteq Nat \ {0}
      BY <1>14 DEF Table
    <2> HIDE DEF rows
    <2>2. Top(rows) \in Nat /\ \A s \in DOMAIN rows : s <= Top(rows)
      BY <2>1, TopIs
    <2>3. Top(rows) + 1 \in Nat \ {0} /\ \A s \in DOMAIN rows : s < Top(rows) + 1
      BY <2>1, <2>2
    <2> QED
      BY <2>3 DEF rows
  <1>17. /\ Part(n + 1, k) \in Parts /\ Part(n + 1, k).id = n + 1
         /\ Part(n + 1, k).time = later[n + 1]
    <2>1. k \in Kinds
      BY EnvTyped
    <2>2. k.model \in Models
      BY <2>1 DEF Models
    <2>3. k.input \in Value /\ k.total \in Value /\ k.ok \in BOOLEAN
      BY <2>1, OpenCodeAssumption DEF Value
    <2> HIDE DEF n
    <2>4. n + 1 \in Nat
      BY <1>4
    <2> QED
      BY <1>4, <1>13, <2>2, <2>3, <2>4 DEF Part, Parts
  <1>18. Table(new, n + 1, later)
    <2> DEFINE rows == db.rows
               part == Part(n + 1, k)
    <2>1. new = [x \in DOMAIN rows \cup {r} |-> IF x = r THEN part ELSE rows[x]]
      BY <1>9
    <2>2. /\ part \in Parts /\ part.id = n + 1 /\ part.time = later[n + 1]
          /\ r \in Nat \ {0} /\ \A s \in DOMAIN rows : s < r
          /\ Table(rows, n, later)
      BY <1>15, <1>16, <1>17
    <2>3. DOMAIN rows \subseteq Nat \ {0}
      BY <2>2 DEF Table
    <2> HIDE DEF new, rows, part, r, n
    <2>4. r \notin DOMAIN rows
      BY <2>2, <2>3
    <2>5. /\ DOMAIN new = DOMAIN rows \cup {r} /\ new[r] = part
          /\ \A s \in DOMAIN rows : new[s] = rows[s]
      BY <2>1, <2>4
    <2> QED
      BY <1>4, <2>2, <2>5, TableWith
  <1>19. env.calm => Ordered(n + 1, later, clock)
    <2> SUFFICES ASSUME env.calm PROVE Ordered(n + 1, later, clock)
      OBVIOUS
    <2>1. Ordered(n, born, clock)
      BY DEF Explained
    <2> HIDE DEF n
    <2> QED
      BY <1>4, <1>13, <2>1, OrderedWith
  <1>20. Explained(later)'
    <2> DEFINE m == n + 1
    <2>1. m \in Nat /\ Issued' = m /\ Issued <= m
      BY <1>4, <1>9
    <2>2. Table(db'.rows, m, later) /\ Table(copy'.rows, m, later)
      BY <1>3, <1>11, <1>15, <1>18
    <2>3. env.calm => Ordered(m, later, clock)
      BY <1>19
    <2>4. \A i \in 1 .. Issued : later[i] = born[i]
      BY <1>13
    <2> HIDE DEF m, n, r, new
    <2> QED
      BY <1>3, <2>1, <2>2, <2>3, <2>4, OutsideExplained
  <1> QED
    BY <1>12, <1>20

LEMMA ChangeTyped ==
    ASSUME Typed, Change
    PROVE  left' \in Lefts /\ left'.parts = left.parts
  BY DEF Typed, Change, Lefts

\* What changes the database or its copy, and writes no part.
LEMMA ChangeHolds ==
    ASSUME NEW born, Typed, Explained(born), Change, UNCHANGED <<inside, clock>>,
           IsDb(db'), IsDb(copy'),
           Table(db'.rows, Issued, born), Table(copy'.rows, Issued, born)
    PROVE  Typed' /\ Explained(born)'
  <1>1. left' \in Lefts /\ left'.parts = left.parts
    BY ChangeTyped
  <1>2. env' = env /\ clock' = clock /\ clock \in 0 .. env.maxTime /\ left.parts <= env.parts
    BY DEF inside, Typed
  <1>3. Typed'
    BY <1>1, <1>2, OutsideTyped
  <1>4. Issued' = Issued
    BY <1>1, <1>2 DEF Issued
  <1>5. Issued \in Nat /\ Issued <= Issued
    BY EnvTyped
  <1>6. env.calm => Ordered(Issued, born, clock)
    BY DEF Explained
  <1>7. Explained(born)'
    BY <1>4, <1>5, <1>6, OutsideExplained
  <1> QED
    BY <1>3, <1>7

LEMMA DeletePartHolds ==
    ASSUME NEW born, Typed, Explained(born), DeletePart
    PROVE  Typed' /\ Explained(born)'
  <1>1. PICK r \in DOMAIN db.rows :
            db' = [db EXCEPT !.rows = [x \in DOMAIN @ \ {r} |-> @[x]]]
    BY DEF DeletePart
  <1> DEFINE new == [x \in DOMAIN db.rows \ {r} |-> db.rows[x]]
  <1>2. Change /\ UNCHANGED <<inside, clock>> /\ copy' = copy
    BY DEF DeletePart
  <1>3. IsDb(db') /\ db'.rows = new
    <2>1. db' = [db EXCEPT !.rows = new] /\ IsDb(db)
      BY <1>1 DEF Typed
    <2> HIDE DEF new
    <2> QED
      BY <2>1, DbWith
  <1>4. Table(db.rows, Issued, born) /\ Table(copy.rows, Issued, born)
    BY DEF Explained
  <1>5. Table(new, Issued, born)
    <2>1. DOMAIN new \subseteq DOMAIN db.rows /\ \A s \in DOMAIN new : new[s] = db.rows[s]
      OBVIOUS
    <2>2. IsFiniteSet(DOMAIN new)
      BY <1>4, <2>1, FS_Subset DEF Table
    <2> HIDE DEF new
    <2> QED
      BY <1>4, <2>1, <2>2 DEF Table
  <1>6. IsDb(copy')
    BY <1>2 DEF Typed
  <1> HIDE DEF new
  <1> QED
    BY <1>2, <1>3, <1>4, <1>5, <1>6, ChangeHolds

LEMMA CopyDbHolds ==
    ASSUME NEW born, Typed, Explained(born), CopyDb
    PROVE  Typed' /\ Explained(born)'
  <1>1. Change /\ UNCHANGED <<inside, clock>> /\ copy' = db /\ db' = db
    BY DEF CopyDb
  <1>2. IsDb(db) /\ Table(db.rows, Issued, born)
    BY DEF Typed, Explained
  <1> QED
    BY <1>1, <1>2, ChangeHolds

LEMMA PutBackHolds ==
    ASSUME NEW born, Typed, Explained(born), PutBack
    PROVE  Typed' /\ Explained(born)'
  <1>1. PICK f \in {db.file, db.file + 1} : db' = [file |-> f, rows |-> copy.rows]
    BY DEF PutBack
  <1>2. Change /\ UNCHANGED <<inside, clock>> /\ copy' = copy
    BY DEF PutBack
  <1>3. IsDb(db) /\ IsDb(copy) /\ Table(copy.rows, Issued, born)
    BY DEF Typed, Explained
  <1>4. IsDb(db') /\ db'.rows = copy.rows
    <2>1. f \in Nat
      BY <1>3 DEF IsDb
    <2> QED
      BY <1>1, <2>1 DEF IsDb
  <1> QED
    BY <1>2, <1>3, <1>4, ChangeHolds

\* Where the clock may be set back, nothing is claimed of what it showed.
LEMMA TickHolds ==
    ASSUME NEW born \in [1 .. env.parts -> 0 .. env.maxTime], Typed, Explained(born), Tick
    PROVE  Typed' /\ Explained(born)'
  <1>1. UNCHANGED <<inside, db, copy>> /\ (env.calm => \A p \in Procs : pc[p] = "idle")
    BY DEF Tick
  <1>2. /\ env.parts \in Nat /\ env.maxTime \in Nat /\ clock \in Nat /\ clock <= env.maxTime
        /\ Issued \in Nat /\ Issued <= env.parts
    BY EnvTyped
  <1>3. /\ left' \in Lefts /\ left'.parts = left.parts
        /\ clock' \in 0 .. env.maxTime /\ (env.calm => clock <= clock')
    <2>1. CASE clock' = clock + 1 /\ clock < env.maxTime /\ UNCHANGED left
      <3>1. left' \in Lefts /\ left'.parts = left.parts
        BY <2>1 DEF Typed, Lefts
      <3> QED
        BY <1>2, <2>1, <3>1
    <2>2. CASE clock' = clock - 1 /\ clock > 0 /\ ~env.calm /\ Change
      <3>1. left' \in Lefts /\ left'.parts = left.parts
        BY <2>2, ChangeTyped
      <3> QED
        BY <1>2, <2>2, <3>1
    <2> QED
      BY <2>1, <2>2 DEF Tick
  <1>4. /\ env' = env /\ db' = db /\ copy' = copy /\ index' = index /\ pc' = pc
        /\ task' = task
    BY <1>1 DEF inside
  <1>5. left.parts <= env.parts /\ IsDb(db') /\ IsDb(copy')
    BY <1>4 DEF Typed
  <1>6. Typed'
    BY <1>1, <1>3, <1>5, OutsideTyped
  <1> DEFINE n == Issued
             calm == env.calm
  <1>7. Issued' = n
    BY <1>3, <1>4 DEF Issued
  <1>8. /\ n \in Nat /\ n <= n /\ \A i \in 1 .. n : born[i] = born[i]
        /\ clock \in Nat /\ clock' \in Nat
    BY <1>2, <1>3
  <1>9. /\ calm => Ordered(n, born, clock)
        /\ Table(db.rows, n, born) /\ Table(copy.rows, n, born)
        /\ index = NoIndex \/ Kept(index, n, born, calm, clock)
        /\ \A p \in Procs : Working(task[p], pc[p], n, born, calm, clock)
    BY DEF Explained
  <1>10. calm => clock <= clock' /\ \A p \in Procs : pc[p] = "idle"
    BY <1>1, <1>3
  <1>11. \A i \in 1 .. n : born[i] \in Nat
    BY <1>2
  <1> DEFINE now2 == clock'
  <1> HIDE DEF n, calm, now2
  <1>12. calm => Ordered(n, born, now2)
    <2> SUFFICES ASSUME calm, NEW i \in 1 .. n PROVE born[i] <= now2
      BY <1>9 DEF Ordered
    <2>1. born[i] <= clock /\ born[i] \in Nat /\ clock <= now2
      BY <1>9, <1>10, <1>11 DEF Ordered, now2
    <2> QED
      BY <1>8, <2>1 DEF now2
  <1>13. index = NoIndex \/ Kept(index, n, born, calm, now2)
    <2>1. now2 \in Nat /\ (calm => clock <= now2)
      BY <1>8, <1>10 DEF now2
    <2> QED
      BY <1>8, <1>9, <2>1, KeptGrows
  <1>14. ASSUME NEW p \in Procs PROVE Working(task[p], pc[p], n, born, calm, now2)
    <2> DEFINE t == task[p]
               stage == pc[p]
    <2>1. /\ Working(t, stage, n, born, calm, clock) /\ now2 \in Nat
          /\ calm => clock = now2 \/ stage = "idle"
      BY <1>8, <1>9, <1>10 DEF now2
    <2> HIDE DEF t, stage
    <2>2. Working(t, stage, n, born, calm, now2)
      BY <1>8, <2>1, WorkingGrows
    <2> QED
      BY <2>2 DEF t, stage
  <1>15. Explained(born)'
    BY <1>4, <1>7, <1>9, <1>12, <1>13, <1>14 DEF Explained, calm, now2
  <1> QED
    BY <1>6, <1>15

LEMMA DaysTyped ==
    ASSUME NEW d \in Days
    PROVE  d \in Int
  BY DEF Days

\* The inductive invariant.
LEMMA InitHolds == Init => IInv
  <1> SUFFICES ASSUME Init PROVE IInv
    OBVIOUS
  <1>1. env \in [procs : SUBSET Procs, kinds : SUBSET Kinds, calm : BOOLEAN, maxTime : Nat,
                 parts : Nat, changes : Nat, faults : Nat]
    BY OpenCodeAssumption DEF Init
  <1>2. /\ env.parts \in Nat /\ env.changes \in Nat /\ env.faults \in Nat
        /\ env.maxTime \in Nat
    BY <1>1
  <1>3. left = [parts |-> env.parts, changes |-> env.changes, faults |-> env.faults]
    BY DEF Init
  <1>4. left \in Lefts /\ left.parts = env.parts /\ Issued = 0
    BY <1>2, <1>3 DEF Lefts, Issued
  <1>5. IsDb(db) /\ IsDb(copy) /\ db.rows = <<>> /\ copy.rows = <<>>
    BY DEF Init, IsDb
  <1>6. /\ \A p \in Procs : task[p] = NoTask /\ pc[p] = "idle" /\ panel[p] = Loading
        /\ pc \in [Procs -> {"idle", "snapshot", "save"}]
        /\ task = [p \in Procs |-> task[p]]
    BY DEF Init
  <1>7. Loading \in Panels /\ Loading.kind = "loading"
    BY DEF Loading, Panels
  <1>8. panel \in [Procs -> Panels]
    BY <1>7 DEF Init
  <1>9. hist \in [Days -> [rows : SUBSET Row, of : Int]]
    <2>1. hist = [d \in Days |-> [rows |-> {}, of |-> d]]
      BY DEF Init
    <2>2. \A d \in Days : [rows |-> {}, of |-> d] \in [rows : SUBSET Row, of : Int]
      BY DaysTyped
    <2> QED
      BY <2>1, <2>2
  <1>10. IsTask(NoTask) /\ IsIndex(NoIndex)
    BY NoTaskFits
  <1>11. clock \in 0 .. env.maxTime /\ env \in Environments /\ index = NoIndex
    BY <1>2 DEF Init
  <1>12. Typed
    <2>1. left.parts <= env.parts
      BY <1>2, <1>4
    <2> QED
      BY <1>4, <1>5, <1>6, <1>7, <1>8, <1>9, <1>10, <1>11, <2>1 DEF Typed, Lefts
  <1> DEFINE born == [i \in 1 .. env.parts |-> 0]
  <1>13. born \in [1 .. env.parts -> 0 .. env.maxTime]
    BY <1>2
  <1> HIDE DEF born
  <1>14. Explained(born)
    <2>1. Ordered(Issued, born, clock)
      BY <1>4 DEF Ordered
    <2>2. DOMAIN <<>> = {}
      OBVIOUS
    <2>3. Table(<<>>, Issued, born)
      BY <2>2, FS_EmptySet DEF Table
    <2>4. \A p \in Procs : Working(task[p], pc[p], Issued, born, env.calm, clock)
      BY <1>6, NoTaskFits
    <2> QED
      BY <1>5, <1>11, <2>1, <2>3, <2>4 DEF Explained
  <1> QED
    BY <1>12, <1>13, <1>14 DEF IInv

LEMMA StutterHolds ==
    ASSUME NEW born, Typed, Explained(born), UNCHANGED vars
    PROVE  Typed' /\ Explained(born)'
  <1>1. Typed'
    BY DEF vars, Typed
  <1>2. /\ env' = env /\ db' = db /\ copy' = copy /\ index' = index /\ pc' = pc
        /\ task' = task /\ clock' = clock /\ Issued' = Issued
    BY DEF vars, Issued
  <1> QED
    BY <1>1, <1>2 DEF Explained

LEMMA NextHolds == IInv /\ [Next]_vars => IInv'
  <1> SUFFICES ASSUME IInv, [Next]_vars PROVE IInv'
    OBVIOUS
  <1> DEFINE Times == [1 .. env.parts -> 0 .. env.maxTime]
  <1>1. PICK born \in Times : Explained(born)
    BY DEF IInv
  <1>2. Typed
    BY DEF IInv
  <1>3. env' = env
    BY DEF Next, vars, Open, Project, Save, Restart, outside, AddPart, DeletePart, CopyDb,
           PutBack, Tick, inside
  <1>4. Typed' /\ \E b \in Times : Explained(b)'
    <2>1. ASSUME NEW p \in env.procs, Open(p) \/ Project(p) \/ Save(p) \/ Restart(p)
          PROVE  Typed' /\ Explained(born)'
      <3>1. p \in Procs
        BY <1>2, OpenCodeAssumption DEF Typed
      <3>2. CASE Open(p)
        BY <1>1, <1>2, <3>1, <3>2, OpenHolds
      <3>3. CASE Project(p)
        BY <1>1, <1>2, <3>1, <3>3, ProjectHolds
      <3>4. CASE Save(p)
        BY <1>1, <1>2, <3>1, <3>4, SaveHolds
      <3>5. CASE Restart(p)
        BY <1>1, <1>2, <3>1, <3>5, RestartHolds
      <3> QED
        BY <2>1, <3>2, <3>3, <3>4, <3>5
    <2>2. CASE AddPart
      BY <1>1, <1>2, <2>2, AddPartHolds
    <2>3. CASE DeletePart
      BY <1>1, <1>2, <2>3, DeletePartHolds
    <2>4. CASE CopyDb
      BY <1>1, <1>2, <2>4, CopyDbHolds
    <2>5. CASE PutBack
      BY <1>1, <1>2, <2>5, PutBackHolds
    <2>6. CASE Tick
      BY <1>1, <1>2, <2>6, TickHolds
    <2>7. CASE UNCHANGED vars
      BY <1>1, <1>2, <2>7, StutterHolds
    <2> QED
      BY <1>1, <2>1, <2>2, <2>3, <2>4, <2>5, <2>6, <2>7 DEF Next
  <1> QED
    BY <1>3, <1>4 DEF IInv

LEMMA IInvHolds == Spec => []IInv
  <1> QED
    BY InitHolds, NextHolds, PTL DEF Spec

-----------------------------------------------------------------------------
(* Theorems.                                                               *)

\* The checkpoint describes one snapshot of the database, whichever processes collected
\* it piece by piece and overwrote one another's file, and nothing that overflowed is
\* kept (OpenCodeIndexV1, merge_rows, checked_add).
THEOREM CheckpointIsOneSnapshot == Spec => []IndexIsOneSnapshot
  <1>1. ASSUME IInv PROVE IndexIsOneSnapshot
    <2>1. PICK born \in [1 .. env.parts -> 0 .. env.maxTime] : Explained(born)
      BY <1>1 DEF IInv
    <2>2. Typed
      BY <1>1 DEF IInv
    <2>3. index = NoIndex \/ Kept(index, Issued, born, env.calm, clock)
      BY <2>1 DEF Explained
    <2>4. index.totals \subseteq Row /\ \A x \in index.totals : x.total <= Limit
      <3>1. CASE index = NoIndex
        BY <3>1 DEF NoIndex
      <3>2. CASE index # NoIndex
        BY <2>3, <3>2 DEF Kept, Sound
      <3> QED
        BY <3>1, <3>2
    <2>5. db.file \in Nat /\ \A r \in DOMAIN db.rows : r \in Nat \ {0}
      BY <2>1, <2>2 DEF Explained, Table, Typed, IsDb
    <2>6. \A p \in Procs : panel[p].kind \in
              {"loading", "ready", "empty", "unavailable", "stale"}
      BY <2>2 DEF Typed, Panels
    <2>7. \A d \in Days : hist[d].rows \subseteq Row
      BY <2>2 DEF Typed
    <2>8. TypeOK
      BY <2>2, <2>4, <2>5, <2>6, <2>7 DEF Typed, TypeOK
    <2>9. ASSUME index # NoIndex, ~index.drift
          PROVE  /\ index.totals = AllDays(index.base, index.day)
                 /\ index.seen = {x.id : x \in PartsOf(index.base, 0, index.day)}
                 /\ index.watermark = Top(index.base)
      <3>1. Sound(index, Issued, born) /\ Exact(index)
        BY <2>3, <2>9 DEF Kept
      <3> QED
        BY <2>9, <3>1, AllDaysIs DEF Sound, Exact
    <2> QED
      BY <2>8, <2>9 DEF IndexIsOneSnapshot
  <1> QED
    BY <1>1, IInvHolds, PTL

\* What a scan is about to report is what a full reading of its snapshot gives, after
\* any replacement of the database that its checkpoint can tell, and after every midnight
\* as long as the clock only advances between scans (collect_at, db_identity,
\* apply_day_rollover).
THEOREM ReportsAreExact == Spec => []ReportIsExact
  <1>1. ASSUME IInv PROVE ReportIsExact
    <2>1. PICK born \in [1 .. env.parts -> 0 .. env.maxTime] : Explained(born)
      BY <1>1 DEF IInv
    <2> SUFFICES ASSUME NEW p \in Procs, pc[p] = "save", ~task[p].next.drift
                 PROVE  task[p].next.totals = AllDays(task[p].snap, task[p].next.day)
      BY DEF ReportIsExact
    <2>2. Working(task[p], "save", Issued, born, env.calm, clock)
      BY <2>1 DEF Explained
    <2>3. Exact(task[p].next) /\ task[p].next.base = task[p].snap
      BY <2>2 DEF Working, Kept
    <2> QED
      BY <2>3, AllDaysIs DEF Exact
  <1> QED
    BY <1>1, IInvHolds, PTL

\* What reaches the history is what a scan delivers: of today, unless the clock moved, and
\* empty only where a scan found nothing.
LEMMA HistoryIsDelivered ==
    ASSUME IInv, [Next]_vars, hist' # hist
    PROVE  \E p \in Procs, result \in Panels :
               /\ Deliver(p, result)
               /\ result.kind \in {"ready", "stale"} => result.rows # {}
               /\ env.calm => result.of = Day(clock)
               /\ result.kind = "empty" => pc[p] = "save" /\ task[p].next.totals = {}
  <1>1. PICK born \in [1 .. env.parts -> 0 .. env.maxTime] : Explained(born)
    BY DEF IInv
  <1>2. Typed
    BY DEF IInv
  <1>3. PICK p \in env.procs : Open(p) \/ Project(p) \/ Save(p)
    BY DEF Next, vars, Restart, AddPart, DeletePart, CopyDb, PutBack, Tick, inside
  <1>4. p \in Procs
    BY <1>2, OpenCodeAssumption DEF Typed
  <1>5. /\ IsTask(task[p]) /\ task[p].now \in Nat /\ Day(task[p].now) \in Int
        /\ task[p].old \in SUBSET Row
    BY <1>2, <1>4, DayGrows DEF Typed, IsTask
  <1>6. env.calm /\ pc[p] # "idle" => task[p].now = clock
    BY <1>1, <1>4 DEF Explained, Working
  <1>7. ASSUME NEW rows \in SUBSET Row, NEW d \in Int, env.calm => d = Day(clock),
               Deliver(p, StaleOrUnavailable(rows, d))
        PROVE  \E result \in Panels :
                   /\ Deliver(p, result)
                   /\ result.kind \in {"ready", "stale"} => result.rows # {}
                   /\ env.calm => result.of = Day(clock)
                   /\ result.kind = "empty" => pc[p] = "save" /\ task[p].next.totals = {}
    <2> DEFINE result == StaleOrUnavailable(rows, d)
    <2>1. result \in Panels /\ (result.kind \in {"ready", "stale"} => result.rows # {})
      BY ResultsTyped
    <2>2. result.kind # "empty" /\ result.of = d
      BY DEF StaleOrUnavailable
    <2>3. Deliver(p, result)
      BY <1>7
    <2> HIDE DEF result
    <2> QED
      BY <1>7, <2>1, <2>2, <2>3
  <1>8. CASE Open(p)
    <2>1. PICK now \in {clock} \cup IF env.calm \/ clock = 0 THEN {} ELSE {clock - 1} :
              Deliver(p, StaleOrUnavailable({}, Day(now)))
      BY <1>8 DEF Open
    <2>2. clock \in Nat
      BY <1>2, EnvTyped
    <2>3. now \in Nat /\ (env.calm => now = clock)
      BY <2>1, <2>2
    <2>4. Day(now) \in Int /\ (env.calm => Day(now) = Day(clock))
      BY <2>3, DayGrows
    <2> QED
      BY <1>4, <1>7, <2>1, <2>4
  <1>9. CASE Project(p)
    <2> DEFINE rows == From(index, task[p]).totals
               d == Day(task[p].now)
    <2>1. pc[p] = "snapshot" /\ Deliver(p, StaleOrUnavailable(rows, d))
      BY <1>2, <1>4, <1>9, ProjectDoes
    <2>2. rows \in SUBSET Row
      BY <1>1, <1>2, <1>4, StartTyped
    <2>3. d \in Int /\ (env.calm => d = Day(clock))
      BY <1>5, <1>6, <2>1
    <2> HIDE DEF rows, d
    <2> QED
      BY <1>4, <1>7, <2>1, <2>2, <2>3
  <1>10. CASE Save(p)
    <2> DEFINE next == task[p].next
    <2>1. pc[p] = "save"
      BY <1>10 DEF Save
    <2>2. Kept(next, Issued, born, env.calm, clock) /\ next.day = Day(task[p].now)
      BY <1>1, <1>4, <2>1 DEF Explained, Working
    <2>3. next.totals \in SUBSET Row
      BY <2>2 DEF Kept, Sound
    <2>4. next.day \in Int /\ (env.calm => next.day = Day(clock))
      BY <1>5, <1>6, <2>1, <2>2
    <2>5. \/ Deliver(p, Ready(next.totals, next.day))
          \/ Deliver(p, StaleOrUnavailable(task[p].old, next.day))
      BY <1>10 DEF Save
    <2>6. CASE Deliver(p, StaleOrUnavailable(task[p].old, next.day))
      <3> HIDE DEF next
      <3> QED
        BY <1>4, <1>5, <1>7, <2>4, <2>6
    <2>7. CASE Deliver(p, Ready(next.totals, next.day))
      <3> DEFINE result == Ready(next.totals, next.day)
      <3>1. result \in Panels /\ (result.kind \in {"ready", "stale"} => result.rows # {})
        <4> HIDE DEF next
        <4> QED
          BY <2>3, <2>4, ResultsTyped
      <3>2. result.of = next.day /\ (result.kind = "empty" => next.totals = {})
        BY DEF Ready
      <3>3. Deliver(p, result)
        BY <2>7
      <3> HIDE DEF result
      <3> QED
        BY <1>4, <2>1, <2>4, <3>1, <3>2, <3>3
    <2> QED
      BY <2>5, <2>6, <2>7
  <1> QED
    BY <1>3, <1>8, <1>9, <1>10

\* A failure never erases what the history has of a day, not even one of several scans
\* at work: its rows go only when a scan that read the database found none (HARD STOP of
\* the TUI, opencode_ready_rows).
THEOREM FailuresEraseNothing == Spec => OnlyScansErase
  <1>1. ASSUME IInv, [Next]_vars, NEW d \in Days, hist[d].rows # {}, hist'[d].rows = {}
        PROVE  \E p \in Procs : pc[p] = "save" /\ pc'[p] = "idle" /\ task[p].next.totals = {}
    <2>1. PICK p \in Procs, result \in Panels :
              /\ Deliver(p, result)
              /\ result.kind \in {"ready", "stale"} => result.rows # {}
              /\ result.kind = "empty" => pc[p] = "save" /\ task[p].next.totals = {}
      BY <1>1, HistoryIsDelivered
    <2> DEFINE state == Merged(p, result)
    <2>2. Typed
      BY <1>1 DEF IInv
    <2>3. /\ state.kind \in {"ready", "stale"} => state.rows # {}
          /\ state = result \/ state.kind = "stale"
      BY <2>1, <2>2, MergedTyped
    <2>4. /\ hist' = IF Recorded(p, state)
                     THEN [hist EXCEPT ![Day(clock)] = [rows |-> state.rows, of |-> state.of]]
                     ELSE hist
          /\ pc' = [pc EXCEPT ![p] = "idle"]
      BY <2>1 DEF Deliver
    <2> HIDE DEF state
    <2>5. hist \in [Days -> [rows : SUBSET Row, of : Int]]
      BY <2>2 DEF Typed
    <2>6. Recorded(p, state) /\ state.rows = {}
      BY <1>1, <2>4, <2>5
    <2>7. result.kind = "empty"
      BY <2>3, <2>6 DEF Recorded
    <2>8. pc'[p] = "idle"
      BY <2>2, <2>4 DEF Typed
    <2> QED
      BY <2>1, <2>7, <2>8
  <1>2. IInv /\ [Next]_vars =>
            [\A d \in Days :
                hist[d].rows # {} /\ hist'[d].rows = {} =>
                    \E p \in Procs :
                        pc[p] = "save" /\ pc'[p] = "idle" /\ task[p].next.totals = {}]_vars
    BY <1>1
  <1> QED
    BY <1>2, IInvHolds, PTL DEF Spec, OnlyScansErase

\* As long as no scan runs across midnight, rows that go under a day on which they were
\* not used are rows that a TUI kept and marks as stale, however many scans fail in
\* between (record_source, "Record one source's TODAY rows").
THEOREM OnlyKeptRowsCrossDays == Spec => OnlyStaleCrossesDays
  <1>1. ASSUME IInv, [Next]_vars, env.calm, NEW d \in Days, hist'[d] # hist[d],
               hist'[d].of # d
        PROVE  \E p \in Tuis : panel'[p].kind = "stale" /\ panel'[p].of = hist'[d].of
    <2>1. PICK p \in Procs, result \in Panels :
              /\ Deliver(p, result)
              /\ result.kind \in {"ready", "stale"} => result.rows # {}
              /\ result.of = Day(clock)
      BY <1>1, HistoryIsDelivered
    <2> DEFINE state == Merged(p, result)
    <2>2. Typed
      BY <1>1 DEF IInv
    <2>3. state = result \/ (p \in Tuis /\ state.kind = "stale")
      BY <2>1, <2>2, MergedTyped
    <2>4. /\ hist' = IF Recorded(p, state)
                     THEN [hist EXCEPT ![Day(clock)] = [rows |-> state.rows, of |-> state.of]]
                     ELSE hist
          /\ panel' = [panel EXCEPT ![p] = IF p \in Tuis THEN state ELSE Loading]
      BY <2>1 DEF Deliver
    <2> HIDE DEF state
    <2>5. hist \in [Days -> [rows : SUBSET Row, of : Int]] /\ panel \in [Procs -> Panels]
      BY <2>2 DEF Typed
    <2>6. d = Day(clock) /\ hist'[d].of = state.of
      BY <1>1, <2>4, <2>5
    <2>7. p \in Tuis /\ state.kind = "stale"
      BY <1>1, <2>1, <2>3, <2>6
    <2>8. panel'[p] = state
      BY <2>4, <2>5, <2>7
    <2> QED
      BY <2>6, <2>7, <2>8
  <1>2. IInv /\ [Next]_vars =>
            [env.calm => \A d \in Days :
                hist'[d] # hist[d] /\ hist'[d].of # d =>
                    \E p \in Tuis : panel'[p].kind = "stale" /\ panel'[p].of = hist'[d].of]_vars
    BY <1>1
  <1> QED
    BY <1>2, IInvHolds, PTL DEF Spec, OnlyStaleCrossesDays
=============================================================================
