-------------------------- MODULE LlmBudgetProofs --------------------------
(***************************************************************************)
(* What the LLM budget guarantees for any number of processes,             *)
(* reservations, months and sizes.  LiveIsReserved is inductive with the   *)
(* types.  That a month's charges stay within its limit needs what each    *)
(* row may still cost its month (Due), and lemmas on sums over finite sets *)
(* that the library does not state.                                        *)
(***************************************************************************)
EXTENDS LlmBudget, FiniteSetTheorems, WellFoundedInduction, TLAPS

-----------------------------------------------------------------------------
(* Sums over finite sets *)

\* A set of natural numbers has a least one.
LEMMA LeastNumber ==
  ASSUME NEW T, T \subseteq Nat, T # {}
  PROVE  \E n \in T : \A m \in T : n <= m
<1>1. PICK x \in T : \A y \in T : ~(<<y, x>> \in OpToRel(<, Nat))
  BY NatLessThanWellFounded, WFMin
<1>2. ASSUME NEW y \in T PROVE x <= y
  <2>1. x \in Nat /\ y \in Nat
    OBVIOUS
  <2>2. ~(y < x)
    BY <1>1, <2>1 DEF OpToRel
  <2> QED BY <2>1, <2>2
<1> QED BY <1>2

\* The element that a fold takes next.
Pick(s) == CHOOSE x \in s : TRUE

\* it sums f over the subsets in D.
Solves(it, f, D) ==
    it = [s \in D |-> IF s = {} THEN 0 ELSE f[Pick(s)] + it[s \ {Pick(s)}]]

\* The element it takes is one of the set, and there is one less without it.
LEMMA Picked ==
  ASSUME NEW s, IsFiniteSet(s), s # {}
  PROVE  /\ Pick(s) \in s /\ IsFiniteSet(s \ {Pick(s)})
         /\ Cardinality(s) \in Nat /\ Cardinality(s \ {Pick(s)}) = Cardinality(s) - 1
         /\ Cardinality(s \ {Pick(s)}) \in Nat
<1>1. Pick(s) \in s
  BY DEF Pick
<1> QED BY <1>1, FS_RemoveElement, FS_CardinalityType

\* SumFunctionOnSet is a fold of the library, written out.
LEMMA SumUnfold ==
  ASSUME NEW f, NEW S
  PROVE  SumFunctionOnSet(f, S) = (CHOOSE it : Solves(it, f, SUBSET S))[S]
  BY DEF SumFunctionOnSet, FoldFunctionOnSet, MapThenFoldSet, Solves, Pick

\* The subsets of S with no more than n elements.
Small(S, n) == {s \in SUBSET S : Cardinality(s) <= n}

\* A function that sums f over the sets of n elements extends to those of n + 1.
LEMMA SolvesMore ==
  ASSUME NEW f, NEW S, IsFiniteSet(S), NEW n \in Nat, NEW it, Solves(it, f, Small(S, n))
  PROVE  \E more : Solves(more, f, Small(S, n + 1))
<1> DEFINE more == [s \in Small(S, n + 1) |-> IF s \in Small(S, n) THEN it[s]
                                              ELSE f[Pick(s)] + it[s \ {Pick(s)}]]
<1>1. ASSUME NEW s \in Small(S, n + 1), s # {}
      PROVE  s \ {Pick(s)} \in Small(S, n)
  <2>1. s \in SUBSET S /\ Cardinality(s) <= n + 1 /\ IsFiniteSet(s)
    BY FS_Subset DEF Small
  <2>2. Cardinality(s \ {Pick(s)}) = Cardinality(s) - 1 /\ Cardinality(s) \in Nat
    BY <1>1, <2>1, Picked
  <2>3. Cardinality(s \ {Pick(s)}) <= n
    BY <2>1, <2>2
  <2> QED BY <2>1, <2>3 DEF Small
<1>2. {} \in Small(S, n)
  BY FS_EmptySet DEF Small
<1>3. ASSUME NEW s \in Small(S, n) PROVE s \in Small(S, n + 1)
  <2>1. s \in SUBSET S /\ Cardinality(s) <= n /\ IsFiniteSet(s)
    BY FS_Subset DEF Small
  <2>2. Cardinality(s) \in Nat
    BY <2>1, FS_CardinalityType
  <2> QED BY <2>1, <2>2 DEF Small
<1>4. ASSUME NEW s \in Small(S, n)
      PROVE  it[s] = IF s = {} THEN 0 ELSE f[Pick(s)] + it[s \ {Pick(s)}]
  BY DEF Solves
<1>5. ASSUME NEW s \in Small(S, n) PROVE more[s] = it[s]
  BY <1>3
<1>6. ASSUME NEW s \in Small(S, n + 1)
      PROVE  more[s] = IF s = {} THEN 0 ELSE f[Pick(s)] + more[s \ {Pick(s)}]
  <2>1. CASE s = {}
    BY <1>2, <1>4, <1>5, <2>1
  <2>2. CASE s # {}
    <3>1. more[s \ {Pick(s)}] = it[s \ {Pick(s)}]
      BY <1>1, <1>5, <2>2
    <3>2. more[s] = f[Pick(s)] + it[s \ {Pick(s)}]
      BY <1>4, <2>2
    <3> QED BY <2>2, <3>1, <3>2
  <2> QED BY <2>1, <2>2
<1>7. more = [s \in Small(S, n + 1) |-> more[s]]
  OBVIOUS
<1> HIDE DEF more
<1>8. Solves(more, f, Small(S, n + 1))
  BY <1>6, <1>7 DEF Solves
<1> QED BY <1>8

\* So there is one that sums f over all the subsets of S.
LEMMA SolvesAll ==
  ASSUME NEW f, NEW S, IsFiniteSet(S)
  PROVE  \E it : Solves(it, f, SUBSET S)
<1> DEFINE T == {n \in Nat : ~ \E it : Solves(it, f, Small(S, n))}
<1>1. T = {}
  <2>1. SUFFICES ASSUME T # {} PROVE FALSE
    OBVIOUS
  <2>2. PICK n \in T : \A m \in T : n <= m
    BY <2>1, LeastNumber
  <2>3. CASE n = 0
    <3>1. ASSUME NEW s \in Small(S, 0) PROVE s = {}
      <4>1. IsFiniteSet(s) /\ Cardinality(s) <= 0
        BY FS_Subset DEF Small
      <4> QED BY <4>1, FS_EmptySet, FS_CardinalityType
    <3> DEFINE it == [s \in Small(S, 0) |-> 0]
    <3>2. Solves(it, f, Small(S, 0))
      BY <3>1 DEF Solves
    <3> HIDE DEF it
    <3> QED BY <2>2, <2>3, <3>2
  <2>4. CASE n # 0
    <3>1. n - 1 \in Nat /\ n - 1 \notin T
      BY <2>2, <2>4
    <3>2. PICK it : Solves(it, f, Small(S, n - 1))
      BY <3>1
    <3>3. \E more : Solves(more, f, Small(S, (n - 1) + 1))
      BY <3>1, <3>2, SolvesMore
    <3>4. (n - 1) + 1 = n
      BY <2>2
    <3> QED BY <2>2, <3>3, <3>4
  <2> QED BY <2>3, <2>4
<1>2. PICK it : Solves(it, f, Small(S, Cardinality(S)))
  BY <1>1, FS_CardinalityType
<1>3. Small(S, Cardinality(S)) = SUBSET S
  BY FS_Subset DEF Small
<1> QED BY <1>2, <1>3

\* Two of them agree where both sum.
LEMMA SolvesAlike ==
  ASSUME NEW f, NEW S, IsFiniteSet(S), NEW R \in SUBSET S, NEW it, NEW to,
         Solves(it, f, SUBSET S), Solves(to, f, SUBSET R)
  PROVE  it[R] = to[R]
<1> DEFINE T == {n \in Nat : \E s \in SUBSET R : Cardinality(s) = n /\ it[s] # to[s]}
<1>1. T = {}
  <2>1. SUFFICES ASSUME T # {} PROVE FALSE
    OBVIOUS
  <2>2. PICK n \in T : \A m \in T : n <= m
    BY <2>1, LeastNumber
  <2>3. PICK s \in SUBSET R : Cardinality(s) = n /\ it[s] # to[s]
    BY <2>2
  <2>4. IsFiniteSet(s) /\ s \in SUBSET S
    BY FS_Subset
  <2>5. /\ it[s] = IF s = {} THEN 0 ELSE f[Pick(s)] + it[s \ {Pick(s)}]
        /\ to[s] = IF s = {} THEN 0 ELSE f[Pick(s)] + to[s \ {Pick(s)}]
    BY <2>4 DEF Solves
  <2>6. s # {} /\ it[s \ {Pick(s)}] # to[s \ {Pick(s)}]
    BY <2>3, <2>5
  <2>7. n - 1 \in T /\ n \in Nat
    BY <2>3, <2>4, <2>6, Picked
  <2> QED BY <2>2, <2>7
<1>2. IsFiniteSet(R)
  BY FS_Subset
<1> QED BY <1>1, <1>2, FS_CardinalityType

\* A function that sums f over the subsets of S.
The(f, S) == CHOOSE it : Solves(it, f, SUBSET S)

\* A sum is its next element and the sum of the others.
LEMMA SumPicked ==
  ASSUME NEW f, NEW S, IsFiniteSet(S)
  PROVE  SumFunctionOnSet(f, S) = IF S = {} THEN 0
                                  ELSE f[Pick(S)] + SumFunctionOnSet(f, S \ {Pick(S)})
<1>1. ASSUME NEW R, IsFiniteSet(R) PROVE Solves(The(f, R), f, SUBSET R)
  BY <1>1, SolvesAll DEF The
<1>2. ASSUME NEW R PROVE SumFunctionOnSet(f, R) = The(f, R)[R]
  BY SumUnfold DEF The
<1>3. The(f, S)[S] = IF S = {} THEN 0 ELSE f[Pick(S)] + The(f, S)[S \ {Pick(S)}]
  <2>1. Solves(The(f, S), f, SUBSET S)
    BY <1>1
  <2> DEFINE it == The(f, S)
  <2>2. Solves(it, f, SUBSET S)
    BY <2>1
  <2> HIDE DEF it
  <2>3. it[S] = IF S = {} THEN 0 ELSE f[Pick(S)] + it[S \ {Pick(S)}]
    BY <2>2 DEF Solves
  <2> QED BY <2>3 DEF it
<1>4. CASE S # {}
  <2> DEFINE R == S \ {Pick(S)}
  <2>1. IsFiniteSet(R) /\ R \in SUBSET S
    BY FS_Subset
  <2>2. The(f, S)[R] = The(f, R)[R]
    <3>1. Solves(The(f, S), f, SUBSET S) /\ Solves(The(f, R), f, SUBSET R)
      BY <1>1, <2>1
    <3> HIDE DEF R
    <3> QED BY <2>1, <3>1, SolvesAlike
  <2> QED BY <1>2, <1>3, <1>4, <2>2
<1> QED BY <1>2, <1>3, <1>4

\* The sum of numbers is a number.
LEMMA SumNat ==
  ASSUME NEW f, NEW S, IsFiniteSet(S), \A x \in S : f[x] \in Nat
  PROVE  SumFunctionOnSet(f, S) \in Nat
<1> DEFINE T == {n \in Nat : \E s \in SUBSET S : Cardinality(s) = n /\ SumFunctionOnSet(f, s) \notin Nat}
<1>1. T = {}
  <2>1. SUFFICES ASSUME T # {} PROVE FALSE
    OBVIOUS
  <2>2. PICK n \in T : \A m \in T : n <= m
    BY <2>1, LeastNumber
  <2>3. PICK s \in SUBSET S : Cardinality(s) = n /\ SumFunctionOnSet(f, s) \notin Nat
    BY <2>2
  <2>4. IsFiniteSet(s)
    BY FS_Subset
  <2>5. s # {}
    <3>1. s = {} => SumFunctionOnSet(f, s) = 0
      BY <2>4, SumPicked
    <3> QED BY <2>3, <3>1
  <2>6. f[Pick(s)] \in Nat
    BY <2>4, <2>5, Picked
  <2>7. SumFunctionOnSet(f, s) = f[Pick(s)] + SumFunctionOnSet(f, s \ {Pick(s)})
    BY <2>4, <2>5, SumPicked
  <2>8. SumFunctionOnSet(f, s \ {Pick(s)}) \notin Nat
    BY <2>3, <2>6, <2>7
  <2>9. n - 1 \in T /\ n \in Nat
    BY <2>3, <2>4, <2>5, <2>8, Picked
  <2> QED BY <2>2, <2>9
<1> QED BY <1>1, FS_CardinalityType

\* Any element may be taken first.
LEMMA SumTaken ==
  ASSUME NEW f, NEW S, IsFiniteSet(S), \A x \in S : f[x] \in Nat, NEW y \in S
  PROVE  SumFunctionOnSet(f, S) = f[y] + SumFunctionOnSet(f, S \ {y})
<1> DEFINE Bad(s, z) == SumFunctionOnSet(f, s) # f[z] + SumFunctionOnSet(f, s \ {z})
<1> DEFINE T == {n \in Nat : \E s \in SUBSET S : Cardinality(s) = n /\ \E z \in s : Bad(s, z)}
<1>1. T = {}
  <2>1. SUFFICES ASSUME T # {} PROVE FALSE
    OBVIOUS
  <2>2. PICK n \in T : \A m \in T : n <= m
    BY <2>1, LeastNumber
  <2>3. PICK s \in SUBSET S : Cardinality(s) = n /\ \E z \in s : Bad(s, z)
    BY <2>2
  <2>4. PICK z \in s : Bad(s, z)
    BY <2>3
  <2>5. IsFiniteSet(s) /\ s # {}
    BY <2>4, FS_Subset
  <2> DEFINE x == Pick(s)
  <2>6. /\ x \in s /\ IsFiniteSet(s \ {x}) /\ Cardinality(s \ {x}) = n - 1 /\ n - 1 \in Nat
    BY <2>3, <2>5, Picked
  <2>7. SumFunctionOnSet(f, s) = f[x] + SumFunctionOnSet(f, s \ {x})
    BY <2>5, SumPicked
  <2> HIDE DEF x
  <2>8. z # x
    BY <2>4, <2>7
  <2>9. ASSUME NEW r \in SUBSET S, Cardinality(r) = n - 1, NEW u \in r PROVE ~Bad(r, u)
    <3>1. n - 1 \notin T
      BY <2>2, <2>6
    <3> QED BY <3>1, <2>6, <2>9
  <2>10. SumFunctionOnSet(f, s \ {x}) = f[z] + SumFunctionOnSet(f, (s \ {x}) \ {z})
    BY <2>6, <2>8, <2>9
  <2>11. IsFiniteSet(s \ {z}) /\ Cardinality(s \ {z}) = n - 1
    BY <2>3, <2>5, FS_RemoveElement
  <2>12. SumFunctionOnSet(f, s \ {z}) = f[x] + SumFunctionOnSet(f, (s \ {z}) \ {x})
    BY <2>6, <2>8, <2>9, <2>11
  <2>13. (s \ {x}) \ {z} = (s \ {z}) \ {x}
    OBVIOUS
  <2>14. SumFunctionOnSet(f, (s \ {x}) \ {z}) \in Nat
    <3>1. (s \ {x}) \ {z} \in SUBSET S
      OBVIOUS
    <3>2. IsFiniteSet((s \ {x}) \ {z})
      BY <3>1, FS_Subset
    <3> QED BY <3>2, SumNat
  <2>15. f[x] \in Nat /\ f[z] \in Nat
    BY <2>6
  <2> DEFINE a == SumFunctionOnSet(f, (s \ {x}) \ {z})
  <2>16. SumFunctionOnSet(f, s) = f[x] + (f[z] + a) /\ SumFunctionOnSet(f, s \ {z}) = f[x] + a
    BY <2>7, <2>10, <2>12, <2>13
  <2>17. a \in Nat
    BY <2>14
  <2> HIDE DEF a
  <2>18. SumFunctionOnSet(f, s) = f[z] + SumFunctionOnSet(f, s \ {z})
    BY <2>15, <2>16, <2>17
  <2> QED BY <2>4, <2>18
<1> QED BY <1>1, FS_CardinalityType

\* The part of an element in a sum.
Part(f, A, x) == IF x \in A THEN f[x] ELSE 0

\* A sum over a set is unchanged by an element outside it whose part is none.
LEMMA SumPart ==
  ASSUME NEW f, NEW A, IsFiniteSet(A), \A x \in A : f[x] \in Nat, NEW y
  PROVE  /\ SumFunctionOnSet(f, A) = Part(f, A, y) + SumFunctionOnSet(f, A \ {y})
         /\ SumFunctionOnSet(f, A) \in Nat /\ SumFunctionOnSet(f, A \ {y}) \in Nat
         /\ Part(f, A, y) \in Nat
<1>1. /\ SumFunctionOnSet(f, A) \in Nat /\ SumFunctionOnSet(f, A \ {y}) \in Nat
  BY SumNat, FS_RemoveElement
<1>2. CASE y \in A
  BY <1>1, <1>2, SumTaken DEF Part
<1>3. CASE y \notin A
  <2>1. A \ {y} = A
    BY <1>3
  <2> QED BY <1>1, <1>3, <2>1 DEF Part
<1> QED BY <1>2, <1>3, <1>1

\* A sum whose summands are each covered by those of two others is within the
\* sum of the two.
LEMMA SumCovered ==
  ASSUME NEW S, IsFiniteSet(S), NEW A, IsFiniteSet(A), NEW B, IsFiniteSet(B),
         NEW h, NEW f, NEW g, \A x \in S : h[x] \in Nat,
         \A x \in A : f[x] \in Nat, \A x \in B : g[x] \in Nat,
         \A x \in S : h[x] <= Part(f, A, x) + Part(g, B, x)
  PROVE  SumFunctionOnSet(h, S) <= SumFunctionOnSet(f, A) + SumFunctionOnSet(g, B)
<1> DEFINE Bad(s, a, b) == /\ \A x \in s : h[x] <= Part(f, a, x) + Part(g, b, x)
                           /\ ~(SumFunctionOnSet(h, s) <= SumFunctionOnSet(f, a) + SumFunctionOnSet(g, b))
<1> DEFINE T == {n \in Nat : \E s \in SUBSET S, a \in SUBSET A, b \in SUBSET B :
                                 Cardinality(s) = n /\ Bad(s, a, b)}
<1>1. T = {}
  <2>1. SUFFICES ASSUME T # {} PROVE FALSE
    OBVIOUS
  <2>2. PICK n \in T : \A m \in T : n <= m
    BY <2>1, LeastNumber
  <2>3. PICK s \in SUBSET S, a \in SUBSET A, b \in SUBSET B : Cardinality(s) = n /\ Bad(s, a, b)
    BY <2>2
  <2>4. IsFiniteSet(s) /\ IsFiniteSet(a) /\ IsFiniteSet(b)
    BY FS_Subset
  <2>5. SumFunctionOnSet(f, a) \in Nat /\ SumFunctionOnSet(g, b) \in Nat
    BY <2>4, SumNat
  <2>6. s # {}
    <3>1. SUFFICES ASSUME s = {} PROVE FALSE
      OBVIOUS
    <3>2. SumFunctionOnSet(h, s) = 0
      BY <3>1, FS_EmptySet, SumPicked
    <3>3. SumFunctionOnSet(h, s) <= SumFunctionOnSet(f, a) + SumFunctionOnSet(g, b)
      BY <2>5, <3>2
    <3> QED BY <2>3, <3>3
  <2>7. PICK x \in s : IsFiniteSet(s \ {x}) /\ Cardinality(s \ {x}) = n - 1 /\ n - 1 \in Nat
    BY <2>3, <2>4, <2>6, Picked
  <2>8. /\ SumFunctionOnSet(h, s) = h[x] + SumFunctionOnSet(h, s \ {x})
        /\ SumFunctionOnSet(h, s \ {x}) \in Nat /\ h[x] \in Nat
    BY <2>4, <2>7, SumTaken, SumNat
  <2>9. /\ SumFunctionOnSet(f, a) = Part(f, a, x) + SumFunctionOnSet(f, a \ {x})
        /\ SumFunctionOnSet(f, a \ {x}) \in Nat /\ Part(f, a, x) \in Nat
    <3>1. \A y \in a : f[y] \in Nat
      OBVIOUS
    <3>2. IsFiniteSet(a)
      BY <2>4
    <3>3. SumFunctionOnSet(f, a) = Part(f, a, x) + SumFunctionOnSet(f, a \ {x})
      BY <3>1, <3>2, SumPart
    <3>4. SumFunctionOnSet(f, a \ {x}) \in Nat /\ Part(f, a, x) \in Nat
      BY <3>1, <3>2, SumPart
    <3> QED BY <3>3, <3>4
  <2>10. /\ SumFunctionOnSet(g, b) = Part(g, b, x) + SumFunctionOnSet(g, b \ {x})
         /\ SumFunctionOnSet(g, b \ {x}) \in Nat /\ Part(g, b, x) \in Nat
    <3>1. \A y \in b : g[y] \in Nat
      OBVIOUS
    <3>2. IsFiniteSet(b)
      BY <2>4
    <3>3. SumFunctionOnSet(g, b) = Part(g, b, x) + SumFunctionOnSet(g, b \ {x})
      BY <3>1, <3>2, SumPart
    <3>4. SumFunctionOnSet(g, b \ {x}) \in Nat /\ Part(g, b, x) \in Nat
      BY <3>1, <3>2, SumPart
    <3> QED BY <3>3, <3>4
  <2>11. h[x] <= Part(f, a, x) + Part(g, b, x)
    BY <2>3, <2>7
  <2>12. ~(SumFunctionOnSet(h, s \ {x}) <= SumFunctionOnSet(f, a \ {x}) + SumFunctionOnSet(g, b \ {x}))
    BY <2>3, <2>8, <2>9, <2>10, <2>11
  <2>13. \A u \in s \ {x} : h[u] <= Part(f, a \ {x}, u) + Part(g, b \ {x}, u)
    BY <2>3 DEF Part
  <2>14. s \ {x} \in SUBSET S /\ a \ {x} \in SUBSET A /\ b \ {x} \in SUBSET B
    OBVIOUS
  <2>15. Bad(s \ {x}, a \ {x}, b \ {x})
    BY <2>12, <2>13
  <2> HIDE DEF Bad
  <2>16. n - 1 \in T /\ n \in Nat
    BY <2>2, <2>7, <2>14, <2>15
  <2> QED BY <2>2, <2>16
<1> QED BY <1>1, FS_CardinalityType

-----------------------------------------------------------------------------
(* Rows and locks *)

Inv == TypeOK /\ LiveIsReserved

Row == [state : RowStates, month : Nat, units : Nat, actual : Nat,
        cert : BOOLEAN, held : BOOLEAN]

\* A token without a row.
LEMMA AbsentTyped == Absent \in Row
  BY DEF Absent, Row, RowStates

\* Writing the orphans down changes no row of a live process.
LEMMA PersistedOk ==
  ASSUME Inv
  PROVE  /\ Persisted \in [Tokens -> Row]
         /\ \A t \in Tokens : owner[t] # Nobody => Persisted[t] = rows[t]
<1>1. rows \in [Tokens -> Row]
  BY DEF Inv, TypeOK, Row
<1>2. ASSUME NEW t \in Tokens
      PROVE  /\ rows[t] \in Row /\ [rows[t] EXCEPT !.state = "unknown"] \in Row
             /\ owner[t] # Nobody => t \notin Orphans
  BY <1>1 DEF Row, RowStates, Orphans, Orphaned
<1> QED BY <1>1, <1>2 DEF Persisted

\* The ledger's transaction of a reservation.
LEMMA ReserveKeeps ==
  ASSUME Inv, NEW p \in Procs, NEW t \in Tokens, NEW units \in Sizes, NEW cert \in BOOLEAN,
         Reserve(p, t, units, cert)
  PROVE  Inv'
<1> DEFINE r == [Absent EXCEPT !.state = "reserved", !.month = month,
                               !.units = units, !.cert = cert]
<1>1. units \in Nat /\ month \in Nat
  BY BudgetAssumption DEF Inv, TypeOK
<1>2. r \in Row /\ r.state = "reserved"
  BY <1>1 DEF Absent, Row, RowStates
<1>3. rows' = [Persisted EXCEPT ![t] = r]
  BY DEF Reserve
<1> HIDE DEF r
<1>4. rows' \in [Tokens -> Row]
  BY <1>2, <1>3, PersistedOk
<1>5. owner \in [Tokens -> Procs \cup {Nobody}]
  BY DEF Inv, TypeOK
<1>6. /\ owner' \in [Tokens -> Procs \cup {Nobody}]
      /\ \A u \in Tokens \ {t} : owner'[u] = owner[u]
  BY <1>5 DEF Reserve
<1>7. TypeOK'
  BY <1>4, <1>6 DEF Inv, TypeOK, Reserve, Row
<1>8. LiveIsReserved'
  BY <1>2, <1>3, <1>6, PersistedOk DEF Inv, LiveIsReserved
<1> QED BY <1>7, <1>8 DEF Inv

\* The end of a request: its process gives the lock up.
LEMMA SettleKeeps ==
  ASSUME Inv, NEW t \in Tokens, Settle(t)
  PROVE  Inv'
<1>1. /\ rows \in [Tokens -> Row] /\ charge \in [Tokens -> Nat]
      /\ owner \in [Tokens -> Procs \cup {Nobody}] /\ breach \in BOOLEAN
  BY DEF Inv, TypeOK, Row
<1>2. ASSUME NEW outcome \in Outcomes(t) PROVE Settled(t, outcome) \in Row
  BY <1>1 DEF Settled, Row, RowStates
<1>3. /\ rows' \in [Tokens -> Row]
      /\ \A u \in Tokens \ {t} : rows'[u] = rows[u]
      /\ breach' \in BOOLEAN
  BY <1>1, <1>2 DEF Settle
<1>4. owner' = [owner EXCEPT ![t] = Nobody]
  BY DEF Settle
<1>5. TypeOK'
  BY <1>1, <1>3, <1>4 DEF Inv, TypeOK, Settle, Row
<1>6. LiveIsReserved'
  BY <1>1, <1>3, <1>4 DEF Inv, LiveIsReserved
<1> QED BY <1>5, <1>6 DEF Inv

\* The operator's reconciliation touches no row of a live process.
LEMMA ReconcileKeeps ==
  ASSUME Inv, NEW resolved \in SUBSET Tokens, NEW clear \in BOOLEAN, Reconcile(resolved, clear)
  PROVE  Inv'
<1>1. /\ rows \in [Tokens -> Row] /\ charge \in [Tokens -> Nat]
  BY DEF Inv, TypeOK, Row
<1>2. ASSUME NEW t \in resolved PROVE owner[t] = Nobody
  BY <1>2 DEF Inv, Reconcile, Orphans, Orphaned, In, LiveIsReserved
<1>3. ASSUME NEW t \in Tokens
      PROVE  [rows[t] EXCEPT !.state = "settled", !.actual = charge[t]] \in Row
  BY <1>1 DEF Row, RowStates
<1>4. /\ rows' \in [Tokens -> Row]
      /\ \A t \in Tokens \ resolved : rows'[t] = rows[t]
      /\ breach' \in BOOLEAN
  BY <1>1, <1>3 DEF Reconcile
<1>5. TypeOK'
  BY <1>4 DEF Inv, TypeOK, Reconcile, Row
<1>6. LiveIsReserved'
  BY <1>2, <1>4 DEF Inv, LiveIsReserved, Reconcile
<1> QED BY <1>5, <1>6 DEF Inv

\* The empty file.
LEMMA InitInv == Init => Inv
<1> SUFFICES ASSUME Init PROVE Inv
  OBVIOUS
<1>1. rows \in [Tokens -> Row]
  <2>1. rows = [t \in Tokens |-> Absent]
    BY DEF Init
  <2> QED BY <2>1, AbsentTyped
<1>2. /\ owner \in [Tokens -> Procs \cup {Nobody}] /\ charge \in [Tokens -> Nat]
      /\ probing \in [Procs -> Tokens \cup {NoToken}]
      /\ \A t \in Tokens : owner[t] = Nobody
  BY DEF Init
<1> QED BY <1>1, <1>2 DEF Init, Inv, TypeOK, LiveIsReserved, Row

\* Every step of the budget preserves the inductive invariant.
LEMMA NextInv == Inv /\ [Next]_vars => Inv'
<1> SUFFICES ASSUME Inv, [Next]_vars PROVE Inv'
  OBVIOUS
<1>1. CASE UNCHANGED vars
  BY <1>1 DEF vars, Inv, TypeOK, LiveIsReserved
<1>2. ASSUME NEW p \in Procs, NEW t \in Tokens, Probe(p, t) PROVE Inv'
  BY <1>2 DEF Probe, Inv, TypeOK, LiveIsReserved
<1>3. ASSUME NEW p \in Procs, EndProbe(p) PROVE Inv'
  BY <1>3 DEF EndProbe, Inv, TypeOK, LiveIsReserved
<1>4. ASSUME NEW p \in Procs, Crash(p) PROVE Inv'
  BY <1>4 DEF Crash, Inv, TypeOK, LiveIsReserved
<1>5. ASSUME NEW t \in Tokens, NEW cost \in 0..(Limit + Overrun), Send(t, cost) PROVE Inv'
  <2>1. cost \in Nat
    BY BudgetAssumption
  <2> QED BY <1>5, <2>1 DEF Send, Inv, TypeOK, LiveIsReserved
<1>6. CASE Observe
  <2>1. rows' = Persisted
    BY <1>6 DEF Observe
  <2> QED BY <1>6, <2>1, PersistedOk DEF Observe, Inv, TypeOK, LiveIsReserved, Row
<1>7. CASE NextMonth
  BY <1>7 DEF NextMonth, Inv, TypeOK, LiveIsReserved
<1> QED BY <1>1, <1>2, <1>3, <1>4, <1>5, <1>6, <1>7, ReserveKeeps, SettleKeeps, ReconcileKeeps DEF Next

\* The inductive invariant holds in every run.
THEOREM Invariance == Spec => []Inv
  BY InitInv, NextInv, PTL DEF Spec

\* The rows, the locks and the costs have their types.
THEOREM BudgetTyped == Spec => []TypeOK
<1>1. Inv => TypeOK
  BY DEF Inv
<1> QED BY <1>1, Invariance, PTL

\* A reservation whose process lives is resolved by no other process and by no
\* operator: neither crashes nor a month's end nor a probe makes it look lost.
THEOREM LiveIsLeftAlone == Spec => []LiveIsReserved
<1>1. Inv => LiveIsReserved
  BY DEF Inv
<1> QED BY <1>1, Invariance, PTL

-----------------------------------------------------------------------------
(* The sums of a month *)

\* What a row may still cost its month, up to the bound that it reserved.
Worst(t) == IF rows[t].state \in {"reserved", "unknown"} THEN rows[t].units ELSE Bounded(t)

Due(m) == [t \in Tokens |-> IF rows[t].month = m THEN Worst(t) ELSE 0]

Within == \A m \in 1..LastMonth : SumFunctionOnSet(Due(m), Tokens) <= Limit

\* What the rows know of the provider's charges.
Costs ==
    /\ month \in 1..LastMonth
    /\ \A t \in Tokens :
          /\ rows[t].state = "absent" => rows[t] = Absent
          /\ rows[t].state = "settled" => rows[t].actual = charge[t]
          /\ rows[t].state = "released" \/ t \notin sent => charge[t] = 0

SumInv == Inv /\ Costs /\ Within

\* The costs are numbers.
LEMMA CostTyped ==
  ASSUME TypeOK
  PROVE  /\ \A t \in Tokens : /\ rows[t].units \in Nat /\ rows[t].actual \in Nat
                              /\ charge[t] \in Nat /\ Bounded(t) \in Nat
                              /\ Bounded(t) <= rows[t].units /\ Bounded(t) <= charge[t]
                              /\ Worst(t) \in Nat /\ Bounded(t) <= Worst(t)
                              /\ Worst(t) <= rows[t].units
         /\ \A m : Due(m) \in [Tokens -> Nat]
<1>1. rows \in [Tokens -> Row] /\ charge \in [Tokens -> Nat]
  BY DEF TypeOK, Row
<1>2. ASSUME NEW t \in Tokens
      PROVE  /\ rows[t].units \in Nat /\ rows[t].actual \in Nat
             /\ charge[t] \in Nat /\ Bounded(t) \in Nat
             /\ Bounded(t) <= rows[t].units /\ Bounded(t) <= charge[t]
             /\ Worst(t) \in Nat /\ Bounded(t) <= Worst(t) /\ Worst(t) <= rows[t].units
  <2>1. rows[t].units \in Nat /\ rows[t].actual \in Nat /\ charge[t] \in Nat
    BY <1>1 DEF Row
  <2> QED BY <2>1 DEF Bounded, Worst
<1>3. ASSUME NEW m PROVE Due(m) \in [Tokens -> Nat]
  BY <1>2 DEF Due
<1> QED BY <1>2, <1>3

\* After a step, too.
LEMMA DueNext == TypeOK' => \A m : Due(m)' \in [Tokens -> Nat]
<1>1. TypeOK => \A m : Due(m) \in [Tokens -> Nat]
  BY CostTyped
<1>2. TypeOK' => (\A m : Due(m) \in [Tokens -> Nat])'
  BY <1>1, PTL
<1> QED BY <1>2

\* A sum whose summands do not grow does not grow.
LEMMA SumFalls ==
  ASSUME NEW d \in [Tokens -> Nat], NEW e \in [Tokens -> Nat], NEW S \in SUBSET Tokens,
         \A t \in S : e[t] <= d[t]
  PROVE  /\ SumFunctionOnSet(e, S) <= SumFunctionOnSet(d, Tokens)
         /\ SumFunctionOnSet(e, S) \in Nat /\ SumFunctionOnSet(d, Tokens) \in Nat
<1>1. IsFiniteSet(Tokens) /\ IsFiniteSet(S) /\ IsFiniteSet({})
  BY BudgetAssumption, FS_Subset, FS_EmptySet
<1>2. \A t \in S : e[t] \in Nat /\ d[t] \in Nat
  OBVIOUS
<1>3. \A t \in S : e[t] <= Part(d, Tokens, t) + Part(d, {}, t)
  BY <1>2 DEF Part
<1>4. SumFunctionOnSet(d, {}) = 0
  BY <1>1, SumPicked
<1>5. SumFunctionOnSet(e, S) \in Nat /\ SumFunctionOnSet(d, Tokens) \in Nat
  BY <1>1, SumNat
<1>6. SumFunctionOnSet(e, S) <= SumFunctionOnSet(d, Tokens) + SumFunctionOnSet(d, {})
  <2>1. (\A t \in Tokens : d[t] \in Nat) /\ \A t \in {} : d[t] \in Nat
    OBVIOUS
  <2> QED BY <1>1, <1>2, <1>3, <2>1, SumCovered
<1> QED BY <1>4, <1>5, <1>6

\* A step that lets every row cost its month at most what it might have.
LEMMA WithinFalls ==
  ASSUME SumInv, TypeOK',
         \A t \in Tokens : rows'[t].month = rows[t].month /\ Worst(t)' <= Worst(t)
  PROVE  Within'
<1> SUFFICES ASSUME NEW m \in 1..LastMonth PROVE SumFunctionOnSet(Due(m)', Tokens) <= Limit
  BY DEF Within
<1>1. Due(m) \in [Tokens -> Nat] /\ Due(m)' \in [Tokens -> Nat]
  BY CostTyped, DueNext DEF SumInv, Inv
<1>2. \A t \in Tokens : Due(m)'[t] <= Due(m)[t]
  BY DEF Due
<1> DEFINE d == Due(m)
           e == Due(m)'
<1>3. SumFunctionOnSet(d, Tokens) <= Limit
  BY DEF SumInv, Within
<1>4. d \in [Tokens -> Nat] /\ e \in [Tokens -> Nat] /\ \A t \in Tokens : e[t] <= d[t]
  BY <1>1, <1>2
<1> HIDE DEF d, e
<1>5. /\ SumFunctionOnSet(e, Tokens) <= SumFunctionOnSet(d, Tokens)
      /\ SumFunctionOnSet(e, Tokens) \in Nat /\ SumFunctionOnSet(d, Tokens) \in Nat
  BY <1>4, SumFalls
<1>6. SumFunctionOnSet(e, Tokens) <= Limit
  BY <1>3, <1>5, BudgetAssumption
<1> QED BY <1>6 DEF e

\* The rows written down keep their month and what they may cost.
LEMMA PersistedCost ==
  ASSUME SumInv, NEW t \in Tokens
  PROVE  /\ Persisted[t].month = rows[t].month /\ Persisted[t].units = rows[t].units
         /\ Persisted[t].actual = rows[t].actual
         /\ t \in Orphans => rows[t].state = "reserved" /\ Persisted[t].state = "unknown"
         /\ t \notin Orphans => Persisted[t] = rows[t]
<1>1. rows[t] \in Row
  BY DEF SumInv, Inv, TypeOK, Row
<1> QED BY <1>1 DEF Persisted, Orphans, In, Row

\* No step but these changes a row or a charge.
LEMMA RowsKept ==
  ASSUME SumInv, Inv', UNCHANGED <<rows, charge, sent>>, month' \in 1..LastMonth
  PROVE  SumInv'
<1>1. Costs'
  BY DEF SumInv, Costs
<1>2. ASSUME NEW t \in Tokens PROVE rows'[t].month = rows[t].month /\ Worst(t)' <= Worst(t)
  <2>1. Worst(t) \in Nat
    BY CostTyped DEF SumInv, Inv
  <2> QED BY <2>1 DEF Worst, Bounded
<1>3. Within'
  BY <1>2, WithinFalls DEF Inv
<1> QED BY <1>1, <1>3 DEF SumInv

\* A request is sent for a row that counts with its bound.
LEMMA SendWithin ==
  ASSUME SumInv, Inv', NEW t \in Tokens, NEW cost \in Nat, Send(t, cost)
  PROVE  SumInv'
<1>1. rows' = rows /\ month' = month /\ rows[t].state = "reserved" /\ sent' = sent \cup {t}
  BY DEF Send, SumInv, Inv, LiveIsReserved
<1>2. charge' = [charge EXCEPT ![t] = cost] /\ charge \in [Tokens -> Nat]
  BY DEF Send, SumInv, Inv, TypeOK
<1>3. Costs'
  BY <1>1, <1>2 DEF SumInv, Costs
<1>4. ASSUME NEW u \in Tokens PROVE rows'[u].month = rows[u].month /\ Worst(u)' <= Worst(u)
  <2>1. Worst(u) \in Nat
    BY CostTyped DEF SumInv, Inv
  <2>2. Worst(u)' = Worst(u)
    BY <1>1, <1>2 DEF Worst, Bounded
  <2> QED BY <1>1, <2>1, <2>2
<1>5. Within'
  BY <1>4, WithinFalls DEF Inv
<1> QED BY <1>3, <1>5 DEF SumInv

\* An orphan written down counts as before.
LEMMA ObserveWithin ==
  ASSUME SumInv, Inv', Observe
  PROVE  SumInv'
<1>1. rows' = Persisted /\ UNCHANGED <<charge, sent, month>>
  BY DEF Observe
<1>2. ASSUME NEW t \in Tokens
      PROVE  /\ rows'[t].month = rows[t].month /\ Worst(t)' = Worst(t)
             /\ rows'[t].state = "absent" => rows'[t] = Absent
             /\ rows'[t].state = "settled" => rows'[t].actual = charge'[t]
             /\ rows'[t].state = "released" \/ t \notin sent' => charge'[t] = 0
  <2>1. CASE t \in Orphans
    BY <1>1, <2>1, PersistedCost DEF Worst, SumInv, Costs
  <2>2. CASE t \notin Orphans
    BY <1>1, <2>2, PersistedCost DEF Worst, Bounded, SumInv, Costs
  <2> QED BY <2>1, <2>2
<1>3. Costs'
  BY <1>1, <1>2 DEF SumInv, Costs
<1>4. \A t \in Tokens : rows'[t].month = rows[t].month /\ Worst(t)' <= Worst(t)
  BY <1>2, CostTyped DEF SumInv, Inv
<1>5. Within'
  BY <1>4, WithinFalls DEF Inv
<1> QED BY <1>3, <1>5 DEF SumInv

\* A row that the invoice settles counts with its charge, up to the bound.
LEMMA ReconcileWithin ==
  ASSUME SumInv, Inv', NEW resolved \in SUBSET Tokens, NEW clear \in BOOLEAN,
         Reconcile(resolved, clear)
  PROVE  SumInv'
<1>1. /\ rows' = [t \in Tokens |-> IF t \in resolved
                                   THEN [rows[t] EXCEPT !.state = "settled", !.actual = charge[t]]
                                   ELSE rows[t]]
      /\ UNCHANGED <<charge, sent, month>>
      /\ \A t \in resolved : rows[t].state \in {"reserved", "unknown"}
  BY DEF Reconcile, Orphans, In
<1>2. ASSUME NEW t \in Tokens
      PROVE  /\ rows'[t].month = rows[t].month /\ Worst(t)' <= Worst(t)
             /\ rows'[t].state = "absent" => rows'[t] = Absent
             /\ rows'[t].state = "settled" => rows'[t].actual = charge'[t]
             /\ rows'[t].state = "released" \/ t \notin sent' => charge'[t] = 0
  <2>1. rows[t] \in Row /\ Worst(t) \in Nat /\ Bounded(t) <= Worst(t)
    BY CostTyped DEF SumInv, Inv, TypeOK, Row
  <2>2. CASE t \in resolved
    <3>1. /\ rows'[t].month = rows[t].month /\ rows'[t].units = rows[t].units
          /\ rows'[t].state = "settled" /\ rows'[t].actual = charge[t]
      BY <1>1, <2>1, <2>2 DEF Row
    <3>2. Worst(t)' = Bounded(t)
      BY <1>1, <3>1 DEF Worst, Bounded
    <3> QED BY <1>1, <2>1, <3>1, <3>2 DEF SumInv, Costs
  <2>3. CASE t \notin resolved
    <3>1. rows'[t] = rows[t]
      BY <1>1, <2>3
    <3>2. Worst(t)' = Worst(t)
      BY <1>1, <3>1 DEF Worst, Bounded
    <3>3. Worst(t)' <= Worst(t)
      BY <2>1, <3>2
    <3>4. /\ rows[t].state = "absent" => rows[t] = Absent
          /\ rows[t].state = "settled" => rows[t].actual = charge[t]
          /\ rows[t].state = "released" \/ t \notin sent => charge[t] = 0
      BY DEF SumInv, Costs
    <3> QED BY <1>1, <3>1, <3>3, <3>4
  <2> QED BY <2>2, <2>3
<1>3. Costs'
  BY <1>1, <1>2 DEF SumInv, Costs
<1>4. Within'
  BY <1>2, WithinFalls DEF Inv
<1> QED BY <1>3, <1>4 DEF SumInv

\* However a request ends, its row counts with no more than its bound.
LEMMA SettleWithin ==
  ASSUME SumInv, Inv', NEW t \in Tokens, Settle(t)
  PROVE  SumInv'
<1>1. UNCHANGED <<charge, sent, month>> /\ rows[t].state = "reserved"
  BY DEF Settle, SumInv, Inv, LiveIsReserved
<1>2. CASE rows' = rows
  BY <1>1, <1>2, RowsKept DEF SumInv, Costs
<1>3. CASE \E outcome \in Outcomes(t) : rows' = [rows EXCEPT ![t] = Settled(t, outcome)]
  <2>1. PICK outcome \in Outcomes(t) : rows' = [rows EXCEPT ![t] = Settled(t, outcome)]
    BY <1>3
  <2>2. rows \in [Tokens -> Row] /\ rows[t] \in Row
    BY DEF SumInv, Inv, TypeOK, Row
  <2>3. /\ charge[t] \in Nat /\ rows[t].units \in Nat
        /\ Worst(t) \in Nat /\ Worst(t) = rows[t].units
        /\ Bounded(t) \in Nat /\ Bounded(t) <= rows[t].units
    BY <1>1, CostTyped DEF SumInv, Inv, Worst
  <2>4. /\ rows'[t].month = rows[t].month /\ rows'[t].units = rows[t].units
        /\ \/ rows'[t].state = "settled" /\ rows'[t].actual = charge[t]
           \/ rows'[t].state = "unknown"
           \/ rows'[t].state = "released" /\ charge[t] = 0
    <3>1. rows'[t] = Settled(t, outcome)
      BY <2>1, <2>2
    <3>2. t \notin sent => charge[t] = 0
      BY DEF SumInv, Costs
    <3>3. CASE outcome = "known"
      BY <2>2, <3>1, <3>3 DEF Settled, Row
    <3>4. CASE outcome = "timeout"
      BY <2>2, <3>1, <3>4 DEF Settled, Row
    <3>5. CASE outcome = "unknown"
      BY <2>2, <3>1, <3>5 DEF Settled, Row
    <3>6. CASE outcome \in {"not_sent", "rejected"}
      <4>1. charge[t] = 0
        BY <2>1, <3>2, <3>6 DEF Outcomes
      <4> QED BY <2>2, <3>1, <3>6, <4>1 DEF Settled, Row
    <3> QED BY <2>1, <3>3, <3>4, <3>5, <3>6 DEF Outcomes
  <2>5. Worst(t)' <= Worst(t)
    <3>1. Bounded(t)' = Bounded(t)
      BY <1>1, <2>4 DEF Bounded
    <3> QED BY <2>3, <2>4, <3>1 DEF Worst
  <2>6. ASSUME NEW u \in Tokens, u # t
        PROVE  rows'[u] = rows[u] /\ Worst(u)' = Worst(u) /\ Worst(u) \in Nat
    <3>1. rows'[u] = rows[u]
      BY <2>1, <2>2, <2>6
    <3>2. Worst(u) \in Nat
      BY CostTyped DEF SumInv, Inv
    <3> QED BY <1>1, <3>1, <3>2 DEF Worst, Bounded
  <2>7. Costs'
    BY <1>1, <2>4, <2>6 DEF SumInv, Costs
  <2>8. \A u \in Tokens : rows'[u].month = rows[u].month /\ Worst(u)' <= Worst(u)
    BY <2>4, <2>5, <2>6
  <2>9. Within'
    BY <2>8, WithinFalls DEF Inv
  <2> QED BY <2>7, <2>9 DEF SumInv
<1> QED BY <1>2, <1>3 DEF Settle

\* What a month is charged with is a number.
LEMMA CommittedTyped ==
  ASSUME Inv
  PROVE  Committed \in Nat
<1> DEFINE A == {u \in In("settled") : rows[u].month = month}
           C == {u \in InFlight : rows[u].month = month \/ rows[u].cert}
                \cup {u \in In("unknown") : rows[u].held}
           f == [u \in Tokens |-> rows[u].actual]
           g == [u \in Tokens |-> rows[u].units]
<1>1. Committed = SumFunctionOnSet(f, A) + SumFunctionOnSet(g, C)
  BY DEF Committed
<1>2. f \in [Tokens -> Nat] /\ g \in [Tokens -> Nat]
  BY CostTyped DEF Inv
<1>3. A \in SUBSET Tokens /\ C \in SUBSET Tokens
  BY DEF In, InFlight
<1> HIDE DEF A, C, f, g
<1>4. IsFiniteSet(A) /\ IsFiniteSet(C)
  BY <1>3, BudgetAssumption, FS_Subset
<1>5. (\A u \in A : f[u] \in Nat) /\ \A u \in C : g[u] \in Nat
  BY <1>2, <1>3
<1> QED BY <1>1, <1>4, <1>5, SumNat

\* A month is charged with what it may cost when nothing of it is unbounded.
LEMMA CommittedCovers ==
  ASSUME SumInv, Unbounded = {}, NEW t \in Tokens, rows[t] = Absent, NEW units \in Nat
  PROVE  SumFunctionOnSet([Due(month) EXCEPT ![t] = units], Tokens) <= Committed + units
<1> DEFINE h == [Due(month) EXCEPT ![t] = units]
           A == {u \in In("settled") : rows[u].month = month}
           C == {u \in InFlight : rows[u].month = month \/ rows[u].cert}
                \cup {u \in In("unknown") : rows[u].held}
           f == [u \in Tokens |-> rows[u].actual]
           g == [u \in Tokens |-> rows[u].units]
           w == [g EXCEPT ![t] = units]
           B == C \cup {t}
<1>1. Committed = SumFunctionOnSet(f, A) + SumFunctionOnSet(g, C)
  BY DEF Committed
<1>2. /\ Due(month) \in [Tokens -> Nat]
      /\ \A u \in Tokens : /\ rows[u].units \in Nat /\ rows[u].actual \in Nat
                           /\ charge[u] \in Nat /\ Bounded(u) \in Nat
                           /\ Bounded(u) <= rows[u].units /\ Bounded(u) <= charge[u]
                           /\ Worst(u) \in Nat /\ Worst(u) <= rows[u].units
  BY CostTyped DEF SumInv, Inv
<1>3. h \in [Tokens -> Nat] /\ f \in [Tokens -> Nat] /\ g \in [Tokens -> Nat] /\ w \in [Tokens -> Nat]
  BY <1>2
<1>4. A \in SUBSET Tokens /\ C \in SUBSET Tokens /\ B \in SUBSET Tokens /\ t \notin C
  BY DEF In, InFlight, Absent
<1>5. IsFiniteSet(Tokens) /\ IsFiniteSet(A) /\ IsFiniteSet(B) /\ IsFiniteSet(C) /\ IsFiniteSet({})
  <2> HIDE DEF A, B, C
  <2> QED BY <1>4, BudgetAssumption, FS_Subset, FS_EmptySet
<1>6. ASSUME NEW u \in Tokens PROVE h[u] <= Part(f, A, u) + Part(w, B, u)
  <2>1. Part(f, A, u) \in Nat /\ Part(w, B, u) \in Nat
    <3> HIDE DEF f, w, A, B
    <3> QED BY <1>3 DEF Part
  <2>2. CASE u = t
    <3>1. h[u] = units /\ w[u] = units /\ u \in B
      BY <1>2, <2>2
    <3>2. Part(w, B, u) = units
      BY <3>1 DEF Part
    <3> HIDE DEF f, w, A, B, h
    <3> QED BY <2>1, <3>1, <3>2
  <2>3. CASE u # t /\ rows[u].month # month
    <3>1. h[u] = 0
      BY <2>3 DEF Due
    <3> HIDE DEF f, w, A, B, h
    <3> QED BY <2>1, <3>1
  <2>4. CASE u # t /\ rows[u].month = month
    <3>1. h[u] = Worst(u) /\ w[u] = rows[u].units /\ f[u] = rows[u].actual
      BY <1>2, <1>3, <2>4 DEF Due
    <3>2. rows[u].state \in RowStates \ {"absent"}
      <4>1. rows[u].month # 0
        BY <2>4 DEF SumInv, Costs
      <4>2. rows[u].state # "absent"
        BY <4>1 DEF SumInv, Costs, Absent
      <4>3. rows[u].state \in RowStates
        BY DEF SumInv, Inv, TypeOK
      <4> QED BY <4>2, <4>3
    <3>3. CASE rows[u].state \in {"reserved", "unknown"}
      <4>1. u \in B
        BY <2>4, <3>3 DEF Unbounded, InFlight, In
      <4>2. Part(w, B, u) = rows[u].units
        BY <3>1, <4>1 DEF Part
      <4> HIDE DEF f, w, A, B, h
      <4> QED BY <1>2, <2>1, <3>1, <4>2
    <3>4. CASE rows[u].state = "settled"
      <4>1. u \in A
        BY <2>4, <3>4 DEF In
      <4>2. Part(f, A, u) = charge[u]
        BY <3>1, <3>4, <4>1 DEF Part, SumInv, Costs
      <4>3. Worst(u) = Bounded(u)
        BY <3>4 DEF Worst
      <4> HIDE DEF f, w, A, B, h
      <4> QED BY <1>2, <2>1, <3>1, <4>2, <4>3
    <3>5. CASE rows[u].state = "released"
      <4>1. Worst(u) = 0
        BY <1>2, <3>5 DEF Worst, SumInv, Costs
      <4> HIDE DEF f, w, A, B, h
      <4> QED BY <2>1, <3>1, <4>1
    <3> QED BY <3>2, <3>3, <3>4, <3>5 DEF RowStates
  <2> QED BY <2>2, <2>3, <2>4
<1>7. w[t] = units /\ B \ {t} = C /\ t \in B /\ \A u \in C : w[u] <= Part(g, C, u) + Part(g, {}, u)
  <2>1. \A u \in C : w[u] = g[u] /\ g[u] \in Nat
    BY <1>3, <1>4
  <2>2. w[t] = units /\ B \ {t} = C /\ t \in B
    BY <1>3, <1>4
  <2> HIDE DEF w, g, C, B
  <2> QED BY <2>1, <2>2 DEF Part
<1> HIDE DEF h, A, B, C, f, g, w
<1>8. SumFunctionOnSet(h, Tokens) <= SumFunctionOnSet(f, A) + SumFunctionOnSet(w, B)
  <2>1. /\ \A u \in Tokens : h[u] \in Nat
        /\ \A u \in A : f[u] \in Nat
        /\ \A u \in B : w[u] \in Nat
    BY <1>3, <1>4
  <2> QED BY <1>5, <1>6, <2>1, SumCovered
<1>9. SumFunctionOnSet(w, B) = units + SumFunctionOnSet(w, C)
  <2>1. \A u \in B : w[u] \in Nat
    BY <1>3, <1>4
  <2> QED BY <1>5, <1>7, <2>1, SumTaken
<1>10. SumFunctionOnSet(w, C) <= SumFunctionOnSet(g, C) + SumFunctionOnSet(g, {})
  <2>1. (\A u \in C : w[u] \in Nat /\ g[u] \in Nat) /\ \A u \in {} : g[u] \in Nat
    BY <1>3, <1>4
  <2> QED BY <1>5, <1>7, <2>1, SumCovered
<1>11. /\ SumFunctionOnSet(g, {}) = 0
       /\ SumFunctionOnSet(g, C) \in Nat /\ SumFunctionOnSet(w, C) \in Nat
       /\ SumFunctionOnSet(f, A) \in Nat /\ SumFunctionOnSet(h, Tokens) \in Nat
  <2>1. /\ \A u \in C : w[u] \in Nat /\ g[u] \in Nat
        /\ \A u \in A : f[u] \in Nat
        /\ \A u \in Tokens : h[u] \in Nat
    BY <1>3, <1>4
  <2> QED BY <1>5, <2>1, SumNat, SumPicked
<1>12. SumFunctionOnSet(h, Tokens) <= Committed + units
  BY <1>1, <1>8, <1>9, <1>10, <1>11
<1> QED BY <1>12 DEF h

\* A new reservation fits what its month may still cost.
LEMMA ReserveWithin ==
  ASSUME SumInv, Inv', NEW p \in Procs, NEW t \in Tokens, NEW units \in Sizes,
         NEW cert \in BOOLEAN, Reserve(p, t, units, cert)
  PROVE  SumInv'
<1> DEFINE r == [Absent EXCEPT !.state = "reserved", !.month = month,
                               !.units = units, !.cert = cert]
<1>1. units \in Nat /\ month \in 1..LastMonth /\ LastMonth \in Nat
  BY BudgetAssumption DEF SumInv, Costs
<1>2. r.state = "reserved" /\ r.month = month /\ r.units = units
  BY DEF Absent
<1>3. /\ rows' = [Persisted EXCEPT ![t] = r] /\ UNCHANGED <<charge, sent, month>>
      /\ rows[t] = Absent /\ Unbounded = {} /\ Committed + units <= Limit
  BY DEF Reserve, Blocked
<1> HIDE DEF r
<1>4. Persisted \in [Tokens -> Row] /\ Orphans = {}
  BY <1>3, PersistedOk DEF SumInv, Unbounded
<1>5. rows'[t] = r /\ \A u \in Tokens \ {t} : rows'[u] = rows[u]
  BY <1>3, <1>4, PersistedCost
<1>6. Costs'
  BY <1>2, <1>3, <1>5 DEF SumInv, Costs
<1>7. /\ \A u \in Tokens : Worst(u) \in Nat
      /\ \A m : Due(m) \in [Tokens -> Nat] /\ Due(m)' \in [Tokens -> Nat]
  BY CostTyped, DueNext DEF SumInv, Inv
<1>8. ASSUME NEW u \in Tokens \ {t} PROVE Worst(u)' = Worst(u)
  BY <1>3, <1>5 DEF Worst, Bounded
<1>9. Worst(t)' = units
  BY <1>2, <1>5 DEF Worst
<1>10. ASSUME NEW m \in 1..LastMonth PROVE SumFunctionOnSet(Due(m)', Tokens) <= Limit
  <2>1. CASE m = month
    <3>1. Due(m)' = [Due(month) EXCEPT ![t] = units]
      <4>1. \A u \in Tokens : Due(m)'[u] = [Due(month) EXCEPT ![t] = units][u]
        BY <1>2, <1>5, <1>8, <1>9, <1>7, <2>1 DEF Due
      <4>2. Due(m)' \in [Tokens -> Nat] /\ [Due(month) EXCEPT ![t] = units] \in [Tokens -> Nat]
        BY <1>1, <1>7
      <4> QED BY <4>1, <4>2
    <3> DEFINE h == [Due(month) EXCEPT ![t] = units]
    <3>2. SumFunctionOnSet(h, Tokens) <= Committed + units /\ h \in [Tokens -> Nat]
      BY <1>1, <1>3, <1>7, CommittedCovers
    <3> HIDE DEF h
    <3>3. SumFunctionOnSet(h, Tokens) \in Nat
      BY <3>2, SumFalls
    <3>4. Committed + units \in Int
      BY <1>1, CommittedTyped DEF SumInv
    <3>5. SumFunctionOnSet(h, Tokens) <= Limit
      BY <1>3, <3>2, <3>3, <3>4, BudgetAssumption
    <3> QED BY <3>1, <3>5 DEF h
  <2>2. CASE m # month
    <3> DEFINE d == Due(m)
               e == Due(m)'
    <3>1. d \in [Tokens -> Nat] /\ e \in [Tokens -> Nat]
      BY <1>7
    <3>2. \A u \in Tokens : e[u] <= d[u]
      <4>1. e[t] = 0
        BY <1>2, <1>5, <1>3, <2>2 DEF Due
      <4>2. \A u \in Tokens \ {t} : e[u] = d[u]
        BY <1>5, <1>8 DEF Due
      <4> HIDE DEF d, e
      <4> QED BY <3>1, <4>1, <4>2
    <3>3. SumFunctionOnSet(d, Tokens) <= Limit
      BY DEF SumInv, Within
    <3> HIDE DEF d, e
    <3>4. /\ SumFunctionOnSet(e, Tokens) <= SumFunctionOnSet(d, Tokens)
          /\ SumFunctionOnSet(e, Tokens) \in Nat /\ SumFunctionOnSet(d, Tokens) \in Nat
      BY <3>1, <3>2, SumFalls
    <3>5. SumFunctionOnSet(e, Tokens) <= Limit
      BY <3>3, <3>4, BudgetAssumption
    <3> QED BY <3>5 DEF e
  <2> QED BY <2>1, <2>2
<1>11. Within'
  BY <1>10 DEF Within
<1> QED BY <1>6, <1>11 DEF SumInv

\* The empty file charges nothing.
LEMMA InitSums == Init => SumInv
<1> SUFFICES ASSUME Init PROVE SumInv
  OBVIOUS
<1>1. Inv
  BY InitInv
<1>2. \A t \in Tokens : rows[t] = Absent /\ charge[t] = 0
  BY DEF Init
<1>3. month = 1 /\ LastMonth \in Nat \ {0}
  BY BudgetAssumption DEF Init
<1>4. Costs
  BY <1>2, <1>3 DEF Costs, Absent
<1>5. ASSUME NEW m \in 1..LastMonth PROVE SumFunctionOnSet(Due(m), Tokens) <= Limit
  <2> DEFINE d == Due(m)
  <2>1. \A t \in Tokens : d[t] = 0
    BY <1>2 DEF Due, Absent
  <2> HIDE DEF d
  <2>2. IsFiniteSet(Tokens) /\ IsFiniteSet({})
    BY BudgetAssumption, FS_EmptySet
  <2>3. SumFunctionOnSet(d, Tokens) <= SumFunctionOnSet(d, {}) + SumFunctionOnSet(d, {})
    <3>1. /\ \A t \in Tokens : d[t] \in Nat /\ d[t] <= Part(d, {}, t) + Part(d, {}, t)
          /\ \A t \in {} : d[t] \in Nat
      BY <2>1 DEF Part
    <3> QED BY <2>2, <3>1, SumCovered
  <2>4. SumFunctionOnSet(d, {}) = 0
    BY <2>2, SumPicked
  <2>5. SumFunctionOnSet(d, Tokens) \in Nat
    <3>1. \A t \in Tokens : d[t] \in Nat
      BY <2>1
    <3> QED BY <2>2, <3>1, SumNat
  <2>6. SumFunctionOnSet(d, Tokens) <= Limit
    BY <2>3, <2>4, <2>5, BudgetAssumption
  <2> QED BY <2>6 DEF d
<1>6. Within
  BY <1>5 DEF Within
<1> QED BY <1>1, <1>4, <1>6 DEF SumInv

\* Every step keeps each month within its limit, whatever is still open in it.
LEMMA NextSums == SumInv /\ [Next]_vars => SumInv'
<1> SUFFICES ASSUME SumInv, [Next]_vars PROVE SumInv'
  OBVIOUS
<1>0. Inv'
  BY NextInv DEF SumInv
<1>1. month \in 1..LastMonth /\ LastMonth \in Nat
  BY BudgetAssumption DEF SumInv, Costs
<1>2. CASE UNCHANGED vars
  BY <1>0, <1>1, <1>2, RowsKept DEF vars
<1>3. ASSUME NEW p \in Procs, NEW t \in Tokens, Probe(p, t) PROVE SumInv'
  BY <1>0, <1>1, <1>3, RowsKept DEF Probe
<1>4. ASSUME NEW p \in Procs, EndProbe(p) \/ Crash(p) PROVE SumInv'
  BY <1>0, <1>1, <1>4, RowsKept DEF EndProbe, Crash
<1>5. CASE NextMonth
  <2>1. month' \in 1..LastMonth
    BY <1>1, <1>5 DEF NextMonth
  <2> QED BY <1>0, <1>5, <2>1, RowsKept DEF NextMonth
<1>6. ASSUME NEW t \in Tokens, NEW cost \in 0..(Limit + Overrun), Send(t, cost) PROVE SumInv'
  <2>1. cost \in Nat
    BY BudgetAssumption
  <2> QED BY <1>0, <1>6, <2>1, SendWithin
<1>7. CASE Observe
  BY <1>0, <1>7, ObserveWithin
<1>8. ASSUME NEW t \in Tokens, Settle(t) PROVE SumInv'
  BY <1>0, <1>8, SettleWithin
<1>9. ASSUME NEW p \in Procs, NEW t \in Tokens, NEW units \in Sizes, NEW cert \in BOOLEAN,
             Reserve(p, t, units, cert)
      PROVE  SumInv'
  BY <1>0, <1>9, ReserveWithin
<1>10. ASSUME NEW resolved \in SUBSET Tokens, NEW clear \in BOOLEAN, Reconcile(resolved, clear)
       PROVE  SumInv'
  BY <1>0, <1>10, ReconcileWithin
<1> QED BY <1>2, <1>3, <1>4, <1>5, <1>6, <1>7, <1>8, <1>9, <1>10 DEF Next

\* No month is charged above its limit, up to the bounds that were reserved: for
\* any processes, requests and sizes, over crashes, failed commits, late answers
\* and month's ends.
THEOREM LimitHolds == Spec => []ChargesWithinLimit
<1>1. ASSUME SumInv PROVE ChargesWithinLimit
  <2> SUFFICES ASSUME NEW m \in 1..LastMonth
               PROVE  SumFunctionOnSet([t \in Tokens |-> Bounded(t)],
                                       {t \in Tokens : rows[t].month = m}) <= Limit
    BY DEF ChargesWithinLimit
  <2> DEFINE d == Due(m)
             e == [t \in Tokens |-> Bounded(t)]
             S == {t \in Tokens : rows[t].month = m}
  <2>1. /\ d \in [Tokens -> Nat] /\ e \in [Tokens -> Nat] /\ S \in SUBSET Tokens
        /\ SumFunctionOnSet(d, Tokens) <= Limit
    BY <1>1, CostTyped DEF SumInv, Inv, Within
  <2>2. \A t \in S : e[t] <= d[t]
    BY <1>1, CostTyped DEF SumInv, Inv, Due
  <2> HIDE DEF d, e, S
  <2>3. /\ SumFunctionOnSet(e, S) <= SumFunctionOnSet(d, Tokens)
        /\ SumFunctionOnSet(e, S) \in Nat /\ SumFunctionOnSet(d, Tokens) \in Nat
    BY <2>1, <2>2, SumFalls
  <2>4. SumFunctionOnSet(e, S) <= Limit
    BY <2>1, <2>3, BudgetAssumption
  <2> QED BY <2>4 DEF e, S
<1>2. SumInv /\ [Next]_vars => SumInv'
  BY NextSums
<1>3. Init => SumInv
  BY InitSums
<1> QED BY <1>1, <1>2, <1>3, PTL DEF Spec
=============================================================================
