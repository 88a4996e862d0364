--------------------------- MODULE CheckoutProofs ---------------------------
(***************************************************************************)
(* Proofs about Checkout: the inductive invariant, no lost stock, and that *)
(* circles of waiting transactions stay in one shop.                       *)
(***************************************************************************)
EXTENDS Checkout, FiniteSetTheorems, WellFoundedInduction, TLAPS

-----------------------------------------------------------------------------
(* Sums over finite sets.  SumFunctionOnSet takes the elements in the order  *)
(* CHOOSE has them; the sum does not depend on it.                           *)

LEMMA LeastNatural ==
    ASSUME NEW T, T \subseteq Nat, T # {}
    PROVE  \E x \in T : \A y \in T : x <= y
<1> DEFINE R == {ss \in Nat \X Nat : ss[1] < ss[2]}
<1>1. R = OpToRel(<, Nat)
    BY DEF OpToRel
<1>2. IsWellFoundedOn(R, Nat)
    BY <1>1, NatLessThanWellFounded
<1>3. \A y, x \in Nat : y < x => <<y, x>> \in R
    OBVIOUS
<1> HIDE DEF R
<1>4. \E x \in T : \A y \in T : ~(<<y, x>> \in R)
    BY <1>2, WFMin
<1>5. \A y, x \in T : y < x \/ x <= y
    OBVIOUS
<1> QED BY <1>3, <1>4, <1>5

IsSum(g, f, S) ==
    g = [s \in SUBSET S |-> IF s = {} THEN 0
                            ELSE f[CHOOSE x \in s : TRUE] + g[s \ {CHOOSE x \in s : TRUE}]]

LEMMA SumDefined ==
    ASSUME NEW f, NEW S, \E g : IsSum(g, f, S)
    PROVE  \E g : IsSum(g, f, S) /\ SumFunctionOnSet(f, S) = g[S]
<1> DEFINE h == CHOOSE g : IsSum(g, f, S)
<1>1. IsSum(h, f, S)
    OBVIOUS
<1>2. SumFunctionOnSet(f, S) = h[S]
    BY DEF IsSum, SumFunctionOnSet, FoldFunctionOnSet, MapThenFoldSet
<1> QED BY <1>1, <1>2

Small(S, n) == {s \in SUBSET S : Cardinality(s) <= n}

IsPart(g, f, S, n) ==
    g = [s \in Small(S, n) |-> IF s = {} THEN 0
                               ELSE f[CHOOSE x \in s : TRUE] + g[s \ {CHOOSE x \in s : TRUE}]]

LEMMA Fewer ==
    ASSUME NEW S, IsFiniteSet(S), NEW s \in SUBSET S, NEW x \in s
    PROVE  /\ IsFiniteSet(s) /\ s \ {x} \in SUBSET S
           /\ Cardinality(s) \in Nat \ {0}
           /\ Cardinality(s \ {x}) = Cardinality(s) - 1
<1>1. IsFiniteSet(s)
    BY FS_Subset
<1>2. Cardinality(s) \in Nat /\ Cardinality(s \ {x}) \in Nat
    BY <1>1, FS_CardinalityType, FS_RemoveElement
<1>3. Cardinality(s \ {x}) = Cardinality(s) - 1
    BY <1>1, FS_RemoveElement
<1> QED BY <1>1, <1>2, <1>3

LEMMA PartsExist ==
    ASSUME NEW f, NEW S, IsFiniteSet(S), NEW n \in Nat
    PROVE  \E g : IsPart(g, f, S, n)
<1> DEFINE T == {k \in Nat : ~ \E g : IsPart(g, f, S, k)}
<1>1. SUFFICES ASSUME T # {} PROVE FALSE
    OBVIOUS
<1>2. PICK k \in T : \A j \in T : k <= j
    BY <1>1, LeastNatural
<1>a. k \in Nat /\ ~ \E g : IsPart(g, f, S, k)
    OBVIOUS
<1>3. CASE k = 0
    <2> DEFINE g == [s \in Small(S, 0) |-> 0]
    <2>1. \A s \in Small(S, 0) : s = {}
        <3>1. SUFFICES ASSUME NEW s \in Small(S, 0), NEW x \in s PROVE FALSE
            OBVIOUS
        <3>2. s \in SUBSET S /\ Cardinality(s) <= 0
            BY DEF Small
        <3>3. Cardinality(s) \in Nat \ {0}
            BY <3>1, <3>2, Fewer
        <3> QED BY <3>2, <3>3
    <2>2. IsPart(g, f, S, 0)
        BY <2>1 DEF IsPart
    <2> QED BY <2>2, <1>3, <1>a
<1>4. CASE k # 0
    <2>1. k - 1 \in Nat /\ ~(k <= k - 1)
        BY <1>a, <1>4
    <2>2. PICK h : IsPart(h, f, S, k - 1)
        BY <1>2, <2>1
    <2> DEFINE c(s) == CHOOSE x \in s : TRUE
               g == [s \in Small(S, k) |-> IF s = {} THEN 0 ELSE f[c(s)] + h[s \ {c(s)}]]
    <2>3. ASSUME NEW s \in Small(S, k), s # {}
          PROVE  g[s \ {c(s)}] = h[s \ {c(s)}]
        <3>1. c(s) \in s
            BY <2>3
        <3> DEFINE t == s \ {c(s)}
        <3>a. s \in SUBSET S /\ Cardinality(s) <= k
            BY <2>3 DEF Small
        <3>b. t \in SUBSET S /\ Cardinality(t) = Cardinality(s) - 1 /\ Cardinality(s) \in Nat
            BY <3>1, <3>a, Fewer
        <3>c. Cardinality(t) <= k - 1 /\ Cardinality(t) <= k
            BY <1>a, <3>a, <3>b
        <3>2. t \in Small(S, k - 1) /\ t \in Small(S, k)
            BY <3>b, <3>c DEF Small
        <3> HIDE DEF t
        <3>3. h[t] = IF t = {} THEN 0 ELSE f[c(t)] + h[t \ {c(t)}]
            BY <2>2, <3>2 DEF IsPart
        <3>4. g[t] = h[t]
            BY <3>2, <3>3
        <3> QED BY <3>4 DEF t
    <2>4. IsPart(g, f, S, k)
        <3>1. \A s \in Small(S, k) : s # {} => g[s \ {c(s)}] = h[s \ {c(s)}]
            BY <2>3
        <3>2. \A s \in Small(S, k) : g[s] = IF s = {} THEN 0 ELSE f[c(s)] + h[s \ {c(s)}]
            OBVIOUS
        <3>3. DOMAIN g = Small(S, k) /\ g = [s \in DOMAIN g |-> g[s]]
            OBVIOUS
        <3> HIDE DEF g
        <3>4. \A s \in Small(S, k) : g[s] = IF s = {} THEN 0 ELSE f[c(s)] + g[s \ {c(s)}]
            BY <3>1, <3>2
        <3>5. g = [s \in Small(S, k) |-> IF s = {} THEN 0 ELSE f[c(s)] + g[s \ {c(s)}]]
            BY <3>3, <3>4
        <3> QED BY <3>5 DEF IsPart
    <2> QED BY <2>4, <1>a
<1> QED BY <1>3, <1>4

LEMMA SumExists ==
    ASSUME NEW f, NEW S, IsFiniteSet(S)
    PROVE  \E g : IsSum(g, f, S)
<1>1. Cardinality(S) \in Nat
    BY FS_CardinalityType
<1>2. Small(S, Cardinality(S)) = SUBSET S
    BY FS_Subset DEF Small
<1>3. PICK g : IsPart(g, f, S, Cardinality(S))
    BY <1>1, PartsExist
<1>4. IsSum(g, f, S)
    BY <1>2, <1>3 DEF IsPart, IsSum
<1> QED BY <1>4

\* Two sums of functions that agree on a set agree on its subsets
LEMMA SumsAgree ==
    ASSUME NEW f, NEW S, NEW g, IsSum(g, f, S),
           NEW e, NEW T, NEW h, IsSum(h, e, T),
           IsFiniteSet(T), T \subseteq S, \A x \in T : f[x] = e[x]
    PROVE  \A s \in SUBSET T : g[s] = h[s]
<1> DEFINE N == {k \in Nat : \E s \in SUBSET T : Cardinality(s) = k /\ g[s] # h[s]}
<1>1. SUFFICES ASSUME NEW t \in SUBSET T, g[t] # h[t] PROVE FALSE
    OBVIOUS
<1>2. IsFiniteSet(t) /\ Cardinality(t) \in N
    BY <1>1, FS_Subset, FS_CardinalityType
<1>3. PICK k \in N : \A j \in N : k <= j
    BY <1>2, LeastNatural
<1>4. PICK s \in SUBSET T : Cardinality(s) = k /\ g[s] # h[s]
    BY <1>3
<1> DEFINE c == CHOOSE x \in s : TRUE
<1>5. g[s] = IF s = {} THEN 0 ELSE f[c] + g[s \ {c}]
    BY DEF IsSum
<1>6. h[s] = IF s = {} THEN 0 ELSE e[c] + h[s \ {c}]
    BY DEF IsSum
<1>7. s # {} /\ c \in s
    BY <1>4, <1>5, <1>6
<1> HIDE DEF c
<1>8. g[s \ {c}] # h[s \ {c}]
    BY <1>4, <1>5, <1>6, <1>7
<1>9. k \in Nat \ {0} /\ Cardinality(s \ {c}) = k - 1 /\ s \ {c} \in SUBSET T
    BY <1>4, <1>7, Fewer
<1>10. k - 1 \in N
    BY <1>8, <1>9
<1>11. k <= k - 1
    BY <1>3, <1>10
<1> QED BY <1>9, <1>11

LEMMA SumIsInt ==
    ASSUME NEW S, IsFiniteSet(S), NEW f, \A x \in S : f[x] \in Int, NEW g, IsSum(g, f, S)
    PROVE  \A s \in SUBSET S : g[s] \in Int
<1> DEFINE N == {k \in Nat : \E s \in SUBSET S : Cardinality(s) = k /\ g[s] \notin Int}
<1>1. SUFFICES ASSUME NEW t \in SUBSET S, g[t] \notin Int PROVE FALSE
    OBVIOUS
<1>2. IsFiniteSet(t) /\ Cardinality(t) \in N
    BY <1>1, FS_Subset, FS_CardinalityType
<1>3. PICK k \in N : \A j \in N : k <= j
    BY <1>2, LeastNatural
<1>4. PICK s \in SUBSET S : Cardinality(s) = k /\ g[s] \notin Int
    BY <1>3
<1> DEFINE c == CHOOSE x \in s : TRUE
<1>5. g[s] = IF s = {} THEN 0 ELSE f[c] + g[s \ {c}]
    BY DEF IsSum
<1>7. s # {} /\ c \in s
    BY <1>4, <1>5
<1> HIDE DEF c
<1>8. g[s \ {c}] \notin Int
    BY <1>4, <1>5, <1>7
<1>9. k \in Nat \ {0} /\ Cardinality(s \ {c}) = k - 1 /\ s \ {c} \in SUBSET S
    BY <1>4, <1>7, Fewer
<1>10. k - 1 \in N
    BY <1>8, <1>9
<1>11. k <= k - 1
    BY <1>3, <1>10
<1> QED BY <1>9, <1>11

AnyFirst(g, f, S) == \A s \in SUBSET S : \A a \in s : g[s] = f[a] + g[s \ {a}]

\* any element may be taken out first
LEMMA SumAnyOrder ==
    ASSUME NEW S, IsFiniteSet(S), NEW f, \A x \in S : f[x] \in Int, NEW g, IsSum(g, f, S)
    PROVE  AnyFirst(g, f, S)
<1> DEFINE N == {k \in Nat : \E s \in SUBSET S : \E a \in s :
                                 Cardinality(s) = k /\ g[s] # f[a] + g[s \ {a}]}
<1>1. SUFFICES ASSUME NEW t \in SUBSET S, NEW b \in t, g[t] # f[b] + g[t \ {b}] PROVE FALSE
    BY DEF AnyFirst
<1>2. IsFiniteSet(t) /\ Cardinality(t) \in N
    BY <1>1, FS_Subset, FS_CardinalityType
<1>3. PICK k \in N : \A j \in N : k <= j
    BY <1>2, LeastNatural
<1>4. PICK s \in SUBSET S : \E a \in s : Cardinality(s) = k /\ g[s] # f[a] + g[s \ {a}]
    BY <1>3
<1>a. PICK a \in s : Cardinality(s) = k /\ g[s] # f[a] + g[s \ {a}]
    BY <1>4
<1> DEFINE c == CHOOSE x \in s : TRUE
<1>5. g[s] = f[c] + g[s \ {c}]
    BY DEF IsSum
<1>6. c \in s /\ c # a
    BY <1>a, <1>5
<1> HIDE DEF c
<1>7. k \in Nat \ {0} /\ Cardinality(s \ {c}) = k - 1 /\ Cardinality(s \ {a}) = k - 1
      /\ s \ {c} \in SUBSET S /\ s \ {a} \in SUBSET S
    BY <1>a, <1>6, Fewer
<1>8. k - 1 \notin N
    <2>1. k - 1 \in N => k <= k - 1
        BY <1>3
    <2>2. ~(k <= k - 1)
        BY <1>7
    <2> QED BY <2>1, <2>2
<1>b. \A u \in SUBSET S : Cardinality(u) = k - 1 => \A x \in u : g[u] = f[x] + g[u \ {x}]
    <2>1. SUFFICES ASSUME NEW u \in SUBSET S, Cardinality(u) = k - 1,
                          NEW x \in u, g[u] # f[x] + g[u \ {x}]
                   PROVE  FALSE
        OBVIOUS
    <2>2. k - 1 \in Nat
        BY <1>7
    <2>3. \E v \in SUBSET S : \E y \in v : Cardinality(v) = k - 1 /\ g[v] # f[y] + g[v \ {y}]
        BY <2>1
    <2> QED BY <2>2, <2>3, <1>8
<1> HIDE DEF N
<1> DEFINE rest == (s \ {c}) \ {a}
<1>9. a \in s \ {c} /\ c \in s \ {a} /\ rest = (s \ {a}) \ {c} /\ rest \in SUBSET S
    BY <1>6
<1> HIDE DEF rest
<1>10. g[s \ {c}] = f[a] + g[rest]
    BY <1>7, <1>b, <1>9 DEF rest
<1>11. g[s \ {a}] = f[c] + g[rest]
    BY <1>7, <1>b, <1>9
<1>12. f[a] \in Int /\ f[c] \in Int /\ g[rest] \in Int
    BY <1>6, <1>9, SumIsInt
<1>13. f[c] + (f[a] + g[rest]) = f[a] + (f[c] + g[rest])
    BY <1>12
<1> QED BY <1>a, <1>5, <1>10, <1>11, <1>13

\* The sum over a set with one more element.
LEMMA SumAdd ==
    ASSUME NEW S, IsFiniteSet(S), NEW f, NEW a, \A x \in S \cup {a} : f[x] \in Int, a \notin S
    PROVE  /\ SumFunctionOnSet(f, S) \in Int
           /\ SumFunctionOnSet(f, S \cup {a}) = f[a] + SumFunctionOnSet(f, S)
<1> DEFINE T == S \cup {a}
<1>1. IsFiniteSet(T) /\ S \subseteq T /\ T \ {a} = S /\ a \in T
    BY FS_AddElement
<1> HIDE DEF T
<1>2. PICK g : IsSum(g, f, S) /\ SumFunctionOnSet(f, S) = g[S]
    BY SumExists, SumDefined
<1>3. PICK h : IsSum(h, f, T) /\ SumFunctionOnSet(f, T) = h[T]
    BY <1>1, SumExists, SumDefined
<1>4. h[S] = g[S]
    BY <1>1, <1>2, <1>3, SumsAgree
<1>5. h[T] = f[a] + h[T \ {a}]
    <2>1. \A x \in T : f[x] \in Int
        BY DEF T
    <2>2. AnyFirst(h, f, T)
        BY <1>1, <1>3, <2>1, SumAnyOrder
    <2>3. T \in SUBSET T
        OBVIOUS
    <2> QED BY <1>1, <2>2, <2>3 DEF AnyFirst
<1>6. g[S] \in Int
    BY <1>2, SumIsInt
<1> QED BY <1>1, <1>2, <1>3, <1>4, <1>5, <1>6 DEF T

\* A sum of integers is an integer, and an element may be taken out of it.
LEMMA SumTake ==
    ASSUME NEW S, IsFiniteSet(S), NEW f, \A x \in S : f[x] \in Int
    PROVE  /\ SumFunctionOnSet(f, S) \in Int
           /\ \A a \in S : SumFunctionOnSet(f, S) = f[a] + SumFunctionOnSet(f, S \ {a})
<1>1. PICK g : IsSum(g, f, S) /\ SumFunctionOnSet(f, S) = g[S]
    BY SumExists, SumDefined
<1>2. SumFunctionOnSet(f, S) \in Int
    BY <1>1, SumIsInt
<1>3. ASSUME NEW a \in S
      PROVE  SumFunctionOnSet(f, S) = f[a] + SumFunctionOnSet(f, S \ {a})
    <2> DEFINE R == S \ {a}
    <2>1. IsFiniteSet(R) /\ R \cup {a} = S /\ a \notin R
        BY FS_Subset
    <2> HIDE DEF R
    <2>2. SumFunctionOnSet(f, R \cup {a}) = f[a] + SumFunctionOnSet(f, R)
        BY <2>1, SumAdd
    <2> QED BY <2>1, <2>2 DEF R
<1> QED BY <1>2, <1>3

\* The sum depends on the values in the set.
LEMMA SumSame ==
    ASSUME NEW S, IsFiniteSet(S), NEW f, NEW e, \A x \in S : f[x] = e[x]
    PROVE  SumFunctionOnSet(f, S) = SumFunctionOnSet(e, S)
<1>1. PICK g : IsSum(g, f, S) /\ SumFunctionOnSet(f, S) = g[S]
    BY SumExists, SumDefined
<1>2. PICK h : IsSum(h, e, S) /\ SumFunctionOnSet(e, S) = h[S]
    BY SumExists, SumDefined
<1>3. g[S] = h[S]
    BY <1>1, <1>2, SumsAgree
<1> QED BY <1>1, <1>2, <1>3

LEMMA SumEmpty == ASSUME NEW f PROVE SumFunctionOnSet(f, {}) = 0
<1>1. IsFiniteSet({})
    BY FS_EmptySet
<1>2. PICK g : IsSum(g, f, {}) /\ SumFunctionOnSet(f, {}) = g[{}]
    BY <1>1, SumExists, SumDefined
<1> QED BY <1>2 DEF IsSum

-----------------------------------------------------------------------------
(* Constants and types *)

LEMMA ProcsKnown ==
    /\ Requests \cap Undos = {} /\ Requests # {}
    /\ \A r \in Requests : r \in Procs
    /\ \A x \in Undos : x \in Procs /\ x \notin Requests
    /\ \A q \in Procs : q \notin Requests => q \in Undos
<1>1. NRequests \in Nat \ {0} /\ NUndos \in Nat
    BY CheckoutAssumption
<1>2. 1 \in Requests
    BY <1>1 DEF Requests
<1>3. \A x \in Undos : x \notin Requests
    BY <1>1 DEF Requests, Undos
<1> QED BY <1>2, <1>3 DEF Procs

LEMMA CartKnown ==
    /\ \A c \in Customers : /\ Wanted[c] \subseteq Rows /\ Wanted[c] # {}
                            /\ \A p \in Wanted[c] : Items[c][ShopOf[p]] # {}
    /\ \A c \in Customers, s \in Shops : Items[c][s] = {p \in Wanted[c] : ShopOf[p] = s}
    /\ \A p \in Rows : ShopOf[p] \in Shops /\ ShopOf[p] \in Nat
<1>1. \A p \in Rows : ShopOf[p] \in Shops /\ ShopOf[p] \in Nat
    BY CheckoutAssumption DEF Shops, Range, Rows
<1>2. ASSUME NEW c \in Customers
      PROVE  Wanted[c] = Range(Cart[c]) /\ Wanted[c] \subseteq Rows /\ Wanted[c] # {}
    <2>1. Cart[c] \in Seq(Rows) /\ Cart[c] # <<>>
        BY CheckoutAssumption
    <2>2. Cart[c][1] \in Range(Cart[c]) /\ Range(Cart[c]) \subseteq Rows
        BY <2>1 DEF Range
    <2> QED BY <2>2 DEF Wanted
<1>3. \A c \in Customers, s \in Shops : Items[c][s] = {p \in Wanted[c] : ShopOf[p] = s}
    BY <1>2 DEF Items
<1>4. \A c \in Customers : \A p \in Wanted[c] : p \in Items[c][ShopOf[p]]
    BY <1>1, <1>2, <1>3
<1> QED BY <1>1, <1>2, <1>3, <1>4

LEMMA OrdersAre ==
    /\ IsFiniteSet(Orders) /\ Orders # {}
    /\ \A o \in Orders : o[1] \in Requests /\ o[2] \in Shops /\ o = <<o[1], o[2]>>
    /\ \A r \in Requests, s \in Shops : <<r, s>> \in Orders
<1>1. IsFiniteSet(Requests)
    BY CheckoutAssumption, FS_Interval DEF Requests
<1>2. IsFiniteSet(Shops)
    <2>1. ShopOf \in Surjection(Rows, Shops) /\ IsFiniteSet(Rows)
        BY CheckoutAssumption DEF Surjection, Shops, Range, Rows
    <2> QED BY <2>1, FS_Surjection
<1>3. IsFiniteSet(Requests \X Shops)
    BY <1>1, <1>2, FS_Product
<1>4. Shops # {}
    <2>1. PICK c \in Customers : TRUE
        BY CheckoutAssumption
    <2> QED BY <2>1, CartKnown
<1>5. Requests \X Shops # {}
    <2>1. PICK r \in Requests : TRUE
        BY ProcsKnown
    <2>2. PICK s \in Shops : TRUE
        BY <1>4
    <2>3. <<r, s>> \in Requests \X Shops
        BY <2>1, <2>2
    <2> QED BY <2>3
<1> QED BY <1>3, <1>5 DEF Orders

LEMMA ReqKnown ==
    ASSUME TypeOK, NEW r \in Requests
    PROVE  /\ req[r] \in [pc : {"new", "valid", "locking", "placed", "done"},
                           who : Customers, got : SUBSET Rows, seen : [Rows -> Nat]]
           /\ req[r].pc \in {"new", "valid", "locking", "placed", "done"}
           /\ req[r].who \in Customers /\ req[r].got \subseteq Rows
           /\ req[r].seen \in [Rows -> Nat] /\ Nothing \in [Rows -> Nat]
BY DEF TypeOK, Nothing

LEMMA UndoKnown ==
    ASSUME TypeOK, NEW x \in Undos
    PROVE  /\ undo[x] \in [pc : {"idle", "restoring", "closing", "done"},
                            kind : {"cancel", "job"}, order : Orders, got : SUBSET Rows]
           /\ undo[x].pc \in {"idle", "restoring", "closing", "done"}
           /\ undo[x].kind \in {"cancel", "job"} /\ undo[x].order \in Orders
           /\ undo[x].got \subseteq Rows
BY DEF TypeOK

LEMMA OrderKnown ==
    ASSUME TypeOK, NEW o \in Orders
    PROVE  /\ order[o] \in [status : {"NONE", "WAITING_VENDOR_CONFIRMATION", "CONFIRMED",
                                      "CANCELLED", "AUTO_REJECTED"}, restored : Nat]
           /\ order[o].status \in {"NONE", "WAITING_VENDOR_CONFIRMATION", "CONFIRMED",
                                   "CANCELLED", "AUTO_REJECTED"}
           /\ order[o].restored \in Nat
BY DEF TypeOK

-----------------------------------------------------------------------------
(* Locks *)

\* The parts of the invariant that are about locks.
Locks == LocksExclusive /\ LocksKnown /\ SeenIsCurrent /\ ShopsInOrder

\* A process has no locks after a step, or those it had, for what it had them for.
LetsGo(q) == Holds(q)' = {}
Keeps(q) == Holds(q)' = Holds(q) /\ Plan(q)' = Plan(q) /\ (Locking(q)' => Locking(q))

\* A step that takes no lock keeps the locks' invariant.
LEMMA NoLockTaken ==
    ASSUME Locks,
           \A q \in Procs : LetsGo(q) \/ Keeps(q),
           \A r \in Requests : req'[r].pc # "locking" => req'[r].got = {},
           \A x \in Undos : undo'[x].pc # "restoring" => undo'[x].got = {},
           \A r \in Requests : \A p \in req'[r].got :
               req'[r].seen[p] = req[r].seen[p] /\ stock'[p] = stock[p]
    PROVE  Locks'
<1>1. LocksExclusive'
    BY DEF Locks, LocksExclusive, LetsGo, Keeps
<1>2. LocksKnown'
    <2>1. \A q \in Procs : Holds(q)' \subseteq Plan(q)'
        BY DEF Locks, LocksKnown, LetsGo, Keeps
    <2> QED BY <2>1 DEF LocksKnown
<1>3. SeenIsCurrent'
    <2>1. ASSUME NEW r \in Requests, NEW p \in Holds(r)'
          PROVE  req'[r].seen[p] = stock'[p]
        <3>1. r \in Procs /\ p \in req'[r].got
            BY <2>1, ProcsKnown DEF Holds
        <3>2. Keeps(r)
            BY <3>1, <2>1 DEF LetsGo
        <3>3. req[r].seen[p] = stock[p]
            BY <2>1, <3>2 DEF Locks, SeenIsCurrent, Keeps
        <3> QED BY <3>1, <3>3
    <2> QED BY <2>1 DEF SeenIsCurrent
<1>4. ShopsInOrder'
    <2>1. ASSUME NEW q \in Procs, NEW p \in Holds(q)', NEW n \in Rest(q)', Locking(q)'
          PROVE  ShopOf[p] <= ShopOf[n]
        <3>1. Keeps(q)
            BY <2>1 DEF LetsGo
        <3>2. p \in Holds(q) /\ n \in Rest(q) /\ Locking(q)
            BY <2>1, <3>1 DEF Keeps, Rest
        <3> QED BY <3>2 DEF Locks, ShopsInOrder
    <2> QED BY <2>1 DEF ShopsInOrder
<1> QED BY <1>1, <1>2, <1>3, <1>4 DEF Locks

\* What Goto does.
LEMMA GotoDoes ==
    ASSUME TypeOK, NEW r \in Requests, NEW pc \in {"new", "valid", "locking", "placed", "done"},
           Goto(r, pc)
    PROVE  /\ req' \in [Requests -> [pc : {"new", "valid", "locking", "placed", "done"},
                                      who : Customers, got : SUBSET Rows, seen : [Rows -> Nat]]]
           /\ req'[r].pc = pc /\ req'[r].got = {} /\ req'[r].who = req[r].who
           /\ \A s \in Requests : /\ req'[s].who = req[s].who
                                  /\ s # r => req'[s] = req[s]
<1> DEFINE new == [req[r] EXCEPT !.pc = pc, !.got = {}, !.seen = Nothing]
<1>1. req' = [req EXCEPT ![r] = new]
    BY DEF Goto, TypeOK
<1>2. /\ new \in [pc : {"new", "valid", "locking", "placed", "done"},
                   who : Customers, got : SUBSET Rows, seen : [Rows -> Nat]]
      /\ new.pc = pc /\ new.got = {} /\ new.who = req[r].who
    BY ReqKnown
<1> HIDE DEF new
<1> QED BY <1>1, <1>2 DEF TypeOK

\* A request that goes somewhere has let go of its locks, and nobody else has.
LEMMA GotoLetsGo ==
    ASSUME TypeOK, Locks, NEW r \in Requests,
           NEW pc \in {"new", "valid", "locking", "placed", "done"},
           Goto(r, pc), undo' = undo,
           \A s \in Requests \ {r} : \A p \in req[s].got : stock'[p] = stock[p]
    PROVE  Locks'
<1>1. LetsGo(r)
    BY GotoDoes DEF LetsGo, Holds
<1>2. ASSUME NEW q \in Procs, q # r
      PROVE  Keeps(q)
    <2>1. CASE q \in Requests
        BY <1>2, <2>1, GotoDoes DEF Keeps, Holds, Plan, Buyer, Locking
    <2>2. CASE q \in Undos
        <3>1. undo[q].order[1] \in Requests /\ q \notin Requests
            BY <2>2, UndoKnown, OrdersAre, ProcsKnown
        <3> QED BY <3>1, GotoDoes DEF Keeps, Holds, Plan, Buyer, Locking
    <2> QED BY <2>1, <2>2 DEF Procs
<1>3. \A q \in Procs : LetsGo(q) \/ Keeps(q)
    BY <1>1, <1>2
<1>4. \A s \in Requests : req'[s].pc # "locking" => req'[s].got = {}
    BY GotoDoes DEF Locks, LocksKnown
<1>5. \A x \in Undos : undo'[x].pc # "restoring" => undo'[x].got = {}
    BY DEF Locks, LocksKnown
<1>6. ASSUME NEW s \in Requests, NEW p \in req'[s].got
      PROVE  req'[s].seen[p] = req[s].seen[p] /\ stock'[p] = stock[p]
    <2>1. s # r /\ req'[s] = req[s]
        BY <1>6, GotoDoes
    <2> QED BY <1>6, <2>1
<1> QED BY <1>3, <1>4, <1>5, <1>6, NoLockTaken

\* A cancellation or job that is somewhere without locks has let go of them.
LEMMA UndoLetsGo ==
    ASSUME TypeOK, Locks, NEW x \in Undos, NEW u, u.got = {},
           undo' = [undo EXCEPT ![x] = u], req' = req,
           \A s \in Requests : \A p \in req[s].got : stock'[p] = stock[p]
    PROVE  Locks'
<1>0. undo'[x] = u /\ \A y \in Undos \ {x} : undo'[y] = undo[y]
    BY DEF TypeOK
<1>1. LetsGo(x)
    BY <1>0, ProcsKnown DEF LetsGo, Holds
<1>2. ASSUME NEW q \in Procs, q # x
      PROVE  Keeps(q)
    <2>1. CASE q \in Requests
        BY <2>1 DEF Keeps, Holds, Plan, Buyer, Locking
    <2>2. CASE q \in Undos
        BY <1>0, <1>2, <2>2, ProcsKnown DEF Keeps, Holds, Plan, Buyer, Locking
    <2> QED BY <2>1, <2>2 DEF Procs
<1>3. \A q \in Procs : LetsGo(q) \/ Keeps(q)
    BY <1>1, <1>2
<1>4. \A s \in Requests : req'[s].pc # "locking" => req'[s].got = {}
    BY DEF Locks, LocksKnown
<1>5. \A y \in Undos : undo'[y].pc # "restoring" => undo'[y].got = {}
    BY <1>0 DEF Locks, LocksKnown
<1>6. \A s \in Requests : \A p \in req'[s].got :
          req'[s].seen[p] = req[s].seen[p] /\ stock'[p] = stock[p]
    OBVIOUS
<1> QED BY <1>3, <1>4, <1>5, <1>6, NoLockTaken

\* The row a transaction wants is left to lock, and of no later shop than the others.
LEMMA WantsFirst ==
    ASSUME TypeOK, NEW q \in Procs, NEW p \in Wants(q)
    PROVE  /\ Locking(q) /\ p \in Rest(q)
           /\ \A n \in Rest(q) : ShopOf[p] <= ShopOf[n]
<1>1. Locking(q) /\ p \in First(Buyer(q), Rest(q))
    BY DEF Wants
<1>2. Buyer(q) \in Customers
    BY ProcsKnown, ReqKnown, UndoKnown, OrdersAre DEF Buyer
<1>3. Rest(q) \subseteq Rows
    <2>1. Plan(q) \subseteq Rows
        <3>1. CASE q \in Requests
            BY <1>2, <3>1, CartKnown DEF Plan
        <3>2. CASE q \notin Requests
            <4>1. undo[q].order[2] \in Shops
                BY <3>2, ProcsKnown, UndoKnown, OrdersAre
            <4> QED BY <1>2, <3>2, <4>1, CartKnown DEF Plan
        <3> QED BY <3>1, <3>2
    <2> QED BY <2>1 DEF Rest
<1>4. p \in Rest(q) /\ \A n \in Rest(q) \ {p} : <<Buyer(q), p, n>> \in LockOrder
    BY <1>1 DEF First
<1>5. ASSUME NEW n \in Rest(q), n # p
      PROVE  ShopOf[p] <= ShopOf[n]
    <2>1. ShopOf[p] < ShopOf[n] \/ ShopOf[p] = ShopOf[n]
        BY <1>4, <1>5 DEF LockOrder
    <2>2. ShopOf[p] \in Nat /\ ShopOf[n] \in Nat
        BY <1>3, <1>4, CartKnown
    <2> QED BY <2>1, <2>2
<1>6. ShopOf[p] <= ShopOf[p]
    BY <1>3, <1>4, CartKnown
<1> QED BY <1>1, <1>4, <1>5, <1>6

\* A step that takes the one free row its transaction wants keeps the locks' invariant.
LEMMA LockTaken ==
    ASSUME TypeOK, Locks, NEW q \in Procs, NEW p \in Wants(q), Free(p),
           Holds(q)' = Holds(q) \cup {p}, Plan(q)' = Plan(q),
           \A h \in Procs \ {q} : Keeps(h),
           LocksKnown /\ (\A h \in Procs : Holds(h)' \subseteq Plan(h)') => LocksKnown',
           SeenIsCurrent'
    PROVE  Locks'
<1>1. Locking(q) /\ p \in Rest(q) /\ \A n \in Rest(q) : ShopOf[p] <= ShopOf[n]
    BY WantsFirst
<1>2. LocksExclusive'
    BY DEF Locks, LocksExclusive, Keeps, Free
<1>3. LocksKnown'
    <2>1. Holds(q)' \subseteq Plan(q)'
        BY <1>1 DEF Rest, Locks, LocksKnown
    <2>2. \A h \in Procs \ {q} : Holds(h)' \subseteq Plan(h)'
        BY DEF Keeps, Locks, LocksKnown
    <2> QED BY <2>1, <2>2 DEF Locks
<1>4. ShopsInOrder'
    <2>1. ASSUME NEW m \in Holds(q)', NEW n \in Rest(q)'
          PROVE  ShopOf[m] <= ShopOf[n]
        <3>1. n \in Rest(q)
            BY <2>1 DEF Rest
        <3>2. m = p \/ m \in Holds(q)
            BY <2>1
        <3> QED BY <1>1, <3>1, <3>2 DEF Locks, ShopsInOrder
    <2>2. ASSUME NEW h \in Procs, h # q, NEW m \in Holds(h)', NEW n \in Rest(h)', Locking(h)'
          PROVE  ShopOf[m] <= ShopOf[n]
        <3>1. m \in Holds(h) /\ n \in Rest(h) /\ Locking(h)
            BY <2>2 DEF Keeps, Rest
        <3> QED BY <3>1 DEF Locks, ShopsInOrder
    <2> QED BY <2>1, <2>2 DEF ShopsInOrder
<1> QED BY <1>2, <1>3, <1>4 DEF Locks

\* A checkout locks a row.
LEMMA LockRowLocks ==
    ASSUME TypeOK, Locks, NEW r \in Requests, LockRow(r)
    PROVE  /\ Locks'
           /\ req' \in [Requests -> [pc : {"new", "valid", "locking", "placed", "done"},
                                      who : Customers, got : SUBSET Rows, seen : [Rows -> Nat]]]
           /\ \A s \in Requests : req'[s].pc = req[s].pc /\ req'[s].who = req[s].who
<1>1. PICK p \in Wants(r) : Free(p) /\ SeeRow(r, p)
    BY DEF LockRow
<1>2. stock' = stock /\ undo' = undo /\ r \in Procs
    BY ProcsKnown DEF LockRow
<1> DEFINE new == [req[r] EXCEPT !.got = Holds(r) \cup {p}, !.seen[p] = stock[p]]
<1>3. req' = [req EXCEPT ![r] = new]
    BY <1>1 DEF SeeRow
<1>4. req[r].pc = "locking" /\ p \in Wanted[req[r].who] /\ p \in Rows
    <2>1. Locking(r) /\ p \in Rest(r)
        BY <1>1, <1>2, WantsFirst
    <2> QED BY <2>1, ReqKnown, CartKnown DEF Locking, Rest, Plan, Buyer
<1>5. stock[p] \in Nat
    BY <1>4 DEF TypeOK
<1>6. /\ new \in [pc : {"new", "valid", "locking", "placed", "done"},
                   who : Customers, got : SUBSET Rows, seen : [Rows -> Nat]]
      /\ new.pc = req[r].pc /\ new.who = req[r].who /\ new.got = req[r].got \cup {p}
      /\ new.seen[p] = stock[p] /\ \A n \in Rows \ {p} : new.seen[n] = req[r].seen[n]
    BY <1>4, <1>5, ReqKnown DEF Holds
<1> HIDE DEF new
<1>7. req'[r] = new /\ \A s \in Requests \ {r} : req'[s] = req[s]
    BY <1>3 DEF TypeOK
<1>8. \A s \in Requests : req'[s].pc = req[s].pc /\ req'[s].who = req[s].who
    BY <1>6, <1>7
<1>9. Holds(r)' = Holds(r) \cup {p} /\ Plan(r)' = Plan(r)
    BY <1>6, <1>7 DEF Holds, Plan, Buyer
<1>10. ASSUME NEW h \in Procs, h # r
       PROVE  Keeps(h)
    <2>1. CASE h \in Requests
        BY <1>7, <1>10, <2>1 DEF Keeps, Holds, Plan, Buyer, Locking
    <2>2. CASE h \in Undos
        <3>1. undo[h].order[1] \in Requests /\ h \notin Requests
            BY <2>2, UndoKnown, OrdersAre, ProcsKnown
        <3> QED BY <1>2, <1>8, <3>1 DEF Keeps, Holds, Plan, Buyer, Locking
    <2> QED BY <2>1, <2>2 DEF Procs
<1>11. LocksKnown /\ (\A h \in Procs : Holds(h)' \subseteq Plan(h)') => LocksKnown'
    BY <1>2, <1>4, <1>6, <1>7 DEF LocksKnown
<1>12. SeenIsCurrent'
    <2>1. ASSUME NEW s \in Requests, NEW n \in Holds(s)'
          PROVE  req'[s].seen[n] = stock'[n]
        <3>1. CASE s = r
            <4>1. n = p \/ (n \in req[r].got /\ n # p)
                BY <1>9, <2>1, <3>1 DEF Holds
            <4>2. n \in req[r].got => n \in Rows /\ req[r].seen[n] = stock[n]
                BY ReqKnown DEF Locks, SeenIsCurrent, Holds
            <4> QED BY <1>2, <1>6, <1>7, <3>1, <4>1, <4>2
        <3>2. CASE s # r
            <4>1. req'[s] = req[s] /\ n \in req[s].got
                BY <1>7, <2>1, <3>2 DEF Holds
            <4> QED BY <1>2, <4>1 DEF Locks, SeenIsCurrent, Holds
        <3> QED BY <3>1, <3>2
    <2> QED BY <2>1 DEF SeenIsCurrent
<1>13. Locks'
    BY <1>1, <1>2, <1>9, <1>10, <1>11, <1>12, LockTaken
<1>14. req' \in [Requests -> [pc : {"new", "valid", "locking", "placed", "done"},
                             who : Customers, got : SUBSET Rows, seen : [Rows -> Nat]]]
    BY <1>3, <1>6 DEF TypeOK
<1> QED BY <1>8, <1>13, <1>14

\* A cancellation or a job locks a row.
LEMMA RestoreRowLocks ==
    ASSUME TypeOK, Locks, NEW x \in Undos, RestoreRow(x)
    PROVE  /\ Locks'
           /\ undo' \in [Undos -> [pc : {"idle", "restoring", "closing", "done"},
                                   kind : {"cancel", "job"}, order : Orders, got : SUBSET Rows]]
           /\ \A y \in Undos : undo'[y].pc = undo[y].pc /\ undo'[y].order = undo[y].order
<1>1. PICK p \in Wants(x) : Free(p) /\ undo' = [undo EXCEPT ![x].got = @ \cup {p}]
    BY DEF RestoreRow
<1>2. stock' = stock /\ req' = req /\ x \in Procs /\ x \notin Requests
    BY ProcsKnown DEF RestoreRow
<1> DEFINE new == [undo[x] EXCEPT !.got = @ \cup {p}]
<1>3. undo' = [undo EXCEPT ![x] = new]
    BY <1>1 DEF TypeOK
<1>4. undo[x].pc = "restoring" /\ p \in Rows
    <2>1. Locking(x) /\ p \in Rest(x)
        BY <1>1, <1>2, WantsFirst
    <2>2. Buyer(x) \in Customers /\ undo[x].order[2] \in Shops
        BY <1>2, UndoKnown, OrdersAre, ReqKnown DEF Buyer
    <2>3. Plan(x) \subseteq Rows
        BY <1>2, <2>2, CartKnown DEF Plan
    <2> QED BY <1>2, <2>1, <2>3 DEF Locking, Rest
<1>5. /\ new \in [pc : {"idle", "restoring", "closing", "done"},
                   kind : {"cancel", "job"}, order : Orders, got : SUBSET Rows]
      /\ new.pc = undo[x].pc /\ new.order = undo[x].order /\ new.got = undo[x].got \cup {p}
    BY <1>4, UndoKnown
<1> HIDE DEF new
<1>6. undo'[x] = new /\ \A y \in Undos \ {x} : undo'[y] = undo[y]
    BY <1>3 DEF TypeOK
<1>7. \A y \in Undos : undo'[y].pc = undo[y].pc /\ undo'[y].order = undo[y].order
    BY <1>5, <1>6
<1>8. Holds(x)' = Holds(x) \cup {p} /\ Plan(x)' = Plan(x)
    BY <1>2, <1>5, <1>6 DEF Holds, Plan, Buyer
<1>9. ASSUME NEW h \in Procs, h # x
      PROVE  Keeps(h)
    <2>1. CASE h \in Requests
        BY <1>2, <2>1 DEF Keeps, Holds, Plan, Buyer, Locking
    <2>2. CASE h \in Undos
        BY <1>2, <1>6, <1>9, <2>2, ProcsKnown DEF Keeps, Holds, Plan, Buyer, Locking
    <2> QED BY <2>1, <2>2 DEF Procs
<1>10. LocksKnown /\ (\A h \in Procs : Holds(h)' \subseteq Plan(h)') => LocksKnown'
    BY <1>2, <1>4, <1>5, <1>6 DEF LocksKnown
<1>11. SeenIsCurrent'
    BY <1>2 DEF Locks, SeenIsCurrent, Holds
<1>12. Locks'
    BY <1>1, <1>2, <1>8, <1>9, <1>10, <1>11, LockTaken
<1>13. undo' \in [Undos -> [pc : {"idle", "restoring", "closing", "done"},
                            kind : {"cancel", "job"}, order : Orders, got : SUBSET Rows]]
    BY <1>3, <1>5 DEF TypeOK
<1> QED BY <1>7, <1>12, <1>13

-----------------------------------------------------------------------------
(* Orders and stock *)

\* The parts of the invariant that are about orders and stock.
Sales == OrdersKnown /\ StockConserved /\ AutoRejectedRestored

\* What an order adds to the stock of its rows, and all of a row's orders do.
Weight == [o \in Orders |-> order[o].restored - 1]
Balance(p) == SumFunctionOnSet(Weight, OrdersOf(p))

LEMMA OrdersOfKnown ==
    ASSUME TypeOK, NEW p
    PROVE  /\ OrdersOf(p) \subseteq Orders /\ IsFiniteSet(OrdersOf(p))
           /\ \A o \in Orders : Weight[o] = order[o].restored - 1 /\ Weight[o] \in Int
           /\ Balance(p) \in Int
<1>1. OrdersOf(p) \subseteq Orders
    BY DEF OrdersOf
<1>2. IsFiniteSet(OrdersOf(p))
    BY <1>1, OrdersAre, FS_Subset
<1>3. \A o \in Orders : Weight[o] = order[o].restored - 1 /\ Weight[o] \in Int
    BY OrderKnown DEF Weight
<1>4. Balance(p) \in Int
    BY <1>1, <1>2, <1>3, SumTake DEF Balance
<1> QED BY <1>1, <1>2, <1>3, <1>4

LEMMA StockIs == StockConserved <=> \A p \in Rows : stock[p] = supplied[p] + Balance(p)
BY DEF StockConserved, Balance, Weight

LEMMA StockWillBe ==
    StockConserved' <=> \A p \in Rows : stock'[p] = supplied'[p] + Balance(p)'
BY DEF StockConserved, Balance, Weight

\* A status that is written over another, and everything else, moves no stock.
LEMMA BalanceKept ==
    ASSUME TypeOK, OrdersKnown,
           \A o \in Orders : /\ order'[o].status = "NONE" <=> order[o].status = "NONE"
                             /\ order'[o].restored = order[o].restored,
           \A r \in Requests : req[r].pc \in {"placed", "done"} => req'[r].who = req[r].who,
           NEW p
    PROVE  Balance(p)' = Balance(p)
<1>1. Weight' = Weight
    BY DEF Weight
<1>2. OrdersOf(p)' = OrdersOf(p)
    <2>1. ASSUME NEW o \in Orders, order[o].status # "NONE"
          PROVE  req'[o[1]].who = req[o[1]].who
        BY <2>1, OrdersAre DEF OrdersKnown
    <2> QED BY <2>1 DEF OrdersOf
<1> QED BY <1>1, <1>2 DEF Balance

\* A step that leaves orders and stock alone.
LEMMA SalesKept ==
    ASSUME TypeOK, Sales, order' = order, stock' = stock, supplied' = supplied,
           \A r \in Requests : req[r].pc \in {"placed", "done"} =>
               req'[r].pc \in {"placed", "done"} /\ req'[r].who = req[r].who,
           \A x \in Undos : undo'[x].pc \in {"restoring", "closing"} =>
               order[undo'[x].order].status # "NONE"
    PROVE  Sales'
<1>1. OrdersKnown'
    BY OrdersAre DEF Sales, OrdersKnown
<1>2. \A p \in Rows : Balance(p)' = Balance(p)
    BY BalanceKept DEF Sales
<1>3. StockConserved'
    BY <1>2, StockIs, StockWillBe DEF Sales
<1>4. AutoRejectedRestored'
    BY DEF Sales, AutoRejectedRestored
<1> QED BY <1>1, <1>3, <1>4 DEF Sales

\* A step that closes an order, or has its status written over.
LEMMA StatusWritten ==
    ASSUME TypeOK, Sales, NEW o \in Orders, order[o].status # "NONE",
           NEW status \in {"WAITING_VENDOR_CONFIRMATION", "CONFIRMED", "CANCELLED"},
           order' = [order EXCEPT ![o].status = status],
           req' = req, stock' = stock, supplied' = supplied,
           \A x \in Undos : undo'[x].pc \in {"restoring", "closing"} =>
               undo'[x].order \in Orders /\ order[undo'[x].order].status # "NONE"
    PROVE  /\ order' \in [Orders -> [status : {"NONE", "WAITING_VENDOR_CONFIRMATION",
                                              "CONFIRMED", "CANCELLED", "AUTO_REJECTED"},
                                    restored : Nat]]
           /\ Sales'
<1> DEFINE new == [order[o] EXCEPT !.status = status]
<1>1. order' = [order EXCEPT ![o] = new]
    BY DEF TypeOK
<1>2. /\ new \in [status : {"NONE", "WAITING_VENDOR_CONFIRMATION", "CONFIRMED",
                            "CANCELLED", "AUTO_REJECTED"}, restored : Nat]
      /\ new.status = status /\ new.restored = order[o].restored
    BY OrderKnown
<1> HIDE DEF new
<1>3. order'[o] = new /\ \A w \in Orders \ {o} : order'[w] = order[w]
    BY <1>1 DEF TypeOK
<1>4. \A w \in Orders : /\ order'[w].status = "NONE" <=> order[w].status = "NONE"
                        /\ order'[w].restored = order[w].restored
    BY <1>2, <1>3
<1>5. OrdersKnown'
    BY <1>4 DEF Sales, OrdersKnown
<1>6. \A p \in Rows : Balance(p)' = Balance(p)
    BY <1>4, BalanceKept DEF Sales
<1>7. StockConserved'
    BY <1>6, StockIs, StockWillBe DEF Sales
<1>8. AutoRejectedRestored'
    BY <1>2, <1>3 DEF Sales, AutoRejectedRestored
<1>9. order' \in [Orders -> [status : {"NONE", "WAITING_VENDOR_CONFIRMATION", "CONFIRMED",
                                      "CANCELLED", "AUTO_REJECTED"}, restored : Nat]]
    BY <1>1, <1>2 DEF TypeOK
<1> QED BY <1>5, <1>7, <1>8, <1>9 DEF Sales

-----------------------------------------------------------------------------
(* The steps *)

LEMMA InvariantIs == IInv <=> TypeOK /\ Locks /\ Sales
BY DEF IInv, Locks, Sales

\* No transaction moves, and no row one has locked changes.
LEMMA LocksStand ==
    ASSUME Locks, req' = req, undo' = undo,
           \A r \in Requests : \A p \in req[r].got : stock'[p] = stock[p]
    PROVE  Locks'
<1>1. \A q \in Procs : LetsGo(q) \/ Keeps(q)
    BY DEF Keeps, Holds, Plan, Buyer, Locking
<1>2. \A r \in Requests : req'[r].pc # "locking" => req'[r].got = {}
    BY DEF Locks, LocksKnown
<1>3. \A x \in Undos : undo'[x].pc # "restoring" => undo'[x].got = {}
    BY DEF Locks, LocksKnown
<1> QED BY <1>1, <1>2, <1>3, NoLockTaken

\* A request goes on, or ends, and orders and stock stay as they are.
LEMMA GotoStep ==
    ASSUME IInv, NEW r \in Requests, NEW pc \in {"locking", "done"}, Goto(r, pc),
           req[r].pc \in {"placed", "done"} => pc = "done",
           full' \subseteq Customers, timer' \subseteq Orders,
           UNCHANGED <<stock, order, undo, supplied, updates>>
    PROVE  IInv'
<1>1. TypeOK /\ Locks /\ Sales
    BY InvariantIs
<1>2. TypeOK'
    BY <1>1, GotoDoes DEF TypeOK
<1>3. Locks'
    BY <1>1, GotoLetsGo
<1>4. \A s \in Requests : req[s].pc \in {"placed", "done"} =>
          req'[s].pc \in {"placed", "done"} /\ req'[s].who = req[s].who
    BY <1>1, GotoDoes
<1>5. \A x \in Undos : undo'[x].pc \in {"restoring", "closing"} =>
          order[undo'[x].order].status # "NONE"
    BY <1>1 DEF Sales, OrdersKnown
<1>6. Sales'
    BY <1>1, <1>4, <1>5, SalesKept
<1> QED BY <1>2, <1>3, <1>6 DEF IInv, Locks, Sales

LEMMA BeginStep ==
    ASSUME IInv, NEW r \in Requests, Begin(r)
    PROVE  IInv'
<1>1. PICK pc \in {"locking", "done"} : Goto(r, pc)
    BY DEF Begin
<1> QED BY <1>1, GotoStep DEF Begin, IInv, TypeOK

LEMMA RefuseStep ==
    ASSUME IInv, NEW r \in Requests, Refuse(r)
    PROVE  IInv'
BY GotoStep DEF Refuse, IInv, TypeOK

LEMMA DieStep ==
    ASSUME IInv, NEW r \in Requests, Die(r)
    PROVE  IInv'
BY GotoStep DEF Die, IInv, TypeOK

LEMMA FinishStep ==
    ASSUME IInv, NEW r \in Requests, Finish(r)
    PROVE  IInv'
<1>1. full' \subseteq Customers /\ timer' \subseteq Orders
    BY DEF Finish, IInv, TypeOK
<1> QED BY <1>1, GotoStep DEF Finish

LEMMA ValidateStep ==
    ASSUME IInv, NEW r \in Requests, NEW c \in Customers, Validate(r, c)
    PROVE  IInv'
<1>1. TypeOK /\ Locks /\ Sales
    BY InvariantIs
<1> DEFINE new == [req[r] EXCEPT !.pc = "valid", !.who = c]
<1>2. req' = [req EXCEPT ![r] = new]
    BY <1>1 DEF Validate, TypeOK
<1>3. /\ new \in [pc : {"new", "valid", "locking", "placed", "done"},
                   who : Customers, got : SUBSET Rows, seen : [Rows -> Nat]]
      /\ new.pc = "valid" /\ new.got = req[r].got /\ new.seen = req[r].seen
    BY <1>1, ReqKnown
<1> HIDE DEF new
<1>4. req'[r] = new /\ \A s \in Requests \ {r} : req'[s] = req[s]
    BY <1>1, <1>2 DEF TypeOK
<1>5. /\ req[r].pc = "new" /\ req[r].got = {}
      /\ UNCHANGED <<full, stock, order, timer, undo, supplied, updates>>
    BY <1>1 DEF Validate, Locks, LocksKnown
<1>6. TypeOK'
    BY <1>1, <1>2, <1>3, <1>5 DEF TypeOK
<1>7. Locks'
    <2>1. ASSUME NEW q \in Procs
          PROVE  LetsGo(q) \/ Keeps(q)
        <3>1. CASE q = r
            BY <1>3, <1>4, <1>5, <3>1 DEF LetsGo, Holds
        <3>2. CASE q \in Requests \ {r}
            BY <1>4, <3>2 DEF Keeps, Holds, Plan, Buyer, Locking
        <3>3. CASE q \in Undos /\ undo[q].pc = "restoring"
            <4>1. q \notin Requests /\ undo[q].order \in Orders /\ undo[q].order[1] \in Requests
                BY <1>1, <3>3, UndoKnown, OrdersAre, ProcsKnown
            <4>2. undo[q].order[1] # r
                BY <1>1, <1>5, <3>3, <4>1 DEF Sales, OrdersKnown
            <4> QED BY <1>4, <1>5, <4>1, <4>2 DEF Keeps, Holds, Plan, Buyer, Locking
        <3>4. CASE q \in Undos /\ undo[q].pc # "restoring"
            BY <1>1, <1>5, <3>4, ProcsKnown DEF LetsGo, Holds, Locks, LocksKnown
        <3> QED BY <3>1, <3>2, <3>3, <3>4 DEF Procs
    <2>2. \A s \in Requests : req'[s].pc # "locking" => req'[s].got = {}
        BY <1>1, <1>3, <1>4, <1>5 DEF Locks, LocksKnown
    <2>3. \A x \in Undos : undo'[x].pc # "restoring" => undo'[x].got = {}
        BY <1>1, <1>5 DEF Locks, LocksKnown
    <2>4. \A s \in Requests : \A p \in req'[s].got :
              req'[s].seen[p] = req[s].seen[p] /\ stock'[p] = stock[p]
        BY <1>3, <1>4, <1>5
    <2> QED BY <1>1, <2>1, <2>2, <2>3, <2>4, NoLockTaken
<1>8. Sales'
    <2>1. \A s \in Requests : req[s].pc \in {"placed", "done"} =>
              req'[s].pc \in {"placed", "done"} /\ req'[s].who = req[s].who
        BY <1>4, <1>5
    <2>2. \A x \in Undos : undo'[x].pc \in {"restoring", "closing"} =>
              order[undo'[x].order].status # "NONE"
        BY <1>1, <1>5 DEF Sales, OrdersKnown
    <2> QED BY <1>1, <1>5, <2>1, <2>2, SalesKept
<1> QED BY <1>6, <1>7, <1>8 DEF IInv, Locks, Sales

LEMMA LockRowStep ==
    ASSUME IInv, NEW r \in Requests, LockRow(r)
    PROVE  IInv'
<1>1. TypeOK /\ Locks /\ Sales
    BY InvariantIs
<1>2. UNCHANGED <<full, stock, order, timer, undo, supplied, updates>>
    BY DEF LockRow
<1>3. TypeOK' /\ Locks'
    BY <1>1, <1>2, LockRowLocks DEF TypeOK
<1>4. \A s \in Requests : req'[s].pc = req[s].pc /\ req'[s].who = req[s].who
    BY <1>1, LockRowLocks
<1>5. \A x \in Undos : undo'[x].pc \in {"restoring", "closing"} =>
          order[undo'[x].order].status # "NONE"
    BY <1>1, <1>2 DEF Sales, OrdersKnown
<1>6. Sales'
    BY <1>1, <1>2, <1>4, <1>5, SalesKept
<1> QED BY <1>3, <1>6 DEF IInv, Locks, Sales

LEMMA RestoreRowStep ==
    ASSUME IInv, NEW x \in Undos, RestoreRow(x)
    PROVE  IInv'
<1>1. TypeOK /\ Locks /\ Sales
    BY InvariantIs
<1>2. UNCHANGED <<full, req, stock, order, timer, supplied, updates>>
    BY DEF RestoreRow
<1>3. TypeOK' /\ Locks'
    BY <1>1, <1>2, RestoreRowLocks DEF TypeOK
<1>4. \A y \in Undos : undo'[y].pc \in {"restoring", "closing"} =>
          order[undo'[y].order].status # "NONE"
    BY <1>1, RestoreRowLocks DEF Sales, OrdersKnown
<1>5. Sales'
    BY <1>1, <1>2, <1>4, SalesKept
<1> QED BY <1>3, <1>5 DEF IInv, Locks, Sales

LEMMA DoneKnown ==
    /\ Done \in [pc : {"idle", "restoring", "closing", "done"},
                 kind : {"cancel", "job"}, order : Orders, got : SUBSET Rows]
    /\ Done.pc = "done" /\ Done.got = {}
    /\ NoUndo \in [pc : {"idle", "restoring", "closing", "done"},
                   kind : {"cancel", "job"}, order : Orders, got : SUBSET Rows]
    /\ NoUndo.pc = "idle" /\ NoUndo.got = {}
<1>1. (CHOOSE o \in Orders : TRUE) \in Orders
    BY OrdersAre
<1> QED BY <1>1 DEF Done, NoUndo

\* A cancellation or job begins or ends, and orders and stock stay as they are.
LEMMA UndoMoves ==
    ASSUME IInv, NEW x \in Undos,
           NEW u \in [pc : {"idle", "restoring", "closing", "done"},
                      kind : {"cancel", "job"}, order : Orders, got : SUBSET Rows],
           u.got = {},
           u.pc \in {"restoring", "closing"} => order[u.order].status # "NONE",
           undo' = [undo EXCEPT ![x] = u], timer' \subseteq Orders,
           UNCHANGED <<full, req, stock, order, supplied, updates>>
    PROVE  IInv'
<1>1. TypeOK /\ Locks /\ Sales
    BY InvariantIs
<1>2. TypeOK'
    BY <1>1 DEF TypeOK
<1>3. Locks'
    BY <1>1, UndoLetsGo
<1>4. \A y \in Undos : undo'[y].pc \in {"restoring", "closing"} =>
          order[undo'[y].order].status # "NONE"
    BY <1>1 DEF Sales, OrdersKnown, TypeOK
<1>5. Sales'
    BY <1>1, <1>4, SalesKept
<1> QED BY <1>2, <1>3, <1>5 DEF IInv, Locks, Sales

LEMMA StartUndoStep ==
    ASSUME IInv, NEW x \in Undos, NEW kind \in {"cancel", "job"}, NEW o \in Orders,
           order[o].status # "NONE", StartUndo(x, kind, o), timer' \subseteq Orders,
           UNCHANGED <<full, req, stock, order, supplied, updates>>
    PROVE  IInv'
<1> DEFINE u == [pc |-> "restoring", kind |-> kind, order |-> o, got |-> {}]
<1>1. u \in [pc : {"idle", "restoring", "closing", "done"},
             kind : {"cancel", "job"}, order : Orders, got : SUBSET Rows]
    OBVIOUS
<1>2. u.got = {} /\ u.order = o /\ undo' = [undo EXCEPT ![x] = u]
    BY DEF StartUndo
<1> HIDE DEF u
<1> QED BY <1>1, <1>2, UndoMoves

LEMMA StartCancelStep ==
    ASSUME IInv, NEW x \in Undos, NEW o \in Orders, NEW byAdmin \in BOOLEAN,
           StartCancel(x, o, byAdmin)
    PROVE  IInv'
BY StartUndoStep DEF StartCancel, IInv, TypeOK

LEMMA StartAutoRejectStep ==
    ASSUME IInv, NEW x \in Undos, NEW o \in Orders, StartAutoReject(x, o)
    PROVE  IInv'
<1>1. timer' \subseteq Orders
    BY DEF StartAutoReject, IInv, TypeOK
<1>2. CASE order[o].status = "WAITING_VENDOR_CONFIRMATION"
    BY <1>1, <1>2, StartUndoStep DEF StartAutoReject
<1>3. CASE order[o].status # "WAITING_VENDOR_CONFIRMATION"
    <2>1. UNCHANGED <<full, req, stock, order, undo, supplied, updates>>
        BY <1>3 DEF StartAutoReject
    <2>2. TypeOK /\ Locks /\ Sales
        BY InvariantIs
    <2>3. TypeOK'
        BY <1>1, <2>1, <2>2 DEF TypeOK
    <2>4. Locks'
        BY <2>1, <2>2, LocksStand
    <2>5. \A y \in Undos : undo'[y].pc \in {"restoring", "closing"} =>
              order[undo'[y].order].status # "NONE"
        BY <2>1, <2>2 DEF Sales, OrdersKnown
    <2>6. Sales'
        BY <2>1, <2>2, <2>5, SalesKept
    <2> QED BY <2>3, <2>4, <2>6 DEF IInv, Locks, Sales
<1> QED BY <1>2, <1>3

LEMMA DieUndoingStep ==
    ASSUME IInv, NEW x \in Undos, DieUndoing(x)
    PROVE  IInv'
<1>1. timer' \subseteq Orders
    BY UndoKnown DEF DieUndoing, IInv, TypeOK
<1> QED BY <1>1, DoneKnown, UndoMoves DEF DieUndoing

LEMMA AbortStep ==
    ASSUME IInv, NEW q \in Procs, Abort(q)
    PROVE  IInv'
<1>1. TypeOK /\ Locks /\ Sales
    BY InvariantIs
<1>2. PICK p : p \in Wants(q)
    BY DEF Abort, Stuck, Blocked
<1>3. Locking(q)
    BY <1>1, <1>2, WantsFirst
<1>4. full' \subseteq Customers /\ timer' \subseteq Orders
    BY <1>1 DEF Abort, TypeOK
<1>5. CASE q \in Requests
    <2>1. req[q].pc = "locking"
        BY <1>3, <1>5 DEF Locking
    <2> QED BY <1>4, <1>5, <2>1, GotoStep DEF Abort
<1>6. CASE q \notin Requests
    <2>1. q \in Undos /\ undo[q].pc = "restoring"
        BY <1>3, <1>6, ProcsKnown DEF Locking
    <2> DEFINE closing == [undo[q] EXCEPT !.pc = "closing", !.got = {}]
               u == IF undo[q].kind = "job" THEN Done ELSE closing
    <2>2. /\ closing \in [pc : {"idle", "restoring", "closing", "done"},
                          kind : {"cancel", "job"}, order : Orders, got : SUBSET Rows]
          /\ closing.got = {} /\ closing.order = undo[q].order
        BY <1>1, <2>1, UndoKnown
    <2>3. undo' = [undo EXCEPT ![q] = u] /\ UNCHANGED <<full, req, stock, order, supplied, updates>>
        BY <1>6 DEF Abort
    <2>4. order[undo[q].order].status # "NONE"
        BY <1>1, <2>1 DEF Sales, OrdersKnown
    <2> HIDE DEF closing
    <2>5. /\ u \in [pc : {"idle", "restoring", "closing", "done"},
                    kind : {"cancel", "job"}, order : Orders, got : SUBSET Rows]
          /\ u.got = {}
          /\ u.pc \in {"restoring", "closing"} => order[u.order].status # "NONE"
        BY <2>2, <2>4, DoneKnown
    <2> HIDE DEF u
    <2> QED BY <1>4, <2>1, <2>3, <2>5, UndoMoves
<1> QED BY <1>5, <1>6

LEMMA CancelledStep ==
    ASSUME IInv, NEW x \in Undos, Cancelled(x)
    PROVE  IInv'
<1>1. TypeOK /\ Locks /\ Sales
    BY InvariantIs
<1>2. undo[x].pc = "closing" /\ undo[x].order \in Orders /\ order[undo[x].order].status # "NONE"
    BY <1>1, UndoKnown DEF Cancelled, Sales, OrdersKnown
<1>3. /\ undo' = [undo EXCEPT ![x] = Done]
      /\ order' = [order EXCEPT ![undo[x].order].status = "CANCELLED"]
      /\ UNCHANGED <<full, req, stock, timer, supplied, updates>>
    BY DEF Cancelled
<1>4. \A y \in Undos : undo'[y].pc \in {"restoring", "closing"} =>
          undo'[y].order \in Orders /\ order[undo'[y].order].status # "NONE"
    BY <1>1, <1>3, DoneKnown, UndoKnown DEF Sales, OrdersKnown, TypeOK
<1>5. Sales' /\ order' \in [Orders -> [status : {"NONE", "WAITING_VENDOR_CONFIRMATION",
                                  "CONFIRMED", "CANCELLED", "AUTO_REJECTED"}, restored : Nat]]
    BY <1>1, <1>2, <1>3, <1>4, StatusWritten
<1>6. Locks'
    BY <1>1, <1>3, DoneKnown, UndoLetsGo
<1>7. TypeOK'
    BY <1>1, <1>3, <1>5, DoneKnown DEF TypeOK
<1> QED BY <1>5, <1>6, <1>7 DEF IInv, Locks, Sales

LEMMA SetStatusStep ==
    ASSUME IInv, NEW o \in Orders, NEW status \in Written, SetStatus(o, status)
    PROVE  IInv'
<1>1. TypeOK /\ Locks /\ Sales
    BY InvariantIs
<1>2. /\ order[o].status # "NONE" /\ order' = [order EXCEPT ![o].status = status]
      /\ UNCHANGED <<full, req, stock, timer, undo, supplied, updates>>
    BY DEF SetStatus
<1>3. status \in {"WAITING_VENDOR_CONFIRMATION", "CONFIRMED", "CANCELLED"}
    BY CheckoutAssumption
<1>4. \A y \in Undos : undo'[y].pc \in {"restoring", "closing"} =>
          undo'[y].order \in Orders /\ order[undo'[y].order].status # "NONE"
    BY <1>1, <1>2, UndoKnown DEF Sales, OrdersKnown
<1>5. Sales' /\ order' \in [Orders -> [status : {"NONE", "WAITING_VENDOR_CONFIRMATION",
                                  "CONFIRMED", "CANCELLED", "AUTO_REJECTED"}, restored : Nat]]
    BY <1>1, <1>2, <1>3, <1>4, StatusWritten
<1>6. Locks'
    BY <1>1, <1>2, LocksStand
<1>7. TypeOK'
    BY <1>1, <1>2, <1>5 DEF TypeOK
<1> QED BY <1>5, <1>6, <1>7 DEF IInv, Locks, Sales

LEMMA UpdateStockStep ==
    ASSUME IInv, NEW p \in Entered, NEW n \in 0 .. MaxStock, UpdateStock(p, n)
    PROVE  IInv'
<1>1. TypeOK /\ Locks /\ Sales
    BY InvariantIs
<1>2. p \in Rows /\ n \in Nat /\ MaxUpdates \in Nat
    BY CheckoutAssumption
<1>3. /\ updates < MaxUpdates /\ updates' = updates + 1 /\ Free(p)
      /\ stock' = [stock EXCEPT ![p] = n]
      /\ supplied' = [supplied EXCEPT ![p] = supplied[p] + n - stock[p]]
      /\ UNCHANGED <<full, req, order, timer, undo>>
    BY DEF UpdateStock
<1>4. stock \in [Rows -> Nat] /\ supplied \in [Rows -> Int] /\ updates \in 0 .. MaxUpdates
    BY <1>1 DEF TypeOK
<1>5. TypeOK'
    <2>1. supplied[p] + n - stock[p] \in Int
        BY <1>2, <1>4
    <2>2. updates' \in 0 .. MaxUpdates
        BY <1>2, <1>3, <1>4
    <2> QED BY <1>1, <1>2, <1>3, <2>1, <2>2 DEF TypeOK
<1>6. Locks'
    <2>1. \A r \in Requests : p \notin req[r].got
        BY <1>3, ProcsKnown DEF Free, Holds
    <2>2. \A r \in Requests : \A m \in req[r].got : stock'[m] = stock[m]
        BY <1>1, <1>3, <2>1, ReqKnown DEF TypeOK
    <2> QED BY <1>1, <1>3, <2>2, LocksStand
<1>7. OrdersKnown' /\ AutoRejectedRestored'
    BY <1>1, <1>3 DEF Sales, OrdersKnown, AutoRejectedRestored
<1>8. StockConserved'
    <2>1. ASSUME NEW m \in Rows
          PROVE  stock'[m] = supplied'[m] + Balance(m)'
        <3>1. Balance(m)' = Balance(m) /\ Balance(m) \in Int
            BY <1>1, <1>3, BalanceKept, OrdersOfKnown DEF Sales
        <3>2. stock[m] = supplied[m] + Balance(m)
            BY <1>1, StockIs DEF Sales
        <3>3. CASE m = p
            <4>1. stock'[m] = n /\ supplied'[m] = supplied[m] + n - stock[m]
                BY <1>2, <1>3, <1>4, <3>3
            <4>2. stock[m] \in Nat /\ supplied[m] \in Int
                BY <1>4
            <4> HIDE DEF Balance
            <4> QED BY <1>2, <3>1, <3>2, <4>1, <4>2
        <3>4. CASE m # p
            <4>1. stock'[m] = stock[m] /\ supplied'[m] = supplied[m]
                BY <1>3, <1>4, <3>4
            <4> QED BY <3>1, <3>2, <4>1
        <3> QED BY <3>3, <3>4
    <2> QED BY <2>1, StockWillBe
<1> QED BY <1>5, <1>6, <1>7, <1>8 DEF IInv, Locks, Sales

\* A checkout's commit: every row of the cart has lost the unit that a new order has.
LEMMA PlaceStep ==
    ASSUME IInv, NEW r \in Requests, Place(r)
    PROVE  IInv'
<1> DEFINE c == req[r].who
           fresh == [NoOrder EXCEPT !.status = "WAITING_VENDOR_CONFIRMATION"]
<1>1. TypeOK /\ Locks /\ Sales
    BY InvariantIs
<1>2. /\ req[r].pc = "locking" /\ Rest(r) = {} /\ ~Short(r)
      /\ stock' = [p \in Rows |-> IF p \in Holds(r) THEN req[r].seen[p] - 1 ELSE stock[p]]
      /\ order' = [o \in Orders |-> IF o[1] = r /\ Items[c][o[2]] # {} THEN fresh ELSE order[o]]
      /\ UNCHANGED <<full, timer, undo, supplied, updates>>
    BY DEF Place
<1>3. PICK pc \in {"placed", "done"} : Goto(r, pc)
    BY DEF Place
<1>4. /\ fresh.status = "WAITING_VENDOR_CONFIRMATION" /\ fresh.restored = 0
      /\ fresh \in [status : {"NONE", "WAITING_VENDOR_CONFIRMATION", "CONFIRMED",
                              "CANCELLED", "AUTO_REJECTED"}, restored : Nat]
    BY DEF NoOrder
<1>5. c \in Customers /\ r \in Procs /\ Holds(r) = Wanted[c] /\ Wanted[c] \subseteq Rows
    <2>1. c \in Customers /\ r \in Procs
        BY <1>1, ReqKnown, ProcsKnown
    <2>2. Holds(r) \subseteq Plan(r) /\ Plan(r) = Wanted[c]
        BY <1>1, <2>1 DEF Locks, LocksKnown, Plan, Buyer
    <2>3. Holds(r) = Plan(r)
        BY <1>2, <2>2 DEF Rest
    <2>4. Wanted[c] \subseteq Rows
        BY <2>1, CartKnown
    <2> QED BY <2>1, <2>2, <2>3, <2>4
<1> HIDE DEF c, fresh
<1>6. \A p \in Wanted[c] : stock[p] \in Nat /\ stock[p] >= 1 /\ stock'[p] = stock[p] - 1
    <2>1. ASSUME NEW p \in Wanted[c]
          PROVE  stock[p] \in Nat /\ stock[p] >= 1 /\ stock'[p] = stock[p] - 1
        <3>1. req[r].seen[p] = stock[p] /\ p \in Rows
            BY <1>1, <1>5 DEF Locks, SeenIsCurrent
        <3>2. ~(req[r].seen[p] < 1)
            BY <1>2, <1>5 DEF Short
        <3>3. stock[p] \in Nat
            BY <1>1, <3>1 DEF TypeOK
        <3> QED BY <1>2, <1>5, <3>1, <3>2, <3>3
    <2> QED BY <2>1
<1>7. \A p \in Rows \ Wanted[c] : stock'[p] = stock[p]
    BY <1>2, <1>5
<1>8. \A o \in Orders : o[1] = r => order[o].status = "NONE"
    BY <1>1, <1>2 DEF Sales, OrdersKnown
<1>9. TypeOK'
    <2>1. stock' \in [Rows -> Nat]
        <3>1. ASSUME NEW p \in Rows
              PROVE  stock'[p] \in Nat
            <4>1. CASE p \in Wanted[c]
                BY <1>6, <4>1
            <4>2. CASE p \notin Wanted[c]
                BY <1>1, <1>7, <4>2 DEF TypeOK
            <4> QED BY <4>1, <4>2
        <3>2. DOMAIN stock' = Rows /\ stock' = [p \in Rows |-> stock'[p]]
            BY <1>2
        <3> QED BY <3>1, <3>2
    <2>2. order' \in [Orders -> [status : {"NONE", "WAITING_VENDOR_CONFIRMATION", "CONFIRMED",
                                          "CANCELLED", "AUTO_REJECTED"}, restored : Nat]]
        BY <1>1, <1>2, <1>4 DEF TypeOK
    <2>3. req' \in [Requests -> [pc : {"new", "valid", "locking", "placed", "done"},
                                 who : Customers, got : SUBSET Rows, seen : [Rows -> Nat]]]
        BY <1>1, <1>3, GotoDoes
    <2> QED BY <1>1, <1>2, <2>1, <2>2, <2>3 DEF TypeOK
<1>10. Locks'
    <2>1. ASSUME NEW s \in Requests \ {r}, NEW p \in req[s].got
          PROVE  stock'[p] = stock[p]
        <3>1. s \in Procs /\ p \in Holds(s) /\ p \in Rows
            BY <1>1, <2>1, ProcsKnown, ReqKnown DEF Holds
        <3>2. p \notin Holds(r)
            BY <1>1, <1>5, <2>1, <3>1 DEF Locks, LocksExclusive
        <3> QED BY <1>5, <1>7, <3>1, <3>2
    <2> QED BY <1>1, <1>2, <1>3, <2>1, GotoLetsGo
<1>11. \A s \in Requests : /\ req'[s].who = req[s].who
                           /\ s # r => req'[s] = req[s]
    BY <1>1, <1>3, GotoDoes
<1>12. \A o \in Orders : /\ o[1] = r /\ Items[c][o[2]] # {} => order'[o] = fresh
                         /\ ~(o[1] = r /\ Items[c][o[2]] # {}) => order'[o] = order[o]
    BY <1>2
<1>13. OrdersKnown'
    <2>1. ASSUME NEW o \in Orders, order'[o].status # "NONE"
          PROVE  req'[o[1]].pc \in {"placed", "done"} /\ Items[req'[o[1]].who][o[2]] # {}
        <3>1. CASE o[1] = r /\ Items[c][o[2]] # {}
            BY <1>1, <1>3, <3>1, GotoDoes DEF c
        <3>2. CASE ~(o[1] = r /\ Items[c][o[2]] # {})
            BY <1>1, <1>8, <1>11, <1>12, <2>1, <3>2, OrdersAre DEF Sales, OrdersKnown
        <3> QED BY <3>1, <3>2
    <2>2. ASSUME NEW x \in Undos, undo'[x].pc \in {"restoring", "closing"}
          PROVE  order'[undo'[x].order].status # "NONE"
        <3>1. undo[x].order \in Orders /\ order[undo[x].order].status # "NONE"
            BY <1>1, <1>2, <2>2, UndoKnown DEF Sales, OrdersKnown
        <3> QED BY <1>2, <1>8, <1>12, <3>1
    <2> QED BY <2>1, <2>2 DEF OrdersKnown
<1>14. StockConserved'
    <2>1. \A p, o : o \in OrdersOf(p) => /\ o \in Orders /\ order[o].status # "NONE"
                                         /\ p \in Items[req[o[1]].who][o[2]] /\ o[1] # r
        BY <1>8 DEF OrdersOf
    <2>2. ASSUME NEW p \in Rows
          PROVE  \A o \in OrdersOf(p) : Weight'[o] = Weight[o] /\ o \in OrdersOf(p)'
        BY <1>11, <1>12, <2>1, OrdersAre DEF Weight, OrdersOf
    <2>3. ASSUME NEW p \in Rows, p \notin Wanted[c]
          PROVE  stock'[p] = supplied'[p] + Balance(p)'
        <3>1. ASSUME NEW o \in OrdersOf(p)'
              PROVE  o \in OrdersOf(p)
            <4>1. o \in Orders /\ order'[o].status # "NONE" /\ p \in Items[req[o[1]].who][o[2]]
                BY <1>11, <3>1, OrdersAre DEF OrdersOf
            <4>2. o[1] # r
                BY <1>5, <2>3, <4>1, CartKnown, OrdersAre DEF c
            <4> QED BY <1>12, <4>1, <4>2 DEF OrdersOf
        <3>2. OrdersOf(p)' = OrdersOf(p)
            BY <2>2, <3>1
        <3>3. Balance(p)' = SumFunctionOnSet(Weight', OrdersOf(p))
            BY <3>2 DEF Balance
        <3>4. Balance(p)' = Balance(p)
            BY <1>1, <2>2, <3>3, OrdersOfKnown, SumSame DEF Balance
        <3> QED BY <1>1, <1>2, <1>7, <2>3, <3>4, StockIs DEF Sales
    <2>4. ASSUME NEW p \in Wanted[c]
          PROVE  stock'[p] = supplied'[p] + Balance(p)'
        <3> DEFINE mine == <<r, ShopOf[p]>>
        <3>1. p \in Rows /\ mine \in Orders /\ mine[1] = r /\ mine[2] = ShopOf[p]
            BY <1>5, CartKnown, OrdersAre
        <3>2. mine \notin OrdersOf(p)
            BY <2>1, <3>1
        <3>3. p \in Items[c][ShopOf[p]]
            BY <1>5, <2>4, <3>1, CartKnown
        <3>4. order'[mine] = fresh /\ Weight'[mine] = -1
            BY <1>4, <1>12, <3>1, <3>3 DEF Weight
        <3> HIDE DEF mine
        <3>5. OrdersOf(p)' = OrdersOf(p) \cup {mine}
            <4>1. mine \in OrdersOf(p)'
                BY <1>4, <1>11, <3>1, <3>3, <3>4 DEF OrdersOf, c
            <4>2. ASSUME NEW o \in OrdersOf(p)', o # mine
                  PROVE  o \in OrdersOf(p)
                <5>1. o \in Orders /\ order'[o].status # "NONE" /\ p \in Items[req[o[1]].who][o[2]]
                    BY <1>11, <4>2, OrdersAre DEF OrdersOf
                <5>2. o[1] # r
                    <6>1. SUFFICES ASSUME o[1] = r PROVE FALSE
                        OBVIOUS
                    <6>2. o[2] \in Shops /\ o[2] = ShopOf[p]
                        BY <1>5, <5>1, <6>1, CartKnown, OrdersAre DEF c
                    <6>3. o = mine
                        BY <5>1, <6>1, <6>2, OrdersAre DEF mine
                    <6> QED BY <4>2, <6>3
                <5> QED BY <1>12, <5>1, <5>2 DEF OrdersOf
            <4> QED BY <2>2, <3>1, <4>1, <4>2
        <3>6. IsFiniteSet(OrdersOf(p)) /\ \A o \in OrdersOf(p) : Weight[o] \in Int
            BY <1>1, OrdersOfKnown
        <3>7. \A o \in OrdersOf(p) \cup {mine} : Weight'[o] \in Int
            BY <2>2, <3>1, <3>4, <3>6
        <3>8. Balance(p)' = -1 + SumFunctionOnSet(Weight', OrdersOf(p))
            <4>1. Balance(p)' = SumFunctionOnSet(Weight', OrdersOf(p) \cup {mine})
                BY <3>5 DEF Balance
            <4> QED BY <3>2, <3>4, <3>6, <3>7, <4>1, SumAdd
        <3>9. SumFunctionOnSet(Weight', OrdersOf(p)) = Balance(p)
            BY <2>2, <3>1, <3>6, SumSame DEF Balance
        <3>10. Balance(p) \in Int /\ supplied[p] \in Int
            BY <1>1, <3>1, OrdersOfKnown DEF TypeOK
        <3>11. stock[p] = supplied[p] + Balance(p)
            BY <1>1, <3>1, StockIs DEF Sales
        <3>12. stock'[p] = stock[p] - 1 /\ supplied'[p] = supplied[p] /\ Balance(p)' = -1 + Balance(p)
            BY <1>2, <1>6, <3>8, <3>9
        <3> HIDE DEF Balance
        <3> QED BY <3>10, <3>11, <3>12
    <2> QED BY <2>3, <2>4, StockWillBe
<1>15. AutoRejectedRestored'
    BY <1>1, <1>4, <1>12 DEF Sales, AutoRejectedRestored
<1> QED BY <1>9, <1>10, <1>13, <1>14, <1>15 DEF IInv, Locks, Sales

\* The commit of a restore: the rows of the order have a unit more, and the order
\* was restored once more.
LEMMA CommitRestoreStep ==
    ASSUME IInv, NEW x \in Undos, CommitRestore(x)
    PROVE  IInv'
<1> DEFINE o == undo[x].order
           job == undo[x].kind = "job"
           new == [order[o] EXCEPT !.restored = @ + 1,
                                   !.status = IF job THEN "AUTO_REJECTED" ELSE @]
           closing == [undo[x] EXCEPT !.pc = "closing", !.got = {}]
           u == IF job THEN Done ELSE closing
<1>1. TypeOK /\ Locks /\ Sales
    BY InvariantIs
<1>2. /\ undo[x].pc = "restoring" /\ Rest(x) = {}
      /\ stock' = [p \in Rows |-> IF p \in Holds(x) THEN stock[p] + 1 ELSE stock[p]]
      /\ undo' = [undo EXCEPT ![x] = u]
      /\ UNCHANGED <<full, req, timer, supplied, updates>>
    BY DEF CommitRestore
<1>3. order' = [order EXCEPT ![o] = new]
    BY <1>1 DEF CommitRestore, TypeOK
<1>4. /\ o \in Orders /\ x \in Procs /\ x \notin Requests
      /\ order[o].status # "NONE" /\ order[o].restored \in Nat
    BY <1>1, <1>2, UndoKnown, OrderKnown, ProcsKnown DEF Sales, OrdersKnown
<1>5. /\ new \in [status : {"NONE", "WAITING_VENDOR_CONFIRMATION", "CONFIRMED",
                            "CANCELLED", "AUTO_REJECTED"}, restored : Nat]
      /\ new.status # "NONE" /\ new.restored = order[o].restored + 1
      /\ new.status = "AUTO_REJECTED" => new.restored > 0
    <2> DEFINE status == IF job THEN "AUTO_REJECTED" ELSE order[o].status
    <2>1. /\ order[o] \in [status : {"NONE", "WAITING_VENDOR_CONFIRMATION", "CONFIRMED",
                                     "CANCELLED", "AUTO_REJECTED"}, restored : Nat]
          /\ new = [order[o] EXCEPT !.restored = @ + 1, !.status = status]
        BY <1>1, <1>4, OrderKnown
    <2>2. status # "NONE" /\ status \in {"WAITING_VENDOR_CONFIRMATION", "CONFIRMED",
                                         "CANCELLED", "AUTO_REJECTED"}
        BY <1>1, <1>4, OrderKnown
    <2> HIDE DEF new, status
    <2>3. order[o].restored + 1 \in Nat /\ order[o].restored + 1 > 0
        BY <1>4
    <2> QED BY <2>1, <2>2, <2>3
<1>6. /\ u \in [pc : {"idle", "restoring", "closing", "done"},
                kind : {"cancel", "job"}, order : Orders, got : SUBSET Rows]
      /\ u.got = {}
      /\ u.pc \in {"restoring", "closing"} => u.order = o
    <2>1. /\ closing \in [pc : {"idle", "restoring", "closing", "done"},
                          kind : {"cancel", "job"}, order : Orders, got : SUBSET Rows]
          /\ closing.got = {} /\ closing.order = o
        BY <1>1, UndoKnown
    <2> HIDE DEF closing
    <2> QED BY <2>1, DoneKnown
<1>7. Holds(x) = Items[req[o[1]].who][o[2]]
    <2>1. Holds(x) \subseteq Plan(x) /\ Plan(x) = Items[req[o[1]].who][o[2]]
        BY <1>1, <1>4 DEF Locks, LocksKnown, Plan, Buyer
    <2>2. Holds(x) = Plan(x)
        BY <1>2, <2>1 DEF Rest
    <2> QED BY <2>1, <2>2
<1> HIDE DEF new, closing, u, o, job
<1>8. order'[o] = new /\ \A w \in Orders \ {o} : order'[w] = order[w]
    BY <1>1, <1>3, <1>4 DEF TypeOK
<1>9. \A w \in Orders : order'[w].status = "NONE" <=> order[w].status = "NONE"
    BY <1>4, <1>5, <1>8
<1>10. TypeOK'
    <2>1. stock' \in [Rows -> Nat]
        BY <1>1, <1>2 DEF TypeOK
    <2>2. undo' \in [Undos -> [pc : {"idle", "restoring", "closing", "done"},
                              kind : {"cancel", "job"}, order : Orders, got : SUBSET Rows]]
        BY <1>1, <1>2, <1>6 DEF TypeOK
    <2>3. order' \in [Orders -> [status : {"NONE", "WAITING_VENDOR_CONFIRMATION", "CONFIRMED",
                                          "CANCELLED", "AUTO_REJECTED"}, restored : Nat]]
        BY <1>1, <1>3, <1>5 DEF TypeOK
    <2> QED BY <1>1, <1>2, <2>1, <2>2, <2>3 DEF TypeOK
<1>11. Locks'
    <2>1. ASSUME NEW s \in Requests, NEW p \in req[s].got
          PROVE  stock'[p] = stock[p]
        <3>1. s \in Procs /\ p \in Holds(s) /\ p \in Rows
            BY <1>1, <2>1, ProcsKnown, ReqKnown DEF Holds
        <3>2. p \notin Holds(x)
            BY <1>1, <1>4, <2>1, <3>1 DEF Locks, LocksExclusive
        <3> QED BY <1>2, <3>1, <3>2
    <2> QED BY <1>1, <1>2, <1>6, <2>1, UndoLetsGo
<1>12. OrdersKnown'
    <2>1. \A w \in Orders : order'[w].status # "NONE" =>
              req'[w[1]].pc \in {"placed", "done"} /\ Items[req'[w[1]].who][w[2]] # {}
        BY <1>1, <1>2, <1>9 DEF Sales, OrdersKnown
    <2>2. ASSUME NEW y \in Undos, undo'[y].pc \in {"restoring", "closing"}
          PROVE  order'[undo'[y].order].status # "NONE"
        <3>1. CASE y = x
            <4>1. undo'[y] = u
                BY <1>1, <1>2, <3>1 DEF TypeOK
            <4> QED BY <1>4, <1>6, <1>9, <2>2, <4>1
        <3>2. CASE y # x
            <4>1. undo'[y] = undo[y]
                BY <1>1, <1>2, <3>2 DEF TypeOK
            <4>2. undo[y].order \in Orders /\ order[undo[y].order].status # "NONE"
                BY <1>1, <2>2, <4>1, UndoKnown DEF Sales, OrdersKnown
            <4> QED BY <1>9, <4>1, <4>2
        <3> QED BY <3>1, <3>2
    <2> QED BY <2>1, <2>2 DEF OrdersKnown
<1>13. StockConserved'
    <2>1. ASSUME NEW p \in Rows
          PROVE  stock'[p] = supplied'[p] + Balance(p)'
        <3>1. OrdersOf(p)' = OrdersOf(p)
            BY <1>2, <1>9 DEF OrdersOf
        <3>2. /\ OrdersOf(p) \subseteq Orders /\ IsFiniteSet(OrdersOf(p))
              /\ \A w \in Orders : Weight[w] = order[w].restored - 1 /\ Weight[w] \in Int
              /\ Balance(p) \in Int
            BY <1>1, OrdersOfKnown
        <3>3. Weight'[o] = Weight[o] + 1 /\ \A w \in Orders \ {o} : Weight'[w] = Weight[w]
            BY <1>4, <1>5, <1>8, <3>2 DEF Weight
        <3>4. Balance(p)' = SumFunctionOnSet(Weight', OrdersOf(p))
            BY <3>1 DEF Balance
        <3>5. stock[p] = supplied[p] + Balance(p) /\ stock[p] \in Nat /\ supplied[p] \in Int
            BY <1>1, StockIs DEF Sales, TypeOK
        <3>6. CASE p \in Holds(x)
            <4>1. o \in OrdersOf(p)
                BY <1>4, <1>7, <3>6 DEF OrdersOf
            <4>2. \A w \in OrdersOf(p) : Weight'[w] \in Int
                BY <1>4, <3>2, <3>3
            <4> DEFINE others == OrdersOf(p) \ {o}
            <4>3. IsFiniteSet(others)
                BY <3>2, FS_Subset
            <4>4. Balance(p) = Weight[o] + SumFunctionOnSet(Weight, others)
                BY <3>2, <4>1, SumTake DEF Balance
            <4>5. Balance(p)' = Weight'[o] + SumFunctionOnSet(Weight', others)
                BY <3>2, <3>4, <4>1, <4>2, SumTake
            <4>6. SumFunctionOnSet(Weight', others) = SumFunctionOnSet(Weight, others)
                BY <3>2, <3>3, <4>3, SumSame
            <4>7. SumFunctionOnSet(Weight, others) \in Int
                BY <3>2, <4>3, SumTake
            <4> HIDE DEF others
            <4>8. stock'[p] = stock[p] + 1 /\ supplied'[p] = supplied[p]
                BY <1>2, <3>6
            <4>9. Weight[o] \in Int
                BY <1>4, <3>2
            <4> HIDE DEF Balance
            <4> QED BY <3>3, <3>5, <4>4, <4>5, <4>6, <4>7, <4>8, <4>9
        <3>7. CASE p \notin Holds(x)
            <4>1. o \notin OrdersOf(p)
                BY <1>7, <3>7 DEF OrdersOf
            <4>2. Balance(p)' = Balance(p)
                BY <3>2, <3>3, <3>4, <4>1, SumSame DEF Balance
            <4>3. stock'[p] = stock[p] /\ supplied'[p] = supplied[p]
                BY <1>2, <3>7
            <4> QED BY <3>5, <4>2, <4>3
        <3> QED BY <3>6, <3>7
    <2> QED BY <2>1, StockWillBe
<1>14. AutoRejectedRestored'
    BY <1>1, <1>4, <1>5, <1>8 DEF Sales, AutoRejectedRestored
<1> QED BY <1>10, <1>11, <1>12, <1>13, <1>14 DEF IInv, Locks, Sales

-----------------------------------------------------------------------------
(* The invariant *)

LEMMA InitHolds == ASSUME Init PROVE IInv
<1> USE DEF Init
<1>1. TypeOK
    <2>1. NoRequest \in [pc : {"new", "valid", "locking", "placed", "done"},
                         who : Customers, got : SUBSET Rows, seen : [Rows -> Nat]]
        BY CheckoutAssumption DEF NoRequest, Nothing
    <2>2. NoOrder \in [status : {"NONE", "WAITING_VENDOR_CONFIRMATION", "CONFIRMED",
                                "CANCELLED", "AUTO_REJECTED"}, restored : Nat]
        BY DEF NoOrder
    <2>3. 0 \in 0 .. MaxUpdates
        BY CheckoutAssumption
    <2> QED BY <2>1, <2>2, <2>3, DoneKnown DEF TypeOK
<1>2. \A q \in Procs : Holds(q) = {}
    BY DoneKnown, ProcsKnown DEF Holds, NoRequest
<1>3. Locks
    <2>1. LocksExclusive /\ SeenIsCurrent /\ ShopsInOrder
        BY <1>2, ProcsKnown DEF LocksExclusive, SeenIsCurrent, ShopsInOrder
    <2>2. LocksKnown
        BY <1>2, DoneKnown DEF LocksKnown, NoRequest
    <2> QED BY <2>1, <2>2 DEF Locks
<1>4. \A o \in Orders : order[o].status = "NONE"
    BY DEF NoOrder
<1>5. OrdersKnown /\ AutoRejectedRestored
    BY <1>4, DoneKnown DEF OrdersKnown, AutoRejectedRestored
<1>6. StockConserved
    <2>1. ASSUME NEW p \in Rows
          PROVE  stock[p] = supplied[p] + Balance(p)
        <3>1. OrdersOf(p) = {}
            BY <1>4 DEF OrdersOf
        <3>2. Balance(p) = 0
            BY <3>1, SumEmpty DEF Balance
        <3>3. stock[p] = 1 /\ supplied[p] = 1
            OBVIOUS
        <3> QED BY <3>2, <3>3
    <2> QED BY <2>1, StockIs
<1> QED BY <1>1, <1>3, <1>5, <1>6 DEF IInv, Locks

LEMMA StutterHolds == ASSUME IInv, UNCHANGED vars PROVE IInv'
<1>1. TypeOK /\ Locks /\ Sales
    BY InvariantIs
<1>2. UNCHANGED <<full, req, stock, order, timer, undo, supplied, updates>>
    BY DEF vars
<1>3. TypeOK'
    BY <1>1, <1>2 DEF TypeOK
<1>4. Locks'
    BY <1>1, <1>2, LocksStand
<1>5. \A x \in Undos : undo'[x].pc \in {"restoring", "closing"} =>
          order[undo'[x].order].status # "NONE"
    BY <1>1, <1>2 DEF Sales, OrdersKnown
<1>6. Sales'
    BY <1>1, <1>2, <1>5, SalesKept
<1> QED BY <1>3, <1>4, <1>6 DEF IInv, Locks, Sales

LEMMA NextHolds == ASSUME IInv, [Next]_vars PROVE IInv'
<1>1. CASE \E r \in Requests : RequestStep(r)
    BY <1>1, BeginStep, LockRowStep, RefuseStep, PlaceStep, FinishStep DEF RequestStep
<1>2. CASE \E x \in Undos : UndoStep(x)
    BY <1>2, RestoreRowStep, CommitRestoreStep, CancelledStep DEF UndoStep
<1>3. CASE \E q \in Procs : Abort(q)
    BY <1>3, AbortStep
<1>4. CASE \E r \in Requests : Die(r) \/ \E c \in Customers : Validate(r, c)
    BY <1>4, DieStep, ValidateStep
<1>5. CASE \E x \in Undos, o \in Orders : \/ StartAutoReject(x, o)
                                          \/ \E byAdmin \in BOOLEAN : StartCancel(x, o, byAdmin)
    BY <1>5, StartAutoRejectStep, StartCancelStep
<1>6. CASE \E x \in Undos : DieUndoing(x)
    BY <1>6, DieUndoingStep
<1>7. CASE \E o \in Orders, status \in Written : SetStatus(o, status)
    BY <1>7, SetStatusStep
<1>8. CASE \E p \in Entered, n \in 0 .. MaxStock : UpdateStock(p, n)
    BY <1>8, UpdateStockStep
<1>9. CASE UNCHANGED vars
    BY <1>9, StutterHolds
<1> QED BY <1>1, <1>2, <1>3, <1>4, <1>5, <1>6, <1>7, <1>8, <1>9 DEF Next, Work

\* What the runs check as one invariant holds in every reachable state, however many
\* checkouts and cancellations there are and whatever is in the carts.
THEOREM StrengthenedInvariant == Spec => []IInv
<1>1. Init => IInv
    BY InitHolds
<1>2. IInv /\ [Next]_vars => IInv'
    BY NextHolds
<1> QED BY <1>1, <1>2, PTL DEF Spec

\* Every variable has its type; in particular no stock_quantity is ever below 0.
THEOREM TypeCorrect == Spec => []TypeOK
<1>1. IInv => TypeOK
    BY DEF IInv
<1> QED BY <1>1, StrengthenedInvariant, PTL

\* No unit of a row is lost or made up by checkouts, refusals, cancellations, jobs,
\* deadlocks and crashes, in whatever order they interleave.
THEOREM NoStockLost == Spec => []StockConserved
<1>1. IInv => StockConserved
    BY DEF IInv
<1> QED BY <1>1, StrengthenedInvariant, PTL

\* An order the job rejected has its stock back.
THEOREM RejectionRestores == Spec => []AutoRejectedRestored
<1>1. IInv => AutoRejectedRestored
    BY DEF IInv
<1> QED BY <1>1, StrengthenedInvariant, PTL

-----------------------------------------------------------------------------
(* Circles of waiting transactions *)

LEMMA ProcsFinite == IsFiniteSet(Procs)
<1>1. IsFiniteSet(Requests) /\ IsFiniteSet(Undos)
    BY CheckoutAssumption, FS_Interval DEF Requests, Undos
<1> QED BY <1>1, FS_Union DEF Procs

\* A transaction wants one row at a time: a cart has each of its rows once.
LEMMA WantsOne ==
    ASSUME TypeOK, NEW q \in Procs, NEW p \in Wants(q), NEW n \in Wants(q)
    PROVE  p = n
<1> DEFINE c == Buyer(q)
<1>1. SUFFICES ASSUME p # n PROVE FALSE
    OBVIOUS
<1>2. c \in Customers
    BY ProcsKnown, ReqKnown, UndoKnown, OrdersAre DEF Buyer
<1>3. p \in First(c, Rest(q)) /\ n \in First(c, Rest(q))
    BY DEF Wants
<1> HIDE DEF c
<1>4. <<c, p, n>> \in LockOrder /\ <<c, n, p>> \in LockOrder
    BY <1>1, <1>3 DEF First
<1>5. p \in Rows /\ n \in Rows /\ ShopOf[p] \in Nat /\ ShopOf[n] \in Nat
    BY <1>4, CartKnown DEF LockOrder
<1>6. PICK i \in DOMAIN Cart[c] : \E j \in DOMAIN Cart[c] :
          /\ Cart[c][i] = p /\ Cart[c][j] = n
          /\ ShopOf[p] < ShopOf[n] \/ (ShopOf[p] = ShopOf[n] /\ i < j)
    BY <1>4 DEF LockOrder
<1>7. PICK j \in DOMAIN Cart[c] :
          /\ Cart[c][i] = p /\ Cart[c][j] = n
          /\ ShopOf[p] < ShopOf[n] \/ (ShopOf[p] = ShopOf[n] /\ i < j)
    BY <1>6
<1>8. PICK k \in DOMAIN Cart[c] : \E l \in DOMAIN Cart[c] :
          /\ Cart[c][k] = n /\ Cart[c][l] = p
          /\ ShopOf[n] < ShopOf[p] \/ (ShopOf[n] = ShopOf[p] /\ k < l)
    BY <1>4 DEF LockOrder
<1>9. PICK l \in DOMAIN Cart[c] :
          /\ Cart[c][k] = n /\ Cart[c][l] = p
          /\ ShopOf[n] < ShopOf[p] \/ (ShopOf[n] = ShopOf[p] /\ k < l)
    BY <1>8
<1>10. Cart[c] \in Seq(Rows) /\ IsInjective(Cart[c])
    BY <1>2, CheckoutAssumption
<1>11. k = j /\ l = i
    BY <1>7, <1>9, <1>10 DEF IsInjective
<1>12. i \in Nat /\ j \in Nat
    BY <1>10
<1>13. ~(ShopOf[p] < ShopOf[n] /\ ShopOf[n] < ShopOf[p]) /\ ~(i < j /\ j < i)
    BY <1>5, <1>12
<1>14. ShopOf[p] = ShopOf[n] => ~(ShopOf[p] < ShopOf[n]) /\ ~(ShopOf[n] < ShopOf[p])
    BY <1>5
<1> QED BY <1>7, <1>9, <1>11, <1>13, <1>14

\* A transaction waits for one other, which wants a row of the same shop or a later one.
LEMMA WaitsForOne ==
    ASSUME IInv, NEW q \in Procs, NEW h \in Procs, WaitsFor(q, h)
    PROVE  /\ \A k \in Procs : WaitsFor(q, k) => k = h
           /\ \A p \in Wants(q), n \in Wants(h) : ShopOf[p] <= ShopOf[n]
<1>1. TypeOK /\ Locks
    BY InvariantIs
<1>2. PICK p : p \in Wants(q) /\ p \in Holds(h)
    BY DEF WaitsFor
<1>3. ASSUME NEW k \in Procs, WaitsFor(q, k)
      PROVE  k = h
    <2>1. PICK n : n \in Wants(q) /\ n \in Holds(k)
        BY <1>3 DEF WaitsFor
    <2>2. n = p
        BY <1>1, <1>2, <2>1, WantsOne
    <2> QED BY <1>1, <1>2, <2>1, <2>2 DEF Locks, LocksExclusive
<1>4. ASSUME NEW m \in Wants(q), NEW n \in Wants(h)
      PROVE  ShopOf[m] <= ShopOf[n]
    <2>1. m = p
        BY <1>1, <1>2, WantsOne
    <2>2. Locking(h) /\ n \in Rest(h)
        BY <1>1, WantsFirst
    <2> QED BY <1>1, <1>2, <2>1, <2>2 DEF Locks, ShopsInOrder
<1> QED BY <1>3, <1>4

\* In a circle no one wants a row of a later shop than the one that waits for it: the
\* members before h0 would all be waited for from among themselves, and q0 waits for
\* one member only.
LEMMA CirclesStay ==
    ASSUME IInv, NEW S \in SUBSET Waiting, Circle(S),
           NEW q0 \in S, NEW h0 \in S, WaitsFor(q0, h0),
           NEW p0 \in Wants(q0), NEW n0 \in Wants(h0)
    PROVE  ShopOf[p0] = ShopOf[n0]
<1> DEFINE at(x) == ShopOf[CHOOSE p \in Wants(x) : TRUE]
           U == {x \in S : at(x) < at(h0)}
           pred == [x \in U |-> CHOOSE y \in S : WaitsFor(y, x)]
<1>1. TypeOK /\ S \subseteq Procs
    BY InvariantIs DEF Waiting
<1>2. ASSUME NEW x \in S
      PROVE  at(x) \in Nat /\ \A p \in Wants(x) : ShopOf[p] = at(x)
    <2>1. Wants(x) # {}
        BY DEF Waiting, Blocked
    <2>2. PICK p : p \in Wants(x)
        BY <2>1
    <2>3. (CHOOSE m \in Wants(x) : TRUE) = p /\ \A m \in Wants(x) : m = p
        BY <1>1, <2>2, WantsOne
    <2>4. p \in Rows
        <3>1. Locking(x) /\ p \in First(Buyer(x), Rest(x)) /\ p \in Rest(x)
            BY <1>1, <2>2, WantsFirst DEF Wants
        <3>2. Buyer(x) \in Customers
            BY <1>1, ProcsKnown, ReqKnown, UndoKnown, OrdersAre DEF Buyer
        <3>3. CASE x \in Requests
            BY <3>1, <3>2, <3>3, CartKnown DEF Rest, Plan
        <3>4. CASE x \notin Requests
            <4>1. undo[x].order[2] \in Shops
                BY <1>1, <3>4, ProcsKnown, UndoKnown, OrdersAre
            <4> QED BY <3>1, <3>2, <3>4, <4>1, CartKnown DEF Rest, Plan
        <3> QED BY <3>3, <3>4
    <2> QED BY <2>3, <2>4, CartKnown
<1>3. ASSUME NEW x \in S, NEW y \in S, WaitsFor(y, x)
      PROVE  at(y) <= at(x)
    <2>1. PICK p \in Wants(y) : TRUE
        BY <1>3 DEF WaitsFor
    <2>2. PICK n \in Wants(x) : TRUE
        BY <1>3 DEF Waiting, Blocked
    <2>3. ShopOf[p] <= ShopOf[n]
        BY <1>1, <1>3, WaitsForOne
    <2> QED BY <1>2, <2>3
<1> HIDE DEF at
<1>4. at(q0) <= at(h0) /\ at(q0) \in Nat /\ at(h0) \in Nat
    BY <1>2, <1>3
<1>5. SUFFICES ASSUME at(q0) < at(h0) PROVE FALSE
    <2>1. at(q0) = at(h0)
        BY <1>4, <1>5
    <2> QED BY <1>2, <2>1
<1>6. ASSUME NEW x \in U
      PROVE  pred[x] \in U /\ pred[x] \in S /\ WaitsFor(pred[x], x)
    <2>1. \E y \in S : WaitsFor(y, x)
        BY <1>1 DEF Circle
    <2>2. pred[x] \in S /\ WaitsFor(pred[x], x)
        BY <2>1
    <2>3. at(pred[x]) <= at(x) /\ at(x) < at(h0) /\ at(x) \in Nat /\ at(pred[x]) \in Nat
        BY <1>2, <1>3, <2>2
    <2>4. at(pred[x]) < at(h0)
        BY <1>4, <2>3
    <2> QED BY <2>2, <2>4
<1>7. pred \in Injection(U, U)
    <2>1. pred \in [U -> U]
        BY <1>6
    <2>2. ASSUME NEW x \in U, NEW y \in U, pred[x] = pred[y]
          PROVE  x = y
        <3>1. pred[x] \in Procs /\ x \in Procs /\ y \in Procs
            BY <1>1, <1>6
        <3>2. WaitsFor(pred[x], x) /\ WaitsFor(pred[x], y)
            BY <1>6, <2>2
        <3> HIDE DEF pred, U
        <3> QED BY <3>1, <3>2, WaitsForOne
    <2>3. DOMAIN pred = U
        OBVIOUS
    <2> QED BY <2>1, <2>2, <2>3 DEF Injection, IsInjective
<1>8. IsFiniteSet(U)
    <2>1. U \subseteq Procs
        BY <1>1
    <2> QED BY <2>1, ProcsFinite, FS_Subset
<1>9. pred \in Surjection(U, U)
    <2> HIDE DEF pred, U
    <2> QED BY <1>7, <1>8, FS_Injection
<1>10. q0 \in U
    BY <1>5
<1>11. PICK x \in U : pred[x] = q0
    <2> HIDE DEF pred, U
    <2> QED BY <1>9, <1>10 DEF Surjection
<1>12. WaitsFor(q0, x) /\ x \in Procs /\ q0 \in Procs /\ h0 \in Procs
    BY <1>1, <1>6, <1>11
<1>13. x = h0
    BY <1>12, WaitsForOne
<1> QED BY <1>4, <1>13

\* Transactions that wait for each other in a circle all wait for rows of one shop,
\* however many there are: the deadlocks PostgreSQL has to end come of the order of
\* rows within a shop, never of the order of shops.
THEOREM CirclesInOneShop == Spec => []CircleInOneShop
<1>1. IInv => CircleInOneShop
    BY CirclesStay DEF CircleInOneShop
<1> QED BY <1>1, StrengthenedInvariant, PTL

=============================================================================
