-------------------------- MODULE Pagination_proofs --------------------------
(***************************************************************************)
(* The arithmetic of pages, for every total, limit and word size: the two  *)
(* page formulas agree, the pages announced are those that hold rows, and  *)
(* their offsets do not wrap.  Then what a walk is given, for any rows,    *)
(* ranks, shared and cached reads, and sessions that append: the walk is   *)
(* complete, meets no empty page, and a page that exists holds the rows    *)
(* that stand on it; and which walks are never refused a page.             *)
(*                                                                         *)
(* A page of rows whose ranks tie is only known by how many rows it has of *)
(* each rank, so the argument counts.  An invariant compares, rank by      *)
(* rank, what the walk has been given with the rows among the first        *)
(* Done * limit of the base; a page adds to both the same number, for it   *)
(* was read of a listing that is the base with rows appended.  That this   *)
(* stays so of a read that has ended is kept with the read, until an edit  *)
(* moves the base and takes its "since" away.                              *)
(***************************************************************************)
EXTENDS Pagination, FiniteSetTheorems, TLAPS

LEMMA Times ==
  ASSUME NEW a \in Int, NEW b \in Int, NEW n \in Nat, a <= b
  PROVE  a * n \in Int /\ b * n \in Int /\ a * n <= b * n
OBVIOUS

\* Division with remainder.
LEMMA Divide ==
  ASSUME NEW m \in Nat, NEW n \in Nat \ {0}
  PROVE  /\ m \div n \in Nat /\ m % n \in 0..(n - 1)
         /\ (m \div n) * n + (m % n) = m
OBVIOUS

LEMMA WrapsNothing ==
  ASSUME NEW n \in Int64
  PROVE  Wrap(n) = n
BY ConstantsAssumption DEF Wrap, Int64

LEMMA Quotient ==
  ASSUME NEW m \in Nat, NEW n \in Nat \ {0}, NEW q \in Nat, NEW r \in 0..(n - 1), m = q * n + r
  PROVE  m \div n = q
OBVIOUS

LEMMA DivideMonotone ==
  ASSUME NEW a \in Nat, NEW b \in Nat, a <= b, NEW n \in Nat \ {0}
  PROVE  a \div n \in Nat /\ b \div n \in Nat /\ a \div n <= b \div n
<1> DEFINE p == a \div n
           q == b \div n
<1>1. p \in Nat /\ p * n <= a
  BY Divide
<1>2. q \in Nat /\ b < (q + 1) * n
  <2>1. b % n \in 0..(n - 1) /\ q * n + (b % n) = b /\ q \in Nat
    BY Divide
  <2>2. (q + 1) * n = q * n + n
    BY <2>1
  <2> HIDE DEF q
  <2> QED
    BY <2>1, <2>2
<1> HIDE DEF p, q
<1>3. ~(q + 1 <= p)
  <2> SUFFICES ASSUME q + 1 <= p PROVE FALSE
    OBVIOUS
  <2>1. (q + 1) * n <= p * n /\ (q + 1) * n \in Int /\ p * n \in Int
    BY <1>1, <1>2, Times
  <2> QED
    BY <1>1, <1>2, <2>1
<1>4. p <= q
  BY <1>1, <1>2, <1>3
<1> QED
  BY <1>1, <1>2, <1>4 DEF p, q

LEMMA Int64Nat ==
  ASSUME NEW n \in Nat, n < Word
  PROVE  n \in Int64
BY ConstantsAssumption DEF Int64

\* TotalPages counts the pages that begin before the last row.
LEMMA PageBegins ==
  ASSUME NEW rows \in Nat, NEW size \in Nat \ {0}, NEW p \in Nat
  PROVE  p < TotalPages(rows, size) <=> p * size < rows
<1> DEFINE q == rows \div size
           r == rows % size
<1>1. q \in Nat /\ r \in 0..(size - 1) /\ q * size + r = rows
  BY Divide
<1>2. TotalPages(rows, size) = q + (IF r > 0 THEN 1 ELSE 0)
  BY DEF TotalPages
<1> HIDE DEF q, r
<1>3. (q + 1) * size = q * size + size
  BY <1>1
<1>4. CASE p <= q - 1
  <2>1. (p + 1) * size <= q * size /\ (p + 1) * size = p * size + size
    BY <1>1, <1>4, Times
  <2> QED
    BY <1>1, <1>2, <1>4, <2>1
<1>5. CASE p = q
  BY <1>1, <1>2, <1>5
<1>6. CASE p >= q + 1
  <2>1. (q + 1) * size <= p * size
    BY <1>1, <1>6, Times
  <2> QED
    BY <1>1, <1>2, <1>3, <1>6, <2>1
<1> QED
  BY <1>1, <1>4, <1>5, <1>6

\* A page is announced if and only if it holds rows: page n begins at row
\* (n - 1) * limit, counted from 0 (internal/handler/handler.go:96 and
\* internal/repository/postgres.go:51).
THEOREM AnnouncedPagesHoldRows ==
  ASSUME NEW rows \in Nat, NEW size \in Nat \ {0}, NEW p \in Nat \ {0}
  PROVE  p <= TotalPages(rows, size) <=> (p - 1) * size < rows
<1>1. TotalPages(rows, size) \in Nat
  BY Divide DEF TotalPages
<1>2. p - 1 \in Nat /\ (p <= TotalPages(rows, size) <=> p - 1 < TotalPages(rows, size))
  BY <1>1
<1> QED
  BY <1>2, PageBegins

\* The MCP tool's formula (internal/mcp/handlers.go:89) is the handlers', unless
\* the sum in it overflows.
THEOREM FormulasAgree ==
  ASSUME NEW rows \in Nat, NEW size \in 1..MaxLimit, rows + size <= Word
  PROVE  McpPages(rows, size) = TotalPages(rows, size)
<1> DEFINE q == rows \div size
           r == rows % size
<1>0. size \in Nat \ {0}
  BY ConstantsAssumption
<1>1. q \in Nat /\ r \in 0..(size - 1) /\ q * size + r = rows
  BY <1>0, Divide
<1>2. TotalPages(rows, size) = q + (IF r > 0 THEN 1 ELSE 0)
  BY DEF TotalPages
<1>3. McpPages(rows, size) = (rows + size - 1) \div size
  <2>1. rows + size - 1 \in Nat /\ rows + size - 1 < Word
    BY ConstantsAssumption
  <2> QED
    BY <2>1, Int64Nat, WrapsNothing DEF McpPages
<1> DEFINE m == rows + size - 1
<1>m. m \in Nat
  BY <1>0
<1> HIDE DEF m
<1> HIDE DEF q, r
<1>5. CASE r = 0
  <2>1. m = q * size + (size - 1)
    BY <1>0, <1>1, <1>5 DEF m
  <2>2. m \div size = q
    BY <1>0, <1>1, <1>m, <2>1, Quotient
  <2> QED
    BY <1>1, <1>2, <1>3, <1>5, <2>2 DEF m
<1>6. CASE r > 0
  <2>1. m = (q + 1) * size + (r - 1)
    BY <1>0, <1>1, <1>6 DEF m
  <2>r. r - 1 \in 0..(size - 1) /\ q + 1 \in Nat
    BY <1>0, <1>1, <1>6
  <2>2. m \div size = q + 1
    BY <1>0, <1>1, <1>m, <1>6, <2>1, <2>r, Quotient
  <2> QED
    BY <1>1, <1>2, <1>3, <1>6, <2>2 DEF m
<1> QED
  BY <1>1, <1>5, <1>6

\* The offset of a page that is announced does not overflow: wrapping, which
\* can turn it into a valid one, only happens beyond the last page.
THEOREM AnnouncedOffsetsExact ==
  ASSUME NEW rows \in Nat, rows < Word, NEW size \in 1..MaxLimit,
         NEW p \in Nat \ {0}, p <= TotalPages(rows, size)
  PROVE  Offset(p, size) = (p - 1) * size /\ Offset(p, size) \in 0..(rows - 1)
<1>1. size \in Nat \ {0} /\ p - 1 \in Nat
  BY ConstantsAssumption
<1>2. (p - 1) * size < rows
  BY <1>1, AnnouncedPagesHoldRows
<1>3. (p - 1) * 1 <= (p - 1) * size
  BY <1>1
<1>4. p - 1 \in Int64 /\ (p - 1) * size \in Int64
  <2>1. (p - 1) * size \in Nat /\ (p - 1) * size < Word /\ p - 1 < Word
    BY <1>1, <1>2, <1>3, ConstantsAssumption
  <2> QED
    BY <1>1, <2>1, Int64Nat
<1> QED
  BY <1>1, <1>2, <1>4, WrapsNothing DEF Offset

\* Elasticsearch refuses no announced page whose limit divides its window: only
\* a limit that does not makes the last page of a large result end beyond it.
THEOREM DivisorsFitWindow ==
  ASSUME NEW rows \in 0..Window, rows < Word, NEW size \in 1..MaxLimit,
         NEW p \in Nat \ {0}, p <= TotalPages(rows, size),
         NEW n \in Nat, Window = n * size
  PROVE  Offset(p, size) + size <= Window
<1>1. size \in Nat \ {0} /\ rows \in Nat /\ p - 1 \in Nat
  BY ConstantsAssumption
<1>2. Offset(p, size) = (p - 1) * size /\ (p - 1) * size < n * size
  <2>1. Offset(p, size) = (p - 1) * size
    BY <1>1, AnnouncedOffsetsExact
  <2>2. (p - 1) * size < rows
    BY <1>1, AnnouncedPagesHoldRows
  <2> QED
    BY <1>1, <2>1, <2>2, ConstantsAssumption
<1>3. p <= n
  <2> SUFFICES ASSUME p - 1 >= n PROVE FALSE
    BY <1>1
  <2>1. n * size <= (p - 1) * size
    BY <1>1, Times
  <2> QED
    BY <1>1, <1>2, <2>1
<1>4. p * size <= n * size /\ p * size = (p - 1) * size + size
  BY <1>1, <1>3, Times
<1> QED
  BY <1>1, <1>2, <1>4

-------------------------------------------------------------------------------

\* The terms of the counting lemmas, for a rank given as a function.
ByRank == [r \in Nat |-> Rank(r)]

IsOrder(f) == f \in [Nat -> Nat] /\ \A r, s \in Nat : r <= s => f[r] <= f[s]

Below(rows, r) == {s \in rows : s < r}
RowsOf(f, rows, r) == {s \in rows : f[s] = f[r]}
PairsOf(f, pairs, r) == {g \in pairs : f[g[2]] = f[r]}

\* The rows of rank r among the first n.
FirstOf(f, rows, r, n) == {s \in RowsOf(f, rows, r) : Cardinality(Below(rows, s)) < n}

PagesBy(f, rows, offset, size) ==
  {some \in SUBSET rows : \A r \in rows :
     Cardinality(RowsOf(f, some, r)) = Cardinality(RowsOf(f, Slice(rows, offset, size), r))}

\* What one set of rows has more than another comes behind it.
Appended(f, rows, more) ==
  /\ rows \subseteq more
  /\ \A r \in rows, s \in more \ rows : f[r] < f[s]

LEMMA Part ==
  ASSUME NEW S, IsFiniteSet(S), NEW T, T \subseteq S
  PROVE  IsFiniteSet(T) /\ Cardinality(T) \in Nat /\ Cardinality(S) \in Nat
         /\ Cardinality(T) <= Cardinality(S)
BY FS_Subset, FS_CardinalityType

\* A set of numbers has a least element.
LEMMA Least ==
  ASSUME NEW T \in SUBSET Nat, T # {}
  PROVE  \E x \in T : \A y \in T : x <= y
<1> DEFINE I == {0..x : x \in T}
           R == StrictSubsetOrdering(Nat)
<1>1. \A x \in T : 0..x \in FiniteSubsetsOf(Nat)
  <2>1. ASSUME NEW x \in T PROVE IsFiniteSet(0..x) /\ 0..x \subseteq Nat
    BY <2>1, FS_Interval
  <2> QED
    BY <2>1 DEF FiniteSubsetsOf
<1>2. I \subseteq FiniteSubsetsOf(Nat) /\ I # {}
  BY <1>1
<1> HIDE DEF I
<1>3. PICK J \in I : \A K \in I : ~(<<K, J>> \in R)
  <2> HIDE DEF R
  <2>1. IsWellFoundedOn(R, FiniteSubsetsOf(Nat))
    BY FS_StrictSubsetOrderingWellFounded DEF R
  <2> QED
    BY ONLY <1>2, <2>1, WFMin
<1>4. PICK x \in T : J = 0..x
  BY <1>3 DEF I
<1>5. ASSUME NEW y \in T PROVE x <= y
  <2> SUFFICES ASSUME y < x PROVE FALSE
    OBVIOUS
  <2>1. 0..y \in I
    BY DEF I
  <2>2. x \in 0..x /\ x \notin 0..y /\ 0..y \subseteq 0..x
    OBVIOUS
  <2>3. <<0..y, 0..x>> \in R
    BY <2>2 DEF R, StrictSubsetOrdering
  <2> QED
    BY <1>3, <1>4, <2>1, <2>3
<1> QED
  BY <1>5

\* A finite one also has a greatest.
LEMMA Greatest ==
  ASSUME NEW T \in SUBSET Nat, T # {}, IsFiniteSet(T)
  PROVE  \E x \in T : \A y \in T : y <= x
<1> DEFINE Above(x) == {y \in T : x < y}
           I == {Above(x) : x \in T}
           R == StrictSubsetOrdering(T)
<1>1. I \subseteq FiniteSubsetsOf(T) /\ I # {}
  <2>1. ASSUME NEW x \in T PROVE Above(x) \in FiniteSubsetsOf(T)
    BY Part DEF FiniteSubsetsOf
  <2> QED
    BY <2>1
<1> HIDE DEF I
<1>2. PICK J \in I : \A K \in I : ~(<<K, J>> \in R)
  <2> HIDE DEF R
  <2>1. IsWellFoundedOn(R, FiniteSubsetsOf(T))
    BY FS_StrictSubsetOrderingWellFounded DEF R
  <2> QED
    BY ONLY <1>1, <2>1, WFMin
<1>3. PICK x \in T : J = Above(x)
  BY <1>2 DEF I
<1>4. ASSUME NEW y \in T PROVE y <= x
  <2> SUFFICES ASSUME x < y PROVE FALSE
    OBVIOUS
  <2>1. Above(y) \in I
    BY DEF I
  <2>2. y \in Above(x) /\ y \notin Above(y)
    OBVIOUS
  <2>4. Above(y) \subseteq Above(x)
    <3> SUFFICES ASSUME NEW z \in T, y < z PROVE x < z
      OBVIOUS
    <3>1. x \in Nat /\ y \in Nat /\ z \in Nat
      OBVIOUS
    <3> QED
      BY <3>1
  <2>3. <<Above(y), Above(x)>> \in R
    BY <2>2, <2>4 DEF R, StrictSubsetOrdering
  <2> QED
    BY <1>2, <1>3, <2>1, <2>3
<1> QED
  BY <1>4

\* In a finite set there is a row at every position.
LEMMA RowAt ==
  ASSUME NEW T \in SUBSET Nat, IsFiniteSet(T), NEW k \in Nat, k < Cardinality(T)
  PROVE  \E r \in T : Cardinality(Below(T, r)) = k
<1> DEFINE S == {r \in T : Cardinality(Below(T, r)) >= k}
<1>1. \A r \in T : IsFiniteSet(Below(T, r)) /\ Cardinality(Below(T, r)) \in Nat
  BY Part DEF Below
<1>2. S # {}
  <2>1. T # {}
    BY FS_EmptySet
  <2>2. PICK m \in T : \A y \in T : y <= m
    BY <2>1, Greatest
  <2>3. Below(T, m) = T \ {m}
    <3>1. ASSUME NEW y \in T PROVE y < m <=> y # m
      <4>1. y \in Nat /\ m \in Nat /\ y <= m
        BY <2>2
      <4> QED
        BY <4>1
    <3> QED
      BY <3>1 DEF Below
  <2>4. Cardinality(Below(T, m)) = Cardinality(T) - 1
    BY <2>3, FS_RemoveElement
  <2> QED
    BY <2>4, FS_CardinalityType
<1>3. PICK r \in S : \A y \in S : r <= y
  BY <1>2, Least
<1>4. ASSUME Cardinality(Below(T, r)) > k PROVE FALSE
  <2> r \in T
    OBVIOUS
  <2>e. Below(T, r) # {}
    BY <1>4, FS_EmptySet
  <2>1. Below(T, r) \subseteq Nat
    BY DEF Below
  <2>2. PICK q \in Below(T, r) : \A y \in Below(T, r) : y <= q
    BY <1>1, <2>e, <2>1, Greatest
  <2>q. q \in T /\ q < r
    BY <2>2 DEF Below
  <2>3. Below(T, q) = Below(T, r) \ {q}
    <3>1. ASSUME NEW y \in T PROVE y < q <=> (y < r /\ y # q)
      <4>1. y \in Nat /\ q \in Nat /\ r \in Nat
        BY <2>q
      <4>2. y < r => y <= q
        BY <2>2 DEF Below
      <4> QED
        BY <2>q, <4>1, <4>2
    <3> QED
      BY <3>1 DEF Below
  <2>4. Cardinality(Below(T, q)) = Cardinality(Below(T, r)) - 1
    <3>1. IsFiniteSet(Below(T, r)) /\ q \in Below(T, r)
      BY <1>1
    <3>2. Cardinality(Below(T, r) \ {q}) = Cardinality(Below(T, r)) - 1
      BY <3>1, FS_RemoveElement
    <3> QED
      BY <2>3, <3>2
  <2>5. q \in S
    BY <1>1, <1>4, <2>q, <2>4
  <2> QED
    BY <1>3, <2>q, <2>5
<1> QED
  BY <1>1, <1>3, <1>4

LEMMA Ordered ==
  ASSUME NEW f, IsOrder(f), NEW r \in Nat, NEW s \in Nat
  PROVE  f[r] \in Nat /\ f[s] \in Nat /\ (f[r] < f[s] => r < s)
BY DEF IsOrder

\* Rows that come behind do not move a row.
LEMMA SamePosition ==
  ASSUME NEW f, IsOrder(f), NEW T, NEW U \in SUBSET Nat, Appended(f, T, U), NEW s \in T
  PROVE  Below(U, s) = Below(T, s)
<1>1. ASSUME NEW u \in U, u < s PROVE u \in T
  <2> SUFFICES ASSUME u \notin T PROVE FALSE
    OBVIOUS
  <2>1. s \in Nat /\ u \in Nat /\ f[s] < f[u]
    BY DEF Appended
  <2> QED
    BY <1>1, <2>1, Ordered
<1> QED
  BY <1>1 DEF Appended, Below

LEMMA SameRows ==
  ASSUME NEW f, IsOrder(f), NEW T, NEW U \in SUBSET Nat, Appended(f, T, U), NEW r \in T,
         NEW some \in SUBSET U
  PROVE  RowsOf(f, some, r) \subseteq T
<1> SUFFICES ASSUME NEW u \in some, f[u] = f[r], u \notin T PROVE FALSE
  BY DEF RowsOf
<1>1. r \in Nat /\ u \in Nat /\ f[r] < f[u]
  BY DEF Appended
<1> QED
  BY <1>1, Ordered

LEMMA AppendedTwice ==
  ASSUME NEW f, NEW T, NEW U, NEW V \in SUBSET Nat, IsOrder(f),
         Appended(f, T, U), Appended(f, U, V)
  PROVE  Appended(f, T, V)
<1>1. ASSUME NEW t \in T, NEW v \in V \ T PROVE f[t] < f[v]
  <2>1. CASE v \in U
    BY <2>1 DEF Appended
  <2>2. CASE v \notin U
    BY <2>2 DEF Appended
  <2> QED
    BY <2>1, <2>2
<1> QED
  BY <1>1 DEF Appended

\* A page that begins before the last row is not empty.
LEMMA PageHasRow ==
  ASSUME NEW f, NEW T \in SUBSET Nat, IsFiniteSet(T),
         NEW o \in Nat, NEW n \in Nat \ {0}, o < Cardinality(T),
         NEW some \in PagesBy(f, T, o, n)
  PROVE  some # {}
<1>1. PICK r \in T : Cardinality(Below(T, r)) = o
  BY RowAt
<1>2. r \in RowsOf(f, Slice(T, o, n), r)
  <2>1. Cardinality({s \in T : s < r}) \in o .. (o + n - 1)
    BY <1>1 DEF Below
  <2> QED
    BY <2>1 DEF RowsOf, Slice
<1>3. IsFiniteSet(RowsOf(f, Slice(T, o, n), r))
  BY Part DEF RowsOf, Slice
<1>4. Cardinality(RowsOf(f, Slice(T, o, n), r)) # 0
  BY <1>2, <1>3, FS_EmptySet
<1>5. Cardinality(RowsOf(f, some, r)) # 0
  BY <1>4 DEF PagesBy
<1>6. RowsOf(f, some, r) # {}
  BY <1>5, FS_EmptySet
<1> QED
  BY <1>6 DEF RowsOf

\* A row of a page has the rank of one that stands on it.
LEMMA SameRankOnPage ==
  ASSUME NEW f, NEW T \in SUBSET Nat, IsFiniteSet(T), NEW o \in Nat, NEW n \in Nat,
         NEW some \in PagesBy(f, T, o, n), NEW r \in some
  PROVE  \E s \in T : f[s] = f[r] /\ Cardinality(Below(T, s)) \in o .. (o + n - 1)
<1>1. r \in T /\ IsFiniteSet(some)
  BY Part DEF PagesBy
<1>2. r \in RowsOf(f, some, r) /\ IsFiniteSet(RowsOf(f, some, r))
  BY <1>1, Part DEF RowsOf
<1>3. Cardinality(RowsOf(f, some, r)) # 0
  BY <1>2, FS_EmptySet
<1>4. Cardinality(RowsOf(f, Slice(T, o, n), r)) # 0
  BY <1>1, <1>3 DEF PagesBy
<1>5. RowsOf(f, Slice(T, o, n), r) # {}
  BY <1>4, FS_EmptySet
<1>6. PICK s : s \in RowsOf(f, Slice(T, o, n), r)
  BY <1>5
<1>7. s \in T /\ f[s] = f[r] /\ Cardinality({t \in T : t < s}) \in o .. (o + n - 1)
  BY <1>6 DEF RowsOf, Slice
<1> QED
  BY <1>7 DEF Below

\* The rows of one rank among the first o + n are those among the first o and
\* those on the page of n that follows.
LEMMA FirstAndPage ==
  ASSUME NEW f, IsOrder(f), NEW A, NEW T \in SUBSET Nat, IsFiniteSet(T), Appended(f, A, T),
         NEW r \in A, NEW o \in Nat, NEW n \in Nat, NEW m \in Nat, m = o + n
  PROVE  Cardinality(FirstOf(f, A, r, m))
           = Cardinality(FirstOf(f, A, r, o)) + Cardinality(RowsOf(f, Slice(T, o, n), r))
<1> DEFINE P == RowsOf(f, Slice(T, o, n), r)
           F == FirstOf(f, A, r, o)
           C(s) == Cardinality(Below(A, s))
<1>0. A \subseteq T
  BY DEF Appended
<1>1. ASSUME NEW s \in A
      PROVE  C(s) \in Nat /\ Cardinality({t \in T : t < s}) = C(s)
  <2>1. Below(T, s) = Below(A, s)
    BY SamePosition
  <2>2. Cardinality(Below(T, s)) \in Nat
    BY Part DEF Below
  <2> QED
    BY <2>1, <2>2 DEF Below
<1>2. P \subseteq A
  <2>1. Slice(T, o, n) \in SUBSET T
    BY DEF Slice
  <2> QED
    BY <2>1, SameRows
<1>3. ASSUME NEW s \in A
      PROVE  /\ s \in P <=> f[s] = f[r] /\ C(s) \in o .. (o + n - 1)
             /\ s \in F <=> f[s] = f[r] /\ C(s) < o
             /\ s \in FirstOf(f, A, r, m) <=> f[s] = f[r] /\ C(s) < m
  <2>1. s \in P <=> f[s] = f[r] /\ C(s) \in o .. (o + n - 1)
    BY <1>0, <1>1 DEF RowsOf, Slice
  <2>2. s \in F <=> f[s] = f[r] /\ C(s) < o
    BY DEF FirstOf, RowsOf
  <2>3. s \in FirstOf(f, A, r, m) <=> f[s] = f[r] /\ C(s) < m
    BY DEF FirstOf, RowsOf
  <2> QED
    BY <2>1, <2>2, <2>3
<1>4. F \subseteq A /\ FirstOf(f, A, r, m) \subseteq A
  BY DEF FirstOf, RowsOf
<1> HIDE DEF P, F, C
<1>5. ASSUME NEW s \in A
      PROVE  /\ s \in FirstOf(f, A, r, m) <=> s \in F \/ s \in P
             /\ ~(s \in F /\ s \in P)
  <2>1. C(s) \in Nat
    BY <1>1
  <2>2. C(s) < m <=> (C(s) < o \/ C(s) \in o .. (o + n - 1))
    BY <2>1
  <2>3. ~(C(s) < o /\ C(s) \in o .. (o + n - 1))
    BY <2>1
  <2> QED
    BY <1>3, <2>2, <2>3
<1>7. FirstOf(f, A, r, m) = F \cup P /\ F \cap P = {}
  BY <1>2, <1>4, <1>5
<1>8. IsFiniteSet(F) /\ IsFiniteSet(P)
  BY <1>0, <1>2, <1>4, Part
<1>9. Cardinality(F \cup P) = Cardinality(F) + Cardinality(P)
  <2>1. Cardinality(F \cup P) = Cardinality(F) + Cardinality(P) - 0
    BY <1>7, <1>8, FS_Union, FS_EmptySet
  <2>2. Cardinality(F) \in Nat /\ Cardinality(P) \in Nat
    BY <1>8, FS_CardinalityType
  <2> QED
    BY <2>1, <2>2
<1>10. Cardinality(FirstOf(f, A, r, m)) = Cardinality(F) + Cardinality(P)
  BY <1>7, <1>9
<1> QED
  BY <1>10 DEF F, P

\* What an answer adds to the pairs of one rank.
LEMMA PairsAdded ==
  ASSUME NEW f, NEW p \in Nat, NEW pairs \in SUBSET ((0 .. p - 1) \X Nat), IsFiniteSet(pairs),
         NEW some, IsFiniteSet(some), NEW r
  PROVE  /\ IsFiniteSet(pairs \cup ({p} \X some))
         /\ Cardinality(PairsOf(f, pairs \cup ({p} \X some), r))
              = Cardinality(PairsOf(f, pairs, r)) + Cardinality(RowsOf(f, some, r))
<1> DEFINE O == PairsOf(f, pairs, r)
           N == {p} \X RowsOf(f, some, r)
<1>1. PairsOf(f, pairs \cup ({p} \X some), r) = O \cup N
  <2>1. ASSUME NEW g PROVE (g \in {p} \X some /\ f[g[2]] = f[r]) <=> g \in N
    BY DEF RowsOf
  <2> QED
    BY <2>1 DEF PairsOf
<1>2. O \cap N = {}
  <2>1. \A g \in pairs : g[1] # p
    OBVIOUS
  <2> QED
    BY <2>1 DEF PairsOf
<1>3. IsFiniteSet({p}) /\ Cardinality({p}) = 1
  BY FS_Singleton
<1>4. IsFiniteSet({p} \X some)
  BY <1>3, FS_Product
<1>5. IsFiniteSet(O) /\ IsFiniteSet(RowsOf(f, some, r))
  BY Part DEF PairsOf, RowsOf
<1>6. IsFiniteSet(N) /\ Cardinality(N) = 1 * Cardinality(RowsOf(f, some, r))
  BY <1>3, <1>5, FS_Product
<1>7. Cardinality(O) \in Nat /\ Cardinality(RowsOf(f, some, r)) \in Nat
  BY <1>5, FS_CardinalityType
<1> HIDE DEF O, N
<1>8. Cardinality(O \cup N) = Cardinality(O) + Cardinality(RowsOf(f, some, r))
  <2>1. Cardinality(O \cup N) = Cardinality(O) + Cardinality(N) - 0
    BY <1>2, <1>5, <1>6, FS_Union, FS_EmptySet
  <2> QED
    BY <1>6, <1>7, <2>1
<1>9. IsFiniteSet(pairs \cup ({p} \X some))
  BY <1>4, FS_Union
<1>10. Cardinality(PairsOf(f, pairs \cup ({p} \X some), r))
         = Cardinality(O) + Cardinality(RowsOf(f, some, r))
  BY <1>1, <1>8
<1> QED
  BY <1>9, <1>10 DEF O

\* A page gives a walk, of every rank, as many rows as stand on it.
LEMMA PageDelivers ==
  ASSUME NEW f, IsOrder(f), NEW A, NEW T \in SUBSET Nat, IsFiniteSet(T), Appended(f, A, T),
         NEW o \in Nat, NEW n \in Nat, NEW m \in Nat, m = o + n,
         NEW some \in PagesBy(f, T, o, n),
         NEW p \in Nat, NEW pairs \in SUBSET ((0 .. p - 1) \X Nat), IsFiniteSet(pairs), NEW r \in A,
         Cardinality(PairsOf(f, pairs, r)) = Cardinality(FirstOf(f, A, r, o))
  PROVE  Cardinality(PairsOf(f, pairs \cup ({p} \X some), r)) = Cardinality(FirstOf(f, A, r, m))
<1>1. r \in T /\ IsFiniteSet(some)
  BY Part DEF PagesBy, Appended
<1>2. Cardinality(RowsOf(f, some, r)) = Cardinality(RowsOf(f, Slice(T, o, n), r))
  BY <1>1 DEF PagesBy
<1>3. Cardinality(FirstOf(f, A, r, m))
        = Cardinality(FirstOf(f, A, r, o)) + Cardinality(RowsOf(f, Slice(T, o, n), r))
  BY FirstAndPage
<1>4. Cardinality(PairsOf(f, pairs \cup ({p} \X some), r))
        = Cardinality(PairsOf(f, pairs, r)) + Cardinality(RowsOf(f, some, r))
  BY <1>1, PairsAdded
<1> QED
  BY <1>2, <1>3, <1>4

\* Before the first page nothing is delivered, after the last row everything is.
LEMMA NothingFirst ==
  ASSUME NEW f, NEW A \in SUBSET Nat, IsFiniteSet(A), NEW r
  PROVE  Cardinality(PairsOf(f, {}, r)) = Cardinality(FirstOf(f, A, r, 0))
<1>1. PairsOf(f, {}, r) = {}
  BY DEF PairsOf
<1>2. FirstOf(f, A, r, 0) = {}
  <2>1. ASSUME NEW s \in A PROVE ~(Cardinality(Below(A, s)) < 0)
    <3>1. Cardinality(Below(A, s)) \in Nat
      BY Part DEF Below
    <3> QED
      BY <3>1
  <2> QED
    BY <2>1 DEF FirstOf, RowsOf
<1> QED
  BY <1>1, <1>2

LEMMA AllDelivered ==
  ASSUME NEW f, NEW A \in SUBSET Nat, IsFiniteSet(A), NEW r, NEW n \in Nat, Cardinality(A) <= n
  PROVE  FirstOf(f, A, r, n) = RowsOf(f, A, r)
<1>1. ASSUME NEW s \in A PROVE Cardinality(Below(A, s)) < n
  <2>1. Below(A, s) \subseteq A \ {s} /\ IsFiniteSet(A \ {s})
    BY FS_RemoveElement DEF Below
  <2>2. Cardinality(Below(A, s)) <= Cardinality(A \ {s}) /\ Cardinality(A \ {s}) \in Nat
    BY <2>1, Part
  <2>3. Cardinality(A \ {s}) = Cardinality(A) - 1 /\ Cardinality(A) \in Nat
    BY FS_RemoveElement, FS_CardinalityType
  <2>4. Cardinality(Below(A, s)) \in Nat
    BY <2>1, Part
  <2> QED
    BY <2>2, <2>3, <2>4
<1> QED
  BY <1>1 DEF FirstOf, RowsOf

\* Where in the listing the rows of one rank may stand, seen from one of them.
LEMMA RankAround ==
  ASSUME NEW f, IsOrder(f), NEW T, NEW U \in SUBSET Nat, IsFiniteSet(U), Appended(f, T, U), NEW s \in T
  PROVE  /\ Cardinality(Below(T, s)) \in Nat
         /\ Cardinality({t \in U : f[t] < f[s]}) \in Nat
         /\ Cardinality({t \in U : f[t] < f[s]}) <= Cardinality(Below(T, s))
         /\ Cardinality({t \in U : f[t] <= f[s]}) \in Nat
         /\ Cardinality(Below(T, s)) + 1 <= Cardinality({t \in U : f[t] <= f[s]})
<1> DEFINE Before == {t \in U : f[t] < f[s]}
           UpTo == {t \in U : f[t] <= f[s]}
<1>1. s \in U /\ s \in Nat /\ T \subseteq U
  BY DEF Appended
<1>2. Below(T, s) = Below(U, s)
  BY SamePosition
<1>3. IsFiniteSet(Below(U, s)) /\ Cardinality(Below(U, s)) \in Nat
  BY Part DEF Below
<1>4. Before \subseteq Below(U, s)
  <2>1. ASSUME NEW t \in U, f[t] < f[s] PROVE t < s
    BY <1>1, <2>1, Ordered
  <2> QED
    BY <2>1 DEF Below
<1>5. Below(U, s) \cup {s} \subseteq UpTo
  <2>1. ASSUME NEW t \in U, t < s PROVE f[t] <= f[s]
    BY <1>1, <2>1 DEF IsOrder
  <2>2. f[s] <= f[s]
    BY <1>1 DEF IsOrder
  <2> QED
    BY <1>1, <2>1, <2>2 DEF Below
<1>6. IsFiniteSet(UpTo) /\ Cardinality(UpTo) \in Nat
  BY Part
<1>7. Cardinality(Below(U, s) \cup {s}) = Cardinality(Below(U, s)) + 1
  <2>1. s \notin Below(U, s)
    BY <1>1 DEF Below
  <2> QED
    BY <1>3, <2>1, FS_AddElement
<1> HIDE DEF Before, UpTo
<1>8. Cardinality(Before) \in Nat /\ Cardinality(Before) <= Cardinality(Below(U, s))
  BY <1>3, <1>4, Part
<1>9. Cardinality(Below(U, s)) + 1 <= Cardinality(UpTo)
  BY <1>5, <1>6, <1>7, Part
<1> QED
  BY <1>2, <1>3, <1>6, <1>8, <1>9 DEF Before, UpTo

-------------------------------------------------------------------------------

\* The inductive invariant, in parts.
MaxTotal == Cardinality(Rows) + MaxOrphans

Bounds ==
  /\ \A s \in Slots : reads[s] # NoRead /\ reads[s].total # Unread => reads[s].total <= MaxTotal
  /\ total # Unread => total <= MaxTotal
  /\ walking => page >= 1 /\ state # "idle"
  /\ state = "answered" => items # NoRows /\ total # Unread
  /\ ~Answered /\ state # "refused" => given = {}

\* The pages the walk has been given so far.
Done == IF state = "answered" THEN page ELSE page - 1

WindowHolds == source # "elastic" \/ Cardinality(base) <= Window

\* The rows that are listed, those that are counted.
Counted == Cardinality(table) + orphans

\* The listing as it was at some time since the base was taken.
AsOf(some) == Appended(ByRank, base, some) /\ Appended(ByRank, some, table)

\* Rows and total that were read since then.
PageRead(p, size, part) ==
  \E some \in SUBSET Rows : AsOf(some) /\ part \in PagesBy(ByRank, some, Offset(p, size), size)

TotalRead(n) == n <= Counted /\ (WindowHolds => Cardinality(base) <= n)

ReadsKept ==
  \A s \in Slots : reads[s] # NoRead /\ reads[s].since =>
    /\ reads[s].items # NoRows => PageRead(reads[s].page, reads[s].limit, reads[s].items)
    /\ reads[s].total # Unread => TotalRead(reads[s].total)

AnswerKept == state = "answered" => PageRead(page, limit, items) /\ TotalRead(total)

\* The page a walk is at was announced by a total that still counts.
PageInside == walking /\ page > 1 => (page - 1) * limit < Counted

Delivered ==
  walking /\ state # "refused" =>
    /\ IsFiniteSet(given) /\ given \subseteq (0 .. Done) \X Nat
    /\ \A r \in base : Cardinality(PairsOf(ByRank, given, r))
                         = Cardinality(FirstOf(ByRank, base, r, Done * limit))

Kept ==
  /\ Appended(ByRank, base, table)
  /\ ReadsKept
  /\ ~older => AnswerKept /\ PageInside /\ Delivered

IInv ==
  /\ TypeOK
  /\ Bounds
  /\ Kept

-------------------------------------------------------------------------------

LEMMA Few ==
  /\ IsFiniteSet(Rows) /\ Rows \in SUBSET Nat
  /\ Cardinality(Rows) \in Nat /\ MaxOrphans \in Nat
  /\ MaxTotal \in Nat /\ MaxTotal + MaxLimit <= Word
  /\ MaxLimit \in Nat \ {0} /\ Word \in Nat
BY ConstantsAssumption, FS_CardinalityType DEF MaxTotal

LEMMA FewOf ==
  ASSUME NEW some \in SUBSET Rows
  PROVE  /\ IsFiniteSet(some) /\ some \in SUBSET Nat
         /\ Cardinality(some) \in Nat /\ Cardinality(some) <= Cardinality(Rows)
BY Few, Part

LEMMA FewCounted ==
  ASSUME TypeOK
  PROVE  /\ Cardinality(table) \in Nat /\ Counted \in 0..MaxTotal /\ Counted \in Nat
         /\ Cardinality(table) <= Counted /\ orphans \in Nat
<1>1. /\ Cardinality(table) \in Nat /\ Cardinality(table) <= Cardinality(Rows)
      /\ orphans \in 0..MaxOrphans
  BY FewOf DEF TypeOK
<1> QED
  BY <1>1, Few DEF Counted, MaxTotal

LEMMA OffsetExact ==
  ASSUME NEW p \in Nat \ {0}, NEW size \in 1..MaxLimit, (p - 1) * size < Word
  PROVE  Offset(p, size) = (p - 1) * size /\ Offset(p, size) \in Nat
<1>1. p - 1 \in Nat /\ size \in Nat \ {0} /\ (p - 1) * 1 <= (p - 1) * size
  BY Few
<1>2. (p - 1) * size \in Nat /\ p - 1 < Word
  BY <1>1, Few
<1>3. p - 1 \in Int64 /\ (p - 1) * size \in Int64
  BY <1>1, <1>2, Int64Nat
<1> QED
  BY <1>2, <1>3, WrapsNothing DEF Offset

LEMMA PagesExact ==
  ASSUME NEW n \in 0..MaxTotal, NEW size \in 1..MaxLimit, NEW m \in Modes
  PROVE  /\ PagesFor(m, n, size) = TotalPages(n, size)
         /\ TotalPages(n, size) \in 0..MaxTotal
<1>0. size \in Nat \ {0} /\ n \in Nat /\ n + size <= Word
  BY Few
<1>1. McpPages(n, size) = TotalPages(n, size)
  BY <1>0, FormulasAgree
<1>2. TotalPages(n, size) \in Nat
  <2>1. n \div size \in Nat
    BY <1>0, Divide
  <2> QED
    BY <2>1 DEF TotalPages
<1>3. ~(n < TotalPages(n, size))
  <2>1. ~(n * size < n)
    BY <1>0, Times
  <2> QED
    BY <1>0, <2>1, PageBegins
<1>4. TotalPages(n, size) \in 0..MaxTotal
  BY <1>2, <1>3, Few
<1> QED
  BY <1>1, <1>4 DEF PagesFor

\* What the handlers and the tool make of the parameters.
LEMMA Parameters ==
  ASSUME NEW m \in Modes, NEW raw \in Param
  PROVE  /\ LimitOf(m, raw) \in 1..MaxLimit
         /\ PageOf(m, raw) \in Int64
         /\ PageOf(m, 1) = 1
<1>1. 1 \in Int64 /\ 1 # Absent /\ DefaultLimit \in 1..MaxLimit /\ MaxLimit \in Nat
  BY ConstantsAssumption DEF Int64
<1>2. ParseIntDefault(raw, DefaultLimit) \in Int /\ ParseIntDefault(raw, 1) \in Int64
  BY <1>1, ConstantsAssumption DEF ParseIntDefault, Param, Int64
<1>3. LimitOf(m, raw) \in 1..MaxLimit
  BY <1>1, <1>2 DEF LimitOf, ClampInt
<1>4. PageOf(m, raw) \in Int64
  BY <1>1, <1>2 DEF PageOf
<1>5. PageOf(m, 1) = 1
  BY <1>1 DEF PageOf, ParseIntDefault
<1> QED
  BY <1>3, <1>4, <1>5

LEMMA RawTyped == RawPages \in SUBSET Param /\ RawLimits \in SUBSET Param
BY ConstantsAssumption

LEMMA PagesAreRows ==
  ASSUME NEW some \in SUBSET Rows, NEW o, NEW n, NEW part \in Slices(some, o, n)
  PROVE  part \in SUBSET Rows
BY DEF Slices

LEMMA ReadTyped ==
  ASSUME TypeOK, NEW s \in Slots, reads[s] # NoRead
  PROVE  /\ reads[s] \in Read
         /\ reads[s].page \in Int64 /\ reads[s].limit \in 1..MaxLimit
         /\ reads[s].items = NoRows \/ reads[s].items \in SUBSET Rows
         /\ reads[s].total \in Nat \cup {Unread}
BY DEF TypeOK, Read

LEMMA Stored ==
  ASSUME TypeOK, NEW s \in Slots, NEW new \in Read \cup {NoRead},
         reads' = [reads EXCEPT ![s] = new]
  PROVE  /\ reads' \in [Slots -> Read \cup {NoRead}]
         /\ \A t \in Slots : reads'[t] = IF t = s THEN new ELSE reads[t]
BY DEF TypeOK

-------------------------------------------------------------------------------

LEMMA SameRanks == UNCHANGED listing => ByRank' = ByRank
BY DEF ByRank, Rank, listing

LEMMA RanksOrder == TypeOK => IsOrder(ByRank)
<1> SUFFICES ASSUME TypeOK PROVE IsOrder(ByRank)
  OBVIOUS
<1>1. ASSUME NEW r \in Nat, NEW s \in Nat, r <= s
      PROVE  r \div 2 \in Nat /\ r \div 2 <= s \div 2
  BY <1>1, DivideMonotone
<1>2. CASE ties
  BY <1>1, <1>2 DEF IsOrder, ByRank, Rank
<1>3. CASE ~ties
  BY <1>3 DEF IsOrder, ByRank, Rank
<1> QED
  BY <1>2, <1>3

\* The result of the query, in the terms of the counting lemmas.
LEMMA SlicesByRank ==
  ASSUME NEW rows \in SUBSET Nat, NEW o, NEW n, NEW some \in Slices(rows, o, n)
  PROVE  some \in PagesBy(ByRank, rows, o, n)
<1>1. ASSUME NEW part \in SUBSET rows, NEW r \in rows
      PROVE  {s \in part : Rank(s) = Rank(r)} = RowsOf(ByRank, part, r)
  <2>1. ASSUME NEW s \in rows PROVE ByRank[s] = Rank(s)
    BY DEF ByRank
  <2> QED
    BY <2>1 DEF RowsOf
<1>2. some \in SUBSET rows /\ Slice(rows, o, n) \in SUBSET rows
  BY DEF Slices, Slice
<1>3. ASSUME NEW r \in rows
      PROVE  Cardinality(RowsOf(ByRank, some, r))
               = Cardinality(RowsOf(ByRank, Slice(rows, o, n), r))
  <2>1. Cardinality({s \in some : Rank(s) = Rank(r)})
          = Cardinality({s \in Slice(rows, o, n) : Rank(s) = Rank(r)})
    BY DEF Slices
  <2> QED
    BY <1>1, <1>2, <2>1
<1> QED
  BY <1>2, <1>3 DEF PagesBy

LEMMA AppendNothing ==
  ASSUME NEW f, NEW rows PROVE Appended(f, rows, rows)
BY DEF Appended

\* The numbers of rows that an undisturbed listing keeps.
LEMMA AppendedCounts ==
  ASSUME NEW f, NEW rows, NEW more \in SUBSET Rows, Appended(f, rows, more)
  PROVE  /\ rows \in SUBSET Rows
         /\ Cardinality(rows) \in Nat /\ Cardinality(more) \in Nat
         /\ Cardinality(rows) <= Cardinality(more)
BY Few, Part DEF Appended

LEMMA BehindAppended ==
  ASSUME NEW some \in SUBSET Rows, NEW more \in SUBSET Rows, Behind(some, more)
  PROVE  Appended(ByRank, some, more)
<1>1. ASSUME NEW s \in Rows PROVE ByRank[s] = Rank(s)
  BY Few DEF ByRank
<1> QED
  BY <1>1 DEF Behind, Appended

\* The base stands, and others have at most appended.
Later ==
  /\ UNCHANGED <<listing, base>>
  /\ table' \in SUBSET Rows /\ Appended(ByRank, table, table')
  /\ Counted' \in Nat /\ Counted <= Counted'

LEMMA NothingChanged ==
  ASSUME TypeOK, UNCHANGED <<listing, content, base>>
  PROVE  Later /\ Counted' = Counted
<1>1. Counted' = Counted /\ table' = table
  BY DEF Counted, content
<1>2. Counted \in Nat /\ table \in SUBSET Rows
  BY FewCounted DEF TypeOK
<1> QED
  BY <1>1, <1>2, AppendNothing DEF Later

LEMMA PageReadStays ==
  ASSUME TypeOK, Later, NEW p, NEW size, NEW part, PageRead(p, size, part)
  PROVE  PageRead(p, size, part)'
<1>1. PICK some \in SUBSET Rows :
        AsOf(some) /\ part \in PagesBy(ByRank, some, Offset(p, size), size)
  BY DEF PageRead
<1>2. ByRank' = ByRank /\ IsOrder(ByRank) /\ table' \in SUBSET Nat /\ base' = base
  BY SameRanks, RanksOrder, FewOf DEF Later
<1>3. Appended(ByRank, some, table')
  <2>1. Appended(ByRank, some, table) /\ Appended(ByRank, table, table')
    BY <1>1 DEF AsOf, Later
  <2> QED
    BY <1>2, <2>1, AppendedTwice
<1>4. AsOf(some)'
  BY <1>1, <1>2, <1>3 DEF AsOf
<1> QED
  BY <1>1, <1>2, <1>4 DEF PageRead

LEMMA TotalReadStays ==
  ASSUME TypeOK, Later, NEW n \in Nat, TotalRead(n)
  PROVE  TotalRead(n)'
<1>1. WindowHolds' <=> WindowHolds
  BY DEF WindowHolds, Later, listing
<1>2. n <= Counted /\ Counted \in Nat /\ Counted' \in Nat /\ Counted <= Counted'
  BY FewCounted DEF TotalRead, Later
<1>3. n <= Counted'
  BY <1>2
<1> QED
  BY <1>1, <1>3 DEF TotalRead, Later

LEMMA ReadsStay ==
  ASSUME TypeOK, Later, reads' = reads, ReadsKept
  PROVE  ReadsKept'
<1> SUFFICES ASSUME NEW s \in Slots, reads[s] # NoRead, reads[s].since
             PROVE  /\ reads[s].items # NoRows
                         => PageRead(reads[s].page, reads[s].limit, reads[s].items)'
                    /\ reads[s].total # Unread => TotalRead(reads[s].total)'
  BY DEF ReadsKept
<1>1. reads[s].total # Unread => reads[s].total \in Nat
  BY ReadTyped
<1> QED
  BY <1>1, PageReadStays, TotalReadStays DEF ReadsKept

-------------------------------------------------------------------------------

LEMMA InitIInv == Init => IInv
<1> SUFFICES ASSUME Init PROVE IInv
  OBVIOUS
<1>1. 1 \in Int64 /\ DefaultLimit \in 1..MaxLimit /\ 0 \in 0..MaxOrphans /\ 0 \in 0..MaxEdits
  BY ConstantsAssumption DEF Int64
<1>2. ties \in BOOLEAN /\ orphans \in 0..MaxOrphans
  BY <1>1, ConstantsAssumption DEF Init
<1>3. mode \in Modes
  BY DEF Init, Modes, Ways
<1>4. TypeOK
  BY <1>1, <1>2, <1>3 DEF Init, TypeOK
<1>5. Bounds
  BY DEF Init, Bounds, Unread
<1>6. Kept
  BY AppendNothing DEF Init, Kept, ReadsKept, AnswerKept, PageInside, Delivered
<1> QED
  BY <1>4, <1>5, <1>6 DEF IInv

LEMMA ReceiveKeeps ==
  ASSUME IInv, NEW m \in Modes, NEW p \in Param, NEW l \in Param, Receive(m, p, l),
         walking' \in BOOLEAN, walking' => page' = 1
  PROVE  IInv'
<1>1. /\ limit' \in 1..MaxLimit /\ page' \in Int64 /\ mode' = m
      /\ state = "idle" /\ state' = "asking"
      /\ UNCHANGED <<listing, content, reads, resp, hist>>
  BY Parameters DEF Receive
<1>2. TypeOK /\ Bounds /\ Kept
  BY DEF IInv
<1>3. given = {} /\ given' = {}
  BY <1>1, <1>2 DEF Bounds, Answered, hist
<1>4. TypeOK'
  BY <1>1, <1>2 DEF TypeOK, listing, content, resp, hist
<1>5. Bounds'
  BY <1>1, <1>2, <1>3 DEF Bounds, resp
<1>6. Later
  BY <1>1, <1>2, NothingChanged DEF hist
<1>7. ReadsKept'
  BY <1>1, <1>2, <1>6, ReadsStay DEF Kept
<1>8. Delivered'
  <2> SUFFICES ASSUME walking' PROVE Delivered'
    BY DEF Delivered
  <2>1. Done' = 0
    BY <1>1 DEF Done
  <2>2. limit' \in Nat /\ Done' * limit' = 0
    <3>1. limit' \in Nat
      BY <1>1, Few
    <3>2. \A n \in Nat : 0 * n = 0
      OBVIOUS
    <3> QED
      BY <2>1, <3>1, <3>2
  <2>3. base \in SUBSET Nat /\ IsFiniteSet(base) /\ base' = base /\ ByRank' = ByRank
    BY <1>1, <1>2, FewOf, SameRanks DEF TypeOK, hist
  <2>4. ASSUME NEW r \in base
        PROVE  Cardinality(PairsOf(ByRank, {}, r)) = Cardinality(FirstOf(ByRank, base, r, 0))
    BY <2>3, NothingFirst
  <2> QED
    BY <1>3, <2>2, <2>3, <2>4, FS_EmptySet DEF Delivered
<1>9. AnswerKept' /\ PageInside'
  BY <1>1 DEF AnswerKept, PageInside
<1>10. Appended(ByRank, base, table)'
  BY <1>1, <1>2, SameRanks DEF Kept, hist, content
<1> QED
  BY <1>4, <1>5, <1>7, <1>8, <1>9, <1>10 DEF IInv, Kept

LEMMA RefuseKeeps ==
  ASSUME IInv, NEW code \in {400, 404, 500}, Refuse(code)
  PROVE  IInv'
<1>1. /\ state' = "refused" /\ status' = code
      /\ UNCHANGED <<listing, content, reads, req, page, items, total, hist>>
  BY DEF Refuse
<1>2. TypeOK /\ Bounds /\ Kept
  BY DEF IInv
<1>3. TypeOK' /\ Bounds'
  BY <1>1, <1>2 DEF TypeOK, Bounds, listing, content, req, hist
<1>4. Later /\ Counted' = Counted
  BY <1>1, <1>2, NothingChanged DEF hist
<1>5. ReadsKept'
  BY <1>1, <1>2, <1>4, ReadsStay DEF Kept
<1>6. Appended(ByRank, base, table)'
  BY <1>1, <1>2, SameRanks DEF Kept, hist, content
<1>7. AnswerKept' /\ Delivered'
  BY <1>1 DEF AnswerKept, Delivered
<1>8. PageInside => PageInside'
  BY <1>1, <1>4 DEF PageInside, req
<1>9. older' = older
  BY <1>1 DEF hist
<1> QED
  BY <1>2, <1>3, <1>5, <1>6, <1>7, <1>8, <1>9 DEF IInv, Kept

\* A step of the service changes one slot.
LEMMA SlotKeeps ==
  ASSUME IInv, NEW s \in Slots, NEW new \in Read \cup {NoRead},
         reads' = [reads EXCEPT ![s] = new],
         new # NoRead /\ new.total # Unread => new.total <= MaxTotal,
         new # NoRead /\ new.since /\ new.items # NoRows => PageRead(new.page, new.limit, new.items),
         new # NoRead /\ new.since /\ new.total # Unread => new.total \in Nat /\ TotalRead(new.total),
         UNCHANGED <<listing, content, state, req, page, resp, hist>>
  PROVE  IInv'
<1>1. TypeOK /\ Bounds /\ Kept
  BY DEF IInv
<1>2. /\ reads' \in [Slots -> Read \cup {NoRead}]
      /\ \A t \in Slots : reads'[t] = IF t = s THEN new ELSE reads[t]
  BY <1>1, Stored
<1>3. TypeOK'
  BY <1>1, <1>2 DEF TypeOK, listing, content, req, resp, hist
<1>4. Bounds'
  BY <1>1, <1>2 DEF Bounds, Answered, req, resp, hist
<1>5. Later /\ Counted' = Counted
  BY <1>1, NothingChanged DEF hist
<1>6. ReadsKept'
  <2> SUFFICES ASSUME NEW t \in Slots, reads'[t] # NoRead, reads'[t].since
               PROVE  /\ (reads[t].items # NoRows
                            => PageRead(reads[t].page, reads[t].limit, reads[t].items))'
                      /\ (reads[t].total # Unread => TotalRead(reads[t].total))'
    BY DEF ReadsKept
  <2>1. CASE t = s
    <3>1. reads'[t] = new
      BY <1>2, <2>1
    <3> QED
      BY <1>1, <1>5, <3>1, PageReadStays, TotalReadStays
  <2>2. CASE t # s
    <3>1. reads'[t] = reads[t]
      BY <1>2, <2>2
    <3>2. reads[t].total # Unread => reads[t].total \in Nat
      BY <1>1, <3>1, ReadTyped
    <3>3. /\ reads[t].items # NoRows => PageRead(reads[t].page, reads[t].limit, reads[t].items)
          /\ reads[t].total # Unread => TotalRead(reads[t].total)
      BY <1>1, <3>1 DEF Kept, ReadsKept
    <3> QED
      BY <1>1, <1>5, <3>1, <3>2, <3>3, PageReadStays, TotalReadStays
  <2> QED
    BY <2>1, <2>2
<1>7. Appended(ByRank, base, table)' /\ ByRank' = ByRank
  BY <1>1, SameRanks DEF Kept, hist, content
<1>8. ASSUME ~older' PROVE AnswerKept' /\ PageInside' /\ Delivered'
  <2>1. AnswerKept /\ PageInside /\ Delivered
    BY <1>1, <1>8 DEF Kept, hist
  <2>2. AnswerKept'
    <3>1. state = "answered" => total \in Nat
      BY <1>1 DEF Bounds, TypeOK
    <3>2. state = "answered" => PageRead(page, limit, items)' /\ TotalRead(total)'
      BY <1>1, <1>5, <2>1, <3>1, PageReadStays, TotalReadStays DEF AnswerKept, req, resp
    <3> QED
      BY <3>2 DEF AnswerKept, req, resp
  <2>3. PageInside'
    BY <1>5, <2>1 DEF PageInside, req
  <2>4. Delivered'
    BY <1>7, <2>1 DEF Delivered, Done, req, hist
  <2> QED
    BY <2>2, <2>3, <2>4
<1> QED
  BY <1>3, <1>4, <1>6, <1>7, <1>8 DEF IInv, Kept

\* The query reads a page of the listing as it is.
LEMMA ItemsRead ==
  ASSUME IInv, NEW p, NEW size, NEW part \in Slices(table, Offset(p, size), size)
  PROVE  part \in SUBSET Rows /\ PageRead(p, size, part)
<1>1. table \in SUBSET Rows /\ table \in SUBSET Nat
  BY FewOf DEF IInv, TypeOK
<1>2. part \in PagesBy(ByRank, table, Offset(p, size), size)
  BY <1>1, SlicesByRank
<1>3. AsOf(table)
  BY AppendNothing DEF IInv, Kept, AsOf
<1> QED
  BY <1>1, <1>2, <1>3, PagesAreRows DEF PageRead

\* A count that is read now covers what was there when the base was taken.
LEMMA CountRead ==
  ASSUME IInv, NEW n \in Nat, n <= Counted, n \in {Counted, Cardinality(table), Window},
         n = Window => source = "elastic"
  PROVE  TotalRead(n)
<1>1. TypeOK /\ Appended(ByRank, base, table)
  BY DEF IInv, Kept
<1>2. Cardinality(base) \in Nat /\ Cardinality(table) \in Nat /\ Cardinality(base) <= Cardinality(table)
  BY <1>1, AppendedCounts DEF TypeOK
<1>3. Cardinality(table) <= Counted /\ Counted \in Nat
  BY <1>1, FewCounted
<1>4. WindowHolds /\ n = Window => Cardinality(base) <= n
  BY DEF WindowHolds
<1>5. WindowHolds => Cardinality(base) <= n
  BY <1>2, <1>3, <1>4
<1> QED
  BY <1>5 DEF TotalRead

LEMMA StartReadKeeps ==
  ASSUME IInv, NEW s \in Slots, NEW p \in Int64, NEW size \in 1..MaxLimit, StartRead(s, p, size)
  PROVE  IInv'
<1> DEFINE new == [page |-> p, limit |-> size, items |-> NoRows, total |-> Unread, since |-> TRUE]
<1>1. new \in Read \cup {NoRead} /\ new.items = NoRows /\ new.total = Unread
  BY DEF Read
<1>2. /\ reads' = [reads EXCEPT ![s] = new]
      /\ UNCHANGED <<listing, content, state, req, page, resp, hist>>
  BY DEF StartRead
<1> HIDE DEF new
<1> QED
  BY <1>1, <1>2, SlotKeeps

LEMMA DropKeeps ==
  ASSUME IInv, NEW s \in Slots, Drop(s)
  PROVE  IInv'
<1>1. /\ reads' = [reads EXCEPT ![s] = NoRead]
      /\ UNCHANGED <<listing, content, state, req, page, resp, hist>>
  BY DEF Drop
<1> QED
  BY <1>1, SlotKeeps

\* What is known of a read that is under way.
LEMMA InSlot ==
  ASSUME IInv, NEW s \in Slots, reads[s] # NoRead
  PROVE  /\ reads[s].total # Unread => reads[s].total \in Nat /\ reads[s].total <= MaxTotal
         /\ reads[s].since /\ reads[s].items # NoRows
              => PageRead(reads[s].page, reads[s].limit, reads[s].items)
         /\ reads[s].since /\ reads[s].total # Unread => TotalRead(reads[s].total)
<1>1. TypeOK /\ Bounds /\ ReadsKept
  BY DEF IInv, Kept
<1>2. reads[s].total # Unread => reads[s].total \in Nat
  BY <1>1, ReadTyped
<1> QED
  BY <1>1, <1>2 DEF Bounds, ReadsKept

LEMMA ReadRowsKeeps ==
  ASSUME IInv, NEW s \in Slots, ReadRows(s)
  PROVE  IInv'
<1>1. PICK some \in Slices(table, Offset(reads[s].page, reads[s].limit), reads[s].limit) :
        reads' = [reads EXCEPT ![s].items = some]
  BY DEF ReadRows
<1> DEFINE new == [reads[s] EXCEPT !.items = some]
<1>2. reads[s] \in Read /\ reads[s] # NoRead
  BY ReadTyped DEF ReadRows, IInv
<1>3. some \in SUBSET Rows /\ PageRead(reads[s].page, reads[s].limit, some)
  BY ItemsRead
<1>4. /\ new \in Read /\ new.page = reads[s].page /\ new.limit = reads[s].limit
      /\ new.items = some /\ new.total = reads[s].total /\ new.since = reads[s].since
  BY <1>2, <1>3 DEF Read
<1>5. reads' = [reads EXCEPT ![s] = new]
  BY <1>1
<1>6. UNCHANGED <<listing, content, state, req, page, resp, hist>>
  BY DEF ReadRows
<1> HIDE DEF new
<1> QED
  BY <1>2, <1>3, <1>4, <1>5, <1>6, InSlot, SlotKeeps

LEMMA ReadCountKeeps ==
  ASSUME IInv, NEW s \in Slots, ReadCount(s)
  PROVE  IInv'
<1> DEFINE new == [reads[s] EXCEPT !.total = Counted]
<1>1. reads' = [reads EXCEPT ![s] = new]
  BY DEF ReadCount, Counted
<1>2. reads[s] \in Read /\ reads[s] # NoRead
  BY ReadTyped DEF ReadCount, IInv
<1>3. Counted \in Nat /\ Counted <= MaxTotal /\ Counted <= Counted /\ source # "elastic"
  BY FewCounted, Few DEF IInv, ReadCount
<1>4. TotalRead(Counted)
  <2>1. WindowHolds => Cardinality(base) <= Counted
    <3>1. Cardinality(base) \in Nat /\ Cardinality(table) \in Nat
          /\ Cardinality(base) <= Cardinality(table) /\ Cardinality(table) <= Counted
      BY AppendedCounts, FewCounted DEF IInv, Kept, TypeOK
    <3> QED
      BY <1>3, <3>1
  <2> QED
    BY <1>3, <2>1 DEF TotalRead
<1>5. /\ new \in Read /\ new.page = reads[s].page /\ new.limit = reads[s].limit
      /\ new.items = reads[s].items /\ new.total = Counted /\ new.since = reads[s].since
  BY <1>2, <1>3 DEF Read
<1>6. UNCHANGED <<listing, content, state, req, page, resp, hist>>
  BY DEF ReadCount
<1> HIDE DEF new
<1> QED
  BY <1>1, <1>2, <1>3, <1>4, <1>5, <1>6, InSlot, SlotKeeps

LEMMA SearchKeeps ==
  ASSUME IInv, NEW s \in Slots, Search(s)
  PROVE  IInv'
<1> DEFINE n == IF Cardinality(table) > Window THEN Window ELSE Cardinality(table)
<1>1. PICK some \in Slices(table, Offset(reads[s].page, reads[s].limit), reads[s].limit) :
        reads' = [reads EXCEPT ![s].items = some, ![s].total = n]
  BY DEF Search
<1> DEFINE new == [reads[s] EXCEPT !.items = some, !.total = n]
<1>2. reads[s] \in Read /\ reads[s] # NoRead /\ source = "elastic"
  BY ReadTyped DEF Search, IInv
<1>3. some \in SUBSET Rows /\ PageRead(reads[s].page, reads[s].limit, some)
  BY ItemsRead
<1>4. n \in Nat /\ n <= Counted /\ n <= MaxTotal /\ n \in {Counted, Cardinality(table), Window}
  <2>1. /\ Cardinality(table) \in Nat /\ Counted \in 0..MaxTotal /\ Cardinality(table) <= Counted
        /\ Window \in Nat /\ MaxTotal \in Nat
    BY FewCounted, Few, ConstantsAssumption DEF IInv
  <2> QED
    BY <2>1
<1>5. TotalRead(n)
  <2> HIDE DEF n
  <2> QED
    BY <1>2, <1>4, CountRead
<1> HIDE DEF n
<1>6. /\ new \in Read /\ new.page = reads[s].page /\ new.limit = reads[s].limit
      /\ new.items = some /\ new.total = n /\ new.since = reads[s].since
  BY <1>2, <1>3, <1>4 DEF Read
<1>7. reads' = [reads EXCEPT ![s] = new]
  BY <1>1, <1>2
<1>8. UNCHANGED <<listing, content, state, req, page, resp, hist>>
  BY DEF Search
<1> HIDE DEF new
<1> QED
  BY <1>2, <1>3, <1>4, <1>5, <1>6, <1>7, <1>8, SlotKeeps

\* The offset of the page a walk is at did not wrap.
LEMMA WalkOffset ==
  ASSUME TypeOK, Bounds, walking, PageInside
  PROVE  /\ page \in Nat \ {0} /\ limit \in Nat \ {0}
         /\ Offset(page, limit) = (page - 1) * limit /\ Offset(page, limit) \in Nat
<1>1. page \in Nat \ {0} /\ limit \in 1..MaxLimit /\ limit \in Nat \ {0}
  BY Few DEF TypeOK, Bounds, Int64
<1>2. (page - 1) * limit < Word
  <2>1. CASE page = 1
    <3>1. (page - 1) * limit = 0
      BY <1>1, <2>1
    <3> QED
      BY <3>1, Few
  <2>2. CASE page > 1
    <3>1. (page - 1) * limit < Counted /\ Counted \in 0..MaxTotal
      BY <2>2, FewCounted DEF PageInside
    <3> QED
      BY <1>1, <3>1, Few
  <2> QED
    BY <1>1, <2>1, <2>2
<1> QED
  BY <1>1, <1>2, OffsetExact

\* An answer gives a walk what stands on its page, wherever it comes from.
LEMMA AnswerDelivers ==
  ASSUME TypeOK, Bounds, walking, state = "asking", PageInside, Delivered,
         NEW part, PageRead(page, limit, part)
  PROVE  /\ IsFiniteSet(given \cup ({page} \X part))
         /\ given \cup ({page} \X part) \subseteq (0 .. page) \X Nat
         /\ \A r \in base : Cardinality(PairsOf(ByRank, given \cup ({page} \X part), r))
                              = Cardinality(FirstOf(ByRank, base, r, page * limit))
<1>1. PICK rows \in SUBSET Rows :
        AsOf(rows) /\ part \in PagesBy(ByRank, rows, Offset(page, limit), limit)
  BY DEF PageRead
<1>2. /\ page \in Nat \ {0} /\ limit \in Nat \ {0} /\ page \in Nat /\ limit \in Nat
      /\ Offset(page, limit) = (page - 1) * limit /\ Offset(page, limit) \in Nat
  BY WalkOffset
<1>3. page * limit = Offset(page, limit) + limit /\ page * limit \in Nat
  BY <1>2
<1>4. rows \in SUBSET Nat /\ IsFiniteSet(rows) /\ IsOrder(ByRank)
  BY FewOf, RanksOrder
<1>5. Appended(ByRank, base, rows)
  BY <1>1 DEF AsOf
<1>6. Done = page - 1
  BY DEF Done
<1>7. IsFiniteSet(given) /\ given \in SUBSET ((0 .. page - 1) \X Nat)
  BY <1>6 DEF Delivered
<1>8. ASSUME NEW r \in base
      PROVE  Cardinality(PairsOf(ByRank, given \cup ({page} \X part), r))
               = Cardinality(FirstOf(ByRank, base, r, page * limit))
  <2>1. Cardinality(PairsOf(ByRank, given, r))
          = Cardinality(FirstOf(ByRank, base, r, Offset(page, limit)))
    BY <1>2, <1>6 DEF Delivered
  <2> QED
    BY <1>1, <1>2, <1>3, <1>4, <1>5, <1>7, <2>1, PageDelivers
<1>9. IsFiniteSet(part) /\ part \subseteq Nat
  BY <1>1, <1>4, Part DEF PagesBy
<1>10. IsFiniteSet(given \cup ({page} \X part))
  BY <1>7, <1>9, FS_Singleton, FS_Product, FS_Union
<1>11. {page} \X part \subseteq (0 .. page) \X Nat
  <2>1. page \in 0 .. page
    BY <1>2
  <2> QED
    BY <1>9, <2>1
<1>12. given \subseteq (0 .. page) \X Nat
  <2>1. 0 .. (page - 1) \subseteq 0 .. page
    BY <1>2
  <2> QED
    BY <1>7, <2>1
<1> QED
  BY <1>8, <1>10, <1>11, <1>12

LEMMA AnswerKeeps ==
  ASSUME IInv, NEW s \in Slots, Answer(s)
  PROVE  IInv'
<1>1. /\ state = "asking" /\ state' = "answered" /\ status' = 200
      /\ reads[s] # NoRead /\ reads[s].page = page /\ reads[s].limit = limit
      /\ items' = reads[s].items /\ total' = reads[s].total
      /\ items' # NoRows /\ total' # Unread
      /\ given' = given \cup (IF walking THEN {page} \X items' ELSE {})
      /\ UNCHANGED <<listing, content, reads, req, page, base>>
  BY DEF Answer
<1>2. TypeOK /\ Bounds /\ Kept
  BY DEF IInv
<1>3. items' \in SUBSET Rows /\ total' \in Nat /\ total' <= MaxTotal
  BY <1>1, <1>2, ReadTyped, InSlot
<1>4. TypeOK'
  <2>1. walking => page \in Nat
    BY <1>2 DEF Bounds, TypeOK, Int64
  <2>2. given' \subseteq Nat \X Rows
    BY <1>1, <1>2, <1>3, <2>1 DEF TypeOK
  <2>3. older' \in BOOLEAN
    BY DEF Answer
  <2> QED
    BY <1>1, <1>2, <1>3, <2>2, <2>3 DEF TypeOK, listing, content, req
<1>5. Bounds'
  BY <1>1, <1>2, <1>3 DEF Bounds, Answered, req
<1>6. Later /\ Counted' = Counted
  BY <1>1, <1>2, NothingChanged
<1>7. ReadsKept'
  BY <1>1, <1>2, <1>6, ReadsStay DEF Kept
<1>8. Appended(ByRank, base, table)' /\ ByRank' = ByRank
  BY <1>1, <1>2, SameRanks DEF Kept, content
<1>9. ASSUME ~older' PROVE AnswerKept' /\ PageInside' /\ Delivered'
  <2>1. ~older /\ reads[s].since
    BY <1>9 DEF Answer
  <2>2. AnswerKept /\ PageInside /\ Delivered
    BY <1>2, <2>1 DEF Kept
  <2>3. PageRead(page, limit, items') /\ TotalRead(total')
    BY <1>1, <2>1, InSlot
  <2>4. AnswerKept'
    <3> DEFINE part == items'
               n == total'
    <3>1. PageRead(page, limit, reads[s].items)' /\ TotalRead(reads[s].total)'
      <4>1. PageRead(page, limit, reads[s].items) /\ TotalRead(reads[s].total)
            /\ reads[s].total \in Nat
        BY <1>1, <1>3, <2>3
      <4> QED
        BY <1>1, <1>2, <1>6, <4>1, PageReadStays, TotalReadStays DEF req
    <3> QED
      BY <1>1, <3>1 DEF AnswerKept, req
  <2>5. PageInside'
    BY <1>1, <1>6, <2>2 DEF PageInside, req
  <2>6. Delivered'
    <3> SUFFICES ASSUME walking PROVE Delivered'
      BY <1>1 DEF Delivered, req
    <3>1. given' = given \cup ({page} \X items') /\ Done' = page
      BY <1>1 DEF Done
    <3>2. /\ IsFiniteSet(given') /\ given' \subseteq (0 .. page) \X Nat
          /\ \A r \in base : Cardinality(PairsOf(ByRank, given', r))
                               = Cardinality(FirstOf(ByRank, base, r, page * limit))
      BY <1>1, <1>2, <2>2, <2>3, <3>1, AnswerDelivers
    <3> QED
      BY <1>1, <1>8, <3>1, <3>2 DEF Delivered, req
  <2> QED
    BY <2>4, <2>5, <2>6
<1> QED
  BY <1>4, <1>5, <1>7, <1>8, <1>9 DEF IInv, Kept

\* A next page is one of those the response announced.
LEMMA NextPageTyped ==
  ASSUME TypeOK, Bounds, state = "answered", More
  PROVE  /\ page + 1 \in Int64 /\ page \in Nat \ {0} /\ page + 1 \in Nat
         /\ total \in 0..MaxTotal /\ page < TotalPages(total, limit)
         /\ TotalPages(total, limit) \in Nat
<1>1. walking /\ page < PagesFor(mode, total, limit)
  BY DEF More
<1>2. total \in 0..MaxTotal /\ page \in Nat \ {0} /\ limit \in 1..MaxLimit /\ mode \in Modes
  BY <1>1, Few DEF TypeOK, Bounds, Int64
<1>3. PagesFor(mode, total, limit) = TotalPages(total, limit)
      /\ TotalPages(total, limit) \in 0..MaxTotal
  BY <1>2, PagesExact
<1>4. page + 1 \in Nat /\ page + 1 < Word
  BY <1>1, <1>2, <1>3, Few
<1> QED
  BY <1>1, <1>2, <1>3, <1>4, Int64Nat, Few

LEMMA NextPageKeeps ==
  ASSUME IInv, NextPage
  PROVE  IInv'
<1>1. /\ state = "answered" /\ More /\ state' = "asking" /\ page' = page + 1 /\ walking
      /\ UNCHANGED <<listing, content, reads, req, resp, hist>>
  BY DEF NextPage, More
<1>2. TypeOK /\ Bounds /\ Kept
  BY DEF IInv
<1>3. /\ page' \in Int64 /\ page \in Nat \ {0} /\ page' > 1
      /\ total \in 0..MaxTotal /\ page < TotalPages(total, limit)
  BY <1>1, <1>2, NextPageTyped
<1>4. TypeOK'
  BY <1>1, <1>2, <1>3 DEF TypeOK, listing, content, req, resp, hist
<1>5. Bounds'
  BY <1>1, <1>2, <1>3 DEF Bounds, Answered, req, resp, hist
<1>6. Later /\ Counted' = Counted
  BY <1>1, <1>2, NothingChanged DEF hist
<1>7. ReadsKept'
  BY <1>1, <1>2, <1>6, ReadsStay DEF Kept
<1>8. Appended(ByRank, base, table)' /\ ByRank' = ByRank
  BY <1>1, <1>2, SameRanks DEF Kept, content, hist
<1>9. ASSUME ~older' PROVE AnswerKept' /\ PageInside' /\ Delivered'
  <2>1. AnswerKept /\ Delivered
    BY <1>1, <1>2, <1>9 DEF Kept, hist
  <2>2. page' - 1 = page /\ limit \in Nat \ {0} /\ total \in Nat
    BY <1>1, <1>2, <1>3, Few DEF TypeOK
  <2>3. PageInside'
    <3>1. page * limit < total /\ page * limit \in Nat
      BY <1>3, <2>2, PageBegins
    <3>2. total <= Counted /\ Counted \in Nat
      BY <1>1, <1>2, <2>1, FewCounted DEF AnswerKept, TotalRead
    <3>3. page * limit < Counted
      BY <2>2, <3>1, <3>2
    <3> QED
      BY <1>1, <1>6, <2>2, <3>3 DEF PageInside, req
  <2>4. Delivered'
    <3>1. Done' = page /\ Done = page
      BY <1>1, <2>2 DEF Done
    <3> QED
      BY <1>1, <1>8, <2>1, <3>1 DEF Delivered, req, hist
  <2>5. AnswerKept'
    BY <1>1 DEF AnswerKept
  <2> QED
    BY <2>3, <2>4, <2>5
<1> QED
  BY <1>4, <1>5, <1>7, <1>8, <1>9 DEF IInv, Kept

\* What others do, as far as types and bounds go.
LEMMA EditTyped ==
  ASSUME IInv, NEW some \in SUBSET Rows, NEW n \in 0..MaxOrphans, Edit(some, n)
  PROVE  TypeOK' /\ Bounds'
<1>1. /\ table' = some /\ orphans' = n /\ edits' = edits + 1 /\ edits < MaxEdits
      /\ UNCHANGED <<listing, state, req, page, resp, given>>
  BY DEF Edit
<1>2. TypeOK /\ Bounds
  BY DEF IInv
<1>3. CASE UNCHANGED <<base, reads, older>>
  <2>1. edits' \in 0..MaxEdits
    BY <1>1, <1>2, ConstantsAssumption DEF TypeOK
  <2>2. TypeOK'
    BY <1>1, <1>2, <1>3, <2>1 DEF TypeOK, listing, req, resp
  <2>3. Bounds'
    BY <1>1, <1>2, <1>3 DEF Bounds, Answered, req, resp
  <2> QED
    BY <2>2, <2>3
<1>4. CASE TakeBase
  <2>1. edits' \in 0..MaxEdits
    BY <1>1, <1>2, ConstantsAssumption DEF TypeOK
  <2>2. ASSUME NEW s \in Slots
        PROVE  /\ reads'[s] \in Read \cup {NoRead}
               /\ reads'[s] # NoRead => reads[s] # NoRead /\ reads'[s].total = reads[s].total
    <3>1. CASE reads[s] = NoRead
      BY <1>4, <3>1 DEF TakeBase
    <3>2. CASE reads[s] # NoRead
      <4>1. reads'[s] = [reads[s] EXCEPT !.since = FALSE]
        BY <1>4, <3>2 DEF TakeBase
      <4>2. reads[s] \in Read
        BY <1>2, <3>2, ReadTyped
      <4>3. [reads[s] EXCEPT !.since = FALSE] \in Read
            /\ [reads[s] EXCEPT !.since = FALSE].total = reads[s].total
        BY <4>2 DEF Read
      <4> QED
        BY <3>2, <4>1, <4>3
    <3> QED
      BY <3>1, <3>2
  <2>3. reads' \in [Slots -> Read \cup {NoRead}]
    BY <1>4, <2>2 DEF TakeBase
  <2>4. older' \in BOOLEAN /\ base' \in SUBSET Rows
    BY <1>1, <1>4 DEF TakeBase
  <2>5. TypeOK'
    BY <1>1, <1>2, <2>1, <2>3, <2>4 DEF TypeOK, listing, req, resp
  <2>6. Bounds'
    BY <1>1, <1>2, <2>2 DEF Bounds, Answered, req, resp
  <2> QED
    BY <2>5, <2>6
<1> QED
  BY <1>3, <1>4 DEF Edit

LEMMA EditKeeps ==
  ASSUME IInv, NEW some \in SUBSET Rows, NEW n \in 0..MaxOrphans, Edit(some, n)
  PROVE  IInv'
<1>1. /\ table' = some /\ orphans' = n /\ ~older
      /\ UNCHANGED <<listing, state, req, page, resp, given>>
  BY DEF Edit
<1>2. TypeOK /\ Bounds /\ Kept
  BY DEF IInv
<1>3. TypeOK' /\ Bounds'
  BY EditTyped
<1>4. ByRank' = ByRank
  BY <1>1, SameRanks
<1>5. CASE Behind(table, some) /\ n = orphans /\ UNCHANGED <<base, reads, older>>
  <2>1. Appended(ByRank, table, table') /\ table' \in SUBSET Rows /\ table' \in SUBSET Nat
    BY <1>1, <1>2, <1>5, BehindAppended, FewOf DEF TypeOK
  <2>2. Later
    <3>1. /\ Cardinality(table) \in Nat /\ Cardinality(table') \in Nat
          /\ Cardinality(table) <= Cardinality(table') /\ orphans \in Nat
      BY <1>2, <2>1, AppendedCounts, FewCounted
    <3>2. Counted' \in Nat /\ Counted <= Counted'
      BY <1>1, <1>5, <3>1 DEF Counted
    <3> QED
      BY <1>1, <1>5, <2>1, <3>2 DEF Later
  <2>3. ReadsKept'
    BY <1>2, <1>5, <2>2, ReadsStay DEF Kept
  <2>4. Appended(ByRank, base, table)'
    <3>1. Appended(ByRank, base, table') /\ base' = base
      BY <1>2, <1>5, <2>1, RanksOrder, AppendedTwice DEF Kept
    <3> QED
      BY <1>4, <3>1
  <2>5. AnswerKept /\ PageInside /\ Delivered
    BY <1>1, <1>2 DEF Kept
  <2>6. AnswerKept'
    <3>1. state = "answered" => total \in Nat
      BY <1>2 DEF Bounds, TypeOK
    <3>2. state = "answered" => PageRead(page, limit, items)' /\ TotalRead(total)'
      BY <1>1, <1>2, <2>2, <2>5, <3>1, PageReadStays, TotalReadStays DEF AnswerKept, req, resp
    <3> QED
      BY <1>1, <3>2 DEF AnswerKept
  <2>7. PageInside'
    <3> SUFFICES ASSUME walking, page > 1 PROVE (page - 1) * limit < Counted'
      BY <1>1 DEF PageInside, req
    <3>1. (page - 1) * limit < Counted /\ Counted \in Nat /\ Counted' \in Nat /\ Counted <= Counted'
      BY <1>2, <2>2, <2>5, FewCounted DEF PageInside, Later
    <3>2. (page - 1) * limit \in Int
      BY <1>2, Few DEF TypeOK, Int64
    <3> QED
      BY <3>1, <3>2
  <2>8. Delivered'
    BY <1>1, <1>4, <1>5, <2>5 DEF Delivered, Done, req
  <2> QED
    BY <1>3, <2>3, <2>4, <2>6, <2>7, <2>8 DEF IInv, Kept
<1>6. CASE TakeBase
  <2>1. base' = table' /\ base' \in SUBSET Rows
    BY <1>1, <1>6 DEF TakeBase
  <2>2. Appended(ByRank, base, table)'
    BY <2>1, AppendNothing
  <2>3. ReadsKept'
    <3> SUFFICES ASSUME NEW s \in Slots, reads'[s] # NoRead PROVE reads'[s].since = FALSE
      BY DEF ReadsKept
    <3>1. reads'[s] = [reads[s] EXCEPT !.since = FALSE] /\ reads[s] # NoRead
      BY <1>6 DEF TakeBase
    <3>2. reads[s] \in Read
      BY <1>2, <3>1, ReadTyped
    <3> QED
      BY <3>1, <3>2 DEF Read
  <2>4. ASSUME ~older' PROVE AnswerKept' /\ PageInside' /\ Delivered'
    <3>1. ~Answered
      BY <1>6, <2>4 DEF TakeBase
    <3>2. AnswerKept' /\ PageInside'
      BY <1>1, <3>1 DEF AnswerKept, PageInside, Answered, req
    <3>3. Delivered'
      <4> SUFFICES ASSUME walking, state # "refused" PROVE Delivered'
        BY <1>1 DEF Delivered, req
      <4>1. page = 1 /\ given = {} /\ state # "answered"
        BY <1>2, <3>1 DEF Bounds, Answered, TypeOK, Int64
      <4>2. Done' * limit' = 0 /\ Done' = 0
        <5>1. Done' = 0 /\ limit' \in Nat
          BY <1>1, <1>2, <4>1, Few DEF Done, TypeOK, req
        <5>2. \A k \in Nat : 0 * k = 0
          OBVIOUS
        <5> QED
          BY <5>1, <5>2
      <4>3. base' \in SUBSET Nat /\ IsFiniteSet(base')
        BY <2>1, FewOf
      <4>4. ASSUME NEW r \in base'
            PROVE  Cardinality(PairsOf(ByRank, {}, r)) = Cardinality(FirstOf(ByRank, base', r, 0))
        BY <4>3, NothingFirst
      <4> QED
        BY <1>1, <1>4, <4>1, <4>2, <4>4, FS_EmptySet DEF Delivered
    <3> QED
      BY <3>2, <3>3
  <2> QED
    BY <1>3, <2>2, <2>3, <2>4 DEF IInv, Kept
<1> QED
  BY <1>5, <1>6 DEF Edit

LEMMA NextIInv == IInv /\ [Next]_vars => IInv'
<1> SUFFICES ASSUME IInv, [Next]_vars PROVE IInv'
  OBVIOUS
<1>0. \A m \in Modes, p \in RawPages, l \in RawLimits : p \in Param /\ l \in Param
  BY RawTyped
<1>1. ASSUME NEW m \in Modes, NEW p \in RawPages, NEW l \in RawLimits, Ask(m, p, l) PROVE IInv'
  BY <1>0, <1>1, ReceiveKeeps DEF Ask
<1>2. ASSUME NEW m \in Modes, NEW l \in RawLimits, Walk(m, l) PROVE IInv'
  <2>1. 1 \in Param /\ l \in Param
    BY <1>0, RawTyped, ConstantsAssumption DEF Param, Int64
  <2>2. page' = 1
    BY <1>2, <2>1, Parameters DEF Walk, Receive
  <2> QED
    BY <1>2, <2>1, <2>2, ReceiveKeeps DEF Walk
<1>3. ASSUME NEW p \in RawPages, RefuseHal(p) PROVE IInv'
  BY <1>3, RefuseKeeps DEF RefuseHal
<1>4. ASSUME NEW m \in Modes, NEW text \in Texts, RefuseText(m, text) PROVE IInv'
  BY <1>4, RefuseKeeps DEF RefuseText
<1>5. ASSUME NEW s \in Slots, Answer(s) PROVE IInv'
  BY <1>5, AnswerKeeps
<1>6. CASE Fail
  BY <1>6, RefuseKeeps DEF Fail
<1>7. CASE NextPage
  BY <1>7, NextPageKeeps
<1>8. CASE KitabMissing
  BY <1>8, RefuseKeeps DEF KitabMissing
<1>9. ASSUME NEW s \in Slots, NEW p \in Int64, NEW size \in 1..MaxLimit, StartRead(s, p, size)
      PROVE  IInv'
  BY <1>9, StartReadKeeps
<1>10. ASSUME NEW s \in Slots, ReadRows(s) \/ ReadCount(s) \/ Search(s) \/ Drop(s) PROVE IInv'
  BY <1>10, ReadRowsKeeps, ReadCountKeeps, SearchKeeps, DropKeeps
<1>11. ASSUME NEW some \in SUBSET Rows, NEW n \in IF source = "search" THEN 0..MaxOrphans ELSE {0},
              Edit(some, n)
       PROVE  IInv'
  <2>1. n \in 0..MaxOrphans
    BY ConstantsAssumption
  <2> QED
    BY <1>11, <2>1, EditKeeps
<1>12. CASE UNCHANGED vars
  <2>1. TypeOK /\ Bounds /\ Kept
    BY DEF IInv
  <2>2. UNCHANGED <<listing, content, reads, state, req, page, resp, hist>>
    BY <1>12 DEF vars
  <2>3. TypeOK' /\ Bounds'
    BY <2>1, <2>2 DEF TypeOK, Bounds, Answered, listing, content, req, resp, hist
  <2>4. Later /\ Counted' = Counted /\ ByRank' = ByRank
    BY <2>1, <2>2, NothingChanged, SameRanks DEF hist
  <2>5. ReadsKept' /\ Appended(ByRank, base, table)'
    BY <2>1, <2>2, <2>4, ReadsStay DEF Kept, content, hist
  <2>6. ASSUME ~older' PROVE AnswerKept' /\ PageInside' /\ Delivered'
    <3>1. AnswerKept /\ PageInside /\ Delivered
      BY <2>1, <2>2, <2>6 DEF Kept, hist
    <3>2. state = "answered" => total \in Nat
      BY <2>1 DEF Bounds, TypeOK
    <3>3. AnswerKept'
      BY <2>1, <2>2, <2>4, <3>1, <3>2, PageReadStays, TotalReadStays DEF AnswerKept, req, resp
    <3>4. PageInside' /\ Delivered'
      BY <2>2, <2>4, <3>1 DEF PageInside, Delivered, Done, req, hist
    <3> QED
      BY <3>3, <3>4
  <2> QED
    BY <2>3, <2>5, <2>6 DEF IInv, Kept
<1> QED
  BY <1>1, <1>2, <1>3, <1>4, <1>5, <1>6, <1>7, <1>8, <1>9, <1>10, <1>11, <1>12
     DEF Next, Client, Service, Others

LEMMA Inductive == Spec => []IInv
BY InitIInv, NextIInv, PTL DEF Spec

-------------------------------------------------------------------------------

\* Every variable keeps its type.  What could leave it is the page of a walk,
\* which stays an int because a page is only followed by an announced one.
THEOREM TypesCorrect == Spec => []TypeOK
BY Inductive, PTL DEF IInv

\* A finished walk has been given every row of the base, however its answers were
\* shared or cached, if all of them were read after the base was taken (pages of
\* internal/repository/postgres.go:51, counted by handler.go:96, kept by
\* internal/service/kitab.go:137), and if the window of Elasticsearch is large
\* enough for the listing: it counts no rows beyond it.
THEOREM WalksComplete ==
  ASSUME "elastic" \in Sources => Cardinality(Rows) <= Window
  PROVE  Spec => []WalkIsComplete
<1>1. ASSUME IInv PROVE WalkIsComplete
  <2> SUFFICES ASSUME state = "answered", walking, ~More, ~older, NEW r \in base
               PROVE  Cardinality({g \in given : Rank(g[2]) = Rank(r)})
                        = Cardinality({s \in base : Rank(s) = Rank(r)})
    BY DEF WalkIsComplete
  <2>1. TypeOK /\ Bounds /\ AnswerKept /\ Delivered /\ Done = page
    BY <1>1 DEF IInv, Kept, Done
  <2>2. base \in SUBSET Rows /\ given \subseteq Nat \X Rows /\ source \in Sources
    BY <2>1 DEF TypeOK
  <2>3. /\ Cardinality(base) \in Nat /\ Cardinality(base) <= Cardinality(Rows)
        /\ base \in SUBSET Nat /\ IsFiniteSet(base)
    BY <2>2, FewOf
  <2>4. WindowHolds
    BY <2>2, <2>3, Few, ConstantsAssumption DEF WindowHolds
  <2>5. /\ page \in Nat /\ limit \in 1..MaxLimit /\ limit \in Nat \ {0} /\ mode \in Modes
        /\ total \in 0..MaxTotal /\ total \in Nat
    BY <2>1, Few DEF TypeOK, Bounds, Int64
  <2>6. ~(page < TotalPages(total, limit))
    BY <2>5, PagesExact DEF More
  <2>7. ~(page * limit < total) /\ page * limit \in Nat
    BY <2>5, <2>6, PageBegins
  <2>8. Cardinality(base) <= total
    BY <2>1, <2>4 DEF AnswerKept, TotalRead
  <2>9. Cardinality(base) <= page * limit
    BY <2>3, <2>5, <2>7, <2>8
  <2>10. FirstOf(ByRank, base, r, page * limit) = RowsOf(ByRank, base, r)
    BY <2>3, <2>7, <2>9, AllDelivered
  <2>11. Cardinality(PairsOf(ByRank, given, r))
           = Cardinality(FirstOf(ByRank, base, r, page * limit))
    BY <2>1 DEF Delivered
  <2>12. ASSUME NEW s \in Rows PROVE ByRank[s] = Rank(s)
    BY Few DEF ByRank
  <2>13. RowsOf(ByRank, base, r) = {s \in base : Rank(s) = Rank(r)}
    BY <2>2, <2>12 DEF RowsOf
  <2>14. PairsOf(ByRank, given, r) = {g \in given : Rank(g[2]) = Rank(r)}
    <3>1. ASSUME NEW g \in given PROVE g[2] \in Rows
      BY <2>2
    <3> QED
      BY <2>2, <2>12, <3>1 DEF PairsOf
  <2> QED
    BY <2>10, <2>11, <2>13, <2>14
<1> QED
  BY <1>1, Inductive, PTL

\* A walk meets no empty page while nothing changes and no section is counted that
\* cannot be listed: a page that was announced begins before the last row, and in
\* every finite listing there is a row at each position before the last.
THEOREM PagesNotEmpty == Spec => []NoEmptyPage
<1>1. ASSUME IInv PROVE NoEmptyPage
  <2> SUFFICES ASSUME state = "answered", walking, page > 1, ~older, table = base, orphans = 0
               PROVE  items # {}
    BY DEF NoEmptyPage
  <2>1. TypeOK /\ Bounds /\ AnswerKept /\ PageInside
    BY <1>1 DEF IInv, Kept
  <2>2. PICK rows \in SUBSET Rows :
          AsOf(rows) /\ items \in PagesBy(ByRank, rows, Offset(page, limit), limit)
    BY <2>1 DEF AnswerKept, PageRead
  <2>3. /\ limit \in Nat \ {0}
        /\ Offset(page, limit) = (page - 1) * limit /\ Offset(page, limit) \in Nat
    BY <2>1, WalkOffset
  <2>4. rows = table
    BY <2>2 DEF AsOf, Appended
  <2>5. Counted = Cardinality(rows)
    BY <2>1, <2>4, FewCounted DEF Counted
  <2>6. Offset(page, limit) < Cardinality(rows)
    BY <2>1, <2>3, <2>5 DEF PageInside
  <2>7. rows \in SUBSET Nat /\ IsFiniteSet(rows)
    BY FewOf
  <2> QED
    BY <2>2, <2>3, <2>6, <2>7, PageHasRow
<1> QED
  BY <1>1, Inductive, PTL

\* A page that exists holds only rows that stand on it, whatever the client asked
\* for and whoever read it: the offset of internal/repository/postgres.go:51 can
\* only wrap beyond the last page.
THEOREM PagesExactlyRead == Spec => []ExistingPagesAreExact
<1>1. ASSUME IInv PROVE ExistingPagesAreExact
  <2> SUFFICES ASSUME state = "answered", ~older, page >= 1,
                      page <= PagesFor(mode, total, limit), NEW r \in items
               PROVE  page - 1 \in Cardinality({s \in table : Rank(s) < Rank(r)}) \div limit
                              .. (Cardinality({s \in table : Rank(s) <= Rank(r)}) - 1) \div limit
    BY DEF ExistingPagesAreExact
  <2>1. TypeOK /\ Bounds /\ AnswerKept
    BY <1>1 DEF IInv, Kept
  <2>2. /\ total \in 0..MaxTotal /\ total \in Nat /\ total < Word
        /\ limit \in 1..MaxLimit /\ limit \in Nat \ {0}
        /\ mode \in Modes /\ page \in Nat \ {0}
    BY <2>1, Few DEF TypeOK, Bounds, Int64
  <2>3. page <= TotalPages(total, limit)
    BY <2>2, PagesExact
  <2>4. Offset(page, limit) = (page - 1) * limit /\ Offset(page, limit) \in Nat
    BY <2>2, <2>3, AnnouncedOffsetsExact
  <2>5. PICK rows \in SUBSET Rows :
          AsOf(rows) /\ items \in PagesBy(ByRank, rows, Offset(page, limit), limit)
    BY <2>1 DEF AnswerKept, PageRead
  <2>6. /\ rows \in SUBSET Nat /\ IsFiniteSet(rows)
        /\ table \in SUBSET Nat /\ IsFiniteSet(table) /\ IsOrder(ByRank)
    BY <2>1, FewOf, RanksOrder DEF TypeOK
  <2>7. Appended(ByRank, rows, table)
    BY <2>5 DEF AsOf
  <2>8. PICK s \in rows : /\ ByRank[s] = ByRank[r]
                          /\ Cardinality(Below(rows, s))
                               \in Offset(page, limit) .. (Offset(page, limit) + limit - 1)
    BY <2>2, <2>4, <2>5, <2>6, SameRankOnPage
  <2> DEFINE k == Cardinality(Below(rows, s))
             before == Cardinality({t \in table : ByRank[t] < ByRank[s]})
             upTo == Cardinality({t \in table : ByRank[t] <= ByRank[s]})
  <2>9. k \in Nat /\ before \in Nat /\ before <= k /\ upTo \in Nat /\ k + 1 <= upTo
    BY <2>6, <2>7, RankAround
  <2>10. k \in (page - 1) * limit .. ((page - 1) * limit + limit - 1)
    BY <2>4, <2>8
  <2>11. /\ before = Cardinality({t \in table : Rank(t) < Rank(r)})
         /\ upTo = Cardinality({t \in table : Rank(t) <= Rank(r)})
    <3>1. r \in Nat /\ r \in rows
      BY <2>5, <2>6 DEF PagesBy
    <3>2. ASSUME NEW t \in Nat PROVE ByRank[t] = Rank(t)
      BY DEF ByRank
    <3>3. ByRank[s] = Rank(r)
      BY <2>8, <3>1, <3>2
    <3>4. {t \in table : ByRank[t] < ByRank[s]} = {t \in table : Rank(t) < Rank(r)}
      BY <2>6, <3>2, <3>3
    <3>5. {t \in table : ByRank[t] <= ByRank[s]} = {t \in table : Rank(t) <= Rank(r)}
      BY <2>6, <3>2, <3>3
    <3> QED
      BY <3>4, <3>5
  <2> HIDE DEF k, before, upTo
  <2>12. k \div limit = page - 1
    <3> DEFINE j == k - (page - 1) * limit
    <3>1. (page - 1) * limit \in Nat /\ page - 1 \in Nat
      BY <2>2
    <3>2. j \in 0..(limit - 1) /\ k = (page - 1) * limit + j
      BY <2>2, <2>9, <2>10, <3>1
    <3> HIDE DEF j
    <3> QED
      BY <2>2, <2>9, <3>1, <3>2, Quotient
  <2>13. before \div limit <= page - 1 /\ before \div limit \in Nat
    BY <2>2, <2>9, <2>12, DivideMonotone
  <2>14. page - 1 <= (upTo - 1) \div limit /\ (upTo - 1) \div limit \in Nat
    <3>1. upTo - 1 \in Nat /\ k <= upTo - 1
      BY <2>9
    <3> QED
      BY <2>2, <2>9, <2>12, <3>1, DivideMonotone
  <2>15. page - 1 \in before \div limit .. (upTo - 1) \div limit
    BY <2>2, <2>13, <2>14
  <2> QED
    BY <2>11, <2>15
<1> QED
  BY <1>1, Inductive, PTL

\* Where no two rows tie, the walk is given every row of the base exactly once.
THEOREM WalksGiveEachRowOnce ==
  ASSUME "elastic" \in Sources => Cardinality(Rows) <= Window
  PROVE  Spec => [](state = "answered" /\ walking /\ ~More /\ ~older /\ ~ties =>
                      \A r \in base : Cardinality({g \in given : g[2] = r}) = 1)
<1> DEFINE EachOnce == state = "answered" /\ walking /\ ~More /\ ~older /\ ~ties =>
                         \A r \in base : Cardinality({g \in given : g[2] = r}) = 1
<1>1. WalkIsComplete => EachOnce
  <2> SUFFICES ASSUME WalkIsComplete, state = "answered", walking, ~More, ~older, ~ties,
                      NEW r \in base
               PROVE  Cardinality({g \in given : g[2] = r}) = 1
    OBVIOUS
  <2>1. \A s : Rank(s) = s
    BY DEF Rank
  <2>2. Cardinality({g \in given : Rank(g[2]) = Rank(r)})
          = Cardinality({s \in base : Rank(s) = Rank(r)})
    BY DEF WalkIsComplete
  <2>3. {s \in base : Rank(s) = Rank(r)} = {r}
    BY <2>1
  <2>4. {g \in given : Rank(g[2]) = Rank(r)} = {g \in given : g[2] = r}
    BY <2>1
  <2> QED
    BY <2>2, <2>3, <2>4, FS_Singleton
<1>2. Spec => []WalkIsComplete
  BY WalksComplete
<1> QED
  BY <1>1, <1>2, PTL

-------------------------------------------------------------------------------

\* PostgreSQL has no window; Elasticsearch's is a number of whole pages.
WindowFits == source # "elastic" \/ \E n \in Nat \ {0} : Window = n * limit

\* The page a walk is at was announced by a response, of the present or an older
\* listing.
PageAnnounced ==
  state = "asking" /\ walking => page = 1 \/ \E n \in 0..MaxTotal :
    page <= TotalPages(n, limit) /\ (source = "elastic" => n <= Window)

CountInWindow ==
  source = "elastic" =>
    /\ total # Unread => total <= Window
    /\ \A s \in Slots : reads[s] # NoRead /\ reads[s].total # Unread => reads[s].total <= Window

Refusal == status = 500 => state = "refused" /\ (walking => ~WindowFits)

Announced == PageAnnounced /\ CountInWindow /\ Refusal

LEMMA InitAnnounced == Init => Announced
BY DEF Init, Announced, PageAnnounced, CountInWindow, Refusal, Unread

\* A page that was announced is not refused, if the window holds whole pages.
LEMMA AnnouncedNotRefused ==
  ASSUME TypeOK, Bounds, PageAnnounced, walking, WindowFits, state = "asking"
  PROVE  ~Refused(page, limit)
<1>1. page \in Nat \ {0} /\ limit \in 1..MaxLimit /\ limit \in Nat \ {0}
  BY Few DEF TypeOK, Bounds, Int64
<1>2. CASE page = 1
  <2>1. (page - 1) * limit = 0
    BY <1>1, <1>2
  <2>2. Offset(page, limit) = 0
    BY <1>1, <2>1, Few, OffsetExact
  <2>3. source = "elastic" => limit <= Window
    <3>1. ASSUME NEW n \in Nat \ {0}, Window = n * limit PROVE limit <= Window
      <4>1. 1 * limit <= n * limit /\ 1 * limit = limit
        BY <1>1, Times
      <4> QED
        BY <3>1, <4>1
    <3> QED
      BY <3>1 DEF WindowFits
  <2> QED
    BY <1>1, <2>2, <2>3, ConstantsAssumption DEF Refused
<1>3. CASE page # 1
  <2>1. PICK n \in 0..MaxTotal : page <= TotalPages(n, limit) /\ (source = "elastic" => n <= Window)
    BY <1>3 DEF PageAnnounced
  <2>2. n \in Nat /\ n < Word
    BY Few
  <2>3. Offset(page, limit) \in 0..(n - 1) /\ Offset(page, limit) \in Nat
    BY <1>1, <2>1, <2>2, AnnouncedOffsetsExact
  <2>4. source = "elastic" => Offset(page, limit) + limit <= Window
    <3> SUFFICES ASSUME source = "elastic" PROVE Offset(page, limit) + limit <= Window
      OBVIOUS
    <3>1. n \in 0..Window
      BY <2>1, <2>2, ConstantsAssumption
    <3>2. PICK k \in Nat : Window = k * limit
      BY DEF WindowFits
    <3> QED
      BY <1>1, <2>1, <2>2, <3>1, <3>2, DivisorsFitWindow
  <2> QED
    BY <1>1, <2>3, <2>4, ConstantsAssumption DEF Refused
<1> QED
  BY <1>2, <1>3

\* Whoever leaves the client's requests alone keeps it announced, if the counts
\* read stay within the window.
LEMMA StaysAnnounced ==
  ASSUME Announced, UNCHANGED <<listing, state, req, page, resp>>, CountInWindow'
  PROVE  Announced'
<1>1. WindowFits' <=> WindowFits
  BY DEF WindowFits, listing, req
<1> QED
  BY <1>1 DEF Announced, PageAnnounced, Refusal, listing, req, resp

LEMMA SlotAnnounced ==
  ASSUME TypeOK, Announced, UNCHANGED <<listing, state, req, page, resp>>,
         NEW s \in Slots, NEW new \in Read \cup {NoRead}, reads' = [reads EXCEPT ![s] = new],
         source = "elastic" => new = NoRead \/ new.total = Unread \/ new.total <= Window
  PROVE  Announced'
<1>1. \A t \in Slots : reads'[t] = IF t = s THEN new ELSE reads[t]
  BY Stored
<1>2. CountInWindow'
  BY <1>1 DEF Announced, CountInWindow, listing, resp
<1> QED
  BY <1>2, StaysAnnounced

LEMMA RefuseAnnounced ==
  ASSUME Announced, NEW code, Refuse(code), code = 500 => (walking => ~WindowFits)
  PROVE  Announced'
<1>1. WindowFits' <=> WindowFits
  BY DEF WindowFits, Refuse, listing, req
<1> QED
  BY <1>1 DEF Refuse, Announced, PageAnnounced, CountInWindow, Refusal, listing, req

LEMMA ReadsAnnounced ==
  ASSUME TypeOK, Announced, NEW s \in Slots
  PROVE  /\ (\E p \in Int64, size \in 1..MaxLimit : StartRead(s, p, size)) => Announced'
         /\ ReadRows(s) \/ ReadCount(s) \/ Search(s) \/ Drop(s) => Announced'
<1>1. ASSUME NEW p \in Int64, NEW size \in 1..MaxLimit, StartRead(s, p, size) PROVE Announced'
  <2> DEFINE new == [page |-> p, limit |-> size, items |-> NoRows, total |-> Unread, since |-> TRUE]
  <2>1. new \in Read /\ new.total = Unread
    BY DEF Read
  <2>2. reads' = [reads EXCEPT ![s] = new] /\ UNCHANGED <<listing, state, req, page, resp>>
    BY <1>1 DEF StartRead
  <2> HIDE DEF new
  <2> QED
    BY <2>1, <2>2, SlotAnnounced
<1>2. ASSUME ReadRows(s) PROVE Announced'
  <2>1. PICK some \in Slices(table, Offset(reads[s].page, reads[s].limit), reads[s].limit) :
          reads' = [reads EXCEPT ![s].items = some]
    BY <1>2 DEF ReadRows
  <2> DEFINE new == [reads[s] EXCEPT !.items = some]
  <2>2. table \in SUBSET Rows /\ reads[s] \in Read
    BY <1>2, ReadTyped DEF ReadRows, TypeOK
  <2>3. some \in SUBSET Rows
    BY <2>2, PagesAreRows
  <2>4. new \in Read /\ new.total = reads[s].total
    BY <2>2, <2>3 DEF Read
  <2>5. reads' = [reads EXCEPT ![s] = new] /\ UNCHANGED <<listing, state, req, page, resp>>
    BY <1>2, <2>1 DEF ReadRows, TypeOK
  <2>6. source # "elastic"
    BY <1>2 DEF ReadRows
  <2> HIDE DEF new
  <2> QED
    BY <2>4, <2>5, <2>6, SlotAnnounced
<1>3. ASSUME ReadCount(s) PROVE Announced'
  <2> DEFINE new == [reads[s] EXCEPT !.total = Cardinality(table) + orphans]
  <2>1. reads[s] \in Read
    BY <1>3, ReadTyped DEF ReadCount
  <2>2. Cardinality(table) + orphans \in Nat
    BY FewCounted DEF Counted
  <2>3. new \in Read
    BY <2>1, <2>2 DEF Read
  <2>4. reads' = [reads EXCEPT ![s] = new] /\ UNCHANGED <<listing, state, req, page, resp>>
    BY <1>3 DEF ReadCount, TypeOK
  <2>5. source # "elastic"
    BY <1>3 DEF ReadCount
  <2> HIDE DEF new
  <2> QED
    BY <2>3, <2>4, <2>5, SlotAnnounced
<1>4. ASSUME Search(s) PROVE Announced'
  <2> DEFINE n == IF Cardinality(table) > Window THEN Window ELSE Cardinality(table)
  <2>1. PICK some \in Slices(table, Offset(reads[s].page, reads[s].limit), reads[s].limit) :
          reads' = [reads EXCEPT ![s].items = some, ![s].total = n]
    BY <1>4 DEF Search
  <2> DEFINE new == [reads[s] EXCEPT !.items = some, !.total = n]
  <2>2. table \in SUBSET Rows /\ reads[s] \in Read
    BY <1>4, ReadTyped DEF Search, TypeOK
  <2>3. some \in SUBSET Rows
    BY <2>2, PagesAreRows
  <2>4. n \in Nat /\ n <= Window
    BY FewCounted, ConstantsAssumption
  <2> HIDE DEF n
  <2>5. new \in Read /\ new.total = n
    BY <2>2, <2>3, <2>4 DEF Read
  <2>6. reads' = [reads EXCEPT ![s] = new]
    BY <2>1, <2>2
  <2>7. UNCHANGED <<listing, state, req, page, resp>>
    BY <1>4 DEF Search
  <2> HIDE DEF new
  <2> QED
    BY <2>4, <2>5, <2>6, <2>7, SlotAnnounced
<1>5. ASSUME Drop(s) PROVE Announced'
  <2>1. reads' = [reads EXCEPT ![s] = NoRead] /\ UNCHANGED <<listing, state, req, page, resp>>
    BY <1>5 DEF Drop
  <2> QED
    BY <2>1, SlotAnnounced
<1> QED
  BY <1>1, <1>2, <1>3, <1>4, <1>5

LEMMA NextAnnounced ==
  ASSUME TypeOK, Bounds, Announced, [Next]_vars
  PROVE  Announced'
<1>1. ASSUME NEW m \in Modes, NEW p \in RawPages, NEW l \in RawLimits, Ask(m, p, l) PROVE Announced'
  BY <1>1 DEF Ask, Receive, Announced, PageAnnounced, CountInWindow, Refusal, listing, resp
<1>2. ASSUME NEW m \in Modes, NEW l \in RawLimits, Walk(m, l) PROVE Announced'
  <2>1. page' = 1
    BY <1>2, RawTyped, Parameters DEF Walk, Receive
  <2> QED
    BY <1>2, <2>1
    DEF Walk, Receive, Announced, PageAnnounced, CountInWindow, Refusal, listing, resp
<1>3. ASSUME NEW p \in RawPages, RefuseHal(p) PROVE Announced'
  BY <1>3, RefuseAnnounced DEF RefuseHal
<1>4. ASSUME NEW m \in Modes, NEW text \in Texts, RefuseText(m, text) PROVE Announced'
  BY <1>4, RefuseAnnounced DEF RefuseText
<1>5. ASSUME NEW s \in Slots, Answer(s) PROVE Announced'
  <2>1. source = "elastic" => total' <= Window
    BY <1>5 DEF Answer, Announced, CountInWindow
  <2> QED
    BY <1>5, <2>1 DEF Answer, Announced, PageAnnounced, CountInWindow, Refusal, listing
<1>6. CASE Fail
  <2>1. walking => ~WindowFits
    BY <1>6, AnnouncedNotRefused DEF Fail, Announced
  <2> QED
    BY <1>6, <2>1, RefuseAnnounced DEF Fail
<1>7. CASE NextPage
  <2>1. /\ state = "answered" /\ More /\ page' = page + 1 /\ state' = "asking"
        /\ UNCHANGED <<listing, reads, req, resp>>
    BY <1>7 DEF NextPage
  <2>2. total # Unread /\ total \in 0..MaxTotal /\ limit \in 1..MaxLimit /\ mode \in Modes
    BY <2>1, Few DEF TypeOK, Bounds
  <2>3. page < TotalPages(total, limit) /\ TotalPages(total, limit) \in Nat /\ page \in Int
    BY <2>1, <2>2, PagesExact DEF More, TypeOK, Int64
  <2>4. page' <= TotalPages(total, limit)
    BY <2>1, <2>3
  <2>5. source = "elastic" => total <= Window
    BY <2>2 DEF Announced, CountInWindow
  <2>6. PageAnnounced'
    BY <2>1, <2>2, <2>4, <2>5 DEF PageAnnounced, listing, req
  <2> QED
    BY <2>1, <2>6 DEF Announced, CountInWindow, Refusal, listing, req, resp
<1>8. CASE KitabMissing
  BY <1>8, RefuseAnnounced DEF KitabMissing
<1>9. ASSUME NEW s \in Slots, NEW p \in Int64, NEW size \in 1..MaxLimit, StartRead(s, p, size)
      PROVE  Announced'
  BY <1>9, ReadsAnnounced
<1>10. ASSUME NEW s \in Slots, ReadRows(s) \/ ReadCount(s) \/ Search(s) \/ Drop(s) PROVE Announced'
  BY <1>10, ReadsAnnounced
<1>11. ASSUME NEW some, NEW n, Edit(some, n) PROVE Announced'
  <2>1. UNCHANGED <<listing, state, req, page, resp>>
    BY <1>11 DEF Edit
  <2>2. CASE reads' = reads
    <3>1. CountInWindow'
      BY <2>1, <2>2 DEF Announced, CountInWindow, listing, resp
    <3> QED
      BY <2>1, <3>1, StaysAnnounced
  <2>3. CASE TakeBase
    <3>1. ASSUME NEW s \in Slots, reads'[s] # NoRead
          PROVE  reads[s] # NoRead /\ reads'[s].total = reads[s].total
      <4>1. reads' = [t \in Slots |-> IF reads[t] = NoRead THEN NoRead
                                       ELSE [reads[t] EXCEPT !.since = FALSE]]
        BY <2>3 DEF TakeBase
      <4>2. reads[s] # NoRead
        BY <3>1, <4>1
      <4>3. reads[s] \in Read
        BY <4>2, ReadTyped
      <4> QED
        BY <4>1, <4>2, <4>3 DEF Read
    <3>2. CountInWindow'
      BY <2>1, <3>1 DEF Announced, CountInWindow, listing, resp
    <3> QED
      BY <2>1, <3>2, StaysAnnounced
  <2> QED
    BY <1>11, <2>2, <2>3 DEF Edit
<1>12. CASE UNCHANGED vars
  <2>1. UNCHANGED <<listing, state, req, page, resp>> /\ CountInWindow'
    BY <1>12 DEF vars, Announced, CountInWindow, listing, resp
  <2> QED
    BY <2>1, StaysAnnounced
<1> QED
  BY <1>1, <1>2, <1>3, <1>4, <1>5, <1>6, <1>7, <1>8, <1>9, <1>10, <1>11, <1>12
     DEF Next, Client, Service, Others

\* The boundary of the finding on AnnouncedPagesWork: no announced page of a walk
\* is refused, whatever other sessions do and however old a total is, where
\* PostgreSQL answers or the window of the index is a multiple of the limit
\* (internal/repository/elastic.go:118 passes the offset on as it is).
THEOREM AnnouncedPagesAnswered == Spec => [](WindowFits => AnnouncedPagesWork)
<1>1. Announced => (WindowFits => AnnouncedPagesWork)
  BY DEF Announced, Refusal, AnnouncedPagesWork
<1>2. Spec => [](TypeOK /\ Bounds)
  <2>1. IInv => TypeOK /\ Bounds
    BY DEF IInv
  <2> QED
    BY <2>1, Inductive, PTL
<1>3. TypeOK /\ Bounds /\ Announced /\ [Next]_vars => Announced'
  BY NextAnnounced
<1> QED
  BY <1>1, <1>2, <1>3, InitAnnounced, PTL DEF Spec
====
