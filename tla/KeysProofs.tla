----------------------------- MODULE KeysProofs -----------------------------
(***************************************************************************)
(* What is proved of Keys, for any kinds, names, settings and static       *)
(* files: strings are taken apart where they were put together, so a key   *)
(* leads to an informer that sees its object, and the namespaces watched   *)
(* are those of the setting.                                               *)
(***************************************************************************)
EXTENDS Keys, FiniteSetTheorems, SequenceTheorems, NaturalsInduction,
        WellFoundedInduction, TLAPS

(* The least-number principle, from the well-foundedness of < on Nat.      *)
Smaller == {p \in Nat \X Nat : p[1] < p[2]}

(* Min takes the least of some positions.                                  *)
LEMMA LeastPosition ==
  ASSUME NEW T, T \subseteq Nat, T # {}
  PROVE  /\ Min(T) \in T
         /\ \A y \in T : Min(T) <= y
<1>1. IsWellFoundedOn(Smaller, Nat)
  BY NatLessThanWellFounded DEF OpToRel, Smaller
<1>2. PICK x \in T : \A y \in T : ~ (<<y, x>> \in Smaller)
  BY <1>1, WFMin
<1>3. \A y \in T : x \in Nat /\ y \in Nat /\ ~ (y < x)
  BY <1>2 DEF Smaller
<1>4. \E m \in T : \A y \in T : m <= y
  BY <1>3
<1> QED  BY <1>4 DEF Min

(* A set of positions of a string has a last one.                          *)
LEMMA LastPosition ==
  ASSUME NEW n \in Nat, NEW T, T \subseteq 1..n, T # {}
  PROVE  /\ Max(T) \in T
         /\ \A y \in T : y <= Max(T)
<1> DEFINE U == {m \in Nat : \A y \in T : y <= m}
<1>1. n \in U
  OBVIOUS
<1>2. U \subseteq Nat /\ U # {}
  BY <1>1
<1>3. Min(U) \in U /\ \A y \in U : Min(U) <= y
  BY <1>2, LeastPosition
<1> DEFINE m == Min(U)
<1>4. m \in Nat /\ \A y \in T : y <= m
  BY <1>3
<1>5. m \in T
  <2> SUFFICES ASSUME m \notin T PROVE FALSE
    OBVIOUS
  <2>1. \A y \in T : y \in Nat /\ y >= 1 /\ y < m
    BY <1>4
  <2>2. m - 1 \in Nat
    <3>1. PICK y \in T : TRUE
      OBVIOUS
    <3> HIDE DEF m
    <3> QED  BY <3>1, <2>1, <1>4
  <2>3. m - 1 \in U
    <3> HIDE DEF m
    <3> QED  BY <2>1, <2>2, <1>4
  <2>4. m <= m - 1
    BY <2>3, <1>3
  <2> QED  BY <2>4, <1>4
<1>6. \E x \in T : \A y \in T : x >= y
  <2>1. \A y \in T : m >= y
    BY <1>4
  <2> QED  BY <1>5, <2>1
<1>7. Max(T) \in T /\ \A y \in T : Max(T) >= y
  BY <1>6 DEF Max
<1> QED  BY <1>7

-----------------------------------------------------------------------------
(* Counting separators: Before starts at 0, never falls, and rises by one  *)
(* at every separator and nowhere else.                                    *)
LEMMA BeforeCounts ==
  ASSUME NEW S, NEW s \in Seq(S), NEW sep
  PROVE  /\ \A p \in Nat : Before(s, sep, p) \in Nat
         /\ Before(s, sep, 1) = 0
         /\ \A p, q \in Nat : p <= q => Before(s, sep, p) <= Before(s, sep, q)
         /\ \A p \in 1..Len(s) : Before(s, sep, p + 1) =
              Before(s, sep, p) + IF s[p] = sep THEN 1 ELSE 0
<1> DEFINE B(p) == {i \in At(s, sep) : i < p}
<1>1. Len(s) \in Nat /\ At(s, sep) \subseteq 1..Len(s) /\ DOMAIN s = 1..Len(s)
  BY LenProperties DEF At
<1>2. IsFiniteSet(1..Len(s))
  BY <1>1, FS_Interval
<1>3. \A p : B(p) \subseteq 1..Len(s) /\ IsFiniteSet(B(p)) /\ Cardinality(B(p)) \in Nat
  <2> TAKE p
  <2>1. B(p) \subseteq 1..Len(s)
    BY <1>1
  <2>2. IsFiniteSet(B(p))
    BY <2>1, <1>2, FS_Subset
  <2> QED  BY <2>1, <2>2, FS_CardinalityType
<1>4. B(1) = {}
  BY <1>1
<1>5. ASSUME NEW p \in Nat, NEW q \in Nat, p <= q
      PROVE  Cardinality(B(p)) <= Cardinality(B(q))
  <2>1. B(p) \subseteq B(q)
    BY <1>1, <1>5
  <2> QED  BY <2>1, <1>3, FS_Subset
<1>6. ASSUME NEW p \in 1..Len(s)
      PROVE  Cardinality(B(p + 1)) = Cardinality(B(p)) + IF s[p] = sep THEN 1 ELSE 0
  <2>1. CASE s[p] = sep
    <3>1. B(p + 1) = B(p) \cup {p} /\ p \notin B(p)
      BY <2>1, <1>1 DEF At
    <3> HIDE DEF B
    <3>2. Cardinality(B(p) \cup {p}) = Cardinality(B(p)) + 1
      BY <3>1, <1>3, FS_AddElement
    <3> QED  BY <3>1, <3>2, <2>1
  <2>2. CASE s[p] # sep
    <3>1. B(p + 1) = B(p)
      BY <2>2, <1>1 DEF At
    <3> HIDE DEF B
    <3> QED  BY <3>1, <1>3, <2>2
  <2> QED  BY <2>1, <2>2
<1>7. \A p : Before(s, sep, p) = Cardinality(B(p))
  BY DEF Before
<1> HIDE DEF B
<1> QED  BY <1>3, <1>4, <1>5, <1>6, <1>7, FS_EmptySet

(* What lies between two separators next to each other, or an end.         *)
Piece(s, sep, a, z) ==
  /\ a \in 1..Len(s) + 1 /\ z \in a..Len(s) + 1
  /\ a = 1 \/ s[a - 1] = sep
  /\ z = Len(s) + 1 \/ s[z] = sep
  /\ \A p \in a..z - 1 : s[p] # sep

(* No position is skipped: some position has i separators before it, for   *)
(* every i up to their number.                                             *)
LEMMA SpanNotEmpty ==
  ASSUME NEW S, NEW s \in Seq(S), NEW sep, NEW i \in 1..Before(s, sep, Len(s) + 1) + 1
  PROVE  Span(s, sep, i) # {}
<1> DEFINE B(p) == Before(s, sep, p)
           T == {p \in 1..Len(s) + 1 : B(p) >= i - 1}
<1>1. Len(s) \in Nat
  BY LenProperties
<1>2. /\ \A p \in Nat : B(p) \in Nat
      /\ B(1) = 0
      /\ \A p \in 1..Len(s) : B(p + 1) = B(p) + IF s[p] = sep THEN 1 ELSE 0
  BY BeforeCounts
<1>3. B(Len(s) + 1) \in Nat /\ i \in 1..B(Len(s) + 1) + 1
  BY <1>1, <1>2
<1> SUFFICES \E p \in 1..Len(s) + 1 : B(p) = i - 1
  BY DEF Span
<1> HIDE DEF B
<1>4. Len(s) + 1 \in T
  BY <1>1, <1>3
<1>5. T \subseteq Nat /\ T # {}
  BY <1>1, <1>4
<1>6. PICK p \in T : \A y \in T : p <= y
  <2> HIDE DEF T
  <2> QED  BY <1>5, LeastPosition
<1>7. p \in 1..Len(s) + 1 /\ B(p) >= i - 1 /\ p \in Nat /\ B(p) \in Nat
  BY <1>1, <1>2
<1>8. CASE p = 1
  BY <1>8, <1>7, <1>2, <1>3
<1>9. CASE p # 1
  <2>1. p - 1 \in 1..Len(s) /\ p - 1 \notin T /\ p - 1 + 1 = p
    <3>1. p - 1 \in 1..Len(s) /\ ~ (p <= p - 1) /\ p - 1 + 1 = p
      BY <1>9, <1>7, <1>1
    <3> HIDE DEF T
    <3> QED  BY <3>1, <1>6
  <2>2. B(p - 1) \in Nat /\ ~ (B(p - 1) >= i - 1)
    <3>1. p - 1 \in Nat /\ p - 1 \in 1..Len(s) + 1
      BY <2>1, <1>1
    <3> QED  BY <3>1, <2>1, <1>2
  <2>3. B(p) = B(p - 1) + IF s[p - 1] = sep THEN 1 ELSE 0
    BY <2>1, <1>2
  <2>4. B(p) = i - 1
    BY <2>2, <2>3, <1>7, <1>3
  <2> QED  BY <2>4, <1>7
<1> QED  BY <1>8, <1>9

(* Positions with no separator between them have as many before them.      *)
LEMMA BeforeIsConstant ==
  ASSUME NEW S, NEW s \in Seq(S), NEW sep,
         NEW a \in 1..Len(s) + 1, NEW z \in a..Len(s) + 1, \A p \in a..z - 1 : s[p] # sep
  PROVE  \A p \in a..z : Before(s, sep, p) = Before(s, sep, a)
<1>1. Len(s) \in Nat /\ DOMAIN s = 1..Len(s)
  BY LenProperties
<1>2. ASSUME NEW p \in a..z
      PROVE  {i \in At(s, sep) : i < p} = {i \in At(s, sep) : i < a}
  BY <1>1, <1>2 DEF At
<1> QED  BY <1>2 DEF Before

(* The spans of a string are its pieces, ...                               *)
LEMMA SpanIsPiece ==
  ASSUME NEW S, NEW s \in Seq(S), NEW sep, NEW i \in 1..Before(s, sep, Len(s) + 1) + 1
  PROVE  /\ Piece(s, sep, Min(Span(s, sep, i)), Max(Span(s, sep, i)))
         /\ Before(s, sep, Min(Span(s, sep, i))) = i - 1
<1> DEFINE T == Span(s, sep, i)
           a == Min(T)
           z == Max(T)
           B(p) == Before(s, sep, p)
<1>1. Len(s) \in Nat /\ T \subseteq 1..Len(s) + 1 /\ T \subseteq Nat /\ T # {}
  BY LenProperties, SpanNotEmpty DEF Span
<1>2. a \in T /\ \A y \in T : a <= y
  BY <1>1, LeastPosition
<1>3. z \in T /\ \A y \in T : y <= z
  BY <1>1, LastPosition
<1>4. /\ a \in 1..Len(s) + 1 /\ z \in a..Len(s) + 1 /\ B(a) = i - 1 /\ B(z) = i - 1
      /\ B(Len(s) + 1) \in Nat
  BY <1>1, <1>2, <1>3, BeforeCounts DEF Span
<1>5. \A p \in 1..Len(s) + 1 : (B(p) = i - 1 => a <= p /\ p <= z) /\ B(p) \in Nat
  BY <1>1, <1>2, <1>3, BeforeCounts DEF Span
<1> HIDE DEF T, a, z
<1>6. \A p \in 1..Len(s) : B(p + 1) = B(p) + IF s[p] = sep THEN 1 ELSE 0
  BY BeforeCounts
<1>7. a = 1 \/ s[a - 1] = sep
  <2> SUFFICES ASSUME a # 1, s[a - 1] # sep PROVE FALSE
    OBVIOUS
  <2>1. a - 1 \in 1..Len(s) /\ a - 1 + 1 = a
    BY <1>1, <1>4
  <2>2. B(a - 1) = B(a)
    BY <2>1, <1>5, <1>6
  <2> QED  BY <2>1, <2>2, <1>4, <1>5
<1>8. z = Len(s) + 1 \/ s[z] = sep
  <2> SUFFICES ASSUME z # Len(s) + 1, s[z] # sep PROVE FALSE
    OBVIOUS
  <2>1. z \in 1..Len(s) /\ z + 1 \in 1..Len(s) + 1
    BY <1>1, <1>4
  <2>2. B(z + 1) = B(z)
    BY <2>1, <1>5, <1>6
  <2> QED  BY <2>1, <2>2, <1>4, <1>5
<1>9. ASSUME NEW p \in a..z - 1, s[p] = sep PROVE FALSE
  <2>1. p \in 1..Len(s) /\ p + 1 \in Nat /\ p \in Nat /\ a \in Nat /\ z \in Nat /\ p + 1 <= z /\ a <= p
    BY <1>1, <1>4, <1>9
  <2>2. B(a) <= B(p) /\ B(p + 1) <= B(z)
    BY <2>1, BeforeCounts
  <2>3. B(p + 1) = B(p) + 1 /\ B(p) \in Nat
    BY <2>1, <1>5, <1>6, <1>9
  <2> QED  BY <2>2, <2>3, <1>4
<1>10. Piece(s, sep, a, z)
  BY <1>4, <1>7, <1>8, <1>9 DEF Piece
<1> QED  BY <1>10, <1>4 DEF a, z, T

(* ... and every piece is the span that its number of separators says.     *)
LEMMA PieceIsSpan ==
  ASSUME NEW S, NEW s \in Seq(S), NEW sep, NEW a, NEW z, Piece(s, sep, a, z)
  PROVE  LET i == Before(s, sep, a) + 1
         IN  /\ i \in 1..Before(s, sep, Len(s) + 1) + 1
             /\ Min(Span(s, sep, i)) = a /\ Max(Span(s, sep, i)) = z
<1> DEFINE B(p) == Before(s, sep, p)
           i == B(a) + 1
           T == Span(s, sep, i)
<1>1. Len(s) \in Nat /\ a \in 1..Len(s) + 1 /\ z \in a..Len(s) + 1
  BY LenProperties DEF Piece
<1>2. \A p \in Nat : B(p) \in Nat
  BY BeforeCounts
<1>3. \A p, q \in Nat : p <= q => B(p) <= B(q)
  BY BeforeCounts
<1>4. \A p \in 1..Len(s) : B(p + 1) = B(p) + IF s[p] = sep THEN 1 ELSE 0
  BY BeforeCounts
<1>5. i \in 1..B(Len(s) + 1) + 1
  <2>1. a \in Nat /\ Len(s) + 1 \in Nat /\ a <= Len(s) + 1
    BY <1>1
  <2>2. B(a) \in Nat /\ B(Len(s) + 1) \in Nat /\ B(a) <= B(Len(s) + 1)
    BY <2>1, <1>2, <1>3
  <2> HIDE DEF B
  <2> QED  BY <2>2
<1>6. B(z) = B(a)
  BY <1>1, BeforeIsConstant DEF Piece
<1>7. a \in T /\ z \in T
  <2>1. B(a) = i - 1 /\ B(a) \in Nat /\ a \in 1..Len(s) + 1 /\ z \in 1..Len(s) + 1
    <3>1. B(a) \in Nat
      BY <1>1, <1>2
    <3> HIDE DEF B
    <3> QED  BY <3>1, <1>1
  <2> QED  BY <2>1, <1>6 DEF Span
<1>8. ASSUME NEW y \in T PROVE a <= y /\ y <= z
  <2>1. y \in 1..Len(s) + 1 /\ B(y) = B(a) /\ y \in Nat /\ B(y) \in Nat
    <3>1. y \in 1..Len(s) + 1 /\ B(y) = i - 1 /\ B(a) \in Nat
      BY <1>1, <1>2 DEF Span
    <3> HIDE DEF B
    <3> QED  BY <3>1, <1>1
  <2> HIDE DEF B, T
  <2>2. CASE y < a
    <3>1. a - 1 \in 1..Len(s) /\ s[a - 1] = sep /\ a - 1 + 1 = a /\ y <= a - 1 /\ a - 1 \in Nat
      BY <2>1, <2>2, <1>1 DEF Piece
    <3>2. B(a) = B(a - 1) + 1 /\ B(y) <= B(a - 1) /\ B(a - 1) \in Nat
      BY <3>1, <2>1, <1>2, <1>3, <1>4
    <3> QED  BY <3>2, <2>1
  <2>3. CASE y > z
    <3>1. z \in 1..Len(s) /\ s[z] = sep /\ z + 1 <= y /\ z + 1 \in Nat /\ z \in Nat
      BY <2>1, <2>3, <1>1 DEF Piece
    <3>2. B(z + 1) = B(z) + 1 /\ B(z + 1) <= B(y) /\ B(z) \in Nat
      BY <3>1, <2>1, <1>2, <1>3, <1>4
    <3> QED  BY <3>2, <2>1, <1>6
  <2> QED  BY <2>1, <2>2, <2>3, <1>1
<1>9. T \subseteq Nat /\ T \subseteq 1..Len(s) + 1 /\ T # {}
  BY <1>1, <1>7 DEF Span
<1>10. Min(T) \in T /\ \A y \in T : Min(T) <= y
  BY <1>9, LeastPosition
<1>11. Max(T) \in T /\ \A y \in T : y <= Max(T)
  <2>1. Len(s) + 1 \in Nat
    BY <1>1
  <2> QED  BY <1>9, <2>1, LastPosition
<1>12. Min(T) = a /\ Max(T) = z
  <2> HIDE DEF T
  <2>1. a <= Min(T) /\ Min(T) <= a /\ Max(T) <= z /\ z <= Max(T) /\ Min(T) \in Nat /\ Max(T) \in Nat
    BY <1>7, <1>8, <1>9, <1>10, <1>11
  <2> QED  BY <2>1, <1>1
<1> QED  BY <1>5, <1>12

-----------------------------------------------------------------------------
(* strings.Split yields the pieces of a string, in their order: none holds *)
(* the separator, ...                                                      *)
PieceOf(s, sep, t) == \E a, z : Piece(s, sep, a, z) /\ t = SubSeq(s, a, z - 1)

(* The parts that strings.Split yields.                                    *)
LEMMA SplitPieces ==
  ASSUME NEW S, NEW s \in Seq(S), NEW sep
  PROVE  /\ Split(s, sep) \in Seq(Seq(S \ {sep})) /\ Len(Split(s, sep)) > 0
         /\ \A i \in 1..Len(Split(s, sep)) : \E a, z :
              /\ Piece(s, sep, a, z) /\ Before(s, sep, a) = i - 1
              /\ Split(s, sep)[i] = SubSeq(s, a, z - 1)
         /\ \A i \in 1..Len(Split(s, sep)) : PieceOf(s, sep, Split(s, sep)[i])
<1> DEFINE n == Before(s, sep, Len(s) + 1) + 1
           a(i) == Min(Span(s, sep, i))
           z(i) == Max(Span(s, sep, i))
<1>1. Len(s) + 1 \in Nat /\ Len(s) \in Nat
  BY LenProperties
<1>2. n \in Nat /\ n > 0
  <2>1. \A p \in Nat : Before(s, sep, p) \in Nat
    BY BeforeCounts
  <2>2. Before(s, sep, Len(s) + 1) \in Nat
    BY <2>1, <1>1
  <2> QED  BY <2>2
<1>3. Split(s, sep) = [i \in 1..n |-> SubSeq(s, a(i), z(i) - 1)]
  BY DEF Split
<1>4. \A i \in 1..n : Piece(s, sep, a(i), z(i)) /\ Before(s, sep, a(i)) = i - 1
  BY SpanIsPiece
<1> HIDE DEF n, a, z
<1>5. \A i \in 1..n : SubSeq(s, a(i), z(i) - 1) \in Seq(S \ {sep})
  <2> TAKE i \in 1..n
  <2>1. /\ a(i) \in 1..Len(s) + 1 /\ z(i) \in a(i)..Len(s) + 1
        /\ \A p \in a(i)..z(i) - 1 : s[p] # sep
    BY <1>4 DEF Piece
  <2>2. a(i) \in Int /\ z(i) - 1 \in Int /\ \A p \in a(i)..z(i) - 1 : p \in 1..Len(s)
    BY <2>1, <1>1
  <2>3. \A p \in a(i)..z(i) - 1 : s[p] \in S \ {sep}
    BY <2>1, <2>2, ElementOfSeq
  <2> QED  BY <2>2, <2>3, SubSeqProperties
<1>6. Split(s, sep) \in Seq(Seq(S \ {sep})) /\ Len(Split(s, sep)) = n
  BY <1>2, <1>3, <1>5
<1>7. ASSUME NEW i \in 1..n PROVE PieceOf(s, sep, Split(s, sep)[i])
  BY <1>3, <1>4 DEF PieceOf
<1> QED  BY <1>2, <1>3, <1>4, <1>6, <1>7

(* ... and every piece is the part that its number of separators says.     *)
LEMMA SplitOfPiece ==
  ASSUME NEW S, NEW s \in Seq(S), NEW sep, NEW a, NEW z, Piece(s, sep, a, z)
  PROVE  /\ Before(s, sep, a) + 1 \in 1..Len(Split(s, sep))
         /\ Split(s, sep)[Before(s, sep, a) + 1] = SubSeq(s, a, z - 1)
         /\ z = Len(s) + 1 => Len(Split(s, sep)) = Before(s, sep, a) + 1
         /\ z <= Len(s) => Before(s, sep, z + 1) = Before(s, sep, a) + 1
<1> DEFINE n == Before(s, sep, Len(s) + 1) + 1
           k == Before(s, sep, a) + 1
<1>1. Len(s) + 1 \in Nat /\ Len(s) \in Nat
  BY LenProperties
<1>2. n \in Nat
  <2>1. \A p \in Nat : Before(s, sep, p) \in Nat
    BY BeforeCounts
  <2> QED  BY <2>1, <1>1
<1>3. k \in 1..n /\ Min(Span(s, sep, k)) = a /\ Max(Span(s, sep, k)) = z
  BY PieceIsSpan
<1>4. Before(s, sep, z) = Before(s, sep, a)
  BY <1>1, BeforeIsConstant DEF Piece
<1>5. z <= Len(s) => Before(s, sep, z + 1) = Before(s, sep, z) + 1
  <2> SUFFICES ASSUME z <= Len(s) PROVE Before(s, sep, z + 1) = Before(s, sep, z) + 1
    OBVIOUS
  <2>1. z \in 1..Len(s) /\ s[z] = sep
    BY <1>1 DEF Piece
  <2>2. Before(s, sep, z + 1) = Before(s, sep, z) + IF s[z] = sep THEN 1 ELSE 0
    BY <2>1, BeforeCounts
  <2> QED  BY <2>1, <2>2
<1>6. Len(Split(s, sep)) = n /\ Split(s, sep)[k] = SubSeq(s, a, z - 1)
  <2>1. Split(s, sep)[k] = SubSeq(s, a, z - 1)
    BY <1>3 DEF Split
  <2>2. Split(s, sep) = [i \in 1..n |-> Split(s, sep)[i]]
    BY DEF Split
  <2> HIDE DEF n
  <2> QED  BY <2>1, <2>2, <1>2
<1> QED  BY <1>3, <1>4, <1>5, <1>6

(* Two strings with a separator between them.                              *)
LEMMA Joined ==
  ASSUME NEW S, NEW x \in Seq(S), NEW v \in Seq(S), NEW sep \in S
  PROVE  LET t == x \o <<sep>> \o v
         IN  /\ t \in Seq(S) /\ Len(t) = Len(x) + 1 + Len(v)
             /\ \A i \in 1..Len(x) : t[i] = x[i]
             /\ t[Len(x) + 1] = sep
             /\ \A i \in 1..Len(v) : t[Len(x) + 1 + i] = v[i]
             /\ SubSeq(t, 1, Len(x)) = x /\ SubSeq(t, Len(x) + 2, Len(t)) = v
<1> DEFINE y == x \o <<sep>>
           t == y \o v
<1>1. Len(x) \in Nat /\ Len(v) \in Nat /\ <<sep>> \in Seq(S) /\ Len(<<sep>>) = 1
  BY LenProperties
<1>2. /\ y \in Seq(S) /\ Len(y) = Len(x) + 1
      /\ \A i \in 1..Len(x) + 1 : y[i] = IF i <= Len(x) THEN x[i] ELSE <<sep>>[i - Len(x)]
  BY <1>1, ConcatProperties
<1>3. (\A i \in 1..Len(x) : y[i] = x[i]) /\ y[Len(x) + 1] = sep
  BY <1>1, <1>2
<1> HIDE DEF y
<1>4. /\ t \in Seq(S) /\ Len(t) = Len(x) + 1 + Len(v)
      /\ \A i \in 1..Len(x) + 1 + Len(v) :
           t[i] = IF i <= Len(x) + 1 THEN y[i] ELSE v[i - (Len(x) + 1)]
  <2>1. y \in Seq(S) /\ Len(y) = Len(x) + 1
    BY <1>2
  <2>2. /\ t \in Seq(S) /\ Len(t) = Len(y) + Len(v)
        /\ \A i \in 1..Len(y) + Len(v) :
             t[i] = IF i <= Len(y) THEN y[i] ELSE v[i - Len(y)]
    BY <2>1, ConcatProperties
  <2> QED  BY <2>1, <2>2
<1> HIDE DEF t
<1>5. \A i \in 1..Len(x) : t[i] = x[i]
  BY <1>1, <1>3, <1>4
<1>6. t[Len(x) + 1] = sep
  BY <1>1, <1>3, <1>4
<1>7. \A i \in 1..Len(v) : t[Len(x) + 1 + i] = v[i]
  <2> TAKE i \in 1..Len(v)
  <2>1. /\ Len(x) + 1 + i \in 1..Len(x) + 1 + Len(v) /\ ~ (Len(x) + 1 + i <= Len(x) + 1)
        /\ Len(x) + 1 + i - (Len(x) + 1) = i
    BY <1>1
  <2> QED  BY <2>1, <1>4
<1>8. \A i \in 1..Len(t) : t[i] \in S
  BY <1>4, ElementOfSeq
<1>9. SubSeq(t, 1, Len(x)) = x
  <2>1. \A i \in 1..Len(x) : t[i] \in S
    BY <1>1, <1>4, <1>8
  <2>2. /\ SubSeq(t, 1, Len(x)) \in Seq(S) /\ Len(SubSeq(t, 1, Len(x))) = Len(x)
        /\ \A i \in 1..Len(x) : SubSeq(t, 1, Len(x))[i] = t[i]
    BY <2>1, <1>1, SubSeqProperties
  <2> QED  BY <2>2, <1>5, SeqEqual
<1>10. SubSeq(t, Len(x) + 2, Len(t)) = v
  <2> DEFINE w == SubSeq(t, Len(x) + 2, Len(t))
  <2>1. \A i \in Len(x) + 2..Len(t) : t[i] \in S
    BY <1>1, <1>8
  <2>2. Len(x) + 2 \in Int /\ Len(t) \in Int /\ Len(t) - (Len(x) + 2) + 1 = Len(v)
    BY <1>1, <1>4
  <2>3. /\ w \in Seq(S) /\ Len(w) = Len(v)
        /\ \A i \in 1..Len(v) : w[i] = t[Len(x) + 2 + i - 1]
    BY <2>1, <2>2, <1>1, <1>4, SubSeqProperties
  <2> HIDE DEF w
  <2>4. \A i \in 1..Len(v) : w[i] = v[i]
    <3> TAKE i \in 1..Len(v)
    <3>1. Len(x) + 2 + i - 1 = Len(x) + 1 + i
      BY <1>1
    <3> QED  BY <3>1, <2>3, <1>7
  <2>5. w = v
    BY <2>3, <2>4, SeqEqual
  <2> QED  BY <2>5 DEF w
<1>11. t = x \o <<sep>> \o v
  BY DEF t, y
<1> QED  BY <1>4, <1>5, <1>6, <1>7, <1>9, <1>10, <1>11

(* A string without the separator is its only part, ...                    *)
LEMMA SplitPlain ==
  ASSUME NEW S, NEW sep, NEW s \in Seq(S \ {sep})
  PROVE  Split(s, sep) = <<s>>
<1>1. Len(s) \in Nat /\ s \in [1..Len(s) -> S \ {sep}]
  BY LenProperties
<1>2. Piece(s, sep, 1, Len(s) + 1)
  BY <1>1 DEF Piece
<1>3. Before(s, sep, 1) = 0
  BY BeforeCounts
<1>4. Len(Split(s, sep)) = 1 /\ Split(s, sep)[1] = SubSeq(s, 1, Len(s) + 1 - 1)
  <2>1. /\ Split(s, sep)[Before(s, sep, 1) + 1] = SubSeq(s, 1, Len(s) + 1 - 1)
        /\ Len(Split(s, sep)) = Before(s, sep, 1) + 1
    BY <1>2, SplitOfPiece
  <2> QED  BY <2>1, <1>3
<1>5. SubSeq(s, 1, Len(s) + 1 - 1) = s
  <2>1. Len(s) + 1 - 1 = Len(s)
    BY <1>1
  <2> QED  BY <2>1, SubSeqFull
<1>6. Split(s, sep) \in Seq(Seq((S \ {sep}) \ {sep}))
  BY SplitPieces
<1> QED  BY <1>4, <1>5, <1>6

(* ... and a separator and such a string add a part to any other.          *)
LEMMA SplitAppend ==
  ASSUME NEW S, NEW sep \in S, NEW x \in Seq(S), NEW v \in Seq(S \ {sep})
  PROVE  /\ x \o <<sep>> \o v \in Seq(S)
         /\ Split(x \o <<sep>> \o v, sep) = Append(Split(x, sep), v)
<1> DEFINE t == x \o <<sep>> \o v
<1>1. v \in Seq(S)
  BY SeqMonotonic
<1>2. /\ t \in Seq(S) /\ Len(t) = Len(x) + 1 + Len(v)
      /\ \A i \in 1..Len(x) : t[i] = x[i]
      /\ t[Len(x) + 1] = sep
      /\ \A i \in 1..Len(v) : t[Len(x) + 1 + i] = v[i]
      /\ SubSeq(t, Len(x) + 2, Len(t)) = v
  BY <1>1, Joined
<1> HIDE DEF t
<1>3. Len(x) \in Nat /\ Len(v) \in Nat /\ DOMAIN x = 1..Len(x) /\ DOMAIN t = 1..Len(t)
  BY <1>1, <1>2, LenProperties
<1>4. \A p \in 1..Len(x) + 1 : Before(t, sep, p) = Before(x, sep, p)
  <2> TAKE p \in 1..Len(x) + 1
  <2>1. {i \in At(t, sep) : i < p} = {i \in At(x, sep) : i < p}
    BY <1>2, <1>3 DEF At
  <2> QED  BY <2>1 DEF Before
<1> DEFINE n == Len(Split(x, sep))
<1>5. /\ Split(x, sep) \in Seq(Seq(S \ {sep})) /\ n > 0
      /\ \A i \in 1..n : \E a, z :
              /\ Piece(x, sep, a, z) /\ Before(x, sep, a) = i - 1
              /\ Split(x, sep)[i] = SubSeq(x, a, z - 1)
  BY SplitPieces
<1>6. Split(t, sep) \in Seq(Seq(S \ {sep})) /\ n \in Nat
  BY <1>2, <1>5, SplitPieces, LenProperties
<1>7. ASSUME NEW i \in 1..n PROVE Split(t, sep)[i] = Split(x, sep)[i]
  <2>1. PICK a, z : /\ Piece(x, sep, a, z) /\ Before(x, sep, a) = i - 1
                    /\ Split(x, sep)[i] = SubSeq(x, a, z - 1)
    BY <1>5
  <2>2. a \in 1..Len(x) + 1 /\ z \in a..Len(x) + 1
    BY <2>1 DEF Piece
  <2>3. Piece(t, sep, a, z)
    <3>1. a \in 1..Len(t) + 1 /\ z \in a..Len(t) + 1
      BY <2>2, <1>2, <1>3
    <3>2. a = 1 \/ t[a - 1] = sep
      <4>1. a # 1 => a - 1 \in 1..Len(x)
        BY <2>2, <1>3
      <4> QED  BY <4>1, <2>1, <1>2 DEF Piece
    <3>3. t[z] = sep
      <4>1. z = Len(x) + 1 \/ z \in 1..Len(x)
        BY <2>2, <1>3
      <4> QED  BY <4>1, <2>1, <1>2 DEF Piece
    <3>4. \A p \in a..z - 1 : p \in 1..Len(x) /\ x[p] # sep
      <4>1. \A p \in a..z - 1 : p \in 1..Len(x)
        BY <2>2, <1>3
      <4> QED  BY <4>1, <2>1 DEF Piece
    <3> QED  BY <3>1, <3>2, <3>3, <3>4, <1>2 DEF Piece
  <2>4. Before(t, sep, a) = i - 1
    BY <2>1, <2>2, <1>4
  <2>5. Split(t, sep)[i - 1 + 1] = SubSeq(t, a, z - 1)
    BY <2>3, <2>4, <1>2, SplitOfPiece
  <2>6. SubSeq(t, a, z - 1) = SubSeq(x, a, z - 1)
    <3>1. \A p \in a..z - 1 : t[p] = x[p]
      BY <2>2, <1>2, <1>3
    <3> QED  BY <3>1, <2>2, <1>3
  <2>7. i - 1 + 1 = i
    BY <1>6
  <2> QED  BY <2>1, <2>5, <2>6, <2>7
<1>8. Before(t, sep, Len(x) + 2) = n
  <2>1. n = Before(x, sep, Len(x) + 1) + 1
    <3>1. \A p \in Nat : Before(x, sep, p) \in Nat
      BY BeforeCounts
    <3>2. Len(x) + 1 \in Nat
      BY <1>3
    <3>3. Before(x, sep, Len(x) + 1) \in Nat
      BY <3>1, <3>2
    <3> QED  BY <3>3 DEF Split
  <2>2. Before(t, sep, Len(x) + 1 + 1) = Before(t, sep, Len(x) + 1) + IF t[Len(x) + 1] = sep THEN 1 ELSE 0
    <3>1. Len(x) + 1 \in 1..Len(t)
      BY <1>2, <1>3
    <3> QED  BY <3>1, <1>2, BeforeCounts
  <2>3. Before(t, sep, Len(x) + 1) = Before(x, sep, Len(x) + 1) /\ Len(x) + 1 + 1 = Len(x) + 2
    BY <1>3, <1>4
  <2> QED  BY <2>1, <2>2, <2>3, <1>2
<1>9. Piece(t, sep, Len(x) + 2, Len(t) + 1)
  <2>1. Len(x) + 2 \in 1..Len(t) + 1 /\ Len(t) + 1 \in Len(x) + 2..Len(t) + 1 /\ Len(x) + 2 - 1 = Len(x) + 1
    BY <1>2, <1>3
  <2>2. ASSUME NEW p \in Len(x) + 2..Len(t) + 1 - 1 PROVE t[p] # sep
    <3>1. p - (Len(x) + 1) \in 1..Len(v) /\ Len(x) + 1 + (p - (Len(x) + 1)) = p
      BY <1>2, <1>3
    <3>2. t[p] = v[p - (Len(x) + 1)]
      BY <3>1, <1>2
    <3> QED  BY <3>1, <3>2, ElementOfSeq
  <2> QED  BY <2>1, <2>2, <1>2 DEF Piece
<1>10. Len(Split(t, sep)) = n + 1 /\ Split(t, sep)[n + 1] = v
  <2>1. Len(t) + 1 - 1 = Len(t)
    BY <1>2, <1>3
  <2> HIDE DEF n
  <2>2. /\ Split(t, sep)[Before(t, sep, Len(x) + 2) + 1] = SubSeq(t, Len(x) + 2, Len(t) + 1 - 1)
        /\ Len(Split(t, sep)) = Before(t, sep, Len(x) + 2) + 1
    <3>1. t \in Seq(S)
      BY <1>2
    <3> DEFINE a == Len(x) + 2
               z == Len(t) + 1
    <3>2. Piece(t, sep, a, z) /\ z = Len(t) + 1
      BY <1>9
    <3> HIDE DEF a, z
    <3>3. /\ Split(t, sep)[Before(t, sep, a) + 1] = SubSeq(t, a, z - 1)
          /\ Len(Split(t, sep)) = Before(t, sep, a) + 1
      BY <3>1, <3>2, SplitOfPiece
    <3> QED  BY <3>3 DEF a, z
  <2> QED  BY <2>1, <2>2, <1>2, <1>8
<1>11. Split(t, sep) = Append(Split(x, sep), v)
  <2> DEFINE q == Append(Split(x, sep), v)
  <2>1. /\ q \in Seq(Seq(S \ {sep})) /\ Len(q) = n + 1 /\ q[n + 1] = v
        /\ \A i \in 1..n : q[i] = Split(x, sep)[i]
    BY <1>5, AppendProperties
  <2> HIDE DEF n, q
  <2>2. \A i \in 1..n + 1 : Split(t, sep)[i] = q[i]
    <3> TAKE i \in 1..n + 1
    <3>1. i \in 1..n \/ i = n + 1
      BY <1>6
    <3> QED  BY <3>1, <2>1, <1>7, <1>10
  <2>3. Split(t, sep) = q
    BY <2>1, <2>2, <1>6, <1>10, SeqEqual
  <2> QED  BY <2>3 DEF q
<1> QED  BY <1>2, <1>11 DEF t

(* strings.SplitN(s, sep, 2) cuts at the first separator.                  *)
LEMMA SplitNFirst ==
  ASSUME NEW S, NEW sep \in S, NEW x \in Seq(S \ {sep}), NEW v \in Seq(S)
  PROVE  SplitN(x \o <<sep>> \o v, sep) = <<x, v>>
<1> DEFINE t == x \o <<sep>> \o v
<1>1. x \in Seq(S)
  BY SeqMonotonic
<1>2. /\ t \in Seq(S) /\ Len(t) = Len(x) + 1 + Len(v)
      /\ \A i \in 1..Len(x) : t[i] = x[i]
      /\ t[Len(x) + 1] = sep
      /\ SubSeq(t, 1, Len(x)) = x /\ SubSeq(t, Len(x) + 2, Len(t)) = v
  BY <1>1, Joined
<1> HIDE DEF t
<1>3. Len(x) \in Nat /\ Len(v) \in Nat /\ DOMAIN t = 1..Len(t) /\ \A i \in 1..Len(x) : x[i] # sep
  BY <1>2, LenProperties, ElementOfSeq
<1>4. Len(x) + 1 \in At(t, sep) /\ \A i \in At(t, sep) : i \in Nat /\ Len(x) + 1 <= i
  BY <1>2, <1>3 DEF At
<1>5. Min(At(t, sep)) = Len(x) + 1
  <2>1. At(t, sep) \subseteq Nat /\ At(t, sep) # {}
    BY <1>4
  <2>2. Min(At(t, sep)) \in At(t, sep) /\ \A y \in At(t, sep) : Min(At(t, sep)) <= y
    BY <2>1, LeastPosition
  <2>3. Min(At(t, sep)) \in Nat /\ Min(At(t, sep)) <= Len(x) + 1 /\ Len(x) + 1 <= Min(At(t, sep))
    BY <2>2, <1>4
  <2> QED  BY <2>3, <1>3
<1>6. SplitN(t, sep) = <<x, v>>
  <2>1. Len(x) + 1 - 1 = Len(x) /\ Len(x) + 1 + 1 = Len(x) + 2
    BY <1>3
  <2>2. SplitN(t, sep) = <<SubSeq(t, 1, Len(x) + 1 - 1), SubSeq(t, Len(x) + 1 + 1, Len(t))>>
    BY <1>4, <1>5 DEF SplitN, SplitAt
  <2> QED  BY <2>1, <2>2, <1>2
<1> QED  BY <1>6 DEF t

-----------------------------------------------------------------------------
(* Tuples grow one by one.                                                 *)
LEMMA PairAppend ==
  ASSUME NEW T, NEW a \in T, NEW b \in T
  PROVE  Append(<<a>>, b) = <<a, b>>
<1> DEFINE q == Append(<<a>>, b)
<1>1. <<a>> \in Seq(T) /\ Len(<<a>>) = 1 /\ <<a>>[1] = a
  OBVIOUS
<1>2. q \in Seq(T) /\ Len(q) = 2 /\ q[1] = a /\ q[2] = b
  BY <1>1, AppendProperties
<1> HIDE DEF q
<1>3. q = <<a, b>>
  BY <1>2
<1> QED  BY <1>3 DEF q

(* The four segments of a kind, added one after the other.                 *)
LEMMA FourParts ==
  ASSUME NEW T, NEW a \in T, NEW b \in T, NEW c \in T, NEW d \in T
  PROVE  LET q == Append(Append(<<a, b>>, c), d)
         IN  q[1] = a /\ q[2] = b /\ q[3] = c /\ q[4] = d
<1> DEFINE q == Append(<<a, b>>, c)
           r == Append(q, d)
<1>1. <<a, b>> \in Seq(T) /\ Len(<<a, b>>) = 2 /\ <<a, b>>[1] = a /\ <<a, b>>[2] = b
  OBVIOUS
<1>2. q \in Seq(T) /\ Len(q) = 3 /\ q[1] = a /\ q[2] = b /\ q[3] = c
  BY <1>1, AppendProperties
<1> HIDE DEF q
<1>3. r[1] = a /\ r[2] = b /\ r[3] = c /\ r[4] = d
  <2>1. r[Len(q) + 1] = d /\ \A i \in 1..Len(q) : r[i] = q[i]
    <3>1. q \in Seq(T)
      BY <1>2
    <3> QED  BY <3>1, AppendProperties
  <2> HIDE DEF r
  <2> QED  BY <2>1, <1>2
<1> QED  BY <1>3 DEF q

(* The part of a key before its bar names the kind.                        *)
LEMMA PrefixNamesKind ==
  ASSUME NEW g \in Kind
  PROVE  Prefix(g) \in Seq(Char \ {"|"}) /\ Segments(Split(Prefix(g), "/")) = g
<1> DEFINE S == Char \ {"|"}
           x2 == g.group \o <<"/">> \o g.version
           x3 == x2 \o <<"/">> \o g.resource
           x4 == x3 \o <<"/">> \o g.kind
<1>1. "/" \in S
  BY KeysAssumption
<1>2. /\ g.group \in Seq(S \ {"/"}) /\ g.version \in Seq(S \ {"/"})
      /\ g.resource \in Seq(S \ {"/"}) /\ g.kind \in Seq(S \ {"/"})
  <2>1. S \ {"/"} = Char \ {"/", "|"}
    OBVIOUS
  <2> QED  BY <2>1 DEF Kind, Part
<1> HIDE DEF S
<1>3. g.group \in Seq(S)
  <2>1. S \ {"/"} \subseteq S
    OBVIOUS
  <2> QED  BY <2>1, <1>2, SeqMonotonic
<1>4. Split(g.group, "/") = <<g.group>>
  BY <1>2, SplitPlain
<1>5. x2 \in Seq(S) /\ Split(x2, "/") = Append(Split(g.group, "/"), g.version)
  BY <1>1, <1>2, <1>3, SplitAppend
<1> HIDE DEF x2
<1>6. x3 \in Seq(S) /\ Split(x3, "/") = Append(Split(x2, "/"), g.resource)
  BY <1>1, <1>2, <1>5, SplitAppend
<1> HIDE DEF x3
<1>7. x4 \in Seq(S) /\ Split(x4, "/") = Append(Split(x3, "/"), g.kind)
  BY <1>1, <1>2, <1>6, SplitAppend
<1>8. Prefix(g) = x4
  BY DEF Prefix, x4, x3, x2
<1> HIDE DEF x4
<1>9. Split(Prefix(g), "/") = Append(Append(<<g.group, g.version>>, g.resource), g.kind)
  <2>1. Split(x2, "/") = <<g.group, g.version>>
    BY <1>2, <1>4, <1>5, PairAppend
  <2> QED  BY <2>1, <1>6, <1>7, <1>8
<1>10. Segments(Split(Prefix(g), "/")) = g
  <2> DEFINE p == Split(Prefix(g), "/")
  <2>1. p[1] = g.group /\ p[2] = g.version /\ p[3] = g.resource /\ p[4] = g.kind
    BY <1>2, <1>9, FourParts
  <2> HIDE DEF p
  <2>2. Segments(p) = g
    BY <2>1 DEF Segments, Kind
  <2> QED  BY <2>2 DEF p
<1> QED  BY <1>7, <1>8, <1>10 DEF S

(* cache.SplitMetaNamespaceKey by the number of parts.                     *)
LEMMA MetaKeySplits ==
  ASSUME NEW key
  PROVE  LET p == Split(key, "/")
         IN  /\ Len(p) = 1 => SplitMetaNamespaceKey(key) = [ok |-> TRUE, ns |-> <<>>, name |-> p[1]]
             /\ Len(p) = 2 => SplitMetaNamespaceKey(key) = [ok |-> TRUE, ns |-> p[1], name |-> p[2]]
<1> DEFINE p == Split(key, "/")
<1>1. SplitMetaNamespaceKey(key) =
        CASE Len(p) = 1 -> [ok |-> TRUE, ns |-> <<>>, name |-> p[1]]
          [] Len(p) = 2 -> [ok |-> TRUE, ns |-> p[1], name |-> p[2]]
          [] OTHER -> [ok |-> FALSE, ns |-> <<>>, name |-> <<>>]
  BY DEF SplitMetaNamespaceKey
<1> HIDE DEF p
<1>2. Len(p) = 1 => SplitMetaNamespaceKey(key) = [ok |-> TRUE, ns |-> <<>>, name |-> p[1]]
  BY <1>1
<1>3. Len(p) = 2 => SplitMetaNamespaceKey(key) = [ok |-> TRUE, ns |-> p[1], name |-> p[2]]
  BY <1>1
<1> QED  BY <1>2, <1>3 DEF p

(* The key of an object, as cache.MetaNamespaceKeyFunc builds it, comes    *)
(* apart into its namespace and name.                                      *)
LEMMA ObjectKeySplits ==
  ASSUME NEW o \in Objects
  PROVE  /\ MetaNamespaceKey(o) \in Seq(Char)
         /\ SplitMetaNamespaceKey(MetaNamespaceKey(o)) = [ok |-> TRUE, ns |-> o.ns, name |-> o.name]
         /\ getObjectKey(o.ns, o.name) = MetaNamespaceKey(o)
<1>1. o.ns \in Nss \cup {<<>>} /\ o.name \in Seq(Char \ {"/"}) /\ "/" \in Char
  BY KeysAssumption DEF Objects
<1>2. o.ns \in Seq(Char \ {"/"})
  <2>1. CASE o.ns \in Nss
    <3>1. o.ns \in Seq(Char \ ({"/", ","} \cup Blank))
      BY <2>1, KeysAssumption
    <3>2. Char \ ({"/", ","} \cup Blank) \subseteq Char \ {"/"}
      OBVIOUS
    <3> QED  BY <3>1, <3>2, SeqMonotonic
  <2>2. CASE o.ns = <<>>
    BY <2>2, EmptySeq
  <2> QED  BY <2>1, <2>2, <1>1
<1>3. o.ns \in Seq(Char) /\ o.name \in Seq(Char)
  BY <1>1, <1>2, SeqMonotonic
<1>4. CASE o.ns = <<>>
  <2>1. MetaNamespaceKey(o) = o.name /\ Len(o.ns) = 0
    BY <1>4 DEF MetaNamespaceKey
  <2>2. Split(o.name, "/") = <<o.name>>
    BY <1>1, SplitPlain
  <2>3. SplitMetaNamespaceKey(o.name) = [ok |-> TRUE, ns |-> <<>>, name |-> o.name]
    <3> DEFINE p == Split(o.name, "/")
    <3>1. Len(p) = 1 /\ p[1] = o.name
      BY <2>2
    <3> HIDE DEF p
    <3> QED  BY <3>1, MetaKeySplits DEF p
  <2> QED  BY <2>1, <2>3, <1>3, <1>4 DEF getObjectKey
<1>5. CASE o.ns # <<>>
  <2> DEFINE key == o.ns \o <<"/">> \o o.name
  <2>1. MetaNamespaceKey(o) = key /\ Len(o.ns) > 0
    <3>1. Len(o.ns) \in Nat \ {0}
      BY <1>3, <1>5, EmptySeq
    <3>2. MetaNamespaceKey(o) = key
      BY <1>5, Zenon DEF MetaNamespaceKey
    <3> QED  BY <3>1, <3>2
  <2>2. key \in Seq(Char)
    BY <1>1, <1>3, Joined
  <2>3. Split(o.ns, "/") = <<o.ns>>
    BY <1>2, SplitPlain
  <2>4. Split(key, "/") = <<o.ns, o.name>>
    <3>1. Split(key, "/") = Append(Split(o.ns, "/"), o.name)
      BY <1>1, <1>3, SplitAppend
    <3> HIDE DEF key
    <3> QED  BY <3>1, <2>3, <1>1, <1>2, PairAppend
  <2>5. getObjectKey(o.ns, o.name) = key
    BY <2>1 DEF getObjectKey
  <2> HIDE DEF key
  <2>6. SplitMetaNamespaceKey(key) = [ok |-> TRUE, ns |-> o.ns, name |-> o.name]
    <3> DEFINE p == Split(key, "/")
    <3>1. Len(p) = 2 /\ p[1] = o.ns /\ p[2] = o.name
      BY <2>4
    <3> HIDE DEF p
    <3> QED  BY <3>1, MetaKeySplits DEF p
  <2> QED  BY <2>1, <2>2, <2>5, <2>6
<1> QED  BY <1>4, <1>5

(* What buildKey put together, splitKey takes apart, whatever the group,   *)
(* also none, and whatever bars the name of the object has.                *)
THEOREM KeyRoundTrip ==
  \A o \in Objects : splitKey(buildKey(o.kind, o)) = [kind |-> o.kind, ns |-> o.ns, name |-> o.name]
<1> TAKE o \in Objects
<1>1. o.kind \in Kind /\ "|" \in Char
  BY KeysAssumption DEF Objects
<1>2. SplitN(buildKey(o.kind, o), "|") = <<Prefix(o.kind), MetaNamespaceKey(o)>>
  BY <1>1, PrefixNamesKind, ObjectKeySplits, SplitNFirst DEF buildKey
<1> QED  BY <1>1, <1>2, PrefixNamesKind, ObjectKeySplits DEF splitKey

(* No two informers are registered under the same key: getInformerKey      *)
(* tells kinds and namespaces apart, odd ones of the setting included.     *)
THEOREM InformerKeysDiffer ==
  \A g, h \in Kind, ns, ms \in Seq(Char) :
    getInformerKey(g, ns) = getInformerKey(h, ms) => g = h /\ ns = ms
<1> TAKE g, h \in Kind, ns, ms \in Seq(Char)
<1>1. \A k \in Kind, n \in Seq(Char) : SplitN(getInformerKey(k, n), "|") = <<Prefix(k), n>>
  BY KeysAssumption, PrefixNamesKind, SplitNFirst DEF getInformerKey
<1>2. getInformerKey(g, ns) = getInformerKey(h, ms) => Prefix(g) = Prefix(h) /\ ns = ms
  BY <1>1
<1> QED  BY <1>2, PrefixNamesKind

-----------------------------------------------------------------------------
(* The inductive invariant.  The map holds each informer that runs under   *)
(* its own key, ...                                                        *)
Registered ==
  /\ running \subseteq [kind : Kind, ns : Seq(Char \ {","})]
  /\ \A inf \in running : getInformerKey(inf.kind, inf.ns) \in DOMAIN informers
  /\ \A k \in DOMAIN informers :
       informers[k] \in running /\ getInformerKey(informers[k].kind, informers[k].ns) = k

(* ... an item is the key of an object that some informer sees, ...        *)
Notified ==
  /\ object # <<>> => object \in Objects /\ Watched(object)
  /\ item # <<>> => object # <<>> /\ item = buildKey(object.kind, object)
  /\ LookupFindsWatcher

(* ... and a dynamic kind with namespaces is watched in those of the       *)
(* setting, as Setup has read it.                                          *)
Setting == [i \in DOMAIN Split(raw, ",") |-> TrimSpace(Split(raw, ",")[i])]

WatchedWhereSet ==
  /\ namespaces \in {<<>>, Setting} /\ (namespaces = <<>> => tracked = {} /\ running = {})
  /\ \A g \in tracked \ ClusterScoped, ns \in Range(namespaces) : Informer(g, ns) \in running
  /\ \A inf \in running : \/ inf.kind \in ClusterScoped \cup StaticKinds
                          \/ inf.kind \in tracked /\ inf.ns \in Range(namespaces)

KInv ==
  /\ raw \in Seq(Char) /\ static \in Seq(Char \ {"|"})
  /\ namespaces \in Seq(Seq(Char \ {","})) /\ tracked \subseteq Dynamic
  /\ Registered /\ Notified /\ WatchedWhereSet

(* strings.TrimSpace: nothing is left of blanks, otherwise what lies       *)
(* between the first and the last character that is none.                  *)
LEMMA Trimmed ==
  ASSUME NEW S, NEW s \in Seq(S)
  PROVE  /\ TrimSpace(s) \in Seq(S)
         /\ \/ TrimSpace(s) = <<>> /\ \A k \in 1..Len(s) : s[k] \in Blank
            \/ \E i \in 1..Len(s), j \in 1..Len(s) :
                 /\ i <= j /\ TrimSpace(s) = SubSeq(s, i, j)
                 /\ s[i] \notin Blank /\ s[j] \notin Blank
                 /\ \A k \in 1..Len(s) : k < i \/ k > j => s[k] \in Blank
<1> DEFINE T == {i \in DOMAIN s : s[i] \notin Blank}
<1>1. Len(s) \in Nat /\ DOMAIN s = 1..Len(s) /\ T \subseteq 1..Len(s) /\ T \subseteq Nat
  BY LenProperties
<1>2. CASE T = {}
  <2>1. TrimSpace(s) = <<>>
    BY <1>2 DEF TrimSpace
  <2> QED  BY <2>1, <1>1, <1>2, EmptySeq
<1>3. CASE T # {}
  <2>1. TrimSpace(s) = SubSeq(s, Min(T), Max(T))
    BY <1>3 DEF TrimSpace
  <2>2. Min(T) \in T /\ Max(T) \in T /\ \A k \in T : Min(T) <= k /\ k <= Max(T)
    <3> HIDE DEF T
    <3> QED  BY <1>1, <1>3, LeastPosition, LastPosition
  <2> DEFINE i == Min(T)
             j == Max(T)
  <2> HIDE DEF i, j
  <2>3. i \in T /\ j \in T /\ i <= j /\ TrimSpace(s) = SubSeq(s, i, j) /\ \A k \in T : i <= k /\ k <= j
    BY <2>1, <2>2 DEF i, j
  <2>4. i \in 1..Len(s) /\ j \in 1..Len(s) /\ s[i] \notin Blank /\ s[j] \notin Blank
    BY <2>3, <1>1
  <2>5. \A k \in 1..Len(s) : k < i \/ k > j => s[k] \in Blank
    BY <2>3, <2>4, <1>1
  <2>6. SubSeq(s, i, j) \in Seq(S)
    <3>1. \A k \in i..j : s[k] \in S
      BY <2>4, <1>1, ElementOfSeq
    <3> QED  BY <3>1, <2>4, <1>1, SubSeqProperties
  <2> QED  BY <2>3, <2>4, <2>5, <2>6
<1> QED  BY <1>2, <1>3

(* Setup makes at least one namespace of any setting, and no comma stays.  *)
LEMMA SettingIsList ==
  ASSUME raw \in Seq(Char)
  PROVE  /\ Setting \in Seq(Seq(Char \ {","})) /\ Setting # <<>>
         /\ DOMAIN Setting = 1..Len(Split(raw, ","))
<1> DEFINE p == Split(raw, ",")
<1>1. p \in Seq(Seq(Char \ {","})) /\ Len(p) > 0
  BY SplitPieces
<1> HIDE DEF p
<1> DEFINE n == Len(p)
<1>2. n \in Nat /\ n > 0 /\ DOMAIN p = 1..n
  BY <1>1, LenProperties
<1>3. \A i \in 1..n : TrimSpace(p[i]) \in Seq(Char \ {","})
  BY <1>1, Trimmed, ElementOfSeq
<1> DEFINE T == Seq(Char \ {","})
<1>4. Setting = [i \in 1..n |-> TrimSpace(p[i])]
  BY <1>2 DEF Setting, p
<1> HIDE DEF n, T
<1>5. Setting \in [1..n -> T]
  BY <1>3, <1>4 DEF T
<1>6. Setting \in Seq(T) /\ DOMAIN Setting = 1..n /\ Len(Setting) = n
  <2>1. n \in Nat
    BY <1>2
  <2> QED  BY <2>1, <1>5
<1>7. Setting # <<>>
  BY <1>2, <1>6
<1> QED  BY <1>6, <1>7 DEF p, n, T

(* A row of a static file without bars that has four segments names a kind. *)
LEMMA StaticNamesKinds ==
  ASSUME static \in Seq(Char \ {"|"})
  PROVE  StaticKinds \subseteq Kind
<1> DEFINE S == Char \ {"|"}
           text == TrimSpace(static)
<1>1. text \in Seq(S)
  BY Trimmed
<1> HIDE DEF text
<1>2. ASSUME NEW p \in FourSegments(text) PROVE Segments(p) \in Kind
  <2>1. PICK row \in Range(Split(text, "\n")) : p = Split(row, "/") /\ Len(p) = 4
    BY DEF FourSegments
  <2> HIDE DEF S
  <2>2. Split(text, "\n") \in Seq(Seq(S \ {"\n"}))
    BY <1>1, SplitPieces
  <2>3. row \in Seq(S \ {"\n"})
    BY <2>2, LenProperties DEF Range
  <2>4. row \in Seq(S)
    BY <2>3, SeqMonotonic
  <2>5. p \in Seq(Seq(S \ {"/"}))
    BY <2>1, <2>4, SplitPieces
  <2>6. /\ p[1] \in Seq(S \ {"/"}) /\ p[2] \in Seq(S \ {"/"})
        /\ p[3] \in Seq(S \ {"/"}) /\ p[4] \in Seq(S \ {"/"})
    BY <2>1, <2>5, ElementOfSeq
  <2>7. S \ {"/"} = Char \ {"/", "|"}
    BY DEF S
  <2> QED  BY <2>6, <2>7 DEF Segments, Kind, Part
<1> QED  BY <1>2 DEF StaticKinds, getRoutersFromStatic, text

(* A router's informers are added, and the map agrees with all that run.   *)
Watches(nss) == IF nss = <<>> THEN {<<>>} ELSE Range(nss)

(* NewRouter keeps running informers and the map in step.                  *)
LEMMA NewRouterRegisters ==
  ASSUME Registered, NEW g \in Kind, NEW nss \in Seq(Seq(Char \ {","})), NewRouter(g, nss)
  PROVE  Registered' /\ running' = running \cup {Informer(g, ns) : ns \in Watches(nss)}
<1> DEFINE W == Watches(nss)
           keys == {getInformerKey(g, ns) : ns \in W}
           last == [k \in keys |-> CHOOSE ns \in W : getInformerKey(g, ns) = k]
           new == {Informer(g, ns) : ns \in W}
<1>1. /\ running' = running \cup new
      /\ informers' = [k \in DOMAIN informers \cup keys |->
           IF k \in keys THEN Informer(g, last[k]) ELSE informers[k]]
  BY DEF NewRouter, Watches
<1>2. W \subseteq Seq(Char \ {","})
  <2>1. CASE nss = <<>>
    BY <2>1, EmptySeq DEF Watches
  <2>2. CASE nss # <<>>
    <3>1. DOMAIN nss = 1..Len(nss) /\ \A i \in 1..Len(nss) : nss[i] \in Seq(Char \ {","})
      BY LenProperties, ElementOfSeq
    <3>2. W = {nss[i] : i \in 1..Len(nss)}
      BY <3>1, <2>2 DEF Watches, Range
    <3> QED  BY <3>1, <3>2
  <2> QED  BY <2>1, <2>2
<1> HIDE DEF W
<1>3. new \subseteq [kind : Kind, ns : Seq(Char \ {","})]
  <2> SUFFICES ASSUME NEW ns \in W PROVE Informer(g, ns) \in [kind : Kind, ns : Seq(Char \ {","})]
    OBVIOUS
  <2> QED  BY <1>2 DEF Informer
<1>4. \A k \in keys : last[k] \in W /\ getInformerKey(g, last[k]) = k
  OBVIOUS
<1>5. DOMAIN informers' = DOMAIN informers \cup keys
  BY <1>1
<1>6. \A k \in keys : informers'[k] = Informer(g, last[k])
  BY <1>1
<1>7. \A k \in DOMAIN informers \ keys : informers'[k] = informers[k]
  BY <1>1
<1> HIDE DEF last
<1>8. \A inf \in running' : getInformerKey(inf.kind, inf.ns) \in DOMAIN informers'
  <2>1. \A inf \in new : getInformerKey(inf.kind, inf.ns) \in keys
    <3> SUFFICES ASSUME NEW ns \in W
                 PROVE  getInformerKey(Informer(g, ns).kind, Informer(g, ns).ns) \in keys
      OBVIOUS
    <3>1. Informer(g, ns).kind = g /\ Informer(g, ns).ns = ns
      BY DEF Informer
    <3> QED  BY <3>1
  <2> QED  BY <2>1, <1>1, <1>5 DEF Registered
<1>9. ASSUME NEW k \in DOMAIN informers'
      PROVE  informers'[k] \in running' /\ getInformerKey(informers'[k].kind, informers'[k].ns) = k
  <2>1. CASE k \in keys
    BY <2>1, <1>1, <1>4, <1>6 DEF Informer
  <2>2. CASE k \notin keys
    BY <2>2, <1>1, <1>5, <1>7 DEF Registered
  <2> QED  BY <2>1, <2>2
<1>10. running' \subseteq [kind : Kind, ns : Seq(Char \ {","})]
  BY <1>1, <1>3 DEF Registered
<1> QED  BY <1>1, <1>8, <1>9, <1>10 DEF Registered, W

(* What is watched stays watched.                                          *)
LEMMA MoreAreWatched ==
  ASSUME Notified, running \subseteq running', UNCHANGED <<object, item, found>>
  PROVE  Notified'
<1>1. \A o : Watched(o) => Watched(o)'
  BY DEF Watched
<1>2. LookupFindsWatcher'
  BY DEF Notified, LookupFindsWatcher
<1> QED  BY <1>1, <1>2 DEF Notified

(* The lookup of a kind and a namespace, where some informer sees them.    *)
LEMMA LookupSees ==
  ASSUME Registered, NEW o \in Objects, Watched(o),
         NEW s, s.kind = o.kind, s.ns = o.ns
  PROVE  Lookup(s) \in running /\ Sees(Lookup(s), o)
<1> DEFINE key == getInformerKey(o.kind, o.ns)
           all == getInformerKey(o.kind, <<>>)
<1>1. o.kind \in Kind /\ o.ns \in Seq(Char) /\ <<>> \in Seq(Char)
  <2>1. o.kind \in Kind /\ o.ns \in Nss \cup {<<>>}
    BY KeysAssumption DEF Objects
  <2>2. Nss \subseteq Seq(Char)
    <3> SUFFICES ASSUME NEW n \in Nss PROVE n \in Seq(Char)
      OBVIOUS
    <3>1. n \in Seq(Char \ ({"/", ","} \cup Blank))
      BY KeysAssumption
    <3>2. Char \ ({"/", ","} \cup Blank) \subseteq Char
      OBVIOUS
    <3> QED  BY <3>1, <3>2, SeqMonotonic
  <2> QED  BY <2>1, <2>2, EmptySeq
<1>2. \A inf \in running : inf.kind \in Kind /\ inf.ns \in Seq(Char)
  <2>1. \A inf \in running : inf.kind \in Kind /\ inf.ns \in Seq(Char \ {","})
    BY DEF Registered
  <2> QED  BY <2>1, SeqMonotonic
<1>3. ASSUME NEW n \in Seq(Char), getInformerKey(o.kind, n) \in DOMAIN informers
      PROVE  /\ informers[getInformerKey(o.kind, n)] \in running
             /\ informers[getInformerKey(o.kind, n)].kind = o.kind
             /\ informers[getInformerKey(o.kind, n)].ns = n
  <2> DEFINE inf == informers[getInformerKey(o.kind, n)]
  <2>1. inf \in running /\ getInformerKey(inf.kind, inf.ns) = getInformerKey(o.kind, n)
    BY <1>3 DEF Registered
  <2>2. inf.kind \in Kind /\ inf.ns \in Seq(Char)
    BY <2>1, <1>2
  <2> HIDE DEF inf
  <2>3. inf.kind = o.kind /\ inf.ns = n
    BY <2>1, <2>2, <1>1, <1>3, InformerKeysDiffer
  <2> QED  BY <2>1, <2>3 DEF inf
<1>4. key \in DOMAIN informers \/ all \in DOMAIN informers
  <2>1. PICK inf \in running : inf.kind = o.kind /\ inf.ns \in {<<>>, o.ns}
    BY DEF Watched, Sees
  <2>2. getInformerKey(inf.kind, inf.ns) \in DOMAIN informers
    BY DEF Registered
  <2> QED  BY <2>1, <2>2
<1>5. Lookup(s) = CASE key \in DOMAIN informers -> informers[key]
                    [] key \notin DOMAIN informers /\ all \in DOMAIN informers -> informers[all]
                    [] OTHER -> NoFind.informer
  BY DEF Lookup
<1>6. CASE key \in DOMAIN informers
  <2>1. Lookup(s) = informers[key]
    <3> HIDE DEF key, all
    <3> QED  BY <1>5, <1>6
  <2> QED  BY <2>1, <1>6, <1>3, <1>1 DEF Sees
<1>7. CASE key \notin DOMAIN informers
  <2>1. Lookup(s) = informers[all]
    <3> HIDE DEF key, all
    <3> QED  BY <1>4, <1>5, <1>7
  <2> QED  BY <2>1, <1>4, <1>7, <1>3, <1>1 DEF Sees
<1> QED  BY <1>6, <1>7

(* WorkerPool.reconcile finds what the router was notified of.             *)
LEMMA ReconcileFinds ==
  ASSUME KInv, Reconcile
  PROVE  LookupFindsWatcher'
<1> DEFINE s == splitKey(item)
           l == Lookup(s)
<1>1. /\ object \in Objects /\ Watched(object) /\ item = buildKey(object.kind, object)
      /\ Registered
  BY DEF KInv, Notified, Reconcile
<1>2. s.kind = object.kind /\ s.ns = object.ns /\ s.name = object.name
  <2>1. splitKey(buildKey(object.kind, object))
          = [kind |-> object.kind, ns |-> object.ns, name |-> object.name]
    BY <1>1, KeyRoundTrip
  <2>2. s = [kind |-> object.kind, ns |-> object.ns, name |-> object.name]
    BY <1>1, <2>1
  <2> HIDE DEF s
  <2> QED  BY <2>2
<1>3. found' = [informer |-> l, key |-> getObjectKey(s.ns, s.name)] /\ object' = object
  BY DEF Reconcile
<1> HIDE DEF s
<1>4. l \in running /\ Sees(l, object)
  BY <1>1, <1>2, LookupSees
<1>5. getObjectKey(s.ns, s.name) = MetaNamespaceKey(object)
  BY <1>1, <1>2, ObjectKeySplits
<1> HIDE DEF l
<1>6. l # <<>>
  <2>1. l \in [kind : Kind, ns : Seq(Char \ {","})]
    BY <1>1, <1>4 DEF Registered
  <2>2. "kind" \in DOMAIN l
    BY <2>1
  <2> QED  BY <2>2
<1>7. found'.informer = l /\ found'.key = MetaNamespaceKey(object)
  BY <1>3, <1>5
<1> QED  BY <1>3, <1>4, <1>6, <1>7 DEF LookupFindsWatcher, NoFind, Sees, MetaNamespaceKey

(* The process starts with nothing read, watched or notified.              *)
LEMMA InitKInv == Init => KInv
<1> SUFFICES ASSUME Init PROVE KInv
  OBVIOUS
<1>1. raw \in Seq(Char) /\ static \in Seq(Char \ {"|"})
  BY KeysAssumption DEF Init
<1>2. namespaces \in Seq(Seq(Char \ {","})) /\ tracked \subseteq Dynamic
  BY EmptySeq DEF Init
<1>3. DOMAIN informers = {} /\ running = {} /\ object = <<>> /\ item = <<>>
  BY EmptySeq, LenProperties DEF Init
<1>4. Registered
  BY <1>3 DEF Registered
<1>5. Notified
  BY <1>3 DEF Notified, LookupFindsWatcher
<1>6. WatchedWhereSet
  BY DEF WatchedWhereSet, Init
<1> QED  BY <1>1, <1>2, <1>4, <1>5, <1>6 DEF KInv

(* config.Setup                                                            *)
LEMMA SetupKeeps ==
  ASSUME KInv, Setup
  PROVE  KInv'
<1>1. /\ namespaces' = Setting /\ namespaces = <<>>
      /\ UNCHANGED <<raw, static, tracked, running, informers, object, item, found>>
  BY DEF Setup, Setting
<1>2. Setting \in Seq(Seq(Char \ {","})) /\ Setting' = Setting
  BY <1>1, SettingIsList DEF KInv, Setting
<1>3. Registered'
  BY <1>1 DEF KInv, Registered
<1>4. Notified'
  BY <1>1, MoreAreWatched DEF KInv
<1>5. WatchedWhereSet'
  <2>1. tracked = {} /\ running = {}
    BY <1>1 DEF KInv, WatchedWhereSet
  <2> QED  BY <1>1, <1>2, <2>1 DEF WatchedWhereSet
<1> QED  BY <1>1, <1>2, <1>3, <1>4, <1>5 DEF KInv

(* NewStaticRouters                                                        *)
LEMMA StaticRouterKeeps ==
  ASSUME KInv, StaticRouter
  PROVE  KInv'
<1>1. PICK g \in StaticKinds : NewRouter(g, <<>>)
  BY DEF StaticRouter
<1>2. UNCHANGED <<raw, static, namespaces, tracked, object, item, found>>
  BY DEF StaticRouter
<1>3. StaticKinds' = StaticKinds /\ Setting' = Setting
  BY <1>2 DEF StaticKinds, Setting
<1>4. Registered' /\ running' = running \cup {Informer(g, <<>>)}
  <2>1. g \in Kind /\ <<>> \in Seq(Seq(Char \ {","})) /\ Registered
    BY StaticNamesKinds, EmptySeq DEF KInv
  <2>2. Registered' /\ running' = running \cup {Informer(g, ns) : ns \in Watches(<<>>)}
    BY <1>1, <2>1, NewRouterRegisters
  <2> QED  BY <2>2 DEF Watches
<1>5. Notified'
  BY <1>2, <1>4, MoreAreWatched DEF KInv
<1>6. WatchedWhereSet'
  <2>1. Informer(g, <<>>).kind = g
    BY DEF Informer
  <2>2. namespaces # <<>>
    BY DEF StaticRouter
  <2>3. \A inf \in running' : \/ inf.kind \in ClusterScoped \cup StaticKinds
                              \/ inf.kind \in tracked /\ inf.ns \in Range(namespaces)
    BY <1>1, <1>4, <2>1 DEF KInv, WatchedWhereSet
  <2> QED  BY <1>2, <1>3, <1>4, <2>2, <2>3 DEF KInv, WatchedWhereSet
<1> QED  BY <1>2, <1>4, <1>5, <1>6 DEF KInv

(* manager.startInformer                                                   *)
LEMMA StartInformerKeeps ==
  ASSUME KInv, NEW g \in Dynamic, startInformer(g)
  PROVE  KInv'
<1> DEFINE nss == IF g \in ClusterScoped THEN <<>> ELSE namespaces
<1>1. NewRouter(g, nss) /\ namespaces # <<>> /\ tracked' = tracked \cup {g}
  BY DEF startInformer
<1>2. UNCHANGED <<raw, static, namespaces, object, item, found>>
  BY DEF startInformer
<1>3. StaticKinds' = StaticKinds /\ Setting' = Setting
  BY <1>2 DEF StaticKinds, Setting
<1>4. Registered' /\ running' = running \cup {Informer(g, ns) : ns \in Watches(nss)}
  <2>1. g \in Kind /\ nss \in Seq(Seq(Char \ {","})) /\ Registered
    BY KeysAssumption, EmptySeq DEF KInv
  <2> QED  BY <1>1, <2>1, NewRouterRegisters
<1>5. Notified'
  BY <1>2, <1>4, MoreAreWatched DEF KInv
<1>6. WatchedWhereSet'
  <2>1. \A ns : Informer(g, ns).kind = g /\ Informer(g, ns).ns = ns
    BY DEF Informer
  <2>2. g \notin ClusterScoped => Watches(nss) = Range(namespaces)
    BY <1>1 DEF Watches
  <2>3. ASSUME NEW h \in tracked' \ ClusterScoped, NEW ns \in Range(namespaces)
        PROVE  Informer(h, ns) \in running'
    BY <1>1, <1>4, <2>2 DEF KInv, WatchedWhereSet
  <2>4. ASSUME NEW inf \in running'
        PROVE  \/ inf.kind \in ClusterScoped \cup StaticKinds
               \/ inf.kind \in tracked' /\ inf.ns \in Range(namespaces)
    <3>1. CASE inf \in running
      BY <3>1, <1>1 DEF KInv, WatchedWhereSet
    <3>2. CASE inf \notin running
      <4>1. PICK ns \in Watches(nss) : inf = Informer(g, ns)
        BY <3>2, <1>4
      <4> QED  BY <4>1, <2>1, <2>2, <1>1
    <3> QED  BY <3>1, <3>2
  <2> QED  BY <1>1, <1>2, <1>3, <2>3, <2>4 DEF KInv, WatchedWhereSet
<1> QED  BY <1>1, <1>2, <1>4, <1>5, <1>6 DEF KInv

(* Router.enqueue: a key is never the empty string.                        *)
LEMMA EnqueueKeeps ==
  ASSUME KInv, NEW o \in Objects, Enqueue(o)
  PROVE  KInv'
<1>1. /\ Watched(o) /\ object' = o /\ item' = buildKey(o.kind, o)
      /\ UNCHANGED <<raw, static, namespaces, tracked, running, informers>>
  BY DEF Enqueue
<1>2. o # <<>>
  <2>1. "kind" \in DOMAIN o
    BY DEF Objects
  <2> QED  BY <2>1
<1>3. item' # <<>>
  <2>1. o.kind \in Kind /\ Prefix(o.kind) \in Seq(Char) /\ MetaNamespaceKey(o) \in Seq(Char) /\ "|" \in Char
    <3>1. o.kind \in Kind /\ "|" \in Char
      BY KeysAssumption DEF Objects
    <3>2. Prefix(o.kind) \in Seq(Char \ {"|"})
      BY <3>1, PrefixNamesKind
    <3>3. Prefix(o.kind) \in Seq(Char)
      BY <3>2, SeqMonotonic
    <3> QED  BY <3>1, <3>3, ObjectKeySplits
  <2>2. buildKey(o.kind, o) # <<>>
    BY <2>1 DEF buildKey
  <2> QED  BY <2>2, <1>1
<1>4. Registered'
  BY <1>1 DEF KInv, Registered
<1>5. Notified'
  BY <1>1, <1>2, <1>3 DEF Notified, LookupFindsWatcher, Watched
<1>6. WatchedWhereSet'
  BY <1>1 DEF KInv, WatchedWhereSet, Setting, StaticKinds
<1> QED  BY <1>1, <1>4, <1>5, <1>6 DEF KInv

(* WorkerPool.reconcile                                                    *)
LEMMA ReconcileKeeps ==
  ASSUME KInv, Reconcile
  PROVE  KInv'
<1>1. item' = <<>> /\ UNCHANGED <<raw, static, namespaces, tracked, running, informers, object>>
  BY DEF Reconcile
<1>2. Registered'
  BY <1>1 DEF KInv, Registered
<1>3. Notified'
  BY <1>1, ReconcileFinds DEF KInv, Notified, Watched
<1>4. WatchedWhereSet'
  BY <1>1 DEF KInv, WatchedWhereSet, Setting, StaticKinds
<1> QED  BY <1>1, <1>2, <1>3, <1>4 DEF KInv

(* The invariant of keys, informers and settings, for every alphabet of    *)
(* names, every set of kinds and namespaces, and every setting and static  *)
(* file.                                                                   *)
THEOREM KeysInvariant == Spec => []KInv
<1>1. KInv /\ [Next]_vars => KInv'
  <2> SUFFICES ASSUME KInv, [Next]_vars PROVE KInv'
    OBVIOUS
  <2>1. CASE UNCHANGED vars
    <3>1. Registered'
      BY <2>1 DEF KInv, Registered, vars
    <3>2. Notified'
      BY <2>1, MoreAreWatched DEF KInv, vars
    <3>3. WatchedWhereSet'
      BY <2>1 DEF KInv, WatchedWhereSet, Setting, StaticKinds, vars
    <3> QED  BY <2>1, <3>1, <3>2, <3>3 DEF KInv, vars
  <2> QED  BY <2>1, SetupKeeps, StaticRouterKeeps, StartInformerKeeps, EnqueueKeeps, ReconcileKeeps DEF Next
<1> QED  BY <1>1, InitKInv, PTL DEF Spec

(* Rows of the static file that have not four segments start no router,    *)
(* and the worker pool knows only informers that run.                      *)
THEOREM KeysTypes == Spec => []TypeOK
<1>1. KInv => TypeOK
  <2> SUFFICES ASSUME KInv PROVE TypeOK
    OBVIOUS
  <2>1. \A i \in DOMAIN namespaces : namespaces[i] \in Seq(Char \ {","})
    BY LenProperties, ElementOfSeq DEF KInv
  <2>2. \A inf \in running : inf.kind \in Kind /\ inf.ns \in Seq(Char \ {","})
    BY DEF KInv, Registered
  <2>3. Range(informers) \subseteq running
    BY DEF KInv, Registered, Range
  <2> QED  BY <2>1, <2>2, <2>3 DEF KInv, Notified, TypeOK
<1> QED  BY <1>1, KeysInvariant, PTL

(* Reconcile always comes to an informer that sees the object the router   *)
(* was notified of, and to the object's own key in its store.              *)
THEOREM LookupIsRight == Spec => []LookupFindsWatcher
<1>1. KInv => LookupFindsWatcher
  BY DEF KInv, Notified
<1> QED  BY <1>1, KeysInvariant, PTL

(* A namespace of the cluster, or none, has no blank in it.                *)
LEMMA NoBlankInNs ==
  ASSUME NEW ns \in Nss \cup {<<>>}
  PROVE  Len(ns) \in Nat /\ \A k \in 1..Len(ns) : ns[k] \notin Blank
<1> DEFINE T == Char \ ({"/", ","} \cup Blank)
<1>1. ns \in Seq(T)
  BY KeysAssumption, EmptySeq
<1>2. Len(ns) \in Nat /\ \A k \in 1..Len(ns) : ns[k] \in T
  <2> HIDE DEF T
  <2> QED  BY <1>1, LenProperties, ElementOfSeq
<1> QED  BY <1>2

(* strings.TrimSpace leaves the one text without blanks at its ends that   *)
(* has only blanks around it.                                              *)
Around(t, i, j) == \A k \in 1..Len(t) : k < i \/ k > j => t[k] \in Blank

(* The text may be any, if it has no blank in it.                          *)
LEMMA TrimmedIsText ==
  ASSUME NEW S, NEW t \in Seq(S), NEW ns,
         Len(ns) \in Nat, \A k \in 1..Len(ns) : ns[k] \notin Blank
  PROVE  TrimSpace(t) = ns <=>
           \E i \in 1..Len(t) + 1, j \in 0..Len(t) : i <= j + 1 /\ SubSeq(t, i, j) = ns /\ Around(t, i, j)
<1> DEFINE n == Len(t)
           u == TrimSpace(t)
<1>1. n \in Nat
  BY LenProperties
<1>2. \/ u = <<>> /\ \A k \in 1..n : t[k] \in Blank
      \/ \E i \in 1..n, j \in 1..n :
           i <= j /\ u = SubSeq(t, i, j) /\ t[i] \notin Blank /\ t[j] \notin Blank /\ Around(t, i, j)
  BY Trimmed DEF Around
<1> HIDE DEF n, u
<1>3. \E i \in 1..n + 1, j \in 0..n : i <= j + 1 /\ SubSeq(t, i, j) = u /\ Around(t, i, j)
  <2>1. CASE u = <<>> /\ \A k \in 1..n : t[k] \in Blank
    <3>1. 1 \in 1..n + 1 /\ 0 \in 0..n /\ 1 <= 0 + 1
      BY <1>1
    <3>2. SubSeq(t, 1, 0) = <<>> /\ Around(t, 1, 0)
      BY <2>1, SubSeqEmpty DEF Around, n
    <3> QED  BY <3>1, <3>2, <2>1
  <2>2. CASE \E i \in 1..n, j \in 1..n :
               i <= j /\ u = SubSeq(t, i, j) /\ t[i] \notin Blank /\ t[j] \notin Blank /\ Around(t, i, j)
    BY <1>1, <2>2
  <2> QED  BY <1>2, <2>1, <2>2
<1>4. ASSUME NEW b \in 1..n + 1, NEW c \in 0..n, b <= c + 1, SubSeq(t, b, c) = ns, Around(t, b, c)
      PROVE  u = ns
  <2>1. \A k \in b..c : t[k] \notin Blank
    <3> SUFFICES ASSUME NEW k \in b..c PROVE t[k] \notin Blank
      OBVIOUS
    <3>1. \A l \in b..c : t[l] \in S
      BY <1>1, ElementOfSeq DEF n
    <3>2. b \in Int /\ c \in Int /\ b <= c /\ k - b + 1 \in 1..c - b + 1 /\ b + (k - b + 1) - 1 = k
      BY <1>1
    <3>3. Len(ns) = c - b + 1 /\ \A l \in 1..c - b + 1 : ns[l] = t[b + l - 1]
      BY <3>1, <3>2, <1>4, SubSeqProperties
    <3> QED  BY <3>2, <3>3
  <2>2. CASE u = <<>> /\ \A k \in 1..n : t[k] \in Blank
    <3>1. c < b
      BY <2>1, <2>2, <1>1
    <3>2. b \in Int /\ c \in Int
      BY <1>1
    <3> QED  BY <3>1, <3>2, <2>2, <1>4, SubSeqEmpty
  <2>3. CASE \E i \in 1..n, j \in 1..n :
               i <= j /\ u = SubSeq(t, i, j) /\ t[i] \notin Blank /\ t[j] \notin Blank /\ Around(t, i, j)
    <3>1. PICK i \in 1..n, j \in 1..n :
               i <= j /\ u = SubSeq(t, i, j) /\ t[i] \notin Blank /\ t[j] \notin Blank /\ Around(t, i, j)
      BY <2>3
    <3>2. b <= i /\ i <= c /\ b <= j /\ j <= c
      BY <3>1, <1>1, <1>4 DEF Around, n
    <3>3. t[b] \notin Blank /\ t[c] \notin Blank
      BY <3>2, <2>1, <1>1
    <3>4. i <= b /\ c <= j
      BY <3>1, <3>2, <3>3, <1>1 DEF Around, n
    <3>5. i = b /\ j = c
      BY <3>2, <3>4, <1>1
    <3> QED  BY <3>1, <3>5, <1>4
  <2> QED  BY <1>2, <2>2, <2>3
<1> QED  BY <1>3, <1>4 DEF n, u

(* The same where the text is a piece of a longer string.                  *)
Bounds(s, ns, a, z, i, j) ==
  /\ i \in a..z /\ j \in a - 1..z - 1 /\ i <= j + 1 /\ SubSeq(s, i, j) = ns
  /\ \A k \in (a..i - 1) \cup (j + 1..z - 1) : s[k] \in Blank

(* What trimming a piece yields, by positions of the whole string.         *)
LEMMA TrimmedInside ==
  ASSUME NEW S, NEW s \in Seq(S), NEW a \in 1..Len(s) + 1, NEW z \in a..Len(s) + 1, NEW ns,
         Len(ns) \in Nat, \A k \in 1..Len(ns) : ns[k] \notin Blank
  PROVE  TrimSpace(SubSeq(s, a, z - 1)) = ns <=> \E i, j : Bounds(s, ns, a, z, i, j)
<1> DEFINE t == SubSeq(s, a, z - 1)
           n == z - a
<1>1. Len(s) \in Nat /\ a \in Nat /\ z \in Nat /\ a > 0 /\ n \in Nat /\ z - 1 \in Int /\ z <= Len(s) + 1
  BY LenProperties
<1>2. \A k \in a..z - 1 : s[k] \in S
  BY <1>1, ElementOfSeq
<1>3. t \in Seq(S) /\ Len(t) = n /\ \A k \in 1..n : t[k] = s[a + k - 1]
  BY <1>1, <1>2, SubSeqProperties
<1> HIDE DEF t
<1>4. \A k \in a..z - 1 : k - a + 1 \in 1..n /\ s[k] = t[k - a + 1]
  <2> SUFFICES ASSUME NEW k \in a..z - 1 PROVE k - a + 1 \in 1..n /\ s[k] = t[k - a + 1]
    OBVIOUS
  <2>1. k - a + 1 \in 1..n /\ a + (k - a + 1) - 1 = k
    BY <1>1
  <2> QED  BY <2>1, <1>3
<1>5. ASSUME NEW i \in 1..n + 1, NEW j \in 0..n, i <= j + 1
      PROVE  /\ SubSeq(t, i, j) = SubSeq(s, a + i - 1, a + j - 1)
             /\ Around(t, i, j) <=>
                  \A k \in (a..(a + i - 1) - 1) \cup ((a + j - 1) + 1..z - 1) : s[k] \in Blank
  <2>1. SubSeq(t, i, j) = SubSeq(s, a + i - 1, a + j - 1)
    <3>1. CASE j < i
      <4>1. i \in Int /\ j \in Int /\ a + i - 1 \in Int /\ a + j - 1 \in Int /\ a + j - 1 < a + i - 1
        BY <1>1, <3>1
      <4> QED  BY <3>1, <4>1, SubSeqEmpty
    <3>2. CASE i <= j
      <4>1. /\ a \in 1..Len(s) /\ z - 1 \in 1..Len(s)
            /\ i \in 1..(z - 1) - a + 1 /\ j \in 1..(z - 1) - a + 1
        BY <1>1, <1>5, <3>2
      <4> QED  BY <4>1, SubSeqOfSubSeq DEF t
    <3> QED  BY <3>1, <3>2, <1>1
  <2>2. ASSUME Around(t, i, j), NEW k \in (a..(a + i - 1) - 1) \cup ((a + j - 1) + 1..z - 1)
        PROVE  s[k] \in Blank
    <3>1. k \in a..z - 1 /\ (k - a + 1 < i \/ k - a + 1 > j)
      BY <1>1, <1>5
    <3> QED  BY <3>1, <2>2, <1>3, <1>4 DEF Around
  <2>3. ASSUME \A k \in (a..(a + i - 1) - 1) \cup ((a + j - 1) + 1..z - 1) : s[k] \in Blank
        PROVE  Around(t, i, j)
    <3> SUFFICES ASSUME NEW k \in 1..n, k < i \/ k > j PROVE t[k] \in Blank
      BY <1>3 DEF Around
    <3>1. a + k - 1 \in (a..(a + i - 1) - 1) \cup ((a + j - 1) + 1..z - 1)
      BY <1>1, <1>5
    <3> QED  BY <3>1, <2>3, <1>3
  <2> QED  BY <2>1, <2>2, <2>3
<1> HIDE DEF n
<1>6. TrimSpace(t) = ns <=>
        \E i \in 1..n + 1, j \in 0..n : i <= j + 1 /\ SubSeq(t, i, j) = ns /\ Around(t, i, j)
  <2>1. t \in Seq(S) /\ Len(t) = n
    BY <1>3
  <2> QED  BY <2>1, TrimmedIsText
<1>7. ASSUME NEW i \in 1..n + 1, NEW j \in 0..n, i <= j + 1, SubSeq(t, i, j) = ns, Around(t, i, j)
      PROVE  Bounds(s, ns, a, z, a + i - 1, a + j - 1)
  <2>1. a + i - 1 \in a..z /\ a + j - 1 \in a - 1..z - 1 /\ a + i - 1 <= (a + j - 1) + 1
    BY <1>1, <1>7 DEF n
  <2> QED  BY <2>1, <1>5, <1>7 DEF Bounds
<1>8. ASSUME NEW i, NEW j, Bounds(s, ns, a, z, i, j)
      PROVE  \E b \in 1..n + 1, c \in 0..n : b <= c + 1 /\ SubSeq(t, b, c) = ns /\ Around(t, b, c)
  <2> DEFINE b == i - a + 1
             c == j - a + 1
  <2>1. i \in a..z /\ j \in a - 1..z - 1 /\ i <= j + 1
    BY <1>8 DEF Bounds
  <2>2. b \in 1..n + 1 /\ c \in 0..n /\ b <= c + 1 /\ a + b - 1 = i /\ a + c - 1 = j
    BY <1>1, <2>1 DEF n
  <2> HIDE DEF b, c
  <2>3. SubSeq(t, b, c) = ns /\ Around(t, b, c)
    BY <2>2, <1>5, <1>8 DEF Bounds
  <2> QED  BY <2>2, <2>3
<1> QED  BY <1>6, <1>7, <1>8 DEF t

(* Positions are numbers.                                                  *)
LEMMA PieceTypes ==
  ASSUME NEW S, NEW s \in Seq(S), NEW sep, NEW a, NEW z, Piece(s, sep, a, z)
  PROVE  a \in Int /\ z \in Int /\ a - 1 \in Int /\ (a - 1) + 1 = a
<1>1. Len(s) \in Nat /\ a \in 1..Len(s) + 1 /\ z \in a..Len(s) + 1
  BY LenProperties DEF Piece
<1> QED  BY <1>1

(* What Setup makes of an entry of the setting: the namespace it lists.    *)
LEMMA EntryIsTrimmed ==
  ASSUME raw \in Seq(Char), NEW ns \in Nss \cup {<<>>}, NEW a, NEW z, Piece(raw, ",", a, z)
  PROVE  TrimSpace(SubSeq(raw, a, z - 1)) = ns <=> Lists(<<a - 1, z>>, ns)
<1>1. a \in 1..Len(raw) + 1 /\ z \in a..Len(raw) + 1
  BY DEF Piece
<1>2. TrimSpace(SubSeq(raw, a, z - 1)) = ns <=> \E i, j : Bounds(raw, ns, a, z, i, j)
  BY <1>1, NoBlankInNs, TrimmedInside
<1>3. (a - 1) + 1 = a
  BY PieceTypes
<1>4. Lists(<<a - 1, z>>, ns) <=> \E i, j : Bounds(raw, ns, a, z, i, j)
  BY <1>3 DEF Lists, Bounds
<1> QED  BY <1>2, <1>4

(* The ends of a string and its separators, where it is cut.               *)
CutsOf(s, sep) == {0, Len(s) + 1} \cup At(s, sep)

(* Cuts are positions.                                                     *)
LEMMA CutTypes ==
  ASSUME NEW S, NEW s \in Seq(S), NEW sep
  PROVE  CutsOf(s, sep) \subseteq Int
<1>1. Len(s) \in Nat /\ DOMAIN s = 1..Len(s)
  BY LenProperties
<1> QED  BY <1>1 DEF CutsOf, At

(* The pieces of a string lie between cuts next to each other.             *)
LEMMA PiecesAreBetweenCuts ==
  ASSUME NEW S, NEW s \in Seq(S), NEW sep, NEW x \in Int, NEW z \in Int
  PROVE  Piece(s, sep, x + 1, z) <=>
           /\ x \in CutsOf(s, sep) /\ z \in CutsOf(s, sep) /\ x < z
           /\ \A k \in CutsOf(s, sep) : ~(x < k /\ k < z)
<1> DEFINE C == CutsOf(s, sep)
<1>1. Len(s) \in Nat /\ DOMAIN s = 1..Len(s) /\ (x + 1) - 1 = x
  BY LenProperties
<1>2. \A k \in Int : k \in C <=> k = 0 \/ k = Len(s) + 1 \/ (k \in 1..Len(s) /\ s[k] = sep)
  BY <1>1 DEF CutsOf, At
<1>3. C \subseteq 0..Len(s) + 1
  BY <1>1 DEF CutsOf, At
<1> HIDE DEF C
<1>4. ASSUME Piece(s, sep, x + 1, z)
      PROVE  x \in C /\ z \in C /\ x < z /\ \A k \in C : ~(x < k /\ k < z)
  <2>1. /\ x \in 0..Len(s) /\ z \in x + 1..Len(s) + 1 /\ (x = 0 \/ s[x] = sep)
        /\ z = Len(s) + 1 \/ s[z] = sep
        /\ \A p \in x + 1..z - 1 : s[p] # sep
    BY <1>1, <1>4 DEF Piece
  <2>2. x \in C /\ z \in C /\ x < z
    BY <1>1, <1>2, <2>1
  <2>3. ASSUME NEW k \in C, x < k, k < z PROVE FALSE
    <3>1. k \in Int /\ k \in x + 1..z - 1
      BY <1>1, <1>3, <2>1, <2>3
    <3> QED  BY <3>1, <1>1, <1>2, <2>1
  <2> QED  BY <2>2, <2>3
<1>5. ASSUME x \in C, z \in C, x < z, \A k \in C : ~(x < k /\ k < z)
      PROVE  Piece(s, sep, x + 1, z)
  <2>1. x + 1 \in 1..Len(s) + 1 /\ z \in x + 1..Len(s) + 1
    BY <1>1, <1>3, <1>5
  <2>2. (x = 0 \/ s[x] = sep) /\ (z = Len(s) + 1 \/ s[z] = sep)
    BY <1>1, <1>2, <1>5, <2>1
  <2>3. ASSUME NEW p \in x + 1..z - 1 PROVE s[p] # sep
    <3>1. p \in Int /\ p \in 1..Len(s) /\ x < p /\ p < z
      BY <1>1, <2>1
    <3> QED  BY <3>1, <1>2, <1>5
  <2>4. x + 1 = 1 \/ s[(x + 1) - 1] = sep
    BY <1>1, <2>2
  <2> QED  BY <2>1, <2>2, <2>3, <2>4 DEF Piece
<1> QED  BY <1>4, <1>5 DEF C

(* A piece of the setting is one of its entries.                           *)
LEMMA PieceIsEntry ==
  ASSUME raw \in Seq(Char), NEW a, NEW z, Piece(raw, ",", a, z)
  PROVE  <<a - 1, z>> \in Entries
<1> DEFINE x == a - 1
<1>1. x \in Int /\ z \in Int /\ x + 1 = a
  BY PieceTypes
<1> HIDE DEF x
<1>2. Piece(raw, ",", x + 1, z)
  BY <1>1
<1>3. Cuts = CutsOf(raw, ",")
  BY DEF Cuts, CutsOf
<1>4. x \in Cuts /\ z \in Cuts /\ x < z /\ \A k \in Cuts : ~(x < k /\ k < z)
  BY <1>1, <1>2, <1>3, PiecesAreBetweenCuts
<1>5. <<x, z>> \in Entries
  BY <1>4 DEF Entries
<1> QED  BY <1>5 DEF x

(* An entry of the setting is a piece of it.                               *)
LEMMA EntryIsPiece ==
  ASSUME raw \in Seq(Char), NEW e \in Entries
  PROVE  Piece(raw, ",", e[1] + 1, e[2]) /\ e = <<(e[1] + 1) - 1, e[2]>>
<1>1. /\ e = <<e[1], e[2]>> /\ e[1] \in Cuts /\ e[2] \in Cuts /\ e[1] < e[2]
      /\ \A k \in Cuts : ~(e[1] < k /\ k < e[2])
  BY DEF Entries
<1> DEFINE x == e[1]
           z == e[2]
<1> HIDE DEF x, z
<1>2. e = <<x, z>> /\ x \in Cuts /\ z \in Cuts /\ x < z /\ \A k \in Cuts : ~(x < k /\ k < z)
  BY <1>1 DEF x, z
<1>3. Cuts = CutsOf(raw, ",")
  BY DEF Cuts, CutsOf
<1>4. CutsOf(raw, ",") \subseteq Int
  BY CutTypes
<1>5. x \in Int /\ z \in Int
  BY <1>2, <1>3, <1>4
<1>6. Piece(raw, ",", x + 1, z)
  BY <1>2, <1>3, <1>5, PiecesAreBetweenCuts
<1>7. (x + 1) - 1 = x
  BY <1>5
<1> QED  BY <1>2, <1>6, <1>7 DEF x, z

(* strings.Split yields the pieces, and nothing else.                      *)
LEMMA SplitSelects ==
  ASSUME NEW S, NEW s \in Seq(S), NEW sep
  PROVE  /\ DOMAIN Split(s, sep) = 1..Len(Split(s, sep))
         /\ \A t : t \in Range(Split(s, sep)) <=> PieceOf(s, sep, t)
<1> DEFINE p == Split(s, sep)
<1>1. DOMAIN p = 1..Len(p)
  <2>1. p \in Seq(Seq(S \ {sep}))
    BY SplitPieces
  <2> QED  BY <2>1, LenProperties
<1>2. ASSUME NEW i \in 1..Len(p) PROVE PieceOf(s, sep, p[i])
  BY SplitPieces
<1>3. ASSUME NEW a, NEW z, Piece(s, sep, a, z) PROVE \E i \in 1..Len(p) : p[i] = SubSeq(s, a, z - 1)
  <2> DEFINE i == Before(s, sep, a) + 1
  <2>1. i \in 1..Len(p) /\ p[i] = SubSeq(s, a, z - 1)
    BY <1>3, SplitOfPiece
  <2> HIDE DEF i
  <2> QED  BY <2>1
<1> HIDE DEF p
<1>4. \A t : t \in Range(p) => PieceOf(s, sep, t)
  BY <1>1, <1>2 DEF Range
<1>5. \A t : PieceOf(s, sep, t) => t \in Range(p)
  BY <1>1, <1>3 DEF Range, PieceOf
<1> QED  BY <1>1, <1>4, <1>5 DEF p

(* The namespaces that Setup reads are those that the setting lists.       *)
LEMMA SettingLists ==
  ASSUME raw \in Seq(Char), NEW ns \in Nss \cup {<<>>}
  PROVE  ns \in Range(Setting) <=> \E e \in Entries : Lists(e, ns)
<1>1. ns \in Range(Setting) <=> \E t : PieceOf(raw, ",", t) /\ ns = TrimSpace(t)
  <2> DEFINE p == Split(raw, ",")
  <2>1. \A t : t \in Range(p) <=> PieceOf(raw, ",", t)
    BY SplitSelects
  <2> HIDE DEF p
  <2>2. Setting = [i \in DOMAIN p |-> TrimSpace(p[i])]
    BY DEF Setting, p
  <2>3. ns \in Range(Setting) <=> \E t \in Range(p) : ns = TrimSpace(t)
    BY <2>2 DEF Range
  <2> QED  BY <2>1, <2>3
<1>2. ASSUME NEW t, PieceOf(raw, ",", t), ns = TrimSpace(t) PROVE \E e \in Entries : Lists(e, ns)
  <2>1. PICK a, z : Piece(raw, ",", a, z) /\ t = SubSeq(raw, a, z - 1)
    BY <1>2 DEF PieceOf
  <2>2. Lists(<<a - 1, z>>, ns)
    BY <2>1, <1>2, EntryIsTrimmed
  <2> QED  BY <2>1, <2>2, PieceIsEntry
<1>3. ASSUME NEW e \in Entries, Lists(e, ns) PROVE \E t : PieceOf(raw, ",", t) /\ ns = TrimSpace(t)
  <2> DEFINE a == e[1] + 1
             z == e[2]
  <2>1. Piece(raw, ",", a, z) /\ e = <<a - 1, z>>
    BY EntryIsPiece
  <2> HIDE DEF a, z
  <2>2. TrimSpace(SubSeq(raw, a, z - 1)) = ns
    BY <2>1, <1>3, EntryIsTrimmed
  <2>3. PieceOf(raw, ",", SubSeq(raw, a, z - 1))
    BY <2>1 DEF PieceOf
  <2> QED  BY <2>2, <2>3
<1> QED  BY <1>1, <1>2, <1>3

(* Namespaced objects of a CRD's kind are watched where the setting says,  *)
(* whatever blanks and commas it holds.                                    *)
THEOREM WatchedAsSet == Spec => []WatchedAsListed
<1>1. KInv => WatchedAsListed
  <2> SUFFICES ASSUME KInv, NEW o \in Objects,
                      o.kind \in tracked, o.kind \notin ClusterScoped \cup StaticKinds
               PROVE  Watched(o) <=> \E e \in Entries : Lists(e, <<>>) \/ Lists(e, o.ns)
    BY DEF WatchedAsListed
  <2>1. raw \in Seq(Char) /\ o.ns \in Nss \cup {<<>>} /\ <<>> \in Nss \cup {<<>>}
    BY DEF KInv, Objects
  <2>2. namespaces = Setting
    BY DEF KInv, WatchedWhereSet
  <2>3. Watched(o) => <<>> \in Range(Setting) \/ o.ns \in Range(Setting)
    BY <2>2 DEF KInv, WatchedWhereSet, Watched, Sees
  <2>4. ASSUME NEW ns \in Range(Setting), ns \in {<<>>, o.ns} PROVE Watched(o)
    <3>1. Informer(o.kind, ns) \in running
      BY <2>2 DEF KInv, WatchedWhereSet
    <3>2. Informer(o.kind, ns).kind = o.kind /\ Informer(o.kind, ns).ns = ns
      BY DEF Informer
    <3> QED  BY <3>1, <3>2, <2>4 DEF Watched, Sees
  <2>5. <<>> \in Range(Setting) <=> \E e \in Entries : Lists(e, <<>>)
    BY <2>1, SettingLists
  <2>6. o.ns \in Range(Setting) <=> \E e \in Entries : Lists(e, o.ns)
    BY <2>1, SettingLists
  <2> QED  BY <2>3, <2>4, <2>5, <2>6
<1> QED  BY <1>1, KeysInvariant, PTL
=============================================================================
