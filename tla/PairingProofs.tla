---------------------------- MODULE PairingProofs ----------------------------
(***************************************************************************)
(* Proofs about Pairing.  A paired entry has a paired exit after it.  The  *)
(* visits of a group are the pairs of a nested matching that leaves out no *)
(* exit while an entry waits (Visits), and any such matching is the one    *)
(* that Pairing states by counting: who is paired, and with whom.          *)
(***************************************************************************)
EXTENDS Pairing, FiniteSetTheorems, NaturalsInduction, TLAPS

\* A group of passages: finitely many, that ids tell apart.
Passages(M) ==
    /\ IsFiniteSet(M)
    /\ \A m \in M : m.id \in Nat /\ m.time \in Nat /\ m.type \in {"entry", "exit"}
    /\ \A m, n \in M : m.id = n.id => m = n

LEMMA Ordered ==
  ASSUME NEW M, Passages(M)
  PROVE  /\ \A a \in M : ~Before(a, a)
         /\ \A a, b \in M : Before(a, b) => ~Before(b, a)
         /\ \A a, b \in M : a = b \/ Before(a, b) \/ Before(b, a)
         /\ \A a, b, c \in M : Before(a, b) /\ Before(b, c) => Before(a, c)
BY DEF Passages, Before

-----------------------------------------------------------------------------
(* The least and the greatest value of a measure.                          *)

LEMMA LeastNumber ==
  ASSUME NEW T \in SUBSET Nat, T # {}
  PROVE  \E n \in T : \A k \in T : n <= k
<1> DEFINE R == OpToRel(<, Nat)
<1>1. IsWellFoundedOn(R, Nat)
  BY NatLessThanWellFounded DEF OpToRel
<1>2. \A x, y \in Nat : x < y => <<x, y>> \in R
  BY DEF OpToRel
<1> HIDE DEF R
<1>3. \E n \in T : \A k \in T : ~ (<<k, n>> \in R)
  BY <1>1, WFMin
<1>4. PICK n \in T : \A k \in T : ~ (k < n)
  BY <1>2, <1>3
<1> QED  BY <1>4

LEMMA Smallest ==
  ASSUME NEW S, S # {}, NEW f \in [S -> Nat]
  PROVE  \E s \in S : \A t \in S : f[s] <= f[t]
<1> DEFINE T == {f[s] : s \in S}
<1>1. PICK n \in T : \A k \in T : n <= k
  <2>1. T \in SUBSET Nat /\ T # {}
    OBVIOUS
  <2> HIDE DEF T
  <2> QED  BY <2>1, LeastNumber
<1> QED  BY <1>1

LEMMA Greatest ==
  ASSUME NEW S, S # {}, NEW n \in Nat, NEW f \in [S -> 0 .. n]
  PROVE  \E s \in S : \A t \in S : f[t] <= f[s]
<1> DEFINE g == [s \in S |-> n - f[s]]
<1>1. g \in [S -> Nat]
  OBVIOUS
<1>2. PICK s \in S : \A t \in S : g[s] <= g[t]
  BY <1>1, Smallest
<1> QED  BY <1>2

-----------------------------------------------------------------------------
(* Counting passages.                                                      *)

LEMMA Counted ==
  ASSUME NEW M, IsFiniteSet(M), NEW type
  PROVE  IsFiniteSet(Of(M, type)) /\ Cardinality(Of(M, type)) \in Nat
<1>1. Of(M, type) \subseteq M
  BY DEF Of
<1> QED  BY <1>1, FS_Subset, FS_CardinalityType

LEMMA OneMore ==
  ASSUME NEW M, IsFiniteSet(M), NEW m, m \notin M, NEW type
  PROVE  Cardinality(Of(M \cup {m}, type)) =
            IF m.type = type THEN Cardinality(Of(M, type)) + 1 ELSE Cardinality(Of(M, type))
<1>1. CASE m.type = type
  <2>1. Of(M \cup {m}, type) = Of(M, type) \cup {m} /\ m \notin Of(M, type)
    BY <1>1 DEF Of
  <2> QED  BY <1>1, <2>1, Counted, FS_AddElement
<1>2. CASE m.type # type
  <2>1. Of(M \cup {m}, type) = Of(M, type)
    BY <1>2 DEF Of
  <2> QED  BY <1>2, <2>1
<1> QED  BY <1>1, <1>2

-----------------------------------------------------------------------------
(* The first passage up to which the exits after an entry outweigh the     *)
(* entries is an exit, and it is paired with that entry.                   *)

LEMMA PairedWithAnExit ==
  ASSUME NEW M, Passages(M), NEW e \in Of(M, "entry"), EntryPaired(M, e)
  PROVE  \E x \in Of(M, "exit") : Before(e, x) /\ ExitPaired(M, x)
<1> DEFINE A(b) == After(M, e, b)
           S == {b \in M : Before(e, b) /\ Outweighs(A(b), "exit", "entry")}
           size == [b \in M |-> Cardinality(A(b))]
<1>0. e \in M /\ e.type = "entry" /\ IsFiniteSet(M)
  BY DEF Of, Passages
<1>1. \A b \in M : IsFiniteSet(A(b)) /\ Cardinality(A(b)) \in Nat /\ Cardinality(A(b)) <= Cardinality(M)
  <2>1. \A b \in M : A(b) \subseteq M
    BY DEF After
  <2> QED  BY <1>0, <2>1, FS_Subset, FS_CardinalityType
<1>2. \A a, b \in M : Before(e, b) /\ Before(a, b) => Cardinality(A(a)) < Cardinality(A(b))
  <2>1. SUFFICES ASSUME NEW a \in M, NEW b \in M, Before(e, b), Before(a, b)
                 PROVE  Cardinality(A(a)) < Cardinality(A(b))
    OBVIOUS
  <2>2. A(a) \subseteq A(b) /\ b \in A(b) /\ b \notin A(a)
    BY <1>0, <2>1, Ordered DEF After
  <2>3. A(a) # A(b)
    BY <2>2
  <2> QED  BY <1>1, <2>2, <2>3, FS_Subset, FS_CardinalityType
<1>3. PICK m \in S : \A b \in S : Cardinality(A(m)) <= Cardinality(A(b))
  <2>1. S # {}
    BY DEF EntryPaired, Of
  <2> DEFINE f == [b \in S |-> Cardinality(A(b))]
  <2>2. f \in [S -> Nat]
    BY <1>1
  <2>3. PICK m \in S : \A b \in S : f[m] <= f[b]
    BY <2>1, <2>2, Smallest
  <2> QED  BY <2>3
<1>4. m \in M /\ Before(e, m) /\ Outweighs(A(m), "exit", "entry")
  BY <1>3
<1>5. \A b \in M : Before(e, b) /\ Before(b, m) => ~Outweighs(A(b), "exit", "entry")
  <2>1. SUFFICES ASSUME NEW b \in M, Before(e, b), Before(b, m), Outweighs(A(b), "exit", "entry")
                 PROVE  FALSE
    OBVIOUS
  <2>2. Cardinality(A(m)) <= Cardinality(A(b))
    BY <1>3, <2>1
  <2>3. Cardinality(A(b)) < Cardinality(A(m))
    BY <1>2, <1>4, <2>1
  <2> QED  BY <1>1, <1>4, <2>1, <2>2, <2>3
<1> DEFINE L == A(m) \ {m}
           Exits(X) == Cardinality(Of(X, "exit"))
           Entries(X) == Cardinality(Of(X, "entry"))
<1>6. IsFiniteSet(L) /\ m \notin L /\ A(m) = L \cup {m} /\ Exits(L) \in Nat /\ Entries(L) \in Nat
  <2>1. m \in A(m)
    BY <1>4, Ordered DEF After
  <2>2. IsFiniteSet(L)
    BY <1>1, <1>4, FS_Subset
  <2> QED  BY <2>1, <2>2, Counted
<1>7. Exits(L) <= Entries(L)
  <2>1. CASE L = {}
    <3>1. Of(L, "exit") = Of(L, "entry")
      BY <2>1 DEF Of
    <3> QED  BY <1>6, <3>1
  <2>2. CASE L # {}
    <3> DEFINE f == [y \in L |-> Cardinality(A(y))]
    <3>1. \A y \in L : y \in M /\ Before(e, y) /\ Before(y, m)
      BY <1>4, Ordered DEF After
    <3>2. Cardinality(M) \in Nat /\ f \in [L -> 0 .. Cardinality(M)]
      BY <1>0, <1>1, <3>1, FS_CardinalityType
    <3>3. PICK y \in L : \A z \in L : f[z] <= f[y]
      BY <2>2, <3>2, Greatest
    <3>4. \A z \in L : ~Before(y, z)
      BY <1>1, <1>2, <3>1, <3>3
    <3>5. A(y) = L
      BY <1>4, <3>1, <3>4, Ordered DEF After
    <3>6. ~Outweighs(A(y), "exit", "entry")
      BY <1>5, <3>1
    <3> QED  BY <1>6, <3>5, <3>6 DEF Outweighs
  <2> QED  BY <2>1, <2>2
<1> HIDE DEF L
<1>8. Exits(A(m)) > Entries(A(m))
  BY <1>4 DEF Outweighs
<1>9. m.type = "exit" /\ Exits(L) = Entries(L)
  <2>1. m.type \in {"entry", "exit"}
    BY <1>4 DEF Passages
  <2>2. /\ Exits(A(m)) = IF m.type = "exit" THEN Exits(L) + 1 ELSE Exits(L)
        /\ Entries(A(m)) = IF m.type = "entry" THEN Entries(L) + 1 ELSE Entries(L)
    BY <1>6, OneMore
  <2> QED  BY <1>6, <1>7, <1>8, <2>1, <2>2
<1>10. Until(M, e, m) = L \cup {e} /\ e \notin L
  BY <1>0, <1>4, Ordered DEF Until, After, L
<1>11. Outweighs(Until(M, e, m), "entry", "exit")
  <2>1. Entries(L \cup {e}) = Entries(L) + 1 /\ Exits(L \cup {e}) = Exits(L)
    BY <1>0, <1>6, <1>10, OneMore
  <2> QED  BY <1>6, <1>9, <1>10, <2>1 DEF Outweighs
<1> QED  BY <1>4, <1>9, <1>11 DEF ExitPaired, Of

-----------------------------------------------------------------------------
(* Visits.                                                                 *)

InVisit(Q, m) == \E q \in Q : m = q[1] \/ m = q[2]

\* Visits nest, and an exit belongs to none only if every entry before it
\* belongs to one that ended before it.
Visits(M, Q) ==
    /\ Q \subseteq Of(M, "entry") \X Of(M, "exit")
    /\ \A q \in Q : Before(q[1], q[2])
    /\ \A p, q \in Q : p[1] = q[1] \/ p[2] = q[2] => p = q
    /\ \A p \in Q, m \in M :
          Before(p[1], m) /\ Before(m, p[2]) =>
             \E q \in Q : (m = q[1] \/ m = q[2]) /\ Before(p[1], q[1]) /\ Before(q[2], p[2])
    /\ \A x \in Of(M, "exit"), e \in Of(M, "entry") :
          Before(e, x) /\ ~InVisit(Q, x) => \E q \in Q : q[1] = e /\ Before(q[2], x)

\* A set that holds the partner of each passage of one type has no fewer of
\* the other.
LEMMA EntriesForExits ==
  ASSUME NEW M, Passages(M), NEW Q, Visits(M, Q), NEW B \in SUBSET M,
         \A x \in Of(B, "exit") : \E q \in Q : q[2] = x /\ q[1] \in B
  PROVE  Cardinality(Of(B, "exit")) <= Cardinality(Of(B, "entry"))
<1> DEFINE f == [x \in Of(B, "exit") |-> CHOOSE e \in Of(B, "entry") : <<e, x>> \in Q]
<1>1. IsFiniteSet(B)
  BY FS_Subset DEF Passages
<1>2. \A x \in Of(B, "exit") : f[x] \in Of(B, "entry") /\ <<f[x], x>> \in Q
  <2>1. SUFFICES ASSUME NEW x \in Of(B, "exit")
                 PROVE  \E e \in Of(B, "entry") : <<e, x>> \in Q
    OBVIOUS
  <2>2. PICK q \in Q : q[2] = x /\ q[1] \in B
    OBVIOUS
  <2>3. q = <<q[1], q[2]>> /\ q[1] \in Of(B, "entry")
    BY <2>2 DEF Visits, Of
  <2> QED  BY <2>2, <2>3
<1> HIDE DEF f
<1>3. \A x, y \in Of(B, "exit") : f[x] = f[y] => x = y
  <2>1. SUFFICES ASSUME NEW x \in Of(B, "exit"), NEW y \in Of(B, "exit"), f[x] = f[y] PROVE x = y
    OBVIOUS
  <2>2. \A p, q \in Q : p[1] = q[1] => p = q
    BY DEF Visits
  <2>3. <<f[x], x>> = <<f[y], y>>
    BY <1>2, <2>1, <2>2
  <2> QED  BY <2>3
<1>4. f \in Injection(Of(B, "exit"), Of(B, "entry"))
  BY <1>2, <1>3 DEF Injection, IsInjective, f
<1> QED  BY <1>1, <1>4, Counted, FS_Injection

LEMMA ExitsForEntries ==
  ASSUME NEW M, Passages(M), NEW Q, Visits(M, Q), NEW B \in SUBSET M,
         \A e \in Of(B, "entry") : \E q \in Q : q[1] = e /\ q[2] \in B
  PROVE  Cardinality(Of(B, "entry")) <= Cardinality(Of(B, "exit"))
<1> DEFINE f == [e \in Of(B, "entry") |-> CHOOSE x \in Of(B, "exit") : <<e, x>> \in Q]
<1>1. IsFiniteSet(B)
  BY FS_Subset DEF Passages
<1>2. \A e \in Of(B, "entry") : f[e] \in Of(B, "exit") /\ <<e, f[e]>> \in Q
  <2>1. SUFFICES ASSUME NEW e \in Of(B, "entry")
                 PROVE  \E x \in Of(B, "exit") : <<e, x>> \in Q
    OBVIOUS
  <2>2. PICK q \in Q : q[1] = e /\ q[2] \in B
    OBVIOUS
  <2>3. q = <<q[1], q[2]>> /\ q[2] \in Of(B, "exit")
    BY <2>2 DEF Visits, Of
  <2> QED  BY <2>2, <2>3
<1> HIDE DEF f
<1>3. \A d, e \in Of(B, "entry") : f[d] = f[e] => d = e
  <2>1. SUFFICES ASSUME NEW d \in Of(B, "entry"), NEW e \in Of(B, "entry"), f[d] = f[e] PROVE d = e
    OBVIOUS
  <2>2. \A p, q \in Q : p[2] = q[2] => p = q
    BY DEF Visits
  <2>3. <<d, f[d]>> = <<e, f[e]>>
    BY <1>2, <2>1, <2>2
  <2> QED  BY <2>3
<1>4. f \in Injection(Of(B, "entry"), Of(B, "exit"))
  BY <1>2, <1>3 DEF Injection, IsInjective, f
<1> QED  BY <1>1, <1>4, Counted, FS_Injection

\* Between the passages of a visit as many enter as leave.
LEMMA VisitBalanced ==
  ASSUME NEW M, Passages(M), NEW Q, Visits(M, Q), NEW p \in Q
  PROVE  LET B == {m \in M : Before(p[1], m) /\ Before(m, p[2])}
         IN /\ Cardinality(Of(B, "entry")) = Cardinality(Of(B, "exit"))
            /\ After(M, p[1], p[2]) = B \cup {p[2]} /\ p[2] \notin B
            /\ Until(M, p[1], p[2]) = B \cup {p[1]} /\ p[1] \notin B
<1> DEFINE B == {m \in M : Before(p[1], m) /\ Before(m, p[2])}
<1>0. /\ p[1] \in M /\ p[2] \in M /\ Before(p[1], p[2])
      /\ \A q \in Q : q[1] \in M /\ q[2] \in M /\ q[1].type = "entry" /\ q[2].type = "exit" /\ Before(q[1], q[2])
  BY DEF Visits, Of
<1>1. \A m \in B : \E q \in Q : (m = q[1] \/ m = q[2]) /\ q[1] \in B /\ q[2] \in B
  <2>1. SUFFICES ASSUME NEW m \in B
                 PROVE  \E q \in Q : (m = q[1] \/ m = q[2]) /\ q[1] \in B /\ q[2] \in B
    OBVIOUS
  <2>2. PICK q \in Q : (m = q[1] \/ m = q[2]) /\ Before(p[1], q[1]) /\ Before(q[2], p[2])
    BY DEF Visits
  <2>3. q[1] \in M /\ q[2] \in M /\ Before(q[1], q[2])
    BY <1>0
  <2>4. Before(q[1], p[2]) /\ Before(p[1], q[2])
    BY <1>0, <2>2, <2>3, Ordered
  <2> QED  BY <2>2, <2>3, <2>4
<1>2. \A x \in Of(B, "exit") : \E q \in Q : q[2] = x /\ q[1] \in B
  BY <1>0, <1>1 DEF Of
<1>3. \A e \in Of(B, "entry") : \E q \in Q : q[1] = e /\ q[2] \in B
  BY <1>0, <1>1 DEF Of
<1>4. Cardinality(Of(B, "entry")) = Cardinality(Of(B, "exit"))
  <2>1. B \in SUBSET M
    OBVIOUS
  <2>2. IsFiniteSet(B)
    BY <2>1, FS_Subset DEF Passages
  <2> HIDE DEF B
  <2>3. Cardinality(Of(B, "exit")) <= Cardinality(Of(B, "entry"))
    BY <1>2, <2>1, EntriesForExits
  <2>4. Cardinality(Of(B, "entry")) <= Cardinality(Of(B, "exit"))
    BY <1>3, <2>1, ExitsForEntries
  <2> QED  BY <2>2, <2>3, <2>4, Counted
<1>5. After(M, p[1], p[2]) = B \cup {p[2]} /\ p[2] \notin B
  BY <1>0, Ordered DEF After
<1>6. Until(M, p[1], p[2]) = B \cup {p[1]} /\ p[1] \notin B
  BY <1>0, Ordered DEF Until
<1> QED  BY <1>4, <1>5, <1>6

\* Counting finds the visits.
LEMMA VisitsCounted ==
  ASSUME NEW M, Passages(M), NEW Q, Visits(M, Q), NEW m \in M
  PROVE  Paired(M, m) <=> InVisit(Q, m)
<1>0. /\ m.type \in {"entry", "exit"} /\ IsFiniteSet(M)
      /\ \A q \in Q : /\ q[1] \in M /\ q[2] \in M /\ q[1].type = "entry" /\ q[2].type = "exit"
                      /\ Before(q[1], q[2])
  BY DEF Passages, Visits, Of
<1>1. ASSUME NEW p \in Q PROVE EntryPaired(M, p[1]) /\ ExitPaired(M, p[2])
  <2> DEFINE B == {n \in M : Before(p[1], n) /\ Before(n, p[2])}
  <2>1. /\ Cardinality(Of(B, "entry")) = Cardinality(Of(B, "exit"))
        /\ After(M, p[1], p[2]) = B \cup {p[2]} /\ p[2] \notin B
        /\ Until(M, p[1], p[2]) = B \cup {p[1]} /\ p[1] \notin B
    BY VisitBalanced
  <2>2. IsFiniteSet(B)
    <3>1. B \subseteq M
      OBVIOUS
    <3> QED  BY <1>0, <3>1, FS_Subset
  <2> HIDE DEF B
  <2>3. /\ Cardinality(Of(B \cup {p[2]}, "exit")) = Cardinality(Of(B, "exit")) + 1
        /\ Cardinality(Of(B \cup {p[2]}, "entry")) = Cardinality(Of(B, "entry"))
        /\ Cardinality(Of(B \cup {p[1]}, "entry")) = Cardinality(Of(B, "entry")) + 1
        /\ Cardinality(Of(B \cup {p[1]}, "exit")) = Cardinality(Of(B, "exit"))
    BY <1>0, <2>1, <2>2, OneMore
  <2>4. /\ Outweighs(After(M, p[1], p[2]), "exit", "entry")
        /\ Outweighs(Until(M, p[1], p[2]), "entry", "exit")
    BY <2>1, <2>2, <2>3, Counted DEF Outweighs
  <2>5. p[1] \in Of(M, "entry") /\ p[2] \in Of(M, "exit") /\ Before(p[1], p[2])
    BY <1>0 DEF Of
  <2> QED  BY <2>4, <2>5 DEF EntryPaired, ExitPaired
<1>2. ASSUME m.type = "entry", ~InVisit(Q, m) PROVE ~EntryPaired(M, m)
  <2>1. SUFFICES ASSUME NEW x \in Of(M, "exit"), Before(m, x)
                 PROVE  ~Outweighs(After(M, m, x), "exit", "entry")
    BY DEF EntryPaired
  <2> DEFINE B == After(M, m, x)
  <2>2. B \in SUBSET M /\ x \in M
    BY DEF After, Of
  <2>3. ASSUME NEW y \in Of(B, "exit") PROVE \E q \in Q : q[2] = y /\ q[1] \in B
    <3>1. y \in M /\ y \in Of(M, "exit") /\ Before(m, y) /\ ~Before(x, y) /\ y.type = "exit"
      BY DEF After, Of
    <3>2. PICK q \in Q : q[2] = y
      <4>1. InVisit(Q, y)
        BY <1>2, <3>1 DEF Visits, InVisit, Of
      <4> QED  BY <1>0, <3>1, <4>1 DEF InVisit
    <3>3. ~Before(q[1], m)
      <4>1. SUFFICES ASSUME Before(q[1], m) PROVE FALSE
        OBVIOUS
      <4>2. \E r \in Q : m = r[1] \/ m = r[2]
        BY <3>1, <3>2, <4>1 DEF Visits
      <4> QED  BY <1>2, <4>2 DEF InVisit
    <3>4. q[1] # m
      BY <1>2 DEF InVisit
    <3>5. Before(m, q[1]) /\ ~Before(x, q[1])
      BY <1>0, <2>2, <3>1, <3>2, <3>3, <3>4, Ordered
    <3> QED  BY <1>0, <3>2, <3>5 DEF After
  <2>4. IsFiniteSet(B)
    BY <1>0, <2>2, FS_Subset
  <2> HIDE DEF B
  <2>5. Cardinality(Of(B, "exit")) <= Cardinality(Of(B, "entry"))
    BY <2>2, <2>3, EntriesForExits
  <2> QED  BY <2>4, <2>5, Counted DEF Outweighs, B
<1>3. ASSUME m.type = "exit", ~InVisit(Q, m) PROVE ~ExitPaired(M, m)
  <2>1. SUFFICES ASSUME NEW e \in Of(M, "entry"), Before(e, m)
                 PROVE  ~Outweighs(Until(M, e, m), "entry", "exit")
    BY DEF ExitPaired
  <2> DEFINE B == Until(M, e, m)
  <2>2. B \in SUBSET M /\ e \in M
    BY DEF Until, Of
  <2>3. ASSUME NEW y \in Of(B, "entry") PROVE \E q \in Q : q[1] = y /\ q[2] \in B
    <3>1. y \in M /\ y \in Of(M, "entry") /\ Before(y, m) /\ ~Before(y, e)
      BY DEF Until, Of
    <3>2. m \in Of(M, "exit")
      BY <1>3 DEF Of
    <3>3. PICK q \in Q : q[1] = y /\ Before(q[2], m)
      BY <1>3, <3>1, <3>2 DEF Visits
    <3>4. ~Before(q[2], e)
      BY <1>0, <2>2, <3>1, <3>3, Ordered
    <3> QED  BY <1>0, <3>3, <3>4 DEF Until
  <2>4. IsFiniteSet(B)
    BY <1>0, <2>2, FS_Subset
  <2> HIDE DEF B
  <2>5. Cardinality(Of(B, "entry")) <= Cardinality(Of(B, "exit"))
    BY <2>2, <2>3, ExitsForEntries
  <2> QED  BY <2>4, <2>5, Counted DEF Outweighs, B
<1>4. CASE m.type = "entry"
  <2>1. InVisit(Q, m) => \E q \in Q : m = q[1]
    BY <1>0, <1>4 DEF InVisit
  <2>2. Paired(M, m) <=> EntryPaired(M, m)
    BY <1>4 DEF Paired
  <2> QED  BY <1>1, <1>2, <1>4, <2>1, <2>2
<1>5. CASE m.type = "exit"
  <2>1. InVisit(Q, m) => \E q \in Q : m = q[2]
    BY <1>0, <1>5 DEF InVisit
  <2>2. Paired(M, m) <=> ExitPaired(M, m)
    BY <1>5 DEF Paired
  <2> QED  BY <1>1, <1>3, <1>5, <2>1, <2>2
<1> QED  BY <1>0, <1>4, <1>5

\* Counting finds where each of them ends.
LEMMA VisitEnds ==
  ASSUME NEW M, Passages(M), NEW Q, Visits(M, Q), NEW p \in Q
  PROVE  VisitEnd(M, p[1]) = p[2]
<1>0. /\ IsFiniteSet(M)
      /\ \A q \in Q : /\ q[1] \in M /\ q[2] \in M /\ q[1].type = "entry" /\ q[2].type = "exit"
                      /\ Before(q[1], q[2])
  BY DEF Passages, Visits, Of
<1>1. Outweighs(After(M, p[1], p[2]), "exit", "entry")
  <2> DEFINE B == {n \in M : Before(p[1], n) /\ Before(n, p[2])}
  <2>1. /\ Cardinality(Of(B, "entry")) = Cardinality(Of(B, "exit"))
        /\ After(M, p[1], p[2]) = B \cup {p[2]} /\ p[2] \notin B
    BY VisitBalanced
  <2>2. IsFiniteSet(B)
    <3>1. B \subseteq M
      OBVIOUS
    <3> QED  BY <1>0, <3>1, FS_Subset
  <2> HIDE DEF B
  <2>3. /\ Cardinality(Of(B \cup {p[2]}, "exit")) = Cardinality(Of(B, "exit")) + 1
        /\ Cardinality(Of(B \cup {p[2]}, "entry")) = Cardinality(Of(B, "entry"))
    BY <1>0, <2>1, <2>2, OneMore
  <2> QED  BY <2>1, <2>2, <2>3, Counted DEF Outweighs
\* Before its end every exit inside it finds its entry inside it.
<1>2. ASSUME NEW y \in M, Before(p[1], y), Before(y, p[2])
      PROVE  ~Outweighs(After(M, p[1], y), "exit", "entry")
  <2> DEFINE B == After(M, p[1], y)
  <2>1. B \in SUBSET M
    BY DEF After
  <2>2. ASSUME NEW x \in Of(B, "exit") PROVE \E q \in Q : q[2] = x /\ q[1] \in B
    <3>1. x \in M /\ x.type = "exit" /\ Before(p[1], x) /\ ~Before(y, x)
      BY DEF After, Of
    <3>2. Before(x, p[2])
      BY <1>0, <1>2, <3>1, Ordered
    <3>3. PICK q \in Q : (x = q[1] \/ x = q[2]) /\ Before(p[1], q[1]) /\ Before(q[2], p[2])
      BY <3>1, <3>2 DEF Visits
    <3>4. x = q[2] /\ q[1] \in M /\ Before(q[1], x)
      BY <1>0, <3>1, <3>3
    <3>5. ~Before(y, q[1])
      BY <1>0, <1>2, <3>1, <3>4, Ordered
    <3> QED  BY <3>3, <3>4, <3>5 DEF After
  <2>3. IsFiniteSet(B)
    BY <1>0, <2>1, FS_Subset
  <2> HIDE DEF B
  <2>4. Cardinality(Of(B, "exit")) <= Cardinality(Of(B, "entry"))
    BY <2>1, <2>2, EntriesForExits
  <2> QED  BY <2>3, <2>4, Counted DEF Outweighs, B
<1>3. p[2] \in Of(M, "exit") /\ EndsVisit(M, p[1], p[2])
  BY <1>0, <1>1, <1>2 DEF EndsVisit, Of
<1>4. ASSUME NEW x \in Of(M, "exit"), EndsVisit(M, p[1], x) PROVE x = p[2]
  <2>1. x \in M /\ Before(p[1], x) /\ Outweighs(After(M, p[1], x), "exit", "entry")
    BY <1>4 DEF EndsVisit, Of
  <2>2. ~Before(x, p[2])
    BY <1>2, <2>1
  <2>3. ~Before(p[2], x)
    BY <1>0, <1>1, <1>4 DEF EndsVisit
  <2> QED  BY <1>0, <2>1, <2>2, <2>3, Ordered
<1> QED  BY <1>3, <1>4 DEF VisitEnd
=============================================================================
