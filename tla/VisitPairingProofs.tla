-------------------------- MODULE VisitPairingProofs --------------------------
(***************************************************************************)
(* Proofs about VisitPairing and Reports, for any number of movements and  *)
(* instants, any units, periods and journeys.                              *)
(* Each walk keeps a nested matching of what it has passed, with the stack *)
(* as the entries that wait (Walked).  At its end this is a matching in    *)
(* the sense of PairingProofs, so that the stack computes what Pairing     *)
(* states by counting, whatever was left in the table before.  The folds   *)
(* of the reports are taken step by step (WalkSteps, SumSteps); the stack  *)
(* of a report keeps the same matching over the events of each unit.       *)
(***************************************************************************)
EXTENDS VisitPairing, Reports, PairingProofs, SequenceTheorems

\* The order a walk respects: movements it does not order come as they like.
Precedes(w, m, n) == IF w = "reconcile" THEN Before(m, n) ELSE m.time < n.time

LEMMA WeaklyOrdered ==
  ASSUME NEW M, Passages(M), NEW w
  PROVE  /\ \A m \in M : ~Precedes(w, m, m)
         /\ \A m, n \in M : Precedes(w, m, n) => ~Precedes(w, n, m)
         /\ \A l, m, n \in M : Precedes(w, l, m) /\ Precedes(w, m, n) => Precedes(w, l, n)
         /\ \A l, m, n \in M : ~Precedes(w, l, m) /\ ~Precedes(w, m, n) => ~Precedes(w, l, n)
BY DEF Passages, Precedes, Before

-----------------------------------------------------------------------------
(* A walk that has passed the movements D, with stack S and visits Q.      *)

Stacked(w, D, S, Q) ==
    /\ S \in Seq(Of(D, "entry"))
    /\ \A k, l \in 1 .. Len(S) : k < l => S[k] # S[l] /\ ~Precedes(w, S[l], S[k])
    /\ \A k \in 1 .. Len(S), q \in Q : S[k] # q[1]
    /\ \A e \in Of(D, "entry") : (\E k \in 1 .. Len(S) : e = S[k]) \/ \E q \in Q : e = q[1]

Matched(w, D, Q) ==
    /\ Q \subseteq Of(D, "entry") \X Of(D, "exit")
    /\ \A q \in Q : ~Precedes(w, q[2], q[1])
    /\ \A p, q \in Q : p[1] = q[1] \/ p[2] = q[2] => p = q

\* What came after an entry that waits waits as well or is part of a visit
\* that began after it.
Waits(w, D, S, Q) ==
    \A k \in 1 .. Len(S), m \in D : Precedes(w, S[k], m) =>
        \/ \E l \in 1 .. Len(S) : k < l /\ m = S[l]
        \/ \E q \in Q : (m = q[1] \/ m = q[2]) /\ ~Precedes(w, q[1], S[k])

Nested(w, D, Q) ==
    \A p \in Q, m \in D : Precedes(w, p[1], m) /\ Precedes(w, m, p[2]) =>
        \E q \in Q : (m = q[1] \/ m = q[2]) /\ ~Precedes(w, q[1], p[1]) /\ ~Precedes(w, p[2], q[2])

\* An exit found no entry only when all before it were paired.
NoneWaited(w, D, Q) ==
    \A x \in Of(D, "exit"), e \in Of(D, "entry") : Precedes(w, e, x) /\ ~InVisit(Q, x) =>
        \E q \in Q : q[1] = e /\ ~Precedes(w, x, q[2])

Walked(w, D, S, Q) ==
    Stacked(w, D, S, Q) /\ Matched(w, D, Q) /\ Waits(w, D, S, Q) /\ Nested(w, D, Q) /\ NoneWaited(w, D, Q)

\* m is one of the movements that may come next.
Comes(w, M, D, m) ==
    /\ Passages(M) /\ D \in SUBSET M /\ m \in M /\ m \notin D
    /\ \A d \in D : ~Precedes(w, m, d)

LEMMA Started ==
  ASSUME NEW w PROVE Walked(w, {}, <<>>, {})
BY EmptySeq DEF Walked, Stacked, Matched, Waits, Nested, NoneWaited, Of

LEMMA Pushed ==
  ASSUME NEW w, NEW M, NEW D, NEW m, Comes(w, M, D, m), m.type = "entry",
         NEW S, NEW Q, Walked(w, D, S, Q)
  PROVE  Walked(w, D \cup {m}, Append(S, m), Q)
<1> DEFINE E == D \cup {m}
           T == Append(S, m)
<1>0. /\ E \in SUBSET M /\ Of(E, "entry") = Of(D, "entry") \cup {m} /\ Of(E, "exit") = Of(D, "exit")
      /\ \A q \in Q : q[1] \in D /\ q[2] \in D /\ q[1] # m /\ q[2] # m
  BY DEF Comes, Of, Walked, Matched
<1>1. /\ S \in Seq(Of(E, "entry")) /\ Len(S) \in Nat
      /\ \A k \in 1 .. Len(S) : S[k] \in D /\ S[k] # m
  <2>1. S \in Seq(Of(D, "entry"))
    BY DEF Walked, Stacked
  <2>2. Len(S) \in Nat /\ \A k \in 1 .. Len(S) : S[k] \in Of(D, "entry")
    BY <2>1, LenProperties, ElementOfSeq
  <2>3. Of(D, "entry") \subseteq Of(E, "entry")
    BY <1>0
  <2> HIDE DEF E
  <2> QED  BY <2>1, <2>2, <2>3, SeqMonotonic DEF Of, Comes
<1>2. /\ T \in Seq(Of(E, "entry")) /\ Len(T) = Len(S) + 1
      /\ \A k \in 1 .. Len(S) : T[k] = S[k]
      /\ T[Len(S) + 1] = m
      /\ \A k \in 1 .. Len(T) : k \in 1 .. Len(S) \/ k = Len(S) + 1
  <2>1. m \in Of(E, "entry")
    BY <1>0
  <2> HIDE DEF E
  <2> QED  BY <1>1, <2>1, AppendProperties
<1>3. \A d \in D : ~Precedes(w, m, d)
  BY DEF Comes
<1>4. ~Precedes(w, m, m)
  BY WeaklyOrdered DEF Comes
<1> HIDE DEF T
<1>5. Stacked(w, E, T, Q)
  <2>1. \A k, l \in 1 .. Len(T) : k < l => T[k] # T[l] /\ ~Precedes(w, T[l], T[k])
    BY <1>1, <1>2, <1>3 DEF Walked, Stacked
  <2>2. \A k \in 1 .. Len(T), q \in Q : T[k] # q[1]
    BY <1>0, <1>2 DEF Walked, Stacked
  <2>3. \A e \in Of(E, "entry") : (\E k \in 1 .. Len(T) : e = T[k]) \/ \E q \in Q : e = q[1]
    <3>1. SUFFICES ASSUME NEW e \in Of(E, "entry"), ~ \E q \in Q : e = q[1]
                   PROVE  \E k \in 1 .. Len(T) : e = T[k]
      OBVIOUS
    <3>2. CASE e = m
      <4>1. Len(S) + 1 \in 1 .. Len(T)
        BY <1>1, <1>2
      <4> QED  BY <1>2, <3>2, <4>1
    <3>3. CASE e \in Of(D, "entry")
      <4>1. PICK k \in 1 .. Len(S) : e = S[k]
        BY <3>1, <3>3 DEF Walked, Stacked
      <4> QED  BY <1>1, <1>2, <4>1
    <3> QED  BY <1>0, <3>2, <3>3
  <2> QED  BY <1>2, <2>1, <2>2, <2>3 DEF Stacked
<1>6. Matched(w, E, Q)
  BY <1>0 DEF Walked, Matched
<1>7. Waits(w, E, T, Q)
  <2>1. SUFFICES ASSUME NEW k \in 1 .. Len(T), NEW n \in E, Precedes(w, T[k], n)
                 PROVE  \/ \E l \in 1 .. Len(T) : k < l /\ n = T[l]
                        \/ \E q \in Q : (n = q[1] \/ n = q[2]) /\ ~Precedes(w, q[1], T[k])
    BY DEF Waits
  <2>2. k \in 1 .. Len(S) /\ T[k] = S[k]
    BY <1>2, <1>3, <1>4, <2>1
  <2>3. CASE n = m
    BY <1>1, <1>2, <2>2, <2>3
  <2>4. CASE n \in D
    <3>1. \/ \E l \in 1 .. Len(S) : k < l /\ n = S[l]
          \/ \E q \in Q : (n = q[1] \/ n = q[2]) /\ ~Precedes(w, q[1], S[k])
      BY <2>1, <2>2, <2>4 DEF Walked, Waits
    <3> QED  BY <1>1, <1>2, <2>2, <3>1
  <2> QED  BY <2>3, <2>4
<1>8. Nested(w, E, Q)
  BY <1>0, <1>3 DEF Walked, Nested
<1>9. NoneWaited(w, E, Q)
  <2>1. SUFFICES ASSUME NEW x \in Of(D, "exit"), NEW e \in Of(E, "entry"), Precedes(w, e, x), ~InVisit(Q, x)
                 PROVE  \E q \in Q : q[1] = e /\ ~Precedes(w, x, q[2])
    BY <1>0 DEF NoneWaited
  <2>2. x \in D
    BY DEF Of
  <2>3. e \in Of(D, "entry")
    BY <1>0, <1>3, <2>1, <2>2
  <2>4. NoneWaited(w, D, Q)
    BY DEF Walked
  <2> HIDE DEF E
  <2> QED  BY <2>1, <2>3, <2>4 DEF NoneWaited
<1> QED  BY <1>5, <1>6, <1>7, <1>8, <1>9 DEF Walked, T

LEMMA PairedUp ==
  ASSUME NEW w, NEW M, NEW D, NEW m, Comes(w, M, D, m), m.type = "exit",
         NEW S, NEW Q, Walked(w, D, S, Q), S # <<>>
  PROVE  /\ S[Len(S)] \in Of(D, "entry")
         /\ Walked(w, D \cup {m}, SubSeq(S, 1, Len(S) - 1), Q \cup {<<S[Len(S)], m>>})
<1> DEFINE E == D \cup {m}
           n == Len(S)
           T == SubSeq(S, 1, n - 1)
           e == S[n]
           R == Q \cup {<<e, m>>}
<1>0. /\ E \in SUBSET M /\ Of(E, "entry") = Of(D, "entry") /\ Of(E, "exit") = Of(D, "exit") \cup {m}
      /\ \A q \in Q : q[1] \in D /\ q[2] \in D /\ q[1] # m /\ q[2] # m
  BY DEF Comes, Of, Walked, Matched
<1>1. n \in Nat \ {0} /\ \A k \in 1 .. n : S[k] \in Of(D, "entry") /\ S[k] \in D
  <2>1. S \in Seq(Of(D, "entry"))
    BY DEF Walked, Stacked
  <2>2. n \in Nat \ {0}
    BY <2>1, EmptySeq
  <2>3. \A k \in 1 .. n : S[k] \in Of(D, "entry")
    BY <2>1, ElementOfSeq
  <2> QED  BY <2>2, <2>3 DEF Of
<1>2. /\ T \in Seq(Of(E, "entry")) /\ Len(T) = n - 1 /\ n - 1 \in Nat
      /\ \A k \in 1 .. n - 1 : T[k] = S[k] /\ k \in 1 .. n
  <2>1. 1 \in Int /\ n - 1 \in Int /\ \A k \in 1 .. n - 1 : S[k] \in Of(E, "entry")
    BY <1>0, <1>1
  <2> HIDE DEF E, n
  <2> QED  BY <1>1, <2>1, SubSeqProperties
<1>3. /\ \A d \in D : ~Precedes(w, m, d)
      /\ e \in D /\ e \in Of(D, "entry") /\ e # m /\ n \in 1 .. n
  BY <1>1 DEF Comes
<1>4. /\ \A k \in 1 .. n - 1 : S[k] # e /\ ~Precedes(w, e, S[k])
      /\ \A q \in Q : q[1] # e
  BY <1>1 DEF Walked, Stacked
<1>5. ~Precedes(w, m, m)
  BY WeaklyOrdered DEF Comes
<1>6. <<e, m>> \in R /\ Q \subseteq R /\ (\A r \in R : r \in Q \/ r = <<e, m>>)
  OBVIOUS
<1> HIDE DEF T, n, e, R, E
<1>7. Stacked(w, E, T, R)
  <2>1. \A k, l \in 1 .. Len(T) : k < l => T[k] # T[l] /\ ~Precedes(w, T[l], T[k])
    BY <1>1, <1>2 DEF Walked, Stacked, n
  <2>2. \A k \in 1 .. Len(T), r \in R : T[k] # r[1]
    <3>1. SUFFICES ASSUME NEW k \in 1 .. n - 1, NEW r \in R PROVE S[k] # r[1]
      BY <1>2
    <3>2. CASE r \in Q
      BY <1>2, <3>2 DEF Walked, Stacked, n
    <3>3. CASE r = <<e, m>>
      BY <1>4, <3>3
    <3> QED  BY <1>6, <3>2, <3>3
  <2>3. \A f \in Of(E, "entry") : (\E k \in 1 .. Len(T) : f = T[k]) \/ \E r \in R : f = r[1]
    <3>1. SUFFICES ASSUME NEW f \in Of(D, "entry"), ~ \E r \in R : f = r[1]
                   PROVE  \E k \in 1 .. Len(T) : f = T[k]
      BY <1>0
    <3>2. f # e
      <4>1. <<e, m>>[1] = e
        OBVIOUS
      <4> QED  BY <1>6, <3>1, <4>1
    <3>3. PICK k \in 1 .. n : f = S[k]
      BY <1>6, <3>1 DEF Walked, Stacked, n
    <3>4. k # n
      BY <3>2, <3>3 DEF e, n
    <3>5. k \in 1 .. n - 1
      BY <1>1, <3>4
    <3> QED  BY <1>2, <3>3, <3>5
  <2> QED  BY <1>2, <2>1, <2>2, <2>3 DEF Stacked
<1>8. Matched(w, E, R)
  <2>1. R \subseteq Of(E, "entry") \X Of(E, "exit")
    BY <1>0, <1>3, <1>6 DEF Walked, Matched, R
  <2>2. \A r \in R : ~Precedes(w, r[2], r[1])
    BY <1>3, <1>6 DEF Walked, Matched
  <2>3. \A p, r \in R : p[1] = r[1] \/ p[2] = r[2] => p = r
    <3>1. SUFFICES ASSUME NEW p \in R, NEW r \in R, p[1] = r[1] \/ p[2] = r[2] PROVE p = r
      OBVIOUS
    <3>2. CASE p \in Q /\ r \in Q
      BY <3>1, <3>2 DEF Walked, Matched
    <3>3. CASE p = <<e, m>> /\ r \in Q
      BY <1>0, <1>4, <3>1, <3>3
    <3>4. CASE r = <<e, m>> /\ p \in Q
      BY <1>0, <1>4, <3>1, <3>4
    <3> QED  BY <1>6, <3>2, <3>3, <3>4
  <2> QED  BY <2>1, <2>2, <2>3 DEF Matched
<1>9. Waits(w, E, T, R)
  <2>1. SUFFICES ASSUME NEW k \in 1 .. n - 1, NEW d \in E, Precedes(w, S[k], d)
                 PROVE  \/ \E l \in 1 .. n - 1 : k < l /\ d = S[l]
                        \/ \E q \in R : (d = q[1] \/ d = q[2]) /\ ~Precedes(w, q[1], S[k])
    BY <1>2 DEF Waits
  <2>2. ~Precedes(w, <<e, m>>[1], S[k])
    BY <1>4
  <2>3. CASE d = m \/ d = e
    BY <1>6, <2>2, <2>3
  <2>4. CASE d \in D /\ d # e
    <3>1. \/ \E l \in 1 .. n : k < l /\ d = S[l]
          \/ \E q \in Q : (d = q[1] \/ d = q[2]) /\ ~Precedes(w, q[1], S[k])
      BY <1>2, <2>1, <2>4 DEF Walked, Waits, n
    <3>2. ASSUME NEW l \in 1 .. n, k < l, d = S[l] PROVE l \in 1 .. n - 1
      BY <1>1, <2>4, <3>2 DEF e, n
    <3> QED  BY <1>6, <3>1, <3>2
  <2> QED  BY <2>3, <2>4 DEF E
<1>10. Nested(w, E, R)
  <2>1. SUFFICES ASSUME NEW p \in R, NEW d \in E, Precedes(w, p[1], d), Precedes(w, d, p[2])
                 PROVE  \E q \in R : (d = q[1] \/ d = q[2]) /\ ~Precedes(w, q[1], p[1]) /\ ~Precedes(w, p[2], q[2])
    BY DEF Nested
  <2>2. CASE p \in Q
    <3>1. d \in D
      BY <1>0, <1>3, <2>1, <2>2 DEF E
    <3> QED  BY <1>6, <2>1, <2>2, <3>1 DEF Walked, Nested
  <2>3. CASE p = <<e, m>>
    <3>1. d \in D /\ Precedes(w, e, d)
      BY <1>5, <2>1, <2>3 DEF E
    <3>2. ~ \E l \in 1 .. n : n < l /\ d = S[l]
      BY <1>1
    <3>3. PICK q \in Q : (d = q[1] \/ d = q[2]) /\ ~Precedes(w, q[1], e)
      <4>1. n \in 1 .. Len(S) /\ e = S[n] /\ n = Len(S)
        BY <1>3 DEF e, n
      <4> QED  BY <3>1, <3>2, <4>1 DEF Walked, Waits
    <3>4. ~Precedes(w, m, q[2])
      BY <1>0, <1>3
    <3> QED  BY <1>6, <2>3, <3>3, <3>4
  <2> QED  BY <1>6, <2>2, <2>3
<1>11. NoneWaited(w, E, R)
  <2>1. SUFFICES ASSUME NEW x \in Of(E, "exit"), NEW f \in Of(D, "entry"), Precedes(w, f, x), ~InVisit(R, x)
                 PROVE  \E q \in R : q[1] = f /\ ~Precedes(w, x, q[2])
    BY <1>0 DEF NoneWaited
  <2>2. x # m /\ ~InVisit(Q, x)
    <3>1. <<e, m>>[2] = m
      OBVIOUS
    <3> QED  BY <1>6, <2>1, <3>1 DEF InVisit
  <2>3. x \in Of(D, "exit")
    BY <1>0, <2>2
  <2> QED  BY <1>6, <2>1, <2>2, <2>3 DEF Walked, NoneWaited
<1>12. Walked(w, E, T, R)
  BY <1>7, <1>8, <1>9, <1>10, <1>11 DEF Walked
<1> QED  BY <1>3, <1>12 DEF E, T, R, e, n

LEMMA LeftAlone ==
  ASSUME NEW w, NEW M, NEW D, NEW m, Comes(w, M, D, m), m.type = "exit",
         NEW Q, Walked(w, D, <<>>, Q)
  PROVE  Walked(w, D \cup {m}, <<>>, Q)
<1> DEFINE E == D \cup {m}
<1>0. /\ Of(E, "entry") = Of(D, "entry") /\ Of(E, "exit") = Of(D, "exit") \cup {m}
      /\ \A q \in Q : q[1] \in D /\ q[2] \in D
      /\ \A d \in D : ~Precedes(w, m, d)
  BY DEF Comes, Of, Walked, Matched
<1>1. \A e \in Of(D, "entry") : \E q \in Q : e = q[1]
  BY EmptySeq DEF Walked, Stacked
<1>2. Stacked(w, E, <<>>, Q) /\ Waits(w, E, <<>>, Q)
  <2>1. 1 .. Len(<<>>) = {} /\ <<>> \in Seq(Of(E, "entry"))
    BY EmptySeq
  <2> HIDE DEF E
  <2> QED  BY <1>0, <1>1, <2>1, Zenon DEF Stacked, Waits
<1>5. Matched(w, E, Q)
  <2>1. Of(D, "exit") \subseteq Of(E, "exit")
    BY <1>0
  <2> HIDE DEF E
  <2> QED  BY <1>0, <2>1 DEF Walked, Matched
<1>3. Nested(w, E, Q)
  BY <1>0 DEF Walked, Nested
<1>4. NoneWaited(w, E, Q)
  <2>1. SUFFICES ASSUME NEW x \in Of(E, "exit"), NEW f \in Of(D, "entry"), Precedes(w, f, x), ~InVisit(Q, x)
                 PROVE  \E q \in Q : q[1] = f /\ ~Precedes(w, x, q[2])
    BY <1>0 DEF NoneWaited
  <2>2. CASE x = m
    BY <1>0, <1>1, <2>2
  <2>3. CASE x \in Of(D, "exit")
    BY <2>1, <2>3 DEF Walked, NoneWaited
  <2> QED  BY <1>0, <2>2, <2>3
<1> QED  BY <1>2, <1>3, <1>4, <1>5 DEF Walked

\* When the order leaves nothing open, the walk ends with the visits.
LEMMA WalkedThrough ==
  ASSUME NEW w, NEW M, Passages(M), \A m, n \in M : Precedes(w, m, n) <=> Before(m, n),
         NEW S, NEW Q, Walked(w, M, S, Q)
  PROVE  Visits(M, Q)
<1>0. \A q \in Q : q[1] \in M /\ q[2] \in M /\ q[1].type = "entry" /\ q[2].type = "exit"
  BY DEF Walked, Matched, Of
<1>1. /\ Q \subseteq Of(M, "entry") \X Of(M, "exit")
      /\ \A p, q \in Q : p[1] = q[1] \/ p[2] = q[2] => p = q
  BY DEF Walked, Matched
<1>2. \A q \in Q : Before(q[1], q[2])
  <2>1. SUFFICES ASSUME NEW q \in Q PROVE Before(q[1], q[2])
    OBVIOUS
  <2>2. q[1] # q[2] /\ ~Before(q[2], q[1])
    BY <1>0 DEF Walked, Matched
  <2> QED  BY <1>0, <2>2, Ordered
<1>3. ASSUME NEW p \in Q, NEW m \in M, Before(p[1], m), Before(m, p[2])
      PROVE  \E q \in Q : (m = q[1] \/ m = q[2]) /\ Before(p[1], q[1]) /\ Before(q[2], p[2])
  <2>1. PICK q \in Q : (m = q[1] \/ m = q[2]) /\ ~Before(q[1], p[1]) /\ ~Before(p[2], q[2])
    BY <1>0, <1>3 DEF Walked, Nested
  <2>2. m # p[1] /\ m # p[2]
    BY <1>0, <1>3, Ordered
  <2>3. q # p
    BY <2>1, <2>2
  <2>4. q[1] # p[1] /\ q[2] # p[2]
    BY <1>1, <2>3
  <2>5. Before(p[1], q[1]) /\ Before(q[2], p[2])
    BY <1>0, <2>1, <2>4, Ordered
  <2> QED  BY <2>1, <2>5
<1>4. ASSUME NEW x \in Of(M, "exit"), NEW e \in Of(M, "entry"), Before(e, x), ~InVisit(Q, x)
      PROVE  \E q \in Q : q[1] = e /\ Before(q[2], x)
  <2>0. x \in M /\ e \in M
    BY DEF Of
  <2>1. PICK q \in Q : q[1] = e /\ ~Before(x, q[2])
    BY <1>0, <1>4, <2>0 DEF Walked, NoneWaited
  <2>2. q[2] # x
    BY <1>4 DEF InVisit
  <2>3. Before(q[2], x)
    BY <1>0, <2>0, <2>1, <2>2, Ordered
  <2> QED  BY <2>1, <2>3
<1> QED  BY <1>1, <1>2, <1>3, <1>4 DEF Visits

-----------------------------------------------------------------------------
(* The invariant.                                                          *)

Walks == {"reconcile", "report"}
Done == movements \ left

Typed ==
    /\ movements \subseteq Movement /\ IsFiniteSet(movements)
    /\ \A m \in movements : m.id <= Cardinality(movements)
    /\ \A m, n \in movements : m.id = n.id => m = n
    /\ phase \in {"arrivals", "reconcile", "report", "done"}
    /\ status \in [Ids -> {"open", "closed"}] /\ staged \in [Ids -> {"open", "closed"}]
    /\ left \subseteq movements
    /\ pairs \in [Walks -> SUBSET (movements \X movements)]

\* A walk takes the movements in order, and its matching grows with it.
TakenInOrder(w) ==
    /\ \A d \in Done, l \in left : ~Precedes(w, l, d)
    /\ Walked(w, Done, openEntries, pairs[w])

Walking ==
    /\ phase = "arrivals" => left = {} /\ openEntries = <<>> /\ \A w \in Walks : pairs[w] = {}
    /\ phase = "reconcile" => TakenInOrder("reconcile") /\ pairs["report"] = {}
    /\ phase \in {"report", "done"} => TakenInOrder("report") /\ Visits(movements, pairs["reconcile"])
    /\ phase = "done" => left = {}

\* The entities of reconcile differ from the rows where it paired them.
Staging ==
    phase = "reconcile" =>
        \A i \in Ids :
            staged[i] = IF \E m \in movements : m.id = i /\ InVisit(pairs["reconcile"], m)
                        THEN "closed" ELSE status[i]

\* The statuses that closing visits as they end leaves behind.
ClosedAsTheyEnd ==
    \E Q : /\ Visits(movements, Q)
          /\ \A m \in movements :
                status[m.id] = IF m.type = "exit" \/ InVisit(Q, m) THEN "closed" ELSE "open"

Arrivals ==
    ordered => /\ \A m, n \in movements : m.time = n.time => m = n
               /\ phase \in {"arrivals", "reconcile"} => ClosedAsTheyEnd

IInv == Typed /\ Walking /\ Staging /\ Arrivals

LEMMA Group ==
  ASSUME Typed PROVE Passages(movements)
BY VisitAssumption DEF Typed, Passages, Movement, Ids, Times

LEMMA InitInv == Init => IInv
<1>1. SUFFICES ASSUME Init PROVE IInv
  OBVIOUS
<1>2. /\ movements = {} /\ status = [i \in Ids |-> "open"] /\ ordered = TRUE /\ phase = "arrivals"
      /\ left = {} /\ openEntries = <<>> /\ staged = [i \in Ids |-> "open"]
      /\ pairs = [w \in Walks |-> {}]
  BY <1>1 DEF Init, Walks
<1>3. Typed
  BY <1>2, FS_EmptySet DEF Typed, Walks
<1>4. Walking /\ Staging
  BY <1>2 DEF Walking, Staging, Walks
<1>5. Visits({}, {})
  BY DEF Visits, Of
<1>6. Arrivals
  BY <1>2, <1>5 DEF Arrivals, ClosedAsTheyEnd
<1> QED  BY <1>3, <1>4, <1>6 DEF IInv

-----------------------------------------------------------------------------
(* Movements arrive.                                                       *)

\* A movement after all others: an exit that closes the latest open entry, an
\* exit that finds none, or an entry.
LEMMA VisitsExtend ==
  ASSUME NEW M, NEW m, m \notin M, Passages(M \cup {m}), NEW Q, Visits(M, Q),
         \A n \in M : Before(n, m)
  PROVE  /\ m.type = "entry" => Visits(M \cup {m}, Q)
         /\ m.type = "exit" /\ (\A e \in Of(M, "entry") : InVisit(Q, e)) => Visits(M \cup {m}, Q)
         /\ \A e \in Of(M, "entry") :
               /\ m.type = "exit" /\ ~InVisit(Q, e)
               /\ \A f \in Of(M, "entry") : ~InVisit(Q, f) => ~Before(e, f)
               => Visits(M \cup {m}, Q \cup {<<e, m>>})
<1> DEFINE N == M \cup {m}
<1>0. /\ \A q \in Q : /\ q \in Of(M, "entry") \X Of(M, "exit") /\ q[1] \in M /\ q[2] \in M
                      /\ q[1].type = "entry" /\ q[2].type = "exit" /\ Before(q[1], q[2])
      /\ \A n \in M : n \in N /\ ~Before(m, n)
      /\ ~Before(m, m)
      /\ Of(M, "entry") \subseteq Of(N, "entry") /\ Of(M, "exit") \subseteq Of(N, "exit")
  <2>1. \A n \in M : ~Before(m, n)
    BY Ordered
  <2>2. ~Before(m, m)
    BY Ordered
  <2>3. \A q \in Q : q \in Of(M, "entry") \X Of(M, "exit") /\ Before(q[1], q[2])
    BY DEF Visits
  <2> QED  BY <2>1, <2>2, <2>3 DEF Of
<1>1. /\ Q \subseteq Of(N, "entry") \X Of(N, "exit")
      /\ \A p, q \in Q : p[1] = q[1] \/ p[2] = q[2] => p = q
      /\ \A p \in Q, n \in N : Before(p[1], n) /\ Before(n, p[2]) =>
             \E q \in Q : (n = q[1] \/ n = q[2]) /\ Before(p[1], q[1]) /\ Before(q[2], p[2])
  <2>1. Q \subseteq Of(N, "entry") \X Of(N, "exit")
    <3> HIDE DEF N
    <3> QED  BY <1>0
  <2>2. \A p \in Q, n \in N : Before(p[1], n) /\ Before(n, p[2]) => n \in M
    BY <1>0
  <2> HIDE DEF N
  <2> QED  BY <2>1, <2>2 DEF Visits
<1>2. \A x \in Of(M, "exit"), e \in Of(M, "entry") :
          Before(e, x) /\ ~InVisit(Q, x) => \E q \in Q : q[1] = e /\ Before(q[2], x)
  BY DEF Visits
<1>3. ASSUME m.type = "entry" PROVE Visits(N, Q)
  <2>1. ASSUME NEW x \in Of(N, "exit"), NEW e \in Of(N, "entry"), Before(e, x), ~InVisit(Q, x)
        PROVE  \E q \in Q : q[1] = e /\ Before(q[2], x)
    <3>1. x \in Of(M, "exit")
      BY <1>3 DEF Of
    <3>2. e \in Of(M, "entry")
      BY <1>0, <2>1, <3>1 DEF Of
    <3> QED  BY <1>2, <2>1, <3>1, <3>2
  <2> HIDE DEF N
  <2> QED  BY <1>0, <1>1, <2>1 DEF Visits
<1>4. ASSUME m.type = "exit", \A e \in Of(M, "entry") : InVisit(Q, e) PROVE Visits(N, Q)
  <2>1. ASSUME NEW x \in Of(N, "exit"), NEW e \in Of(N, "entry"), Before(e, x), ~InVisit(Q, x)
        PROVE  \E q \in Q : q[1] = e /\ Before(q[2], x)
    <3>1. e \in Of(M, "entry") /\ e.type = "entry"
      BY <1>4 DEF Of
    <3>2. CASE x \in Of(M, "exit")
      BY <1>2, <2>1, <3>1, <3>2
    <3>3. CASE x = m
      <4>1. PICK q \in Q : e = q[1]
        BY <1>0, <1>4, <3>1 DEF InVisit
      <4> QED  BY <1>0, <3>3, <4>1
    <3> QED  BY <3>2, <3>3 DEF Of
  <2> HIDE DEF N
  <2> QED  BY <1>0, <1>1, <2>1 DEF Visits
<1>5. ASSUME NEW e \in Of(M, "entry"), m.type = "exit", ~InVisit(Q, e),
             \A f \in Of(M, "entry") : ~InVisit(Q, f) => ~Before(e, f)
      PROVE  Visits(N, Q \cup {<<e, m>>})
  <2> DEFINE R == Q \cup {<<e, m>>}
             new == <<e, m>>
  <2>0. /\ e \in M /\ e \in N /\ m \in N /\ e \in Of(N, "entry") /\ m \in Of(N, "exit") /\ Before(e, m)
        /\ new[1] = e /\ new[2] = m
    BY <1>5 DEF Of
  <2>1. Q \subseteq R /\ new \in R /\ \A r \in R : r \in Q \/ r = new
    OBVIOUS
  <2>2. \A q \in Q : q[1] # e /\ q[2] # m
    BY <1>0, <1>5 DEF InVisit
  <2> HIDE DEF R, new, N
  <2>3. R \subseteq Of(N, "entry") \X Of(N, "exit")
    BY <1>1, <2>0, <2>1 DEF new
  <2>4. \A r \in R : Before(r[1], r[2])
    BY <1>0, <2>0, <2>1
  <2>5. \A p, q \in R : p[1] = q[1] \/ p[2] = q[2] => p = q
    BY <1>1, <2>0, <2>1, <2>2
  <2>6. ASSUME NEW p \in R, NEW n \in N, Before(p[1], n), Before(n, p[2])
        PROVE  \E q \in R : (n = q[1] \/ n = q[2]) /\ Before(p[1], q[1]) /\ Before(q[2], p[2])
    <3>1. CASE p \in Q
      BY <1>1, <2>1, <2>6, <3>1
    <3>2. CASE p = new
      <4>1. n \in M /\ n.type \in {"entry", "exit"} /\ Before(e, n)
        BY <1>0, <2>0, <2>6, <3>2 DEF N, Passages
      <4>2. InVisit(Q, n)
        <5>1. CASE n.type = "entry"
          BY <1>5, <4>1, <5>1 DEF Of
        <5>2. CASE n.type = "exit"
          <6>1. SUFFICES ASSUME ~InVisit(Q, n) PROVE FALSE
            OBVIOUS
          <6>2. \E q \in Q : q[1] = e
            BY <1>2, <4>1, <5>2, <6>1 DEF Of
          <6> QED  BY <2>2, <6>2
        <5> QED  BY <4>1, <5>1, <5>2
      <4>3. PICK q \in Q : n = q[1] \/ n = q[2]
        BY <4>2 DEF InVisit
      <4>4. ~Before(q[1], e)
        <5>1. SUFFICES ASSUME Before(q[1], e), n = q[2] PROVE FALSE
          <6>1. Passages(N)
            BY DEF N
          <6> QED  BY <1>0, <2>0, <4>1, <4>3, <6>1, Ordered
        <5>2. \E r \in Q : e = r[1] \/ e = r[2]
          BY <1>1, <2>0, <4>1, <5>1
        <5> QED  BY <1>5, <5>2 DEF InVisit
      <4>5. Before(e, q[1]) /\ Before(q[2], m)
        <5>1. Passages(N) /\ q[1] \in N /\ q[1] # e
          BY <1>0, <2>2 DEF N
        <5> QED  BY <1>0, <2>0, <4>4, <5>1, Ordered
      <4> QED  BY <2>0, <2>1, <3>2, <4>3, <4>5
    <3> QED  BY <2>1, <3>1, <3>2
  <2>7. ASSUME NEW x \in Of(N, "exit"), NEW f \in Of(N, "entry"), Before(f, x), ~InVisit(R, x)
        PROVE  \E q \in R : q[1] = f /\ Before(q[2], x)
    <3>1. x # m /\ ~InVisit(Q, x)
      BY <2>0, <2>1, <2>7 DEF InVisit
    <3>2. x \in Of(M, "exit") /\ f \in Of(M, "entry")
      BY <1>5, <3>1 DEF Of, N
    <3> QED  BY <1>2, <2>1, <2>7, <3>1, <3>2
  <2>8. Visits(N, R)
    BY <2>3, <2>4, <2>5, <2>6, <2>7 DEF Visits
  <2> QED  BY <2>8 DEF R, new
<1> QED  BY <1>3, <1>4, <1>5

LEMMA ObservedClosed ==
  ASSUME Typed, Arrivals, NEW m \in Movement, Observed(m), ordered', Passages(movements \cup {m})
  PROVE  (\A x, y \in movements' : x.time = y.time => x = y) /\ ClosedAsTheyEnd'
<1>0. /\ ordered /\ phase = "arrivals" /\ movements' = movements \cup {m}
      /\ m.id = Cardinality(movements) + 1
      /\ \A x \in movements : x.time < m.time
  BY DEF Observed, Arrive
<1>1. /\ \A x, y \in movements : x.time = y.time => x = y
      /\ \A x \in movements : /\ x.time \in Nat /\ x.id \in Ids /\ x.id # m.id /\ x \in movements'
                            /\ x.type \in {"entry", "exit"}
      /\ m.time \in Nat /\ m.type \in {"entry", "exit"} /\ m.id \in Ids /\ m \in movements'
      /\ status \in [Ids -> {"open", "closed"}]
      /\ \A x, y \in movements : x.id = y.id => x = y
  <2>1. IsFiniteSet(movements) /\ Cardinality(movements) \in Nat
    BY FS_CardinalityType DEF Typed
  <2>2. \A x \in movements : x \in Movement /\ x.id <= Cardinality(movements)
    BY DEF Typed
  <2>3. \A x \in Movement : x.time \in Nat /\ x.id \in Ids /\ x.id \in Nat /\ x.type \in {"entry", "exit"}
    BY VisitAssumption DEF Movement, Ids, Times
  <2>4. \A x \in movements : x.id # m.id
    BY <1>0, <2>1, <2>2, <2>3
  <2> QED  BY <1>0, <2>2, <2>3, <2>4 DEF Arrivals, Typed
<1>2. \A x, y \in movements' : x.time = y.time => x = y
  BY <1>0, <1>1
<1>3. m \notin movements
  BY <1>1
<1>4. PICK Q : /\ Visits(movements, Q)
               /\ \A x \in movements :
                     status[x.id] = IF x.type = "exit" \/ InVisit(Q, x) THEN "closed" ELSE "open"
  BY <1>0 DEF Arrivals, ClosedAsTheyEnd
<1>5. \A x \in movements : Before(x, m)
  BY <1>0 DEF Before
<1>6. OpenUntil(m.time) = {e \in Of(movements, "entry") : ~InVisit(Q, e)}
  <2>1. \A e \in Of(movements, "entry") : e \in movements /\ e.type = "entry" /\ e.time <= m.time
    BY <1>0, <1>1 DEF Of
  <2>2. \A e \in Of(movements, "entry") : status[e.id] = "open" <=> ~InVisit(Q, e)
    BY <1>4, <2>1
  <2> QED  BY <2>1, <2>2 DEF OpenUntil
<1>7. /\ m.type = "entry" => Visits(movements', Q)
      /\ m.type = "exit" /\ (\A e \in Of(movements, "entry") : InVisit(Q, e)) => Visits(movements', Q)
      /\ \A e \in Of(movements, "entry") :
            /\ m.type = "exit" /\ ~InVisit(Q, e)
            /\ \A f \in Of(movements, "entry") : ~InVisit(Q, f) => ~Before(e, f)
            => Visits(movements', Q \cup {<<e, m>>})
  BY <1>0, <1>3, <1>4, <1>5, VisitsExtend
<1>8. ~InVisit(Q, m)
  <2>1. \A q \in Q : q[1] \in movements /\ q[2] \in movements
    BY <1>4 DEF Visits, Of
  <2> QED  BY <1>3, <2>1 DEF InVisit
<1>9. CASE m.type = "entry" /\ status' = [status EXCEPT ![m.id] = "open"]
  <2>1. \A x \in movements' :
           status'[x.id] = IF x.type = "exit" \/ InVisit(Q, x) THEN "closed" ELSE "open"
    BY <1>0, <1>1, <1>4, <1>8, <1>9
  <2> QED  BY <1>2, <1>7, <1>9, <2>1 DEF ClosedAsTheyEnd
<1>10. CASE m.type = "exit" /\ OpenUntil(m.time) = {} /\ status' = [status EXCEPT ![m.id] = "closed"]
  <2>1. \A x \in movements' :
           status'[x.id] = IF x.type = "exit" \/ InVisit(Q, x) THEN "closed" ELSE "open"
    BY <1>0, <1>1, <1>4, <1>10
  <2> QED  BY <1>2, <1>6, <1>7, <1>10, <2>1 DEF ClosedAsTheyEnd
<1>11. ASSUME m.type = "exit", NEW e \in LatestOpen(m.time),
              status' = [status EXCEPT ![m.id] = "closed", ![e.id] = "closed"]
       PROVE  ClosedAsTheyEnd'
  <2>1. /\ e \in Of(movements, "entry") /\ e \in movements /\ ~InVisit(Q, e)
        /\ \A f \in Of(movements, "entry") : ~InVisit(Q, f) => f.time <= e.time /\ f \in movements
    BY <1>6 DEF LatestOpen, Of
  <2>2. \A f \in Of(movements, "entry") : ~InVisit(Q, f) => ~Before(e, f)
    BY <1>1, <2>1, VisitAssumption DEF Before, Ids
  <2> DEFINE R == Q \cup {<<e, m>>}
  <2>3. Visits(movements', R)
    BY <1>7, <1>11, <2>1, <2>2
  <2>4. \A x : InVisit(R, x) <=> InVisit(Q, x) \/ x = e \/ x = m
    <3>1. <<e, m>>[1] = e /\ <<e, m>>[2] = m
      OBVIOUS
    <3> QED  BY <3>1 DEF InVisit
  <2> HIDE DEF R
  <2>5. \A x \in movements' :
           status'[x.id] = IF x.type = "exit" \/ InVisit(R, x) THEN "closed" ELSE "open"
    <3>1. SUFFICES ASSUME NEW x \in movements'
                   PROVE  status'[x.id] = IF x.type = "exit" \/ InVisit(R, x) THEN "closed" ELSE "open"
      OBVIOUS
    <3>2. CASE x = m
      BY <1>1, <1>11, <2>1, <3>2
    <3>3. CASE x = e
      BY <1>1, <1>11, <2>1, <2>4, <3>3
    <3>4. CASE x \in movements /\ x # e
      BY <1>1, <1>4, <1>11, <2>1, <2>4, <3>4
    <3> QED  BY <1>0, <3>2, <3>3, <3>4
  <2> QED  BY <2>3, <2>5 DEF ClosedAsTheyEnd
<1> QED  BY <1>2, <1>9, <1>10, <1>11 DEF Observed, CloseUnitVisit

LEMMA ArrivalStep ==
  ASSUME IInv, NEW m \in Movement, Observed(m) \/ \E s \in {"open", "closed"} : Manual(m, s)
  PROVE  IInv'
<1>0. /\ phase = "arrivals" /\ movements' = movements \cup {m} /\ m.id = Cardinality(movements) + 1
      /\ phase' = phase /\ left' = left /\ openEntries' = openEntries /\ staged' = staged /\ pairs' = pairs
  BY DEF Observed, Manual, Arrive
<1>1. /\ IsFiniteSet(movements) /\ Cardinality(movements) \in Nat /\ m \notin movements
      /\ IsFiniteSet(movements') /\ Cardinality(movements') = Cardinality(movements) + 1
  <2>1. IsFiniteSet(movements) /\ Cardinality(movements) \in Nat
    BY FS_CardinalityType DEF IInv, Typed
  <2>2. m \notin movements
    BY <1>0, <2>1 DEF IInv, Typed
  <2> QED  BY <1>0, <2>1, <2>2, FS_AddElement
<1>2. status' \in [Ids -> {"open", "closed"}]
  <2>1. status \in [Ids -> {"open", "closed"}]
    BY DEF IInv, Typed
  <2>2. CASE Observed(m)
    BY <2>1, <2>2 DEF Observed, CloseUnitVisit
  <2>3. CASE \E s \in {"open", "closed"} : Manual(m, s)
    BY <2>1, <2>3 DEF Manual
  <2> QED  BY <2>2, <2>3
<1>3. Typed'
  <2>1. movements' \subseteq Movement
    BY <1>0 DEF IInv, Typed
  <2>2. \A x \in movements' : x.id <= Cardinality(movements')
    <3>1. \A x \in movements : x.id \in Nat /\ x.id <= Cardinality(movements)
      BY VisitAssumption DEF IInv, Typed, Movement, Ids
    <3> QED  BY <1>0, <1>1, <3>1
  <2>3. \A x, y \in movements' : x.id = y.id => x = y
    <3>1. \A x \in movements : x.id \in Nat /\ x.id <= Cardinality(movements)
      BY VisitAssumption DEF IInv, Typed, Movement, Ids
    <3>2. \A x, y \in movements : x.id = y.id => x = y
      BY DEF IInv, Typed
    <3> QED  BY <1>0, <1>1, <3>1, <3>2
  <2>4. pairs' \in [Walks -> SUBSET (movements' \X movements')]
    <3>1. pairs \in [Walks -> SUBSET (movements \X movements)]
      BY DEF IInv, Typed
    <3>2. SUBSET (movements \X movements) \subseteq SUBSET (movements' \X movements')
      BY <1>0
    <3> QED  BY <1>0, <3>1, <3>2
  <2> QED  BY <1>0, <1>1, <1>2, <2>1, <2>2, <2>3, <2>4 DEF IInv, Typed
<1>4. Walking' /\ Staging'
  BY <1>0 DEF IInv, Walking, Staging
<1>5. Arrivals'
  <2>1. SUFFICES ASSUME ordered' PROVE Arrivals'
    BY DEF Arrivals
  <2>2. Observed(m)
    BY <2>1 DEF Manual
  <2>3. Passages(movements \cup {m})
    BY <1>0, <1>3, VisitAssumption DEF Typed, Passages, Movement, Ids, Times
  <2> QED  BY <2>1, <2>2, <2>3, ObservedClosed DEF IInv, Arrivals
<1> QED  BY <1>3, <1>4, <1>5 DEF IInv

-----------------------------------------------------------------------------
(* The walks.                                                              *)

LEMMA StartStep ==
  ASSUME IInv, Start PROVE IInv'
<1>0. /\ phase = "arrivals" /\ phase' = "reconcile" /\ left' = movements /\ staged' = status
      /\ UNCHANGED <<movements, status, ordered, openEntries, pairs>>
  BY DEF Start
<1>1. Typed'
  BY <1>0 DEF IInv, Typed
<1>2. Done' = {} /\ openEntries' = <<>> /\ \A w \in Walks : pairs'[w] = {}
  BY <1>0 DEF IInv, Walking, Done
<1>3. Walked("reconcile", Done', openEntries', pairs'["reconcile"])
  BY <1>2, Started DEF Walks
<1>4. Walking'
  BY <1>0, <1>2, <1>3 DEF Walking, TakenInOrder, Walks
<1>5. Staging'
  BY <1>0, <1>2 DEF Staging, InVisit, Walks
<1>6. Arrivals'
  <2>1. ClosedAsTheyEnd => ClosedAsTheyEnd'
    BY <1>0 DEF ClosedAsTheyEnd
  <2> QED  BY <1>0, <2>1 DEF IInv, Arrivals
<1> QED  BY <1>1, <1>4, <1>5, <1>6 DEF IInv

\* What every step of a walk shares: the next movement is taken.
LEMMA TakeStep ==
  ASSUME IInv, NEW m \in left, Take(m)
  PROVE  /\ phase \in Walks /\ TakenInOrder(phase) /\ phase' = phase /\ m \in movements
         /\ Comes(phase, movements, Done, m) /\ Done' = Done \cup {m}
         /\ \A d \in Done', l \in left' : ~Precedes(phase, l, d)
         /\ pairs \in [Walks -> SUBSET (movements \X movements)]
<1>0. /\ left' = left \ {m} /\ IsNext(m) /\ UNCHANGED <<movements, status, ordered, phase>>
      /\ left \subseteq movements /\ m \in movements
  BY DEF Take, IInv, Typed
<1>1. Passages(movements)
  BY Group DEF IInv
<1>2. phase \in Walks /\ TakenInOrder(phase)
  BY <1>0 DEF IInv, Typed, Walking, IsNext, Walks
<1>3. \A l \in left : ~Precedes(phase, l, m)
  <2>1. SUFFICES ASSUME NEW l \in left PROVE ~Precedes(phase, l, m)
    OBVIOUS
  <2>2. m.time \in Nat /\ l.time \in Nat /\ l \in movements
    BY <1>0, <1>1 DEF Passages
  <2>3. CASE phase = "reconcile"
    <3>1. m = l \/ Before(m, l)
      BY <1>0, <2>3 DEF IsNext
    <3> QED  BY <1>0, <1>1, <2>2, <2>3, <3>1, Ordered DEF Precedes
  <2>4. CASE phase = "report"
    BY <1>0, <2>2, <2>4 DEF IsNext, Precedes
  <2> QED  BY <1>2, <2>3, <2>4 DEF Walks
<1>4. Done' = Done \cup {m} /\ m \notin Done /\ Done \in SUBSET movements
  BY <1>0 DEF Done
<1>5. \A d \in Done, l \in left : ~Precedes(phase, l, d)
  BY <1>2 DEF TakenInOrder
<1> QED  BY <1>0, <1>1, <1>2, <1>3, <1>4, <1>5 DEF Comes, IInv, Typed

\* The rest of the invariant after a step that takes a movement.
LEMMA WalkStep ==
  ASSUME IInv, NEW m \in left, Take(m), pairs' \in [Walks -> SUBSET (movements \X movements)],
         staged' \in [Ids -> {"open", "closed"}],
         \A w \in Walks \ {phase} : pairs'[w] = pairs[w],
         Walked(phase, Done \cup {m}, openEntries', pairs'[phase]), Staging'
  PROVE  IInv'
<1>0. /\ left' = left \ {m} /\ UNCHANGED <<movements, status, ordered, phase>>
  BY DEF Take
<1>1. /\ phase \in Walks /\ Done' = Done \cup {m}
      /\ \A d \in Done', l \in left' : ~Precedes(phase, l, d)
  BY TakeStep
<1>2. Typed'
  BY <1>0 DEF IInv, Typed
<1>3. \A d \in Done', l \in left' : ~Precedes(phase', l, d)
  BY <1>0, <1>1
<1>4. Walked(phase', Done', openEntries', pairs'[phase'])
  BY <1>0, <1>1
<1>5. Walking'
  <2>1. CASE phase = "reconcile"
    <3>1. TakenInOrder("reconcile")'
      BY <1>0, <1>3, <1>4, <2>1 DEF TakenInOrder
    <3>2. pairs'["report"] = {}
      BY <2>1 DEF IInv, Walking, Walks
    <3> QED  BY <1>0, <2>1, <3>1, <3>2 DEF Walking
  <2>2. CASE phase = "report"
    <3>1. TakenInOrder("report")'
      BY <1>0, <1>3, <1>4, <2>2 DEF TakenInOrder
    <3>2. pairs'["reconcile"] = pairs["reconcile"] /\ Visits(movements, pairs["reconcile"])
      BY <2>2 DEF IInv, Walking, Walks
    <3> QED  BY <1>0, <2>2, <3>1, <3>2 DEF Walking
  <2> QED  BY <1>1, <2>1, <2>2 DEF Walks
<1>6. Arrivals'
  <2>1. ClosedAsTheyEnd => ClosedAsTheyEnd'
    BY <1>0 DEF ClosedAsTheyEnd
  <2> QED  BY <1>0, <2>1 DEF IInv, Arrivals
<1> QED  BY <1>2, <1>5, <1>6 DEF IInv

LEMMA PushStep ==
  ASSUME IInv, NEW m \in left, Push(m) PROVE IInv'
<1>0. /\ Take(m) /\ m.type = "entry" /\ openEntries' = Append(openEntries, m)
      /\ UNCHANGED <<staged, pairs>> /\ UNCHANGED <<movements, status, phase>>
  BY DEF Push, Take
<1>1. /\ TakenInOrder(phase) /\ Comes(phase, movements, Done, m)
      /\ pairs \in [Walks -> SUBSET (movements \X movements)]
  BY <1>0, TakeStep
<1>2. Walked(phase, Done \cup {m}, openEntries', pairs'[phase])
  BY <1>0, <1>1, Pushed DEF TakenInOrder
<1>3. Staging'
  BY <1>0 DEF IInv, Staging
<1>4. staged' \in [Ids -> {"open", "closed"}]
  BY <1>0 DEF IInv, Typed
<1> QED  BY <1>0, <1>1, <1>2, <1>3, <1>4, WalkStep

LEMMA UnmatchedStep ==
  ASSUME IInv, NEW m \in left, Unmatched(m) PROVE IInv'
<1>0. /\ Take(m) /\ m.type = "exit" /\ openEntries = <<>>
      /\ UNCHANGED <<openEntries, staged, pairs>> /\ UNCHANGED <<movements, status, phase>>
  BY DEF Unmatched, Take
<1>1. /\ TakenInOrder(phase) /\ Comes(phase, movements, Done, m)
      /\ pairs \in [Walks -> SUBSET (movements \X movements)]
  BY <1>0, TakeStep
<1>2. Walked(phase, Done \cup {m}, openEntries', pairs'[phase])
  BY <1>0, <1>1, LeftAlone DEF TakenInOrder
<1>3. Staging'
  BY <1>0 DEF IInv, Staging
<1>4. staged' \in [Ids -> {"open", "closed"}]
  BY <1>0 DEF IInv, Typed
<1> QED  BY <1>0, <1>1, <1>2, <1>3, <1>4, WalkStep

LEMMA PairStep ==
  ASSUME IInv, NEW m \in left, Pair(m) PROVE IInv'
<1> DEFINE e == openEntries[Len(openEntries)]
<1>0. /\ Take(m) /\ m.type = "exit" /\ openEntries # <<>>
      /\ openEntries' = SubSeq(openEntries, 1, Len(openEntries) - 1)
      /\ pairs' = [pairs EXCEPT ![phase] = @ \cup {<<e, m>>}]
      /\ staged' = IF phase = "reconcile"
                   THEN [i \in Ids |-> IF i \in {e.id, m.id} THEN "closed" ELSE staged[i]]
                   ELSE staged
      /\ UNCHANGED <<movements, status, phase>>
  BY DEF Pair, Take, Stage
<1>1. /\ phase \in Walks /\ TakenInOrder(phase) /\ Comes(phase, movements, Done, m) /\ m \in movements
      /\ pairs \in [Walks -> SUBSET (movements \X movements)]
  BY <1>0, TakeStep
<1>2. /\ e \in Of(Done, "entry")
      /\ Walked(phase, Done \cup {m}, openEntries', pairs[phase] \cup {<<e, m>>})
  BY <1>0, <1>1, PairedUp DEF TakenInOrder
<1>3. e \in movements
  BY <1>2 DEF Of, Done
<1> HIDE DEF e
<1>4. /\ pairs'[phase] = pairs[phase] \cup {<<e, m>>}
      /\ \A w \in Walks \ {phase} : pairs'[w] = pairs[w]
      /\ pairs' \in [Walks -> SUBSET (movements \X movements)]
  BY <1>0, <1>1, <1>3
<1>5. staged' \in [Ids -> {"open", "closed"}]
  BY <1>0 DEF IInv, Typed
<1>6. Staging'
  <2>1. SUFFICES ASSUME phase = "reconcile", NEW i \in Ids
                 PROVE  staged'[i] = IF \E n \in movements : n.id = i /\ InVisit(pairs'["reconcile"], n)
                                     THEN "closed" ELSE status[i]
    BY <1>0 DEF Staging
  <2>2. \A n : InVisit(pairs'["reconcile"], n) <=> InVisit(pairs["reconcile"], n) \/ n = e \/ n = m
    <3>1. <<e, m>>[1] = e /\ <<e, m>>[2] = m
      OBVIOUS
    <3> QED  BY <1>4, <2>1, <3>1 DEF InVisit
  <2>3. staged[i] = IF \E n \in movements : n.id = i /\ InVisit(pairs["reconcile"], n)
                    THEN "closed" ELSE status[i]
    BY <2>1 DEF IInv, Staging
  <2>4. staged'[i] = IF i \in {e.id, m.id} THEN "closed" ELSE staged[i]
    BY <1>0, <2>1
  <2>5. CASE i \in {e.id, m.id}
    BY <1>1, <1>3, <2>2, <2>4, <2>5
  <2>6. CASE i \notin {e.id, m.id}
    BY <1>1, <1>3, <2>2, <2>3, <2>4, <2>6
  <2> QED  BY <2>5, <2>6
<1> QED  BY <1>0, <1>2, <1>4, <1>5, <1>6, WalkStep

LEMMA ReportStep ==
  ASSUME IInv, Report PROVE IInv'
<1>0. /\ phase = "report" /\ left = {} /\ phase' = "done"
      /\ UNCHANGED <<movements, status, ordered, left, openEntries, staged, pairs>>
  BY DEF Report
<1>1. TakenInOrder("report") => TakenInOrder("report")'
  BY <1>0 DEF TakenInOrder, Done
<1> QED  BY <1>0, <1>1 DEF IInv, Typed, Walking, Staging, Arrivals

\* Where the walk of reconcile ends: visits are closed, the entries that wait
\* are open and the exits without entry keep their status.
LEMMA SaveGives ==
  ASSUME IInv, Save
  PROVE  /\ Visits(movements, pairs["reconcile"]) /\ phase = "reconcile"
         /\ \A m \in movements : status'[m.id] = ReconciledStatus(movements, m, status[m.id])
         /\ \A i \in Ids : (\A m \in movements : m.id # i) => status'[i] = status[i]
<1> DEFINE Q == pairs["reconcile"]
           waiting == {openEntries[k].id : k \in 1 .. Len(openEntries)}
<1>0. /\ phase = "reconcile" /\ left = {} /\ status' = staged'
      /\ staged' = [i \in Ids |-> IF i \in waiting THEN "open" ELSE staged[i]]
  BY DEF Save, Reopen, Stage
<1>1. Passages(movements) /\ Done = movements /\ Walked("reconcile", movements, openEntries, Q)
  BY <1>0, Group DEF IInv, Walking, TakenInOrder, Done
<1>2. Visits(movements, Q)
  BY <1>1, WalkedThrough DEF Precedes
<1>3. /\ \A m, n \in movements : m.id = n.id => m = n
      /\ \A m \in movements : m.id \in Ids /\ m.type \in {"entry", "exit"}
  BY DEF IInv, Typed, Movement
<1>4. \A k \in 1 .. Len(openEntries) :
         /\ openEntries[k] \in movements /\ openEntries[k].type = "entry"
         /\ ~InVisit(Q, openEntries[k])
  <2>1. SUFFICES ASSUME NEW k \in 1 .. Len(openEntries)
                 PROVE  /\ openEntries[k] \in Of(movements, "entry") /\ ~InVisit(Q, openEntries[k])
    BY DEF Of
  <2>2. openEntries[k] \in Of(movements, "entry")
    BY <1>1, ElementOfSeq DEF Walked, Stacked
  <2>3. \A q \in Q : openEntries[k] # q[1]
    BY <1>1 DEF Walked, Stacked
  <2>4. \A q \in Q : q[2].type = "exit"
    BY <1>2 DEF Visits, Of
  <2> QED  BY <2>2, <2>3, <2>4 DEF InVisit, Of
<1>5. \A e \in Of(movements, "entry") : InVisit(Q, e) \/ \E k \in 1 .. Len(openEntries) : e = openEntries[k]
  BY <1>1 DEF Walked, Stacked, InVisit
<1>6. \A i \in Ids :
         staged[i] = IF \E m \in movements : m.id = i /\ InVisit(Q, m) THEN "closed" ELSE status[i]
  BY <1>0 DEF IInv, Staging
<1>7. ASSUME NEW m \in movements PROVE status'[m.id] = ReconciledStatus(movements, m, status[m.id])
  <2>1. Paired(movements, m) <=> InVisit(Q, m)
    BY <1>1, <1>2, VisitsCounted
  <2>2. m.id \in waiting <=> \E k \in 1 .. Len(openEntries) : m = openEntries[k]
    BY <1>3, <1>4
  <2> HIDE DEF waiting
  <2>3. CASE InVisit(Q, m)
    <3>1. m.id \notin waiting
      BY <1>4, <2>2, <2>3
    <3>2. status'[m.id] = "closed"
      BY <1>0, <1>3, <1>6, <2>3, <3>1
    <3> QED  BY <2>1, <2>3, <3>2 DEF ReconciledStatus
  <2>4. CASE ~InVisit(Q, m) /\ m.type = "entry"
    <3>1. m.id \in waiting
      BY <1>5, <2>2, <2>4 DEF Of
    <3>2. status'[m.id] = "open"
      BY <1>0, <1>3, <3>1
    <3> QED  BY <2>1, <2>4, <3>2 DEF ReconciledStatus
  <2>5. CASE ~InVisit(Q, m) /\ m.type = "exit"
    <3>1. m.id \notin waiting
      BY <1>4, <2>2, <2>5
    <3>2. ~ \E n \in movements : n.id = m.id /\ InVisit(Q, n)
      BY <1>3, <2>5
    <3>3. status'[m.id] = status[m.id]
      BY <1>0, <1>3, <1>6, <3>1, <3>2
    <3> QED  BY <2>1, <2>5, <3>3 DEF ReconciledStatus
  <2> QED  BY <1>3, <2>3, <2>4, <2>5
<1>8. ASSUME NEW i \in Ids, \A m \in movements : m.id # i PROVE status'[i] = status[i]
  BY <1>0, <1>4, <1>6, <1>8
<1> QED  BY <1>0, <1>2, <1>7, <1>8

LEMMA SaveStep ==
  ASSUME IInv, Save PROVE IInv'
<1>0. /\ phase' = "report" /\ left' = movements /\ openEntries' = <<>> /\ status' = staged'
      /\ UNCHANGED <<movements, ordered, pairs>>
  BY DEF Save, Reopen
<1>1. phase = "reconcile" /\ Visits(movements, pairs["reconcile"]) /\ pairs["report"] = {}
  BY SaveGives DEF IInv, Walking
<1>2. Typed'
  <2>1. staged' \in [Ids -> {"open", "closed"}]
    BY DEF Save, Reopen, Stage, IInv, Typed
  <2> QED  BY <1>0, <2>1 DEF IInv, Typed
<1>3. Done' = {}
  BY <1>0 DEF Done
<1>4. Walked("report", Done', openEntries', pairs'["report"])
  BY <1>0, <1>1, <1>3, Started
<1>5. Walking'
  BY <1>0, <1>1, <1>3, <1>4 DEF Walking, TakenInOrder
<1> QED  BY <1>0, <1>2, <1>5 DEF IInv, Staging, Arrivals

LEMMA StepInv == IInv /\ [Next]_vars => IInv'
<1> SUFFICES ASSUME IInv, [Next]_vars PROVE IInv'
  OBVIOUS
<1>1. ASSUME NEW m \in Movement, Observed(m) \/ \E s \in {"open", "closed"} : Manual(m, s) PROVE IInv'
  BY <1>1, ArrivalStep
<1>2. ASSUME NEW m \in left, Push(m) \/ Pair(m) \/ Unmatched(m) PROVE IInv'
  BY <1>2, PushStep, PairStep, UnmatchedStep
<1>3. CASE UNCHANGED vars
  <2>1. /\ UNCHANGED <<movements, status, ordered, phase, left, openEntries, staged, pairs>>
    BY <1>3 DEF vars
  <2>2. \A w : TakenInOrder(w) => TakenInOrder(w)'
    BY <2>1 DEF TakenInOrder, Done
  <2>3. ClosedAsTheyEnd => ClosedAsTheyEnd'
    BY <2>1 DEF ClosedAsTheyEnd
  <2> QED  BY <2>1, <2>2, <2>3 DEF IInv, Typed, Walking, Staging, Arrivals
<1> QED  BY <1>1, <1>2, <1>3, StartStep, SaveStep, ReportStep DEF Next

LEMMA Invariance == Spec => []IInv
BY InitInv, StepInv, PTL DEF Spec

-----------------------------------------------------------------------------
(* Visits in time.                                                         *)

LEMMA OrderedInTime ==
  ASSUME NEW M, Passages(M), NEW w, NEW m \in M, NEW n \in M
  PROVE  /\ m.time < n.time => Precedes(w, m, n)
         /\ ~Precedes(w, n, m) => m.time <= n.time
BY DEF Passages, Precedes, Before

\* What VisitsNest says of one visit: in time, not only in the order of a walk.
Spans(Q, M, p) ==
    /\ p[1].time <= p[2].time
    /\ \A q \in Q : p # q => p[1] # q[1] /\ p[2] # q[2]
    /\ \A m \in M : p[1].time < m.time /\ m.time < p[2].time =>
          \E q \in Q : /\ m \in {q[1], q[2]}
                      /\ p[1].time <= q[1].time /\ q[2].time <= p[2].time

LEMMA NestedSpans ==
  ASSUME NEW M, Passages(M), NEW w, NEW D \in SUBSET M, NEW Q, Matched(w, D, Q), Nested(w, D, Q),
         \A d \in D, m \in M \ D : ~Precedes(w, m, d),
         NEW p \in Q
  PROVE  Spans(Q, M, p)
<1>1. PICK e \in D, x \in D : p = <<e, x>> /\ e \in M /\ x \in M
  BY DEF Matched, Of
<1>2. p[1] = e /\ p[2] = x
  BY <1>1
<1>3. e.time <= x.time
  <2>1. ~Precedes(w, x, e)
    BY <1>2 DEF Matched
  <2> QED  BY <1>1, <2>1, OrderedInTime
<1>4. \A q \in Q : p # q => p[1] # q[1] /\ p[2] # q[2]
  BY DEF Matched
<1>5. ASSUME NEW m \in M, e.time < m.time, m.time < x.time
      PROVE  \E q \in Q : m \in {q[1], q[2]} /\ e.time <= q[1].time /\ q[2].time <= x.time
  <2>1. Precedes(w, e, m) /\ Precedes(w, m, x)
    BY <1>1, <1>5, OrderedInTime
  <2>2. m \in D
    BY <1>1, <2>1
  <2>3. PICK q \in Q : (m = q[1] \/ m = q[2]) /\ ~Precedes(w, q[1], e) /\ ~Precedes(w, x, q[2])
    BY <1>2, <2>1, <2>2 DEF Nested
  <2>4. PICK f \in M, y \in M : q = <<f, y>>
    BY DEF Matched, Of
  <2>5. q[1] = f /\ q[2] = y
    BY <2>4
  <2>6. e.time <= f.time /\ y.time <= x.time
    BY <1>1, <2>3, <2>5, OrderedInTime
  <2> QED  BY <2>3, <2>5, <2>6
<1> QED  BY <1>2, <1>3, <1>4, <1>5 DEF Spans

LEMMA VisitSpans ==
  ASSUME NEW M, Passages(M), NEW Q, Visits(M, Q), NEW p \in Q
  PROVE  Spans(Q, M, p)
<1> DEFINE w == "reconcile"
<1>1. \A m, n : Precedes(w, m, n) <=> Before(m, n)
  BY DEF Precedes
<1>2. Matched(w, M, Q) /\ Nested(w, M, Q)
  <2>1. \A q \in Q : q[1] \in M /\ q[2] \in M /\ Before(q[1], q[2])
    BY DEF Visits, Of
  <2>2. \A q \in Q : ~Precedes(w, q[2], q[1])
    BY <1>1, <2>1, WeaklyOrdered
  <2>3. Matched(w, M, Q)
    BY <2>2 DEF Visits, Matched
  <2>4. ASSUME NEW r \in Q, NEW m \in M, Precedes(w, r[1], m), Precedes(w, m, r[2])
        PROVE  \E q \in Q : (m = q[1] \/ m = q[2]) /\ ~Precedes(w, q[1], r[1]) /\ ~Precedes(w, r[2], q[2])
    <3>1. PICK q \in Q : (m = q[1] \/ m = q[2]) /\ Before(r[1], q[1]) /\ Before(q[2], r[2])
      BY <1>1, <2>4 DEF Visits
    <3> QED  BY <1>1, <2>1, <3>1, WeaklyOrdered
  <2> QED  BY <2>3, <2>4 DEF Nested
<1> HIDE DEF w
<1>3. \A d \in M, m \in M \ M : ~Precedes(w, m, d)
  OBVIOUS
<1> QED  BY <1>2, <1>3, NestedSpans

-----------------------------------------------------------------------------
(* The results.                                                            *)

\* Visits nest, in both walks, at each of their steps, and whatever statuses
\* and times the movements have, equal times among them.
THEOREM WalksNest == Spec => []VisitsNest
<1>1. IInv => VisitsNest
  <2>1. SUFFICES ASSUME IInv, NEW w \in Walks, NEW p \in pairs[w] PROVE Spans(pairs[w], movements, p)
    BY DEF VisitsNest, Walks, Spans
  <2>2. TakenInOrder(w) \/ (w = "reconcile" /\ Visits(movements, pairs["reconcile"])) \/ pairs[w] = {}
    BY <2>1 DEF IInv, Typed, Walking, Walks
  <2>3. Passages(movements)
    BY <2>1, Group DEF IInv
  <2>4. ASSUME TakenInOrder(w) PROVE Spans(pairs[w], movements, p)
    <3>1. /\ Done \in SUBSET movements /\ Matched(w, Done, pairs[w]) /\ Nested(w, Done, pairs[w])
          /\ \A d \in Done, m \in movements \ Done : ~Precedes(w, m, d)
      BY <2>4 DEF TakenInOrder, Walked, Done
    <3> QED  BY <2>1, <2>3, <3>1, NestedSpans
  <2>5. ASSUME w = "reconcile", Visits(movements, pairs["reconcile"]) PROVE Spans(pairs[w], movements, p)
    BY <2>1, <2>3, <2>5, VisitSpans
  <2> QED  BY <2>1, <2>2, <2>4, <2>5
<1> QED  BY <1>1, Invariance, PTL

\* The stack of reconcile computes what Pairing states by counting, for any
\* movements, ties and statuses: the abstraction that Movements uses is exact.
THEOREM StackCounts == Spec => ReconcileCountsVisits
<1> DEFINE Counts == phase = "reconcile" /\ phase' # phase =>
                       \A m \in movements : status'[m.id] = ReconciledStatus(movements, m, status[m.id])
<1>1. IInv /\ [Next]_vars => Counts
  <2>1. SUFFICES ASSUME IInv, [Next]_vars, phase = "reconcile", phase' # phase PROVE Save
    BY SaveGives
  <2> QED  BY <2>1 DEF Next, vars, Observed, Manual, Arrive, Start, Report, Push, Pair, Unmatched, Take
<1>2. ReconcileCountsVisits <=> [][Counts]_vars
  BY DEF ReconcileCountsVisits
<1> HIDE DEF Counts
<1> QED  BY <1>1, <1>2, Invariance, PTL DEF Spec

\* Closing visits as they end and pairing the whole period agree: reconcile
\* changes no row when each movement was observed after all before it.
THEOREM ReconcileIsIdle == Spec => NothingToReconcile
<1> DEFINE Idle == phase = "reconcile" /\ phase' # phase /\ ordered => status' = status
<1>1. IInv /\ [Next]_vars => Idle
  <2>1. SUFFICES ASSUME IInv, [Next]_vars, phase = "reconcile", phase' # phase, ordered
                 PROVE  status' = status
    OBVIOUS
  <2>2. Save
    BY <2>1 DEF Next, vars, Observed, Manual, Arrive, Start, Report, Push, Pair, Unmatched, Take
  <2>3. PICK Q : /\ Visits(movements, Q)
                 /\ \A m \in movements :
                       status[m.id] = IF m.type = "exit" \/ InVisit(Q, m) THEN "closed" ELSE "open"
    BY <2>1 DEF IInv, Arrivals, ClosedAsTheyEnd
  <2>4. Passages(movements)
    BY <2>1, Group DEF IInv
  <2>5. \A m \in movements : m.type \in {"entry", "exit"} /\ (Paired(movements, m) <=> InVisit(Q, m))
    BY <2>3, <2>4, VisitsCounted DEF Passages
  <2>6. \A m \in movements : status'[m.id] = status[m.id]
    BY <2>1, <2>2, <2>3, <2>5, SaveGives DEF ReconciledStatus
  <2>7. \A i \in Ids : status'[i] = status[i]
    BY <2>1, <2>2, <2>6, SaveGives
  <2>8. status \in [Ids -> {"open", "closed"}] /\ status' \in [Ids -> {"open", "closed"}]
    BY <2>1, <2>2, SaveStep DEF IInv, Typed
  <2> QED  BY <2>7, <2>8
<1>2. NothingToReconcile <=> [][Idle]_vars
  BY DEF NothingToReconcile
<1> HIDE DEF Idle
<1> QED  BY <1>1, <1>2, Invariance, PTL DEF Spec

-----------------------------------------------------------------------------
(* Reports: the order and the walks.                                       *)

\* The movements in order: every one of them, once.
LEMMA SortedIs ==
  ASSUME NEW M, Passages(M)
  PROVE  /\ Cardinality(M) \in Nat
         /\ Sorted(M) \in [1 .. Cardinality(M) -> M] /\ Sorted(M) \in Seq(M) /\ Len(Sorted(M)) = Cardinality(M)
         /\ \A i, j \in 1 .. Cardinality(M) : i < j => Before(Sorted(M)[i], Sorted(M)[j])
         /\ \A m \in M : \E i \in 1 .. Cardinality(M) : Sorted(M)[i] = m
<1> DEFINE n == Cardinality(M)
           below(m) == {x \in M : Before(x, m)}
           rank == [m \in M |-> Cardinality(below(m))]
           s == [k \in 1 .. n |-> CHOOSE m \in M : Cardinality(below(m)) = k - 1]
<1>1. IsFiniteSet(M) /\ n \in Nat
  BY FS_CardinalityType DEF Passages
<1>2. ASSUME NEW m \in M
      PROVE  IsFiniteSet(below(m)) /\ rank[m] \in 0 .. n - 1
  <2>1. m \notin below(m)
    BY Ordered
  <2>2. below(m) \in SUBSET (M \ {m})
    BY <2>1
  <2>3. IsFiniteSet(M \ {m}) /\ Cardinality(M \ {m}) = n - 1
    BY <1>1, FS_RemoveElement
  <2> HIDE DEF below
  <2>4. IsFiniteSet(below(m)) /\ Cardinality(below(m)) <= n - 1 /\ Cardinality(below(m)) \in Nat
    BY <2>2, <2>3, FS_Subset, FS_CardinalityType
  <2> QED  BY <1>1, <2>4
<1>3. ASSUME NEW x \in M, NEW y \in M, Before(x, y)
      PROVE  rank[x] < rank[y]
  <2>1. below(x) \in SUBSET below(y)
    BY <1>3, Ordered
  <2>2. x \in below(y) /\ x \notin below(x)
    BY <1>3, Ordered
  <2> HIDE DEF below
  <2>3. Cardinality(below(x)) <= Cardinality(below(y)) /\ Cardinality(below(x)) # Cardinality(below(y))
    BY <1>2, <2>1, <2>2, FS_Subset
  <2>4. rank[x] = Cardinality(below(x)) /\ rank[y] = Cardinality(below(y))
    OBVIOUS
  <2>5. rank[x] \in Int /\ rank[y] \in Int
    BY <1>1, <1>2
  <2> HIDE DEF rank
  <2> QED  BY <2>3, <2>4, <2>5
<1>4. Sorted(M) = <<>> \o s
  BY DEF Sorted
<1> HIDE DEF below
<1>5. rank \in Injection(M, 0 .. n - 1)
  <2>1. rank \in [M -> 0 .. n - 1]
    BY <1>2
  <2>2. ASSUME NEW x \in M, NEW y \in M, rank[x] = rank[y]
        PROVE  x = y
    <3>1. rank[x] \in Int /\ rank[y] \in Int
      BY <1>1, <1>2
    <3> HIDE DEF rank
    <3> QED  BY <1>3, <2>2, <3>1, Ordered
  <2> HIDE DEF rank
  <2> QED  BY <2>1, <2>2 DEF Injection, IsInjective
<1>6. rank \in Surjection(M, 0 .. n - 1)
  <2>1. IsFiniteSet(0 .. n - 1) /\ Cardinality(0 .. n - 1) = n
    BY <1>1, FS_Interval
  <2> QED  BY <1>5, <2>1, FS_Injection
<1>7. \A k \in 0 .. n - 1 : \E m \in M : rank[m] = k
  BY <1>6 DEF Surjection
<1>8. \A m \in M : rank[m] \in 0 .. n - 1
  BY <1>2
<1>9. \A x, y \in M : Before(x, y) => rank[x] < rank[y]
  BY <1>3
<1>10. \A m \in M : rank[m] = Cardinality(below(m))
  OBVIOUS
<1> HIDE DEF rank
<1>11. \A k \in 1 .. n : s[k] \in M /\ rank[s[k]] = k - 1
  <2>1. SUFFICES ASSUME NEW k \in 1 .. n PROVE s[k] \in M /\ rank[s[k]] = k - 1
    OBVIOUS
  <2>2. k - 1 \in 0 .. n - 1
    BY <1>1
  <2>3. \E m \in M : Cardinality(below(m)) = k - 1
    BY <1>7, <1>10, <2>2
  <2> QED  BY <1>10, <2>3
<1>12. s \in [1 .. n -> M] /\ s \in Seq(M) /\ Len(s) = n
  <2>1. s \in [1 .. n -> M]
    BY <1>11
  <2> HIDE DEF s
  <2> QED  BY <1>1, <2>1
<1>13. Sorted(M) = s
  <2> HIDE DEF s
  <2> QED  BY <1>4, <1>12, ConcatEmptySeq
<1>14. \A i, j \in 1 .. n : i < j => Before(s[i], s[j])
  <2>1. SUFFICES ASSUME NEW i \in 1 .. n, NEW j \in 1 .. n, i < j PROVE Before(s[i], s[j])
    OBVIOUS
  <2> HIDE DEF s
  <2>2. s[i] \in M /\ s[j] \in M /\ rank[s[i]] = i - 1 /\ rank[s[j]] = j - 1
    BY <1>11
  <2>3. s[i] # s[j] /\ ~Before(s[j], s[i])
    BY <1>1, <1>9, <2>1, <2>2
  <2> QED  BY <2>2, <2>3, Ordered
<1>15. \A m \in M : \E i \in 1 .. n : s[i] = m
  <2>1. SUFFICES ASSUME NEW m \in M PROVE \E i \in 1 .. n : s[i] = m
    OBVIOUS
  <2> DEFINE i == rank[m] + 1
  <2> HIDE DEF s
  <2>2. i \in 1 .. n /\ rank[m] = i - 1 /\ rank[m] \in Int
    BY <1>1, <1>8
  <2>3. s[i] \in M /\ rank[s[i]] = rank[m]
    BY <1>11, <2>2
  <2>4. s[i] = m
    <3>1. rank[s[i]] \in Int
      BY <2>2, <2>3
    <3> HIDE DEF i
    <3> QED  BY <1>9, <2>2, <2>3, <3>1, Ordered
  <2> QED  BY <2>2, <2>4
<1> QED  BY <1>1, <1>12, <1>13, <1>14, <1>15

NoVisit == [open |-> <<>>, visits |-> {}]

LEMMA MaxOf ==
  ASSUME NEW n \in Nat, NEW t \in SUBSET (1 .. n), t # {}
  PROVE  Max(t) \in t /\ \A k \in t : k <= Max(t)
<1> DEFINE f == [k \in t |-> k]
<1>1. f \in [t -> 0 .. n]
  OBVIOUS
<1>2. \E k \in t : \A j \in t : f[j] <= f[k]
  BY <1>1, Greatest
<1>3. \E k \in t : \A j \in t : k >= j
  BY <1>2
<1> QED  BY <1>3 DEF Max

\* The fold takes the events one by one.
LEMMA WalkSteps ==
  ASSUME NEW n \in Nat, NEW s, DOMAIN s = 1 .. n, NEW u
  PROVE  \E w : /\ w[0] = NoVisit
                /\ \A k \in 0 .. n - 1 : w[k + 1] = Close(u, w[k], s[k + 1])
                /\ w[n] = Walk(s, u)
<1> DEFINE Folds(f, k) == f = [t \in SUBSET (1 .. k) |-> IF t = {} THEN NoVisit
                                                        ELSE Close(u, f[t \ {Max(t)}], s[Max(t)])]
           T == {k \in Nat : ~ \E f : Folds(f, k)}
           iter == CHOOSE f : Folds(f, n)
<1>1. Walk(s, u) = iter[1 .. n]
  BY DEF Walk, FoldLeft, MapThenFoldSet, NoVisit
<1>2. ASSUME T # {} PROVE FALSE
  <2>1. T \in SUBSET Nat
    OBVIOUS
  <2>2. PICK k \in T : \A j \in T : k <= j
    <3> HIDE DEF T
    <3> QED  BY <1>2, <2>1, LeastNumber
  <2>3. k \in Nat /\ ~ \E f : Folds(f, k)
    BY <2>2
  <2>4. CASE k = 0
    <3> DEFINE f == [t \in SUBSET (1 .. 0) |-> NoVisit]
    <3>1. \A t \in SUBSET (1 .. 0) : t = {}
      OBVIOUS
    <3>2. Folds(f, 0)
      BY <3>1
    <3> QED  BY <2>3, <2>4, <3>2
  <2>5. CASE k > 0
    <3> HIDE DEF T
    <3>1. k - 1 \in Nat /\ k - 1 \notin T
      BY <2>2, <2>3, <2>5
    <3> USE DEF T
    <3>2. PICK f : Folds(f, k - 1)
      BY <3>1
    <3> DEFINE g == [t \in SUBSET (1 .. k) |-> IF t = {} THEN NoVisit
                                                ELSE Close(u, f[t \ {Max(t)}], s[Max(t)])]
    <3>3. ASSUME NEW t \in SUBSET (1 .. k), t # {}
          PROVE  g[t \ {Max(t)}] = f[t \ {Max(t)}]
      <4> DEFINE r == t \ {Max(t)}
      <4>1. Max(t) \in t /\ \A j \in t : j <= Max(t)
        BY <2>3, <3>3, MaxOf
      <4>2. r \in SUBSET (1 .. k - 1) /\ r \in SUBSET (1 .. k)
        <5>1. ASSUME NEW j \in r PROVE j \in 1 .. k - 1
          <6>1. j \in 1 .. k /\ j <= Max(t) /\ j # Max(t) /\ Max(t) \in 1 .. k
            BY <3>3, <4>1
          <6> QED  BY <2>3, <6>1
        <5> QED  BY <5>1
      <4>3. f[r] = IF r = {} THEN NoVisit ELSE Close(u, f[r \ {Max(r)}], s[Max(r)])
        <5> HIDE DEF r
        <5> QED  BY <3>2, <4>2
      <4>4. g[r] = IF r = {} THEN NoVisit ELSE Close(u, f[r \ {Max(r)}], s[Max(r)])
        <5> HIDE DEF r
        <5> QED  BY <4>2
      <4> QED  BY <4>3, <4>4
    <3>4. \A t \in SUBSET (1 .. k) :
             (IF t = {} THEN NoVisit ELSE Close(u, f[t \ {Max(t)}], s[Max(t)]))
               = (IF t = {} THEN NoVisit ELSE Close(u, g[t \ {Max(t)}], s[Max(t)]))
      BY <3>3
    <3>5. Folds(g, k)
      BY <3>4
    <3> QED  BY <2>3, <3>5
  <2> QED  BY <2>3, <2>4, <2>5
<1>3. Folds(iter, n)
  <2>1. \E f : Folds(f, n)
    BY <1>2
  <2> HIDE DEF Folds
  <2> QED  BY <2>1
<1> HIDE DEF iter
<1> DEFINE w == [k \in 0 .. n |-> iter[1 .. k]]
<1>4. w[0] = NoVisit
  <2>1. 1 .. 0 = {} /\ 1 .. 0 \in SUBSET (1 .. n)
    OBVIOUS
  <2>2. iter[1 .. 0] = NoVisit
    BY <1>3, <2>1
  <2> QED  BY <2>2
<1>5. ASSUME NEW k \in 0 .. n - 1
      PROVE  w[k + 1] = Close(u, w[k], s[k + 1])
  <2> DEFINE t == 1 .. k + 1
  <2>1. t \in SUBSET (1 .. n) /\ k + 1 \in t
    OBVIOUS
  <2>2. Max(t) = k + 1
    <3>1. Max(t) \in t /\ k + 1 <= Max(t)
      BY <2>1, MaxOf
    <3> QED  BY <3>1
  <2>3. t \ {k + 1} = 1 .. k
    OBVIOUS
  <2> HIDE DEF t
  <2>4. iter[t] = Close(u, iter[t \ {Max(t)}], s[Max(t)])
    BY <1>3, <2>1
  <2>5. iter[t] = Close(u, iter[1 .. k], s[k + 1])
    BY <2>2, <2>3, <2>4
  <2> QED  BY <2>5 DEF t
<1>6. w[n] = Walk(s, u)
  BY <1>1
<1> QED  BY <1>4, <1>5, <1>6

-----------------------------------------------------------------------------
(* Reports: the state of the vehicle and its segments.                     *)

\* The walk of a unit, among the movements M.
WalkType(M, u) ==
    [open: Seq({e \in M : e.type = "entry" /\ e.unit = u}), visits: SUBSET (M \X M)]

\* An entry waits until another event of its unit.
LEMMA CloseType ==
  ASSUME NEW M, NEW u, NEW walk \in WalkType(M, u), NEW event \in M
  PROVE  /\ Close(u, walk, event) \in WalkType(M, u)
         /\ event.type = "entry" /\ event.unit = u =>
              \E k \in 1 .. Len(Close(u, walk, event).open) : Close(u, walk, event).open[k] = event
<1> DEFINE E == {e \in M : e.type = "entry" /\ e.unit = u}
<1>1. walk = [open |-> walk.open, visits |-> walk.visits] /\ walk.open \in Seq(E) /\ walk.visits \in SUBSET (M \X M)
  BY DEF WalkType
<1>2. WalkType(M, u) = [open: Seq(E), visits: SUBSET (M \X M)]
  BY DEF WalkType
<1>3. CASE event.unit # u
  BY <1>3 DEF Close
<1>4. CASE event.unit = u /\ event.type = "entry"
  <2>1. Close(u, walk, event) = [walk EXCEPT !.open = Append(@, event)]
    BY <1>4 DEF Close
  <2>2. Close(u, walk, event) = [open |-> Append(walk.open, event), visits |-> walk.visits]
    BY <1>1, <2>1
  <2>3. event \in E
    BY <1>4
  <2> HIDE DEF E
  <2>4. Append(walk.open, event) \in Seq(E) /\ Len(Append(walk.open, event)) = Len(walk.open) + 1
        /\ Append(walk.open, event)[Len(walk.open) + 1] = event /\ Len(walk.open) \in Nat
    BY <1>1, <2>3
  <2> QED  BY <1>1, <1>2, <2>2, <2>4
<1>5. CASE event.unit = u /\ event.type # "entry" /\ walk.open = <<>>
  BY <1>5 DEF Close
<1>6. CASE event.unit = u /\ event.type # "entry" /\ walk.open # <<>>
  <2>1. Close(u, walk, event) =
          [open |-> Front(walk.open), visits |-> walk.visits \cup {<<Last(walk.open), event>>}]
    BY <1>6 DEF Close
  <2>2. E \subseteq M
    OBVIOUS
  <2> HIDE DEF E
  <2>3. Len(walk.open) \in Nat /\ Len(walk.open) >= 1
    BY <1>1, <1>6
  <2>4. Front(walk.open) \in Seq(E) /\ Last(walk.open) \in E
    BY <1>1, <2>3 DEF Front, Last
  <2>5. walk.visits \cup {<<Last(walk.open), event>>} \in SUBSET (M \X M)
    BY <1>1, <2>2, <2>4
  <2> QED  BY <1>2, <1>6, <2>1, <2>4, <2>5
<1> QED  BY <1>3, <1>4, <1>5, <1>6

LEMMA WalkOpen ==
  ASSUME NEW M, NEW n \in Nat, NEW s \in [1 .. n -> M], NEW u
  PROVE  /\ Walk(s, u) \in WalkType(M, u)
         /\ n > 0 /\ s[n].type = "entry" /\ s[n].unit = u => s[n] \in ToSet(Walk(s, u).open)
<1>1. PICK w : /\ w[0] = NoVisit
               /\ \A k \in 0 .. n - 1 : w[k + 1] = Close(u, w[k], s[k + 1])
               /\ w[n] = Walk(s, u)
  BY WalkSteps
<1> DEFINE T == {k \in 0 .. n : w[k] \notin WalkType(M, u)}
<1>2. ASSUME T # {} PROVE FALSE
  <2>1. T \in SUBSET Nat
    OBVIOUS
  <2>2. PICK k \in T : \A j \in T : k <= j
    <3> HIDE DEF T
    <3> QED  BY <1>2, <2>1, LeastNumber
  <2>3. k \in 0 .. n /\ w[k] \notin WalkType(M, u)
    BY <2>2
  <2>4. NoVisit \in WalkType(M, u)
    BY DEF NoVisit, WalkType
  <2>5. k # 0
    BY <1>1, <2>3, <2>4
  <2>6. k - 1 \in 0 .. n - 1 /\ k \in 1 .. n
    BY <2>3, <2>5
  <2>7. k - 1 \notin T
    <3> HIDE DEF T
    <3> QED  BY <2>2, <2>6
  <2>8. w[k - 1] \in WalkType(M, u)
    BY <2>6, <2>7
  <2>9. w[k] = Close(u, w[k - 1], s[k]) /\ s[k] \in M
    <3>1. (k - 1) + 1 = k
      BY <2>6
    <3> QED  BY <1>1, <2>6, <3>1
  <2> QED  BY <2>3, <2>8, <2>9, CloseType
<1>3. \A k \in 0 .. n : w[k] \in WalkType(M, u)
  BY <1>2
<1>4. Walk(s, u) \in WalkType(M, u)
  BY <1>1, <1>3
<1>5. ASSUME n > 0, s[n].type = "entry", s[n].unit = u
      PROVE  s[n] \in ToSet(Walk(s, u).open)
  <2>1. n - 1 \in 0 .. n - 1 /\ n - 1 \in 0 .. n /\ (n - 1) + 1 = n /\ n \in 1 .. n
    BY <1>5
  <2>2. Walk(s, u) = Close(u, w[n - 1], s[n])
    BY <1>1, <2>1
  <2>3. \E k \in 1 .. Len(Walk(s, u).open) : Walk(s, u).open[k] = s[n]
    BY <1>3, <1>5, <2>1, <2>2, CloseType
  <2>4. Walk(s, u).open \in Seq({e \in M : e.type = "entry" /\ e.unit = u})
    BY <1>4 DEF WalkType
  <2>5. DOMAIN Walk(s, u).open = 1 .. Len(Walk(s, u).open)
    BY <2>4
  <2> QED  BY <2>3, <2>5 DEF ToSet
<1> QED  BY <1>4, <1>5

\* The movements of a vehicle, as the reports read them.
Loaded(M) == Passages(M) /\ M \subseteq Passage /\ M # {}

LEMMA StateExplained ==
  ASSUME NEW M, Loaded(M), NEW window, NEW range, NEW baselines
  PROVE  LET timeline == BuildTimeline(M, window, range, baselines)
             current == timeline.current
             going == {s \in timeline.segments : s.ongoing /\ s.anomaly # "missing_exit"}
             seen == range.from <= current.since /\ current.since <= range.to
         IN /\ Cardinality(going) = (IF seen THEN 1 ELSE 0)
            /\ \A s \in going :
                  /\ s.start = current.since
                  /\ (s.kind = "dwell") = (current.state = "at_unit")
                  /\ s.kind = "dwell" => s.unit = current.unit
<1> DEFINE n == Cardinality(M)
           sorted == Sorted(M)
           last == sorted[n]
           Marked(s) == IF s.kind = "dwell" /\ s.ongoing /\ s.first # last.id
                        THEN [s EXCEPT !.anomaly = "missing_exit"] ELSE s
           all == Dwells(sorted, window) \cup Transits(sorted, window, baselines)
           segments == {Marked(s) : s \in all}
           visible == Visible(segments, range)
           timeline == BuildTimeline(M, window, range, baselines)
           Goes(s) == s.ongoing /\ s.anomaly # "missing_exit"
           state == ResolveCurrentState(last)
           seen == range.from <= last.time /\ last.time <= range.to
           current == IF last.type = "entry" THEN MakeOpenDwell(last, window) ELSE MakeOpenTransit(last, window)
<1>1. /\ n \in Nat /\ n > 0 /\ sorted \in [1 .. n -> M] /\ Len(sorted) = n
      /\ last \in M /\ last.type \in {"entry", "exit"} /\ last.unit \in Units
  <2>1. n \in Nat /\ sorted \in [1 .. n -> M] /\ Len(sorted) = n
    BY SortedIs DEF Loaded
  <2>2. n > 0
    <3>1. IsFiniteSet(M) /\ M # {}
      BY DEF Loaded, Passages
    <3> QED  BY <2>1, <3>1, FS_EmptySet
  <2>3. last \in M
    <3> HIDE DEF sorted, n
    <3> QED  BY <2>1, <2>2
  <2> QED  BY <2>1, <2>2, <2>3 DEF Loaded, Passage
<1>2. timeline.segments = visible /\ timeline.current = state
  <2>1. LastEvent(sorted) = last
    BY <1>1 DEF LastEvent
  <2> QED  BY <2>1 DEF BuildTimeline, Loaded
<1> HIDE DEF timeline
<1>3. /\ current.ongoing /\ current.anomaly # "missing_exit" /\ current.start = last.time
      /\ current.kind = (IF last.type = "entry" THEN "dwell" ELSE "transit") /\ current.unit = last.unit
      /\ current.first = last.id
  BY ReportsAssumption DEF MakeOpenDwell, MakeOpenTransit
\* The last movement is an entry that waits, or an exit not followed.
<1>4. current \in all
  <2>1. CASE last.type = "entry"
    <3>1. n > 0 /\ sorted[n].type = "entry" /\ sorted[n].unit = last.unit
      BY <1>1, <2>1
    <3>2. last \in ToSet(Walk(sorted, last.unit).open)
      BY <1>1, <3>1, WalkOpen
    <3>3. current \in Dwells(sorted, window)
      <4> HIDE DEF sorted, last, n
      <4> QED  BY <1>1, <2>1, <3>2 DEF Dwells
    <3> QED  BY <3>3
  <2>2. CASE last.type = "exit"
    <3>1. n \in 1 .. Len(sorted) /\ n = Len(sorted)
      BY <1>1
    <3>2. current \in Transits(sorted, window, baselines)
      <4> HIDE DEF sorted
      <4> QED  BY <2>2, <3>1 DEF Transits
    <3> QED  BY <3>2
  <2> QED  BY <1>1, <2>1, <2>2
\* No other segment goes on without an anomaly.
<1>5. ASSUME NEW s \in all, s # current
      PROVE  ~Goes(Marked(s))
  <2>1. CASE s \in Dwells(sorted, window)
    <3>1. PICK u \in Units : s \in {MakeDwell(v[1], v[2], window) : v \in Walk(sorted, u).visits}
                                     \cup {MakeOpenDwell(e, window) : e \in ToSet(Walk(sorted, u).open)}
      <4> HIDE DEF sorted
      <4> QED  BY <2>1 DEF Dwells
    <3>2. ASSUME NEW v, s = MakeDwell(v[1], v[2], window) PROVE ~Goes(Marked(s))
      BY <3>2 DEF MakeDwell
    <3>3. ASSUME NEW e \in ToSet(Walk(sorted, u).open), s = MakeOpenDwell(e, window) PROVE ~Goes(Marked(s))
      <4>1. Walk(sorted, u) \in WalkType(M, u)
        BY <1>1, WalkOpen
      <4>2. Walk(sorted, u).open \in Seq({x \in M : x.type = "entry" /\ x.unit = u})
        BY <4>1 DEF WalkType
      <4>3. e \in M /\ e.type = "entry" /\ e.unit = u
        <5> HIDE DEF sorted
        <5> QED  BY <4>2 DEF ToSet
      <4>4. e # last
        BY <1>5, <3>3, <4>3
      <4>5. e.id # last.id
        BY <1>1, <4>3, <4>4 DEF Loaded, Passages
      <4>6. s.kind = "dwell" /\ s.ongoing /\ s.first # last.id
        BY <3>3, <4>5 DEF MakeOpenDwell
      <4>7. Marked(s) = [s EXCEPT !.anomaly = "missing_exit"]
        BY <4>6
      <4>8. "anomaly" \in DOMAIN s
        BY <3>3 DEF MakeOpenDwell
      <4>9. Marked(s).anomaly = "missing_exit"
        BY <4>7, <4>8
      <4> QED  BY <4>9
    <3> HIDE DEF Goes, Marked
    <3> QED  BY <3>1, <3>2, <3>3
  <2>2. CASE s \in Transits(sorted, window, baselines)
    <3>1. ASSUME NEW d, NEW a1, s = MakeTransit(d, a1, window, baselines) PROVE ~Goes(Marked(s))
      BY <3>1 DEF MakeTransit
    <3>2. ASSUME NEW i \in 1 .. Len(sorted), i = Len(sorted), sorted[i].type = "exit", s = MakeOpenTransit(sorted[i], window)
          PROVE  FALSE
      <4>1. sorted[i] = last
        BY <1>1, <3>2
      <4> HIDE DEF last, sorted
      <4> QED  BY <1>5, <3>2, <4>1
    <3> HIDE DEF Goes, Marked, sorted
    <3> QED  BY <2>2, <3>1, <3>2 DEF Transits
  <2> QED  BY <1>5, <2>1, <2>2
<1>6. Marked(current) = current
  <2> HIDE DEF current
  <2> QED  BY <1>3
<1> DEFINE going == {s \in visible : Goes(s)}
<1>7. going = IF seen THEN {current} ELSE {}
  <2>1. \A s \in going : s = current
    <3>1. SUFFICES ASSUME NEW s \in going PROVE s = current
      OBVIOUS
    <3>2. PICK r \in all : s = Marked(r)
      <4> HIDE DEF all, Marked, Goes
      <4> QED  BY DEF Visible
    <3>3. Goes(s)
      OBVIOUS
    <3>4. r = current
      <4> HIDE DEF all, Marked, Goes, current
      <4> QED  BY <1>5, <3>2, <3>3
    <3> HIDE DEF Marked, current
    <3> QED  BY <1>6, <3>2, <3>4
  <2>2. current \in segments
    <3> HIDE DEF all, Marked, current
    <3> QED  BY <1>4, <1>6
  <2>3. Goes(current)
    <3> HIDE DEF current
    <3> QED  BY <1>3
  <2>4. current \in going <=> seen
    <3> HIDE DEF segments, Goes, current
    <3> QED  BY <1>3, <2>2, <2>3 DEF Visible
  <2> HIDE DEF going, current, seen
  <2> QED  BY <2>1, <2>4
<1>8. state.since = last.time /\ (state.state = "at_unit" <=> last.type = "entry")
      /\ (last.type = "entry" => state.unit = last.unit)
  <2> HIDE DEF last
  <2> QED  BY DEF ResolveCurrentState
<1>9. Cardinality({current}) = 1 /\ Cardinality({}) = 0
  BY FS_Singleton, FS_EmptySet
<1> HIDE DEF visible, current, state, last
<1>10. {s \in timeline.segments : s.ongoing /\ s.anomaly # "missing_exit"} = going
  BY <1>2
<1>11. /\ Cardinality(going) = (IF seen THEN 1 ELSE 0)
       /\ \A s \in going : s = current
  <2> HIDE DEF going, seen
  <2> QED  BY <1>7, <1>9
<1>12. /\ current.start = state.since
       /\ (current.kind = "dwell") = (state.state = "at_unit")
       /\ current.kind = "dwell" => current.unit = state.unit
  BY <1>1, <1>3, <1>8
<1> HIDE DEF going
<1> QED  BY <1>2, <1>8, <1>10, <1>11, <1>12 DEF timeline

PassagesInv ==
    /\ IsFiniteSet(passages) /\ passages \subseteq Passage
    /\ \A m \in passages : m.id <= Cardinality(passages)
    /\ \A m, k \in passages : m.id = k.id => m = k

LEMMA PassagesArePassages ==
  ASSUME PassagesInv, NEW M \in SUBSET passages
  PROVE  Passages(M)
<1>1. IsFiniteSet(M)
  BY FS_Subset DEF PassagesInv
<1>2. \A m \in M : m.id \in Nat /\ m.time \in Nat /\ m.type \in {"entry", "exit"}
  BY DEF PassagesInv, Passage
<1> QED  BY <1>1, <1>2 DEF PassagesInv, Passages

LEMMA PassagesStep == PassagesInv /\ [ReportNext]_reportVars => PassagesInv'
<1> SUFFICES ASSUME PassagesInv, [ReportNext]_reportVars PROVE PassagesInv'
  OBVIOUS
<1>1. ASSUME NEW m \in Passage, Confirm(m)
      PROVE  PassagesInv'
  <2> DEFINE n == Cardinality(passages)
  <2>1. n \in Nat /\ m.id = n + 1 /\ passages' = passages \cup {m} /\ IsFiniteSet(passages)
    BY <1>1, FS_CardinalityType DEF Confirm, PassagesInv
  <2>2. \A k \in passages : k.id <= n /\ k.id \in Nat
    BY DEF PassagesInv, Passage
  <2>3. m \notin passages
    <3> HIDE DEF n
    <3> QED  BY <2>1, <2>2
  <2>4. IsFiniteSet(passages') /\ Cardinality(passages') = n + 1
    BY <2>1, <2>3, FS_AddElement
  <2> HIDE DEF n
  <2>5. \A k \in passages' : k.id <= Cardinality(passages')
    BY <2>1, <2>2, <2>4
  <2>6. \A k, l \in passages' : k.id = l.id => k = l
    BY <2>1, <2>2 DEF PassagesInv
  <2> QED  BY <2>1, <2>4, <2>5, <2>6 DEF PassagesInv
<1>2. ASSUME UNCHANGED passages PROVE PassagesInv'
  BY <1>2 DEF PassagesInv
<1> QED  BY <1>1, <1>2 DEF ReportNext, Ask, reportVars

\* A report that was made of these movements.
LEMMA AskExplained ==
  ASSUME PassagesInv, NEW r \in Requests, Ask(r)
  PROVE  CurrentStateExplained'
<1> DEFINE window == ToJourneyWindow(r.journey)
           range == ResolveRange(r)
           loaded == LoadMovements(range.from - Lookback, range.to, r.unit)
<1>1. PICK baselines : /\ report'.timeline = BuildTimeline(loaded, window, range, baselines)
                       /\ report'.range = range
  <2>1. report'.timeline = BuildTimeline(loaded, window, range, cache'.baselines) /\ report'.range = range
    BY DEF Ask
  <2> QED  BY <2>1
<1>2. loaded \in SUBSET passages
  BY DEF LoadMovements
<1> HIDE DEF loaded, window, range
<1>3. CASE loaded = {}
  <2>1. report'.timeline = None
    BY <1>1, <1>3 DEF BuildTimeline
  <2> QED  BY <2>1 DEF CurrentStateExplained, Answered
<1>4. CASE loaded # {}
  <2>1. Loaded(loaded)
    BY <1>2, <1>4, PassagesArePassages DEF Loaded, PassagesInv
  <2> DEFINE timeline == report'.timeline
             current == timeline.current
             going == {s \in timeline.segments : s.ongoing /\ s.anomaly # "missing_exit"}
             seen == range.from <= current.since /\ current.since <= range.to
  <2>2. /\ Cardinality(going) = (IF seen THEN 1 ELSE 0)
        /\ \A s \in going :
              /\ s.start = current.since
              /\ (s.kind = "dwell") = (current.state = "at_unit")
              /\ s.kind = "dwell" => s.unit = current.unit
    BY <1>1, <2>1, StateExplained
  <2> QED  BY <1>1, <2>2 DEF CurrentStateExplained, Answered
<1> QED  BY <1>3, <1>4

\* Whatever movements a vehicle has and whatever period, unit and journey are
\* asked for, the state a report gives is told by its segments too: one visit
\* or transit goes on, begun by the last movement (movement-time.service.ts:170,
\* 173, 398).
THEOREM StateIsExplained == ReportSpec => []CurrentStateExplained
<1>1. ReportInit => PassagesInv /\ CurrentStateExplained
  <2>1. ReportInit => passages = {} /\ ~Answered
    BY DEF ReportInit, Answered
  <2> QED  BY <2>1, FS_EmptySet DEF PassagesInv, CurrentStateExplained
<1>2. PassagesInv /\ CurrentStateExplained /\ [ReportNext]_reportVars => PassagesInv' /\ CurrentStateExplained'
  <2> SUFFICES ASSUME PassagesInv, CurrentStateExplained, [ReportNext]_reportVars
               PROVE  PassagesInv' /\ CurrentStateExplained'
    OBVIOUS
  <2>1. ASSUME NEW m \in Passage, Confirm(m) PROVE CurrentStateExplained'
    BY <2>1 DEF Confirm, CurrentStateExplained, Answered
  <2>2. ASSUME NEW r \in Requests, Ask(r) PROVE CurrentStateExplained'
    BY <2>2, AskExplained
  <2>3. ASSUME UNCHANGED reportVars PROVE CurrentStateExplained'
    BY <2>3 DEF reportVars, CurrentStateExplained, Answered
  <2> QED  BY <2>1, <2>2, <2>3, PassagesStep DEF ReportNext
<1> QED  BY <1>1, <1>2, PTL DEF ReportSpec

-----------------------------------------------------------------------------
(* Reports: the dwells and the visits.                                     *)

\* The walk of the report, over the events of one unit, is that of reconcile.
LEMMA WalkIsWalked ==
  ASSUME NEW M, Passages(M), NEW u
  PROVE  Walked("reconcile", {m \in M : m.unit = u}, Walk(Sorted(M), u).open, Walk(Sorted(M), u).visits)
<1> DEFINE n == Cardinality(M)
           s == Sorted(M)
           G == {m \in M : m.unit = u}
           D(k) == {m \in G : \E i \in 1 .. k : s[i] = m}
<1>1. /\ n \in Nat /\ s \in [1 .. n -> M]
      /\ \A i, j \in 1 .. n : i < j => Before(s[i], s[j])
      /\ \A m \in M : \E i \in 1 .. n : s[i] = m
  BY SortedIs
<1> HIDE DEF n, s
<1>2. PICK w : /\ w[0] = NoVisit
               /\ \A k \in 0 .. n - 1 : w[k + 1] = Close(u, w[k], s[k + 1])
               /\ w[n] = Walk(s, u)
  <2>1. n \in Nat /\ DOMAIN s = 1 .. n
    BY <1>1
  <2> HIDE DEF G, D
  <2> QED  BY <2>1, WalkSteps
<1>3. Passages(G)
  <2>1. G \subseteq M
    OBVIOUS
  <2> QED  BY <2>1, FS_Subset DEF Passages
<1> DEFINE Good(k) == /\ w[k] = [open |-> w[k].open, visits |-> w[k].visits]
                      /\ Walked("reconcile", D(k), w[k].open, w[k].visits)
           T == {k \in 0 .. n : ~Good(k)}
<1>4. Good(0)
  <2>1. D(0) = {}
    OBVIOUS
  <2>2. w[0].open = <<>> /\ w[0].visits = {} /\ w[0] = [open |-> w[0].open, visits |-> w[0].visits]
    BY <1>2 DEF NoVisit
  <2> HIDE DEF D
  <2> QED  BY <2>1, <2>2, Started
<1>5. ASSUME NEW k \in 1 .. n, Good(k - 1) PROVE Good(k)
  <2> DEFINE walk == w[k - 1]
             e == s[k]
  <2>1. w[k] = Close(u, walk, e) /\ e \in M /\ e.type \in {"entry", "exit"}
    <3>1. k - 1 \in 0 .. n - 1 /\ (k - 1) + 1 = k
      BY <1>1
    <3> QED  BY <1>1, <1>2, <3>1 DEF Passages
  <2>2. /\ walk = [open |-> walk.open, visits |-> walk.visits]
        /\ Walked("reconcile", D(k - 1), walk.open, walk.visits)
    BY <1>5
  <2>3. \A i \in 1 .. k : i = k \/ i \in 1 .. k - 1
    BY <1>1
  <2>4. 1 .. k - 1 \subseteq 1 .. k /\ k \in 1 .. k
    BY <1>1
  <2> HIDE DEF walk
  <2>5. CASE e.unit # u
    <3>1. w[k] = walk
      BY <2>1, <2>5 DEF Close
    <3>2. D(k) = D(k - 1)
      BY <2>3, <2>4, <2>5
    <3> HIDE DEF D
    <3> QED  BY <2>2, <3>1, <3>2
  <2>6. CASE e.unit = u
    <3>1. D(k) = D(k - 1) \cup {e}
      BY <2>1, <2>3, <2>4, <2>6
    <3>2. Comes("reconcile", G, D(k - 1), e)
      <4>1. \A d \in D(k - 1) : Before(d, e)
        <5>1. \A i \in 1 .. k - 1 : i \in 1 .. n /\ i < k
          BY <1>1
        <5> QED  BY <1>1, <5>1
      <4>2. e \in G /\ D(k - 1) \in SUBSET G
        BY <2>1, <2>6
      <4> HIDE DEF D, G
      <4>3. e \notin D(k - 1) /\ \A d \in D(k - 1) : ~Before(e, d)
        BY <1>3, <4>1, <4>2, Ordered
      <4> QED  BY <1>3, <4>2, <4>3 DEF Comes, Precedes
    <3> HIDE DEF D, G, e
    <3>3. CASE e.type = "entry"
      <4>1. w[k] = [walk EXCEPT !.open = Append(@, e)]
        BY <2>1, <2>6, <3>3 DEF Close
      <4>2. w[k] = [open |-> Append(walk.open, e), visits |-> walk.visits]
        BY <2>2, <4>1
      <4>3. Walked("reconcile", D(k - 1) \cup {e}, Append(walk.open, e), walk.visits)
        BY <2>2, <3>2, <3>3, Pushed
      <4> QED  BY <3>1, <4>2, <4>3
    <3>4. CASE e.type = "exit" /\ walk.open # <<>>
      <4>1. w[k] = [open |-> Front(walk.open), visits |-> walk.visits \cup {<<Last(walk.open), e>>}]
        BY <2>1, <2>6, <3>4 DEF Close
      <4>2. /\ Front(walk.open) = SubSeq(walk.open, 1, Len(walk.open) - 1)
            /\ Last(walk.open) = walk.open[Len(walk.open)]
        BY DEF Front, Last
      <4>3. Walked("reconcile", D(k - 1) \cup {e}, SubSeq(walk.open, 1, Len(walk.open) - 1),
                   walk.visits \cup {<<walk.open[Len(walk.open)], e>>})
        BY <2>2, <3>2, <3>4, PairedUp
      <4> QED  BY <3>1, <4>1, <4>2, <4>3
    <3>5. CASE e.type = "exit" /\ walk.open = <<>>
      <4>1. w[k] = walk
        BY <2>1, <2>6, <3>5 DEF Close
      <4>2. Walked("reconcile", D(k - 1) \cup {e}, <<>>, walk.visits)
        BY <2>2, <3>2, <3>5, LeftAlone
      <4> QED  BY <2>2, <3>1, <3>5, <4>1, <4>2
    <3> QED  BY <2>1, <3>3, <3>4, <3>5 DEF e
  <2> QED  BY <2>5, <2>6
<1>6. ASSUME T # {} PROVE FALSE
  <2>1. T \in SUBSET Nat
    BY <1>1
  <2>2. PICK k \in T : \A j \in T : k <= j
    <3> HIDE DEF T
    <3> QED  BY <1>6, <2>1, LeastNumber
  <2> HIDE DEF Good
  <2>3. k \in 0 .. n /\ ~Good(k)
    BY <2>2
  <2>4. k \in 1 .. n /\ k - 1 \in 0 .. n
    BY <1>1, <1>4, <2>3
  <2>5. k - 1 \notin T
    <3> HIDE DEF T
    <3> QED  BY <2>2, <2>4
  <2> QED  BY <1>5, <2>3, <2>4, <2>5
<1>7. Good(n)
  <2>1. n \in 0 .. n
    BY <1>1
  <2> HIDE DEF Good
  <2> QED  BY <1>6, <2>1
<1>8. D(n) = G
  BY <1>1
<1> QED  BY <1>2, <1>7, <1>8 DEF s, G

\* What the dwells say of an entry of M: the exit that ends its visit.
DwellEnd(M, e) ==
    LET group == {m \in M : m.unit = e.unit}
    IN IF EntryPaired(group, e) THEN VisitEnd(group, e).id ELSE None

LEMMA WalkCounts ==
  ASSUME NEW M, Passages(M), NEW u
  PROVE  /\ \A v \in Walk(Sorted(M), u).visits :
               v[1] \in Of(M, "entry") /\ v[1].unit = u /\ DwellEnd(M, v[1]) = v[2].id
         /\ \A e \in ToSet(Walk(Sorted(M), u).open) :
               e \in Of(M, "entry") /\ e.unit = u /\ DwellEnd(M, e) = None
         /\ \A e \in Of(M, "entry") : e.unit = u =>
               \/ e \in ToSet(Walk(Sorted(M), u).open)
               \/ \E v \in Walk(Sorted(M), u).visits : e = v[1]
<1> DEFINE G == {m \in M : m.unit = u}
           S == Walk(Sorted(M), u).open
           Q == Walk(Sorted(M), u).visits
<1>1. Passages(G)
  <2>1. G \subseteq M
    OBVIOUS
  <2> QED  BY <2>1, FS_Subset DEF Passages
<1>2. Walked("reconcile", G, S, Q)
  BY WalkIsWalked
<1>3. Of(G, "entry") = {e \in Of(M, "entry") : e.unit = u}
  BY DEF Of
<1>4. \A e : e.unit = u => DwellEnd(M, e) = IF EntryPaired(G, e) THEN VisitEnd(G, e).id ELSE None
  BY DEF DwellEnd
<1> HIDE DEF G, S, Q
<1>5. Visits(G, Q)
  <2>1. \A m, k \in G : Precedes("reconcile", m, k) <=> Before(m, k)
    BY DEF Precedes
  <2> QED  BY <1>1, <1>2, <2>1, WalkedThrough
<1>6. /\ S \in Seq(Of(G, "entry"))
      /\ \A k \in 1 .. Len(S), q \in Q : S[k] # q[1]
      /\ \A e \in Of(G, "entry") : (\E k \in 1 .. Len(S) : e = S[k]) \/ \E q \in Q : e = q[1]
  BY <1>2 DEF Walked, Stacked
<1>7. ToSet(S) = {S[k] : k \in 1 .. Len(S)} /\ \A k \in 1 .. Len(S) : S[k] \in Of(G, "entry")
  BY <1>6 DEF ToSet
<1>8. \A q \in Q : q[1] \in Of(G, "entry") /\ q[2] \in Of(G, "exit")
  BY <1>5 DEF Visits
<1>9. \A m \in Of(G, "entry") : m \in G /\ (EntryPaired(G, m) <=> \E q \in Q : m = q[1])
  <2>1. SUFFICES ASSUME NEW m \in Of(G, "entry")
                 PROVE  m \in G /\ (EntryPaired(G, m) <=> \E q \in Q : m = q[1])
    OBVIOUS
  <2>2. m \in G /\ m.type = "entry" /\ \A q \in Q : m # q[2]
    BY <1>8 DEF Of
  <2>3. EntryPaired(G, m) <=> InVisit(Q, m)
    BY <1>1, <1>5, <2>2, VisitsCounted DEF Paired
  <2> QED  BY <2>2, <2>3 DEF InVisit
<1>10. ASSUME NEW v \in Q
       PROVE  v[1] \in Of(M, "entry") /\ v[1].unit = u /\ DwellEnd(M, v[1]) = v[2].id
  <2>1. EntryPaired(G, v[1]) /\ VisitEnd(G, v[1]) = v[2]
    BY <1>1, <1>5, <1>8, <1>9, VisitEnds
  <2> QED  BY <1>3, <1>4, <1>8, <2>1
<1>11. ASSUME NEW e \in ToSet(S)
       PROVE  e \in Of(M, "entry") /\ e.unit = u /\ DwellEnd(M, e) = None
  <2>1. e \in Of(G, "entry") /\ ~EntryPaired(G, e)
    BY <1>6, <1>7, <1>9
  <2> QED  BY <1>3, <1>4, <2>1
<1>12. ASSUME NEW e \in Of(M, "entry"), e.unit = u
       PROVE  e \in ToSet(S) \/ \E v \in Q : e = v[1]
  BY <1>3, <1>6, <1>7, <1>12
<1> QED  BY <1>10, <1>11, <1>12 DEF S, Q

LEMMA DwellsCounted ==
  ASSUME NEW M, Loaded(M), NEW window, NEW range, NEW baselines, \A m \in M : m.time <= range.to
  PROVE  {<<s.first, s.last>> : s \in AnyOf(BuildTimeline(M, window, range, baselines).segments, "dwell")}
           = {<<e.id, DwellEnd(M, e)>> : e \in {m \in Of(M, "entry") : range.from <= m.time}}
<1> DEFINE sorted == Sorted(M)
           last == LastEvent(sorted)
           Marked(s) == IF s.kind = "dwell" /\ s.ongoing /\ s.first # last.id
                        THEN [s EXCEPT !.anomaly = "missing_exit"] ELSE s
           dwells == Dwells(sorted, window)
           transits == Transits(sorted, window, baselines)
           segments == BuildTimeline(M, window, range, baselines).segments
           Tells(s, e) == /\ s.kind = "dwell" /\ s.start = e.time
                          /\ s.first = e.id /\ s.last = DwellEnd(M, e)
<1>1. segments = Visible({Marked(s) : s \in dwells \cup transits}, range)
  BY DEF BuildTimeline, Loaded
<1> HIDE DEF segments, last, sorted
<1>2. Passages(M) /\ M \subseteq Passage
  BY DEF Loaded
<1>3. ASSUME NEW u, NEW v \in Walk(sorted, u).visits
      PROVE  v[1] \in Of(M, "entry") /\ Tells(Marked(MakeDwell(v[1], v[2], window)), v[1])
  <2> DEFINE s == MakeDwell(v[1], v[2], window)
  <2>1. v[1] \in Of(M, "entry") /\ DwellEnd(M, v[1]) = v[2].id
    BY <1>2, WalkCounts DEF sorted
  <2>2. s.kind = "dwell" /\ ~s.ongoing /\ s.start = v[1].time /\ s.first = v[1].id /\ s.last = v[2].id
    BY DEF MakeDwell
  <2> HIDE DEF s
  <2>3. Marked(s) = s
    BY <2>2
  <2> QED  BY <2>1, <2>2, <2>3 DEF s
<1>4. ASSUME NEW u, NEW e \in ToSet(Walk(sorted, u).open)
      PROVE  e \in Of(M, "entry") /\ Tells(Marked(MakeOpenDwell(e, window)), e)
  <2>1. e \in Of(M, "entry") /\ DwellEnd(M, e) = None
    BY <1>2, WalkCounts DEF sorted
  <2>2. Marked(MakeOpenDwell(e, window)).kind = "dwell" /\ Marked(MakeOpenDwell(e, window)).start = e.time
        /\ Marked(MakeOpenDwell(e, window)).first = e.id /\ Marked(MakeOpenDwell(e, window)).last = None
    BY DEF MakeOpenDwell
  <2> HIDE DEF Marked
  <2> QED  BY <2>1, <2>2
<1>5. ASSUME NEW s \in dwells PROVE \E e \in Of(M, "entry") : Tells(Marked(s), e)
  <2>1. PICK u \in Units : s \in {MakeDwell(v[1], v[2], window) : v \in Walk(sorted, u).visits}
                                   \cup {MakeOpenDwell(e, window) : e \in ToSet(Walk(sorted, u).open)}
    BY DEF Dwells
  <2> HIDE DEF Tells, Marked
  <2> QED  BY <1>3, <1>4, <2>1
<1>6. ASSUME NEW e \in Of(M, "entry") PROVE \E s \in dwells : Tells(Marked(s), e)
  <2>1. e.unit \in Units
    BY <1>2 DEF Of, Passage
  <2>2. \/ e \in ToSet(Walk(sorted, e.unit).open)
        \/ \E v \in Walk(sorted, e.unit).visits : e = v[1]
    BY <1>2, WalkCounts DEF sorted
  <2>3. CASE e \in ToSet(Walk(sorted, e.unit).open)
    <3>1. MakeOpenDwell(e, window) \in dwells
      BY <2>1, <2>3 DEF Dwells
    <3> HIDE DEF Tells, Marked, dwells
    <3> QED  BY <1>4, <2>3, <3>1
  <2>4. ASSUME NEW v \in Walk(sorted, e.unit).visits, e = v[1] PROVE \E s \in dwells : Tells(Marked(s), e)
    <3>1. MakeDwell(v[1], v[2], window) \in dwells
      BY <2>1 DEF Dwells
    <3> HIDE DEF Tells, Marked, dwells
    <3> QED  BY <1>3, <2>4, <3>1
  <2> HIDE DEF Tells, Marked, dwells
  <2> QED  BY <2>2, <2>3, <2>4
<1>7. ASSUME NEW s \in transits PROVE Marked(s).kind = "transit"
  <2>1. ASSUME NEW d, NEW a1, s = MakeTransit(d, a1, window, baselines) PROVE Marked(s).kind = "transit"
    BY <2>1 DEF MakeTransit
  <2>2. ASSUME NEW d, s = MakeOpenTransit(d, window) PROVE Marked(s).kind = "transit"
    BY <2>2 DEF MakeOpenTransit
  <2> HIDE DEF Marked
  <2> QED  BY <2>1, <2>2 DEF Transits
<1> HIDE DEF Marked, dwells, transits
<1>8. \A s \in AnyOf(segments, "dwell") : \E e \in Of(M, "entry") : range.from <= e.time /\ Tells(s, e)
  <2>1. SUFFICES ASSUME NEW s \in AnyOf(segments, "dwell")
                 PROVE  \E e \in Of(M, "entry") : range.from <= e.time /\ Tells(s, e)
    OBVIOUS
  <2>2. s.kind = "dwell" /\ range.from <= s.start /\ \E r \in dwells \cup transits : s = Marked(r)
    BY <1>1 DEF AnyOf, Visible
  <2>3. PICK r \in dwells : s = Marked(r)
    BY <1>7, <2>2
  <2>4. PICK e \in Of(M, "entry") : Tells(s, e)
    BY <1>5, <2>3
  <2> QED  BY <2>2, <2>4
<1>9. \A e \in Of(M, "entry") : range.from <= e.time => \E s \in AnyOf(segments, "dwell") : Tells(s, e)
  <2>1. SUFFICES ASSUME NEW e \in Of(M, "entry"), range.from <= e.time
                 PROVE  \E s \in AnyOf(segments, "dwell") : Tells(s, e)
    OBVIOUS
  <2>2. PICK r \in dwells : Tells(Marked(r), e)
    BY <1>6
  <2>3. e.time <= range.to
    BY DEF Of
  <2> QED  BY <1>1, <2>1, <2>2, <2>3 DEF AnyOf, Visible
<1>10. {<<s.first, s.last>> : s \in AnyOf(segments, "dwell")}
         = {<<e.id, DwellEnd(M, e)>> : e \in {m \in Of(M, "entry") : range.from <= m.time}}
  BY <1>8, <1>9
<1> QED  BY <1>10 DEF segments

LEMMA AskCounted ==
  ASSUME PassagesInv, NEW r \in Requests, Ask(r)
  PROVE  DwellsCountVisits'
<1> DEFINE window == ToJourneyWindow(r.journey)
           range == ResolveRange(r)
           loaded == LoadMovements(range.from - Lookback, range.to, r.unit)
<1>1. PICK baselines : /\ report'.timeline = BuildTimeline(loaded, window, range, baselines)
                       /\ report'.range = range /\ report'.loaded = loaded
  <2>1. /\ report'.timeline = BuildTimeline(loaded, window, range, cache'.baselines)
        /\ report'.range = range /\ report'.loaded = loaded
    BY DEF Ask
  <2> QED  BY <2>1
<1>2. loaded \in SUBSET passages /\ \A m \in loaded : m.time <= range.to
  BY DEF LoadMovements
<1> HIDE DEF loaded, window, range
<1>3. CASE loaded = {}
  <2>1. report'.timeline = None
    BY <1>1, <1>3 DEF BuildTimeline
  <2> QED  BY <2>1 DEF DwellsCountVisits, Answered
<1>4. CASE loaded # {}
  <2>1. Loaded(loaded)
    BY <1>2, <1>4, PassagesArePassages DEF Loaded, PassagesInv
  <2>2. {<<s.first, s.last>> : s \in AnyOf(BuildTimeline(loaded, window, range, baselines).segments, "dwell")}
          = {<<e.id, DwellEnd(loaded, e)>> : e \in {m \in Of(loaded, "entry") : range.from <= m.time}}
    BY <1>2, <2>1, DwellsCounted
  <2> QED  BY <1>1, <2>2 DEF DwellsCountVisits, DwellEnd, Answered
<1> QED  BY <1>3, <1>4

\* Whatever movements a vehicle has and whatever period, unit and journey are
\* asked for, the dwells of a report are the visits counted by Pairing, which are
\* those reconcile finds (StackCounts) when both order ties alike: the stack of
\* buildDwellSegments, run over the events of each unit, finds every entry of the
\* period the same exit (movement-time.service.ts:121).
THEOREM DwellsAreCounted == ReportSpec => []DwellsCountVisits
<1>1. ReportInit => PassagesInv /\ DwellsCountVisits
  <2>1. ReportInit => passages = {} /\ ~Answered
    BY DEF ReportInit, Answered
  <2> QED  BY <2>1, FS_EmptySet DEF PassagesInv, DwellsCountVisits
<1>2. PassagesInv /\ DwellsCountVisits /\ [ReportNext]_reportVars => PassagesInv' /\ DwellsCountVisits'
  <2> SUFFICES ASSUME PassagesInv, DwellsCountVisits, [ReportNext]_reportVars
               PROVE  PassagesInv' /\ DwellsCountVisits'
    OBVIOUS
  <2>1. ASSUME NEW m \in Passage, Confirm(m) PROVE DwellsCountVisits'
    BY <2>1 DEF Confirm, DwellsCountVisits, Answered
  <2>2. ASSUME NEW r \in Requests, Ask(r) PROVE DwellsCountVisits'
    BY <2>2, AskCounted
  <2>3. ASSUME UNCHANGED reportVars PROVE DwellsCountVisits'
    BY <2>3 DEF reportVars, DwellsCountVisits, Answered
  <2> QED  BY <2>1, <2>2, <2>3, PassagesStep DEF ReportNext
<1> QED  BY <1>1, <1>2, PTL DEF ReportSpec

-----------------------------------------------------------------------------
(* Reports: the time of the segments.                                      *)

\* The fold over a set takes its elements one by one.
LEMMA SumSteps ==
  ASSUME NEW S, IsFiniteSet(S)
  PROVE  \E f : /\ f[{}] = 0
                /\ \A t \in SUBSET S : t # {} => \E x \in t : f[t] = x.minutes + f[t \ {x}]
                /\ f[S] = SumMinutes(S)
<1> DEFINE c(t) == CHOOSE x \in t : TRUE
           Sub(k) == {t \in SUBSET S : Cardinality(t) <= k}
           Folds(f, k) == f = [t \in Sub(k) |-> IF t = {} THEN 0 ELSE c(t).minutes + f[t \ {c(t)}]]
           T == {k \in Nat : ~ \E f : Folds(f, k)}
           n == Cardinality(S)
           iter == CHOOSE f : f = [t \in SUBSET S |-> IF t = {} THEN 0 ELSE c(t).minutes + f[t \ {c(t)}]]
<1>1. SumMinutes(S) = iter[S]
  BY DEF SumMinutes, MapThenSumSet, MapThenFoldSet
<1>2. ASSUME NEW t \in SUBSET S
      PROVE  /\ Cardinality(t) \in Nat /\ (Cardinality(t) = 0 <=> t = {}) /\ Cardinality(t) <= n
             /\ t # {} => c(t) \in t /\ Cardinality(t \ {c(t)}) = Cardinality(t) - 1
  <2>1. IsFiniteSet(t) /\ Cardinality(t) <= n
    BY FS_Subset
  <2>2. t # {} => c(t) \in t
    OBVIOUS
  <2> HIDE DEF c
  <2> QED  BY <2>1, <2>2, FS_CardinalityType, FS_EmptySet, FS_RemoveElement
<1>3. ASSUME T # {} PROVE FALSE
  <2>1. T \in SUBSET Nat
    OBVIOUS
  <2>2. PICK k \in T : \A j \in T : k <= j
    <3> HIDE DEF T
    <3> QED  BY <1>3, <2>1, LeastNumber
  <2>3. k \in Nat /\ ~ \E f : Folds(f, k)
    BY <2>2
  <2> HIDE DEF c
  <2>4. CASE k = 0
    <3> DEFINE f == [t \in Sub(0) |-> 0]
    <3>1. \A t \in Sub(0) : t = {}
      <4>1. SUFFICES ASSUME NEW t \in SUBSET S, Cardinality(t) <= 0 PROVE t = {}
        OBVIOUS
      <4>2. Cardinality(t) \in Nat /\ (Cardinality(t) = 0 <=> t = {})
        BY <1>2
      <4> QED  BY <4>1, <4>2
    <3>2. Folds(f, 0)
      BY <3>1
    <3> QED  BY <2>3, <2>4, <3>2
  <2>5. CASE k > 0
    <3> HIDE DEF T
    <3>1. k - 1 \in Nat /\ k - 1 \notin T
      BY <2>2, <2>3, <2>5
    <3> USE DEF T
    <3>2. PICK f : Folds(f, k - 1)
      BY <3>1
    <3> DEFINE g == [t \in Sub(k) |-> IF t = {} THEN 0 ELSE c(t).minutes + f[t \ {c(t)}]]
    <3>3. ASSUME NEW t \in Sub(k), t # {}
          PROVE  g[t \ {c(t)}] = f[t \ {c(t)}]
      <4> DEFINE r == t \ {c(t)}
      <4>1. t \in SUBSET S /\ Cardinality(t) <= k
        OBVIOUS
      <4>2. r \in SUBSET S /\ Cardinality(r) <= k - 1 /\ Cardinality(r) <= k
        <5>1. Cardinality(r) = Cardinality(t) - 1 /\ Cardinality(t) \in Nat
          BY <1>2, <3>3, <4>1
        <5> QED  BY <2>3, <4>1, <5>1
      <4>3. r \in Sub(k - 1) /\ r \in Sub(k)
        BY <4>2
      <4> HIDE DEF r, Sub
      <4>4. f[r] = IF r = {} THEN 0 ELSE c(r).minutes + f[r \ {c(r)}]
        BY <3>2, <4>3
      <4>5. g[r] = IF r = {} THEN 0 ELSE c(r).minutes + f[r \ {c(r)}]
        BY <4>3
      <4> QED  BY <4>4, <4>5 DEF r
    <3>4. \A t \in Sub(k) :
             (IF t = {} THEN 0 ELSE c(t).minutes + f[t \ {c(t)}])
               = (IF t = {} THEN 0 ELSE c(t).minutes + g[t \ {c(t)}])
      <4> HIDE DEF Sub, g
      <4> QED  BY <3>3
    <3>5. Folds(g, k)
      <4> HIDE DEF Sub
      <4> QED  BY <3>4
    <3> QED  BY <2>3, <3>5
  <2> QED  BY <2>3, <2>4, <2>5
<1>4. n \in Nat
  BY FS_CardinalityType
<1>5. \A t \in SUBSET S : Cardinality(t) <= n
  BY <1>2
<1>6. iter = [t \in SUBSET S |-> IF t = {} THEN 0 ELSE c(t).minutes + iter[t \ {c(t)}]]
  <2>1. Sub(n) = SUBSET S
    <3> HIDE DEF n
    <3> QED  BY <1>5
  <2>2. PICK f : Folds(f, n)
    <3> HIDE DEF n, Folds
    <3> QED  BY <1>3, <1>4
  <2>3. f = [t \in SUBSET S |-> IF t = {} THEN 0 ELSE c(t).minutes + f[t \ {c(t)}]]
    <3> HIDE DEF n, c, Sub
    <3> QED  BY <2>1, <2>2
  <2> HIDE DEF n, c
  <2> QED  BY <2>3
<1> HIDE DEF iter
<1>7. iter[{}] = 0
  BY <1>6
<1>8. ASSUME NEW t \in SUBSET S, t # {}
      PROVE  \E x \in t : iter[t] = x.minutes + iter[t \ {x}]
  <2>1. c(t) \in t
    BY <1>8
  <2> HIDE DEF c
  <2>2. iter[t] = c(t).minutes + iter[t \ {c(t)}]
    BY <1>6, <1>8
  <2> QED  BY <2>1, <2>2
<1> QED  BY <1>1, <1>7, <1>8

\* Segments that share no time take no more of it than there is, but for the
\* half minute of each that rounding adds.
LEMMA SumBound ==
  ASSUME NEW S, IsFiniteSet(S), NEW C,
         \A s \in S : /\ IsFiniteSet(C[s]) /\ s.minutes \in Nat
                      /\ 2 * s.minutes <= Cardinality(C[s]) + 1,
         \A s, t \in S : s # t => C[s] \cap C[t] = {}
  PROVE  /\ SumMinutes(S) \in Nat /\ IsFiniteSet(UNION {C[s] : s \in S})
         /\ 2 * SumMinutes(S) <= Cardinality(UNION {C[s] : s \in S}) + Cardinality(S)
<1>1. PICK f : /\ f[{}] = 0
               /\ \A t \in SUBSET S : t # {} => \E x \in t : f[t] = x.minutes + f[t \ {x}]
               /\ f[S] = SumMinutes(S)
  BY SumSteps
<1> DEFINE cover(t) == UNION {C[s] : s \in t}
           Good(t) == /\ f[t] \in Nat /\ IsFiniteSet(cover(t))
                      /\ 2 * f[t] <= Cardinality(cover(t)) + Cardinality(t)
           T == {Cardinality(t) : t \in {u \in SUBSET S : ~Good(u)}}
<1>2. \A t \in SUBSET S : IsFiniteSet(t) /\ Cardinality(t) \in Nat
  BY FS_Subset, FS_CardinalityType
<1>3. ASSUME NEW b \in SUBSET S, ~Good(b) PROVE FALSE
  <2>1. T \in SUBSET Nat /\ T # {}
    <3> HIDE DEF Good
    <3> QED  BY <1>2, <1>3
  <2>2. PICK k \in T : \A j \in T : k <= j
    <3> HIDE DEF T
    <3> QED  BY <2>1, LeastNumber
  <2>3. PICK t \in SUBSET S : ~Good(t) /\ Cardinality(t) = k
    <3> HIDE DEF Good
    <3> QED  BY <2>2
  <2>4. \A u \in SUBSET S : Cardinality(u) < Cardinality(t) => Good(u)
    <3> HIDE DEF Good
    <3>1. SUFFICES ASSUME NEW u \in SUBSET S, Cardinality(u) < Cardinality(t), ~Good(u) PROVE FALSE
      OBVIOUS
    <3>2. Cardinality(u) \in T
      BY <3>1
    <3> HIDE DEF T
    <3> QED  BY <1>2, <2>2, <2>3, <3>1, <3>2
  <2>5. CASE t = {}
    <3>1. cover(t) = {} /\ f[t] = 0 /\ Cardinality(t) = 0 /\ IsFiniteSet(cover(t)) /\ Cardinality(cover(t)) = 0
      <4>1. cover(t) = {}
        BY <2>5
      <4> HIDE DEF cover
      <4> QED  BY <1>1, <2>5, <4>1, FS_EmptySet
    <3> HIDE DEF cover
    <3> QED  BY <2>3, <3>1
  <2>6. CASE t # {}
    <3>1. PICK x \in t : f[t] = x.minutes + f[t \ {x}]
      BY <1>1, <2>6
    <3> DEFINE r == t \ {x}
    <3>2. r \in SUBSET S /\ Cardinality(r) = Cardinality(t) - 1 /\ Cardinality(t) \in Nat
      BY <1>2, FS_RemoveElement
    <3>3. Good(r)
      <4> HIDE DEF Good, r
      <4> QED  BY <2>4, <3>2
    <3>4. cover(t) = cover(r) \cup C[x] /\ cover(r) \cap C[x] = {}
      OBVIOUS
    <3>5. IsFiniteSet(C[x]) /\ x.minutes \in Nat /\ 2 * x.minutes <= Cardinality(C[x]) + 1
          /\ Cardinality(C[x]) \in Nat
      BY FS_CardinalityType
    <3> HIDE DEF cover, r
    <3>6. IsFiniteSet(cover(t)) /\ Cardinality(cover(t)) = Cardinality(cover(r)) + Cardinality(C[x])
          /\ Cardinality(cover(r)) \in Nat
      <4>1. IsFiniteSet(cover(r)) /\ Cardinality(cover(r)) \in Nat
        BY <3>3, FS_CardinalityType
      <4>2. Cardinality(cover(r) \cap C[x]) = 0
        BY <3>4, FS_EmptySet
      <4>3. /\ IsFiniteSet(cover(r) \cup C[x])
            /\ Cardinality(cover(r) \cup C[x])
                 = Cardinality(cover(r)) + Cardinality(C[x]) - Cardinality(cover(r) \cap C[x])
        BY <3>5, <4>1, FS_Union
      <4> QED  BY <3>4, <3>5, <4>1, <4>2, <4>3
    <3>7. f[t] = x.minutes + f[r]
      BY <3>1 DEF r
    <3>8. f[r] \in Nat /\ 2 * f[r] <= Cardinality(cover(r)) + Cardinality(r)
      BY <3>3
    <3>9. f[t] \in Nat /\ 2 * f[t] <= Cardinality(cover(t)) + Cardinality(t)
      BY <3>2, <3>5, <3>6, <3>7, <3>8
    <3> QED  BY <2>3, <3>6, <3>9
  <2> QED  BY <2>5, <2>6
<1>4. Good(S)
  BY <1>3
<1> QED  BY <1>1, <1>4

\* The entries of a sequence, each with the movement that follows it.
Followed(s) == {<<s[i], s[i + 1]>> : i \in {i \in 1 .. Len(s) - 1 : s[i].type = "entry"}}

\* Among movements that alternate a visit is an entry and the exit that follows it.
LEMMA WalkAlternates ==
  ASSUME NEW M, \A m \in M : m.type \in {"entry", "exit"},
         NEW n \in Nat, NEW s \in [1 .. n -> M], Len(s) = n, Alternating(s), NEW u
  PROVE  Walk(s, u).visits \subseteq Followed(s)
<1>1. PICK w : /\ w[0] = NoVisit
               /\ \A k \in 0 .. n - 1 : w[k + 1] = Close(u, w[k], s[k + 1])
               /\ w[n] = Walk(s, u)
  BY WalkSteps
<1> DEFINE V == {v \in M \X M : \E i \in 1 .. n - 1 : v = <<s[i], s[i + 1]>> /\ s[i].type = "entry"}
           Waiting(k) == IF k # 0 /\ s[k].type = "entry" /\ s[k].unit = u THEN <<s[k]>> ELSE <<>>
           Good(k) == w[k] = [open |-> Waiting(k), visits |-> w[k].visits] /\ w[k].visits \subseteq V
           T == {k \in 0 .. n : ~Good(k)}
<1>2. ASSUME T # {} PROVE FALSE
  <2>1. T \in SUBSET Nat
    OBVIOUS
  <2>2. PICK k \in T : \A j \in T : k <= j
    <3> HIDE DEF T
    <3> QED  BY <1>2, <2>1, LeastNumber
  <2>3. k \in 0 .. n /\ ~Good(k)
    BY <2>2
  <2>4. Good(0)
    BY <1>1 DEF NoVisit
  <2>5. k - 1 \in 0 .. n - 1 /\ k \in 1 .. n /\ k # 0
    <3> HIDE DEF Good
    <3> QED  BY <2>3, <2>4
  <2>6. k - 1 \notin T
    <3> HIDE DEF T
    <3> QED  BY <2>2, <2>5
  <2>7. Good(k - 1)
    <3> HIDE DEF Good
    <3> QED  BY <2>5, <2>6
  <2> DEFINE e == s[k]
             p == s[k - 1]
             walk == w[k - 1]
  <2>8. w[k] = Close(u, walk, e) /\ e \in M
    <3>1. (k - 1) + 1 = k
      BY <2>5
    <3> QED  BY <1>1, <2>5, <3>1
  <2>9. walk = [open |-> Waiting(k - 1), visits |-> walk.visits] /\ walk.visits \subseteq V
    BY <2>7
  <2>10. k - 1 # 0 => /\ p.type # e.type /\ (p.type = "entry" => p.unit = e.unit) /\ p \in M
                      /\ k - 1 \in 1 .. n - 1 /\ (k - 1) + 1 = k
    <3>1. SUFFICES ASSUME k - 1 # 0
                   PROVE  /\ p.type # e.type /\ (p.type = "entry" => p.unit = e.unit) /\ p \in M
                          /\ k - 1 \in 1 .. n - 1 /\ (k - 1) + 1 = k
      OBVIOUS
    <3>2. k - 1 \in 1 .. n - 1 /\ k - 1 \in 1 .. n /\ (k - 1) + 1 = k
      BY <2>5, <3>1
    <3> QED  BY <3>2 DEF Alternating
  <2>11. e.type \in {"entry", "exit"}
    BY <2>8
  <2>12. Waiting(k) = IF e.type = "entry" /\ e.unit = u THEN <<e>> ELSE <<>>
    BY <2>5
  <2>13. Waiting(k - 1) = IF k - 1 # 0 /\ p.type = "entry" /\ p.unit = u THEN <<p>> ELSE <<>>
    OBVIOUS
  <2>14. k - 1 # 0 /\ p.type = "entry" => <<p, e>> \in V
    <3>1. SUFFICES ASSUME k - 1 # 0, p.type = "entry" PROVE <<p, e>> \in V
      OBVIOUS
    <3>2. <<p, e>> = <<s[k - 1], s[(k - 1) + 1]>>
      BY <2>10, <3>1
    <3> QED  BY <2>8, <2>10, <3>1, <3>2
  <2> HIDE DEF Waiting, V, walk, p, e
  <2>15. CASE e.unit # u
    <3>1. Waiting(k) = <<>> /\ Waiting(k - 1) = <<>>
      BY <2>10, <2>12, <2>13, <2>15
    <3>2. w[k] = walk
      BY <2>8, <2>15 DEF Close
    <3> QED  BY <2>3, <2>9, <3>1, <3>2
  <2>16. CASE e.unit = u /\ e.type = "entry"
    <3>1. Waiting(k) = <<e>> /\ Waiting(k - 1) = <<>>
      BY <2>10, <2>12, <2>13, <2>16
    <3>2. Append(<<>>, e) = <<e>>
      OBVIOUS
    <3>3. w[k] = [walk EXCEPT !.open = Append(@, e)]
      BY <2>8, <2>16 DEF Close
    <3>4. w[k] = [open |-> <<e>>, visits |-> walk.visits]
      BY <2>9, <3>1, <3>2, <3>3
    <3> QED  BY <2>3, <2>9, <3>1, <3>4
  <2>17. CASE e.unit = u /\ e.type = "exit" /\ Waiting(k - 1) = <<>>
    <3>1. Waiting(k) = <<>>
      BY <2>12, <2>17
    <3>2. w[k] = walk
      BY <2>8, <2>9, <2>17 DEF Close
    <3> QED  BY <2>3, <2>9, <2>17, <3>1, <3>2
  <2>18. CASE e.unit = u /\ e.type = "exit" /\ Waiting(k - 1) # <<>>
    <3>1. Waiting(k) = <<>> /\ Waiting(k - 1) = <<p>> /\ <<p, e>> \in V
      BY <2>12, <2>13, <2>14, <2>18
    <3>2. Front(<<p>>) = <<>> /\ Last(<<p>>) = p
      BY DEF Front, Last
    <3>3. walk.open = <<p>>
      BY <2>9, <3>1
    <3>4. w[k] = [open |-> Front(walk.open), visits |-> walk.visits \cup {<<Last(walk.open), e>>}]
      BY <2>8, <2>18, <3>1, <3>3 DEF Close
    <3>5. w[k] = [open |-> <<>>, visits |-> walk.visits \cup {<<p, e>>}]
      BY <3>2, <3>3, <3>4
    <3> QED  BY <2>3, <2>9, <3>1, <3>5
  <2> QED  BY <2>11, <2>15, <2>16, <2>17, <2>18
<1>3. Good(n)
  <2>1. n \in 0 .. n
    OBVIOUS
  <2> HIDE DEF Good
  <2> QED  BY <1>2, <2>1
<1>4. V \subseteq Followed(s)
  BY DEF Followed
<1> QED  BY <1>1, <1>3, <1>4

LEMMA MinutesOf ==
  ASSUME NEW from \in Nat, NEW to \in Nat, from <= to
  PROVE  DiffMinutes(from, to) \in Nat /\ 2 * DiffMinutes(from, to) <= to - from + 1
<1> DEFINE m == (to - from + 1) \div 2
<1>1. m \in Nat /\ 2 * m <= to - from + 1
  <2> DEFINE d == to - from + 1
  <2>1. d \in Nat
    OBVIOUS
  <2> HIDE DEF d
  <2>2. d \div 2 \in Nat /\ 2 * (d \div 2) <= d
    BY <2>1
  <2> QED  BY <2>2 DEF d
<1>2. DiffMinutes(from, to) = Max({0, m})
  BY DEF DiffMinutes
<1> HIDE DEF m
<1>3. Max({0, m}) = m
  <2>1. \A x \in {0, m} : m >= x
    BY <1>1
  <2>2. \A x \in {0, m} : (\A y \in {0, m} : x >= y) => x = m
    BY <1>1
  <2> QED  BY <2>1, <2>2 DEF Max
<1> QED  BY <1>1, <1>2, <1>3 DEF m

\* The completed segments of a vehicle whose movements alternate lie one after
\* the other between its movements.
LEMMA SegmentsFollow ==
  ASSUME NEW M, Loaded(M), Alternating(Sorted(M)), NEW window, NEW range, NEW baselines
  PROVE  \A s \in BuildTimeline(M, window, range, baselines).segments :
            /\ s.kind \in {"dwell", "transit"}
            /\ range.from <= s.start
            /\ ~s.ongoing =>
                  \E i \in 1 .. Cardinality(M) - 1 :
                     s = IF Sorted(M)[i].type = "entry" THEN MakeDwell(Sorted(M)[i], Sorted(M)[i + 1], window)
                         ELSE MakeTransit(Sorted(M)[i], Sorted(M)[i + 1], window, baselines)
<1> DEFINE n == Cardinality(M)
           sorted == Sorted(M)
           last == LastEvent(sorted)
           Marked(s) == IF s.kind = "dwell" /\ s.ongoing /\ s.first # last.id
                        THEN [s EXCEPT !.anomaly = "missing_exit"] ELSE s
           all == Dwells(sorted, window) \cup Transits(sorted, window, baselines)
           Seg(i) == IF sorted[i].type = "entry" THEN MakeDwell(sorted[i], sorted[i + 1], window)
                     ELSE MakeTransit(sorted[i], sorted[i + 1], window, baselines)
           Follows(s) == s.kind \in {"dwell", "transit"} /\ (~s.ongoing => \E i \in 1 .. n - 1 : s = Seg(i))
<1>1. /\ n \in Nat /\ sorted \in [1 .. n -> M] /\ Len(sorted) = n /\ Alternating(sorted)
      /\ \A m \in M : m.type \in {"entry", "exit"}
  BY SortedIs DEF Loaded, Passages
<1>2. BuildTimeline(M, window, range, baselines).segments = Visible({Marked(s) : s \in all}, range)
  BY DEF BuildTimeline, Loaded
<1> HIDE DEF sorted, last, n
<1>3. ASSUME NEW r \in all PROVE Follows(Marked(r))
  <2>1. CASE r \in Dwells(sorted, window)
    <3>1. PICK u \in Units : r \in {MakeDwell(v[1], v[2], window) : v \in Walk(sorted, u).visits}
                                     \cup {MakeOpenDwell(e, window) : e \in ToSet(Walk(sorted, u).open)}
      BY <2>1 DEF Dwells
    <3>2. ASSUME NEW v \in Walk(sorted, u).visits, r = MakeDwell(v[1], v[2], window)
          PROVE  Follows(Marked(r))
      <4>1. PICK i \in 1 .. n - 1 : v = <<sorted[i], sorted[i + 1]>> /\ sorted[i].type = "entry"
        <5>1. v \in Followed(sorted)
          BY <1>1, WalkAlternates
        <5> HIDE DEF Seg, Follows, Marked
        <5> QED  BY <1>1, <5>1 DEF Followed
      <4>2. r.kind = "dwell" /\ ~r.ongoing
        BY <3>2 DEF MakeDwell
      <4>3. Marked(r) = r
        BY <4>2
      <4>4. r = Seg(i)
        BY <3>2, <4>1
      <4> HIDE DEF Marked, Seg
      <4> QED  BY <4>2, <4>3, <4>4
    <3>3. ASSUME NEW e, r = MakeOpenDwell(e, window)
          PROVE  Follows(Marked(r))
      <4>1. Marked(r).kind = "dwell" /\ Marked(r).ongoing
        BY <3>3 DEF MakeOpenDwell
      <4> HIDE DEF Marked, Seg
      <4> QED  BY <4>1
    <3> HIDE DEF Follows, Marked
    <3> QED  BY <3>1, <3>2, <3>3
  <2>2. CASE r \in Transits(sorted, window, baselines)
    <3>1. ASSUME NEW i \in 1 .. Len(sorted) - 1, sorted[i].type = "exit",
                 r = MakeTransit(sorted[i], sorted[i + 1], window, baselines)
          PROVE  Follows(Marked(r))
      <4>1. r.kind = "transit"
        BY <3>1 DEF MakeTransit
      <4>2. Marked(r) = r
        BY <4>1
      <4>3. r = Seg(i) /\ i \in 1 .. n - 1
        BY <1>1, <3>1
      <4> HIDE DEF Marked, Seg
      <4> QED  BY <4>1, <4>2, <4>3
    <3>2. ASSUME NEW d, r = MakeOpenTransit(d, window)
          PROVE  Follows(Marked(r))
      <4>1. r.kind = "transit" /\ r.ongoing
        BY <3>2 DEF MakeOpenTransit
      <4>2. Marked(r) = r
        BY <4>1
      <4> HIDE DEF Marked, Seg
      <4> QED  BY <4>1, <4>2
    <3> HIDE DEF Follows, Marked
    <3> QED  BY <2>2, <3>1, <3>2 DEF Transits
  <2> QED  BY <2>1, <2>2
<1> HIDE DEF Marked, all, Seg
<1>4. ASSUME NEW s \in BuildTimeline(M, window, range, baselines).segments
      PROVE  Follows(s) /\ range.from <= s.start
  <2>1. s \in {Marked(r) : r \in all} /\ range.from <= s.start
    BY <1>2 DEF Visible
  <2>2. PICK r \in all : s = Marked(r)
    BY <2>1
  <2> HIDE DEF Follows
  <2> QED  BY <1>3, <2>1, <2>2
<1> QED  BY <1>4 DEF Seg, n, sorted

LEMMA TimeBound ==
  ASSUME NEW M, Loaded(M), Alternating(Sorted(M)), NEW window, NEW range, NEW baselines,
         range.from \in Int, range.to \in Int, \A m \in M : m.time <= range.to
  PROVE  LET segments == BuildTimeline(M, window, range, baselines).segments
             parts == {s \in segments : ~s.ongoing}
         IN 2 * (SumMinutes(Completed(segments, "dwell")) + SumMinutes(Completed(segments, "transit")))
              <= Max({0, range.to - range.from}) + Cardinality(parts)
<1> DEFINE n == Cardinality(M)
           t == [i \in 1 .. n |-> Sorted(M)[i].time]
           segments == BuildTimeline(M, window, range, baselines).segments
           parts == {s \in segments : ~s.ongoing}
           D == Completed(segments, "dwell")
           R == Completed(segments, "transit")
           from == range.from
           to == range.to
           Seg(i) == IF Sorted(M)[i].type = "entry" THEN MakeDwell(Sorted(M)[i], Sorted(M)[i + 1], window)
                     ELSE MakeTransit(Sorted(M)[i], Sorted(M)[i + 1], window, baselines)
           ix == [s \in parts |-> CHOOSE i \in 1 .. n - 1 : s = Seg(i)]
           C == [s \in parts |-> t[ix[s]] + 1 .. t[ix[s] + 1]]
<1>1. n \in Nat /\ \A i \in 1 .. n : Sorted(M)[i] \in M /\ t[i] \in Nat /\ t[i] <= to
  BY SortedIs DEF Loaded, Passages
<1>2. \A i, j \in 1 .. n : i < j => t[i] <= t[j]
  <2>1. SUFFICES ASSUME NEW i \in 1 .. n, NEW j \in 1 .. n, i < j PROVE t[i] <= t[j]
    OBVIOUS
  <2>2. Before(Sorted(M)[i], Sorted(M)[j])
    BY <2>1, SortedIs DEF Loaded
  <2>3. t[i] = Sorted(M)[i].time /\ t[j] = Sorted(M)[j].time
    OBVIOUS
  <2> HIDE DEF t
  <2> QED  BY <1>1, <2>2, <2>3 DEF Before
<1>3. ASSUME NEW i \in 1 .. n - 1
      PROVE  Seg(i).start = t[i] /\ Seg(i).minutes = DiffMinutes(t[i], t[i + 1])
  <2>1. i \in 1 .. n /\ i + 1 \in 1 .. n
    BY <1>1
  <2>2. t[i] = Sorted(M)[i].time /\ t[i + 1] = Sorted(M)[i + 1].time
    BY <2>1
  <2> HIDE DEF t
  <2> QED  BY <2>2 DEF MakeDwell, MakeTransit
<1>4. ASSUME NEW s \in parts
      PROVE  s.kind \in {"dwell", "transit"} /\ from <= s.start /\ \E i \in 1 .. n - 1 : s = Seg(i)
  BY SegmentsFollow
<1> HIDE DEF t, segments, from, to, Seg, n
<1>5. ASSUME NEW s \in parts
      PROVE  /\ ix[s] \in 1 .. n - 1 /\ s = Seg(ix[s]) /\ C[s] = t[ix[s]] + 1 .. t[ix[s] + 1]
             /\ from <= t[ix[s]] /\ s.minutes = DiffMinutes(t[ix[s]], t[ix[s] + 1])
  <2>1. ix[s] \in 1 .. n - 1 /\ s = Seg(ix[s])
    BY <1>4
  <2> HIDE DEF ix
  <2> QED  BY <1>3, <1>4, <2>1
<1>6. ASSUME NEW i \in 1 .. n - 1
      PROVE  /\ t[i] \in Nat /\ t[i + 1] \in Nat /\ t[i] <= t[i + 1] /\ t[i + 1] <= to
             /\ IsFiniteSet(t[i] + 1 .. t[i + 1]) /\ Cardinality(t[i] + 1 .. t[i + 1]) = t[i + 1] - t[i]
  <2>1. i \in 1 .. n /\ i + 1 \in 1 .. n /\ i < i + 1
    BY <1>1
  <2>2. t[i] \in Nat /\ t[i + 1] \in Nat /\ t[i] <= t[i + 1] /\ t[i + 1] <= to
    BY <1>1, <1>2, <2>1
  <2>3. t[i] + 1 \in Int /\ t[i + 1] \in Int
    BY <2>2
  <2>4. /\ IsFiniteSet(t[i] + 1 .. t[i + 1])
        /\ Cardinality(t[i] + 1 .. t[i + 1]) = IF t[i] + 1 > t[i + 1] THEN 0 ELSE t[i + 1] - (t[i] + 1) + 1
    BY <2>3, FS_Interval
  <2> QED  BY <2>2, <2>4
<1>7. \A s \in parts : IsFiniteSet(C[s]) /\ s.minutes \in Nat /\ 2 * s.minutes <= Cardinality(C[s]) + 1
  <2>1. SUFFICES ASSUME NEW s \in parts
                 PROVE  IsFiniteSet(C[s]) /\ s.minutes \in Nat /\ 2 * s.minutes <= Cardinality(C[s]) + 1
    OBVIOUS
  <2> DEFINE i == ix[s]
  <2>2. i \in 1 .. n - 1 /\ C[s] = t[i] + 1 .. t[i + 1] /\ s.minutes = DiffMinutes(t[i], t[i + 1])
    BY <1>5
  <2> HIDE DEF i, C
  <2> QED  BY <1>6, <2>2, MinutesOf
<1>8. \A s, r \in parts : s # r => C[s] \cap C[r] = {}
  <2>1. SUFFICES ASSUME NEW s \in parts, NEW r \in parts, s # r, NEW x \in C[s] \cap C[r] PROVE FALSE
    OBVIOUS
  <2> DEFINE i == ix[s]
             j == ix[r]
  <2>2. /\ i \in 1 .. n - 1 /\ s = Seg(i) /\ C[s] = t[i] + 1 .. t[i + 1]
        /\ j \in 1 .. n - 1 /\ r = Seg(j) /\ C[r] = t[j] + 1 .. t[j + 1]
    BY <1>5
  <2> HIDE DEF i, j, C
  <2>3. i # j
    BY <2>1, <2>2
  <2>4. x \in Int /\ t[i] < x /\ x <= t[i + 1] /\ t[j] < x /\ x <= t[j + 1]
    BY <1>6, <2>1, <2>2
  <2>5. t[i] \in Nat /\ t[i + 1] \in Nat /\ t[j] \in Nat /\ t[j + 1] \in Nat
    BY <1>6, <2>2
  <2>6. CASE i < j
    <3>1. t[i + 1] <= t[j]
      <4>1. i + 1 = j \/ (i + 1 < j /\ i + 1 \in 1 .. n /\ j \in 1 .. n)
        BY <1>1, <2>2, <2>6
      <4> QED  BY <1>2, <2>5, <4>1
    <3> QED  BY <2>4, <2>5, <3>1
  <2>7. CASE j < i
    <3>1. t[j + 1] <= t[i]
      <4>1. j + 1 = i \/ (j + 1 < i /\ j + 1 \in 1 .. n /\ i \in 1 .. n)
        BY <1>1, <2>2, <2>7
      <4> QED  BY <1>2, <2>5, <4>1
    <3> QED  BY <2>4, <2>5, <3>1
  <2> QED  BY <1>1, <2>2, <2>3, <2>6, <2>7
<1>9. IsFiniteSet(parts)
  <2>1. ix \in Injection(parts, 1 .. n - 1)
    <3>1. ix \in [parts -> 1 .. n - 1]
      <4>1. \A s \in parts : ix[s] \in 1 .. n - 1
        BY <1>5
      <4> QED  BY <4>1
    <3>2. \A s, r \in parts : ix[s] = ix[r] => s = r
      <4>1. SUFFICES ASSUME NEW s \in parts, NEW r \in parts, ix[s] = ix[r] PROVE s = r
        OBVIOUS
      <4>2. s = Seg(ix[s]) /\ r = Seg(ix[r])
        BY <1>5
      <4> HIDE DEF ix
      <4> QED  BY <4>1, <4>2
    <3> HIDE DEF ix
    <3> QED  BY <3>1, <3>2 DEF Injection, IsInjective
  <2>2. IsFiniteSet(1 .. n - 1)
    BY <1>1, FS_Interval
  <2> QED  BY <2>1, <2>2, FS_Injection
<1>10. D \in SUBSET parts /\ R \in SUBSET parts /\ D \cup R = parts /\ D \cap R = {}
  <2>1. D = {s \in parts : s.kind = "dwell"} /\ R = {s \in parts : s.kind = "transit"}
    BY DEF Completed
  <2>2. \A s \in parts : s.kind \in {"dwell", "transit"}
    BY <1>4
  <2> HIDE DEF parts, D, R
  <2> QED  BY <2>1, <2>2
<1> DEFINE cover(S) == UNION {C[s] : s \in S}
<1> HIDE DEF parts, D, R, ix, C
<1>11. ASSUME NEW S \in SUBSET parts
       PROVE  /\ IsFiniteSet(S) /\ SumMinutes(S) \in Nat /\ IsFiniteSet(cover(S))
              /\ 2 * SumMinutes(S) <= Cardinality(cover(S)) + Cardinality(S)
  <2>1. IsFiniteSet(S)
    BY <1>9, FS_Subset
  <2>2. \A s \in S : IsFiniteSet(C[s]) /\ s.minutes \in Nat /\ 2 * s.minutes <= Cardinality(C[s]) + 1
    BY <1>7
  <2>3. \A s, r \in S : s # r => C[s] \cap C[r] = {}
    BY <1>8
  <2>4. /\ SumMinutes(S) \in Nat /\ IsFiniteSet(UNION {C[s] : s \in S})
        /\ 2 * SumMinutes(S) <= Cardinality(UNION {C[s] : s \in S}) + Cardinality(S)
    BY <2>1, <2>2, <2>3, SumBound
  <2> QED  BY <2>1, <2>4
<1>12. cover(D) \cap cover(R) = {}
  <2>1. \A s \in D, r \in R : s # r /\ s \in parts /\ r \in parts
    BY <1>10
  <2>2. \A s \in D, r \in R : C[s] \cap C[r] = {}
    BY <1>8, <2>1
  <2> QED  BY <2>2
<1>13. cover(D) \cup cover(R) \subseteq from + 1 .. to
  <2>1. ASSUME NEW s \in parts PROVE C[s] \subseteq from + 1 .. to
    <3> DEFINE i == ix[s]
    <3>1. i \in 1 .. n - 1 /\ C[s] = t[i] + 1 .. t[i + 1] /\ from <= t[i]
      BY <1>5
    <3> HIDE DEF i
    <3>2. t[i] \in Nat /\ t[i + 1] \in Nat /\ t[i + 1] <= to /\ from \in Int /\ to \in Int
      BY <1>6, <3>1 DEF from, to
    <3>3. ASSUME NEW x \in C[s] PROVE x \in from + 1 .. to
      BY <3>1, <3>2, <3>3
    <3> QED  BY <3>3
  <2> QED  BY <1>10, <2>1
<1>14. Cardinality(cover(D)) + Cardinality(cover(R)) <= Max({0, to - from})
  <2>1. from \in Int /\ to \in Int
    BY DEF from, to
  <2>2. IsFiniteSet(from + 1 .. to) /\ Cardinality(from + 1 .. to) = IF from + 1 > to THEN 0 ELSE to - from
    <3>1. from + 1 \in Int
      BY <2>1
    <3>2. IsFiniteSet(from + 1 .. to) /\ Cardinality(from + 1 .. to) = IF from + 1 > to THEN 0 ELSE to - (from + 1) + 1
      BY <2>1, <3>1, FS_Interval
    <3> QED  BY <2>1, <3>2
  <2> DEFINE A == cover(D)
             B == cover(R)
  <2>3. IsFiniteSet(A) /\ IsFiniteSet(B) /\ A \cap B = {} /\ A \cup B \subseteq from + 1 .. to
    BY <1>10, <1>11, <1>12, <1>13
  <2> HIDE DEF A, B, cover
  <2>4. Cardinality(A) \in Nat /\ Cardinality(B) \in Nat /\ Cardinality(A \cap B) = 0
    BY <2>3, FS_CardinalityType, FS_EmptySet
  <2>5. Cardinality(A \cup B) = Cardinality(A) + Cardinality(B) - Cardinality(A \cap B)
    BY <2>3, FS_Union
  <2>6. Cardinality(A \cup B) <= Cardinality(from + 1 .. to)
    BY <2>2, <2>3, FS_Subset
  <2>7. Max({0, to - from}) = IF to - from > 0 THEN to - from ELSE 0
    <3> DEFINE m == IF to - from > 0 THEN to - from ELSE 0
    <3>1. m \in {0, to - from} /\ (\A x \in {0, to - from} : m >= x)
          /\ \A x \in {0, to - from} : (\A y \in {0, to - from} : x >= y) => x = m
      BY <2>1
    <3> HIDE DEF m
    <3>2. Max({0, to - from}) = m
      BY <3>1 DEF Max
    <3> QED  BY <3>2 DEF m
  <2>8. Cardinality(A) + Cardinality(B) <= Max({0, to - from})
    BY <2>1, <2>2, <2>4, <2>5, <2>6, <2>7
  <2> QED  BY <2>8 DEF A, B
<1>15. Cardinality(parts) = Cardinality(D) + Cardinality(R) /\ Cardinality(D) \in Nat /\ Cardinality(R) \in Nat
  <2>1. IsFiniteSet(D) /\ IsFiniteSet(R)
    BY <1>10, <1>11
  <2>2. Cardinality(D) \in Nat /\ Cardinality(R) \in Nat
    BY <2>1, FS_CardinalityType
  <2>4. Cardinality(D \cap R) = 0
    BY <1>10, FS_EmptySet
  <2>3. Cardinality(D \cup R) = Cardinality(D) + Cardinality(R) - Cardinality(D \cap R)
    BY <2>1, FS_Union
  <2>5. Cardinality(parts) = Cardinality(D \cup R)
    BY <1>10
  <2> QED  BY <2>2, <2>3, <2>4, <2>5
<1>16. 2 * (SumMinutes(D) + SumMinutes(R)) <= Max({0, to - from}) + Cardinality(parts)
  <2>1. /\ SumMinutes(D) \in Nat /\ 2 * SumMinutes(D) <= Cardinality(cover(D)) + Cardinality(D)
        /\ SumMinutes(R) \in Nat /\ 2 * SumMinutes(R) <= Cardinality(cover(R)) + Cardinality(R)
    BY <1>10, <1>11
  <2>2. Cardinality(cover(D)) \in Nat /\ Cardinality(cover(R)) \in Nat
    <3>1. IsFiniteSet(cover(D)) /\ IsFiniteSet(cover(R))
      BY <1>10, <1>11
    <3> HIDE DEF cover
    <3> QED  BY <3>1, FS_CardinalityType
  <2> HIDE DEF cover
  <2>3. Max({0, to - from}) \in Int
    <3>1. \A x \in {0, to - from} : x \in Int
      BY DEF to, from
    <3>2. to - from >= 0 \/ 0 >= to - from
      BY DEF to, from
    <3>3. \E x \in {0, to - from} : \A y \in {0, to - from} : x >= y
      BY <3>1, <3>2 DEF to, from
    <3> QED  BY <3>1, <3>3 DEF Max
  <2> QED  BY <1>14, <1>15, <2>1, <2>2, <2>3
<1> QED  BY <1>16 DEF segments, parts, D, R, from, to

\* A report that was made of these movements accounts for their time.
LEMMA AskAddsUp ==
  ASSUME PassagesInv, NEW r \in Requests, Ask(r)
  PROVE  TimeAddsUp'
<1> DEFINE window == ToJourneyWindow(r.journey)
           range == ResolveRange(r)
           loaded == LoadMovements(range.from - Lookback, range.to, r.unit)
           segments == report'.timeline.segments
<1>1. PICK baselines : /\ report'.timeline = BuildTimeline(loaded, window, range, baselines)
                       /\ report'.range = range /\ report'.loaded = loaded
  <2>1. /\ report'.timeline = BuildTimeline(loaded, window, range, cache'.baselines)
        /\ report'.range = range /\ report'.loaded = loaded
    BY DEF Ask
  <2> QED  BY <2>1
<1>2. report'.timeline # None => report'.utilization = UtilizationReport(segments, range)
  BY DEF Ask
<1>3. loaded \in SUBSET passages /\ \A m \in loaded : m.time <= range.to
  BY DEF LoadMovements
<1>4. range.from \in Int /\ range.to \in Int
  <2>1. r.from \in Int \cup {None} /\ r.to \in Int \cup {None} /\ Now \in Int /\ DefaultRange \in Int
    BY ReportsAssumption
  <2> DEFINE to == IF r.to = None THEN Now ELSE r.to
             from == IF r.from = None THEN to - DefaultRange ELSE r.from
  <2>2. to \in Int /\ from \in Int
    BY <2>1
  <2>3. range.from = from /\ range.to = to
    BY DEF ResolveRange
  <2> QED  BY <2>2, <2>3
<1> HIDE DEF loaded, window, range
<1>5. CASE loaded = {}
  <2>1. report'.timeline = None
    BY <1>1, <1>5 DEF BuildTimeline
  <2> QED  BY <2>1 DEF TimeAddsUp, Answered
<1>6. CASE loaded # {}
  <2>1. Loaded(loaded)
    BY <1>3, <1>6, PassagesArePassages DEF Loaded, PassagesInv
  <2>2. SUFFICES ASSUME report'.timeline # None, Alternating(Sorted(loaded))
                 PROVE  2 * (report'.utilization.dwell + report'.utilization.transit)
                          <= Max({0, range.to - range.from}) + Cardinality({s \in segments : ~s.ongoing})
    BY <1>1 DEF TimeAddsUp, Answered
  <2>3. segments = BuildTimeline(loaded, window, range, baselines).segments
    BY <1>1
  <2>4. /\ report'.utilization.dwell = SumMinutes(Completed(segments, "dwell"))
        /\ report'.utilization.transit = SumMinutes(Completed(segments, "transit"))
    BY <1>2, <2>2 DEF UtilizationReport
  <2> HIDE DEF segments
  <2>5. 2 * (SumMinutes(Completed(segments, "dwell")) + SumMinutes(Completed(segments, "transit")))
          <= Max({0, range.to - range.from}) + Cardinality({s \in segments : ~s.ongoing})
    BY <1>3, <1>4, <2>1, <2>2, <2>3, TimeBound
  <2> QED  BY <2>4, <2>5
<1> QED  BY <1>5, <1>6

\* Whatever alternating movements a vehicle has and whatever period is asked
\* for, its dwells and transits account for no more time than the period has,
\* but for the half minute that rounding adds to each of them
\* (getUtilizationReport, buildSummary).
THEOREM UseFitsThePeriod == ReportSpec => []TimeAddsUp
<1>1. ReportInit => PassagesInv /\ TimeAddsUp
  <2>1. ReportInit => passages = {} /\ ~Answered
    BY DEF ReportInit, Answered
  <2> QED  BY <2>1, FS_EmptySet DEF PassagesInv, TimeAddsUp
<1>2. PassagesInv /\ TimeAddsUp /\ [ReportNext]_reportVars => PassagesInv' /\ TimeAddsUp'
  <2> SUFFICES ASSUME PassagesInv, TimeAddsUp, [ReportNext]_reportVars
               PROVE  PassagesInv' /\ TimeAddsUp'
    OBVIOUS
  <2>1. ASSUME NEW m \in Passage, Confirm(m) PROVE TimeAddsUp'
    BY <2>1 DEF Confirm, TimeAddsUp, Answered
  <2>2. ASSUME NEW r \in Requests, Ask(r) PROVE TimeAddsUp'
    BY <2>2, AskAddsUp
  <2>3. ASSUME UNCHANGED reportVars PROVE TimeAddsUp'
    BY <2>3 DEF reportVars, TimeAddsUp, Answered
  <2> QED  BY <2>1, <2>2, <2>3, PassagesStep DEF ReportNext
<1> QED  BY <1>1, <1>2, PTL DEF ReportSpec
=============================================================================
