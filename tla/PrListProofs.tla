---------------------------- MODULE PrListProofs ----------------------------
(***************************************************************************)
(* Proofs about PrList, for every set of entries and of values: the links  *)
(* of the list always form one ring, and no pointer that is followed later *)
(* leads to released memory.                                               *)
(***************************************************************************)
EXTENDS PrList, SequenceTheorems, TLAPS

\* The next and prev fields of the entries of a ring lead to entries of it.
LEMMA RingClosed ==
    ASSUME NEW s \in Seq(All), NEW n \in [All -> All], NEW q \in [All -> All],
           Ring(s, n, q), NEW i \in 1..Len(s)
    PROVE  /\ \E j \in 1..Len(s) : n[s[i]] = s[j]
           /\ \E j \in 1..Len(s) : q[s[i]] = s[j]
<1>1. Len(s) \in Nat /\ Len(s) > 0
  BY DEF Ring
<1>2. \E j \in 1..Len(s) : n[s[i]] = s[j]
  <2>1. CASE i = Len(s)
    BY <1>1, <2>1 DEF Ring
  <2>2. CASE i # Len(s)
    <3>1. i \in 1..(Len(s) - 1) /\ i + 1 \in 1..Len(s)
      BY <1>1, <2>2
    <3>. QED  BY <3>1 DEF Ring
  <2>. QED  BY <2>1, <2>2
<1>3. \E j \in 1..Len(s) : q[s[i]] = s[j]
  <2>1. CASE i = 1
    BY <1>1, <2>1 DEF Ring
  <2>2. CASE i # 1
    <3>1. i - 1 \in 1..(Len(s) - 1) /\ (i - 1) + 1 = i /\ i - 1 \in 1..Len(s)
      BY <1>1, <2>2
    <3>2. q[s[(i - 1) + 1]] = s[i - 1]
      BY <3>1 DEF Ring
    <3>. QED  BY <3>1, <3>2
  <2>. QED  BY <2>1, <2>2
<1>. QED  BY <1>2, <1>3

\* A sequence with an element put in.
LEMMA InsertAtSeq ==
    ASSUME NEW s \in Seq(All), NEW k \in 1..(Len(s) + 1), NEW e \in All
    PROVE  /\ InsertAt(s, k, e) \in Seq(All)
           /\ Len(InsertAt(s, k, e)) = Len(s) + 1
           /\ \A j \in 1..(Len(s) + 1) :
                 InsertAt(s, k, e)[j] = IF j < k THEN s[j] ELSE IF j = k THEN e ELSE s[j - 1]
<1> DEFINE L == Len(s)
           t == InsertAt(s, k, e)
<1>1. L \in Nat
  OBVIOUS
<1>2. \A j \in 1..(L + 1) : (IF j < k THEN s[j] ELSE IF j = k THEN e ELSE s[j - 1]) \in All
  <2>1. ASSUME NEW j \in 1..(L + 1)
        PROVE  (j < k => j \in 1..L) /\ (~(j < k) /\ j # k => j - 1 \in 1..L)
    BY <1>1
  <2>. QED  BY <2>1, ElementOfSeq
<1>3. t \in [1..(L + 1) -> All]
  BY <1>2 DEF InsertAt
<1>4. t \in Seq(All) /\ Len(t) = L + 1
  BY <1>1, <1>3
<1>5. \A j \in 1..(L + 1) : t[j] = IF j < k THEN s[j] ELSE IF j = k THEN e ELSE s[j - 1]
  BY DEF InsertAt
<1>. QED  BY <1>4, <1>5

\* Putting an element in adds it to the elements and changes nothing else.
LEMMA InsertAtElements ==
    ASSUME NEW s \in Seq(All), NEW k \in 1..(Len(s) + 1), NEW e \in All
    PROVE  Elements(InsertAt(s, k, e)) = Elements(s) \cup {e}
<1> DEFINE L == Len(s)
           t == InsertAt(s, k, e)
<1>1. L \in Nat
  OBVIOUS
<1>5. \A j \in 1..(L + 1) : t[j] = IF j < k THEN s[j] ELSE IF j = k THEN e ELSE s[j - 1]
  BY DEF InsertAt
<1>6. ASSUME NEW x PROVE (\E j \in 1..(L + 1) : t[j] = x) <=> (x = e \/ \E j \in 1..L : s[j] = x)
  <2> HIDE DEF t
  <2>1. ASSUME NEW j \in 1..(L + 1), t[j] = x
        PROVE  x = e \/ \E m \in 1..L : s[m] = x
    <3>1. (j < k => j \in 1..L) /\ (~(j < k) /\ j # k => j - 1 \in 1..L)
      BY <1>1
    <3>. QED  BY <1>5, <2>1, <3>1
  <2>2. t[k] = e
    BY <1>5
  <2>3. ASSUME NEW m \in 1..L, s[m] = x
        PROVE  \E j \in 1..(L + 1) : t[j] = x
    <3>1. m \in 1..(L + 1) /\ m + 1 \in 1..(L + 1) /\ (m + 1) - 1 = m
      BY <1>1
    <3>2. CASE m < k
      BY <1>5, <2>3, <3>1, <3>2
    <3>3. CASE ~(m < k)
      <4>1. ~(m + 1 < k) /\ m + 1 # k
        BY <3>3, <1>1
      <4>2. t[m + 1] = s[m]
        BY <1>5, <3>1, <4>1
      <4>. QED  BY <4>2, <2>3, <3>1
    <3>. QED  BY <3>2, <3>3
  <2>. QED  BY <2>1, <2>2, <2>3
<1>7. {t[j] : j \in 1..(L + 1)} = {s[j] : j \in 1..L} \cup {e}
  <2> HIDE DEF t
  <2>. QED  BY <1>6, Zenon
<1>8. Len(InsertAt(s, k, e)) = Len(s) + 1
  BY InsertAtSeq
<1>. QED  BY <1>7, <1>8, Zenon DEF Elements

\* pr_list_append() at any place puts one more entry into the ring.
LEMMA AppendRing ==
    ASSUME NEW s \in Seq(All), NEW n \in [All -> All], NEW q \in [All -> All], Ring(s, n, q),
           NEW i \in 1..Len(s), NEW e \in All, \A j \in 1..Len(s) : s[j] # e
    PROVE  Ring(InsertAt(s, i + 1, e),
                [n EXCEPT ![e] = n[s[i]], ![s[i]] = e],
                [q EXCEPT ![e] = s[i], ![n[s[i]]] = e])
<1>a. \E j \in 1..Len(s) : n[s[i]] = s[j]
  BY RingClosed
<1>b. i + 1 \in 1..(Len(s) + 1)
  OBVIOUS
<1>c. /\ InsertAt(s, i + 1, e) \in Seq(All)
      /\ Len(InsertAt(s, i + 1, e)) = Len(s) + 1
      /\ \A j \in 1..(Len(s) + 1) :
            InsertAt(s, i + 1, e)[j] =
               IF j < i + 1 THEN s[j] ELSE IF j = i + 1 THEN e ELSE s[j - 1]
  <2>1. ASSUME NEW k \in 1..(Len(s) + 1)
        PROVE  /\ InsertAt(s, k, e) \in Seq(All)
               /\ Len(InsertAt(s, k, e)) = Len(s) + 1
               /\ \A j \in 1..(Len(s) + 1) :
                     InsertAt(s, k, e)[j] = IF j < k THEN s[j] ELSE IF j = k THEN e ELSE s[j - 1]
    BY InsertAtSeq
  <2>. QED  BY <1>b, <2>1, Zenon
<1> DEFINE L == Len(s)
           t == InsertAt(s, i + 1, e)
           n2 == [n EXCEPT ![e] = n[s[i]], ![s[i]] = e]
           q2 == [q EXCEPT ![e] = s[i], ![n[s[i]]] = e]
<1>1. L \in Nat /\ L > 0 /\ i \in Nat /\ i >= 1 /\ i <= L
  BY DEF Ring
<1>2. i + 1 \in 1..(L + 1)
  BY <1>1
<1>3. /\ t \in Seq(All)
      /\ Len(t) = L + 1
      /\ \A j \in 1..(L + 1) : t[j] = IF j < i + 1 THEN s[j] ELSE IF j = i + 1 THEN e ELSE s[j - 1]
  BY <1>c
<1> HIDE DEF t
<1>4. /\ \A j \in 1..i : t[j] = s[j]
      /\ t[i + 1] = e
      /\ \A j \in (i + 1)..L : t[j + 1] = s[j]
  <2>1. \A j \in 1..i : j \in 1..(L + 1) /\ j < i + 1
    BY <1>1
  <2>2. ~(i + 1 < i + 1)
    BY <1>1
  <2>3. \A j \in (i + 1)..L : j + 1 \in 1..(L + 1) /\ ~(j + 1 < i + 1) /\ j + 1 # i + 1 /\ (j + 1) - 1 = j
    BY <1>1
  <2>. QED  BY <1>2, <1>3, <2>1, <2>2, <2>3
<1>5. \A j \in 1..L : s[j] \in All
  BY ElementOfSeq
<1>6. n[s[i]] \in All /\ n[s[i]] # e
  BY <1>a, <1>5
<1>7. /\ n2[e] = n[s[i]] /\ n2[s[i]] = e
      /\ \A x \in All : x # e /\ x # s[i] => n2[x] = n[x]
  BY <1>5, <1>6
<1>8. /\ q2[e] = s[i] /\ q2[n[s[i]]] = e
      /\ \A x \in All : x # e /\ x # n[s[i]] => q2[x] = q[x]
  BY <1>5, <1>6
<1> HIDE DEF n2, q2
<1>9. \A j \in 1..L : s[j] # s[i] => n2[s[j]] = n[s[j]]
  BY <1>5, <1>7
<1>10. t[1] = HEAD
  <2>1. 1 \in 1..i
    BY <1>1
  <2>. QED  BY <1>4, <2>1 DEF Ring
<1>11. ASSUME NEW j \in 1..(L + 1), NEW m \in 1..(L + 1), t[j] = t[m] PROVE j = m
  <2> DEFINE old(x) == IF x < i + 1 THEN x ELSE x - 1
  <2>1. \A x \in 1..(L + 1) : x # i + 1 => old(x) \in 1..L /\ t[x] = s[old(x)]
    <3>1. \A x \in 1..(L + 1) : x # i + 1 => old(x) \in 1..L
      BY <1>1
    <3>. QED  BY <1>3, <3>1
  <2>2. \A x, y \in 1..(L + 1) : x # i + 1 /\ y # i + 1 /\ old(x) = old(y) => x = y
    BY <1>1
  <2> HIDE DEF old
  <2>3. CASE j # i + 1 /\ m # i + 1
    BY <2>1, <2>2, <2>3, <1>11 DEF Ring
  <2>4. CASE j = i + 1 \/ m = i + 1
    BY <2>1, <2>4, <1>4, <1>11
  <2>. QED  BY <2>3, <2>4
<1>12. ASSUME NEW j \in 1..L PROVE n2[t[j]] = t[j + 1] /\ q2[t[j + 1]] = t[j]
  <2>1. CASE j < i
    <3>1. /\ j \in 1..i /\ j + 1 \in 1..i /\ j \in 1..(L - 1) /\ j + 1 \in 1..L /\ j \in 1..L
          /\ j # i
      BY <1>1, <2>1
    <3>2. t[j] = s[j] /\ t[j + 1] = s[j + 1]
      BY <3>1, <1>4
    <3>3. n[s[j]] = s[j + 1] /\ q[s[j + 1]] = s[j] /\ s[j] # s[i]
      BY <3>1 DEF Ring
    <3>4. s[j + 1] # n[s[i]]
      <4>1. CASE i = L
        <5>1. n[s[i]] = s[1] /\ 1 \in 1..L /\ j + 1 # 1
          BY <4>1, <1>1, <3>1 DEF Ring
        <5>. QED  BY <5>1, <3>1 DEF Ring
      <4>2. CASE i # L
        <5>1. i \in 1..(L - 1) /\ i + 1 \in 1..L /\ j + 1 # i + 1
          BY <4>2, <1>1, <2>1
        <5>2. n[s[i]] = s[i + 1]
          BY <5>1 DEF Ring
        <5>. QED  BY <5>1, <5>2, <3>1 DEF Ring
      <4>. QED  BY <4>1, <4>2
    <3>. QED  BY <3>1, <3>2, <3>3, <3>4, <1>5, <1>7, <1>8
  <2>2. CASE j = i
    <3>1. i \in 1..i
      BY <1>1
    <3>. QED  BY <2>2, <3>1, <1>4, <1>7, <1>8
  <2>3. CASE j = i + 1
    <3>1. i + 1 \in (i + 1)..L /\ i \in 1..(L - 1)
      BY <1>1, <2>3
    <3>2. t[j] = e /\ t[j + 1] = s[i + 1] /\ n[s[i]] = s[i + 1]
      BY <3>1, <2>3, <1>4 DEF Ring
    <3>. QED  BY <3>2, <1>7, <1>8
  <2>4. CASE j > i + 1
    <3> DEFINE k == j - 1
    <3>1. k \in (i + 1)..L /\ j \in (i + 1)..L /\ k \in 1..(L - 1) /\ k \in 1..L /\ k + 1 = j /\ k # i /\ i \in 1..(L - 1) /\ i + 1 \in 1..L /\ j # i + 1
      BY <1>1, <2>4
    <3>2. t[k + 1] = s[k] /\ t[j + 1] = s[j]
      BY <3>1, <1>4
    <3>3. n[s[k]] = s[k + 1] /\ q[s[k + 1]] = s[k] /\ s[k] # s[i] /\ n[s[i]] = s[i + 1] /\ s[j] # s[i + 1]
      BY <3>1 DEF Ring
    <3> HIDE DEF k
    <3>4. t[j] = s[k] /\ n[s[k]] = s[j] /\ q[s[j]] = s[k] /\ s[j] # n[s[i]]
      BY <3>1, <3>2, <3>3
    <3>. QED  BY <3>1, <3>2, <3>3, <3>4, <1>5, <1>7, <1>8
  <2>5. j < i \/ j = i \/ j = i + 1 \/ j > i + 1
    BY <1>1
  <2>. QED  BY <2>1, <2>2, <2>3, <2>4, <2>5
<1>13. n2[t[L + 1]] = HEAD /\ q2[HEAD] = t[L + 1]
  <2>0. L \in 1..L /\ 1 \in 1..L
    BY <1>1
  <2>1. CASE i = L
    <3>1. t[L + 1] = e /\ n[s[i]] = HEAD
      BY <2>1, <1>4 DEF Ring
    <3>. QED  BY <3>1, <1>7, <1>8
  <2>2. CASE i # L
    <3>1. L \in (i + 1)..L /\ i \in 1..(L - 1) /\ i + 1 \in 1..L /\ i + 1 # 1
      BY <2>2, <1>1
    <3>2. t[L + 1] = s[L] /\ s[L] # s[i] /\ n[s[i]] = s[i + 1] /\ s[i + 1] # s[1]
      BY <3>1, <2>0, <2>2, <1>4 DEF Ring
    <3>3. s[1] = HEAD /\ n[s[L]] = HEAD /\ q[HEAD] = s[L]
      BY DEF Ring
    <3>. QED  BY <3>2, <3>3, <2>0, <1>5, <1>7, <1>8
  <2>. QED  BY <2>1, <2>2
<1>14. Ring(t, n2, q2)
  <2>1. Len(t) > 0 /\ Len(t) - 1 = L
    BY <1>1, <1>3
  <2>. QED  BY <1>3, <1>10, <1>11, <1>12, <1>13, <2>1 DEF Ring
<1>. QED  BY <1>14 DEF t, n2, q2

\* A sequence with an element taken out.
LEMMA RemoveAtSeq ==
    ASSUME NEW s \in Seq(All), NEW i \in 1..Len(s)
    PROVE  /\ RemoveAt(s, i) \in Seq(All)
           /\ Len(RemoveAt(s, i)) = Len(s) - 1
           /\ \A j \in 1..(Len(s) - 1) : RemoveAt(s, i)[j] = IF j < i THEN s[j] ELSE s[j + 1]
           /\ \A x : (\E j \in 1..(Len(s) - 1) : RemoveAt(s, i)[j] = x)
                        <=> (\E j \in 1..Len(s) : j # i /\ s[j] = x)
<1> DEFINE L == Len(s)
           t == RemoveAt(s, i)
<1>1. L \in Nat /\ L - 1 \in Nat
  OBVIOUS
<1>2. \A j \in 1..(L - 1) : (IF j < i THEN s[j] ELSE s[j + 1]) \in All
  <2>1. \A j \in 1..(L - 1) : j \in 1..L /\ j + 1 \in 1..L
    BY <1>1
  <2>. QED  BY <2>1, ElementOfSeq
<1>3. t \in [1..(L - 1) -> All]
  BY <1>2 DEF RemoveAt
<1>4. t \in Seq(All) /\ Len(t) = L - 1
  BY <1>1, <1>3
<1>5. \A j \in 1..(L - 1) : t[j] = IF j < i THEN s[j] ELSE s[j + 1]
  BY DEF RemoveAt
<1>6. ASSUME NEW x
      PROVE  (\E j \in 1..(L - 1) : t[j] = x) <=> (\E j \in 1..L : j # i /\ s[j] = x)
  <2> HIDE DEF t
  <2>1. ASSUME NEW j \in 1..(L - 1), t[j] = x
        PROVE  \E m \in 1..L : m # i /\ s[m] = x
    <3>1. j \in 1..L /\ j + 1 \in 1..L /\ (j < i => j # i) /\ (~(j < i) => j + 1 # i)
      BY <1>1
    <3>. QED  BY <1>5, <2>1, <3>1
  <2>2. ASSUME NEW m \in 1..L, m # i, s[m] = x
        PROVE  \E j \in 1..(L - 1) : t[j] = x
    <3>1. CASE m < i
      <4>1. m \in 1..(L - 1)
        BY <1>1, <3>1
      <4>. QED  BY <1>5, <2>2, <3>1, <4>1
    <3>2. CASE ~(m < i)
      <4>1. m - 1 \in 1..(L - 1) /\ ~(m - 1 < i) /\ (m - 1) + 1 = m
        BY <1>1, <2>2, <3>2
      <4>2. t[m - 1] = s[m]
        BY <1>5, <4>1
      <4>. QED  BY <2>2, <4>1, <4>2
    <3>. QED  BY <3>1, <3>2
  <2>. QED  BY <2>1, <2>2
<1>. QED  BY <1>4, <1>5, <1>6

\* pr_list_remove() of any entry but the head closes the ring behind it.
LEMMA RemoveRing ==
    ASSUME NEW s \in Seq(All), NEW n \in [All -> All], NEW q \in [All -> All], Ring(s, n, q),
           NEW i \in 2..Len(s)
    PROVE  Ring(RemoveAt(s, i),
                [n EXCEPT ![q[s[i]]] = n[s[i]], ![s[i]] = s[i]],
                [q EXCEPT ![n[s[i]]] = q[s[i]], ![s[i]] = s[i]])
<1>a. i \in 1..Len(s)
  OBVIOUS
<1>b. /\ RemoveAt(s, i) \in Seq(All)
      /\ Len(RemoveAt(s, i)) = Len(s) - 1
      /\ \A j \in 1..(Len(s) - 1) : RemoveAt(s, i)[j] = IF j < i THEN s[j] ELSE s[j + 1]
  BY <1>a, RemoveAtSeq
<1> DEFINE L == Len(s)
           t == RemoveAt(s, i)
           e == s[i]
           n2 == [n EXCEPT ![q[e]] = n[e], ![e] = e]
           q2 == [q EXCEPT ![n[e]] = q[e], ![e] = e]
<1>1. L \in Nat /\ i \in Nat /\ i >= 2 /\ i <= L /\ i - 1 \in 1..(L - 1) /\ i - 1 \in 1..L
      /\ (i - 1) + 1 = i /\ 1 \in 1..L /\ L \in 1..L
  OBVIOUS
<1>2. \A j \in 1..L : s[j] \in All
  BY ElementOfSeq
<1>3. q[e] = s[i - 1] /\ s[i - 1] # e
  <2>1. q[s[(i - 1) + 1]] = s[i - 1]
    BY <1>1 DEF Ring
  <2>2. i - 1 # i
    BY <1>1
  <2>. QED  BY <1>a, <1>1, <2>1, <2>2 DEF Ring
<1>4. \E k \in 1..L : k = (IF i = L THEN 1 ELSE i + 1) /\ n[e] = s[k] /\ s[k] # e
  <2>1. CASE i = L
    <3>1. n[e] = s[1] /\ i # 1
      BY <1>1, <2>1 DEF Ring
    <3>. QED  BY <1>a, <1>1, <2>1, <3>1 DEF Ring
  <2>2. CASE i # L
    <3>1. i \in 1..(L - 1) /\ i + 1 \in 1..L /\ i + 1 # i
      BY <1>1, <2>2
    <3>2. n[e] = s[i + 1]
      BY <3>1 DEF Ring
    <3>. QED  BY <1>a, <2>2, <3>1, <3>2 DEF Ring
  <2>. QED  BY <2>1, <2>2
<1>5. PICK k \in 1..L : k = (IF i = L THEN 1 ELSE i + 1) /\ n[e] = s[k] /\ s[k] # e
  BY <1>4
<1>6. e \in All /\ s[i - 1] \in All /\ s[k] \in All
  BY <1>a, <1>1, <1>2, <1>5
<1>7. /\ n2[s[i - 1]] = s[k]
      /\ \A x \in All : x # e /\ x # s[i - 1] => n2[x] = n[x]
  BY <1>3, <1>5, <1>6
<1>8. /\ q2[s[k]] = s[i - 1]
      /\ \A x \in All : x # e /\ x # s[k] => q2[x] = q[x]
  BY <1>3, <1>5, <1>6
<1>9. /\ Len(t) = L - 1
      /\ \A j \in 1..(L - 1) : t[j] = IF j < i THEN s[j] ELSE s[j + 1]
  BY <1>b
<1> HIDE DEF t, n2, q2
<1>10. Len(t) > 0 /\ t[1] = HEAD
  <2>1. 1 \in 1..(L - 1) /\ 1 < i /\ L - 1 > 0
    BY <1>1
  <2>. QED  BY <1>9, <2>1 DEF Ring
<1>11. ASSUME NEW j \in 1..(L - 1), NEW m \in 1..(L - 1), t[j] = t[m] PROVE j = m
  <2> DEFINE old(x) == IF x < i THEN x ELSE x + 1
  <2>1. \A x \in 1..(L - 1) : old(x) \in 1..L
    BY <1>1
  <2>2. \A x \in 1..(L - 1) : t[x] = s[old(x)]
    BY <1>9
  <2>3. \A x, y \in 1..(L - 1) : old(x) = old(y) => x = y
    BY <1>1
  <2> HIDE DEF old
  <2>4. s[old(j)] = s[old(m)]
    BY <2>2, <1>11
  <2>5. \A x, y \in 1..L : s[x] = s[y] => x = y
    BY DEF Ring
  <2>6. old(j) = old(m)
    BY <2>1, <2>4, <2>5
  <2>. QED  BY <2>3, <2>6
<1>12. ASSUME NEW j \in 1..(L - 2) PROVE n2[t[j]] = t[j + 1] /\ q2[t[j + 1]] = t[j]
  <2>0. j \in 1..(L - 1) /\ j + 1 \in 1..(L - 1) /\ j \in 1..L
    BY <1>1
  <2>1. CASE j + 1 < i
    <3>1. j < i /\ j + 1 \in 1..L /\ j # i /\ j + 1 # i /\ j # i - 1
      BY <1>1, <2>1, <2>0
    <3>2. t[j] = s[j] /\ t[j + 1] = s[j + 1]
      BY <2>0, <2>1, <3>1, <1>9
    <3>3. /\ n[s[j]] = s[j + 1] /\ q[s[j + 1]] = s[j]
          /\ s[j] # e /\ s[j + 1] # e /\ s[j] # s[i - 1]
      BY <1>a, <1>1, <2>0, <3>1 DEF Ring
    <3>4. j + 1 # k
      BY <1>1, <1>5, <2>1, <2>0
    <3>5. s[j + 1] # s[k]
      BY <3>1, <3>4 DEF Ring
    <3>. QED  BY <1>2, <1>7, <1>8, <2>0, <3>1, <3>2, <3>3, <3>5
  <2>2. CASE j + 1 = i
    <3>1. j < i /\ ~(j + 1 < i) /\ j = i - 1 /\ i # L /\ j + 1 + 1 = i + 1
      BY <1>1, <2>2, <2>0
    <3>2. t[j] = s[i - 1] /\ t[j + 1] = s[k]
      BY <2>0, <3>1, <1>5, <1>9
    <3>. QED  BY <1>7, <1>8, <3>2
  <2>3. CASE j + 1 > i
    <3> DEFINE m == j + 1
    <3>1. /\ ~(j < i) /\ ~(j + 1 < i) /\ m \in 1..(L - 1) /\ m \in 1..L /\ m + 1 \in 1..L
          /\ m # i /\ m + 1 # i /\ m # i - 1
      BY <1>1, <2>3, <2>0
    <3>2. t[j] = s[m] /\ t[j + 1] = s[m + 1]
      BY <2>0, <3>1, <1>9
    <3> HIDE DEF m
    <3>3. /\ n[s[m]] = s[m + 1] /\ q[s[m + 1]] = s[m]
          /\ s[m] # e /\ s[m + 1] # e /\ s[m] # s[i - 1]
      BY <1>a, <1>1, <3>1 DEF Ring
    <3>4. m + 1 # k
      BY <1>1, <1>5, <2>3, <2>0 DEF m
    <3>5. s[m + 1] # s[k]
      BY <3>1, <3>4 DEF Ring
    <3>. QED  BY <1>2, <1>7, <1>8, <3>1, <3>2, <3>3, <3>5
  <2>4. j + 1 < i \/ j + 1 = i \/ j + 1 > i
    BY <1>1
  <2>. QED  BY <2>1, <2>2, <2>3, <2>4
<1>13. n2[t[L - 1]] = HEAD /\ q2[HEAD] = t[L - 1]
  <2>0. L - 1 \in 1..(L - 1) /\ (L - 1) + 1 = L
    BY <1>1
  <2>1. CASE i = L
    <3>1. t[L - 1] = s[i - 1] /\ s[k] = HEAD
      <4>1. L - 1 < i
        BY <1>1, <2>1
      <4>. QED  BY <2>0, <2>1, <4>1, <1>5, <1>9 DEF Ring
    <3>. QED  BY <1>7, <1>8, <3>1
  <2>2. CASE i # L
    <3>1. ~(L - 1 < i) /\ L # i /\ L # i - 1 /\ 1 # i /\ k # 1
      BY <1>1, <1>5, <2>2
    <3>2. t[L - 1] = s[L]
      BY <2>0, <3>1, <1>9
    <3>3. s[L] # e /\ s[L] # s[i - 1] /\ s[1] # e /\ s[1] # s[k]
      BY <1>a, <1>1, <3>1 DEF Ring
    <3>4. n[s[L]] = HEAD /\ q[HEAD] = s[L] /\ s[1] = HEAD
      BY DEF Ring
    <3>. QED  BY <1>1, <1>2, <1>7, <1>8, <3>2, <3>3, <3>4
  <2>. QED  BY <2>1, <2>2
<1>14. Ring(t, n2, q2)
  <2>1. Len(t) - 1 = L - 2
    BY <1>1, <1>9
  <2>. QED  BY <1>9, <1>10, <1>11, <1>12, <1>13, <2>1 DEF Ring
<1>. QED  BY <1>14 DEF t, n2, q2

-----------------------------------------------------------------------------
\* What pr_list_append() and pr_list_prepend() change.
Inserts(e) ==
    /\ next' \in [All -> All] /\ prev' \in [All -> All] /\ ring' \in Seq(All)
    /\ Ring(ring', next', prev')
    /\ Listed' = Listed \cup {e}
    /\ \A x \in All : x \notin Listed /\ x # e => next'[x] = next[x] /\ prev'[x] = prev[x]

\* pr_list_append() of a loose entry: the list has one entry more, all others stay.
LEMMA AppendInserts ==
    ASSUME TypeOK, Ring(ring, next, prev),
           NEW i \in 1..Len(ring), NEW e \in All, e \notin Listed, pr_list_append(i, e)
    PROVE  Inserts(e)
<1>1. ring \in Seq(All) /\ next \in [All -> All] /\ prev \in [All -> All]
  BY DEF TypeOK
<1>2. \A j \in 1..Len(ring) : ring[j] # e
  BY DEF Listed, Elements
<1>3. Ring(ring', next', prev')
  BY <1>1, <1>2, AppendRing DEF pr_list_append
<1>4. i + 1 \in 1..(Len(ring) + 1)
  BY <1>1
<1>5. ASSUME NEW k \in 1..(Len(ring) + 1)
      PROVE  /\ InsertAt(ring, k, e) \in Seq(All)
             /\ Len(InsertAt(ring, k, e)) = Len(ring) + 1
  BY <1>1, InsertAtSeq
<1>6. ring' \in Seq(All) /\ Len(ring') = Len(ring) + 1
  BY <1>4, <1>5, Zenon DEF pr_list_append
<1>7. Listed' = Listed \cup {e}
  <2>1. ASSUME NEW k \in 1..(Len(ring) + 1)
        PROVE  Elements(InsertAt(ring, k, e)) = Elements(ring) \cup {e}
    BY <1>1, InsertAtElements
  <2>. QED  BY <1>4, <2>1, Zenon DEF Listed, Elements, pr_list_append
<1>8. ring[i] \in All /\ next[ring[i]] \in All /\ ring[i] \in Listed
  BY <1>1, ElementOfSeq DEF Listed, Elements
<1>9. next[ring[i]] \in Listed
  <2>1. /\ Len(ring) \in Nat /\ Len(ring) > 0 /\ ring[1] = HEAD
        /\ \A k \in 1..(Len(ring) - 1) : next[ring[k]] = ring[k + 1]
        /\ next[ring[Len(ring)]] = HEAD
    BY <1>1 DEF Ring
  <2>2. CASE i = Len(ring)
    BY <2>1, <2>2 DEF Listed, Elements
  <2>3. CASE i # Len(ring)
    <3>1. i + 1 \in 1..Len(ring) /\ i \in 1..(Len(ring) - 1)
      BY <2>1, <2>3
    <3>. QED  BY <2>1, <3>1 DEF Listed, Elements
  <2>. QED  BY <2>2, <2>3
<1>10. next' \in [All -> All] /\ prev' \in [All -> All]
  BY <1>1, <1>8 DEF pr_list_append
<1>11. \A x \in All : x \notin Listed /\ x # e => next'[x] = next[x] /\ prev'[x] = prev[x]
  BY <1>1, <1>8, <1>9 DEF pr_list_append
<1>. QED  BY <1>3, <1>6, <1>7, <1>10, <1>11 DEF Inserts

\* pr_list_prepend() is pr_list_append() at the place before.
LEMMA PrependInserts ==
    ASSUME TypeOK, Ring(ring, next, prev),
           NEW i \in 1..Len(ring), NEW e \in All, e \notin Listed, pr_list_prepend(i, e)
    PROVE  Inserts(e)
<1>1. ring \in Seq(All) /\ next \in [All -> All] /\ prev \in [All -> All]
  BY DEF TypeOK
<1>2. \A j \in 1..Len(ring) : ring[j] # e
  BY DEF Listed, Elements
<1>3. \E k \in 1..Len(ring) :
         /\ k + 1 = IF i = 1 THEN Len(ring) + 1 ELSE i
         /\ next[ring[k]] = ring[i]
         /\ prev[ring[i]] = ring[k]
  <2>1. CASE i = 1
    <3>1. Len(ring) \in 1..Len(ring)
      BY <1>1, <2>1
    <3>2. next[ring[Len(ring)]] = ring[i] /\ prev[ring[i]] = ring[Len(ring)]
      BY <2>1 DEF Ring
    <3>. QED  BY <2>1, <3>1, <3>2
  <2>2. CASE i # 1
    <3>1. i - 1 \in 1..Len(ring) /\ i - 1 \in 1..(Len(ring) - 1) /\ (i - 1) + 1 = i
      BY <1>1, <2>2
    <3>2. next[ring[i - 1]] = ring[(i - 1) + 1] /\ prev[ring[(i - 1) + 1]] = ring[i - 1]
      BY <3>1 DEF Ring
    <3>. QED  BY <2>2, <3>1, <3>2
  <2>. QED  BY <2>1, <2>2
<1>4. PICK k \in 1..Len(ring) :
         /\ k + 1 = IF i = 1 THEN Len(ring) + 1 ELSE i
         /\ next[ring[k]] = ring[i]
         /\ prev[ring[i]] = ring[k]
  BY <1>3
<1>5. pr_list_append(k, e)
  BY <1>4 DEF pr_list_prepend, pr_list_append
<1>. QED  BY <1>5, AppendInserts

\* What pr_list_remove() changes.
Removes(e) ==
    /\ next' \in [All -> All] /\ prev' \in [All -> All] /\ ring' \in Seq(All)
    /\ Ring(ring', next', prev')
    /\ Listed' = Listed \ {e}
    /\ next'[e] = e /\ prev'[e] = e
    /\ \A x \in All : x \notin Listed => next'[x] = next[x] /\ prev'[x] = prev[x]
    /\ next[e] \in Listed'

\* pr_list_remove(): the entry becomes a ring of its own, all others stay.
LEMMA RemoveRemoves ==
    ASSUME TypeOK, Ring(ring, next, prev), NEW i \in 2..Len(ring), pr_list_remove(i)
    PROVE  Removes(ring[i]) /\ ring[i] \in Listed /\ ring[i] \in Node
<1>1. ring \in Seq(All) /\ next \in [All -> All] /\ prev \in [All -> All]
  BY DEF TypeOK
<1>2. i \in 1..Len(ring) /\ 1 \in 1..Len(ring) /\ i # 1
  BY <1>1
<1>3. Ring(ring', next', prev')
  BY <1>1, RemoveRing DEF pr_list_remove
<1>4. /\ RemoveAt(ring, i) \in Seq(All)
      /\ Len(RemoveAt(ring, i)) = Len(ring) - 1
      /\ \A x : (\E j \in 1..(Len(ring) - 1) : RemoveAt(ring, i)[j] = x)
                   <=> (\E j \in 1..Len(ring) : j # i /\ ring[j] = x)
  BY <1>1, <1>2, RemoveAtSeq
<1>5. ring' = RemoveAt(ring, i)
  BY DEF pr_list_remove
<1>6. \A x : x \in Listed' <=> (\E j \in 1..Len(ring) : j # i /\ ring[j] = x)
  <2>1. \A x : x \in Listed' <=> (\E j \in 1..(Len(ring) - 1) : ring'[j] = x)
    BY <1>4, <1>5, Zenon DEF Listed, Elements
  <2>. QED  BY <2>1, <1>4, <1>5, Zenon
<1>7. \A j \in 1..Len(ring) : j # i => ring[j] # ring[i]
  BY <1>2 DEF Ring
<1>8. Listed' = Listed \ {ring[i]}
  BY <1>6, <1>7 DEF Listed, Elements
<1>9. ring[i] \in All /\ ring[i] \in Listed /\ ring[i] # HEAD
  BY <1>1, <1>2, <1>7, ElementOfSeq DEF Listed, Elements, Ring
<1>10. next[ring[i]] \in Listed /\ prev[ring[i]] \in Listed /\ next[ring[i]] \in All /\ prev[ring[i]] \in All
  <2>1. \E j \in 1..Len(ring) : next[ring[i]] = ring[j]
    BY <1>1, <1>2, RingClosed
  <2>2. \E j \in 1..Len(ring) : prev[ring[i]] = ring[j]
    BY <1>1, <1>2, RingClosed
  <2>3. next[ring[i]] \in Listed /\ prev[ring[i]] \in Listed
    BY <2>1, <2>2 DEF Listed, Elements
  <2>4. next[ring[i]] \in All /\ prev[ring[i]] \in All
    BY <1>1, <1>9
  <2>. QED  BY <2>3, <2>4
<1>11. next[ring[i]] # ring[i]
  <2>1. CASE i = Len(ring)
    BY <1>9, <2>1 DEF Ring
  <2>2. CASE i # Len(ring)
    <3>1. i \in 1..(Len(ring) - 1) /\ i + 1 \in 1..Len(ring) /\ i + 1 # i
      BY <1>1, <1>2, <2>2
    <3>2. next[ring[i]] = ring[i + 1]
      BY <3>1 DEF Ring
    <3>. QED  BY <1>7, <3>1, <3>2
  <2>. QED  BY <2>1, <2>2
<1>12. next' \in [All -> All] /\ prev' \in [All -> All] /\ next'[ring[i]] = ring[i] /\ prev'[ring[i]] = ring[i]
  BY <1>1, <1>9, <1>10 DEF pr_list_remove
<1>13. \A x \in All : x \notin Listed => next'[x] = next[x] /\ prev'[x] = prev[x]
  BY <1>1, <1>9, <1>10 DEF pr_list_remove
<1>14. ring[i] \in Node
  BY <1>9 DEF All
<1>. QED  BY <1>3, <1>4, <1>5, <1>8, <1>9, <1>10, <1>11, <1>12, <1>13, <1>14 DEF Removes

\* A ring does not depend on the links of the entries outside it.
LEMMA RingLocal ==
    ASSUME TypeOK, Ring(ring, next, prev), UNCHANGED ring,
           \A x \in All : x \in Listed => next'[x] = next[x] /\ prev'[x] = prev[x]
    PROVE  Ring(ring', next', prev')
<1>1. ring \in Seq(All) /\ Len(ring) \in Nat /\ Len(ring) > 0
  BY DEF TypeOK, Ring
<1>2. \A j \in 1..Len(ring) : next'[ring[j]] = next[ring[j]] /\ prev'[ring[j]] = prev[ring[j]]
  BY <1>1, ElementOfSeq DEF Listed, Elements
<1>3. 1 \in 1..Len(ring) /\ Len(ring) \in 1..Len(ring) /\ \A j \in 1..(Len(ring) - 1) : j \in 1..Len(ring) /\ j + 1 \in 1..Len(ring)
  BY <1>1
<1>. QED  BY <1>1, <1>2, <1>3 DEF Ring

\* The head is in the list, and the links of the list stay in it.
LEMMA Follow ==
    ASSUME TypeOK, Ring(ring, next, prev)
    PROVE  /\ HEAD \in Listed
           /\ \A x \in Listed : x \in All /\ next[x] \in Listed /\ prev[x] \in Listed
<1>1. ring \in Seq(All) /\ next \in [All -> All] /\ prev \in [All -> All]
  BY DEF TypeOK
<1>2. 1 \in 1..Len(ring) /\ ring[1] = HEAD
  BY <1>1 DEF Ring
<1>3. \A i \in 1..Len(ring) : /\ \E j \in 1..Len(ring) : next[ring[i]] = ring[j]
                              /\ \E j \in 1..Len(ring) : prev[ring[i]] = ring[j]
  BY <1>1, RingClosed
<1>4. \A i \in 1..Len(ring) : ring[i] \in All
  BY <1>1, ElementOfSeq
<1>5. HEAD \in Listed
  BY <1>2 DEF Listed, Elements
<1>6. ASSUME NEW x \in Listed PROVE x \in All /\ next[x] \in Listed /\ prev[x] \in Listed
  <2>1. PICK i \in 1..Len(ring) : x = ring[i]
    BY DEF Listed, Elements
  <2>. QED  BY <1>3, <1>4, <2>1 DEF Listed, Elements
<1>. QED  BY <1>5, <1>6

-----------------------------------------------------------------------------
\* What IInv says, conjunct by conjunct.
Pointers ==
    /\ Ring(ring, next, prev)
    /\ \A n \in Loose : next[n] = n /\ prev[n] = n
    /\ pc # "done" => Listed \subseteq alive
    /\ pc = "search" => entry \in Loose /\ p \in Listed
    /\ pc \in {"loop", "removed", "freed"} => tmp \in Listed
    /\ pc = "loop" => iter \in Listed /\ tmp = next[iter]
    /\ pc = "removed" => iter \in Loose

\* The invariant in two halves, types and pointers.
LEMMA Split == IInv <=> TypeOK /\ Pointers
  BY DEF IInv, LinksFollowRing, NoDangling, Pointers

\* The steps that put an entry into the list: it is allocated, and stays so.
LEMMA InsertKeeps ==
    ASSUME TypeOK, Pointers, pc # "done", NEW e \in All, e \notin Listed, Inserts(e),
           alive' = alive \cup {e}, pc' = "idle"
    PROVE  Pointers'
<1>1. Listed \subseteq alive
  BY DEF Pointers
<1>2. Loose' = Loose \ {e}
  BY <1>1 DEF Loose, Inserts
<1>3. \A n \in Loose' : next'[n] = n /\ prev'[n] = n
  <2>1. \A n \in Loose' : n \in All /\ n \in Loose /\ n \notin Listed /\ n # e
    BY <1>2 DEF Loose, TypeOK
  <2>. QED  BY <2>1 DEF Inserts, Pointers
<1>4. Listed' \subseteq alive'
  BY <1>1 DEF Inserts
<1>. QED  BY <1>3, <1>4 DEF Inserts, Pointers

\* The steps that take an entry out of the list and may release it.
LEMMA RemoveKeeps ==
    ASSUME TypeOK, Pointers, pc # "done", NEW e \in Listed, Removes(e),
           alive' \in {alive, alive \ {e}}, pc' \in {"idle", "clear"}
    PROVE  Pointers'
<1>1. Listed \subseteq alive
  BY DEF Pointers
<1>2. \A n \in Loose' : n = e \/ (n \in Loose /\ n \notin Listed /\ n \in All)
  BY DEF Loose, Removes, TypeOK
<1>3. \A n \in Loose' : next'[n] = n /\ prev'[n] = n
  BY <1>2 DEF Removes, Pointers
<1>4. Listed' \subseteq alive'
  BY <1>1 DEF Removes
<1>. QED  BY <1>3, <1>4 DEF Removes, Pointers

\* The copy that pr_list_append_str() and pr_list_prepend_str() make is whole.
LEMMA WholeString ==
    ASSUME NEW i, NEW n, NEW v \in Values
    PROVE  /\ pr_list_append_str(i, n, v) => Allocate(n, v) /\ pr_list_append(i, n)
           /\ pr_list_prepend_str(i, n, v) => Allocate(n, v) /\ pr_list_prepend(i, n)
<1>1. v \in Nat
  BY ValuesAssumption
<1>2. strndup(v, 1 + strlen(v)) = v
  BY <1>1 DEF strndup, strlen
<1>. QED  BY <1>2 DEF Allocate, pr_list_append_str, pr_list_appendn_str, pr_list_prepend_str, pr_list_prependn_str

\* An empty list, and entries that are rings of their own.
LEMMA InitIInv == Init => IInv
<1> SUFFICES ASSUME Init PROVE IInv
  OBVIOUS
<1>1. HEAD \in All
  BY DEF All
<1>2. TypeOK
  <2>1. data \in [All -> Nat]
    <3>1. data \in [All -> Values]
      BY DEF Init
    <3>. QED  BY <3>1, ValuesAssumption
  <2>. QED  BY <1>1, <2>1 DEF Init, TypeOK
<1>3. Listed = {HEAD} /\ Loose = {}
  BY DEF Init, Listed, Elements, Loose
<1>4. Ring(ring, next, prev)
  BY <1>1 DEF Init, Ring
<1>5. Pointers
  BY <1>3, <1>4 DEF Init, Pointers
<1>. QED  BY <1>2, <1>5, Split

\* Every operation, and every step of a search or loop, keeps the invariant.
LEMMA StepIInv == IInv /\ [Next]_vars => IInv'
<1> SUFFICES ASSUME IInv, [Next]_vars PROVE TypeOK' /\ Pointers'
  BY DEF IInv, LinksFollowRing, NoDangling, Pointers
<1>1. TypeOK /\ Pointers
  BY Split
<1>2. HEAD \in Listed /\ \A x \in Listed : x \in All /\ next[x] \in Listed /\ prev[x] \in Listed
  BY <1>1, Follow DEF Pointers
<1>3. \A x \in Loose : x \in All /\ x \in alive /\ x \notin Listed
  BY <1>1 DEF Loose, TypeOK
<1>4. Node \subseteq All /\ HEAD \in All /\ HEAD \notin Node
  BY NodeAssumption DEF All
<1>5. ASSUME NEW n \in Node, n \notin alive, pc # "done" PROVE n \in All /\ n \notin Listed
  BY <1>1, <1>4, <1>5 DEF Pointers
<1>6. CASE New
  <2>1. PICK n \in Node, v \in Values : pr_list_new(n, v) /\ born' \in {born, Append(born, n)}
    BY <1>6 DEF New
  <2>2. n \in All /\ n \notin Listed /\ n \notin alive
    BY <1>5, <1>6, <2>1 DEF New, Idle, pr_list_new, Allocate
  <2>3. TypeOK'
    BY <1>1, <1>6, <2>1, <2>2, ValuesAssumption
       DEF New, Idle, search, loop, pr_list_new, Allocate, TypeOK
  <2>4. Ring(ring', next', prev')
    <3>1. \A x \in All : x \in Listed => next'[x] = next[x] /\ prev'[x] = prev[x]
      BY <1>1, <2>1, <2>2 DEF pr_list_new, TypeOK
    <3>. QED  BY <1>1, <2>1, <3>1, RingLocal DEF Pointers, pr_list_new
  <2>5. Listed' = Listed
    BY <2>1 DEF Listed, pr_list_new
  <2>6. \A x \in Loose' : x = n \/ x \in Loose
    BY <2>1, <2>5 DEF Loose, pr_list_new, Allocate
  <2>7. \A x \in Loose' : next'[x] = x /\ prev'[x] = x
    BY <1>1, <1>3, <2>1, <2>2, <2>6 DEF pr_list_new, TypeOK, Pointers
  <2>. QED  BY <1>1, <1>6, <2>1, <2>3, <2>4, <2>5, <2>7 DEF New, Idle, Pointers, pr_list_new, Allocate
<1>7. CASE AppendEntry
  <2>1. PICK i \in 1..Len(ring), e \in Loose : pr_list_append(i, e)
    BY <1>7 DEF AppendEntry
  <2>2. Inserts(e)
    BY <1>1, <1>3, <2>1, AppendInserts DEF Pointers
  <2>3. TypeOK'
    BY <1>1, <1>7, <2>2 DEF AppendEntry, Idle, search, loop, Inserts, TypeOK
  <2>4. alive' = alive \cup {e} /\ pc # "done" /\ pc' = "idle"
    BY <1>3, <1>7 DEF AppendEntry, Idle
  <2>. QED  BY <1>1, <1>3, <2>2, <2>3, <2>4, InsertKeeps
<1>8. CASE PrependEntry
  <2>1. PICK i \in 1..Len(ring), e \in Loose : pr_list_prepend(i, e)
    BY <1>8 DEF PrependEntry
  <2>2. Inserts(e)
    BY <1>1, <1>3, <2>1, PrependInserts DEF Pointers
  <2>3. TypeOK'
    BY <1>1, <1>8, <2>2 DEF PrependEntry, Idle, search, loop, Inserts, TypeOK
  <2>4. alive' = alive \cup {e} /\ pc # "done" /\ pc' = "idle"
    BY <1>3, <1>8 DEF PrependEntry, Idle
  <2>. QED  BY <1>1, <1>3, <2>2, <2>3, <2>4, InsertKeeps
<1>9. CASE AppendStr
  <2>1. PICK i \in 1..Len(ring), n \in Node, v \in Values : Allocate(n, v) /\ pr_list_append(i, n)
    BY <1>9, WholeString DEF AppendStr
  <2>2. n \in All /\ n \notin Listed /\ pc # "done" /\ pc' = "idle" /\ alive' = alive \cup {n}
    BY <1>5, <1>9, <2>1 DEF AppendStr, Idle, Allocate
  <2>3. Inserts(n)
    BY <1>1, <2>1, <2>2, AppendInserts DEF Pointers
  <2>4. data' \in [All -> Nat] /\ alive' \subseteq All
    BY <1>1, <2>1, <2>2, ValuesAssumption DEF TypeOK, Allocate
  <2>5. TypeOK'
    BY <1>1, <1>9, <2>3, <2>4 DEF AppendStr, Idle, search, loop, Inserts, TypeOK
  <2>. QED  BY <1>1, <2>2, <2>3, <2>5, InsertKeeps
<1>10. ASSUME NEW i \in 1..Len(ring), NEW n \in Node, NEW v \in Values,
              pr_list_prepend_str(i, n, v), pc = "idle", UNCHANGED <<use, pc, search, loop, born>>
       PROVE  TypeOK' /\ Pointers'
  <2>1. Allocate(n, v) /\ pr_list_prepend(i, n)
    BY <1>10, WholeString
  <2>2. n \in All /\ n \notin Listed /\ pc # "done" /\ pc' = "idle" /\ alive' = alive \cup {n}
    BY <1>5, <1>10, <2>1 DEF Allocate
  <2>3. Inserts(n)
    BY <1>1, <2>1, <2>2, PrependInserts DEF Pointers
  <2>4. TypeOK'
    BY <1>1, <1>10, <2>1, <2>2, <2>3, ValuesAssumption
       DEF search, loop, Inserts, TypeOK, Allocate
  <2>. QED  BY <1>1, <2>2, <2>3, <2>4, InsertKeeps
<1>11. CASE PrependStr
  BY <1>10, <1>11 DEF PrependStr, Idle
<1>12. CASE add_breadcrumb
  <2>1. 1 \in 1..Len(ring)
    BY <1>1 DEF Pointers, Ring, TypeOK
  <2>. QED  BY <1>10, <1>12, <2>1 DEF add_breadcrumb, Idle
<1>13. ASSUME NEW i \in 2..Len(ring), pr_list_remove(i), pc # "done", pc' \in {"idle", "clear"},
              alive' \in {alive, alive \ {ring[i]}}, UNCHANGED <<use, data, search, loop, born>>
       PROVE  TypeOK' /\ Pointers'
  <2>1. Removes(ring[i]) /\ ring[i] \in Listed
    BY <1>1, <1>13, RemoveRemoves DEF Pointers
  <2>2. TypeOK'
    BY <1>1, <1>13, <2>1 DEF search, loop, Removes, TypeOK
  <2>. QED  BY <1>1, <1>13, <2>1, <2>2, RemoveKeeps
<1>14. CASE RemoveEntry
  BY <1>13, <1>14 DEF RemoveEntry, Idle
<1>15. CASE remove_breadcrumb
  BY <1>13, <1>15 DEF remove_breadcrumb, Idle
<1>16. CASE clear_breadcrumbs
  BY <1>13, <1>16 DEF clear_breadcrumbs
<1>17. CASE FreeEntry
  <2>1. PICK n \in Loose : alive' = alive \ {n}
    BY <1>17 DEF FreeEntry
  <2>2. TypeOK'
    BY <1>1, <1>17, <2>1 DEF FreeEntry, Idle, search, loop, TypeOK
  <2>3. Listed' = Listed /\ Loose' \subseteq Loose /\ pc = "idle" /\ pc' = "idle"
    BY <1>17, <2>1 DEF FreeEntry, Idle, Listed, Loose
  <2>. QED  BY <1>1, <1>3, <1>17, <2>1, <2>2, <2>3 DEF FreeEntry, Pointers
<1>18. ASSUME UNCHANGED <<next, prev, ring>>, alive' \in {alive, alive \ {HEAD}}
       PROVE  Ring(ring', next', prev') /\ Listed' = Listed /\ Loose' = Loose
              /\ \A n \in Loose' : next'[n] = n /\ prev'[n] = n
  <2>1. Listed' = Listed
    BY <1>18 DEF Listed
  <2>2. Loose' = Loose
    BY <1>2, <1>18, <2>1 DEF Loose
  <2>. QED  BY <1>1, <1>18, <2>1, <2>2 DEF Pointers
<1>19. CASE free_breadcrumbs
  <2>1. TypeOK'
    BY <1>1, <1>19 DEF free_breadcrumbs, search, loop, TypeOK
  <2>. QED  BY <1>1, <1>18, <1>19, <2>1 DEF free_breadcrumbs, Pointers
<1>20. CASE free_crumb_list
  <2>1. TypeOK'
    BY <1>1, <1>20 DEF free_crumb_list, search, loop, TypeOK
  <2>. QED  BY <1>18, <1>20, <2>1 DEF free_crumb_list, Pointers
<1>21. CASE StartSearch
  <2>1. p' \in Listed /\ entry' \in Loose
    BY <1>2, <1>21 DEF StartSearch
  <2>2. TypeOK'
    BY <1>1, <1>2, <1>3, <1>21, <2>1 DEF StartSearch, loop, TypeOK
  <2>. QED  BY <1>1, <1>18, <1>21, <2>1, <2>2 DEF StartSearch, Pointers
<1>22. CASE StepSearch
  <2>1. p \in Listed /\ p' \in Listed
    BY <1>1, <1>2, <1>22 DEF StepSearch, Pointers
  <2>2. TypeOK'
    BY <1>1, <1>2, <1>22, <2>1 DEF StepSearch, loop, TypeOK
  <2>. QED  BY <1>1, <1>18, <1>22, <2>1, <2>2 DEF StepSearch, Pointers
<1>23. CASE EndSearch
  <2>1. entry \in Loose /\ entry \in All /\ entry \notin Listed /\ entry \in alive
    BY <1>1, <1>3, <1>23 DEF EndSearch, Pointers
  <2>2. PICK i \in 1..Len(ring) : pr_list_prepend(i, entry) \/ pr_list_append(i, entry)
    BY <1>23 DEF EndSearch
  <2>3. Inserts(entry)
    BY <1>1, <2>1, <2>2, PrependInserts, AppendInserts DEF Pointers
  <2>4. TypeOK'
    BY <1>1, <1>23, <2>3 DEF EndSearch, search, loop, Inserts, TypeOK
  <2>5. alive' = alive \cup {entry} /\ pc # "done" /\ pc' = "idle"
    BY <1>23, <2>1 DEF EndSearch
  <2>. QED  BY <1>1, <2>1, <2>3, <2>4, <2>5, InsertKeeps
<1>24. CASE StartLoop
  <2>1. iter' \in Listed /\ tmp' \in Listed /\ tmp' = next[iter']
    BY <1>2, <1>24 DEF StartLoop
  <2>2. TypeOK'
    BY <1>1, <1>2, <1>24, <2>1 DEF StartLoop, search, TypeOK
  <2>. QED  BY <1>1, <1>18, <1>24, <2>1, <2>2 DEF StartLoop, Pointers
<1>25. CASE LoopRemove
  <2>1. PICK i \in 2..Len(ring) : ring[i] = iter /\ pr_list_remove(i)
    BY <1>25 DEF LoopRemove
  <2>2. Removes(iter) /\ iter \in Listed /\ iter \in All
    BY <1>1, <1>2, <2>1, RemoveRemoves DEF Pointers
  <2>3. TypeOK'
    <3>1. next' \in [All -> All] /\ prev' \in [All -> All] /\ ring' \in Seq(All)
      BY <2>2 DEF Removes
    <3>2. alive' \subseteq All /\ shown' \in Seq(All)
      BY <1>1, <1>25, <2>2 DEF LoopRemove, TypeOK
    <3>3. /\ use' = use /\ data' = data /\ pc' = "removed" /\ entry' = entry /\ p' = p
          /\ iter' = iter /\ tmp' = tmp /\ born' = born
      BY <1>25 DEF LoopRemove, search
    <3>. QED  BY <1>1, <3>1, <3>2, <3>3 DEF TypeOK
  <2>4. tmp' \in Listed'
    BY <1>1, <1>25, <2>2 DEF LoopRemove, Removes, Pointers
  <2>5. Listed \subseteq alive /\ Listed' \subseteq alive' /\ iter' \in Loose'
    BY <1>1, <1>25, <2>2 DEF LoopRemove, Removes, Pointers, Loose
  <2>6. \A n \in Loose' : n = iter \/ (n \in Loose /\ n \notin Listed /\ n \in All)
    BY <1>1, <1>25, <2>2 DEF LoopRemove, Loose, Removes, TypeOK
  <2>7. \A n \in Loose' : next'[n] = n /\ prev'[n] = n
    BY <1>1, <2>2, <2>6 DEF Removes, Pointers
  <2>. QED  BY <1>25, <2>2, <2>3, <2>4, <2>5, <2>7 DEF LoopRemove, Removes, Pointers
<1>26. CASE LoopFree
  <2>1. TypeOK'
    BY <1>1, <1>26 DEF LoopFree, search, loop, TypeOK
  <2>2. iter \in Loose /\ Listed' = Listed /\ Loose' \subseteq Loose
    BY <1>1, <1>26 DEF LoopFree, Pointers, Listed, Loose
  <2>. QED  BY <1>1, <1>3, <1>26, <2>1, <2>2 DEF LoopFree, loop, Pointers
<1>27. CASE LoopNext
  <2>1. iter' \in Listed /\ tmp' \in Listed /\ tmp' = next[iter']
    BY <1>1, <1>2, <1>27 DEF LoopNext, Pointers
  <2>2. TypeOK'
    BY <1>1, <1>2, <1>27, <2>1 DEF LoopNext, search, TypeOK
  <2>. QED  BY <1>1, <1>18, <1>27, <2>1, <2>2 DEF LoopNext, Pointers
<1>28. CASE LoopEnd
  <2>1. TypeOK'
    BY <1>1, <1>28 DEF LoopEnd, search, loop, TypeOK
  <2>. QED  BY <1>18, <1>28, <2>1 DEF LoopEnd, Pointers
<1>29. CASE UNCHANGED vars
  <2>1. TypeOK'
    BY <1>1, <1>29 DEF vars, search, loop, TypeOK
  <2>. QED  BY <1>1, <1>18, <1>29, <2>1 DEF vars, search, loop, Pointers
<1>30. CASE Done
  BY <1>29, <1>30 DEF Done
<1>. QED  BY <1>6, <1>7, <1>8, <1>9, <1>11, <1>12, <1>14, <1>15, <1>16, <1>17, <1>19, <1>20, <1>21,
             <1>22, <1>23, <1>24, <1>25, <1>26, <1>27, <1>28, <1>29, <1>30 DEF Next

(***************************************************************************)
(* The links of the list always form one ring through the head, whatever   *)
(* pr_list.c, the breadcrumbs and show_namespaces_linux() do with it.      *)
(***************************************************************************)
THEOREM AlwaysARing == Spec => []LinksFollowRing
<1>1. IInv => LinksFollowRing
  BY DEF IInv
<1>. QED  BY <1>1, InitIInv, StepIInv, PTL DEF Spec

(***************************************************************************)
(* No released entry is ever followed: not by a search, and not by         *)
(* PR_LIST_FOREACH_SAFE, whose body releases the entry it is at.           *)
(***************************************************************************)
THEOREM NeverDangling == Spec => []NoDangling
<1>1. IInv => NoDangling
  BY DEF IInv
<1>. QED  BY <1>1, InitIInv, StepIInv, PTL DEF Spec

=============================================================================
