------------------------ MODULE TimingEvents_proofs ------------------------
(***************************************************************************)
(* Proofs about the event scheduler and its save states, for any set of    *)
(* events, any intervals and any bound on time.                            *)
(***************************************************************************)
EXTENDS EventSaveState, SequenceTheorems, FiniteSetTheorems, TLAPS

-----------------------------------------------------------------------------
(* Lemmas about the active list.                                           *)

(* A function on 1..n is a sequence of length n.                           *)
LEMMA FunctionIsSeq ==
  ASSUME NEW S, NEW n \in Nat, NEW f \in [1..n -> S]
  PROVE  /\ f \in Seq(S) /\ Len(f) = n
<1>1. f \in Seq(S)
  BY SeqDef
<1> QED
  BY <1>1, LenProperties

(* timing_events_add_active keeps the list sorted and links e once.        *)
LEMMA AddActiveCorrect ==
  ASSUME NEW q \in Seq(Event), NEW nr \in [Event -> Nat], NEW e \in Event, NEW q2,
         Sorted(q, nr), Distinct(q), ~Linked(q, e), AddActive(q, e, nr, q2)
  PROVE  /\ q2 \in Seq(Event) /\ Len(q2) = Len(q) + 1
         /\ Sorted(q2, nr) /\ Distinct(q2)
         /\ \A f \in Event : Linked(q2, f) <=> f = e \/ Linked(q, f)
         /\ q2[1] # e => Len(q) > 0 /\ q2[1] = q[1]
<1> DEFINE n == Len(q)
<1>1. n \in Nat /\ \A i \in 1..n : q[i] \in Event
  BY LenProperties, ElementOfSeq
<1>a. /\ \A i, j \in 1..n : i < j => nr[q[i]] <= nr[q[j]]
      /\ \A i, j \in 1..n : i # j => q[i] # q[j]
      /\ \A f : Linked(q, f) <=> \E i \in 1..n : q[i] = f
  BY DEF Sorted, Distinct, Linked
<1>2. PICK k \in 1..(n + 1) :
        /\ \A i \in 1..(k - 1) : nr[e] > nr[q[i]]
        /\ k <= n => nr[e] <= nr[q[k]]
        /\ q2 = InsertAt(q, k, e)
  BY DEF AddActive
<1>3. q2 = [i \in 1..(n + 1) |-> IF i < k THEN q[i] ELSE IF i = k THEN e ELSE q[i - 1]]
  BY <1>2 DEF InsertAt
<1> n = Len(q)
  OBVIOUS
<1> HIDE DEF n
<1>4. n + 1 \in Nat /\ q2 \in [1..(n + 1) -> Event]
  BY <1>1, <1>3
<1>5. q2 \in Seq(Event) /\ Len(q2) = n + 1
  BY <1>1, <1>4, FunctionIsSeq
<1>6. /\ \A i \in 1..(k - 1) : q2[i] = q[i]
      /\ q2[k] = e
      /\ \A i \in (k + 1)..(n + 1) : i - 1 \in k..n /\ q2[i] = q[i - 1]
  BY <1>1, <1>3
<1>7. \A i \in 1..n : nr[q[i]] \in Nat
  BY <1>1
<1>8. \A i \in 1..n : i < k => nr[q[i]] <= nr[e]
  BY <1>1, <1>2, <1>7
<1>9. \A i \in 1..n : i >= k => nr[e] <= nr[q[i]]
  <2> SUFFICES ASSUME NEW i \in 1..n, i >= k PROVE nr[e] <= nr[q[i]]
    OBVIOUS
  <2>1. nr[e] <= nr[q[k]] /\ k \in 1..n
    BY <1>1, <1>2
  <2>2. nr[q[k]] <= nr[q[i]]
    BY <1>1, <1>7, <2>1, <1>a
  <2> QED
    BY <1>7, <2>1, <2>2
<1>10. Sorted(q2, nr)
  <2> SUFFICES ASSUME NEW i \in 1..(n + 1), NEW j \in 1..(n + 1), i < j
               PROVE  nr[q2[i]] <= nr[q2[j]]
    BY <1>5 DEF Sorted
  <2>1. CASE j < k
    <3>1. i \in 1..(k - 1) /\ j \in 1..(k - 1) /\ i \in 1..n /\ j \in 1..n
      BY <2>1, <1>1
    <3>2. q2[i] = q[i] /\ q2[j] = q[j]
      BY <3>1, <1>6
    <3> QED
      BY <3>1, <3>2, <1>a
  <2>2. CASE j = k
    BY <2>2, <1>1, <1>6, <1>8
  <2>3. CASE j > k /\ i = k
    BY <2>3, <1>1, <1>6, <1>9
  <2>4. CASE j > k /\ i < k
    <3>a. i \in 1..(k - 1) /\ j \in (k + 1)..(n + 1) /\ i \in 1..n /\ j - 1 \in 1..n
      BY <2>4, <1>1
    <3>1. q2[i] = q[i] /\ q2[j] = q[j - 1] /\ i \in 1..n /\ j - 1 \in 1..n
      BY <3>a, <1>6
    <3>2. nr[q[i]] <= nr[e] /\ nr[e] <= nr[q[j - 1]]
      BY <2>4, <3>1, <1>1, <1>8, <1>9
    <3> QED
      BY <3>1, <3>2, <1>7
  <2>5. CASE j > k /\ i > k
    <3>1. q2[i] = q[i - 1] /\ q2[j] = q[j - 1] /\ i - 1 \in 1..n /\ j - 1 \in 1..n
      BY <2>5, <1>1, <1>6
    <3> QED
      BY <3>1, <1>a
  <2> QED
    BY <2>1, <2>2, <2>3, <2>4, <2>5, <1>1
<1>11. Distinct(q2)
  <2>1. \A i \in 1..n : q[i] # e
    BY <1>a DEF Linked
  <2> SUFFICES ASSUME NEW i \in 1..(n + 1), NEW j \in 1..(n + 1), i < j
               PROVE  q2[i] # q2[j]
    BY <1>5, <1>1 DEF Distinct
  <2>2. CASE j < k
    <3>1. i \in 1..(k - 1) /\ j \in 1..(k - 1) /\ i \in 1..n /\ j \in 1..n
      BY <2>2, <1>1
    <3>2. q2[i] = q[i] /\ q2[j] = q[j]
      BY <3>1, <1>6
    <3> QED
      BY <3>1, <3>2, <1>a
  <2>3. CASE j = k
    BY <2>3, <2>1, <1>1, <1>6
  <2>4. CASE j > k /\ i = k
    BY <2>4, <2>1, <1>1, <1>6
  <2>5. CASE j > k /\ i < k
    <3>a. i \in 1..(k - 1) /\ j \in (k + 1)..(n + 1) /\ i \in 1..n /\ j - 1 \in 1..n /\ i # j - 1
      BY <2>5, <1>1
    <3>1. q2[i] = q[i] /\ q2[j] = q[j - 1] /\ i \in 1..n /\ j - 1 \in 1..n /\ i # j - 1
      BY <3>a, <1>6
    <3> QED
      BY <3>1, <1>a
  <2>6. CASE j > k /\ i > k
    <3>1. q2[i] = q[i - 1] /\ q2[j] = q[j - 1] /\ i - 1 \in 1..n /\ j - 1 \in 1..n
      BY <2>6, <1>1, <1>6
    <3> QED
      BY <3>1, <1>a
  <2> QED
    BY <2>2, <2>3, <2>4, <2>5, <2>6, <1>1
<1>12. ASSUME NEW f \in Event PROVE Linked(q2, f) <=> f = e \/ Linked(q, f)
  <2>1. ASSUME Linked(q2, f) PROVE f = e \/ Linked(q, f)
    <3>1. PICK i \in 1..(n + 1) : q2[i] = f
      BY <2>1, <1>5 DEF Linked
    <3>2. CASE i = k
      BY <3>1, <3>2, <1>1, <1>6
    <3>3. CASE i < k
      <4>1. i \in 1..(k - 1) /\ i \in 1..n
        BY <3>3, <1>1
      <4>2. q[i] = f
        BY <3>1, <4>1, <1>6
      <4> QED
        BY <4>1, <4>2, <1>a DEF Linked
    <3>4. CASE i > k
      <4>1. i \in (k + 1)..(n + 1) /\ i - 1 \in 1..n
        BY <3>4, <1>1
      <4>2. q[i - 1] = f
        BY <3>1, <4>1, <1>6
      <4> QED
        BY <4>1, <4>2, <1>a DEF Linked
    <3> QED
      BY <3>2, <3>3, <3>4, <1>1
  <2>2. ASSUME f = e PROVE Linked(q2, f)
    BY <2>2, <1>1, <1>5, <1>6, <1>a DEF Linked
  <2>3. ASSUME Linked(q, f) PROVE Linked(q2, f)
    <3>1. PICK i \in 1..n : q[i] = f
      BY <2>3, <1>a
    <3>2. CASE i < k
      <4>1. i \in 1..(n + 1) /\ q2[i] = f
        BY <3>1, <3>2, <1>1, <1>6
      <4> QED
        BY <4>1, <1>5 DEF Linked
    <3>3. CASE i >= k
      <4>1. i + 1 \in (k + 1)..(n + 1) /\ i + 1 \in 1..(n + 1) /\ (i + 1) - 1 = i
        BY <3>3, <1>1
      <4>2. q2[i + 1] = f
        BY <3>1, <4>1, <1>6
      <4> QED
        BY <4>1, <4>2, <1>5 DEF Linked
    <3> QED
      BY <3>2, <3>3, <1>1
  <2> QED
    BY <2>1, <2>2, <2>3
<1>13. q2[1] # e => n > 0 /\ q2[1] = q[1]
  BY <1>1, <1>6
<1> QED
  BY <1>5, <1>10, <1>11, <1>12, <1>13

(* The list with the element at p taken out and linked again as the k-th:  *)
(* it is sorted when that element fits there.                              *)
LEMMA MoveToCorrect ==
  ASSUME NEW q \in Seq(Event), NEW nr \in [Event -> Nat],
         NEW p \in 1..Len(q), NEW k \in 1..Len(q),
         Distinct(q),
         \A i, j \in 1..Len(q) : i < j /\ i # p /\ j # p => nr[q[i]] <= nr[q[j]],
         \A i \in 1..Len(q) :
           i # p => IF i < k \/ (i = k /\ p < k) THEN nr[q[i]] <= nr[q[p]]
                                                ELSE nr[q[p]] <= nr[q[i]]
  PROVE  /\ MoveTo(q, p, k) \in Seq(Event)
         /\ Len(MoveTo(q, p, k)) = Len(q)
         /\ Sorted(MoveTo(q, p, k), nr)
         /\ Distinct(MoveTo(q, p, k))
         /\ \A f \in Event : Linked(MoveTo(q, p, k), f) <=> Linked(q, f)
         /\ MoveTo(q, p, k)[1] \in {q[p], q[1]} \/ p = 1
<1> DEFINE n == Len(q)
           q2 == MoveTo(q, p, k)
           old == [i \in 1..n |-> IF i = k THEN p
                                  ELSE IF p <= i /\ i < k THEN i + 1
                                  ELSE IF k < i /\ i <= p THEN i - 1
                                  ELSE i]
<1>1. n \in Nat /\ \A i \in 1..n : q[i] \in Event
  BY LenProperties, ElementOfSeq
<1>2. /\ q2 = [i \in 1..n |-> CASE i = k           -> q[p]
                             [] p <= i /\ i < k -> q[i + 1]
                             [] k < i /\ i <= p -> q[i - 1]
                             [] OTHER           -> q[i]]
      /\ p \in 1..n /\ k \in 1..n
  BY DEF MoveTo
<1>3. /\ \A i, j \in 1..n : i # j => q[i] # q[j]
      /\ \A i, j \in 1..n : i < j /\ i # p /\ j # p => nr[q[i]] <= nr[q[j]]
      /\ \A i \in 1..n :
           i # p => IF i < k \/ (i = k /\ p < k) THEN nr[q[i]] <= nr[q[p]]
                                                ELSE nr[q[p]] <= nr[q[i]]
      /\ \A f : Linked(q, f) <=> \E i \in 1..n : q[i] = f
  BY DEF Distinct, Linked
<1> n = Len(q)
  OBVIOUS
<1> HIDE DEF n
<1>4. ASSUME NEW i \in 1..n PROVE old[i] \in 1..n /\ q2[i] = q[old[i]]
  <2>1. CASE i = k
    BY <2>1, <1>1, <1>2
  <2>2. CASE p <= i /\ i < k
    BY <2>2, <1>1, <1>2
  <2>3. CASE k < i /\ i <= p
    BY <2>3, <1>1, <1>2
  <2>4. CASE i # k /\ ~(p <= i /\ i < k) /\ ~(k < i /\ i <= p)
    BY <2>4, <1>1, <1>2
  <2> QED
    BY <2>1, <2>2, <2>3, <2>4
<1>5. DOMAIN q2 = 1..n
  BY <1>2
<1> HIDE DEF q2
<1>6. q2 \in [1..n -> Event]
  <2>1. q2 = [i \in 1..n |-> q2[i]]
    BY <1>2
  <2> QED
    BY <2>1, <1>1, <1>4
<1>7. q2 \in Seq(Event) /\ Len(q2) = n
  BY <1>1, <1>6, FunctionIsSeq
<1>8. \A i, j \in 1..n : i < j /\ i # k /\ j # k
                         => old[i] < old[j] /\ old[i] # p /\ old[j] # p
  <2> SUFFICES ASSUME NEW i \in 1..n, NEW j \in 1..n, i < j, i # k, j # k
               PROVE  old[i] < old[j] /\ old[i] # p /\ old[j] # p
    OBVIOUS
  <2>1. /\ old[i] = IF p <= i /\ i < k THEN i + 1
                    ELSE IF k < i /\ i <= p THEN i - 1 ELSE i
        /\ old[j] = IF p <= j /\ j < k THEN j + 1
                    ELSE IF k < j /\ j <= p THEN j - 1 ELSE j
    OBVIOUS
  <2>2. n \in Nat /\ p \in Int /\ k \in Int /\ i \in Int /\ j \in Int
    BY <1>1, <1>2
  <2> HIDE DEF old
  <2>3. CASE p <= k
    BY <2>1, <2>2, <2>3
  <2>4. CASE k < p
    BY <2>1, <2>2, <2>4
  <2> QED
    BY <2>2, <2>3, <2>4
<1>9. old[k] = p
  BY <1>2
<1>10. \A i \in 1..n :
        /\ i < k => old[i] # p /\ (old[i] < k \/ (old[i] = k /\ p < k))
        /\ i > k => old[i] # p /\ ~(old[i] < k \/ (old[i] = k /\ p < k))
  BY <1>1, <1>2
<1>11. \A j \in 1..n : \E i \in 1..n : old[i] = j
  <2> SUFFICES ASSUME NEW j \in 1..n PROVE \E i \in 1..n : old[i] = j
    OBVIOUS
  <2>1. CASE j = p
    BY <2>1, <1>2, <1>9
  <2>2. CASE p < j /\ j <= k
    <3>1. j - 1 \in 1..n /\ old[j - 1] = j
      BY <2>2, <1>1, <1>2
    <3> QED
      BY <3>1
  <2>3. CASE k <= j /\ j < p
    <3>1. j + 1 \in 1..n /\ old[j + 1] = j
      BY <2>3, <1>1, <1>2
    <3> QED
      BY <3>1
  <2>4. CASE j # p /\ ~(p < j /\ j <= k) /\ ~(k <= j /\ j < p)
    <3>1. old[j] = j
      BY <2>4, <1>1, <1>2
    <3> QED
      BY <3>1
  <2> QED
    BY <2>1, <2>2, <2>3, <2>4
<1> HIDE DEF old
<1>12. Sorted(q2, nr)
  <2> SUFFICES ASSUME NEW i \in 1..n, NEW j \in 1..n, i < j
               PROVE  nr[q2[i]] <= nr[q2[j]]
    BY <1>7 DEF Sorted
  <2>1. CASE i # k /\ j # k
    <3>1. /\ old[i] \in 1..n /\ old[j] \in 1..n
          /\ old[i] < old[j] /\ old[i] # p /\ old[j] # p
      BY <2>1, <1>4, <1>8
    <3>2. nr[q[old[i]]] <= nr[q[old[j]]]
      BY <3>1, <1>3
    <3> QED
      BY <3>2, <1>4
  <2>2. CASE i = k
    <3>1. j > k
      BY <2>2, <1>1, <1>2
    <3>2. old[j] \in 1..n /\ old[j] # p /\ ~(old[j] < k \/ (old[j] = k /\ p < k))
      BY <3>1, <1>4, <1>10
    <3>3. nr[q[p]] <= nr[q[old[j]]]
      BY <3>2, <1>3
    <3> QED
      BY <2>2, <3>3, <1>4, <1>9
  <2>3. CASE j = k
    <3>1. i < k
      BY <2>3, <1>1, <1>2
    <3>2. old[i] \in 1..n /\ old[i] # p /\ (old[i] < k \/ (old[i] = k /\ p < k))
      BY <3>1, <1>4, <1>10
    <3>3. nr[q[old[i]]] <= nr[q[p]]
      BY <3>2, <1>3
    <3> QED
      BY <2>3, <3>3, <1>4, <1>9
  <2> QED
    BY <2>1, <2>2, <2>3
<1>13. Distinct(q2)
  <2> SUFFICES ASSUME NEW i \in 1..n, NEW j \in 1..n, i < j
               PROVE  q2[i] # q2[j]
    BY <1>7, <1>1 DEF Distinct
  <2>1. old[i] \in 1..n /\ old[j] \in 1..n
    BY <1>4
  <2>2. old[i] # old[j]
    <3>1. CASE i # k /\ j # k
      BY <2>1, <3>1, <1>8
    <3>2. CASE i = k
      BY <3>2, <1>1, <1>2, <1>9, <1>10
    <3>3. CASE j = k
      BY <3>3, <1>1, <1>2, <1>9, <1>10
    <3> QED
      BY <3>1, <3>2, <3>3
  <2> QED
    BY <2>1, <2>2, <1>3, <1>4
<1>14. \A f \in Event : Linked(q2, f) <=> Linked(q, f)
  <2> SUFFICES ASSUME NEW f PROVE Linked(q2, f) <=> Linked(q, f)
    OBVIOUS
  <2>1. Linked(q2, f) <=> \E i \in 1..n : q2[i] = f
    BY <1>7 DEF Linked
  <2>2. Linked(q, f) <=> \E i \in 1..n : q[i] = f
    BY <1>3
  <2>3. ASSUME NEW i \in 1..n, q2[i] = f PROVE \E j \in 1..n : q[j] = f
    BY <2>3, <1>4
  <2>4. ASSUME NEW j \in 1..n, q[j] = f PROVE \E i \in 1..n : q2[i] = f
    <3>1. PICK i \in 1..n : old[i] = j
      BY <1>11
    <3> QED
      BY <2>4, <3>1, <1>4
  <2> QED
    BY <2>1, <2>2, <2>3, <2>4
<1>15. q2[1] \in {q[p], q[1]} \/ p = 1
  <2>1. 1 \in 1..n
    BY <1>1, <1>2
  <2>2. old[1] \in {p, 1} \/ p = 1
    BY <2>1, <1>1, <1>2 DEF old
  <2> QED
    BY <2>1, <2>2, <1>4
<1> QED
  BY <1>7, <1>12, <1>13, <1>14, <1>15 DEF q2

(* The list is sorted but for the place of e.                              *)
SortedBut(q, e, nr) ==
  \A i, j \in 1..Len(q) : i < j /\ q[i] # e /\ q[j] # e => nr[q[i]] <= nr[q[j]]

LEMMA Retimed ==
  ASSUME NEW q \in Seq(Event), NEW nr0 \in [Event -> Nat], NEW e \in Event, NEW t \in Nat,
         Sorted(q, nr0)
  PROVE  SortedBut(q, e, [nr0 EXCEPT ![e] = t])
<1>1. \A i \in 1..Len(q) : q[i] \in Event
  BY ElementOfSeq
<1> QED
  BY <1>1 DEF Sorted, SortedBut

(* timing_events_sort_event: when only the time of e has changed, moving e *)
(* in the one direction its neighbours ask for sorts the list again.       *)
LEMMA SortEventCorrect ==
  ASSUME NEW q \in Seq(Event), NEW nr \in [Event -> Nat], NEW e \in Event, NEW q2,
         SortedBut(q, e, nr), Distinct(q), SortEvent(q, e, nr, q2)
  PROVE  /\ q2 \in Seq(Event) /\ Len(q2) = Len(q)
         /\ Sorted(q2, nr) /\ Distinct(q2)
         /\ \A f \in Event : Linked(q2, f) <=> Linked(q, f)
         /\ q2[1] = e \/ q[1] = e \/ q2[1] = q[1]
<1> DEFINE n == Len(q)
           Early(p) == p > 1 /\ nr[q[p - 1]] > nr[e]
           Late(p) == p < n /\ nr[e] > nr[q[p + 1]]
<1>1. n \in Nat /\ \A i \in 1..n : q[i] \in Event
  BY LenProperties, ElementOfSeq
<1>2. PICK p \in 1..n :
        /\ q[p] = e
        /\ \/ /\ Early(p)
              /\ \E k \in 1..(p - 1) :
                   /\ \A i \in k..(p - 1) : nr[q[i]] > nr[e]
                   /\ k > 1 => nr[q[k - 1]] <= nr[e]
                   /\ q2 = MoveTo(q, p, k)
           \/ /\ ~Early(p) /\ Late(p)
              /\ \E k \in (p + 1)..n :
                   /\ \A i \in (p + 1)..k : nr[e] > nr[q[i]]
                   /\ k < n => nr[e] <= nr[q[k + 1]]
                   /\ q2 = MoveTo(q, p, k)
           \/ ~Early(p) /\ ~Late(p) /\ q2 = q
  BY DEF SortEvent
<1>3. \A i \in 1..n : nr[q[i]] \in Nat
  BY <1>1
<1>4. \A i, j \in 1..n : i < j /\ i # p /\ j # p => nr[q[i]] <= nr[q[j]]
  <2> SUFFICES ASSUME NEW i \in 1..n, NEW j \in 1..n, i < j, i # p, j # p
               PROVE  nr[q[i]] <= nr[q[j]]
    OBVIOUS
  <2>1. q[i] # e /\ q[j] # e
    BY <1>2 DEF Distinct
  <2> QED
    BY <2>1 DEF SortedBut
<1> n = Len(q) /\ p \in 1..n
  OBVIOUS
<1>5. ASSUME NEW k \in 1..n, q2 = MoveTo(q, p, k),
             \A i \in 1..n :
               i # p => IF i < k \/ (i = k /\ p < k) THEN nr[q[i]] <= nr[q[p]]
                                                    ELSE nr[q[p]] <= nr[q[i]]
      PROVE  /\ q2 \in Seq(Event) /\ Len(q2) = Len(q)
             /\ Sorted(q2, nr) /\ Distinct(q2)
             /\ \A f \in Event : Linked(q2, f) <=> Linked(q, f)
             /\ q2[1] = e \/ q[1] = e \/ q2[1] = q[1]
  <2>1. /\ q2 \in Seq(Event) /\ Len(q2) = Len(q)
        /\ Sorted(q2, nr) /\ Distinct(q2)
        /\ \A f \in Event : Linked(q2, f) <=> Linked(q, f)
        /\ q2[1] \in {q[p], q[1]} \/ p = 1
    <3> HIDE DEF n
    <3>1. p \in 1..Len(q) /\ k \in 1..Len(q)
      BY <1>5
    <3> QED
      BY <3>1, <1>4, <1>5, MoveToCorrect
  <2> QED
    BY <2>1, <1>2
<1> HIDE DEF n
<1>6. CASE Early(p)
  <2>1. PICK k \in 1..(p - 1) :
          /\ \A i \in k..(p - 1) : nr[q[i]] > nr[e]
          /\ k > 1 => nr[q[k - 1]] <= nr[e]
          /\ q2 = MoveTo(q, p, k)
    BY <1>2, <1>6
  <2>2. k \in 1..n /\ p \in 1..n
    BY <1>1
  <2>3. ASSUME NEW i \in 1..n, i < k PROVE nr[q[i]] <= nr[e]
    <3>1. k - 1 \in 1..n /\ k - 1 # p /\ i # p /\ k > 1 /\ i <= k - 1
      BY <2>2, <2>3, <1>1
    <3>2. nr[q[i]] <= nr[q[k - 1]]
      <4>1. CASE i = k - 1
        BY <4>1, <1>3
      <4>2. CASE i # k - 1
        <5>1. i < k - 1
          BY <3>1, <4>2, <1>1
        <5> QED
          BY <5>1, <3>1, <1>4
      <4> QED
        BY <4>1, <4>2
    <3>3. nr[q[k - 1]] <= nr[e]
      BY <2>1, <3>1
    <3>4. nr[q[i]] \in Nat /\ nr[q[k - 1]] \in Nat /\ nr[e] \in Nat
      BY <3>1, <1>3
    <3> QED
      BY <3>2, <3>3, <3>4
  <2>4. ASSUME NEW i \in 1..n, i >= k, i # p PROVE nr[e] <= nr[q[i]]
    <3>1. CASE i < p
      BY <2>1, <2>2, <2>4, <3>1, <1>1, <1>3
    <3>2. CASE i > p
      <4>1. p - 1 \in 1..n /\ p - 1 \in k..(p - 1) /\ p - 1 < i /\ p - 1 # p
        BY <2>2, <3>2, <1>1
      <4>2. nr[q[p - 1]] <= nr[q[i]] /\ nr[q[p - 1]] > nr[e]
        BY <2>1, <2>4, <4>1, <1>1, <1>4
      <4> QED
        BY <4>1, <4>2, <1>3
    <3> QED
      BY <2>2, <2>4, <3>1, <3>2
  <2>5. \A i \in 1..n :
          i # p => IF i < k \/ (i = k /\ p < k) THEN nr[q[i]] <= nr[q[p]]
                                               ELSE nr[q[p]] <= nr[q[i]]
    BY <2>2, <2>3, <2>4, <1>2
  <2> QED
    BY <2>1, <2>2, <2>5, <1>5
<1>7. CASE ~Early(p) /\ Late(p)
  <2>1. PICK k \in (p + 1)..n :
          /\ \A i \in (p + 1)..k : nr[e] > nr[q[i]]
          /\ k < n => nr[e] <= nr[q[k + 1]]
          /\ q2 = MoveTo(q, p, k)
    BY <1>2, <1>7
  <2>2. k \in 1..n /\ p \in 1..n /\ p < k
    BY <1>1
  <2>3. ASSUME NEW i \in 1..n, i <= k, i # p PROVE nr[q[i]] <= nr[e]
    <3>1. CASE i > p
      BY <2>1, <2>2, <2>3, <3>1, <1>1, <1>3
    <3>2. CASE i < p
      <4>1. p + 1 \in 1..n /\ p + 1 \in (p + 1)..k /\ i < p + 1
        BY <2>2, <3>2, <1>1
      <4>2. nr[q[i]] <= nr[q[p + 1]] /\ nr[e] > nr[q[p + 1]]
        BY <2>1, <2>3, <4>1, <1>1, <1>4
      <4> QED
        BY <4>1, <4>2, <1>3
    <3> QED
      BY <2>2, <2>3, <3>1, <3>2
  <2>4. ASSUME NEW i \in 1..n, i > k PROVE nr[e] <= nr[q[i]]
    <3>1. k + 1 \in 1..n /\ k + 1 # p /\ i # p /\ k < n /\ k + 1 <= i
      BY <2>2, <2>4, <1>1
    <3>2. nr[q[k + 1]] <= nr[q[i]]
      <4>1. CASE i = k + 1
        BY <4>1, <1>3
      <4>2. CASE i # k + 1
        <5>1. k + 1 < i
          BY <3>1, <4>2, <1>1
        <5> QED
          BY <5>1, <3>1, <1>4
      <4> QED
        BY <4>1, <4>2
    <3> QED
      BY <2>1, <3>1, <3>2, <1>1, <1>3
  <2>5. \A i \in 1..n :
          i # p => IF i < k \/ (i = k /\ p < k) THEN nr[q[i]] <= nr[q[p]]
                                               ELSE nr[q[p]] <= nr[q[i]]
    BY <2>2, <2>3, <2>4, <1>2
  <2> QED
    BY <2>1, <2>2, <2>5, <1>5
<1>8. CASE ~Early(p) /\ ~Late(p)
  <2>1. q2 = q
    BY <1>2, <1>8
  <2>2. ASSUME NEW i \in 1..n, i < p PROVE nr[q[i]] <= nr[e]
    <3>1. p - 1 \in 1..n /\ p - 1 # p /\ i # p /\ i <= p - 1 /\ p > 1
      BY <2>2, <1>1
    <3>2. nr[q[p - 1]] <= nr[e] /\ nr[q[i]] <= nr[q[p - 1]]
      BY <3>1, <1>1, <1>3, <1>4, <1>8
    <3> QED
      BY <3>1, <3>2, <1>3
  <2>3. ASSUME NEW i \in 1..n, i > p PROVE nr[e] <= nr[q[i]]
    <3>1. p + 1 \in 1..n /\ p + 1 # p /\ i # p /\ p + 1 <= i /\ p < n
      BY <2>3, <1>1
    <3>2. nr[e] <= nr[q[p + 1]] /\ nr[q[p + 1]] <= nr[q[i]]
      BY <3>1, <1>1, <1>3, <1>4, <1>8
    <3> QED
      BY <3>1, <3>2, <1>3
  <2>4. Sorted(q, nr)
    <3> SUFFICES ASSUME NEW i \in 1..n, NEW j \in 1..n, i < j
                 PROVE  nr[q[i]] <= nr[q[j]]
      BY DEF Sorted
    <3>1. CASE i # p /\ j # p
      BY <3>1, <1>4
    <3>2. CASE i = p
      BY <3>2, <2>3, <1>2
    <3>3. CASE j = p
      BY <3>3, <2>2, <1>2
    <3> QED
      BY <3>1, <3>2, <3>3
  <2> QED
    BY <2>1, <2>4
<1> QED
  BY <1>6, <1>7, <1>8

(* timing_events_remove_active: the list stays sorted, e is gone.          *)
LEMMA RemoveAtCorrect ==
  ASSUME NEW q \in Seq(Event), NEW nr, NEW p \in 1..Len(q),
         Sorted(q, nr), Distinct(q)
  PROVE  /\ RemoveAt(q, p) \in Seq(Event) /\ Len(RemoveAt(q, p)) = Len(q) - 1
         /\ Sorted(RemoveAt(q, p), nr) /\ Distinct(RemoveAt(q, p))
         /\ \A f \in Event : Linked(RemoveAt(q, p), f) <=> Linked(q, f) /\ f # q[p]
         /\ p > 1 => RemoveAt(q, p)[1] = q[1]
<1> DEFINE n == Len(q)
           q2 == RemoveAt(q, p)
           old(i) == IF i < p THEN i ELSE i + 1
<1>1. n \in Nat /\ \A i \in 1..n : q[i] \in Event
  BY LenProperties, ElementOfSeq
<1>2. /\ n - 1 \in Nat
      /\ q2 = [i \in 1..(n - 1) |-> IF i < p THEN q[i] ELSE q[i + 1]]
  BY <1>1 DEF RemoveAt
<1>3. \A i \in 1..(n - 1) : old(i) \in 1..n /\ old(i) # p /\ q2[i] = q[old(i)]
  BY <1>1, <1>2
<1>4. q2 \in [1..(n - 1) -> Event]
  BY <1>1, <1>2
<1>5. q2 \in Seq(Event) /\ Len(q2) = n - 1
  BY <1>2, <1>4, FunctionIsSeq
<1> HIDE DEF q2
<1>6. Sorted(q2, nr)
  <2> SUFFICES ASSUME NEW i \in 1..(n - 1), NEW j \in 1..(n - 1), i < j
               PROVE  nr[q2[i]] <= nr[q2[j]]
    BY <1>5 DEF Sorted
  <2>1. old(i) < old(j)
    BY <1>1
  <2> QED
    BY <2>1, <1>3 DEF Sorted
<1>7. Distinct(q2)
  <2> SUFFICES ASSUME NEW i \in 1..(n - 1), NEW j \in 1..(n - 1), i # j
               PROVE  q2[i] # q2[j]
    BY <1>5 DEF Distinct
  <2>1. old(i) # old(j)
    BY <1>1
  <2> QED
    BY <2>1, <1>3 DEF Distinct
<1>8. ASSUME NEW f PROVE Linked(q2, f) <=> Linked(q, f) /\ f # q[p]
  <2>1. ASSUME Linked(q2, f) PROVE Linked(q, f) /\ f # q[p]
    <3>1. PICK i \in 1..(n - 1) : q2[i] = f
      BY <2>1, <1>5 DEF Linked
    <3>2. old(i) \in 1..n /\ old(i) # p /\ f = q[old(i)]
      BY <3>1, <1>3
    <3> HIDE DEF old
    <3> QED
      BY <3>2 DEF Linked, Distinct
  <2>2. ASSUME Linked(q, f), f # q[p] PROVE Linked(q2, f)
    <3>1. PICK i \in 1..n : q[i] = f
      BY <2>2 DEF Linked
    <3>2. i # p
      BY <2>2, <3>1
    <3>3. CASE i < p
      <4>1. i \in 1..(n - 1) /\ q2[i] = f
        BY <3>1, <3>3, <1>1, <1>3
      <4> QED
        BY <4>1, <1>5 DEF Linked
    <3>4. CASE i > p
      <4>1. i - 1 \in 1..(n - 1) /\ ~(i - 1 < p) /\ (i - 1) + 1 = i
        BY <3>4, <1>1
      <4>2. q2[i - 1] = f
        BY <3>1, <4>1, <1>3
      <4> QED
        BY <4>1, <4>2, <1>5 DEF Linked
    <3> QED
      BY <3>2, <3>3, <3>4, <1>1
  <2> QED
    BY <2>1, <2>2
<1>9. p > 1 => q2[1] = q[1]
  BY <1>1, <1>3
<1> QED
  BY <1>5, <1>6, <1>7, <1>8, <1>9 DEF q2

(* The head of a sorted list is earliest.                                  *)
LEMMA HeadIsEarliest ==
  ASSUME NEW q \in Seq(Event), NEW nr \in [Event -> Nat], Sorted(q, nr),
         NEW e \in Event, Linked(q, e)
  PROVE  /\ Len(q) \in Nat /\ 1 \in 1..Len(q)
         /\ q[1] \in Event /\ Linked(q, q[1])
         /\ nr[q[1]] <= nr[e]
<1>1. Len(q) \in Nat /\ \A i \in 1..Len(q) : q[i] \in Event
  BY LenProperties, ElementOfSeq
<1>2. PICK i \in 1..Len(q) : q[i] = e
  BY DEF Linked
<1>3. 1 \in 1..Len(q)
  BY <1>1
<1>4. q[1] \in Event /\ Linked(q, q[1])
  BY <1>1, <1>3 DEF Linked
<1>5. nr[q[1]] <= nr[e]
  <2>1. CASE i = 1
    BY <2>1, <1>2
  <2>2. CASE i # 1
    <3>1. 1 < i
      BY <2>2, <1>1
    <3> QED
      BY <3>1, <1>2, <1>3 DEF Sorted
  <2> QED
    BY <2>1, <2>2
<1> QED
  BY <1>1, <1>3, <1>4, <1>5

-----------------------------------------------------------------------------
(* The inductive invariant.                                                *)

(* What the invariant says about the head of the list.                     *)
LEMMA HeadFacts ==
  ASSUME WellScheduled
  PROVE  /\ 1 \in 1..Len(queue) /\ Head_ \in Event /\ active[Head_]
         /\ \A e \in Event : active[e] => next_run_time[Head_] <= next_run_time[e]
         /\ next_run_time[Head_] \in Nat
         /\ next_run_time[Head_] >= global_tick_counter
<1>1. Crtc \in Event /\ queue \in Seq(Event) /\ next_run_time \in [Event -> Nat]
  BY EventAssumption DEF WellScheduled, TypeOK, Time
<1>2. Sorted(queue, next_run_time)
  BY DEF WellScheduled, QueueSorted
<1>3. \A e \in Event : active[e] <=> Linked(queue, e)
  BY DEF WellScheduled, QueueIsActiveSet
<1>4. \A e \in Event : active[e] =>
        /\ 1 \in 1..Len(queue) /\ queue[1] \in Event /\ Linked(queue, queue[1])
        /\ next_run_time[queue[1]] <= next_run_time[e]
  BY <1>1, <1>2, <1>3, HeadIsEarliest
<1>5. active[Crtc]
  BY DEF WellScheduled
<1>6. active[Head_]
  BY <1>1, <1>3, <1>4, <1>5 DEF Head_
<1> QED
  BY <1>1, <1>4, <1>5, <1>6 DEF Head_, WellScheduled, NoEventInThePast

LEMMA InitIndInv == Init => IndInv
<1> SUFFICES ASSUME Init PROVE IndInv
  OBVIOUS
<1> USE DEF Init
<1>1. Crtc \in Event /\ None \notin Event
  BY EventAssumption
<1>2. queue = <<Crtc>> /\ queue \in Seq(Event) /\ Len(queue) = 1 /\ queue[1] = Crtc
  BY <1>1
<1>3. Period0 \in Nat \ {0}
  BY TickAssumption
<1>4. TypeOK
  BY <1>1, <1>2, <1>3 DEF TypeOK, Time, Phases
<1>5. QueueSorted
  BY <1>2 DEF QueueSorted, Sorted
<1>6. QueueIsActiveSet
  <2>1. \A e : Linked(queue, e) <=> e = Crtc
    BY <1>2 DEF Linked
  <2>2. Distinct(queue)
    BY <1>2 DEF Distinct
  <2>3. \A e \in Event : active[e] <=> e = Crtc
    OBVIOUS
  <2> QED
    BY <2>1, <2>2, <2>3 DEF QueueIsActiveSet
<1>7. NoEventInThePast /\ StashedTimeHolds /\ ClockBehindEnd /\ CpuStopsAtHead
  BY <1>1, <1>3 DEF NoEventInThePast, StashedTimeHolds, ClockBehindEnd, CpuStopsAtHead
<1> QED
  BY <1>1, <1>4, <1>5, <1>6, <1>7 DEF IndInv, WellScheduled

(* What every step keeps of it; a load that fails before the events (see   *)
(* EventSaveState) keeps all but the downcount.                            *)
SchedulingKept ==
  /\ WellScheduled'
  /\ CpuStopsAtHead => CpuStopsAtHead'

(* The downcount after an operation of a device: refreshed when the head   *)
(* is another event or has another time.                                   *)
LEMMA DowncountKept ==
  ASSUME WellScheduled, queue' \in Seq(Event), next_run_time' \in [Event -> Nat],
         QueueSorted', QueueIsActiveSet', NoEventInThePast', active[Crtc]',
         global_tick_counter' = global_tick_counter, irq' = irq, phase' = phase,
         \/ downcount' = DowncountFor(queue', next_run_time', global_tick_counter, irq)
         \/ /\ downcount' = downcount
            /\ phase = "cpu" => /\ queue'[1] = queue[1]
                                /\ next_run_time'[queue[1]] = next_run_time[queue[1]]
  PROVE  downcount' \in Nat /\ (CpuStopsAtHead => CpuStopsAtHead')
<1>1. /\ Linked(queue', Crtc) /\ Sorted(queue', next_run_time') /\ Crtc \in Event
      /\ \A e \in Event : active'[e] <=> Linked(queue', e)
  BY EventAssumption DEF QueueIsActiveSet, QueueSorted
<1>2. queue'[1] \in Event /\ active'[queue'[1]]
  BY <1>1, HeadIsEarliest
<1>3. /\ next_run_time'[queue'[1]] \in Nat
      /\ next_run_time'[queue'[1]] >= global_tick_counter
      /\ global_tick_counter \in Nat /\ downcount \in Nat /\ irq \in BOOLEAN
  BY <1>2 DEF NoEventInThePast, WellScheduled, TypeOK, Time
<1>4. CASE downcount' = DowncountFor(queue', next_run_time', global_tick_counter, irq)
  BY <1>3, <1>4 DEF DowncountFor, CpuStopsAtHead, Head_
<1>5. CASE /\ downcount' = downcount
           /\ phase = "cpu" => /\ queue'[1] = queue[1]
                               /\ next_run_time'[queue[1]] = next_run_time[queue[1]]
  BY <1>3, <1>5 DEF CpuStopsAtHead, Head_, WellScheduled
<1> QED
  BY <1>4, <1>5

(* A new time for an event that is not linked disturbs nothing.            *)
LEMMA UntouchedTimes ==
  ASSUME NEW q \in Seq(Event), NEW nr0 \in [Event -> Nat], NEW e \in Event, NEW t \in Nat,
         Sorted(q, nr0), ~Linked(q, e)
  PROVE  Sorted(q, [nr0 EXCEPT ![e] = t])
<1>1. \A i \in 1..Len(q) : q[i] \in Event /\ q[i] # e
  BY ElementOfSeq DEF Linked
<1> QED
  BY <1>1 DEF Sorted

(* Giving the linked event e another time and sorting it.                  *)
LEMMA ResortedList ==
  ASSUME WellScheduled, NEW e \in Event, active[e], NEW t \in Nat, t >= global_tick_counter,
         next_run_time' = [next_run_time EXCEPT ![e] = t],
         SortEvent(queue, e, next_run_time', queue'),
         active' = active, global_tick_counter' = global_tick_counter
  PROVE  /\ queue' \in Seq(Event) /\ next_run_time' \in [Event -> Nat]
         /\ QueueSorted' /\ QueueIsActiveSet' /\ NoEventInThePast'
         /\ queue'[1] = e \/ queue[1] = e \/ queue'[1] = queue[1]
<1>1. /\ queue \in Seq(Event) /\ next_run_time \in [Event -> Nat]
      /\ Sorted(queue, next_run_time) /\ Distinct(queue)
      /\ \A f \in Event : active[f] <=> Linked(queue, f)
      /\ NoEventInThePast
  BY DEF WellScheduled, TypeOK, Time, QueueSorted, QueueIsActiveSet
<1>2. /\ next_run_time' \in [Event -> Nat]
      /\ \A f \in Event : f # e => next_run_time'[f] = next_run_time[f]
      /\ next_run_time'[e] = t
  BY <1>1
<1>3. /\ queue' \in Seq(Event) /\ Sorted(queue', next_run_time') /\ Distinct(queue')
      /\ \A f \in Event : Linked(queue', f) <=> Linked(queue, f)
      /\ queue'[1] = e \/ queue[1] = e \/ queue'[1] = queue[1]
  <2>1. SortedBut(queue, e, next_run_time')
    BY <1>1, Retimed
  <2>2. \A nr \in [Event -> Nat] : \A q2 :
          SortedBut(queue, e, nr) /\ SortEvent(queue, e, nr, q2)
          => /\ q2 \in Seq(Event) /\ Sorted(q2, nr) /\ Distinct(q2)
             /\ \A f \in Event : Linked(q2, f) <=> Linked(queue, f)
             /\ q2[1] = e \/ queue[1] = e \/ q2[1] = queue[1]
    BY <1>1, SortEventCorrect
  <2>3. SortEvent(queue, e, next_run_time', queue')
    OBVIOUS
  <2> QED
    BY <1>2, <2>1, <2>2, <2>3
<1>4. NoEventInThePast'
  <2>1. ASSUME NEW f \in Event, active[f] PROVE next_run_time'[f] >= global_tick_counter
    BY <1>1, <1>2, <2>1 DEF NoEventInThePast
  <2> QED
    BY <2>1 DEF NoEventInThePast
<1>5. QueueSorted' /\ QueueIsActiveSet'
  BY <1>1, <1>3 DEF QueueSorted, QueueIsActiveSet
<1> QED
  BY <1>2, <1>3, <1>4, <1>5

(* The same with the downcount: the operations on another event than the   *)
(* running one.                                                            *)
LEMMA Resorted ==
  ASSUME WellScheduled, NEW e \in Event, active[e], NEW t \in Nat, t >= global_tick_counter,
         next_run_time' = [next_run_time EXCEPT ![e] = t],
         SortEvent(queue, e, next_run_time', queue'), SortedDowncount(e),
         active' = active, global_tick_counter' = global_tick_counter
  PROVE  /\ queue' \in Seq(Event) /\ next_run_time' \in [Event -> Nat]
         /\ QueueSorted' /\ QueueIsActiveSet' /\ NoEventInThePast'
         /\ \/ downcount' = DowncountFor(queue', next_run_time', global_tick_counter, irq)
            \/ /\ downcount' = downcount
               /\ phase = "cpu" => /\ queue'[1] = queue[1]
                                   /\ next_run_time'[queue[1]] = next_run_time[queue[1]]
<1>1. /\ next_run_time \in [Event -> Nat]
      /\ phase = "cpu" => current_event = None
  BY DEF WellScheduled, TypeOK, Time
<1>2. \A f \in Event : f # e => next_run_time'[f] = next_run_time[f]
  BY <1>1
<1>3. /\ queue' \in Seq(Event) /\ next_run_time' \in [Event -> Nat]
      /\ QueueSorted' /\ QueueIsActiveSet' /\ NoEventInThePast'
      /\ queue'[1] = e \/ queue[1] = e \/ queue'[1] = queue[1]
  BY ResortedList
<1>6. \/ downcount' = DowncountFor(queue', next_run_time', global_tick_counter, irq)
      \/ /\ downcount' = downcount
         /\ phase = "cpu" => /\ queue'[1] = queue[1]
                             /\ next_run_time'[queue[1]] = next_run_time[queue[1]]
  <2>1. CASE queue'[1] = e \/ (queue[1] = e /\ current_event = None)
    BY <2>1 DEF SortedDowncount, Head_
  <2>2. CASE ~(queue'[1] = e \/ (queue[1] = e /\ current_event = None))
    <3>1. downcount' = downcount
      BY <2>2 DEF SortedDowncount, Head_
    <3>2. queue[1] \in Event
      BY HeadFacts DEF Head_
    <3>3. ASSUME phase = "cpu"
          PROVE  /\ queue'[1] = queue[1]
                 /\ next_run_time'[queue[1]] = next_run_time[queue[1]]
      <4>1. current_event = None
        BY <1>1, <3>3
      <4>2. queue'[1] = queue[1] /\ queue[1] # e
        BY <4>1, <2>2, <1>3
      <4> QED
        BY <4>2, <3>2, <1>2
    <3> QED
      BY <3>1, <3>3
  <2> QED
    BY <2>1, <2>2
<1> QED
  BY <1>3, <1>6

(* An operation of a device keeps the invariant when it keeps the list and *)
(* the deadlines; only the callback's own event has a stashed time then.   *)
LEMMA OperationStep ==
  ASSUME WellScheduled, Calling,
         UNCHANGED <<current_event, clock, pending_ticks, irq, phase>>,
         queue' \in Seq(Event), active' \in [Event -> BOOLEAN],
         next_run_time' \in [Event -> Nat], last_run_time' \in [Event -> Nat],
         period' \in [Event -> Nat \ {0}], interval' \in [Event -> Nat \ {0}],
         QueueSorted', QueueIsActiveSet', NoEventInThePast', active'[Crtc],
         \/ downcount' = DowncountFor(queue', next_run_time', global_tick_counter, irq)
         \/ /\ downcount' = downcount
            /\ phase = "cpu" => /\ queue'[1] = queue[1]
                                /\ next_run_time'[queue[1]] = next_run_time[queue[1]],
         current_event_next_run_time' \in Nat,
         current_event # None /\ active'[current_event]
           => current_event_next_run_time' >= global_tick_counter
  PROVE  SchedulingKept
<1>1. downcount' \in Nat /\ (CpuStopsAtHead => CpuStopsAtHead')
  BY DowncountKept DEF clock
<1>2. TypeOK /\ ClockBehindEnd
  BY DEF WellScheduled
<1>3. TypeOK'
  BY <1>1, <1>2 DEF TypeOK, Time, clock
<1>4. StashedTimeHolds'
  BY <1>2 DEF StashedTimeHolds, Calling, TypeOK, clock
<1>5. ClockBehindEnd'
  BY <1>2 DEF ClockBehindEnd, clock
<1> QED
  BY <1>1, <1>3, <1>4, <1>5 DEF WellScheduled, SchedulingKept

(* timing_event_schedule and the two operations built on it.               *)
LEMMA ScheduleStep ==
  ASSUME WellScheduled, Calling, NEW e \in Event, NEW ticks \in Nat, ScheduleBody(e, ticks),
         period' \in [Event -> Nat \ {0}], interval' \in [Event -> Nat \ {0}]
  PROVE  SchedulingKept
<1> DEFINE next == Timestamp + ticks
<1>1. /\ current_event_next_run_time' =
           IF current_event = e THEN next ELSE current_event_next_run_time
      /\ UNCHANGED <<current_event, clock, pending_ticks, irq, phase>>
  BY DEF ScheduleBody
<1>2. next \in Nat /\ next >= global_tick_counter /\ Timestamp \in Nat
  BY DEF Timestamp, WellScheduled, TypeOK, Time
<1>3. None \notin Event /\ Crtc \in Event
  BY EventAssumption
<1>4. /\ TypeOK /\ Sorted(queue, next_run_time) /\ Distinct(queue)
      /\ \A f \in Event : active[f] <=> Linked(queue, f)
      /\ active[Crtc] /\ NoEventInThePast /\ StashedTimeHolds
  BY DEF WellScheduled, QueueSorted, QueueIsActiveSet
<1>5. SUFFICES
        /\ queue' \in Seq(Event) /\ active' \in [Event -> BOOLEAN]
        /\ next_run_time' \in [Event -> Nat] /\ last_run_time' \in [Event -> Nat]
        /\ QueueSorted' /\ QueueIsActiveSet' /\ NoEventInThePast' /\ active'[Crtc]
        /\ \/ downcount' = DowncountFor(queue', next_run_time', global_tick_counter, irq)
           \/ /\ downcount' = downcount
              /\ phase = "cpu" => /\ queue'[1] = queue[1]
                                  /\ next_run_time'[queue[1]] = next_run_time[queue[1]]
        /\ current_event # None /\ active'[current_event]
             => active[current_event] \/ current_event = e
  <2>1. current_event_next_run_time' \in Nat
    BY <1>1, <1>2, <1>4 DEF TypeOK, Time
  <2>2. current_event # None /\ active'[current_event]
          => current_event_next_run_time' >= global_tick_counter
    BY <1>1, <1>2, <1>4, <1>5 DEF StashedTimeHolds
  <2> QED
    BY <1>1, <1>5, <2>1, <2>2, OperationStep
<1>6. CASE ~active[e]
  <2>1. /\ next_run_time' = [next_run_time EXCEPT ![e] = next]
        /\ last_run_time' = [last_run_time EXCEPT ![e] = Timestamp]
        /\ active' = [active EXCEPT ![e] = TRUE]
        /\ AddActive(queue, e, next_run_time', queue')
        /\ AddedDowncount(e)
    BY <1>6 DEF ScheduleBody
  <2>2. /\ next_run_time' \in [Event -> Nat] /\ last_run_time' \in [Event -> Nat]
        /\ active' \in [Event -> BOOLEAN] /\ queue \in Seq(Event)
    BY <1>2, <1>4, <2>1 DEF TypeOK, Time
  <2>3. ~Linked(queue, e)
    BY <1>4, <1>6
  <2>4. Sorted(queue, next_run_time')
    BY <2>1, <2>2, <2>3, <1>4, UntouchedTimes DEF TypeOK, Time
  <2>5. /\ queue' \in Seq(Event) /\ Sorted(queue', next_run_time') /\ Distinct(queue')
        /\ \A f \in Event : Linked(queue', f) <=> f = e \/ Linked(queue, f)
        /\ queue'[1] # e => Len(queue) > 0 /\ queue'[1] = queue[1]
    <3>1. \A nr \in [Event -> Nat] : \A q2 :
            Sorted(queue, nr) /\ AddActive(queue, e, nr, q2)
            => /\ q2 \in Seq(Event) /\ Sorted(q2, nr) /\ Distinct(q2)
               /\ \A f \in Event : Linked(q2, f) <=> f = e \/ Linked(queue, f)
               /\ q2[1] # e => Len(queue) > 0 /\ q2[1] = queue[1]
      BY <1>4, <2>2, <2>3, AddActiveCorrect
    <3> QED
      BY <2>1, <2>2, <2>4, <3>1
  <2>6. QueueSorted' /\ QueueIsActiveSet'
    BY <1>4, <2>1, <2>2, <2>5 DEF QueueSorted, QueueIsActiveSet, TypeOK
  <2>7. NoEventInThePast'
    BY <1>1, <1>2, <1>4, <2>1 DEF NoEventInThePast, TypeOK, Time, clock
  <2>8. \/ downcount' = DowncountFor(queue', next_run_time', global_tick_counter, irq)
        \/ /\ downcount' = downcount
           /\ queue'[1] = queue[1]
           /\ next_run_time'[queue[1]] = next_run_time[queue[1]]
    <3>1. CASE queue'[1] = e
      BY <3>1, <2>1 DEF AddedDowncount
    <3>2. CASE queue'[1] # e
      <4>1. queue'[1] = queue[1] /\ queue[1] # e /\ downcount' = downcount
        BY <3>2, <2>1, <2>5 DEF AddedDowncount
      <4>2. queue[1] \in Event
        BY HeadFacts DEF Head_
      <4> QED
        BY <4>1, <4>2, <2>1, <1>4 DEF TypeOK
    <3> QED
      BY <3>1, <3>2
  <2>9. /\ active'[Crtc]
        /\ current_event # None /\ active'[current_event]
             => active[current_event] \/ current_event = e
    BY <1>3, <1>4, <2>1 DEF TypeOK
  <2> QED
    BY <2>2, <2>5, <2>6, <2>7, <2>8, <2>9
<1>7. CASE active[e] /\ current_event # e
  <2>1. /\ next_run_time' = [next_run_time EXCEPT ![e] = next]
        /\ SortEvent(queue, e, next_run_time', queue')
        /\ SortedDowncount(e)
        /\ UNCHANGED <<active, last_run_time>>
    BY <1>7 DEF ScheduleBody
  <2>2. next \in Nat /\ next >= global_tick_counter /\ global_tick_counter' = global_tick_counter
    BY <1>1, <1>2 DEF clock
  <2>3. /\ queue' \in Seq(Event) /\ next_run_time' \in [Event -> Nat]
        /\ QueueSorted' /\ QueueIsActiveSet' /\ NoEventInThePast'
        /\ \/ downcount' = DowncountFor(queue', next_run_time', global_tick_counter, irq)
           \/ /\ downcount' = downcount
              /\ phase = "cpu" => /\ queue'[1] = queue[1]
                                  /\ next_run_time'[queue[1]] = next_run_time[queue[1]]
    BY <1>7, <2>1, <2>2, Resorted
  <2> QED
    BY <2>1, <2>3, <1>4 DEF TypeOK, Time
<1>8. CASE active[e] /\ current_event = e
  <2>1. UNCHANGED <<queue, active, next_run_time, last_run_time, downcount>>
    BY <1>8 DEF ScheduleBody
  <2> QED
    BY <2>1, <1>1, <1>4 DEF TypeOK, Time, QueueSorted, QueueIsActiveSet,
                            NoEventInThePast, clock
<1> QED
  BY <1>6, <1>7, <1>8

LEMMA DelayStep ==
  ASSUME WellScheduled, NEW e \in Event, NEW ticks \in Nat, Delay(e, ticks)
  PROVE  SchedulingKept
<1> DEFINE next == next_run_time[e] + ticks
<1>1. /\ Calling /\ active[e] /\ current_event # e
      /\ next_run_time' = [next_run_time EXCEPT ![e] = next]
      /\ SortEvent(queue, e, next_run_time', queue') /\ SortedDowncount(e)
      /\ UNCHANGED <<active, last_run_time, period, interval, current>>
      /\ UNCHANGED <<current_event, clock, pending_ticks, irq, phase>>
  BY DEF Delay, current
<1>2. TypeOK /\ NoEventInThePast /\ StashedTimeHolds /\ active[Crtc]
  BY DEF WellScheduled
<1>3. next \in Nat /\ next >= global_tick_counter /\ global_tick_counter' = global_tick_counter
  BY <1>1, <1>2 DEF NoEventInThePast, TypeOK, Time, clock
<1>4. /\ queue' \in Seq(Event) /\ next_run_time' \in [Event -> Nat]
      /\ QueueSorted' /\ QueueIsActiveSet' /\ NoEventInThePast'
      /\ \/ downcount' = DowncountFor(queue', next_run_time', global_tick_counter, irq)
         \/ /\ downcount' = downcount
            /\ phase = "cpu" => /\ queue'[1] = queue[1]
                                /\ next_run_time'[queue[1]] = next_run_time[queue[1]]
  <2> HIDE DEF next
  <2> QED
    BY <1>1, <1>3, Resorted
<1>5. /\ active' \in [Event -> BOOLEAN] /\ last_run_time' \in [Event -> Nat]
      /\ period' \in [Event -> Nat \ {0}] /\ interval' \in [Event -> Nat \ {0}]
      /\ active'[Crtc] /\ current_event_next_run_time' \in Nat
  BY <1>1, <1>2 DEF TypeOK, Time, current
<1>6. current_event # None /\ active'[current_event]
        => current_event_next_run_time' >= global_tick_counter
  BY <1>1, <1>2 DEF StashedTimeHolds, current
<1> QED
  BY <1>1, <1>4, <1>5, <1>6, OperationStep

LEMMA InvokeEarlyStep ==
  ASSUME WellScheduled, NEW e \in Event, NEW force, InvokeEarly(e, force)
  PROVE  SchedulingKept
<1> DEFINE next == Timestamp + interval[e]
<1>1. /\ Calling /\ active[e] /\ current_event # e
      /\ next_run_time' = [next_run_time EXCEPT ![e] = next]
      /\ last_run_time' = [last_run_time EXCEPT ![e] = Timestamp]
      /\ SortEvent(queue, e, next_run_time', queue') /\ SortedDowncount(e)
      /\ UNCHANGED <<active, period, interval, current>>
      /\ UNCHANGED <<current_event, clock, pending_ticks, irq, phase>>
  BY DEF InvokeEarly, current
<1>2. TypeOK /\ NoEventInThePast /\ StashedTimeHolds /\ active[Crtc]
  BY DEF WellScheduled
<1>3. /\ next \in Nat /\ next >= global_tick_counter /\ Timestamp \in Nat
      /\ global_tick_counter' = global_tick_counter
  BY <1>1, <1>2 DEF Timestamp, TypeOK, Time, clock
<1>4. /\ queue' \in Seq(Event) /\ next_run_time' \in [Event -> Nat]
      /\ QueueSorted' /\ QueueIsActiveSet' /\ NoEventInThePast'
      /\ \/ downcount' = DowncountFor(queue', next_run_time', global_tick_counter, irq)
         \/ /\ downcount' = downcount
            /\ phase = "cpu" => /\ queue'[1] = queue[1]
                                /\ next_run_time'[queue[1]] = next_run_time[queue[1]]
  <2> HIDE DEF next
  <2> QED
    BY <1>1, <1>3, Resorted
<1>5. /\ active' \in [Event -> BOOLEAN] /\ last_run_time' \in [Event -> Nat]
      /\ period' \in [Event -> Nat \ {0}] /\ interval' \in [Event -> Nat \ {0}]
      /\ active'[Crtc] /\ current_event_next_run_time' \in Nat
  BY <1>1, <1>2, <1>3 DEF TypeOK, Time, current
<1>6. current_event # None /\ active'[current_event]
        => current_event_next_run_time' >= global_tick_counter
  BY <1>1, <1>2 DEF StashedTimeHolds, current
<1> QED
  BY <1>1, <1>4, <1>5, <1>6, OperationStep

LEMMA ActivateStep ==
  ASSUME WellScheduled, NEW e \in Event, Activate(e)
  PROVE  SchedulingKept
<1>1. Calling /\ ScheduleBody(e, interval[e]) /\ UNCHANGED <<period, interval>>
  BY DEF Activate, ScheduleBody
<1>2. /\ interval[e] \in Nat
      /\ period' \in [Event -> Nat \ {0}] /\ interval' \in [Event -> Nat \ {0}]
  BY <1>1 DEF WellScheduled, TypeOK
<1> QED
  BY <1>1, <1>2, ScheduleStep

LEMMA DeactivateStep ==
  ASSUME WellScheduled, NEW e \in Event, Deactivate(e)
  PROVE  SchedulingKept
<1>1. /\ Calling /\ active[e] /\ e # Crtc
      /\ active' = [active EXCEPT ![e] = FALSE]
      /\ downcount' = IF queue[1] = e /\ current_event = None
                      THEN DowncountFor(queue', next_run_time, global_tick_counter, irq)
                      ELSE downcount
      /\ UNCHANGED <<next_run_time, last_run_time, period, interval, current>>
      /\ UNCHANGED <<current_event, clock, pending_ticks, irq, phase>>
  BY DEF Deactivate, current, Head_
<1>2. /\ TypeOK /\ NoEventInThePast /\ StashedTimeHolds /\ active[Crtc]
      /\ Sorted(queue, next_run_time) /\ Distinct(queue)
      /\ \A f \in Event : active[f] <=> Linked(queue, f)
      /\ queue \in Seq(Event) /\ Crtc \in Event
  BY EventAssumption DEF WellScheduled, QueueSorted, QueueIsActiveSet, TypeOK
<1>3. PICK p \in 1..Len(queue) : queue[p] = e /\ queue' = RemoveAt(queue, p)
  BY DEF Deactivate
<1>4. /\ queue' \in Seq(Event) /\ Sorted(queue', next_run_time) /\ Distinct(queue')
      /\ \A f \in Event : Linked(queue', f) <=> Linked(queue, f) /\ f # e
      /\ p > 1 => queue'[1] = queue[1]
  <2>1. /\ RemoveAt(queue, p) \in Seq(Event) /\ Sorted(RemoveAt(queue, p), next_run_time)
        /\ Distinct(RemoveAt(queue, p))
        /\ \A f \in Event : Linked(RemoveAt(queue, p), f) <=> Linked(queue, f) /\ f # queue[p]
        /\ p > 1 => RemoveAt(queue, p)[1] = queue[1]
    <3>1. queue \in Seq(Event) /\ Sorted(queue, next_run_time) /\ Distinct(queue)
      BY <1>2
    <3> QED
      BY ONLY <3>1, p \in 1..Len(queue), RemoveAtCorrect
  <2> QED
    BY <1>3, <2>1
<1>5. /\ active' \in [Event -> BOOLEAN]
      /\ \A f \in Event : active'[f] <=> active[f] /\ f # e
  BY <1>1, <1>2 DEF TypeOK
<1>6. QueueSorted' /\ QueueIsActiveSet' /\ NoEventInThePast' /\ active'[Crtc]
  BY <1>1, <1>2, <1>4, <1>5 DEF QueueSorted, QueueIsActiveSet, NoEventInThePast, clock
<1>7. \/ downcount' = DowncountFor(queue', next_run_time', global_tick_counter, irq)
      \/ /\ downcount' = downcount
         /\ phase = "cpu" => /\ queue'[1] = queue[1]
                             /\ next_run_time'[queue[1]] = next_run_time[queue[1]]
  <2>1. CASE queue[1] = e /\ current_event = None
    BY <2>1, <1>1
  <2>2. CASE ~(queue[1] = e /\ current_event = None)
    <3>1. phase = "cpu" => queue[1] # e
      BY <2>2, <1>2 DEF TypeOK
    <3>2. queue[1] # e => p > 1
      BY <1>3, <1>2, LenProperties
    <3> QED
      BY <2>2, <3>1, <3>2, <1>1, <1>4
  <2> QED
    BY <2>1, <2>2
<1>8. /\ next_run_time' \in [Event -> Nat] /\ last_run_time' \in [Event -> Nat]
      /\ period' \in [Event -> Nat \ {0}] /\ interval' \in [Event -> Nat \ {0}]
      /\ current_event_next_run_time' \in Nat
  BY <1>1, <1>2 DEF TypeOK, Time, current
<1>9. current_event # None /\ active'[current_event]
        => current_event_next_run_time' >= global_tick_counter
  BY <1>1, <1>2, <1>5 DEF StashedTimeHolds, current, TypeOK
<1> QED
  BY <1>1, <1>4, <1>5, <1>6, <1>7, <1>8, <1>9, OperationStep

(* The downcount computed from a list without overdue events is a Nat.     *)
LEMMA DowncountInNat ==
  ASSUME NEW q \in Seq(Event), NEW nr \in [Event -> Nat], NEW g \in Nat, NEW i \in BOOLEAN,
         Sorted(q, nr), Linked(q, Crtc),
         \A f \in Event : Linked(q, f) => nr[f] >= g
  PROVE  DowncountFor(q, nr, g, i) \in Nat
<1>1. q[1] \in Event /\ Linked(q, q[1])
  BY EventAssumption, HeadIsEarliest
<1>2. nr[q[1]] >= g /\ nr[q[1]] \in Nat
  BY <1>1
<1> QED
  BY <1>2 DEF DowncountFor

(* The end of a callback, in the commit loop or when a frame ends.         *)
LEMMA RequeueKeeps ==
  ASSUME WellScheduled, current_event # None, Requeue,
         UNCHANGED <<active, global_tick_counter, irq>>
  PROVE  /\ queue' \in Seq(Event) /\ next_run_time' \in [Event -> Nat]
         /\ QueueSorted' /\ QueueIsActiveSet' /\ NoEventInThePast'
         /\ downcount' \in Nat
         /\ active[current_event] =>
              next_run_time'[current_event] = current_event_next_run_time
<1>1. /\ TypeOK /\ StashedTimeHolds /\ QueueSorted /\ QueueIsActiveSet
      /\ NoEventInThePast /\ active[Crtc] /\ Crtc \in Event
  BY EventAssumption DEF WellScheduled
<1>2. current_event \in Event /\ current_event_next_run_time \in Nat
  BY <1>1 DEF TypeOK, Time
<1>3. CASE active[current_event]
  <2>1. /\ next_run_time' =
             [next_run_time EXCEPT ![current_event] = current_event_next_run_time]
        /\ SortEvent(queue, current_event, next_run_time', queue')
        /\ \/ downcount' = DowncountFor(queue', next_run_time', global_tick_counter, irq)
           \/ downcount' = downcount
    BY <1>3 DEF Requeue
  <2>2. current_event_next_run_time >= global_tick_counter
    BY <1>1, <1>3 DEF StashedTimeHolds
  <2>3. /\ queue' \in Seq(Event) /\ next_run_time' \in [Event -> Nat]
        /\ QueueSorted' /\ QueueIsActiveSet' /\ NoEventInThePast'
    BY <1>2, <1>3, <2>1, <2>2, ResortedList
  <2>4. /\ Sorted(queue', next_run_time') /\ Linked(queue', Crtc)
        /\ \A f \in Event : Linked(queue', f) => next_run_time'[f] >= global_tick_counter
    BY <1>1, <2>3 DEF QueueSorted, QueueIsActiveSet, NoEventInThePast
  <2>5. downcount' \in Nat
    <3>1. global_tick_counter \in Nat /\ irq \in BOOLEAN /\ downcount \in Nat
      BY <1>1 DEF TypeOK, Time
    <3>2. DowncountFor(queue', next_run_time', global_tick_counter, irq) \in Nat
      BY <2>3, <2>4, <3>1, DowncountInNat
    <3> QED
      BY <2>1, <3>1, <3>2
  <2>6. next_run_time'[current_event] = current_event_next_run_time
    BY <1>1, <1>2, <2>1 DEF TypeOK, Time
  <2> QED
    BY <2>3, <2>5, <2>6
<1>4. CASE ~active[current_event]
  <2>1. UNCHANGED <<queue, next_run_time, downcount>>
    BY <1>4 DEF Requeue
  <2> QED
    BY <2>1, <1>1, <1>4 DEF TypeOK, Time, QueueSorted, QueueIsActiveSet, NoEventInThePast
<1> QED
  BY <1>3, <1>4

LEMMA CallbackReturnsStep ==
  ASSUME WellScheduled, CallbackReturns
  PROVE  SchedulingKept
<1>1. /\ TypeOK /\ StashedTimeHolds /\ ClockBehindEnd /\ active[Crtc]
  BY DEF WellScheduled
<1>2. /\ phase = "callback" /\ phase' = "inner" /\ Requeue
      /\ UNCHANGED <<active, global_tick_counter, event_run_tick_counter, irq>>
      /\ UNCHANGED <<current_event, current_event_next_run_time>>
      /\ UNCHANGED <<last_run_time, period, interval, pending_ticks>>
  BY DEF CallbackReturns, current, clock
<1>3. current_event # None
  BY <1>1, <1>2 DEF TypeOK
<1>4. /\ queue' \in Seq(Event) /\ next_run_time' \in [Event -> Nat]
      /\ QueueSorted' /\ QueueIsActiveSet' /\ NoEventInThePast'
      /\ downcount' \in Nat
      /\ active[current_event] =>
           next_run_time'[current_event] = current_event_next_run_time
  BY <1>2, <1>3, RequeueKeeps
<1>5. TypeOK'
  BY <1>1, <1>2, <1>3, <1>4 DEF TypeOK, Time, Phases
<1>6. StashedTimeHolds'
  BY <1>1, <1>2, <1>4 DEF StashedTimeHolds
<1>7. ClockBehindEnd' /\ CpuStopsAtHead' /\ active'[Crtc]
  BY <1>1, <1>2 DEF ClockBehindEnd, CpuStopsAtHead
<1> QED
  BY <1>4, <1>5, <1>6, <1>7 DEF WellScheduled, SchedulingKept

LEMMA ExitExecutionStep ==
  ASSUME WellScheduled, ExitExecution
  PROVE  SchedulingKept
<1>1. /\ TypeOK /\ QueueSorted /\ QueueIsActiveSet /\ NoEventInThePast
      /\ ClockBehindEnd /\ active[Crtc]
  BY DEF WellScheduled
<1>2. /\ phase' = "out" /\ current_event' = None
      /\ UNCHANGED <<active, global_tick_counter, event_run_tick_counter, irq>>
      /\ UNCHANGED <<current_event_next_run_time, last_run_time, period, interval>>
      /\ UNCHANGED pending_ticks
  BY DEF ExitExecution, clock
<1>3. /\ queue' \in Seq(Event) /\ next_run_time' \in [Event -> Nat]
      /\ QueueSorted' /\ QueueIsActiveSet' /\ NoEventInThePast'
      /\ downcount' \in Nat
  <2>1. CASE current_event # None /\ Requeue
    BY <1>2, <2>1, RequeueKeeps
  <2>2. CASE UNCHANGED <<queue, next_run_time, downcount>>
    BY <1>1, <1>2, <2>2 DEF TypeOK, Time, QueueSorted, QueueIsActiveSet, NoEventInThePast
  <2> QED
    BY <2>1, <2>2 DEF ExitExecution
<1>4. TypeOK'
  BY <1>1, <1>2, <1>3 DEF TypeOK, Time, Phases
<1>5. StashedTimeHolds' /\ ClockBehindEnd' /\ CpuStopsAtHead' /\ active'[Crtc]
  BY <1>1, <1>2 DEF StashedTimeHolds, ClockBehindEnd, CpuStopsAtHead
<1> QED
  BY <1>3, <1>4, <1>5 DEF WellScheduled, SchedulingKept

(* Steps that leave the list, the deadlines and the end of time alone.     *)
LEMMA CpuStep ==
  ASSUME WellScheduled, Cpu
  PROVE  SchedulingKept
<1>1. /\ TypeOK /\ QueueSorted /\ QueueIsActiveSet /\ NoEventInThePast
      /\ StashedTimeHolds /\ ClockBehindEnd /\ active[Crtc]
  BY DEF WellScheduled
<1>2. /\ UNCHANGED <<queue, active, next_run_time, last_run_time, period, interval>>
      /\ UNCHANGED <<current_event, current_event_next_run_time>>
      /\ UNCHANGED <<global_tick_counter, event_run_tick_counter>>
  BY DEF Cpu, ExecuteInstruction, AddPendingTicks, RaiseInterrupt, DropInterrupt,
         EnterRunEvents, events, current, clock
<1>3. /\ phase \in {"cpu", "callback"}
      /\ phase' = phase \/ (phase = "cpu" /\ phase' = "run")
      /\ pending_ticks' \in Nat /\ downcount' \in Nat /\ irq' \in BOOLEAN
      /\ downcount' = 0 \/ (downcount' = downcount /\ (irq' => irq))
  <2> pending_ticks \in Nat /\ downcount \in Nat /\ irq \in BOOLEAN
    BY <1>1 DEF TypeOK
  <2>1. CASE \E ticks \in Steps : ExecuteInstruction(ticks) \/ AddPendingTicks(ticks)
    BY <2>1, TickAssumption DEF ExecuteInstruction, AddPendingTicks
  <2>2. CASE RaiseInterrupt
    BY <2>2 DEF RaiseInterrupt
  <2>3. CASE DropInterrupt
    BY <2>3 DEF DropInterrupt
  <2>4. CASE EnterRunEvents
    BY <2>4 DEF EnterRunEvents, cpu
  <2> QED
    BY <2>1, <2>2, <2>3, <2>4 DEF Cpu
<1>4. TypeOK'
  BY <1>1, <1>2, <1>3 DEF TypeOK, Phases
<1>5. QueueSorted' /\ QueueIsActiveSet' /\ NoEventInThePast' /\ active'[Crtc]
  BY <1>1, <1>2 DEF QueueSorted, QueueIsActiveSet, NoEventInThePast
<1>6. StashedTimeHolds' /\ ClockBehindEnd'
  BY <1>1, <1>2, <1>3 DEF StashedTimeHolds, ClockBehindEnd, TypeOK
<1>7. CpuStopsAtHead => CpuStopsAtHead'
  <2>1. /\ next_run_time[queue[1]] \in Nat /\ global_tick_counter \in Nat
        /\ next_run_time[queue[1]] >= global_tick_counter
    BY HeadFacts, <1>1 DEF Head_, TypeOK, Time
  <2>2. CASE downcount' = 0
    BY <2>1, <2>2, <1>2 DEF CpuStopsAtHead, Head_
  <2>3. CASE downcount' = downcount /\ (irq' => irq)
    BY <2>1, <2>3, <1>1, <1>2, <1>3 DEF CpuStopsAtHead, Head_
  <2> QED
    BY <2>2, <2>3, <1>3
<1> QED
  BY <1>1, <1>4, <1>5, <1>6, <1>7 DEF WellScheduled, SchedulingKept

LEMMA LoopStep ==
  ASSUME WellScheduled, RunEvents \/ AdvanceTime \/ Dispatch \/ EndInner \/ RunTail
                 \/ CommitLeftoverTicks
  PROVE  SchedulingKept
<1>1. /\ TypeOK /\ QueueSorted /\ QueueIsActiveSet /\ NoEventInThePast
      /\ StashedTimeHolds /\ ClockBehindEnd /\ active[Crtc]
  BY DEF WellScheduled
<1>2. /\ Head_ \in Event /\ active[Head_]
      /\ \A e \in Event : active[e] => next_run_time[Head_] <= next_run_time[e]
      /\ next_run_time[Head_] \in Nat
      /\ next_run_time[Head_] >= global_tick_counter
  BY HeadFacts
<1>3. UNCHANGED <<queue, active, next_run_time, period, interval>>
  BY DEF RunEvents, AdvanceTime, Dispatch, EndInner, RunTail, CommitLeftoverTicks, events
<1>4. QueueSorted' /\ QueueIsActiveSet' /\ active'[Crtc]
  BY <1>1, <1>3 DEF QueueSorted, QueueIsActiveSet
<1>5. None \notin Event
  BY EventAssumption
<1>6. CASE RunEvents
  <2>1. /\ UNCHANGED <<last_run_time, current_event, current_event_next_run_time>>
        /\ UNCHANGED <<global_tick_counter, downcount, irq>>
        /\ phase = "run" /\ phase' \in {"outer", "tail"}
        /\ pending_ticks' \in Nat /\ event_run_tick_counter' \in Nat
        /\ event_run_tick_counter' >= event_run_tick_counter
        /\ phase' = "tail" => event_run_tick_counter' = event_run_tick_counter
    BY <1>1, <1>6 DEF RunEvents, events, current, TypeOK, Time
  <2>2. TypeOK'
    BY <1>1, <1>3, <2>1 DEF TypeOK, Phases, Time
  <2>3. NoEventInThePast' /\ StashedTimeHolds' /\ ClockBehindEnd' /\ CpuStopsAtHead'
    BY <1>1, <1>3, <2>1 DEF NoEventInThePast, StashedTimeHolds, ClockBehindEnd,
                            CpuStopsAtHead, TypeOK, Time
  <2> QED
    BY <1>4, <2>2, <2>3 DEF WellScheduled, SchedulingKept
<1>7. CASE AdvanceTime
  <2>1. /\ UNCHANGED <<last_run_time, current_event, current_event_next_run_time>>
        /\ UNCHANGED <<event_run_tick_counter, pending_ticks, downcount, irq>>
        /\ phase = "outer" /\ phase' = "inner"
        /\ global_tick_counter' \in Nat
        /\ global_tick_counter' <= event_run_tick_counter
        /\ global_tick_counter' <= next_run_time[Head_]
    BY <1>1, <1>2, <1>7 DEF AdvanceTime, events, current, cpu, TypeOK, Time
  <2>2. TypeOK'
    BY <1>1, <1>3, <2>1 DEF TypeOK, Phases, Time
  <2>3. NoEventInThePast'
    <3>1. ASSUME NEW e \in Event, active[e] PROVE next_run_time[e] >= global_tick_counter'
      <4>1. next_run_time[e] \in Nat /\ next_run_time[Head_] <= next_run_time[e]
        BY <1>1, <1>2, <3>1 DEF TypeOK, Time
      <4> QED
        BY <4>1, <1>2, <2>1
    <3> QED
      BY <3>1, <1>3 DEF NoEventInThePast
  <2>4. StashedTimeHolds'
    <3> SUFFICES ASSUME current_event # None, active[current_event]
                 PROVE  /\ current_event_next_run_time >= global_tick_counter'
                        /\ next_run_time[current_event] = current_event_next_run_time
      BY <1>3, <2>1 DEF StashedTimeHolds
    <3>1. next_run_time[current_event] = current_event_next_run_time /\ current_event \in Event
      BY <1>1, <2>1 DEF StashedTimeHolds, TypeOK
    <3> QED
      BY <3>1, <2>3, <1>3 DEF NoEventInThePast
  <2>5. ClockBehindEnd' /\ CpuStopsAtHead'
    BY <2>1 DEF ClockBehindEnd, CpuStopsAtHead
  <2> QED
    BY <1>4, <2>2, <2>3, <2>4, <2>5 DEF WellScheduled, SchedulingKept
<1>8. CASE Dispatch
  <2>1. /\ current_event' = Head_
        /\ current_event_next_run_time' = next_run_time[Head_] + interval[Head_]
        /\ last_run_time' = [last_run_time EXCEPT ![Head_] = global_tick_counter]
        /\ UNCHANGED <<global_tick_counter, event_run_tick_counter>>
        /\ UNCHANGED <<pending_ticks, downcount, irq>>
        /\ phase = "inner" /\ phase' = "callback"
    BY <1>8 DEF Dispatch, clock, cpu
  <2>2. /\ interval[Head_] \in Nat /\ current_event_next_run_time' \in Nat
        /\ current_event_next_run_time' >= global_tick_counter
        /\ last_run_time' \in [Event -> Nat]
    BY <1>1, <1>2, <2>1 DEF TypeOK, Time
  <2>3. TypeOK'
    BY <1>1, <1>2, <1>3, <1>5, <2>1, <2>2 DEF TypeOK, Phases, Time
  <2>4. /\ NoEventInThePast' /\ StashedTimeHolds' /\ ClockBehindEnd'
        /\ CpuStopsAtHead'
    BY <1>1, <1>3, <2>1, <2>2 DEF NoEventInThePast, StashedTimeHolds, ClockBehindEnd,
                                  CpuStopsAtHead
  <2> QED
    BY <1>4, <2>3, <2>4 DEF WellScheduled, SchedulingKept
<1>9. CASE EndInner
  <2>1. /\ UNCHANGED <<last_run_time, current_event_next_run_time>>
        /\ UNCHANGED <<global_tick_counter, event_run_tick_counter>>
        /\ UNCHANGED <<pending_ticks, downcount, irq>>
        /\ phase = "inner"
        /\ \/ phase' = "outer" /\ current_event' = current_event
           \/ /\ phase' = "tail" /\ current_event' = None
              /\ event_run_tick_counter <= global_tick_counter
    BY <1>9 DEF EndInner, events, clock, cpu
  <2>2. TypeOK'
    BY <1>1, <1>3, <2>1 DEF TypeOK, Phases, Time
  <2>3. NoEventInThePast' /\ StashedTimeHolds' /\ ClockBehindEnd' /\ CpuStopsAtHead'
    BY <1>1, <1>3, <2>1 DEF NoEventInThePast, StashedTimeHolds, ClockBehindEnd,
                            CpuStopsAtHead, TypeOK, Time
  <2> QED
    BY <1>4, <2>2, <2>3 DEF WellScheduled, SchedulingKept
<1>10. CASE RunTail
  <2>1. /\ UNCHANGED <<last_run_time, current_event, current_event_next_run_time>>
        /\ UNCHANGED <<global_tick_counter, event_run_tick_counter, pending_ticks>>
        /\ phase = "tail" /\ phase' \in {"run", "cpu"} /\ irq' = FALSE
        /\ downcount' = next_run_time[Head_] - global_tick_counter
    BY <1>10 DEF RunTail, events, current, clock, DowncountFor, Head_
  <2>2. downcount' \in Nat
    BY <1>1, <1>2, <2>1 DEF TypeOK, Time
  <2>3. TypeOK'
    BY <1>1, <1>3, <2>1, <2>2 DEF TypeOK, Phases, Time
  <2>4. next_run_time'[queue'[1]] - global_tick_counter' = downcount'
    BY <1>3, <2>1 DEF Head_
  <2>5. CpuStopsAtHead'
    BY <2>1, <2>2, <2>4 DEF CpuStopsAtHead, Head_
  <2>6. NoEventInThePast' /\ StashedTimeHolds' /\ ClockBehindEnd'
    BY <1>1, <1>3, <2>1 DEF NoEventInThePast, StashedTimeHolds, ClockBehindEnd, TypeOK
  <2> QED
    BY <1>4, <2>3, <2>5, <2>6 DEF WellScheduled, SchedulingKept
<1>11. CASE CommitLeftoverTicks
  <2>1. /\ UNCHANGED <<last_run_time, current_event, current_event_next_run_time>>
        /\ UNCHANGED <<global_tick_counter, event_run_tick_counter>>
        /\ UNCHANGED <<pending_ticks, downcount, irq>>
        /\ phase = "out" /\ phase' = "outer"
    BY <1>11 DEF CommitLeftoverTicks, events, current, clock, cpu
  <2>2. TypeOK'
    BY <1>1, <1>3, <2>1 DEF TypeOK, Phases, Time
  <2>3. NoEventInThePast' /\ StashedTimeHolds' /\ ClockBehindEnd' /\ CpuStopsAtHead'
    BY <1>1, <1>3, <2>1 DEF NoEventInThePast, StashedTimeHolds, ClockBehindEnd,
                            CpuStopsAtHead, TypeOK, Time
  <2> QED
    BY <1>4, <2>2, <2>3 DEF WellScheduled, SchedulingKept
<1> QED
  BY <1>6, <1>7, <1>8, <1>9, <1>10, <1>11

LEMMA ResetStep ==
  ASSUME WellScheduled, NEW S \in SUBSET Event, NEW t \in [S -> Intervals], Reset(S, t)
  PROVE  SchedulingKept
<1>1. TypeOK /\ Crtc \in Event /\ Intervals \subseteq Nat
  BY EventAssumption, TickAssumption DEF WellScheduled
<1>2. /\ Crtc \in S
      /\ global_tick_counter' = 0 /\ event_run_tick_counter' = 0
      /\ pending_ticks' = 0 /\ irq' = FALSE
      /\ active' = [e \in Event |-> e \in S]
      /\ next_run_time' = [e \in Event |-> IF e \in S THEN t[e] ELSE next_run_time[e]]
      /\ last_run_time' = [e \in Event |-> IF e \in S THEN 0 ELSE last_run_time[e]]
      /\ downcount' = DowncountFor(queue', next_run_time', 0, FALSE)
      /\ current_event' = None /\ phase' = "out"
      /\ UNCHANGED <<period, interval, current_event_next_run_time>>
  BY DEF Reset
<1>3. queue' \in [1..Cardinality(S) -> S] /\ SortedList(S, next_run_time', queue')
  BY DEF Reset
<1>4. queue' \in Seq(Event)
  <2>1. Cardinality(S) \in Nat
    BY EventAssumption, FS_Subset, FS_CardinalityType
  <2>2. queue' \in [1..Cardinality(S) -> Event]
    BY <1>3
  <2> QED
    BY <2>1, <2>2, FunctionIsSeq
<1>5. next_run_time' \in [Event -> Nat] /\ last_run_time' \in [Event -> Nat]
  BY <1>1, <1>2 DEF TypeOK, Time
<1>6. /\ Distinct(queue') /\ Sorted(queue', next_run_time')
      /\ \A e \in Event : e \in S <=> Linked(queue', e)
  BY <1>3 DEF SortedList
<1>7. QueueSorted' /\ QueueIsActiveSet' /\ active'[Crtc]
  BY <1>1, <1>2, <1>6 DEF QueueSorted, QueueIsActiveSet
<1>8. NoEventInThePast' /\ StashedTimeHolds' /\ ClockBehindEnd' /\ CpuStopsAtHead'
  BY <1>2, <1>5 DEF NoEventInThePast, StashedTimeHolds, ClockBehindEnd, CpuStopsAtHead
<1>9. downcount' \in Nat
  <2>1. /\ Linked(queue', Crtc)
        /\ \A f \in Event : Linked(queue', f) => next_run_time'[f] >= 0
    BY <1>1, <1>2, <1>5, <1>6
  <2> QED
    BY <1>2, <1>4, <1>5, <1>6, <2>1, DowncountInNat
<1>10. TypeOK'
  <2>1. active' \in [Event -> BOOLEAN]
    BY <1>2
  <2>2. /\ period' \in [Event -> Nat \ {0}] /\ interval' \in [Event -> Nat \ {0}]
        /\ current_event_next_run_time' \in Nat
    BY <1>1, <1>2 DEF TypeOK, Time
  <2>3. 0 \in Nat /\ FALSE \in BOOLEAN /\ phase' \in Phases
    BY <1>2 DEF Phases
  <2> QED
    BY <1>2, <1>4, <1>5, <1>9, <2>1, <2>2, <2>3 DEF TypeOK, Time
<1> QED
  BY <1>7, <1>8, <1>10 DEF WellScheduled, SchedulingKept

(* Every step keeps the invariant.                                         *)
LEMMA StepKeeps == WellScheduled /\ [Next]_vars => SchedulingKept
<1> SUFFICES ASSUME WellScheduled, [Next]_vars PROVE SchedulingKept
  OBVIOUS
<1>1. TypeOK
  BY DEF WellScheduled
<1>2. CASE Operation
  <2> SUFFICES ASSUME NEW e \in Event,
                      \/ \E ticks \in Delays : Schedule(e, ticks) \/ Delay(e, ticks)
                      \/ \E ticks \in Intervals : \/ SetIntervalAndSchedule(e, ticks)
                                                  \/ SetPeriodAndSchedule(e, ticks)
                      \/ \E force \in BOOLEAN : InvokeEarly(e, force)
                      \/ Activate(e)
                      \/ Deactivate(e)
               PROVE  SchedulingKept
    BY <1>2 DEF Operation
  <2>1. ASSUME NEW ticks \in Delays, Schedule(e, ticks) PROVE SchedulingKept
    <3>1. ticks \in Nat /\ Calling /\ ScheduleBody(e, ticks)
      BY <2>1, TickAssumption DEF Schedule
    <3>2. period' \in [Event -> Nat \ {0}] /\ interval' \in [Event -> Nat \ {0}]
      BY <2>1, <1>1 DEF Schedule, TypeOK
    <3> QED
      BY <3>1, <3>2, ScheduleStep
  <2>2. ASSUME NEW ticks \in Delays, Delay(e, ticks) PROVE SchedulingKept
    BY <2>2, DelayStep, TickAssumption
  <2>3. ASSUME NEW ticks \in Intervals, SetIntervalAndSchedule(e, ticks) PROVE SchedulingKept
    <3>1. ticks \in Nat \ {0} /\ Calling /\ ScheduleBody(e, ticks)
      BY <2>3, TickAssumption DEF SetIntervalAndSchedule
    <3>2. period' \in [Event -> Nat \ {0}] /\ interval' \in [Event -> Nat \ {0}]
      BY <2>3, <3>1, <1>1 DEF SetIntervalAndSchedule, TypeOK
    <3> QED
      BY <3>1, <3>2, ScheduleStep
  <2>4. ASSUME NEW ticks \in Intervals, SetPeriodAndSchedule(e, ticks) PROVE SchedulingKept
    <3>1. ticks \in Nat \ {0} /\ Calling /\ ScheduleBody(e, ticks)
      BY <2>4, TickAssumption DEF SetPeriodAndSchedule
    <3>2. period' \in [Event -> Nat \ {0}] /\ interval' \in [Event -> Nat \ {0}]
      BY <2>4, <3>1, <1>1 DEF SetPeriodAndSchedule, TypeOK
    <3> QED
      BY <3>1, <3>2, ScheduleStep
  <2>5. ASSUME NEW force \in BOOLEAN, InvokeEarly(e, force) PROVE SchedulingKept
    BY <2>5, InvokeEarlyStep
  <2>6. CASE Activate(e)
    BY <2>6, ActivateStep
  <2>7. CASE Deactivate(e)
    BY <2>7, DeactivateStep
  <2> QED
    BY <2>1, <2>2, <2>3, <2>4, <2>5, <2>6, <2>7
<1>3. CASE Cpu
  BY <1>3, CpuStep
<1>4. CASE Loop
  BY <1>4, LoopStep, CallbackReturnsStep DEF Loop
<1>5. CASE Host
  BY <1>5, LoopStep, ExitExecutionStep, ResetStep DEF Host
<1>6. CASE UNCHANGED vars
  BY <1>6 DEF vars, events, current, clock, cpu, WellScheduled, SchedulingKept, TypeOK, QueueSorted,
     QueueIsActiveSet, NoEventInThePast, StashedTimeHolds, ClockBehindEnd,
     CpuStopsAtHead, Head_
<1> QED
  BY <1>2, <1>3, <1>4, <1>5, <1>6 DEF Next

LEMMA NextStep == IndInv /\ [Next]_vars => IndInv'
  BY StepKeeps DEF IndInv, SchedulingKept

-----------------------------------------------------------------------------
(* The results.                                                            *)

(* The inductive invariant holds in every reachable state, for any set of  *)
(* events, any tick arguments and without the bounds on time.              *)
THEOREM Invariance == Spec => []IndInv
<1> QED
  BY InitIndInv, NextStep, PTL DEF Spec

(* Every variable keeps its type; timestamps never wrap below zero.        *)
THEOREM TypeCorrect == Spec => []TypeOK
<1>1. IndInv => TypeOK
  BY DEF IndInv, WellScheduled
<1> QED
  BY <1>1, Invariance, PTL

(* timing_events_sort_event and timing_events_add_active keep the list     *)
(* sorted, whatever operations a callback nests.                           *)
THEOREM AlwaysSorted == Spec => []QueueSorted
<1>1. IndInv => QueueSorted
  BY DEF IndInv, WellScheduled
<1> QED
  BY <1>1, Invariance, PTL

(* The list holds every active event, once, and nothing else.              *)
THEOREM LinkedExactlyOnce == Spec => []QueueIsActiveSet
<1>1. IndInv => QueueIsActiveSet
  BY DEF IndInv, WellScheduled
<1> QED
  BY <1>1, Invariance, PTL

(* The DebugAssert of timing_events_update_cpu_downcount never fails.      *)
THEOREM NothingOverdue == Spec => []NoEventInThePast
<1>1. IndInv => NoEventInThePast
  BY DEF IndInv, WellScheduled
<1> QED
  BY <1>1, Invariance, PTL

(* The downcount ends the instruction loop at the head event at the        *)
(* latest, and at once when an interrupt is pending.                       *)
THEOREM DowncountIsSafe == Spec => []CpuStopsAtHead
<1>1. IndInv => CpuStopsAtHead
  BY DEF IndInv, WellScheduled
<1> QED
  BY <1>1, Invariance, PTL

(* The CPU never runs ahead of a commit that a frame end cut short.        *)
THEOREM CommitsFinish == Spec => []CaughtUp
<1>1. IndInv => CaughtUp
  BY DEF IndInv, WellScheduled, ClockBehindEnd, CaughtUp
<1> QED
  BY <1>1, Invariance, PTL

(* Every callback is called on time and in the order of the run times.     *)
THEOREM CalledOnTime == Spec => DispatchOnTime
<1>1. IndInv /\ [Next]_vars =>
        [phase = "inner" /\ phase' = "callback" =>
           /\ next_run_time[current_event'] = global_tick_counter
           /\ \A e \in Event : active[e] => next_run_time[e] >= global_tick_counter]_vars
  <2> SUFFICES ASSUME IndInv, Next, phase = "inner", phase' = "callback"
               PROVE  /\ next_run_time[current_event'] = global_tick_counter
                      /\ \A e \in Event : active[e] => next_run_time[e] >= global_tick_counter
    OBVIOUS
  <2>1. Dispatch
    BY DEF Next, Operation, Cpu, Loop, Host, Schedule, SetIntervalAndSchedule,
       SetPeriodAndSchedule, Delay, InvokeEarly, Activate, Deactivate, Calling,
       ExecuteInstruction, AddPendingTicks, RaiseInterrupt, DropInterrupt, EnterRunEvents,
       RunEvents, AdvanceTime, CallbackReturns, EndInner, RunTail, ExitExecution,
       CommitLeftoverTicks, Reset
  <2>2. /\ current_event' = Head_ /\ global_tick_counter >= next_run_time[Head_]
        /\ next_run_time[Head_] >= global_tick_counter /\ next_run_time[Head_] \in Nat
        /\ global_tick_counter \in Nat
    BY <2>1, HeadFacts DEF Dispatch, IndInv, WellScheduled, TypeOK, Time
  <2> QED
    BY <2>2 DEF IndInv, WellScheduled, NoEventInThePast
<1> QED
  BY <1>1, Invariance, PTL DEF Spec, DispatchOnTime

-----------------------------------------------------------------------------
(* The refinement: the list, the stashed time and the commit loop against  *)
(* the clock with deadlines.                                               *)

(* A step that keeps the clock, the running event and every deadline.      *)
LEMMA ClockStutters ==
  ASSUME UNCHANGED <<global_tick_counter, current_event>>,
         \A e \in Event : Deadline(e)' = Deadline(e)
  PROVE  UNCHANGED <<global_tick_counter, [e \in Event |-> Deadline(e)], current_event>>
OBVIOUS

(* Deadlines follow from the flags and the two times.                      *)
LEMMA DeadlineKept ==
  ASSUME UNCHANGED <<current_event, current_event_next_run_time>>,
         NEW e \in Event, active'[e] = active[e], next_run_time'[e] = next_run_time[e]
  PROVE  Deadline(e)' = Deadline(e)
BY DEF Deadline

(* A step that moves the deadline of e alone, and not into the past.       *)
LEMMA DeviceArranges ==
  ASSUME UNCHANGED <<global_tick_counter, current_event>>, NEW e \in Event,
         \A f \in Event : f # e => Deadline(f)' = Deadline(f),
         \/ Deadline(e)' = NoDeadline
         \/ Deadline(e)' \in Nat /\ Deadline(e)' >= global_tick_counter
  PROVE  Clock!Arrange(e)
<1> DEFINE d == [f \in Event |-> Deadline(f)]
<1>1. d' = [f \in Event |-> Deadline(f)']
  OBVIOUS
<1>2. d'[e] = Deadline(e)'
  BY <1>1
<1>3. d' = [d EXCEPT ![e] = d'[e]]
  BY <1>1
<1> QED
  BY <1>2, <1>3 DEF Clock!Arrange

(* timing_event_schedule and the two variants that set an interval.        *)
LEMMA ScheduleArranges ==
  ASSUME WellScheduled, NEW e \in Event, NEW ticks \in Nat, ScheduleBody(e, ticks)
  PROVE  Clock!Arrange(e)
<1> DEFINE next == Timestamp + ticks
<1>1. /\ active \in [Event -> BOOLEAN] /\ next_run_time \in [Event -> Nat]
      /\ None \notin Event
      /\ UNCHANGED <<global_tick_counter, current_event>>
  BY EventAssumption DEF WellScheduled, TypeOK, Time, ScheduleBody, clock
<1>2. next \in Nat /\ next >= global_tick_counter
  BY DEF WellScheduled, TypeOK, Time, Timestamp
<1> HIDE DEF next
<1>3. current_event_next_run_time' =
        IF current_event = e THEN next ELSE current_event_next_run_time
  BY DEF ScheduleBody, next
<1>4. /\ active'[e]
      /\ current_event # e => next_run_time'[e] = next
  BY <1>1 DEF ScheduleBody, next
<1>5. Deadline(e)' = next
  BY <1>1, <1>3, <1>4 DEF Deadline
<1>6. ASSUME NEW f \in Event, f # e PROVE Deadline(f)' = Deadline(f)
  <2>1. active'[f] = active[f] /\ next_run_time'[f] = next_run_time[f]
    BY <1>6, <1>1 DEF ScheduleBody
  <2> QED
    BY <2>1, <1>6, <1>1, <1>3 DEF Deadline
<1> QED
  BY <1>1, <1>2, <1>5, <1>6, DeviceArranges

(* The operations of devices arrange one deadline each.                    *)
LEMMA OperationArranges ==
  ASSUME WellScheduled, Operation
  PROVE  \E e \in Event : Clock!Arrange(e)
<1>1. /\ active \in [Event -> BOOLEAN] /\ next_run_time \in [Event -> Nat]
      /\ interval \in [Event -> Nat \ {0}]
      /\ global_tick_counter \in Nat /\ pending_ticks \in Nat
  BY DEF WellScheduled, TypeOK, Time
<1>2. PICK e \in Event :
        \/ \E ticks \in Delays : Schedule(e, ticks) \/ Delay(e, ticks)
        \/ \E ticks \in Intervals : \/ SetIntervalAndSchedule(e, ticks)
                                    \/ SetPeriodAndSchedule(e, ticks)
        \/ \E force \in BOOLEAN : InvokeEarly(e, force)
        \/ Activate(e)
        \/ Deactivate(e)
  BY DEF Operation
<1>3. Timestamp \in Nat /\ Timestamp >= global_tick_counter
  BY <1>1 DEF Timestamp
<1>4. ASSUME NEW ticks \in Delays, Schedule(e, ticks) PROVE Clock!Arrange(e)
  BY <1>4, ScheduleArranges, TickAssumption DEF Schedule
<1>5. ASSUME NEW ticks \in Intervals,
             SetIntervalAndSchedule(e, ticks) \/ SetPeriodAndSchedule(e, ticks)
      PROVE  Clock!Arrange(e)
  BY <1>5, ScheduleArranges, TickAssumption DEF SetIntervalAndSchedule, SetPeriodAndSchedule
<1>6. ASSUME NEW ticks \in Delays, Delay(e, ticks) PROVE Clock!Arrange(e)
  <2>1. /\ UNCHANGED <<active, global_tick_counter, current_event,
                       current_event_next_run_time>>
        /\ active[e] /\ current_event # e
        /\ next_run_time' = [next_run_time EXCEPT ![e] = next_run_time[e] + ticks]
    BY <1>6 DEF Delay, current, clock
  <2>2. ticks \in Nat /\ next_run_time[e] \in Nat /\ next_run_time[e] >= global_tick_counter
    BY <1>1, <2>1, TickAssumption DEF WellScheduled, NoEventInThePast
  <2>3. Deadline(e)' = next_run_time[e] + ticks
    BY <2>1, <1>1 DEF Deadline
  <2>4. Deadline(e)' \in Nat /\ Deadline(e)' >= global_tick_counter
    BY <2>2, <2>3, <1>1
  <2>5. \A f \in Event : f # e => Deadline(f)' = Deadline(f)
    BY <2>1, <1>1, DeadlineKept
  <2> QED
    BY <2>1, <2>4, <2>5, DeviceArranges
<1>7. ASSUME NEW force \in BOOLEAN, InvokeEarly(e, force) PROVE Clock!Arrange(e)
  <2>1. /\ UNCHANGED <<active, global_tick_counter, current_event,
                       current_event_next_run_time>>
        /\ active[e] /\ current_event # e
        /\ next_run_time' = [next_run_time EXCEPT ![e] = Timestamp + interval[e]]
    BY <1>7 DEF InvokeEarly, current, clock
  <2>2. Deadline(e)' = Timestamp + interval[e]
    BY <2>1, <1>1 DEF Deadline
  <2>3. Deadline(e)' \in Nat /\ Deadline(e)' >= global_tick_counter
    BY <2>2, <1>1, <1>3
  <2>4. \A f \in Event : f # e => Deadline(f)' = Deadline(f)
    BY <2>1, <1>1, DeadlineKept
  <2> QED
    BY <2>1, <2>3, <2>4, DeviceArranges
<1>8. CASE Activate(e)
  <2>1. /\ UNCHANGED <<global_tick_counter, current_event>>
        /\ active' = [active EXCEPT ![e] = TRUE]
        /\ next_run_time' = [next_run_time EXCEPT ![e] = Timestamp + interval[e]]
        /\ current_event_next_run_time' =
             IF current_event = e THEN Timestamp + interval[e] ELSE current_event_next_run_time
    BY <1>8 DEF Activate, clock
  <2>2. Deadline(e)' = Timestamp + interval[e]
    BY <2>1, <1>1 DEF Deadline
  <2>3. Deadline(e)' \in Nat /\ Deadline(e)' >= global_tick_counter
    BY <2>2, <1>1, <1>3
  <2>4. ASSUME NEW f \in Event, f # e PROVE Deadline(f)' = Deadline(f)
    <3>1. active'[f] = active[f] /\ next_run_time'[f] = next_run_time[f]
      BY <2>1, <2>4, <1>1
    <3> QED
      BY <3>1, <2>1, <2>4 DEF Deadline
  <2> QED
    BY <2>1, <2>3, <2>4, DeviceArranges
<1>9. CASE Deactivate(e)
  <2>1. /\ UNCHANGED <<next_run_time, global_tick_counter, current_event,
                       current_event_next_run_time>>
        /\ active' = [active EXCEPT ![e] = FALSE]
    BY <1>9 DEF Deactivate, current, clock
  <2>2. Deadline(e)' = NoDeadline
    BY <2>1, <1>1 DEF Deadline
  <2>3. \A f \in Event : f # e => Deadline(f)' = Deadline(f)
    BY <2>1, <1>1, DeadlineKept
  <2> QED
    BY <2>1, <2>2, <2>3, DeviceArranges
<1> QED
  BY <1>2, <1>4, <1>5, <1>6, <1>7, <1>8, <1>9

(* The stashed time of a running event whose callback has returned is the  *)
(* one it is linked with, so every deadline is the run time.               *)
LEMMA DeadlineOutsideCallback ==
  ASSUME WellScheduled, phase # "callback", NEW e \in Event
  PROVE  Deadline(e) = IF active[e] THEN next_run_time[e] ELSE NoDeadline
<1>1. active \in [Event -> BOOLEAN]
  BY DEF WellScheduled, TypeOK
<1>2. current_event = e /\ active[e] => next_run_time[e] = current_event_next_run_time
  BY EventAssumption DEF WellScheduled, StashedTimeHolds
<1> QED
  BY <1>1, <1>2 DEF Deadline

(* timing_events_commit_global_ticks moves the clock up to the head event  *)
(* at most, and no deadline is before the head's.                          *)
LEMMA AdvanceElapses ==
  ASSUME WellScheduled, AdvanceTime
  PROVE  \/ Clock!Elapse
         \/ UNCHANGED <<global_tick_counter, [e \in Event |-> Deadline(e)], current_event>>
<1>1. /\ active \in [Event -> BOOLEAN] /\ next_run_time \in [Event -> Nat]
      /\ global_tick_counter \in Nat /\ event_run_tick_counter \in Nat
      /\ global_tick_counter <= event_run_tick_counter
  BY DEF WellScheduled, TypeOK, Time, ClockBehindEnd
<1>2. /\ phase # "callback"
      /\ UNCHANGED <<active, next_run_time, current_event, current_event_next_run_time>>
      /\ global_tick_counter' = IF event_run_tick_counter < next_run_time[Head_]
                                THEN event_run_tick_counter
                                ELSE next_run_time[Head_]
  BY DEF AdvanceTime, events, current
<1>3. /\ next_run_time[Head_] \in Nat /\ next_run_time[Head_] >= global_tick_counter
      /\ \A e \in Event : active[e] => next_run_time[Head_] <= next_run_time[e]
  BY HeadFacts
<1>4. /\ global_tick_counter' \in Nat /\ global_tick_counter' >= global_tick_counter
      /\ global_tick_counter' <= next_run_time[Head_]
  BY <1>1, <1>2, <1>3
<1>5. \A e \in Event : Deadline(e)' = Deadline(e)
  BY <1>2, DeadlineKept
<1>6. ASSUME NEW e \in Event, Deadline(e) # NoDeadline
      PROVE  Deadline(e) >= global_tick_counter'
  <2>1. active[e] /\ Deadline(e) = next_run_time[e]
    BY <1>2, <1>6, DeadlineOutsideCallback
  <2>2. next_run_time[e] \in Nat /\ next_run_time[Head_] <= next_run_time[e]
    BY <2>1, <1>1, <1>3
  <2> QED
    BY <2>1, <2>2, <1>3, <1>4
<1>7. Clock!NotBefore(global_tick_counter')
  BY <1>6 DEF Clock!NotBefore
<1>8. CASE global_tick_counter' = global_tick_counter
  BY <1>2, <1>5, <1>8, ClockStutters
<1>9. CASE global_tick_counter' > global_tick_counter
  BY <1>2, <1>4, <1>5, <1>7, <1>9 DEF Clock!Elapse
<1> QED
  BY <1>1, <1>4, <1>8, <1>9

(* The callback of the head event is called when the clock stands on its   *)
(* deadline; the next one is an interval later.                            *)
LEMMA DispatchCalls ==
  ASSUME WellScheduled, Dispatch
  PROVE  \E e \in Event : Clock!Call(e)
<1> DEFINE d == [e \in Event |-> Deadline(e)]
<1>1. /\ active \in [Event -> BOOLEAN] /\ next_run_time \in [Event -> Nat]
      /\ interval \in [Event -> Nat \ {0}] /\ global_tick_counter \in Nat
      /\ None \notin Event
  BY EventAssumption DEF WellScheduled, TypeOK, Time
<1>0. PICK h \in Event : h = Head_
  BY HeadFacts
<1>2. /\ active[h] /\ next_run_time[h] \in Nat
      /\ next_run_time[h] >= global_tick_counter
  BY <1>0, HeadFacts
<1>3. /\ phase # "callback"
      /\ global_tick_counter >= next_run_time[h]
      /\ current_event' = h
      /\ current_event_next_run_time' = next_run_time[h] + interval[h]
      /\ UNCHANGED <<active, next_run_time, global_tick_counter>>
  BY <1>0 DEF Dispatch, clock
<1>4. Deadline(h) = global_tick_counter
  <2>1. next_run_time[h] = global_tick_counter
    BY <1>1, <1>2, <1>3
  <2> QED
    BY <2>1, <1>2, <1>3, DeadlineOutsideCallback
<1>5. \A e \in Event :
        Deadline(e)' = IF e = h THEN next_run_time[h] + interval[h] ELSE Deadline(e)
  <2> SUFFICES ASSUME NEW e \in Event
               PROVE  Deadline(e)' = IF e = h THEN next_run_time[h] + interval[h]
                                                 ELSE Deadline(e)
    OBVIOUS
  <2>1. Deadline(e) = IF active[e] THEN next_run_time[e] ELSE NoDeadline
    BY <1>3, DeadlineOutsideCallback
  <2>2. Deadline(e)' = CASE ~active[e] -> NoDeadline
                         [] active[e] /\ e = h -> next_run_time[h] + interval[h]
                         [] OTHER -> next_run_time[e]
    BY <1>3 DEF Deadline, NoDeadline
  <2> HIDE DEF NoDeadline
  <2>3. CASE e = h
    BY <2>2, <2>3, <1>2
  <2>4. CASE e # h /\ active[e]
    BY <2>1, <2>2, <2>4
  <2>5. CASE e # h /\ ~active[e]
    BY <2>1, <2>2, <2>5
  <2> QED
    BY <2>3, <2>4, <2>5, <1>1
<1>6. interval[h] \in Nat \ {0}
  BY <1>1, <1>2
<1>7. Deadline(h)' \in Nat /\ Deadline(h)' > global_tick_counter
  BY <1>1, <1>2, <1>3, <1>5, <1>6
<1>8. d' = [e \in Event |-> Deadline(e)']
  OBVIOUS
<1>9. /\ d[h] = Deadline(h) /\ d'[h] = Deadline(h)'
      /\ d' = [d EXCEPT ![h] = d'[h]]
  BY <1>2, <1>5, <1>8
<1>10. Clock!Call(h)
  BY <1>2, <1>3, <1>4, <1>7, <1>9 DEF Clock!Call
<1> QED
  BY <1>2, <1>10

(* timing_events_run_events after a callback, and timing_events_cancel_    *)
(* running_event: the stashed time becomes the run time.                   *)
LEMMA RequeueStutters ==
  ASSUME WellScheduled, Requeue, current_event # None,
         UNCHANGED <<active, current_event_next_run_time>>,
         current_event' = current_event \/ current_event' = None,
         NEW e \in Event
  PROVE  Deadline(e)' = Deadline(e)
<1>1. /\ active \in [Event -> BOOLEAN] /\ next_run_time \in [Event -> Nat]
      /\ current_event \in Event /\ None \notin Event
  BY EventAssumption DEF WellScheduled, TypeOK, Time
<1>2. /\ active[current_event] =>
           next_run_time' = [next_run_time EXCEPT ![current_event] = current_event_next_run_time]
      /\ ~active[current_event] => next_run_time' = next_run_time
  BY DEF Requeue
<1>3. CASE e = current_event /\ active[e]
  BY <1>1, <1>2, <1>3 DEF Deadline
<1>4. CASE e = current_event /\ ~active[e]
  BY <1>1, <1>2, <1>4 DEF Deadline
<1>5. CASE e # current_event
  <2>1. next_run_time'[e] = next_run_time[e]
    BY <1>1, <1>2, <1>5
  <2> QED
    BY <2>1, <1>1, <1>5 DEF Deadline
<1> QED
  BY <1>3, <1>4, <1>5

(* The end of a commit and the end of a frame: the deadlines stand, no     *)
(* event runs any more.                                                    *)
LEMMA EndInnerFinishes ==
  ASSUME WellScheduled, EndInner
  PROVE  \/ Clock!Finish
         \/ UNCHANGED <<global_tick_counter, [e \in Event |-> Deadline(e)], current_event>>
<1> DEFINE d == [e \in Event |-> Deadline(e)]
<1>1. /\ None \notin Event
      /\ phase # "callback"
      /\ UNCHANGED <<active, next_run_time, current_event_next_run_time, global_tick_counter>>
      /\ current_event' = None \/ current_event' = current_event
  BY EventAssumption DEF EndInner, events, clock
<1>2. CASE current_event' = current_event
  BY <1>1, <1>2, DeadlineKept, ClockStutters
<1>3. CASE current_event' = None
  <2>1. \A e \in Event : Deadline(e)' = IF active[e] THEN next_run_time[e] ELSE NoDeadline
    BY <1>1, <1>3 DEF Deadline, NoDeadline
  <2>2. \A e \in Event : Deadline(e)' = Deadline(e)
    BY <2>1, <1>1, DeadlineOutsideCallback
  <2>3. d' = d
    BY <2>2
  <2> QED
    BY <2>3, <1>1, <1>3 DEF Clock!Finish
<1> QED
  BY <1>1, <1>2, <1>3

LEMMA ExitFinishes ==
  ASSUME WellScheduled, ExitExecution
  PROVE  Clock!Finish
<1> DEFINE d == [e \in Event |-> Deadline(e)]
<1>1. /\ UNCHANGED <<active, current_event_next_run_time, global_tick_counter>>
      /\ current_event' = None
  BY DEF ExitExecution, clock
<1>2. \A e \in Event : Deadline(e)' = Deadline(e)
  <2>1. CASE current_event # None
    BY <2>1, <1>1, RequeueStutters DEF ExitExecution
  <2>2. CASE current_event = None
    BY <2>2, <1>1, DeadlineKept DEF ExitExecution
  <2> QED
    BY <2>1, <2>2
<1>3. d' = d
  BY <1>2
<1> QED
  BY <1>1, <1>3 DEF Clock!Finish

LEMMA ResetRestarts ==
  ASSUME WellScheduled, NEW S \in SUBSET Event, NEW t \in [S -> Intervals], Reset(S, t)
  PROVE  Clock!Restart
<1>1. /\ global_tick_counter' = 0 /\ current_event' = None
      /\ active' = [e \in Event |-> e \in S]
      /\ next_run_time' = [e \in Event |-> IF e \in S THEN t[e] ELSE next_run_time[e]]
      /\ None \notin Event
  BY EventAssumption DEF Reset
<1>2. \A e \in Event : Deadline(e)' = IF e \in S THEN t[e] ELSE NoDeadline
  BY <1>1 DEF Deadline, NoDeadline
<1>3. \A e \in S : t[e] \in Nat
  BY TickAssumption
<1>4. [e \in Event |-> Deadline(e)]' \in [Event -> Nat \cup {NoDeadline}]
  BY <1>2, <1>3
<1> QED
  BY <1>1, <1>4 DEF Clock!Restart

(* Every step of the scheduler is a step of the clock or leaves it as it   *)
(* is.                                                                     *)
LEMMA ClockStep ==
  WellScheduled /\ [Next]_vars =>
    [Clock!Next]_<<global_tick_counter, [e \in Event |-> Deadline(e)], current_event>>
<1> DEFINE same == UNCHANGED <<global_tick_counter, [e \in Event |-> Deadline(e)], current_event>>
<1> SUFFICES ASSUME WellScheduled, [Next]_vars PROVE Clock!Next \/ same
  OBVIOUS
<1>1. CASE Operation
  BY <1>1, OperationArranges DEF Clock!Next
<1>2. ASSUME UNCHANGED <<events, current, global_tick_counter>> PROVE same
  BY <1>2, DeadlineKept, ClockStutters DEF events, current
<1>3. CASE Cpu
  BY <1>2, <1>3 DEF Cpu, ExecuteInstruction, AddPendingTicks, RaiseInterrupt,
     DropInterrupt, EnterRunEvents, clock
<1>4. CASE Loop
  <2>1. CASE RunEvents \/ RunTail
    BY <1>2, <2>1 DEF RunEvents, RunTail, clock
  <2>2. CASE AdvanceTime
    BY <2>2, AdvanceElapses DEF Clock!Next
  <2>3. CASE Dispatch
    BY <2>3, DispatchCalls DEF Clock!Next
  <2>4. CASE CallbackReturns
    <3>1. /\ Requeue
          /\ UNCHANGED <<active, current_event, current_event_next_run_time, global_tick_counter>>
      BY <2>4 DEF CallbackReturns, current, clock
    <3>2. current_event # None
      BY <2>4 DEF CallbackReturns, WellScheduled, TypeOK
    <3> QED
      BY <3>1, <3>2, RequeueStutters, ClockStutters
  <2>5. CASE EndInner
    BY <2>5, EndInnerFinishes DEF Clock!Next
  <2> QED
    BY <1>4, <2>1, <2>2, <2>3, <2>4, <2>5 DEF Loop
<1>5. CASE Host
  <2>1. CASE ExitExecution
    BY <2>1, ExitFinishes DEF Clock!Next
  <2>2. CASE CommitLeftoverTicks
    BY <1>2, <2>2 DEF CommitLeftoverTicks, clock
  <2>3. ASSUME NEW S \in SUBSET Event, NEW t \in [S -> Intervals], Reset(S, t)
        PROVE  Clock!Next
    BY <2>3, ResetRestarts DEF Clock!Next
  <2> QED
    BY <1>5, <2>1, <2>2, <2>3 DEF Host
<1>6. CASE UNCHANGED vars
  BY <1>2, <1>6 DEF vars, clock
<1> QED
  BY <1>1, <1>3, <1>4, <1>5, <1>6 DEF Next

LEMMA ClockInit == Init => Clock!Init
<1> SUFFICES ASSUME Init PROVE Clock!Init
  OBVIOUS
<1>1. /\ global_tick_counter = 0 /\ current_event = None
      /\ active = [e \in Event |-> e = Crtc] /\ next_run_time = [e \in Event |-> Period0]
      /\ None \notin Event /\ Period0 \in Nat
  BY EventAssumption, TickAssumption DEF Init
<1>2. \A e \in Event : Deadline(e) \in Nat \cup {NoDeadline}
  BY <1>1 DEF Deadline, NoDeadline
<1> QED
  BY <1>1, <1>2 DEF Clock!Init

(* The scheduler is a clock with deadlines: the list, the stashed time of  *)
(* the running event, the commit in slices and the frame end inside a      *)
(* callback are invisible to a device, which has only the promise that the *)
(* clock never passes its deadline and that it is called on it.            *)
THEOREM SchedulerIsClock == Spec => ImplementsClock
<1>1. Init => Clock!Init
  BY ClockInit
<1>2. IndInv /\ [Next]_vars =>
        [Clock!Next]_<<global_tick_counter, [e \in Event |-> Deadline(e)], current_event>>
  BY ClockStep DEF IndInv
<1> QED
  BY <1>1, <1>2, Invariance, PTL DEF Spec, ImplementsClock, Clock!Spec

-----------------------------------------------------------------------------
(* Save states.                                                            *)

(* What holds of the machine even when it is torn, and of every save state *)
(* on disk: the values that the next load to the end leaves where they are *)
(* are numbers.                                                            *)
Ranges ==
  /\ next_run_time \in [Event -> Nat] /\ last_run_time \in [Event -> Nat]
  /\ period \in [Event -> Nat \ {0}] /\ interval \in [Event -> Nat \ {0}]
  /\ current_event_next_run_time \in Nat
  /\ \A s \in states :
       /\ s.next \in [Event -> Nat] /\ s.last \in [Event -> Nat]
       /\ s.period \in [Event -> Nat \ {0}] /\ s.interval \in [Event -> Nat \ {0}]
       /\ s.pending \in Nat /\ s.torn \in BOOLEAN
  /\ pending_ticks \in Nat

(* A save state that no torn machine has written is the scheduler of a     *)
(* machine, with the stashed time of the event that was running in force.  *)
StatesWellScheduled ==
  \A s \in states : ~s.torn =>
    /\ s.active \in [Event -> BOOLEAN] /\ s.active[Crtc]
    /\ s.global \in Nat /\ s.run \in Nat /\ s.irq \in BOOLEAN
    /\ s.global <= s.run
    /\ \A e \in Event : s.active[e] => s.next[e] >= s.global

(* The invariant with save states.  The downcount is not in it: a load     *)
(* that fails before the events leaves the CPU with the one of the saved   *)
(* machine.                                                                *)
SavedInv ==
  /\ torn \in BOOLEAN
  /\ Ranges
  /\ ~torn => WellScheduled
  /\ StatesWellScheduled

(* No owner activates its event for a state and leaves it alone otherwise. *)
OwnersRestore == \A e \in Event : "activate" \notin Owner[e]

(* What is well scheduled is in range.                                     *)
LEMMA WellInRange ==
  ASSUME WellScheduled
  PROVE  /\ next_run_time \in [Event -> Nat] /\ last_run_time \in [Event -> Nat]
         /\ period \in [Event -> Nat \ {0}] /\ interval \in [Event -> Nat \ {0}]
         /\ current_event_next_run_time \in Nat /\ pending_ticks \in Nat
BY DEF WellScheduled, TypeOK, Time

(* Writing a state changes nothing else.                                   *)
LEMMA SaveStateStep ==
  ASSUME SavedInv, SaveState
  PROVE  SavedInv'
<1>1. Ranges /\ torn \in BOOLEAN /\ (~torn => WellScheduled) /\ StatesWellScheduled
  BY DEF SavedInv
<1>2. UNCHANGED vars /\ torn' = torn
  BY DEF SaveState
<1>3. ~torn' => WellScheduled'
  BY <1>1, <1>2 DEF vars, events, current, clock, cpu, WellScheduled, TypeOK, QueueSorted,
     QueueIsActiveSet, NoEventInThePast, StashedTimeHolds, ClockBehindEnd
<1> DEFINE saved == [active |-> active,
                     next |-> [e \in Event |-> SavedTime(e)],
                     last |-> last_run_time,
                     period |-> period,
                     interval |-> interval,
                     global |-> global_tick_counter,
                     run |-> event_run_tick_counter,
                     pending |-> pending_ticks,
                     irq |-> irq,
                     torn |-> torn]
<1>4. states' = states \cup {saved}
  BY DEF SaveState
<1>5. \A e \in Event : SavedTime(e) \in Nat
  BY <1>1 DEF SavedTime, Ranges
<1>6. ~torn => \A e \in Event : active[e] => SavedTime(e) >= global_tick_counter
  BY <1>1, EventAssumption DEF SavedTime, WellScheduled, NoEventInThePast, StashedTimeHolds
<1>7. saved.next \in [Event -> Nat] /\ \A e \in Event : saved.next[e] = SavedTime(e)
  BY <1>5
<1>8. /\ saved.active = active /\ saved.last = last_run_time /\ saved.period = period
      /\ saved.interval = interval /\ saved.global = global_tick_counter
      /\ saved.run = event_run_tick_counter /\ saved.pending = pending_ticks
      /\ saved.irq = irq /\ saved.torn = torn
  OBVIOUS
<1> HIDE DEF saved
<1>9. Ranges'
  BY <1>1, <1>2, <1>4, <1>7, <1>8 DEF Ranges, vars, events, current, cpu
<1>10. StatesWellScheduled'
  <2> SUFFICES ASSUME NEW s \in states', ~s.torn
               PROVE  /\ s.active \in [Event -> BOOLEAN] /\ s.active[Crtc]
                      /\ s.global \in Nat /\ s.run \in Nat
                      /\ s.irq \in BOOLEAN /\ s.global <= s.run
                      /\ \A e \in Event : s.active[e] => s.next[e] >= s.global
    BY DEF StatesWellScheduled
  <2>1. CASE s \in states
    BY <2>1, <1>1 DEF StatesWellScheduled
  <2>2. CASE s = saved
    BY <2>2, <1>1, <1>6, <1>7, <1>8 DEF WellScheduled, TypeOK, Time, ClockBehindEnd
  <2> QED
    BY <2>1, <2>2, <1>4
<1> QED
  BY <1>1, <1>2, <1>3, <1>9, <1>10 DEF SavedInv

(* A load up to the end of the events.  What is linked after it is what    *)
(* the saved machine had active, less the events whose owner performs them *)
(* instead.  For the machine to be well it must not go on in a commit or   *)
(* with its CPU.                                                           *)
LEMMA EventsLoadedStep ==
  ASSUME SavedInv, OwnersRestore, NEW saved \in states, NEW how \in [Event -> Treatments],
         \A e \in Event : how[e] \in Owner[e], EventsLoaded(saved, how),
         torn' \in BOOLEAN, ~torn' => phase' = "out" /\ ~saved.torn
  PROVE  SavedInv'
<1> DEFINE S == Linkable(saved, how)
<1>1. /\ Ranges /\ StatesWellScheduled /\ Crtc \in Event
  BY EventAssumption DEF SavedInv
<1>2. /\ saved.next \in [Event -> Nat] /\ saved.last \in [Event -> Nat]
      /\ saved.period \in [Event -> Nat \ {0}] /\ saved.interval \in [Event -> Nat \ {0}]
      /\ saved.pending \in Nat
  BY <1>1 DEF Ranges
<1>3. /\ active' = [e \in Event |-> Restored(saved, how, e)]
      /\ next_run_time' = [e \in Event |-> IF Found(saved, how, e) THEN saved.next[e] ELSE next_run_time[e]]
      /\ last_run_time' = [e \in Event |-> IF Found(saved, how, e) THEN saved.last[e] ELSE last_run_time[e]]
      /\ period' = [e \in Event |-> IF Found(saved, how, e) THEN saved.period[e] ELSE period[e]]
      /\ interval' = [e \in Event |-> IF Found(saved, how, e) THEN saved.interval[e] ELSE interval[e]]
      /\ queue' \in [1..Cardinality(S) -> S] /\ SortedList(S, next_run_time', queue')
      /\ global_tick_counter' = saved.global /\ event_run_tick_counter' = saved.run
      /\ pending_ticks' = saved.pending /\ irq' = saved.irq
      /\ downcount' = DowncountFor(queue', next_run_time', saved.global, saved.irq)
      /\ current_event' = None
      /\ current_event_next_run_time' = current_event_next_run_time /\ states' = states
  BY DEF EventsLoaded
<1>4. /\ next_run_time' \in [Event -> Nat] /\ last_run_time' \in [Event -> Nat]
      /\ period' \in [Event -> Nat \ {0}] /\ interval' \in [Event -> Nat \ {0}]
  BY <1>1, <1>2, <1>3 DEF Ranges
<1>5. Ranges'
  BY <1>1, <1>3, <1>4 DEF Ranges
<1>6. StatesWellScheduled'
  BY <1>1, <1>3 DEF StatesWellScheduled
<1>7. ASSUME ~torn' PROVE WellScheduled'
  <2>1. phase' = "out" /\ ~saved.torn
    BY <1>7
  <2>2. /\ saved.active \in [Event -> BOOLEAN] /\ saved.active[Crtc]
        /\ saved.global \in Nat /\ saved.run \in Nat
        /\ saved.irq \in BOOLEAN /\ saved.global <= saved.run
        /\ \A e \in Event : saved.active[e] => saved.next[e] >= saved.global
    BY <1>1, <2>1 DEF StatesWellScheduled
  <2>3. \A e \in Event : /\ Restored(saved, how, e) \in BOOLEAN
                         /\ Restored(saved, how, e) => saved.active[e] /\ Found(saved, how, e)
    <3> SUFFICES ASSUME NEW e \in Event
                 PROVE  /\ Restored(saved, how, e) \in BOOLEAN
                        /\ Restored(saved, how, e) => saved.active[e] /\ Found(saved, how, e)
      OBVIOUS
    <3>1. how[e] \in Treatments /\ how[e] # "activate"
      BY DEF OwnersRestore
    <3>2. how[e] = "exact" \/ how[e] = "flushed"
      BY <3>1 DEF Treatments
    <3> QED
      BY <3>2, <2>2 DEF Restored, Found
  <2>4. Restored(saved, how, Crtc)
    <3>1. how[Crtc] = "exact"
      BY <1>1, OwnerAssumption
    <3> QED
      BY <3>1, <2>2 DEF Restored
  <2>5. active' \in [Event -> BOOLEAN] /\ \A e \in Event : active'[e] <=> e \in S
    BY <1>3, <2>3 DEF Linkable
  <2>6. queue' \in Seq(Event)
    <3>1. S \in SUBSET Event /\ Cardinality(S) \in Nat
      BY EventAssumption, FS_Subset, FS_CardinalityType DEF Linkable
    <3>2. queue' \in [1..Cardinality(S) -> Event]
      BY <1>3, <3>1
    <3> QED
      BY <3>1, <3>2, FunctionIsSeq
  <2>7. /\ Distinct(queue') /\ Sorted(queue', next_run_time')
        /\ \A e \in Event : e \in S <=> Linked(queue', e)
    BY <1>3 DEF SortedList
  <2>8. QueueSorted' /\ QueueIsActiveSet' /\ active'[Crtc]
    BY <1>1, <1>3, <2>4, <2>5, <2>7 DEF QueueSorted, QueueIsActiveSet
  <2>9. \A e \in Event : e \in S => next_run_time'[e] >= saved.global
    BY <1>3, <2>2, <2>3 DEF Linkable
  <2>10. NoEventInThePast' /\ StashedTimeHolds' /\ ClockBehindEnd'
    BY <1>3, <2>1, <2>2, <2>5, <2>9 DEF NoEventInThePast, StashedTimeHolds, ClockBehindEnd
  <2>11. downcount' \in Nat
    <3>1. /\ Linked(queue', Crtc)
          /\ \A f \in Event : Linked(queue', f) => next_run_time'[f] >= saved.global
      BY <1>1, <2>4, <2>7, <2>9 DEF Linkable
    <3> QED
      BY <1>1, <1>3, <1>4, <2>2, <2>6, <2>7, <3>1, DowncountInNat
  <2>12. TypeOK'
    <3>1. phase' \in Phases
      BY <2>1 DEF Phases
    <3> QED
      BY <1>1, <1>3, <1>4, <2>1, <2>2, <2>5, <2>6, <2>11, <3>1 DEF TypeOK, Time, Ranges
  <2> QED
    BY <2>8, <2>10, <2>12 DEF WellScheduled
<1> QED
  BY <1>5, <1>6, <1>7 DEF SavedInv

(* A load that fails before the events leaves the list, the events and the *)
(* clock.                                                                  *)
LEMMA FailsBeforeEventsStep ==
  ASSUME SavedInv, NEW saved \in states, FailsBeforeEvents(saved)
  PROVE  SavedInv'
<1>1. /\ Ranges /\ WellScheduled /\ StatesWellScheduled /\ ~torn /\ torn \in BOOLEAN
      /\ TypeOK /\ QueueSorted /\ QueueIsActiveSet /\ active[Crtc] /\ NoEventInThePast
      /\ StashedTimeHolds /\ ClockBehindEnd
  BY DEF SavedInv, WellScheduled, FailsBeforeEvents
<1>2. /\ UNCHANGED <<queue, active, next_run_time, last_run_time, period, interval>>
      /\ UNCHANGED <<current_event, current_event_next_run_time, phase, states, torn>>
      /\ UNCHANGED <<global_tick_counter, event_run_tick_counter>>
  BY DEF FailsBeforeEvents, events, current, clock
<1>3. irq' \in BOOLEAN /\ downcount' \in Nat
  BY BoundAssumption DEF FailsBeforeEvents
<1>4. pending_ticks' \in Nat
  BY <1>1 DEF FailsBeforeEvents, Ranges
<1>5. TypeOK'
  BY <1>1, <1>2, <1>3, <1>4 DEF TypeOK
<1>6. QueueSorted' /\ QueueIsActiveSet' /\ active'[Crtc] /\ NoEventInThePast'
  BY <1>1, <1>2 DEF QueueSorted, QueueIsActiveSet, NoEventInThePast
<1>7. StashedTimeHolds' /\ ClockBehindEnd'
  BY <1>1, <1>2 DEF StashedTimeHolds, ClockBehindEnd
<1>8. Ranges' /\ StatesWellScheduled'
  BY <1>1, <1>2, <1>4 DEF Ranges, StatesWellScheduled
<1> QED
  BY <1>1, <1>2, <1>5, <1>6, <1>7, <1>8 DEF SavedInv, WellScheduled

(* One that fails in the events tears the machine.                         *)
LEMMA FailsInEventsStep ==
  ASSUME SavedInv, NEW saved \in states, NEW how \in [Event -> Treatments],
         FailsInEvents(saved, how)
  PROVE  SavedInv'
<1>1. Ranges /\ StatesWellScheduled /\ WellScheduled
  BY DEF SavedInv, FailsInEvents
<1>2. /\ torn' = TRUE /\ states' = states
      /\ current_event_next_run_time' = current_event_next_run_time
  BY DEF FailsInEvents
<1>3. PICK done \in SUBSET {e \in Event : Found(saved, how, e)}, d \in [Event -> Delays] :
        /\ next_run_time' = [e \in Event |-> CASE e \in done              -> saved.next[e]
                                               [] active'[e] /\ ~active[e] -> global_tick_counter + saved.pending + d[e]
                                               [] OTHER -> next_run_time[e]]
        /\ last_run_time' = [e \in Event |-> IF e \in done THEN saved.last[e] ELSE last_run_time[e]]
        /\ period' = [e \in Event |-> IF e \in done THEN saved.period[e] ELSE period[e]]
        /\ interval' = [e \in Event |-> IF e \in done THEN saved.interval[e] ELSE interval[e]]
  BY DEF FailsInEvents
<1>4. /\ saved.next \in [Event -> Nat] /\ saved.last \in [Event -> Nat]
      /\ saved.period \in [Event -> Nat \ {0}] /\ saved.interval \in [Event -> Nat \ {0}]
      /\ saved.pending \in Nat
  BY <1>1 DEF Ranges
<1>5. global_tick_counter \in Nat /\ \A e \in Event : d[e] \in Nat
  BY <1>1, TickAssumption DEF WellScheduled, TypeOK, Time
<1>6. next_run_time' \in [Event -> Nat]
  <2>1. ASSUME NEW e \in Event PROVE next_run_time'[e] \in Nat
    BY <1>1, <1>3, <1>4, <1>5 DEF Ranges
  <2> QED
    BY <1>3, <2>1
<1>7. /\ last_run_time' \in [Event -> Nat]
      /\ period' \in [Event -> Nat \ {0}] /\ interval' \in [Event -> Nat \ {0}]
  BY <1>1, <1>3, <1>4 DEF Ranges
<1>8. pending_ticks' \in Nat
  BY <1>4 DEF FailsInEvents
<1>9. Ranges' /\ StatesWellScheduled'
  BY <1>1, <1>2, <1>6, <1>7, <1>8 DEF Ranges, StatesWellScheduled
<1> QED
  BY <1>2, <1>9 DEF SavedInv

(* Every step keeps the invariant.                                         *)
LEMMA SavedInvStep ==
  ASSUME SavedInv, OwnersRestore, [NextS]_allVars
  PROVE  SavedInv'
<1>1. ASSUME WellScheduled, [Next]_vars, UNCHANGED <<states, torn>>
      PROVE  SavedInv'
  <2>1. WellScheduled'
    BY <1>1, StepKeeps DEF SchedulingKept
  <2>2. /\ next_run_time' \in [Event -> Nat] /\ last_run_time' \in [Event -> Nat]
        /\ period' \in [Event -> Nat \ {0}] /\ interval' \in [Event -> Nat \ {0}]
        /\ current_event_next_run_time' \in Nat /\ pending_ticks' \in Nat
    BY <2>1 DEF WellScheduled, TypeOK, Time
  <2> QED
    BY <1>1, <2>1, <2>2 DEF SavedInv, Ranges, StatesWellScheduled
<1>2. CASE ~torn /\ Next /\ UNCHANGED <<states, torn>>
  BY <1>1, <1>2 DEF SavedInv
<1>3. CASE SaveState
  BY <1>3, SaveStateStep
<1>4. CASE Load
  <2>1. PICK saved \in states :
          \/ FailsBeforeEvents(saved)
          \/ \E how \in [Event -> Treatments] :
               /\ \A e \in Event : how[e] \in Owner[e]
               /\ \/ LoadState(saved, how)
                  \/ FailsInEvents(saved, how)
                  \/ FailsAfterEvents(saved, how)
    BY <1>4 DEF Load
  <2>2. CASE FailsBeforeEvents(saved)
    BY <2>2, FailsBeforeEventsStep
  <2>3. ASSUME NEW how \in [Event -> Treatments], \A e \in Event : how[e] \in Owner[e],
               \/ LoadState(saved, how)
               \/ FailsInEvents(saved, how)
               \/ FailsAfterEvents(saved, how)
        PROVE  SavedInv'
    <3>1. saved.torn \in BOOLEAN
      BY DEF SavedInv, Ranges
    <3>2. CASE LoadState(saved, how)
      BY <2>3, <3>1, <3>2, EventsLoadedStep DEF LoadState
    <3>3. CASE FailsInEvents(saved, how)
      BY <3>3, FailsInEventsStep
    <3>4. CASE FailsAfterEvents(saved, how)
      BY <2>3, <3>1, <3>4, EventsLoadedStep DEF FailsAfterEvents
    <3> QED
      BY <2>3, <3>2, <3>3, <3>4
  <2> QED
    BY <2>1, <2>2, <2>3
<1>5. CASE TornStep
  BY <1>5 DEF TornStep, cpu, SavedInv, Ranges, StatesWellScheduled
<1>6. CASE UNCHANGED allVars
  <2>1. CASE torn
    BY <1>6, <2>1 DEF allVars, vars, events, current, cpu, SavedInv, Ranges, StatesWellScheduled
  <2>2. CASE ~torn
    BY <1>1, <1>6, <2>2 DEF allVars, SavedInv
  <2> QED
    BY <2>1, <2>2
<1> QED
  BY <1>2, <1>3, <1>4, <1>5, <1>6 DEF NextS

(* However often the machine is saved and loaded, and wherever a load      *)
(* fails, the scheduler is well unless it is torn: no active event is in   *)
(* the past, the list is the sorted list of the active events.  A load to  *)
(* the end of a state that is not torn makes it well again.  The owners    *)
(* must restore their events, as all but pad_do_state do.                  *)
THEOREM LoadedIsWell == OwnersRestore /\ SpecS => []SavedInv
<1> SUFFICES ASSUME OwnersRestore PROVE SpecS => []SavedInv
  OBVIOUS
<1>1. InitS => SavedInv
  BY InitIndInv, WellInRange DEF InitS, SavedInv, IndInv, Ranges, StatesWellScheduled
<1>2. SavedInv /\ [NextS]_allVars => SavedInv'
  BY SavedInvStep
<1> QED
  BY <1>1, <1>2, PTL DEF SpecS

(* A loaded machine has no event in the past of its clock, so the loop     *)
(* does not find a deadline it can no longer meet.                         *)
THEOREM LoadedNothingOverdue == OwnersRestore /\ SpecS => []LoadedInTime
<1>1. SavedInv => LoadedInTime
  BY DEF SavedInv, WellScheduled, LoadedInTime
<1> QED
  BY <1>1, LoadedIsWell, PTL

(* A machine loaded in the middle of a commit finishes it before its CPU   *)
(* runs.                                                                   *)
THEOREM LoadedCatchesUp == OwnersRestore /\ SpecS => []LoadedCaughtUp
<1>1. SavedInv => LoadedCaughtUp
  BY DEF SavedInv, WellScheduled, ClockBehindEnd, CaughtUp, LoadedCaughtUp
<1> QED
  BY <1>1, LoadedIsWell, PTL

(* A state written from inside a callback holds the deadline its event has *)
(* when the callback is over.                                              *)
THEOREM DeadlinesAreSaved == SpecS => SaveKeepsDeadlines
<1>1. [NextS]_allVars =>
        [~torn => \A s \in states' \ states : \A e \in Event :
                    s.active[e] => s.next[e] = Deadline(e)]_allVars
  <2> SUFFICES ASSUME NextS, NEW s \in states' \ states, NEW e \in Event, s.active[e]
               PROVE  s.next[e] = Deadline(e)
    OBVIOUS
  <2>1. SaveState
    BY DEF NextS, Load, LoadState, EventsLoaded, FailsBeforeEvents, FailsInEvents,
           FailsAfterEvents, TornStep
  <2>2. s.active = active /\ s.next = [f \in Event |-> SavedTime(f)]
    BY <2>1 DEF SaveState
  <2> QED
    BY <2>2 DEF SavedTime, Deadline
<1> QED
  BY <1>1, PTL DEF SpecS, SaveKeepsDeadlines
=============================================================================
