-------------------------- MODULE TranscriptProofs --------------------------
(***************************************************************************)
(* The proof that what a view exports between its calls is true of the      *)
(* journal (TranscriptFaithful), by four steps.                             *)
(*   - FlattenSeq lays the members of a sequence of sequences end to end:   *)
(*     where each begins, and that nothing else is in the result.           *)
(*   - So every envelope of the thread has its place among the links, and   *)
(*     every timeout among the clock events, in the order of the journal.   *)
(*   - The n-th envelope that a thread has journaled carries number n: by   *)
(*     induction over the positions of the journal, from RecordStep.        *)
(*   - Nothing after the last record of its thread changes the thread: the  *)
(*     prefix that the transcript names says as much as the whole journal.  *)
(***************************************************************************)
EXTENDS Transcript, JournalProofs
-----------------------------------------------------------------------------
(* Sequences put end to end.                                                *)

Joined(p, q) == p \o q

\* joined is the recursive function of FlattenSeq on the first k members.
Joins(joined, ss, k) ==
    joined = [i \in 1..k |-> IF i = 1 THEN ss[i] ELSE Joined(joined[i - 1], ss[i])]

\* The function exists at every length.
LEMMA JoinExists ==
    ASSUME NEW ss, NEW k \in Nat
    PROVE  \E joined : Joins(joined, ss, k)
  <1> DEFINE S == {n \in Nat : \E joined : Joins(joined, ss, n)}
  <1>1. 0 \in S
    <2> DEFINE none == [i \in 1..0 |-> ss]
    <2>1. Joins(none, ss, 0)
      BY DEF Joins
    <2>2. QED
      BY <2>1
  <1>2. ASSUME NEW n \in S PROVE n + 1 \in S
    <2>1. PICK joined : Joins(joined, ss, n)
      OBVIOUS
    <2> DEFINE longer == [i \in 1..(n + 1) |->
                            IF i = n + 1 THEN IF n = 0 THEN ss[1] ELSE Joined(joined[n], ss[n + 1])
                                         ELSE joined[i]]
    <2>2. Joins(longer, ss, n + 1)
      BY <2>1, n \in Nat DEF Joins
    <2>3. QED
      BY <2>2
  <1>3. S \in SUBSET Nat
    OBVIOUS
  <1>4. k \in S
    <2> HIDE DEF S
    <2>1. QED
      BY <1>1, <1>2, <1>3, NumberInduction
  <1>5. QED
    BY <1>4

\* FlattenSeq is the last member of such a function.
LEMMA FlattenJoins ==
    ASSUME NEW ss, Len(ss) \in Nat, Len(ss) # 0
    PROVE  \E joined : Joins(joined, ss, Len(ss)) /\ FlattenSeq(ss) = joined[Len(ss)]
  <1> DEFINE h == CHOOSE joined : joined = [i \in 1..Len(ss) |->
                     IF i = 1 THEN ss[i] ELSE joined[i - 1] \o ss[i]]
  <1>1. Joins(h, ss, Len(ss))
    BY JoinExists DEF Joins, Joined
  <1>2. FlattenSeq(ss) = h[Len(ss)]
    BY DEF FlattenSeq
  <1>3. QED
    BY <1>1, <1>2

\* Member n of ss, of whatever length, begins in flat after place upto[n - 1].
Laid(flat, ss, upto) ==
    /\ upto \in [0..Len(ss) -> Nat] /\ upto[0] = 0
    /\ \A n \in 1..Len(ss) : upto[n] = upto[n - 1] + Len(ss[n])
    /\ \A m, n \in 0..Len(ss) : m <= n => upto[m] <= upto[n]
    /\ DOMAIN flat = 1..upto[Len(ss)]
    /\ \A n \in 1..Len(ss) : \A j \in 1..Len(ss[n]) : flat[upto[n - 1] + j] = ss[n][j]

\* Two sequences end to end.
LEMMA TwoJoined ==
    ASSUME NEW R, NEW p \in Seq(R), NEW q \in Seq(R)
    PROVE  /\ Joined(p, q) \in Seq(R) /\ Len(p) \in Nat /\ Len(q) \in Nat
           /\ Len(Joined(p, q)) = Len(p) + Len(q)
           /\ \A j \in 1..Len(p) : Joined(p, q)[j] = p[j]
           /\ \A k \in (Len(p) + 1)..(Len(p) + Len(q)) : Joined(p, q)[k] = q[k - Len(p)]
  <1>1. /\ Joined(p, q) \in Seq(R) /\ Len(p) \in Nat /\ Len(q) \in Nat
        /\ Len(Joined(p, q)) = Len(p) + Len(q)
        /\ \A j \in 1..Len(p) : Joined(p, q)[j] = p[j]
    BY DEF Joined
  <1>2. \A k \in (Len(p) + 1)..(Len(p) + Len(q)) : Joined(p, q)[k] = q[k - Len(p)]
    BY <1>1 DEF Joined
  <1>3. QED
    BY <1>1, <1>2

\* FlattenSeq lays the members of ss one after the other.
LEMMA FlattenLays ==
    ASSUME NEW R, NEW ss \in Seq(Seq(R))
    PROVE  FlattenSeq(ss) \in Seq(R) /\ \E upto : Laid(FlattenSeq(ss), ss, upto)
  <1> DEFINE N == Len(ss)
  <1>1. N \in Nat /\ \A n \in 1..N : ss[n] \in Seq(R) /\ Len(ss[n]) \in Nat
    OBVIOUS
  <1>2. CASE N = 0
    <2> DEFINE zero == [n \in 0..0 |-> 0]
    <2>1. FlattenSeq(ss) = ss /\ DOMAIN ss = 1..0
      BY <1>2 DEF FlattenSeq
    <2>2. Laid(ss, ss, zero)
      BY <1>2, <2>1 DEF Laid
    <2>3. ss \in Seq(R)
      BY <1>2
    <2>4. QED
      BY <2>1, <2>2, <2>3
  <1>3. CASE N # 0
    <2>1. PICK joined : Joins(joined, ss, N) /\ FlattenSeq(ss) = joined[N]
      BY <1>1, <1>3, FlattenJoins
    <2>2. joined[1] = ss[1] /\ \A n \in 1..N : n # 1 => joined[n] = Joined(joined[n - 1], ss[n])
      <3>1. \A n \in 1..N : joined[n] = IF n = 1 THEN ss[n] ELSE Joined(joined[n - 1], ss[n])
        BY <2>1 DEF Joins
      <3>2. 1 \in 1..N
        BY <1>1, <1>3
      <3>3. QED
        BY <3>1, <3>2
    <2> DEFINE upto == [n \in 0..N |-> IF n = 0 THEN 0 ELSE Len(joined[n])]
    <2>3. upto[0] = 0 /\ \A n \in 1..N : upto[n] = Len(joined[n])
      BY <1>1
    <2> DEFINE Good(n) == /\ joined[n] \in Seq(R)
                          /\ upto[n] = upto[n - 1] + Len(ss[n])
                          /\ \A j \in 1..Len(ss[n]) : joined[n][upto[n - 1] + j] = ss[n][j]
               S == {n \in Nat : n \in 1..N => Good(n)}
    <2> HIDE DEF N, upto
    <2>4. ASSUME NEW n \in 1..N PROVE Good(n)
      <3>1. 0 \in S
        OBVIOUS
      <3>2. ASSUME NEW i \in S PROVE i + 1 \in S
        <4>1. i \in Nat /\ (i \in 1..N => Good(i))
          OBVIOUS
        <4>2. ASSUME i + 1 \in 1..N PROVE Good(i + 1)
          <5>1. CASE i = 0
            <6>1. /\ joined[1] = ss[1] /\ ss[1] \in Seq(R) /\ upto[1] = Len(joined[1])
                  /\ upto[0] = 0 /\ Len(ss[1]) \in Nat
              BY <1>1, <2>2, <2>3, <4>2, <5>1
            <6>2. Good(1)
              BY <6>1
            <6>3. QED
              BY <5>1, <6>2
          <5>2. CASE i # 0
            <6>1. /\ i \in 1..N /\ i + 1 # 1 /\ i + 1 - 1 = i
              BY <1>1, <4>1, <4>2, <5>2
            <6>2. /\ joined[i] \in Seq(R) /\ joined[i + 1] = Joined(joined[i], ss[i + 1])
                  /\ upto[i] = Len(joined[i]) /\ upto[i + 1] = Len(joined[i + 1])
                  /\ ss[i + 1] \in Seq(R)
              BY <1>1, <2>2, <2>3, <4>1, <4>2, <6>1
            <6> DEFINE p == joined[i]
                       q == ss[i + 1]
                       pq == joined[i + 1]
            <6>3. p \in Seq(R) /\ q \in Seq(R) /\ pq = Joined(p, q)
              BY <6>2
            <6> HIDE DEF p, q, pq, S, Good
            <6>4. /\ pq \in Seq(R) /\ Len(pq) = Len(p) + Len(q)
                  /\ \A j \in 1..Len(q) : pq[Len(p) + j] = q[j]
              <7>1. Joined(p, q) \in Seq(R) /\ Len(Joined(p, q)) = Len(p) + Len(q)
                BY <6>3, TwoJoined
              <7>2. /\ Len(p) \in Nat /\ Len(q) \in Nat
                    /\ \A k \in (Len(p) + 1)..(Len(p) + Len(q)) : pq[k] = q[k - Len(p)]
                BY <6>3, TwoJoined
              <7>3. QED
                BY <6>3, <7>1, <7>2
            <6>5. upto[i] = Len(p) /\ upto[i + 1] = Len(pq)
              BY <6>2 DEF p, pq
            <6>6. upto[i + 1] = upto[i] + Len(q) /\ \A j \in 1..Len(q) : pq[upto[i] + j] = q[j]
              BY <6>4, <6>5
            <6>7. QED
              BY <6>1, <6>4, <6>6 DEF p, q, pq, Good
          <5>3. QED
            BY <5>1, <5>2
        <4> HIDE DEF Good
        <4>3. QED
          BY <4>1, <4>2
      <3>3. S \in SUBSET Nat /\ n \in Nat
        BY <1>1
      <3>4. n \in S
        <4> HIDE DEF S
        <4>1. QED
          BY <3>1, <3>2, <3>3, NumberInduction
      <3>5. QED
        BY <3>4
    <2> HIDE DEF S
    <2>5. /\ upto \in [0..N -> Nat]
          /\ \A n \in 1..N : upto[n] = Len(joined[n]) /\ joined[n] \in Seq(R) /\ upto[n] \in Nat
      <3>1. \A n \in 1..N : joined[n] \in Seq(R) /\ Len(joined[n]) \in Nat
        BY <2>4
      <3> HIDE DEF Good
      <3>2. QED
        BY <1>1, <2>3, <3>1 DEF upto
    <2>6. ASSUME NEW m \in 1..N, NEW n \in Nat, m <= n, n <= N
          PROVE  upto[m] <= upto[n] /\ \A k \in 1..upto[m] : joined[n][k] = joined[m][k]
      <3> DEFINE T == {i \in Nat : m <= i /\ i <= N =>
                         upto[m] <= upto[i] /\ \A k \in 1..upto[m] : joined[i][k] = joined[m][k]}
      <3>1. 0 \in T
        BY <1>1
      <3>2. ASSUME NEW i \in T PROVE i + 1 \in T
        <4>1. SUFFICES ASSUME m <= i + 1, i + 1 <= N
                       PROVE  /\ upto[m] <= upto[i + 1]
                              /\ \A k \in 1..upto[m] : joined[i + 1][k] = joined[m][k]
          OBVIOUS
        <4>2. CASE m = i + 1
          BY <2>3, <2>5, <4>2
        <4>3. CASE m # i + 1
          <5>1. /\ i \in 1..N /\ i + 1 \in 1..N /\ i + 1 # 1 /\ i + 1 - 1 = i /\ m <= i
                /\ upto[m] <= upto[i] /\ \A k \in 1..upto[m] : joined[i][k] = joined[m][k]
            BY <1>1, <4>1, <4>3
          <5>2. /\ joined[i + 1] = Joined(joined[i], ss[i + 1])
                /\ upto[i] = Len(joined[i]) /\ upto[i + 1] = Len(joined[i + 1])
                /\ joined[i] \in Seq(R) /\ ss[i + 1] \in Seq(R) /\ upto[m] \in Nat
            BY <1>1, <2>2, <2>3, <2>5, <5>1
          <5> DEFINE p == joined[i]
                     q == ss[i + 1]
                     pq == joined[i + 1]
          <5>3. p \in Seq(R) /\ q \in Seq(R) /\ pq = Joined(p, q)
            BY <5>2
          <5> HIDE DEF p, q, pq
          <5>4. /\ Len(p) \in Nat /\ Len(q) \in Nat /\ Len(pq) = Len(p) + Len(q)
                /\ \A j \in 1..Len(p) : pq[j] = p[j]
            BY <5>3, TwoJoined
          <5>5. upto[i] = Len(p) /\ upto[i + 1] = Len(pq)
            BY <5>2 DEF p, pq
          <5>6. upto[m] <= upto[i + 1] /\ \A k \in 1..upto[m] : k \in 1..Len(p)
            BY <5>1, <5>2, <5>4, <5>5
          <5>7. \A k \in 1..upto[m] : pq[k] = joined[m][k]
            BY <5>1, <5>4, <5>6 DEF p
          <5>8. QED
            BY <5>6, <5>7 DEF pq
        <4>4. QED
          BY <4>2, <4>3
      <3>3. T \in SUBSET Nat
        OBVIOUS
      <3>4. n \in T
        <4> HIDE DEF T
        <4>1. QED
          BY <3>1, <3>2, <3>3, NumberInduction
      <3>5. QED
        BY <2>6, <3>4
    <2> DEFINE flat == FlattenSeq(ss)
    <2>7. flat = joined[N] /\ N \in 1..N
      BY <1>1, <1>3, <2>1
    <2> HIDE DEF flat, Good
    <2>8. DOMAIN flat = 1..upto[N]
      BY <2>3, <2>5, <2>7
    <2>9. \A m, n \in 0..N : m <= n => upto[m] <= upto[n]
      <3> SUFFICES ASSUME NEW m \in 0..N, NEW n \in 0..N, m <= n PROVE upto[m] <= upto[n]
        OBVIOUS
      <3>1. CASE m = 0
        BY <2>3, <2>5, <3>1
      <3>2. CASE m # 0
        BY <1>1, <2>6, <3>2
      <3>3. QED
        BY <3>1, <3>2
    <2>10. ASSUME NEW n \in 1..N, NEW j \in 1..Len(ss[n])
          PROVE  flat[upto[n - 1] + j] = ss[n][j]
      <3>1. /\ n \in Nat /\ n <= N /\ n - 1 \in 0..N
            /\ upto[n] = upto[n - 1] + Len(ss[n])
            /\ joined[n][upto[n - 1] + j] = ss[n][j]
        BY <1>1, <2>4 DEF Good
      <3> DEFINE before == upto[n - 1]
                 size == Len(ss[n])
      <3>2. before \in Nat /\ size \in Nat /\ upto[n] = before + size
        BY <1>1, <2>5, <3>1
      <3>3. upto[n - 1] + j \in 1..upto[n]
        <4>1. j \in 1..size
          OBVIOUS
        <4> HIDE DEF before, size
        <4>2. before + j \in 1..upto[n]
          BY <3>2, <4>1
        <4>3. QED
          BY <4>2 DEF before
      <3>4. flat[upto[n - 1] + j] = joined[n][upto[n - 1] + j]
        BY <1>1, <2>6, <2>7, <3>1, <3>3
      <3>5. QED
        BY <3>1, <3>4
    <2>11. \A n \in 1..N : upto[n] = upto[n - 1] + Len(ss[n])
      BY <2>4 DEF Good
    <2>12. Laid(flat, ss, upto)
      BY <2>3, <2>5, <2>8, <2>9, <2>10, <2>11 DEF Laid, N
    <2>13. flat \in Seq(R)
      BY <2>7, <2>5
    <2>14. QED
      BY <2>12, <2>13 DEF flat
  <1>4. QED
    BY <1>2, <1>3

\* Every place belongs to a member.
LEMMA LaidPlaces ==
    ASSUME NEW R, NEW ss \in Seq(Seq(R)), NEW flat, NEW upto, Laid(flat, ss, upto),
           NEW k \in DOMAIN flat
    PROVE  \E n \in 1..Len(ss) : \E j \in 1..Len(ss[n]) : k = upto[n - 1] + j
  <1> DEFINE N == Len(ss)
             U == {n \in 1..N : k <= upto[n]}
  <1>1. /\ N \in Nat /\ \A n \in 1..N : Len(ss[n]) \in Nat
        /\ upto \in [0..N -> Nat] /\ upto[0] = 0 /\ k \in 1..upto[N]
        /\ \A n \in 1..N : upto[n] = upto[n - 1] + Len(ss[n])
    BY DEF Laid
  <1> HIDE DEF N
  <1>2. N \in U /\ U \in SUBSET Nat
    BY <1>1
  <1>3. PICK n \in U : \A m \in U : n <= m
    <2> HIDE DEF U
    <2>1. QED
      BY <1>2, LeastNumber
  <1>4. n \in 1..N /\ n - 1 \in 0..N /\ k <= upto[n] /\ n - 1 \notin U
    BY <1>1, <1>3
  <1>5. k > upto[n - 1] /\ upto[n - 1] \in Nat /\ k \in Nat
    <2>1. n - 1 = 0 \/ n - 1 \in 1..N
      BY <1>1, <1>4
    <2>2. upto[n - 1] \in Nat /\ upto[N] \in Nat
      BY <1>1, <1>4
    <2>3. QED
      BY <1>1, <1>4, <2>1, <2>2
  <1>6. k - upto[n - 1] \in 1..Len(ss[n]) /\ k = upto[n - 1] + (k - upto[n - 1])
    <2>1. upto[n] = upto[n - 1] + Len(ss[n]) /\ Len(ss[n]) \in Nat
      BY <1>1, <1>4
    <2>2. QED
      BY <1>4, <1>5, <2>1
  <1>7. QED
    BY <1>4, <1>6 DEF N

-----------------------------------------------------------------------------
(* The links and the clock events of a transcript.                          *)

\* links shows the envelopes of thread t in journal rs, that of record n at
\* place[n], an approval once more at the next place.
Shows(links, rs, t, place) ==
    LET moves == EnvelopesOf(rs, t)
    IN  /\ place \in [moves -> Nat]
        /\ \A m, n \in moves : m < n => place[m] < place[n]
        /\ \A n \in moves : place[n] \in DOMAIN links /\ links[place[n]] = MoveLink(rs[n])
        /\ \A n \in moves : rs[n].envelope.type = "approve" =>
             place[n] + 1 \in DOMAIN links /\ links[place[n] + 1] = ApprovalLink(rs[n])
        /\ \A k \in DOMAIN links :
             \/ links[k].role = "request"
             \/ \E n \in moves : \/ k = place[n]
                                 \/ (rs[n].envelope.type = "approve" /\ k = place[n] + 1)

\* One request link, then the moves of the journal in their order.
LEMMA LinkPlaces ==
    ASSUME NEW rs \in Seq(Record), NEW t, NEW r
    PROVE  \E place : Shows(<<RequestLink(r)>> \o MoveLinks(t, rs), rs, t, place)
  <1> DEFINE N == Len(rs)
             moves == EnvelopesOf(rs, t)
             R == {MoveLink(rs[n]) : n \in 1..N} \cup {ApprovalLink(rs[n]) : n \in 1..N}
                  \cup {RequestLink(r)}
             items == [n \in DOMAIN rs |-> IF n \in moves THEN LinksOf(rs[n]) ELSE <<>>]
             flat == FlattenSeq(items)
             first == <<RequestLink(r)>>
             links == Joined(first, flat)
  <1>1. N \in Nat /\ DOMAIN rs = 1..N /\ moves \subseteq 1..N
    BY DEF EnvelopesOf, Journaled
  <1>2. ASSUME NEW n \in 1..N
        PROVE  /\ LinksOf(rs[n]) \in Seq(R)
               /\ LinksOf(rs[n])[1] = MoveLink(rs[n])
               /\ Len(LinksOf(rs[n])) = IF rs[n].envelope.type = "approve" THEN 2 ELSE 1
               /\ rs[n].envelope.type = "approve" => LinksOf(rs[n])[2] = ApprovalLink(rs[n])
    <2>1. MoveLink(rs[n]) \in R /\ ApprovalLink(rs[n]) \in R
      OBVIOUS
    <2> HIDE DEF R
    <2>2. QED
      BY <2>1 DEF LinksOf
  <1>3. RequestLink(r) \in R
    OBVIOUS
  <1> HIDE DEF R, N
  <1>4. items \in Seq(Seq(R)) /\ Len(items) = N
    <2>1. \A n \in 1..N : (IF n \in moves THEN LinksOf(rs[n]) ELSE <<>>) \in Seq(R)
      BY <1>2
    <2> HIDE DEF moves
    <2>2. items \in [1..N -> Seq(R)]
      BY <1>1, <2>1
    <2> HIDE DEF items
    <2>3. QED
      BY <1>1, <2>2
  <1>5. /\ \A n \in moves : items[n] = LinksOf(rs[n])
        /\ \A n \in 1..N : n \notin moves => items[n] = <<>>
    BY <1>1
  <1> HIDE DEF items, moves
  <1>6. flat \in Seq(R) /\ \E upto : Laid(flat, items, upto)
    BY <1>4, FlattenLays
  <1>7. PICK upto : Laid(flat, items, upto)
    BY <1>6
  <1>8. /\ upto \in [0..N -> Nat] /\ upto[0] = 0
        /\ \A n \in 1..N : upto[n] = upto[n - 1] + Len(items[n])
        /\ \A m, n \in 0..N : m <= n => upto[m] <= upto[n]
        /\ DOMAIN flat = 1..upto[N]
        /\ \A n \in 1..N : \A j \in 1..Len(items[n]) : flat[upto[n - 1] + j] = items[n][j]
    BY <1>4, <1>7 DEF Laid
  <1>9. \A k \in DOMAIN flat : \E n \in 1..N : \E j \in 1..Len(items[n]) : k = upto[n - 1] + j
    BY <1>4, <1>7, LaidPlaces
  <1> HIDE DEF flat
  <1>10. /\ links[1] = RequestLink(r)
         /\ DOMAIN links = 1..(1 + upto[N])
         /\ \A k \in 1..upto[N] : links[k + 1] = flat[k]
    <2>1. first \in Seq(R) /\ Len(first) = 1 /\ first[1] = RequestLink(r)
      BY <1>3
    <2> HIDE DEF first
    <2>2. /\ links \in Seq(R) /\ Len(links) = Len(first) + Len(flat) /\ Len(flat) \in Nat
          /\ \A j \in 1..Len(first) : links[j] = first[j]
          /\ \A k \in (Len(first) + 1)..(Len(first) + Len(flat)) : links[k] = flat[k - Len(first)]
      <3>1. first \in Seq(R) /\ flat \in Seq(R)
        BY <1>6, <2>1
      <3>2. QED
        BY <3>1, TwoJoined
    <2>3. Len(flat) = upto[N] /\ upto[N] \in Nat
      BY <1>1, <1>6, <1>8
    <2> HIDE DEF links
    <2>4. links[1] = RequestLink(r) /\ DOMAIN links = 1..(1 + upto[N])
      BY <2>1, <2>2, <2>3
    <2>5. ASSUME NEW k \in 1..upto[N] PROVE links[k + 1] = flat[k]
      <3>1. k + 1 \in (Len(first) + 1)..(Len(first) + Len(flat)) /\ k + 1 - Len(first) = k
        BY <2>1, <2>3
      <3>2. QED
        BY <2>2, <3>1
    <2>6. QED
      BY <2>4, <2>5
  <1> DEFINE place == [n \in moves |-> upto[n - 1] + 2]
  <1> HIDE DEF links
  <1>11. /\ place \in [moves -> Nat]
         /\ \A n \in moves : /\ place[n] = upto[n - 1] + 2 /\ n \in 1..N /\ n - 1 \in 0..N
                             /\ upto[n - 1] \in Nat /\ upto[n] \in Nat /\ upto[n] <= upto[N]
                             /\ upto[n] = upto[n - 1] + Len(items[n])
    <2>1. \A n \in moves : /\ n \in 1..N /\ n - 1 \in 0..N /\ upto[n - 1] \in Nat
                           /\ upto[n] \in Nat /\ upto[n] <= upto[N]
                           /\ upto[n] = upto[n - 1] + Len(items[n])
      BY <1>1, <1>8 DEF moves
    <2>2. QED
      BY <2>1
  <1> HIDE DEF place
  <1>12. ASSUME NEW n \in moves, NEW j \in 1..Len(items[n])
         PROVE  /\ upto[n - 1] + j + 1 \in DOMAIN links
                /\ links[upto[n - 1] + j + 1] = items[n][j]
    <2> DEFINE before == upto[n - 1]
               size == Len(items[n])
               k == before + j
    <2>1. n \in 1..N /\ before \in Nat /\ upto[n] = before + size /\ upto[n] <= upto[N]
      BY <1>11
    <2>2. size \in Nat /\ j \in 1..size /\ upto[N] \in Nat
      BY <1>1, <1>4, <1>8, <2>1
    <2>3. flat[k] = items[n][j]
      BY <1>8, <2>1
    <2>4. k \in 1..upto[N]
      <3> HIDE DEF before, size
      <3>1. QED
        BY <2>1, <2>2, upto[n] \in Nat
    <2> HIDE DEF before, size
    <2>5. k + 1 \in DOMAIN links /\ links[k + 1] = flat[k]
      <3> HIDE DEF k
      <3>1. QED
        BY <1>10, <2>2, <2>4
    <2>6. QED
      BY <2>3, <2>5 DEF before
  <1>13. ASSUME NEW m \in moves PROVE upto[m] > upto[m - 1]
    <2>1. m \in 1..N /\ upto[m - 1] \in Nat /\ upto[m] \in Nat /\ upto[m] = upto[m - 1] + Len(items[m])
      BY <1>11
    <2>2. Len(items[m]) = 1 \/ Len(items[m]) = 2
      BY <1>2, <1>5, <2>1
    <2> DEFINE before == upto[m - 1]
               after == upto[m]
               size == Len(items[m])
    <2>3. before \in Nat /\ after \in Nat /\ after = before + size /\ size \in {1, 2}
      BY <2>1, <2>2
    <2> HIDE DEF before, after, size
    <2>4. after > before
      BY <2>3
    <2>5. QED
      BY <2>4 DEF before, after
  <1>14. ASSUME NEW m \in moves, NEW n \in moves, m < n PROVE place[m] < place[n]
    <2>1. /\ place[m] = upto[m - 1] + 2 /\ upto[m - 1] \in Nat /\ upto[m] \in Nat
          /\ place[n] = upto[n - 1] + 2 /\ upto[n - 1] \in Nat
          /\ m \in 0..N /\ n - 1 \in 0..N /\ m \in Nat /\ n \in Nat
      BY <1>1, <1>11
    <2>2. m <= n - 1
      BY <1>14, <2>1
    <2>3. upto[m] <= upto[n - 1]
      BY <1>8, <2>1, <2>2
    <2>4. QED
      BY <1>13, <2>1, <2>3
  <1>15. ASSUME NEW n \in moves PROVE place[n] \in DOMAIN links /\ links[place[n]] = MoveLink(rs[n])
    <2>1. n \in 1..N /\ items[n] = LinksOf(rs[n])
      BY <1>5, <1>11
    <2>2. 1 \in 1..Len(items[n]) /\ items[n][1] = MoveLink(rs[n])
      BY <1>2, <2>1
    <2>3. place[n] = upto[n - 1] + 1 + 1
      BY <1>11
    <2>4. QED
      BY <1>12, <2>2, <2>3
  <1>16. ASSUME NEW n \in moves, rs[n].envelope.type = "approve"
         PROVE  place[n] + 1 \in DOMAIN links /\ links[place[n] + 1] = ApprovalLink(rs[n])
    <2>1. n \in 1..N /\ items[n] = LinksOf(rs[n])
      BY <1>5, <1>11
    <2>2. 2 \in 1..Len(items[n]) /\ items[n][2] = ApprovalLink(rs[n])
      BY <1>2, <1>16, <2>1
    <2>3. place[n] + 1 = upto[n - 1] + 2 + 1
      BY <1>11
    <2>4. QED
      BY <1>12, <2>2, <2>3
  <1>17. ASSUME NEW k \in DOMAIN links
         PROVE  \/ links[k].role = "request"
                \/ \E n \in moves : \/ k = place[n]
                                    \/ (rs[n].envelope.type = "approve" /\ k = place[n] + 1)
    <2>1. CASE k = 1
      BY <1>10, <2>1 DEF RequestLink
    <2>2. CASE k # 1
      <3>1. k - 1 \in DOMAIN flat /\ k \in Nat
        BY <1>1, <1>8, <1>10, <2>2
      <3>2. PICK n \in 1..N, j \in Nat : j \in 1..Len(items[n]) /\ k - 1 = upto[n - 1] + j
        BY <1>9, <3>1
      <3>3. n \in moves
        BY <1>5, <3>2
      <3>4. j = 1 \/ (j = 2 /\ rs[n].envelope.type = "approve")
        BY <1>2, <1>5, <3>2, <3>3
      <3>5. upto[n - 1] \in Nat /\ place[n] = upto[n - 1] + 2
        BY <1>11, <3>3
      <3>6. k = place[n] \/ (rs[n].envelope.type = "approve" /\ k = place[n] + 1)
        BY <3>1, <3>2, <3>4, <3>5
      <3>7. QED
        BY <3>3, <3>6
    <2>3. QED
      BY <2>1, <2>2
  <1>18. Shows(links, rs, t, place)
    BY <1>11, <1>14, <1>15, <1>16, <1>17 DEF Shows, moves
  <1>19. links = <<RequestLink(r)>> \o MoveLinks(t, rs)
    BY DEF links, flat, items, moves, MoveLinks, Joined
  <1>20. QED
    BY <1>18, <1>19

\* The clock events are the timeouts of the thread, each once.
LEMMA EventPlaces ==
    ASSUME NEW rs \in Seq(Record), NEW t
    PROVE  LET events == ClockEvents(t, rs)
           IN  /\ \A k \in DOMAIN events : \E n \in TimeoutsOf(rs, t) : events[k] = ClockEvent(n, rs[n])
               /\ \A n \in TimeoutsOf(rs, t) : \E k \in DOMAIN events : events[k] = ClockEvent(n, rs[n])
  <1> DEFINE N == Len(rs)
             timeouts == TimeoutsOf(rs, t)
             R == {ClockEvent(n, rs[n]) : n \in 1..N}
             items == [n \in DOMAIN rs |-> IF n \in timeouts THEN <<ClockEvent(n, rs[n])>> ELSE <<>>]
             events == FlattenSeq(items)
  <1>1. N \in Nat /\ DOMAIN rs = 1..N /\ timeouts \subseteq 1..N
    BY DEF TimeoutsOf
  <1>2. ASSUME NEW n \in 1..N PROVE <<ClockEvent(n, rs[n])>> \in Seq(R)
    <2>1. ClockEvent(n, rs[n]) \in R
      OBVIOUS
    <2> HIDE DEF R
    <2>2. QED
      BY <2>1
  <1> HIDE DEF R, N, timeouts
  <1>3. items \in Seq(Seq(R)) /\ Len(items) = N
    <2>1. items \in [1..N -> Seq(R)]
      BY <1>1, <1>2
    <2> HIDE DEF items
    <2>2. QED
      BY <1>1, <2>1
  <1>4. /\ \A n \in timeouts : Len(items[n]) = 1 /\ items[n][1] = ClockEvent(n, rs[n])
        /\ \A n \in 1..N : n \notin timeouts => items[n] = <<>>
    BY <1>1
  <1> HIDE DEF items
  <1>5. PICK upto : Laid(events, items, upto)
    BY <1>3, FlattenLays
  <1>6. /\ upto \in [0..N -> Nat] /\ upto[0] = 0
        /\ \A n \in 1..N : upto[n] = upto[n - 1] + Len(items[n])
        /\ \A m, n \in 0..N : m <= n => upto[m] <= upto[n]
        /\ DOMAIN events = 1..upto[N]
        /\ \A n \in 1..N : \A j \in 1..Len(items[n]) : events[upto[n - 1] + j] = items[n][j]
    BY <1>3, <1>5 DEF Laid
  <1>7. \A k \in DOMAIN events : \E n \in 1..N : \E j \in 1..Len(items[n]) : k = upto[n - 1] + j
    BY <1>3, <1>5, LaidPlaces
  <1> HIDE DEF events
  <1>8. ASSUME NEW k \in DOMAIN events PROVE \E n \in timeouts : events[k] = ClockEvent(n, rs[n])
    <2>1. PICK n \in 1..N, j \in Nat : j \in 1..Len(items[n]) /\ k = upto[n - 1] + j
      BY <1>7
    <2>2. n \in timeouts
      BY <1>4, <2>1
    <2>3. Len(items[n]) = 1 /\ items[n][1] = ClockEvent(n, rs[n])
      BY <1>4, <2>2
    <2>4. j = 1
      BY <2>1, <2>3
    <2>5. events[k] = items[n][1]
      BY <1>6, <2>1, <2>4
    <2>6. QED
      BY <2>2, <2>3, <2>5
  <1>9. ASSUME NEW n \in timeouts PROVE \E k \in DOMAIN events : events[k] = ClockEvent(n, rs[n])
    <2>1. /\ n \in 1..N /\ n - 1 \in 0..N /\ n \in 0..N /\ N \in 0..N /\ n <= N
          /\ Len(items[n]) = 1 /\ 1 \in 1..Len(items[n])
          /\ items[n][1] = ClockEvent(n, rs[n])
      BY <1>1, <1>4
    <2>2. events[upto[n - 1] + 1] = ClockEvent(n, rs[n])
      BY <1>6, <2>1
    <2>3. upto[n] = upto[n - 1] + 1 /\ upto[n] <= upto[N] /\ upto[n - 1] \in Nat /\ upto[N] \in Nat
      <3>1. upto[n] = upto[n - 1] + Len(items[n]) /\ upto[n] <= upto[N]
        BY <1>6, <2>1
      <3>2. upto[n - 1] \in Nat /\ upto[N] \in Nat
        BY <1>6, <2>1
      <3>3. QED
        BY <2>1, <3>1, <3>2
    <2>4. upto[n - 1] + 1 \in DOMAIN events
      BY <1>6, <2>3
    <2>5. QED
      BY <2>2, <2>4
  <1>10. events = ClockEvents(t, rs)
    BY DEF events, items, timeouts, ClockEvents
  <1>11. QED
    BY <1>8, <1>9, <1>10 DEF timeouts

-----------------------------------------------------------------------------
(* What the records up to a position tell of a thread.                      *)

MovesUpto(rs, n, t) == {m \in EnvelopesOf(rs, t) : m <= n}

\* seq is the number of the thread's envelopes, they carry the numbers up to
\* it in their order, what is pending is one of them, and a cancelled thread
\* ends with its cancel.
Numbered(rs, n, t) ==
    LET s == Then(rs, n, t)
        moves == MovesUpto(rs, n, t)
    IN  /\ IsFiniteSet(moves) /\ s.seq = Cardinality(moves)
        /\ \A m \in moves : rs[m].envelope.seq \in 1..s.seq
        /\ \A q \in 1..s.seq : \E m \in moves : rs[m].envelope.seq = q
        /\ \A l, m \in moves : l < m => rs[l].envelope.seq < rs[m].envelope.seq
        /\ s.pending # None => \E m \in moves : s.pending = rs[m].envelope
        /\ s.state = "cancelled" =>
             \E m \in moves : /\ rs[m].envelope.type = "cancel" /\ rs[m].envelope.seq = s.seq
                             /\ \A l \in moves : l <= m
        /\ s.state # "void" => moves # {}

\* Before the first record there is nothing to tell.
LEMMA NumberedAtFirst ==
    ASSUME NEW rs \in Seq(Record), NEW t \in Threads
    PROVE  Numbered(rs, 0, t)
  <1>1. MovesUpto(rs, 0, t) = {}
    BY DEF MovesUpto, EnvelopesOf, Journaled
  <1>2. Then(rs, 0, t) = VoidSnapshot
    <2>1. SubSeq(rs, 1, 0) = <<>>
      OBVIOUS
    <2>2. Then(rs, 0, t) = EmptyCache.threads[t]
      BY <2>1, ReplayEmpty, Zenon DEF Then
    <2>3. QED
      BY <2>2 DEF EmptyCache
  <1>3. IsFiniteSet({}) /\ Cardinality({}) = 0
    BY FS_EmptySet
  <1> DEFINE s == Then(rs, 0, t)
             moves == MovesUpto(rs, 0, t)
  <1>4. s.seq = 0 /\ s.pending = None /\ s.state = "void"
    BY <1>2 DEF VoidSnapshot
  <1>5. moves = {} /\ 1..s.seq = {}
    BY <1>1, <1>4
  <1> HIDE DEF s, moves
  <1>6. QED
    BY <1>3, <1>4, <1>5 DEF Numbered, s, moves

\* An envelope of the thread takes the next number.
LEMMA NumberedMove ==
    ASSUME NEW rs \in Seq(Record), Replay(rs).ok, NEW t \in Threads, NEW n \in EnvelopesOf(rs, t),
           Numbered(rs, n - 1, t)
    PROVE  Numbered(rs, n, t)
  <1> DEFINE s == Then(rs, n - 1, t)
             e == rs[n].envelope
             x == Then(rs, n, t)
             moves == MovesUpto(rs, n - 1, t)
             longer == MovesUpto(rs, n, t)
  <1>1. n \in DOMAIN rs /\ n \in 1..Len(rs)
    BY DEF EnvelopesOf, Journaled
  <1>2. /\ s \in Snapshot /\ x \in Snapshot /\ e \in Candidates
        /\ TransitionAllowed(e, s) /\ ClockHolds(e, s) /\ x = ApplyEnvelope(s, e)
    BY <1>1, RecordStep
  <1>3. longer = moves \cup {n} /\ n \notin moves /\ \A m \in moves : m < n
    <2>1. \A m \in EnvelopesOf(rs, t) : m \in Nat
      BY DEF EnvelopesOf, Journaled
    <2>2. QED
      BY <1>1, <2>1 DEF MovesUpto
  <1>4. /\ IsFiniteSet(moves) /\ s.seq = Cardinality(moves)
        /\ \A m \in moves : rs[m].envelope.seq \in 1..s.seq
        /\ \A q \in 1..s.seq : \E m \in moves : rs[m].envelope.seq = q
        /\ \A l, m \in moves : l < m => rs[l].envelope.seq < rs[m].envelope.seq
        /\ s.pending # None => \E m \in moves : s.pending = rs[m].envelope
    BY DEF Numbered
  <1>5. \A m \in moves : m \in Nat
    BY DEF MovesUpto, EnvelopesOf, Journaled
  <1> HIDE DEF s, e, x, moves, longer
  <1>6. e \in Envelope /\ e.type \in MoveTypes /\ e.seq \in Nat /\ s.seq \in Nat /\ e # None
    BY <1>2, CandidateFields, EnvelopeFields DEF Snapshot
  <1>7. e.seq = s.seq + 1
    BY <1>2 DEF ClockHolds
  <1>8. /\ x.seq = e.seq
        /\ x.pending \in {None, s.pending, e}
        /\ x.state = "cancelled" => e.type = "cancel"
    <2>1. e.type = "approve" => s.pending # None
      BY <1>2, <1>6, AllowedMoves
    <2>2. StampedBy(x, s, e)
      BY <1>2, <1>6, <2>1, MoveEffect
    <2>3. x.pending \in {None, s.pending, e} /\ (x.state = "cancelled" => e.type = "cancel")
      BY <1>2, <1>6, <2>1, MoveEffect DEF ParkedOrRun, MoveTypes
    <2>4. QED
      BY <2>2, <2>3 DEF StampedBy
  <1>9. IsFiniteSet(longer) /\ x.seq = Cardinality(longer)
    BY <1>3, <1>4, <1>7, <1>8, FS_AddElement
  <1>10. rs[n].envelope = e /\ n \in longer /\ n \in Nat
    BY <1>1, <1>3 DEF e
  <1>11. \A m \in longer : rs[m].envelope.seq \in 1..x.seq
    BY <1>3, <1>4, <1>6, <1>7, <1>8, <1>10
  <1>12. \A q \in 1..x.seq : \E m \in longer : rs[m].envelope.seq = q
    <2> SUFFICES ASSUME NEW q \in 1..x.seq PROVE \E m \in longer : rs[m].envelope.seq = q
      OBVIOUS
    <2>1. CASE q = x.seq
      BY <1>8, <1>10, <2>1
    <2>2. CASE q # x.seq
      <3>1. q \in 1..s.seq
        BY <1>6, <1>7, <1>8, <2>2
      <3>2. QED
        BY <1>3, <1>4, <3>1
    <2>3. QED
      BY <2>1, <2>2
  <1>13. \A l, m \in longer : l < m => rs[l].envelope.seq < rs[m].envelope.seq
    <2> SUFFICES ASSUME NEW l \in longer, NEW m \in longer, l < m
                 PROVE  rs[l].envelope.seq < rs[m].envelope.seq
      OBVIOUS
    <2>1. l \in moves
      BY <1>3, <1>5, <1>10
    <2>2. CASE m = n
      BY <1>4, <1>6, <1>7, <1>10, <2>1, <2>2
    <2>3. CASE m # n
      BY <1>3, <1>4, <2>1, <2>3
    <2>4. QED
      BY <2>2, <2>3
  <1>14. x.pending # None => \E m \in longer : x.pending = rs[m].envelope
    BY <1>3, <1>4, <1>8, <1>10
  <1>15. x.state = "cancelled" =>
           \E m \in longer : /\ rs[m].envelope.type = "cancel" /\ rs[m].envelope.seq = x.seq
                            /\ \A l \in longer : l <= m
    <2>1. \A l \in longer : l <= n
      BY <1>3, <1>5, <1>10
    <2>2. QED
      BY <1>8, <1>10, <2>1
  <1>16. QED
    BY <1>9, <1>10, <1>11, <1>12, <1>13, <1>14, <1>15 DEF Numbered, x, longer

\* Any other record leaves the numbers alone.
LEMMA NumberedOther ==
    ASSUME NEW rs \in Seq(Record), Replay(rs).ok, NEW t \in Threads, NEW n \in DOMAIN rs,
           n \notin EnvelopesOf(rs, t), Numbered(rs, n - 1, t)
    PROVE  Numbered(rs, n, t)
  <1> DEFINE s == Then(rs, n - 1, t)
             x == Then(rs, n, t)
  <1>1. n \in 1..Len(rs)
    OBVIOUS
  <1>2. MovesUpto(rs, n, t) = MovesUpto(rs, n - 1, t)
    <2>1. \A m \in EnvelopesOf(rs, t) : m \in Nat /\ m # n
      BY DEF EnvelopesOf, Journaled
    <2>2. QED
      BY <1>1, <2>1 DEF MovesUpto
  <1>3. x.seq = s.seq /\ x.pending = s.pending /\ (x.state = s.state \/ (x.state = "paused" /\ s.state # "void"))
    <2>1. s \in Snapshot /\ n \in DOMAIN rs
      BY RecordStep
    <2>2. CASE rs[n].kind = "timeout" /\ rs[n].thread = t
      <3>1. TimeoutDue(s, rs[n].now) /\ rs[n].now \in Nat /\ x = ApplyTimeout(s, rs[n].now)
        BY <2>2, RecordStep
      <3> HIDE DEF s, x
      <3>2. QED
        BY <2>1, <3>1, TimeoutEffect DEF TimeoutDue
    <2>3. CASE ~(rs[n].kind = "timeout" /\ rs[n].thread = t)
      <3>1. x = s
        BY <2>3, RecordStep
      <3> HIDE DEF s, x
      <3>2. QED
        BY <3>1
    <2>4. QED
      BY <2>2, <2>3
  <1> HIDE DEF s, x
  <1>4. QED
    BY <1>2, <1>3 DEF Numbered, s, x

\* So it is at every position of a journal that replays.
LEMMA AlwaysNumbered ==
    ASSUME NEW rs \in Seq(Record), Replay(rs).ok, NEW t \in Threads, NEW n \in 0..Len(rs)
    PROVE  Numbered(rs, n, t)
  <1> DEFINE S == {k \in Nat : k <= Len(rs) => Numbered(rs, k, t)}
  <1>1. 0 \in S
    BY NumberedAtFirst
  <1>2. ASSUME NEW k \in S PROVE k + 1 \in S
    <2>1. SUFFICES ASSUME k + 1 <= Len(rs) PROVE Numbered(rs, k + 1, t)
      OBVIOUS
    <2>2. k + 1 \in DOMAIN rs /\ k + 1 - 1 = k /\ Numbered(rs, k, t)
      BY <2>1
    <2>3. CASE k + 1 \in EnvelopesOf(rs, t)
      BY <2>2, <2>3, NumberedMove
    <2>4. CASE k + 1 \notin EnvelopesOf(rs, t)
      BY <2>2, <2>4, NumberedOther
    <2>5. QED
      BY <2>3, <2>4
  <1>3. S \in SUBSET Nat /\ n \in Nat /\ n <= Len(rs)
    OBVIOUS
  <1>4. n \in S
    <2> HIDE DEF S
    <2>1. QED
      BY <1>1, <1>2, <1>3, NumberInduction
  <1>5. QED
    BY <1>3, <1>4

\* The whole journal is the last position.
LEMMA ThenLast ==
    ASSUME NEW rs \in Seq(Record), NEW t
    PROVE  Then(rs, Len(rs), t) = Replay(rs).threads[t] /\ Len(rs) \in 0..Len(rs)
  <1>1. SubSeq(rs, 1, Len(rs)) = rs /\ Len(rs) \in 0..Len(rs)
    BY WholePrefix
  <1>2. QED
    BY <1>1, Zenon DEF Then

\* A thread stays as its last record left it.
LEMMA LeftAlone ==
    ASSUME NEW rs \in Seq(Record), Replay(rs).ok, NEW t \in Threads,
           NEW j \in 0..Len(rs),
           \A n \in EnvelopesOf(rs, t) \cup TimeoutsOf(rs, t) : n <= j
    PROVE  Then(rs, Len(rs), t) = Then(rs, j, t)
  <1> DEFINE S == {k \in Nat : j <= k /\ k <= Len(rs) => Then(rs, k, t) = Then(rs, j, t)}
  <1>1. 0 \in S
    OBVIOUS
  <1>2. ASSUME NEW k \in S PROVE k + 1 \in S
    <2>1. SUFFICES ASSUME j <= k + 1, k + 1 <= Len(rs) PROVE Then(rs, k + 1, t) = Then(rs, j, t)
      OBVIOUS
    <2>2. CASE j = k + 1
      BY <2>2
    <2>3. CASE j # k + 1
      <3>1. k + 1 \in DOMAIN rs /\ k + 1 - 1 = k /\ k + 1 > j /\ Then(rs, k, t) = Then(rs, j, t)
        BY <2>1, <2>3
      <3>2. k + 1 \notin EnvelopesOf(rs, t) /\ ~(rs[k + 1].kind = "timeout" /\ rs[k + 1].thread = t)
        BY <3>1 DEF TimeoutsOf
      <3>3. Then(rs, k + 1, t) = Then(rs, k, t)
        BY <3>1, <3>2, RecordStep
      <3>4. QED
        BY <3>1, <3>3
    <2>4. QED
      BY <2>2, <2>3
  <1>3. S \in SUBSET Nat /\ Len(rs) \in Nat /\ j <= Len(rs)
    OBVIOUS
  <1>4. Len(rs) \in S
    <2> HIDE DEF S
    <2>1. QED
      BY <1>1, <1>2, <1>3, NumberInduction
  <1>5. QED
    BY <1>3, <1>4

-----------------------------------------------------------------------------
(* The transcript.                                                          *)

\* The move links are the places of the moves, the approval links those after
\* the approvals.
LEMMA LinkedPlaces ==
    ASSUME NEW x, NEW rs \in Seq(Record), NEW t, NEW place, Shows(x.links, rs, t, place)
    PROVE  /\ \A n \in EnvelopesOf(rs, t) : place[n] \in Linked(x, "move")
           /\ \A k \in Linked(x, "move") : \E n \in EnvelopesOf(rs, t) : k = place[n]
           /\ \A k \in Linked(x, "approval") :
                \E n \in EnvelopesOf(rs, t) : rs[n].envelope.type = "approve" /\ k = place[n] + 1
  <1> DEFINE moves == EnvelopesOf(rs, t)
  <1>1. \A r : MoveLink(r).role = "move" /\ ApprovalLink(r).role = "approval"
    BY DEF MoveLink, ApprovalLink
  <1>2. \A n \in moves : place[n] \in DOMAIN x.links /\ x.links[place[n]].role = "move"
    BY <1>1 DEF Shows
  <1>3. \A n \in moves : rs[n].envelope.type = "approve" => x.links[place[n] + 1].role = "approval"
    BY <1>1 DEF Shows
  <1>4. \A k \in DOMAIN x.links :
          \/ x.links[k].role = "request"
          \/ \E n \in moves : \/ k = place[n]
                              \/ (rs[n].envelope.type = "approve" /\ k = place[n] + 1)
    BY DEF Shows
  <1> HIDE DEF moves
  <1>5. \A n \in moves : place[n] \in Linked(x, "move")
    BY <1>2 DEF Linked
  <1>6. ASSUME NEW k \in Linked(x, "move") PROVE \E n \in moves : k = place[n]
    BY <1>3, <1>4 DEF Linked
  <1>7. ASSUME NEW k \in Linked(x, "approval")
        PROVE  \E n \in moves : rs[n].envelope.type = "approve" /\ k = place[n] + 1
    BY <1>2, <1>4 DEF Linked
  <1>8. QED
    BY <1>5, <1>6, <1>7 DEF moves

\* The prefix of a journal that a transcript covers: everything of the thread.
LEMMA Covered ==
    ASSUME NEW rs \in Seq(Record), Replay(rs).ok, NEW t \in Threads,
           Replay(rs).threads[t].state # "void"
    PROVE  LET j == Max(EnvelopesOf(rs, t) \cup TimeoutsOf(rs, t))
               prefix == SubSeq(rs, 1, j)
           IN  /\ j \in 1..Len(rs)
               /\ Replay(prefix).threads[t] = Replay(rs).threads[t]
               /\ EnvelopesOf(prefix, t) = EnvelopesOf(rs, t)
               /\ TimeoutsOf(prefix, t) = TimeoutsOf(rs, t)
               /\ \A n \in EnvelopesOf(rs, t) : prefix[n] = rs[n]
  <1> DEFINE own == EnvelopesOf(rs, t) \cup TimeoutsOf(rs, t)
             j == Max(own)
             prefix == SubSeq(rs, 1, j)
  <1>1. Then(rs, Len(rs), t) = Replay(rs).threads[t] /\ Len(rs) \in 0..Len(rs)
    BY ThenLast
  <1>2. EnvelopesOf(rs, t) # {}
    <2>1. MovesUpto(rs, Len(rs), t) # {}
      BY <1>1, AlwaysNumbered DEF Numbered
    <2>2. QED
      BY <2>1 DEF MovesUpto
  <1>3. own \in SUBSET (1..Len(rs)) /\ own # {} /\ Len(rs) \in Nat
    BY <1>2 DEF EnvelopesOf, Journaled, TimeoutsOf
  <1>4. j \in own /\ \A n \in own : n <= j
    <2> HIDE DEF own
    <2>1. QED
      BY <1>3, LastOf
  <1>5. j \in 1..Len(rs) /\ j \in 0..Len(rs)
    BY <1>3, <1>4
  <1>6. Then(rs, Len(rs), t) = Then(rs, j, t)
    <2> HIDE DEF j
    <2>1. QED
      BY <1>4, <1>5, LeftAlone
  <1> HIDE DEF j
  <1>7. DOMAIN prefix = 1..j /\ \A n \in 1..j : prefix[n] = rs[n]
    BY <1>5
  <1>8. DOMAIN rs = 1..Len(rs) /\ \A n \in own : n \in 1..j
    BY <1>3, <1>4, <1>5
  <1> HIDE DEF prefix
  <1>9. /\ EnvelopesOf(prefix, t) = EnvelopesOf(rs, t)
        /\ TimeoutsOf(prefix, t) = TimeoutsOf(rs, t)
        /\ \A n \in EnvelopesOf(rs, t) : prefix[n] = rs[n]
    BY <1>5, <1>7, <1>8 DEF EnvelopesOf, Journaled, TimeoutsOf
  <1>10. Replay(prefix).threads[t] = Replay(rs).threads[t]
    BY <1>1, <1>6, Zenon DEF Then, prefix
  <1>11. QED
    BY <1>5, <1>9, <1>10, Zenon DEF own, j, prefix

\* The cancel that a transcript names.
LEMMA StopNamed ==
    ASSUME NEW rs \in Seq(Record), Replay(rs).ok, NEW t \in Threads
    PROVE  LET s == Replay(rs).threads[t]
               moves == EnvelopesOf(rs, t)
               stop == StopOf(s, rs, moves)
           IN  /\ stop # None <=> s.state = "cancelled"
               /\ stop # None => \E n \in moves : rs[n].envelope.id = stop /\ rs[n].envelope.seq = s.seq
  <1> DEFINE s == Replay(rs).threads[t]
             moves == EnvelopesOf(rs, t)
             cancels == {n \in moves : rs[n].envelope.type = "cancel"}
             stop == StopOf(s, rs, moves)
  <1>1. CASE s.state # "cancelled"
    BY <1>1 DEF StopOf
  <1>2. CASE s.state = "cancelled"
    <2>1. Then(rs, Len(rs), t) = s /\ Len(rs) \in 0..Len(rs)
      BY ThenLast
    <2>2. MovesUpto(rs, Len(rs), t) = moves
      BY DEF MovesUpto, EnvelopesOf, Journaled
    <2>3. PICK m \in moves : /\ rs[m].envelope.type = "cancel" /\ rs[m].envelope.seq = s.seq
                             /\ \A l \in moves : l <= m
      BY <1>2, <2>1, <2>2, AlwaysNumbered DEF Numbered
    <2>4. cancels \in SUBSET (1..Len(rs)) /\ m \in cancels /\ Len(rs) \in Nat
      BY <2>3 DEF EnvelopesOf, Journaled
    <2>5. Max(cancels) \in cancels /\ m <= Max(cancels)
      <3> HIDE DEF cancels
      <3>1. QED
        BY <2>4, LastOf
    <2>6. Max(cancels) = m
      BY <2>3, <2>4, <2>5
    <2>7. stop = rs[m].envelope.id
      BY <1>2, <2>6 DEF StopOf
    <2>8. rs[m].envelope.id # None
      <3>1. rs[m] \in Record /\ rs[m].kind = "envelope"
        BY DEF EnvelopesOf, Journaled
      <3>2. rs[m].envelope \in Candidates
        BY <3>1 DEF Record
      <3>3. QED
        BY <3>2, CandidateFields, NoneAssumption
    <2> HIDE DEF s, moves, stop
    <2>9. QED
      BY <1>2, <2>3, <2>7, <2>8 DEF s, moves, stop
  <1>3. QED
    BY <1>1, <1>2

\* An approval answers the gate of an earlier envelope, whose approver signs it.
LEMMA ApprovalAnswers ==
    ASSUME NEW rs \in Seq(Record), Replay(rs).ok, NEW t \in Threads,
           NEW n \in EnvelopesOf(rs, t), rs[n].envelope.type = "approve"
    PROVE  \E m \in EnvelopesOf(rs, t) :
             /\ m < n /\ rs[m].envelope.id = rs[n].envelope.of
             /\ rs[m].envelope.approver = rs[n].envelope.signer
  <1> DEFINE s == Then(rs, n - 1, t)
             e == rs[n].envelope
  <1>1. n \in DOMAIN rs /\ n \in 1..Len(rs) /\ n - 1 \in 0..Len(rs)
    BY DEF EnvelopesOf, Journaled
  <1>2. s \in Snapshot /\ e \in Candidates /\ TransitionAllowed(e, s)
    BY <1>1, RecordStep
  <1>3. s.pending # None /\ e.signer = s.pending.approver /\ e.of = s.pending.id
    <2> HIDE DEF s, e
    <2>1. e \in Envelope
      BY <1>2, CandidateFields
    <2>2. QED
      BY <1>2, <2>1, AllowedMoves DEF e
  <1>4. PICK m \in MovesUpto(rs, n - 1, t) : s.pending = rs[m].envelope
    BY <1>1, <1>3, AlwaysNumbered DEF Numbered
  <1>5. m \in EnvelopesOf(rs, t) /\ m < n
    BY <1>1 DEF MovesUpto, EnvelopesOf, Journaled
  <1>6. QED
    BY <1>3, <1>4, <1>5

\* A clock event tells after how many of the thread's envelopes it fell, and
\* lies past the deadline.
LEMMA EventTells ==
    ASSUME NEW rs \in Seq(Record), Replay(rs).ok, NEW t \in Threads, NEW n \in TimeoutsOf(rs, t)
    PROVE  LET event == ClockEvent(n, rs[n])
           IN  /\ event.position = n
               /\ event.afterSeq = Cardinality({m \in EnvelopesOf(rs, t) : m < n})
               /\ event.now > event.deadline
  <1> DEFINE s == Then(rs, n - 1, t)
  <1>1. n \in DOMAIN rs /\ n \in 1..Len(rs) /\ n - 1 \in 0..Len(rs)
    BY DEF TimeoutsOf
  <1>2. rs[n].afterSeq = s.seq /\ rs[n].deadline = s.deadline /\ TimeoutDue(s, rs[n].now)
    BY <1>1, RecordStep DEF TimeoutsOf
  <1>3. MovesUpto(rs, n - 1, t) = {m \in EnvelopesOf(rs, t) : m < n}
    <2>1. \A m \in EnvelopesOf(rs, t) : m \in Nat
      BY DEF EnvelopesOf, Journaled
    <2>2. QED
      BY <1>1, <2>1 DEF MovesUpto
  <1>4. s.seq = Cardinality(MovesUpto(rs, n - 1, t))
    BY <1>1, AlwaysNumbered DEF Numbered
  <1> HIDE DEF s
  <1>5. QED
    BY <1>2, <1>3, <1>4 DEF ClockEvent, TimeoutDue

\* A transcript made from the fold of a journal tells it, and tells every journal
\* that goes on from there.
LEMMA Tells ==
    ASSUME NEW rs \in Seq(Record), Replay(rs).ok, NEW t \in Threads,
           NEW qs, \A k \in 1..Len(rs) : SubSeq(qs, 1, k) = SubSeq(rs, 1, k),
           Replay(rs).threads[t].state # "void"
    PROVE  TellsJournal(TranscriptOf(t, Replay(rs).threads[t], rs), qs)
  <1> DEFINE s == Replay(rs).threads[t]
             moves == EnvelopesOf(rs, t)
             timeouts == TimeoutsOf(rs, t)
             j == Max(moves \cup timeouts)
             x == TranscriptOf(t, s, rs)
             prefix == SubSeq(qs, 1, x.journalThrough)
             asked == Linked(x, "move")
  <1>1. /\ x.thread = t /\ x.seqThrough = s.seq /\ x.journalThrough = j
        /\ x.now = s.now /\ x.state = s.state /\ x.floor = s.floor /\ x.principal = s.principal
        /\ x.pending = PendingId(s) /\ x.stop = StopOf(s, rs, moves)
        /\ x.clockEvents = ClockEvents(t, rs)
        /\ x.links = <<RequestLink(rs[Min(moves)])>> \o MoveLinks(t, rs)
    BY DEF TranscriptOf
  <1>2. /\ j \in 1..Len(rs)
        /\ Replay(SubSeq(rs, 1, j)).threads[t] = s
        /\ EnvelopesOf(SubSeq(rs, 1, j), t) = moves
        /\ TimeoutsOf(SubSeq(rs, 1, j), t) = timeouts
        /\ \A n \in moves : SubSeq(rs, 1, j)[n] = rs[n]
    BY Covered
  <1>3. PICK place : Shows(x.links, rs, t, place)
    <2> HIDE DEF x, moves
    <2>1. \E place : Shows(<<RequestLink(rs[Min(moves)])>> \o MoveLinks(t, rs), rs, t, place)
      BY LinkPlaces
    <2>2. QED
      BY <1>1, <2>1
  <1> HIDE DEF x, j
  <1>4. prefix = SubSeq(rs, 1, j)
    BY <1>1, <1>2
  <1> HIDE DEF prefix
  <1>5. /\ Replay(prefix).threads[x.thread] = s
        /\ EnvelopesOf(prefix, x.thread) = moves
        /\ TimeoutsOf(prefix, x.thread) = timeouts
        /\ \A n \in moves : prefix[n] = rs[n]
    BY <1>1, <1>2, <1>4
  <1>6. Numbered(rs, Len(rs), t) /\ Then(rs, Len(rs), t) = s /\ MovesUpto(rs, Len(rs), t) = moves
    BY ThenLast, AlwaysNumbered DEF MovesUpto, EnvelopesOf, Journaled
  <1>7. /\ \A m \in moves : rs[m].envelope.seq \in 1..s.seq
        /\ \A q \in 1..s.seq : \E m \in moves : rs[m].envelope.seq = q
        /\ \A l, m \in moves : l < m => rs[l].envelope.seq < rs[m].envelope.seq
    BY <1>6 DEF Numbered
  <1>8. \A n \in moves : n \in Nat
    BY DEF EnvelopesOf, Journaled
  <1>9. /\ \A n \in moves : place[n] \in asked
        /\ \A k \in asked : \E n \in moves : k = place[n]
        /\ \A k \in Linked(x, "approval") : \E n \in moves : rs[n].envelope.type = "approve" /\ k = place[n] + 1
    BY <1>3, LinkedPlaces
  <1>10. /\ \A n \in moves : place[n] \in Nat
         /\ \A m, n \in moves : m < n => place[m] < place[n]
    BY <1>3 DEF Shows
  <1>11. ASSUME NEW n \in moves
         PROVE  /\ x.links[place[n]].envelope = rs[n].envelope.id
                /\ x.links[place[n]].seq = rs[n].envelope.seq
                /\ x.links[place[n]].auth = rs[n].auth
    <2>1. x.links[place[n]] = MoveLink(rs[n])
      BY <1>3 DEF Shows
    <2>2. QED
      BY <2>1 DEF MoveLink
  <1>12. ASSUME NEW n \in moves, rs[n].envelope.type = "approve"
         PROVE  /\ x.links[place[n] + 1].of = rs[n].envelope.of
                /\ x.links[place[n] + 1].approver = rs[n].envelope.signer
                /\ x.links[place[n] + 1].envelope = rs[n].envelope.id
    <2>1. x.links[place[n] + 1] = ApprovalLink(rs[n])
      BY <1>3, <1>12 DEF Shows
    <2>2. QED
      BY <2>1 DEF ApprovalLink
  <1>13. ASSUME NEW m \in moves, NEW n \in moves, rs[m].envelope.approver = rs[n].envelope.signer, m < n,
                rs[m].envelope.id = rs[n].envelope.of, rs[n].envelope.type = "approve", NEW k, k = place[n] + 1
         PROVE  Answers(x, k, prefix[m].envelope)
    <2>1. prefix[m] = rs[m] /\ place[m] \in asked /\ place[n] \in asked
      BY <1>5, <1>9
    <2>2. place[m] < place[n] /\ place[n] < k
      BY <1>10, <1>13
    <2>3. /\ x.links[k].of = rs[n].envelope.of /\ x.links[k].approver = rs[n].envelope.signer
          /\ x.links[k].envelope = x.links[place[n]].envelope
          /\ x.links[place[m]].envelope = rs[m].envelope.id
      BY <1>11, <1>12, <1>13
    <2>4. QED
      BY <1>13, <2>1, <2>2, <2>3 DEF Answers, asked
  <1>14. /\ \A k \in DOMAIN x.clockEvents : \E n \in timeouts : x.clockEvents[k] = ClockEvent(n, rs[n])
         /\ \A n \in timeouts : \E k \in DOMAIN x.clockEvents : x.clockEvents[k] = ClockEvent(n, rs[n])
    BY <1>1, EventPlaces
  <1>15. ASSUME NEW n \in timeouts
         PROVE  /\ ClockEvent(n, rs[n]).position = n
                /\ ClockEvent(n, rs[n]).afterSeq = Cardinality({m \in moves : m < n})
                /\ ClockEvent(n, rs[n]).now > ClockEvent(n, rs[n]).deadline
    BY EventTells
  <1>16. /\ x.stop # None <=> s.state = "cancelled"
         /\ x.stop # None => \E n \in moves : rs[n].envelope.id = x.stop /\ rs[n].envelope.seq = s.seq
    BY <1>1, StopNamed
  <1>17. \A n \in moves : \E m \in moves : rs[n].envelope.type = "approve" =>
           /\ m < n /\ rs[m].envelope.id = rs[n].envelope.of
           /\ rs[m].envelope.approver = rs[n].envelope.signer
    BY ApprovalAnswers
  <1> HIDE DEF s, moves, timeouts, asked
  <1>18. ShowsSnapshot(x, s)
    BY <1>1 DEF ShowsSnapshot
  <1>19. ShowsMoves(x, prefix, moves)
    <2>1. \A i, k \in asked : i < k => x.links[i].seq < x.links[k].seq
      <3> SUFFICES ASSUME NEW i \in asked, NEW k \in asked, i < k PROVE x.links[i].seq < x.links[k].seq
        OBVIOUS
      <3>1. PICK m \in moves : i = place[m]
        BY <1>9
      <3>2. PICK n \in moves : k = place[n]
        BY <1>9
      <3>3. m < n
        BY <1>8, <1>10, <3>1, <3>2
      <3>4. QED
        BY <1>7, <1>11, <3>1, <3>2, <3>3
    <2>2. {x.links[k].seq : k \in asked} = 1..x.seqThrough
      <3>1. ASSUME NEW k \in asked PROVE x.links[k].seq \in 1..s.seq
        BY <1>7, <1>9, <1>11
      <3>2. ASSUME NEW q \in 1..s.seq PROVE \E k \in asked : x.links[k].seq = q
        BY <1>7, <1>9, <1>11
      <3>3. QED
        BY <1>1, <3>1, <3>2
    <2>3. {<<x.links[k].envelope, x.links[k].seq, x.links[k].auth>> : k \in asked} =
            {<<prefix[n].envelope.id, prefix[n].envelope.seq, prefix[n].auth>> : n \in moves}
      <3>1. ASSUME NEW k \in asked
            PROVE  \E n \in moves : <<x.links[k].envelope, x.links[k].seq, x.links[k].auth>> =
                                     <<prefix[n].envelope.id, prefix[n].envelope.seq, prefix[n].auth>>
        BY <1>5, <1>9, <1>11
      <3>2. ASSUME NEW n \in moves
            PROVE  \E k \in asked : <<x.links[k].envelope, x.links[k].seq, x.links[k].auth>> =
                                     <<prefix[n].envelope.id, prefix[n].envelope.seq, prefix[n].auth>>
        BY <1>5, <1>9, <1>11
      <3>3. QED
        BY <3>1, <3>2
    <2>4. QED
      BY <2>1, <2>2, <2>3 DEF ShowsMoves, asked
  <1>20. ShowsApprovals(x, prefix, moves)
    <2> SUFFICES ASSUME NEW k \in Linked(x, "approval")
                 PROVE  \E n \in moves : Answers(x, k, prefix[n].envelope)
      BY DEF ShowsApprovals
    <2>1. PICK n \in moves : rs[n].envelope.type = "approve" /\ k = place[n] + 1
      BY <1>9
    <2>2. PICK m \in moves : /\ m < n /\ rs[m].envelope.id = rs[n].envelope.of
                             /\ rs[m].envelope.approver = rs[n].envelope.signer
      BY <1>17, <2>1
    <2>3. QED
      BY <1>13, <2>1, <2>2
  <1>21. ShowsTimeouts(x, moves, timeouts)
    <2> DEFINE events == x.clockEvents
    <2>1. ASSUME NEW k \in DOMAIN events
          PROVE  /\ events[k].position \in timeouts
                 /\ events[k].afterSeq = Cardinality({n \in moves : n < events[k].position})
                 /\ events[k].now > events[k].deadline
      <3>1. PICK m \in timeouts : events[k] = ClockEvent(m, rs[m])
        BY <1>14
      <3>2. /\ ClockEvent(m, rs[m]).position = m
            /\ ClockEvent(m, rs[m]).afterSeq = Cardinality({n \in moves : n < m})
            /\ ClockEvent(m, rs[m]).now > ClockEvent(m, rs[m]).deadline
        BY <1>15
      <3> HIDE DEF events
      <3>3. QED
        BY <3>1, <3>2
    <2>2. ASSUME NEW n \in timeouts PROVE \E k \in DOMAIN events : events[k].position = n
      <3>1. PICK k \in DOMAIN events : events[k] = ClockEvent(n, rs[n])
        BY <1>14
      <3>2. QED
        BY <1>15, <3>1
    <2>3. {events[k].position : k \in DOMAIN events} = timeouts
      BY <2>1, <2>2
    <2>4. QED
      BY <2>1, <2>3 DEF ShowsTimeouts
  <1>22. ShowsStop(x, s)
    <2>1. x.stop # None =>
            \E k \in asked : x.links[k].envelope = x.stop /\ x.links[k].seq = x.seqThrough
      BY <1>1, <1>9, <1>11, <1>16
    <2>2. QED
      BY <1>16, <2>1 DEF ShowsStop, asked
  <1>23. /\ moves = EnvelopesOf(prefix, x.thread) /\ timeouts = TimeoutsOf(prefix, x.thread)
         /\ s = Replay(prefix).threads[x.thread]
    BY <1>5
  <1> HIDE DEF prefix
  <1>24. /\ ShowsSnapshot(x, Replay(prefix).threads[x.thread])
         /\ ShowsMoves(x, prefix, EnvelopesOf(prefix, x.thread))
         /\ ShowsApprovals(x, prefix, EnvelopesOf(prefix, x.thread))
         /\ ShowsTimeouts(x, EnvelopesOf(prefix, x.thread), TimeoutsOf(prefix, x.thread))
         /\ ShowsStop(x, Replay(prefix).threads[x.thread])
    BY ONLY <1>18, <1>19, <1>20, <1>21, <1>22, <1>23
  <1>25. TellsJournal(x, qs)
    BY <1>24, Zenon DEF TellsJournal, prefix
  <1>26. QED
    BY <1>25, Zenon DEF x, s

\* What a view exports between its calls is the transcript of a journal that
\* the store's journal goes on from, of an earlier one if the view is behind.
THEOREM TranscriptStaysFaithful ==
    ASSUME RebuildsAlone PROVE Spec => []TranscriptFaithful
  <1>1. IInv /\ JInv => TranscriptFaithful
    <2> SUFFICES ASSUME IInv, JInv, NEW v \in Views, NEW t \in Threads, Exportable(v, t)
                 PROVE  TellsJournal(Export(v, t), records)
      BY DEF TranscriptFaithful
    <2> DEFINE rs == SubSeq(records, 1, known[v])
    <2>1. /\ records \in Seq(Record) /\ known[v] \in 0..Len(records)
          /\ cache[v] = Replay(rs) /\ cache[v].ok
      BY DEF IInv, Typed, ViewSound, JInv, ViewFolds, Observed
    <2>2. rs \in Seq(Record) /\ \A k \in 1..Len(rs) : SubSeq(records, 1, k) = SubSeq(rs, 1, k)
      BY <2>1
    <2>3. Replay(rs).threads[t].state # "void"
      BY <2>1 DEF Exportable
    <2>4. Export(v, t) = TranscriptOf(t, Replay(rs).threads[t], rs)
      BY <2>1 DEF Export, Shown
    <2> HIDE DEF rs
    <2>5. QED
      BY <2>1, <2>2, <2>3, <2>4, Tells
  <1>2. QED
    BY <1>1, FoldHolds, PTL
====
