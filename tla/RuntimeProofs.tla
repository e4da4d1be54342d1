---------------------------- MODULE RuntimeProofs ----------------------------
(***************************************************************************)
(* Proofs about Runtime that ask nothing of its constants: whatever PCP     *)
(* answers, however views are opened, deposed or lost, and even while a     *)
(* rebuild races an append, the state is well typed and only the current    *)
(* lease appends.                                                          *)
(*                                                                         *)
(* First come facts about Replay, the fold that _rebuild makes of a journal: *)
(* what it is for the empty journal, and what one more record does to it.   *)
(* Replay is a recursive function of the position, so the two facts need    *)
(* the function to exist and to be unique, and both come from induction     *)
(* over positions.  The library's induction theorems take an operator;      *)
(* NumberInduction (MovesProofs) speaks of a set of numbers.                *)
(*                                                                         *)
(* The inductive invariant adds to the types what a running call has        *)
(* checked of its own view (CallSound) and which acknowledgements a view    *)
(* holds (BooksSound): the code indexes them untested.                      *)
(***************************************************************************)
EXTENDS Runtime, MovesProofs, FiniteSetTheorems, TLAPS

-----------------------------------------------------------------------------
(* The recursive function of Replay.                                        *)

\* after is the function of Replay on the first k records.
Folds(after, rs, k) ==
    after = [n \in 0..k |-> IF n = 0 THEN EmptyCache ELSE Absorb(after[n - 1], rs[n])]

\* The fold has a value at every length. The lengths that have one contain 0 and
\* are closed under successor.
LEMMA FoldExists ==
    ASSUME NEW rs, NEW k \in Nat
    PROVE  \E after : Folds(after, rs, k)
  <1> DEFINE S == {n \in Nat : \E after : Folds(after, rs, n)}
  <1>1. 0 \in S
    <2> DEFINE none == [n \in 0..0 |-> EmptyCache]
    <2>1. Folds(none, rs, 0)
      BY DEF Folds
    <2>2. QED
      BY <2>1
  <1>2. ASSUME NEW n \in S PROVE n + 1 \in S
    <2>1. PICK after : Folds(after, rs, n)
      OBVIOUS
    <2> DEFINE longer == [m \in 0..(n + 1) |->
                            IF m = n + 1 THEN Absorb(after[n], rs[n + 1]) ELSE after[m]]
    <2>2. Folds(longer, rs, n + 1)
      BY <2>1, n \in Nat DEF Folds
    <2>3. QED
      BY <2>2
  <1>3. S \in SUBSET Nat
    OBVIOUS
  <1>4. k \in S
    <2> HIDE DEF S
    <2>1. QED
      BY <1>1, <1>2, <1>3, NumberInduction
  <1>5. QED
    BY <1>4

\* Two such functions agree as far as their records do.
LEMMA FoldUnique ==
    ASSUME NEW rs, NEW qs, NEW k \in Nat, NEW l \in Nat, k <= l,
           \A n \in 1..k : rs[n] = qs[n],
           NEW f, Folds(f, rs, k), NEW g, Folds(g, qs, l)
    PROVE  f[k] = g[k]
  <1> DEFINE S == {n \in Nat : n <= k => f[n] = g[n]}
  <1>1. 0 \in S
    BY DEF Folds
  <1>2. ASSUME NEW n \in S PROVE n + 1 \in S
    <2>1. SUFFICES ASSUME n + 1 <= k PROVE f[n + 1] = g[n + 1]
      OBVIOUS
    <2>2. f[n] = g[n]
      BY <2>1
    <2>3. f[n + 1] = Absorb(f[n], rs[n + 1])
      BY <2>1 DEF Folds
    <2>4. g[n + 1] = Absorb(g[n], qs[n + 1])
      BY <2>1 DEF Folds
    <2>5. QED
      BY <2>1, <2>2, <2>3, <2>4
  <1>3. S \in SUBSET Nat
    OBVIOUS
  <1>4. k \in S
    <2> HIDE DEF S
    <2>1. QED
      BY <1>1, <1>2, <1>3, NumberInduction
  <1>5. QED
    BY <1>4

\* Replay is the last member of such a fold.
LEMMA ReplayFolds ==
    ASSUME NEW rs, Len(rs) \in Nat
    PROVE  \E after : Folds(after, rs, Len(rs)) /\ Replay(rs) = after[Len(rs)]
  <1> DEFINE h == CHOOSE after : after = [n \in 0..Len(rs) |->
                     IF n = 0 THEN EmptyCache ELSE Absorb(after[n - 1], rs[n])]
  <1>1. Folds(h, rs, Len(rs))
    BY FoldExists DEF Folds
  <1>2. Replay(rs) = h[Len(rs)]
    BY DEF Replay
  <1>3. QED
    BY <1>1, <1>2

-----------------------------------------------------------------------------
(* What Replay computes.                                                    *)

\* A Runtime over an empty journal knows nothing.
LEMMA ReplayEmpty == Replay(<<>>) = EmptyCache
  BY ReplayFolds DEF Folds

\* One more record is absorbed by what the earlier ones left.
LEMMA ReplayAppend ==
    ASSUME NEW R, NEW rs \in Seq(R), NEW r \in R
    PROVE  Replay(Append(rs, r)) = Absorb(Replay(rs), r)
  <1> DEFINE qs == Append(rs, r)
             n == Len(rs)
  <1>1. /\ n \in Nat /\ Len(qs) = n + 1 /\ qs[n + 1] = r
        /\ \A m \in 1..n : rs[m] = qs[m]
    OBVIOUS
  <1> HIDE DEF qs, n
  <1>2. PICK f : Folds(f, rs, n) /\ Replay(rs) = f[n]
    BY <1>1, ReplayFolds DEF n
  <1>3. PICK g : Folds(g, qs, n + 1) /\ Replay(qs) = g[n + 1]
    BY <1>1, ReplayFolds
  <1>4. f[n] = g[n]
    <2>1. n \in Nat /\ n + 1 \in Nat /\ n <= n + 1
      BY <1>1
    <2>2. QED
      BY <1>1, <1>2, <1>3, <2>1, FoldUnique
  <1>5. g[n + 1] = Absorb(g[n], qs[n + 1])
    BY <1>1, <1>3 DEF Folds
  <1>6. QED
    BY <1>1, <1>2, <1>3, <1>4, <1>5 DEF qs

\* An append leaves the earlier prefixes as they are, and the whole journal is
\* one of them.
LEMMA PrefixKept ==
    ASSUME NEW R, NEW rs \in Seq(R), NEW r \in R, NEW k \in 0..Len(rs)
    PROVE  SubSeq(Append(rs, r), 1, k) = SubSeq(rs, 1, k)
  OBVIOUS

\* The prefix of full length is the sequence itself.
LEMMA WholePrefix ==
    ASSUME NEW R, NEW rs \in Seq(R)
    PROVE  SubSeq(rs, 1, Len(rs)) = rs
  OBVIOUS
-----------------------------------------------------------------------------
(* The types of records and of what a view keeps in memory.                 *)

Record ==
    [kind : {"envelope"}, epoch : 1..MaxEpoch, envelope : Candidates, auth : Authorizations]
    \cup [kind : {"timeout"}, epoch : 1..MaxEpoch, thread : Threads, afterSeq : Nat, now : Clocks,
          deadline : Nat \cup {None}, pending : EnvelopeIds \cup {None}]

Cache ==
    [threads   : [Threads -> Snapshot],
     envelopes : [EnvelopeIds -> Candidates \cup {None}],
     auths     : [EnvelopeIds -> Authorizations \cup {None}],
     ok        : BOOLEAN]

\* A candidate is an envelope with an identifier, a thread and a clock.
LEMMA CandidateFields ==
    ASSUME NEW e \in Candidates
    PROVE  /\ e \in Envelope /\ e # None
           /\ e.id \in EnvelopeIds /\ e.thread \in Threads /\ e.now \in Clocks /\ e.now \in Nat
  <1>1. e \in Envelope /\ e.now \in Clocks
    BY CandidatesAssumption
  <1>2. QED
    BY <1>1, EnvelopeFields, ClocksAssumption, NoneAssumption

\* The memory of a view before the first record has its type.
LEMMA EmptyCacheType == EmptyCache \in Cache
  BY VoidSnapshotType DEF EmptyCache, Cache

\* A legal envelope changes its thread and is filed under its identifier.
LEMMA WithEnvelopeEffect ==
    ASSUME NEW c \in Cache, NEW e \in Candidates, NEW a \in Authorizations,
           TransitionAllowed(e, c.threads[e.thread])
    PROVE  LET n == WithEnvelope(c, e, a) IN
           /\ n \in Cache /\ n.ok = c.ok
           /\ n.envelopes = [c.envelopes EXCEPT ![e.id] = e]
           /\ n.auths = [c.auths EXCEPT ![e.id] = a]
  <1> DEFINE s == c.threads[e.thread]
             threads == [c.threads EXCEPT ![e.thread] = ApplyEnvelope(@, e)]
  <1>1. e \in Envelope /\ e.thread \in Threads /\ e.id \in EnvelopeIds
    BY CandidateFields
  <1>2. s \in Snapshot
    BY <1>1 DEF Cache
  <1>3. ApplyEnvelope(s, e) \in Snapshot
    BY <1>1, <1>2, AllowedMoves, MoveEffect
  <1>4. threads \in [Threads -> Snapshot]
    BY <1>1, <1>3 DEF Cache
  <1>5. QED
    BY <1>1, <1>4 DEF WithEnvelope, Cache

\* A timeout changes its thread.
LEMMA WithTimeoutEffect ==
    ASSUME NEW c \in Cache, NEW t \in Threads, NEW now \in Nat
    PROVE  LET n == WithTimeout(c, t, now) IN
           /\ n \in Cache /\ n.ok = c.ok
           /\ n.envelopes = c.envelopes /\ n.auths = c.auths
  <1> DEFINE threads == [c.threads EXCEPT ![t] = ApplyTimeout(@, now)]
  <1>1. ApplyTimeout(c.threads[t], now) \in Snapshot
    BY TimeoutEffect DEF Cache
  <1>2. threads \in [Threads -> Snapshot]
    BY <1>1 DEF Cache
  <1>3. QED
    BY <1>2 DEF WithTimeout, Cache

-----------------------------------------------------------------------------
(* What a journal that rebuilds is like.                                    *)

\* The cache of a journal names every envelope of it, and no other.
Indexes(c, rs) ==
    /\ \A n \in Journaled(rs) :
         /\ c.envelopes[rs[n].envelope.id] = rs[n].envelope
         /\ c.auths[rs[n].envelope.id] = rs[n].auth
    /\ \A i \in EnvelopeIds :
         IF c.envelopes[i] = None THEN c.auths[i] = None
                                  ELSE \E n \in Journaled(rs) : rs[n].envelope.id = i

PaidOnce(rs) ==
    \A m, n \in Journaled(rs) :
        rs[m].auth = rs[n].auth \/ rs[m].envelope.id = rs[n].envelope.id => m = n

Sound(rs) == Replay(rs) \in Cache /\ (Replay(rs).ok => Indexes(Replay(rs), rs) /\ PaidOnce(rs))

\* The empty journal is indexed and paid for.
LEMMA EmptySound == Sound(<<>>)
  <1>1. Journaled(<<>>) = {}
    BY DEF Journaled
  <1>2. \A i \in EnvelopeIds : EmptyCache.envelopes[i] = None /\ EmptyCache.auths[i] = None
    BY DEF EmptyCache
  <1>3. Indexes(EmptyCache, <<>>) /\ PaidOnce(<<>>)
    BY <1>1, <1>2 DEF Indexes, PaidOnce
  <1>4. QED
    BY <1>3, ReplayEmpty, EmptyCacheType DEF Sound

\* Journaled positions of a longer journal.
LEMMA JournaledAppend ==
    ASSUME NEW rs \in Seq(Record), NEW r \in Record
    PROVE  LET qs == Append(rs, r)
               n == Len(rs) + 1
           IN  /\ qs \in Seq(Record) /\ Len(qs) = n /\ qs[n] = r /\ n \in DOMAIN qs
               /\ DOMAIN qs = DOMAIN rs \cup {n} /\ n \notin DOMAIN rs
               /\ \A m \in DOMAIN rs : qs[m] = rs[m]
               /\ Journaled(qs) = Journaled(rs) \cup (IF r.kind = "envelope" THEN {n} ELSE {})
  <1> DEFINE qs == Append(rs, r)
             n == Len(rs) + 1
  <1>1. /\ qs \in Seq(Record) /\ Len(qs) = n /\ qs[n] = r /\ n \in DOMAIN qs
        /\ DOMAIN qs = DOMAIN rs \cup {n} /\ n \notin DOMAIN rs
        /\ \A m \in DOMAIN rs : qs[m] = rs[m]
    OBVIOUS
  <1> HIDE DEF qs, n
  <1>2. Journaled(qs) = Journaled(rs) \cup (IF r.kind = "envelope" THEN {n} ELSE {})
    BY <1>1 DEF Journaled
  <1>3. QED
    BY <1>1, <1>2 DEF qs, n

\* One more record keeps a journal sound.
LEMMA AppendSound ==
    ASSUME NEW rs \in Seq(Record), NEW r \in Record, Sound(rs)
    PROVE  Sound(Append(rs, r))
  <1> DEFINE qs == Append(rs, r)
             c == Replay(rs)
             d == Replay(qs)
             n == Len(rs) + 1
  <1>1. d = Absorb(c, r) /\ c \in Cache
    BY ReplayAppend DEF Sound
  <1>2. /\ qs[n] = r /\ n \notin DOMAIN rs
        /\ \A m \in DOMAIN rs : qs[m] = rs[m]
        /\ Journaled(qs) = Journaled(rs) \cup (IF r.kind = "envelope" THEN {n} ELSE {})
    BY JournaledAppend
  <1>3. Journaled(rs) \subseteq DOMAIN rs
    BY DEF Journaled
  <1>4. \A m \in DOMAIN rs : rs[m] \in Record
    OBVIOUS
  <1> HIDE DEF qs, c, d, n
  <1>5. CASE r.kind = "envelope" /\ c.ok /\ EnvelopeReplays(c, r.envelope, r.auth)
    <2> DEFINE e == r.envelope
               a == r.auth
    <2>1. e \in Candidates /\ a \in Authorizations
      BY <1>5 DEF Record
    <2>2. e.id \in EnvelopeIds /\ e # None /\ a # None
      BY <2>1, CandidateFields, AuthorizationsAssumption
    <2> HIDE DEF e, a
    <2>3. /\ c.envelopes[e.id] = None /\ \A i \in EnvelopeIds : c.auths[i] # a
          /\ TransitionAllowed(e, c.threads[e.thread])
      BY <1>5 DEF EnvelopeReplays, e, a
    <2>4. d = WithEnvelope(c, e, a)
      BY <1>1, <1>5 DEF Absorb, e, a
    <2>5. /\ d \in Cache /\ d.ok = c.ok
          /\ d.envelopes = [c.envelopes EXCEPT ![e.id] = e]
          /\ d.auths = [c.auths EXCEPT ![e.id] = a]
      <3>1. TransitionAllowed(e, c.threads[e.thread])
        BY <2>3
      <3>2. /\ WithEnvelope(c, e, a) \in Cache /\ WithEnvelope(c, e, a).ok = c.ok
            /\ WithEnvelope(c, e, a).envelopes = [c.envelopes EXCEPT ![e.id] = e]
            /\ WithEnvelope(c, e, a).auths = [c.auths EXCEPT ![e.id] = a]
        BY <1>1, <2>1, <3>1, WithEnvelopeEffect
      <3>3. QED
        BY <2>4, <3>2
    <2>6. Indexes(c, rs) /\ PaidOnce(rs)
      BY <1>5 DEF Sound, c
    <2>7. \A m \in Journaled(rs) :
             rs[m].envelope.id \in EnvelopeIds /\ rs[m].envelope.id # e.id /\ rs[m].auth # a
      <3> SUFFICES ASSUME NEW m \in Journaled(rs)
                   PROVE  rs[m].envelope.id \in EnvelopeIds /\ rs[m].envelope.id # e.id /\ rs[m].auth # a
        OBVIOUS
      <3>1. rs[m] \in Record /\ rs[m].kind = "envelope"
        BY <1>3, <1>4 DEF Journaled
      <3>2. rs[m].envelope \in Candidates
        BY <3>1 DEF Record
      <3>3. rs[m].envelope # None /\ rs[m].envelope.id \in EnvelopeIds
        BY <3>2, CandidateFields
      <3>4. c.envelopes[rs[m].envelope.id] = rs[m].envelope /\ c.auths[rs[m].envelope.id] = rs[m].auth
        BY <2>6 DEF Indexes
      <3>5. QED
        BY <2>3, <3>3, <3>4
    <2>8. /\ c.envelopes \in [EnvelopeIds -> Candidates \cup {None}]
          /\ c.auths \in [EnvelopeIds -> Authorizations \cup {None}]
      BY <1>1 DEF Cache
    <2>9. Journaled(qs) = Journaled(rs) \cup {n} /\ qs[n].envelope = e /\ qs[n].auth = a
      BY <1>2, <1>5 DEF e, a
    <2>10. \A m \in Journaled(rs) : qs[m] = rs[m] /\ m # n
      BY <1>2, <1>3
    <2>11. Indexes(d, qs)
      <3>1. \A m \in Journaled(qs) : /\ d.envelopes[qs[m].envelope.id] = qs[m].envelope
                                     /\ d.auths[qs[m].envelope.id] = qs[m].auth
        BY <2>2, <2>5, <2>6, <2>7, <2>8, <2>9, <2>10 DEF Indexes
      <3>2. \A i \in EnvelopeIds :
              IF d.envelopes[i] = None THEN d.auths[i] = None
                                       ELSE \E m \in Journaled(qs) : qs[m].envelope.id = i
        <4> SUFFICES ASSUME NEW i \in EnvelopeIds
                     PROVE  IF d.envelopes[i] = None THEN d.auths[i] = None
                                       ELSE \E m \in Journaled(qs) : qs[m].envelope.id = i
          OBVIOUS
        <4>1. CASE i = e.id
          BY <2>2, <2>5, <2>8, <2>9, <4>1
        <4>2. CASE i # e.id
          <5>1. d.envelopes[i] = c.envelopes[i] /\ d.auths[i] = c.auths[i]
            BY <2>5, <2>8, <4>2
          <5>2. QED
            BY <2>6, <2>9, <2>10, <5>1 DEF Indexes
        <4>3. QED
          BY <4>1, <4>2
      <3>3. QED
        BY <3>1, <3>2 DEF Indexes
    <2>12. PaidOnce(qs)
      BY <2>6, <2>7, <2>9, <2>10 DEF PaidOnce
    <2>13. QED
      BY <2>5, <2>11, <2>12 DEF Sound, d, qs
  <1>6. CASE r.kind # "envelope" /\ c.ok /\ TimeoutReplays(c, r)
    <2>1. r.thread \in Threads /\ r.now \in Nat
      BY <1>6, ClocksAssumption DEF Record
    <2>2. d = WithTimeout(c, r.thread, r.now)
      BY <1>1, <1>6 DEF Absorb
    <2>3. d \in Cache /\ d.envelopes = c.envelopes /\ d.auths = c.auths
      <3>1. /\ WithTimeout(c, r.thread, r.now) \in Cache
            /\ WithTimeout(c, r.thread, r.now).envelopes = c.envelopes
            /\ WithTimeout(c, r.thread, r.now).auths = c.auths
        BY <1>1, <2>1, WithTimeoutEffect
      <3>2. QED
        BY <2>2, <3>1
    <2>4. Journaled(qs) = Journaled(rs) /\ \A m \in Journaled(rs) : qs[m] = rs[m]
      BY <1>2, <1>3, <1>6
    <2>5. Indexes(c, rs) /\ PaidOnce(rs)
      BY <1>6 DEF Sound, c
    <2>6. Indexes(d, qs)
      BY <2>3, <2>4, <2>5 DEF Indexes
    <2>7. PaidOnce(qs)
      BY <2>4, <2>5 DEF PaidOnce
    <2>8. QED
      BY <2>3, <2>6, <2>7 DEF Sound, d, qs
  <1>7. CASE d = [c EXCEPT !.ok = FALSE]
    <2>1. d \in Cache /\ ~d.ok
      BY <1>1, <1>7 DEF Cache
    <2>2. QED
      BY <2>1 DEF Sound, d, qs
  <1>8. QED
    BY <1>1, <1>5, <1>6, <1>7 DEF Absorb

\* Whatever the records, Replay answers a cache; and if they rebuild, the cache
\* indexes them, and each authorization pays for one envelope.
LEMMA ReplaySound ==
    ASSUME NEW rs \in Seq(Record)
    PROVE  Sound(rs)
  <1> DEFINE S == {n \in Nat : \A qs \in Seq(Record) : Len(qs) = n => Sound(qs)}
  <1>1. 0 \in S
    <2>1. \A qs \in Seq(Record) : Len(qs) = 0 => qs = <<>>
      OBVIOUS
    <2>2. QED
      BY <2>1, EmptySound
  <1>2. ASSUME NEW n \in S PROVE n + 1 \in S
    <2> SUFFICES ASSUME NEW qs \in Seq(Record), Len(qs) = n + 1 PROVE Sound(qs)
      OBVIOUS
    <2> DEFINE ps == SubSeq(qs, 1, n)
    <2>1. /\ ps \in Seq(Record) /\ Len(ps) = n /\ qs[n + 1] \in Record
          /\ qs = Append(ps, qs[n + 1])
      BY n \in Nat
    <2>2. Sound(ps)
      BY <2>1
    <2> HIDE DEF ps
    <2>3. QED
      BY <2>1, <2>2, AppendSound
  <1>3. S \in SUBSET Nat /\ Len(rs) \in Nat
    OBVIOUS
  <1>4. Len(rs) \in S
    <2> HIDE DEF S
    <2>1. QED
      BY <1>1, <1>2, <1>3, NumberInduction
  <1>5. QED
    BY <1>4

-----------------------------------------------------------------------------
(* Prefixes of a journal that rebuilds.                                     *)

\* A journal without its last record.
LEMMA LastRecord ==
    ASSUME NEW R, NEW rs \in Seq(R), NEW n \in Nat, Len(rs) = n + 1
    PROVE  LET ps == SubSeq(rs, 1, n)
           IN  /\ ps \in Seq(R) /\ Len(ps) = n /\ rs[n + 1] \in R
               /\ rs = Append(ps, rs[n + 1])
               /\ \A m \in 1..n : ps[m] = rs[m]
               /\ \A k \in 0..n : SubSeq(ps, 1, k) = SubSeq(rs, 1, k)
  OBVIOUS

\* What fails to replay stays so whatever follows: every prefix of a journal that
\* rebuilds does.
LEMMA PrefixReplays ==
    ASSUME NEW rs \in Seq(Record), Replay(rs).ok, NEW k \in 0..Len(rs)
    PROVE  SubSeq(rs, 1, k) \in Seq(Record) /\ Replay(SubSeq(rs, 1, k)).ok
  <1> DEFINE S == {n \in Nat : \A qs \in Seq(Record) :
                     Len(qs) = n /\ Replay(qs).ok => \A m \in 0..n : Replay(SubSeq(qs, 1, m)).ok}
  <1>1. 0 \in S
    <2>1. \A qs \in Seq(Record) : Len(qs) = 0 => \A m \in 0..0 : SubSeq(qs, 1, m) = qs
      OBVIOUS
    <2>2. QED
      BY <2>1
  <1>2. ASSUME NEW n \in S PROVE n + 1 \in S
    <2> SUFFICES ASSUME NEW qs \in Seq(Record), Len(qs) = n + 1, Replay(qs).ok, NEW m \in 0..(n + 1)
                 PROVE  Replay(SubSeq(qs, 1, m)).ok
      OBVIOUS
    <2> DEFINE ps == SubSeq(qs, 1, n)
               r == qs[n + 1]
    <2>1. /\ ps \in Seq(Record) /\ Len(ps) = n /\ r \in Record /\ qs = Append(ps, r)
          /\ \A j \in 0..n : SubSeq(ps, 1, j) = SubSeq(qs, 1, j)
      BY LastRecord
    <2> HIDE DEF ps, r
    <2>2. Replay(ps).ok
      <3>1. Replay(qs) = Absorb(Replay(ps), r) /\ Replay(ps) \in Cache
        BY <2>1, ReplayAppend, ReplaySound DEF Sound
      <3>2. ~Replay(ps).ok => Replay(qs) = [Replay(ps) EXCEPT !.ok = FALSE]
        BY <3>1 DEF Absorb
      <3>3. QED
        BY <3>1, <3>2 DEF Cache
    <2>3. CASE m = n + 1
      BY <2>3, WholePrefix
    <2>4. CASE m # n + 1
      <3>1. m \in 0..n
        BY <2>4
      <3>2. QED
        BY <2>1, <2>2, <3>1
    <2>5. QED
      BY <2>3, <2>4
  <1>3. S \in SUBSET Nat /\ Len(rs) \in Nat
    OBVIOUS
  <1>4. Len(rs) \in S
    <2> HIDE DEF S
    <2>1. QED
      BY <1>1, <1>2, <1>3, NumberInduction
  <1>5. QED
    BY <1>4

-----------------------------------------------------------------------------
(* One thread along a journal.                                              *)

\* What journal rs up to position n says of thread t.
Then(rs, n, t) == Replay(SubSeq(rs, 1, n)).threads[t]

\* One record of a journal that replays, seen from thread t: an envelope of the
\* thread is legal where it stands, a timeout of the thread was due there, and
\* any other record leaves the thread alone.
LEMMA RecordStep ==
    ASSUME NEW rs \in Seq(Record), Replay(rs).ok, NEW t \in Threads, NEW n \in DOMAIN rs
    PROVE  LET before == Then(rs, n - 1, t)
               after == Then(rs, n, t)
           IN  /\ before \in Snapshot /\ after \in Snapshot
               /\ n \in EnvelopesOf(rs, t) =>
                    /\ rs[n].envelope \in Candidates /\ rs[n].envelope.thread = t
                    /\ TransitionAllowed(rs[n].envelope, before) /\ ClockHolds(rs[n].envelope, before)
                    /\ after = ApplyEnvelope(before, rs[n].envelope)
               /\ rs[n].kind = "timeout" /\ rs[n].thread = t =>
                    /\ TimeoutDue(before, rs[n].now) /\ rs[n].now \in Nat
                    /\ rs[n].deadline = before.deadline /\ rs[n].afterSeq = before.seq
                    /\ after = ApplyTimeout(before, rs[n].now)
               /\ n \notin EnvelopesOf(rs, t) /\ ~(rs[n].kind = "timeout" /\ rs[n].thread = t) =>
                    after = before
  <1> DEFINE ps == SubSeq(rs, 1, n - 1)
             r == rs[n]
             c == Replay(ps)
             d == Replay(SubSeq(rs, 1, n))
  <1>1. /\ n - 1 \in 0..Len(rs) /\ n \in 0..Len(rs) /\ r \in Record
        /\ ps \in Seq(Record) /\ SubSeq(rs, 1, n) = Append(ps, r)
    OBVIOUS
  <1>2. c.ok /\ d.ok /\ c \in Cache /\ d \in Cache
    BY <1>1, PrefixReplays, ReplaySound DEF Sound
  <1>3. d = Absorb(c, r)
    BY <1>1, ReplayAppend
  <1>4. Then(rs, n, t) = d.threads[t] /\ Then(rs, n - 1, t) = c.threads[t]
    BY DEF Then
  <1> HIDE DEF c, d, ps
  <1>5. c.threads \in [Threads -> Snapshot] /\ d.threads[t] \in Snapshot
    BY <1>2 DEF Cache
  <1>6. CASE r.kind = "envelope"
    <2> DEFINE e == r.envelope
    <2>1. e \in Candidates /\ e.thread \in Threads /\ r.kind # "timeout"
      BY <1>1, <1>6, CandidateFields DEF Record
    <2>2. EnvelopeReplays(c, e, r.auth) /\ d = WithEnvelope(c, e, r.auth)
      BY <1>2, <1>3, <1>6 DEF Absorb, Cache
    <2>3. d.threads = [c.threads EXCEPT ![e.thread] = ApplyEnvelope(@, e)]
      BY <1>2, <2>2 DEF WithEnvelope, Cache
    <2>4. TransitionAllowed(e, c.threads[e.thread]) /\ ClockHolds(e, c.threads[e.thread])
      BY <2>2 DEF EnvelopeReplays
    <2>5. n \in EnvelopesOf(rs, t) <=> e.thread = t
      BY <1>6 DEF EnvelopesOf, Journaled
    <2>6. QED
      BY <1>4, <1>5, <2>1, <2>3, <2>4, <2>5
  <1>7. CASE r.kind # "envelope"
    <2>1. r.thread \in Threads /\ r.now \in Nat /\ r.kind = "timeout"
      BY <1>1, <1>7, ClocksAssumption DEF Record
    <2>2. TimeoutReplays(c, r) /\ d = WithTimeout(c, r.thread, r.now)
      BY <1>2, <1>3, <1>7 DEF Absorb, Cache
    <2>3. d.threads = [c.threads EXCEPT ![r.thread] = ApplyTimeout(@, r.now)]
      BY <1>2, <2>2 DEF WithTimeout, Cache
    <2>4. /\ TimeoutDue(c.threads[r.thread], r.now)
          /\ r.deadline = c.threads[r.thread].deadline /\ r.afterSeq = c.threads[r.thread].seq
      BY <2>2 DEF TimeoutReplays
    <2>5. n \notin EnvelopesOf(rs, t)
      BY <1>7 DEF EnvelopesOf, Journaled
    <2>6. QED
      BY <1>4, <1>5, <2>1, <2>3, <2>4, <2>5
  <1>8. QED
    BY <1>6, <1>7

\* A set of positions has a last one.
LEMMA LastOf ==
    ASSUME NEW n \in Nat, NEW S \in SUBSET (1..n), S # {}
    PROVE  Max(S) \in S /\ \A m \in S : m <= Max(S)
  <1> DEFINE T == {k \in Nat : \A X \in SUBSET (1..k) : X # {} => \E x \in X : \A y \in X : x >= y}
  <1>1. 0 \in T
    <2>1. 1..0 = {}
      OBVIOUS
    <2>2. QED
      BY <2>1
  <1>2. ASSUME NEW k \in T PROVE k + 1 \in T
    <2> SUFFICES ASSUME NEW X \in SUBSET (1..(k + 1)), X # {} PROVE \E x \in X : \A y \in X : x >= y
      OBVIOUS
    <2>1. CASE k + 1 \in X
      BY <2>1
    <2>2. CASE k + 1 \notin X
      <3>1. X \in SUBSET (1..k)
        BY <2>2
      <3>2. QED
        BY <3>1
    <2>3. QED
      BY <2>1, <2>2
  <1>3. T \in SUBSET Nat
    OBVIOUS
  <1>4. n \in T
    <2> HIDE DEF T
    <2>1. QED
      BY <1>1, <1>2, <1>3, NumberInduction
  <1>5. \E x \in S : \A y \in S : x >= y
    BY <1>4
  <1>6. Max(S) \in S /\ \A y \in S : Max(S) >= y
    BY <1>5 DEF Max
  <1>7. QED
    BY <1>6

\* A set of positions has a first one.
LEMMA FirstOf ==
    ASSUME NEW S \in SUBSET Nat, S # {}
    PROVE  Min(S) \in S /\ \A m \in S : Min(S) <= m
  BY LeastNumber DEF Min

-----------------------------------------------------------------------------
(* What a journal has spent.                                                *)

\* The authorizations that journal rs has spent.
PaidIn(rs) == {rs[n].auth : n \in Journaled(rs)}

\* CommitsIn is defined on the spent authorizations.
LEMMA PaidCommits ==
    ASSUME NEW rs
    PROVE  DOMAIN CommitsIn(rs) = PaidIn(rs)
  BY DEF CommitsIn, PaidIn

\* A record spends its authorization, and a timeout record none.
LEMMA PaidAppend ==
    ASSUME NEW rs \in Seq(Record), NEW r \in Record
    PROVE  PaidIn(Append(rs, r)) = PaidIn(rs) \cup (IF r.kind = "envelope" THEN {r.auth} ELSE {})
  <1> DEFINE qs == Append(rs, r)
             n == Len(rs) + 1
  <1>1. /\ qs[n] = r /\ \A m \in DOMAIN rs : qs[m] = rs[m]
        /\ n \notin DOMAIN rs
        /\ Journaled(qs) = Journaled(rs) \cup (IF r.kind = "envelope" THEN {n} ELSE {})
    BY JournaledAppend
  <1>2. \A m \in Journaled(rs) : m \in DOMAIN rs
    BY DEF Journaled
  <1> HIDE DEF qs, n
  <1>3. QED
    BY <1>1, <1>2 DEF PaidIn, qs

-----------------------------------------------------------------------------
(* The invariant of the calls.                                              *)

CallRecord ==
    [step : Calls, epoch : Nat, envelope : Candidates \cup {None},
     auth : Authorizations \cup {None}, request : Request \cup {None}]

Typed ==
    /\ records \in Seq(Record)
    /\ epoch \in 1..MaxEpoch
    /\ reservations \in [Authorizations -> Candidates \cup {None}]
    /\ finalized \in [Authorizations -> Request \cup {None}]
    /\ lease \in [Views -> 0..MaxEpoch]
    /\ cache \in [Views -> Cache]
    /\ known \in [Views -> Nat]
    /\ acks \in [Views -> [EnvelopeIds -> Acknowledgement \cup {None}]]
    /\ handoffs \in [Views -> [Authorizations -> Request \cup {None}]]
    /\ ambiguous \in [Views -> [Authorizations -> Candidates \cup {None}]]
    /\ call \in [Views -> CallRecord]

\* Epochs never fall along the journal, nor pass the current lease.
Fenced ==
    /\ \A m, n \in DOMAIN records : m <= n => records[m].epoch <= records[n].epoch
    /\ \A n \in DOMAIN records : records[n].epoch <= epoch

\* Envelope e is new to cache c and follows what its thread has committed.
Fresh(c, e) ==
    /\ c.envelopes[e.id] = None
    /\ CausalityHolds(e, c.threads[e.thread], c.envelopes)
    /\ ClockHolds(e, c.threads[e.thread])

\* What call x has established so far, the view's cache being c.
CallSound(x, c) ==
    /\ x.step \in {"verify", "observe", "append", "finalize"} => x.envelope \in Candidates
    /\ x.step \in {"observe", "append", "finalize"} => x.auth \in Authorizations
    /\ x.step = "finalize" => x.request \in Request /\ x.request.id = x.envelope.id
    /\ x.step \in {"verify", "observe", "append"} => Fresh(c, x.envelope)
    /\ x.step \in {"observe", "append"} =>
         /\ \A i \in EnvelopeIds : c.auths[i] # x.auth
         /\ TransitionAllowed(x.envelope, c.threads[x.envelope.thread])
    /\ x.step = "observe" => TimeoutDue(c.threads[x.envelope.thread], x.envelope.now)
    /\ x.step = "append" => ~TimeoutDue(c.threads[x.envelope.thread], x.envelope.now)

\* Call x has appended envelope i and not acknowledged it yet.
Finalizing(x, i) == x.step = "finalize" /\ x.request.outcome = "commit" /\ x.request.id = i

\* An authorization is filed with its envelope, and every filed envelope has an
\* acknowledgement, unless its call is just about to give it.
BooksSound(x, c, k) ==
    /\ \A i \in EnvelopeIds : c.envelopes[i] = None <=> c.auths[i] = None
    /\ \A i \in EnvelopeIds : c.envelopes[i] # None => k[i] # None \/ Finalizing(x, i)

ViewSound(v) ==
    /\ lease[v] = 0 => call[v] = NoCall
    /\ known[v] <= Len(records)
    /\ CallSound(call[v], cache[v])
    /\ BooksSound(call[v], cache[v], acks[v])

IInv == Typed /\ Fenced /\ \A v \in Views : ViewSound(v)

-----------------------------------------------------------------------------
(* Types of what the actions write.                                         *)

\* The record that describes a running call has its type.
LEMMA CallType ==
    ASSUME NEW step \in Calls, NEW ep \in Nat, NEW e \in Candidates \cup {None},
           NEW a \in Authorizations \cup {None}, NEW r \in Request \cup {None}
    PROVE  At(step, ep, e, a, r) \in CallRecord
  BY DEF At, CallRecord

\* Requests and acknowledgements have their types, and are never None.
LEMMA RequestTypes ==
    ASSUME NEW i \in EnvelopeIds, NEW n \in Nat \ {0}
    PROVE  /\ CommitRequest(i, n) \in Request /\ CommitRequest(i, n) # None
           /\ ReleaseRequest(i) \in Request /\ ReleaseRequest(i) # None
           /\ Ack(n, TRUE) \in Acknowledgement /\ Ack(n, TRUE) # None
           /\ Ack(n, FALSE) \in Acknowledgement /\ Ack(n, FALSE) # None
  <1>1. CommitRequest(i, n) \in Request
    BY DEF CommitRequest, Request
  <1>2. ReleaseRequest(i) \in Request
    BY DEF ReleaseRequest, Request
  <1>3. \A b \in BOOLEAN : Ack(n, b) \in Acknowledgement
    BY DEF Ack, Acknowledgement
  <1>4. QED
    BY <1>1, <1>2, <1>3, RequestsAssumption

\* A call that is not about to acknowledge leaves the books to any other.
LEMMA BooksKept ==
    ASSUME NEW x, NEW y, NEW c, NEW k, BooksSound(x, c, k), x.step # "finalize"
    PROVE  BooksSound(y, c, k)
  BY DEF BooksSound, Finalizing

\* The commits of a journal name its records.
LEMMA CommitsName ==
    ASSUME NEW rs \in Seq(Record), NEW a \in DOMAIN CommitsIn(rs)
    PROVE  /\ a \in Authorizations
           /\ CommitsIn(rs)[a] \in Request
           /\ \E n \in Journaled(rs) : /\ rs[n].auth = a
                                       /\ CommitsIn(rs)[a] = CommitRequest(rs[n].envelope.id, n)
  <1> DEFINE n == CHOOSE m \in Journaled(rs) : rs[m].auth = a
  <1>1. \E m \in Journaled(rs) : rs[m].auth = a
    BY DEF CommitsIn
  <1>2. n \in Journaled(rs) /\ rs[n].auth = a
    BY <1>1
  <1>3. CommitsIn(rs)[a] = CommitRequest(rs[n].envelope.id, n)
    BY <1>1 DEF CommitsIn
  <1> HIDE DEF n
  <1>4. n \in Nat \ {0} /\ rs[n] \in Record /\ rs[n].kind = "envelope"
    BY <1>2 DEF Journaled
  <1>5. rs[n].envelope \in Candidates /\ rs[n].auth \in Authorizations
    BY <1>4 DEF Record
  <1>6. rs[n].envelope.id \in EnvelopeIds
    BY <1>5, CandidateFields
  <1>7. QED
    BY <1>2, <1>3, <1>4, <1>5, <1>6, RequestTypes

\* The records a view has observed.
LEMMA ObservedType ==
    ASSUME IInv, NEW v \in Views
    PROVE  Observed(v) \in Seq(Record) /\ Len(Observed(v)) = known[v]
  <1>1. records \in Seq(Record) /\ known[v] \in Nat /\ known[v] <= Len(records)
    BY DEF IInv, Typed, ViewSound
  <1>2. QED
    BY <1>1 DEF Observed

\* reconcile_pcp sends requests.
LEMMA ReconcilableType ==
    ASSUME IInv, NEW v \in Views
    PROVE  /\ Reconcilable(v) \in [Authorizations -> Request \cup {None}]
           /\ \A a \in Authorizations :
                Reconcilable(v)[a] = IF a \in DOMAIN CommitsIn(Observed(v))
                                       THEN CommitsIn(Observed(v))[a] ELSE handoffs[v][a]
  <1> DEFINE commits == CommitsIn(Observed(v))
  <1>1. handoffs[v] \in [Authorizations -> Request \cup {None}]
    BY DEF IInv, Typed
  <1>2. \A a \in DOMAIN commits : a \in Authorizations /\ commits[a] \in Request
    BY ObservedType, CommitsName
  <1>3. Reconcilable(v) = [a \in Authorizations |->
                             IF a \in DOMAIN commits THEN commits[a] ELSE handoffs[v][a]]
    BY DEF Reconcilable, Observed
  <1> HIDE DEF commits
  <1>4. QED
    BY <1>1, <1>2, <1>3 DEF commits

\* What reconcile_ambiguous_pcp may send of reservation a: nothing, the commit
\* that the journal holds, or the release of one that the journal does not hold.
Resolving(r, a) ==
    \/ r = None
    \/ a \in DOMAIN CommitsIn(records) /\ r = CommitsIn(records)[a]
    \/ r \in Request /\ r.outcome = "release" /\ a \notin DOMAIN CommitsIn(records)

\* A resolution commits what the journal holds, releases, or stays open.
LEMMA ResolutionResolves ==
    ASSUME NEW a \in Authorizations, NEW e \in Candidates \cup {None},
           records \in Seq(Record), Replay(records).ok
    PROVE  Resolving(Resolution(a, e), a)
  <1> DEFINE c == Replay(records)
  <1>1. Indexes(c, records)
    BY ReplaySound DEF Sound
  <1> HIDE DEF c
  <1>2. CASE e = None
    BY <1>2 DEF Resolution, Resolving
  <1>3. CASE e # None /\ c.envelopes[e.id] = e
    <2>1. e.id \in EnvelopeIds
      BY <1>3, CandidateFields
    <2>2. PICK n \in Journaled(records) : records[n].envelope.id = e.id
      BY <1>1, <1>3, <2>1 DEF Indexes
    <2>3. c.auths[e.id] = records[n].auth
      BY <1>1, <2>2 DEF Indexes
    <2>4. c.auths[e.id] = a => a \in DOMAIN CommitsIn(records)
      BY <2>2, <2>3 DEF CommitsIn
    <2>5. Resolution(a, e) = IF c.auths[e.id] = a THEN CommitsIn(records)[a] ELSE None
      BY <1>3 DEF Resolution, c
    <2>6. QED
      BY <2>4, <2>5 DEF Resolving
  <1>4. CASE e # None /\ c.envelopes[e.id] # e
    <2>1. Resolution(a, e) = IF a \in DOMAIN CommitsIn(records) THEN None ELSE ReleaseRequest(e.id)
      BY <1>4 DEF Resolution, c
    <2>2. e.id \in EnvelopeIds
      BY <1>4, CandidateFields
    <2>3. ReleaseRequest(e.id) \in Request /\ ReleaseRequest(e.id).outcome = "release"
      BY <2>2 DEF ReleaseRequest, Request
    <2>4. QED
      BY <2>1, <2>3 DEF Resolving
  <1>5. QED
    BY <1>2, <1>3, <1>4

\* What reconcile_ambiguous_pcp sends has its type and resolves each authorization.
LEMMA ResolvableType ==
    ASSUME IInv, NEW v \in Views
    PROVE  /\ Resolvable(v) \in [Authorizations -> Request \cup {None}]
           /\ \A a \in Authorizations : Resolving(Resolvable(v)[a], a)
  <1>1. records \in Seq(Record) /\ ambiguous[v] \in [Authorizations -> Candidates \cup {None}]
    BY DEF IInv, Typed
  <1>2. ASSUME NEW a \in Authorizations
        PROVE  Resolving(Resolvable(v)[a], a) /\ Resolvable(v)[a] \in Request \cup {None}
    <2>1. Rebuilds(records) => Replay(records).ok
      BY DEF Rebuilds, RebuildsUnder
    <2>2. Rebuilds(records) => Resolving(Resolution(a, ambiguous[v][a]), a)
      BY <1>1, <2>1, ResolutionResolves
    <2>3. Resolvable(v)[a] = IF Rebuilds(records) THEN Resolution(a, ambiguous[v][a]) ELSE None
      BY DEF Resolvable
    <2>4. Resolving(None, a)
      BY DEF Resolving
    <2>5. Resolving(Resolvable(v)[a], a)
      BY <2>2, <2>3, <2>4
    <2>6. QED
      BY <1>1, <2>5, CommitsName DEF Resolving
  <1>3. Resolvable(v) = [a \in Authorizations |-> Resolvable(v)[a]]
    BY DEF Resolvable
  <1>4. QED
    BY <1>2, <1>3

\* A batch for PCP leaves its own requests, settled or pending.
LEMMA DeliverType ==
    ASSUME IInv, NEW v \in Views, NEW requests \in [Authorizations -> Request \cup {None}],
           NEW applied, NEW confirmed, Deliver(v, requests, applied, confirmed)
    PROVE  /\ finalized' \in [Authorizations -> Request \cup {None}]
           /\ handoffs' \in [Views -> [Authorizations -> Request \cup {None}]]
           /\ reservations' = reservations
  <1>1. /\ finalized \in [Authorizations -> Request \cup {None}]
        /\ handoffs \in [Views -> [Authorizations -> Request \cup {None}]]
    BY DEF IInv, Typed
  <1>2. finalized' \in [Authorizations -> Request \cup {None}]
    BY <1>1 DEF Deliver
  <1> DEFINE kept == [a \in Authorizations |-> CASE requests[a] = None -> handoffs[v][a]
                                                  [] a \in confirmed    -> None
                                                  [] OTHER              -> requests[a]]
  <1>3. kept \in [Authorizations -> Request \cup {None}]
    BY <1>1
  <1>4. handoffs' = [handoffs EXCEPT ![v] = kept]
    BY DEF Deliver
  <1> HIDE DEF kept
  <1>5. QED
    BY <1>1, <1>2, <1>3, <1>4 DEF Deliver

-----------------------------------------------------------------------------
(* Steps of one view.                                                       *)

\* A step of view v that leaves the other views alone.
LEMMA OneView ==
    ASSUME IInv, NEW v \in Views, Typed', Fenced', Len(records) <= Len(records'), ViewSound(v)',
           \A w \in Views \ {v} : /\ lease'[w] = lease[w] /\ known'[w] = known[w]
                                  /\ call'[w] = call[w] /\ cache'[w] = cache[w] /\ acks'[w] = acks[w]
    PROVE  IInv'
  <1>1. ASSUME NEW w \in Views \ {v} PROVE ViewSound(w)'
    <2>1. ViewSound(w)
      BY DEF IInv
    <2>2. /\ known[w] \in Nat /\ Len(records) \in Nat /\ Len(records') \in Nat
      BY DEF IInv, Typed
    <2>3. QED
      BY <2>1, <2>2 DEF ViewSound
  <1>2. QED
    BY <1>1 DEF IInv

\* A record of the current lease.
LEMMA Appended ==
    ASSUME IInv, NEW r \in Record, r.epoch = epoch, records' = Append(records, r), epoch' = epoch
    PROVE  records' \in Seq(Record) /\ Len(records') = Len(records) + 1 /\ Fenced'
  <1>1. records \in Seq(Record) /\ epoch \in Nat
    BY DEF IInv, Typed
  <1>2. /\ records' \in Seq(Record) /\ Len(records') = Len(records) + 1
        /\ DOMAIN records' = DOMAIN records \cup {Len(records) + 1}
        /\ records'[Len(records) + 1] = r
        /\ \A n \in DOMAIN records : n <= Len(records) /\ records'[n] = records[n]
    BY <1>1, JournaledAppend
  <1>3. \A n \in DOMAIN records' : records'[n].epoch \in Nat /\ records'[n].epoch <= epoch
    <2>1. ASSUME NEW n \in DOMAIN records PROVE records[n].epoch \in Nat /\ records[n].epoch <= epoch
      <3>1. records[n] \in Record
        BY <1>1
      <3>2. QED
        BY <3>1 DEF IInv, Fenced, Record
    <2>2. QED
      BY <1>1, <1>2, <2>1
  <1>4. \A m, n \in DOMAIN records' : m <= n => records'[m].epoch <= records'[n].epoch
    <2> SUFFICES ASSUME NEW m \in DOMAIN records', NEW n \in DOMAIN records', m <= n
                 PROVE  records'[m].epoch <= records'[n].epoch
      OBVIOUS
    <2>1. CASE n = Len(records) + 1
      BY <1>2, <1>3, <2>1
    <2>2. CASE n # Len(records) + 1
      <3>1. n \in DOMAIN records /\ m \in DOMAIN records
        BY <1>1, <1>2, <2>2
      <3>2. QED
        BY <1>2, <3>1 DEF IInv, Fenced
    <2>3. QED
      BY <2>1, <2>2
  <1>5. QED
    BY <1>2, <1>3, <1>4 DEF Fenced

\* A timeout record, in the journal and in the view that writes it.
LEMMA TimeoutRecorded ==
    ASSUME IInv, NEW v \in Views, NEW ep, NEW t \in Threads, NEW now \in Clocks,
           TimeoutDue(cache[v].threads[t], now), AppendAccepted(v, ep), RecordTimeout(v, ep, t, now),
           epoch' = epoch
    PROVE  /\ TimeoutRecord(ep, t, cache[v].threads[t], now) \in Record
           /\ records' \in Seq(Record) /\ Len(records') = Len(records) + 1 /\ Fenced'
           /\ cache' \in [Views -> Cache] /\ cache' = [cache EXCEPT ![v] = WithTimeout(cache[v], t, now)]
           /\ known' \in [Views -> Nat] /\ known' = [known EXCEPT ![v] = Len(records) + 1]
           /\ WithTimeout(cache[v], t, now).envelopes = cache[v].envelopes
           /\ WithTimeout(cache[v], t, now).auths = cache[v].auths
           /\ WithTimeout(cache[v], t, now).threads[t] = ApplyTimeout(cache[v].threads[t], now)
  <1> DEFINE s == cache[v].threads[t]
             r == TimeoutRecord(ep, t, s, now)
  <1>1. /\ cache \in [Views -> Cache] /\ cache[v] \in Cache /\ known \in [Views -> Nat]
        /\ records \in Seq(Record) /\ epoch \in 1..MaxEpoch
    BY DEF IInv, Typed
  <1>2. s \in Snapshot
    BY <1>1 DEF Cache
  <1>3. ep = epoch
    BY DEF AppendAccepted
  <1>4. PendingId(s) \in EnvelopeIds \cup {None}
    BY <1>2, EnvelopeFields DEF PendingId, Snapshot
  <1>5. s.seq \in Nat /\ s.deadline \in Nat \cup {None}
    BY <1>2 DEF Snapshot
  <1>6. r \in Record /\ r.epoch = epoch
    <2> HIDE DEF s
    <2>1. QED
      BY <1>1, <1>3, <1>4, <1>5 DEF TimeoutRecord, Record
  <1>7. /\ records' = Append(records, r)
        /\ cache' = [cache EXCEPT ![v] = WithTimeout(cache[v], t, now)]
        /\ known' = [known EXCEPT ![v] = Len(records) + 1]
    BY <1>1 DEF RecordTimeout
  <1>8. /\ WithTimeout(cache[v], t, now) \in Cache
        /\ WithTimeout(cache[v], t, now).envelopes = cache[v].envelopes
        /\ WithTimeout(cache[v], t, now).auths = cache[v].auths
    BY <1>1, WithTimeoutEffect, ClocksAssumption
  <1>9. WithTimeout(cache[v], t, now).threads[t] = ApplyTimeout(s, now)
    BY <1>1 DEF WithTimeout, Cache
  <1> HIDE DEF r
  <1>10. records' \in Seq(Record) /\ Len(records') = Len(records) + 1 /\ Fenced'
    BY <1>6, <1>7, Appended
  <1>11. cache' \in [Views -> Cache]
    BY <1>1, <1>7, <1>8
  <1>12. known' \in [Views -> Nat]
    <2>1. Len(records) + 1 \in Nat
      BY <1>1
    <2>2. QED
      BY <1>1, <1>7, <2>1
  <1>13. QED
    BY <1>6, <1>7, <1>8, <1>9, <1>10, <1>11, <1>12 DEF r

\* The initial state is typed, fenced and sound.
LEMMA InvInit == Init => IInv
  <1> SUFFICES ASSUME Init PROVE IInv
    OBVIOUS
  <1>1. NoCall \in CallRecord
    BY CallType DEF NoCall, Calls
  <1>2. Typed
    BY <1>1, EmptyCacheType, BoundsAssumption DEF Init, Typed, NoRequests, Unset
  <1>3. Fenced
    BY DEF Init, Fenced
  <1>4. ASSUME NEW v \in Views PROVE ViewSound(v)
    <2>1. CallSound(NoCall, EmptyCache)
      BY DEF CallSound, NoCall, At
    <2>2. BooksSound(NoCall, EmptyCache, Unset)
      BY DEF BooksSound, EmptyCache
    <2>3. QED
      BY <2>1, <2>2 DEF Init, ViewSound
  <1>5. QED
    BY <1>2, <1>3, <1>4 DEF IInv

\* A step of view v that touches neither the journal nor the memory of a view:
\* its call becomes x.
LEMMA CalmStep ==
    ASSUME IInv, NEW v \in Views, NEW x \in CallRecord,
           UNCHANGED <<journalVars, viewVars>>, call' = [call EXCEPT ![v] = x],
           reservations' \in [Authorizations -> Candidates \cup {None}],
           finalized' \in [Authorizations -> Request \cup {None}],
           acks' \in [Views -> [EnvelopeIds -> Acknowledgement \cup {None}]],
           handoffs' \in [Views -> [Authorizations -> Request \cup {None}]],
           ambiguous' \in [Views -> [Authorizations -> Candidates \cup {None}]],
           \A w \in Views \ {v} : acks'[w] = acks[w],
           lease[v] = 0 => x = NoCall,
           CallSound(x, cache[v]), BooksSound(x, cache[v], acks'[v])
    PROVE  IInv'
  <1>1. /\ records' = records /\ epoch' = epoch /\ lease' = lease /\ cache' = cache /\ known' = known
        /\ call \in [Views -> CallRecord] /\ Len(records) \in Nat
    BY DEF IInv, Typed, journalVars, viewVars
  <1>2. call' \in [Views -> CallRecord] /\ call'[v] = x /\ \A w \in Views \ {v} : call'[w] = call[w]
    BY <1>1
  <1>3. Typed'
    BY <1>1, <1>2 DEF IInv, Typed
  <1>4. Fenced'
    BY <1>1 DEF IInv, Fenced
  <1>5. ViewSound(v)'
    BY <1>1, <1>2 DEF IInv, ViewSound
  <1>6. Len(records) <= Len(records')
    BY <1>1
  <1>7. QED
    BY <1>1, <1>2, <1>3, <1>4, <1>5, <1>6, OneView

\* A step of view v that records a timeout: its call becomes x.
LEMMA TimedStep ==
    ASSUME IInv, NEW v \in Views, NEW x \in CallRecord,
           NEW ep, NEW t \in Threads, NEW now \in Clocks,
           TimeoutDue(cache[v].threads[t], now), AppendAccepted(v, ep), RecordTimeout(v, ep, t, now),
           UNCHANGED <<epoch, pcpVars, lease, bookVars>>, call' = [call EXCEPT ![v] = x],
           lease[v] = 0 => x = NoCall,
           CallSound(x, WithTimeout(cache[v], t, now)), BooksSound(x, cache[v], acks[v])
    PROVE  IInv'
  <1> DEFINE d == WithTimeout(cache[v], t, now)
  <1>1. /\ epoch' = epoch /\ reservations' = reservations /\ finalized' = finalized /\ lease' = lease
        /\ acks' = acks /\ handoffs' = handoffs /\ ambiguous' = ambiguous
    BY DEF pcpVars, bookVars
  <1>2. /\ records' \in Seq(Record) /\ Len(records') = Len(records) + 1 /\ Fenced'
        /\ cache' \in [Views -> Cache] /\ cache' = [cache EXCEPT ![v] = d]
        /\ known' \in [Views -> Nat] /\ known' = [known EXCEPT ![v] = Len(records) + 1]
        /\ d.envelopes = cache[v].envelopes /\ d.auths = cache[v].auths
    BY <1>1, TimeoutRecorded
  <1> HIDE DEF d
  <1>3. /\ call \in [Views -> CallRecord] /\ cache \in [Views -> Cache] /\ known \in [Views -> Nat]
        /\ Len(records) \in Nat
    BY DEF IInv, Typed
  <1>4. call' \in [Views -> CallRecord] /\ call'[v] = x /\ \A w \in Views \ {v} : call'[w] = call[w]
    BY <1>3
  <1>5. cache'[v] = d /\ \A w \in Views \ {v} : cache'[w] = cache[w]
    BY <1>2, <1>3
  <1>6. known'[v] = Len(records) + 1 /\ \A w \in Views \ {v} : known'[w] = known[w]
    BY <1>2, <1>3
  <1>7. Typed'
    BY <1>1, <1>2, <1>4 DEF IInv, Typed
  <1>8. BooksSound(x, d, acks[v])
    BY <1>2 DEF BooksSound
  <1>9. ViewSound(v)'
    BY <1>1, <1>2, <1>3, <1>4, <1>5, <1>6, <1>8 DEF ViewSound, d
  <1>10. Len(records) <= Len(records')
    BY <1>2, <1>3
  <1>11. QED
    BY <1>1, <1>2, <1>4, <1>5, <1>6, <1>7, <1>9, <1>10, OneView

\* No call has nothing to vouch for.
LEMMA NoCallSound ==
    ASSUME NEW c
    PROVE  NoCall \in CallRecord /\ CallSound(NoCall, c) /\ NoCall.step = "none"
  <1>1. NoCall \in CallRecord
    BY CallType DEF NoCall, Calls
  <1>2. QED
    BY <1>1 DEF CallSound, NoCall, At

-----------------------------------------------------------------------------
(* The actions, one by one.                                                 *)

\* A new lease leaves earlier records under earlier epochs.
LEMMA AcquireWriterSound ==
    ASSUME IInv, AcquireWriter
    PROVE  IInv'
  <1>1. /\ epoch \in 1..MaxEpoch /\ MaxEpoch \in Nat /\ epoch' = epoch + 1 /\ epoch < MaxEpoch
        /\ records \in Seq(Record)
    BY BoundsAssumption DEF IInv, Typed, AcquireWriter
  <1>2. UNCHANGED <<records, reservations, finalized, lease, cache, known, acks, handoffs, ambiguous, call>>
    BY DEF AcquireWriter, pcpVars, viewVars, bookVars
  <1>3. epoch' \in 1..MaxEpoch
    BY <1>1
  <1>4. Typed'
    BY <1>2, <1>3 DEF IInv, Typed
  <1>5. \A n \in DOMAIN records : records[n].epoch \in Nat
    BY <1>1, BoundsAssumption DEF Record
  <1>6. Fenced'
    BY <1>1, <1>2, <1>5 DEF IInv, Fenced
  <1>7. QED
    BY <1>2, <1>4, <1>6 DEF IInv, ViewSound

\* A timeout recorded by advance_now.
LEMMA AdvanceNowSound ==
    ASSUME IInv, NEW v \in Views, NEW t \in Threads, NEW now \in Clocks, AdvanceNow(v, t, now)
    PROVE  IInv'
  <1>1. call[v] = NoCall /\ call' = call
    BY DEF AdvanceNow, Idle
  <1>2. call' = [call EXCEPT ![v] = NoCall]
    BY <1>1 DEF IInv, Typed
  <1>3. BooksSound(NoCall, cache[v], acks[v])
    BY <1>1 DEF IInv, ViewSound
  <1>4. UNCHANGED <<epoch, pcpVars, lease, bookVars>>
    BY DEF AdvanceNow
  <1>5. TimeoutDue(cache[v].threads[t], now) /\ AppendAccepted(v, epoch) /\ RecordTimeout(v, epoch, t, now)
    BY DEF AdvanceNow
  <1>6. QED
    BY <1>2, <1>3, <1>4, <1>5, NoCallSound, TimedStep

\* The first checks of submit, with the timeout of the caller's clock.
LEMMA SubmitSound ==
    ASSUME IInv, NEW v \in Views, NEW e \in Candidates, NEW now \in Clocks \cup {None},
           Submit(v, e, now)
    PROVE  IInv'
  <1> DEFINE x == IF PrecheckPasses(v, e, now) THEN At("verify", epoch, e, None, None) ELSE NoCall
  <1>1. e.id \in EnvelopeIds /\ e.thread \in Threads
    BY CandidateFields
  <1>2. /\ call[v] = NoCall /\ lease[v] # 0 /\ cache[v].envelopes[e.id] = None
        /\ UNCHANGED <<epoch, pcpVars, lease, bookVars>>
        /\ ObserveRuntimeNow(v, e.thread, now)
    BY DEF Submit, Idle, Up
  <1>3. epoch \in Nat
    BY DEF IInv, Typed
  <1>4. At("verify", epoch, e, None, None) \in CallRecord
    BY <1>3, CallType DEF Calls
  <1>5. x \in CallRecord
    BY <1>4, NoCallSound
  <1>6. call' = [call EXCEPT ![v] = x]
    BY DEF Submit, Begin, Return
  <1>7. ASSUME NEW d, d.envelopes = cache[v].envelopes,
               d.threads[e.thread] = IF ClockDue(v, e.thread, now)
                                       THEN ApplyTimeout(cache[v].threads[e.thread], now)
                                       ELSE cache[v].threads[e.thread]
        PROVE  CallSound(x, d)
    <2>1. CASE PrecheckPasses(v, e, now)
      <3>1. Fresh(d, e)
        BY <1>2, <1>7, <2>1 DEF PrecheckPasses, Fresh
      <3>2. x = At("verify", epoch, e, None, None)
        BY <2>1
      <3> HIDE DEF x
      <3>3. QED
        BY <3>1, <3>2 DEF CallSound, At
    <2>2. CASE ~PrecheckPasses(v, e, now)
      BY <2>2, NoCallSound
    <2>3. QED
      BY <2>1, <2>2
  <1>8. NoCall.step # "finalize" /\ BooksSound(NoCall, cache[v], acks[v])
    BY <1>2, NoCallSound DEF IInv, ViewSound
  <1>9. BooksSound(x, cache[v], acks[v])
    BY <1>8, BooksKept
  <1> HIDE DEF x
  <1>10. CASE ClockDue(v, e.thread, now)
    <2>1. /\ now \in Clocks /\ TimeoutDue(cache[v].threads[e.thread], now)
          /\ AppendAccepted(v, epoch) /\ RecordTimeout(v, epoch, e.thread, now)
      BY <1>2, <1>10 DEF ClockDue, ObserveRuntimeNow
    <2>2. /\ WithTimeout(cache[v], e.thread, now).envelopes = cache[v].envelopes
          /\ WithTimeout(cache[v], e.thread, now).threads[e.thread]
               = ApplyTimeout(cache[v].threads[e.thread], now)
      BY <1>1, <1>2, <2>1, TimeoutRecorded
    <2>3. CallSound(x, WithTimeout(cache[v], e.thread, now))
      BY <1>7, <1>10, <2>2
    <2>4. QED
      BY <1>1, <1>2, <1>5, <1>6, <1>9, <2>1, <2>3, TimedStep
  <1>11. CASE ~ClockDue(v, e.thread, now)
    <2>1. UNCHANGED <<records, cache, known>>
      BY <1>2, <1>11 DEF ObserveRuntimeNow
    <2>2. CallSound(x, cache[v])
      BY <1>7, <1>11
    <2>3. UNCHANGED <<journalVars, viewVars>> /\ UNCHANGED <<reservations, finalized, acks, handoffs, ambiguous>>
      BY <1>2, <2>1 DEF journalVars, viewVars, pcpVars, bookVars
    <2>4. QED
      BY <1>2, <1>5, <1>6, <1>9, <2>2, <2>3, CalmStep DEF IInv, Typed
  <1>12. QED
    BY <1>10, <1>11

\* A duplicate: its request is the one for the record that was acknowledged.
LEMMA ResubmitSound ==
    ASSUME IInv, NEW v \in Views, NEW e \in Candidates, NEW now \in Clocks \cup {None},
           Resubmit(v, e, now)
    PROVE  IInv'
  <1> DEFINE n == acks[v][e.id].position
             a == cache[v].auths[e.id]
             x == At("finalize", epoch, e, a, CommitRequest(e.id, n))
  <1>1. e.id \in EnvelopeIds /\ e.thread \in Threads /\ e # None
    BY CandidateFields
  <1>2. /\ call[v] = NoCall /\ lease[v] # 0 /\ cache[v].envelopes[e.id] = e
        /\ UNCHANGED <<epoch, pcpVars, lease, bookVars>>
        /\ ObserveRuntimeNow(v, e.thread, now)
        /\ call' = [call EXCEPT ![v] = x]
    BY DEF Resubmit, Idle, Up, Begin
  <1>3. BooksSound(NoCall, cache[v], acks[v]) /\ NoCall.step = "none"
    BY <1>2, NoCallSound DEF IInv, ViewSound
  <1>4. a # None /\ acks[v][e.id] # None
    BY <1>1, <1>2, <1>3 DEF BooksSound, Finalizing
  <1>5. /\ epoch \in Nat /\ acks[v][e.id] \in Acknowledgement \cup {None}
        /\ a \in Authorizations \cup {None}
    BY <1>1 DEF IInv, Typed, Cache
  <1>6. n \in Nat \ {0} /\ a \in Authorizations
    BY <1>4, <1>5 DEF Acknowledgement
  <1> HIDE DEF n, a
  <1>7. CommitRequest(e.id, n) \in Request
    BY <1>1, <1>6, RequestTypes
  <1>8. x \in CallRecord
    BY <1>5, <1>6, <1>7, CallType DEF Calls
  <1>9. \A d : CallSound(x, d)
    BY <1>6, <1>7 DEF CallSound, At, CommitRequest
  <1>10. BooksSound(x, cache[v], acks[v])
    BY <1>3, BooksKept
  <1> HIDE DEF x
  <1>11. CASE ClockDue(v, e.thread, now)
    <2>1. /\ now \in Clocks /\ TimeoutDue(cache[v].threads[e.thread], now)
          /\ AppendAccepted(v, epoch) /\ RecordTimeout(v, epoch, e.thread, now)
      BY <1>2, <1>11 DEF ClockDue, ObserveRuntimeNow
    <2>2. QED
      BY <1>1, <1>2, <1>8, <1>9, <1>10, <2>1, TimedStep
  <1>12. CASE ~ClockDue(v, e.thread, now)
    <2>1. UNCHANGED <<records, cache, known>>
      BY <1>2, <1>12 DEF ObserveRuntimeNow
    <2>2. UNCHANGED <<journalVars, viewVars>> /\ UNCHANGED <<reservations, finalized, acks, handoffs, ambiguous>>
      BY <1>2, <2>1 DEF journalVars, viewVars, pcpVars, bookVars
    <2>3. QED
      BY <1>2, <1>8, <1>9, <1>10, <2>2, CalmStep DEF IInv, Typed
  <1>13. QED
    BY <1>11, <1>12

\* An allowed candidate: the step that follows was judged on the cached snapshot.
LEMMA VerifySound ==
    ASSUME IInv, NEW v \in Views, NEW a \in Authorizations, Verify(v, a)
    PROVE  IInv'
  <1> DEFINE e == call[v].envelope
             s == cache[v].threads[e.thread]
             ep == call[v].epoch
  <1>1. /\ call[v].step = "verify"
        /\ reservations' = [reservations EXCEPT ![a] = e]
        /\ UNCHANGED <<journalVars, finalized, viewVars, bookVars>>
    BY DEF Verify
  <1>2. /\ call[v] # NoCall /\ lease[v] # 0 /\ e \in Candidates /\ Fresh(cache[v], e)
        /\ BooksSound(call[v], cache[v], acks[v]) /\ call[v] \in CallRecord
    BY <1>1, NoCallSound DEF IInv, Typed, ViewSound, CallSound
  <1>3. e.id \in EnvelopeIds /\ ep \in Nat
    BY <1>2, CandidateFields DEF CallRecord
  <1>4. /\ reservations' \in [Authorizations -> Candidates \cup {None}]
        /\ UNCHANGED <<finalized, acks, handoffs, ambiguous>>
    BY <1>1, <1>2 DEF IInv, Typed, bookVars
  <1>5. \A y : BooksSound(y, cache[v], acks[v])
    BY <1>1, <1>2, BooksKept
  <1>6. ASSUME NEW x \in CallRecord, call' = [call EXCEPT ![v] = x], CallSound(x, cache[v])
        PROVE  IInv'
    BY <1>1, <1>2, <1>4, <1>5, <1>6, CalmStep DEF IInv, Typed
  <1>7. CASE AuthorizationTaken(v, e, a)
    <2>1. call' = [call EXCEPT ![v] = NoCall]
      BY <1>7 DEF Verify, Return
    <2>2. QED
      BY <1>6, <2>1, NoCallSound
  <1>8. CASE ~AuthorizationTaken(v, e, a) /\ ~TransitionAllowed(e, s)
    <2> DEFINE x == At("finalize", ep, e, a, ReleaseRequest(e.id))
    <2>1. call' = [call EXCEPT ![v] = x]
      BY <1>8 DEF Verify, Proceed
    <2>2. ReleaseRequest(e.id) \in Request /\ ReleaseRequest(e.id).id = e.id
      BY <1>3 DEF ReleaseRequest, Request
    <2>3. x \in CallRecord /\ CallSound(x, cache[v])
      BY <1>2, <1>3, <2>2, CallType DEF Calls, CallSound, At
    <2>4. QED
      BY <1>6, <2>1, <2>3
  <1>9. CASE ~AuthorizationTaken(v, e, a) /\ TransitionAllowed(e, s)
    <2> DEFINE x == At(StepAfterJudgment(s, e), ep, e, a, None)
    <2>1. call' = [call EXCEPT ![v] = x]
      BY <1>9 DEF Verify, Proceed
    <2>2. \A i \in EnvelopeIds : cache[v].auths[i] # a
      <3>1. cache[v].auths[e.id] = None
        BY <1>2, <1>3 DEF Fresh, BooksSound
      <3>2. QED
        BY <1>9, <3>1, AuthorizationsAssumption DEF AuthorizationTaken
    <2>3. CASE TimeoutDue(s, e.now)
      <3>1. x = At("observe", ep, e, a, None)
        BY <2>3 DEF StepAfterJudgment
      <3>2. x \in CallRecord /\ CallSound(x, cache[v])
        BY <1>2, <1>3, <1>9, <2>2, <2>3, <3>1, CallType DEF Calls, CallSound, At
      <3>3. QED
        BY <1>6, <2>1, <3>2
    <2>4. CASE ~TimeoutDue(s, e.now)
      <3>1. x = At("append", ep, e, a, None)
        BY <2>4 DEF StepAfterJudgment
      <3>2. x \in CallRecord /\ CallSound(x, cache[v])
        BY <1>2, <1>3, <1>9, <2>2, <2>4, <3>1, CallType DEF Calls, CallSound, At
      <3>3. QED
        BY <1>6, <2>1, <3>2
    <2>5. QED
      BY <2>3, <2>4
  <1>10. QED
    BY <1>7, <1>8, <1>9

\* A denied candidate.
LEMMA VerifyDeniedSound ==
    ASSUME IInv, NEW v \in Views, VerifyDenied(v)
    PROVE  IInv'
  <1>1. /\ call[v].step = "verify" /\ call' = [call EXCEPT ![v] = NoCall]
        /\ UNCHANGED <<journalVars, pcpVars, viewVars, bookVars>>
    BY DEF VerifyDenied, Return
  <1>2. BooksSound(NoCall, cache[v], acks[v])
    BY <1>1, BooksKept DEF IInv, ViewSound
  <1>3. UNCHANGED <<reservations, finalized, acks, handoffs, ambiguous>>
    BY <1>1 DEF pcpVars, bookVars
  <1>4. QED
    BY <1>1, <1>2, <1>3, NoCallSound, CalmStep DEF IInv, Typed

\* A candidate whose allow is lost: PCP knows one reservation more, the view nothing.
LEMMA AllowLostSound ==
    ASSUME IInv, NEW v \in Views, NEW a \in Authorizations, AllowLost(v, a)
    PROVE  IInv'
  <1>1. /\ call[v].step = "verify" /\ call' = [call EXCEPT ![v] = NoCall]
        /\ reservations' = [reservations EXCEPT ![a] = call[v].envelope]
        /\ UNCHANGED <<journalVars, finalized, viewVars, bookVars>>
    BY DEF AllowLost, Return
  <1>2. call[v].envelope \in Candidates
    BY <1>1, NoCallSound DEF IInv, ViewSound, CallSound
  <1>3. /\ reservations' \in [Authorizations -> Candidates \cup {None}]
        /\ UNCHANGED <<finalized, acks, handoffs, ambiguous>>
    BY <1>1, <1>2 DEF IInv, Typed, bookVars
  <1>4. BooksSound(NoCall, cache[v], acks[v])
    BY <1>1, BooksKept DEF IInv, ViewSound
  <1>5. QED
    BY <1>1, <1>3, <1>4, NoCallSound, CalmStep DEF IInv, Typed

\* What a call that PCP has allowed knows.
LEMMA AllowedCall ==
    ASSUME IInv, NEW v \in Views, call[v].step \in {"observe", "append"}
    PROVE  LET e == call[v].envelope
               a == call[v].auth
           IN  /\ lease[v] # 0
               /\ e \in Candidates /\ e.id \in EnvelopeIds /\ e.thread \in Threads /\ e.now \in Clocks
               /\ a \in Authorizations /\ call[v].epoch \in Nat
               /\ cache[v] \in Cache /\ Fresh(cache[v], e)
               /\ \A i \in EnvelopeIds : cache[v].auths[i] # a
               /\ TransitionAllowed(e, cache[v].threads[e.thread])
               /\ \A y : BooksSound(y, cache[v], acks[v])
  <1>1. call[v] # NoCall /\ call[v].step # "finalize"
    BY NoCallSound
  <1>2. /\ ViewSound(v) /\ call[v] \in CallRecord /\ cache[v] \in Cache
    BY DEF IInv, Typed
  <1>3. call[v].envelope \in Candidates
    BY <1>2 DEF ViewSound, CallSound
  <1>4. \A y : BooksSound(y, cache[v], acks[v])
    BY <1>1, <1>2, BooksKept DEF ViewSound
  <1>5. QED
    BY <1>1, <1>2, <1>3, <1>4, CandidateFields DEF ViewSound, CallSound, CallRecord

\* A lost append is filed as ambiguous.
LEMMA LoseAppendSound ==
    ASSUME IInv, NEW v \in Views, call[v].step \in {"observe", "append"}, LoseAppend(v),
           UNCHANGED <<epoch, pcpVars, lease, acks, handoffs>>
    PROVE  IInv'
  <1>1. /\ call[v].envelope \in Candidates /\ call[v].auth \in Authorizations
        /\ BooksSound(NoCall, cache[v], acks[v])
    BY AllowedCall
  <1>2. ambiguous' \in [Views -> [Authorizations -> Candidates \cup {None}]]
    <2>1. [ambiguous[v] EXCEPT ![call[v].auth] = call[v].envelope] \in [Authorizations -> Candidates \cup {None}]
      BY <1>1 DEF IInv, Typed
    <2>2. ambiguous' = [ambiguous EXCEPT ![v] = [ambiguous[v] EXCEPT ![call[v].auth] = call[v].envelope]]
      BY DEF LoseAppend
    <2>3. QED
      BY <2>1, <2>2 DEF IInv, Typed
  <1>3. UNCHANGED <<journalVars, viewVars>> /\ call' = [call EXCEPT ![v] = NoCall]
    BY DEF LoseAppend, Return, journalVars, viewVars
  <1>4. UNCHANGED <<reservations, finalized, acks, handoffs>>
    BY DEF pcpVars
  <1>5. QED
    BY <1>1, <1>2, <1>3, <1>4, NoCallSound, CalmStep DEF IInv, Typed

\* The timeout of the candidate's own clock, or a lost append.
LEMMA ObserveCandidateClockSound ==
    ASSUME IInv, NEW v \in Views, ObserveCandidateClock(v)
    PROVE  IInv'
  <1> DEFINE e == call[v].envelope
             a == call[v].auth
             ep == call[v].epoch
             s == cache[v].threads[e.thread]
             p == ApplyTimeout(s, e.now)
             d == WithTimeout(cache[v], e.thread, e.now)
  <1>1. call[v].step = "observe" /\ UNCHANGED <<epoch, pcpVars, lease, acks, handoffs>>
    BY DEF ObserveCandidateClock
  <1>2. /\ lease[v] # 0
        /\ e \in Candidates /\ e.id \in EnvelopeIds /\ e.thread \in Threads /\ e.now \in Clocks
        /\ a \in Authorizations /\ ep \in Nat
        /\ cache[v] \in Cache /\ Fresh(cache[v], e)
        /\ \A i \in EnvelopeIds : cache[v].auths[i] # a
        /\ \A y : BooksSound(y, cache[v], acks[v])
    BY <1>1, AllowedCall
  <1>3. CASE ~AppendAccepted(v, ep)
    BY <1>1, <1>3, LoseAppendSound DEF ObserveCandidateClock
  <1>4. CASE AppendAccepted(v, ep)
    <2>1. TimeoutDue(s, e.now)
      BY <1>1 DEF IInv, ViewSound, CallSound
    <2>2. RecordTimeout(v, ep, e.thread, e.now) /\ ambiguous' = ambiguous
      BY <1>4 DEF ObserveCandidateClock
    <2>3. d.envelopes = cache[v].envelopes /\ d.auths = cache[v].auths /\ d.threads[e.thread] = p
      BY <1>1, <1>2, <1>4, <2>1, <2>2, TimeoutRecorded
    <2>4. ASSUME NEW x \in CallRecord, call' = [call EXCEPT ![v] = x], CallSound(x, d)
          PROVE  IInv'
      <3>1. UNCHANGED <<epoch, pcpVars, lease, bookVars>>
        BY <1>1, <2>2 DEF bookVars
      <3>2. QED
        BY <1>2, <1>4, <2>1, <2>2, <2>4, <3>1, TimedStep
    <2>5. s \in Snapshot /\ e.now \in Nat /\ s.now \in Nat
      BY <1>2, ClocksAssumption DEF Cache, Snapshot
    <2>6. /\ p.seq = s.seq /\ p.lastId = s.lastId /\ p.state = "paused" /\ p.now = Later(s.now, e.now)
      BY <2>5, TimeoutEffect
    <2> HIDE DEF p, d, s
    <2>7. CASE TransitionAllowed(e, p)
      <3> DEFINE x == At("append", ep, e, a, None)
      <3>1. call' = [call EXCEPT ![v] = x]
        BY <1>4, <2>7 DEF ObserveCandidateClock, Proceed, p, s
      <3>2. CausalityHolds(e, p, d.envelopes)
        BY <1>2, <2>3, <2>6 DEF Fresh, CausalityHolds, s
      <3>3. ClockHolds(e, p)
        <4>1. ClockHolds(e, s)
          BY <1>2 DEF Fresh, s
        <4>2. p.now = e.now
          BY <2>5, <2>6, <4>1 DEF ClockHolds, Later
        <4>3. QED
          BY <2>5, <2>6, <4>1, <4>2 DEF ClockHolds
      <3>4. ~TimeoutDue(p, e.now)
        BY <2>6 DEF TimeoutDue
      <3>5. Fresh(d, e)
        BY <1>2, <2>3, <3>2, <3>3 DEF Fresh
      <3>6. x \in CallRecord /\ CallSound(x, d)
        BY <1>2, <2>3, <2>7, <3>4, <3>5, CallType DEF Calls, CallSound, At
      <3>7. QED
        BY <2>4, <3>1, <3>6
    <2>8. CASE ~TransitionAllowed(e, p)
      <3> DEFINE x == At("finalize", ep, e, a, ReleaseRequest(e.id))
      <3>1. call' = [call EXCEPT ![v] = x]
        BY <1>4, <2>8 DEF ObserveCandidateClock, Proceed, p, s
      <3>2. ReleaseRequest(e.id) \in Request /\ ReleaseRequest(e.id).id = e.id
        BY <1>2 DEF ReleaseRequest, Request
      <3>3. x \in CallRecord /\ CallSound(x, d)
        BY <1>2, <3>2, CallType DEF Calls, CallSound, At
      <3>4. QED
        BY <2>4, <3>1, <3>3
    <2>9. QED
      BY <2>7, <2>8
  <1>5. QED
    BY <1>3, <1>4

\* The record of an appended envelope.
LEMMA EnvelopeRecordType ==
    ASSUME NEW e \in Candidates, NEW a \in Authorizations, epoch \in 1..MaxEpoch
    PROVE  EnvelopeRecord(epoch, e, a) \in Record /\ EnvelopeRecord(epoch, e, a).epoch = epoch
  BY DEF EnvelopeRecord, Record

\* The append of the envelope, or a lost append.
LEMMA AppendEnvelopeSound ==
    ASSUME IInv, NEW v \in Views, AppendEnvelope(v)
    PROVE  IInv'
  <1> DEFINE e == call[v].envelope
             a == call[v].auth
             ep == call[v].epoch
             n == Len(records) + 1
             d == WithEnvelope(cache[v], e, a)
             x == At("finalize", ep, e, a, CommitRequest(e.id, n))
  <1>1. call[v].step = "append" /\ UNCHANGED <<epoch, pcpVars, lease, acks, handoffs>>
    BY DEF AppendEnvelope
  <1>2. /\ lease[v] # 0
        /\ e \in Candidates /\ e.id \in EnvelopeIds
        /\ a \in Authorizations /\ ep \in Nat
        /\ cache[v] \in Cache
        /\ TransitionAllowed(e, cache[v].threads[e.thread])
        /\ BooksSound(x, cache[v], acks[v])
    BY <1>1, AllowedCall
  <1>3. CASE ~AppendAccepted(v, ep)
    BY <1>1, <1>3, LoseAppendSound DEF AppendEnvelope
  <1>4. CASE AppendAccepted(v, ep)
    <2>1. /\ records' = Append(records, EnvelopeRecord(ep, e, a))
          /\ cache' = [cache EXCEPT ![v] = WithEnvelope(cache[v], e, a)]
          /\ known' = [known EXCEPT ![v] = n]
          /\ ambiguous' = [ambiguous EXCEPT ![v] = [ambiguous[v] EXCEPT ![a] = None]]
          /\ call' = [call EXCEPT ![v] = x]
      BY <1>4 DEF AppendEnvelope, Proceed, IInv, Typed
    <2>2. /\ records \in Seq(Record) /\ epoch \in 1..MaxEpoch /\ n \in Nat \ {0} /\ Len(records) = n - 1
          /\ cache \in [Views -> Cache] /\ known \in [Views -> Nat] /\ call \in [Views -> CallRecord]
          /\ ambiguous \in [Views -> [Authorizations -> Candidates \cup {None}]]
      BY DEF IInv, Typed
    <2>3. epoch' = epoch /\ ep = epoch
      BY <1>1, <1>4 DEF AppendAccepted
    <2>4. /\ d \in Cache
          /\ d.envelopes = [cache[v].envelopes EXCEPT ![e.id] = e]
          /\ d.auths = [cache[v].auths EXCEPT ![e.id] = a]
      <3> HIDE DEF e, a, d, x
      <3>1. /\ WithEnvelope(cache[v], e, a) \in Cache
            /\ WithEnvelope(cache[v], e, a).envelopes = [cache[v].envelopes EXCEPT ![e.id] = e]
            /\ WithEnvelope(cache[v], e, a).auths = [cache[v].auths EXCEPT ![e.id] = a]
        BY <1>2, WithEnvelopeEffect
      <3>2. QED
        BY <3>1 DEF d
    <2>5. EnvelopeRecord(epoch, e, a) \in Record /\ EnvelopeRecord(epoch, e, a).epoch = epoch
      BY <1>2, <2>2, EnvelopeRecordType
    <2>6. records' \in Seq(Record) /\ Len(records') = n /\ Fenced'
      BY <2>1, <2>3, <2>5, Appended
    <2>7. CommitRequest(e.id, n) \in Request /\ CommitRequest(e.id, n).id = e.id
      BY <1>2, <2>2, RequestTypes DEF CommitRequest
    <2>8. x \in CallRecord
      BY <1>2, <2>7, CallType DEF Calls
    <2>9. /\ cache[v].envelopes \in [EnvelopeIds -> Candidates \cup {None}]
          /\ cache[v].auths \in [EnvelopeIds -> Authorizations \cup {None}]
          /\ e # None /\ a # None
      BY <1>2, CandidateFields, AuthorizationsAssumption DEF Cache
    <2>10. cache' = [cache EXCEPT ![v] = d]
      BY <2>1
    <2>11. \A y : y.step = "finalize" /\ y = x => CallSound(y, d)
      BY <1>2, <2>7 DEF CallSound, At
    <2>12. /\ x.step = "finalize" /\ x.request = CommitRequest(e.id, n)
           /\ x.request.outcome = "commit" /\ x.request.id = e.id
      BY DEF At, CommitRequest
    <2> HIDE DEF x, d
    <2>13. CallSound(x, d)
      BY <2>11, <2>12
    <2>14. BooksSound(x, d, acks[v])
      <3>1. Finalizing(x, e.id)
        BY <2>12 DEF Finalizing
      <3>2. \A i \in EnvelopeIds : i # e.id => /\ d.envelopes[i] = cache[v].envelopes[i]
                                               /\ d.auths[i] = cache[v].auths[i]
        BY <2>4, <2>9
      <3>3. d.envelopes[e.id] # None /\ d.auths[e.id] # None
        BY <1>2, <2>4, <2>9
      <3>4. QED
        BY <1>2, <3>1, <3>2, <3>3 DEF BooksSound
    <2>15. /\ cache' \in [Views -> Cache] /\ cache'[v] = d
           /\ \A w \in Views \ {v} : cache'[w] = cache[w]
      BY <2>2, <2>4, <2>10
    <2> HIDE DEF n
    <2>16. /\ known' \in [Views -> Nat] /\ known'[v] = n
           /\ \A w \in Views \ {v} : known'[w] = known[w]
      BY <2>1, <2>2
    <2>17. /\ call' \in [Views -> CallRecord] /\ call'[v] = x
           /\ \A w \in Views \ {v} : call'[w] = call[w]
      BY <2>1, <2>2, <2>8
    <2>18. ambiguous' \in [Views -> [Authorizations -> Candidates \cup {None}]]
      <3>1. [ambiguous[v] EXCEPT ![a] = None] \in [Authorizations -> Candidates \cup {None}]
        BY <2>2
      <3>2. QED
        BY <2>1, <2>2, <3>1
    <2>19. UNCHANGED <<epoch, reservations, finalized, lease, acks, handoffs>>
      BY <1>1 DEF pcpVars
    <2>20. Typed'
      BY <2>6, <2>15, <2>16, <2>17, <2>18, <2>19 DEF IInv, Typed
    <2>21. ViewSound(v)'
      BY <1>2, <2>2, <2>6, <2>13, <2>14, <2>15, <2>16, <2>17, <2>19 DEF ViewSound
    <2>22. Len(records) <= Len(records')
      BY <2>2, <2>6
    <2>23. QED
      BY <2>6, <2>15, <2>16, <2>17, <2>19, <2>20, <2>21, <2>22, OneView
  <1>5. QED
    BY <1>3, <1>4

\* The delivery at the end of submit.
LEMMA FinalizeSound ==
    ASSUME IInv, NEW v \in Views, NEW applied, NEW confirmed, Finalize(v, applied, confirmed)
    PROVE  IInv'
  <1> DEFINE c == call[v]
             i == c.envelope.id
             rs == [NoRequests EXCEPT ![c.auth] = c.request]
             k == Ack(c.request.position, confirmed # {})
  <1>1. /\ c.step = "finalize" /\ Deliver(v, rs, applied, confirmed)
        /\ acks' = IF c.request.outcome = "release" THEN acks ELSE [acks EXCEPT ![v] = [acks[v] EXCEPT ![i] = k]]
        /\ call' = [call EXCEPT ![v] = NoCall]
        /\ UNCHANGED <<journalVars, viewVars, ambiguous>>
    BY DEF Finalize, Return, IInv, Typed
  <1>2. /\ c.envelope \in Candidates /\ c.auth \in Authorizations /\ c.request \in Request
        /\ c.request.id = i /\ i \in EnvelopeIds
        /\ BooksSound(c, cache[v], acks[v])
    BY <1>1, CandidateFields DEF IInv, ViewSound, CallSound
  <1>3. acks \in [Views -> [EnvelopeIds -> Acknowledgement \cup {None}]]
    BY DEF IInv, Typed
  <1>4. rs \in [Authorizations -> Request \cup {None}]
    BY <1>2 DEF NoRequests
  <1> HIDE DEF rs
  <1>5. /\ finalized' \in [Authorizations -> Request \cup {None}]
        /\ handoffs' \in [Views -> [Authorizations -> Request \cup {None}]]
        /\ reservations' = reservations
    BY <1>1, <1>4, DeliverType
  <1>6. c.request.outcome # "release" => /\ c.request.outcome = "commit"
                                         /\ k \in Acknowledgement /\ k # None
    <2>1. c.request.outcome # "release" => c.request.outcome = "commit" /\ c.request.position \in Nat \ {0}
      BY <1>2 DEF Request
    <2>2. QED
      BY <1>2, <2>1, RequestTypes
  <1> HIDE DEF k, c
  <1>7. /\ acks' \in [Views -> [EnvelopeIds -> Acknowledgement \cup {None}]]
        /\ \A w \in Views \ {v} : acks'[w] = acks[w]
    <2>1. CASE c.request.outcome = "release"
      BY <1>1, <1>3, <2>1
    <2>2. CASE c.request.outcome # "release"
      <3>1. [acks[v] EXCEPT ![i] = k] \in [EnvelopeIds -> Acknowledgement \cup {None}]
        BY <1>3, <1>6, <2>2
      <3>2. QED
        BY <1>1, <1>3, <2>2, <3>1
    <2>3. QED
      BY <2>1, <2>2
  <1>8. BooksSound(NoCall, cache[v], acks'[v])
    <2>1. \A j \in EnvelopeIds : acks'[v][j] # None \/ (acks[v][j] = None /\ ~Finalizing(c, j))
                                 \/ cache[v].envelopes[j] = None
      <3> SUFFICES ASSUME NEW j \in EnvelopeIds, cache[v].envelopes[j] # None,
                          acks[v][j] # None \/ Finalizing(c, j)
                   PROVE  acks'[v][j] # None
        OBVIOUS
      <3>1. CASE c.request.outcome = "release"
        BY <1>1, <3>1 DEF Finalizing
      <3>2. CASE c.request.outcome # "release"
        <4>1. acks'[v] = [acks[v] EXCEPT ![i] = k]
          BY <1>1, <1>3, <3>2
        <4>2. CASE j = i
          BY <1>2, <1>3, <1>6, <3>2, <4>1, <4>2
        <4>3. CASE j # i
          <5>1. acks'[v][j] = acks[v][j]
            BY <1>3, <4>1, <4>3
          <5>2. QED
            BY <1>2, <4>3, <5>1 DEF Finalizing
        <4>4. QED
          BY <4>2, <4>3
      <3>3. QED
        BY <3>1, <3>2
    <2>2. QED
      BY <1>2, <2>1 DEF BooksSound
  <1>9. ambiguous' = ambiguous
    BY <1>1
  <1>10. QED
    BY <1>1, <1>5, <1>7, <1>8, <1>9, NoCallSound, CalmStep DEF IInv, Typed

\* A batch sent by reconcile_pcp.
LEMMA ReconcilePcpSound ==
    ASSUME IInv, NEW v \in Views, NEW applied, NEW confirmed, ReconcilePcp(v, applied, confirmed)
    PROVE  IInv'
  <1> DEFINE rs == Reconcilable(v)
             commitOf(i) == {a \in Authorizations :
                                rs[a] # None /\ rs[a].outcome = "commit" /\ rs[a].id = i}
             m == [i \in EnvelopeIds |->
                     IF acks[v][i] = None \/ commitOf(i) = {} THEN acks[v][i]
                     ELSE Ack(acks[v][i].position, commitOf(i) \subseteq confirmed)]
  <1>1. acks \in [Views -> [EnvelopeIds -> Acknowledgement \cup {None}]] /\ call \in [Views -> CallRecord]
    BY DEF IInv, Typed
  <1>2. /\ call[v] = NoCall /\ call' = call /\ Deliver(v, rs, applied, confirmed)
        /\ acks' = [acks EXCEPT ![v] = m]
        /\ UNCHANGED <<journalVars, viewVars, ambiguous>>
    BY <1>1 DEF ReconcilePcp, Idle
  <1>3. call' = [call EXCEPT ![v] = NoCall]
    BY <1>1, <1>2
  <1>4. /\ finalized' \in [Authorizations -> Request \cup {None}]
        /\ handoffs' \in [Views -> [Authorizations -> Request \cup {None}]]
        /\ reservations' = reservations
    <2> HIDE DEF rs
    <2>1. rs \in [Authorizations -> Request \cup {None}]
      BY ReconcilableType DEF rs
    <2>2. QED
      BY <1>2, <2>1, DeliverType
  <1> HIDE DEF rs, commitOf
  <1>5. ASSUME NEW i \in EnvelopeIds
        PROVE  /\ m[i] \in Acknowledgement \cup {None}
               /\ m[i] = None <=> acks[v][i] = None
    <2>1. CASE acks[v][i] = None \/ commitOf(i) = {}
      BY <1>1, <2>1
    <2>2. CASE ~(acks[v][i] = None \/ commitOf(i) = {})
      <3>1. acks[v][i].position \in Nat \ {0} /\ acks[v][i] # None
        BY <1>1, <2>2 DEF Acknowledgement
      <3>2. \A b \in BOOLEAN : Ack(acks[v][i].position, b) \in Acknowledgement \ {None}
        BY <1>5, <3>1, RequestTypes
      <3>3. (commitOf(i) \subseteq confirmed) \in BOOLEAN
        OBVIOUS
      <3>4. m[i] = Ack(acks[v][i].position, commitOf(i) \subseteq confirmed)
        BY <2>2
      <3>5. QED
        BY <3>1, <3>2, <3>3, <3>4
    <2>3. QED
      BY <2>1, <2>2
  <1>6. m \in [EnvelopeIds -> Acknowledgement \cup {None}]
    BY <1>5
  <1> HIDE DEF m
  <1>7. /\ acks' \in [Views -> [EnvelopeIds -> Acknowledgement \cup {None}]]
        /\ acks'[v] = m /\ \A w \in Views \ {v} : acks'[w] = acks[w]
    BY <1>1, <1>2, <1>6
  <1>8. BooksSound(NoCall, cache[v], acks'[v])
    BY <1>2, <1>5, <1>7 DEF BooksSound, IInv, ViewSound
  <1>9. ambiguous' = ambiguous
    BY <1>2
  <1>10. QED
    BY <1>2, <1>3, <1>4, <1>7, <1>8, <1>9, NoCallSound, CalmStep DEF IInv, Typed

\* The first step of reconcile_ambiguous_pcp.
LEMMA ReconcileAmbiguousSound ==
    ASSUME IInv, NEW v \in Views, ReconcileAmbiguous(v)
    PROVE  IInv'
  <1> DEFINE x == At("resolve", epoch, None, None, None)
  <1>1. /\ call[v] = NoCall /\ lease[v] # 0 /\ call' = [call EXCEPT ![v] = x]
        /\ UNCHANGED <<journalVars, pcpVars, viewVars, bookVars>>
    BY DEF ReconcileAmbiguous, Idle, Up, Begin
  <1>2. epoch \in Nat
    BY DEF IInv, Typed
  <1>3. x \in CallRecord
    BY <1>2, CallType DEF Calls
  <1>4. CallSound(x, cache[v])
    BY DEF CallSound, At
  <1>5. BooksSound(x, cache[v], acks[v])
    <2>1. BooksSound(NoCall, cache[v], acks[v]) /\ NoCall.step # "finalize"
      BY <1>1, NoCallSound DEF IInv, ViewSound
    <2>2. QED
      BY <2>1, BooksKept
  <1>6. UNCHANGED <<reservations, finalized, acks, handoffs, ambiguous>>
    BY <1>1 DEF pcpVars, bookVars
  <1>7. QED
    BY <1>1, <1>3, <1>4, <1>5, <1>6, CalmStep DEF IInv, Typed

\* A batch sent by reconcile_ambiguous_pcp.
LEMMA ResolveAmbiguousSound ==
    ASSUME IInv, NEW v \in Views, NEW applied, NEW confirmed, ResolveAmbiguous(v, applied, confirmed)
    PROVE  IInv'
  <1> DEFINE rs == Resolvable(v)
             left == [a \in Authorizations |-> IF a \in confirmed THEN None ELSE ambiguous[v][a]]
  <1>1. /\ ambiguous \in [Views -> [Authorizations -> Candidates \cup {None}]]
    BY DEF IInv, Typed
  <1>2. /\ call[v].step = "resolve" /\ call' = [call EXCEPT ![v] = NoCall]
        /\ Deliver(v, rs, applied, confirmed)
        /\ ambiguous' = [ambiguous EXCEPT ![v] = left]
        /\ UNCHANGED <<journalVars, viewVars, acks>>
    BY <1>1 DEF ResolveAmbiguous, Return
  <1>3. left \in [Authorizations -> Candidates \cup {None}]
    BY <1>1
  <1> HIDE DEF rs, left
  <1>4. rs \in [Authorizations -> Request \cup {None}]
    BY ResolvableType DEF rs
  <1>5. /\ finalized' \in [Authorizations -> Request \cup {None}]
        /\ handoffs' \in [Views -> [Authorizations -> Request \cup {None}]]
        /\ reservations' = reservations
    BY <1>2, <1>4, DeliverType
  <1>6. ambiguous' \in [Views -> [Authorizations -> Candidates \cup {None}]]
    BY <1>1, <1>2, <1>3
  <1>7. BooksSound(NoCall, cache[v], acks[v])
    BY <1>2, BooksKept DEF IInv, ViewSound
  <1>8. QED
    BY <1>2, <1>5, <1>6, <1>7, NoCallSound, CalmStep DEF IInv, Typed

\* What a rebuild finds: every envelope of the journal, unconfirmed.
LEMMA RebuiltBooks ==
    ASSUME NEW rs \in Seq(Record), Replay(rs).ok, NEW x
    PROVE  /\ RebuiltAcks(rs) \in [EnvelopeIds -> Acknowledgement \cup {None}]
           /\ BooksSound(x, Replay(rs), RebuiltAcks(rs))
           /\ Replay(rs) \in Cache
  <1> DEFINE c == Replay(rs)
             at(i) == {n \in Journaled(rs) : rs[n].envelope.id = i}
             k == RebuiltAcks(rs)
  <1>1. c \in Cache /\ Indexes(c, rs)
    BY ReplaySound DEF Sound
  <1>2. k = [i \in EnvelopeIds |-> IF at(i) = {} THEN None ELSE Ack(CHOOSE n \in at(i) : TRUE, FALSE)]
    BY DEF RebuiltAcks
  <1> HIDE DEF k, c
  <1>3. ASSUME NEW i \in EnvelopeIds, at(i) # {}
        PROVE  k[i] \in Acknowledgement /\ k[i] # None
    <2> DEFINE n == CHOOSE m \in at(i) : TRUE
    <2>1. n \in at(i)
      BY <1>3
    <2>2. k[i] = Ack(n, FALSE)
      BY <1>2, <1>3
    <2> HIDE DEF n
    <2>3. n \in Nat \ {0}
      BY <2>1 DEF Journaled
    <2>4. QED
      BY <1>3, <2>2, <2>3, RequestTypes
  <1>4. k \in [EnvelopeIds -> Acknowledgement \cup {None}]
    BY <1>2, <1>3
  <1>5. ASSUME NEW i \in EnvelopeIds
        PROVE  /\ c.envelopes[i] = None <=> c.auths[i] = None
               /\ c.envelopes[i] # None => k[i] # None
    <2>1. CASE c.envelopes[i] = None
      BY <1>1, <2>1 DEF Indexes
    <2>2. CASE c.envelopes[i] # None
      <3>1. PICK n \in Journaled(rs) : rs[n].envelope.id = i
        BY <1>1, <2>2 DEF Indexes
      <3>2. c.auths[i] = rs[n].auth
        BY <1>1, <3>1 DEF Indexes
      <3>3. rs[n].auth \in Authorizations
        BY <3>1 DEF Journaled, Record
      <3>4. c.auths[i] # None
        BY <3>2, <3>3, AuthorizationsAssumption
      <3>5. at(i) # {}
        BY <3>1
      <3> HIDE DEF at
      <3>6. QED
        BY <1>3, <2>2, <3>4, <3>5
    <2>3. QED
      BY <2>1, <2>2
  <1>6. QED
    BY <1>1, <1>4, <1>5 DEF BooksSound, c, k

\* A view rebuilt from the journal.
LEMMA OpenSound ==
    ASSUME IInv, NEW v \in Views, Open(v)
    PROVE  IInv'
  <1> DEFINE c == Replay(records)
             k == RebuiltAcks(records)
             x == IF RebuildIsAtomic THEN call[v] ELSE At("pin", epoch, None, None, None)
  <1>1. /\ lease[v] = 0 /\ Replay(records).ok
        /\ lease' = [lease EXCEPT ![v] = epoch]
        /\ cache' = [cache EXCEPT ![v] = c]
        /\ known' = [known EXCEPT ![v] = Len(records)]
        /\ acks' = [acks EXCEPT ![v] = k]
        /\ UNCHANGED <<journalVars, pcpVars, handoffs, ambiguous>>
    BY DEF Open, Up, Rebuilds, RebuildsUnder
  <1>2. /\ records \in Seq(Record) /\ epoch \in 1..MaxEpoch /\ MaxEpoch \in Nat
        /\ lease \in [Views -> 0..MaxEpoch] /\ cache \in [Views -> Cache] /\ known \in [Views -> Nat]
        /\ acks \in [Views -> [EnvelopeIds -> Acknowledgement \cup {None}]]
        /\ call \in [Views -> CallRecord] /\ Len(records) \in Nat
    BY BoundsAssumption DEF IInv, Typed
  <1>3. call[v] = NoCall
    BY <1>1 DEF IInv, ViewSound
  <1>4. At("pin", epoch, None, None, None) \in CallRecord
    <2>1. epoch \in Nat
      BY <1>2
    <2>2. QED
      BY <2>1, CallType DEF Calls
  <1>5. call' = [call EXCEPT ![v] = x]
    <2>1. CASE RebuildIsAtomic
      BY <1>2, <2>1 DEF Open
    <2>2. CASE ~RebuildIsAtomic
      BY <2>2 DEF Open, Begin
    <2>3. QED
      BY <2>1, <2>2
  <1>6. x \in CallRecord /\ CallSound(x, c)
    <2>1. CallSound(At("pin", epoch, None, None, None), c)
      BY DEF CallSound, At
    <2>2. QED
      BY <1>2, <1>3, <1>4, <2>1, NoCallSound
  <1>7. c \in Cache /\ k \in [EnvelopeIds -> Acknowledgement \cup {None}] /\ BooksSound(x, c, k)
    BY <1>1, <1>2, RebuiltBooks
  <1> HIDE DEF c, k, x
  <1>8. /\ lease' \in [Views -> 0..MaxEpoch] /\ lease'[v] = epoch /\ epoch # 0
        /\ \A w \in Views \ {v} : lease'[w] = lease[w]
    BY <1>1, <1>2
  <1>9. /\ cache' \in [Views -> Cache] /\ cache'[v] = c
        /\ \A w \in Views \ {v} : cache'[w] = cache[w]
    BY <1>1, <1>2, <1>7
  <1>10. /\ known' \in [Views -> Nat] /\ known'[v] = Len(records)
         /\ \A w \in Views \ {v} : known'[w] = known[w]
    BY <1>1, <1>2
  <1>11. /\ acks' \in [Views -> [EnvelopeIds -> Acknowledgement \cup {None}]] /\ acks'[v] = k
         /\ \A w \in Views \ {v} : acks'[w] = acks[w]
    BY <1>1, <1>2, <1>7
  <1>12. /\ call' \in [Views -> CallRecord] /\ call'[v] = x
         /\ \A w \in Views \ {v} : call'[w] = call[w]
    BY <1>2, <1>5, <1>6
  <1>13. UNCHANGED <<records, epoch, reservations, finalized, handoffs, ambiguous>>
    BY <1>1 DEF journalVars, pcpVars
  <1>14. Typed'
    BY <1>8, <1>9, <1>10, <1>11, <1>12, <1>13 DEF IInv, Typed
  <1>15. Fenced'
    BY <1>13 DEF IInv, Fenced
  <1>16. Len(records) <= Len(records') /\ known'[v] <= Len(records')
    BY <1>2, <1>10, <1>13
  <1>17. ViewSound(v)'
    BY <1>6, <1>7, <1>8, <1>9, <1>10, <1>11, <1>12, <1>16 DEF ViewSound
  <1>18. QED
    BY <1>8, <1>9, <1>10, <1>11, <1>12, <1>14, <1>15, <1>16, <1>17, OneView

\* The position that a rebuild reads after its fold.
LEMMA PinPositionSound ==
    ASSUME IInv, NEW v \in Views, PinPosition(v)
    PROVE  IInv'
  <1>1. /\ call[v].step = "pin" /\ known' = [known EXCEPT ![v] = Len(records)]
        /\ call' = [call EXCEPT ![v] = NoCall]
        /\ UNCHANGED <<records, epoch, reservations, finalized, lease, cache, acks, handoffs, ambiguous>>
    BY DEF PinPosition, Return, journalVars, pcpVars, bookVars
  <1>2. /\ known \in [Views -> Nat] /\ call \in [Views -> CallRecord] /\ Len(records) \in Nat
    BY DEF IInv, Typed
  <1>3. /\ known' \in [Views -> Nat] /\ known'[v] = Len(records)
        /\ \A w \in Views \ {v} : known'[w] = known[w]
    BY <1>1, <1>2
  <1>4. /\ call' \in [Views -> CallRecord] /\ call'[v] = NoCall
        /\ \A w \in Views \ {v} : call'[w] = call[w]
    BY <1>1, <1>2, NoCallSound
  <1>5. Typed'
    BY <1>1, <1>3, <1>4 DEF IInv, Typed
  <1>6. Fenced'
    BY <1>1 DEF IInv, Fenced
  <1>7. BooksSound(NoCall, cache[v], acks[v])
    BY <1>1, BooksKept DEF IInv, ViewSound
  <1>8. Len(records) <= Len(records') /\ known'[v] <= Len(records')
    BY <1>1, <1>2, <1>3
  <1>9. ViewSound(v)'
    BY <1>1, <1>4, <1>7, <1>8, NoCallSound DEF ViewSound
  <1>10. QED
    BY <1>1, <1>3, <1>4, <1>5, <1>6, <1>8, <1>9, OneView

\* A lost view forgets everything.
LEMMA CrashSound ==
    ASSUME IInv, NEW v \in Views, Crash(v)
    PROVE  IInv'
  <1>1. /\ lease' = [lease EXCEPT ![v] = 0]
        /\ cache' = [cache EXCEPT ![v] = EmptyCache]
        /\ known' = [known EXCEPT ![v] = 0]
        /\ acks' = [acks EXCEPT ![v] = Unset]
        /\ handoffs' = [handoffs EXCEPT ![v] = NoRequests]
        /\ ambiguous' = [ambiguous EXCEPT ![v] = NoRequests]
        /\ call' = [call EXCEPT ![v] = NoCall]
        /\ UNCHANGED <<records, epoch, reservations, finalized>>
    BY DEF Crash, Return, journalVars, pcpVars
  <1>2. Typed /\ MaxEpoch \in Nat
    BY BoundsAssumption DEF IInv
  <1>3. /\ lease' \in [Views -> 0..MaxEpoch] /\ \A w \in Views \ {v} : lease'[w] = lease[w]
    BY <1>1, <1>2 DEF Typed
  <1>4. /\ cache' \in [Views -> Cache] /\ cache'[v] = EmptyCache
        /\ \A w \in Views \ {v} : cache'[w] = cache[w]
    BY <1>1, <1>2, EmptyCacheType DEF Typed
  <1>5. /\ known' \in [Views -> Nat] /\ known'[v] = 0
        /\ \A w \in Views \ {v} : known'[w] = known[w]
    BY <1>1, <1>2 DEF Typed
  <1>6. /\ acks' \in [Views -> [EnvelopeIds -> Acknowledgement \cup {None}]] /\ acks'[v] = Unset
        /\ \A w \in Views \ {v} : acks'[w] = acks[w]
    BY <1>1, <1>2 DEF Typed, Unset
  <1>7. handoffs' \in [Views -> [Authorizations -> Request \cup {None}]]
    BY <1>1, <1>2 DEF Typed, NoRequests
  <1>8. ambiguous' \in [Views -> [Authorizations -> Candidates \cup {None}]]
    BY <1>1, <1>2 DEF Typed, NoRequests
  <1>9. /\ call' \in [Views -> CallRecord] /\ call'[v] = NoCall
        /\ \A w \in Views \ {v} : call'[w] = call[w]
    BY <1>1, <1>2, NoCallSound DEF Typed
  <1>10. Typed'
    BY <1>1, <1>2, <1>3, <1>4, <1>5, <1>6, <1>7, <1>8, <1>9 DEF Typed
  <1>11. Fenced'
    BY <1>1 DEF IInv, Fenced
  <1>12. Len(records) <= Len(records') /\ known'[v] <= Len(records')
    BY <1>1, <1>2, <1>5 DEF Typed
  <1>13. BooksSound(NoCall, EmptyCache, Unset)
    BY DEF BooksSound, EmptyCache
  <1>14. ViewSound(v)'
    BY <1>4, <1>6, <1>9, <1>12, <1>13, NoCallSound DEF ViewSound
  <1>15. QED
    BY <1>3, <1>4, <1>5, <1>6, <1>9, <1>10, <1>11, <1>12, <1>14, OneView

-----------------------------------------------------------------------------
(* The invariant, and what it gives.                                        *)

\* IInv is inductive.
LEMMA InvNext ==
    ASSUME IInv, [Next]_vars
    PROVE  IInv'
  <1>1. CASE AcquireWriter
    BY <1>1, AcquireWriterSound
  <1>2. ASSUME NEW v \in Views, ViewNext(v) PROVE IInv'
    <2>1. CASE Open(v)
      BY <2>1, OpenSound
    <2>2. CASE PinPosition(v)
      BY <2>2, PinPositionSound
    <2>3. CASE Crash(v)
      BY <2>3, CrashSound
    <2>4. CASE \E t \in Threads, now \in Clocks : AdvanceNow(v, t, now)
      BY <2>4, AdvanceNowSound
    <2>5. CASE \E e \in Candidates, now \in Clocks \cup {None} : Submit(v, e, now) \/ Resubmit(v, e, now)
      BY <2>5, SubmitSound, ResubmitSound
    <2>6. CASE \E a \in Authorizations : Verify(v, a)
      BY <2>6, VerifySound
    <2>7. CASE VerifyDenied(v) \/ \E a \in Authorizations : AllowLost(v, a)
      BY <2>7, VerifyDeniedSound, AllowLostSound
    <2>8. CASE ObserveCandidateClock(v)
      BY <2>8, ObserveCandidateClockSound
    <2>9. CASE AppendEnvelope(v)
      BY <2>9, AppendEnvelopeSound
    <2>10. CASE \E applied, confirmed : \/ Finalize(v, applied, confirmed)
                                        \/ ReconcilePcp(v, applied, confirmed)
                                        \/ ResolveAmbiguous(v, applied, confirmed)
      BY <2>10, FinalizeSound, ReconcilePcpSound, ResolveAmbiguousSound
    <2>11. CASE ReconcileAmbiguous(v)
      BY <2>11, ReconcileAmbiguousSound
    <2>12. QED
      BY <1>2, <2>1, <2>2, <2>3, <2>4, <2>5, <2>6, <2>7, <2>8, <2>9, <2>10, <2>11 DEF ViewNext
  <1>3. CASE UNCHANGED vars
    <2>1. UNCHANGED <<records, epoch, reservations, finalized, lease, cache, known, acks, handoffs,
                      ambiguous, call>>
      BY <1>3 DEF vars, journalVars, pcpVars, viewVars, bookVars
    <2>2. QED
      BY <2>1 DEF IInv, Typed, Fenced, ViewSound
  <1>4. QED
    BY <1>1, <1>2, <1>3 DEF Next

\* Whatever the views, the leases and the answers of PCP, the invariant holds.
THEOREM InvHolds == Spec => []IInv
  BY InvInit, InvNext, PTL DEF Spec

\* The types of IInv include those of TypeOK.
LEMMA InvTypeOK == IInv => TypeOK
  <1> SUFFICES ASSUME IInv PROVE TypeOK
    OBVIOUS
  <1>1. Typed
    BY DEF IInv
  <1>2. \A n \in DOMAIN records : records[n].kind \in {"envelope", "timeout"} /\ records[n].epoch \in 1..MaxEpoch
    BY <1>1 DEF Typed, Record
  <1>3. \A v \in Views : cache[v].threads \in [Threads -> Snapshot] /\ call[v].step \in Calls
    BY <1>1 DEF Typed, Cache, CallRecord
  <1>4. QED
    BY <1>1, <1>2, <1>3 DEF Typed, TypeOK

\* The state of the journal, of PCP and of every view stays well typed: what a
\* Runtime holds, files and answers is always a snapshot, a request, an
\* acknowledgement or an envelope somebody submitted.
THEOREM TypesHold == Spec => []TypeOK
  BY InvHolds, InvTypeOK, PTL

\* What FencedAppend asks of one step.
OneRecordFenced ==
    records' # records =>
         /\ Len(records') = Len(records) + 1
         /\ SubSeq(records', 1, Len(records)) = records
         /\ Last(records').epoch = epoch
         /\ \A n \in DOMAIN records : records[n].epoch <= epoch

\* A record of the current lease is a fenced append.
LEMMA FencedRecord ==
    ASSUME IInv, NEW r \in Record, r.epoch = epoch, records' = Append(records, r)
    PROVE  OneRecordFenced
  <1>1. records \in Seq(Record)
    BY DEF IInv, Typed
  <1>2. /\ Len(records') = Len(records) + 1 /\ records'[Len(records) + 1] = r
        /\ SubSeq(records', 1, Len(records)) = records
    BY <1>1
  <1>3. Last(records').epoch = epoch
    BY <1>2 DEF Last
  <1>4. QED
    BY <1>2, <1>3 DEF OneRecordFenced, IInv, Fenced

\* A recorded timeout is one record under the current lease.
LEMMA TimeoutFenced ==
    ASSUME IInv, NEW v \in Views, NEW ep, NEW t \in Threads, NEW now \in Clocks,
           TimeoutDue(cache[v].threads[t], now), AppendAccepted(v, ep), RecordTimeout(v, ep, t, now),
           epoch' = epoch
    PROVE  OneRecordFenced
  <1> DEFINE r == TimeoutRecord(ep, t, cache[v].threads[t], now)
  <1>1. r \in Record
    BY TimeoutRecorded
  <1>2. r.epoch = epoch
    BY DEF TimeoutRecord, AppendAccepted
  <1>3. records' = Append(records, r)
    BY DEF RecordTimeout
  <1> HIDE DEF r
  <1>4. QED
    BY <1>1, <1>2, <1>3, FencedRecord

\* Every step that touches the journal appends one record under the current lease.
LEMMA StepFenced ==
    ASSUME IInv, [Next]_vars
    PROVE  OneRecordFenced
  <1>1. CASE records' = records
    BY <1>1 DEF OneRecordFenced
  <1>2. ASSUME NEW v \in Views, ViewNext(v), records' # records PROVE OneRecordFenced
    <2>1. CASE \E t \in Threads, now \in Clocks : AdvanceNow(v, t, now)
      BY <2>1, TimeoutFenced DEF AdvanceNow
    <2>2. ASSUME NEW e \in Candidates, NEW now \in Clocks \cup {None}, ObserveRuntimeNow(v, e.thread, now),
                 epoch' = epoch
          PROVE  OneRecordFenced
      <3>1. ClockDue(v, e.thread, now) /\ RecordTimeout(v, epoch, e.thread, now) /\ AppendAccepted(v, epoch)
        BY <1>2, <2>2 DEF ObserveRuntimeNow
      <3>2. now \in Clocks /\ TimeoutDue(cache[v].threads[e.thread], now) /\ e.thread \in Threads
        BY <3>1, CandidateFields DEF ClockDue
      <3>3. QED
        BY <2>2, <3>1, <3>2, TimeoutFenced
    <2>3. CASE \E e \in Candidates, now \in Clocks \cup {None} : Submit(v, e, now) \/ Resubmit(v, e, now)
      BY <2>2, <2>3 DEF Submit, Resubmit
    <2>4. CASE ObserveCandidateClock(v)
      <3>1. call[v].step = "observe" /\ epoch' = epoch
        BY <2>4 DEF ObserveCandidateClock
      <3> DEFINE e == call[v].envelope
                 ep == call[v].epoch
      <3>2. e.thread \in Threads /\ e.now \in Clocks
        BY <3>1, AllowedCall
      <3>3. TimeoutDue(cache[v].threads[e.thread], e.now)
        BY <3>1 DEF IInv, ViewSound, CallSound
      <3>4. AppendAccepted(v, ep) /\ RecordTimeout(v, ep, e.thread, e.now)
        BY <1>2, <2>4 DEF ObserveCandidateClock, LoseAppend
      <3> HIDE DEF e, ep
      <3>5. QED
        BY <3>1, <3>2, <3>3, <3>4, TimeoutFenced
    <2>5. CASE AppendEnvelope(v)
      <3> DEFINE e == call[v].envelope
                 a == call[v].auth
      <3>1. call[v].step = "append"
        BY <2>5 DEF AppendEnvelope
      <3>2. e \in Candidates /\ a \in Authorizations
        BY <3>1, AllowedCall
      <3>3. epoch \in 1..MaxEpoch /\ call[v].epoch = epoch
        BY <1>2, <2>5 DEF AppendEnvelope, LoseAppend, AppendAccepted, IInv, Typed
      <3>4. records' = Append(records, EnvelopeRecord(epoch, e, a))
        BY <1>2, <2>5, <3>3 DEF AppendEnvelope, LoseAppend
      <3> HIDE DEF e, a
      <3>5. QED
        BY <3>2, <3>3, <3>4, EnvelopeRecordType, FencedRecord
    <2>6. QED
      BY <1>2, <2>1, <2>3, <2>4, <2>5 DEF ViewNext, Open, PinPosition, Crash, Verify, VerifyDenied, AllowLost,
         ReconcileAmbiguous, Finalize, ReconcilePcp, ResolveAmbiguous, journalVars
  <1>3. QED
    BY <1>1, <1>2 DEF Next, AcquireWriter, vars, journalVars

\* Whatever lease a caller passes and whoever acquires the journal meanwhile,
\* JournalStore.append lets in one record at a time, at the end, under the
\* lease of that moment (H-011, H-015).
THEOREM AppendsFenced == Spec => FencedAppend
  <1>1. IInv /\ [Next]_vars => OneRecordFenced
    BY StepFenced
  <1>2. Spec => [][OneRecordFenced]_vars
    BY <1>1, InvHolds, PTL DEF Spec
  <1>3. QED
    BY <1>2 DEF FencedAppend, OneRecordFenced
=============================================================================
