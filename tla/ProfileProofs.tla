---------------------------- MODULE ProfileProofs ----------------------------
(***************************************************************************)
(* Proofs about run_authorized: the fence around an effect, whatever the    *)
(* callbacks do, and the settlement of the commits it rests on.  A run only *)
(* restricts and adds timeouts to what the writers of Runtime do, so every  *)
(* behaviour of the profile is one of Runtime and its invariants hold here. *)
(* The invariant of a run says what its checkpoint is worth: the prefix it  *)
(* names stays in the journal, and says of the thread what was checked.     *)
(* Then: the event that installed the recipient is still the last one at    *)
(* the effect (EffectInstalled), and the relation that verify_exported_prefix *)
(* answers tells a fork from a prefix (RelationTellsForks).                 *)
(***************************************************************************)
EXTENDS ExecutionProfile, JournalProofs

-----------------------------------------------------------------------------
(* The profile is a Runtime.                                                *)

\* Every step of the profile is a step of Runtime or leaves its variables alone.
LEMMA ProfileStep ==
    ASSUME [ProfileNext]_profileVars
    PROVE  [Next]_vars
  <1>1. CASE UNCHANGED profileVars
    BY <1>1 DEF profileVars
  <1>2. CASE OtherAcquire \/ NestedAcquire
    BY <1>2 DEF OtherAcquire, NestedAcquire, Next
  <1>3. CASE \E w \in Views : OtherStep(w) \/ NestedStep(w)
    BY <1>3 DEF OtherStep, NestedStep, Next
  <1>4. ASSUME NEW v \in Views, NEW t \in Threads, NEW now \in Clocks, DenyOverdue(v, t, now)
        PROVE  [Next]_vars
    <2>1. AdvanceNow(v, t, now)
      BY <1>4 DEF DenyOverdue, RunEnters, ViewCurrent, LeaseCurrent, WriterCurrent, AdvanceNow
    <2>2. QED
      BY <2>1 DEF Next, ViewNext
  <1>5. CASE \E v \in Views, t \in Threads, now \in Clocks, task \in Tasks : StartRun(v, t, now, task)
    BY <1>5 DEF StartRun
  <1>6. CASE ActionAuthorized \/ CallbackDenies \/ Dispatch \/ EffectReturns
    BY <1>6 DEF ActionAuthorized, CallbackDenies, Dispatch, EffectReturns
  <1>7. QED
    BY <1>1, <1>2, <1>3, <1>4, <1>5, <1>6 DEF ProfileNext

\* execution_profile.py writes nothing past Runtime: a run appends at most a
\* due timeout, and all else that happens is some caller's call.
THEOREM ProfileIsRuntime == ProfileSpec => Spec
  <1>1. ProfileInit => Init
    BY DEF ProfileInit
  <1>2. QED
    BY <1>1, ProfileStep, PTL DEF ProfileSpec, Spec

-----------------------------------------------------------------------------
(* The fence.                                                               *)

RunSteps == {"authorize", "disclose", "execute"}

RInv ==
    run.step \in RunSteps =>
        LET c == run.checkpoint
            s == Then(records, c.position, c.thread)
        IN  /\ run.view \in Views
            /\ c.position \in 0..Len(records)
            /\ c.epoch = lease[run.view]
            /\ s.state = "running" /\ s.floor = c.recipient /\ ~TimeoutDue(s, c.now)
            /\ run.step = "execute" /\ ~run.reentered => c.epoch = epoch /\ c.position = Len(records)

\* The absence of a run is none of the steps of a run.
LEMMA NoRunIdle == NoRun.step \notin RunSteps
  BY DEF NoRun, RunSteps

\* A prefix of the journal stays.
LEMMA PrefixStays ==
    ASSUME IInv, [Next]_vars, NEW n \in 0..Len(records)
    PROVE  SubSeq(records', 1, n) = SubSeq(records, 1, n) /\ n \in 0..Len(records')
  <1>1. records \in Seq(Record) /\ records' \in Seq(Record)
    BY InvNext DEF IInv, Typed
  <1>2. CASE records' = records
    BY <1>2
  <1>3. CASE records' # records
    <2>1. Len(records') = Len(records) + 1 /\ SubSeq(records', 1, Len(records)) = records
      BY <1>3, StepFenced DEF OneRecordFenced
    <2>2. \A k \in 1..Len(records) : records'[k] = records[k]
      <3> SUFFICES ASSUME NEW k \in 1..Len(records) PROVE records'[k] = records[k]
        OBVIOUS
      <3>1. SubSeq(records', 1, Len(records))[k] = records'[k]
        BY <1>1, <2>1
      <3>2. QED
        BY <2>1, <3>1
    <2>3. QED
      BY <1>1, <2>1, <2>2
  <1>4. QED
    BY <1>2, <1>3

\* A run that goes on, and whose view keeps its lease, keeps its checkpoint.
LEMMA RunKept ==
    ASSUME IInv, RInv, [Next]_vars,
           run'.checkpoint = run.checkpoint, run'.view = run.view,
           run'.step \in RunSteps => run.step \in RunSteps /\ lease'[run.view] = lease[run.view],
           run'.step = "execute" /\ ~run'.reentered =>
               run.checkpoint.epoch = epoch' /\ run.checkpoint.position = Len(records')
    PROVE  RInv'
  <1> SUFFICES ASSUME run'.step \in RunSteps PROVE RInv'
    BY DEF RInv
  <1> DEFINE c == run.checkpoint
  <1>1. /\ run.view \in Views /\ c.position \in 0..Len(records) /\ c.epoch = lease[run.view]
        /\ Then(records, c.position, c.thread).state = "running"
        /\ Then(records, c.position, c.thread).floor = c.recipient
        /\ ~TimeoutDue(Then(records, c.position, c.thread), c.now)
    BY DEF RInv
  <1>2. SubSeq(records', 1, c.position) = SubSeq(records, 1, c.position) /\ c.position \in 0..Len(records')
    BY <1>1, PrefixStays
  <1>3. Then(records', c.position, c.thread) = Then(records, c.position, c.thread)
    BY <1>2 DEF Then
  <1>4. QED
    BY <1>1, <1>2, <1>3 DEF RInv

\* Only its own calls change the lease of a view.
LEMMA LeaseOfOthers ==
    ASSUME IInv, NEW w \in Views, ViewNext(w), NEW u \in Views, u # w
    PROVE  lease'[u] = lease[u]
  <1>1. lease \in [Views -> 0..MaxEpoch]
    BY DEF IInv, Typed
  <1>2. lease' = lease \/ \E l : lease' = [lease EXCEPT ![w] = l]
    BY DEF ViewNext, Open, PinPosition, Crash, AdvanceNow, Submit, Resubmit, Verify, VerifyDenied, AllowLost,
       ObserveCandidateClock, AppendEnvelope, Finalize, ReconcilePcp, ReconcileAmbiguous,
       ResolveAmbiguous, viewVars
  <1>3. QED
    BY <1>1, <1>2

\* The checkpoint of a run that starts.
LEMMA StartRunSound ==
    ASSUME IInv, NEW v \in Views, NEW t \in Threads, NEW now \in Clocks, NEW task,
           StartRun(v, t, now, task)
    PROVE  RInv'
  <1> DEFINE s == cache[v].threads[t]
             j == Replay(records).threads[t]
             c == run'.checkpoint
  <1>1. /\ run'.step = "authorize" /\ run'.view = v
        /\ c.thread = t /\ c.recipient = s.floor /\ c.position = known[v] /\ c.epoch = lease[v]
        /\ c.now = now
        /\ UNCHANGED vars
    BY DEF StartRun
  <1>2. /\ records' = records /\ epoch' = epoch /\ lease' = lease
    BY <1>1 DEF vars, journalVars, viewVars
  <1>3. /\ s.state = "running" /\ ~TimeoutDue(s, now)
        /\ known[v] = Len(records) /\ Public(j) = Public(s)
    BY DEF StartRun, RunEnters, ViewCurrent, ViewMatchesJournal
  <1>4. j.state = s.state /\ j.floor = s.floor /\ j.deadline = s.deadline
    BY <1>3 DEF Public
  <1>5. records \in Seq(Record) /\ Len(records) \in Nat
    BY DEF IInv, Typed
  <1> HIDE DEF s, j
  <1>6. Then(records', known[v], t) = j
    BY <1>2, <1>3, <1>5, WholePrefix DEF Then, j
  <1>7. c.position \in 0..Len(records')
    BY <1>1, <1>2, <1>3, <1>5
  <1>8. ~TimeoutDue(j, now)
    BY <1>3, <1>4 DEF TimeoutDue
  <1>9. run'.step # "execute"
    BY <1>1
  <1> HIDE DEF c
  <1>10. Then(records', c.position, c.thread) = j
    BY <1>1, <1>2, <1>6 DEF Then, c
  <1>11. QED
    BY <1>1, <1>2, <1>3, <1>4, <1>7, <1>8, <1>9, <1>10 DEF RInv, c

\* A run has its fields, whatever is in them.
RunFields ==
    run = [step |-> run.step, view |-> run.view, nested |-> run.nested,
           reentered |-> run.reentered, checkpoint |-> run.checkpoint]

\* Only the store hands out leases: no call of a view changes the epoch.
LEMMA ViewKeepsEpoch ==
    ASSUME NEW w \in Views, ViewNext(w)
    PROVE  epoch' = epoch
  BY DEF ViewNext, Open, PinPosition, Crash, AdvanceNow, Submit, Resubmit, Verify, VerifyDenied, AllowLost,
     ObserveCandidateClock, AppendEnvelope, Finalize, ReconcilePcp, ReconcileAmbiguous,
     ResolveAmbiguous, journalVars

\* What the steps of a profile do to the run: it ends, it starts, or it goes on
\* with its checkpoint, its view keeping its lease; and an effect that runs
\* keeps epoch and journal until a call of its own changes one of them.
LEMMA RunSteady ==
    ASSUME IInv, RInv, RunFields, [ProfileNext]_profileVars
    PROVE  /\ RunFields'
           /\ \/ run'.step \notin RunSteps
              \/ \E v \in Views, t \in Threads, now \in Clocks, task \in Tasks : StartRun(v, t, now, task)
              \/ /\ run'.checkpoint = run.checkpoint /\ run'.view = run.view
                 /\ run.step \in RunSteps /\ lease'[run.view] = lease[run.view]
                 /\ run'.step = "execute" /\ ~run'.reentered =>
                      run.checkpoint.epoch = epoch' /\ run.checkpoint.position = Len(records')
  <1> DEFINE Goes == /\ run'.checkpoint = run.checkpoint /\ run'.view = run.view
                     /\ run.step \in RunSteps /\ lease'[run.view] = lease[run.view]
                     /\ run'.step = "execute" /\ ~run'.reentered =>
                          run.checkpoint.epoch = epoch' /\ run.checkpoint.position = Len(records')
             Ends == run'.step \notin RunSteps
  <1>1. ASSUME run' = run, \/ run.step \notin RunSteps
                           \/ lease'[run.view] = lease[run.view] /\ epoch' = epoch /\ records' = records
        PROVE  RunFields' /\ (Ends \/ Goes)
    BY <1>1 DEF RunFields, RInv
  <1>2. ASSUME run' = NoRun PROVE RunFields' /\ Ends
    BY <1>2 DEF RunFields, NoRun, RunSteps
  <1>3. run = NoRun => run.step \notin RunSteps
    BY NoRunIdle
  <1>4. run.step \in RunSteps => run.view \in Views
    BY DEF RInv
  <1>5. UNCHANGED vars => lease' = lease /\ epoch' = epoch /\ records' = records /\ known' = known
    BY DEF vars, journalVars, viewVars
  <1>6. CASE UNCHANGED profileVars
    BY <1>1, <1>5, <1>6 DEF profileVars
  <1>7. CASE OtherAcquire
    BY <1>1, <1>3, <1>7 DEF OtherAcquire
  <1>8. ASSUME NEW n, NEW r, run' = [run EXCEPT !.nested = n, !.reentered = r],
               run.step = "execute" /\ ~r => ~run.reentered /\ epoch' = epoch /\ records' = records,
               lease'[run.view] = lease[run.view]
        PROVE  RunFields' /\ (Ends \/ Goes)
    <2>1. /\ run'.step = run.step /\ run'.checkpoint = run.checkpoint /\ run'.view = run.view
          /\ run'.reentered = r /\ RunFields'
      BY <1>8 DEF RunFields
    <2>2. CASE run.step \in RunSteps
      BY <1>8, <2>1, <2>2 DEF RInv
    <2>3. CASE run.step \notin RunSteps
      BY <2>1, <2>3
    <2>4. QED
      BY <2>2, <2>3
  <1>9. CASE NestedAcquire
    <2>1. /\ run' = [run EXCEPT !.nested = run.nested, !.reentered = (run.step = "execute")]
          /\ lease' = lease
      BY <1>9 DEF NestedAcquire, AcquireWriter, viewVars, RunFields
    <2>2. QED
      BY <1>8, <2>1
  <1>10. ASSUME NEW w \in Views, OtherStep(w) PROVE RunFields' /\ (Ends \/ Goes)
    <2>1. run' = run /\ ViewNext(w)
      BY <1>10 DEF OtherStep
    <2>2. CASE run.step \notin RunSteps
      BY <1>1, <2>1, <2>2
    <2>3. CASE run.step \in RunSteps
      <3>1. w # run.view /\ records' = records
        BY <1>3, <1>10, <2>3 DEF OtherStep
      <3>2. lease'[run.view] = lease[run.view] /\ epoch' = epoch
        BY <1>4, <2>1, <2>3, <3>1, LeaseOfOthers, ViewKeepsEpoch
      <3>3. QED
        BY <1>1, <2>1, <3>1, <3>2
    <2>4. QED
      BY <2>2, <2>3
  <1>11. ASSUME NEW w \in Views, NestedStep(w) PROVE RunFields' /\ (Ends \/ Goes)
    <2> DEFINE n == IF call'[w] = NoCall THEN None ELSE w
               r == run.step = "execute" /\ (run.reentered \/ <<epoch, records>>' # <<epoch, records>>)
    <2>1. /\ run' = [run EXCEPT !.nested = n, !.reentered = r]
          /\ lease'[w] = lease[w] /\ ViewNext(w)
      BY <1>11 DEF NestedStep
    <2>2. run.step = "execute" /\ ~r => ~run.reentered /\ epoch' = epoch /\ records' = records
      OBVIOUS
    <2> HIDE DEF n, r
    <2>3. CASE run.step \in RunSteps
      <3>1. lease'[run.view] = lease[run.view]
        BY <1>4, <2>1, <2>3, LeaseOfOthers
      <3>2. QED
        BY <1>8, <2>1, <2>2, <3>1
    <2>4. CASE run.step \notin RunSteps
      BY <2>1, <2>4 DEF RunFields
    <2>5. QED
      BY <2>3, <2>4
  <1>12. CASE \E v \in Views, t \in Threads, now \in Clocks : DenyOverdue(v, t, now)
    BY <1>1, <1>3, <1>12 DEF DenyOverdue, RunEnters
  <1>13. CASE \E v \in Views, t \in Threads, now \in Clocks, task \in Tasks : StartRun(v, t, now, task)
    BY <1>13 DEF StartRun, RunFields
  <1>14. CASE ActionAuthorized
    <2>1. /\ run.step = "authorize" /\ run' = [run EXCEPT !.step = "disclose"] /\ lease' = lease
      BY <1>5, <1>14 DEF ActionAuthorized, CallbackReturns
    <2>2. run'.step = "disclose" /\ run'.checkpoint = run.checkpoint /\ run'.view = run.view /\ RunFields'
      BY <2>1 DEF RunFields
    <2>3. QED
      BY <2>1, <2>2 DEF RunSteps
  <1>15. CASE CallbackDenies \/ EffectReturns
    BY <1>2, <1>15 DEF CallbackDenies, EffectReturns
  <1>16. CASE Dispatch
    <2>1. run.step = "disclose" /\ lease' = lease /\ epoch' = epoch /\ records' = records
      BY <1>5, <1>16 DEF Dispatch, CallbackReturns
    <2>2. CASE ~FenceHolds
      BY <1>2, <1>16, <2>2 DEF Dispatch
    <2>3. CASE FenceHolds
      <3>1. run' = [run EXCEPT !.step = "execute"]
        BY <1>16, <2>3 DEF Dispatch
      <3>2. run'.step = "execute" /\ run'.checkpoint = run.checkpoint /\ run'.view = run.view /\ RunFields'
        BY <3>1 DEF RunFields
      <3>3. lease[run.view] = epoch /\ run.checkpoint.position = Len(records)
        BY <2>3 DEF FenceHolds, LeaseCurrent
      <3>4. run.checkpoint.epoch = lease[run.view]
        BY <2>1 DEF RInv, RunSteps
      <3>5. QED
        BY <2>1, <3>2, <3>3, <3>4 DEF RunSteps
    <2>4. QED
      BY <2>2, <2>3
  <1>17. QED
    BY <1>6, <1>7, <1>9, <1>10, <1>11, <1>12, <1>13, <1>14, <1>15, <1>16 DEF ProfileNext

\* The fence that StartRun and Dispatch establish is kept until the effect
\* changes the journal or the lease itself.
LEMMA RInvNext ==
    ASSUME IInv, RInv, RunFields, [ProfileNext]_profileVars
    PROVE  RInv' /\ RunFields'
  <1>1. [Next]_vars
    BY ProfileStep
  <1>2. CASE run'.step \notin RunSteps
    BY <1>2, RunSteady DEF RInv
  <1>3. CASE \E v \in Views, t \in Threads, now \in Clocks, task \in Tasks : StartRun(v, t, now, task)
    BY <1>3, StartRunSound, RunSteady
  <1>4. CASE /\ run'.checkpoint = run.checkpoint /\ run'.view = run.view
             /\ run.step \in RunSteps /\ lease'[run.view] = lease[run.view]
             /\ run'.step = "execute" /\ ~run'.reentered =>
                  run.checkpoint.epoch = epoch' /\ run.checkpoint.position = Len(records')
    BY <1>1, <1>4, RunKept, RunSteady
  <1>5. QED
    BY <1>2, <1>3, <1>4, RunSteady

\* While an effect runs, and until a call of its own changes the journal or the
\* lease, nothing has overtaken it: no handoff, cancel, timeout or new writer, whoever tried it
\* and from whichever callback.  run_authorized reads lease and position again
\* after the callbacks, but neither the state, nor the floor, nor the deadline.
THEOREM EffectStaysFenced == ProfileSpec => []EffectFenced
  <1>1. ProfileInit => RInv /\ RunFields
    BY NoRunIdle DEF ProfileInit, RInv, RunFields, NoRun
  <1>2. ProfileSpec => []IInv
    BY ProfileIsRuntime, InvHolds, PTL
  <1>3. IInv /\ (RInv /\ RunFields) /\ [ProfileNext]_profileVars => (RInv /\ RunFields)'
    BY RInvNext
  <1>4. IInv /\ RInv => EffectFenced
    <2> SUFFICES ASSUME IInv, RInv, run.step = "execute", ~run.reentered PROVE EffectFenced
      BY DEF EffectFenced
    <2> DEFINE c == run.checkpoint
    <2>1. /\ c.epoch = epoch /\ c.position = Len(records)
          /\ Then(records, c.position, c.thread).state = "running"
          /\ Then(records, c.position, c.thread).floor = c.recipient
          /\ ~TimeoutDue(Then(records, c.position, c.thread), c.now)
      BY DEF RInv, RunSteps
    <2>2. SubSeq(records, 1, Len(records)) = records
      BY WholePrefix DEF IInv, Typed
    <2>3. Then(records, c.position, c.thread) = Replay(records).threads[c.thread]
      BY <2>1, <2>2 DEF Then
    <2>4. QED
      BY <2>1, <2>3 DEF EffectFenced
  <1>5. QED
    BY <1>1, <1>2, <1>3, <1>4, PTL DEF ProfileSpec

-----------------------------------------------------------------------------
(* The commits behind the effect.                                           *)

\* PCP has settled the records of the checkpoint's thread, each by its commit.
RSettled ==
    run.step \in RunSteps =>
        \A n \in EnvelopesOf(records, run.checkpoint.thread) :
            n <= run.checkpoint.position =>
                finalized[records[n].auth] = CommitRequest(records[n].envelope.id, n)

\* What the checkpoint found settled at PCP stays settled by the same request.
LEMMA RSettledNext ==
    ASSUME IInv, JInv, SInv, RInv, RunFields, RSettled, [ProfileNext]_profileVars
    PROVE  RSettled'
  <1>1. /\ [Next]_vars /\ SettledKept
        /\ records \in Seq(Record) /\ records' \in Seq(Record)
    BY ProfileStep, SInvNext, InvNext DEF IInv, Typed
  <1>2. CASE run'.step \notin RunSteps
    BY <1>2 DEF RSettled
  <1>3. ASSUME NEW v \in Views, NEW t \in Threads, NEW now \in Clocks, NEW task, StartRun(v, t, now, task)
        PROVE  RSettled'
    <2>1. /\ run'.checkpoint.thread = t /\ UNCHANGED vars /\ CommitsConfirmed(v, t)
      BY <1>3 DEF StartRun
    <2>2. records' = records /\ finalized' = finalized
      BY <2>1 DEF vars, journalVars, pcpVars
    <2>3. ASSUME NEW n \in EnvelopesOf(records, t)
          PROVE  finalized[records[n].auth] = CommitRequest(records[n].envelope.id, n)
      <3> DEFINE i == records[n].envelope.id
                 k == acks[v][i]
      <3>1. n \in Journaled(records) /\ i \in EnvelopeIds
        BY <1>1, CandidateFields DEF EnvelopesOf, Journaled, Record
      <3>2. k # None /\ k.confirmed
        BY <2>1 DEF CommitsConfirmed
      <3>3. /\ k.position \in Journaled(records) /\ records[k.position].envelope.id = i
            /\ finalized[records[k.position].auth] = CommitRequest(i, k.position)
        BY <3>1, <3>2 DEF SInv, AckTrue
      <3>4. k.position = n
        <4>1. PaidOnce(records)
          BY <1>1, ReplaySound DEF JInv, Sound
        <4>2. QED
          BY <3>1, <3>3, <4>1 DEF PaidOnce
      <3>5. QED
        BY <3>3, <3>4
    <2>4. QED
      BY <2>1, <2>2, <2>3 DEF RSettled
  <1>4. CASE run'.checkpoint = run.checkpoint /\ run.step \in RunSteps
    <2> DEFINE c == run.checkpoint
    <2>1. c.position \in 0..Len(records)
      BY <1>4 DEF RInv
    <2>2. SubSeq(records', 1, c.position) = SubSeq(records, 1, c.position) /\ c.position \in 0..Len(records')
      BY <1>1, <2>1, PrefixStays
    <2>3. ASSUME NEW n \in EnvelopesOf(records', c.thread), n <= c.position
          PROVE  finalized'[records'[n].auth] = CommitRequest(records'[n].envelope.id, n)
      <3>1. n \in DOMAIN records' /\ records'[n].kind = "envelope" /\ records'[n].envelope.thread = c.thread
        BY DEF EnvelopesOf, Journaled
      <3>2. n \in DOMAIN records /\ records'[n] = records[n]
        <4>1. /\ n \in 1..c.position /\ n \in DOMAIN records
              /\ SubSeq(records', 1, c.position)[n] = records'[n]
              /\ SubSeq(records, 1, c.position)[n] = records[n]
          BY <1>1, <2>1, <2>2, <2>3, <3>1
        <4>2. QED
          BY <2>2, <4>1
      <3>3. n \in EnvelopesOf(records, c.thread)
        BY <3>1, <3>2 DEF EnvelopesOf, Journaled
      <3>4. finalized[records[n].auth] = CommitRequest(records[n].envelope.id, n)
        BY <1>4, <2>3, <3>3 DEF RSettled
      <3>5. records[n].auth \in Authorizations /\ records[n].envelope.id \in EnvelopeIds /\ n \in Nat \ {0}
        BY <1>1, <3>1, <3>2, CandidateFields DEF Record
      <3>6. finalized[records[n].auth] # None
        BY <3>4, <3>5, RequestTypes
      <3>7. QED
        BY <1>1, <3>2, <3>4, <3>5, <3>6 DEF SettledKept
    <2>4. QED
      BY <1>4, <2>3 DEF RSettled
  <1>5. QED
    BY <1>2, <1>3, <1>4, RunSteady

\* An effect runs only after PCP has settled every commit of the thread that
\* the checkpoint covers, each at its own position: run_authorized looks only
\* at the acknowledgements its own view holds.
THEOREM EffectStaysSettled == ASSUME RebuildsAlone PROVE ProfileSpec => []EffectSettled
  <1>1. ProfileInit => RInv /\ RunFields /\ RSettled
    BY NoRunIdle DEF ProfileInit, RInv, RunFields, RSettled, NoRun
  <1>2. ProfileSpec => [](IInv /\ JInv /\ SInv)
    BY ProfileIsRuntime, SettlementHolds, PTL
  <1>3. (IInv /\ JInv /\ SInv) /\ (RInv /\ RunFields /\ RSettled) /\ [ProfileNext]_profileVars
          => (RInv /\ RunFields /\ RSettled)'
    BY RInvNext, RSettledNext
  <1>4. RSettled => EffectSettled
    BY DEF RSettled, EffectSettled, RunSteps
  <1>5. QED
    BY <1>1, <1>2, <1>3, <1>4, PTL DEF ProfileSpec

-----------------------------------------------------------------------------
(* The relation of two journals.                                            *)

\* The minimum of two numbers.
LEMMA MinOfTwo ==
    ASSUME NEW m \in Nat, NEW n \in Nat, m <= n
    PROVE  Min({m, n}) = m /\ Min({n, m}) = m
  <1>1. m \in {m, n} /\ \A y \in {m, n} : m <= y
    OBVIOUS
  <1>2. \A x \in {m, n} : (\A y \in {m, n} : x <= y) => x = m
    OBVIOUS
  <1>3. Min({m, n}) = m
    BY <1>1, <1>2 DEF Min
  <1>4. {n, m} = {m, n}
    OBVIOUS
  <1>5. QED
    BY <1>3, <1>4

\* An envelope record under another authorization is a record.
LEMMA RecordUnder ==
    ASSUME NEW r \in Record, r.kind = "envelope", NEW a \in Authorizations
    PROVE  LET q == [r EXCEPT !.auth = a]
           IN  /\ q \in Record /\ q.kind = "envelope" /\ q.auth = a
               /\ q.epoch = r.epoch /\ q.envelope = r.envelope
  <1>1. r \in [kind : {"envelope"}, epoch : 1..MaxEpoch, envelope : Candidates, auth : Authorizations]
    BY DEF Record
  <1> DEFINE q == [r EXCEPT !.auth = a]
  <1>2. /\ q \in [kind : {"envelope"}, epoch : 1..MaxEpoch, envelope : Candidates, auth : Authorizations]
        /\ q.auth = a /\ q.epoch = r.epoch /\ q.envelope = r.envelope
    BY <1>1
  <1> HIDE DEF q
  <1>3. q \in Record /\ q.kind = "envelope"
    BY <1>2 DEF Record
  <1>4. QED
    BY <1>2, <1>3 DEF q

\* One member of a sequence replaced.
LEMMA ReplacedIn ==
    ASSUME NEW R, NEW rs \in Seq(R), NEW n \in DOMAIN rs, NEW x \in R
    PROVE  LET qs == [rs EXCEPT ![n] = x]
           IN  /\ qs \in Seq(R) /\ Len(qs) = Len(rs) /\ DOMAIN qs = DOMAIN rs
               /\ qs[n] = x /\ \A m \in DOMAIN rs : m # n => qs[m] = rs[m]
  OBVIOUS

\* Sequences of one length with the same members are the same.
LEMMA SameMembers ==
    ASSUME NEW R, NEW rs \in Seq(R), NEW qs \in Seq(R), Len(rs) = Len(qs),
           \A m \in 1..Len(rs) : rs[m] = qs[m]
    PROVE  rs = qs
  OBVIOUS

\* One record under another authorization, the others as they were.
LEMMA ReauthorizedRecord ==
    ASSUME NEW rs \in Seq(Record), NEW n \in Journaled(rs), NEW a \in Authorizations
    PROVE  LET qs == Reauthorized(rs, n, a)
           IN  /\ qs \in Seq(Record) /\ Len(qs) = Len(rs) /\ DOMAIN qs = DOMAIN rs
               /\ qs[n] = [rs[n] EXCEPT !.auth = a]
               /\ \A m \in DOMAIN rs : m # n => qs[m] = rs[m]
               /\ \A m \in DOMAIN rs : qs[m].epoch = rs[m].epoch
  <1> DEFINE r == [rs[n] EXCEPT !.auth = a]
             qs == Reauthorized(rs, n, a)
  <1>1. n \in DOMAIN rs /\ rs[n] \in Record /\ rs[n].kind = "envelope"
    BY DEF Journaled
  <1>2. r \in Record /\ r.epoch = rs[n].epoch
    BY <1>1, RecordUnder
  <1>3. qs = [rs EXCEPT ![n] = r]
    BY DEF Reauthorized
  <1> HIDE DEF r, qs
  <1>4. /\ qs \in Seq(Record) /\ Len(qs) = Len(rs) /\ DOMAIN qs = DOMAIN rs
        /\ qs[n] = r /\ \A m \in DOMAIN rs : m # n => qs[m] = rs[m]
    BY <1>1, <1>2, <1>3, ReplacedIn
  <1>5. \A m \in DOMAIN rs : qs[m].epoch = rs[m].epoch
    BY <1>2, <1>4
  <1>6. QED
    BY <1>4, <1>5 DEF r, qs

\* Reauthorization and appending in either order.
LEMMA ReauthorizedAppend ==
    ASSUME NEW rs \in Seq(Record), NEW r \in Record, NEW a \in Authorizations
    PROVE  /\ \A n \in Journaled(rs) :
                Reauthorized(Append(rs, r), n, a) = Append(Reauthorized(rs, n, a), r)
           /\ r.kind = "envelope" =>
                Reauthorized(Append(rs, r), Len(rs) + 1, a) = Append(rs, [r EXCEPT !.auth = a])
  <1>1. ASSUME NEW n \in Journaled(rs)
        PROVE  Reauthorized(Append(rs, r), n, a) = Append(Reauthorized(rs, n, a), r)
    <2> DEFINE x == [rs[n] EXCEPT !.auth = a]
    <2>1. n \in DOMAIN rs /\ Append(rs, r)[n] = rs[n] /\ rs[n] \in Record /\ rs[n].kind = "envelope"
      BY DEF Journaled
    <2>2. x \in Record
      BY <2>1, RecordUnder
    <2>3. /\ Reauthorized(Append(rs, r), n, a) = [Append(rs, r) EXCEPT ![n] = x]
          /\ Reauthorized(rs, n, a) = [rs EXCEPT ![n] = x]
      BY <2>1, Zenon DEF Reauthorized
    <2> HIDE DEF x
    <2>4. [Append(rs, r) EXCEPT ![n] = x] = Append([rs EXCEPT ![n] = x], r)
      <3> DEFINE ps == Append(rs, r)
                 left == [ps EXCEPT ![n] = x]
                 changed == [rs EXCEPT ![n] = x]
                 right == Append(changed, r)
      <3>1. ps \in Seq(Record) /\ Len(ps) = Len(rs) + 1 /\ n \in DOMAIN ps
        BY <2>1
      <3> HIDE DEF ps
      <3>2. /\ left \in Seq(Record) /\ Len(left) = Len(rs) + 1 /\ left[n] = x
            /\ \A m \in DOMAIN ps : m # n => left[m] = ps[m]
        BY <2>2, <3>1, ReplacedIn
      <3>3. /\ changed \in Seq(Record) /\ Len(changed) = Len(rs) /\ changed[n] = x
            /\ \A m \in DOMAIN rs : m # n => changed[m] = rs[m]
        BY <2>1, <2>2, ReplacedIn
      <3> HIDE DEF left, changed
      <3>4. right \in Seq(Record) /\ Len(right) = Len(rs) + 1
        BY <3>3
      <3>5. \A m \in 1..(Len(rs) + 1) : left[m] = right[m]
        BY <2>1, <3>2, <3>3 DEF ps
      <3> HIDE DEF right
      <3>6. left = right
        BY <3>2, <3>4, <3>5, SameMembers
      <3>7. QED
        BY <3>6 DEF left, right, changed, ps
    <2>5. QED
      BY <2>3, <2>4
  <1>2. ASSUME r.kind = "envelope"
        PROVE  Reauthorized(Append(rs, r), Len(rs) + 1, a) = Append(rs, [r EXCEPT !.auth = a])
    <2> DEFINE x == [r EXCEPT !.auth = a]
               k == Len(rs) + 1
    <2>1. x \in Record
      BY <1>2, RecordUnder
    <2>2. Append(rs, r)[k] = r
      OBVIOUS
    <2>3. Reauthorized(Append(rs, r), k, a) = [Append(rs, r) EXCEPT ![k] = x]
      BY <2>2, Zenon DEF Reauthorized
    <2> HIDE DEF x
    <2>4. [Append(rs, r) EXCEPT ![k] = x] = Append(rs, x)
      <3> DEFINE ps == Append(rs, r)
                 left == [ps EXCEPT ![k] = x]
                 right == Append(rs, x)
      <3>1. ps \in Seq(Record) /\ Len(ps) = k /\ k \in DOMAIN ps
        OBVIOUS
      <3> HIDE DEF ps
      <3>2. /\ left \in Seq(Record) /\ Len(left) = k /\ left[k] = x
            /\ \A m \in DOMAIN ps : m # k => left[m] = ps[m]
        BY <2>1, <3>1, ReplacedIn
      <3>3. right \in Seq(Record) /\ Len(right) = k
        BY <2>1
      <3> HIDE DEF left
      <3>4. \A m \in 1..k : left[m] = right[m]
        BY <3>2 DEF ps
      <3> HIDE DEF right
      <3>5. left = right
        BY <3>2, <3>3, <3>4, SameMembers
      <3>6. QED
        BY <3>5 DEF left, right, ps
    <2>5. QED
      BY <2>3, <2>4 DEF x
  <1>3. QED
    BY <1>1, <1>2

\* Cache c with envelope i filed under authorization a.
Refiled(c, i, a) == [c EXCEPT !.auths = [c.auths EXCEPT ![i] = a]]

\* Two memories with the same fields are the same.
LEMMA SameCache ==
    ASSUME NEW c \in Cache, NEW d \in Cache, c.threads = d.threads, c.envelopes = d.envelopes,
           c.auths = d.auths, c.ok = d.ok
    PROVE  c = d
  BY DEF Cache

\* Only the authorization of envelope i is different.
LEMMA RefiledFields ==
    ASSUME NEW c \in Cache, NEW i \in EnvelopeIds, NEW a \in Authorizations
    PROVE  LET d == Refiled(c, i, a)
           IN  /\ d \in Cache /\ d.threads = c.threads /\ d.envelopes = c.envelopes /\ d.ok = c.ok
               /\ d.auths = [c.auths EXCEPT ![i] = a]
               /\ c.auths \in [EnvelopeIds -> Authorizations \cup {None}]
  <1> DEFINE auths == [c.auths EXCEPT ![i] = a]
  <1>1. /\ auths \in [EnvelopeIds -> Authorizations \cup {None}]
        /\ c.auths \in [EnvelopeIds -> Authorizations \cup {None}]
    BY DEF Cache
  <1>2. Refiled(c, i, a) = [c EXCEPT !.auths = auths]
    BY DEF Refiled
  <1> HIDE DEF auths
  <1>3. QED
    BY <1>1, <1>2 DEF Cache, auths

\* The threads that a legal envelope leaves, and the type of the whole.
LEMMA WithEnvelopeFields ==
    ASSUME NEW c \in Cache, NEW e \in Candidates, NEW a \in Authorizations,
           TransitionAllowed(e, c.threads[e.thread])
    PROVE  LET n == WithEnvelope(c, e, a) IN
           /\ n \in Cache /\ n.ok = c.ok
           /\ n.envelopes = [c.envelopes EXCEPT ![e.id] = e]
           /\ n.auths = [c.auths EXCEPT ![e.id] = a]
           /\ n.threads = [c.threads EXCEPT ![e.thread] = ApplyEnvelope(@, e)]
  <1>1. WithEnvelope(c, e, a).threads = [c.threads EXCEPT ![e.thread] = ApplyEnvelope(@, e)]
    BY DEF WithEnvelope, Cache
  <1>2. QED
    BY <1>1, WithEnvelopeEffect

\* Record r replays on cache d, in which envelope i is filed under a fresh
\* authorization, as it replays on cache c.
LEMMA RefiledAbsorbs ==
    ASSUME NEW c \in Cache, NEW r \in Record, Absorb(c, r).ok, NEW i \in EnvelopeIds,
           NEW a \in Authorizations, c.envelopes[i] # None, r.kind = "envelope" => r.auth # a
    PROVE  Absorb(Refiled(c, i, a), r) = Refiled(Absorb(c, r), i, a)
  <1> DEFINE d == Refiled(c, i, a)
  <1>1. /\ d \in Cache /\ d.threads = c.threads /\ d.envelopes = c.envelopes /\ d.ok = c.ok
        /\ d.auths = [c.auths EXCEPT ![i] = a]
        /\ c.auths \in [EnvelopeIds -> Authorizations \cup {None}]
    BY RefiledFields
  <1> HIDE DEF d
  <1>2. CASE r.kind = "envelope"
    <2> DEFINE e == r.envelope
               b == r.auth
               n == WithEnvelope(c, e, b)
               m == WithEnvelope(d, e, b)
    <2>1. e \in Candidates /\ b \in Authorizations /\ e.id \in EnvelopeIds
      BY <1>2, CandidateFields DEF Record
    <2> HIDE DEF e, b
    <2>2. c.ok /\ EnvelopeReplays(c, e, b) /\ Absorb(c, r) = n
      BY <1>2 DEF Absorb, Cache, e, b
    <2>3. e.id # i /\ TransitionAllowed(e, c.threads[e.thread])
      BY <2>2 DEF EnvelopeReplays
    <2>4. EnvelopeReplays(d, e, b)
      BY <1>1, <1>2, <2>2 DEF EnvelopeReplays, b
    <2>5. Absorb(d, r) = m
      BY <1>1, <1>2, <2>2, <2>4 DEF Absorb, e, b
    <2>6. /\ n \in Cache /\ n.ok = c.ok
          /\ n.envelopes = [c.envelopes EXCEPT ![e.id] = e]
          /\ n.auths = [c.auths EXCEPT ![e.id] = b]
          /\ n.threads = [c.threads EXCEPT ![e.thread] = ApplyEnvelope(@, e)]
      BY <2>1, <2>3, WithEnvelopeFields
    <2>7. /\ m \in Cache /\ m.ok = c.ok
          /\ m.envelopes = [c.envelopes EXCEPT ![e.id] = e]
          /\ m.auths = [d.auths EXCEPT ![e.id] = b]
          /\ m.threads = [c.threads EXCEPT ![e.thread] = ApplyEnvelope(@, e)]
      BY <1>1, <2>1, <2>3, WithEnvelopeFields
    <2> HIDE DEF n, m
    <2>8. [[c.auths EXCEPT ![i] = a] EXCEPT ![e.id] = b] = [[c.auths EXCEPT ![e.id] = b] EXCEPT ![i] = a]
      BY <1>1, <2>1, <2>3
    <2>9. m = Refiled(n, i, a)
      <3> DEFINE q == Refiled(n, i, a)
      <3>1. /\ q \in Cache /\ q.threads = n.threads /\ q.envelopes = n.envelopes /\ q.ok = n.ok
            /\ q.auths = [n.auths EXCEPT ![i] = a]
        BY <2>6, RefiledFields
      <3> HIDE DEF q
      <3>2. q.auths = m.auths
        BY <1>1, <2>6, <2>7, <2>8, <3>1
      <3>3. m = q
        BY <1>1, <2>6, <2>7, <3>1, <3>2, SameCache
      <3>4. QED
        BY <3>3 DEF q
    <2>10. QED
      BY <2>2, <2>5, <2>9 DEF d
  <1>3. CASE r.kind # "envelope"
    <2> DEFINE t == r.thread
               n == WithTimeout(c, t, r.now)
               m == WithTimeout(d, t, r.now)
    <2>1. t \in Threads /\ r.now \in Nat
      BY <1>3, ClocksAssumption DEF Record
    <2>2. c.ok /\ TimeoutReplays(c, r) /\ Absorb(c, r) = n
      BY <1>3 DEF Absorb, Cache
    <2>3. TimeoutReplays(d, r)
      BY <1>1, <2>2 DEF TimeoutReplays
    <2>4. Absorb(d, r) = m
      BY <1>1, <1>3, <2>2, <2>3 DEF Absorb
    <2>5. /\ n \in Cache /\ n.ok = c.ok /\ n.envelopes = c.envelopes /\ n.auths = c.auths
          /\ m \in Cache /\ m.ok = d.ok /\ m.envelopes = d.envelopes /\ m.auths = d.auths
      BY <1>1, <2>1, WithTimeoutEffect
    <2>6. n.threads = m.threads
      BY <1>1, <2>1 DEF WithTimeout, Cache
    <2> HIDE DEF n, m
    <2>7. m = Refiled(n, i, a)
      BY <1>1, <2>5, <2>6, RefiledFields, SameCache
    <2>8. QED
      BY <2>2, <2>4, <2>7 DEF d
  <1>4. QED
    BY <1>2, <1>3

\* An authorization that a journal has not spent is not in its cache.
LEMMA UnpaidAbsent ==
    ASSUME NEW rs \in Seq(Record), Replay(rs).ok, NEW a \in Authorizations \ PaidIn(rs)
    PROVE  \A i \in EnvelopeIds : Replay(rs).auths[i] # a
  <1> SUFFICES ASSUME NEW i \in EnvelopeIds, Replay(rs).auths[i] = a PROVE FALSE
    OBVIOUS
  <1>1. Indexes(Replay(rs), rs)
    BY ReplaySound DEF Sound
  <1>2. a # None
    BY AuthorizationsAssumption
  <1>3. PICK n \in Journaled(rs) : rs[n].envelope.id = i
    BY <1>1, <1>2 DEF Indexes
  <1>4. Replay(rs).auths[i] = rs[n].auth
    BY <1>1, <1>3 DEF Indexes
  <1>5. QED
    BY <1>3, <1>4 DEF PaidIn

\* The last record under a fresh authorization replays as it did.
LEMMA RefiledLast ==
    ASSUME NEW c \in Cache, NEW r \in Record, r.kind = "envelope", Absorb(c, r).ok,
           NEW a \in Authorizations, \A i \in EnvelopeIds : c.auths[i] # a
    PROVE  Absorb(c, [r EXCEPT !.auth = a]) = Refiled(Absorb(c, r), r.envelope.id, a)
  <1> DEFINE q == [r EXCEPT !.auth = a]
             e == r.envelope
  <1>1. q.kind = "envelope" /\ q.auth = a /\ q.envelope = e
    BY RecordUnder
  <1>2. e \in Candidates /\ e.id \in EnvelopeIds
    BY CandidateFields DEF Record
  <1> HIDE DEF q, e
  <1>3. c.ok /\ EnvelopeReplays(c, e, r.auth) /\ Absorb(c, r) = WithEnvelope(c, e, r.auth)
    BY DEF Absorb, Cache, e
  <1>4. EnvelopeReplays(c, e, a)
    BY <1>3 DEF EnvelopeReplays
  <1>5. Absorb(c, q) = WithEnvelope(c, e, a)
    BY <1>1, <1>3, <1>4 DEF Absorb
  <1> DEFINE n == WithEnvelope(c, e, r.auth)
             m == WithEnvelope(c, e, a)
  <1>6. r.auth \in Authorizations /\ TransitionAllowed(e, c.threads[e.thread])
    BY <1>3 DEF Record, EnvelopeReplays
  <1>7. /\ n \in Cache /\ n.ok = c.ok
        /\ n.envelopes = [c.envelopes EXCEPT ![e.id] = e]
        /\ n.auths = [c.auths EXCEPT ![e.id] = r.auth]
        /\ n.threads = [c.threads EXCEPT ![e.thread] = ApplyEnvelope(@, e)]
    BY <1>2, <1>6, WithEnvelopeFields
  <1>8. /\ m \in Cache /\ m.ok = c.ok
        /\ m.envelopes = [c.envelopes EXCEPT ![e.id] = e]
        /\ m.auths = [c.auths EXCEPT ![e.id] = a]
        /\ m.threads = [c.threads EXCEPT ![e.thread] = ApplyEnvelope(@, e)]
    BY <1>2, <1>6, WithEnvelopeFields
  <1> HIDE DEF n, m
  <1>9. [[c.auths EXCEPT ![e.id] = r.auth] EXCEPT ![e.id] = a] = [c.auths EXCEPT ![e.id] = a]
    BY <1>2 DEF Cache
  <1>10. m = Refiled(n, e.id, a)
    BY <1>2, <1>7, <1>8, <1>9, RefiledFields, SameCache
  <1>11. QED
    BY <1>3, <1>5, <1>10 DEF q, e, n, m

\* The step of the induction over the length of the journal.
LEMMA ReauthorizedStep ==
    ASSUME NEW ps \in Seq(Record), NEW r \in Record, Replay(Append(ps, r)).ok, Replay(ps).ok,
           \A n \in Journaled(ps), a \in Authorizations \ PaidIn(ps) :
             Replay(Reauthorized(ps, n, a)) = Refiled(Replay(ps), ps[n].envelope.id, a),
           NEW n \in Journaled(Append(ps, r)), NEW a \in Authorizations \ PaidIn(Append(ps, r))
    PROVE  Replay(Reauthorized(Append(ps, r), n, a)) = Refiled(Replay(Append(ps, r)), Append(ps, r)[n].envelope.id, a)
  <1> DEFINE qs == Append(ps, r)
             k == Len(ps) + 1
             c == Replay(ps)
  <1>1. /\ qs[k] = r /\ k \notin DOMAIN ps /\ \A m \in DOMAIN ps : qs[m] = ps[m]
        /\ Journaled(qs) = Journaled(ps) \cup (IF r.kind = "envelope" THEN {k} ELSE {})
        /\ \A m \in Journaled(ps) : m \in DOMAIN ps
    BY JournaledAppend DEF Journaled
  <1>2. PaidIn(qs) = PaidIn(ps) \cup (IF r.kind = "envelope" THEN {r.auth} ELSE {})
    BY PaidAppend
  <1>3. Replay(qs) = Absorb(c, r) /\ c \in Cache /\ Indexes(c, ps) /\ Absorb(c, r).ok
    BY ReplayAppend, ReplaySound DEF Sound
  <1>4. a \in Authorizations \ PaidIn(ps) /\ (r.kind = "envelope" => r.auth # a)
    BY <1>2
  <1> HIDE DEF qs, k, c
  <1>5. CASE n = k
    <2>1. r.kind = "envelope"
      BY <1>1, <1>5 DEF qs, Journaled
    <2>2. Reauthorized(qs, k, a) = Append(ps, [r EXCEPT !.auth = a])
      BY <2>1, ReauthorizedAppend DEF qs, k
    <2>3. [r EXCEPT !.auth = a] \in Record
      BY <2>1, RecordUnder
    <2>4. Replay(Reauthorized(qs, k, a)) = Absorb(c, [r EXCEPT !.auth = a])
      BY <2>2, <2>3, ReplayAppend DEF c
    <2>5. \A i \in EnvelopeIds : c.auths[i] # a
      BY <1>4, UnpaidAbsent DEF c
    <2>6. Absorb(c, [r EXCEPT !.auth = a]) = Refiled(Absorb(c, r), r.envelope.id, a)
      BY <1>3, <2>1, <2>5, RefiledLast
    <2>7. QED
      BY <1>1, <1>3, <1>5, <2>4, <2>6 DEF qs
  <1>6. CASE n # k
    <2>1. n \in Journaled(ps) /\ qs[n] = ps[n] /\ ps[n] \in Record /\ ps[n].kind = "envelope"
      BY <1>1, <1>6 DEF qs, Journaled
    <2>2. ps[n].envelope \in Candidates
      BY <2>1 DEF Record
    <2>3. ps[n].envelope.id \in EnvelopeIds /\ ps[n].envelope # None
      BY <2>2, CandidateFields
    <2>4. c.envelopes[ps[n].envelope.id] # None
      BY <1>3, <2>1, <2>3 DEF Indexes
    <2>5. Reauthorized(qs, n, a) = Append(Reauthorized(ps, n, a), r) /\ Reauthorized(ps, n, a) \in Seq(Record)
      <3>1. Reauthorized(Append(ps, r), n, a) = Append(Reauthorized(ps, n, a), r)
        BY <1>4, <2>1, ReauthorizedAppend
      <3>2. Reauthorized(ps, n, a) \in Seq(Record)
        BY <1>4, <2>1, ReauthorizedRecord
      <3>3. QED
        BY <3>1, <3>2 DEF qs
    <2>6. Replay(Reauthorized(qs, n, a)) = Absorb(Refiled(c, ps[n].envelope.id, a), r)
      <3>1. Replay(Reauthorized(ps, n, a)) = Refiled(c, ps[n].envelope.id, a)
        BY <1>4, <2>1 DEF c
      <3>2. QED
        BY <2>5, <3>1, ReplayAppend
    <2>7. Absorb(Refiled(c, ps[n].envelope.id, a), r) = Refiled(Absorb(c, r), ps[n].envelope.id, a)
      BY <1>3, <1>4, <2>3, <2>4, RefiledAbsorbs
    <2>8. QED
      BY <1>3, <2>1, <2>6, <2>7 DEF qs
  <1>7. QED
    BY <1>5, <1>6

\* A journal in which one record carries an authorization that nothing spent
\* still rebuilds: nothing but the authorization of that envelope is different.
LEMMA ReauthorizedReplays ==
    ASSUME NEW rs \in Seq(Record), Replay(rs).ok, NEW n \in Journaled(rs),
           NEW a \in Authorizations \ PaidIn(rs)
    PROVE  Replay(Reauthorized(rs, n, a)) = Refiled(Replay(rs), rs[n].envelope.id, a)
  <1> DEFINE P(qs) == \A m \in Journaled(qs), b \in Authorizations \ PaidIn(qs) :
                        Replay(Reauthorized(qs, m, b)) = Refiled(Replay(qs), qs[m].envelope.id, b)
             S == {k \in Nat : \A qs \in Seq(Record) : Len(qs) = k /\ Replay(qs).ok => P(qs)}
  <1>1. 0 \in S
    <2>1. \A qs \in Seq(Record) : Len(qs) = 0 => Journaled(qs) = {}
      BY DEF Journaled
    <2>2. QED
      BY <2>1
  <1>2. ASSUME NEW k \in S PROVE k + 1 \in S
    <2> SUFFICES ASSUME NEW qs \in Seq(Record), Len(qs) = k + 1, Replay(qs).ok PROVE P(qs)
      OBVIOUS
    <2> DEFINE ps == SubSeq(qs, 1, k)
               r == qs[k + 1]
    <2>1. ps \in Seq(Record) /\ Len(ps) = k /\ r \in Record /\ qs = Append(ps, r)
      BY LastRecord
    <2>2. Replay(ps).ok
      BY PrefixReplays, k \in 0..Len(qs)
    <2>3. P(ps)
      BY <2>1, <2>2
    <2> HIDE DEF ps, r
    <2>4. P(Append(ps, r))
      <3> SUFFICES ASSUME NEW m \in Journaled(Append(ps, r)), NEW b \in Authorizations \ PaidIn(Append(ps, r))
                   PROVE  Replay(Reauthorized(Append(ps, r), m, b))
                            = Refiled(Replay(Append(ps, r)), Append(ps, r)[m].envelope.id, b)
        OBVIOUS
      <3>1. QED
        BY <2>1, <2>2, <2>3, ReauthorizedStep
    <2>5. QED
      BY <2>1, <2>4
  <1>3. S \in SUBSET Nat /\ Len(rs) \in Nat
    OBVIOUS
  <1>4. Len(rs) \in S
    <2> HIDE DEF S
    <2>1. QED
      BY <1>1, <1>2, <1>3, NumberInduction
  <1>5. QED
    BY <1>4

\* A history whose epochs never fall is authentic as soon as it replays.
LEMMA AuthenticWhenFenced ==
    ASSUME NEW rs \in Seq(Record), Replay(rs).ok,
           \A m, n \in DOMAIN rs : m <= n => rs[m].epoch <= rs[n].epoch
    PROVE  Authentic(rs)
  <1>1. CASE rs = <<>>
    BY <1>1 DEF Authentic, RebuildsUnder
  <1>2. CASE rs # <<>>
    <2>1. Len(rs) \in DOMAIN rs /\ \A n \in DOMAIN rs : n <= Len(rs)
      BY <1>2
    <2>2. Last(rs) = rs[Len(rs)]
      BY DEF Last
    <2>3. QED
      BY <1>2, <2>1, <2>2 DEF Authentic, RebuildsUnder
  <1>3. QED
    BY <1>1, <1>2

\* Two authentic histories of which one is a prefix of the other.
LEMMA PrefixRelation ==
    ASSUME NEW rs \in Seq(Record), NEW k \in 0..Len(rs), Authentic(rs), Authentic(SubSeq(rs, 1, k))
    PROVE  LET copy == SubSeq(rs, 1, k)
           IN  /\ JournalRelation(copy, rs) = (IF copy = rs THEN "same" ELSE "left_prefix")
               /\ JournalRelation(rs, copy) = (IF copy = rs THEN "same" ELSE "right_prefix")
  <1> DEFINE copy == SubSeq(rs, 1, k)
  <1>1. /\ copy \in Seq(Record) /\ Len(copy) = k /\ k \in Nat /\ Len(rs) \in Nat /\ k <= Len(rs)
        /\ SubSeq(copy, 1, k) = copy
    OBVIOUS
  <1>2. copy = rs <=> k = Len(rs)
    BY WholePrefix
  <1>3. Min({Len(copy), Len(rs)}) = k /\ Min({Len(rs), Len(copy)}) = k
    BY <1>1, MinOfTwo
  <1>4. CommonAgree(copy, rs) /\ CommonAgree(rs, copy)
    BY <1>1, <1>3 DEF CommonAgree
  <1> HIDE DEF copy
  <1>5. QED
    BY <1>1, <1>2, <1>4 DEF JournalRelation, copy

\* A history that differs from a longer one at a common position forks from it.
LEMMA ForkRelation ==
    ASSUME NEW rs \in Seq(Record), NEW qs \in Seq(Record), Authentic(rs), Authentic(qs),
           Len(qs) <= Len(rs), NEW n \in DOMAIN qs, qs[n] # rs[n]
    PROVE  JournalRelation(qs, rs) = "fork"
  <1>1. Len(qs) \in Nat /\ Len(rs) \in Nat /\ n \in 1..Len(qs)
    OBVIOUS
  <1>2. Min({Len(qs), Len(rs)}) = Len(qs)
    BY <1>1, MinOfTwo
  <1>3. SubSeq(qs, 1, Len(qs))[n] = qs[n] /\ SubSeq(rs, 1, Len(qs))[n] = rs[n]
    BY <1>1
  <1>4. ~CommonAgree(qs, rs)
    BY <1>2, <1>3 DEF CommonAgree
  <1>5. QED
    BY <1>4 DEF JournalRelation

\* journal_relation never takes a fork for a prefix nor a prefix for a fork: the
\* journal and an earlier copy of it are told apart by their lengths, and a copy
\* in which one envelope was committed under another authorization, wherever it
\* is, still rebuilds and is answered as a fork.
THEOREM RelationStaysTrue == ASSUME RebuildsAlone PROVE ProfileSpec => []RelationTellsForks
  <1>1. IInv /\ JInv => RelationTellsForks
    <2> SUFFICES ASSUME IInv, JInv, NEW k \in 0..Len(records)
                 PROVE  LET copy == SubSeq(records, 1, k)
                        IN  /\ JournalRelation(copy, records) = (IF copy = records THEN "same" ELSE "left_prefix")
                            /\ JournalRelation(records, copy) = (IF copy = records THEN "same" ELSE "right_prefix")
                            /\ \A n \in Journaled(copy), a \in Authorizations \ DOMAIN CommitsIn(copy) :
                                 JournalRelation(Reauthorized(copy, n, a), records) = "fork"
      BY DEF RelationTellsForks
    <2> DEFINE copy == SubSeq(records, 1, k)
    <2>1. /\ records \in Seq(Record) /\ Replay(records).ok
          /\ \A m, n \in DOMAIN records : m <= n => records[m].epoch <= records[n].epoch
      BY DEF IInv, Typed, Fenced, JInv
    <2>2. copy \in Seq(Record) /\ Replay(copy).ok
      BY <2>1, PrefixReplays
    <2>3. /\ Len(copy) = k /\ k <= Len(records)
          /\ \A n \in DOMAIN copy : n \in DOMAIN records /\ copy[n] = records[n]
      BY <2>1
    <2> HIDE DEF copy
    <2>4. \A m, n \in DOMAIN copy : m <= n => copy[m].epoch <= copy[n].epoch
      BY <2>1, <2>3
    <2>5. Authentic(records) /\ Authentic(copy)
      BY <2>1, <2>2, <2>4, AuthenticWhenFenced
    <2>6. ASSUME NEW n \in Journaled(copy), NEW a \in Authorizations \ DOMAIN CommitsIn(copy)
          PROVE  JournalRelation(Reauthorized(copy, n, a), records) = "fork"
      <3> DEFINE qs == Reauthorized(copy, n, a)
      <3>1. a \in Authorizations \ PaidIn(copy)
        BY PaidCommits
      <3>2. n \in DOMAIN copy /\ copy[n] \in Record /\ copy[n].kind = "envelope" /\ copy[n].auth # a
        BY <2>2, <3>1 DEF Journaled, PaidIn
      <3>3. /\ qs \in Seq(Record) /\ Len(qs) = k /\ DOMAIN qs = DOMAIN copy
            /\ qs[n] = [copy[n] EXCEPT !.auth = a]
            /\ \A m \in DOMAIN copy : qs[m].epoch = copy[m].epoch
        BY <2>2, <2>3, ReauthorizedRecord
      <3>4. Replay(qs) = Refiled(Replay(copy), copy[n].envelope.id, a)
        BY <2>2, <3>1, ReauthorizedReplays
      <3>5. Replay(qs).ok
        BY <2>2, <3>4, ReplaySound DEF Refiled, Sound, Cache
      <3>6. qs[n] # records[n]
        <4>1. [copy[n] EXCEPT !.auth = a].auth = a
          BY <3>1, <3>2, RecordUnder
        <4>2. QED
          BY <2>3, <3>2, <3>3, <4>1
      <3> HIDE DEF qs
      <3>7. Authentic(qs)
        BY <2>4, <3>3, <3>5, AuthenticWhenFenced
      <3>8. QED
        BY <2>1, <2>3, <2>5, <3>2, <3>3, <3>6, <3>7, ForkRelation DEF qs
    <2>7. QED
      BY <2>1, <2>5, <2>6, PrefixRelation DEF copy
  <1>2. QED
    BY <1>1, ProfileIsRuntime, FoldHolds, PTL

-----------------------------------------------------------------------------
(* The event that installed the floor.                                      *)

\* Envelope e, committed on snapshot s, gives the floor to p.
Granted(e, s, p) ==
    \/ s.state = "void" /\ ~Gated(e) /\ p = e.target
    \/ s.state # "void" /\ Journal!FloorGranted(e, s, p)

\* Envelope e is one of those at which _floor_event sets floor_event.
Installing(e, s) ==
    \/ e.type \in FloorMoves /\ ~Gated(e)
    \/ e.type = "approve" /\ s.pending # None /\ s.pending.type \in FloorMoves

\* What waits at a gate is a well-formed move that can be gated.
Parkable(s) == s.pending # None => s.pending \in Candidates /\ s.pending.type \in FloorMoves \cup {"resume"}

\* Coordination names the assignee and the gate as Runtime does.
LEMMA SameGrant ==
    ASSUME NEW e, NEW s, NEW p
    PROVE  Journal!FloorGranted(e, s, p) <=>
             \/ e.type = "handoff" /\ ~Gated(e) /\ e.signer = s.floor /\ p = e.target
             \/ e.type = "retry" /\ ~Gated(e) /\ e.signer = s.principal /\ p = NamedAssignee(s, e)
             \/ e.type = "cancel" /\ e.signer \in {s.floor, s.principal} /\ p = None
             \/ /\ e.type = "approve" /\ e.signer = s.pending.approver
                /\ s.pending.type # "resume" /\ p = NamedAssignee(s, s.pending)
  BY DEF Journal!FloorGranted, Journal!Gated, Gated, Journal!NamedAssignee, NamedAssignee

\* A legal move gives the floor to somebody exactly when _floor_event counts it,
\* and then to the floor it leaves; any other one leaves the floor of an open
\* thread alone, or cancels the thread.
LEMMA InstallingGrants ==
    ASSUME NEW s \in Snapshot, Parkable(s), NEW e \in Candidates, TransitionAllowed(e, s)
    PROVE  LET n == ApplyEnvelope(s, e) IN
           /\ n \in Snapshot /\ n.state # "void" /\ Parkable(n) /\ s.state # "cancelled"
           /\ Installing(e, s) => Granted(e, s, n.floor)
           /\ ~Installing(e, s) => \A p \in Principals : ~Granted(e, s, p)
           /\ ~Installing(e, s) /\ s.state # "void" => n.floor = s.floor \/ n.state = "cancelled"
  <1> DEFINE n == ApplyEnvelope(s, e)
             p == s.pending
  <1>1. e \in Envelope /\ WellFormed(e) /\ e.type \in MoveTypes
    BY CandidateFields, CandidatesAssumption, EnvelopeFields
  <1>2. /\ s.state # "cancelled"
        /\ e.type = "delegate" <=> s.state = "void"
        /\ e.type = "handoff" => s.state = "running" /\ e.signer = s.floor
        /\ e.type = "approve" => /\ s.state = "awaiting_approve" /\ p # None
                                 /\ e.signer = p.approver /\ e.of = p.id
        /\ e.type = "retry" => s.state = "failed" /\ e.signer = s.principal
        /\ e.type = "resume" => s.state = "paused" /\ e.signer = s.floor
    BY <1>1, AllowedMoves
  <1>3. /\ n \in Snapshot
        /\ e.type = "delegate" => ParkedOrRun(n, e, e.signer, e.target)
        /\ e.type = "handoff" => ParkedOrRun(n, e, s.floor, e.target)
        /\ e.type = "retry" => ParkedOrRun(n, e, s.floor, NamedAssignee(s, e))
        /\ e.type = "approve" =>
             /\ n.state = "running" /\ n.pending = None
             /\ n.floor = CASE p.type \in {"delegate", "handoff"} -> p.target
                            [] p.type = "retry" -> NamedAssignee(s, p)
                            [] OTHER -> s.floor
        /\ e.type = "fail" => n.state = "failed" /\ n.pending = None /\ n.floor = s.floor
        /\ e.type = "cancel" => n.state = "cancelled" /\ n.pending = None /\ n.floor = None
        /\ e.type = "resume" =>
             IF p # None
               THEN n.state = "awaiting_approve" /\ n.pending = p /\ n.floor = s.floor
               ELSE ParkedOrRun(n, e, s.floor, s.floor)
    BY <1>1, <1>2, MoveEffect
  <1> HIDE DEF n, p
  <1>4. e.type \notin {"approve", "fail", "cancel"} \/ ~Gated(e)
    BY <1>1 DEF WellFormed
  <1>5. None \notin Principals
    BY NoneAssumption
  <1>6. CASE e.type = "delegate"
    BY <1>2, <1>3, <1>6, SameGrant DEF ParkedOrRun, Parkable, Installing, Granted, FloorMoves, n
  <1>7. CASE e.type = "handoff"
    BY <1>2, <1>3, <1>7, SameGrant DEF ParkedOrRun, Parkable, Installing, Granted, FloorMoves, n
  <1>8. CASE e.type = "retry"
    BY <1>2, <1>3, <1>8, SameGrant DEF ParkedOrRun, Parkable, Installing, Granted, FloorMoves, n
  <1>9. CASE e.type = "approve"
    <2>1. /\ p \in Candidates /\ p.type \in {"delegate", "handoff", "retry", "resume"}
          /\ s.state # "void"
      BY <1>2, <1>9 DEF Parkable, FloorMoves, p
    <2>2. WellFormed(p)
      BY <2>1, CandidatesAssumption
    <2>3. p.type \in {"delegate", "handoff"} => NamedAssignee(s, p) = p.target
      BY <2>2 DEF WellFormed, NamedAssignee
    <2>4. /\ n.state = "running" /\ n.pending = None
          /\ p.type # "resume" => n.floor = NamedAssignee(s, p)
          /\ p.type = "resume" => n.floor = s.floor
      BY <1>3, <1>9, <2>1, <2>3
    <2>5. Installing(e, s) <=> p.type # "resume"
      BY <1>2, <1>9, <2>1 DEF Installing, FloorMoves, p
    <2>6. \A q : Granted(e, s, q) <=> p.type # "resume" /\ q = NamedAssignee(s, p)
      BY <1>2, <1>9, <2>1, SameGrant DEF Granted, p
    <2>7. QED
      BY <1>2, <1>3, <2>4, <2>5, <2>6 DEF Parkable, n
  <1>10. CASE e.type = "fail"
    BY <1>2, <1>3, <1>10, SameGrant DEF Parkable, Installing, Granted, FloorMoves, n
  <1>11. CASE e.type = "cancel"
    BY <1>2, <1>3, <1>5, <1>11, SameGrant DEF Parkable, Installing, Granted, FloorMoves, n
  <1>12. CASE e.type = "resume"
    <2>1. /\ n.state # "void" /\ Parkable(n) /\ n.floor = s.floor
      BY <1>3, <1>12 DEF ParkedOrRun, Parkable, p
    <2>2. ~Installing(e, s) /\ \A q : ~Granted(e, s, q)
      BY <1>2, <1>12, SameGrant DEF Installing, Granted, FloorMoves
    <2>3. QED
      BY <1>2, <1>3, <2>1, <2>2 DEF n
  <1>13. QED
    BY <1>1, <1>6, <1>7, <1>8, <1>9, <1>10, <1>11, <1>12 DEF MoveTypes

\* The same of the floor and the gate, which a timeout leaves alone.
LEMMA ThreadStep ==
    ASSUME NEW rs \in Seq(Record), Replay(rs).ok, NEW t \in Threads, NEW n \in DOMAIN rs
    PROVE  LET before == SnapshotBefore(rs, t, n)
               after == Then(rs, n, t)
           IN  /\ before \in Snapshot /\ after \in Snapshot /\ before = Then(rs, n - 1, t)
               /\ n \in EnvelopesOf(rs, t) =>
                    /\ rs[n].envelope \in Candidates /\ TransitionAllowed(rs[n].envelope, before)
                    /\ after = ApplyEnvelope(before, rs[n].envelope)
               /\ n \notin EnvelopesOf(rs, t) =>
                    \/ after = before
                    \/ /\ before.state \in {"running", "awaiting_approve"}
                       /\ after.state = "paused" /\ after.floor = before.floor /\ after.pending = before.pending
  <1> DEFINE before == SnapshotBefore(rs, t, n)
             after == Then(rs, n, t)
  <1>1. before = Then(rs, n - 1, t)
    BY DEF SnapshotBefore, Then
  <1> HIDE DEF before
  <1>2. /\ before \in Snapshot /\ after \in Snapshot
        /\ n \in EnvelopesOf(rs, t) =>
             /\ rs[n].envelope \in Candidates /\ TransitionAllowed(rs[n].envelope, before)
             /\ after = ApplyEnvelope(before, rs[n].envelope)
        /\ n \notin EnvelopesOf(rs, t) =>
             \/ after = before
             \/ TimeoutDue(before, rs[n].now) /\ rs[n].now \in Nat /\ after = ApplyTimeout(before, rs[n].now)
    BY <1>1, RecordStep
  <1> HIDE DEF after
  <1>3. ASSUME TimeoutDue(before, rs[n].now), rs[n].now \in Nat, after = ApplyTimeout(before, rs[n].now)
        PROVE  /\ before.state \in {"running", "awaiting_approve"}
               /\ after.state = "paused" /\ after.floor = before.floor /\ after.pending = before.pending
    BY <1>2, <1>3, TimeoutEffect DEF TimeoutDue
  <1>4. QED
    BY <1>1, <1>2, <1>3 DEF before, after

\* A thread is open once an envelope of it is journaled, and what waits at its
\* gate is a move that can be gated.
LEMMA ThreadOpens ==
    ASSUME NEW rs \in Seq(Record), Replay(rs).ok, NEW t \in Threads, NEW k \in 0..Len(rs)
    PROVE  /\ Then(rs, k, t) \in Snapshot /\ Parkable(Then(rs, k, t))
           /\ Then(rs, k, t).state = "void" <=> \A m \in EnvelopesOf(rs, t) : m > k
  <1> DEFINE P(j) == /\ Then(rs, j, t) \in Snapshot /\ Parkable(Then(rs, j, t))
                     /\ Then(rs, j, t).state = "void" <=> \A m \in EnvelopesOf(rs, t) : m > j
             S == {j \in Nat : j <= Len(rs) => P(j)}
  <1>1. EnvelopesOf(rs, t) \subseteq 1..Len(rs) /\ Len(rs) \in Nat
    BY DEF EnvelopesOf, Journaled
  <1>2. 0 \in S
    <2>1. Then(rs, 0, t) = VoidSnapshot
      <3>1. SubSeq(rs, 1, 0) = <<>>
        OBVIOUS
      <3>2. Then(rs, 0, t) = EmptyCache.threads[t]
        BY <3>1, ReplayEmpty DEF Then
      <3>3. QED
        BY <3>2 DEF EmptyCache
    <2>2. \A m \in EnvelopesOf(rs, t) : m > 0
      BY <1>1
    <2>3. VoidSnapshot.state = "void" /\ VoidSnapshot.pending = None
      BY DEF VoidSnapshot
    <2>4. QED
      BY <2>1, <2>2, <2>3, VoidSnapshotType DEF Parkable
  <1>3. ASSUME NEW j \in S PROVE j + 1 \in S
    <2> SUFFICES ASSUME j + 1 <= Len(rs) PROVE P(j + 1)
      OBVIOUS
    <2> DEFINE n == j + 1
               before == Then(rs, j, t)
               after == Then(rs, n, t)
    <2>1. P(j)
      BY <1>1
    <2>2. n \in DOMAIN rs /\ n - 1 = j
      BY <1>1
    <2>3. /\ after \in Snapshot
          /\ n \in EnvelopesOf(rs, t) =>
               /\ rs[n].envelope \in Candidates /\ TransitionAllowed(rs[n].envelope, before)
               /\ after = ApplyEnvelope(before, rs[n].envelope)
          /\ n \notin EnvelopesOf(rs, t) =>
               \/ after = before
               \/ /\ before.state \in {"running", "awaiting_approve"}
                  /\ after.state = "paused" /\ after.floor = before.floor /\ after.pending = before.pending
      BY <2>2, ThreadStep
    <2> HIDE DEF before, after
    <2>4. before \in Snapshot /\ Parkable(before)
      BY <2>1 DEF before
    <2>5. CASE n \in EnvelopesOf(rs, t)
      <3>1. Parkable(after) /\ after.state # "void"
        BY <2>3, <2>4, <2>5, InstallingGrants
      <3>2. QED
        BY <2>3, <2>5, <3>1 DEF after
    <2>6. CASE n \notin EnvelopesOf(rs, t)
      <3>1. Parkable(after) /\ (after.state = "void" <=> before.state = "void")
        BY <2>3, <2>4, <2>6 DEF Parkable
      <3>2. (\A m \in EnvelopesOf(rs, t) : m > j) <=> (\A m \in EnvelopesOf(rs, t) : m > n)
        BY <1>1, <2>6
      <3>3. before.state = "void" <=> \A m \in EnvelopesOf(rs, t) : m > j
        BY <2>1 DEF before
      <3>4. QED
        BY <2>3, <3>1, <3>2, <3>3 DEF after
    <2>7. QED
      BY <2>5, <2>6
  <1>4. S \in SUBSET Nat /\ k \in Nat /\ k <= Len(rs)
    BY <1>1
  <1>5. k \in S
    <2> HIDE DEF S
    <2>1. QED
      BY <1>2, <1>3, <1>4, NumberInduction
  <1>6. QED
    BY <1>4, <1>5

\* The last delegate of a thread is the envelope that opened it.
LEMMA OneDelegate ==
    ASSUME NEW rs \in Seq(Record), Replay(rs).ok, NEW t \in Threads, EnvelopesOf(rs, t) # {}
    PROVE  Max({m \in EnvelopesOf(rs, t) : rs[m].envelope.type = "delegate"}) = Min(EnvelopesOf(rs, t))
  <1> DEFINE E == EnvelopesOf(rs, t)
             o == Min(E)
             D == {m \in E : rs[m].envelope.type = "delegate"}
  <1>1. E \subseteq 1..Len(rs) /\ Len(rs) \in Nat /\ DOMAIN rs = 1..Len(rs)
    BY DEF EnvelopesOf, Journaled
  <1>2. o \in E /\ \A m \in E : o <= m
    BY <1>1, FirstOf
  <1>3. ASSUME NEW m \in E PROVE m \in D <=> m = o
    <2> DEFINE before == SnapshotBefore(rs, t, m)
    <2>1. m \in DOMAIN rs /\ m - 1 \in 0..Len(rs)
      BY <1>1
    <2>2. /\ before \in Snapshot /\ before = Then(rs, m - 1, t)
          /\ rs[m].envelope \in Candidates /\ TransitionAllowed(rs[m].envelope, before)
      BY <2>1, ThreadStep
    <2> HIDE DEF before
    <2>3. rs[m].envelope.type = "delegate" <=> before.state = "void"
      BY <2>2, CandidateFields, AllowedMoves
    <2>4. before.state = "void" <=> \A j \in E : j > m - 1
      BY <2>1, <2>2, ThreadOpens
    <2>5. QED
      BY <1>1, <1>2, <2>3, <2>4
  <1>4. D = {o}
    BY <1>2, <1>3
  <1> HIDE DEF D, o
  <1>5. Max({o}) = o
    BY <1>1, <1>2 DEF Max
  <1>6. QED
    BY <1>4, <1>5 DEF D, o

\* From the last installation on, the floor stays with whom it was given to,
\* until the thread is cancelled.
LEMMA FloorSince ==
    ASSUME NEW rs \in Seq(Record), Replay(rs).ok, NEW t \in Threads,
           NEW n \in FloorEvents(rs, t), \A m \in FloorEvents(rs, t) : m <= n,
           NEW k \in n..Len(rs)
    PROVE  \/ Then(rs, k, t).floor = Then(rs, n, t).floor
           \/ Then(rs, k, t).state = "cancelled"
  <1> DEFINE P(j) == Then(rs, j, t).floor = Then(rs, n, t).floor \/ Then(rs, j, t).state = "cancelled"
             S == {j \in Nat : n + j <= Len(rs) => P(n + j)}
  <1>1. n \in EnvelopesOf(rs, t) /\ n \in 1..Len(rs) /\ n \in Nat /\ Len(rs) \in Nat
    BY DEF FloorEvents, EnvelopesOf, Journaled
  <1>2. 0 \in S
    BY <1>1
  <1>3. ASSUME NEW j \in S PROVE j + 1 \in S
    <2> SUFFICES ASSUME n + (j + 1) <= Len(rs) PROVE P(n + (j + 1))
      OBVIOUS
    <2> DEFINE l == n + j
               m == n + (j + 1)
               before == Then(rs, l, t)
               after == Then(rs, m, t)
    <2>1. P(l) /\ m \in DOMAIN rs /\ m - 1 = l /\ l \in 0..Len(rs) /\ m > n /\ n <= l
      BY <1>1
    <2> HIDE DEF P
    <2>2. /\ after \in Snapshot /\ before = SnapshotBefore(rs, t, m)
          /\ m \in EnvelopesOf(rs, t) =>
               /\ rs[m].envelope \in Candidates /\ TransitionAllowed(rs[m].envelope, before)
               /\ after = ApplyEnvelope(before, rs[m].envelope)
          /\ m \notin EnvelopesOf(rs, t) =>
               \/ after = before
               \/ /\ before.state \in {"running", "awaiting_approve"}
                  /\ after.state = "paused" /\ after.floor = before.floor /\ after.pending = before.pending
      BY <2>1, ThreadStep
    <2>3. before \in Snapshot /\ Parkable(before) /\ before.state # "void"
      BY <1>1, <2>1, ThreadOpens
    <2>4. m \notin FloorEvents(rs, t)
      BY <1>1, <2>1 DEF FloorEvents
    <2>5. before.floor = Then(rs, n, t).floor \/ before.state = "cancelled"
      BY <2>1 DEF P
    <2> HIDE DEF l, m, before, after
    <2>6. CASE m \in EnvelopesOf(rs, t)
      <3>1. ~Installing(rs[m].envelope, before)
        BY <2>2, <2>4, <2>6 DEF FloorEvents, Installs, Installing
      <3>2. before.state # "cancelled" /\ (after.floor = before.floor \/ after.state = "cancelled")
        BY <2>2, <2>3, <2>6, <3>1, InstallingGrants
      <3>3. QED
        BY <2>5, <3>2 DEF P, m, after
    <2>7. CASE m \notin EnvelopesOf(rs, t)
      BY <2>2, <2>5, <2>7 DEF P, m, after
    <2>8. QED
      BY <2>6, <2>7 DEF m
  <1>4. S \in SUBSET Nat /\ k - n \in Nat /\ n + (k - n) = k
    BY <1>1
  <1>5. k - n \in S
    <2> HIDE DEF S
    <2>1. QED
      BY <1>2, <1>3, <1>4, NumberInduction
  <1>6. P(k)
    BY <1>1, <1>4, <1>5
  <1>7. QED
    BY <1>6

\* What _floor_event answers for a running thread that somebody holds.
LEMMA FloorEventTrue ==
    ASSUME NEW rs \in Seq(Record), Replay(rs).ok, NEW t \in Threads, FloorEvents(rs, t) # {},
           Replay(rs).threads[t].state = "running"
    PROVE  LET event == FloorEvent(rs, t)
               n == event.position
           IN  /\ n \in EnvelopesOf(rs, t) /\ n <= Len(rs)
               /\ event.id = rs[n].envelope.id
               /\ Granted(rs[n].envelope, SnapshotBefore(rs, t, n), Replay(rs).threads[t].floor)
               /\ event.from = SnapshotBefore(rs, t, n).floor
               /\ \A k \in EnvelopesOf(rs, t), p \in Principals :
                    k > n => ~Granted(rs[k].envelope, SnapshotBefore(rs, t, k), p)
               /\ event.task = TaskOf[rs[Min(EnvelopesOf(rs, t))].envelope.id]
  <1> DEFINE n == Max(FloorEvents(rs, t))
             E == EnvelopesOf(rs, t)
  <1>1. FloorEvents(rs, t) \subseteq 1..Len(rs) /\ Len(rs) \in Nat /\ E \subseteq 1..Len(rs)
    BY DEF FloorEvents, EnvelopesOf, Journaled
  <1>2. n \in FloorEvents(rs, t) /\ \A m \in FloorEvents(rs, t) : m <= n
    BY <1>1, LastOf
  <1> HIDE DEF n
  <1>3. n \in E /\ n \in DOMAIN rs /\ n <= Len(rs)
    BY <1>1, <1>2 DEF FloorEvents
  <1>4. \A k \in E : LET s == SnapshotBefore(rs, t, k)
                         e == rs[k].envelope
                     IN  /\ s \in Snapshot /\ Parkable(s)
                         /\ e \in Candidates /\ TransitionAllowed(e, s)
                         /\ Then(rs, k, t) = ApplyEnvelope(s, e)
                         /\ k \in FloorEvents(rs, t) <=> Installing(e, s)
    <2> TAKE k \in E
    <2>1. k \in DOMAIN rs /\ k - 1 \in 0..Len(rs)
      BY <1>1
    <2>2. Parkable(Then(rs, k - 1, t))
      BY <2>1, ThreadOpens
    <2>3. k \in FloorEvents(rs, t) <=> Installing(rs[k].envelope, SnapshotBefore(rs, t, k))
      BY DEF FloorEvents, Installs, Installing
    <2>4. QED
      BY <2>1, <2>2, <2>3, ThreadStep
  <1>5. Then(rs, n, t).floor = Replay(rs).threads[t].floor
    <2>1. Then(rs, Len(rs), t) = Replay(rs).threads[t]
      BY WholePrefix DEF Then
    <2>2. Len(rs) \in n..Len(rs)
      BY <1>1, <1>3
    <2>3. QED
      BY <1>2, <2>1, <2>2, FloorSince
  <1>6. Granted(rs[n].envelope, SnapshotBefore(rs, t, n), Replay(rs).threads[t].floor)
    BY <1>2, <1>3, <1>4, <1>5, InstallingGrants
  <1>7. ASSUME NEW k \in E, NEW p \in Principals, k > n
        PROVE  ~Granted(rs[k].envelope, SnapshotBefore(rs, t, k), p)
    <2>1. k \notin FloorEvents(rs, t)
      BY <1>1, <1>2, <1>7
    <2>2. QED
      BY <1>4, <2>1, InstallingGrants
  <1>8. Max({m \in E : rs[m].envelope.type = "delegate"}) = Min(E)
    BY <1>3, OneDelegate
  <1>9. /\ FloorEvent(rs, t).position = n
        /\ FloorEvent(rs, t).id = rs[n].envelope.id
        /\ FloorEvent(rs, t).from = SnapshotBefore(rs, t, n).floor
        /\ FloorEvent(rs, t).task = TaskOf[rs[Min(E)].envelope.id]
    BY <1>8 DEF FloorEvent, n
  <1>10. QED
    BY <1>3, <1>6, <1>7, <1>9

\* The checkpoint of a run names what installed the floor it checked.
Installed(rs, c) ==
    LET n == c.installedAt
    IN  /\ c.thread \in Threads
        /\ n \in EnvelopesOf(rs, c.thread) /\ n <= c.position
        /\ rs[n].envelope.id = c.installing
        /\ Granted(rs[n].envelope, SnapshotBefore(rs, c.thread, n), c.recipient)
        /\ c.from = SnapshotBefore(rs, c.thread, n).floor
        /\ \A k \in EnvelopesOf(rs, c.thread), p \in Principals :
             k > n /\ k <= c.position => ~Granted(rs[k].envelope, SnapshotBefore(rs, c.thread, k), p)
        /\ c.task = TaskOf[rs[Min(EnvelopesOf(rs, c.thread))].envelope.id]

RInstalled == run.step \in RunSteps => Installed(records, run.checkpoint)

\* It speaks of the prefix up to the position of the checkpoint only.
LEMMA InstalledByPrefix ==
    ASSUME NEW rs \in Seq(Record), NEW qs \in Seq(Record), NEW c, Installed(rs, c),
           c.position \in 0..Len(rs), c.position \in 0..Len(qs),
           SubSeq(qs, 1, c.position) = SubSeq(rs, 1, c.position)
    PROVE  Installed(qs, c)
  <1> DEFINE t == c.thread
             k == c.position
             E(ps) == EnvelopesOf(ps, t)
  <1>1. k \in Nat /\ k <= Len(rs) /\ k <= Len(qs) /\ Len(rs) \in Nat /\ Len(qs) \in Nat
    OBVIOUS
  <1>2. E(rs) \subseteq 1..Len(rs) /\ E(qs) \subseteq 1..Len(qs)
    BY DEF EnvelopesOf, Journaled
  <1>3. ASSUME NEW m \in 1..k
        PROVE  /\ qs[m] = rs[m] /\ (m \in E(qs) <=> m \in E(rs))
               /\ SnapshotBefore(qs, t, m) = SnapshotBefore(rs, t, m)
    <2>1. SubSeq(qs, 1, k)[m] = qs[m] /\ SubSeq(rs, 1, k)[m] = rs[m]
      BY <1>1
    <2>2. qs[m] = rs[m]
      BY <2>1
    <2>3. m \in DOMAIN qs /\ m \in DOMAIN rs
      BY <1>1
    <2>4. m \in E(qs) <=> m \in E(rs)
      BY <2>2, <2>3 DEF EnvelopesOf, Journaled
    <2>5. /\ SubSeq(SubSeq(qs, 1, k), 1, m - 1) = SubSeq(qs, 1, m - 1)
          /\ SubSeq(SubSeq(rs, 1, k), 1, m - 1) = SubSeq(rs, 1, m - 1)
      BY <1>1
    <2>6. QED
      BY <2>2, <2>4, <2>5 DEF SnapshotBefore
  <1>4. c.installedAt \in E(rs) /\ c.installedAt <= k
    BY DEF Installed
  <1>5. c.installedAt \in 1..k
    BY <1>1, <1>2, <1>4
  <1>6. Min(E(qs)) = Min(E(rs)) /\ Min(E(rs)) \in 1..k
    <2>1. E(qs) \subseteq Nat /\ E(rs) \subseteq Nat /\ c.installedAt \in E(qs)
      BY <1>2, <1>3, <1>4, <1>5
    <2>2. /\ Min(E(rs)) \in E(rs) /\ \A m \in E(rs) : Min(E(rs)) <= m
          /\ Min(E(qs)) \in E(qs) /\ \A m \in E(qs) : Min(E(qs)) <= m
      BY <1>4, <2>1, FirstOf
    <2>3. Min(E(rs)) \in 1..k /\ Min(E(qs)) \in 1..k
      <3>1. Min(E(rs)) <= c.installedAt /\ Min(E(qs)) <= c.installedAt
        BY <1>4, <2>1, <2>2
      <3>2. Min(E(rs)) \in 1..Len(rs) /\ Min(E(qs)) \in 1..Len(qs)
        BY <1>2, <2>2
      <3> HIDE DEF E
      <3>3. QED
        BY <1>1, <1>5, <3>1, <3>2
    <2>4. Min(E(rs)) \in E(qs) /\ Min(E(qs)) \in E(rs)
      BY <1>3, <2>2, <2>3
    <2>5. Min(E(rs)) <= Min(E(qs)) /\ Min(E(qs)) <= Min(E(rs))
      BY <2>2, <2>4
    <2> HIDE DEF E
    <2>6. QED
      BY <2>3, <2>5
  <1>7. \A m \in E(qs) : m <= k => m \in 1..k
    BY <1>1, <1>2
  <1>8. QED
    BY <1>3, <1>4, <1>5, <1>6, <1>7 DEF Installed

\* A run starts with what its view found, and keeps it.
LEMMA RInstalledNext ==
    ASSUME IInv, JInv, RInv, RunFields, RInstalled, [ProfileNext]_profileVars
    PROVE  RInstalled'
  <1>1. /\ [Next]_vars /\ records \in Seq(Record) /\ records' \in Seq(Record)
        /\ Replay(records).ok
    BY ProfileStep, InvNext DEF IInv, Typed, JInv
  <1>2. CASE run'.step \notin RunSteps
    BY <1>2 DEF RInstalled
  <1>3. ASSUME NEW v \in Views, NEW t \in Threads, NEW now \in Clocks, NEW task, StartRun(v, t, now, task)
        PROVE  RInstalled'
    <2> DEFINE s == cache[v].threads[t]
               j == Replay(records).threads[t]
               event == FloorEvent(records, t)
               c == run'.checkpoint
    <2>1. /\ c.thread = t /\ c.recipient = s.floor /\ c.position = known[v]
          /\ c.from = event.from /\ c.task = task
          /\ c.installing = event.id /\ c.installedAt = event.position
          /\ UNCHANGED vars
      BY <1>3 DEF StartRun
    <2>2. records' = records
      BY <2>1 DEF vars, journalVars
    <2>3. /\ s.state = "running" /\ FloorEvents(records, t) # {} /\ event.task = task
          /\ known[v] = Len(records) /\ Public(j) = Public(s)
      BY <1>3 DEF StartRun, RunEnters, ViewCurrent, ViewMatchesJournal
    <2>4. j.state = "running" /\ j.floor = s.floor
      BY <2>3 DEF Public
    <2> HIDE DEF s, event, c
    <2>5. LET n == event.position
          IN  /\ n \in EnvelopesOf(records, t) /\ n <= Len(records)
              /\ event.id = records[n].envelope.id
              /\ Granted(records[n].envelope, SnapshotBefore(records, t, n), j.floor)
              /\ event.from = SnapshotBefore(records, t, n).floor
              /\ \A k \in EnvelopesOf(records, t), p \in Principals :
                   k > n => ~Granted(records[k].envelope, SnapshotBefore(records, t, k), p)
              /\ event.task = TaskOf[records[Min(EnvelopesOf(records, t))].envelope.id]
      BY <1>1, <2>3, <2>4, FloorEventTrue DEF event
    <2> HIDE DEF j
    <2>6. Installed(records, c)
      BY <2>1, <2>3, <2>4, <2>5 DEF Installed
    <2>7. QED
      BY <2>2, <2>6 DEF RInstalled, c
  <1>4. CASE run'.checkpoint = run.checkpoint /\ run.step \in RunSteps
    <2> DEFINE c == run.checkpoint
    <2>1. c.position \in 0..Len(records) /\ Installed(records, c)
      BY <1>4 DEF RInv, RInstalled
    <2>2. SubSeq(records', 1, c.position) = SubSeq(records, 1, c.position) /\ c.position \in 0..Len(records')
      BY <1>1, <2>1, PrefixStays
    <2> HIDE DEF c
    <2>3. Installed(records', c)
      BY <1>1, <2>1, <2>2, InstalledByPrefix
    <2>4. QED
      BY <1>4, <2>3 DEF RInstalled, c
  <1>5. QED
    BY <1>2, <1>3, <1>4, RunSteady

\* The grant and the disclosure that an effect runs under are bound to the last
\* event that gave the floor to its recipient, to the holder it took it from,
\* and to the task of the envelope that opened the thread: _floor_event takes
\* the task of the last delegate, and a thread has only one.
THEOREM EffectStaysInstalled == ASSUME RebuildsAlone PROVE ProfileSpec => []EffectInstalled
  <1>1. ProfileInit => RInv /\ RunFields /\ RInstalled
    BY NoRunIdle DEF ProfileInit, RInv, RunFields, RInstalled, NoRun
  <1>2. ProfileSpec => [](IInv /\ JInv)
    BY ProfileIsRuntime, FoldHolds, PTL
  <1>3. (IInv /\ JInv) /\ (RInv /\ RunFields /\ RInstalled) /\ [ProfileNext]_profileVars
          => (RInv /\ RunFields /\ RInstalled)'
    BY RInvNext, RInstalledNext
  <1>4. RInstalled => EffectInstalled
    BY DEF RInstalled, Installed, RunSteps, EffectInstalled, GrantsFloor, Granted
  <1>5. QED
    BY <1>1, <1>2, <1>3, <1>4, PTL DEF ProfileSpec
=============================================================================
