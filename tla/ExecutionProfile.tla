-------------------------- MODULE ExecutionProfile --------------------------
(***************************************************************************)
(* conformance/execution_profile.py on top of Runtime: run_authorized lets  *)
(* an effect run for the floor of a thread, and journal_relation compares   *)
(* two journals.                                                            *)
(*                                                                         *)
(* A run holds the lock of its view and the store's lock from its first     *)
(* check to the return of the effect, so at most one run is under way.      *)
(* Other callers are kept out of the view and of every append.  The three   *)
(* callbacks (authorize_action, verify_disclosure, execute) run on the      *)
(* thread that owns these re-entrant locks: they may call this view, the    *)
(* store or any view whose lock is free, and such calls are nested in the   *)
(* run.                                                                     *)
(*                                                                         *)
(* The checks up to the first callback call nobody, and the locks keep      *)
(* everything they read in place: they are one step.  A denial that changes *)
(* nothing is no step at all.  The effect, grant and disclosure references  *)
(* only pass through to the callbacks, whose answers are arbitrary.         *)
(***************************************************************************)
EXTENDS Runtime

CONSTANTS
    Tasks,      \* contents of a task, by digest
    TaskOf      \* [EnvelopeIds -> Tasks \cup {None}]: the digest a delegate's
                \* task_ref pins, None for a reference that pins none

ASSUME TasksAssumption == None \notin Tasks /\ TaskOf \in [EnvelopeIds -> Tasks \cup {None}]

VARIABLE run    \* the run under way, NoRun when there is none; its effect has
                \* reentered once a call of its own changes the journal or the lease

profileVars == <<vars, run>>

NoRun == [step |-> "none", view |-> None, nested |-> None, reentered |-> FALSE, checkpoint |-> None]

ProfileInit == Init /\ run = NoRun

-----------------------------------------------------------------------------
(* What the journal says of the floor.                                      *)

SnapshotBefore(rs, t, n) == Replay(SubSeq(rs, 1, n - 1)).threads[t]

FloorMoves == {"delegate", "handoff", "retry"}

\* Faulty: a gated move installs the floor when it is proposed.
InstallsAtProposal(rs, t, n) == rs[n].envelope.type \in FloorMoves

\* The records at which _floor_event sets floor_event.
Installs(rs, t, n) ==
    LET e == rs[n].envelope
        pending == SnapshotBefore(rs, t, n).pending
    IN  \/ e.type \in FloorMoves /\ ~Gated(e)
        \/ e.type = "approve" /\ pending # None /\ pending.type \in FloorMoves

FloorEvents(rs, t) == {n \in EnvelopesOf(rs, t) : Installs(rs, t, n)}

\* _floor_event: the last installation, and the task of the last delegate.
FloorEvent(rs, t) ==
    LET n == Max(FloorEvents(rs, t))
        opening == Max({m \in EnvelopesOf(rs, t) : rs[m].envelope.type = "delegate"})
    IN  [id |-> rs[n].envelope.id, position |-> n, from |-> SnapshotBefore(rs, t, n).floor,
         task |-> TaskOf[rs[opening].envelope.id]]

-----------------------------------------------------------------------------
(* run_authorized.                                                          *)

\* The fields of a snapshot that public() shows.
Public(s) ==
    [state |-> s.state, principal |-> s.principal, floor |-> s.floor, pending |-> PendingId(s),
     seq |-> s.seq, now |-> s.now, deadline |-> s.deadline]

\* The view holds the current lease, has seen the whole journal, and remembers
\* what the journal says.
ViewCurrent(v) == LeaseCurrent(v) /\ known[v] = Len(records)

ViewMatchesJournal(v) ==
    LET replayed == Replay(records)
    IN  /\ Rebuilds(records)
        /\ replayed.envelopes = cache[v].envelopes /\ replayed.auths = cache[v].auths
        /\ \A t \in Threads : Public(replayed.threads[t]) = Public(cache[v].threads[t])

\* Faulty: only the last commit of the thread has to be confirmed.
LastCommitConfirmed(v, t) ==
    LET id == cache[v].threads[t].lastId IN acks[v][id] # None /\ acks[v][id].confirmed

\* Every journaled envelope of the thread has an acknowledgement that says
\* PCP confirmed it.
CommitsConfirmed(v, t) ==
    \A n \in EnvelopesOf(records, t) :
        LET ack == acks[v][records[n].envelope.id] IN ack # None /\ ack.confirmed

\* Both locks are free, and the first checks pass.
RunEnters(v, t, now) ==
    /\ run = NoRun
    /\ Idle(v) /\ ViewCurrent(v) /\ ViewMatchesJournal(v)
    /\ cache[v].threads[t].state # "void" /\ now >= cache[v].threads[t].now

\* A deadline that has passed is recorded, and the run denied.
DenyOverdue(v, t, now) ==
    /\ RunEnters(v, t, now)
    /\ TimeoutDue(cache[v].threads[t], now)
    /\ AppendAccepted(v, lease[v])
    /\ RecordTimeout(v, lease[v], t, now)
    /\ UNCHANGED <<epoch, pcpVars, lease, bookVars, call, run>>

\* All checks pass, and authorize_action is called with the checkpoint.
StartRun(v, t, now, task) ==
    LET s == cache[v].threads[t]
        event == FloorEvent(records, t)
    IN  /\ RunEnters(v, t, now)
        /\ ~TimeoutDue(s, now)
        /\ s.state = "running" /\ s.floor # None
        /\ FloorEvents(records, t) # {}
        /\ event.task = task
        /\ CommitsConfirmed(v, t)
        /\ run' = [step |-> "authorize", view |-> v, nested |-> None, reentered |-> FALSE,
                   checkpoint |->
                     [thread |-> t, recipient |-> s.floor, from |-> event.from, task |-> task,
                      installing |-> event.id, installedAt |-> event.position,
                      position |-> known[v], epoch |-> lease[v], now |-> now]]
        /\ UNCHANGED vars

\* No call of the callback is under way, so it may return.
CallbackReturns(step) == run.step = step /\ run.nested = None

\* authorize_action returns True; verify_disclosure is called.
ActionAuthorized ==
    /\ CallbackReturns("authorize")
    /\ run' = [run EXCEPT !.step = "disclose"]
    /\ UNCHANGED vars

\* One of the two raises, or returns anything else.
CallbackDenies ==
    /\ CallbackReturns("authorize") \/ CallbackReturns("disclose")
    /\ run' = NoRun
    /\ UNCHANGED vars

\* Faulty: nothing is read again after the callbacks.
FenceNotReread == TRUE

\* Lease and position are compared again after the callbacks.
FenceHolds ==
    /\ LeaseCurrent(run.view)
    /\ known[run.view] = Len(records)
    /\ known[run.view] = run.checkpoint.position

\* verify_disclosure returns True; the effect is dispatched behind the fence.
Dispatch ==
    /\ CallbackReturns("disclose")
    /\ run' = IF FenceHolds THEN [run EXCEPT !.step = "execute"] ELSE NoRun
    /\ UNCHANGED vars

EffectReturns ==
    /\ CallbackReturns("execute")
    /\ run' = NoRun
    /\ UNCHANGED vars

\* A step of a call that a callback makes. The locks of the run are its own;
\* another view's lock must be free when the call begins.
NestedStep(w) ==
    /\ run # NoRun
    /\ Up(w)
    /\ IF run.nested = None THEN call[w] = NoCall ELSE w = run.nested
    /\ ViewNext(w)
    /\ lease'[w] = lease[w]
    /\ run' = [run EXCEPT
                  !.nested = IF call'[w] = NoCall THEN None ELSE w,
                  !.reentered = run.step = "execute" /\ (@ \/ <<epoch, records>>' # <<epoch, records>>)]

NestedAcquire ==
    /\ run # NoRun /\ run.nested = None
    /\ AcquireWriter
    /\ run' = [run EXCEPT !.reentered = run.step = "execute"]

\* The next step of the call of w takes the store's lock.
WantsStore(w) == call[w].step \in {"observe", "append", "resolve"}

\* A step of another caller: during a run it gets neither lock.
OtherStep(w) ==
    /\ run # NoRun => w \notin {run.view, run.nested} /\ ~WantsStore(w)
    /\ ViewNext(w)
    /\ run # NoRun => records' = records
    /\ UNCHANGED run

OtherAcquire == run = NoRun /\ AcquireWriter /\ UNCHANGED run

ProfileNext ==
    \/ OtherAcquire
    \/ NestedAcquire
    \/ \E w \in Views : OtherStep(w) \/ NestedStep(w)
    \/ \E v \in Views, t \in Threads, now \in Clocks :
         \/ DenyOverdue(v, t, now)
         \/ \E task \in Tasks : StartRun(v, t, now, task)
    \/ ActionAuthorized
    \/ CallbackDenies
    \/ Dispatch
    \/ EffectReturns

ProfileSpec == ProfileInit /\ [][ProfileNext]_profileVars

-----------------------------------------------------------------------------
(* journal_relation.                                                        *)

\* Faulty: only the last common record is compared.
LastCommonAgree(left, right) ==
    LET common == Min({Len(left), Len(right)}) IN common > 0 => left[common] = right[common]

CommonAgree(left, right) ==
    LET common == Min({Len(left), Len(right)})
    IN  SubSeq(left, 1, common) = SubSeq(right, 1, common)

\* Each history must rebuild in a store of its own last epoch.
Authentic(rs) == RebuildsUnder(rs, IF rs = <<>> THEN 1 ELSE Last(rs).epoch)

JournalRelation(left, right) ==
    IF ~Authentic(left) \/ ~Authentic(right) THEN "denied"
    ELSE IF ~CommonAgree(left, right) THEN "fork"
    ELSE IF Len(left) = Len(right) THEN "same"
    ELSE IF Len(left) < Len(right) THEN "left_prefix" ELSE "right_prefix"

-----------------------------------------------------------------------------
(* Properties.                                                              *)

\* While an effect runs, and until a call of its own changes the journal or the
\* lease (whatever else it calls), the fence holds: the lease and the position of the checkpoint are current, and by the
\* whole journal the thread runs, its floor is the recipient and no timeout is
\* due.  No handoff, cancel, timeout or new writer has overtaken the effect,
\* whoever tried it and from whichever callback (spec/08, effect fence).
EffectFenced ==
    run.step = "execute" /\ ~run.reentered =>
        LET c == run.checkpoint
            s == Replay(records).threads[c.thread]
        IN  /\ c.epoch = epoch /\ c.position = Len(records)
            /\ s.state = "running" /\ s.floor = c.recipient
            /\ ~TimeoutDue(s, c.now)

\* An effect runs only after PCP has settled every commit of the thread that
\* the checkpoint covers, each at its own position (spec/08, current floor).
EffectSettled ==
    run.step = "execute" =>
        \A n \in EnvelopesOf(records, run.checkpoint.thread) :
            n <= run.checkpoint.position =>
                finalized[records[n].auth] = CommitRequest(records[n].envelope.id, n)

\* Record n gives the floor of thread t to p: it opens the thread ungated, or
\* Coordination counts it as a grant.
GrantsFloor(t, n, p) ==
    LET e == records[n].envelope
        s == SnapshotBefore(records, t, n)
    IN  \/ s.state = "void" /\ ~Gated(e) /\ p = e.target
        \/ s.state # "void" /\ Journal!FloorGranted(e, s, p)

\* The checkpoint that the grant and the disclosure are bound to names the
\* last event that gave the floor to the recipient, whom it took it from, and
\* the task of the envelope that opened the thread: a bundle for an earlier
\* holder, an earlier event or a proposal cannot match (spec/08, floor event).
EffectInstalled ==
    run.step = "execute" =>
        LET c == run.checkpoint
            n == c.installedAt
            opening == Min(EnvelopesOf(records, c.thread))
        IN  /\ n \in EnvelopesOf(records, c.thread)
            /\ records[n].envelope.id = c.installing
            /\ GrantsFloor(c.thread, n, c.recipient)
            /\ c.from = SnapshotBefore(records, c.thread, n).floor
            /\ \A k \in EnvelopesOf(records, c.thread), p \in Principals :
                 k > n /\ k <= c.position => ~GrantsFloor(c.thread, k, p)
            /\ c.task = TaskOf[records[opening].envelope.id]

\* A journal in which one record was committed under another authorization.
Reauthorized(rs, n, a) == [rs EXCEPT ![n].auth = a]

\* journal_relation answers by prefixes for the journal and an earlier copy of
\* it, and "fork" as soon as both sides hold a record they do not agree on,
\* wherever it is and even if only the authorization differs.
RelationTellsForks ==
    \A k \in 0..Len(records) :
        LET copy == SubSeq(records, 1, k)
        IN  /\ JournalRelation(copy, records) = (IF copy = records THEN "same" ELSE "left_prefix")
            /\ JournalRelation(records, copy) = (IF copy = records THEN "same" ELSE "right_prefix")
            /\ \A n \in Journaled(copy), a \in Authorizations \ DOMAIN CommitsIn(copy) :
                 JournalRelation(Reauthorized(copy, n, a), records) = "fork"
=============================================================================
