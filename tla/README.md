# Verification of the Legatus reference implementation

This directory holds TLA+ specifications of the program in `src/conformance`,
the TLC configurations that check them on small instances, and machine-checked
proofs, for every instance, of the properties of the thread state machine, of the
answers of `submit`, of the views that share a journal, of the effects that run behind
its fence and of the transcripts that it exports.

Legatus coordinates delegated work. A *thread* is opened by a `delegate`
envelope and moved on by `handoff`, `approve`, `fail`, `retry`, `cancel` and
`resume` envelopes, each signed by a principal. Several `Runtime` objects
("views") may write one append-only journal. Every envelope is authorised by
an outside service, PCP, which hands out a reservation that must in the end be
settled, by `commit` if the envelope became durable and by `release` if not.

## 1. The system

| Part | State | Operations | Talks to |
| --- | --- | --- | --- |
| Thread state machine (`validate_envelope`, `_check_causality_and_clock`, `_check_signer_and_transition`, `_apply_envelope`, `_apply_timeout`) | one `Snapshot` per thread: state, opener, floor, pending gate, seq, clock, deadline, last id, last assignee, previous floors | the seven moves and the timeout | pure; called by Runtime |
| `JournalStore` | `records`, the writer lease (id and epoch), a lock | `acquire_writer`, `append` (lease test, position compare-and-set) | shared by all views |
| `Runtime` | threads, committed envelopes, authorization ids, acknowledgements, pending PCP handoffs, ambiguous authorizations, the position it knows, a lock | `__init__`/`_rebuild`, `submit`, `advance_now`, `reconcile_pcp`, `reconcile_ambiguous_pcp`, `recover`, `export_transcript` | store, PCP verifier and finalizer (callbacks) |
| PCP as the code sees it (`FixtureVerifier`, or `PCPVerifier` with trusted callbacks) | reservations, settled outcomes | verify (allow or deny), finalize (commit or release) | called by Runtime while its lock is held |
| `execution_profile.py` | none of its own | `run_authorized`, `journal_relation` | Runtime, three callbacks |
| `pcp_verifier.py` | none | order of proof checks before the authority callback | key and authority callbacks |
| `run.py`, `trace.py`, `scripts/`, `schemas/` | none | test drivers, a demonstration, build checks, data shapes | the above |

The behaviours that are hard to get right and that tests hardly reach:

* **Interleavings of views.** A view's calls exclude each other, but the
  store's lock is held only inside `append`, and PCP is called between the checks
  and the append. Another view, a new lease or a loss of the process can come
  between any two of these steps.
* **Stale snapshots.** A view judges candidates on its own cached fold of the
  journal. Only the compare-and-set in `append` stands between a stale judgment
  and the journal, and nothing stands between it and a `release` sent to PCP.
* **Lost and repeated PCP calls.** The verifier may reserve and its answer not
  arrive. The finalizer may fail before or after its effect. Requests are repeated from three different books: the journal, the
  pending handoffs and the ambiguous authorizations.
* **Timeouts racing moves.** A deadline is noticed by an authoritative clock, by
  the `runtime_now` of a call or by the candidate's own clock, in that order, and
  the candidate is judged before and after.
* **Reads that no lock protects.** `_rebuild` reads the live list and then its
  length; `export_transcript` reads the snapshot and then the records.
* **Callbacks under locks.** `run_authorized` calls its three callbacks while it
  holds the re-entrant locks of its view and of the store: they may call back into
  the same view, into another one, or acquire a new lease.
* **Long legal sequences.** Gates frozen by timeouts, thawed by resumes and
  answered much later must find their proposer's authority intact.

What makes each part correct:

* Thread state machine: states, gates and floors fit together; authority passes
  only by grant; a gate falls only to its approver, the floor or the opener;
  no envelope slips past a deadline; sequence and parents form one unbroken chain.
* Journal and views: every journal that the views write is a behaviour of the
  thread state machine, can be rebuilt, and grows only under the current lease.
* Views: memory is always the fold of a prefix.
* Reservations: `commit` and `release` tell the truth about the journal, no
  reservation that a view has heard of is dropped, and every durable commit reaches PCP.
* Effects: an effect runs only for the floor of a running thread whose commits PCP has
  all settled, and nothing overtakes it but itself.
* Transcripts tell one moment of the journal; error codes name the first fault.

## 2. The modules

| Module | Models | Correspondence |
| --- | --- | --- |
| `Moves` | the pure functions of the thread state machine | `ApplyEnvelope` is `_apply_envelope`, one operator per move; `CausalityHolds`, `ClockHolds` and `TransitionAllowed` say that the two check methods return no failure; `TimeoutDue`/`ApplyTimeout` are the guards of `advance_now` and `_apply_timeout` |
| `Coordination` (extends `Moves`) | what the journal promises: the abstract specification | one action per kind of record: `Commit(e)` and `ObserveClock(t, now)`; variables `threads` and `envelopes` are the dictionaries of the same names |
| `Runtime` (extends `Moves`) | views, journal, lease and PCP: the implementation | one action per step between which others may act: `submit` is `Submit`, `Verify` (or `VerifyDenied`, or `AllowLost` if PCP reserves and its answer is lost), `ObserveCandidateClock`, `AppendEnvelope`, `Finalize`, or `Resubmit` and `Finalize` for a duplicate; `AdvanceNow`, `ReconcilePcp`, `ReconcileAmbiguous` and `ResolveAmbiguous`, `AcquireWriter`, `Open` with `PinPosition` (`__init__`, `_rebuild`), and `Crash` |
| `ExecutionProfile` (extends `Runtime`) | `run_authorized` and `journal_relation` | the variable `run` is the run that holds the locks: `StartRun` is everything up to the first callback, `DenyOverdue` the denial that records a timeout, `ActionAuthorized`, `CallbackDenies`, `Dispatch` (the fence) and `EffectReturns` the returns of the three callbacks; `NestedStep` and `NestedAcquire` are what a callback calls, `OtherStep` and `OtherAcquire` what other threads get done meanwhile |
| `Transcript` (extends `Runtime`) | `export_transcript` | `TranscriptOf` is the transcript as a function of a snapshot and of records; `Export` takes both at one moment |
| `TranscriptRace` (extends `Transcript`) | `export_transcript` beside a running call | `ReadState` and `ReadRecords` are its two reads |
| `EnvelopeCheck` (extends `Coordination`) | the code a candidate is answered with | `ShapeFailure` is the order of `validate_envelope`, `HistoryFailure` and `TransitionFailure` that of the two check methods, `AdapterAnswer` that of `PCPVerifier.__call__`, `Verdict` that of `submit` |
| `MovesProofs`, `CoordinationProofs`, `EnvelopeProofs`, `RuntimeProofs`, `JournalProofs`, `ReservationProofs`, `ProfileProofs`, `TranscriptProofs` | theorems | section 5 |
| `MCCoordination`, `MCThreads`, `MCRuntime`, `MCProfile`, `MCTranscriptRace` | TLC's candidates, clocks and scripts | |

`Runtime` implements `Coordination`: its module contains
`Journal == INSTANCE Coordination WITH threads <- Replay(records).threads, ...`,
and the property `JournalIsLegal` says that the fold of an empty journal is
initial and that every record appended, by whatever view on whatever stale
cache, is one step of `Coordination`. The fold is a function of `records` alone,
so all other steps stutter. `ExecutionProfile` implements `Runtime`: its steps
are those of `Runtime`, fewer of them while a run holds the locks.

Properties and faulty variants stand next to what they are about: an operator
marked `Faulty:` is the form a plausible bug would give to the operator after it
(for example `HandedOffAtProposal`, which moves the floor before the gate is
answered). No specification uses them; they serve to confirm that each property
notices such a bug.

### Abstractions

* Identifiers and principals are members of sets. An envelope carries the
  fields that the checks read: proof, `task_ref`, `ts`, `note` and stop codes
  are left out. `assignee` and `to` share the field `target`; `gate: true` is
  "an approver is named", which `validate_envelope` enforces. The digest that the
  `task_ref` of a delegate pins is the function `TaskOf` of `ExecutionProfile`.
* In `Runtime` a refused call is a call that does nothing, and the order of checks
  matters only where state changes in between; `EnvelopeCheck` models the codes. A
  candidate there is an envelope with a set of shape faults, the answer PCP has
  for its proof, and the clock its caller passes.
* A lease is its epoch. `acquire_writer` demands a higher epoch, so writer
  ids add nothing. A call tests the lease of its view, or one that the caller passes
  (`LeasesPassed`), and uses the lease it was tested with for its appends.
* `recover` is `Open` on a new view followed by `AdvanceNow` steps.
* PCP is `Verify`, `VerifyDenied`, `AllowLost` and `Deliver`. The verifier may reserve
  and then raise, or answer something malformed: the caller is told `unavailable` and
  the view keeps nothing (`AllowLost`, where `MayLoseAllow`). Lost answers are admitted in
  the runs that speak of reservations or of one view (`single_view`, `shared_lease`,
  `reservations_settle`, `lost_allow`); the others leave them out for the sake of
  their state spaces. The theorems hold with them and without. A finalization may be refused or
  unreachable, may take effect and lose its reply, or may be confirmed;
  `ReconcilePcp` sends its whole batch in one step and any subset takes effect and
  any subset of that is confirmed (`applied` and `confirmed`).
  `BindsReservations` and `ReservesOnlyLive` say how strict PCP is: the fixture
  binds a reservation to its request, but allows a released one again.
* A run of `run_authorized` holds the locks of its view and of the store from
  beginning to end. Its checks call nobody and are one step. Other threads reach
  neither the view nor an append; steps of calls already past their last append go on.
  The callbacks run on the thread that owns the locks, so the calls they make are
  steps of the same run, one nested call at a time, on the same view or on another one
  whose lock is free. A `run_authorized` that a callback makes on the same thread is
  among these calls only by the timeout it may append and by what its own callbacks
  call: it is not a second `run` with a checkpoint of its own. `reentered` is set once a
  call of the effect itself changes the journal or the lease: from then on what has
  overtaken the effect is its own doing.
* `export_transcript` shows the records up to the view's position. The caller's action
  and receipt references are appended after a membership test and leave no state.
* The proof adapter is the order of its checks and outages: what a signature is
  made of, and the compact encoding, are a fault or two each. `AdapterChecks` is the
  order of the code; the faults that the property demands an answer to (`ProofFaults`) are
  listed from docs/pcp-verifier-adapter.md and not from that order, so a check that the
  code lacked would be noticed.
* Reservation expiry belongs to PCP and is not in this code; positions and
  sequence numbers are unbounded, so the 2^53 - 1 limits are not reached.
* `RebuildIsAtomic` is an assumption on deployments with several views: no
  record is appended while a view is being built. The code does not enforce it;
  run `rebuild_race` shows what happens without it, and `single_view` does not need it.
* `ExclusiveLeases` says that a deployment opens one view per lease;
  spec/06, H-014, and the tests also use two views of one lease, so most runs do.

## 3. The runs

| Run | Instance | Shows |
| --- | --- | --- |
| `coordination` | one thread, three principals, envelopes 1..7, clocks 0..4, deadlines one tick away, gates of one approver; every move by every signer | types, `ThreadsCoherent`, `ProposersHold`, `NoOverdueThread`, `SeqGapless`, `GateNotDropped`, `FloorMovesByGrant`, `HistoryGrows` |
| `two_threads` | two threads over one set of five identifiers; parents, numbers, clocks, signers, moves and identifiers right and wrong in every combination of up to two parents; some candidates with faults of shape or proof | `ParentsChain`; `FirstFaultAnswers`: a candidate is answered with its first fault in the documented order, or with a `SIG` of its shape ahead of it; `AdapterSound`: with any two things wrong and every valid answer of the authority, only a faultless and allowed proof commits, every documented fault is answered `SIG` before the authority is asked, and an outage blames nobody |
| `single_view` | one view that may be lost at any step and reopened, under leases that change and that callers pass, against a PCP that may answer two envelopes with one authorization | `TypeOK`, `CommittedNeverReleased`, `AcksTruthful`, `AuthorizationsUnique`, and under fairness `CommitsSettle` |
| `shared_lease` | two views of one lease on three envelopes of which one is legal only after a timeout and one only before; PCP's answers may be lost | `JournalIsLegal`, `JournalReplays`, `ViewsFoldPrefix`, `ReservationsKept`, `IneligibleForceNoTimeout` |
| `execution_profile` | two views, one per lease, a failover at any moment; effects run while a gated handoff, its approval, a cancel and a timeout come from other callers and from the callbacks | `EffectFenced`, `EffectSettled`, `EffectInstalled`, `RelationTellsForks`, `TranscriptFaithful`, `CommitsAreJournaled`, `FencedAppend` |
| `reservations_settle` | two views of one lease race an opening and a resume that is refused, with a failing finalizer, lost answers of the verifier and a sender that retries | under fairness `ReservationsSettle` |
| `lost_allow`, `late_release`, `absent_release`, `reopened_reservation`, `rebuild_race`, `transcript_race` | the smallest instances that show a disagreement | section 6 |

Why the bounds are enough. The longest chain of events that a property of one
thread depends on is: open, gate, time out, resume, time out again, fail, retry
under a gate, approve. Seven envelopes and five clock values reach each of its
pieces in all orders, with three principals so that opener, floor and approver
can differ. The view of `coordination` (`MCView`) keeps everything the next
step and the invariants depend on: only the contents of committed envelopes
that no check can look up again are dropped. For the views, a race needs two of
them, one record each may append, and a third envelope that becomes legal or
illegal by the timeout; `MaxEpoch = 2` gives one failover, and a second
would fence the second writer as the first fences the first one. The floor of an
effect changes hands once in `execution_profile`, by a proposal and its approval,
which is enough for an event that has been proposed but not installed, for one
that replaces another, and for both at the fence. A code is the first of the faults
a candidate has, so two faults at a time decide the order of each pair
(`Mishaps`). `OneToOne` gives each envelope its authorization, `Shared` lets two
envelopes be answered with the same one.

Deadlock is checked except where the bounds stop the system: the sequence bound in
`coordination` and `two_threads`, and in `execution_profile`
the last lease, under which a deposed view has nothing left to do.

Symmetry is used for views (`shared_lease`, `execution_profile`) and for threads
and identifiers (`two_threads`), where nothing distinguishes them; never with
liveness properties.

## 4. Fairness

`FairSpec` assumes, for each view: a lost view is reopened (weak fairness of
`Open`); a call that was begun comes to an end (`Progress`, weak, since the calls of the
code have no loops and the callbacks are expected to return); a view is not lost in
every single rebuild (`PinPosition`, strong); the caller keeps
calling `reconcile_pcp` and `reconcile_ambiguous_pcp`, as spec/03, section 6,
demands of it, and PCP is not unreachable for ever (`ReconcileReaches` and
`ResolveReaches`, strong: a view may crash again and again in between). Nothing
is assumed of submissions, of clocks or of leases. Finalizations may fail any
number of times before they succeed. No liveness is claimed of
`ExecutionProfile`: whether a callback returns is the deployment's affair.

`RetryingSpec`, for `reservations_settle` and `lost_allow`, adds the sender: a
candidate whose reservation no view has heard of was answered `unavailable`, which is
retriable, and spec/06 lets its sender submit the same candidate again. It does so
whenever the candidate can still be passed to PCP (`Retry`, strong: views and journal may
keep it from being so for a while), and not every answer of PCP to a retry is lost
(`Heard`, strong, since each retry gives it another chance).

`CommitsSettle` says that there is always a later moment at which the whole journal
is settled, not that a particular commit is settled in time. `ReservationsSettle` says it of
reservations, but for those of which no view has heard and whose candidate the journal
has `Overtaken`: its identifier is taken, or its clock no longer fits, so no view
passes it to PCP again. That there are such reservations is run `lost_allow`. Both runs
are without failover and without crashes: a deposed view cannot reconcile its
ambiguous reservations, and a lost one has forgotten them; PCP's expiry, outside
this code, is what closes those.

## 5. What is proved

Every theorem holds for all sets of views, principals, threads, identifiers,
authorizations, candidates, clocks and for every bound on the leases, from the
named assumptions on the constants: `None` is none of the
values it stands in for; candidates are well-formed envelopes with a clock of
`Clocks` (`validate_envelope` comes first in `submit`); clocks are naturals; PCP
answers an envelope with one of its authorizations; there are
finitely many identifiers (which only `SeqGapless` needs); what is presented to
`submit` has the fields it reads, and no answer code is `None`
(`PresentedAssumption`, `CodesAssumption`, only for `EnvelopeCheck`).
What the constants say of a deployment is a hypothesis of the theorems that need it:

* `RebuildsAlone`: `RebuildIsAtomic`, or a single view. Either way no append
  falls between the two reads of a rebuild.
* `SingleView`: there is one view, as in the run `single_view`. It implies
  `RebuildsAlone`, so it needs no assumption on rebuilds.
* `ReservesOnlyLive` and `BindsReservations`: how strict PCP is.
* `~MayCrash`: no view is lost, and with it its memory.

| Theorem | Property | Hypotheses |
| --- | --- | --- |
| `CoordinationProofs!TypesHold`, `CoherenceHolds`, `ProposersHoldAlways`, `DeadlinesHold` | `TypeOK`, `ThreadsCoherent`, `ProposersHold`, `NoOverdueThread` | |
| `GateKept`, `FloorGrantedAlways`, `HistoryOnlyGrows` | `GateNotDropped`, `FloorMovesByGrant`, `HistoryGrows` | |
| `SequenceGapless`, `ParentsAlwaysChain` | `SeqGapless`, `ParentsChain` | |
| `RuntimeProofs!TypesHold`, `AppendsFenced` | `TypeOK`, `FencedAppend` | |
| `JournalProofs!JournalAlwaysReplays`, `ViewsAlwaysFold`, `AuthorizationsStayUnique` | `JournalReplays`, `ViewsFoldPrefix`, `AuthorizationsUnique` | `RebuildsAlone` |
| `RuntimeImplementsCoordination` | `JournalIsLegal`, the refinement | `RebuildsAlone` |
| `CommitsStayJournaled`, `AcksStayTruthful` | `CommitsAreJournaled`, `AcksTruthful` | `RebuildsAlone` |
| `ReservationProofs!ReservationsStayListed` | `ReservationsKept` | `RebuildsAlone`, `~MayCrash` |
| `IneligibleNeverForces` | `IneligibleForceNoTimeout` | `RebuildsAlone`, `BindsReservations` |
| `CommittedStaysCommitted` | `CommittedNeverReleased` | `SingleView`, `ReservesOnlyLive` |
| `ReleasesStayAbsent`, `AppendsStayLive` | `ReleaseOnlyAbsent`, `AppendOnlyLive`, which `late_release` and `absent_release` refute for two views | `SingleView`, `ReservesOnlyLive` |
| `ProfileProofs!ProfileIsRuntime` | every behaviour of `ExecutionProfile` is one of `Runtime` | |
| `EffectStaysFenced` | `EffectFenced` | |
| `EffectStaysSettled`, `EffectStaysInstalled`, `RelationStaysTrue` | `EffectSettled`, `EffectInstalled`, `RelationTellsForks` | `RebuildsAlone` |
| `TranscriptProofs!TranscriptStaysFaithful` | `TranscriptFaithful` | `RebuildsAlone` |
| `EnvelopeProofs!FirstFaultHolds`, `AdapterIsSound` | `FirstFaultAnswers`, `AdapterSound` | |

The argument goes up module by module.

1. *Moves* (`MovesProofs`). One lemma per move gives the snapshot after it field by
   field (`DelegatedEffect` and so on, collected in `MoveEffect`), and `AllowedMoves`
   says in which state and by whom each move is legal.
2. *Threads* (`CoordinationProofs`). `MoveKeeps`: a legal move leaves a coherent
   snapshot whose gate is authorised and whose clock is within its deadline. `IInv`
   is inductive. The four invariants are not, one by one: that the proposer keeps its
   authority needs coherence (no floor moves while a gate is up), coherence after an
   approval needs the parked move to be well formed, and a committed envelope must be
   filed under its own id or a commit could overwrite the parked move's entry.
   `IInv` adds those facts (`Parks`, `Filed`). `HInv` adds, per thread, that every
   committed number is at most `seq`; with `IInv` it gives the gapless sequence
   and the chain of parents. The action properties follow step by step.
3. *Answers* (`EnvelopeProofs`). `FirstMatch` answers the first check that
   fails (`FirstHit`) and nothing if none does. So the answer of each stage is known
   once its checks are in order, and a candidate with a legal shape is answered by the
   first fault it has, whatever the thread (`FirstFault`); one with another shape by the
   first fault of the shape, unless `SIG` comes ahead (`FirstShapeFault`). For the adapter,
   `AdapterAnswers` holds for *every* set of mishaps and every valid answer of the
   authority; the property speaks of two mishaps. `ChecksDocumented` compares the
   two tables: each documented fault has its check, and each is answered `SIG`.
4. *The fold* (`RuntimeProofs`, first half). `Replay` is a recursive function of the
   position. Two facts are all that is used of it: the empty journal folds to `EmptyCache`
   (`ReplayEmpty`), and one more record is absorbed by the fold of what was there
   (`ReplayAppend`). They need that the function exists and is unique, by induction;
   `NumberInduction` (`MovesProofs`) states induction for *sets* of numbers and is
   proved by the pigeonhole principle. `ReplaySound` is then, along positions, that the
   fold of a journal has its type, and that a journal that replays is indexed by its
   envelopes and authorizations without repetition; `RecordStep`, that each record of
   such a journal was legal on the fold of what came before it.
5. *Calls* (`RuntimeProofs`, no hypotheses). `IInv` here is the types, epochs that never
   fall along the journal nor pass the lease (`Fenced`), and for each view that its
   running call fits its cache (`CallSound`: an envelope about to be appended is
   fresh and its move was judged legal on that cache; a request names the envelope) and
   that it acknowledges what it has filed (`BooksSound`, without which a duplicate
   would have no position to resend). One lemma per action.
6. *The journal* (`JournalProofs`). `JInv`: the journal replays, and every view holds
   the fold of its prefix. A view whose append is accepted has observed the whole
   journal, so what `CallSound` says of its cache holds of the journal: the append is
   a step of `Coordination`. Without `RebuildsAlone` this is false (`rebuild_race`).
7. *PCP* (`JournalProofs`, second half). `SInv` speaks of every place a commit can be
   sent from: settled requests, pending handoffs, calls under way and acknowledgements (a
   duplicate makes its request from one). All of them name durable records, since
   records keep their places; and settlements are final.
8. *Reservations* (`ReservationProofs`). `ReservationsKept` follows action by action
   (`ListedKept`, `NewlyListed`): a view puts a reservation on one list before it takes it off another,
   and its commits stay in the prefix it observes, which needs `JInv`. `BInv` says that the
   reservation of an allowed call stays its own, which needs a PCP that binds them.
   `CInv`, for a single view, is that no journaled authorization is
   released or on its way to be, and that a call about to append holds one that is not
   released. A pending release of a journaled authorization can outlast the append,
   which is harmless only because the call that appended it then delivers the
   commit before anybody sends the release.
9. *Effects* (`ProfileProofs`). A run restricts `Runtime`, so the above holds of it.
   `RInv` is about the checkpoint: its prefix stays in the journal, the thread
   as of that prefix is what was checked, and from the fence until the
   effect calls back, lease and position are current. `RSettled` is that the commits of
   that prefix stay settled; `RInstalled`, that the event that the checkpoint
   names is the last of that prefix that moved the floor, which holds when the run
   starts because the floor of a thread is the one its last floor event granted.
   The relation is a fact about journals that replay: records that differ only in the
   authorization differ, and prefixes differ in length.
10. *Transcripts* (`TranscriptProofs`). `FlattenSeq` lays the links of the records
   end to end (`FlattenLays`), so every envelope has its place among the links, in
   the order of the journal. The n-th envelope of a thread in a journal that
   replays has number n and a clock event its place between them (`Numbered`, by
   induction over positions), an approval answers a gate asked earlier
   (`ApprovalAnswers`), and a cancelled thread's last move is its cancel
   (`StopNamed`). Nothing after the last record of its thread changes the thread
   (`Covered`), so the prefix that the transcript names is enough to tell it.

Together with `RuntimeImplementsCoordination`, the theorems about `Coordination` hold
of the fold of every journal that views write.

Every invariant and every step property that a passing run checks is proved.
Only model-checked are the two liveness properties, `CommitsSettle` and
`ReservationsSettle`, since liveness under fairness is beyond the provers in use; and
what the violation runs of section 6 refute is a statement about their instances.

## 6. Disagreements between code and documents

* `lost_allow`. PCP reserves for a resume and its answer does not arrive. The view
  answers `unavailable` and keeps nothing. Another resume takes the sequence number, and
  from then on every retry of the first one fails the clock check before PCP is asked: its
  reservation gets neither `commit` nor `release`, with no crash and no failover. The README
  promises one of them for every reservation; spec/03 and spec/06 leave to PCP's
  expiry only what a lost process has forgotten.
* `late_release`. A view whose lease has been taken over while it waited for PCP
  refuses a resume on its own stale snapshot (the thread still runs there) and
  sends `release`. The new writer has meanwhile recorded the timeout and journaled
  that same resume. The README promises `commit` after a durable append.
* `absent_release`. Two views of one lease. One lost an append and calls
  `reconcile_ambiguous_pcp`; the other has been allowed the same envelope and has not
  appended yet. The envelope is absent from the locked journal, so it is
  released, and appended next. Absence in the journal proves nothing about
  calls under way.
* `reopened_reservation`. One view and the fixture verifier. A resume refused while the
  thread runs is released; after the timeout the same envelope is legal, the
  verifier allows it again under the same, already released authorization,
  and its commit is refused for ever. spec/02 asks for a *live* reservation.
  `single_view`, which checks `CommittedNeverReleased`, therefore assumes a PCP that
  reserves only live authorizations (`ReservesOnlyLive`).
* `rebuild_race`. `_rebuild` iterates over the live list and then takes its length.
  A record appended between the two is counted but not folded, and the
  compare-and-set accepts this view's next record, which no rebuild can replay.
* `transcript_race`. `export_transcript` is the one public call without the view's lock.
  A timeout recorded between its two reads yields a transcript that says `running` at
  the earlier clock beside a `journal_through` and a clock event of the timeout;
  spec/05 speaks of the state reconstructed from the journal. `TranscriptFaithful` is
  therefore about transcripts made between two steps of the view's calls.
Two more have no run of their own, since the model states them outright:

* spec/01 says that the first matching failure wins, and lists `SIG` after six other
  codes. `validate_envelope` answers a missing proof or a bad signer with `SIG` before it
  looks at the payload, and before duplicates, parents and clocks are checked.
  `FirstFaultAnswers` names this as the one exception to the documented order.
* spec/08 says that a profile denial does not mutate the journal. `run_authorized` on an
  overdue thread appends the timeout and then denies: action `DenyOverdue`.

## 7. Not modelled

* Cryptography, canonical JSON and the compact proof encoding: pure functions with no state.
* `parse_candidate` (bytes, UTF-8, duplicate members, size limits): text processing.
* The action and receipt references that the caller of `export_transcript` supplies, and
  its limits on the number of links.
* `PCPVerifier.finalize`: it passes a validated request on; what can happen to a
  finalization is in `Deliver`.
* Deadlock between locks: a callback of `run_authorized` that calls another view, whose
  own call holds that view's lock and waits for the store, never returns. `NestedStep`
  admits only calls whose lock is free, since a callback that waits for a lock cannot
  be told from one that does not return, and calling other views is the
  deployment's choice.
* A `run_authorized` nested in a callback of another on the same thread, as a run with a
  checkpoint of its own. What it does to the journal is covered by `NestedStep`.
* The conformance driver and the demonstration trace (fixed sequences of modelled
  operations), the schema files and the build checks.
