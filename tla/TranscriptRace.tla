--------------------------- MODULE TranscriptRace ---------------------------
(***************************************************************************)
(* export_transcript as it runs beside the calls of its view: it holds no   *)
(* lock, and takes the snapshot and the records in two steps.               *)
(***************************************************************************)
EXTENDS Transcript

VARIABLE export     \* the export under way or just made, NoExport at first

raceVars == <<vars, export>>

NoExport == [step |-> "none"]

RaceInit == Init /\ export = NoExport

\* state = self.threads[thread]
ReadState(v, t) ==
    /\ export = NoExport
    /\ Exportable(v, t)
    /\ export' = [step |-> "records", view |-> v, thread |-> t, state |-> cache[v].threads[t]]
    /\ UNCHANGED vars

\* observed_records, and the transcript made of both.
ReadRecords ==
    /\ export.step = "records"
    /\ Up(export.view)
    /\ export' = [step |-> "done",
                  transcript |-> TranscriptOf(export.thread, export.state, Shown(export.view))]
    /\ UNCHANGED vars

RaceNext ==
    \/ Next /\ UNCHANGED export
    \/ \E v \in Views, t \in Threads : ReadState(v, t)
    \/ ReadRecords

RaceSpec == RaceInit /\ [][RaceNext]_raceVars

\* Every transcript an export returns tells the journal: "every committed
\* envelope through seq_through", in a state "reconstructed from the durable
\* journal" (spec/05, section 1), whatever runs beside it.
TranscriptsTell == export.step = "done" => TellsJournal(export.transcript, records)
=============================================================================
