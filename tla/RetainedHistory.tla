---------------------------- MODULE RetainedHistory ----------------------------
(***************************************************************************)
(* The instrumentation history a run leaves behind. The live controller    *)
(* keeps the measurements of its windows within byte and count bounds;     *)
(* when a window starts or ends it writes every finished window to         *)
(* instrumentation-history.json (WriteRetainedInstrumentationHistory:      *)
(* bounded newest first, validated, written to a temporary file, synced,   *)
(* renamed, directory synced), and once the run is over the file is read   *)
(* back (ReadRetainedInstrumentationHistory), which refuses a document     *)
(* that names an unfinished window and upgrades the first version.         *)
(*                                                                         *)
(* Bytes are counted in small units: a measurement costs its size and one  *)
(* unit of JSON around it, a configuration one unit, a window and the      *)
(* document one unit each, a count one or two units.                       *)
(***************************************************************************)
EXTENDS Naturals, Sequences, FiniteSets, SequencesExt

CONSTANTS
    TargetLists,      \* what clients ask to instrument: sequences of targets
    HistRounds,       \* what a sampling round may bring: sequences of sizes
    LegacyDocuments,  \* version 1 documents of older runs
    DocumentLimit,    \* kMcpMaximumRetainedResultBytes
    SafetyMargin,     \* kSerializationSafetyMargin
    JsonOverhead,     \* kRetainedInstrumentationMeasurementJsonOverhead
    MeasurementLimit, \* kMaximumRetainedInstrumentationMeasurements
    RevisionLimit,    \* ...ConfigurationRevisions, of the run as a whole
    MaxHistStarts, MaxHistRounds, MaxHistFaults   \* bounds of the instance

VARIABLES
    book,       \* registry_->records, in the order of their identities
    loan,       \* registry_->active_id, 0 for none
    nextId,
    write,      \* PersistRetainedStateLocked in progress, and for whom
    folder,     \* the run directory: the history file and the temporary file
    media,      \* the history file the disk is certain to hold
    up,         \* the run's process is alive
    told,       \* ends whose persistence succeeded: <<identity, state>>
    histBudget, \* faults and rounds left
    answer      \* what the reader of the finished run was told

histVars == <<book, loan, nextId, write, folder, media, up, told, histBudget,
              answer>>

Kinds == {"node", "cgroup", "wallet", "group"}
NoDocument == [version |-> 0]
TornDocument == [version |-> 9]

ASSUME HistoryAssumption ==
    /\ {DocumentLimit, SafetyMargin, JsonOverhead, MeasurementLimit,
        RevisionLimit, MaxHistStarts, MaxHistRounds, MaxHistFaults} \subseteq Nat
    /\ JsonOverhead >= 2
    /\ \A d \in LegacyDocuments : d.version = 1

Max0(S) == IF S = {} THEN 0 ELSE CHOOSE x \in S : \A y \in S : y <= x

---------------------------------------------------------------------------
(* Targets: the parser of the tools and the validator of the history.      *)

NodesOf(ts) == UNION {Range(ts[i].nodes) : i \in DOMAIN ts}

\* ParseLiveInstrumentationTargets.
ParsesTargets(ts) ==
    /\ ts # <<>>
    /\ \A i \in DOMAIN ts :
          LET t == ts[i] IN
          /\ t.kind \in Kinds /\ t.nodes # <<>> /\ IsInjective(t.nodes)
          /\ t.kind # "group" => Len(t.nodes) = 1
          /\ t.kind \in {"node", "cgroup"} => t.id = t.nodes[1]
          /\ t.kind = "wallet" => t.canonical
    /\ \A i, j \in DOMAIN ts :
          i # j => /\ ts[i].id # ts[j].id
                   /\ Range(ts[i].nodes) \cap Range(ts[j].nodes) = {}

\* ValidateRetainedInstrumentationTarget.
ValidTarget(t) ==
    /\ t.kind \in Kinds
    /\ t.nodes # <<>> /\ Cardinality(Range(t.nodes)) = Len(t.nodes)
    /\ t.kind # "group" => Len(t.nodes) = 1
    /\ t.kind \in {"node", "cgroup"} => t.id = t.nodes[1]
    /\ t.kind = "wallet" => t.canonical

\* ValidateRetainedInstrumentationTargets.
ValidTargets(ts) ==
    /\ ts # <<>>
    /\ \A i \in DOMAIN ts : ValidTarget(ts[i])
    /\ Cardinality({ts[i].id : i \in DOMAIN ts}) = Len(ts)
    /\ Cardinality(NodesOf(ts)) = Len(FlattenSeq([i \in DOMAIN ts |-> ts[i].nodes]))

---------------------------------------------------------------------------
(* Records.                                                                *)

HistTerminal(w) == w.state \in {"succeeded", "cancelled", "failed"}

\* ValidateRetainedInstrumentationRecord, without the measurements. The
\* history of configurations exists in version 2 only; its last entry is the
\* window's current configuration.
ValidHead(r, active, version) ==
    /\ HistTerminal(r) /\ r.samples > 0 /\ r.revision > 0
    /\ ValidTargets(r.targets)
    /\ version = 2 =>
          /\ r.configs # <<>> /\ Len(r.configs) <= RevisionLimit
          /\ \A i \in DOMAIN r.configs : ValidTargets(r.configs[i])
          /\ r.revision = Len(r.configs) /\ Last(r.configs) = r.targets
    /\ r.failure <=> r.state = "failed"
    /\ ~r.completed => r.id = active
    /\ r.id = active => r.state = "failed" /\ ~r.completed
    /\ r.kept = Len(r.measured)

\* ... and its loop over the measurements: in order, of known revisions, one
\* revision in a sample.
ValidMeasurements(r, version) ==
    /\ Len(r.measured) <= MeasurementLimit
    /\ \A i \in DOMAIN r.measured : r.measured[i].sample \in 1..r.samples
    /\ \A i \in 1..(Len(r.measured) - 1) :
          r.measured[i].sample <= r.measured[i + 1].sample
    /\ version = 2 =>
          /\ \A i \in DOMAIN r.measured : r.measured[i].revision \in 1..r.revision
          /\ \A i \in 1..(Len(r.measured) - 1) :
                LET a == r.measured[i]
                    b == r.measured[i + 1]
                IN /\ a.revision <= b.revision
                   /\ a.sample = b.sample => a.revision = b.revision

ValidRecord(r, active, version) ==
    ValidHead(r, active, version) /\ ValidMeasurements(r, version)

Revisions(rs) == FoldSeq(LAMBDA r, sum : sum + Len(r.configs), 0, rs)

\* ValidateRetainedInstrumentationRecords.
ValidRecords(rs, active, version) ==
    /\ \A i \in DOMAIN rs : ValidRecord(rs[i], active, version)
    /\ Cardinality({rs[i].id : i \in DOMAIN rs}) = Len(rs)
    /\ version = 2 => Revisions(rs) <= RevisionLimit

---------------------------------------------------------------------------
(* The bounds on measurements: the newest ones are kept.                   *)

Newest(ms, n) == SubSeq(ms, Len(ms) - n + 1, Len(ms))

\* The longest run of newest measurements that costs no more than the limit.
Fitting(ms, cost(_), most, limit) ==
    Max0({n \in 0..Len(ms) :
        /\ n <= most
        /\ FoldSeq(LAMBDA m, sum : sum + cost(m), 0, Newest(ms, n)) <= limit})

LiveCost(m) == m.size + JsonOverhead
SerializedCost(m) == m.size + 1 + 1

Storage(ms) == FoldSeq(LAMBDA m, sum : sum + LiveCost(m), 0, ms)

\* BoundLiveInstrumentationRecordMeasurements.
BoundWindow(w, limit) ==
    LET n == Fitting(w.measured, LiveCost, MeasurementLimit, limit)
    IN [w EXCEPT !.measured = Newest(@, n),
                 !.dropped = @ + (Len(w.measured) - n)]

\* BoundLiveInstrumentationPersistenceMeasurements: the finished windows share
\* one limit, and the newest window takes from it first.
BoundBook ==
    LET left[i \in 0..Len(book)] ==
            IF i = Len(book) THEN DocumentLimit
            ELSE IF HistTerminal(book[i + 1])
            THEN left[i + 1]
                    - Storage(BoundWindow(book[i + 1], left[i + 1]).measured)
            ELSE left[i + 1]
    IN [i \in DOMAIN book |->
            IF HistTerminal(book[i]) THEN BoundWindow(book[i], left[i])
                                     ELSE book[i]]

\* LiveInstrumentationResourceJson.
RecordOf(w) ==
    [id |-> w.id, state |-> w.state, samples |-> w.samples,
     targets |-> w.targets, revision |-> w.revision, configs |-> w.configs,
     completed |-> w.completed, failure |-> w.failure,
     kept |-> Len(w.measured), dropped |-> w.dropped, measured |-> w.measured]

Digits(n) == IF n = 0 THEN 1 ELSE 2

RecordBytes(r) ==
    1 + Len(r.configs) + Digits(r.kept) + Digits(r.dropped)
      + FoldSeq(LAMBDA m, sum : sum + m.size + 1, 0, r.measured)
      + (IF r.measured = <<>> THEN 0 ELSE Len(r.measured) - 1)

\* The serialized RetainedInstrumentationDocument.
DocumentBytes(rs) == 1 + FoldSeq(LAMBDA r, sum : sum + RecordBytes(r), 0, rs)

Emptied(r) == [r EXCEPT !.measured = <<>>, !.kept = 0,
                        !.dropped = @ + Len(r.measured)]

\* What the measurements may take of the document, given the size of the rest.
RoomForMeasurements(base) ==
    IF base + SafetyMargin >= DocumentLimit THEN 0
    ELSE DocumentLimit - base - SafetyMargin

\* BoundRetainedInstrumentationRecords, its second half.
BoundRecords(rs) ==
    LET base == DocumentBytes([i \in DOMAIN rs |-> Emptied(rs[i])])
        keep(r, limit) == Fitting(r.measured, SerializedCost, Len(r.measured), limit)
        left[i \in 0..Len(rs)] ==
            IF i = Len(rs) THEN RoomForMeasurements(base)
            ELSE left[i + 1] - FoldSeq(LAMBDA m, sum : sum + SerializedCost(m), 0,
                    Newest(rs[i + 1].measured, keep(rs[i + 1], left[i + 1])))
    IN [i \in DOMAIN rs |->
            LET n == keep(rs[i], left[i]) IN
            [rs[i] EXCEPT !.measured = Newest(@, n), !.kept = n,
                          !.dropped = @ + (Len(rs[i].measured) - n)]]

\* Why a document is not written at all, or "none".
Refusal(rs, active) ==
    LET bounded == BoundRecords(rs) IN
    CASE ~ValidRecords(rs, active, 2) -> "invalid"
      [] DocumentBytes([i \in DOMAIN rs |-> Emptied(rs[i])]) >= DocumentLimit ->
            "metadata"
      [] ~ValidRecords(bounded, active, 2) -> "invalid"
      [] DocumentBytes(bounded) >= DocumentLimit -> "size"
      [] OTHER -> "none"

---------------------------------------------------------------------------
(* Writing the file. "why" says whose call this is: "start", "abandon",    *)
(* "end", or "again" for the second attempt of an end.                     *)

NotWriting == [at |-> "idle", why |-> "none", window |-> 0, refused |-> "none",
               targets |-> <<>>, document |-> NoDocument]

\* PersistRetainedStateLocked up to the temporary file.
Persist(why, id, active, targets) ==
    LET history == [i \in DOMAIN SelectSeq(BoundBook, HistTerminal) |->
                        RecordOf(SelectSeq(BoundBook, HistTerminal)[i])]
        refusal == Refusal(history, active)
    IN /\ book' = BoundBook
       /\ write' = [at |-> IF refusal = "none" THEN "open" ELSE "throw",
                    why |-> why, window |-> id, refused |-> refusal,
                    targets |-> targets,
                    document |-> [version |-> 2, active |-> active,
                                  records |-> BoundRecords(history)]]

Fault == histBudget.faults > 0
            /\ histBudget' = [histBudget EXCEPT !.faults = @ - 1]

\* unlinkat of a stale temporary file, openat, write.
WriteTemporary ==
    /\ write.at = "open"
    /\ \/ /\ folder' = [folder EXCEPT !.tmp = "written"]
          /\ write' = [write EXCEPT !.at = "sync"]
          /\ UNCHANGED histBudget
       \/ /\ Fault
          /\ folder' = [folder EXCEPT !.tmp = "none"]
          /\ write' = [write EXCEPT !.at = "throw"]
    /\ UNCHANGED <<book, loan, nextId, media, up, told, answer>>

SyncTemporary ==
    /\ write.at = "sync"
    /\ \/ /\ folder' = [folder EXCEPT !.tmp = "synced"]
          /\ write' = [write EXCEPT !.at = "rename"]
          /\ UNCHANGED histBudget
       \/ /\ Fault
          /\ folder' = [folder EXCEPT !.tmp = "none"]
          /\ write' = [write EXCEPT !.at = "throw"]
    /\ UNCHANGED <<book, loan, nextId, media, up, told, answer>>

PublishFile ==
    /\ write.at = "rename"
    /\ \/ /\ folder' = [file |-> write.document, synced |-> folder.tmp = "synced",
                        tmp |-> "none"]
          /\ write' = [write EXCEPT !.at = "syncdir"]
          /\ UNCHANGED histBudget
       \/ /\ Fault
          /\ folder' = [folder EXCEPT !.tmp = "none"]
          /\ write' = [write EXCEPT !.at = "throw"]
    /\ UNCHANGED <<book, loan, nextId, media, up, told, answer>>

SyncDirectory ==
    /\ write.at = "syncdir"
    /\ \/ /\ media' = folder.file
          /\ write' = [write EXCEPT !.at = "done"]
          /\ UNCHANGED histBudget
       \/ /\ Fault
          /\ write' = [write EXCEPT !.at = "throw"]
          /\ UNCHANGED media
    /\ UNCHANGED <<book, loan, nextId, folder, up, told, answer>>

---------------------------------------------------------------------------
(* The windows.                                                            *)

RevisionsInUse == Revisions(book)

WindowOf(id) == CHOOSE i \in DOMAIN book : book[i].id = id

\* Start, up to PersistRetainedStateLocked(record->id).
StartHistory ==
    /\ up /\ write.at = "idle" /\ loan = 0 /\ nextId <= MaxHistStarts
    /\ RevisionsInUse < RevisionLimit
    /\ \E ts \in TargetLists :
          /\ ParsesTargets(ts)
          /\ Persist("start", nextId, nextId, ts)
    /\ nextId' = nextId + 1
    /\ UNCHANGED <<loan, folder, media, up, told, histBudget, answer>>

\* AppendLiveInstrumentationRound.
AppendRound(w, sizes) ==
    LET ms == [i \in DOMAIN sizes |->
                  [sample |-> w.samples + 1, revision |-> w.revision,
                   size |-> sizes[i]]]
    IN BoundWindow([w EXCEPT !.samples = @ + 1, !.measured = @ \o ms,
                             !.all = @ \o ms], DocumentLimit)

\* The start goes on: the first round, then publication; or it is abandoned,
\* and the document is written once more without the window.
WindowPublished ==
    /\ write.at = "done" /\ write.why = "start"
    /\ \/ /\ \E sizes \in HistRounds :
                book' = Append(book, AppendRound(
                    [id |-> write.window, state |-> "running", samples |-> 0,
                     targets |-> write.targets, revision |-> 1,
                     configs |-> <<write.targets>>, completed |-> FALSE,
                     failure |-> FALSE, dropped |-> 0, measured |-> <<>>,
                     all |-> <<>>], sizes))
          /\ loan' = write.window
          /\ write' = NotWriting
          /\ UNCHANGED histBudget
       \/ /\ Fault
          /\ Persist("abandon", write.window, 0, <<>>)
          /\ UNCHANGED loan
    /\ UNCHANGED <<nextId, folder, media, up, told, answer>>

StartAbandoned ==
    /\ write.at = "throw" /\ write.why = "start"
    /\ Persist("abandon", write.window, 0, <<>>)
    /\ UNCHANGED <<loan, nextId, folder, media, up, told, histBudget, answer>>

HistoryRound ==
    /\ up /\ write.at = "idle" /\ loan # 0 /\ histBudget.rounds > 0
    /\ book[WindowOf(loan)].state = "running"
    /\ \E sizes \in HistRounds :
          book' = [book EXCEPT ![WindowOf(loan)] = AppendRound(@, sizes)]
    /\ histBudget' = [histBudget EXCEPT !.rounds = @ - 1]
    /\ UNCHANGED <<loan, nextId, write, folder, media, up, told, answer>>

\* Reconfigure, as far as the record is concerned.
ReconfigureHistory ==
    /\ up /\ write.at = "idle" /\ loan # 0 /\ RevisionsInUse < RevisionLimit
    /\ book[WindowOf(loan)].state = "running"
    /\ \E ts \in TargetLists :
          /\ ParsesTargets(ts)
          /\ book' = [book EXCEPT ![WindowOf(loan)] =
                        [@ EXCEPT !.targets = ts, !.revision = @ + 1,
                                  !.configs = Append(@, ts)]]
    /\ UNCHANGED <<loan, nextId, write, folder, media, up, told, histBudget,
                   answer>>

\* CompleteAtSamplingBoundary: MarkRestored, or MarkRestorationFailed.
Ended(w, s, restored) ==
    LET state == IF w.state = "failed" \/ ~restored THEN "failed" ELSE s
    IN [w EXCEPT !.state = state, !.completed = restored,
                 !.failure = state = "failed"]

\* The window ends, or a later attempt restores what the first one could not;
\* PersistTerminalStateLocked begins. The two are one step of the controller,
\* which holds its lifecycle lock.
EndHistory ==
    /\ up /\ write.at = "idle" /\ loan # 0
    /\ \E s \in {"succeeded", "cancelled", "failed"}, restored \in BOOLEAN :
          /\ restored \/ histBudget.faults > 0
          /\ book' = [book EXCEPT ![WindowOf(loan)] = Ended(@, s, restored)]
          /\ histBudget' = IF restored THEN histBudget
                           ELSE [histBudget EXCEPT !.faults = @ - 1]
          /\ write' = [NotWriting EXCEPT !.at = "begin", !.why = "end",
                                         !.window = loan]
          /\ loan' = IF restored THEN 0 ELSE loan
    /\ UNCHANGED <<nextId, folder, media, up, told, answer>>

BeginPersist ==
    /\ write.at = "begin"
    /\ Persist(write.why, write.window, loan, <<>>)
    /\ UNCHANGED <<loan, nextId, folder, media, up, told, histBudget, answer>>

\* PersistTerminalStateLocked: the first failure marks the window failed and
\* writes again, the second is forgotten.
EndPersisted ==
    /\ write.why \in {"end", "again"}
    /\ \/ /\ write.at = "done"
          /\ told' = told \cup {<<write.window, book[WindowOf(write.window)].state>>}
          /\ write' = NotWriting
          /\ UNCHANGED book
       \/ /\ write.at = "throw" /\ write.why = "end"
          /\ book' = [book EXCEPT ![WindowOf(write.window)] =
                        [@ EXCEPT !.state = "failed", !.failure = TRUE]]
          /\ write' = [write EXCEPT !.at = "begin", !.why = "again"]
          /\ UNCHANGED told
       \/ /\ write.at = "throw" /\ write.why = "again"
          /\ write' = NotWriting
          /\ UNCHANGED <<book, told>>
    /\ UNCHANGED <<loan, nextId, folder, media, up, histBudget, answer>>

AbandonOver ==
    /\ write.at \in {"done", "throw"} /\ write.why = "abandon"
    /\ write' = NotWriting
    /\ UNCHANGED <<book, loan, nextId, folder, media, up, told, histBudget, answer>>

---------------------------------------------------------------------------
(* The end of the process, and the reader of the finished run.             *)

HistoryCrash ==
    /\ up /\ up' = FALSE
    /\ UNCHANGED <<book, loan, nextId, write, folder, media, told, histBudget,
                   answer>>

\* After a power loss the directory has the entry it was synced with or a later
\* one, and a file that was never synced may be torn.
PowerLoss ==
    /\ up /\ up' = FALSE
    /\ \E f \in {media, IF folder.synced THEN folder.file ELSE TornDocument} :
          folder' = [folder EXCEPT !.file = f]
    /\ UNCHANGED <<book, loan, nextId, write, media, told, histBudget, answer>>

\* Mutant: an upgrade forgets the measurements.
UpgradeRecordOnly(r) ==
    [r EXCEPT !.configs = <<r.targets>>]

\* UpgradeLegacyRetainedInstrumentationRecords, for one record.
UpgradeRecord(r) ==
    [r EXCEPT !.configs = <<r.targets>>,
              !.measured = [i \in DOMAIN @ |-> [@[i] EXCEPT !.revision = 1]]]

Told(e, rs) == [error |-> e, records |-> rs]

\* ReadRetainedInstrumentationHistory. The file ends in a newline.
ReadHistory(d) ==
    IF d = NoDocument THEN Told("none", <<>>)
    ELSE IF d = TornDocument THEN Told("torn", <<>>)
    ELSE IF DocumentBytes(d.records) + 1 > DocumentLimit THEN Told("limit", <<>>)
    ELSE IF d.active # 0 THEN Told("active", <<>>)
    ELSE IF d.version = 1 THEN
        LET upgraded == [i \in DOMAIN d.records |-> UpgradeRecord(d.records[i])] IN
        IF ~ValidRecords(d.records, 0, 1) THEN Told("invalid", <<>>)
        ELSE IF \E i \in DOMAIN d.records : d.records[i].revision # 1
             THEN Told("unverifiable", <<>>)
        ELSE IF ~ValidRecords(upgraded, 0, 2) THEN Told("invalid", <<>>)
        ELSE Told("none", upgraded)
    ELSE IF ValidRecords(d.records, 0, 2) THEN Told("none", d.records)
    ELSE Told("invalid", <<>>)

ReadRetained ==
    /\ ~up /\ answer = Told("unread", <<>>)
    /\ answer' = ReadHistory(folder.file)
    /\ UNCHANGED <<book, loan, nextId, write, folder, media, up, told, histBudget>>

---------------------------------------------------------------------------

HistoryInit ==
    /\ book = <<>> /\ loan = 0 /\ nextId = 1 /\ write = NotWriting
    /\ told = {} /\ answer = Told("unread", <<>>)
    /\ histBudget = [faults |-> MaxHistFaults, rounds |-> MaxHistRounds]
    /\ \/ up = TRUE /\ folder = [file |-> NoDocument, synced |-> TRUE, tmp |-> "none"]
       \/ /\ up = FALSE
          /\ \E d \in LegacyDocuments :
                folder = [file |-> d, synced |-> TRUE, tmp |-> "none"]
    /\ media = folder.file

WriteStep == /\ up
             /\ \/ BeginPersist \/ WriteTemporary \/ SyncTemporary
                \/ PublishFile \/ SyncDirectory \/ WindowPublished
                \/ StartAbandoned \/ EndPersisted \/ AbandonOver

HistoryNext ==
    \/ StartHistory \/ HistoryRound \/ ReconfigureHistory \/ EndHistory
    \/ WriteStep
    \/ HistoryCrash \/ PowerLoss \/ ReadRetained

---------------------------------------------------------------------------
(* Properties.                                                             *)

Documents == {folder.file, media} \ {NoDocument, TornDocument}
RecordsNamed(d, id) == {i \in DOMAIN d.records : d.records[i].id = id}

\* The state has its shape, and no window holds more measurements than the
\* validator of its record would accept.
HistTypeOK ==
    /\ \A i \in DOMAIN book :
          /\ Len(book[i].measured) <= MeasurementLimit
          /\ book[i].state \in {"running", "succeeded", "cancelled", "failed"}
    /\ loan \in 0..MaxHistStarts /\ nextId \in 1..(MaxHistStarts + 1)
    /\ write.at \in {"idle", "begin", "open", "sync", "rename", "syncdir",
                     "done", "throw"}
    /\ folder.tmp \in {"none", "written", "synced"}
    /\ up \in BOOLEAN

\* Whenever the process dies, and whatever the disk loses, the reader is never
\* told that the history is torn, too large or invalid: what the writer and
\* the tools' parser let through, the reader's validator accepts.
WrittenIsReadable ==
    answer.error \in {"unread", "none", "active"}
        \cup (IF folder.file.version = 1 THEN {"unverifiable"} ELSE {})

\* A record keeps the newest measurements of its window without a gap, and the
\* ones it does not keep are all counted, after any number of bounds.
NewestAreKept ==
    /\ \A i \in DOMAIN book :
          LET w == book[i] IN
          /\ w.measured = Newest(w.all, Len(w.measured))
          /\ w.dropped = Len(w.all) - Len(w.measured)
    /\ \A d \in Documents : d.version = 2 =>
          \A j \in DOMAIN d.records :
             LET r == d.records[j]
                 w == book[WindowOf(r.id)]
             IN /\ r.measured = Newest(w.all, r.kept)
                /\ r.dropped = Len(w.all) - r.kept

\* An end that was persisted without an error is in the file, with its state,
\* whatever is written later and whatever a power loss takes.
PersistedEndSurvives ==
    \A t \in told : \E d \in {folder.file} \ {NoDocument, TornDocument} :
        \E i \in RecordsNamed(d, t[1]) : d.records[i].state = t[2]

\* While a window holds the counters, the file names it: no crash leaves a
\* history that looks complete.
UnfinishedIsNamed ==
    loan # 0 => folder.file.version = 2 /\ folder.file.active = loan

\* The margin is enough and the bounds agree: a document is refused for its
\* metadata only, never for what the measurements make of it.
OnlyMetadataIsRefused == write.refused \in {"none", "metadata"}

\* The retained history document: what was written can be read back, the newest
\* measurements are kept, an end that was persisted survives, an unfinished
\* window is named, and only metadata can be too large.
HistoryCorrect ==
    /\ HistTypeOK
    /\ WrittenIsReadable
    /\ NewestAreKept
    /\ PersistedEndSurvives
    /\ UnfinishedIsNamed
    /\ OnlyMetadataIsRefused

=============================================================================
