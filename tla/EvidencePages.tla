--------------------------- MODULE EvidencePages ---------------------------
(***************************************************************************)
(* Paging through the evidence a live run writes.  The run appends JSON    *)
(* lines to three files while a client reads them a page at a time; the    *)
(* only memory between two pages is the opaque cursor the client returns.  *)
(* A query visits its sources in turn, one line of a file or one snapshot  *)
(* per visit, so every visit may see a file longer than the visit before.  *)
(*                                                                         *)
(* A byte offset is the number of complete lines before it.  A line is the *)
(* record it holds or Garbled, the remains of a failed append.             *)
(***************************************************************************)
EXTENDS Naturals, SequencesExt

CONSTANTS Queries,          \* what a client may ask for
          EventKinds,       \* the event kinds the run writes
          EvidenceNodes,    \* the nodes its records name
          ScanLimit,        \* kMaximumEvidenceScannedRecords
          SequenceBase,     \* 2^kEvidenceSequenceOffsetBits
          MaxLines,         \* bound: appends the run attempts
          MaxAppendFaults,  \* bound: appends that fail half way
          MaxCancels,       \* bound: cancelled queries
          MaxPolls          \* bound: pages asked for after a complete one

ASSUME EvidenceAssumption ==
    /\ {ScanLimit, SequenceBase, MaxLines, MaxAppendFaults, MaxCancels, MaxPolls}
         \subseteq Nat
    /\ ScanLimit > 0
    /\ SequenceBase > MaxLines
    /\ \A q \in Queries : q.limit > 0 /\ q.families # <<>>

VARIABLES lines,      \* per file, the lines whose newline is written
          tail,       \* per file, what follows the last newline
          writer,     \* the append in progress
          client,     \* the client: its query, its cursor, what it received
          page,       \* the query being executed
          spent       \* what the bounds have been used for

evidenceVars == <<lines, tail, writer, client, page, spent>>

----------------------------------------------------------------------------
(* Sources, families and records.                                          *)

SourceOrder == <<"snapshot", "events", "metrics", "wallet">>

FileSources == {"events", "metrics", "wallet"}

Garbled == [kind |-> "garbled", node |-> "garbled"]

\* The file a family is read from; a family without one is a snapshot.
SourceFor(family) ==
    CASE family \in {"events", "logs", "errors", "lifecycle", "progress"} -> "events"
      [] family \in {"metrics", "measurements"} -> "metrics"
      [] family \in {"wallet_metrics", "balances"} -> "wallet"
      [] OTHER -> "snapshot"

\* Which event kinds a family of the event file shows.
EventMatches(family, kind) ==
    CASE family = "logs" -> kind = "stdout_tail"
      [] family = "errors" -> kind = "start_failed"
      [] family = "lifecycle" -> kind = "state"
      [] family = "progress" -> kind = "start_failed"
      [] OTHER -> TRUE

MatchesFamily(family, record) ==
    SourceFor(family) = "events" => EventMatches(family, record.kind)

MatchesNode(nodes, record) == nodes = {} \/ record.node \in nodes

\* A sequence number holds the family's place in the selection and an offset.
EncodeSequence(place, offset) == (place - 1) * SequenceBase + offset

DecodeSequence(sequence) == <<1 + (sequence \div SequenceBase), sequence % SequenceBase>>

----------------------------------------------------------------------------
(* The cursor.                                                             *)

NewCursor == [next |-> 1, pending |-> 0, offsets |-> [f \in FileSources |-> 0],
             snapshots |-> {}, families |-> <<>>]

NextSource(place) == 1 + (place % Len(SourceOrder))

\* The places of the families read from a source, from a given one on.
PlacesOf(families, source, first) ==
    {i \in first .. Len(families) : SourceFor(families[i]) = source}

HasFamilyForSource(families, source) == PlacesOf(families, source, 1) # {}

NextFamilyForSource(families, source, first) ==
    LET places == PlacesOf(families, source, first)
    IN  IF places = {} THEN 0 ELSE Min(places)

\* The cursor a query without one starts from, or the reason it is refused.
FirstCursor(families, start) ==
    LET at == DecodeSequence(start)
        source == SourceFor(families[1])
        fresh == [NewCursor EXCEPT !.families = families]
    IN  IF start = 0 THEN fresh
        ELSE [fresh EXCEPT !.offsets[source] = at[2],
                           !.next = CHOOSE i \in DOMAIN SourceOrder :
                                        SourceOrder[i] = source]

StartIsAccepted(families, start) ==
    start = 0 \/ (/\ Len(families) = 1
                  /\ DecodeSequence(start)[1] = 1
                  /\ SourceFor(families[1]) # "snapshot")

\* The checks on a cursor that comes back: it belongs to this selection, its
\* snapshot marks are snapshots and its pending family is read from its source.
DecodeOpaqueCursor(families, cursor) ==
    /\ cursor.families = families
    /\ \A i \in cursor.snapshots :
         i \in DOMAIN families /\ SourceFor(families[i]) = "snapshot"
    /\ cursor.pending # 0 =>
         /\ cursor.pending \in DOMAIN families
         /\ SourceFor(families[cursor.pending]) # "snapshot"
         /\ SourceFor(families[cursor.pending]) = SourceOrder[cursor.next]

----------------------------------------------------------------------------
NoQuery == [families |-> <<>>, nodes |-> {}, limit |-> 1, end |-> 0, follow |-> FALSE]

NoPage == [at |-> "none", cursor |-> NewCursor, items |-> <<>>, scanned |-> 0,
           idle |-> 0, full |-> FALSE, bound |-> FALSE,
           files |-> [f \in FileSources |-> "unopened"],
           began |-> [f \in FileSources |-> 0], late |-> FALSE]

EvidenceInit ==
    /\ lines = [f \in FileSources |-> <<>>]
    /\ tail = [f \in FileSources |-> <<>>]
    /\ writer = "idle"
    /\ client = [query |-> NoQuery, cursor |-> NewCursor, got |-> <<>>,
                 base |-> [f \in FileSources |-> 0], truncated |-> FALSE,
                 answer |-> "none"]
    /\ page = NoPage
    /\ spent = [lines |-> 0, faults |-> 0, cancels |-> 0, polls |-> 0]

----------------------------------------------------------------------------
(* The run appends: the text and its newline are two writes under a lock   *)
(* the readers do not take.  What an append that failed left behind is     *)
(* continued by the next one.                                              *)

Records(f) == IF f = "events" THEN [kind : EventKinds, node : EvidenceNodes]
              ELSE [kind : {"sample"}, node : EvidenceNodes]

AppendText(f) ==
    /\ writer = "idle" /\ spent.lines < MaxLines
    /\ spent' = [spent EXCEPT !.lines = @ + 1]
    /\ \E r \in Records(f) :
         tail' = [tail EXCEPT ![f] = IF @ = <<>> THEN <<r>> ELSE <<Garbled>>]
    /\ writer' = f
    /\ UNCHANGED <<lines, client, page>>

AppendNewline ==
    /\ writer # "idle"
    /\ lines' = [lines EXCEPT ![writer] = @ \o tail[writer]]
    /\ tail' = [tail EXCEPT ![writer] = <<>>]
    /\ writer' = "idle"
    /\ UNCHANGED <<client, page, spent>>

\* The disk refuses the newline, or the text after a part of it.
AppendFails ==
    /\ writer # "idle" /\ spent.faults < MaxAppendFaults
    /\ spent' = [spent EXCEPT !.faults = @ + 1]
    /\ \E left \in {tail[writer], <<Garbled>>} : tail' = [tail EXCEPT ![writer] = left]
    /\ writer' = "idle"
    /\ UNCHANGED <<lines, client, page>>

----------------------------------------------------------------------------
(* The client.                                                             *)

BeginPage(query, cursor) ==
    page' = [NoPage EXCEPT !.at = "query", !.cursor = cursor,
                           !.began = [f \in FileSources |-> Len(lines[f])]]

\* A new query, from the start or from the sequence number of a record the
\* client holds.
Ask(query, start) ==
    /\ page.at = "none"
    /\ StartIsAccepted(query.families, start)
    /\ client' = [client EXCEPT !.query = query, !.cursor = NewCursor, !.got = <<>>,
                                !.base = FirstCursor(query.families, start).offsets,
                                !.truncated = FALSE, !.answer = "asked"]
    /\ BeginPage(query, FirstCursor(query.families, start))
    /\ UNCHANGED <<lines, tail, writer>>

AskFirst == client.answer = "none" /\ (\E q \in Queries : Ask(q, 0)) /\ UNCHANGED spent

AskFrom ==
    /\ spent.polls < MaxPolls
    /\ Len(client.query.families) = 1
    /\ \E i \in DOMAIN client.got : client.got[i] > 0 /\ Ask(client.query, client.got[i])
    /\ spent' = [spent EXCEPT !.polls = @ + 1]

\* The next page: the client returns the cursor it was given.
Continue ==
    /\ page.at = "none" /\ client.answer \in {"page", "cancelled", "garbled"}
    /\ client.truncated \/ client.answer = "cancelled" \/ spent.polls < MaxPolls
    /\ spent' = IF client.truncated \/ client.answer = "cancelled" THEN spent
                ELSE [spent EXCEPT !.polls = @ + 1]
    /\ IF client.cursor = NewCursor
       THEN /\ BeginPage(client.query, [FirstCursor(client.query.families, 0) EXCEPT
                                       !.offsets = client.base])
            /\ client' = [client EXCEPT !.answer = "asked"]
       ELSE IF DecodeOpaqueCursor(client.query.families, client.cursor)
       THEN /\ BeginPage(client.query, client.cursor)
            /\ client' = [client EXCEPT !.answer = "asked"]
       ELSE client' = [client EXCEPT !.answer = "refused"] /\ UNCHANGED page
    /\ UNCHANGED <<lines, tail, writer>>

----------------------------------------------------------------------------
(* The query: one visit of a source per step.                              *)

Visiting(source) ==
    /\ page.at = "query" /\ ~page.full /\ ~page.bound
    /\ page.idle < Len(SourceOrder)
    /\ SourceOrder[page.cursor.next] = source

QueryUnchanged == UNCHANGED <<lines, tail, writer, client, spent>>

\* The cursor moves on to the next source.
Passed(cursor) == [cursor EXCEPT !.pending = 0, !.next = NextSource(@)]

Idle == page' = [page EXCEPT !.cursor = Passed(@), !.idle = @ + 1]

PageFails(why) ==
    /\ page' = NoPage
    /\ client' = [client EXCEPT !.answer = why]
    /\ UNCHANGED <<lines, tail, writer, spent>>

VisitSnapshot ==
    /\ Visiting("snapshot")
    /\ LET left == PlacesOf(client.query.families, "snapshot", 1) \ page.cursor.snapshots
       IN  IF left = {} THEN Idle
           ELSE page' = [page EXCEPT
                   !.items = Append(@, EncodeSequence(Min(left), 0)),
                   !.cursor = [Passed(@) EXCEPT !.snapshots = @ \cup {Min(left)}],
                   !.idle = 0,
                   !.full = Len(page.items) + 1 >= client.query.limit]
    /\ QueryUnchanged

VisitUnselected(f) ==
    /\ Visiting(f) /\ ~HasFamilyForSource(client.query.families, f)
    /\ Idle /\ QueryUnchanged

Selected(f) == Visiting(f) /\ HasFamilyForSource(client.query.families, f)

ReachBound(f) ==
    /\ Selected(f) /\ page.scanned >= ScanLimit
    /\ page' = [page EXCEPT !.bound = TRUE] /\ QueryUnchanged

InScan(f) == Selected(f) /\ page.scanned < ScanLimit

\* A page opens each file once; one that did not exist then stays absent.
OpenSource(f) ==
    /\ InScan(f) /\ page.files[f] = "unopened"
    /\ page' = [page EXCEPT !.files[f] =
                   IF lines[f] = <<>> /\ tail[f] = <<>> THEN "absent" ELSE "open"]
    /\ QueryUnchanged

VisitAbsent(f) ==
    /\ InScan(f) /\ page.files[f] = "absent"
    /\ IF page.cursor.offsets[f] # 0 \/ page.cursor.pending # 0
       THEN PageFails("disappeared")
       ELSE Idle /\ QueryUnchanged

\* The line at the cursor's offset, once its newline is written.
ReadJsonLine(f) ==
    IF page.cursor.offsets[f] < Len(lines[f])
    THEN <<lines[f][page.cursor.offsets[f] + 1]>> ELSE <<>>

VisitEnd(f) ==
    /\ InScan(f) /\ page.files[f] = "open" /\ ReadJsonLine(f) = <<>>
    /\ IF page.cursor.offsets[f] > Len(lines[f]) THEN PageFails("exceeds")
       ELSE IF page.cursor.pending # 0 THEN PageFails("pending lost")
       ELSE Idle /\ QueryUnchanged

VisitGarbled(f) ==
    /\ InScan(f) /\ page.files[f] = "open" /\ ReadJsonLine(f) = <<Garbled>>
    /\ PageFails("garbled")

\* The places of the selection that show the record, in order.
Shown(f, record, first) ==
    LET q == client.query
        offset == page.cursor.offsets[f]
        Shows(i) == /\ SourceFor(q.families[i]) = f
                    /\ MatchesNode(q.nodes, record)
                    /\ MatchesFamily(q.families[i], record)
                    /\ q.end > 0 => EncodeSequence(i, offset) <= q.end
    IN  SelectSeq([i \in 1 .. Len(q.families) |-> i], LAMBDA i : i >= first /\ Shows(i))

\* Mutant: a record cut by the page limit counts as delivered.
DropsTheCutRecord(f) ==
    /\ InScan(f) /\ page.files[f] = "open"
    /\ ReadJsonLine(f) \notin {<<>>, <<Garbled>>}
    /\ LET cursor == page.cursor
           shown == Shown(f, ReadJsonLine(f)[1], IF cursor.pending = 0 THEN 1 ELSE cursor.pending)
           room == client.query.limit - Len(page.items)
           full == Len(shown) >= room
           taken == IF full THEN SubSeq(shown, 1, room) ELSE shown
           consumed == [Passed(cursor) EXCEPT !.offsets[f] = @ + 1]
       IN  page' = [page EXCEPT
               !.scanned = @ + 1,
               !.items = @ \o [i \in DOMAIN taken |-> EncodeSequence(taken[i], cursor.offsets[f])],
               !.full = full,
               !.cursor = consumed,
               !.idle = IF full THEN @ ELSE 0,
               !.bound = ~full /\ page.scanned + 1 >= ScanLimit]
    /\ QueryUnchanged

VisitRecord(f) ==
    /\ InScan(f) /\ page.files[f] = "open"
    /\ ReadJsonLine(f) \notin {<<>>, <<Garbled>>}
    /\ LET cursor == page.cursor
           shown == Shown(f, ReadJsonLine(f)[1], IF cursor.pending = 0 THEN 1 ELSE cursor.pending)
           room == client.query.limit - Len(page.items)
           full == Len(shown) >= room
           taken == IF full THEN SubSeq(shown, 1, room) ELSE shown
           pending == IF full THEN NextFamilyForSource(client.query.families, f, Last(taken) + 1)
                      ELSE 0
           consumed == [Passed(cursor) EXCEPT !.offsets[f] = @ + 1]
       IN  page' = [page EXCEPT
               !.scanned = @ + 1,
               !.items = @ \o [i \in DOMAIN taken |-> EncodeSequence(taken[i], cursor.offsets[f])],
               !.full = full,
               !.cursor = IF pending # 0 THEN [cursor EXCEPT !.pending = pending] ELSE consumed,
               !.idle = IF full THEN @ ELSE 0,
               !.bound = ~full /\ page.scanned + 1 >= ScanLimit]
    /\ QueryUnchanged

Cancel ==
    /\ page.at = "query" /\ spent.cancels < MaxCancels
    /\ spent' = [spent EXCEPT !.cancels = @ + 1]
    /\ page' = NoPage
    /\ client' = [client EXCEPT !.answer = "cancelled"]
    /\ UNCHANGED <<lines, tail, writer>>

PageEnds ==
    page.at = "query" /\ (page.full \/ page.bound \/ page.idle >= Len(SourceOrder))

QueryExpires ==
    /\ page.at = "query" /\ client.query.follow /\ ~page.late
    /\ page' = [page EXCEPT !.late = TRUE] /\ QueryUnchanged

\* A followed query that found nothing asks again from its cursor until the
\* follow deadline; every other page is returned.
FollowAgain ==
    /\ PageEnds /\ client.query.follow /\ page.items = <<>> /\ ~page.late
    /\ page' = [NoPage EXCEPT !.at = "query", !.cursor = page.cursor,
                              !.began = [f \in FileSources |-> Len(lines[f])]]
    /\ QueryUnchanged

ReturnPage ==
    /\ PageEnds /\ (~client.query.follow \/ page.items # <<>> \/ page.late)
    /\ client' = [client EXCEPT !.answer = "page", !.cursor = page.cursor,
                                !.got = @ \o page.items,
                                !.truncated = page.full \/ page.bound]
    /\ page' = [NoPage EXCEPT !.began = page.began]
    /\ UNCHANGED <<lines, tail, writer, spent>>

----------------------------------------------------------------------------
QueryStep ==
    \/ VisitSnapshot
    \/ \E f \in FileSources :
         VisitUnselected(f) \/ ReachBound(f) \/ OpenSource(f) \/ VisitAbsent(f)
           \/ VisitEnd(f) \/ VisitGarbled(f) \/ VisitRecord(f)
    \/ ReturnPage

EvidenceNext ==
    \/ \E f \in FileSources : AppendText(f)
    \/ AppendNewline \/ AppendFails
    \/ AskFirst \/ AskFrom \/ Continue
    \/ QueryStep \/ FollowAgain \/ QueryExpires \/ Cancel

----------------------------------------------------------------------------
EvidenceTypeOK ==
    /\ \A f \in FileSources : Len(tail[f]) <= 1
    /\ writer \in FileSources \cup {"idle"}
    /\ writer # "idle" => tail[writer] # <<>>
    /\ page.cursor.next \in DOMAIN SourceOrder
    /\ page.idle \in 0 .. Len(SourceOrder)
    /\ Len(page.items) <= client.query.limit
    /\ page.scanned <= ScanLimit

\* What the client holds of the family at a place of its selection.
Held(place) == SelectSeq(client.got, LAMBDA s : DecodeSequence(s)[1] = place)

Matching(place, f, i) ==
    LET q == client.query
    IN  /\ lines[f][i] # Garbled
        /\ MatchesNode(q.nodes, lines[f][i])
        /\ MatchesFamily(q.families[place], lines[f][i])
        /\ q.end > 0 => EncodeSequence(place, i - 1) <= q.end

\* The cursor and the pages delivered with it tell the same story: a family's
\* records before the cursor were delivered exactly once and in file order, a
\* record cut by the page limit only to the families before the pending one,
\* and a snapshot once when it is marked.  Pages are cut anywhere, queries are
\* cancelled and repeated, and the run appends between any two visits.
ExactlyOnce ==
    client.cursor # NewCursor =>
      \A p \in DOMAIN client.query.families :
        LET f == SourceFor(client.query.families[p])
            c == client.cursor
        IN  IF f = "snapshot"
            THEN Held(p) = IF p \in c.snapshots THEN <<EncodeSequence(p, 0)>> ELSE <<>>
            ELSE LET last == c.offsets[f]
                               + (IF c.pending > p /\ SourceOrder[c.next] = f THEN 1 ELSE 0)
                     due == SelectSeq([i \in 1 .. last |-> i],
                                      LAMBDA i : i > client.base[f] /\ Matching(p, f, i))
                 IN  Held(p) = [i \in DOMAIN due |-> EncodeSequence(p, due[i] - 1)]

\* A page that says nothing was cut holds, with the pages before it, every
\* record that was complete when its query began and every snapshot: a source
\* that was skipped, or visited while the run was still appending to another,
\* hides nothing older.
CompleteMeansComplete ==
    client.answer = "page" /\ ~client.truncated =>
      /\ client.cursor.pending = 0
      /\ \A f \in FileSources :
           HasFamilyForSource(client.query.families, f)
             => client.cursor.offsets[f] >= page.began[f]
      /\ client.cursor.snapshots = PlacesOf(client.query.families, "snapshot", 1)

\* A query fails only on a line an append left garbled or because it was
\* cancelled: its own cursors are always accepted back, the file they point
\* into is still there and the record a page was cut in can be read again.
FailureIsExplained ==
    client.answer \in {"none", "asked", "page", "cancelled", "garbled"}

\* A client that asks for more while it is told there is more reaches the end
\* of the evidence or a line it cannot read; a followed query gives up at its
\* deadline.
PagingEnds == client.answer = "asked" \/ client.truncated
                ~> \/ client.answer \in {"garbled", "cancelled"}
                   \/ client.answer = "page" /\ ~client.truncated

\* Over the pages of a query each record appears exactly once, complete means
\* complete, and a failure has its reason.
EvidenceCorrect ==
    /\ EvidenceTypeOK
    /\ ExactlyOnce
    /\ CompleteMeansComplete
    /\ FailureIsExplained

=============================================================================
