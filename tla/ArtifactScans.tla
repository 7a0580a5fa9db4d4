--------------------------- MODULE ArtifactScans ---------------------------
(***************************************************************************)
(* Listing and reading the files of a run while the run writes them.  Two  *)
(* scanners walk the same tree: the one behind the MCP inventory and the   *)
(* artifact reads, which fails when anything it listed is gone, and the    *)
(* one behind the file pane of a node, which remembers a warning and goes  *)
(* on.  Every look at the tree is a step of its own; between two looks a   *)
(* daemon or the simulator may create, extend, replace or remove a file.   *)
(*                                                                         *)
(* A path is the sequence of its components below the run's root.  The     *)
(* order of a listing is immaterial here and left to CHOOSE.               *)
(***************************************************************************)
EXTENDS Naturals, FiniteSets, SequencesExt

CONSTANTS Paths,         \* the paths of the tree
          Directories,   \* the ones that are directories
          TextPaths,     \* the ones with a text suffix
          LogPaths,      \* the ones that end in .log
          Sensitive,     \* component names that mark a file as sensitive
          FirstPaths,    \* the paths that exist at first
          Volatile,      \* the ones the run changes
          Wanted,        \* the ones a client reads
          ArtifactId,    \* the public identity of a path
          LongPaths,     \* the ones longer than kMaximumArtifactPathBytes
          MaxEntries,    \* kMaximumArtifactEntries, kMaximumVisitedEntries
          MaxData,       \* kMaximumDataEntries
          MaxDepth,      \* kMaximumArtifactDepth, kMaximumDirectoryDepth
          MaxLogs,       \* kMaximumLogFiles
          ChunkLimit,    \* the limit of an artifact read
          MaxSize,       \* bound: the size of a file
          ArtifactBudgets \* bound: changes of the tree, scans and reads started

ASSUME ArtifactAssumption ==
    /\ UNION {Directories, FirstPaths, Volatile, Wanted, LongPaths} \subseteq Paths
    /\ LogPaths \subseteq TextPaths
    /\ \A p \in Paths : p # <<>> /\ (Len(p) > 1 => Front(p) \in Directories)
    /\ {MaxEntries, MaxData, MaxDepth, MaxLogs, MaxSize} \subseteq Nat
    /\ ArtifactBudgets \subseteq [changes : Nat, scans : Nat]
    /\ ChunkLimit \in Nat \ {0}

VARIABLES tree,    \* per path: its inode, 0 when it does not exist, and its size
          scan,    \* the scan in progress
          last,    \* what the last scan returned
          chunks,  \* a client that reads one artifact chunk by chunk
          artifactUse     \* the last inode; changes and scans left

artifactVars == <<tree, scan, last, chunks, artifactUse>>

----------------------------------------------------------------------------
Exists(p) == tree[p].inode # 0

Children(d) == {p \in Paths : Len(p) = Len(d) + 1 /\ IsPrefix(d, p)}

\* Which entries may be retrieved: text, outside the credentials, of a node
\* only its logs, and nothing with a sensitive name on its way.
SafeReadableArtifact(p) ==
    /\ p \notin Directories /\ p \in TextPaths
    /\ \A i \in DOMAIN p : p[i] \notin Sensitive
    /\ p[1] # "mcp"
    /\ p[1] = "nodes" => p \in LogPaths

NoScan == [kind |-> "none", frames |-> <<>>, entries |-> <<>>, logs |-> 0, visited |-> 0,
           cut |-> FALSE, logsCut |-> FALSE, warned |-> FALSE, stable |-> {}, gone |-> FALSE]

NoReader == [id |-> <<>>, offset |-> 0, got |-> <<>>,
             chosen |-> [path |-> <<>>, inode |-> 0, size |-> 0, among |-> {}],
             answer |-> "none"]

ArtifactInit ==
    /\ tree = [p \in Paths |-> IF p \in FirstPaths THEN [inode |-> 1, size |-> MaxSize]
                               ELSE [inode |-> 0, size |-> 0]]
    /\ scan = NoScan /\ last = NoScan /\ chunks = NoReader
    /\ \E b \in ArtifactBudgets :
          artifactUse = [inode |-> 1, changes |-> b.changes, scans |-> b.scans]

----------------------------------------------------------------------------
(* The run changes its files.                                              *)

Changes == artifactUse.changes > 0

Parent(p) == IF Len(p) = 1 THEN TRUE ELSE Exists(Front(p))

\* A new file under a name: created, or renamed over the one that had it.
PublishFile(p) ==
    /\ Changes /\ p \notin Directories /\ Parent(p)
    /\ artifactUse' = [artifactUse EXCEPT !.changes = @ - 1, !.inode = @ + 1]
    /\ \E size \in 0 .. 1 : tree' = [tree EXCEPT ![p] = [inode |-> artifactUse.inode + 1, size |-> size]]
    /\ UNCHANGED <<scan, last, chunks>>

Grow(p) ==
    /\ Changes /\ p \notin Directories /\ Exists(p) /\ tree[p].size < MaxSize
    /\ artifactUse' = [artifactUse EXCEPT !.changes = @ - 1]
    /\ tree' = [tree EXCEPT ![p].size = @ + 1]
    /\ UNCHANGED <<scan, last, chunks>>

Unlink(p) ==
    /\ Changes /\ Exists(p) /\ \A q \in Children(p) : ~Exists(q)
    /\ artifactUse' = [artifactUse EXCEPT !.changes = @ - 1]
    /\ tree' = [tree EXCEPT ![p] = [inode |-> 0, size |-> 0]]
    /\ scan' = [scan EXCEPT !.stable = @ \ {p}, !.gone = @ \/ scan.kind # "none"]
    /\ UNCHANGED <<last, chunks>>

----------------------------------------------------------------------------
(* The walk.  A frame is an open directory and the names still to look at; *)
(* the deepest one is last.                                                *)

Begin(kind) ==
    /\ scan.kind = "none" /\ artifactUse.scans > 0
    /\ artifactUse' = [artifactUse EXCEPT !.scans = @ - 1] /\ last' = NoScan
    /\ scan' = [NoScan EXCEPT !.kind = kind, !.stable = {p \in Paths : Exists(p)},
                              !.frames = <<[dir |-> IF kind = "node" THEN <<"nodes">> ELSE <<>>,
                                            names |-> {}, listed |-> FALSE]>>]

ListRun == Begin("inventory") /\ UNCHANGED <<tree, chunks>>

InspectNodeArtifacts == Begin("node") /\ UNCHANGED <<tree, chunks>>

Top == Last(scan.frames)

Walking == scan.kind # "none" /\ scan.frames # <<>>

Lenient == scan.kind = "node"

\* The root of a node is looked through for logs only.
LogsOnly == Lenient /\ Top.dir = <<"nodes">>

Finish(s) == [s EXCEPT !.frames = <<>>]

\* What there is room for of a listing; the credentials are never listed.
DirectoryNames ==
    /\ Walking /\ ~Top.listed
    /\ LET found == {p \in Children(Top.dir) :
                       Exists(p) /\ (Lenient \/ Top.dir # <<>> \/ p # <<"mcp">>)}
           room == MaxEntries - (IF Lenient THEN scan.visited ELSE Len(scan.entries))
       IN  \E names \in SUBSET found :
             /\ Cardinality(names) = IF Cardinality(found) > room THEN room ELSE Cardinality(found)
             /\ scan' = [scan EXCEPT !.frames[Len(scan.frames)] = [Top EXCEPT !.names = names,
                                                                              !.listed = TRUE],
                                     !.cut = @ \/ Cardinality(found) > room,
                                     !.logsCut = @ \/ Cardinality(found) > room]
    /\ UNCHANGED <<tree, last, chunks, artifactUse>>

Room == MaxEntries > (IF Lenient THEN scan.visited ELSE Len(scan.entries))

Next1 == CHOOSE p \in Top.names : TRUE

Looking == Walking /\ Top.listed /\ Top.names # {} /\ Room

Popped(s) == [s EXCEPT !.frames[Len(s.frames)].names = @ \ {Next1},
                       !.visited = @ + 1]

\* An entry that was listed is gone: one scanner fails, the other warns, and
\* the log search of the other does not even warn.
InspectGone ==
    /\ Looking /\ ~Exists(Next1)
    /\ IF Lenient THEN scan' = [Popped(scan) EXCEPT !.warned = @ \/ ~LogsOnly]
       ELSE scan' = [Finish(scan) EXCEPT !.kind = "failed"]
    /\ UNCHANGED <<tree, last, chunks, artifactUse>>

\* The entry as fstatat shows it, unless its path is too long for the one
\* scanner or the other has listed enough, and the log list of the other.
Recorded(s, p) ==
    LET left == IF Lenient THEN Len(s.entries) >= MaxData ELSE p \in LongPaths
        log == Lenient /\ p \in LogPaths
    IN  [s EXCEPT !.entries = IF LogsOnly \/ left THEN @
                              ELSE Append(@, [path |-> p, inode |-> tree[p].inode,
                                              size |-> tree[p].size,
                                              readable |-> SafeReadableArtifact(p)]),
                  !.cut = @ \/ (left /\ ~LogsOnly),
                  !.logs = IF log /\ s.logs < MaxLogs THEN @ + 1 ELSE @,
                  !.logsCut = @ \/ (log /\ s.logs >= MaxLogs)]

InspectFile ==
    /\ Looking /\ Exists(Next1) /\ Next1 \notin Directories
    /\ scan' = Recorded(Popped(scan), Next1)
    /\ UNCHANGED <<tree, last, chunks, artifactUse>>

Depth == Len(Top.dir) - (IF Lenient THEN 2 ELSE 0)

\* A directory is recorded and entered, unless it is too deep or left out for
\* its path.
InspectDirectory ==
    /\ Looking /\ Exists(Next1) /\ Next1 \in Directories
    /\ LET s == IF LogsOnly THEN Popped(scan) ELSE Recorded(Popped(scan), Next1)
       IN  scan' = IF LogsOnly \/ (~Lenient /\ Next1 \in LongPaths) THEN s
                   ELSE IF Depth >= MaxDepth THEN [s EXCEPT !.cut = TRUE, !.logsCut = TRUE]
                   ELSE [s EXCEPT !.frames = Append(@, [dir |-> Next1, names |-> {},
                                                        listed |-> FALSE])]
    /\ UNCHANGED <<tree, last, chunks, artifactUse>>

\* The directory of the frame was removed before it could be opened.
EnterGone ==
    /\ Walking /\ ~Top.listed /\ Top.dir # <<>> /\ ~Exists(Top.dir)
    /\ scan' = IF Lenient THEN [scan EXCEPT !.frames = Front(@), !.warned = TRUE]
               ELSE [Finish(scan) EXCEPT !.kind = "failed"]
    /\ UNCHANGED <<tree, last, chunks, artifactUse>>

\* No room for another entry: the walk stops here, everywhere.
OutOfRoom ==
    /\ Walking /\ Top.listed /\ Top.names # {} /\ ~Room
    /\ scan' = [Finish(scan) EXCEPT !.cut = TRUE, !.logsCut = TRUE]
    /\ UNCHANGED <<tree, last, chunks, artifactUse>>

\* The end of a directory; after the root of a node comes its data directory.
LeaveDirectory ==
    /\ Walking /\ Top.listed /\ Top.names = {}
    /\ scan' = [scan EXCEPT !.frames =
                  IF LogsOnly THEN <<[dir |-> <<"nodes", "data">>, names |-> {},
                                      listed |-> FALSE]>>
                  ELSE Front(@)]
    /\ UNCHANGED <<tree, last, chunks, artifactUse>>

\* Two paths with one identity: neither can be read.
Collided(entries, i) ==
    \E j \in DOMAIN entries : /\ ArtifactId[entries[i].path] = ArtifactId[entries[j].path]
                              /\ entries[i].path # entries[j].path

Scanned == scan.kind \in {"inventory", "node", "read"} /\ scan.frames = <<>>

ReturnInventory ==
    /\ Scanned /\ scan.kind # "read"
    /\ last' = scan /\ scan' = NoScan
    /\ UNCHANGED <<tree, chunks, artifactUse>>

ScanFails ==
    /\ scan.kind = "failed"
    /\ last' = scan /\ scan' = NoScan
    /\ chunks' = [chunks EXCEPT !.answer = IF @ = "asked" THEN "failed" ELSE @]
    /\ UNCHANGED <<tree, artifactUse>>

----------------------------------------------------------------------------
(* Reading an artifact: every chunk is a scan, a choice and a read.        *)

ChooseArtifact(p) ==
    /\ chunks.answer = "none"
    /\ chunks' = [NoReader EXCEPT !.id = ArtifactId[p], !.answer = "more"]
    /\ UNCHANGED <<tree, scan, last, artifactUse>>

ReadChunk ==
    /\ chunks.answer \in {"more", "failed"} /\ Begin("read")
    /\ chunks' = [chunks EXCEPT !.answer = "asked"]
    /\ UNCHANGED tree

ReadableEntry(entries, i) == entries[i].readable /\ ~Collided(entries, i)

SelectArtifact ==
    /\ Scanned /\ scan.kind = "read" /\ chunks.answer = "asked"
    /\ LET hits == {i \in DOMAIN scan.entries :
                      ArtifactId[scan.entries[i].path] = chunks.id}
       IN  chunks' = IF \E i \in hits : /\ ReadableEntry(scan.entries, i)
                                        /\ chunks.offset <= scan.entries[i].size
                     THEN LET e == scan.entries[CHOOSE i \in hits : TRUE]
                          IN  [chunks EXCEPT !.chosen = [path |-> e.path, inode |-> e.inode,
                                                         size |-> e.size,
                                                         among |-> {scan.entries[i].path : i \in hits}],
                                             !.answer = "open"]
                     ELSE [chunks EXCEPT !.answer = "failed"]
    /\ last' = scan /\ scan' = NoScan
    /\ UNCHANGED <<tree, artifactUse>>

\* Mutant: the file that has the name now is read, whatever was scanned.
ReadByName ==
    /\ chunks.answer = "open"
    /\ LET p == chunks.chosen.path
           upto == IF chunks.offset + ChunkLimit < chunks.chosen.size
                   THEN chunks.offset + ChunkLimit ELSE chunks.chosen.size
       IN  chunks' = IF Exists(p)
                     THEN [chunks EXCEPT
                             !.got = Append(@, [path |-> p, inode |-> tree[p].inode,
                                                scanned |-> chunks.chosen.inode,
                                                from |-> chunks.offset, upto |-> upto]),
                             !.offset = upto,
                             !.answer = IF upto = chunks.chosen.size THEN "eof" ELSE "more"]
                     ELSE [chunks EXCEPT !.answer = "failed"]
    /\ UNCHANGED <<tree, scan, last, artifactUse>>

\* The path is opened again and must still be the file that was scanned; the
\* chunk ends at the size it had then, or earlier.
OpenArtifactEntry ==
    /\ chunks.answer = "open"
    /\ LET p == chunks.chosen.path
           wanted == IF chunks.offset + ChunkLimit < chunks.chosen.size
                     THEN chunks.offset + ChunkLimit ELSE chunks.chosen.size
       IN  chunks' = IF tree[p].inode = chunks.chosen.inode
                     THEN [chunks EXCEPT
                             !.got = Append(@, [path |-> p, inode |-> tree[p].inode,
                                                scanned |-> chunks.chosen.inode,
                                                from |-> chunks.offset, upto |-> wanted]),
                             !.offset = wanted,
                             !.answer = IF wanted = chunks.chosen.size THEN "eof" ELSE "more"]
                     ELSE [chunks EXCEPT !.answer = "failed"]
    /\ UNCHANGED <<tree, scan, last, artifactUse>>

----------------------------------------------------------------------------
ScanStep ==
    \/ DirectoryNames \/ InspectGone \/ InspectFile \/ InspectDirectory \/ EnterGone
    \/ OutOfRoom \/ LeaveDirectory \/ ReturnInventory \/ ScanFails
    \/ SelectArtifact \/ OpenArtifactEntry

ArtifactNext ==
    \/ \E p \in Volatile : PublishFile(p) \/ Grow(p) \/ Unlink(p)
    \/ \E p \in Wanted : ChooseArtifact(p)
    \/ ListRun \/ InspectNodeArtifacts \/ ReadChunk
    \/ ScanStep

----------------------------------------------------------------------------
ArtifactTypeOK ==
    /\ scan.kind \in {"none", "inventory", "node", "read", "failed"}
    /\ \A p \in Paths : tree[p].size \in 0 .. MaxSize
    /\ Len(scan.entries) <= MaxEntries /\ scan.logs <= MaxLogs
    /\ chunks.offset \in 0 .. MaxSize

Within(s) == {p \in Paths : IF s.kind = "node" THEN IsPrefix(<<"nodes", "data">>, p) /\ Len(p) > 2
                            ELSE p[1] # "mcp"}

\* A scan that says nothing was left out lists every path that was there all
\* along, once each and none of the credentials: whatever appears, moves or
\* disappears around them. The log list of the pane has a mark of its own.
UncutScanIsComplete ==
    /\ \A i, j \in DOMAIN last.entries :
         last.entries[i].path = last.entries[j].path => i = j
    /\ \A i \in DOMAIN last.entries : last.entries[i].path \in Within(last)
    /\ last.kind \in {"inventory", "node", "read"} /\ ~last.cut =>
         \A p \in last.stable \cap Within(last) :
           \E i \in DOMAIN last.entries : last.entries[i].path = p
    /\ last.kind = "node" /\ ~last.logsCut =>
         last.logs >= Cardinality(last.stable \cap LogPaths)

\* The inventory fails, and the pane warns, only because something vanished
\* while they looked.
FailureMeansVanished == last.kind = "failed" \/ last.warned => last.gone

\* A chunk is read from the very file the scan chose, starts where the one
\* before it ended, and belongs to a path that may be read under an identity
\* nobody shares.
ChunksAreOfTheChosenFile ==
    \A i \in DOMAIN chunks.got :
      /\ chunks.got[i].inode = chunks.got[i].scanned
      /\ chunks.got[i].from = IF i = 1 THEN 0 ELSE chunks.got[i - 1].upto
      /\ chunks.got[i].upto >= chunks.got[i].from
      /\ SafeReadableArtifact(chunks.got[i].path)

\* Nothing is read under an identity that two listed paths share.
NoAmbiguousRead ==
    chunks.answer = "open" => chunks.chosen.among = {chunks.chosen.path}

\* A scan that was not cut lists every artifact, a failure means that something
\* vanished, and the chunks read are those of the file that was chosen, without
\* ambiguity.
ArtifactsCorrect ==
    /\ ArtifactTypeOK
    /\ UncutScanIsComplete
    /\ FailureMeansVanished
    /\ ChunksAreOfTheChosenFile
    /\ NoAmbiguousRead

=============================================================================
