-------------------------- MODULE TranscriptReader --------------------------
(***************************************************************************)
(* The reader of Factory's transcripts (transcript.py).  Factory appends   *)
(* JSON lines to one file per session while the review thread reads it:    *)
(* each read continues at the cursor of the transcript's alias, takes a    *)
(* bounded chunk, keeps to whole lines, drops what it cannot parse, and    *)
(* pairs a tool's result with its use.  Files may be replaced, cut, or     *)
(* linked under a second alias between any two steps of a read.            *)
(*                                                                         *)
(* A file is a sequence of units; a line is some units, the last of which  *)
(* ends it.  The bounds of the code (1 MiB a read, 256 KiB a line, 1000    *)
(* lines a read, 256 pending uses) are constants counted in units.         *)
(***************************************************************************)
EXTENDS Naturals, FiniteSets, Sequences

CONSTANTS
    Aliases,     \* transcripts
    Lines,       \* what a line can be: its kind, its tool-use id and its length
    Gone,        \* no file at a path, no alias
    MaxInodes,   \* files in all
    MaxLines,    \* lines in all
    MaxMishaps,  \* replacements, cuts, removals and links
    Mischief,    \* which of them
    MAX_TRANSCRIPT_READ_BYTES, MAX_TRANSCRIPT_LINE_BYTES,
    MAX_RECORDS_PER_READ, MAX_PENDING_FACTORY_TOOL_USES

ASSUME ReaderAssumption ==
    /\ \A l \in Lines : /\ DOMAIN l = {"kind", "use", "size"} /\ l.size \in Nat \ {0}
                        /\ l.kind \in {"text", "use", "result", "error", "junk"}
    /\ {MaxInodes, MaxLines, MaxMishaps} \subseteq Nat /\ Gone \notin Nat /\ Gone \notin Aliases
    /\ IsFiniteSet(Aliases)
    /\ MAX_TRANSCRIPT_READ_BYTES \in Nat /\ MAX_TRANSCRIPT_LINE_BYTES \in 1 .. MAX_TRANSCRIPT_READ_BYTES
    /\ MAX_RECORDS_PER_READ \in Nat \ {0} /\ MAX_PENDING_FACTORY_TOOL_USES \in Nat \ {0}

VARIABLES
    lines,    \* every line Factory began, in order: a line is named by its number
    disk,     \* the units of each file: the line's number, its place in it, does it end it
    path,     \* the file at the path of each alias
    cut,      \* history: files that lost units
    mishaps,  \* mischances so far
    cursor,   \* _cursors: the file and the offset of each alias, or none
    pending,  \* _pending_factory_tool_uses: tool uses, and when each began to wait
    waits,    \* tool uses that ever began to wait
    read,     \* the read in progress
    opened,   \* descriptors the reader holds, the root's aside
    closed,   \* the reader is closed
    outgrown, \* history: transcripts whose file grew past a chunk while it was read
    taken     \* history: for each alias the lines accounted for since it was registered,
              \* by number and end, what became of them, the use a result was paired with

writer == <<lines, disk, path, cut, mishaps>>
transcripts == <<cursor, pending, waits, read, opened, closed, outgrown, taken>>
readerVars == <<writer, transcripts>>

------------------------------------------------------------------------------
Inodes == 1 .. MaxInodes
NoCursor == [inode |-> 0, offset |-> 0]
NoRead == [pc |-> "idle", alias |-> Gone, size |-> 0, chunk |-> <<>>, next |-> 0, records |-> 0]
Size(i) == Len(disk[i])
Slice(i, from, n) == SubSeq(disk[i], from + 1, IF from + n < Size(i) THEN from + n ELSE Size(i))
Ends(units) == {k \in 1 .. Len(units) : units[k].last}

\* The k-th unit of line number n.
Unit(n, k) == [no |-> n, nth |-> k, last |-> k = lines'[n].size]

ReaderInit ==
    /\ lines = <<>> /\ disk = [i \in Inodes |-> <<>>] /\ cut = {} /\ mishaps = 0
    /\ path = [a \in Aliases |-> Gone]
    /\ cursor = [a \in Aliases |-> NoCursor] /\ pending = {} /\ waits = 0
    /\ read = NoRead /\ opened = 0 /\ closed = FALSE /\ outgrown = {} /\ taken = [a \in Aliases |-> <<>>]

------------------------------------------------------------------------------
(* Factory                                                                  *)
Used == {i \in Inodes : Size(i) > 0} \cup {path[a] : a \in Aliases} \cup cut
            \cup {cursor[a].inode : a \in Aliases}
Fresh(i) == i \in Inodes \ Used /\ \A j \in Inodes \ Used : i <= j
Broken(i) == Size(i) > 0 /\ ~disk[i][Size(i)].last

Create(a) ==
    /\ path[a] = Gone /\ \E i \in Inodes : Fresh(i) /\ path' = [path EXCEPT ![a] = i]
    /\ UNCHANGED <<lines, disk, cut, mishaps, transcripts>>

\* A line is begun, and finished by a later write when it is long.
Begin(a, line) ==
    /\ path[a] # Gone /\ ~Broken(path[a]) /\ Len(lines) < MaxLines
    /\ lines' = Append(lines, line)
    /\ \E k \in {1, line.size} :
          disk' = [disk EXCEPT ![path[a]] = @ \o [j \in 1 .. k |-> Unit(Len(lines) + 1, j)]]
    /\ UNCHANGED <<path, cut, mishaps, transcripts>>

Finish(a) ==
    /\ path[a] # Gone /\ Broken(path[a]) /\ UNCHANGED lines
    /\ LET last == disk[path[a]][Size(path[a])]
       IN disk' = [disk EXCEPT ![path[a]] =
                     @ \o [j \in 1 .. lines[last.no].size - last.nth |-> Unit(last.no, last.nth + j)]]
    /\ UNCHANGED <<path, cut, mishaps, transcripts>>

\* The path of a transcript gets another file, or none, or that of another
\* transcript; a file is cut to nothing.
Mischance(a) ==
    /\ mishaps < MaxMishaps /\ mishaps' = mishaps + 1 /\ path[a] # Gone
    /\ \/ /\ "replace" \in Mischief /\ \E i \in Inodes : Fresh(i) /\ path' = [path EXCEPT ![a] = i]
          /\ UNCHANGED <<disk, cut>>
       \/ /\ "remove" \in Mischief /\ path' = [path EXCEPT ![a] = Gone] /\ UNCHANGED <<disk, cut>>
       \/ /\ "link" \in Mischief
          /\ \E b \in Aliases \ {a} : path[b] # Gone /\ path' = [path EXCEPT ![a] = path[b]]
          /\ UNCHANGED <<disk, cut>>
       \/ /\ "cut" \in Mischief /\ Size(path[a]) > 0
          /\ disk' = [disk EXCEPT ![path[a]] = <<>>] /\ cut' = cut \cup {path[a]} /\ UNCHANGED path
    /\ UNCHANGED <<lines, transcripts>>

Writer == \E a \in Aliases : \/ Create(a) \/ Finish(a) \/ Mischance(a)
                              \/ \E l \in Lines : Begin(a, l)

------------------------------------------------------------------------------
(* read_primary, for one alias at a time: look at the path, register it or  *)
(* register it again, measure the file, take the chunk, measure once more   *)
(* and account for its whole lines, one after the other.                    *)
Registered(a) == cursor[a] # NoCursor
Leave == read' = NoRead
GoOn(pc, a) == read' = [read EXCEPT !.pc = pc, !.alias = a]

\* _register: a file must be there and belong to no other alias.
CanRegister(a) == path[a] # Gone /\ \A b \in Aliases \ {a} : cursor[b].inode # path[a]
Enroll(a) == /\ cursor' = [cursor EXCEPT ![a] = [inode |-> path[a], offset |-> 0]]
            /\ taken' = [taken EXCEPT ![a] = <<>>]

\* _reregister: the uses read from the old file are forgotten, its descriptor
\* is closed, the path is opened once more.
Reregister(a, next) ==
    /\ pending' = {u \in pending : u.alias # a}
    /\ IF CanRegister(a) THEN /\ Enroll(a) /\ next /\ UNCHANGED opened
       ELSE /\ cursor' = [cursor EXCEPT ![a] = NoCursor] /\ opened' = opened - 1
            /\ Leave /\ UNCHANGED taken

Register(a) ==
    /\ read.pc = "idle" /\ ~closed /\ ~Registered(a) /\ CanRegister(a)
    /\ Enroll(a) /\ opened' = opened + 1 /\ GoOn("look", a)
    /\ UNCHANGED <<writer, pending, waits, closed, outgrown>>

Approach(a) ==
    /\ read.pc = "idle" /\ ~closed /\ Registered(a) /\ GoOn("look", a)
    /\ UNCHANGED <<writer, cursor, pending, waits, opened, closed, outgrown, taken>>

Look(a) ==
    /\ read.pc = "look" /\ read.alias = a
    /\ \/ path[a] = Gone /\ Leave
       \/ path[a] = cursor[a].inode /\ GoOn("measure", a)
       \/ path[a] \notin {Gone, cursor[a].inode} /\ GoOn("reopen", a)
    /\ UNCHANGED <<writer, cursor, pending, waits, opened, closed, outgrown, taken>>

Reopen(a) ==
    /\ read.pc = "reopen" /\ read.alias = a /\ Reregister(a, GoOn("measure", a))
    /\ UNCHANGED <<writer, waits, closed, outgrown>>

Measure(a) ==
    /\ read.pc = "measure" /\ read.alias = a
    /\ IF Size(cursor[a].inode) < cursor[a].offset THEN Leave
       ELSE read' = [read EXCEPT !.pc = "chunk", !.size = Size(cursor[a].inode)]
    /\ UNCHANGED <<writer, cursor, pending, waits, opened, closed, outgrown, taken>>

Take(a) ==
    /\ read.pc = "chunk" /\ read.alias = a
    /\ read' = [read EXCEPT !.pc = "settle",
            !.chunk = Slice(cursor[a].inode, cursor[a].offset, MAX_TRANSCRIPT_READ_BYTES)]
    /\ UNCHANGED <<writer, cursor, pending, waits, opened, closed, outgrown, taken>>

\* _oversized_line_end: the first end behind the chunk.
\* Variant: the first unit behind the chunk is skipped.
OversizedEnds_OneLate(i, offset) ==
    {k \in offset + MAX_TRANSCRIPT_READ_BYTES + 2 .. Size(i) : disk[i][k].last}
OversizedEnds(i, offset) ==
    {k \in offset + MAX_TRANSCRIPT_READ_BYTES + 1 .. Size(i) : disk[i][k].last}
FirstOf(ends, k) == k \in ends /\ \A j \in ends : k <= j

\* The chunk ended with the file, yet the file is longer than a chunk by now.
Outgrown(a) == /\ Len(read.chunk) < MAX_TRANSCRIPT_READ_BYTES
               /\ OversizedEnds(cursor[a].inode, cursor[a].offset) # {}

\* A line of the transcript is accounted for: its number, its end, what became
\* of it, and the use its result was paired with.
Entry(a, n, end, as, use) ==
    taken' = [taken EXCEPT ![a] = Append(@, [no |-> n, end |-> end, as |-> as, use |-> use])]

\* The second measurement; a line that is longer than a chunk is dropped.
Settle(a) ==
    /\ read.pc = "settle" /\ read.alias = a
    /\ outgrown' = IF Outgrown(a) THEN outgrown \cup {a} ELSE outgrown
    /\ LET i == cursor[a].inode
           offset == cursor[a].offset
           beyond == OversizedEnds(i, offset)
       IN \/ Size(i) < read.size /\ Reregister(a, Leave)
          \/ /\ Size(i) >= read.size /\ Ends(read.chunk) # {}
             /\ GoOn("lines", a) /\ UNCHANGED <<cursor, pending, opened, taken>>
          \/ /\ Size(i) >= read.size /\ Ends(read.chunk) = {} /\ beyond = {}
             /\ Leave /\ UNCHANGED <<cursor, pending, opened, taken>>
          \/ /\ Size(i) >= read.size /\ Ends(read.chunk) = {} /\ Leave
             /\ \E k \in beyond :
                   /\ FirstOf(beyond, k) /\ cursor' = [cursor EXCEPT ![a].offset = k]
                   /\ Entry(a, disk[i][offset + 1].no, k, "dropped", 0)
             /\ UNCHANGED <<pending, opened>>
    /\ UNCHANGED <<writer, waits, closed>>

\* _pair_factory_tool: a use waits, the oldest makes room, a result ends the
\* wait; a result that found its use and did not fail is a correction.
\* Variant: the use is looked for in every transcript.
UsesOf_Anywhere(a, use) == {u \in pending : u.use = use}
UsesOf(a, use) == {u \in pending : u.alias = a /\ u.use = use}
Wait(a, n, use) ==
    LET others == pending \ UsesOf(a, use)
        one == [alias |-> a, use |-> use, no |-> n, since |-> waits]
    IN /\ waits' = waits + 1
       /\ IF Cardinality(others) < MAX_PENDING_FACTORY_TOOL_USES THEN pending' = others \cup {one}
          ELSE \E oldest \in others : /\ \A u \in others : oldest.since <= u.since
                                      /\ pending' = (others \ {oldest}) \cup {one}

\* The next whole line of the chunk, MAX_RECORDS_PER_READ of them at most.
Behind == {k \in Ends(read.chunk) : k > read.next}
More == read.records < MAX_RECORDS_PER_READ /\ Behind # {}
Parsed(n, k) == /\ k - read.next <= MAX_TRANSCRIPT_LINE_BYTES /\ read.chunk[read.next + 1].nth = 1
                /\ lines[n].kind # "junk"
NextLine(a) ==
    /\ read.pc = "lines" /\ read.alias = a /\ More
    /\ \E k \in Behind :
          LET n == read.chunk[read.next + 1].no
              line == lines[n]
              end == cursor[a].offset + k
              found == UsesOf(a, line.use)
          IN /\ FirstOf(Behind, k)
             /\ read' = [read EXCEPT !.next = k, !.records = @ + 1]
             /\ \/ ~Parsed(n, k) /\ Entry(a, n, end, "dropped", 0) /\ UNCHANGED <<pending, waits>>
                \/ /\ Parsed(n, k) /\ line.kind = "text"
                   /\ Entry(a, n, end, "read", 0) /\ UNCHANGED <<pending, waits>>
                \/ Parsed(n, k) /\ line.kind = "use" /\ Entry(a, n, end, "read", 0) /\ Wait(a, n, line.use)
                \/ /\ Parsed(n, k) /\ line.kind \in {"result", "error"} /\ found = {}
                   /\ Entry(a, n, end, "read", 0) /\ UNCHANGED <<pending, waits>>
                \/ /\ Parsed(n, k) /\ line.kind \in {"result", "error"}
                   /\ \E u \in found :
                         Entry(a, n, end, IF line.kind = "result" THEN "correction" ELSE "read", u.no)
                   /\ pending' = pending \ found /\ UNCHANGED waits
    /\ UNCHANGED <<writer, cursor, opened, closed, outgrown>>

MoveOn(a) ==
    /\ read.pc = "lines" /\ read.alias = a /\ ~More /\ Leave
    /\ cursor' = [cursor EXCEPT ![a].offset = @ + read.next]
    /\ UNCHANGED <<writer, pending, waits, opened, closed, outgrown, taken>>

Close ==
    /\ read.pc = "idle" /\ ~closed /\ closed' = TRUE
    /\ cursor' = [a \in Aliases |-> NoCursor] /\ pending' = {} /\ opened' = 0
    /\ UNCHANGED <<writer, waits, read, outgrown, taken>>

Reader == \/ Close
          \/ \E a \in Aliases : \/ Register(a) \/ Approach(a) \/ Look(a) \/ Reopen(a)
                                \/ Measure(a) \/ Take(a) \/ Settle(a) \/ NextLine(a) \/ MoveOn(a)
ReaderNext == Writer \/ Reader
ReaderSpec == ReaderInit /\ [][ReaderNext]_readerVars

------------------------------------------------------------------------------
(* Types, and the bounds: as many descriptors as cursors, no more uses than *)
(* the pool holds, no file with two aliases.                                *)
ReaderTypeOK ==
    /\ \A a \in Aliases : path[a] \in Inodes \cup {Gone} /\ cursor[a].offset \in Nat
    /\ opened = Cardinality({a \in Aliases : Registered(a)})
    /\ Cardinality(pending) <= MAX_PENDING_FACTORY_TOOL_USES
    /\ \A a, b \in Aliases : a # b /\ Registered(a) => cursor[a].inode # cursor[b].inode

\* As long as a file was only appended to, and by less than a chunk while it
\* was read, the lines a transcript has accounted for, read or dropped, are
\* exactly the lines up to where it has come, in order and each once, whatever
\* the sizes and wherever a chunk ended; that place is the end of a line
\* (transcript.py, read_primary and _oversized_line_end).
Reached(a) == cursor[a].offset + IF read.alias = a THEN read.next ELSE 0
LinesKept(a) ==
    LET file == disk[cursor[a].inode]
    IN /\ Reached(a) \in Ends(file) \cup {0}
       /\ {taken[a][k].end : k \in 1 .. Len(taken[a])} = {e \in Ends(file) : e <= Reached(a)}
       /\ \A k \in 1 .. Len(taken[a]) :
             /\ taken[a][k].no = file[taken[a][k].end].no
             /\ \A j \in 1 .. k - 1 : taken[a][j].end < taken[a][k].end
EveryLineOnce ==
    \A a \in Aliases \ outgrown : Registered(a) /\ cursor[a].inode \notin cut => LinesKept(a)

\* A correction is the result of a use read before it from the same file of
\* the same transcript, under the same id, and a use has one result at most
\* (transcript.py, _pair_factory_tool, _reregister).
CorrectionsPaired ==
    \A a \in Aliases :
        \A k \in {j \in 1 .. Len(taken[a]) : taken[a][j].as = "correction"} :
            LET e == taken[a][k]
            IN /\ \E j \in 1 .. k - 1 : taken[a][j].no = e.use /\ taken[a][j].as = "read"
               /\ lines[e.use].kind = "use" /\ lines[e.use].use = lines[e.no].use
               /\ \A j \in 1 .. k - 1 : taken[a][j].use # e.use
==============================================================================
