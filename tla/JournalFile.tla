---------------------------- MODULE JournalFile -----------------------------
(***************************************************************************)
(* The append-only run journal of internal/mutation/journal.go at the      *)
(* level of its file operations: WriteEntry with the repair of a torn      *)
(* tail, ListEntries with its bounded retries, and the failures in         *)
(* between (an error return, a killed process, a power loss).              *)
(*                                                                         *)
(* A file is a sequence of slots, one per line.  The last slot may be      *)
(* unfinished: "torn" bytes do not decode, a "whole" record decodes but    *)
(* lacks its newline; every other slot is a "line".  Bytes appended to a   *)
(* torn slot join it and the result decodes to nothing (Garbled).          *)
(* "file" is what processes read, "disk" what a power loss may fall back   *)
(* to; fsync copies one to the other.                                      *)
(*                                                                         *)
(* Writers hold the installation writer lock, so one WriteEntry runs at a  *)
(* time; a reader takes no lock and runs beside it.                        *)
(***************************************************************************)
EXTENDS Naturals, Sequences

CONSTANTS
    MaxRecords,     \* bound: how many WriteEntry calls a behaviour makes
    ReadAttempts    \* journalListReadAttempts

ASSUME ConstantsAssumption ==
    /\ MaxRecords \in Nat
    /\ ReadAttempts \in Nat \ {0}

Garbled == 0                     \* the bytes of a slot that decodes to nothing
Records == 1 .. MaxRecords       \* record r is the r-th entry ever written

Slots == [rec : Records \cup {Garbled}, st : {"torn", "whole", "line"}]

VARIABLES
    file,        \* the journal as every process sees it
    disk,        \* the journal as a power loss may leave it
    sidecars,    \* fragments moved to journal.jsonl.torn-* files
    pc,          \* the writer's place in WriteEntry
    writing,     \* the last record handed to WriteEntry
    acked,       \* the records whose WriteEntry returned nil
    reader       \* one ListEntries call

vars == <<file, disk, sidecars, pc, writing, acked, reader>>
writerVars == <<file, disk, sidecars, pc, writing, acked>>

-----------------------------------------------------------------------------
(* Bytes. *)

LastSlot(f) == f[Len(f)]
DropLast(f) == SubSeq(f, 1, Len(f) - 1)

\* quarantineTornJournalTail's "size == 0" and "last byte is a newline".
Clean(f) == f = <<>> \/ LastSlot(f).st = "line"

Decodes(s) == s.rec # Garbled /\ s.st # "torn"

AppendHead(f, r) ==
    IF Clean(f) THEN Append(f, [rec |-> r, st |-> "torn"])
    ELSE Append(DropLast(f), [rec |-> Garbled, st |-> "torn"])

AppendBody(f, r) ==
    Append(DropLast(f), IF LastSlot(f).rec = r
                        THEN [rec |-> r, st |-> "whole"]
                        ELSE [rec |-> Garbled, st |-> "torn"])

AppendNewline(f) ==
    Append(DropLast(f), [rec |-> IF Decodes(LastSlot(f)) THEN LastSlot(f).rec ELSE Garbled,
                         st |-> "line"])

Rank(st) == CASE st = "torn" -> 1 [] st = "whole" -> 2 [] st = "line" -> 3

\* g holds every byte of d, perhaps followed by more.
Covers(g, d) ==
    /\ Len(g) >= Len(d)
    /\ \A i \in 1 .. Len(d) :
         g[i].rec = d[i].rec /\ Rank(g[i].st) >= Rank(d[i].st)

\* The byte prefixes of f: some of its slots, the last one perhaps cut short.
Cuts(f) ==
    {SubSeq(f, 1, n) : n \in 0 .. Len(f)}
        \cup {Append(SubSeq(f, 1, n - 1), [rec |-> f[n].rec, st |-> "whole"])
                 : n \in {m \in 1 .. Len(f) : f[m].st = "line"}}
        \cup {Append(SubSeq(f, 1, n - 1), [rec |-> f[n].rec, st |-> "torn"])
                 : n \in 1 .. Len(f)}

\* What a power loss may leave: the bytes last synced, and any prefix of what
\* was written since.  A truncation that was not synced may be lost as well.
CrashImages(d, f) ==
    {d} \cup {g \in Cuts(f) : \/ Covers(g, d)
                              \/ ~Covers(f, d) /\ Covers(g, DropLast(d))}

-----------------------------------------------------------------------------
NoRead == [pc |-> "idle", attempt |-> 0, result |-> "none", view |-> {},
           before |-> {}, present |-> {}]

Init ==
    /\ file = <<>>
    /\ disk = <<>>
    /\ sidecars = {}
    /\ pc = "idle"
    /\ writing = 0
    /\ acked = {}
    /\ reader = NoRead

(* WriteEntry, called for the next entry. *)
BeginWrite ==
    /\ pc = "idle"
    /\ writing < MaxRecords
    /\ writing' = writing + 1
    /\ pc' = "inspect"
    /\ UNCHANGED <<file, disk, sidecars, acked, reader>>

Mutant_NoSidecar ==
    /\ pc = "inspect"
    /\ pc' = IF Clean(file) THEN "head"
             ELSE IF Decodes(LastSlot(file)) THEN "terminate"
             ELSE "truncate"
    /\ UNCHANGED <<file, disk, sidecars, writing, acked, reader>>

\* quarantineTornJournalTail: nothing to repair, terminate in place, or move
\* the fragment away.
Inspect ==
    /\ pc = "inspect"
    /\ pc' = IF Clean(file) THEN "head"
             ELSE IF Decodes(LastSlot(file)) THEN "terminate"
             ELSE "sidecar"
    /\ UNCHANGED <<file, disk, sidecars, writing, acked, reader>>

TerminateInPlace ==
    /\ pc = "terminate"
    /\ file' = AppendNewline(file)
    /\ pc' = "syncRepair"
    /\ UNCHANGED <<disk, sidecars, writing, acked, reader>>

\* The sidecar is created, written and synced before the journal is cut.
WriteSidecar ==
    /\ pc = "sidecar"
    /\ sidecars' = sidecars \cup {LastSlot(file)}
    /\ pc' = "truncate"
    /\ UNCHANGED <<file, disk, writing, acked, reader>>

\* Fault: the cut is one byte short of the fragment's first byte, so it takes
\* the newline of the record in front of it too.
Mutant_TruncateNewline ==
    /\ pc = "truncate"
    /\ file' = IF Len(file) = 1 THEN <<>>
               ELSE [DropLast(file) EXCEPT ![Len(file) - 1].st = "whole"]
    /\ pc' = "syncRepair"
    /\ UNCHANGED <<disk, sidecars, writing, acked, reader>>

Truncate ==
    /\ pc = "truncate"
    /\ file' = DropLast(file)
    /\ pc' = "syncRepair"
    /\ UNCHANGED <<disk, sidecars, writing, acked, reader>>

SyncRepair ==
    /\ pc = "syncRepair"
    /\ disk' = file
    /\ pc' = "head"
    /\ UNCHANGED <<file, sidecars, writing, acked, reader>>

\* One f.Write of the line; a kill or a short write may stop it after any
\* byte, so it reaches the file in pieces.
WriteHead ==
    /\ pc = "head"
    /\ file' = AppendHead(file, writing)
    /\ pc' = "body"
    /\ UNCHANGED <<disk, sidecars, writing, acked, reader>>

WriteBody ==
    /\ pc = "body"
    /\ file' = AppendBody(file, writing)
    /\ pc' = "newline"
    /\ UNCHANGED <<disk, sidecars, writing, acked, reader>>

WriteNewline ==
    /\ pc = "newline"
    /\ file' = AppendNewline(file)
    /\ pc' = "sync"
    /\ UNCHANGED <<disk, sidecars, writing, acked, reader>>

\* Fault: the entry is not synced before WriteEntry returns.
Mutant_SyncForgotten ==
    /\ pc = "sync"
    /\ pc' = "return"
    /\ UNCHANGED <<file, disk, sidecars, writing, acked, reader>>

SyncEntry ==
    /\ pc = "sync"
    /\ disk' = file
    /\ pc' = "return"
    /\ UNCHANGED <<file, sidecars, writing, acked, reader>>

ReturnNil ==
    /\ pc = "return"
    /\ acked' = acked \cup {writing}
    /\ pc' = "idle"
    /\ UNCHANGED <<file, disk, sidecars, writing, reader>>

\* WriteEntry returns an error from any of its steps, or its process is killed
\* there: the bytes written so far stay in the file.
AbortWrite ==
    /\ pc # "idle"
    /\ pc' = "idle"
    /\ UNCHANGED <<file, disk, sidecars, writing, acked, reader>>

PowerLoss ==
    /\ \E g \in CrashImages(disk, file) : file' = g /\ disk' = g
    /\ pc' = "idle"
    /\ reader' = NoRead
    /\ UNCHANGED <<sidecars, writing, acked>>

-----------------------------------------------------------------------------
(* ListEntries, by a process that holds no lock. *)

Decoded(f) == {f[i].rec : i \in {j \in 1 .. Len(f) : Decodes(f[j])}}

\* Fault: an undecodable last line is skipped like an empty one.
Mutant_SkipFinal(f) ==
    IF \A i \in 1 .. Len(f) - 1 : Decodes(f[i]) THEN "complete" ELSE "corrupt"

\* parseJournalSnapshot: only the last line may fail to decode, and only while
\* it is unterminated is that an append in progress.
ParseResult(f) ==
    IF \A i \in 1 .. Len(f) : Decodes(f[i]) THEN "complete"
    ELSE IF /\ \A i \in 1 .. Len(f) - 1 : Decodes(f[i])
            /\ ~Clean(f)
         THEN "incomplete"
    ELSE "corrupt"

FinalDecodeFailure(f) ==
    ParseResult(f) # "complete" /\ \A i \in 1 .. Len(f) - 1 : Decodes(f[i])

BeginRead ==
    /\ reader.pc = "idle"
    /\ reader' = [NoRead EXCEPT !.pc = "read", !.before = acked]
    /\ UNCHANGED writerVars

ReadSnapshot ==
    /\ reader.pc = "read"
    /\ reader' = IF FinalDecodeFailure(file) /\ reader.attempt + 1 < ReadAttempts
                 THEN [reader EXCEPT !.attempt = @ + 1]
                 ELSE [reader EXCEPT !.pc = "done",
                                     !.result = ParseResult(file),
                                     !.view = IF ParseResult(file) = "corrupt"
                                              THEN {} ELSE Decoded(file),
                                     !.present = {file[i].rec : i \in 1 .. Len(file)}]
    /\ UNCHANGED writerVars

EndRead ==
    /\ reader.pc = "done"
    /\ reader' = NoRead
    /\ UNCHANGED writerVars

Write ==
    \/ BeginWrite \/ Inspect \/ TerminateInPlace \/ WriteSidecar \/ Truncate
    \/ SyncRepair \/ WriteHead \/ WriteBody \/ WriteNewline \/ SyncEntry
    \/ ReturnNil \/ AbortWrite

Next == Write \/ PowerLoss \/ BeginRead \/ ReadSnapshot \/ EndRead

Spec == Init /\ [][Next]_vars

-----------------------------------------------------------------------------
(* Type invariant. *)
TypeOK ==
    /\ file \in Seq(Slots)
    /\ disk \in Seq(Slots)
    /\ sidecars \subseteq Slots
    /\ pc \in {"idle", "inspect", "terminate", "sidecar", "truncate", "syncRepair",
               "head", "body", "newline", "sync", "return"}
    /\ writing \in 0 .. MaxRecords
    /\ acked \subseteq Records
    /\ reader \in [pc : {"idle", "read", "done"},
                   attempt : 0 .. ReadAttempts - 1,
                   result : {"none", "complete", "incomplete", "corrupt"},
                   view : SUBSET Records,
                   before : SUBSET Records,
                   present : SUBSET (Records \cup {Garbled})]

\* A crash-torn record never damages its neighbours: whatever was torn,
\* repaired and appended before, every terminated line of the journal decodes,
\* now and after a power loss at this instant, so "journal list" and "undo"
\* never meet the corruption error that hides the whole history.
NeverCorrupt ==
    \A g \in CrashImages(disk, file) \cup {file} :
        ParseResult(g) \in {"complete", "incomplete"}

\* A record whose WriteEntry returned nil is decodable for ever: in the file,
\* and in every file a power loss at this instant could leave.
AckedSurvives ==
    \A g \in CrashImages(disk, file) \cup {file} : acked \subseteq Decoded(g)

\* Repairing the tail never throws bytes away: what a writer cuts from the
\* journal did not decode and is in a sidecar first.
RepairKeepsEvidence ==
    [][(pc' # "idle" /\ Len(file') < Len(file))
         => /\ ~Decodes(LastSlot(file))
            /\ LastSlot(file) \in sidecars]_vars

\* A lock-free reader beside a writer, a repair or a crash is never wrong about
\* a run: it never reports corruption, it lists every run recorded before it
\* started, and when it claims the list is complete no record that had reached
\* the file is missing from it (ReadEntry answers "no such run" only then).
ReaderHonest ==
    reader.pc = "done"
        => /\ reader.result # "corrupt"
           /\ reader.before \subseteq reader.view
           /\ reader.result = "complete" => reader.present \subseteq reader.view

\* The file implements the abstract log.
DecodedLog(f) ==
    [i \in 1 .. (IF Clean(f) \/ Decodes(LastSlot(f)) THEN Len(f) ELSE Len(f) - 1)
        |-> f[i].rec]

Log == INSTANCE JournalLog WITH log <- DecodedLog(file)

LogSpec == Log!Spec

=============================================================================
