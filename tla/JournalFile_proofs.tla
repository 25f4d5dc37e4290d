------------------------- MODULE JournalFile_proofs -------------------------
(***************************************************************************)
(* Proofs about JournalFile: its type invariant, NeverCorrupt,             *)
(* AckedSurvives, ReaderHonest and RepairKeepsEvidence, and that it        *)
(* implements JournalLog, for any number of writes and reads.              *)
(***************************************************************************)
EXTENDS JournalFile, SequenceTheorems, TLAPS

\* Every slot but the last is a finished line and no slot is garbled.
WellFormed(f) ==
    /\ f \in Seq(Slots)
    /\ \A i \in 1 .. Len(f) : f[i].rec \in Records /\ (i < Len(f) => f[i].st = "line")

\* The records of the finished lines.
Lines(f) == {f[i].rec : i \in {j \in 1 .. Len(f) : f[j].st = "line"}}

\* The disk lags behind the file, or still ends in a fragment the file lost.
DiskLags ==
    \/ Covers(file, disk)
    \/ /\ ~Clean(disk)
       /\ LastSlot(disk).st = "torn"
       /\ Covers(file, DropLast(disk))

\* What each place in WriteEntry may rely on.
PlaceInv ==
    /\ pc \in {"terminate", "sidecar", "truncate"} => ~Clean(file)
    /\ pc = "terminate" => LastSlot(file).st = "whole"
    /\ pc \in {"sidecar", "truncate"} => LastSlot(file).st = "torn"
    /\ pc \in {"syncRepair", "head"} => Clean(file)
    /\ pc \in {"body", "newline", "sync"} => file # <<>> /\ LastSlot(file).rec = writing
    /\ pc = "body" => LastSlot(file).st = "torn"
    /\ pc = "newline" => LastSlot(file).st = "whole"
    /\ pc = "sync" => LastSlot(file).st = "line"
    /\ pc = "return" => writing \in Lines(disk)
    /\ pc # "idle" => writing \in Records

ReaderInv ==
    /\ reader.before \subseteq acked
    /\ ReaderHonest

IInv ==
    /\ TypeOK
    /\ WellFormed(file)
    /\ WellFormed(disk)
    /\ DiskLags
    /\ acked \subseteq Lines(disk)
    /\ PlaceInv
    /\ ReaderInv

-----------------------------------------------------------------------------
(* Facts about files. *)

\* A file without its last slot is well formed and ends in a finished line.
LEMMA DropLastWellFormed ==
    ASSUME NEW f, WellFormed(f), f # <<>>
    PROVE  /\ f \in Seq(Slots) /\ Len(f) \in Nat \ {0}
           /\ DropLast(f) \in Seq(Slots)
           /\ WellFormed(DropLast(f))
           /\ Clean(DropLast(f))
           /\ Len(DropLast(f)) = Len(f) - 1
           /\ \A i \in 1 .. Len(f) - 1 : DropLast(f)[i] = f[i]
  <1>1. f \in Seq(Slots) /\ Len(f) \in Nat \ {0}
    BY DEF WellFormed
  <1>2. /\ DropLast(f) \in Seq(Slots)
        /\ Len(DropLast(f)) = Len(f) - 1
        /\ \A i \in 1 .. Len(f) - 1 : DropLast(f)[i] = f[i]
    <2>1. PICK n \in 0 .. Len(f) : n = Len(f) - 1
      BY <1>1
    <2>2. /\ SubSeq(f, 1, n) \in Seq(Slots)
          /\ Len(SubSeq(f, 1, n)) = n
          /\ \A i \in 1 .. n : SubSeq(f, 1, n)[i] = f[i]
      BY <1>1
    <2> QED
      BY <2>1, <2>2 DEF DropLast
  <1>3. WellFormed(DropLast(f))
    BY <1>1, <1>2 DEF WellFormed
  <1>4. Clean(DropLast(f))
    <2>1. CASE Len(f) = 1
      <3>1. DropLast(f) \in Seq(Slots) /\ Len(DropLast(f)) = 0
        BY <2>1, <1>2
      <3> QED
        BY <3>1 DEF Clean
    <2>2. CASE Len(f) # 1
      BY <2>2, <1>1, <1>2 DEF Clean, LastSlot, WellFormed
    <2> QED
      BY <2>1, <2>2
  <1> QED
    BY <1>1, <1>2, <1>3, <1>4

\* Appending a slot to a clean, well-formed file keeps it well formed.
LEMMA AppendWellFormed ==
    ASSUME NEW f, WellFormed(f), Clean(f), NEW s \in Slots, s.rec \in Records
    PROVE  /\ WellFormed(Append(f, s))
           /\ Covers(Append(f, s), f)
  <1>1. \A i \in 1 .. Len(f) : f[i].st = "line"
    BY DEF WellFormed, Clean, LastSlot, Slots
  <1>2. Append(f, s) \in Seq(Slots) /\ Len(Append(f, s)) = Len(f) + 1
    BY DEF WellFormed
  <1>3. \A i \in 1 .. Len(f) : Append(f, s)[i] = f[i]
    BY DEF WellFormed
  <1>4. Append(f, s)[Len(f) + 1] = s
    BY DEF WellFormed
  <1>5. QED
    BY <1>1, <1>2, <1>3, <1>4 DEF WellFormed, Covers, Rank, Slots

\* Covering is a partial order on the files that can occur.
LEMMA CoversTrans ==
    ASSUME NEW f \in Seq(Slots), NEW g \in Seq(Slots), NEW h \in Seq(Slots),
           Covers(h, g), Covers(g, f)
    PROVE  Covers(h, f)
  <1>1. \A i \in 1 .. Len(f) : i \in 1 .. Len(g) /\ i \in 1 .. Len(h)
    BY DEF Covers
  <1>2. \A s \in {"torn", "whole", "line"} : Rank(s) \in Nat
    BY DEF Rank
  <1>3. \A i \in 1 .. Len(f) : /\ Rank(f[i].st) \in Nat
                               /\ Rank(g[i].st) \in Nat
                               /\ Rank(h[i].st) \in Nat
    <2> TAKE i \in 1 .. Len(f)
    <2>1. f[i] \in Slots /\ g[i] \in Slots /\ h[i] \in Slots
      BY <1>1
    <2> QED
      BY <2>1, <1>2 DEF Slots
  <1>4. Len(h) >= Len(f)
    BY DEF Covers
  <1>5. \A i \in 1 .. Len(f) :
           h[i].rec = f[i].rec /\ Rank(h[i].st) >= Rank(f[i].st)
    BY <1>1, <1>3 DEF Covers
  <1> QED
    BY <1>4, <1>5 DEF Covers

LEMMA CoversRefl ==
    ASSUME NEW f \in Seq(Slots)
    PROVE  Covers(f, f)
  <1>1. \A s \in {"torn", "whole", "line"} : Rank(s) >= Rank(s)
    BY DEF Rank
  <1>2. \A i \in 1 .. Len(f) : f[i] \in Slots
    OBVIOUS
  <1> QED
    BY <1>1, <1>2 DEF Covers, Slots

LEMMA CoversLines ==
    ASSUME NEW f \in Seq(Slots), NEW g \in Seq(Slots), Covers(g, f)
    PROVE  Lines(f) \subseteq Lines(g)
  <1> SUFFICES ASSUME NEW i \in 1 .. Len(f), f[i].st = "line"
               PROVE  f[i].rec \in Lines(g)
    BY DEF Lines
  <1>1. i \in 1 .. Len(g) /\ g[i].rec = f[i].rec /\ Rank(g[i].st) >= Rank(f[i].st)
    BY DEF Covers
  <1>2. g[i].st \in {"torn", "whole", "line"}
    <2>1. g[i] \in Slots
      BY <1>1
    <2> QED
      BY <2>1 DEF Slots
  <1>3. g[i].st = "line"
    BY <1>1, <1>2 DEF Rank
  <1> QED
    BY <1>1, <1>3 DEF Lines

\* Replacing the last slot by more bytes of the same record.
LEMMA ReplaceLast ==
    ASSUME NEW f, WellFormed(f), f # <<>>, NEW s \in Slots,
           s.rec = LastSlot(f).rec, Rank(s.st) >= Rank(LastSlot(f).st)
    PROVE  LET g == Append(DropLast(f), s)
           IN  /\ WellFormed(g)
               /\ Covers(g, f)
               /\ g # <<>>
               /\ LastSlot(g) = s
  <1> DEFINE g == Append(DropLast(f), s)
  <1>1. f \in Seq(Slots) /\ Len(f) \in Nat \ {0} /\ LastSlot(f).rec \in Records
    BY DEF WellFormed, LastSlot
  <1>2. /\ DropLast(f) \in Seq(Slots)
        /\ Len(DropLast(f)) = Len(f) - 1
        /\ \A i \in 1 .. Len(f) - 1 : DropLast(f)[i] = f[i]
        /\ WellFormed(DropLast(f))
        /\ Clean(DropLast(f))
    BY DropLastWellFormed DEF WellFormed
  <1>3. WellFormed(g)
    BY <1>1, <1>2, AppendWellFormed
  <1>4. Len(g) = Len(f) /\ g[Len(f)] = s /\ \A i \in 1 .. Len(f) - 1 : g[i] = f[i]
    BY <1>1, <1>2
  <1>5. \A st \in {"torn", "whole", "line"} : Rank(st) >= Rank(st)
    BY DEF Rank
  <1>6. ASSUME NEW i \in 1 .. Len(f)
        PROVE  g[i].rec = f[i].rec /\ Rank(g[i].st) >= Rank(f[i].st)
    <2>1. CASE i = Len(f)
      BY <2>1, <1>4 DEF LastSlot
    <2>2. CASE i # Len(f)
      <3>1. g[i] = f[i] /\ f[i] \in Slots
        BY <2>2, <1>1, <1>4
      <3> QED
        BY <3>1, <1>5 DEF Slots
    <2> QED
      BY <2>1, <2>2
  <1> QED
    BY <1>1, <1>3, <1>4, <1>6 DEF Covers, LastSlot

\* Every cut of a well-formed file is well formed.
LEMMA CutsWellFormed ==
    ASSUME NEW f, WellFormed(f), NEW g \in Cuts(f)
    PROVE  WellFormed(g)
  <1>0. f \in Seq(Slots) /\ Len(f) \in Nat
    BY DEF WellFormed
  <1>1. CASE \E n \in 0 .. Len(f) : g = SubSeq(f, 1, n)
    <2>1. PICK n \in 0 .. Len(f) : g = SubSeq(f, 1, n)
      BY <1>1
    <2>2. g \in Seq(Slots) /\ Len(g) = n /\ \A i \in 1 .. n : g[i] = f[i]
      BY <2>1, <1>0
    <2> QED
      BY <2>2, <1>0 DEF WellFormed
  <1>2. CASE \E n \in 1 .. Len(f), st \in {"torn", "whole"} :
               g = Append(SubSeq(f, 1, n - 1), [rec |-> f[n].rec, st |-> st])
    <2>1. PICK n \in 1 .. Len(f), st \in {"torn", "whole"} :
               g = Append(SubSeq(f, 1, n - 1), [rec |-> f[n].rec, st |-> st])
      BY <1>2
    <2>2. f[n].rec \in Records
      BY DEF WellFormed
    <2>3. SubSeq(f, 1, n - 1) \in Seq(Slots) /\ Len(SubSeq(f, 1, n - 1)) = n - 1
          /\ \A i \in 1 .. n - 1 : SubSeq(f, 1, n - 1)[i] = f[i]
      BY <1>0
    <2>4. [rec |-> f[n].rec, st |-> st] \in Slots
      BY <2>2 DEF Slots
    <2>5. g \in Seq(Slots) /\ Len(g) = n
      BY <2>1, <2>3, <2>4
    <2>6. \A i \in 1 .. n - 1 : g[i] = f[i]
      BY <2>1, <2>3, <2>4
    <2>7. g[n].rec \in Records
      BY <2>1, <2>2, <2>3, <2>4
    <2> QED
      BY <2>5, <2>6, <2>7, <1>0 DEF WellFormed
  <1> QED
    BY <1>1, <1>2 DEF Cuts

\* What a power loss leaves is well formed and holds every line of the disk.
LEMMA CrashImagesSound ==
    ASSUME IInv, NEW g \in CrashImages(disk, file) \cup {file}
    PROVE  WellFormed(g) /\ Lines(disk) \subseteq Lines(g)
  <1>1. WellFormed(g)
    BY CutsWellFormed DEF CrashImages, IInv
  <1>2. \/ Covers(g, disk)
        \/ /\ ~Clean(disk)
           /\ LastSlot(disk).st = "torn"
           /\ Covers(g, DropLast(disk))
    <2>1. CASE g = disk
      BY <2>1, CoversRefl DEF IInv, WellFormed
    <2>2. CASE g = file
      BY <2>2 DEF IInv, DiskLags
    <2>3. CASE g # disk /\ g # file
      BY <2>3 DEF CrashImages, IInv, DiskLags
    <2> QED
      BY <2>1, <2>2, <2>3
  <1>3. CASE Covers(g, disk)
    BY <1>1, <1>3, CoversLines DEF IInv, WellFormed
  <1>4. CASE ~Clean(disk) /\ LastSlot(disk).st = "torn" /\ Covers(g, DropLast(disk))
    <2>1. disk # <<>> /\ WellFormed(disk)
      BY <1>4 DEF Clean, IInv
    <2>2. /\ DropLast(disk) \in Seq(Slots)
          /\ Len(DropLast(disk)) = Len(disk) - 1
          /\ \A i \in 1 .. Len(disk) - 1 : DropLast(disk)[i] = disk[i]
      BY <2>1, DropLastWellFormed DEF WellFormed
    <2>3. Lines(disk) \subseteq Lines(DropLast(disk))
      BY <2>1, <2>2, <1>4 DEF Lines, LastSlot, WellFormed
    <2> QED
      BY <1>1, <1>4, <2>2, <2>3, CoversLines DEF WellFormed
  <1> QED
    BY <1>1, <1>2, <1>3, <1>4

\* A finished line of a well-formed file decodes.
LEMMA LinesDecode ==
    ASSUME NEW f, WellFormed(f)
    PROVE  Lines(f) \subseteq Decoded(f)
  BY DEF Lines, Decoded, Decodes, WellFormed, Records, Garbled

\* A reader of a well-formed file never finds corruption, and a complete list
\* holds every record of the file.
LEMMA WellFormedParses ==
    ASSUME NEW f, WellFormed(f)
    PROVE  /\ ParseResult(f) \in {"complete", "incomplete"}
           /\ ParseResult(f) = "complete"
                => {f[i].rec : i \in 1 .. Len(f)} \subseteq Decoded(f)
  <1>1. \A i \in 1 .. Len(f) - 1 : Decodes(f[i])
    BY DEF WellFormed, Decodes, Records, Garbled
  <1>2. Clean(f) => \A i \in 1 .. Len(f) : Decodes(f[i])
    BY <1>1 DEF WellFormed, Decodes, Records, Garbled, Clean, LastSlot
  <1>3. ParseResult(f) = "complete" => \A i \in 1 .. Len(f) : Decodes(f[i])
    BY DEF ParseResult
  <1> QED
    BY <1>1, <1>2, <1>3 DEF ParseResult, Decoded
-----------------------------------------------------------------------------
(* The invariant. *)

LEMMA InitIInv == Init => IInv
  <1> SUFFICES ASSUME Init PROVE IInv
    OBVIOUS
  <1> USE DEF Init
  <1>1. TypeOK
    BY ConstantsAssumption DEF TypeOK, NoRead
  <1>2. WellFormed(file) /\ WellFormed(disk)
    BY DEF WellFormed
  <1>3. DiskLags
    BY DEF DiskLags, Covers
  <1>4. PlaceInv
    BY DEF PlaceInv, Clean
  <1>5. ReaderInv
    BY DEF ReaderInv, ReaderHonest, NoRead
  <1> QED
    BY <1>1, <1>2, <1>3, <1>4, <1>5 DEF IInv

\* Steps of the writer that leave the files alone.
LEMMA WriterQuietStep ==
    ASSUME IInv, BeginWrite \/ Inspect \/ WriteSidecar \/ ReturnNil \/ AbortWrite
    PROVE  IInv'
  <1>1. UNCHANGED <<file, disk>> /\ UNCHANGED reader
    BY DEF BeginWrite, Inspect, WriteSidecar, ReturnNil, AbortWrite
  <1>2. WellFormed(file)' /\ WellFormed(disk)' /\ DiskLags'
    BY <1>1 DEF IInv, WellFormed, DiskLags, Covers, Clean, LastSlot, DropLast
  <1>3. CASE BeginWrite
    <2>1. writing + 1 \in Records /\ writing' = writing + 1 /\ acked' = acked
      BY <1>3, ConstantsAssumption DEF BeginWrite, IInv, TypeOK, Records
    <2>2. TypeOK'
      BY <1>1, <1>3, <2>1 DEF BeginWrite, IInv, TypeOK, Records
    <2>3. PlaceInv'
      BY <1>1, <1>3, <2>1 DEF BeginWrite, PlaceInv
    <2> QED
      BY <1>1, <1>2, <2>1, <2>2, <2>3 DEF IInv, Lines, ReaderInv, ReaderHonest
  <1>4. CASE Inspect
    <2>1. acked' = acked /\ writing' = writing
      BY <1>4 DEF Inspect
    <2>2. TypeOK'
      BY <1>1, <1>4 DEF Inspect, IInv, TypeOK
    <2>3. PlaceInv'
      <3>1. ~Clean(file) => LastSlot(file) \in Slots /\ LastSlot(file).rec \in Records
        BY DEF Clean, LastSlot, IInv, WellFormed
      <3>2. ~Clean(file) => LastSlot(file).st \in {"torn", "whole"}
        BY <3>1 DEF Clean, Slots
      <3>3. ~Clean(file) => (Decodes(LastSlot(file)) <=> LastSlot(file).st = "whole")
        BY <3>1, <3>2 DEF Decodes, Records, Garbled
      <3> QED
        BY <1>1, <1>4, <3>2, <3>3 DEF Inspect, PlaceInv, Clean, LastSlot, IInv
    <2> QED
      BY <1>1, <1>2, <2>1, <2>2, <2>3 DEF IInv, Lines, ReaderInv, ReaderHonest
  <1>5. CASE WriteSidecar
    <2>1. acked' = acked /\ writing' = writing
      BY <1>5 DEF WriteSidecar
    <2>2. LastSlot(file) \in Slots
      BY <1>5 DEF WriteSidecar, IInv, PlaceInv, WellFormed, Clean, LastSlot
    <2>3. TypeOK'
      BY <1>1, <1>5, <2>2 DEF WriteSidecar, IInv, TypeOK
    <2>4. PlaceInv'
      BY <1>1, <1>5 DEF WriteSidecar, IInv, PlaceInv, Clean, LastSlot
    <2> QED
      BY <1>1, <1>2, <2>1, <2>3, <2>4 DEF IInv, Lines, ReaderInv, ReaderHonest
  <1>6. CASE ReturnNil
    <2>1. writing \in Lines(disk) /\ writing \in Records /\ acked' = acked \cup {writing}
      BY <1>6 DEF ReturnNil, IInv, PlaceInv
    <2>2. TypeOK'
      BY <1>1, <1>6, <2>1 DEF ReturnNil, IInv, TypeOK
    <2>3. PlaceInv'
      BY <1>6 DEF ReturnNil, PlaceInv
    <2> QED
      BY <1>1, <1>2, <2>1, <2>2, <2>3 DEF IInv, Lines, ReaderInv, ReaderHonest
  <1>7. CASE AbortWrite
    <2>1. TypeOK' /\ PlaceInv' /\ acked' = acked
      BY <1>1, <1>7 DEF AbortWrite, IInv, TypeOK, PlaceInv
    <2> QED
      BY <1>1, <1>2, <2>1 DEF IInv, Lines, ReaderInv, ReaderHonest
  <1> QED
    BY <1>3, <1>4, <1>5, <1>6, <1>7

\* A file that only grows keeps what is known about the disk.
LEMMA DiskLagsGrow ==
    ASSUME IInv, UNCHANGED disk, WellFormed(file'), Covers(file', file)
    PROVE  DiskLags'
  <1>1. disk \in Seq(Slots) /\ file \in Seq(Slots) /\ file' \in Seq(Slots)
    BY DEF IInv, WellFormed
  <1>2. CASE Covers(file, disk)
    BY <1>1, <1>2, CoversTrans DEF DiskLags
  <1>3. CASE ~Clean(disk) /\ LastSlot(disk).st = "torn" /\ Covers(file, DropLast(disk))
    <2>1. DropLast(disk) \in Seq(Slots)
      BY <1>3, DropLastWellFormed DEF IInv, Clean, WellFormed
    <2>2. Covers(file', DropLast(disk))
      BY <1>1, <1>3, <2>1, CoversTrans
    <2> QED
      BY <1>3, <2>2 DEF DiskLags, Clean, LastSlot, DropLast
  <1> QED
    BY <1>2, <1>3 DEF IInv, DiskLags

LEMMA AppendStep ==
    ASSUME IInv, TerminateInPlace \/ WriteHead \/ WriteBody \/ WriteNewline
    PROVE  IInv'
  <1>1. UNCHANGED <<disk, sidecars, writing, acked, reader>>
    BY DEF TerminateInPlace, WriteHead, WriteBody, WriteNewline
  <1>2. writing \in Records /\ writing # Garbled
    BY DEF IInv, PlaceInv, TerminateInPlace, WriteHead, WriteBody, WriteNewline, Records, Garbled
  <1>3. /\ WellFormed(file')
        /\ Covers(file', file)
        /\ PlaceInv'
        /\ pc' \in {"syncRepair", "body", "newline", "sync"}
    <2>1. CASE WriteHead
      <3> DEFINE s == [rec |-> writing, st |-> "torn"]
      <3>1. Clean(file) /\ WellFormed(file) /\ s \in Slots /\ s.rec \in Records
        BY <2>1, <1>2 DEF WriteHead, IInv, PlaceInv, Slots
      <3>2. file' = Append(file, s) /\ pc' = "body"
        BY <2>1, <3>1 DEF WriteHead, AppendHead
      <3>3. WellFormed(file') /\ Covers(file', file)
        BY <3>1, <3>2, AppendWellFormed
      <3>4. file' # <<>> /\ LastSlot(file') = s
        BY <3>1, <3>2 DEF WellFormed, LastSlot
      <3> QED
        BY <1>1, <1>2, <3>2, <3>3, <3>4 DEF PlaceInv, LastSlot
    <2>2. CASE WriteBody
      <3> DEFINE s == [rec |-> writing, st |-> "whole"]
      <3>1. /\ file # <<>> /\ WellFormed(file) /\ s \in Slots
            /\ LastSlot(file).rec = writing /\ LastSlot(file).st = "torn"
        BY <2>2, <1>2 DEF WriteBody, IInv, PlaceInv, Slots
      <3>2. file' = Append(DropLast(file), s) /\ pc' = "newline"
        BY <2>2, <3>1 DEF WriteBody, AppendBody
      <3>3. s.rec = LastSlot(file).rec /\ Rank(s.st) >= Rank(LastSlot(file).st)
        BY <3>1 DEF Rank
      <3>4. WellFormed(file') /\ Covers(file', file) /\ file' # <<>> /\ LastSlot(file') = s
        BY <3>1, <3>2, <3>3, ReplaceLast
      <3> QED
        BY <1>1, <1>2, <3>2, <3>4 DEF PlaceInv, LastSlot
    <2>3. CASE TerminateInPlace \/ WriteNewline
      <3> DEFINE s == [rec |-> LastSlot(file).rec, st |-> "line"]
      <3>1. /\ file # <<>> /\ WellFormed(file) /\ LastSlot(file).st = "whole"
            /\ WriteNewline => LastSlot(file).rec = writing
        BY <2>3 DEF TerminateInPlace, WriteNewline, IInv, PlaceInv, Clean
      <3>2. LastSlot(file).rec \in Records /\ s \in Slots
        BY <3>1 DEF WellFormed, LastSlot, Slots
      <3>3. Decodes(LastSlot(file))
        BY <3>1, <3>2 DEF Decodes, Records, Garbled
      <3>4. file' = Append(DropLast(file), s)
        BY <2>3, <3>3 DEF TerminateInPlace, WriteNewline, AppendNewline
      <3>5. s.rec = LastSlot(file).rec /\ Rank(s.st) >= Rank(LastSlot(file).st)
        BY <3>1 DEF Rank
      <3>6. WellFormed(file') /\ Covers(file', file) /\ file' # <<>> /\ LastSlot(file') = s
        BY <3>1, <3>2, <3>4, <3>5, ReplaceLast
      <3>7. PlaceInv' /\ pc' \in {"syncRepair", "sync"}
        BY <1>1, <1>2, <2>3, <3>1, <3>6
           DEF TerminateInPlace, WriteNewline, PlaceInv, LastSlot, Clean
      <3> QED
        BY <3>6, <3>7
    <2> QED
      BY <2>1, <2>2, <2>3
  <1>4. DiskLags'
    BY <1>1, <1>3, DiskLagsGrow
  <1>5. TypeOK'
    BY <1>1, <1>3 DEF IInv, TypeOK, WellFormed
  <1> QED
    BY <1>1, <1>3, <1>4, <1>5 DEF IInv, WellFormed, Lines, ReaderInv, ReaderHonest

LEMMA SyncStep ==
    ASSUME IInv, SyncRepair \/ SyncEntry
    PROVE  IInv'
  <1>1. UNCHANGED <<file, sidecars, writing, acked, reader>> /\ disk' = file
    BY DEF SyncRepair, SyncEntry
  <1>2. WellFormed(file') /\ WellFormed(disk') /\ file \in Seq(Slots)
    BY <1>1 DEF IInv, WellFormed
  <1>3. DiskLags'
    BY <1>1, <1>2, CoversRefl DEF DiskLags
  <1>4. Lines(disk) \subseteq Lines(file)
    BY CrashImagesSound
  <1>5. TypeOK'
    BY <1>1 DEF IInv, TypeOK, SyncRepair, SyncEntry
  <1>6. PlaceInv'
    <2>1. CASE SyncRepair
      BY <1>1, <2>1 DEF SyncRepair, IInv, PlaceInv, Clean, LastSlot
    <2>2. CASE SyncEntry
      <3>1. file # <<>> /\ LastSlot(file).rec = writing /\ LastSlot(file).st = "line"
            /\ writing \in Records
        BY <2>2 DEF SyncEntry, IInv, PlaceInv
      <3>2. Len(file) \in 1 .. Len(file)
        BY <1>2, <3>1
      <3>3. writing \in Lines(file)
        BY <3>1, <3>2 DEF Lines, LastSlot
      <3> QED
        BY <1>1, <2>2, <3>1, <3>3 DEF SyncEntry, PlaceInv, Lines
    <2> QED
      BY <2>1, <2>2
  <1> QED
    BY <1>1, <1>2, <1>3, <1>4, <1>5, <1>6 DEF IInv, Lines, ReaderInv, ReaderHonest, WellFormed

\* Cutting the torn slot off loses no finished line.
LEMMA TruncateStep ==
    ASSUME IInv, Truncate
    PROVE  IInv'
  <1>1. /\ UNCHANGED <<disk, sidecars, writing, acked, reader>>
        /\ file' = DropLast(file)
        /\ pc' = "syncRepair"
        /\ ~Clean(file) /\ LastSlot(file).st = "torn" /\ file # <<>>
        /\ writing \in Records
    BY DEF Truncate, IInv, PlaceInv, Clean
  <1>2. /\ file \in Seq(Slots) /\ Len(file) \in Nat \ {0}
        /\ file' \in Seq(Slots)
        /\ Len(file') = Len(file) - 1
        /\ \A i \in 1 .. Len(file) - 1 : file'[i] = file[i]
        /\ WellFormed(file') /\ Clean(file')
    <2>1. WellFormed(file) /\ file # <<>>
      BY <1>1 DEF IInv
    <2>2. /\ DropLast(file) \in Seq(Slots) /\ Len(file) \in Nat \ {0}
          /\ file \in Seq(Slots)
          /\ Len(DropLast(file)) = Len(file) - 1
          /\ \A i \in 1 .. Len(file) - 1 : DropLast(file)[i] = file[i]
          /\ WellFormed(DropLast(file))
      BY <2>1, DropLastWellFormed
    <2>3. Clean(DropLast(file))
      BY <2>1, DropLastWellFormed
    <2>4. Clean(file')
      BY <2>3, <1>1 DEF Clean
    <2>5. WellFormed(file')
      BY <2>2, <1>1 DEF WellFormed
    <2> QED
      BY <2>2, <2>4, <2>5, <1>1
  <1>3. disk \in Seq(Slots) /\ Len(disk) \in Nat /\ WellFormed(disk)
    BY DEF IInv, WellFormed
  <1>4. ASSUME NEW d \in Seq(Slots), Covers(file, d), Len(d) < Len(file)
        PROVE  Covers(file', d)
    BY <1>2, <1>4 DEF Covers
  <1>5. ASSUME Covers(file, disk)
        PROVE  DiskLags'
    <2>1. CASE Len(disk) < Len(file)
      BY <1>1, <1>3, <1>4, <1>5, <2>1 DEF DiskLags
    <2>2. CASE Len(disk) >= Len(file)
      <3>1. Len(disk) = Len(file) /\ disk # <<>>
        BY <2>2, <1>2, <1>3, <1>5 DEF Covers
      <3>2. Rank(LastSlot(disk).st) <= Rank("torn") /\ LastSlot(disk) \in Slots
        BY <3>1, <1>1, <1>2, <1>3, <1>5 DEF Covers, LastSlot
      <3>3. LastSlot(disk).st = "torn"
        BY <3>2 DEF Rank, Slots
      <3>4. /\ DropLast(disk) \in Seq(Slots)
            /\ Len(DropLast(disk)) = Len(disk) - 1
            /\ \A i \in 1 .. Len(disk) - 1 : DropLast(disk)[i] = disk[i]
        BY <3>1, <1>3, DropLastWellFormed
      <3>5. Covers(file, DropLast(disk)) /\ Len(DropLast(disk)) < Len(file)
        BY <3>1, <3>4, <1>2, <1>3, <1>5 DEF Covers
      <3>6. Covers(file', DropLast(disk))
        BY <3>4, <3>5, <1>4
      <3> QED
        BY <1>1, <3>1, <3>3, <3>6 DEF DiskLags, Clean, LastSlot, DropLast
    <2> QED
      BY <2>1, <2>2, <1>2, <1>3
  <1>6. ASSUME ~Clean(disk), LastSlot(disk).st = "torn", Covers(file, DropLast(disk))
        PROVE  DiskLags'
    <2>1. disk # <<>>
      BY <1>6 DEF Clean
    <2>2. /\ DropLast(disk) \in Seq(Slots) /\ WellFormed(DropLast(disk)) /\ Clean(DropLast(disk))
          /\ Len(DropLast(disk)) \in Nat
      BY <2>1, <1>3, DropLastWellFormed DEF WellFormed
    <2>3. CASE Len(DropLast(disk)) < Len(file)
      BY <1>1, <1>4, <1>6, <2>2, <2>3 DEF DiskLags, Clean, LastSlot, DropLast
    <2>4. CASE Len(DropLast(disk)) >= Len(file)
      <3>1. Len(DropLast(disk)) = Len(file)
        BY <2>4, <2>2, <1>2, <1>6 DEF Covers
      <3>2. DropLast(disk)[Len(file)].st = "line"
        BY <3>1, <2>2, <1>2 DEF Clean, LastSlot
      <3>3. Rank("torn") >= Rank("line")
        BY <3>1, <3>2, <1>1, <1>2, <1>6 DEF Covers, LastSlot
      <3> QED
        BY <3>3 DEF Rank
    <2> QED
      BY <2>2, <2>3, <2>4, <1>2
  <1>7. DiskLags'
    BY <1>5, <1>6 DEF IInv, DiskLags
  <1>8. TypeOK' /\ PlaceInv'
    BY <1>1, <1>2 DEF IInv, TypeOK, PlaceInv
  <1> QED
    BY <1>1, <1>2, <1>3, <1>7, <1>8 DEF IInv, Lines, ReaderInv, ReaderHonest, WellFormed

LEMMA PowerLossStep ==
    ASSUME IInv, PowerLoss
    PROVE  IInv'
  <1>1. PICK g \in CrashImages(disk, file) : file' = g /\ disk' = g
    BY DEF PowerLoss
  <1>2. /\ UNCHANGED <<sidecars, writing, acked>>
        /\ pc' = "idle"
        /\ reader' = NoRead
    BY DEF PowerLoss
  <1>3. WellFormed(g) /\ Lines(disk) \subseteq Lines(g) /\ g \in Seq(Slots)
    BY CrashImagesSound DEF WellFormed
  <1>4. DiskLags'
    BY <1>1, <1>3, CoversRefl DEF DiskLags
  <1>5. TypeOK'
    BY <1>1, <1>2, <1>3, ConstantsAssumption DEF IInv, TypeOK, NoRead
  <1>6. PlaceInv' /\ ReaderInv'
    BY <1>2 DEF PlaceInv, ReaderInv, ReaderHonest, NoRead
  <1>7. WellFormed(file)' /\ WellFormed(disk)' /\ (acked \subseteq Lines(disk))'
    BY <1>1, <1>2, <1>3 DEF IInv, Lines, WellFormed
  <1> QED
    BY <1>4, <1>5, <1>6, <1>7 DEF IInv

\* The three steps of a reader change nothing but the reader.
LEMMA ReaderStep ==
    ASSUME IInv, BeginRead \/ ReadSnapshot \/ EndRead
    PROVE  IInv'
  <1>1. UNCHANGED writerVars
    BY DEF BeginRead, ReadSnapshot, EndRead
  <1>2. /\ WellFormed(file)' /\ WellFormed(disk)' /\ DiskLags' /\ PlaceInv'
        /\ (acked \subseteq Lines(disk))'
    BY <1>1 DEF writerVars, IInv, WellFormed, DiskLags, PlaceInv, Lines,
                Covers, Clean, LastSlot, DropLast
  <1>3. acked \subseteq Decoded(file) /\ Decoded(file) \subseteq Records
    <2>1. acked \subseteq Lines(disk) /\ WellFormed(file) /\ Lines(disk) \subseteq Lines(file)
      BY CrashImagesSound DEF IInv
    <2> QED
      BY <2>1, LinesDecode DEF Decoded, WellFormed
  <1>4. /\ ParseResult(file) \in {"complete", "incomplete"}
        /\ ParseResult(file) = "complete"
             => {file[i].rec : i \in 1 .. Len(file)} \subseteq Decoded(file)
    BY WellFormedParses DEF IInv
  <1>5. {file[i].rec : i \in 1 .. Len(file)} \subseteq Records \cup {Garbled}
    BY DEF IInv, WellFormed
  <1>6. CASE BeginRead \/ EndRead
    <2>1. \E b \in {{}, acked}, p \in {"idle", "read"} :
             reader' = [pc |-> p, attempt |-> 0, result |-> "none", view |-> {},
                        before |-> b, present |-> {}]
      <3>1. CASE BeginRead
        BY <3>1 DEF BeginRead, NoRead
      <3>2. CASE EndRead
        BY <3>2 DEF EndRead, NoRead
      <3> QED
        BY <1>6, <3>1, <3>2
    <2> PICK b \in {{}, acked}, p \in {"idle", "read"} :
             reader' = [pc |-> p, attempt |-> 0, result |-> "none", view |-> {},
                        before |-> b, present |-> {}]
      BY <2>1
    <2>2. /\ reader'.pc # "done"
          /\ reader'.before \subseteq acked
      OBVIOUS
    <2>3. TypeOK'
      <3>1. 0 \in 0 .. ReadAttempts - 1 /\ b \in SUBSET Records
        BY ConstantsAssumption DEF IInv, TypeOK
      <3> QED
        BY <1>1, <3>1 DEF writerVars, IInv, TypeOK
    <2>4. ReaderInv'
      BY <1>1, <2>2 DEF writerVars, ReaderInv, ReaderHonest
    <2> QED
      BY <1>2, <2>3, <2>4 DEF IInv
  <1>7. CASE ReadSnapshot
    <2>1. CASE reader' = [reader EXCEPT !.attempt = @ + 1]
      <3>1. reader.attempt + 1 \in 0 .. ReadAttempts - 1 /\ reader.pc = "read"
        <4>1. reader.attempt \in Nat /\ reader.pc = "read" /\ ReadAttempts \in Nat
          BY <1>7, ConstantsAssumption DEF ReadSnapshot, IInv, TypeOK
        <4>2. reader \in [pc : {"idle", "read", "done"},
                          attempt : 0 .. ReadAttempts - 1,
                          result : {"none", "complete", "incomplete", "corrupt"},
                          view : SUBSET Records,
                          before : SUBSET Records,
                          present : SUBSET (Records \cup {Garbled})]
          BY DEF IInv, TypeOK
        <4>3. reader'.attempt = reader.attempt + 1
          BY <2>1, <4>2
        <4>4. FinalDecodeFailure(file) /\ reader.attempt + 1 < ReadAttempts
          <5> SUFFICES ASSUME ~(FinalDecodeFailure(file) /\ reader.attempt + 1 < ReadAttempts)
                       PROVE  FALSE
            OBVIOUS
          <5>1. reader'.attempt = reader.attempt
            BY <1>7, <4>2 DEF ReadSnapshot
          <5> QED
            BY <5>1, <4>1, <4>3
        <4> QED
          BY <4>1, <4>4
      <3>2. TypeOK'
        BY <1>1, <2>1, <3>1 DEF writerVars, IInv, TypeOK
      <3>3. reader'.before = reader.before /\ reader'.pc = "read"
        BY <2>1, <3>1 DEF IInv, TypeOK
      <3>4. ReaderInv'
        BY <1>1, <3>3 DEF writerVars, ReaderInv, ReaderHonest, IInv
      <3> QED
        BY <1>2, <3>2, <3>4 DEF IInv
    <2>2. CASE reader' = [reader EXCEPT !.pc = "done",
                                        !.result = ParseResult(file),
                                        !.view = IF ParseResult(file) = "corrupt"
                                                 THEN {} ELSE Decoded(file),
                                        !.present = {file[i].rec : i \in 1 .. Len(file)}]
      <3> DEFINE present == {file[i].rec : i \in 1 .. Len(file)}
      <3>1. /\ reader'.result = ParseResult(file)
            /\ reader'.view = Decoded(file)
            /\ reader'.present = present
            /\ reader'.before = reader.before
        BY <1>4, <2>2 DEF IInv, TypeOK
      <3>2. TypeOK'
        BY <1>1, <1>3, <1>4, <1>5, <2>2 DEF writerVars, IInv, TypeOK
      <3>3. ReaderInv'
        BY <1>1, <1>3, <1>4, <3>1 DEF writerVars, ReaderInv, ReaderHonest, IInv
      <3> QED
        BY <1>2, <3>2, <3>3 DEF IInv
    <2> QED
      BY <1>7, <2>1, <2>2 DEF ReadSnapshot
  <1> QED
    BY <1>6, <1>7

LEMMA NextIInv == IInv /\ [Next]_vars => IInv'
  <1> SUFFICES ASSUME IInv, [Next]_vars PROVE IInv'
    OBVIOUS
  <1>1. CASE BeginWrite \/ Inspect \/ WriteSidecar \/ ReturnNil \/ AbortWrite
    BY <1>1, WriterQuietStep
  <1>2. CASE TerminateInPlace \/ WriteHead \/ WriteBody \/ WriteNewline
    BY <1>2, AppendStep
  <1>3. CASE SyncRepair \/ SyncEntry
    BY <1>3, SyncStep
  <1>4. CASE Truncate
    BY <1>4, TruncateStep
  <1>5. CASE PowerLoss
    BY <1>5, PowerLossStep
  <1>6. CASE BeginRead \/ ReadSnapshot \/ EndRead
    BY <1>6, ReaderStep
  <1>7. CASE UNCHANGED vars
    BY <1>7 DEF vars, IInv, TypeOK, WellFormed, DiskLags, PlaceInv, ReaderInv,
                ReaderHonest, Lines, Covers, Clean, LastSlot, DropLast
  <1> QED
    BY <1>1, <1>2, <1>3, <1>4, <1>5, <1>6, <1>7 DEF Next, Write

LEMMA Invariance == Spec => []IInv
  BY InitIInv, NextIInv, PTL DEF Spec

-----------------------------------------------------------------------------
(* What the journal promises. *)

\* The variables keep their types.
THEOREM TypeCorrect == Spec => []TypeOK
  <1>1. IInv => TypeOK
    BY DEF IInv
  <1> QED
    BY <1>1, Invariance, PTL

\* Whatever writes, repairs, kills and power losses happened, no completed line
\* of the journal is ever undecodable, so no reader loses the history.
THEOREM JournalNeverCorrupt == Spec => []NeverCorrupt
  <1>1. IInv => NeverCorrupt
    BY CrashImagesSound, WellFormedParses DEF NeverCorrupt
  <1> QED
    BY <1>1, Invariance, PTL

\* An entry whose WriteEntry returned nil is decodable from then on, in the
\* file and in whatever a power loss leaves of it.
THEOREM AcknowledgedEntriesSurvive == Spec => []AckedSurvives
  <1>1. IInv => AckedSurvives
    <2> SUFFICES ASSUME IInv, NEW g \in CrashImages(disk, file) \cup {file}
                 PROVE  acked \subseteq Decoded(g)
      BY DEF AckedSurvives
    <2>1. WellFormed(g) /\ Lines(disk) \subseteq Lines(g)
      BY CrashImagesSound
    <2> QED
      BY <2>1, LinesDecode DEF IInv
  <1> QED
    BY <1>1, Invariance, PTL

\* A reader without the lock is never told of corruption, never misses an
\* entry acknowledged before it started, and never calls a list complete that
\* hides bytes it could not decode.
THEOREM ReadersAreHonest == Spec => []ReaderHonest
  <1>1. IInv => ReaderHonest
    BY DEF IInv, ReaderInv
  <1> QED
    BY <1>1, Invariance, PTL

\* Once the fragment is to be cut it is in a sidecar.
Saved == pc = "truncate" => LastSlot(file) \in sidecars

LEMMA SavedInvariant == Spec => []Saved
  <1>1. Init => Saved
    BY DEF Init, Saved
  <1>2. Saved /\ [Next]_vars => Saved'
    BY DEF Saved, Next, vars, writerVars, Write, BeginWrite, Inspect, TerminateInPlace,
           WriteSidecar, Truncate, SyncRepair, WriteHead, WriteBody, WriteNewline, SyncEntry,
           ReturnNil, AbortWrite, PowerLoss, BeginRead, ReadSnapshot, EndRead
  <1> QED
    BY <1>1, <1>2, PTL DEF Spec

\* A file that is written to does not get shorter.
LEMMA WritingGrows ==
    ASSUME IInv, TerminateInPlace \/ WriteHead \/ WriteBody \/ WriteNewline
    PROVE  Len(file') >= Len(file)
  <1>1. file \in Seq(Slots) /\ WellFormed(file)
    BY DEF IInv, TypeOK
  <1>2. CASE WriteHead
    <2>1. file' = Append(file, [rec |-> writing, st |-> "torn"])
      BY <1>2 DEF WriteHead, AppendHead, IInv, PlaceInv
    <2> QED
      BY <2>1, <1>1
  <1>3. CASE TerminateInPlace \/ WriteBody \/ WriteNewline
    <2>1. file # <<>>
      BY <1>3 DEF TerminateInPlace, WriteBody, WriteNewline, IInv, PlaceInv, Clean
    <2>2. PICK s : file' = Append(DropLast(file), s)
      BY <1>3 DEF TerminateInPlace, WriteBody, WriteNewline, AppendBody, AppendNewline
    <2>3. /\ DropLast(file) \in Seq(Slots) /\ Len(DropLast(file)) = Len(file) - 1
          /\ Len(file) \in Nat \ {0}
      BY <2>1, <1>1, DropLastWellFormed
    <2>4. Len(file') = Len(DropLast(file)) + 1
      BY <2>2, <2>3
    <2> QED
      BY <2>3, <2>4
  <1> QED
    BY <1>2, <1>3

\* Whatever a writer cuts from the journal did not decode and was synced to a
\* sidecar first, however writes, repairs and crashes followed each other.
THEOREM RepairsKeepEvidence == Spec => RepairKeepsEvidence
  <1> DEFINE Kept == pc' # "idle" /\ Len(file') < Len(file)
                       => ~Decodes(LastSlot(file)) /\ LastSlot(file) \in sidecars
  <1>1. ASSUME IInv, Saved, [Next]_vars
        PROVE  Kept
    <2>1. Len(file) \in Nat
      BY <1>1 DEF IInv, TypeOK
    <2>2. CASE file' = file
      BY <2>1, <2>2
    <2>3. CASE TerminateInPlace \/ WriteHead \/ WriteBody \/ WriteNewline
      <3>1. Len(file') >= Len(file)
        BY <1>1, <2>3, WritingGrows
      <3>2. IInv'
        BY <1>1, <2>3, AppendStep
      <3>3. Len(file') \in Nat
        BY <3>2 DEF IInv, TypeOK
      <3> QED
        BY <2>1, <3>1, <3>3
    <2>4. CASE Truncate
      <3>1. pc = "truncate" /\ LastSlot(file).st = "torn"
        BY <1>1, <2>4 DEF Truncate, IInv, PlaceInv
      <3> QED
        BY <1>1, <3>1 DEF Saved, Decodes
    <2>5. CASE PowerLoss
      BY <2>5 DEF PowerLoss
    <2> QED
      BY <1>1, <2>2, <2>3, <2>4, <2>5
         DEF Next, vars, writerVars, Write, BeginWrite, Inspect, WriteSidecar, SyncRepair,
             SyncEntry, ReturnNil, AbortWrite, BeginRead, ReadSnapshot, EndRead
  <1>2. IInv /\ Saved /\ [Next]_vars => [Kept]_vars
    BY <1>1
  <1> QED
    BY <1>2, Invariance, SavedInvariant, PTL DEF Spec, RepairKeepsEvidence

-----------------------------------------------------------------------------
(* The file implements the log. *)

\* Records are written in order, each once.
OrderInv ==
    /\ \A i \in 1 .. Len(file) : file[i].rec <= writing
    /\ \A i \in 1 .. Len(disk) : disk[i].rec <= writing
    /\ pc \in {"inspect", "terminate", "sidecar", "truncate", "syncRepair", "head"}
         => \A i \in 1 .. Len(file) : file[i].rec < writing
    /\ pc = "body" => \A i \in 1 .. Len(file) - 1 : file[i].rec < writing

\* A cut of a file holds no record the file does not hold.
LEMMA CutsRecords ==
    ASSUME NEW f, WellFormed(f), NEW g \in Cuts(f)
    PROVE  /\ Len(g) <= Len(f)
           /\ \A i \in 1 .. Len(g) : g[i].rec = f[i].rec
           /\ \A i \in 1 .. Len(g) - 1 : g[i] = f[i]
  <1>0. f \in Seq(Slots) /\ Len(f) \in Nat
    BY DEF WellFormed
  <1>1. CASE \E n \in 0 .. Len(f) : g = SubSeq(f, 1, n)
    <2>1. PICK n \in 0 .. Len(f) : g = SubSeq(f, 1, n)
      BY <1>1
    <2>2. Len(g) = n /\ \A i \in 1 .. n : g[i] = f[i]
      BY <2>1, <1>0
    <2> QED
      BY <2>2, <1>0
  <1>2. CASE \E n \in 1 .. Len(f), st \in {"torn", "whole"} :
               g = Append(SubSeq(f, 1, n - 1), [rec |-> f[n].rec, st |-> st])
    <2>1. PICK n \in 1 .. Len(f), st \in {"torn", "whole"} :
               g = Append(SubSeq(f, 1, n - 1), [rec |-> f[n].rec, st |-> st])
      BY <1>2
    <2>2. SubSeq(f, 1, n - 1) \in Seq(Slots) /\ Len(SubSeq(f, 1, n - 1)) = n - 1
          /\ \A i \in 1 .. n - 1 : SubSeq(f, 1, n - 1)[i] = f[i]
      BY <1>0
    <2>3. Len(g) = n /\ g[n].rec = f[n].rec /\ \A i \in 1 .. n - 1 : g[i] = f[i]
      BY <2>1, <2>2
    <2> QED
      BY <2>3, <1>0
  <1> QED
    BY <1>1, <1>2 DEF Cuts

LEMMA OrderInvariant == Spec => []OrderInv
  <1>1. Init => OrderInv
    BY DEF Init, OrderInv
  <1>2. IInv /\ OrderInv /\ [Next]_vars => OrderInv'
    <2> SUFFICES ASSUME IInv, OrderInv, [Next]_vars PROVE OrderInv'
      OBVIOUS
    <2>0. /\ file \in Seq(Slots) /\ disk \in Seq(Slots) /\ writing \in Nat
          /\ WellFormed(file) /\ WellFormed(disk)
          /\ \A i \in 1 .. Len(file) : file[i].rec \in Nat
      BY DEF IInv, WellFormed, TypeOK, Records
    <2>1. CASE BeginWrite
      <3>1. /\ UNCHANGED <<file, disk>> /\ writing' = writing + 1 /\ pc' = "inspect"
        BY <2>1 DEF BeginWrite
      <3>2. \A i \in 1 .. Len(disk) : disk[i].rec \in Nat
        BY <2>0 DEF WellFormed, Records
      <3> QED
        BY <3>1, <3>2, <2>0 DEF OrderInv
    <2>2. CASE Inspect \/ WriteSidecar \/ ReturnNil \/ AbortWrite
      BY <2>2 DEF Inspect, WriteSidecar, ReturnNil, AbortWrite, OrderInv
    <2>3. CASE TerminateInPlace \/ WriteBody \/ WriteNewline
      <3>1. file # <<>>
        BY <2>3 DEF TerminateInPlace, WriteBody, WriteNewline, IInv, PlaceInv, Clean
      <3>2. /\ DropLast(file) \in Seq(Slots) /\ Len(DropLast(file)) = Len(file) - 1
            /\ \A i \in 1 .. Len(file) - 1 : DropLast(file)[i] = file[i]
            /\ Len(file) \in Nat \ {0}
        BY <3>1, <2>0, DropLastWellFormed DEF WellFormed
      <3>3. PICK s \in Slots : file' = Append(DropLast(file), s)
                                 /\ s.rec \in {LastSlot(file).rec, Garbled}
        <4>1. LastSlot(file) \in Slots
          BY <3>1, <2>0 DEF LastSlot
        <4> QED
          BY <2>3, <4>1 DEF TerminateInPlace, WriteBody, WriteNewline, AppendBody,
                            AppendNewline, Slots
      <3>4. /\ Len(file') = Len(file)
            /\ file'[Len(file)] = s
            /\ \A i \in 1 .. Len(file) - 1 : file'[i] = file[i]
        BY <3>2, <3>3
      <3>5. UNCHANGED <<disk, writing>> /\ pc' \in {"syncRepair", "newline", "sync"}
            /\ (pc' = "syncRepair" <=> pc = "terminate")
        BY <2>3 DEF TerminateInPlace, WriteBody, WriteNewline
      <3>6. s.rec <= file[Len(file)].rec
        BY <3>2, <3>3, <2>0 DEF LastSlot, Garbled
      <3>7. s.rec \in Nat
        BY DEF Slots, Records, Garbled
      <3>8. pc = "terminate" => \A i \in 1 .. Len(file) : file[i].rec < writing
        BY DEF OrderInv
      <3>9. ASSUME NEW i \in 1 .. Len(file)
            PROVE  /\ file'[i].rec <= writing
                   /\ pc = "terminate" => file'[i].rec < writing
        BY <3>2, <3>4, <3>6, <3>7, <3>8, <2>0 DEF OrderInv
      <3> QED
        BY <3>4, <3>5, <3>9 DEF OrderInv
    <2>4. CASE WriteHead
      <3>1. Clean(file) /\ pc' = "body" /\ UNCHANGED <<disk, writing>>
            /\ file' = Append(file, [rec |-> writing, st |-> "torn"])
        BY <2>4 DEF WriteHead, AppendHead, IInv, PlaceInv
      <3>2. /\ Len(file') = Len(file) + 1
            /\ file'[Len(file) + 1].rec = writing
            /\ \A i \in 1 .. Len(file) : file'[i] = file[i]
        BY <3>1, <2>0
      <3>3. \A i \in 1 .. Len(file) : file[i].rec < writing
        BY <2>4 DEF WriteHead, OrderInv
      <3>4. \A i \in 1 .. Len(file) + 1 : file'[i].rec <= writing
        BY <3>2, <3>3, <2>0
      <3>5. \A i \in 1 .. Len(file') - 1 : file'[i].rec < writing
        BY <3>2, <3>3, <2>0
      <3> QED
        BY <3>1, <3>2, <3>4, <3>5 DEF OrderInv
    <2>5. CASE SyncRepair \/ SyncEntry
      BY <2>5 DEF SyncRepair, SyncEntry, OrderInv
    <2>6. CASE Truncate
      <3>1. file # <<>> /\ file' = DropLast(file) /\ UNCHANGED <<disk, writing>>
            /\ pc' = "syncRepair" /\ pc = "truncate"
        BY <2>6 DEF Truncate, IInv, PlaceInv, Clean
      <3>2. /\ Len(file') = Len(file) - 1
            /\ \A i \in 1 .. Len(file) - 1 : file'[i] = file[i]
            /\ Len(file) \in Nat
        BY <3>1, <2>0, DropLastWellFormed
      <3> QED
        BY <3>1, <3>2 DEF OrderInv
    <2>7. CASE PowerLoss
      <3>1. PICK g \in CrashImages(disk, file) : file' = g /\ disk' = g
        BY <2>7 DEF PowerLoss
      <3>2. \A i \in 1 .. Len(g) : g[i].rec <= writing
        <4>1. CASE g = disk
          BY <4>1 DEF OrderInv
        <4>2. CASE g \in Cuts(file)
          <5>1. WellFormed(g) /\ Len(g) <= Len(file) /\ \A i \in 1 .. Len(g) : g[i].rec = file[i].rec
            BY <4>2, <2>0, CutsRecords, CutsWellFormed
          <5>2. \A i \in 1 .. Len(g) : i \in 1 .. Len(file)
            BY <5>1, <2>0 DEF WellFormed
          <5> QED
            BY <5>1, <5>2 DEF OrderInv
        <4> QED
          BY <4>1, <4>2 DEF CrashImages
      <3> QED
        BY <3>1, <3>2, <2>7 DEF PowerLoss, OrderInv
    <2>8. CASE BeginRead \/ ReadSnapshot \/ EndRead \/ UNCHANGED vars
      BY <2>8 DEF BeginRead, ReadSnapshot, EndRead, writerVars, vars, OrderInv
    <2> QED
      BY <2>1, <2>2, <2>3, <2>4, <2>5, <2>6, <2>7, <2>8 DEF Next, Write
  <1> QED
    BY <1>1, <1>2, Invariance, PTL DEF Spec

\* The decoded log of a well-formed file, slot by slot.
DecodedLen(f) == IF Clean(f) \/ Decodes(LastSlot(f)) THEN Len(f) ELSE Len(f) - 1

LEMMA DecodedLogFacts ==
    ASSUME NEW f, WellFormed(f)
    PROVE  /\ DecodedLen(f) \in 0 .. Len(f)
           /\ DecodedLen(f) >= Len(f) - 1
           /\ DecodedLog(f) \in Seq(Records)
           /\ Len(DecodedLog(f)) = DecodedLen(f)
           /\ \A i \in 1 .. DecodedLen(f) : DecodedLog(f)[i] = f[i].rec
  <1>1. f \in Seq(Slots) /\ Len(f) \in Nat
    BY DEF WellFormed
  <1>2. f # <<>> => Len(f) \in Nat \ {0}
    BY <1>1, EmptySeq
  <1>3. DecodedLen(f) \in 0 .. Len(f) /\ DecodedLen(f) >= Len(f) - 1
    BY <1>1, <1>2 DEF DecodedLen, Clean
  <1>4. PICK n \in Nat : n = DecodedLen(f)
    BY <1>3
  <1>5. \A i \in 1 .. n : f[i].rec \in Records
    BY <1>1, <1>3, <1>4 DEF WellFormed
  <1>6. DecodedLog(f) = [i \in 1 .. n |-> f[i].rec]
    BY <1>4 DEF DecodedLog, DecodedLen
  <1>7. DecodedLog(f) \in Seq(Records) /\ Len(DecodedLog(f)) = n
    BY <1>5, <1>6
  <1> QED
    BY <1>3, <1>4, <1>6, <1>7

\* Two files with the same decoded records have the same log.
LEMMA SameLog ==
    ASSUME NEW f, WellFormed(f), NEW g, WellFormed(g),
           DecodedLen(f) = DecodedLen(g),
           \A i \in 1 .. DecodedLen(f) : g[i].rec = f[i].rec
    PROVE  DecodedLog(g) = DecodedLog(f)
  BY DecodedLogFacts, SeqEqual

\* The finished lines of a file are in its log.
LEMMA LinesLogged ==
    ASSUME NEW f, WellFormed(f)
    PROVE  Lines(f) \subseteq Log!Logged(DecodedLog(f))
  <1> SUFFICES ASSUME NEW i \in 1 .. Len(f), f[i].st = "line"
               PROVE  f[i].rec \in Log!Logged(DecodedLog(f))
    BY DEF Lines
  <1>1. f \in Seq(Slots) /\ Len(f) \in Nat
    BY DEF WellFormed
  <1>2. i \in 1 .. DecodedLen(f)
    <2>1. CASE i = Len(f)
      BY <2>1, <1>1 DEF DecodedLen, Clean, LastSlot
    <2>2. CASE i # Len(f)
      BY <2>2, <1>1, DecodedLogFacts
    <2> QED
      BY <2>1, <2>2
  <1>3. DecodedLog(f)[i] = f[i].rec /\ i \in 1 .. Len(DecodedLog(f))
    BY <1>2, DecodedLogFacts
  <1> QED
    BY <1>3 DEF Log!Logged

\* A file with fewer slots of the same records has a prefix of the log.
LEMMA PrefixLog ==
    ASSUME NEW f, WellFormed(f), NEW g, WellFormed(g),
           DecodedLen(g) <= DecodedLen(f),
           \A i \in 1 .. DecodedLen(g) : g[i].rec = f[i].rec
    PROVE  /\ DecodedLen(g) \in 0 .. Len(DecodedLog(f))
           /\ DecodedLog(g) = SubSeq(DecodedLog(f), 1, DecodedLen(g))
  <1>1. PICK n \in Nat : n = DecodedLen(g)
    BY DecodedLogFacts
  <1>2. n <= Len(DecodedLog(f)) /\ DecodedLog(f) \in Seq(Records)
    BY <1>1, DecodedLogFacts
  <1>3. /\ SubSeq(DecodedLog(f), 1, n) \in Seq(Records)
        /\ Len(SubSeq(DecodedLog(f), 1, n)) = n
        /\ \A i \in 1 .. n : SubSeq(DecodedLog(f), 1, n)[i] = DecodedLog(f)[i]
    BY <1>2
  <1>4. DecodedLog(g) \in Seq(Records) /\ Len(DecodedLog(g)) = n
        /\ \A i \in 1 .. n : DecodedLog(g)[i] = g[i].rec
    BY <1>1, DecodedLogFacts
  <1>5. \A i \in 1 .. n : DecodedLog(f)[i] = f[i].rec
    BY <1>1, DecodedLogFacts
  <1>6. \A i \in 1 .. n : DecodedLog(g)[i] = SubSeq(DecodedLog(f), 1, n)[i]
    BY <1>1, <1>3, <1>4, <1>5
  <1>7. DecodedLog(g) = SubSeq(DecodedLog(f), 1, n)
    BY <1>3, <1>4, <1>6, SeqEqual
  <1> QED
    BY <1>1, <1>2, <1>7

\* Cutting a well-formed file decodes no more of it.
LEMMA CutsPrefix ==
    ASSUME NEW f, WellFormed(f), NEW g \in Cuts(f)
    PROVE  /\ DecodedLen(g) <= DecodedLen(f)
           /\ \A i \in 1 .. DecodedLen(g) : g[i].rec = f[i].rec
  <1>1. /\ WellFormed(g) /\ Len(g) <= Len(f) /\ Len(g) \in Nat /\ Len(f) \in Nat
        /\ \A i \in 1 .. Len(g) : g[i].rec = f[i].rec
        /\ f \in Seq(Slots) /\ g \in Seq(Slots)
    BY CutsWellFormed, CutsRecords DEF WellFormed
  <1>2. DecodedLen(g) \in 0 .. Len(g) /\ DecodedLen(f) \in 0 .. Len(f)
        /\ DecodedLen(f) >= Len(f) - 1
    BY <1>1, DecodedLogFacts
  <1>3. CASE DecodedLen(f) = Len(f)
    BY <1>1, <1>2, <1>3
  <1>4. CASE DecodedLen(f) = Len(f) - 1
    <2>1. Len(f) # 0 /\ LastSlot(f).st = "torn"
      <3>1. ~Clean(f) /\ ~Decodes(LastSlot(f)) /\ f # <<>>
        BY <1>1, <1>4 DEF DecodedLen, Clean
      <3>2. Len(f) \in Nat \ {0}
        BY <3>1, <1>1, EmptySeq
      <3>3. LastSlot(f).rec \in Records
        BY <3>2, <1>1 DEF LastSlot, WellFormed
      <3> QED
        BY <3>1, <3>2, <3>3 DEF Decodes, Records, Garbled
    <2>2. CASE Len(g) < Len(f)
      BY <1>1, <1>2, <1>4, <2>2
    <2>3. CASE Len(g) = Len(f)
      <3>1. LastSlot(g).st = "torn"
        <4>1. CASE \E n \in 0 .. Len(f) : g = SubSeq(f, 1, n)
          <5>1. PICK n \in 0 .. Len(f) : g = SubSeq(f, 1, n)
            BY <4>1
          <5>2. Len(g) = n /\ \A i \in 1 .. n : g[i] = f[i]
            BY <5>1, <1>1
          <5> QED
            BY <5>2, <2>1, <2>3, <1>1 DEF LastSlot
        <4>2. CASE \E n \in {m \in 1 .. Len(f) : f[m].st = "line"} :
                     g = Append(SubSeq(f, 1, n - 1), [rec |-> f[n].rec, st |-> "whole"])
          <5>1. PICK n \in 1 .. Len(f) :
                     /\ f[n].st = "line"
                     /\ g = Append(SubSeq(f, 1, n - 1), [rec |-> f[n].rec, st |-> "whole"])
            BY <4>2
          <5>2. Len(SubSeq(f, 1, n - 1)) = n - 1 /\ SubSeq(f, 1, n - 1) \in Seq(Slots)
            BY <1>1
          <5>3. Len(g) = n
            BY <5>1, <5>2
          <5> QED
            BY <5>1, <5>3, <2>1, <2>3 DEF LastSlot
        <4>3. CASE \E n \in 1 .. Len(f) :
                     g = Append(SubSeq(f, 1, n - 1), [rec |-> f[n].rec, st |-> "torn"])
          <5>1. PICK n \in 1 .. Len(f) :
                     g = Append(SubSeq(f, 1, n - 1), [rec |-> f[n].rec, st |-> "torn"])
            BY <4>3
          <5>2. Len(SubSeq(f, 1, n - 1)) = n - 1 /\ SubSeq(f, 1, n - 1) \in Seq(Slots)
            BY <1>1
          <5>3. Len(g) = n /\ g[n].st = "torn"
            BY <5>1, <5>2
          <5> QED
            BY <5>3 DEF LastSlot
        <4> QED
          BY <4>1, <4>2, <4>3 DEF Cuts
      <3>2. g # <<>>
        BY <1>1, <2>1, <2>3
      <3>3. DecodedLen(g) = Len(g) - 1
        BY <3>1, <3>2 DEF DecodedLen, Clean, Decodes
      <3> QED
        BY <1>1, <1>2, <1>4, <2>3, <3>3
    <2> QED
      BY <1>1, <2>2, <2>3
  <1> QED
    BY <1>2, <1>3, <1>4

\* A power loss drops at most unacknowledged records from the end of the log.
LEMMA PowerLossLog ==
    ASSUME IInv, NEW g \in CrashImages(disk, file)
    PROVE  \E n \in 0 .. Len(DecodedLog(file)) :
              /\ acked \subseteq Log!Logged(SubSeq(DecodedLog(file), 1, n))
              /\ DecodedLog(g) = SubSeq(DecodedLog(file), 1, n)
  <1>1. /\ WellFormed(file) /\ WellFormed(disk) /\ WellFormed(g)
        /\ file \in Seq(Slots) /\ disk \in Seq(Slots)
        /\ Len(file) \in Nat /\ Len(disk) \in Nat
    BY CrashImagesSound DEF IInv, WellFormed
  <1>2. acked \subseteq Log!Logged(DecodedLog(g))
    BY <1>1, CrashImagesSound, LinesLogged DEF IInv
  <1>3. DecodedLen(g) <= DecodedLen(file)
        /\ \A i \in 1 .. DecodedLen(g) : g[i].rec = file[i].rec
    <2>1. CASE g \in Cuts(file)
      BY <2>1, <1>1, CutsPrefix
    <2>2. CASE g = disk
      <3>0. /\ DecodedLen(disk) \in 0 .. Len(disk) /\ DecodedLen(file) \in 0 .. Len(file)
            /\ DecodedLen(disk) >= Len(disk) - 1
            /\ DecodedLen(file) >= Len(file) - 1
        BY <1>1, DecodedLogFacts
      <3>1. CASE Covers(file, disk)
        <4>1. \A i \in 1 .. Len(disk) : disk[i].rec = file[i].rec
          BY <3>1 DEF Covers
        <4>2. Len(file) >= Len(disk)
          BY <3>1 DEF Covers
        <4>3. CASE Len(file) > Len(disk)
          BY <3>0, <4>1, <4>3, <2>2, <1>1
        <4>4. CASE Len(file) = Len(disk)
          <5>1. CASE DecodedLen(disk) = Len(disk) - 1
            BY <5>1, <3>0, <4>1, <4>4, <2>2, <1>1
          <5>2. CASE DecodedLen(disk) = Len(disk) /\ disk # <<>>
            <6>0. Len(disk) \in Nat \ {0}
              BY <5>2, <1>1, EmptySeq
            <6>1. LastSlot(disk) \in Slots /\ LastSlot(file) \in Slots
              BY <6>0, <1>1, <4>4 DEF LastSlot
            <6>2. Clean(disk) \/ Decodes(LastSlot(disk))
              BY <5>2, <6>0 DEF DecodedLen
            <6>3. LastSlot(disk).st # "torn"
              BY <6>2, <5>2 DEF Clean, Decodes
            <6>4. Rank(LastSlot(file).st) >= Rank(LastSlot(disk).st)
              BY <6>0, <3>1, <4>4, <1>1 DEF Covers, LastSlot
            <6>5. LastSlot(file).st # "torn"
              BY <6>1, <6>3, <6>4 DEF Rank, Slots
            <6>6. LastSlot(file).rec \in Records
              BY <6>0, <1>1, <4>4 DEF LastSlot, WellFormed
            <6>7. Decodes(LastSlot(file))
              BY <6>5, <6>6 DEF Decodes, Records, Garbled
            <6>8. DecodedLen(file) = Len(file)
              BY <6>7 DEF DecodedLen
            <6> QED
              BY <6>8, <5>2, <4>1, <4>4, <2>2, <1>1
          <5>3. CASE disk = <<>>
            <6>1. DecodedLen(disk) = 0
              BY <5>3, <3>0
            <6> QED
              BY <6>1, <3>0, <2>2
          <5> QED
            BY <5>1, <5>2, <5>3, <3>0
        <4> QED
          BY <4>2, <4>3, <4>4, <1>1
      <3>2. CASE ~Clean(disk) /\ LastSlot(disk).st = "torn" /\ Covers(file, DropLast(disk))
        <4>1. disk # <<>> /\ ~Decodes(LastSlot(disk))
          BY <3>2 DEF Clean, Decodes
        <4>2. DecodedLen(disk) = Len(disk) - 1
          BY <3>2, <4>1 DEF DecodedLen
        <4>3. /\ Len(DropLast(disk)) = Len(disk) - 1
              /\ DropLast(disk) \in Seq(Slots)
              /\ WellFormed(DropLast(disk)) /\ Clean(DropLast(disk))
              /\ \A i \in 1 .. Len(disk) - 1 : DropLast(disk)[i] = disk[i]
          BY <4>1, <1>1, DropLastWellFormed DEF WellFormed
        <4>4. Len(file) >= Len(disk) - 1
              /\ \A i \in 1 .. Len(disk) - 1 :
                   file[i].rec = disk[i].rec /\ Rank(file[i].st) >= Rank(DropLast(disk)[i].st)
          BY <3>2, <4>3 DEF Covers
        <4>5. CASE Len(file) > Len(disk) - 1
          <5>1. \A i \in 1 .. Len(disk) - 1 : file[i].rec = disk[i].rec
            BY <4>4
          <5>2. Len(disk) - 1 <= DecodedLen(file)
            BY <4>5, <3>0, <1>1
          <5> QED
            BY <5>1, <5>2, <4>2, <2>2
        <4>6. CASE Len(file) = Len(disk) - 1
          <5>1. CASE Len(file) = 0
            <6>1. DecodedLen(disk) = 0 /\ DecodedLen(file) = 0
              BY <5>1, <4>2, <4>6, <3>0, <1>1
            <6> QED
              BY <6>1, <2>2
          <5>2. CASE Len(file) # 0
            <6>1. DropLast(disk)[Len(file)].st = "line"
              BY <5>2, <4>3, <4>6 DEF Clean, LastSlot
            <6>2. Rank(LastSlot(file).st) >= Rank("line") /\ LastSlot(file) \in Slots
              BY <5>2, <6>1, <4>4, <4>6, <1>1 DEF LastSlot
            <6>3. LastSlot(file).st = "line"
              BY <6>2 DEF Rank, Slots
            <6>4. DecodedLen(file) = Len(file)
              BY <6>3 DEF DecodedLen, Clean
            <6> QED
              BY <6>4, <4>2, <4>4, <4>6, <2>2, <1>1
          <5> QED
            BY <5>1, <5>2
        <4> QED
          BY <4>4, <4>5, <4>6, <1>1
      <3> QED
        BY <3>1, <3>2 DEF IInv, DiskLags
    <2> QED
      BY <2>1, <2>2 DEF CrashImages
  <1>4. /\ DecodedLen(g) \in 0 .. Len(DecodedLog(file))
        /\ DecodedLog(g) = SubSeq(DecodedLog(file), 1, DecodedLen(g))
    BY <1>1, <1>3, PrefixLog
  <1> QED
    BY <1>2, <1>4

\* Every step of the file is a step of the log or leaves the log alone.
LEMMA StepRefines ==
    ASSUME IInv, IInv', OrderInv, [Next]_vars
    PROVE  [Log!Next]_(Log!vars)
  <1>0. /\ WellFormed(file) /\ WellFormed(file')
        /\ file \in Seq(Slots) /\ Len(file) \in Nat
    BY DEF IInv, WellFormed
  <1>1. CASE UNCHANGED <<file, acked>>
    BY <1>1 DEF Log!vars
  <1>2. CASE ReturnNil
    <2>1. writing \in Lines(disk) /\ writing \in Records
      BY <1>2 DEF ReturnNil, IInv, PlaceInv
    <2>2. Lines(disk) \subseteq Lines(file)
      BY CrashImagesSound
    <2>3. writing \in Log!Logged(DecodedLog(file))
      BY <2>1, <2>2, <1>0, LinesLogged
    <2>4. Log!Acknowledge(writing)
      BY <1>2, <2>3 DEF ReturnNil, Log!Acknowledge
    <2> QED
      BY <2>1, <2>4 DEF Log!Next
  <1>3. CASE WriteHead
    <2> DEFINE s == [rec |-> writing, st |-> "torn"]
    <2>1. Clean(file) /\ file' = Append(file, s) /\ acked' = acked
          /\ s \in Slots /\ s.st = "torn"
      BY <1>3 DEF WriteHead, AppendHead, IInv, PlaceInv, Slots
    <2>2. Len(file') = Len(file) + 1 /\ file'[Len(file) + 1] = s
          /\ \A i \in 1 .. Len(file) : file'[i] = file[i]
      BY <2>1, <1>0
    <2>3. DecodedLen(file) = Len(file)
      BY <2>1 DEF DecodedLen
    <2>4. DecodedLen(file') = Len(file)
      <3>1. LastSlot(file') = s /\ file' # <<>>
        BY <2>2, <1>0 DEF LastSlot
      <3> QED
        BY <3>1, <2>1, <2>2, <1>0 DEF DecodedLen, Clean, Decodes
    <2>5. DecodedLog(file') = DecodedLog(file)
      BY <1>0, <2>2, <2>3, <2>4, SameLog
    <2> QED
      BY <2>1, <2>5 DEF Log!vars
  <1>4. CASE WriteBody
    <2> DEFINE s == [rec |-> writing, st |-> "whole"]
    <2>1. /\ file # <<>> /\ writing \in Records
          /\ LastSlot(file).rec = writing /\ LastSlot(file).st = "torn"
          /\ file' = Append(DropLast(file), s) /\ acked' = acked /\ pc = "body"
      BY <1>4 DEF WriteBody, AppendBody, IInv, PlaceInv
    <2>2. /\ DropLast(file) \in Seq(Slots) /\ Len(DropLast(file)) = Len(file) - 1
          /\ \A i \in 1 .. Len(file) - 1 : DropLast(file)[i] = file[i]
          /\ Len(file) \in Nat \ {0} /\ s \in Slots
      BY <2>1, <1>0, DropLastWellFormed, EmptySeq DEF WellFormed, Slots
    <2>3. /\ Len(file') = Len(file) /\ file'[Len(file)] = s
          /\ \A i \in 1 .. Len(file) - 1 : file'[i] = file[i]
      BY <2>1, <2>2
    <2>4. DecodedLen(file) = Len(file) - 1
      BY <2>1 DEF DecodedLen, Clean, Decodes
    <2>5. DecodedLen(file') = Len(file)
      <3>1. LastSlot(file') = s
        BY <2>3 DEF LastSlot
      <3>2. Decodes(LastSlot(file'))
        BY <3>1, <2>1 DEF Decodes, Records, Garbled
      <3> QED
        BY <3>2, <2>3 DEF DecodedLen
    <2>6. /\ DecodedLog(file) \in Seq(Records) /\ Len(DecodedLog(file)) = Len(file) - 1
          /\ \A i \in 1 .. Len(file) - 1 : DecodedLog(file)[i] = file[i].rec
      BY <1>0, <2>4, DecodedLogFacts
    <2>7. /\ DecodedLog(file') \in Seq(Records) /\ Len(DecodedLog(file')) = Len(file)
          /\ \A i \in 1 .. Len(file) : DecodedLog(file')[i] = file'[i].rec
      BY <1>0, <2>3, <2>5, DecodedLogFacts
    <2>8. DecodedLog(file') = Append(DecodedLog(file), writing)
      <3>1. Append(DecodedLog(file), writing) \in Seq(Records)
            /\ Len(Append(DecodedLog(file), writing)) = Len(file)
        BY <2>1, <2>2, <2>6
      <3>2. ASSUME NEW i \in 1 .. Len(file)
            PROVE  DecodedLog(file')[i] = Append(DecodedLog(file), writing)[i]
        BY <2>1, <2>2, <2>3, <2>6, <2>7
      <3> QED
        BY <2>7, <3>1, <3>2, SeqEqual
    <2>9. writing \notin Log!Logged(DecodedLog(file))
      <3>1. \A i \in 1 .. Len(file) - 1 : file[i].rec < writing
        BY <2>1 DEF OrderInv
      <3>2. ASSUME NEW i \in 1 .. Len(DecodedLog(file))
            PROVE  DecodedLog(file)[i] < writing
        BY <3>1, <2>2, <2>6
      <3>3. ASSUME NEW i \in 1 .. Len(DecodedLog(file))
            PROVE  DecodedLog(file)[i] # writing
        <4>1. DecodedLog(file)[i] \in Nat /\ writing \in Nat
          <5>1. DecodedLog(file)[i] \in Records
            BY <2>6, ElementOfSeq
          <5> QED
            BY <5>1, <2>1 DEF Records
        <4> QED
          BY <3>2, <4>1
      <3> QED
        BY <3>3 DEF Log!Logged
    <2>10. Log!Record(writing)
      BY <2>1, <2>8, <2>9 DEF Log!Record
    <2> QED
      BY <2>1, <2>10 DEF Log!Next
  <1>5. CASE TerminateInPlace \/ WriteNewline
    <2>1. /\ file # <<>> /\ LastSlot(file).st = "whole"
          /\ file' = AppendNewline(file) /\ acked' = acked
      BY <1>5 DEF TerminateInPlace, WriteNewline, IInv, PlaceInv, Clean
    <2>2. /\ DropLast(file) \in Seq(Slots) /\ Len(DropLast(file)) = Len(file) - 1
          /\ \A i \in 1 .. Len(file) - 1 : DropLast(file)[i] = file[i]
          /\ Len(file) \in Nat \ {0}
      BY <2>1, <1>0, DropLastWellFormed, EmptySeq DEF WellFormed
    <2>3. LastSlot(file).rec \in Records /\ Decodes(LastSlot(file))
      BY <2>1, <2>2, <1>0 DEF WellFormed, LastSlot, Decodes, Records, Garbled
    <2> DEFINE s == [rec |-> LastSlot(file).rec, st |-> "line"]
    <2>4. file' = Append(DropLast(file), s) /\ s \in Slots
      BY <2>1, <2>3 DEF AppendNewline, Slots
    <2>5. /\ Len(file') = Len(file) /\ file'[Len(file)] = s
          /\ \A i \in 1 .. Len(file) - 1 : file'[i] = file[i]
      BY <2>2, <2>4
    <2>6. DecodedLen(file) = Len(file)
      BY <2>3 DEF DecodedLen
    <2>7. DecodedLen(file') = Len(file)
      BY <2>5 DEF DecodedLen, Clean, LastSlot
    <2>8. \A i \in 1 .. Len(file) : file'[i].rec = file[i].rec
      BY <2>5, <2>2 DEF LastSlot
    <2>9. DecodedLog(file') = DecodedLog(file)
      BY <1>0, <2>6, <2>7, <2>8, SameLog
    <2> QED
      BY <2>1, <2>9 DEF Log!vars
  <1>6. CASE Truncate
    <2>1. /\ file # <<>> /\ LastSlot(file).st = "torn" /\ ~Clean(file)
          /\ file' = DropLast(file) /\ acked' = acked
      BY <1>6 DEF Truncate, IInv, PlaceInv, Clean
    <2>2. /\ Len(file') = Len(file) - 1 /\ Clean(file')
          /\ \A i \in 1 .. Len(file) - 1 : file'[i] = file[i]
      BY <2>1, <1>0, DropLastWellFormed
    <2>3. DecodedLen(file) = Len(file) - 1 /\ DecodedLen(file') = Len(file) - 1
      BY <2>1, <2>2 DEF DecodedLen, Decodes
    <2>4. DecodedLog(file') = DecodedLog(file)
      BY <1>0, <2>2, <2>3, SameLog
    <2> QED
      BY <2>1, <2>4 DEF Log!vars
  <1>7. CASE PowerLoss
    <2>1. PICK g \in CrashImages(disk, file) : file' = g
      BY <1>7 DEF PowerLoss
    <2>2. acked' = acked
      BY <1>7 DEF PowerLoss
    <2>3. Log!LoseTail
      BY <2>1, <2>2, PowerLossLog DEF Log!LoseTail
    <2> QED
      BY <2>3 DEF Log!Next
  <1> QED
    BY <1>1, <1>2, <1>3, <1>4, <1>5, <1>6, <1>7
       DEF Next, Write, BeginWrite, Inspect, WriteSidecar, SyncRepair, SyncEntry, AbortWrite,
           BeginRead, ReadSnapshot, EndRead, writerVars, vars

\* The journal file implements the abstract log: an entry appears once, at the
\* end, and once acknowledged it stays, whatever fails in between.
THEOREM JournalFileImplementsLog == Spec => LogSpec
  <1>1. Init => Log!Init
    <2> SUFFICES ASSUME Init PROVE Log!Init
      OBVIOUS
    <2>1. file = <<>> /\ acked = {}
      BY DEF Init
    <2>2. WellFormed(file) /\ Len(file) = 0
      BY <2>1 DEF WellFormed
    <2>3. DecodedLog(file) \in Seq(Records) /\ Len(DecodedLog(file)) = 0
      BY <2>2, DecodedLogFacts
    <2>4. DecodedLog(file) = <<>>
      BY <2>3, EmptySeq
    <2> QED
      BY <2>1, <2>4 DEF Log!Init
  <1>2. IInv /\ IInv' /\ OrderInv /\ [Next]_vars => [Log!Next]_(Log!vars)
    BY StepRefines
  <1> QED
    BY <1>1, <1>2, Invariance, OrderInvariant, PTL DEF Spec, LogSpec, Log!Spec
=============================================================================
