----------------------------- MODULE JournalLog -----------------------------
(***************************************************************************)
(* What the run journal promises, without saying how the file is written.  *)
(*                                                                         *)
(* The journal is a log of records.  A record enters it at the end, once.  *)
(* From the moment the writer is told that its record is stored (the       *)
(* record is acknowledged) nothing removes it: a crash may drop records    *)
(* from the end of the log, but never an acknowledged one and never one    *)
(* in front of an acknowledged one.                                        *)
(*                                                                         *)
(* JournalFile implements this specification with one append-only file.    *)
(***************************************************************************)
EXTENDS Naturals, Sequences

CONSTANT Records

VARIABLES
    log,     \* the records a reader can decode, oldest first
    acked    \* the records whose writer was told they are stored

vars == <<log, acked>>

Logged(l) == {l[i] : i \in 1 .. Len(l)}

Init == log = <<>> /\ acked = {}

Record(r) ==
    /\ r \notin Logged(log)
    /\ log' = Append(log, r)
    /\ UNCHANGED acked

Acknowledge(r) ==
    /\ r \in Logged(log)
    /\ acked' = acked \cup {r}
    /\ UNCHANGED log

LoseTail ==
    \E n \in 0 .. Len(log) :
        /\ acked \subseteq Logged(SubSeq(log, 1, n))
        /\ log' = SubSeq(log, 1, n)
        /\ UNCHANGED acked

Next ==
    \/ \E r \in Records : Record(r) \/ Acknowledge(r)
    \/ LoseTail

Spec == Init /\ [][Next]_vars
=============================================================================
