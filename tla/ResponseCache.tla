---------------------------- MODULE ResponseCache ----------------------------
(***************************************************************************)
(* The response cache of internal/client/client.go: files under one        *)
(* directory, one subdirectory (namespace) per resource type, shared by    *)
(* all zotio processes of a user.  A GET may answer from it or publish     *)
(* into it; a write, whatever became of it, invalidates the namespaces it  *)
(* may have changed.  The two are kept apart by a generation per namespace *)
(* in a marker file, and by a lock that publishers and invalidators take   *)
(* and readers do not.                                                     *)
(*                                                                         *)
(* A response is known by the library version it was taken at, and a       *)
(* namespace holds one.  Reads and writes go to one plane: what a lagging  *)
(* read plane returns is no matter of the cache.  cacheMu makes reading or *)
(* changing both of a process's counters one step, so it has no variable.  *)
(***************************************************************************)
EXTENDS Naturals, FiniteSets

CONSTANTS
    Slots,          \* the requests that may be under way at a time
    Processes,      \* the clients, each with a counter of its own
    Namespaces,     \* the resource types
    Targets,        \* cacheInvalidationTargets, of namespaces as sets
    Nobody,         \* the publication lock is free
    MaxWrites       \* bound: writes begun

ASSUME CacheAssumption ==
    /\ Processes # {} /\ Namespaces # {}
    /\ Targets \in [Namespaces -> SUBSET Namespaces]
    /\ \A n \in Namespaces : n \in Targets[n]
    /\ Nobody \notin Slots
    /\ MaxWrites \in Nat

VARIABLES
    library,        \* the library version
    marker,         \* the generation of each namespace in the marker file
    damaged,        \* can the marker file not be read?
    entries,        \* the cache files
    lock,           \* the slot of the request that holds the publication lock
    memory,         \* cacheGeneration of each process
    req,            \* the request in each slot: see Idle
    done,           \* ghost: per namespace, the last write that has returned
                    \* after its invalidation took effect
    writes

vars == <<library, marker, damaged, entries, lock, memory, req, done, writes>>

Entry == [ns : Namespaces, gen : Nat, body : Nat]

(* A GET or a write: where it is, its process, the namespace it reads or     *)
(* writes, the counters its snapshot found, the library version of the       *)
(* response it has or of the write it made, and what it must at least return *)
(* (a ghost).                                                                *)
Idle == [pc |-> "idle", proc |-> CHOOSE p \in Processes : TRUE,
         ns |-> CHOOSE n \in Namespaces : TRUE,
         memory |-> 0, marker |-> 0, version |-> 0, floor |-> 0]

Later(a, b) == IF a < b THEN b ELSE a

Init ==
    /\ library = 0
    /\ marker = [n \in Namespaces |-> 0] /\ damaged = FALSE
    /\ entries = {} /\ lock = Nobody
    /\ memory = [p \in Processes |-> 0]
    /\ req = [s \in Slots |-> Idle]
    /\ done = [n \in Namespaces |-> 0]
    /\ writes = 0

Return(s, version) ==
    req' = [req EXCEPT ![s] = [Idle EXCEPT !.pc = "returned", !.version = version,
                                           !.floor = req[s].floor]]
Goto(s, place) == req' = [req EXCEPT ![s].pc = place]
Over(s) == req' = [req EXCEPT ![s] = Idle]

-----------------------------------------------------------------------------
(* A GET. *)

\* cacheGenerationSnapshot; without a readable marker the cache is bypassed.
BeginGet(s, p, n) ==
    /\ req[s].pc = "idle"
    /\ req' = [req EXCEPT ![s] =
                 [Idle EXCEPT !.pc = IF damaged THEN "bypass" ELSE "lookup",
                              !.proc = p, !.ns = n, !.floor = done[n],
                              !.memory = memory[p], !.marker = marker[n]]]
    /\ UNCHANGED <<library, marker, damaged, entries, lock, memory, done, writes>>

\* Fault: trusts what is in the directory.
Mutant_Accepts(gen, e) == TRUE

\* readCache: what was written before the last invalidation is no answer.
Accepts(gen, e) == e.gen >= gen

Hit(s) ==
    /\ req[s].pc = "lookup"
    /\ \E e \in entries :
         /\ e.ns = req[s].ns /\ Accepts(req[s].marker, e)
         /\ Return(s, e.body)
    /\ UNCHANGED <<library, marker, damaged, entries, lock, memory, done, writes>>

\* A lookup may always miss, as an entry may have expired.
Fetch(s) ==
    /\ \/ /\ req[s].pc = "lookup"
          /\ req' = [req EXCEPT ![s].pc = "publish", ![s].version = library]
       \/ /\ req[s].pc = "bypass"
          /\ Return(s, library)
    /\ UNCHANGED <<library, marker, damaged, entries, lock, memory, done, writes>>

\* The request fails, and nothing is returned.
FetchFails(s) ==
    /\ req[s].pc \in {"lookup", "bypass"}
    /\ Over(s)
    /\ UNCHANGED <<library, marker, damaged, entries, lock, memory, done, writes>>

\* Fault: a response is published whatever was invalidated since the GET began.
Mutant_MayPublish(s) == ~damaged

\* The two checks of writeCacheAtGeneration, the second under the lock.
MayPublish(s) ==
    /\ req[s].memory = memory[req[s].proc]
    /\ ~damaged
    /\ req[s].marker = marker[req[s].ns]

BeginPublish(s) ==
    /\ req[s].pc = "publish" /\ lock = Nobody
    /\ MayPublish(s)
    /\ lock' = s
    /\ Goto(s, "rename")
    /\ UNCHANGED <<library, marker, damaged, entries, memory, done, writes>>

\* The response is not published: it is an empty list, a check fails, the lock
\* is busy, the directory cannot be made.
NotPublished(s) ==
    /\ req[s].pc = "publish"
    /\ Return(s, req[s].version)
    /\ UNCHANGED <<library, marker, damaged, entries, lock, memory, done, writes>>

\* The generation read under the lock.
Tag(s) == marker[req[s].ns]

\* The file takes the place of the one before, or the rename fails.
Rename(s) ==
    /\ req[s].pc = "rename"
    /\ \/ entries' = {e \in entries : e.ns # req[s].ns} \cup
            {[ns |-> req[s].ns, gen |-> Tag(s), body |-> req[s].version]}
       \/ UNCHANGED entries
    /\ lock' = Nobody
    /\ Return(s, req[s].version)
    /\ UNCHANGED <<library, marker, damaged, memory, done, writes>>

EndGet(s) ==
    /\ req[s].pc = "returned"
    /\ Over(s)
    /\ UNCHANGED <<library, marker, damaged, entries, lock, memory, done, writes>>

-----------------------------------------------------------------------------
(* A write and its invalidation. *)

\* The request is over.  It landed or not; either way the answer, a refusal, an
\* error or its absence leads to invalidateCache.  A request that lands after
\* its answer was given up, or of another program, is as one that then gives up
\* its invalidation.
Write(s, p, n) ==
    /\ req[s].pc = "idle" /\ writes < MaxWrites
    /\ writes' = writes + 1
    /\ \E landed \in BOOLEAN :
         /\ library' = IF landed THEN library + 1 ELSE library
         /\ req' = [req EXCEPT ![s] =
                      [Idle EXCEPT !.pc = "invalidate", !.proc = p, !.ns = n,
                                   !.version = IF landed THEN library + 1 ELSE 0]]
    /\ UNCHANGED <<marker, damaged, entries, lock, memory, done>>

\* The lock stays busy or cannot be had, or the marker cannot be written: the
\* user is warned, and nothing is removed.
GiveUp(s) ==
    /\ req[s].pc = "invalidate"
    /\ Over(s)
    /\ UNCHANGED <<library, marker, damaged, entries, lock, memory, done, writes>>

\* Fault: the process counts on, whatever the marker has reached.
Mutant_Issued(s) == {memory[req[s].proc]}

\* The generations that this process has issued last, and that the targets have.
Issued(s) == {memory[req[s].proc]} \cup {marker[n] : n \in Targets[req[s].ns]}

\* Fault: one counter for all namespaces.
Mutant_Marked(s, g) == [n \in Namespaces |-> g]

Marked(s, g) ==
    [n \in Namespaces |-> IF n \in Targets[req[s].ns] THEN g ELSE marker[n]]

\* The lock is taken and the marker advanced.  Between the two there is nothing
\* to see but a busy lock, which may fail anyone's attempt anyway.
Mark(s) ==
    /\ req[s].pc = "invalidate" /\ lock = Nobody /\ ~damaged
    /\ lock' = s
    /\ \E g \in {h + 1 : h \in Issued(s)} :
         /\ \A h \in Issued(s) : h < g
         /\ marker' = Marked(s, g)
         /\ memory' = [memory EXCEPT ![req[s].proc] = g]
    /\ Goto(s, "remove")
    /\ UNCHANGED <<library, damaged, entries, done, writes>>

\* A marker that cannot be read is left so; the whole directory is removed.
MarkUnreadable(s) ==
    /\ req[s].pc = "invalidate" /\ lock = Nobody /\ damaged
    /\ lock' = s
    /\ Goto(s, "purge")
    /\ UNCHANGED <<library, marker, damaged, entries, memory, done, writes>>

\* RemoveAll, file by file.
Remove(s) ==
    /\ \E e \in entries :
         /\ \/ req[s].pc = "remove" /\ e.ns \in Targets[req[s].ns]
            \/ req[s].pc = "purge"
         /\ entries' = entries \ {e}
    /\ UNCHANGED <<library, marker, damaged, lock, memory, req, done, writes>>

\* All is removed, or the rest cannot be; the marker keeps its effect.
EndInvalidate(s) ==
    /\ req[s].pc \in {"remove", "purge"}
    /\ lock' = Nobody
    /\ done' = [n \in Namespaces |->
                  IF req[s].pc = "remove" /\ n \in Targets[req[s].ns]
                  THEN Later(done[n], req[s].version) ELSE done[n]]
    /\ Over(s)
    /\ UNCHANGED <<library, marker, damaged, entries, memory, writes>>

-----------------------------------------------------------------------------
(* Failures. *)

\* The kernel releases the lock of a process that ends.
Freed(P) == IF lock # Nobody /\ req[lock].proc \in P THEN Nobody ELSE lock

Stop(P) ==
    /\ req' = [s \in Slots |-> IF req[s].proc \in P THEN Idle ELSE req[s]]
    /\ memory' = [p \in Processes |-> IF p \in P THEN 0 ELSE memory[p]]
    /\ lock' = Freed(P)
    /\ UNCHANGED <<library, marker, done, writes>>

\* A process ends, at its end or before; another may take its place.
Exit(p) ==
    /\ Stop({p})
    /\ UNCHANGED <<damaged, entries>>

\* Nothing is fsynced: cache files may be damaged, and the marker too.
PowerLoss ==
    /\ Stop(Processes)
    /\ \E E \in SUBSET entries : entries' = E
    /\ damaged' \in {damaged, TRUE}

Next ==
    \/ \E s \in Slots :
         \/ \E p \in Processes, n \in Namespaces : BeginGet(s, p, n) \/ Write(s, p, n)
         \/ Hit(s) \/ Fetch(s) \/ FetchFails(s)
         \/ BeginPublish(s) \/ NotPublished(s) \/ Rename(s) \/ EndGet(s)
         \/ GiveUp(s) \/ Mark(s) \/ MarkUnreadable(s)
         \/ Remove(s) \/ EndInvalidate(s)
    \/ \E p \in Processes : Exit(p)
    \/ PowerLoss

Spec == Init /\ [][Next]_vars

-----------------------------------------------------------------------------
(* Properties. *)

Requests ==
    [pc : {"idle", "lookup", "bypass", "publish", "rename", "returned", "invalidate",
           "remove", "purge"},
     proc : Processes, ns : Namespaces,
     memory : Nat, marker : Nat, version : Nat, floor : Nat]

\* The types of the state; a namespace has one entry, and the lock belongs to
\* the request that publishes or removes.
TypeOK ==
    /\ library \in Nat
    /\ marker \in [Namespaces -> Nat] /\ damaged \in BOOLEAN
    /\ entries \subseteq Entry
    /\ lock \in Slots \cup {Nobody}
    /\ memory \in [Processes -> Nat]
    /\ req \in [Slots -> Requests]
    /\ done \in [Namespaces -> Nat]
    /\ writes \in 0 .. MaxWrites
    /\ \A e, f \in entries : e.ns = f.ns => e = f
    /\ \A s \in Slots : lock = s <=> req[s].pc \in {"rename", "remove", "purge"}

\* A GET that began after a write had returned, in this process or another,
\* with its invalidation in effect, returns nothing older than that write:
\* whatever reads were in flight, however little of the directory could be
\* removed, and whoever stopped where.
ReadsAreFresh ==
    \A s \in Slots : req[s].pc = "returned" => req[s].version >= req[s].floor

\* No file is tagged with a generation that no invalidation has issued yet, so
\* none will pass for current after the next one (invalidateCache).
NoFutureEntries == \A e \in entries : e.gen <= marker[e.ns]

InUse(e) == e \in entries /\ Accepts(marker[e.ns], e)

\* A write makes no GET refetch a resource it cannot have changed: an entry in
\* use stays in use until a write that targets its namespace, unless another
\* takes its place, the marker is damaged or the machine loses power.
SelectiveClear ==
    [][\A e \in entries : InUse(e) /\ ~InUse(e)' =>
         \/ \E s \in Slots : /\ req[s].pc \in {"invalidate", "remove", "rename"}
                               /\ e.ns \in Targets[req[s].ns]
         \/ damaged \/ \A s \in Slots : req'[s] = Idle]_vars
=============================================================================
