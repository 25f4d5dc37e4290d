-------------------------- MODULE OwnWrites_proofs --------------------------
(***************************************************************************)
(* What zotio reads after it has written, for any number of processes,     *)
(* requests, namespaces, keys, values and versions.                        *)
(*                                                                         *)
(* ResponseCache: what a GET returns is never older than a write that had  *)
(* returned before it began, and a directory is purged only under a marker *)
(* that cannot be read.                                                    *)
(*                                                                         *)
(* PendingWrites: what zotio has of an item came from the library (Base),  *)
(* of the two states of an item the newer wins (Newer); on top of these    *)
(* each property has a layer of its own, kept by every step.               *)
(***************************************************************************)
EXTENDS ResponseCache, PendingWrites, FiniteSetTheorems, WellFoundedInduction, TLAPS

(* The parts of the inductive invariant.                                   *)

Publishing(s) == req[s].pc \in {"publish", "rename"}

\* What a reader of namespace n that accepts generation g may get, now or from
\* a response on its way to the directory, is no older than v.
Fresh(n, g, v) ==
    /\ library >= v
    /\ \A e \in entries : e.ns = n /\ e.gen >= g => e.body >= v
    /\ \A s \in Slots :
         Publishing(s) /\ req[s].ns = n /\ req[s].marker >= g => req[s].version >= v

\* No generation is used before its invalidation, and what is renamed under the
\* lock has the current one.
Issue ==
    /\ NoFutureEntries
    /\ \A s \in Slots :
         /\ req[s].pc \in {"lookup", "publish", "rename"} =>
               req[s].marker <= marker[req[s].ns]
         /\ req[s].pc = "rename" => req[s].marker = marker[req[s].ns]

\* A write that has returned, or is about to, has shut out what is older.
Shut ==
    /\ \A n \in Namespaces : Fresh(n, marker[n], done[n])
    /\ \A s \in Slots :
         /\ req[s].pc = "remove" =>
               \A n \in Targets[req[s].ns] : Fresh(n, marker[n], req[s].version)
         /\ req[s].pc = "invalidate" => req[s].version <= library

\* So a GET gets nothing older than its floor.
Gets ==
    \A s \in Slots :
        /\ req[s].pc = "lookup" => Fresh(req[s].ns, req[s].marker, req[s].floor)
        /\ req[s].pc = "bypass" => library >= req[s].floor
        /\ req[s].pc \in {"publish", "rename", "returned"} => req[s].version >= req[s].floor

IInv == TypeOK /\ Issue /\ Shut /\ Gets

-----------------------------------------------------------------------------
LEMMA IdleType == Idle \in Requests /\ Idle.pc = "idle"
  BY CacheAssumption DEF Idle, Requests

\* What a GET that returns leaves in its slot.
LEMMA ReturnFacts ==
    ASSUME TypeOK, NEW s \in Slots, NEW v \in Nat, Return(s, v)
    PROVE  /\ req' \in [Slots -> Requests]
           /\ req'[s].pc = "returned" /\ req'[s].version = v /\ req'[s].floor = req[s].floor
           /\ \A t \in Slots : t # s => req'[t] = req[t]
  <1> DEFINE r == [Idle EXCEPT !.pc = "returned", !.version = v, !.floor = req[s].floor]
  <1>1. req[s].floor \in Nat
    BY DEF TypeOK, Requests
  <1>2. r \in Requests /\ r.pc = "returned" /\ r.version = v /\ r.floor = req[s].floor
    BY <1>1, IdleType DEF Requests
  <1>3. req' = [req EXCEPT ![s] = r]
    BY DEF Return
  <1> QED
    BY <1>2, <1>3 DEF TypeOK

LEMMA InitIInv == Init => IInv
  <1> SUFFICES ASSUME Init PROVE IInv
    OBVIOUS
  <1>1. \A s \in Slots : req[s] \in Requests /\ req[s].pc = "idle"
    BY IdleType DEF Init
  <1>2. TypeOK
    <2>1. req \in [Slots -> Requests]
      BY IdleType DEF Init
    <2>2. \A s \in Slots : lock = s <=> req[s].pc \in {"rename", "remove", "purge"}
      BY <1>1, CacheAssumption DEF Init
    <2>3. /\ library \in Nat /\ marker \in [Namespaces -> Nat] /\ damaged \in BOOLEAN
          /\ memory \in [Processes -> Nat] /\ done \in [Namespaces -> Nat]
          /\ entries = {} /\ lock = Nobody
      BY DEF Init
    <2>4. writes \in 0 .. MaxWrites
      BY CacheAssumption DEF Init
    <2> QED
      BY <2>1, <2>2, <2>3, <2>4 DEF TypeOK
  <1>3. Issue
    BY <1>1 DEF Init, Issue, NoFutureEntries
  <1>4. Shut /\ Gets
    BY <1>1 DEF Init, Shut, Gets, Fresh, Publishing
  <1> QED
    BY <1>2, <1>3, <1>4 DEF IInv

-----------------------------------------------------------------------------
(* Types, and whose the lock is.                                           *)

LEMMA TypeStep ==
    ASSUME TypeOK, [Next]_vars
    PROVE  TypeOK'
  <1> USE DEF TypeOK
  <1> USE CacheAssumption, IdleType
  <1>1. ASSUME NEW s \in Slots, Hit(s) PROVE TypeOK'
    <2>1. PICK e \in entries : Return(s, e.body)
      BY <1>1 DEF Hit
    <2>2. e.body \in Nat
      BY DEF Entry
    <2> QED
      BY <1>1, <2>1, <2>2, ReturnFacts DEF Hit
  <1>2. ASSUME NEW s \in Slots, Fetch(s) PROVE TypeOK'
    <2>1. CASE req[s].pc = "lookup"
      <3>1. req' = [req EXCEPT ![s].pc = "publish", ![s].version = library]
        BY <1>2, <2>1 DEF Fetch
      <3>2. req' \in [Slots -> Requests]
        BY <3>1 DEF Requests
      <3>3. \A t \in Slots : lock = t <=> req'[t].pc \in {"rename", "remove", "purge"}
        BY <3>1, <2>1 DEF Requests
      <3> QED
        BY <1>2, <3>2, <3>3 DEF Fetch
    <2>2. CASE req[s].pc = "bypass"
      BY <1>2, <2>2, ReturnFacts DEF Fetch
    <2> QED
      BY <1>2, <2>1, <2>2 DEF Fetch
  <1>3. ASSUME NEW s \in Slots, FetchFails(s) PROVE TypeOK'
    BY <1>3 DEF FetchFails, Over
  <1>4. ASSUME NEW s \in Slots, BeginPublish(s) PROVE TypeOK'
    BY <1>4 DEF BeginPublish, Goto, Requests, Idle
  <1>5. ASSUME NEW s \in Slots, NotPublished(s) PROVE TypeOK'
    BY <1>5 DEF NotPublished, Return, Requests, Idle
  <1>6. ASSUME NEW s \in Slots, Rename(s) PROVE TypeOK'
    <2> DEFINE new == [ns |-> req[s].ns, gen |-> Tag(s), body |-> req[s].version]
               r == [Idle EXCEPT !.pc = "returned", !.version = req[s].version,
                                 !.floor = req[s].floor]
    <2>1. new \in Entry /\ new.ns = req[s].ns
      BY DEF Entry, Tag, Requests
    <2>2. entries' \subseteq Entry /\ \A e, f \in entries' : e.ns = f.ns => e = f
      BY <1>6, <2>1 DEF Rename
    <2>3. r \in Requests /\ r.pc = "returned"
      BY DEF Requests, Idle
    <2>4. req' = [req EXCEPT ![s] = r] /\ lock' = Nobody /\ req[s].pc = "rename"
      BY <1>6 DEF Rename, Return
    <2>5. req' \in [Slots -> Requests]
      BY <2>3, <2>4
    <2>6. \A t \in Slots : lock' = t <=> req'[t].pc \in {"rename", "remove", "purge"}
      BY <2>3, <2>4
    <2> QED
      BY <1>6, <2>2, <2>5, <2>6 DEF Rename
  <1>7. ASSUME NEW s \in Slots, EndGet(s) PROVE TypeOK'
    BY <1>7 DEF EndGet, Over, Requests, Idle
  <1>8. ASSUME NEW s \in Slots, GiveUp(s) PROVE TypeOK'
    BY <1>8 DEF GiveUp, Over, Requests, Idle
  <1>9. ASSUME NEW s \in Slots, Mark(s) PROVE TypeOK'
    BY <1>9 DEF Mark, Goto, Issued, Marked, Requests, Idle
  <1>10. ASSUME NEW s \in Slots, MarkUnreadable(s) PROVE TypeOK'
    BY <1>10 DEF MarkUnreadable, Goto, Requests, Idle
  <1>11. ASSUME NEW s \in Slots, Remove(s) PROVE TypeOK'
    BY <1>11 DEF Remove, Requests, Idle
  <1>12. ASSUME NEW s \in Slots, EndInvalidate(s) PROVE TypeOK'
    BY <1>12 DEF EndInvalidate, Over, Later, Requests, Idle
  <1>13. ASSUME NEW s \in Slots, NEW p \in Processes, NEW n \in Namespaces, BeginGet(s, p, n)
        PROVE  TypeOK'
    BY <1>13 DEF BeginGet, Requests, Idle
  <1>14. ASSUME NEW s \in Slots, NEW p \in Processes, NEW n \in Namespaces, Write(s, p, n)
        PROVE  TypeOK'
    <2>1. PICK landed \in BOOLEAN :
            req' = [req EXCEPT ![s] =
                      [Idle EXCEPT !.pc = "invalidate", !.proc = p, !.ns = n,
                                   !.version = IF landed THEN library + 1 ELSE 0]]
      BY <1>14 DEF Write
    <2> DEFINE r == [Idle EXCEPT !.pc = "invalidate", !.proc = p, !.ns = n,
                                 !.version = IF landed THEN library + 1 ELSE 0]
    <2> DEFINE v == IF landed THEN library + 1 ELSE 0
    <2>0. v \in Nat
      OBVIOUS
    <2>2. r \in Requests /\ r.pc = "invalidate"
      BY <2>0 DEF Requests
    <2>3. req' \in [Slots -> Requests]
      BY <2>1, <2>2
    <2>4. \A t \in Slots : lock' = t <=> req'[t].pc \in {"rename", "remove", "purge"}
      BY <1>14, <2>1, <2>2 DEF Write
    <2> QED
      BY <1>14, <2>3, <2>4 DEF Write
  <1>15. ASSUME NEW p \in Processes, Exit(p) PROVE TypeOK'
    BY <1>15 DEF Exit, Stop, Freed, Requests
  <1>16. CASE PowerLoss
    BY <1>16 DEF PowerLoss, Stop, Freed, Requests
  <1>17. CASE UNCHANGED vars
    BY <1>17 DEF vars
  <1> QED
    BY <1>1, <1>2, <1>3, <1>4, <1>5, <1>6, <1>7, <1>8, <1>9, <1>10, <1>11, <1>12, <1>13, <1>14, <1>15, <1>16, <1>17 DEF Next

-----------------------------------------------------------------------------
(* What stays fresh.                                                       *)

FreshAfter(n, g, v) ==
    /\ library' >= v
    /\ \A e \in entries' : e.ns = n /\ e.gen >= g => e.body >= v
    /\ \A s \in Slots :
         Publishing(s)' /\ req'[s].ns = n /\ req'[s].marker >= g => req'[s].version >= v

\* Nothing older reaches the directory or is fetched: a response is as new as
\* the library, and an entry as its response.
LEMMA FreshStep ==
    ASSUME TypeOK, Issue, [Next]_vars,
           NEW n \in Namespaces, NEW g \in Nat, NEW v \in Nat, Fresh(n, g, v)
    PROVE  FreshAfter(n, g, v)
  <1> USE DEF TypeOK, Fresh, FreshAfter, Publishing
  <1> USE IdleType
  <1>1. ASSUME NEW s \in Slots, Hit(s) PROVE FreshAfter(n, g, v)
    BY <1>1 DEF Hit, Return, Idle, Requests
  <1>2. ASSUME NEW s \in Slots, FetchFails(s) PROVE FreshAfter(n, g, v)
    BY <1>2 DEF FetchFails, Over, Requests
  <1>3. ASSUME NEW s \in Slots, BeginPublish(s) PROVE FreshAfter(n, g, v)
    BY <1>3 DEF BeginPublish, Goto, Requests
  <1>4. ASSUME NEW s \in Slots, NotPublished(s) PROVE FreshAfter(n, g, v)
    BY <1>4 DEF NotPublished, Return, Idle, Requests
  <1>5. ASSUME NEW s \in Slots, EndGet(s) PROVE FreshAfter(n, g, v)
    BY <1>5 DEF EndGet, Over, Requests
  <1>6. ASSUME NEW s \in Slots, GiveUp(s) PROVE FreshAfter(n, g, v)
    BY <1>6 DEF GiveUp, Over, Requests
  <1>7. ASSUME NEW s \in Slots, Mark(s) PROVE FreshAfter(n, g, v)
    BY <1>7 DEF Mark, Goto, Requests
  <1>8. ASSUME NEW s \in Slots, MarkUnreadable(s) PROVE FreshAfter(n, g, v)
    BY <1>8 DEF MarkUnreadable, Goto, Requests
  <1>9. ASSUME NEW s \in Slots, Remove(s) PROVE FreshAfter(n, g, v)
    BY <1>9 DEF Remove, Requests
  <1>10. ASSUME NEW s \in Slots, EndInvalidate(s) PROVE FreshAfter(n, g, v)
    BY <1>10 DEF EndInvalidate, Over, Requests
  <1>11. ASSUME NEW s \in Slots, Fetch(s) PROVE FreshAfter(n, g, v)
    <2>1. library' = library /\ entries' = entries /\ library \in Nat
      BY <1>11 DEF Fetch
    <2>2. CASE req[s].pc = "lookup"
      <3>1. req' = [req EXCEPT ![s].pc = "publish", ![s].version = library]
        BY <1>11, <2>2 DEF Fetch
      <3>2. req[s] \in Requests /\ \A t \in Slots : t # s => req'[t] = req[t]
        BY <3>1
      <3>3. req'[s].version = library
        BY <3>1, <3>2 DEF Requests
      <3> QED
        BY <2>1, <3>2, <3>3
    <2>3. CASE req[s].pc = "bypass"
      BY <1>11, <2>1, <2>3, ReturnFacts DEF Fetch
    <2> QED
      BY <1>11, <2>2, <2>3 DEF Fetch
  <1>12. ASSUME NEW s \in Slots, Rename(s) PROVE FreshAfter(n, g, v)
    <2>1. req[s].pc = "rename" /\ req[s].marker = Tag(s)
      BY <1>12 DEF Rename, Issue, Tag
    <2>2. req[s].ns = n /\ Tag(s) >= g => req[s].version >= v
      BY <2>1
    <2>3. \A e \in entries' : e.ns = n /\ e.gen >= g => e.body >= v
      BY <1>12, <2>2 DEF Rename
    <2> QED
      BY <1>12, <2>3 DEF Rename, Return, Requests, Idle
  <1>13. ASSUME NEW s \in Slots, NEW p \in Processes, NEW m \in Namespaces, BeginGet(s, p, m)
        PROVE  FreshAfter(n, g, v)
    BY <1>13 DEF BeginGet, Requests, Idle
  <1>14. ASSUME NEW s \in Slots, NEW p \in Processes, NEW m \in Namespaces, Write(s, p, m)
        PROVE  FreshAfter(n, g, v)
    <2>1. library' >= library /\ library' \in Nat /\ entries' = entries
      BY <1>14 DEF Write
    <2>2. req'[s].pc = "invalidate" /\ \A t \in Slots : t # s => req'[t] = req[t]
      BY <1>14 DEF Write, Idle
    <2> QED
      BY <2>1, <2>2
  <1>15. ASSUME NEW p \in Processes, Exit(p) PROVE FreshAfter(n, g, v)
    BY <1>15 DEF Exit, Stop
  <1>16. CASE PowerLoss
    BY <1>16 DEF PowerLoss, Stop
  <1>17. CASE UNCHANGED vars
    BY <1>17 DEF vars
  <1> QED
    BY <1>1, <1>2, <1>3, <1>4, <1>5, <1>6, <1>7, <1>8, <1>9, <1>10, <1>11, <1>12, <1>13, <1>14, <1>15, <1>16, <1>17 DEF Next

-----------------------------------------------------------------------------
(* What a step does to one request, and to what all requests share.        *)

Same(s, r) == req'[s].ns = r.ns /\ req'[s].marker = r.marker /\ req'[s].floor = r.floor

Began(s) ==
    /\ req'[s].pc \in {"lookup", "bypass"} /\ req'[s].ns \in Namespaces
    /\ req'[s].marker = marker[req'[s].ns] /\ req'[s].floor = done[req'[s].ns]
    /\ UNCHANGED <<library, marker, done, entries>>
    /\ \A t \in Slots : t # s => req'[t] = req[t]

Fetched(s) ==
    /\ req[s].pc = "lookup" /\ req'[s].pc = "publish"
    /\ Same(s, req[s]) /\ req'[s].version = library
    /\ UNCHANGED <<library, marker>>

Locked(s) ==
    /\ req[s].pc = "publish" /\ req'[s].pc = "rename"
    /\ Same(s, req[s]) /\ req'[s].version = req[s].version
    /\ req[s].marker = marker[req[s].ns]
    /\ UNCHANGED marker

\* It returns what it fetched, with or without the cache, or found there.
Returned(s) ==
    /\ req'[s].pc = "returned" /\ req'[s].floor = req[s].floor
    /\ \/ req[s].pc = "bypass" /\ req'[s].version = library
       \/ req[s].pc \in {"publish", "rename"} /\ req'[s].version = req[s].version
       \/ /\ req[s].pc = "lookup"
          /\ \E e \in entries : /\ e.ns = req[s].ns /\ e.gen >= req[s].marker
                                /\ req'[s].version = e.body

Moves(s) ==
    \/ req'[s] = req[s]
    \/ req'[s].pc \in {"idle", "purge"}
    \/ Began(s) \/ Fetched(s) \/ Locked(s) \/ Returned(s)
    \/ req'[s].pc = "invalidate" /\ req'[s].version <= library'
    \/ Mark(s)

LEMMA OwnMove ==
    ASSUME TypeOK, NEW s \in Slots,
           \/ \E p \in Processes, n \in Namespaces : BeginGet(s, p, n) \/ Write(s, p, n)
           \/ Hit(s) \/ Fetch(s) \/ BeginPublish(s) \/ NotPublished(s) \/ Rename(s)
           \/ MarkUnreadable(s)
    PROVE  Moves(s)
  <1> USE DEF TypeOK
  <1>0. req[s] \in Requests
    OBVIOUS
  <1>1. ASSUME NEW p \in Processes, NEW n \in Namespaces, BeginGet(s, p, n)
        PROVE  Began(s)
    BY <1>1 DEF BeginGet, Began, Idle
  <1>2. ASSUME NEW p \in Processes, NEW n \in Namespaces, Write(s, p, n)
        PROVE  req'[s].pc = "invalidate" /\ req'[s].version <= library'
    <2>1. PICK landed \in BOOLEAN :
            /\ library' = IF landed THEN library + 1 ELSE library
            /\ req' = [req EXCEPT ![s] =
                         [Idle EXCEPT !.pc = "invalidate", !.proc = p, !.ns = n,
                                      !.version = IF landed THEN library + 1 ELSE 0]]
      BY <1>2 DEF Write
    <2> DEFINE v == IF landed THEN library + 1 ELSE 0
    <2>2. v \in Nat /\ v <= library'
      BY <2>1
    <2>3. req'[s].pc = "invalidate" /\ req'[s].version = v
      BY <2>1 DEF Idle
    <2> QED
      BY <2>2, <2>3
  <1>3. ASSUME Hit(s) PROVE Returned(s)
    <2>1. PICK e \in entries :
            e.ns = req[s].ns /\ e.gen >= req[s].marker /\ Return(s, e.body)
      BY <1>3 DEF Hit, Accepts
    <2>2. e.body \in Nat
      BY DEF Entry
    <2>3. req'[s].pc = "returned" /\ req'[s].version = e.body
          /\ req'[s].floor = req[s].floor
      BY <2>1, <2>2, ReturnFacts
    <2> QED
      BY <1>3, <2>1, <2>3 DEF Hit, Returned
  <1>4. ASSUME Fetch(s), req[s].pc = "lookup" PROVE Fetched(s)
    BY <1>0, <1>4 DEF Fetch, Fetched, Same, Requests
  <1>5. ASSUME Fetch(s), req[s].pc = "bypass" PROVE Returned(s)
    <2>1. Return(s, library) /\ library \in Nat
      BY <1>5 DEF Fetch
    <2>2. req'[s].pc = "returned" /\ req'[s].version = library
          /\ req'[s].floor = req[s].floor
      BY <2>1, ReturnFacts
    <2> QED
      BY <1>5, <2>2 DEF Returned
  <1>6. ASSUME BeginPublish(s) PROVE Locked(s)
    BY <1>0, <1>6 DEF BeginPublish, MayPublish, Goto, Locked, Same, Requests
  <1>7. ASSUME NotPublished(s) \/ Rename(s) PROVE Returned(s)
    <2>1. Return(s, req[s].version) /\ req[s].version \in Nat
          /\ req[s].pc \in {"publish", "rename"}
      BY <1>0, <1>7 DEF NotPublished, Rename, Requests
    <2>2. req'[s].pc = "returned" /\ req'[s].version = req[s].version
          /\ req'[s].floor = req[s].floor
      BY <2>1, ReturnFacts
    <2> QED
      BY <2>1, <2>2 DEF Returned
  <1>8. ASSUME MarkUnreadable(s) PROVE req'[s].pc = "purge"
    BY <1>0, <1>8 DEF MarkUnreadable, Goto, Requests
  <1>9. ASSUME Fetch(s) PROVE req[s].pc = "lookup" \/ req[s].pc = "bypass"
    BY <1>9 DEF Fetch
  <1> QED
    BY <1>1, <1>2, <1>3, <1>4, <1>5, <1>6, <1>7, <1>8, <1>9 DEF Moves

LEMMA EveryMove ==
    ASSUME TypeOK, [Next]_vars, NEW s \in Slots
    PROVE  Moves(s)
  <1> USE DEF TypeOK
  <1>1. ASSUME NEW t \in Slots, NEW p \in Processes, NEW n \in Namespaces,
               BeginGet(t, p, n) \/ Write(t, p, n)
        PROVE  Moves(s)
    <2>1. CASE t = s
      BY <1>1, <2>1, OwnMove
    <2>2. CASE t # s
      BY <1>1, <2>2 DEF Moves, BeginGet, Write
    <2> QED
      BY <2>1, <2>2
  <1>2. ASSUME NEW t \in Slots,
               Hit(t) \/ Fetch(t) \/ BeginPublish(t) \/ NotPublished(t) \/ Rename(t)
               \/ Mark(t) \/ MarkUnreadable(t)
        PROVE  Moves(s)
    <2>1. CASE t = s
      BY <1>2, <2>1, OwnMove DEF Moves
    <2>2. CASE t # s
      BY <1>2, <2>2 DEF Moves, Hit, Fetch, BeginPublish, NotPublished, Rename, Mark,
         MarkUnreadable, Return, Goto
    <2> QED
      BY <2>1, <2>2
  <1>3. ASSUME NEW t \in Slots,
               FetchFails(t) \/ EndGet(t) \/ GiveUp(t) \/ Remove(t) \/ EndInvalidate(t)
        PROVE  Moves(s)
    BY <1>3, IdleType DEF Moves, FetchFails, EndGet, GiveUp, Remove, EndInvalidate, Over
  <1>4. CASE PowerLoss \/ \E p \in Processes : Exit(p)
    BY <1>4, IdleType DEF Moves, PowerLoss, Exit, Stop
  <1>5. CASE UNCHANGED vars
    BY <1>5 DEF Moves, vars
  <1> QED
    BY <1>1, <1>2, <1>3, <1>4, <1>5 DEF Next

\* An invalidation issues a generation above that of each of its targets.
LEMMA MarkFacts ==
    ASSUME TypeOK, NEW s \in Slots, Mark(s)
    PROVE  /\ lock = Nobody /\ req[s].pc = "invalidate"
           /\ req' = [req EXCEPT ![s] = [req[s] EXCEPT !.pc = "remove"]]
           /\ UNCHANGED <<library, entries, done>>
           /\ marker' \in [Namespaces -> Nat]
           /\ \A n \in Namespaces :
                IF n \in Targets[req[s].ns] THEN marker'[n] > marker[n]
                                            ELSE marker'[n] = marker[n]
  <1> USE DEF TypeOK
  <1>1. req[s] \in Requests /\ req[s].ns \in Namespaces /\ req[s].proc \in Processes
    BY DEF Requests
  <1>2. PICK g \in {h + 1 : h \in Issued(s)} :
          (\A h \in Issued(s) : h < g) /\ marker' = Marked(s, g)
    BY DEF Mark
  <1>3. \A n \in Targets[req[s].ns] : marker[n] < g
    BY <1>2 DEF Issued
  <1>4. g \in Nat
    BY <1>1, CacheAssumption DEF Issued
  <1>5. marker' \in [Namespaces -> Nat]
    BY <1>2, <1>4 DEF Marked
  <1>6. \A n \in Namespaces :
          IF n \in Targets[req[s].ns] THEN marker'[n] > marker[n]
                                      ELSE marker'[n] = marker[n]
    BY <1>2, <1>3, <1>4 DEF Marked
  <1> QED
    BY <1>1, <1>5, <1>6 DEF Mark, Goto

LEMMA SharedFacts ==
    ASSUME TypeOK, [Next]_vars
    PROVE  /\ library' >= library
           /\ (\E s \in Slots : Mark(s)) \/ marker' = marker
           /\ (\E s \in Slots : EndInvalidate(s)) \/ done' = done
           /\ (\E s \in Slots : Rename(s)) \/ entries' \subseteq entries
           /\ \A n \in Namespaces : marker'[n] >= marker[n]
  <1> USE DEF TypeOK
  <1>1. library' >= library
    <2>1. ASSUME NEW s \in Slots, NEW p \in Processes, NEW n \in Namespaces, Write(s, p, n)
          PROVE  library' >= library
      BY <2>1 DEF Write
    <2>2. \/ library' = library
          \/ \E s \in Slots, p \in Processes, n \in Namespaces : Write(s, p, n)
      BY DEF Next, vars, BeginGet, Hit, Fetch, FetchFails, BeginPublish,
         NotPublished, Rename, EndGet, GiveUp, Mark, MarkUnreadable, Remove,
         EndInvalidate, Exit, PowerLoss, Stop
    <2> QED
      BY <2>1, <2>2
  <1>2. (\E s \in Slots : Mark(s)) \/ marker' = marker
    BY DEF Next, vars, BeginGet, Write, Hit, Fetch, FetchFails, BeginPublish,
       NotPublished, Rename, EndGet, GiveUp, MarkUnreadable, Remove,
       EndInvalidate, Exit, PowerLoss, Stop
  <1>3. (\E s \in Slots : EndInvalidate(s)) \/ done' = done
    BY DEF Next, vars, BeginGet, Write, Hit, Fetch, FetchFails, BeginPublish,
       NotPublished, Rename, EndGet, GiveUp, Mark, MarkUnreadable, Remove,
       Exit, PowerLoss, Stop
  <1>4. (\E s \in Slots : Rename(s)) \/ entries' \subseteq entries
    BY DEF Next, vars, BeginGet, Write, Hit, Fetch, FetchFails, BeginPublish,
       NotPublished, EndGet, GiveUp, Mark, MarkUnreadable, Remove,
       EndInvalidate, Exit, PowerLoss, Stop
  <1>5. ASSUME NEW n \in Namespaces PROVE marker'[n] >= marker[n]
    <2>1. marker[n] \in Nat
      OBVIOUS
    <2>2. ASSUME NEW s \in Slots, Mark(s) PROVE marker'[n] >= marker[n]
      <3>1. marker'[n] \in Nat
        BY <2>2, MarkFacts
      <3>2. marker'[n] > marker[n] \/ marker'[n] = marker[n]
        BY <2>2, MarkFacts
      <3> QED
        BY <2>1, <3>1, <3>2
    <2> QED
      BY <1>2, <2>1, <2>2
  <1> QED
    BY <1>1, <1>2, <1>3, <1>4, <1>5

-----------------------------------------------------------------------------
LEMMA IssueStep ==
    ASSUME TypeOK, Issue, [Next]_vars
    PROVE  Issue'
  <1> USE DEF TypeOK
  <1>1. ASSUME NEW e \in entries' PROVE e.gen <= marker'[e.ns]
    <2>1. CASE e \in entries
      <3>1. e.ns \in Namespaces /\ e.gen \in Nat /\ e.gen <= marker[e.ns]
        BY <2>1 DEF Issue, NoFutureEntries, Entry
      <3> QED
        BY <3>1, SharedFacts, TypeStep
    <2>2. CASE e \notin entries
      <3>1. PICK s \in Slots : Rename(s)
        BY <2>2, SharedFacts
      <3>2. e.ns = req[s].ns /\ e.gen = marker[req[s].ns] /\ req[s].ns \in Namespaces
        BY <3>1, <2>2, <1>1 DEF Rename, Tag, Requests
      <3> QED
        BY <3>2, SharedFacts, TypeStep
    <2> QED
      BY <2>1, <2>2
  <1>2. ASSUME NEW s \in Slots, req'[s].pc \in {"lookup", "publish", "rename"}
        PROVE  /\ req'[s].marker <= marker'[req'[s].ns]
               /\ req'[s].pc = "rename" => req'[s].marker = marker'[req'[s].ns]
    <2>0. req[s].ns \in Namespaces /\ req[s].marker \in Nat
      BY DEF Requests
    <2>1. CASE req'[s] = req[s]
      <3>1. req[s].marker <= marker[req[s].ns]
            /\ (req[s].pc = "rename" => req[s].marker = marker[req[s].ns])
        BY <1>2, <2>1 DEF Issue
      <3>2. ASSUME req[s].pc = "rename" PROVE marker' = marker
        <4>1. lock = s /\ s # Nobody
          BY <3>2, CacheAssumption
        <4> QED
          BY <4>1, SharedFacts, MarkFacts
      <3>3. marker'[req[s].ns] >= marker[req[s].ns] /\ marker'[req[s].ns] \in Nat
        BY SharedFacts, TypeStep, <2>0
      <3> QED
        BY <2>0, <2>1, <3>1, <3>2, <3>3
    <2>2. CASE Began(s)
      BY <1>2, <2>2 DEF Began
    <2>3. CASE Fetched(s)
      BY <2>0, <2>3 DEF Fetched, Same, Issue
    <2>4. CASE Locked(s)
      BY <2>0, <2>4 DEF Locked, Same
    <2>5. CASE Mark(s)
      BY <1>2, <2>5, MarkFacts DEF Requests
    <2> QED
      BY <1>2, <2>1, <2>2, <2>3, <2>4, <2>5, EveryMove DEF Moves, Returned
  <1> QED
    BY <1>1, <1>2 DEF Issue, NoFutureEntries

-----------------------------------------------------------------------------
\* The later the generation a reader accepts, the less it may get.
LEMMA FreshLater ==
    ASSUME TypeOK', NEW n \in Namespaces, NEW g \in Nat, NEW h \in Nat, NEW v \in Nat,
           FreshAfter(n, g, v), h >= g
    PROVE  FreshAfter(n, h, v)
  <1>1. \A e \in entries' : e.gen \in Nat
    BY DEF TypeOK, Entry
  <1>2. \A s \in Slots : req'[s].marker \in Nat
    BY DEF TypeOK, Requests
  <1> QED
    BY <1>1, <1>2 DEF FreshAfter

LEMMA ShutStep ==
    ASSUME TypeOK, Issue, Shut, [Next]_vars
    PROVE  Shut'
  <1> USE DEF TypeOK
  <1>0. TypeOK'
    BY TypeStep
  <1>1. ASSUME NEW n \in Namespaces, NEW v \in Nat, Fresh(n, marker[n], v)
        PROVE  FreshAfter(n, marker'[n], v)
    <2>1. FreshAfter(n, marker[n], v)
      BY <1>1, FreshStep
    <2>2. marker'[n] >= marker[n] /\ marker'[n] \in Nat
      BY <1>0, SharedFacts
    <2> QED
      BY <1>0, <2>1, <2>2, FreshLater
  <1>2. ASSUME NEW n \in Namespaces PROVE FreshAfter(n, marker'[n], done'[n])
    <2>1. FreshAfter(n, marker'[n], done[n])
      BY <1>1 DEF Shut
    <2>2. ASSUME NEW s \in Slots, EndInvalidate(s) PROVE FreshAfter(n, marker'[n], done'[n])
      <3>1. CASE req[s].pc = "remove" /\ n \in Targets[req[s].ns]
        <4>1. FreshAfter(n, marker'[n], req[s].version)
          BY <1>1, <3>1 DEF Shut, Requests
        <4>2. done'[n] = done[n] \/ done'[n] = req[s].version
          BY <2>2, <3>1 DEF EndInvalidate, Later
        <4> QED
          BY <2>1, <4>1, <4>2
      <3>2. CASE ~(req[s].pc = "remove" /\ n \in Targets[req[s].ns])
        <4>1. done'[n] = done[n]
          BY <2>2, <3>2 DEF EndInvalidate
        <4> QED
          BY <2>1, <4>1
      <3> QED
        BY <3>1, <3>2
    <2> QED
      BY <2>1, <2>2, SharedFacts
  <1>3. ASSUME NEW s \in Slots, req'[s].pc = "remove", NEW n \in Targets[req'[s].ns]
        PROVE  FreshAfter(n, marker'[n], req'[s].version)
    <2>0. /\ req[s].ns \in Namespaces /\ req[s].version \in Nat
          /\ Targets[req[s].ns] \subseteq Namespaces
      BY CacheAssumption DEF Requests
    <2>1. CASE req'[s] = req[s]
      BY <1>1, <1>3, <2>0, <2>1 DEF Shut
    <2>2. CASE Mark(s)
      <3>1. /\ req' = [req EXCEPT ![s] = [req[s] EXCEPT !.pc = "remove"]]
            /\ req[s].pc = "invalidate" /\ library' = library /\ entries' = entries
            /\ req'[s].ns = req[s].ns /\ req'[s].version = req[s].version
        BY <2>2, MarkFacts DEF Requests
      <3>2. n \in Namespaces /\ n \in Targets[req[s].ns]
        BY <1>3, <2>0, <3>1
      <3>3. marker'[n] > marker[n] /\ marker[n] \in Nat /\ marker'[n] \in Nat
        BY <2>2, <3>2, MarkFacts
      <3>4. library' >= req'[s].version
        BY <3>1 DEF Shut
      <3>5. ASSUME NEW e \in entries', e.ns = n PROVE ~(e.gen >= marker'[n])
        <4>1. e.gen \in Nat /\ e.gen <= marker[n]
          BY <3>1, <3>5 DEF Entry, Issue, NoFutureEntries
        <4> QED
          BY <3>3, <4>1
      <3>6. ASSUME NEW t \in Slots, Publishing(t)', req'[t].ns = n
            PROVE  ~(req'[t].marker >= marker'[n])
        <4>1. t # s
          BY <1>3, <3>6 DEF Publishing
        <4>2. req'[t] = req[t]
          BY <3>1, <4>1
        <4>3. req[t].marker \in Nat /\ req[t].marker <= marker[n]
          BY <3>6, <4>2 DEF Publishing, Issue, Requests
        <4> QED
          BY <3>3, <4>2, <4>3
      <3> QED
        BY <3>4, <3>5, <3>6 DEF FreshAfter
    <2> QED
      BY <1>3, <2>1, <2>2, EveryMove DEF Moves, Began, Fetched, Locked, Returned
  <1>4. ASSUME NEW s \in Slots, req'[s].pc = "invalidate"
        PROVE  req'[s].version <= library'
    <2>1. CASE req'[s] = req[s]
      <3>1. req[s].version <= library /\ req[s].version \in Nat
        BY <1>4, <2>1 DEF Shut, Requests
      <3> QED
        BY <1>0, <2>1, <3>1, SharedFacts
    <2>2. CASE Mark(s)
      BY <1>4, <2>2, MarkFacts DEF Requests
    <2> QED
      BY <1>4, <2>1, <2>2, EveryMove DEF Moves, Began, Fetched, Locked, Returned
  <1> QED
    BY <1>2, <1>3, <1>4 DEF Shut, Fresh, FreshAfter

LEMMA GetsStep ==
    ASSUME TypeOK, Issue, Shut, Gets, [Next]_vars
    PROVE  Gets'
  <1> USE DEF TypeOK
  <1>0. TypeOK'
    BY TypeStep
  <1> SUFFICES ASSUME NEW s \in Slots
               PROVE  /\ req'[s].pc = "lookup" =>
                            FreshAfter(req'[s].ns, req'[s].marker, req'[s].floor)
                      /\ req'[s].pc = "bypass" => library' >= req'[s].floor
                      /\ req'[s].pc \in {"publish", "rename", "returned"} =>
                            req'[s].version >= req'[s].floor
    BY DEF Gets, Fresh, FreshAfter
  <1>1. /\ req[s].ns \in Namespaces /\ req[s].marker \in Nat
        /\ req[s].floor \in Nat /\ req[s].version \in Nat
    BY DEF Requests
  <1>2. CASE req'[s] = req[s]
    <2>1. req[s].pc = "lookup" => FreshAfter(req[s].ns, req[s].marker, req[s].floor)
      BY <1>1, FreshStep DEF Gets
    <2>2. req[s].pc = "bypass" => library' >= req[s].floor
      BY <1>0, <1>1, SharedFacts DEF Gets
    <2> QED
      BY <1>2, <2>1, <2>2 DEF Gets
  <1>3. CASE Began(s)
    <2> DEFINE n == req'[s].ns
    <2>1. /\ n \in Namespaces /\ req'[s].marker = marker[n] /\ req'[s].floor = done[n]
          /\ req'[s].pc \in {"lookup", "bypass"}
      BY <1>3 DEF Began
    <2>2. Fresh(n, marker[n], done[n])
      BY <2>1 DEF Shut
    <2>3. FreshAfter(n, marker[n], done[n])
      BY <2>1, <2>2, FreshStep
    <2> QED
      BY <2>1, <2>3 DEF FreshAfter
  <1>4. CASE Fetched(s)
    BY <1>1, <1>4 DEF Fetched, Same, Gets, Fresh
  <1>5. CASE Locked(s)
    BY <1>1, <1>5 DEF Locked, Same, Gets
  <1>6. CASE Returned(s)
    <2>1. req'[s].floor = req[s].floor /\ req'[s].pc = "returned"
      BY <1>6 DEF Returned
    <2>2. ASSUME NEW e \in entries, req[s].pc = "lookup", e.ns = req[s].ns,
                 e.gen >= req[s].marker
          PROVE  e.body >= req[s].floor
      BY <2>2 DEF Gets, Fresh
    <2>3. req'[s].version >= req'[s].floor
      BY <1>6, <2>1, <2>2 DEF Returned, Gets
    <2> QED
      BY <2>1, <2>3
  <1>7. CASE Mark(s)
    BY <1>7, MarkFacts DEF Requests
  <1> QED
    BY <1>2, <1>3, <1>4, <1>5, <1>6, <1>7, EveryMove DEF Moves

-----------------------------------------------------------------------------
\* The inductive invariant of the cache (above) holds in every reachable state.
THEOREM Invariance == Spec => []IInv
  <1>1. IInv /\ [Next]_vars => IInv'
    BY TypeStep, IssueStep, ShutStep, GetsStep DEF IInv
  <1> QED
    BY <1>1, InitIInv, PTL DEF Spec

\* The state keeps its types: a namespace has one entry, and the publication
\* lock belongs to the request that publishes or removes, so that no request is
\* left with a lock taken from it and no lock outlives its request.
THEOREM TypeCorrect == Spec => []TypeOK
  <1>1. IInv => TypeOK
    BY DEF IInv
  <1> QED
    BY <1>1, Invariance, PTL

\* What a GET returns is never older than a write that had returned, with its
\* invalidation in effect, before the GET began (getWithHeadersContext).
THEOREM ReadsAreNeverStale == Spec => []ReadsAreFresh
  <1>1. IInv => ReadsAreFresh
    BY DEF IInv, Gets, ReadsAreFresh
  <1> QED
    BY <1>1, Invariance, PTL

\* No cache file carries a generation that no invalidation has issued
\* (writeCacheAtGeneration, invalidateCache).
THEOREM GenerationsAreIssued == Spec => []NoFutureEntries
  <1>1. IInv => NoFutureEntries
    BY DEF IInv, Issue
  <1> QED
    BY <1>1, Invariance, PTL

\* The whole directory is removed only under a marker that cannot be read.
Purging == \A s \in Slots : req[s].pc = "purge" => damaged

LEMMA PurgingInvariant == Spec => []Purging
  <1>1. Init => Purging
    BY IdleType DEF Init, Purging
  <1>2. ASSUME IInv, Purging, [Next]_vars PROVE Purging'
    <2> SUFFICES ASSUME NEW t \in Slots, req'[t].pc = "purge" PROVE damaged'
      BY DEF Purging
    <2>1. damaged => damaged'
      BY <1>2 DEF Next, vars, BeginGet, Write, Hit, Fetch, FetchFails, BeginPublish, NotPublished,
             Rename, EndGet, GiveUp, Mark, MarkUnreadable, Remove, EndInvalidate, Exit, PowerLoss,
             IInv, TypeOK
    <2>2. req \in [Slots -> Requests]
      BY <1>2 DEF IInv, TypeOK
    <2>3. ASSUME NEW s \in Slots, MarkUnreadable(s) PROVE damaged'
      BY <2>3 DEF MarkUnreadable
    <2>4. CASE req'[t] = req[t]
      BY <1>2, <2>1, <2>4 DEF Purging
    <2>5. ASSUME NEW s \in Slots, req' = [req EXCEPT ![s] = req'[s]], req'[s].pc # "purge"
          PROVE  req'[t] = req[t]
      BY <2>2, <2>5
    <2>6. ASSUME NEW s \in Slots, NEW v, Return(s, v) PROVE req'[t] = req[t]
      <3>1. req'[s].pc = "returned" /\ req' = [req EXCEPT ![s] = req'[s]]
        BY <2>2, <2>6 DEF Return, Idle
      <3> QED
        BY <2>5, <3>1
    <2>7. ASSUME NEW s \in Slots, Hit(s) \/ NotPublished(s) \/ Rename(s) PROVE damaged'
      BY <2>4, <2>6, <2>7 DEF Hit, NotPublished, Rename
    <2>8. ASSUME NEW s \in Slots, Fetch(s) PROVE damaged'
      <3>1. CASE Return(s, library)
        BY <2>4, <2>6, <3>1
      <3>2. CASE req' = [req EXCEPT ![s].pc = "publish", ![s].version = library]
        <4>1. req'[s].pc = "publish" /\ req' = [req EXCEPT ![s] = req'[s]]
          BY <2>2, <3>2 DEF Requests
        <4> QED
          BY <2>4, <2>5, <4>1
      <3> QED
        BY <2>8, <3>1, <3>2 DEF Fetch
    <2>9. ASSUME NEW s \in Slots, FetchFails(s) \/ EndGet(s) \/ GiveUp(s) \/ EndInvalidate(s)
          PROVE  damaged'
      <3>1. req' = [req EXCEPT ![s] = Idle]
        BY <2>9 DEF FetchFails, EndGet, GiveUp, EndInvalidate, Over
      <3>2. req'[s].pc # "purge"
        BY <2>2, <3>1, IdleType
      <3> QED
        BY <2>2, <2>4, <3>1, <3>2
    <2>10. ASSUME NEW s \in Slots, BeginPublish(s) \/ Mark(s) PROVE damaged'
      <3>1. PICK place \in {"rename", "remove"} : req' = [req EXCEPT ![s].pc = place]
        BY <2>10 DEF BeginPublish, Mark, Goto
      <3>2. req'[s].pc # "purge" /\ req' = [req EXCEPT ![s] = req'[s]]
        BY <2>2, <3>1 DEF Requests
      <3> QED
        BY <2>4, <2>5, <3>2
    <2>11. ASSUME NEW s \in Slots, NEW p \in Processes, NEW n \in Namespaces,
                  BeginGet(s, p, n) \/ Write(s, p, n)
           PROVE  damaged'
      <3>1. req'[s].pc # "purge" /\ req' = [req EXCEPT ![s] = req'[s]]
        BY <2>2, <2>11 DEF BeginGet, Write, Idle
      <3> QED
        BY <2>4, <2>5, <3>1
    <2>12. ASSUME NEW P, Stop(P) PROVE req'[t] = req[t]
      <3>1. req'[t] \in {Idle, req[t]}
        BY <2>12 DEF Stop
      <3> QED
        BY <3>1, IdleType
    <2>13. ASSUME NEW s \in Slots, Remove(s) PROVE damaged'
      BY <2>4, <2>13 DEF Remove
    <2>14. CASE PowerLoss \/ \E p \in Processes : Exit(p)
      BY <2>4, <2>12, <2>14 DEF PowerLoss, Exit
    <2>15. CASE UNCHANGED vars
      BY <2>4, <2>15 DEF vars
    <2> QED
      BY <1>2, <2>3, <2>7, <2>8, <2>9, <2>10, <2>11, <2>13, <2>14, <2>15 DEF Next
  <1> QED
    BY <1>1, <1>2, Invariance, PTL DEF Spec

\* An entry in use is put out of use only by a write that reaches its namespace or
\* by a newer entry, as long as the marker can be read and the machine runs.
THEOREM ClearsAreSelective == Spec => SelectiveClear
  <1> DEFINE Kept ==
        \A e \in entries : InUse(e) /\ ~InUse(e)' =>
          \/ \E s \in Slots : /\ req[s].pc \in {"invalidate", "remove", "rename"}
                              /\ e.ns \in Targets[req[s].ns]
          \/ damaged \/ \A s \in Slots : req'[s] = Idle
  <1>1. ASSUME IInv, Purging, [Next]_vars PROVE Kept
    <2> SUFFICES ASSUME NEW e \in entries, InUse(e), ~(InUse(e)'), ~damaged
                 PROVE  \/ \E s \in Slots : /\ req[s].pc \in {"invalidate", "remove", "rename"}
                                            /\ e.ns \in Targets[req[s].ns]
                        \/ \A s \in Slots : req'[s] = Idle
      OBVIOUS
    <2>1. /\ e \in Entry /\ e.ns \in Namespaces
          /\ req \in [Slots -> Requests] /\ marker \in [Namespaces -> Nat]
      BY <1>1 DEF IInv, TypeOK, Entry
    <2>2. e \notin entries' \/ marker'[e.ns] # marker[e.ns]
      BY DEF InUse, Accepts
    <2>3. ASSUME NEW s \in Slots, Mark(s)
          PROVE  req[s].pc = "invalidate" /\ e.ns \in Targets[req[s].ns]
      <3>1. PICK g : marker' = Marked(s, g)
        BY <2>3 DEF Mark
      <3>2. marker'[e.ns] # marker[e.ns]
        BY <2>2, <2>3 DEF Mark
      <3> QED
        BY <2>1, <2>3, <3>1, <3>2 DEF Mark, Marked
    <2>4. ASSUME NEW s \in Slots, Rename(s)
          PROVE  req[s].pc = "rename" /\ e.ns \in Targets[req[s].ns]
      <3>1. e.ns = req[s].ns
        BY <2>2, <2>4 DEF Rename
      <3>2. req[s].ns \in Targets[req[s].ns]
        BY <2>1, CacheAssumption DEF Requests
      <3> QED
        BY <2>4, <3>1, <3>2 DEF Rename
    <2>5. ASSUME NEW s \in Slots, Remove(s)
          PROVE  req[s].pc = "remove" /\ e.ns \in Targets[req[s].ns]
      <3>1. req[s].pc # "purge"
        BY <1>1 DEF Purging
      <3> QED
        BY <2>2, <2>5, <3>1 DEF Remove
    <2>6. CASE PowerLoss
      BY <2>1, <2>6 DEF PowerLoss, Stop, Requests
    <2>7. CASE UNCHANGED <<entries, marker>>
      BY <2>2, <2>7
    <2> QED
      BY <1>1, <2>3, <2>4, <2>5, <2>6, <2>7
         DEF Next, vars, BeginGet, Write, Hit, Fetch, FetchFails, BeginPublish, NotPublished,
             EndGet, GiveUp, MarkUnreadable, EndInvalidate, Exit, Stop
  <1>2. IInv /\ Purging /\ [Next]_vars =>
          [\A e \in entries : InUse(e) /\ ~InUse(e)' =>
             \/ \E s \in Slots : /\ req[s].pc \in {"invalidate", "remove", "rename"}
                                   /\ e.ns \in Targets[req[s].ns]
             \/ damaged \/ \A s \in Slots : req'[s] = Idle]_vars
    BY <1>1
  <1> QED
    BY <1>2, Invariance, PurgingInvariant, PTL DEF Spec, SelectiveClear

-----------------------------------------------------------------------------
(* The two planes. *)

\* What becomes of an object o of snapshot i.
Follows(o, p, i) ==
    /\ o.ver <= p.ver
    /\ p.at = "never" => o.at = "never"
    /\ o.at = "erased" => p.at = "erased"
    /\ p = o \/ p.ver > i \/ p.at = "erased"

\* Snapshots only ever add to what was there, and nothing returns from erasure.
Chronicle ==
    /\ Version >= 1
    /\ \A i \in 1 .. Version, k \in Keys :
         /\ history[i][k].ver <= i
         /\ history[i][k].at = "never" => history[i][k].val = None
         /\ history[i][k].at # "never" => history[i][k].val \in Values /\ history[i][k].ver >= 1
         /\ \A j \in i .. Version : Follows(history[i][k], history[j][k], i)

Busy == {"fetch", "verify", "store", "sweep", "stamp"}

\* What a command and the workers of a sync hold.
Shapes ==
    /\ \A r \in Resources, k \in Keys : mirror[r][k] = NoRow \/ mirror[r][k].val \in Values
    /\ \A k \in Keys : pending[k].kind = "field" => pending[k].written \in Values
    /\ cmd.op \in Ops => cmd.key \in Keys
    /\ cmd.op \in {"create", "edit"} => cmd.val \in Values
    /\ cmd.ver <= Version
    /\ cmd.op # "sync" => \A r \in Resources : worker[r] = NoWorker
    /\ cmd.op = "sync" /\ cmd.full =>
         \A r \in Resources : worker[r].pc \notin {"done", "failed"} => worker[r].full

\* The pass of one worker, from its listing to its stamp.
Pass(r) ==
    LET w == worker[r] IN
    /\ w.pc \in Busy => w.since = IF w.full THEN 0 ELSE check[r]
    /\ w.pc = "verify" => ~w.full
    /\ w.pc \notin Busy => w.top = 0
    /\ w.pc # "store" => w.rows = {}
    /\ w.top <= Version
    /\ \A row \in w.rows :
         /\ row.key \in w.seen /\ row.ver > w.since /\ row.ver <= w.top
         /\ ~Suppressed(r, row.key)
         /\ \A row2 \in w.rows : row2.key = row.key => row2 = row
    /\ w.full /\ w.pc \in {"fetch", "store"} => \A k \in Keys : mirror[r][k].ver = 0

Passes == \A r \in Resources : Pass(r)

\* The values a key has had.
Known(k) == {history[i][k].val : i \in 1 .. Version} \cup {None}

\* The part of the inductive invariant that types the state.
Typed == PlanesTypeOK /\ Chronicle /\ Shapes /\ Passes

-----------------------------------------------------------------------------
LEMMA PlaneFacts ==
    /\ Resources = {"items", "items-trash"}
    /\ \A r \in Resources : Other(r) \in Resources /\ Other(r) # r /\ Other(Other(r)) = r
    /\ \A r, q \in Resources : q = r \/ q = Other(r)
    /\ Place("items") = "live" /\ Place("items-trash") = "trash"
    /\ \A r \in Resources : Place(r) \in {"live", "trash"} /\ Place(Other(r)) # Place(r)
  BY DEF Resources, Other, Place

LEMMA LibraryFacts ==
  ASSUME Typed
  PROVE  /\ history \in Seq([Keys -> Objects]) /\ Version \in Nat /\ Version >= 1 /\ Version <= MaxVersion
         /\ \A i \in 1 .. Version : history[i] \in [Keys -> Objects]
         /\ Version \in 1 .. Version /\ Cloud \in [Keys -> Objects]
         /\ desk \in 1 .. Version /\ desk \in Nat /\ desk >= 1 /\ Desk \in [Keys -> Objects]
         /\ MaxVersion \in Nat
<1>1. history \in Seq([Keys -> Objects]) /\ Version >= 1 /\ Version <= MaxVersion /\ desk \in 1 .. Version
  BY DEF Typed, PlanesTypeOK, Chronicle
<1>2. Version \in Nat /\ Version \in 1 .. Version /\ desk \in Nat /\ desk >= 1
  BY <1>1 DEF Version
<1>3. \A i \in 1 .. Version : history[i] \in [Keys -> Objects]
  BY <1>1 DEF Version
<1> QED  BY <1>1, <1>2, <1>3, PendingWritesAssumption DEF Cloud, Desk

LEMMA ObjectFacts ==
  ASSUME Typed, NEW i \in 1 .. Version, NEW k \in Keys
  PROVE  /\ history[i][k] \in Objects /\ history[i][k].ver \in Nat /\ history[i][k].ver <= i
         /\ history[i][k].at \in {"never", "live", "trash", "erased"}
         /\ history[i][k].val \in Values \cup {None}
         /\ history[i][k].at = "never" => history[i][k].val = None
         /\ history[i][k].at # "never" => history[i][k].val \in Values /\ history[i][k].ver >= 1
         /\ \A j \in i .. Version : Follows(history[i][k], history[j][k], i)
<1>1. history[i][k] \in Objects
  BY LibraryFacts
<1>2. /\ history[i][k].ver \in Nat /\ history[i][k].at \in {"never", "live", "trash", "erased"}
      /\ history[i][k].val \in Values \cup {None}
  BY <1>1 DEF Objects
<1> QED  BY <1>1, <1>2 DEF Typed, Chronicle

LEMMA NoneIsNoValue == None \notin Values
  BY PendingWritesAssumption

LEMMA RowFacts ==
  ASSUME Typed, NEW r \in Resources, NEW k \in Keys
  PROVE  /\ mirror \in [Resources -> [Keys -> Rows]] /\ mirror[r] \in [Keys -> Rows]
         /\ mirror[r][k] \in Rows /\ mirror[r][k].val \in Values \cup {None} /\ mirror[r][k].ver \in Nat
         /\ mirror[r][k] = NoRow \/ mirror[r][k].val \in Values
         /\ mirror[r][k] = NoRow <=> mirror[r][k].val = None
<1>1. mirror \in [Resources -> [Keys -> Rows]] /\ mirror[r][k] \in Rows
  BY DEF Typed, PlanesTypeOK
<1>2. mirror[r][k].val \in Values \cup {None} /\ mirror[r][k].ver \in Nat
  BY <1>1 DEF Rows
<1>3. mirror[r][k] = NoRow \/ mirror[r][k].val \in Values
  BY DEF Typed, Shapes
<1>4. NoRow.val = None
  BY DEF NoRow
<1> QED  BY <1>1, <1>2, <1>3, <1>4, NoneIsNoValue

LEMMA MarkerFacts ==
  ASSUME Typed, NEW k \in Keys
  PROVE  /\ pending[k] \in Markers
         /\ pending[k].kind \in {"none", "create", "field", "deleted"}
         /\ pending[k].written \in Values \cup {None} /\ pending[k].was \in SUBSET Values
         /\ pending[k].old \in BOOLEAN
         /\ pending[k].kind = "field" => pending[k].written \in Values
         /\ pending[k].kind = "deleted" => mirror["items"][k] = NoRow
<1>1. pending[k] \in Markers
  BY DEF Typed, PlanesTypeOK
<1> QED  BY <1>1 DEF Markers, Typed, PlanesTypeOK, Shapes

LEMMA WorkerFacts ==
  ASSUME Typed, NEW r \in Resources
  PROVE  /\ worker[r] \in Workers
         /\ worker[r].pc \in {"idle", "begin", "fetch", "verify", "store", "sweep", "stamp", "done", "failed"}
         /\ worker[r].full \in BOOLEAN /\ worker[r].since \in Nat /\ worker[r].seen \in SUBSET Keys
         /\ worker[r].top \in Nat /\ worker[r].rows \in SUBSET [key : Keys, val : Values, ver : Nat]
         /\ Pass(r)
         /\ check[r] \in Nat /\ check[r] <= Version
<1>1. worker[r] \in Workers /\ check[r] \in 0 .. Version
  BY DEF Typed, PlanesTypeOK
<1> QED  BY <1>1, LibraryFacts DEF Workers, Typed, Passes

LEMMA ListedRowFacts ==
  ASSUME Typed, NEW r \in Resources, NEW row \in worker[r].rows
  PROVE  /\ row \in [key : Keys, val : Values, ver : Nat]
         /\ row.key \in Keys /\ row.val \in Values /\ row.ver \in Nat
         /\ worker[r].pc = "store" /\ row.key \in worker[r].seen
         /\ row.ver > worker[r].since /\ row.ver <= worker[r].top
         /\ ~Suppressed(r, row.key)
         /\ \A row2 \in worker[r].rows : row2.key = row.key => row2 = row
<1>1. row \in [key : Keys, val : Values, ver : Nat] /\ Pass(r)
  BY WorkerFacts
<1> QED  BY <1>1 DEF Pass

LEMMA CommandFacts ==
  ASSUME Typed
  PROVE  /\ cmd \in Commands /\ cmd.op \in Ops \cup {"idle", "sync"} /\ cmd.ver \in Nat
         /\ cmd.full \in BOOLEAN /\ cmd.ver <= Version
         /\ cmd.op \in Ops => cmd.key \in Keys
         /\ cmd.op \in {"create", "edit"} => cmd.val \in Values
         /\ cmd.op # "sync" => \A r \in Resources : worker[r] = NoWorker
         /\ cmd = NoCommand => cmd.op = "idle"
<1>1. cmd \in Commands
  BY DEF Typed, PlanesTypeOK
<1>2. cmd.op \in Ops \cup {"idle", "sync"} /\ cmd.ver \in Nat /\ cmd.full \in BOOLEAN
  BY <1>1 DEF Commands
<1> QED  BY <1>1, <1>2 DEF Typed, Shapes, NoCommand

-----------------------------------------------------------------------------
(* The library grows. *)

\* What an object becomes by a write to key k.
Becomes(j, op, k, v) ==
    \/ Cloud'[j] = Cloud[j] /\ (op # "erase" => j # k)
    \/ op = "erase" /\ Cloud[j].at # "never" /\ Cloud'[j] = [Cloud[j] EXCEPT !.at = "erased"]
    \/ /\ j = k /\ op # "erase"
       /\ Cloud'[j].ver = Version + 1 /\ Cloud'[j].val \in Values
       /\ Cloud'[j].at = IF op = "trash" THEN "trash" ELSE "live"
       /\ Cloud'[j].val = IF op \in {"create", "edit"} THEN v ELSE Cloud[j].val

LEMMA LandsFacts ==
  ASSUME Typed, NEW op \in Ops, NEW k \in Keys, NEW v \in Values, Lands(op, k, v)
  PROVE  /\ Version' = Version + 1 /\ Version' <= MaxVersion
         /\ history' \in Seq([Keys -> Objects])
         /\ \A i \in 1 .. Version : history'[i] = history[i]
         /\ Cloud' = history'[Version + 1]
         /\ \A j \in Keys : Becomes(j, op, k, v)
         /\ op = "erase" => \A j \in Family(k, Keys) : Cloud'[j].at \in {"never", "erased"}
         /\ op = "create" => Cloud[k].at = "never"
         /\ op = "create" /\ Parent[k] # None => Cloud[Parent[k]].at = "live"
         /\ op \in {"edit", "trash"} => Cloud[k].at = "live"
         /\ op = "restore" => Cloud[k].at = "trash"
         /\ op = "erase" => Cloud[k].at \in {"live", "trash"}
         /\ op = "edit" => "again" \in Risks \/ \A i \in 1 .. Version : v # history[i][k].val
<1>1. /\ history \in Seq([Keys -> Objects]) /\ Version \in Nat /\ Version >= 1
      /\ Cloud \in [Keys -> Objects] /\ MaxVersion \in Nat
  BY LibraryFacts
<1>2. Version < MaxVersion /\ Possible(op, k, v) /\ history' = Append(history, Outcome(op, k, v))
  BY DEF Lands
<1>3. \A j \in Keys : Cloud[j] \in Objects /\ Cloud[j].ver \in Nat
  BY <1>1 DEF Objects
<1>4. /\ op = "create" => Cloud[k].at = "never"
      /\ op = "create" /\ Parent[k] # None => Cloud[Parent[k]].at = "live"
      /\ op \in {"edit", "trash"} => Cloud[k].at = "live"
      /\ op = "restore" => Cloud[k].at = "trash"
      /\ op = "erase" => Cloud[k].at \in {"live", "trash"}
  BY <1>2 DEF Possible
<1>5. Cloud[k].at \in {"live", "trash"} => Cloud[k].val \in Values
  BY LibraryFacts, ObjectFacts DEF Cloud
<1> DEFINE out == Outcome(op, k, v)
           obj(at, val) == [at |-> at, val |-> val, ver |-> Version + 1]
<1>6. /\ out \in [Keys -> Objects]
      /\ \A j \in Keys :
           \/ out[j] = Cloud[j] /\ (op # "erase" => j # k)
           \/ op = "erase" /\ Cloud[j].at # "never" /\ out[j] = [Cloud[j] EXCEPT !.at = "erased"]
           \/ /\ j = k /\ op # "erase"
              /\ out[j].ver = Version + 1 /\ out[j].val \in Values
              /\ out[j].at = IF op = "trash" THEN "trash" ELSE "live"
              /\ out[j].val = IF op \in {"create", "edit"} THEN v ELSE Cloud[j].val
      /\ op = "erase" => \A j \in Family(k, Keys) : out[j].at \in {"never", "erased"}
  <2>0. \A val \in Values : obj("live", val) \in Objects /\ obj("trash", val) \in Objects
    BY <1>1 DEF Objects
  <2>1. CASE op \in {"create", "edit"}
    <3>1. out = [Cloud EXCEPT ![k] = obj("live", v)]
      BY <2>1 DEF Outcome
    <3>2. out[k] = obj("live", v) /\ \A j \in Keys : j # k => out[j] = Cloud[j]
      BY <1>1, <3>1
    <3>3. out \in [Keys -> Objects]
      BY <1>1, <2>0, <3>1
    <3> HIDE DEF out
    <3> QED  BY <2>1, <3>2, <3>3
  <2>2. CASE op = "trash"
    <3>1. out = [Cloud EXCEPT ![k] = obj("trash", Cloud[k].val)]
      BY <2>2 DEF Outcome
    <3>2. out[k] = obj("trash", Cloud[k].val) /\ \A j \in Keys : j # k => out[j] = Cloud[j]
      BY <1>1, <3>1
    <3>3. out \in [Keys -> Objects]
      BY <1>1, <1>4, <1>5, <2>0, <2>2, <3>1
    <3> HIDE DEF out
    <3> QED  BY <1>4, <1>5, <2>2, <3>2, <3>3
  <2>3. CASE op = "restore"
    <3>1. out = [Cloud EXCEPT ![k] = obj("live", Cloud[k].val)]
      BY <2>3 DEF Outcome
    <3>2. out[k] = obj("live", Cloud[k].val) /\ \A j \in Keys : j # k => out[j] = Cloud[j]
      BY <1>1, <3>1
    <3>3. out \in [Keys -> Objects]
      BY <1>1, <1>4, <1>5, <2>0, <2>3, <3>1
    <3> HIDE DEF out
    <3> QED  BY <1>4, <1>5, <2>3, <3>2, <3>3
  <2>4. CASE op = "erase"
    <3>1. out = [j \in Keys |-> IF j \in Family(k, Keys) /\ Cloud[j].at # "never"
                                THEN [Cloud[j] EXCEPT !.at = "erased"] ELSE Cloud[j]]
      BY <2>4 DEF Outcome
    <3>2. \A j \in Keys : [Cloud[j] EXCEPT !.at = "erased"] \in Objects
                          /\ [Cloud[j] EXCEPT !.at = "erased"].at = "erased"
      BY <1>3 DEF Objects
    <3>3. Family(k, Keys) \subseteq Keys
      BY DEF Family, Children
    <3>4. out \in [Keys -> Objects]
      BY <1>3, <3>1, <3>2
    <3> QED  BY <2>4, <3>1, <3>2, <3>3, <3>4
  <2> QED  BY <2>1, <2>2, <2>3, <2>4 DEF Ops
<1>7. /\ history' \in Seq([Keys -> Objects]) /\ Version' = Version + 1
      /\ \A i \in 1 .. Version : history'[i] = history[i]
      /\ history'[Version + 1] = out
  BY <1>1, <1>2, <1>6 DEF Version
<1>8. Cloud' = out
  BY <1>7 DEF Cloud
<1>9. op = "edit" => "again" \in Risks \/ \A i \in 1 .. Version : v # history[i][k].val
  BY DEF Lands
<1> HIDE DEF out
<1>10. Version' <= MaxVersion
  BY <1>1, <1>2, <1>7
<1>11. \A j \in Keys : Becomes(j, op, k, v)
  BY <1>6, <1>8 DEF Becomes
<1>12. op = "erase" => \A j \in Family(k, Keys) : Cloud'[j].at \in {"never", "erased"}
  BY <1>6, <1>8
<1> QED  BY <1>4, <1>7, <1>8, <1>9, <1>10, <1>11, <1>12

-----------------------------------------------------------------------------
(* What each step does, key by key. *)

TypesLibrary ==
    /\ history \in Seq([Keys -> Objects]) /\ Version <= MaxVersion
    /\ desk \in 1 .. Version /\ Chronicle
TypesMirror ==
    /\ mirror \in [Resources -> [Keys -> Rows]]
    /\ pending \in [Keys -> Markers] /\ buried \subseteq Keys
    /\ \A r \in Resources, k \in Keys : mirror[r][k] = NoRow \/ mirror[r][k].val \in Values
    /\ \A k \in Keys : pending[k].kind = "field" => pending[k].written \in Values
    /\ \A k \in Keys : pending[k].kind = "deleted" => mirror["items"][k] = NoRow
TypesCommand ==
    /\ cmd \in Commands /\ cmd.ver <= Version
    /\ cmd.op \in Ops => cmd.key \in Keys
    /\ cmd.op \in {"create", "edit"} => cmd.val \in Values
TypesWorkers ==
    /\ worker \in [Resources -> Workers] /\ check \in [Resources -> 0 .. Version]
    /\ cmd.op # "sync" => \A r \in Resources : worker[r] = NoWorker
    /\ cmd.op = "sync" /\ cmd.full =>
         \A r \in Resources : worker[r].pc \notin {"done", "failed"} => worker[r].full
    /\ \A r \in Resources : Pass(r)
TypesCounts ==
    /\ syncs \in 0 .. MaxSyncs /\ ages \in 0 .. MaxAges /\ backups \in 0 .. MaxBackups
    /\ wrote \in [Keys -> 0 .. Version] /\ purged \subseteq Keys /\ moved \in BOOLEAN

LEMMA TypedParts == Typed <=> TypesLibrary /\ TypesMirror /\ TypesCommand /\ TypesWorkers /\ TypesCounts
  BY DEF Typed, TypesLibrary, TypesMirror, TypesCommand, TypesWorkers, TypesCounts,
         PlanesTypeOK, Shapes, Passes

LEMMA PartsNext ==
  ASSUME TypesLibrary', TypesMirror', TypesCommand', TypesWorkers', TypesCounts'
  PROVE  Typed'
  BY DEF Typed, TypesLibrary, TypesMirror, TypesCommand, TypesWorkers, TypesCounts,
         PlanesTypeOK, Shapes, Passes

LEMMA RecordTypes ==
    /\ NoRow \in Rows /\ NoRow.val = None /\ NoRow.ver = 0
    /\ NoMarker \in Markers /\ NoMarker.kind = "none" /\ NoMarker.written = None
    /\ NoMarker.was = {} /\ NoMarker.old = FALSE
    /\ Deleted \in Markers /\ Deleted.kind = "deleted" /\ Deleted.was = {} /\ Deleted.written = None
    /\ NoCommand \in Commands /\ NoCommand.op = "idle" /\ NoCommand.ver = 0 /\ ~NoCommand.full
    /\ NoWorker \in Workers /\ NoWorker.pc = "idle" /\ ~NoWorker.full /\ NoWorker.rows = {}
    /\ NoWorker.seen = {} /\ NoWorker.top = 0 /\ NoWorker.since = 0
  BY DEF NoRow, Rows, NoMarker, Markers, Deleted, NoCommand, Commands, NoWorker, Workers

LEMMA QuietLibrary ==
  ASSUME Typed, history' = history
  PROVE  /\ Version' = Version /\ Cloud' = Cloud /\ Chronicle'
         /\ desk' = desk => Desk' = Desk /\ TypesLibrary'
         /\ desk' \in 1 .. Version => TypesLibrary'
<1>1. Version' = Version /\ Cloud' = Cloud /\ (desk' = desk => Desk' = Desk)
  BY DEF Version, Cloud, Desk
<1>2. Chronicle'
  BY <1>1 DEF Chronicle, Typed
<1> QED  BY <1>1, <1>2, TypedParts DEF TypesLibrary

LEMMA CreateView ==
  ASSUME Typed, MirrorCreate
  PROVE  /\ cmd.op = "create" /\ cmd' = NoCommand /\ cmd.key \in Keys /\ cmd.val \in Values
         /\ \A q \in Resources, j \in Keys :
              mirror'[q][j] = IF q = "items" /\ j = cmd.key THEN [val |-> cmd.val, ver |-> 0]
                              ELSE mirror[q][j]
         /\ \A j \in Keys : pending'[j] = IF j = cmd.key THEN [NoMarker EXCEPT !.kind = "create"]
                                          ELSE pending[j]
         /\ \A j \in Keys : wrote'[j] = IF j = cmd.key THEN cmd.ver ELSE wrote[j]
         /\ buried' = buried \ {cmd.key}
         /\ UNCHANGED <<history, desk, check, worker, syncs, ages, backups, purged, moved>>
         /\ TypesMirror' /\ wrote' \in [Keys -> 0 .. Version]
<1>1. cmd.op = "create" /\ cmd' = NoCommand /\ cmd.key \in Keys /\ cmd.val \in Values /\ cmd.ver \in 0 .. Version
  BY CommandFacts, LibraryFacts DEF MirrorCreate, Replayed, Ops
<1>2. /\ mirror \in [Resources -> [Keys -> Rows]] /\ pending \in [Keys -> Markers] /\ wrote \in [Keys -> 0 .. Version]
      /\ TypesMirror /\ "items" \in Resources
  BY TypedParts, PlaneFacts DEF TypesMirror, TypesCounts
<1> DEFINE row == [val |-> cmd.val, ver |-> 0]
           mark == [NoMarker EXCEPT !.kind = "create"]
<1>3. row \in Rows /\ row.val \in Values
  BY <1>1 DEF Rows
<1>4. mark \in Markers /\ mark.kind = "create"
  BY DEF NoMarker, Markers
<1>5. /\ mirror' = [mirror EXCEPT !["items"][cmd.key] = row]
      /\ pending' = [pending EXCEPT ![cmd.key] = mark]
      /\ wrote' = [wrote EXCEPT ![cmd.key] = cmd.ver]
      /\ buried' = buried \ {cmd.key}
      /\ UNCHANGED <<history, desk, check, worker, syncs, ages, backups, purged, moved>>
  BY DEF MirrorCreate, planes, bounds
<1> HIDE DEF row, mark
<1>6. /\ mirror' \in [Resources -> [Keys -> Rows]]
      /\ \A q \in Resources, j \in Keys :
              mirror'[q][j] = IF q = "items" /\ j = cmd.key THEN row ELSE mirror[q][j]
  BY <1>1, <1>2, <1>3, <1>5
<1>7. /\ pending' \in [Keys -> Markers] /\ wrote' \in [Keys -> 0 .. Version]
      /\ \A j \in Keys : pending'[j] = IF j = cmd.key THEN mark ELSE pending[j]
      /\ \A j \in Keys : wrote'[j] = IF j = cmd.key THEN cmd.ver ELSE wrote[j]
  BY <1>1, <1>2, <1>4, <1>5
<1>8. TypesMirror'
  BY <1>2, <1>3, <1>4, <1>5, <1>6, <1>7 DEF TypesMirror
<1> USE DEF row, mark
<1> QED  BY <1>1, <1>5, <1>6, <1>7, <1>8

LEMMA EditView ==
  ASSUME Typed, MirrorEdit
  PROVE  /\ cmd.op = "edit" /\ cmd' = NoCommand /\ cmd.key \in Keys /\ cmd.val \in Values
         /\ LET k == cmd.key
                old == mirror["items"][k]
            IN \/ old = NoRow /\ UNCHANGED <<mirror, pending, wrote>>
               \/ /\ old # NoRow
                  /\ \A q \in Resources, j \in Keys :
                       mirror'[q][j] = IF q = "items" /\ j = k THEN [val |-> cmd.val, ver |-> 0]
                                       ELSE mirror[q][j]
                  /\ \A j \in Keys : j # k => pending'[j] = pending[j]
                  /\ pending'[k] = Merged(pending[k], cmd.val, old.val)
                  /\ pending[k].kind = "create" => pending'[k].kind = "create" /\ pending'[k].was = pending[k].was
                                                   /\ pending'[k].written = pending[k].written
                  /\ pending[k].kind # "create" =>
                       /\ pending'[k].kind = "field" /\ pending'[k].written = cmd.val
                       /\ pending'[k].was = IF pending[k].kind = "none" THEN {old.val}
                                            ELSE {old.val, pending[k].written} \cup pending[k].was
                  /\ \A j \in Keys : wrote'[j] = IF j = k THEN cmd.ver ELSE wrote[j]
         /\ UNCHANGED <<history, desk, buried, check, worker, syncs, ages, backups, purged, moved>>
         /\ TypesMirror' /\ wrote' \in [Keys -> 0 .. Version]
<1>1. cmd.op = "edit" /\ cmd' = NoCommand /\ cmd.key \in Keys /\ cmd.val \in Values /\ cmd.ver \in 0 .. Version
  BY CommandFacts, LibraryFacts DEF MirrorEdit, Replayed, Ops
<1>2. /\ mirror \in [Resources -> [Keys -> Rows]] /\ pending \in [Keys -> Markers] /\ wrote \in [Keys -> 0 .. Version]
      /\ TypesMirror /\ "items" \in Resources
  BY TypedParts, PlaneFacts DEF TypesMirror, TypesCounts
<1> DEFINE k == cmd.key
           row == [val |-> cmd.val, ver |-> 0]
           old == mirror["items"][k]
           mark == Merged(pending[k], cmd.val, old.val)
<1>3. UNCHANGED <<history, desk, buried, check, worker, syncs, ages, backups, purged, moved>>
  BY DEF MirrorEdit, planes, bounds
<1>4. CASE old = NoRow
  <2>1. UNCHANGED <<mirror, pending, wrote>>
    BY <1>4 DEF MirrorEdit
  <2>2. TypesMirror'
    BY <1>2, <1>3, <2>1 DEF TypesMirror
  <2> QED  BY <1>1, <1>2, <1>3, <1>4, <2>1, <2>2
<1>5. CASE old # NoRow
  <2>1. /\ mirror' = [mirror EXCEPT !["items"][k] = row]
        /\ pending' = [pending EXCEPT ![k] = mark]
        /\ wrote' = [wrote EXCEPT ![k] = cmd.ver]
    BY <1>2, <1>5 DEF MirrorEdit
  <2>2. row \in Rows /\ row.val \in Values
    BY <1>1 DEF Rows
  <2>3. old.val \in Values
    BY <1>1, <1>2, <1>5, RowFacts
  <2>4. /\ pending[k] \in Markers /\ pending[k].kind \in {"none", "create", "field"}
        /\ pending[k].was \in SUBSET Values
        /\ pending[k].kind = "field" => pending[k].written \in Values
    BY <1>1, <1>5, MarkerFacts
  <2>5. /\ mark \in Markers
        /\ pending[k].kind = "create" => mark.kind = "create" /\ mark.was = pending[k].was /\ mark.written = pending[k].written
        /\ pending[k].kind # "create" =>
             /\ mark.kind = "field" /\ mark.written = cmd.val
             /\ mark.was = IF pending[k].kind = "none" THEN {old.val}
                           ELSE {old.val, pending[k].written} \cup pending[k].was
    <3>1. CASE pending[k].kind = "create"
      <4>1. mark = [pending[k] EXCEPT !.old = FALSE]
        BY <3>1 DEF Merged
      <4> QED  BY <2>4, <3>1, <4>1 DEF Markers
    <3>2. CASE pending[k].kind = "none"
      <4>1. mark = [kind |-> "field", written |-> cmd.val, was |-> {old.val}, old |-> FALSE]
        BY <3>2 DEF Merged
      <4>2. {old.val} \in SUBSET Values
        BY <2>3
      <4> QED  BY <1>1, <2>4, <3>2, <4>1, <4>2 DEF Markers
    <3>3. CASE pending[k].kind = "field"
      <4>1. mark = [kind |-> "field", written |-> cmd.val, old |-> FALSE,
                    was |-> {old.val, pending[k].written} \cup pending[k].was]
        BY <3>3 DEF Merged
      <4>2. {old.val, pending[k].written} \cup pending[k].was \in SUBSET Values
        BY <2>3, <2>4, <3>3
      <4> HIDE DEF old, k
      <4> QED  BY <1>1, <2>4, <3>3, <4>1, <4>2 DEF Markers
    <3> QED  BY <2>4, <3>1, <3>2, <3>3
  <2> HIDE DEF row, mark
  <2>6. /\ mirror' \in [Resources -> [Keys -> Rows]]
        /\ \A q \in Resources, j \in Keys :
              mirror'[q][j] = IF q = "items" /\ j = k THEN row ELSE mirror[q][j]
    BY <1>1, <1>2, <2>1, <2>2
  <2>7. /\ pending' \in [Keys -> Markers] /\ wrote' \in [Keys -> 0 .. Version]
        /\ \A j \in Keys : j # k => pending'[j] = pending[j]
        /\ pending'[k] = mark
        /\ \A j \in Keys : wrote'[j] = IF j = k THEN cmd.ver ELSE wrote[j]
    BY <1>1, <1>2, <2>1, <2>5
  <2>8. TypesMirror'
    <3>1. pending'[k].kind # "deleted" /\ (pending'[k].kind = "field" => pending'[k].written \in Values)
      BY <1>1, <2>4, <2>5, <2>7
    <3> QED  BY <1>2, <1>3, <2>2, <2>6, <2>7, <3>1 DEF TypesMirror
  <2> USE DEF row, mark
  <2> QED  BY <1>1, <1>3, <1>5, <2>5, <2>6, <2>7, <2>8
<1> QED  BY <1>4, <1>5
LEMMA TrashView ==
  ASSUME Typed, MirrorTrash
  PROVE  /\ cmd.op = "trash" /\ cmd' = NoCommand /\ cmd.key \in Keys
         /\ \A q \in Resources, j \in Keys :
              \/ mirror'[q][j] = mirror[q][j]
              \/ /\ q = "items-trash" /\ j = cmd.key /\ mirror'[q][j] = mirror["items"][j]
                 /\ mirror["items"][j] # NoRow
         /\ UNCHANGED <<history, desk, pending, buried, check, worker, syncs, ages, backups, wrote, purged, moved>>
         /\ TypesMirror'
<1>1. cmd.op = "trash" /\ cmd' = NoCommand /\ cmd.key \in Keys
  BY CommandFacts DEF MirrorTrash, Replayed, Ops
<1>2. mirror \in [Resources -> [Keys -> Rows]] /\ TypesMirror /\ "items" \in Resources /\ "items-trash" \in Resources
  BY TypedParts, PlaneFacts DEF TypesMirror
<1>3. UNCHANGED <<history, desk, pending, buried, check, worker, syncs, ages, backups, wrote, purged, moved>>
  BY DEF MirrorTrash, planes, bounds, ghosts
<1> DEFINE row == mirror["items"][cmd.key]
<1>4. \/ mirror' = mirror
      \/ row # NoRow /\ mirror' = [mirror EXCEPT !["items-trash"][cmd.key] = row]
  BY DEF MirrorTrash
<1>5. row \in Rows /\ (row # NoRow => row.val \in Values)
  BY <1>1, <1>2, RowFacts
<1>6. /\ mirror' \in [Resources -> [Keys -> Rows]]
      /\ \A q \in Resources, j \in Keys :
              \/ mirror'[q][j] = mirror[q][j]
              \/ q = "items-trash" /\ j = cmd.key /\ mirror'[q][j] = row /\ row # NoRow
  <2>1. CASE mirror' = mirror
    BY <1>2, <2>1
  <2>2. CASE row # NoRow /\ mirror' = [mirror EXCEPT !["items-trash"][cmd.key] = row]
    <3> HIDE DEF row
    <3> QED  BY <1>1, <1>2, <1>5, <2>2
  <2> QED  BY <1>4, <2>1, <2>2
<1>7. TypesMirror'
  BY <1>2, <1>3, <1>5, <1>6 DEF TypesMirror
<1> QED  BY <1>1, <1>3, <1>6, <1>7

LEMMA RestoreView ==
  ASSUME Typed, MirrorRestore
  PROVE  /\ cmd.op = "restore" /\ cmd' = NoCommand /\ cmd.key \in Keys
         /\ \A j \in Keys : mirror'["items-trash"][j] = IF j = cmd.key THEN NoRow ELSE mirror["items-trash"][j]
         /\ \A j \in Keys : j # cmd.key => mirror'["items"][j] = mirror["items"][j] /\ wrote'[j] = wrote[j]
         /\ \/ UNCHANGED wrote /\ mirror'["items"][cmd.key] = mirror["items"][cmd.key]
            \/ /\ wrote'[cmd.key] = 0 /\ mirror["items"][cmd.key] = NoRow
               /\ mirror["items-trash"][cmd.key] # NoRow
               /\ mirror'["items"][cmd.key] = [val |-> mirror["items-trash"][cmd.key].val, ver |-> 0]
         /\ buried' = buried \ {cmd.key}
         /\ UNCHANGED <<history, desk, pending, check, worker, syncs, ages, backups, purged, moved>>
         /\ wrote' \in [Keys -> 0 .. Version]
         /\ mirror' \in [Resources -> [Keys -> Rows]]
         /\ \A r \in Resources, k \in Keys : mirror'[r][k] = NoRow \/ mirror'[r][k].val \in Values
<1>1. cmd.op = "restore" /\ cmd' = NoCommand /\ cmd.key \in Keys
  BY CommandFacts DEF MirrorRestore, Replayed, Ops
<1>2. /\ mirror \in [Resources -> [Keys -> Rows]] /\ TypesMirror /\ Resources = {"items", "items-trash"}
      /\ wrote \in [Keys -> 0 .. Version] /\ 0 \in 0 .. Version
  BY TypedParts, PlaneFacts, LibraryFacts DEF TypesMirror, TypesCounts
<1>3. /\ buried' = buried \ {cmd.key}
      /\ UNCHANGED <<history, desk, pending, check, worker, syncs, ages, backups, purged, moved>>
  BY DEF MirrorRestore, planes, bounds
<1> DEFINE k == cmd.key
           kept == mirror["items-trash"][k]
           rebuilt == mirror["items"][k] = NoRow /\ kept # NoRow
           live == IF rebuilt THEN [val |-> kept.val, ver |-> 0] ELSE mirror["items"][k]
<1>4. /\ mirror' = [mirror EXCEPT !["items-trash"][k] = NoRow,
                          !["items"][k] = IF rebuilt THEN [val |-> kept.val, ver |-> 0] ELSE @]
      /\ wrote' = IF rebuilt THEN [wrote EXCEPT ![k] = 0] ELSE wrote
  BY DEF MirrorRestore
<1>5. /\ kept \in Rows /\ mirror["items"][k] \in Rows /\ (kept # NoRow => kept.val \in Values)
      /\ (mirror["items"][k] # NoRow => mirror["items"][k].val \in Values)
  BY <1>1, <1>2, RowFacts
<1>6. live \in Rows /\ (live = NoRow \/ live.val \in Values)
  <2>1. CASE rebuilt
    <3>1. live = [val |-> kept.val, ver |-> 0]
      BY <2>1
    <3>2. kept.val \in Values
      BY <1>5, <2>1
    <3> QED  BY <3>1, <3>2 DEF Rows
  <2>2. CASE ~rebuilt
    BY <1>5, <2>2
  <2> QED  BY <2>1, <2>2
<1>7. mirror' = [mirror EXCEPT !["items-trash"][k] = NoRow, !["items"][k] = live]
  <2>1. [mirror EXCEPT !["items-trash"][k] = NoRow]["items"][k] = mirror["items"][k]
    BY <1>2
  <2> QED  BY <1>2, <1>4, <2>1
<1>8. wrote' \in [Keys -> 0 .. Version] /\ (rebuilt => wrote'[k] = 0) /\ (~rebuilt => wrote' = wrote)
      /\ \A j \in Keys : j # k => wrote'[j] = wrote[j]
  BY <1>1, <1>2, <1>4
<1>9. /\ mirror' \in [Resources -> [Keys -> Rows]]
      /\ \A j \in Keys : mirror'["items-trash"][j] = IF j = k THEN NoRow ELSE mirror["items-trash"][j]
      /\ \A j \in Keys : mirror'["items"][j] = IF j = k THEN live ELSE mirror["items"][j]
  <2> HIDE DEF live, k
  <2>1. k \in Keys /\ NoRow \in Rows
    BY <1>1, RecordTypes DEF k
  <2> QED  BY <1>2, <1>6, <1>7, <2>1
<1>10. \A r \in Resources, j \in Keys : mirror'[r][j] = NoRow \/ mirror'[r][j].val \in Values
  BY <1>2, <1>6, <1>9 DEF TypesMirror
<1> QED  BY <1>1, <1>3, <1>8, <1>9, <1>10

LEMMA EraseView ==
  ASSUME Typed, MirrorErase
  PROVE  /\ cmd.op = "erase" /\ cmd' = NoCommand /\ cmd.key \in Keys
         /\ Reaped(cmd.key) \subseteq Family(cmd.key, Keys) /\ Reaped(cmd.key) \subseteq Keys
         /\ cmd.key \in Reaped(cmd.key)
         /\ \A j \in Reaped(cmd.key) : j = cmd.key \/ \E r \in Resources : mirror[r][j] # NoRow
         /\ \A q \in Resources, j \in Keys :
              mirror'[q][j] = IF j \in Reaped(cmd.key) THEN NoRow ELSE mirror[q][j]
         /\ \A j \in Keys : pending'[j] = IF j \in Reaped(cmd.key) THEN Deleted ELSE pending[j]
         /\ buried' = buried \cup Reaped(cmd.key)
         /\ purged' = purged \cup Reaped(cmd.key)
         /\ UNCHANGED <<history, desk, check, worker, syncs, ages, backups, wrote, moved>>
         /\ TypesMirror' /\ purged' \subseteq Keys
<1>1. cmd.op = "erase" /\ cmd' = NoCommand /\ cmd.key \in Keys
  BY CommandFacts DEF MirrorErase, Replayed, Ops
<1>2. /\ mirror \in [Resources -> [Keys -> Rows]] /\ pending \in [Keys -> Markers] /\ TypesMirror
      /\ purged \subseteq Keys
  BY TypedParts DEF TypesMirror, TypesCounts
<1> DEFINE gone == Reaped(cmd.key)
<1>3. /\ mirror' = [r \in Resources |-> [k \in Keys |-> IF k \in gone THEN NoRow ELSE mirror[r][k]]]
      /\ pending' = [k \in Keys |-> IF k \in gone THEN Deleted ELSE pending[k]]
      /\ buried' = buried \cup gone /\ purged' = purged \cup gone
      /\ UNCHANGED <<history, desk, check, worker, syncs, ages, backups, wrote, moved>>
  BY DEF MirrorErase, planes, bounds, Reaped
<1>4. /\ gone \subseteq Family(cmd.key, Keys) /\ gone \subseteq Keys /\ cmd.key \in gone
      /\ \A j \in gone : j = cmd.key \/ \E r \in Resources : mirror[r][j] # NoRow
  BY <1>1 DEF Reaped, Family, Children, Mirrored
<1> HIDE DEF gone
<1>5. /\ mirror' \in [Resources -> [Keys -> Rows]]
      /\ \A q \in Resources, j \in Keys :
              mirror'[q][j] = IF j \in gone THEN NoRow ELSE mirror[q][j]
  BY <1>2, <1>3, RecordTypes
<1>6. /\ pending' \in [Keys -> Markers]
      /\ \A j \in Keys : pending'[j] = IF j \in gone THEN Deleted ELSE pending[j]
  BY <1>2, <1>3, RecordTypes
<1>7. TypesMirror'
  <2>1. "items" \in Resources
    BY PlaneFacts
  <2> QED  BY <1>2, <1>3, <1>4, <1>5, <1>6, <2>1, RecordTypes DEF TypesMirror
<1>8. purged' \subseteq Keys
  BY <1>2, <1>3, <1>4
<1> USE DEF gone
<1> QED  BY <1>1, <1>3, <1>4, <1>5, <1>6, <1>7, <1>8

LEMMA AgeView ==
  ASSUME Typed, Age
  PROVE  /\ pending' \in [Keys -> Markers]
         /\ \A j \in Keys : /\ pending'[j].kind = pending[j].kind
                            /\ pending'[j].written = pending[j].written
                            /\ pending'[j].was = pending[j].was
         /\ ages' \in 0 .. MaxAges
         /\ UNCHANGED <<history, desk, mirror, buried, check, cmd, worker, syncs, backups, wrote, purged, moved>>
         /\ TypesMirror'
<1>1. ages \in 0 .. MaxAges /\ MaxAges \in Nat /\ TypesMirror /\ pending \in [Keys -> Markers]
  BY TypedParts, PendingWritesAssumption DEF TypesMirror, TypesCounts
<1>2. /\ ages < MaxAges /\ ages' = ages + 1
      /\ pending' = [k \in Keys |-> IF pending[k].kind \in {"create", "field"}
                                    THEN [pending[k] EXCEPT !.old = TRUE] ELSE pending[k]]
      /\ UNCHANGED <<history, desk, mirror, buried, check, cmd, worker, syncs, backups, wrote, purged, moved>>
  BY DEF Age, planes, ghosts
<1>3. \A j \in Keys : LET m == [pending[j] EXCEPT !.old = TRUE] IN
         m \in Markers /\ m.kind = pending[j].kind /\ m.written = pending[j].written /\ m.was = pending[j].was
  BY <1>1 DEF Markers
<1>4. /\ pending' \in [Keys -> Markers]
      /\ \A j \in Keys : /\ pending'[j].kind = pending[j].kind
                            /\ pending'[j].written = pending[j].written
                            /\ pending'[j].was = pending[j].was
  BY <1>1, <1>2, <1>3
<1>5. TypesMirror'
  BY <1>1, <1>2, <1>4 DEF TypesMirror
<1> QED  BY <1>1, <1>2, <1>4, <1>5

-----------------------------------------------------------------------------
(* The largest of finitely many versions. *)

Below == {p \in Nat \X Nat : p[1] < p[2]}

LEMMA BelowIsWellFounded == IsWellFoundedOn(Below, Nat)
  BY NatLessThanWellFounded, Zenon DEF OpToRel, Below

LEMMA MaxIsLast ==
  ASSUME NEW n \in Nat, NEW S \in SUBSET (0 .. n), S # {}
  PROVE  Max(S) \in S /\ \A y \in S : Max(S) >= y
<1> DEFINE T == {n - x : x \in S}
<1>1. T \subseteq Nat /\ T # {}
  <2>1. \A x \in S : n - x \in Nat
    OBVIOUS
  <2>2. PICK x \in S : TRUE
    OBVIOUS
  <2>3. n - x \in T
    BY <2>2
  <2> QED  BY <2>1, <2>3
<1>2. PICK t \in T : \A y \in T : ~(<<y, t>> \in Below)
  BY <1>1, BelowIsWellFounded, WFMin
<1>3. PICK m \in S : t = n - m
  OBVIOUS
<1>4. ASSUME NEW y \in S PROVE m >= y
  <2>1. n - y \in T /\ n - y \in Nat /\ t \in Nat
    BY <1>1
  <2>2. ~(n - y < t)
    BY <1>2, <2>1 DEF Below
  <2> QED  BY <1>3, <2>1, <2>2
<1> QED  BY <1>4 DEF Max

LEMMA MaxOfTwo ==
  ASSUME NEW a \in Nat, NEW b \in Nat
  PROVE  Max({a, b}) = IF a <= b THEN b ELSE a
<1> DEFINE m == IF a <= b THEN b ELSE a
<1>1. m \in {a, b} /\ \A y \in {a, b} : m >= y
  OBVIOUS
<1>2. \A x \in {a, b} : (\A y \in {a, b} : x >= y) => x = m
  OBVIOUS
<1> QED  BY <1>1, <1>2 DEF Max

\* What the desktop lists.
LEMMA ListedFacts ==
  ASSUME Typed, NEW r \in Resources, NEW since \in Nat
  PROVE  LET rows == Listed(r, since) IN
         /\ \A row \in rows : /\ row.key \in Keys /\ Desk[row.key].at = Place(r)
                              /\ row.val = Desk[row.key].val /\ row.ver = Desk[row.key].ver
                              /\ row.val \in Values /\ row.ver \in Nat /\ row.ver > since
                              /\ row = [key |-> row.key, val |-> row.val, ver |-> row.ver]
         /\ \A k \in Keys : Desk[k].at = Place(r) /\ Desk[k].ver > since =>
              [key |-> k, val |-> Desk[k].val, ver |-> Desk[k].ver] \in rows
         /\ {row.key : row \in rows} = {k \in Keys : Desk[k].at = Place(r) /\ Desk[k].ver > since}
         /\ Top(rows) \in Nat /\ Top(rows) <= desk
         /\ \A row \in rows : row.ver <= Top(rows)
         /\ rows = {} => Top(rows) = 0
         /\ rows # {} => \E row \in rows : row.ver = Top(rows)
<1> DEFINE rows == Listed(r, since)
<1>1. /\ desk \in 1 .. Version /\ Desk \in [Keys -> Objects] /\ desk \in Nat
      /\ \A k \in Keys : Desk[k].ver \in Nat /\ Desk[k].ver <= desk
      /\ \A k \in Keys : Desk[k].at = Place(r) => Desk[k].val \in Values
  BY LibraryFacts, ObjectFacts, PlaneFacts DEF Desk
<1>2. /\ \A row \in rows : /\ row.key \in Keys /\ Desk[row.key].at = Place(r)
                           /\ row.val = Desk[row.key].val /\ row.ver = Desk[row.key].ver
                           /\ row.val \in Values /\ row.ver \in Nat /\ row.ver > since
                           /\ row = [key |-> row.key, val |-> row.val, ver |-> row.ver]
      /\ \A k \in Keys : Desk[k].at = Place(r) /\ Desk[k].ver > since =>
              [key |-> k, val |-> Desk[k].val, ver |-> Desk[k].ver] \in rows
  BY <1>1 DEF Listed
<1>3. {row.key : row \in rows} = {k \in Keys : Desk[k].at = Place(r) /\ Desk[k].ver > since}
  <2> HIDE DEF rows
  <2>1. ASSUME NEW k \in Keys, Desk[k].at = Place(r), Desk[k].ver > since
        PROVE  k \in {row.key : row \in rows}
    <3>1. PICK row \in rows : row = [key |-> k, val |-> Desk[k].val, ver |-> Desk[k].ver]
      BY <1>2, <2>1
    <3> QED  BY <3>1
  <2> QED  BY <1>2, <2>1
<1> DEFINE S == {0} \cup {row.ver : row \in rows}
<1>4. S \in SUBSET (0 .. desk) /\ S # {} /\ 0 \in S
  <2> HIDE DEF rows
  <2>1. \A row \in rows : row.ver \in 0 .. desk
    BY <1>1, <1>2
  <2> QED  BY <1>1, <2>1
<1>5. Top(rows) \in S /\ \A y \in S : Top(rows) >= y
  <2> HIDE DEF S
  <2>1. Max(S) \in S /\ \A y \in S : Max(S) >= y
    BY <1>1, <1>4, MaxIsLast
  <2> USE DEF S
  <2> QED  BY <2>1 DEF Top
<1> HIDE DEF rows
<1>6. Top(rows) \in Nat /\ Top(rows) <= desk /\ \A row \in rows : row.ver <= Top(rows)
  BY <1>1, <1>4, <1>5
<1>7. (rows = {} => Top(rows) = 0) /\ (rows # {} => \E row \in rows : row.ver = Top(rows))
  <2>1. CASE rows = {}
    BY <1>5, <2>1
  <2>2. CASE rows # {}
    <3>1. PICK row \in rows : TRUE
      BY <2>2
    <3>2. CASE Top(rows) = 0
      <4>1. row.ver \in Nat /\ row.ver <= 0
        BY <1>2, <1>6, <3>1, <3>2
      <4> QED  BY <2>2, <3>2, <4>1
    <3> QED  BY <1>5, <2>2, <3>2
  <2> QED  BY <2>1, <2>2
<1> USE DEF rows
<1> QED  BY <1>2, <1>3, <1>6, <1>7

-----------------------------------------------------------------------------
(* The steps of a sync. *)

LEMMA WorkerSet ==
  ASSUME Typed, NEW r \in Resources, NEW w \in Workers, worker' = [worker EXCEPT ![r] = w]
  PROVE  /\ worker' \in [Resources -> Workers] /\ worker'[r] = w
         /\ \A q \in Resources : q # r => worker'[q] = worker[q]
  BY TypedParts DEF TypesWorkers

\* The fields of worker r after a step that may change its place, its since,
\* its rows, what it saw and the version it met.
Works(r, pc, since, rows, seen, top) ==
    /\ worker' \in [Resources -> Workers]
    /\ \A q \in Resources : q # r => worker'[q] = worker[q]
    /\ worker'[r].pc = pc /\ worker'[r].full = worker[r].full /\ worker'[r].since = since
    /\ worker'[r].rows = rows /\ worker'[r].seen = seen /\ worker'[r].top = top

LEMMA WorksBy ==
  ASSUME Typed, NEW r \in Resources,
         NEW pc \in {"idle", "begin", "fetch", "verify", "store", "sweep", "stamp", "done", "failed"},
         NEW since \in Nat, NEW rows \in SUBSET [key : Keys, val : Values, ver : Nat],
         NEW seen \in SUBSET Keys, NEW top \in Nat,
         worker' = [worker EXCEPT ![r] = [pc |-> pc, full |-> worker[r].full, since |-> since,
                                          rows |-> rows, seen |-> seen, top |-> top]]
  PROVE  Works(r, pc, since, rows, seen, top)
<1> DEFINE w == [pc |-> pc, full |-> worker[r].full, since |-> since,
                 rows |-> rows, seen |-> seen, top |-> top]
<1>1. w \in Workers
  BY WorkerFacts DEF Workers
<1>2. /\ w.pc = pc /\ w.full = worker[r].full /\ w.since = since
      /\ w.rows = rows /\ w.seen = seen /\ w.top = top
  OBVIOUS
<1> HIDE DEF w
<1>3. worker' = [worker EXCEPT ![r] = w]
  BY DEF w
<1> QED  BY <1>1, <1>2, <1>3, WorkerSet DEF Works

LEMMA WorkerRecord ==
  ASSUME Typed, NEW r \in Resources
  PROVE  worker[r] = [pc |-> worker[r].pc, full |-> worker[r].full, since |-> worker[r].since,
                      rows |-> worker[r].rows, seen |-> worker[r].seen, top |-> worker[r].top]
  BY WorkerFacts DEF Workers

LEMMA PassBegun ==
  ASSUME NEW w \in Workers, NEW since \in Nat
  PROVE  [w EXCEPT !.pc = "fetch", !.since = since]
           = [pc |-> "fetch", full |-> w.full, since |-> since,
              rows |-> w.rows, seen |-> w.seen, top |-> w.top]
<1> DEFINE w1 == [w EXCEPT !.pc = "fetch"]
<1>1. w1 = [pc |-> "fetch", full |-> w.full, since |-> w.since,
            rows |-> w.rows, seen |-> w.seen, top |-> w.top]
  BY DEF Workers
<1> HIDE DEF w1
<1>2. [w1 EXCEPT !.since = since]
           = [pc |-> "fetch", full |-> w.full, since |-> since,
              rows |-> w.rows, seen |-> w.seen, top |-> w.top]
  BY <1>1
<1> QED  BY <1>2 DEF w1

LEMMA StartView ==
  ASSUME Typed, NEW full \in BOOLEAN, StartSync(full)
  PROVE  /\ cmd.op = "idle" /\ cmd'.op = "sync" /\ cmd'.full = full /\ cmd' \in Commands /\ cmd'.ver = 0
         /\ worker' \in [Resources -> Workers]
         /\ \A q \in Resources : /\ worker'[q].pc = "begin" /\ worker'[q].full = full
                                 /\ worker'[q].rows = {} /\ worker'[q].top = 0
         /\ syncs' \in 0 .. MaxSyncs /\ moved' = FALSE
         /\ UNCHANGED <<history, desk, mirror, pending, buried, check, ages, backups, wrote, purged>>
<1>1. /\ cmd = NoCommand /\ syncs < MaxSyncs /\ syncs' = syncs + 1 /\ moved' = FALSE
      /\ cmd' = [NoCommand EXCEPT !.op = "sync", !.full = full]
      /\ worker' = [r \in Resources |-> [NoWorker EXCEPT !.pc = "begin", !.full = full]]
      /\ UNCHANGED <<history, desk, mirror, pending, buried, check, ages, backups, wrote, purged>>
  BY DEF StartSync, planes, store
<1>2. syncs \in 0 .. MaxSyncs /\ MaxSyncs \in Nat
  BY TypedParts, PendingWritesAssumption DEF TypesCounts
<1>3. cmd'.op = "sync" /\ cmd'.full = full /\ cmd' \in Commands /\ cmd'.ver = 0
  BY <1>1 DEF NoCommand, Commands
<1> DEFINE w == [NoWorker EXCEPT !.pc = "begin", !.full = full]
<1>4. w \in Workers /\ w.pc = "begin" /\ w.full = full /\ w.rows = {} /\ w.top = 0
  BY DEF NoWorker, Workers
<1> HIDE DEF w
<1>5. worker' = [r \in Resources |-> w]
  BY <1>1 DEF w
<1>6. cmd.op = "idle" /\ syncs' \in 0 .. MaxSyncs
  BY <1>1, <1>2, CommandFacts
<1>7. /\ worker' \in [Resources -> Workers]
      /\ \A q \in Resources : worker'[q] = w
  BY <1>4, <1>5
<1> QED  BY <1>1, <1>3, <1>4, <1>6, <1>7

LEMMA BeginView ==
  ASSUME Typed, NEW r \in Resources, BeginPass(r)
  PROVE  /\ worker[r].pc = "begin"
         /\ Works(r, "fetch", IF worker[r].full THEN 0 ELSE check[r], worker[r].rows, worker[r].seen, worker[r].top)
         /\ \A q \in Resources, k \in Keys : /\ mirror'[q][k].val = mirror[q][k].val
                                             /\ q # r \/ ~worker[r].full => mirror'[q][k] = mirror[q][k]
                                             /\ q = r /\ worker[r].full => mirror'[q][k].ver = 0
                                             /\ mirror'[q][k].ver \in {0, mirror[q][k].ver}
                                             /\ mirror'[q][k] = NoRow <=> mirror[q][k] = NoRow
         /\ \A k \in Keys : \/ pending'[k] = pending[k] /\ wrote'[k] = wrote[k]
                            \/ /\ pending[k].kind \in {"create", "field"} /\ pending'[k] = NoMarker
                               /\ wrote'[k] = 0 /\ r = "items"
         /\ UNCHANGED <<history, desk, buried, check, cmd, syncs, ages, backups, purged, moved>>
         /\ TypesMirror' /\ wrote' \in [Keys -> 0 .. Version]
<1>1. /\ worker[r].pc = "begin"
      /\ worker' = [worker EXCEPT ![r].pc = "fetch",
                                ![r].since = IF worker[r].full THEN 0 ELSE check[r]]
      /\ mirror' = IF worker[r].full THEN [mirror EXCEPT ![r] = Stripped(r)] ELSE mirror
      /\ \/ /\ r = "items"
            /\ pending' = [k \in Keys |-> IF Expires(k) THEN NoMarker ELSE pending[k]]
            /\ wrote' = [k \in Keys |-> IF Expires(k) THEN 0 ELSE wrote[k]]
         \/ UNCHANGED <<pending, wrote>>
      /\ UNCHANGED <<history, desk, buried, check, cmd, syncs, ages, backups, purged, moved>>
  BY DEF BeginPass, At, planes, bounds
<1>2. /\ mirror \in [Resources -> [Keys -> Rows]] /\ pending \in [Keys -> Markers] /\ TypesMirror
      /\ wrote \in [Keys -> 0 .. Version] /\ 0 \in 0 .. Version
  BY TypedParts, LibraryFacts DEF TypesMirror, TypesCounts
<1>3. Works(r, "fetch", IF worker[r].full THEN 0 ELSE check[r], worker[r].rows, worker[r].seen, worker[r].top)
  <2> DEFINE since == IF worker[r].full THEN 0 ELSE check[r]
  <2>1. since \in Nat
    BY WorkerFacts
  <2>2. worker' = [worker EXCEPT ![r] = [pc |-> "fetch", full |-> worker[r].full, since |-> since,
                      rows |-> worker[r].rows, seen |-> worker[r].seen, top |-> worker[r].top]]
    <3> HIDE DEF since
    <3>1. worker \in [Resources -> Workers]
      BY TypedParts DEF TypesWorkers
    <3>2. [worker[r] EXCEPT !.pc = "fetch", !.since = since]
             = [pc |-> "fetch", full |-> worker[r].full, since |-> since,
                rows |-> worker[r].rows, seen |-> worker[r].seen, top |-> worker[r].top]
      BY <2>1, WorkerFacts, PassBegun
    <3>3. worker' = [worker EXCEPT ![r] = [worker[r] EXCEPT !.pc = "fetch", !.since = since]]
      BY <1>1, <3>1 DEF since
    <3> QED  BY <3>2, <3>3
  <2> HIDE DEF since
  <2>3. Works(r, "fetch", since, worker[r].rows, worker[r].seen, worker[r].top)
    BY <2>1, <2>2, WorkerFacts, WorksBy
  <2> QED  BY <2>3 DEF since
<1>4. /\ mirror' \in [Resources -> [Keys -> Rows]]
      /\ \A q \in Resources, k \in Keys : /\ mirror'[q][k].val = mirror[q][k].val
                                          /\ q # r \/ ~worker[r].full => mirror'[q][k] = mirror[q][k]
                                          /\ q = r /\ worker[r].full => mirror'[q][k].ver = 0
                                          /\ mirror'[q][k].ver \in {0, mirror[q][k].ver}
                                          /\ mirror'[q][k] = NoRow <=> mirror[q][k] = NoRow
  <2>1. CASE ~worker[r].full
    BY <1>1, <1>2, <2>1
  <2>2. CASE worker[r].full
    <3>1. mirror' = [mirror EXCEPT ![r] = Stripped(r)]
      BY <1>1, <2>2
    <3> DEFINE bare(k) == [mirror[r][k] EXCEPT !.ver = 0]
    <3>2. \A k \in Keys : /\ bare(k) \in Rows
                          /\ bare(k).val = mirror[r][k].val /\ bare(k).ver = 0
                          /\ bare(k) = NoRow <=> mirror[r][k] = NoRow
      <4> TAKE k \in Keys
      <4>1. mirror[r][k] \in Rows /\ (mirror[r][k] = NoRow <=> mirror[r][k].val = None)
        BY RowFacts
      <4> QED  BY <4>1 DEF Rows, NoRow
    <3>3. Stripped(r) = [k \in Keys |-> bare(k)]
      BY DEF Stripped
    <3> HIDE DEF bare
    <3>4. mirror'[r] = Stripped(r) /\ \A q \in Resources : q # r => mirror'[q] = mirror[q]
      BY <1>2, <3>1
    <3>5. mirror' \in [Resources -> [Keys -> Rows]]
      BY <1>2, <3>1, <3>2, <3>3
    <3>6. ASSUME NEW k \in Keys
          PROVE  /\ mirror'[r][k].val = mirror[r][k].val /\ mirror'[r][k].ver = 0
                 /\ mirror'[r][k] = NoRow <=> mirror[r][k] = NoRow
      BY <3>2, <3>3, <3>4
    <3> QED  BY <2>2, <3>4, <3>5, <3>6
  <2> QED  BY <2>1, <2>2
<1>5. /\ pending' \in [Keys -> Markers] /\ wrote' \in [Keys -> 0 .. Version]
      /\ \A k \in Keys : \/ pending'[k] = pending[k] /\ wrote'[k] = wrote[k]
                         \/ /\ pending[k].kind \in {"create", "field"} /\ pending'[k] = NoMarker
                            /\ wrote'[k] = 0 /\ r = "items"
  <2>1. CASE UNCHANGED <<pending, wrote>>
    BY <1>2, <2>1
  <2>2. CASE ~UNCHANGED <<pending, wrote>>
    <3>1. /\ r = "items"
          /\ pending' = [k \in Keys |-> IF Expires(k) THEN NoMarker ELSE pending[k]]
          /\ wrote' = [k \in Keys |-> IF Expires(k) THEN 0 ELSE wrote[k]]
      BY <1>1, <2>2
    <3>2. \A k \in Keys : Expires(k) => pending[k].kind \in {"create", "field"}
      BY DEF Expires
    <3> QED  BY <1>2, <3>1, <3>2, RecordTypes
  <2> QED  BY <2>1, <2>2
<1>6. TypesMirror'
  <2>1. "items" \in Resources
    BY PlaneFacts
  <2> QED  BY <1>1, <1>2, <1>4, <1>5, <2>1, RecordTypes DEF TypesMirror
<1> QED  BY <1>1, <1>3, <1>4, <1>5, <1>6
After(w, pc, rows, seen, top) ==
    [w EXCEPT !.pc = pc, !.rows = rows, !.seen = seen, !.top = top]

LEMMA PassListed ==
  ASSUME NEW w \in Workers, NEW pc, NEW rows, NEW seen, NEW top
  PROVE  After(w, pc, rows, seen, top)
           = [pc |-> pc, full |-> w.full, since |-> w.since, rows |-> rows, seen |-> seen, top |-> top]
<1> DEFINE w1 == [w EXCEPT !.pc = pc]
           w2 == [w1 EXCEPT !.rows = rows]
           w3 == [w2 EXCEPT !.seen = seen]
<1>1. w1 = [pc |-> pc, full |-> w.full, since |-> w.since,
            rows |-> w.rows, seen |-> w.seen, top |-> w.top]
  BY DEF Workers
<1> HIDE DEF w1
<1>2. w2 = [pc |-> pc, full |-> w.full, since |-> w.since,
            rows |-> rows, seen |-> w.seen, top |-> w.top]
  BY <1>1
<1> HIDE DEF w2
<1>3. w3 = [pc |-> pc, full |-> w.full, since |-> w.since,
            rows |-> rows, seen |-> seen, top |-> w.top]
  BY <1>2
<1> HIDE DEF w3
<1>4. [w3 EXCEPT !.top = top] = [pc |-> pc, full |-> w.full, since |-> w.since,
                                 rows |-> rows, seen |-> seen, top |-> top]
  BY <1>3
<1> QED  BY <1>4 DEF w1, w2, w3, After

\* What a listing sends of key k, the marker considered.
Sent(r, k) == IF r = "items" /\ Lags(pending[k], Desk[k].val) THEN pending[k].written ELSE Desk[k].val

Heard(r, k) == Desk[k].at = Place(r) /\ Desk[k].ver > worker[r].since

LEMMA FetchView ==
  ASSUME Typed, NEW r \in Resources, FetchListing(r)
  PROVE  /\ worker[r].pc = "fetch"
         /\ Works(r, worker'[r].pc, worker[r].since, worker'[r].rows, worker'[r].seen, worker'[r].top)
         /\ worker'[r].seen = {k \in Keys : Heard(r, k)}
         /\ worker'[r].pc = IF \E k \in Keys : Heard(r, k) THEN "store"
                            ELSE IF worker[r].full \/ worker[r].since = 0 THEN "sweep" ELSE "verify"
         /\ \A row \in worker'[r].rows :
              /\ row.key \in Keys /\ Heard(r, row.key) /\ ~Suppressed(r, row.key)
              /\ row = [key |-> row.key, val |-> Sent(r, row.key), ver |-> Desk[row.key].ver]
         /\ \A k \in Keys : Heard(r, k) /\ ~Suppressed(r, k) =>
              [key |-> k, val |-> Sent(r, k), ver |-> Desk[k].ver] \in worker'[r].rows
         /\ worker'[r].top \in Nat /\ worker'[r].top <= desk
         /\ \A k \in Keys : Heard(r, k) => Desk[k].ver <= worker'[r].top
         /\ (\A k \in Keys : ~Heard(r, k)) => worker'[r].top = 0
         /\ \A k \in Keys : pending'[k] = IF /\ r = "items" /\ Heard(r, k)
                                             /\ pending[k].kind \in {"create", "field"}
                                             /\ ~Lags(pending[k], Desk[k].val)
                                          THEN NoMarker ELSE pending[k]
         /\ UNCHANGED <<history, desk, mirror, buried, check, cmd, syncs, ages, backups, wrote, purged, moved>>
         /\ TypesMirror'
<1> DEFINE w == worker[r]
           rows == Listed(r, w.since)
           pc == IF rows # {} THEN "store"
                 ELSE IF w.full \/ w.since = 0 THEN "sweep" ELSE "verify"
           sent == Reconciled(r, rows)
           seen == {row.key : row \in rows}
           top == Top(rows)
<1>1. /\ w.pc = "fetch"
      /\ worker' = [worker EXCEPT ![r].pc = pc, ![r].rows = sent, ![r].seen = seen, ![r].top = top]
      /\ pending' = [k \in Keys |-> IF k \in Confirmed(r, rows) THEN NoMarker ELSE pending[k]]
      /\ UNCHANGED <<history, desk, mirror, buried, check, cmd, syncs, ages, backups, wrote, purged, moved>>
  BY DEF FetchListing, At, planes, bounds, ghosts
<1>2. w \in Workers /\ w.since \in Nat
  BY WorkerFacts
<1>3. /\ \A row \in rows : /\ row.key \in Keys /\ Desk[row.key].at = Place(r)
                              /\ row.val = Desk[row.key].val /\ row.ver = Desk[row.key].ver
                              /\ row.val \in Values /\ row.ver \in Nat /\ row.ver > w.since
                              /\ row = [key |-> row.key, val |-> row.val, ver |-> row.ver]
      /\ \A k \in Keys : Desk[k].at = Place(r) /\ Desk[k].ver > w.since =>
              [key |-> k, val |-> Desk[k].val, ver |-> Desk[k].ver] \in rows
      /\ seen = {k \in Keys : Desk[k].at = Place(r) /\ Desk[k].ver > w.since}
      /\ top \in Nat /\ top <= desk
      /\ \A row \in rows : row.ver <= top
      /\ rows = {} => top = 0
  BY <1>2, ListedFacts
<1>4. seen = {k \in Keys : Heard(r, k)} /\ seen \in SUBSET Keys
  BY <1>3 DEF Heard
<1>5. rows # {} <=> \E k \in Keys : Heard(r, k)
  <2> HIDE DEF rows
  <2> QED  BY <1>3 DEF Heard
<1>6. /\ \A row \in sent :
              /\ row.key \in Keys /\ Heard(r, row.key) /\ ~Suppressed(r, row.key)
              /\ row = [key |-> row.key, val |-> Sent(r, row.key), ver |-> Desk[row.key].ver]
      /\ \A k \in Keys : Heard(r, k) /\ ~Suppressed(r, k) =>
              [key |-> k, val |-> Sent(r, k), ver |-> Desk[k].ver] \in sent
  <2> HIDE DEF rows
  <2> DEFINE out(x) == IF r = "items" /\ Lags(pending[x.key], x.val)
                       THEN [x EXCEPT !.val = pending[x.key].written] ELSE x
  <2>1. sent = {out(x) : x \in {x \in rows : ~Suppressed(r, x.key)}}
    BY DEF Reconciled
  <2>2. \A x \in rows : out(x) = [key |-> x.key, val |-> Sent(r, x.key), ver |-> Desk[x.key].ver]
    <3> TAKE x \in rows
    <3>1. x = [key |-> x.key, val |-> x.val, ver |-> x.ver] /\ x.val = Desk[x.key].val /\ x.ver = Desk[x.key].ver
      BY <1>3
    <3>2. ASSUME NEW v PROVE [x EXCEPT !.val = v] = [key |-> x.key, val |-> v, ver |-> x.ver]
      BY <3>1
    <3>3. CASE r = "items" /\ Lags(pending[x.key], x.val)
      <4>1. out(x) = [x EXCEPT !.val = pending[x.key].written]
        BY <3>3
      <4>2. Sent(r, x.key) = pending[x.key].written
        BY <3>1, <3>3 DEF Sent
      <4> QED  BY <3>1, <3>2, <4>1, <4>2
    <3>4. CASE ~(r = "items" /\ Lags(pending[x.key], x.val))
      <4>1. out(x) = x
        BY <3>4
      <4>2. Sent(r, x.key) = Desk[x.key].val
        BY <3>1, <3>4 DEF Sent
      <4> QED  BY <3>1, <4>1, <4>2
    <3> QED  BY <3>3, <3>4
  <2> HIDE DEF out, sent
  <2>3. ASSUME NEW row \in sent
        PROVE  /\ row.key \in Keys /\ Heard(r, row.key) /\ ~Suppressed(r, row.key)
               /\ row = [key |-> row.key, val |-> Sent(r, row.key), ver |-> Desk[row.key].ver]
    <3>1. PICK x \in rows : row = out(x) /\ ~Suppressed(r, x.key)
      BY <2>1
    <3>2. row = [key |-> x.key, val |-> Sent(r, x.key), ver |-> Desk[x.key].ver]
      BY <2>2, <3>1
    <3>3. row.key = x.key
      BY <3>2
    <3>4. x.key \in Keys /\ Heard(r, x.key)
      BY <1>3 DEF Heard
    <3> QED  BY <3>1, <3>2, <3>3, <3>4
  <2>4. ASSUME NEW k \in Keys, Heard(r, k), ~Suppressed(r, k)
        PROVE  [key |-> k, val |-> Sent(r, k), ver |-> Desk[k].ver] \in sent
    <3> DEFINE x == [key |-> k, val |-> Desk[k].val, ver |-> Desk[k].ver]
    <3>1. x \in rows /\ x.key = k
      BY <1>3, <2>4 DEF Heard
    <3>2. out(x) = [key |-> k, val |-> Sent(r, k), ver |-> Desk[k].ver]
      BY <2>2, <3>1
    <3> HIDE DEF x
    <3>3. out(x) \in sent
      BY <2>1, <2>4, <3>1
    <3> QED  BY <3>2, <3>3
  <2> QED  BY <2>3, <2>4
<1>7. \A k \in Keys : k \in Confirmed(r, rows) <=>
          r = "items" /\ Heard(r, k) /\ pending[k].kind \in {"create", "field"} /\ ~Lags(pending[k], Desk[k].val)
  <2> HIDE DEF rows
  <2>1. ASSUME NEW k \in Keys, k \in Confirmed(r, rows)
        PROVE  r = "items" /\ Heard(r, k) /\ pending[k].kind \in {"create", "field"} /\ ~Lags(pending[k], Desk[k].val)
    <3>1. PICK row \in rows : /\ k = row.key /\ r = "items" /\ pending[row.key].kind \in {"create", "field"}
                              /\ ~Lags(pending[row.key], row.val)
      BY <2>1 DEF Confirmed
    <3> QED  BY <1>3, <3>1 DEF Heard
  <2>2. ASSUME NEW k \in Keys, r = "items", Heard(r, k), pending[k].kind \in {"create", "field"},
               ~Lags(pending[k], Desk[k].val)
        PROVE  k \in Confirmed(r, rows)
    <3>1. PICK row \in rows : row = [key |-> k, val |-> Desk[k].val, ver |-> Desk[k].ver]
      BY <1>3, <2>2 DEF Heard
    <3>2. row.key = k /\ row.val = Desk[k].val
      BY <3>1
    <3> QED  BY <2>2, <3>2 DEF Confirmed
  <2> QED  BY <2>1, <2>2
<1>8. /\ pending' \in [Keys -> Markers]
      /\ \A k \in Keys : pending'[k] = IF /\ r = "items" /\ Heard(r, k)
                                             /\ pending[k].kind \in {"create", "field"}
                                             /\ ~Lags(pending[k], Desk[k].val)
                                          THEN NoMarker ELSE pending[k]
  <2> HIDE DEF rows
  <2>1. pending \in [Keys -> Markers]
    BY TypedParts DEF TypesMirror
  <2> QED  BY <1>1, <1>7, <2>1, RecordTypes
<1>9. TypesMirror'
  <2>1. TypesMirror
    BY TypedParts
  <2> QED  BY <1>1, <1>8, <2>1, RecordTypes DEF TypesMirror
<1>10. sent \in SUBSET [key : Keys, val : Values, ver : Nat]
  <2>1. ASSUME NEW row \in sent PROVE row \in [key : Keys, val : Values, ver : Nat]
    <3> HIDE DEF sent
    <3>1. /\ row.key \in Keys /\ Heard(r, row.key)
          /\ row = [key |-> row.key, val |-> Sent(r, row.key), ver |-> Desk[row.key].ver]
      BY <1>6
    <3>2. Desk[row.key].val \in Values /\ Desk[row.key].ver \in Nat
      BY <3>1, LibraryFacts, ObjectFacts, PlaneFacts DEF Desk, Heard
    <3>3. Sent(r, row.key) \in Values
      BY <3>1, <3>2, MarkerFacts DEF Sent, Lags
    <3> QED  BY <3>1, <3>2, <3>3
  <2> QED  BY <2>1
<1>11. pc \in {"idle", "begin", "fetch", "verify", "store", "sweep", "stamp", "done", "failed"}
  OBVIOUS
<1> HIDE DEF rows, pc, sent, seen, top
<1>12. worker' = [worker EXCEPT ![r] = [pc |-> pc, full |-> w.full, since |-> w.since,
                                       rows |-> sent, seen |-> seen, top |-> top]]
  <2>1. worker' = [worker EXCEPT ![r] = After(w, pc, sent, seen, top)]
    <3>1. worker \in [Resources -> Workers]
      BY TypedParts DEF TypesWorkers
    <3> QED  BY <1>1, <3>1 DEF After
  <2>2. After(w, pc, sent, seen, top)
           = [pc |-> pc, full |-> w.full, since |-> w.since, rows |-> sent, seen |-> seen, top |-> top]
    <3> HIDE DEF w
    <3> QED  BY <1>2, PassListed
  <2> QED  BY <2>1, <2>2
<1>13. Works(r, pc, w.since, sent, seen, top)
  BY <1>2, <1>3, <1>4, <1>10, <1>11, <1>12, WorksBy
<1>14. /\ worker'[r].pc = pc /\ worker'[r].rows = sent /\ worker'[r].seen = seen /\ worker'[r].top = top
       /\ pc = IF \E k \in Keys : Heard(r, k) THEN "store"
                            ELSE IF worker[r].full \/ worker[r].since = 0 THEN "sweep" ELSE "verify"
  BY <1>5, <1>13 DEF Works, pc
<1>15. /\ \A k \in Keys : Heard(r, k) => Desk[k].ver <= top
       /\ (\A k \in Keys : ~Heard(r, k)) => top = 0
  <2>1. ASSUME NEW k \in Keys, Heard(r, k) PROVE Desk[k].ver <= top
    <3>1. PICK row \in rows : row = [key |-> k, val |-> Desk[k].val, ver |-> Desk[k].ver]
      BY <1>3, <2>1 DEF Heard
    <3> QED  BY <1>3, <3>1
  <2> QED  BY <1>3, <1>5, <2>1
<1>16. Works(r, worker'[r].pc, worker[r].since, worker'[r].rows, worker'[r].seen, worker'[r].top)
  BY <1>13, <1>14
<1> QED  BY <1>1, <1>3, <1>4, <1>6, <1>8, <1>9, <1>14, <1>15, <1>16
LEMMA ProceedView ==
  ASSUME Typed, NEW r \in Resources, Proceed(r, "stamp")
  PROVE  Works(r, "stamp", worker[r].since, worker[r].rows, worker[r].seen, worker[r].top)
<1>1. worker' = [worker EXCEPT ![r] = [worker[r] EXCEPT !.pc = "stamp"]]
  BY DEF Proceed
<1>2. [worker[r] EXCEPT !.pc = "stamp"]
         = [pc |-> "stamp", full |-> worker[r].full, since |-> worker[r].since,
            rows |-> worker[r].rows, seen |-> worker[r].seen, top |-> worker[r].top]
  BY WorkerFacts DEF Workers
<1>3. worker' = [worker EXCEPT ![r] =
           [pc |-> "stamp", full |-> worker[r].full, since |-> worker[r].since,
            rows |-> worker[r].rows, seen |-> worker[r].seen, top |-> worker[r].top]]
  BY <1>1, <1>2
<1> QED  BY <1>3, WorkerFacts, WorksBy

LEMMA VerifyView ==
  ASSUME Typed, NEW r \in Resources, Verify(r)
  PROVE  /\ worker[r].pc = "verify"
         /\ \/ Works(r, "stamp", worker[r].since, worker[r].rows, worker[r].seen, worker[r].top)
            \/ /\ worker' \in [Resources -> Workers] /\ \A q \in Resources : q # r => worker'[q] = worker[q]
               /\ worker'[r].pc = "begin" /\ worker'[r].full /\ worker'[r].rows = {} /\ worker'[r].top = 0
         /\ UNCHANGED <<history, desk, mirror, pending, buried, check, cmd, syncs, ages, backups, wrote, purged, moved>>
<1>1. worker[r].pc = "verify"
      /\ UNCHANGED <<history, desk, mirror, pending, buried, check, cmd, syncs, ages, backups, wrote, purged, moved>>
  BY DEF Verify, At, planes, store, bounds, ghosts
<1>2. CASE Proceed(r, "stamp")
  BY <1>1, <1>2, ProceedView
<1>3. CASE worker' = [worker EXCEPT ![r] = [NoWorker EXCEPT !.pc = "begin", !.full = TRUE]]
  <2> DEFINE w == [NoWorker EXCEPT !.pc = "begin", !.full = TRUE]
  <2>1. w \in Workers /\ w.pc = "begin" /\ w.full /\ w.rows = {} /\ w.top = 0
    BY DEF NoWorker, Workers
  <2> HIDE DEF w
  <2>2. worker' = [worker EXCEPT ![r] = w]
    BY <1>3 DEF w
  <2> QED  BY <1>1, <2>1, <2>2, WorkerSet
<1> QED  BY <1>2, <1>3 DEF Verify, Proceed

\* The version up to which the pass of r has, or will have, taken everything in.
Goal(r) == IF worker[r].full THEN worker[r].top
           ELSE IF worker[r].top > check[r] THEN worker[r].top ELSE check[r]

LEMMA StampView ==
  ASSUME Typed, NEW r \in Resources, Stamp(r)
  PROVE  /\ worker[r].pc = "stamp"
         /\ worker' \in [Resources -> Workers] /\ \A q \in Resources : q # r => worker'[q] = worker[q]
         /\ worker'[r].pc = "done" /\ ~worker'[r].full /\ worker'[r].rows = {} /\ worker'[r].top = 0
         /\ check'[r] = Goal(r) /\ \A q \in Resources : q # r => check'[q] = check[q]
         /\ check' \in [Resources -> 0 .. Version]
         /\ UNCHANGED <<history, desk, mirror, pending, buried, cmd, syncs, ages, backups, wrote, purged, moved>>
<1>1. /\ worker[r].pc = "stamp"
      /\ check' = [check EXCEPT ![r] = IF worker[r].full THEN worker[r].top ELSE Max({check[r], worker[r].top})]
      /\ worker' = [worker EXCEPT ![r] = [NoWorker EXCEPT !.pc = "done"]]
      /\ UNCHANGED <<history, desk, mirror, pending, buried, cmd, syncs, ages, backups, wrote, purged, moved>>
  BY DEF Stamp, At, planes, bounds, ghosts
<1>2. check \in [Resources -> 0 .. Version] /\ worker[r].top <= Version /\ worker[r].top \in Nat /\ check[r] \in Nat
      /\ check[r] <= Version /\ Version \in Nat
  BY TypedParts, WorkerFacts, LibraryFacts DEF TypesWorkers, Pass
<1>3. Max({check[r], worker[r].top}) = IF check[r] <= worker[r].top THEN worker[r].top ELSE check[r]
  BY <1>2, MaxOfTwo
<1>4. check' = [check EXCEPT ![r] = Goal(r)] /\ Goal(r) \in 0 .. Version
  <2>1. Goal(r) = IF worker[r].full THEN worker[r].top ELSE Max({check[r], worker[r].top})
    BY <1>2, <1>3 DEF Goal
  <2>2. Goal(r) \in 0 .. Version
    BY <1>2 DEF Goal
  <2> QED  BY <1>1, <2>1, <2>2
<1>5. /\ check'[r] = Goal(r) /\ \A q \in Resources : q # r => check'[q] = check[q]
      /\ check' \in [Resources -> 0 .. Version]
  BY <1>2, <1>4
<1> DEFINE w == [NoWorker EXCEPT !.pc = "done"]
<1>6. w \in Workers /\ w.pc = "done" /\ ~w.full /\ w.rows = {} /\ w.top = 0
  BY DEF NoWorker, Workers
<1> HIDE DEF w
<1>7. worker' = [worker EXCEPT ![r] = w]
  BY <1>1 DEF w
<1> QED  BY <1>1, <1>5, <1>6, <1>7, WorkerSet

LEMMA FailView ==
  ASSUME Typed, NEW r \in Resources, FailPass(r)
  PROVE  /\ worker[r].pc \notin {"idle", "done", "failed"}
         /\ "halfway" \in Risks \/ ~Halfway(r)
         /\ worker' \in [Resources -> Workers] /\ \A q \in Resources : q # r => worker'[q] = worker[q]
         /\ worker'[r].pc = "failed" /\ ~worker'[r].full /\ worker'[r].rows = {} /\ worker'[r].top = 0
         /\ UNCHANGED <<history, desk, mirror, pending, buried, check, cmd, syncs, ages, backups, wrote, purged, moved>>
<1>1. /\ worker[r].pc \notin {"idle", "done", "failed"}
      /\ "halfway" \in Risks \/ ~Halfway(r)
      /\ worker' = [worker EXCEPT ![r] = [NoWorker EXCEPT !.pc = "failed"]]
      /\ UNCHANGED <<history, desk, mirror, pending, buried, check, cmd, syncs, ages, backups, wrote, purged, moved>>
  BY DEF FailPass, planes, store, bounds, ghosts
<1> DEFINE w == [NoWorker EXCEPT !.pc = "failed"]
<1>2. w \in Workers /\ w.pc = "failed" /\ ~w.full /\ w.rows = {} /\ w.top = 0
  BY DEF NoWorker, Workers
<1> HIDE DEF w
<1>3. worker' = [worker EXCEPT ![r] = w]
  BY <1>1 DEF w
<1> QED  BY <1>1, <1>2, <1>3, WorkerSet

\* UpsertBatch: what one row makes of its key, in both tables.
LEMMA StoreView ==
  ASSUME Typed, NEW r \in Resources, Store(r)
  PROVE  /\ worker[r].pc = "store"
         /\ Works(r, "sweep", worker[r].since, {}, worker[r].seen, worker[r].top)
         /\ \A row \in worker[r].rows :
              LET k == row.key
                  new == Landed(r, row)
                  opposite == mirror[Other(r)][k]
                  wins == opposite = NoRow \/ Wins(r, new.ver, opposite.ver)
              IN /\ mirror'[r][k] = IF wins THEN new ELSE NoRow
                 /\ mirror'[Other(r)][k] = IF wins THEN NoRow ELSE opposite
                 /\ new \in Rows /\ new.val \in Values
                 /\ new = mirror[r][k] \/ new = [val |-> row.val, ver |-> row.ver]
         /\ \A k \in Keys : (\A row \in worker[r].rows : row.key # k) =>
              \A q \in Resources : mirror'[q][k] = mirror[q][k]
         /\ UNCHANGED <<history, desk, pending, buried, check, cmd, syncs, ages, backups, wrote, purged, moved>>
         /\ TypesMirror'
<1> DEFINE rows == worker[r].rows
           new(k) == Landed(r, CHOOSE row \in rows : row.key = k)
           opposite(k) == mirror[Other(r)][k]
           written == {row.key : row \in rows}
           loses(q, k) == /\ k \in written
                          /\ opposite(k) # NoRow
                          /\ (q = r) = ~Wins(r, new(k).ver, opposite(k).ver)
           cell(q, k) == IF loses(q, k) THEN NoRow
                         ELSE IF q = r /\ k \in written THEN new(k) ELSE mirror[q][k]
<1>1. /\ worker[r].pc = "store"
      /\ mirror' = [q \in Resources |-> [k \in Keys |-> cell(q, k)]]
      /\ worker' = [worker EXCEPT ![r].pc = "sweep", ![r].rows = {}]
      /\ UNCHANGED <<history, desk, pending, buried, check, cmd, syncs, ages, backups, wrote, purged, moved>>
  BY DEF Store, At, planes, bounds, ghosts
<1>2. mirror \in [Resources -> [Keys -> Rows]] /\ Other(r) \in Resources /\ Other(r) # r
      /\ \A q \in Resources : q = r \/ q = Other(r)
  BY TypedParts, PlaneFacts DEF TypesMirror
<1>3. \A row \in rows : /\ row.key \in Keys /\ row.val \in Values /\ row.ver \in Nat
                        /\ (CHOOSE row2 \in rows : row2.key = row.key) = row
  <2> TAKE row \in rows
  <2>1. \A row2 \in rows : row2.key = row.key => row2 = row
    BY ListedRowFacts
  <2> QED  BY <2>1, ListedRowFacts
<1>4. \A row \in rows : /\ new(row.key) = Landed(r, row)
                        /\ Landed(r, row) = mirror[r][row.key] \/ Landed(r, row) = [val |-> row.val, ver |-> row.ver]
                        /\ Landed(r, row) \in Rows /\ Landed(r, row).val \in Values
  <2> TAKE row \in rows
  <2>1. new(row.key) = Landed(r, row)
    BY <1>3
  <2>2. [val |-> row.val, ver |-> row.ver] \in Rows /\ [val |-> row.val, ver |-> row.ver].val \in Values
    BY <1>3 DEF Rows
  <2>3. Landed(r, row) = IF Keeps([val |-> row.val, ver |-> row.ver], mirror[r][row.key])
                         THEN mirror[r][row.key] ELSE [val |-> row.val, ver |-> row.ver]
    BY DEF Landed
  <2>4. Keeps([val |-> row.val, ver |-> row.ver], mirror[r][row.key]) => mirror[r][row.key] # NoRow
    BY DEF Keeps
  <2>5. mirror[r][row.key] \in Rows /\ (mirror[r][row.key] # NoRow => mirror[r][row.key].val \in Values)
    BY <1>3, RowFacts
  <2> QED  BY <2>1, <2>2, <2>3, <2>4, <2>5
<1>5. \A row \in rows : row.key \in written
  OBVIOUS
<1>6. \A k \in Keys : (\A row \in rows : row.key # k) => k \notin written
  OBVIOUS
<1>7. \A k \in written : \E row \in rows : row.key = k
  OBVIOUS
<1> HIDE DEF new, written
<1>8. \A q \in Resources, k \in Keys : mirror'[q][k] = cell(q, k)
  BY <1>1
<1>9. \A k \in Keys : k \notin written => \A q \in Resources : cell(q, k) = mirror[q][k]
  OBVIOUS
<1>10. \A q \in Resources, k \in Keys : cell(q, k) \in Rows /\ (cell(q, k) = NoRow \/ cell(q, k).val \in Values)
  <2> TAKE q \in Resources, k \in Keys
  <2>1. k \in written => new(k) \in Rows /\ new(k).val \in Values
    BY <1>4, <1>7
  <2> QED  BY <2>1, RowFacts, RecordTypes
<1>11. \A row \in rows :
         LET k == row.key
             n == Landed(r, row)
             wins == opposite(k) = NoRow \/ Wins(r, n.ver, opposite(k).ver)
         IN /\ cell(r, k) = IF wins THEN n ELSE NoRow
            /\ cell(Other(r), k) = IF wins THEN NoRow ELSE opposite(k)
  BY <1>2, <1>4, <1>5
<1> HIDE DEF cell
<1>12. mirror' \in [Resources -> [Keys -> Rows]]
  BY <1>1, <1>10
<1>13. Works(r, "sweep", worker[r].since, {}, worker[r].seen, worker[r].top)
  <2> DEFINE w1 == [worker[r] EXCEPT !.pc = "sweep"]
  <2>1. w1 = [pc |-> "sweep", full |-> worker[r].full, since |-> worker[r].since,
              rows |-> worker[r].rows, seen |-> worker[r].seen, top |-> worker[r].top]
    BY WorkerFacts DEF Workers
  <2>2. worker' = [worker EXCEPT ![r] = [w1 EXCEPT !.rows = {}]]
    <3>1. worker \in [Resources -> Workers]
      BY TypedParts DEF TypesWorkers
    <3> QED  BY <1>1, <3>1
  <2> HIDE DEF w1
  <2>3. [w1 EXCEPT !.rows = {}] = [pc |-> "sweep", full |-> worker[r].full, since |-> worker[r].since,
              rows |-> {}, seen |-> worker[r].seen, top |-> worker[r].top]
    BY <2>1
  <2>4. worker' = [worker EXCEPT ![r] = [pc |-> "sweep", full |-> worker[r].full, since |-> worker[r].since,
              rows |-> {}, seen |-> worker[r].seen, top |-> worker[r].top]]
    BY <2>2, <2>3
  <2>5. {} \in SUBSET [key : Keys, val : Values, ver : Nat]
    OBVIOUS
  <2> QED  BY <2>4, <2>5, WorkerFacts, WorksBy
<1>14. TypesMirror'
  <2>1. ASSUME NEW k \in Keys, pending[k].kind = "deleted" PROVE mirror'["items"][k] = NoRow
    <3>1. mirror["items"][k] = NoRow /\ "items" \in Resources /\ (r # "items" => Other(r) = "items")
      BY <2>1, MarkerFacts, PlaneFacts
    <3>2. CASE r = "items"
      <4>1. \A row \in rows : row.key # k
        BY <2>1, <3>2, ListedRowFacts DEF Suppressed
      <4> QED  BY <1>6, <1>8, <1>9, <3>1, <4>1
    <3>3. CASE r # "items"
      <4>1. opposite(k) = NoRow
        BY <3>1, <3>3
      <4>2. cell("items", k) = NoRow
        BY <3>1, <3>3, <4>1 DEF cell
      <4> QED  BY <1>8, <3>1, <4>2
    <3> QED  BY <3>2, <3>3
  <2> QED  BY <1>1, <1>8, <1>10, <1>12, <2>1, TypedParts DEF TypesMirror
<1>15. \A k \in Keys : (\A row \in rows : row.key # k) => \A q \in Resources : mirror'[q][k] = mirror[q][k]
  BY <1>6, <1>8, <1>9
<1>16. \A row \in rows :
         LET k == row.key
             n == Landed(r, row)
             wins == opposite(k) = NoRow \/ Wins(r, n.ver, opposite(k).ver)
         IN /\ mirror'[r][k] = IF wins THEN n ELSE NoRow
            /\ mirror'[Other(r)][k] = IF wins THEN NoRow ELSE opposite(k)
  BY <1>2, <1>3, <1>8, <1>11
<1> QED  BY <1>1, <1>4, <1>13, <1>14, <1>15, <1>16
\* SweepMissing over the keys in seen.
Sweeps(r, seen) ==
    /\ \A k \in Keys : mirror'[r][k] = IF k \in seen THEN mirror[r][k] ELSE NoRow
    /\ \A k \in Keys : mirror'[Other(r)][k] = mirror[Other(r)][k]
    /\ \A k \in Keys : \/ pending'[k] = pending[k] /\ wrote'[k] = wrote[k]
                       \/ pending'[k] = NoMarker /\ wrote'[k] = 0 /\ r = "items" /\ k \notin seen
    /\ r = "items" => buried' = buried
    /\ r # "items" => buried' = buried \cap seen
    /\ TypesMirror' /\ wrote' \in [Keys -> 0 .. Version]

LEMMA SweptView ==
  ASSUME Typed, NEW r \in Resources, NEW seen \in SUBSET Keys, Swept(r, seen)
  PROVE  Sweeps(r, seen)
<1>1. /\ mirror \in [Resources -> [Keys -> Rows]] /\ pending \in [Keys -> Markers] /\ TypesMirror
      /\ wrote \in [Keys -> 0 .. Version] /\ 0 \in 0 .. Version /\ buried \subseteq Keys
  BY TypedParts, LibraryFacts DEF TypesMirror, TypesCounts
<1> DEFINE gone == {k \in Keys \ seen : mirror[r][k] # NoRow \/ pending[k].kind = "deleted"}
           kept == [k \in Keys |-> IF k \in seen THEN mirror[r][k] ELSE NoRow]
<1>2. /\ mirror' = [mirror EXCEPT ![r] = kept]
      /\ r = "items" => /\ pending' = [k \in Keys |-> IF k \in gone THEN NoMarker ELSE pending[k]]
                        /\ wrote' = [k \in Keys |-> IF k \in gone THEN 0 ELSE wrote[k]]
                        /\ buried' = buried
      /\ r # "items" => /\ pending' = pending /\ wrote' = wrote
                        /\ buried' = buried \cap seen
  <2>1. mirror' = [mirror EXCEPT ![r] = [k \in Keys |-> IF k \in seen THEN @[k] ELSE NoRow]]
    BY DEF Swept
  <2>2. mirror' = [mirror EXCEPT ![r] = kept]
    BY <1>1, <2>1
  <2> QED  BY <2>2 DEF Swept
<1>3. kept \in [Keys -> Rows] /\ \A k \in Keys : kept[k] = IF k \in seen THEN mirror[r][k] ELSE NoRow
  BY <1>1, RecordTypes
<1> HIDE DEF kept, gone
<1>4. /\ mirror' \in [Resources -> [Keys -> Rows]] /\ mirror'[r] = kept
      /\ \A q \in Resources : q # r => mirror'[q] = mirror[q]
  BY <1>1, <1>2, <1>3
<1>5. /\ pending' \in [Keys -> Markers] /\ wrote' \in [Keys -> 0 .. Version]
      /\ \A k \in Keys : \/ pending'[k] = pending[k] /\ wrote'[k] = wrote[k]
                         \/ pending'[k] = NoMarker /\ wrote'[k] = 0 /\ r = "items" /\ k \notin seen
  <2>1. \A k \in gone : k \notin seen
    BY DEF gone
  <2> QED  BY <1>1, <1>2, <2>1, RecordTypes
<1>6. \A k \in Keys : pending'[k].kind = "deleted" => mirror'["items"][k] = NoRow
  <2> TAKE k \in Keys
  <2>1. pending'[k].kind = "deleted" => pending[k].kind = "deleted"
    BY <1>5, RecordTypes
  <2>2. pending[k].kind = "deleted" => mirror["items"][k] = NoRow
    BY MarkerFacts
  <2> QED  BY <1>3, <1>4, <2>1, <2>2, PlaneFacts
<1>7. \A q \in Resources, k \in Keys : mirror'[q][k] = NoRow \/ mirror'[q][k].val \in Values
  BY <1>3, <1>4, RowFacts
<1>8. \A k \in Keys : pending'[k].kind = "field" => pending'[k].written \in Values
  BY <1>5, MarkerFacts, RecordTypes
<1>9. TypesMirror'
  <2>1. buried' \subseteq Keys
    BY <1>1, <1>2
  <2> QED  BY <1>4, <1>5, <1>6, <1>7, <1>8, <2>1 DEF TypesMirror
<1> QED  BY <1>2, <1>3, <1>4, <1>5, <1>9, PlaneFacts DEF Sweeps

LEMMA QuietMirror ==
  ASSUME Typed, UNCHANGED <<mirror, pending, buried, wrote, history>>
  PROVE  TypesMirror' /\ wrote' \in [Keys -> 0 .. Version]
  BY TypedParts DEF TypesMirror, TypesCounts

LEMMA SweepView ==
  ASSUME Typed, NEW r \in Resources, Sweep(r)
  PROVE  /\ worker[r].pc = "sweep"
         /\ Works(r, "stamp", worker[r].since, worker[r].rows, worker[r].seen, worker[r].top)
         /\ worker[r].full => Sweeps(r, worker[r].seen)
         /\ ~worker[r].full => UNCHANGED <<mirror, pending, buried, wrote>>
         /\ UNCHANGED <<history, desk, check, cmd, syncs, ages, backups, purged, moved>>
         /\ TypesMirror' /\ wrote' \in [Keys -> 0 .. Version]
<1>1. /\ worker[r].pc = "sweep" /\ Proceed(r, "stamp")
      /\ worker[r].full => Swept(r, worker[r].seen)
      /\ ~worker[r].full => UNCHANGED <<mirror, pending, buried, wrote>>
      /\ UNCHANGED <<history, desk, check, cmd, syncs, ages, backups, purged, moved>>
  BY DEF Sweep, At, planes, bounds
<1>2. Works(r, "stamp", worker[r].since, worker[r].rows, worker[r].seen, worker[r].top)
  BY <1>1, ProceedView
<1>3. worker[r].full => Sweeps(r, worker[r].seen)
  BY <1>1, SweptView, WorkerFacts
<1>4. TypesMirror' /\ wrote' \in [Keys -> 0 .. Version]
  BY <1>1, <1>3, QuietMirror, WorkerFacts DEF Sweeps
<1> QED  BY <1>1, <1>2, <1>3, <1>4

LEMMA FinishView ==
  ASSUME Typed, FinishSync
  PROVE  /\ cmd.op = "sync" /\ cmd' = NoCommand
         /\ worker' = [r \in Resources |-> NoWorker]
         /\ \A r \in Resources : worker[r].pc \in {"done", "failed"}
         /\ \/ /\ ~cmd.full /\ worker["items-trash"].pc = "done"
               /\ Sweeps("items-trash", {k \in Keys : Desk[k].at = "trash"})
            \/ UNCHANGED <<mirror, pending, buried, wrote>>
         /\ UNCHANGED <<history, desk, check, syncs, ages, backups, purged, moved>>
         /\ TypesMirror' /\ wrote' \in [Keys -> 0 .. Version]
<1>1. /\ cmd.op = "sync" /\ cmd' = NoCommand
      /\ worker' = [r \in Resources |-> NoWorker]
      /\ \A r \in Resources : worker[r].pc \in {"done", "failed"}
      /\ UNCHANGED <<history, desk, check, syncs, ages, backups, purged, moved>>
  BY DEF FinishSync, planes, bounds
<1> DEFINE listed == {row.key : row \in Listed("items-trash", 0)}
<1>2. \/ ~cmd.full /\ worker["items-trash"].pc = "done" /\ Swept("items-trash", listed)
      \/ UNCHANGED <<mirror, pending, buried, wrote>>
  BY DEF FinishSync, At
<1>3. listed = {k \in Keys : Desk[k].at = "trash"}
  <2>1. listed = {k \in Keys : Desk[k].at = Place("items-trash") /\ Desk[k].ver > 0}
    BY ListedFacts, PlaneFacts
  <2>2. \A k \in Keys : Desk[k].at = "trash" => Desk[k].ver > 0
    BY LibraryFacts, ObjectFacts DEF Desk
  <2> HIDE DEF listed
  <2> QED  BY <2>1, <2>2, PlaneFacts
<1> HIDE DEF listed
<1>4. Swept("items-trash", listed) => Sweeps("items-trash", listed)
  BY <1>3, SweptView, PlaneFacts
<1>5. TypesMirror' /\ wrote' \in [Keys -> 0 .. Version]
  BY <1>1, <1>2, <1>4, QuietMirror DEF Sweeps
<1> QED  BY <1>1, <1>2, <1>3, <1>4, <1>5

LEMMA KillView ==
  ASSUME Kill
  PROVE  /\ cmd' = NoCommand /\ worker' = [r \in Resources |-> NoWorker]
         /\ "halfway" \in Risks \/ \A r \in Resources : ~Halfway(r)
         /\ UNCHANGED <<history, desk, mirror, pending, buried, check, syncs, ages, backups, wrote, purged, moved>>
  BY DEF Kill, planes, store, bounds, ghosts

LEMMA HearsView ==
  ASSUME Typed, DeskHears
  PROVE  /\ desk' \in desk + 1 .. Version /\ desk' \in 1 .. Version
         /\ "behind" \notin Risks => desk' = Version
         /\ moved' = TRUE
         /\ UNCHANGED <<history, mirror, pending, buried, check, cmd, worker, syncs, ages, backups, wrote, purged>>
<1>1. /\ desk' \in IF "behind" \in Risks THEN desk + 1 .. Version ELSE {Version} \ {desk}
      /\ moved' = TRUE
      /\ UNCHANGED <<history, mirror, pending, buried, check, cmd, worker, syncs, ages, backups, wrote, purged>>
  BY DEF DeskHears, store, bounds
<1>2. desk \in 1 .. Version /\ desk \in Nat /\ Version \in Nat
  BY LibraryFacts
<1> QED  BY <1>1, <1>2

LEMMA RestoredView ==
  ASSUME Typed, DeskRestored
  PROVE  /\ backups' \in 0 .. MaxBackups
         /\ desk' \in 1 .. desk - 1 /\ desk' \in 1 .. Version
         /\ "backups" \in Risks \/ \A i \in desk' .. desk : SamePlaces(i, desk)
         /\ moved' = TRUE /\ wrote' = [k \in Keys |-> 0] /\ purged' = {}
         /\ cmd' \in Commands /\ cmd'.op = cmd.op /\ cmd'.key = cmd.key /\ cmd'.val = cmd.val
         /\ cmd'.ver = 0 /\ cmd'.full = cmd.full
         /\ UNCHANGED <<history, mirror, pending, buried, check, worker, syncs, ages>>
<1>1. /\ backups < MaxBackups /\ backups' = backups + 1 /\ desk' \in 1 .. desk - 1
      /\ "backups" \in Risks \/ \A i \in desk' .. desk : SamePlaces(i, desk)
      /\ moved' = TRUE /\ wrote' = [k \in Keys |-> 0] /\ purged' = {}
      /\ cmd' = [cmd EXCEPT !.ver = 0]
      /\ UNCHANGED <<history, mirror, pending, buried, check, worker, syncs, ages>>
  BY DEF DeskRestored, store
<1>2. desk \in 1 .. Version /\ desk \in Nat /\ Version \in Nat /\ backups \in 0 .. MaxBackups /\ MaxBackups \in Nat
  BY LibraryFacts, TypedParts, PendingWritesAssumption DEF TypesCounts
<1>3. /\ cmd' \in Commands /\ cmd'.op = cmd.op /\ cmd'.key = cmd.key /\ cmd'.val = cmd.val
      /\ cmd'.ver = 0 /\ cmd'.full = cmd.full
  BY <1>1, CommandFacts DEF Commands
<1> QED  BY <1>1, <1>2, <1>3

LEMMA ElsewhereView ==
  ASSUME NEW op \in Ops, NEW k \in Keys, NEW v \in Values, Elsewhere(op, k, v)
  PROVE  /\ Lands(op, k, v)
         /\ UNCHANGED <<desk, mirror, pending, buried, check, cmd, worker, syncs, ages, backups, wrote, purged, moved>>
  BY DEF Elsewhere, store, bounds, ghosts

LEMMA CommandView ==
  ASSUME Typed, NEW op \in Ops, NEW k \in Keys, NEW v \in Values, Command(op, k, v)
  PROVE  /\ cmd.op = "idle" /\ Lands(op, k, v)
         /\ op = "edit" =>
              /\ "unseen" \in Risks \/ Desk[k].val \in {mirror["items"][k].val, None} \cup pending[k].was
              /\ "fresh" \in Risks \/ pending[k].kind # "create"
         /\ cmd' \in Commands /\ cmd'.op = op /\ cmd'.key = k /\ cmd'.val = v /\ cmd'.ver = Version + 1
         /\ ~cmd'.full
         /\ UNCHANGED <<desk, mirror, pending, buried, check, worker, syncs, ages, backups, wrote, purged, moved>>
<1>1. /\ cmd = NoCommand /\ Lands(op, k, v)
      /\ op = "edit" =>
              /\ "unseen" \in Risks \/ Desk[k].val \in {mirror["items"][k].val, None} \cup pending[k].was
              /\ "fresh" \in Risks \/ pending[k].kind # "create"
      /\ cmd' = [op |-> op, key |-> k, val |-> v, ver |-> Version + 1, full |-> FALSE]
      /\ UNCHANGED <<desk, mirror, pending, buried, check, worker, syncs, ages, backups, wrote, purged, moved>>
  BY DEF Command, store, bounds, ghosts
<1>2. Version + 1 \in Nat
  BY LibraryFacts
<1>3. cmd' \in Commands
  BY <1>1, <1>2 DEF Commands
<1> QED  BY <1>1, <1>3, CommandFacts

-----------------------------------------------------------------------------
(* The chronicle. *)

LEMMA FollowsItself == \A o, i : o.ver \in Nat => Follows(o, o, i)
  BY DEF Follows

LEMMA LandsChronicle ==
  ASSUME Typed, NEW op \in Ops, NEW k \in Keys, NEW v \in Values, Lands(op, k, v)
  PROVE  Chronicle' /\ (desk' = desk => TypesLibrary' /\ Desk' = Desk)
<1>1. /\ Version' = Version + 1 /\ Version' <= MaxVersion /\ Version \in Nat /\ Version >= 1
      /\ history' \in Seq([Keys -> Objects])
      /\ \A i \in 1 .. Version : history'[i] = history[i]
      /\ Cloud' = history'[Version + 1] /\ Cloud = history[Version]
      /\ \A j \in Keys : Becomes(j, op, k, v)
      /\ op = "create" => Cloud[k].at = "never"
      /\ op \in {"edit", "trash"} => Cloud[k].at = "live"
      /\ op = "restore" => Cloud[k].at = "trash"
      /\ op = "erase" => Cloud[k].at \in {"live", "trash"}
  BY LandsFacts, LibraryFacts DEF Cloud
<1>2. ASSUME NEW j \in Keys
      PROVE  /\ Cloud'[j].ver <= Version + 1 /\ Cloud'[j].ver \in Nat
             /\ Cloud'[j].at = "never" => Cloud'[j].val = None
             /\ Cloud'[j].at # "never" => Cloud'[j].val \in Values /\ Cloud'[j].ver >= 1
             /\ \A i \in 1 .. Version : Follows(history[i][j], Cloud'[j], i)
  <2>1. /\ Cloud[j].ver \in Nat /\ Cloud[j].ver <= Version
        /\ Cloud[j].at \in {"never", "live", "trash", "erased"}
        /\ Cloud[j].at = "never" => Cloud[j].val = None
        /\ Cloud[j].at # "never" => Cloud[j].val \in Values /\ Cloud[j].ver >= 1
        /\ Cloud[j] \in Objects
    BY <1>1, ObjectFacts, LibraryFacts
  <2>2. \A i \in 1 .. Version : /\ Follows(history[i][j], Cloud[j], i)
                                /\ history[i][j].ver \in Nat /\ history[i][j].ver <= i
                                /\ i \in Nat /\ i <= Version
    <3> TAKE i \in 1 .. Version
    <3>1. Version \in i .. Version
      BY <1>1
    <3> QED  BY <1>1, <3>1, ObjectFacts
  <2>3. CASE Cloud'[j] = Cloud[j]
    BY <1>1, <2>1, <2>2, <2>3
  <2>4. CASE Cloud[j].at # "never" /\ Cloud'[j] = [Cloud[j] EXCEPT !.at = "erased"]
    <3>1. Cloud'[j].at = "erased" /\ Cloud'[j].ver = Cloud[j].ver /\ Cloud'[j].val = Cloud[j].val
      BY <2>1, <2>4 DEF Objects
    <3> QED  BY <1>1, <2>1, <2>2, <2>4, <3>1 DEF Follows
  <2>5. CASE /\ j = k /\ op # "erase"
             /\ Cloud'[j].ver = Version + 1 /\ Cloud'[j].val \in Values
             /\ Cloud'[j].at = IF op = "trash" THEN "trash" ELSE "live"
    <3>1. Cloud[j].at # "erased" /\ Cloud'[j].at \in {"live", "trash"}
      BY <1>1, <2>5 DEF Ops
    <3>2. \A i \in 1 .. Version : history[i][j].at # "erased"
      BY <2>2, <3>1 DEF Follows
    <3>3. \A i \in 1 .. Version : Follows(history[i][j], Cloud'[j], i)
      BY <1>1, <2>2, <2>5, <3>1, <3>2 DEF Follows
    <3> QED  BY <1>1, <2>1, <2>5, <3>1, <3>3
  <2> QED  BY <1>1, <2>3, <2>4, <2>5 DEF Becomes
<1>3. ASSUME NEW i \in 1 .. Version', NEW j \in Keys
      PROVE  /\ history'[i][j].ver <= i
             /\ history'[i][j].at = "never" => history'[i][j].val = None
             /\ history'[i][j].at # "never" => history'[i][j].val \in Values /\ history'[i][j].ver >= 1
             /\ \A n \in i .. Version' : Follows(history'[i][j], history'[n][j], i)
  <2>1. CASE i \in 1 .. Version
    <3>1. history'[i] = history[i]
      BY <1>1, <2>1
    <3>2. \A n \in i .. Version' : n = Version + 1 \/ (n \in i .. Version /\ history'[n] = history[n])
      BY <1>1, <2>1
    <3>3. \A n \in i .. Version' : Follows(history'[i][j], history'[n][j], i)
      BY <1>1, <1>2, <2>1, <3>1, <3>2, ObjectFacts
    <3> QED  BY <2>1, <3>1, <3>3, ObjectFacts
  <2>2. CASE i = Version + 1
    <3>1. history'[i] = Cloud' /\ \A n \in i .. Version' : n = i
      BY <1>1, <2>2
    <3> QED  BY <1>2, <2>2, <3>1, FollowsItself
  <2> QED  BY <1>1, <2>1, <2>2
<1>4. Chronicle'
  BY <1>1, <1>3 DEF Chronicle
<1>5. ASSUME desk' = desk PROVE TypesLibrary' /\ Desk' = Desk
  <2>1. desk \in 1 .. Version
    BY LibraryFacts
  <2> QED  BY <1>1, <1>4, <1>5, <2>1 DEF TypesLibrary, Desk
<1> QED  BY <1>4, <1>5

\* What no write undoes.
LEMMA LandsKeeps ==
  ASSUME Typed, NEW op \in Ops, NEW k \in Keys, NEW v \in Values, Lands(op, k, v), NEW j \in Keys
  PROVE  /\ Cloud[j].at # "never" => Cloud'[j].at # "never"
         /\ Cloud[j].at = "erased" => Cloud'[j].at = "erased"
         /\ Cloud[j].ver <= Cloud'[j].ver /\ Cloud[j].ver \in Nat /\ Cloud'[j].ver \in Nat
         /\ Known(j) \subseteq Known(j)'
         /\ Cloud'[j] = Cloud[j] \/ Cloud'[j].at = "erased" \/ Cloud'[j].ver = Version + 1
         /\ op # "erase" => Cloud'[k].ver = Version + 1 /\ Cloud'[k].at \in {"live", "trash"}
<1>1. /\ Version' = Version + 1 /\ Version \in Nat /\ Version \in 1 .. Version
      /\ \A i \in 1 .. Version : history'[i] = history[i]
      /\ Cloud' = history'[Version + 1] /\ Cloud = history[Version]
      /\ \A i \in Keys : Becomes(i, op, k, v)
      /\ Cloud \in [Keys -> Objects]
  BY LandsFacts, LibraryFacts DEF Cloud
<1>2. Chronicle'
  BY LandsChronicle
<1>3. Version + 1 \in Version .. Version' /\ Version \in 1 .. Version' /\ history'[Version] = Cloud
  BY <1>1
<1>4. Follows(Cloud[j], Cloud'[j], Version)
  BY <1>1, <1>2, <1>3 DEF Chronicle
<1>5. Cloud[j].ver \in Nat /\ Cloud'[j].ver \in Nat
  <2>1. Cloud' \in [Keys -> Objects]
    <3>1. history' \in Seq([Keys -> Objects]) /\ Version + 1 \in 1 .. Len(history')
      BY <1>1, LandsFacts DEF Version
    <3> QED  BY <1>1, <3>1
  <2> QED  BY <1>1, <2>1 DEF Objects
<1>6. \A x \in Known(j) : x \in Known(j)'
  <2>1. \A i \in 1 .. Version : i \in 1 .. Version' /\ history'[i] = history[i]
    BY <1>1
  <2> QED  BY <2>1 DEF Known
<1>7. Cloud'[j] = Cloud[j] \/ Cloud'[j].at = "erased" \/ Cloud'[j].ver = Version + 1
  <2>1. [Cloud[j] EXCEPT !.at = "erased"].at = "erased"
    BY <1>1 DEF Objects
  <2> QED  BY <1>1, <2>1 DEF Becomes
<1>8. op # "erase" => Cloud'[k].ver = Version + 1 /\ Cloud'[k].at \in {"live", "trash"}
  BY <1>1 DEF Becomes
<1> QED  BY <1>4, <1>5, <1>6, <1>7, <1>8 DEF Follows

-----------------------------------------------------------------------------
(* The types last. *)

\* A deletion marker tells of an item that is erased.
Deletions ==
    /\ \A k \in Keys : pending[k].kind = "deleted" \/ k \in buried => Cloud[k].at = "erased"
    /\ cmd.op = "erase" => /\ Cloud[cmd.key].at = "erased"
                          /\ \A j \in Family(cmd.key, Keys) : Cloud[j].at \in {"never", "erased"}
    /\ cmd.op \in Ops \ {"erase"} => pending[cmd.key].kind # "deleted"

LEMMA PassRests ==
  ASSUME NEW r \in Resources, worker'[r].pc \notin Busy, worker'[r].rows = {}, worker'[r].top = 0,
         Version' \in Nat
  PROVE  Pass(r)'
  BY DEF Pass, Busy

LEMMA PassKept ==
  ASSUME Typed, NEW r \in Resources, worker'[r] = worker[r], check'[r] = check[r],
         Version' \in Nat, Version' >= Version,
         \A k \in Keys : Suppressed(r, k)' => Suppressed(r, k),
         \A k \in Keys : mirror[r][k].ver = 0 => mirror'[r][k].ver = 0
  PROVE  Pass(r)'
<1>1. Pass(r) /\ Version \in Nat /\ worker[r].top \in Nat
  BY WorkerFacts, LibraryFacts
<1>2. \A row \in worker'[r].rows : row.key \in Keys /\ ~Suppressed(r, row.key)'
  BY ListedRowFacts
<1>3. worker'[r].top <= Version'
  BY <1>1 DEF Pass
<1> QED  BY <1>1, <1>2, <1>3 DEF Pass

LEMMA RestingTyped ==
  ASSUME Typed, TypesLibrary', TypesMirror', TypesCounts', cmd' = NoCommand, check' = check,
         Version' = Version, worker' \in [Resources -> Workers], \A r \in Resources : worker'[r] = NoWorker
  PROVE  Typed'
<1>1. TypesCommand'
  BY RecordTypes, LibraryFacts DEF TypesCommand, Ops
<1>2. \A r \in Resources : Pass(r)'
  BY PassRests, RecordTypes, LibraryFacts DEF Busy
<1>3. TypesWorkers'
  BY <1>2, TypedParts, RecordTypes DEF TypesWorkers
<1> QED  BY <1>1, <1>3, PartsNext

\* After a command's replay.
LEMMA ReplayTyped ==
  ASSUME Typed, cmd.op \in Ops, cmd' = NoCommand,
         UNCHANGED <<history, desk, check, worker, syncs, ages, backups, moved>>,
         TypesMirror', wrote' \in [Keys -> 0 .. Version], purged' \subseteq Keys
  PROVE  Typed'
<1>1. TypesLibrary' /\ Version' = Version
  BY QuietLibrary
<1>2. TypesCounts'
  BY <1>1, TypedParts DEF TypesCounts
<1>3. worker' \in [Resources -> Workers] /\ \A r \in Resources : worker'[r] = NoWorker
  BY CommandFacts, TypedParts DEF TypesWorkers, Ops
<1> QED  BY <1>1, <1>2, <1>3, RestingTyped

LEMMA ReplaysTyped ==
  ASSUME Typed, Deletions,
         MirrorCreate \/ MirrorEdit \/ MirrorTrash \/ MirrorRestore \/ MirrorErase
  PROVE  Typed'
<1>1. wrote \in [Keys -> 0 .. Version] /\ purged \subseteq Keys
  BY TypedParts DEF TypesCounts
<1>2. CASE MirrorCreate
  BY <1>1, <1>2, CreateView, ReplayTyped DEF Ops
<1>3. CASE MirrorEdit
  BY <1>1, <1>3, EditView, ReplayTyped DEF Ops
<1>4. CASE MirrorTrash
  BY <1>1, <1>4, TrashView, ReplayTyped DEF Ops
<1>5. CASE MirrorErase
  BY <1>1, <1>5, EraseView, ReplayTyped DEF Ops
<1>6. CASE MirrorRestore
  <2>1. pending[cmd.key].kind # "deleted"
    BY <1>6, RestoreView DEF Deletions, Ops
  <2>2. \A j \in Keys : pending'[j].kind = "deleted" => mirror'["items"][j] = NoRow
    BY <1>6, <2>1, RestoreView, MarkerFacts
  <2>3. TypesMirror'
    BY <1>6, <2>2, RestoreView, TypedParts DEF TypesMirror
  <2> QED  BY <1>1, <1>6, <2>3, RestoreView, ReplayTyped DEF Ops
<1> QED  BY <1>2, <1>3, <1>4, <1>5, <1>6

LEMMA LandsTyped ==
  ASSUME Typed, NEW op \in Ops, NEW k \in Keys, NEW v \in Values, Elsewhere(op, k, v) \/ Command(op, k, v)
  PROVE  Typed'
<1>1. /\ Lands(op, k, v)
      /\ UNCHANGED <<desk, mirror, pending, buried, check, worker, syncs, ages, backups, wrote, purged, moved>>
      /\ cmd' = cmd \/ /\ cmd' \in Commands /\ cmd'.op = op /\ cmd'.key = k /\ cmd'.val = v
                       /\ cmd'.ver = Version + 1 /\ cmd.op = "idle"
  BY ElsewhereView, CommandView
<1>2. TypesLibrary' /\ Version' = Version + 1 /\ Version \in Nat
  BY <1>1, LandsChronicle, LandsFacts, LibraryFacts
<1>3. TypesMirror'
  BY <1>1, TypedParts DEF TypesMirror
<1>4. TypesCounts'
  <2>1. \A n \in 0 .. Version : n \in 0 .. Version'
    BY <1>2
  <2> QED  BY <1>1, <2>1, TypedParts DEF TypesCounts
<1>5. TypesCommand'
  BY <1>1, <1>2, TypedParts, CommandFacts DEF TypesCommand, Ops
<1>6. \A r \in Resources : Pass(r)'
  <2> TAKE r \in Resources
  <2> QED  BY <1>1, <1>2, PassKept DEF Suppressed
<1>7. TypesWorkers'
  <2>1. \A n \in 0 .. Version : n \in 0 .. Version'
    BY <1>2
  <2>2. check' \in [Resources -> 0 .. Version']
    BY <1>1, <2>1, TypedParts DEF TypesWorkers
  <2>3. cmd'.op # "sync" => \A r \in Resources : worker'[r] = NoWorker
    BY <1>1, CommandFacts
  <2>4. cmd'.op = "sync" => cmd' = cmd
    BY <1>1 DEF Ops
  <2> QED  BY <1>1, <1>6, <2>2, <2>3, <2>4, TypedParts DEF TypesWorkers
<1> QED  BY <1>2, <1>3, <1>4, <1>5, <1>7, PartsNext

LEMMA DeskTyped ==
  ASSUME Typed, DeskHears \/ DeskRestored \/ Age
  PROVE  Typed'
<1>1. /\ UNCHANGED <<history, mirror, buried, check, worker, syncs>> /\ desk' \in 1 .. Version
      /\ \A j \in Keys : pending'[j].kind = pending[j].kind
      /\ TypesMirror'
  <2>1. CASE DeskHears
    BY <2>1, HearsView, QuietMirror
  <2>2. CASE DeskRestored
    <3>1. TypesMirror'
      BY <2>2, RestoredView, TypedParts DEF TypesMirror
    <3> QED  BY <2>2, <3>1, RestoredView
  <2>3. CASE Age
    BY <2>3, AgeView, LibraryFacts
  <2> QED  BY <2>1, <2>2, <2>3
<1>2. TypesLibrary' /\ Version' = Version /\ Version \in Nat
  BY <1>1, QuietLibrary, LibraryFacts
<1>3. TypesCounts'
  <2>1. CASE DeskHears
    BY <1>2, <2>1, HearsView, TypedParts DEF TypesCounts
  <2>2. CASE DeskRestored
    <3>1. 0 \in 0 .. Version
      BY <1>2
    <3> QED  BY <1>2, <2>2, <3>1, RestoredView, TypedParts DEF TypesCounts
  <2>3. CASE Age
    BY <1>2, <2>3, AgeView, TypedParts DEF TypesCounts
  <2> QED  BY <2>1, <2>2, <2>3
<1>4. /\ cmd' \in Commands /\ cmd'.op = cmd.op /\ cmd'.key = cmd.key /\ cmd'.val = cmd.val
      /\ cmd'.full = cmd.full /\ cmd'.ver <= Version
  <2>1. CASE DeskHears
    BY <2>1, HearsView, CommandFacts
  <2>2. CASE DeskRestored
    BY <2>2, RestoredView, LibraryFacts
  <2>3. CASE Age
    BY <2>3, AgeView, CommandFacts
  <2> QED  BY <2>1, <2>2, <2>3
<1>5. TypesCommand'
  BY <1>2, <1>4, TypedParts DEF TypesCommand
<1>6. \A r \in Resources : Pass(r)'
  <2> TAKE r \in Resources
  <2>1. \A k \in Keys : Suppressed(r, k)' => Suppressed(r, k)
    BY <1>1 DEF Suppressed
  <2> QED  BY <1>1, <1>2, <2>1, PassKept
<1>7. TypesWorkers'
  BY <1>1, <1>2, <1>4, <1>6, TypedParts DEF TypesWorkers
<1> QED  BY <1>1, <1>2, <1>3, <1>5, <1>7, PartsNext
\* A step of worker r, all but its own pass.
LEMMA WorkTyped ==
  ASSUME Typed, NEW r \in Resources, UNCHANGED <<history, desk, cmd, syncs, ages, backups, purged, moved>>,
         cmd.op = "sync",
         TypesMirror', wrote' \in [Keys -> 0 .. Version],
         worker' \in [Resources -> Workers], check' \in [Resources -> 0 .. Version],
         \A q \in Resources : q # r => worker'[q] = worker[q] /\ check'[q] = check[q],
         cmd.full /\ worker'[r].pc \notin {"done", "failed"} => worker'[r].full,
         \A q \in Resources, k \in Keys : q # r => /\ Suppressed(q, k)' => Suppressed(q, k)
                                                   /\ mirror[q][k].ver = 0 => mirror'[q][k].ver = 0,
         Pass(r)'
  PROVE  Typed'
<1>1. TypesLibrary' /\ Version' = Version /\ Version \in Nat
  BY QuietLibrary, LibraryFacts
<1>2. TypesCounts'
  BY <1>1, TypedParts DEF TypesCounts
<1>3. TypesCommand'
  BY <1>1, TypedParts DEF TypesCommand
<1>4. \A q \in Resources : Pass(q)'
  <2> TAKE q \in Resources
  <2>1. CASE q # r
    BY <1>1, <2>1, PassKept
  <2> QED  BY <2>1
<1>5. TypesWorkers'
  BY <1>1, <1>4, TypedParts DEF TypesWorkers
<1> QED  BY <1>1, <1>2, <1>3, <1>5, PartsNext

\* A worker that is at work works for a sync.
LEMMA AtWork ==
  ASSUME Typed, NEW r \in Resources, worker[r].pc # "idle"
  PROVE  cmd.op = "sync" /\ (cmd.full /\ worker[r].pc \notin {"done", "failed"} => worker[r].full)
  BY CommandFacts, RecordTypes DEF Typed, Shapes

LEMMA BeginTyped ==
  ASSUME Typed, NEW r \in Resources, BeginPass(r)
  PROVE  Typed'
<1>1. /\ worker[r].pc = "begin" /\ Pass(r) /\ worker[r].rows = {} /\ worker[r].top = 0
      /\ cmd.op = "sync" /\ (cmd.full => worker[r].full)
  BY BeginView, WorkerFacts, AtWork DEF Pass, Busy
<1>2. \A q \in Resources, k \in Keys : /\ mirror[q][k].ver = 0 => mirror'[q][k].ver = 0
                                       /\ Suppressed(q, k)' => Suppressed(q, k)
  BY BeginView, RecordTypes DEF Suppressed
<1>3. Version' = Version /\ Version \in Nat /\ check[r] \in Nat
  BY BeginView, QuietLibrary, LibraryFacts, WorkerFacts
<1>4. /\ worker'[r].pc = "fetch" /\ worker'[r].full = worker[r].full /\ worker'[r].rows = {} /\ worker'[r].top = 0
      /\ worker'[r].since = IF worker'[r].full THEN 0 ELSE check[r]
      /\ worker' \in [Resources -> Workers] /\ \A q \in Resources : q # r => worker'[q] = worker[q]
  BY <1>1, BeginView DEF Works
<1>5. Pass(r)'
  BY <1>1, <1>3, <1>4, BeginView DEF Pass, Busy
<1> QED  BY <1>1, <1>2, <1>4, <1>5, BeginView, TypedParts, WorkTyped DEF TypesWorkers

LEMMA FetchTyped ==
  ASSUME Typed, NEW r \in Resources, FetchListing(r)
  PROVE  Typed'
<1>1. /\ worker[r].pc = "fetch" /\ Pass(r)
      /\ cmd.op = "sync" /\ (cmd.full => worker[r].full)
  BY FetchView, WorkerFacts, AtWork
<1>2. \A q \in Resources, k \in Keys : Suppressed(q, k)' => Suppressed(q, k)
  BY FetchView, RecordTypes DEF Suppressed
<1>3. Version' = Version /\ Version \in Nat /\ desk \in Nat /\ desk <= Version
  BY FetchView, QuietLibrary, LibraryFacts
<1>4. /\ worker'[r].full = worker[r].full /\ worker'[r].since = worker[r].since
      /\ worker' \in [Resources -> Workers] /\ \A q \in Resources : q # r => worker'[q] = worker[q]
  BY FetchView DEF Works
<1>5. worker'[r].pc \in {"store", "sweep", "verify"} /\ worker'[r].top <= Version'
      /\ worker'[r].pc = "verify" => ~worker'[r].full
  BY <1>3, <1>4, FetchView
<1>6. worker'[r].pc # "store" => worker'[r].rows = {}
  BY FetchView
<1>7. \A row \in worker'[r].rows :
         /\ row.key \in worker'[r].seen /\ row.ver > worker'[r].since /\ row.ver <= worker'[r].top
         /\ ~Suppressed(r, row.key)'
         /\ \A row2 \in worker'[r].rows : row2.key = row.key => row2 = row
  <2> TAKE row \in worker'[r].rows
  <2>1. /\ row.key \in Keys /\ Heard(r, row.key) /\ ~Suppressed(r, row.key)
        /\ row = [key |-> row.key, val |-> Sent(r, row.key), ver |-> Desk[row.key].ver]
        /\ \A row2 \in worker'[r].rows : row2 = [key |-> row2.key, val |-> Sent(r, row2.key), ver |-> Desk[row2.key].ver]
    BY FetchView
  <2>2. row.ver = Desk[row.key].ver
    BY <2>1
  <2>3. row.key \in worker'[r].seen /\ row.ver <= worker'[r].top
    BY <2>1, <2>2, FetchView
  <2>4. row.ver > worker'[r].since
    BY <1>4, <2>1, <2>2 DEF Heard
  <2>5. ~Suppressed(r, row.key)'
    BY <1>2, <2>1
  <2>6. \A row2 \in worker'[r].rows : row2.key = row.key => row2 = row
    BY <2>1
  <2> QED  BY <2>3, <2>4, <2>5, <2>6
<1>8. Pass(r)'
  BY <1>1, <1>3, <1>4, <1>5, <1>6, <1>7, FetchView DEF Pass, Busy
<1> QED  BY <1>1, <1>2, <1>4, <1>8, FetchView, TypedParts, WorkTyped DEF TypesWorkers, TypesCounts

LEMMA VerifyTyped ==
  ASSUME Typed, NEW r \in Resources, Verify(r)
  PROVE  Typed'
<1>1. /\ worker[r].pc = "verify" /\ Pass(r) /\ worker[r].rows = {}
      /\ cmd.op = "sync" /\ (cmd.full => worker[r].full)
  BY VerifyView, WorkerFacts, AtWork DEF Pass
<1>2. Version' = Version /\ Version \in Nat
  BY VerifyView, QuietLibrary, LibraryFacts
<1>3. /\ worker' \in [Resources -> Workers] /\ \A q \in Resources : q # r => worker'[q] = worker[q]
      /\ \/ /\ worker'[r].pc = "stamp" /\ worker'[r].full = worker[r].full /\ worker'[r].since = worker[r].since
            /\ worker'[r].rows = {} /\ worker'[r].top = worker[r].top
         \/ worker'[r].pc = "begin" /\ worker'[r].full /\ worker'[r].rows = {} /\ worker'[r].top = 0
  BY <1>1, VerifyView DEF Works
<1>4. Pass(r)'
  BY <1>1, <1>2, <1>3, VerifyView DEF Pass, Busy
<1>5. TypesMirror' /\ wrote' \in [Keys -> 0 .. Version]
  BY VerifyView, QuietMirror
<1>6. \A q \in Resources, k \in Keys : Suppressed(q, k)' => Suppressed(q, k)
  BY VerifyView DEF Suppressed
<1> QED  BY <1>1, <1>3, <1>4, <1>5, <1>6, VerifyView, TypedParts, WorkTyped DEF TypesWorkers

LEMMA StoreTyped ==
  ASSUME Typed, NEW r \in Resources, Store(r)
  PROVE  Typed'
<1>1. /\ worker[r].pc = "store" /\ Pass(r)
      /\ cmd.op = "sync" /\ (cmd.full => worker[r].full)
  BY StoreView, WorkerFacts, AtWork
<1>2. Version' = Version /\ Version \in Nat
  BY StoreView, QuietLibrary, LibraryFacts
<1>3. /\ worker' \in [Resources -> Workers] /\ \A q \in Resources : q # r => worker'[q] = worker[q]
      /\ worker'[r].pc = "sweep" /\ worker'[r].full = worker[r].full /\ worker'[r].since = worker[r].since
      /\ worker'[r].rows = {} /\ worker'[r].top = worker[r].top
  BY StoreView DEF Works
<1>4. Pass(r)'
  BY <1>1, <1>2, <1>3, StoreView DEF Pass, Busy
<1>5. TypesMirror' /\ wrote' \in [Keys -> 0 .. Version]
  BY StoreView, TypedParts DEF TypesCounts
<1>6. \A q \in Resources, k \in Keys : Suppressed(q, k)' => Suppressed(q, k)
  BY StoreView DEF Suppressed
<1>7. \A q \in Resources, k \in Keys : q # r => (mirror[q][k].ver = 0 => mirror'[q][k].ver = 0)
  <2> TAKE q \in Resources, k \in Keys
  <2>1. CASE \E row \in worker[r].rows : row.key = k
    BY <2>1, StoreView, RecordTypes, PlaneFacts
  <2>2. CASE \A row \in worker[r].rows : row.key # k
    BY <2>2, StoreView
  <2> QED  BY <2>1, <2>2
<1> QED  BY <1>1, <1>3, <1>4, <1>5, <1>6, <1>7, StoreView, TypedParts, WorkTyped DEF TypesWorkers

LEMMA SweepTyped ==
  ASSUME Typed, NEW r \in Resources, Sweep(r)
  PROVE  Typed'
<1>1. /\ worker[r].pc = "sweep" /\ Pass(r) /\ worker[r].rows = {}
      /\ cmd.op = "sync" /\ (cmd.full => worker[r].full)
  BY SweepView, WorkerFacts, AtWork DEF Pass
<1>2. Version' = Version /\ Version \in Nat
  BY SweepView, QuietLibrary, LibraryFacts
<1>3. /\ worker' \in [Resources -> Workers] /\ \A q \in Resources : q # r => worker'[q] = worker[q]
      /\ worker'[r].pc = "stamp" /\ worker'[r].full = worker[r].full /\ worker'[r].since = worker[r].since
      /\ worker'[r].rows = {} /\ worker'[r].top = worker[r].top
  BY <1>1, SweepView DEF Works
<1>4. Pass(r)'
  BY <1>1, <1>2, <1>3, SweepView DEF Pass, Busy
<1>5. \A q \in Resources, k \in Keys : q # r => /\ Suppressed(q, k)' => Suppressed(q, k)
                                                /\ mirror[q][k].ver = 0 => mirror'[q][k].ver = 0
  <2>1. CASE worker[r].full
    BY <2>1, SweepView, RecordTypes, PlaneFacts DEF Sweeps, Suppressed
  <2>2. CASE ~worker[r].full
    BY <2>2, SweepView DEF Suppressed
  <2> QED  BY <2>1, <2>2
<1> QED  BY <1>1, <1>3, <1>4, <1>5, SweepView, TypedParts, WorkTyped DEF TypesWorkers

LEMMA EndsTyped ==
  ASSUME Typed, NEW r \in Resources, Stamp(r) \/ FailPass(r)
  PROVE  Typed'
<1>1. cmd.op = "sync"
  BY StampView, FailView, AtWork
<1>2. /\ UNCHANGED <<history, desk, mirror, pending, buried, cmd, syncs, ages, backups, wrote, purged, moved>>
      /\ worker' \in [Resources -> Workers]
      /\ \A q \in Resources : q # r => worker'[q] = worker[q] /\ check'[q] = check[q]
      /\ worker'[r].pc \in {"done", "failed"} /\ worker'[r].rows = {} /\ worker'[r].top = 0
      /\ check' \in [Resources -> 0 .. Version]
  <2>1. CASE Stamp(r)
    BY <2>1, StampView
  <2>2. CASE FailPass(r)
    BY <2>2, FailView, TypedParts DEF TypesWorkers
  <2> QED  BY <2>1, <2>2
<1>3. Version' = Version /\ Version \in Nat
  BY <1>2, QuietLibrary, LibraryFacts
<1>4. Pass(r)'
  BY <1>2, <1>3, PassRests DEF Busy
<1>5. \A q \in Resources, k \in Keys : Suppressed(q, k)' => Suppressed(q, k)
  BY <1>2 DEF Suppressed
<1>6. TypesMirror' /\ wrote' \in [Keys -> 0 .. Version]
  BY <1>2, QuietMirror
<1> QED  BY <1>1, <1>2, <1>4, <1>5, <1>6, WorkTyped

LEMMA SyncTyped ==
  ASSUME Typed, (\E full \in BOOLEAN : StartSync(full)) \/ FinishSync \/ Kill
  PROVE  Typed'
<1>1. ASSUME NEW full \in BOOLEAN, StartSync(full) PROVE Typed'
  <2>1. TypesLibrary' /\ Version' = Version /\ Version \in Nat
    BY <1>1, StartView, QuietLibrary, LibraryFacts
  <2>2. TypesMirror' /\ wrote' \in [Keys -> 0 .. Version]
    BY <1>1, StartView, QuietMirror
  <2>3. TypesCounts'
    BY <1>1, <2>1, <2>2, StartView, TypedParts DEF TypesCounts
  <2>4. TypesCommand'
    <3>1. cmd'.op = "sync" /\ cmd' \in Commands /\ cmd'.ver = 0
      BY <1>1, StartView
    <3> QED  BY <2>1, <3>1 DEF TypesCommand, Ops
  <2>5. \A r \in Resources : Pass(r)'
    BY <1>1, <2>1, StartView, PassRests DEF Busy
  <2>6. TypesWorkers'
    BY <1>1, <2>1, <2>5, StartView, TypedParts DEF TypesWorkers
  <2> QED  BY <2>1, <2>2, <2>3, <2>4, <2>5, <2>6, PartsNext
<1>2. ASSUME FinishSync \/ Kill PROVE Typed'
  <2>1. /\ cmd' = NoCommand /\ worker' = [r \in Resources |-> NoWorker]
        /\ UNCHANGED <<history, desk, check, syncs, ages, backups, purged, moved>>
    BY <1>2, FinishView, KillView
  <2>2. TypesMirror' /\ wrote' \in [Keys -> 0 .. Version]
    BY <1>2, FinishView, KillView, QuietMirror
  <2>3. TypesLibrary' /\ Version' = Version
    BY <2>1, QuietLibrary
  <2>4. TypesCounts'
    BY <2>1, <2>2, <2>3, TypedParts DEF TypesCounts
  <2>5. worker' \in [Resources -> Workers] /\ \A r \in Resources : worker'[r] = NoWorker
    BY <2>1, RecordTypes
  <2> QED  BY <2>1, <2>2, <2>3, <2>4, <2>5, RestingTyped
<1> QED  BY <1>1, <1>2

LEMMA TypesLast ==
  ASSUME Typed, Deletions, PlanesNext
  PROVE  Typed'
<1>1. ASSUME NEW r \in Resources,
             BeginPass(r) \/ FetchListing(r) \/ Verify(r) \/ Store(r) \/ Sweep(r) \/ Stamp(r) \/ FailPass(r)
      PROVE  Typed'
  BY <1>1, BeginTyped, FetchTyped, VerifyTyped, StoreTyped, SweepTyped, EndsTyped
<1> QED  BY <1>1, LandsTyped, DeskTyped, ReplaysTyped, SyncTyped DEF PlanesNext

-----------------------------------------------------------------------------
(* Where what zotio has of an item came from. *)

\* A row is one the library had.
Native(k, row) ==
    /\ row # NoRow => Cloud[k].at # "never"
    /\ row.ver <= Cloud[k].ver
    /\ row.val \in Known(k)
Inbound(row) ==
    /\ Cloud[row.key].at # "never"
    /\ row.ver <= Cloud[row.key].ver
    /\ row.val \in Known(row.key)
Noted(m, k) == m.was \subseteq Known(k) /\ m.written \in Known(k)

\* What zotio has of an item came from the library.
Origins ==
    /\ \A r \in Resources, k \in Keys : Native(k, mirror[r][k])
    /\ \A r \in Resources : \A row \in worker[r].rows : Inbound(row)
    /\ \A k \in Keys : Noted(pending[k], k)
    /\ cmd.op \in {"create", "edit"} => cmd.val \in Known(cmd.key) /\ Cloud[cmd.key].at # "never"

\* What every layer below rests on.
Base == Typed /\ Origins /\ Deletions

\* What is known of an item when the library stays as it is.
LEMMA QuietKnown == ASSUME history' = history, NEW k PROVE Known(k)' = Known(k) /\ Cloud' = Cloud
  BY DEF Known, Cloud, Version

LEMMA KnownFacts ==
  ASSUME Typed, NEW k \in Keys
  PROVE  None \in Known(k) /\ Cloud[k].val \in Known(k) /\ Desk[k].val \in Known(k)
         /\ Desk[k].ver <= Cloud[k].ver /\ (Desk[k].at # "never" => Cloud[k].at # "never")
         /\ (Desk[k].at = "erased" => Cloud[k].at = "erased")
<1>1. desk \in 1 .. Version /\ Version \in 1 .. Version /\ Version \in desk .. Version
  BY LibraryFacts
<1>2. Follows(Desk[k], Cloud[k], desk)
  BY <1>1, ObjectFacts DEF Desk, Cloud
<1> QED  BY <1>1, <1>2 DEF Follows, Known, Desk, Cloud

LEMMA NothingIsNative ==
  ASSUME Typed, NEW k \in Keys
  PROVE  Native(k, NoRow) /\ Noted(NoMarker, k) /\ Noted(Deleted, k)
<1>1. Cloud[k].ver \in Nat
  BY LibraryFacts, ObjectFacts DEF Cloud
<1> QED  BY <1>1, RecordTypes, KnownFacts DEF Native, Noted

LEMMA BareIsNative ==
  ASSUME Typed, NEW k \in Keys, NEW val \in Known(k), Cloud[k].at # "never"
  PROVE  Native(k, [val |-> val, ver |-> 0])
<1>1. Cloud[k].ver \in Nat
  BY LibraryFacts, ObjectFacts DEF Cloud
<1> QED  BY <1>1 DEF Native

\* A step that leaves the library alone.
LEMMA QuietOrigins ==
  ASSUME Typed, history' = history,
         \A r \in Resources, k \in Keys : Native(k, mirror'[r][k]),
         \A r \in Resources : \A row \in worker'[r].rows : Inbound(row),
         \A k \in Keys : Noted(pending'[k], k),
         cmd'.op \in {"create", "edit"} => cmd'.val \in Known(cmd'.key) /\ Cloud[cmd'.key].at # "never"
  PROVE  Origins'
<1>1. Cloud' = Cloud
  BY QuietKnown
<1>2. \A r \in Resources, k \in Keys : Native(k, mirror[r][k])'
  BY <1>1, QuietKnown DEF Native
<1>3. \A r \in Resources : \A row \in worker'[r].rows : Inbound(row)'
  BY <1>1, QuietKnown DEF Inbound
<1>4. \A k \in Keys : Noted(pending[k], k)'
  BY QuietKnown DEF Noted
<1>5. cmd'.op \in {"create", "edit"} => cmd'.val \in Known(cmd.key)' /\ Cloud'[cmd'.key].at # "never"
  BY <1>1, QuietKnown
<1> QED  BY <1>2, <1>3, <1>4, <1>5 DEF Origins, Native, Inbound, Noted

LEMMA LandsOrigins ==
  ASSUME Typed, Origins, NEW op \in Ops, NEW k \in Keys, NEW v \in Values,
         Elsewhere(op, k, v) \/ Command(op, k, v)
  PROVE  Origins'
<1>1. /\ Lands(op, k, v)
      /\ UNCHANGED <<mirror, pending, worker>>
      /\ cmd' = cmd \/ (cmd'.op = op /\ cmd'.key = k /\ cmd'.val = v)
  BY ElsewhereView, CommandView
<1>2. \A j \in Keys : /\ Known(j) \subseteq Known(j)' /\ Cloud[j].ver <= Cloud'[j].ver
                      /\ Cloud[j].at # "never" => Cloud'[j].at # "never"
                      /\ Cloud[j].ver \in Nat /\ Cloud'[j].ver \in Nat
  BY <1>1, LandsKeeps
<1>3. \A r \in Resources, j \in Keys : Native(j, mirror[r][j])'
  <2> TAKE r \in Resources, j \in Keys
  <2>1. Native(j, mirror[r][j]) /\ mirror[r][j].ver \in Nat
    BY RowFacts DEF Origins
  <2> QED  BY <1>1, <1>2, <2>1 DEF Native
<1>4. \A r \in Resources : \A row \in worker'[r].rows : Inbound(row)'
  <2> TAKE r \in Resources
  <2> TAKE row \in worker'[r].rows
  <2>1. Inbound(row) /\ row.key \in Keys /\ row.ver \in Nat
    BY <1>1, ListedRowFacts DEF Origins
  <2> QED  BY <1>1, <1>2, <2>1 DEF Inbound
<1>5. \A j \in Keys : Noted(pending[j], j)'
  <2> TAKE j \in Keys
  <2>1. Noted(pending[j], j)
    BY DEF Origins
  <2> QED  BY <1>1, <1>2, <2>1 DEF Noted
<1>6. cmd'.op \in {"create", "edit"} => cmd'.val \in Known(cmd.key)' /\ Cloud'[cmd'.key].at # "never"
  <2>1. CASE cmd' = cmd
    BY <1>2, <2>1, CommandFacts DEF Ops, Origins
  <2>2. CASE cmd'.op = op /\ cmd'.key = k /\ cmd'.val = v
    <3>1. ASSUME op \in {"create", "edit"} PROVE Cloud'[k].val = v /\ Cloud'[k].at # "never"
      <4>1. /\ Cloud'[k].at \in {"live", "trash"} /\ Becomes(k, op, k, v)
            /\ Cloud'[k].ver = Version + 1 /\ Version \in Nat
            /\ Cloud[k].ver \in Nat /\ Cloud[k].ver <= Version
        BY <1>1, <3>1, LandsKeeps, LandsFacts, LibraryFacts, ObjectFacts DEF Cloud
      <4> QED  BY <3>1, <4>1 DEF Becomes
    <3>2. Version' = Version + 1 /\ Cloud' = history'[Version + 1] /\ Version \in Nat
      BY <1>1, LandsFacts, LibraryFacts
    <3>3. Version + 1 \in 1 .. Version'
      BY <3>2
    <3> QED  BY <2>2, <3>1, <3>2, <3>3 DEF Known
  <2> QED  BY <1>1, <2>1, <2>2
<1> QED  BY <1>3, <1>4, <1>5, <1>6 DEF Origins, Native, Inbound, Noted

LEMMA ReplayOrigins ==
  ASSUME Typed, Origins, MirrorCreate \/ MirrorEdit \/ MirrorTrash \/ MirrorRestore \/ MirrorErase
  PROVE  Origins'
<1>0. /\ history' = history /\ worker' = worker /\ cmd'.op = "idle"
  BY CreateView, EditView, TrashView, RestoreView, EraseView, RecordTypes
<1>1. /\ \A r \in Resources, k \in Keys : Native(k, mirror[r][k])
      /\ \A k \in Keys : Noted(pending[k], k)
      /\ \A r \in Resources : \A row \in worker'[r].rows : Inbound(row)
  BY <1>0 DEF Origins
<1> SUFFICES /\ \A r \in Resources, k \in Keys : Native(k, mirror'[r][k])
             /\ \A k \in Keys : Noted(pending'[k], k)
  BY <1>0, <1>1, QuietOrigins
<1>2. CASE MirrorCreate
  <2>1. /\ cmd.key \in Keys /\ cmd.val \in Known(cmd.key) /\ Cloud[cmd.key].at # "never"
    BY <1>2, CreateView DEF Origins
  <2>2. Native(cmd.key, [val |-> cmd.val, ver |-> 0])
    BY <2>1, BareIsNative
  <2>3. Noted([NoMarker EXCEPT !.kind = "create"], cmd.key)
    <3>1. /\ [NoMarker EXCEPT !.kind = "create"].was = {}
          /\ [NoMarker EXCEPT !.kind = "create"].written = None
      BY DEF NoMarker
    <3> QED  BY <2>1, <3>1, KnownFacts DEF Noted
  <2> QED  BY <1>1, <1>2, <2>2, <2>3, CreateView
<1>3. CASE MirrorEdit
  <2> DEFINE k == cmd.key
             old == mirror["items"][k]
  <2>1. /\ k \in Keys /\ cmd.val \in Known(k) /\ Cloud[k].at # "never" /\ old.val \in Known(k)
        /\ Noted(pending[k], k)
    BY <1>1, <1>3, EditView, PlaneFacts DEF Native, Origins
  <2>2. Native(k, [val |-> cmd.val, ver |-> 0])
    BY <2>1, BareIsNative
  <2>3. CASE old = NoRow
    BY <1>1, <1>3, <2>3, EditView
  <2>4. CASE old # NoRow
    <3>1. \/ pending'[k].was = pending[k].was /\ pending'[k].written = pending[k].written
          \/ /\ pending'[k].written = cmd.val
             /\ pending'[k].was = {old.val} \/ pending'[k].was = {old.val, pending[k].written} \cup pending[k].was
      BY <1>3, <2>4, EditView
    <3>2. Noted(pending'[k], k)
      <4> HIDE DEF k, old
      <4> QED  BY <2>1, <3>1 DEF Noted
    <3> QED  BY <1>1, <1>3, <2>2, <2>4, <3>2, EditView
  <2> QED  BY <2>3, <2>4
<1>4. CASE MirrorTrash
  <2>1. ASSUME NEW r \in Resources, NEW k \in Keys PROVE Native(k, mirror'[r][k])
    BY <1>1, <1>4, TrashView, PlaneFacts
  <2> QED  BY <1>1, <1>4, <2>1, TrashView
<1>5. CASE MirrorRestore
  <2> DEFINE k == cmd.key
             kept == mirror["items-trash"][k]
  <2>1. k \in Keys /\ Native(k, kept)
    BY <1>1, <1>5, RestoreView, PlaneFacts
  <2>2. kept # NoRow => Native(k, [val |-> kept.val, ver |-> 0])
    BY <2>1, BareIsNative DEF Native
  <2>3. Native(k, mirror'["items"][k])
    BY <1>1, <1>5, <2>1, <2>2, RestoreView, PlaneFacts
  <2> QED  BY <1>1, <1>5, <2>3, RestoreView, PlaneFacts, NothingIsNative
<1>6. CASE MirrorErase
  BY <1>1, <1>6, EraseView, NothingIsNative
<1> QED  BY <1>2, <1>3, <1>4, <1>5, <1>6

LEMMA RestOrigins ==
  ASSUME Typed, Origins, NEW full \in BOOLEAN,
         DeskHears \/ DeskRestored \/ Age \/ StartSync(full) \/ FinishSync \/ Kill
  PROVE  Origins'
<1>1. /\ history' = history
      /\ \A r \in Resources, k \in Keys : mirror'[r][k] = mirror[r][k] \/ mirror'[r][k] = NoRow
      /\ \A r \in Resources : worker'[r].rows = worker[r].rows \/ worker'[r].rows = {}
      /\ \A k \in Keys : \/ pending'[k] = NoMarker
                         \/ pending'[k].was = pending[k].was /\ pending'[k].written = pending[k].written
      /\ cmd'.op \in {"create", "edit"} => cmd'.op = cmd.op /\ cmd'.val = cmd.val /\ cmd'.key = cmd.key
  <2>1. CASE DeskHears
    BY <2>1, HearsView
  <2>2. CASE DeskRestored
    BY <2>2, RestoredView
  <2>3. CASE Age
    BY <2>3, AgeView
  <2>4. CASE StartSync(full)
    BY <2>4, StartView
  <2>5. CASE FinishSync
    BY <2>5, FinishView, RecordTypes, PlaneFacts DEF Sweeps
  <2>6. CASE Kill
    BY <2>6, KillView, RecordTypes
  <2> QED  BY <2>1, <2>2, <2>3, <2>4, <2>5, <2>6
<1>2. /\ \A r \in Resources, k \in Keys : Native(k, mirror[r][k])
      /\ \A k \in Keys : Noted(pending[k], k)
      /\ \A r \in Resources : \A row \in worker[r].rows : Inbound(row)
      /\ cmd.op \in {"create", "edit"} => cmd.val \in Known(cmd.key) /\ Cloud[cmd.key].at # "never"
  BY DEF Origins
<1>3. \A k \in Keys : Noted(pending'[k], k)
  BY <1>1, <1>2, NothingIsNative DEF Noted
<1> QED  BY <1>1, <1>2, <1>3, NothingIsNative, QuietOrigins

LEMMA WorkOrigins ==
  ASSUME Typed, Origins, NEW r \in Resources,
         BeginPass(r) \/ FetchListing(r) \/ Verify(r) \/ Store(r) \/ Sweep(r) \/ Stamp(r) \/ FailPass(r)
  PROVE  Origins'
<1>1. /\ \A q \in Resources, k \in Keys : Native(k, mirror[q][k])
      /\ \A k \in Keys : Noted(pending[k], k)
      /\ \A q \in Resources : \A row \in worker[q].rows : Inbound(row)
      /\ cmd.op \in {"create", "edit"} => cmd.val \in Known(cmd.key) /\ Cloud[cmd.key].at # "never"
  BY DEF Origins
<1>2. history' = history /\ cmd' = cmd /\ \A q \in Resources : q # r => worker'[q] = worker[q]
  BY BeginView, FetchView, VerifyView, StoreView, SweepView, StampView, FailView DEF Works
<1> SUFFICES /\ \A q \in Resources, k \in Keys : Native(k, mirror'[q][k])
             /\ \A row \in worker'[r].rows : Inbound(row)
             /\ \A k \in Keys : Noted(pending'[k], k)
  BY <1>1, <1>2, QuietOrigins
<1>3. CASE BeginPass(r)
  <2>1. worker'[r].rows = worker[r].rows
    BY <1>3, BeginView DEF Works
  <2>2. \A k \in Keys : Cloud[k].ver \in Nat
    BY LibraryFacts, ObjectFacts DEF Cloud
  <2>3. \A q \in Resources, k \in Keys :
           /\ mirror'[q][k].val = mirror[q][k].val /\ mirror'[q][k].ver \in {0, mirror[q][k].ver}
           /\ mirror'[q][k] = NoRow <=> mirror[q][k] = NoRow
    BY <1>3, BeginView
  <2>4. \A q \in Resources, k \in Keys : Native(k, mirror'[q][k])
    BY <1>1, <2>2, <2>3 DEF Native
  <2> QED  BY <1>1, <1>3, <2>1, <2>4, BeginView, NothingIsNative
<1>4. CASE FetchListing(r)
  <2>1. ASSUME NEW row \in worker'[r].rows PROVE Inbound(row)
    <3>1. /\ row.key \in Keys /\ Desk[row.key].at = Place(r) /\ row.val = Sent(r, row.key) /\ row.ver = Desk[row.key].ver
      BY <1>4, FetchView DEF Heard
    <3>2. Desk[row.key].at # "never"
      BY <3>1, PlaneFacts
    <3>3. Sent(r, row.key) \in Known(row.key)
      BY <1>1, <3>1, KnownFacts DEF Sent, Noted
    <3> QED  BY <3>1, <3>2, <3>3, KnownFacts DEF Inbound
  <2> QED  BY <1>1, <1>4, <2>1, FetchView, NothingIsNative
<1>5. CASE Verify(r)
  <2>1. worker'[r].rows = worker[r].rows \/ worker'[r].rows = {}
    BY <1>5, VerifyView DEF Works
  <2> QED  BY <1>1, <1>5, <2>1, VerifyView
<1>6. CASE Store(r)
  <2>1. worker'[r].rows = {}
    BY <1>6, StoreView DEF Works
  <2>2. ASSUME NEW row \in worker[r].rows, NEW q \in Resources PROVE Native(row.key, mirror'[q][row.key])
    <3>1. /\ row.key \in Keys /\ Native(row.key, mirror[r][row.key]) /\ Native(row.key, mirror[Other(r)][row.key])
          /\ Inbound(row) /\ Native(row.key, NoRow)
      BY <1>1, ListedRowFacts, PlaneFacts, NothingIsNative
    <3>2. Native(row.key, [val |-> row.val, ver |-> row.ver])
      BY <3>1 DEF Native, Inbound
    <3>3. Native(row.key, Landed(r, row))
      BY <1>6, <3>1, <3>2, StoreView
    <3>4. q = r \/ q = Other(r)
      BY PlaneFacts
    <3> QED  BY <1>6, <3>1, <3>3, <3>4, StoreView
  <2>3. \A q \in Resources, k \in Keys : Native(k, mirror'[q][k])
    BY <1>1, <1>6, <2>2, StoreView
  <2> QED  BY <1>1, <1>6, <2>1, <2>3, StoreView
<1>7. CASE Sweep(r)
  <2>1. worker'[r].rows = worker[r].rows
    BY <1>7, SweepView DEF Works
  <2>2. CASE worker[r].full
    <3>1. Sweeps(r, worker[r].seen)
      BY <1>7, <2>2, SweepView
    <3> QED  BY <1>1, <2>1, <3>1, NothingIsNative, PlaneFacts DEF Sweeps
  <2>3. CASE ~worker[r].full
    BY <1>1, <1>7, <2>1, <2>3, SweepView
  <2> QED  BY <2>2, <2>3
<1>8. CASE Stamp(r) \/ FailPass(r)
  BY <1>1, <1>8, StampView, FailView
<1> QED  BY <1>3, <1>4, <1>5, <1>6, <1>7, <1>8

LEMMA OriginsLast ==
  ASSUME Typed, Origins, PlanesNext
  PROVE  Origins'
<1>1. ASSUME NEW r \in Resources,
             BeginPass(r) \/ FetchListing(r) \/ Verify(r) \/ Store(r) \/ Sweep(r) \/ Stamp(r) \/ FailPass(r)
      PROVE  Origins'
  BY <1>1, WorkOrigins
<1> QED  BY <1>1, LandsOrigins, ReplayOrigins, RestOrigins DEF PlanesNext

-----------------------------------------------------------------------------
(* Deletion markers. *)

\* A child of the item or of a child of it: its parent is of the family.
LEMMA FamilyFacts ==
  ASSUME NEW k \in Keys, NEW j \in Family(k, Keys)
  PROVE  j \in Keys /\ (j = k \/ (Parent[j] # None /\ Parent[j] \in Family(k, Keys)))
         /\ k \in Family(k, Keys)
  BY PendingWritesAssumption DEF Family, Children

\* A family that is gone stays gone: a child is created under a live parent only.
LEMMA FamilyStaysGone ==
  ASSUME Typed, NEW op \in Ops, NEW k \in Keys, NEW v \in Values, Lands(op, k, v),
         NEW e \in Keys, Cloud[e].at = "erased",
         \A j \in Family(e, Keys) : Cloud[j].at \in {"never", "erased"}
  PROVE  Cloud'[e].at = "erased" /\ \A j \in Family(e, Keys) : Cloud'[j].at \in {"never", "erased"}
<1>1. Cloud'[e].at = "erased"
  BY LandsKeeps
<1>2. ASSUME NEW j \in Family(e, Keys) PROVE Cloud'[j].at \in {"never", "erased"}
  <2>1. j \in Keys /\ Cloud[j].at \in {"never", "erased"}
        /\ (j = e \/ (Parent[j] # None /\ Cloud[Parent[j]].at \in {"never", "erased"}))
    BY FamilyFacts
  <2>2. CASE Cloud[j].at = "erased"
    BY <2>1, <2>2, LandsKeeps
  <2>3. CASE Cloud[j].at = "never"
    <3>1. Parent[j] # None /\ Cloud[Parent[j]].at \in {"never", "erased"}
      BY <2>1, <2>3
    <3>2. Becomes(j, op, k, v)
      BY <2>1, LandsFacts
    <3>3. j # k \/ op = "erase"
      BY <2>3, <3>1, LandsFacts DEF Ops
    <3>4. Cloud'[j] = Cloud[j]
      BY <2>3, <3>2, <3>3 DEF Becomes
    <3> QED  BY <2>3, <3>4
  <2> QED  BY <2>1, <2>2, <2>3
<1> QED  BY <1>1, <1>2

LEMMA LandsDeletions ==
  ASSUME Base, NEW op \in Ops, NEW k \in Keys, NEW v \in Values,
         Elsewhere(op, k, v) \/ Command(op, k, v)
  PROVE  Deletions'
<1>1. /\ Lands(op, k, v) /\ Typed /\ Deletions
      /\ UNCHANGED <<pending, buried>>
      /\ cmd' = cmd \/ (cmd'.op = op /\ cmd'.key = k)
  BY ElsewhereView, CommandView DEF Base
<1>2. ASSUME NEW j \in Keys, pending'[j].kind = "deleted" \/ j \in buried' PROVE Cloud'[j].at = "erased"
  BY <1>1, <1>2, LandsKeeps DEF Deletions
<1>3. ASSUME cmd'.op = "erase"
      PROVE  /\ Cloud'[cmd'.key].at = "erased"
             /\ \A j \in Family(cmd'.key, Keys) : Cloud'[j].at \in {"never", "erased"}
  <2>1. CASE cmd' = cmd
    BY <1>1, <1>3, <2>1, FamilyStaysGone, CommandFacts DEF Deletions, Ops
  <2>2. CASE cmd'.op = op /\ cmd'.key = k
    <3>1. k \in Family(k, Keys)
      BY DEF Family
    <3>2. /\ Cloud'[k].at # "never" /\ \A j \in Family(k, Keys) : Cloud'[j].at \in {"never", "erased"}
      BY <1>1, <1>3, <2>2, LandsKeeps, LandsFacts
    <3> QED  BY <2>2, <3>1, <3>2
  <2> QED  BY <1>1, <2>1, <2>2
<1>4. ASSUME cmd'.op \in Ops \ {"erase"} PROVE pending'[cmd'.key].kind # "deleted"
  <2>1. CASE cmd' = cmd
    BY <1>1, <1>4, <2>1 DEF Deletions
  <2>2. CASE cmd'.op = op /\ cmd'.key = k
    <3>1. Cloud[k].at \in {"never", "live", "trash"}
      BY <1>1, <1>4, <2>2, LandsFacts DEF Ops
    <3> QED  BY <1>1, <2>2, <3>1 DEF Deletions
  <2> QED  BY <1>1, <2>1, <2>2
<1> QED  BY <1>2, <1>3, <1>4 DEF Deletions

\* Only an erase adds deletion markers.
LEMMA QuietDeletions ==
  ASSUME Typed, Deletions, history' = history,
         \A j \in Keys : pending'[j].kind = "deleted" => pending[j].kind = "deleted",
         buried' \subseteq buried,
         cmd'.op \in Ops => cmd'.op = cmd.op /\ cmd'.key = cmd.key
  PROVE  Deletions'
<1>1. Cloud' = Cloud
  BY QuietKnown
<1> QED  BY <1>1, CommandFacts DEF Deletions, Ops

\* What an erase takes from the mirror is what the library lost.
LEMMA ReapedIsErased ==
  ASSUME Base, MirrorErase
  PROVE  \A j \in Reaped(cmd.key) : j \in Keys /\ Cloud[j].at = "erased"
<1>1. Typed /\ Deletions /\ Origins
  BY DEF Base
<1>2. SUFFICES ASSUME NEW j \in Reaped(cmd.key) PROVE j \in Keys /\ Cloud[j].at = "erased"
  OBVIOUS
<1>3. /\ j \in Family(cmd.key, Keys) /\ j \in Keys /\ cmd.op = "erase"
      /\ j = cmd.key \/ \E r \in Resources : mirror[r][j] # NoRow
  BY <1>1, EraseView
<1>4. Cloud[cmd.key].at = "erased" /\ Cloud[j].at \in {"never", "erased"}
  BY <1>1, <1>3 DEF Deletions
<1>5. (\E r \in Resources : mirror[r][j] # NoRow) => Cloud[j].at # "never"
  BY <1>1, <1>3 DEF Origins, Native
<1> QED  BY <1>3, <1>4, <1>5

LEMMA EraseDeletions ==
  ASSUME Base, MirrorErase
  PROVE  Deletions'
<1>1. Typed /\ Deletions /\ Origins
  BY DEF Base
<1>2. Cloud' = Cloud /\ cmd'.op = "idle"
  BY <1>1, EraseView, QuietKnown, RecordTypes
<1>3. \A j \in Reaped(cmd.key) : j \in Keys /\ Cloud[j].at = "erased"
  BY ReapedIsErased
<1>4. ASSUME NEW j \in Keys, pending'[j].kind = "deleted" \/ j \in buried' PROVE Cloud'[j].at = "erased"
  BY <1>1, <1>2, <1>3, <1>4, EraseView DEF Deletions
<1> QED  BY <1>2, <1>4 DEF Deletions, Ops

LEMMA DeletionsLast ==
  ASSUME Base, PlanesNext
  PROVE  Deletions'
<1>1. Typed /\ Deletions
  BY DEF Base
<1>2. CASE MirrorCreate
  <2>1. \A j \in Keys : pending'[j].kind = "deleted" => pending[j].kind = "deleted"
    <3>1. [NoMarker EXCEPT !.kind = "create"].kind = "create"
      BY DEF NoMarker
    <3> QED  BY <1>1, <1>2, <3>1, CreateView
  <2> QED  BY <1>1, <1>2, <2>1, CreateView, QuietDeletions, RecordTypes DEF Ops
<1>3. CASE MirrorEdit
  <2>1. \A j \in Keys : pending'[j].kind = "deleted" => pending[j].kind = "deleted"
    BY <1>1, <1>3, EditView
  <2> QED  BY <1>1, <1>3, <2>1, EditView, QuietDeletions, RecordTypes DEF Ops
<1>4. CASE MirrorTrash
  BY <1>1, <1>4, TrashView, QuietDeletions, RecordTypes DEF Ops
<1>5. CASE MirrorRestore
  BY <1>1, <1>5, RestoreView, QuietDeletions, RecordTypes DEF Ops
<1>6. CASE DeskHears \/ DeskRestored \/ Age
  BY <1>1, <1>6, HearsView, RestoredView, AgeView, QuietDeletions
<1>7. ASSUME NEW full \in BOOLEAN, StartSync(full) \/ FinishSync \/ Kill PROVE Deletions'
  <2>1. /\ history' = history /\ cmd'.op \in {"idle", "sync"}
        /\ \A j \in Keys : pending'[j].kind = "deleted" => pending[j].kind = "deleted"
        /\ buried' \subseteq buried
    <3>1. CASE StartSync(full)
      BY <1>1, <3>1, StartView
    <3>2. CASE FinishSync
      BY <1>1, <3>2, FinishView, RecordTypes DEF Sweeps
    <3>3. CASE Kill
      BY <3>3, KillView, RecordTypes
    <3> QED  BY <1>7, <3>1, <3>2, <3>3
  <2> QED  BY <1>1, <2>1, QuietDeletions DEF Ops
<1>8. ASSUME NEW r \in Resources,
             BeginPass(r) \/ FetchListing(r) \/ Verify(r) \/ Store(r) \/ Sweep(r) \/ Stamp(r) \/ FailPass(r)
      PROVE  Deletions'
  <2>1. /\ history' = history /\ cmd' = cmd
        /\ \A j \in Keys : pending'[j].kind = "deleted" => pending[j].kind = "deleted"
        /\ buried' \subseteq buried
    <3>1. CASE BeginPass(r)
      BY <1>1, <3>1, BeginView, RecordTypes
    <3>2. CASE FetchListing(r)
      BY <1>1, <3>2, FetchView, RecordTypes
    <3>3. CASE Verify(r) \/ Stamp(r) \/ FailPass(r)
      BY <1>1, <3>3, VerifyView, StampView, FailView
    <3>4. CASE Store(r)
      BY <1>1, <3>4, StoreView
    <3>5. CASE Sweep(r)
      BY <1>1, <3>5, SweepView, RecordTypes DEF Sweeps
    <3> QED  BY <1>8, <3>1, <3>2, <3>3, <3>4, <3>5
  <2> QED  BY <1>1, <2>1, QuietDeletions
<1> QED  BY <1>2, <1>3, <1>4, <1>5, <1>6, <1>7, <1>8, LandsDeletions, EraseDeletions DEF PlanesNext

LEMMA BaseLast ==
  ASSUME Base, PlanesNext
  PROVE  Base'
  BY TypesLast, OriginsLast, DeletionsLast DEF Base

LEMMA BaseStutters ==
  ASSUME Base, UNCHANGED planeVars
  PROVE  Base'
<1>1. UNCHANGED <<history, desk, mirror, pending, buried, check, cmd, worker, syncs, ages, backups,
                  wrote, purged, moved>>
  BY DEF planeVars, planes, store, bounds, ghosts
<1>2. Typed'
  BY <1>1 DEF Base, Typed, PlanesTypeOK, Chronicle, Shapes, Passes, Pass, Version, Suppressed
<1>3. Origins' /\ Deletions'
  BY <1>1 DEF Base, Origins, Deletions, Native, Inbound, Noted, Known, Version, Cloud
<1> QED  BY <1>2, <1>3 DEF Base

LEMMA InitFacts ==
  ASSUME PlanesInit
  PROVE  /\ Version = 1 /\ desk = 1 /\ Desk = Cloud /\ Cloud = history[1]
         /\ history \in Seq([Keys -> Objects])
         /\ \A k \in Keys : \/ Cloud[k] = [at |-> "live", val |-> Initial, ver |-> 1]
                               /\ mirror["items"][k] = [val |-> Initial, ver |-> 1]
                            \/ Cloud[k] = [at |-> "never", val |-> None, ver |-> 0]
                               /\ mirror["items"][k] = NoRow
         /\ \A k \in Keys : mirror["items-trash"][k] = NoRow /\ pending[k] = NoMarker /\ wrote[k] = 0
         /\ mirror \in [Resources -> [Keys -> Rows]] /\ pending \in [Keys -> Markers] /\ wrote \in [Keys -> {0}]
         /\ buried = {} /\ check \in [Resources -> 0 .. 1] /\ check["items"] = 1 /\ check["items-trash"] = 0
         /\ cmd = NoCommand /\ worker \in [Resources -> Workers] /\ \A r \in Resources : worker[r] = NoWorker
         /\ syncs = 0 /\ ages = 0 /\ backups = 0 /\ purged = {} /\ moved = FALSE
<1> DEFINE there == [at |-> "live", val |-> Initial, ver |-> 1]
           later == [at |-> "never", val |-> None, ver |-> 0]
           row == [val |-> Initial, ver |-> 1]
<1>1. /\ \E late \in SUBSET {k \in Keys : Parent[k] # None} :
           history = <<[k \in Keys |-> IF k \in late THEN later ELSE there]>>
      /\ desk = 1
      /\ mirror = [r \in Resources |-> [k \in Keys |->
           IF r = "items" /\ Cloud[k].at = "live" THEN row ELSE NoRow]]
      /\ pending = [k \in Keys |-> NoMarker] /\ buried = {}
      /\ check = [r \in Resources |-> IF r = "items" THEN 1 ELSE 0]
      /\ cmd = NoCommand /\ worker = [r \in Resources |-> NoWorker]
      /\ syncs = 0 /\ ages = 0 /\ backups = 0
      /\ wrote = [k \in Keys |-> 0] /\ purged = {} /\ moved = FALSE
  BY DEF PlanesInit
<1>2. there \in Objects /\ later \in Objects /\ there.at = "live" /\ later.at = "never" /\ row \in Rows
  BY PendingWritesAssumption DEF Objects, Rows
<1> HIDE DEF there, later, row
<1>3. PICK late \in SUBSET {k \in Keys : Parent[k] # None} :
         history = <<[k \in Keys |-> IF k \in late THEN later ELSE there]>>
  BY <1>1
<1> DEFINE first == [k \in Keys |-> IF k \in late THEN later ELSE there]
<1>4. first \in [Keys -> Objects]
  BY <1>2
<1>5. history = <<first>>
  BY <1>3
<1> HIDE DEF first
<1>6. history \in Seq([Keys -> Objects]) /\ Version = 1 /\ Cloud = first /\ Cloud = history[1] /\ Desk = Cloud
  BY <1>1, <1>4, <1>5 DEF Version, Cloud, Desk
<1>7. \A k \in Keys : Cloud[k] = there \/ Cloud[k] = later
  BY <1>6 DEF first
<1>8. \A k \in Keys : \/ Cloud[k] = there /\ mirror["items"][k] = row
                      \/ Cloud[k] = later /\ mirror["items"][k] = NoRow
  BY <1>1, <1>2, <1>7, PlaneFacts
<1>9. /\ \A k \in Keys : mirror["items-trash"][k] = NoRow
      /\ mirror \in [Resources -> [Keys -> Rows]]
  BY <1>1, <1>2, PlaneFacts, RecordTypes
<1>10. /\ pending \in [Keys -> Markers] /\ wrote \in [Keys -> {0}] /\ check \in [Resources -> 0 .. 1]
       /\ worker \in [Resources -> Workers] /\ \A r \in Resources : worker[r] = NoWorker
       /\ \A k \in Keys : pending[k] = NoMarker /\ wrote[k] = 0
       /\ check["items"] = 1 /\ check["items-trash"] = 0
  BY <1>1, PlaneFacts, RecordTypes
<1> USE DEF there, later, row
<1> QED  BY <1>1, <1>6, <1>8, <1>9, <1>10
LEMMA BaseFirst ==
  ASSUME PlanesInit
  PROVE  Base
<1>1. \A k \in Keys : /\ Cloud[k].at \in {"live", "never"} /\ Cloud[k].ver \in {0, 1}
                      /\ Cloud[k].at = "live" => Cloud[k].val \in Values /\ Cloud[k].ver = 1
                                                 /\ mirror["items"][k].val = Cloud[k].val
                                                 /\ mirror["items"][k].ver = 1
                      /\ Cloud[k].at = "never" => Cloud[k].val = None /\ mirror["items"][k] = NoRow
  BY InitFacts, PendingWritesAssumption
<1>2. Chronicle
  <2>1. Version = 1 /\ Cloud = history[1]
    BY InitFacts
  <2>2. \A i \in 1 .. Version : i = 1
    BY <2>1
  <2>3. ASSUME NEW i \in 1 .. Version, NEW k \in Keys
        PROVE  /\ history[i][k].ver <= i
               /\ history[i][k].at = "never" => history[i][k].val = None
               /\ history[i][k].at # "never" => history[i][k].val \in Values /\ history[i][k].ver >= 1
               /\ \A j \in i .. Version : Follows(history[i][k], history[j][k], i)
    <3>1. history[i] = Cloud /\ i = 1 /\ \A j \in i .. Version : j = i
      BY <2>1, <2>2
    <3>2. Cloud[k].ver \in Nat
      BY <1>1
    <3>3. \A j \in i .. Version : Follows(history[i][k], history[j][k], i)
      BY <3>1, <3>2, FollowsItself
    <3> QED  BY <1>1, <3>1, <3>3
  <2> QED  BY <2>1, <2>3 DEF Chronicle
<1>3. Shapes
  BY <1>1, InitFacts, PlaneFacts, RecordTypes DEF Shapes, Ops
<1>4. Passes
  BY InitFacts, RecordTypes DEF Passes, Pass, Busy
<1>5. PlanesTypeOK
  <2>1. /\ MaxVersion \in Nat \ {0} /\ MaxSyncs \in Nat /\ MaxAges \in Nat /\ MaxBackups \in Nat
    BY PendingWritesAssumption
  <2>2. wrote \in [Keys -> 0 .. Version] /\ check \in [Resources -> 0 .. Version]
    BY InitFacts
  <2>3. /\ Version <= MaxVersion /\ desk \in 1 .. Version
        /\ \A k \in Keys : pending[k].kind = "deleted" => mirror["items"][k] = NoRow
    BY <2>1, InitFacts, RecordTypes
  <2>4. syncs \in 0 .. MaxSyncs /\ ages \in 0 .. MaxAges /\ backups \in 0 .. MaxBackups
    BY <2>1, InitFacts
  <2> QED  BY <2>2, <2>3, <2>4, InitFacts, RecordTypes DEF PlanesTypeOK
<1>6. Typed
  BY <1>2, <1>3, <1>4, <1>5 DEF Typed
<1>7. Deletions
  BY InitFacts, RecordTypes DEF Deletions, Ops
<1>8. Origins
  <2>1. ASSUME NEW k \in Keys PROVE Native(k, mirror["items"][k])
    <3>1. Cloud[k].val \in Known(k) /\ Native(k, NoRow) /\ Cloud[k].ver \in {0, 1}
      BY <1>1, <1>6, KnownFacts, NothingIsNative
    <3> QED  BY <1>1, <3>1 DEF Native
  <2>2. \A r \in Resources, k \in Keys : Native(k, mirror[r][k])
    BY <1>6, <2>1, InitFacts, NothingIsNative, PlaneFacts
  <2> QED  BY <1>6, <2>2, InitFacts, RecordTypes, NothingIsNative DEF Origins
<1> QED  BY <1>6, <1>7, <1>8 DEF Base
LEMMA BaseInvariant == PlanesSpec => []Base
<1>1. PlanesInit => Base
  BY BaseFirst
<1>2. Base /\ [PlanesNext]_planeVars => Base'
  BY BaseLast, BaseStutters
<1> QED  BY <1>1, <1>2, PTL DEF PlanesSpec

\* The library and the mirror keep their types, and a key that is marked as
\* deleted has no row of items, whatever risks are taken: every way in which a
\* row comes to items either meets the marker or belongs to a command that
\* found the item there (UpsertMirroredWrite, CreateMirroredItem).
THEOREM PlanesTypeCorrect == PlanesSpec => []PlanesTypeOK
<1>1. Base => PlanesTypeOK
  BY DEF Base, Typed
<1> QED  BY <1>1, BaseInvariant, PTL

-----------------------------------------------------------------------------
(* What zotio erased. *)

\* A key zotio erased has no row, none is on its way, and no marker of it goes
\* before the desktop has dropped it.
PurgedKey(k) ==
    /\ Cloud[k].at = "erased"
    /\ \A r \in Resources :
         /\ mirror[r][k] = NoRow
         /\ Suppressed(r, k) \/ Desk[k].at # Place(r)
         /\ \A row \in worker[r].rows : row.key # k
         /\ worker[r].full /\ worker[r].pc \in {"store", "sweep"} /\ k \notin worker[r].seen =>
               Desk[k].at # Place(r)

\* Every key that was purged is, and no command writes to it.
Purge ==
    /\ \A k \in purged : PurgedKey(k)
    /\ cmd.op \in Ops \ {"erase"} => cmd.key \notin purged

\* A step that leaves the planes alone: rows only leave, and a marker goes only
\* by a sweep that did not list the key.
LEMMA QuietPurged ==
  ASSUME Typed, NEW k \in Keys, PurgedKey(k), UNCHANGED <<history, desk>>,
         \A r \in Resources : mirror'[r][k] = NoRow,
         \A r \in Resources : Suppressed(r, k) => Suppressed(r, k)' \/ Desk[k].at # Place(r),
         \A r \in Resources :
           \/ /\ worker'[r].full = worker[r].full /\ worker'[r].pc \in {worker[r].pc, "sweep", "stamp"}
              /\ worker'[r].seen = worker[r].seen
              /\ worker'[r].pc = "sweep" => worker[r].pc \in {"store", "sweep"}
              /\ \A row \in worker'[r].rows : row \in worker[r].rows
           \/ worker'[r].pc \notin {"store", "sweep"} /\ worker'[r].rows = {}
  PROVE  PurgedKey(k)'
<1>1. Cloud' = Cloud /\ Desk' = Desk
  BY QuietLibrary
<1> QED  BY <1>1 DEF PurgedKey
\* While no sync runs, a key whose rows and markers stay is purged as before.
LEMMA RestingPurged ==
  ASSUME Typed, NEW k \in Keys, PurgedKey(k), UNCHANGED <<history, desk>>,
         \A r \in Resources : mirror'[r][k] = NoRow,
         \A r \in Resources : Suppressed(r, k) => Suppressed(r, k)',
         \A r \in Resources : worker'[r].pc \notin {"store", "sweep"} /\ worker'[r].rows = {}
  PROVE  PurgedKey(k)'
  BY QuietPurged

LEMMA ReplayPurge ==
  ASSUME Base, Purge, MirrorCreate \/ MirrorEdit \/ MirrorTrash \/ MirrorRestore
  PROVE  Purge'
<1>1. Typed /\ (\A k \in purged : k \in Keys /\ PurgedKey(k))
  BY TypedParts DEF Base, Purge, TypesCounts
<1>2. /\ UNCHANGED <<history, desk, purged>> /\ cmd.op \in Ops \ {"erase"} /\ cmd'.op = "idle"
      /\ \A r \in Resources : worker'[r] = NoWorker
  BY <1>1, CreateView, EditView, TrashView, RestoreView, CommandFacts, RecordTypes DEF Ops
<1>3. ASSUME NEW k \in purged
      PROVE  /\ \A r \in Resources : mirror'[r][k] = NoRow
             /\ \A r \in Resources : Suppressed(r, k) => Suppressed(r, k)'
  <2>1. k \in Keys /\ k # cmd.key /\ \A r \in Resources : mirror[r][k] = NoRow
    BY <1>1, <1>2 DEF Purge, PurgedKey
  <2>2. /\ \A r \in Resources : mirror'[r][k] = mirror[r][k]
        /\ pending'[k] = pending[k] /\ (k \in buried => k \in buried')
    <3>1. CASE MirrorCreate
      BY <1>1, <2>1, <3>1, CreateView
    <3>2. CASE MirrorEdit
      BY <1>1, <2>1, <3>2, EditView
    <3>3. CASE MirrorTrash
      BY <1>1, <2>1, <3>3, TrashView
    <3>4. CASE MirrorRestore
      BY <1>1, <2>1, <3>4, RestoreView, PlaneFacts
    <3> QED  BY <3>1, <3>2, <3>3, <3>4
  <2> QED  BY <2>1, <2>2 DEF Suppressed
<1>4. \A k \in purged' : PurgedKey(k)'
  BY <1>1, <1>2, <1>3, RestingPurged, RecordTypes
<1> QED  BY <1>2, <1>4 DEF Purge, Ops

LEMMA ErasePurge ==
  ASSUME Base, Purge, MirrorErase
  PROVE  Purge'
<1>1. Typed /\ (\A k \in purged : k \in Keys /\ PurgedKey(k))
  BY TypedParts DEF Base, Purge, TypesCounts
<1>2. /\ UNCHANGED <<history, desk>> /\ cmd.op = "erase" /\ cmd'.op = "idle"
      /\ purged' = purged \cup Reaped(cmd.key) /\ Cloud' = Cloud
      /\ \A r \in Resources : worker'[r] = NoWorker
  BY <1>1, EraseView, CommandFacts, QuietKnown, RecordTypes DEF Ops
<1>3. ASSUME NEW k \in Keys, k \in Reaped(cmd.key) PROVE PurgedKey(k)'
  <2>1. Cloud'[k].at = "erased" /\ \A r \in Resources : mirror'[r][k] = NoRow
    BY <1>1, <1>2, <1>3, EraseView, ReapedIsErased
  <2>2. \A r \in Resources : Suppressed(r, k)'
    BY <1>1, <1>3, EraseView, RecordTypes DEF Suppressed
  <2> QED  BY <1>2, <2>1, <2>2, RecordTypes DEF PurgedKey
<1>4. ASSUME NEW k \in purged, k \notin Reaped(cmd.key) PROVE PurgedKey(k)'
  <2>1. k \in Keys /\ PurgedKey(k)
    BY <1>1
  <2>2. /\ \A r \in Resources : mirror'[r][k] = NoRow
        /\ \A r \in Resources : Suppressed(r, k) => Suppressed(r, k)'
    BY <1>1, <1>4, <2>1, EraseView DEF PurgedKey, Suppressed
  <2> QED  BY <1>1, <1>2, <2>1, <2>2, RestingPurged, RecordTypes
<1> QED  BY <1>1, <1>2, <1>3, <1>4, EraseView DEF Purge, Ops

LEMMA LandsPurge ==
  ASSUME Base, Purge, NEW op \in Ops, NEW j \in Keys, NEW v \in Values,
         Elsewhere(op, j, v) \/ Command(op, j, v)
  PROVE  Purge'
<1>1. Typed /\ (\A k \in purged : k \in Keys /\ PurgedKey(k))
  BY TypedParts DEF Base, Purge, TypesCounts
<1>2. /\ Lands(op, j, v)
      /\ UNCHANGED <<desk, mirror, pending, buried, worker, purged>>
      /\ cmd' = cmd \/ (cmd'.op = op /\ cmd'.key = j)
  BY <1>1, ElsewhereView, CommandView
<1>3. Desk' = Desk
  BY <1>1, <1>2, LandsChronicle
<1>4. \A k \in purged : PurgedKey(k)'
  BY <1>1, <1>2, <1>3, LandsKeeps DEF PurgedKey, Suppressed
<1>5. op # "erase" => j \notin purged
  <2>1. op # "erase" => Cloud[j].at # "erased"
    BY <1>1, <1>2, LandsFacts DEF Ops
  <2> QED  BY <1>1, <2>1 DEF PurgedKey
<1> QED  BY <1>2, <1>4, <1>5 DEF Purge

LEMMA DeskPurge ==
  ASSUME "behind" \notin Risks, Base, Purge, DeskHears \/ DeskRestored \/ Age
  PROVE  Purge'
<1>1. Typed /\ (\A k \in purged : k \in Keys /\ PurgedKey(k))
  BY TypedParts DEF Base, Purge, TypesCounts
<1>3. CASE DeskHears
  <2>1. /\ desk' = Version
        /\ UNCHANGED <<history, mirror, pending, buried, cmd, worker, purged>>
    BY <1>1, <1>3, HearsView
  <2>2. Cloud' = Cloud /\ Desk' = Cloud
    BY <2>1, QuietKnown DEF Desk, Cloud
  <2>3. ASSUME NEW k \in purged PROVE PurgedKey(k)'
    <3>1. Desk'[k].at = "erased"
      BY <1>1, <2>2 DEF PurgedKey
    <3>2. \A r \in Resources : Desk'[k].at # Place(r)
      BY <3>1, PlaneFacts
    <3> QED  BY <1>1, <2>1, <2>2, <3>2 DEF PurgedKey
  <2> QED  BY <2>1, <2>3 DEF Purge
<1>4. CASE DeskRestored
  BY <1>1, <1>4, RestoredView DEF Purge
<1>5. CASE Age
  <2>1. /\ UNCHANGED <<history, desk, mirror, buried, cmd, worker, purged>>
        /\ \A k \in Keys : pending'[k].kind = pending[k].kind
    BY <1>1, <1>5, AgeView
  <2>2. Cloud' = Cloud /\ Desk' = Desk
    BY <1>1, <2>1, QuietLibrary
  <2>3. \A k \in purged : PurgedKey(k)'
    BY <1>1, <2>1, <2>2 DEF PurgedKey, Suppressed
  <2> QED  BY <2>1, <2>3 DEF Purge
<1> QED  BY <1>3, <1>4, <1>5

LEMMA SyncPurge ==
  ASSUME Base, Purge, NEW full \in BOOLEAN, StartSync(full) \/ FinishSync \/ Kill
  PROVE  Purge'
<1>1. Typed /\ (\A k \in purged : k \in Keys /\ PurgedKey(k))
  BY TypedParts DEF Base, Purge, TypesCounts
<1>2. /\ UNCHANGED <<history, desk, purged>> /\ cmd'.op \in {"idle", "sync"}
      /\ \A r \in Resources : worker'[r].pc \in {"begin", "idle"} /\ worker'[r].rows = {}
  BY <1>1, StartView, FinishView, KillView, RecordTypes
<1>3. ASSUME NEW k \in purged
      PROVE  /\ \A r \in Resources : mirror'[r][k] = NoRow
             /\ \A r \in Resources : Suppressed(r, k) => Suppressed(r, k)' \/ Desk[k].at # Place(r)
  <2>1. k \in Keys /\ \A r \in Resources : mirror[r][k] = NoRow
    BY <1>1 DEF PurgedKey
  <2>2. CASE UNCHANGED <<mirror, pending, buried>>
    BY <2>1, <2>2 DEF Suppressed
  <2>3. CASE Sweeps("items-trash", {i \in Keys : Desk[i].at = "trash"})
    <3>1. /\ \A i \in Keys : pending'[i] = pending[i]
          /\ buried' = buried \cap {i \in Keys : Desk[i].at = "trash"}
          /\ \A r \in Resources : mirror'[r][k] = NoRow
      BY <2>1, <2>3, PlaneFacts DEF Sweeps
    <3> QED  BY <2>1, <3>1, PlaneFacts DEF Suppressed
  <2> QED  BY <1>1, <2>2, <2>3, StartView, FinishView, KillView
<1>4. \A k \in purged : PurgedKey(k)'
  BY <1>1, <1>2, <1>3, QuietPurged
<1> QED  BY <1>2, <1>4 DEF Purge, Ops

LEMMA WorkPurge ==
  ASSUME Base, Purge, NEW r \in Resources,
         BeginPass(r) \/ FetchListing(r) \/ Verify(r) \/ Store(r) \/ Sweep(r) \/ Stamp(r) \/ FailPass(r)
  PROVE  Purge'
<1>1. Typed /\ (\A k \in purged : k \in Keys /\ PurgedKey(k))
  BY TypedParts DEF Base, Purge, TypesCounts
<1>2. /\ UNCHANGED <<history, desk, cmd, purged>> /\ \A q \in Resources : q # r => worker'[q] = worker[q]
  BY <1>1, BeginView, FetchView, VerifyView, StoreView, SweepView, StampView, FailView DEF Works
<1>3. Cloud' = Cloud /\ Desk' = Desk
  BY <1>1, <1>2, QuietLibrary
<1> SUFFICES ASSUME NEW k \in purged PROVE PurgedKey(k)'
  BY <1>2 DEF Purge
<1>4. /\ k \in Keys /\ PurgedKey(k) /\ \A q \in Resources : mirror[q][k] = NoRow
      /\ \A q \in Resources : \A row \in worker[q].rows : row.key # k
  BY <1>1 DEF PurgedKey
<1>5. CASE BeginPass(r)
  <2>1. /\ \A q \in Resources : mirror'[q][k] = NoRow
        /\ \A q \in Resources : Suppressed(q, k) => Suppressed(q, k)'
    BY <1>1, <1>4, <1>5, BeginView DEF Suppressed
  <2>2. worker'[r].pc = "fetch" /\ worker'[r].rows = {}
    BY <1>1, <1>5, BeginView, WorkerFacts DEF Works, Pass
  <2> QED  BY <1>1, <1>2, <1>4, <2>1, <2>2, QuietPurged
<1>6. CASE FetchListing(r)
  <2>1. /\ worker[r].pc = "fetch" /\ mirror' = mirror /\ buried' = buried
        /\ worker'[r].full = worker[r].full /\ worker'[r].seen = {i \in Keys : Heard(r, i)}
    BY <1>1, <1>6, FetchView DEF Works
  <2>2. \A q \in Resources : Suppressed(q, k) => Suppressed(q, k)'
    BY <1>1, <1>4, <1>6, <2>1, FetchView DEF Suppressed
  <2>3. Suppressed(r, k) \/ Desk[k].at # Place(r)
    BY <1>4 DEF PurgedKey
  <2>4. \A row \in worker'[r].rows : row.key # k
    BY <1>1, <1>6, <2>3, FetchView DEF Heard
  <2>5. worker'[r].full /\ k \notin worker'[r].seen => Desk[k].at # Place(r)
    <3>1. worker[r].full => worker[r].since = 0
      BY <1>1, <2>1, WorkerFacts DEF Pass, Busy
    <3>2. Desk[k].at = Place(r) => Desk[k].ver > 0
      BY <1>1, <1>4, LibraryFacts, ObjectFacts, PlaneFacts DEF Desk
    <3> QED  BY <1>4, <2>1, <3>1, <3>2 DEF Heard
  <2> QED  BY <1>2, <1>3, <1>4, <2>1, <2>2, <2>4, <2>5 DEF PurgedKey
<1>7. CASE Verify(r) \/ Stamp(r) \/ FailPass(r)
  <2>1. /\ mirror' = mirror /\ pending' = pending /\ buried' = buried
        /\ worker'[r].pc \notin {"store", "sweep"} /\ \A row \in worker'[r].rows : row.key # k
    BY <1>1, <1>4, <1>7, VerifyView, StampView, FailView DEF Works
  <2> QED  BY <1>2, <1>3, <1>4, <2>1 DEF PurgedKey, Suppressed
<1>8. CASE Store(r)
  <2>1. /\ pending' = pending /\ buried' = buried /\ worker[r].pc = "store"
        /\ worker'[r].pc = "sweep" /\ worker'[r].full = worker[r].full /\ worker'[r].rows = {}
        /\ worker'[r].seen = worker[r].seen /\ \A q \in Resources : mirror'[q][k] = NoRow
    BY <1>1, <1>4, <1>8, StoreView DEF Works
  <2> QED  BY <1>2, <1>3, <1>4, <2>1 DEF PurgedKey, Suppressed
<1>9. CASE Sweep(r)
  <2>1. /\ worker[r].pc = "sweep" /\ worker'[r].pc = "stamp" /\ worker'[r].rows = worker[r].rows
        /\ worker'[r].full = worker[r].full
    BY <1>1, <1>9, SweepView DEF Works
  <2>2. CASE worker[r].full
    <3>1. Sweeps(r, worker[r].seen)
      BY <1>1, <1>9, <2>2, SweepView
    <3>2. \A q \in Resources : mirror'[q][k] = NoRow
      BY <1>4, <3>1, PlaneFacts DEF Sweeps
    <3>3. k \notin worker[r].seen => Desk[k].at # Place(r)
      BY <1>4, <2>1, <2>2 DEF PurgedKey
    <3>4. \A q \in Resources : Suppressed(q, k) => Suppressed(q, k)' \/ Desk[k].at # Place(q)
      BY <1>4, <3>1, <3>3, PlaneFacts DEF Sweeps, Suppressed
    <3> QED  BY <1>2, <1>3, <1>4, <2>1, <3>2, <3>4 DEF PurgedKey
  <2>3. CASE ~worker[r].full
    <3>1. /\ mirror' = mirror /\ pending' = pending /\ buried' = buried
      BY <1>1, <1>9, <2>3, SweepView
    <3> QED  BY <1>2, <1>3, <1>4, <2>1, <3>1 DEF PurgedKey, Suppressed
  <2> QED  BY <2>2, <2>3
<1> QED  BY <1>5, <1>6, <1>7, <1>8, <1>9

LEMMA PurgeLast ==
  ASSUME "behind" \notin Risks, Base, Purge, PlanesNext
  PROVE  Purge'
<1>1. ASSUME NEW op \in Ops, NEW k \in Keys, NEW v \in Values, Elsewhere(op, k, v) \/ Command(op, k, v)
      PROVE  Purge'
  BY <1>1, LandsPurge
<1> QED  BY <1>1, DeskPurge, ReplayPurge, ErasePurge, SyncPurge, WorkPurge DEF PlanesNext

\* An item zotio erased, with each child the mirror had of it, never returns to
\* the mirror, neither to the items nor to the trash, as long as a sync of Zotero
\* that did not hear of the deletion does not hear of later writes: the marker
\* outlives every listing in which the desktop may still show the item
\* (store.go, ReapMirroredItem; pending_writes.go, reconcilePendingWrites).
THEOREM ErasedStaysErased ==
  ASSUME "behind" \notin Risks
  PROVE  PlanesSpec => []StaysPurged
<1>1. PlanesInit => Purge
  BY InitFacts, RecordTypes DEF Purge, Ops
<1>2. Base /\ Purge /\ [PlanesNext]_planeVars => Purge'
  <2>1. ASSUME Purge, UNCHANGED planeVars PROVE Purge'
    BY <2>1 DEF Purge, PurgedKey, Suppressed, Cloud, Desk, Version,
                planeVars, planes, store, bounds, ghosts
  <2> QED  BY <2>1, PurgeLast
<1>3. Purge => StaysPurged
  BY DEF Purge, PurgedKey, StaysPurged
<1> QED  BY <1>1, <1>2, <1>3, BaseInvariant, PTL DEF PlanesSpec

-----------------------------------------------------------------------------
(* Of the two states of an item the newer wins. *)

\* Has the item been where it is now ever since snapshot i?  A version is older
\* if it is below that of every snapshot since which this is so.
Since(k, i) == \A j \in i .. Version : history[j][k].at = Cloud[k].at
Older(k, ver) == \A i \in 1 .. Version : Since(k, i) => ver < history[i][k].ver

\* A row on the other side than the item, or on its way there, is older.
Misplaced(k, r) == Cloud[k].at \in {"live", "trash"} /\ Cloud[k].at # Place(r)
\* So is every row that a pass or a command is about to put there.
Newer ==
    /\ \A r \in Resources, k \in Keys : Misplaced(k, r) => Older(k, mirror[r][k].ver)
    /\ \A r \in Resources : \A row \in worker[r].rows : Misplaced(row.key, r) => Older(row.key, row.ver)
    /\ cmd.op = "trash" /\ Misplaced(cmd.key, "items-trash") => Older(cmd.key, mirror["items"][cmd.key].ver)

LEMMA OlderFacts ==
  ASSUME Typed, NEW k \in Keys, NEW r \in Resources, Misplaced(k, r)
  PROVE  /\ Older(k, 0)
         /\ \A u, v \in Nat : u <= v /\ Older(k, v) => Older(k, u)
         /\ \A i \in 1 .. Version : Since(k, i) => history[i][k].at = Cloud[k].at
<1>1. \A i \in 1 .. Version : Since(k, i) => history[i][k].at = Cloud[k].at
  BY LibraryFacts DEF Since
<1>2. \A i \in 1 .. Version : /\ history[i][k].ver \in Nat
                              /\ history[i][k].at # "never" => history[i][k].ver >= 1
  BY ObjectFacts
<1>3. Cloud[k].at # "never"
  BY DEF Misplaced
<1> QED  BY <1>1, <1>2, <1>3 DEF Older

\* Whoever moves an item gives it a version above all rows of it.
LEMMA OlderGrows ==
  ASSUME Typed, NEW op \in Ops, NEW k \in Keys, NEW v \in Values, Lands(op, k, v),
         NEW j \in Keys, NEW r \in Resources, NEW ver \in Nat, ver <= Cloud[j].ver,
         Misplaced(j, r) => Older(j, ver), Misplaced(j, r)'
  PROVE  Older(j, ver)'
<1>1. /\ Version' = Version + 1 /\ Version \in Nat /\ Version >= 1
      /\ \A i \in 1 .. Version : history'[i] = history[i]
      /\ Cloud' = history'[Version + 1] /\ Cloud = history[Version]
      /\ Cloud[j].ver \in Nat /\ Cloud[j].ver <= Version /\ Cloud'[j].ver \in Nat /\ Cloud[j].ver <= Cloud'[j].ver
      /\ Cloud'[j] = Cloud[j] \/ Cloud'[j].at = "erased" \/ Cloud'[j].ver = Version + 1
  BY LandsFacts, LandsKeeps, LibraryFacts, ObjectFacts DEF Cloud
<1>2. SUFFICES ASSUME NEW i \in 1 .. Version + 1, Since(j, i)' PROVE ver < history'[i][j].ver
  BY <1>1 DEF Older
<1>3. \A n \in i .. Version + 1 : history'[n][j].at = Cloud'[j].at
  BY <1>1, <1>2 DEF Since
<1>4. Cloud'[j].at \in {"live", "trash"} /\ Cloud'[j].at # Place(r)
  BY DEF Misplaced
<1>5. CASE i = Version + 1 /\ Cloud'[j].at = Cloud[j].at
  <2>1. Since(j, Version) /\ Version \in 1 .. Version
    BY <1>1 DEF Since
  <2>2. ver < Cloud[j].ver
    BY <1>1, <1>4, <1>5, <2>1 DEF Misplaced, Older
  <2> QED  BY <1>1, <1>5, <2>2
<1>6. CASE i = Version + 1 /\ Cloud'[j].at # Cloud[j].at
  BY <1>1, <1>4, <1>6
<1>7. CASE i \in 1 .. Version
  <2>1. \A n \in i .. Version : n \in 1 .. Version /\ n \in i .. Version + 1
    BY <1>1, <1>7
  <2>2. Version \in i .. Version
    BY <1>1, <1>7
  <2>3. Cloud'[j].at = Cloud[j].at
    BY <1>1, <1>3, <2>1, <2>2
  <2>4. Since(j, i)
    BY <1>1, <1>3, <2>1, <2>3 DEF Since
  <2> QED  BY <1>1, <1>4, <1>7, <2>3, <2>4 DEF Misplaced, Older
<1> QED  BY <1>1, <1>5, <1>6, <1>7

\* What the desktop lists in a place the item has left is older than its move.
LEMMA ListedIsOlder ==
  ASSUME Typed, NEW k \in Keys, NEW r \in Resources, Misplaced(k, r), Desk[k].at = Place(r)
  PROVE  Older(k, Desk[k].ver)
<1>1. desk \in 1 .. Version /\ desk \in Nat /\ Version \in Nat
  BY LibraryFacts
<1>2. SUFFICES ASSUME NEW i \in 1 .. Version, Since(k, i) PROVE Desk[k].ver < history[i][k].ver
  BY DEF Older
<1>3. \A n \in i .. Version : history[n][k].at = Cloud[k].at
  BY <1>2 DEF Since
<1>4. Cloud[k].at # Place(r) /\ Cloud[k].at \in {"live", "trash"}
  BY DEF Misplaced
<1>5. i > desk
  BY <1>1, <1>3, <1>4 DEF Desk
<1>6. i \in desk .. Version /\ i \in i .. Version
  BY <1>1, <1>5
<1>7. Follows(history[desk][k], history[i][k], desk) /\ history[desk][k].ver \in Nat /\ history[desk][k].ver <= desk
      /\ history[i][k].ver \in Nat
  BY <1>1, <1>6, ObjectFacts
<1>8. history[i][k].at = Cloud[k].at /\ history[desk][k].at = Place(r)
  BY <1>3, <1>6 DEF Desk
<1> QED  BY <1>1, <1>4, <1>7, <1>8 DEF Follows, Desk

LEMMA QuietNewer ==
  ASSUME Typed, Newer, history' = history,
         \A r \in Resources, k \in Keys : Misplaced(k, r) => Older(k, mirror'[r][k].ver),
         \A r \in Resources : \A row \in worker'[r].rows : Misplaced(row.key, r) => Older(row.key, row.ver),
         cmd'.op # "trash" \/ (cmd'.op = cmd.op /\ cmd'.key = cmd.key /\ mirror' = mirror)
  PROVE  Newer'
<1>1. Cloud' = Cloud /\ Version' = Version
  BY QuietKnown DEF Version
<1>2. \A k, r, n : (Misplaced(k, r)' <=> Misplaced(k, r)) /\ (Older(k, n)' <=> Older(k, n))
  BY <1>1 DEF Misplaced, Older, Since
<1>3. cmd'.op = "trash" /\ Misplaced(cmd'.key, "items-trash") => Older(cmd'.key, mirror'["items"][cmd'.key].ver)
  BY DEF Newer
<1> QED  BY <1>2, <1>3 DEF Newer

LEMMA LandsNewer ==
  ASSUME Base, Newer, NEW op \in Ops, NEW k \in Keys, NEW v \in Values,
         Elsewhere(op, k, v) \/ Command(op, k, v)
  PROVE  Newer'
<1>1. /\ Lands(op, k, v) /\ Typed /\ Origins
      /\ UNCHANGED <<mirror, worker>>
      /\ cmd' = cmd \/ (cmd'.op = op /\ cmd'.key = k)
  BY ElsewhereView, CommandView DEF Base
<1>2. ASSUME NEW r \in Resources, NEW j \in Keys, Misplaced(j, r)' PROVE Older(j, mirror[r][j].ver)'
  <2>1. mirror[r][j].ver \in Nat /\ mirror[r][j].ver <= Cloud[j].ver
    BY <1>1, RowFacts DEF Origins, Native
  <2>2. Misplaced(j, r) => Older(j, mirror[r][j].ver)
    BY DEF Newer
  <2>3. \A n \in Nat : n <= Cloud[j].ver /\ (Misplaced(j, r) => Older(j, n)) => Older(j, n)'
    BY <1>1, <1>2, OlderGrows
  <2> QED  BY <1>1, <2>1, <2>2, <2>3
<1>3. ASSUME NEW r \in Resources, NEW row \in worker[r].rows, Misplaced(row.key, r)' PROVE Older(row.key, row.ver)'
  <2>1. row.key \in Keys /\ row.ver \in Nat /\ row.ver <= Cloud[row.key].ver
    BY <1>1, ListedRowFacts DEF Origins, Inbound
  <2>2. Misplaced(row.key, r) => Older(row.key, row.ver)
    BY DEF Newer
  <2> QED  BY <1>1, <1>3, <2>1, <2>2, OlderGrows
<1>4. \A j \in Keys, r \in Resources, n \in Nat :
         n <= Cloud[j].ver /\ (Misplaced(j, r) => Older(j, n)) /\ Misplaced(j, r)' => Older(j, n)'
  BY <1>1, OlderGrows
<1>5. ASSUME NEW j \in Keys, cmd'.op = "trash", j = cmd'.key, Misplaced(j, "items-trash")'
      PROVE  Older(j, mirror["items"][j].ver)'
  <2>1. CASE cmd' = cmd
    <3>1. /\ "items" \in Resources /\ "items-trash" \in Resources
          /\ mirror["items"][j].ver \in Nat /\ mirror["items"][j].ver <= Cloud[j].ver
      BY <1>1, RowFacts, PlaneFacts DEF Origins, Native
    <3>2. Misplaced(j, "items-trash") => Older(j, mirror["items"][j].ver)
      BY <1>5, <2>1 DEF Newer
    <3> QED  BY <1>1, <1>4, <1>5, <3>1, <3>2
  <2>2. CASE cmd'.op = op /\ cmd'.key = k
    <3>1. /\ Cloud'[k].ver = Version + 1 /\ Becomes(k, op, k, v)
          /\ Cloud[k].ver \in Nat /\ Cloud[k].ver <= Version /\ Version \in Nat
      BY <1>1, <1>5, <2>2, LandsKeeps, LandsFacts, LibraryFacts, ObjectFacts DEF Cloud
    <3>2. Cloud'[k].at = "trash"
      BY <1>5, <2>2, <3>1 DEF Becomes
    <3>3. Cloud'[j].at # Place("items-trash")
      BY <1>5 DEF Misplaced
    <3> QED  BY <1>5, <2>2, <3>2, <3>3, PlaneFacts
  <2> QED  BY <1>1, <2>1, <2>2
<1>6. cmd'.op = "trash" => cmd'.key \in Keys
  BY <1>1, CommandFacts DEF Ops
<1> QED  BY <1>1, <1>2, <1>3, <1>5, <1>6 DEF Newer

LEMMA StepNewer ==
  ASSUME Base, Newer, NEW full \in BOOLEAN,
         \/ MirrorCreate \/ MirrorEdit \/ MirrorTrash \/ MirrorRestore \/ MirrorErase
         \/ DeskHears \/ DeskRestored \/ Age \/ StartSync(full) \/ FinishSync \/ Kill
  PROVE  Newer'
<1>1. Typed
  BY DEF Base
<1>2. /\ history' = history
      /\ \A r \in Resources : \A row \in worker'[r].rows : row \in worker[r].rows
      /\ cmd'.op # "trash" \/ (cmd'.op = cmd.op /\ cmd'.key = cmd.key /\ mirror' = mirror)
      /\ \A r \in Resources, k \in Keys :
           \/ mirror'[r][k].ver \in {0, mirror[r][k].ver}
           \/ /\ mirror'[r][k].ver = mirror["items"][k].ver /\ r = "items-trash" /\ cmd.op = "trash" /\ k = cmd.key
  <2>1. CASE MirrorCreate
    BY <1>1, <2>1, CreateView, RecordTypes
  <2>2. CASE MirrorEdit
    BY <1>1, <2>2, EditView, RecordTypes
  <2>3. CASE MirrorTrash
    BY <1>1, <2>3, TrashView, RecordTypes
  <2>4. CASE MirrorRestore
    BY <1>1, <2>4, RestoreView, RecordTypes, PlaneFacts
  <2>5. CASE MirrorErase
    BY <1>1, <2>5, EraseView, RecordTypes
  <2>6. CASE DeskHears
    BY <1>1, <2>6, HearsView
  <2>7. CASE DeskRestored
    BY <1>1, <2>7, RestoredView
  <2>8. CASE Age
    BY <1>1, <2>8, AgeView
  <2>9. CASE StartSync(full)
    BY <1>1, <2>9, StartView
  <2>10. CASE FinishSync
    BY <1>1, <2>10, FinishView, RecordTypes, PlaneFacts DEF Sweeps
  <2>11. CASE Kill
    BY <1>1, <2>11, KillView, RecordTypes
  <2> QED  BY <2>1, <2>2, <2>3, <2>4, <2>5, <2>6, <2>7, <2>8, <2>9, <2>10, <2>11
<1>3. \A r \in Resources, k \in Keys : Misplaced(k, r) => Older(k, mirror'[r][k].ver)
  BY <1>1, <1>2, OlderFacts DEF Newer
<1> QED  BY <1>1, <1>2, <1>3, QuietNewer DEF Newer

LEMMA WorkNewer ==
  ASSUME Base, Newer, NEW r \in Resources,
         BeginPass(r) \/ FetchListing(r) \/ Verify(r) \/ Store(r) \/ Sweep(r) \/ Stamp(r) \/ FailPass(r)
  PROVE  Newer'
<1>1. Typed
  BY DEF Base
<1>2. /\ history' = history /\ cmd' = cmd /\ cmd.op = "sync"
      /\ \A q \in Resources : q # r => worker'[q] = worker[q]
  BY <1>1, AtWork, BeginView, FetchView, VerifyView, StoreView, SweepView, StampView, FailView DEF Works
<1>3. ASSUME NEW row \in worker'[r].rows, Misplaced(row.key, r) PROVE Older(row.key, row.ver)
  <2>1. CASE FetchListing(r)
    <3>1. row.key \in Keys /\ Desk[row.key].at = Place(r) /\ row.ver = Desk[row.key].ver
      BY <1>1, <2>1, FetchView DEF Heard
    <3> QED  BY <1>1, <1>3, <3>1, ListedIsOlder
  <2>2. CASE ~FetchListing(r)
    <3>1. worker'[r].rows = worker[r].rows \/ worker'[r].rows = {}
      BY <1>1, <2>2, BeginView, VerifyView, StoreView, SweepView, StampView, FailView DEF Works
    <3> QED  BY <1>3, <3>1 DEF Newer
  <2> QED  BY <2>1, <2>2
<1>4. ASSUME NEW q \in Resources, NEW k \in Keys, Misplaced(k, q) PROVE Older(k, mirror'[q][k].ver)
  <2>1. Older(k, mirror[q][k].ver) /\ Older(k, 0)
    BY <1>1, <1>4, OlderFacts DEF Newer
  <2>2. CASE Store(r)
    <3>1. CASE \A row \in worker[r].rows : row.key # k
      BY <1>1, <2>1, <2>2, <3>1, StoreView
    <3>2. ASSUME NEW row \in worker[r].rows, row.key = k PROVE Older(k, mirror'[q][k].ver)
      <4>1. q = r => Older(k, Landed(r, row).ver)
        <5>1. q = r => Older(k, row.ver)
          BY <1>4, <3>2 DEF Newer
        <5>2. Landed(r, row) = mirror[r][k] \/ Landed(r, row).ver = row.ver
          BY <1>1, <2>2, <3>2, StoreView
        <5> QED  BY <2>1, <5>1, <5>2
      <4>2. q = r \/ q = Other(r)
        BY PlaneFacts
      <4>3. mirror'[q][k] = NoRow \/ (q = r /\ mirror'[q][k] = Landed(r, row)) \/ mirror'[q][k] = mirror[q][k]
        BY <1>1, <2>2, <3>2, <4>2, StoreView
      <4> QED  BY <2>1, <4>1, <4>3, RecordTypes
    <3> QED  BY <3>1, <3>2
  <2>3. CASE ~Store(r)
    <3>1. mirror'[q][k].ver \in {0, mirror[q][k].ver}
      <4>1. CASE BeginPass(r)
        BY <1>1, <4>1, BeginView
      <4>2. CASE Sweep(r)
        BY <1>1, <4>2, SweepView, RecordTypes, PlaneFacts DEF Sweeps
      <4>3. CASE FetchListing(r) \/ Verify(r) \/ Stamp(r) \/ FailPass(r)
        BY <1>1, <4>3, FetchView, VerifyView, StampView, FailView
      <4> QED  BY <2>3, <4>1, <4>2, <4>3
    <3> QED  BY <2>1, <3>1
  <2> QED  BY <2>2, <2>3
<1>5. \A q \in Resources : \A row \in worker'[q].rows : Misplaced(row.key, q) => Older(row.key, row.ver)
  BY <1>2, <1>3 DEF Newer
<1> QED  BY <1>1, <1>2, <1>4, <1>5, QuietNewer

LEMMA NewerLast ==
  ASSUME Base, Newer, PlanesNext
  PROVE  Newer'
  BY LandsNewer, StepNewer, WorkNewer DEF PlanesNext

-----------------------------------------------------------------------------
(* A full pass over a desktop that stays still. *)

\* An item that has not moved since what the desktop shows, and its values.
Settled(k) == \A i \in desk .. Version : history[i][k].at = Desk[k].at
Shown(r, k) == {Desk[k].val} \cup IF r = "items" THEN {pending[k].written} ELSE {}

\* The part of a full pass that concerns one resource.
FullOf(r) ==
    /\ worker[r].pc \in {"store", "sweep"} => worker[r].seen = {k \in Keys : Desk[k].at = Place(r)}
    /\ worker[r].pc = "store" =>
         \A k \in Keys : Settled(k) /\ Desk[k].at = Place(r) =>
           \E row \in worker[r].rows : row.key = k /\ row.ver = Desk[k].ver /\ row.val \in Shown(r, k)
    /\ worker[r].pc \in {"sweep", "stamp", "done"} =>
         \A k \in Keys : Settled(k) /\ Desk[k].at = Place(r) =>
           mirror[r][k] # NoRow /\ mirror[r][k].val \in Shown(r, k)
    /\ worker[r].pc \in {"stamp", "done"} =>
         \A k \in Keys : Desk[k].at # Place(r) => mirror[r][k] = NoRow

\* A full sync during which the desktop has stayed still.
FullRun == cmd.op = "sync" /\ cmd.full /\ ~moved

FullPass == FullRun => \A r \in Resources : FullOf(r)

\* An item that has not moved since what the desktop shows.
LEMMA SettledFacts ==
  ASSUME Base, Newer, NEW k \in Keys, NEW r \in Resources, Settled(k), Desk[k].at = Place(r)
  PROVE  /\ ~Suppressed(r, k) /\ Desk[k].ver >= 1 /\ Desk[k].ver \in Nat
         /\ Older(k, mirror[Other(r)][k].ver) /\ mirror[Other(r)][k].ver < Desk[k].ver
<1>1. /\ Typed /\ Deletions /\ desk \in 1 .. Version /\ Version \in Nat /\ desk \in Nat
      /\ Desk[k].ver >= 1 /\ Desk[k].ver \in Nat
  BY LibraryFacts, ObjectFacts, PlaneFacts DEF Base, Desk
<1>2. Cloud[k].at = Place(r)
  <2>1. Version \in desk .. Version
    BY <1>1
  <2> QED  BY <2>1 DEF Settled, Cloud
<1>3. ~Suppressed(r, k)
  BY <1>1, <1>2, PlaneFacts DEF Deletions, Suppressed
<1>4. Misplaced(k, Other(r))
  BY <1>2, PlaneFacts DEF Misplaced
<1>5. Older(k, mirror[Other(r)][k].ver)
  BY <1>4, PlaneFacts DEF Newer
<1>6. Since(k, desk)
  BY <1>1, <1>2 DEF Settled, Since
<1> QED  BY <1>1, <1>3, <1>5, <1>6 DEF Older, Desk

\* The planes, the rows and the worker of r stay.
LEMMA QuietFull ==
  ASSUME Typed, NEW r \in Resources, FullOf(r), Desk' = Desk, desk' = desk,
         \A k \in Keys : Settled(k)' => Settled(k),
         worker'[r] = worker[r],
         \A k \in Keys : mirror'[r][k] = mirror[r][k]
                         \/ (Desk[k].at # Place(r) /\ mirror'[r][k] = NoRow),
         r = "items" => \A k \in Keys : pending'[k].written = pending[k].written
  PROVE  FullOf(r)'
<1>1. \A k \in Keys : Shown(r, k)' = Shown(r, k)
  BY DEF Shown
<1> QED  BY <1>1 DEF FullOf

LEMMA LandsFull ==
  ASSUME Base, FullPass, NEW op \in Ops, NEW j \in Keys, NEW v \in Values,
         Elsewhere(op, j, v) \/ Command(op, j, v)
  PROVE  FullPass'
<1>1. Typed
  BY DEF Base
<1> SUFFICES ASSUME FullRun', NEW r \in Resources PROVE FullOf(r)'
  BY DEF FullPass
<1>2. cmd'.op = "sync" /\ cmd'.full /\ ~moved'
  BY DEF FullRun
<1>3. Elsewhere(op, j, v)
  BY <1>1, <1>2, CommandView DEF Ops
<1>4. /\ Lands(op, j, v) /\ UNCHANGED <<desk, mirror, pending, cmd, worker, moved>>
  BY <1>3, ElsewhereView
<1>5. /\ Desk' = Desk /\ Version' = Version + 1 /\ Version \in Nat /\ desk \in 1 .. Version
      /\ \A i \in 1 .. Version : history'[i] = history[i]
  BY <1>1, <1>4, LandsChronicle, LandsFacts, LibraryFacts
<1>6. \A k \in Keys : Settled(k)' => Settled(k)
  <2>1. \A i \in desk .. Version : i \in desk .. Version' /\ history'[i] = history[i]
    BY <1>5
  <2> QED  BY <1>4, <1>5, <2>1 DEF Settled
<1>7. FullOf(r)
  BY <1>2, <1>4 DEF FullPass, FullRun
<1> QED  BY <1>1, <1>4, <1>5, <1>6, <1>7, QuietFull

LEMMA StepFull ==
  ASSUME Base, FullPass, NEW full \in BOOLEAN,
         \/ DeskHears \/ DeskRestored \/ Age
         \/ MirrorCreate \/ MirrorEdit \/ MirrorTrash \/ MirrorRestore \/ MirrorErase
         \/ StartSync(full) \/ FinishSync \/ Kill
  PROVE  FullPass'
<1>1. Typed
  BY DEF Base
<1> SUFFICES ASSUME FullRun', NEW r \in Resources PROVE FullOf(r)'
  BY DEF FullPass
<1>2. CASE StartSync(full)
  <2>1. worker'[r].pc = "begin"
    BY <1>1, <1>2, StartView
  <2> QED  BY <2>1 DEF FullOf
<1>3. cmd'.op = "sync" /\ cmd'.full /\ ~moved'
  BY DEF FullRun
<1>4. ~(DeskHears \/ DeskRestored)
  BY <1>1, <1>3, HearsView, RestoredView
<1>5. ~(MirrorCreate \/ MirrorEdit \/ MirrorTrash \/ MirrorRestore \/ MirrorErase \/ FinishSync \/ Kill)
  BY <1>1, <1>3, CreateView, EditView, TrashView, RestoreView, EraseView, FinishView, KillView, RecordTypes
<1>6. CASE Age
  <2>1. /\ UNCHANGED <<history, desk, mirror, cmd, worker, moved>>
        /\ \A k \in Keys : pending'[k].written = pending[k].written
    BY <1>1, <1>6, AgeView
  <2>2. Desk' = Desk /\ Version' = Version
    BY <1>1, <2>1, QuietLibrary
  <2>3. \A k \in Keys : Settled(k)' => Settled(k)
    BY <2>1, <2>2 DEF Settled
  <2>4. FullOf(r)
    BY <1>3, <2>1 DEF FullPass, FullRun
  <2> QED  BY <1>1, <2>1, <2>2, <2>3, <2>4, QuietFull
<1> QED  BY <1>2, <1>4, <1>5, <1>6

LEMMA FetchFull ==
  ASSUME Base, Newer, FullRun, NEW r \in Resources, FetchListing(r)
  PROVE  FullOf(r)'
<1>1. /\ Typed /\ UNCHANGED <<history, desk, mirror>> /\ worker[r].pc = "fetch" /\ worker[r].full
      /\ worker[r].since = 0
  BY FetchView, AtWork, WorkerFacts DEF Base, FullRun, Pass, Busy
<1>2. Desk' = Desk /\ Version' = Version
  BY <1>1, QuietLibrary
<1>3. \A k \in Keys : Desk[k].at = Place(r) <=> Heard(r, k)
  <2> TAKE k \in Keys
  <2>1. Desk[k].at = Place(r) => Desk[k].ver > 0
    BY <1>1, LibraryFacts, ObjectFacts, PlaneFacts DEF Desk
  <2> QED  BY <1>1, <2>1 DEF Heard
<1>4. worker'[r].seen = {k \in Keys : Desk[k].at = Place(r)}
  BY <1>1, <1>3, FetchView
<1>5. worker'[r].pc = IF \E k \in Keys : Heard(r, k) THEN "store" ELSE "sweep"
  BY <1>1, FetchView
<1>6. ASSUME NEW k \in Keys, Settled(k), Desk[k].at = Place(r)
      PROVE  \E row \in worker'[r].rows : row.key = k /\ row.ver = Desk[k].ver /\ row.val \in Shown(r, k)'
  <2> DEFINE row == [key |-> k, val |-> Sent(r, k), ver |-> Desk[k].ver]
  <2>1. row \in worker'[r].rows
    BY <1>1, <1>3, <1>6, FetchView, SettledFacts
  <2>2. Sent(r, k) \in Shown(r, k)'
    <3>1. CASE r = "items" /\ Lags(pending[k], Desk[k].val)
      <4>1. pending'[k] = pending[k]
        BY <1>1, <3>1, FetchView
      <4> QED  BY <3>1, <4>1 DEF Sent, Shown
    <3>2. CASE ~(r = "items" /\ Lags(pending[k], Desk[k].val))
      BY <1>2, <3>2 DEF Sent, Shown
    <3> QED  BY <3>1, <3>2
  <2> QED  BY <2>1, <2>2
<1>7. \A k \in Keys : Settled(k)' => Settled(k)
  BY <1>1, <1>2 DEF Settled
<1> QED  BY <1>2, <1>3, <1>4, <1>5, <1>6, <1>7 DEF FullOf

LEMMA StoreFull ==
  ASSUME Base, Newer, FullRun, NEW r \in Resources, FullOf(r), Store(r)
  PROVE  FullOf(r)'
<1>1. /\ Typed /\ UNCHANGED <<history, desk, pending>> /\ worker[r].pc = "store" /\ worker[r].full
      /\ worker'[r].pc = "sweep" /\ worker'[r].seen = worker[r].seen
  BY StoreView, AtWork DEF Base, FullRun, Works
<1>2. Desk' = Desk /\ Version' = Version
  BY <1>1, QuietLibrary
<1>3. ASSUME NEW k \in Keys, Settled(k), Desk[k].at = Place(r)
      PROVE  mirror'[r][k] # NoRow /\ mirror'[r][k].val \in Shown(r, k)
  <2>1. PICK row \in worker[r].rows : row.key = k /\ row.ver = Desk[k].ver /\ row.val \in Shown(r, k)
    BY <1>1, <1>3 DEF FullOf
  <2>2. mirror[r][k].ver = 0
    BY <1>1, WorkerFacts DEF Pass
  <2>3. Landed(r, row) = [val |-> row.val, ver |-> row.ver]
    BY <2>1, <2>2 DEF Landed, Keeps
  <2>4. Landed(r, row).val = row.val /\ Landed(r, row).ver = Desk[k].ver
    BY <2>1, <2>3
  <2>5. mirror[Other(r)][k].ver < Desk[k].ver /\ mirror[Other(r)][k].ver \in Nat /\ Desk[k].ver \in Nat
    BY <1>1, <1>3, SettledFacts, RowFacts, PlaneFacts
  <2>6. Wins(r, Landed(r, row).ver, mirror[Other(r)][k].ver)
    BY <2>4, <2>5 DEF Wins
  <2>7. mirror'[r][k] = Landed(r, row) /\ row.val \in Values
    BY <1>1, <2>1, <2>6, StoreView, ListedRowFacts
  <2> QED  BY <2>1, <2>4, <2>7, RecordTypes, NoneIsNoValue
<1>4. \A k \in Keys : (Settled(k)' => Settled(k)) /\ Shown(r, k)' = Shown(r, k)
  BY <1>1, <1>2 DEF Settled, Shown
<1> QED  BY <1>1, <1>2, <1>3, <1>4 DEF FullOf

LEMMA SweepFull ==
  ASSUME Base, Newer, FullRun, NEW r \in Resources, FullOf(r), Sweep(r)
  PROVE  FullOf(r)'
<1>1. /\ Typed /\ UNCHANGED <<history, desk>> /\ worker[r].pc = "sweep" /\ worker[r].full
      /\ worker'[r].pc = "stamp" /\ Sweeps(r, worker[r].seen)
  BY SweepView, AtWork DEF Base, FullRun, Works
<1>2. Desk' = Desk /\ Version' = Version
  BY <1>1, QuietLibrary
<1>3. worker[r].seen = {k \in Keys : Desk[k].at = Place(r)}
  BY <1>1 DEF FullOf
<1>4. ASSUME NEW k \in Keys, Settled(k), Desk[k].at = Place(r)
      PROVE  mirror'[r][k] # NoRow /\ mirror'[r][k].val \in Shown(r, k)'
  <2>1. mirror'[r][k] = mirror[r][k] /\ pending'[k] = pending[k]
    BY <1>1, <1>3, <1>4 DEF Sweeps
  <2> QED  BY <1>1, <1>2, <1>4, <2>1 DEF FullOf, Shown
<1>5. \A k \in Keys : Desk[k].at # Place(r) => mirror'[r][k] = NoRow
  BY <1>1, <1>3 DEF Sweeps
<1>6. \A k \in Keys : Settled(k)' => Settled(k)
  BY <1>1, <1>2 DEF Settled
<1> QED  BY <1>1, <1>2, <1>4, <1>5, <1>6 DEF FullOf

LEMMA WorkFull ==
  ASSUME Base, Newer, FullPass, NEW r \in Resources,
         BeginPass(r) \/ FetchListing(r) \/ Verify(r) \/ Store(r) \/ Sweep(r) \/ Stamp(r) \/ FailPass(r)
  PROVE  FullPass'
<1>1. Typed
  BY DEF Base
<1>2. /\ UNCHANGED <<history, desk, cmd, moved>> /\ \A q \in Resources : q # r => worker'[q] = worker[q]
  BY <1>1, BeginView, FetchView, VerifyView, StoreView, SweepView, StampView, FailView DEF Works
<1>3. Desk' = Desk /\ Version' = Version
  BY <1>1, <1>2, QuietLibrary
<1>4. \A k \in Keys : Settled(k)' => Settled(k)
  BY <1>2, <1>3 DEF Settled
<1> SUFFICES ASSUME FullRun', NEW q \in Resources PROVE FullOf(q)'
  BY DEF FullPass
<1>5. FullRun /\ \A p \in Resources : FullOf(p)
  BY <1>2 DEF FullRun, FullPass
<1>6. CASE q # r
  <2>1. q = "items" => \A k \in Keys : pending'[k] = pending[k]
    <3>1. CASE BeginPass(r)
      BY <1>1, <1>6, <3>1, BeginView
    <3>2. CASE FetchListing(r)
      BY <1>1, <1>6, <3>2, FetchView
    <3>3. CASE Sweep(r)
      BY <1>1, <1>6, <3>3, SweepView DEF Sweeps
    <3>4. CASE Verify(r) \/ Store(r) \/ Stamp(r) \/ FailPass(r)
      BY <1>1, <3>4, VerifyView, StoreView, StampView, FailView
    <3> QED  BY <3>1, <3>2, <3>3, <3>4
  <2>2. q = Other(r) /\ q # r
    BY <1>6, PlaneFacts
  <2>3. ASSUME NEW k \in Keys
        PROVE  mirror'[q][k] = mirror[q][k] \/ (Desk[k].at # Place(q) /\ mirror'[q][k] = NoRow)
    <3>1. CASE Store(r)
      <4>1. /\ worker[r].pc = "store" /\ worker[r].seen = {i \in Keys : Desk[i].at = Place(r)}
        BY <1>1, <1>5, <3>1, StoreView DEF FullOf
      <4>2. CASE \A row \in worker[r].rows : row.key # k
        BY <1>1, <3>1, <4>2, StoreView
      <4>3. ASSUME NEW row \in worker[r].rows, row.key = k
            PROVE  mirror'[q][k] \in {mirror[q][k], NoRow} /\ Desk[k].at # Place(q)
        <5>1. Desk[k].at = Place(r)
          BY <1>1, <4>1, <4>3, ListedRowFacts
        <5> QED  BY <1>1, <2>2, <3>1, <4>3, <5>1, StoreView, PlaneFacts
      <4> QED  BY <4>2, <4>3
    <3>2. CASE Sweep(r)
      BY <1>1, <2>2, <3>2, SweepView DEF Sweeps
    <3>3. CASE BeginPass(r)
      BY <1>1, <1>6, <3>3, BeginView
    <3>4. CASE FetchListing(r) \/ Verify(r) \/ Stamp(r) \/ FailPass(r)
      BY <1>1, <3>4, FetchView, VerifyView, StampView, FailView
    <3> QED  BY <3>1, <3>2, <3>3, <3>4
  <2> QED  BY <1>1, <1>2, <1>3, <1>4, <1>5, <1>6, <2>1, <2>3, QuietFull
<1>7. CASE q = r
  <2>1. CASE BeginPass(r)
    <3>1. worker'[r].pc = "fetch"
      BY <1>1, <2>1, BeginView DEF Works
    <3> QED  BY <1>7, <3>1 DEF FullOf
  <2>2. CASE Verify(r)
    <3>1. worker[r].pc = "verify" /\ worker[r].full
      BY <1>1, <1>5, <2>2, VerifyView, AtWork DEF FullRun
    <3> QED  BY <1>1, <3>1, WorkerFacts DEF Pass
  <2>3. CASE Stamp(r)
    <3>1. /\ worker[r].pc = "stamp" /\ worker'[r].pc = "done" /\ mirror' = mirror /\ pending' = pending
      BY <1>1, <2>3, StampView
    <3>2. \A k \in Keys : Shown(r, k)' = Shown(r, k)
      BY <1>3, <3>1 DEF Shown
    <3> QED  BY <1>3, <1>4, <1>5, <1>7, <3>1, <3>2 DEF FullOf
  <2>4. CASE FailPass(r)
    <3>1. worker'[r].pc = "failed"
      BY <1>1, <2>4, FailView
    <3> QED  BY <1>7, <3>1 DEF FullOf
  <2> QED  BY <1>5, <1>7, <2>1, <2>2, <2>3, <2>4, FetchFull, StoreFull, SweepFull
<1> QED  BY <1>6, <1>7

LEMMA FullLast ==
  ASSUME Base, Newer, FullPass, PlanesNext
  PROVE  FullPass'
  BY LandsFull, StepFull, WorkFull DEF PlanesNext

LEMMA NewerInvariant == PlanesSpec => []Newer
<1>1. PlanesInit => Newer
  <2> SUFFICES ASSUME PlanesInit PROVE Newer
    OBVIOUS
  <2>1. Typed
    BY BaseFirst DEF Base
  <2>2. \A r \in Resources, k \in Keys : Misplaced(k, r) => mirror[r][k].ver = 0
    BY InitFacts, PlaneFacts, RecordTypes DEF Misplaced
  <2>3. \A r \in Resources, k \in Keys : Misplaced(k, r) => Older(k, mirror[r][k].ver)
    BY <2>1, <2>2, OlderFacts
  <2> QED  BY <2>3, InitFacts, RecordTypes DEF Newer
<1>2. Base /\ Newer /\ [PlanesNext]_planeVars => Newer'
  <2>1. ASSUME Newer, UNCHANGED planeVars PROVE Newer'
    BY <2>1 DEF Newer, Misplaced, Older, Since, Cloud, Version, planeVars, planes, store, bounds, ghosts
  <2> QED  BY <2>1, NewerLast
<1> QED  BY <1>1, <1>2, BaseInvariant, PTL DEF PlanesSpec

\* A full sync over a desktop that stays still leaves each item that nobody has
\* moved since what the desktop shows in the table of its state alone, with the
\* desktop's value or zotio's later one, whatever risks are taken: the desktop
\* lags, is put back from a backup, hears of writes out of order, syncs fail
\* halfway (sync.go: Full sync also clears row versions; store.go,
\* reconcileItemLifecycleTx).
THEOREM FullSyncsSettle == PlanesSpec => []FullSettles
<1>1. PlanesInit => FullPass
  BY InitFacts, RecordTypes DEF FullPass, FullOf
<1>2. Base /\ Newer /\ FullPass /\ [PlanesNext]_planeVars => FullPass'
  <2>1. ASSUME FullPass, UNCHANGED planeVars PROVE FullPass'
    BY <2>1 DEF FullPass, FullRun, FullOf, Settled, Shown, Desk, Version, planeVars, planes, store, bounds, ghosts
  <2> QED  BY <2>1, FullLast
<1>3. Base /\ FullPass => FullSettles
  <2> SUFFICES ASSUME Base, FullPass, Completed, cmd.full,
                      NEW k \in Keys, \A i \in desk .. Version : history[i][k].at = Desk[k].at
               PROVE  /\ InPlace(k)
                      /\ \A r \in Resources : mirror[r][k].val \in {None, Desk[k].val, pending[k].written}
    BY DEF FullSettles
  <2>1. cmd.op = "sync" /\ ~moved /\ \A r \in Resources : worker[r].pc = "done"
    BY DEF Completed, At
  <2>2. Settled(k) /\ Typed
    BY DEF Settled, Base
  <2>3. \A r \in Resources :
          /\ Desk[k].at = Place(r) => mirror[r][k] # NoRow /\ mirror[r][k].val \in Shown(r, k)
          /\ Desk[k].at # Place(r) => mirror[r][k] = NoRow
    BY <2>1, <2>2 DEF FullPass, FullRun, FullOf
  <2> QED  BY <2>3, RecordTypes DEF InPlace, Shown
<1> QED  BY <1>1, <1>2, <1>3, BaseInvariant, NewerInvariant, PTL DEF PlanesSpec

-----------------------------------------------------------------------------
(* The values of the markers. *)

\* An edit writes a value that is neither the mirror's nor in its marker.
FreshValues ==
    /\ \A k \in Keys : pending[k].kind # "field" => pending[k].was = {} /\ pending[k].written = None
    /\ \A k \in Keys : pending[k].kind = "field" => pending[k].written \notin pending[k].was
    /\ cmd.op = "edit" =>
         cmd.val \notin {mirror["items"][cmd.key].val, pending[cmd.key].written} \cup pending[cmd.key].was

LEMMA QuietFresh ==
  ASSUME FreshValues, \A k \in Keys : pending'[k] \in {pending[k], NoMarker},
         cmd'.op # "edit"
  PROVE  FreshValues'
  BY RecordTypes DEF FreshValues

LEMMA LandsFresh ==
  ASSUME "again" \notin Risks, Base, FreshValues, NEW op \in Ops, NEW k \in Keys, NEW v \in Values,
         Elsewhere(op, k, v) \/ Command(op, k, v)
  PROVE  FreshValues'
<1>1. /\ Lands(op, k, v) /\ Typed /\ Origins
      /\ UNCHANGED <<mirror, pending>>
      /\ cmd' = cmd \/ (cmd'.op = op /\ cmd'.key = k /\ cmd'.val = v)
  BY ElsewhereView, CommandView DEF Base
<1>2. op = "edit" => v \notin Known(k)
  BY <1>1, LandsFacts, NoneIsNoValue DEF Known
<1>3. op = "edit" => v \notin {mirror["items"][k].val, pending[k].written} \cup pending[k].was
  BY <1>1, <1>2, PlaneFacts DEF Origins, Native, Noted
<1> QED  BY <1>1, <1>3 DEF FreshValues

LEMMA ReplayFresh ==
  ASSUME Base, FreshValues, MirrorCreate \/ MirrorEdit \/ MirrorTrash \/ MirrorRestore \/ MirrorErase
  PROVE  FreshValues'
<1>1. Typed /\ cmd'.op = "idle"
  BY CreateView, EditView, TrashView, RestoreView, EraseView, RecordTypes DEF Base
<1>2. CASE MirrorCreate
  <2>1. LET m == [NoMarker EXCEPT !.kind = "create"] IN m.kind = "create" /\ m.was = {} /\ m.written = None
    BY DEF NoMarker
  <2> QED  BY <1>1, <1>2, <2>1, CreateView DEF FreshValues
<1>3. CASE MirrorEdit
  <2> DEFINE k == cmd.key
             old == mirror["items"][k]
  <2>1. CASE old = NoRow
    BY <1>1, <1>3, <2>1, EditView, QuietFresh
  <2>2. CASE old # NoRow
    <3>1. /\ k \in Keys /\ cmd.op = "edit"
          /\ \A j \in Keys : j # k => pending'[j] = pending[j]
          /\ pending[k].kind = "create" => pending'[k].kind = "create" /\ pending'[k].was = pending[k].was
                                           /\ pending'[k].written = pending[k].written
          /\ pending[k].kind # "create" =>
               /\ pending'[k].kind = "field" /\ pending'[k].written = cmd.val
               /\ pending'[k].was = IF pending[k].kind = "none" THEN {old.val}
                                    ELSE {old.val, pending[k].written} \cup pending[k].was
      BY <1>1, <1>3, <2>2, EditView
    <3>2. cmd.val \notin {old.val, pending[k].written} \cup pending[k].was
      BY <3>1 DEF FreshValues
    <3> HIDE DEF k, old
    <3>3. /\ pending'[k].kind = "field" => pending'[k].written \notin pending'[k].was
          /\ pending'[k].kind # "field" => pending'[k].was = {} /\ pending'[k].written = None
      BY <3>1, <3>2 DEF FreshValues
    <3> QED  BY <1>1, <3>1, <3>3 DEF FreshValues
  <2> QED  BY <2>1, <2>2
<1>4. CASE MirrorTrash \/ MirrorRestore
  BY <1>1, <1>4, TrashView, RestoreView, QuietFresh
<1>5. CASE MirrorErase
  BY <1>1, <1>5, EraseView, RecordTypes DEF FreshValues
<1> QED  BY <1>2, <1>3, <1>4, <1>5

LEMMA StepFresh ==
  ASSUME Base, FreshValues, NEW full \in BOOLEAN,
         DeskHears \/ DeskRestored \/ Age \/ StartSync(full) \/ FinishSync \/ Kill
  PROVE  FreshValues'
<1>1. Typed
  BY DEF Base
<1>2. CASE DeskHears \/ DeskRestored
  BY <1>1, <1>2, HearsView, RestoredView DEF FreshValues
<1>3. CASE Age
  <2>1. cmd.op = "edit" => cmd.key \in Keys
    BY <1>1, CommandFacts DEF Ops
  <2> QED  BY <1>1, <1>3, <2>1, AgeView DEF FreshValues
<1>4. CASE StartSync(full)
  BY <1>1, <1>4, StartView, QuietFresh
<1>5. CASE FinishSync
  BY <1>1, <1>5, FinishView, QuietFresh, RecordTypes DEF Sweeps
<1>6. CASE Kill
  BY <1>1, <1>6, KillView, QuietFresh, RecordTypes
<1> QED  BY <1>2, <1>3, <1>4, <1>5, <1>6

LEMMA WorkFresh ==
  ASSUME Base, FreshValues, NEW r \in Resources,
         BeginPass(r) \/ FetchListing(r) \/ Verify(r) \/ Store(r) \/ Sweep(r) \/ Stamp(r) \/ FailPass(r)
  PROVE  FreshValues'
<1>1. Typed
  BY DEF Base
<1>2. cmd' = cmd /\ cmd.op = "sync"
  BY <1>1, AtWork, BeginView, FetchView, VerifyView, StoreView, SweepView, StampView, FailView
<1>3. \A k \in Keys : pending'[k] \in {pending[k], NoMarker}
  <2>1. CASE BeginPass(r)
    BY <1>1, <2>1, BeginView
  <2>2. CASE FetchListing(r)
    BY <1>1, <2>2, FetchView
  <2>3. CASE Sweep(r)
    BY <1>1, <2>3, SweepView DEF Sweeps
  <2>4. CASE Verify(r) \/ Store(r) \/ Stamp(r) \/ FailPass(r)
    BY <1>1, <2>4, VerifyView, StoreView, StampView, FailView
  <2> QED  BY <2>1, <2>2, <2>3, <2>4
<1> QED  BY <1>2, <1>3, QuietFresh

LEMMA FreshLast ==
  ASSUME "again" \notin Risks, Base, FreshValues, PlanesNext
  PROVE  FreshValues'
  BY LandsFresh, ReplayFresh, StepFresh, WorkFresh DEF PlanesNext

LEMMA FreshInvariant ==
  ASSUME "again" \notin Risks
  PROVE  PlanesSpec => []FreshValues
<1>1. PlanesInit => FreshValues
  BY InitFacts, RecordTypes DEF FreshValues
<1>2. Base /\ FreshValues /\ [PlanesNext]_planeVars => FreshValues'
  <2>1. ASSUME FreshValues, UNCHANGED planeVars PROVE FreshValues'
    BY <2>1 DEF FreshValues, planeVars, planes, store, bounds, ghosts
  <2> QED  BY <2>1, FreshLast
<1> QED  BY <1>1, <1>2, BaseInvariant, PTL DEF PlanesSpec

-----------------------------------------------------------------------------
(* What zotio wrote. *)

\* Did the key have the value at version ver or later?
Had(k, val, ver) == \E i \in ver .. Version : history[i][k].val = val

\* A desktop that has not heard of zotio's write shows what the write replaced.
Stands(k) ==
    wrote[k] > 0 =>
      /\ mirror["items"][k] # NoRow => Had(k, mirror["items"][k].val, wrote[k])
      /\ \A row \in worker["items"].rows : row.key = k => Had(k, row.val, wrote[k])
      /\ pending[k].kind = "field" => pending[k].written = history[wrote[k]][k].val
      /\ desk < wrote[k] /\ Desk[k].at = "live" =>
           \/ pending[k].kind = "field" /\ Desk[k].val \in pending[k].was
           \/ pending[k].kind = "deleted"

\* The write a command has made, and what it saw when it made it.
CommandStands ==
    /\ cmd.op \in {"create", "edit"} /\ cmd.ver > 0 =>
         /\ history[cmd.ver][cmd.key].val = cmd.val
         /\ cmd.op = "create" => \A i \in 1 .. cmd.ver - 1 : history[i][cmd.key].at = "never"
    /\ cmd.op = "edit" =>
         /\ pending[cmd.key].kind # "create"
         /\ desk < cmd.ver =>
              Desk[cmd.key].val \in {mirror["items"][cmd.key].val, None} \cup pending[cmd.key].was

OwnWrites == CommandStands /\ \A k \in Keys : Stands(k)

\* Risks in which a write of zotio may be rolled back.
OwnRisks == Risks \cap {"behind", "again", "unseen", "fresh"} = {}

LEMMA WroteFacts ==
  ASSUME Typed, NEW k \in Keys
  PROVE  wrote[k] \in Nat /\ wrote[k] <= Version /\ (wrote[k] > 0 => wrote[k] \in 1 .. Version)
<1>1. wrote[k] \in 0 .. Version /\ Version \in Nat
  BY TypedParts, LibraryFacts DEF TypesCounts
<1> QED  BY <1>1

LEMMA LandsOwn ==
  ASSUME OwnRisks, Base, OwnWrites, NEW op \in Ops, NEW j \in Keys, NEW v \in Values,
         Elsewhere(op, j, v) \/ Command(op, j, v)
  PROVE  OwnWrites'
<1>1. /\ Lands(op, j, v) /\ Typed
      /\ UNCHANGED <<desk, mirror, pending, worker, wrote>>
      /\ \/ cmd' = cmd
         \/ /\ cmd'.op = op /\ cmd'.key = j /\ cmd'.val = v /\ cmd'.ver = Version + 1
            /\ op = "edit" => /\ Desk[j].val \in {mirror["items"][j].val, None} \cup pending[j].was
                              /\ pending[j].kind # "create"
  BY ElsewhereView, CommandView DEF Base, OwnRisks
<1>2. /\ Version' = Version + 1 /\ Version \in Nat /\ Version \in 1 .. Version /\ Desk' = Desk
      /\ \A i \in 1 .. Version : history'[i] = history[i]
      /\ Cloud' = history'[Version + 1]
  BY <1>1, LandsFacts, LandsChronicle, LibraryFacts
<1>3. \A k, val : \A n \in Nat : n > 0 /\ Had(k, val, n) => Had(k, val, n)'
  <2> TAKE k, val
  <2> TAKE n \in Nat
  <2>1. ASSUME n > 0, NEW i \in n .. Version PROVE i \in n .. Version' /\ history'[i] = history[i]
    BY <1>2, <2>1
  <2> QED  BY <2>1 DEF Had
<1>4. ASSUME NEW k \in Keys PROVE Stands(k)'
  <2>1. wrote[k] \in Nat /\ (wrote[k] > 0 => history'[wrote[k]] = history[wrote[k]])
    BY <1>1, <1>2, WroteFacts
  <2>2. Stands(k)
    BY DEF OwnWrites
  <2> QED  BY <1>1, <1>2, <1>3, <2>1, <2>2 DEF Stands
<1>5. CommandStands'
  <2>1. CASE cmd' = cmd
    <3>1. /\ cmd.ver \in Nat /\ cmd.ver <= Version
          /\ cmd.ver > 0 => history'[cmd.ver] = history[cmd.ver]
          /\ \A i \in 1 .. cmd.ver - 1 : history'[i] = history[i]
      BY <1>1, <1>2, CommandFacts
    <3> QED  BY <1>1, <1>2, <2>1, <3>1 DEF CommandStands, OwnWrites
  <2>2. CASE /\ cmd'.op = op /\ cmd'.key = j /\ cmd'.val = v /\ cmd'.ver = Version + 1
             /\ op = "edit" => /\ Desk[j].val \in {mirror["items"][j].val, None} \cup pending[j].was
                               /\ pending[j].kind # "create"
    <3>1. op \in {"create", "edit"} => history'[Version + 1][j].val = v
      <4>1. Becomes(j, op, j, v) /\ (op # "erase" => Cloud'[j].ver = Version + 1) /\ Cloud[j].ver \in Nat
            /\ Cloud[j].ver <= Version
        BY <1>1, LandsFacts, LandsKeeps, LibraryFacts, ObjectFacts DEF Cloud
      <4> QED  BY <1>2, <4>1 DEF Becomes
    <3>2. op = "create" => \A i \in 1 .. Version : history'[i][j].at = "never"
      <4>1. \A i \in 1 .. Version : Follows(history[i][j], Cloud[j], i)
        <5> TAKE i \in 1 .. Version
        <5>1. Version \in i .. Version
          BY <1>2
        <5> QED  BY <1>1, <5>1, ObjectFacts DEF Cloud
      <4> QED  BY <1>1, <1>2, <4>1, LandsFacts DEF Follows
    <3>3. 1 .. (Version + 1) - 1 = 1 .. Version
      BY <1>2
    <3> QED  BY <1>1, <1>2, <2>2, <3>1, <3>2, <3>3 DEF CommandStands
  <2> QED  BY <1>1, <2>1, <2>2
<1> QED  BY <1>4, <1>5 DEF OwnWrites

\* A replay of a write whose version is ver.
LEMMA WrittenStands ==
  ASSUME Typed, UNCHANGED <<history, desk, worker>>, worker["items"].rows = {},
         NEW k \in Keys, NEW val, NEW ver \in Nat, ver <= Version,
         wrote'[k] = ver, mirror'["items"][k].val = val,
         ver > 0 => history[ver][k].val = val,
         pending'[k].kind = "field" => pending'[k].written = val,
         desk < ver /\ Desk[k].at = "live" => pending'[k].kind = "field" /\ Desk[k].val \in pending'[k].was
  PROVE  Stands(k)'
<1>1. Version' = Version /\ Desk' = Desk /\ Version \in Nat
  BY QuietLibrary, LibraryFacts
<1>2. ver > 0 => Had(k, val, ver)'
  <2>1. ver \in ver .. Version
    BY <1>1
  <2> QED  BY <1>1, <2>1 DEF Had
<1> QED  BY <1>1, <1>2 DEF Stands

LEMMA ReplayOwn ==
  ASSUME OwnRisks, Base, FreshValues, OwnWrites,
         MirrorCreate \/ MirrorEdit \/ MirrorTrash \/ MirrorRestore \/ MirrorErase
  PROVE  OwnWrites'
<1>1. /\ Typed /\ cmd'.op = "idle" /\ UNCHANGED <<history, desk, worker>> /\ cmd.key \in Keys
      /\ \A r \in Resources : worker[r].rows = {}
  BY CreateView, EditView, TrashView, RestoreView, EraseView, CommandFacts, RecordTypes DEF Base, Ops
<1>2. Version' = Version /\ Desk' = Desk /\ Version \in Nat /\ "items" \in Resources /\ "items-trash" \in Resources
      /\ desk \in Nat /\ desk >= 1
  BY <1>1, QuietLibrary, LibraryFacts, PlaneFacts
<1>3. CommandStands'
  BY <1>1 DEF CommandStands
<1>4. ASSUME NEW k \in Keys, wrote'[k] = wrote[k], mirror'["items"][k] \in {mirror["items"][k], NoRow},
             pending'[k] = pending[k] \/ pending'[k].kind = "deleted"
      PROVE  Stands(k)'
  BY <1>1, <1>2, <1>4 DEF Stands, OwnWrites, Had
<1>5. cmd.ver \in Nat /\ cmd.ver <= Version /\ (cmd.ver > 0 => cmd.ver \in cmd.ver .. Version)
  BY <1>1, <1>2, CommandFacts
<1>6. CASE MirrorCreate
  <2>1. LET m == [NoMarker EXCEPT !.kind = "create"] IN m.kind = "create" /\ m.was = {} /\ m.written = None
    BY DEF NoMarker
  <2>2. \A k \in Keys : k # cmd.key => Stands(k)'
    BY <1>1, <1>2, <1>4, <1>6, CreateView
  <2>3. ASSUME NEW k \in Keys, k = cmd.key PROVE Stands(k)'
    <3>1. /\ wrote'[k] = cmd.ver /\ mirror'["items"][k] = [val |-> cmd.val, ver |-> 0]
          /\ pending'[k].kind = "create" /\ cmd.op = "create"
      BY <1>1, <1>2, <1>6, <2>1, <2>3, CreateView
    <3>2. mirror'["items"][k].val = cmd.val
      BY <3>1
    <3>3. cmd.ver > 0 => /\ history[cmd.ver][k].val = cmd.val
                         /\ \A i \in 1 .. cmd.ver - 1 : history[i][k].at = "never"
      BY <2>3, <3>1 DEF OwnWrites, CommandStands
    <3>4. desk < cmd.ver => Desk[k].at = "never"
      <4>1. desk < cmd.ver => desk \in 1 .. cmd.ver - 1
        BY <1>2, <1>5
      <4> QED  BY <1>2, <1>5, <3>3, <4>1 DEF Desk
    <3> QED  BY <1>1, <1>2, <1>5, <3>1, <3>2, <3>3, <3>4, WrittenStands
  <2> QED  BY <1>1, <1>3, <2>2, <2>3 DEF OwnWrites
<1>7. CASE MirrorEdit
  <2>1. CASE mirror["items"][cmd.key] = NoRow
    BY <1>1, <1>3, <1>4, <1>7, <2>1, EditView DEF OwnWrites
  <2>2. CASE mirror["items"][cmd.key] # NoRow
    <3>1. \A k \in Keys : k # cmd.key => Stands(k)'
      BY <1>1, <1>2, <1>4, <1>7, <2>2, EditView
    <3>2. ASSUME NEW k \in Keys, k = cmd.key PROVE Stands(k)'
      <4>1. /\ cmd.op = "edit" /\ mirror["items"][k] # NoRow
            /\ mirror'["items"][k] = [val |-> cmd.val, ver |-> 0]
            /\ wrote'[k] = cmd.ver
        BY <1>1, <1>2, <1>7, <2>2, <3>2, EditView
      <4>2. /\ pending[k].kind # "create" /\ pending[k].kind # "deleted"
            /\ cmd.ver > 0 => history[cmd.ver][k].val = cmd.val
            /\ desk < cmd.ver => Desk[k].val \in {mirror["items"][k].val, None} \cup pending[k].was
        BY <1>1, <1>2, <3>2, <4>1, MarkerFacts DEF OwnWrites, CommandStands
      <4>3. /\ pending'[k].kind = "field" /\ pending'[k].written = cmd.val
            /\ pending'[k].was = IF pending[k].kind = "none" THEN {mirror["items"][k].val}
                                 ELSE {mirror["items"][k].val, pending[k].written} \cup pending[k].was
        BY <1>1, <1>7, <2>2, <3>2, <4>2, EditView
      <4>4. pending[k].kind = "none" => pending[k].was = {}
        BY DEF FreshValues
      <4>5. Desk[k].at = "live" => Desk[k].val # None
        BY <1>1, LibraryFacts, ObjectFacts, NoneIsNoValue DEF Desk
      <4>6. desk < cmd.ver /\ Desk[k].at = "live" => Desk[k].val \in pending'[k].was
        BY <4>2, <4>3, <4>4, <4>5
      <4>7. mirror'["items"][k].val = cmd.val
        BY <4>1
      <4> QED  BY <1>1, <1>2, <1>5, <4>1, <4>2, <4>3, <4>6, <4>7, WrittenStands
    <3> QED  BY <1>1, <1>3, <3>1, <3>2 DEF OwnWrites
  <2> QED  BY <2>1, <2>2
<1>8. CASE MirrorTrash
  <2>1. \A k \in Keys : mirror'["items"][k] = mirror["items"][k]
    BY <1>1, <1>2, <1>8, TrashView
  <2> QED  BY <1>1, <1>3, <1>4, <1>8, <2>1, TrashView DEF OwnWrites
<1>9. CASE MirrorRestore
  <2>1. ASSUME NEW k \in Keys PROVE Stands(k)'
    <3>1. CASE wrote'[k] = 0
      BY <3>1 DEF Stands
    <3>2. CASE wrote'[k] # 0
      <4>1. wrote'[k] = wrote[k] /\ mirror'["items"][k] = mirror["items"][k] /\ pending'[k] = pending[k]
        BY <1>1, <1>9, <3>2, RestoreView
      <4> QED  BY <1>4, <4>1
    <3> QED  BY <3>1, <3>2
  <2> QED  BY <1>3, <2>1 DEF OwnWrites
<1>10. CASE MirrorErase
  <2>1. \A k \in Keys : /\ wrote'[k] = wrote[k] /\ mirror'["items"][k] \in {mirror["items"][k], NoRow}
                        /\ pending'[k] = pending[k] \/ pending'[k].kind = "deleted"
    BY <1>1, <1>2, <1>10, EraseView, RecordTypes
  <2> QED  BY <1>3, <1>4, <2>1 DEF OwnWrites
<1> QED  BY <1>6, <1>7, <1>8, <1>9, <1>10
\* A step that replays nothing and fetches no items.
LEMMA QuietOwn ==
  ASSUME Typed, OwnWrites, UNCHANGED <<history, desk>>, cmd'.op \notin {"create", "edit"},
         \A row \in worker'["items"].rows : row \in worker["items"].rows,
         \A k \in Keys :
           \/ wrote'[k] = 0
           \/ /\ wrote'[k] = wrote[k] /\ pending'[k] = pending[k]
              /\ \/ mirror'["items"][k] = NoRow
                 \/ mirror["items"][k] # NoRow /\ mirror'["items"][k].val = mirror["items"][k].val
                 \/ \E row \in worker["items"].rows : row.key = k /\ mirror'["items"][k].val = row.val
  PROVE  OwnWrites'
<1>1. Version' = Version /\ Desk' = Desk
  BY QuietLibrary
<1>2. \A k, val, n : Had(k, val, n)' <=> Had(k, val, n)
  BY <1>1 DEF Had
<1>3. ASSUME NEW k \in Keys, wrote'[k] # 0 PROVE Stands(k)'
  <2>1. Stands(k) /\ wrote'[k] = wrote[k] /\ pending'[k] = pending[k]
    BY <1>3 DEF OwnWrites
  <2>2. wrote[k] > 0 /\ mirror'["items"][k] # NoRow => Had(k, mirror'["items"][k].val, wrote[k])
    BY <1>3, <2>1 DEF Stands
  <2> QED  BY <1>1, <1>2, <2>1, <2>2 DEF Stands
<1>4. \A k \in Keys : wrote'[k] = 0 => Stands(k)'
  BY DEF Stands
<1> QED  BY <1>3, <1>4 DEF OwnWrites, CommandStands

LEMMA StepOwn ==
  ASSUME OwnRisks, Base, OwnWrites, NEW full \in BOOLEAN,
         DeskHears \/ DeskRestored \/ Age \/ StartSync(full) \/ FinishSync \/ Kill
  PROVE  OwnWrites'
<1>1. /\ Typed /\ Version \in Nat /\ cmd.ver \in Nat /\ cmd.ver <= Version
      /\ "items" \in Resources /\ "items-trash" \in Resources /\ Other("items-trash") = "items"
  BY LibraryFacts, CommandFacts, PlaneFacts DEF Base, Other
<1>2. CASE DeskHears
  <2>1. /\ desk' = Version /\ UNCHANGED <<history, mirror, pending, cmd, worker, wrote>>
    BY <1>1, <1>2, HearsView DEF OwnRisks
  <2>2. Version' = Version /\ \A k, val, n : Had(k, val, n)' <=> Had(k, val, n)
    BY <2>1 DEF Had, Version
  <2>3. \A k \in Keys : ~(Version < wrote[k])
    BY <1>1, WroteFacts
  <2>4. ASSUME NEW k \in Keys PROVE Stands(k)'
    BY <2>1, <2>2, <2>3 DEF Stands, OwnWrites
  <2>5. ~(Version < cmd.ver)
    BY <1>1
  <2>6. CommandStands'
    BY <2>1, <2>5 DEF CommandStands, OwnWrites
  <2> QED  BY <2>4, <2>6 DEF OwnWrites
<1>3. CASE DeskRestored
  <2>1. /\ UNCHANGED <<history, mirror, pending, worker>> /\ cmd'.ver = 0
        /\ cmd'.op = cmd.op /\ cmd'.key = cmd.key /\ desk' \in Nat /\ (cmd.op = "edit" => cmd.key \in Keys)
        /\ \A k \in Keys : wrote'[k] = 0
    BY <1>1, <1>3, RestoredView, CommandFacts DEF Ops
  <2>2. \A k \in Keys : Stands(k)'
    BY <2>1 DEF Stands
  <2>3. ~(cmd'.ver > 0) /\ ~(desk' < cmd'.ver)
    BY <2>1
  <2>4. cmd.op = "edit" => pending'[cmd'.key].kind # "create"
    BY <2>1 DEF CommandStands, OwnWrites
  <2>5. CommandStands'
    BY <2>1, <2>3, <2>4 DEF CommandStands
  <2> QED  BY <2>2, <2>5 DEF OwnWrites
<1>4. CASE Age
  <2>1. /\ UNCHANGED <<history, desk, mirror, cmd, worker, wrote>> /\ (cmd.op = "edit" => cmd.key \in Keys)
        /\ \A j \in Keys : /\ pending'[j].kind = pending[j].kind
                           /\ pending'[j].written = pending[j].written
                           /\ pending'[j].was = pending[j].was
    BY <1>1, <1>4, AgeView, CommandFacts DEF Ops
  <2>2. Version' = Version /\ Desk' = Desk /\ \A k, val, n : Had(k, val, n)' <=> Had(k, val, n)
    BY <2>1 DEF Had, Version, Desk
  <2>3. ASSUME NEW k \in Keys PROVE Stands(k)'
    <3>1. Stands(k)
      BY DEF OwnWrites
    <3> QED  BY <2>1, <2>2, <3>1 DEF Stands
  <2>4. CommandStands'
    BY <2>1, <2>2 DEF CommandStands, OwnWrites
  <2> QED  BY <2>3, <2>4 DEF OwnWrites
<1>5. CASE StartSync(full)
  <2>1. /\ UNCHANGED <<history, desk, mirror, pending, wrote>> /\ cmd'.op = "sync"
        /\ worker'["items"].rows = {}
    BY <1>1, <1>5, StartView
  <2> QED  BY <1>1, <2>1, QuietOwn
<1>6. CASE FinishSync \/ Kill
  <2>1. UNCHANGED <<history, desk>> /\ cmd' = NoCommand /\ worker' = [r \in Resources |-> NoWorker]
    BY <1>1, <1>6, FinishView, KillView
  <2>2. cmd'.op = "idle" /\ worker'["items"].rows = {}
    BY <1>1, <2>1, RecordTypes
  <2>3. \A k \in Keys : mirror'["items"][k] = mirror["items"][k]
                        /\ (wrote'[k] = 0 \/ (wrote'[k] = wrote[k] /\ pending'[k] = pending[k]))
    BY <1>1, <1>6, FinishView, KillView DEF Sweeps
  <2> QED  BY <1>1, <2>1, <2>2, <2>3, QuietOwn
<1> QED  BY <1>2, <1>3, <1>4, <1>5, <1>6

LEMMA FetchOwn ==
  ASSUME Base, FreshValues, OwnWrites, FetchListing("items")
  PROVE  OwnWrites'
<1>1. /\ Typed /\ "items" \in Resources /\ UNCHANGED <<history, desk, mirror, wrote, cmd>> /\ cmd.op = "sync"
      /\ Version' = Version /\ Desk' = Desk /\ Version \in Nat /\ desk \in 1 .. Version
  BY FetchView, AtWork, PlaneFacts, QuietLibrary, LibraryFacts DEF Base
<1>2. ASSUME NEW k \in Keys, wrote[k] > 0 PROVE Stands(k)'
  <2>1. /\ Stands(k) /\ wrote[k] \in Nat /\ wrote[k] <= Version
        /\ pending[k].kind = "field" => pending[k].written \notin pending[k].was
    BY <1>1, WroteFacts DEF OwnWrites, FreshValues
  <2>2. desk < wrote[k] /\ Desk[k].at = "live" /\ pending[k].kind # "deleted" => Lags(pending[k], Desk[k].val)
    BY <1>2, <2>1 DEF Stands, Lags
  <2>3. pending'[k] = IF Heard("items", k) /\ pending[k].kind \in {"create", "field"} /\ ~Lags(pending[k], Desk[k].val)
                      THEN NoMarker ELSE pending[k]
    BY <1>1, FetchView
  <2>4. Heard("items", k) => Desk[k].at = "live"
    BY PlaneFacts DEF Heard
  <2>5. Lags(pending[k], Desk[k].val) => Had(k, pending[k].written, wrote[k])
    <3>1. wrote[k] \in wrote[k] .. Version
      BY <1>1, <2>1
    <3> QED  BY <1>2, <2>1, <3>1 DEF Lags, Stands, Had
  <2>6. desk >= wrote[k] => Had(k, Desk[k].val, wrote[k])
    <3>1. desk >= wrote[k] => desk \in wrote[k] .. Version
      BY <1>1, <2>1
    <3> QED  BY <3>1 DEF Had, Desk
  <2>7. ASSUME NEW row \in worker'["items"].rows, row.key = k PROVE Had(k, row.val, wrote[k])
    <3>1. /\ Heard("items", k) /\ ~Suppressed("items", k)
          /\ row = [key |-> k, val |-> Sent("items", k), ver |-> Desk[k].ver]
      BY <1>1, <2>7, FetchView
    <3>2. row.val = Sent("items", k) /\ pending[k].kind # "deleted"
      BY <3>1 DEF Suppressed
    <3>3. desk \in Nat
      BY <1>1
    <3>4. Lags(pending[k], Desk[k].val) \/ desk >= wrote[k]
      BY <2>1, <2>2, <2>4, <3>1, <3>2, <3>3
    <3> QED  BY <2>5, <2>6, <3>2, <3>4 DEF Sent
  <2>8. pending'[k] = pending[k] \/ (pending'[k].kind = "none" /\ ~(desk < wrote[k]))
    BY <2>2, <2>3, <2>4, RecordTypes
  <2>9. Had(k, mirror["items"][k].val, wrote[k])' <=> Had(k, mirror["items"][k].val, wrote[k])
    BY <1>1 DEF Had
  <2>10. \A row \in worker'["items"].rows : row.key = k => Had(k, row.val, wrote[k])
    BY <2>7
  <2>11. \A row \in worker'["items"].rows : row.key = k => \E i \in wrote'[k] .. Version' : history'[i][k].val = row.val
    BY <1>1, <2>10 DEF Had
  <2> QED  BY <1>1, <1>2, <2>1, <2>8, <2>9, <2>11 DEF Stands, Had
<1>3. \A k \in Keys : wrote[k] > 0 \/ Stands(k)'
  BY <1>1 DEF Stands
<1> QED  BY <1>1, <1>2, <1>3 DEF OwnWrites, CommandStands

LEMMA WorkOwn ==
  ASSUME Base, FreshValues, OwnWrites, NEW r \in Resources,
         BeginPass(r) \/ FetchListing(r) \/ Verify(r) \/ Store(r) \/ Sweep(r) \/ Stamp(r) \/ FailPass(r)
  PROVE  OwnWrites'
<1>1. /\ Typed /\ "items" \in Resources /\ "items-trash" \in Resources /\ r \in {"items", "items-trash"}
      /\ UNCHANGED <<history, desk, cmd>> /\ cmd.op = "sync"
      /\ Other("items-trash") = "items" /\ Other("items") = "items-trash"
      /\ \A k \in Keys : mirror["items"][k] # NoRow \/ mirror["items"][k] = NoRow
  BY AtWork, BeginView, FetchView, VerifyView, StoreView, SweepView, StampView, FailView, PlaneFacts DEF Base, Other
<1>2. CASE r = "items" /\ FetchListing(r)
  BY <1>2, FetchOwn
<1>3. ASSUME ~(r = "items" /\ FetchListing(r)), NEW row \in worker'["items"].rows PROVE row \in worker["items"].rows
  BY <1>1, <1>3, BeginView, FetchView, VerifyView, StoreView, SweepView, StampView, FailView DEF Works
<1>4. CASE BeginPass(r)
  <2>1. \A k \in Keys : /\ wrote'[k] = 0 \/ (wrote'[k] = wrote[k] /\ pending'[k] = pending[k])
                        /\ mirror'["items"][k].val = mirror["items"][k].val
                        /\ mirror'["items"][k] = NoRow <=> mirror["items"][k] = NoRow
    BY <1>1, <1>4, BeginView
  <2>2. ~FetchListing(r)
    BY <1>1, <1>4, BeginView, FetchView
  <2> QED  BY <1>1, <1>3, <2>1, <2>2, QuietOwn
<1>5. CASE r # "items" /\ FetchListing(r)
  BY <1>1, <1>3, <1>5, FetchView, QuietOwn
<1>6. CASE Store(r)
  <2>1. ASSUME NEW k \in Keys PROVE
           \/ mirror'["items"][k] = NoRow
           \/ mirror["items"][k] # NoRow /\ mirror'["items"][k].val = mirror["items"][k].val
           \/ \E row \in worker["items"].rows : row.key = k /\ mirror'["items"][k].val = row.val
    <3>1. CASE \A row \in worker[r].rows : row.key # k
      BY <1>1, <1>6, <3>1, StoreView
    <3>2. ASSUME NEW row \in worker[r].rows, row.key = k PROVE
           \/ mirror'["items"][k] \in {NoRow, mirror["items"][k]}
           \/ r = "items" /\ mirror'["items"][k] = [val |-> row.val, ver |-> row.ver]
      <4>1. CASE r = "items"
        BY <1>1, <1>6, <3>2, <4>1, StoreView
      <4>2. CASE r = "items-trash"
        BY <1>1, <1>6, <3>2, <4>2, StoreView
      <4> QED  BY <1>1, <4>1, <4>2
    <3>3. ASSUME NEW row \in worker[r].rows, row.key = k,
                 r = "items" /\ mirror'["items"][k] = [val |-> row.val, ver |-> row.ver]
          PROVE  \E row2 \in worker["items"].rows : row2.key = k /\ mirror'["items"][k].val = row2.val
      <4>1. mirror'["items"][k].val = row.val
        BY <3>3
      <4> QED  BY <3>3, <4>1
    <3> QED  BY <1>1, <3>1, <3>2, <3>3
  <2>2. UNCHANGED <<pending, wrote>> /\ ~FetchListing(r)
    BY <1>1, <1>6, StoreView, FetchView
  <2> QED  BY <1>1, <1>3, <2>1, <2>2, QuietOwn
<1>7. CASE Sweep(r)
  <2>1. \A k \in Keys : /\ wrote'[k] = 0 \/ (wrote'[k] = wrote[k] /\ pending'[k] = pending[k])
                        /\ mirror'["items"][k] \in {NoRow, mirror["items"][k]}
    BY <1>1, <1>7, SweepView DEF Sweeps
  <2>2. ~FetchListing(r)
    BY <1>1, <1>7, SweepView, FetchView
  <2> QED  BY <1>1, <1>3, <2>1, <2>2, QuietOwn
<1>8. CASE Verify(r) \/ Stamp(r) \/ FailPass(r)
  <2>1. UNCHANGED <<mirror, pending, wrote>>
    BY <1>1, <1>8, VerifyView, StampView, FailView
  <2>2. \A row \in worker'["items"].rows : row \in worker["items"].rows
    BY <1>1, <1>8, VerifyView, StampView, FailView DEF Works
  <2> QED  BY <1>1, <2>1, <2>2, QuietOwn
<1> QED  BY <1>1, <1>2, <1>4, <1>5, <1>6, <1>7, <1>8

LEMMA OwnLast ==
  ASSUME OwnRisks, Base, FreshValues, OwnWrites, PlanesNext
  PROVE  OwnWrites'
  BY LandsOwn, ReplayOwn, StepOwn, WorkOwn DEF PlanesNext

\* A write of zotio that reached the mirror is never rolled back there: the
\* mirror shows the value the item had then or has had since, however the desktop
\* lags and syncs, as long as Zotero hears of writes in their order, no edit
\* returns to an earlier value and zotio edits only what it has seen and no item
\* it has just created (pending_writes.go, reconcilePendingWrites).
THEOREM WritesAreNotRolledBack ==
  ASSUME OwnRisks
  PROVE  PlanesSpec => []OwnWritesStand
<1>1. PlanesInit => OwnWrites
  BY InitFacts, RecordTypes DEF OwnWrites, CommandStands, Stands
<1>2. Base /\ FreshValues /\ OwnWrites /\ [PlanesNext]_planeVars => OwnWrites'
  <2>1. ASSUME OwnWrites, UNCHANGED planeVars PROVE OwnWrites'
    BY <2>1 DEF OwnWrites, CommandStands, Stands, Had, Desk, Version, planeVars, planes, store, bounds, ghosts
  <2> QED  BY <2>1, OwnLast
<1>3. OwnWrites => OwnWritesStand
  BY DEF OwnWrites, Stands, Had, OwnWritesStand
<1>4. "again" \notin Risks
  BY DEF OwnRisks
<1> QED  BY <1>1, <1>2, <1>3, <1>4, BaseInvariant, FreshInvariant, PTL DEF PlanesSpec

-----------------------------------------------------------------------------
(* No marker holds the library's value for a value that was replaced. *)

\* A value in a marker's was is one the library has no more.
Replaced ==
    /\ \A k \in Keys : Cloud[k].val \notin pending[k].was
    /\ cmd.op = "edit" =>
         Cloud[cmd.key].val \notin {mirror["items"][cmd.key].val, pending[cmd.key].written} \cup pending[cmd.key].was

LEMMA LandsReplaced ==
  ASSUME "again" \notin Risks, Base, Replaced, NEW op \in Ops, NEW k \in Keys, NEW v \in Values,
         Elsewhere(op, k, v) \/ Command(op, k, v)
  PROVE  Replaced'
<1>1. /\ Lands(op, k, v) /\ Typed /\ Origins
      /\ UNCHANGED <<mirror, pending>>
      /\ cmd' = cmd \/ (cmd'.op = op /\ cmd'.key = k /\ cmd'.val = v)
  BY ElsewhereView, CommandView DEF Base
<1>2. \A j \in Keys : /\ pending[j].was \subseteq Known(j) /\ pending[j].was \subseteq Values
                      /\ pending[j].written \in Known(j) /\ mirror["items"][j].val \in Known(j)
  BY <1>1, MarkerFacts, PlaneFacts DEF Origins, Noted, Native
<1>3. op = "edit" => v \notin Known(k)
  BY <1>1, LandsFacts, NoneIsNoValue DEF Known
<1>4. op = "create" => Known(k) = {None} /\ Cloud[k].at = "never"
  <2>1. ASSUME op = "create", NEW i \in 1 .. Version PROVE history[i][k].val = None
    <3>0. Version \in Nat /\ Version \in 1 .. Version
      BY <1>1, LibraryFacts
    <3>1. Version \in i .. Version /\ Version \in 1 .. Version /\ Cloud[k].at = "never"
      BY <1>1, <2>1, <3>0, LandsFacts
    <3>2. Follows(history[i][k], Cloud[k], i)
      BY <1>1, <3>1, ObjectFacts DEF Cloud
    <3> QED  BY <1>1, <3>1, <3>2, ObjectFacts DEF Follows
  <2>2. Version \in 1 .. Version
    BY <1>1, LibraryFacts
  <2> QED  BY <1>1, <2>1, <2>2, LandsFacts DEF Known
<1>5. \A j \in Keys : \/ Cloud'[j].val = Cloud[j].val
                      \/ j = k /\ op \in {"create", "edit"} /\ Cloud'[j].val = v
  <2> TAKE j \in Keys
  <2>1. Becomes(j, op, k, v)
    BY <1>1, LandsFacts
  <2>2. LET o == [Cloud[j] EXCEPT !.at = "erased"] IN o.val = Cloud[j].val
    <3>1. Cloud[j] \in Objects
      BY <1>1, LibraryFacts
    <3> QED  BY <3>1 DEF Objects
  <2> QED  BY <2>1, <2>2 DEF Becomes
<1>6. ASSUME NEW j \in Keys PROVE Cloud'[j].val \notin pending[j].was
  <2>1. op = "create" /\ j = k => pending[j].was = {}
    BY <1>2, <1>4, NoneIsNoValue
  <2> QED  BY <1>2, <1>3, <1>5, <2>1 DEF Replaced
<1>7. op = "edit" => v \notin {mirror["items"][k].val, pending[k].written} \cup pending[k].was
  BY <1>2, <1>3
<1>8. ASSUME NEW j \in Keys, cmd.op = "edit", j = cmd.key
      PROVE  Cloud'[j].val \notin {mirror["items"][j].val, pending[j].written} \cup pending[j].was
  <2>1. Cloud[j].at # "never" /\ Cloud[j].val \notin {mirror["items"][j].val, pending[j].written} \cup pending[j].was
    BY <1>1, <1>8 DEF Origins, Replaced
  <2>2. ~(op = "create" /\ j = k)
    BY <1>4, <2>1
  <2> QED  BY <1>5, <1>7, <2>1, <2>2
<1>9. op = "edit" => Cloud'[k].val = v
  <2>1. Becomes(k, op, k, v)
    BY <1>1, LandsFacts
  <2> QED  BY <2>1 DEF Becomes
<1>10. cmd.op = "edit" => cmd.key \in Keys
  BY <1>1, CommandFacts DEF Ops
<1>11. ASSUME NEW j \in Keys, cmd'.op = "edit", j = cmd'.key
       PROVE  Cloud'[j].val \notin {mirror["items"][j].val, pending[j].written} \cup pending[j].was
  BY <1>1, <1>7, <1>8, <1>9, <1>11
<1>12. cmd'.op = "edit" => cmd'.key \in Keys
  BY <1>1, <1>10
<1> QED  BY <1>1, <1>6, <1>11, <1>12 DEF Replaced

LEMMA QuietReplaced ==
  ASSUME Typed, Replaced, history' = history, cmd'.op # "edit",
         \A k \in Keys : pending'[k].was \in {pending[k].was, {}}
  PROVE  Replaced'
<1>1. Cloud' = Cloud
  BY QuietLibrary
<1> QED  BY <1>1 DEF Replaced

LEMMA StepReplaced ==
  ASSUME Base, Replaced, NEW full \in BOOLEAN,
         \/ MirrorCreate \/ MirrorEdit \/ MirrorTrash \/ MirrorRestore \/ MirrorErase
         \/ DeskHears \/ DeskRestored \/ Age \/ StartSync(full) \/ FinishSync \/ Kill
  PROVE  Replaced'
<1>1. Typed /\ NoCommand.op = "idle" /\ NoMarker.was = {} /\ Deleted.was = {}
  BY RecordTypes DEF Base
<1>2. CASE MirrorCreate
  <2>1. LET m == [NoMarker EXCEPT !.kind = "create"] IN m.was = {}
    BY DEF NoMarker
  <2>2. \A k \in Keys : pending'[k].was \in {pending[k].was, {}}
    BY <1>1, <1>2, <2>1, CreateView
  <2> QED  BY <1>1, <1>2, <2>2, CreateView, QuietReplaced
<1>3. CASE MirrorEdit
  <2>1. /\ cmd.op = "edit" /\ cmd.key \in Keys /\ cmd'.op # "edit" /\ history' = history /\ Cloud' = Cloud
        /\ \A j \in Keys : j # cmd.key => pending'[j] = pending[j]
    BY <1>1, <1>3, EditView, QuietLibrary
  <2>2. ASSUME NEW k \in Keys, k = cmd.key PROVE Cloud[k].val \notin pending'[k].was
    <3>1. \/ pending'[k].was = pending[k].was
          \/ pending'[k].was \subseteq {mirror["items"][k].val, pending[k].written} \cup pending[k].was
      BY <1>1, <1>3, <2>2, EditView
    <3> QED  BY <2>1, <2>2, <3>1 DEF Replaced
  <2> QED  BY <2>1, <2>2 DEF Replaced
<1>4. CASE MirrorTrash \/ MirrorRestore
  BY <1>1, <1>4, TrashView, RestoreView, QuietReplaced
<1>5. CASE MirrorErase
  BY <1>1, <1>5, EraseView, QuietReplaced
<1>6. CASE DeskHears \/ DeskRestored \/ Age
  <2>1. /\ history' = history /\ mirror' = mirror /\ cmd'.op = cmd.op /\ cmd'.key = cmd.key
        /\ \A k \in Keys : pending'[k].was = pending[k].was /\ pending'[k].written = pending[k].written
        /\ (cmd.op = "edit" => cmd.key \in Keys)
    BY <1>1, <1>6, HearsView, RestoredView, AgeView, CommandFacts DEF Ops
  <2>2. Cloud' = Cloud
    BY <1>1, <2>1, QuietLibrary
  <2> QED  BY <2>1, <2>2 DEF Replaced
<1>7. CASE StartSync(full)
  BY <1>1, <1>7, StartView, QuietReplaced
<1>8. CASE FinishSync
  BY <1>1, <1>8, FinishView, QuietReplaced DEF Sweeps
<1>9. CASE Kill
  BY <1>1, <1>9, KillView, QuietReplaced
<1> QED  BY <1>2, <1>3, <1>4, <1>5, <1>6, <1>7, <1>8, <1>9

LEMMA WorkReplaced ==
  ASSUME Base, Replaced, NEW r \in Resources,
         BeginPass(r) \/ FetchListing(r) \/ Verify(r) \/ Store(r) \/ Sweep(r) \/ Stamp(r) \/ FailPass(r)
  PROVE  Replaced'
<1>1. Typed /\ NoMarker.was = {}
  BY RecordTypes DEF Base
<1>2. cmd' = cmd /\ cmd.op = "sync" /\ history' = history
  BY <1>1, AtWork, BeginView, FetchView, VerifyView, StoreView, SweepView, StampView, FailView
<1>3. \A k \in Keys : pending'[k] \in {pending[k], NoMarker}
  <2>1. CASE BeginPass(r)
    BY <1>1, <2>1, BeginView
  <2>2. CASE FetchListing(r)
    BY <1>1, <2>2, FetchView
  <2>3. CASE Sweep(r)
    BY <1>1, <2>3, SweepView DEF Sweeps
  <2>4. CASE Verify(r) \/ Store(r) \/ Stamp(r) \/ FailPass(r)
    BY <1>1, <2>4, VerifyView, StoreView, StampView, FailView
  <2> QED  BY <2>1, <2>2, <2>3, <2>4
<1> QED  BY <1>1, <1>2, <1>3, QuietReplaced

LEMMA ReplacedLast ==
  ASSUME "again" \notin Risks, Base, Replaced, PlanesNext
  PROVE  Replaced'
  BY LandsReplaced, StepReplaced, WorkReplaced DEF PlanesNext

LEMMA ReplacedInvariant ==
  ASSUME "again" \notin Risks
  PROVE  PlanesSpec => []Replaced
<1>1. PlanesInit => Replaced
  BY InitFacts, RecordTypes DEF Replaced
<1>2. Base /\ Replaced /\ [PlanesNext]_planeVars => Replaced'
  <2>1. ASSUME Replaced, UNCHANGED planeVars PROVE Replaced'
    BY <2>1 DEF Replaced, Cloud, Version, planeVars, planes, store, bounds, ghosts
  <2> QED  BY <2>1, ReplacedLast
<1> QED  BY <1>1, <1>2, BaseInvariant, PTL DEF PlanesSpec

-----------------------------------------------------------------------------
(* What a sync has taken in. *)

\* The version up to which the rows of r are the library's: from the sweep on it
\* is that of the pass under way.
Bound(r) == IF worker[r].pc \in {"sweep", "stamp"} THEN Goal(r) ELSE check[r]

\* Nothing has moved between what the desktop shows and version b.
AtRest(b) == \A i \in desk .. b : SamePlaces(i, desk)
Rested ==
    \A r \in Resources :
      /\ AtRest(check[r]) /\ AtRest(worker[r].top)
      /\ worker[r].pc = "verify" => worker[r].top = 0

\* An item the library last changed by version b has its row; a row of it that is
\* still to be stored on the other side is an older one, and will lose.
Covered(k, r, b) == Cloud[k].at = Place(r) /\ Cloud[k].ver <= b
Held(k, r) ==
    /\ mirror[r][k] # NoRow /\ mirror[r][k].val = Cloud[k].val
    /\ mirror[Other(r)][k] = NoRow
    /\ \A row \in worker[Other(r)].rows : row.key = k =>
         /\ worker[r].pc \in {"sweep", "stamp", "done", "failed"}
         /\ mirror[r][k].ver = Cloud[k].ver
Covers == \A r \in Resources, k \in Keys : Covered(k, r, Bound(r)) => Held(k, r)

\* A listing has what the library changed since the checkpoint.
Lists ==
    \A r \in Resources, k \in Keys : Covered(k, r, worker[r].top) =>
      /\ worker[r].pc = "store" /\ Cloud[k].ver > worker[r].since =>
           \E row \in worker[r].rows : row.key = k /\ row.val = Cloud[k].val /\ row.ver = Cloud[k].ver
      /\ worker[r].full /\ worker[r].pc \in {"store", "sweep"} => k \in worker[r].seen

\* A sync with a desktop that has heard of everything reaches every item.
Reaches ==
    cmd.op = "sync" /\ ~moved /\ desk = Version =>
      \A r \in Resources, k \in Keys : Cloud[k].at = Place(r) =>
        /\ worker[r].pc \in {"verify", "store", "sweep", "stamp"} => Cloud[k].ver <= Goal(r)
        /\ worker[r].pc = "done" => Cloud[k].ver <= check[r]

\* What a command has yet to replay is not taken in yet.
Ahead ==
    cmd.op \in Ops \ {"erase"} =>
      \A r \in Resources : Cloud[cmd.key].at = "erased" \/ Cloud[cmd.key].ver > check[r]

Coverage == Rested /\ Covers /\ Lists /\ Reaches /\ Ahead

\* Risks in which one sync does not catch up.
CoverRisks == Risks \cap {"again", "backups", "halfway"} = {}

LEMMA GoalFacts ==
  ASSUME Typed, NEW r \in Resources
  PROVE  /\ Goal(r) \in Nat /\ Goal(r) <= Version /\ Bound(r) \in Nat /\ Bound(r) <= Version
         /\ Goal(r) \in {check[r], worker[r].top} /\ Bound(r) \in {check[r], worker[r].top}
         /\ ~worker[r].full => Goal(r) >= check[r] /\ Goal(r) >= worker[r].top
         /\ worker[r].top \in Nat /\ check[r] \in Nat /\ worker[r].top <= Version /\ check[r] <= Version
<1>1. worker[r].top \in Nat /\ worker[r].top <= Version /\ check[r] \in Nat /\ check[r] <= Version
  BY WorkerFacts DEF Pass
<1> QED  BY <1>1 DEF Goal, Bound

\* An item keeps the state of its latest version.
LEMMA CoveredFacts ==
  ASSUME Typed, NEW k \in Keys, NEW r \in Resources, NEW b \in Nat, Covered(k, r, b)
  PROVE  /\ Cloud[k].ver \in Nat /\ Cloud[k].ver >= 1 /\ Cloud[k].ver <= Version
         /\ \A i \in 1 .. Version : Cloud[k].ver <= i => history[i][k] = Cloud[k]
         /\ Cloud[k].val \in Values /\ Cloud[k].at # "erased"
<1>1. Version \in Nat /\ Version \in 1 .. Version /\ Cloud[k].at \in {"live", "trash"}
  BY LibraryFacts, PlaneFacts DEF Covered
<1>2. Cloud[k].ver \in Nat /\ Cloud[k].ver >= 1 /\ Cloud[k].ver <= Version /\ Cloud[k].val \in Values
  BY <1>1, ObjectFacts DEF Cloud
<1>3. ASSUME NEW i \in 1 .. Version, Cloud[k].ver <= i PROVE history[i][k] = Cloud[k]
  <2>1. Version \in i .. Version
    BY <1>1
  <2>2. Follows(history[i][k], Cloud[k], i)
    BY <2>1, ObjectFacts DEF Cloud
  <2> QED  BY <1>1, <1>2, <1>3, <2>2 DEF Follows
<1> QED  BY <1>1, <1>2, <1>3

LEMMA CoveredIsShown ==
  ASSUME Typed, NEW k \in Keys, NEW r \in Resources, NEW b \in Nat, b <= Version, AtRest(b), Covered(k, r, b)
  PROVE  Desk[k].at = Place(r)
<1>1. /\ desk \in 1 .. Version /\ desk \in Nat /\ Version \in Nat
      /\ Cloud[k].ver \in Nat /\ Cloud[k].ver >= 1 /\ Cloud[k].ver <= Version /\ Cloud[k].ver <= b
      /\ Cloud[k].at = Place(r)
  BY LibraryFacts, CoveredFacts DEF Covered
<1>2. CASE Cloud[k].ver <= desk
  <2>1. Desk[k] = Cloud[k]
    BY <1>1, <1>2, CoveredFacts DEF Desk
  <2> QED  BY <1>1, <2>1
<1>3. CASE desk < Cloud[k].ver
  <2> DEFINE i == Cloud[k].ver
  <2>1. i \in desk .. b /\ i \in 1 .. Version
    BY <1>1, <1>3
  <2>2. history[i][k] = Cloud[k]
    BY <1>1, <2>1, CoveredFacts
  <2>3. SamePlaces(i, desk)
    BY <2>1 DEF AtRest
  <2> QED  BY <1>1, <2>2, <2>3 DEF SamePlaces, Desk
<1> QED  BY <1>1, <1>2, <1>3

\* What the library gains is beyond every version zotio has heard of.
LEMMA CoveredStays ==
  ASSUME Typed, NEW op \in Ops, NEW j \in Keys, NEW v \in Values, Lands(op, j, v),
         NEW k \in Keys, NEW r \in Resources, NEW b \in Nat, b <= Version,
         Cloud'[k].at = Place(r), Cloud'[k].ver <= b
  PROVE  Cloud'[k] = Cloud[k] /\ Covered(k, r, b)
<1>1. Version \in Nat /\ Place(r) # "erased"
  BY LibraryFacts, PlaneFacts
<1>2. Cloud'[k] = Cloud[k] \/ Cloud'[k].at = "erased" \/ Cloud'[k].ver = Version + 1
  BY LandsKeeps
<1> QED  BY <1>1, <1>2 DEF Covered

-----------------------------------------------------------------------------
(* Where the planes and the passes can move. *)

LEMMA AtRestStays ==
  ASSUME Typed, NEW b \in Nat, b <= Version, AtRest(b), desk' \in 1 .. Version,
         \A i \in 1 .. Version : history'[i] = history[i],
         desk' >= desk \/ \A i \in desk' .. desk : SamePlaces(i, desk)
  PROVE  AtRest(b)'
<1>1. desk \in 1 .. Version /\ Version \in Nat /\ desk \in Nat /\ desk' \in Nat
  BY LibraryFacts
<1> SUFFICES ASSUME NEW i \in desk' .. b PROVE SamePlaces(i, desk)'
  BY DEF AtRest
<1>2. i \in 1 .. Version
  BY <1>1
<1>3. SamePlaces(i, desk) /\ SamePlaces(desk', desk)
  <2>1. CASE desk' >= desk
    <3>1. i \in desk .. b /\ desk' \in desk .. b
      BY <1>1, <2>1
    <3> QED  BY <3>1 DEF AtRest
  <2>2. CASE ~(desk' >= desk)
    <3>1. desk' \in desk' .. desk
      BY <1>1, <2>2
    <3>2. i \in desk' .. desk \/ i \in desk .. b
      BY <1>1, <2>2
    <3> QED  BY <2>2, <3>1, <3>2 DEF AtRest
  <2> QED  BY <2>1, <2>2
<1>4. history'[i] = history[i] /\ history'[desk'] = history[desk']
  BY <1>2
<1> QED  BY <1>3, <1>4 DEF SamePlaces
\* No step turns the places back, and a pass only finishes or begins.
Advance ==
    /\ desk' \in 1 .. Version /\ \A i \in 1 .. Version : history'[i] = history[i]
    /\ desk' >= desk \/ \A i \in desk' .. desk : SamePlaces(i, desk)
    /\ \A r \in Resources :
         /\ check'[r] \in {check[r], Goal(r)}
         /\ worker'[r].top \in {0, worker[r].top}
            \/ (worker'[r].top \in Nat /\ worker'[r].top <= desk /\ desk' = desk)
         /\ worker'[r].pc = "verify" => worker'[r].top = 0
                                        \/ (worker[r].pc = "verify" /\ worker'[r].top = worker[r].top)

LEMMA WorkAdvances ==
  ASSUME Typed, NEW r \in Resources,
         BeginPass(r) \/ FetchListing(r) \/ Verify(r) \/ Store(r) \/ Sweep(r) \/ Stamp(r) \/ FailPass(r)
  PROVE  Advance
<1>1. desk \in 1 .. Version /\ desk \in Nat
  BY LibraryFacts
<1>2. UNCHANGED <<history, desk>>
  BY BeginView, FetchView, VerifyView, StoreView, SweepView, StampView, FailView
<1>3. \A q \in Resources : q # r => check'[q] = check[q] /\ worker'[q] = worker[q]
  BY BeginView, FetchView, VerifyView, StoreView, SweepView, StampView, FailView DEF Works
<1>4. /\ check'[r] \in {check[r], Goal(r)}
      /\ worker'[r].top \in {0, worker[r].top} \/ (worker'[r].top \in Nat /\ worker'[r].top <= desk)
      /\ worker'[r].pc = "verify" => worker'[r].top = 0
  <2>1. CASE BeginPass(r) \/ Store(r) \/ Sweep(r)
    BY <2>1, BeginView, StoreView, SweepView DEF Works
  <2>2. CASE FetchListing(r)
    BY <2>2, FetchView DEF Works
  <2>3. CASE Verify(r) \/ Stamp(r) \/ FailPass(r)
    BY <2>3, VerifyView, StampView, FailView DEF Works
  <2> QED  BY <2>1, <2>2, <2>3
<1>5. \A q \in Resources : q = r \/ q # r
  OBVIOUS
<1> QED  BY <1>1, <1>2, <1>3, <1>4 DEF Advance

LEMMA StepAdvances ==
  ASSUME CoverRisks, Typed, NEW full \in BOOLEAN,
         \/ MirrorCreate \/ MirrorEdit \/ MirrorTrash \/ MirrorRestore \/ MirrorErase
         \/ DeskHears \/ DeskRestored \/ Age \/ StartSync(full) \/ FinishSync \/ Kill
  PROVE  Advance
<1>1. desk \in 1 .. Version /\ desk \in Nat /\ NoWorker.pc = "idle" /\ NoWorker.top = 0
  BY LibraryFacts, RecordTypes
<1>2. CASE DeskHears \/ DeskRestored \/ Age
  <2>1. /\ UNCHANGED <<history, check, worker>> /\ desk' \in 1 .. Version
        /\ desk' = desk \/ desk' \in desk + 1 .. Version \/ \A i \in desk' .. desk : SamePlaces(i, desk)
    BY <1>1, <1>2, HearsView, RestoredView, AgeView DEF CoverRisks
  <2> QED  BY <1>1, <2>1 DEF Advance
<1>3. CASE MirrorCreate \/ MirrorEdit \/ MirrorTrash \/ MirrorRestore \/ MirrorErase
  <2>1. UNCHANGED <<history, desk, check, worker>>
    BY <1>3, CreateView, EditView, TrashView, RestoreView, EraseView
  <2> QED  BY <1>1, <2>1 DEF Advance
<1>4. CASE StartSync(full) \/ FinishSync \/ Kill
  <2>1. UNCHANGED <<history, desk, check>> /\ \A r \in Resources : worker'[r].top = 0
    BY <1>1, <1>4, StartView, FinishView, KillView
  <2> QED  BY <1>1, <2>1 DEF Advance
<1> QED  BY <1>2, <1>3, <1>4

LEMMA LandsAdvances ==
  ASSUME Typed, NEW op \in Ops, NEW k \in Keys, NEW v \in Values, Elsewhere(op, k, v) \/ Command(op, k, v)
  PROVE  Advance
<1>1. /\ desk \in 1 .. Version /\ desk \in Nat
      /\ UNCHANGED <<desk, check, worker>> /\ \A i \in 1 .. Version : history'[i] = history[i]
  BY ElsewhereView, CommandView, LandsFacts, LibraryFacts
<1> QED  BY <1>1 DEF Advance

LEMMA RestedLast ==
  ASSUME CoverRisks, Base, Rested, PlanesNext
  PROVE  Rested'
<1>1. Typed /\ desk \in Nat /\ desk <= Version /\ desk >= 1 /\ Version \in Nat
  BY LibraryFacts DEF Base
<1>2. Advance
  BY <1>1, LandsAdvances, StepAdvances, WorkAdvances DEF PlanesNext
<1>3. \A b \in Nat : b <= Version /\ AtRest(b) => AtRest(b)'
  BY <1>1, <1>2, AtRestStays DEF Advance
<1>4. ASSUME NEW r \in Resources, NEW b, b = check'[r] PROVE AtRest(b)'
  <2>1. /\ check[r] \in Nat /\ check[r] <= Version /\ Goal(r) \in Nat /\ Goal(r) <= Version
        /\ AtRest(check[r]) /\ AtRest(Goal(r))
    BY <1>1, GoalFacts DEF Rested
  <2>2. b = check[r] \/ b = Goal(r)
    BY <1>2, <1>4 DEF Advance
  <2>3. b \in Nat /\ b <= Version /\ AtRest(b)
    BY <2>1, <2>2
  <2> QED  BY <1>3, <2>3
<1>5. ASSUME NEW r \in Resources, NEW b, b = worker'[r].top PROVE AtRest(b)'
  <2>1. desk' \in Nat /\ desk' >= 1
    BY <1>1, <1>2 DEF Advance
  <2>2. worker[r].top \in Nat /\ worker[r].top <= Version /\ AtRest(worker[r].top)
    BY <1>1, GoalFacts DEF Rested
  <2>3. \/ b = worker[r].top
        \/ b \in Nat /\ (b = 0 \/ (b <= desk /\ desk' = desk))
    BY <1>2, <1>5 DEF Advance
  <2>4. CASE b = worker[r].top
    BY <1>3, <2>2, <2>4
  <2>5. CASE b \in Nat /\ (b = 0 \/ (b <= desk /\ desk' = desk))
    <3>1. \A i \in desk' .. b : i = desk'
      BY <1>1, <2>1, <2>5
    <3> QED  BY <3>1 DEF AtRest, SamePlaces
  <2> QED  BY <2>3, <2>4, <2>5
<1>6. ASSUME NEW r \in Resources PROVE worker'[r].pc = "verify" => worker'[r].top = 0
  BY <1>2 DEF Advance, Rested
<1>7. \A r \in Resources : AtRest(check[r])' /\ AtRest(worker[r].top)'
  BY <1>4, <1>5 DEF AtRest
<1> QED  BY <1>6, <1>7 DEF Rested

-----------------------------------------------------------------------------
(* What a command has yet to replay, what a listing has, what a sync reaches. *)

LEMMA LandsLists ==
  ASSUME Base, Lists, Reaches, Ahead, NEW op \in Ops, NEW j \in Keys, NEW v \in Values,
         Elsewhere(op, j, v) \/ Command(op, j, v)
  PROVE  Lists' /\ Reaches' /\ Ahead'
<1>0. /\ Lands(op, j, v) /\ Typed /\ UNCHANGED <<desk, mirror, check, worker>>
      /\ cmd' = cmd \/ (cmd'.op = op /\ cmd'.key = j)
  BY ElsewhereView, CommandView DEF Base
<1>1. /\ Lands(op, j, v) /\ Typed /\ Version \in Nat /\ desk \in Nat /\ desk <= Version
      /\ UNCHANGED <<desk, mirror, check, worker>>
      /\ cmd' = cmd \/ (cmd'.op = op /\ cmd'.key = j)
      /\ Version' = Version + 1
  <2>1. desk \in 1 .. Version /\ Version \in Nat
    BY <1>0, LibraryFacts
  <2>2. Version' = Version + 1
    BY <1>0, LandsFacts
  <2> QED  BY <1>0, <2>1, <2>2
<1>2. Reaches'
  BY <1>1 DEF Reaches
<1>3. ASSUME NEW r \in Resources, NEW k \in Keys, Cloud'[k].at = Place(r), Cloud'[k].ver <= worker[r].top
      PROVE  Cloud'[k] = Cloud[k] /\ Covered(k, r, worker[r].top)
  <2>1. worker[r].top \in Nat /\ worker[r].top <= Version
    BY <1>1, GoalFacts
  <2> QED  BY <1>1, <1>3, <2>1, CoveredStays
<1>4. Lists'
  <2> SUFFICES ASSUME NEW r \in Resources, NEW k \in Keys, Covered(k, r, worker[r].top)'
               PROVE  (/\ worker[r].pc = "store" /\ Cloud[k].ver > worker[r].since =>
                            \E row \in worker[r].rows : row.key = k /\ row.val = Cloud[k].val /\ row.ver = Cloud[k].ver
                       /\ worker[r].full /\ worker[r].pc \in {"store", "sweep"} => k \in worker[r].seen)'
    BY DEF Lists
  <2>1. Cloud'[k] = Cloud[k] /\ Covered(k, r, worker[r].top)
    BY <1>1, <1>3 DEF Covered
  <2> QED  BY <1>1, <2>1 DEF Lists
<1>5. Ahead'
  <2>1. ASSUME NEW k \in Keys, k = cmd.key, cmd.op \in Ops \ {"erase"}, NEW r \in Resources
        PROVE  Cloud'[k].at = "erased" \/ Cloud'[k].ver > check[r]
    <3>1. check[r] \in Nat /\ check[r] <= Version /\ (Cloud[k].at = "erased" \/ Cloud[k].ver > check[r])
      BY <1>1, <2>1, GoalFacts DEF Ahead
    <3>2. Cloud'[k] = Cloud[k] \/ Cloud'[k].at = "erased" \/ Cloud'[k].ver = Version + 1
      BY <1>1, LandsKeeps
    <3> QED  BY <1>1, <3>1, <3>2
  <2>2. ASSUME op # "erase", NEW r \in Resources PROVE Cloud'[j].ver > check[r]
    <3>1. check[r] \in Nat /\ check[r] <= Version /\ Cloud'[j].ver = Version + 1
      BY <1>1, <2>2, GoalFacts, LandsKeeps
    <3> QED  BY <1>1, <3>1
  <2>3. cmd.op \in Ops => cmd.key \in Keys
    BY <1>1, CommandFacts
  <2> QED  BY <1>1, <2>1, <2>2, <2>3 DEF Ahead
<1> QED  BY <1>2, <1>4, <1>5

LEMMA StepLists ==
  ASSUME Base, Lists, Reaches, Ahead, NEW full \in BOOLEAN,
         \/ MirrorCreate \/ MirrorEdit \/ MirrorTrash \/ MirrorRestore \/ MirrorErase
         \/ DeskHears \/ DeskRestored \/ Age \/ StartSync(full) \/ FinishSync \/ Kill
  PROVE  Lists' /\ Reaches' /\ Ahead'
<1>1. Typed /\ NoWorker.pc = "idle" /\ NoCommand.op = "idle" /\ "idle" \notin Ops /\ "sync" \notin Ops
  BY RecordTypes DEF Base, Ops
<1>2. history' = history
  BY <1>1, CreateView, EditView, TrashView, RestoreView, EraseView, HearsView, RestoredView, AgeView,
     StartView, FinishView, KillView
<1>3. Cloud' = Cloud /\ Version' = Version
  BY <1>1, <1>2, QuietLibrary
<1>4. CASE StartSync(full) \/ FinishSync \/ Kill
  <2>1. /\ \A r \in Resources : worker'[r].pc \in {"begin", "idle"}
        /\ cmd'.op \notin Ops
    BY <1>1, <1>4, StartView, FinishView, KillView
  <2> QED  BY <2>1 DEF Lists, Reaches, Ahead
<1>5. CASE MirrorCreate \/ MirrorEdit \/ MirrorTrash \/ MirrorRestore \/ MirrorErase
  <2>1. worker' = worker /\ cmd'.op = "idle"
    BY <1>1, <1>5, CreateView, EditView, TrashView, RestoreView, EraseView
  <2>2. Lists'
    BY <1>3, <2>1 DEF Lists, Covered
  <2> QED  BY <1>1, <2>1, <2>2 DEF Reaches, Ahead
<1>6. CASE DeskHears \/ DeskRestored \/ Age
  <2>1. /\ UNCHANGED <<worker, check>> /\ cmd'.op = cmd.op /\ cmd'.key = cmd.key
        /\ moved' = TRUE \/ UNCHANGED <<moved, desk>>
    BY <1>1, <1>6, HearsView, RestoredView, AgeView
  <2>2. Lists'
    BY <1>3, <2>1 DEF Lists, Covered
  <2>3. Reaches'
    BY <1>3, <2>1 DEF Reaches, Goal
  <2>4. Ahead'
    BY <1>3, <2>1 DEF Ahead
  <2> QED  BY <2>2, <2>3, <2>4
<1> QED  BY <1>4, <1>5, <1>6

LEMMA FetchLists ==
  ASSUME Base, Replaced, Lists, Reaches, NEW r \in Resources, FetchListing(r), NEW k \in Keys
  PROVE  /\ Cloud[k].at = Place(r) /\ Cloud[k].ver <= worker'[r].top =>
              /\ Cloud[k].ver > worker[r].since =>
                   \E row \in worker'[r].rows : row.key = k /\ row.val = Cloud[k].val /\ row.ver = Cloud[k].ver
              /\ worker[r].full => k \in worker'[r].seen
         /\ desk = Version /\ Cloud[k].at = Place(r) => Cloud[k].ver <= Goal(r)'
<1>1. /\ Typed /\ Deletions /\ worker[r].pc = "fetch" /\ worker'[r].full = worker[r].full
      /\ worker'[r].top \in Nat /\ worker'[r].top <= desk /\ check' = check /\ Version \in Nat
      /\ desk \in 1 .. Version /\ check[r] \in Nat
      /\ worker[r].since = IF worker[r].full THEN 0 ELSE check[r]
  BY FetchView, LibraryFacts, WorkerFacts DEF Base, Works, Pass, Busy
<1>2. Cloud[k].ver \in Nat /\ (Cloud[k].at = Place(r) => Cloud[k].ver >= 1)
  BY <1>1, LibraryFacts, ObjectFacts, PlaneFacts DEF Cloud
<1>3. ASSUME Cloud[k].at = Place(r), Cloud[k].ver <= worker'[r].top
      PROVE  Desk[k] = Cloud[k]
  <2>1. Covered(k, r, worker'[r].top) /\ Cloud[k].ver <= desk
    BY <1>1, <1>2, <1>3 DEF Covered
  <2> QED  BY <1>1, <2>1, CoveredFacts DEF Desk
<1>4. ASSUME Cloud[k].at = Place(r), Cloud[k].ver <= worker'[r].top, Cloud[k].ver > worker[r].since
      PROVE  \E row \in worker'[r].rows : row.key = k /\ row.val = Cloud[k].val /\ row.ver = Cloud[k].ver
  <2>1. Desk[k] = Cloud[k] /\ Heard(r, k)
    BY <1>3, <1>4 DEF Heard
  <2>2. ~Suppressed(r, k)
    BY <1>1, <1>4, PlaneFacts DEF Deletions, Suppressed
  <2>3. Sent(r, k) = Cloud[k].val
    BY <2>1 DEF Sent, Lags, Replaced
  <2>4. [key |-> k, val |-> Cloud[k].val, ver |-> Cloud[k].ver] \in worker'[r].rows
    BY <1>1, <2>1, <2>2, <2>3, FetchView
  <2> DEFINE row == [key |-> k, val |-> Cloud[k].val, ver |-> Cloud[k].ver]
  <2>5. row.key = k /\ row.val = Cloud[k].val /\ row.ver = Cloud[k].ver
    OBVIOUS
  <2> QED  BY <2>4, <2>5
<1>5. ASSUME Cloud[k].at = Place(r), Cloud[k].ver <= worker'[r].top, worker[r].full
      PROVE  k \in worker'[r].seen
  <2>1. Heard(r, k)
    BY <1>1, <1>2, <1>3, <1>5 DEF Heard
  <2> QED  BY <1>1, <2>1, FetchView
<1>6. ASSUME desk = Version, Cloud[k].at = Place(r) PROVE Cloud[k].ver <= Goal(r)'
  <2>1. Desk = Cloud
    BY <1>6 DEF Desk, Cloud
  <2>2. Cloud[k].ver > worker[r].since => Cloud[k].ver <= worker'[r].top
    BY <1>1, <1>6, <2>1, FetchView DEF Heard
  <2>3. Goal(r)' = IF worker[r].full THEN worker'[r].top
                   ELSE IF worker'[r].top > check[r] THEN worker'[r].top ELSE check[r]
    BY <1>1 DEF Goal
  <2> QED  BY <1>1, <1>2, <1>6, <2>2, <2>3
<1> QED  BY <1>4, <1>5, <1>6

LEMMA WorkLists ==
  ASSUME Base, Rested, Replaced, Lists, Reaches, NEW r \in Resources,
         BeginPass(r) \/ FetchListing(r) \/ Verify(r) \/ Store(r) \/ Sweep(r) \/ Stamp(r) \/ FailPass(r)
  PROVE  Lists' /\ Reaches' /\ Ahead'
<1>1. /\ Typed /\ UNCHANGED <<history, desk, cmd, moved>> /\ cmd.op = "sync" /\ "sync" \notin Ops
      /\ \A q \in Resources : q # r => worker'[q] = worker[q] /\ check'[q] = check[q]
  BY AtWork, BeginView, FetchView, VerifyView, StoreView, SweepView, StampView, FailView DEF Base, Works, Ops
<1>2. Cloud' = Cloud /\ Version' = Version
  BY <1>1, QuietLibrary
<1>3. Ahead'
  BY <1>1 DEF Ahead
<1>4. ASSUME NEW k \in Keys, Covered(k, r, worker[r].top)'
      PROVE  /\ worker'[r].pc = "store" /\ Cloud[k].ver > worker'[r].since =>
                  \E row \in worker'[r].rows : row.key = k /\ row.val = Cloud[k].val /\ row.ver = Cloud[k].ver
             /\ worker'[r].full /\ worker'[r].pc \in {"store", "sweep"} => k \in worker'[r].seen
  <2>1. CASE FetchListing(r)
    <3>1. worker'[r].full = worker[r].full /\ worker'[r].since = worker[r].since
      BY <1>1, <2>1, FetchView DEF Works
    <3>2. Cloud[k].at = Place(r) /\ Cloud[k].ver <= worker'[r].top
      BY <1>2, <1>4 DEF Covered
    <3> QED  BY <2>1, <3>1, <3>2, FetchLists
  <2>2. CASE Store(r)
    <3>1. /\ worker[r].pc = "store" /\ worker'[r].pc = "sweep" /\ worker'[r].full = worker[r].full
          /\ worker'[r].seen = worker[r].seen /\ worker'[r].top = worker[r].top
      BY <1>1, <2>2, StoreView DEF Works
    <3>2. Covered(k, r, worker[r].top)
      BY <1>2, <1>4, <3>1 DEF Covered
    <3> QED  BY <3>1, <3>2 DEF Lists
  <2>3. CASE BeginPass(r) \/ Verify(r) \/ Sweep(r) \/ Stamp(r) \/ FailPass(r)
    <3>1. worker'[r].pc \notin {"store", "sweep"}
      BY <1>1, <2>3, BeginView, VerifyView, SweepView, StampView, FailView DEF Works
    <3> QED  BY <3>1
  <2> QED  BY <2>1, <2>2, <2>3
<1>5. Lists'
  <2>1. ASSUME NEW q \in Resources, q # r, NEW k \in Keys, Covered(k, q, worker[q].top)'
        PROVE  Covered(k, q, worker[q].top)
    BY <1>1, <1>2, <2>1 DEF Covered
  <2> QED  BY <1>1, <1>2, <1>4, <2>1 DEF Lists
<1>6. ASSUME ~moved, desk = Version, NEW k \in Keys, Cloud[k].at = Place(r)
      PROVE  /\ worker'[r].pc \in {"verify", "store", "sweep", "stamp"} => Cloud[k].ver <= Goal(r)'
             /\ worker'[r].pc = "done" => Cloud[k].ver <= check'[r]
  <2>1. worker[r].pc \in {"verify", "store", "sweep", "stamp"} => Cloud[k].ver <= Goal(r)
    BY <1>1, <1>6 DEF Reaches
  <2>2. CASE FetchListing(r)
    <3>1. worker'[r].pc # "done"
      BY <1>1, <2>2, FetchView
    <3> QED  BY <1>6, <2>2, <3>1, FetchLists
  <2>3. CASE Store(r) \/ Sweep(r)
    <3>1. /\ worker[r].pc \in {"store", "sweep"} /\ worker'[r].pc # "done" /\ check' = check
          /\ worker'[r].full = worker[r].full /\ worker'[r].top = worker[r].top
      BY <1>1, <2>3, StoreView, SweepView DEF Works
    <3>2. Goal(r)' = Goal(r)
      BY <3>1 DEF Goal
    <3> QED  BY <2>1, <3>1, <3>2
  <2>4. CASE Verify(r)
    <3>1. CASE worker'[r].pc = "begin"
      BY <3>1
    <3>2. CASE worker'[r].pc # "begin"
      <4>1. /\ worker[r].pc = "verify" /\ worker'[r].pc = "stamp" /\ check' = check
            /\ worker'[r].full = worker[r].full /\ worker'[r].top = worker[r].top
        BY <1>1, <2>4, <3>2, VerifyView DEF Works
      <4>2. Goal(r)' = Goal(r)
        BY <4>1 DEF Goal
      <4> QED  BY <2>1, <4>1, <4>2
    <3> QED  BY <3>1, <3>2
  <2>5. CASE Stamp(r)
    BY <1>1, <2>1, <2>5, StampView
  <2>6. CASE BeginPass(r) \/ FailPass(r)
    BY <1>1, <2>6, BeginView, FailView DEF Works
  <2> QED  BY <2>2, <2>3, <2>4, <2>5, <2>6
<1>7. \A q \in Resources : q # r => Goal(q)' = Goal(q)
  BY <1>1 DEF Goal
<1>8. Reaches'
  BY <1>1, <1>2, <1>6, <1>7 DEF Reaches
<1> QED  BY <1>3, <1>5, <1>8

LEMMA ListsLast ==
  ASSUME Base, Rested, Replaced, Lists, Reaches, Ahead, PlanesNext
  PROVE  Lists' /\ Reaches' /\ Ahead'
  BY LandsLists, StepLists, WorkLists DEF PlanesNext

-----------------------------------------------------------------------------
(* Every item the library last changed by the bound of its pass has its row. *)

LEMMA LandsCovers ==
  ASSUME Base, Covers, NEW op \in Ops, NEW j \in Keys, NEW v \in Values,
         Elsewhere(op, j, v) \/ Command(op, j, v)
  PROVE  Covers'
<1>1. /\ Lands(op, j, v) /\ Typed /\ UNCHANGED <<mirror, check, worker>>
  BY ElsewhereView, CommandView DEF Base
<1>2. \A r \in Resources : Bound(r)' = Bound(r) /\ Bound(r) \in Nat /\ Bound(r) <= Version
  <2> TAKE r \in Resources
  <2>1. Bound(r)' = Bound(r)
    BY <1>1 DEF Bound, Goal
  <2> QED  BY <1>1, <2>1, GoalFacts
<1>3. ASSUME NEW r \in Resources, NEW k \in Keys, Covered(k, r, Bound(r))' PROVE Held(k, r)'
  <2>1. Cloud'[k].at = Place(r) /\ Cloud'[k].ver <= Bound(r)
    BY <1>2, <1>3 DEF Covered
  <2>2. Cloud'[k] = Cloud[k] /\ Covered(k, r, Bound(r))
    BY <1>1, <1>2, <2>1, CoveredStays
  <2> QED  BY <1>1, <2>2 DEF Covers, Held
<1> QED  BY <1>3 DEF Covers

\* A command touches what it has changed, which is not covered yet.
LEMMA ReplayCovers ==
  ASSUME Base, Covers, Ahead,
         MirrorCreate \/ MirrorEdit \/ MirrorTrash \/ MirrorRestore \/ MirrorErase
  PROVE  Covers'
<1>1. /\ Typed /\ UNCHANGED <<history, check, worker>> /\ cmd.op \in Ops /\ cmd.key \in Keys
      /\ NoWorker.pc = "idle"
  BY CreateView, EditView, TrashView, RestoreView, EraseView, RecordTypes DEF Base, Ops
<1>2. Cloud' = Cloud /\ \A r \in Resources : worker[r] = NoWorker
  BY <1>1, QuietLibrary, CommandFacts DEF Ops
<1>3. \A r \in Resources : Bound(r) = check[r] /\ Bound(r)' = check[r] /\ check[r] \in Nat
  BY <1>1, <1>2, GoalFacts DEF Bound
<1>4. ASSUME NEW k \in Keys, cmd.op # "erase", k = cmd.key, NEW r \in Resources
      PROVE  ~Covered(k, r, check[r])
  <2>1. Cloud[k].ver \in Nat /\ Place(r) # "erased" /\ check[r] \in Nat
    BY <1>1, <1>3, LibraryFacts, ObjectFacts, PlaneFacts DEF Cloud
  <2> QED  BY <1>1, <1>4, <2>1 DEF Ahead, Covered
<1>5. ASSUME NEW k \in Keys, cmd.op = "erase", k \in Reaped(cmd.key), NEW r \in Resources
      PROVE  ~Covered(k, r, check[r])
  <2>1. MirrorErase
    BY <1>1, <1>5, CreateView, EditView, TrashView, RestoreView
  <2>2. Cloud[k].at = "erased" /\ Place(r) # "erased"
    BY <1>5, <2>1, ReapedIsErased, PlaneFacts
  <2> QED  BY <2>2 DEF Covered
<1>6. ASSUME NEW k \in Keys, cmd.op # "erase" => k # cmd.key, cmd.op = "erase" => k \notin Reaped(cmd.key),
             NEW r \in Resources
      PROVE  mirror'[r][k] = mirror[r][k]
  <2>1. CASE MirrorCreate
    BY <1>1, <1>6, <2>1, CreateView
  <2>2. CASE MirrorEdit
    BY <1>1, <1>6, <2>2, EditView
  <2>3. CASE MirrorTrash
    BY <1>1, <1>6, <2>3, TrashView
  <2>4. CASE MirrorRestore
    BY <1>1, <1>6, <2>4, RestoreView, PlaneFacts
  <2>5. CASE MirrorErase
    BY <1>1, <1>6, <2>5, EraseView
  <2> QED  BY <2>1, <2>2, <2>3, <2>4, <2>5
<1>7. ASSUME NEW r \in Resources, NEW k \in Keys, Covered(k, r, Bound(r))' PROVE Held(k, r)'
  <2>1. Covered(k, r, check[r])
    BY <1>2, <1>3, <1>7 DEF Covered
  <2>2. mirror'[r][k] = mirror[r][k] /\ mirror'[Other(r)][k] = mirror[Other(r)][k]
    BY <1>4, <1>5, <1>6, <2>1, PlaneFacts
  <2>3. Held(k, r)
    BY <1>3, <2>1 DEF Covers
  <2> QED  BY <1>1, <1>2, <2>2, <2>3 DEF Held
<1> QED  BY <1>7 DEF Covers

LEMMA DeskCovers ==
  ASSUME Base, Covers, NEW full \in BOOLEAN, DeskHears \/ DeskRestored \/ Age \/ StartSync(full)
  PROVE  Covers'
<1>1. Typed /\ UNCHANGED <<history, mirror, check>>
  BY HearsView, RestoredView, AgeView, StartView DEF Base
<1>2. Cloud' = Cloud
  BY <1>1, QuietLibrary
<1>3. CASE DeskHears \/ DeskRestored \/ Age
  <2>1. worker' = worker
    BY <1>1, <1>3, HearsView, RestoredView, AgeView
  <2> QED  BY <1>1, <1>2, <2>1 DEF Covers, Covered, Held, Bound, Goal
<1>4. CASE StartSync(full)
  <2>1. /\ \A r \in Resources : worker'[r].pc = "begin" /\ worker'[r].rows = {} /\ worker[r].pc = "idle"
        /\ \A r \in Resources : Other(r) \in Resources
    <3>1. cmd.op # "sync"
      BY <1>1, <1>4, StartView
    <3> QED  BY <1>1, <1>4, <3>1, StartView, CommandFacts, RecordTypes, PlaneFacts
  <2>2. \A r \in Resources : Bound(r)' = check[r] /\ Bound(r) = check[r]
    BY <1>1, <2>1 DEF Bound
  <2> QED  BY <1>1, <1>2, <2>1, <2>2 DEF Covers, Covered, Held
<1> QED  BY <1>3, <1>4

\* A pass that ends before its stamp leaves the checkpoint as it was, which is
\* behind what it has stored.
LEMMA EndsCovers ==
  ASSUME CoverRisks, Base, Rested, Covers, FinishSync \/ Kill
  PROVE  Covers'
<1>1. /\ Typed /\ UNCHANGED <<history, check>> /\ NoWorker.pc = "idle" /\ NoWorker.rows = {}
      /\ \A r \in Resources : worker'[r] = NoWorker /\ Other(r) \in Resources
  BY FinishView, KillView, RecordTypes, PlaneFacts DEF Base
<1>2. Cloud' = Cloud
  BY <1>1, QuietLibrary
<1>3. \A r \in Resources : /\ Bound(r)' = check[r] /\ check[r] <= Bound(r)
                           /\ check[r] \in Nat /\ Bound(r) \in Nat /\ check[r] <= Version
  <2> TAKE r \in Resources
  <2>1. Bound(r)' = check[r]
    BY <1>1 DEF Bound
  <2>2. FinishSync \/ ~Halfway(r)
    BY KillView DEF CoverRisks
  <2>3. FinishSync => worker[r].pc \in {"done", "failed"}
    BY <1>1, FinishView
  <2>4. check[r] \in Nat /\ Bound(r) \in Nat /\ worker[r].top \in Nat /\ check[r] <= Version
    BY <1>1, GoalFacts
  <2>5. check[r] <= Bound(r)
    BY <2>2, <2>3, <2>4 DEF Bound, Goal, Halfway
  <2> QED  BY <2>1, <2>4, <2>5
<1>4. ASSUME NEW r \in Resources, NEW k \in Keys, Covered(k, r, Bound(r))' PROVE Held(k, r)'
  <2>1. Cloud[k].ver \in Nat
    BY <1>1, LibraryFacts, ObjectFacts DEF Cloud
  <2>2. Covered(k, r, check[r]) /\ Held(k, r)
    BY <1>2, <1>3, <1>4, <2>1 DEF Covered, Covers
  <2>3. r = "items-trash" => Desk[k].at = "trash"
    BY <1>1, <1>3, <2>2, CoveredIsShown, PlaneFacts DEF Rested
  <2>4. mirror'[r][k] = mirror[r][k] /\ mirror'[Other(r)][k] = NoRow
    <3>1. CASE mirror' = mirror
      BY <2>2, <3>1 DEF Held
    <3>2. CASE Sweeps("items-trash", {i \in Keys : Desk[i].at = "trash"})
      <4>1. r = "items" \/ r = "items-trash"
        BY PlaneFacts
      <4>2. Other("items-trash") = "items" /\ Other("items") = "items-trash"
        BY DEF Other
      <4> QED  BY <2>2, <2>3, <3>2, <4>1, <4>2 DEF Sweeps, Held
    <3>3. mirror' = mirror \/ Sweeps("items-trash", {i \in Keys : Desk[i].at = "trash"})
      BY <1>1, FinishView, KillView
    <3> QED  BY <3>1, <3>2, <3>3
  <2> QED  BY <1>1, <1>2, <2>2, <2>4 DEF Held
<1> QED  BY <1>4 DEF Covers
\* The bound of the other worker.
LEMMA OtherBound ==
  ASSUME NEW q, worker'[q] = worker[q], check'[q] = check[q]
  PROVE  Bound(q)' = Bound(q)
  BY DEF Bound, Goal

LEMMA BeginCovers ==
  ASSUME Base, Covers, NEW r \in Resources, BeginPass(r)
  PROVE  Covers'
<1>1. /\ Typed /\ UNCHANGED <<history, check>> /\ worker[r].pc = "begin" /\ worker'[r].pc = "fetch"
      /\ worker[r].rows = {} /\ worker'[r].rows = worker[r].rows
      /\ \A q \in Resources : q # r => worker'[q] = worker[q]
      /\ \A q \in Resources, k \in Keys : /\ mirror'[q][k].val = mirror[q][k].val
                                          /\ q # r => mirror'[q][k] = mirror[q][k]
                                          /\ mirror'[q][k] = NoRow <=> mirror[q][k] = NoRow
  BY BeginView, WorkerFacts DEF Base, Works, Pass
<1>2. Cloud' = Cloud
  BY <1>1, QuietLibrary
<1>3. \A q \in Resources : Bound(q)' = Bound(q)
  BY <1>1 DEF Bound, Goal
<1>4. ASSUME NEW q \in Resources, NEW k \in Keys, Covered(k, q, Bound(q))' PROVE Held(k, q)'
  <2>1. Held(k, q)
    BY <1>2, <1>3, <1>4 DEF Covers, Covered
  <2>2. Other(q) \in Resources /\ (q = r \/ (q # r /\ Other(q) = r))
    BY PlaneFacts
  <2>3. CASE q = r
    BY <1>1, <1>2, <2>1, <2>2, <2>3 DEF Held
  <2>4. CASE q # r
    BY <1>1, <1>2, <2>1, <2>2, <2>4 DEF Held
  <2> QED  BY <2>3, <2>4
<1> QED  BY <1>4 DEF Covers

\* The desktop lists each item that is covered on its own side alone.
LEMMA FetchCovers ==
  ASSUME Base, Rested, Covers, NEW r \in Resources, FetchListing(r)
  PROVE  Covers'
<1>1. /\ Typed /\ UNCHANGED <<history, check, mirror>> /\ worker[r].pc = "fetch"
      /\ worker'[r].pc \in {"store", "verify", "sweep"} /\ worker'[r].full = worker[r].full
      /\ \A q \in Resources : q # r => worker'[q] = worker[q]
      /\ worker'[r].pc = "sweep" => worker'[r].top = 0
      /\ check[r] \in Nat
  BY FetchView, GoalFacts DEF Base, Works
<1>2. Cloud' = Cloud
  BY <1>1, QuietLibrary
<1>3. ASSUME NEW q \in Resources, NEW k \in Keys, Covered(k, q, Bound(q))' PROVE Covered(k, q, Bound(q))
  <2>1. CASE q # r
    BY <1>1, <1>2, <1>3, <2>1, OtherBound DEF Covered
  <2>2. CASE q = r
    <3>1. Bound(r)' = check[r] \/ Bound(r)' = 0
      BY <1>1 DEF Bound, Goal
    <3>2. Bound(r) = check[r]
      BY <1>1 DEF Bound
    <3>3. Cloud[k].ver \in Nat /\ (Cloud[k].at = Place(r) => Cloud[k].ver >= 1)
      BY <1>1, LibraryFacts, ObjectFacts, PlaneFacts DEF Cloud
    <3>4. Bound(r)' # 0
      BY <1>2, <1>3, <2>2, <3>3 DEF Covered
    <3> QED  BY <1>2, <1>3, <2>2, <3>1, <3>2, <3>4 DEF Covered
  <2> QED  BY <2>1, <2>2
<1>4. ASSUME NEW q \in Resources, NEW k \in Keys, Covered(k, q, Bound(q)) PROVE Held(k, q)'
  <2>1. Held(k, q) /\ Other(q) \in Resources /\ (q = r \/ (q # r /\ Other(q) = r))
    BY <1>4, PlaneFacts DEF Covers
  <2>2. CASE q = r
    BY <1>1, <1>2, <2>1, <2>2 DEF Held
  <2>3. CASE q # r
    <3>1. Bound(q) \in Nat /\ Bound(q) <= Version /\ AtRest(Bound(q))
      <4>1. Bound(q) \in {check[q], worker[q].top}
        BY <1>1, GoalFacts
      <4> QED  BY <1>1, <4>1, GoalFacts DEF Rested
    <3>2. Desk[k].at = Place(q) /\ Place(q) # Place(r)
      BY <1>1, <1>4, <2>1, <2>3, <3>1, CoveredIsShown, PlaneFacts
    <3>3. \A row \in worker'[r].rows : row.key # k
      BY <1>1, <3>2, FetchView DEF Heard
    <3> QED  BY <1>1, <1>2, <2>1, <2>3, <3>3 DEF Held
  <2> QED  BY <2>1, <2>2, <2>3
<1> QED  BY <1>3, <1>4 DEF Covers

\* A row of what the library has now lands, and a row of what it had loses.
LEMMA StoreCovers ==
  ASSUME Base, Newer, Covers, Lists, NEW r \in Resources, Store(r)
  PROVE  Covers'
<1>1. /\ Typed /\ Origins /\ UNCHANGED <<history, check>> /\ worker[r].pc = "store" /\ worker'[r].pc = "sweep"
      /\ worker'[r].full = worker[r].full /\ worker'[r].top = worker[r].top /\ worker'[r].rows = {}
      /\ \A q \in Resources : q # r => worker'[q] = worker[q]
      /\ worker[r].since = IF worker[r].full THEN 0 ELSE check[r]
      /\ worker[r].top \in Nat /\ check[r] \in Nat
  BY StoreView, WorkerFacts DEF Base, Works, Pass, Busy
<1>2. Cloud' = Cloud /\ Bound(r) = check[r] /\ Bound(r)' = Goal(r) /\ Other(r) \in Resources /\ Other(r) # r
      /\ Other(Other(r)) = r
  BY <1>1, QuietLibrary, PlaneFacts DEF Bound, Goal
<1>3. \A k \in Keys : Cloud[k].ver \in Nat
  BY <1>1, LibraryFacts, ObjectFacts DEF Cloud
<1>4. \A row \in worker[r].rows : row.key \in Keys /\ row.ver \in Nat /\ row.val \in Values
                                  /\ row.ver > worker[r].since /\ row.ver <= Cloud[row.key].ver
  BY <1>1, ListedRowFacts DEF Origins, Inbound
<1>5. ASSUME NEW k \in Keys, NEW q \in Resources, Cloud[k].at = Place(Other(q))
      PROVE  mirror[q][k].ver < Cloud[k].ver /\ \A row \in worker[q].rows : row.key = k => row.ver < Cloud[k].ver
  <2>1. Misplaced(k, q)
    BY <1>5, PlaneFacts DEF Misplaced
  <2>2. Version \in 1 .. Version /\ Since(k, Version) /\ history[Version][k].ver = Cloud[k].ver
    <3>1. Version \in Nat /\ Version \in 1 .. Version
      BY <1>1, LibraryFacts
    <3>2. \A j \in Version .. Version : j = Version
      BY <3>1
    <3> QED  BY <3>1, <3>2 DEF Since, Cloud
  <2>3. \A n : Older(k, n) => n < Cloud[k].ver
    BY <2>2 DEF Older
  <2> QED  BY <2>1, <2>3 DEF Newer
<1>6. ASSUME NEW k \in Keys, Cloud[k].at = Place(r), NEW row \in worker[r].rows,
             row.key = k, row.val = Cloud[k].val, row.ver = Cloud[k].ver
      PROVE  /\ mirror'[r][k] # NoRow /\ mirror'[r][k].val = Cloud[k].val /\ mirror'[r][k].ver = Cloud[k].ver
             /\ mirror'[Other(r)][k] = NoRow
  <2>1. mirror[r][k].ver \in Nat /\ mirror[r][k].ver <= Cloud[k].ver
    BY <1>1, RowFacts DEF Origins, Native
  <2>2. Landed(r, row) = [val |-> row.val, ver |-> row.ver]
    BY <1>3, <1>6, <2>1 DEF Landed, Keeps
  <2>3. Landed(r, row).val = Cloud[k].val /\ Landed(r, row).ver = Cloud[k].ver
    BY <1>6, <2>2
  <2>4. mirror[Other(r)][k].ver < Cloud[k].ver /\ mirror[Other(r)][k].ver \in Nat
    BY <1>1, <1>2, <1>5, <1>6, RowFacts
  <2>5. Wins(r, Landed(r, row).ver, mirror[Other(r)][k].ver)
    BY <1>3, <2>3, <2>4 DEF Wins
  <2>6. mirror'[r][k] = Landed(r, row) /\ mirror'[Other(r)][k] = NoRow /\ Cloud[k].val \in Values
    BY <1>1, <1>4, <1>6, <2>5, StoreView
  <2> QED  BY <2>3, <2>6, RecordTypes, NoneIsNoValue
<1>7. ASSUME NEW k \in Keys, Covered(k, r, Bound(r))' PROVE Held(k, r)'
  <2>1. Cloud[k].at = Place(r) /\ Cloud[k].ver <= Goal(r) /\ Cloud[k].ver >= 1
    <3>1. Cloud[k].at = Place(r) /\ Cloud[k].ver <= Goal(r)
      BY <1>2, <1>7 DEF Covered
    <3> QED  BY <1>1, <3>1, LibraryFacts, ObjectFacts, PlaneFacts DEF Cloud
  <2>2. CASE Cloud[k].ver > worker[r].since
    <3>1. Cloud[k].ver <= worker[r].top
      BY <1>1, <1>3, <2>1, <2>2 DEF Goal
    <3>2. PICK row \in worker[r].rows : row.key = k /\ row.val = Cloud[k].val /\ row.ver = Cloud[k].ver
      BY <1>1, <2>1, <2>2, <3>1 DEF Lists, Covered
    <3>3. /\ mirror'[r][k] # NoRow /\ mirror'[r][k].val = Cloud[k].val /\ mirror'[r][k].ver = Cloud[k].ver
          /\ mirror'[Other(r)][k] = NoRow
      BY <1>6, <2>1, <3>2
    <3> QED  BY <1>1, <1>2, <3>3 DEF Held
  <2>3. CASE ~(Cloud[k].ver > worker[r].since)
    <3>1. Covered(k, r, Bound(r))
      BY <1>1, <1>2, <1>3, <2>1, <2>3 DEF Covered
    <3>2. Held(k, r)
      BY <3>1 DEF Covers
    <3>3. \A row \in worker[r].rows : row.key # k
      <4> SUFFICES ASSUME NEW row \in worker[r].rows, row.key = k PROVE FALSE
        OBVIOUS
      <4>1. row.ver \in Nat /\ row.ver > worker[r].since /\ row.ver <= Cloud[k].ver /\ Cloud[k].ver \in Nat
        BY <1>3, <1>4
      <4>2. worker[r].since \in Nat
        BY <1>1
      <4> QED  BY <2>3, <4>1, <4>2
    <3>4. mirror'[r][k] = mirror[r][k] /\ mirror'[Other(r)][k] = mirror[Other(r)][k]
      BY <1>1, <1>2, <3>3, StoreView
    <3> QED  BY <1>1, <1>2, <3>2, <3>4 DEF Held
  <2> QED  BY <2>2, <2>3
<1>8. ASSUME NEW q \in Resources, q # r, NEW k \in Keys, Covered(k, q, Bound(q))' PROVE Held(k, q)'
  <2>1. Held(k, q) /\ q = Other(r) /\ Other(q) = r /\ Cloud[k].at = Place(q)
    BY <1>1, <1>2, <1>8, OtherBound, PlaneFacts DEF Covers, Covered
  <2>2. mirror[r][k] = NoRow /\ mirror[q][k] # NoRow
    BY <2>1 DEF Held
  <2>3. CASE \A row \in worker[r].rows : row.key # k
    <3>1. mirror'[r][k] = mirror[r][k] /\ mirror'[q][k] = mirror[q][k]
      BY <1>1, <2>3, StoreView
    <3> QED  BY <1>1, <1>2, <2>1, <3>1 DEF Held
  <2>4. ASSUME NEW row \in worker[r].rows, row.key = k PROVE Held(k, q)'
    <3>1. mirror[q][k].ver = Cloud[k].ver /\ row.ver < Cloud[k].ver
      BY <1>5, <2>1, <2>4 DEF Held
    <3>2. Landed(r, row) = [val |-> row.val, ver |-> row.ver]
      BY <2>2, <2>4 DEF Landed, Keeps
    <3>3. Landed(r, row).ver = row.ver
      BY <3>2
    <3>4. ~Wins(r, Landed(r, row).ver, mirror[q][k].ver)
      BY <1>3, <1>4, <2>4, <3>1, <3>3 DEF Wins
    <3>5. mirror'[r][k] = NoRow /\ mirror'[q][k] = mirror[q][k]
      BY <1>1, <2>1, <2>2, <2>4, <3>4, StoreView
    <3> QED  BY <1>1, <1>2, <2>1, <3>5 DEF Held
  <2> QED  BY <2>3, <2>4
<1> QED  BY <1>7, <1>8 DEF Covers

LEMMA SweepCovers ==
  ASSUME Base, Covers, Lists, NEW r \in Resources, Sweep(r)
  PROVE  Covers'
<1>1. /\ Typed /\ UNCHANGED <<history, check>> /\ worker[r].pc = "sweep" /\ worker'[r].pc = "stamp"
      /\ worker'[r].full = worker[r].full /\ worker'[r].top = worker[r].top /\ worker'[r].rows = worker[r].rows
      /\ \A q \in Resources : q # r => worker'[q] = worker[q]
      /\ mirror' = mirror \/ (worker[r].full /\ Sweeps(r, worker[r].seen))
  BY SweepView, WorkerFacts DEF Base, Works
<1>2. Cloud' = Cloud /\ \A q \in Resources : Bound(q)' = Bound(q)
  <2>1. Bound(r)' = Bound(r)
    BY <1>1 DEF Bound, Goal
  <2> QED  BY <1>1, <2>1, QuietLibrary, OtherBound
<1>3. ASSUME NEW q \in Resources, NEW k \in Keys, Covered(k, q, Bound(q))' PROVE Held(k, q)'
  <2>1. /\ Covered(k, q, Bound(q)) /\ Held(k, q) /\ Other(q) \in Resources
        /\ (q = r \/ (q # r /\ q = Other(r) /\ Other(q) = r))
    BY <1>2, <1>3, PlaneFacts DEF Covered, Covers
  <2>2. q = r /\ worker[r].full => k \in worker[r].seen
    <3>1. worker[r].full => Bound(r) = worker[r].top
      BY <1>1 DEF Bound, Goal
    <3> QED  BY <1>1, <2>1, <3>1 DEF Lists
  <2>3. mirror'[q][k] = mirror[q][k] /\ mirror'[Other(q)][k] = NoRow
    <3>1. CASE mirror' = mirror
      BY <2>1, <3>1 DEF Held
    <3>2. CASE worker[r].full /\ Sweeps(r, worker[r].seen)
      BY <2>1, <2>2, <3>2 DEF Sweeps, Held
    <3> QED  BY <1>1, <3>1, <3>2
  <2>4. \A row \in worker'[Other(q)].rows : row \in worker[Other(q)].rows
    BY <1>1, <2>1
  <2>5. worker[q].pc \in {"sweep", "stamp", "done", "failed"} => worker'[q].pc \in {"sweep", "stamp", "done", "failed"}
    BY <1>1, <2>1
  <2> QED  BY <1>2, <2>1, <2>3, <2>4, <2>5 DEF Held
<1> QED  BY <1>3 DEF Covers

\* A pass that is verified, stamped or given up leaves the rows alone.
LEMMA EndPassCovers ==
  ASSUME CoverRisks, Base, Rested, Covers, NEW r \in Resources, Verify(r) \/ Stamp(r) \/ FailPass(r)
  PROVE  Covers'
<1>1. /\ Typed /\ UNCHANGED <<history, mirror>>
      /\ \A q \in Resources : q # r => worker'[q] = worker[q] /\ check'[q] = check[q]
      /\ Version \in Nat
  BY VerifyView, StampView, FailView, LibraryFacts DEF Base, Works
<1>2. /\ worker[r].top \in Nat /\ check[r] \in Nat /\ Goal(r) \in Nat /\ Bound(r) \in Nat
  BY <1>1, GoalFacts
<1>3. /\ Bound(r)' \in Nat /\ Bound(r)' <= Bound(r)
      /\ \A row \in worker'[r].rows : row \in worker[r].rows
      /\ worker[r].pc \in {"sweep", "stamp", "done", "failed"} => worker'[r].pc \in {"sweep", "stamp", "done", "failed"}
  <2>1. CASE Verify(r)
    <3>1. worker[r].pc = "verify" /\ worker[r].top = 0 /\ check'[r] = check[r] /\ Bound(r) = check[r]
      BY <1>1, <2>1, VerifyView DEF Rested, Bound
    <3>2. /\ worker'[r].pc \in {"stamp", "begin"} /\ worker'[r].top = 0
          /\ \A row \in worker'[r].rows : row \in worker[r].rows
          /\ worker'[r].pc = "stamp" => worker'[r].full = worker[r].full
      BY <1>1, <2>1, <3>1, VerifyView DEF Works
    <3>3. ~worker[r].full
      BY <1>1, <3>1, WorkerFacts DEF Pass
    <3>4. Bound(r)' = check[r]
      BY <1>2, <3>1, <3>2, <3>3 DEF Bound, Goal
    <3> QED  BY <1>2, <3>1, <3>2, <3>4
  <2>2. CASE Stamp(r)
    <3>1. /\ worker[r].pc = "stamp" /\ worker'[r].pc = "done" /\ worker'[r].rows = {} /\ check'[r] = Goal(r)
      BY <1>1, <2>2, StampView
    <3>2. Bound(r) = Goal(r) /\ Bound(r)' = Goal(r)
      BY <3>1 DEF Bound
    <3> QED  BY <1>2, <3>1, <3>2
  <2>3. CASE FailPass(r)
    <3>1. /\ ~Halfway(r) /\ worker'[r].pc = "failed" /\ worker'[r].rows = {} /\ check'[r] = check[r]
      BY <1>1, <2>3, FailView DEF CoverRisks
    <3>2. Bound(r)' = check[r] /\ check[r] <= Bound(r)
      BY <1>2, <3>1 DEF Bound, Goal, Halfway
    <3> QED  BY <1>2, <3>1, <3>2
  <2> QED  BY <2>1, <2>2, <2>3
<1>4. Cloud' = Cloud /\ \A q \in Resources : q # r => Bound(q)' = Bound(q)
  BY <1>1, QuietLibrary, OtherBound
<1>5. ASSUME NEW q \in Resources, NEW k \in Keys, Covered(k, q, Bound(q))' PROVE Held(k, q)'
  <2>1. Covered(k, q, Bound(q))
    <3>1. CASE q = r
      <4>1. Cloud[k].ver \in Nat
        BY <1>1, LibraryFacts, ObjectFacts DEF Cloud
      <4> QED  BY <1>2, <1>3, <1>4, <1>5, <3>1, <4>1 DEF Covered
    <3>2. CASE q # r
      BY <1>4, <1>5, <3>2 DEF Covered
    <3> QED  BY <3>1, <3>2
  <2>2. Held(k, q) /\ Other(q) \in Resources /\ (q = r \/ (q # r /\ Other(q) = r))
    BY <2>1, PlaneFacts DEF Covers
  <2>3. \A row \in worker'[Other(q)].rows : row \in worker[Other(q)].rows
    BY <1>1, <1>3, <2>2, PlaneFacts
  <2>4. worker[q].pc \in {"sweep", "stamp", "done", "failed"} => worker'[q].pc \in {"sweep", "stamp", "done", "failed"}
    BY <1>1, <1>3, <2>2
  <2> QED  BY <1>1, <1>4, <2>2, <2>3, <2>4 DEF Held
<1> QED  BY <1>5 DEF Covers

LEMMA CoversLast ==
  ASSUME CoverRisks, Base, Newer, Coverage, PlanesNext
  PROVE  Covers'
  BY LandsCovers, ReplayCovers, DeskCovers, EndsCovers, BeginCovers, FetchCovers, StoreCovers, SweepCovers,
     EndPassCovers DEF PlanesNext, Coverage

LEMMA CoverageLast ==
  ASSUME CoverRisks, Base, Newer, Replaced, Coverage, PlanesNext
  PROVE  Coverage'
  BY RestedLast, CoversLast, ListsLast DEF Coverage

LEMMA CoverageFirst ==
  ASSUME PlanesInit
  PROVE  Coverage
<1>1. /\ Base /\ Version = 1 /\ desk = 1 /\ Desk = Cloud /\ check["items"] = 1 /\ check["items-trash"] = 0
      /\ \A r \in Resources : worker[r] = NoWorker /\ check[r] \in 0 .. 1
      /\ cmd.op = "idle" /\ NoWorker.pc = "idle" /\ NoWorker.top = 0 /\ ~NoWorker.full /\ NoWorker.rows = {}
  BY BaseFirst, InitFacts, RecordTypes
<1>2. Rested
  <2>1. \A i \in 1 .. 1 : i = 1
    OBVIOUS
  <2>2. \A r \in Resources : \A i \in desk .. check[r] : i = desk
    BY <1>1
  <2>3. \A r \in Resources : \A i \in desk .. worker[r].top : i = desk
    BY <1>1
  <2> QED  BY <1>1, <2>2, <2>3 DEF Rested, AtRest, SamePlaces
<1>3. Lists /\ Reaches /\ Ahead
  BY <1>1 DEF Lists, Reaches, Ahead, Ops
<1>4. ASSUME NEW r \in Resources, NEW k \in Keys, Covered(k, r, Bound(r)) PROVE Held(k, r)
  <2>1. /\ r = "items" /\ Cloud[k] = [at |-> "live", val |-> Initial, ver |-> 1]
        /\ mirror["items"][k] = [val |-> Initial, ver |-> 1]
    <3>1. Cloud[k].at = Place(r)
      BY <1>4 DEF Covered
    <3> QED  BY <3>1, InitFacts, PlaneFacts DEF Place
  <2>2. mirror["items-trash"][k] = NoRow /\ Other(r) = "items-trash" /\ Other(r) \in Resources
    BY <2>1, InitFacts, PlaneFacts DEF Other
  <2>3. mirror["items"][k].val = Initial /\ Cloud[k].val = Initial /\ Initial # None
    BY <2>1, PendingWritesAssumption
  <2> QED  BY <1>1, <2>1, <2>2, <2>3, RecordTypes DEF Held
<1> QED  BY <1>2, <1>3, <1>4 DEF Coverage, Covers

\* Once the desktop has heard of everything, one sync, an incremental one
\* included, leaves each item that still exists in the table of its state alone,
\* with the library's value, as long as no edit returns to an earlier value, no
\* backup changes which items are in the trash and no full pass over an older
\* library fails halfway (sync.go, Stamps converge).
THEOREM OneSyncCatchesUp ==
  ASSUME CoverRisks
  PROVE  PlanesSpec => []CatchesUp
<1>1. Base /\ Newer /\ Replaced /\ Coverage /\ [PlanesNext]_planeVars => Coverage'
  <2>1. ASSUME Coverage, UNCHANGED planeVars PROVE Coverage'
    BY <2>1 DEF Coverage, Rested, AtRest, SamePlaces, Covers, Covered, Held, Bound, Goal, Lists, Reaches, Ahead,
       Cloud, Version, planeVars, planes, store, bounds, ghosts
  <2> QED  BY <2>1, CoverageLast
<1>2. Base /\ Coverage => CatchesUp
  <2> SUFFICES ASSUME Base, Coverage, Completed, desk = Version, NEW k \in Keys, Desk[k].at \in {"live", "trash"}
               PROVE  InPlace(k) /\ \A r \in Resources : mirror[r][k].val \in {None, Desk[k].val}
    BY DEF CatchesUp
  <2>1. /\ Desk = Cloud /\ cmd.op = "sync" /\ ~moved
        /\ \A r \in Resources : worker[r].pc = "done" /\ Bound(r) = check[r]
    BY DEF Completed, At, Desk, Cloud, Bound
  <2>2. PICK q \in Resources : Cloud[k].at = Place(q)
    BY <2>1, PlaneFacts DEF Place
  <2>3. Held(k, q)
    BY <2>1, <2>2 DEF Coverage, Reaches, Covers, Covered
  <2>4. Place(Other(q)) # Place(q) /\ \A r \in Resources : r = q \/ r = Other(q)
    BY PlaneFacts
  <2> QED  BY <2>1, <2>2, <2>3, <2>4, RecordTypes DEF Held, InPlace
<1>3. "again" \notin Risks
  BY DEF CoverRisks
<1> QED  BY <1>1, <1>2, <1>3, CoverageFirst, BaseInvariant, NewerInvariant, ReplacedInvariant, PTL DEF PlanesSpec
=============================================================================
