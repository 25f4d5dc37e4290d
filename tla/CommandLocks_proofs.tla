------------------------ MODULE CommandLocks_proofs ------------------------
(***************************************************************************)
(* Proofs about CommandLocks: the open transactions of every execution are *)
(* under their locks, no path out of a command strands a lock, no command  *)
(* is refused by a lock of its own client, and each command of the server  *)
(* sees the library it selected.  The invariant says which execution owes  *)
(* the release of every lock.                                              *)
(***************************************************************************)
EXTENDS CommandLocks, SequenceTheorems, TLAPS

\* The ownerships a frame has to finish, and the locks it owes.
Owns(f) == {f.defers[k] : k \in DOMAIN f.defers} \cup ({f.tracked} \ {None})
Owes(f) == {o.lock : o \in Owns(f)} \cup ({f.spool} \ {None})

\* An ownership knows its place in the context, and no lock is there twice.
Placed(f, i) ==
    /\ \A k \in DOMAIN f.ctx : f.ctx[k].below = k - 1 /\ f.ctx[k].owner \in 1..i
    /\ \A k, l \in DOMAIN f.ctx : f.ctx[k].lock = f.ctx[l].lock => k = l

\* What a frame has to finish is its own and in its context, in the order taken.
Owned(f, i) ==
    /\ \A o \in Owns(f) : /\ o.owner = i
                          /\ o.below + 1 \in DOMAIN f.ctx /\ f.ctx[o.below + 1] = o
                          /\ o.lock # f.spool
    /\ \A k, l \in DOMAIN f.defers : k < l => f.defers[k].below < f.defers[l].below
    /\ f.tracked # None => /\ f.tracked.lock = Install
                           /\ f.defers = <<>> \/ \E k \in DOMAIN f.defers : f.defers[k] = f.tracked

\* What each phase may rely on.
Phased(f, i) ==
    /\ f.phase = "pre" => f.tracked = None /\ f.defers = <<>> /\ f.spool = None /\ f.open = {}
    /\ f.phase = "setup" => f.spool = None /\ f.open = {}
    /\ f.phase \in {"leaf", "run"} => f.defers = <<>> /\ f.open = {}
    /\ f.phase \in {"pre", "setup", "leaf", "run"} =>
         /\ \A k \in DOMAIN f.ctx : f.ctx[k].owner = i => f.ctx[k] = f.tracked
         /\ f.tracked # None => f.tracked.below + 1 = Len(f.ctx) /\ Prof(f).lock = "body"
    /\ f.phase = "body" /\ f.tracked # None => f.defers # <<>>
    /\ f.open \subseteq {f.ctx[k].lock : k \in DOMAIN f.ctx}
    /\ f.phase = "unwind" => f.open \subseteq {f.defers[k].lock : k \in DOMAIN f.defers}

Shape(f, i) == f \in Frame /\ Placed(f, i) /\ Owned(f, i) /\ Phased(f, i)

\* Every ownership in a context is still to be finished by the frame that took it.
Linked(c) ==
    \A i \in DOMAIN stack[c] : \A k \in DOMAIN stack[c][i].ctx :
        stack[c][i].ctx[k] \in Owns(stack[c][stack[c][i].ctx[k].owner])

\* A lock is held by a client exactly if one frame of it owes it.
Charged(c) ==
    /\ \A i \in DOMAIN stack[c] : \A p \in Owes(stack[c][i]) : holder[p] = c
    /\ \A i, j \in DOMAIN stack[c] : Owes(stack[c][i]) \cap Owes(stack[c][j]) # {} => i = j
    /\ \A p \in Locks : holder[p] = c => \E i \in DOMAIN stack[c] : p \in Owes(stack[c][i])

Nested(c) ==
    \A i \in DOMAIN stack[c] :
        /\ i < Len(stack[c]) => stack[c][i].phase = "body"
        /\ i > 1 => stack[c][i].saved = Prof(stack[c][i - 1]).library

\* Only the request in the slot runs anything.
Served(c) ==
    /\ request[c] # "running" => stack[c] = <<>>
    /\ c \in Server => (slot = c <=> request[c] \in {"checking", "running"})
    /\ c \in Shells => request[c] \in {"idle", "running"}

Framed == \A c \in Clients : \A i \in DOMAIN stack[c] : Shape(stack[c][i], i)
Inv ==
    /\ TypeOK /\ Framed /\ OwnLibrary
    /\ \A c \in Clients : Linked(c) /\ Charged(c) /\ Nested(c) /\ Served(c)

-----------------------------------------------------------------------------
(* Sequences. *)

LEMMA TopFrame ==
    ASSUME TypeOK, NEW c \in Clients, stack[c] # <<>>
    PROVE  /\ Len(stack[c]) \in Nat /\ Len(stack[c]) >= 1
           /\ DOMAIN stack[c] = 1..Len(stack[c]) /\ Len(stack[c]) \in DOMAIN stack[c]
           /\ Top(c) = stack[c][Len(stack[c])] /\ Top(c) \in Frame /\ stack[c] \in Seq(Frame)
  <1>1. stack[c] \in Seq(Frame)
    BY DEF TypeOK
  <1>2. Len(stack[c]) \in Nat /\ Len(stack[c]) >= 1 /\ DOMAIN stack[c] = 1..Len(stack[c])
    BY <1>1, EmptySeq
  <1> QED
    BY <1>1, <1>2 DEF Top, Last

LEMMA SetTopStack ==
    ASSUME TypeOK, NEW c \in Clients, stack[c] # <<>>, NEW g \in Frame, SetTop(c, g)
    PROVE  /\ stack' \in [Clients -> Seq(Frame)]
           /\ stack'[c] # <<>> /\ Len(stack'[c]) = Len(stack[c]) /\ DOMAIN stack'[c] = DOMAIN stack[c]
           /\ \A i \in DOMAIN stack[c] :
                stack'[c][i] = IF i = Len(stack[c]) THEN g ELSE stack[c][i]
           /\ \A d \in Clients : d # c => stack'[d] = stack[d]
  <1> DEFINE n == Len(stack[c])
             s == [stack[c] EXCEPT ![n] = g]
  <1>1. /\ n \in DOMAIN stack[c] /\ DOMAIN stack[c] = 1..n /\ n \in 1..n /\ stack[c] \in Seq(Frame)
        /\ n >= 1 /\ n \in Nat
    BY TopFrame
  <1>2. s \in Seq(Frame) /\ Len(s) = n /\ \A i \in 1..n : s[i] = IF i = n THEN g ELSE stack[c][i]
    BY <1>1, ExceptSeq
  <1>3. stack' = [stack EXCEPT ![c] = s]
    BY DEF SetTop
  <1>4. stack'[c] = s /\ \A d \in Clients : d # c => stack'[d] = stack[d]
    BY <1>3 DEF TypeOK
  <1>5. stack' \in [Clients -> Seq(Frame)]
    BY <1>2, <1>3 DEF TypeOK
  <1>6. DOMAIN s = 1..n /\ s # <<>>
    BY <1>1, <1>2, EmptySeq
  <1> HIDE DEF s
  <1> QED
    BY <1>1, <1>2, <1>4, <1>5, <1>6

\* A sequence without its last element.
LEMMA FrontShape ==
    ASSUME NEW S, NEW s \in Seq(S), s # <<>>
    PROVE  /\ Front(s) \in Seq(S) /\ Len(Front(s)) = Len(s) - 1 /\ DOMAIN Front(s) = 1..(Len(s) - 1)
           /\ \A k \in 1..(Len(s) - 1) : Front(s)[k] = s[k] /\ k \in DOMAIN s
  <1> DEFINE r == Len(s) - 1
  <1>1. r \in Nat /\ DOMAIN s = 1..Len(s) /\ Len(s) = r + 1
    BY EmptySeq
  <1>2. \A k \in 1..r : k \in DOMAIN s /\ s[k] \in S
    BY <1>1
  <1>3. /\ SubSeq(s, 1, r) \in Seq(S)
        /\ Len(SubSeq(s, 1, r)) = IF 1 <= r THEN r - 1 + 1 ELSE 0
        /\ \A k \in 1..(r - 1 + 1) : SubSeq(s, 1, r)[k] = s[1 + k - 1]
    BY <1>1, <1>2, SubSeqProperties
  <1>4. Len(SubSeq(s, 1, r)) = r /\ DOMAIN SubSeq(s, 1, r) = 1..r
    BY <1>1, <1>3
  <1>5. ASSUME NEW k \in 1..r
        PROVE  SubSeq(s, 1, r)[k] = s[k]
    <2>1. k \in 1..(r - 1 + 1) /\ 1 + k - 1 = k
      BY <1>1
    <2> QED
      BY <1>3, <2>1
  <1> QED
    BY <1>2, <1>3, <1>4, <1>5 DEF Front

-----------------------------------------------------------------------------
(* A step of the innermost execution. *)

\* The locks change hands as what the frame owes does.
Exchange(c, g) ==
    /\ holder' \in [Locks -> Clients \cup {None}]
    /\ \A p \in Locks :
         /\ p \in Owes(g) => holder'[p] = c /\ (p \in Owes(Top(c)) \/ holder[p] = None)
         /\ p \in Owes(Top(c)) /\ p \notin Owes(g) => holder'[p] = None
         /\ p \notin Owes(Top(c)) /\ p \notin Owes(g) => holder'[p] = holder[p]

\* What the context of a frame names is still owed: by callers, or by itself.
Backed(c, g) ==
    \A k \in DOMAIN g.ctx :
        \/ g.ctx[k].owner = Len(stack[c]) /\ g.ctx[k] \in Owns(g)
        \/ g.ctx[k].owner # Len(stack[c]) /\ \E l \in DOMAIN Top(c).ctx : Top(c).ctx[l] = g.ctx[k]

LEMMA OwesLocks ==
    ASSUME NEW f \in Frame
    PROVE  Owes(f) \subseteq Locks /\ Owns(f) \subseteq Ownership
  <1>1. DOMAIN f.defers = 1..Len(f.defers) /\ \A k \in DOMAIN f.defers : f.defers[k] \in Ownership
    BY DEF Frame
  <1>2. f.tracked \in Ownership \cup {None} /\ f.spool \in Paths \cup {None}
    BY DEF Frame
  <1>3. Owns(f) \subseteq Ownership
    BY <1>1, <1>2 DEF Owns
  <1> QED
    BY <1>2, <1>3 DEF Owes, Ownership, Locks

LEMMA ChargedReplaced ==
    ASSUME Inv, NEW c \in Clients, stack[c] # <<>>, NEW g \in Frame, SetTop(c, g), Exchange(c, g)
    PROVE  \A d \in Clients : Charged(d)'
  <1> DEFINE n == Len(stack[c])
             f == Top(c)
  <1>1. /\ n \in DOMAIN stack[c] /\ f = stack[c][n] /\ f \in Frame /\ TypeOK
        /\ \A d \in Clients : Charged(d)
    BY TopFrame DEF Inv
  <1>2. /\ DOMAIN stack'[c] = DOMAIN stack[c]
        /\ \A i \in DOMAIN stack[c] : stack'[c][i] = IF i = n THEN g ELSE stack[c][i]
        /\ \A d \in Clients : d # c => stack'[d] = stack[d]
    BY <1>1, SetTopStack
  <1>3. None \notin Clients
    BY LocksAssumption
  <1>4. ASSUME NEW d \in Clients, d # c
        PROVE  Charged(d)'
    <2>1. stack'[d] = stack[d] /\ Charged(d) /\ Charged(c)
      BY <1>1, <1>2, <1>4
    <2>2. ASSUME NEW i \in DOMAIN stack[d], NEW p \in Owes(stack[d][i])
          PROVE  holder'[p] = d
      <3>1. holder[p] = d /\ p \in Locks
        <4>1. stack[d][i] \in Frame
          BY <1>1 DEF TypeOK
        <4> QED
          BY <2>1, <4>1, OwesLocks DEF Charged
      <3>2. p \notin Owes(f) /\ p \notin Owes(g)
        BY <1>1, <1>3, <1>4, <2>1, <3>1 DEF Charged, Exchange
      <3> QED
        BY <3>1, <3>2 DEF Exchange
    <2>3. ASSUME NEW p \in Locks, holder'[p] = d
          PROVE  \E i \in DOMAIN stack[d] : p \in Owes(stack[d][i])
      <3>1. holder[p] = d
        BY <1>3, <1>4, <2>3 DEF Exchange
      <3> QED
        BY <2>1, <3>1 DEF Charged
    <2>4. \A i, j \in DOMAIN stack[d] : Owes(stack[d][i]) \cap Owes(stack[d][j]) # {} => i = j
      BY <2>1 DEF Charged
    <2>5. \A i \in DOMAIN stack'[d] : Owes(stack[d][i])' = Owes(stack[d][i])
      BY <2>1 DEF Owes, Owns
    <2> QED
      BY <2>1, <2>2, <2>3, <2>4, <2>5 DEF Charged
  <1>5. Charged(c)'
    <2>1. Charged(c)
      BY <1>1
    <2>2. \A i \in DOMAIN stack'[c] : Owes(stack[c][i])' = IF i = n THEN Owes(g) ELSE Owes(stack[c][i])
      BY <1>2 DEF Owes, Owns
    <2>3. \A i \in DOMAIN stack[c] : Owes(stack[c][i]) \subseteq Locks
      <3>1. \A i \in DOMAIN stack[c] : stack[c][i] \in Frame
        BY <1>1 DEF TypeOK
      <3> QED
        BY <3>1, OwesLocks
    <2>4. Owes(g) \subseteq Locks
      BY OwesLocks
    <2>5. ASSUME NEW i \in DOMAIN stack[c], i # n, NEW p \in Owes(stack[c][i])
          PROVE  holder[p] = c /\ p \notin Owes(f) /\ p \notin Owes(g) /\ holder'[p] = c
      <3>1. holder[p] = c /\ p \notin Owes(f) /\ p \in Locks
        BY <1>1, <2>1, <2>3, <2>5 DEF Charged
      <3>2. p \notin Owes(g)
        BY <1>3, <3>1 DEF Exchange
      <3> QED
        BY <3>1, <3>2 DEF Exchange
    <2>6. \A p \in Owes(g) : holder'[p] = c
      BY <2>4 DEF Exchange
    <2>7. ASSUME NEW p \in Locks, holder'[p] = c
          PROVE  p \in Owes(g) \/ \E i \in DOMAIN stack[c] : i # n /\ p \in Owes(stack[c][i])
      <3>1. p \in Owes(g) \/ (holder[p] = c /\ p \notin Owes(f))
        BY <1>3, <2>7 DEF Exchange
      <3> QED
        BY <1>1, <2>1, <3>1 DEF Charged
    <2>8. \A i, j \in DOMAIN stack[c] : Owes(stack[c][i]) \cap Owes(stack[c][j]) # {} => i = j
      BY <2>1 DEF Charged
    <2>a. ASSUME NEW i \in DOMAIN stack'[c], NEW p \in Owes(stack[c][i])'
          PROVE  holder'[p] = c
      BY <1>2, <2>a, <2>2, <2>5, <2>6
    <2>b. ASSUME NEW i \in DOMAIN stack'[c], NEW j \in DOMAIN stack'[c],
                 Owes(stack[c][i])' \cap Owes(stack[c][j])' # {}
          PROVE  i = j
      <3>1. PICK p \in Owes(stack[c][i])' : p \in Owes(stack[c][j])'
        BY <2>b
      <3>2. i \in DOMAIN stack[c] /\ j \in DOMAIN stack[c]
        BY <1>2
      <3>3. /\ p \in (IF i = n THEN Owes(g) ELSE Owes(stack[c][i]))
            /\ p \in (IF j = n THEN Owes(g) ELSE Owes(stack[c][j]))
        BY <2>2, <3>1
      <3>4. CASE i # n /\ j # n
        BY <2>8, <3>2, <3>3, <3>4
      <3>5. CASE i = n \/ j = n
        BY <2>5, <3>2, <3>3, <3>5
      <3> QED
        BY <3>4, <3>5
    <2>c. ASSUME NEW p \in Locks, holder'[p] = c
          PROVE  \E i \in DOMAIN stack'[c] : p \in Owes(stack[c][i])'
      <3>1. CASE p \in Owes(g)
        BY <1>1, <1>2, <2>2, <3>1
      <3>2. CASE \E i \in DOMAIN stack[c] : i # n /\ p \in Owes(stack[c][i])
        BY <1>2, <2>2, <3>2
      <3> QED
        BY <2>7, <2>c, <3>1, <3>2
    <2> QED
      BY <2>a, <2>b, <2>c DEF Charged
  <1> QED
    BY <1>4, <1>5

LEMMA FrameIn ==
    ASSUME Inv, NEW c \in Clients, NEW i \in DOMAIN stack[c]
    PROVE  stack[c][i] \in Frame /\ Shape(stack[c][i], i) /\ i \in 1..Len(stack[c]) /\ i \in Nat
           /\ stack[c] \in Seq(Frame) /\ DOMAIN stack[c] = 1..Len(stack[c]) /\ Len(stack[c]) \in Nat
           /\ stack[c] # <<>>
  <1>1. stack[c] \in Seq(Frame)
    BY DEF Inv, TypeOK
  <1>2. stack[c] # <<>>
    BY <1>1, EmptySeq
  <1> QED
    BY <1>1, <1>2 DEF Inv, Framed
LEMMA LinkedWith ==
    ASSUME NEW c \in Clients, NEW s, stack'[c] = s,
           \A i \in DOMAIN s : \A k \in DOMAIN s[i].ctx : s[i].ctx[k] \in Owns(s[s[i].ctx[k].owner])
    PROVE  Linked(c)'
  BY DEF Linked, Owns

LEMMA LinkedStays ==
    ASSUME NEW c \in Clients, stack'[c] = stack[c], Linked(c)
    PROVE  Linked(c)'
  <1>1. \A i \in DOMAIN stack[c] : \A k \in DOMAIN stack[c][i].ctx :
          stack[c][i].ctx[k] \in Owns(stack[c][stack[c][i].ctx[k].owner])
    BY DEF Linked
  <1> DEFINE s == stack[c]
  <1>2. stack'[c] = s /\ \A i \in DOMAIN s : \A k \in DOMAIN s[i].ctx : s[i].ctx[k] \in Owns(s[s[i].ctx[k].owner])
    BY <1>1
  <1> HIDE DEF s
  <1> QED
    BY <1>2, LinkedWith


LEMMA LinkedReplaced ==
    ASSUME Inv, NEW c \in Clients, stack[c] # <<>>, NEW g \in Frame, SetTop(c, g), Backed(c, g)
    PROVE  \A d \in Clients : Linked(d)'
  <1> DEFINE n == Len(stack[c])
             f == Top(c)
  <1>1. /\ n \in DOMAIN stack[c] /\ f = stack[c][n] /\ f \in Frame /\ TypeOK /\ n \in Nat
        /\ \A d \in Clients : Linked(d)
    BY TopFrame DEF Inv
  <1>2. /\ DOMAIN stack'[c] = DOMAIN stack[c] /\ DOMAIN stack[c] = 1..n
        /\ \A i \in DOMAIN stack[c] : stack'[c][i] = IF i = n THEN g ELSE stack[c][i]
        /\ \A d \in Clients : d # c => stack'[d] = stack[d]
    BY <1>1, SetTopStack, TopFrame
  <1>3. ASSUME NEW d \in Clients, d # c
        PROVE  Linked(d)'
    <2>1. stack'[d] = stack[d] /\ Linked(d)
      BY <1>1, <1>2, <1>3
    <2> QED
      BY <2>1, LinkedStays
  <1>4. ASSUME NEW i \in DOMAIN stack[c], NEW k \in DOMAIN stack[c][i].ctx
        PROVE  /\ stack[c][i].ctx[k].owner \in 1..i /\ stack[c][i].ctx[k].owner \in DOMAIN stack[c]
               /\ stack[c][i].ctx[k] \in Owns(stack[c][stack[c][i].ctx[k].owner])
    <2>1. stack[c][i].ctx[k].owner \in 1..i /\ i \in 1..n
      BY FrameIn DEF Shape, Placed
    <2> QED
      BY <1>1, <1>2, <2>1 DEF Linked
  <1>5. ASSUME NEW i \in DOMAIN stack'[c], NEW k \in DOMAIN stack'[c][i].ctx
        PROVE  stack'[c][i].ctx[k] \in Owns(stack'[c][stack'[c][i].ctx[k].owner])
    <2> DEFINE o == stack'[c][i].ctx[k]
    <2>1. CASE i # n
      <3>1. stack'[c][i] = stack[c][i]
        BY <1>2, <2>1
      <3>2. o.owner \in 1..i /\ o \in Owns(stack[c][o.owner])
        BY <1>2, <1>4, <3>1
      <3>3. o.owner # n /\ o.owner \in DOMAIN stack[c]
        BY <1>1, <1>2, <2>1, <3>2
      <3> QED
        BY <1>2, <3>2, <3>3
    <2>2. CASE i = n
      <3>1. stack'[c][i] = g
        BY <1>2, <2>2
      <3>2. CASE o.owner = n
        BY <1>1, <1>2, <3>1, <3>2 DEF Backed
      <3>3. CASE o.owner # n
        <4>1. PICK l \in DOMAIN f.ctx : f.ctx[l] = o
          BY <3>1, <3>3 DEF Backed
        <4>2. o.owner \in DOMAIN stack[c] /\ o \in Owns(stack[c][o.owner])
          BY <1>1, <1>4, <4>1
        <4> QED
          BY <1>2, <3>3, <4>2
      <3> QED
        BY <3>2, <3>3
    <2> QED
      BY <2>1, <2>2
  <1>7. Linked(c)'
    BY <1>5 DEF Linked, Owns
  <1> QED
    BY <1>3, <1>7

LEMMA FramedReplaced ==
    ASSUME Inv, NEW c \in Clients, stack[c] # <<>>, NEW g \in Frame, SetTop(c, g),
           Shape(g, Len(stack[c])), g.saved = Top(c).saved
    PROVE  Framed' /\ \A d \in Clients : Nested(d)'
  <1> DEFINE n == Len(stack[c])
             f == Top(c)
  <1>1. /\ n \in DOMAIN stack[c] /\ f = stack[c][n] /\ f \in Frame /\ TypeOK /\ n \in Nat /\ n >= 1
        /\ Framed /\ \A d \in Clients : Nested(d)
    BY TopFrame DEF Inv
  <1>2. /\ DOMAIN stack'[c] = DOMAIN stack[c] /\ DOMAIN stack[c] = 1..n
        /\ \A i \in DOMAIN stack[c] : stack'[c][i] = IF i = n THEN g ELSE stack[c][i]
        /\ \A d \in Clients : d # c => stack'[d] = stack[d]
        /\ Len(stack'[c]) = n
    BY <1>1, SetTopStack, TopFrame
  <1>3. Framed'
    <2>1. ASSUME NEW d \in Clients, NEW i \in DOMAIN stack'[d]
          PROVE  Shape(stack'[d][i], i)
      BY <1>1, <1>2, <2>1 DEF Framed
    <2> QED
      BY <2>1 DEF Framed, Shape, Placed, Owned, Phased, Owns, Prof
  <1>4. ASSUME NEW d \in Clients, d # c
        PROVE  Nested(d)'
    <2>1. stack'[d] = stack[d] /\ Nested(d)
      BY <1>1, <1>2, <1>4
    <2> QED
      BY <2>1 DEF Nested, Prof
  <1>5. Nested(c)'
    <2>1. \A i \in DOMAIN stack[c] :
             /\ i < n => stack[c][i].phase = "body"
             /\ i > 1 => stack[c][i].saved = Prof(stack[c][i - 1]).library
      BY <1>1 DEF Nested
    <2>2. ASSUME NEW i \in DOMAIN stack'[c]
          PROVE  /\ i < n => stack'[c][i].phase = "body"
                 /\ i > 1 => stack'[c][i].saved = Prof(stack'[c][i - 1]).library
      <3>1. i < n => stack'[c][i].phase = "body"
        BY <1>1, <1>2, <2>1, <2>2
      <3>2. ASSUME i > 1
            PROVE  stack'[c][i].saved = Prof(stack'[c][i - 1]).library
        <4>1. i - 1 \in DOMAIN stack[c] /\ i - 1 # n
          BY <1>1, <1>2, <2>2, <3>2
        <4>2. stack'[c][i - 1] = stack[c][i - 1]
          BY <1>2, <4>1
        <4>3. stack'[c][i].saved = stack[c][i].saved
          BY <1>1, <1>2, <2>2
        <4> QED
          BY <1>2, <2>1, <2>2, <3>2, <4>2, <4>3
      <3> QED
        BY <3>1, <3>2
    <2> QED
      BY <1>2, <2>2 DEF Nested, Prof
  <1> QED
    BY <1>3, <1>4, <1>5

\* The library a command of this client sees.
Sees(c, g) ==
    \/ /\ scope' = scope
       /\ g.phase \in {"leaf", "run", "body"} => Top(c).phase \in {"leaf", "run", "body"}
    \/ scope' = [scope EXCEPT ![ProcessOf(c)] = Prof(g).library]

LEMMA OneAtATime ==
    ASSUME Inv, NEW c \in Clients, NEW d \in Clients, stack[c] # <<>>, stack[d] # <<>>,
           ProcessOf(c) = ProcessOf(d)
    PROVE  c = d
  <1>1. CASE c \in Server
    <2>1. d \in Server
      BY <1>1, LocksAssumption DEF ProcessOf, Clients
    <2>2. slot = c /\ slot = d
      BY <1>1, <2>1 DEF Inv, Served
    <2> QED
      BY <2>2
  <1>2. CASE c \notin Server
    <2>1. d \notin Server
      BY <1>2 DEF ProcessOf
    <2> QED
      BY <1>2, <2>1 DEF ProcessOf
  <1> QED
    BY <1>1, <1>2

LEMMA ProcessIn ==
    ASSUME NEW c \in Clients
    PROVE  ProcessOf(c) \in Processes /\ c \in ProcessOf(c)
  BY DEF ProcessOf, Processes, Clients

LEMMA StepInv ==
    ASSUME Inv, NEW c \in Clients, stack[c] # <<>>, NEW g \in Frame, SetTop(c, g),
           Shape(g, Len(stack[c])), g.saved = Top(c).saved, g.cmd = Top(c).cmd,
           Backed(c, g), Exchange(c, g), Sees(c, g), UNCHANGED <<slot, request, cancelled>>
    PROVE  Inv'
  <1>1. /\ TypeOK /\ Len(stack[c]) \in DOMAIN stack[c] /\ Top(c) = stack[c][Len(stack[c])]
        /\ Top(c) \in Frame /\ OwnLibrary
    BY TopFrame DEF Inv
  <1>2. /\ stack' \in [Clients -> Seq(Frame)] /\ stack'[c] # <<>> /\ Len(stack'[c]) = Len(stack[c])
        /\ \A i \in DOMAIN stack[c] : stack'[c][i] = IF i = Len(stack[c]) THEN g ELSE stack[c][i]
        /\ \A d \in Clients : d # c => stack'[d] = stack[d]
    BY <1>1, SetTopStack
  <1>3. Prof(g).library \in Libraries
    BY LocksAssumption DEF Prof, Frame, ProfileType
  <1>4. scope' \in [Processes -> Libraries]
    BY <1>1, <1>3, ProcessIn DEF TypeOK, Sees
  <1>5. TypeOK'
    BY <1>1, <1>2, <1>4 DEF TypeOK, Exchange
  <1>6. \A d \in Clients : Served(d)'
    BY <1>2 DEF Inv, Served
  <1>7. Top(c)' = g
    BY <1>1, <1>2 DEF Top, Last
  <1>8. ASSUME NEW d \in Clients, d # c, stack[d] # <<>>
        PROVE  scope'[ProcessOf(d)] = scope[ProcessOf(d)] /\ Top(d)' = Top(d) /\ stack'[d] = stack[d]
    <2>1. ProcessOf(d) # ProcessOf(c)
      BY <1>8, OneAtATime
    <2>2. scope'[ProcessOf(d)] = scope[ProcessOf(d)]
      BY <1>1, <2>1, ProcessIn DEF Sees, TypeOK
    <2> QED
      BY <1>2, <1>8, <2>2 DEF Top
  <1>9. OwnLibrary'
    <2>1. ASSUME NEW d \in Clients, d # c, stack'[d] # <<>>, Top(d)'.phase \in {"leaf", "run", "body"}
          PROVE  scope'[ProcessOf(d)] = Prof(Top(d)').library
      BY <1>1, <1>2, <1>8, <2>1 DEF OwnLibrary
    <2>2. ASSUME g.phase \in {"leaf", "run", "body"}
          PROVE  scope'[ProcessOf(c)] = Prof(g).library
      BY <1>1, <2>2, ProcessIn DEF Sees, OwnLibrary, TypeOK, Prof
    <2>3. ASSUME NEW d \in Clients, stack'[d] # <<>>, Top(d)'.phase \in {"leaf", "run", "body"}
          PROVE  scope'[ProcessOf(d)] = Prof(Top(d)').library
      BY <1>7, <2>1, <2>2, <2>3
    <2> QED
      BY <2>3 DEF OwnLibrary, ProcessOf, Prof
  <1> QED
    BY <1>5, <1>6, <1>9, ChargedReplaced, LinkedReplaced, FramedReplaced DEF Inv

LEMMA TopFacts ==
    ASSUME Inv, NEW c \in Clients, stack[c] # <<>>
    PROVE  /\ Top(c) \in Frame /\ Shape(Top(c), Len(stack[c])) /\ Len(stack[c]) \in Nat /\ Len(stack[c]) >= 1
           /\ Top(c) = stack[c][Len(stack[c])] /\ Len(stack[c]) \in DOMAIN stack[c]
           /\ Top(c).ctx \in Seq(Ownership) /\ Top(c).defers \in Seq(Ownership)
           /\ \A p \in Owes(Top(c)) : holder[p] = c
           /\ \A k \in DOMAIN Top(c).ctx :
                /\ Top(c).ctx[k] \in Ownership /\ Top(c).ctx[k].owner \in 1..Len(stack[c])
                /\ Top(c).ctx[k].below = k - 1
                /\ Top(c).ctx[k].owner = Len(stack[c]) => Top(c).ctx[k] \in Owns(Top(c))
                /\ holder[Top(c).ctx[k].lock] = c
  <1> DEFINE n == Len(stack[c])
             f == Top(c)
  <1>1. /\ f \in Frame /\ n \in Nat /\ n >= 1 /\ f = stack[c][n] /\ n \in DOMAIN stack[c]
        /\ DOMAIN stack[c] = 1..n
    BY TopFrame DEF Inv
  <1>2. Shape(f, n)
    BY <1>1, FrameIn
  <1>3. f.ctx \in Seq(Ownership) /\ f.defers \in Seq(Ownership)
    BY <1>1 DEF Frame
  <1>4. \A p \in Owes(f) : holder[p] = c
    BY <1>1 DEF Inv, Charged
  <1>5. ASSUME NEW k \in DOMAIN f.ctx
        PROVE  /\ f.ctx[k] \in Ownership /\ f.ctx[k].owner \in 1..n /\ f.ctx[k].below = k - 1
               /\ f.ctx[k].owner = n => f.ctx[k] \in Owns(f)
               /\ holder[f.ctx[k].lock] = c
    <2>1. f.ctx[k] \in Ownership /\ f.ctx[k].owner \in 1..n /\ f.ctx[k].below = k - 1
      BY <1>2, <1>3 DEF Shape, Placed
    <2>2. f.ctx[k] \in Owns(stack[c][f.ctx[k].owner])
      BY <1>1 DEF Inv, Linked
    <2>3. f.ctx[k].lock \in Owes(stack[c][f.ctx[k].owner]) /\ f.ctx[k].owner \in DOMAIN stack[c]
      BY <1>1, <2>1, <2>2 DEF Owes
    <2>4. holder[f.ctx[k].lock] = c
      BY <2>3 DEF Inv, Charged
    <2> QED
      BY <1>1, <2>1, <2>2, <2>4
  <1> QED
    BY <1>1, <1>2, <1>3, <1>4, <1>5

\* A frame that goes on with what it has.
LEMMA Keeping ==
    ASSUME Inv, NEW c \in Clients, stack[c] # <<>>, NEW g \in Frame, holder' = holder,
           Owns(g) = Owns(Top(c)), g.spool = Top(c).spool, g.ctx = Top(c).ctx
    PROVE  Exchange(c, g) /\ Backed(c, g) /\ Placed(g, Len(stack[c]))
  <1>1. Owes(g) = Owes(Top(c))
    BY DEF Owes
  <1>2. Exchange(c, g)
    BY <1>1, TopFacts DEF Exchange, Inv, TypeOK
  <1>3. Backed(c, g)
    BY TopFacts DEF Backed
  <1>4. Placed(g, Len(stack[c]))
    BY TopFacts DEF Shape, Placed
  <1> QED
    BY <1>2, <1>3, <1>4

\* A frame that acquires a lock.
LEMMA Taking ==
    ASSUME Inv, NEW c \in Clients, stack[c] # <<>>, NEW g \in Frame, NEW p \in Locks,
           holder[p] = None, holder' = [holder EXCEPT ![p] = c], g.spool = Top(c).spool,
           Owns(g) = Owns(Top(c)) \cup {Acquired(c, p)}, g.ctx = Append(Top(c).ctx, Acquired(c, p))
    PROVE  /\ Exchange(c, g) /\ Backed(c, g) /\ Placed(g, Len(stack[c]))
           /\ Acquired(c, p) \in Ownership /\ p \notin Owes(Top(c)) /\ p # Top(c).spool
           /\ DOMAIN g.ctx = 1..(Len(Top(c).ctx) + 1) /\ g.ctx[Len(Top(c).ctx) + 1] = Acquired(c, p)
           /\ \A k \in DOMAIN Top(c).ctx : k \in DOMAIN g.ctx /\ g.ctx[k] = Top(c).ctx[k]
  <1> DEFINE n == Len(stack[c])
             f == Top(c)
             m == Len(f.ctx)
             own == Acquired(c, p)
  <1>1. /\ f \in Frame /\ f.ctx \in Seq(Ownership) /\ n \in Nat /\ n >= 1 /\ m \in Nat /\ DOMAIN f.ctx = 1..m
        /\ Placed(f, n) /\ n \in 1..n
    BY TopFacts DEF Shape
  <1>2. own \in Ownership /\ own.lock = p /\ own.owner = n /\ own.below = m
    BY <1>1 DEF Acquired, Ownership
  <1>3. None \notin Clients
    BY LocksAssumption
  <1>4. p \notin Owes(f) /\ \A k \in DOMAIN f.ctx : f.ctx[k].lock # p
    BY <1>3, TopFacts
  <1>5. Owes(g) = Owes(f) \cup {p}
    BY <1>2 DEF Owes
  <1>6. Exchange(c, g)
    BY <1>3, <1>4, <1>5, TopFacts DEF Exchange, Inv, TypeOK
  <1>7. /\ DOMAIN g.ctx = 1..(m + 1) /\ g.ctx[m + 1] = own
        /\ \A k \in 1..m : g.ctx[k] = f.ctx[k]
    BY <1>1, <1>2, AppendProperties
  <1>8. Backed(c, g)
    <2>1. ASSUME NEW k \in DOMAIN g.ctx
          PROVE  \/ g.ctx[k].owner = n /\ g.ctx[k] \in Owns(g)
                 \/ g.ctx[k].owner # n /\ \E l \in DOMAIN f.ctx : f.ctx[l] = g.ctx[k]
      <3>1. CASE k = m + 1
        BY <1>2, <1>7, <3>1
      <3>2. CASE k \in 1..m
        BY <1>1, <1>7, <3>2, TopFacts
      <3> QED
        BY <1>1, <1>7, <3>1, <3>2
    <2> QED
      BY <2>1 DEF Backed
  <1>9. Placed(g, n)
    <2>1. ASSUME NEW k \in DOMAIN g.ctx
          PROVE  g.ctx[k].below = k - 1 /\ g.ctx[k].owner \in 1..n /\ (g.ctx[k].lock = p <=> k = m + 1)
      <3>1. CASE k = m + 1
        BY <1>1, <1>2, <1>7, <3>1
      <3>2. CASE k \in 1..m
        BY <1>1, <1>4, <1>7, <3>2 DEF Placed
      <3> QED
        BY <1>1, <1>7, <3>1, <3>2
    <2>2. ASSUME NEW k \in DOMAIN g.ctx, NEW l \in DOMAIN g.ctx, g.ctx[k].lock = g.ctx[l].lock
          PROVE  k = l
      <3>1. CASE g.ctx[k].lock = p
        BY <2>1, <2>2, <3>1
      <3>2. CASE g.ctx[k].lock # p
        <4>1. k # m + 1 /\ l # m + 1
          BY <2>1, <2>2, <3>2
        <4>2. k \in 1..m /\ l \in 1..m
          BY <1>1, <1>7, <4>1
        <4> QED
          BY <1>1, <1>7, <2>2, <4>2 DEF Placed
      <3> QED
        BY <3>1, <3>2
    <2> QED
      BY <2>1, <2>2 DEF Placed
  <1>10. p # f.spool
    BY <1>4, LocksAssumption DEF Owes
  <1> QED
    BY <1>1, <1>2, <1>4, <1>6, <1>7, <1>8, <1>9, <1>10

\* A frame that finishes its last ownership.
LEMMA Dropping ==
    ASSUME Inv, NEW c \in Clients, stack[c] # <<>>, NEW g \in Frame, NEW own \in Owns(Top(c)),
           holder' = [holder EXCEPT ![own.lock] = None], g.spool = Top(c).spool,
           Owns(g) = Owns(Top(c)) \ {own}, g.ctx = SubSeq(Top(c).ctx, 1, own.below),
           \A o \in Owns(g) : o.below < own.below
    PROVE  /\ Exchange(c, g) /\ Backed(c, g) /\ Placed(g, Len(stack[c]))
           /\ \A o \in Owns(g) : o.below + 1 \in DOMAIN g.ctx /\ g.ctx[o.below + 1] = o
  <1> DEFINE n == Len(stack[c])
             f == Top(c)
             b == own.below
  <1>1. /\ f \in Frame /\ f.ctx \in Seq(Ownership) /\ n \in Nat /\ n >= 1 /\ Placed(f, n) /\ Owned(f, n)
        /\ DOMAIN f.ctx = 1..Len(f.ctx) /\ Len(f.ctx) \in Nat
    BY TopFacts DEF Shape
  <1>2. \A o \in Owns(f) : /\ o \in Ownership /\ o.below \in Nat /\ o.owner = n
                           /\ o.below + 1 \in DOMAIN f.ctx /\ f.ctx[o.below + 1] = o /\ o.lock # f.spool
    BY <1>1, OwesLocks DEF Owned, Ownership
  <1>3. b \in Nat /\ b + 1 \in DOMAIN f.ctx /\ f.ctx[b + 1] = own
    BY <1>2
  <1>4. /\ DOMAIN g.ctx = 1..b /\ \A k \in 1..b : g.ctx[k] = f.ctx[k] /\ k \in DOMAIN f.ctx
    <2>1. \A k \in 1..b : k \in DOMAIN f.ctx /\ f.ctx[k] \in Ownership
      BY <1>1, <1>3
    <2>2. /\ SubSeq(f.ctx, 1, b) \in Seq(Ownership)
          /\ Len(SubSeq(f.ctx, 1, b)) = IF 1 <= b THEN b - 1 + 1 ELSE 0
          /\ \A k \in 1..(b - 1 + 1) : SubSeq(f.ctx, 1, b)[k] = f.ctx[1 + k - 1]
      BY <1>3, <2>1, SubSeqProperties
    <2>3. Len(g.ctx) = b /\ DOMAIN g.ctx = 1..b
      BY <1>3, <2>2
    <2>4. ASSUME NEW k \in 1..b
          PROVE  g.ctx[k] = f.ctx[k]
      <3>1. k \in 1..(b - 1 + 1) /\ 1 + k - 1 = k
        BY <1>3
      <3> QED
        BY <2>2, <3>1
    <2> QED
      BY <2>1, <2>3, <2>4
  <1>5. \A o \in Owns(g) : o.below + 1 \in DOMAIN g.ctx /\ g.ctx[o.below + 1] = o
    <2>1. ASSUME NEW o \in Owns(g)
          PROVE  o.below + 1 \in DOMAIN g.ctx /\ g.ctx[o.below + 1] = o
      <3>1. o \in Owns(f) /\ o.below < b
        OBVIOUS
      <3>2. o.below + 1 \in 1..b
        BY <1>2, <1>3, <3>1
      <3> QED
        BY <1>2, <1>4, <3>1, <3>2
    <2> QED
      BY <2>1
  <1>6. Placed(g, n)
    BY <1>1, <1>4 DEF Placed
  <1>7. Backed(c, g)
    <2>1. ASSUME NEW k \in DOMAIN g.ctx
          PROVE  \/ g.ctx[k].owner = n /\ g.ctx[k] \in Owns(g)
                 \/ g.ctx[k].owner # n /\ \E l \in DOMAIN f.ctx : f.ctx[l] = g.ctx[k]
      <3>1. k \in 1..b /\ g.ctx[k] = f.ctx[k] /\ k \in DOMAIN f.ctx
        BY <1>4
      <3>2. f.ctx[k].below = k - 1 /\ k - 1 # b
        BY <1>1, <1>3, <3>1 DEF Placed
      <3>3. f.ctx[k] # own
        BY <3>2
      <3>4. f.ctx[k].owner = n => f.ctx[k] \in Owns(f)
        BY <3>1, TopFacts
      <3> QED
        BY <3>1, <3>3, <3>4
    <2> QED
      BY <2>1 DEF Backed
  <1>8. ASSUME NEW o \in Owns(f), o # own
        PROVE  o.lock # own.lock
    <2>1. o.below + 1 \in DOMAIN f.ctx /\ f.ctx[o.below + 1] = o /\ o.below \in Nat
      BY <1>2, <1>8
    <2>2. ASSUME o.lock = own.lock
          PROVE  FALSE
      <3>1. f.ctx[o.below + 1].lock = f.ctx[b + 1].lock
        BY <1>3, <2>1, <2>2
      <3>2. o.below + 1 = b + 1
        BY <1>1, <1>3, <2>1, <3>1 DEF Placed
      <3> QED
        BY <1>3, <1>8, <2>1, <3>2
    <2> QED
      BY <2>2
  <1>9. Owes(g) = Owes(f) \ {own.lock}
    <2>1. Owes(g) \subseteq Owes(f) \ {own.lock}
      BY <1>2, <1>8 DEF Owes
    <2>2. Owes(f) \ {own.lock} \subseteq Owes(g)
      BY DEF Owes
    <2> QED
      BY <2>1, <2>2
  <1>10. own.lock \in Owes(f) /\ own.lock \in Locks
    BY <1>2 DEF Owes, Ownership
  <1>11. Exchange(c, g)
    BY <1>9, <1>10, TopFacts DEF Exchange, Inv, TypeOK
  <1> QED
    BY <1>5, <1>6, <1>7, <1>11

-----------------------------------------------------------------------------
(* The steps of a command. *)

\* A phase that fails keeps what the frame has deferred.
LEMMA Failing ==
    ASSUME Inv, NEW c \in Clients, stack[c] # <<>>, NEW g \in Frame, holder' = holder,
           Shape(g, Len(stack[c])), Owns(g) = Owns(Top(c)), g.spool = Top(c).spool,
           g.ctx = Top(c).ctx, g.saved = Top(c).saved, g.cmd = Top(c).cmd,
           SetTop(c, g), Sees(c, g), UNCHANGED <<slot, request, cancelled>>
    PROVE  Inv'
  BY Keeping, StepInv

LEMMA UnwindingShape ==
    ASSUME NEW f \in Frame, NEW n \in Nat, Placed(f, n), Owned(f, n), NEW refuser \in Clients \cup {None},
           NEW outcome \in {"ok", "error", "panic"}, NEW g,
           \/ g = Unwinding(f, outcome, f.defers)
           \/ g = [Unwinding(f, outcome, f.defers) EXCEPT !.refusedBy = refuser]
    PROVE  /\ g \in Frame /\ Shape(g, n) /\ Owns(g) = Owns(f) /\ g.spool = f.spool /\ g.ctx = f.ctx
           /\ g.saved = f.saved /\ g.cmd = f.cmd /\ g.phase = "unwind"
  <1>1. f.defers \in Seq(Ownership) /\ \A k \in DOMAIN f.defers : f.defers[k] \in Owns(f)
    BY DEF Frame, Owns
  <1>2. {d.lock : d \in Range(f.defers)} = {f.defers[k].lock : k \in DOMAIN f.defers}
    BY DEF Range
  <1>3. {f.defers[k].lock : k \in DOMAIN f.defers} \in SUBSET Locks
    <2>1. \A k \in DOMAIN f.defers : f.defers[k] \in Ownership
      BY <1>1
    <2>2. \A k \in DOMAIN f.defers : f.defers[k].lock \in Locks
      BY <2>1 DEF Ownership
    <2> QED
      BY <2>2
  <1>4. /\ g.phase = "unwind" /\ g.outcome = outcome /\ g.defers = f.defers
        /\ g.open = {f.defers[k].lock : k \in DOMAIN f.defers} /\ g.ctx = f.ctx /\ g.tracked = f.tracked
        /\ g.spool = f.spool /\ g.saved = f.saved /\ g.cmd = f.cmd
    <2> DEFINE D == {d.lock : d \in Range(f.defers)}
               U == [f EXCEPT !.phase = "unwind", !.outcome = outcome, !.defers = f.defers, !.open = D]
    <2>1. Unwinding(f, outcome, f.defers) = U
      BY DEF Unwinding
    <2>2. D = {f.defers[k].lock : k \in DOMAIN f.defers}
      BY <1>2
    <2> HIDE DEF D
    <2>3. g = U \/ g = [U EXCEPT !.refusedBy = refuser]
      BY <2>1
    <2> QED
      BY <2>2, <2>3 DEF Frame
  <1>5. g \in Frame
    <2> DEFINE D == {d.lock : d \in Range(f.defers)}
               U == [f EXCEPT !.phase = "unwind", !.outcome = outcome, !.defers = f.defers, !.open = D]
    <2>1. D \in SUBSET Locks
      BY <1>2, <1>3
    <2>2. Unwinding(f, outcome, f.defers) = U
      BY DEF Unwinding
    <2> HIDE DEF D
    <2>3. U \in Frame
      BY <2>1, <1>1 DEF Frame
    <2> HIDE DEF U
    <2>4. [U EXCEPT !.refusedBy = refuser] \in Frame
      BY <2>3 DEF Frame
    <2> QED
      BY <2>2, <2>3, <2>4
  <1>6. Owns(g) = Owns(f)
    BY <1>4 DEF Owns
  <1>7. Placed(g, n) /\ Owned(g, n)
    BY <1>4, <1>6 DEF Placed, Owned
  <1>8. \A k \in DOMAIN f.defers : \E l \in DOMAIN f.ctx : f.ctx[l].lock = f.defers[k].lock
    BY <1>1 DEF Owned
  <1>9. Phased(g, n)
    BY <1>4, <1>8 DEF Phased
  <1> QED
    BY <1>4, <1>5, <1>6, <1>7, <1>9 DEF Shape

LEMMA TopShape ==
    ASSUME Inv, NEW c \in Clients, stack[c] # <<>>
    PROVE  /\ Top(c) \in Frame /\ Len(stack[c]) \in Nat
           /\ Placed(Top(c), Len(stack[c])) /\ Owned(Top(c), Len(stack[c])) /\ Phased(Top(c), Len(stack[c]))
  BY TopFacts DEF Shape

LEMMA RefusedInv ==
    ASSUME Inv, NEW c \in Clients, stack[c] # <<>>, NEW p \in Locks, Refused(c, p),
           UNCHANGED <<slot, request, cancelled, scope>>
    PROVE  Inv'
  <1> DEFINE f == Top(c)
             g == [Unwinding(f, "error", f.defers) EXCEPT !.refusedBy = holder[p]]
  <1>1. f \in Frame /\ Len(stack[c]) \in Nat /\ Placed(f, Len(stack[c])) /\ Owned(f, Len(stack[c]))
    BY TopShape
  <1>2. holder[p] \in Clients \cup {None}
    BY DEF Inv, TypeOK
  <1>3. /\ g \in Frame /\ Shape(g, Len(stack[c])) /\ Owns(g) = Owns(f) /\ g.spool = f.spool /\ g.ctx = f.ctx
        /\ g.saved = f.saved /\ g.cmd = f.cmd /\ g.phase = "unwind"
    BY <1>1, <1>2, UnwindingShape
  <1>4. SetTop(c, g) /\ holder' = holder
    BY DEF Refused
  <1> HIDE DEF g
  <1>5. Sees(c, g)
    BY <1>3 DEF Sees
  <1> QED
    BY <1>3, <1>4, <1>5, Failing

LEMMA FailedInv ==
    ASSUME Inv, NEW c \in Clients, stack[c] # <<>>, NEW outcome \in {"ok", "error", "panic"},
           SetTop(c, Unwinding(Top(c), outcome, Top(c).defers)),
           UNCHANGED <<holder, slot, request, cancelled, scope>>
    PROVE  Inv'
  <1> DEFINE f == Top(c)
             g == Unwinding(f, outcome, f.defers)
  <1>1. f \in Frame /\ Len(stack[c]) \in Nat /\ Placed(f, Len(stack[c])) /\ Owned(f, Len(stack[c]))
    BY TopShape
  <1>3. /\ g \in Frame /\ Shape(g, Len(stack[c])) /\ Owns(g) = Owns(f) /\ g.spool = f.spool /\ g.ctx = f.ctx
        /\ g.saved = f.saved /\ g.cmd = f.cmd /\ g.phase = "unwind"
    BY <1>1, UnwindingShape
  <1>4. SetTop(c, g)
    OBVIOUS
  <1> HIDE DEF g
  <1>5. Sees(c, g)
    BY <1>3 DEF Sees
  <1> QED
    BY <1>3, <1>4, <1>5, Failing

LEMMA RefuseEarlyInv ==
    ASSUME Inv, NEW c \in Clients, RefuseEarly(c)
    PROVE  Inv'
  <1>1. stack[c] # <<>> /\ Top(c).phase = "pre"
    BY DEF RefuseEarly, At
  <1>2. Top(c).defers = <<>>
    BY <1>1, TopShape DEF Phased
  <1> QED
    BY <1>1, <1>2, FailedInv DEF RefuseEarly

LEMMA FinishInv ==
    ASSUME Inv, NEW c \in Clients, Finish(c)
    PROVE  Inv'
  BY FailedInv DEF Finish, At

\* A lock taken under a deferred release.
LEMMA TakesShape ==
    ASSUME Inv, NEW c \in Clients, stack[c] # <<>>, NEW g \in Frame, NEW p \in Locks,
           holder[p] = None, holder' = [holder EXCEPT ![p] = c], g.spool = Top(c).spool,
           g.ctx = Append(Top(c).ctx, Acquired(c, p)), g.defers = Append(Top(c).defers, Acquired(c, p)),
           \/ g.tracked = Top(c).tracked /\ (g.tracked # None => Top(c).defers # <<>>)
           \/ Top(c).tracked = None /\ p = Install /\ g.tracked = Acquired(c, p)
    PROVE  /\ Exchange(c, g) /\ Backed(c, g) /\ Placed(g, Len(stack[c])) /\ Owned(g, Len(stack[c]))
           /\ g.defers # <<>>
           /\ Acquired(c, p) \in Ownership
           /\ DOMAIN g.ctx = 1..(Len(Top(c).ctx) + 1) /\ g.ctx[Len(Top(c).ctx) + 1] = Acquired(c, p)
           /\ \A k \in DOMAIN Top(c).ctx : k \in DOMAIN g.ctx /\ g.ctx[k] = Top(c).ctx[k]
  <1> DEFINE n == Len(stack[c])
             f == Top(c)
             m == Len(f.ctx)
             r == Len(f.defers)
             own == Acquired(c, p)
  <1>1. /\ f \in Frame /\ f.ctx \in Seq(Ownership) /\ f.defers \in Seq(Ownership) /\ n \in Nat /\ n >= 1
        /\ m \in Nat /\ DOMAIN f.ctx = 1..m /\ r \in Nat /\ DOMAIN f.defers = 1..r /\ Owned(f, n)
    BY TopFacts DEF Shape
  <1>2. own \in Ownership /\ own.lock = p /\ own.owner = n /\ own.below = m
    BY <1>1 DEF Acquired, Ownership
  <1>3. /\ DOMAIN g.defers = 1..(r + 1) /\ g.defers[r + 1] = own /\ \A k \in 1..r : g.defers[k] = f.defers[k]
    BY <1>1, <1>2, AppendProperties
  <1>4. {g.defers[k] : k \in DOMAIN g.defers} = {f.defers[k] : k \in DOMAIN f.defers} \cup {own}
    <2>1. \A k \in DOMAIN g.defers : k \in 1..r \/ k = r + 1
      BY <1>1, <1>3
    <2>2. \A k \in 1..r : k \in DOMAIN g.defers
      BY <1>1, <1>3
    <2>3. r + 1 \in DOMAIN g.defers
      BY <1>1, <1>3
    <2> QED
      BY <1>1, <1>3, <2>1, <2>2, <2>3
  <1>5. Owns(g) = Owns(f) \cup {own}
    <2>1. None \notin Ownership
      BY LocksAssumption
    <2> QED
      BY <1>2, <1>4, <2>1 DEF Owns
  <1> HIDE DEF own
  <1>6. /\ Exchange(c, g) /\ Backed(c, g) /\ Placed(g, n) /\ p # f.spool
        /\ DOMAIN g.ctx = 1..(m + 1) /\ g.ctx[m + 1] = own
        /\ \A k \in DOMAIN f.ctx : k \in DOMAIN g.ctx /\ g.ctx[k] = f.ctx[k]
    BY <1>5, Taking DEF own
  <1>7. \A o \in Owns(f) : /\ o.owner = n /\ o.below + 1 \in DOMAIN f.ctx /\ f.ctx[o.below + 1] = o
                           /\ o.lock # f.spool /\ o.below \in Nat /\ o.below < m
    BY <1>1, OwesLocks DEF Owned, Ownership
  <1>8. \A o \in Owns(g) : /\ o.owner = n /\ o.below + 1 \in DOMAIN g.ctx /\ g.ctx[o.below + 1] = o
                           /\ o.lock # g.spool
    <2>1. m + 1 \in DOMAIN g.ctx
      BY <1>1, <1>6
    <2> QED
      BY <1>2, <1>5, <1>6, <1>7, <2>1
  <1>9. \A k, l \in DOMAIN g.defers : k < l => g.defers[k].below < g.defers[l].below
    <2>1. ASSUME NEW k \in DOMAIN g.defers, NEW l \in DOMAIN g.defers, k < l
          PROVE  g.defers[k].below < g.defers[l].below
      <3>1. k \in 1..r /\ (l \in 1..r \/ l = r + 1)
        BY <1>1, <1>3, <2>1
      <3>2. CASE l \in 1..r
        BY <1>1, <1>3, <2>1, <3>1, <3>2 DEF Owned
      <3>3. CASE l = r + 1
        <4>1. f.defers[k] \in Owns(f) /\ g.defers[k] = f.defers[k]
          BY <1>1, <1>3, <3>1 DEF Owns
        <4> QED
          BY <1>2, <1>3, <1>7, <3>3, <4>1
      <3> QED
        BY <3>1, <3>2, <3>3
    <2> QED
      BY <2>1
  <1>10. g.tracked # None => g.tracked.lock = Install /\ \E k \in DOMAIN g.defers : g.defers[k] = g.tracked
    <2>1. CASE g.tracked = f.tracked /\ (g.tracked # None => f.defers # <<>>)
      <3>1. ASSUME g.tracked # None
            PROVE  g.tracked.lock = Install /\ \E k \in DOMAIN f.defers : f.defers[k] = g.tracked
        BY <1>1, <2>1, <3>1 DEF Owned
      <3>2. \A k \in DOMAIN f.defers : k \in DOMAIN g.defers /\ g.defers[k] = f.defers[k]
        BY <1>1, <1>3
      <3> QED
        BY <3>1, <3>2
    <2>2. CASE p = Install /\ g.tracked = own
      <3>1. r + 1 \in DOMAIN g.defers
        BY <1>1, <1>3
      <3> QED
        BY <1>2, <1>3, <2>2, <3>1
    <2> QED
      BY <2>1, <2>2 DEF own
  <1>11. Owned(g, n)
    BY <1>8, <1>9, <1>10 DEF Owned
  <1>12. g.defers # <<>>
    BY <1>1, <1>2, AppendProperties DEF own
  <1> QED
    BY <1>2, <1>6, <1>11, <1>12 DEF own

LEMMA PreRunInv ==
    ASSUME Inv, NEW c \in Clients, PreRun(c)
    PROVE  Inv'
  <1> DEFINE f == Top(c)
             n == Len(stack[c])
             e == [f EXCEPT !.phase = "setup"]
             own == Acquired(c, Install)
             g == [[e EXCEPT !.tracked = own]
                     EXCEPT !.ctx = Append(@, own), !.defers = Append(@, own)]
  <1>1. stack[c] # <<>> /\ f.phase = "pre" /\ UNCHANGED <<slot, request, cancelled, scope>>
    BY DEF PreRun, At
  <1>2. /\ f \in Frame /\ n \in Nat /\ Placed(f, n) /\ Owned(f, n) /\ Phased(f, n)
    BY <1>1, TopShape
  <1>3. f.tracked = None /\ f.defers = <<>> /\ f.spool = None /\ f.open = {}
        /\ \A k \in DOMAIN f.ctx : f.ctx[k].owner # n
    <2>1. f.tracked = None /\ f.defers = <<>> /\ f.spool = None /\ f.open = {}
      BY <1>1, <1>2 DEF Phased
    <2>2. \A k \in DOMAIN f.ctx : f.ctx[k].owner = n => f.ctx[k] = None
      BY <1>1, <1>2, <2>1 DEF Phased
    <2>3. \A k \in DOMAIN f.ctx : f.ctx[k] # None
      BY <1>1, TopFacts, LocksAssumption
    <2> QED
      BY <2>1, <2>2, <2>3
  <1>4. \/ SetTop(c, e) /\ holder' = holder
        \/ Prof(f).lock = "body" /\ Takes(c, Install, [e EXCEPT !.tracked = own])
        \/ Refused(c, Install)
    <2>1. Prof(e) = Prof(f)
      BY <1>2 DEF Prof, Frame
    <2> QED
      BY <2>1 DEF PreRun
  <1>5. /\ e \in Frame /\ e.phase = "setup" /\ e.ctx = f.ctx /\ e.defers = f.defers /\ e.tracked = f.tracked
        /\ e.spool = f.spool /\ e.open = f.open /\ e.saved = f.saved /\ e.cmd = f.cmd
    BY <1>2 DEF Frame
  <1>6. CASE SetTop(c, e) /\ holder' = holder
    <2> HIDE DEF e
    <2>1. Owns(e) = Owns(f)
      BY <1>5 DEF Owns
    <2>2. Placed(e, n) /\ Owned(e, n)
      BY <1>2, <1>5, <2>1 DEF Placed, Owned
    <2>3. Phased(e, n)
      BY <1>3, <1>5 DEF Phased
    <2>4. Sees(c, e)
      BY <1>1, <1>5 DEF Sees
    <2> QED
      BY <1>1, <1>5, <1>6, <2>1, <2>2, <2>3, <2>4, Failing DEF Shape
  <1>7. CASE Prof(f).lock = "body" /\ Takes(c, Install, [e EXCEPT !.tracked = own])
    <2>1. /\ holder[Install] = None /\ holder' = [holder EXCEPT ![Install] = c] /\ SetTop(c, g)
      BY <1>7 DEF Takes
    <2>2. own \in Ownership /\ own.lock = Install /\ own.owner = n /\ own.below = Len(f.ctx) /\ Install \in Locks
      BY <1>1, <1>2, TopFacts DEF Acquired, Ownership, Locks
    <2>3. f.ctx \in Seq(Ownership) /\ f.defers \in Seq(Ownership)
      BY <1>1, TopFacts
    <2>4. Append(f.ctx, own) \in Seq(Ownership) /\ Append(f.defers, own) \in Seq(Ownership)
      BY <2>2, <2>3, AppendProperties
    <2> HIDE DEF own
    <2>5. /\ g \in Frame /\ g.phase = "setup" /\ g.ctx = Append(f.ctx, own) /\ g.defers = Append(f.defers, own)
          /\ g.tracked = own /\ g.spool = f.spool /\ g.open = f.open /\ g.saved = f.saved /\ g.cmd = f.cmd
      BY <1>2, <2>2, <2>4 DEF Frame
    <2> HIDE DEF g, e
    <2>6. /\ Exchange(c, g) /\ Backed(c, g) /\ Placed(g, n) /\ Owned(g, n)
          /\ DOMAIN g.ctx = 1..(Len(f.ctx) + 1) /\ g.ctx[Len(f.ctx) + 1] = own
          /\ \A k \in DOMAIN f.ctx : k \in DOMAIN g.ctx /\ g.ctx[k] = f.ctx[k]
      BY <1>1, <1>3, <2>1, <2>2, <2>5, TakesShape DEF own
    <2>7. Len(f.ctx) \in Nat /\ DOMAIN f.ctx = 1..Len(f.ctx) /\ Len(g.ctx) = Len(f.ctx) + 1
      BY <2>2, <2>3, <2>5, AppendProperties
    <2>8. \A k \in DOMAIN g.ctx : g.ctx[k].owner = n => g.ctx[k] = own
      <3>1. \A k \in DOMAIN g.ctx : k \in DOMAIN f.ctx \/ k = Len(f.ctx) + 1
        BY <2>6, <2>7
      <3> QED
        BY <1>3, <2>6, <3>1
    <2>9. Prof(g).lock = "body"
      BY <1>7, <2>5 DEF Prof
    <2>10. Phased(g, n)
      BY <1>3, <2>2, <2>5, <2>7, <2>8, <2>9 DEF Phased
    <2>11. Sees(c, g)
      BY <1>1, <2>5 DEF Sees
    <2> QED
      BY <1>1, <2>1, <2>5, <2>6, <2>10, <2>11, StepInv DEF Shape
  <1>8. CASE Refused(c, Install)
    BY <1>1, <1>8, RefusedInv DEF Locks
  <1> QED
    BY <1>4, <1>6, <1>7, <1>8

\* The hooks before the body hand over the same ownerships.
LEMMA DisarmedOwns ==
    ASSUME Inv, NEW c \in Clients, stack[c] # <<>>, Top(c).phase \in {"setup", "leaf", "run"}
    PROVE  \A k \in DOMAIN Top(c).defers : Top(c).defers[k] = Top(c).tracked /\ Top(c).tracked # None
  <1> DEFINE f == Top(c)
  <1>1. Owned(f, Len(stack[c])) /\ Phased(f, Len(stack[c])) /\ f \in Frame /\ f.defers \in Seq(Ownership)
    BY TopShape, TopFacts
  <1>2. ASSUME NEW k \in DOMAIN f.defers
        PROVE  f.defers[k] = f.tracked /\ f.tracked # None
    <2>1. f.defers[k] \in Owns(f) /\ f.defers[k] \in Ownership
      BY <1>1 DEF Owns
    <2>2. /\ f.defers[k].owner = Len(stack[c])
          /\ f.defers[k].below + 1 \in DOMAIN f.ctx /\ f.ctx[f.defers[k].below + 1] = f.defers[k]
      BY <1>1, <2>1 DEF Owned
    <2>3. f.defers[k] = f.tracked
      BY <1>1, <2>2 DEF Phased
    <2> QED
      BY <2>1, <2>3, LocksAssumption
  <1> QED
    BY <1>2

LEMMA SetupReadyShape ==
    ASSUME Inv, NEW c \in Clients, stack[c] # <<>>, Top(c).phase = "setup", NEW s \in Paths \cup {None},
           \A o \in Owns(Top(c)) : o.lock # s,
           NEW g \in Frame, g.phase = "leaf", g.ctx = Top(c).ctx, g.defers = <<>>, g.spool = s,
           g.tracked = Top(c).tracked, g.open = Top(c).open, g.saved = Top(c).saved, g.cmd = Top(c).cmd
    PROVE  Shape(g, Len(stack[c])) /\ Owns(g) = Owns(Top(c))
  <1> DEFINE f == Top(c)
             n == Len(stack[c])
  <1>1. f \in Frame /\ n \in Nat /\ Placed(f, n) /\ Owned(f, n) /\ Phased(f, n)
    BY TopShape
  <1>2. /\ g.phase = "leaf" /\ g.ctx = f.ctx /\ g.defers = <<>> /\ g.tracked = f.tracked
        /\ g.spool = s /\ g.open = f.open /\ g.saved = f.saved /\ g.cmd = f.cmd
    OBVIOUS
  <1>3. Owns(g) = Owns(f)
    BY <1>2, DisarmedOwns DEF Owns
  <1>4. Placed(g, n) /\ Owned(g, n)
    BY <1>1, <1>2, <1>3 DEF Placed, Owned
  <1>5. Prof(g) = Prof(f)
    BY <1>2 DEF Prof
  <1>6. f.open = {} /\ (\A k \in DOMAIN f.ctx : f.ctx[k].owner = n => f.ctx[k] = f.tracked)
        /\ (f.tracked # None => f.tracked.below + 1 = Len(f.ctx) /\ Prof(f).lock = "body")
    BY <1>1 DEF Phased
  <1>7. Phased(g, n)
    BY <1>2, <1>5, <1>6 DEF Phased
  <1> QED
    BY <1>2, <1>3, <1>4, <1>7 DEF Shape

\* What Setup leaves of the locks, with and without a delivery.
LEMMA SetupExchange ==
    ASSUME Inv, NEW c \in Clients, stack[c] # <<>>, Top(c).phase = "setup", NEW g \in Frame,
           Owns(g) = Owns(Top(c)), g.ctx = Top(c).ctx,
           \/ g.spool = None /\ holder' = holder
           \/ g.spool \in Paths /\ holder[g.spool] = None /\ holder' = [holder EXCEPT ![g.spool] = c]
    PROVE  Exchange(c, g) /\ Backed(c, g)
  <1>1. Top(c).spool = None
    BY TopShape DEF Phased
  <1>2. CASE g.spool = None /\ holder' = holder
    BY <1>1, <1>2, Keeping
  <1>3. CASE g.spool \in Paths /\ holder[g.spool] = None /\ holder' = [holder EXCEPT ![g.spool] = c]
    <2>1. None \notin Clients /\ None \notin Locks /\ g.spool \in Locks
      BY <1>3, LocksAssumption DEF Locks
    <2>2. Owes(g) = Owes(Top(c)) \cup {g.spool}
      BY <1>1, <2>1 DEF Owes
    <2>3. g.spool \notin Owes(Top(c))
      BY <1>3, <2>1, TopFacts
    <2>4. Exchange(c, g)
      BY <1>3, <2>1, <2>2, <2>3, TopFacts DEF Exchange, Inv, TypeOK
    <2>5. Backed(c, g)
      BY TopFacts DEF Backed
    <2> QED
      BY <2>4, <2>5
  <1> QED
    BY <1>2, <1>3

LEMMA SetupFails ==
    ASSUME Inv, NEW c \in Clients, stack[c] # <<>>, Top(c).phase = "setup", NEW s \in Paths \cup {None},
           (s = None /\ holder' = holder)
             \/ (s \in Paths /\ holder[s] = None /\ holder' = [holder EXCEPT ![s] = c]),
           \A o \in Owns(Top(c)) : o.lock # s,
           NEW e \in Frame, e.ctx = Top(c).ctx, e.defers = Top(c).defers, e.tracked = Top(c).tracked,
           e.spool = s, e.saved = Top(c).saved, e.cmd = Top(c).cmd,
           NEW outcome \in {"ok", "error", "panic"}, SetTop(c, Unwinding(e, outcome, e.defers)),
           UNCHANGED <<slot, request, cancelled, scope>>
    PROVE  Inv'
  <1> DEFINE f == Top(c)
             n == Len(stack[c])
             g == Unwinding(e, outcome, e.defers)
  <1>1. n \in Nat /\ Placed(f, n) /\ Owned(f, n)
    BY TopShape
  <1>2. Owns(e) = Owns(f)
    BY DEF Owns
  <1>3. Placed(e, n) /\ Owned(e, n)
    BY <1>1, <1>2 DEF Placed, Owned
  <1>4. /\ g \in Frame /\ Shape(g, n) /\ Owns(g) = Owns(e) /\ g.spool = e.spool /\ g.ctx = e.ctx
        /\ g.saved = e.saved /\ g.cmd = e.cmd /\ g.phase = "unwind"
    BY <1>1, <1>3, UnwindingShape
  <1>5. SetTop(c, g)
    OBVIOUS
  <1> HIDE DEF g
  <1>6. Exchange(c, g) /\ Backed(c, g)
    BY <1>2, <1>4, SetupExchange
  <1>7. Sees(c, g)
    BY <1>4 DEF Sees
  <1> QED
    BY <1>4, <1>5, <1>6, <1>7, StepInv

LEMMA SetupEnds ==
    ASSUME Inv, NEW c \in Clients, stack[c] # <<>>, Top(c).phase = "setup", NEW s \in Paths \cup {None},
           \/ s = None /\ holder' = holder
           \/ s \in Paths /\ holder[s] = None /\ holder' = [holder EXCEPT ![s] = c],
           NEW e, e = [Top(c) EXCEPT !.spool = s],
           \/ /\ SetTop(c, [e EXCEPT !.phase = "leaf", !.defers = <<>>])
              /\ scope' = [scope EXCEPT ![ProcessOf(c)] = Prof(e).library]
           \/ \E outcome \in Failures :
                /\ SetTop(c, Unwinding(e, outcome, e.defers))
                /\ UNCHANGED scope,
           UNCHANGED <<slot, request, cancelled>>
    PROVE  Inv'
  <1> DEFINE f == Top(c)
             n == Len(stack[c])
  <1>1. f \in Frame /\ n \in Nat /\ Placed(f, n) /\ Owned(f, n) /\ Phased(f, n)
    BY TopShape
  <1>2. /\ e \in Frame /\ e.phase = "setup" /\ e.ctx = f.ctx /\ e.defers = f.defers /\ e.tracked = f.tracked
        /\ e.spool = s /\ e.open = f.open /\ e.saved = f.saved /\ e.cmd = f.cmd
    BY <1>1 DEF Frame
  <1>3. \A o \in Owns(f) : o.lock # s
    <2>1. ASSUME NEW o \in Owns(f), o.lock = s
          PROVE  FALSE
      <3>1. o.lock \in Owes(f) /\ o.lock \in Locks
        BY OwesLocks, <1>1 DEF Owes
      <3>2. holder[s] = c
        BY <2>1, <3>1, TopFacts
      <3> QED
        BY <2>1, <3>1, <3>2, LocksAssumption
    <2> QED
      BY <2>1
  <1>4. CASE /\ SetTop(c, [e EXCEPT !.phase = "leaf", !.defers = <<>>])
             /\ scope' = [scope EXCEPT ![ProcessOf(c)] = Prof(e).library]
    <2> DEFINE g == [e EXCEPT !.phase = "leaf", !.defers = <<>>]
    <2>1. <<>> \in Seq(Ownership)
      BY EmptySeq
    <2>2. /\ g \in Frame /\ g.phase = "leaf" /\ g.ctx = f.ctx /\ g.defers = <<>> /\ g.spool = s
          /\ g.tracked = f.tracked /\ g.open = f.open /\ g.saved = f.saved /\ g.cmd = f.cmd
      BY <1>2, <2>1 DEF Frame
    <2> HIDE DEF g
    <2>3. Shape(g, n) /\ Owns(g) = Owns(f)
      BY <1>3, <2>2, SetupReadyShape
    <2>4. Exchange(c, g) /\ Backed(c, g)
      BY <2>2, <2>3, SetupExchange
    <2>5. Sees(c, g)
      BY <1>2, <1>4, <2>2 DEF Sees, Prof
    <2>6. SetTop(c, g)
      BY <1>4 DEF g
    <2> QED
      BY <2>2, <2>3, <2>4, <2>5, <2>6, StepInv
  <1>5. CASE \E outcome \in Failures : SetTop(c, Unwinding(e, outcome, e.defers)) /\ UNCHANGED scope
    <2>1. PICK outcome \in {"ok", "error", "panic"} : SetTop(c, Unwinding(e, outcome, e.defers)) /\ UNCHANGED scope
      BY <1>5 DEF Failures
    <2> QED
      BY <1>2, <1>3, <2>1, SetupFails
  <1> QED
    BY <1>4, <1>5

LEMMA SetupInv ==
    ASSUME Inv, NEW c \in Clients, Setup(c)
    PROVE  Inv'
  <1> DEFINE f == Top(c)
             d == Prof(f).deliver
             Ready(g) ==
               \/ /\ SetTop(c, [g EXCEPT !.phase = "leaf", !.defers = <<>>])
                  /\ scope' = [scope EXCEPT ![ProcessOf(c)] = Prof(g).library]
               \/ \E outcome \in Failures :
                    /\ SetTop(c, Unwinding(g, outcome, g.defers))
                    /\ UNCHANGED scope
  <1>1. stack[c] # <<>> /\ f.phase = "setup" /\ UNCHANGED <<slot, request, cancelled>>
    BY DEF Setup, At
  <1>2. f \in Frame /\ f.spool = None
    BY <1>1, TopShape DEF Phased
  <1>3. d \in Paths \cup {None}
    BY <1>2, LocksAssumption DEF Prof, Frame, ProfileType
  <1>4. \/ d = None /\ Ready(f) /\ holder' = holder
        \/ d # None /\ holder[d] = None /\ holder' = [holder EXCEPT ![d] = c] /\ Ready([f EXCEPT !.spool = d])
        \/ d # None /\ Refused(c, d) /\ UNCHANGED scope
    BY DEF Setup
  <1>5. CASE d = None /\ Ready(f) /\ holder' = holder
    <2>1. f = [f EXCEPT !.spool = None]
      BY <1>2 DEF Frame
    <2> QED
      BY <1>1, <1>5, <2>1, SetupEnds
  <1>6. CASE d # None /\ holder[d] = None /\ holder' = [holder EXCEPT ![d] = c] /\ Ready([f EXCEPT !.spool = d])
    <2>1. d \in Paths
      BY <1>3, <1>6
    <2> HIDE DEF d
    <2> QED
      BY <1>1, <1>6, <2>1, SetupEnds
  <1>7. CASE d # None /\ Refused(c, d) /\ UNCHANGED scope
    <2>1. d \in Locks
      BY <1>3, <1>7 DEF Locks
    <2> QED
      BY <1>1, <1>7, <2>1, RefusedInv
  <1> QED
    BY <1>4, <1>5, <1>6, <1>7

LEMMA HandoffIs ==
    ASSUME Inv, NEW c \in Clients, stack[c] # <<>>, Top(c).phase \in {"leaf", "run"}
    PROVE  /\ Handoff(c) = <<>> \/ (Handoff(c) = <<Top(c).tracked>> /\ Top(c).tracked # None)
           /\ Handoff(c) = <<>> => Top(c).tracked = None
           /\ Handoff(c) # <<>> => \E k \in DOMAIN Top(c).ctx : Top(c).ctx[k].lock = Install
  <1> DEFINE f == Top(c)
             n == Len(stack[c])
             m == Len(f.ctx)
  <1>1. /\ f.ctx \in Seq(Ownership) /\ DOMAIN f.ctx = 1..m /\ m \in Nat /\ Owned(f, n) /\ Phased(f, n)
        /\ f.tracked \in Ownership \cup {None}
    BY TopShape, TopFacts DEF Frame
  <1>2. ASSUME f.ctx # <<>>
        PROVE  m \in DOMAIN f.ctx /\ Last(f.ctx) = f.ctx[m] /\ f.ctx[m] \in Ownership
    BY <1>1, <1>2, EmptySeq DEF Last
  <1>3. ASSUME Handoff(c) # <<>>
        PROVE  /\ Handoff(c) = <<f.tracked>> /\ f.tracked # None
               /\ \E k \in DOMAIN f.ctx : f.ctx[k].lock = Install
    <2>1. f.ctx # <<>> /\ Handoff(c) = <<f.ctx[m]>> /\ f.ctx[m].owner = n /\ f.ctx[m].lock = Install
      BY <1>2, <1>3 DEF Handoff
    <2>2. f.ctx[m] = f.tracked
      BY <1>1, <1>2, <2>1 DEF Phased
    <2> QED
      BY <1>2, <2>1, <2>2, LocksAssumption
  <1>4. ASSUME f.tracked # None
        PROVE  Handoff(c) # <<>>
    <2>1. /\ f.tracked \in Owns(f) /\ f.tracked.below + 1 = m /\ f.tracked.lock = Install
      BY <1>1, <1>4 DEF Owns, Phased, Owned
    <2>2. m \in DOMAIN f.ctx /\ f.ctx[m] = f.tracked /\ f.tracked.owner = n
      BY <1>1, <2>1 DEF Owned
    <2>3. f.ctx # <<>>
      BY <2>2
    <2>4. Handoff(c) = <<f.ctx[m]>>
      BY <1>2, <2>1, <2>2, <2>3 DEF Handoff
    <2> QED
      BY <2>4
  <1>5. Handoff(c) = <<>> \/ (Handoff(c) = <<f.tracked>> /\ f.tracked # None)
    BY <1>3
  <1>6. Handoff(c) = <<>> => f.tracked = None
    BY <1>4
  <1>7. Handoff(c) # <<>> => \E k \in DOMAIN f.ctx : f.ctx[k].lock = Install
    BY <1>3
  <1> QED
    BY <1>5, <1>6, <1>7

\* A frame that takes its handoff back into the deferred releases.
LEMMA RearmedShape ==
    ASSUME Inv, NEW c \in Clients, stack[c] # <<>>, Top(c).phase \in {"leaf", "run"}, NEW ds,
           ds = <<>> \/ ds = Handoff(c),
           NEW g, g.ctx = Top(c).ctx, g.defers = ds, g.tracked = Top(c).tracked, g.spool = Top(c).spool
    PROVE  /\ Owns(g) = Owns(Top(c)) /\ Placed(g, Len(stack[c])) /\ Owned(g, Len(stack[c]))
           /\ ds \in Seq(Ownership) /\ \A k \in DOMAIN ds : ds[k].lock = Install
           /\ ds # <<>> => \E k \in DOMAIN Top(c).ctx : Top(c).ctx[k].lock = Install
  <1> DEFINE f == Top(c)
             n == Len(stack[c])
  <1>1. f \in Frame /\ n \in Nat /\ Placed(f, n) /\ Owned(f, n) /\ Phased(f, n)
    BY TopShape
  <1>2. f.defers = <<>>
    BY <1>1 DEF Phased
  <1>3. ds = <<>> \/ (ds = <<f.tracked>> /\ f.tracked # None)
    BY HandoffIs
  <1>4. Owns(f) = {f.tracked} \ {None}
    BY <1>2 DEF Owns
  <1>6. \A k \in DOMAIN ds : k = 1 /\ ds[k] = f.tracked /\ f.tracked # None
    <2>1. CASE ds = <<>>
      BY <2>1
    <2>2. CASE ds = <<f.tracked>> /\ f.tracked # None
      BY <2>2
    <2> QED
      BY <1>3, <2>1, <2>2
  <1>5. Owns(g) = Owns(f)
    <2>1. Owns(g) = {ds[k] : k \in DOMAIN ds} \cup ({f.tracked} \ {None})
      BY DEF Owns
    <2> QED
      BY <1>4, <1>6, <2>1
  <1>7. Placed(g, n)
    BY <1>1 DEF Placed
  <1>8. Owned(g, n)
    <2>1. \A o \in Owns(g) : /\ o.owner = n /\ o.below + 1 \in DOMAIN g.ctx /\ g.ctx[o.below + 1] = o
                             /\ o.lock # g.spool
      BY <1>1, <1>5 DEF Owned
    <2>2. \A k, l \in DOMAIN g.defers : ~(k < l)
      BY <1>6
    <2>3. g.tracked # None => g.tracked.lock = Install
      BY <1>1 DEF Owned
    <2>4. g.defers = <<>> \/ \E k \in DOMAIN g.defers : g.defers[k] = g.tracked
      BY <1>3
    <2> QED
      BY <2>1, <2>2, <2>3, <2>4 DEF Owned
  <1>9. f.tracked # None => f.tracked.lock = Install /\ f.tracked \in Ownership
    BY <1>1 DEF Owned, Frame
  <1>10. ds \in Seq(Ownership)
    <2>1. CASE ds = <<>>
      BY <2>1, EmptySeq
    <2>2. CASE ds = <<f.tracked>> /\ f.tracked # None
      BY <1>9, <2>2
    <2> QED
      BY <1>3, <2>1, <2>2
  <1>11. ds # <<>> => \E k \in DOMAIN f.ctx : f.ctx[k].lock = Install
    BY HandoffIs
  <1> QED
    BY <1>5, <1>6, <1>7, <1>8, <1>9, <1>10, <1>11

\* A step of the hooks and the wrapper that only moves the handoff.
LEMMA Moved ==
    ASSUME Inv, NEW c \in Clients, stack[c] # <<>>, Top(c).phase \in {"leaf", "run"}, NEW ds,
           ds = <<>> \/ ds = Handoff(c), NEW g \in Frame, SetTop(c, g),
           g.ctx = Top(c).ctx, g.defers = ds, g.tracked = Top(c).tracked, g.spool = Top(c).spool,
           g.saved = Top(c).saved, g.cmd = Top(c).cmd, Phased(g, Len(stack[c])),
           UNCHANGED <<holder, slot, request, cancelled, scope>>
    PROVE  Inv'
  <1>1. Owns(g) = Owns(Top(c)) /\ Placed(g, Len(stack[c])) /\ Owned(g, Len(stack[c]))
    BY RearmedShape
  <1>2. Shape(g, Len(stack[c])) /\ Sees(c, g)
    BY <1>1 DEF Shape, Sees
  <1> QED
    BY <1>1, <1>2, Failing

LEMMA LeafPreRunInv ==
    ASSUME Inv, NEW c \in Clients, LeafPreRun(c)
    PROVE  Inv'
  <1> DEFINE f == Top(c)
             n == Len(stack[c])
  <1>1. stack[c] # <<>> /\ f.phase = "leaf" /\ UNCHANGED <<holder, slot, request, cancelled, scope>>
    BY DEF LeafPreRun, At
  <1>2. f \in Frame /\ n \in Nat /\ Placed(f, n) /\ Owned(f, n) /\ Phased(f, n)
    BY <1>1, TopShape
  <1>3. CASE SetTop(c, [f EXCEPT !.phase = "run"])
    <2> DEFINE g == [f EXCEPT !.phase = "run"]
    <2>1. /\ g \in Frame /\ g.phase = "run" /\ g.ctx = f.ctx /\ g.defers = f.defers /\ g.tracked = f.tracked
          /\ g.spool = f.spool /\ g.open = f.open /\ g.saved = f.saved /\ g.cmd = f.cmd
      BY <1>2 DEF Frame
    <2>2. SetTop(c, g)
      BY <1>3
    <2> HIDE DEF g
    <2>3. Phased(g, n) /\ g.defers = <<>>
      BY <1>1, <1>2, <2>1 DEF Phased, Prof
    <2> QED
      BY <1>1, <2>1, <2>2, <2>3, Moved
  <1>4. ASSUME NEW outcome \in Failures, NEW ds, ds = <<>> \/ ds = Handoff(c), SetTop(c, Unwinding(f, outcome, ds))
        PROVE  Inv'
    <2> DEFINE g == Unwinding(f, outcome, ds)
    <2>1. /\ ds \in Seq(Ownership) /\ \A k \in DOMAIN ds : ds[k].lock = Install
          /\ ds # <<>> => \E k \in DOMAIN f.ctx : f.ctx[k].lock = Install
      <3>1. f.ctx = f.ctx /\ [f EXCEPT !.defers = ds].ctx = f.ctx /\ [f EXCEPT !.defers = ds].defers = ds
            /\ [f EXCEPT !.defers = ds].tracked = f.tracked /\ [f EXCEPT !.defers = ds].spool = f.spool
        BY <1>2 DEF Frame
      <3> QED
        BY <1>1, <1>4, <3>1, RearmedShape
    <2>2. {d.lock : d \in Range(ds)} = {ds[k].lock : k \in DOMAIN ds}
      BY DEF Range
    <2>3. {ds[k].lock : k \in DOMAIN ds} \in SUBSET Locks
      BY <2>1 DEF Locks
    <2>4. outcome \in {"ok", "error", "panic"}
      BY <1>4 DEF Failures
    <2>5. /\ g \in Frame /\ g.phase = "unwind" /\ g.ctx = f.ctx /\ g.defers = ds /\ g.tracked = f.tracked
          /\ g.spool = f.spool /\ g.open = {ds[k].lock : k \in DOMAIN ds} /\ g.saved = f.saved /\ g.cmd = f.cmd
      BY <1>2, <2>1, <2>2, <2>3, <2>4 DEF Unwinding, Frame
    <2>6. SetTop(c, g)
      BY <1>4
    <2> HIDE DEF g
    <2>7. \A k \in DOMAIN ds : \E l \in DOMAIN f.ctx : f.ctx[l].lock = ds[k].lock
      <3>1. ASSUME NEW k \in DOMAIN ds
            PROVE  \E l \in DOMAIN f.ctx : f.ctx[l].lock = ds[k].lock
        BY <2>1, <3>1
      <3> QED
        BY <3>1
    <2>8. Phased(g, n)
      BY <2>5, <2>7 DEF Phased
    <2> QED
      BY <1>1, <1>4, <2>5, <2>6, <2>8, Moved
  <1>5. \/ SetTop(c, [f EXCEPT !.phase = "run"])
        \/ \E outcome \in Failures : SetTop(c, Unwinding(f, outcome, Handoff(c)))
        \/ \E outcome \in Failures : SetTop(c, Unwinding(f, outcome, <<>>))
    BY DEF LeafPreRun
  <1> QED
    BY <1>3, <1>4, <1>5

LEMMA EnterBodyInv ==
    ASSUME Inv, NEW c \in Clients, EnterBody(c)
    PROVE  Inv'
  <1> DEFINE f == Top(c)
             n == Len(stack[c])
  <1>1. stack[c] # <<>> /\ f.phase = "run" /\ UNCHANGED <<holder, slot, request, cancelled, scope>>
    BY DEF EnterBody, At
  <1>2. f \in Frame /\ n \in Nat /\ Placed(f, n) /\ Owned(f, n) /\ Phased(f, n) /\ f.defers = <<>> /\ f.open = {}
    <2>1. f \in Frame /\ n \in Nat /\ Placed(f, n) /\ Owned(f, n) /\ Phased(f, n)
      BY <1>1, TopShape
    <2> QED
      BY <1>1, <2>1 DEF Phased
  <1>3. CASE /\ Handoff(c) # <<>>
             /\ SetTop(c, [f EXCEPT !.phase = "body", !.defers = Handoff(c), !.open = {Install}])
    <2> DEFINE ds == Handoff(c)
               g == [f EXCEPT !.phase = "body", !.defers = ds, !.open = {Install}]
    <2>1. ds = <<f.tracked>> /\ f.tracked # None /\ \E k \in DOMAIN f.ctx : f.ctx[k].lock = Install
      BY <1>1, <1>3, HandoffIs
    <2>2. ds \in Seq(Ownership)
      BY <1>2, <2>1 DEF Frame
    <2> HIDE DEF ds
    <2>3. /\ g \in Frame /\ g.phase = "body" /\ g.ctx = f.ctx /\ g.defers = ds /\ g.tracked = f.tracked
          /\ g.spool = f.spool /\ g.open = {Install} /\ g.saved = f.saved /\ g.cmd = f.cmd
      BY <1>2, <2>2 DEF Frame, Locks
    <2>4. SetTop(c, g)
      BY <1>3 DEF ds
    <2> HIDE DEF g
    <2>5. Phased(g, n)
      BY <1>3, <2>1, <2>3 DEF Phased, ds
    <2> QED
      BY <1>1, <2>3, <2>4, <2>5, Moved DEF ds
  <1>4. CASE /\ Prof(f).lock # "body" \/ Handoff(c) = <<>>
             /\ SetTop(c, [f EXCEPT !.phase = "body"])
    <2> DEFINE g == [f EXCEPT !.phase = "body"]
    <2>1. f.tracked = None
      <3>1. f.tracked # None => Prof(f).lock = "body"
        BY <1>1, <1>2 DEF Phased
      <3> QED
        BY <1>1, <1>4, <3>1, HandoffIs
    <2>2. /\ g \in Frame /\ g.phase = "body" /\ g.ctx = f.ctx /\ g.defers = f.defers /\ g.tracked = f.tracked
          /\ g.spool = f.spool /\ g.open = f.open /\ g.saved = f.saved /\ g.cmd = f.cmd
      BY <1>2 DEF Frame
    <2>3. SetTop(c, g)
      BY <1>4
    <2> HIDE DEF g
    <2>4. Phased(g, n)
      BY <1>2, <2>1, <2>2 DEF Phased
    <2> QED
      BY <1>1, <1>2, <2>2, <2>3, <2>4, Moved
  <1>5. \/ /\ Handoff(c) # <<>>
           /\ SetTop(c, [f EXCEPT !.phase = "body", !.defers = Handoff(c), !.open = {Install}])
        \/ /\ Prof(f).lock # "body" \/ Handoff(c) = <<>>
           /\ SetTop(c, [f EXCEPT !.phase = "body"])
    BY DEF EnterBody
  <1> QED
    BY <1>3, <1>4, <1>5

LEMMA OpenNextInv ==
    ASSUME Inv, NEW c \in Clients, OpenNext(c)
    PROVE  Inv'
  <1> DEFINE f == Top(c)
             n == Len(stack[c])
  <1>1. stack[c] # <<>> /\ f.phase = "body" /\ UNCHANGED <<slot, request, cancelled, scope>>
    BY DEF OpenNext, At
  <1>2. f \in Frame /\ n \in Nat /\ Placed(f, n) /\ Owned(f, n) /\ Phased(f, n)
    BY <1>1, TopShape
  <1>3. PICK p \in StillWanted(f) : OpenTransaction(c, p)
    BY DEF OpenNext
  <1>4. p \in Locks
    <2>1. Prof(f) \in ProfileType
      BY <1>2, LocksAssumption DEF Prof, Frame
    <2>2. Prof(f).output \subseteq Paths /\ Prof(f).sidecars \subseteq Paths
      BY <2>1 DEF ProfileType
    <2> QED
      BY <2>2 DEF StillWanted, Wanted, Locks
  <1> DEFINE e == [f EXCEPT !.open = @ \cup {p}]
             own == Acquired(c, p)
             g == [e EXCEPT !.ctx = Append(@, own), !.defers = Append(@, own)]
  <1>5. /\ e \in Frame /\ e.phase = "body" /\ e.ctx = f.ctx /\ e.defers = f.defers /\ e.tracked = f.tracked
        /\ e.spool = f.spool /\ e.open = f.open \cup {p} /\ e.saved = f.saved /\ e.cmd = f.cmd
    BY <1>1, <1>2, <1>4 DEF Frame
  <1>6. CASE Held(e, p) /\ SetTop(c, e) /\ UNCHANGED holder
    <2> HIDE DEF e
    <2>1. Owns(e) = Owns(f)
      BY <1>5 DEF Owns
    <2>2. Placed(e, n) /\ Owned(e, n)
      BY <1>2, <1>5, <2>1 DEF Placed, Owned
    <2>3. \E k \in DOMAIN e.ctx : e.ctx[k].lock = p
      BY <1>6 DEF Held
    <2>4. Phased(e, n)
      BY <1>1, <1>2, <1>5, <2>3 DEF Phased
    <2>5. Sees(c, e)
      BY <1>1, <1>5 DEF Sees
    <2> QED
      BY <1>1, <1>5, <1>6, <2>1, <2>2, <2>4, <2>5, Failing DEF Shape
  <1>7. CASE Takes(c, p, e)
    <2>1. /\ holder[p] = None /\ holder' = [holder EXCEPT ![p] = c] /\ SetTop(c, g)
      BY <1>7 DEF Takes
    <2>2. own \in Ownership /\ own.lock = p /\ own.owner = n /\ own.below = Len(f.ctx)
      BY <1>1, <1>2, <1>4, TopFacts DEF Acquired, Ownership
    <2>3. f.ctx \in Seq(Ownership) /\ f.defers \in Seq(Ownership)
      BY <1>1, TopFacts
    <2>4. Append(f.ctx, own) \in Seq(Ownership) /\ Append(f.defers, own) \in Seq(Ownership)
      BY <2>2, <2>3, AppendProperties
    <2> HIDE DEF own, e
    <2>5. /\ g \in Frame /\ g.phase = "body" /\ g.ctx = Append(f.ctx, own) /\ g.defers = Append(f.defers, own)
          /\ g.tracked = f.tracked /\ g.spool = f.spool /\ g.open = f.open \cup {p} /\ g.saved = f.saved
          /\ g.cmd = f.cmd
      BY <1>5, <2>2, <2>4 DEF Frame
    <2> HIDE DEF g
    <2>6. f.tracked # None => f.defers # <<>>
      BY <1>1, <1>2 DEF Phased
    <2>7. /\ Exchange(c, g) /\ Backed(c, g) /\ Placed(g, n) /\ Owned(g, n) /\ g.defers # <<>>
          /\ DOMAIN g.ctx = 1..(Len(f.ctx) + 1) /\ g.ctx[Len(f.ctx) + 1] = own
          /\ \A k \in DOMAIN f.ctx : k \in DOMAIN g.ctx /\ g.ctx[k] = f.ctx[k]
      BY <1>1, <1>4, <2>1, <2>2, <2>5, <2>6, TakesShape DEF own
    <2>8. \E k \in DOMAIN g.ctx : g.ctx[k].lock = p
      <3>1. Len(f.ctx) + 1 \in DOMAIN g.ctx
        BY <2>3, <2>7
      <3> QED
        BY <2>2, <2>7, <3>1
    <2>9. \A q \in f.open : \E k \in DOMAIN g.ctx : g.ctx[k].lock = q
      <3>1. \A q \in f.open : \E k \in DOMAIN f.ctx : f.ctx[k].lock = q
        BY <1>2 DEF Phased
      <3> QED
        BY <2>7, <3>1
    <2>10. Phased(g, n)
      BY <2>5, <2>7, <2>8, <2>9 DEF Phased
    <2>11. Sees(c, g)
      BY <1>1, <2>5 DEF Sees
    <2> QED
      BY <1>1, <2>1, <2>5, <2>7, <2>10, <2>11, StepInv DEF Shape
  <1>8. CASE Refused(c, p)
    BY <1>1, <1>4, <1>8, RefusedInv
  <1>9. \/ Held(e, p) /\ SetTop(c, e) /\ UNCHANGED holder
        \/ Takes(c, p, e)
        \/ Refused(c, p)
    BY <1>3 DEF OpenTransaction
  <1> QED
    BY <1>6, <1>7, <1>8, <1>9

LEMMA RunDeferredInv ==
    ASSUME Inv, NEW c \in Clients, RunDeferred(c)
    PROVE  Inv'
  <1> DEFINE f == Top(c)
             n == Len(stack[c])
             r == Len(f.defers)
             own == Last(f.defers)
             g == [Released(f, own) EXCEPT !.defers = Front(@)]
  <1>1. stack[c] # <<>> /\ f.phase = "unwind" /\ f.defers # <<>> /\ UNCHANGED <<slot, request, cancelled, scope>>
        /\ SetTop(c, g) /\ holder' = [holder EXCEPT ![own.lock] = None]
    BY DEF RunDeferred, At
  <1>2. /\ f \in Frame /\ n \in Nat /\ Placed(f, n) /\ Owned(f, n) /\ Phased(f, n)
        /\ f.ctx \in Seq(Ownership) /\ f.defers \in Seq(Ownership)
    BY <1>1, TopShape, TopFacts
  <1>3. r \in Nat /\ r >= 1 /\ DOMAIN f.defers = 1..r /\ r \in DOMAIN f.defers /\ own = f.defers[r]
    BY <1>1, <1>2, EmptySeq DEF Last
  <1>4. /\ Front(f.defers) \in Seq(Ownership) /\ DOMAIN Front(f.defers) = 1..(r - 1)
        /\ \A k \in 1..(r - 1) : Front(f.defers)[k] = f.defers[k]
    BY <1>1, <1>2, FrontShape
  <1>5. own \in Owns(f) /\ own \in Ownership /\ own.below \in Nat /\ own.lock \in Locks
        /\ own.below + 1 \in DOMAIN f.ctx
    <2>1. own \in Owns(f) /\ own \in Ownership
      BY <1>2, <1>3 DEF Owns
    <2> QED
      BY <1>2, <2>1 DEF Owned, Ownership
  <1>6. SubSeq(f.ctx, 1, own.below) \in Seq(Ownership)
    <2>1. \A k \in 1..own.below : f.ctx[k] \in Ownership
      <3>1. \A k \in 1..own.below : k \in DOMAIN f.ctx
        BY <1>2, <1>5
      <3> QED
        BY <1>2, <3>1
    <2> QED
      BY <1>5, <2>1, SubSeqProperties
  <1>7. /\ g \in Frame /\ g.phase = f.phase /\ g.ctx = SubSeq(f.ctx, 1, own.below) /\ g.defers = Front(f.defers)
        /\ g.tracked = (IF f.tracked = own THEN None ELSE f.tracked)
        /\ g.spool = f.spool /\ g.open = f.open \ {own.lock} /\ g.saved = f.saved /\ g.cmd = f.cmd
    <2> HIDE DEF own
    <2> QED
      BY <1>2, <1>4, <1>6 DEF Frame, Released
  <1> HIDE DEF g, own
  <1>8. \A k \in 1..(r - 1) : f.defers[k].below < own.below /\ f.defers[k] \in Owns(f) /\ f.defers[k] # own
    <2>1. ASSUME NEW k \in 1..(r - 1)
          PROVE  f.defers[k].below < own.below /\ f.defers[k] \in Owns(f)
      <3>1. k \in DOMAIN f.defers /\ k < r
        BY <1>3
      <3> QED
        BY <1>2, <1>3, <3>1 DEF Owned, Owns
    <2> QED
      BY <1>5, <2>1
  <1>9. ASSUME g.tracked # None
        PROVE  \E k \in 1..(r - 1) : g.tracked = f.defers[k]
    <2>1. g.tracked = f.tracked /\ f.tracked # own
      BY <1>7, <1>9
    <2>2. \E k \in DOMAIN f.defers : f.defers[k] = f.tracked
      BY <1>1, <1>2, <1>9, <2>1 DEF Owned
    <2> QED
      BY <1>3, <2>1, <2>2
  <1>10. Owns(g) = {f.defers[k] : k \in 1..(r - 1)}
    <2>1. {g.defers[k] : k \in DOMAIN g.defers} = {f.defers[k] : k \in 1..(r - 1)}
      BY <1>4, <1>7
    <2> QED
      BY <1>9, <2>1 DEF Owns
  <1>11. Owns(g) = Owns(f) \ {own}
    <2>1. Owns(f) = {f.defers[k] : k \in DOMAIN f.defers}
      BY <1>1, <1>2 DEF Owns, Owned
    <2>2. \A k \in DOMAIN f.defers : k \in 1..(r - 1) \/ f.defers[k] = own
      BY <1>3
    <2> QED
      BY <1>3, <1>8, <1>10, <2>1, <2>2
  <1>12. \A o \in Owns(g) : o.below < own.below
    BY <1>8, <1>10
  <1>13. /\ Exchange(c, g) /\ Backed(c, g) /\ Placed(g, n)
         /\ \A o \in Owns(g) : o.below + 1 \in DOMAIN g.ctx /\ g.ctx[o.below + 1] = o
    BY <1>1, <1>5, <1>7, <1>11, <1>12, Dropping
  <1>14. Owned(g, n)
    <2>1. \A o \in Owns(g) : o.owner = n /\ o.lock # g.spool
      BY <1>2, <1>7, <1>11 DEF Owned
    <2>2. \A k, l \in DOMAIN g.defers : k < l => g.defers[k].below < g.defers[l].below
      <3>1. \A k \in DOMAIN g.defers : k \in DOMAIN f.defers /\ g.defers[k] = f.defers[k]
        BY <1>3, <1>4, <1>7
      <3> QED
        BY <1>2, <3>1 DEF Owned
    <2>3. g.tracked # None => g.tracked.lock = Install
      BY <1>2, <1>7 DEF Owned
    <2>4. g.tracked # None => \E k \in DOMAIN g.defers : g.defers[k] = g.tracked
      BY <1>4, <1>7, <1>9
    <2> QED
      BY <1>13, <2>1, <2>2, <2>3, <2>4 DEF Owned
  <1>15. g.open \subseteq {g.defers[k].lock : k \in DOMAIN g.defers}
    <2>1. ASSUME NEW p \in g.open
          PROVE  \E k \in DOMAIN g.defers : g.defers[k].lock = p
      <3>1. p \in f.open /\ p # own.lock
        BY <1>7
      <3>2. PICK k \in DOMAIN f.defers : f.defers[k].lock = p
        BY <1>1, <1>2, <3>1 DEF Phased
      <3>3. k \in 1..(r - 1)
        BY <1>3, <3>1, <3>2
      <3> QED
        BY <1>4, <1>7, <3>2, <3>3
    <2> QED
      BY <2>1
  <1>16. g.open \subseteq {g.ctx[k].lock : k \in DOMAIN g.ctx}
    <2>1. \A k \in DOMAIN g.defers : g.defers[k] \in Owns(g)
      BY DEF Owns
    <2>2. \A k \in DOMAIN g.defers : \E l \in DOMAIN g.ctx : g.ctx[l].lock = g.defers[k].lock
      BY <1>13, <2>1
    <2> QED
      BY <1>15, <2>2
  <1>17. Phased(g, n)
    BY <1>1, <1>7, <1>15, <1>16 DEF Phased
  <1>18. Sees(c, g)
    BY <1>1, <1>7 DEF Sees
  <1> QED
    BY <1>1, <1>7, <1>13, <1>14, <1>17, <1>18, StepInv DEF Shape

LEMMA BackstopInv ==
    ASSUME Inv, NEW c \in Clients, Backstop(c)
    PROVE  Inv'
  <1> DEFINE f == Top(c)
             n == Len(stack[c])
             own == f.tracked
             g == Released(f, own)
  <1>1. /\ stack[c] # <<>> /\ f.phase = "unwind" /\ f.defers = <<>> /\ f.spool = None /\ own # None
        /\ UNCHANGED <<slot, request, cancelled, scope>>
        /\ SetTop(c, g) /\ holder' = [holder EXCEPT ![own.lock] = None]
    BY DEF Backstop, AtBoundary, At
  <1>2. /\ f \in Frame /\ n \in Nat /\ Placed(f, n) /\ Owned(f, n) /\ Phased(f, n)
        /\ f.ctx \in Seq(Ownership)
    BY <1>1, TopShape, TopFacts
  <1>3. Owns(f) = {own}
    BY <1>1 DEF Owns
  <1>4. own \in Ownership /\ own.below \in Nat /\ own.lock \in Locks /\ own.below + 1 \in DOMAIN f.ctx
    <2>1. own \in Ownership
      BY <1>1, <1>2 DEF Frame
    <2> QED
      BY <1>2, <1>3, <2>1 DEF Owned, Ownership
  <1>5. SubSeq(f.ctx, 1, own.below) \in Seq(Ownership)
    <2>1. \A k \in 1..own.below : f.ctx[k] \in Ownership
      <3>1. \A k \in 1..own.below : k \in DOMAIN f.ctx
        BY <1>2, <1>4
      <3> QED
        BY <1>2, <3>1
    <2> QED
      BY <1>4, <2>1, SubSeqProperties
  <1>6. f.open = {}
    BY <1>1, <1>2 DEF Phased
  <1>7. /\ g \in Frame /\ g.phase = f.phase /\ g.ctx = SubSeq(f.ctx, 1, own.below) /\ g.defers = f.defers
        /\ g.tracked = None /\ g.spool = f.spool /\ g.open = {} /\ g.saved = f.saved /\ g.cmd = f.cmd
    BY <1>2, <1>5, <1>6 DEF Frame, Released
  <1> HIDE DEF g
  <1>8. Owns(g) = {}
    BY <1>1, <1>7 DEF Owns
  <1>9. Exchange(c, g) /\ Backed(c, g) /\ Placed(g, n)
    <2>1. own \in Owns(f) /\ Owns(g) = Owns(f) \ {own} /\ \A o \in Owns(g) : o.below < own.below
      BY <1>3, <1>8
    <2> QED
      BY <1>1, <1>7, <2>1, Dropping
  <1>10. Owned(g, n) /\ Phased(g, n) /\ Sees(c, g)
    BY <1>1, <1>7, <1>8 DEF Owned, Phased, Sees
  <1> QED
    BY <1>1, <1>7, <1>9, <1>10, StepInv DEF Shape

LEMMA CloseSpoolInv ==
    ASSUME Inv, NEW c \in Clients, CloseSpool(c)
    PROVE  Inv'
  <1> DEFINE f == Top(c)
             n == Len(stack[c])
  <1>1. /\ stack[c] # <<>> /\ f.phase = "unwind" /\ f.defers = <<>> /\ f.spool # None
        /\ UNCHANGED <<slot, request, cancelled, scope>> /\ holder' = [holder EXCEPT ![f.spool] = None]
    BY DEF CloseSpool, At
  <1>2. /\ f \in Frame /\ n \in Nat /\ Placed(f, n) /\ Owned(f, n) /\ Phased(f, n)
    BY <1>1, TopShape
  <1>3. PICK outcome \in {"ok", "error", "panic"} : SetTop(c, [f EXCEPT !.spool = None, !.outcome = outcome])
    <2>1. f.outcome \in {"ok", "error", "panic"}
      BY <1>2 DEF Frame
    <2>2. \E outcome \in {f.outcome, IF f.outcome = "ok" THEN "error" ELSE f.outcome} :
             SetTop(c, [f EXCEPT !.spool = None, !.outcome = outcome])
      BY DEF CloseSpool
    <2> QED
      BY <2>1, <2>2
  <1> DEFINE g == [f EXCEPT !.spool = None, !.outcome = outcome]
  <1>4. /\ g \in Frame /\ g.phase = f.phase /\ g.ctx = f.ctx /\ g.defers = f.defers /\ g.tracked = f.tracked
        /\ g.spool = None /\ g.open = f.open /\ g.saved = f.saved /\ g.cmd = f.cmd
    BY <1>2, <1>3 DEF Frame
  <1>5. SetTop(c, g)
    BY <1>3
  <1> HIDE DEF g
  <1>6. Owns(g) = Owns(f)
    BY <1>4 DEF Owns
  <1>7. f.spool \in Locks /\ None \notin Locks
    BY <1>1, <1>2, LocksAssumption DEF Frame, Locks
  <1>8. \A o \in Owns(f) : o.lock # f.spool /\ o.lock \in Locks
    BY <1>2, OwesLocks DEF Owned, Ownership
  <1>9. Owes(g) = Owes(f) \ {f.spool}
    BY <1>4, <1>6, <1>8 DEF Owes
  <1>10. f.spool \in Owes(f)
    BY <1>1 DEF Owes
  <1>11. Exchange(c, g)
    BY <1>1, <1>7, <1>9, <1>10, TopFacts DEF Exchange, Inv, TypeOK
  <1>12. Backed(c, g)
    BY <1>1, <1>4, <1>6, TopFacts DEF Backed
  <1>13. Placed(g, n)
    BY <1>2, <1>4 DEF Placed
  <1>14. Owned(g, n)
    <2>1. \A o \in Owns(g) : o.lock # None
      BY <1>6, <1>7, <1>8
    <2> QED
      BY <1>2, <1>4, <1>6, <2>1 DEF Owned
  <1>15. Phased(g, n)
    BY <1>1, <1>2, <1>4 DEF Phased
  <1>16. Sees(c, g)
    BY <1>1, <1>4 DEF Sees
  <1> QED
    BY <1>1, <1>4, <1>5, <1>11, <1>12, <1>13, <1>14, <1>15, <1>16, StepInv DEF Shape

-----------------------------------------------------------------------------
(* Nested executions. *)

\* The clients a step does not touch.
LEMMA OthersKeep ==
    ASSUME Inv, NEW d \in Clients, stack'[d] = stack[d], \A p \in Locks : holder'[p] = d <=> holder[p] = d
    PROVE  /\ Linked(d)' /\ Charged(d)' /\ Nested(d)'
           /\ \A i \in DOMAIN stack'[d] : Shape(stack'[d][i], i)
  <1>1. Linked(d)'
    <2>1. Linked(d)
      BY DEF Inv
    <2> QED
      BY <2>1, LinkedStays
  <1>2. Nested(d)'
    BY DEF Inv, Nested, Prof
  <1>3. \A i \in DOMAIN stack[d] : Shape(stack[d][i], i) /\ Owes(stack[d][i]) \subseteq Locks
    <2>1. \A i \in DOMAIN stack[d] : Shape(stack[d][i], i) /\ stack[d][i] \in Frame
      BY FrameIn
    <2> QED
      BY <2>1, OwesLocks
  <1>4. Charged(d)'
    <2>1. \A i \in DOMAIN stack'[d] : Owes(stack[d][i])' = Owes(stack[d][i])
      BY DEF Owes, Owns
    <2>2. Charged(d)
      BY DEF Inv
    <2>3. \A i \in DOMAIN stack[d] : \A p \in Owes(stack[d][i]) : holder'[p] = d
      BY <1>3, <2>2 DEF Charged
    <2>4. \A p \in Locks : holder'[p] = d => \E i \in DOMAIN stack[d] : p \in Owes(stack[d][i])
      BY <2>2 DEF Charged
    <2>5. \A i, j \in DOMAIN stack[d] : Owes(stack[d][i]) \cap Owes(stack[d][j]) # {} => i = j
      BY <2>2 DEF Charged
    <2> QED
      BY <2>1, <2>3, <2>4, <2>5 DEF Charged
  <1> QED
    BY <1>1, <1>2, <1>3, <1>4

\* The frames of a client keep what they owe, around frames that owe nothing.
Restacked(c, s, library) ==
    /\ \A i \in DOMAIN s :
         /\ Shape(s[i], i)
         /\ \/ i \in DOMAIN stack[c] /\ Owns(s[i]) = Owns(stack[c][i]) /\ s[i].spool = stack[c][i].spool
            \/ i \notin DOMAIN stack[c] /\ Owes(s[i]) = {}
         /\ \A k \in DOMAIN s[i].ctx : s[i].ctx[k] \in Owns(stack[c][s[i].ctx[k].owner])
                                       /\ s[i].ctx[k].owner \in DOMAIN stack[c]
         /\ i < Len(s) => s[i].phase = "body"
         /\ i > 1 => s[i].saved = Prof(s[i - 1]).library
    /\ \A i \in DOMAIN stack[c] : i \in DOMAIN s \/ Owes(stack[c][i]) = {}
    /\ s # <<>> /\ s[Len(s)].phase \in {"leaf", "run", "body"} => library = Prof(s[Len(s)]).library

LEMMA RestackedInv ==
    ASSUME Inv, NEW c \in Clients, stack[c] # <<>>, NEW s \in Seq(Frame), stack' = [stack EXCEPT ![c] = s],
           UNCHANGED <<holder, slot, request, cancelled>>,
           NEW P \in Processes, P = ProcessOf(c), NEW library \in Libraries, scope' = [scope EXCEPT ![P] = library],
           Restacked(c, s, library)
    PROVE  Inv'
  <1> USE DEF Restacked
  <1>1. TypeOK /\ \A d \in Clients : Charged(d) /\ Served(d)
    BY DEF Inv
  <1>2. stack'[c] = s /\ \A d \in Clients : d # c => stack'[d] = stack[d]
    BY <1>1 DEF TypeOK
  <1>3. TypeOK'
    BY <1>1 DEF TypeOK
  <1>4. Len(s) \in Nat /\ DOMAIN s = 1..Len(s) /\ \A i \in DOMAIN s : s[i] \in Frame
    OBVIOUS
  <1>5. \A i \in DOMAIN s : i \in DOMAIN stack[c] => Owes(s[i]) = Owes(stack[c][i])
    BY DEF Owes
  <1>6. Charged(c)'
    <2>1. \A i \in DOMAIN stack'[c] : Owes(stack[c][i])' = Owes(s[i])
      BY <1>2 DEF Owes, Owns
    <2>2. ASSUME NEW i \in DOMAIN s, NEW p \in Owes(s[i])
          PROVE  i \in DOMAIN stack[c] /\ p \in Owes(stack[c][i]) /\ holder[p] = c
      <3>1. i \in DOMAIN stack[c]
        BY <2>2
      <3>2. p \in Owes(stack[c][i])
        BY <1>5, <2>2, <3>1
      <3> QED
        BY <1>1, <3>1, <3>2 DEF Charged
    <2>3. ASSUME NEW i \in DOMAIN s, NEW j \in DOMAIN s, Owes(s[i]) \cap Owes(s[j]) # {}
          PROVE  i = j
      <3>1. PICK p \in Owes(s[i]) : p \in Owes(s[j])
        BY <2>3
      <3>2. i \in DOMAIN stack[c] /\ j \in DOMAIN stack[c] /\ p \in Owes(stack[c][i]) /\ p \in Owes(stack[c][j])
        BY <2>2, <3>1
      <3> QED
        BY <1>1, <3>2 DEF Charged
    <2>4. ASSUME NEW p \in Locks, holder[p] = c
          PROVE  \E i \in DOMAIN s : p \in Owes(s[i])
      <3>1. PICK i \in DOMAIN stack[c] : p \in Owes(stack[c][i])
        BY <1>1, <2>4 DEF Charged
      <3>2. i \in DOMAIN s
        BY <3>1
      <3> QED
        BY <1>5, <3>1, <3>2
    <2> QED
      BY <1>2, <2>1, <2>2, <2>3, <2>4 DEF Charged
  <1>7. Linked(c)'
    <2>1. ASSUME NEW i \in DOMAIN s, NEW k \in DOMAIN s[i].ctx
          PROVE  s[i].ctx[k] \in Owns(s[s[i].ctx[k].owner])
      <3> DEFINE j == s[i].ctx[k].owner
      <3>1. j \in DOMAIN stack[c] /\ s[i].ctx[k] \in Owns(stack[c][j])
        OBVIOUS
      <3>2. j \in 1..i
        BY DEF Shape, Placed
      <3>3. j \in DOMAIN s
        BY <1>4, <3>2
      <3> QED
        BY <3>1, <3>3
    <2>2. stack'[c] = s
      BY <1>2
    <2> QED
      BY <2>1, <2>2, LinkedWith
  <1>8. Nested(c)'
    BY <1>2 DEF Nested, Prof
  <1>9. Framed'
    <2>1. ASSUME NEW d \in Clients, NEW i \in DOMAIN stack'[d]
          PROVE  Shape(stack'[d][i], i)
      BY <1>2, <2>1, OthersKeep
    <2> QED
      BY <2>1 DEF Framed, Shape, Placed, Owned, Phased, Owns, Prof
  <1>10. \A d \in Clients : Served(d)'
    <2>1. request[c] = "running"
      BY <1>1 DEF Served
    <2> QED
      BY <1>1, <1>2, <2>1 DEF Served
  <1>11. OwnLibrary'
    <2>1. ASSUME NEW d \in Clients, d # c, stack'[d] # <<>>, Top(d)'.phase \in {"leaf", "run", "body"}
          PROVE  scope'[ProcessOf(d)] = Prof(Top(d)').library
      <3>1. stack'[d] = stack[d] /\ Top(d)' = Top(d)
        BY <1>2, <2>1 DEF Top
      <3>2. ProcessOf(d) # P
        BY <2>1, <3>1, OneAtATime
      <3>3. scope'[ProcessOf(d)] = scope[ProcessOf(d)]
        BY <1>1, <3>2, ProcessIn DEF TypeOK
      <3> QED
        BY <2>1, <3>1, <3>3 DEF Inv, OwnLibrary
    <2>2. Top(c)' = s[Len(s)] /\ scope'[P] = library
      BY <1>1, <1>2 DEF Top, Last, TypeOK
    <2>3. ASSUME NEW d \in Clients, stack'[d] # <<>>, Top(d)'.phase \in {"leaf", "run", "body"}
          PROVE  scope'[ProcessOf(d)] = Prof(Top(d)').library
      BY <1>2, <2>1, <2>2, <2>3
    <2> QED
      BY <2>3 DEF OwnLibrary, ProcessOf, Prof
  <1>12. \A d \in Clients : Linked(d)' /\ Charged(d)' /\ Nested(d)'
    BY <1>2, <1>6, <1>7, <1>8, OthersKeep
  <1> QED
    BY <1>3, <1>9, <1>10, <1>11, <1>12 DEF Inv

\* What every frame of a stack may rely on, in one place.
LEMMA FrameFacts ==
    ASSUME Inv, NEW c \in Clients, NEW i \in DOMAIN stack[c]
    PROVE  /\ Shape(stack[c][i], i) /\ stack[c][i] \in Frame /\ i \in 1..Len(stack[c])
           /\ \A k \in DOMAIN stack[c][i].ctx :
                /\ stack[c][i].ctx[k] \in Owns(stack[c][stack[c][i].ctx[k].owner])
                /\ stack[c][i].ctx[k].owner \in 1..i /\ stack[c][i].ctx[k].owner \in DOMAIN stack[c]
           /\ i < Len(stack[c]) => stack[c][i].phase = "body"
           /\ i > 1 => stack[c][i].saved = Prof(stack[c][i - 1]).library
  <1>1. Shape(stack[c][i], i) /\ stack[c][i] \in Frame /\ i \in 1..Len(stack[c]) /\ i \in Nat
        /\ DOMAIN stack[c] = 1..Len(stack[c]) /\ Len(stack[c]) \in Nat
    BY FrameIn
  <1>2. Linked(c) /\ Nested(c)
    BY DEF Inv
  <1>3. ASSUME NEW k \in DOMAIN stack[c][i].ctx
        PROVE  /\ stack[c][i].ctx[k] \in Owns(stack[c][stack[c][i].ctx[k].owner])
               /\ stack[c][i].ctx[k].owner \in 1..i /\ stack[c][i].ctx[k].owner \in DOMAIN stack[c]
    <2>1. stack[c][i].ctx[k].owner \in 1..i
      BY <1>1 DEF Shape, Placed
    <2> QED
      BY <1>1, <1>2, <2>1 DEF Linked
  <1>4. /\ i < Len(stack[c]) => stack[c][i].phase = "body"
        /\ i > 1 => stack[c][i].saved = Prof(stack[c][i - 1]).library
    BY <1>2 DEF Nested
  <1> QED
    BY <1>1, <1>3, <1>4

LEMMA NewFrameShape ==
    ASSUME NEW h, NEW ctx \in Seq(Ownership), NEW cmd \in Commands, NEW saved \in Libraries,
           h = NewFrame(cmd, ctx, saved), NEW n \in Nat, NEW f, f.ctx = ctx, Placed(f, n)
    PROVE  /\ h \in Frame /\ Shape(h, n + 1) /\ Owns(h) = {} /\ Owes(h) = {} /\ h.ctx = ctx
           /\ h.saved = saved /\ h.phase = "pre"
  <1>1. /\ h.cmd = cmd /\ h.ctx = ctx /\ h.saved = saved /\ h.phase = "pre" /\ h.defers = <<>>
        /\ h.tracked = None /\ h.spool = None /\ h.open = {}
    BY DEF NewFrame
  <1>2. <<>> \in Seq(Ownership) /\ 0 \in 0 .. MaxSteps
    BY EmptySeq, LocksAssumption
  <1>3. h \in Frame
    BY <1>2 DEF NewFrame, Frame
  <1>4. Owns(h) = {} /\ Owes(h) = {}
    <2>1. Owns(h) = {}
      BY <1>1 DEF Owns
    <2> QED
      BY <1>1, <2>1 DEF Owes
  <1>5. \A k \in DOMAIN ctx : ctx[k].owner \in 1..(n + 1) /\ ctx[k].owner # n + 1
    BY DEF Placed
  <1>6. Placed(h, n + 1)
    BY <1>1, <1>5 DEF Placed
  <1>7. Owned(h, n + 1) /\ Phased(h, n + 1)
    BY <1>1, <1>4, <1>5 DEF Owned, Phased
  <1> QED
    BY <1>1, <1>3, <1>4, <1>6, <1>7 DEF Shape

LEMMA RunStepInv ==
    ASSUME Inv, NEW c \in Clients, RunStep(c)
    PROVE  Inv'
  <1> DEFINE f == Top(c)
             n == Len(stack[c])
             P == ProcessOf(c)
             g == [f EXCEPT !.steps = @ + 1]
             t == [stack[c] EXCEPT ![n] = g]
  <1>1. /\ stack[c] # <<>> /\ f.phase = "body" /\ f.steps < MaxSteps
        /\ UNCHANGED <<holder, slot, request, cancelled, scope>>
    BY DEF RunStep, At
  <1>2. PICK cmd \in Prof(f).steps :
           stack' = [stack EXCEPT ![c] = Append(t, NewFrame(cmd, f.ctx, scope[P]))]
    BY DEF RunStep
  <1> DEFINE h == NewFrame(cmd, f.ctx, scope[P])
             s == Append(t, h)
  <1>3. /\ f \in Frame /\ n \in Nat /\ n >= 1 /\ Placed(f, n) /\ Owned(f, n) /\ Phased(f, n)
        /\ f.ctx \in Seq(Ownership) /\ f = stack[c][n] /\ n \in DOMAIN stack[c] /\ stack[c] \in Seq(Frame)
        /\ DOMAIN stack[c] = 1..n /\ n \in 1..n
    BY <1>1, TopShape, TopFacts, TopFrame DEF Inv
  <1>4. P \in Processes /\ scope \in [Processes -> Libraries] /\ scope[P] \in Libraries
    BY ProcessIn DEF Inv, TypeOK
  <1>5. cmd \in Commands
    <2>1. Prof(f) \in ProfileType
      BY <1>3, LocksAssumption DEF Prof, Frame
    <2> QED
      BY <1>2, <2>1 DEF ProfileType
  <1>6. /\ h \in Frame /\ Shape(h, n + 1) /\ Owns(h) = {} /\ Owes(h) = {} /\ h.ctx = f.ctx
        /\ h.saved = scope[P] /\ h.phase = "pre"
    <2>2. h = NewFrame(cmd, f.ctx, scope[P])
      OBVIOUS
    <2>3. f.ctx \in Seq(Ownership) /\ n \in Nat /\ Placed(f, n)
      BY <1>3
    <2> HIDE DEF h, P, f, n
    <2> QED
      BY <1>4, <1>5, <2>2, <2>3, NewFrameShape
  <1> HIDE DEF h
  <1>7. /\ g \in Frame /\ g.phase = f.phase /\ g.ctx = f.ctx /\ g.defers = f.defers /\ g.tracked = f.tracked
        /\ g.spool = f.spool /\ g.open = f.open /\ g.saved = f.saved /\ g.cmd = f.cmd
    <2>1. f.steps + 1 \in 0 .. MaxSteps
      BY <1>1, <1>3, LocksAssumption DEF Frame
    <2> QED
      BY <1>3, <2>1 DEF Frame
  <1> HIDE DEF g
  <1>8. Owns(g) = Owns(f) /\ Shape(g, n)
    <2>1. Owns(g) = Owns(f)
      BY <1>7 DEF Owns
    <2> QED
      <3>1. Placed(g, n)
        BY <1>3, <1>7 DEF Placed
      <3>2. Owned(g, n)
        BY <1>3, <1>7, <2>1 DEF Owned
      <3>3. Phased(g, n)
        BY <1>3, <1>7 DEF Phased, Prof
      <3> QED
        BY <1>7, <2>1, <3>1, <3>2, <3>3 DEF Shape
  <1>9. t \in Seq(Frame) /\ Len(t) = n /\ \A i \in 1..n : t[i] = IF i = n THEN g ELSE stack[c][i]
    BY <1>3, <1>7, ExceptSeq
  <1> HIDE DEF t
  <1>10. /\ s \in Seq(Frame) /\ Len(s) = n + 1 /\ DOMAIN s = 1..(n + 1) /\ s[n + 1] = h
         /\ \A i \in 1..n : s[i] = IF i = n THEN g ELSE stack[c][i]
    BY <1>6, <1>9, AppendProperties
  <1>11. stack' = [stack EXCEPT ![c] = s]
    BY <1>2 DEF h
  <1> HIDE DEF s
  <1>12. \A i \in DOMAIN s : i \in 1..n \/ i = n + 1
    BY <1>3, <1>10
  <1>13. ASSUME NEW i \in 1..n
         PROVE  /\ Shape(s[i], i) /\ Owns(s[i]) = Owns(stack[c][i]) /\ s[i].spool = stack[c][i].spool
                /\ s[i].ctx = stack[c][i].ctx /\ s[i].saved = stack[c][i].saved /\ s[i].cmd = stack[c][i].cmd
                /\ s[i].phase = stack[c][i].phase
    <2>1. Shape(stack[c][i], i)
      BY <1>3, FrameFacts
    <2> QED
      BY <1>3, <1>7, <1>8, <1>10, <2>1
  <1>14. ASSUME NEW i \in DOMAIN s
         PROVE  /\ Shape(s[i], i)
                /\ \/ i \in DOMAIN stack[c] /\ Owns(s[i]) = Owns(stack[c][i]) /\ s[i].spool = stack[c][i].spool
                   \/ i \notin DOMAIN stack[c] /\ Owes(s[i]) = {}
                /\ \A k \in DOMAIN s[i].ctx : s[i].ctx[k] \in Owns(stack[c][s[i].ctx[k].owner])
                                              /\ s[i].ctx[k].owner \in DOMAIN stack[c]
                /\ i < Len(s) => s[i].phase = "body"
                /\ i > 1 => s[i].saved = Prof(s[i - 1]).library
    <2>1. CASE i \in 1..n
      <3>1. i \in DOMAIN stack[c] /\ s[i].phase = "body"
        BY <1>1, <1>3, <1>13, <2>1, FrameFacts
      <3>2. i > 1 => s[i].saved = Prof(s[i - 1]).library
        <4>1. ASSUME i > 1
              PROVE  s[i].saved = Prof(s[i - 1]).library
          <5>1. i - 1 \in 1..n
            BY <1>3, <2>1, <4>1
          <5>2. stack[c][i].saved = Prof(stack[c][i - 1]).library
            BY <3>1, <4>1, FrameFacts
          <5> QED
            BY <1>13, <2>1, <5>1, <5>2 DEF Prof
        <4> QED
          BY <4>1
      <3>3. \A k \in DOMAIN s[i].ctx : s[i].ctx[k] \in Owns(stack[c][s[i].ctx[k].owner])
                                       /\ s[i].ctx[k].owner \in DOMAIN stack[c]
        BY <1>13, <2>1, <3>1, FrameFacts
      <3> QED
        BY <1>13, <2>1, <3>1, <3>2, <3>3
    <2>2. CASE i = n + 1
      <3>1. i \notin DOMAIN stack[c] /\ ~(i < Len(s)) /\ i - 1 = n /\ n \in 1..n
        BY <1>3, <1>10, <2>2
      <3>2. h.saved = Prof(s[n]).library
        <4>1. scope[P] = Prof(f).library
          BY <1>1 DEF Inv, OwnLibrary
        <4> QED
          BY <1>3, <1>6, <1>13, <4>1 DEF Prof
      <3>3. \A k \in DOMAIN h.ctx : h.ctx[k] \in Owns(stack[c][h.ctx[k].owner])
                                    /\ h.ctx[k].owner \in DOMAIN stack[c]
        BY <1>3, <1>6, FrameFacts
      <3> QED
        BY <1>6, <1>10, <2>2, <3>1, <3>2, <3>3
    <2> QED
      BY <1>12, <2>1, <2>2
  <1>15. \A i \in DOMAIN stack[c] : i \in DOMAIN s
    BY <1>3, <1>10
  <1>16. scope' = [scope EXCEPT ![P] = scope[P]]
    BY <1>1, <1>4
  <1>17. s[Len(s)].phase = "pre"
    BY <1>6, <1>10
  <1> HIDE DEF P
  <1>18. Restacked(c, s, scope[P])
    BY <1>14, <1>15, <1>17 DEF Restacked
  <1> QED
    BY <1>1, <1>4, <1>10, <1>11, <1>16, <1>18, RestackedInv DEF P

LEMMA ReturnInv ==
    ASSUME Inv, NEW c \in Clients, Return(c)
    PROVE  Inv'
  <1> DEFINE f == Top(c)
             n == Len(stack[c])
             m == n - 1
             P == ProcessOf(c)
             rest == Front(stack[c])
             g == Unwinding(Last(rest), "panic", Last(rest).defers)
             s == IF rest # <<>> /\ f.outcome = "panic" THEN [rest EXCEPT ![Len(rest)] = g] ELSE rest
  <1>1. /\ stack[c] # <<>> /\ f.phase = "unwind" /\ f.defers = <<>> /\ f.spool = None /\ f.tracked = None
        /\ UNCHANGED <<holder, slot, request, cancelled>> /\ stack' = [stack EXCEPT ![c] = s]
        /\ scope' = [scope EXCEPT ![P] = f.saved]
    BY DEF Return, AtBoundary, At
  <1>2. /\ f \in Frame /\ n \in Nat /\ n >= 1 /\ f = stack[c][n] /\ n \in DOMAIN stack[c]
        /\ stack[c] \in Seq(Frame) /\ DOMAIN stack[c] = 1..n
    BY <1>1, TopFrame DEF Inv
  <1>3. /\ rest \in Seq(Frame) /\ Len(rest) = m /\ DOMAIN rest = 1..m /\ m \in Nat
        /\ \A i \in 1..m : rest[i] = stack[c][i] /\ i \in DOMAIN stack[c]
    BY <1>1, <1>2, FrontShape
  <1>4. Owes(f) = {} /\ Owns(f) = {}
    <2>1. Owns(f) = {}
      BY <1>1 DEF Owns
    <2> QED
      BY <1>1, <2>1 DEF Owes
  <1>5. ASSUME NEW i \in 1..m
        PROVE  /\ Shape(stack[c][i], i) /\ stack[c][i].phase = "body" /\ stack[c][i] \in Frame
               /\ \A k \in DOMAIN stack[c][i].ctx :
                    /\ stack[c][i].ctx[k] \in Owns(stack[c][stack[c][i].ctx[k].owner])
                    /\ stack[c][i].ctx[k].owner \in DOMAIN stack[c]
               /\ i > 1 => stack[c][i].saved = Prof(stack[c][i - 1]).library
    <2>1. i \in DOMAIN stack[c] /\ i < n
      BY <1>2, <1>3
    <2> QED
      BY <2>1, FrameFacts
  <1>6. rest # <<>> => m \in 1..m /\ Last(rest) = stack[c][m]
    <2>1. ASSUME rest # <<>>
          PROVE  m \in 1..m /\ Last(rest) = stack[c][m]
      <3>1. m >= 1
        BY <1>3, <2>1, EmptySeq
      <3>2. m \in 1..m
        BY <1>3, <3>1
      <3> QED
        BY <1>3, <3>2 DEF Last
    <2> QED
      BY <2>1
  <1>7. ASSUME rest # <<>>
        PROVE  /\ g \in Frame /\ Shape(g, m) /\ Owns(g) = Owns(stack[c][m]) /\ g.spool = stack[c][m].spool
               /\ g.ctx = stack[c][m].ctx /\ g.saved = stack[c][m].saved /\ g.cmd = stack[c][m].cmd
               /\ g.phase = "unwind"
    <2>1. m \in 1..m /\ m \in Nat /\ g = Unwinding(stack[c][m], "panic", stack[c][m].defers)
      BY <1>3, <1>6, <1>7
    <2>2. stack[c][m] \in Frame /\ Placed(stack[c][m], m) /\ Owned(stack[c][m], m)
      BY <1>5, <2>1 DEF Shape
    <2>3. None \in Clients \cup {None}
      OBVIOUS
    <2> HIDE DEF g
    <2> QED
      BY <2>1, <2>2, <2>3, UnwindingShape
  <1> HIDE DEF g, rest
  <1>8. /\ s \in Seq(Frame) /\ Len(s) = m /\ DOMAIN s = 1..m
        /\ \A i \in 1..m : s[i] = stack[c][i] \/ (i = m /\ s[i] = g /\ rest # <<>>)
    <2>1. CASE rest # <<>> /\ f.outcome = "panic"
      <3>1. s = [rest EXCEPT ![m] = g] /\ m \in 1..Len(rest)
        BY <1>3, <1>6, <2>1
      <3>2. s \in Seq(Frame) /\ Len(s) = m /\ \A i \in 1..m : s[i] = IF i = m THEN g ELSE rest[i]
        BY <1>3, <1>7, <2>1, <3>1, ExceptSeq
      <3> HIDE DEF s
      <3>3. DOMAIN s = 1..m
        BY <3>2
      <3> QED
        BY <1>3, <2>1, <3>2, <3>3
    <2>2. CASE ~(rest # <<>> /\ f.outcome = "panic")
      BY <1>3, <2>2
    <2> QED
      BY <2>1, <2>2
  <1> HIDE DEF s
  <1>9. ASSUME NEW i \in 1..m
        PROVE  /\ Shape(s[i], i) /\ Owns(s[i]) = Owns(stack[c][i]) /\ s[i].spool = stack[c][i].spool
               /\ s[i].ctx = stack[c][i].ctx /\ s[i].saved = stack[c][i].saved /\ s[i].cmd = stack[c][i].cmd
               /\ i < m => s[i].phase = "body"
    <2>1. CASE s[i] = stack[c][i]
      BY <1>5, <2>1
    <2>2. CASE i = m /\ s[i] = g /\ rest # <<>>
      BY <1>3, <1>7, <2>2
    <2> QED
      BY <1>8, <2>1, <2>2
  <1>10. ASSUME NEW i \in DOMAIN s
         PROVE  /\ Shape(s[i], i)
                /\ \/ i \in DOMAIN stack[c] /\ Owns(s[i]) = Owns(stack[c][i]) /\ s[i].spool = stack[c][i].spool
                   \/ i \notin DOMAIN stack[c] /\ Owes(s[i]) = {}
                /\ \A k \in DOMAIN s[i].ctx : s[i].ctx[k] \in Owns(stack[c][s[i].ctx[k].owner])
                                              /\ s[i].ctx[k].owner \in DOMAIN stack[c]
                /\ i < Len(s) => s[i].phase = "body"
                /\ i > 1 => s[i].saved = Prof(s[i - 1]).library
    <2>1. i \in 1..m /\ i \in DOMAIN stack[c]
      BY <1>3, <1>8
    <2>2. i > 1 => s[i].saved = Prof(s[i - 1]).library
      <3>1. ASSUME i > 1
            PROVE  s[i].saved = Prof(s[i - 1]).library
        <4>1. i - 1 \in 1..m
          BY <1>3, <2>1, <3>1
        <4> QED
          BY <1>5, <1>9, <2>1, <3>1, <4>1 DEF Prof
      <3> QED
        BY <3>1
    <2> QED
      BY <1>5, <1>8, <1>9, <2>1, <2>2
  <1>11. \A i \in DOMAIN stack[c] : i \in DOMAIN s \/ Owes(stack[c][i]) = {}
    <2>1. \A i \in DOMAIN stack[c] : i \in 1..m \/ i = n
      BY <1>2
    <2> QED
      BY <1>2, <1>4, <1>8, <2>1
  <1>12. f.saved \in Libraries
    BY <1>2 DEF Frame
  <1>13. s # <<>> => f.saved = Prof(s[Len(s)]).library
    <2>1. ASSUME s # <<>>
          PROVE  f.saved = Prof(s[Len(s)]).library
      <3>1. m >= 1 /\ m \in 1..m /\ n > 1 /\ n - 1 = m
        BY <1>2, <1>3, <1>8, <2>1, EmptySeq
      <3>2. f.saved = Prof(stack[c][m]).library
        BY <1>2, <3>1, FrameFacts
      <3> QED
        BY <1>8, <1>9, <3>1, <3>2 DEF Prof
    <2> QED
      BY <2>1
  <1>14. P \in Processes
    BY ProcessIn
  <1> HIDE DEF P
  <1>15. Restacked(c, s, f.saved)
    BY <1>10, <1>11, <1>13 DEF Restacked
  <1> QED
    BY <1>1, <1>8, <1>12, <1>14, <1>15, RestackedInv DEF P

-----------------------------------------------------------------------------
(* Requests and processes. *)

\* A step that leaves the executions alone.
LEMMA Unmoved ==
    ASSUME Inv, UNCHANGED <<holder, stack, scope>>
    PROVE  Framed' /\ OwnLibrary' /\ \A d \in Clients : Linked(d)' /\ Charged(d)' /\ Nested(d)'
  <1>1. \A d \in Clients : Linked(d)' /\ Charged(d)' /\ Nested(d)'
    BY OthersKeep
  <1>2. Framed'
    <2>1. ASSUME NEW d \in Clients, NEW i \in DOMAIN stack'[d]
          PROVE  Shape(stack'[d][i], i)
      BY <2>1, OthersKeep
    <2> QED
      BY <2>1 DEF Framed, Shape, Placed, Owned, Phased, Owns, Prof
  <1>3. OwnLibrary'
    <2>1. ASSUME NEW d \in Clients, stack'[d] # <<>>, Top(d)'.phase \in {"leaf", "run", "body"}
          PROVE  scope'[ProcessOf(d)] = Prof(Top(d)').library
      <3>1. Top(d)' = Top(d)
        BY DEF Top
      <3> QED
        BY <2>1, <3>1 DEF Inv, OwnLibrary
    <2> QED
      BY <2>1 DEF OwnLibrary, ProcessOf, Prof
  <1> QED
    BY <1>1, <1>2, <1>3

\* A request that runs nothing moves.
LEMMA RequestInv ==
    ASSUME Inv, NEW c \in Clients, UNCHANGED <<holder, stack, scope>>,
           slot' \in Server \cup {None}, cancelled' \in [Clients -> BOOLEAN],
           NEW q \in {"idle", "waiting", "checking"}, request' = [request EXCEPT ![c] = q], stack[c] = <<>>,
           c \in Server => (slot' = c <=> q = "checking"), c \in Shells => q = "idle",
           \A d \in Server : d # c => (slot' = d <=> slot = d)
    PROVE  Inv'
  <1>1. TypeOK' /\ request'[c] = q /\ \A d \in Clients : d # c => request'[d] = request[d]
    BY DEF Inv, TypeOK
  <1>2. \A d \in Clients : Served(d)'
    BY <1>1 DEF Inv, Served
  <1> QED
    BY <1>1, <1>2, Unmoved DEF Inv

\* A client without frames gets its first one.
LEMMA BeginInv ==
    ASSUME Inv, NEW c \in Clients, NEW cmd \in Commands, Begin(c, cmd), stack[c] = <<>>,
           UNCHANGED <<holder, slot, cancelled, scope>>, request' = [request EXCEPT ![c] = "running"],
           c \in Server => slot = c
    PROVE  Inv'
  <1> DEFINE P == ProcessOf(c)
             h == NewFrame(cmd, <<>>, scope[P])
  <1>1. TypeOK /\ scope[P] \in Libraries
    BY ProcessIn DEF Inv, TypeOK
  <1>2. /\ h \in Frame /\ Shape(h, 1) /\ Owns(h) = {} /\ Owes(h) = {} /\ h.ctx = <<>> /\ h.phase = "pre"
    <2>1. <<>> \in Seq(Ownership) /\ 0 \in Nat /\ 0 + 1 = 1
      BY EmptySeq
    <2>2. [ctx |-> <<>>].ctx = <<>> /\ Placed([ctx |-> <<>>], 0)
      BY DEF Placed
    <2>3. h = NewFrame(cmd, <<>>, scope[P])
      OBVIOUS
    <2> HIDE DEF h
    <2>4. /\ h \in Frame /\ Shape(h, 0 + 1) /\ Owns(h) = {} /\ Owes(h) = {} /\ h.ctx = <<>> /\ h.phase = "pre"
      BY <1>1, <2>1, <2>2, <2>3, NewFrameShape
    <2> QED
      BY <2>1, <2>4
  <1>3. stack' = [stack EXCEPT ![c] = <<h>>]
    BY DEF Begin
  <1> HIDE DEF h
  <1>4. /\ stack'[c] = <<h>> /\ DOMAIN stack'[c] = {1} /\ stack'[c][1] = h /\ Len(stack'[c]) = 1
        /\ stack' \in [Clients -> Seq(Frame)]
        /\ \A d \in Clients : d # c => stack'[d] = stack[d]
    BY <1>1, <1>2, <1>3 DEF TypeOK
  <1>5. TypeOK'
    BY <1>1, <1>4 DEF TypeOK
  <1>6. Framed'
    <2>1. ASSUME NEW d \in Clients, NEW i \in DOMAIN stack'[d]
          PROVE  Shape(stack'[d][i], i)
      BY <1>2, <1>4, <2>1, OthersKeep
    <2> QED
      BY <2>1 DEF Framed, Shape, Placed, Owned, Phased, Owns, Prof
  <1>7. Linked(c)'
    BY <1>2, <1>4 DEF Linked
  <1>8. Nested(c)'
    BY <1>4 DEF Nested
  <1>9. Charged(c)'
    <2>1. \A i \in DOMAIN stack'[c] : Owes(stack[c][i])' = {}
      <3>1. \A i \in DOMAIN stack'[c] : stack'[c][i] = h
        BY <1>4
      <3>2. \A i \in DOMAIN stack'[c] : Owes(stack'[c][i]) = {}
        BY <1>2, <3>1
      <3> QED
        BY <3>2 DEF Owes, Owns
    <2>2. \A p \in Locks : holder[p] # c
      BY DEF Inv, Charged
    <2>3. \A i, j \in DOMAIN stack'[c] : i = j
      BY <1>4
    <2> QED
      BY <2>1, <2>2, <2>3 DEF Charged
  <1>10. \A d \in Clients : Linked(d)' /\ Charged(d)' /\ Nested(d)'
    BY <1>4, <1>7, <1>8, <1>9, OthersKeep
  <1>11. \A d \in Clients : Served(d)'
    <2>1. request'[c] = "running" /\ \A d \in Clients : d # c => request'[d] = request[d]
      BY <1>1 DEF TypeOK
    <2> QED
      BY <1>4, <2>1 DEF Inv, Served
  <1>12. OwnLibrary'
    <2>1. Top(c)' = h
      BY <1>4 DEF Top, Last
    <2>2. ASSUME NEW d \in Clients, stack'[d] # <<>>, Top(d)'.phase \in {"leaf", "run", "body"}
          PROVE  scope'[ProcessOf(d)] = Prof(Top(d)').library
      <3>1. d # c
        BY <1>2, <2>1, <2>2
      <3>2. stack'[d] = stack[d] /\ Top(d)' = Top(d)
        BY <1>4, <3>1 DEF Top
      <3> QED
        BY <2>2, <3>2 DEF Inv, OwnLibrary
    <2> QED
      BY <2>2 DEF OwnLibrary, ProcessOf, Prof
  <1> QED
    BY <1>5, <1>6, <1>10, <1>11, <1>12 DEF Inv

LEMMA RequestStepInv ==
    ASSUME Inv, NEW c \in Clients,
           Ask(c) \/ Cancel(c) \/ GiveUp(c) \/ TakeSlot(c) \/ CheckAndBegin(c) \/ StartShell(c) \/ EndRequest(c)
    PROVE  Inv'
  <1> USE DEF Clients
  <1>1. /\ TypeOK /\ Served(c) /\ None \notin Clients /\ Server \cap Shells = {}
        /\ \A d \in Clients : Served(d)
    BY LocksAssumption DEF Inv
  <1>2. cancelled \in [Clients -> BOOLEAN] /\ slot \in Server \cup {None} /\ Uses[c] \subseteq Commands
    BY <1>1, LocksAssumption DEF TypeOK
  <1>3. CASE Ask(c)
    <2>1. stack[c] = <<>> /\ slot # c /\ cancelled' \in [Clients -> BOOLEAN] /\ c \notin Shells
      BY <1>1, <1>2, <1>3 DEF Ask, Served
    <2> QED
      BY <1>1, <1>2, <1>3, <2>1, RequestInv DEF Ask
  <1>4. CASE Cancel(c)
    <2>1. /\ stack[c] = <<>> /\ cancelled' \in [Clients -> BOOLEAN] /\ request[c] \in {"waiting", "checking"}
          /\ UNCHANGED <<holder, slot, request, stack, scope>> /\ c \notin Shells
      BY <1>1, <1>2, <1>4 DEF Cancel, Served
    <2>2. request' = [request EXCEPT ![c] = request[c]]
      BY <1>1, <2>1 DEF TypeOK
    <2>3. c \in Server => (slot' = c <=> request[c] = "checking")
      BY <1>1, <2>1 DEF Served
    <2> QED
      BY <1>2, <2>1, <2>2, <2>3, RequestInv
  <1>5. CASE GiveUp(c)
    <2>1. stack[c] = <<>> /\ (c \in Server => slot # c)
      BY <1>1, <1>5 DEF GiveUp, Served
    <2> QED
      BY <1>1, <1>2, <1>5, <2>1, RequestInv DEF GiveUp
  <1>6. CASE TakeSlot(c)
    <2>1. stack[c] = <<>> /\ slot = None /\ slot' = c
      BY <1>1, <1>6 DEF TakeSlot, Served
    <2>2. c \in Server
      BY <1>1, <1>6 DEF TakeSlot, Served
    <2>4. c \notin Shells
      BY <1>1, <2>2
    <2>3. \A d \in Server : d # c => (slot' = d <=> slot = d)
      BY <1>1, <2>1
    <2> QED
      BY <1>1, <1>2, <1>6, <2>1, <2>2, <2>3, <2>4, RequestInv DEF TakeSlot
  <1>7. CASE CheckAndBegin(c)
    <2>1. request[c] = "checking" /\ stack[c] = <<>> /\ slot = c /\ c \in Server
      BY <1>1, <1>7 DEF CheckAndBegin, Served
    <2>2. CASE slot' = None /\ request' = [request EXCEPT ![c] = "idle"] /\ UNCHANGED stack
      <3>1. \A d \in Server : d # c => (slot' = d <=> slot = d)
        <4>1. ASSUME NEW d \in Server, d # c
              PROVE  slot' # d /\ slot # d
          BY <1>1, <2>1, <2>2, <4>1
        <4> QED
          BY <4>1
      <3>2. c \in Server => slot' # c
        BY <1>1, <2>2
      <3> QED
        BY <1>1, <1>2, <1>7, <2>1, <2>2, <3>1, <3>2, RequestInv DEF CheckAndBegin
    <2>3. CASE /\ request' = [request EXCEPT ![c] = "running"] /\ slot' = slot
               /\ \E cmd \in Uses[c] : Begin(c, cmd)
      BY <1>2, <1>7, <2>1, <2>3, BeginInv DEF CheckAndBegin
    <2> QED
      BY <1>7, <2>2, <2>3 DEF CheckAndBegin
  <1>8. CASE StartShell(c)
    <2>1. stack[c] = <<>> /\ c \notin Server
      BY <1>1, <1>8, LocksAssumption DEF StartShell, Served
    <2> QED
      BY <1>2, <1>8, <2>1, BeginInv DEF StartShell
  <1>9. CASE EndRequest(c)
    <2>1. stack[c] = <<>> /\ slot' = (IF slot = c THEN None ELSE slot)
      BY <1>9 DEF EndRequest
    <2>2. slot' \in Server \cup {None} /\ slot' # c /\ \A d \in Server : d # c => (slot' = d <=> slot = d)
      BY <1>1, <1>2, <2>1
    <2> QED
      BY <1>1, <1>2, <1>9, <2>1, <2>2, RequestInv DEF EndRequest
  <1> QED
    BY <1>3, <1>4, <1>5, <1>6, <1>7, <1>8, <1>9

LEMMA KillInv ==
    ASSUME Inv, NEW process \in Processes, Kill(process)
    PROVE  Inv'
  <1>1. TypeOK /\ None \notin Clients /\ <<>> \in Seq(Frame) /\ Personal \in Libraries
    BY EmptySeq, LocksAssumption DEF Inv
  <1>2. /\ holder' = [p \in Locks |-> IF holder[p] \in process THEN None ELSE holder[p]]
        /\ slot' = (IF slot \in process THEN None ELSE slot)
        /\ request' = [c \in Clients |-> IF c \in process THEN "idle" ELSE request[c]]
        /\ cancelled' = [c \in Clients |-> c \notin process /\ cancelled[c]]
        /\ stack' = [c \in Clients |-> IF c \in process THEN <<>> ELSE stack[c]]
        /\ scope' = [scope EXCEPT ![process] = Personal]
    BY DEF Kill
  <1>3. TypeOK'
    <2>1. holder' \in [Locks -> Clients \cup {None}] /\ slot' \in Server \cup {None}
      BY <1>1, <1>2 DEF TypeOK
    <2>2. request' \in [Clients -> {"idle", "waiting", "checking", "running"}]
      BY <1>1, <1>2 DEF TypeOK
    <2>3. cancelled' \in [Clients -> BOOLEAN]
      BY <1>1, <1>2 DEF TypeOK
    <2>4. stack' \in [Clients -> Seq(Frame)]
      BY <1>1, <1>2 DEF TypeOK
    <2>5. scope' \in [Processes -> Libraries]
      BY <1>1, <1>2 DEF TypeOK
    <2> QED
      BY <2>1, <2>2, <2>3, <2>4, <2>5 DEF TypeOK
  <1>4. ASSUME NEW d \in Clients, d \notin process
        PROVE  /\ stack'[d] = stack[d] /\ \A p \in Locks : holder'[p] = d <=> holder[p] = d
               /\ Linked(d)' /\ Charged(d)' /\ Nested(d)' /\ Served(d)'
               /\ \A i \in DOMAIN stack'[d] : Shape(stack'[d][i], i)
    <2>1. stack'[d] = stack[d] /\ \A p \in Locks : holder'[p] = d <=> holder[p] = d
      BY <1>1, <1>2, <1>4
    <2>2. request'[d] = request[d] /\ (slot' = d <=> slot = d)
      BY <1>1, <1>2, <1>4
    <2>3. Served(d)'
      BY <2>1, <2>2 DEF Inv, Served
    <2> QED
      BY <2>1, <2>3, OthersKeep
  <1>5. ASSUME NEW d \in Clients, d \in process
        PROVE  /\ stack'[d] = <<>> /\ Linked(d)' /\ Charged(d)' /\ Nested(d)' /\ Served(d)'
    <2>1. stack'[d] = <<>> /\ DOMAIN stack'[d] = {} /\ request'[d] = "idle" /\ slot' # d
      BY <1>1, <1>2, <1>5
    <2>2. \A p \in Locks : holder'[p] # d
      BY <1>1, <1>2, <1>5
    <2> QED
      BY <2>1, <2>2 DEF Linked, Charged, Nested, Served
  <1>6. Framed'
    <2>1. ASSUME NEW d \in Clients, NEW i \in DOMAIN stack'[d]
          PROVE  Shape(stack'[d][i], i)
      BY <1>4, <1>5, <2>1
    <2> QED
      BY <2>1 DEF Framed, Shape, Placed, Owned, Phased, Owns, Prof
  <1>7. OwnLibrary'
    <2>1. ASSUME NEW d \in Clients, stack'[d] # <<>>, Top(d)'.phase \in {"leaf", "run", "body"}
          PROVE  scope'[ProcessOf(d)] = Prof(Top(d)').library
      <3>1. d \notin process
        BY <1>5, <2>1
      <3>2. stack'[d] = stack[d] /\ Top(d)' = Top(d)
        BY <1>4, <3>1 DEF Top
      <3>3. ProcessOf(d) # process
        BY <3>1, ProcessIn
      <3>4. scope'[ProcessOf(d)] = scope[ProcessOf(d)]
        BY <1>1, <1>2, <3>3, ProcessIn DEF TypeOK
      <3> QED
        BY <2>1, <3>2, <3>4 DEF Inv, OwnLibrary
    <2> QED
      BY <2>1 DEF OwnLibrary, ProcessOf, Prof
  <1>8. \A d \in Clients : Linked(d)' /\ Charged(d)' /\ Nested(d)' /\ Served(d)'
    BY <1>4, <1>5
  <1> QED
    BY <1>3, <1>6, <1>7, <1>8 DEF Inv

-----------------------------------------------------------------------------
(* The invariant and what it shows. *)

LEMMA InitInv == Init => Inv
  <1> SUFFICES ASSUME Init PROVE Inv
    OBVIOUS
  <1>1. /\ holder = [p \in Locks |-> None] /\ slot = None /\ request = [c \in Clients |-> "idle"]
        /\ cancelled = [c \in Clients |-> FALSE] /\ stack = [c \in Clients |-> <<>>]
        /\ scope = [p \in Processes |-> Personal]
    BY DEF Init
  <1>2. None \notin Clients /\ <<>> \in Seq(Frame) /\ Personal \in Libraries
    BY EmptySeq, LocksAssumption
  <1>3. TypeOK
    BY <1>1, <1>2 DEF TypeOK
  <1>4. \A c \in Clients : stack[c] = <<>> /\ DOMAIN stack[c] = {}
    BY <1>1
  <1>5. Framed /\ OwnLibrary
    BY <1>4 DEF Framed, OwnLibrary
  <1>6. ASSUME NEW c \in Clients
        PROVE  Linked(c) /\ Charged(c) /\ Nested(c) /\ Served(c)
    <2>1. slot # c /\ request[c] = "idle" /\ \A p \in Locks : holder[p] # c
      BY <1>1, <1>2
    <2> QED
      BY <1>4, <2>1 DEF Linked, Charged, Nested, Served
  <1> QED
    BY <1>3, <1>5, <1>6 DEF Inv

LEMMA NextInv ==
    ASSUME Inv, [Next]_vars
    PROVE  Inv'
  <1>1. ASSUME NEW c \in Clients, Execute(c)
        PROVE  Inv'
    BY <1>1, RefuseEarlyInv, PreRunInv, SetupInv, LeafPreRunInv, EnterBodyInv, OpenNextInv, RunStepInv,
       FinishInv, RunDeferredInv, CloseSpoolInv, BackstopInv, ReturnInv DEF Execute
  <1>2. ASSUME NEW c \in Clients,
               Ask(c) \/ Cancel(c) \/ GiveUp(c) \/ TakeSlot(c) \/ CheckAndBegin(c) \/ StartShell(c) \/ EndRequest(c)
        PROVE  Inv'
    BY <1>2, RequestStepInv
  <1>3. ASSUME NEW process \in Processes, Kill(process)
        PROVE  Inv'
    BY <1>3, KillInv
  <1>4. CASE UNCHANGED vars
    <2>1. UNCHANGED <<holder, slot, request, cancelled, stack, scope>>
      BY <1>4 DEF vars
    <2>2. TypeOK' /\ \A d \in Clients : Served(d)'
      BY <2>1 DEF Inv, TypeOK, Served
    <2> QED
      BY <2>1, <2>2, Unmoved DEF Inv
  <1> QED
    BY <1>1, <1>2, <1>3, <1>4 DEF Next

LEMMA Invariance == Spec => []Inv
  <1> USE InitInv, NextInv
  <1> QED
    BY PTL DEF Spec

\* Every variable keeps its type, whatever fails or is killed.
THEOREM TypeCorrect == Spec => []TypeOK
  <1>1. Inv => TypeOK
    BY DEF Inv
  <1> QED
    BY <1>1, Invariance, PTL

\* The file lock of every open transaction is held by its client, in every
\* execution of a nest of commands: no nested command, failure or panic
\* releases the lock of a transaction that is still open around it.
THEOREM TransactionsAreLocked == Spec => []OpenMeansHeld
  <1>1. Inv => OpenMeansHeld
    <2> SUFFICES ASSUME Inv, NEW c \in Clients, NEW i \in DOMAIN stack[c], NEW p \in stack[c][i].open
                 PROVE  holder[p] = c
      BY DEF OpenMeansHeld
    <2>1. Phased(stack[c][i], i)
      BY FrameFacts DEF Shape
    <2>2. PICK k \in DOMAIN stack[c][i].ctx : stack[c][i].ctx[k].lock = p
      BY <2>1 DEF Phased
    <2> DEFINE j == stack[c][i].ctx[k].owner
    <2>3. j \in DOMAIN stack[c] /\ stack[c][i].ctx[k] \in Owns(stack[c][j])
      BY FrameFacts
    <2>4. p \in Owes(stack[c][j])
      BY <2>2, <2>3 DEF Owes
    <2> QED
      BY <2>3, <2>4 DEF Inv, Charged
  <1> QED
    BY <1>1, Invariance, PTL

\* A client that runs nothing holds no lock, and only a request that was
\* admitted has the slot of the server, whichever phase failed or panicked.
THEOREM NoLockIsStranded == Spec => []NothingStranded
  <1>1. Inv => NothingStranded
    <2> SUFFICES ASSUME Inv, NEW c \in Clients
                 PROVE  /\ stack[c] = <<>> => \A p \in Locks : holder[p] # c
                        /\ request[c] \in {"idle", "waiting"} => slot # c
      BY DEF NothingStranded
    <2>1. Charged(c) /\ Served(c) /\ None \notin Clients /\ TypeOK /\ Server \cap Shells = {}
      BY LocksAssumption DEF Inv
    <2>2. stack[c] = <<>> => \A p \in Locks : holder[p] # c
      BY <2>1 DEF Charged
    <2>3. request[c] \in {"idle", "waiting"} => slot # c
      BY <2>1 DEF Served, TypeOK, Clients
    <2> QED
      BY <2>2, <2>3
  <1> QED
    BY <1>1, Invariance, PTL

\* The commands of one server run one at a time, and each of them sees the
\* library it selected, also after a nested step that selected another one.
THEOREM CommandsSeeTheirLibrary == Spec => []OwnLibrary
  <1>1. Inv => OwnLibrary
    BY DEF Inv
  <1> QED
    BY <1>1, Invariance, PTL

-----------------------------------------------------------------------------
(* A command finds the locks of its callers.  Only the lock of a delivery  *)
(* is outside the contexts, so a client can be refused by itself only over *)
(* a file that it delivers to.  B has the pairs of commands that may nest. *)

Named(cmd) == Profile[cmd].output \cup Profile[cmd].sidecars

\* No command of a nest delivers to a file that it or another one names.
DeliveriesApart(B) ==
    /\ \A a, b, d \in Commands : <<a, b>> \in B /\ <<b, d>> \in B => <<a, d>> \in B
    /\ \A a \in Commands : \A b \in Profile[a].steps : <<a, b>> \in B
    /\ \A a \in Commands : Profile[a].deliver \notin Named(a)
    /\ \A a, b \in Commands : <<a, b>> \in B =>
         /\ Profile[a].deliver \notin Named(b) \cup ({Profile[b].deliver} \ {None})
         /\ Profile[b].deliver \notin Named(a)

\* Each frame has taken files that its command names, and its context begins
\* with those of its callers.
Reuses(c, s, B) ==
    \A i \in DOMAIN s :
        /\ s[i].refusedBy # c
        /\ s[i].spool \in {None, Profile[s[i].cmd].deliver}
        /\ \A k \in DOMAIN s[i].ctx :
             s[i].ctx[k].owner = i => s[i].ctx[k].lock \in {Install} \cup Named(s[i].cmd)
        /\ \A j \in DOMAIN s : j < i =>
             /\ <<s[j].cmd, s[i].cmd>> \in B
             /\ \A k \in DOMAIN s[j].ctx : k \in DOMAIN s[i].ctx /\ s[i].ctx[k] = s[j].ctx[k]

\* What a step of the innermost execution may do to its frame.
Continues(c, g) ==
    /\ g.cmd = Top(c).cmd
    /\ g.refusedBy # c
    /\ g.spool \in {Top(c).spool, None, Profile[Top(c).cmd].deliver}
    /\ \/ g.ctx = Top(c).ctx
       \/ \E p \in {Install} \cup Named(Top(c).cmd) : g.ctx = Append(Top(c).ctx, Acquired(c, p))
       \/ \E own \in Owns(Top(c)) : g.ctx = SubSeq(Top(c).ctx, 1, own.below)

LEMMA ContinuedContext ==
    ASSUME Inv, NEW c \in Clients, stack[c] # <<>>, NEW g, Continues(c, g),
           NEW B, Reuses(c, stack[c], B)
    PROVE  /\ \A k \in DOMAIN g.ctx : g.ctx[k].owner = Len(stack[c])
                => g.ctx[k].lock \in {Install} \cup Named(Top(c).cmd)
           /\ \A j \in DOMAIN stack[c] : j < Len(stack[c]) =>
                \A k \in DOMAIN stack[c][j].ctx : k \in DOMAIN g.ctx /\ g.ctx[k] = stack[c][j].ctx[k]
  <1> DEFINE f == Top(c)
             n == Len(stack[c])
  <1>1. /\ f = stack[c][n] /\ n \in DOMAIN stack[c] /\ n \in Nat /\ f.ctx \in Seq(Ownership)
        /\ Shape(f, n) /\ DOMAIN f.ctx = 1..Len(f.ctx) /\ Len(f.ctx) \in Nat
    BY TopFacts
  <1>2. /\ \A k \in DOMAIN f.ctx : f.ctx[k].owner = n => f.ctx[k].lock \in {Install} \cup Named(f.cmd)
        /\ \A j \in DOMAIN stack[c] : j < n =>
             \A k \in DOMAIN stack[c][j].ctx : k \in DOMAIN f.ctx /\ f.ctx[k] = stack[c][j].ctx[k]
    <2>1. ASSUME NEW m \in DOMAIN stack[c]
          PROVE  /\ \A k \in DOMAIN stack[c][m].ctx : stack[c][m].ctx[k].owner = m
                      => stack[c][m].ctx[k].lock \in {Install} \cup Named(stack[c][m].cmd)
                 /\ \A j \in DOMAIN stack[c] : j < m =>
                      \A k \in DOMAIN stack[c][j].ctx :
                        k \in DOMAIN stack[c][m].ctx /\ stack[c][m].ctx[k] = stack[c][j].ctx[k]
      BY DEF Reuses
    <2> HIDE DEF f, n
    <2> QED
      BY <1>1, <2>1
  <1>3. CASE g.ctx = f.ctx
    BY <1>2, <1>3
  <1>4. ASSUME NEW p \in {Install} \cup Named(f.cmd), g.ctx = Append(f.ctx, Acquired(c, p))
        PROVE  /\ \A k \in DOMAIN g.ctx : g.ctx[k].owner = n => g.ctx[k].lock \in {Install} \cup Named(f.cmd)
               /\ \A k \in DOMAIN f.ctx : k \in DOMAIN g.ctx /\ g.ctx[k] = f.ctx[k]
    <2>1. Acquired(c, p).lock = p
      BY DEF Acquired
    <2>2. /\ DOMAIN g.ctx = 1..(Len(f.ctx) + 1) /\ g.ctx[Len(f.ctx) + 1] = Acquired(c, p)
          /\ \A k \in 1..Len(f.ctx) : g.ctx[k] = f.ctx[k]
      BY <1>1, <1>4
    <2> QED
      BY <1>1, <1>2, <1>4, <2>1, <2>2
  <1>5. ASSUME NEW own \in Owns(f), g.ctx = SubSeq(f.ctx, 1, own.below)
        PROVE  /\ \A k \in DOMAIN g.ctx : k \in DOMAIN f.ctx /\ g.ctx[k] = f.ctx[k]
               /\ \A j \in DOMAIN stack[c] : j < n => \A k \in DOMAIN stack[c][j].ctx : k \in DOMAIN g.ctx
    <2>1. /\ own.owner = n /\ own.below + 1 \in DOMAIN f.ctx /\ f.ctx[own.below + 1] = own
          /\ own.below \in Nat /\ own.below <= Len(f.ctx)
      <3>1. own \in Ownership
        BY TopFacts, OwesLocks
      <3>2. own.owner = n /\ own.below + 1 \in DOMAIN f.ctx /\ f.ctx[own.below + 1] = own
        BY <1>1 DEF Shape, Owned
      <3> QED
        BY <1>1, <3>1, <3>2 DEF Ownership
    <2>2. DOMAIN g.ctx = 1..own.below /\ \A k \in 1..own.below : k \in DOMAIN f.ctx /\ g.ctx[k] = f.ctx[k]
      <3>1. \A k \in 1..own.below : f.ctx[k] \in Ownership
        BY <1>1, <2>1
      <3>2. /\ SubSeq(f.ctx, 1, own.below) \in Seq(Ownership)
            /\ Len(SubSeq(f.ctx, 1, own.below)) = IF 1 <= own.below THEN own.below - 1 + 1 ELSE 0
            /\ \A k \in 1..(own.below - 1 + 1) : SubSeq(f.ctx, 1, own.below)[k] = f.ctx[1 + k - 1]
        BY <2>1, <3>1, SubSeqProperties
      <3>3. Len(g.ctx) = own.below /\ DOMAIN g.ctx = 1..Len(g.ctx)
        BY <1>5, <2>1, <3>2
      <3>4. \A k \in 1..own.below : g.ctx[k] = f.ctx[k] /\ k \in DOMAIN f.ctx
        <4>1. \A k \in 1..own.below : k \in 1..(own.below - 1 + 1) /\ 1 + k - 1 = k /\ k \in 1..Len(f.ctx)
          BY <1>1, <2>1
        <4> QED
          BY <1>1, <1>5, <3>2, <4>1
      <3> QED
        BY <3>3, <3>4
    <2>3. ASSUME NEW j \in DOMAIN stack[c], j < n, NEW k \in DOMAIN stack[c][j].ctx
          PROVE  k \in DOMAIN g.ctx
      <3>1. /\ stack[c][j].ctx \in Seq(Ownership) /\ Placed(stack[c][j], j)
            /\ DOMAIN stack[c][j].ctx = 1..Len(stack[c][j].ctx) /\ j \in Nat
        <4>1. stack[c][j] \in Frame /\ Shape(stack[c][j], j) /\ j \in Nat
          BY FrameIn
        <4> QED
          BY <4>1 DEF Shape, Frame
      <3>2. own.below + 1 \notin DOMAIN stack[c][j].ctx
        <4>1. SUFFICES ASSUME own.below + 1 \in DOMAIN stack[c][j].ctx PROVE FALSE
          OBVIOUS
        <4>2. stack[c][j].ctx[own.below + 1] = own
          BY <1>2, <2>1, <2>3, <4>1
        <4>3. own.owner \in 1..j
          BY <3>1, <4>1, <4>2 DEF Placed
        <4> QED
          BY <1>1, <2>1, <2>3, <3>1, <4>3
      <3> QED
        BY <2>1, <2>2, <3>1, <3>2, <2>3
    <2> QED
      BY <2>2, <2>3
  <1>6. CASE \E p \in {Install} \cup Named(f.cmd) : g.ctx = Append(f.ctx, Acquired(c, p))
    <2>1. /\ \A k \in DOMAIN g.ctx : g.ctx[k].owner = n => g.ctx[k].lock \in {Install} \cup Named(f.cmd)
          /\ \A k \in DOMAIN f.ctx : k \in DOMAIN g.ctx /\ g.ctx[k] = f.ctx[k]
      BY <1>4, <1>6
    <2> QED
      BY <1>2, <2>1
  <1>7. CASE \E own \in Owns(f) : g.ctx = SubSeq(f.ctx, 1, own.below)
    <2>1. /\ \A k \in DOMAIN g.ctx : k \in DOMAIN f.ctx /\ g.ctx[k] = f.ctx[k]
          /\ \A j \in DOMAIN stack[c] : j < n => \A k \in DOMAIN stack[c][j].ctx : k \in DOMAIN g.ctx
      BY <1>5, <1>7
    <2> QED
      BY <1>2, <2>1
  <1> QED
    BY <1>3, <1>6, <1>7 DEF Continues

LEMMA ReusesContinued ==
    ASSUME Inv, NEW c \in Clients, stack[c] # <<>>, NEW g, SetTop(c, g), Continues(c, g),
           NEW B, Reuses(c, stack[c], B)
    PROVE  Reuses(c, stack'[c], B) /\ \A d \in Clients : d # c => stack'[d] = stack[d]
  <1> DEFINE n == Len(stack[c])
             s == stack'[c]
  <1>1. /\ Top(c) = stack[c][n] /\ n \in DOMAIN stack[c] /\ n \in Nat /\ stack \in [Clients -> Seq(Frame)]
        /\ DOMAIN stack[c] = 1..n
    BY TopFrame DEF Inv, TypeOK
  <1>2. /\ s = [stack[c] EXCEPT ![n] = g]
        /\ \A d \in Clients : d # c => stack'[d] = stack[d]
    BY <1>1 DEF SetTop
  <1>3. /\ DOMAIN s = DOMAIN stack[c]
        /\ \A i \in DOMAIN stack[c] : s[i] = IF i = n THEN g ELSE stack[c][i]
    BY <1>1, <1>2
  <1>4. /\ \A k \in DOMAIN g.ctx : g.ctx[k].owner = n => g.ctx[k].lock \in {Install} \cup Named(Top(c).cmd)
        /\ \A j \in DOMAIN stack[c] : j < n =>
             \A k \in DOMAIN stack[c][j].ctx : k \in DOMAIN g.ctx /\ g.ctx[k] = stack[c][j].ctx[k]
    BY ContinuedContext
  <1>5. g.cmd = Top(c).cmd /\ g.refusedBy # c /\ g.spool \in {None, Profile[g.cmd].deliver}
    BY <1>1 DEF Continues, Reuses
  <1> HIDE DEF s
  <1>6. ASSUME NEW i \in DOMAIN s, NEW j \in DOMAIN s, j < i
        PROVE  /\ <<s[j].cmd, s[i].cmd>> \in B
               /\ \A k \in DOMAIN s[j].ctx : k \in DOMAIN s[i].ctx /\ s[i].ctx[k] = s[j].ctx[k]
    <2>1. j # n /\ s[j] = stack[c][j] /\ j \in DOMAIN stack[c] /\ i \in DOMAIN stack[c]
      BY <1>1, <1>3, <1>6
    <2>2. <<stack[c][j].cmd, stack[c][i].cmd>> \in B
      BY <1>6, <2>1 DEF Reuses
    <2>3. CASE i = n
      <3>1. s[i] = g /\ Top(c) = stack[c][i]
        BY <1>1, <1>3, <2>3
      <3>2. <<s[j].cmd, s[i].cmd>> \in B
        BY <1>5, <2>1, <2>2, <3>1
      <3>3. \A k \in DOMAIN stack[c][j].ctx : k \in DOMAIN g.ctx /\ g.ctx[k] = stack[c][j].ctx[k]
        BY <1>4, <1>6, <2>1, <2>3
      <3> QED
        BY <2>1, <3>1, <3>2, <3>3
    <2>4. CASE i # n
      <3>1. s[i] = stack[c][i]
        BY <1>3, <2>1, <2>4
      <3> QED
        BY <1>6, <2>1, <3>1 DEF Reuses
    <2> QED
      BY <2>3, <2>4
  <1>7. ASSUME NEW i \in DOMAIN s
        PROVE  /\ s[i].refusedBy # c /\ s[i].spool \in {None, Profile[s[i].cmd].deliver}
               /\ \A k \in DOMAIN s[i].ctx :
                    s[i].ctx[k].owner = i => s[i].ctx[k].lock \in {Install} \cup Named(s[i].cmd)
    <2>1. CASE i = n
      BY <1>1, <1>3, <1>4, <1>5, <2>1
    <2>2. CASE i # n
      <3>1. s[i] = stack[c][i] /\ i \in DOMAIN stack[c]
        BY <1>3, <2>2
      <3> QED
        BY <3>1 DEF Reuses
    <2> QED
      BY <2>1, <2>2
  <1>8. Reuses(c, s, B)
    BY <1>6, <1>7 DEF Reuses
  <1> QED
    BY <1>2, <1>8 DEF s

\* Who holds a lock of its own: the lock is in its context, or a frame
\* delivers to it.
LEMMA HeldByItself ==
    ASSUME Inv, NEW c \in Clients, stack[c] # <<>>, NEW B, Reuses(c, stack[c], B),
           NEW p \in Locks, holder[p] = c
    PROVE  \/ Held(Top(c), p) /\ \E i \in DOMAIN stack[c] : p \in {Install} \cup Named(stack[c][i].cmd)
           \/ \E i \in DOMAIN stack[c] : stack[c][i].spool = p
  <1> DEFINE n == Len(stack[c])
  <1>1. Top(c) = stack[c][n] /\ n \in DOMAIN stack[c] /\ DOMAIN stack[c] = 1..n /\ n \in Nat
    BY TopFrame DEF Inv
  <1>2. PICK i \in DOMAIN stack[c] : p \in Owes(stack[c][i])
    BY DEF Inv, Charged
  <1>3. CASE stack[c][i].spool = p
    BY <1>3
  <1>4. CASE \E o \in Owns(stack[c][i]) : o.lock = p
    <2>1. PICK o \in Owns(stack[c][i]) : o.lock = p
      BY <1>4
    <2>2. /\ o.owner = i /\ o.below + 1 \in DOMAIN stack[c][i].ctx
          /\ stack[c][i].ctx[o.below + 1] = o
      BY FrameFacts DEF Shape, Owned
    <2>3. p \in {Install} \cup Named(stack[c][i].cmd)
      BY <2>1, <2>2 DEF Reuses
    <2>4. o.below + 1 \in DOMAIN stack[c][n].ctx /\ stack[c][n].ctx[o.below + 1] = o
      <3>1. CASE i = n
        BY <2>2, <3>1
      <3>2. CASE i # n
        <4>1. i < n
          BY <1>1, <3>2
        <4>2. \A k \in DOMAIN stack[c][i].ctx :
                k \in DOMAIN stack[c][n].ctx /\ stack[c][n].ctx[k] = stack[c][i].ctx[k]
          BY <1>1, <4>1 DEF Reuses
        <4> QED
          BY <2>2, <4>2
      <3> QED
        BY <3>1, <3>2
    <2> QED
      BY <1>1, <2>1, <2>3, <2>4 DEF Held
  <1> QED
    BY <1>2, <1>3, <1>4 DEF Owes

LEMMA NotByItself ==
    ASSUME Inv, NEW c \in Clients, stack[c] # <<>>, NEW B, DeliveriesApart(B), Reuses(c, stack[c], B),
           NEW p \in Locks,
           \/ p \in {Install} \cup Named(Top(c).cmd) /\ ~Held(Top(c), p)
           \/ p = Profile[Top(c).cmd].deliver /\ Top(c).spool = None
    PROVE  holder[p] # c
  <1> SUFFICES ASSUME holder[p] = c PROVE FALSE
    OBVIOUS
  <1> DEFINE n == Len(stack[c])
  <1>1. /\ Top(c) = stack[c][n] /\ n \in DOMAIN stack[c] /\ DOMAIN stack[c] = 1..n /\ n \in Nat
        /\ None \notin Locks /\ Install \notin Paths /\ Profile \in [Commands -> ProfileType]
    BY TopFrame, LocksAssumption DEF Inv
  <1>2. ASSUME NEW i \in DOMAIN stack[c]
        PROVE  /\ stack[c][i].cmd \in Commands /\ stack[c][i].spool \in Paths \cup {None}
               /\ stack[c][i].spool # None => stack[c][i].spool = Profile[stack[c][i].cmd].deliver
               /\ i # n => <<stack[c][i].cmd, Top(c).cmd>> \in B
    <2>1. stack[c][i] \in Frame
      BY FrameIn
    <2>2. i # n => i < n
      BY <1>1
    <2>3. i # n => <<stack[c][i].cmd, stack[c][n].cmd>> \in B
      BY <1>1, <2>2 DEF Reuses
    <2>4. stack[c][i].spool # None => stack[c][i].spool = Profile[stack[c][i].cmd].deliver
      BY DEF Reuses
    <2> QED
      BY <1>1, <2>1, <2>3, <2>4 DEF Frame
  <1>3. Top(c).cmd \in Commands
    BY <1>1, <1>2
  <1>4. \/ Held(Top(c), p) /\ \E i \in DOMAIN stack[c] : p \in {Install} \cup Named(stack[c][i].cmd)
        \/ \E i \in DOMAIN stack[c] : stack[c][i].spool = p
    BY HeldByItself
  <1>5. ASSUME NEW i \in DOMAIN stack[c], stack[c][i].spool = p
        PROVE  FALSE
    <2>1. p \in Paths /\ p # Install /\ p # None /\ p = Profile[stack[c][i].cmd].deliver
      BY <1>1, <1>2, <1>5
    <2>2. CASE i = n
      BY <1>1, <1>3, <1>5, <2>1, <2>2 DEF DeliveriesApart
    <2>3. CASE i # n
      <3> DEFINE a == stack[c][i].cmd
                 b == Top(c).cmd
      <3>1. a \in Commands /\ b \in Commands /\ <<a, b>> \in B
        BY <1>2, <1>3, <2>3
      <3>2. /\ Profile[a].deliver \notin Named(b) \cup ({Profile[b].deliver} \ {None})
            /\ Profile[b].deliver \notin Named(a)
        BY <3>1 DEF DeliveriesApart
      <3> QED
        BY <1>1, <1>5, <2>1, <3>2
    <2> QED
      BY <2>2, <2>3
  <1>6. ASSUME NEW i \in DOMAIN stack[c], p \in {Install} \cup Named(stack[c][i].cmd),
               p = Profile[Top(c).cmd].deliver
        PROVE  FALSE
    <2>1. p # Install
      BY <1>1, <1>3, <1>6 DEF ProfileType
    <2>2. CASE i = n
      BY <1>1, <1>3, <1>6, <2>1, <2>2 DEF DeliveriesApart
    <2>3. CASE i # n
      <3> DEFINE a == stack[c][i].cmd
                 b == Top(c).cmd
      <3>1. a \in Commands /\ b \in Commands /\ <<a, b>> \in B
        BY <1>2, <1>3, <2>3
      <3>2. /\ Profile[a].deliver \notin Named(b) \cup ({Profile[b].deliver} \ {None})
            /\ Profile[b].deliver \notin Named(a)
        BY <3>1 DEF DeliveriesApart
      <3> QED
        BY <1>1, <1>6, <2>1, <3>2
    <2> QED
      BY <2>2, <2>3
  <1> QED
    BY <1>4, <1>5, <1>6

\* A step of the innermost execution, and what it finds.
LEMMA StepReuses ==
    ASSUME Inv, NEW c \in Clients, NEW B, DeliveriesApart(B), Reuses(c, stack[c], B),
           \/ RefuseEarly(c) \/ PreRun(c) \/ Setup(c) \/ LeafPreRun(c) \/ EnterBody(c)
           \/ OpenNext(c) \/ Finish(c) \/ RunDeferred(c) \/ CloseSpool(c) \/ Backstop(c)
    PROVE  stack[c] # <<>> /\ \E g : SetTop(c, g) /\ Continues(c, g)
  <1> DEFINE f == Top(c)
  <1>1. stack[c] # <<>>
    BY DEF RefuseEarly, PreRun, Setup, LeafPreRun, EnterBody, OpenNext, Finish, RunDeferred,
           CloseSpool, Backstop, AtBoundary, At
  <1>2. f \in Frame /\ Phased(f, Len(stack[c])) /\ f.defers \in Seq(Ownership)
    BY <1>1, TopFacts DEF Shape
  <1>3. f.refusedBy # c /\ None \notin Clients
    BY <1>1, TopFacts, LocksAssumption DEF Reuses
  <1>4. ASSUME NEW g, g.cmd = f.cmd, g.ctx = f.ctx, g.refusedBy = f.refusedBy,
               g.spool \in {f.spool, None, Profile[f.cmd].deliver}
        PROVE  Continues(c, g)
    BY <1>3, <1>4 DEF Continues
  <1>5. ASSUME NEW outcome, NEW ds, SetTop(c, Unwinding(f, outcome, ds))
        PROVE  \E g : SetTop(c, g) /\ Continues(c, g)
    <2> DEFINE g == Unwinding(f, outcome, ds)
    <2>1. g.cmd = f.cmd /\ g.ctx = f.ctx /\ g.refusedBy = f.refusedBy /\ g.spool = f.spool
      BY <1>2 DEF Unwinding, Frame
    <2> QED
      BY <1>4, <1>5, <2>1
  <1>6. ASSUME NEW p \in Locks, Refused(c, p),
               \/ p \in {Install} \cup Named(f.cmd) /\ ~Held(f, p)
               \/ p = Profile[f.cmd].deliver /\ f.spool = None
        PROVE  \E g : SetTop(c, g) /\ Continues(c, g)
    <2> DEFINE g == [Unwinding(f, "error", f.defers) EXCEPT !.refusedBy = holder[p]]
    <2>1. g.cmd = f.cmd /\ g.ctx = f.ctx /\ g.refusedBy = holder[p] /\ g.spool = f.spool
      BY <1>2 DEF Unwinding, Frame
    <2>2. holder[p] # c
      BY <1>1, <1>6, NotByItself
    <2>3. Continues(c, g)
      BY <2>1, <2>2 DEF Continues
    <2> QED
      BY <1>6, <2>3 DEF Refused
  <1>7. CASE PreRun(c)
    <2> DEFINE e == [f EXCEPT !.phase = "setup"]
               t == [e EXCEPT !.tracked = Acquired(c, Install)]
               g == [t EXCEPT !.ctx = Append(@, Acquired(c, Install)), !.defers = Append(@, Acquired(c, Install))]
    <2>1. \/ SetTop(c, e)
          \/ SetTop(c, g)
          \/ ~Held(e, Install) /\ Refused(c, Install)
      BY <1>7 DEF PreRun, Takes
    <2>2. /\ e.cmd = f.cmd /\ e.ctx = f.ctx /\ e.refusedBy = f.refusedBy /\ e.spool = f.spool
          /\ g.cmd = f.cmd /\ g.ctx = Append(f.ctx, Acquired(c, Install))
          /\ g.refusedBy = f.refusedBy /\ g.spool = f.spool
      BY <1>2 DEF Frame
    <2>3. Held(e, Install) = Held(f, Install)
      BY <2>2 DEF Held
    <2>4. Continues(c, g)
      BY <1>3, <2>2 DEF Continues
    <2>5. Install \in Locks
      BY DEF Locks
    <2> HIDE DEF g, e
    <2> QED
      BY <1>1, <1>4, <1>6, <2>1, <2>2, <2>3, <2>4, <2>5
  <1>8. CASE Setup(c)
    <2> DEFINE d == Profile[f.cmd].deliver
               e == [f EXCEPT !.spool = d]
    <2>1. f.spool = None
      BY <1>2, <1>8 DEF Setup, At, Phased
    <2>2. ASSUME NEW h, h \in {f, e}
          PROVE  /\ h.cmd = f.cmd /\ h.ctx = f.ctx /\ h.refusedBy = f.refusedBy /\ h.spool \in {f.spool, d}
                 /\ DOMAIN h = DOMAIN f /\ "phase" \in DOMAIN h /\ "defers" \in DOMAIN h
                 /\ h = [x \in DOMAIN h |-> h[x]] /\ "outcome" \in DOMAIN h /\ "open" \in DOMAIN h
      BY <1>2, <2>2 DEF Frame
    <2>3. \/ \E h \in {f, e} : SetTop(c, [h EXCEPT !.phase = "leaf", !.defers = <<>>])
          \/ \E h \in {f, e} : \E outcome \in Failures : SetTop(c, Unwinding(h, outcome, h.defers))
          \/ d # None /\ Refused(c, d)
      BY <1>8 DEF Setup, Prof
    <2>4. ASSUME NEW h \in {f, e}, SetTop(c, [h EXCEPT !.phase = "leaf", !.defers = <<>>])
          PROVE  \E g : SetTop(c, g) /\ Continues(c, g)
      <3> DEFINE g == [h EXCEPT !.phase = "leaf", !.defers = <<>>]
      <3>1. g.cmd = f.cmd /\ g.ctx = f.ctx /\ g.refusedBy = f.refusedBy /\ g.spool \in {f.spool, d}
        BY <1>2, <2>2 DEF Frame
      <3> QED
        BY <1>4, <2>4, <3>1
    <2>5. ASSUME NEW h \in {f, e}, NEW outcome \in Failures, SetTop(c, Unwinding(h, outcome, h.defers))
          PROVE  \E g : SetTop(c, g) /\ Continues(c, g)
      <3> DEFINE g == Unwinding(h, outcome, h.defers)
      <3>1. g.cmd = f.cmd /\ g.ctx = f.ctx /\ g.refusedBy = f.refusedBy /\ g.spool \in {f.spool, d}
        BY <1>2, <2>2 DEF Frame, Unwinding
      <3> QED
        BY <1>4, <2>5, <3>1
    <2>6. ASSUME d # None, Refused(c, d)
          PROVE  \E g : SetTop(c, g) /\ Continues(c, g)
      <3>1. d \in Locks
        BY <1>2, <2>6, LocksAssumption DEF Locks, ProfileType, Frame
      <3> QED
        BY <1>6, <2>1, <2>6, <3>1
    <2> QED
      BY <1>1, <2>3, <2>4, <2>5, <2>6
  <1>9. CASE LeafPreRun(c) \/ Finish(c) \/ RefuseEarly(c)
    <2> DEFINE e == [f EXCEPT !.phase = "run"]
    <2>1. SetTop(c, e) \/ \E outcome, ds : SetTop(c, Unwinding(f, outcome, ds))
      BY <1>9 DEF LeafPreRun, Finish, RefuseEarly
    <2>2. e.cmd = f.cmd /\ e.ctx = f.ctx /\ e.refusedBy = f.refusedBy /\ e.spool = f.spool
      BY <1>2 DEF Frame
    <2> HIDE DEF e
    <2> QED
      BY <1>1, <1>4, <1>5, <2>1, <2>2
  <1>10. CASE EnterBody(c)
    <2> DEFINE e == [f EXCEPT !.phase = "body", !.defers = Handoff(c), !.open = {Install}]
               h == [f EXCEPT !.phase = "body"]
    <2>1. SetTop(c, e) \/ SetTop(c, h)
      BY <1>10 DEF EnterBody
    <2>2. /\ e.cmd = f.cmd /\ e.ctx = f.ctx /\ e.refusedBy = f.refusedBy /\ e.spool = f.spool
          /\ h.cmd = f.cmd /\ h.ctx = f.ctx /\ h.refusedBy = f.refusedBy /\ h.spool = f.spool
      BY <1>2 DEF Frame
    <2> HIDE DEF e, h
    <2> QED
      BY <1>1, <1>4, <2>1, <2>2
  <1>11. CASE OpenNext(c)
    <2>1. PICK p \in StillWanted(f) : OpenTransaction(c, p)
      BY <1>11 DEF OpenNext
    <2>2. p \in {Install} \cup Named(f.cmd) /\ p \in Locks
      <3>1. p \in {Install} \cup Named(f.cmd)
        BY <2>1 DEF StillWanted, Wanted, Named, Prof
      <3> QED
        BY <1>2, <3>1, LocksAssumption DEF Named, Locks, ProfileType, Frame
    <2> DEFINE e == [f EXCEPT !.open = @ \cup {p}]
               g == [e EXCEPT !.ctx = Append(@, Acquired(c, p)), !.defers = Append(@, Acquired(c, p))]
    <2>3. SetTop(c, e) \/ SetTop(c, g) \/ (~Held(e, p) /\ Refused(c, p))
      BY <2>1 DEF OpenTransaction, Takes
    <2>4. /\ e.cmd = f.cmd /\ e.ctx = f.ctx /\ e.refusedBy = f.refusedBy /\ e.spool = f.spool
          /\ g.cmd = f.cmd /\ g.ctx = Append(f.ctx, Acquired(c, p))
          /\ g.refusedBy = f.refusedBy /\ g.spool = f.spool
      BY <1>2 DEF Frame
    <2>5. Held(e, p) = Held(f, p)
      BY <2>4 DEF Held
    <2>6. Continues(c, g)
      BY <1>3, <2>2, <2>4 DEF Continues
    <2> HIDE DEF g, e
    <2> QED
      BY <1>1, <1>4, <1>6, <2>2, <2>3, <2>4, <2>5, <2>6
  <1>12. ASSUME NEW own \in Owns(f), NEW ds, SetTop(c, [Released(f, own) EXCEPT !.defers = ds])
         PROVE  \E g : SetTop(c, g) /\ Continues(c, g)
    <2> DEFINE g == [Released(f, own) EXCEPT !.defers = ds]
    <2>1. /\ g.cmd = f.cmd /\ g.ctx = SubSeq(f.ctx, 1, own.below)
          /\ g.refusedBy = f.refusedBy /\ g.spool = f.spool
      BY <1>2 DEF Released, Frame
    <2>2. Continues(c, g)
      BY <1>3, <2>1 DEF Continues
    <2> QED
      BY <1>12, <2>2
  <1>13. CASE RunDeferred(c)
    <2> DEFINE own == Last(f.defers)
    <2>1. f.defers # <<>> /\ SetTop(c, [Released(f, own) EXCEPT !.defers = Front(Released(f, own).defers)])
      BY <1>13 DEF RunDeferred
    <2>2. own \in Owns(f)
      <3>1. Len(f.defers) \in DOMAIN f.defers
        BY <1>2, <2>1, EmptySeq
      <3> QED
        BY <3>1 DEF Owns, Last
    <2> QED
      BY <1>1, <1>12, <2>1, <2>2
  <1>14. CASE Backstop(c)
    <2> DEFINE own == f.tracked
               g == Released(f, own)
    <2>1. SetTop(c, g) /\ own \in Owns(f)
      BY <1>14 DEF Backstop, Owns
    <2>2. /\ g.cmd = f.cmd /\ g.ctx = SubSeq(f.ctx, 1, own.below)
          /\ g.refusedBy = f.refusedBy /\ g.spool = f.spool
      BY <1>2 DEF Released, Frame
    <2>3. Continues(c, g)
      BY <1>3, <2>1, <2>2 DEF Continues
    <2> QED
      BY <1>1, <2>1, <2>3
  <1>15. CASE CloseSpool(c)
    <2>1. PICK outcome : SetTop(c, [f EXCEPT !.spool = None, !.outcome = outcome])
      BY <1>15 DEF CloseSpool
    <2> DEFINE g == [f EXCEPT !.spool = None, !.outcome = outcome]
    <2>2. g.cmd = f.cmd /\ g.ctx = f.ctx /\ g.refusedBy = f.refusedBy /\ g.spool = None
      BY <1>2 DEF Frame
    <2> QED
      BY <1>1, <1>4, <2>1, <2>2
  <1> QED
    BY <1>1, <1>7, <1>8, <1>9, <1>10, <1>11, <1>13, <1>14, <1>15

\* Frames that keep what Reuses is about.
LEMMA ReusesKept ==
    ASSUME NEW c, NEW B, NEW r, Reuses(c, r, B), NEW s, DOMAIN s \subseteq DOMAIN r,
           \A i \in DOMAIN s : /\ s[i].cmd = r[i].cmd /\ s[i].ctx = r[i].ctx
                               /\ s[i].refusedBy = r[i].refusedBy /\ s[i].spool = r[i].spool
    PROVE  Reuses(c, s, B)
  <1>1. ASSUME NEW i \in DOMAIN s
        PROVE  /\ s[i].refusedBy # c
               /\ s[i].spool \in {None, Profile[s[i].cmd].deliver}
               /\ \A k \in DOMAIN s[i].ctx :
                    s[i].ctx[k].owner = i => s[i].ctx[k].lock \in {Install} \cup Named(s[i].cmd)
    <2>1. i \in DOMAIN r
      OBVIOUS
    <2> QED
      BY <2>1 DEF Reuses
  <1>2. ASSUME NEW i \in DOMAIN s, NEW j \in DOMAIN s, j < i
        PROVE  /\ <<s[j].cmd, s[i].cmd>> \in B
               /\ \A k \in DOMAIN s[j].ctx : k \in DOMAIN s[i].ctx /\ s[i].ctx[k] = s[j].ctx[k]
    <2>1. i \in DOMAIN r /\ j \in DOMAIN r
      OBVIOUS
    <2>2. /\ <<r[j].cmd, r[i].cmd>> \in B
          /\ \A k \in DOMAIN r[j].ctx : k \in DOMAIN r[i].ctx /\ r[i].ctx[k] = r[j].ctx[k]
      BY <1>2, <2>1 DEF Reuses
    <2> QED
      BY <2>2
  <1> QED
    BY <1>1, <1>2 DEF Reuses

LEMMA ReturnReuses ==
    ASSUME Inv, NEW c \in Clients, NEW B, Reuses(c, stack[c], B), Return(c)
    PROVE  Reuses(c, stack'[c], B) /\ \A d \in Clients : d # c => stack'[d] = stack[d]
  <1> DEFINE f == Top(c)
             n == Len(stack[c])
             m == n - 1
             rest == Front(stack[c])
             g == Unwinding(Last(rest), "panic", Last(rest).defers)
             s == IF rest # <<>> /\ f.outcome = "panic" THEN [rest EXCEPT ![Len(rest)] = g] ELSE rest
  <1>1. stack[c] # <<>> /\ stack' = [stack EXCEPT ![c] = s] /\ stack \in [Clients -> Seq(Frame)]
    BY DEF Return, AtBoundary, At, Inv, TypeOK
  <1>2. /\ n \in Nat /\ n >= 1 /\ stack[c] \in Seq(Frame) /\ DOMAIN stack[c] = 1..n
    BY <1>1, TopFrame DEF Inv
  <1>3. /\ rest \in Seq(Frame) /\ Len(rest) = m /\ DOMAIN rest = 1..m /\ m \in Nat
        /\ \A i \in 1..m : rest[i] = stack[c][i] /\ i \in DOMAIN stack[c] /\ rest[i] \in Frame
    <2>1. /\ rest \in Seq(Frame) /\ Len(rest) = m /\ DOMAIN rest = 1..m /\ m \in Nat
          /\ \A i \in 1..m : rest[i] = stack[c][i] /\ i \in DOMAIN stack[c]
      <3>1. stack[c] # <<>> /\ stack[c] \in Seq(Frame) /\ m \in Nat
        BY <1>1, <1>2
      <3> QED
        BY <3>1, FrontShape
    <2> HIDE DEF rest
    <2> QED
      BY <2>1
  <1>4. DOMAIN s = 1..m
    BY <1>3
  <1>5. ASSUME NEW i \in DOMAIN s
        PROVE  /\ s[i].cmd = stack[c][i].cmd /\ s[i].ctx = stack[c][i].ctx
               /\ s[i].refusedBy = stack[c][i].refusedBy /\ s[i].spool = stack[c][i].spool
               /\ i \in DOMAIN stack[c]
    <2>1. i \in 1..m /\ rest[i] = stack[c][i] /\ i \in DOMAIN stack[c] /\ rest[i] \in Frame
      BY <1>3, <1>4
    <2>2. CASE s[i] = rest[i]
      BY <2>1, <2>2
    <2>3. CASE s[i] # rest[i]
      <3>1. i = Len(rest) /\ s[i] = Unwinding(rest[i], "panic", rest[i].defers)
        BY <1>3, <2>1, <2>3 DEF Last
      <3> HIDE DEF s, rest
      <3> QED
        BY <2>1, <3>1 DEF Unwinding, Frame
    <2> QED
      BY <2>2, <2>3
  <1>6. stack'[c] = s /\ \A d \in Clients : d # c => stack'[d] = stack[d]
    BY <1>1
  <1> HIDE DEF s
  <1>7. DOMAIN s \subseteq DOMAIN stack[c]
    BY <1>5
  <1>8. Reuses(c, s, B)
    BY <1>5, <1>7, ReusesKept
  <1> QED
    BY <1>6, <1>8

LEMMA RunStepReuses ==
    ASSUME Inv, NEW c \in Clients, NEW B, DeliveriesApart(B), Reuses(c, stack[c], B), RunStep(c)
    PROVE  Reuses(c, stack'[c], B) /\ \A d \in Clients : d # c => stack'[d] = stack[d]
  <1> DEFINE f == Top(c)
             n == Len(stack[c])
             g == [f EXCEPT !.steps = @ + 1]
             t == [stack[c] EXCEPT ![n] = g]
             r == stack[c]
  <1>1. stack[c] # <<>> /\ stack \in [Clients -> Seq(Frame)]
    BY DEF RunStep, At, Inv, TypeOK
  <1>2. PICK cmd \in Prof(f).steps :
           stack' = [stack EXCEPT ![c] = Append(t, NewFrame(cmd, f.ctx, scope[ProcessOf(c)]))]
    BY DEF RunStep
  <1> DEFINE h == NewFrame(cmd, f.ctx, scope[ProcessOf(c)])
             s == Append(t, h)
  <1>3. /\ f \in Frame /\ n \in Nat /\ n >= 1 /\ f = r[n] /\ n \in DOMAIN r /\ r \in Seq(Frame)
        /\ DOMAIN r = 1..n /\ n \in 1..n /\ Placed(f, n)
    BY <1>1, TopFrame, TopShape DEF Inv
  <1>4. h.cmd = cmd /\ h.ctx = f.ctx /\ h.refusedBy = None /\ h.spool = None /\ None # c
    BY LocksAssumption DEF NewFrame
  <1>5. /\ g.cmd = f.cmd /\ g.ctx = f.ctx /\ g.refusedBy = f.refusedBy /\ g.spool = f.spool
        /\ g.phase = f.phase
    BY <1>3 DEF Frame
  <1>6. stack'[c] = s /\ \A d \in Clients : d # c => stack'[d] = stack[d]
    BY <1>1, <1>2
  <1>7. DOMAIN t = 1..n /\ \A i \in 1..n : t[i] = IF i = n THEN g ELSE r[i]
    BY <1>3
  <1>8. t \in Seq({t[i] : i \in 1..n}) /\ Len(t) = n
    <2>1. t = [i \in 1..n |-> t[i]]
      BY <1>7
    <2> HIDE DEF t
    <2>2. \A i \in 1..n : t[i] \in {t[j] : j \in 1..n}
      OBVIOUS
    <2> QED
      BY <1>3, <1>7, <2>1, <2>2
  <1> HIDE DEF h, g, t
  <1>9. /\ DOMAIN s = 1..(n + 1) /\ s[n + 1] = h /\ \A i \in 1..n : s[i] = t[i]
    BY <1>3, <1>8
  <1> HIDE DEF s
  <1>10. ASSUME NEW i \in 1..n
         PROVE  /\ s[i].cmd = r[i].cmd /\ s[i].ctx = r[i].ctx /\ i \in DOMAIN r
                /\ s[i].refusedBy = r[i].refusedBy /\ s[i].spool = r[i].spool
    BY <1>3, <1>5, <1>7, <1>9
  <1>11. <<f.cmd, cmd>> \in B /\ f.cmd \in Commands /\ cmd \in Commands
    <2>1. f.cmd \in Commands
      BY <1>3 DEF Frame
    <2>2. cmd \in Commands /\ cmd \in Profile[f.cmd].steps
      BY <1>2, <2>1, LocksAssumption DEF Prof, ProfileType
    <2> QED
      BY <2>1, <2>2 DEF DeliveriesApart
  <1>12. ASSUME NEW i \in DOMAIN s
         PROVE  /\ s[i].refusedBy # c
                /\ s[i].spool \in {None, Profile[s[i].cmd].deliver}
                /\ \A k \in DOMAIN s[i].ctx :
                     s[i].ctx[k].owner = i => s[i].ctx[k].lock \in {Install} \cup Named(s[i].cmd)
    <2>1. CASE i \in 1..n
      BY <1>10, <2>1 DEF Reuses
    <2>2. CASE i = n + 1
      <3>1. \A k \in DOMAIN f.ctx : f.ctx[k].owner # n + 1
        BY <1>3 DEF Placed
      <3> QED
        BY <1>4, <1>9, <2>2, <3>1
    <2> QED
      BY <1>3, <1>9, <2>1, <2>2
  <1>13. ASSUME NEW i \in DOMAIN s, NEW j \in DOMAIN s, j < i
         PROVE  /\ <<s[j].cmd, s[i].cmd>> \in B
                /\ \A k \in DOMAIN s[j].ctx : k \in DOMAIN s[i].ctx /\ s[i].ctx[k] = s[j].ctx[k]
    <2>1. j \in 1..n
      BY <1>3, <1>9, <1>13
    <2>2. ASSUME NEW k \in 1..n, j < k
          PROVE  /\ <<r[j].cmd, r[k].cmd>> \in B
                 /\ \A l \in DOMAIN r[j].ctx : l \in DOMAIN r[k].ctx /\ r[k].ctx[l] = r[j].ctx[l]
      BY <1>3, <2>1, <2>2 DEF Reuses
    <2>3. CASE i \in 1..n
      BY <1>10, <1>13, <2>1, <2>2, <2>3
    <2>4. CASE i = n + 1
      <3>1. s[i].cmd = cmd /\ s[i].ctx = f.ctx
        BY <1>4, <1>9, <2>4
      <3>2. r[j].cmd \in Commands
        <4>1. r[j] \in Frame
          BY <1>3, <2>1
        <4> QED
          BY <4>1 DEF Frame
      <3>3. CASE j = n
        BY <1>3, <1>10, <1>11, <2>1, <3>1, <3>3
      <3>4. CASE j # n
        <4>1. /\ <<r[j].cmd, f.cmd>> \in B
              /\ \A l \in DOMAIN r[j].ctx : l \in DOMAIN f.ctx /\ f.ctx[l] = r[j].ctx[l]
          <5>1. j < n /\ n \in 1..n
            BY <1>3, <2>1, <3>4
          <5>2. /\ <<r[j].cmd, r[n].cmd>> \in B
                /\ \A l \in DOMAIN r[j].ctx : l \in DOMAIN r[n].ctx /\ r[n].ctx[l] = r[j].ctx[l]
            BY <2>2, <5>1
          <5> QED
            BY <1>3, <5>2
        <4>2. <<r[j].cmd, cmd>> \in B
          BY <1>11, <3>2, <4>1 DEF DeliveriesApart
        <4> QED
          BY <1>10, <2>1, <3>1, <4>1, <4>2
      <3> QED
        BY <3>3, <3>4
    <2> QED
      BY <1>3, <1>9, <2>3, <2>4
  <1> QED
    BY <1>6, <1>12, <1>13 DEF Reuses

\* A client that runs nothing, or has just begun, has nothing to reuse.
LEMMA NothingToReuse ==
    ASSUME NEW c \in Clients, NEW B, NEW s, DOMAIN s = {} \/ (DOMAIN s = {1} /\ \E cmd, x : s[1] = NewFrame(cmd, <<>>, x))
    PROVE  Reuses(c, s, B)
  <1>1. CASE DOMAIN s = {}
    BY <1>1 DEF Reuses
  <1>2. CASE DOMAIN s = {1} /\ \E cmd, x : s[1] = NewFrame(cmd, <<>>, x)
    <2>1. s[1].refusedBy = None /\ s[1].spool = None /\ s[1].ctx = <<>> /\ None # c
      BY <1>2, LocksAssumption DEF NewFrame
    <2>2. DOMAIN s[1].ctx = {}
      BY <2>1
    <2>3. \A i, j \in DOMAIN s : ~(j < i)
      BY <1>2
    <2> QED
      BY <1>2, <2>1, <2>2, <2>3 DEF Reuses
  <1> QED
    BY <1>1, <1>2

LEMMA ReusesNext ==
    ASSUME Inv, NEW B, DeliveriesApart(B), \A d \in Clients : Reuses(d, stack[d], B), [Next]_vars
    PROVE  \A d \in Clients : Reuses(d, stack'[d], B)
  <1>1. ASSUME NEW c \in Clients, Execute(c)
        PROVE  Reuses(c, stack'[c], B) /\ \A d \in Clients : d # c => stack'[d] = stack[d]
    <2>1. CASE RunStep(c)
      BY <2>1, RunStepReuses
    <2>2. CASE Return(c)
      BY <2>2, ReturnReuses
    <2>3. CASE ~RunStep(c) /\ ~Return(c)
      <3>1. stack[c] # <<>> /\ \E g : SetTop(c, g) /\ Continues(c, g)
        BY <1>1, <2>3, StepReuses DEF Execute
      <3> QED
        BY <3>1, ReusesContinued
    <2> QED
      BY <2>1, <2>2, <2>3
  <1>2. ASSUME NEW c \in Clients, NEW cmd, Begin(c, cmd)
        PROVE  \A d \in Clients : Reuses(d, stack'[d], B)
    <2> DEFINE s == <<NewFrame(cmd, <<>>, scope[ProcessOf(c)])>>
    <2>1. stack'[c] = s /\ \A d \in Clients : d # c => stack'[d] = stack[d]
      BY <1>2 DEF Begin, Inv, TypeOK
    <2>2. DOMAIN s = {1} /\ s[1] = NewFrame(cmd, <<>>, scope[ProcessOf(c)])
      OBVIOUS
    <2> HIDE DEF s
    <2>3. Reuses(c, s, B)
      BY <2>2, NothingToReuse
    <2> QED
      BY <2>1, <2>3
  <1>3. ASSUME NEW c \in Clients,
               Ask(c) \/ Cancel(c) \/ GiveUp(c) \/ TakeSlot(c) \/ CheckAndBegin(c) \/ StartShell(c) \/ EndRequest(c)
        PROVE  \A d \in Clients : Reuses(d, stack'[d], B)
    <2>1. stack' = stack \/ \E cmd : Begin(c, cmd)
      BY <1>3 DEF Ask, Cancel, GiveUp, TakeSlot, CheckAndBegin, StartShell, EndRequest
    <2> QED
      BY <1>2, <2>1
  <1>4. ASSUME NEW process \in Processes, Kill(process)
        PROVE  \A d \in Clients : Reuses(d, stack'[d], B)
    <2> SUFFICES ASSUME NEW d \in Clients PROVE Reuses(d, stack'[d], B)
      OBVIOUS
    <2>1. stack'[d] = <<>> \/ stack'[d] = stack[d]
      BY <1>4 DEF Kill
    <2>2. DOMAIN << >> = {}
      OBVIOUS
    <2>3. Reuses(d, << >>, B)
      BY <2>2, NothingToReuse
    <2> QED
      BY <2>1, <2>3
  <1>5. CASE UNCHANGED vars
    BY <1>5 DEF vars
  <1>6. ASSUME NEW c \in Clients, Execute(c)
        PROVE  \A d \in Clients : Reuses(d, stack'[d], B)
    BY <1>1, <1>6
  <1> QED
    BY <1>3, <1>4, <1>5, <1>6 DEF Next

\* A command is never refused by a lock of its own client, however its
\* commands are nested: reuse sees every ownership that a caller has taken.
\* B holds the pairs of commands that may be nested; no command of a nest
\* delivers to a file that another of its commands, or itself, names.
THEOREM OwnLocksAreReused ==
    ASSUME NEW CONSTANT B, DeliveriesApart(B)
    PROVE  Spec => []NeverRefusedByItself
  <1> DEFINE Reusing == \A d \in Clients : Reuses(d, stack[d], B)
  <1>1. Init => Reusing
    <2> SUFFICES ASSUME Init, NEW d \in Clients PROVE Reuses(d, stack[d], B)
      OBVIOUS
    <2>1. stack[d] = <<>> /\ DOMAIN <<>> = {}
      BY DEF Init
    <2> QED
      BY <2>1, NothingToReuse
  <1>2. Inv /\ Reusing /\ [Next]_vars => Reusing'
    BY ReusesNext DEF Reuses
  <1>3. Reusing => NeverRefusedByItself
    BY DEF Reuses, NeverRefusedByItself
  <1> HIDE DEF Reusing
  <1> QED
    BY <1>1, <1>2, <1>3, Invariance, PTL DEF Spec
=============================================================================
