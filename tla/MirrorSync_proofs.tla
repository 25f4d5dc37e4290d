-------------------------- MODULE MirrorSync_proofs --------------------------
(***************************************************************************)
(* Proofs about MirrorSync, for any number of items and any page size: a   *)
(* deleted item stays out of the mirror, a sweep spares what is listed,    *)
(* the checkpoint and a cleared cursor are honest, and a full pass over a  *)
(* plane at rest converges.  They rest on one fact of the listings: while  *)
(* additions and deletions do not both happen in one pass, a total that    *)
(* stands still means that neither happened.                               *)
(***************************************************************************)
EXTENDS MirrorSync, FiniteSetTheorems, WellFoundedInduction, TLAPS

\* A row is what the plane lists of the item, or its marker keeps it out.
Current(k) == mirror[k] = ver[k] \/ k \in marked

\* The row of the item is in the response that is about to be stored.
Arriving(k) == pc = "store" /\ [key |-> k, ver |-> ver[k]] \in page
Reporting(k) == pc = "store" /\ k \in Keyset(page)

Paging == pc \in {"fetch", "store", "advance"}
Reach == pass.start + pass.got
Steady == pass.total # None /\ pass.total = Total

\* The last object the listing had has been fetched.
Whole == pass.total # None /\ (IF Paging THEN Reach = pass.total ELSE pc \in {"done", "clear", "stamp"})

\* The versions up to which the pass, or its cursor, may later be taken for complete.
Goals == {began, pass.mark} \cup ({pass.listing} \ {None})
Horizon == Goals \cup {checkpoint, synced, cursor.listing}

Versions ==
    /\ pass.since <= libver /\ cursor.listing <= libver /\ cursor.mark <= libver
    /\ pass.listing # None => pass.listing <= libver
    /\ \A k \in Live \cup purged : ver[k] > 0
    /\ \A k \in Keys : mirror[k] <= ver[k]
    /\ \A r \in page : r.ver > 0 /\ r.ver <= ver[r.key]
    /\ \A r, s \in page : r.key = s.key => r = s

Places ==
    /\ pc = "idle" => pass = NoPass /\ ~gained /\ ~lost
    /\ ~(gained /\ lost)
    /\ pc \notin {"store", "advance"} => pass.got = 0
    /\ pc \notin {"store", "advance", "fail"} => page = {}
    /\ pc \in {"store", "advance"} => pass.got > 0
    /\ pass.total # None \/ cursor.total # None => api.counts
    /\ api.counts /\ pc \in {"store", "advance", "done", "clear", "stamp"} => pass.total # None
    /\ pass.sorted => pass.full /\ pass.ordered
    /\ pass.full /\ api.sort = "dateAdded" => pass.sorted
    /\ pass.full /\ pass.pages = 0 => pass.start = 0
    /\ ~pass.full => pass.seen = {}
    /\ pass.since <= checkpoint

Started ==
    /\ pass.expect # None =>
         /\ pc = "fetch" /\ ~pass.full /\ pass.total = None /\ api.counts /\ pass.pinned
         /\ pass.start = cursor.at /\ cursor.at # 0 /\ ~cursor.full
         /\ pass.since = cursor.since /\ pass.listing = cursor.listing /\ pass.expect = cursor.total
    /\ pass.listing = None => pc \in {"idle", "fetch", "fail"} /\ pass.start = 0 /\ pass.total = None
    /\ pc = "fetch" /\ pass.total = None /\ pass.expect = None /\ api.counts => pass.start = 0
    /\ pc = "fetch" /\ pass.total # None => pass.start > 0
    /\ pass.mark = 0 /\ ~pass.pinned /\ Paging => pass.start = 0 /\ pass.got = 0

\* Additions and deletions do not both happen in a pass, so a total that stands
\* still is that of a listing to which neither happened.
Trend ==
    pass.total # None /\ Paging =>
        /\ ~lost => Total >= pass.total
        /\ ~gained => Total <= pass.total

Outdated ==
    \A r \in page : r.ver = ver[r.key] \/ \A h \in Horizon : ver[r.key] > h

Covered ==
    Paging /\ Steady =>
        \A h \in Goals, k \in Listed :
            Rank(k) <= Reach /\ ver[k] <= h => Current(k) \/ Arriving(k)

Complete ==
    Whole => \A h \in Goals, k \in Live : ver[k] <= h => Current(k) \/ Arriving(k)

Prefix ==
    Paging /\ Steady /\ pass.sorted /\ pass.since = 0 =>
        \A k \in Listed : Rank(k) <= Reach => k \in pass.seen \/ Reporting(k)

FewPages == IF pc \in {"store", "advance"} THEN pass.pages = 0 ELSE pass.pages <= 1

AllSeen ==
    pass.full /\ pass.since = 0 /\ Whole /\ pc \notin {"clear", "stamp"} /\ (pass.sorted \/ FewPages) =>
        \A k \in Live : mirror[k] # 0 \/ k \in marked => k \in pass.seen \/ Reporting(k)

Buried ==
    /\ \A k \in purged : mirror[k] = 0 /\ (k \in Live => k \in marked)
    /\ \A r \in page : r.key \in purged => r.key \in marked

Honest == api.counts => CurrentTo(checkpoint) /\ CurrentTo(synced)

Selected(since) == {k \in Live : ver[k] > since}

Resumes ==
    /\ cursor.at \notin {None, 0} /\ ~cursor.full /\ cursor.total # None /\ cursor.since # None
    /\ cursor.listing = libver /\ api.counts

Saved ==
    Resumes /\ Cardinality(Selected(cursor.since)) = cursor.total =>
        \A k \in Selected(cursor.since) :
            Cardinality({j \in Selected(cursor.since) : Leads(modified, j, k)}) <= cursor.at
                => Current(k)

Undisturbed ==
    pc # "idle" /\ libver = began => pass.seen \cup Keyset(page) \subseteq Live

Typed == TypeOK /\ Versions

IInv ==
    /\ Typed /\ Places /\ Started /\ Trend /\ Outdated /\ Covered /\ Complete
    /\ Prefix /\ AllSeen /\ Buried /\ Honest /\ Saved /\ Undisturbed /\ FullConverges

-----------------------------------------------------------------------------
(* Numbers, finite sets and orders. *)

Below == {p \in Nat \X Nat : p[1] < p[2]}

LEMMA BelowIsWellFounded == IsWellFoundedOn(Below, Nat)
  BY NatLessThanWellFounded, Zenon DEF OpToRel, Below

LEMMA Least ==
    ASSUME NEW T \in SUBSET Nat, T # {}
    PROVE  \E x \in T : \A y \in T : x <= y
  <1>1. PICK x \in T : \A y \in T : ~ (<<y, x>> \in Below)
    BY BelowIsWellFounded, WFMin
  <1>2. ASSUME NEW y \in T
        PROVE  x <= y
    <2>1. x \in Nat /\ y \in Nat /\ ~ (<<y, x>> \in Below)
      BY <1>1
    <2>2. <<y, x>>[1] = y /\ <<y, x>>[2] = x /\ <<y, x>> \in Nat \X Nat
      BY <2>1
    <2>3. y < x => <<y, x>> \in Below
      BY <2>2 DEF Below
    <2> QED
      BY <2>1, <2>3
  <1> QED
    BY <1>2

LEMMA MaxTwo ==
    ASSUME NEW a \in Nat, NEW b \in Nat
    PROVE  Max({a, b}) \in {a, b} /\ Max({a, b}) >= a /\ Max({a, b}) >= b
  <1>1. \E x \in {a, b} : \A y \in {a, b} : x >= y
    <2>1. CASE a >= b
      BY <2>1
    <2>2. CASE b >= a
      BY <2>2
    <2> QED
      BY <2>1, <2>2
  <1> QED
    BY <1>1 DEF Max

LEMMA OrderType ==
    ASSUME NEW s \in Orders
    PROVE  s \in Seq(Keys) /\ IsInjective(s) /\ Range(s) \subseteq Keys /\ DOMAIN s = 1..Len(s) /\ Len(s) \in Nat
  <1>1. Cardinality(Keys) \in Nat
    BY FS_CardinalityType, MirrorSyncAssumption
  <1>2. PICK m \in 0..Cardinality(Keys) : s \in [1..m -> Keys]
    BY DEF Orders, SeqOf
  <1>3. s \in Seq(Keys) /\ m \in Nat
    BY <1>1, <1>2
  <1> QED
    BY <1>3 DEF Orders, Range

\* The place of k among the objects of L, in the order s.
RankIn(s, L, k) == Cardinality({j \in L : Leads(s, j, k)})

LEMMA RankType ==
    ASSUME NEW s, NEW L, IsFiniteSet(L), NEW k
    PROVE  RankIn(s, L, k) \in Nat /\ RankIn(s, L, k) <= Cardinality(L) /\ Cardinality(L) \in Nat
  <1>1. {j \in L : Leads(s, j, k)} \in SUBSET L
    OBVIOUS
  <1> QED
    BY <1>1, FS_Subset, FS_CardinalityType DEF RankIn

LEMMA RankGrows ==
    ASSUME NEW s, NEW t, NEW L, IsFiniteSet(L), NEW k,
           \A j \in L : Leads(s, j, k) => Leads(t, j, k)
    PROVE  RankIn(s, L, k) <= RankIn(t, L, k)
  <1> DEFINE A == {j \in L : Leads(s, j, k)}
             B == {j \in L : Leads(t, j, k)}
  <1>1. A \in SUBSET B /\ B \in SUBSET L
    OBVIOUS
  <1>2. IsFiniteSet(B)
    BY <1>1, FS_Subset
  <1> HIDE DEF A, B
  <1>3. Cardinality(A) <= Cardinality(B)
    BY <1>1, <1>2, FS_Subset
  <1> QED
    BY <1>3 DEF RankIn, A, B

LEMMA LeadsItself ==
    ASSUME NEW s \in Orders, NEW k \in Range(s)
    PROVE  Leads(s, k, k)
  <1>1. PICK b \in DOMAIN s : s[b] = k
    BY DEF Range
  <1>2. b \in 1..b
    BY <1>1, OrderType
  <1> QED
    BY <1>1, <1>2 DEF Leads

LEMMA RankPositive ==
    ASSUME NEW s \in Orders, NEW L, IsFiniteSet(L), NEW k \in L, k \in Range(s)
    PROVE  RankIn(s, L, k) > 0
  <1> DEFINE A == {j \in L : Leads(s, j, k)}
  <1>1. A \in SUBSET L /\ k \in A
    BY LeadsItself
  <1>2. IsFiniteSet(A)
    BY <1>1, FS_Subset
  <1>3. Cardinality(A) # 0 /\ Cardinality(A) \in Nat
    BY <1>1, <1>2, FS_EmptySet, FS_CardinalityType
  <1> QED
    BY <1>3 DEF RankIn

\* A list that is not empty has a first object.
LEMMA SomeoneIsFirst ==
    ASSUME NEW s \in Orders, NEW L, IsFiniteSet(L), L # {}, L \subseteq Range(s)
    PROVE  \E k \in L : RankIn(s, L, k) = 1
  <1> DEFINE T == {b \in DOMAIN s : s[b] \in L}
  <1>1. T \in SUBSET Nat /\ T # {}
    BY OrderType DEF Range
  <1>2. PICK b \in T : \A c \in T : b <= c
    BY <1>1, Least
  <1> DEFINE k == s[b]
  <1>3. ASSUME NEW j \in L, Leads(s, j, k)
        PROVE  j = k
    <2>1. PICK c \in DOMAIN s : s[c] = k /\ \E a \in 1..c : s[a] = j
      BY <1>3 DEF Leads
    <2>2. c = b
      BY <2>1, OrderType DEF IsInjective
    <2>3. PICK a \in 1..b : s[a] = j
      BY <2>1, <2>2
    <2>4. a \in DOMAIN s
      BY <2>3, OrderType
    <2>5. b <= a
      BY <1>2, <2>3, <2>4
    <2>6. a = b
      BY <2>3, <2>5, <1>1
    <2> QED
      BY <2>3, <2>6
  <1>4. Leads(s, k, k) /\ k \in L
    BY LeadsItself DEF Range
  <1>5. {j \in L : Leads(s, j, k)} = {k}
    BY <1>3, <1>4
  <1>6. RankIn(s, L, k) = 1
    BY <1>5, FS_Singleton DEF RankIn
  <1> QED
    BY <1>4, <1>6

LEMMA FollowersKeepOrder ==
    ASSUME NEW s \in Orders, NEW t, NEW ks, NEW k, Follows(s, t, ks, k),
           NEW i \in ks, NEW j \in ks \ {k}, Leads(s, i, j)
    PROVE  Leads(t, i, j)
  <1>1. PICK b \in DOMAIN s : s[b] = j /\ \E a \in 1..b : s[a] = i
    BY DEF Leads
  <1>2. PICK a \in 1..b : s[a] = i
    BY <1>1
  <1> QED
    BY <1>1, <1>2 DEF Follows

-----------------------------------------------------------------------------
(* Types.  These hold with any servers and any changes of the plane. *)

LEMMA ReversedOrder ==
    ASSUME NEW s \in Orders
    PROVE  Reverse(s) \in Orders /\ Range(Reverse(s)) = Range(s)
  <1> DEFINE n == Len(s)
             t == [i \in 1..n |-> s[(n - i) + 1]]
  <1>1. n \in Nat /\ DOMAIN s = 1..n /\ IsInjective(s) /\ s \in [1..n -> Keys]
    BY OrderType
  <1>2. Reverse(s) = t
    BY DEF Reverse
  <1>3. n <= Cardinality(Keys) /\ Cardinality(Keys) \in Nat
    <2>1. Cardinality(Keys) \in Nat
      BY FS_CardinalityType, MirrorSyncAssumption
    <2>2. PICK m \in 0..Cardinality(Keys) : s \in [1..m -> Keys]
      BY DEF Orders, SeqOf
    <2>3. DOMAIN s = 1..m /\ m \in Nat
      BY <2>1, <2>2
    <2>4. m = n
      <3> HIDE DEF n
      <3>1. \A i \in Nat : i \in 1..m <=> i \in 1..n
        BY <1>1, <2>3
      <3>2. m \in 1..m <=> m \in 1..n
        BY <2>3, <3>1
      <3>3. n \in 1..m <=> n \in 1..n
        BY <1>1, <3>1
      <3>4. m <= n /\ n <= m
        BY <1>1, <2>3, <3>2, <3>3
      <3> QED
        BY <1>1, <2>3, <3>4
    <2> QED
      BY <2>1, <2>4
  <1> HIDE DEF n
  <1>4. \A i \in 1..n : (n - i) + 1 \in 1..n
    BY <1>1
  <1>5. t \in [1..n -> Keys]
    BY <1>1, <1>4
  <1>6. IsInjective(t)
    <2>1. ASSUME NEW a \in 1..n, NEW b \in 1..n, t[a] = t[b]
          PROVE  a = b
      <3>1. s[(n - a) + 1] = s[(n - b) + 1]
        BY <2>1
      <3>2. (n - a) + 1 = (n - b) + 1
        BY <1>1, <1>4, <3>1 DEF IsInjective
      <3> QED
        BY <1>1, <3>2
    <2> QED
      BY <2>1 DEF IsInjective
  <1>7. Range(t) = Range(s)
    <2>1. \A i \in 1..n : t[(n - i) + 1] = s[i]
      BY <1>1, <1>4
    <2>2. \A i \in 1..n : s[i] \in Range(t)
      BY <1>4, <2>1 DEF Range
    <2>3. \A i \in 1..n : t[i] \in Range(s)
      BY <1>1, <1>4 DEF Range
    <2> QED
      BY <1>1, <2>2, <2>3 DEF Range
  <1>8. t \in SeqOf(Keys, Cardinality(Keys))
    <2>1. n \in 0..Cardinality(Keys)
      BY <1>1, <1>3
    <2> QED
      BY <1>5, <2>1 DEF SeqOf
  <1> QED
    BY <1>2, <1>6, <1>7, <1>8 DEF Orders

LEMMA InitTyped == Init => Typed
  <1> SUFFICES ASSUME Init
               PROVE  Typed
    OBVIOUS
  <1>1. PICK s \in Orders :
          /\ added = s
          /\ modified = Reverse(s)
          /\ ver = [k \in Keys |-> IF \E i \in DOMAIN s : s[i] = k
                                   THEN CHOOSE i \in DOMAIN s : s[i] = k ELSE 0]
          /\ libver = Len(s)
    BY DEF Init
  <1>2. Len(s) \in Nat /\ DOMAIN s = 1..Len(s)
    BY OrderType
  <1>3. ASSUME NEW k \in Keys
        PROVE  ver[k] \in 0..libver /\ (k \in Range(s) => ver[k] > 0)
    <2>1. CASE \E i \in DOMAIN s : s[i] = k
      <3>1. (CHOOSE i \in DOMAIN s : s[i] = k) \in DOMAIN s
        BY <2>1
      <3> QED
        BY <1>1, <1>2, <2>1, <3>1
    <2>2. CASE ~ \E i \in DOMAIN s : s[i] = k
      BY <1>1, <1>2, <2>2 DEF Range
    <2> QED
      BY <2>1, <2>2
  <1>4. ver \in [Keys -> 0..libver]
    BY <1>1, <1>3
  <1>5. added \in Orders /\ modified \in Orders /\ Range(modified) = Live
    BY <1>1, ReversedOrder DEF Live
  <1>6. mirror \in [Keys -> Nat] /\ checkpoint \in 0..libver /\ \A k \in Keys : mirror[k] <= ver[k]
    <2>1. CASE mirror = [k \in Keys |-> 0] /\ checkpoint = 0
      BY <1>1, <1>2, <1>3, <2>1
    <2>2. CASE mirror = ver /\ checkpoint = libver
      <3>1. libver \in Nat /\ 0..libver \subseteq Nat
        BY <1>1, <1>2
      <3>2. mirror \in [Keys -> Nat]
        BY <1>4, <2>2, <3>1
      <3>3. \A k \in Keys : mirror[k] <= ver[k]
        BY <1>3, <2>2, <3>1
      <3> QED
        BY <2>2, <3>1, <3>2, <3>3
    <2> QED
      BY <2>1, <2>2 DEF Init
  <1>7. pass = NoPass /\ cursor = Clear /\ page = {} /\ pc = "idle" /\ purged = {} /\ marked = {}
        /\ synced = checkpoint /\ passes = 0 /\ changes = 0 /\ began = 0 /\ gained = FALSE
        /\ lost = FALSE /\ api \in Servers
    BY DEF Init
  <1>8. pass \in Passes /\ cursor \in Cursors
    BY <1>7 DEF NoPass, Clear, Passes, Cursors, Nones
  <1>9. TypeOK
    <2>1. libver \in Nat /\ 0 \in 0..libver /\ 0 \in 0..MaxPasses /\ 0 \in 0..MaxChanges
      BY <1>1, <1>2, MirrorSyncAssumption
    <2>2. pass.mark = 0 /\ pass.mark <= libver
      BY <1>7, <2>1 DEF NoPass
    <2> QED
      BY <1>4, <1>5, <1>6, <1>7, <1>8, <2>1, <2>2 DEF TypeOK
  <1>10. Versions
    <2>1. pass.since = 0 /\ cursor.listing = 0 /\ cursor.mark = 0 /\ pass.listing = None
      BY <1>7 DEF NoPass, Clear
    <2>2. \A k \in Live \cup purged : ver[k] > 0
      BY <1>1, <1>3, <1>7, OrderType DEF Live
    <2> QED
      BY <1>1, <1>2, <1>6, <1>7, <2>1, <2>2 DEF Versions
  <1> QED
    BY <1>9, <1>10 DEF Typed

\* What the bits of the plane are, and the sizes of its list.
LEMMA Sizes ==
    ASSUME TypeOK
    PROVE  /\ Live \subseteq Keys /\ Range(modified) = Live /\ Listed \subseteq Live
           /\ IsFiniteSet(Live) /\ IsFiniteSet(Listed) /\ Total \in Nat
           /\ Order \in Orders /\ Range(Order) = Live
           /\ \A k : Rank(k) = RankIn(Order, Listed, k) /\ Rank(k) \in Nat /\ Rank(k) <= Total
           /\ \A k \in Listed : Rank(k) > 0
  <1>1. Live \subseteq Keys /\ Range(modified) = Live
    BY OrderType DEF TypeOK, Live
  <1>2. IsFiniteSet(Live) /\ Listed \in SUBSET Live
    BY <1>1, FS_Subset, MirrorSyncAssumption DEF Listed
  <1>3. IsFiniteSet(Listed)
    BY <1>2, FS_Subset
  <1>4. Total \in Nat
    BY <1>3, FS_CardinalityType DEF Total
  <1>5. Order \in Orders /\ Range(Order) = Live
    BY <1>1 DEF TypeOK, Order, Live
  <1>6. \A k : Rank(k) = RankIn(Order, Listed, k)
    BY DEF Rank, RankIn
  <1>7. \A k : Rank(k) \in Nat /\ Rank(k) <= Total
    BY <1>3, <1>6, RankType DEF Total
  <1>8. \A k \in Listed : Rank(k) > 0
    <2> TAKE k \in Listed
    <2>1. k \in Range(Order)
      BY <1>2, <1>5
    <2> QED
      BY <1>3, <1>5, <1>6, <2>1, RankPositive
  <1> QED
    BY <1>1, <1>2, <1>3, <1>4, <1>5, <1>6, <1>7, <1>8

\* What any change of the plane to the item k does.
Plane(k) == PlaneAdd(k) \/ PlaneEdit(k) \/ PlaneDelete(k)

Apart(k) ==
    /\ UNCHANGED <<api, mirror, marked, checkpoint, cursor, synced, purged, passes, pc, pass, page, began>>
    /\ libver' = libver + 1 /\ changes' \in 0..MaxChanges /\ gained' \in BOOLEAN /\ lost' \in BOOLEAN

Moved(k) ==
    /\ ver' \in [Keys -> 0..libver'] /\ ver'[k] \in {ver[k], libver'}
    /\ \A j \in Keys \ {k} : ver'[j] = ver[j]
    /\ Live' \ {k} = Live \ {k}
    /\ k \in Live' => ver'[k] = libver' /\ k \notin purged
    /\ k \in Live' \ Live => ver[k] = 0
    /\ k \in Live' \cap Live => added' = added
    /\ added' \in Orders /\ modified' \in Orders /\ Range(modified') = Live'

Kept(k) ==
    \A i \in Live \cap Live', j \in (Live \cap Live') \ {k} :
        /\ Leads(added, i, j) => Leads(added', i, j)
        /\ Leads(modified, i, j) => Leads(modified', i, j)

LEMMA PlaneApart ==
    ASSUME Typed, NEW k \in Keys, Plane(k)
    PROVE  Apart(k)
  <1>1. changes \in 0..MaxChanges /\ MaxChanges \in Nat /\ libver \in Nat /\ gained \in BOOLEAN /\ lost \in BOOLEAN
    BY MirrorSyncAssumption DEF Typed, TypeOK
  <1>2. ASSUME NEW g \in BOOLEAN, NEW l \in BOOLEAN, Changing(g, l)
        PROVE  /\ libver' = libver + 1 /\ changes' \in 0..MaxChanges
               /\ gained' \in BOOLEAN /\ lost' \in BOOLEAN
    BY <1>1, <1>2 DEF Changing
  <1>3. CASE PlaneAdd(k)
    <2>1. Changing(TRUE, FALSE)
      BY <1>3 DEF PlaneAdd
    <2>2. (TRUE) \in BOOLEAN /\ (FALSE) \in BOOLEAN
      OBVIOUS
    <2>3. libver' = libver + 1 /\ changes' \in 0..MaxChanges /\ gained' \in BOOLEAN /\ lost' \in BOOLEAN
      BY <1>2, <2>1, <2>2
    <2> QED
      BY <1>3, <2>3 DEF PlaneAdd, Apart, store
  <1>4. CASE PlaneEdit(k)
    <2>1. Changing(k \notin Listed, FALSE)
      BY <1>4 DEF PlaneEdit
    <2>2. (k \notin Listed) \in BOOLEAN /\ (FALSE) \in BOOLEAN
      OBVIOUS
    <2>3. libver' = libver + 1 /\ changes' \in 0..MaxChanges /\ gained' \in BOOLEAN /\ lost' \in BOOLEAN
      BY <1>2, <2>1, <2>2
    <2> QED
      BY <1>4, <2>3 DEF PlaneEdit, Apart, store
  <1>5. CASE PlaneDelete(k)
    <2>1. Changing(FALSE, k \in Listed)
      BY <1>5 DEF PlaneDelete
    <2>2. (FALSE) \in BOOLEAN /\ (k \in Listed) \in BOOLEAN
      OBVIOUS
    <2>3. libver' = libver + 1 /\ changes' \in 0..MaxChanges /\ gained' \in BOOLEAN /\ lost' \in BOOLEAN
      BY <1>2, <2>1, <2>2
    <2> QED
      BY <1>5, <2>3 DEF PlaneDelete, Apart, store
  <1> QED
    BY <1>3, <1>4, <1>5 DEF Plane

LEMMA PlaneMoved ==
    ASSUME Typed, NEW k \in Keys, Plane(k)
    PROVE  Moved(k)
  <1>1. libver \in Nat /\ libver' = libver + 1 /\ ver \in [Keys -> 0..libver]
    BY PlaneApart DEF Apart, Typed, TypeOK
  <1>2. [ver EXCEPT ![k] = libver'] \in [Keys -> 0..libver'] /\ ver \in [Keys -> 0..libver']
    BY <1>1
  <1>3. Live = Range(added) /\ Live' = Range(added') /\ Live \subseteq Keys
    BY Sizes DEF Typed, Live
  <1>4. CASE PlaneAdd(k)
    <2>1. added' \in Orders /\ modified' \in Orders /\ Live' = Live \cup {k} /\ Range(modified') = Live'
      BY <1>3, <1>4 DEF PlaneAdd, Follows
    <2>2. k \notin Live \cup purged
      BY <1>1, <1>4 DEF PlaneAdd, Typed, Versions
    <2> QED
      BY <1>1, <1>2, <1>4, <2>1, <2>2 DEF PlaneAdd, Moved
  <1>5. CASE PlaneEdit(k)
    <2>1. added' = added /\ modified' \in Orders /\ Range(modified') = Live /\ Live' = Live
      BY <1>3, <1>5 DEF PlaneEdit, Follows
    <2>2. added' \in Orders
      BY <2>1 DEF Typed, TypeOK
    <2> QED
      BY <1>1, <1>2, <1>5, <2>1, <2>2 DEF PlaneEdit, Moved
  <1>6. CASE PlaneDelete(k)
    <2>1. added' \in Orders /\ modified' \in Orders /\ Live' = Live \ {k} /\ Range(modified') = Live'
      BY <1>3, <1>6 DEF PlaneDelete, Follows
    <2>2. ver' = ver
      BY <1>6 DEF PlaneDelete
    <2> QED
      BY <1>1, <1>2, <2>1, <2>2 DEF Moved
  <1> QED
    BY <1>4, <1>5, <1>6 DEF Plane

LEMMA PlaneKept ==
    ASSUME Typed, NEW k \in Keys, Plane(k)
    PROVE  Kept(k)
  <1>1. added \in Orders /\ modified \in Orders /\ Live = Range(added) /\ Range(modified) = Live
    BY DEF Typed, TypeOK, Live
  <1>2. ASSUME NEW ks, NEW s \in Orders, NEW t, Follows(s, t, ks, k), Live \cap Live' \subseteq ks,
               NEW i \in Live \cap Live', NEW j \in (Live \cap Live') \ {k}, Leads(s, i, j)
        PROVE  Leads(t, i, j)
    <2>1. i \in ks /\ j \in ks \ {k}
      BY <1>2
    <2> QED
      BY <1>2, <2>1, FollowersKeepOrder
  <1>3. CASE PlaneAdd(k)
    <2>1. Follows(added, added', Live \cup {k}, k) /\ Follows(modified, modified', Live \cup {k}, k)
      BY <1>3 DEF PlaneAdd
    <2> QED
      BY <1>1, <1>2, <2>1 DEF Kept
  <1>4. CASE PlaneEdit(k)
    <2>1. added' = added /\ Follows(modified, modified', Live, k)
      BY <1>4 DEF PlaneEdit
    <2> QED
      BY <1>1, <1>2, <2>1 DEF Kept
  <1>5. CASE PlaneDelete(k)
    <2>1. Follows(added, added', Live \ {k}, k) /\ Follows(modified, modified', Live \ {k}, k)
      BY <1>5 DEF PlaneDelete
    <2>2. Live' = Live \ {k}
      BY <2>1 DEF Follows, Live
    <2> QED
      BY <1>1, <1>2, <2>1, <2>2 DEF Kept
  <1> QED
    BY <1>3, <1>4, <1>5 DEF Plane

LEMMA PlaneTyped ==
    ASSUME Typed, NEW k \in Keys, Plane(k)
    PROVE  Typed'
  <1>1. Apart(k) /\ Moved(k)
    BY PlaneApart, PlaneMoved
  <1>2. libver \in Nat /\ libver' = libver + 1
    BY <1>1 DEF Apart, Typed, TypeOK
  <1>3. TypeOK'
    <2>1. \A x : x \in 0..libver => x \in 0..libver'
      BY <1>2
    <2>2. checkpoint' \in 0..libver' /\ synced' \in 0..libver' /\ began' \in 0..libver'
      BY <1>1, <2>1 DEF Apart, Typed, TypeOK
    <2>3. pass' \in Passes /\ pass'.mark <= libver'
      <3>1. pass' = pass /\ pass \in Passes /\ pass.mark <= libver
        BY <1>1 DEF Apart, Typed, TypeOK
      <3>2. pass.mark \in Nat
        BY <3>1 DEF Passes
      <3> QED
        BY <1>2, <3>1, <3>2
    <2> QED
      BY <1>1, <1>2, <2>2, <2>3 DEF Apart, Moved, Typed, TypeOK
  <1>4. Versions'
    <2>1. \A j \in Keys : ver[j] \in Nat /\ ver'[j] \in Nat /\ ver[j] <= ver'[j]
      <3>1. ver[k] \in 0..libver
        BY DEF Typed, TypeOK
      <3>2. ver'[k] \in Nat /\ ver[k] <= ver'[k] /\ ver[k] \in Nat
        BY <1>1, <1>2, <3>1 DEF Moved
      <3> QED
        BY <1>1, <3>2 DEF Moved, Typed, TypeOK
    <2>2. /\ pass'.since <= libver' /\ cursor'.listing <= libver' /\ cursor'.mark <= libver'
          /\ pass'.listing # None => pass'.listing <= libver'
      <3>1. pass' = pass /\ cursor' = cursor
        BY <1>1 DEF Apart
      <3>2. pass.since \in Nat /\ cursor.listing \in Nat /\ cursor.mark \in Nat /\ pass.listing \in Nat \cup {None}
        BY DEF Typed, TypeOK, Passes, Cursors, Nones
      <3> QED
        BY <1>2, <3>1, <3>2 DEF Typed, Versions
    <2>3. ASSUME NEW j \in Live' \cup purged'
          PROVE  ver'[j] > 0
      <3>1. CASE j = k
        <4>1. CASE k \in purged
          BY <1>1, <2>1, <3>1, <4>1 DEF Typed, Versions, TypeOK
        <4>2. CASE k \notin purged
          <5>1. k \in Live'
            BY <1>1, <2>3, <3>1, <4>2 DEF Apart
          <5> QED
            BY <1>1, <1>2, <3>1, <5>1 DEF Moved
        <4> QED
          BY <4>1, <4>2
      <3>2. CASE j # k
        <4>1. j \in Live \cup purged
          BY <1>1, <2>3, <3>2 DEF Apart, Moved
        <4>2. j \in Keys
          BY <4>1, Sizes DEF Typed, TypeOK
        <4> QED
          BY <1>1, <3>2, <4>1, <4>2 DEF Moved, Typed, Versions
      <3> QED
        BY <3>1, <3>2
    <2>4. \A j \in Keys : mirror'[j] <= ver'[j]
      <3> TAKE j \in Keys
      <3>1. mirror'[j] = mirror[j] /\ mirror[j] \in Nat /\ mirror[j] <= ver[j]
        BY <1>1 DEF Apart, Typed, TypeOK, Versions
      <3> QED
        BY <2>1, <3>1
    <2>5. page' = page /\ \A r \in page' : r.ver > 0 /\ r.ver <= ver'[r.key]
      <3>1. page' = page
        BY <1>1 DEF Apart
      <3>2. ASSUME NEW r \in page
            PROVE  r.ver > 0 /\ r.ver <= ver'[r.key]
        <4>1. r.key \in Keys /\ r.ver \in Nat /\ r.ver > 0 /\ r.ver <= ver[r.key]
          BY DEF Typed, TypeOK, Versions
        <4> QED
          BY <2>1, <4>1
      <3> QED
        BY <3>1, <3>2
    <2> QED
      BY <2>2, <2>3, <2>4, <2>5 DEF Typed, Versions
  <1> QED
    BY <1>3, <1>4 DEF Typed

\* The types a step leaves alone, by the part of the state.
PlaneTypes ==
    /\ api \in Servers /\ added \in Orders /\ modified \in Orders /\ Range(modified) = Live
    /\ libver \in Nat /\ ver \in [Keys -> 0..libver]

RowTypes ==
    /\ mirror \in [Keys -> Nat] /\ marked \subseteq purged /\ purged \subseteq Keys
    /\ \A k \in Live \cup purged : ver[k] > 0
    /\ \A k \in Keys : mirror[k] <= ver[k]

StampTypes == checkpoint \in 0..libver /\ synced \in 0..libver
CountTypes == passes \in 0..MaxPasses /\ changes \in 0..MaxChanges
CursorTypes == cursor \in Cursors /\ cursor.listing <= libver /\ cursor.mark <= libver

PassTypes ==
    /\ pc \in {"idle", "fetch", "store", "advance", "fail", "done", "clear", "stamp"}
    /\ pass \in Passes /\ pass.mark <= libver /\ pass.since <= libver
    /\ pass.listing # None => pass.listing <= libver
    /\ began \in 0..libver /\ gained \in BOOLEAN /\ lost \in BOOLEAN

PageTypes ==
    /\ page \subseteq [key : Keys, ver : Nat]
    /\ \A r \in page : r.ver > 0 /\ r.ver <= ver[r.key]
    /\ \A r, s \in page : r.key = s.key => r = s

LEMMA TypedParts ==
    Typed <=> PlaneTypes /\ RowTypes /\ StampTypes /\ CountTypes /\ CursorTypes /\ PassTypes /\ PageTypes
  BY DEF Typed, TypeOK, Versions, PlaneTypes, RowTypes, StampTypes, CountTypes, CursorTypes,
         PassTypes, PageTypes

LEMMA TypedParts2 ==
    Typed' <=> PlaneTypes' /\ RowTypes' /\ StampTypes' /\ CountTypes' /\ CursorTypes' /\ PassTypes' /\ PageTypes'
  BY DEF Typed, TypeOK, Versions, PlaneTypes, RowTypes, StampTypes, CountTypes, CursorTypes,
         PassTypes, PageTypes

LEMMA PlaneStays ==
    ASSUME PlaneTypes, UNCHANGED <<api, plane>>
    PROVE  PlaneTypes' /\ Live' = Live /\ libver' = libver /\ ver' = ver
  BY DEF PlaneTypes, plane, Live

LEMMA RowsStay ==
    ASSUME PlaneTypes, RowTypes, UNCHANGED <<api, plane, mirror, marked, purged>>
    PROVE  RowTypes'
  <1>1. Live' = Live
    BY DEF plane, Live
  <1> QED
    BY <1>1 DEF RowTypes, plane

LEMMA OverTyped ==
    ASSUME PlaneTypes, UNCHANGED <<api, plane>>, Over
    PROVE  PassTypes' /\ PageTypes'
  <1>1. libver' = libver /\ libver \in Nat
    BY DEF PlaneTypes, plane
  <1>2. pass' = NoPass /\ NoPass \in Passes /\ NoPass.mark = 0 /\ NoPass.since = 0 /\ NoPass.listing = None
    BY DEF Over, NoPass, Passes, Nones
  <1>3. /\ pass' \in Passes /\ pass'.mark <= libver' /\ pass'.since <= libver'
        /\ pass'.listing # None => pass'.listing <= libver'
    BY <1>1, <1>2
  <1>4. pc' = "idle" /\ page' = {} /\ began' = 0 /\ gained' = FALSE /\ lost' = FALSE
    BY DEF Over
  <1>5. PassTypes'
    <2>1. began' \in 0..libver' /\ gained' \in BOOLEAN /\ lost' \in BOOLEAN
      <3>1. began' \in 0..libver'
        BY <1>1, <1>4
      <3>2. gained' \in BOOLEAN /\ lost' \in BOOLEAN
        BY <1>1, <1>4, Zenon
      <3> QED
        BY <3>1, <3>2
    <2> QED
      BY <1>3, <1>4, <2>1 DEF PassTypes
  <1>6. PageTypes'
    BY <1>4 DEF PageTypes
  <1> QED
    BY <1>5, <1>6

LEMMA ScopeTyped ==
    ASSUME pass \in Passes, NEW total \in Nones
    PROVE  /\ Scope(total) \in Cursors
           /\ Scope(total).at = 0 /\ Scope(total).full = pass.full /\ Scope(total).since = pass.since
           /\ Scope(total).mark = pass.mark /\ Scope(total).total = total
           /\ Scope(total).listing = IF pass.listing = None THEN 0 ELSE pass.listing
  <1>1. /\ pass.full \in BOOLEAN /\ pass.since \in Nat /\ pass.mark \in Nat
        /\ pass.listing \in Nat \cup {None} /\ total \in Nat \cup {None}
    BY DEF Passes, Nones
  <1>2. (IF pass.listing = None THEN 0 ELSE pass.listing) \in Nat
    BY <1>1
  <1> QED
    BY <1>1, <1>2 DEF Scope, Cursors, Nones

LEMMA ClearTyped == Clear \in Cursors /\ Clear.listing = 0 /\ Clear.mark = 0 /\ Restarted \in Cursors
                    /\ Restarted.listing = 0 /\ Restarted.mark = 0
  BY DEF Clear, Restarted, Cursors, Nones

LEMMA ZotioTyped ==
    ASSUME Typed, NEW k \in Keys, ZotioDelete(k)
    PROVE  Typed'
  <1>1. PlaneTypes /\ RowTypes /\ StampTypes /\ CountTypes /\ CursorTypes /\ PassTypes /\ PageTypes
    BY TypedParts
  <1>2. UNCHANGED <<api, plane, checkpoint, cursor, synced, passes, pc, pass, page, began, gained, lost>>
    BY DEF ZotioDelete
  <1>3. PlaneTypes' /\ Live' = Live /\ libver' = libver /\ ver' = ver
    BY <1>1, <1>2, PlaneStays
  <1>4. RowTypes'
    <2>1. mirror' \in [Keys -> Nat] /\ \A j \in Keys : mirror'[j] <= mirror[j]
      BY <1>1 DEF ZotioDelete, RowTypes
    <2>2. \A j \in Keys : mirror'[j] <= ver'[j]
      <3> TAKE j \in Keys
      <3>1. mirror'[j] \in Nat /\ mirror[j] \in Nat /\ ver[j] \in Nat /\ mirror[j] <= ver[j] /\ mirror'[j] <= mirror[j]
        BY <1>1, <2>1 DEF RowTypes, PlaneTypes
      <3> QED
        BY <1>3, <3>1
    <2>3. marked' = marked \cup {k} /\ purged' = purged \cup {k} /\ k \in Live
      BY DEF ZotioDelete
    <2> QED
      BY <1>1, <1>3, <2>1, <2>2, <2>3 DEF RowTypes
  <1>5. CountTypes'
    BY <1>1, MirrorSyncAssumption DEF CountTypes, ZotioDelete
  <1>6. StampTypes' /\ CursorTypes' /\ PassTypes' /\ PageTypes'
    BY <1>1, <1>2, <1>3 DEF StampTypes, CursorTypes, PassTypes, PageTypes
  <1> QED
    BY <1>3, <1>4, <1>5, <1>6, TypedParts2

LEMMA OtherTyped ==
    ASSUME Typed, FailPass \/ Abort \/ Stamp \/ ClearCursor \/ UNCHANGED vars
    PROVE  Typed'
  <1>1. PlaneTypes /\ RowTypes /\ StampTypes /\ CountTypes /\ CursorTypes /\ PassTypes /\ PageTypes
    BY TypedParts
  <1>2. UNCHANGED <<api, plane, mirror, marked, purged, passes, changes>>
    BY DEF FailPass, Abort, Stamp, ClearCursor, vars, store
  <1>3. PlaneTypes' /\ RowTypes' /\ libver' = libver /\ ver' = ver /\ libver \in Nat
    BY <1>1, <1>2, PlaneStays, RowsStay DEF PlaneTypes
  <1>4. CountTypes'
    BY <1>1, <1>2 DEF CountTypes
  <1>5. pass \in Passes /\ pass.total \in Nones /\ pass.mark \in Nat /\ pass.mark <= libver
    BY <1>1 DEF PassTypes, Passes
  <1>6. CASE FailPass
    <2>1. cursor' = Scope(pass.total) /\ checkpoint' = checkpoint /\ synced' = synced /\ Over
      BY <1>6 DEF FailPass
    <2>2. Scope(pass.total).listing <= libver
      BY <1>1, <1>3, <1>5, ScopeTyped DEF PassTypes
    <2>3. CursorTypes' /\ StampTypes'
      BY <1>1, <1>3, <1>5, <2>1, <2>2, ScopeTyped DEF CursorTypes, StampTypes
    <2>4. PassTypes' /\ PageTypes'
      BY <1>1, <1>2, <2>1, OverTyped
    <2> QED
      BY <1>3, <1>4, <2>3, <2>4, TypedParts2
  <1>7. CASE Abort
    <2>1. cursor' = cursor /\ checkpoint' = checkpoint /\ synced' = synced /\ Over
      BY <1>7 DEF Abort, store
    <2>2. CursorTypes' /\ StampTypes'
      BY <1>1, <1>3, <2>1 DEF CursorTypes, StampTypes
    <2>3. PassTypes' /\ PageTypes'
      BY <1>1, <1>2, <2>1, OverTyped
    <2> QED
      BY <1>3, <1>4, <2>2, <2>3, TypedParts2
  <1>8. CASE Stamp
    <2>1. cursor' = cursor /\ synced' = synced /\ Over
      BY <1>8 DEF Stamp
    <2>2. checkpoint' \in {checkpoint, pass.mark}
      <3>1. Max({checkpoint, pass.mark}) \in {checkpoint, pass.mark}
        BY <1>1, <1>3, <1>5, MaxTwo DEF StampTypes
      <3> QED
        BY <1>8, <3>1 DEF Stamp
    <2>3. CursorTypes' /\ StampTypes'
      BY <1>1, <1>3, <1>5, <2>1, <2>2 DEF CursorTypes, StampTypes
    <2>4. PassTypes' /\ PageTypes'
      BY <1>1, <1>2, <2>1, OverTyped
    <2> QED
      BY <1>3, <1>4, <2>3, <2>4, TypedParts2
  <1>9. CASE ClearCursor
    <2>1. cursor' = Clear /\ synced' = began /\ checkpoint' = checkpoint /\ pc' = "stamp"
          /\ UNCHANGED <<pass, page, began, gained, lost>>
      BY <1>9 DEF ClearCursor
    <2>2. CursorTypes' /\ StampTypes'
      BY <1>1, <1>3, <2>1, ClearTyped DEF CursorTypes, StampTypes, PassTypes
    <2>3. PassTypes' /\ PageTypes'
      BY <1>1, <1>3, <2>1 DEF PassTypes, PageTypes
    <2> QED
      BY <1>3, <1>4, <2>2, <2>3, TypedParts2
  <1>10. CASE UNCHANGED vars
    <2>1. StampTypes' /\ CursorTypes' /\ PassTypes' /\ PageTypes'
      BY <1>1, <1>3, <1>10 DEF StampTypes, CursorTypes, PassTypes, PageTypes, vars, store
    <2> QED
      BY <1>3, <1>4, <2>1, TypedParts2
  <1> QED
    BY <1>6, <1>7, <1>8, <1>9, <1>10

LEMMA BeginTyped ==
    ASSUME Typed, NEW full \in BOOLEAN, NEW latest \in BOOLEAN, NEW v \in 0..libver, Begin(full, latest, v)
    PROVE  Typed'
  <1> DEFINE since == IF v > 0 THEN v ELSE IF full THEN 0 ELSE checkpoint
             saved == IF cursor.at # None /\ (full \/ (latest /\ v = 0)) THEN Restarted ELSE cursor
             fresh == [NoPass EXCEPT !.full = full, !.since = since,
                                     !.sorted = full /\ api.sort = "dateAdded",
                                     !.ordered = ~(full /\ api.sort = "refused")]
             again == [fresh EXCEPT
                         !.start = saved.at, !.mark = saved.mark, !.pinned = TRUE,
                         !.listing = IF saved.at = 0 THEN None ELSE saved.listing,
                         !.expect = IF saved.at = 0 THEN None ELSE saved.total]
  <1>1. PlaneTypes /\ RowTypes /\ StampTypes /\ CountTypes /\ CursorTypes /\ PassTypes /\ PageTypes
    BY TypedParts
  <1>2. UNCHANGED <<api, plane, mirror, marked, purged>>
    BY DEF Begin
  <1>3. PlaneTypes' /\ RowTypes' /\ libver' = libver /\ ver' = ver /\ libver \in Nat
    BY <1>1, <1>2, PlaneStays, RowsStay DEF PlaneTypes
  <1>4. CountTypes' /\ StampTypes'
    BY <1>1, <1>3, MirrorSyncAssumption DEF Begin, CountTypes, StampTypes
  <1>5. since \in 0..libver /\ since \in Nat
    BY <1>1, <1>3 DEF StampTypes
  <1>6. saved \in Cursors /\ saved.listing <= libver /\ saved.mark <= libver
    BY <1>1, <1>3, ClearTyped DEF CursorTypes
  <1>7. fresh \in Passes /\ fresh.mark = 0 /\ fresh.since = since /\ fresh.listing = None
    <2>1. (full /\ api.sort = "dateAdded") \in BOOLEAN /\ (~(full /\ api.sort = "refused")) \in BOOLEAN
      OBVIOUS
    <2> HIDE DEF since
    <2> QED
      BY <1>5, <2>1 DEF NoPass, Passes, Nones
  <1>8. \/ cursor' = saved /\ pass' = again /\ saved.at # None
        \/ cursor' = Restarted /\ pass' = fresh
    BY DEF Begin, Resumable
  <1>9. pc' = "fetch" /\ page' = {} /\ began' = libver /\ gained' = FALSE /\ lost' = FALSE
    BY DEF Begin
  <1> HIDE DEF since, saved, fresh
  <1>10. saved.at # None => /\ again \in Passes /\ again.mark = saved.mark /\ again.since = since
                            /\ again.listing \in {None, saved.listing}
    BY <1>6, <1>7 DEF Cursors, Passes, Nones
  <1> HIDE DEF again
  <1>11. CursorTypes'
    BY <1>1, <1>3, <1>6, <1>8, ClearTyped DEF CursorTypes
  <1>12. /\ pass' \in Passes /\ pass'.mark <= libver /\ pass'.since <= libver
         /\ pass'.listing # None => pass'.listing <= libver
    BY <1>3, <1>5, <1>6, <1>7, <1>8, <1>10
  <1>13. PassTypes'
    <2>1. began' \in 0..libver' /\ gained' \in BOOLEAN /\ lost' \in BOOLEAN
      <3>1. began' \in 0..libver'
        BY <1>3, <1>9
      <3>2. gained' \in BOOLEAN /\ lost' \in BOOLEAN
        BY <1>3, <1>9, Zenon
      <3> QED
        BY <3>1, <3>2
    <2>2. pass'.mark <= libver' /\ pass'.since <= libver' /\ (pass'.listing # None => pass'.listing <= libver')
      BY <1>3, <1>12
    <2> QED
      BY <1>9, <1>12, <2>1, <2>2 DEF PassTypes
  <1>14. PageTypes'
    BY <1>9 DEF PageTypes
  <1> QED
    BY <1>3, <1>4, <1>11, <1>13, <1>14, TypedParts2

LEMMA DiscardTyped ==
    ASSUME Typed, DiscardOffset
    PROVE  Typed'
  <1>1. PlaneTypes /\ RowTypes /\ StampTypes /\ CountTypes /\ CursorTypes /\ PassTypes /\ PageTypes
    BY TypedParts
  <1>2. UNCHANGED <<api, plane, mirror, marked, checkpoint, synced, purged, passes,
                    changes, page, began, gained, lost>>
    BY DEF DiscardOffset
  <1>3. PlaneTypes' /\ RowTypes' /\ libver' = libver /\ ver' = ver /\ libver \in Nat
    BY <1>1, <1>2, PlaneStays, RowsStay DEF PlaneTypes
  <1>4. StampTypes' /\ CountTypes' /\ PageTypes'
    BY <1>1, <1>2, <1>3 DEF StampTypes, CountTypes, PageTypes
  <1>5. pass \in Passes /\ pass.expect \in Nones /\ pass.mark <= libver
    BY <1>1 DEF PassTypes, Passes
  <1>6. CursorTypes'
    <2>1. Scope(pass.expect) \in Cursors /\ Scope(pass.expect).listing <= libver /\ Scope(pass.expect).mark <= libver
      BY <1>1, <1>3, <1>5, ScopeTyped DEF PassTypes
    <2>2. cursor' = Scope(pass.expect) \/ cursor' = cursor
      BY DEF DiscardOffset
    <2> QED
      BY <1>1, <1>3, <2>1, <2>2 DEF CursorTypes
  <1>7. PassTypes'
    <2>1. pass' = [pass EXCEPT !.start = 0, !.listing = None, !.expect = None] \/ pass' = [pass EXCEPT !.expect = None]
      BY DEF DiscardOffset
    <2>2. /\ pass' \in Passes /\ pass'.mark = pass.mark /\ pass'.since = pass.since
          /\ pass'.listing # None => pass'.listing = pass.listing
      <3>1. CASE pass' = [pass EXCEPT !.start = 0, !.listing = None, !.expect = None]
        BY <1>5, <3>1 DEF Passes, Nones
      <3>2. CASE pass' = [pass EXCEPT !.expect = None]
        BY <1>5, <3>2 DEF Passes, Nones
      <3> QED
        BY <2>1, <3>1, <3>2
    <2>3. pc' \in {pc, "fail"}
      BY DEF DiscardOffset
    <2> QED
      BY <1>1, <1>2, <1>3, <2>2, <2>3 DEF PassTypes
  <1> QED
    BY <1>3, <1>4, <1>6, <1>7, TypedParts2

\* What the response of one request may be.
Got(n) == n = 0 \/ pass.start + n <= Total
Heard(n) == IF api.counts THEN Total ELSE None
Fixed == IF pass.listing = None THEN LastModified ELSE pass.listing

Refused(n) ==
    /\ Heard(n) # None /\ ~Consistent(Heard(n))
    /\ pass' = [pass EXCEPT !.expect = None, !.listing = Fixed, !.mark = Mark(LastModified)]
    /\ pc' = "fail"

Answered(n, v) ==
    /\ Heard(n) # None => Consistent(Heard(n))
    /\ pass' = [pass EXCEPT !.expect = None, !.listing = Fixed, !.mark = Mark(v),
                            !.total = Heard(n), !.got = n]
    /\ pc' = IF n > 0 THEN "store" ELSE IF Ends(Heard(n), 0) THEN "done" ELSE "fail"

LEMMA FetchParts ==
    ASSUME Typed, Fetch
    PROVE  /\ pc = "fetch" /\ ~ResumeRefused
           /\ UNCHANGED <<api, plane, mirror, marked, checkpoint, cursor, synced, purged, passes,
                          changes, began, gained, lost>>
           /\ \E n \in 0..Limit :
                /\ Got(n) /\ page' = Page(n)
                /\ Refused(n) \/ \E v \in Shown(Page(n)) : Answered(n, v)
  <1>1. pass \in Passes
    BY DEF Typed, TypeOK
  <1> DEFINE seen == [pass EXCEPT !.expect = None, !.listing = IF @ = None THEN LastModified ELSE @]
  <1>2. PICK n \in 0..Limit :
          LET rows == Page(n)
              total == IF api.counts THEN Total ELSE None
          IN /\ n = 0 \/ pass.start + n <= Total
             /\ page' = rows
             /\ IF total # None /\ ~Consistent(total)
                THEN /\ pass' = [seen EXCEPT !.mark = Mark(LastModified)]
                     /\ pc' = "fail"
                ELSE /\ \E v \in Shown(rows) :
                          pass' = [seen EXCEPT !.mark = Mark(v), !.total = total, !.got = n]
                     /\ pc' = IF n > 0 THEN "store"
                              ELSE IF Ends(total, 0) THEN "done" ELSE "fail"
    BY DEF Fetch
  <1>3. \A x, y : /\ [seen EXCEPT !.mark = x] = [pass EXCEPT !.expect = None, !.listing = Fixed, !.mark = x]
                  /\ [seen EXCEPT !.mark = x, !.total = y, !.got = n]
                       = [pass EXCEPT !.expect = None, !.listing = Fixed, !.mark = x, !.total = y, !.got = n]
    BY <1>1 DEF Passes, Fixed
  <1> HIDE DEF seen
  <1>4. Got(n) /\ page' = Page(n)
    BY <1>2 DEF Got
  <1>5. Refused(n) \/ \E v \in Shown(Page(n)) : Answered(n, v)
    <2>1. CASE Heard(n) # None /\ ~Consistent(Heard(n))
      BY <1>2, <1>3, <2>1 DEF Refused, Heard
    <2>2. CASE ~(Heard(n) # None /\ ~Consistent(Heard(n)))
      <3>1. PICK v \in Shown(Page(n)) : pass' = [seen EXCEPT !.mark = Mark(v), !.total = Heard(n), !.got = n]
        BY <1>2, <2>2 DEF Heard
      <3>2. pc' = IF n > 0 THEN "store" ELSE IF Ends(Heard(n), 0) THEN "done" ELSE "fail"
        BY <1>2, <2>2 DEF Heard
      <3>3. Answered(n, v)
        BY <1>3, <2>2, <3>1, <3>2 DEF Answered
      <3> QED
        BY <3>3
    <2> QED
      BY <2>1, <2>2
  <1>6. /\ pc = "fetch" /\ ~ResumeRefused
        /\ UNCHANGED <<api, plane, mirror, marked, checkpoint, cursor, synced, purged, passes,
                       changes, began, gained, lost>>
    BY DEF Fetch, store
  <1> QED
    BY <1>4, <1>5, <1>6

\* The rows of a page are rows of the plane, as it is.
LEMMA PageRows ==
    ASSUME TypeOK, NEW n \in Nat, pass.start \in Nat
    PROVE  /\ \A r \in Page(n) : r.key \in Listed /\ r.ver = ver[r.key] /\ r \in [key : Keys, ver : Nat]
           /\ \A r, s \in Page(n) : r.key = s.key => r = s
           /\ \A k \in Listed : pass.start < Rank(k) /\ Rank(k) <= pass.start + n
                                  => [key |-> k, ver |-> ver[k]] \in Page(n)
  <1>1. Listed \subseteq Live /\ Live \subseteq Keys
    BY Sizes
  <1>2. \A k \in Keys : ver[k] \in Nat
    BY DEF TypeOK
  <1>3. ASSUME NEW r \in Page(n)
        PROVE  r.key \in Listed /\ r = [key |-> r.key, ver |-> ver[r.key]]
    <2>1. PICK k \in Listed : r = [key |-> k, ver |-> ver[k]]
      BY DEF Page
    <2> QED
      BY <2>1
  <1>4. \A r \in Page(n) : r \in [key : Keys, ver : Nat] /\ r.ver = ver[r.key]
    <2> TAKE r \in Page(n)
    <2>1. r.key \in Keys /\ ver[r.key] \in Nat
      BY <1>1, <1>2, <1>3
    <2>2. r = [key |-> r.key, ver |-> ver[r.key]]
      BY <1>3
    <2> QED
      BY <2>1, <2>2
  <1>5. \A r, s \in Page(n) : r.key = s.key => r = s
    BY <1>3
  <1>6. \A k \in Listed : pass.start < Rank(k) /\ Rank(k) <= pass.start + n
                            => [key |-> k, ver |-> ver[k]] \in Page(n)
    BY DEF Page
  <1> QED
    BY <1>3, <1>4, <1>5, <1>6

LEMMA ShownBounds ==
    ASSUME Typed, NEW n \in Nat, NEW v \in Shown(Page(n))
    PROVE  /\ v \in 0..libver /\ LastModified \in 0..libver
           /\ Page(n) # {} => v > 0
  <1>1. libver \in Nat /\ pass.start \in Nat /\ ver \in [Keys -> 0..libver]
    BY DEF Typed, TypeOK, Passes
  <1>2. \A r \in Page(n) : r.key \in Live /\ r.key \in Keys /\ r.ver = ver[r.key]
    BY <1>1, PageRows, Sizes DEF Typed
  <1>3. \A r \in Page(n) : r.ver \in 0..libver /\ r.ver > 0
    <2> TAKE r \in Page(n)
    <2>1. ver[r.key] \in 0..libver /\ ver[r.key] > 0
      BY <1>1, <1>2 DEF Typed, Versions
    <2> QED
      BY <1>2, <2>1
  <1>4. LastModified \in 0..libver
    BY <1>1 DEF LastModified
  <1>5. CASE LastModified > 0
    BY <1>1, <1>4, <1>5 DEF Shown
  <1>6. CASE ~(LastModified > 0)
    <2>1. v \in {r.ver : r \in Page(n)} \cup {0} /\ \A r \in Page(n) : r.ver <= v
      BY <1>6 DEF Shown
    <2>2. v \in 0..libver
      BY <1>1, <1>3, <2>1
    <2>3. ASSUME NEW r \in Page(n)
          PROVE  v > 0
      BY <1>1, <1>3, <2>1, <2>2
    <2> QED
      BY <1>4, <2>2, <2>3
  <1> QED
    BY <1>5, <1>6

LEMMA MarkBounds ==
    ASSUME PassTypes, libver \in Nat, NEW v \in 0..libver
    PROVE  Mark(v) \in 0..libver /\ (Mark(v) = 0 \/ Mark(v) = pass.mark => v = 0 \/ pass.mark # 0 \/ pass.pinned)
           /\ (pass.mark # 0 \/ pass.pinned => Mark(v) = pass.mark)
           /\ (pass.mark = 0 /\ ~pass.pinned => Mark(v) = v)
  <1>1. pass.mark \in 0..libver /\ pass.pinned \in BOOLEAN
    BY DEF PassTypes, Passes
  <1>2. v \in Nat /\ (v > 0 \/ v = 0)
    OBVIOUS
  <1>3. CASE ~pass.pinned /\ pass.mark = 0 /\ v > 0
    BY <1>1, <1>2, <1>3 DEF Mark
  <1>4. CASE ~(~pass.pinned /\ pass.mark = 0 /\ v > 0)
    BY <1>1, <1>2, <1>4 DEF Mark
  <1> QED
    BY <1>3, <1>4

LEMMA FetchTyped ==
    ASSUME Typed, Fetch
    PROVE  Typed'
  <1>1. PlaneTypes /\ RowTypes /\ StampTypes /\ CountTypes /\ CursorTypes /\ PassTypes /\ PageTypes
    BY TypedParts
  <1>2. UNCHANGED <<api, plane, mirror, marked, checkpoint, cursor, synced, purged, passes,
                    changes, began, gained, lost>>
    BY FetchParts
  <1>3. PlaneTypes' /\ RowTypes' /\ libver' = libver /\ ver' = ver /\ libver \in Nat
    BY <1>1, <1>2, PlaneStays, RowsStay DEF PlaneTypes
  <1>4. StampTypes' /\ CountTypes' /\ CursorTypes'
    BY <1>1, <1>2, <1>3 DEF StampTypes, CountTypes, CursorTypes
  <1>5. PICK n \in 0..Limit :
          /\ Got(n) /\ page' = Page(n)
          /\ Refused(n) \/ \E v \in Shown(Page(n)) : Answered(n, v)
    BY FetchParts
  <1>6. n \in Nat /\ TypeOK /\ pass \in Passes /\ pass.start \in Nat
    BY <1>1, MirrorSyncAssumption DEF PassTypes, Passes, Typed
  <1>7. PageTypes'
    <2>1. page' \subseteq [key : Keys, ver : Nat] /\ \A r, s \in page' : r.key = s.key => r = s
      BY <1>5, <1>6, PageRows
    <2>2. \A r \in page' : r.ver > 0 /\ r.ver <= ver[r.key]
      <3> TAKE r \in page'
      <3>1. r.key \in Live /\ r.key \in Keys /\ r.ver = ver[r.key]
        BY <1>5, <1>6, PageRows, Sizes
      <3>2. ver[r.key] > 0 /\ ver[r.key] \in Nat
        BY <1>1, <1>6, <3>1 DEF RowTypes, TypeOK
      <3> QED
        BY <3>1, <3>2
    <2> QED
      BY <1>3, <2>1, <2>2 DEF PageTypes
  <1>8. LastModified \in 0..libver
    BY <1>3 DEF LastModified
  <1>9. Heard(n) \in Nones /\ Fixed \in Nat /\ Fixed <= libver
    <2>1. Total \in Nat
      BY <1>6, Sizes
    <2>2. pass.listing \in Nat \cup {None} /\ (pass.listing # None => pass.listing <= libver)
      BY <1>1, <1>6 DEF PassTypes, Passes, Nones
    <2> QED
      BY <1>3, <1>8, <2>1, <2>2 DEF Heard, Fixed, Nones
  <1>10. /\ pass' \in Passes /\ pass'.mark <= libver /\ pass'.since = pass.since
         /\ pass'.listing # None => pass'.listing <= libver
    <2>1. CASE Refused(n)
      <3>1. Mark(LastModified) \in 0..libver
        BY <1>1, <1>3, <1>8, MarkBounds
      <3>2. pass' = [pass EXCEPT !.expect = None, !.listing = Fixed, !.mark = Mark(LastModified)]
        BY <2>1 DEF Refused
      <3>3. /\ pass'.mark = Mark(LastModified) /\ pass'.since = pass.since /\ pass'.listing = Fixed
        BY <1>6, <3>2 DEF Passes
      <3>4. Mark(LastModified) \in Nat /\ Mark(LastModified) <= libver /\ Fixed \in Nones /\ None \in Nones /\ n \in Nat
        BY <1>3, <1>6, <1>9, <3>1 DEF Nones
      <3>5. pass' \in Passes
        BY <1>6, <1>9, <3>2, <3>4 DEF Passes
      <3> QED
        BY <1>9, <3>3, <3>4, <3>5
    <2>2. ASSUME NEW v \in Shown(Page(n)), Answered(n, v)
          PROVE  /\ pass' \in Passes /\ pass'.mark <= libver /\ pass'.since = pass.since
                 /\ pass'.listing # None => pass'.listing <= libver
      <3>1. Mark(v) \in 0..libver
        BY <1>1, <1>3, <1>6, ShownBounds, MarkBounds
      <3>2. pass' = [pass EXCEPT !.expect = None, !.listing = Fixed, !.mark = Mark(v),
                                 !.total = Heard(n), !.got = n]
        BY <2>2 DEF Answered
      <3>3. /\ pass'.mark = Mark(v) /\ pass'.since = pass.since /\ pass'.listing = Fixed
        BY <1>6, <3>2 DEF Passes
      <3>4. Mark(v) \in Nat /\ Mark(v) <= libver /\ Fixed \in Nones /\ None \in Nones /\ n \in Nat
        BY <1>3, <1>6, <1>9, <3>1 DEF Nones
      <3>5. pass' \in Passes
        BY <1>6, <1>9, <3>2, <3>4 DEF Passes
      <3> QED
        BY <1>9, <3>3, <3>4, <3>5
    <2> QED
      BY <1>5, <2>1, <2>2
  <1>11. pc' \in {"fail", "store", "done"}
    BY <1>5 DEF Refused, Answered
  <1>12. PassTypes'
    <2>1. began' \in 0..libver' /\ gained' \in BOOLEAN /\ lost' \in BOOLEAN
      BY <1>1, <1>2, <1>3 DEF PassTypes
    <2>2. pass'.mark <= libver' /\ pass'.since <= libver' /\ (pass'.listing # None => pass'.listing <= libver')
      BY <1>1, <1>3, <1>10 DEF PassTypes
    <2> QED
      BY <1>10, <1>11, <2>1, <2>2 DEF PassTypes
  <1> QED
    BY <1>3, <1>4, <1>7, <1>12, TypedParts2

LEMMA StoreTyped ==
    ASSUME Typed, Store
    PROVE  Typed'
  <1>1. PlaneTypes /\ RowTypes /\ StampTypes /\ CountTypes /\ CursorTypes /\ PassTypes /\ PageTypes
    BY TypedParts
  <1>2. UNCHANGED <<api, plane, marked, checkpoint, cursor, synced, purged, passes,
                    changes, page, began, gained, lost>>
    BY DEF Store
  <1>3. PlaneTypes' /\ Live' = Live /\ libver' = libver /\ ver' = ver /\ libver \in Nat
    BY <1>1, <1>2, PlaneStays DEF PlaneTypes
  <1>4. StampTypes' /\ CountTypes' /\ CursorTypes' /\ PageTypes'
    BY <1>1, <1>2, <1>3 DEF StampTypes, CountTypes, CursorTypes, PageTypes
  <1>5. RowTypes'
    <2> DEFINE r(k) == CHOOSE r \in page : r.key = k
    <2>1. mirror' = [k \in Keys |-> IF \E x \in Reconciled(page) : x.key = k THEN r(k).ver ELSE mirror[k]]
      BY DEF Store
    <2>2. ASSUME NEW k \in Keys, \E x \in Reconciled(page) : x.key = k
          PROVE  r(k).ver \in Nat /\ r(k).ver <= ver[k]
      <3>1. r(k) \in page /\ r(k).key = k
        BY <2>2 DEF Reconciled
      <3> HIDE DEF r
      <3> QED
        BY <1>1, <3>1 DEF PageTypes
    <2> HIDE DEF r
    <2>3. \A k \in Keys : mirror'[k] \in Nat /\ mirror'[k] <= ver[k]
      BY <1>1, <2>1, <2>2 DEF RowTypes
    <2>4. mirror' \in [Keys -> Nat]
      BY <2>1, <2>3
    <2> QED
      BY <1>1, <1>2, <1>3, <2>3, <2>4 DEF RowTypes
  <1>6. PassTypes'
    <2>1. pass \in Passes /\ Reported(page) \subseteq Keys
      BY <1>1 DEF PassTypes, PageTypes, Reported, Keyset
    <2>2. PICK s \in SUBSET Keys : pass' = [pass EXCEPT !.seen = s]
      <3>1. (IF pass.full THEN pass.seen \cup Reported(page) ELSE pass.seen) \in SUBSET Keys
        BY <2>1 DEF Passes
      <3> QED
        BY <3>1 DEF Store
    <2>3. /\ pass' \in Passes /\ pass'.mark = pass.mark /\ pass'.since = pass.since
          /\ pass'.listing = pass.listing
      BY <2>1, <2>2 DEF Passes
    <2>4. pc' = "advance"
      BY DEF Store
    <2> QED
      BY <1>1, <1>2, <1>3, <2>3, <2>4 DEF PassTypes
  <1> QED
    BY <1>3, <1>4, <1>5, <1>6, TypedParts2

LEMMA AdvanceTyped ==
    ASSUME Typed, Advance
    PROVE  Typed'
  <1>1. PlaneTypes /\ RowTypes /\ StampTypes /\ CountTypes /\ CursorTypes /\ PassTypes /\ PageTypes
    BY TypedParts
  <1>2. UNCHANGED <<api, plane, mirror, marked, checkpoint, synced, purged, passes,
                    changes, began, gained, lost>>
    BY DEF Advance
  <1>3. PlaneTypes' /\ RowTypes' /\ libver' = libver /\ ver' = ver /\ libver \in Nat
    BY <1>1, <1>2, PlaneStays, RowsStay DEF PlaneTypes
  <1>4. StampTypes' /\ CountTypes'
    BY <1>1, <1>2, <1>3 DEF StampTypes, CountTypes
  <1>5. PageTypes'
    BY DEF Advance, PageTypes
  <1>6. pass \in Passes /\ pass.got \in Nat /\ pass.start \in Nat /\ pass.pages \in Nat /\ Limit \in Nat
        /\ pass.total \in Nones /\ pass.mark <= libver
    BY <1>1, MirrorSyncAssumption DEF PassTypes, Passes
  <1>7. CursorTypes'
    <2> DEFINE at == IF pass.got = Limit THEN pass.start + pass.got ELSE 0
    <2>1. /\ Scope(pass.total) \in Cursors /\ Scope(pass.total).listing <= libver
          /\ Scope(pass.total).mark <= libver
      BY <1>1, <1>3, <1>6, ScopeTyped DEF PassTypes
    <2>2. cursor' \in {cursor, [Scope(pass.total) EXCEPT !.at = at]}
      BY DEF Advance
    <2>3. at \in Nones
      BY <1>6 DEF Nones
    <2> HIDE DEF at
    <2>4. /\ [Scope(pass.total) EXCEPT !.at = at] \in Cursors
          /\ [Scope(pass.total) EXCEPT !.at = at].listing <= libver
          /\ [Scope(pass.total) EXCEPT !.at = at].mark <= libver
      BY <2>1, <2>3 DEF Cursors
    <2> QED
      BY <1>1, <1>3, <2>2, <2>4 DEF CursorTypes
  <1>8. PassTypes'
    <2>1. \/ pass' = [pass EXCEPT !.pages = pass.pages + 1, !.start = pass.start + pass.got, !.got = 0]
          \/ pass' = [pass EXCEPT !.pages = pass.pages + 1, !.got = 0]
      BY <1>6 DEF Advance, Passes
    <2>2. /\ pass' \in Passes /\ pass'.mark = pass.mark /\ pass'.since = pass.since
          /\ pass'.listing = pass.listing
      <3>1. pass.pages + 1 \in Nat /\ pass.start + pass.got \in Nat /\ 0 \in Nat
        BY <1>6
      <3>2. ASSUME NEW x \in Nat, NEW y \in Nat, NEW z \in Nat
            PROVE  /\ [pass EXCEPT !.pages = x, !.start = y, !.got = z] \in Passes
                   /\ [pass EXCEPT !.pages = x, !.got = z] \in Passes
        BY <1>6 DEF Passes
      <3>3. pass' \in Passes
        <4>1. /\ [pass EXCEPT !.pages = pass.pages + 1, !.start = pass.start + pass.got, !.got = 0] \in Passes
              /\ [pass EXCEPT !.pages = pass.pages + 1, !.got = 0] \in Passes
          BY <3>1, <3>2, Zenon
        <4> QED
          BY <2>1, <4>1, Zenon
      <3>4. pass'.mark = pass.mark /\ pass'.since = pass.since /\ pass'.listing = pass.listing
        BY <1>6, <2>1 DEF Passes
      <3> QED
        BY <3>3, <3>4
    <2>3. pc' \in {"fetch", "done", "fail"}
      BY DEF Advance
    <2> QED
      BY <1>1, <1>2, <1>3, <2>2, <2>3 DEF PassTypes
  <1> QED
    BY <1>3, <1>4, <1>5, <1>7, <1>8, TypedParts2

LEMMA SweepTyped ==
    ASSUME Typed, Sweep
    PROVE  Typed'
  <1>1. PlaneTypes /\ RowTypes /\ StampTypes /\ CountTypes /\ CursorTypes /\ PassTypes /\ PageTypes
    BY TypedParts
  <1>2. UNCHANGED <<api, plane, checkpoint, cursor, synced, purged, passes, changes,
                    pass, page, began, gained, lost>>
    BY DEF Sweep
  <1>3. PlaneTypes' /\ Live' = Live /\ libver' = libver /\ ver' = ver
    BY <1>1, <1>2, PlaneStays
  <1>4. RowTypes'
    <2>1. \A k \in Keys : mirror[k] \in Nat /\ mirror[k] <= ver[k] /\ ver[k] \in Nat
      BY <1>1 DEF RowTypes, PlaneTypes
    <2>2. mirror' \in [Keys -> Nat] /\ \A k \in Keys : mirror'[k] <= ver[k]
      <3>1. CASE MaySweep
        BY <2>1, <3>1 DEF Sweep
      <3>2. CASE ~MaySweep
        BY <1>1, <2>1, <3>2 DEF Sweep, RowTypes
      <3> QED
        BY <3>1, <3>2
    <2>3. marked' \subseteq marked
      BY DEF Sweep
    <2> QED
      BY <1>1, <1>2, <1>3, <2>2, <2>3 DEF RowTypes
  <1>5. pc' = "clear"
    BY DEF Sweep
  <1>6. StampTypes' /\ CountTypes' /\ CursorTypes' /\ PassTypes' /\ PageTypes'
    BY <1>1, <1>2, <1>3, <1>5 DEF StampTypes, CountTypes, CursorTypes, PassTypes, PageTypes
  <1> QED
    BY <1>3, <1>4, <1>6, TypedParts2

LEMMA StepTyped ==
    ASSUME Typed, [Next]_vars
    PROVE  Typed'
  <1>1. CASE UNCHANGED vars
    BY <1>1, OtherTyped
  <1>2. CASE Next
    <2>1. ASSUME NEW k \in Keys, PlaneAdd(k) \/ PlaneEdit(k) \/ PlaneDelete(k) \/ ZotioDelete(k)
          PROVE  Typed'
      BY <2>1, PlaneTyped, ZotioTyped DEF Plane
    <2>2. ASSUME NEW full \in BOOLEAN, NEW latest \in BOOLEAN, NEW v \in 0..libver, Begin(full, latest, v)
          PROVE  Typed'
      BY <2>2, BeginTyped
    <2> QED
      BY <1>2, <2>1, <2>2, DiscardTyped, FetchTyped, StoreTyped, AdvanceTyped, SweepTyped, OtherTyped DEF Next
  <1> QED
    BY <1>1, <1>2

\* The state always has its types, and the plane its order: with any servers,
\* any changes of the listing and any --since-version.
THEOREM TypeCorrect == Spec => []TypeOK
  <1>1. Typed /\ [Next]_vars => Typed'
    BY StepTyped
  <1>2. Typed => TypeOK
    BY DEF Typed
  <1> QED
    BY InitTyped, <1>1, <1>2, PTL DEF Spec

-----------------------------------------------------------------------------
(* What a step that leaves the plane alone keeps. *)

Still == UNCHANGED <<api, added, modified, ver, libver>>

LEMMA StillLive ==
    ASSUME Still
    PROVE  Live' = Live /\ (\A since : Selected(since)' = Selected(since))
  BY DEF Still, Live, Selected

LEMMA SameListing ==
    ASSUME Still, pass'.since = pass.since
    PROVE  /\ Listed' = Listed /\ Total' = Total
           /\ pass'.sorted = pass.sorted => Order' = Order /\ \A k : Rank(k)' = Rank(k)
  <1>1. Live' = Live
    BY StillLive
  <1>2. Listed' = Listed
    BY <1>1 DEF Listed, Still
  <1>3. Total' = Total
    BY <1>2 DEF Total
  <1>4. ASSUME pass'.sorted = pass.sorted
        PROVE  Order' = Order /\ \A k : Rank(k)' = Rank(k)
    <2>1. Order' = Order
      BY <1>4 DEF Order, Still
    <2> QED
      BY <1>2, <2>1 DEF Rank
  <1> QED
    BY <1>2, <1>3, <1>4

LEMMA HonestKept ==
    ASSUME Honest, Still, checkpoint' = checkpoint, synced' = synced,
           \A k \in Live : (ver[k] <= checkpoint \/ ver[k] <= synced) /\ Current(k) => Current(k)'
    PROVE  Honest'
  <1>1. Live' = Live /\ ver' = ver /\ api' = api
    BY StillLive DEF Still
  <1>2. ASSUME api.counts, NEW k \in Live', ver'[k] <= checkpoint' \/ ver'[k] <= synced'
        PROVE  mirror'[k] = ver'[k] \/ k \in marked'
    <2>1. Current(k)
      BY <1>1, <1>2 DEF Honest, CurrentTo, Current
    <2>2. Current(k)'
      BY <1>1, <1>2, <2>1
    <2> QED
      BY <2>2 DEF Current
  <1> QED
    BY <1>1, <1>2 DEF Honest, CurrentTo

\* The items a saved offset has behind it.
Behind(c) ==
    {k \in Selected(c.since) :
        Cardinality({j \in Selected(c.since) : Leads(modified, j, k)}) <= c.at}

Intact(c) == Cardinality(Selected(c.since)) = c.total

LEMMA SavedIs == Saved <=> (Resumes /\ Intact(cursor) => \A k \in Behind(cursor) : Current(k))
  BY DEF Saved, Intact, Behind

LEMMA SavedIs2 == Saved' <=> (Resumes' /\ Intact(cursor)' => \A k \in Behind(cursor)' : Current(k)')
  BY DEF Saved, Intact, Behind

LEMMA SavedKept ==
    ASSUME Saved, Typed, Still, cursor' = cursor,
           \A k \in Live : ver[k] <= cursor.listing /\ Current(k) => Current(k)'
    PROVE  Saved'
  <1>1. Live' = Live /\ \A since : Selected(since)' = Selected(since)
    BY StillLive
  <1>2. Selected(cursor.since)' = Selected(cursor.since)
    BY <1>1 DEF Still, Selected
  <1>3. Resumes' = Resumes /\ Intact(cursor)' = Intact(cursor)
    BY <1>2 DEF Resumes, Intact, Still
  <1>4. Behind(cursor)' = Behind(cursor)
    BY <1>2 DEF Behind, Still
  <1>5. ASSUME Resumes, Intact(cursor), NEW k \in Behind(cursor)
        PROVE  Current(k)'
    <2>1. Current(k)
      BY <1>5, SavedIs
    <2>2. k \in Live /\ k \in Keys
      BY Sizes DEF Behind, Selected, Typed
    <2>3. ver[k] <= cursor.listing
      BY <1>5, <2>2 DEF Resumes, Typed, TypeOK
    <2> QED
      BY <2>1, <2>2, <2>3
  <1> QED
    BY <1>3, <1>4, <1>5, SavedIs2

\* No pass is running.
Rest == pc = "idle" /\ pass = NoPass /\ page = {} /\ ~gained /\ ~lost

LEMMA AtRest ==
    ASSUME Rest', checkpoint' \in Nat, cursor'.total # None => api'.counts
    PROVE  /\ Places' /\ Started' /\ Trend' /\ Outdated' /\ Covered' /\ Complete' /\ Prefix'
           /\ AllSeen' /\ Undisturbed' /\ FullConverges'
  <1>1. /\ pc' = "idle" /\ pass' = NoPass /\ page' = {} /\ ~gained' /\ ~lost'
        /\ pass'.total = None /\ pass'.listing = None /\ pass'.expect = None /\ pass'.got = 0
        /\ pass'.full = FALSE /\ pass'.sorted = FALSE /\ pass'.seen = {} /\ pass'.since = 0
        /\ pass'.start = 0
    BY DEF Rest, NoPass
  <1>2. Places'
    BY <1>1 DEF Places
  <1>3. Started'
    BY <1>1 DEF Started
  <1>4. Trend' /\ Covered' /\ Complete' /\ Prefix' /\ AllSeen'
    BY <1>1 DEF Trend, Covered, Complete, Prefix, AllSeen, Steady, Whole
  <1>5. Outdated' /\ Undisturbed' /\ FullConverges'
    BY <1>1 DEF Outdated, Undisturbed, FullConverges
  <1> QED
    BY <1>2, <1>3, <1>4, <1>5

LEMMA OverRests == Over => Rest'
  BY DEF Over, Rest

LEMMA ZotioInv ==
    ASSUME IInv, Typed', NEW k \in Keys, ZotioDelete(k)
    PROVE  IInv'
  <1>1. UNCHANGED <<api, plane, checkpoint, cursor, synced, passes, pc, pass, page, began, gained, lost>>
        /\ pc = "idle" /\ k \in Live
    BY DEF ZotioDelete
  <1>2. Still
    BY <1>1 DEF Still, plane
  <1>3. Rest'
    BY <1>1 DEF Rest, IInv, Places
  <1>4. checkpoint' \in Nat /\ (cursor'.total # None => api'.counts)
    <2>1. checkpoint \in Nat
      BY DEF IInv, Typed, TypeOK
    <2> QED
      BY <1>1, <2>1 DEF IInv, Places
  <1>5. /\ mirror' = [mirror EXCEPT ![k] = 0] /\ marked' = marked \cup {k} /\ purged' = purged \cup {k}
        /\ mirror \in [Keys -> Nat]
    BY DEF ZotioDelete, IInv, Typed, TypeOK
  <1>6. ASSUME NEW j \in Live, Current(j)
        PROVE  Current(j)'
    <2>1. j \in Keys
      BY Sizes DEF IInv, Typed
    <2>2. CASE j = k
      BY <1>5, <2>2 DEF Current
    <2>3. CASE j # k
      <3>1. mirror'[j] = mirror[j] /\ ver'[j] = ver[j]
        BY <1>2, <1>5, <2>1, <2>3 DEF Still
      <3> QED
        BY <1>5, <1>6, <3>1 DEF Current
    <2> QED
      BY <2>2, <2>3
  <1>7. Honest'
    BY <1>1, <1>2, <1>6, HonestKept DEF IInv
  <1>8. Saved'
    BY <1>1, <1>2, <1>6, SavedKept DEF IInv
  <1>9. Buried'
    <2>1. page' = {}
      BY <1>3 DEF Rest
    <2>2. \A j \in purged' : mirror'[j] = 0
      BY <1>5 DEF IInv, Buried, Typed, TypeOK
    <2>3. \A j \in purged' : j \in Live' => j \in marked'
      BY <1>2, <1>5, StillLive DEF IInv, Buried
    <2> QED
      BY <2>1, <2>2, <2>3 DEF Buried
  <1> QED
    BY <1>3, <1>4, <1>7, <1>8, <1>9, AtRest DEF IInv

LEMMA EndInv ==
    ASSUME IInv, Typed', FailPass \/ Abort \/ Stamp
    PROVE  IInv'
  <1>1. UNCHANGED <<api, plane, mirror, marked, synced, purged>> /\ Over
    BY DEF FailPass, Abort, Stamp, store
  <1>2. Still /\ Rest' /\ page' = {} /\ pass \in Passes /\ pass.total \in Nones
    <2>1. pass \in Passes
      BY DEF IInv, Typed, TypeOK
    <2>2. pass.total \in Nones
      BY <2>1 DEF Passes
    <2> QED
      BY <1>1, <2>1, <2>2, OverRests DEF Still, plane, Over
  <1>3. \A k : Current(k) => Current(k)'
    BY <1>1 DEF Current, plane
  <1>4. checkpoint' \in Nat
    BY DEF Typed, TypeOK
  <1>5. cursor'.total # None => api'.counts
    <2>1. CASE FailPass
      BY <1>1, <1>2, <2>1, ScopeTyped DEF FailPass, IInv, Places
    <2>2. CASE Abort \/ Stamp
      BY <1>1, <2>2 DEF Abort, Stamp, store, IInv, Places
    <2> QED
      BY <2>1, <2>2
  <1>6. Buried'
    BY <1>1, <1>2, StillLive DEF Buried, IInv
  <1>7. Saved'
    <2>1. CASE FailPass
      <3>1. cursor'.at = 0
        BY <1>2, <2>1, ScopeTyped DEF FailPass
      <3> QED
        BY <3>1 DEF Saved, Resumes
    <2>2. CASE Abort \/ Stamp
      BY <1>2, <1>3, <2>2, SavedKept DEF Abort, Stamp, store, IInv
    <2> QED
      BY <2>1, <2>2
  <1>8. Honest'
    <2>1. CASE FailPass \/ Abort
      BY <1>1, <1>2, <1>3, <2>1, HonestKept DEF FailPass, Abort, store, IInv
    <2>2. CASE Stamp
      <3>1. checkpoint' \in {checkpoint, pass.mark}
        <4>1. checkpoint \in Nat /\ pass.mark \in Nat
          BY <1>2 DEF IInv, Typed, TypeOK, Passes
        <4>2. Max({checkpoint, pass.mark}) \in {checkpoint, pass.mark}
          BY <4>1, MaxTwo
        <4> QED
          BY <2>2, <4>2 DEF Stamp
      <3>2. ASSUME api.counts
            PROVE  CurrentTo(pass.mark) /\ CurrentTo(checkpoint) /\ CurrentTo(synced)
        <4>1. pc = "stamp"
          BY <2>2 DEF Stamp
        <4>2. Whole
          BY <3>2, <4>1 DEF IInv, Places, Whole, Paging
        <4>3. \A k \in Live : ver[k] <= pass.mark => Current(k)
          BY <4>1, <4>2 DEF IInv, Complete, Goals, Arriving
        <4> QED
          BY <3>2, <4>3 DEF IInv, Honest, CurrentTo, Current
      <3>3. \A v : CurrentTo(v) => CurrentTo(v)'
        BY <1>1, <1>2, StillLive DEF CurrentTo, plane
      <3>4. api.counts => CurrentTo(checkpoint') /\ CurrentTo(synced)
        BY <3>1, <3>2
      <3>5. api'.counts => CurrentTo(checkpoint)' /\ CurrentTo(synced)'
        BY <1>1, <1>2, <3>4, StillLive DEF CurrentTo, plane
      <3> QED
        BY <3>5 DEF Honest
    <2> QED
      BY <2>1, <2>2
  <1> QED
    BY <1>2, <1>4, <1>5, <1>6, <1>7, <1>8, AtRest DEF IInv

LEMMA StutterInv ==
    ASSUME IInv, Typed', UNCHANGED vars
    PROVE  IInv'
  <1>1. UNCHANGED <<api, added, modified, ver, libver, mirror, marked, checkpoint, cursor, synced,
                    purged, pc, pass, page, began, gained, lost>>
    BY DEF vars, plane, store
  <1>2. Still /\ Live' = Live /\ Listed' = Listed /\ Total' = Total /\ \A k : Rank(k)' = Rank(k)
    BY <1>1, StillLive, SameListing DEF Still
  <1>3. \A k : Current(k)' = Current(k) /\ Arriving(k)' = Arriving(k) /\ Reporting(k)' = Reporting(k)
    BY <1>1 DEF Current, Arriving, Reporting
  <1>4. Steady' = Steady /\ Whole' = Whole /\ Goals' = Goals /\ Horizon' = Horizon /\ Paging' = Paging
        /\ Reach' = Reach /\ FewPages' = FewPages
    BY <1>1, <1>2 DEF Steady, Whole, Goals, Horizon, Paging, Reach, FewPages
  <1>5. Places' /\ Started'
    BY <1>1, <1>4 DEF IInv, Places, Started
  <1>6. Trend' /\ Outdated'
    BY <1>1, <1>2, <1>4 DEF IInv, Trend, Outdated
  <1>7. Covered' /\ Complete'
    BY <1>1, <1>2, <1>3, <1>4 DEF IInv, Covered, Complete
  <1>8. Prefix' /\ AllSeen'
    BY <1>1, <1>2, <1>3, <1>4 DEF IInv, Prefix, AllSeen
  <1>9. Buried' /\ Undisturbed' /\ FullConverges'
    BY <1>1, <1>2 DEF IInv, Buried, Undisturbed, FullConverges
  <1>10. Honest' /\ Saved'
    BY <1>1, <1>2, <1>3, HonestKept, SavedKept DEF IInv
  <1> QED
    BY <1>5, <1>6, <1>7, <1>8, <1>9, <1>10 DEF IInv

\* A pass that begins at the offset of the cursor, or at the first object.
Restarts(full, since) ==
    /\ pass'.start = 0 /\ pass'.listing = None /\ pass'.expect = None
    /\ full \in BOOLEAN /\ pass'.full = full /\ pass'.since = since

Resuming(since) ==
    /\ ~pass'.full /\ pass'.since = since /\ pass'.since = cursor.since /\ pass'.pinned
    /\ ~cursor.full /\ cursor.at # 0 /\ cursor.total # None /\ cursor' = cursor
    /\ pass'.start = cursor.at /\ pass'.listing = cursor.listing /\ pass'.expect = cursor.total

LEMMA BeginParts ==
    ASSUME Typed, NEW full \in BOOLEAN, NEW latest \in BOOLEAN, NEW v \in 0..libver, Begin(full, latest, v)
    PROVE  \E since \in Nat :
             /\ ~SkipsAhead => since <= checkpoint
             /\ Restarts(full, since) \/ Resuming(since)
             /\ cursor' = cursor \/ cursor' = Restarted
             /\ pass'.total = None /\ pass'.got = 0 /\ pass'.pages = 0 /\ pass'.seen = {}
             /\ pass'.full \in BOOLEAN
             /\ pass'.sorted = (pass'.full /\ api.sort = "dateAdded")
             /\ pass'.ordered = ~(pass'.full /\ api.sort = "refused")
  <1> DEFINE since == IF v > 0 THEN v ELSE IF full THEN 0 ELSE checkpoint
             saved == IF cursor.at # None /\ (full \/ (latest /\ v = 0)) THEN Restarted ELSE cursor
             fresh == [NoPass EXCEPT !.full = full, !.since = since,
                                     !.sorted = full /\ api.sort = "dateAdded",
                                     !.ordered = ~(full /\ api.sort = "refused")]
             again == [fresh EXCEPT
                         !.start = saved.at, !.mark = saved.mark, !.pinned = TRUE,
                         !.listing = IF saved.at = 0 THEN None ELSE saved.listing,
                         !.expect = IF saved.at = 0 THEN None ELSE saved.total]
  <1>1. libver \in Nat /\ checkpoint \in Nat /\ v \in Nat
    BY DEF Typed, TypeOK
  <1>2. since \in Nat /\ (~SkipsAhead => since <= checkpoint)
    BY <1>1, MirrorSyncAssumption DEF Begin
  <1>3. \/ cursor' = saved /\ pass' = again /\ Resumable(saved, full, since)
        \/ cursor' = Restarted /\ pass' = fresh
    BY DEF Begin
  <1>4. saved = cursor \/ saved = Restarted
    OBVIOUS
  <1>5. /\ fresh.start = 0 /\ fresh.listing = None /\ fresh.expect = None /\ fresh.full = full
        /\ fresh.since = since /\ fresh.total = None /\ fresh.got = 0 /\ fresh.pages = 0
        /\ fresh.seen = {} /\ fresh.sorted = (full /\ api.sort = "dateAdded")
        /\ fresh.ordered = ~(full /\ api.sort = "refused")
    BY DEF NoPass
  <1>6. /\ again.start = saved.at /\ again.pinned = TRUE /\ again.full = full
        /\ again.since = since /\ again.total = None /\ again.got = 0 /\ again.pages = 0
        /\ again.seen = {} /\ again.sorted = (full /\ api.sort = "dateAdded")
        /\ again.ordered = ~(full /\ api.sort = "refused")
        /\ again.listing = (IF saved.at = 0 THEN None ELSE saved.listing)
        /\ again.expect = (IF saved.at = 0 THEN None ELSE saved.total)
    BY DEF NoPass
  <1>7. Restarted.at = 0
    BY DEF Restarted, Clear
  <1> HIDE DEF since, saved, fresh, again
  <1>8. Restarts(full, since) \/ Resuming(since)
    <2>1. CASE cursor' = Restarted /\ pass' = fresh
      BY <1>5, <2>1 DEF Restarts
    <2>2. CASE cursor' = saved /\ pass' = again /\ Resumable(saved, full, since)
      <3>1. CASE saved.at = 0
        BY <1>6, <2>2, <3>1 DEF Restarts
      <3>2. CASE saved.at # 0
        <4>1. saved = cursor
          BY <1>4, <1>7, <3>2
        <4> QED
          BY <1>6, <2>2, <3>2, <4>1 DEF Resumable, Resuming
      <3> QED
        BY <3>1, <3>2
    <2> QED
      BY <1>3, <2>1, <2>2
  <1>9. cursor' = cursor \/ cursor' = Restarted
    BY <1>3, <1>4
  <1>10. /\ pass'.total = None /\ pass'.got = 0 /\ pass'.pages = 0 /\ pass'.seen = {}
         /\ pass'.full \in BOOLEAN
         /\ pass'.sorted = (pass'.full /\ api.sort = "dateAdded")
         /\ pass'.ordered = ~(pass'.full /\ api.sort = "refused")
    BY <1>3, <1>5, <1>6
  <1> QED
    BY <1>2, <1>8, <1>9, <1>10

LEMMA BeginInv ==
    ASSUME IInv, Typed', ~SkipsAhead,
           NEW full \in BOOLEAN, NEW latest \in BOOLEAN, NEW v \in 0..libver, Begin(full, latest, v)
    PROVE  IInv'
  <1>1. UNCHANGED <<api, plane, mirror, marked, checkpoint, synced, purged, changes>>
        /\ pc' = "fetch" /\ page' = {} /\ ~gained' /\ ~lost'
    BY DEF Begin
  <1>2. Still
    BY <1>1 DEF Still, plane
  <1>3. PICK since \in Nat :
          /\ since <= checkpoint
          /\ Restarts(full, since) \/ Resuming(since)
          /\ cursor' = cursor \/ cursor' = Restarted
          /\ pass'.total = None /\ pass'.got = 0 /\ pass'.pages = 0 /\ pass'.seen = {}
          /\ pass'.full \in BOOLEAN
          /\ pass'.sorted = (pass'.full /\ api.sort = "dateAdded")
          /\ pass'.ordered = ~(pass'.full /\ api.sort = "refused")
    BY BeginParts DEF IInv
  <1>4. Restarted.at = 0 /\ Restarted.total = None
    BY DEF Restarted, Clear
  <1>5. cursor'.total # None => api.counts
    BY <1>3, <1>4 DEF IInv, Places
  <1>6. pass'.full => pass'.start = 0
    BY <1>3 DEF Restarts, Resuming
  <1>7. pass'.since = since /\ pass'.since <= checkpoint'
    BY <1>1, <1>3 DEF Restarts, Resuming
  <1>8. pass'.sorted => pass'.full /\ pass'.ordered
    BY <1>3
  <1>9. pass'.full /\ api'.sort = "dateAdded" => pass'.sorted
    BY <1>1, <1>3
  <1>10. Places'
    BY <1>1, <1>3, <1>5, <1>6, <1>7, <1>8, <1>9 DEF Places
  <1>11. pass'.listing = None => pass'.start = 0
    <2>1. cursor.listing # None
      BY MirrorSyncAssumption DEF IInv, Typed, TypeOK, Cursors
    <2> QED
      BY <1>3, <2>1 DEF Restarts, Resuming
  <1>12. pass'.expect # None => Resuming(since) /\ api.counts
    BY <1>3, <1>5 DEF Restarts, Resuming
  <1>13. pass'.expect = None => pass'.start = 0
    BY <1>3 DEF Restarts, Resuming
  <1>14. ~pass'.pinned => pass'.start = 0
    BY <1>3 DEF Restarts, Resuming
  <1>15. Started'
    BY <1>1, <1>3, <1>11, <1>12, <1>13, <1>14 DEF Started, Resuming
  <1>16. Trend' /\ Covered' /\ Complete' /\ Prefix' /\ AllSeen'
    BY <1>3 DEF Trend, Covered, Complete, Prefix, AllSeen, Steady, Whole
  <1>17. Outdated' /\ Undisturbed' /\ FullConverges'
    BY <1>1, <1>3 DEF Outdated, Undisturbed, FullConverges, Keyset
  <1>18. \A k : Current(k)' = Current(k)
    BY <1>1, <1>2 DEF Current, Still
  <1>19. Honest'
    BY <1>1, <1>2, <1>18, HonestKept DEF IInv
  <1>20. Saved'
    <2>1. CASE cursor' = cursor
      BY <1>2, <1>18, <2>1, SavedKept DEF IInv
    <2>2. CASE cursor' = Restarted
      BY <1>4, <2>2 DEF Saved, Resumes
    <2> QED
      BY <1>3, <2>1, <2>2
  <1>21. Buried'
    BY <1>1, <1>2, StillLive DEF Buried, IInv
  <1> QED
    BY <1>10, <1>15, <1>16, <1>17, <1>19, <1>20, <1>21 DEF IInv

LEMMA DiscardInv ==
    ASSUME IInv, Typed', DiscardOffset
    PROVE  IInv'
  <1>1. UNCHANGED <<api, plane, mirror, marked, checkpoint, synced, purged, passes,
                    changes, page, began, gained, lost>>
        /\ pc = "fetch" /\ pass.expect # None
    BY DEF DiscardOffset, ResumeRefused
  <1>2. Still /\ page' = {} /\ pass \in Passes /\ pass.expect \in Nones
    <2>1. pass \in Passes
      BY DEF IInv, Typed, TypeOK
    <2> QED
      BY <1>1, <2>1 DEF Still, plane, IInv, Places, Passes
  <1>3. /\ ~pass.full /\ pass.total = None /\ api.counts /\ pass.got = 0 /\ ~pass.sorted
        /\ pass.pinned /\ pass.listing # None
    <2>1. pass.listing = cursor.listing /\ cursor.listing # None
      BY <1>1, MirrorSyncAssumption DEF IInv, Started, Typed, TypeOK, Cursors
    <2> QED
      BY <1>1, <2>1 DEF IInv, Places, Started
  <1>4. \/ /\ cursor' = Scope(pass.expect) /\ pc' = "fetch"
           /\ pass' = [pass EXCEPT !.start = 0, !.listing = None, !.expect = None]
        \/ /\ cursor' = cursor /\ pc' = "fail"
           /\ pass' = [pass EXCEPT !.expect = None]
    BY <1>1 DEF DiscardOffset
  <1>5. /\ pass'.full = pass.full /\ pass'.total = None /\ pass'.got = 0 /\ pass'.sorted = pass.sorted
        /\ pass'.pinned = pass.pinned /\ pass'.expect = None /\ pass'.since = pass.since
        /\ pass'.seen = pass.seen /\ pass'.ordered = pass.ordered
        /\ pc' = "fetch" => pass'.start = 0
        /\ pass'.listing # None \/ pass'.start = 0
    BY <1>2, <1>3, <1>4 DEF Passes
  <1>6. Places'
    <2>1. cursor'.total # None => api'.counts
      BY <1>1, <1>3
    <2>2. pc' \notin {"idle", "store", "advance", "done", "clear", "stamp"}
      BY <1>4
    <2> QED
      BY <1>1, <1>2, <1>3, <1>5, <2>1, <2>2 DEF IInv, Places
  <1>7. Started'
    BY <1>3, <1>4, <1>5 DEF Started, Paging
  <1>8. Trend' /\ Covered' /\ Complete' /\ Prefix' /\ AllSeen'
    BY <1>3, <1>5 DEF Trend, Covered, Complete, Prefix, AllSeen, Steady, Whole
  <1>9. Outdated' /\ Undisturbed' /\ FullConverges'
    BY <1>2, <1>3, <1>5 DEF Outdated, Undisturbed, FullConverges, Keyset, IInv, Places
  <1>10. \A k : Current(k)' = Current(k)
    BY <1>1, <1>2 DEF Current, Still
  <1>11. Honest'
    BY <1>1, <1>2, <1>10, HonestKept DEF IInv
  <1>12. Saved'
    <2>1. CASE cursor' = cursor
      BY <1>2, <1>10, <2>1, SavedKept DEF IInv
    <2>2. CASE cursor' = Scope(pass.expect)
      BY <1>2, <2>2, ScopeTyped DEF Saved, Resumes
    <2> QED
      BY <1>4, <2>1, <2>2
  <1>13. Buried'
    BY <1>1, <1>2, StillLive DEF Buried, IInv
  <1> QED
    BY <1>6, <1>7, <1>8, <1>9, <1>11, <1>12, <1>13 DEF IInv

-----------------------------------------------------------------------------
(* A change of the plane.  After an addition or a deletion the total of the *)
(* pass is out of date for good; after an edit the item is newer than all   *)
(* that the pass may be taken for.                                          *)

\* What happened to the listing of a pass that is running.
Recorded ==
    /\ ~lost' => ~lost /\ (Busy => Listed \subseteq Listed')
    /\ ~gained' => ~gained /\ (Busy => Listed' \subseteq Listed)
    /\ pc = "idle" => gained' = gained /\ lost' = lost
    /\ ~Replaces => ~(gained' /\ lost')

LEMMA PlaneRecorded ==
    ASSUME Typed, NEW k \in Keys, Plane(k)
    PROVE  Recorded
  <1>1. /\ pass' = pass /\ pc' = pc /\ \A j \in Keys \ {k} : ver'[j] = ver[j]
        /\ k \in Live' => ver'[k] = libver'
        /\ libver' = libver + 1 /\ libver \in Nat /\ pass.since <= libver /\ pass.since \in Nat
    BY PlaneApart, PlaneMoved DEF Apart, Moved, Typed, TypeOK, Passes, Versions
  <1>2. Live \subseteq Keys /\ Live = Range(added) /\ Live' = Range(added')
    BY Sizes DEF Typed, Live
  <1>3. ASSUME NEW g \in BOOLEAN, NEW l \in BOOLEAN, Changing(g, l),
               ~l => Listed \subseteq Listed', ~g => Listed' \subseteq Listed
        PROVE  Recorded
    <2>1. (gained' <=> gained \/ (Busy /\ g)) /\ (lost' <=> lost \/ (Busy /\ l))
          /\ (~Replaces => ~(gained' /\ lost'))
      BY <1>3, Zenon DEF Changing
    <2>2. gained \in BOOLEAN /\ lost \in BOOLEAN /\ gained' \in BOOLEAN /\ lost' \in BOOLEAN
      BY PlaneApart DEF Apart, Typed, TypeOK
    <2>3. pc = "idle" => gained' = gained /\ lost' = lost
      BY <2>1, <2>2, Zenon DEF Busy
    <2> QED
      BY <1>3, <2>1, <2>3, Zenon DEF Recorded
  <1>4. CASE PlaneAdd(k)
    <2>1. Changing(TRUE, FALSE) /\ Live' = Live \cup {k}
      BY <1>2, <1>4 DEF PlaneAdd, Follows
    <2>2. k \notin Live
      BY <1>4 DEF PlaneAdd, Typed, Versions
    <2>3. Listed \subseteq Listed'
      BY <1>1, <1>2, <2>1, <2>2 DEF Listed
    <2> QED
      BY <1>3, <2>1, <2>3
  <1>5. CASE PlaneEdit(k)
    <2>1. Changing(k \notin Listed, FALSE) /\ Live' = Live /\ k \in Live
      BY <1>2, <1>5 DEF PlaneEdit
    <2>2. k \in Listed'
      BY <1>1, <2>1 DEF Listed
    <2>3. Listed \subseteq Listed' /\ Listed' \subseteq Listed \cup {k}
      BY <1>1, <1>2, <2>1, <2>2 DEF Listed
    <2>4. ~(k \notin Listed) => Listed' \subseteq Listed
      BY <2>3
    <2>5. (k \notin Listed) \in BOOLEAN
      OBVIOUS
    <2> QED
      BY <1>3, <2>1, <2>3, <2>4, <2>5
  <1>6. CASE PlaneDelete(k)
    <2>1. Changing(FALSE, k \in Listed) /\ Live' = Live \ {k} /\ ver' = ver
      BY <1>2, <1>6 DEF PlaneDelete, Follows
    <2>2. Listed' = Listed \ {k}
      BY <1>1, <2>1 DEF Listed
    <2>3. (k \in Listed) \in BOOLEAN
      OBVIOUS
    <2>4. ~(k \in Listed) => Listed \subseteq Listed'
      BY <2>2
    <2>5. Listed' \subseteq Listed
      BY <2>2
    <2> QED
      BY <1>3, <2>1, <2>3, <2>4, <2>5
  <1> QED
    BY <1>4, <1>5, <1>6 DEF Plane

\* If the total of a running pass is right after the change, it was right before
\* and the listing holds the same objects.
LEMMA NothingMoved ==
    ASSUME IInv, Typed', ~Replaces, NEW k \in Keys, Plane(k), Paging, Steady'
    PROVE  Steady /\ Listed' = Listed
  <1>1. IsFiniteSet(Listed) /\ IsFiniteSet(Listed') /\ Total \in Nat /\ Total' \in Nat
        /\ Total = Cardinality(Listed) /\ Total' = Cardinality(Listed')
    <2>1. TypeOK /\ TypeOK'
      BY DEF IInv, Typed
    <2>2. IsFiniteSet(Listed) /\ Total \in Nat
      BY <2>1, Sizes
    <2>3. Live' \subseteq Keys
      BY <2>1, OrderType DEF TypeOK, Live
    <2>4. Listed' \in SUBSET Keys
      BY <2>3 DEF Listed
    <2>5. IsFiniteSet(Listed')
      BY <2>4, FS_Subset, MirrorSyncAssumption
    <2>6. Total' = Cardinality(Listed')
      BY DEF Total
    <2> QED
      BY <2>2, <2>5, <2>6, FS_CardinalityType DEF Total
  <1>2. pass' = pass /\ pass.total # None /\ pass.total = Total' /\ Busy
    BY PlaneApart DEF Apart, Steady, Paging, Busy, IInv
  <1>3. Recorded
    BY PlaneRecorded DEF IInv
  <1>4. CASE ~lost'
    <2>1. Listed \subseteq Listed' /\ ~lost
      BY <1>2, <1>3, <1>4 DEF Recorded
    <2>2. Total >= pass.total
      BY <1>2, <2>1 DEF IInv, Trend
    <2>3. Total <= Total'
      BY <1>1, <2>1, FS_Subset
    <2>4. Total = Total'
      BY <1>1, <1>2, <2>2, <2>3
    <2>5. Listed = Listed'
      BY <1>1, <2>1, <2>4, FS_Subset
    <2> QED
      BY <1>2, <2>4, <2>5 DEF Steady
  <1>5. CASE ~gained'
    <2>1. Listed' \subseteq Listed /\ ~gained
      BY <1>2, <1>3, <1>5 DEF Recorded
    <2>2. Total <= pass.total
      BY <1>2, <2>1 DEF IInv, Trend
    <2>3. Total' <= Total
      BY <1>1, <2>1, FS_Subset
    <2>4. Total = Total'
      BY <1>1, <1>2, <2>2, <2>3
    <2>5. Listed = Listed'
      BY <1>1, <2>1, <2>4, FS_Subset
    <2> QED
      BY <1>2, <2>4, <2>5 DEF Steady
  <1> QED
    BY <1>3, <1>4, <1>5 DEF Recorded

LEMMA PlaneTrend ==
    ASSUME IInv, Typed', NEW k \in Keys, Plane(k)
    PROVE  Trend'
  <1> SUFFICES ASSUME pass'.total # None, Paging'
               PROVE  (~lost' => Total' >= pass'.total) /\ (~gained' => Total' <= pass'.total)
    BY DEF Trend
  <1>1. pass' = pass /\ pc' = pc
    BY PlaneApart DEF Apart, IInv
  <1>2. Paging /\ Busy
    BY <1>1 DEF Paging, Busy
  <1>3. Recorded
    BY PlaneRecorded DEF IInv
  <1>4. pass.total \in Nat
    BY <1>1 DEF IInv, Typed, TypeOK, Passes, Nones
  <1>5. TypeOK /\ TypeOK'
    BY DEF IInv, Typed
  <1>6. IsFiniteSet(Listed) /\ Total \in Nat /\ Total = Cardinality(Listed)
    BY <1>5, Sizes DEF Total
  <1>7. IsFiniteSet(Listed') /\ Total' \in Nat /\ Total' = Cardinality(Listed')
    <2>1. Live' \subseteq Keys
      BY <1>5, OrderType DEF TypeOK, Live
    <2>2. Listed' \in SUBSET Keys
      BY <2>1 DEF Listed
    <2>3. IsFiniteSet(Listed')
      BY <2>2, FS_Subset, MirrorSyncAssumption
    <2> QED
      BY <2>3, FS_CardinalityType DEF Total
  <1>8. ASSUME ~lost'
        PROVE  Total' >= pass'.total
    <2>1. Listed \subseteq Listed' /\ Total >= pass.total
      BY <1>1, <1>2, <1>3, <1>8 DEF Recorded, IInv, Trend
    <2>2. Total <= Total'
      BY <1>6, <1>7, <2>1, FS_Subset
    <2> QED
      BY <1>1, <1>4, <1>6, <1>7, <2>1, <2>2
  <1>9. ASSUME ~gained'
        PROVE  Total' <= pass'.total
    <2>1. Listed' \subseteq Listed /\ Total <= pass.total
      BY <1>1, <1>2, <1>3, <1>9 DEF Recorded, IInv, Trend
    <2>2. Total' <= Total
      BY <1>6, <1>7, <2>1, FS_Subset
    <2> QED
      BY <1>1, <1>4, <1>6, <1>7, <2>1, <2>2
  <1> QED
    BY <1>8, <1>9

\* The versions a pass may be taken for are behind the library's.
LEMMA HorizonBehind ==
    ASSUME Typed
    PROVE  \A h \in Horizon : h \in Nat /\ h <= libver
  <1>1. began \in 0..libver /\ checkpoint \in 0..libver /\ synced \in 0..libver /\ libver \in Nat
    BY DEF Typed, TypeOK
  <1>2. pass.mark \in Nat /\ pass.mark <= libver /\ cursor.listing \in Nat /\ cursor.listing <= libver
    BY DEF Typed, TypeOK, Versions, Passes, Cursors
  <1>3. pass.listing # None => pass.listing \in Nat /\ pass.listing <= libver
    BY DEF Typed, TypeOK, Versions, Passes, Nones
  <1>4. began \in Nat /\ checkpoint \in Nat /\ synced \in Nat
    BY <1>1
  <1> QED
    BY <1>1, <1>2, <1>3, <1>4 DEF Horizon, Goals

\* An item with a version the pass may be taken for is not the one that changed.
LEMMA NotTheOne ==
    ASSUME Typed, NEW k \in Keys, Plane(k), NEW h \in Nat, h <= libver, NEW j \in Live', ver'[j] <= h
    PROVE  j # k /\ j \in Live /\ j \in Keys /\ ver'[j] = ver[j] /\ (Current(j)' <=> Current(j))
           /\ (Arriving(j)' <=> Arriving(j)) /\ (Reporting(j)' <=> Reporting(j))
  <1>1. libver \in Nat /\ Apart(k) /\ Moved(k)
    BY PlaneApart, PlaneMoved DEF Typed, TypeOK
  <1>2. j # k
    BY <1>1 DEF Apart, Moved
  <1>3. j \in Live /\ j \in Keys
    BY <1>1, <1>2, Sizes DEF Moved, Typed
  <1>4. ver'[j] = ver[j]
    BY <1>1, <1>2, <1>3 DEF Moved
  <1> QED
    BY <1>1, <1>2, <1>3, <1>4 DEF Apart, Current, Arriving, Reporting

LEMMA PlaneRank ==
    ASSUME Typed, NEW k \in Keys, Plane(k), Listed' = Listed, NEW j \in Listed, j # k
    PROVE  Rank(j) <= Rank(j)' /\ Rank(j) \in Nat /\ Rank(j)' \in Nat
  <1>1. Kept(k) /\ pass' = pass
    BY PlaneKept, PlaneApart DEF Apart
  <1>2. Listed \subseteq Live /\ Listed \subseteq Live' /\ IsFiniteSet(Listed)
    BY Sizes DEF Typed, Listed
  <1>3. \A i \in Listed : Leads(Order, i, j) => Leads(Order', i, j)
    BY <1>1, <1>2 DEF Kept, Order
  <1>4. RankIn(Order, Listed, j) <= RankIn(Order', Listed, j)
        /\ RankIn(Order, Listed, j) \in Nat /\ RankIn(Order', Listed, j) \in Nat
    BY <1>2, <1>3, RankGrows, RankType
  <1>5. Rank(j) = RankIn(Order, Listed, j) /\ Rank(j)' = RankIn(Order', Listed, j)
    BY DEF Rank, RankIn
  <1> QED
    BY <1>4, <1>5

LEMMA PlaneInv ==
    ASSUME IInv, Typed', ~Replaces, NEW k \in Keys, Plane(k)
    PROVE  IInv'
  <1>1. Typed /\ Apart(k) /\ Moved(k) /\ Recorded
    BY PlaneApart, PlaneMoved, PlaneRecorded DEF IInv
  <1>2. /\ UNCHANGED <<api, mirror, marked, checkpoint, cursor, synced, purged, pc, pass, page, began>>
        /\ libver' = libver + 1 /\ libver \in Nat
    BY <1>1 DEF Apart, Typed, TypeOK
  <1>3. Goals' = Goals /\ Horizon' = Horizon /\ Paging' = Paging /\ Reach' = Reach /\ Whole' = Whole
        /\ FewPages' = FewPages
    BY <1>2 DEF Goals, Horizon, Paging, Reach, Whole, FewPages
  <1>4. \A h \in Horizon : h \in Nat /\ h <= libver
    BY <1>1, HorizonBehind
  <1>5. Goals \subseteq Horizon /\ checkpoint \in Horizon /\ synced \in Horizon
    BY DEF Horizon
  <1>6. Places'
    <2>1. (pc = "idle" => ~gained' /\ ~lost') /\ ~(gained' /\ lost')
      BY <1>1 DEF Recorded, IInv, Places
    <2> QED
      BY <1>2, <2>1 DEF IInv, Places
  <1>7. Started'
    BY <1>2, <1>3 DEF IInv, Started
  <1>8. Trend'
    BY PlaneTrend
  <1>9. Outdated'
    <2>1. ASSUME NEW r \in page
          PROVE  r.ver = ver'[r.key] \/ \A h \in Horizon : ver'[r.key] > h
      <3>1. r.key \in Keys
        BY <1>1 DEF Typed, TypeOK
      <3>2. CASE ver'[r.key] = ver[r.key]
        BY <3>2 DEF IInv, Outdated
      <3>3. CASE ver'[r.key] # ver[r.key]
        <4>1. ver'[r.key] = libver'
          BY <1>1, <3>1, <3>3 DEF Moved
        <4> QED
          BY <1>2, <1>4, <4>1
      <3> QED
        BY <3>2, <3>3
    <2> QED
      BY <1>2, <1>3, <2>1 DEF Outdated
  <1>10. Covered'
    <2> SUFFICES ASSUME Paging', Steady', NEW h \in Goals', NEW j \in Listed', Rank(j)' <= Reach', ver'[j] <= h
                 PROVE  Current(j)' \/ Arriving(j)'
      BY DEF Covered
    <2>1. Steady /\ Listed' = Listed /\ Paging
      BY <1>3, NothingMoved
    <2>2. j \in Live' /\ h \in Nat /\ h <= libver
      BY <1>3, <1>4, <1>5 DEF Listed
    <2>3. j # k /\ j \in Keys /\ ver'[j] = ver[j] /\ (Current(j)' <=> Current(j)) /\ (Arriving(j)' <=> Arriving(j))
      BY <1>1, <2>2, NotTheOne
    <2>4. Rank(j) <= Reach
      <3>1. Rank(j) <= Rank(j)' /\ Rank(j) \in Nat /\ Rank(j)' \in Nat
        BY <1>1, <2>1, <2>3, PlaneRank
      <3>2. Reach \in Nat
        BY <1>1 DEF Reach, Typed, TypeOK, Passes
      <3> QED
        BY <1>3, <3>1, <3>2
    <2> QED
      BY <1>3, <2>1, <2>3, <2>4 DEF IInv, Covered
  <1>11. Complete'
    <2> SUFFICES ASSUME Whole', NEW h \in Goals', NEW j \in Live', ver'[j] <= h
                 PROVE  Current(j)' \/ Arriving(j)'
      BY DEF Complete
    <2>1. h \in Nat /\ h <= libver
      BY <1>3, <1>4, <1>5
    <2>2. j \in Live /\ ver'[j] = ver[j] /\ (Current(j)' <=> Current(j)) /\ (Arriving(j)' <=> Arriving(j))
      BY <1>1, <2>1, NotTheOne
    <2> QED
      BY <1>3, <2>2 DEF IInv, Complete
  <1>12. Prefix'
    <2> SUFFICES ASSUME Paging', Steady', pass'.sorted, pass'.since = 0, NEW j \in Listed', Rank(j)' <= Reach'
                 PROVE  j \in pass'.seen \/ Reporting(j)'
      BY DEF Prefix
    <2>1. Steady /\ Listed' = Listed /\ Paging /\ Reach \in Nat
      BY <1>1, <1>3, NothingMoved DEF Reach, Typed, TypeOK, Passes
    <2>2. Rank(j) <= Reach
      <3>1. CASE j = k
        <4>1. added' = added
          BY <1>1, <2>1, <3>1 DEF Moved, Listed
        <4>2. Order' = Order
          BY <1>2, <4>1 DEF Order
        <4>3. Rank(j)' = Rank(j)
          BY <2>1, <4>2 DEF Rank
        <4> QED
          BY <1>3, <4>3
      <3>2. CASE j # k
        <4>1. Rank(j) <= Rank(j)' /\ Rank(j) \in Nat /\ Rank(j)' \in Nat
          BY <1>1, <2>1, <3>2, PlaneRank
        <4> QED
          BY <1>3, <2>1, <4>1
      <3> QED
        BY <3>1, <3>2
    <2>3. j \in pass.seen \/ Reporting(j)
      BY <1>2, <2>1, <2>2 DEF IInv, Prefix
    <2> QED
      BY <1>2, <2>3 DEF Reporting
  <1>13. AllSeen'
    <2> SUFFICES ASSUME pass'.full, pass'.since = 0, Whole', pc' \notin {"clear", "stamp"},
                        pass'.sorted \/ FewPages', NEW j \in Live', mirror'[j] # 0 \/ j \in marked'
                 PROVE  j \in pass'.seen \/ Reporting(j)'
      BY DEF AllSeen
    <2>1. j \in Live
      <3>1. CASE j # k
        BY <1>1, <3>1 DEF Moved
      <3>2. CASE j = k /\ k \notin Live
        <4>1. ver[k] = 0
          BY <1>1, <3>2 DEF Moved
        <4>2. mirror[k] = 0
          BY <1>1, <4>1 DEF Typed, TypeOK, Versions
        <4>3. k \notin marked
          BY <1>1, <4>1 DEF Typed, TypeOK, Versions
        <4> QED
          BY <1>2, <3>2, <4>2, <4>3
      <3> QED
        BY <3>1, <3>2
    <2>2. j \in pass.seen \/ Reporting(j)
      BY <1>2, <1>3, <2>1 DEF IInv, AllSeen
    <2> QED
      BY <1>2, <2>2 DEF Reporting
  <1>14. Buried'
    <2>1. \A j \in purged : j \in Live' => j \in marked
      BY <1>1 DEF IInv, Buried, Moved
    <2> QED
      BY <1>2, <2>1 DEF IInv, Buried
  <1>15. Honest'
    <2>1. ASSUME api'.counts, NEW j \in Live', NEW h \in {checkpoint, synced}, ver'[j] <= h
          PROVE  Current(j)'
      <3>1. h \in Nat /\ h <= libver
        BY <1>4, <1>5
      <3>2. j \in Live /\ ver'[j] = ver[j] /\ (Current(j)' <=> Current(j))
        BY <1>1, <2>1, <3>1, NotTheOne
      <3> QED
        BY <1>2, <2>1, <3>2 DEF IInv, Honest, CurrentTo, Current
    <2> QED
      BY <1>2, <2>1 DEF Honest, CurrentTo, Current
  <1>16. Saved'
    <2>1. cursor.listing \in Nat /\ cursor.listing <= libver
      BY <1>1 DEF Typed, TypeOK, Cursors, Versions
    <2>2. ~Resumes'
      BY <1>2, <2>1 DEF Resumes
    <2> QED
      BY <2>2 DEF Saved
  <1>17. Undisturbed' /\ FullConverges'
    <2>1. began \in Nat /\ began <= libver
      BY <1>1 DEF Typed, TypeOK
    <2> QED
      BY <1>2, <2>1 DEF Undisturbed, FullConverges
  <1> QED
    BY <1>6, <1>7, <1>8, <1>9, <1>10, <1>11, <1>12, <1>13, <1>14, <1>15, <1>16, <1>17 DEF IInv

-----------------------------------------------------------------------------
(* A response.  What it does not show of the listing was fetched before, by *)
(* this pass or by the one that saved the offset.                           *)

\* The first page of a list that is not empty shows something.
LEMMA FirstPage ==
    ASSUME Typed, NEW n \in Nat \ {0}, pass.start = 0, n <= Total
    PROVE  Page(n) # {}
  <1>1. TypeOK /\ Listed \subseteq Live /\ IsFiniteSet(Listed) /\ Order \in Orders /\ Range(Order) = Live
        /\ Total \in Nat /\ \A k : Rank(k) = RankIn(Order, Listed, k)
    BY Sizes DEF Typed
  <1>2. Listed # {}
    BY <1>1, FS_EmptySet DEF Total
  <1>3. PICK k \in Listed : RankIn(Order, Listed, k) = 1
    BY <1>1, <1>2, SomeoneIsFirst
  <1>4. Rank(k) = 1
    BY <1>1, <1>3
  <1>5. pass.start < Rank(k) /\ Rank(k) <= pass.start + n
    BY <1>4
  <1>6. [key |-> k, ver |-> ver[k]] \in Page(n)
    BY <1>1, <1>5, PageRows
  <1> QED
    BY <1>6

\* A resumed request that is not refused is about the listing of the cursor.
LEMMA ResumedListing ==
    ASSUME IInv, pass.expect # None, ~ResumeRefused
    PROVE  /\ Resumes /\ Intact(cursor)
           /\ \A k \in Listed : Rank(k) <= pass.start => k \in Behind(cursor)
           /\ pass.listing # None /\ pass.pinned /\ ~pass.full
  <1>1. /\ pc = "fetch" /\ ~pass.full /\ pass.total = None /\ api.counts /\ pass.pinned
        /\ pass.start = cursor.at /\ cursor.at # 0 /\ ~cursor.full
        /\ pass.since = cursor.since /\ pass.listing = cursor.listing /\ pass.expect = cursor.total
    BY DEF IInv, Started
  <1>2. Total = pass.expect /\ LastModified # 0 /\ LastModified = pass.listing
    BY <1>1 DEF ResumeRefused
  <1>3. cursor.listing = libver /\ pass.listing # None
    <2>1. cursor.listing \in Nat
      BY DEF IInv, Typed, TypeOK, Cursors
    <2> QED
      BY <1>1, <1>2, <2>1, MirrorSyncAssumption DEF LastModified
  <1>4. pass.start \in Nat /\ pass.since \in Nat
    BY DEF IInv, Typed, TypeOK, Passes
  <1>5. Resumes
    BY <1>1, <1>3, <1>4, MirrorSyncAssumption DEF Resumes
  <1>6. Listed = Selected(cursor.since)
    BY <1>1 DEF Listed, Selected
  <1>7. Intact(cursor)
    BY <1>1, <1>2, <1>6 DEF Intact, Total
  <1>8. Order = modified
    BY <1>1 DEF IInv, Places, Order
  <1>9. \A k \in Listed : Rank(k) <= pass.start => k \in Behind(cursor)
    BY <1>1, <1>6, <1>8 DEF Behind, Rank
  <1> QED
    BY <1>1, <1>3, <1>5, <1>7, <1>9

\* An object that comes no later than the offset is current, if its version is
\* one that the pass may be taken for.
LEMMA BehindTheOffset ==
    ASSUME IInv, pc = "fetch", ~ResumeRefused, api.counts, Consistent(Total),
           NEW k \in Listed, Rank(k) <= pass.start
    PROVE  /\ pass.start > 0
           /\ \A h \in Goals : ver[k] <= h => Current(k)
           /\ pass.sorted /\ pass.since = 0 => k \in pass.seen
  <1>1. Rank(k) > 0 /\ Rank(k) \in Nat /\ pass.start \in Nat /\ k \in Live /\ k \in Keys
    BY Sizes DEF IInv, Typed, TypeOK, Passes
  <1>2. pass.start > 0
    BY <1>1
  <1>3. CASE pass.total # None
    <2>1. Paging /\ Steady
      BY <1>3 DEF Paging, Steady, Consistent
    <2>2. Reach = pass.start
      BY <1>1 DEF Reach, IInv, Places
    <2>3. ~Arriving(k) /\ ~Reporting(k)
      BY DEF Arriving, Reporting
    <2>4. \A h \in Goals : ver[k] <= h => Current(k)
      BY <2>1, <2>2, <2>3 DEF IInv, Covered
    <2>5. pass.sorted /\ pass.since = 0 => k \in pass.seen
      BY <2>1, <2>2, <2>3 DEF IInv, Prefix
    <2> QED
      BY <1>2, <2>4, <2>5
  <1>4. CASE pass.total = None
    <2>1. pass.expect # None
      BY <1>2, <1>4 DEF IInv, Started
    <2>2. Resumes /\ Intact(cursor) /\ k \in Behind(cursor) /\ ~pass.full
      BY <2>1, ResumedListing
    <2>3. Current(k)
      BY <2>2, SavedIs DEF IInv
    <2>4. ~pass.sorted
      BY <2>2 DEF IInv, Places
    <2> QED
      BY <1>2, <2>3, <2>4
  <1> QED
    BY <1>3, <1>4

\* While the first page has not been stored, the pass takes its goals from the
\* response; afterwards they stay what they were.
LEMMA GoalsFixed ==
    ASSUME IInv, pc = "fetch", pass.start > 0, ~ResumeRefused,
           NEW v \in 0..libver, pass'.mark = Mark(v), pass'.listing = Fixed, began' = began
    PROVE  Goals' = Goals
  <1>1. Paging /\ PassTypes /\ libver \in Nat
    BY TypedParts DEF IInv, Paging, PlaneTypes
  <1>2. pass.mark # 0 \/ pass.pinned
    BY <1>1 DEF IInv, Started
  <1>3. pass'.mark = pass.mark
    BY <1>1, <1>2, MarkBounds
  <1>4. pass.listing # None
    BY DEF IInv, Started
  <1>5. pass'.listing = pass.listing
    BY <1>4 DEF Fixed
  <1> QED
    BY <1>3, <1>5 DEF Goals

LEMMA RefusedInv ==
    ASSUME IInv, Typed', Fetch, NEW n \in 0..Limit, page' = Page(n), Refused(n)
    PROVE  IInv'
  <1>1. /\ UNCHANGED <<api, plane, mirror, marked, checkpoint, cursor, synced, purged, passes,
                       changes, began, gained, lost>>
        /\ pc = "fetch"
    BY FetchParts DEF IInv
  <1>2. Still /\ pass \in Passes /\ n \in Nat /\ pass.start \in Nat
    BY <1>1, MirrorSyncAssumption DEF Still, plane, IInv, Typed, TypeOK, Passes
  <1>3. pass' = [pass EXCEPT !.expect = None, !.listing = Fixed, !.mark = Mark(LastModified)]
        /\ pc' = "fail"
    BY DEF Refused
  <1>4. /\ pass'.full = pass.full /\ pass'.since = pass.since /\ pass'.sorted = pass.sorted
        /\ pass'.ordered = pass.ordered /\ pass'.start = pass.start /\ pass'.pinned = pass.pinned
        /\ pass'.expect = None /\ pass'.total = pass.total /\ pass'.pages = pass.pages
        /\ pass'.got = pass.got /\ pass'.seen = pass.seen /\ pass'.listing = Fixed
    BY <1>2, <1>3 DEF Passes
  <1>5. Fixed # None
    <2>1. LastModified \in Nat
      BY DEF LastModified, IInv, Typed, TypeOK
    <2> QED
      BY <2>1, MirrorSyncAssumption DEF Fixed
  <1>6. Places'
    BY <1>1, <1>3, <1>4 DEF IInv, Places
  <1>7. Started'
    BY <1>3, <1>4, <1>5 DEF Started, Paging
  <1>8. Trend' /\ Covered' /\ Complete' /\ Prefix' /\ AllSeen'
    BY <1>3 DEF Trend, Covered, Complete, Prefix, AllSeen, Whole, Paging
  <1>9. \A r \in page' : r.key \in Live /\ r.ver = ver[r.key]
    BY <1>2, PageRows, Sizes DEF IInv, Typed
  <1>10. Outdated'
    BY <1>1, <1>9 DEF Outdated, plane
  <1>11. Undisturbed' /\ FullConverges'
    BY <1>1, <1>2, <1>3, <1>4, <1>9, StillLive DEF Undisturbed, FullConverges, IInv, Keyset, plane
  <1>12. \A k : Current(k)' = Current(k)
    BY <1>1, <1>2 DEF Current, Still
  <1>13. Honest' /\ Saved'
    BY <1>1, <1>2, <1>12, HonestKept, SavedKept DEF IInv
  <1>14. Buried'
    BY <1>1, <1>2, <1>9, StillLive DEF Buried, IInv
  <1> QED
    BY <1>6, <1>7, <1>8, <1>10, <1>11, <1>13, <1>14 DEF IInv

LEMMA AnsweredFields ==
    ASSUME Typed, NEW n \in 0..Limit, NEW v, Answered(n, v)
    PROVE  /\ pass'.full = pass.full /\ pass'.since = pass.since /\ pass'.sorted = pass.sorted
           /\ pass'.ordered = pass.ordered /\ pass'.start = pass.start /\ pass'.pinned = pass.pinned
           /\ pass'.expect = None /\ pass'.total = Heard(n) /\ pass'.pages = pass.pages
           /\ pass'.got = n /\ pass'.seen = pass.seen /\ pass'.listing = Fixed /\ pass'.listing # None
           /\ pass'.mark = Mark(v) /\ n \in Nat /\ Limit \in Nat /\ pass.start \in Nat
           /\ api.counts => Heard(n) = Total /\ Total \in Nat /\ Total # None /\ Consistent(Total)
           /\ ~api.counts => Heard(n) = None
  <1>1. pass \in Passes /\ n \in Nat /\ pass.start \in Nat /\ Limit \in Nat
    BY MirrorSyncAssumption DEF Typed, TypeOK, Passes
  <1>2. pass' = [pass EXCEPT !.expect = None, !.listing = Fixed, !.mark = Mark(v),
                             !.total = Heard(n), !.got = n]
    BY DEF Answered
  <1>3. Fixed # None
    <2>1. LastModified \in Nat
      BY DEF LastModified, Typed, TypeOK
    <2> QED
      BY <2>1, MirrorSyncAssumption DEF Fixed
  <1>4. Total \in Nat /\ Total # None
    BY Sizes, MirrorSyncAssumption DEF Typed
  <1>5. /\ pass'.full = pass.full /\ pass'.since = pass.since /\ pass'.sorted = pass.sorted
        /\ pass'.ordered = pass.ordered /\ pass'.start = pass.start /\ pass'.pinned = pass.pinned
        /\ pass'.expect = None /\ pass'.total = Heard(n) /\ pass'.pages = pass.pages
        /\ pass'.got = n /\ pass'.seen = pass.seen /\ pass'.listing = Fixed
        /\ pass'.mark = Mark(v)
    BY <1>1, <1>2 DEF Passes
  <1>6. /\ api.counts => Heard(n) = Total /\ Consistent(Total)
        /\ ~api.counts => Heard(n) = None
    BY <1>4 DEF Heard, Answered
  <1> QED
    BY <1>1, <1>3, <1>4, <1>5, <1>6

LEMMA AnsweredPlaces ==
    ASSUME IInv, Typed', Fetch, NEW n \in 0..Limit, Got(n), page' = Page(n),
           NEW v \in Shown(Page(n)), Answered(n, v)
    PROVE  Places' /\ Started'
  <1>1. /\ UNCHANGED <<api, plane, mirror, marked, checkpoint, cursor, synced, purged, passes,
                       changes, began, gained, lost>>
        /\ pc = "fetch"
    BY FetchParts DEF IInv
  <1>2. /\ pass'.full = pass.full /\ pass'.since = pass.since /\ pass'.sorted = pass.sorted
        /\ pass'.ordered = pass.ordered /\ pass'.start = pass.start /\ pass'.pinned = pass.pinned
        /\ pass'.expect = None /\ pass'.total = Heard(n) /\ pass'.pages = pass.pages
        /\ pass'.got = n /\ pass'.seen = pass.seen /\ pass'.listing # None
        /\ pass'.mark = Mark(v) /\ n \in Nat /\ pass.start \in Nat
        /\ api.counts => Heard(n) # None
        /\ ~api.counts => Heard(n) = None
    BY AnsweredFields DEF IInv
  <1>3. pc' = IF n > 0 THEN "store" ELSE IF Ends(Heard(n), 0) THEN "done" ELSE "fail"
    BY DEF Answered
  <1>4. n = 0 => page' = {}
    <2> SUFFICES ASSUME n = 0, NEW r \in Page(n)
                 PROVE  FALSE
      OBVIOUS
    <2>1. PICK k \in Listed : pass.start < Rank(k) /\ Rank(k) <= pass.start + n
      BY DEF Page
    <2>2. Rank(k) \in Nat
      BY Sizes DEF IInv, Typed
    <2> QED
      BY <1>2, <2>1, <2>2
  <1>5. Places'
    <2>1. pc' \notin {"store", "advance"} => n = 0
      BY <1>2, <1>3
    <2>2. pc' = "store" => n > 0
      BY <1>2, <1>3
    <2>3. pc' \in {"store", "done", "fail"}
      BY <1>3
    <2> QED
      BY <1>1, <1>2, <1>4, <2>1, <2>2, <2>3 DEF IInv, Places
  <1>6. pass'.mark = 0 /\ ~pass'.pinned /\ n > 0 => FALSE
    <2> SUFFICES ASSUME pass'.mark = 0, ~pass'.pinned, n > 0
                 PROVE  FALSE
      OBVIOUS
    <2>1. v \in 0..libver /\ (Page(n) # {} => v > 0)
      BY <1>2, ShownBounds DEF IInv
    <2>2. PassTypes /\ libver \in Nat
      BY TypedParts DEF IInv, PlaneTypes
    <2>3. pass.mark = 0 /\ v = 0
      BY <1>2, <2>1, <2>2, MarkBounds
    <2>4. pass.start = 0
      BY <1>1, <1>2, <2>3 DEF IInv, Started, Paging
    <2>5. Total \in Nat
      BY Sizes DEF IInv, Typed
    <2>6. n <= Total
      BY <1>2, <2>4, <2>5 DEF Got
    <2>7. Page(n) # {}
      BY <1>2, <2>4, <2>6, FirstPage DEF IInv
    <2> QED
      BY <2>1, <2>3, <2>7
  <1>7. Started'
    <2>1. pc' # "fetch" /\ (Paging' => n > 0)
      BY <1>2, <1>3 DEF Paging
    <2> QED
      BY <1>2, <1>6, <2>1 DEF Started
  <1> QED
    BY <1>5, <1>7

\* With the page, the pass has all of the listing up to the end of the page.
Caught(n) ==
    /\ \A h \in Goals', k \in Listed : Rank(k) <= pass.start + n /\ ver[k] <= h =>
         Current(k) \/ (n > 0 /\ [key |-> k, ver |-> ver[k]] \in Page(n))
    /\ pass.sorted /\ pass.since = 0 =>
         \A k \in Listed : Rank(k) <= pass.start + n => k \in pass.seen \/ (n > 0 /\ k \in Keyset(Page(n)))
    /\ pass.start = 0 /\ n > 0 => \A k \in Listed : Rank(k) <= n => k \in Keyset(Page(n))

LEMMA AnsweredCaught ==
    ASSUME IInv, Typed', Fetch, NEW n \in 0..Limit, Got(n), page' = Page(n),
           NEW v \in Shown(Page(n)), Answered(n, v), api.counts
    PROVE  Caught(n)
  <1>1. pc = "fetch" /\ ~ResumeRefused /\ began' = began
    BY FetchParts DEF IInv
  <1>2. /\ pass'.listing = Fixed /\ pass'.mark = Mark(v) /\ n \in Nat /\ pass.start \in Nat
        /\ Total \in Nat /\ Consistent(Total)
    BY AnsweredFields DEF IInv
  <1>3. v \in 0..libver
    BY <1>2, ShownBounds DEF IInv
  <1>4. ASSUME NEW k \in Listed, Rank(k) <= pass.start
        PROVE  /\ \A h \in Goals' : ver[k] <= h => Current(k)
               /\ pass.sorted /\ pass.since = 0 => k \in pass.seen
    <2>1. /\ pass.start > 0
          /\ \A h \in Goals : ver[k] <= h => Current(k)
          /\ pass.sorted /\ pass.since = 0 => k \in pass.seen
      BY <1>1, <1>2, <1>4, BehindTheOffset
    <2>2. Goals' = Goals
      BY <1>1, <1>2, <1>3, <2>1, GoalsFixed
    <2> QED
      BY <2>1, <2>2
  <1>5. \A k \in Listed : Rank(k) \in Nat /\ Rank(k) > 0
    BY Sizes DEF IInv, Typed
  <1>6. ASSUME NEW k \in Listed, pass.start < Rank(k), Rank(k) <= pass.start + n
        PROVE  n > 0 /\ [key |-> k, ver |-> ver[k]] \in Page(n) /\ k \in Keyset(Page(n))
    <2>1. n > 0
      BY <1>2, <1>5, <1>6
    <2>2. [key |-> k, ver |-> ver[k]] \in Page(n)
      BY <1>2, <1>6, PageRows DEF IInv, Typed
    <2>3. [key |-> k, ver |-> ver[k]].key = k
      OBVIOUS
    <2> QED
      BY <2>1, <2>2, <2>3 DEF Keyset
  <1>7. \A k \in Listed : Rank(k) <= pass.start \/ pass.start < Rank(k)
    BY <1>2, <1>5
  <1>8. \A h \in Goals', k \in Listed : Rank(k) <= pass.start + n /\ ver[k] <= h =>
          Current(k) \/ (n > 0 /\ [key |-> k, ver |-> ver[k]] \in Page(n))
    BY <1>4, <1>6, <1>7
  <1>9. pass.sorted /\ pass.since = 0 =>
          \A k \in Listed : Rank(k) <= pass.start + n => k \in pass.seen \/ (n > 0 /\ k \in Keyset(Page(n)))
    BY <1>4, <1>6, <1>7
  <1>10. pass.start = 0 /\ n > 0 => \A k \in Listed : Rank(k) <= n => k \in Keyset(Page(n))
    <2> SUFFICES ASSUME pass.start = 0, NEW k \in Listed, Rank(k) <= n
                 PROVE  k \in Keyset(Page(n))
      OBVIOUS
    <2>1. pass.start < Rank(k) /\ Rank(k) <= pass.start + n
      <3>1. Rank(k) \in Nat /\ Rank(k) > 0
        BY <1>5
      <3> QED
        BY <1>2, <3>1
    <2> QED
      BY <1>6, <2>1
  <1> QED
    BY <1>8, <1>9, <1>10 DEF Caught

LEMMA AnsweredInv ==
    ASSUME IInv, Typed', Fetch, NEW n \in 0..Limit, Got(n), page' = Page(n),
           NEW v \in Shown(Page(n)), Answered(n, v)
    PROVE  IInv'
  <1>1. /\ UNCHANGED <<api, plane, mirror, marked, checkpoint, cursor, synced, purged, passes,
                       changes, began, gained, lost>>
        /\ pc = "fetch" /\ ~ResumeRefused
    BY FetchParts DEF IInv
  <1>2. /\ pass'.full = pass.full /\ pass'.since = pass.since /\ pass'.sorted = pass.sorted
        /\ pass'.start = pass.start /\ pass'.total = Heard(n) /\ pass'.pages = pass.pages
        /\ pass'.got = n /\ pass'.seen = pass.seen
        /\ n \in Nat /\ pass.start \in Nat
        /\ api.counts => Heard(n) = Total /\ Total \in Nat /\ Total # None /\ Consistent(Total)
        /\ ~api.counts => Heard(n) = None
    BY AnsweredFields DEF IInv
  <1>3. /\ pc' = IF n > 0 THEN "store" ELSE IF Ends(Heard(n), 0) THEN "done" ELSE "fail"
        /\ pc' = "store" => n > 0
        /\ pc' = "done" => n = 0 /\ Ends(Heard(n), 0)
        /\ pc' \in {"store", "done", "fail"}
    BY <1>2 DEF Answered
  <1>4. Still /\ Live' = Live /\ ver' = ver /\ Listed' = Listed /\ Total' = Total /\ \A k : Rank(k)' = Rank(k)
    BY <1>1, <1>2, StillLive, SameListing DEF Still, plane
  <1>5. Places' /\ Started'
    BY AnsweredPlaces
  <1>6. Trend'
    BY <1>2, <1>4 DEF Trend
  <1>7. \A r \in page' : r.key \in Live /\ r.ver = ver[r.key]
    BY <1>2, PageRows, Sizes DEF IInv, Typed
  <1>8. Outdated'
    BY <1>4, <1>7 DEF Outdated
  <1>9. \A k : Current(k)' = Current(k)
    BY <1>1, <1>4 DEF Current
  <1>10. api.counts => Caught(n)
    BY AnsweredCaught
  <1>11. pc' = "store" => /\ \A k : [key |-> k, ver |-> ver[k]] \in Page(n) => Arriving(k)'
                          /\ \A k : k \in Keyset(Page(n)) => Reporting(k)'
    BY <1>4 DEF Arriving, Reporting
  <1>12. Paging' => pc' = "store" /\ n > 0 /\ Reach' = pass.start + n
    BY <1>2, <1>3 DEF Paging, Reach
  <1>13. Steady' \/ Whole' => api.counts
    BY <1>2 DEF Steady, Whole
  <1>14. Covered'
    <2> SUFFICES ASSUME Paging', Steady', NEW h \in Goals', NEW k \in Listed, Rank(k) <= Reach', ver[k] <= h
                 PROVE  Current(k)' \/ Arriving(k)'
      BY <1>4 DEF Covered
    <2>1. Current(k) \/ [key |-> k, ver |-> ver[k]] \in Page(n)
      BY <1>10, <1>12, <1>13 DEF Caught
    <2> QED
      BY <1>9, <1>11, <1>12, <2>1
  <1>15. Whole' => (pc' = "store" \/ pc' = "done") /\ pass.start + n = Total
    <2> SUFFICES ASSUME Whole'
                 PROVE  (pc' = "store" \/ pc' = "done") /\ pass.start + n = Total
      OBVIOUS
    <2>1. Heard(n) = Total /\ Heard(n) # None /\ Total \in Nat
      BY <1>2, <1>13
    <2>2. CASE Paging'
      BY <1>2, <1>12, <2>1, <2>2 DEF Whole
    <2>3. CASE ~Paging'
      <3>1. pc' = "done"
        BY <1>3, <2>3 DEF Whole, Paging
      <3> QED
        BY <1>2, <1>3, <2>1, <3>1 DEF Ends
    <2> QED
      BY <2>2, <2>3
  <1>16. Complete'
    <2> SUFFICES ASSUME Whole', NEW h \in Goals', NEW k \in Live, ver[k] <= h
                 PROVE  Current(k)' \/ Arriving(k)'
      BY <1>4 DEF Complete
    <2>1. CASE k \in Listed
      <3>1. Rank(k) <= pass.start + n
        BY <1>15, <2>1, Sizes DEF IInv, Typed
      <3>2. Current(k) \/ (n > 0 /\ [key |-> k, ver |-> ver[k]] \in Page(n))
        BY <1>10, <1>13, <2>1, <3>1 DEF Caught
      <3>3. n > 0 => pc' = "store"
        BY <1>3, <1>15
      <3> QED
        BY <1>9, <1>11, <3>2, <3>3
    <2>2. CASE k \notin Listed
      <3>1. k \in Keys /\ ver[k] \in Nat /\ pass.since \in Nat /\ checkpoint \in Nat /\ pass.since <= checkpoint
        BY Sizes DEF IInv, Typed, TypeOK, Passes, Places
      <3>2. ver[k] <= checkpoint
        BY <2>2, <3>1 DEF Listed
      <3>3. Current(k)
        BY <1>13, <3>2 DEF IInv, Honest, CurrentTo, Current
      <3> QED
        BY <1>9, <3>3
    <2> QED
      BY <2>1, <2>2
  <1>17. Prefix'
    <2> SUFFICES ASSUME Paging', Steady', pass.sorted, pass.since = 0, NEW k \in Listed, Rank(k) <= Reach'
                 PROVE  k \in pass.seen \/ Reporting(k)'
      BY <1>2, <1>4 DEF Prefix
    <2>1. k \in pass.seen \/ k \in Keyset(Page(n))
      BY <1>10, <1>12, <1>13 DEF Caught
    <2> QED
      BY <1>11, <1>12, <2>1
  <1>18. AllSeen'
    <2> SUFFICES ASSUME pass.full, pass.since = 0, Whole', pass.sorted \/ FewPages',
                        NEW k \in Live, mirror[k] # 0 \/ k \in marked
                 PROVE  k \in pass.seen \/ Reporting(k)'
      BY <1>1, <1>2, <1>4 DEF AllSeen
    <2>1. k \in Listed
      BY DEF Listed, IInv, Typed, Versions
    <2>2. Rank(k) <= Total /\ Rank(k) \in Nat /\ Rank(k) > 0
      BY <2>1, Sizes DEF IInv, Typed
    <2>3. CASE n > 0
      <3>1. pc' = "store" /\ Caught(n)
        BY <1>3, <1>10, <1>13, <2>3
      <3>2. CASE pass.sorted
        <4>1. k \in pass.seen \/ k \in Keyset(Page(n))
          BY <1>15, <2>1, <2>2, <3>1, <3>2 DEF Caught
        <4> QED
          BY <1>11, <3>1, <4>1
      <3>3. CASE FewPages'
        <4>1. pass.pages = 0
          BY <1>2, <3>1, <3>3 DEF FewPages
        <4>2. pass.start = 0
          BY <4>1 DEF IInv, Places
        <4>3. k \in Keyset(Page(n))
          BY <1>2, <1>15, <2>1, <2>2, <2>3, <3>1, <4>2 DEF Caught
        <4> QED
          BY <1>11, <3>1, <4>3
      <3> QED
        BY <3>2, <3>3
    <2>4. CASE n = 0
      <3>1. pc' = "done" /\ pass.start = Total
        BY <1>2, <1>3, <1>15, <2>4
      <3>2. pass.start > 0
        BY <1>2, <2>2, <3>1
      <3>3. pass.expect = None
        BY DEF IInv, Started
      <3>4. pass.total # None
        BY <1>1, <1>13, <3>2, <3>3 DEF IInv, Started
      <3>5. pass.total = Total
        BY <1>2, <1>13, <3>4 DEF Consistent
      <3>6. Whole /\ Reach = pass.start
        <4>1. Paging /\ pass.got = 0
          BY <1>1 DEF Paging, IInv, Places
        <4> QED
          BY <1>2, <3>1, <3>4, <3>5, <4>1 DEF Whole, Reach
      <3>7. FewPages' => FewPages
        BY <1>1, <1>2, <3>1 DEF FewPages
      <3>8. k \in pass.seen \/ Reporting(k)
        BY <1>1, <3>6, <3>7 DEF IInv, AllSeen
      <3> QED
        BY <1>1, <3>8 DEF Reporting
    <2> QED
      BY <1>2, <2>3, <2>4
  <1>19. Undisturbed' /\ FullConverges'
    BY <1>1, <1>2, <1>3, <1>4, <1>7 DEF Undisturbed, FullConverges, IInv, Keyset, plane
  <1>20. Honest' /\ Saved'
    BY <1>1, <1>4, <1>9, HonestKept, SavedKept DEF IInv
  <1>21. Buried'
    BY <1>1, <1>4, <1>7 DEF Buried, IInv
  <1> QED
    BY <1>5, <1>6, <1>8, <1>14, <1>16, <1>17, <1>18, <1>19, <1>20, <1>21 DEF IInv

LEMMA FetchInv ==
    ASSUME IInv, Typed', Fetch
    PROVE  IInv'
  <1>1. PICK n \in 0..Limit :
          /\ Got(n) /\ page' = Page(n)
          /\ Refused(n) \/ \E v \in Shown(Page(n)) : Answered(n, v)
    BY FetchParts DEF IInv
  <1> QED
    BY <1>1, RefusedInv, AnsweredInv

-----------------------------------------------------------------------------
(* The rest of a pass. *)

LEMMA StoreRows ==
    ASSUME Typed, Store, NEW k \in Keys
    PROVE  /\ ~(\E r \in page : r.key = k /\ k \notin marked) => mirror'[k] = mirror[k]
           /\ \A r \in page : r.key = k /\ k \notin marked => mirror'[k] = r.ver
  <1> DEFINE c == CHOOSE r \in page : r.key = k
  <1>1. mirror'[k] = IF \E r \in Reconciled(page) : r.key = k THEN c.ver ELSE mirror[k]
    BY DEF Store
  <1>2. (\E r \in Reconciled(page) : r.key = k) <=> \E r \in page : r.key = k /\ k \notin marked
    BY DEF Reconciled
  <1>3. ASSUME NEW r \in page, r.key = k
        PROVE  c = r
    <2>1. c \in page /\ c.key = k
      BY <1>3
    <2> HIDE DEF c
    <2> QED
      BY <1>3, <2>1 DEF Typed, Versions
  <1> HIDE DEF c
  <1> QED
    BY <1>1, <1>2, <1>3

LEMMA StoreInv ==
    ASSUME IInv, Typed', Store
    PROVE  IInv'
  <1>1. /\ UNCHANGED <<api, plane, marked, checkpoint, cursor, synced, purged, passes,
                       changes, page, began, gained, lost>>
        /\ pc = "store" /\ pc' = "advance"
    BY DEF Store
  <1>2. pass \in Passes /\ page \subseteq [key : Keys, ver : Nat]
    BY DEF IInv, Typed, TypeOK
  <1>3. pass' = [pass EXCEPT !.seen = IF pass.full THEN @ \cup Keyset(page) ELSE @]
    BY DEF Store, Reported
  <1>4. /\ pass'.full = pass.full /\ pass'.since = pass.since /\ pass'.sorted = pass.sorted
        /\ pass'.ordered = pass.ordered /\ pass'.start = pass.start /\ pass'.pinned = pass.pinned
        /\ pass'.expect = pass.expect /\ pass'.total = pass.total /\ pass'.pages = pass.pages
        /\ pass'.got = pass.got /\ pass'.listing = pass.listing /\ pass'.mark = pass.mark
        /\ pass'.seen = IF pass.full THEN pass.seen \cup Keyset(page) ELSE pass.seen
    BY <1>2, <1>3 DEF Passes
  <1>5. Still /\ Live' = Live /\ ver' = ver /\ Listed' = Listed /\ Total' = Total /\ \A k : Rank(k)' = Rank(k)
    BY <1>1, <1>4, StillLive, SameListing DEF Still, plane
  <1>6. Goals' = Goals /\ Horizon' = Horizon /\ Paging' /\ Paging /\ Reach' = Reach /\ (Whole' <=> Whole)
        /\ (Steady' <=> Steady) /\ (FewPages' <=> FewPages)
    BY <1>1, <1>4, <1>5 DEF Goals, Horizon, Paging, Reach, Whole, Steady, FewPages
  <1>7. Live \subseteq Keys /\ Listed \subseteq Live
    BY Sizes DEF IInv, Typed
  <1>8. ASSUME NEW k \in Live, NEW h \in Horizon, ver[k] <= h, Current(k) \/ Arriving(k)
        PROVE  Current(k)'
    <2>1. k \in Keys /\ ver[k] \in Nat /\ h \in Nat
      BY <1>7, HorizonBehind DEF IInv, Typed, TypeOK
    <2>2. CASE k \in marked
      BY <1>1, <2>2 DEF Current
    <2>3. CASE k \notin marked
      <3>1. \A r \in page : r.key = k => r.ver = ver[k]
        BY <1>8, <2>1 DEF IInv, Outdated
      <3>2. CASE \E r \in page : r.key = k
        <4>1. mirror'[k] = ver[k]
          BY <2>1, <2>3, <3>1, <3>2, StoreRows DEF IInv
        <4> QED
          BY <1>5, <4>1 DEF Current
      <3>3. CASE ~ \E r \in page : r.key = k
        <4>1. [key |-> k, ver |-> ver[k]].key = k
          OBVIOUS
        <4>2. Current(k)
          BY <1>8, <3>3, <4>1 DEF Arriving
        <4>3. mirror'[k] = mirror[k]
          BY <2>1, <3>3, StoreRows DEF IInv
        <4> QED
          BY <1>1, <1>5, <4>2, <4>3 DEF Current
      <3> QED
        BY <3>2, <3>3
    <2> QED
      BY <2>2, <2>3
  <1>9. Goals \subseteq Horizon /\ checkpoint \in Horizon /\ synced \in Horizon /\ cursor.listing \in Horizon
    BY DEF Horizon
  <1>10. Places' /\ Started'
    <2>1. ~pass.full => pass'.seen = {}
      BY <1>4 DEF IInv, Places
    <2>2. Places'
      BY <1>1, <1>4, <2>1 DEF IInv, Places
    <2>3. Started'
      BY <1>1, <1>4, <1>6 DEF IInv, Started
    <2> QED
      BY <2>2, <2>3
  <1>11. Trend' /\ Outdated'
    BY <1>1, <1>4, <1>5, <1>6 DEF IInv, Trend, Outdated
  <1>12. Covered'
    <2> SUFFICES ASSUME Steady, NEW h \in Goals, NEW k \in Listed, Rank(k) <= Reach, ver[k] <= h
                 PROVE  Current(k)'
      BY <1>5, <1>6 DEF Covered
    <2>1. Current(k) \/ Arriving(k)
      BY <1>6 DEF IInv, Covered
    <2> QED
      BY <1>7, <1>8, <1>9, <2>1
  <1>13. Complete'
    <2> SUFFICES ASSUME Whole, NEW h \in Goals, NEW k \in Live, ver[k] <= h
                 PROVE  Current(k)'
      BY <1>5, <1>6 DEF Complete
    <2>1. Current(k) \/ Arriving(k)
      BY DEF IInv, Complete
    <2> QED
      BY <1>8, <1>9, <2>1
  <1>14. \A k : pass.full /\ (k \in pass.seen \/ Reporting(k)) => k \in pass'.seen
    BY <1>4 DEF Reporting
  <1>15. Prefix'
    <2> SUFFICES ASSUME Steady, pass.sorted, pass.since = 0, NEW k \in Listed, Rank(k) <= Reach
                 PROVE  k \in pass'.seen
      BY <1>4, <1>5, <1>6 DEF Prefix
    <2>1. pass.full /\ (k \in pass.seen \/ Reporting(k))
      BY <1>6 DEF IInv, Prefix, Places
    <2> QED
      BY <1>14, <2>1
  <1>16. AllSeen'
    <2> SUFFICES ASSUME pass.full, pass.since = 0, Whole, pass.sorted \/ FewPages,
                        NEW k \in Live, mirror'[k] # 0 \/ k \in marked
                 PROVE  k \in pass'.seen
      BY <1>1, <1>4, <1>5, <1>6 DEF AllSeen
    <2>1. k \in Keys
      BY <1>7
    <2>2. CASE \E r \in page : r.key = k
      BY <1>4, <2>2 DEF Keyset
    <2>3. CASE ~ \E r \in page : r.key = k
      <3>1. mirror'[k] = mirror[k]
        BY <2>1, <2>3, StoreRows DEF IInv
      <3>2. k \in pass.seen \/ Reporting(k)
        BY <1>1, <3>1 DEF IInv, AllSeen
      <3> QED
        BY <1>14, <3>2
    <2> QED
      BY <2>2, <2>3
  <1>17. Buried'
    <2>1. ASSUME NEW k \in purged
          PROVE  mirror'[k] = 0
      <3>1. k \in Keys /\ mirror[k] = 0 /\ ~ \E r \in page : r.key = k /\ k \notin marked
        BY DEF IInv, Buried, Typed, TypeOK
      <3> QED
        BY <3>1, StoreRows DEF IInv
    <2> QED
      BY <1>1, <1>5, <2>1 DEF IInv, Buried
  <1>18. Honest'
    BY <1>1, <1>5, <1>8, <1>9, HonestKept DEF IInv
  <1>19. Saved'
    BY <1>1, <1>5, <1>8, <1>9, SavedKept DEF IInv
  <1>20. Undisturbed' /\ FullConverges'
    <2>1. page' = page /\ pass'.seen \subseteq pass.seen \cup Keyset(page) /\ began' = began /\ libver' = libver
      BY <1>1, <1>4 DEF plane
    <2>2. Undisturbed'
      BY <1>1, <1>5, <2>1 DEF IInv, Undisturbed, Keyset
    <2>3. FullConverges'
      BY <1>1 DEF FullConverges
    <2> QED
      BY <2>2, <2>3
  <1> QED
    BY <1>10, <1>11, <1>12, <1>13, <1>15, <1>16, <1>17, <1>18, <1>19, <1>20 DEF IInv

LEMMA AdvanceInv ==
    ASSUME IInv, Typed', Advance
    PROVE  IInv'
  <1>1. /\ UNCHANGED <<api, plane, mirror, marked, checkpoint, synced, purged, passes,
                       changes, began, gained, lost>>
        /\ pc = "advance" /\ page' = {}
    BY DEF Advance
  <1>2. pass \in Passes /\ pass.got \in Nat /\ pass.got > 0 /\ pass.start \in Nat /\ pass.pages \in Nat
        /\ Limit \in Nat /\ pass.total \in Nones
    BY <1>1, MirrorSyncAssumption DEF IInv, Typed, TypeOK, Passes, Places
  <1>3. \/ /\ pass.got = Limit /\ pc' = "fetch"
           /\ pass' = [pass EXCEPT !.pages = pass.pages + 1, !.start = pass.start + pass.got, !.got = 0]
        \/ /\ pc' = IF Ends(pass.total, pass.got) THEN "done" ELSE "fail"
           /\ pass' = [pass EXCEPT !.pages = pass.pages + 1, !.got = 0]
    BY <1>1, <1>2 DEF Advance, Passes
  <1>4. /\ pass'.full = pass.full /\ pass'.since = pass.since /\ pass'.sorted = pass.sorted
        /\ pass'.ordered = pass.ordered /\ pass'.pinned = pass.pinned
        /\ pass'.expect = pass.expect /\ pass'.total = pass.total /\ pass'.pages = pass.pages + 1
        /\ pass'.got = 0 /\ pass'.listing = pass.listing /\ pass'.mark = pass.mark
        /\ pass'.seen = pass.seen
        /\ pc' = "fetch" => pass'.start = pass.start + pass.got
    BY <1>2, <1>3 DEF Passes
  <1>5. pc' \in {"fetch", "done", "fail"} /\ (pc' = "done" => Ends(pass.total, pass.got))
    BY <1>3
  <1>6. Still /\ Live' = Live /\ ver' = ver /\ Listed' = Listed /\ Total' = Total /\ \A k : Rank(k)' = Rank(k)
    BY <1>1, <1>4, StillLive, SameListing DEF Still, plane
  <1>7. Goals' = Goals /\ Paging /\ (Steady' <=> Steady) /\ (Paging' => pc' = "fetch" /\ Reach' = Reach)
    <2>1. Goals' = Goals /\ Paging /\ (Steady' <=> Steady) /\ (Paging' => pc' = "fetch")
      BY <1>1, <1>4, <1>5, <1>6 DEF Goals, Paging, Steady
    <2>2. pc' = "fetch" => Reach' = Reach
      <3>1. pc' = "fetch" => pass'.start + pass'.got = pass.start + pass.got
        BY <1>2, <1>4
      <3> QED
        BY <3>1 DEF Reach
    <2> QED
      BY <2>1, <2>2
  <1>8. Whole' => Whole /\ pc' \in {"fetch", "done"}
    <2>1. CASE pc' = "fetch"
      BY <1>4, <1>7, <2>1 DEF Whole, Paging
    <2>2. CASE pc' = "done"
      BY <1>4, <1>5, <1>7, <2>2 DEF Whole, Ends, Reach
    <2>3. CASE pc' = "fail"
      BY <2>3 DEF Whole, Paging
    <2> QED
      BY <1>5, <2>1, <2>2, <2>3
  <1>9. \A k : ~Arriving(k) /\ ~Reporting(k) /\ (Current(k)' <=> Current(k))
    BY <1>1, <1>6 DEF Arriving, Reporting, Current
  <1>10. pass.total # None <=> api.counts
    BY <1>1 DEF IInv, Places
  <1>11. \/ cursor' = cursor
         \/ /\ ~pass.full
            /\ cursor' = [Scope(pass.total) EXCEPT !.at = IF pass.got = Limit THEN pass.start + pass.got ELSE 0]
    BY DEF Advance
  <1>12. cursor' # cursor =>
           /\ ~pass.full /\ cursor'.total = pass.total /\ cursor'.since = pass.since
           /\ cursor'.listing = pass.listing /\ cursor'.at \in {Reach, 0}
    <2>1. pass.listing # None
      BY <1>1 DEF IInv, Started
    <2>2. /\ Scope(pass.total) \in Cursors /\ Scope(pass.total).total = pass.total
          /\ Scope(pass.total).since = pass.since /\ Scope(pass.total).listing = pass.listing
      BY <1>2, <2>1, ScopeTyped
    <2>3. ASSUME NEW at
          PROVE  LET c == [Scope(pass.total) EXCEPT !.at = at]
                 IN c.at = at /\ c.total = pass.total /\ c.since = pass.since /\ c.listing = pass.listing
      BY <2>2 DEF Cursors
    <2> DEFINE at == IF pass.got = Limit THEN pass.start + pass.got ELSE 0
    <2>4. at \in {Reach, 0}
      BY DEF Reach
    <2>5. cursor' # cursor => ~pass.full /\ cursor' = [Scope(pass.total) EXCEPT !.at = at]
      BY <1>11
    <2> HIDE DEF at
    <2> QED
      BY <2>3, <2>4, <2>5
  <1>13. Places'
    <2>1. cursor'.total # None => api'.counts
      BY <1>1, <1>10, <1>12 DEF IInv, Places
    <2>2. pass'.pages # 0
      BY <1>2, <1>4
    <2> QED
      BY <1>1, <1>4, <1>5, <1>10, <2>1, <2>2 DEF IInv, Places
  <1>14. Started'
    <2>1. pass'.expect = None /\ pass'.listing # None
      BY <1>1, <1>4 DEF IInv, Started
    <2>2. pc' = "fetch" => pass'.start > 0
      BY <1>2, <1>4
    <2>3. pass'.mark # 0 \/ pass'.pinned
      BY <1>2, <1>4, <1>7 DEF IInv, Started
    <2> QED
      BY <1>1, <1>4, <1>10, <2>1, <2>2, <2>3 DEF Started
  <1>15. Trend' /\ Outdated'
    BY <1>1, <1>4, <1>6, <1>7 DEF IInv, Trend, Outdated
  <1>16. Covered'
    BY <1>6, <1>7, <1>9 DEF IInv, Covered
  <1>17. Complete'
    BY <1>6, <1>7, <1>8, <1>9 DEF IInv, Complete
  <1>18. Prefix'
    BY <1>4, <1>6, <1>7, <1>9 DEF IInv, Prefix
  <1>19. AllSeen'
    <2>1. Whole' /\ FewPages' => FewPages
      <3>1. Whole' => pc' \notin {"store", "advance"}
        BY <1>8
      <3>2. pass.pages + 1 <= 1 => pass.pages = 0
        BY <1>2
      <3> QED
        BY <1>1, <1>4, <3>1, <3>2 DEF FewPages
    <2> QED
      BY <1>1, <1>4, <1>6, <1>8, <1>9, <2>1 DEF IInv, AllSeen
  <1>20. Buried'
    BY <1>1, <1>6 DEF IInv, Buried
  <1>21. Honest'
    BY <1>1, <1>6, <1>9, HonestKept DEF IInv
  <1>22. Saved'
    <2>1. CASE cursor' = cursor
      BY <1>6, <1>9, <2>1, SavedKept DEF IInv
    <2>2. CASE cursor' # cursor
      <3> SUFFICES ASSUME Resumes', Intact(cursor)', NEW k \in Behind(cursor)'
                   PROVE  Current(k)'
        BY SavedIs2
      <3>1. Selected(cursor.since)' = Listed /\ modified' = modified
        BY <1>6, <1>12, <2>2 DEF Selected, Listed, Still
      <3>2. Steady
        BY <1>12, <2>2, <3>1 DEF Intact, Resumes, Steady, Total
      <3>3. Order = modified
        BY <1>12, <2>2 DEF Order, IInv, Places
      <3>4. k \in Listed /\ Rank(k) <= Reach
        <4>1. cursor'.at = Reach
          BY <1>12, <2>2 DEF Resumes
        <4> QED
          BY <3>1, <3>3, <4>1 DEF Behind, Rank
      <3>5. pass.listing = libver /\ pass.listing \in Goals
        <4>1. cursor'.listing = libver' /\ libver' = libver
          BY <1>6 DEF Resumes, Still
        <4>2. pass.listing # None
          BY <1>1 DEF IInv, Started
        <4> QED
          BY <1>12, <2>2, <4>1, <4>2 DEF Goals
      <3>6. ver[k] <= libver
        <4>1. k \in Keys
          BY <3>4, Sizes DEF IInv, Typed
        <4> QED
          BY <4>1 DEF IInv, Typed, TypeOK
      <3>7. Current(k) \/ Arriving(k)
        BY <1>7, <3>2, <3>4, <3>5, <3>6 DEF IInv, Covered
      <3> QED
        BY <1>9, <3>7
    <2> QED
      BY <2>1, <2>2
  <1>23. Undisturbed' /\ FullConverges'
    <2>1. page' = {} /\ pass'.seen = pass.seen /\ began' = began /\ libver' = libver
      BY <1>1, <1>4 DEF plane
    <2>2. Undisturbed'
      BY <1>1, <1>6, <2>1 DEF IInv, Undisturbed, Keyset
    <2>3. FullConverges'
      BY <1>5 DEF FullConverges
    <2> QED
      BY <2>2, <2>3
  <1> QED
    BY <1>13, <1>14, <1>15, <1>16, <1>17, <1>18, <1>19, <1>20, <1>21, <1>22, <1>23 DEF IInv

\* What the sweep takes away is not listed.
LEMMA SweptAreGone ==
    ASSUME IInv, pc = "done", MaySweep, NEW k \in Live, mirror[k] # 0 \/ k \in marked
    PROVE  k \in pass.seen
  <1>1. pass.full /\ pass.since = 0 /\ pass.total # None /\ (pass.sorted \/ pass.pages <= 1)
    BY DEF MaySweep, ObservedEverything, OrderVerified
  <1>2. Whole /\ (pass.sorted \/ FewPages) /\ ~Reporting(k)
    BY <1>1 DEF Whole, Paging, FewPages, Reporting
  <1> QED
    BY <1>1, <1>2 DEF IInv, AllSeen

LEMMA SweepInv ==
    ASSUME IInv, Typed', Sweep
    PROVE  IInv'
  <1>1. /\ UNCHANGED <<api, plane, checkpoint, cursor, synced, purged, passes, changes,
                       pass, page, began, gained, lost>>
        /\ pc = "done" /\ pc' = "clear"
    BY DEF Sweep
  <1>2. Still /\ Live' = Live /\ ver' = ver /\ page = {} /\ page' = {}
    BY <1>1, StillLive DEF Still, plane, IInv, Places
  <1>3. Live \subseteq Keys /\ mirror \in [Keys -> Nat] /\ marked \subseteq purged /\ purged \subseteq Keys
    BY Sizes DEF IInv, Typed, TypeOK
  <1> DEFINE Spares == \A k \in Live : mirror[k] # 0 \/ k \in marked =>
                          mirror'[k] = mirror[k] /\ (k \in marked' <=> k \in marked)
  <1>5. Spares /\ (\A k \in Keys : mirror[k] = 0 => mirror'[k] = 0) /\ marked' \subseteq marked
    <2>1. CASE MaySweep
      <3>1. mirror' = [k \in Keys |-> IF k \in pass.seen THEN mirror[k] ELSE 0] /\ marked' = marked \cap pass.seen
        BY <2>1 DEF Sweep
      <3>2. ASSUME NEW k \in Live, mirror[k] # 0 \/ k \in marked
            PROVE  mirror'[k] = mirror[k] /\ (k \in marked' <=> k \in marked)
        <4>1. k \in pass.seen
          BY <1>1, <2>1, <3>2, SweptAreGone
        <4> QED
          BY <1>3, <3>1, <4>1
      <3>3. Spares
        BY <3>2
      <3> QED
        BY <3>1, <3>3
    <2>2. CASE ~MaySweep
      BY <2>2 DEF Sweep
    <2> QED
      BY <2>1, <2>2
  <1>6. ASSUME NEW k \in Live, Current(k)
        PROVE  Current(k)'
    <2>1. ver[k] # 0
      BY <1>3 DEF IInv, Typed, TypeOK, Versions
    <2>2. mirror[k] # 0 \/ k \in marked
      BY <1>6, <2>1 DEF Current
    <2>3. mirror'[k] = mirror[k] /\ (k \in marked' <=> k \in marked)
      BY <1>5, <2>2
    <2> QED
      BY <1>2, <1>6, <2>3 DEF Current
  <1>7. Places' /\ Started'
    BY <1>1, <1>2 DEF IInv, Places, Started, Paging
  <1>8. Trend' /\ Outdated' /\ Covered' /\ Prefix' /\ AllSeen'
    BY <1>1, <1>2 DEF Trend, Outdated, Covered, Prefix, AllSeen, Paging
  <1>9. Complete'
    <2> SUFFICES ASSUME Whole', NEW h \in Goals', NEW k \in Live, ver[k] <= h
                 PROVE  Current(k)'
      BY <1>2 DEF Complete
    <2>1. Whole /\ Goals' = Goals /\ ~Arriving(k)
      BY <1>1 DEF Whole, Goals, Paging, Arriving
    <2>2. Current(k)
      BY <2>1 DEF IInv, Complete
    <2> QED
      BY <1>6, <2>2
  <1>10. Buried'
    <2>1. \A k \in purged : mirror'[k] = 0
      BY <1>3, <1>5 DEF IInv, Buried
    <2>2. \A k \in purged : k \in Live => k \in marked'
      BY <1>5 DEF IInv, Buried
    <2> QED
      BY <1>1, <1>2, <2>1, <2>2 DEF Buried
  <1>11. Honest' /\ Saved'
    BY <1>1, <1>2, <1>6, HonestKept, SavedKept DEF IInv
  <1>12. Undisturbed'
    BY <1>1, <1>2 DEF IInv, Undisturbed, plane
  <1>13. FullConverges'
    <2> SUFFICES ASSUME pass.full, pass.since = 0, libver = began, api.counts, api.sort = "dateAdded",
                        NEW k \in Keys
                 PROVE  mirror'[k] = IF k \in Live \ marked' THEN ver[k] ELSE 0
      BY <1>1, <1>2 DEF FullConverges, Still
    <2>1. pass.sorted /\ pass.ordered /\ pass.total # None
      BY <1>1 DEF IInv, Places
    <2>2. MaySweep
      BY <2>1 DEF MaySweep, ObservedEverything, OrderVerified
    <2>3. mirror'[k] = IF k \in pass.seen THEN mirror[k] ELSE 0
      BY <2>2 DEF Sweep
    <2>4. CASE k \notin Live
      <3>1. k \notin pass.seen
        BY <1>1, <2>4 DEF IInv, Undisturbed
      <3> QED
        BY <2>3, <2>4, <3>1
    <2>5. CASE k \in Live /\ k \in marked'
      <3>1. mirror[k] = 0
        BY <1>3, <1>5, <2>5 DEF IInv, Buried
      <3> QED
        BY <2>3, <2>5, <3>1
    <2>6. CASE k \in Live /\ k \notin marked'
      <3>1. k \notin marked
        BY <1>5, <2>6
      <3>2. Whole /\ began \in Goals /\ ver[k] <= began /\ ~Arriving(k)
        BY <1>1, <2>1 DEF Whole, Paging, Goals, Arriving, IInv, Typed, TypeOK
      <3>3. mirror[k] = ver[k]
        BY <2>6, <3>1, <3>2 DEF IInv, Complete, Current
      <3>4. ver[k] # 0
        BY <2>6 DEF IInv, Typed, TypeOK, Versions
      <3>5. k \in pass.seen
        BY <1>1, <2>2, <2>6, <3>3, <3>4, SweptAreGone
      <3> QED
        BY <2>3, <2>6, <3>3, <3>5
    <2> QED
      BY <2>4, <2>5, <2>6
  <1> QED
    BY <1>7, <1>8, <1>9, <1>10, <1>11, <1>12, <1>13 DEF IInv

LEMMA ClearInv ==
    ASSUME IInv, Typed', ClearCursor
    PROVE  IInv'
  <1>1. /\ UNCHANGED <<api, plane, mirror, marked, checkpoint, purged, passes, changes,
                       pass, page, began, gained, lost>>
        /\ pc = "clear" /\ pc' = "stamp" /\ cursor' = Clear /\ synced' = began
    BY DEF ClearCursor
  <1>2. Still /\ Live' = Live /\ ver' = ver /\ page = {} /\ page' = {}
    BY <1>1, StillLive DEF Still, plane, IInv, Places
  <1>3. Clear.at = None /\ Clear.total = None
    BY DEF Clear
  <1>4. \A k : Current(k)' = Current(k)
    BY <1>1, <1>2 DEF Current
  <1>5. Places' /\ Started'
    <2>1. pass.expect = None
      BY <1>1 DEF IInv, Started
    <2> QED
      BY <1>1, <1>2, <1>3, <2>1 DEF IInv, Places, Started, Paging
  <1>6. Trend' /\ Outdated' /\ Covered' /\ Prefix' /\ AllSeen'
    BY <1>1, <1>2 DEF Trend, Outdated, Covered, Prefix, AllSeen, Paging
  <1>7. Complete'
    <2> SUFFICES ASSUME Whole', NEW h \in Goals', NEW k \in Live, ver[k] <= h
                 PROVE  Current(k)'
      BY <1>2 DEF Complete
    <2>1. Whole /\ Goals' = Goals /\ ~Arriving(k)
      BY <1>1 DEF Whole, Goals, Paging, Arriving
    <2> QED
      BY <1>4, <2>1 DEF IInv, Complete
  <1>8. Buried'
    BY <1>1, <1>2 DEF IInv, Buried
  <1>9. Saved'
    BY <1>1, <1>3 DEF Saved, Resumes
  <1>10. Honest'
    <2>1. ASSUME api.counts
          PROVE  \A k \in Live : ver[k] <= began => Current(k)
      <3>1. Whole /\ began \in Goals /\ \A k : ~Arriving(k)
        BY <1>1, <2>1 DEF Whole, Paging, Goals, Arriving, IInv, Places
      <3> QED
        BY <3>1 DEF IInv, Complete
    <2>2. api.counts => \A k \in Live : ver[k] <= checkpoint => Current(k)
      BY DEF IInv, Honest, CurrentTo, Current
    <2>3. api.counts => \A k \in Live : (ver[k] <= checkpoint => Current(k)') /\ (ver[k] <= began => Current(k)')
      BY <1>4, <2>1, <2>2
    <2> QED
      BY <1>1, <1>2, <2>3 DEF Honest, CurrentTo, Current
  <1>11. Undisturbed' /\ FullConverges'
    BY <1>1, <1>2 DEF IInv, Undisturbed, FullConverges, plane
  <1> QED
    BY <1>5, <1>6, <1>7, <1>8, <1>9, <1>10, <1>11 DEF IInv

-----------------------------------------------------------------------------
(* The theorems. *)

LEMMA InitInv == Init => IInv
  <1> SUFFICES ASSUME Init
               PROVE  IInv
    OBVIOUS
  <1>1. Typed
    BY InitTyped
  <1>2. /\ pc = "idle" /\ pass = NoPass /\ page = {} /\ gained = FALSE /\ lost = FALSE
        /\ cursor = Clear /\ marked = {} /\ purged = {} /\ synced = checkpoint
    BY DEF Init
  <1>3. /\ pass.total = None /\ pass.listing = None /\ pass.expect = None /\ pass.got = 0
        /\ pass.full = FALSE /\ pass.sorted = FALSE /\ pass.seen = {} /\ pass.since = 0
        /\ pass.start = 0 /\ cursor.total = None /\ cursor.at = None
    BY <1>2 DEF NoPass, Clear
  <1>4. ~gained /\ ~lost
    BY <1>2, Zenon
  <1>5. checkpoint \in Nat
    BY <1>1 DEF Typed, TypeOK
  <1>6. Places
    BY <1>2, <1>3, <1>4, <1>5 DEF Places
  <1>7. Started /\ Trend /\ Covered /\ Complete /\ Prefix /\ AllSeen
    BY <1>2, <1>3 DEF Started, Trend, Covered, Complete, Prefix, AllSeen, Steady, Whole, Paging
  <1>8. Outdated /\ Undisturbed /\ FullConverges /\ Buried
    BY <1>2 DEF Outdated, Undisturbed, FullConverges, Buried
  <1>9. Saved
    BY <1>3 DEF Saved, Resumes
  <1>10. Honest
    <2> SUFFICES ASSUME NEW k \in Live, ver[k] <= checkpoint
                 PROVE  mirror[k] = ver[k]
      BY <1>2 DEF Honest, CurrentTo
    <2>1. ver[k] > 0 /\ ver[k] \in Nat
      BY <1>1, Sizes DEF Typed, TypeOK, Versions
    <2>2. checkpoint # 0
      BY <2>1
    <2> QED
      BY <2>2 DEF Init
  <1> QED
    BY <1>1, <1>6, <1>7, <1>8, <1>9, <1>10 DEF IInv

LEMMA StepInv ==
    ASSUME ~Replaces, ~SkipsAhead, IInv, [Next]_vars
    PROVE  IInv'
  <1>1. Typed'
    BY StepTyped DEF IInv
  <1>2. CASE UNCHANGED vars
    BY <1>1, <1>2, StutterInv
  <1>3. CASE Next
    <2>1. ASSUME NEW k \in Keys, PlaneAdd(k) \/ PlaneEdit(k) \/ PlaneDelete(k)
          PROVE  IInv'
      <3>1. Plane(k)
        BY <2>1 DEF Plane
      <3> QED
        BY <1>1, <3>1, PlaneInv
    <2>2. ASSUME NEW k \in Keys, ZotioDelete(k)
          PROVE  IInv'
      BY <1>1, <2>2, ZotioInv
    <2>3. ASSUME NEW full \in BOOLEAN, NEW latest \in BOOLEAN, NEW v \in 0..libver, Begin(full, latest, v)
          PROVE  IInv'
      BY <1>1, <2>3, BeginInv
    <2>4. CASE DiscardOffset \/ Fetch \/ Store \/ Advance
      BY <1>1, <2>4, DiscardInv, FetchInv, StoreInv, AdvanceInv
    <2>5. CASE FailPass \/ Abort \/ Stamp \/ Sweep \/ ClearCursor
      BY <1>1, <2>5, EndInv, SweepInv, ClearInv
    <2> QED
      BY <1>3, <2>1, <2>2, <2>3, <2>4, <2>5 DEF Next
  <1> QED
    BY <1>2, <1>3

LEMMA Invariance ==
    ASSUME ~Replaces, ~SkipsAhead
    PROVE  Spec => []IInv
  <1>1. IInv /\ [Next]_vars => IInv'
    BY StepInv
  <1> QED
    BY InitInv, <1>1, PTL DEF Spec

\* An item zotio deleted for good stays out of the mirror whatever passes run
\* while the read plane goes on listing it: a sweep that forgot its marker would
\* have had to miss an object that the listing showed.
THEOREM DeletedStaysDeleted ==
    ASSUME ~Replaces, ~SkipsAhead
    PROVE  Spec => []NoResurrection
  <1>1. IInv => NoResurrection
    BY DEF IInv, Buried, NoResurrection
  <1> QED
    BY <1>1, Invariance, PTL

\* A sweep spares what the plane lists when it runs, and its deletion markers.
THEOREM ListedAreSpared ==
    ASSUME ~Replaces, ~SkipsAhead
    PROVE  Spec => SparesTheListed
  <1> DEFINE A == \A k \in Live : /\ mirror[k] # 0 /\ mirror'[k] = 0 => k \in purged' \ purged
                                  /\ k \in marked => k \in marked'
  <1>1. ASSUME IInv, [Next]_vars, NEW k \in Live
        PROVE  /\ mirror[k] # 0 /\ mirror'[k] = 0 => k \in purged' \ purged
               /\ k \in marked => k \in marked'
    <2>1. k \in Keys /\ mirror \in [Keys -> Nat]
      BY <1>1, Sizes DEF IInv, Typed, TypeOK
    <2>2. CASE UNCHANGED <<mirror, marked>>
      BY <2>2
    <2>3. ASSUME NEW j \in Keys, ZotioDelete(j)
          PROVE  /\ mirror[k] # 0 /\ mirror'[k] = 0 => k \in purged' \ purged
                 /\ k \in marked => k \in marked'
      BY <2>1, <2>3 DEF ZotioDelete
    <2>4. CASE Store
      <3>1. \A r \in page : r.ver > 0
        BY <1>1 DEF IInv, Typed, Versions
      <3>2. mirror'[k] = 0 => mirror[k] = 0
        BY <1>1, <2>1, <2>4, <3>1, StoreRows DEF IInv
      <3> QED
        BY <2>4, <3>2 DEF Store
    <2>5. CASE Sweep
      <3>1. CASE MaySweep
        <4>1. mirror' = [j \in Keys |-> IF j \in pass.seen THEN mirror[j] ELSE 0] /\ marked' = marked \cap pass.seen
          BY <2>5, <3>1 DEF Sweep
        <4>2. mirror[k] # 0 \/ k \in marked => k \in pass.seen
          BY <1>1, <2>5, <3>1, SweptAreGone DEF Sweep
        <4> QED
          BY <2>1, <4>1, <4>2
      <3>2. CASE ~MaySweep
        BY <2>5, <3>2 DEF Sweep
      <3> QED
        BY <3>1, <3>2
    <2>6. CASE /\ Next /\ ~Store /\ ~Sweep /\ ~(\E j \in Keys : ZotioDelete(j))
      <3>1. CASE \E j \in Keys : PlaneAdd(j) \/ PlaneEdit(j) \/ PlaneDelete(j)
        BY <3>1 DEF PlaneAdd, PlaneEdit, PlaneDelete, store
      <3>2. CASE \E full, latest \in BOOLEAN, v \in 0..libver : Begin(full, latest, v)
        BY <3>2 DEF Begin
      <3>3. CASE DiscardOffset \/ Fetch \/ Advance
        BY <3>3 DEF DiscardOffset, Fetch, Advance, store
      <3>4. CASE FailPass \/ ClearCursor \/ Stamp \/ Abort
        BY <3>4 DEF FailPass, ClearCursor, Stamp, Abort, store
      <3> QED
        BY <2>6, <3>1, <3>2, <3>3, <3>4 DEF Next
    <2> QED
      BY <1>1, <2>2, <2>3, <2>4, <2>5, <2>6 DEF vars, store
  <1>2. IInv /\ [Next]_vars => [A]_vars
    BY <1>1
  <1>3. Spec => [][A]_vars
    <2> HIDE DEF A
    <2> QED
      BY <1>2, Invariance, PTL DEF Spec
  <1> QED
    BY <1>3 DEF SparesTheListed

\* With a server that counts, no change before the checkpoint is missing from
\* the mirror, and a cleared cursor means all there was when its pass began.
THEOREM CheckpointsAreHonest ==
    ASSUME ~Replaces, ~SkipsAhead
    PROVE  Spec => []CheckpointHonest
  <1>1. IInv => CheckpointHonest
    BY DEF IInv, Honest, CheckpointHonest
  <1> QED
    BY <1>1, Invariance, PTL

\* A full pass over a plane that stayed still leaves the mirror equal to it.
THEOREM FullPassesConverge ==
    ASSUME ~Replaces, ~SkipsAhead
    PROVE  Spec => []FullConverges
  <1>1. IInv => FullConverges
    BY DEF IInv
  <1> QED
    BY <1>1, Invariance, PTL

=============================================================================
