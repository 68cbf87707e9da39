------------------------ MODULE VFastrpcMmap_proofs -------------------------
(***************************************************************************)
(* The counters of the maps: a map a context refers to is never freed      *)
(* under it, a map is unmapped by the back end only when nobody can use    *)
(* it, refs counts what it should, and the release leaves no map behind.   *)
(***************************************************************************)
EXTENDS VFastrpcMmap, FiniteSetTheorems, TLAPS

\* Most leaves are first-order; the ones that need more say so.
USE ZenonT(120)

CtxStates == {"idle", "args", "sent", "put", "free"}

\* refs has lost no more references than are owed.
SoundRecs == {r \in MapRecs : r.missing <= r.owed}

\* The references no context has that refs counts.
Own(r) == r.owed - r.missing

StateRecs == [mem: [Maps -> SoundRecs \cup {NULL}], maps: Seq(Maps), abnormal: BOOLEAN]

\* The maps of a state M and the list: the list holds allocated maps, each of
\* them once.
MapsOK(M) ==
    /\ M \in StateRecs
    /\ \A k \in 1 .. Len(M.maps) : M.mem[M.maps[k]] # NULL
    /\ \A j, k \in 1 .. Len(M.maps) : M.maps[j] = M.maps[k] => j = k

ContextsOK ==
    /\ ctx \in [Ctxs -> [st: CtxStates, args: Seq(Args \cup {NULL})]]
    /\ \A c \in Ctxs :
        /\ Len(ctx[c].args) <= MaxArgs
        /\ ctx[c].st = "idle" => ctx[c].args = <<>>

FileOK ==
    /\ op \in Ops \cup {NULL}
    /\ op # NULL /\ op.kind # "munmap_fd" => op.map \in Maps
    /\ file \in {"open", "ctxs", "maps", "closed"}
    /\ file # "open" => op = NULL
    /\ file \in {"maps", "closed"} => \A c \in Ctxs : ctx[c].st = "idle"
    /\ file = "closed" => maps = <<>>
    /\ over \in BOOLEAN

Unmapping(i) == op # NULL /\ op.kind \in UnmapKinds /\ op.map = i

MappingOf(i) == op # NULL /\ op.kind \in MapKinds /\ op.map = i

\* What holds of map i in state M when uses are the references the contexts have
\* to it, um and mp say that it is being unmapped or mapped, and o that munmap_fd
\* has taken a reference of a context.
\*   - ctx_refs counts the references of the contexts;
\*   - a map with an sg table is on the list but while the back end unmaps it;
\*   - a map the back end unmaps is not on the list, no context refers to it,
\*     and at most one reference is left to give back;
\*   - refs counts the references there are but for those it has lost.
Counted(M, i, uses, um, mp, o) ==
    /\ IF M.mem[i] # NULL THEN M.mem[i].ctx_refs = Cardinality(uses) ELSE uses = {}
    /\ ~M.abnormal /\ M.mem[i] # NULL /\ M.mem[i].table => OnList(M.maps, i) \/ um
    /\ um => /\ M.mem[i] # NULL /\ M.mem[i].refs <= 1
             /\ ~OnList(M.maps, i) /\ uses = {}
    /\ ~o => /\ mp => M.mem[i] # NULL
             /\ M.mem[i] # NULL =>
                    M.mem[i].refs = M.mem[i].ctx_refs + Own(M.mem[i])
                                    + IF mp THEN 1 ELSE 0

MmapInv ==
    /\ MapsOK(State) /\ ContextsOK /\ FileOK
    /\ \A i \in Maps :
        Counted(State, i, CtxUses(i), Unmapping(i), MappingOf(i), over)

-----------------------------------------------------------------------------
(***************************************************************************)
(* Lists and their least numbers.                                          *)
(***************************************************************************)

\* A set of natural numbers has a least one.
LEMMA LeastNatural ==
    ASSUME NEW T \in SUBSET Nat, T # {}
    PROVE  \E x \in T : \A y \in T : x <= y
<1> DEFINE R == {s \in Nat \X Nat : s[1] < s[2]}
<1>1. IsWellFoundedOn(R, Nat)
  BY NatLessThanWellFounded DEF OpToRel
<1>2. PICK x \in T : \A y \in T : <<y, x>> \notin R
  <2> HIDE DEF R
  <2> QED
    BY <1>1, WFMin
<1>3. ASSUME NEW y \in T, y < x PROVE FALSE
  <2>1. <<y, x>> \in R
    BY <1>3
  <2> QED
    BY <1>2, <2>1
<1>4. ASSUME NEW y \in T PROVE x <= y
  BY SMT, <1>3
<1> QED
  BY <1>4

\* The least number of a set is one of it.
LEMMA MinIsIn ==
    ASSUME NEW T \in SUBSET Nat, T # {}
    PROVE  Min(T) \in T
BY LeastNatural DEF Min

\* The elements of two lists put together.
LEMMA ConcatIs ==
    ASSUME NEW S, NEW a \in Seq(S), NEW b \in Seq(S)
    PROVE  /\ a \o b \in Seq(S) /\ Len(a \o b) = Len(a) + Len(b)
           /\ \A k \in 1 .. Len(a) + Len(b) :
                (a \o b)[k] = IF k <= Len(a) THEN a[k] ELSE b[k - Len(a)]
BY SMT

\* NULL is neither a map nor a record.
LEMMA NullIsNone ==
    NULL \notin Maps /\ NULL \notin SoundRecs /\ NULL \notin Args /\ NULL \notin Ops
BY MmapAssumption DEF SoundRecs

\* The counters of a map.
LEMMA CountersAre ==
    ASSUME NEW r \in SoundRecs
    PROVE  /\ r.refs \in Nat /\ r.ctx_refs \in Nat /\ Own(r) \in Nat
           /\ r.owed \in Nat /\ r.missing \in Nat /\ r.missing <= r.owed
           /\ r.keep \in BOOLEAN /\ r.table \in BOOLEAN /\ r.raddr \in BOOLEAN
BY SMT DEF SoundRecs, MapRecs, Own

\* refs is one of the counters of a map, and setting it sets nothing else.
LEMMA RefsSet ==
    ASSUME NEW q \in SoundRecs, NEW n \in Nat
    PROVE  LET r == [q EXCEPT !.refs = n] IN
           /\ r \in SoundRecs /\ r.refs = n
           /\ r.ctx_refs = q.ctx_refs /\ Own(r) = Own(q)
           /\ r.owed = q.owed /\ r.missing = q.missing
BY SMT DEF SoundRecs, MapRecs, Own

\* Setting refs leaves the rest of a map alone.
LEMMA RefsOnly ==
    ASSUME NEW q \in SoundRecs, NEW n \in Nat
    PROVE  LET r == [q EXCEPT !.refs = n] IN
           r.fd = q.fd /\ r.keep = q.keep /\ r.table = q.table /\ r.raddr = q.raddr
BY DEF SoundRecs, MapRecs

\* Setting raddr leaves the counters of a map alone.
LEMMA RaddrSet ==
    ASSUME NEW q \in SoundRecs
    PROVE  LET r == [q EXCEPT !.raddr = TRUE] IN
           /\ r \in SoundRecs /\ r.refs = q.refs /\ r.ctx_refs = q.ctx_refs
           /\ r.table = q.table /\ r.owed = q.owed /\ r.missing = q.missing
BY DEF SoundRecs, MapRecs

\* owed is another of the counters.
LEMMA OwedSet ==
    ASSUME NEW q \in SoundRecs, NEW n \in Nat, q.missing <= n
    PROVE  LET r == [q EXCEPT !.owed = n] IN
           /\ r \in SoundRecs /\ r.refs = q.refs /\ r.ctx_refs = q.ctx_refs
           /\ r.table = q.table /\ Own(r) = n - q.missing
BY SMT DEF SoundRecs, MapRecs, Own

\* hlist_del_init takes one map off the list and leaves the others.
LEMMA UnlinkedList ==
    ASSUME NEW s \in Seq(Maps), NEW i,
           \A j, k \in 1 .. Len(s) : s[j] = s[k] => j = k
    PROVE  /\ Unlinked(s, i) \in Seq(Maps)
           /\ \A j, k \in 1 .. Len(Unlinked(s, i)) :
                Unlinked(s, i)[j] = Unlinked(s, i)[k] => j = k
           /\ \A m : OnList(Unlinked(s, i), m) <=> OnList(s, m) /\ m # i
<1>1. CASE ~OnList(s, i)
  BY <1>1 DEF Unlinked, OnList
<1>2. CASE OnList(s, i)
  <2> DEFINE p == CHOOSE k \in DOMAIN s : s[k] = i
             r == SubSeq(s, 1, p - 1) \o SubSeq(s, p + 1, Len(s))
  <2>1. p \in 1 .. Len(s) /\ s[p] = i
    BY SMT, <1>2 DEF OnList
  <2> HIDE DEF p
  <2>2. /\ r \in Seq(Maps) /\ Len(r) = Len(s) - 1
        /\ \A k \in 1 .. Len(r) : r[k] = IF k < p THEN s[k] ELSE s[k + 1]
    <3> DEFINE a == SubSeq(s, 1, p - 1)
               b == SubSeq(s, p + 1, Len(s))
    <3>1. a \in Seq(Maps) /\ Len(a) = p - 1 /\ \A k \in 1 .. Len(a) : a[k] = s[k]
      BY SMT, <2>1
    <3>2. /\ b \in Seq(Maps) /\ Len(b) = Len(s) - p
          /\ \A k \in 1 .. Len(b) : b[k] = s[k + p]
      BY SMT, <2>1
    <3>3. r = a \o b
      OBVIOUS
    <3> HIDE DEF a, b, r
    <3>4. r \in Seq(Maps) /\ Len(r) = Len(s) - 1
      <4>1. r \in Seq(Maps) /\ Len(r) = Len(a) + Len(b)
        BY <3>1, <3>2, <3>3, ConcatIs
      <4> QED
        BY SMT, <2>1, <3>1, <3>2, <4>1
    <3>5. ASSUME NEW k \in 1 .. Len(r)
          PROVE  r[k] = IF k < p THEN s[k] ELSE s[k + 1]
      <4>1. r[k] = IF k <= Len(a) THEN a[k] ELSE b[k - Len(a)]
        <5>1. k \in 1 .. Len(a) + Len(b)
          BY SMT, <2>1, <3>1, <3>2, <3>4
        <5> QED
          BY <3>1, <3>2, <3>3, <5>1, ConcatIs
      <4> QED
        BY SMT, <2>1, <3>1, <3>2, <3>4, <4>1
    <3> QED
      BY <3>4, <3>5
  <2>3. Unlinked(s, i) = r
    BY <1>2 DEF Unlinked, p
  <2> HIDE DEF r
  <2>4. \A j, k \in 1 .. Len(r) : r[j] = r[k] => j = k
    BY SMT, <2>1, <2>2
  <2>5. ASSUME NEW m, OnList(r, m) PROVE OnList(s, m) /\ m # i
    <3>1. PICK k \in 1 .. Len(r) : r[k] = m
      BY <2>5 DEF OnList
    <3> QED
      BY SMT, <2>1, <2>2, <3>1 DEF OnList
  <2>6. ASSUME NEW m, OnList(s, m), m # i PROVE OnList(r, m)
    <3>1. PICK k \in 1 .. Len(s) : s[k] = m
      BY <2>6 DEF OnList
    <3>2. CASE k < p
      <4>1. k \in 1 .. Len(r) /\ r[k] = m
        BY SMT, <2>1, <2>2, <3>1, <3>2
      <4> QED
        BY <4>1 DEF OnList
    <3>3. CASE k > p
      <4>1. k - 1 \in 1 .. Len(r) /\ r[k - 1] = m
        BY SMTT(30), <2>1, <2>2, <3>1, <3>3
      <4> QED
        BY <4>1 DEF OnList
    <3> QED
      BY SMT, <2>1, <2>6, <3>1, <3>2, <3>3
  <2> QED
    BY <2>2, <2>3, <2>4, <2>5, <2>6
<1> QED
  BY <1>1, <1>2

-----------------------------------------------------------------------------
(***************************************************************************)
(* vfastrpc_mmap_free.                                                     *)
(***************************************************************************)

\* A record but for refs.
SameBut(r, q) ==
    /\ q \in SoundRecs
    /\ q.fd = r.fd /\ q.keep = r.keep /\ q.table = r.table /\ q.raddr = r.raddr
    /\ q.ctx_refs = r.ctx_refs /\ Own(q) = Own(r)

Untouched(M, N, j) ==
    N.mem[j] = M.mem[j] /\ (OnList(N.maps, j) <=> OnList(M.maps, j))

\* Nothing but map i is touched.
Touches(M, N, i) ==
    /\ MapsOK(N) /\ (M.abnormal => N.abnormal)
    /\ \A j \in Maps \ {i} : Untouched(M, N, j)

\* vfastrpc_mmap_free warns, frees the map or takes one reference.
FreeResult(M, N, i, force) ==
    \/ M.mem[i].refs = 0 /\ N = [M EXCEPT !.abnormal = TRUE]
    \/ /\ M.mem[i].refs > 0 /\ N.abnormal = M.abnormal
       /\ force \/ (M.mem[i].refs = 1 /\ M.mem[i].ctx_refs = 0)
       /\ N.mem[i] = NULL /\ ~OnList(N.maps, i)
    \/ /\ M.mem[i].refs > 0 /\ N.abnormal = M.abnormal
       /\ ~force /\ ~(M.mem[i].refs = 1 /\ M.mem[i].ctx_refs = 0)
       /\ N.mem[i] # NULL /\ SameBut(M.mem[i], N.mem[i])
       /\ N.mem[i].refs = M.mem[i].refs - 1
       /\ N.maps = M.maps

\* vfastrpc_mmap_free touches no other map.
LEMMA FreeEffect ==
    ASSUME NEW M, MapsOK(M), NEW i \in Maps, M.mem[i] # NULL,
           NEW force \in BOOLEAN, NEW N, N = MmapFree(M, i, force)
    PROVE  Touches(M, N, i) /\ FreeResult(M, N, i, force)
<1> USE NullIsNone
<1>a. /\ M.mem \in [Maps -> SoundRecs \cup {NULL}] /\ M.maps \in Seq(Maps)
      /\ M.abnormal \in BOOLEAN /\ M.mem[i] \in SoundRecs
      /\ M.mem[i].refs \in Nat /\ M.mem[i].ctx_refs \in Nat
  BY DEF MapsOK, StateRecs, SoundRecs, MapRecs
<1>1. CASE M.mem[i].refs = 0
  <2>1. N = [M EXCEPT !.abnormal = TRUE]
    BY SMT, <1>1 DEF MmapFree
  <2>2. N.mem = M.mem /\ N.maps = M.maps /\ N.abnormal
    BY <2>1 DEF MapsOK, StateRecs
  <2>3. MapsOK(N)
    BY <2>1, <2>2 DEF MapsOK, StateRecs
  <2> QED
    BY <1>1, <2>1, <2>2, <2>3 DEF Untouched, FreeResult, Touches
<1>2. CASE M.mem[i].refs > 0 /\ (force \/ (M.mem[i].refs = 1 /\ M.mem[i].ctx_refs = 0))
  <2>1. N = [M EXCEPT !.mem[i] = NULL, !.maps = Unlinked(@, i)]
    BY SMT, <1>a, <1>2 DEF MmapFree, Unreferenced
  <2>2. /\ N.mem = [M.mem EXCEPT ![i] = NULL] /\ N.maps = Unlinked(M.maps, i)
        /\ N.abnormal = M.abnormal
    BY <2>1 DEF MapsOK, StateRecs
  <2>3. /\ N.maps \in Seq(Maps)
        /\ \A j, k \in 1 .. Len(N.maps) : N.maps[j] = N.maps[k] => j = k
        /\ \A m : OnList(N.maps, m) <=> OnList(M.maps, m) /\ m # i
    BY SMT, <2>2, UnlinkedList DEF MapsOK, StateRecs
  <2>4. ASSUME NEW k \in 1 .. Len(N.maps) PROVE N.mem[N.maps[k]] # NULL
    <3>1. OnList(N.maps, N.maps[k])
      BY DEF OnList
    <3>2. PICK l \in 1 .. Len(M.maps) : M.maps[l] = N.maps[k]
      BY <2>3, <3>1 DEF OnList
    <3> QED
      BY SMT, <1>a, <2>2, <2>3, <3>1, <3>2 DEF MapsOK, StateRecs
  <2>5. MapsOK(N)
    <3>1. N.mem \in [Maps -> SoundRecs \cup {NULL}]
      BY <1>a, <2>2
    <3>2. N \in StateRecs
      BY <1>a, <2>1, <2>2, <2>3, <3>1 DEF MapsOK, StateRecs
    <3> QED
      BY <2>3, <2>4, <3>2 DEF MapsOK
  <2>6. \A j \in Maps \ {i} : Untouched(M, N, j)
    BY <1>a, <2>2, <2>3 DEF Untouched
  <2> QED
    BY <1>a, <1>2, <2>2, <2>3, <2>5, <2>6 DEF FreeResult, Touches
<1>3. CASE M.mem[i].refs > 0 /\ ~force /\ ~(M.mem[i].refs = 1 /\ M.mem[i].ctx_refs = 0)
  <2> DEFINE q == [M.mem[i] EXCEPT !.refs = M.mem[i].refs - 1]
  <2>1. N = [M EXCEPT !.mem[i].refs = M.mem[i].refs - 1]
    BY SMT, <1>a, <1>3 DEF MmapFree, Unreferenced
  <2>2. /\ N.mem = [M.mem EXCEPT ![i] = q] /\ N.maps = M.maps
        /\ N.abnormal = M.abnormal
    BY <1>a, <2>1 DEF MapsOK, StateRecs
  <2>3. /\ q \in SoundRecs /\ SameBut(M.mem[i], q) /\ q.refs = M.mem[i].refs - 1
        /\ q # NULL
    <3>0. M.mem[i] \in SoundRecs /\ M.mem[i].refs - 1 \in Nat
      BY SMT, <1>a, <1>3
    <3>1. q \in SoundRecs /\ q.refs = M.mem[i].refs - 1
      BY <3>0, RefsSet
    <3>2. SameBut(M.mem[i], q)
      BY <3>0, <3>1, RefsSet, RefsOnly DEF SameBut
    <3> QED
      BY <3>1, <3>2, NullIsNone
  <2> HIDE DEF q
  <2>4. MapsOK(N)
    <3>1. N.mem \in [Maps -> SoundRecs \cup {NULL}]
      BY <1>a, <2>2, <2>3
    <3>2. N \in StateRecs
      BY <1>a, <2>1, <2>2, <3>1 DEF MapsOK, StateRecs
    <3>3. ASSUME NEW k \in 1 .. Len(N.maps) PROVE N.mem[N.maps[k]] # NULL
      BY SMT, <1>a, <2>2, <2>3 DEF MapsOK
    <3> QED
      BY SMT, <2>2, <3>2, <3>3 DEF MapsOK
  <2>5. \A j \in Maps \ {i} : Untouched(M, N, j)
    BY <1>a, <2>2 DEF Untouched
  <2> QED
    BY <1>a, <1>3, <2>2, <2>3, <2>4, <2>5 DEF FreeResult, Touches
<1> QED
  BY SMTT(30), <1>a, <1>1, <1>2, <1>3

\* A map whose record is replaced.
Rewritten(M, N, i, q) ==
    /\ Touches(M, N, i) /\ MapsOK(N) /\ N.mem[i] = q /\ q # NULL
    /\ N.maps = M.maps /\ N.abnormal = M.abnormal

With(M, i, q) == [M EXCEPT !.mem = [M.mem EXCEPT ![i] = q]]

\* Changing the record of map i touches no other map and leaves the list alone.
LEMMA Replaced ==
    ASSUME NEW M, MapsOK(M), NEW i \in Maps, NEW q \in SoundRecs,
           NEW N, N = With(M, i, q)
    PROVE  Rewritten(M, N, i, q)
<1>a. /\ M.mem \in [Maps -> SoundRecs \cup {NULL}] /\ M.maps \in Seq(Maps)
      /\ M.abnormal \in BOOLEAN /\ q # NULL
  BY NullIsNone DEF MapsOK, StateRecs
<1>1. /\ N.mem = [M.mem EXCEPT ![i] = q] /\ N.maps = M.maps
      /\ N.abnormal = M.abnormal
  BY DEF MapsOK, StateRecs, With
<1>2. N.mem \in [Maps -> SoundRecs \cup {NULL}]
  BY <1>a, <1>1
<1>3. N \in StateRecs
  BY <1>a, <1>1, <1>2 DEF MapsOK, StateRecs, With
<1>4. ASSUME NEW k \in 1 .. Len(N.maps) PROVE N.mem[N.maps[k]] # NULL
  BY SMT, <1>a, <1>1 DEF MapsOK
<1>5. MapsOK(N)
  BY SMT, <1>1, <1>3, <1>4 DEF MapsOK
<1>6. \A j \in Maps \ {i} : Untouched(M, N, j)
  BY <1>a, <1>1 DEF Untouched
<1> QED
  BY <1>a, <1>1, <1>5, <1>6 DEF Touches, Rewritten

\* What does not touch a map does not disturb its counts.
LEMMA CountedFrame ==
    ASSUME NEW M, NEW N, NEW i, Touches(M, N, i), NEW j \in Maps \ {i},
           NEW uses, NEW um, NEW mp, NEW o, Counted(M, j, uses, um, mp, o)
    PROVE  Counted(N, j, uses, um, mp, o)
BY DEF Counted, Touches, Untouched

\* A context gives one of its references back.
LEMMA PutKeeps ==
    ASSUME NEW M, MapsOK(M), NEW i \in Maps, NEW W, IsFiniteSet(W), NEW u \in W,
           NEW um, NEW mp, NEW o, Counted(M, i, W, um, mp, o),
           NEW N, N = CtxPut(M, i)
    PROVE  Touches(M, N, i) /\ Counted(N, i, W \ {u}, um, mp, o)
<1> DEFINE n == Cardinality(W)
           q == [M.mem[i] EXCEPT !.ctx_refs = n - 1]
           L == With(M, i, q)
<1>a. /\ M.mem[i] # NULL /\ M.mem[i] \in SoundRecs /\ M.mem[i].ctx_refs = n /\ ~um
  BY DEF Counted, MapsOK, StateRecs
<1>b. /\ M.mem[i].refs \in Nat /\ Own(M.mem[i]) \in Nat
      /\ M.mem[i].table \in BOOLEAN /\ M.abnormal \in BOOLEAN
  BY <1>a, CountersAre DEF MapsOK, StateRecs
<1>1. /\ n \in Nat /\ n > 0 /\ Cardinality(W \ {u}) = n - 1
      /\ (n = 1 => W \ {u} = {})
  <2>1. n \in Nat /\ Cardinality(W \ {u}) \in Nat /\ IsFiniteSet(W \ {u})
    BY FS_CardinalityType, FS_RemoveElement
  <2>2. Cardinality(W \ {u}) = n - 1
    BY FS_RemoveElement
  <2>3. Cardinality(W \ {u}) = 0 => W \ {u} = {}
    BY <2>1, FS_EmptySet
  <2> QED
    BY SMT, <2>1, <2>2, <2>3
<1> HIDE DEF n
<1>2. q \in SoundRecs /\ q.ctx_refs = n - 1 /\ q.refs = M.mem[i].refs
      /\ Own(q) = Own(M.mem[i]) /\ q.table = M.mem[i].table
  BY SMT, <1>a, <1>1 DEF SoundRecs, MapRecs, Own
<1>3. CtxPut(M, i) = MmapFree(L, i, FALSE)
  BY <1>a, <1>1 DEF CtxPut, MapsOK, StateRecs, With
<1> HIDE DEF q, L
<1>4. /\ Touches(M, L, i) /\ MapsOK(L) /\ L.mem[i] = q /\ q # NULL
      /\ L.maps = M.maps /\ L.abnormal = M.abnormal
  <2>1. q \in SoundRecs
    BY <1>2
  <2>2. Rewritten(M, L, i, q)
    BY <1>a, <2>1, Replaced DEF L
  <2> QED
    BY <2>2 DEF Rewritten
<1>5. Touches(L, N, i) /\ FreeResult(L, N, i, FALSE)
  BY <1>3, <1>4, FreeEffect
<1>6. Touches(M, N, i)
  BY <1>4, <1>5 DEF Touches, Untouched
<1>7. Counted(N, i, W \ {u}, um, mp, o)
  <2>1. CASE L.mem[i].refs = 0 /\ N = [L EXCEPT !.abnormal = TRUE]
    <3>1. N.mem = L.mem /\ N.maps = L.maps /\ N.abnormal
      BY <1>4, <2>1 DEF MapsOK, StateRecs
    <3>2. o
      BY SMT, <1>a, <1>b, <1>1, <1>2, <1>4, <2>1 DEF Counted
    <3> QED
      BY <1>a, <1>1, <1>2, <1>4, <3>1, <3>2 DEF Counted
  <2>2. CASE /\ N.abnormal = L.abnormal
             /\ L.mem[i].refs = 1 /\ L.mem[i].ctx_refs = 0
             /\ N.mem[i] = NULL /\ ~OnList(N.maps, i)
    <3>1. n = 1 /\ W \ {u} = {}
      BY SMTT(30), <1>1, <1>2, <1>4, <2>2
    <3>2. ~o => ~mp
      BY SMTT(30), <1>a, <1>b, <1>1, <1>2, <1>4, <2>2, <3>1 DEF Counted
    <3> QED
      BY <1>a, <1>4, <2>2, <3>1, <3>2 DEF Counted
  <2>3. CASE /\ L.mem[i].refs > 0 /\ N.abnormal = L.abnormal
             /\ N.mem[i] # NULL /\ SameBut(L.mem[i], N.mem[i])
             /\ N.mem[i].refs = L.mem[i].refs - 1
             /\ N.maps = L.maps
    <3>1. ~o => N.mem[i].refs = N.mem[i].ctx_refs + Own(N.mem[i])
                                + IF mp THEN 1 ELSE 0
      <4>1. /\ N.mem[i].refs = M.mem[i].refs - 1 /\ N.mem[i].ctx_refs = n - 1
            /\ Own(N.mem[i]) = Own(M.mem[i])
        BY <1>2, <1>4, <2>3 DEF SameBut
      <4>2. ~o => M.mem[i].refs = n + Own(M.mem[i]) + IF mp THEN 1 ELSE 0
        BY <1>a DEF Counted
      <4> QED
        BY SMT, <1>b, <1>1, <4>1, <4>2
    <3>2. N.mem[i].table = M.mem[i].table /\ N.mem[i].ctx_refs = Cardinality(W \ {u})
      BY <1>1, <1>2, <1>4, <2>3 DEF SameBut
    <3> QED
      BY <1>a, <1>4, <2>3, <3>1, <3>2 DEF Counted
  <2> QED
    BY <1>5, <2>1, <2>2, <2>3 DEF FreeResult
<1> QED
  BY <1>6, <1>7

-----------------------------------------------------------------------------
(***************************************************************************)
(* context_free.                                                           *)
(***************************************************************************)

\* The contexts have finitely many references to a map.
LEMMA UsesFinite ==
    ASSUME NEW i
    PROVE  IsFiniteSet(CtxUses(i))
<1>1. IsFiniteSet(Ctxs \X (1 .. MaxArgs))
  <2>1. IsFiniteSet(1 .. MaxArgs)
    BY SMT, MmapAssumption, FS_Interval
  <2> QED
    BY <2>1, MmapAssumption, FS_Product
<1>2. CtxUses(i) \subseteq Ctxs \X (1 .. MaxArgs)
  BY DEF CtxUses, Uses
<1> QED
  BY <1>1, <1>2, FS_Subset

\* One round of the loop over ctx->maps.
Put(args, n, P) == IF args[n] = NULL THEN P ELSE CtxPut(P, args[n].map)

Puts(M, args, L, f) == [n \in 0 .. L |-> IF n = 0 THEN M ELSE Put(args, n, f[n - 1])]

\* The rounds exist: a loop of n rounds goes on for one more.
LEMMA PutsExist ==
    ASSUME NEW M, NEW args, NEW L \in Nat
    PROVE  \E f : f = Puts(M, args, L, f)
<1> DEFINE T == {n \in Nat : ~ \E f : f = Puts(M, args, n, f)}
<1>1. SUFFICES ASSUME T # {} PROVE FALSE
  OBVIOUS
<1>2. PICK x \in T : \A y \in T : x <= y
  <2>1. T \in SUBSET Nat
    OBVIOUS
  <2> HIDE DEF T
  <2> QED
    BY <1>1, <2>1, LeastNatural
<1>3. CASE x = 0
  <2> DEFINE g == [n \in 0 .. 0 |-> M]
  <2>1. g = Puts(M, args, 0, g)
    BY SMT DEF Puts
  <2> QED
    BY <1>2, <1>3, <2>1
<1>4. CASE x > 0
  <2>1. x - 1 \in Nat /\ x - 1 \notin T
    BY SMT, <1>2, <1>4
  <2>2. PICK f : f = Puts(M, args, x - 1, f)
    BY <2>1
  <2> DEFINE g == [n \in 0 .. x |-> IF n < x THEN f[n] ELSE Put(args, x, f[x - 1])]
  <2>3. ASSUME NEW n \in 0 .. x
        PROVE  g[n] = IF n = 0 THEN M ELSE Put(args, n, g[n - 1])
    <3>1. CASE n = 0
      BY SMTT(30), <1>4, <2>1, <2>2, <3>1 DEF Puts
    <3>2. CASE n > 0 /\ n < x
      <4>1. g[n] = f[n] /\ g[n - 1] = f[n - 1]
        BY SMT, <3>2
      <4>2. f[n] = Put(args, n, f[n - 1])
        BY SMTT(30), <1>2, <2>1, <2>2, <3>2 DEF Puts
      <4> QED
        BY SMT, <3>2, <4>1, <4>2
    <3>3. CASE n > 0 /\ n = x
      <4>1. g[n] = Put(args, x, f[x - 1]) /\ g[n - 1] = f[n - 1]
        BY SMT, <3>3
      <4> QED
        BY SMTT(30), <3>3, <4>1
    <3> QED
      BY SMTT(30), <1>2, <3>1, <3>2, <3>3
  <2>4. g = Puts(M, args, x, g)
    BY <2>3 DEF Puts
  <2> QED
    BY <1>2, <2>4
<1> QED
  BY SMT, <1>2, <1>3, <1>4

Rounds(M, args, f) ==
    /\ f[0] = M /\ CtxPutAll(M, args) = f[Len(args)]
    /\ \A n \in 1 .. Len(args) : f[n] = Put(args, n, f[n - 1])

\* CtxPutAll is the last of the rounds.
LEMMA PutAllIs ==
    ASSUME NEW M, NEW args, Len(args) \in Nat
    PROVE  \E f : Rounds(M, args, f)
<1> DEFINE f == CHOOSE g : g = Puts(M, args, Len(args), g)
<1>1. f = Puts(M, args, Len(args), f)
  <2> HIDE DEF f
  <2>1. \E g : g = Puts(M, args, Len(args), g)
    BY PutsExist
  <2> QED
    BY <2>1 DEF f
<1>2. CtxPutAll(M, args) = f[Len(args)]
  BY DEF CtxPutAll, Puts, Put
<1> HIDE DEF f
<1>3. f[0] = M /\ \A n \in 1 .. Len(args) : f[n] = Put(args, n, f[n - 1])
  BY SMT, <1>1 DEF Puts
<1> QED
  BY <1>2, <1>3 DEF Rounds

\* The references to map i that context c has left after n rounds.
Left(c, n, i) == CtxUses(i) \ ({c} \X (1 .. n))

PutOK(P, c, n) ==
    /\ MapsOK(P)
    /\ \A i \in Maps :
        Counted(P, i, Left(c, n, i), Unmapping(i), MappingOf(i), over)

\* A round gives back the reference of ctx->maps[n], if there is one.
LEMMA PutRound ==
    ASSUME ContextsOK, over \in BOOLEAN, NEW c \in Ctxs,
           NEW n \in 1 .. Len(ctx[c].args), NEW P, PutOK(P, c, n - 1)
    PROVE  PutOK(Put(ctx[c].args, n, P), c, n)
<1> DEFINE args == ctx[c].args
           u == <<c, n>>
<1>a. /\ args \in Seq(Args \cup {NULL}) /\ Len(args) <= MaxArgs /\ Len(args) \in Nat
      /\ args[n] \in Args \cup {NULL} /\ n \in 1 .. MaxArgs
  BY SMT, MmapAssumption DEF ContextsOK
<1>1. ASSUME NEW i \in Maps
      PROVE  /\ Left(c, n, i) = Left(c, n - 1, i) \ {u}
             /\ u \in Left(c, n - 1, i) <=> args[n] # NULL /\ args[n].map = i
             /\ u \notin Left(c, n - 1, i) => Left(c, n, i) = Left(c, n - 1, i)
  <2>1. {c} \X (1 .. n) = ({c} \X (1 .. n - 1)) \cup {u}
    <3>1. 1 .. n = (1 .. n - 1) \cup {n}
      BY SMTT(30), <1>a
    <3> QED
      BY SMT, <3>1
  <2>2. u \in CtxUses(i) <=> args[n] # NULL /\ args[n].map = i
    BY SMT, <1>a DEF CtxUses, Uses
  <2>3. u \notin {c} \X (1 .. n - 1)
    BY SMT, <1>a
  <2> QED
    BY <2>1, <2>2, <2>3 DEF Left
<1> HIDE DEF u, args
<1>2. CASE args[n] = NULL
  <2>1. ASSUME NEW i \in Maps
        PROVE  Counted(P, i, Left(c, n, i), Unmapping(i), MappingOf(i), over)
    <3>1. Left(c, n, i) = Left(c, n - 1, i)
      BY <1>1, <1>2
    <3> QED
      BY <3>1 DEF PutOK
  <2>2. PutOK(P, c, n)
    BY <2>1 DEF PutOK
  <2>3. Put(args, n, P) = P
    BY <1>2 DEF Put
  <2> QED
    BY <2>2, <2>3 DEF args
<1>3. CASE args[n] # NULL
  <2> DEFINE m == args[n].map
             N == CtxPut(P, m)
             um == Unmapping(m)
             mp == MappingOf(m)
             W == Left(c, n - 1, m)
  <2>1. m \in Maps
    BY <1>a, <1>3 DEF Args
  <2>2. IsFiniteSet(W) /\ u \in W
    <3>1. Left(c, n - 1, m) \in SUBSET CtxUses(m)
      BY DEF Left
    <3> QED
      BY <1>1, <1>3, <2>1, <3>1, UsesFinite, FS_Subset
  <2>3. Counted(P, m, W, um, mp, over) /\ MapsOK(P)
    BY <2>1 DEF PutOK
  <2>5. Touches(P, N, m) /\ Counted(N, m, W \ {u}, um, mp, over)
    <3>1. N = CtxPut(P, m)
      OBVIOUS
    <3> HIDE DEF m, N, um, mp, W
    <3> QED
      BY <2>1, <2>2, <2>3, <3>1, PutKeeps
  <2> HIDE DEF m, N
  <2>6. ASSUME NEW i \in Maps \ {m}
        PROVE  Counted(N, i, Left(c, n, i), Unmapping(i), MappingOf(i), over)
    <3>1. Left(c, n, i) = Left(c, n - 1, i)
      BY <1>1 DEF m
    <3>2. Counted(P, i, Left(c, n - 1, i), Unmapping(i), MappingOf(i), over)
      BY DEF PutOK
    <3> QED
      BY <2>5, <3>1, <3>2, CountedFrame
  <2>7. Counted(N, m, Left(c, n, m), Unmapping(m), MappingOf(m), over)
    BY <1>1, <2>1, <2>5
  <2>8. PutOK(N, c, n)
    <3>1. MapsOK(N)
      BY <2>5 DEF Touches
    <3> QED
      BY <2>6, <2>7, <3>1 DEF PutOK
  <2>9. Put(args, n, P) = N
    BY <1>3 DEF Put, N, m
  <2> QED
    BY <2>8, <2>9 DEF args
<1> QED
  BY <1>2, <1>3 DEF args

\* context_free gives all the references of its context back.
LEMMA PutAllKeeps ==
    ASSUME MmapInv, NEW c \in Ctxs
    PROVE  PutOK(CtxPutAll(State, ctx[c].args), c, Len(ctx[c].args))
<1> DEFINE args == ctx[c].args
<1>a. ContextsOK /\ over \in BOOLEAN /\ Len(args) \in Nat
  BY SMT DEF MmapInv, ContextsOK, FileOK
<1>1. PICK f : Rounds(State, args, f)
  <2> HIDE DEF args
  <2> QED
    BY <1>a, PutAllIs
<1> DEFINE T == {n \in 0 .. Len(args) : ~PutOK(f[n], c, n)}
<1>2. PutOK(f[0], c, 0)
  <2>1. ASSUME NEW i \in Maps PROVE Left(c, 0, i) = CtxUses(i)
    <3>1. 1 .. 0 = {}
      BY SMT
    <3> QED
      BY <3>1 DEF Left
  <2> QED
    BY <1>1, <2>1 DEF MmapInv, PutOK, Rounds
<1>3. ASSUME T # {} PROVE FALSE
  <2>1. T \in SUBSET Nat
    BY SMT, <1>a
  <2>2. PICK x \in T : \A y \in T : x <= y
    <3> HIDE DEF T
    <3> QED
      BY <1>3, <2>1, LeastNatural
  <2>3. x \in 1 .. Len(args)
    BY SMT, <1>a, <1>2
  <2>4. PutOK(f[x - 1], c, x - 1)
    <3>1. x - 1 \in 0 .. Len(args) /\ x - 1 \notin T
      BY SMT, <1>a, <2>1, <2>2, <2>3
    <3> QED
      BY <3>1
  <2>5. PutOK(Put(args, x, f[x - 1]), c, x)
    BY <1>a, <2>3, <2>4, PutRound
  <2> QED
    BY <1>1, <2>3, <2>5 DEF Rounds
<1>4. Len(args) \notin T
  BY <1>3
<1> QED
  BY SMT, <1>a, <1>1, <1>4 DEF Rounds

-----------------------------------------------------------------------------
(***************************************************************************)
(* The references that belong to no context.                               *)
(***************************************************************************)

\* A reference to map i can be given back that no context has, and which refs
\* counts besides owed unless it is the last one.
Freeable(M, i, force, W, um, o) ==
    LET m == M.mem[i] IN
    /\ m # NULL /\ m.ctx_refs = Cardinality(W)
    /\ ~M.abnormal /\ m.table => OnList(M.maps, i) \/ um
    /\ um => m.refs <= 1 /\ W = {}
    /\ force => W = {}
    /\ ~o /\ m.refs = 0 => m.ctx_refs = 0 /\ Own(m) = 0
    /\ ~o /\ ~force /\ m.refs > 0 /\ ~(m.refs = 1 /\ m.ctx_refs = 0)
            => m.refs = m.ctx_refs + Own(m) + 1

\* Two changes of map i touch no other map.
LEMMA TouchesMore ==
    ASSUME NEW M, NEW L, NEW N, NEW i, Touches(M, L, i), Touches(L, N, i)
    PROVE  Touches(M, N, i)
BY DEF Touches, Untouched

\* What there is to count for a map that no message is under way for.
LEMMA CountedAtRest ==
    ASSUME NEW M, NEW i, NEW W, NEW o, M.mem[i] # NULL,
           M.mem[i].ctx_refs = Cardinality(W),
           M.mem[i].ctx_refs \in Nat, Own(M.mem[i]) \in Nat,
           ~M.abnormal /\ M.mem[i].table => OnList(M.maps, i),
           ~o => M.mem[i].refs = M.mem[i].ctx_refs + Own(M.mem[i])
    PROVE  Counted(M, i, W, FALSE, FALSE, o)
BY SMT DEF Counted

\* vfastrpc_mmap_free of a map with a reference to spare leaves it counted.
LEMMA FreeKeeps ==
    ASSUME NEW M, MapsOK(M), NEW i \in Maps, NEW force \in BOOLEAN,
           NEW W, IsFiniteSet(W), NEW um, NEW o,
           Freeable(M, i, force, W, um, o), NEW N, N = MmapFree(M, i, force)
    PROVE  Touches(M, N, i) /\ Counted(N, i, W, FALSE, FALSE, o)
<1>a. /\ M.mem[i] \in SoundRecs /\ M.mem[i].refs \in Nat /\ Own(M.mem[i]) \in Nat
      /\ M.mem[i].ctx_refs \in Nat /\ M.abnormal \in BOOLEAN
      /\ M.mem[i].table \in BOOLEAN
  BY CountersAre DEF MapsOK, StateRecs, Freeable
<1>b. Cardinality(W) = 0 => W = {}
  BY FS_EmptySet
<1>c. W = {} => Cardinality(W) = 0
  BY FS_EmptySet
<1>1. Touches(M, N, i) /\ FreeResult(M, N, i, force)
  BY FreeEffect DEF Freeable
<1>2. CASE M.mem[i].refs = 0 /\ N = [M EXCEPT !.abnormal = TRUE]
  <2>1. N.mem = M.mem /\ N.maps = M.maps /\ N.abnormal
    BY <1>2 DEF MapsOK, StateRecs
  <2> QED
    BY SMT, <1>a, <1>1, <1>2, <2>1 DEF Counted, Freeable
<1>3. CASE /\ M.mem[i].refs > 0 /\ N.abnormal = M.abnormal
           /\ force \/ (M.mem[i].refs = 1 /\ M.mem[i].ctx_refs = 0)
           /\ N.mem[i] = NULL /\ ~OnList(N.maps, i)
  BY <1>b, <1>1, <1>3 DEF Counted, Freeable
<1>4. CASE /\ M.mem[i].refs > 0 /\ N.abnormal = M.abnormal
           /\ ~force /\ ~(M.mem[i].refs = 1 /\ M.mem[i].ctx_refs = 0)
           /\ N.mem[i] # NULL /\ SameBut(M.mem[i], N.mem[i])
           /\ N.mem[i].refs = M.mem[i].refs - 1
           /\ N.maps = M.maps
  <2>1. ~um
    <3>1. um => M.mem[i].refs <= 1 /\ M.mem[i].ctx_refs = 0
      BY <1>c DEF Freeable
    <3> QED
      BY SMT, <1>a, <1>4, <3>1
  <2>2. N.mem[i].ctx_refs = Cardinality(W) /\ N.mem[i].table = M.mem[i].table
    BY <1>4 DEF SameBut, Freeable
  <2>3. ~o => N.mem[i].refs = N.mem[i].ctx_refs + Own(N.mem[i])
    <3>1. ~o => M.mem[i].refs = M.mem[i].ctx_refs + Own(M.mem[i]) + 1
      BY <1>4 DEF Freeable
    <3>2. /\ N.mem[i].ctx_refs = M.mem[i].ctx_refs /\ Own(N.mem[i]) = Own(M.mem[i])
          /\ N.mem[i].refs = M.mem[i].refs - 1
      BY <1>4 DEF SameBut
    <3> QED
      BY SMT, <1>a, <3>1, <3>2
  <2>4. N.mem[i].ctx_refs \in Nat /\ Own(N.mem[i]) \in Nat
    BY <1>4, CountersAre DEF SameBut
  <2>5. ~N.abnormal /\ N.mem[i].table => OnList(N.maps, i)
    BY <1>4, <2>1, <2>2 DEF Freeable
  <2>6. N.mem[i] # NULL
    BY <1>4
  <2> QED
    BY <1>1, <2>2, <2>3, <2>4, <2>5, <2>6, CountedAtRest
<1> QED
  BY <1>1, <1>2, <1>3, <1>4 DEF FreeResult

\* munmap_fd: one of the references that are owed, if there is one.
LEMMA FdFreeKeeps ==
    ASSUME NEW M, MapsOK(M), NEW i \in Maps, M.mem[i] # NULL,
           NEW W, IsFiniteSet(W), NEW o \in BOOLEAN,
           Counted(M, i, W, FALSE, FALSE, o),
           o \/ M.mem[i].refs = 0 \/ Own(M.mem[i]) > 0,
           NEW N, N = MmapFree(TakeOwed(M, i), i, FALSE)
    PROVE  Touches(M, N, i) /\ Counted(N, i, W, FALSE, FALSE, o)
<1> DEFINE L == TakeOwed(M, i)
<1>a. /\ M.mem[i] \in SoundRecs /\ M.mem[i].refs \in Nat /\ Own(M.mem[i]) \in Nat
      /\ M.mem[i].ctx_refs \in Nat
  BY CountersAre DEF MapsOK, StateRecs
<1>1. /\ Touches(M, L, i) /\ L.mem[i] # NULL /\ L.maps = M.maps
      /\ L.abnormal = M.abnormal
      /\ L.mem[i].refs = M.mem[i].refs /\ L.mem[i].ctx_refs = M.mem[i].ctx_refs
      /\ L.mem[i].table = M.mem[i].table
      /\ Own(L.mem[i]) = IF M.mem[i].refs > 0 /\ Own(M.mem[i]) > 0
                         THEN Own(M.mem[i]) - 1 ELSE Own(M.mem[i])
  <2>1. CASE M.mem[i].refs > 0 /\ Own(M.mem[i]) > 0
    <3> DEFINE q == [M.mem[i] EXCEPT !.owed = M.mem[i].owed - 1]
    <3>0. M.mem[i].owed > M.mem[i].missing
      BY SMT, <1>a, <2>1, CountersAre DEF Own
    <3>1. /\ q \in SoundRecs /\ q.refs = M.mem[i].refs /\ q.ctx_refs = M.mem[i].ctx_refs
          /\ q.table = M.mem[i].table /\ Own(q) = Own(M.mem[i]) - 1
      BY SMT, <1>a, <3>0 DEF SoundRecs, MapRecs, Own
    <3>2. L = With(M, i, q)
      BY <2>1, <3>0 DEF TakeOwed, MapsOK, StateRecs, With
    <3> HIDE DEF q, L
    <3>3. /\ Touches(M, L, i) /\ L.mem[i] = q /\ q # NULL
          /\ L.maps = M.maps /\ L.abnormal = M.abnormal
      <4>1. q \in SoundRecs
        BY <3>1
      <4>2. Rewritten(M, L, i, q)
        BY <3>2, <4>1, Replaced
      <4> QED
        BY <4>2 DEF Rewritten
    <3> QED
      BY <2>1, <3>1, <3>3
  <2>2. CASE ~(M.mem[i].refs > 0 /\ Own(M.mem[i]) > 0)
    <3>0. ~(M.mem[i].refs > 0 /\ M.mem[i].owed > M.mem[i].missing)
      BY SMT, <1>a, <2>2, CountersAre DEF Own
    <3>1. L = M
      BY <3>0 DEF TakeOwed
    <3> QED
      BY <2>2, <3>1 DEF Touches, Untouched
  <2> QED
    BY <2>1, <2>2
<1> HIDE DEF L
<1>2. MapsOK(L) /\ N = MmapFree(L, i, FALSE)
  BY <1>1 DEF Touches, L
<1>3. Freeable(L, i, FALSE, W, FALSE, o)
  <2>1. M.mem[i].ctx_refs = Cardinality(W)
    BY DEF Counted
  <2>2. ~M.abnormal /\ M.mem[i].table => OnList(M.maps, i)
    BY DEF Counted
  <2>3. ~o => M.mem[i].refs = M.mem[i].ctx_refs + Own(M.mem[i])
    <3>1. ~o => M.mem[i].refs = M.mem[i].ctx_refs + Own(M.mem[i])
                                + IF FALSE THEN 1 ELSE 0
      BY DEF Counted
    <3> QED
      BY SMT, <1>a, <3>1
  <2>4. ~o /\ L.mem[i].refs = 0 => L.mem[i].ctx_refs = 0 /\ Own(L.mem[i]) = 0
    BY SMT, <1>a, <1>1, <2>3
  <2>5. ~o /\ L.mem[i].refs > 0 => L.mem[i].refs = L.mem[i].ctx_refs + Own(L.mem[i]) + 1
    BY SMT, <1>a, <1>1, <2>3
  <2> QED
    BY <1>1, <2>1, <2>2, <2>4, <2>5 DEF Freeable
<1>4. Touches(L, N, i) /\ Counted(N, i, W, FALSE, FALSE, o)
  BY <1>2, <1>3, FreeKeeps
<1> QED
  BY <1>1, <1>4, TouchesMore

\* One round of the loop over fl->maps.
FdFree(fd, n, P) ==
    IF ~Kept(fd, maps[n]) THEN P
    ELSE MmapFree(TakeOwed(P, maps[n]), maps[n], FALSE)

FdFrees(M, fd, L, f) ==
    [n \in 0 .. L |-> IF n = 0 THEN M ELSE FdFree(fd, n, f[n - 1])]

\* The rounds of vfastrpc_mmap_remove_fd on a list of length L.
LEMMA FdFreesExist ==
    ASSUME NEW M, NEW fd, NEW L \in Nat
    PROVE  \E f : f = FdFrees(M, fd, L, f)
<1> DEFINE T == {n \in Nat : ~ \E f : f = FdFrees(M, fd, n, f)}
<1>1. SUFFICES ASSUME T # {} PROVE FALSE
  OBVIOUS
<1>2. PICK x \in T : \A y \in T : x <= y
  <2>1. T \in SUBSET Nat
    OBVIOUS
  <2> HIDE DEF T
  <2> QED
    BY <1>1, <2>1, LeastNatural
<1>3. CASE x = 0
  <2> DEFINE g == [n \in 0 .. 0 |-> M]
  <2>1. g = FdFrees(M, fd, 0, g)
    BY SMT DEF FdFrees
  <2> QED
    BY <1>2, <1>3, <2>1
<1>4. CASE x > 0
  <2>1. x - 1 \in Nat /\ x - 1 \notin T
    BY SMT, <1>2, <1>4
  <2>2. PICK f : f = FdFrees(M, fd, x - 1, f)
    BY <2>1
  <2> DEFINE g == [n \in 0 .. x |-> IF n < x THEN f[n] ELSE FdFree(fd, x, f[x - 1])]
  <2>3. ASSUME NEW n \in 0 .. x
        PROVE  g[n] = IF n = 0 THEN M ELSE FdFree(fd, n, g[n - 1])
    <3>1. CASE n = 0
      BY SMT, <1>4, <2>1, <2>2, <3>1 DEF FdFrees
    <3>2. CASE n > 0 /\ n < x
      <4>1. g[n] = f[n] /\ g[n - 1] = f[n - 1]
        BY SMT, <3>2
      <4>2. f[n] = FdFree(fd, n, f[n - 1])
        BY SMT, <1>2, <2>1, <2>2, <3>2 DEF FdFrees
      <4> QED
        BY SMT, <3>2, <4>1, <4>2
    <3>3. CASE n > 0 /\ n = x
      <4>1. g[n] = FdFree(fd, x, f[x - 1]) /\ g[n - 1] = f[n - 1]
        BY SMT, <3>3
      <4> QED
        BY SMT, <3>3, <4>1
    <3> QED
      BY SMT, <1>2, <3>1, <3>2, <3>3
  <2>4. g = FdFrees(M, fd, x, g)
    BY <2>3 DEF FdFrees
  <2> QED
    BY <1>2, <2>4
<1> QED
  BY SMT, <1>2, <1>3, <1>4

FdRounds(M, fd, f) ==
    /\ f[0] = M /\ RemoveFd(M, fd) = f[Len(maps)]
    /\ \A n \in 1 .. Len(maps) : f[n] = FdFree(fd, n, f[n - 1])

\* RemoveFd is the last of the rounds.
LEMMA RemoveFdIs ==
    ASSUME NEW M, NEW fd, Len(maps) \in Nat
    PROVE  \E f : FdRounds(M, fd, f)
<1> DEFINE f == CHOOSE g : g = FdFrees(M, fd, Len(maps), g)
<1>1. f = FdFrees(M, fd, Len(maps), f)
  <2> HIDE DEF f
  <2>1. \E g : g = FdFrees(M, fd, Len(maps), g)
    BY FdFreesExist
  <2> QED
    BY <2>1 DEF f
<1>2. RemoveFd(M, fd) = f[Len(maps)]
  BY DEF RemoveFd, FdFrees, FdFree
<1> HIDE DEF f
<1>3. f[0] = M /\ \A n \in 1 .. Len(maps) : f[n] = FdFree(fd, n, f[n - 1])
  BY SMT, <1>1 DEF FdFrees
<1> QED
  BY <1>2, <1>3 DEF FdRounds

\* After n rounds the other maps of the list are as they were.
FdFreeOK(P, n, o) ==
    /\ MapsOK(P)
    /\ \A i \in Maps : Counted(P, i, CtxUses(i), FALSE, FALSE, o)
    /\ \A k \in 1 .. Len(maps) : k > n => P.mem[maps[k]] = mem[maps[k]]

\* munmap_fd takes no reference of a context unless o says so.
Taken(fd, i) == Kept(fd, i) /\ mem[i].refs > 0 /\ mem[i].owed = mem[i].missing

\* One round of the loop of vfastrpc_mmap_remove_fd leaves the maps counted.
LEMMA FdFreeRound ==
    ASSUME MapsOK(State), NEW fd, NEW n \in 1 .. Len(maps), NEW P, NEW o \in BOOLEAN,
           FdFreeOK(P, n - 1, o), Taken(fd, maps[n]) => o
    PROVE  FdFreeOK(FdFree(fd, n, P), n, o)
<1> DEFINE i == maps[n]
           W == CtxUses(i)
           N == MmapFree(TakeOwed(P, i), i, FALSE)
<1>a. /\ mem \in [Maps -> SoundRecs \cup {NULL}] /\ maps \in Seq(Maps)
      /\ \A k \in 1 .. Len(maps) : maps[k] \in Maps /\ mem[maps[k]] # NULL
      /\ \A j, k \in 1 .. Len(maps) : maps[j] = maps[k] => j = k
  BY SMT DEF MapsOK, StateRecs, State
<1>b. i \in Maps /\ mem[i] # NULL /\ mem[i] \in SoundRecs /\ Len(maps) \in Nat
  BY SMT, <1>a
<1>1. CASE ~Kept(fd, i)
  <2>1. FdFree(fd, n, P) = P
    BY <1>1 DEF FdFree
  <2>2. ASSUME NEW k \in 1 .. Len(maps), k > n PROVE P.mem[maps[k]] = mem[maps[k]]
    BY SMT, <1>b, <2>2 DEF FdFreeOK
  <2>3. FdFreeOK(P, n, o)
    BY <2>2 DEF FdFreeOK
  <2> QED
    BY <2>1, <2>3
<1>2. CASE Kept(fd, i)
  <2>1. P.mem[i] = mem[i] /\ MapsOK(P) /\ Counted(P, i, W, FALSE, FALSE, o)
    <3>1. n > n - 1
      BY SMT, <1>b
    <3>2. P.mem[i] = mem[i] /\ MapsOK(P)
      BY <3>1 DEF FdFreeOK
    <3>3. Counted(P, i, W, FALSE, FALSE, o)
      <4>1. \A j \in Maps : Counted(P, j, CtxUses(j), FALSE, FALSE, o)
        BY DEF FdFreeOK
      <4>2. i \in Maps
        BY <1>b
      <4> HIDE DEF i
      <4> QED
        BY <4>1, <4>2
    <3> QED
      BY <3>2, <3>3
  <2>2. P.mem[i] # NULL /\ (o \/ P.mem[i].refs = 0 \/ Own(P.mem[i]) > 0)
    BY SMT, <1>b, <1>2, <2>1, CountersAre DEF Taken, Own
  <2>3. IsFiniteSet(W)
    BY UsesFinite
  <2>4. N = MmapFree(TakeOwed(P, i), i, FALSE)
    OBVIOUS
  <2>5. FdFree(fd, n, P) = N
    BY <1>2 DEF FdFree
  <2> HIDE DEF W, N
  <2>6. Touches(P, N, i) /\ Counted(N, i, W, FALSE, FALSE, o)
    <3> HIDE DEF i
    <3> QED
      BY <1>b, <2>1, <2>2, <2>3, <2>4, FdFreeKeeps
  <2>7. ASSUME NEW j \in Maps \ {i} PROVE Counted(N, j, CtxUses(j), FALSE, FALSE, o)
    <3>1. Counted(P, j, CtxUses(j), FALSE, FALSE, o)
      BY DEF FdFreeOK
    <3> HIDE DEF i
    <3> QED
      BY <2>6, <3>1, CountedFrame
  <2>8. ASSUME NEW k \in 1 .. Len(maps), k > n PROVE N.mem[maps[k]] = mem[maps[k]]
    <3>1. maps[k] \in Maps \ {i} /\ P.mem[maps[k]] = mem[maps[k]]
      BY SMT, <1>a, <1>b, <2>8 DEF FdFreeOK
    <3> QED
      BY <2>6, <3>1 DEF Touches, Untouched
  <2>9. FdFreeOK(N, n, o)
    <3>1. MapsOK(N)
      BY <2>6 DEF Touches
    <3>2. ASSUME NEW j \in Maps PROVE Counted(N, j, CtxUses(j), FALSE, FALSE, o)
      BY <2>6, <2>7 DEF W
    <3> QED
      BY <2>8, <3>1, <3>2 DEF FdFreeOK
  <2> QED
    BY <2>5, <2>9
<1> QED
  BY <1>1, <1>2

\* vfastrpc_mmap_remove_fd keeps the counts.
LEMMA RemoveFdKeeps ==
    ASSUME MapsOK(State), NEW fd, NEW o \in BOOLEAN,
           \A i \in Maps : Counted(State, i, CtxUses(i), FALSE, FALSE, o),
           \A k \in 1 .. Len(maps) : Taken(fd, maps[k]) => o
    PROVE  FdFreeOK(RemoveFd(State, fd), Len(maps), o)
<1>a. Len(maps) \in Nat
  BY SMT DEF MapsOK, StateRecs, State
<1>1. PICK f : FdRounds(State, fd, f)
  BY <1>a, RemoveFdIs
<1> DEFINE T == {n \in 0 .. Len(maps) : ~FdFreeOK(f[n], n, o)}
<1>2. FdFreeOK(f[0], 0, o)
  <2>1. f[0] = State
    BY <1>1 DEF FdRounds
  <2>2. State.mem = mem
    BY DEF State
  <2>3. FdFreeOK(State, 0, o)
    BY <2>2 DEF FdFreeOK
  <2> QED
    BY <2>1, <2>3
<1>3. ASSUME T # {} PROVE FALSE
  <2>1. T \in SUBSET Nat
    BY SMT, <1>a
  <2>2. PICK x \in T : \A y \in T : x <= y
    <3> HIDE DEF T
    <3> QED
      BY <1>3, <2>1, LeastNatural
  <2>3. x \in 1 .. Len(maps)
    BY SMT, <1>a, <1>2
  <2>4. FdFreeOK(f[x - 1], x - 1, o)
    <3>1. x - 1 \in 0 .. Len(maps) /\ x - 1 \notin T
      BY SMT, <1>a, <2>1, <2>2, <2>3
    <3> QED
      BY <3>1
  <2>5. Taken(fd, maps[x]) => o
    BY <2>3
  <2>6. FdFreeOK(FdFree(fd, x, f[x - 1]), x, o)
    BY <2>3, <2>4, <2>5, FdFreeRound
  <2>7. f[x] = FdFree(fd, x, f[x - 1])
    BY <1>1, <2>3 DEF FdRounds
  <2> QED
    BY <2>6, <2>7
<1>4. Len(maps) \notin T
  BY <1>3
<1>5. FdFreeOK(f[Len(maps)], Len(maps), o)
  BY SMT, <1>a, <1>4
<1> QED
  BY <1>1, <1>5 DEF FdRounds

-----------------------------------------------------------------------------
(***************************************************************************)
(* The steps.                                                              *)
(***************************************************************************)

\* The state of the maps after a step.
LEMMA BecomesIs ==
    ASSUME NEW N, MapsOK(N), Becomes(N)
    PROVE  State' = N
BY DEF MapsOK, StateRecs, Becomes, State

\* The maps after a step.
Good(N) ==
    /\ MapsOK(N)
    /\ \A i \in Maps : Counted(N, i, CtxUses(i)', Unmapping(i)', MappingOf(i)', over')

\* A step that leaves the maps counted and contexts and file in order keeps
\* MmapInv.
LEMMA Reached ==
    ASSUME NEW N, State' = N, Good(N), ContextsOK', FileOK'
    PROVE  MmapInv'
<1>1. MapsOK(State)'
  BY DEF Good, MapsOK, StateRecs
<1>2. ASSUME NEW i \in Maps
      PROVE  Counted(State, i, CtxUses(i), Unmapping(i), MappingOf(i), over)'
  BY DEF Good, Counted
<1> QED
  BY <1>1, <1>2 DEF MmapInv

\* A context goes on with the references it has.
LEMMA CtxMoves ==
    ASSUME ContextsOK, NEW c \in Ctxs, NEW s \in CtxStates \ {"idle"},
           ctx' = [ctx EXCEPT ![c].st = s]
    PROVE  ContextsOK' /\ \A i \in Maps : CtxUses(i)' = CtxUses(i)
<1>1. /\ ctx' \in [Ctxs -> [st: CtxStates, args: Seq(Args \cup {NULL})]]
      /\ \A d \in Ctxs : ctx'[d].args = ctx[d].args
      /\ \A d \in Ctxs : ctx'[d].st = IF d = c THEN s ELSE ctx[d].st
  BY DEF ContextsOK
<1>2. ContextsOK'
  BY <1>1 DEF ContextsOK
<1>3. ASSUME NEW i \in Maps PROVE CtxUses(i)' = CtxUses(i)
  BY <1>1 DEF CtxUses, Uses
<1> QED
  BY <1>2, <1>3

\* A map is counted as it was when it is used for the same.
LEMMA CountedStays ==
    ASSUME NEW i \in Maps, over' = over, CtxUses(i)' = CtxUses(i),
           Unmapping(i)' <=> Unmapping(i), MappingOf(i)' <=> MappingOf(i),
           Counted(State, i, CtxUses(i), Unmapping(i), MappingOf(i), over)
    PROVE  Counted(State, i, CtxUses(i)', Unmapping(i)', MappingOf(i)', over')
BY SMT DEF Counted

\* The maps are as they were, and so is what they are used for.
LEMMA SameMaps ==
    ASSUME MmapInv, UNCHANGED <<mem, maps, abnormal, over>>,
           \A i \in Maps : CtxUses(i)' = CtxUses(i),
           \A i \in Maps : (Unmapping(i)' <=> Unmapping(i))
                           /\ (MappingOf(i)' <=> MappingOf(i)),
           ContextsOK', FileOK'
    PROVE  MmapInv'
<1>1. State' = State
  BY DEF State
<1>2. MapsOK(State)
  BY DEF MmapInv
<1>3. ASSUME NEW i \in Maps
      PROVE  Counted(State, i, CtxUses(i)', Unmapping(i)', MappingOf(i)', over')
  <2>1. Counted(State, i, CtxUses(i), Unmapping(i), MappingOf(i), over)
    BY DEF MmapInv
  <2>2. /\ CtxUses(i)' = CtxUses(i) /\ over' = over
        /\ (Unmapping(i)' <=> Unmapping(i)) /\ (MappingOf(i)' <=> MappingOf(i))
    OBVIOUS
  <2> QED
    BY <2>1, <2>2, CountedStays
<1>4. Good(State)
  BY <1>2, <1>3 DEF Good
<1> QED
  BY <1>1, <1>4, Reached

\* Sending an invoke and receiving its answer keep MmapInv.
LEMMA ContextGoesOn ==
    ASSUME MmapInv, NEW c \in Ctxs, Invoke(c) \/ Answered(c)
    PROVE  MmapInv'
<1>1. PICK s \in CtxStates \ {"idle"} : ctx' = [ctx EXCEPT ![c].st = s]
  BY DEF Invoke, Answered, CtxStates
<1>2. UNCHANGED <<mem, maps, op, file, abnormal, over>> /\ ctx[c].st # "idle"
  BY DEF Invoke, Answered
<1>3. ContextsOK' /\ \A i \in Maps : CtxUses(i)' = CtxUses(i)
  BY <1>1, CtxMoves DEF MmapInv
<1>4. FileOK'
  BY <1>2 DEF MmapInv, FileOK
<1>5. \A i \in Maps : (Unmapping(i)' <=> Unmapping(i))
                      /\ (MappingOf(i)' <=> MappingOf(i))
  BY <1>2 DEF Unmapping, MappingOf
<1> QED
  BY <1>2, <1>3, <1>4, <1>5, SameMaps

\* The steps of release that free no map, and the end of munmap_fd, keep
\* MmapInv.
LEMMA FileGoesOn ==
    ASSUME MmapInv, Release \/ ContextsFreed \/ MunmapFdDone
    PROVE  MmapInv'
<1>1. UNCHANGED <<mem, maps, ctx, abnormal, over>>
  BY DEF Release, ContextsFreed, MunmapFdDone
<1>2. ContextsOK' /\ \A i \in Maps : CtxUses(i)' = CtxUses(i)
  BY <1>1 DEF MmapInv, ContextsOK, CtxUses, Uses
<1>3. FileOK'
  <2>1. CASE Release
    BY <1>1, <2>1 DEF Release, MmapInv, FileOK
  <2>2. CASE ContextsFreed
    BY <1>1, <2>2 DEF ContextsFreed, MmapInv, FileOK
  <2>3. CASE MunmapFdDone
    BY <1>1, <2>3 DEF MunmapFdDone, MmapInv, FileOK
  <2> QED
    BY <2>1, <2>2, <2>3
<1>4. \A i \in Maps : (Unmapping(i)' <=> Unmapping(i))
                      /\ (MappingOf(i)' <=> MappingOf(i))
  BY DEF Release, ContextsFreed, MunmapFdDone, Unmapping, MappingOf,
         UnmapKinds, MapKinds
<1> QED
  BY <1>1, <1>2, <1>3, <1>4, SameMaps

\* What the references and the message in flight say of map j does not change.
SameUse(j) ==
    /\ CtxUses(j)' = CtxUses(j)
    /\ (Unmapping(j)' <=> Unmapping(j)) /\ (MappingOf(j)' <=> MappingOf(j))

\* A step that touches one map.
LEMMA OneMap ==
    ASSUME MmapInv, NEW i \in Maps, NEW N, Becomes(N), Touches(State, N, i),
           Counted(N, i, CtxUses(i)', Unmapping(i)', MappingOf(i)', over'),
           over' = over, \A j \in Maps \ {i} : SameUse(j), ContextsOK', FileOK'
    PROVE  MmapInv'
<1>1. MapsOK(N)
  BY DEF Touches
<1>2. State' = N
  BY <1>1, BecomesIs
<1>3. ASSUME NEW j \in Maps \ {i}
      PROVE  Counted(N, j, CtxUses(j)', Unmapping(j)', MappingOf(j)', over')
  <2>1. Counted(State, j, CtxUses(j), Unmapping(j), MappingOf(j), over)
    BY DEF MmapInv
  <2>2. Counted(N, j, CtxUses(j), Unmapping(j), MappingOf(j), over)
    BY <2>1, CountedFrame
  <2>3. SameUse(j)
    OBVIOUS
  <2> QED
    BY <2>2, <2>3 DEF Counted, SameUse
<1>4. Good(N)
  BY <1>1, <1>3 DEF Good
<1> QED
  BY <1>2, <1>4, Reached

\* A map is put on the list.
Linked(M, i, q) ==
    [mem |-> [M.mem EXCEPT ![i] = q], maps |-> <<i>> \o M.maps, abnormal |-> M.abnormal]

\* hlist_add_head puts map i, which was not on the list, in front of it.
LEMMA LinkedMap ==
    ASSUME NEW M, MapsOK(M), NEW i \in Maps, NEW q \in SoundRecs,
           ~OnList(M.maps, i), NEW N, N = Linked(M, i, q)
    PROVE  /\ Touches(M, N, i) /\ OnList(N.maps, i)
           /\ N.mem[i] = q /\ q # NULL /\ N.abnormal = M.abnormal
<1>a. /\ M.mem \in [Maps -> SoundRecs \cup {NULL}] /\ M.maps \in Seq(Maps)
      /\ M.abnormal \in BOOLEAN /\ q # NULL
  BY NullIsNone DEF MapsOK, StateRecs
<1> DEFINE s == <<i>> \o M.maps
<1>1. /\ N.mem = [M.mem EXCEPT ![i] = q] /\ N.maps = s /\ N.abnormal = M.abnormal
  BY DEF Linked
<1>2. /\ s \in Seq(Maps) /\ Len(s) = Len(M.maps) + 1 /\ s[1] = i
      /\ \A k \in 1 .. Len(M.maps) : s[k + 1] = M.maps[k]
      /\ \A k \in 1 .. Len(s) : k # 1 => k - 1 \in 1 .. Len(M.maps)
                                         /\ s[k] = M.maps[k - 1]
  BY SMT, <1>a
<1> HIDE DEF s
<1>3. \A k \in 1 .. Len(M.maps) : M.maps[k] # i
  BY <1>a DEF OnList
<1>4. \A j, k \in 1 .. Len(s) : s[j] = s[k] => j = k
  <2>1. ASSUME NEW j \in 1 .. Len(s), NEW k \in 1 .. Len(s), s[j] = s[k], j # k
        PROVE  FALSE
    <3>1. j # 1 /\ k # 1
      BY <1>2, <1>3, <2>1
    <3>2. /\ j - 1 \in 1 .. Len(M.maps) /\ k - 1 \in 1 .. Len(M.maps)
          /\ M.maps[j - 1] = M.maps[k - 1]
      BY <1>2, <2>1, <3>1
    <3>3. j - 1 = k - 1
      BY <3>2 DEF MapsOK
    <3> QED
      BY SMT, <1>2, <2>1, <3>3
  <2> QED
    BY <2>1
<1>5. ASSUME NEW k \in 1 .. Len(s) PROVE N.mem[s[k]] # NULL
  <2>0. N.mem[i] = q /\ \A j \in Maps \ {i} : N.mem[j] = M.mem[j]
    BY <1>a, <1>1
  <2>1. CASE k = 1
    BY <1>a, <1>2, <2>0, <2>1
  <2>2. CASE k # 1
    <3>1. k - 1 \in 1 .. Len(M.maps) /\ s[k] = M.maps[k - 1]
      BY <1>2, <2>2
    <3>2. M.mem[s[k]] # NULL /\ s[k] # i
      BY <1>3, <3>1 DEF MapsOK
    <3>3. s[k] \in Maps
      BY <1>a, <3>1, SMT
    <3> QED
      BY <2>0, <3>2, <3>3
  <2> QED
    BY <2>1, <2>2
<1>6. MapsOK(N)
  <2>1. N.mem \in [Maps -> SoundRecs \cup {NULL}]
    BY <1>a, <1>1
  <2>2. N \in StateRecs
    BY <1>a, <1>1, <1>2, <2>1 DEF StateRecs, Linked, s
  <2> QED
    BY <1>1, <1>4, <1>5, <2>2 DEF MapsOK
<1>7. ASSUME NEW j \in Maps \ {i} PROVE Untouched(M, N, j)
  <2>1. N.mem[j] = M.mem[j]
    BY <1>a, <1>1
  <2>2. ASSUME OnList(s, j) PROVE OnList(M.maps, j)
    <3>1. PICK k \in 1 .. Len(s) : s[k] = j
      BY <2>2 DEF OnList
    <3>2. k - 1 \in 1 .. Len(M.maps) /\ M.maps[k - 1] = j
      BY <1>2, <3>1
    <3> QED
      BY <3>2 DEF OnList
  <2>3. ASSUME OnList(M.maps, j) PROVE OnList(s, j)
    <3>1. PICK k \in 1 .. Len(M.maps) : M.maps[k] = j
      BY <2>3 DEF OnList
    <3>2. k + 1 \in 1 .. Len(s) /\ s[k + 1] = j
      BY SMTT(30), <1>a, <1>2, <3>1
    <3> QED
      BY <3>2 DEF OnList
  <2> QED
    BY <1>1, <2>1, <2>2, <2>3 DEF Untouched
<1>8. OnList(s, i)
  <2>1. 1 \in 1 .. Len(s)
    BY SMT, <1>a, <1>2
  <2> QED
    BY <1>2, <2>1 DEF OnList
<1> QED
  BY <1>a, <1>1, <1>6, <1>7, <1>8 DEF Touches

\* A map the allocator hands out is on no list, and nobody uses it.
LEMMA FreshMap ==
    ASSUME MmapInv, NEW i \in Maps, mem[i] = NULL, op # NULL => op.map # i
    PROVE  /\ ~OnList(maps, i) /\ CtxUses(i) = {}
           /\ ~Unmapping(i) /\ ~MappingOf(i)
<1>1. ~OnList(maps, i)
  BY DEF MmapInv, MapsOK, State, OnList
<1>2. CtxUses(i) = {}
  <2>1. Counted(State, i, CtxUses(i), Unmapping(i), MappingOf(i), over)
    BY DEF MmapInv
  <2> QED
    BY <2>1 DEF Counted, State
<1> QED
  BY <1>1, <1>2 DEF Unmapping, MappingOf

\* A map on the list is allocated, and the back end is not asked to unmap it.
LEMMA ListedMap ==
    ASSUME MmapInv, NEW k \in 1 .. Len(maps)
    PROVE  /\ maps[k] \in Maps /\ mem[maps[k]] \in SoundRecs /\ mem[maps[k]] # NULL
           /\ OnList(maps, maps[k]) /\ ~Unmapping(maps[k])
<1>1. maps \in Seq(Maps) /\ mem \in [Maps -> SoundRecs \cup {NULL}] /\ mem[maps[k]] # NULL
  BY DEF MmapInv, MapsOK, State, StateRecs
<1>2. OnList(maps, maps[k]) /\ maps[k] \in Maps
  BY SMT, <1>1 DEF OnList
<1>3. Counted(State, maps[k], CtxUses(maps[k]), Unmapping(maps[k]),
              MappingOf(maps[k]), over)
  BY <1>2 DEF MmapInv
<1> QED
  BY <1>1, <1>2, <1>3 DEF Counted, State

\* The first map found for fd is one of the list.
LEMMA FoundIsListed ==
    ASSUME MmapInv, NEW fd, Matching(State, fd) # {}
    PROVE  \E k \in 1 .. Len(maps) : Found(State, fd) = maps[k]
<1>1. maps \in Seq(Maps) /\ State.maps = maps
  BY DEF MmapInv, MapsOK, State, StateRecs
<1>2. Matching(State, fd) \in SUBSET (1 .. Len(maps))
  BY SMT, <1>1 DEF Matching
<1>3. Matching(State, fd) \in SUBSET Nat
  BY SMT, <1>1, <1>2
<1>4. Min(Matching(State, fd)) \in Matching(State, fd)
  BY <1>3, MinIsIn
<1> QED
  BY <1>1, <1>2, <1>4 DEF Found

NewMap(fd, keep) ==
    [fd |-> fd, keep |-> keep, table |-> TRUE, raddr |-> FALSE,
     refs |-> IF keep THEN 2 ELSE 1, ctx_refs |-> 0,
     owed |-> IF keep THEN 1 ELSE 0, missing |-> 0]

\* vfastrpc_mmap_create hands out a map with one more reference, which is on the
\* list and not being unmapped.
Created(N, i) ==
    /\ i \in Maps /\ Touches(State, N, i) /\ N.abnormal = State.abnormal
    /\ N.mem[i] \in SoundRecs /\ N.mem[i] # NULL /\ OnList(N.maps, i)
    /\ ~Unmapping(i) /\ N.mem[i].ctx_refs = Cardinality(CtxUses(i))
    /\ ~over => /\ N.mem[i].refs = N.mem[i].ctx_refs + Own(N.mem[i]) + 1
                                   + IF MappingOf(i) THEN 1 ELSE 0

\* vfastrpc_mmap_create, whether it finds a map or makes one, returns such a
\* map.
LEMMA CreateKeeps ==
    ASSUME MmapInv, NEW fd \in Fds, NEW keep \in BOOLEAN,
           NEW r \in MmapCreate(State, fd, keep)
    PROVE  Created(r[1], r[2])
<1>a. /\ State.mem = mem /\ State.maps = maps /\ State.abnormal = abnormal
      /\ MapsOK(State) /\ State \in StateRecs
  BY DEF MmapInv, MapsOK, State
<1>1. CASE Matching(State, fd) # {}
  <2>1. PICK k \in 1 .. Len(maps) : Found(State, fd) = maps[k]
    BY <1>1, FoundIsListed
  <2> DEFINE i == maps[k]
             q == [mem[i] EXCEPT !.refs = mem[i].refs + 1]
  <2>2. /\ i \in Maps /\ mem[i] \in SoundRecs /\ mem[i] # NULL
        /\ OnList(maps, i) /\ ~Unmapping(i)
    BY ListedMap
  <2>3. /\ q \in SoundRecs /\ q.ctx_refs = mem[i].ctx_refs /\ Own(q) = Own(mem[i])
        /\ q.refs = mem[i].refs + 1
    <3>1. mem[i].refs + 1 \in Nat
      BY SMT, <2>2 DEF SoundRecs, MapRecs
    <3> QED
      BY <2>2, <3>1, RefsSet
  <2>4. r = <<With(State, i, q), i>>
    <3>1. r = <<[State EXCEPT !.mem[i].refs = @ + 1], i>>
      BY <1>1, <2>1 DEF MmapCreate
    <3> QED
      BY <1>a, <3>1 DEF With, StateRecs
  <2>5. Counted(State, i, CtxUses(i), Unmapping(i), MappingOf(i), over)
    <3> HIDE DEF i
    <3> QED
      BY <2>2 DEF MmapInv
  <2> HIDE DEF i, q
  <2>6. Rewritten(State, r[1], i, q) /\ r[2] = i
    <3>1. r[1] = With(State, i, q) /\ r[2] = i /\ q \in SoundRecs
      BY <2>3, <2>4
    <3>2. State.mem[i] # NULL
      BY <1>a, <2>2
    <3> QED
      BY <1>a, <2>2, <3>1, <3>2, Replaced
  <2>7. /\ mem[i].ctx_refs = Cardinality(CtxUses(i))
        /\ mem[i].ctx_refs \in Nat /\ Own(mem[i]) \in Nat /\ mem[i].refs \in Nat
        /\ ~over => mem[i].refs = mem[i].ctx_refs + Own(mem[i])
                                  + IF MappingOf(i) THEN 1 ELSE 0
    BY <1>a, <2>2, <2>5, CountersAre DEF Counted
  <2>8. /\ q.ctx_refs = Cardinality(CtxUses(i)) /\ q \in SoundRecs
        /\ ~over => q.refs = q.ctx_refs + Own(q) + 1 + IF MappingOf(i) THEN 1 ELSE 0
    BY SMT, <2>3, <2>7
  <2>9. OnList(r[1].maps, i) /\ r[1].mem[i] = q
    BY <1>a, <2>2, <2>6 DEF Rewritten
  <2> QED
    BY <2>2, <2>6, <2>8, <2>9 DEF Created, Rewritten
<1>2. CASE Matching(State, fd) = {}
  <2> DEFINE q == NewMap(fd, keep)
  <2>1. PICK i \in Maps : /\ mem[i] = NULL /\ (op # NULL => op.map # i)
                          /\ r = <<[State EXCEPT !.mem[i] = q, !.maps = <<i>> \o @], i>>
    BY <1>2 DEF MmapCreate, NewMap
  <2>2. /\ q \in SoundRecs /\ q.ctx_refs = 0 /\ q.refs = q.ctx_refs + Own(q) + 1
    BY SMT DEF NewMap, SoundRecs, MapRecs, Own
  <2> HIDE DEF q
  <2>3. ~OnList(maps, i) /\ CtxUses(i) = {} /\ ~Unmapping(i) /\ ~MappingOf(i)
    BY <2>1, FreshMap
  <2>4. r[1] = Linked(State, i, q) /\ r[2] = i
    BY <1>a, <2>1 DEF Linked, State
  <2>5. /\ Touches(State, r[1], i) /\ OnList(r[1].maps, i)
        /\ r[1].mem[i] = q /\ q # NULL /\ r[1].abnormal = State.abnormal
    BY SMT, <1>a, <2>2, <2>3, <2>4, LinkedMap
  <2>6. Cardinality(CtxUses(i)) = 0
    BY <2>3, FS_EmptySet
  <2>7. /\ q.ctx_refs = Cardinality(CtxUses(i)) /\ q \in SoundRecs
        /\ ~over => q.refs = q.ctx_refs + Own(q) + 1 + IF MappingOf(i) THEN 1 ELSE 0
    <3>1. Own(q) \in Nat
      BY <2>2, CountersAre
    <3> QED
      BY SMT, <2>2, <2>3, <2>6, <3>1
  <2> QED
    BY <2>3, <2>4, <2>5, <2>7 DEF Created
<1> QED
  BY <1>1, <1>2

\* get_args gives a context one more reference.
LEMMA CtxAdds ==
    ASSUME ContextsOK, NEW c \in Ctxs, NEW a \in Args, Len(ctx[c].args) < MaxArgs,
           ctx' = [ctx EXCEPT ![c] = [st |-> "args", args |-> Append(@.args, a)]]
    PROVE  /\ ContextsOK'
           /\ \A j \in Maps : j # a.map => CtxUses(j)' = CtxUses(j)
           /\ \E u : u \notin CtxUses(a.map)
                     /\ CtxUses(a.map)' = CtxUses(a.map) \cup {u}
<1> DEFINE s == ctx[c].args
           n == Len(s) + 1
<1>a. /\ s \in Seq(Args \cup {NULL}) /\ Len(s) \in Nat /\ n \in 1 .. MaxArgs
      /\ a # NULL /\ Append(s, a) \in Seq(Args \cup {NULL})
      /\ Len(Append(s, a)) = n /\ Append(s, a)[n] = a
      /\ \A k \in 1 .. Len(s) : Append(s, a)[k] = s[k]
  BY SMT, MmapAssumption, NullIsNone DEF ContextsOK
<1>1. /\ ctx' \in [Ctxs -> [st: CtxStates, args: Seq(Args \cup {NULL})]]
      /\ ctx'[c].args = Append(s, a) /\ ctx'[c].st = "args"
      /\ \A d \in Ctxs : d # c => ctx'[d] = ctx[d]
  BY <1>a DEF ContextsOK, CtxStates
<1>2. ContextsOK'
  BY SMT, <1>a, <1>1 DEF ContextsOK
<1> HIDE DEF s
<1>3. ASSUME NEW j \in Maps, NEW u \in Ctxs \X (1 .. MaxArgs), u # <<c, n>>
      PROVE  u \in CtxUses(j)' <=> u \in CtxUses(j)
  <2>1. PICK d \in Ctxs, k \in 1 .. MaxArgs : u = <<d, k>>
    BY SMT
  <2>2. CASE d # c
    BY <1>1, <2>1, <2>2 DEF CtxUses, Uses
  <2>3. CASE d = c /\ k <= Len(s)
    <3>1. ctx'[c].args[k] = ctx[c].args[k] /\ k <= Len(ctx'[c].args) /\ k <= Len(ctx[c].args)
      BY SMT, <1>a, <1>1, <2>3 DEF s
    <3> QED
      BY <2>1, <2>3, <3>1 DEF CtxUses, Uses
  <2>4. CASE d = c /\ k > Len(s)
    <3>1. ~(k <= Len(ctx'[c].args)) /\ ~(k <= Len(ctx[c].args))
      BY SMT, <1>3, <1>a, <1>1, <2>1, <2>4 DEF s
    <3> QED
      BY <2>1, <2>4, <3>1 DEF CtxUses, Uses
  <2> QED
    BY SMT, <1>a, <2>2, <2>3, <2>4
<1>4. ASSUME NEW j \in Maps
      PROVE  /\ <<c, n>> \notin CtxUses(j)
             /\ <<c, n>> \in CtxUses(j)' <=> a.map = j
  <2>1. <<c, n>> \notin CtxUses(j)
    BY SMT, <1>a DEF CtxUses, Uses, s
  <2>2. <<c, n>> \in CtxUses(j)' <=> a.map = j
    BY SMT, <1>a, <1>1 DEF CtxUses, Uses
  <2> QED
    BY <2>1, <2>2
<1>5. \A j : CtxUses(j) \subseteq Ctxs \X (1 .. MaxArgs)
             /\ CtxUses(j)' \subseteq Ctxs \X (1 .. MaxArgs)
  BY DEF CtxUses, Uses
<1>6. ASSUME NEW j \in Maps, j # a.map PROVE CtxUses(j)' = CtxUses(j)
  <2>1. ASSUME NEW u \in Ctxs \X (1 .. MaxArgs)
        PROVE  u \in CtxUses(j)' <=> u \in CtxUses(j)
    <3> HIDE DEF n
    <3> QED
      BY <1>3, <1>4, <1>6
  <2> QED
    BY <1>5, <2>1
<1>7. CtxUses(a.map)' = CtxUses(a.map) \cup {<<c, n>>}
  <2>1. a.map \in Maps
    BY DEF Args
  <2> QED
    BY <1>3, <1>4, <1>5, <2>1
<1>8. <<c, n>> \notin CtxUses(a.map)
  BY <1>4 DEF Args
<1> QED
  BY <1>2, <1>6, <1>7, <1>8

\* get_args, which maps a buffer and counts the reference of the context, keeps
\* MmapInv.
LEMMA GetArgStep ==
    ASSUME MmapInv, NEW c \in Ctxs, NEW fd \in Fds, NEW keep \in Keeps,
           NEW out \in BOOLEAN, GetArg(c, fd, keep, out)
    PROVE  MmapInv'
<1>a. keep \in BOOLEAN /\ MapsOK(State) /\ ContextsOK /\ FileOK
  BY MmapAssumption DEF MmapInv
<1>1. PICK r \in MmapCreate(State, fd, keep) :
        /\ Becomes(CtxGet(r[1], r[2]))
        /\ ctx' = [ctx EXCEPT ![c] =
              [st |-> "args", args |-> Append(@.args, [map |-> r[2], out |-> out])]]
  BY DEF GetArg
<1>2. UNCHANGED <<op, file, over>> /\ Len(ctx[c].args) < MaxArgs /\ file = "open"
  BY DEF GetArg
<1>3. PICK L, i : L = r[1] /\ i = r[2]
  OBVIOUS
<1>4. Created(L, i)
  BY <1>a, <1>3, CreateKeeps
<1> DEFINE q == [L.mem[i] EXCEPT !.ctx_refs = L.mem[i].ctx_refs + 1]
           N == With(L, i, q)
           a == [map |-> i, out |-> out]
<1>5. /\ i \in Maps /\ MapsOK(L) /\ L.mem[i] \in SoundRecs /\ L.mem[i] # NULL
      /\ Touches(State, L, i)
  BY <1>4 DEF Created, Touches
<1>6. Becomes(N)
  BY <1>1, <1>3, <1>5 DEF CtxGet, With, MapsOK, StateRecs
<1>7. /\ q \in SoundRecs /\ q.ctx_refs = L.mem[i].ctx_refs + 1
      /\ q.refs = L.mem[i].refs /\ Own(q) = Own(L.mem[i])
      /\ L.mem[i].ctx_refs \in Nat /\ Own(L.mem[i]) \in Nat
  BY SMT, <1>5 DEF SoundRecs, MapRecs, Own
<1> HIDE DEF q, N
<1>8. Rewritten(L, N, i, q)
  <2>1. q \in SoundRecs
    BY <1>7
  <2> QED
    BY <1>5, <2>1, Replaced DEF N
<1>9. Touches(State, N, i)
  BY <1>5, <1>8, TouchesMore DEF Rewritten
<1>10. /\ ContextsOK' /\ \A j \in Maps : j # i => CtxUses(j)' = CtxUses(j)
       /\ \E u : u \notin CtxUses(i) /\ CtxUses(i)' = CtxUses(i) \cup {u}
  <2>1. a \in Args /\ a.map = i
    BY <1>5 DEF Args
  <2>2. ctx' = [ctx EXCEPT ![c] = [st |-> "args", args |-> Append(@.args, a)]]
    BY <1>1, <1>3
  <2> HIDE DEF a
  <2> QED
    BY <1>a, <1>2, <2>1, <2>2, CtxAdds
<1>11. \A j \in Maps : (Unmapping(j)' <=> Unmapping(j)) /\ (MappingOf(j)' <=> MappingOf(j))
  BY <1>2 DEF Unmapping, MappingOf
<1>12. Cardinality(CtxUses(i)') = L.mem[i].ctx_refs + 1
  <2>1. PICK u : u \notin CtxUses(i) /\ CtxUses(i)' = CtxUses(i) \cup {u}
    BY <1>10
  <2>2. IsFiniteSet(CtxUses(i)) /\ Cardinality(CtxUses(i)) = L.mem[i].ctx_refs
    BY <1>4, UsesFinite DEF Created
  <2> QED
    BY <2>1, <2>2, FS_AddElement
<1>13. Counted(N, i, CtxUses(i)', Unmapping(i)', MappingOf(i)', over')
  <2>1. ~Unmapping(i)' /\ over' = over /\ OnList(N.maps, i) /\ N.mem[i] = q /\ q # NULL
    BY <1>2, <1>4, <1>5, <1>8, <1>11 DEF Created, Rewritten
  <2>2. ~over => q.refs = q.ctx_refs + Own(q) + IF MappingOf(i) THEN 1 ELSE 0
    BY SMT, <1>4, <1>7 DEF Created
  <2>3. MappingOf(i)' <=> MappingOf(i)
    BY <1>5, <1>11
  <2>4. q.ctx_refs = Cardinality(CtxUses(i)')
    BY <1>7, <1>12
  <2> QED
    BY <2>1, <2>2, <2>3, <2>4 DEF Counted
<1>14. FileOK'
  BY <1>a, <1>2 DEF FileOK
<1>15. \A j \in Maps \ {i} : SameUse(j)
  BY <1>10, <1>11 DEF SameUse
<1> QED
  BY <1>2, <1>5, <1>6, <1>9, <1>10, <1>13, <1>14, <1>15, OneMap

\* vfastrpc_mmap_create fails: a map that is to be kept, or that of a heap, stays
\* behind, on no list and with the reference nobody gives back.
LEMMA CreateFails ==
    ASSUME MmapInv, NEW fd \in Fds, NEW keep \in Keeps, NEW heap \in BOOLEAN,
           NEW M \in MmapCreateFails(State, fd, keep, heap), Becomes(M),
           UNCHANGED <<op, over>>, \A i \in Maps : CtxUses(i)' = CtxUses(i),
           ContextsOK', FileOK'
    PROVE  MmapInv'
<1>a. MapsOK(State) /\ keep \in BOOLEAN
  BY MmapAssumption DEF MmapInv
<1>1. \A i \in Maps : SameUse(i)
  BY DEF SameUse, Unmapping, MappingOf
<1>2. CASE ~keep /\ ~heap
  <2>1. UNCHANGED <<mem, maps, abnormal, over>>
    BY SMT, <1>2 DEF MmapCreateFails, Becomes, State
  <2> QED
    BY <1>1, <2>1, SameMaps DEF SameUse
<1>3. CASE keep \/ heap
  <2> DEFINE q == [fd |-> fd, keep |-> keep, table |-> FALSE, raddr |-> FALSE,
                   refs |-> 1, ctx_refs |-> 0, owed |-> 1, missing |-> 0]
  <2>1. PICK i \in Maps : /\ mem[i] = NULL /\ (op # NULL => op.map # i)
                          /\ M = [State EXCEPT !.mem[i] = q]
    BY <1>3 DEF MmapCreateFails
  <2>2. q \in SoundRecs /\ ~q.table /\ q.refs = 1 /\ q.ctx_refs = 0 /\ Own(q) = 1
    BY SMT, <1>a DEF SoundRecs, MapRecs, Own
  <2> HIDE DEF q
  <2>3. M = With(State, i, q)
    BY <2>1 DEF With, State
  <2>4. Rewritten(State, M, i, q)
    BY <1>a, <2>2, <2>3, Replaced
  <2>5. CtxUses(i) = {} /\ ~Unmapping(i) /\ ~MappingOf(i)
    BY <2>1, FreshMap
  <2>6. Counted(M, i, CtxUses(i)', Unmapping(i)', MappingOf(i)', over')
    <3>1. CtxUses(i)' = {} /\ ~Unmapping(i)' /\ ~MappingOf(i)' /\ Cardinality({}) = 0
      BY <1>1, <2>5, FS_EmptySet DEF SameUse
    <3>2. M.mem[i] = q /\ q # NULL
      BY <2>4 DEF Rewritten
    <3> QED
      BY SMT, <2>2, <3>1, <3>2 DEF Counted
  <2>7. Touches(State, M, i)
    BY <2>4 DEF Rewritten
  <2> QED
    BY <1>1, <2>6, <2>7, OneMap
<1> QED
  BY <1>a, <1>2, <1>3

\* get_args whose vfastrpc_mmap_create fails keeps MmapInv.
LEMMA GetArgFailsStep ==
    ASSUME MmapInv, NEW c \in Ctxs, NEW fd \in Fds, NEW keep \in Keeps,
           GetArgFails(c, fd, keep)
    PROVE  MmapInv'
<1>1. /\ ctx' = [ctx EXCEPT ![c].st = "free"] /\ UNCHANGED <<op, file, over>>
      /\ file = "open" /\ \E M \in MmapCreateFails(State, fd, keep, FALSE) : Becomes(M)
  BY DEF GetArgFails
<1>2. ContextsOK' /\ \A i \in Maps : CtxUses(i)' = CtxUses(i)
  <2>1. "free" \in CtxStates \ {"idle"}
    BY DEF CtxStates
  <2> QED
    BY <1>1, <2>1, CtxMoves DEF MmapInv
<1>3. FileOK'
  BY <1>1 DEF MmapInv, FileOK
<1> QED
  BY <1>1, <1>2, <1>3, CreateFails

\* A mmap or mem_map whose vfastrpc_mmap_create fails keeps MmapInv.
LEMMA MapCreateFailsStep ==
    ASSUME MmapInv, NEW kind \in MapKinds, NEW fd \in Fds, NEW keep \in Keeps,
           NEW heap \in BOOLEAN, MapCreateFails(kind, fd, keep, heap)
    PROVE  MmapInv'
<1>1. /\ UNCHANGED <<ctx, op, file, over>>
      /\ file = "open" /\ \E M \in MmapCreateFails(State, fd, keep, heap) : Becomes(M)
  BY DEF MapCreateFails
<1>2. ContextsOK' /\ \A i \in Maps : CtxUses(i)' = CtxUses(i)
  BY <1>1 DEF MmapInv, ContextsOK, CtxUses, Uses
<1>3. FileOK'
  BY <1>1 DEF MmapInv, FileOK
<1> QED
  BY <1>1, <1>2, <1>3, CreateFails

\* Contexts that do nothing.
LEMMA SameContexts ==
    ASSUME MmapInv, UNCHANGED ctx
    PROVE  ContextsOK' /\ \A i \in Maps : CtxUses(i)' = CtxUses(i)
BY DEF MmapInv, ContextsOK, CtxUses, Uses

\* The beginning of mmap and mem_map, up to the message sent, keeps MmapInv.
LEMMA MapBeginStep ==
    ASSUME MmapInv, NEW kind \in MapKinds, NEW fd \in Fds, NEW keep \in Keeps,
           MapBegin(kind, fd, keep)
    PROVE  MmapInv'
<1>1. PICK r \in MmapCreate(State, fd, keep) :
        Becomes(r[1]) /\ op' = [kind |-> kind, map |-> r[2]]
  BY DEF MapBegin
<1>2. UNCHANGED <<ctx, file, over>> /\ file = "open" /\ op = NULL
  BY DEF MapBegin
<1>3. PICK N, i : N = r[1] /\ i = r[2]
  OBVIOUS
<1>4. Created(N, i)
  BY <1>3, CreateKeeps, MmapAssumption
<1>5. i \in Maps /\ Touches(State, N, i)
  BY <1>4 DEF Created
<1>6. ContextsOK' /\ \A j \in Maps : CtxUses(j)' = CtxUses(j)
  BY <1>2, SameContexts
<1>7. op' = [kind |-> kind, map |-> i] /\ op' \in Ops /\ op' # NULL
  BY SMT, <1>1, <1>3, <1>5, NullIsNone DEF Ops
<1>8. /\ ~Unmapping(i)' /\ MappingOf(i)' /\ ~MappingOf(i)
      /\ \A j \in Maps \ {i} : SameUse(j)
  BY <1>2, <1>6, <1>7 DEF Unmapping, MappingOf, SameUse, MapKinds, UnmapKinds
<1>9. Counted(N, i, CtxUses(i)', Unmapping(i)', MappingOf(i)', over')
  <2>1. CtxUses(i)' = CtxUses(i) /\ over' = over
    BY <1>2, <1>5, <1>6
  <2>2. N.mem[i].ctx_refs \in Nat /\ Own(N.mem[i]) \in Nat
    BY <1>4, CountersAre DEF Created
  <2> QED
    BY SMT, <1>4, <1>8, <2>1, <2>2 DEF Counted, Created
<1>10. FileOK'
  BY <1>2, <1>5, <1>7 DEF MmapInv, FileOK, Ops
<1>11. Becomes(N)
  BY <1>1, <1>3
<1> QED
  BY <1>2, <1>5, <1>6, <1>8, <1>9, <1>10, <1>11, OneMap

\* The ioctl is over: no map is being mapped or unmapped any more.
LEMMA OpEnds ==
    ASSUME MmapInv, NEW i \in Maps, op # NULL, op.map = i, op' = NULL,
           UNCHANGED <<ctx, file, over>>
    PROVE  /\ ContextsOK' /\ FileOK' /\ CtxUses(i)' = CtxUses(i)
           /\ ~Unmapping(i)' /\ ~MappingOf(i)' /\ over' = over
           /\ \A j \in Maps \ {i} : SameUse(j)
<1>1. ContextsOK' /\ \A j \in Maps : CtxUses(j)' = CtxUses(j)
  BY SameContexts
<1>2. FileOK'
  BY DEF MmapInv, FileOK
<1>3. /\ ~Unmapping(i)' /\ ~MappingOf(i)'
      /\ \A j \in Maps \ {i} : SameUse(j)
  BY <1>1 DEF Unmapping, MappingOf, SameUse
<1> QED
  BY <1>1, <1>2, <1>3

\* The end of a mmap or mem_map the back end has carried out keeps MmapInv.
LEMMA MapDoneStep ==
    ASSUME MmapInv, NEW i \in Maps, MapDone(i)
    PROVE  MmapInv'
<1>a. /\ MapsOK(State) /\ State.mem = mem /\ State.maps = maps
      /\ mem \in [Maps -> SoundRecs \cup {NULL}]
  BY DEF MmapInv, MapsOK, StateRecs, State
<1>1. /\ op # NULL /\ op.kind \in MapKinds /\ op.map = i /\ op' = NULL
      /\ UNCHANGED <<maps, ctx, file, abnormal, over>>
  BY DEF MapDone
<1>2. /\ ContextsOK' /\ FileOK' /\ CtxUses(i)' = CtxUses(i)
      /\ ~Unmapping(i)' /\ ~MappingOf(i)' /\ over' = over
      /\ \A j \in Maps \ {i} : SameUse(j)
  BY <1>1, OpEnds
<1>3. MappingOf(i) /\ ~Unmapping(i)
  BY <1>1 DEF MappingOf, Unmapping, MapKinds, UnmapKinds
<1>4. Counted(State, i, CtxUses(i), Unmapping(i), MappingOf(i), over)
  BY DEF MmapInv
<1>5. CASE i \in Allocated
  <2> DEFINE p == [mem[i] EXCEPT !.raddr = TRUE]
             n == mem[i].owed + 1
             q == [p EXCEPT !.owed = n]
             N == With(State, i, q)
  <2>1. mem[i] \in SoundRecs /\ mem[i] # NULL
    BY <1>a, <1>5 DEF Allocated
  <2>2. /\ q \in SoundRecs /\ q.refs = mem[i].refs /\ q.ctx_refs = mem[i].ctx_refs
        /\ q.table = mem[i].table /\ Own(q) = Own(mem[i]) + 1
        /\ Own(mem[i]) \in Nat /\ mem[i].ctx_refs \in Nat
    <3>1. /\ p \in SoundRecs /\ p.refs = mem[i].refs /\ p.ctx_refs = mem[i].ctx_refs
          /\ p.table = mem[i].table /\ p.owed = mem[i].owed /\ p.missing = mem[i].missing
      BY <2>1, RaddrSet
    <3> HIDE DEF p
    <3>2. n \in Nat /\ p.missing <= n /\ n - p.missing = Own(mem[i]) + 1
      BY SMT, <2>1, <3>1, CountersAre DEF Own
    <3> HIDE DEF n
    <3>3. /\ q \in SoundRecs /\ q.refs = p.refs /\ q.ctx_refs = p.ctx_refs
          /\ q.table = p.table /\ Own(q) = n - p.missing
      BY <3>1, <3>2, OwedSet
    <3> HIDE DEF q
    <3> QED
      BY <2>1, <3>1, <3>2, <3>3, CountersAre
  <2>3. mem' = [mem EXCEPT ![i] = q]
    BY <1>5 DEF MapDone
  <2> HIDE DEF q
  <2>4. Becomes(N)
    BY <1>1, <2>3 DEF Becomes, With, State
  <2> HIDE DEF N
  <2>5. Rewritten(State, N, i, q)
    BY <1>a, <2>2, Replaced DEF N
  <2>6. Counted(N, i, CtxUses(i)', Unmapping(i)', MappingOf(i)', over')
    <3>1. /\ N.mem[i] = q /\ q # NULL /\ N.maps = maps /\ N.abnormal = State.abnormal
      BY <1>a, <2>5 DEF Rewritten
    <3>2. q.ctx_refs = Cardinality(CtxUses(i))
      BY <1>a, <1>4, <2>1, <2>2 DEF Counted
    <3>3. ~over => q.refs = q.ctx_refs + Own(q)
      BY SMTT(30), <1>a, <1>3, <1>4, <2>1, <2>2 DEF Counted
    <3>4. ~State.abnormal /\ q.table => OnList(maps, i)
      BY <1>a, <1>3, <1>4, <2>1, <2>2 DEF Counted
    <3>5. q.ctx_refs + Own(q) \in Nat
      BY SMT, <2>2
    <3> QED
      BY SMTT(30), <1>2, <3>1, <3>2, <3>3, <3>4, <3>5 DEF Counted
  <2>7. Touches(State, N, i)
    BY <2>5 DEF Rewritten
  <2> QED
    BY <1>2, <2>4, <2>6, <2>7, OneMap
<1>6. CASE i \notin Allocated
  <2>1. mem' = mem
    BY <1>6 DEF MapDone
  <2>2. mem[i] = NULL
    BY <1>6 DEF Allocated
  <2>3. Counted(State, i, CtxUses(i)', Unmapping(i)', MappingOf(i)', over')
    BY <1>a, <1>2, <1>4, <2>2 DEF Counted
  <2>4. Becomes(State) /\ Touches(State, State, i)
    BY <1>a, <1>1, <2>1 DEF Becomes, State, Touches, Untouched
  <2> QED
    BY <1>2, <2>3, <2>4, OneMap
<1> QED
  BY <1>5, <1>6

\* vfastrpc_mmap_free on a map without references changes no map.
LEMMA Warned ==
    ASSUME NEW M, MapsOK(M), NEW i, NEW N, N = [M EXCEPT !.abnormal = TRUE]
    PROVE  N.mem = M.mem /\ N.maps = M.maps /\ N.abnormal /\ Touches(M, N, i)
<1>1. N.mem = M.mem /\ N.maps = M.maps /\ N.abnormal
  BY DEF MapsOK, StateRecs
<1>2. N \in StateRecs
  BY DEF MapsOK, StateRecs
<1>3. MapsOK(N)
  BY SMT, <1>1, <1>2 DEF MapsOK
<1> QED
  BY <1>1, <1>3 DEF Touches, Untouched

\* The error path of mmap and mem_map, which frees the map, keeps MmapInv.
LEMMA MapFailsStep ==
    ASSUME MmapInv, NEW i \in Maps, MapFails(i)
    PROVE  MmapInv'
<1>a. /\ MapsOK(State) /\ State.mem = mem /\ State.maps = maps
      /\ mem \in [Maps -> SoundRecs \cup {NULL}]
  BY DEF MmapInv, MapsOK, StateRecs, State
<1>1. /\ op # NULL /\ op.kind \in MapKinds /\ op.map = i /\ op' = NULL
      /\ UNCHANGED <<ctx, file, over>>
  BY DEF MapFails, MapRefused
<1>2. /\ ContextsOK' /\ FileOK' /\ CtxUses(i)' = CtxUses(i)
      /\ ~Unmapping(i)' /\ ~MappingOf(i)' /\ over' = over
      /\ \A j \in Maps \ {i} : SameUse(j)
  BY <1>1, OpEnds
<1>3. MappingOf(i) /\ ~Unmapping(i)
  BY <1>1 DEF MappingOf, Unmapping, MapKinds, UnmapKinds
<1>4. Counted(State, i, CtxUses(i), Unmapping(i), MappingOf(i), over)
  BY DEF MmapInv
<1>5. CASE i \in Allocated
  <2> DEFINE N == MmapFree(State, i, FALSE)
  <2>1. mem[i] \in SoundRecs /\ mem[i] # NULL
    BY <1>a, <1>5 DEF Allocated
  <2>2. Freeable(State, i, FALSE, CtxUses(i), FALSE, over)
    <3>1. mem[i].refs \in Nat /\ mem[i].ctx_refs \in Nat /\ Own(mem[i]) \in Nat
      BY <2>1, CountersAre
    <3> QED
      BY SMT, <1>a, <1>3, <1>4, <2>1, <3>1 DEF Counted, Freeable
  <2>3. Becomes(N)
    BY <1>5 DEF MapFails
  <2>4. Touches(State, N, i) /\ Counted(N, i, CtxUses(i), FALSE, FALSE, over)
    <3>1. IsFiniteSet(CtxUses(i))
      BY UsesFinite
    <3> QED
      BY <1>a, <2>2, <3>1, FreeKeeps
  <2> HIDE DEF N
  <2>5. Counted(N, i, CtxUses(i)', Unmapping(i)', MappingOf(i)', over')
    BY <1>2, <2>4 DEF Counted
  <2> QED
    BY <1>2, <2>3, <2>4, <2>5, OneMap
<1>6. CASE i \notin Allocated
  <2> DEFINE N == [State EXCEPT !.abnormal = TRUE]
  <2>1. Becomes(N)
    BY <1>6 DEF MapFails
  <2>2. mem[i] = NULL
    BY <1>6 DEF Allocated
  <2>3. N.mem = mem /\ N.maps = maps /\ N.abnormal /\ Touches(State, N, i)
    BY <1>a, Warned
  <2> HIDE DEF N
  <2>5. Counted(N, i, CtxUses(i)', Unmapping(i)', MappingOf(i)', over')
    BY <1>a, <1>2, <1>4, <2>2, <2>3 DEF Counted
  <2> QED
    BY <1>2, <2>1, <2>3, <2>5, OneMap
<1> QED
  BY <1>5, <1>6

\* A map is taken off the list.
Off(M, i, q) ==
    [mem |-> [M.mem EXCEPT ![i] = q], maps |-> Unlinked(M.maps, i),
     abnormal |-> M.abnormal]

\* A map is off the list after hlist_del_init, and the others are as they were.
LEMMA OffList ==
    ASSUME NEW M, MapsOK(M), NEW i \in Maps, NEW q \in SoundRecs,
           NEW N, N = Off(M, i, q)
    PROVE  /\ Touches(M, N, i) /\ ~OnList(N.maps, i)
           /\ N.mem[i] = q /\ q # NULL /\ N.abnormal = M.abnormal
<1>a. /\ M.mem \in [Maps -> SoundRecs \cup {NULL}] /\ M.maps \in Seq(Maps)
      /\ M.abnormal \in BOOLEAN /\ q # NULL
  BY NullIsNone DEF MapsOK, StateRecs
<1> DEFINE s == Unlinked(M.maps, i)
<1>1. /\ N.mem = [M.mem EXCEPT ![i] = q] /\ N.maps = s /\ N.abnormal = M.abnormal
  BY DEF Off
<1>2. /\ s \in Seq(Maps) /\ \A j, k \in 1 .. Len(s) : s[j] = s[k] => j = k
      /\ \A m : OnList(s, m) <=> OnList(M.maps, m) /\ m # i
  BY <1>a, UnlinkedList DEF MapsOK
<1> HIDE DEF s
<1>3. ASSUME NEW k \in 1 .. Len(s) PROVE N.mem[s[k]] # NULL
  <2>1. OnList(s, s[k])
    BY DEF OnList
  <2>2. PICK l \in 1 .. Len(M.maps) : M.maps[l] = s[k]
    BY <1>2, <2>1 DEF OnList
  <2>3. M.mem[s[k]] # NULL /\ s[k] \in Maps
    BY SMT, <1>a, <2>2 DEF MapsOK
  <2> QED
    BY <1>a, <1>1, <2>3
<1>4. MapsOK(N)
  <2>1. N.mem \in [Maps -> SoundRecs \cup {NULL}]
    BY <1>a, <1>1
  <2>2. N \in StateRecs
    BY <1>a, <1>1, <1>2, <2>1 DEF StateRecs, Off, s
  <2> QED
    BY <1>1, <1>2, <1>3, <2>2 DEF MapsOK
<1>5. \A j \in Maps \ {i} : Untouched(M, N, j)
  BY <1>a, <1>1, <1>2 DEF Untouched
<1> QED
  BY <1>a, <1>1, <1>2, <1>4, <1>5 DEF Touches

\* munmap and mem_unmap take the last reference to a map off the list: MmapInv
\* is kept.
LEMMA UnmapBeginStep ==
    ASSUME MmapInv, NEW kind \in UnmapKinds, NEW i \in Maps, UnmapBegin(kind, i)
    PROVE  MmapInv'
<1>a. /\ MapsOK(State) /\ State.mem = mem /\ State.maps = maps
      /\ State.abnormal = abnormal /\ mem \in [Maps -> SoundRecs \cup {NULL}]
  BY DEF MmapInv, MapsOK, StateRecs, State
<1>1. /\ op = NULL /\ op' = [kind |-> kind, map |-> i] /\ file = "open"
      /\ UNCHANGED <<ctx, file, abnormal, over>>
      /\ OnList(maps, i) /\ Removable(i) /\ maps' = Unlinked(maps, i)
  BY DEF UnmapBegin
<1>2. ContextsOK' /\ \A j \in Maps : CtxUses(j)' = CtxUses(j)
  BY <1>1, SameContexts
<1>3. op' \in Ops /\ op' # NULL
  BY SMT, <1>1, NullIsNone DEF Ops
<1>4. FileOK'
  BY <1>1, <1>3 DEF MmapInv, FileOK
<1>5. /\ Unmapping(i)' /\ ~MappingOf(i)' /\ ~MappingOf(i)
      /\ \A j \in Maps \ {i} : SameUse(j)
  BY <1>1, <1>2, <1>3 DEF Unmapping, MappingOf, SameUse, MapKinds, UnmapKinds
<1>6. mem[i] \in SoundRecs /\ mem[i] # NULL
  <2>1. PICK k \in 1 .. Len(maps) : maps[k] = i
    BY <1>1 DEF OnList
  <2> QED
    BY <2>1, ListedMap
<1>7. Counted(State, i, CtxUses(i), Unmapping(i), MappingOf(i), over)
  BY DEF MmapInv
<1> DEFINE owed == IF mem[i].owed > mem[i].missing THEN mem[i].owed - 1 ELSE mem[i].owed
           p == [mem[i] EXCEPT !.refs = mem[i].refs - 1]
           q == IF mem[i].keep THEN [p EXCEPT !.owed = owed] ELSE mem[i]
           N == Off(State, i, q)
<1>b. mem[i].refs \in Nat /\ Own(mem[i]) \in Nat /\ mem[i].ctx_refs \in Nat
  BY <1>6, CountersAre
<1>c. /\ mem[i].ctx_refs = 0
      /\ mem[i].refs = 1 \/ (mem[i].refs = 2 /\ mem[i].keep)
  BY <1>1 DEF Removable
<1>8. /\ q \in SoundRecs /\ q.ctx_refs = mem[i].ctx_refs
      /\ q.refs = IF mem[i].keep THEN mem[i].refs - 1 ELSE mem[i].refs
      /\ Own(q) = IF mem[i].keep /\ Own(mem[i]) > 0 THEN Own(mem[i]) - 1 ELSE Own(mem[i])
  <2>1. CASE mem[i].keep
    <3>1. /\ p \in SoundRecs /\ p.refs = mem[i].refs - 1 /\ p.ctx_refs = mem[i].ctx_refs
          /\ p.owed = mem[i].owed /\ p.missing = mem[i].missing
      <4>1. mem[i].refs - 1 \in Nat
        BY SMT, <1>c
      <4> QED
        BY <1>6, <4>1, RefsSet
    <3>2. q = [p EXCEPT !.owed = owed]
      BY <2>1
    <3>3. /\ owed \in Nat /\ mem[i].missing <= owed
          /\ owed - mem[i].missing = IF Own(mem[i]) > 0 THEN Own(mem[i]) - 1 ELSE Own(mem[i])
      BY SMT, <1>6, CountersAre DEF Own
    <3> HIDE DEF p, q, owed
    <3>4. /\ q \in SoundRecs /\ q.refs = p.refs /\ q.ctx_refs = p.ctx_refs
          /\ Own(q) = owed - mem[i].missing
      BY <3>1, <3>2, <3>3, OwedSet
    <3> QED
      BY <2>1, <3>1, <3>3, <3>4
  <2>2. CASE ~mem[i].keep
    BY <1>6, <2>2
  <2> QED
    BY <2>1, <2>2
<1>9. mem' = [mem EXCEPT ![i] = q]
  <2>1. CASE mem[i].keep
    BY <2>1 DEF UnmapBegin
  <2>2. CASE ~mem[i].keep
    <3>1. mem' = mem
      BY <2>2 DEF UnmapBegin
    <3> QED
      BY <1>a, <2>2, <3>1
  <2> QED
    BY <2>1, <2>2
<1> HIDE DEF p, q
<1>10. Becomes(N)
  BY <1>a, <1>1, <1>9 DEF Becomes, Off
<1> HIDE DEF N
<1>11. /\ Touches(State, N, i) /\ ~OnList(N.maps, i)
       /\ N.mem[i] = q /\ q # NULL /\ N.abnormal = State.abnormal
  <2>1. q \in SoundRecs
    BY <1>8
  <2> QED
    BY SMT, <1>a, <2>1, OffList DEF N
<1>12. CtxUses(i) = {}
  <2>1. Cardinality(CtxUses(i)) = 0
    BY <1>a, <1>6, <1>7, <1>c DEF Counted
  <2> QED
    BY <2>1, UsesFinite, FS_EmptySet
<1>13. Counted(N, i, CtxUses(i)', Unmapping(i)', MappingOf(i)', over')
  <2>1. CtxUses(i)' = {} /\ Cardinality({}) = 0 /\ over' = over
    BY <1>1, <1>2, <1>12, FS_EmptySet
  <2>2. q.refs <= 1 /\ q.ctx_refs = 0
    BY SMT, <1>b, <1>c, <1>8
  <2>3. ~over => q.refs = q.ctx_refs + Own(q) /\ Own(q) \in Nat
    <3>1. ~over => mem[i].refs = Own(mem[i])
      BY SMTT(30), <1>a, <1>5, <1>6, <1>7, <1>b, <1>c DEF Counted
    <3> QED
      BY SMTT(30), <1>b, <1>c, <1>8, <3>1
  <2> QED
    BY SMT, <1>5, <1>11, <2>1, <2>2, <2>3 DEF Counted
<1> QED
  BY <1>1, <1>2, <1>4, <1>5, <1>10, <1>11, <1>13, OneMap

\* The end of munmap and mem_unmap, which frees the map, keeps MmapInv.
LEMMA UnmapDoneStep ==
    ASSUME MmapInv, NEW i \in Maps, UnmapDone(i)
    PROVE  MmapInv'
<1>a. /\ MapsOK(State) /\ State.mem = mem /\ State.maps = maps
      /\ mem \in [Maps -> SoundRecs \cup {NULL}]
  BY DEF MmapInv, MapsOK, StateRecs, State
<1>1. /\ op # NULL /\ op.kind \in UnmapKinds /\ op.map = i /\ op' = NULL
      /\ UNCHANGED <<ctx, file, over>>
  BY DEF UnmapDone
<1>2. /\ ContextsOK' /\ FileOK' /\ CtxUses(i)' = CtxUses(i)
      /\ ~Unmapping(i)' /\ ~MappingOf(i)' /\ over' = over
      /\ \A j \in Maps \ {i} : SameUse(j)
  BY <1>1, OpEnds
<1>3. Unmapping(i) /\ ~MappingOf(i)
  BY <1>1 DEF MappingOf, Unmapping, MapKinds, UnmapKinds
<1>4. Counted(State, i, CtxUses(i), Unmapping(i), MappingOf(i), over)
  BY DEF MmapInv
<1> DEFINE N == MmapFree(State, i, FALSE)
<1>5. mem[i] \in SoundRecs /\ mem[i] # NULL
  BY <1>a, <1>3, <1>4 DEF Counted
<1>6. Freeable(State, i, FALSE, CtxUses(i), TRUE, over)
  <2>1. mem[i].refs \in Nat /\ mem[i].ctx_refs \in Nat /\ Own(mem[i]) \in Nat
    BY <1>5, CountersAre
  <2>2. mem[i].ctx_refs = 0
    BY <1>a, <1>3, <1>4, <1>5, FS_EmptySet DEF Counted
  <2> QED
    BY SMTT(30), <1>a, <1>3, <1>4, <1>5, <2>1, <2>2 DEF Counted, Freeable
<1>7. Becomes(N)
  BY DEF UnmapDone
<1>8. Touches(State, N, i) /\ Counted(N, i, CtxUses(i), FALSE, FALSE, over)
  <2>1. IsFiniteSet(CtxUses(i))
    BY UsesFinite
  <2> QED
    BY <1>a, <1>6, <2>1, FreeKeeps
<1> HIDE DEF N
<1>9. Counted(N, i, CtxUses(i)', Unmapping(i)', MappingOf(i)', over')
  BY <1>2, <1>8 DEF Counted
<1> QED
  BY <1>2, <1>7, <1>8, <1>9, OneMap

\* The error path of munmap and mem_unmap, which lists the map again, keeps
\* MmapInv.
LEMMA UnmapFailsStep ==
    ASSUME MmapInv, NEW i \in Maps, UnmapFails(i)
    PROVE  MmapInv'
<1>a. /\ MapsOK(State) /\ State.mem = mem /\ State.maps = maps
      /\ State.abnormal = abnormal /\ mem \in [Maps -> SoundRecs \cup {NULL}]
  BY DEF MmapInv, MapsOK, StateRecs, State
<1>1. /\ op # NULL /\ op.kind \in UnmapKinds /\ op.map = i /\ op' = NULL
      /\ UNCHANGED <<ctx, file, abnormal, over>> /\ maps' = <<i>> \o maps
  BY DEF UnmapFails
<1>2. /\ ContextsOK' /\ FileOK' /\ CtxUses(i)' = CtxUses(i)
      /\ ~Unmapping(i)' /\ ~MappingOf(i)' /\ over' = over
      /\ \A j \in Maps \ {i} : SameUse(j)
  BY <1>1, OpEnds
<1>3. Unmapping(i) /\ ~MappingOf(i)
  BY <1>1 DEF MappingOf, Unmapping, MapKinds, UnmapKinds
<1>4. Counted(State, i, CtxUses(i), Unmapping(i), MappingOf(i), over)
  BY DEF MmapInv
<1>5. mem[i] \in SoundRecs /\ mem[i] # NULL /\ ~OnList(maps, i)
  BY <1>a, <1>3, <1>4 DEF Counted
<1>b. mem[i].refs \in Nat /\ Own(mem[i]) \in Nat /\ mem[i].ctx_refs \in Nat
  BY <1>5, CountersAre
<1>6. PICK q \in SoundRecs :
        /\ mem' = [mem EXCEPT ![i] = q] /\ q.ctx_refs = mem[i].ctx_refs
        /\ \/ q.refs = mem[i].refs /\ Own(q) = Own(mem[i])
           \/ q.refs = mem[i].refs + 1 /\ Own(q) = Own(mem[i]) + 1
  <2>0. mem[i].owed + 1 \in Nat
    BY SMT, <1>5, CountersAre
  <2>1. CASE op.kind = "mem_unmap" /\ mem[i].keep
    <3> DEFINE p == [mem[i] EXCEPT !.refs = mem[i].refs + 1]
               n == mem[i].owed + 1
               q == [p EXCEPT !.owed = n]
    <3>1. mem' = [mem EXCEPT ![i] = q]
      BY <2>1 DEF UnmapFails
    <3>2. /\ p \in SoundRecs /\ p.refs = mem[i].refs + 1 /\ p.ctx_refs = mem[i].ctx_refs
          /\ p.owed = mem[i].owed /\ p.missing = mem[i].missing
      <4>1. mem[i].refs + 1 \in Nat
        BY SMT, <1>b
      <4> QED
        BY <1>5, <4>1, RefsSet
    <3> HIDE DEF p
    <3>3. n \in Nat /\ p.missing <= n /\ n - p.missing = Own(mem[i]) + 1
      BY SMT, <1>5, <3>2, CountersAre DEF Own
    <3> HIDE DEF n
    <3>4. /\ q \in SoundRecs /\ q.refs = p.refs /\ q.ctx_refs = p.ctx_refs
          /\ Own(q) = n - p.missing
      BY <3>2, <3>3, OwedSet
    <3> HIDE DEF q
    <3> QED
      BY <3>1, <3>2, <3>3, <3>4
  <2>3. CASE op.kind # "mem_unmap" /\ mem[i].keep
    <3> DEFINE p == [mem[i] EXCEPT !.missing = mem[i].missing + 1]
               q == [p EXCEPT !.owed = mem[i].owed + 1]
    <3>1. mem' = [mem EXCEPT ![i] = q]
      BY <2>3 DEF UnmapFails
    <3>2. /\ p \in MapRecs /\ p.refs = mem[i].refs /\ p.ctx_refs = mem[i].ctx_refs
          /\ p.missing = mem[i].missing + 1
      BY SMT, <1>5 DEF SoundRecs, MapRecs
    <3> HIDE DEF p
    <3>3. /\ q \in MapRecs /\ q.refs = p.refs /\ q.ctx_refs = p.ctx_refs
          /\ q.missing = p.missing /\ q.owed = mem[i].owed + 1
      BY SMT, <2>0, <3>2 DEF MapRecs
    <3> HIDE DEF q
    <3>4. q \in SoundRecs /\ Own(q) = Own(mem[i])
      BY SMT, <1>5, <3>2, <3>3, CountersAre DEF SoundRecs, Own
    <3> QED
      BY <3>1, <3>2, <3>3, <3>4
  <2>2. CASE ~mem[i].keep
    <3>1. mem' = mem
      BY <2>2 DEF UnmapFails
    <3>2. mem' = [mem EXCEPT ![i] = mem[i]]
      BY <1>a, <3>1
    <3> QED
      BY <1>5, <3>2
  <2> QED
    BY <2>1, <2>2, <2>3
<1> DEFINE N == Linked(State, i, q)
<1>7. Becomes(N)
  BY <1>a, <1>1, <1>6 DEF Becomes, Linked
<1> HIDE DEF N
<1>8. /\ Touches(State, N, i) /\ OnList(N.maps, i)
      /\ N.mem[i] = q /\ q # NULL /\ N.abnormal = State.abnormal
  BY SMT, <1>a, <1>5, LinkedMap DEF N
<1>9. Counted(N, i, CtxUses(i)', Unmapping(i)', MappingOf(i)', over')
  <2>1. q.ctx_refs = Cardinality(CtxUses(i))
    BY <1>a, <1>4, <1>5, <1>6 DEF Counted
  <2>2. ~over => mem[i].refs = mem[i].ctx_refs + Own(mem[i])
    BY SMTT(30), <1>a, <1>3, <1>4, <1>5, <1>b DEF Counted
  <2>3. ~over => q.refs = q.ctx_refs + Own(q) + 0
    BY SMT, <1>6, <1>b, <2>2
  <2> QED
    BY <1>2, <1>8, <2>1, <2>3 DEF Counted
<1> QED
  BY <1>2, <1>7, <1>8, <1>9, OneMap

\* The loop of vfastrpc_file_free that frees the maps keeps MmapInv.
LEMMA FreeMapsStep ==
    ASSUME MmapInv, FreeMaps
    PROVE  MmapInv'
<1>a. /\ MapsOK(State) /\ State.mem = mem /\ State.maps = maps
      /\ maps \in Seq(Maps) /\ mem \in [Maps -> SoundRecs \cup {NULL}]
  BY DEF MmapInv, MapsOK, StateRecs, State
<1>1. file = "maps" /\ UNCHANGED <<ctx, op, over>> /\ op = NULL
  BY DEF FreeMaps, MmapInv, FileOK
<1>2. ContextsOK' /\ \A j \in Maps : CtxUses(j)' = CtxUses(j)
  BY <1>1, SameContexts
<1>3. \A j \in Maps : SameUse(j)
  BY <1>1, <1>2 DEF SameUse, Unmapping, MappingOf
<1>4. CASE maps = <<>> /\ file' = "closed" /\ UNCHANGED <<mem, maps, abnormal>>
  <2>1. FileOK'
    BY <1>1, <1>4 DEF MmapInv, FileOK
  <2> QED
    BY <1>1, <1>2, <1>3, <1>4, <2>1, SameMaps DEF SameUse
<1>5. CASE /\ maps # <<>> /\ Becomes(MmapFree(State, Head(maps), TRUE))
           /\ UNCHANGED file
  <2>1. 1 \in 1 .. Len(maps) /\ Head(maps) = maps[1]
    BY SMT, <1>a, <1>5
  <2>2. PICK i \in Maps : i = maps[1] /\ mem[i] \in SoundRecs /\ mem[i] # NULL
    BY <2>1, ListedMap
  <2> DEFINE N == MmapFree(State, i, TRUE)
  <2>3. Becomes(N)
    BY <1>5, <2>1, <2>2
  <2>4. CtxUses(i) = {}
    BY SMT, <1>1 DEF MmapInv, FileOK, ContextsOK, CtxUses, Uses
  <2>5. ~Unmapping(i) /\ ~MappingOf(i) /\ ~Unmapping(i)' /\ ~MappingOf(i)'
    BY <1>1 DEF Unmapping, MappingOf
  <2>6. Counted(State, i, CtxUses(i), Unmapping(i), MappingOf(i), over)
    BY DEF MmapInv
  <2>7. Freeable(State, i, TRUE, CtxUses(i), FALSE, over)
    <3>1. mem[i].refs \in Nat /\ mem[i].ctx_refs \in Nat /\ Own(mem[i]) \in Nat
      BY <2>2, CountersAre
    <3> QED
      BY SMTT(30), <1>a, <2>2, <2>4, <2>5, <2>6, <3>1 DEF Counted, Freeable
  <2>8. Touches(State, N, i) /\ Counted(N, i, CtxUses(i), FALSE, FALSE, over)
    <3>1. IsFiniteSet(CtxUses(i))
      BY UsesFinite
    <3> QED
      BY <1>a, <2>2, <2>7, <3>1, FreeKeeps
  <2> HIDE DEF N
  <2>9. Counted(N, i, CtxUses(i)', Unmapping(i)', MappingOf(i)', over')
    BY <1>1, <1>2, <2>2, <2>5, <2>8 DEF Counted
  <2>10. FileOK'
    BY <1>1, <1>5 DEF MmapInv, FileOK
  <2> QED
    BY <1>1, <1>2, <1>3, <2>2, <2>3, <2>8, <2>9, <2>10, OneMap
<1> QED
  BY <1>4, <1>5 DEF FreeMaps

\* munmap_fd, which frees the maps kept for a descriptor, keeps MmapInv.
LEMMA MunmapFdStep ==
    ASSUME MmapInv, NEW fd \in Fds, MunmapFd(fd)
    PROVE  MmapInv'
<1>a. MapsOK(State) /\ over \in BOOLEAN /\ maps \in Seq(Maps)
  BY DEF MmapInv, MapsOK, StateRecs, State, FileOK
<1>1. /\ op = NULL /\ op' = [kind |-> "munmap_fd", map |-> NULL] /\ file = "open"
      /\ UNCHANGED <<ctx, file>> /\ Becomes(RemoveFd(State, fd))
      /\ over' = (over \/ \E i \in Range(maps) :
                    Kept(fd, i) /\ mem[i].refs > 0 /\ mem[i].owed = mem[i].missing)
  BY DEF MunmapFd
<1>2. PICK o \in BOOLEAN : o = over'
  BY <1>a, <1>1
<1>3. ContextsOK' /\ \A j \in Maps : CtxUses(j)' = CtxUses(j)
  BY <1>1, SameContexts
<1>4. op' \in Ops /\ op' # NULL /\ op'.kind = "munmap_fd"
  BY SMT, <1>1, NullIsNone DEF Ops
<1>5. FileOK'
  BY <1>1, <1>2, <1>4 DEF MmapInv, FileOK
<1>6. \A i \in Maps : /\ ~Unmapping(i) /\ ~MappingOf(i)
                      /\ ~Unmapping(i)' /\ ~MappingOf(i)'
  BY <1>1, <1>4 DEF Unmapping, MappingOf, MapKinds, UnmapKinds
<1>7. ASSUME NEW i \in Maps PROVE Counted(State, i, CtxUses(i), FALSE, FALSE, o)
  <2>1. Counted(State, i, CtxUses(i), Unmapping(i), MappingOf(i), over)
    BY DEF MmapInv
  <2>2. ~Unmapping(i) /\ ~MappingOf(i) /\ (~o => ~over)
    BY <1>1, <1>2, <1>6
  <2> QED
    BY <2>1, <2>2 DEF Counted
<1>8. ASSUME NEW k \in 1 .. Len(maps), Taken(fd, maps[k]) PROVE o
  <2>1. maps[k] \in Range(maps)
    BY SMT, <1>a DEF Range
  <2> QED
    BY <1>1, <1>2, <1>8, <2>1 DEF Taken
<1> DEFINE N == RemoveFd(State, fd)
<1>9. FdFreeOK(N, Len(maps), o)
  BY <1>a, <1>7, <1>8, RemoveFdKeeps
<1> HIDE DEF N
<1>10. State' = N
  BY <1>1, <1>9, BecomesIs DEF FdFreeOK, N
<1>11. Good(N)
  <2>1. ASSUME NEW i \in Maps
        PROVE  Counted(N, i, CtxUses(i)', Unmapping(i)', MappingOf(i)', over')
    <3>1. Counted(N, i, CtxUses(i), FALSE, FALSE, o)
      BY <1>9 DEF FdFreeOK
    <3>2. CtxUses(i)' = CtxUses(i) /\ ~Unmapping(i)' /\ ~MappingOf(i)' /\ over' = o
      BY <1>2, <1>3, <1>6
    <3> QED
      BY <3>1, <3>2 DEF Counted
  <2> QED
    BY <1>9, <2>1 DEF Good, FdFreeOK
<1> QED
  BY <1>3, <1>5, <1>10, <1>11, Reached

\* context_free, which drops the references the context still has, keeps
\* MmapInv.
LEMMA ContextFreeStep ==
    ASSUME MmapInv, NEW c \in Ctxs, ContextFree(c)
    PROVE  MmapInv'
<1>a. ContextsOK /\ FileOK
  BY DEF MmapInv
<1>1. /\ Becomes(CtxPutAll(State, ctx[c].args)) /\ UNCHANGED <<op, file, over>>
      /\ ctx' = [ctx EXCEPT ![c] = [st |-> "idle", args |-> <<>>]]
      /\ ctx[c].st # "idle"
  BY DEF ContextFree
<1>2. PICK N, n : N = CtxPutAll(State, ctx[c].args) /\ n = Len(ctx[c].args)
  OBVIOUS
<1>3. PutOK(N, c, n)
  BY <1>2, PutAllKeeps
<1>4. State' = N
  BY <1>1, <1>2, <1>3, BecomesIs DEF PutOK
<1>5. /\ ctx' \in [Ctxs -> [st: CtxStates, args: Seq(Args \cup {NULL})]]
      /\ ctx'[c].args = <<>> /\ ctx'[c].st = "idle"
      /\ \A d \in Ctxs : d # c => ctx'[d] = ctx[d]
  BY SMT, <1>a, <1>1 DEF ContextsOK, CtxStates
<1>6. ContextsOK'
  BY SMT, <1>a, <1>5, MmapAssumption DEF ContextsOK
<1>7. ASSUME NEW i \in Maps PROVE CtxUses(i)' = Left(c, n, i)
  <2>1. ASSUME NEW d \in Ctxs, NEW k \in 1 .. MaxArgs
        PROVE  <<d, k>> \in CtxUses(i)' <=> <<d, k>> \in Left(c, n, i)
    <3>1. CASE d = c
      <4>1. <<d, k>> \notin CtxUses(i)'
        BY SMT, <1>5, <3>1 DEF CtxUses, Uses
      <4>2. <<d, k>> \in CtxUses(i) => k \in 1 .. n
        BY SMT, <1>2, <3>1, <1>a DEF CtxUses, Uses, ContextsOK
      <4> QED
        BY <3>1, <4>1, <4>2 DEF Left
    <3>2. CASE d # c
      <4>1. <<d, k>> \in CtxUses(i)' <=> <<d, k>> \in CtxUses(i)
        BY <1>5, <3>2 DEF CtxUses, Uses
      <4> QED
        BY <3>2, <4>1 DEF Left
    <3> QED
      BY <3>1, <3>2
  <2>2. CtxUses(i)' \subseteq Ctxs \X (1 .. MaxArgs)
        /\ Left(c, n, i) \subseteq Ctxs \X (1 .. MaxArgs)
    BY DEF CtxUses, Uses, Left
  <2> QED
    BY SMT, <2>1, <2>2
<1>8. FileOK'
  BY <1>a, <1>1, <1>5 DEF FileOK
<1>9. Good(N)
  <2>1. ASSUME NEW i \in Maps
        PROVE  Counted(N, i, CtxUses(i)', Unmapping(i)', MappingOf(i)', over')
    <3>1. Counted(N, i, Left(c, n, i), Unmapping(i), MappingOf(i), over)
      BY <1>3 DEF PutOK
    <3>2. /\ CtxUses(i)' = Left(c, n, i) /\ over' = over
          /\ (Unmapping(i)' <=> Unmapping(i)) /\ (MappingOf(i)' <=> MappingOf(i))
      BY <1>1, <1>7 DEF Unmapping, MappingOf
    <3> QED
      BY <3>1, <3>2 DEF Counted
  <2> QED
    BY <1>3, <2>1 DEF Good, PutOK
<1> QED
  BY <1>4, <1>6, <1>8, <1>9, Reached

\* put_args clears ctx->maps[k] when it gives the reference back.
LEMMA CtxDrops ==
    ASSUME ContextsOK, NEW c \in Ctxs, NEW k \in 1 .. Len(ctx[c].args),
           ctx[c].st # "idle", ctx[c].args[k] # NULL,
           ctx' = [ctx EXCEPT ![c].args[k] = NULL]
    PROVE  /\ ContextsOK' /\ <<c, k>> \in CtxUses(ctx[c].args[k].map)
           /\ \A d \in Ctxs : ctx'[d].st = ctx[d].st
           /\ \A i \in Maps : CtxUses(i)' = CtxUses(i) \ {<<c, k>>}
           /\ \A i \in Maps : i # ctx[c].args[k].map => <<c, k>> \notin CtxUses(i)
<1> DEFINE s == ctx[c].args
           t == [s EXCEPT ![k] = NULL]
<1>a. /\ s \in Seq(Args \cup {NULL}) /\ Len(s) \in Nat /\ k \in 1 .. MaxArgs
      /\ Len(s) <= MaxArgs
  BY SMT, MmapAssumption DEF ContextsOK
<1>1. /\ t \in Seq(Args \cup {NULL}) /\ Len(t) = Len(s) /\ t[k] = NULL
      /\ \A l \in 1 .. Len(s) : l # k => t[l] = s[l]
  BY SMT, <1>a
<1>2. /\ ctx'[c].args = t /\ ctx'[c].st = ctx[c].st
      /\ \A d \in Ctxs : d # c => ctx'[d] = ctx[d]
      /\ ctx' = [ctx EXCEPT ![c] = [ctx[c] EXCEPT !.args = t]]
  BY DEF ContextsOK
<1> HIDE DEF t
<1>3. ctx' \in [Ctxs -> [st: CtxStates, args: Seq(Args \cup {NULL})]]
  <2> DEFINE S == Seq(Args \cup {NULL})
  <2>1. t \in S /\ ctx \in [Ctxs -> [st: CtxStates, args: S]]
    BY <1>1 DEF ContextsOK
  <2> HIDE DEF S
  <2>2. [ctx[c] EXCEPT !.args = t] \in [st: CtxStates, args: S]
    BY <2>1
  <2>3. ctx' \in [Ctxs -> [st: CtxStates, args: S]]
    BY <1>2, <2>1, <2>2
  <2> QED
    BY <2>3 DEF S
<1>4. ContextsOK'
  BY <1>a, <1>1, <1>2, <1>3 DEF ContextsOK
<1>5. ASSUME NEW i \in Maps PROVE CtxUses(i)' = CtxUses(i) \ {<<c, k>>}
  <2>1. ASSUME NEW d \in Ctxs, NEW l \in 1 .. MaxArgs
        PROVE  <<d, l>> \in CtxUses(i)' <=> <<d, l>> \in CtxUses(i) \ {<<c, k>>}
    <3>1. CASE d # c
      BY <1>2, <3>1 DEF CtxUses, Uses
    <3>2. CASE d = c /\ l = k
      BY <1>1, <1>2, <3>2 DEF CtxUses, Uses
    <3>3. CASE d = c /\ l # k
      <4>1. l <= Len(s) => t[l] = s[l]
        BY SMT, <1>a, <1>1, <3>3
      <4> QED
        BY <1>1, <1>2, <3>3, <4>1 DEF CtxUses, Uses
    <3> QED
      BY <3>1, <3>2, <3>3
  <2>2. CtxUses(i)' \subseteq Ctxs \X (1 .. MaxArgs)
        /\ CtxUses(i) \subseteq Ctxs \X (1 .. MaxArgs)
    BY DEF CtxUses, Uses
  <2> QED
    BY SMT, <2>1, <2>2
<1>6. <<c, k>> \in CtxUses(s[k].map)
  BY SMT, <1>a DEF CtxUses, Uses
<1>7. \A i \in Maps : i # s[k].map => <<c, k>> \notin CtxUses(i)
  BY DEF CtxUses, Uses
<1> QED
  BY <1>2, <1>4, <1>5, <1>6, <1>7

\* put_args, which drops the reference to an output buffer, keeps MmapInv.
LEMMA PutArgStep ==
    ASSUME MmapInv, NEW c \in Ctxs, PutArg(c)
    PROVE  MmapInv'
<1>a. ContextsOK /\ FileOK /\ MapsOK(State)
  BY DEF MmapInv
<1>1. UNCHANGED <<op, file, over>> /\ ctx[c].st = "put"
  BY DEF PutArg
<1>2. \A i \in Maps : (Unmapping(i)' <=> Unmapping(i)) /\ (MappingOf(i)' <=> MappingOf(i))
  BY <1>1 DEF Unmapping, MappingOf
<1> DEFINE args == ctx[c].args
           outs == {k \in DOMAIN args : args[k] # NULL /\ args[k].out}
<1>3. CASE ctx' = [ctx EXCEPT ![c].st = "free"] /\ UNCHANGED <<mem, maps, abnormal>>
  <2>1. ContextsOK' /\ \A i \in Maps : CtxUses(i)' = CtxUses(i)
    <3>1. "free" \in CtxStates \ {"idle"}
      BY DEF CtxStates
    <3> QED
      BY <1>a, <1>3, <3>1, CtxMoves
  <2>2. FileOK'
    BY <1>a, <1>1, <1>3 DEF FileOK
  <2> QED
    BY <1>1, <1>2, <1>3, <2>1, <2>2, SameMaps
<1>4. CASE /\ outs # {} /\ Becomes(CtxPut(State, args[Min(outs)].map))
           /\ ctx' = [ctx EXCEPT ![c].args[Min(outs)] = NULL]
  <2>1. args \in Seq(Args \cup {NULL}) /\ DOMAIN args = 1 .. Len(args)
    BY SMT, <1>a DEF ContextsOK
  <2>2. PICK k \in 1 .. Len(args) : k = Min(outs) /\ args[k] # NULL
    <3>1. outs \in SUBSET Nat
      BY SMT, <2>1
    <3>2. outs # {}
      BY <1>4
    <3>3. Min(outs) \in outs
      <4> HIDE DEF outs
      <4> QED
        BY <3>1, <3>2, MinIsIn
    <3> QED
      BY <2>1, <3>3
  <2>3. PICK i \in Maps : i = args[k].map
    <3> HIDE DEF outs
    <3>1. args[k] \in Args
      BY SMT, <2>1, <2>2
    <3> HIDE DEF args
    <3> QED
      BY <3>1 DEF Args
  <2>4. Becomes(CtxPut(State, i)) /\ ctx' = [ctx EXCEPT ![c].args[k] = NULL]
    <3> HIDE DEF outs
    <3> QED
      BY <1>4, <2>2, <2>3
  <2>5. /\ ContextsOK' /\ <<c, k>> \in CtxUses(i)
        /\ \A d \in Ctxs : ctx'[d].st = ctx[d].st
        /\ \A j \in Maps : CtxUses(j)' = CtxUses(j) \ {<<c, k>>}
        /\ \A j \in Maps : j # i => <<c, k>> \notin CtxUses(j)
    <3>1. ctx[c].st # "idle"
      BY <1>1
    <3> QED
      BY <1>a, <2>2, <2>3, <2>4, <3>1, CtxDrops
  <2> DEFINE N == CtxPut(State, i)
             u == <<c, k>>
             W == CtxUses(i)
  <2>6. Touches(State, N, i) /\ Counted(N, i, W \ {u}, Unmapping(i), MappingOf(i), over)
    <3>1. Counted(State, i, W, Unmapping(i), MappingOf(i), over)
      BY DEF MmapInv
    <3>2. IsFiniteSet(W) /\ u \in W /\ N = CtxPut(State, i)
      BY <2>5, UsesFinite
    <3> HIDE DEF N, u, W
    <3> QED
      BY <1>a, <3>1, <3>2, PutKeeps
  <2>7. Counted(N, i, CtxUses(i)', Unmapping(i)', MappingOf(i)', over')
    <3>1. CtxUses(i)' = W \ {u}
      BY <2>5
    <3> HIDE DEF N, u, W
    <3> QED
      BY <1>1, <1>2, <2>6, <3>1 DEF Counted
  <2>8. ASSUME NEW j \in Maps \ {i} PROVE SameUse(j)
    <3>1. CtxUses(j)' = CtxUses(j)
      BY <2>5
    <3> QED
      BY <1>2, <3>1 DEF SameUse
  <2>9. FileOK'
    BY <1>a, <1>1, <2>5 DEF FileOK
  <2>10. Becomes(N) /\ over' = over
    BY <1>1, <2>4
  <2> HIDE DEF N
  <2> QED
    BY <2>5, <2>6, <2>7, <2>8, <2>9, <2>10, OneMap
<1> QED
  <2> HIDE DEF outs
  <2> QED
    BY <1>3, <1>4 DEF PutArg, outs

-----------------------------------------------------------------------------
(***************************************************************************)
(* The theorems.                                                           *)
(***************************************************************************)

\* A file opens with no map.
LEMMA MmapInitOK == MmapInit => MmapInv
<1> SUFFICES ASSUME MmapInit PROVE MmapInv
  OBVIOUS
<1>1. /\ mem = [i \in Maps |-> NULL] /\ maps = <<>> /\ abnormal = FALSE
      /\ ctx = [c \in Ctxs |-> [st |-> "idle", args |-> <<>>]]
      /\ op = NULL /\ file = "open" /\ over = FALSE
  BY DEF MmapInit
<1>2. MapsOK(State)
  <2>1. mem \in [Maps -> SoundRecs \cup {NULL}]
    BY <1>1
  <2>2. maps = <<>> /\ abnormal \in BOOLEAN
    BY <1>1
  <2>3. maps \in Seq(Maps) /\ Len(maps) = 0
    BY SMT, <2>2
  <2>4. State \in StateRecs /\ State.maps = maps
    BY <2>1, <2>2, <2>3 DEF State, StateRecs
  <2> QED
    BY SMT, <2>3, <2>4 DEF MapsOK
<1>3. ContextsOK
  BY SMT, <1>1, MmapAssumption DEF ContextsOK, CtxStates
<1>4. FileOK
  BY <1>1 DEF FileOK
<1>5. ASSUME NEW i \in Maps
      PROVE  Counted(State, i, CtxUses(i), Unmapping(i), MappingOf(i), over)
  <2>1. CtxUses(i) = {}
    BY SMT, <1>1 DEF CtxUses, Uses
  <2>2. ~Unmapping(i) /\ ~MappingOf(i) /\ State.mem[i] = NULL
    BY <1>1 DEF Unmapping, MappingOf, State
  <2> QED
    BY <2>1, <2>2 DEF Counted
<1> QED
  BY <1>2, <1>3, <1>4, <1>5 DEF MmapInv

\* A step that changes no variable keeps MmapInv.
LEMMA MmapStutters ==
    ASSUME MmapInv, UNCHANGED vars
    PROVE  MmapInv'
<1>1. UNCHANGED <<mem, maps, ctx, op, file, abnormal, over>>
  BY DEF vars
<1>2. ContextsOK' /\ \A i \in Maps : CtxUses(i)' = CtxUses(i)
  BY <1>1, SameContexts
<1>3. FileOK'
  BY <1>1 DEF MmapInv, FileOK
<1>4. \A i \in Maps : (Unmapping(i)' <=> Unmapping(i))
                      /\ (MappingOf(i)' <=> MappingOf(i))
  BY <1>1 DEF Unmapping, MappingOf
<1> QED
  BY <1>1, <1>2, <1>3, <1>4, SameMaps

\* Every step of the ioctls on maps, of the invokes and of release keeps
\* MmapInv.
LEMMA MmapNextKeeps ==
    ASSUME MmapInv, [MmapNext]_vars
    PROVE  MmapInv'
<1>1. ASSUME NEW c \in Ctxs, Context(c) PROVE MmapInv'
  <2>1. ASSUME NEW fd \in Fds, NEW keep \in Keeps, NEW out \in BOOLEAN,
               GetArg(c, fd, keep, out)
        PROVE  MmapInv'
    BY <2>1, GetArgStep
  <2>2. ASSUME NEW fd \in Fds, NEW keep \in Keeps, GetArgFails(c, fd, keep)
        PROVE  MmapInv'
    BY <2>2, GetArgFailsStep
  <2>3. CASE Invoke(c) \/ Answered(c)
    BY <2>3, ContextGoesOn
  <2>4. CASE PutArg(c)
    BY <2>4, PutArgStep
  <2>5. CASE ContextFree(c)
    BY <2>5, ContextFreeStep
  <2> QED
    BY <1>1, <2>1, <2>2, <2>3, <2>4, <2>5 DEF Context
<1>2. ASSUME Mapping PROVE MmapInv'
  <2>1. ASSUME NEW kind \in MapKinds, NEW fd \in Fds, NEW keep \in Keeps,
               MapBegin(kind, fd, keep)
        PROVE  MmapInv'
    BY <2>1, MapBeginStep
  <2>2. ASSUME NEW kind \in MapKinds, NEW fd \in Fds, NEW keep \in Keeps,
               NEW heap \in BOOLEAN, MapCreateFails(kind, fd, keep, heap)
        PROVE  MmapInv'
    BY <2>2, MapCreateFailsStep
  <2>3. ASSUME NEW i \in Maps, MapDone(i) PROVE MmapInv'
    BY <2>3, MapDoneStep
  <2>4. ASSUME NEW i \in Maps, MapFails(i) PROVE MmapInv'
    BY <2>4, MapFailsStep
  <2>5. ASSUME NEW kind \in UnmapKinds, NEW i \in Maps, UnmapBegin(kind, i)
        PROVE  MmapInv'
    BY <2>5, UnmapBeginStep
  <2>6. ASSUME NEW i \in Maps, UnmapDone(i) PROVE MmapInv'
    BY <2>6, UnmapDoneStep
  <2>7. ASSUME NEW i \in Maps, UnmapFails(i) PROVE MmapInv'
    BY <2>7, UnmapFailsStep
  <2>8. ASSUME NEW fd \in Fds, MunmapFd(fd) PROVE MmapInv'
    BY <2>8, MunmapFdStep
  <2>9. CASE MunmapFdDone
    BY <2>9, FileGoesOn
  <2> QED
    BY <1>2, <2>1, <2>2, <2>3, <2>4, <2>5, <2>6, <2>7, <2>8, <2>9 DEF Mapping
<1>3. CASE Release \/ ContextsFreed
  BY <1>3, FileGoesOn
<1>4. CASE FreeMaps
  BY <1>4, FreeMapsStep
<1>5. CASE UNCHANGED vars
  BY <1>5, MmapStutters
<1> QED
  BY <1>1, <1>2, <1>3, <1>4, <1>5 DEF MmapNext

\* The counts of the maps hold in every state of the file.
THEOREM MapsAreCounted == MmapSpec => []MmapInv
<1>1. MmapInit => MmapInv
  BY MmapInitOK
<1>2. MmapInv /\ [MmapNext]_vars => MmapInv'
  BY MmapNextKeeps
<1> QED
  BY <1>1, <1>2, PTL DEF MmapSpec

\* Every map of the list fl->maps is allocated and is on it once, and contexts and
\* commands keep their shape.
THEOREM MapTypesAreKept == MmapSpec => []MmapTypeOK
<1>1. MmapInv => MmapTypeOK
  <2> SUFFICES ASSUME MmapInv PROVE MmapTypeOK
    OBVIOUS
  <2>1. /\ State \in StateRecs
        /\ \A k \in 1 .. Len(maps) : mem[maps[k]] # NULL
        /\ \A j, k \in 1 .. Len(maps) : maps[j] = maps[k] => j = k
    BY DEF MmapInv, MapsOK, State
  <2>2. mem \in [Maps -> SoundRecs \cup {NULL}] /\ maps \in Seq(Maps) /\ abnormal \in BOOLEAN
    BY <2>1 DEF State, StateRecs
  <2>3. maps \in Seq(Allocated)
    <3>1. \A k \in 1 .. Len(maps) : maps[k] \in Allocated
      BY SMT, <2>1, <2>2 DEF Allocated
    <3> QED
      BY SMT, <2>2, <3>1
  <2>4. IsInjective(maps)
    BY SMT, <2>1, <2>2 DEF IsInjective
  <2>5. \A c \in Ctxs : /\ ctx[c].st \in {"idle", "args", "sent", "put", "free"}
                        /\ ctx[c].args \in Seq(Args \cup {NULL})
    BY DEF MmapInv, ContextsOK, CtxStates
  <2>6. /\ op \in Ops \cup {NULL} /\ file \in {"open", "ctxs", "maps", "closed"}
        /\ over \in BOOLEAN
    BY DEF MmapInv, FileOK
  <2> QED
    BY <2>2, <2>3, <2>4, <2>5, <2>6 DEF MmapTypeOK, SoundRecs
<1> QED
  BY <1>1, MapsAreCounted, PTL

\* vfastrpc_mmap_free and munmap_fd free no map a context still refers to: ctx_refs
\* is the number of entries of the contexts' maps[] that name the map.
THEOREM ContextMapsLive == MmapSpec => []CtxMapsLive
<1>1. MmapInv => CtxMapsLive
  <2> SUFFICES ASSUME MmapInv, NEW i \in Maps
               PROVE  IF i \in Allocated THEN mem[i].ctx_refs = Cardinality(CtxUses(i))
                      ELSE CtxUses(i) = {}
    BY DEF CtxMapsLive
  <2>1. Counted(State, i, CtxUses(i), Unmapping(i), MappingOf(i), over)
    BY DEF MmapInv
  <2> QED
    BY <2>1 DEF Counted, State, Allocated
<1> QED
  BY <1>1, MapsAreCounted, PTL

\* While munmap or mem_unmap waits for the back end to unmap a buffer, its map is
\* off the list and no invoke refers to it.
THEOREM UnmapIsExclusive == MmapSpec => []UnmapExclusive
<1>1. MmapInv => UnmapExclusive
  <2> SUFFICES ASSUME MmapInv, op # NULL, op.kind \in UnmapKinds
               PROVE  /\ op.map \in Allocated /\ ~OnList(maps, op.map)
                      /\ CtxUses(op.map) = {}
    BY DEF UnmapExclusive
  <2>1. PICK i : i = op.map
    OBVIOUS
  <2>2. i \in Maps
    BY <2>1 DEF MmapInv, FileOK, UnmapKinds
  <2>3. Counted(State, i, CtxUses(i), Unmapping(i), MappingOf(i), over)
    BY <2>2 DEF MmapInv
  <2>4. Unmapping(i)
    BY <2>1 DEF Unmapping
  <2> QED
    BY <2>1, <2>2, <2>3, <2>4 DEF Counted, State, Allocated
<1> QED
  BY <1>1, MapsAreCounted, PTL

\* As long as munmap_fd has not dropped the reference of an invoke under way, refs
\* of every map is the number of references to it less those a refused munmap of
\* a kept map did not give back, none of which is that of an invoke, and the map
\* of a command under way is there when the back end answers.
THEOREM ReferencesAreExact == MmapSpec => []RefsExact
<1>1. MmapInv => RefsExact
  <2> SUFFICES ASSUME MmapInv, ~over
               PROVE  /\ op # NULL /\ op.kind \in MapKinds => op.map \in Allocated
                      /\ \A i \in Allocated :
                            /\ mem[i].missing <= mem[i].owed
                            /\ mem[i].refs + mem[i].missing = mem[i].ctx_refs + mem[i].owed
                                + IF op # NULL /\ op.kind \in MapKinds /\ op.map = i
                                  THEN 1 ELSE 0
    BY DEF RefsExact
  <2>1. ASSUME NEW i \in Maps
        PROVE  /\ MappingOf(i) => mem[i] # NULL
               /\ mem[i] # NULL => mem[i].refs = mem[i].ctx_refs + Own(mem[i])
                                                 + IF MappingOf(i) THEN 1 ELSE 0
    <3>1. Counted(State, i, CtxUses(i), Unmapping(i), MappingOf(i), over)
      BY DEF MmapInv
    <3> QED
      BY <3>1 DEF Counted, State
  <2>2. ASSUME op # NULL, op.kind \in MapKinds PROVE op.map \in Allocated
    <3>1. op.map \in Maps
      BY <2>2 DEF MmapInv, FileOK, MapKinds
    <3>2. MappingOf(op.map)
      BY <2>2 DEF MappingOf
    <3> QED
      BY <2>1, <3>1, <3>2 DEF Allocated
  <2>3. ASSUME NEW i \in Maps, mem[i] # NULL
        PROVE  /\ mem[i].missing <= mem[i].owed
               /\ mem[i].refs + mem[i].missing = mem[i].ctx_refs + mem[i].owed
                                                 + IF MappingOf(i) THEN 1 ELSE 0
    <3>1. mem[i] \in SoundRecs
      BY <2>3 DEF MmapInv, MapsOK, StateRecs, State
    <3> QED
      BY SMT, <2>1, <2>3, <3>1, CountersAre DEF Own
  <2> QED
    BY <2>2, <2>3 DEF Allocated, MappingOf
<1> QED
  BY <1>1, MapsAreCounted, PTL

\* vfastrpc_file_free leaves no map with an sg table behind, unless
\* vfastrpc_mmap_free met one without references.
THEOREM ReleaseFreesMaps == MmapSpec => []MapsReclaimed
<1>1. MmapInv => MapsReclaimed
  <2> SUFFICES ASSUME MmapInv, file = "closed", ~abnormal, NEW i \in Allocated,
                      mem[i].table
               PROVE  FALSE
    BY DEF MapsReclaimed
  <2>1. i \in Maps /\ mem[i] # NULL
    BY DEF Allocated
  <2>2. Counted(State, i, CtxUses(i), Unmapping(i), MappingOf(i), over)
    BY <2>1 DEF MmapInv
  <2>3. op = NULL /\ maps = <<>>
    BY DEF MmapInv, FileOK
  <2>4. OnList(maps, i) \/ Unmapping(i)
    BY <2>1, <2>2 DEF Counted, State
  <2> QED
    BY SMT, <2>3, <2>4 DEF Unmapping, OnList
<1> QED
  BY <1>1, MapsAreCounted, PTL

=============================================================================
