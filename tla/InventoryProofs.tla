-------------------------- MODULE InventoryProofs --------------------------
(***************************************************************************)
(* The catalogue and the election of machines, for any number of machines,  *)
(* sizes, layouts, images, reservations and requests.                       *)
(***************************************************************************)
EXTENDS InventoryMC, FiniteSetTheorems, WellFoundedInduction, TLAPS

-----------------------------------------------------------------------------
(* The lookups: what does not collide does not match the same.             *)

\* The comparisons, one by one.
In(n, op, m) == \/ op = "=" /\ n = m
                \/ op = "!=" /\ n # m
                \/ op = ">" /\ n > m
                \/ op = ">=" /\ n >= m
                \/ op = "<" /\ n < m
                \/ op = "<=" /\ n <= m

LEMMA Comparisons ==
  ASSUME NEW n \in Nat, NEW r, r.op \in {"=", "!=", ">", ">=", "<", "<="}, r.version \in Nat
  PROVE  Satisfies(n, r) <=> In(n, r.op, r.version)
<1>1. CASE r.op = "="
  BY <1>1 DEF Satisfies, In
<1>2. CASE r.op = "!="
  BY <1>2 DEF Satisfies, In
<1>3. CASE r.op = ">"
  BY <1>3 DEF Satisfies, In
<1>4. CASE r.op = ">="
  BY <1>4 DEF Satisfies, In
<1>5. CASE r.op = "<"
  BY <1>5 DEF Satisfies, In
<1>6. CASE r.op = "<="
  BY <1>6 DEF Satisfies, In
<1> QED BY <1>1, <1>2, <1>3, <1>4, <1>5, <1>6

\* Two ranges of versions that a version is in collide, but for what hasCollisions does not see.
LEMMA RangesMeet ==
  ASSUME NEW r, NEW q, NEW v \in Versions, Versions \subseteq Nat,
         r.op \in {"*", "=", "!=", ">", ">=", "<", "<="}, r.version \in Nat,
         q.op \in {"*", "=", "!=", ">", ">=", "<", "<="}, q.version \in Nat,
         Satisfies(v, r), Satisfies(v, q), ~Unseen(r, q)
  PROVE  RangesCollide(r, q)
<1> SUFFICES ASSUME r.op # "*", q.op # "*"
             PROVE  r # q /\ Satisfies(q.version, r) /\ Satisfies(r.version, q)
  BY DEF RangesCollide
<1>5. ~(Nested(r, q) \/ Nested(q, r) \/ OmitsEnd(r, q) \/ OmitsEnd(q, r))
  BY DEF Unseen
<1>1. r # q
  BY <1>5 DEF Nested
<1>2. PICK u \in Versions : Satisfies(u, q) /\ ~Satisfies(u, r)
  BY <1>5 DEF Nested
<1>3. PICK w \in Versions : Satisfies(w, r) /\ ~Satisfies(w, q)
  BY <1>5 DEF Nested
<1>4. ASSUME NEW n \in Nat
      PROVE  (Satisfies(n, r) <=> In(n, r.op, r.version)) /\ (Satisfies(n, q) <=> In(n, q.op, q.version))
  <2>1. r.op \in {"=", "!=", ">", ">=", "<", "<="} /\ q.op \in {"=", "!=", ">", ">=", "<", "<="}
    OBVIOUS
  <2> QED BY <2>1, Comparisons
<1> DEFINE a == r.version
           b == q.version
<1>6. In(b, r.op, a) /\ In(a, q.op, b)
  <2>1. /\ u \in Nat /\ v \in Nat /\ w \in Nat /\ a \in Nat /\ b \in Nat
        /\ In(v, r.op, a) /\ In(v, q.op, b)
        /\ In(u, q.op, b) /\ ~In(u, r.op, a) /\ In(w, r.op, a) /\ ~In(w, q.op, b)
        /\ ~(r.op = "!=" /\ q.op \in {">=", "<="} /\ a = b)
        /\ ~(q.op = "!=" /\ r.op \in {">=", "<="} /\ a = b)
    <3>1. u \in Nat /\ v \in Nat /\ w \in Nat
      OBVIOUS
    <3> QED BY <1>2, <1>3, <1>4, <1>5, <3>1 DEF OmitsEnd
  <2> HIDE DEF a, b
  <2>2. CASE r.op = "="
    BY <2>1, <2>2 DEF In
  <2>3. CASE r.op = "!="
    BY <2>1, <2>3 DEF In
  <2>4. CASE r.op = ">"
    BY <2>1, <2>4 DEF In
  <2>5. CASE r.op = ">="
    BY <2>1, <2>5 DEF In
  <2>6. CASE r.op = "<"
    BY <2>1, <2>6 DEF In
  <2>7. CASE r.op = "<="
    BY <2>1, <2>7 DEF In
  <2> QED BY <2>2, <2>3, <2>4, <2>5, <2>6, <2>7
<1> QED BY <1>1, <1>4, <1>6
\* A set of numbers has a least one.
LEMMA Least ==
  ASSUME NEW T \in SUBSET Nat, T # {}
  PROVE  \E n \in T : \A m \in T : n <= m
<1>1. PICK n \in T : \A m \in T : ~(<<m, n>> \in OpToRel(<, Nat))
  <2>1. IsWellFoundedOn(OpToRel(<, Nat), Nat)
    BY NatLessThanWellFounded
  <2> QED BY <2>1, WFMin
<1>2. ASSUME NEW m \in T PROVE n <= m
  <2>1. n \in Nat /\ m \in Nat /\ ~(m < n)
    BY <1>1 DEF OpToRel
  <2> QED BY <2>1
<1> QED BY <1>2

LEMMA AtMostOne ==
  ASSUME NEW S, \A x, y \in S : x = y
  PROVE  Cardinality(S) <= 1
<1>1. CASE S = {}
  BY <1>1, FS_EmptySet
<1>2. ASSUME NEW x \in S PROVE Cardinality(S) = 1
  <2>1. S = {x}
    OBVIOUS
  <2> QED BY <2>1, FS_Singleton
<1> QED BY <1>1, <1>2

\* What is nowhere adds up to nothing (countDisk, countGPU).
LEMMA NoAmount ==
  ASSUME NEW hw, NEW c, IsFiniteSet(DOMAIN hw[c.type]),
         \A m \in c.models \cap DOMAIN hw[c.type] : hw[c.type][m] = 0
  PROVE  Amount(c, hw) = 0
<1> DEFINE S == c.models \cap DOMAIN hw[c.type]
           pick(s) == CHOOSE x \in s : TRUE
           Sums(f) == f = [s \in SUBSET S |-> IF s = {} THEN 0 ELSE hw[c.type][pick(s)] + f[s \ {pick(s)}]]
           sum == CHOOSE f : Sums(f)
<1>1. Amount(c, hw) = sum[S]
  BY DEF Amount, MapThenSumSet, MapThenFoldSet
<1>2. IsFiniteSet(S)
  BY FS_Subset
<1>3. \A s \in SUBSET S : s # {} => pick(s) \in s /\ hw[c.type][pick(s)] = 0
  OBVIOUS
<1>4. Sums(sum)
  <2>1. Sums([s \in SUBSET S |-> 0])
    <3> HIDE DEF pick
    <3> QED BY <1>3
  <2> HIDE DEF Sums
  <2> QED BY <2>1
<1> DEFINE bad == {s \in SUBSET S : sum[s] # 0}
           sizes == {Cardinality(s) : s \in bad}
<1>5. ASSUME bad # {} PROVE FALSE
  <2>1. sizes # {} /\ sizes \subseteq Nat
    <3>1. ASSUME NEW s \in bad PROVE Cardinality(s) \in Nat
      <4>1. s \in SUBSET S
        OBVIOUS
      <4> QED BY <1>2, <4>1, FS_Subset, FS_CardinalityType
    <3> HIDE DEF bad
    <3> QED BY <1>5, <3>1
  <2>2. PICK n \in sizes : \A m \in sizes : n <= m
    BY <2>1, Least
  <2>3. PICK s \in bad : Cardinality(s) = n
    OBVIOUS
  <2>4. s # {} /\ sum[s] = hw[c.type][pick(s)] + sum[s \ {pick(s)}]
    <3> HIDE DEF pick, sum
    <3> QED BY <1>4
  <2>5. s \ {pick(s)} \notin bad
    <3>1. IsFiniteSet(s) /\ pick(s) \in s
      BY <1>2, <1>3, <2>4, FS_Subset
    <3>2. Cardinality(s \ {pick(s)}) = Cardinality(s) - 1 /\ Cardinality(s) \in Nat
      BY <3>1, FS_RemoveElement, FS_CardinalityType
    <3>3. ~(Cardinality(s) <= Cardinality(s \ {pick(s)}))
      BY <3>2
    <3> QED BY <2>2, <2>3, <3>3
  <2>6. sum[s \ {pick(s)}] = 0 /\ hw[c.type][pick(s)] = 0
    <3> HIDE DEF pick, sum
    <3> QED BY <1>3, <2>4, <2>5
  <2> QED BY <2>4, <2>6
<1> QED BY <1>1, <1>5

\* What a constraint of a size counts is counted by one of the other size, too.
LEMMA Counterpart ==
  ASSUME NEW hw \in Hardware, NEW s \in SizeSpecs, NEW t \in SizeSpecs, HasSize(hw, s), HasSize(hw, t),
         ~Blind(s, t), NEW c \in s
  PROVE  \E d \in t : d.type = c.type /\ d.identifier = c.identifier
<1>1. c.min \in Nat /\ c.min # 0 /\ c.max \in Nat /\ c.type \in DOMAIN hw /\ IsFiniteSet(DOMAIN hw[c.type])
  BY SpecsAssumption DEF Blind
<1>2. Amount(c, hw) # 0
  BY <1>1 DEF HasSize, Fits
<1>3. PICK m \in c.models \cap DOMAIN hw[c.type] : hw[c.type][m] # 0
  BY <1>1, <1>2, NoAmount
<1>4. hw[c.type][m] > 0
  BY <1>1, <1>3, SpecsAssumption
<1>5. PICK d \in t : d.type = c.type /\ m \in d.models
  BY <1>1, <1>4 DEF HasSize, Exhaustive
<1>6. d.identifier = c.identifier
  BY <1>3, <1>5 DEF Blind
<1> QED BY <1>5, <1>6

LEMMA BlindEitherWay == ASSUME NEW s, NEW t, Blind(s, t) PROVE Blind(t, s)
BY DEF Blind

\* Two sizes that hardware has overlap, but for what the comparison is blind to
\* (Size.overlaps, Sizes.FromHardware).
LEMMA SizesMeet ==
  ASSUME NEW hw \in Hardware, NEW s \in SizeSpecs, NEW t \in SizeSpecs,
         HasSize(hw, s), HasSize(hw, t), ~Blind(s, t)
  PROVE  SizesOverlap(s, t)
<1>1. ASSUME NEW c \in s PROVE \E d \in t : d.type = c.type /\ d.identifier = c.identifier
  BY Counterpart
<1>2. ASSUME NEW d \in t PROVE \E c \in s : c.type = d.type /\ c.identifier = d.identifier
  BY BlindEitherWay, Counterpart
<1>3. TypesOf(s) = TypesOf(t)
  BY <1>1, <1>2 DEF TypesOf
<1>4. ASSUME NEW c \in s, NEW d \in t, c.type = d.type PROVE ConstraintsOverlap(c, d)
  <2>1. c.identifier = d.identifier
    <3>1. PICK e \in t : e.type = c.type /\ e.identifier = c.identifier
      BY <1>1
    <3>2. e.identifier = d.identifier
      BY <1>4, <3>1 DEF Blind
    <3> QED BY <3>1, <3>2
  <2>2. Amount(c, hw) = Amount(d, hw)
    <3>1. c.models = d.models
      BY <1>4, <2>1, SpecsAssumption
    <3> QED BY <1>4, <3>1 DEF Amount
  <2>3. Amount(c, hw) \in c.min .. c.max /\ Amount(d, hw) \in d.min .. d.max
    BY DEF HasSize, Fits
  <2>4. {c.min, c.max, d.min, d.max} \subseteq Nat
    BY SpecsAssumption
  <2> QED BY <1>4, <2>1, <2>2, <2>3, <2>4 DEF ConstraintsOverlap
<1> QED BY <1>3, <1>4 DEF SizesOverlap, HasSize

-----------------------------------------------------------------------------
(* The catalogue.                                                          *)

\* The comparisons find no two sizes that overlap and no two layouts that collide.
Apart ==
    /\ \A s, t \in Known(size) : s # t => ~SizesOverlap(size[s], size[t])
    /\ \A l, k \in Known(layout) : l # k => ~LayoutsCollide(layout[l], layout[k])

Tables ==
    /\ size \in [SizeIDs -> SizeRows] /\ layout \in [LayoutIDs -> LayoutRows]
    /\ image \in [Images -> {"none", "valid", "expired"}]

\* What hardware or an image finds twice is what the comparisons do not see.
LEMMA ApartDetermines ==
  ASSUME size \in [SizeIDs -> SizeRows], layout \in [LayoutIDs -> LayoutRows], Apart
  PROVE  LookupsDetermined
<1>1. ASSUME NEW hw \in Hardware, NEW s \in FromHardware(hw, Known(size), size),
             NEW t \in FromHardware(hw, Known(size), size), s # t
      PROVE  Blind(size[s], size[t])
  <2>1. s \in Known(size) /\ t \in Known(size) /\ HasSize(hw, size[s]) /\ HasSize(hw, size[t])
    BY DEF FromHardware
  <2>2. size[s] \in SizeSpecs /\ size[t] \in SizeSpecs
    BY <2>1 DEF Known, SizeRows
  <2>3. ~SizesOverlap(size[s], size[t])
    BY <1>1, <2>1 DEF Apart
  <2> QED BY <2>1, <2>2, <2>3, SizesMeet
<1>2. ASSUME NEW s \in SizeIDs, NEW i \in Images, NEW l \in LayoutsFor(s, i), NEW k \in LayoutsFor(s, i), l # k
      PROVE  Unseen(layout[l].images[i[1]], layout[k].images[i[1]])
  <2> DEFINE a == layout[l]
             b == layout[k]
  <2>1. l \in Known(layout) /\ k \in Known(layout) /\ LayoutFor(a, s, i[1], i[2]) /\ LayoutFor(b, s, i[1], i[2])
    BY DEF LayoutsFor
  <2>2. a \in LayoutSpecs /\ b \in LayoutSpecs /\ i[2] \in Versions /\ Versions \subseteq Nat
    BY <2>1, CatalogueAssumption DEF Known, LayoutRows, Images
  <2>3. ~LayoutsCollide(a, b)
    BY <1>2, <2>1 DEF Apart
  <2> HIDE DEF a, b
  <2> DEFINE r == a.images[i[1]]
             q == b.images[i[1]]
  <2>4. s \in a.sizes \cap b.sizes /\ i[1] \in DOMAIN a.images \cap DOMAIN b.images
        /\ Satisfies(i[2], r) /\ Satisfies(i[2], q)
    BY <2>1 DEF LayoutFor
  <2>5. /\ r.op \in {"*", "=", "!=", ">", ">=", "<", "<="} /\ r.version \in Nat
        /\ q.op \in {"*", "=", "!=", ">", ">=", "<", "<="} /\ q.version \in Nat
    BY <2>2, <2>4, SpecsAssumption
  <2>6. ~RangesCollide(r, q)
    BY <2>3, <2>4 DEF LayoutsCollide
  <2>7. Unseen(r, q)
    <3> HIDE DEF r, q
    <3> QED BY <2>2, <2>4, <2>5, <2>6, RangesMeet
  <2> QED BY <2>7 DEF a, b
<1>3. SizeDetermined
  <2> SUFFICES ASSUME NEW s \in Known(size), NEW t \in Known(size), s # t,
                      NEW hw \in Hardware, {s, t} \subseteq FromHardware(hw, {s, t}, size)
               PROVE  Blind(size[s], size[t])
    BY DEF SizeDetermined
  <2>1. s \in FromHardware(hw, Known(size), size) /\ t \in FromHardware(hw, Known(size), size)
    BY DEF FromHardware
  <2> QED BY <1>1, <2>1
<1>4. LayoutDetermined
  BY <1>2 DEF LayoutDetermined
<1> QED BY <1>3, <1>4 DEF LookupsDetermined

-----------------------------------------------------------------------------
(* What requests rely on. One of them is under way at a time ("serial"), so *)
(* that a table changes under it only by what does not wait for requests.   *)

HostRow == [size: SizeIDs \cup {None, "unknown"}, project: Projects \cup {None},
            image: Images \cup {None}, setup: Images \cup {None}, reinstall: BOOLEAN]
BookingRow == [size: SizeIDs, place: Places, project: Projects]
CallState == [does: Tasks \cup {"nothing"},
              id: SizeIDs \cup LayoutIDs \cup BookingIDs \cup Projects \cup Images \cup Hosts \cup {None},
              row: SizeRows \cup LayoutRows \cup BookingRow \cup SizeIDs \cup {"unknown"}
                      \cup [project: Projects, image: Images] \cup {None},
              fresh: BOOLEAN]
CleanupState == [pc: {"idle", "machines", "delete"}, images: SUBSET Images, expired: SUBSET Images,
                 used: SUBSET Images, kept: SUBSET Systems, lost: SUBSET Systems]

CatalogueTyped ==
    /\ Tables
    /\ place \in SUBSET Places /\ project \in SUBSET Projects
    /\ booking \in [BookingIDs -> BookingRow \cup {NoBooking}]
    /\ host \in [Hosts -> HostRow]
    /\ call \in [Callers -> CallState]
    /\ cleanup \in CleanupState
    /\ edits \in 0..MaxEdits

FitsSize(s, spec) ==
    /\ s \in SizeIDs /\ spec \in SizeSpecs
    /\ \A t \in Known(size) \ {s} : ~SizesOverlap(spec, size[t])
FitsLayout(l, spec) ==
    /\ l \in LayoutIDs /\ spec \in LayoutSpecs
    /\ \A k \in Known(layout) \ {l} : ~LayoutsCollide(spec, layout[k])
FitsBooking(row) ==
    row \in BookingRow /\ row.size \in Known(size) /\ row.place \in place /\ row.project \in project
FitsMachine(row) ==
    /\ row \in [project: Projects, image: Images] /\ Usable(row.image)
Made(b) == booking[b] # NoBooking

\* What a request found is still so when it writes.
Founded(k) ==
    /\ k.does \in {"createSize", "updateSize"} => FitsSize(k.id, k.row)
    /\ k.does = "deleteSize" => k.id \in SizeIDs /\ \A b \in BookingIDs : Made(b) => booking[b].size # k.id
    /\ k.does \in {"createLayout", "updateLayout"} => FitsLayout(k.id, k.row)
    /\ k.does \in {"createBooking", "updateBooking"} => k.id \in BookingIDs /\ FitsBooking(k.row)
    /\ k.does = "deleteProject" =>
          /\ k.id \in Projects
          /\ \A b \in BookingIDs : Made(b) => booking[b].project # k.id
          /\ \A h \in Hosts : host[h].project # k.id
    /\ k.does = "deleteImage" => k.id \in Images /\ \A h \in Hosts : host[h].image = k.id => host[h].setup = k.id
    /\ k.does = "register" => k.id \in Hosts /\ k.row \in Known(size) \cup {"unknown"}
    /\ k.does = "allocate" => k.id \in Hosts /\ FitsMachine(k.row) /\ k.row.project \in project
    /\ k.does = "reinstall" => k.id \in Hosts /\ FitsMachine(k.row) /\ (k.fresh => host[k.id].project # None)

Busy(c) == call[c].does # "nothing"
Requested ==
    /\ \A c, d \in Callers : Busy(c) /\ Busy(d) => c = d
    /\ \A c \in Callers : Founded(call[c])

\* A machine that is allocated is so for a project.
Owned == \A h \in Hosts : host[h].image # None => host[h].project # None

\* What is installed can be installed again. What a cleanup may delete was in use before, or is
\* in use because it was installed.
Cleaning ==
    /\ \A h \in Hosts : host[h].setup # None => image[host[h].setup] # "none"
    /\ cleanup.pc = "idle" => cleanup = NoCleanup
    /\ cleanup.pc = "delete" => \A i \in cleanup.images \cap cleanup.expired, h \in Hosts :
          host[h].image = i => i \in cleanup.used \/ host[h].setup = i

CatalogueInv == CatalogueTyped /\ Apart /\ ReferencesValid /\ Requested /\ Owned /\ Cleaning

AllTaken == CatalogueAssumed = CatalogueAssumptions

LEMMA CatalogueStart == ASSUME AllTaken, CatalogueInit PROVE CatalogueInv
<1>1. CatalogueTyped
  <2>1. Tables
    BY CatalogueAssumption DEF CatalogueInit, Tables
  <2>2. [NewHost EXCEPT !.size = StartHostSize] \in HostRow
    <3>1. StartHostSize \in SizeIDs \cup {None, "unknown"}
      BY CatalogueAssumption, StartAssumption DEF Known
    <3>2. NewHost \in HostRow
      BY DEF NewHost, HostRow
    <3> QED BY <3>1, <3>2 DEF HostRow
  <2>3. NoCall \in CallState
    BY DEF NoCall, CallState
  <2>4. NoCleanup \in CleanupState
    BY DEF NoCleanup, CleanupState
  <2>5. 0 \in 0..MaxEdits
    BY CatalogueAssumption
  <2> QED BY <2>1, <2>2, <2>3, <2>4, <2>5 DEF CatalogueInit, CatalogueTyped
<1>2. Apart
  BY StartAssumption DEF CatalogueInit, Apart, AllTaken, CatalogueAssumptions
<1>3. /\ \A h \in Hosts : host[h] = [NewHost EXCEPT !.size = StartHostSize]
      /\ \A b \in BookingIDs : booking[b] = NoBooking
      /\ \A c \in Callers : call[c] = NoCall
      /\ cleanup = NoCleanup /\ size = StartSizes
  BY DEF CatalogueInit
<1>4. ReferencesValid
  BY <1>3, StartAssumption DEF ReferencesValid, Readable, NewHost
<1>5. Requested
  BY <1>3 DEF Requested, Busy, Founded, NoCall
<1>6. Owned /\ Cleaning
  BY <1>3 DEF Owned, Cleaning, NoCleanup, NewHost
<1> QED BY <1>1, <1>2, <1>4, <1>5, <1>6 DEF CatalogueInv

\* A request that begins is alone.
LEMMA BeginKeeps ==
  ASSUME AllTaken, CatalogueInv, NEW c \in Callers, NEW does \in Tasks, NEW id, NEW row,
         Begin(c, does, id, row),
         LET k == [does |-> does, id |-> id, row |-> row, fresh |-> TRUE] IN k \in CallState /\ Founded(k)
  PROVE  CatalogueInv'
<1> DEFINE k == [does |-> does, id |-> id, row |-> row, fresh |-> TRUE]
<1>1. /\ call' = [call EXCEPT ![c] = k] /\ k \in CallState /\ Founded(k)
      /\ \A d \in Callers : call[d] = NoCall
      /\ edits < MaxEdits /\ edits' = edits + 1
      /\ UNCHANGED <<size, layout, image, place, project, booking, host, cleanup>>
  BY DEF Begin, AllTaken, CatalogueAssumptions
<1>2. CatalogueTyped'
  BY <1>1, CatalogueAssumption DEF CatalogueInv, CatalogueTyped, Tables
<1>3. Apart' /\ ReferencesValid' /\ Owned' /\ Cleaning'
  BY <1>1 DEF CatalogueInv, Apart, ReferencesValid, Readable, Owned, Cleaning
<1>4. /\ call'[c] = k
      /\ \A d \in Callers \ {c} : call'[d].does = "nothing"
  BY <1>1 DEF NoCall, CatalogueInv, CatalogueTyped
<1>5. \A d \in Callers \ {c} : Founded(call[d])'
  BY <1>4 DEF Founded
<1>6. Founded(call[c])'
  <2> HIDE DEF k
  <2>1. \A j : Founded(j) = Founded(j)'
    BY <1>1 DEF Founded, FitsSize, FitsLayout, FitsBooking, FitsMachine, Usable, Made
  <2> QED BY <1>1, <1>4, <2>1
<1>7. Requested'
  BY <1>4, <1>5, <1>6 DEF Requested, Busy
<1> QED BY <1>2, <1>3, <1>7 DEF CatalogueInv

\* A size that is asked for is apart from the others, or has no reservation.
LEMMA SizeRequestsBegin ==
  ASSUME AllTaken, CatalogueInv, NEW c \in Callers, NEW s \in SizeIDs
  PROVE  /\ \A spec \in SizeSpecs, does \in {"createSize", "updateSize"} :
               WantsSize(c, does, s, spec) => CatalogueInv'
         /\ WantsDeleteSize(c, s) => CatalogueInv'
<1>1. ASSUME NEW spec \in SizeSpecs, NEW does \in {"createSize", "updateSize"}, WantsSize(c, does, s, spec)
      PROVE  CatalogueInv'
  <2> DEFINE k == [does |-> does, id |-> s, row |-> spec, fresh |-> TRUE]
  <2>1. FitsSize(s, spec)
    BY <1>1 DEF WantsSize, AcceptsSize, FitsSize, AllTaken, CatalogueAssumptions
  <2>2. k \in CallState
    BY DEF CallState, SizeRows, Tasks
  <2>3. Founded(k)
    BY <2>1 DEF Founded
  <2>4. does \in Tasks /\ Begin(c, does, s, spec)
    BY <1>1 DEF WantsSize, Tasks
  <2> QED BY <2>2, <2>3, <2>4, BeginKeeps
<1>2. ASSUME WantsDeleteSize(c, s) PROVE CatalogueInv'
  <2> DEFINE k == [does |-> "deleteSize", id |-> s, row |-> None, fresh |-> TRUE]
  <2>1. \A b \in BookingIDs : Made(b) => booking[b].size # s
    BY <1>2 DEF WantsDeleteSize, BookingsOf
  <2>2. k \in CallState
    BY DEF CallState, SizeRows, Tasks
  <2>3. Founded(k)
    BY <2>1 DEF Founded
  <2>4. "deleteSize" \in Tasks /\ Begin(c, "deleteSize", s, None)
    BY <1>2 DEF WantsDeleteSize, Tasks
  <2> QED BY <2>2, <2>3, <2>4, BeginKeeps
<1> QED BY <1>1, <1>2

\* A layout that is asked for is apart from the others.
LEMMA LayoutRequestsBegin ==
  ASSUME AllTaken, CatalogueInv, NEW c \in Callers, NEW l \in LayoutIDs, NEW spec \in LayoutSpecs,
         NEW does \in {"createLayout", "updateLayout"}, WantsLayout(c, does, l, spec)
  PROVE  CatalogueInv'
<1> DEFINE k == [does |-> does, id |-> l, row |-> spec, fresh |-> TRUE]
<1>1. FitsLayout(l, spec)
  BY DEF WantsLayout, AcceptsLayout, FitsLayout, AllTaken, CatalogueAssumptions
<1>2. k \in CallState
  BY DEF CallState, LayoutRows, Tasks
<1>3. Founded(k)
  BY <1>1 DEF Founded
<1>4. does \in Tasks /\ Begin(c, does, l, spec)
  BY DEF WantsLayout, Tasks
<1> QED BY <1>2, <1>3, <1>4, BeginKeeps

\* What a reservation that is asked for refers to is there.
LEMMA BookingRequestsBegin ==
  ASSUME AllTaken, CatalogueInv, NEW c \in Callers, NEW b \in BookingIDs, NEW row \in BookingRow,
         WantsBooking(c, b, row)
  PROVE  CatalogueInv'
<1>1. ASSUME NEW does \in {"createBooking", "updateBooking"}, Begin(c, does, b, row) PROVE CatalogueInv'
  <2> DEFINE k == [does |-> does, id |-> b, row |-> row, fresh |-> TRUE]
  <2>1. FitsBooking(row)
    BY DEF WantsBooking, FitsBooking
  <2>2. k \in CallState
    BY DEF CallState, Tasks
  <2>3. Founded(k)
    BY <2>1 DEF Founded
  <2>4. does \in Tasks
    BY DEF Tasks
  <2> QED BY <1>1, <2>2, <2>3, <2>4, BeginKeeps
<1> QED BY <1>1 DEF WantsBooking

\* A project or an image that is about to be deleted is not in use.
LEMMA DeletionsBegin ==
  ASSUME AllTaken, CatalogueInv, NEW c \in Callers
  PROVE  /\ \A p \in Projects : WantsDeleteProject(c, p) => CatalogueInv'
         /\ \A i \in Images : WantsDeleteImage(c, i) => CatalogueInv'
<1>1. ASSUME NEW p \in Projects, WantsDeleteProject(c, p) PROVE CatalogueInv'
  <2> DEFINE k == [does |-> "deleteProject", id |-> p, row |-> None, fresh |-> TRUE]
  <2>1. /\ \A b \in BookingIDs : booking[b].project # p
        /\ \A h \in Hosts : host[h].project # p
    BY <1>1 DEF WantsDeleteProject, ProjectUnused, BookingsOf
  <2>2. k \in CallState
    BY DEF CallState, Tasks
  <2>3. Founded(k)
    BY <2>1 DEF Founded
  <2>4. "deleteProject" \in Tasks /\ Begin(c, "deleteProject", p, None)
    BY <1>1 DEF WantsDeleteProject, Tasks
  <2> QED BY <2>2, <2>3, <2>4, BeginKeeps
<1>2. ASSUME NEW i \in Images, WantsDeleteImage(c, i) PROVE CatalogueInv'
  <2> DEFINE k == [does |-> "deleteImage", id |-> i, row |-> None, fresh |-> TRUE]
  <2>1. \A h \in Hosts : host[h].image # i
    BY <1>2 DEF WantsDeleteImage, InUse
  <2>2. k \in CallState
    BY DEF CallState, Tasks
  <2>3. Founded(k)
    BY <2>1 DEF Founded
  <2>4. "deleteImage" \in Tasks /\ Begin(c, "deleteImage", i, None)
    BY <1>2 DEF WantsDeleteImage, Tasks
  <2> QED BY <2>2, <2>3, <2>4, BeginKeeps
<1> QED BY <1>1, <1>2

\* A machine is registered with a size that there is, and installed with an image that is.
LEMMA MachineRequestsBegin ==
  ASSUME AllTaken, CatalogueInv, NEW c \in Callers, NEW h \in Hosts
  PROVE  /\ \A hw \in Hardware : Register(c, h, hw) => CatalogueInv'
         /\ \A i \in Images, p \in Projects : Allocate(c, h, p, i) => CatalogueInv'
         /\ \A i \in Images : Reinstall(c, h, i) => CatalogueInv'
<1>1. ASSUME NEW hw \in Hardware, Register(c, h, hw) PROVE CatalogueInv'
  <2> DEFINE fit == FromHardware(hw, Known(size), size)
             found == IF Cardinality(fit) = 1 THEN CHOOSE s \in fit : TRUE ELSE "unknown"
             k == [does |-> "register", id |-> h, row |-> found, fresh |-> TRUE]
  <2>1. found \in Known(size) \cup {"unknown"}
    <3>1. fit # {} => (CHOOSE s \in fit : TRUE) \in Known(size)
      BY DEF FromHardware
    <3>2. Cardinality(fit) = 1 => fit # {}
      BY FS_EmptySet
    <3> QED BY <3>1, <3>2
  <2> HIDE DEF found
  <2>2. k \in CallState
    BY <2>1 DEF CallState, Tasks, Known, CatalogueInv, CatalogueTyped, Tables
  <2>3. Founded(k)
    BY <2>1 DEF Founded
  <2>4. "register" \in Tasks /\ Begin(c, "register", h, found)
    BY <1>1 DEF Register, Tasks, found
  <2> QED BY <2>2, <2>3, <2>4, BeginKeeps
<1>2. ASSUME NEW i \in Images, NEW p \in Projects, Allocate(c, h, p, i) PROVE CatalogueInv'
  <2> DEFINE k == [does |-> "allocate", id |-> h, row |-> [project |-> p, image |-> i], fresh |-> TRUE]
  <2>1. Usable(i) /\ p \in project
    BY <1>2 DEF Allocate, AllTaken, CatalogueAssumptions
  <2>2. k \in CallState
    BY DEF CallState, Tasks
  <2>3. Founded(k)
    BY <2>1 DEF Founded, FitsMachine
  <2>4. "allocate" \in Tasks /\ Begin(c, "allocate", h, [project |-> p, image |-> i])
    BY <1>2 DEF Allocate, Tasks
  <2> QED BY <2>2, <2>3, <2>4, BeginKeeps
<1>3. ASSUME NEW i \in Images, Reinstall(c, h, i) PROVE CatalogueInv'
  <2> DEFINE p == host[h].project
             k == [does |-> "reinstall", id |-> h, row |-> [project |-> p, image |-> i], fresh |-> TRUE]
  <2>1. Usable(i) /\ host[h].image # None
    BY <1>3 DEF Reinstall, AllTaken, CatalogueAssumptions
  <2>2. p \in Projects /\ p # None
    BY <2>1 DEF CatalogueInv, Owned, CatalogueTyped, HostRow
  <2>3. k \in CallState
    BY <2>2 DEF CallState, Tasks
  <2>4. Founded(k)
    BY <2>1, <2>2 DEF Founded, FitsMachine
  <2>5. "reinstall" \in Tasks /\ Begin(c, "reinstall", h, [project |-> p, image |-> i])
    BY <1>3 DEF Reinstall, Tasks
  <2> QED BY <2>3, <2>4, <2>5, BeginKeeps
<1> QED BY <1>1, <1>2, <1>3

\* A request that has written is over, and no other one is under way.
LEMMA EndKeeps ==
  ASSUME CatalogueInv, NEW c \in Callers, Busy(c), End(c)
  PROVE  call' \in [Callers -> CallState] /\ Requested'
<1>1. Outdated(call[c].id) \in [Callers -> CallState]
  <2>1. \A d \in Callers : [call[d] EXCEPT !.fresh = FALSE] \in CallState
    BY DEF CatalogueInv, CatalogueTyped, CallState
  <2> QED BY <2>1 DEF Outdated, CatalogueInv, CatalogueTyped
<1>2. NoCall \in CallState
  BY DEF NoCall, CallState
<1>3. \A d \in Callers : d # c => call'[d].does = "nothing"
  <2>1. ASSUME NEW d \in Callers, d # c PROVE call'[d].does = "nothing"
    <3>1. call[d].does = "nothing"
      BY <2>1 DEF CatalogueInv, Requested, Busy
    <3>2. call'[d] = call[d] \/ call'[d] = [call[d] EXCEPT !.fresh = FALSE]
      BY <1>1, <2>1 DEF End, Outdated
    <3>3. call[d] \in CallState
      BY DEF CatalogueInv, CatalogueTyped
    <3> QED BY <3>1, <3>2, <3>3 DEF CallState
  <2> QED BY <2>1
<1>4. call'[c].does = "nothing"
  BY <1>1 DEF End, NoCall
<1>5. Requested'
  BY <1>3, <1>4 DEF Requested, Busy, Founded
<1> QED BY <1>1, <1>2, <1>5 DEF End

\* It does not matter in which order sizes or layouts are compared.
LEMMA ComparedEitherWay ==
  /\ \A s, t : SizesOverlap(s, t) <=> SizesOverlap(t, s)
  /\ \A l, k : LayoutsCollide(l, k) <=> LayoutsCollide(k, l)
<1>1. ASSUME NEW s, NEW t, SizesOverlap(s, t) PROVE SizesOverlap(t, s)
  <2>1. \A c \in s, d \in t : c.type = d.type => ConstraintsOverlap(d, c)
    BY <1>1 DEF SizesOverlap, ConstraintsOverlap
  <2> QED BY <1>1, <2>1 DEF SizesOverlap
<1>2. ASSUME NEW l, NEW k, LayoutsCollide(l, k) PROVE LayoutsCollide(k, l)
  <2>1. \A r, q : RangesCollide(r, q) => RangesCollide(q, r)
    BY DEF RangesCollide
  <2> QED BY <1>2, <2>1 DEF LayoutsCollide
<1> QED BY <1>1, <1>2

\* A size is written that is apart from the others.
LEMMA WriteSizeKeeps ==
  ASSUME AllTaken, CatalogueInv, NEW c \in Callers, WriteSize(c)
  PROVE  CatalogueInv'
<1> DEFINE k == call[c]
<1>1. /\ k.does \in {"createSize", "updateSize"} /\ FitsSize(k.id, k.row)
      /\ size' = size \/ size' = [size EXCEPT ![k.id] = k.row]
      /\ UNCHANGED <<layout, image, place, project, booking, host, cleanup, edits>>
  BY DEF WriteSize, Doing, Put, CatalogueInv, Requested, Founded
<1>2. call' \in [Callers -> CallState] /\ Requested'
  BY EndKeeps DEF WriteSize, Doing, Busy
<1>3. CASE size' = size
  <2>1. CatalogueTyped' /\ Apart' /\ ReferencesValid' /\ Owned' /\ Cleaning'
    BY <1>1, <1>2, <1>3 DEF CatalogueInv, CatalogueTyped, Tables, Apart, ReferencesValid, Readable, Owned, Cleaning
  <2> QED BY <1>2, <2>1 DEF CatalogueInv
<1>4. CASE size' = [size EXCEPT ![k.id] = k.row]
  <2>1. k.id \in SizeIDs /\ k.row \in SizeSpecs /\ k.row # None /\ size \in [SizeIDs -> SizeRows]
    BY <1>1, CatalogueAssumption DEF FitsSize, CatalogueInv, CatalogueTyped, Tables
  <2>2. CatalogueTyped'
    BY <1>1, <1>2, <1>4, <2>1 DEF CatalogueInv, CatalogueTyped, Tables, SizeRows
  <2>3. Known(size)' = Known(size) \cup {k.id}
    BY <1>4, <2>1 DEF Known
  <2>4. Apart'
    <3>1. \A t \in Known(size) \ {k.id} : ~SizesOverlap(k.row, size[t]) /\ ~SizesOverlap(size[t], k.row)
      BY <1>1, ComparedEitherWay DEF FitsSize
    <3>3. size'[k.id] = k.row /\ \A t \in Known(size) \ {k.id} : size'[t] = size[t]
      BY <1>4, <2>1 DEF Known
    <3>4. \A s, t \in Known(size)' : s # t => ~SizesOverlap(size'[s], size'[t])
      <4> HIDE DEF k
      <4> QED BY <2>3, <3>1, <3>3 DEF CatalogueInv, Apart
    <3> QED BY <1>1, <3>4 DEF CatalogueInv, Apart
  <2>5. ReferencesValid'
    BY <1>1, <2>3 DEF CatalogueInv, ReferencesValid, Readable
  <2>6. Owned' /\ Cleaning'
    BY <1>1 DEF CatalogueInv, Owned, Cleaning
  <2> QED BY <1>2, <2>2, <2>4, <2>5, <2>6 DEF CatalogueInv
<1> QED BY <1>1, <1>3, <1>4

\* A size is deleted that nothing refers to.
LEMMA DeleteSizeKeeps ==
  ASSUME AllTaken, CatalogueInv, NEW c \in Callers, DeleteSize(c)
  PROVE  CatalogueInv'
<1> DEFINE s == call[c].id
<1>1. /\ s \in SizeIDs /\ size' = [size EXCEPT ![s] = None]
      /\ \A b \in BookingIDs : Made(b) => booking[b].size # s
      /\ \A h \in Hosts : host[h].size # s
      /\ UNCHANGED <<layout, image, place, project, booking, host, cleanup, edits>>
  BY DEF DeleteSize, Doing, CatalogueInv, Requested, Founded, AllTaken, CatalogueAssumptions
<1>2. call' \in [Callers -> CallState] /\ Requested'
  BY EndKeeps DEF DeleteSize, Doing, Busy
<1>3. CatalogueTyped'
  BY <1>1, <1>2 DEF CatalogueInv, CatalogueTyped, Tables, SizeRows
<1>4. Known(size)' = Known(size) \ {s} /\ \A t \in Known(size)' : size'[t] = size[t]
  BY <1>1 DEF Known, CatalogueInv, CatalogueTyped, Tables
<1>5. Apart' /\ ReferencesValid'
  BY <1>1, <1>4 DEF CatalogueInv, Apart, ReferencesValid, Readable, Made
<1>6. Owned' /\ Cleaning'
  BY <1>1 DEF CatalogueInv, Owned, Cleaning
<1> QED BY <1>2, <1>3, <1>5, <1>6 DEF CatalogueInv

\* A layout is written that is apart from the others.
LEMMA WriteLayoutKeeps ==
  ASSUME AllTaken, CatalogueInv, NEW c \in Callers, WriteLayout(c)
  PROVE  CatalogueInv'
<1> DEFINE k == call[c]
<1>1. /\ k.does \in {"createLayout", "updateLayout"} /\ FitsLayout(k.id, k.row)
      /\ layout' = layout \/ layout' = [layout EXCEPT ![k.id] = k.row]
      /\ UNCHANGED <<size, image, place, project, booking, host, cleanup, edits>>
  BY DEF WriteLayout, Doing, Put, CatalogueInv, Requested, Founded
<1>2. call' \in [Callers -> CallState] /\ Requested'
  BY EndKeeps DEF WriteLayout, Doing, Busy
<1>3. k.id \in LayoutIDs /\ k.row \in LayoutSpecs /\ k.row # None /\ layout \in [LayoutIDs -> LayoutRows]
  BY <1>1, CatalogueAssumption DEF FitsLayout, CatalogueInv, CatalogueTyped, Tables
<1>4. CatalogueTyped'
  BY <1>1, <1>2, <1>3 DEF CatalogueInv, CatalogueTyped, Tables, LayoutRows
<1>5. Apart'
  <2>1. CASE layout' = layout
    BY <1>1, <2>1 DEF CatalogueInv, Apart
  <2>2. CASE layout' = [layout EXCEPT ![k.id] = k.row]
    <3>1. Known(layout)' = Known(layout) \cup {k.id}
      BY <1>3, <2>2 DEF Known
    <3>2. \A t \in Known(layout) \ {k.id} : ~LayoutsCollide(k.row, layout[t]) /\ ~LayoutsCollide(layout[t], k.row)
      BY <1>1, ComparedEitherWay DEF FitsLayout
    <3>3. layout'[k.id] = k.row /\ \A t \in Known(layout) \ {k.id} : layout'[t] = layout[t]
      BY <1>3, <2>2 DEF Known
    <3>4. \A s, t \in Known(layout)' : s # t => ~LayoutsCollide(layout'[s], layout'[t])
      <4> HIDE DEF k
      <4> QED BY <3>1, <3>2, <3>3 DEF CatalogueInv, Apart
    <3> QED BY <1>1, <3>4 DEF CatalogueInv, Apart
  <2> QED BY <1>1, <2>1, <2>2
<1>6. ReferencesValid' /\ Owned' /\ Cleaning'
  BY <1>1 DEF CatalogueInv, ReferencesValid, Readable, Owned, Cleaning
<1> QED BY <1>2, <1>4, <1>5, <1>6 DEF CatalogueInv

\* A reservation is written of what there is.
LEMMA WriteBookingKeeps ==
  ASSUME AllTaken, CatalogueInv, NEW c \in Callers, WriteBooking(c)
  PROVE  CatalogueInv'
<1> DEFINE k == call[c]
<1>1. /\ k.id \in BookingIDs /\ FitsBooking(k.row)
      /\ booking' = booking \/ booking' = [booking EXCEPT ![k.id] = k.row]
      /\ UNCHANGED <<size, layout, image, place, project, host, cleanup, edits>>
  BY DEF WriteBooking, Doing, CatalogueInv, Requested, Founded
<1>2. call' \in [Callers -> CallState] /\ Requested'
  BY EndKeeps DEF WriteBooking, Doing, Busy
<1>3. booking \in [BookingIDs -> BookingRow \cup {NoBooking}] /\ k.row \in BookingRow
  BY <1>1 DEF FitsBooking, CatalogueInv, CatalogueTyped
<1>4. CatalogueTyped'
  BY <1>1, <1>2, <1>3 DEF CatalogueInv, CatalogueTyped, Tables
<1>5. ReferencesValid'
  <2>1. ASSUME NEW b \in BookingIDs, Made(b)'
        PROVE  booking'[b].size \in Known(size) /\ booking'[b].place \in place /\ booking'[b].project \in project
    <3>1. (booking'[b] = booking[b] /\ Made(b)) \/ booking'[b] = k.row
      BY <1>1, <1>3, <2>1 DEF Made
    <3> QED BY <1>1, <3>1 DEF FitsBooking, CatalogueInv, ReferencesValid, Made
  <2> QED BY <1>1, <2>1 DEF CatalogueInv, ReferencesValid, Readable, Made
<1>6. Apart' /\ Owned' /\ Cleaning'
  BY <1>1 DEF CatalogueInv, Apart, Owned, Cleaning
<1> QED BY <1>2, <1>4, <1>5, <1>6 DEF CatalogueInv

\* A project is deleted that nothing refers to.
LEMMA DeleteProjectKeeps ==
  ASSUME AllTaken, CatalogueInv, NEW c \in Callers, DeleteProject(c)
  PROVE  CatalogueInv'
<1> DEFINE p == call[c].id
<1>1. /\ project' = project \ {p}
      /\ \A b \in BookingIDs : Made(b) => booking[b].project # p
      /\ \A h \in Hosts : host[h].project # p
      /\ UNCHANGED <<size, layout, image, place, booking, host, cleanup, edits>>
  BY DEF DeleteProject, Doing, CatalogueInv, Requested, Founded
<1>2. call' \in [Callers -> CallState] /\ Requested'
  BY EndKeeps DEF DeleteProject, Doing, Busy
<1>3. CatalogueTyped'
  BY <1>1, <1>2 DEF CatalogueInv, CatalogueTyped, Tables
<1>4. ReferencesValid'
  BY <1>1 DEF CatalogueInv, ReferencesValid, Readable, Made
<1>5. Apart' /\ Owned' /\ Cleaning'
  BY <1>1 DEF CatalogueInv, Apart, Owned, Cleaning
<1> QED BY <1>2, <1>3, <1>4, <1>5 DEF CatalogueInv

\* An image is deleted that no machine has or may have again.
LEMMA DeleteImageKeeps ==
  ASSUME AllTaken, CatalogueInv, NEW c \in Callers, DeleteImage(c)
  PROVE  CatalogueInv'
<1> DEFINE i == call[c].id
<1>1. /\ i \in Images /\ image' = [image EXCEPT ![i] = "none"]
      /\ \/ cleanup' = cleanup
         \/ cleanup.pc # "idle" /\ cleanup' = [cleanup EXCEPT !.lost = @ \cup {i[1]}]
      /\ \A h \in Hosts : host[h].image # i /\ host[h].setup # i
      /\ UNCHANGED <<size, layout, place, project, booking, host, edits>>
  BY DEF DeleteImage, Doing, Restorable, CatalogueInv, Requested, Founded, AllTaken, CatalogueAssumptions
<1>2. call' \in [Callers -> CallState] /\ Requested'
  BY EndKeeps DEF DeleteImage, Doing, Busy
<1>3. image \in [Images -> {"none", "valid", "expired"}] /\ \A j : j # i => image'[j] = image[j]
  BY <1>1 DEF CatalogueInv, CatalogueTyped, Tables
<1>8. /\ cleanup' \in CleanupState /\ cleanup'.pc = cleanup.pc /\ cleanup'.images = cleanup.images
      /\ cleanup'.expired = cleanup.expired /\ cleanup'.used = cleanup.used
      /\ cleanup.pc = "idle" => cleanup' = cleanup
  <2>1. cleanup \in CleanupState /\ i[1] \in Systems
    BY <1>1 DEF CatalogueInv, CatalogueTyped, Images
  <2>2. \A os \in Systems : cleanup.lost \cup {os} \in SUBSET Systems
    BY <2>1 DEF CleanupState
  <2> QED BY <1>1, <2>1, <2>2 DEF CleanupState
<1>4. CatalogueTyped'
  BY <1>1, <1>2, <1>3, <1>8 DEF CatalogueInv, CatalogueTyped, Tables
<1>5. ReferencesValid'
  BY <1>1, <1>3 DEF CatalogueInv, ReferencesValid, Readable
<1>6. Cleaning'
  BY <1>1, <1>3, <1>8 DEF CatalogueInv, Cleaning
<1>7. Apart' /\ Owned'
  BY <1>1 DEF CatalogueInv, Apart, Owned
<1> QED BY <1>2, <1>4, <1>5, <1>6, <1>7 DEF CatalogueInv

\* What a request writes into the row of a machine is there, and no cleanup deletes it.
LEMMA WriteMachineKeeps ==
  ASSUME AllTaken, CatalogueInv, NEW c \in Callers, WriteMachine(c)
  PROVE  CatalogueInv'
<1> DEFINE h == call[c].id
           row == call[c].row
<1>1. /\ call[c].does \in {"register", "allocate", "reinstall"}
      /\ UNCHANGED <<size, layout, image, place, project, booking, cleanup, edits>>
  BY DEF WriteMachine, Doing
<1>2. call' \in [Callers -> CallState] /\ Requested'
  BY EndKeeps DEF WriteMachine, Doing, Busy
<1>3. CASE host' = host
  <2>1. CatalogueTyped' /\ Apart' /\ ReferencesValid' /\ Owned' /\ Cleaning'
    BY <1>1, <1>2, <1>3 DEF CatalogueInv, CatalogueTyped, Tables, Apart, ReferencesValid, Readable, Owned, Cleaning
  <2> QED BY <1>2, <2>1 DEF CatalogueInv
<1>4. ASSUME host' # host PROVE CatalogueInv'
  <2> DEFINE old == host[h]
             new == host'[h]
  <2>1. h \in Hosts /\ host \in [Hosts -> HostRow]
    BY <1>1 DEF CatalogueInv, CatalogueTyped, Requested, Founded
  <2>2. \/ /\ call[c].does = "register" /\ new = [old EXCEPT !.size = row]
        \/ /\ call[c].does = "allocate" /\ new = [old EXCEPT !.project = row.project, !.image = row.image]
        \/ /\ call[c].does = "reinstall" /\ call[c].fresh
           /\ new = [old EXCEPT !.image = row.image, !.reinstall = TRUE]
    BY <1>1, <1>4, <2>1 DEF WriteMachine, Doing
  <2>3. \A g \in Hosts \ {h} : host'[g] = host[g]
    BY <1>4 , <2>1 DEF WriteMachine
  <2>4. old \in HostRow
    BY <2>1
  <2>5. /\ new \in HostRow
        /\ new.size \in Known(size) \cup {"unknown", None}
        /\ new.project \in project \cup {None} /\ (new.image # None => new.project # None)
        /\ new.setup = old.setup
        /\ new.image = old.image \/ Usable(new.image)
    <3>1. /\ old.size \in Known(size) \cup {"unknown", None} /\ old.project \in project \cup {None}
          /\ old.image # None => old.project # None
      BY <2>1 DEF CatalogueInv, ReferencesValid, Readable, Owned
    <3>2. Founded(call[c]) /\ None \notin Images
      BY CatalogueAssumption DEF CatalogueInv, Requested
    <3>3. CASE call[c].does = "register"
      <4>1. row \in Known(size) \cup {"unknown"} /\ Known(size) \subseteq SizeIDs
        BY <3>2, <3>3 DEF Founded, Known, CatalogueInv, CatalogueTyped, Tables
      <4>2. new = [old EXCEPT !.size = row]
        BY <2>2, <3>3
      <4> HIDE DEF old, row, new
      <4> QED BY <2>4, <3>1, <4>1, <4>2 DEF HostRow
    <3>4. CASE call[c].does = "allocate"
      <4>1. row.project \in Projects /\ row.project \in project /\ row.image \in Images /\ Usable(row.image)
        BY <3>2, <3>4 DEF Founded, FitsMachine
      <4>2. new = [old EXCEPT !.project = row.project, !.image = row.image]
        BY <2>2, <3>4
      <4>3. row.project # None
        BY <4>1, CatalogueAssumption
      <4> HIDE DEF old, row, new
      <4> QED BY <2>4, <3>1, <4>1, <4>2, <4>3 DEF HostRow
    <3>5. CASE call[c].does = "reinstall"
      <4>1. row.image \in Images /\ Usable(row.image) /\ old.project # None
        BY <2>2, <3>2, <3>5 DEF Founded, FitsMachine
      <4>2. new = [old EXCEPT !.image = row.image, !.reinstall = TRUE]
        BY <2>2, <3>5
      <4> HIDE DEF old, row, new
      <4> QED BY <2>4, <3>1, <4>1, <4>2 DEF HostRow
    <3> QED BY <1>1, <3>3, <3>4, <3>5
  <2>11. host' \in [Hosts -> HostRow]
    <3>1. \E v : host' = [host EXCEPT ![h] = v]
      BY <1>4 DEF WriteMachine
    <3> QED BY <2>1, <2>5, <3>1
  <2>6. CatalogueTyped'
    BY <1>1, <1>2, <2>11 DEF CatalogueInv, CatalogueTyped, Tables
  <2>7. ReferencesValid'
    <3>1. ASSUME NEW g \in Hosts
          PROVE  /\ Readable(g)' /\ host'[g].project \in project \cup {None}
                 /\ host'[g].image # None => image[host'[g].image] # "none"
      <4>1. CASE g = h
        BY <1>1, <2>1, <2>5, <4>1 DEF CatalogueInv, ReferencesValid, Readable, Usable
      <4>2. CASE g # h
        BY <1>1, <2>3, <4>2 DEF CatalogueInv, ReferencesValid, Readable
      <4> QED BY <4>1, <4>2
    <3> QED BY <1>1, <3>1 DEF CatalogueInv, ReferencesValid
  <2>8. Owned'
    BY <2>1, <2>3, <2>5 DEF CatalogueInv, Owned
  <2>9. Cleaning'
    <3>1. \A g \in Hosts : host'[g].setup = host[g].setup
      BY <2>3, <2>5
    <3>2. \A i \in cleanup.images \cap cleanup.expired, g \in Hosts : host'[g].image = i => host[g].image = i
      BY <2>3, <2>5 DEF Usable
    <3> QED BY <1>1, <3>1, <3>2 DEF CatalogueInv, Cleaning
  <2>10. Apart'
    BY <1>1 DEF CatalogueInv, Apart
  <2> QED BY <1>2, <2>6, <2>7, <2>8, <2>9, <2>10 DEF CatalogueInv
<1> QED BY <1>3, <1>4

-----------------------------------------------------------------------------
(* What does not wait for requests: deletions of layouts and reservations,  *)
(* partitions, images, cleanups, and what machines report.                  *)

\* What the request under way has found stays so.
LEMMA StaysFounded ==
  ASSUME CatalogueInv, UNCHANGED <<size, project>>,
         \A c \in Callers : /\ call'[c].does = call[c].does /\ call'[c].id = call[c].id
                            /\ call'[c].row = call[c].row /\ (call'[c].fresh => call[c].fresh),
         \A l \in Known(layout)' : l \in Known(layout) /\ layout'[l] = layout[l],
         \A b \in BookingIDs : Made(b)' => Made(b) /\ booking'[b] = booking[b],
         \/ place \subseteq place'
         \/ \A c \in Callers : ~Doing(c, {"createBooking", "updateBooking"}),
         \A i \in Images : Usable(i) /\ Wanted(i) => Usable(i)',
         \A h \in Hosts : host'[h].project \in {host[h].project, None},
         \A h \in Hosts, i \in Images :
            (host[h].image = i => host[h].setup = i) => (host'[h].image = i => host'[h].setup = i),
         \A c \in Callers : call'[c].fresh => host'[call[c].id] = host[call[c].id]
  PROVE  Requested'
<1>1. ASSUME NEW c \in Callers PROVE Founded(call[c])'
  <2> DEFINE k == call[c]
  <2>1. /\ k'.does = k.does /\ k'.id = k.id /\ k'.row = k.row /\ (k'.fresh => k.fresh)
        /\ Founded(k) /\ k \in CallState
        /\ k'.fresh => host'[k.id] = host[k.id]
    BY DEF CatalogueInv, CatalogueTyped, Requested
  <2>2. k.does \in {"allocate", "reinstall"} => k.row.image \in Images /\ Usable(k.row.image)'
    <3> SUFFICES ASSUME k.does \in {"allocate", "reinstall"}
                 PROVE  k.row.image \in Images /\ Usable(k.row.image)'
      OBVIOUS
    <3>1. k.row.image \in Images /\ Usable(k.row.image)
      BY <2>1 DEF Founded, FitsMachine
    <3>2. Wanted(k.row.image)
      BY DEF Wanted, Doing
    <3> QED BY <3>1, <3>2
  <2>3. k.does \in {"createBooking", "updateBooking"} => place \subseteq place'
    BY DEF Doing
  <2>4. Known(size)' = Known(size)
    BY DEF Known
  <2>5. k.does \in {"createSize", "updateSize"} => FitsSize(k.id, k.row)'
    BY <2>1, <2>4 DEF Founded, FitsSize
  <2>6. k.does \in {"createLayout", "updateLayout"} => FitsLayout(k.id, k.row)'
    BY <2>1 DEF Founded, FitsLayout
  <2>7. k.does \in {"createBooking", "updateBooking"} => k.id \in BookingIDs /\ FitsBooking(k.row)'
    BY <2>1, <2>3, <2>4 DEF Founded, FitsBooking
  <2>8. k.does \in {"allocate", "reinstall"} => FitsMachine(k.row)'
    BY <2>1, <2>2 DEF Founded, FitsMachine
  <2>9. /\ k.does = "deleteSize" => \A b \in BookingIDs : Made(b)' => booking'[b].size # k.id
        /\ k.does = "deleteProject" => /\ \A b \in BookingIDs : Made(b)' => booking'[b].project # k.id
                                       /\ \A h \in Hosts : host'[h].project # k.id
        /\ k.does = "deleteImage" => \A h \in Hosts : host'[h].image = k.id => host'[h].setup = k.id
        /\ k.does = "register" => k.row \in Known(size)' \cup {"unknown"}
        /\ k.does = "reinstall" /\ k'.fresh => host'[k.id].project # None
    <3>1. k.does = "deleteProject" => k.id # None
      BY <2>1, CatalogueAssumption DEF Founded
    <3>2. \A b \in BookingIDs : Made(b)' => Made(b) /\ booking'[b] = booking[b]
      OBVIOUS
    <3>3. \A h \in Hosts : host'[h].project \in {host[h].project, None}
      OBVIOUS
    <3>4. k.does = "deleteProject" => \A h \in Hosts : host'[h].project # k.id
      BY <2>1, <3>1, <3>3 DEF Founded
    <3>5. /\ k.does = "deleteSize" => \A b \in BookingIDs : Made(b)' => booking'[b].size # k.id
          /\ k.does = "deleteProject" => \A b \in BookingIDs : Made(b)' => booking'[b].project # k.id
      BY <2>1, <3>2 DEF Founded
    <3>6. k.does = "deleteImage" => \A h \in Hosts : host'[h].image = k.id => host'[h].setup = k.id
      BY <2>1 DEF Founded
    <3>7. /\ k.does = "register" => k.row \in Known(size)' \cup {"unknown"}
          /\ k.does = "reinstall" /\ k'.fresh => host'[k.id].project # None
      BY <2>1, <2>4 DEF Founded
    <3> QED BY <3>4, <3>5, <3>6, <3>7
  <2>10. /\ k.does \in {"deleteSize"} => k.id \in SizeIDs
         /\ k.does \in {"deleteProject"} => k.id \in Projects
         /\ k.does \in {"deleteImage"} => k.id \in Images
         /\ k.does \in {"register", "allocate", "reinstall"} => k.id \in Hosts
         /\ k.does = "allocate" => k.row.project \in project
    BY <2>1 DEF Founded
  <2>11. k'.does = k.does /\ k'.id = k.id /\ k'.row = k.row
    BY <2>1
  <2> QED BY <2>5, <2>6, <2>7, <2>8, <2>9, <2>10, <2>11 DEF Founded
<1>2. \A c, d \in Callers : Busy(c)' /\ Busy(d)' => c = d
  BY DEF CatalogueInv, Requested, Busy
<1> QED BY <1>1, <1>2 DEF Requested

\* The outdated requests are the same but for what they may write.
LEMMA OutdatedSame ==
  ASSUME CatalogueInv, NEW id, call' = Outdated(id)
  PROVE  /\ call' \in [Callers -> CallState]
         /\ \A c \in Callers : /\ call'[c].does = call[c].does /\ call'[c].id = call[c].id
                               /\ call'[c].row = call[c].row /\ (call'[c].fresh => call[c].fresh)
                               /\ call'[c].fresh => call[c].id # id
<1>1. call \in [Callers -> CallState]
  BY DEF CatalogueInv, CatalogueTyped
<1>2. ASSUME NEW k \in CallState
      PROVE  /\ [k EXCEPT !.fresh = FALSE] \in CallState
             /\ [k EXCEPT !.fresh = FALSE].does = k.does /\ [k EXCEPT !.fresh = FALSE].id = k.id
             /\ [k EXCEPT !.fresh = FALSE].row = k.row /\ ~[k EXCEPT !.fresh = FALSE].fresh
  BY DEF CallState
<1>3. \A c \in Callers : call'[c] = IF call[c].id = id THEN [call[c] EXCEPT !.fresh = FALSE] ELSE call[c]
  BY <1>1 DEF Outdated
<1>4. call' = [c \in Callers |-> call'[c]]
  BY DEF Outdated
<1>5. ASSUME NEW c \in Callers
      PROVE  /\ call'[c] \in CallState
             /\ call'[c].does = call[c].does /\ call'[c].id = call[c].id
             /\ call'[c].row = call[c].row /\ (call'[c].fresh => call[c].fresh)
             /\ call'[c].fresh => call[c].id # id
  <2>1. call[c] \in CallState
    BY <1>1
  <2>2. CASE call[c].id = id
    BY <1>2, <1>3, <2>1, <2>2
  <2>3. CASE call[c].id # id
    BY <1>3, <2>1, <2>3
  <2> QED BY <2>2, <2>3
<1> QED BY <1>4, <1>5

\* Layouts and reservations are deleted at any time.
LEMMA RowsAreDeleted ==
  ASSUME AllTaken, CatalogueInv
  PROVE  /\ \A l \in LayoutIDs : DeleteLayout(l) => CatalogueInv'
         /\ \A b \in BookingIDs : DeleteBooking(b) => CatalogueInv'
<1>1. ASSUME NEW l \in LayoutIDs, DeleteLayout(l) PROVE CatalogueInv'
  <2>1. /\ layout' = [layout EXCEPT ![l] = None] /\ call' = Outdated(l) /\ edits < MaxEdits /\ edits' = edits + 1
        /\ UNCHANGED <<size, image, place, project, booking, host, cleanup>>
    BY <1>1 DEF DeleteLayout
  <2>2. Known(layout)' = Known(layout) \ {l} /\ \A k \in Known(layout)' : layout'[k] = layout[k]
    BY <2>1 DEF Known, CatalogueInv, CatalogueTyped, Tables
  <2>3. CatalogueTyped'
    BY <2>1, OutdatedSame, CatalogueAssumption DEF CatalogueInv, CatalogueTyped, Tables, LayoutRows
  <2>4. Requested'
    BY <2>1, <2>2, OutdatedSame, StaysFounded DEF Made, Usable
  <2>5. Apart' /\ ReferencesValid' /\ Owned' /\ Cleaning'
    BY <2>1, <2>2 DEF CatalogueInv, Apart, ReferencesValid, Readable, Owned, Cleaning
  <2> QED BY <2>3, <2>4, <2>5 DEF CatalogueInv
<1>2. ASSUME NEW b \in BookingIDs, DeleteBooking(b) PROVE CatalogueInv'
  <2>1. /\ booking' = [booking EXCEPT ![b] = NoBooking] /\ call' = Outdated(b)
        /\ edits < MaxEdits /\ edits' = edits + 1
        /\ UNCHANGED <<size, layout, image, place, project, host, cleanup>>
    BY <1>2 DEF DeleteBooking
  <2>2. \A d \in BookingIDs : Made(d)' => Made(d) /\ booking'[d] = booking[d]
    BY <2>1 DEF Made, CatalogueInv, CatalogueTyped
  <2>3. CatalogueTyped'
    BY <2>1, OutdatedSame, CatalogueAssumption DEF CatalogueInv, CatalogueTyped, Tables
  <2>4. Requested'
    BY <2>1, <2>2, OutdatedSame, StaysFounded DEF Usable
  <2>5. ReferencesValid'
    BY <2>1, <2>2 DEF CatalogueInv, ReferencesValid, Readable, Made
  <2>6. Apart' /\ Owned' /\ Cleaning'
    BY <2>1 DEF CatalogueInv, Apart, Owned, Cleaning
  <2> QED BY <2>3, <2>4, <2>5, <2>6 DEF CatalogueInv
<1> QED BY <1>1, <1>2

\* Partitions come at any time, and go when no reservation is for them.
LEMMA PlacesChange ==
  ASSUME AllTaken, CatalogueInv, NEW p \in Places, CreatePlace(p) \/ DeletePlace(p)
  PROVE  CatalogueInv'
<1>1. /\ edits < MaxEdits /\ edits' = edits + 1
      /\ UNCHANGED <<size, layout, image, project, booking, host, call, cleanup>>
      /\ \/ place' = place \cup {p}
         \/ /\ place' = place \ {p} /\ BookingsOf("place", p) = {}
            /\ \A c \in Callers : ~Doing(c, {"createBooking", "updateBooking"})
  BY DEF CreatePlace, DeletePlace, AllTaken, CatalogueAssumptions
<1>2. CatalogueTyped'
  BY <1>1, CatalogueAssumption DEF CatalogueInv, CatalogueTyped, Tables
<1>3. Requested'
  <2>1. \/ place \subseteq place'
        \/ \A c \in Callers : ~Doing(c, {"createBooking", "updateBooking"})
    BY <1>1
  <2> QED BY <1>1, <2>1, StaysFounded DEF Made, Usable
<1>4. ReferencesValid'
  BY <1>1 DEF CatalogueInv, ReferencesValid, Readable, BookingsOf
<1>5. Apart' /\ Owned' /\ Cleaning'
  BY <1>1 DEF CatalogueInv, Apart, Owned, Cleaning
<1> QED BY <1>2, <1>3, <1>4, <1>5 DEF CatalogueInv

\* Images come, get another date, and expire when nobody is about to use them.
LEMMA ImagesChange ==
  ASSUME AllTaken, CatalogueInv, NEW i \in Images, CreateImage(i) \/ UpdateImage(i) \/ Expire(i)
  PROVE  CatalogueInv'
<1>1. /\ edits < MaxEdits /\ edits' = edits + 1
      /\ UNCHANGED <<size, layout, place, project, booking, host, call>>
      /\ \/ image[i] = "none" /\ image' = [image EXCEPT ![i] = "valid"] /\ cleanup' = cleanup
         \/ image[i] = "expired" /\ image' = [image EXCEPT ![i] = "valid"] /\ cleanup' = cleanup
         \/ /\ image[i] = "valid" /\ image' = [image EXCEPT ![i] = "expired"] /\ ~Wanted(i) /\ ~Overlooked(i)
            /\ cleanup' = cleanup \/ cleanup' = [cleanup EXCEPT !.expired = @ \cup {i}]
  BY DEF CreateImage, UpdateImage, Expire, AllTaken, CatalogueAssumptions
<1>2. /\ image \in [Images -> {"none", "valid", "expired"}] /\ image' \in [Images -> {"none", "valid", "expired"}]
      /\ \A j \in Images : j # i => image'[j] = image[j]
      /\ image'[i] # "none"
  BY <1>1 DEF CatalogueInv, CatalogueTyped, Tables
<1>10. /\ cleanup' \in CleanupState /\ cleanup'.pc = cleanup.pc /\ cleanup'.images = cleanup.images
       /\ cleanup'.used = cleanup.used /\ cleanup'.expired \subseteq cleanup.expired \cup {i}
       /\ i \in cleanup'.expired \ cleanup.expired => ~Overlooked(i)
       /\ i \in cleanup'.expired \ cleanup.expired => ~Wanted(i)
  <2>1. cleanup \in CleanupState
    BY DEF CatalogueInv, CatalogueTyped
  <2>2. cleanup.expired \cup {i} \in SUBSET Images
    BY <2>1 DEF CleanupState
  <2> QED BY <1>1, <2>1, <2>2 DEF CleanupState
<1>3. CatalogueTyped'
  BY <1>1, <1>2, <1>10, CatalogueAssumption DEF CatalogueInv, CatalogueTyped, Tables
<1>4. Requested'
  <2>1. \A j \in Images : Usable(j) /\ Wanted(j) => Usable(j)'
    BY <1>1, <1>2, <1>10 DEF Usable
  <2> QED BY <1>1, <2>1, StaysFounded DEF Made
<1>5. \A j \in Images : image[j] # "none" => image'[j] # "none"
  BY <1>2
<1>6. \A h \in Hosts : /\ host[h].image # None => host[h].image \in Images
                       /\ host[h].setup # None => host[h].setup \in Images
  BY DEF CatalogueInv, CatalogueTyped, HostRow
<1>7. ReferencesValid'
  BY <1>1, <1>5, <1>6 DEF CatalogueInv, ReferencesValid, Readable
<1>8. Cleaning'
  <2>1. ASSUME cleanup'.pc = "delete", NEW j \in cleanup'.images \cap cleanup'.expired, NEW h \in Hosts,
               host'[h].image = j
        PROVE  j \in cleanup'.used \/ host'[h].setup = j
    <3>1. CASE j \in cleanup.expired
      BY <1>1, <1>10, <2>1, <3>1 DEF CatalogueInv, Cleaning
    <3>2. CASE j \notin cleanup.expired
      <4>1. j = i /\ ~Overlooked(i)
        BY <1>10, <2>1, <3>2
      <4>2. InUse(i)
        BY <1>1, <2>1, <4>1 DEF InUse
      <4> QED BY <1>10, <2>1, <4>1, <4>2 DEF Overlooked
    <3> QED BY <3>1, <3>2
  <2>2. cleanup'.pc = "idle" => cleanup' = NoCleanup
    <3>1. SUFFICES ASSUME cleanup.pc = "idle" PROVE cleanup' = NoCleanup
      BY <1>10
    <3>2. cleanup = NoCleanup
      BY <3>1 DEF CatalogueInv, Cleaning
    <3>3. i \notin cleanup.images
      BY <3>2 DEF NoCleanup
    <3> QED BY <3>2, <3>3 DEF CreateImage, UpdateImage, Expire
  <2> QED BY <1>1, <1>5, <1>6, <2>1, <2>2 DEF CatalogueInv, Cleaning
<1>9. Apart' /\ Owned'
  BY <1>1 DEF CatalogueInv, Apart, Owned
<1> QED BY <1>3, <1>4, <1>7, <1>8, <1>9 DEF CatalogueInv

\* A cleanup lists images and machines, and ends.
LEMMA CleanupGoesOn ==
  ASSUME AllTaken, CatalogueInv, CleanupImages \/ CleanupMachines \/ CleanupEnds
  PROVE  CatalogueInv'
<1>1. /\ UNCHANGED <<size, layout, image, place, project, booking, host, call>>
      /\ edits' \in 0..MaxEdits
      /\ \/ cleanup' = [pc |-> "machines", images |-> {i \in Images : image[i] # "none"},
                        expired |-> {i \in Images : image[i] = "expired"}, used |-> {}, kept |-> {}, lost |-> {}]
         \/ /\ cleanup.pc = "machines"
            /\ cleanup' = [cleanup EXCEPT !.pc = "delete", !.used = {i \in Images : InUse(i)}]
         \/ cleanup' = NoCleanup
  <2>1. edits' = edits \/ (edits < MaxEdits /\ edits' = edits + 1)
    BY DEF CleanupImages, CleanupMachines, CleanupEnds
  <2>2. edits' \in 0..MaxEdits
    BY <2>1, CatalogueAssumption DEF CatalogueInv, CatalogueTyped
  <2> QED BY <2>2 DEF CleanupImages, CleanupMachines, CleanupEnds, NoCleanup
<1>2. cleanup \in CleanupState
  BY DEF CatalogueInv, CatalogueTyped
<1>3. CatalogueTyped'
  <2>1. cleanup' \in CleanupState
    <3>1. NoCleanup \in CleanupState
      BY DEF CleanupState, NoCleanup
    <3>2. ASSUME NEW used \in SUBSET Images
          PROVE  [cleanup EXCEPT !.pc = "delete", !.used = used] \in CleanupState
      BY <1>2 DEF CleanupState
    <3>3. ASSUME NEW is \in SUBSET Images, NEW es \in SUBSET Images
          PROVE  [pc |-> "machines", images |-> is, expired |-> es, used |-> {}, kept |-> {}, lost |-> {}] \in CleanupState
      BY DEF CleanupState
    <3> QED BY <1>1, <3>1, <3>2, <3>3
  <2> QED BY <1>1, <2>1 DEF CatalogueInv, CatalogueTyped, Tables
<1>4. Requested'
  <2>1. ASSUME NEW j \in Images, Usable(j) PROVE j \notin cleanup'.images \cap cleanup'.expired
    <3>1. CASE cleanup' = NoCleanup
      BY <3>1 DEF NoCleanup
    <3>2. CASE cleanup'.expired = {i \in Images : image[i] = "expired"}
      BY <2>1, <3>2 DEF Usable
    <3>3. CASE cleanup'.images = cleanup.images /\ cleanup'.expired = cleanup.expired
      BY <2>1, <3>3 DEF Usable
    <3>4. CASE cleanup' = [cleanup EXCEPT !.pc = "delete", !.used = {i \in Images : InUse(i)}]
      <4>1. cleanup'.images = cleanup.images /\ cleanup'.expired = cleanup.expired
        BY <1>2, <3>4 DEF CleanupState
      <4> QED BY <3>3, <4>1
    <3> QED BY <1>1, <3>1, <3>2, <3>4
  <2>2. \A j \in Images : Usable(j) => Usable(j)'
    BY <1>1, <2>1 DEF Usable
  <2> QED BY <1>1, <2>2, StaysFounded DEF Made
<1>5. Cleaning'
  <2>1. CASE cleanup' = NoCleanup
    BY <1>1, <2>1 DEF CatalogueInv, Cleaning, NoCleanup
  <2>2. CASE cleanup' = [pc |-> "machines", images |-> {i \in Images : image[i] # "none"},
                         expired |-> {i \in Images : image[i] = "expired"}, used |-> {}, kept |-> {}, lost |-> {}]
    BY <1>1, <2>2 DEF CatalogueInv, Cleaning
  <2>3. CASE /\ cleanup.pc = "machines"
             /\ cleanup' = [cleanup EXCEPT !.pc = "delete", !.used = {i \in Images : InUse(i)}]
    <3>1. /\ cleanup'.pc = "delete" /\ cleanup'.used = {i \in Images : InUse(i)}
          /\ cleanup'.images = cleanup.images /\ cleanup'.expired = cleanup.expired
          /\ cleanup.images \subseteq Images
      BY <1>2, <2>3 DEF CleanupState
    <3>2. \A i \in cleanup.images, h \in Hosts : host[h].image = i => i \in cleanup'.used
      BY <3>1 DEF InUse
    <3> QED BY <1>1, <3>1, <3>2 DEF CatalogueInv, Cleaning
  <2> QED BY <1>1, <2>1, <2>2, <2>3
<1>6. Apart' /\ ReferencesValid' /\ Owned'
  BY <1>1 DEF CatalogueInv, Apart, ReferencesValid, Readable, Owned
<1> QED BY <1>3, <1>4, <1>5, <1>6 DEF CatalogueInv

\* A cleanup takes an image from its list, and deletes it when it is an orphan: no machine has it
\* or may have it again.
LEMMA CleanupTakesImage ==
  ASSUME AllTaken, CatalogueInv, NEW i \in Images, CleanupImage(i)
  PROVE  CatalogueInv'
<1> DEFINE orphan == i[1] \in cleanup.kept /\ IsOrphan(i)
<1>1. /\ cleanup.pc = "delete" /\ i \in cleanup.images
      /\ orphan => \A h \in Hosts : host[h].setup # i
      /\ image' = IF orphan THEN [image EXCEPT ![i] = "none"] ELSE image
      /\ cleanup' = [cleanup EXCEPT !.images = @ \ {i}, !.kept = @ \cup {i[1]}]
      /\ UNCHANGED <<size, layout, place, project, booking, host, call, edits>>
  BY DEF CleanupImage, NextListed, Restorable, AllTaken, CatalogueAssumptions
<1>2. /\ cleanup \in CleanupState /\ image \in [Images -> {"none", "valid", "expired"}]
      /\ cleanup.images \subseteq Images /\ cleanup.kept \subseteq Systems /\ i[1] \in Systems
  <2>1. i[1] \in Systems
    BY DEF Images
  <2>2. cleanup \in CleanupState /\ image \in [Images -> {"none", "valid", "expired"}]
    BY DEF CatalogueInv, CatalogueTyped, Tables
  <2>3. cleanup.images \subseteq Images /\ cleanup.kept \subseteq Systems
    BY <2>2 DEF CleanupState
  <2> QED BY <2>1, <2>2, <2>3
<1>3. /\ cleanup'.pc = "delete" /\ cleanup'.images = cleanup.images \ {i}
      /\ cleanup'.expired = cleanup.expired /\ cleanup'.used = cleanup.used
  BY <1>1, <1>2 DEF CleanupState
<1>4. cleanup' \in CleanupState
  <2>1. ASSUME NEW is \in SUBSET Images, NEW ks \in SUBSET Systems
        PROVE  [cleanup EXCEPT !.images = is, !.kept = ks] \in CleanupState
    BY <1>2 DEF CleanupState
  <2> QED BY <1>1, <1>2, <2>1
<1>5. CatalogueTyped'
  BY <1>1, <1>2, <1>4 DEF CatalogueInv, CatalogueTyped, Tables
<1>6. /\ \A j \in Images : j # i => image'[j] = image[j]
      /\ image'[i] = image[i] \/ orphan
  BY <1>1, <1>2
<1>7. orphan => i \in cleanup.expired /\ i \notin cleanup.used
  BY DEF IsOrphan
<1> HIDE DEF orphan
<1>8. orphan => \A h \in Hosts : host[h].image # i
  BY <1>1, <1>7 DEF CatalogueInv, Cleaning
<1>9. orphan => ~Usable(i)
  BY <1>1, <1>7 DEF Usable
<1>10. \A h \in Hosts : /\ host[h].image # None => host[h].image \in Images
                        /\ host[h].setup # None => host[h].setup \in Images
  BY DEF CatalogueInv, CatalogueTyped, HostRow
<1>11. Requested'
  <2>1. \A j \in Images : Usable(j) => Usable(j)'
    BY <1>3, <1>6, <1>9 DEF Usable
  <2> QED BY <1>1, <2>1, StaysFounded DEF Made
<1>12. ReferencesValid'
  BY <1>1, <1>6, <1>8, <1>10 DEF CatalogueInv, ReferencesValid, Readable
<1>13. Cleaning'
  <2>1. \A h \in Hosts : host'[h].setup # None => image'[host'[h].setup] # "none"
    BY <1>1, <1>6, <1>10 DEF CatalogueInv, Cleaning
  <2>2. \A j \in cleanup'.images \cap cleanup'.expired, h \in Hosts :
           host'[h].image = j => j \in cleanup'.used \/ host'[h].setup = j
    BY <1>1, <1>3 DEF CatalogueInv, Cleaning
  <2> QED BY <1>3, <2>1, <2>2 DEF Cleaning
<1>14. Apart' /\ Owned'
  BY <1>1 DEF CatalogueInv, Apart, Owned
<1> QED BY <1>5, <1>11, <1>12, <1>13, <1>14 DEF CatalogueInv

\* An allocated machine reports its installation, goes back to the one before, or is freed.
LEMMA MachinesReport ==
  ASSUME AllTaken, CatalogueInv, NEW h \in Hosts, Report(h) \/ AbortReinstall(h) \/ FreeHost(h)
  PROVE  CatalogueInv'
<1> DEFINE old == host[h]
<1>1. PICK row :
        /\ ChangeMachine(h, row)
        /\ \/ row = [old EXCEPT !.setup = old.image, !.reinstall = FALSE]
           \/ row = [old EXCEPT !.reinstall = FALSE, !.image = IF old.setup = None THEN @ ELSE old.setup]
           \/ row = [NewHost EXCEPT !.size = old.size]
  BY DEF Report, AbortReinstall, FreeHost
<1>2. /\ old.image # None /\ host' = [host EXCEPT ![h] = row] /\ call' = Outdated(h)
      /\ UNCHANGED <<size, layout, image, place, project, booking, cleanup, edits>>
  BY <1>1 DEF ChangeMachine
<1>3. host \in [Hosts -> HostRow] /\ old \in HostRow
  BY DEF CatalogueInv, CatalogueTyped
<1>4. /\ row \in HostRow /\ row.size = old.size /\ row.project \in {old.project, None}
      /\ \/ row.setup = old.image /\ row.image = old.image /\ row.project = old.project
         \/ row.setup = old.setup /\ row.image = old.setup /\ row.project = old.project /\ old.setup # None
         \/ row.setup = old.setup /\ row.image = old.image /\ row.project = old.project
         \/ row.setup = None /\ row.image = None
  <2>1. CASE row = [old EXCEPT !.setup = old.image, !.reinstall = FALSE]
    <3> HIDE DEF old
    <3> QED BY <1>3, <2>1 DEF HostRow
  <2>2. CASE row = [old EXCEPT !.reinstall = FALSE, !.image = IF old.setup = None THEN @ ELSE old.setup]
    <3> HIDE DEF old
    <3> QED BY <1>3, <2>2 DEF HostRow
  <2>3. CASE row = [NewHost EXCEPT !.size = old.size]
    <3> HIDE DEF old
    <3> QED BY <1>3, <2>3 DEF HostRow, NewHost
  <2> QED BY <1>1, <2>1, <2>2, <2>3
<1>5. host'[h] = row /\ \A g \in Hosts : g # h => host'[g] = host[g]
  BY <1>2, <1>3
<1> HIDE DEF old
<1>6. CatalogueTyped'
  BY <1>2, <1>3, <1>4, OutdatedSame DEF CatalogueInv, CatalogueTyped, Tables
<1>7. Requested'
  <2>1. \A g \in Hosts : host'[g].project \in {host[g].project, None}
    BY <1>4, <1>5 DEF old
  <2>2. \A g \in Hosts, i \in Images :
           (host[g].image = i => host[g].setup = i) => (host'[g].image = i => host'[g].setup = i)
    BY <1>2, <1>4, <1>5, CatalogueAssumption DEF old
  <2>3. \A c \in Callers : call'[c].fresh => call[c].id # h
    BY <1>2, OutdatedSame
  <2>4. \A c \in Callers : call'[c].fresh => host'[call[c].id] = host[call[c].id]
    <3>1. \A g : g # h => host'[g] = host[g]
      BY <1>2, <1>3
    <3> QED BY <2>3, <3>1
  <2> QED BY <1>2, <2>1, <2>2, <2>4, OutdatedSame, StaysFounded DEF Made, Usable
<1>8. /\ old.size \in Known(size) \cup {"unknown", None} /\ old.project \in project \cup {None}
      /\ old.project # None /\ image[old.image] # "none"
      /\ old.setup # None => image[old.setup] # "none"
  BY <1>2 DEF old, CatalogueInv, ReferencesValid, Readable, Owned, Cleaning
<1>9. ReferencesValid'
  <2>1. ASSUME NEW g \in Hosts
        PROVE  /\ Readable(g)' /\ host'[g].project \in project \cup {None}
               /\ host'[g].image # None => image[host'[g].image] # "none"
    <3>1. CASE g = h
      BY <1>2, <1>4, <1>5, <1>8, <3>1 DEF Readable
    <3>2. CASE g # h
      BY <1>2, <1>5, <3>2 DEF CatalogueInv, ReferencesValid, Readable
    <3> QED BY <3>1, <3>2
  <2> QED BY <1>2, <2>1 DEF CatalogueInv, ReferencesValid
<1>10. Owned'
  BY <1>4, <1>5, <1>8 DEF CatalogueInv, Owned
<1>11. Cleaning'
  <2>1. \A g \in Hosts : host'[g].setup # None => image[host'[g].setup] # "none"
    BY <1>4, <1>5, <1>8 DEF CatalogueInv, Cleaning
  <2>2. cleanup.pc = "delete" => \A i \in cleanup.images \cap cleanup.expired, g \in Hosts :
           host'[g].image = i => i \in cleanup.used \/ host'[g].setup = i
    <3>1. cleanup.images \subseteq Images
      BY DEF CatalogueInv, CatalogueTyped, CleanupState
    <3>2. ASSUME cleanup.pc = "delete", NEW i \in cleanup.images \cap cleanup.expired, NEW g \in Hosts,
                 host'[g].image = i
          PROVE  i \in cleanup.used \/ host'[g].setup = i
      <4>1. host[g].image = i => i \in cleanup.used \/ host[g].setup = i
        BY <3>2 DEF CatalogueInv, Cleaning
      <4>2. i # None
        BY <3>1, CatalogueAssumption
      <4> QED BY <1>4, <1>5, <3>2, <4>1, <4>2 DEF old
    <3> QED BY <3>2
  <2> QED BY <1>2, <2>1, <2>2 DEF CatalogueInv, Cleaning
<1>12. Apart'
  BY <1>2 DEF CatalogueInv, Apart
<1> QED BY <1>6, <1>7, <1>9, <1>10, <1>11, <1>12 DEF CatalogueInv

\* Every step of the catalogue.
LEMMA CatalogueSteps ==
  ASSUME AllTaken, CatalogueInv, CatalogueNext
  PROVE  CatalogueInv'
<1>1. ASSUME NEW c \in Callers,
             \/ \E s \in SizeIDs, spec \in SizeSpecs, does \in {"createSize", "updateSize"} : WantsSize(c, does, s, spec)
             \/ \E s \in SizeIDs : WantsDeleteSize(c, s)
             \/ \E l \in LayoutIDs, spec \in LayoutSpecs, does \in {"createLayout", "updateLayout"} :
                   WantsLayout(c, does, l, spec)
             \/ \E b \in BookingIDs, row \in BookingRow : WantsBooking(c, b, row)
             \/ \E p \in Projects : WantsDeleteProject(c, p)
             \/ \E i \in Images : WantsDeleteImage(c, i)
             \/ \E h \in Hosts, hw \in Hardware : Register(c, h, hw)
             \/ \E h \in Hosts, i \in Images : \E p \in Projects : Allocate(c, h, p, i)
             \/ \E h \in Hosts, i \in Images : Reinstall(c, h, i)
      PROVE  CatalogueInv'
  BY <1>1, SizeRequestsBegin, LayoutRequestsBegin, BookingRequestsBegin, DeletionsBegin, MachineRequestsBegin
<1>2. ASSUME NEW c \in Callers,
             \/ WriteSize(c) \/ DeleteSize(c) \/ WriteLayout(c) \/ WriteBooking(c) \/ DeleteProject(c)
             \/ DeleteImage(c) \/ WriteMachine(c)
      PROVE  CatalogueInv'
  BY <1>2, WriteSizeKeeps, DeleteSizeKeeps, WriteLayoutKeeps, WriteBookingKeeps, DeleteProjectKeeps,
     DeleteImageKeeps, WriteMachineKeeps
<1>3. ASSUME \/ \E l \in LayoutIDs : DeleteLayout(l)
             \/ \E b \in BookingIDs : DeleteBooking(b)
             \/ \E p \in Places : CreatePlace(p) \/ DeletePlace(p)
             \/ \E i \in Images : CreateImage(i) \/ UpdateImage(i) \/ Expire(i) \/ CleanupImage(i)
             \/ CleanupImages \/ CleanupMachines \/ CleanupEnds
             \/ \E h \in Hosts : Report(h) \/ AbortReinstall(h) \/ FreeHost(h)
      PROVE  CatalogueInv'
  BY <1>3, RowsAreDeleted, PlacesChange, ImagesChange, CleanupTakesImage, CleanupGoesOn, MachinesReport
<1> QED BY <1>1, <1>2, <1>3 DEF CatalogueNext, BookingRow

LEMMA CatalogueStays ==
  ASSUME CatalogueInv, UNCHANGED catalogueVars
  PROVE  CatalogueInv'
<1>1. UNCHANGED <<size, layout, image, place, project, booking, host, call, cleanup, edits>>
  BY DEF catalogueVars
<1>2. CatalogueTyped'
  BY <1>1 DEF CatalogueInv, CatalogueTyped, Tables
<1>3. Apart' /\ ReferencesValid' /\ Owned' /\ Cleaning'
  BY <1>1 DEF CatalogueInv, Apart, ReferencesValid, Readable, Owned, Cleaning
<1>4. Requested'
  BY <1>1, StaysFounded DEF Made, Usable
<1> QED BY <1>2, <1>3, <1>4 DEF CatalogueInv

(***************************************************************************)
(* What the lookups rely on, with no assumption but that requests wait for *)
(* each other: the comparison a request made is still right when it writes *)
(* the row.                                                                *)
(***************************************************************************)
Compared(does, id, row) ==
    /\ does \in {"createSize", "updateSize"} => FitsSize(id, row)
    /\ does \in {"createLayout", "updateLayout"} => FitsLayout(id, row)
Entries(tasks, ids, rows, flags) == [does: tasks, id: ids, row: rows, fresh: flags]
IsEntry(k) == \E tasks, ids, rows, flags : k \in Entries(tasks, ids, rows, flags)
LookupInv ==
    /\ size \in [SizeIDs -> SizeRows] /\ layout \in [LayoutIDs -> LayoutRows] /\ Apart
    /\ call = [c \in Callers |-> call[c]] /\ \A c \in Callers : IsEntry(call[c])
    /\ \A c, d \in Callers : Busy(c) /\ Busy(d) => c = d
    /\ \A c \in Callers : Compared(call[c].does, call[c].id, call[c].row)
Serial == "serial" \in CatalogueAssumed

LEMMA NoEntry == IsEntry(NoCall) /\ NoCall.does = "nothing"
<1>1. NoCall \in Entries({"nothing"}, {None}, {None}, {TRUE})
  BY DEF NoCall, Entries
<1> QED BY <1>1 DEF IsEntry, Entries

LEMMA LookupStart == ASSUME CatalogueInit PROVE LookupInv
<1>1. size \in [SizeIDs -> SizeRows] /\ layout \in [LayoutIDs -> LayoutRows] /\ Apart
  BY CatalogueAssumption, StartAssumption DEF CatalogueInit, Apart
<1>2. call = [c \in Callers |-> NoCall]
  BY DEF CatalogueInit
<1> QED BY <1>1, <1>2, NoEntry DEF LookupInv, Busy, Compared

\* When a row is written, requests that read it only find that out later.
LEMMA OutdatedAsks ==
  ASSUME LookupInv, NEW id, NEW d \in Callers
  PROVE  /\ IsEntry(Outdated(id)[d]) /\ Outdated(id)[d].does = call[d].does
         /\ Outdated(id)[d].id = call[d].id /\ Outdated(id)[d].row = call[d].row
<1> DEFINE k == call[d]
<1>1. PICK tasks, ids, rows, flags : k \in Entries(tasks, ids, rows, flags)
  BY DEF LookupInv, IsEntry
<1>2. Outdated(id)[d] = k \/ Outdated(id)[d] = [k EXCEPT !.fresh = FALSE]
  BY DEF Outdated
<1> HIDE DEF k
<1>3. /\ Outdated(id)[d] \in Entries(tasks, ids, rows, flags \cup {FALSE})
      /\ Outdated(id)[d].does = k.does /\ Outdated(id)[d].id = k.id /\ Outdated(id)[d].row = k.row
  BY <1>1, <1>2 DEF Entries
<1> QED BY <1>3 DEF IsEntry, k

\* What becomes of requests when a row is written.
RequestsEnd == call' = call \/ (\E id : call' = Outdated(id)) \/ \E c \in Callers : End(c)
LEMMA CallsEnd ==
  ASSUME LookupInv, RequestsEnd
  PROVE  /\ call' = [d \in Callers |-> call'[d]]
         /\ \A d \in Callers : /\ IsEntry(call'[d])
                               /\ \/ call'[d].does = "nothing"
                                  \/ /\ call'[d].does = call[d].does
                                     /\ call'[d].id = call[d].id /\ call'[d].row = call[d].row
<1>1. CASE call' = call
  BY <1>1 DEF LookupInv
<1>2. ASSUME NEW id, call' = Outdated(id)
      PROVE  /\ call' = [d \in Callers |-> call'[d]]
             /\ \A d \in Callers : /\ IsEntry(call'[d]) /\ call'[d].does = call[d].does
                                   /\ call'[d].id = call[d].id /\ call'[d].row = call[d].row
  BY <1>2, OutdatedAsks DEF Outdated
<1>3. ASSUME NEW c \in Callers, End(c)
      PROVE  /\ call' = [d \in Callers |-> call'[d]]
             /\ call'[c] = NoCall
             /\ \A d \in Callers \ {c} : /\ IsEntry(call'[d]) /\ call'[d].does = call[d].does
                                         /\ call'[d].id = call[d].id /\ call'[d].row = call[d].row
  <2> DEFINE o == Outdated(call[c].id)
  <2>1. call' = [o EXCEPT ![c] = NoCall] /\ o = [d \in Callers |-> o[d]]
    BY <1>3 DEF End, Outdated
  <2>2. \A d \in Callers : /\ IsEntry(o[d]) /\ o[d].does = call[d].does
                           /\ o[d].id = call[d].id /\ o[d].row = call[d].row
    BY OutdatedAsks
  <2> HIDE DEF o
  <2> QED BY <2>1, <2>2
<1> QED BY <1>1, <1>2, <1>3, NoEntry DEF RequestsEnd

\* Requests go on when the tables of sizes and layouts are as they were, or one row less.
LEMMA RequestsStay ==
  ASSUME LookupInv, RequestsEnd,
         size' \in [SizeIDs -> SizeRows], layout' \in [LayoutIDs -> LayoutRows],
         Known(size)' \subseteq Known(size), \A t \in Known(size)' : size'[t] = size[t],
         Known(layout)' \subseteq Known(layout), \A l \in Known(layout)' : layout'[l] = layout[l]
  PROVE  LookupInv'
<1>1. Apart'
  BY DEF LookupInv, Apart
<1>2. \A does, id, row : Compared(does, id, row) => Compared(does, id, row)'
  BY DEF Compared, FitsSize, FitsLayout
<1>3. ASSUME NEW d \in Callers PROVE Compared(call[d].does, call[d].id, call[d].row)'
  <2>1. PICK does, id, row : /\ Compared(does, id, row)'
                             /\ does = call[d].does /\ id = call[d].id /\ row = call[d].row
    BY <1>2 DEF LookupInv
  <2> QED BY <2>1, CallsEnd DEF Compared, FitsSize, FitsLayout
<1>4. \A c, d \in Callers : Busy(c)' /\ Busy(d)' => c = d
  BY CallsEnd DEF LookupInv, Busy
<1> QED BY <1>1, <1>3, <1>4, CallsEnd DEF LookupInv

\* They may rely on nothing when the only one has ended.
LEMMA LastRequest ==
  ASSUME LookupInv, NEW c \in Callers, Busy(c), End(c), Apart',
         size' \in [SizeIDs -> SizeRows], layout' \in [LayoutIDs -> LayoutRows]
  PROVE  LookupInv'
<1>1. call'[c].does = "nothing"
  <2>1. Outdated(call[c].id) = [d \in Callers |-> Outdated(call[c].id)[d]]
    BY DEF Outdated
  <2> QED BY <2>1, NoEntry DEF End
<1>2. \A d \in Callers : call'[d].does = "nothing"
  BY <1>1, CallsEnd DEF LookupInv, Busy, RequestsEnd
<1>3. \A d \in Callers : Compared(call[d].does, call[d].id, call[d].row)'
  BY <1>2 DEF Compared
<1> QED BY <1>2, <1>3, CallsEnd DEF LookupInv, Busy, RequestsEnd

\* A request begins when no other is under way.
LEMMA RequestsBegin ==
  ASSUME Serial, LookupInv, NEW c \in Callers, NEW does, NEW id, NEW row, Begin(c, does, id, row),
         Compared(does, id, row)
  PROVE  LookupInv'
<1> DEFINE k == [does |-> does, id |-> id, row |-> row, fresh |-> TRUE]
<1>1. /\ \A d \in Callers : call[d] = NoCall
      /\ call' = [call EXCEPT ![c] = k]
      /\ UNCHANGED <<size, layout>>
  BY DEF Begin, Serial
<1>2. Compared(does, id, row)'
  BY <1>1 DEF Compared, FitsSize, FitsLayout
<1>3. IsEntry(k) /\ k.does = does /\ k.id = id /\ k.row = row
  <2>1. k \in Entries({does}, {id}, {row}, {TRUE})
    BY DEF Entries
  <2> QED BY <2>1 DEF IsEntry
<1> HIDE DEF k
<1>4. /\ call' = [d \in Callers |-> call'[d]]
      /\ \A d \in Callers : call'[d] = IF d = c THEN k ELSE NoCall
  BY <1>1 DEF LookupInv
<1>5. \A d \in Callers : IsEntry(call'[d]) /\ (d # c => call'[d].does = "nothing")
  BY <1>3, <1>4, NoEntry
<1>6. ASSUME NEW d \in Callers PROVE Compared(call[d].does, call[d].id, call[d].row)'
  BY <1>2, <1>3, <1>4, <1>5 DEF Compared, FitsSize, FitsLayout
<1>7. \A d, e \in Callers : Busy(d)' /\ Busy(e)' => d = e
  BY <1>5 DEF Busy
<1>8. size' \in [SizeIDs -> SizeRows] /\ layout' \in [LayoutIDs -> LayoutRows] /\ Apart'
  BY <1>1 DEF LookupInv, Apart
<1> QED BY <1>4, <1>5, <1>6, <1>7, <1>8 DEF LookupInv

LEMMA LookupRequests ==
  ASSUME Serial, LookupInv, NEW c \in Callers,
         \/ \E s \in SizeIDs, spec \in SizeSpecs, does \in {"createSize", "updateSize"} : WantsSize(c, does, s, spec)
         \/ \E s \in SizeIDs : WantsDeleteSize(c, s)
         \/ \E l \in LayoutIDs, spec \in LayoutSpecs, does \in {"createLayout", "updateLayout"} :
               WantsLayout(c, does, l, spec)
         \/ \E b \in BookingIDs, row \in [size: SizeIDs, place: Places, project: Projects] : WantsBooking(c, b, row)
         \/ \E p \in Projects : WantsDeleteProject(c, p)
         \/ \E i \in Images : WantsDeleteImage(c, i)
         \/ \E h \in Hosts, hw \in Hardware : Register(c, h, hw)
         \/ \E h \in Hosts, i \in Images : \E p \in Projects : Allocate(c, h, p, i)
         \/ \E h \in Hosts, i \in Images : Reinstall(c, h, i)
  PROVE  LookupInv'
<1>1. ASSUME NEW s \in SizeIDs, NEW spec \in SizeSpecs, NEW does \in {"createSize", "updateSize"},
             WantsSize(c, does, s, spec)
      PROVE  LookupInv'
  <2>1. Begin(c, does, s, spec) /\ Compared(does, s, spec)
    BY <1>1 DEF WantsSize, AcceptsSize, Compared, FitsSize
  <2> QED BY <2>1, RequestsBegin
<1>2. ASSUME NEW l \in LayoutIDs, NEW spec \in LayoutSpecs, NEW does \in {"createLayout", "updateLayout"},
             WantsLayout(c, does, l, spec)
      PROVE  LookupInv'
  <2>1. Begin(c, does, l, spec) /\ Compared(does, l, spec)
    BY <1>2 DEF WantsLayout, AcceptsLayout, Compared, FitsLayout
  <2> QED BY <2>1, RequestsBegin
<1>3. ASSUME NEW does \in Tasks \ {"createSize", "updateSize", "createLayout", "updateLayout"}, NEW id, NEW row,
             Begin(c, does, id, row)
      PROVE  LookupInv'
  <2>1. Compared(does, id, row)
    BY DEF Compared
  <2> QED BY <1>3, <2>1, RequestsBegin
<1>4. ASSUME \/ \E s \in SizeIDs : WantsDeleteSize(c, s)
             \/ \E b \in BookingIDs, row \in [size: SizeIDs, place: Places, project: Projects] : WantsBooking(c, b, row)
             \/ \E p \in Projects : WantsDeleteProject(c, p)
             \/ \E i \in Images : WantsDeleteImage(c, i)
             \/ \E h \in Hosts, hw \in Hardware : Register(c, h, hw)
             \/ \E h \in Hosts, i \in Images : \E p \in Projects : Allocate(c, h, p, i)
             \/ \E h \in Hosts, i \in Images : Reinstall(c, h, i)
      PROVE  \E does \in Tasks \ {"createSize", "updateSize", "createLayout", "updateLayout"} :
                \E id, row : Begin(c, does, id, row)
  <2>1. {"deleteSize", "createBooking", "updateBooking", "deleteImage", "deleteProject", "register", "allocate",
         "reinstall"} = Tasks \ {"createSize", "updateSize", "createLayout", "updateLayout"}
    BY DEF Tasks
  <2>2. \/ \E id, row : Begin(c, "deleteSize", id, row)
        \/ \E id, row : Begin(c, "createBooking", id, row)
        \/ \E id, row : Begin(c, "updateBooking", id, row)
        \/ \E id, row : Begin(c, "deleteImage", id, row)
        \/ \E id, row : Begin(c, "deleteProject", id, row)
        \/ \E id, row : Begin(c, "register", id, row)
        \/ \E id, row : Begin(c, "allocate", id, row)
        \/ \E id, row : Begin(c, "reinstall", id, row)
    BY <1>4, Zenon DEF WantsDeleteSize, WantsBooking, WantsDeleteProject, WantsDeleteImage, Register, Allocate, Reinstall
  <2> QED BY <2>1, <2>2
<1> QED BY <1>1, <1>2, <1>3, <1>4

\* A row is written that was compared with the ones there are.
LEMMA SizeWritten ==
  ASSUME LookupInv, NEW c \in Callers, WriteSize(c)
  PROVE  LookupInv'
<1> DEFINE s == call[c].id
           spec == call[c].row
<1>1. /\ FitsSize(s, spec) /\ Busy(c) /\ End(c) /\ UNCHANGED layout
      /\ size' = size \/ size' = [size EXCEPT ![s] = spec]
  BY DEF WriteSize, Doing, Put, LookupInv, Compared, Busy
<1>2. CASE size' = size
  BY <1>1, <1>2, RequestsStay DEF LookupInv, Known, RequestsEnd
<1>3. CASE size' = [size EXCEPT ![s] = spec]
  <2>1. s \in SizeIDs /\ spec \in SizeSpecs /\ spec # None /\ size \in [SizeIDs -> SizeRows]
    BY <1>1, CatalogueAssumption DEF FitsSize, LookupInv
  <2> HIDE DEF s, spec
  <2>2. Known(size)' = Known(size) \cup {s}
    BY <1>3, <2>1 DEF Known
  <2>3. size'[s] = spec /\ \A t \in Known(size) \ {s} : size'[t] = size[t]
    BY <1>3, <2>1 DEF Known
  <2>4. \A t \in Known(size) \ {s} : ~SizesOverlap(spec, size[t]) /\ ~SizesOverlap(size[t], spec)
    BY <1>1, ComparedEitherWay DEF FitsSize
  <2>5. Apart'
    <3>1. \A t, u \in Known(size)' : t # u => ~SizesOverlap(size'[t], size'[u])
      BY <2>2, <2>3, <2>4 DEF LookupInv, Apart
    <3>2. UNCHANGED Known(layout)
      BY <1>1 DEF Known
    <3> QED BY <1>1, <3>1, <3>2 DEF LookupInv, Apart
  <2>6. size' \in [SizeIDs -> SizeRows] /\ layout' \in [LayoutIDs -> LayoutRows]
    BY <1>1, <1>3, <2>1 DEF LookupInv, SizeRows
  <2> QED BY <1>1, <2>5, <2>6, LastRequest
<1> QED BY <1>1, <1>2, <1>3

LEMMA LayoutWritten ==
  ASSUME LookupInv, NEW c \in Callers, WriteLayout(c)
  PROVE  LookupInv'
<1> DEFINE l == call[c].id
           spec == call[c].row
<1>1. /\ FitsLayout(l, spec) /\ Busy(c) /\ End(c) /\ UNCHANGED size
      /\ layout' = layout \/ layout' = [layout EXCEPT ![l] = spec]
  BY DEF WriteLayout, Doing, Put, LookupInv, Compared, Busy
<1>2. CASE layout' = layout
  BY <1>1, <1>2, RequestsStay DEF LookupInv, Known, RequestsEnd
<1>3. CASE layout' = [layout EXCEPT ![l] = spec]
  <2>1. l \in LayoutIDs /\ spec \in LayoutSpecs /\ spec # None /\ layout \in [LayoutIDs -> LayoutRows]
    BY <1>1, CatalogueAssumption DEF FitsLayout, LookupInv
  <2> HIDE DEF l, spec
  <2>2. Known(layout)' = Known(layout) \cup {l}
    BY <1>3, <2>1 DEF Known
  <2>3. layout'[l] = spec /\ \A k \in Known(layout) \ {l} : layout'[k] = layout[k]
    BY <1>3, <2>1 DEF Known
  <2>4. \A k \in Known(layout) \ {l} : ~LayoutsCollide(spec, layout[k]) /\ ~LayoutsCollide(layout[k], spec)
    BY <1>1, ComparedEitherWay DEF FitsLayout
  <2>5. Apart'
    <3>1. \A j, k \in Known(layout)' : j # k => ~LayoutsCollide(layout'[j], layout'[k])
      BY <2>2, <2>3, <2>4 DEF LookupInv, Apart
    <3>2. UNCHANGED Known(size)
      BY <1>1 DEF Known
    <3> QED BY <1>1, <3>1, <3>2 DEF LookupInv, Apart
  <2>6. size' \in [SizeIDs -> SizeRows] /\ layout' \in [LayoutIDs -> LayoutRows]
    BY <1>1, <1>3, <2>1 DEF LookupInv, LayoutRows
  <2> QED BY <1>1, <2>5, <2>6, LastRequest
<1> QED BY <1>1, <1>2, <1>3

LEMMA LookupSteps ==
  ASSUME Serial, LookupInv, CatalogueNext \/ UNCHANGED catalogueVars
  PROVE  LookupInv'
<1>1. ASSUME NEW c \in Callers, WriteSize(c) \/ WriteLayout(c) PROVE LookupInv'
  BY <1>1, SizeWritten, LayoutWritten
<1>2. ASSUME NEW c \in Callers, DeleteSize(c) PROVE LookupInv'
  <2>1. /\ size' = [size EXCEPT ![call[c].id] = None] /\ UNCHANGED layout /\ End(c)
    BY <1>2 DEF DeleteSize
  <2>2. size' \in [SizeIDs -> SizeRows] /\ layout' \in [LayoutIDs -> LayoutRows]
    BY <2>1 DEF LookupInv, SizeRows
  <2>3. /\ Known(size)' \subseteq Known(size) /\ \A t \in Known(size)' : size'[t] = size[t]
        /\ Known(layout)' \subseteq Known(layout) /\ \A l \in Known(layout)' : layout'[l] = layout[l]
    BY <2>1 DEF LookupInv, Known
  <2> QED BY <2>1, <2>2, <2>3, RequestsStay DEF RequestsEnd
<1>3. ASSUME NEW l \in LayoutIDs, DeleteLayout(l) PROVE LookupInv'
  <2>1. /\ layout' = [layout EXCEPT ![l] = None] /\ UNCHANGED size /\ call' = Outdated(l)
    BY <1>3 DEF DeleteLayout
  <2>2. size' \in [SizeIDs -> SizeRows] /\ layout' \in [LayoutIDs -> LayoutRows]
    BY <2>1 DEF LookupInv, LayoutRows
  <2>3. /\ Known(size)' \subseteq Known(size) /\ \A t \in Known(size)' : size'[t] = size[t]
        /\ Known(layout)' \subseteq Known(layout) /\ \A k \in Known(layout)' : layout'[k] = layout[k]
    BY <2>1 DEF LookupInv, Known
  <2> QED BY <2>1, <2>2, <2>3, RequestsStay DEF RequestsEnd
<1>4. ASSUME UNCHANGED <<size, layout>>, RequestsEnd PROVE LookupInv'
  BY <1>4, RequestsStay DEF LookupInv, Known
<1>5. ASSUME NEW c \in Callers, WriteBooking(c) \/ DeleteProject(c) \/ DeleteImage(c) \/ WriteMachine(c)
      PROVE  UNCHANGED <<size, layout>> /\ End(c)
  BY <1>5 DEF WriteBooking, DeleteProject, DeleteImage, WriteMachine
<1>6. ASSUME \/ \E b \in BookingIDs : DeleteBooking(b)
             \/ \E p \in Places : CreatePlace(p) \/ DeletePlace(p)
             \/ \E i \in Images : CreateImage(i) \/ UpdateImage(i) \/ Expire(i) \/ CleanupImage(i)
             \/ CleanupImages \/ CleanupMachines \/ CleanupEnds
             \/ UNCHANGED catalogueVars
      PROVE  UNCHANGED <<size, layout>> /\ (call' = call \/ \E id : call' = Outdated(id))
  BY <1>6, Zenon DEF DeleteBooking, CreatePlace, DeletePlace, CreateImage, UpdateImage, Expire, CleanupImage,
     CleanupImages, CleanupMachines, CleanupEnds, catalogueVars
<1>7. ASSUME NEW h \in Hosts, Report(h) \/ AbortReinstall(h) \/ FreeHost(h)
      PROVE  UNCHANGED <<size, layout>> /\ \E id : call' = Outdated(id)
  BY <1>7 DEF Report, AbortReinstall, FreeHost, ChangeMachine
<1> QED BY <1>1, <1>2, <1>3, <1>4, <1>5, <1>6, <1>7, LookupRequests DEF CatalogueNext, RequestsEnd

(* The images of a system that a cleanup has yet to look at: there is one   *)
(* that is as new as any of them, and newer when one was kept, unless the   *)
(* newest was deleted by a request.                                         *)
Succeeds(j, i) == j[1] = i[1] /\ image[j] # "none" /\ i[2] <= j[2] /\ (i[1] \in cleanup.kept => i[2] < j[2])
CleanupRows(losses) == [pc: {"idle", "machines", "delete"}, images: SUBSET Images, expired: SUBSET Images,
                        used: SUBSET Images, kept: SUBSET Systems, lost: losses]
KeptInv ==
    /\ image \in [Images -> {"none", "valid", "expired"}] /\ (\E losses : cleanup \in CleanupRows(losses))
    /\ cleanup.pc = "idle" => cleanup = NoCleanup
    /\ \A i \in cleanup.images : i[1] \notin cleanup.lost => \E j \in Images : Succeeds(j, i)

LEMMA ImagePair == ASSUME NEW i \in Images PROVE i[1] \in Systems /\ i[2] \in Nat /\ i = <<i[1], i[2]>>
<1>1. PICK os \in Systems, v \in Versions : i = <<os, v>>
  BY DEF Images
<1> QED BY <1>1, CatalogueAssumption

\* Nobody else writes images or goes on with a cleanup.
LEMMA ImageSteps ==
  ASSUME CatalogueNext \/ UNCHANGED catalogueVars
  PROVE  \/ UNCHANGED <<image, cleanup>>
         \/ \E c \in Callers : DeleteImage(c)
         \/ \E i \in Images : CreateImage(i) \/ UpdateImage(i) \/ Expire(i) \/ CleanupImage(i)
         \/ CleanupImages \/ CleanupMachines \/ CleanupEnds
<1>1. ASSUME NEW c \in Callers,
             \/ \E s \in SizeIDs, spec \in SizeSpecs, does \in {"createSize", "updateSize"} : WantsSize(c, does, s, spec)
             \/ \E s \in SizeIDs : WantsDeleteSize(c, s)
             \/ \E l \in LayoutIDs, spec \in LayoutSpecs, does \in {"createLayout", "updateLayout"} :
                   WantsLayout(c, does, l, spec)
             \/ \E b \in BookingIDs, row \in BookingRow : WantsBooking(c, b, row)
             \/ \E p \in Projects : WantsDeleteProject(c, p)
             \/ \E j \in Images : WantsDeleteImage(c, j)
             \/ \E h \in Hosts, hw \in Hardware : Register(c, h, hw)
             \/ \E h \in Hosts, j \in Images : \E p \in Projects : Allocate(c, h, p, j)
             \/ \E h \in Hosts, j \in Images : Reinstall(c, h, j)
      PROVE  UNCHANGED <<image, cleanup>>
  BY <1>1 DEF WantsSize, WantsDeleteSize, WantsLayout, WantsBooking, WantsDeleteProject, WantsDeleteImage,
              Register, Allocate, Reinstall, Begin
<1>2. ASSUME NEW c \in Callers,
             WriteSize(c) \/ DeleteSize(c) \/ WriteLayout(c) \/ WriteBooking(c) \/ DeleteProject(c) \/ WriteMachine(c)
      PROVE  UNCHANGED <<image, cleanup>>
  BY <1>2 DEF WriteSize, DeleteSize, WriteLayout, WriteBooking, DeleteProject, WriteMachine
<1>3. ASSUME \/ \E l \in LayoutIDs : DeleteLayout(l)
             \/ \E b \in BookingIDs : DeleteBooking(b)
             \/ \E p \in Places : CreatePlace(p) \/ DeletePlace(p)
             \/ \E h \in Hosts : Report(h) \/ AbortReinstall(h) \/ FreeHost(h)
             \/ UNCHANGED catalogueVars
      PROVE  UNCHANGED <<image, cleanup>>
  BY <1>3 DEF DeleteLayout, DeleteBooking, CreatePlace, DeletePlace, Report, AbortReinstall, FreeHost, ChangeMachine,
              catalogueVars
<1> QED BY <1>1, <1>2, <1>3 DEF CatalogueNext, BookingRow

LEMMA KeptSteps ==
  ASSUME KeptInv, CatalogueNext \/ UNCHANGED catalogueVars
  PROVE  KeptInv'
<1>0. PICK losses : cleanup \in CleanupRows(losses)
  BY DEF KeptInv
<1>1. CASE UNCHANGED <<image, cleanup>>
  BY <1>1 DEF KeptInv, Succeeds
<1>2. ASSUME NEW c \in Callers, DeleteImage(c) PROVE KeptInv'
  <2> DEFINE d == call[c].id
             gone == cleanup.pc # "idle" /\ image[d] # "none" /\ Newest(d)
             lost == cleanup.lost \cup {d[1]}
  <2>1. /\ image' = [image EXCEPT ![d] = "none"]
        /\ cleanup' = IF gone THEN [cleanup EXCEPT !.lost = lost] ELSE cleanup
    BY <1>2 DEF DeleteImage
  <2> HIDE DEF d
  <2>2. /\ cleanup' \in CleanupRows(losses \cup {lost})
        /\ cleanup'.images = cleanup.images /\ cleanup'.kept = cleanup.kept
        /\ cleanup'.pc = cleanup.pc /\ cleanup.lost \subseteq cleanup'.lost
        /\ gone => d[1] \in cleanup'.lost
        /\ cleanup.pc = "idle" => cleanup' = cleanup
    <3> HIDE DEF lost
    <3>1. /\ cleanup' \in CleanupRows(losses \cup {lost})
          /\ cleanup'.images = cleanup.images /\ cleanup'.kept = cleanup.kept /\ cleanup'.pc = cleanup.pc
          /\ cleanup'.lost = IF gone THEN lost ELSE cleanup.lost
      BY <1>0, <2>1 DEF CleanupRows
    <3> QED BY <2>1, <3>1 DEF lost
  <2> HIDE DEF gone
  <2>3. image' \in [Images -> {"none", "valid", "expired"}] /\ \A j \in Images : j # d => image'[j] = image[j]
    BY <2>1 DEF KeptInv
  <2>4. ASSUME NEW i \in cleanup'.images, i[1] \notin cleanup'.lost PROVE \E j \in Images : Succeeds(j, i)'
    <3>1. PICK j \in Images : Succeeds(j, i)
      BY <2>2, <2>4 DEF KeptInv
    <3>2. CASE j # d
      BY <2>2, <2>3, <3>1, <3>2 DEF Succeeds
    <3>3. CASE j = d
      <4>1. cleanup.pc # "idle" /\ image[d] # "none" /\ ~Newest(d)
        <5>1. cleanup.pc # "idle"
          BY <2>2, <2>4 DEF KeptInv, NoCleanup
        <5>2. ~gone
          BY <2>2, <2>4, <3>1, <3>3 DEF Succeeds
        <5> QED BY <3>1, <3>3, <5>1, <5>2 DEF gone, Succeeds
      <4>2. PICK e \in Images : e[1] = d[1] /\ image[e] # "none" /\ ~(e[2] <= d[2])
        BY <4>1 DEF Newest
      <4>3. e[2] \in Nat /\ d[2] \in Nat /\ i[2] \in Nat
        <5>1. i \in Images
          BY <1>0, <2>2, <2>4 DEF CleanupRows
        <5> QED BY <3>3, <5>1, ImagePair
      <4>4. e # d
        BY <4>2, <4>3
      <4>5. i[2] < e[2]
        BY <3>1, <3>3, <4>2, <4>3 DEF Succeeds
      <4> QED BY <2>2, <2>3, <3>1, <3>3, <4>2, <4>3, <4>4, <4>5 DEF Succeeds
    <3> QED BY <3>2, <3>3
  <2> QED BY <2>2, <2>3, <2>4 DEF KeptInv
<1>3. ASSUME NEW k \in Images, CreateImage(k) \/ UpdateImage(k) \/ Expire(k) PROVE KeptInv'
  <2>1. /\ image' \in [Images -> {"none", "valid", "expired"}]
        /\ \A j \in Images : image[j] # "none" => image'[j] # "none"
    BY <1>3 DEF CreateImage, UpdateImage, Expire, KeptInv
  <2>2. /\ cleanup' \in CleanupRows(losses) /\ cleanup'.images = cleanup.images /\ cleanup'.kept = cleanup.kept
        /\ cleanup'.pc = cleanup.pc /\ cleanup'.lost = cleanup.lost
        /\ cleanup.pc = "idle" => cleanup' = cleanup
    <3>1. cleanup \in CleanupRows(losses) /\ cleanup.expired \cup {k} \in SUBSET Images
      BY <1>0 DEF CleanupRows
    <3>2. cleanup.pc = "idle" => cleanup.images = {}
      BY DEF KeptInv, NoCleanup
    <3>3. \/ cleanup' = cleanup
          \/ k \in cleanup.images /\ cleanup' = [cleanup EXCEPT !.expired = @ \cup {k}]
      BY <1>3 DEF CreateImage, UpdateImage, Expire
    <3> QED BY <3>1, <3>2, <3>3 DEF CleanupRows
  <2>3. \A i : \A j \in Images : Succeeds(j, i) => Succeeds(j, i)'
    BY <2>1, <2>2 DEF Succeeds
  <2> QED BY <2>1, <2>2, <2>3 DEF KeptInv
<1>4. ASSUME NEW i \in Images, CleanupImage(i) PROVE KeptInv'
  <2> DEFINE orphan == i[1] \in cleanup.kept /\ IsOrphan(i)
  <2>1. /\ cleanup.pc = "delete" /\ i \in cleanup.images /\ \A k \in cleanup.images : k[1] = i[1] => k[2] <= i[2]
        /\ image' = IF orphan THEN [image EXCEPT ![i] = "none"] ELSE image
        /\ cleanup' = [cleanup EXCEPT !.images = @ \ {i}, !.kept = @ \cup {i[1]}]
    BY <1>4 DEF CleanupImage, NextListed
  <2>2. /\ cleanup' \in CleanupRows(losses) /\ cleanup'.images = cleanup.images \ {i} /\ cleanup'.pc = "delete"
        /\ cleanup'.kept = cleanup.kept \cup {i[1]} /\ cleanup'.lost = cleanup.lost
        /\ cleanup.images \subseteq Images
    <3>1. cleanup \in CleanupRows(losses) /\ i[1] \in Systems
      BY <1>0, ImagePair
    <3>2. cleanup.images \ {i} \in SUBSET Images /\ cleanup.kept \cup {i[1]} \in SUBSET Systems
      BY <3>1 DEF CleanupRows
    <3> QED BY <2>1, <3>1, <3>2 DEF CleanupRows
  <2>3. /\ image' \in [Images -> {"none", "valid", "expired"}]
        /\ \A j \in Images : j # i => image'[j] = image[j]
        /\ i[1] \notin cleanup.kept => image' = image
    BY <2>1 DEF KeptInv
  <2> HIDE DEF orphan
  <2>4. ASSUME NEW k \in cleanup'.images, k[1] \notin cleanup'.lost PROVE \E j \in Images : Succeeds(j, k)'
    <3>1. k \in Images /\ k # i /\ k[2] \in Nat /\ i[2] \in Nat /\ \A j \in Images : j[2] \in Nat
      BY <2>2, <2>4, ImagePair
    <3>2. CASE k[1] # i[1]
      <4>1. PICK j \in Images : Succeeds(j, k)
        BY <2>2, <2>4 DEF KeptInv
      <4>2. j # i
        BY <3>2, <4>1 DEF Succeeds
      <4> QED BY <2>2, <2>3, <3>2, <4>1, <4>2 DEF Succeeds
    <3>3. CASE k[1] = i[1]
      <4>1. k[2] < i[2]
        <5>1. k[2] <= i[2]
          BY <2>1, <2>2, <2>4, <3>3
        <5>2. k[2] # i[2]
          BY <3>1, <3>3, ImagePair
        <5> QED BY <3>1, <5>1, <5>2
      <4>2. PICK j \in Images : Succeeds(j, i)
        BY <2>1, <2>2, <2>4, <3>3 DEF KeptInv
      <4>3. image'[j] # "none"
        <5>1. CASE i[1] \in cleanup.kept
          <6>1. j # i
            BY <3>1, <4>2, <5>1 DEF Succeeds
          <6> QED BY <2>3, <4>2, <6>1 DEF Succeeds
        <5>2. CASE i[1] \notin cleanup.kept
          BY <2>3, <4>2, <5>2 DEF Succeeds
        <5> QED BY <5>1, <5>2
      <4>4. k[2] < j[2]
        BY <3>1, <4>1, <4>2 DEF Succeeds
      <4> QED BY <3>1, <3>3, <4>2, <4>3, <4>4 DEF Succeeds
    <3> QED BY <3>2, <3>3
  <2> QED BY <2>2, <2>3, <2>4 DEF KeptInv
<1>5. CASE CleanupImages
  <2>1. /\ UNCHANGED image
        /\ cleanup' = [pc |-> "machines", images |-> {i \in Images : image[i] # "none"},
                       expired |-> {i \in Images : image[i] = "expired"}, used |-> {}, kept |-> {}, lost |-> {}]
    BY <1>5 DEF CleanupImages, NoCleanup
  <2>2. \A i \in cleanup'.images : Succeeds(i, i)'
    BY <2>1, ImagePair DEF Succeeds
  <2>3. cleanup' \in CleanupRows({{}})
    BY <2>1 DEF CleanupRows
  <2> QED BY <2>1, <2>2, <2>3 DEF KeptInv
<1>6. CASE CleanupMachines
  <2>1. /\ UNCHANGED image /\ cleanup.pc = "machines"
        /\ cleanup' = [cleanup EXCEPT !.pc = "delete", !.used = {i \in Images : InUse(i)}]
    BY <1>6 DEF CleanupMachines
  <2>2. /\ cleanup' \in CleanupRows(losses) /\ cleanup'.pc = "delete" /\ cleanup'.images = cleanup.images
        /\ cleanup'.kept = cleanup.kept /\ cleanup'.lost = cleanup.lost
    <3>1. ASSUME NEW used \in SUBSET Images
          PROVE  LET new == [cleanup EXCEPT !.pc = "delete", !.used = used]
                 IN /\ new \in CleanupRows(losses) /\ new.pc = "delete" /\ new.images = cleanup.images
                    /\ new.kept = cleanup.kept /\ new.lost = cleanup.lost
      BY <1>0 DEF CleanupRows
    <3> QED BY <2>1, <3>1
  <2> QED BY <2>1, <2>2 DEF KeptInv, Succeeds
<1>7. CASE CleanupEnds
  <2>1. UNCHANGED image /\ cleanup' = NoCleanup
    BY <1>7 DEF CleanupEnds
  <2>2. NoCleanup \in CleanupRows({{}}) /\ NoCleanup.images = {}
    BY DEF NoCleanup, CleanupRows
  <2> QED BY <2>1, <2>2 DEF KeptInv
<1> QED BY <1>1, <1>2, <1>3, <1>4, <1>5, <1>6, <1>7, ImageSteps

LEMMA KeptStart == CatalogueInit => KeptInv
<1>1. NoCleanup \in CleanupRows({{}}) /\ NoCleanup.images = {}
  BY DEF NoCleanup, CleanupRows
<1> QED BY <1>1, CatalogueAssumption DEF CatalogueInit, KeptInv

\* The newest image is not deleted by a cleanup.
LEMMA NewestIsKept ==
  ASSUME KeptInv, NEW i \in Images, CleanupImage(i), image[i] # "none", Newest(i), i[1] \notin cleanup.lost
  PROVE  image'[i] # "none"
<1>1. PICK j \in Images : Succeeds(j, i)
  BY DEF CleanupImage, NextListed, KeptInv
<1>2. j[2] <= i[2] /\ j[2] \in Nat /\ i[2] \in Nat
  BY <1>1, ImagePair DEF Newest, Succeeds
<1>3. i[1] \notin cleanup.kept
  BY <1>1, <1>2 DEF Succeeds
<1> QED BY <1>3 DEF CleanupImage

-----------------------------------------------------------------------------
(* The election.                                                           *)

\* A partition has one election at a time, by its mutex, and what a request is for and has
\* chosen goes with how far it is.
Elections ==
    /\ \A c \in Requests : /\ request[c].pc = "idle" <=> request[c].project = Nobody
                           /\ request[c].pc = "commit" => request[c].server \in Servers
                           /\ request[c].pc \in {"search"} \cup Electing => request[c].server = Nobody
    /\ \A c, d \in Requests : request[c].pc \in Electing /\ request[d].pc \in Electing => c = d
OneEach == \A c, d \in Requests :
    request[c].project = request[d].project /\ request[c].project # Nobody => c = d

ElectionInv == ElectionTypeOK /\ Elections /\ ("oneRequest" \in ElectionAssumed => OneEach)

ServerRow == [project: Tenants \cup {Nobody}, role: Roles, tags: SUBSET PlacementTags,
              pre: BOOLEAN, waiting: BOOLEAN, alive: BOOLEAN]
ReservationRow == [project: Tenants \cup {Nobody}, amount: 0..MaxAmount]
RequestRow == [pc: {"idle", "search", "commit"} \cup Electing, project: Tenants \cup {Nobody}, role: Roles,
               tags: SUBSET PlacementTags, server: Servers \cup {Nobody},
               available: SUBSET Servers, fresh: SUBSET Servers, rows: MachineRows, bookings: ReservationRows]

\* The rows that the type invariant speaks of.
LEMMA TypedRows ==
  /\ ElectionTypeOK => /\ server \in [Servers -> ServerRow] /\ request \in [Requests -> RequestRow]
                       /\ reservation \in [Reservations -> ReservationRow]
                       /\ requests \in 0..MaxRequests /\ changes \in 0..MaxChanges
  /\ /\ server \in [Servers -> ServerRow] /\ request \in [Requests -> RequestRow]
     /\ reservation \in [Reservations -> ReservationRow]
     /\ requests \in 0..MaxRequests /\ changes \in 0..MaxChanges
     => ElectionTypeOK
  /\ MachineRows = [Servers -> ServerRow] /\ ReservationRows = [Reservations -> ReservationRow]
<1>1. MachineRows = [Servers -> ServerRow] /\ ReservationRows = [Reservations -> ReservationRow]
  BY DEF MachineRows, ReservationRows, ServerRow, ReservationRow
<1> QED BY <1>1 DEF ElectionTypeOK, RequestRow

\* The rows of machines that are nobody's, and of requests that nobody makes or that found one.
LEMMA NewRows ==
  /\ FreeServer \in ServerRow /\ NoReservation \in ReservationRow
  /\ NoRequest \in RequestRow /\ NoRequest.pc = "idle" /\ NoRequest.project = Nobody /\ NoRequest.server = Nobody
<1>1. FreeServer \in ServerRow /\ NoReservation \in ReservationRow
  BY ElectionAssumption DEF FreeServer, ServerRow, Roles, NoReservation, ReservationRow
<1>2. NoRequest \in RequestRow /\ NoRequest.pc = "idle" /\ NoRequest.project = Nobody /\ NoRequest.server = Nobody
  <2>1. [m \in Servers |-> FreeServer] \in MachineRows /\ [i \in Reservations |-> NoReservation] \in ReservationRows
    BY <1>1, TypedRows
  <2> DEFINE rows == [m \in Servers |-> FreeServer]
             bookings == [i \in Reservations |-> NoReservation]
  <2>2. NoRequest = [pc |-> "idle", project |-> Nobody, role |-> "machine", tags |-> {}, server |-> Nobody,
                     available |-> {}, fresh |-> {}, rows |-> rows, bookings |-> bookings]
    BY DEF NoRequest
  <2> HIDE DEF rows, bookings
  <2>3. rows \in MachineRows /\ bookings \in ReservationRows
    BY <2>1 DEF rows, bookings
  <2> QED BY <2>2, <2>3 DEF RequestRow, Roles
<1> QED BY <1>1, <1>2

LEMMA SoughtRow ==
  ASSUME NEW p \in Tenants, NEW role \in Roles, NEW tags \in SUBSET PlacementTags
  PROVE  /\ Sought(p, role, tags) \in RequestRow /\ Sought(p, role, tags).pc = "search"
         /\ Sought(p, role, tags).project = p /\ Sought(p, role, tags).server = Nobody
         /\ Sought(p, role, tags).role = role
BY NewRows DEF RequestRow, Sought
LEMMA ChosenRow ==
  ASSUME NEW p \in Tenants, NEW role \in Roles, NEW tags \in SUBSET PlacementTags, NEW m \in Servers
  PROVE  /\ Chosen(p, role, tags, m) \in RequestRow /\ Chosen(p, role, tags, m).pc = "commit"
         /\ Chosen(p, role, tags, m).project = p /\ Chosen(p, role, tags, m).server = m
         /\ Chosen(p, role, tags, m).role = role
<1> DEFINE r == Sought(p, role, tags)
<1>1. r \in RequestRow /\ r.project = p /\ r.role = role
  BY SoughtRow
<1> HIDE DEF r
<1>2. [r EXCEPT !.pc = "commit", !.server = m, !.fresh = {m}] \in RequestRow
  BY <1>1 DEF RequestRow
<1>3. Chosen(p, role, tags, m) = [r EXCEPT !.pc = "commit", !.server = m, !.fresh = {m}]
  BY DEF Chosen, r
<1> QED BY <1>1, <1>2, <1>3 DEF RequestRow

LEMMA ElectionStart == ASSUME ElectionInit PROVE ElectionInv
<1>1. ElectionTypeOK
  <2>1. requests \in 0..MaxRequests /\ changes \in 0..MaxChanges
    BY ElectionAssumption DEF ElectionInit
  <2>3. FreeServer \in ServerRow /\ NoRequest \in RequestRow
    BY NewRows
  <2>4. server \in [Servers -> ServerRow] /\ request \in [Requests -> RequestRow]
    BY <2>3 DEF ElectionInit
  <2>2. reservation \in [Reservations -> ReservationRow]
    BY ElectionAssumption DEF ElectionInit, ReservationRow
  <2> QED BY <2>1, <2>2, <2>4, TypedRows
<1>2. \A c \in Requests : request[c].pc = "idle" /\ request[c].project = Nobody
  BY NewRows DEF ElectionInit
<1>3. Elections /\ OneEach
  BY <1>2 DEF Elections, OneEach, Electing
<1> QED BY <1>1, <1>3 DEF ElectionInv

\* What a request that another one's step concerns at most by a row keeps.
Same(d) == /\ request'[d].pc = request[d].pc /\ request'[d].project = request[d].project
           /\ request'[d].server = request[d].server /\ request'[d].available = request[d].available
           /\ request'[d].rows = request[d].rows /\ request'[d].bookings = request[d].bookings
           /\ request'[d].role = request[d].role

\* A step changes one request, for which what it has to be is so; of the others it makes at
\* most a copy of a row outdated.
LEMMA OneRequestChanges ==
  ASSUME ElectionInv, NEW c \in Requests, NEW next \in RequestRow,
         request' \in [Requests -> RequestRow], request'[c] = next,
         \A d \in Requests : d # c => Same(d),
         next.pc = "idle" <=> next.project = Nobody,
         next.pc = "commit" => next.server \in Servers,
         next.pc \in {"search"} \cup Electing => next.server = Nobody,
         next.pc \in Electing => \A d \in Requests : d # c => request[d].pc \notin Electing,
         \/ next.project \in {request[c].project, Nobody}
         \/ "oneRequest" \in ElectionAssumed => UnderWayFor(next.project) = {}
  PROVE  Elections' /\ ("oneRequest" \in ElectionAssumed => OneEach')
<1>1. Elections'
  BY DEF ElectionInv, Elections, Same
<1>2. ASSUME "oneRequest" \in ElectionAssumed PROVE OneEach'
  BY <1>2 DEF ElectionInv, OneEach, UnderWayFor, Same
<1> QED BY <1>1, <1>2

\* One request changes, and nothing else.
LEMMA RequestChanges ==
  ASSUME ElectionInv, NEW c \in Requests, NEW next \in RequestRow, request' = [request EXCEPT ![c] = next]
  PROVE  /\ request' \in [Requests -> RequestRow] /\ request'[c] = next
         /\ \A d \in Requests : d # c => request'[d] = request[d] /\ Same(d)
<1>1. request \in [Requests -> RequestRow]
  BY TypedRows DEF ElectionInv
<1> QED BY <1>1 DEF Same

\* The copies of a row are outdated.
LEMMA CopiesOutdated ==
  ASSUME ElectionInv, NEW m, NEW c \in Requests, NEW next \in RequestRow, Proceed(m, c, next)
  PROVE  /\ request' \in [Requests -> RequestRow]
         /\ request'[c] = next
         /\ \A d \in Requests : d # c => Same(d)
<1>1. ASSUME NEW r \in RequestRow
      PROVE  LET s == [r EXCEPT !.fresh = @ \ {m}] IN
             s \in RequestRow /\ s.pc = r.pc /\ s.project = r.project /\ s.server = r.server
             /\ s.available = r.available /\ s.rows = r.rows /\ s.bookings = r.bookings /\ s.role = r.role
  BY DEF RequestRow
<1>2. \A d \in Requests : request[d] \in RequestRow
  BY TypedRows DEF ElectionInv
<1> QED BY <1>1, <1>2 DEF Proceed, Same
LEMMA AllOutdated ==
  ASSUME ElectionInv, NEW m, Outdate(m)
  PROVE  request' \in [Requests -> RequestRow] /\ \A d \in Requests : Same(d)
<1>1. ASSUME NEW r \in RequestRow
      PROVE  LET s == [r EXCEPT !.fresh = @ \ {m}] IN
             s \in RequestRow /\ s.pc = r.pc /\ s.project = r.project /\ s.server = r.server
             /\ s.available = r.available /\ s.rows = r.rows /\ s.bookings = r.bookings /\ s.role = r.role
  BY DEF RequestRow
<1>2. \A d \in Requests : request[d] \in RequestRow
  BY TypedRows DEF ElectionInv
<1> QED BY <1>1, <1>2 DEF Outdate, Same

\* A row of a machine changes.
LEMMA ServerChanges ==
  ASSUME ElectionTypeOK, NEW m \in Servers, NEW row \in ServerRow, WriteServer(m, row)
  PROVE  /\ server' \in [Servers -> ServerRow] /\ server'[m] = row
         /\ \A s \in Servers : s # m => server'[s] = server[s]
<1>1. server \in [Servers -> ServerRow]
  BY TypedRows
<1> QED BY <1>1 DEF WriteServer

LEMMA RequestKeeps ==
  ASSUME ElectionInv, NEW c \in Requests, NEW p \in Tenants, NEW role \in Roles,
         NEW tags \in SUBSET PlacementTags, NEW m \in Servers \cup {Nobody}, Request(c, p, role, tags, m)
  PROVE  /\ ElectionInv'
         /\ \E next \in RequestRow : /\ request' = [request EXCEPT ![c] = next] /\ next.project = p
                                     /\ next.pc \in {"search", "commit"}
<1>1. /\ requests < MaxRequests /\ requests' = requests + 1 /\ UNCHANGED <<server, reservation, changes>>
      /\ "oneRequest" \in ElectionAssumed => UnderWayFor(p) = {}
      /\ \/ m = Nobody /\ request' = [request EXCEPT ![c] = Sought(p, role, tags)]
         \/ m \in Servers /\ request' = [request EXCEPT ![c] = Chosen(p, role, tags, m)]
  BY DEF Request
<1>2. /\ Sought(p, role, tags) \in RequestRow /\ Sought(p, role, tags).pc = "search"
      /\ Sought(p, role, tags).project = p /\ Sought(p, role, tags).server = Nobody
  BY SoughtRow
<1>7. ASSUME m \in Servers
      PROVE  /\ Chosen(p, role, tags, m) \in RequestRow /\ Chosen(p, role, tags, m).pc = "commit"
             /\ Chosen(p, role, tags, m).project = p /\ Chosen(p, role, tags, m).server = m
  BY <1>7, ChosenRow
<1>3. PICK next \in RequestRow : /\ request' = [request EXCEPT ![c] = next] /\ next.project = p
                                 /\ \/ next.pc = "search" /\ next.server = Nobody
                                    \/ next.pc = "commit" /\ next.server \in Servers
  BY <1>1, <1>2, <1>7
<1>4. /\ request' \in [Requests -> RequestRow] /\ request'[c] = next
      /\ \A d \in Requests : d # c => Same(d)
  BY <1>3, RequestChanges
<1>5. Elections' /\ ("oneRequest" \in ElectionAssumed => OneEach')
  BY <1>1, <1>3, <1>4, ElectionAssumption, OneRequestChanges DEF Electing
<1>6. ElectionTypeOK'
  BY <1>1, <1>4, ElectionAssumption DEF ElectionInv, ElectionTypeOK, RequestRow
<1> QED BY <1>3, <1>5, <1>6 DEF ElectionInv

\* A request goes on by itself.
LEMMA AloneKeeps ==
  ASSUME ElectionInv, NEW c \in Requests, NEW next \in RequestRow, request' = [request EXCEPT ![c] = next],
         next.pc = "idle" <=> next.project = Nobody, next.pc # "commit",
         next.pc \in {"search"} \cup Electing => next.server = Nobody,
         next.pc \in Electing => \A d \in Requests : d # c => request[d].pc \notin Electing,
         next.project \in {request[c].project, Nobody},
         UNCHANGED <<server, reservation, requests, changes>>
  PROVE  ElectionInv'
<1>1. /\ request' \in [Requests -> RequestRow] /\ request'[c] = next
      /\ \A d \in Requests : d # c => Same(d)
  BY RequestChanges
<1>2. Elections' /\ ("oneRequest" \in ElectionAssumed => OneEach')
  BY <1>1, OneRequestChanges
<1>3. ElectionTypeOK'
  BY <1>1 DEF ElectionInv, ElectionTypeOK, RequestRow
<1> QED BY <1>2, <1>3 DEF ElectionInv

\* A request that fails is over.
LEMMA GiveUpKeeps ==
  ASSUME ElectionInv, NEW c \in Requests, GiveUp(c), UNCHANGED <<reservation, requests, changes>>
  PROVE  ElectionInv'
BY NewRows, AloneKeeps DEF GiveUp, Electing

\* What the reads of an election add to it.
Reading(c) == SearchWaiting(c) \/ ListContainers(c) \/ SearchMachines(c) \/ SearchReservations(c)
Reads(c, next) ==
    /\ next \in RequestRow /\ next.project = request[c].project /\ next.server = request[c].server
    /\ next.role = request[c].role
    /\ \/ /\ request[c].pc = "search" /\ next.pc = "containers" /\ next.available = Candidates
          /\ \A d \in Requests : request[d].pc \notin Electing
       \/ /\ request[c].pc = "containers" /\ next.pc = "machines"
          /\ next.available = {m \in request[c].available : server[m].alive}
       \/ /\ request[c].pc = "machines" /\ next.pc = "reservations" /\ next.available = request[c].available
          /\ next.rows = server
       \/ /\ request[c].pc = "reservations" /\ next.pc = "mark" /\ next.available = request[c].available
          /\ next.rows = request[c].rows /\ next.bookings = reservation

LEMMA ReadingReads ==
  ASSUME ElectionInv, NEW c \in Requests, Reading(c)
  PROVE  /\ UNCHANGED <<server, reservation, requests, changes>>
         /\ request[c].pc \in {"search"} \cup Electing
         /\ GiveUp(c) \/ \E next : Reads(c, next) /\ request' = [request EXCEPT ![c] = next]
<1>1. /\ request \in [Requests -> RequestRow] /\ request[c] \in RequestRow
      /\ server \in MachineRows /\ reservation \in ReservationRows /\ Candidates \subseteq Servers
  BY TypedRows DEF ElectionInv, Candidates
<1>2. CASE SearchWaiting(c)
  <2> DEFINE next == [request[c] EXCEPT !.pc = "containers", !.available = Candidates, !.fresh = Candidates]
  <2>1. /\ request[c].pc = "search" /\ \A d \in Requests : request[d].pc \notin Electing
        /\ request' = [request EXCEPT ![c] = next] /\ UNCHANGED <<server, reservation, requests, changes>>
    BY <1>1, <1>2 DEF SearchWaiting
  <2>2. Reads(c, next)
    BY <1>1, <2>1 DEF Reads, RequestRow, Electing
  <2> QED BY <2>1, <2>2
<1>3. CASE ListContainers(c)
  <2> DEFINE alive == {m \in request[c].available : server[m].alive}
             next == [request[c] EXCEPT !.pc = "machines", !.available = alive]
  <2>1. /\ request[c].pc = "containers" /\ UNCHANGED <<server, reservation, requests, changes>>
        /\ GiveUp(c) \/ request' = [request EXCEPT ![c] = next]
    BY <1>1, <1>3 DEF ListContainers, GiveUp
  <2>2. Reads(c, next)
    BY <1>1, <2>1 DEF Reads, RequestRow, Electing
  <2> QED BY <2>1, <2>2 DEF Electing
<1>4. CASE SearchMachines(c)
  <2> DEFINE next == [request[c] EXCEPT !.pc = "reservations", !.rows = server]
  <2>1. /\ request[c].pc = "machines" /\ UNCHANGED <<server, reservation, requests, changes>>
        /\ request' = [request EXCEPT ![c] = next]
    BY <1>1, <1>4 DEF SearchMachines
  <2>2. Reads(c, next)
    BY <1>1, <2>1 DEF Reads, RequestRow, Electing
  <2> QED BY <2>1, <2>2 DEF Electing
<1>5. CASE SearchReservations(c)
  <2> DEFINE next == [request[c] EXCEPT !.pc = "mark", !.bookings = reservation]
  <2>1. /\ request[c].pc = "reservations" /\ UNCHANGED <<server, reservation, requests, changes>>
        /\ request' = [request EXCEPT ![c] = next]
    BY <1>1, <1>5 DEF SearchReservations
  <2>2. Reads(c, next)
    BY <1>1, <2>1 DEF Reads, RequestRow, Electing
  <2> QED BY <2>1, <2>2 DEF Electing
<1> QED BY <1>2, <1>3, <1>4, <1>5 DEF Reading

LEMMA ReadingKeeps ==
  ASSUME ElectionInv, NEW c \in Requests, Reading(c)
  PROVE  ElectionInv'
<1>1. UNCHANGED <<server, reservation, requests, changes>> /\ request[c].pc \in {"search"} \cup Electing
  BY ReadingReads
<1>2. CASE GiveUp(c)
  BY <1>1, <1>2, GiveUpKeeps
<1>3. ASSUME NEW next, Reads(c, next), request' = [request EXCEPT ![c] = next] PROVE ElectionInv'
  <2>1. /\ request[c].server = Nobody /\ request[c].project # Nobody
        /\ next.pc \in Electing => \A d \in Requests : d # c => request[d].pc \notin Electing
    BY <1>1, <1>3 DEF ElectionInv, Elections, Reads, Electing
  <2>2. next.pc \in Electing
    BY <1>3 DEF Reads, Electing
  <2> QED BY <1>1, <1>3, <2>1, <2>2, AloneKeeps DEF Reads, Electing
<1> QED BY <1>2, <1>3, ReadingReads

\* A row of a machine is written by a request that goes on, or by nobody.
LEMMA WriteKeeps ==
  ASSUME ElectionInv, NEW m \in Servers, NEW row \in ServerRow, WriteServer(m, row),
         UNCHANGED <<reservation, requests>>, changes' \in 0..MaxChanges,
         \/ \E c \in Requests, next \in RequestRow :
               /\ Proceed(m, c, next)
               /\ \/ next.pc = "idle" /\ next.project = Nobody
                  \/ /\ next.pc = "commit" /\ next.server \in Servers
                     /\ next.project = request[c].project /\ request[c].pc # "idle"
         \/ Outdate(m) \/ UNCHANGED request
  PROVE  ElectionInv'
<1>1. server' \in [Servers -> ServerRow]
  BY ServerChanges DEF ElectionInv
<1>2. ASSUME request' \in [Requests -> RequestRow] PROVE ElectionTypeOK'
  BY <1>1, <1>2 DEF ElectionInv, ElectionTypeOK, ServerRow, RequestRow, MachineRows
<1>3. ASSUME NEW c \in Requests, NEW next \in RequestRow, Proceed(m, c, next),
             \/ next.pc = "idle" /\ next.project = Nobody
             \/ /\ next.pc = "commit" /\ next.server \in Servers
                /\ next.project = request[c].project /\ request[c].pc # "idle"
      PROVE  ElectionInv'
  <2>2. /\ request' \in [Requests -> RequestRow] /\ request'[c] = next
        /\ \A d \in Requests : d # c => Same(d)
    BY <1>3, CopiesOutdated
  <2>3. Elections' /\ ("oneRequest" \in ElectionAssumed => OneEach')
    <3>1. next.project # Nobody <=> next.pc # "idle"
      BY <1>3 DEF ElectionInv, Elections
    <3>2. next.pc \in {"idle", "commit"} /\ next.project \in {request[c].project, Nobody}
          /\ (next.pc = "commit" => next.server \in Servers)
      BY <1>3
    <3> QED BY <2>2, <3>1, <3>2, OneRequestChanges DEF Electing
  <2> QED BY <1>2, <2>2, <2>3 DEF ElectionInv
<1>4. ASSUME Outdate(m) \/ UNCHANGED request PROVE ElectionInv'
  <2>1. request' \in [Requests -> RequestRow] /\ \A d \in Requests : Same(d)
    <3>1. CASE UNCHANGED request
      BY <3>1, TypedRows DEF ElectionInv, Same
    <3> QED BY <1>4, <3>1, AllOutdated
  <2>2. Elections' /\ ("oneRequest" \in ElectionAssumed => OneEach')
    BY <2>1 DEF ElectionInv, Elections, OneEach, Same
  <2> QED BY <1>2, <2>1, <2>2 DEF ElectionInv
<1> QED BY <1>3, <1>4

\* An election gives up, or marks a machine that it found.
LEMMA ElectMarks ==
  ASSUME ElectionInv, NEW c \in Requests, Elect(c)
  PROVE  /\ request[c].pc = "mark" /\ UNCHANGED <<reservation, requests, changes>>
         /\ \/ GiveUp(c)
            \/ \E m \in request[c].available, next \in RequestRow :
                  /\ \E list \in Listings(request[c].bookings) :
                        CheckSizeReservations(request[c].rows, request[c].bookings, request[c].project,
                                              request[c].available, list)
                  /\ m \in SpreadAcrossRacks(request[c].rows, request[c].available,
                                             OfRole(request[c].rows, request[c].project, request[c].role),
                                             request[c].tags)
                  /\ m \in Servers /\ [server[m] EXCEPT !.pre = TRUE] \in ServerRow
                  /\ WriteServer(m, [server[m] EXCEPT !.pre = TRUE]) /\ Proceed(m, c, next)
                  /\ next.pc = "commit" /\ next.server = m /\ next.project = request[c].project
<1>1. request[c].pc = "mark" /\ UNCHANGED <<reservation, requests, changes>>
  BY DEF Elect
<1>2. request[c] \in RequestRow /\ server \in [Servers -> ServerRow]
  BY TypedRows DEF ElectionInv
<1>3. request[c].project \in Tenants
  BY <1>1, <1>2 DEF ElectionInv, Elections, RequestRow
<1>4. ASSUME NEW m \in request[c].available,
             WriteServer(m, [server[m] EXCEPT !.pre = TRUE]),
             Proceed(m, c, Chosen(request[c].project, request[c].role, request[c].tags, m))
      PROVE  \E next \in RequestRow :
                /\ m \in Servers /\ [server[m] EXCEPT !.pre = TRUE] \in ServerRow
                /\ WriteServer(m, [server[m] EXCEPT !.pre = TRUE]) /\ Proceed(m, c, next)
                /\ next.pc = "commit" /\ next.server = m /\ next.project = request[c].project
  <2>1. /\ m \in Servers /\ request[c].role \in Roles /\ request[c].tags \in SUBSET PlacementTags
    BY <1>2 DEF RequestRow
  <2>2. [server[m] EXCEPT !.pre = TRUE] \in ServerRow
    BY <1>2, <2>1 DEF ServerRow
  <2> DEFINE next == Chosen(request[c].project, request[c].role, request[c].tags, m)
  <2>3. next \in RequestRow /\ next.pc = "commit" /\ next.project = request[c].project /\ next.server = m
    BY <1>3, <2>1, ChosenRow
  <2> QED BY <1>4, <2>1, <2>2, <2>3
<1> QED BY <1>1, <1>4 DEF Elect, SpreadAcrossRacks

LEMMA ElectKeeps ==
  ASSUME ElectionInv, NEW c \in Requests, Elect(c) \/ ElectionFails(c)
  PROVE  ElectionInv'
<1>1. CASE GiveUp(c) /\ UNCHANGED <<reservation, requests, changes>>
  BY <1>1, GiveUpKeeps
<1>2. CASE Elect(c)
  <2>1. request[c].pc = "mark" /\ UNCHANGED <<reservation, requests, changes>>
    BY <1>2, ElectMarks
  <2>2. changes' \in 0..MaxChanges
    BY <2>1, TypedRows DEF ElectionInv
  <2>3. CASE ~GiveUp(c)
    <3>1. PICK m \in Servers, next \in RequestRow :
             /\ [server[m] EXCEPT !.pre = TRUE] \in ServerRow
             /\ WriteServer(m, [server[m] EXCEPT !.pre = TRUE]) /\ Proceed(m, c, next)
             /\ next.pc = "commit" /\ next.server = m /\ next.project = request[c].project
      BY <1>2, <2>3, ElectMarks
    <3> QED BY <2>1, <2>2, <3>1, WriteKeeps
  <2> QED BY <1>1, <2>1, <2>3
<1> QED BY <1>1, <1>2 DEF ElectionFails

LEMMA CommitKeeps ==
  ASSUME ElectionInv, NEW c \in Requests, Commit(c) \/ Rollback(c)
  PROVE  ElectionInv'
<1> DEFINE m == request[c].server
<1>1. /\ request[c].pc = "commit" /\ request[c] \in RequestRow /\ m \in Servers /\ server[m] \in ServerRow
      /\ UNCHANGED <<reservation, requests, changes>> /\ changes' \in 0..MaxChanges
  BY TypedRows DEF Commit, Rollback, ElectionInv, Elections
<1>2. \/ GiveUp(c)
      \/ /\ WriteServer(m, [server[m] EXCEPT !.project = request[c].project, !.pre = FALSE,
                               !.role = request[c].role, !.tags = request[c].tags])
         /\ Proceed(m, c, NoRequest)
      \/ WriteServer(m, [server[m] EXCEPT !.pre = FALSE]) /\ Proceed(m, c, NoRequest)
  BY DEF Commit, Rollback
<1>3. /\ [server[m] EXCEPT !.project = request[c].project, !.pre = FALSE,
                           !.role = request[c].role, !.tags = request[c].tags] \in ServerRow
      /\ [server[m] EXCEPT !.pre = FALSE] \in ServerRow
  BY <1>1 DEF ServerRow, RequestRow
<1>4. ASSUME NEW row \in ServerRow, WriteServer(m, row), Proceed(m, c, NoRequest) PROVE ElectionInv'
  BY <1>1, <1>4, NewRows, WriteKeeps
<1> QED BY <1>1, <1>2, <1>3, <1>4, GiveUpKeeps

LEMMA ServersChange ==
  ASSUME ElectionInv, NEW m \in Servers, FreeMachine(m) \/ Readiness(m) \/ Liveliness(m)
  PROVE  ElectionInv'
<1>1. server[m] \in ServerRow /\ changes \in 0..MaxChanges
  BY TypedRows DEF ElectionInv
<1>2. /\ [FreeServer EXCEPT !.waiting = server[m].waiting, !.alive = server[m].alive] \in ServerRow
      /\ [server[m] EXCEPT !.waiting = ~@] \in ServerRow /\ [server[m] EXCEPT !.alive = ~@] \in ServerRow
  BY <1>1, NewRows DEF ServerRow
<1>3. changes' \in 0..MaxChanges
  BY <1>1, ElectionAssumption DEF FreeMachine, Readiness, Liveliness
<1>4. (Outdate(m) \/ UNCHANGED request) /\ UNCHANGED <<reservation, requests>>
  BY DEF FreeMachine, Readiness, Liveliness
<1>5. \E row \in ServerRow : WriteServer(m, row)
  BY <1>2 DEF FreeMachine, Readiness, Liveliness
<1> QED BY <1>3, <1>4, <1>5, WriteKeeps

LEMMA ReservationsChange ==
  ASSUME ElectionInv, NEW i \in Reservations,
         (\E p \in Tenants, amount \in 0..MaxAmount : SetReservation(i, p, amount)) \/ DeleteReservation(i)
  PROVE  ElectionInv'
<1>1. /\ UNCHANGED <<server, request, requests>> /\ changes < MaxChanges /\ changes' = changes + 1
      /\ \E row \in ReservationRow : reservation' = [reservation EXCEPT ![i] = row]
  BY NewRows DEF SetReservation, DeleteReservation, ReservationRow
<1>2. ElectionTypeOK'
  BY <1>1, ElectionAssumption DEF ElectionInv, ElectionTypeOK, ReservationRows, ReservationRow
<1>3. Elections' /\ ("oneRequest" \in ElectionAssumed => OneEach')
  BY <1>1 DEF ElectionInv, Elections, OneEach
<1> QED BY <1>2, <1>3 DEF ElectionInv

\* The steps, by what they write.
LEMMA StepsOfElections ==
  ASSUME ElectionNext
  PROVE  \/ \E c \in Requests, p \in Tenants, role \in Roles, tags \in SUBSET PlacementTags,
               m \in Servers \cup {Nobody} : Request(c, p, role, tags, m)
         \/ \E c \in Requests : Reading(c)
         \/ \E c \in Requests : Elect(c) \/ ElectionFails(c)
         \/ \E c \in Requests : Commit(c) \/ Rollback(c)
         \/ \E m \in Servers : FreeMachine(m) \/ Readiness(m) \/ Liveliness(m)
         \/ \E i \in Reservations :
               (\E p \in Tenants, amount \in 0..MaxAmount : SetReservation(i, p, amount)) \/ DeleteReservation(i)
BY DEF ElectionNext, Reading

LEMMA ElectionSteps ==
  ASSUME ElectionInv, ElectionNext \/ UNCHANGED electionVars
  PROVE  ElectionInv'
<1>1. CASE UNCHANGED electionVars
  BY <1>1 DEF electionVars, ElectionInv, ElectionTypeOK, Elections, OneEach
<1> QED BY <1>1, StepsOfElections, RequestKeeps, ReadingKeeps, ElectKeeps, CommitKeeps, ServersChange, ReservationsChange

\* Requests go on, or are over; those that have yet to elect keep what they have read.
GoOn == \A d \in Requests :
    /\ request'[d].project \in {request[d].project, Nobody}
    /\ request'[d].pc \in Electing => Same(d)

LEMMA RequestsGoOn ==
  ASSUME ElectionInv,
         \/ \E c \in Requests : Elect(c) \/ ElectionFails(c) \/ Commit(c) \/ Rollback(c)
         \/ \E m \in Servers : FreeMachine(m) \/ Readiness(m) \/ Liveliness(m)
  PROVE  GoOn
<1>1. NoRequest \in RequestRow /\ NoRequest.pc = "idle" /\ NoRequest.project = Nobody
  BY NewRows
<1>2. ASSUME NEW c \in Requests, NEW next \in RequestRow, request'[c] = next, \A d \in Requests : d # c => Same(d),
             next.project \in {request[c].project, Nobody}, next.pc \in {"idle", "commit"}
      PROVE  GoOn
  BY <1>2 DEF GoOn, Electing, Same
<1>3. ASSUME NEW c \in Requests, GiveUp(c) PROVE GoOn
  BY <1>1, <1>2, <1>3, RequestChanges DEF GiveUp
<1>4. ASSUME NEW c \in Requests, NEW m, NEW next \in RequestRow, Proceed(m, c, next),
             next.project \in {request[c].project, Nobody}, next.pc \in {"idle", "commit"}
      PROVE  GoOn
  BY <1>2, <1>4, CopiesOutdated
<1>5. ASSUME NEW c \in Requests, Elect(c) PROVE GoOn
  BY <1>3, <1>4, <1>5, ElectMarks
<1>6. ASSUME NEW c \in Requests, Commit(c) \/ Rollback(c) PROVE GoOn
  <2>1. GiveUp(c) \/ \E m : Proceed(m, c, NoRequest)
    BY <1>6 DEF Commit, Rollback
  <2> QED BY <1>1, <1>3, <1>4, <2>1
<1>7. ASSUME NEW m \in Servers, FreeMachine(m) \/ Readiness(m) PROVE GoOn
  BY <1>7, AllOutdated DEF FreeMachine, Readiness, GoOn, Same
<1>8. ASSUME NEW m \in Servers, Liveliness(m) PROVE GoOn
  BY <1>8 DEF Liveliness, GoOn, Same
<1> QED BY <1>3, <1>5, <1>6, <1>7, <1>8 DEF ElectionFails

\* A request that begins has read nothing.
LEMMA BeginningReadsNothing ==
  ASSUME ElectionInv, NEW c \in Requests, NEW p \in Tenants, NEW role \in Roles,
         NEW tags \in SUBSET PlacementTags, NEW m \in Servers \cup {Nobody}, Request(c, p, role, tags, m)
  PROVE  /\ UNCHANGED <<server, reservation>> /\ \A d \in Requests : request'[d].pc \in Electing => Same(d)
         /\ \A d \in Requests : request'[d].project \in {request[d].project, p}
<1>1. PICK next \in RequestRow : /\ request' = [request EXCEPT ![c] = next] /\ next.project = p
                                 /\ next.pc \in {"search", "commit"}
  BY RequestKeeps
<1>2. request'[c] = next /\ \A d \in Requests : d # c => request'[d] = request[d] /\ Same(d)
  BY <1>1, RequestChanges
<1> QED BY <1>1, <1>2 DEF Electing, Request

\* The rows of machines that steps write.
LEMMA MachinesWritten ==
  ASSUME ElectionInv,
         \/ \E c \in Requests : Commit(c) \/ Rollback(c)
         \/ \E m \in Servers : FreeMachine(m) \/ Readiness(m) \/ Liveliness(m)
  PROVE  \/ UNCHANGED server
         \/ \E m \in Servers, row \in ServerRow :
               /\ server'[m] = row /\ \A s \in Servers : s # m => server'[s] = server[s]
               /\ \/ /\ row.project = server[m].project /\ row.role = server[m].role /\ row.tags = server[m].tags
                     /\ ~row.pre /\ row.waiting = server[m].waiting /\ row.alive = server[m].alive
                  \/ \E c \in Requests : /\ Commit(c) /\ request[c].server = m /\ server[m].project = Nobody
                                         /\ row.project = request[c].project /\ ~row.pre
                  \/ /\ FreeMachine(m) /\ server[m].project # Nobody /\ row.project = Nobody /\ ~row.pre
                  \/ /\ Readiness(m) /\ row.project = server[m].project /\ row.pre = server[m].pre
                  \/ /\ Liveliness(m) /\ row.project = server[m].project /\ row.role = server[m].role
                     /\ row.tags = server[m].tags /\ row.pre = server[m].pre /\ row.waiting = server[m].waiting
<1>1. /\ server \in [Servers -> ServerRow] /\ request \in [Requests -> RequestRow]
      /\ \A m \in Servers : server[m] \in ServerRow
      /\ \A c \in Requests : request[c] \in RequestRow /\ (request[c].pc = "commit" => request[c].server \in Servers)
  BY TypedRows DEF ElectionInv, Elections
<1>2. ASSUME NEW c \in Requests, Rollback(c), ~UNCHANGED server
      PROVE  \E row \in ServerRow :
                /\ WriteServer(request[c].server, row)
                /\ LET s == server[request[c].server] IN
                      /\ row.project = s.project /\ row.role = s.role /\ row.tags = s.tags
                      /\ ~row.pre /\ row.waiting = s.waiting /\ row.alive = s.alive
  <2> DEFINE s == server[request[c].server]
             row == [s EXCEPT !.pre = FALSE]
  <2>1. WriteServer(request[c].server, row)
    BY <1>2 DEF Rollback, GiveUp
  <2>2. s \in ServerRow
    BY <1>1, <1>2 DEF Rollback
  <2> HIDE DEF s
  <2>3. /\ row \in ServerRow /\ row.project = s.project /\ row.role = s.role /\ row.tags = s.tags
        /\ ~row.pre /\ row.waiting = s.waiting /\ row.alive = s.alive
    BY <2>2 DEF ServerRow
  <2> HIDE DEF row
  <2> QED BY <2>1, <2>3 DEF s
<1>3. ASSUME NEW c \in Requests, Commit(c), ~UNCHANGED server
      PROVE  \E row \in ServerRow :
                /\ WriteServer(request[c].server, row)
                /\ server[request[c].server].project = Nobody /\ row.project = request[c].project /\ ~row.pre
  <2> DEFINE s == server[request[c].server]
             row == [s EXCEPT !.project = request[c].project, !.pre = FALSE,
                              !.role = request[c].role, !.tags = request[c].tags]
  <2>1. WriteServer(request[c].server, row) /\ s.project = Nobody
    BY <1>3 DEF Commit, GiveUp
  <2>2. s \in ServerRow /\ request[c] \in RequestRow
    BY <1>1, <1>3 DEF Commit
  <2> HIDE DEF s
  <2>3. row \in ServerRow /\ row.project = request[c].project /\ ~row.pre
    BY <2>2 DEF ServerRow, RequestRow
  <2> HIDE DEF row
  <2> QED BY <2>1, <2>3 DEF s
<1>4. ASSUME NEW m \in Servers, FreeMachine(m)
      PROVE  \E row \in ServerRow : WriteServer(m, row) /\ server[m].project # Nobody /\ row.project = Nobody /\ ~row.pre
  <2>1. FreeServer \in ServerRow /\ FreeServer.project = Nobody /\ FreeServer.pre = FALSE
    BY NewRows DEF FreeServer
  <2> DEFINE row == [FreeServer EXCEPT !.waiting = server[m].waiting, !.alive = server[m].alive]
  <2>2. row \in ServerRow /\ row.project = Nobody /\ ~row.pre
    BY <1>1, <2>1 DEF ServerRow
  <2>3. WriteServer(m, row) /\ server[m].project # Nobody
    BY <1>4 DEF FreeMachine
  <2> HIDE DEF row
  <2> QED BY <2>2, <2>3
<1>5. ASSUME NEW m \in Servers, Readiness(m)
      PROVE  \E row \in ServerRow : WriteServer(m, row) /\ row.project = server[m].project /\ row.pre = server[m].pre
  <2> DEFINE row == [server[m] EXCEPT !.waiting = ~@]
  <2>1. row \in ServerRow /\ row.project = server[m].project /\ row.pre = server[m].pre
    BY <1>1 DEF ServerRow
  <2>2. WriteServer(m, row)
    BY <1>5 DEF Readiness
  <2> HIDE DEF row
  <2> QED BY <2>1, <2>2
<1>6. ASSUME NEW m \in Servers, Liveliness(m)
      PROVE  \E row \in ServerRow :
                /\ WriteServer(m, row) /\ row.project = server[m].project /\ row.role = server[m].role
                /\ row.tags = server[m].tags /\ row.pre = server[m].pre /\ row.waiting = server[m].waiting
  <2> DEFINE row == [server[m] EXCEPT !.alive = ~@]
  <2>1. /\ row \in ServerRow /\ row.project = server[m].project /\ row.role = server[m].role
        /\ row.tags = server[m].tags /\ row.pre = server[m].pre /\ row.waiting = server[m].waiting
    BY <1>1 DEF ServerRow
  <2>2. WriteServer(m, row)
    BY <1>6 DEF Liveliness
  <2> HIDE DEF row
  <2> QED BY <2>1, <2>2
<1>7. ASSUME NEW m \in Servers, NEW row \in ServerRow, WriteServer(m, row)
      PROVE  server'[m] = row /\ \A s \in Servers : s # m => server'[s] = server[s]
  BY <1>1, <1>7 DEF WriteServer
<1>8. ASSUME NEW c \in Requests, Commit(c) \/ Rollback(c) PROVE request[c].server \in Servers
  BY <1>1, <1>8 DEF Commit, Rollback
<1>9. CASE \E c \in Requests : Rollback(c)
  BY <1>2, <1>7, <1>8, <1>9
<1>10. CASE \E c \in Requests : Commit(c)
  BY <1>3, <1>7, <1>8, <1>10
<1>11. CASE \E m \in Servers : FreeMachine(m)
  BY <1>4, <1>7, <1>11
<1>12. CASE \E m \in Servers : Readiness(m)
  BY <1>5, <1>7, <1>12
<1>13. CASE \E m \in Servers : Liveliness(m)
  BY <1>6, <1>7, <1>13
<1> QED BY <1>9, <1>10, <1>11, <1>12, <1>13

\* What an election has read is so until it marks a machine, but for what others get on the way.
ReadsInv == \A c \in Requests :
    /\ request[c].pc = "containers" => request[c].available \subseteq Candidates
    /\ request[c].pc \in {"machines", "reservations", "mark"} => request[c].available \subseteq Waiting
    /\ request[c].pc \in {"reservations", "mark"} =>
          \A m \in Servers : request[c].rows[m].project # Nobody => server[m].project = request[c].rows[m].project
    /\ request[c].pc = "mark" => request[c].bookings = reservation

\* The machines of its project are the ones it has read.
Alike(r, s) == r.project = s.project /\ r.role = s.role /\ r.tags = s.tags
OwnRows == \A c \in Requests : request[c].pc \in {"reservations", "mark"} =>
    \A m \in Servers : request[c].project \in {request[c].rows[m].project, server[m].project}
                          => Alike(request[c].rows[m], server[m])

\* Steps that let it be so.
LEMMA ReadsKept ==
  ASSUME ReadsInv, \A d \in Requests : request'[d].pc \in Electing => Same(d),
         (\E d \in Requests : request'[d].pc = "containers") => Candidates \subseteq Candidates',
         (\E d \in Requests : request'[d].pc \in {"machines", "reservations", "mark"}) => Waiting \subseteq Waiting',
         (\E d \in Requests : request'[d].pc \in {"reservations", "mark"}) =>
             \A m \in Servers : server[m].project # Nobody => server'[m].project = server[m].project,
         (\E d \in Requests : request'[d].pc = "mark") => reservation' = reservation
  PROVE  ReadsInv'
<1> SUFFICES ASSUME NEW d \in Requests, request'[d].pc \in Electing
             PROVE  /\ request'[d].pc = "containers" => request'[d].available \subseteq Candidates'
                    /\ request'[d].pc \in {"machines", "reservations", "mark"} => request'[d].available \subseteq Waiting'
                    /\ request'[d].pc \in {"reservations", "mark"} =>
                          \A m \in Servers : request'[d].rows[m].project # Nobody
                                                => server'[m].project = request'[d].rows[m].project
                    /\ request'[d].pc = "mark" => request'[d].bookings = reservation'
  BY DEF ReadsInv, Electing
<1>1. Same(d)
  OBVIOUS
<1>2. /\ request[d].pc = "containers" => request[d].available \subseteq Candidates
      /\ request[d].pc \in {"machines", "reservations", "mark"} => request[d].available \subseteq Waiting
      /\ request[d].pc \in {"reservations", "mark"} =>
          \A m \in Servers : request[d].rows[m].project # Nobody => server[m].project = request[d].rows[m].project
      /\ request[d].pc = "mark" => request[d].bookings = reservation
  BY DEF ReadsInv
<1> QED BY <1>1, <1>2 DEF Same

LEMMA OwnRowsKept ==
  ASSUME OwnRows, \A d \in Requests : request'[d].pc \in Electing => Same(d),
         \A d \in Requests : request'[d].pc \in {"reservations", "mark"} =>
             \A m \in Servers : request[d].project \in {server[m].project, server'[m].project}
                                   => Alike(server'[m], server[m])
  PROVE  OwnRows'
<1> SUFFICES ASSUME NEW d \in Requests, request'[d].pc \in {"reservations", "mark"}, NEW m \in Servers,
                    request'[d].project \in {request'[d].rows[m].project, server'[m].project}
             PROVE  Alike(request'[d].rows[m], server'[m])
  BY DEF OwnRows, Alike
<1>1. Same(d)
  BY DEF Electing
<1>2. request[d].project \in {request[d].rows[m].project, server[m].project} => Alike(request[d].rows[m], server[m])
  BY <1>1 DEF OwnRows, Same
<1>3. request[d].project \in {server[m].project, server'[m].project} => Alike(server'[m], server[m])
  BY <1>1 DEF Same
<1> QED BY <1>1, <1>2, <1>3 DEF Same, Alike

\* What is taken for granted of elections, but for the reservations.
Calm == {"oneRequest", "undisturbed"} \subseteq ElectionAssumed

LEMMA ReadingReadsRight ==
  ASSUME ElectionInv, Calm, ReadsInv, OwnRows, NEW c \in Requests, Reading(c)
  PROVE  ReadsInv' /\ OwnRows'
<1>1. UNCHANGED <<server, reservation, requests, changes>>
  BY ReadingReads
<1>2. CASE GiveUp(c)
  <2>1. \A d \in Requests : request'[d].pc \in Electing => Same(d)
    BY <1>2, NewRows, RequestChanges DEF GiveUp, Electing
  <2>2. ReadsInv'
    BY <1>1, <2>1, ReadsKept DEF Candidates, Waiting
  <2>3. OwnRows'
    BY <1>1, <2>1, OwnRowsKept DEF Alike
  <2> QED BY <2>2, <2>3
<1>3. ASSUME NEW next, Reads(c, next), request' = [request EXCEPT ![c] = next] PROVE ReadsInv' /\ OwnRows'
  <2>1. next \in RequestRow /\ next.project = request[c].project
    BY <1>3 DEF Reads
  <2>2. request'[c] = next /\ \A d \in Requests : d # c => request'[d] = request[d]
    BY <1>3, <2>1, RequestChanges
  <2>3. Candidates' = Candidates /\ Waiting' = Waiting
    BY <1>1 DEF Candidates, Waiting
  <2>4. /\ next.pc = "containers" => next.available \subseteq Candidates
        /\ next.pc \in {"machines", "reservations", "mark"} => next.available \subseteq Waiting
        /\ next.pc \in {"reservations", "mark"} =>
              next.rows = server \/ (request[c].pc \in {"reservations", "mark"} /\ next.rows = request[c].rows)
        /\ next.pc = "mark" => next.bookings = reservation
    BY <1>3 DEF Reads, ReadsInv, Waiting
  <2>5. ReadsInv'
    BY <1>1, <2>2, <2>3, <2>4 DEF ReadsInv
  <2>6. OwnRows'
    BY <1>1, <2>1, <2>2, <2>4 DEF OwnRows, Alike
  <2> QED BY <2>5, <2>6
<1> QED BY <1>2, <1>3, ReadingReads

\* After it has elected nobody is electing.
LEMMA OneElects ==
  ASSUME ElectionInv, NEW c \in Requests, Elect(c) PROVE \A d \in Requests : request'[d].pc \notin Electing
<1>1. GoOn /\ request[c].pc = "mark"
  BY RequestsGoOn, ElectMarks
<1>2. \A d \in Requests : d # c => request[d].pc \notin Electing
  BY <1>1 DEF ElectionInv, Elections, Electing
<1>3. request'[c].pc # "mark"
  <2>1. CASE GiveUp(c)
    BY <2>1, NewRows, RequestChanges DEF GiveUp
  <2>2. ASSUME NEW m, NEW next \in RequestRow, Proceed(m, c, next), next.pc = "commit" PROVE request'[c].pc # "mark"
    BY <2>2, CopiesOutdated
  <2> QED BY <2>1, <2>2, ElectMarks
<1> QED BY <1>1, <1>2, <1>3 DEF GoOn, Same

LEMMA OthersLetRead ==
  ASSUME ElectionInv, Calm, ReadsInv, OwnRows,
         \/ \E c \in Requests : Commit(c) \/ Rollback(c)
         \/ \E m \in Servers : FreeMachine(m) \/ Readiness(m) \/ Liveliness(m)
  PROVE  ReadsInv' /\ OwnRows'
<1>1. GoOn /\ UNCHANGED reservation
  BY RequestsGoOn DEF Commit, Rollback, FreeMachine, Readiness, Liveliness
<1>2. \A d \in Requests : request'[d].pc \in Electing => Same(d)
  BY <1>1 DEF GoOn
<1>3. \A m \in Servers : server[m] \in ServerRow
  BY TypedRows DEF ElectionInv
<1>4. CASE UNCHANGED server
  <2>1. Candidates' = Candidates /\ Waiting' = Waiting
    BY <1>4 DEF Candidates, Waiting
  <2>2. ReadsInv'
    BY <1>1, <1>2, <1>4, <2>1, ReadsKept
  <2>3. OwnRows'
    BY <1>2, <1>4, OwnRowsKept DEF Alike
  <2> QED BY <2>2, <2>3
<1>5. ASSUME NEW m \in Servers, NEW row \in ServerRow,
             server'[m] = row, \A s \in Servers : s # m => server'[s] = server[s],
             m \in Candidates /\ (\E d \in Requests : request[d].pc \in Electing)
                => row.project = Nobody /\ ~row.pre /\ row.waiting,
             m \in Waiting /\ (\E d \in Requests : request[d].pc \in Electing \ {"containers"}) => row.alive,
             (\E d \in Requests : request[d].pc \in {"reservations", "mark"})
                => server[m].project \in {row.project, Nobody},
             \A d \in Requests : request[d].pc \in {"reservations", "mark"}
                /\ request[d].project \in {server[m].project, row.project} => Alike(row, server[m])
      PROVE  ReadsInv' /\ OwnRows'
  <2>1. (\E d \in Requests : request[d].pc \in Electing) => Candidates \subseteq Candidates'
    BY <1>5 DEF Candidates
  <2>2. (\E d \in Requests : request[d].pc \in Electing \ {"containers"}) => Waiting \subseteq Waiting'
    <3> SUFFICES ASSUME NEW d \in Requests, request[d].pc \in Electing \ {"containers"}, NEW s \in Waiting
                 PROVE  s \in Waiting'
      OBVIOUS
    <3>1. s \in Candidates'
      BY <2>1 DEF Waiting
    <3>2. server'[s].alive
      BY <1>5 DEF Waiting, Candidates
    <3> QED BY <3>1, <3>2 DEF Waiting
  <2>3. ReadsInv'
    <3>1. /\ (\E d \in Requests : request'[d].pc = "containers") => Candidates \subseteq Candidates'
          /\ (\E d \in Requests : request'[d].pc \in {"machines", "reservations", "mark"}) => Waiting \subseteq Waiting'
      BY <1>2, <2>1, <2>2 DEF Electing, Same
    <3>2. (\E d \in Requests : request'[d].pc \in {"reservations", "mark"}) =>
             \A s \in Servers : server[s].project # Nobody => server'[s].project = server[s].project
      BY <1>2, <1>5 DEF Electing, Same
    <3> QED BY <1>1, <1>2, <3>1, <3>2, ReadsKept
  <2>4. OwnRows'
    <3>1. \A d \in Requests : request'[d].pc \in {"reservations", "mark"} =>
             \A s \in Servers : request[d].project \in {server[s].project, server'[s].project}
                                   => Alike(server'[s], server[s])
      BY <1>2, <1>5 DEF Electing, Same, Alike
    <3> QED BY <1>2, <3>1, OwnRowsKept
  <2> QED BY <2>3, <2>4
<1>6. ASSUME NEW m \in Servers, NEW row \in ServerRow, server'[m] = row, \A s \in Servers : s # m => server'[s] = server[s],
             row.project = server[m].project, row.role = server[m].role, row.tags = server[m].tags,
             ~row.pre, row.waiting = server[m].waiting, row.alive = server[m].alive
      PROVE  ReadsInv' /\ OwnRows'
  BY <1>5, <1>6 DEF Candidates, Waiting, Alike
<1>7. ASSUME NEW m \in Servers, NEW row \in ServerRow, server'[m] = row, \A s \in Servers : s # m => server'[s] = server[s],
             NEW c \in Requests, Commit(c), request[c].server = m, server[m].project = Nobody,
             row.project = request[c].project, ~row.pre
      PROVE  ReadsInv' /\ OwnRows'
  <2>1. request[c].pc = "commit" /\ request[c].project # Nobody
    BY <1>7 DEF Commit, ElectionInv, Elections
  <2>2. ~server[m].pre => \A d \in Requests : request[d].pc \notin Electing
    BY <1>7 DEF Commit, Undisturbed, Calm
  <2>3. \A d \in Requests : request[d].pc \in Electing => request[d].project \notin {Nobody, request[c].project}
    BY <2>1 DEF ElectionInv, Elections, OneEach, Calm, Electing
  <2> QED BY <1>5, <1>7, <2>2, <2>3 DEF Candidates, Waiting, Electing
<1>8. ASSUME NEW m \in Servers, NEW row \in ServerRow, server'[m] = row, \A s \in Servers : s # m => server'[s] = server[s],
             FreeMachine(m), server[m].project # Nobody
      PROVE  ReadsInv' /\ OwnRows'
  <2>1. \A d \in Requests : request[d].pc \notin {"reservations", "mark"}
    BY <1>8 DEF FreeMachine, Undisturbed, Calm
  <2>2. m \notin Candidates /\ m \notin Waiting
    BY <1>8 DEF Candidates, Waiting
  <2> QED BY <1>5, <1>8, <2>1, <2>2
<1>9. ASSUME NEW m \in Servers, NEW row \in ServerRow, server'[m] = row, \A s \in Servers : s # m => server'[s] = server[s],
             Readiness(m)
      PROVE  ReadsInv' /\ OwnRows'
  <2>1. \A d \in Requests : request[d].pc \notin Electing
    BY <1>9 DEF Readiness, Undisturbed, Calm
  <2> QED BY <1>5, <1>9, <2>1 DEF Electing
<1>10. ASSUME NEW m \in Servers, NEW row \in ServerRow, server'[m] = row, \A s \in Servers : s # m => server'[s] = server[s],
              Liveliness(m), row.project = server[m].project, row.role = server[m].role,
              row.tags = server[m].tags, row.pre = server[m].pre, row.waiting = server[m].waiting
       PROVE  ReadsInv' /\ OwnRows'
  <2>1. \A d \in Requests : request[d].pc \notin Electing \ {"containers"}
    BY <1>10 DEF Liveliness, Undisturbed, Calm
  <2>2. m \in Candidates => row.project = Nobody /\ ~row.pre /\ row.waiting
    BY <1>10 DEF Candidates
  <2>3. \A d \in Requests : request[d].pc \notin {"reservations", "mark"}
    BY <2>1 DEF Electing
  <2> QED BY <1>5, <1>10, <2>1, <2>2, <2>3
<1> QED BY <1>4, <1>6, <1>7, <1>8, <1>9, <1>10, MachinesWritten

LEMMA ReadsSteps ==
  ASSUME ElectionInv, Calm, ReadsInv, OwnRows, ElectionNext \/ UNCHANGED electionVars
  PROVE  ReadsInv' /\ OwnRows'
<1>1. ASSUME \A d \in Requests : request'[d].pc \in Electing => Same(d), UNCHANGED server,
             (\E d \in Requests : request'[d].pc = "mark") => reservation' = reservation
      PROVE  ReadsInv' /\ OwnRows'
  <2>1. Candidates' = Candidates /\ Waiting' = Waiting
    BY <1>1 DEF Candidates, Waiting
  <2>2. ReadsInv'
    BY <1>1, <2>1, ReadsKept
  <2>3. OwnRows'
    BY <1>1, OwnRowsKept DEF Alike
  <2> QED BY <2>2, <2>3
<1>2. CASE UNCHANGED electionVars
  BY <1>1, <1>2 DEF electionVars, Same
<1>3. ASSUME NEW c \in Requests, NEW p \in Tenants, NEW role \in Roles, NEW tags \in SUBSET PlacementTags,
             NEW m \in Servers \cup {Nobody}, Request(c, p, role, tags, m)
      PROVE  ReadsInv' /\ OwnRows'
  BY <1>1, <1>3, BeginningReadsNothing
<1>4. ASSUME NEW c \in Requests, Elect(c) PROVE ReadsInv' /\ OwnRows'
  BY <1>4, OneElects DEF ReadsInv, OwnRows, Electing
<1>5. ASSUME NEW c \in Requests, ElectionFails(c) PROVE ReadsInv' /\ OwnRows'
  <2>1. GoOn
    BY <1>5, RequestsGoOn
  <2> QED BY <1>1, <1>5, <2>1 DEF ElectionFails, GiveUp, GoOn
<1>6. ASSUME NEW i \in Reservations,
             (\E p \in Tenants, amount \in 0..MaxAmount : SetReservation(i, p, amount)) \/ DeleteReservation(i)
      PROVE  ReadsInv' /\ OwnRows'
  <2>1. \A d \in Requests : request[d].pc # "mark"
    BY <1>6 DEF SetReservation, DeleteReservation, Undisturbed, Calm
  <2>2. UNCHANGED <<server, request>>
    BY <1>6 DEF SetReservation, DeleteReservation
  <2> QED BY <1>1, <2>1, <2>2 DEF Same
<1> QED BY <1>2, <1>3, <1>4, <1>5, <1>6, StepsOfElections, ReadingReadsRight, OthersLetRead

LEMMA ReadsStart == ASSUME ElectionInit PROVE ReadsInv /\ OwnRows
<1>1. \A c \in Requests : request[c].pc = "idle"
  BY NewRows DEF ElectionInit
<1> QED BY <1>1 DEF ReadsInv, OwnRows

\* Of racks there is one with the fewest machines of a project.
LEMMA FewestExist ==
  ASSUME NEW racks, racks # {}, NEW machines, IsFiniteSet(machines)
  PROVE  LeastOccupied(racks, machines) # {}
<1>1. \A r \in racks : ProjectCount(machines, r) \in Nat
  BY FS_Subset, FS_CardinalityType DEF ProjectCount, InRack
<1> DEFINE T == {ProjectCount(machines, r) : r \in racks}
<1>2. T \in SUBSET Nat /\ T # {}
  BY <1>1
<1>3. PICK n \in T : \A k \in T : n <= k
  BY <1>2, Least
<1> QED BY <1>3 DEF LeastOccupied

\* Tags are counted by a number.
LEMMA TagCounts ==
  ASSUME NEW machines, IsFiniteSet(machines), NEW rows, NEW tags \in SUBSET PlacementTags, NEW rack
  PROVE  TagCount(rows, machines, rack, tags) \in Nat /\ (tags = {} => TagCount(rows, machines, rack, tags) = 0)
<1> DEFINE uses == {use \in InRack(machines, rack) \X tags : use[2] \in rows[use[1]].tags}
<1>1. IsFiniteSet(InRack(machines, rack)) /\ IsFiniteSet(tags)
  BY FS_Subset, ElectionAssumption DEF InRack
<1>2. IsFiniteSet(uses)
  BY <1>1, FS_Product, FS_Subset
<1>3. tags = {} => uses = {}
  OBVIOUS
<1> QED BY <1>2, <1>3, FS_CardinalityType, FS_EmptySet DEF TagCount

\* Only an election marks a machine, which it chooses by what it has read.
LEMMA ElectsChooses ==
  ASSUME ElectionInv, ElectionNext, NEW c \in Requests, NEW m \in Servers, Elects(c, m)
  PROVE  LET r == request[c] IN
         /\ r.pc = "mark" /\ r \in RequestRow /\ m \in r.available /\ UNCHANGED reservation
         /\ \E list \in Listings(r.bookings) : CheckSizeReservations(r.rows, r.bookings, r.project, r.available, list)
         /\ m \in SpreadAcrossRacks(r.rows, r.available, OfRole(r.rows, r.project, r.role), r.tags)
         /\ WriteServer(m, [server[m] EXCEPT !.pre = TRUE])
         /\ \E next \in RequestRow : /\ Proceed(m, c, next) /\ next.pc = "commit" /\ next.server = m
                                     /\ next.project = request[c].project
<1>1. /\ request[c] \in RequestRow /\ server \in [Servers -> ServerRow] /\ request[c].pc = "mark"
      /\ server' # server /\ ~server[m].pre /\ server'[m].pre
  BY TypedRows DEF Elects, ElectionInv
<1>2. ~\E d \in Requests : Commit(d) \/ Rollback(d)
  <2> SUFFICES ASSUME NEW d \in Requests, Commit(d) \/ Rollback(d) PROVE FALSE
    OBVIOUS
  <2>1. PICK k \in Servers, row \in ServerRow :
           /\ server'[k] = row /\ \A s \in Servers : s # k => server'[s] = server[s]
           /\ ~row.pre \/ row.pre = server[k].pre
    BY <1>1, MachinesWritten
  <2> QED BY <1>1, <2>1
<1>3. ~\E k \in Servers : FreeMachine(k) \/ Readiness(k) \/ Liveliness(k)
  <2> SUFFICES ASSUME NEW k \in Servers, FreeMachine(k) \/ Readiness(k) \/ Liveliness(k) PROVE FALSE
    OBVIOUS
  <2>1. PICK n \in Servers, row \in ServerRow :
           /\ server'[n] = row /\ \A s \in Servers : s # n => server'[s] = server[s]
           /\ ~row.pre \/ row.pre = server[n].pre
    BY <1>1, MachinesWritten
  <2> QED BY <1>1, <2>1
<1>4. \E d \in Requests : Elect(d) \/ ElectionFails(d)
  BY <1>1, <1>2, <1>3, StepsOfElections, ReadingReads DEF Request, SetReservation, DeleteReservation
<1>5. PICK d \in Requests : Elect(d) /\ ~GiveUp(d)
  BY <1>1, <1>4 DEF ElectionFails, GiveUp
<1>6. d = c
  BY <1>1, <1>5, ElectMarks DEF ElectionInv, Elections, Electing
<1>7. PICK k \in request[c].available, next \in RequestRow :
         /\ \E list \in Listings(request[c].bookings) :
               CheckSizeReservations(request[c].rows, request[c].bookings, request[c].project,
                                     request[c].available, list)
         /\ k \in SpreadAcrossRacks(request[c].rows, request[c].available,
                                    OfRole(request[c].rows, request[c].project, request[c].role),
                                    request[c].tags)
         /\ k \in Servers
         /\ WriteServer(k, [server[k] EXCEPT !.pre = TRUE]) /\ Proceed(k, c, next)
         /\ next.pc = "commit" /\ next.server = k /\ next.project = request[c].project
  BY <1>5, <1>6, ElectMarks
<1>8. k = m
  BY <1>1, <1>7 DEF WriteServer
<1> QED BY <1>1, <1>5, <1>6, <1>7, <1>8, ElectMarks

\* The machine that is elected is in none of the crowded racks.
LEMMA SpreadSteps ==
  ASSUME ElectionInv, Calm, OwnRows, ElectionNext,
         NEW c \in Requests, NEW m \in Servers, Elects(c, m), NEW n \in request[c].available
  PROVE  ~Crowded(c, RackOf[m], RackOf[n])
<1> DEFINE p == request[c].project
           role == request[c].role
           tags == request[c].tags
           rows == request[c].rows
           machines == OfRole(rows, p, role)
           racks == {RackOf[k] : k \in request[c].available}
<1>1. /\ request[c] \in RequestRow /\ request[c].pc = "mark" /\ request[c].server = Nobody /\ p # Nobody
      /\ m \in request[c].available /\ m \in SpreadAcrossRacks(rows, request[c].available, machines, tags)
  BY ElectsChooses DEF ElectionInv, Elections, Electing
<1>2. /\ IsFiniteSet(machines) /\ machines \subseteq Servers /\ tags \in SUBSET PlacementTags
      /\ racks # {} /\ RackOf[n] \in racks
  <2>1. machines \subseteq Servers
    BY DEF OfRole, OfProject
  <2>2. tags \in SUBSET PlacementTags
    BY <1>1 DEF RequestRow
  <2> QED BY <2>1, <2>2, FS_Subset, ElectionAssumption
<1>3. /\ OfRole(server, p, role) = machines
      /\ \A k \in machines : server[k].tags = rows[k].tags
  <2>1. \A k \in Servers : p \in {rows[k].project, server[k].project} => Alike(rows[k], server[k])
    BY <1>1 DEF OwnRows
  <2> QED BY <2>1 DEF OfRole, OfProject, Alike
<1>4. \A rack : TagCount(server, machines, rack, tags) = TagCount(rows, machines, rack, tags)
  <2> SUFFICES ASSUME NEW rack PROVE TagCount(server, machines, rack, tags) = TagCount(rows, machines, rack, tags)
    OBVIOUS
  <2> HIDE DEF machines, rows, tags
  <2>1. {use \in InRack(machines, rack) \X tags : use[2] \in server[use[1]].tags}
          = {use \in InRack(machines, rack) \X tags : use[2] \in rows[use[1]].tags}
    BY <1>3 DEF InRack
  <2> QED BY <2>1 DEF TagCount
<1>5. /\ RackOf[m] \in LeastTagged(rows, racks, machines, tags)
      /\ (LeastTagged(rows, racks, machines, tags) \cap LeastOccupied(racks, machines) # {}
             => RackOf[m] \in LeastOccupied(racks, machines))
  BY <1>1 DEF SpreadAcrossRacks
<1>6. CASE tags # {}
  <2>1. TagCount(rows, machines, RackOf[m], tags) <= TagCount(rows, machines, RackOf[n], tags)
    BY <1>2, <1>5 DEF LeastTagged
  <2>2. TagCount(rows, machines, RackOf[m], tags) \in Nat /\ TagCount(rows, machines, RackOf[n], tags) \in Nat
    BY <1>2, TagCounts
  <2>3. Crowded(c, RackOf[m], RackOf[n])
          <=> TagCount(server, machines, RackOf[m], tags) > TagCount(server, machines, RackOf[n], tags)
    BY <1>3, <1>6 DEF Crowded
  <2> HIDE DEF machines, rows, tags
  <2> QED BY <1>4, <2>1, <2>2, <2>3
<1>7. CASE tags = {}
  <2>1. LeastTagged(rows, racks, machines, tags) = racks
    BY <1>2, <1>7, TagCounts DEF LeastTagged
  <2>2. RackOf[m] \in LeastOccupied(racks, machines)
    <3>1. LeastOccupied(racks, machines) # {} /\ LeastOccupied(racks, machines) \subseteq racks
      <4> HIDE DEF racks, machines
      <4>1. LeastOccupied(racks, machines) # {}
        BY <1>2, FewestExist
      <4> QED BY <4>1 DEF LeastOccupied
    <3> HIDE DEF racks, machines
    <3> QED BY <1>5, <2>1, <3>1
  <2>3. ProjectCount(machines, RackOf[m]) <= ProjectCount(machines, RackOf[n])
    BY <1>2, <2>2 DEF LeastOccupied
  <2>4. UnderWayFor(p) = {c}
    BY <1>1 DEF UnderWayFor, ElectionInv, OneEach, Calm
  <2>5. Pending(p) = {}
    BY <1>1, <2>4, ElectionAssumption DEF Pending
  <2>6. \A rack : SpreadCount(p, role, rack) = ProjectCount(machines, rack)
    BY <1>3, <2>5 DEF SpreadCount, ProjectCount
  <2>7. ProjectCount(machines, RackOf[m]) \in Nat /\ ProjectCount(machines, RackOf[n]) \in Nat
    BY <1>2, FS_Subset, FS_CardinalityType DEF ProjectCount, InRack
  <2> QED BY <1>7, <2>3, <2>6, <2>7 DEF Crowded
<1> QED BY <1>6, <1>7

-----------------------------------------------------------------------------
(* Sums and folds. Nothing is known of a recursive function but its         *)
(* equation, and that only if there is a function that satisfies it.        *)

\* f folds the subsets of D, of which the elements are picked one after the other.
FoldOf(f, D, base, step, pick) ==
    f = [s \in SUBSET D |-> IF s = {} THEN base ELSE step[<<pick[s], f[s \ {pick[s]}]>>]]

LEMMA FoldExists ==
  ASSUME NEW D, IsFiniteSet(D), NEW V, NEW base \in V, NEW step \in [D \X V -> V],
         NEW pick \in [SUBSET D -> D \cup {D}], \A s \in SUBSET D : s # {} => pick[s] \in s
  PROVE  \E f \in [SUBSET D -> V] : FoldOf(f, D, base, step, pick)
<1> DEFINE upTo(n) == {s \in SUBSET D : Cardinality(s) <= n}
           Folds(n, f) == \A s \in upTo(n) : f[s] = IF s = {} THEN base ELSE step[<<pick[s], f[s \ {pick[s]}]>>]
           bad == {n \in Nat : ~\E f \in [upTo(n) -> V] : Folds(n, f)}
<1>1. \A s \in SUBSET D : IsFiniteSet(s) /\ Cardinality(s) \in Nat /\ (Cardinality(s) = 0 <=> s = {})
  BY FS_Subset, FS_CardinalityType, FS_EmptySet
<1>2. \A s \in SUBSET D : s # {} =>
         s \ {pick[s]} \in SUBSET D /\ Cardinality(s \ {pick[s]}) = Cardinality(s) - 1
  BY <1>1, FS_RemoveElement
<1>3. ASSUME bad # {} PROVE FALSE
  <2>1. PICK n \in bad : \A m \in bad : n <= m
    BY <1>3, Least
  <2>2. CASE n = 0
    <3>1. Folds(0, [s \in upTo(0) |-> base])
      BY <1>1
    <3>2. [s \in upTo(0) |-> base] \in [upTo(0) -> V]
      OBVIOUS
    <3> QED BY <2>2, <3>1, <3>2
  <2>3. CASE n > 0
    <3>1. n - 1 \in Nat /\ n - 1 \notin bad
      <4>1. n \in Nat
        OBVIOUS
      <4> HIDE DEF bad
      <4> QED BY <2>1, <2>3, <4>1
    <3>2. PICK f \in [upTo(n - 1) -> V] : Folds(n - 1, f)
      BY <3>1
    <3> DEFINE g == [s \in upTo(n) |-> IF s = {} THEN base ELSE step[<<pick[s], f[s \ {pick[s]}]>>]]
    <3>3. \A s \in upTo(n) : s # {} => s \ {pick[s]} \in upTo(n - 1) /\ pick[s] \in D
      BY <1>1, <1>2
    <3>4. upTo(n - 1) \subseteq upTo(n)
      BY <1>1
    <3>5. \A s \in upTo(n - 1) : g[s] = f[s]
      BY <3>2, <3>4
    <3>6. g \in [upTo(n) -> V]
      BY <3>2, <3>3
    <3>7. Folds(n, g)
      BY <3>3, <3>5
    <3> HIDE DEF g
    <3> QED BY <3>6, <3>7
  <2> QED BY <2>2, <2>3
<1>4. Cardinality(D) \in Nat \ bad
  BY <1>1, <1>3
<1>5. upTo(Cardinality(D)) = SUBSET D
  BY FS_Subset
<1>6. PICK f \in [SUBSET D -> V] : Folds(Cardinality(D), f)
  BY <1>4, <1>5
<1>7. \A s \in SUBSET D : f[s] = IF s = {} THEN base ELSE step[<<pick[s], f[s \ {pick[s]}]>>]
  BY <1>5, <1>6
<1>8. f \in [SUBSET D -> V] /\ f = [s \in SUBSET D |-> f[s]]
  BY <1>5
<1>9. f = [s \in SUBSET D |-> IF s = {} THEN base ELSE step[<<pick[s], f[s \ {pick[s]}]>>]]
  BY <1>7, <1>8
<1> QED BY <1>8, <1>9 DEF FoldOf

\* A set with as many elements as the numbers of f add up to.
Units(S, f) == {u \in S \X Nat : u[2] < f[u[1]]}

LEMMA UnitsAdd ==
  ASSUME NEW S, IsFiniteSet(S), NEW f, \A x \in S : f[x] \in Nat
  PROVE  /\ IsFiniteSet(Units(S, f)) /\ Cardinality(Units(S, f)) \in Nat
         /\ \A x \in S : Cardinality(Units(S, f)) = f[x] + Cardinality(Units(S \ {x}, f))
<1> DEFINE of == [x \in S |-> {u \in S \X Nat : u[1] = x /\ u[2] < f[x]}]
<1>1. ASSUME NEW x \in S PROVE IsFiniteSet(of[x]) /\ Cardinality(of[x]) = f[x]
  <2>1. IsFiniteSet(0..(f[x] - 1)) /\ Cardinality(0..(f[x] - 1)) = f[x]
    BY FS_Interval
  <2>2. IsFiniteSet({x}) /\ Cardinality({x}) = 1
    BY FS_Singleton
  <2> DEFINE count == {k \in Nat : k < f[x]}
  <2>3. of[x] = {x} \X count
    OBVIOUS
  <2>4. IsFiniteSet(count) /\ Cardinality(count) = f[x] /\ f[x] \in Nat
    <3>1. count = 0..(f[x] - 1)
      OBVIOUS
    <3> QED BY <2>1, <3>1
  <2> HIDE DEF count, of
  <2>5. IsFiniteSet({x} \X count) /\ Cardinality({x} \X count) = Cardinality({x}) * Cardinality(count)
    BY <2>2, <2>4, FS_Product
  <2> QED BY <2>2, <2>3, <2>4, <2>5
<1>2. Units(S, f) = UNION {of[x] : x \in S}
  BY DEF Units
<1>3. IsFiniteSet({of[x] : x \in S})
  <2>1. of \in Surjection(S, {of[x] : x \in S})
    BY DEF Surjection
  <2> HIDE DEF of
  <2> QED BY <2>1, FS_Surjection
<1>4. IsFiniteSet(Units(S, f))
  <2>1. \A T \in {of[x] : x \in S} : IsFiniteSet(T)
    BY <1>1
  <2> HIDE DEF of
  <2> QED BY <1>2, <1>3, <2>1, FS_UNION
<1>5. ASSUME NEW x \in S PROVE Cardinality(Units(S, f)) = f[x] + Cardinality(Units(S \ {x}, f))
  <2>1. Units(S, f) = of[x] \cup Units(S \ {x}, f) /\ of[x] \cap Units(S \ {x}, f) = {}
    <3>1. \A u : u \in Units(S \ {x}, f) <=> u \in Units(S, f) /\ u[1] # x
      BY DEF Units
    <3>2. \A u : u \in of[x] <=> u \in Units(S, f) /\ u[1] = x
      BY DEF Units
    <3> HIDE DEF of
    <3> QED BY <3>1, <3>2
  <2>2. IsFiniteSet(Units(S \ {x}, f))
    <3>1. Units(S \ {x}, f) \subseteq Units(S, f)
      BY DEF Units
    <3> QED BY <1>4, <3>1, FS_Subset
  <2>3. Cardinality(of[x] \cup Units(S \ {x}, f)) = Cardinality(of[x]) + Cardinality(Units(S \ {x}, f)) - 0
    <3>1. IsFiniteSet(of[x])
      BY <1>1
    <3> HIDE DEF of
    <3> QED BY <2>1, <2>2, <3>1, FS_Union, FS_EmptySet
  <2>4. Cardinality(Units(S \ {x}, f)) \in Nat
    BY <2>2, FS_CardinalityType
  <2>5. Cardinality(of[x]) = f[x]
    BY <1>1
  <2> HIDE DEF of
  <2> QED BY <2>1, <2>3, <2>4, <2>5
<1> QED BY <1>4, <1>5, FS_CardinalityType

\* sum adds up the numbers of the elements of S, picked one after the other.
Picked(s) == CHOOSE x \in s : TRUE
SumsUp(sum, S, f) ==
    sum = [s \in SUBSET S |-> IF s = {} THEN 0 ELSE f[Picked(s)] + sum[s \ {Picked(s)}]]

\* There is such a sum, and it is that number.
LEMMA SumIsUnits ==
  ASSUME NEW S, IsFiniteSet(S), NEW f, \A x \in S : f[x] \in Nat
  PROVE  /\ \E sum : SumsUp(sum, S, f)
         /\ \A sum : SumsUp(sum, S, f) => sum[S] = Cardinality(Units(S, f))
<1> DEFINE units == [s \in SUBSET S |-> Cardinality(Units(s, f))]
<1>2. \A s \in SUBSET S : s # {} => Picked(s) \in s
  BY DEF Picked
<1>3. ASSUME NEW s \in SUBSET S
      PROVE  /\ units[s] \in Nat /\ IsFiniteSet(s) /\ Cardinality(s) \in Nat
             /\ units[s] = IF s = {} THEN 0 ELSE f[Picked(s)] + units[s \ {Picked(s)}]
  <2>1. IsFiniteSet(s) /\ Cardinality(s) \in Nat /\ \A x \in s : f[x] \in Nat
    BY FS_Subset, FS_CardinalityType
  <2>2. units[s] = Cardinality(Units(s, f)) /\ units[s \ {Picked(s)}] = Cardinality(Units(s \ {Picked(s)}, f))
    OBVIOUS
  <2>3. s = {} => Units(s, f) = {}
    BY DEF Units
  <2> HIDE DEF units
  <2> QED BY <1>2, <2>1, <2>2, <2>3, UnitsAdd, FS_EmptySet
<1>4. SumsUp(units, S, f)
  <2>1. units = [s \in SUBSET S |-> units[s]]
    OBVIOUS
  <2> HIDE DEF units
  <2> QED BY <1>3, <2>1 DEF SumsUp
<1> HIDE DEF units
<1>5. ASSUME NEW sum, SumsUp(sum, S, f) PROVE sum[S] = units[S]
  <2> DEFINE bad == {s \in SUBSET S : sum[s] # units[s]}
             sizes == {Cardinality(s) : s \in bad}
  <2>1. SUFFICES ASSUME bad # {} PROVE FALSE
    OBVIOUS
  <2>2. sizes # {} /\ sizes \in SUBSET Nat
    BY <1>3, <2>1
  <2>3. PICK n \in sizes : \A m \in sizes : n <= m
    BY <2>2, Least
  <2>4. PICK s \in bad : Cardinality(s) = n
    OBVIOUS
  <2>5. sum[s] = IF s = {} THEN 0 ELSE f[Picked(s)] + sum[s \ {Picked(s)}]
    BY <1>5 DEF SumsUp
  <2>6. s # {}
    BY <1>3, <2>5
  <2>7. s \ {Picked(s)} \notin bad
    <3>1. Cardinality(s \ {Picked(s)}) = Cardinality(s) - 1 /\ Cardinality(s) \in Nat
      BY <1>2, <1>3, <2>6, FS_RemoveElement
    <3>2. ~(Cardinality(s) <= Cardinality(s \ {Picked(s)}))
      BY <3>1
    <3> QED BY <2>3, <2>4, <3>2
  <2>8. sum[s \ {Picked(s)}] = units[s \ {Picked(s)}]
    BY <2>7
  <2> QED BY <1>3, <2>5, <2>6, <2>8
<1>6. units[S] = Cardinality(Units(S, f))
  BY DEF units
<1> QED BY <1>4, <1>5, <1>6

\* What holds at first, and with a number for the next one, holds at the end.
LEMMA CountUp ==
  ASSUME NEW n \in Nat, NEW P \in [0..n -> BOOLEAN], P[0], \A k \in 1..n : P[k - 1] => P[k]
  PROVE  \A k \in 0..n : P[k]
<1> DEFINE bad == {k \in 0..n : ~P[k]}
<1>1. ASSUME bad # {} PROVE FALSE
  <2>1. bad \in SUBSET Nat
    OBVIOUS
  <2>2. PICK k \in bad : \A m \in bad : k <= m
    BY <1>1, <2>1, Least
  <2>3. k \in 1..n /\ k - 1 \in 0..n
    OBVIOUS
  <2>4. k - 1 \notin bad
    <3> HIDE DEF bad
    <3> QED BY <2>2, <2>3
  <2> QED BY <2>3, <2>4
<1> QED BY <1>1

LEMMA MaxOf ==
  ASSUME NEW n \in Nat
  PROVE  /\ \A s \in SUBSET (1..n) : s # {} => Max(s) \in s
         /\ \A k \in 1..n : Max(1..k) = k
<1>1. ASSUME NEW s \in SUBSET (1..n), s # {} PROVE Max(s) \in s
  <2> DEFINE below == {n - x : x \in s}
  <2>1. below \in SUBSET Nat /\ below # {}
    <3>1. ASSUME NEW x \in s PROVE n - x \in Nat
      <4>1. x \in 1..n
        OBVIOUS
      <4> QED BY <4>1
    <3> QED BY <1>1, <3>1
  <2>2. PICK d \in below : \A e \in below : d <= e
    BY <2>1, Least
  <2>3. PICK x \in s : d = n - x
    OBVIOUS
  <2>4. ASSUME NEW y \in s PROVE x >= y
    <3>1. n - y \in below
      OBVIOUS
    <3>2. x \in Nat /\ y \in Nat /\ n - x <= n - y
      BY <2>2, <2>3, <3>1
    <3> QED BY <3>2
  <2> QED BY <2>4 DEF Max
<1>2. ASSUME NEW k \in 1..n PROVE Max(1..k) = k
  <2>1. 1..k \in SUBSET (1..n) /\ 1..k # {} /\ k \in 1..k
    OBVIOUS
  <2>2. Max(1..k) \in 1..k /\ \A y \in 1..k : Max(1..k) >= y
    <3>1. \E x \in 1..k : \A y \in 1..k : x >= y
      BY <2>1
    <3> QED BY <3>1 DEF Max
  <2>3. Max(1..k) >= k
    BY <2>1, <2>2
  <2> QED BY <2>2, <2>3
<1> QED BY <1>1, <1>2

\* Whole numbers, folded along a sequence of length n.
Steps(n, base, step) == n \in Nat /\ base \in Int /\ step \in [(1..n) \X Int -> Int]
FoldsAlong(f, n, base, step) ==
    \A s \in SUBSET (1..n) : f[s] = IF s = {} THEN base ELSE step[<<Max(s), f[s \ {Max(s)}]>>]
FoldsInts(f, n, base, step) ==
    /\ f[{}] = base
    /\ \A s \in SUBSET (1..n) :
          s # {} /\ f[s \ {Max(s)}] \in Int => f[s] = step[<<Max(s), f[s \ {Max(s)}]>>]

\* A fold of a sequence takes its elements one after the other.
LEMMA FoldAlong ==
  ASSUME NEW n, NEW base, NEW step, Steps(n, base, step), NEW iter, FoldsInts(iter, n, base, step)
  PROVE  /\ \A k \in 0..n : iter[1..k] \in Int
         /\ \A k \in 1..n : iter[1..k] = step[<<k, iter[1..(k - 1)]>>]
<1> USE DEF Steps, FoldsInts
<1> DEFINE P == [k \in 0..n |-> iter[1..k] \in Int]
<1>1. 1..0 = {}
  OBVIOUS
<1>2. ASSUME NEW k \in 1..n, iter[1..(k - 1)] \in Int
      PROVE  iter[1..k] = step[<<k, iter[1..(k - 1)]>>] /\ iter[1..k] \in Int
  <2>1. Max(1..k) = k
    BY MaxOf
  <2>2. (1..k) \ {k} = 1..(k - 1) /\ 1..k \in SUBSET (1..n) /\ 1..k # {}
    <3>1. \A j : j \in 1..(k - 1) <=> j \in 1..k /\ j # k
      OBVIOUS
    <3>2. \A j \in 1..k : j \in 1..n
      OBVIOUS
    <3> QED BY <3>1, <3>2
  <2>3. iter[1..k] = step[<<k, iter[1..(k - 1)]>>]
    BY <1>2, <2>1, <2>2
  <2> QED BY <1>2, <2>3
<1>3. P \in [0..n -> BOOLEAN] /\ P[0] /\ \A k \in 1..n : P[k - 1] => P[k]
  <2>1. P[0]
    <3>1. iter[1..0] \in Int /\ 0 \in 0..n
      BY <1>1
    <3>2. P[0] = (iter[1..0] \in Int)
      BY <3>1
    <3> QED BY <3>1, <3>2
  <2>2. \A k \in 1..n : k - 1 \in 0..n /\ k \in 0..n
    OBVIOUS
  <2>3. P \in [0..n -> BOOLEAN]
    OBVIOUS
  <2>4. \A k \in 0..n : P[k] <=> iter[1..k] \in Int
    OBVIOUS
  <2> HIDE DEF P
  <2> QED BY <1>2, <2>1, <2>2, <2>3, <2>4
<1>4. \A k \in 0..n : P[k]
  <2> HIDE DEF P
  <2> QED BY <1>3, CountUp
<1>5. \A k \in 0..n : iter[1..k] \in Int
  BY <1>4
<1>6. \A k \in 1..n : iter[1..(k - 1)] \in Int
  BY <1>5
<1> QED BY <1>2, <1>5, <1>6

\* There is a function that folds a sequence of whole numbers.
LEMMA FoldAlongExists ==
  ASSUME NEW n, NEW base, NEW step, Steps(n, base, step)
  PROVE  \E f \in [SUBSET (1..n) -> Int] : FoldsAlong(f, n, base, step)
<1> USE DEF Steps
<1> DEFINE D == 1..n
           pick == [s \in SUBSET D |-> IF s = {} THEN D ELSE Max(s)]
<1>1. IsFiniteSet(D)
  BY FS_Interval
<1>2. pick \in [SUBSET D -> D \cup {D}] /\ \A s \in SUBSET D : s # {} => pick[s] \in s /\ pick[s] = Max(s)
  BY MaxOf
<1>3. PICK f \in [SUBSET D -> Int] : FoldOf(f, D, base, step, pick)
  <2> DEFINE V == Int
  <2>1. step \in [D \X V -> V] /\ base \in V
    OBVIOUS
  <2>2. \A s \in SUBSET D : s # {} => pick[s] \in s
    BY <1>2
  <2>3. pick \in [SUBSET D -> D \cup {D}]
    BY <1>2
  <2> HIDE DEF D, pick, V
  <2>4. \E f \in [SUBSET D -> V] : FoldOf(f, D, base, step, pick)
    BY <1>1, <2>1, <2>2, <2>3, FoldExists
  <2> QED BY <2>4 DEF V
<1>4. \A s \in SUBSET D : f[s] = IF s = {} THEN base ELSE step[<<Max(s), f[s \ {Max(s)}]>>]
  <2> HIDE DEF D, pick
  <2> QED BY <1>2, <1>3 DEF FoldOf
<1> QED BY <1>3, <1>4 DEF FoldsAlong

-----------------------------------------------------------------------------
(* Reservations, in the order in which they are listed.                    *)

\* What a reservation has not used up.
Due(rows) == [i \in Reservations |-> Larger(reservation[i].amount - Allocated(rows, reservation[i].project), 0)]
DueToOthers(p) == [i \in Reservations |-> IF reservation[i].project = p THEN 0 ELSE Due(server)[i]]
Seen(list, k) == {list[j] : j \in 1..k}

LEMMA Amounts ==
  ASSUME ElectionTypeOK, NEW rows
  PROVE  /\ \A p : Allocated(rows, p) \in Nat
         /\ \A i \in Reservations : reservation[i].amount \in Nat /\ Due(rows)[i] \in Nat /\ Due(server)[i] \in Nat
         /\ \A p : \A i \in Reservations : DueToOthers(p)[i] \in Nat
<1>1. ASSUME NEW p, NEW t PROVE Allocated(t, p) \in Nat
  BY ElectionAssumption, FS_Subset, FS_CardinalityType DEF Allocated, OfProject
<1>2. \A i \in Reservations : reservation[i].amount \in Nat
  BY ElectionAssumption DEF ElectionTypeOK, ReservationRows
<1>3. \A i \in Reservations : Due(rows)[i] \in Nat /\ Due(server)[i] \in Nat
  BY <1>1, <1>2 DEF Due, Larger
<1> QED BY <1>1, <1>2, <1>3 DEF DueToOthers

LEMMA ListedOnce ==
  ASSUME NEW list \in Listings(reservation)
  PROVE  LET n == Cardinality(Reserved(reservation)) IN
         /\ n \in Nat /\ IsFiniteSet(Reserved(reservation)) /\ list \in [1..n -> Reserved(reservation)]
         /\ Seen(list, 0) = {} /\ Seen(list, n) = Reserved(reservation)
         /\ \A k \in 1..n : /\ Seen(list, k) \ {list[k]} = Seen(list, k - 1)
                            /\ list[k] \in Seen(list, k) /\ Seen(list, k) \subseteq Reserved(reservation)
<1> DEFINE n == Cardinality(Reserved(reservation))
<1>1. IsFiniteSet(Reserved(reservation)) /\ n \in Nat
  BY ElectionAssumption, FS_Subset, FS_CardinalityType DEF Reserved
<1> HIDE DEF n
<1>2. list \in [1..n -> Reserved(reservation)] /\ \A i, j \in 1..n : i # j => list[i] # list[j]
  BY DEF Listings, SetToSeqs, n
<1>3. Seen(list, n) = Reserved(reservation)
  <2>1. list \in Injection(1..n, Reserved(reservation))
    BY <1>2 DEF Injection, IsInjective
  <2>2. Cardinality(1..n) = n
    BY <1>1, FS_Interval
  <2>3. list \in Surjection(1..n, Reserved(reservation))
    BY <1>1, <2>1, <2>2, FS_Injection DEF n
  <2> QED BY <2>3 DEF Surjection, Seen
<1>4. Seen(list, 0) = {}
  BY DEF Seen
<1>5. ASSUME NEW k \in 1..n
      PROVE  /\ Seen(list, k) \ {list[k]} = Seen(list, k - 1)
             /\ list[k] \in Seen(list, k) /\ Seen(list, k) \subseteq Reserved(reservation)
  <2>1. \A j : j \in 1..k <=> j \in 1..(k - 1) \/ j = k
    BY <1>1
  <2>2. \A j \in 1..k : j \in 1..n
    BY <1>1
  <2>3. k \in 1..k /\ k \notin 1..(k - 1)
    BY <1>1
  <2> QED BY <1>2, <2>1, <2>2, <2>3 DEF Seen
<1> QED BY <1>1, <1>2, <1>3, <1>4, <1>5 DEF n

\* What is kept for the reservations, one after the other as they are listed.
LEMMA KeptAlong ==
  ASSUME ElectionTypeOK, NEW rows, NEW list \in Listings(reservation)
  PROVE  \E iter : /\ KeptFor(rows, reservation, list) = iter[1..Cardinality(Reserved(reservation))] /\ iter[{}] = 0
                   /\ \A k \in 0..Cardinality(Reserved(reservation)) : iter[1..k] \in Int
                   /\ \A k \in 1..Cardinality(Reserved(reservation)) :
                         iter[1..k] = Larger(iter[1..(k - 1)] + reservation[list[k]].amount
                                                - Allocated(rows, reservation[list[k]].project), 0)
<1> DEFINE n == Cardinality(Reserved(reservation))
           amount(k) == reservation[list[k]].amount
           used(k) == Allocated(rows, reservation[list[k]].project)
           step == [u \in (1..n) \X Int |-> Larger(u[2] + amount(u[1]) - used(u[1]), 0)]
           Iter(f) == f = [s \in SUBSET DOMAIN list |->
                              IF s = {} THEN 0 ELSE Larger(f[s \ {Max(s)}] + amount(Max(s)) - used(Max(s)), 0)]
           iter == CHOOSE f : Iter(f)
<1>1. KeptFor(rows, reservation, list) = iter[DOMAIN list]
  BY DEF KeptFor, FoldLeft, MapThenFoldSet
<1>2. n \in Nat /\ list \in [1..n -> Reserved(reservation)] /\ DOMAIN list = 1..n
  BY ListedOnce
<1>3. \A k \in 1..n : amount(k) \in Int /\ used(k) \in Int
  <2> SUFFICES ASSUME NEW k \in 1..n PROVE amount(k) \in Int /\ used(k) \in Int
    OBVIOUS
  <2>1. list[k] \in Reservations
    BY <1>2 DEF Reserved
  <2>2. Allocated(rows, reservation[list[k]].project) \in Nat
    BY Amounts
  <2>3. reservation[list[k]].amount \in Nat
    BY <2>1, Amounts
  <2> QED BY <2>2, <2>3
<1>4. step \in [(1..n) \X Int -> Int]
  <2> HIDE DEF n, amount, used
  <2> QED BY <1>3 DEF Larger
<1>5. \A k \in 1..n, x \in Int : step[<<k, x>>] = Larger(x + amount(k) - used(k), 0)
  <2> HIDE DEF n, amount, used
  <2> QED OBVIOUS
<1> HIDE DEF n, amount, used, step
<1>6. \A s \in SUBSET (1..n) : s # {} => Max(s) \in 1..n
  BY <1>2, MaxOf
<1>7. Iter(iter)
  <2>1. PICK f \in [SUBSET (1..n) -> Int] : FoldsAlong(f, n, 0, step)
    <3>1. Steps(n, 0, step)
      BY <1>2, <1>4 DEF Steps
    <3> QED BY <3>1, FoldAlongExists
  <2>2. \A s \in SUBSET (1..n) : f[s] =
           IF s = {} THEN 0 ELSE Larger(f[s \ {Max(s)}] + amount(Max(s)) - used(Max(s)), 0)
    <3>1. ASSUME NEW s \in SUBSET (1..n), s # {}
          PROVE  f[s] = Larger(f[s \ {Max(s)}] + amount(Max(s)) - used(Max(s)), 0)
      <4>1. f[s \ {Max(s)}] \in Int
        BY <2>1
      <4>2. f[s] = step[<<Max(s), f[s \ {Max(s)}]>>]
        BY <2>1, <3>1 DEF FoldsAlong
      <4> QED BY <1>5, <1>6, <3>1, <4>1, <4>2
    <3>2. f[{}] = 0
      BY <2>1 DEF FoldsAlong
    <3> QED BY <3>1, <3>2
  <2>3. Iter(f)
    <3>1. f = [s \in SUBSET (1..n) |-> f[s]]
      OBVIOUS
    <3> QED BY <1>2, <2>2, <3>1
  <2> HIDE DEF Iter
  <2> QED BY <2>3
<1> HIDE DEF iter
<1>8. iter[{}] = 0
  BY <1>7
<1>9. Steps(n, 0, step) /\ FoldsInts(iter, n, 0, step)
  <2>1. ASSUME NEW s \in SUBSET (1..n), s # {}, iter[s \ {Max(s)}] \in Int
        PROVE  iter[s] = step[<<Max(s), iter[s \ {Max(s)}]>>]
    <3>1. iter[s] = Larger(iter[s \ {Max(s)}] + amount(Max(s)) - used(Max(s)), 0)
      BY <1>2, <1>7, <2>1
    <3> HIDE DEF Iter
    <3> QED BY <1>5, <1>6, <2>1, <3>1
  <2> HIDE DEF Iter
  <2>2. Steps(n, 0, step)
    BY <1>2, <1>4 DEF Steps
  <2>3. FoldsInts(iter, n, 0, step)
    BY <1>8, <2>1 DEF FoldsInts
  <2> QED BY <2>2, <2>3
<1>10. /\ \A k \in 0..n : iter[1..k] \in Int
       /\ \A k \in 1..n : iter[1..k] = step[<<k, iter[1..(k - 1)]>>]
  <2> HIDE DEF Iter
  <2> QED BY <1>9, FoldAlong
<1>11. \A k \in 1..n : iter[1..k] = Larger(iter[1..(k - 1)] + amount(k) - used(k), 0)
  <2>1. \A k \in 1..n : k - 1 \in 0..n
    BY <1>2
  <2> QED BY <1>5, <1>10, <2>1
<1> QED BY <1>1, <1>2, <1>8, <1>10, <1>11 DEF n, amount, used

\* What the capacity takes off for the reservations, one after the other as they are listed.
LEMMA FreeAlong ==
  ASSUME ElectionTypeOK, NEW p, NEW list \in Listings(reservation)
  PROVE  \E iter : /\ FreeCapacity(p, list) = iter[1..Cardinality(Reserved(reservation))] /\ iter[{}] = Cardinality(Waiting)
                   /\ \A k \in 0..Cardinality(Reserved(reservation)) : iter[1..k] \in Int
                   /\ \A k \in 1..Cardinality(Reserved(reservation)) :
                         iter[1..k] = IF reservation[list[k]].project = p THEN iter[1..(k - 1)]
                                      ELSE Larger(iter[1..(k - 1)] - (reservation[list[k]].amount - Used(list[k])), 0)
<1> DEFINE n == Cardinality(Reserved(reservation))
           whole == Cardinality(Waiting)
           same(k) == reservation[list[k]].project = p
           rest(k) == reservation[list[k]].amount - Used(list[k])
           after(x, k) == IF same(k) THEN x ELSE Larger(x - rest(k), 0)
           step == [u \in (1..n) \X Int |-> after(u[2], u[1])]
           Iter(f) == f = [s \in SUBSET DOMAIN list |->
                              IF s = {} THEN whole ELSE after(f[s \ {Max(s)}], Max(s))]
           iter == CHOOSE f : Iter(f)
<1>1. FreeCapacity(p, list) = iter[DOMAIN list]
  BY DEF FreeCapacity, FoldLeft, MapThenFoldSet
<1>2. n \in Nat /\ list \in [1..n -> Reserved(reservation)] /\ DOMAIN list = 1..n
  BY ListedOnce
<1>3. whole \in Int /\ \A k \in 1..n : rest(k) \in Int
  <2>1. whole \in Nat
    BY ElectionAssumption, FS_Subset, FS_CardinalityType DEF Waiting, Candidates
  <2>2. ASSUME NEW k \in 1..n PROVE rest(k) \in Int
    <3>1. reservation[list[k]].amount \in Int /\ Allocated(server, reservation[list[k]].project) \in Int
      BY <1>2, Amounts DEF Reserved
    <3> QED BY <3>1 DEF Used, Smaller
  <2> QED BY <2>1, <2>2
<1>4. step \in [(1..n) \X Int -> Int]
  <2>1. \A k \in 1..n, x \in Int : after(x, k) \in Int
    BY <1>3 DEF Larger
  <2> HIDE DEF n, whole, after
  <2> QED BY <2>1
<1>5. \A k \in 1..n, x \in Int : step[<<k, x>>] = after(x, k)
  <2> HIDE DEF n, whole, after
  <2> QED OBVIOUS
<1> HIDE DEF n, whole, after, step
<1>6. \A s \in SUBSET (1..n) : s # {} => Max(s) \in 1..n
  BY <1>2, MaxOf
<1>7. Iter(iter)
  <2>1. PICK f \in [SUBSET (1..n) -> Int] : FoldsAlong(f, n, whole, step)
    <3>1. Steps(n, whole, step)
      BY <1>2, <1>3, <1>4 DEF Steps
    <3> QED BY <3>1, FoldAlongExists
  <2>2. \A s \in SUBSET (1..n) : f[s] =
           IF s = {} THEN whole ELSE after(f[s \ {Max(s)}], Max(s))
    <3>1. ASSUME NEW s \in SUBSET (1..n), s # {}
          PROVE  f[s] = after(f[s \ {Max(s)}], Max(s))
      <4>1. f[s \ {Max(s)}] \in Int
        BY <2>1
      <4>2. f[s] = step[<<Max(s), f[s \ {Max(s)}]>>]
        BY <2>1, <3>1 DEF FoldsAlong
      <4> QED BY <1>5, <1>6, <3>1, <4>1, <4>2
    <3>2. f[{}] = whole
      BY <2>1 DEF FoldsAlong
    <3> QED BY <3>1, <3>2
  <2>3. Iter(f)
    <3>1. f = [s \in SUBSET (1..n) |-> f[s]]
      OBVIOUS
    <3> QED BY <1>2, <2>2, <3>1
  <2> HIDE DEF Iter
  <2> QED BY <2>3
<1> HIDE DEF iter
<1>8. iter[{}] = whole
  BY <1>7
<1>9. Steps(n, whole, step) /\ FoldsInts(iter, n, whole, step)
  <2>1. ASSUME NEW s \in SUBSET (1..n), s # {}, iter[s \ {Max(s)}] \in Int
        PROVE  iter[s] = step[<<Max(s), iter[s \ {Max(s)}]>>]
    <3>1. iter[s] = after(iter[s \ {Max(s)}], Max(s))
      BY <1>2, <1>7, <2>1
    <3> HIDE DEF Iter
    <3> QED BY <1>5, <1>6, <2>1, <3>1
  <2> HIDE DEF Iter
  <2>2. Steps(n, whole, step)
    BY <1>2, <1>3, <1>4 DEF Steps
  <2>3. FoldsInts(iter, n, whole, step)
    BY <1>8, <2>1 DEF FoldsInts
  <2> QED BY <2>2, <2>3
<1>10. /\ \A k \in 0..n : iter[1..k] \in Int
       /\ \A k \in 1..n : iter[1..k] = step[<<k, iter[1..(k - 1)]>>]
  <2> HIDE DEF Iter
  <2> QED BY <1>9, FoldAlong
<1>11. \A k \in 1..n : iter[1..k] = after(iter[1..(k - 1)], k)
  <2>1. \A k \in 1..n : k - 1 \in 0..n
    BY <1>2
  <2> QED BY <1>5, <1>10, <2>1
<1> QED BY <1>1, <1>2, <1>8, <1>10, <1>11 DEF n, whole, after

\* No more is kept than is due, and all of it where no project has more than is reserved.
LEMMA KeptIsDue ==
  ASSUME ElectionTypeOK, NEW rows, NEW list \in Listings(reservation)
  PROVE  /\ KeptFor(rows, reservation, list) \in Int /\ Cardinality(Units(Reserved(reservation), Due(rows))) \in Nat
         /\ KeptFor(rows, reservation, list) <= Cardinality(Units(Reserved(reservation), Due(rows)))
         /\ (\A i \in Reserved(reservation) : Allocated(rows, reservation[i].project) <= reservation[i].amount)
               => KeptFor(rows, reservation, list) = Cardinality(Units(Reserved(reservation), Due(rows)))
<1> DEFINE n == Cardinality(Reserved(reservation))
           due(k) == Cardinality(Units(Seen(list, k), Due(rows)))
           all == \A i \in Reserved(reservation) : Allocated(rows, reservation[i].project) <= reservation[i].amount
<1>1. PICK iter : /\ KeptFor(rows, reservation, list) = iter[1..n] /\ iter[{}] = 0
                  /\ \A k \in 0..n : iter[1..k] \in Int
                  /\ \A k \in 1..n :
                         iter[1..k] = Larger(iter[1..(k - 1)] + reservation[list[k]].amount
                                                - Allocated(rows, reservation[list[k]].project), 0)
  BY KeptAlong
<1>2. /\ n \in Nat /\ IsFiniteSet(Reserved(reservation)) /\ list \in [1..n -> Reserved(reservation)]
      /\ Seen(list, 0) = {} /\ Seen(list, n) = Reserved(reservation)
      /\ \A k \in 1..n : /\ Seen(list, k) \ {list[k]} = Seen(list, k - 1)
                         /\ list[k] \in Seen(list, k) /\ Seen(list, k) \subseteq Reserved(reservation)
  BY ListedOnce
<1>3. \A i \in Reserved(reservation) : /\ reservation[i].amount \in Nat /\ Allocated(rows, reservation[i].project) \in Nat
                          /\ Due(rows)[i] = Larger(reservation[i].amount - Allocated(rows, reservation[i].project), 0)
                          /\ Due(rows)[i] \in Nat
  BY Amounts DEF Reserved, Due
<1> HIDE DEF n
<1>4. due(0) = 0
  <2>1. Units({}, Due(rows)) = {}
    BY DEF Units
  <2> QED BY <1>2, <2>1, FS_EmptySet
<1>5. ASSUME NEW k \in 1..n PROVE due(k) = Due(rows)[list[k]] + due(k - 1) /\ list[k] \in Reserved(reservation)
  <2>1. IsFiniteSet(Seen(list, k)) /\ \A i \in Seen(list, k) : Due(rows)[i] \in Nat
    BY <1>2, <1>3, FS_Subset
  <2>2. list[k] \in Seen(list, k) /\ Seen(list, k) \ {list[k]} = Seen(list, k - 1) /\ list[k] \in Reserved(reservation)
    BY <1>2
  <2>3. Cardinality(Units(Seen(list, k), Due(rows))) = Due(rows)[list[k]] + Cardinality(Units(Seen(list, k) \ {list[k]}, Due(rows)))
    BY <2>1, <2>2, UnitsAdd
  <2> QED BY <2>2, <2>3
<1>6. \A k \in 0..n : due(k) \in Nat
  <2>1. ASSUME NEW k \in 0..n PROVE due(k) \in Nat
    <3>1. Seen(list, k) \subseteq Reserved(reservation)
      <4>1. k = 0 \/ k \in 1..n
        BY <1>2
      <4> QED BY <1>2, <4>1
    <3>2. IsFiniteSet(Seen(list, k)) /\ \A i \in Seen(list, k) : Due(rows)[i] \in Nat
      BY <1>2, <1>3, <3>1, FS_Subset
    <3> QED BY <3>2, UnitsAdd
  <2> QED BY <2>1
<1> HIDE DEF due, all
<1>7. \A k \in 0..n : iter[1..k] <= due(k) /\ (all => iter[1..k] = due(k))
  <2> DEFINE P == [k \in 0..n |-> iter[1..k] <= due(k) /\ (all => iter[1..k] = due(k))]
  <2>1. \A k \in 0..n : P[k] <=> iter[1..k] <= due(k) /\ (all => iter[1..k] = due(k))
    OBVIOUS
  <2>2. P \in [0..n -> BOOLEAN]
    OBVIOUS
  <2> HIDE DEF P
  <2>3. P[0]
    <3>1. 1..0 = {} /\ 0 \in 0..n
      BY <1>2
    <3>2. iter[1..0] = 0 /\ due(0) = 0
      BY <1>1, <1>4, <3>1
    <3> QED BY <2>1, <3>1, <3>2
  <2>4. ASSUME NEW k \in 1..n, P[k - 1] PROVE P[k]
    <3>1. k - 1 \in 0..n /\ k \in 0..n
      BY <1>2
    <3>2. iter[1..(k - 1)] <= due(k - 1) /\ (all => iter[1..(k - 1)] = due(k - 1))
      BY <2>1, <2>4, <3>1
    <3> DEFINE a == reservation[list[k]].amount
               u == Allocated(rows, reservation[list[k]].project)
    <3>3. iter[1..k] = Larger(iter[1..(k - 1)] + a - u, 0)
      BY <1>1
    <3>4. a \in Nat /\ u \in Nat /\ Due(rows)[list[k]] = Larger(a - u, 0) /\ (all => u <= a)
      BY <1>3, <1>5 DEF all
    <3>5. iter[1..k] \in Int /\ iter[1..(k - 1)] \in Int /\ due(k) \in Nat /\ due(k - 1) \in Nat
      BY <1>1, <1>6, <3>1
    <3>6. due(k) = Due(rows)[list[k]] + due(k - 1)
      BY <1>5
    <3> HIDE DEF a, u
    <3>7. iter[1..k] <= due(k)
      BY <3>2, <3>3, <3>4, <3>5, <3>6 DEF Larger
    <3>8. all => iter[1..k] = due(k)
      BY <3>2, <3>3, <3>4, <3>5, <3>6 DEF Larger
    <3> QED BY <2>1, <3>1, <3>7, <3>8
  <2>5. \A k \in 1..n : P[k - 1] => P[k]
    BY <2>4
  <2>6. n \in Nat
    BY <1>2
  <2>7. \A k \in 0..n : P[k]
    BY <2>2, <2>3, <2>5, <2>6, CountUp
  <2> QED BY <2>1, <2>7
<1>8. n \in 0..n
  BY <1>2
<1>9. KeptFor(rows, reservation, list) <= due(n) /\ (all => KeptFor(rows, reservation, list) = due(n)) /\ due(n) \in Nat /\ KeptFor(rows, reservation, list) \in Int
  BY <1>1, <1>6, <1>7, <1>8
<1> QED BY <1>2, <1>9 DEF due, all

\* What the capacity has free is what is left of the waiting machines when others get their due.
LEMMA FreeIsLeft ==
  ASSUME ElectionTypeOK, NEW p, NEW list \in Listings(reservation), FreeCapacity(p, list) > 0
  PROVE  Cardinality(Units(Reserved(reservation), DueToOthers(p))) < Cardinality(Waiting)
<1> DEFINE n == Cardinality(Reserved(reservation))
           others == DueToOthers(p)
           due(k) == Cardinality(Units(Seen(list, k), others))
           whole == Cardinality(Waiting)
<1>1. PICK iter : /\ FreeCapacity(p, list) = iter[1..n] /\ iter[{}] = whole
                  /\ \A k \in 0..n : iter[1..k] \in Int
                  /\ \A k \in 1..n :
                        iter[1..k] = IF reservation[list[k]].project = p THEN iter[1..(k - 1)]
                                     ELSE Larger(iter[1..(k - 1)] - (reservation[list[k]].amount - Used(list[k])), 0)
  BY FreeAlong
<1>2. /\ n \in Nat /\ IsFiniteSet(Reserved(reservation)) /\ list \in [1..n -> Reserved(reservation)]
      /\ Seen(list, 0) = {} /\ Seen(list, n) = Reserved(reservation)
      /\ \A k \in 1..n : /\ Seen(list, k) \ {list[k]} = Seen(list, k - 1)
                         /\ list[k] \in Seen(list, k) /\ Seen(list, k) \subseteq Reserved(reservation)
  BY ListedOnce
<1>3. ASSUME NEW i \in Reserved(reservation)
      PROVE  /\ others[i] \in Nat
             /\ reservation[i].project = p => others[i] = 0
             /\ reservation[i].project # p => reservation[i].amount - Used(i) = others[i]
  <2>1. /\ reservation[i].amount \in Nat /\ Allocated(server, reservation[i].project) \in Nat
        /\ Due(server)[i] = Larger(reservation[i].amount - Allocated(server, reservation[i].project), 0)
        /\ others[i] \in Nat /\ others[i] = IF reservation[i].project = p THEN 0 ELSE Due(server)[i]
    BY Amounts DEF Reserved, Due, DueToOthers
  <2> QED BY <2>1 DEF Used, Smaller, Larger
<1>4. whole \in Nat
  BY ElectionAssumption, FS_Subset, FS_CardinalityType DEF Waiting, Candidates
<1> HIDE DEF n, others, whole
<1>5. due(0) = 0
  <2>1. Units({}, others) = {}
    BY DEF Units
  <2> QED BY <1>2, <2>1, FS_EmptySet
<1>6. ASSUME NEW k \in 1..n PROVE due(k) = others[list[k]] + due(k - 1) /\ list[k] \in Reserved(reservation)
  <2>1. IsFiniteSet(Seen(list, k)) /\ \A i \in Seen(list, k) : others[i] \in Nat
    BY <1>2, <1>3, FS_Subset
  <2>2. list[k] \in Seen(list, k) /\ Seen(list, k) \ {list[k]} = Seen(list, k - 1) /\ list[k] \in Reserved(reservation)
    BY <1>2
  <2>3. Cardinality(Units(Seen(list, k), others))
           = others[list[k]] + Cardinality(Units(Seen(list, k) \ {list[k]}, others))
    BY <2>1, <2>2, UnitsAdd
  <2> QED BY <2>2, <2>3
<1>7. \A k \in 0..n : due(k) \in Nat
  <2>1. ASSUME NEW k \in 0..n PROVE due(k) \in Nat
    <3>1. Seen(list, k) \subseteq Reserved(reservation)
      <4>1. k = 0 \/ k \in 1..n
        BY <1>2
      <4> QED BY <1>2, <4>1
    <3>2. IsFiniteSet(Seen(list, k)) /\ \A i \in Seen(list, k) : others[i] \in Nat
      BY <1>2, <1>3, <3>1, FS_Subset
    <3> QED BY <3>2, UnitsAdd
  <2> QED BY <2>1
<1> HIDE DEF due
<1>8. \A k \in 0..n : iter[1..k] > 0 => iter[1..k] + due(k) = whole
  <2> DEFINE P == [k \in 0..n |-> iter[1..k] > 0 => iter[1..k] + due(k) = whole]
  <2>1. \A k \in 0..n : P[k] <=> (iter[1..k] > 0 => iter[1..k] + due(k) = whole)
    OBVIOUS
  <2>2. P \in [0..n -> BOOLEAN]
    OBVIOUS
  <2> HIDE DEF P
  <2>3. P[0]
    <3>1. 1..0 = {} /\ 0 \in 0..n
      BY <1>2
    <3>2. iter[1..0] = whole /\ due(0) = 0
      BY <1>1, <1>5, <3>1
    <3> QED BY <1>4, <2>1, <3>1, <3>2
  <2>4. ASSUME NEW k \in 1..n, P[k - 1] PROVE P[k]
    <3>1. k - 1 \in 0..n /\ k \in 0..n
      BY <1>2
    <3>2. iter[1..(k - 1)] > 0 => iter[1..(k - 1)] + due(k - 1) = whole
      BY <2>1, <2>4, <3>1
    <3>3. /\ iter[1..k] \in Int /\ iter[1..(k - 1)] \in Int /\ due(k) \in Nat /\ due(k - 1) \in Nat
          /\ others[list[k]] \in Nat
      BY <1>1, <1>3, <1>6, <1>7, <3>1
    <3>4. \/ iter[1..k] = Larger(iter[1..(k - 1)] - others[list[k]], 0)
          \/ iter[1..k] = iter[1..(k - 1)] /\ others[list[k]] = 0
      <4>1. CASE reservation[list[k]].project = p
        BY <1>1, <1>3, <1>6, <4>1
      <4>2. CASE reservation[list[k]].project # p
        BY <1>1, <1>3, <1>6, <4>2
      <4> QED BY <4>1, <4>2
    <3>5. due(k) = others[list[k]] + due(k - 1)
      BY <1>6
    <3>6. iter[1..k] > 0 => iter[1..k] + due(k) = whole
      BY <1>4, <3>2, <3>3, <3>4, <3>5 DEF Larger
    <3> QED BY <2>1, <3>1, <3>6
  <2>5. \A k \in 1..n : P[k - 1] => P[k]
    BY <2>4
  <2>6. n \in Nat
    BY <1>2
  <2>7. \A k \in 0..n : P[k]
    BY <2>2, <2>3, <2>5, <2>6, CountUp
  <2> QED BY <2>1, <2>7
<1>9. n \in 0..n
  BY <1>2
<1>10. due(n) < whole
  <2>1. iter[1..n] > 0 /\ iter[1..n] \in Int /\ due(n) \in Nat
    BY <1>1, <1>7, <1>9
  <2>2. iter[1..n] + due(n) = whole
    BY <1>8, <1>9, <2>1
  <2> QED BY <1>4, <2>1, <2>2
<1> QED BY <1>2, <1>10 DEF due, others, whole

\* An election has a machine for whoever the capacity has one free for.
LEMMA FreeElectable ==
  ASSUME ElectionTypeOK PROVE FreeIsElectable
<1> SUFFICES ASSUME NEW p \in Tenants, NEW asked \in {p, Nobody}, NEW list \in Listings(reservation), NEW other \in Listings(reservation),
                    FreeCapacity(asked, list) > 0, ~Entitled(server, reservation, p)
             PROVE  KeptFor(server, reservation, other) < Cardinality(Waiting)
  BY DEF FreeIsElectable, CheckSizeReservations
<1>1. \A i \in Reserved(reservation) : DueToOthers(asked)[i] = Due(server)[i]
  <2>1. ASSUME NEW i \in Reserved(reservation), reservation[i].project = asked PROVE Due(server)[i] = 0
    <3>1. asked = p
      BY <2>1 DEF Reserved
    <3>2. /\ reservation[i].amount \in Nat /\ Allocated(server, p) \in Nat
          /\ Due(server)[i] = Larger(reservation[i].amount - Allocated(server, p), 0)
      BY <2>1, <3>1, Amounts DEF Reserved, Due
    <3>3. ~(Allocated(server, p) < reservation[i].amount)
      BY <2>1, <3>1 DEF Entitled
    <3> QED BY <3>2, <3>3 DEF Larger
  <2> QED BY <2>1 DEF DueToOthers, Reserved
<1>2. Units(Reserved(reservation), DueToOthers(asked)) = Units(Reserved(reservation), Due(server))
  BY <1>1 DEF Units
<1>3. Cardinality(Units(Reserved(reservation), Due(server))) < Cardinality(Waiting)
  BY <1>2, FreeIsLeft
<1>4. Cardinality(Waiting) \in Nat
  BY ElectionAssumption, FS_Subset, FS_CardinalityType DEF Waiting, Candidates
<1> QED BY <1>3, <1>4, KeptIsDue

-----------------------------------------------------------------------------
(* Reservations that are used up by those they are for.                    *)

AmountOf == [i \in Reservations |-> reservation[i].amount]
UnusedBy == [p \in Tenants |-> Unused(p)]
Of(p) == {i \in Reserved(reservation) : reservation[i].project = p}

\* The sums of the reservations are numbers of units.
SumsCount ==
    /\ \A p \in Tenants : ReservedFor(p) = Cardinality(Units(Of(p), AmountOf))
    /\ Backed <=> Cardinality(Units(Tenants, UnusedBy)) <= Cardinality(Waiting)

LEMMA ReservedAddsUp ==
  ASSUME ElectionTypeOK, NEW p \in Tenants
  PROVE  ReservedFor(p) = Cardinality(Units(Of(p), AmountOf)) /\ ReservedFor(p) \in Nat
<1> DEFINE Iter(g) == g = [s \in SUBSET Of(p) |->
              IF s = {} THEN 0 ELSE reservation[CHOOSE x \in s : TRUE].amount + g[s \ {CHOOSE x \in s : TRUE}]]
           iter == CHOOSE g : Iter(g)
<1>1. ReservedFor(p) = iter[Of(p)]
  BY DEF ReservedFor, MapThenSumSet, MapThenFoldSet, Of
<1>2. IsFiniteSet(Of(p)) /\ \A i \in Of(p) : AmountOf[i] \in Nat /\ AmountOf[i] = reservation[i].amount
  BY ElectionAssumption, FS_Subset, Amounts DEF Of, Reserved, AmountOf
<1>3. \A s \in SUBSET Of(p) : s # {} => Picked(s) \in s
  BY DEF Picked
<1>4. ASSUME NEW g PROVE Iter(g) <=> SumsUp(g, Of(p), AmountOf)
  <2>1. Iter(g) <=> g = [s \in SUBSET Of(p) |->
            IF s = {} THEN 0 ELSE reservation[Picked(s)].amount + g[s \ {Picked(s)}]]
    BY DEF Picked
  <2>2. \A s \in SUBSET Of(p) : s # {} => reservation[Picked(s)].amount = AmountOf[Picked(s)]
    BY <1>2, <1>3
  <2> QED BY <2>1, <2>2 DEF SumsUp
<1> HIDE DEF Iter
<1>5. Iter(iter)
  BY <1>2, <1>4, SumIsUnits
<1> HIDE DEF iter
<1>6. Cardinality(Units(Of(p), AmountOf)) \in Nat
  BY <1>2, UnitsAdd
<1> QED BY <1>1, <1>2, <1>4, <1>5, <1>6, SumIsUnits

\* What is not used of the reservations of a project is a number.
LEMMA UnusedAmounts ==
  ASSUME ElectionTypeOK, NEW p \in Tenants
  PROVE  /\ Cardinality(Pending(p)) \in Nat /\ IsFiniteSet(Pending(p)) /\ Allocated(server, p) \in Nat
         /\ ReservedFor(p) \in Nat /\ Unused(p) \in Nat
<1>1. Cardinality(Pending(p)) \in Nat /\ IsFiniteSet(Pending(p))
  BY ElectionAssumption, FS_Subset, FS_CardinalityType DEF Pending
<1>2. Allocated(server, p) \in Nat /\ ReservedFor(p) \in Nat
  BY Amounts, ReservedAddsUp
<1> QED BY <1>1, <1>2 DEF Unused, Larger

LEMMA SumsAreUnits == ElectionTypeOK => SumsCount
<1> SUFFICES ASSUME ElectionTypeOK PROVE SumsCount
  OBVIOUS
<1> DEFINE Iter(g) == g = [s \in SUBSET Tenants |->
              IF s = {} THEN 0 ELSE Unused(CHOOSE x \in s : TRUE) + g[s \ {CHOOSE x \in s : TRUE}]]
           iter == CHOOSE g : Iter(g)
<1>1. MapThenSumSet(Unused, Tenants) = iter[Tenants]
  BY DEF MapThenSumSet, MapThenFoldSet
<1>2. IsFiniteSet(Tenants) /\ \A p \in Tenants : UnusedBy[p] \in Nat /\ UnusedBy[p] = Unused(p)
  BY ElectionAssumption, UnusedAmounts DEF UnusedBy
<1>3. \A s \in SUBSET Tenants : s # {} => Picked(s) \in s
  BY DEF Picked
<1>4. ASSUME NEW g PROVE Iter(g) <=> SumsUp(g, Tenants, UnusedBy)
  <2>1. Iter(g) <=> g = [s \in SUBSET Tenants |->
            IF s = {} THEN 0 ELSE Unused(Picked(s)) + g[s \ {Picked(s)}]]
    BY DEF Picked
  <2>2. \A s \in SUBSET Tenants : s # {} => Unused(Picked(s)) = UnusedBy[Picked(s)]
    BY <1>2, <1>3
  <2> QED BY <2>1, <2>2 DEF SumsUp
<1> HIDE DEF Iter
<1>5. Iter(iter)
  BY <1>2, <1>4, SumIsUnits
<1> HIDE DEF iter
<1>6. MapThenSumSet(Unused, Tenants) = Cardinality(Units(Tenants, UnusedBy))
  BY <1>1, <1>2, <1>4, <1>5, SumIsUnits
<1> QED BY <1>6, ReservedAddsUp DEF SumsCount, Backed

\* A project has one reservation, and has no more machines, one it requests included, than that
\* is for.
Unshared == \A i, j \in Reserved(reservation) : reservation[i].project = reservation[j].project => i = j
WithinAmounts == \A i \in Reserved(reservation), p \in Tenants : reservation[i].project = p =>
    /\ Allocated(server, p) <= reservation[i].amount
    /\ UnderWayFor(p) # {} => Allocated(server, p) < reservation[i].amount

ReservationsInv == Unshared /\ WithinAmounts

\* All that the run of the election takes for granted.
AllModest == ElectionAssumed = ElectionAssumptions

LEMMA ReservationsStart ==
  ASSUME AllModest, ElectionInit PROVE ReservationsInv
<1>1. Unshared
  BY ElectionAssumption DEF Unshared, Reserved, ElectionInit, AllModest, ElectionAssumptions
<1>2. WithinAmounts
  <2> SUFFICES ASSUME NEW i \in Reserved(reservation), NEW p \in Tenants
               PROVE  Allocated(server, p) <= reservation[i].amount /\ UnderWayFor(p) = {}
    BY DEF WithinAmounts
  <2>1. reservation[i].amount \in Nat
    BY ElectionAssumption DEF ElectionInit, Reserved
  <2>2. OfProject(server, p) = {} /\ UnderWayFor(p) = {}
    BY <2>1, ElectionAssumption DEF ElectionInit, OfProject, UnderWayFor, FreeServer, NoRequest
  <2> QED BY <2>1, <2>2, FS_EmptySet DEF Allocated
<1> QED BY <1>1, <1>2 DEF ReservationsInv

\* The only reservation of a project is all that is reserved for it.
LEMMA OneReservation ==
  ASSUME ElectionTypeOK, Unshared, NEW i \in Reserved(reservation)
  PROVE  ReservedFor(reservation[i].project) = reservation[i].amount
<1> DEFINE p == reservation[i].project
<1>1. p \in Tenants
  BY DEF ElectionTypeOK, ReservationRows, Reserved
<1>2. Of(p) = {i}
  BY DEF Of, Unshared
<1>3. AmountOf[i] = reservation[i].amount /\ AmountOf[i] \in Nat
  BY Amounts DEF AmountOf, Reserved
<1>4. Cardinality(Units({i}, AmountOf)) = AmountOf[i]
  <2>1. IsFiniteSet({i}) /\ \A x \in {i} : AmountOf[x] \in Nat
    BY <1>3, FS_Singleton
  <2>2. {i} \ {i} = {} /\ Units({}, AmountOf) = {}
    BY DEF Units
  <2> QED BY <1>3, <2>1, <2>2, UnitsAdd, FS_EmptySet
<1> QED BY <1>1, <1>2, <1>3, <1>4, ReservedAddsUp

\* A project has no more machines where it has not got others.
LEMMA NoMoreMachines ==
  ASSUME ElectionTypeOK, NEW p, OfProject(server, p)' \subseteq OfProject(server, p)
  PROVE  Allocated(server, p)' <= Allocated(server, p) /\ Allocated(server, p)' \in Nat /\ Allocated(server, p) \in Nat
<1>1. IsFiniteSet(OfProject(server, p))
  BY ElectionAssumption, FS_Subset DEF OfProject
<1> QED BY <1>1, FS_Subset, FS_CardinalityType DEF Allocated

\* The amounts are kept where no project gets a machine or asks for one.
LEMMA AmountsKept ==
  ASSUME ElectionTypeOK, WithinAmounts, UNCHANGED reservation,
         \A p \in Tenants : OfProject(server, p)' \subseteq OfProject(server, p) /\ UnderWayFor(p)' \subseteq UnderWayFor(p)
  PROVE  WithinAmounts'
<1> SUFFICES ASSUME NEW i \in Reserved(reservation), NEW p \in Tenants, reservation[i].project = p
             PROVE  /\ Allocated(server, p)' <= reservation[i].amount
                    /\ UnderWayFor(p)' # {} => Allocated(server, p)' < reservation[i].amount
  BY DEF WithinAmounts, Reserved
<1>1. reservation[i].amount \in Nat
  BY Amounts DEF Reserved
<1>2. Allocated(server, p)' <= Allocated(server, p) /\ Allocated(server, p)' \in Nat /\ Allocated(server, p) \in Nat
  BY NoMoreMachines
<1>3. Allocated(server, p) <= reservation[i].amount /\ (UnderWayFor(p) # {} => Allocated(server, p) < reservation[i].amount)
  BY DEF WithinAmounts
<1> QED BY <1>1, <1>2, <1>3

\* They do not ask for more.
LEMMA NoneAsks ==
  ASSUME GoOn, NEW p \in Tenants PROVE UnderWayFor(p)' \subseteq UnderWayFor(p)
BY ElectionAssumption DEF GoOn, UnderWayFor

\* A machine of nobody is committed to the project of its request; no other gets one by a step.
LEMMA MachinesOfProjects ==
  ASSUME ElectionInv,
         \/ \E c \in Requests : Elect(c) \/ ElectionFails(c) \/ Rollback(c)
         \/ \E m \in Servers : FreeMachine(m) \/ Readiness(m) \/ Liveliness(m),
         ~\E c \in Requests : Commit(c)
  PROVE  \A p \in Tenants : OfProject(server, p)' \subseteq OfProject(server, p)
<1>1. server \in [Servers -> ServerRow]
  BY TypedRows DEF ElectionInv
<1>2. ASSUME NEW m \in Servers, NEW row, server'[m] = row, \A s \in Servers : s # m => server'[s] = server[s],
             row.project \in {server[m].project, Nobody}
      PROVE  \A p \in Tenants : OfProject(server, p)' \subseteq OfProject(server, p)
  BY <1>2, ElectionAssumption DEF OfProject
<1>3. ASSUME UNCHANGED server PROVE \A p \in Tenants : OfProject(server, p)' \subseteq OfProject(server, p)
  BY <1>3 DEF OfProject
<1>4. ASSUME NEW c \in Requests, Elect(c)
      PROVE  \A p \in Tenants : OfProject(server, p)' \subseteq OfProject(server, p)
  <2>1. CASE GiveUp(c)
    BY <1>3, <2>1 DEF GiveUp
  <2>2. ASSUME NEW m \in Servers, WriteServer(m, [server[m] EXCEPT !.pre = TRUE])
        PROVE  \A p \in Tenants : OfProject(server, p)' \subseteq OfProject(server, p)
    <3>1. [server[m] EXCEPT !.pre = TRUE].project = server[m].project
      BY <1>1 DEF ServerRow
    <3> QED BY <1>1, <1>2, <2>2, <3>1 DEF WriteServer
  <2> QED BY <1>4, <2>1, <2>2, ElectMarks
<1>5. ASSUME \/ \E c \in Requests : Rollback(c)
             \/ \E m \in Servers : FreeMachine(m) \/ Readiness(m) \/ Liveliness(m)
      PROVE  \A p \in Tenants : OfProject(server, p)' \subseteq OfProject(server, p)
  <2>1. \/ UNCHANGED server
        \/ \E m \in Servers, row \in ServerRow :
              /\ server'[m] = row /\ \A s \in Servers : s # m => server'[s] = server[s]
              /\ row.project \in {server[m].project, Nobody}
    BY <1>5, MachinesWritten
  <2> QED BY <1>2, <1>3, <2>1
<1> QED BY <1>3, <1>4, <1>5 DEF ElectionFails, GiveUp

LEMMA RequestWithin ==
  ASSUME AllModest, ElectionInv, ReservationsInv, NEW c \in Requests, NEW p \in Tenants, NEW role \in Roles,
         NEW tags \in SUBSET PlacementTags, NEW m \in Servers \cup {Nobody}, Request(c, p, role, tags, m)
  PROVE  ReservationsInv'
<1>1. /\ UNCHANGED <<server, reservation>> /\ Modest(p) /\ UnderWayFor(p) = {}
      /\ \A d \in Requests : request'[d].project \in {request[d].project, p}
  BY BeginningReadsNothing DEF Request, AllModest, ElectionAssumptions
<1>2. ElectionTypeOK
  BY DEF ElectionInv
<1>3. Unshared'
  BY <1>1 DEF ReservationsInv, Unshared, Reserved
<1>4. ASSUME NEW i \in Reserved(reservation), NEW q \in Tenants, reservation[i].project = q
      PROVE  /\ Allocated(server, q) <= reservation[i].amount
             /\ UnderWayFor(q)' # {} => Allocated(server, q) < reservation[i].amount
  <2>1. CASE q = p
    <3>1. Allocated(server, p) \in Nat /\ reservation[i].amount \in Nat
      BY <1>2, Amounts DEF Reserved
    <3>2. Allocated(server, p) + Cardinality({}) < ReservedFor(p)
      BY <1>1, <1>4, <2>1 DEF Modest
    <3>3. Allocated(server, p) < reservation[i].amount
      BY <1>2, <1>4, <2>1, <3>1, <3>2, OneReservation, FS_EmptySet DEF ReservationsInv
    <3> QED BY <2>1, <3>1, <3>3
  <2>2. CASE q # p
    <3>1. UnderWayFor(q)' \subseteq UnderWayFor(q)
      BY <1>1, <2>2 DEF UnderWayFor
    <3> QED BY <1>4, <3>1 DEF ReservationsInv, WithinAmounts
  <2> QED BY <2>1, <2>2
<1>5. WithinAmounts'
  BY <1>1, <1>4 DEF WithinAmounts, Reserved, Allocated, OfProject
<1> QED BY <1>3, <1>5 DEF ReservationsInv

LEMMA CommitWithin ==
  ASSUME AllModest, ElectionInv, WithinAmounts, NEW c \in Requests, Commit(c)
  PROVE  WithinAmounts'
<1>1. /\ server \in [Servers -> ServerRow] /\ request \in [Requests -> RequestRow] /\ ElectionTypeOK
      /\ request[c].server \in Servers /\ request[c].project \in Tenants /\ request[c].pc = "commit"
      /\ OneEach /\ UNCHANGED reservation /\ GoOn
  <2>1. GoOn
    BY RequestsGoOn
  <2>2. request[c].pc = "commit" /\ UNCHANGED reservation
    BY DEF Commit
  <2>3. request[c] \in RequestRow /\ server \in [Servers -> ServerRow] /\ request \in [Requests -> RequestRow]
    BY TypedRows DEF ElectionInv
  <2>4. request[c].project \in Tenants
    BY <2>2, <2>3 DEF ElectionInv, Elections, RequestRow
  <2> QED BY <2>1, <2>2, <2>3, <2>4 DEF ElectionInv, Elections, AllModest, ElectionAssumptions
<1>2. PICK m \in Servers, q \in Tenants : m = request[c].server /\ q = request[c].project
  BY <1>1
<1>3. CASE UNCHANGED server
  <2>1. \A p \in Tenants : OfProject(server, p)' \subseteq OfProject(server, p) /\ UnderWayFor(p)' \subseteq UnderWayFor(p)
    BY <1>1, <1>3, NoneAsks DEF OfProject
  <2> QED BY <1>1, <2>1, AmountsKept
<1>4. CASE ~UNCHANGED server
  <2> DEFINE row == [server[m] EXCEPT !.project = q, !.pre = FALSE,
                                     !.role = request[c].role, !.tags = request[c].tags]
  <2>1. server[m].project = Nobody /\ server' = [server EXCEPT ![m] = row] /\ Proceed(m, c, NoRequest)
    BY <1>2, <1>4 DEF Commit, WriteServer, GiveUp
  <2>2. row.project = q
    BY <1>1 DEF ServerRow
  <2> HIDE DEF row
  <2>3. server'[m].project = q /\ \A s \in Servers : s # m => server'[s] = server[s]
    BY <1>1, <2>1, <2>2
  <2>4. NoRequest.project = Nobody /\ request'[c] = NoRequest
    <3>1. NoRequest \in RequestRow /\ NoRequest.project = Nobody
      BY NewRows
    <3> QED BY <2>1, <3>1, CopiesOutdated
  <2>5. UnderWayFor(q)' = {}
    <3>1. ASSUME NEW d \in Requests, request'[d].project = q PROVE FALSE
      BY <1>1, <1>2, <2>4, <3>1, ElectionAssumption DEF GoOn, OneEach
    <3> QED BY <3>1 DEF UnderWayFor
  <2> SUFFICES ASSUME NEW i \in Reserved(reservation), NEW p \in Tenants, reservation[i].project = p
               PROVE  /\ Allocated(server, p)' <= reservation[i].amount
                      /\ UnderWayFor(p)' # {} => Allocated(server, p)' < reservation[i].amount
    BY <1>1 DEF WithinAmounts, Reserved
  <2>6. reservation[i].amount \in Nat
    BY <1>1, Amounts DEF Reserved
  <2>7. CASE p = q
    <3>1. Allocated(server, q) < reservation[i].amount /\ Allocated(server, q) \in Nat
      BY <1>1, <1>2, <2>7, Amounts DEF WithinAmounts, UnderWayFor
    <3>2. OfProject(server, q)' = OfProject(server, q) \cup {m} /\ m \notin OfProject(server, q)
      BY <2>1, <2>3, ElectionAssumption DEF OfProject
    <3>3. Allocated(server, q)' = Allocated(server, q) + 1
      <4>1. IsFiniteSet(OfProject(server, q))
        BY ElectionAssumption, FS_Subset DEF OfProject
      <4> QED BY <3>2, <4>1, FS_AddElement DEF Allocated
    <3> QED BY <2>5, <2>6, <2>7, <3>1, <3>3
  <2>8. CASE p # q
    <3>1. OfProject(server, p)' \subseteq OfProject(server, p)
      BY <2>3, <2>8 DEF OfProject
    <3>2. Allocated(server, p)' <= Allocated(server, p) /\ Allocated(server, p)' \in Nat /\ Allocated(server, p) \in Nat
      BY <1>1, <3>1, NoMoreMachines
    <3>3. UnderWayFor(p)' \subseteq UnderWayFor(p)
      BY <1>1, NoneAsks
    <3>4. Allocated(server, p) <= reservation[i].amount /\ (UnderWayFor(p) # {} => Allocated(server, p) < reservation[i].amount)
      BY DEF WithinAmounts
    <3> QED BY <2>6, <3>2, <3>3, <3>4
  <2> QED BY <2>7, <2>8
<1> QED BY <1>3, <1>4

LEMMA SetWithin ==
  ASSUME AllModest, ElectionInv, ReservationsInv, NEW i \in Reservations,
         (\E p \in Tenants, amount \in 0..MaxAmount : SetReservation(i, p, amount)) \/ DeleteReservation(i)
  PROVE  ReservationsInv'
<1>1. UNCHANGED <<server, request>> /\ reservation \in [Reservations -> [project: Tenants \cup {Nobody}, amount: 0..MaxAmount]]
  BY DEF SetReservation, DeleteReservation, ElectionInv, ElectionTypeOK, ReservationRows
<1>2. \A p : Allocated(server, p)' = Allocated(server, p) /\ UnderWayFor(p)' = UnderWayFor(p)
  BY <1>1 DEF Allocated, OfProject, UnderWayFor
<1>3. ASSUME NEW row, reservation' = [reservation EXCEPT ![i] = row],
             row.project # Nobody => /\ \A j \in Reserved(reservation) \ {i} : reservation[j].project # row.project
                                     /\ Allocated(server, row.project) <= row.amount
                                     /\ UnderWayFor(row.project) # {} => Allocated(server, row.project) < row.amount
      PROVE  Unshared' /\ WithinAmounts'
  <2>1. reservation'[i] = row /\ \A j \in Reservations : j # i => reservation'[j] = reservation[j]
    BY <1>1, <1>3
  <2>2. Unshared'
    BY <1>3, <2>1 DEF ReservationsInv, Unshared, Reserved
  <2>3. WithinAmounts'
    BY <1>2, <1>3, <2>1 DEF ReservationsInv, WithinAmounts, Reserved
  <2> QED BY <2>2, <2>3
<1>4. ASSUME NEW p \in Tenants, NEW amount \in 0..MaxAmount, SetReservation(i, p, amount)
      PROVE  Unshared' /\ WithinAmounts'
  <2>1. /\ \A j \in Reserved(reservation) \ {i} : reservation[j].project # p
        /\ Allocated(server, p) + Cardinality(UnderWayFor(p)) <= amount
        /\ reservation' = [reservation EXCEPT ![i] = [project |-> p, amount |-> amount]]
    BY <1>4 DEF SetReservation, AllModest, ElectionAssumptions
  <2>2. Allocated(server, p) \in Nat /\ amount \in Nat
    BY Amounts, ElectionAssumption DEF ElectionInv
  <2>3. UnderWayFor(p) = {} \/ \E c \in Requests : UnderWayFor(p) = {c}
    BY ElectionAssumption DEF UnderWayFor, ElectionInv, OneEach, AllModest, ElectionAssumptions
  <2>4. Cardinality(UnderWayFor(p)) = IF UnderWayFor(p) = {} THEN 0 ELSE 1
    BY <2>3, FS_EmptySet, FS_Singleton
  <2>5. Allocated(server, p) <= amount /\ (UnderWayFor(p) # {} => Allocated(server, p) < amount)
    BY <2>1, <2>2, <2>4
  <2> QED BY <1>3, <2>1, <2>5
<1>5. ASSUME DeleteReservation(i) PROVE Unshared' /\ WithinAmounts'
  BY <1>3, <1>5 DEF DeleteReservation, NoReservation
<1> QED BY <1>2, <1>4, <1>5 DEF ReservationsInv

LEMMA ReservationsSteps ==
  ASSUME AllModest, ElectionInv, ReservationsInv, ElectionNext \/ UNCHANGED electionVars
  PROVE  ReservationsInv'
<1>1. ASSUME UNCHANGED reservation,
             \A p \in Tenants : OfProject(server, p)' \subseteq OfProject(server, p) /\ UnderWayFor(p)' \subseteq UnderWayFor(p)
      PROVE  ReservationsInv'
  BY <1>1, AmountsKept DEF ReservationsInv, ElectionInv, Unshared, Reserved
<1>2. CASE UNCHANGED electionVars
  BY <1>1, <1>2 DEF electionVars, OfProject, UnderWayFor
<1>4. ASSUME NEW c \in Requests, Commit(c) PROVE ReservationsInv'
  <2>1. UNCHANGED reservation
    BY <1>4 DEF Commit
  <2> QED BY <1>4, <2>1, CommitWithin DEF ReservationsInv, Unshared, Reserved
<1>3. ASSUME \/ \E c \in Requests : Elect(c) \/ ElectionFails(c) \/ Rollback(c)
             \/ \E m \in Servers : FreeMachine(m) \/ Readiness(m) \/ Liveliness(m)
      PROVE  ReservationsInv'
  <2>1. GoOn
    BY <1>3, RequestsGoOn
  <2>2. UNCHANGED reservation
    BY <1>3 DEF Elect, ElectionFails, Rollback, FreeMachine, Readiness, Liveliness
  <2>3. CASE ~\E c \in Requests : Commit(c)
    BY <1>1, <1>3, <2>1, <2>2, <2>3, MachinesOfProjects, NoneAsks
  <2> QED BY <1>4, <2>3
<1>5. ASSUME NEW c \in Requests, Reading(c) PROVE ReservationsInv'
  <2>1. UNCHANGED <<server, reservation, requests, changes>>
    BY <1>5, ReadingReads
  <2>2. \A d \in Requests : request'[d].project \in {request[d].project, Nobody}
    <3>1. PICK next \in RequestRow : /\ request' = [request EXCEPT ![c] = next]
                                     /\ next.project \in {request[c].project, Nobody}
      BY <1>5, ReadingReads, NewRows DEF GiveUp, Reads
    <3> QED BY <3>1, RequestChanges
  <2>3. \A p \in Tenants : OfProject(server, p)' \subseteq OfProject(server, p) /\ UnderWayFor(p)' \subseteq UnderWayFor(p)
    BY <2>1, <2>2, ElectionAssumption DEF OfProject, UnderWayFor
  <2> QED BY <1>1, <2>1, <2>3
<1> QED BY <1>2, <1>3, <1>4, <1>5, RequestWithin, SetWithin, StepsOfElections

\* Fewer units where there is no more of anything, and one less where there is less of something.
LEMMA FewerUnits ==
  ASSUME NEW S, IsFiniteSet(S), NEW f, NEW g, \A x \in S : f[x] \in Nat /\ g[x] \in Nat /\ g[x] <= f[x]
  PROVE  /\ Cardinality(Units(S, f)) \in Nat /\ Cardinality(Units(S, g)) \in Nat
         /\ Cardinality(Units(S, g)) <= Cardinality(Units(S, f))
         /\ (\E x \in S : g[x] < f[x]) => Cardinality(Units(S, g)) < Cardinality(Units(S, f))
<1>1. IsFiniteSet(Units(S, f)) /\ Cardinality(Units(S, f)) \in Nat /\ Cardinality(Units(S, g)) \in Nat
  BY UnitsAdd
<1>2. Units(S, g) \subseteq Units(S, f)
  <2>1. ASSUME NEW x \in S, NEW k \in Nat, k < g[x] PROVE k < f[x]
    BY <2>1
  <2> QED BY <2>1 DEF Units
<1>3. ASSUME NEW x \in S, g[x] < f[x] PROVE Units(S, g) # Units(S, f)
  <2>1. <<x, g[x]>> \in Units(S, f) /\ <<x, g[x]>> \notin Units(S, g)
    BY <1>3 DEF Units
  <2> QED BY <2>1
<1> QED BY <1>1, <1>2, <1>3, FS_Subset

\* Where a project has one reservation, no more is unused than is due.
LEMMA UnusedIsDue ==
  ASSUME ElectionTypeOK, Unshared
  PROVE  Cardinality(Units(Tenants, UnusedBy)) <= Cardinality(Units(Reserved(reservation), Due(server)))
<1>1. ASSUME NEW p \in Tenants, NEW k \in Nat, k < UnusedBy[p]
      PROVE  \E i \in Reserved(reservation) : reservation[i].project = p /\ k < Due(server)[i]
  <2>1. /\ UnusedBy[p] = Larger(ReservedFor(p) - Allocated(server, p) - Cardinality(Pending(p)), 0)
        /\ ReservedFor(p) \in Nat /\ Allocated(server, p) \in Nat /\ Cardinality(Pending(p)) \in Nat
    BY UnusedAmounts DEF UnusedBy, Unused
  <2>2. k < ReservedFor(p) - Allocated(server, p)
    BY <1>1, <2>1 DEF Larger
  <2>3. Of(p) # {}
    <3>1. Of(p) = {} => ReservedFor(p) = Cardinality({})
      <4>1. Units({}, AmountOf) = {}
        BY DEF Units
      <4> QED BY <4>1, ReservedAddsUp
    <3> QED BY <2>1, <2>2, <3>1, FS_EmptySet
  <2>4. PICK i \in Reserved(reservation) : reservation[i].project = p
    BY <2>3 DEF Of
  <2>5. ReservedFor(p) = reservation[i].amount
    BY <2>4, OneReservation
  <2>6. Due(server)[i] = Larger(reservation[i].amount - Allocated(server, p), 0) /\ reservation[i].amount \in Nat
    BY <2>4, Amounts DEF Due, Reserved
  <2>7. k < Due(server)[i]
    BY <2>1, <2>2, <2>5, <2>6 DEF Larger
  <2> QED BY <2>4, <2>7
<1> DEFINE from == [u \in Units(Tenants, UnusedBy) |->
                      <<CHOOSE i \in Reserved(reservation) : reservation[i].project = u[1] /\ u[2] < Due(server)[i], u[2]>>]
<1>2. ASSUME NEW u \in Units(Tenants, UnusedBy)
      PROVE  /\ from[u] \in Units(Reserved(reservation), Due(server))
             /\ reservation[from[u][1]].project = u[1] /\ from[u][2] = u[2] /\ u = <<u[1], u[2]>>
  <2>1. u[1] \in Tenants /\ u[2] \in Nat /\ u[2] < UnusedBy[u[1]] /\ u = <<u[1], u[2]>>
    BY DEF Units
  <2>2. \E i \in Reserved(reservation) : reservation[i].project = u[1] /\ u[2] < Due(server)[i]
    BY <1>1, <2>1
  <2> QED BY <2>1, <2>2 DEF Units
<1> HIDE DEF from
<1>3. from \in Injection(Units(Tenants, UnusedBy), Units(Reserved(reservation), Due(server)))
  <2>1. from \in [Units(Tenants, UnusedBy) -> Units(Reserved(reservation), Due(server))]
    <3>1. DOMAIN from = Units(Tenants, UnusedBy) /\ from = [u \in Units(Tenants, UnusedBy) |-> from[u]]
      BY DEF from
    <3> QED BY <1>2, <3>1
  <2>2. ASSUME NEW u \in Units(Tenants, UnusedBy), NEW v \in Units(Tenants, UnusedBy), from[u] = from[v] PROVE u = v
    BY <1>2, <2>2
  <2> QED BY <2>1, <2>2 DEF Injection, IsInjective
<1>4. IsFiniteSet(Units(Reserved(reservation), Due(server)))
  <2>1. IsFiniteSet(Reserved(reservation)) /\ \A i \in Reserved(reservation) : Due(server)[i] \in Nat
    BY ElectionAssumption, FS_Subset, Amounts DEF Reserved
  <2> QED BY <2>1, UnitsAdd
<1> QED BY <1>3, <1>4, FS_Injection

\* An election leaves enough machines for the reservations that are not used yet.
LEMMA ElectionsLeaveEnough ==
  ASSUME AllModest, ElectionInv, ReadsInv, ReservationsInv, ElectionNext,
         NEW c \in Requests, NEW m \in Servers, Elects(c, m), Backed
  PROVE  Backed'
<1>1. /\ ElectionTypeOK /\ ElectionTypeOK' /\ SumsCount /\ SumsCount'
      /\ server \in [Servers -> ServerRow] /\ request[c] \in RequestRow
  <2>1. ElectionTypeOK /\ ElectionTypeOK'
    BY ElectionSteps DEF ElectionInv
  <2>2. SumsCount /\ SumsCount'
    BY <2>1, SumsAreUnits, PTL
  <2> QED BY <2>1, <2>2, TypedRows
<1> DEFINE rows == request[c].rows
<1>2. PICK p \in Tenants : p = request[c].project
  BY <1>1, ElectsChooses DEF ElectionInv, Elections, RequestRow
<1>3. /\ request[c].bookings = reservation /\ request[c].available \subseteq Waiting
      /\ \A s \in Servers : rows[s].project # Nobody => server[s].project = rows[s].project
  BY ElectsChooses DEF ReadsInv
<1>15. PICK list \in Listings(reservation) : CheckSizeReservations(rows, reservation, p, request[c].available, list)
  BY <1>2, <1>3, ElectsChooses
<1>4. /\ m \in Waiting /\ UNCHANGED reservation /\ server' = [server EXCEPT ![m] = [server[m] EXCEPT !.pre = TRUE]]
  BY <1>3, ElectsChooses DEF WriteServer
<1>5. /\ server'[m].pre /\ server'[m].project = server[m].project
      /\ server'[m].waiting = server[m].waiting /\ server'[m].alive = server[m].alive
      /\ \A s \in Servers : s # m => server'[s] = server[s]
  BY <1>1, <1>4 DEF ServerRow
<1>6. /\ request'[c].server = m /\ request[c].server = Nobody /\ \A d \in Requests : request'[d].project = request[d].project
      /\ \A d \in Requests : d # c => request'[d].server = request[d].server
  <2>1. PICK next \in RequestRow : /\ Proceed(m, c, next) /\ next.pc = "commit" /\ next.server = m
                                   /\ next.project = request[c].project
    BY ElectsChooses
  <2>2. request[c].server = Nobody
    BY ElectsChooses DEF ElectionInv, Elections, Electing
  <2>3. request'[c] = next /\ \A d \in Requests : d # c => Same(d)
    BY <2>1, CopiesOutdated
  <2> QED BY <2>1, <2>2, <2>3 DEF Same
<1>7. Cardinality(Waiting)' = Cardinality(Waiting) - 1 /\ Cardinality(Waiting) \in Nat /\ IsFiniteSet(Waiting)
  <2>1. IsFiniteSet(Waiting)
    BY ElectionAssumption, FS_Subset DEF Waiting, Candidates
  <2>2. Waiting' = Waiting \ {m}
    BY <1>5 DEF Waiting, Candidates
  <2> QED BY <1>4, <2>1, <2>2, FS_RemoveElement, FS_CardinalityType
<1>8. ASSUME NEW q \in Tenants
      PROVE  /\ Allocated(server, q)' = Allocated(server, q) /\ ReservedFor(q)' = ReservedFor(q)
             /\ Pending(q) \subseteq Pending(q)' /\ IsFiniteSet(Pending(q)')
  <2>1. OfProject(server, q)' = OfProject(server, q)
    BY <1>5 DEF OfProject
  <2>2. Units(Of(q), AmountOf)' = Units(Of(q), AmountOf)
    BY <1>4 DEF Units, Of, AmountOf, Reserved
  <2>3. Pending(q) \subseteq Pending(q)'
    <3>1. m \notin Pending(q)
      BY DEF Pending, Elects
    <3>2. ASSUME NEW s \in Pending(q) PROVE s \in Pending(q)'
      <4>1. s \in Servers /\ s # m /\ server[s].pre /\ server'[s].pre
        BY <1>5, <3>1, <3>2 DEF Pending
      <4>2. PICK d \in Requests : request[d].project = q /\ request[d].server = s
        BY <3>2 DEF Pending, UnderWayFor
      <4>3. d # c
        BY <1>6, <4>1, <4>2, ElectionAssumption
      <4> QED BY <1>6, <4>1, <4>2, <4>3 DEF Pending, UnderWayFor
    <3> QED BY <3>2
  <2>4. IsFiniteSet(Pending(q)')
    <3>1. Pending(q)' \subseteq Servers
      BY DEF Pending
    <3> QED BY <3>1, ElectionAssumption, FS_Subset
  <2> QED BY <1>1, <2>1, <2>2, <2>3, <2>4 DEF Allocated, SumsCount
<1>9. ASSUME NEW q \in Tenants
      PROVE  /\ Unused(q)' \in Nat /\ Unused(q) \in Nat /\ Unused(q)' <= Unused(q)
             /\ Unused(q)' = Larger(ReservedFor(q) - Allocated(server, q) - Cardinality(Pending(q))', 0)
             /\ Cardinality(Pending(q))' \in Nat
  <2>1. /\ Unused(q)' = Larger(ReservedFor(q) - Allocated(server, q) - Cardinality(Pending(q))', 0)
        /\ Unused(q) = Larger(ReservedFor(q) - Allocated(server, q) - Cardinality(Pending(q)), 0)
    BY <1>8 DEF Unused, Larger
  <2>2. Cardinality(Pending(q)) <= Cardinality(Pending(q))' /\ Cardinality(Pending(q))' \in Nat
    BY <1>8, FS_Subset, FS_CardinalityType
  <2>3. ReservedFor(q) \in Nat /\ Allocated(server, q) \in Nat /\ Cardinality(Pending(q)) \in Nat
    BY <1>1, UnusedAmounts
  <2> QED BY <2>1, <2>2, <2>3 DEF Larger
<1>10. /\ Cardinality(Units(Tenants, UnusedBy')) \in Nat /\ Cardinality(Units(Tenants, UnusedBy)) \in Nat
       /\ Cardinality(Units(Tenants, UnusedBy')) <= Cardinality(Units(Tenants, UnusedBy))
       /\ (\E q \in Tenants : Unused(q)' < Unused(q)) =>
             Cardinality(Units(Tenants, UnusedBy')) < Cardinality(Units(Tenants, UnusedBy))
  <2>1. \A q \in Tenants : UnusedBy[q] = Unused(q) /\ UnusedBy'[q] = Unused(q)'
    BY DEF UnusedBy
  <2>2. IsFiniteSet(Tenants)
    BY ElectionAssumption
  <2>3. \A q \in Tenants : UnusedBy[q] \in Nat /\ UnusedBy'[q] \in Nat /\ UnusedBy'[q] <= UnusedBy[q]
    BY <1>9, <2>1
  <2> QED BY <2>1, <2>2, <2>3, FewerUnits
<1>11. /\ Backed' <=> Cardinality(Units(Tenants, UnusedBy')) <= Cardinality(Waiting)'
       /\ Cardinality(Units(Tenants, UnusedBy)) <= Cardinality(Waiting)
  <2>1. Units(Tenants, UnusedBy)' = Units(Tenants, UnusedBy')
    BY DEF Units
  <2> QED BY <1>1, <2>1 DEF SumsCount
<1>12. CASE Entitled(rows, reservation, p)
  <2>1. PICK i \in Reserved(reservation) : reservation[i].project = p /\ Allocated(server, p) < reservation[i].amount
    <3>1. c \in UnderWayFor(p)
      BY <1>2 DEF UnderWayFor
    <3> QED BY <1>12, <3>1 DEF Entitled, ReservationsInv, WithinAmounts
  <2>2. ReservedFor(p) = reservation[i].amount
    BY <1>1, <2>1, OneReservation DEF ReservationsInv
  <2>3. Pending(p) = {}
    <3>1. \A d \in Requests : request[d].project = p => d = c
      BY <1>2, ElectionAssumption DEF ElectionInv, OneEach, AllModest, ElectionAssumptions
    <3> QED BY <1>6, <3>1, ElectionAssumption DEF Pending, UnderWayFor
  <2>4. m \in Pending(p)'
    BY <1>2, <1>5, <1>6 DEF Pending, UnderWayFor
  <2>5. Cardinality(Pending(p))' >= 1
    <3>1. Cardinality(Pending(p))' # 0
      BY <1>8, <2>4, FS_EmptySet
    <3> QED BY <1>9, <3>1
  <2>6. Unused(p)' < Unused(p)
    <3>1. Unused(p) = ReservedFor(p) - Allocated(server, p)
      <4>1. ReservedFor(p) \in Nat /\ Allocated(server, p) \in Nat /\ Cardinality(Pending(p)) = 0
        BY <1>1, <2>3, UnusedAmounts, FS_EmptySet
      <4> QED BY <2>1, <2>2, <4>1 DEF Unused, Larger
    <3>2. ReservedFor(p) \in Nat /\ Allocated(server, p) \in Nat
      BY <1>1, UnusedAmounts
    <3> QED BY <1>9, <2>1, <2>2, <2>5, <3>1, <3>2 DEF Larger
  <2>7. Cardinality(Units(Tenants, UnusedBy')) < Cardinality(Units(Tenants, UnusedBy))
    BY <1>10, <2>6
  <2> QED BY <1>7, <1>10, <1>11, <2>7
<1>13. CASE Reserved(reservation) = {}
  <2>1. Units(Reserved(reservation), Due(server)) = {}
    BY <1>13 DEF Units
  <2>2. Cardinality(Units(Tenants, UnusedBy)) <= 0
    BY <1>1, <2>1, UnusedIsDue, FS_EmptySet DEF ReservationsInv
  <2>3. 1 <= Cardinality(Waiting)
    <3>1. Cardinality(Waiting) # 0
      BY <1>4, <1>7, FS_EmptySet
    <3> QED BY <1>7, <3>1
  <2> QED BY <1>7, <1>10, <1>11, <2>2, <2>3
<1>14. CASE KeptFor(rows, reservation, list) < Cardinality(request[c].available)
  <2>1. Cardinality(request[c].available) <= Cardinality(Waiting) /\ Cardinality(request[c].available) \in Nat
    BY <1>3, <1>7, FS_Subset, FS_CardinalityType
  <2> HIDE DEF rows
  <2>2. \A q \in Tenants : /\ Allocated(rows, q) <= Allocated(server, q)
                           /\ Allocated(rows, q) \in Nat /\ Allocated(server, q) \in Nat
    <3> SUFFICES ASSUME NEW q \in Tenants
                 PROVE  /\ Allocated(rows, q) <= Allocated(server, q)
                        /\ Allocated(rows, q) \in Nat /\ Allocated(server, q) \in Nat
      OBVIOUS
    <3>1. OfProject(rows, q) \subseteq OfProject(server, q) /\ IsFiniteSet(OfProject(server, q))
      BY <1>3, ElectionAssumption, FS_Subset DEF OfProject, rows
    <3> QED BY <3>1, FS_Subset, FS_CardinalityType DEF Allocated
  <2>3. \A i \in Reserved(reservation) :
           /\ reservation[i].project \in Tenants /\ reservation[i].amount \in Nat
           /\ Allocated(server, reservation[i].project) <= reservation[i].amount
    BY <1>1, Amounts DEF ReservationsInv, WithinAmounts, Reserved, ElectionTypeOK, ReservationRows
  <2>4. \A i \in Reserved(reservation) : Allocated(rows, reservation[i].project) <= reservation[i].amount
    BY <2>2, <2>3
  <2>5. /\ KeptFor(rows, reservation, list) = Cardinality(Units(Reserved(reservation), Due(rows)))
        /\ KeptFor(rows, reservation, list) \in Int /\ Cardinality(Units(Reserved(reservation), Due(rows))) \in Nat
    BY <1>1, <2>4, KeptIsDue
  <2>6. Cardinality(Units(Tenants, UnusedBy)) <= Cardinality(Units(Reserved(reservation), Due(server)))
    BY <1>1, UnusedIsDue DEF ReservationsInv
  <2>7. /\ Cardinality(Units(Reserved(reservation), Due(server))) <= Cardinality(Units(Reserved(reservation), Due(rows)))
        /\ Cardinality(Units(Reserved(reservation), Due(server))) \in Nat
    <3>1. IsFiniteSet(Reserved(reservation))
      BY ElectionAssumption, FS_Subset DEF Reserved
    <3>2. \A i \in Reserved(reservation) : Due(rows)[i] \in Nat /\ Due(server)[i] \in Nat /\ Due(server)[i] <= Due(rows)[i]
      <4> SUFFICES ASSUME NEW i \in Reserved(reservation)
                   PROVE  Due(rows)[i] \in Nat /\ Due(server)[i] \in Nat /\ Due(server)[i] <= Due(rows)[i]
        OBVIOUS
      <4>1. /\ Due(rows)[i] = Larger(reservation[i].amount - Allocated(rows, reservation[i].project), 0)
            /\ Due(server)[i] = Larger(reservation[i].amount - Allocated(server, reservation[i].project), 0)
        BY DEF Due, Reserved
      <4> QED BY <2>2, <2>3, <4>1 DEF Larger
    <3> HIDE DEF Due
    <3> QED BY <3>1, <3>2, FewerUnits
  <2> QED BY <1>7, <1>10, <1>11, <1>14, <2>1, <2>5, <2>6, <2>7
<1> QED BY <1>15, <1>12, <1>13, <1>14 DEF CheckSizeReservations

-----------------------------------------------------------------------------
(* The theorems.                                                           *)

LEMMA CatalogueWellFormed == ASSUME CatalogueInv PROVE CatalogueTypeOK /\ ReferencesValid
<1>1. /\ Tables /\ place \in SUBSET Places /\ project \in SUBSET Projects /\ edits \in 0..MaxEdits
      /\ booking \in [BookingIDs -> BookingRow \cup {NoBooking}] /\ host \in [Hosts -> HostRow]
      /\ call \in [Callers -> CallState] /\ cleanup \in CleanupState /\ ReferencesValid
  BY DEF CatalogueInv, CatalogueTyped
<1>2. \A b \in BookingIDs : booking[b].size \in SizeIDs \cup {None}
  BY <1>1 DEF BookingRow, NoBooking
<1>3. \A h \in Hosts : /\ host[h].size \in SizeIDs \cup {None, "unknown"}
                       /\ host[h].project \in Projects \cup {None}
                       /\ {host[h].image, host[h].setup} \subseteq Images \cup {None}
  BY <1>1 DEF HostRow
<1>4. /\ \A c \in Callers : call[c].does \in Tasks \cup {"nothing"}
      /\ cleanup.pc \in {"idle", "machines", "delete"}
  BY <1>1 DEF CallState, CleanupState
<1> QED BY <1>1, <1>2, <1>3, <1>4 DEF CatalogueTypeOK, Tables

\* What is always so, of the catalogue and of the election.
THEOREM InventoryInvariant ==
  ASSUME AllTaken PROVE Spec => [](CatalogueInv /\ ElectionInv)
<1>1. Init => CatalogueInv /\ ElectionInv
  BY CatalogueStart, ElectionStart DEF Init
<1>2. CatalogueInv /\ ElectionInv /\ [Next]_inventoryVars => (CatalogueInv /\ ElectionInv)'
  <2> SUFFICES ASSUME CatalogueInv, ElectionInv, [Next]_inventoryVars PROVE (CatalogueInv /\ ElectionInv)'
    OBVIOUS
  <2>1. CatalogueNext \/ UNCHANGED catalogueVars
    BY DEF Next, inventoryVars
  <2>2. ElectionNext \/ UNCHANGED electionVars
    BY DEF Next, inventoryVars
  <2> QED BY <2>1, <2>2, CatalogueSteps, CatalogueStays, ElectionSteps
<1> QED BY <1>1, <1>2, PTL DEF Spec

(* The tables are well formed; the size, project and image of a machine    *)
(* exist, and so does what a reservation is for.                           *)
THEOREM InventoryIsValid ==
  ASSUME AllTaken PROVE Spec => []InventoryValid
<1>1. CatalogueInv /\ ElectionInv => InventoryValid
  BY CatalogueWellFormed DEF InventoryValid, ElectionInv
<1> QED BY <1>1, InventoryInvariant, PTL

(* When hardware has two sizes, or a size and an image have two filesystem *)
(* layouts, this is for what the comparisons do not see (Blind, Unseen),   *)
(* provided that requests wait for each other: Sizes.FromHardware,         *)
(* Size.overlaps, FilesystemLayouts.Validate.                              *)
THEOREM LookupsAreDetermined ==
  ASSUME "serial" \in CatalogueAssumed PROVE Spec => []LookupsDetermined
<1>1. Init => LookupInv
  BY LookupStart DEF Init
<1>2. LookupInv /\ [Next]_inventoryVars => LookupInv'
  <2> SUFFICES ASSUME LookupInv, [Next]_inventoryVars PROVE LookupInv'
    OBVIOUS
  <2>1. CatalogueNext \/ UNCHANGED catalogueVars
    BY DEF Next, inventoryVars
  <2> QED BY <2>1, LookupSteps DEF Serial
<1>3. LookupInv => LookupsDetermined
  BY ApartDetermines DEF LookupInv
<1> QED BY <1>1, <1>2, <1>3, PTL DEF Spec

(* DeleteOrphanImages deletes no image that is the newest of its operating *)
(* system, whatever else happens to images and machines while it goes      *)
(* through its list, unless a request has deleted the one that was newest. *)
THEOREM NewestImagesAreKept == Spec => CleanupKeepsNewest
<1>1. Init => KeptInv
  BY KeptStart DEF Init
<1>2. KeptInv /\ [Next]_inventoryVars => KeptInv'
  BY KeptSteps DEF Next, inventoryVars
<1>3. KeptInv /\ [Next]_inventoryVars =>
         [\A i \in Images : CleanupImage(i) /\ image[i] # "none" /\ Newest(i) /\ i[1] \notin cleanup.lost
             => image'[i] # "none"]_catalogueVars
  BY NewestIsKept
<1> QED BY <1>1, <1>2, <1>3, PTL DEF Spec, CleanupKeepsNewest

(* The machines of a project are spread over the racks, by what the        *)
(* election has read, if the project asks for one machine at a time and    *)
(* none of its machines is freed between the read and the mark.            *)
THEOREM SpreadIsKept ==
  ASSUME {"oneRequest", "undisturbed"} \subseteq ElectionAssumed PROVE Spec => SpreadKept
<1> DEFINE IInv == ElectionInv /\ ReadsInv /\ OwnRows
<1>1. Init => IInv
  BY ElectionStart, ReadsStart DEF Init
<1>2. IInv /\ [Next]_inventoryVars => IInv'
  BY ElectionSteps, ReadsSteps DEF Next, inventoryVars, Calm
<1>3. IInv /\ [Next]_inventoryVars =>
         [\A c \in Requests, m \in Servers : Elects(c, m) =>
             ~\E n \in request[c].available : Crowded(c, RackOf[m], RackOf[n])]_electionVars
  <2> SUFFICES ASSUME IInv, [Next]_inventoryVars, ~UNCHANGED electionVars,
                      NEW c \in Requests, NEW m \in Servers, Elects(c, m), NEW n \in request[c].available
               PROVE  ~Crowded(c, RackOf[m], RackOf[n])
    OBVIOUS
  <2>1. ElectionNext
    BY DEF Next, inventoryVars
  <2> QED BY <2>1, SpreadSteps DEF Calm
<1> QED BY <1>1, <1>2, <1>3, PTL DEF Spec, SpreadKept

(* What the capacity of the partition has free for a project, or for       *)
(* anybody, an election gives it (calcPartitionCapacity considers the same *)
(* aspects as the query for electing), whatever the reservations are, and  *)
(* in whatever order they are read.                                        *)
THEOREM FreeMachinesAreElectable == Spec => []FreeIsElectable
<1>1. Init => ElectionInv
  BY ElectionStart DEF Init
<1>2. ElectionInv /\ [Next]_inventoryVars => ElectionInv'
  BY ElectionSteps DEF Next, inventoryVars
<1>3. ElectionInv => FreeIsElectable
  BY FreeElectable DEF ElectionInv
<1> QED BY <1>1, <1>2, <1>3, PTL DEF Spec

(* An election leaves enough machines for the reservations that are not    *)
(* used yet, if there were enough (checkSizeReservations), provided that a *)
(* project has one reservation, keeps within it and asks for one machine   *)
(* at a time, and that nothing of what the election reads, one table after *)
(* the other, changes before it marks the machine: a reservation created   *)
(* in between is not seen by it.                                           *)
THEOREM ReservationsAreKept ==
  ASSUME ElectionAssumed = ElectionAssumptions PROVE Spec => ReservationsBacked
<1> DEFINE IInv == ElectionInv /\ ReadsInv /\ OwnRows /\ ReservationsInv
<1>1. Init => IInv
  BY ElectionStart, ReadsStart, ReservationsStart DEF Init, AllModest
<1>2. IInv /\ [Next]_inventoryVars => IInv'
  BY ElectionSteps, ReadsSteps, ReservationsSteps DEF Next, inventoryVars, AllModest, Calm, ElectionAssumptions
<1>3. IInv /\ [Next]_inventoryVars =>
         [\A c \in Requests, m \in Servers : Elects(c, m) => (Backed => Backed')]_electionVars
  <2> SUFFICES ASSUME IInv, [Next]_inventoryVars, ~UNCHANGED electionVars,
                      NEW c \in Requests, NEW m \in Servers, Elects(c, m), Backed
               PROVE  Backed'
    OBVIOUS
  <2>1. ElectionNext
    BY DEF Next, inventoryVars
  <2> QED BY <2>1, ElectionsLeaveEnough DEF AllModest
<1> QED BY <1>1, <1>2, <1>3, PTL DEF Spec, ReservationsBacked
=============================================================================
